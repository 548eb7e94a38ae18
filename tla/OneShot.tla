------------------------------ MODULE OneShot ------------------------------
(***************************************************************************)
(* What an Event promises: the first of set() and cancel() decides, once   *)
(* and for all, and the waiter, whenever it comes, learns the decision     *)
(* exactly once.                                                           *)
(***************************************************************************)
VARIABLES
  decision,     \* "none", then "set" or "canceled" for ever
  waiter        \* "absent", "waiting", then what it learnt: "set" or "canceled"

vars == <<decision, waiter>>

Init == decision = "none" /\ waiter = "absent"

Decide ==
  /\ decision = "none"
  /\ decision' \in {"set", "canceled"}
  /\ UNCHANGED waiter

Wait ==
  /\ waiter = "absent"
  /\ waiter' = "waiting"
  /\ UNCHANGED decision

Learn ==
  /\ waiter = "waiting"
  /\ decision # "none"
  /\ waiter' = decision
  /\ UNCHANGED decision

Next == Decide \/ Wait \/ Learn

\* Nobody has to come or to decide; who waits for a decision taken learns it.
Spec == Init /\ [][Next]_vars /\ WF_vars(Learn)
=============================================================================
