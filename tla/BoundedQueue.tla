--------------------------- MODULE BoundedQueue ---------------------------
(***************************************************************************)
(* What a ring buffer promises to the one that writes it and the one that  *)
(* reads it: a first-in first-out queue.  Items are added a batch at a     *)
(* time; the reader takes what is there, reads it item by item, and then   *)
(* gives the places back.                                                  *)
(***************************************************************************)
EXTENDS Naturals, Sequences

CONSTANTS Item, Capacity

VARIABLES
  queue,    \* what was added and whose place was not given back, oldest first
  taken,    \* how many of them the reader has taken
  batch     \* those it has read

vars == <<queue, taken, batch>>

Init == queue = <<>> /\ taken = 0 /\ batch = <<>>

Add ==
  /\ \E n \in 1 .. Capacity - Len(queue) :
       \E items \in [1 .. n -> Item] : queue' = queue \o items
  /\ UNCHANGED <<taken, batch>>

Take ==
  /\ taken = 0
  /\ taken' \in 1 .. Len(queue)
  /\ UNCHANGED <<queue, batch>>

Read ==
  /\ Len(batch) < taken
  /\ batch' = Append(batch, queue[Len(batch) + 1])
  /\ UNCHANGED <<queue, taken>>

GiveBack ==
  /\ taken > 0 /\ Len(batch) = taken
  /\ queue' = SubSeq(queue, taken + 1, Len(queue))
  /\ taken' = 0 /\ batch' = <<>>

Next == Add \/ Take \/ Read \/ GiveBack

Spec == Init /\ [][Next]_vars
=============================================================================
