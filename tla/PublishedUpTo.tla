--------------------------- MODULE PublishedUpTo ---------------------------
(***************************************************************************)
(* What a sequence barrier promises, with every operation one step: a      *)
(* consumer asks for a sequence number and is granted, once it is          *)
(* published, a published number not before it; or, once the barrier is    *)
(* closed, is refused.  Closed for ever, published in order.               *)
(***************************************************************************)
EXTENDS Integers

CONSTANTS Consumers, First, Initial, Last

VARIABLES
  published,    \* the last published sequence number
  shut,         \* the barrier is closed
  want,         \* the sequence number each consumer asked for last
  answer,       \* "none" before it asks, "asked", then "granted" or "refused"
  got           \* the number it was granted last, Initial before

vars == <<published, shut, want, answer, got>>

Init ==
  /\ published = Initial
  /\ shut = FALSE
  /\ want = [c \in Consumers |-> Initial]
  /\ answer = [c \in Consumers |-> "none"]
  /\ got = [c \in Consumers |-> Initial]

Publish(s) ==
  /\ published < s
  /\ published' = s
  /\ UNCHANGED <<shut, want, answer, got>>

Close ==
  /\ ~shut
  /\ shut' = TRUE
  /\ UNCHANGED <<published, want, answer, got>>

Ask(c, s) ==
  /\ answer[c] # "asked"
  /\ answer' = [answer EXCEPT ![c] = "asked"]
  /\ want' = [want EXCEPT ![c] = s]
  /\ got' = [got EXCEPT ![c] = Initial]
  /\ UNCHANGED <<published, shut>>

Grant(c) ==
  /\ answer[c] = "asked"
  /\ answer' = [answer EXCEPT ![c] = "granted"]
  /\ \E s \in want[c] .. published : got' = [got EXCEPT ![c] = s]
  /\ UNCHANGED <<published, shut, want>>

Refuse(c) ==
  /\ answer[c] = "asked"
  /\ shut
  /\ answer' = [answer EXCEPT ![c] = "refused"]
  /\ UNCHANGED <<published, shut, want, got>>

Answer(c) == Grant(c) \/ Refuse(c)

Next ==
  \/ Close
  \/ \E s \in First .. Last : Publish(s) \/ \E c \in Consumers : Ask(c, s)
  \/ \E c \in Consumers : Answer(c)

\* Nobody has to publish, close or ask; who can be answered is.
Spec == Init /\ [][Next]_vars /\ \A c \in Consumers : WF_vars(Answer(c))
=============================================================================
