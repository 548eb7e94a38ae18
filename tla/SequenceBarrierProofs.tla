----------------------- MODULE SequenceBarrierProofs -----------------------
(***************************************************************************)
(* Theorems about SequenceBarrier, for any numbers of consumers, closers   *)
(* and sequence numbers.                                                   *)
(***************************************************************************)
EXTENDS SequenceBarrier, SequenceTraitsProofs

\* Within the range in play the wrapped comparison is the order of integers.
LEMMA Order ==
  \A a, b \in Sequences :
    /\ a \in Int
    /\ Difference(a, b) = a - b
    /\ Precedes(a, b) <=> a < b
<1> SUFFICES ASSUME NEW a \in Sequences, NEW b \in Sequences
             PROVE  a \in Int /\ Difference(a, b) = a - b /\ (Precedes(a, b) <=> a < b)
  OBVIOUS
<1>1. /\ a \in Int /\ b \in Int /\ a - b < HalfRange /\ -HalfRange <= a - b
  BY RangeAssumption, HalfRangeAssumption DEF Sequences
<1> QED
  BY <1>1, DifferenceIsExact, PrecedesIsLess

(***************************************************************************)
(* Types                                                                   *)
(***************************************************************************)
LEMMA InitialType == Initial \in Sequences
  BY RangeAssumption DEF Sequences

LEMMA TypeStarts == Init => TypeOK
<1> SUFFICES ASSUME Init PROVE TypeOK
  OBVIOUS
<1> USE InitialType DEF Init
<1>1. lastPublished \in Sequences /\ awaiters \subseteq Consumers /\ closed \in BOOLEAN
  OBVIOUS
<1>2. /\ target \in [Consumers -> Sequences]
      /\ value \in [Consumers -> Sequences]
      /\ goal \in [Consumers -> Sequences]
      /\ seen \in [Threads -> Sequences]
  OBVIOUS
<1>3. event \in [Consumers -> {"not_set", "set", "canceled"}]
  OBVIOUS
<1>4. pc \in [Threads -> Labels]
  BY DEF Labels
<1>5. sawClosed \in [Consumers -> BOOLEAN]
  OBVIOUS
<1>6. requeue \in [Threads -> SUBSET Consumers] /\ ready \in [Threads -> SUBSET Consumers]
  OBVIOUS
<1> QED
  BY <1>1, <1>2, <1>3, <1>4, <1>5, <1>6 DEF TypeOK

LEMMA TypeSteps == TypeOK /\ [Next]_vars => TypeOK'
<1> SUFFICES ASSUME TypeOK, [Next]_vars PROVE TypeOK'
  OBVIOUS
<1> USE DEF TypeOK, Labels, Threads, Goto, Leave, shared, waits, locals, vars
<1>0. Initial \in Sequences
  BY InitialType
<1>1. ASSUME NEW c \in Consumers, NEW s \in Sequences, Wait(c, s) PROVE TypeOK'
  BY <1>0, <1>1 DEF Wait
<1>2. ASSUME NEW c \in Consumers, ReturnAtOnce(c) PROVE TypeOK'
  BY <1>0, <1>2 DEF ReturnAtOnce
<1>3. ASSUME NEW c \in Consumers, Resume(c) PROVE TypeOK'
  BY <1>3 DEF Resume
<1>4. ASSUME NEW c \in Consumers, Enqueue(c) PROVE TypeOK'
  BY <1>4 DEF Enqueue, PushRequeue
<1>5. ASSUME NEW c \in Consumers, LoadPublished(c) PROVE TypeOK'
  BY <1>5 DEF LoadPublished
<1>6. ASSUME NEW c \in Consumers, LoadClosed(c) PROVE TypeOK'
  BY <1>6 DEF LoadClosed
<1>7. ASSUME NEW c \in Consumers, TakeAwaiters(c) PROVE TypeOK'
  <2>1. goal' \in [Consumers -> Sequences]
    <3>1. seen[c] \in Sequences
      OBVIOUS
    <3>2. \A a \in Consumers : seen[c] + Difference(target[a], seen[c]) = target[a]
      BY <3>1, Order
    <3> QED
      BY <1>7, <3>2 DEF TakeAwaiters, Unsatisfied
  <2> QED
    BY <1>7, <2>1 DEF TakeAwaiters, TakeAndSplit, Unsatisfied
<1>8. ASSUME NEW s \in Sequences, Publish(s) PROVE TypeOK'
  BY <1>8 DEF Publish
<1>9. CASE PublishExchange
  <2>1. awaiters' \subseteq Consumers
    BY <1>9 DEF PublishExchange, TakeAndSplit
  <2>2. requeue' \in [Threads -> SUBSET Consumers] /\ ready' \in [Threads -> SUBSET Consumers]
    <3>1. Unsatisfied(awaiters, seen[Publisher]) \in SUBSET Consumers
      BY DEF Unsatisfied
    <3> QED
      BY <1>9, <3>1 DEF PublishExchange, TakeAndSplit
  <2>3. /\ pc' \in [Threads -> Labels]
        /\ seen' \in [Threads -> Sequences]
        /\ sawClosed' \in [Consumers -> BOOLEAN]
        /\ goal' \in [Consumers -> Sequences]
    <3>1. CASE awaiters = {}
      <4>1. /\ pc' = [pc EXCEPT ![Publisher] = "idle"]
            /\ seen' = [seen EXCEPT ![Publisher] = Initial]
        BY <1>9, <3>1 DEF PublishExchange
      <4>2. sawClosed' = [c \in Consumers |-> c # Publisher /\ sawClosed[c]]
        BY <1>9, <3>1 DEF PublishExchange
      <4>3. goal' = [c \in Consumers |-> IF c = Publisher THEN Initial ELSE goal[c]]
        BY <1>9, <3>1 DEF PublishExchange
      <4> QED
        BY <1>0, <4>1, <4>2, <4>3
    <3>2. CASE awaiters # {}
      BY <1>9, <3>2 DEF PublishExchange
    <3> QED
      BY <3>1, <3>2
  <2> QED
    BY <1>9, <2>1, <2>2, <2>3 DEF PublishExchange
<1>10. CASE PublishRequeue
  BY <1>10 DEF PublishRequeue, PushRequeue
<1>11. CASE PublishLoadClosed
  BY <1>0, <1>11 DEF PublishLoadClosed
<1>12. ASSUME NEW k \in Closers, Close(k) PROVE TypeOK'
  BY <1>12 DEF Close
<1>13. ASSUME NEW t \in Threads, TakeAll(t) PROVE TypeOK'
  BY <1>13 DEF TakeAll
<1>14. ASSUME NEW t \in Threads, NEW a \in Consumers, ResumeAwaiter(t, a) PROVE TypeOK'
  BY <1>14 DEF ResumeAwaiter
<1>15. ASSUME NEW t \in Threads, ResumedAll(t) PROVE TypeOK'
  BY <1>0, <1>15 DEF ResumedAll
<1>16. ASSUME NEW t \in Threads, NEW a \in Consumers, CancelAwaiter(t, a) PROVE TypeOK'
  BY <1>16 DEF CancelAwaiter
<1>17. ASSUME NEW t \in Threads, CancelledAll(t) PROVE TypeOK'
  BY <1>17 DEF CancelledAll
<1>18. CASE UNCHANGED vars
  BY <1>18
<1> QED
  BY <1>1, <1>2, <1>3, <1>4, <1>5, <1>6, <1>7, <1>8, <1>9, <1>10, <1>11, <1>12,
     <1>13, <1>14, <1>15, <1>16, <1>17, <1>18
     DEF Next, ConsumerStep, PublisherStep, CloserStep, ListStep

\* The variables of a barrier stay in their ranges.
THEOREM TypeCorrect == Spec => []TypeOK
  BY TypeStarts, TypeSteps, PTL DEF Spec

(***************************************************************************)
(* The lists                                                               *)
(***************************************************************************)
\* Where each kind of thread can be.
Places ==
  /\ \A c \in Consumers : pc[c] \notin {"exchange", "requeue", "takeAll"}
  /\ pc[Publisher] \in {"idle", "exchange", "requeue", "resume", "loadClosed", "takeAll", "cancel"}
  /\ \A k \in Closers : pc[k] \in {"idle", "takeAll", "cancel"}

\* A thread holds awaiters only where it is going to push, resume or cancel them.
HoldingPlaces ==
  \A t \in Threads :
    /\ requeue[t] # {} => \/ pc[t] \in {"enqueue", "requeue", "cancel"}
                          \/ pc[t] = "resume" /\ t \in Consumers /\ sawClosed[t]
    /\ ready[t] # {} => \/ pc[t] \in {"enqueue", "load", "take", "requeue", "resume"}
                        \/ pc[t] = "loadClosed" /\ t \in Consumers

Phases == Places /\ HoldingPlaces

Lists == OneOwner /\ ListedIsPending /\ NoneDropped

LEMMA PhasesStart == Init => Phases
  BY ThreadsAssumption DEF Init, Phases, Places, HoldingPlaces, Threads

LEMMA PhasesSteps == TypeOK /\ Phases /\ [Next]_vars => Phases'
<1> SUFFICES ASSUME TypeOK, Phases, [Next]_vars PROVE Phases'
  OBVIOUS
<1> USE ThreadsAssumption
    DEF TypeOK, Phases, Places, HoldingPlaces, Threads, Goto, Leave, shared, waits, locals, vars
<1>1. ASSUME NEW c \in Consumers, NEW s \in Sequences, Wait(c, s) PROVE Phases'
  <2>1. CASE Precedes(lastPublished, s)
    <3>1. requeue' = [requeue EXCEPT ![c] = {c}] /\ pc' = [pc EXCEPT ![c] = "enqueue"]
      BY <1>1, <2>1 DEF Wait
    <3> QED
      BY <1>1, <3>1 DEF Wait
  <2>2. CASE ~Precedes(lastPublished, s)
    BY <1>1, <2>2 DEF Wait
  <2> QED
    BY <2>1, <2>2
<1>2. ASSUME NEW c \in Consumers, ReturnAtOnce(c) PROVE Phases'
  BY <1>2 DEF ReturnAtOnce
<1>3. ASSUME NEW c \in Consumers, Resume(c) PROVE Phases'
  BY <1>3 DEF Resume
<1>4. ASSUME NEW c \in Consumers, Enqueue(c) PROVE Phases'
  BY <1>4 DEF Enqueue, PushRequeue
<1>5. ASSUME NEW c \in Consumers, LoadPublished(c) PROVE Phases'
  BY <1>5 DEF LoadPublished
<1>6. ASSUME NEW c \in Consumers, LoadClosed(c) PROVE Phases'
  BY <1>6 DEF LoadClosed
<1>7. ASSUME NEW c \in Consumers, TakeAwaiters(c) PROVE Phases'
  BY <1>7 DEF TakeAwaiters, TakeAndSplit, Unsatisfied
<1>8. ASSUME NEW s \in Sequences, Publish(s) PROVE Phases'
  BY <1>8 DEF Publish
<1>9. CASE PublishExchange
  BY <1>9 DEF PublishExchange, TakeAndSplit, Unsatisfied
<1>10. CASE PublishRequeue
  BY <1>10 DEF PublishRequeue, PushRequeue
<1>11. CASE PublishLoadClosed
  BY <1>11 DEF PublishLoadClosed
<1>12. ASSUME NEW k \in Closers, Close(k) PROVE Phases'
  BY <1>12 DEF Close
<1>13. ASSUME NEW t \in Threads, TakeAll(t) PROVE Phases'
  BY <1>13 DEF TakeAll
<1>14. ASSUME NEW t \in Threads, NEW a \in Consumers, ResumeAwaiter(t, a) PROVE Phases'
  BY <1>14 DEF ResumeAwaiter
<1>15. ASSUME NEW t \in Threads, ResumedAll(t) PROVE Phases'
  BY <1>15 DEF ResumedAll
<1>16. ASSUME NEW t \in Threads, NEW a \in Consumers, CancelAwaiter(t, a) PROVE Phases'
  BY <1>16 DEF CancelAwaiter
<1>17. ASSUME NEW t \in Threads, CancelledAll(t) PROVE Phases'
  BY <1>17 DEF CancelledAll
<1>18. CASE UNCHANGED vars
  BY <1>18
<1> QED
  BY <1>1, <1>2, <1>3, <1>4, <1>5, <1>6, <1>7, <1>8, <1>9, <1>10, <1>11, <1>12,
     <1>13, <1>14, <1>15, <1>16, <1>17, <1>18
     DEF Next, ConsumerStep, PublisherStep, CloserStep, ListStep
\* If thread t only moves awaiters between the list and its own, and every one
\* ends in one of the three, then nobody else notices.
LEMMA Moves ==
  ASSUME TypeOK, TypeOK', OneOwner, NEW t \in Threads,
         \A u \in Threads \ {t} : requeue'[u] = requeue[u] /\ ready'[u] = ready[u],
         awaiters' \cup requeue'[t] \cup ready'[t] = awaiters \cup requeue[t] \cup ready[t],
         awaiters' \cap (requeue'[t] \cup ready'[t]) = {},
         requeue'[t] \cap ready'[t] = {}
  PROVE  OneOwner' /\ \A c \in Consumers : Listed(c)' <=> Listed(c)
<1>1. \A u \in Threads \ {t} : Held(u)' = Held(u)
  BY DEF Held
<1>2. awaiters' \cup Held(t)' = awaiters \cup Held(t)
  BY DEF Held
<1>3. OneOwner'
  <2>1. \A u \in Threads : awaiters' \cap Held(u)' = {} /\ requeue'[u] \cap ready'[u] = {}
    <3> SUFFICES ASSUME NEW u \in Threads, u # t
                 PROVE  awaiters' \cap Held(u)' = {} /\ requeue'[u] \cap ready'[u] = {}
      BY DEF Held
    <3>1. awaiters \cap Held(u) = {} /\ Held(t) \cap Held(u) = {} /\ requeue[u] \cap ready[u] = {}
      BY DEF OneOwner
    <3> QED
      BY <1>1, <1>2, <3>1
  <2>2. \A u, v \in Threads : u # v => Held(u)' \cap Held(v)' = {}
    <3> SUFFICES ASSUME NEW u \in Threads, NEW v \in Threads, u # v
                 PROVE  Held(u)' \cap Held(v)' = {}
      OBVIOUS
    <3>1. \A w \in Threads \ {t} : (awaiters \cup Held(t)) \cap Held(w) = {}
      BY DEF OneOwner
    <3>2. Held(u) \cap Held(v) = {}
      BY DEF OneOwner
    <3> QED
      BY <1>1, <1>2, <3>1, <3>2
  <2> QED
    BY <2>1, <2>2 DEF OneOwner
<1>4. ASSUME NEW c \in Consumers PROVE Listed(c)' <=> Listed(c)
  BY <1>1, <1>2 DEF Listed
<1> QED
  BY <1>3, <1>4

\* If thread t drops awaiter a from its lists, a is in no list any more and the
\* others stay where they were.
LEMMA Drops ==
  ASSUME TypeOK, TypeOK', OneOwner, NEW t \in Threads, NEW a \in Held(t),
         awaiters' = awaiters,
         \A u \in Threads \ {t} : requeue'[u] = requeue[u] /\ ready'[u] = ready[u],
         requeue'[t] = requeue[t] \ {a},
         ready'[t] = ready[t] \ {a}
  PROVE  OneOwner' /\ \A c \in Consumers : Listed(c)' <=> Listed(c) /\ c # a
<1>1. \A u \in Threads \ {t} : Held(u)' = Held(u) /\ a \notin Held(u)
  BY DEF Held, OneOwner
<1>2. Held(t)' = Held(t) \ {a} /\ a \notin awaiters
  BY DEF Held, OneOwner
<1>3. \A u \in Threads : Held(u)' = Held(u) \ {a}
  BY <1>1, <1>2
<1>4. OneOwner'
  BY <1>3 DEF OneOwner, Held
<1>5. ASSUME NEW c \in Consumers PROVE Listed(c)' <=> Listed(c) /\ c # a
  BY <1>2, <1>3 DEF Listed
<1> QED
  BY <1>4, <1>5

\* If no thread touches a list, who is listed is the same as before ...
LEMMA Stays ==
  ASSUME OneOwner, UNCHANGED <<awaiters, requeue, ready>>
  PROVE  OneOwner' /\ \A c \in Consumers : Listed(c)' <=> Listed(c)
BY DEF OneOwner, Listed, Held

\* ... and if no event and no wait changes either, the lists are in order.
LEMMA Keeps ==
  ASSUME Lists, OneOwner', \A c \in Consumers : Listed(c)' <=> Listed(c),
         event' = event, Waiting' = Waiting
  PROVE  Lists'
BY DEF Lists, ListedIsPending, NoneDropped, Waiting

LEMMA ListsStart == Init => Lists
<1> SUFFICES ASSUME Init PROVE Lists
  OBVIOUS
<1>1. awaiters = {} /\ \A t \in Threads : Held(t) = {} /\ requeue[t] = {}
  BY DEF Init, Held
<1>2. Waiting = {}
  BY DEF Init, Waiting, Threads
<1> QED
  BY <1>1, <1>2 DEF Lists, OneOwner, ListedIsPending, NoneDropped, Listed

LEMMA ListsSteps == TypeOK /\ Phases /\ Lists /\ [Next]_vars => Lists'
<1> SUFFICES ASSUME TypeOK, Phases, Lists, [Next]_vars PROVE Lists'
  OBVIOUS
<1>0. TypeOK' /\ Phases'
  BY TypeSteps, PhasesSteps
<1> USE <1>0, ThreadsAssumption
    DEF TypeOK, Threads, Goto, Leave, shared, waits, locals, vars
<1>a. OneOwner
  BY DEF Lists
<1> USE <1>a
<1>1. ASSUME NEW c \in Consumers, NEW s \in Sequences, Wait(c, s) PROVE Lists'
  <2>1. pc[c] = "idle" /\ ~Listed(c)
    BY <1>1 DEF Wait, Lists, ListedIsPending, Waiting
  <2>2. /\ event' = [event EXCEPT ![c] = "not_set"]
        /\ awaiters' = awaiters /\ ready' = ready
        /\ \A d \in Consumers \ {c} : pc'[d] = pc[d]
    BY <1>1 DEF Wait
  <2>3. CASE Precedes(lastPublished, s)
    <3>1. requeue' = [requeue EXCEPT ![c] = {c}] /\ pc'[c] = "enqueue"
      BY <1>1, <2>3 DEF Wait
    <3>2. requeue[c] = {} /\ ready[c] = {}
      BY <2>1 DEF Phases, HoldingPlaces
    <3>3. c \notin awaiters /\ \A u \in Threads : c \notin requeue[u] /\ c \notin ready[u]
      BY <2>1 DEF Listed, Held
    <3>4. \A u \in Threads : Held(u)' = IF u = c THEN {c} ELSE Held(u)
      BY <2>2, <3>1, <3>2 DEF Held
    <3>5. OneOwner'
      BY <2>2, <3>1, <3>2, <3>3, <3>4 DEF OneOwner, Held
    <3>6. \A x \in Consumers : Listed(x)' <=> x = c \/ Listed(x)
      BY <2>2, <3>2, <3>4 DEF Listed, Held
    <3>7. c \in Waiting' /\ event'[c] = "not_set"
      BY <2>2, <3>1 DEF Waiting
    <3>8. \A x \in Consumers \ {c} : (x \in Waiting' <=> x \in Waiting) /\ event'[x] = event[x]
      BY <2>2 DEF Waiting
    <3> QED
      BY <3>5, <3>6, <3>7, <3>8 DEF Lists, ListedIsPending, NoneDropped, Waiting
  <2>4. CASE ~Precedes(lastPublished, s)
    <3>1. OneOwner' /\ \A x \in Consumers : Listed(x)' <=> Listed(x)
      BY <1>1, <2>4, Stays DEF Wait
    <3>2. c \notin Waiting' /\ \A x \in Consumers \ {c} :
            (x \in Waiting' <=> x \in Waiting) /\ event'[x] = event[x]
      BY <1>1, <2>2, <2>4 DEF Waiting, Wait
    <3> QED
      BY <2>1, <3>1, <3>2 DEF Lists, ListedIsPending, NoneDropped, Waiting
  <2> QED
    BY <2>3, <2>4
<1>2. ASSUME NEW c \in Consumers, ReturnAtOnce(c) PROVE Lists'
  <2>1. OneOwner' /\ \A x \in Consumers : Listed(x)' <=> Listed(x)
    BY <1>2, Stays DEF ReturnAtOnce
  <2>2. ~Listed(c) /\ c \notin Waiting'
    BY <1>2 DEF ReturnAtOnce, Lists, ListedIsPending, Waiting
  <2>3. \A x \in Consumers \ {c} : (x \in Waiting' <=> x \in Waiting) /\ event'[x] = event[x]
    BY <1>2 DEF ReturnAtOnce, Waiting
  <2> QED
    BY <2>1, <2>2, <2>3 DEF Lists, ListedIsPending, NoneDropped, Waiting
<1>3. ASSUME NEW c \in Consumers, Resume(c) PROVE Lists'
  <2>1. OneOwner' /\ \A x \in Consumers : Listed(x)' <=> Listed(x)
    BY <1>3, Stays DEF Resume
  <2>2. ~Listed(c) /\ c \notin Waiting'
    BY <1>3 DEF Resume, Lists, ListedIsPending, Waiting
  <2>3. \A x \in Consumers \ {c} : (x \in Waiting' <=> x \in Waiting) /\ event'[x] = event[x]
    BY <1>3 DEF Resume, Waiting
  <2> QED
    BY <2>1, <2>2, <2>3 DEF Lists, ListedIsPending, NoneDropped, Waiting
<1>4. ASSUME NEW c \in Consumers, Enqueue(c) PROVE Lists'
  <2>1. OneOwner' /\ \A x \in Consumers : Listed(x)' <=> Listed(x)
    <3>1. \A u \in Threads \ {c} : requeue'[u] = requeue[u] /\ ready'[u] = ready[u]
      BY <1>4 DEF Enqueue, PushRequeue
    <3>2. /\ awaiters' \cup requeue'[c] \cup ready'[c] = awaiters \cup requeue[c] \cup ready[c]
          /\ awaiters' \cap (requeue'[c] \cup ready'[c]) = {}
          /\ requeue'[c] \cap ready'[c] = {}
      BY <1>4 DEF Enqueue, PushRequeue, Phases, HoldingPlaces, OneOwner, Held
    <3> QED
      BY <3>1, <3>2, Moves
  <2>2. event' = event /\ Waiting' = Waiting
    BY <1>4 DEF Enqueue, PushRequeue, Waiting
  <2> QED
    BY <2>1, <2>2, Keeps
<1>5. ASSUME NEW c \in Consumers, LoadPublished(c) PROVE Lists'
  <2>1. OneOwner' /\ \A x \in Consumers : Listed(x)' <=> Listed(x)
    BY <1>5, Stays DEF LoadPublished
  <2>2. event' = event /\ Waiting' = Waiting
    BY <1>5 DEF LoadPublished, Waiting
  <2> QED
    BY <2>1, <2>2, Keeps
<1>6. ASSUME NEW c \in Consumers, LoadClosed(c) PROVE Lists'
  <2>1. OneOwner' /\ \A x \in Consumers : Listed(x)' <=> Listed(x)
    BY <1>6, Stays DEF LoadClosed
  <2>2. event' = event /\ Waiting' = Waiting
    BY <1>6 DEF LoadClosed, Waiting
  <2> QED
    BY <2>1, <2>2, Keeps
<1>7. ASSUME NEW c \in Consumers, TakeAwaiters(c) PROVE Lists'
  <2>1. OneOwner' /\ \A x \in Consumers : Listed(x)' <=> Listed(x)
    <3>1. \A u \in Threads \ {c} : requeue'[u] = requeue[u] /\ ready'[u] = ready[u]
      BY <1>7 DEF TakeAwaiters, TakeAndSplit
    <3>2. /\ awaiters' \cup requeue'[c] \cup ready'[c] = awaiters \cup requeue[c] \cup ready[c]
          /\ awaiters' \cap (requeue'[c] \cup ready'[c]) = {}
          /\ requeue'[c] \cap ready'[c] = {}
      <4> DEFINE rest == Unsatisfied(awaiters, seen[c])
      <4>1. awaiters' = {} /\ requeue'[c] = rest /\ ready'[c] = ready[c] \cup (awaiters \ rest)
        BY <1>7 DEF TakeAwaiters, TakeAndSplit
      <4>2. rest \subseteq awaiters
        BY DEF Unsatisfied
      <4>3. requeue[c] = {} /\ awaiters \cap ready[c] = {}
        <5>1. pc[c] = "take"
          BY <1>7 DEF TakeAwaiters
        <5>2. requeue[c] = {}
          BY <5>1 DEF Phases, HoldingPlaces
        <5>3. awaiters \cap Held(c) = {}
          BY DEF OneOwner
        <5> QED
          BY <5>2, <5>3 DEF Held
      <4> HIDE DEF rest
      <4> QED
        BY <4>1, <4>2, <4>3
    <3> QED
      BY <3>1, <3>2, Moves
  <2>2. event' = event /\ Waiting' = Waiting
    BY <1>7 DEF TakeAwaiters, TakeAndSplit, Waiting
  <2> QED
    BY <2>1, <2>2, Keeps
<1>8. ASSUME NEW s \in Sequences, Publish(s) PROVE Lists'
  <2>1. OneOwner' /\ \A x \in Consumers : Listed(x)' <=> Listed(x)
    BY <1>8, Stays DEF Publish
  <2>2. event' = event /\ Waiting' = Waiting
    BY <1>8 DEF Publish, Waiting
  <2> QED
    BY <2>1, <2>2, Keeps
<1>9. CASE PublishExchange
  <2>1. OneOwner' /\ \A x \in Consumers : Listed(x)' <=> Listed(x)
    <3>1. \A u \in Threads \ {Publisher} : requeue'[u] = requeue[u] /\ ready'[u] = ready[u]
      BY <1>9 DEF PublishExchange, TakeAndSplit
    <3>2. /\ awaiters' \cup requeue'[Publisher] \cup ready'[Publisher] = awaiters \cup requeue[Publisher] \cup ready[Publisher]
          /\ awaiters' \cap (requeue'[Publisher] \cup ready'[Publisher]) = {}
          /\ requeue'[Publisher] \cap ready'[Publisher] = {}
      <4> DEFINE rest == Unsatisfied(awaiters, seen[Publisher])
      <4>1. awaiters' = {} /\ requeue'[Publisher] = rest /\ ready'[Publisher] = ready[Publisher] \cup (awaiters \ rest)
        BY <1>9 DEF PublishExchange, TakeAndSplit
      <4>2. rest \subseteq awaiters
        BY DEF Unsatisfied
      <4>3. requeue[Publisher] = {} /\ awaiters \cap ready[Publisher] = {}
        BY <1>9 DEF PublishExchange, Phases, HoldingPlaces, OneOwner, Held
      <4> HIDE DEF rest
      <4> QED
        BY <4>1, <4>2, <4>3
    <3> QED
      BY <3>1, <3>2, Moves
  <2>2. event' = event /\ Waiting' = Waiting
    BY <1>9 DEF PublishExchange, TakeAndSplit, Waiting
  <2> QED
    BY <2>1, <2>2, Keeps
<1>10. CASE PublishRequeue
  <2>1. OneOwner' /\ \A x \in Consumers : Listed(x)' <=> Listed(x)
    <3>1. \A u \in Threads \ {Publisher} : requeue'[u] = requeue[u] /\ ready'[u] = ready[u]
      BY <1>10 DEF PublishRequeue, PushRequeue
    <3>2. /\ awaiters' \cup requeue'[Publisher] \cup ready'[Publisher] = awaiters \cup requeue[Publisher] \cup ready[Publisher]
          /\ awaiters' \cap (requeue'[Publisher] \cup ready'[Publisher]) = {}
          /\ requeue'[Publisher] \cap ready'[Publisher] = {}
      BY <1>10 DEF PublishRequeue, PushRequeue, Phases, HoldingPlaces, OneOwner, Held
    <3> QED
      BY <3>1, <3>2, Moves
  <2>2. event' = event /\ Waiting' = Waiting
    BY <1>10 DEF PublishRequeue, PushRequeue, Waiting
  <2> QED
    BY <2>1, <2>2, Keeps
<1>11. CASE PublishLoadClosed
  <2>1. OneOwner' /\ \A x \in Consumers : Listed(x)' <=> Listed(x)
    BY <1>11, Stays DEF PublishLoadClosed
  <2>2. event' = event /\ Waiting' = Waiting
    BY <1>11 DEF PublishLoadClosed, Waiting
  <2> QED
    BY <2>1, <2>2, Keeps
<1>12. ASSUME NEW k \in Closers, Close(k) PROVE Lists'
  <2>1. OneOwner' /\ \A x \in Consumers : Listed(x)' <=> Listed(x)
    BY <1>12, Stays DEF Close
  <2>2. event' = event /\ Waiting' = Waiting
    BY <1>12 DEF Close, Waiting
  <2> QED
    BY <2>1, <2>2, Keeps
<1>13. ASSUME NEW t \in Threads, TakeAll(t) PROVE Lists'
  <2>1. OneOwner' /\ \A x \in Consumers : Listed(x)' <=> Listed(x)
    <3>1. \A u \in Threads \ {t} : requeue'[u] = requeue[u] /\ ready'[u] = ready[u]
      BY <1>13 DEF TakeAll
    <3>2. /\ awaiters' \cup requeue'[t] \cup ready'[t] = awaiters \cup requeue[t] \cup ready[t]
          /\ awaiters' \cap (requeue'[t] \cup ready'[t]) = {}
          /\ requeue'[t] \cap ready'[t] = {}
      BY <1>13 DEF TakeAll, Places, Phases, HoldingPlaces, OneOwner, Held
    <3> QED
      BY <3>1, <3>2, Moves
  <2>2. event' = event /\ Waiting' = Waiting
    BY <1>13 DEF TakeAll, Waiting
  <2> QED
    BY <2>1, <2>2, Keeps
<1>14. ASSUME NEW t \in Threads, NEW a \in Consumers, ResumeAwaiter(t, a) PROVE Lists'
  <2>1. a \in Held(t) /\ a \notin requeue[t]
    BY <1>14 DEF ResumeAwaiter, Held, OneOwner
  <2>2. OneOwner' /\ \A x \in Consumers : Listed(x)' <=> Listed(x) /\ x # a
    <3>1. /\ awaiters' = awaiters
          /\ \A u \in Threads \ {t} : requeue'[u] = requeue[u] /\ ready'[u] = ready[u]
          /\ ready'[t] = ready[t] \ {a} /\ requeue'[t] = requeue[t] \ {a}
      BY <1>14, <2>1 DEF ResumeAwaiter
    <3> QED
      BY <2>1, <3>1, Drops
  <2>3. Listed(a)
    BY <2>1 DEF Listed
  <2>4. /\ Waiting' = Waiting
        /\ event'[a] # "not_set"
        /\ \A x \in Consumers \ {a} : event'[x] = event[x]
    BY <1>14 DEF ResumeAwaiter, Waiting
  <2> QED
    BY <2>2, <2>3, <2>4 DEF Lists, ListedIsPending, NoneDropped, Waiting
<1>15. ASSUME NEW t \in Threads, ResumedAll(t) PROVE Lists'
  <2>1. OneOwner' /\ \A x \in Consumers : Listed(x)' <=> Listed(x)
    BY <1>15, Stays DEF ResumedAll
  <2>2. event' = event /\ Waiting' = Waiting
    BY <1>15 DEF ResumedAll, Waiting
  <2> QED
    BY <2>1, <2>2, Keeps
<1>16. ASSUME NEW t \in Threads, NEW a \in Consumers, CancelAwaiter(t, a) PROVE Lists'
  <2>1. a \in Held(t) /\ a \notin ready[t]
    BY <1>16 DEF CancelAwaiter, Held, OneOwner
  <2>2. OneOwner' /\ \A x \in Consumers : Listed(x)' <=> Listed(x) /\ x # a
    <3>1. /\ awaiters' = awaiters
          /\ \A u \in Threads \ {t} : requeue'[u] = requeue[u] /\ ready'[u] = ready[u]
          /\ requeue'[t] = requeue[t] \ {a} /\ ready'[t] = ready[t] \ {a}
      BY <1>16, <2>1 DEF CancelAwaiter
    <3> QED
      BY <2>1, <3>1, Drops
  <2>3. Listed(a)
    BY <2>1 DEF Listed
  <2>4. /\ Waiting' = Waiting
        /\ event'[a] # "not_set"
        /\ \A x \in Consumers \ {a} : event'[x] = event[x]
    BY <1>16 DEF CancelAwaiter, Waiting
  <2> QED
    BY <2>2, <2>3, <2>4 DEF Lists, ListedIsPending, NoneDropped, Waiting
<1>17. ASSUME NEW t \in Threads, CancelledAll(t) PROVE Lists'
  <2>1. OneOwner' /\ \A x \in Consumers : Listed(x)' <=> Listed(x)
    BY <1>17, Stays DEF CancelledAll
  <2>2. event' = event /\ Waiting' = Waiting
    BY <1>17 DEF CancelledAll, Waiting
  <2> QED
    BY <2>1, <2>2, Keeps
<1>18. CASE UNCHANGED vars
  <2>1. OneOwner' /\ \A x \in Consumers : Listed(x)' <=> Listed(x)
    BY <1>18, Stays
  <2> QED
    BY <1>18, <2>1, Keeps DEF Waiting
<1> QED
  BY <1>1, <1>2, <1>3, <1>4, <1>5, <1>6, <1>7, <1>8, <1>9, <1>10, <1>11, <1>12,
     <1>13, <1>14, <1>15, <1>16, <1>17, <1>18
     DEF Next, ConsumerStep, PublisherStep, CloserStep, ListStep

(***************************************************************************)
(* The numbers                                                             *)
(***************************************************************************)
\* What threads remember of _lastPublished and _isClosed is not ahead of them.
Memories ==
  /\ Initial <= lastPublished
  /\ \A t \in Threads : seen[t] <= lastPublished
  /\ pc[Publisher] \in {"exchange", "requeue", "resume"} => seen[Publisher] = lastPublished
  /\ \A c \in Consumers : sawClosed[c] => closed
  /\ \A t \in Threads : pc[t] \in {"takeAll", "cancel"} => closed

\* What is about to be granted is satisfied.
Granted ==
  /\ \A t \in Threads : \A a \in ready[t] : target[a] <= seen[t]
  /\ \A c \in Consumers : pc[c] = "satisfied" => target[c] <= seen[c]

Numbers == Memories /\ Granted /\ AnswerIsSound

\* What is about to be pushed back is not satisfied, as far as its thread knows.
Goals ==
  /\ \A c \in Consumers : pc[c] = "enqueue" => \A a \in requeue[c] : goal[c] <= target[a]
  /\ pc[Publisher] = "requeue" => \A a \in requeue[Publisher] : seen[Publisher] < target[a]

Wakeups == Goals /\ NoLostWakeup

\* Leaving a function forgets what was remembered.
LEMMA Leaves ==
  ASSUME TypeOK, NEW t \in Threads, NEW label, Leave(t, label)
  PROVE  /\ pc' = [pc EXCEPT ![t] = label]
         /\ \A u \in Threads : seen'[u] = IF u = t THEN Initial ELSE seen[u]
         /\ \A c \in Consumers : sawClosed'[c] => sawClosed[c]
         /\ \A c \in Consumers : c # t => goal'[c] = goal[c]
<1>1. pc' = [pc EXCEPT ![t] = label] /\ seen' = [seen EXCEPT ![t] = Initial]
  BY DEF Leave, Goto
<1>2. \A u \in Threads : seen'[u] = IF u = t THEN Initial ELSE seen[u]
  BY <1>1 DEF TypeOK
<1>3. \A c \in Consumers : sawClosed'[c] => sawClosed[c]
  BY Zenon DEF Leave
<1>4. \A c \in Consumers : c # t => goal'[c] = goal[c]
  BY DEF Leave
<1> QED
  BY <1>1, <1>2, <1>3, <1>4

LEMMA NumbersStart == Init => Numbers
  BY InitialType, Order, ThreadsAssumption
     DEF Init, Numbers, Memories, Granted, AnswerIsSound, Threads

LEMMA NumbersSteps == TypeOK /\ Phases /\ Lists /\ Numbers /\ [Next]_vars => Numbers'
<1> SUFFICES ASSUME TypeOK, Phases, Lists, Numbers, [Next]_vars PROVE Numbers'
  OBVIOUS
<1>0. TypeOK' /\ Phases' /\ Lists'
  BY TypeSteps, PhasesSteps, ListsSteps
<1> USE <1>0, ThreadsAssumption, Order, InitialType
    DEF TypeOK, Threads, Goto, shared, waits, locals, vars,
        Numbers, Memories, Granted, AnswerIsSound
<1>1. ASSUME NEW c \in Consumers, NEW s \in Sequences, Wait(c, s) PROVE Numbers'
  <2>1. ~Listed(c) /\ pc[c] = "idle"
    BY <1>1 DEF Wait, Lists, ListedIsPending, Waiting
  <2>2. \A t \in Threads : c \notin ready[t]
    BY <2>1 DEF Listed, Held
  <2>3. Memories'
    <3>1. CASE Precedes(lastPublished, s)
      BY <1>1, <3>1 DEF Wait
    <3>2. CASE ~Precedes(lastPublished, s)
      <4>1. seen' = [seen EXCEPT ![c] = lastPublished] /\ pc' = [pc EXCEPT ![c] = "satisfied"]
        BY <1>1, <3>2 DEF Wait
      <4> QED
        BY <1>1, <4>1 DEF Wait
    <3> QED
      BY <3>1, <3>2
  <2>4. Granted'
    <3>1. CASE Precedes(lastPublished, s)
      BY <1>1, <2>1, <2>2, <3>1 DEF Wait
    <3>2. CASE ~Precedes(lastPublished, s)
      <4>1. seen' = [seen EXCEPT ![c] = lastPublished] /\ pc' = [pc EXCEPT ![c] = "satisfied"]
        BY <1>1, <3>2 DEF Wait
      <4>2. s <= lastPublished
        BY <3>2
      <4>3. target' = [target EXCEPT ![c] = s] /\ ready' = ready
        BY <1>1 DEF Wait
      <4>4. \A t \in Threads : \A a \in ready[t] : a \in Consumers \ {c} /\ t # c
        <5>1. ready[c] = {}
          BY <2>1 DEF Phases, HoldingPlaces
        <5> QED
          BY <2>2, <5>1
      <4> QED
        BY <4>1, <4>2, <4>3, <4>4
    <3> QED
      BY <3>1, <3>2
  <2>5. AnswerIsSound'
    BY <1>1 DEF Wait
  <2> QED
    BY <2>3, <2>4, <2>5
<1>2. ASSUME NEW c \in Consumers, ReturnAtOnce(c) PROVE Numbers'
  <2>1. /\ pc' = [pc EXCEPT ![c] = "idle"]
        /\ \A u \in Threads : seen'[u] = IF u = c THEN Initial ELSE seen[u]
        /\ \A x \in Consumers : sawClosed'[x] => sawClosed[x]
    <3>1. Leave(c, "idle")
      BY <1>2 DEF ReturnAtOnce
    <3> QED
      BY <3>1, Leaves
  <2>2. ready[c] = {}
    BY <1>2 DEF ReturnAtOnce, Phases, HoldingPlaces
  <2>3. Memories'
    <3>1. UNCHANGED <<lastPublished, closed>> /\ c # Publisher
      BY <1>2 DEF ReturnAtOnce
    <3>2. \A u \in Threads : seen'[u] <= lastPublished /\ (u # c => seen'[u] = seen[u])
      BY <2>1
    <3>3. \A u \in Threads : pc'[u] = IF u = c THEN "idle" ELSE pc[u]
      BY <2>1
    <3> QED
      BY <2>1, <3>1, <3>2, <3>3
  <2>5. Granted'
    BY <1>2, <2>1, <2>2 DEF ReturnAtOnce
  <2>4. AnswerIsSound'
    BY <1>2 DEF ReturnAtOnce
  <2> QED
    BY <2>3, <2>4, <2>5
<1>3. ASSUME NEW c \in Consumers, Resume(c) PROVE Numbers'
  BY <1>3 DEF Resume
<1>4. ASSUME NEW c \in Consumers, Enqueue(c) PROVE Numbers'
  BY <1>4 DEF Enqueue, PushRequeue
<1>5. ASSUME NEW c \in Consumers, LoadPublished(c) PROVE Numbers'
  BY <1>5 DEF LoadPublished
<1>6. ASSUME NEW c \in Consumers, LoadClosed(c) PROVE Numbers'
  BY <1>6 DEF LoadClosed
<1>7. ASSUME NEW c \in Consumers, TakeAwaiters(c) PROVE Numbers'
  BY <1>7 DEF TakeAwaiters, TakeAndSplit, Unsatisfied
<1>8. ASSUME NEW s \in Sequences, Publish(s) PROVE Numbers'
  BY <1>8 DEF Publish
<1>9. CASE PublishExchange
  <2>1. CASE awaiters = {}
    <3>1. Leave(Publisher, "idle") /\ ready' = ready
      BY <1>9, <2>1 DEF PublishExchange, TakeAndSplit, Unsatisfied
    <3>2. ready[Publisher] = {}
      BY <1>9 DEF PublishExchange, Phases, HoldingPlaces
    <3> QED
      BY <1>9, <3>1, <3>2, Leaves DEF PublishExchange
  <2>2. CASE awaiters # {}
    <3>1. \A a \in ready'[Publisher] : target[a] <= seen[Publisher]
      BY <1>9 DEF PublishExchange, TakeAndSplit, Unsatisfied
    <3> QED
      BY <1>9, <2>2, <3>1 DEF PublishExchange, TakeAndSplit
  <2> QED
    BY <2>1, <2>2
<1>10. CASE PublishRequeue
  BY <1>10 DEF PublishRequeue, PushRequeue
<1>11. CASE PublishLoadClosed
  <2>1. /\ pc' = [pc EXCEPT ![Publisher] = IF closed THEN "takeAll" ELSE "idle"]
        /\ \A u \in Threads : seen'[u] = IF u = Publisher THEN Initial ELSE seen[u]
        /\ \A x \in Consumers : sawClosed'[x] => sawClosed[x]
    <3>1. Leave(Publisher, IF closed THEN "takeAll" ELSE "idle")
      BY <1>11 DEF PublishLoadClosed
    <3> QED
      BY <3>1, Leaves
  <2>2. ready[Publisher] = {}
    BY <1>11 DEF PublishLoadClosed, Phases, HoldingPlaces
  <2>3. Memories'
    BY <1>11, <2>1 DEF PublishLoadClosed
  <2>4. Granted'
    BY <1>11, <2>1, <2>2 DEF PublishLoadClosed
  <2> QED
    BY <1>11, <2>3, <2>4 DEF PublishLoadClosed
<1>12. ASSUME NEW k \in Closers, Close(k) PROVE Numbers'
  BY <1>12 DEF Close
<1>13. ASSUME NEW t \in Threads, TakeAll(t) PROVE Numbers'
  BY <1>13 DEF TakeAll
<1>14. ASSUME NEW t \in Threads, NEW a \in Consumers, ResumeAwaiter(t, a) PROVE Numbers'
  BY <1>14 DEF ResumeAwaiter
<1>15. ASSUME NEW t \in Threads, ResumedAll(t) PROVE Numbers'
  <2> DEFINE label == IF t = Publisher THEN "loadClosed"
                      ELSE IF sawClosed[t] THEN "cancel" ELSE "suspended"
  <2>1. /\ pc' = [pc EXCEPT ![t] = label]
        /\ \A u \in Threads : seen'[u] = IF u = t THEN Initial ELSE seen[u]
        /\ \A x \in Consumers : sawClosed'[x] => sawClosed[x]
    <3>1. Leave(t, label)
      BY <1>15 DEF ResumedAll
    <3> QED
      BY <3>1, Leaves
  <2>2. t # Publisher /\ pc[t] = "resume" => t \in Consumers
    BY DEF Phases, Places
  <2>3. label \in {"takeAll", "cancel"} => closed
    BY <1>15, <2>2 DEF ResumedAll
  <2>4. label \notin {"exchange", "requeue", "resume", "satisfied"}
    OBVIOUS
  <2> HIDE DEF label
  <2>5. Memories'
    BY <1>15, <2>1, <2>3, <2>4 DEF ResumedAll
  <2>6. Granted'
    BY <1>15, <2>1, <2>4 DEF ResumedAll
  <2> QED
    BY <1>15, <2>5, <2>6 DEF ResumedAll
<1>16. ASSUME NEW t \in Threads, NEW a \in Consumers, CancelAwaiter(t, a) PROVE Numbers'
  BY <1>16 DEF CancelAwaiter
<1>17. ASSUME NEW t \in Threads, CancelledAll(t) PROVE Numbers'
  BY <1>17 DEF CancelledAll
<1>18. CASE UNCHANGED vars
  BY <1>18
<1> QED
  BY <1>1, <1>2, <1>3, <1>4, <1>5, <1>6, <1>7, <1>8, <1>9, <1>10, <1>11, <1>12,
     <1>13, <1>14, <1>15, <1>16, <1>17, <1>18
     DEF Next, ConsumerStep, PublisherStep, CloserStep, ListStep
\* A thread that owes nobody a look at the list may do what it likes with its
\* own variables, as long as the list, the targets and what is shared stay.
LEMMA OwesNothing ==
  ASSUME NoLostWakeup, NEW t \in Threads,
         lastPublished' = lastPublished, awaiters' = awaiters, closed' = closed,
         \A a \in awaiters : target'[a] = target[a],
         \A u \in Threads \ {t} : pc'[u] = pc[u] /\ seen'[u] = seen[u],
         \A c \in Consumers : c # t => goal'[c] = goal[c],
         \A a \in awaiters : ~WillTakeFor(t, a),
         WillTakeIfClosed(t) /\ closed => WillTakeIfClosed(t)'
  PROVE  NoLostWakeup'
<1>1. \A u \in Threads \ {t} : \A a \in awaiters : WillTakeFor(u, a) => WillTakeFor(u, a)'
  BY DEF WillTakeFor
<1>2. \A u \in Threads \ {t} : WillTakeIfClosed(u) => WillTakeIfClosed(u)'
  BY DEF WillTakeIfClosed
<1> QED
  BY <1>1, <1>2 DEF NoLostWakeup

LEMMA WakeupsStart == Init => Wakeups
  BY ThreadsAssumption DEF Init, Wakeups, Goals, NoLostWakeup, Threads

LEMMA WakeupsSteps ==
  TypeOK /\ Phases /\ Lists /\ Numbers /\ Wakeups /\ [Next]_vars => Wakeups'
<1> SUFFICES ASSUME TypeOK, Phases, Lists, Numbers, Wakeups, [Next]_vars PROVE Wakeups'
  OBVIOUS
<1>0. TypeOK' /\ Numbers'
  BY TypeSteps, NumbersSteps
<1> USE <1>0, ThreadsAssumption, Order, InitialType
    DEF TypeOK, Threads, Goto, shared, waits, locals, vars,
        Wakeups, Goals, NoLostWakeup, WillTakeFor, WillTakeIfClosed
<1>1. ASSUME NEW c \in Consumers, NEW s \in Sequences, Wait(c, s) PROVE Wakeups'
  <2>1. ~Listed(c) /\ pc[c] = "idle"
    BY <1>1 DEF Wait, Lists, ListedIsPending, Waiting
  <2>2. c \notin awaiters /\ \A t \in Threads : c \notin requeue[t]
    BY <2>1 DEF Listed, Held
  <2>3. /\ UNCHANGED <<lastPublished, awaiters, closed>>
        /\ target' = [target EXCEPT ![c] = s]
        /\ \A u \in Threads \ {c} : pc'[u] = pc[u] /\ seen'[u] = seen[u] /\ requeue'[u] = requeue[u]
        /\ \A x \in Consumers \ {c} : goal'[x] = goal[x]
        /\ pc'[c] = "enqueue" => requeue'[c] = {c} /\ goal'[c] = s
    <3>1. CASE Precedes(lastPublished, s)
      BY <1>1, <3>1 DEF Wait
    <3>2. CASE ~Precedes(lastPublished, s)
      BY <1>1, <3>2 DEF Wait
    <3> QED
      BY <3>1, <3>2
  <2>4. Goals'
    <3>1. \A x \in Consumers \ {c} : \A a \in requeue[x] : target'[a] = target[a]
      BY <2>2, <2>3
    <3>2. \A a \in requeue[Publisher] : target'[a] = target[a]
      BY <2>2, <2>3
    <3>3. Publisher # c /\ seen'[Publisher] = seen[Publisher]
      BY <2>3
    <3>4. pc'[c] = "enqueue" => \A a \in requeue'[c] : goal'[c] <= target'[a]
      BY <2>3
    <3> QED
      BY <2>3, <3>1, <3>2, <3>3, <3>4
  <2>5. ~WillTakeIfClosed(c) /\ \A a \in awaiters : ~WillTakeFor(c, a) /\ target'[a] = target[a]
    BY <2>1, <2>2, <2>3
  <2>6. NoLostWakeup'
    <3> HIDE DEF WillTakeFor, WillTakeIfClosed, NoLostWakeup
    <3> QED
      BY <2>3, <2>5, OwesNothing
  <2> QED
    BY <2>4, <2>6
<1>2. ASSUME NEW c \in Consumers, ReturnAtOnce(c) PROVE Wakeups'
  <2>1. /\ pc' = [pc EXCEPT ![c] = "idle"]
        /\ \A u \in Threads : seen'[u] = IF u = c THEN Initial ELSE seen[u]
        /\ \A x \in Consumers : x # c => goal'[x] = goal[x]
    <3>1. Leave(c, "idle")
      BY <1>2 DEF ReturnAtOnce
    <3> QED
      BY <3>1, Leaves
  <2>2. UNCHANGED <<lastPublished, awaiters, closed, target, requeue>> /\ pc[c] = "satisfied"
    BY <1>2 DEF ReturnAtOnce
  <2>3. Goals'
    BY <2>1, <2>2
  <2>4. NoLostWakeup'
    <3>1. WillTakeIfClosed(c) /\ closed => WillTakeIfClosed(c)'
      BY <2>1, <2>2
    <3>2. \A a \in awaiters : ~WillTakeFor(c, a) /\ target'[a] = target[a]
      BY <2>1, <2>2
    <3> HIDE DEF WillTakeFor, WillTakeIfClosed, NoLostWakeup
    <3> QED
      BY <2>1, <2>2, <3>1, <3>2, OwesNothing
  <2> QED
    BY <2>3, <2>4
<1>3. ASSUME NEW c \in Consumers, Resume(c) PROVE Wakeups'
  BY <1>3 DEF Resume
<1>4. ASSUME NEW c \in Consumers, Enqueue(c) PROVE Wakeups'
  BY <1>4 DEF Enqueue, PushRequeue
<1>5. ASSUME NEW c \in Consumers, LoadPublished(c) PROVE Wakeups'
  BY <1>5 DEF LoadPublished
<1>6. ASSUME NEW c \in Consumers, LoadClosed(c) PROVE Wakeups'
  <2>1. /\ UNCHANGED <<lastPublished, awaiters, closed, target, seen, goal, requeue>>
        /\ \A u \in Threads \ {c} : pc'[u] = pc[u]
        /\ pc[c] = "loadClosed"
    BY <1>6 DEF LoadClosed
  <2>2. pc'[c] = IF seen[c] < goal[c] /\ ~closed THEN "resume" ELSE "take"
    BY <1>6 DEF LoadClosed
  <2>3. Goals'
    BY <2>1, <2>2
  <2>4. CASE pc'[c] = "take"
    BY <2>1, <2>4
  <2>5. CASE pc'[c] = "resume"
    <3>1. seen[c] < goal[c] /\ ~closed
      BY <2>2, <2>5
    <3>2. \A a \in awaiters : ~WillTakeFor(c, a) /\ target'[a] = target[a]
      BY <2>1, <3>1
    <3>3. NoLostWakeup'
      <4> HIDE DEF WillTakeFor, WillTakeIfClosed, NoLostWakeup
      <4> QED
        BY <2>1, <3>1, <3>2, OwesNothing
    <3> QED
      BY <2>3, <3>3
  <2> QED
    BY <2>2, <2>4, <2>5
<1>7. ASSUME NEW c \in Consumers, TakeAwaiters(c) PROVE Wakeups'
  BY <1>7 DEF TakeAwaiters, TakeAndSplit, Unsatisfied
<1>8. ASSUME NEW s \in Sequences, Publish(s) PROVE Wakeups'
  BY <1>8 DEF Publish
<1>9. CASE PublishExchange
  <2>1. awaiters' = {}
    BY <1>9 DEF PublishExchange, TakeAndSplit
  <2>2. NoLostWakeup'
    BY <2>1
  <2>3. \A c \in Consumers : pc'[c] = "enqueue" =>
          pc[c] = "enqueue" /\ requeue'[c] = requeue[c] /\ goal'[c] = goal[c] /\ target' = target
    <3>1. CASE awaiters = {}
      <4>1. /\ pc' = [pc EXCEPT ![Publisher] = "idle"]
            /\ \A u \in Threads : seen'[u] = IF u = Publisher THEN Initial ELSE seen[u]
            /\ \A x \in Consumers : x # Publisher => goal'[x] = goal[x]
        <5>1. Leave(Publisher, "idle")
          BY <1>9, <3>1 DEF PublishExchange
        <5> QED
          BY <5>1, Leaves
      <4> QED
        BY <1>9, <4>1 DEF PublishExchange, TakeAndSplit
    <3>2. CASE awaiters # {}
      BY <1>9, <3>2 DEF PublishExchange, TakeAndSplit
    <3> QED
      BY <3>1, <3>2
  <2>4. pc'[Publisher] = "requeue" =>
          \A a \in requeue'[Publisher] : seen'[Publisher] < target'[a]
    <3>1. CASE awaiters = {}
      <4>1. Leave(Publisher, "idle")
        BY <1>9, <3>1 DEF PublishExchange
      <4>2. pc'[Publisher] = "idle"
        BY <4>1 DEF Leave
      <4> QED
        BY <4>2
    <3>2. CASE awaiters # {}
      BY <1>9, <3>2 DEF PublishExchange, TakeAndSplit, Unsatisfied
    <3> QED
      BY <3>1, <3>2
  <2> QED
    BY <2>2, <2>3, <2>4
<1>10. CASE PublishRequeue
  <2>1. /\ UNCHANGED <<lastPublished, closed, target, seen, goal>>
        /\ awaiters' = awaiters \cup requeue[Publisher]
        /\ requeue' = [requeue EXCEPT ![Publisher] = {}]
        /\ pc[Publisher] = "requeue"
        /\ pc' = [pc EXCEPT ![Publisher] = "resume"]
    BY <1>10 DEF PublishRequeue, PushRequeue
  <2>2. \A a \in requeue[Publisher] : lastPublished < target[a]
    BY <2>1 DEF Numbers, Memories
  <2>3. Goals'
    BY <2>1
  <2>4. \A u \in Threads \ {Publisher} : \A a \in awaiters : WillTakeFor(u, a) => WillTakeFor(u, a)'
    BY <2>1
  <2>5. \A a \in awaiters : ~WillTakeFor(Publisher, a)
    BY <2>1
  <2>6. WillTakeIfClosed(Publisher)'
    BY <2>1
  <2>7. NoLostWakeup'
    <3>1. ASSUME NEW a \in awaiters', target'[a] <= lastPublished'
          PROVE  \E t \in Threads : WillTakeFor(t, a)'
      <4>1. a \in awaiters /\ target[a] <= lastPublished
        BY <2>1, <2>2, <3>1
      <4> HIDE DEF WillTakeFor
      <4>2. PICK t \in Threads : WillTakeFor(t, a)
        BY <4>1
      <4> QED
        BY <4>1, <4>2, <2>4, <2>5
    <3> HIDE DEF WillTakeFor, WillTakeIfClosed
    <3> QED
      BY <2>6, <3>1
  <2> QED
    BY <2>3, <2>7
<1>11. CASE PublishLoadClosed
  <2>1. /\ pc' = [pc EXCEPT ![Publisher] = IF closed THEN "takeAll" ELSE "idle"]
        /\ \A u \in Threads : seen'[u] = IF u = Publisher THEN Initial ELSE seen[u]
        /\ \A x \in Consumers : x # Publisher => goal'[x] = goal[x]
    <3>1. Leave(Publisher, IF closed THEN "takeAll" ELSE "idle")
      BY <1>11 DEF PublishLoadClosed
    <3> QED
      BY <3>1, Leaves
  <2>2. UNCHANGED <<lastPublished, awaiters, closed, target, requeue>> /\ pc[Publisher] = "loadClosed"
    BY <1>11 DEF PublishLoadClosed
  <2>3. Goals'
    BY <2>1, <2>2
  <2>4. NoLostWakeup'
    <3>1. WillTakeIfClosed(Publisher) /\ closed => WillTakeIfClosed(Publisher)'
      BY <2>1, <2>2
    <3>2. \A a \in awaiters : ~WillTakeFor(Publisher, a) /\ target'[a] = target[a]
      BY <2>1, <2>2
    <3> HIDE DEF WillTakeFor, WillTakeIfClosed, NoLostWakeup
    <3> QED
      BY <2>1, <2>2, <3>1, <3>2, OwesNothing
  <2> QED
    BY <2>3, <2>4
<1>12. ASSUME NEW k \in Closers, Close(k) PROVE Wakeups'
  BY <1>12 DEF Close
<1>13. ASSUME NEW t \in Threads, TakeAll(t) PROVE Wakeups'
  BY <1>13 DEF TakeAll
<1>14. ASSUME NEW t \in Threads, NEW a \in Consumers, ResumeAwaiter(t, a) PROVE Wakeups'
  BY <1>14 DEF ResumeAwaiter
<1>15. ASSUME NEW t \in Threads, ResumedAll(t) PROVE Wakeups'
  <2> DEFINE label == IF t = Publisher THEN "loadClosed"
                      ELSE IF sawClosed[t] THEN "cancel" ELSE "suspended"
  <2>1. /\ pc' = [pc EXCEPT ![t] = label]
        /\ \A u \in Threads : seen'[u] = IF u = t THEN Initial ELSE seen[u]
        /\ \A x \in Consumers : x # t => goal'[x] = goal[x]
    <3>1. Leave(t, label)
      BY <1>15 DEF ResumedAll
    <3> QED
      BY <3>1, Leaves
  <2>2. UNCHANGED <<lastPublished, awaiters, closed, target, requeue>> /\ pc[t] = "resume"
    BY <1>15 DEF ResumedAll
  <2>3. label \notin {"enqueue", "requeue"} /\ (t = Publisher => label = "loadClosed")
    OBVIOUS
  <2> HIDE DEF label
  <2>4. Goals'
    BY <2>1, <2>2, <2>3
  <2>5. NoLostWakeup'
    <3>1. WillTakeIfClosed(t) /\ closed => WillTakeIfClosed(t)'
      BY <2>1, <2>2, <2>3
    <3>2. \A a \in awaiters : ~WillTakeFor(t, a) /\ target'[a] = target[a]
      BY <2>1, <2>2, <2>3
    <3> HIDE DEF WillTakeFor, WillTakeIfClosed, NoLostWakeup
    <3> QED
      BY <2>1, <2>2, <2>3, <3>1, <3>2, OwesNothing
  <2> QED
    BY <2>4, <2>5
<1>16. ASSUME NEW t \in Threads, NEW a \in Consumers, CancelAwaiter(t, a) PROVE Wakeups'
  BY <1>16 DEF CancelAwaiter
<1>17. ASSUME NEW t \in Threads, CancelledAll(t) PROVE Wakeups'
  BY <1>17 DEF CancelledAll
<1>18. CASE UNCHANGED vars
  BY <1>18
<1> QED
  BY <1>1, <1>2, <1>3, <1>4, <1>5, <1>6, <1>7, <1>8, <1>9, <1>10, <1>11, <1>12,
     <1>13, <1>14, <1>15, <1>16, <1>17, <1>18
     DEF Next, ConsumerStep, PublisherStep, CloserStep, ListStep

(***************************************************************************)
(* The theorems                                                            *)
(***************************************************************************)
IInv == TypeOK /\ Phases /\ Lists /\ Numbers /\ Wakeups

LEMMA Invariance == Spec => []IInv
<1>1. Init => IInv
  BY TypeStarts, PhasesStart, ListsStart, NumbersStart, WakeupsStart DEF IInv
<1>2. IInv /\ [Next]_vars => IInv'
  BY TypeSteps, PhasesSteps, ListsSteps, NumbersSteps, WakeupsSteps DEF IInv
<1> QED
  BY <1>1, <1>2, PTL DEF Spec

\* The lists never share an awaiter, however many threads split and rejoin them.
THEOREM EveryAwaiterHasOneOwner == Spec => []OneOwner
<1>1. IInv => OneOwner
  BY DEF IInv, Lists
<1> QED
  BY <1>1, Invariance, PTL

\* Only awaiters of coroutines that still wait, and that nobody signalled yet,
\* are ever signalled or linked.
THEOREM NoAwaiterDangles == Spec => []ListedIsPending
<1>1. IInv => ListedIsPending
  BY DEF IInv, Lists
<1> QED
  BY <1>1, Invariance, PTL

\* No waiting coroutine falls out of the lists.
THEOREM NoAwaiterIsDropped == Spec => []NoneDropped
<1>1. IInv => NoneDropped
  BY DEF IInv, Lists
<1> QED
  BY <1>1, Invariance, PTL

\* Whenever an awaiter in the list could go on, some thread is about to take
\* the list: no interleaving of publish(), close() and waits loses a wakeup.
THEOREM WakeupsAreNotLost == Spec => []NoLostWakeup
<1>1. IInv => NoLostWakeup
  BY DEF IInv, Wakeups
<1> QED
  BY <1>1, Invariance, PTL

\* A wait never returns a number that is not published or is before the one it
\* asked for, and never throws on an open barrier.
THEOREM AnswersAreSound == Spec => []AnswerIsSound
<1>1. IInv => AnswerIsSound
  BY DEF IInv, Numbers
<1> QED
  BY <1>1, Invariance, PTL

(***************************************************************************)
(* Refinement, without its fairness                                        *)
(***************************************************************************)
LEMMA AbstractStarts == Init => Abstract!Init
  BY ThreadsAssumption DEF Init, Abstract!Init, Threads, AnswerTo, GrantedTo

\* A step that concerns the wait of c only, seen from outside.
LEMMA Visible ==
  ASSUME NEW c \in Consumers,
         \A x \in Consumers \ {c} : AnswerTo(x)' = AnswerTo(x) /\ GrantedTo(x)' = GrantedTo(x)
  PROVE  /\ [x \in Consumers |-> AnswerTo(x)]'
              = [[x \in Consumers |-> AnswerTo(x)] EXCEPT ![c] = AnswerTo(c)']
         /\ [x \in Consumers |-> GrantedTo(x)]'
              = [[x \in Consumers |-> GrantedTo(x)] EXCEPT ![c] = GrantedTo(c)']
OBVIOUS

LEMMA AbstractSteps == IInv /\ [Next]_vars => [Abstract!Next]_(Abstract!vars)
<1> SUFFICES ASSUME IInv, [Next]_vars PROVE [Abstract!Next]_(Abstract!vars)
  OBVIOUS
<1>0. Lists /\ AnswerIsSound /\ Numbers /\ Phases
  BY DEF IInv, Numbers
<1> USE <1>0, ThreadsAssumption
    DEF IInv, TypeOK, Threads, Goto, Leave, shared, waits, locals, vars,
        Abstract!Next, Abstract!vars, Abstract!Publish, Abstract!Close,
        Abstract!Ask, Abstract!Answer, Abstract!Grant, Abstract!Refuse
<1>1. ASSUME NEW c \in Consumers, NEW s \in Sequences, Wait(c, s) PROVE [Abstract!Next]_(Abstract!vars)
  <2>1. \A x \in Consumers \ {c} : AnswerTo(x)' = AnswerTo(x) /\ GrantedTo(x)' = GrantedTo(x)
    BY <1>1 DEF Wait, AnswerTo, GrantedTo
  <2>2. /\ pc[c] = "idle" /\ pc'[c] # "idle"
        /\ target' = [target EXCEPT ![c] = s]
        /\ UNCHANGED <<lastPublished, closed>>
    BY <1>1 DEF Wait
  <2>3. AnswerTo(c) # "asked" /\ AnswerTo(c)' = "asked" /\ GrantedTo(c)' = Initial
    BY <2>2 DEF AnswerTo, GrantedTo
  <2>4. Abstract!Ask(c, s)
    BY <2>1, <2>2, <2>3, Visible DEF Sequences
  <2> QED
    BY <2>4 DEF Sequences
<1>2. ASSUME NEW c \in Consumers, ReturnAtOnce(c) PROVE [Abstract!Next]_(Abstract!vars)
  <2>1. \A x \in Consumers \ {c} : AnswerTo(x)' = AnswerTo(x) /\ GrantedTo(x)' = GrantedTo(x)
    BY <1>2 DEF ReturnAtOnce, AnswerTo, GrantedTo
  <2>2. /\ pc[c] = "satisfied" /\ pc'[c] = "idle"
        /\ event'[c] = IF closed THEN "canceled" ELSE "set"
        /\ value'[c] = IF closed THEN value[c] ELSE seen[c]
        /\ UNCHANGED <<lastPublished, closed, target>>
    BY <1>2 DEF ReturnAtOnce
  <2>3. AnswerTo(c) = "asked" /\ GrantedTo(c) = Initial
    BY <2>2 DEF AnswerTo, GrantedTo
  <2>4. CASE closed
    <3>1. AnswerTo(c)' = "refused" /\ GrantedTo(c)' = GrantedTo(c)
      BY <2>2, <2>3, <2>4 DEF AnswerTo, GrantedTo
    <3>2. Abstract!Refuse(c)
      BY <2>1, <2>2, <2>3, <2>4, <3>1, Visible
    <3> QED
      BY <3>2
  <2>5. CASE ~closed
    <3>1. AnswerTo(c)' = "granted" /\ GrantedTo(c)' = seen[c]
      BY <2>2, <2>5 DEF AnswerTo, GrantedTo
    <3>2. seen[c] \in target[c] .. lastPublished
      BY <2>2, Order DEF Numbers, Memories, Granted
    <3>3. Abstract!Grant(c)
      BY <2>1, <2>2, <2>3, <3>1, <3>2, Visible
    <3> QED
      BY <3>3
  <2> QED
    BY <2>4, <2>5
<1>3. ASSUME NEW c \in Consumers, Resume(c) PROVE [Abstract!Next]_(Abstract!vars)
  <2>1. \A x \in Consumers \ {c} : AnswerTo(x)' = AnswerTo(x) /\ GrantedTo(x)' = GrantedTo(x)
    BY <1>3 DEF Resume, AnswerTo, GrantedTo
  <2>2. /\ pc[c] = "suspended" /\ pc'[c] = "idle" /\ event[c] # "not_set"
        /\ UNCHANGED <<lastPublished, closed, target, event, value>>
    BY <1>3 DEF Resume
  <2>3. AnswerTo(c) = "asked" /\ GrantedTo(c) = Initial
    BY <2>2 DEF AnswerTo, GrantedTo
  <2>4. CASE event[c] = "canceled"
    <3>1. AnswerTo(c)' = "refused" /\ GrantedTo(c)' = GrantedTo(c)
      BY <2>2, <2>3, <2>4 DEF AnswerTo, GrantedTo
    <3>2. closed
      BY <2>4 DEF AnswerIsSound
    <3>3. Abstract!Refuse(c)
      BY <2>1, <2>2, <2>3, <3>1, <3>2, Visible
    <3> QED
      BY <3>3
  <2>5. CASE event[c] = "set"
    <3>1. AnswerTo(c)' = "granted" /\ GrantedTo(c)' = value[c]
      BY <2>2, <2>5 DEF AnswerTo, GrantedTo
    <3>2. value[c] \in target[c] .. lastPublished
      BY <2>5, Order DEF AnswerIsSound
    <3>3. Abstract!Grant(c)
      BY <2>1, <2>2, <2>3, <3>1, <3>2, Visible
    <3> QED
      BY <3>3
  <2> QED
    BY <2>2, <2>4, <2>5
<1>4. ASSUME NEW c \in Consumers, Enqueue(c) PROVE [Abstract!Next]_(Abstract!vars)
  BY <1>4 DEF Enqueue, AnswerTo, GrantedTo
<1>5. ASSUME NEW c \in Consumers, LoadPublished(c) PROVE [Abstract!Next]_(Abstract!vars)
  BY <1>5 DEF LoadPublished, AnswerTo, GrantedTo
<1>6. ASSUME NEW c \in Consumers, LoadClosed(c) PROVE [Abstract!Next]_(Abstract!vars)
  BY <1>6 DEF LoadClosed, AnswerTo, GrantedTo
<1>7. ASSUME NEW c \in Consumers, TakeAwaiters(c) PROVE [Abstract!Next]_(Abstract!vars)
  BY <1>7 DEF TakeAwaiters, AnswerTo, GrantedTo
<1>8. ASSUME NEW s \in Sequences, Publish(s) PROVE [Abstract!Next]_(Abstract!vars)
  <2>1. /\ lastPublished < s /\ lastPublished' = s
        /\ UNCHANGED <<closed, target, event, value>>
        /\ \A x \in Consumers : pc'[x] = pc[x]
    BY <1>8 DEF Publish
  <2>2. s \in (lastPublished + 1) .. Last
    BY <2>1, RangeAssumption DEF Sequences
  <2>3. \A x \in Consumers : AnswerTo(x)' = AnswerTo(x) /\ GrantedTo(x)' = GrantedTo(x)
    BY <2>1 DEF AnswerTo, GrantedTo
  <2>4. Abstract!Publish(s)
    BY <2>1, <2>2, <2>3
  <2> QED
    BY <2>4 DEF Sequences
<1>9. CASE PublishExchange
  BY <1>9 DEF PublishExchange, AnswerTo, GrantedTo
<1>10. CASE PublishRequeue
  BY <1>10 DEF PublishRequeue, AnswerTo, GrantedTo
<1>11. CASE PublishLoadClosed
  BY <1>11 DEF PublishLoadClosed, AnswerTo, GrantedTo
<1>12. ASSUME NEW k \in Closers, Close(k) PROVE [Abstract!Next]_(Abstract!vars)
  <2>1. /\ closed' = TRUE /\ UNCHANGED <<lastPublished, target, event, value>>
        /\ \A x \in Consumers : pc'[x] = pc[x]
    BY <1>12 DEF Close
  <2>2. \A x \in Consumers : AnswerTo(x)' = AnswerTo(x) /\ GrantedTo(x)' = GrantedTo(x)
    BY <2>1 DEF AnswerTo, GrantedTo
  <2>3. Abstract!Close \/ UNCHANGED Abstract!vars
    BY <2>1, <2>2
  <2> QED
    BY <2>3
<1>13. ASSUME NEW t \in Threads, TakeAll(t) PROVE [Abstract!Next]_(Abstract!vars)
  BY <1>13 DEF TakeAll, AnswerTo, GrantedTo
<1>14. ASSUME NEW t \in Threads, NEW a \in Consumers, ResumeAwaiter(t, a) PROVE [Abstract!Next]_(Abstract!vars)
  <2>1. Listed(a)
    BY <1>14 DEF ResumeAwaiter, Listed, Held
  <2>2. pc[a] # "idle" /\ pc' = pc
    BY <1>14, <2>1 DEF ResumeAwaiter, Lists, ListedIsPending, Waiting
  <2>3. /\ UNCHANGED <<lastPublished, closed, target>>
        /\ \A x \in Consumers \ {a} : event'[x] = event[x] /\ value'[x] = value[x]
    BY <1>14 DEF ResumeAwaiter
  <2>4. \A x \in Consumers : AnswerTo(x)' = AnswerTo(x) /\ GrantedTo(x)' = GrantedTo(x)
    BY <2>2, <2>3 DEF AnswerTo, GrantedTo
  <2> QED
    BY <2>3, <2>4
<1>15. ASSUME NEW t \in Threads, ResumedAll(t) PROVE [Abstract!Next]_(Abstract!vars)
  BY <1>15 DEF ResumedAll, AnswerTo, GrantedTo
<1>16. ASSUME NEW t \in Threads, NEW a \in Consumers, CancelAwaiter(t, a) PROVE [Abstract!Next]_(Abstract!vars)
  <2>1. Listed(a)
    BY <1>16 DEF CancelAwaiter, Listed, Held
  <2>2. pc[a] # "idle" /\ pc' = pc
    BY <1>16, <2>1 DEF CancelAwaiter, Lists, ListedIsPending, Waiting
  <2>3. /\ UNCHANGED <<lastPublished, closed, target>>
        /\ \A x \in Consumers \ {a} : event'[x] = event[x] /\ value'[x] = value[x]
    BY <1>16 DEF CancelAwaiter
  <2>4. \A x \in Consumers : AnswerTo(x)' = AnswerTo(x) /\ GrantedTo(x)' = GrantedTo(x)
    BY <2>2, <2>3 DEF AnswerTo, GrantedTo
  <2> QED
    BY <2>3, <2>4
<1>17. ASSUME NEW t \in Threads, CancelledAll(t) PROVE [Abstract!Next]_(Abstract!vars)
  BY <1>17 DEF CancelledAll, AnswerTo, GrantedTo
<1>18. CASE UNCHANGED vars
  BY <1>18 DEF AnswerTo, GrantedTo
<1> QED
  BY <1>1, <1>2, <1>3, <1>4, <1>5, <1>6, <1>7, <1>8, <1>9, <1>10, <1>11, <1>12,
     <1>13, <1>14, <1>15, <1>16, <1>17, <1>18
     DEF Next, ConsumerStep, PublisherStep, CloserStep, ListStep
\* A barrier answers its callers in atomic steps: it starts as the abstract one
\* does, and each of its steps is an abstract one or not visible.
THEOREM AnswersAtomically == Spec => Abstract!Init /\ [][Abstract!Next]_(Abstract!vars)
  BY AbstractStarts, AbstractSteps, Invariance, PTL DEF Spec
=============================================================================
