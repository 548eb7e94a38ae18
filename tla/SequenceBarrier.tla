-------------------------- MODULE SequenceBarrier --------------------------
(***************************************************************************)
(* include/sequence_barrier.h: consumers wait, without a lock, until a     *)
(* publisher has published a sequence number.                              *)
(*                                                                         *)
(* Every consumer that waits keeps an Awaiter in its coroutine frame and   *)
(* pushes it on the list _awaiters.  Whoever then needs to look at the     *)
(* list takes the whole of it, splits it into the awaiters that are        *)
(* satisfied and those that are not, pushes these back and resumes those.  *)
(* The threads meet in three atomics only (_lastPublished, _awaiters,      *)
(* _isClosed), all accessed with sequentially consistent operations where  *)
(* the order matters; one access of one of them is one step here.          *)
(*                                                                         *)
(* An awaiter is named by its consumer.  A list is the set of its          *)
(* awaiters: no decision of the code depends on the order, and the model   *)
(* resumes and cancels the members of a list in any order.  Pushing with   *)
(* a compare_exchange loop is one step, the successful exchange.           *)
(***************************************************************************)
EXTENDS SequenceTraits

CONSTANTS
  Consumers,        \* coroutines that call wait_until_published()
  Publisher,        \* the thread that calls publish()
  Closers,          \* threads that call close(), cancellation handlers too
  First, Last,      \* bounds of the sequence numbers in play
  Initial           \* the constructor's initialSequence

ASSUME ThreadsAssumption ==
  /\ Publisher \notin Consumers \cup Closers
  /\ Consumers \cap Closers = {}

\* Nobody waits half of the range ahead or behind.
ASSUME RangeAssumption ==
  /\ First \in Int /\ Last \in Int /\ Initial \in First .. Last
  /\ Last - First < HalfRange

VARIABLES
  lastPublished,    \* _lastPublished
  awaiters,         \* _awaiters
  closed,           \* _isClosed
  target,           \* the awaiters' targetSequence
  event,            \* their _event: "not_set", "set" or "canceled"
  value,            \* their _published, and what a wait returned
  pc,               \* where each thread is
  seen,             \* publish: sequence; add_awaiter: lastKnownPublished
  sawClosed,        \* add_awaiter: isClosed
  goal,             \* add_awaiter: targetSequence
  requeue,          \* awaitersToRequeue, and the list that is cancelled
  ready             \* awaitersToResume

shared == <<lastPublished, awaiters, closed>>
waits == <<target, event, value>>
locals == <<seen, sawClosed, goal, requeue, ready>>
vars == <<shared, waits, pc, locals>>

Threads == Consumers \cup {Publisher} \cup Closers
Sequences == First .. Last

Init ==
  /\ lastPublished = Initial
  /\ awaiters = {}
  /\ closed = FALSE
  /\ target = [c \in Consumers |-> Initial]
  /\ event = [c \in Consumers |-> "not_set"]
  /\ value = [c \in Consumers |-> Initial]
  /\ pc = [t \in Threads |-> "idle"]
  /\ seen = [t \in Threads |-> Initial]
  /\ sawClosed = [c \in Consumers |-> FALSE]
  /\ goal = [c \in Consumers |-> Initial]
  /\ requeue = [t \in Threads |-> {}]
  /\ ready = [t \in Threads |-> {}]

Goto(t, label) == pc' = [pc EXCEPT ![t] = label]

\* Thread t goes on where its local variables are not used any more.
Leave(t, label) ==
  /\ Goto(t, label)
  /\ seen' = [seen EXCEPT ![t] = Initial]
  /\ sawClosed' = [c \in Consumers |-> c # t /\ sawClosed[c]]
  /\ goal' = [c \in Consumers |-> IF c = t THEN Initial ELSE goal[c]]

\* Mutation: the arguments of precedes() swapped.
UnsatisfiedSwapped(S, s) == {a \in S : Precedes(target[a], s)}

\* The awaiters in S that the sequence number s does not satisfy.
Unsatisfied(S, s) == {a \in S : Precedes(s, target[a])}

\* Thread t takes the list and splits it: satisfied by s, or not.
TakeAndSplit(t, s) ==
  /\ awaiters' = {}
  /\ requeue' = [requeue EXCEPT ![t] = Unsatisfied(awaiters, s)]
  /\ ready' = [ready EXCEPT ![t] = @ \cup (awaiters \ Unsatisfied(awaiters, s))]

\* Mutation: the requeue list is not reset after it was pushed.
PushRequeueKeeps(t) ==
  /\ awaiters' = awaiters \cup requeue[t]
  /\ UNCHANGED requeue

\* Mutation: a plain store of the head instead of a push.
PushRequeueOverwrites(t) ==
  /\ awaiters' = requeue[t]
  /\ requeue' = [requeue EXCEPT ![t] = {}]

\* Thread t pushes its requeue list on _awaiters.
PushRequeue(t) ==
  /\ awaiters' = awaiters \cup requeue[t]
  /\ requeue' = [requeue EXCEPT ![t] = {}]

(***************************************************************************)
(* wait_until_published(targetSequence)                                    *)
(***************************************************************************)
\* It loads _lastPublished; not satisfied, it constructs its awaiter.
Wait(c, s) ==
  /\ pc[c] = "idle"
  /\ target' = [target EXCEPT ![c] = s]
  /\ event' = [event EXCEPT ![c] = "not_set"]
  /\ value' = [value EXCEPT ![c] = Initial]
  /\ IF Precedes(lastPublished, s)
     THEN /\ goal' = [goal EXCEPT ![c] = s]
          /\ requeue' = [requeue EXCEPT ![c] = {c}]
          /\ Goto(c, "enqueue")
          /\ UNCHANGED seen
     ELSE /\ seen' = [seen EXCEPT ![c] = lastPublished]
          /\ Goto(c, "satisfied")
          /\ UNCHANGED <<goal, requeue>>
  /\ UNCHANGED <<shared, sawClosed, ready>>

\* Satisfied at once: it returns the number it loaded, or throws when closed.
ReturnAtOnce(c) ==
  /\ pc[c] = "satisfied"
  /\ event' = [event EXCEPT ![c] = IF closed THEN "canceled" ELSE "set"]
  /\ value' = [value EXCEPT ![c] = IF closed THEN @ ELSE seen[c]]
  /\ Leave(c, "idle")
  /\ UNCHANGED <<shared, target, requeue, ready>>

\* After add_awaiter(): co_await awaiter.wait().
Resume(c) ==
  /\ pc[c] = "suspended"
  /\ event[c] # "not_set"
  /\ Goto(c, "idle")
  /\ UNCHANGED <<shared, waits, locals>>

(***************************************************************************)
(* add_awaiter(), run by the consumer that waits                           *)
(***************************************************************************)
Enqueue(c) ==
  /\ pc[c] = "enqueue"
  /\ PushRequeue(c)
  /\ Goto(c, "load")
  /\ UNCHANGED <<lastPublished, closed, waits, seen, sawClosed, goal, ready>>

LoadPublished(c) ==
  /\ pc[c] = "load"
  /\ seen' = [seen EXCEPT ![c] = lastPublished]
  /\ Goto(c, "loadClosed")
  /\ UNCHANGED <<shared, waits, sawClosed, goal, requeue, ready>>

\* It leaves the loop when it finds nothing to do for those it enqueued.
LoadClosed(c) ==
  /\ pc[c] = "loadClosed"
  /\ sawClosed' = [sawClosed EXCEPT ![c] = closed]
  /\ Goto(c, IF Precedes(seen[c], goal[c]) /\ ~closed THEN "resume" ELSE "take")
  /\ UNCHANGED <<shared, waits, seen, goal, requeue, ready>>

\* Mutation: the next goal is the distance to the target instead of the target.
TakeAwaitersDistance(c) ==
  LET unsatisfied == Unsatisfied(awaiters, seen[c]) IN
  /\ pc[c] = "take"
  /\ TakeAndSplit(c, seen[c])
  /\ \/ unsatisfied = {} /\ UNCHANGED goal
     \/ \E a \in unsatisfied :
          goal' = [goal EXCEPT ![c] = Difference(target[a], seen[c])]
  /\ Goto(c, IF unsatisfied # {} /\ ~sawClosed[c] THEN "enqueue" ELSE "resume")
  /\ UNCHANGED <<lastPublished, closed, waits, seen, sawClosed>>

\* Take the list; the next goal is the earliest target among those to requeue
\* (lastKnownPublished + minDiff), and the loop ends when there is none.
TakeAwaiters(c) ==
  LET unsatisfied == Unsatisfied(awaiters, seen[c]) IN
  /\ pc[c] = "take"
  /\ TakeAndSplit(c, seen[c])
  /\ \/ /\ unsatisfied = {}
        /\ UNCHANGED goal
     \/ \E a \in unsatisfied :
          /\ \A b \in unsatisfied :
               Difference(target[a], seen[c]) <= Difference(target[b], seen[c])
          /\ goal' = [goal EXCEPT ![c] = seen[c] + Difference(target[a], seen[c])]
  /\ Goto(c, IF unsatisfied # {} /\ ~sawClosed[c] THEN "enqueue" ELSE "resume")
  /\ UNCHANGED <<lastPublished, closed, waits, seen, sawClosed>>

(***************************************************************************)
(* publish(sequence)                                                       *)
(***************************************************************************)
\* The publisher publishes in order; it may skip numbers (a batch).
Publish(s) ==
  /\ pc[Publisher] = "idle"
  /\ lastPublished < s
  /\ lastPublished' = s
  /\ seen' = [seen EXCEPT ![Publisher] = s]
  /\ Goto(Publisher, "exchange")
  /\ UNCHANGED <<awaiters, closed, waits, sawClosed, goal, requeue, ready>>

\* It returns when it finds no awaiter.
PublishExchange ==
  /\ pc[Publisher] = "exchange"
  /\ TakeAndSplit(Publisher, seen[Publisher])
  /\ IF awaiters = {}
     THEN Leave(Publisher, "idle")
     ELSE /\ Goto(Publisher, IF Unsatisfied(awaiters, seen[Publisher]) = {}
                             THEN "resume" ELSE "requeue")
          /\ UNCHANGED <<seen, sawClosed, goal>>
  /\ UNCHANGED <<lastPublished, closed, waits>>

PublishRequeue ==
  /\ pc[Publisher] = "requeue"
  /\ PushRequeue(Publisher)
  /\ Goto(Publisher, "resume")
  /\ UNCHANGED <<lastPublished, closed, waits, seen, sawClosed, goal, ready>>

\* Mutation: publish() does not look for a close() that missed its awaiters.
PublishIgnoresClosed ==
  /\ pc[Publisher] = "loadClosed"
  /\ Leave(Publisher, "idle")
  /\ UNCHANGED <<shared, waits, requeue, ready>>

\* close() may have looked at the list while the publisher held it.
PublishLoadClosed ==
  /\ pc[Publisher] = "loadClosed"
  /\ Leave(Publisher, IF closed THEN "takeAll" ELSE "idle")
  /\ UNCHANGED <<shared, waits, requeue, ready>>

(***************************************************************************)
(* close()                                                                 *)
(***************************************************************************)
Close(k) ==
  /\ pc[k] = "idle"
  /\ closed' = TRUE
  /\ Goto(k, "takeAll")
  /\ UNCHANGED <<lastPublished, awaiters, waits, locals>>

(***************************************************************************)
(* What several of them do                                                 *)
(***************************************************************************)
\* Mutation: a load of the list instead of an exchange.
TakeAllLoads(t) ==
  /\ pc[t] = "takeAll"
  /\ requeue' = [requeue EXCEPT ![t] = awaiters]
  /\ Goto(t, "cancel")
  /\ UNCHANGED <<shared, waits, seen, sawClosed, goal, ready>>

\* close(), and publish() when it finds the barrier closed.
TakeAll(t) ==
  /\ pc[t] = "takeAll"
  /\ requeue' = [requeue EXCEPT ![t] = awaiters]
  /\ awaiters' = {}
  /\ Goto(t, "cancel")
  /\ UNCHANGED <<lastPublished, closed, waits, seen, sawClosed, goal, ready>>

\* Mutation: the event is set, the number forgotten.
ResumeAwaiterBlank(t, a) ==
  /\ pc[t] = "resume"
  /\ a \in ready[t]
  /\ ready' = [ready EXCEPT ![t] = @ \ {a}]
  /\ event' = [event EXCEPT ![a] = IF @ = "not_set" THEN "set" ELSE @]
  /\ UNCHANGED <<shared, target, value, pc, seen, sawClosed, goal, requeue>>

\* resume_awaiters(): Awaiter::resume stores _published, then sets the event.
ResumeAwaiter(t, a) ==
  /\ pc[t] = "resume"
  /\ a \in ready[t]
  /\ ready' = [ready EXCEPT ![t] = @ \ {a}]
  /\ value' = [value EXCEPT ![a] = seen[t]]
  /\ event' = [event EXCEPT ![a] = IF @ = "not_set" THEN "set" ELSE @]
  /\ UNCHANGED <<shared, target, pc, seen, sawClosed, goal, requeue>>

ResumedAll(t) ==
  /\ pc[t] = "resume"
  /\ ready[t] = {}
  /\ Leave(t, IF t = Publisher THEN "loadClosed"
              ELSE IF sawClosed[t] THEN "cancel" ELSE "suspended")
  /\ UNCHANGED <<shared, waits, requeue, ready>>

\* cancel_awaiters()
CancelAwaiter(t, a) ==
  /\ pc[t] = "cancel"
  /\ a \in requeue[t]
  /\ requeue' = [requeue EXCEPT ![t] = @ \ {a}]
  /\ event' = [event EXCEPT ![a] = IF @ = "not_set" THEN "canceled" ELSE @]
  /\ UNCHANGED <<shared, target, value, pc, seen, sawClosed, goal, ready>>

CancelledAll(t) ==
  /\ pc[t] = "cancel"
  /\ requeue[t] = {}
  /\ Goto(t, IF t \in Consumers THEN "suspended" ELSE "idle")
  /\ UNCHANGED <<shared, waits, locals>>

(***************************************************************************)
(* The specification                                                       *)
(***************************************************************************)
ListStep(t) ==
  \/ \E a \in Consumers : ResumeAwaiter(t, a) \/ CancelAwaiter(t, a)
  \/ ResumedAll(t) \/ CancelledAll(t)

ConsumerStep(c) ==
  \/ ReturnAtOnce(c) \/ Resume(c)
  \/ Enqueue(c) \/ LoadPublished(c) \/ LoadClosed(c) \/ TakeAwaiters(c)
  \/ ListStep(c)

PublisherStep ==
  \/ PublishExchange \/ PublishRequeue \/ PublishLoadClosed
  \/ TakeAll(Publisher) \/ ListStep(Publisher)

CloserStep(k) == TakeAll(k) \/ ListStep(k)

Next ==
  \/ \E c \in Consumers : ConsumerStep(c) \/ \E s \in Sequences : Wait(c, s)
  \/ PublisherStep \/ \E s \in Sequences : Publish(s)
  \/ \E k \in Closers : CloserStep(k) \/ Close(k)

\* A thread that is inside a call goes on, and the executor resumes a coroutine
\* whose event completed.  Nobody has to publish, to close or to wait again.
Fairness ==
  /\ \A c \in Consumers : WF_vars(ConsumerStep(c))
  /\ WF_vars(PublisherStep)
  /\ \A k \in Closers : WF_vars(CloserStep(k))

Spec == Init /\ [][Next]_vars /\ Fairness

(***************************************************************************)
(* Correctness                                                             *)
(***************************************************************************)
Labels ==
  {"idle", "satisfied", "suspended", "enqueue", "load", "loadClosed", "take",
   "resume", "cancel", "exchange", "requeue", "takeAll"}

TypeOK ==
  /\ lastPublished \in Sequences
  /\ awaiters \subseteq Consumers
  /\ closed \in BOOLEAN
  /\ target \in [Consumers -> Sequences]
  /\ event \in [Consumers -> {"not_set", "set", "canceled"}]
  /\ value \in [Consumers -> Sequences]
  /\ pc \in [Threads -> Labels]
  /\ seen \in [Threads -> Sequences]
  /\ sawClosed \in [Consumers -> BOOLEAN]
  /\ goal \in [Consumers -> Sequences]
  /\ requeue \in [Threads -> SUBSET Consumers]
  /\ ready \in [Threads -> SUBSET Consumers]

\* The awaiters that thread t took from the list, or is about to push on it.
Held(t) == requeue[t] \cup ready[t]

Listed(c) == c \in awaiters \/ \E t \in Threads : c \in Held(t)

\* The consumers whose awaiter exists.
Waiting == {c \in Consumers : pc[c] \notin {"idle", "satisfied"}}

\* An awaiter is in one list at a time, whichever threads pass it around, so
\* that no two threads write its `next' pointer.
OneOwner ==
  /\ \A t \in Threads : awaiters \cap Held(t) = {} /\ requeue[t] \cap ready[t] = {}
  /\ \A t, u \in Threads : t # u => Held(t) \cap Held(u) = {}

\* What is in a list is alive and has not been signalled: nobody touches the
\* frame of a coroutine that may have gone on, nobody calls Event::set or
\* Event::cancel a second time, and when no coroutine waits the list is empty
\* (the assertion of the destructor).
ListedIsPending ==
  \A c \in Consumers : Listed(c) => c \in Waiting /\ event[c] = "not_set"

\* Conversely no awaiter is dropped: who still waits is in some list.
NoneDropped ==
  \A c \in Waiting : event[c] = "not_set" => Listed(c)

\* Thread t will take the list, for the sake of awaiter a.
WillTakeFor(t, a) ==
  \/ t = Publisher /\ pc[t] = "exchange"
  \/ t \in Consumers /\ pc[t] = "load" /\ goal[t] <= target[a]
  \/ t \in Consumers /\ pc[t] = "loadClosed" /\ goal[t] <= seen[t]
  \/ pc[t] = "take"

\* Thread t will take the list once it finds the barrier closed.
WillTakeIfClosed(t) ==
  \/ pc[t] \in {"load", "loadClosed", "take", "takeAll"}
  \/ t = Publisher /\ pc[t] = "resume"

\* No lost wakeup: an awaiter whose number is published, or whose barrier is
\* closed, does not lie in the list without a thread on its way to take it,
\* however publish(), close() and the waits of others interleave.
NoLostWakeup ==
  /\ \A a \in awaiters :
       target[a] <= lastPublished => \E t \in Threads : WillTakeFor(t, a)
  /\ closed /\ awaiters # {} => \E t \in Threads : WillTakeIfClosed(t)

\* A wait returns a number that is published and not before the one it asked
\* for (the assertion of Awaiter::resume), and throws only on a closed barrier.
AnswerIsSound ==
  \A c \in Consumers :
    /\ event[c] = "set" => target[c] <= value[c] /\ value[c] <= lastPublished
    /\ event[c] = "canceled" => closed

\* What the consumer c knows about its wait.
AnswerTo(c) ==
  IF pc[c] # "idle" THEN "asked"
  ELSE CASE event[c] = "set" -> "granted"
         [] event[c] = "canceled" -> "refused"
         [] OTHER -> "none"

GrantedTo(c) == IF pc[c] = "idle" /\ event[c] = "set" THEN value[c] ELSE Initial

\* Refinement: for its callers the barrier works in atomic steps.
Abstract ==
  INSTANCE PublishedUpTo WITH
    published <- lastPublished,
    shut <- closed,
    want <- target,
    answer <- [c \in Consumers |-> AnswerTo(c)],
    got <- [c \in Consumers |-> GrantedTo(c)]

ImplementsPublishedUpTo == Abstract!Spec
=============================================================================
