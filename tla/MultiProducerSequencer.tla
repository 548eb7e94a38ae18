----------------------- MODULE MultiProducerSequencer -----------------------
(***************************************************************************)
(* include/multi_producer_sequencer.h: producers claim numbers with a      *)
(* fetch_add, publish them out of order into an array of slots, and wake   *)
(* the consumers that wait for a number and all the numbers before it.     *)
(*                                                                         *)
(* The list of awaiters works as in SequenceBarrier, but there is no last  *)
(* published number to compare with: whoever holds the list scans the      *)
(* slots, one load at a time, from a number known to be published.  The    *)
(* consumers are those of the tests and of Queue: each reads in order and  *)
(* publishes what it has read on a barrier of its own, and a claim waits   *)
(* for all these barriers (include/sequence_barrier_group.h; with one      *)
(* consumer the group is that consumer's barrier).                         *)
(*                                                                         *)
(* One access of an atomic is one step.  An awaiter is named by its        *)
(* consumer and a list is a set: the code's only decision that depends on  *)
(* the order is whose lastKnownPublished a scan starts from, that of the   *)
(* first awaiter; here it is any.  Pushing with a compare_exchange loop is *)
(* one step, and so is a wait on the consumers' barriers.  TSequence is    *)
(* taken to be at least as wide as int, like the program's size_t.         *)
(***************************************************************************)
EXTENDS SequenceTraits, FiniteSets

CONSTANTS
  Producers,        \* coroutines that claim and publish
  Consumers,        \* coroutines that call wait_until_published()
  Closers,          \* threads that call close(), cancellation handlers too
  BufferSize,
  Initial,          \* the constructor's initialSequence
  Last              \* bound of the numbers that are claimed

ASSUME ThreadsAssumption ==
  /\ Producers \cap Consumers = {}
  /\ Closers \cap (Producers \cup Consumers) = {}
  /\ IsFiniteSet(Consumers) /\ Consumers # {}

\* The constructor's assertions on the size, and nobody waits half of the
\* range ahead.
ASSUME RangeAssumption ==
  /\ BufferSize \in Nat \ {0} /\ Modulus % BufferSize = 0
  /\ Initial \in Int /\ Last \in Int /\ Initial <= Last
  /\ Last - (Initial - BufferSize) < HalfRange

VARIABLES
  nextToClaim,      \* _nextToClaim
  published,        \* _published
  awaiters,         \* _awaiters
  closed,           \* _isClosed
  consumed,         \* the last published number of each consumer's barrier
  shut,             \* _consumerBarrier is closed
  target,           \* the awaiters' targetSequence
  known,            \* their lastKnownPublished, and what a wait returned
  event,            \* their _event: "not_set", "set" or "canceled"
  claim,            \* the range each producer claimed, <<begin, end>>
  pc,               \* where each thread is
  seen,             \* its local lastKnownPublished
  goal,             \* targetSequence, earliestTargetSequence; the next of a batch
  sawClosed,        \* isClosed
  held,             \* the awaiters it took from the list or is to push on it
  ready             \* awaitersToResume

shared == <<published, awaiters, closed>>
claims == <<nextToClaim, consumed, shut, claim>>
waits == <<target, known, event>>
locals == <<seen, goal, sawClosed, held, ready>>
vars == <<shared, claims, waits, pc, locals>>

Threads == Producers \cup Consumers \cup Closers
Sequences == Initial .. Last
Slots == 0 .. BufferSize - 1

Slot(s) == Wrap(s) % BufferSize

\* The slot of s holds it.  (Line 457 compares with a sum that wraps only in a
\* TSequence at least as wide as int, which is assumed here.)
Holds(s) == published[Slot(s)] = Wrap(s)

Init ==
  /\ nextToClaim = Initial + 1
  /\ published = [i \in Slots |-> Wrap(CHOOSE s \in Initial - BufferSize + 1 .. Initial : Slot(s) = i)]
  /\ awaiters = {}
  /\ closed = FALSE
  /\ consumed = [c \in Consumers |-> Initial]
  /\ shut = FALSE
  /\ target = [c \in Consumers |-> Initial]
  /\ known = [c \in Consumers |-> Initial]
  /\ event = [c \in Consumers |-> "not_set"]
  /\ claim = [p \in Producers |-> <<Initial, Initial>>]
  /\ pc = [t \in Threads |-> "idle"]
  /\ seen = [t \in Threads |-> Initial]
  /\ goal = [t \in Threads |-> Initial]
  /\ sawClosed = [t \in Threads |-> FALSE]
  /\ held = [t \in Threads |-> {}]
  /\ ready = [t \in Threads |-> {}]

Goto(t, label) == pc' = [pc EXCEPT ![t] = label]

\* Thread t goes on where its local variables are not used any more.
Leave(t, label) ==
  /\ Goto(t, label)
  /\ seen' = [seen EXCEPT ![t] = Initial]
  /\ goal' = [goal EXCEPT ![t] = Initial]
  /\ sawClosed' = [sawClosed EXCEPT ![t] = FALSE]

\* The awaiters in S that the number s does not satisfy.
Unsatisfied(S, s) == {a \in S : Difference(target[a], s) > 0}

\* Thread t sorts the awaiters S with what it has seen: those that are not
\* ready yet stay in hand and learn the number, and its goal is the earliest
\* of their targets.
Split(t, S) ==
  LET unsatisfied == Unsatisfied(S, seen[t]) IN
  /\ held' = [held EXCEPT ![t] = unsatisfied]
  /\ ready' = [ready EXCEPT ![t] = @ \cup (S \ unsatisfied)]
  /\ known' = [a \in Consumers |-> IF a \in unsatisfied THEN seen[t] ELSE known[a]]
  /\ \/ /\ unsatisfied = {}
        /\ UNCHANGED goal
     \/ \E a \in unsatisfied :
          /\ \A b \in unsatisfied :
               Difference(target[a], seen[t]) <= Difference(target[b], seen[t])
          /\ goal' = [goal EXCEPT ![t] = seen[t] + Difference(target[a], seen[t])]

\* Thread t takes the list.
Take(t) ==
  /\ held' = [held EXCEPT ![t] = awaiters]
  /\ awaiters' = {}

\* Mutation: the list of those it pushed is not reset.
PushKeeps(t) ==
  /\ awaiters' = awaiters \cup held[t]
  /\ UNCHANGED held

\* Thread t pushes what it holds.
Push(t) ==
  /\ awaiters' = awaiters \cup held[t]
  /\ held' = [held EXCEPT ![t] = {}]

(***************************************************************************)
(* claim_one() and claim_up_to(count)                                      *)
(***************************************************************************)
\* Mutation: add_fetch instead of fetch_add.
ClaimCountAfter(p, count) ==
  /\ pc[p] = "idle"
  /\ nextToClaim' = nextToClaim + count
  /\ claim' = [claim EXCEPT ![p] = <<nextToClaim + count, nextToClaim + 2 * count>>]
  /\ Goto(p, "claim")
  /\ UNCHANGED <<shared, consumed, shut, waits, locals>>

\* fetch_add; the wait on the consumers' barriers begins.
ClaimCount(p, count) ==
  /\ pc[p] = "idle"
  /\ nextToClaim' = nextToClaim + count
  /\ claim' = [claim EXCEPT ![p] = <<nextToClaim, nextToClaim + count>>]
  /\ Goto(p, "claim")
  /\ UNCHANGED <<shared, consumed, shut, waits, locals>>

ClaimOne(p) == nextToClaim <= Last /\ ClaimCount(p, 1)

\* claim_up_to(0) claims nothing and must not be published: nobody calls it.
ClaimUpTo(p, count) ==
  LET granted == IF count < BufferSize THEN count ELSE BufferSize
  IN  nextToClaim + granted - 1 <= Last /\ ClaimCount(p, granted)

\* Mutation: the end of the range taken for its last number.
GrantedEarly(p) ==
  /\ pc[p] = "claim"
  /\ \A c \in Consumers : ~Precedes(consumed[c], claim[p][2] - 2 - BufferSize)
  /\ goal' = [goal EXCEPT ![p] = claim[p][1] + 1]
  /\ Goto(p, "publish")
  /\ UNCHANGED <<shared, claims, waits, seen, sawClosed, held, ready>>

\* The wait ends: every barrier has reached the number one buffer before the
\* last one claimed ...
Granted(p) ==
  /\ pc[p] = "claim"
  /\ \A c \in Consumers : ~Precedes(consumed[c], claim[p][2] - 1 - BufferSize)
  /\ goal' = [goal EXCEPT ![p] = claim[p][1] + 1]
  /\ Goto(p, "publish")
  /\ UNCHANGED <<shared, claims, waits, seen, sawClosed, held, ready>>

\* ... or a barrier is closed: it throws, and what it claimed stays claimed.
Refused(p) ==
  /\ pc[p] = "claim"
  /\ shut
  /\ claim' = [claim EXCEPT ![p] = <<Initial, Initial>>]
  /\ Goto(p, "idle")
  /\ UNCHANGED <<shared, nextToClaim, consumed, shut, waits, locals>>

(***************************************************************************)
(* publish(sequence) and publish(range)                                    *)
(***************************************************************************)
Store(s) == published' = [published EXCEPT ![Slot(s)] = Wrap(s)]

\* All but the first, in order.
PublishRest(p) ==
  /\ pc[p] = "publish"
  /\ goal[p] < claim[p][2]
  /\ Store(goal[p])
  /\ goal' = [goal EXCEPT ![p] = @ + 1]
  /\ UNCHANGED <<awaiters, closed, claims, waits, pc, seen, sawClosed, held, ready>>

\* Then the first; a single number is a range of one.
PublishFront(p) ==
  /\ pc[p] = "publish"
  /\ goal[p] = claim[p][2]
  /\ Store(claim[p][1])
  /\ claim' = [claim EXCEPT ![p] = <<Initial, Initial>>]
  /\ goal' = [goal EXCEPT ![p] = Initial]
  /\ Goto(p, "exchange")
  /\ UNCHANGED <<awaiters, closed, nextToClaim, consumed, shut, waits, seen,
                 sawClosed, held, ready>>

(***************************************************************************)
(* resume_ready_awaiters(), run by the producer that published             *)
(***************************************************************************)
\* It returns when it finds no awaiter.
Exchange(p) ==
  /\ pc[p] = "exchange"
  /\ Take(p)
  /\ Goto(p, IF awaiters = {} THEN "idle" ELSE "head")
  /\ UNCHANGED <<published, closed, claims, waits, seen, goal, sawClosed, ready>>

\* last_published_after() begins at what the first awaiter knows ...
StartScan(p) ==
  /\ pc[p] = "head"
  /\ \E a \in held[p] : seen' = [seen EXCEPT ![p] = known[a]]
  /\ Goto(p, "scan")
  /\ UNCHANGED <<shared, claims, waits, goal, sawClosed, held, ready>>

ScanNext(p) ==
  /\ pc[p] = "scan"
  /\ Holds(seen[p] + 1)
  /\ seen' = [seen EXCEPT ![p] = @ + 1]
  /\ UNCHANGED <<shared, claims, waits, pc, goal, sawClosed, held, ready>>

\* ... and ends before the first slot that does not hold its number.
EndScan(p) ==
  /\ pc[p] = "scan"
  /\ ~Holds(seen[p] + 1)
  /\ Split(p, held[p])
  /\ Goto(p, IF Unsatisfied(held[p], seen[p]) = {} THEN "resume" ELSE "requeue")
  /\ UNCHANGED <<shared, claims, target, event, seen, sawClosed>>

Requeue(p) ==
  /\ pc[p] = "requeue"
  /\ Push(p)
  /\ Goto(p, "rescan")
  /\ UNCHANGED <<published, closed, claims, waits, seen, goal, sawClosed, ready>>

\* Mutation: no second look at the slots after the awaiters were pushed.
RescanSkipped(p) ==
  /\ pc[p] = "rescan"
  /\ Goto(p, "loadClosed")
  /\ UNCHANGED <<shared, claims, waits, seen, goal, sawClosed, held, ready>>

\* Mutation: it looks at the slot of the target only.
RescanGoalOnly(p) ==
  /\ pc[p] = "rescan"
  /\ IF Holds(goal[p])
     THEN /\ seen' = [seen EXCEPT ![p] = goal[p]]
          /\ Goto(p, "retake")
     ELSE /\ Goto(p, "loadClosed")
          /\ UNCHANGED seen
  /\ UNCHANGED <<shared, claims, waits, goal, sawClosed, held, ready>>

\* It scans on, up to the earliest target of those it pushed.
Rescan(p) ==
  /\ pc[p] = "rescan"
  /\ IF Holds(seen[p] + 1)
     THEN /\ seen' = [seen EXCEPT ![p] = @ + 1]
          /\ Goto(p, IF seen[p] + 1 = goal[p] THEN "retake" ELSE "rescan")
     ELSE /\ Goto(p, "loadClosed")
          /\ UNCHANGED seen
  /\ UNCHANGED <<shared, claims, waits, goal, sawClosed, held, ready>>

\* One of them is satisfied: it takes the list again.
Retake(p) ==
  /\ pc[p] = "retake"
  /\ Take(p)
  /\ Goto(p, "loadClosed")
  /\ UNCHANGED <<published, closed, claims, waits, seen, goal, sawClosed, ready>>

LoadClosed(p) ==
  /\ p \in Producers
  /\ pc[p] = "loadClosed"
  /\ sawClosed' = [sawClosed EXCEPT ![p] = closed]
  /\ Goto(p, CASE held[p] # {} /\ ~closed -> "head"
               [] held[p] = {} /\ closed -> "takeAll"
               [] OTHER -> "resume")
  /\ UNCHANGED <<shared, claims, waits, seen, goal, held, ready>>

(***************************************************************************)
(* wait_until_published(targetSequence, lastKnownPublished), and the       *)
(* add_awaiter() it runs                                                   *)
(***************************************************************************)
\* A consumer waits for a number after those it has read.
Wait(c, s) ==
  /\ pc[c] = "idle"
  /\ consumed[c] < s
  /\ target' = [target EXCEPT ![c] = s]
  /\ event' = [event EXCEPT ![c] = "not_set"]
  /\ known' = [known EXCEPT ![c] = consumed[c]]
  /\ seen' = [seen EXCEPT ![c] = consumed[c]]
  /\ goal' = [goal EXCEPT ![c] = s]
  /\ held' = [held EXCEPT ![c] = {c}]
  /\ Goto(c, "enqueue")
  /\ UNCHANGED <<shared, claims, sawClosed, ready>>

Enqueue(c) ==
  /\ pc[c] = "enqueue"
  /\ Push(c)
  /\ Goto(c, "load")
  /\ UNCHANGED <<published, closed, claims, waits, seen, goal, sawClosed, ready>>

LoadPublished(c) ==
  /\ pc[c] = "load"
  /\ IF Holds(seen[c] + 1)
     THEN /\ seen' = [seen EXCEPT ![c] = @ + 1]
          /\ UNCHANGED pc
     ELSE /\ Goto(c, "check")
          /\ UNCHANGED seen
  /\ UNCHANGED <<shared, claims, waits, goal, sawClosed, held, ready>>

\* It leaves the loop when it finds nothing to do for those it enqueued.
Check(c) ==
  /\ pc[c] = "check"
  /\ sawClosed' = [sawClosed EXCEPT ![c] = closed]
  /\ Goto(c, IF Precedes(seen[c], goal[c]) /\ ~closed THEN "resume" ELSE "take")
  /\ UNCHANGED <<shared, claims, waits, seen, goal, held, ready>>

TakeAwaiters(c) ==
  /\ pc[c] = "take"
  /\ awaiters' = {}
  /\ Split(c, awaiters)
  /\ Goto(c, IF Unsatisfied(awaiters, seen[c]) # {} /\ ~sawClosed[c]
             THEN "enqueue" ELSE "resume")
  /\ UNCHANGED <<published, closed, claims, target, event, seen, sawClosed>>

\* co_await awaiter.wait(): it returns lastKnownPublished, or throws.
Resume(c) ==
  /\ pc[c] = "suspended"
  /\ event[c] # "not_set"
  /\ Goto(c, IF event[c] = "set" THEN "read" ELSE "idle")
  /\ UNCHANGED <<shared, claims, waits, locals>>

\* What the consumer does with it: it reads all it was told, and publishes that
\* on its barrier.
Consume(c) ==
  /\ pc[c] = "read"
  /\ consumed' = [consumed EXCEPT ![c] = known[c]]
  /\ Goto(c, "idle")
  /\ UNCHANGED <<shared, nextToClaim, shut, claim, waits, locals>>

(***************************************************************************)
(* close()                                                                 *)
(***************************************************************************)
Close(k) ==
  /\ pc[k] = "idle"
  /\ closed' = TRUE
  /\ Goto(k, "takeAll")
  /\ UNCHANGED <<published, awaiters, claims, waits, locals>>

\* Mutation: the consumers' barrier stays open.
CloseBarrierLeft(k) ==
  /\ pc[k] = "closeBarrier"
  /\ Goto(k, "idle")
  /\ UNCHANGED <<shared, claims, waits, locals>>

CloseBarrier(k) ==
  /\ pc[k] = "closeBarrier"
  /\ shut' = TRUE
  /\ Goto(k, "idle")
  /\ UNCHANGED <<shared, nextToClaim, consumed, claim, waits, locals>>

(***************************************************************************)
(* What several of them do                                                 *)
(***************************************************************************)
\* Mutation: a load of the head instead of an exchange.
TakeAllLoads(t) ==
  /\ pc[t] = "takeAll"
  /\ held' = [held EXCEPT ![t] = awaiters]
  /\ Goto(t, IF t \in Closers THEN "cancel" ELSE "resume")
  /\ UNCHANGED <<shared, claims, waits, seen, goal, sawClosed, ready>>

\* close(), and resume_ready_awaiters() when it finds the sequencer closed.
TakeAll(t) ==
  /\ pc[t] = "takeAll"
  /\ Take(t)
  /\ Goto(t, IF t \in Closers THEN "cancel" ELSE "resume")
  /\ UNCHANGED <<published, closed, claims, waits, seen, goal, sawClosed, ready>>

\* Mutation: the event is set, the number forgotten.
ResumeAwaiterBlank(t, a) ==
  /\ pc[t] = "resume"
  /\ a \in ready[t]
  /\ ready' = [ready EXCEPT ![t] = @ \ {a}]
  /\ event' = [event EXCEPT ![a] = IF @ = "not_set" THEN "set" ELSE @]
  /\ UNCHANGED <<shared, claims, target, known, pc, seen, goal, sawClosed, held>>

\* resume_awaiters(): Awaiter::resume stores lastKnownPublished, then sets the
\* event.
ResumeAwaiter(t, a) ==
  /\ pc[t] = "resume"
  /\ a \in ready[t]
  /\ ready' = [ready EXCEPT ![t] = @ \ {a}]
  /\ known' = [known EXCEPT ![a] = seen[t]]
  /\ event' = [event EXCEPT ![a] = IF @ = "not_set" THEN "set" ELSE @]
  /\ UNCHANGED <<shared, claims, target, pc, seen, goal, sawClosed, held>>

ResumedAll(t) ==
  /\ pc[t] = "resume"
  /\ ready[t] = {}
  /\ Leave(t, IF sawClosed[t] THEN "cancel"
              ELSE IF t \in Consumers THEN "suspended" ELSE "idle")
  /\ UNCHANGED <<shared, claims, waits, held, ready>>

\* cancel_awaiters()
CancelAwaiter(t, a) ==
  /\ pc[t] = "cancel"
  /\ a \in held[t]
  /\ held' = [held EXCEPT ![t] = @ \ {a}]
  /\ event' = [event EXCEPT ![a] = IF @ = "not_set" THEN "canceled" ELSE @]
  /\ UNCHANGED <<shared, claims, target, known, pc, seen, goal, sawClosed, ready>>

CancelledAll(t) ==
  /\ pc[t] = "cancel"
  /\ held[t] = {}
  /\ Goto(t, CASE t \in Consumers -> "suspended"
               [] t \in Producers -> "idle"
               [] OTHER -> "closeBarrier")
  /\ UNCHANGED <<shared, claims, waits, locals>>

(***************************************************************************)
(* The specification                                                       *)
(***************************************************************************)
ListStep(t) ==
  \/ \E a \in Consumers : ResumeAwaiter(t, a) \/ CancelAwaiter(t, a)
  \/ ResumedAll(t) \/ CancelledAll(t)

ProducerStep(p) ==
  \/ Granted(p) \/ Refused(p) \/ PublishRest(p) \/ PublishFront(p)
  \/ Exchange(p) \/ StartScan(p) \/ ScanNext(p) \/ EndScan(p)
  \/ Requeue(p) \/ Rescan(p) \/ Retake(p) \/ LoadClosed(p)
  \/ TakeAll(p) \/ ListStep(p)

ConsumerStep(c) ==
  \/ Enqueue(c) \/ LoadPublished(c) \/ Check(c) \/ TakeAwaiters(c)
  \/ Resume(c) \/ ListStep(c)

CloserStep(k) == TakeAll(k) \/ ListStep(k) \/ CloseBarrier(k)

Next ==
  \/ \E p \in Producers :
       ProducerStep(p) \/ ClaimOne(p) \/ \E n \in 2 .. BufferSize + 1 : ClaimUpTo(p, n)
  \/ \E c \in Consumers :
       ConsumerStep(c) \/ Consume(c) \/ \E s \in Sequences : Wait(c, s)
  \/ \E k \in Closers : CloserStep(k) \/ Close(k)

\* A thread that is inside a call goes on, and the executor resumes a coroutine
\* whose event completed.  Nobody has to claim, to read, to close or to wait.
Fairness ==
  /\ \A p \in Producers : WF_vars(ProducerStep(p))
  /\ \A c \in Consumers : WF_vars(ConsumerStep(c))
  /\ \A k \in Closers : WF_vars(CloserStep(k))

Spec == Init /\ [][Next]_vars /\ Fairness

(***************************************************************************)
(* Correctness                                                             *)
(***************************************************************************)
Labels ==
  {"idle", "claim", "publish", "exchange", "head", "scan", "requeue", "rescan",
   "retake", "loadClosed", "enqueue", "load", "check", "take", "suspended",
   "read", "takeAll", "resume", "cancel", "closeBarrier"}

TypeOK ==
  /\ nextToClaim \in Initial + 1 .. Last + 1
  /\ published \in [Slots -> 0 .. Modulus - 1]
  /\ awaiters \subseteq Consumers
  /\ closed \in BOOLEAN
  /\ consumed \in [Consumers -> Sequences]
  /\ shut \in BOOLEAN
  /\ target \in [Consumers -> Sequences]
  /\ known \in [Consumers -> Sequences]
  /\ event \in [Consumers -> {"not_set", "set", "canceled"}]
  /\ claim \in [Producers -> Sequences \X (Initial .. Last + 1)]
  /\ pc \in [Threads -> Labels]
  /\ seen \in [Threads -> Sequences]
  /\ goal \in [Threads -> Initial .. Last + 1]
  /\ sawClosed \in [Threads -> BOOLEAN]
  /\ held \in [Threads -> SUBSET Consumers]
  /\ ready \in [Threads -> SUBSET Consumers]

\* What every consumer has read, and the last number up to which all numbers
\* are published.
Behind == CHOOSE s \in Sequences : (\E c \in Consumers : consumed[c] = s)
                                   /\ \A c \in Consumers : s <= consumed[c]

Prefix ==
  CHOOSE s \in Behind .. Last :
    /\ \A n \in Behind + 1 .. s : Holds(n)
    /\ s < Last => ~Holds(s + 1)

Held(t) == held[t] \cup ready[t]

Listed(c) == c \in awaiters \/ \E t \in Threads : c \in Held(t)

\* The consumers whose awaiter exists.
Waiting == {c \in Consumers : pc[c] \notin {"idle", "read"}}

\* An awaiter is in one list at a time, whichever threads pass it around, so
\* that no two threads write its `next' pointer or its lastKnownPublished.
OneOwner ==
  /\ \A t \in Threads : awaiters \cap Held(t) = {} /\ held[t] \cap ready[t] = {}
  /\ \A t, u \in Threads : t # u => Held(t) \cap Held(u) = {}

\* An awaiter that has not been signalled is in some list, and what is in a
\* list has not been signalled and belongs to a coroutine that still waits.
ListedWhilePending ==
  \A c \in Consumers : Listed(c) <=> c \in Waiting /\ event[c] = "not_set"

\* However many threads split and rejoin the lists, no awaiter is shared,
\* forgotten or touched once its coroutine may have gone on.
AwaitersAreKept == OneOwner /\ ListedWhilePending

\* The numbers whose slots a producer is writing.
Writing(p) == IF pc[p] = "publish" THEN claim[p][1] .. claim[p][2] - 1 ELSE {}

\* Nobody writes into a slot that another thread writes or reads, or that a
\* consumer has still to read.
SlotsAreExclusive ==
  /\ \A p, q \in Producers : p # q =>
       \A s \in Writing(p), r \in Writing(q) : Slot(s) # Slot(r)
  /\ \A p \in Producers, c \in Consumers :
       \A s \in Writing(p), r \in consumed[c] + 1 .. Prefix : Slot(s) # Slot(r)

\* A number counts as published only when its producer, and every producer
\* before it, has published, in whatever order they do.
PrefixIsComplete ==
  \A p \in Producers :
    pc[p] \in {"claim", "publish"} => Prefix < claim[p][1] /\ Prefix < nextToClaim

\* Whatever an awaiter or a thread takes for published is.
KnownIsPublished ==
  /\ \A c \in Consumers : known[c] <= Prefix
  /\ \A t \in Threads : seen[t] <= Prefix

\* A wait returns a number that is published and not before the one it asked
\* for (the assertion of Awaiter::resume), and throws only when closed.
AnswerIsSound ==
  \A c \in Consumers :
    /\ pc[c] \in {"suspended", "read"} /\ event[c] = "set" =>
         target[c] <= known[c] /\ known[c] <= Prefix
    /\ event[c] = "canceled" => closed

\* Published out of order, seen in order: nobody counts on a number that is not
\* published, or that has one before it that is not.
SeenInOrder == PrefixIsComplete /\ KnownIsPublished /\ AnswerIsSound

\* Thread t will take the list, for the sake of awaiter a.
WillTakeFor(t, a) ==
  \/ t \in Producers /\ pc[t] \in {"exchange", "retake"}
  \/ t \in Producers /\ pc[t] = "rescan" /\ seen[t] < goal[t] /\ goal[t] <= target[a]
  \/ t \in Consumers /\ pc[t] = "load" /\ goal[t] <= target[a]
  \/ t \in Consumers /\ pc[t] = "check" /\ goal[t] <= seen[t]
  \/ pc[t] \in {"take", "takeAll"}

\* Thread t will take the list once it finds the sequencer closed.
WillTakeIfClosed(t) ==
  pc[t] \in {"load", "check", "take", "takeAll", "rescan", "retake", "loadClosed"}

\* No lost wakeup: an awaiter whose number is published, with all before it, or
\* whose sequencer is closed, does not lie in the list without a thread on its
\* way to take it.
NoLostWakeup ==
  /\ \A a \in awaiters :
       target[a] <= Prefix => \E t \in Threads : WillTakeFor(t, a)
  /\ closed /\ awaiters # {} => \E t \in Threads : WillTakeIfClosed(t)

\* A claim ends once there is room or the sequencer is closed.
ClaimsEnd ==
  \A p \in Producers :
    (pc[p] = "claim" /\ (closed \/ claim[p][2] - 1 - BufferSize <= Behind))
      ~> pc[p] # "claim"

AnswerTo(c) ==
  IF c \in Waiting THEN "asked"
  ELSE CASE event[c] = "set" -> "granted"
         [] event[c] = "canceled" -> "refused"
         [] OTHER -> "none"

GrantedTo(c) == IF c \notin Waiting /\ event[c] = "set" THEN known[c] ELSE Initial

\* Refinement: those who wait for it see the barrier of SequenceBarrier, with
\* the prefix as its last published number.
Abstract ==
  INSTANCE PublishedUpTo WITH
    First <- Initial,
    published <- Prefix,
    shut <- closed,
    want <- target,
    answer <- [c \in Consumers |-> AnswerTo(c)],
    got <- [c \in Consumers |-> GrantedTo(c)]

ImplementsPublishedUpTo == Abstract!Spec
=============================================================================
