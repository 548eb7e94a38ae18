------------------------------- MODULE Event -------------------------------
(***************************************************************************)
(* include/event.h: a one-shot event, set or cancelled by other threads    *)
(* while one coroutine waits for it without a lock.                        *)
(*                                                                         *)
(* Three threads meet: the one that runs the initiation of wait(), one     *)
(* that calls set() and one that calls cancel(), either itself or through  *)
(* the cancellation slot that wait() connects.  A compare_exchange is one  *)
(* step, with oldState the value it leaves in its first argument; writing  *)
(* and calling the handler are steps of their own.  Every owner of an      *)
(* Event in this repository calls set() at most once and cancel() at most  *)
(* once (a barrier signals an awaiter once; Client guards _shutdownEvent). *)
(***************************************************************************)
EXTENDS Naturals, Sequences

CONSTANT SlotOnly       \* cancel() is called through the slot only, as in Client

ASSUME SlotOnlyAssumption == SlotOnly \in BOOLEAN

VARIABLES
  state,        \* _state
  handler,      \* _handler: "none", "armed" once assigned, "spent" once called
  slot,         \* wait() found a connected slot and assigned cancel() to it
  posted,       \* the results posted to the waiter's executor, oldest first
  pc,           \* where each of the three threads is
  oldState      \* their local variables of this name

vars == <<state, handler, slot, posted, pc, oldState>>

Callers == {"set", "cancel"}
Threads == {"wait"} \cup Callers
States == {"not_set", "not_set_consumer_waiting", "set", "canceled"}

\* The state the caller t wants the event in.
Final(t) == IF t = "set" THEN "set" ELSE "canceled"

Init ==
  /\ state = "not_set"
  /\ handler = "none"
  /\ slot = FALSE
  /\ posted = <<>>
  /\ pc = [t \in Threads |-> "idle"]
  /\ oldState = [t \in Threads |-> "not_set"]

Goto(t, label) == pc' = [pc EXCEPT ![t] = label]

\* _state.compare_exchange_strong(oldState, desired): to `won' when it
\* succeeds, else to `lost' with the state it found.
CompareExchange(t, expected, desired, won, lost) ==
  IF state = expected
  THEN /\ state' = desired
       /\ Goto(t, won)
       /\ UNCHANGED oldState
  ELSE /\ oldState' = [oldState EXCEPT ![t] = state]
       /\ Goto(t, lost)
       /\ UNCHANGED state

\* The body of _handler: it moves the coroutine's handler out of itself and
\* posts it with the result.
CallHandler(ec) ==
  /\ handler' = "spent"
  /\ posted' = Append(posted, ec)

(***************************************************************************)
(* wait()                                                                  *)
(***************************************************************************)
AssignSlot ==
  /\ pc["wait"] = "idle"
  /\ slot' \in BOOLEAN
  /\ Goto("wait", "arm")
  /\ UNCHANGED <<state, handler, posted, oldState>>

ArmHandler ==
  /\ pc["wait"] = "arm"
  /\ handler' = "armed"
  /\ Goto("wait", "exchange")
  /\ UNCHANGED <<state, slot, posted, oldState>>

AnnounceWaiter ==
  /\ pc["wait"] = "exchange"
  /\ CompareExchange("wait", "not_set", "not_set_consumer_waiting",
                     "suspended", "call")
  /\ UNCHANGED <<handler, slot, posted>>

\* Mutation: a waiter that comes late does not look who won.
CompleteAtOnceAlwaysOk ==
  /\ pc["wait"] = "call"
  /\ CallHandler("set")
  /\ Goto("wait", "suspended")
  /\ UNCHANGED <<state, slot, oldState>>

\* set() or cancel() came first: the waiter completes itself.
CompleteAtOnce ==
  /\ pc["wait"] = "call"
  /\ CallHandler(IF oldState["wait"] = "canceled" THEN "canceled" ELSE "set")
  /\ Goto("wait", "suspended")
  /\ UNCHANGED <<state, slot, oldState>>

\* The executor runs what was posted: co_await event.wait() returns or throws.
RunPosted ==
  /\ pc["wait"] = "suspended"
  /\ posted # <<>>
  /\ Goto("wait", "resumed")
  /\ UNCHANGED <<state, handler, slot, posted, oldState>>

(***************************************************************************)
(* set() and cancel(), which differ in the state they write only           *)
(***************************************************************************)
\* Mutation: no second exchange; whoever finds a waiter completes it.
SignalFirstOnly(t) ==
  /\ pc[t] = "first"
  /\ CompareExchange(t, "not_set", Final(t), "returned",
                     IF state = "not_set_consumer_waiting" THEN "call" ELSE "assert")
  /\ UNCHANGED <<handler, slot, posted>>

\* Before the waiter: nothing more to do; the caller returns to "returned".
SignalFirst(t) ==
  /\ pc[t] = "first"
  /\ CompareExchange(t, "not_set", Final(t), "returned",
                     IF state = "not_set_consumer_waiting" THEN "second" ELSE "assert")
  /\ UNCHANGED <<handler, slot, posted>>

SignalWaiter(t) ==
  /\ pc[t] = "second"
  /\ CompareExchange(t, "not_set_consumer_waiting", Final(t), "call", "assert")
  /\ UNCHANGED <<handler, slot, posted>>

\* Mutation: the state is written, the handler not called.
ResumeWaiterLost(t) ==
  /\ pc[t] = "call"
  /\ Goto(t, "returned")
  /\ UNCHANGED <<state, handler, slot, posted, oldState>>

\* Mutation: the caller notes the end of the waiter's call, not of its own.
ResumeWaiterReturns(t) ==
  /\ pc[t] = "call"
  /\ CallHandler(Final(t))
  /\ Goto("wait", "returned")
  /\ UNCHANGED <<state, slot, oldState>>

ResumeWaiter(t) ==
  /\ pc[t] = "call"
  /\ CallHandler(Final(t))
  /\ Goto(t, "returned")
  /\ UNCHANGED <<state, slot, oldState>>

\* assert(oldState == ...), the last line of both functions.
Assert(t) ==
  /\ pc[t] = "assert"
  /\ Goto(t, "returned")
  /\ UNCHANGED <<state, handler, slot, posted, oldState>>

\* Mutation: an owner that signals the same way twice.
CallAgain(t) ==
  /\ pc[t] \in {"idle", "returned"}
  /\ Goto(t, "first")
  /\ UNCHANGED <<state, handler, slot, posted, oldState>>

\* Somebody calls set() or cancel(), at any time; where only the slot leads to
\* cancel(), not before wait() has assigned it.
Call(t) ==
  /\ pc[t] = "idle"
  /\ t = "cancel" /\ SlotOnly => slot
  /\ Goto(t, "first")
  /\ UNCHANGED <<state, handler, slot, posted, oldState>>

(***************************************************************************)
(* The specification                                                       *)
(***************************************************************************)
WaitStep == ArmHandler \/ AnnounceWaiter \/ CompleteAtOnce \/ RunPosted
CallerStep(t) == SignalFirst(t) \/ SignalWaiter(t) \/ ResumeWaiter(t) \/ Assert(t)

Next ==
  \/ AssignSlot \/ WaitStep
  \/ \E t \in Callers : Call(t) \/ CallerStep(t)

\* A thread that runs one of these functions finishes it, and the executor
\* runs what was posted to it.  Nobody is obliged to call anything.
Fairness == WF_vars(WaitStep) /\ \A t \in Callers : WF_vars(CallerStep(t))

Spec == Init /\ [][Next]_vars /\ Fairness

(***************************************************************************)
(* Correctness                                                             *)
(***************************************************************************)
WaitLabels == {"idle", "arm", "exchange", "call", "suspended", "resumed"}
CallLabels == {"idle", "first", "second", "call", "assert", "returned"}

TypeOK ==
  /\ state \in States
  /\ handler \in {"none", "armed", "spent"}
  /\ slot \in BOOLEAN
  /\ posted \in Seq({"set", "canceled"})
  /\ pc \in [Threads -> WaitLabels \cup CallLabels]
  /\ pc["wait"] \in WaitLabels
  /\ \A t \in Callers : pc[t] \in CallLabels
  /\ oldState \in [Threads -> States]

\* Whoever is about to call _handler finds it assigned and not yet called: no
\* thread sees not_set_consumer_waiting before the assignment of wait(), and no
\* two threads believe that completing the waiter is up to them.
HandlerReady == \A t \in Threads : pc[t] = "call" => handler = "armed"

\* The assertions that end set() and cancel() hold: who lost both exchanges
\* lost them to the other signal.
AssertsHold ==
  \A t \in Callers :
    pc[t] = "assert" => oldState[t] = (IF t = "set" THEN "canceled" ELSE "set")

\* The coroutine is resumed at most once, and with the signal that won.
ResumedOnce == Len(posted) <= 1 /\ \A i \in 1 .. Len(posted) : posted[i] = state

\* Refinement: the event is a one-shot decision.
OneShotImage ==
  INSTANCE OneShot WITH
    decision <- IF state \in {"set", "canceled"} THEN state ELSE "none",
    waiter <- CASE pc["wait"] \in {"idle", "arm", "exchange"} -> "absent"
                [] pc["wait"] \in {"call", "suspended"} -> "waiting"
                [] OTHER -> posted[1]

ImplementsOneShot == OneShotImage!Spec
=============================================================================
