---------------------------- MODULE EventProofs ----------------------------
(***************************************************************************)
(* Theorems about Event: its safety invariants hold, and every step of it  *)
(* is a step of the one-shot decision or leaves that alone.                *)
(***************************************************************************)
EXTENDS Event, TLAPS

(***************************************************************************)
(* The inductive invariant.  `state' alone tells who completes the waiter. *)
(***************************************************************************)
\* Before anybody signalled, the waiter is on its way or suspended.
Undecided ==
  /\ state = "not_set" => pc["wait"] \in {"idle", "arm", "exchange"}
  /\ state = "not_set_consumer_waiting" => pc["wait"] = "suspended"
  /\ state \in {"not_set", "not_set_consumer_waiting"} => posted = <<>>

\* _handler is armed from before the exchange of wait() until it is called.
HandlerPhase ==
  /\ pc["wait"] \in {"idle", "arm"} => handler = "none"
  /\ handler = "spent" => posted # <<>>
  /\ pc["wait"] \notin {"idle", "arm"} /\ posted = <<>> => handler = "armed"

\* A signal that has not won leaves no trace; one that has won to complete the
\* waiter is the only one to do so.
CallerPhase(t) ==
  /\ pc[t] \in {"idle", "first", "second", "assert"} => state # Final(t)
  /\ pc[t] = "second" => state # "not_set"
  /\ pc[t] = "call" => /\ state = Final(t)
                       /\ pc["wait"] = "suspended"
                       /\ posted = <<>>

WaiterPhase ==
  pc["wait"] \in {"idle", "arm", "exchange", "call"} => posted = <<>>

WaiterCall ==
  pc["wait"] = "call" =>
    oldState["wait"] = state /\ state \in {"set", "canceled"}

WaiterDone == pc["wait"] = "resumed" => posted # <<>>

IInv ==
  /\ TypeOK
  /\ AssertsHold
  /\ Undecided
  /\ HandlerPhase
  /\ \A t \in Callers : CallerPhase(t)
  /\ WaiterPhase
  /\ WaiterCall
  /\ WaiterDone
  /\ posted = <<>> \/ posted = <<state>>

LEMMA Initially == Init => IInv
<1> SUFFICES ASSUME Init PROVE IInv
  OBVIOUS
<1> USE DEF Init, Threads, Callers
<1>1. TypeOK
  <2>1. posted \in Seq({"set", "canceled"})
    OBVIOUS
  <2> QED
    BY <2>1 DEF TypeOK, States, WaitLabels, CallLabels
<1>2. AssertsHold /\ \A t \in Callers : CallerPhase(t)
  BY DEF AssertsHold, CallerPhase, Final
<1>3. Undecided /\ HandlerPhase /\ WaiterPhase /\ WaiterCall /\ WaiterDone
  BY DEF Undecided, HandlerPhase, WaiterPhase, WaiterCall, WaiterDone
<1> QED
  BY <1>1, <1>2, <1>3 DEF IInv

LEMMA Inductive == IInv /\ [Next]_vars => IInv'
<1> SUFFICES ASSUME IInv, [Next]_vars PROVE IInv'
  OBVIOUS
<1> USE DEF IInv, TypeOK, AssertsHold, Undecided, HandlerPhase, CallerPhase,
            WaiterPhase, WaiterCall, WaiterDone, Threads, Callers, States,
            WaitLabels, CallLabels, Final, Goto
<1>1. CASE AssignSlot
  BY <1>1 DEF AssignSlot
<1>2. CASE ArmHandler
  BY <1>2 DEF ArmHandler
<1>3. CASE AnnounceWaiter
  BY <1>3 DEF AnnounceWaiter, CompareExchange
<1>4. CASE CompleteAtOnce
  BY <1>4 DEF CompleteAtOnce, CallHandler
<1>5. CASE RunPosted
  BY <1>5 DEF RunPosted
<1>6. ASSUME NEW t \in Callers, Call(t) PROVE IInv'
  BY <1>6 DEF Call
<1>7. ASSUME NEW t \in Callers, SignalFirst(t) PROVE IInv'
  BY <1>7 DEF SignalFirst, CompareExchange
<1>8. ASSUME NEW t \in Callers, SignalWaiter(t) PROVE IInv'
  BY <1>8 DEF SignalWaiter, CompareExchange
<1>9. ASSUME NEW t \in Callers, ResumeWaiter(t) PROVE IInv'
  <2>1. /\ posted' = <<state'>> /\ state' = Final(t) /\ handler' = "spent"
        /\ pc' = [pc EXCEPT ![t] = "returned"]
        /\ UNCHANGED <<slot, oldState>>
    <3>1. posted = <<>> /\ state = Final(t)
      BY <1>9 DEF ResumeWaiter
    <3>2. posted' = Append(<<>>, Final(t))
      BY <1>9, <3>1 DEF ResumeWaiter, CallHandler
    <3>3. posted' = <<Final(t)>>
      BY <3>2
    <3> QED
      BY <1>9, <3>1, <3>3 DEF ResumeWaiter, CallHandler
  <2>2. posted' \in Seq({"set", "canceled"}) /\ posted' # <<>>
    BY <2>1
  <2>3. pc["wait"] = "suspended" /\ pc'["wait"] = "suspended"
    BY <1>9, <2>1 DEF ResumeWaiter
  <2>4. \A u \in Callers \ {t} : pc'[u] = pc[u] /\ pc[u] # "call"
    BY <1>9, <2>1 DEF ResumeWaiter
  <2>5. TypeOK'
    BY <2>1, <2>2
  <2> QED
    BY <2>1, <2>2, <2>3, <2>4, <2>5
<1>10. ASSUME NEW t \in Callers, Assert(t) PROVE IInv'
  BY <1>10 DEF Assert
<1>11. CASE UNCHANGED vars
  BY <1>11 DEF vars
<1> QED
  BY <1>1, <1>2, <1>3, <1>4, <1>5, <1>6, <1>7, <1>8, <1>9, <1>10, <1>11
     DEF Next, WaitStep, CallerStep

LEMMA Invariance == Spec => []IInv
  BY Initially, Inductive, PTL DEF Spec

\* The variables of an Event stay in their ranges.
THEOREM TypeCorrect == Spec => []TypeOK
<1>1. IInv => TypeOK
  BY DEF IInv
<1> QED
  BY <1>1, Invariance, PTL

\* set() and cancel() never end with their assertion failing (event.h:85, 114).
THEOREM AssertionsNeverFail == Spec => []AssertsHold
<1>1. IInv => AssertsHold
  BY DEF IInv
<1> QED
  BY <1>1, Invariance, PTL

\* No thread calls _handler before wait() assigned it or after it was called.
THEOREM HandlerIsReady == Spec => []HandlerReady
<1>1. IInv => HandlerReady
  BY DEF IInv, HandlerReady, HandlerPhase, CallerPhase, WaiterPhase, Threads, Callers
<1> QED
  BY <1>1, Invariance, PTL

\* The coroutine is resumed at most once, with the signal that won.
THEOREM ResumedAtMostOnce == Spec => []ResumedOnce
<1>1. IInv => ResumedOnce
  <2> SUFFICES ASSUME IInv PROVE ResumedOnce
    OBVIOUS
  <2>1. posted = <<>> \/ posted = <<state>>
    BY DEF IInv
  <2>2. CASE posted = <<>>
    BY <2>2 DEF ResumedOnce
  <2>3. CASE posted = <<state>>
    <3>1. Len(posted) = 1 /\ posted[1] = state
      BY <2>3
    <3> QED
      BY <3>1 DEF ResumedOnce
  <2> QED
    BY <2>1, <2>2, <2>3
<1> QED
  BY <1>1, Invariance, PTL

(***************************************************************************)
(* Refinement, without its fairness: TLC checks that the fairness of the   *)
(* threads implies that of Learn.                                          *)
(***************************************************************************)
LEMMA DecisionStarts == Init => OneShotImage!Init
  BY DEF Init, OneShotImage!Init, Threads, Callers

LEMMA DecisionSteps ==
  IInv /\ [Next]_vars => [OneShotImage!Next]_(OneShotImage!vars)
<1> SUFFICES ASSUME IInv, [Next]_vars
             PROVE  [OneShotImage!Next]_(OneShotImage!vars)
  OBVIOUS
<1> USE DEF IInv, TypeOK, Undecided, CallerPhase, WaiterPhase, WaiterCall,
            WaiterDone, Threads, Callers, States, WaitLabels, CallLabels, Final,
            Goto, OneShotImage!Next, OneShotImage!vars, OneShotImage!Decide,
            OneShotImage!Wait, OneShotImage!Learn
<1>1. CASE AssignSlot
  BY <1>1 DEF AssignSlot
<1>2. CASE ArmHandler
  BY <1>2 DEF ArmHandler
<1>3. CASE AnnounceWaiter
  BY <1>3 DEF AnnounceWaiter, CompareExchange
<1>4. CASE CompleteAtOnce
  BY <1>4 DEF CompleteAtOnce, CallHandler
<1>5. CASE RunPosted
  BY <1>5 DEF RunPosted
<1>6. ASSUME NEW t \in Callers, Call(t)
      PROVE  [OneShotImage!Next]_(OneShotImage!vars)
  BY <1>6 DEF Call
<1>7. ASSUME NEW t \in Callers, SignalFirst(t)
      PROVE  [OneShotImage!Next]_(OneShotImage!vars)
  BY <1>7 DEF SignalFirst, CompareExchange
<1>8. ASSUME NEW t \in Callers, SignalWaiter(t)
      PROVE  [OneShotImage!Next]_(OneShotImage!vars)
  BY <1>8 DEF SignalWaiter, CompareExchange
<1>9. ASSUME NEW t \in Callers, ResumeWaiter(t)
      PROVE  [OneShotImage!Next]_(OneShotImage!vars)
  BY <1>9 DEF ResumeWaiter
<1>10. ASSUME NEW t \in Callers, Assert(t)
       PROVE  [OneShotImage!Next]_(OneShotImage!vars)
  BY <1>10 DEF Assert
<1>11. CASE UNCHANGED vars
  BY <1>11 DEF vars
<1> QED
  BY <1>1, <1>2, <1>3, <1>4, <1>5, <1>6, <1>7, <1>8, <1>9, <1>10, <1>11
     DEF Next, WaitStep, CallerStep

\* An Event is a one-shot decision: it starts as one, and whatever its threads
\* do is a step of one or not visible.
THEOREM ImplementsDecision ==
  Spec => OneShotImage!Init /\ [][OneShotImage!Next]_(OneShotImage!vars)
  BY DecisionStarts, DecisionSteps, Invariance, PTL DEF Spec
=============================================================================
