---------------------------- MODULE ClientProofs ----------------------------
(***************************************************************************)
(* Theorems about Client, for any subscriptions, publications, pings and   *)
(* sizes of the queues, whether or not the connection may fail.            *)
(***************************************************************************)
EXTENDS Client, NaturalsInduction, WellFoundedInduction, TLAPS

(***************************************************************************)
(* Sequences and slots                                                     *)
(***************************************************************************)
LEMMA Appended ==
  ASSUME NEW S, NEW q \in Seq(S), NEW e \in S
  PROVE  /\ Append(q, e) \in Seq(S)
         /\ Len(Append(q, e)) = Len(q) + 1
         /\ Append(q, e)[Len(q) + 1] = e
         /\ \A n \in 1 .. Len(q) : Append(q, e)[n] = q[n]
OBVIOUS

LEMMA Elements ==
  ASSUME NEW S, NEW q \in Seq(S)
  PROVE  Len(q) \in Nat /\ \A n \in 1 .. Len(q) : q[n] \in S
OBVIOUS

LEMMA Constants == /\ TxSize \in Nat \ {0} /\ SubSize \in Nat \ {0} /\ Sends \in [Subs -> Nat]
                   /\ None \notin Subs
  BY SizesAssumption, NoneAssumption

\* The messages, and what tells them apart.
LEMMA Messages ==
  /\ \A s \in Subs : Sub(s) \in TxMessages /\ Unsub(s) \in TxMessages
  /\ \A i \in Pings : Pong(i) \in TxMessages
  /\ Stop \in TxMessages
  /\ \A s \in Subs, r \in Subs : Sub(s) # Unsub(r)
  /\ \A s \in Subs, r \in Subs : Sub(s) = Sub(r) => s = r
  /\ \A s \in Subs, r \in Subs : Unsub(s) = Unsub(r) => s = r
  /\ \A s \in Subs : Sub(s) # Stop /\ Unsub(s) # Stop
  /\ \A s \in Subs, i \in Pings : Sub(s) # Pong(i) /\ Unsub(s) # Pong(i)
  /\ \A s \in Subs, p \in Pubs : Sub(s) # Pub(p) /\ Unsub(s) # Pub(p)
  /\ (\A i \in Pings : Stop # Pong(i)) /\ (\A p \in Pubs : Stop # Pub(p))
BY DEF Sub, Unsub, Pub, Pong, Stop, TxMessages

\* A remainder is in range and some number of whole divisors below.
LEMMA Remainder ==
  ASSUME NEW n \in Int, NEW d \in Nat, d > 0
  PROVE  n % d \in 0 .. d - 1 /\ \E k \in Int : n % d = n - k * d
  OBVIOUS

\* Two different numbers less than a queue apart are in different slots.
LEMMA Apart ==
  ASSUME NEW d \in Nat, d > 0, NEW k \in Int, NEW n \in Int, k - n < d, n - k < d,
         k % d = n % d
  PROVE  k = n
<1>1. PICK i \in Int : k % d = k - i * d
  BY Remainder
<1>2. PICK j \in Int : n % d = n - j * d
  BY Remainder
<1> DEFINE turns == i - j
<1>3. turns \in Int /\ k - n = turns * d
  BY <1>1, <1>2
<1> HIDE DEF turns
<1>4. (turns >= 1 => turns * d >= d) /\ (turns <= -1 => turns * d <= -d)
      /\ (turns = 0 => turns * d = 0)
  BY <1>3
<1> QED
  BY <1>3, <1>4

\* Among as many numbers as there are slots is one in the slot of n.
LEMMA Reached ==
  ASSUME NEW d \in Nat, d > 0, NEW last \in Int, NEW n \in Int
  PROVE  \E k \in last - d + 1 .. last : k % d = n % d
<1> DEFINE r == (last - n) % d
           k == last - r
<1>1. r \in 0 .. d - 1 /\ \E i \in Int : r = (last - n) - i * d
  BY Remainder
<1>2. PICK i \in Int : r = (last - n) - i * d
  BY <1>1
<1> HIDE DEF r
<1>3. k \in last - d + 1 .. last /\ k = n + i * d
  <2>1. r \in Int /\ 0 <= r /\ r <= d - 1 /\ i * d \in Int
    BY <1>1
  <2> QED
    BY <2>1, <1>2
<1> HIDE DEF k
<1>4. PICK j \in Int : k % d = k - j * d
  BY <1>3, Remainder
<1>5. PICK h \in Int : n % d = n - h * d
  BY Remainder
<1> DEFINE turns == i - j + h
<1>6. (k % d) - (n % d) = turns * d
  <2>1. turns * d = i * d - j * d + h * d
    OBVIOUS
  <2> QED
    BY <1>3, <1>4, <1>5, <2>1
<1>7. turns \in Int
  OBVIOUS
<1> HIDE DEF turns
<1>8. (turns >= 1 => turns * d >= d) /\ (turns <= -1 => turns * d <= -d)
      /\ (turns = 0 => turns * d = 0)
  BY <1>7
<1>9. k % d \in 0 .. d - 1 /\ n % d \in 0 .. d - 1
  BY <1>3, Remainder
<1>10. k % d = n % d
  BY <1>6, <1>7, <1>8, <1>9
<1> QED
  BY <1>3, <1>10

\* The number up to which the tx queue is published.
LEMMA PublishedPrefix ==
  ASSUME txq \in Seq(TxMessages)
  PROVE  TxPublished \in 0 .. Len(txq)
<1> DEFINE stops == {n \in 0 .. Len(txq) : n = Len(txq) \/ push[txq[n + 1]] # "done"}
<1>1. Len(txq) \in Nat
  OBVIOUS
<1>2. Len(txq) \in stops /\ stops \subseteq Nat /\ stops # {}
  BY <1>1
<1> HIDE DEF stops
<1>3. PICK m \in stops : \A n \in stops : ~(<<n, m>> \in OpToRel(<, Nat))
  BY <1>2, WFMin, NatLessThanWellFounded
<1>a. \A n \in stops : ~(n < m)
  BY <1>2, <1>3 DEF OpToRel
<1>4. \A n \in stops : m <= n
  BY <1>a, <1>2
<1>b. m \in stops
  OBVIOUS
<1>5. m \in 0 .. Len(txq) /\ (m < Len(txq) => push[txq[m + 1]] # "done")
  BY <1>1, <1>b DEF stops
<1>6. ASSUME NEW k \in 1 .. m PROVE push[txq[k]] = "done"
  <2>1. k - 1 \in 0 .. Len(txq) /\ k - 1 < m /\ (k - 1) + 1 = k /\ k - 1 # Len(txq)
    BY <1>1, <1>5
  <2>2. k - 1 \notin stops
    BY <2>1, <1>4, <1>5
  <2> QED
    BY <2>1, <2>2 DEF stops
<1> QED
  BY <1>5, <1>6 DEF TxPublished

(***************************************************************************)
(* What a user cancels closes a queue and does nothing else                *)
(***************************************************************************)
UserCancels ==
  (\E m \in TxMessages : CancelPush(m)) \/ \E s \in Subs : CancelGet(s)

LEMMA UserCancelsLeave ==
  UserCancels => UNCHANGED <<uncancelled, isCancelled, ends, readers>>
BY DEF UserCancels, CancelPush, CancelGet

(***************************************************************************)
(* What a step does to the tx queue                                        *)
(***************************************************************************)
\* A call begins, or is rejected.
Begins(m, st) ==
  /\ st \in {"called", "rejected"}
  /\ push[m] = "none"
  /\ \A s \in Subs : m # Unsub(s)
  /\ m = Stop => ~isShutdown /\ isShutdown'
  /\ Goto(m, st)
  /\ UNCHANGED txq

\* A message takes its number; an UNSUB follows its SUB, which was pushed.
Claims(m) ==
  /\ push[m] \in {"none", "called"}
  /\ \A s \in Subs : m = Unsub(s) => push[m] = "called" \/ push[Sub(s)] \in {"done", "failed"}
  /\ m = Stop => push[m] = "called"
  /\ ClaimFor(m)

\* Its push ends.
Ends(m, st) ==
  /\ st \in {"done", "failed"}
  /\ push[m] = "claimed"
  /\ Goto(m, st)
  /\ UNCHANGED txq

\* The shutdown message is not pushed before shutdown().
StopIsLast == ~isShutdown => push[Stop] = "none"

LEMMA QueueCases ==
  ASSUME StopIsLast, [Next]_vars
  PROVE  /\ \/ UNCHANGED <<push, txq>>
            \/ \E m \in TxMessages :
                 \/ \E st \in {"called", "rejected"} : Begins(m, st)
                 \/ Claims(m)
                 \/ \E st \in {"done", "failed"} : Ends(m, st)
         /\ isShutdown' = isShutdown \/ Begins(Stop, "called")
<1> USE Messages DEF txEnds, txQueue, queues, routes, pushes, delivery, txState, rxState,
      server, results, ends, groups, executor, readers
<1> DEFINE Cases ==
  /\ \/ UNCHANGED <<push, txq>>
     \/ \E m \in TxMessages :
          \/ \E st \in {"called", "rejected"} : Begins(m, st)
          \/ Claims(m)
          \/ \E st \in {"done", "failed"} : Ends(m, st)
  /\ isShutdown' = isShutdown \/ Begins(Stop, "called")
<1>1. ASSUME NEW m \in TxMessages, Call(m) PROVE Cases
  <2>1. PICK st \in {"called", "rejected"} : Goto(m, st)
    BY <1>1 DEF Call
  <2>2. /\ push[m] = "none" /\ UNCHANGED <<txq, isShutdown>>
        /\ \A s \in Subs : m # Unsub(s)
        /\ m # Stop
    BY <1>1 DEF Call, Sub, Unsub, Pub, Stop
  <2>3. Begins(m, st)
    BY <2>1, <2>2 DEF Begins
  <2> QED
    BY <2>2, <2>3
<1>2. ASSUME NEW m \in TxMessages, Claim(m) PROVE Cases
  <2>1. Claims(m) /\ isShutdown' = isShutdown
    BY <1>2 DEF Claim, Claims
  <2> QED
    BY <2>1
<1>3. ASSUME NEW m \in TxMessages, PushDone(m) PROVE Cases
  <2>1. Ends(m, "done") /\ isShutdown' = isShutdown
    BY <1>3 DEF PushDone, Ends
  <2> QED
    BY <2>1
<1>4. ASSUME NEW m \in TxMessages, PushFailed(m) PROVE Cases
  <2>1. Ends(m, "failed") /\ isShutdown' = isShutdown
    BY <1>4 DEF PushFailed, Ends
  <2> QED
    BY <2>1
<1>5. ASSUME NEW r \in Subs, CallUnsub(r) PROVE Cases
  <2>1. /\ push[Unsub(r)] = "none" /\ push[Sub(r)] \in {"done", "failed"}
        /\ ClaimFor(Unsub(r)) /\ isShutdown' = isShutdown
    BY <1>5 DEF CallUnsub
  <2>2. \A s \in Subs : Unsub(r) = Unsub(s) => s = r
    OBVIOUS
  <2>3. Claims(Unsub(r))
    BY <2>1, <2>2 DEF Claims
  <2> QED
    BY <2>1, <2>3
<1>6. ASSUME NEW i \in Pings, RxPing(i) PROVE Cases
  <2>1. push[Pong(i)] = "none" /\ ClaimFor(Pong(i)) /\ isShutdown' = isShutdown
    BY <1>6 DEF RxPing
  <2>2. Claims(Pong(i))
    BY <2>1 DEF Claims
  <2> QED
    BY <2>1, <2>2
<1>7. CASE Shutdown
  <2>1. Begins(Stop, "called")
    BY <1>7 DEF Shutdown, Begins, StopIsLast
  <2> QED
    BY <2>1
<1>8. CASE TxStep
  BY <1>8 DEF TxStep, TxGet, TxConsume, TxThrows, TxEnds, TxSend, TxWritten, TxSent
<1>9. CASE RxStep \/ RxFails \/ \E s \in Subs : RxMessage(s)
  BY <1>9 DEF RxStep, RxPushed, RxPonged, RxAborts, RxFails, RxEnds, RxMessage
<1>10. CASE RunStep \/ Run \/ CancelRun
  BY <1>10 DEF RunStep, EventFirst, WrapEnds, TxEnded, RunClose, RunEnds, Run, CancelRun,
       uncancelled
<1>11. CASE EofPushed("tx") \/ EofPushed("run")
  BY <1>11 DEF EofPushed
<1>12. ASSUME NEW s \in Subs, ReadItem(s) \/ Consume(s) \/ Get(s) \/ Drop(s) PROVE Cases
  BY <1>12 DEF ReadItem, Consume, Get, Drop, uncancelled
<1>13. CASE UNCHANGED vars
  BY <1>13 DEF vars
<1>14. CASE UserCancels
  BY <1>14, UserCancelsLeave DEF uncancelled
<1> QED
  BY <1>1, <1>2, <1>3, <1>4, <1>5, <1>6, <1>7, <1>8, <1>9, <1>10, <1>11, <1>12, <1>13, <1>14
     DEF Next, Executor, Subscriber, Server, User, UserCancels

\* What a step of tx() changes, nothing else does.
LEMMA TxCases ==
  ASSUME [Next]_vars
  PROVE  \/ UNCHANGED <<txTaken, txConsumed, tx, txAt, subscribes, freed, wrote>>
         \/ (TxStep \/ Run) /\ UNCHANGED <<push, txq>>
<1> USE DEF txEnds, txQueue, queues, routes, pushes, delivery, txState, rxState,
      server, results, ends, groups, executor, readers
<1> DEFINE Same == UNCHANGED <<txTaken, txConsumed, tx, txAt, subscribes, freed, wrote>>
<1>1. ASSUME NEW m \in TxMessages, Call(m) \/ Claim(m) \/ PushDone(m) \/ PushFailed(m)
      PROVE  Same
  BY <1>1 DEF Call, Claim, PushDone, PushFailed
<1>2. ASSUME NEW s \in Subs, CallUnsub(s) \/ ReadItem(s) \/ Consume(s) \/ Get(s) \/ Drop(s)
      PROVE  Same
  BY <1>2 DEF CallUnsub, ReadItem, Consume, Get, Drop, uncancelled
<1>3. CASE Shutdown
  BY <1>3 DEF Shutdown
<1>4. CASE TxStep
  BY <1>4 DEF TxStep, TxGet, TxConsume, TxThrows, TxEnds, TxSend, TxWritten, TxSent
<1>5. CASE RxStep \/ RxFails
  BY <1>5 DEF RxStep, RxPushed, RxPonged, RxAborts, RxFails, RxEnds
<1>6. ASSUME NEW s \in Subs, RxMessage(s) PROVE Same
  BY <1>6 DEF RxMessage
<1>7. ASSUME NEW i \in Pings, RxPing(i) PROVE Same
  BY <1>7 DEF RxPing
<1>8. CASE RunStep \/ CancelRun
  BY <1>8 DEF RunStep, EventFirst, WrapEnds, TxEnded, RunClose, RunEnds, CancelRun,
       uncancelled
<1>9. CASE Run
  BY <1>9 DEF Run
<1>10. CASE EofPushed("tx") \/ EofPushed("run")
  BY <1>10 DEF EofPushed
<1>11. CASE UNCHANGED vars
  BY <1>11 DEF vars
<1>12. CASE UserCancels
  BY <1>12, UserCancelsLeave DEF uncancelled
<1> QED
  BY <1>1, <1>2, <1>3, <1>4, <1>5, <1>6, <1>7, <1>8, <1>9, <1>10, <1>11, <1>12
     DEF Next, Executor, Subscriber, Server, User, UserCancels

(***************************************************************************)
(* The order of the tx queue                                               *)
(***************************************************************************)
QueueTypes ==
  /\ push \in [TxMessages -> {"none", "rejected", "called", "claimed", "done", "failed"}]
  /\ txq \in Seq(TxMessages)

\* A message is in the queue once, from its claim on.
ClaimedOnce ==
  /\ \A m \in TxMessages :
       push[m] \in {"claimed", "done", "failed"} <=> \E n \in 1 .. Len(txq) : txq[n] = m
  /\ \A k, n \in 1 .. Len(txq) : txq[k] = txq[n] => k = n

\* An UNSUB stands behind the SUB that it undoes.
UnsubAfterSub ==
  \A s \in Subs :
    /\ push[Unsub(s)] # "called"
    /\ \A n \in 1 .. Len(txq) : txq[n] = Unsub(s) => \E k \in 1 .. n - 1 : txq[k] = Sub(s)

QueueOrder == QueueTypes /\ ClaimedOnce /\ UnsubAfterSub /\ StopIsLast

LEMMA QueueStart == Init => QueueOrder
<1> SUFFICES ASSUME Init PROVE QueueOrder
  OBVIOUS
<1>1. push = [m \in TxMessages |-> "none"] /\ txq = <<>>
  BY DEF Init
<1>2. Len(txq) = 0
  BY <1>1
<1>3. \A m \in TxMessages : push[m] = "none"
  BY <1>1
<1> QED
  BY <1>1, <1>2, <1>3, Messages
     DEF QueueOrder, QueueTypes, ClaimedOnce, UnsubAfterSub, StopIsLast

\* The queue only grows, and what was pushed stays so.
QueueGrows ==
  /\ Len(txq) \in Nat /\ Len(txq') \in Nat /\ Len(txq) <= Len(txq')
  /\ \A n \in 1 .. Len(txq) : n \in 1 .. Len(txq') /\ txq'[n] = txq[n]
  /\ \A m \in TxMessages : push[m] \in {"done", "failed"} => push'[m] = push[m]

LEMMA QueueStep == QueueOrder /\ [Next]_vars => QueueOrder' /\ QueueGrows
<1> SUFFICES ASSUME QueueOrder, [Next]_vars PROVE QueueOrder' /\ QueueGrows
  OBVIOUS
<1>0. QueueTypes /\ ClaimedOnce /\ UnsubAfterSub /\ StopIsLast
  BY DEF QueueOrder
<1>q. Len(txq) \in Nat /\ \A n \in 1 .. Len(txq) : txq[n] \in TxMessages
  BY <1>0 DEF QueueTypes
<1>s. StopIsLast' \/ push'[Stop] # push[Stop]
  <2>1. isShutdown' = isShutdown \/ isShutdown'
    BY <1>0, QueueCases DEF Begins
  <2> QED
    BY <1>0, <2>1 DEF StopIsLast
<1>1. CASE UNCHANGED <<push, txq>>
  <2>1. StopIsLast'
    BY <1>1, <1>s
  <2>2. ClaimedOnce' /\ UnsubAfterSub' /\ QueueTypes' /\ QueueGrows
    BY <1>0, <1>1, <1>q DEF ClaimedOnce, UnsubAfterSub, QueueTypes, QueueGrows
  <2> QED
    BY <2>1, <2>2 DEF QueueOrder
<1>2. ASSUME NEW m \in TxMessages, NEW st \in {"called", "rejected"}, Begins(m, st)
      PROVE  QueueOrder' /\ QueueGrows
  <2>1. /\ push[m] = "none" /\ txq' = txq /\ \A s \in Subs : m # Unsub(s)
        /\ push' = [push EXCEPT ![m] = st]
    BY <1>2 DEF Begins, Goto
  <2>2. push'[m] = st /\ \A r \in TxMessages \ {m} : push'[r] = push[r]
    BY <1>0, <2>1 DEF QueueTypes
  <2>3. QueueTypes'
    BY <1>0, <2>1 DEF QueueTypes
  <2>4. ClaimedOnce'
    BY <1>0, <2>1, <2>2 DEF ClaimedOnce
  <2>5. UnsubAfterSub'
    BY <1>0, <2>1, <2>2, Messages DEF UnsubAfterSub
  <2>6. StopIsLast'
    BY <1>0, <1>2, <1>s, <2>2, Messages DEF Begins, StopIsLast
  <2>7. QueueGrows
    BY <1>q, <2>1, <2>2 DEF QueueGrows
  <2> QED
    BY <2>3, <2>4, <2>5, <2>6, <2>7 DEF QueueOrder
<1>3. ASSUME NEW m \in TxMessages, NEW st \in {"done", "failed"}, Ends(m, st)
      PROVE  QueueOrder' /\ QueueGrows
  <2>1. push[m] = "claimed" /\ txq' = txq /\ push' = [push EXCEPT ![m] = st]
    BY <1>3 DEF Ends, Goto
  <2>2. push'[m] = st /\ \A r \in TxMessages \ {m} : push'[r] = push[r]
    BY <1>0, <2>1 DEF QueueTypes
  <2>3. QueueTypes'
    BY <1>0, <2>1 DEF QueueTypes
  <2>4. ClaimedOnce'
    BY <1>0, <2>1, <2>2 DEF ClaimedOnce
  <2>5. UnsubAfterSub'
    BY <1>0, <2>1, <2>2, Messages DEF UnsubAfterSub
  <2>6. StopIsLast'
    <3>1. m = Stop => isShutdown
      BY <1>0, <2>1 DEF StopIsLast
    <3>2. isShutdown => isShutdown'
      BY <1>0, QueueCases, Zenon DEF Begins
    <3> QED
      BY <1>s, <2>2, <3>1, <3>2, Messages DEF StopIsLast
  <2>7. QueueGrows
    BY <1>q, <2>1, <2>2 DEF QueueGrows
  <2> QED
    BY <2>3, <2>4, <2>5, <2>6, <2>7 DEF QueueOrder
<1>4. ASSUME NEW m \in TxMessages, Claims(m) PROVE QueueOrder' /\ QueueGrows
  <2>1. /\ push[m] \in {"none", "called"}
        /\ txq' = Append(txq, m) /\ push' = [push EXCEPT ![m] = "claimed"]
        /\ \A s \in Subs : m = Unsub(s) => push[m] = "called" \/ push[Sub(s)] \in {"done", "failed"}
    BY <1>4 DEF Claims, ClaimFor, Goto
  <2>2. push'[m] = "claimed" /\ \A r \in TxMessages \ {m} : push'[r] = push[r]
    BY <1>0, <2>1 DEF QueueTypes
  <2>3. /\ txq' \in Seq(TxMessages) /\ Len(txq') = Len(txq) + 1 /\ txq'[Len(txq) + 1] = m
        /\ \A n \in 1 .. Len(txq) : txq'[n] = txq[n]
    BY <1>0, <2>1, Appended DEF QueueTypes
  <2>4. QueueTypes'
    BY <1>0, <2>1, <2>3 DEF QueueTypes
  <2>5. \A n \in 1 .. Len(txq) : txq[n] # m
    BY <1>0, <2>1 DEF ClaimedOnce
  <2>6. \A n \in 1 .. Len(txq') : n \in 1 .. Len(txq) \/ n = Len(txq) + 1
    BY <1>q, <2>3
  <2>7. \A n \in 1 .. Len(txq) : n \in 1 .. Len(txq')
    BY <1>q, <2>3
  <2>8. Len(txq) + 1 \in 1 .. Len(txq')
    BY <1>q, <2>3
  <2>9. ClaimedOnce'
    <3>1. ASSUME NEW r \in TxMessages
          PROVE  push'[r] \in {"claimed", "done", "failed"} <=>
                   \E n \in 1 .. Len(txq') : txq'[n] = r
      BY <1>0, <2>2, <2>3, <2>6, <2>7, <2>8 DEF ClaimedOnce
    <3>2. ASSUME NEW k \in 1 .. Len(txq'), NEW n \in 1 .. Len(txq'), txq'[k] = txq'[n]
          PROVE  k = n
      BY <1>0, <2>3, <2>5, <2>6, <3>2 DEF ClaimedOnce
    <3> QED
      BY <3>1, <3>2 DEF ClaimedOnce
  <2>10. UnsubAfterSub'
    <3>1. ASSUME NEW s \in Subs, NEW n \in 1 .. Len(txq'), txq'[n] = Unsub(s)
          PROVE  \E k \in 1 .. n - 1 : txq'[k] = Sub(s)
      <4>1. CASE n \in 1 .. Len(txq)
        <5>1. PICK k \in 1 .. n - 1 : txq[k] = Sub(s)
          BY <1>0, <2>3, <3>1, <4>1 DEF UnsubAfterSub
        <5>2. k \in 1 .. Len(txq)
          BY <1>q, <4>1
        <5> QED
          BY <2>3, <5>1, <5>2
      <4>2. CASE n = Len(txq) + 1
        <5>1. m = Unsub(s)
          BY <2>3, <3>1, <4>2
        <5>2. push[Sub(s)] \in {"done", "failed"} /\ Sub(s) \in TxMessages
          BY <1>0, <2>1, <5>1, Messages DEF UnsubAfterSub
        <5>3. PICK k \in 1 .. Len(txq) : txq[k] = Sub(s)
          BY <1>0, <5>2 DEF ClaimedOnce
        <5>4. k \in 1 .. n - 1
          BY <1>q, <4>2
        <5> QED
          BY <2>3, <5>3, <5>4
      <4> QED
        BY <2>6, <4>1, <4>2
    <3>2. \A s \in Subs : push'[Unsub(s)] # "called"
      BY <1>0, <2>2, Messages DEF UnsubAfterSub
    <3> QED
      BY <3>1, <3>2 DEF UnsubAfterSub
  <2>11. StopIsLast'
    <3>1. m = Stop => isShutdown
      BY <1>0, <1>4 DEF StopIsLast, Claims
    <3>2. isShutdown => isShutdown'
      BY <1>0, QueueCases, Zenon DEF Begins
    <3> QED
      BY <1>s, <2>2, <3>1, <3>2, Messages DEF StopIsLast
  <2>12. QueueGrows
    BY <1>q, <2>1, <2>2, <2>3, <2>7 DEF QueueGrows
  <2> QED
    BY <2>4, <2>9, <2>10, <2>11, <2>12 DEF QueueOrder
<1> QED
  BY <1>0, <1>1, <1>2, <1>3, <1>4, QueueCases

(***************************************************************************)
(* tx() and the routes                                                     *)
(***************************************************************************)
\* Before run() neither rx() nor tx() does anything.
RunIdle == run = "off" => tx = "off" /\ rx = "off"

LEMMA RunIdleStep == RunIdle /\ [Next]_vars => RunIdle'
<1> SUFFICES ASSUME RunIdle, [Next]_vars PROVE RunIdle'
  OBVIOUS
<1> USE DEF RunIdle, txEnds, txQueue, queues, routes, pushes, delivery, txState, rxState,
      server, results, ends, groups, executor, readers
<1>1. ASSUME NEW m \in TxMessages, Call(m) \/ Claim(m) \/ PushDone(m) \/ PushFailed(m)
      PROVE  RunIdle'
  BY <1>1 DEF Call, Claim, PushDone, PushFailed
<1>2. ASSUME NEW s \in Subs, CallUnsub(s) \/ ReadItem(s) \/ Consume(s) \/ Get(s) \/ Drop(s)
      PROVE  RunIdle'
  BY <1>2 DEF CallUnsub, ReadItem, Consume, Get, Drop, uncancelled
<1>3. CASE Shutdown
  BY <1>3 DEF Shutdown
<1>4. CASE TxStep
  BY <1>4 DEF TxStep, TxGet, TxConsume, TxThrows, TxEnds, TxSend, TxWritten, TxSent
<1>5. CASE RxStep \/ RxFails
  BY <1>5 DEF RxStep, RxPushed, RxPonged, RxAborts, RxFails, RxEnds
<1>6. ASSUME NEW s \in Subs, RxMessage(s) PROVE RunIdle'
  BY <1>6 DEF RxMessage
<1>7. ASSUME NEW i \in Pings, RxPing(i) PROVE RunIdle'
  BY <1>7 DEF RxPing
<1>8. CASE RunStep \/ CancelRun \/ Run
  BY <1>8 DEF RunStep, EventFirst, WrapEnds, TxEnded, RunClose, RunEnds, Run, CancelRun,
       uncancelled
<1>9. CASE EofPushed("tx") \/ EofPushed("run")
  BY <1>9 DEF EofPushed
<1>10. CASE UNCHANGED vars
  BY <1>10 DEF vars
<1>11. CASE UserCancels
  BY <1>11, UserCancelsLeave DEF uncancelled
<1> QED
  BY <1>1, <1>2, <1>3, <1>4, <1>5, <1>6, <1>7, <1>8, <1>9, <1>10, <1>11
     DEF Next, Executor, Subscriber, Server, User, UserCancels

TxTypes ==
  /\ tx \in {"off", "get", "next", "write", "eof", "throw", "ok", "threw"}
  /\ txTaken \in 0 .. Len(txq) /\ txConsumed \in 0 .. txTaken /\ txAt \in 0 .. txTaken + 1
  /\ subscribes \subseteq Subs /\ freed \subseteq Subs /\ wrote \subseteq Subs
  /\ tx = "off" => txAt = 0
  /\ tx # "off" => 1 <= txAt
  /\ tx \in {"write", "eof"} => txAt <= txTaken
  /\ tx = "eof" => \A s \in Subs : txq[txAt] # Sub(s)

\* A subscription is in the map only from where tx() registers it ...
RegisteredBySub ==
  \A s \in subscribes : \E n \in 1 .. Len(txq) :
    txq[n] = Sub(s) /\ (n < txAt \/ (n = txAt /\ tx \in {"write", "threw"}))

\* ... the server knows of it only from where it is written ...
WrittenBySub == \A s \in wrote : \E n \in 1 .. Len(txq) : txq[n] = Sub(s) /\ n < txAt

\* ... and it leaves the map only where its UNSUB has been written.
RemovedByUnsub ==
  \A s \in Subs : \A n \in 1 .. Len(txq) :
    txq[n] = Sub(s) /\ (n < txAt \/ (n = txAt /\ tx = "write")) =>
      \/ s \in subscribes
      \/ \E k \in 1 .. Len(txq) : txq[k] = Unsub(s) /\ (k < txAt \/ (k = txAt /\ tx = "eof"))

TxOrder == TxTypes /\ RegisteredBySub /\ WrittenBySub /\ RemovedByUnsub

LEMMA TxStart == Init => TxOrder
<1> SUFFICES ASSUME Init PROVE TxOrder
  OBVIOUS
<1>1. txq = <<>> /\ Len(txq) = 0
  BY DEF Init
<1> QED
  BY <1>1 DEF Init, TxOrder, TxTypes, RegisteredBySub, WrittenBySub, RemovedByUnsub

LEMMA TxStepOrder ==
  ASSUME QueueOrder, RunIdle, TxOrder, [Next]_vars
  PROVE  TxOrder'
<1>0. TxTypes /\ RegisteredBySub /\ WrittenBySub /\ RemovedByUnsub /\ QueueGrows
  BY QueueStep DEF TxOrder
<1>q. /\ Len(txq) \in Nat /\ txAt \in Nat /\ txTaken \in Nat /\ txTaken <= Len(txq)
      /\ txAt <= txTaken + 1
  BY <1>0 DEF QueueGrows, TxTypes
<1>u. \A k, n \in 1 .. Len(txq) : txq[k] = txq[n] => k = n
  BY DEF QueueOrder, ClaimedOnce
<1>w. txq \in Seq(TxMessages)
  BY DEF QueueOrder, QueueTypes
<1>1. CASE UNCHANGED <<txTaken, txConsumed, tx, txAt, subscribes, freed, wrote>>
  <2>1. TxTypes'
    <3>1. tx = "eof" => txAt \in 1 .. Len(txq)
      BY <1>0, <1>q DEF TxTypes
    <3>2. txTaken' \in 0 .. Len(txq')
      BY <1>0, <1>1, <1>q DEF QueueGrows
    <3> QED
      BY <1>0, <1>1, <3>1, <3>2 DEF TxTypes, QueueGrows
  <2>2. RegisteredBySub'
    BY <1>0, <1>1 DEF RegisteredBySub, QueueGrows
  <2>3. WrittenBySub'
    BY <1>0, <1>1 DEF WrittenBySub, QueueGrows
  <2>4. RemovedByUnsub'
    <3>1. ASSUME NEW s \in Subs, NEW n \in 1 .. Len(txq'), txq'[n] = Sub(s),
                 n < txAt \/ (n = txAt /\ tx = "write")
          PROVE  \/ s \in subscribes
                 \/ \E k \in 1 .. Len(txq') :
                      txq'[k] = Unsub(s) /\ (k < txAt \/ (k = txAt /\ tx = "eof"))
      <4>1. n \in 1 .. Len(txq)
        BY <1>0, <1>q, <3>1 DEF QueueGrows, TxTypes
      <4> QED
        BY <1>0, <3>1, <4>1 DEF RemovedByUnsub, QueueGrows
    <3> QED
      BY <1>1, <3>1 DEF RemovedByUnsub
  <2> QED
    BY <2>1, <2>2, <2>3, <2>4 DEF TxOrder
<1> USE <1>q DEF txEnds, txQueue, queues, routes, pushes, delivery, txState, rxState,
      server, results, ends, groups, executor, readers
<1>2. CASE Run /\ UNCHANGED <<push, txq>>
  <2>1. txAt = 0 /\ txAt' = 1 /\ tx' = "get" /\ tx = "off"
        /\ UNCHANGED <<txTaken, txConsumed, subscribes, freed, wrote, txq>>
    BY <1>0, <1>2 DEF Run, RunIdle, TxTypes
  <2> QED
    BY <1>0, <2>1 DEF TxOrder, TxTypes, RegisteredBySub, WrittenBySub, RemovedByUnsub
<1>3. CASE TxGet
  <2>1. /\ tx = "get" /\ tx' = "next" /\ txTaken' = TxPublished /\ TxPublished > txTaken
        /\ UNCHANGED <<txConsumed, txAt, subscribes, freed, wrote, txq>>
    BY <1>3 DEF TxGet
  <2>2. TxPublished \in 0 .. Len(txq)
    BY <1>w, PublishedPrefix
  <2> QED
    BY <1>0, <2>1, <2>2 DEF TxOrder, TxTypes, RegisteredBySub, WrittenBySub, RemovedByUnsub
<1>4. CASE TxConsume
  <2>1. /\ tx = "next" /\ tx' \in {"ok", "get"} /\ txConsumed' = txTaken
        /\ UNCHANGED <<txTaken, txAt, subscribes, freed, wrote, txq>>
    BY <1>4 DEF TxConsume, TxEnds
  <2> QED
    BY <1>0, <2>1 DEF TxOrder, TxTypes, RegisteredBySub, WrittenBySub, RemovedByUnsub
<1>5. CASE TxThrows
  <2>1. /\ tx \in {"throw", "write", "get"} /\ tx' = "threw"
        /\ UNCHANGED <<txConsumed, txTaken, txAt, subscribes, freed, wrote, txq>>
    BY <1>5 DEF TxThrows, TxEnds
  <2> QED
    BY <1>0, <2>1 DEF TxOrder, TxTypes, RegisteredBySub, WrittenBySub, RemovedByUnsub
<1>6. ASSUME NEW m \in TxMessages, TxSend(m) PROVE TxOrder'
  <2>1. /\ tx = "next" /\ txAt <= txTaken /\ m = txq[txAt]
        /\ subscribes' = subscribes \cup {s \in Subs : m = Sub(s)}
        /\ \/ m # Stop /\ tx' = "write"
           \/ m = Stop /\ tx' \in {"throw", "eof"}
        /\ UNCHANGED <<txConsumed, txTaken, txAt, freed, wrote, txq>>
    BY <1>6 DEF TxSend, Registered
  <2>2. txAt \in 1 .. Len(txq)
    BY <1>0, <2>1 DEF TxTypes
  <2>3. TxTypes'
    BY <1>0, <2>1, Messages DEF TxTypes
  <2>4. RegisteredBySub'
    <3>1. ASSUME NEW s \in subscribes
          PROVE  \E n \in 1 .. Len(txq) : txq[n] = Sub(s) /\ n < txAt
      BY <1>0, <2>1 DEF RegisteredBySub
    <3>2. ASSUME NEW s \in Subs, m = Sub(s) PROVE tx' = "write"
      BY <2>1, <3>2, Messages
    <3> QED
      BY <2>1, <2>2, <3>1, <3>2 DEF RegisteredBySub
  <2>5. WrittenBySub'
    BY <1>0, <2>1 DEF WrittenBySub
  <2>6. RemovedByUnsub'
    <3>1. ASSUME NEW s \in Subs, NEW n \in 1 .. Len(txq), txq[n] = Sub(s),
                 n < txAt \/ n = txAt
          PROVE  \/ s \in subscribes'
                 \/ \E k \in 1 .. Len(txq) : txq[k] = Unsub(s) /\ k < txAt
      <4>1. CASE n < txAt
        <5>1. tx # "eof"
          BY <2>1
        <5> QED
          BY <1>0, <2>1, <3>1, <4>1, <5>1 DEF RemovedByUnsub
      <4>2. CASE n = txAt
        BY <2>1, <3>1, <4>2
      <4> QED
        BY <3>1, <4>1, <4>2
    <3> QED
      BY <2>1, <3>1 DEF RemovedByUnsub
  <2> QED
    BY <2>3, <2>4, <2>5, <2>6 DEF TxOrder
<1>7. ASSUME NEW m \in TxMessages, TxWritten(m) PROVE TxOrder'
  <2>1. /\ tx = "write" /\ m = txq[txAt]
        /\ wrote' = wrote \cup {s \in Subs : m = Sub(s)}
        /\ subscribes' = subscribes \ {s \in Subs : m = Unsub(s)}
        /\ UNCHANGED <<txConsumed, txTaken, freed, txq>>
        /\ IF \E s \in Subs : m = Unsub(s)
           THEN tx' = "eof" /\ txAt' = txAt
           ELSE tx' = "next" /\ txAt' = txAt + 1
    BY <1>7 DEF TxWritten
  <2>2. txAt \in 1 .. Len(txq) /\ txAt <= txTaken
    BY <1>0, <2>1 DEF TxTypes
  <2>3. ASSUME NEW r \in Subs, m = Unsub(r) PROVE TxOrder'
    <3>1. /\ tx' = "eof" /\ txAt' = txAt /\ wrote' = wrote
          /\ subscribes' = subscribes \ {r}
      BY <2>1, <2>3, Messages
    <3>2. TxTypes'
      BY <1>0, <2>1, <2>2, <2>3, <3>1, Messages DEF TxTypes
    <3>3. RegisteredBySub'
      <4>1. ASSUME NEW s \in subscribes
            PROVE  \E n \in 1 .. Len(txq) : txq[n] = Sub(s) /\ n < txAt
        <5>1. s \in Subs
          BY <1>0 DEF TxTypes
        <5>2. PICK n \in 1 .. Len(txq) : txq[n] = Sub(s) /\ (n < txAt \/ n = txAt)
          BY <1>0 DEF RegisteredBySub
        <5>3. n # txAt
          BY <2>1, <2>3, <5>1, <5>2, Messages
        <5> QED
          BY <5>2, <5>3
      <4> QED
        BY <2>1, <3>1, <4>1 DEF RegisteredBySub
    <3>4. WrittenBySub'
      BY <1>0, <2>1, <3>1 DEF WrittenBySub
    <3>5. RemovedByUnsub'
      <4>1. ASSUME NEW s \in Subs, NEW n \in 1 .. Len(txq), txq[n] = Sub(s), n < txAt
            PROVE  \/ s \in subscribes'
                   \/ \E k \in 1 .. Len(txq) : txq[k] = Unsub(s) /\ (k < txAt \/ k = txAt)
        BY <1>0, <2>1, <2>2, <2>3, <3>1, <4>1 DEF RemovedByUnsub
      <4> QED
        BY <2>1, <3>1, <4>1 DEF RemovedByUnsub
    <3> QED
      BY <3>2, <3>3, <3>4, <3>5 DEF TxOrder
  <2>4. ASSUME \A s \in Subs : m # Unsub(s) PROVE TxOrder'
    <3>1. tx' = "next" /\ txAt' = txAt + 1 /\ subscribes' = subscribes
      BY <2>1, <2>4
    <3>2. TxTypes'
      BY <1>0, <2>1, <2>2, <3>1 DEF TxTypes
    <3>3. RegisteredBySub'
      BY <1>0, <2>1, <3>1 DEF RegisteredBySub
    <3>4. WrittenBySub'
      BY <1>0, <2>1, <2>2, <3>1 DEF WrittenBySub
    <3>5. RemovedByUnsub'
      <4>1. ASSUME NEW s \in Subs, NEW n \in 1 .. Len(txq), txq[n] = Sub(s), n < txAt + 1
            PROVE  \/ s \in subscribes
                   \/ \E k \in 1 .. Len(txq) : txq[k] = Unsub(s) /\ k < txAt + 1
        <5>1. n < txAt \/ (n = txAt /\ tx = "write")
          BY <2>1, <4>1
        <5> QED
          BY <1>0, <4>1, <5>1 DEF RemovedByUnsub
      <4>2. tx' # "eof" /\ tx' # "write"
        BY <3>1
      <4> QED
        BY <2>1, <3>1, <4>1, <4>2 DEF RemovedByUnsub
    <3> QED
      BY <3>2, <3>3, <3>4, <3>5 DEF TxOrder
  <2> QED
    BY <2>3, <2>4
<1>8. ASSUME NEW m \in TxMessages, TxSent(m) PROVE TxOrder'
  <2>1. /\ tx = "eof" /\ tx' = "next" /\ txAt' = txAt + 1 /\ m = txq[txAt]
        /\ freed' = freed \cup {s \in Subs : m = Unsub(s)}
        /\ UNCHANGED <<txConsumed, txTaken, subscribes, wrote, txq>>
    BY <1>8 DEF TxSent
  <2>2. txAt \in 1 .. Len(txq) /\ txAt <= txTaken /\ \A s \in Subs : txq[txAt] # Sub(s)
    BY <1>0, <2>1 DEF TxTypes
  <2>3. TxTypes'
    BY <1>0, <2>1, <2>2 DEF TxTypes
  <2>4. RegisteredBySub'
    BY <1>0, <2>1 DEF RegisteredBySub
  <2>5. WrittenBySub'
    BY <1>0, <2>1 DEF WrittenBySub
  <2>6. RemovedByUnsub'
    <3>1. ASSUME NEW s \in Subs, NEW n \in 1 .. Len(txq), txq[n] = Sub(s), n < txAt + 1
          PROVE  \/ s \in subscribes
                 \/ \E k \in 1 .. Len(txq) : txq[k] = Unsub(s) /\ k < txAt + 1
      <4>1. n < txAt
        BY <2>2, <3>1
      <4> QED
        BY <1>0, <3>1, <4>1 DEF RemovedByUnsub
    <3>2. tx' # "eof" /\ tx' # "write"
      BY <2>1
    <3> QED
      BY <2>1, <3>1, <3>2 DEF RemovedByUnsub
  <2> QED
    BY <2>3, <2>4, <2>5, <2>6 DEF TxOrder
<1> QED
  BY <1>1, <1>2, <1>3, <1>4, <1>5, <1>6, <1>7, <1>8, TxCases DEF TxStep

(***************************************************************************)
(* The subscriptions' queues: types                                        *)
(***************************************************************************)
PushTypes ==
  /\ pushTo \in [Pushers -> Subs \cup {None}] /\ pushWant \in [Pushers -> Int]
  /\ todo \in [Pushers -> SUBSET Subs]

ReaderStates == {"none", "ready", "read", "get", "ended", "threw", "dropped"}

ItemTypes ==
  /\ sent \in [Subs -> Nat] /\ items \in [Subs -> Seq(Nat)] /\ consumed \in [Subs -> Nat]
  /\ readEnd \in [Subs -> Nat] /\ at \in [Subs -> Nat] /\ got \in [Subs -> Nat]
  /\ reader \in [Subs -> ReaderStates]
  /\ \A s \in Subs :
       /\ sent[s] <= Sends[s] /\ consumed[s] <= Published(s) /\ readEnd[s] <= Published(s)
       /\ 1 <= at[s]
       /\ \A n \in 1 .. Published(s) : items[s][n] <= Sends[s]

LEMMA ItemStart == Init => PushTypes /\ ItemTypes
<1> SUFFICES ASSUME Init PROVE PushTypes /\ ItemTypes
  OBVIOUS
<1>1. PushTypes
  BY DEF Init, PushTypes
<1>2. \A s \in Subs : items[s] = <<>> /\ Published(s) = 0
  BY DEF Init, Published
<1>3. ItemTypes
  BY <1>2, Constants DEF Init, ItemTypes, ReaderStates
<1> QED
  BY <1>1, <1>3

\* A slot holds an item, and that of its number unless it was written again.
LEMMA SlotHolds ==
  ASSUME ItemTypes, NEW s \in Subs, NEW n \in 1 .. Published(s)
  PROVE  \E k \in 1 .. Published(s) :
           Slot(s, n) = items[s][k] /\ (n > Published(s) - SubSize => k = n)
<1>0. Published(s) \in Nat /\ SubSize \in Nat /\ SubSize > 0 /\ n \in Nat
  BY Constants DEF ItemTypes, Published
<1> DEFINE last == Published(s)
           here(k) == k % SubSize = n % SubSize /\ k > last - SubSize
<1>1. \E k \in 1 .. last : here(k)
  <2>1. PICK k \in last - SubSize + 1 .. last : k % SubSize = n % SubSize
    <3>1. last \in Int /\ n \in Int
      BY <1>0
    <3> HIDE DEF last
    <3> QED
      BY <1>0, <3>1, Reached
  <2>2. CASE k >= 1
    <3>1. k \in 1 .. last /\ k > last - SubSize
      BY <1>0, <2>2
    <3> QED
      BY <2>1, <3>1
  <2>3. CASE ~(k >= 1)
    <3>1. n > last - SubSize
      BY <1>0, <2>3
    <3> QED
      BY <3>1
  <2> QED
    BY <2>2, <2>3
<1>2. PICK k : /\ k = CHOOSE j \in 1 .. Published(s) :
                            j % SubSize = n % SubSize /\ j > Published(s) - SubSize
               /\ TRUE
  OBVIOUS
<1>3. k \in 1 .. last /\ here(k)
  BY <1>1, <1>2
<1>4. Slot(s, n) = items[s][k]
  BY <1>2 DEF Slot
<1>5. n > last - SubSize => k = n
  <2>1. k \in Int /\ n \in Int
    BY <1>0, <1>3
  <2>2. n > last - SubSize => k - n < SubSize /\ n - k < SubSize
    BY <1>0, <1>3, <2>1
  <2> QED
    BY <1>0, <1>3, <2>1, <2>2, Apart
<1> QED
  BY <1>3, <1>4, <1>5

\* An item more in the queue of s.
LEMMA ItemAppended ==
  ASSUME ItemTypes, NEW s \in Subs, NEW e \in 0 .. Sends[s],
         items' = [items EXCEPT ![s] = Append(@, e)]
  PROVE  /\ items' \in [Subs -> Seq(Nat)]
         /\ \A r \in Subs \ {s} : items'[r] = items[r] /\ Published(r)' = Published(r)
         /\ Published(s) \in Nat /\ Published(s)' = Published(s) + 1
         /\ items'[s][Published(s) + 1] = e
         /\ \A n \in 1 .. Published(s) : items'[s][n] = items[s][n]
<1>1. items[s] \in Seq(Nat) /\ e \in Nat
  BY Constants DEF ItemTypes
<1>2. items'[s] = Append(items[s], e) /\ \A r \in Subs \ {s} : items'[r] = items[r]
  BY DEF ItemTypes
<1>3. /\ Append(items[s], e) \in Seq(Nat) /\ Len(Append(items[s], e)) = Len(items[s]) + 1
      /\ Append(items[s], e)[Len(items[s]) + 1] = e
      /\ \A n \in 1 .. Len(items[s]) : Append(items[s], e)[n] = items[s][n]
  BY <1>1, Appended
<1>4. items' \in [Subs -> Seq(Nat)]
  BY <1>3 DEF ItemTypes
<1>5. Len(items[s]) \in Nat
  BY <1>1
<1> QED
  BY <1>2, <1>3, <1>4, <1>5 DEF Published

\* Who pushes or sends, and who reads.
LEMMA DeliveryCases ==
  ASSUME [Next]_vars
  PROVE  \/ UNCHANGED <<sent, items, consumed, readEnd, at, got>>
             /\ (reader' = reader \/
                 \E m \in TxMessages, st \in {"ready", "dropped"} :
                    push[m] = "claimed" /\ Subscribed(m, st)
                      /\ (Goto(m, "done") \/ Goto(m, "failed")))
         \/ \E t \in {"tx", "run"} : EofPushed(t)
         \/ RxPushed
         \/ \E s \in Subs :
              RxMessage(s) \/ ReadItem(s) \/ Consume(s) \/ Get(s) \/ Drop(s)
<1> USE DEF txEnds, txQueue, queues, routes, pushes, delivery, txState, rxState,
      server, results, ends, groups, executor, readers
<1> DEFINE Same == UNCHANGED <<sent, items, consumed, readEnd, at, got, reader>>
<1>1. ASSUME NEW m \in TxMessages, Call(m) \/ Claim(m) PROVE Same
  BY <1>1 DEF Call, Claim
<1>2. ASSUME NEW m \in TxMessages, PushDone(m) \/ PushFailed(m)
      PROVE  /\ UNCHANGED <<sent, items, consumed, readEnd, at, got>>
             /\ \E st \in {"ready", "dropped"} :
                  push[m] = "claimed" /\ Subscribed(m, st)
                    /\ (Goto(m, "done") \/ Goto(m, "failed"))
  BY <1>2 DEF PushDone, PushFailed
<1>3. ASSUME NEW s \in Subs, CallUnsub(s) PROVE Same
  BY <1>3 DEF CallUnsub
<1>4. CASE Shutdown
  BY <1>4 DEF Shutdown
<1>5. ASSUME TxStep PROVE Same
  BY <1>5 DEF TxStep, TxGet, TxConsume, TxThrows, TxEnds, TxSend, TxWritten, TxSent
<1>6. ASSUME RxPonged \/ RxAborts \/ RxFails PROVE Same
  BY <1>6 DEF RxPonged, RxAborts, RxFails, RxEnds, Refused
<1>7. ASSUME NEW i \in Pings, RxPing(i) PROVE Same
  BY <1>7 DEF RxPing
<1>8. ASSUME RunStep \/ CancelRun \/ Run PROVE Same
  BY <1>8 DEF RunStep, EventFirst, WrapEnds, TxEnded, RunClose, RunEnds, Run, CancelRun,
       uncancelled
<1>9. ASSUME UNCHANGED vars PROVE Same
  BY <1>9 DEF vars
<1>10. ASSUME UserCancels PROVE Same
  BY <1>10, UserCancelsLeave DEF uncancelled
<1> QED
  BY <1>1, <1>2, <1>3, <1>4, <1>5, <1>6, <1>7, <1>8, <1>9, <1>10
     DEF Next, Executor, Subscriber, Server, User, RxStep, UserCancels

LEMMA SlotForIsInt == ASSUME ItemTypes PROVE \A s \in Subs : SlotFor(s) \in Int
<1>1. \A s \in Subs : Published(s) \in Nat
  BY DEF ItemTypes, Published
<1> QED
  BY <1>1, Constants DEF SlotFor

\* tx() and run() leave the push of rx() alone.
LEMMA PushEofTypes ==
  ASSUME PushTypes, ItemTypes, NEW t \in {"tx", "run"}, NEW S \in SUBSET Subs, PushEof(t, S)
  PROVE  PushTypes' /\ pushTo'["rx"] = pushTo["rx"] /\ pushWant'["rx"] = pushWant["rx"]
<1> USE DEF PushTypes, Pushers
<1>1. CASE S = {} \/ isCancelled[t]
  BY <1>1 DEF PushEof, EndPush
<1>2. CASE ~(S = {} \/ isCancelled[t])
  <2>1. PICK s \in S : StartPush(t, s) /\ todo' = [todo EXCEPT ![t] = S \ {s}]
    BY <1>2 DEF PushEof
  <2>2. SlotFor(s) \in Int /\ s \in Subs
    BY SlotForIsInt
  <2> QED
    BY <2>1, <2>2 DEF StartPush
<1> QED
  BY <1>1, <1>2

\* What a step does to the push of rx().
LEMMA PushesStep ==
  ASSUME PushTypes, ItemTypes, TxOrder, [Next]_vars
  PROVE  /\ PushTypes'
         /\ \/ pushTo'["rx"] = pushTo["rx"] /\ pushWant'["rx"] = pushWant["rx"]
            \/ RxPushed \/ RxFails \/ RxAborts \/ \E s \in Subs : RxMessage(s)
<1> USE DEF txEnds, txQueue, queues, routes, delivery, txState, rxState,
      server, results, ends, groups, executor, readers
<1> DEFINE Same == PushTypes' /\ pushTo'["rx"] = pushTo["rx"] /\ pushWant'["rx"] = pushWant["rx"]
<1>u. UNCHANGED pushes => Same
  BY DEF PushTypes, pushes
<1>s. subscribes \subseteq Subs
  BY DEF TxOrder, TxTypes
<1>1. ASSUME NEW m \in TxMessages, Call(m) \/ Claim(m) \/ PushDone(m) \/ PushFailed(m)
      PROVE  UNCHANGED pushes
  BY <1>1 DEF Call, Claim, PushDone, PushFailed
<1>2. ASSUME NEW s \in Subs, CallUnsub(s) \/ ReadItem(s) \/ Consume(s) \/ Get(s) \/ Drop(s)
      PROVE  UNCHANGED pushes
  BY <1>2 DEF CallUnsub, ReadItem, Consume, Get, Drop, uncancelled
<1>3. ASSUME Shutdown \/ TxGet \/ TxConsume \/ TxThrows PROVE UNCHANGED pushes
  BY <1>3 DEF Shutdown, TxGet, TxConsume, TxThrows, TxEnds
<1>4. ASSUME NEW m \in TxMessages, TxSent(m) PROVE UNCHANGED pushes
  BY <1>4 DEF TxSent
<1>5. ASSUME NEW m \in TxMessages, TxSend(m) PROVE Same
  <2>1. UNCHANGED pushes \/ PushEof("tx", subscribes)
    BY <1>5 DEF TxSend
  <2> QED
    BY <1>s, <1>u, <2>1, PushEofTypes
<1>6. ASSUME NEW m \in TxMessages, TxWritten(m) PROVE Same
  <2>1. PushEof("tx", {s \in Subs : m = Unsub(s)})
    BY <1>6 DEF TxWritten
  <2> QED
    BY <2>1, PushEofTypes
<1>7. ASSUME NEW t \in {"tx", "run"}, EofPushed(t) PROVE Same
  <2>1. PushEof(t, todo[t]) /\ todo[t] \in SUBSET Subs
    BY <1>7 DEF EofPushed, PushTypes, Pushers
  <2> QED
    BY <2>1, PushEofTypes
<1>8. ASSUME RunClose PROVE Same
  <2>1. UNCHANGED pushes \/ PushEof("run", subscribes)
    BY <1>8 DEF RunClose
  <2> QED
    BY <1>s, <1>u, <2>1, PushEofTypes
<1>9. ASSUME RxPonged \/ Run \/ EventFirst \/ WrapEnds \/ TxEnded \/ CancelRun \/ RunEnds
      PROVE  UNCHANGED pushes
  BY <1>9 DEF RxPonged, Run, EventFirst, WrapEnds, TxEnded, CancelRun, RunEnds, uncancelled
<1>10. ASSUME NEW i \in Pings, RxPing(i) PROVE UNCHANGED pushes
  BY <1>10 DEF RxPing
<1>11. ASSUME RxPushed \/ RxFails \/ RxAborts PROVE PushTypes'
  <2>1. EndPush("rx") /\ todo' = todo
    BY <1>11 DEF RxPushed, RxFails, RxAborts, RxEnds
  <2> QED
    BY <2>1 DEF EndPush, PushTypes, Pushers
<1>12. ASSUME NEW s \in Subs, RxMessage(s) PROVE PushTypes'
  <2>1. (StartPush("rx", s) \/ UNCHANGED <<pushTo, pushWant>>) /\ todo' = todo
    BY <1>12 DEF RxMessage
  <2> QED
    BY <2>1, SlotForIsInt DEF StartPush, PushTypes, Pushers
<1>13. ASSUME UNCHANGED vars PROVE UNCHANGED pushes
  BY <1>13 DEF vars
<1>14. ASSUME UserCancels PROVE UNCHANGED pushes
  BY <1>14, UserCancelsLeave DEF uncancelled
<1> QED
  BY <1>u, <1>1, <1>2, <1>3, <1>4, <1>5, <1>6, <1>7, <1>8, <1>9, <1>10, <1>11, <1>12, <1>13, <1>14
     DEF Next, Executor, Subscriber, Server, User, TxStep, RxStep, RunStep, UserCancels

\* Who pushes the item that goes through.
LEMMA ItemPushed ==
  ASSUME ItemTypes, PushTypes, NEW s \in Subs, NEW e \in 0 .. Sends[s],
         items' = [items EXCEPT ![s] = Append(@, e)],
         UNCHANGED <<sent, consumed, reader, readEnd, at, got>>
  PROVE  ItemTypes'
<1>1. /\ items' \in [Subs -> Seq(Nat)]
      /\ \A r \in Subs \ {s} : items'[r] = items[r] /\ Published(r)' = Published(r)
      /\ Published(s) \in Nat /\ Published(s)' = Published(s) + 1
      /\ items'[s][Published(s) + 1] = e
      /\ \A n \in 1 .. Published(s) : items'[s][n] = items[s][n]
  BY ItemAppended
<1>2. e <= Sends[s]
  BY Constants
<1>3. /\ consumed[s] <= Published(s)' /\ readEnd[s] <= Published(s)'
      /\ \A n \in 1 .. Published(s)' : items'[s][n] <= Sends[s]
  <2>1. \A n \in 1 .. Published(s)' : n \in 1 .. Published(s) \/ n = Published(s) + 1
    BY <1>1
  <2>2. consumed[s] \in Nat /\ readEnd[s] \in Nat
        /\ consumed[s] <= Published(s) /\ readEnd[s] <= Published(s)
    BY DEF ItemTypes
  <2>3. \A n \in 1 .. Published(s) : items'[s][n] <= Sends[s]
    BY <1>1 DEF ItemTypes
  <2>4. items'[s][Published(s) + 1] <= Sends[s]
    <3>1. items'[s][Published(s) + 1] = e
      BY <1>1
    <3> QED
      BY <1>2, <3>1
  <2>5. consumed[s] <= Published(s)' /\ readEnd[s] <= Published(s)'
    BY <1>1, <2>2
  <2> QED
    BY <2>1, <2>3, <2>4, <2>5
<1>4. \A r \in Subs \ {s} :
        /\ consumed[r] <= Published(r)' /\ readEnd[r] <= Published(r)'
        /\ \A n \in 1 .. Published(r)' : items'[r][n] <= Sends[r]
  BY <1>1 DEF ItemTypes
<1> QED
  BY <1>1, <1>3, <1>4 DEF ItemTypes

LEMMA ItemsStep ==
  ASSUME PushTypes, ItemTypes, [Next]_vars
  PROVE  ItemTypes'
<1> USE DEF txEnds, txQueue, queues, routes, delivery, txState, rxState,
      server, results, ends, groups, executor, readers
<1>1. CASE /\ UNCHANGED <<sent, items, consumed, readEnd, at, got>>
           /\ (reader' = reader \/
                 \E m \in TxMessages, st \in {"ready", "dropped"} :
                    push[m] = "claimed" /\ Subscribed(m, st)
                      /\ (Goto(m, "done") \/ Goto(m, "failed")))
  <2>1. reader' \in [Subs -> ReaderStates]
    BY <1>1 DEF ItemTypes, Subscribed, ReaderStates
  <2> QED
    BY <1>1, <2>1 DEF ItemTypes, Published
<1>2. ASSUME NEW t \in {"tx", "run"}, EofPushed(t) PROVE ItemTypes'
  <2>1. UNCHANGED <<sent, consumed, reader, readEnd, at, got>>
    BY <1>2 DEF EofPushed
  <2>2. CASE items' = items
    BY <2>1, <2>2 DEF ItemTypes, Published
  <2>3. CASE Granted(t, Eof)
    <3>1. pushTo[t] \in Subs /\ items' = [items EXCEPT ![pushTo[t]] = Append(@, Eof)]
      BY <2>3 DEF Granted, PushTypes, Pushers
    <3>2. Eof \in 0 .. Sends[pushTo[t]]
      BY <3>1, Constants DEF Eof
    <3> QED
      BY <2>1, <3>1, <3>2, ItemPushed
  <2> QED
    BY <1>2, <2>2, <2>3 DEF EofPushed, Refused
<1>3. CASE RxPushed
  <2>1. UNCHANGED <<sent, consumed, reader, readEnd, at, got>>
    BY <1>3 DEF RxPushed
  <2>2. /\ pushTo["rx"] \in Subs
        /\ items' = [items EXCEPT ![pushTo["rx"]] = Append(@, sent[pushTo["rx"]])]
    BY <1>3 DEF RxPushed, Granted, PushTypes, Pushers
  <2>3. sent[pushTo["rx"]] \in 0 .. Sends[pushTo["rx"]]
    BY <2>2, Constants DEF ItemTypes
  <2> QED
    BY <2>1, <2>2, <2>3, ItemPushed
<1>4. ASSUME NEW s \in Subs, RxMessage(s) PROVE ItemTypes'
  <2>1. /\ sent' = [sent EXCEPT ![s] = @ + 1] /\ sent[s] < Sends[s]
        /\ UNCHANGED <<items, consumed, reader, readEnd, at, got>>
    BY <1>4 DEF RxMessage
  <2>2. sent' \in [Subs -> Nat] /\ \A r \in Subs : sent'[r] <= Sends[r]
    <3>1. sent[s] \in Nat /\ Sends[s] \in Nat
      BY Constants DEF ItemTypes
    <3>2. sent'[s] = sent[s] + 1 /\ \A r \in Subs \ {s} : sent'[r] = sent[r]
      BY <2>1 DEF ItemTypes
    <3>3. sent' \in [Subs -> Nat]
      BY <2>1, <3>1 DEF ItemTypes
    <3>4. sent'[s] <= Sends[s]
      BY <2>1, <3>1, <3>2
    <3>5. \A r \in Subs \ {s} : sent'[r] <= Sends[r]
      BY <3>2 DEF ItemTypes
    <3> QED
      BY <3>3, <3>4, <3>5
  <2> QED
    BY <2>1, <2>2 DEF ItemTypes, Published
<1>5. ASSUME NEW s \in Subs, ReadItem(s) PROVE ItemTypes'
  <2>1. /\ reader[s] \in {"ready", "read"} /\ at[s] <= readEnd[s]
        /\ got' = [got EXCEPT ![s] = Slot(s, at[s])] /\ at' = [at EXCEPT ![s] = @ + 1]
        /\ reader' = [reader EXCEPT ![s] = "ended"] \/ reader' = [reader EXCEPT ![s] = "ready"]
        /\ consumed' = [consumed EXCEPT ![s] = readEnd[s]] \/ consumed' = consumed
        /\ UNCHANGED <<items, sent, readEnd>>
    BY <1>5 DEF ReadItem, GiveBack
  <2>2. at[s] \in 1 .. Published(s) /\ Published(s) \in Nat
    BY <2>1 DEF ItemTypes, Published
  <2>3. Slot(s, at[s]) \in Nat
    <3>1. PICK k \in 1 .. Published(s) : Slot(s, at[s]) = items[s][k]
      BY <2>2, SlotHolds
    <3> QED
      BY <3>1, Elements DEF ItemTypes, Published
  <2>4. got' \in [Subs -> Nat] /\ at' \in [Subs -> Nat] /\ \A r \in Subs : 1 <= at'[r]
    BY <2>1, <2>3 DEF ItemTypes
  <2>5. reader' \in [Subs -> ReaderStates]
    BY <2>1 DEF ItemTypes, ReaderStates
  <2>6. consumed' \in [Subs -> Nat] /\ \A r \in Subs : consumed'[r] <= Published(r)
    BY <2>1 DEF ItemTypes
  <2> QED
    BY <2>1, <2>4, <2>5, <2>6 DEF ItemTypes, Published
<1>6. ASSUME NEW s \in Subs, Consume(s) PROVE ItemTypes'
  <2>1. /\ reader' = [reader EXCEPT ![s] = "get"]
        /\ consumed' = [consumed EXCEPT ![s] = readEnd[s]]
        /\ UNCHANGED <<items, sent, readEnd, at, got>>
    BY <1>6 DEF Consume, GiveBack
  <2>2. reader' \in [Subs -> ReaderStates]
    BY <2>1 DEF ItemTypes, ReaderStates
  <2>3. consumed' \in [Subs -> Nat] /\ \A r \in Subs : consumed'[r] <= Published(r)
    BY <2>1 DEF ItemTypes
  <2> QED
    BY <2>1, <2>2, <2>3 DEF ItemTypes, Published
<1>7. ASSUME NEW s \in Subs, Get(s) PROVE ItemTypes'
  <2>1. /\ reader' = [reader EXCEPT ![s] = "read"] \/ reader' = [reader EXCEPT ![s] = "threw"]
        /\ readEnd' = [readEnd EXCEPT ![s] = Published(s)] \/ readEnd' = readEnd
        /\ UNCHANGED <<items, sent, consumed, at, got>>
    BY <1>7 DEF Get
  <2>2. reader' \in [Subs -> ReaderStates]
    BY <2>1 DEF ItemTypes, ReaderStates
  <2>3. \A r \in Subs : Published(r) \in Nat /\ 0 <= Published(r) /\ readEnd[r] <= Published(r)
    BY DEF ItemTypes, Published
  <2>a. readEnd \in [Subs -> Nat]
    BY DEF ItemTypes
  <2>4. readEnd' \in [Subs -> Nat] /\ \A r \in Subs : readEnd'[r] <= Published(r)
    BY <2>1, <2>3, <2>a
  <2> QED
    BY <2>1, <2>2, <2>4 DEF ItemTypes, Published
<1>8. ASSUME NEW s \in Subs, Drop(s) PROVE ItemTypes'
  <2>1. /\ reader' = [reader EXCEPT ![s] = "dropped"] /\ readEnd' = [readEnd EXCEPT ![s] = 0]
        /\ at' = [at EXCEPT ![s] = 1] /\ got' = [got EXCEPT ![s] = 0]
        /\ UNCHANGED <<items, sent, consumed>>
    BY <1>8 DEF Drop, uncancelled
  <2>2. reader' \in [Subs -> ReaderStates]
    BY <2>1 DEF ItemTypes, ReaderStates
  <2>3. \A r \in Subs : Published(r) \in Nat /\ 0 <= Published(r) /\ readEnd[r] <= Published(r)
    BY DEF ItemTypes, Published
  <2>a. readEnd \in [Subs -> Nat]
    BY DEF ItemTypes
  <2>4. readEnd' \in [Subs -> Nat] /\ \A r \in Subs : readEnd'[r] <= Published(r)
    <3>1. readEnd'[s] = 0 /\ \A r \in Subs \ {s} : readEnd'[r] = readEnd[r]
      BY <2>1, <2>a
    <3>2. readEnd' \in [Subs -> Nat]
      BY <2>1, <2>a
    <3> QED
      BY <2>3, <3>1, <3>2
  <2>5. got' \in [Subs -> Nat] /\ at' \in [Subs -> Nat] /\ \A r \in Subs : 1 <= at'[r]
    BY <2>1 DEF ItemTypes
  <2> QED
    BY <2>1, <2>2, <2>4, <2>5 DEF ItemTypes, Published
<1> QED
  BY <1>1, <1>2, <1>3, <1>4, <1>5, <1>6, <1>7, <1>8, DeliveryCases

(***************************************************************************)
(* Delivery                                                                *)
(***************************************************************************)
\* A reader exists from when its SUB was pushed; it is between what it gave
\* back and the end of its range.
Reading ==
  \A s \in Subs :
    /\ reader[s] # "none" => push[Sub(s)] \in {"done", "failed"}
    /\ reader[s] \in {"none", "ready", "read", "get"} =>
         consumed[s] <= readEnd[s] /\ consumed[s] < at[s] /\ at[s] <= readEnd[s] + 1

LEMMA ReadingStart == Init => Reading
  BY DEF Init, Reading

\* A step that does not concern the reader of s.
ReadsOn(s) ==
  reader'[s] = reader[s] /\ consumed'[s] = consumed[s]
    /\ readEnd'[s] = readEnd[s] /\ at'[s] = at[s]

ReadingOf(s) ==
    /\ reader[s] # "none" => push[Sub(s)] \in {"done", "failed"}
    /\ reader[s] \in {"none", "ready", "read", "get"} =>
         consumed[s] <= readEnd[s] /\ consumed[s] < at[s] /\ at[s] <= readEnd[s] + 1

LEMMA ReadingStep ==
  ASSUME QueueOrder, ItemTypes, Reading, [Next]_vars
  PROVE  Reading'
<1> USE DEF txEnds, txQueue, queues, routes, delivery, txState, rxState,
      server, results, ends, groups, executor, readers
<1>0. QueueTypes /\ QueueGrows /\ \A s \in Subs : Sub(s) \in TxMessages
  BY QueueStep, Messages DEF QueueOrder
<1>r. ASSUME NEW s \in Subs, ReadsOn(s) PROVE ReadingOf(s)'
  BY <1>0, <1>r DEF Reading, ReadingOf, ReadsOn, QueueGrows
<1>g. (\A s \in Subs : ReadingOf(s)') => Reading'
  BY DEF Reading, ReadingOf
<1>t. \A s \in Subs : /\ consumed[s] \in Nat /\ readEnd[s] \in Nat /\ at[s] \in Nat
                      /\ Published(s) \in Nat /\ readEnd[s] <= Published(s)
  BY DEF ItemTypes, Published
<1>f. /\ reader \in [Subs -> ReaderStates] /\ consumed \in [Subs -> Nat]
      /\ readEnd \in [Subs -> Nat] /\ at \in [Subs -> Nat]
  BY DEF ItemTypes
<1>1. CASE UNCHANGED <<consumed, reader, readEnd, at>>
  <2>1. \A s \in Subs : ReadsOn(s)
    BY <1>1 DEF ReadsOn
  <2> QED
    BY <1>g, <1>r, <2>1
<1>2. ASSUME NEW m \in TxMessages, NEW st \in {"ready", "dropped"}, Subscribed(m, st),
             push[m] = "claimed", Goto(m, "done") \/ Goto(m, "failed"),
             UNCHANGED <<consumed, readEnd, at>>
      PROVE  Reading'
  <2>1. push'[m] \in {"done", "failed"}
    BY <1>0, <1>2 DEF Goto, QueueTypes
  <2>2. ASSUME NEW s \in Subs, m = Sub(s) PROVE ReadingOf(s)'
    <3>1. reader[s] = "none"
      BY <1>2, <2>2 DEF Reading
    <3>2. reader'[s] = st
      BY <1>2, <2>2 DEF Subscribed
    <3>3. consumed[s] <= readEnd[s] /\ consumed[s] < at[s] /\ at[s] <= readEnd[s] + 1
      BY <3>1 DEF Reading
    <3> QED
      BY <1>2, <2>1, <2>2, <3>2, <3>3 DEF ReadingOf
  <2>3. ASSUME NEW s \in Subs, m # Sub(s) PROVE ReadsOn(s)
    BY <1>2, <2>3 DEF Subscribed, ReadsOn
  <2> QED
    BY <1>g, <1>r, <2>2, <2>3
<1>3. ASSUME NEW s \in Subs, ReadItem(s) PROVE Reading'
  <2>1. /\ reader[s] \in {"ready", "read"} /\ at[s] <= readEnd[s]
        /\ at' = [at EXCEPT ![s] = @ + 1]
        /\ \/ reader' = [reader EXCEPT ![s] = "ended"]
              /\ consumed' = [consumed EXCEPT ![s] = readEnd[s]]
           \/ reader' = [reader EXCEPT ![s] = "ready"] /\ consumed' = consumed
        /\ UNCHANGED <<readEnd, push>>
    BY <1>3 DEF ReadItem, GiveBack
  <2>2. at'[s] = at[s] + 1 /\ (reader'[s] = "ended" \/
                                (reader'[s] = "ready" /\ consumed'[s] = consumed[s]))
    BY <1>f, <2>1
  <2>3. /\ push[Sub(s)] \in {"done", "failed"}
        /\ consumed[s] <= readEnd[s] /\ consumed[s] < at[s] /\ at[s] <= readEnd[s] + 1
    BY <2>1 DEF Reading
  <2>4. ReadingOf(s)'
    BY <1>t, <2>1, <2>2, <2>3 DEF ReadingOf
  <2>5. ASSUME NEW r \in Subs \ {s} PROVE ReadsOn(r)
    <3>1. reader'[r] = reader[r] /\ consumed'[r] = consumed[r]
      <4>1. CASE reader' = [reader EXCEPT ![s] = "ended"]
                   /\ consumed' = [consumed EXCEPT ![s] = readEnd[s]]
        BY <1>f, <4>1
      <4>2. CASE reader' = [reader EXCEPT ![s] = "ready"] /\ consumed' = consumed
        BY <1>f, <4>2
      <4> QED
        BY <2>1, <4>1, <4>2
    <3>2. readEnd' = readEnd /\ at'[r] = at[r]
      BY <2>1
    <3> QED
      BY <3>1, <3>2 DEF ReadsOn
  <2> QED
    BY <1>g, <1>r, <2>4, <2>5
<1>4. ASSUME NEW s \in Subs, Consume(s) PROVE Reading'
  <2>1. /\ reader[s] = "ready" /\ at[s] > readEnd[s]
        /\ reader' = [reader EXCEPT ![s] = "get"]
        /\ consumed' = [consumed EXCEPT ![s] = readEnd[s]]
        /\ UNCHANGED <<readEnd, push, at>>
    BY <1>4 DEF Consume, GiveBack
  <2>2. reader'[s] = "get" /\ consumed'[s] = readEnd[s]
    BY <1>f, <2>1
  <2>3. /\ push[Sub(s)] \in {"done", "failed"}
        /\ consumed[s] <= readEnd[s] /\ consumed[s] < at[s] /\ at[s] <= readEnd[s] + 1
    BY <2>1 DEF Reading
  <2>4. ReadingOf(s)'
    BY <1>t, <2>1, <2>2, <2>3 DEF ReadingOf
  <2>5. \A r \in Subs \ {s} : ReadsOn(r)
    BY <2>1 DEF ReadsOn
  <2> QED
    BY <1>g, <1>r, <2>4, <2>5
<1>5. ASSUME NEW s \in Subs, Get(s) PROVE Reading'
  <2>1. /\ reader[s] = "get"
        /\ \/ /\ Published(s) > readEnd[s]
              /\ readEnd' = [readEnd EXCEPT ![s] = Published(s)]
              /\ reader' = [reader EXCEPT ![s] = "read"]
           \/ reader' = [reader EXCEPT ![s] = "threw"] /\ readEnd' = readEnd
        /\ UNCHANGED <<consumed, push, at>>
    BY <1>5 DEF Get
  <2>2. \/ reader'[s] = "threw"
        \/ reader'[s] = "read" /\ readEnd'[s] = Published(s) /\ Published(s) > readEnd[s]
    BY <1>f, <2>1
  <2>3. /\ push[Sub(s)] \in {"done", "failed"}
        /\ consumed[s] <= readEnd[s] /\ consumed[s] < at[s] /\ at[s] <= readEnd[s] + 1
    BY <2>1 DEF Reading
  <2>4. ReadingOf(s)'
    BY <1>t, <2>1, <2>2, <2>3 DEF ReadingOf
  <2>5. ASSUME NEW r \in Subs \ {s} PROVE ReadsOn(r)
    <3>1. reader'[r] = reader[r] /\ readEnd'[r] = readEnd[r]
      <4>1. CASE reader' = [reader EXCEPT ![s] = "read"]
                   /\ readEnd' = [readEnd EXCEPT ![s] = Published(s)]
        BY <1>f, <4>1
      <4>2. CASE reader' = [reader EXCEPT ![s] = "threw"] /\ readEnd' = readEnd
        BY <1>f, <4>2
      <4> QED
        BY <2>1, <4>1, <4>2
    <3>2. consumed' = consumed /\ at' = at
      BY <2>1
    <3> QED
      BY <3>1, <3>2 DEF ReadsOn
  <2> QED
    BY <1>g, <1>r, <2>4, <2>5
<1>6. ASSUME NEW s \in Subs, Drop(s) PROVE Reading'
  <2>1. /\ reader[s] # "none" /\ reader' = [reader EXCEPT ![s] = "dropped"]
        /\ UNCHANGED <<consumed, push>>
        /\ readEnd' = [readEnd EXCEPT ![s] = 0] /\ at' = [at EXCEPT ![s] = 1]
    BY <1>6 DEF Drop, uncancelled
  <2>2. reader'[s] = "dropped" /\ push[Sub(s)] \in {"done", "failed"}
    BY <1>f, <2>1 DEF Reading
  <2>3. ReadingOf(s)'
    BY <2>1, <2>2 DEF ReadingOf
  <2>4. \A r \in Subs \ {s} : ReadsOn(r)
    BY <2>1 DEF ReadsOn
  <2> QED
    BY <1>g, <1>r, <2>3, <2>4
<1>7. ASSUME NEW t \in {"tx", "run"}, EofPushed(t) PROVE Reading'
  BY <1>1, <1>7 DEF EofPushed
<1>8. CASE RxPushed
  BY <1>1, <1>8 DEF RxPushed
<1>9. ASSUME NEW s \in Subs, RxMessage(s) PROVE Reading'
  BY <1>1, <1>9 DEF RxMessage
<1> QED
  BY <1>1, <1>2, <1>3, <1>4, <1>5, <1>6, <1>7, <1>8, <1>9, DeliveryCases

\* Nobody has pushed EOF to s.
Clean(s) == ~Contains(items[s], Eof)

\* rx() is pushing what it read for s.
PushesTo(s) == rx = "push" /\ pushTo["rx"] = s

\* A queue without EOF holds what the server sent, each message in its place;
\* the reader has read it in that order and nothing unread is overwritten.
InPlace ==
  \A s \in Subs : Clean(s) =>
    /\ \A n \in 1 .. Published(s) : items[s][n] = n
    /\ got[s] = at[s] - 1
    /\ Published(s) <= consumed[s] + SubSize

\* While there is a route, the one message that may be missing is the one that
\* rx() pushes, and it waits for the slot that this message is written to.
NoneMissing ==
  \A s \in Subs : Clean(s) =>
    /\ PushesTo(s) => sent[s] = Published(s) + 1 /\ pushWant["rx"] = SlotFor(s)
    /\ (s \in subscribes \/ s \notin wrote) /\ rx \notin {"ended", "crashed"}
         /\ ~PushesTo(s) => sent[s] = Published(s)

\* A queue never becomes free of EOF again; without one it grows by rx() only.
LEMMA CleanStep ==
  ASSUME PushTypes, ItemTypes, [Next]_vars, NEW s \in Subs, Clean(s)'
  PROVE  /\ Clean(s)
         /\ \/ items'[s] = items[s] /\ Published(s)' = Published(s)
            \/ /\ RxPushed /\ pushTo["rx"] = s
               /\ Published(s) \in Nat /\ Published(s)' = Published(s) + 1
               /\ items'[s][Published(s) + 1] = sent[s]
               /\ \A n \in 1 .. Published(s) : items'[s][n] = items[s][n]
<1> USE DEF txEnds, txQueue, queues, routes, delivery, txState, rxState,
      server, results, ends, groups, executor, readers
<1> DEFINE Goal ==
  /\ Clean(s)
  /\ \/ items'[s] = items[s] /\ Published(s)' = Published(s)
     \/ /\ RxPushed /\ pushTo["rx"] = s
        /\ Published(s) \in Nat /\ Published(s)' = Published(s) + 1
        /\ items'[s][Published(s) + 1] = sent[s]
        /\ \A n \in 1 .. Published(s) : items'[s][n] = items[s][n]
<1>1. ASSUME items'[s] = items[s] PROVE Goal
  BY <1>1 DEF Clean, Published
<1>2. ASSUME NEW r \in Subs, NEW e \in 0 .. Sends[r],
             items' = [items EXCEPT ![r] = Append(@, e)]
      PROVE  \/ items'[s] = items[s]
             \/ /\ r = s /\ Clean(s) /\ e # Eof
                /\ Published(s) \in Nat /\ Published(s)' = Published(s) + 1
                /\ items'[s][Published(s) + 1] = e
                /\ \A n \in 1 .. Published(s) : items'[s][n] = items[s][n]
  <2>1. /\ \A q \in Subs \ {r} : items'[q] = items[q]
        /\ Published(r) \in Nat /\ Published(r)' = Published(r) + 1
        /\ items'[r][Published(r) + 1] = e
        /\ \A n \in 1 .. Published(r) : items'[r][n] = items[r][n]
    BY <1>2, ItemAppended
  <2>2. CASE r # s
    BY <2>1, <2>2
  <2>3. CASE r = s
    <3>1. \A n \in 1 .. Published(s)' : items'[s][n] # Eof
      BY DEF Clean, Contains, Published
    <3>2. Published(s) + 1 \in 1 .. Published(s)'
      BY <2>1, <2>3
    <3>3. \A n \in 1 .. Published(s) : n \in 1 .. Published(s)'
      BY <2>1, <2>3
    <3>4. \A n \in 1 .. Published(s) : items[s][n] # Eof
      BY <2>1, <2>3, <3>1, <3>3
    <3>5. Clean(s)
      BY <3>4 DEF Clean, Contains, Published
    <3> QED
      BY <2>1, <2>3, <3>1, <3>2, <3>5
  <2> QED
    BY <2>2, <2>3
<1>3. ASSUME NEW t \in {"tx", "run"}, EofPushed(t) PROVE Goal
  <2>1. CASE Refused(t)
    BY <1>1, <2>1 DEF Refused
  <2>2. CASE Granted(t, Eof)
    <3>1. pushTo[t] \in Subs /\ items' = [items EXCEPT ![pushTo[t]] = Append(@, Eof)]
      BY <2>2 DEF Granted, PushTypes, Pushers
    <3>2. Eof \in 0 .. Sends[pushTo[t]]
      BY <3>1, Constants DEF Eof
    <3> QED
      BY <1>1, <1>2, <3>1, <3>2
  <2> QED
    BY <1>3, <2>1, <2>2 DEF EofPushed
<1>4. ASSUME RxPushed PROVE Goal
  <2>1. PICK r \in Subs : r = pushTo["rx"]
    BY <1>4 DEF RxPushed, Granted, PushTypes, Pushers
  <2>2. PICK e \in 0 .. Sends[r] : e = sent[r]
    BY Constants DEF ItemTypes
  <2>3. items' = [items EXCEPT ![r] = Append(@, e)]
    BY <1>4, <2>1, <2>2 DEF RxPushed, Granted
  <2>4. CASE items'[s] = items[s]
    BY <1>1, <2>4
  <2>5. CASE items'[s] # items[s]
    BY <1>2, <1>4, <2>1, <2>2, <2>3, <2>5
  <2> QED
    BY <2>4, <2>5
<1>5. ASSUME NEW r \in Subs,
             RxMessage(r) \/ ReadItem(r) \/ Consume(r) \/ Get(r) \/ Drop(r)
      PROVE  Goal
  BY <1>1, <1>5 DEF RxMessage, ReadItem, Consume, Get, Drop, uncancelled
<1> HIDE DEF Goal
<1>6. Goal
  BY <1>1, <1>3, <1>4, <1>5, DeliveryCases
<1> QED
  BY <1>6 DEF Goal

\* tx() registers a subscription before the server knows of it.
LEMMA RouteStays ==
  ASSUME QueueOrder, TxOrder, [Next]_vars, NEW s \in Subs,
         s \in subscribes' \/ s \notin wrote'
  PROVE  s \in subscribes \/ s \notin wrote
<1>1. CASE UNCHANGED <<txTaken, txConsumed, tx, txAt, subscribes, freed, wrote>>
  BY <1>1
<1>2. ASSUME NEW m \in TxMessages, TxSend(m) PROVE s \in subscribes \/ s \notin wrote
  <2>1. /\ m = txq[txAt] /\ wrote' = wrote /\ txAt <= txTaken /\ tx = "next"
        /\ subscribes' = subscribes \cup {r \in Subs : m = Sub(r)}
    BY <1>2 DEF TxSend, Registered, server, rxState, executor
  <2>2. ASSUME s \in wrote, m = Sub(s) PROVE FALSE
    <3>1. PICK n \in 1 .. Len(txq) : txq[n] = Sub(s) /\ n < txAt
      BY <2>2 DEF TxOrder, WrittenBySub
    <3>2. txAt \in 1 .. Len(txq)
      BY <2>1 DEF TxOrder, TxTypes
    <3>3. n = txAt
      BY <2>1, <2>2, <3>1, <3>2 DEF QueueOrder, ClaimedOnce
    <3> QED
      BY <3>1, <3>2, <3>3
  <2> QED
    BY <2>1, <2>2
<1>3. ASSUME NEW m \in TxMessages, TxWritten(m) PROVE s \in subscribes \/ s \notin wrote
  BY <1>3 DEF TxWritten
<1>4. CASE TxGet \/ TxConsume \/ TxThrows \/ Run \/ \E m \in TxMessages : TxSent(m)
  BY <1>4 DEF TxGet, TxConsume, TxThrows, TxEnds, TxSent, Run, routes, delivery, server
<1> QED
  BY <1>1, <1>2, <1>3, <1>4, TxCases DEF TxStep

\* What moves rx(), or counts a message as sent.
LEMMA RxCases ==
  ASSUME RunIdle, [Next]_vars
  PROVE  \/ UNCHANGED <<rx, sent>>
         \/ UNCHANGED sent /\ rx \in {"off", "read", "pong"} /\ rx' # "push"
         \/ UNCHANGED sent /\ rx' = "ended"
         \/ RxPushed
         \/ \E s \in Subs : RxMessage(s)
<1> USE DEF txEnds, txQueue, queues, routes, pushes, delivery, txState, rxState,
      server, results, ends, groups, executor, readers
<1> DEFINE Same == UNCHANGED <<rx, sent>>
<1>1. ASSUME NEW m \in TxMessages, Call(m) \/ Claim(m) \/ PushDone(m) \/ PushFailed(m)
      PROVE  Same
  BY <1>1 DEF Call, Claim, PushDone, PushFailed
<1>2. ASSUME NEW s \in Subs, CallUnsub(s) \/ ReadItem(s) \/ Consume(s) \/ Get(s) \/ Drop(s)
      PROVE  Same
  BY <1>2 DEF CallUnsub, ReadItem, Consume, Get, Drop, uncancelled
<1>3. CASE Shutdown
  BY <1>3 DEF Shutdown
<1>4. ASSUME TxStep PROVE Same
  BY <1>4 DEF TxStep, TxGet, TxConsume, TxThrows, TxEnds, TxSend, TxWritten, TxSent
<1>5. CASE RxPonged \/ RxAborts \/ RxFails
  BY <1>5 DEF RxPonged, RxAborts, RxFails, RxEnds
<1>6. ASSUME NEW i \in Pings, RxPing(i)
      PROVE  UNCHANGED sent /\ rx \in {"read", "pong"} /\ rx' # "push"
  BY <1>6 DEF RxPing
<1>7. ASSUME RunStep \/ CancelRun PROVE Same
  BY <1>7 DEF RunStep, EventFirst, WrapEnds, TxEnded, RunClose, RunEnds, CancelRun,
       uncancelled
<1>8. ASSUME EofPushed("tx") \/ EofPushed("run") PROVE Same
  BY <1>8 DEF EofPushed
<1>9. ASSUME UNCHANGED vars PROVE Same
  BY <1>9 DEF vars
<1>10. ASSUME Run PROVE UNCHANGED sent /\ rx = "off" /\ rx' = "read"
  BY <1>10 DEF Run, RunIdle
<1>11. ASSUME UserCancels PROVE Same
  BY <1>11, UserCancelsLeave DEF uncancelled
<1> QED
  BY <1>1, <1>2, <1>3, <1>4, <1>5, <1>6, <1>7, <1>8, <1>9, <1>10, <1>11
     DEF Next, Executor, Subscriber, Server, User, RxStep, UserCancels

LEMMA NumberedStart == Init => InPlace /\ NoneMissing
<1> SUFFICES ASSUME Init PROVE InPlace /\ NoneMissing
  OBVIOUS
<1>1. \A s \in Subs : /\ items[s] = <<>> /\ Published(s) = 0 /\ got[s] = 0 /\ at[s] = 1
                      /\ consumed[s] = 0 /\ sent[s] = 0
  BY DEF Init, Published
<1>2. rx # "push" /\ SubSize \in Nat
  BY Constants DEF Init
<1> QED
  BY <1>1, <1>2 DEF InPlace, NoneMissing, PushesTo

LEMMA NoneMissingStep ==
  ASSUME QueueOrder, RunIdle, TxOrder, PushTypes, ItemTypes, NoneMissing, [Next]_vars
  PROVE  NoneMissing'
<1> DEFINE Routed(s) == s \in subscribes \/ s \notin wrote
<1> SUFFICES ASSUME NEW s \in Subs, Clean(s)'
             PROVE  /\ PushesTo(s)' =>
                         sent'[s] = Published(s)' + 1 /\ pushWant'["rx"] = SlotFor(s)'
                    /\ Routed(s)' /\ rx' \notin {"ended", "crashed"} /\ ~PushesTo(s)' =>
                         sent'[s] = Published(s)'
  BY DEF NoneMissing
<1>r. Routed(s)' => Routed(s)
  BY RouteStays
<1> HIDE DEF Routed
<1>c. /\ Clean(s)
      /\ Published(s)' = Published(s) \/ RxPushed
      /\ RxPushed /\ pushTo["rx"] = s => Published(s) \in Nat
  <2>1. RxPushed /\ pushTo["rx"] = s => Published(s) \in Nat
    BY DEF ItemTypes, Published
  <2> QED
    BY <2>1, CleanStep
<1>n. /\ PushesTo(s) => sent[s] = Published(s) + 1 /\ pushWant["rx"] = SlotFor(s)
      /\ Routed(s) /\ rx \notin {"ended", "crashed"} /\ ~PushesTo(s) => sent[s] = Published(s)
  BY <1>c DEF NoneMissing, Routed
<1>p. \/ pushTo'["rx"] = pushTo["rx"] /\ pushWant'["rx"] = pushWant["rx"]
      \/ RxPushed \/ RxFails \/ RxAborts \/ \E r \in Subs : RxMessage(r)
  BY PushesStep
<1>1. CASE UNCHANGED <<rx, sent>>
  <2>1. ~RxPushed /\ ~RxFails /\ ~RxAborts
    BY <1>1 DEF RxPushed, RxFails, RxAborts, RxEnds
  <2>2. ASSUME NEW r \in Subs, RxMessage(r) PROVE FALSE
    <3>1. sent' = [sent EXCEPT ![r] = @ + 1] /\ sent \in [Subs -> Nat]
      BY <2>2 DEF RxMessage, ItemTypes
    <3>2. sent'[r] = sent[r] + 1 /\ sent[r] \in Nat
      BY <3>1
    <3> QED
      BY <1>1, <3>2
  <2>3. pushTo'["rx"] = pushTo["rx"] /\ pushWant'["rx"] = pushWant["rx"]
    BY <1>p, <2>1, <2>2
  <2>4. Published(s)' = Published(s)
    BY <1>c, <2>1
  <2>5. SlotFor(s)' = SlotFor(s) /\ (PushesTo(s)' <=> PushesTo(s))
    BY <1>1, <2>3, <2>4 DEF SlotFor, PushesTo
  <2> QED
    BY <1>1, <1>n, <1>r, <2>3, <2>4, <2>5
<1>2. CASE UNCHANGED sent /\ rx \in {"off", "read", "pong"} /\ rx' # "push"
  <2>1. ~PushesTo(s) /\ ~PushesTo(s)'
    BY <1>2 DEF PushesTo
  <2>2. Published(s)' = Published(s)
    BY <1>c, <1>2 DEF RxPushed
  <2> QED
    BY <1>2, <1>n, <1>r, <2>1, <2>2
<1>3. CASE UNCHANGED sent /\ rx' = "ended"
  BY <1>3 DEF PushesTo
<1>4. CASE RxPushed
  <2>1. rx = "push" /\ rx' \in {"read", "crashed"} /\ UNCHANGED sent
    BY <1>4 DEF RxPushed, server, executor
  <2>2. ~PushesTo(s)'
    BY <2>1 DEF PushesTo
  <2>3. CASE pushTo["rx"] = s
    <3>1. PushesTo(s)
      BY <2>1, <2>3 DEF PushesTo
    <3>2. CASE Published(s)' = Published(s) + 1
      BY <1>n, <2>1, <2>2, <3>1, <3>2
    <3>3. CASE items'[s] = items[s]
      <4>1. items' = [items EXCEPT ![s] = Append(@, sent[s])] /\ sent[s] \in 0 .. Sends[s]
        BY <1>4, <2>3, Constants DEF RxPushed, Granted, ItemTypes
      <4>2. Published(s)' = Published(s) + 1
        BY <4>1, ItemAppended
      <4> QED
        BY <3>2, <4>2
    <3> QED
      BY <3>2, <3>3, CleanStep
  <2>4. CASE pushTo["rx"] # s
    <3>1. Published(s)' = Published(s)
      BY <2>4, CleanStep
    <3>2. ~PushesTo(s)
      BY <2>4 DEF PushesTo
    <3> QED
      BY <1>n, <1>r, <2>1, <2>2, <3>1, <3>2
  <2> QED
    BY <2>3, <2>4
<1>5. ASSUME NEW r \in Subs, RxMessage(r)
      PROVE  /\ PushesTo(s)' =>
                  sent'[s] = Published(s)' + 1 /\ pushWant'["rx"] = SlotFor(s)'
             /\ Routed(s)' /\ rx' \notin {"ended", "crashed"} /\ ~PushesTo(s)' =>
                  sent'[s] = Published(s)'
  <2>1. /\ rx = "read" /\ r \in wrote
        /\ sent' = [sent EXCEPT ![r] = @ + 1]
        /\ UNCHANGED <<items, subscribes, wrote>>
        /\ \/ r \in subscribes /\ rx' = "push" /\ StartPush("rx", r)
           \/ r \notin subscribes /\ rx' = "read"
    BY <1>5 DEF RxMessage, queues, routes
  <2>2. ~PushesTo(s) /\ Published(s)' = Published(s) /\ SlotFor(s)' = SlotFor(s)
    BY <2>1 DEF PushesTo, Published, SlotFor
  <2>3. sent'[r] = sent[r] + 1 /\ (s # r => sent'[s] = sent[s])
    BY <2>1 DEF ItemTypes
  <2>4. CASE r \in subscribes
    <3>1. rx' = "push" /\ StartPush("rx", r)
      BY <2>1, <2>4
    <3>2. pushTo'["rx"] = r /\ pushWant'["rx"] = SlotFor(r)
      BY <3>1 DEF StartPush, PushTypes, Pushers
    <3>3. CASE s = r
      <4>1. sent[s] = Published(s)
        BY <1>n, <2>1, <2>2, <2>4, <3>3 DEF Routed
      <4>2. PushesTo(s)'
        BY <3>1, <3>2, <3>3 DEF PushesTo
      <4> QED
        BY <2>2, <2>3, <3>2, <3>3, <4>1, <4>2
    <3>4. CASE s # r
      <4>1. ~PushesTo(s)'
        BY <3>2, <3>4 DEF PushesTo
      <4> QED
        BY <1>n, <1>r, <2>1, <2>2, <2>3, <3>4, <4>1
    <3> QED
      BY <3>3, <3>4
  <2>5. CASE r \notin subscribes
    <3>1. rx' = "read" /\ ~PushesTo(s)'
      BY <2>1, <2>5 DEF PushesTo
    <3>2. s = r => ~Routed(s)'
      BY <2>1, <2>5 DEF Routed
    <3> QED
      BY <1>n, <1>r, <2>1, <2>2, <2>3, <3>1, <3>2
  <2> QED
    BY <2>4, <2>5
<1> QED
  BY <1>1, <1>2, <1>3, <1>4, <1>5, RxCases DEF Routed

LEMMA InPlaceStep ==
  ASSUME PushTypes, ItemTypes, Reading, InPlace, NoneMissing, [Next]_vars
  PROVE  InPlace'
<1> USE DEF txEnds, txQueue, queues, routes, delivery, txState, rxState,
      server, results, ends, groups, executor, readers
<1> DEFINE Goal(s) == /\ \A n \in 1 .. Published(s) : items[s][n] = n
                      /\ got[s] = at[s] - 1
                      /\ Published(s) <= consumed[s] + SubSize
<1> SUFFICES ASSUME NEW s \in Subs, Clean(s)'
             PROVE  Goal(s)'
  BY DEF InPlace
<1>1. /\ Clean(s)
      /\ \/ items'[s] = items[s] /\ Published(s)' = Published(s)
         \/ /\ RxPushed /\ pushTo["rx"] = s
            /\ Published(s) \in Nat /\ Published(s)' = Published(s) + 1
            /\ items'[s][Published(s) + 1] = sent[s]
            /\ \A n \in 1 .. Published(s) : items'[s][n] = items[s][n]
  BY CleanStep
<1>2. /\ \A n \in 1 .. Published(s) : items[s][n] = n
      /\ got[s] = at[s] - 1
      /\ Published(s) <= consumed[s] + SubSize
  BY <1>1 DEF InPlace
<1>3. /\ consumed[s] \in Nat /\ readEnd[s] \in Nat /\ at[s] \in Nat /\ got[s] \in Nat
      /\ Published(s) \in Nat /\ SubSize \in Nat /\ readEnd[s] <= Published(s)
  BY Constants DEF ItemTypes, Published
<1>f. /\ consumed \in [Subs -> Nat] /\ at \in [Subs -> Nat] /\ got \in [Subs -> Nat]
  BY DEF ItemTypes
\* The items are in their places.
<1>4. \A n \in 1 .. Published(s)' : items'[s][n] = n
  <2>1. CASE items'[s] = items[s] /\ Published(s)' = Published(s)
    BY <1>2, <2>1
  <2>2. CASE RxPushed /\ pushTo["rx"] = s
    <3>1. sent[s] = Published(s) + 1
      BY <1>1, <2>2 DEF NoneMissing, PushesTo, RxPushed
    <3>2. \/ items'[s] = items[s] /\ Published(s)' = Published(s)
          \/ /\ Published(s)' = Published(s) + 1
             /\ items'[s][Published(s) + 1] = Published(s) + 1
             /\ \A n \in 1 .. Published(s) : items'[s][n] = n
      BY <1>1, <1>2, <3>1
    <3>3. \A n \in 1 .. Published(s) + 1 : n \in 1 .. Published(s) \/ n = Published(s) + 1
      BY <1>3
    <3> QED
      BY <1>2, <3>2, <3>3
  <2> QED
    BY <1>1, <2>1, <2>2
\* What the reader gives back it has passed.
<1>5. CASE UNCHANGED <<consumed, at, got>>
  <2>1. CASE Published(s)' = Published(s)
    BY <1>2, <1>4, <1>5, <2>1
  <2>2. CASE RxPushed /\ pushTo["rx"] = s /\ Published(s)' = Published(s) + 1
    <3>1. pushWant["rx"] = Published(s) + 1 - SubSize
      BY <1>1, <2>2 DEF NoneMissing, PushesTo, RxPushed, SlotFor
    <3>2. pushWant["rx"] <= consumed[s]
      BY <2>2 DEF RxPushed, Granted
    <3>3. Published(s)' <= consumed[s] + SubSize
      BY <1>3, <2>2, <3>1, <3>2
    <3> QED
      BY <1>2, <1>4, <1>5, <3>3
  <2> QED
    BY <1>1, <2>1, <2>2
<1>6. ASSUME NEW r \in Subs, ReadItem(r) PROVE Goal(s)'
  <2>1. /\ reader[r] \in {"ready", "read"} /\ at[r] <= readEnd[r]
        /\ got' = [got EXCEPT ![r] = Slot(r, at[r])] /\ at' = [at EXCEPT ![r] = @ + 1]
        /\ consumed' = [consumed EXCEPT ![r] = readEnd[r]] \/ consumed' = consumed
        /\ items' = items
    BY <1>6 DEF ReadItem, GiveBack
  <2>2. CASE r = s
    <3>1. consumed[s] <= readEnd[s] /\ consumed[s] < at[s]
      BY <2>1, <2>2 DEF Reading
    <3>2. at[s] \in 1 .. Published(s) /\ at[s] > Published(s) - SubSize
      BY <1>2, <1>3, <2>1, <2>2, <3>1
    <3>3. Slot(s, at[s]) = at[s]
      <4>1. PICK k \in 1 .. Published(s) :
              Slot(s, at[s]) = items[s][k] /\ (at[s] > Published(s) - SubSize => k = at[s])
        BY <3>2, SlotHolds
      <4>2. k = at[s]
        BY <3>2, <4>1
      <4> QED
        BY <1>2, <3>2, <4>1, <4>2
    <3>4. got'[s] = at[s] /\ at'[s] = at[s] + 1
      BY <1>f, <2>1, <2>2, <3>3
    <3>5. consumed'[s] >= consumed[s] /\ consumed'[s] \in Nat
      BY <1>3, <1>f, <2>1, <2>2, <3>1
    <3>6. Published(s)' = Published(s)
      BY <2>1 DEF Published
    <3>7. got'[s] = at'[s] - 1
      BY <1>3, <3>4
    <3>8. Published(s)' <= consumed'[s] + SubSize
      BY <1>2, <1>3, <3>5, <3>6
    <3> QED
      BY <1>4, <3>7, <3>8
  <2>3. CASE r # s
    <3>1. got'[s] = got[s] /\ at'[s] = at[s] /\ consumed'[s] = consumed[s]
      BY <1>f, <2>1, <2>3
    <3>2. Published(s)' = Published(s)
      BY <2>1 DEF Published
    <3> QED
      BY <1>2, <1>4, <3>1, <3>2
  <2> QED
    BY <2>2, <2>3
<1>7. ASSUME NEW r \in Subs, Consume(r) PROVE Goal(s)'
  <2>1. /\ reader[r] = "ready" /\ consumed' = [consumed EXCEPT ![r] = readEnd[r]]
        /\ UNCHANGED <<items, at, got>>
    BY <1>7 DEF Consume, GiveBack
  <2>2. r = s => consumed[s] <= readEnd[s]
    BY <2>1 DEF Reading
  <2>3. consumed'[s] >= consumed[s] /\ consumed'[s] \in Nat
    <3>1. (r = s => consumed'[s] = readEnd[s]) /\ (r # s => consumed'[s] = consumed[s])
      BY <1>f, <2>1
    <3> QED
      BY <1>3, <2>2, <3>1
  <2>4. Published(s)' = Published(s)
    BY <2>1 DEF Published
  <2>5. Published(s)' <= consumed'[s] + SubSize
    BY <1>2, <1>3, <2>3, <2>4
  <2> QED
    BY <1>2, <1>4, <2>1, <2>5
<1>8. ASSUME NEW r \in Subs, Get(r) PROVE Goal(s)'
  BY <1>5, <1>8 DEF Get
<1>9. ASSUME NEW r \in Subs, Drop(r) PROVE Goal(s)'
  <2>1. /\ at' = [at EXCEPT ![r] = 1] /\ got' = [got EXCEPT ![r] = 0]
        /\ UNCHANGED <<items, consumed>>
    BY <1>9 DEF Drop, uncancelled
  <2>2. got'[s] = at'[s] - 1
    <3>1. (r = s => at'[s] = 1 /\ got'[s] = 0)
          /\ (r # s => at'[s] = at[s] /\ got'[s] = got[s])
      BY <1>f, <2>1
    <3> QED
      BY <1>2, <3>1
  <2>3. Published(s)' = Published(s)
    BY <2>1 DEF Published
  <2> QED
    BY <1>2, <1>4, <2>1, <2>2, <2>3
<1>10. ASSUME NEW t \in {"tx", "run"}, EofPushed(t) PROVE Goal(s)'
  BY <1>5, <1>10 DEF EofPushed
<1>11. CASE RxPushed
  BY <1>5, <1>11 DEF RxPushed
<1>12. ASSUME NEW r \in Subs, RxMessage(r) PROVE Goal(s)'
  BY <1>5, <1>12 DEF RxMessage
<1> HIDE DEF Goal
<1> QED
  BY <1>5, <1>6, <1>7, <1>8, <1>9, <1>10, <1>11, <1>12, DeliveryCases

(***************************************************************************)
(* Type correctness                                                        *)
(***************************************************************************)
Flags == isShutdown \in BOOLEAN /\ isStopping \in BOOLEAN

Closed ==
  /\ txShut \in BOOLEAN /\ shut \in [Subs -> BOOLEAN]
  /\ isCancelled \in [Pushers -> BOOLEAN]

Places ==
  /\ rx \in {"off", "read", "push", "pong", "ended", "crashed"}
  /\ rxError \in {"none", "net", "aborted"}
  /\ first \in {"none", "rx", "event"} /\ order \in {"none", "rx", "tx"}
  /\ wrap \in {"on", "ok", "threw"} /\ txEnd \in {"on", "ok", "threw"}
  /\ run \in {"off", "on", "eof", "ok", "threw"}

RunTypes == Flags /\ Closed /\ Places

LEMMA RunTypesStart == Init => RunTypes
<1> SUFFICES ASSUME Init PROVE RunTypes
  OBVIOUS
<1>1. Flags
  BY DEF Init, Flags
<1>2. Closed
  BY DEF Init, Closed
<1>3. Places
  BY DEF Init, Places
<1> QED
  BY <1>1, <1>2, <1>3 DEF RunTypes

LEMMA FlagsStep == Flags /\ [Next]_vars => Flags'
<1> SUFFICES ASSUME Flags, [Next]_vars PROVE Flags'
  OBVIOUS
<1> USE DEF Flags, txEnds, txQueue, queues, routes, pushes, delivery, txState, rxState,
      server, results, ends, groups, executor, readers
<1>1. ASSUME NEW m \in TxMessages, Call(m) \/ Claim(m) \/ PushDone(m) \/ PushFailed(m)
      PROVE  Flags'
  BY <1>1 DEF Call, Claim, PushDone, PushFailed
<1>2. ASSUME NEW s \in Subs, CallUnsub(s) \/ ReadItem(s) \/ Consume(s) \/ Get(s) \/ Drop(s)
      PROVE  Flags'
  BY <1>2 DEF CallUnsub, ReadItem, Consume, Get, Drop, uncancelled
<1>3. CASE Shutdown
  BY <1>3 DEF Shutdown
<1>4. CASE TxGet \/ TxConsume \/ TxThrows
  BY <1>4 DEF TxGet, TxConsume, TxThrows, TxEnds
<1>5. ASSUME NEW m \in TxMessages, TxSend(m) \/ TxWritten(m) \/ TxSent(m) PROVE Flags'
  BY <1>5 DEF TxSend, TxWritten, TxSent
<1>6. CASE RxStep \/ RxFails
  BY <1>6 DEF RxStep, RxPushed, RxPonged, RxAborts, RxFails, RxEnds
<1>7. ASSUME NEW s \in Subs, RxMessage(s) PROVE Flags'
  BY <1>7 DEF RxMessage
<1>8. ASSUME NEW i \in Pings, RxPing(i) PROVE Flags'
  BY <1>8 DEF RxPing
<1>9. CASE RunStep \/ CancelRun \/ Run
  BY <1>9 DEF RunStep, EventFirst, WrapEnds, TxEnded, RunClose, RunEnds, Run, CancelRun,
       uncancelled
<1>10. CASE EofPushed("tx") \/ EofPushed("run")
  BY <1>10 DEF EofPushed
<1>11. CASE UNCHANGED vars
  BY <1>11 DEF vars
<1>12. CASE UserCancels
  BY <1>12, UserCancelsLeave DEF uncancelled
<1> QED
  BY <1>1, <1>2, <1>3, <1>4, <1>5, <1>6, <1>7, <1>8, <1>9, <1>10, <1>11, <1>12
     DEF Next, Executor, Subscriber, Server, User, TxStep, UserCancels

LEMMA ClosedStep == Closed /\ [Next]_vars => Closed'
<1> SUFFICES ASSUME Closed, [Next]_vars PROVE Closed'
  OBVIOUS
<1> USE DEF Closed, txEnds, txQueue, queues, routes, pushes, delivery, txState, rxState,
      server, results, ends, groups, executor, readers
<1> DEFINE Same == UNCHANGED <<txShut, shut, isCancelled>>
<1>c. \A s : CloseQueue(s) => shut' \in [Subs -> BOOLEAN]
  BY DEF CloseQueue
<1>1. ASSUME NEW m \in TxMessages, Call(m) \/ Claim(m) \/ PushDone(m) \/ PushFailed(m)
      PROVE  Same
  BY <1>1 DEF Call, Claim, PushDone, PushFailed
<1>2. ASSUME NEW s \in Subs, CallUnsub(s) \/ ReadItem(s) \/ Consume(s) \/ Get(s)
      PROVE  Same
  BY <1>2 DEF CallUnsub, ReadItem, Consume, Get
<1>3. ASSUME Shutdown PROVE Same
  BY <1>3 DEF Shutdown
<1>4. ASSUME NEW m \in TxMessages, TxSend(m) \/ TxWritten(m) \/ TxSent(m) PROVE Same
  BY <1>4 DEF TxSend, TxWritten, TxSent
<1>5. CASE TxGet \/ TxConsume \/ TxThrows
  <2>1. (txShut' = txShut \/ txShut' = TRUE) /\ UNCHANGED <<shut, isCancelled>>
    BY <1>5 DEF TxGet, TxConsume, TxThrows, TxEnds
  <2> QED
    BY <2>1
<1>6. ASSUME RxStep \/ RxFails PROVE Same
  BY <1>6 DEF RxStep, RxPushed, RxPonged, RxAborts, RxFails, RxEnds
<1>7. ASSUME NEW s \in Subs, RxMessage(s) PROVE Same
  BY <1>7 DEF RxMessage
<1>8. ASSUME NEW i \in Pings, RxPing(i) PROVE Same
  BY <1>8 DEF RxPing
<1>9. CASE EventFirst \/ WrapEnds \/ TxEnded \/ CancelRun
  <2>1. \/ UNCHANGED isCancelled
        \/ \E t \in Pushers : isCancelled' = [isCancelled EXCEPT ![t] = TRUE]
    BY <1>9 DEF EventFirst, WrapEnds, TxEnded, CancelRun, CancelRx, CancelTx, Pushers
  <2>2. \/ UNCHANGED txShut
        \/ txShut' = (txShut \/ rx = "pong")
        \/ txShut' = (txShut \/ tx = "get")
    BY <1>9 DEF EventFirst, WrapEnds, TxEnded, CancelRun, CancelRx, CancelTx
  <2>3. UNCHANGED shut \/ \E s : CloseQueue(s)
    BY <1>9 DEF EventFirst, WrapEnds, TxEnded, CancelRun, CancelRx, CancelTx
  <2>4. isCancelled' \in [Pushers -> BOOLEAN]
    BY <2>1
  <2>5. txShut' \in BOOLEAN
    BY <2>2
  <2>6. shut' \in [Subs -> BOOLEAN]
    BY <1>c, <2>3
  <2> QED
    BY <2>4, <2>5, <2>6
<1>10. ASSUME RunClose \/ RunEnds \/ Run PROVE Same
  BY <1>10 DEF RunClose, RunEnds, Run
<1>11. ASSUME EofPushed("tx") \/ EofPushed("run") PROVE Same
  BY <1>11 DEF EofPushed
<1>12. ASSUME NEW s \in Subs, Drop(s) PROVE Closed'
  <2>1. CloseQueue(s) /\ UNCHANGED <<txShut, isCancelled>>
    BY <1>12 DEF Drop
  <2> QED
    BY <1>c, <2>1
<1>13. ASSUME UNCHANGED vars PROVE Same
  BY <1>13 DEF vars
<1>14. Same => Closed'
  OBVIOUS
<1>15. CASE UserCancels
  <2>1. CASE \E m \in TxMessages : CancelPush(m)
    BY <2>1 DEF CancelPush
  <2>2. CASE \E s \in Subs : CancelGet(s)
    BY <1>c, <2>2 DEF CancelGet
  <2> QED
    BY <1>15, <2>1, <2>2 DEF UserCancels
<1> HIDE DEF Same, Closed
<1> QED
  BY <1>1, <1>2, <1>3, <1>4, <1>5, <1>6, <1>7, <1>8, <1>9, <1>10, <1>11, <1>12, <1>13, <1>14, <1>15
     DEF Next, Executor, Subscriber, Server, User, TxStep, RunStep, UserCancels

LEMMA PlacesStep == Places /\ [Next]_vars => Places'
<1> SUFFICES ASSUME Places, [Next]_vars PROVE Places'
  OBVIOUS
<1> USE DEF Places, txEnds, txQueue, queues, routes, pushes, delivery, txState, rxState,
      server, results, ends, groups, executor, readers
<1> DEFINE Same == UNCHANGED <<rx, rxError, first, order, wrap, txEnd, run>>
<1>1. ASSUME NEW m \in TxMessages, Call(m) \/ Claim(m) \/ PushDone(m) \/ PushFailed(m)
      PROVE  Same
  BY <1>1 DEF Call, Claim, PushDone, PushFailed
<1>2. ASSUME NEW s \in Subs, CallUnsub(s) \/ ReadItem(s) \/ Consume(s) \/ Get(s) \/ Drop(s)
      PROVE  Same
  BY <1>2 DEF CallUnsub, ReadItem, Consume, Get, Drop, uncancelled
<1>3. ASSUME Shutdown PROVE Same
  BY <1>3 DEF Shutdown
<1>4. ASSUME TxStep PROVE Same
  BY <1>4 DEF TxStep, TxGet, TxConsume, TxThrows, TxEnds, TxSend, TxWritten, TxSent
<1>5. CASE RxStep \/ RxFails
  BY <1>5 DEF RxStep, RxPushed, RxPonged, RxAborts, RxFails, RxEnds
<1>6. ASSUME NEW s \in Subs, RxMessage(s) PROVE Places'
  BY <1>6 DEF RxMessage
<1>7. ASSUME NEW i \in Pings, RxPing(i) PROVE Places'
  BY <1>7 DEF RxPing
<1>8. CASE EventFirst \/ WrapEnds \/ TxEnded \/ CancelRun
  BY <1>8 DEF EventFirst, WrapEnds, TxEnded, CancelRun, EndsFirst, uncancelled
<1>9. CASE RunClose \/ RunEnds \/ Run
  BY <1>9 DEF RunClose, RunEnds, Run
<1>10. ASSUME EofPushed("tx") \/ EofPushed("run") PROVE Same
  BY <1>10 DEF EofPushed
<1>11. ASSUME UNCHANGED vars PROVE Same
  BY <1>11 DEF vars
<1>12. Same => Places'
  OBVIOUS
<1>13. ASSUME UserCancels PROVE Same
  BY <1>13, UserCancelsLeave DEF uncancelled
<1> HIDE DEF Same, Places
<1> QED
  BY <1>1, <1>2, <1>3, <1>4, <1>5, <1>6, <1>7, <1>8, <1>9, <1>10, <1>11, <1>12, <1>13
     DEF Next, Executor, Subscriber, Server, User, RunStep, UserCancels

(***************************************************************************)
(* The theorems                                                            *)
(***************************************************************************)
\* The inductive invariant.
IInv ==
  /\ QueueOrder /\ RunIdle /\ TxOrder
  /\ PushTypes /\ ItemTypes /\ RunTypes
  /\ Reading /\ InPlace /\ NoneMissing

LEMMA IInvStart == Init => IInv
<1> SUFFICES ASSUME Init PROVE IInv
  OBVIOUS
<1>1. RunIdle
  BY DEF Init, RunIdle
<1> QED
  BY <1>1, QueueStart, TxStart, ItemStart, RunTypesStart, ReadingStart, NumberedStart
     DEF IInv

LEMMA IInvStep == IInv /\ [Next]_vars => IInv'
<1> SUFFICES ASSUME IInv, [Next]_vars PROVE IInv'
  OBVIOUS
<1> USE DEF IInv
<1>1. QueueOrder' /\ RunIdle'
  BY QueueStep, RunIdleStep
<1>2. TxOrder'
  BY TxStepOrder
<1>3. PushTypes' /\ ItemTypes'
  BY PushesStep, ItemsStep
<1>4. RunTypes'
  BY FlagsStep, ClosedStep, PlacesStep DEF RunTypes
<1>5. Reading'
  BY ReadingStep
<1>6. InPlace' /\ NoneMissing'
  BY InPlaceStep, NoneMissingStep
<1> QED
  BY <1>1, <1>2, <1>3, <1>4, <1>5, <1>6

LEMMA Invariant == Spec => []IInv
  BY IInvStart, IInvStep, PTL DEF Spec

LEMMA Elementwise ==
  ASSUME NEW S, NEW T, NEW q \in Seq(S), \A n \in 1 .. Len(q) : q[n] \in T
  PROVE  q \in Seq(T)
OBVIOUS

LEMMA ItemsAreSent ==
  ASSUME ItemTypes, NEW s \in Subs
  PROVE  items[s] \in Seq(0 .. Sends[s])
<1>1. items[s] \in Seq(Nat) /\ Sends[s] \in Nat /\ Published(s) = Len(items[s])
  BY Constants DEF ItemTypes, Published
<1>2. \A n \in 1 .. Len(items[s]) : items[s][n] \in Nat
  BY <1>1, Elements
<1>3. \A n \in 1 .. Len(items[s]) : items[s][n] <= Sends[s]
  BY <1>1 DEF ItemTypes
<1>4. \A n \in 1 .. Len(items[s]) : items[s][n] \in 0 .. Sends[s]
  BY <1>1, <1>2, <1>3
<1> QED
  BY <1>1, <1>4, Elementwise

\* TypeOK: every variable stays in its type, whoever runs, fails or is
\* cancelled.
THEOREM TypeCorrect == Spec => []TypeOK
<1>1. IInv => TypeOK
  <2> SUFFICES ASSUME IInv PROVE TypeOK
    OBVIOUS
  <2>1. QueueTypes /\ TxTypes /\ PushTypes /\ ItemTypes /\ Flags /\ Closed /\ Places
    BY DEF IInv, QueueOrder, TxOrder, RunTypes
  <2>2. ASSUME NEW s \in Subs
        PROVE  /\ sent[s] \in 0 .. Sends[s]
               /\ items[s] \in Seq(0 .. Sends[s])
               /\ consumed[s] \in 0 .. Published(s)
    <3>1. /\ sent[s] \in Nat /\ sent[s] <= Sends[s] /\ Sends[s] \in Nat
          /\ consumed[s] \in Nat /\ consumed[s] <= Published(s) /\ Published(s) \in Nat
      BY <2>1, Constants DEF ItemTypes, Published
    <3> QED
      BY <2>1, <3>1, ItemsAreSent
  <2>3. reader \in [Subs ->
          {"none", "ready", "read", "get", "ended", "threw", "dropped"}]
    BY <2>1 DEF ItemTypes, ReaderStates
  <2>4. readEnd \in [Subs -> Nat] /\ at \in [Subs -> Nat] /\ got \in [Subs -> Nat]
    BY <2>1 DEF ItemTypes
  <2>5. /\ txTaken \in 0 .. Len(txq) /\ txConsumed \in 0 .. txTaken
        /\ txAt \in 0 .. txTaken + 1
        /\ tx \in {"off", "get", "next", "write", "eof", "throw", "ok", "threw"}
        /\ subscribes \subseteq Subs /\ freed \subseteq Subs /\ wrote \subseteq Subs
    BY <2>1 DEF TxTypes
  <2> QED
    BY <2>1, <2>2, <2>3, <2>4, <2>5
       DEF TypeOK, QueueTypes, PushTypes, Flags, Closed, Places
<1> QED
  BY <1>1, Invariant, PTL

\* AssertsHold: when tx() comes to a SUB its id is not in _subscribes, and when
\* it has written an UNSUB its subscription is: the assertions of the messages'
\* callbacks hold, for any callers and any order of their pushes.
THEOREM CallbacksAssert == Spec => []AssertsHold
<1>1. IInv => AssertsHold
  <2> SUFFICES ASSUME IInv PROVE AssertsHold
    OBVIOUS
  <2>0. /\ TxTypes /\ RegisteredBySub /\ RemovedByUnsub /\ UnsubAfterSub
        /\ \A k, n \in 1 .. Len(txq) : txq[k] = txq[n] => k = n
        /\ Len(txq) \in Nat /\ txTaken \in Nat /\ txTaken <= Len(txq) /\ txAt \in Nat
    BY DEF IInv, TxOrder, QueueOrder, QueueTypes, ClaimedOnce, TxTypes
  <2>1. ASSUME NEW s \in Subs, tx = "next", txAt <= txTaken, txq[txAt] = Sub(s),
               s \in subscribes
        PROVE  FALSE
    <3>1. txAt \in 1 .. Len(txq)
      BY <2>0, <2>1 DEF TxTypes
    <3>2. PICK n \in 1 .. Len(txq) : txq[n] = Sub(s) /\ n < txAt
      BY <2>0, <2>1 DEF RegisteredBySub
    <3>3. n = txAt
      BY <2>0, <2>1, <3>1, <3>2
    <3> QED
      BY <3>1, <3>2, <3>3
  <2>2. ASSUME NEW s \in Subs, tx = "write", txq[txAt] = Unsub(s) PROVE s \in subscribes
    <3>1. txAt \in 1 .. Len(txq)
      BY <2>0, <2>2 DEF TxTypes
    <3>2. PICK n \in 1 .. txAt - 1 : txq[n] = Sub(s)
      BY <2>0, <2>2, <3>1 DEF UnsubAfterSub
    <3>3. n \in 1 .. Len(txq) /\ n < txAt
      BY <3>1, <3>2
    <3>4. ASSUME NEW k \in 1 .. Len(txq), txq[k] = Unsub(s), k < txAt PROVE FALSE
      <4>1. k = txAt
        BY <2>0, <2>2, <3>1, <3>4
      <4> QED
        BY <3>1, <3>4, <4>1
    <3> QED
      BY <2>0, <2>2, <3>2, <3>3, <3>4 DEF RemovedByUnsub
  <2> QED
    BY <2>1, <2>2 DEF AssertsHold
<1> QED
  BY <1>1, Invariant, PTL

\* KnownIsRouted: a subscription that the server knows of is in _subscribes
\* until tx() has come to its UNSUB; what the server sends for it is not lost
\* between the two.
THEOREM KnownAreRouted == Spec => []KnownIsRouted
<1>1. IInv => KnownIsRouted
  <2> SUFFICES ASSUME IInv, NEW s \in wrote, s \notin subscribes
               PROVE  \E n \in 1 .. txAt : n <= Len(txq) /\ txq[n] = Unsub(s)
    BY DEF KnownIsRouted
  <2>1. /\ TxTypes /\ WrittenBySub /\ RemovedByUnsub
        /\ s \in Subs /\ txAt \in Nat /\ Len(txq) \in Nat
    BY DEF IInv, TxOrder, TxTypes, QueueOrder, QueueTypes
  <2>2. PICK n \in 1 .. Len(txq) : txq[n] = Sub(s) /\ n < txAt
    BY <2>1 DEF WrittenBySub
  <2>3. PICK k \in 1 .. Len(txq) : txq[k] = Unsub(s) /\ k <= txAt
    <3>1. PICK k \in 1 .. Len(txq) :
            txq[k] = Unsub(s) /\ (k < txAt \/ (k = txAt /\ tx = "eof"))
      BY <2>1, <2>2 DEF RemovedByUnsub
    <3> QED
      BY <2>1, <3>1
  <2>4. k \in 1 .. txAt /\ k <= Len(txq)
    BY <2>1, <2>3
  <2> QED
    BY <2>3, <2>4
<1> QED
  BY <1>1, Invariant, PTL

\* DeliveredInOrder: as long as nobody has pushed EOF to a subscription, its
\* reader has got the messages that the server sent, from the first on, each
\* once and in order, and rx() has overwritten none that it had not read;
\* whoever else pushes, fails, is cancelled or destroyed.
THEOREM DeliversInOrder == Spec => []DeliveredInOrder
<1>1. IInv => DeliveredInOrder
  BY DEF IInv, InPlace, Clean, DeliveredInOrder
<1> QED
  BY <1>1, Invariant, PTL
=============================================================================
