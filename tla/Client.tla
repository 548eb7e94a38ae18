------------------------------- MODULE Client -------------------------------
(***************************************************************************)
(* src/nats_coro.cpp, src/subscribe.cpp and the queues of include/queue.h  *)
(* between them: the NATS client.                                          *)
(*                                                                         *)
(*   callers --push--> [tx queue] --> tx() --> socket --> server           *)
(*   server --> socket --> rx() --push--> [queue of s] --> subscription s  *)
(*                                                                         *)
(* rx(), tx() and run() are coroutines of the connection's executor, which *)
(* one thread runs: what one of them does between two suspensions is one   *)
(* step.  Callers and subscriptions run on any thread.                     *)
(*                                                                         *)
(* A tx queue has many producers; its messages stand in the order in which *)
(* their pushes claimed a number, and tx() sees the prefix that is         *)
(* published.  A subscription's queue is made for one producer, but rx(),  *)
(* tx() and run() all push on it.  A wait in a queue is answered as in     *)
(* PublishedUpTo: granted when its number is there, refused when the queue *)
(* was closed, either when both hold.                                      *)
(***************************************************************************)
EXTENDS Integers, SequencesExt

CONSTANTS
  Subs,         \* the subscriptions that are made
  Leavers,      \* those whose user lets go of the Unsub in the end
  Pubs,         \* the messages that are published
  Pings,        \* the PINGs that the server sends
  TxSize,       \* slots of the tx queue (64 in the code)
  SubSize,      \* slots of a subscription's queue (64 in the code)
  Sends,        \* how many messages the server sends to each subscription
  MayFail,      \* whether the connection may fail
  Cancellable,  \* the pushes and the gets that users may cancel
  None

ASSUME SizesAssumption ==
  TxSize \in Nat \ {0} /\ SubSize \in Nat \ {0} /\ Sends \in [Subs -> Nat]
ASSUME NoneAssumption == None \notin Subs
ASSUME EnvironmentAssumption == Leavers \subseteq Subs /\ MayFail \in BOOLEAN

\* What the tx queue carries.
Sub(s) == <<"SUB", s>>
Unsub(s) == <<"UNSUB", s>>
Pub(p) == <<"PUB", p>>
Pong(i) == <<"PONG", i>>
Stop == <<"STOP", None>>    \* the shutdown message, which has no content

TxMessages ==
  {Sub(s) : s \in Subs} \cup {Unsub(s) : s \in Subs} \cup {Pub(p) : p \in Pubs}
    \cup {Pong(i) : i \in Pings} \cup {Stop}

\* A get is named after its subscription.  The push of a PONG has no user.
ASSUME CancellableAssumption ==
  Cancellable \subseteq (TxMessages \ {Pong(i) : i \in Pings}) \cup Subs

Eof == 0                    \* IClient::eof; messages are numbered from 1
Pushers == {"rx", "tx", "run"}

VARIABLES
  push,         \* where the push of each tx message is
  txq,          \* the tx queue's messages in claim order, claimed or published
  txTaken,      \* its _nextToRead: end of the range that tx() works on
  txConsumed,   \* its _readBarrier
  txShut,       \* it is closed
  items,        \* what was published to each subscription's queue
  consumed,     \* its _readBarrier
  shut,         \* it is closed
  subscribes,   \* the keys of _subscribes
  freed,        \* subscriptions whose node of the map is destroyed
  pushTo,       \* the subscription that each pusher is pushing to
  pushWant,     \* the number it waits for in the queue's _readBarrier
  todo,         \* subscriptions it has yet to push EOF to
  isShutdown,   \* _isShutdown, and _shutdownEvent
  tx,           \* where tx() is
  txAt,         \* the number of the message it handles
  isStopping,
  rx,           \* where rx() is
  rxError,      \* what rx() ended with
  sent,         \* how many messages the server sent to each subscription
  wrote,        \* subscriptions the server knows of
  isCancelled,  \* which of rx(), tx() and run() were cancelled
  first,        \* which of "rx" and "event" ended first in rxWrap()
  wrap, txEnd,  \* "on", then "ok" or "threw": rxWrap() and tx() for run()
  order,        \* which of them ended first
  run,          \* where run() is
  reader,       \* where the subscription's coroutine is
  readEnd,      \* the end of the range it reads
  at, got       \* the number it reads next, and what it read last

txEnds == <<txTaken, txConsumed, txShut>>
txQueue == <<push, txq, txEnds>>
queues == <<items, consumed, shut>>
routes == <<subscribes, freed>>
pushes == <<pushTo, pushWant, todo>>
delivery == <<queues, routes, pushes>>
txState == <<tx, txAt, isStopping>>
rxState == <<rx, rxError>>
server == <<sent, wrote>>
results == <<first, wrap, txEnd, order>>
ends == <<results, run>>
groups == <<isShutdown, isCancelled, ends>>
executor == <<txState, rxState, server, groups>>
readers == <<reader, readEnd, at, got>>
vars == <<txQueue, delivery, executor, readers>>

\* What a cancellation leaves alone.
uncancelled == <<push, txq, txTaken, txConsumed, items, consumed, routes,
                 pushes, txState, rxState, server, isShutdown>>

Init ==
  /\ push = [m \in TxMessages |-> "none"]
  /\ txq = <<>> /\ txTaken = 0 /\ txConsumed = 0 /\ txShut = FALSE
  /\ items = [s \in Subs |-> <<>>]
  /\ consumed = [s \in Subs |-> 0]
  /\ shut = [s \in Subs |-> FALSE]
  /\ subscribes = {} /\ freed = {}
  /\ pushTo = [t \in Pushers |-> None]
  /\ pushWant = [t \in Pushers |-> 0]
  /\ todo = [t \in Pushers |-> {}]
  /\ isShutdown = FALSE
  /\ tx = "off" /\ txAt = 0 /\ isStopping = FALSE
  /\ rx = "off" /\ rxError = "none"
  /\ sent = [s \in Subs |-> 0]
  /\ wrote = {}
  /\ isCancelled = [t \in Pushers |-> FALSE]
  /\ first = "none" /\ wrap = "on" /\ txEnd = "on" /\ order = "none"
  /\ run = "off"
  /\ reader = [s \in Subs |-> "none"]
  /\ readEnd = [s \in Subs |-> 0]
  /\ at = [s \in Subs |-> 1]
  /\ got = [s \in Subs |-> 0]

(***************************************************************************)
(* A subscription's queue                                                  *)
(***************************************************************************)
Published(s) == Len(items[s])

\* What stands in the slot of number n: the last item written there.
Slot(s, n) ==
  items[s][CHOOSE k \in 1 .. Published(s) :
             k % SubSize = n % SubSize /\ k > Published(s) - SubSize]

\* Mutation: it does not wait for the slot to be read.
SlotForEarly(s) == Published(s) - SubSize

\* claim_one() waits for the slot of the number that is next when it is called.
SlotFor(s) == Published(s) + 1 - SubSize

\* t calls queue.push() of subscription s.
StartPush(t, s) ==
  /\ pushTo' = [pushTo EXCEPT ![t] = s]
  /\ pushWant' = [pushWant EXCEPT ![t] = SlotFor(s)]

EndPush(t) ==
  /\ pushTo' = [pushTo EXCEPT ![t] = None]
  /\ pushWant' = [pushWant EXCEPT ![t] = 0]

\* The claim of t is granted: it takes the next number, writes and publishes.
Granted(t, item) ==
  /\ pushTo[t] # None
  /\ pushWant[t] <= consumed[pushTo[t]]
  /\ items' = [items EXCEPT ![pushTo[t]] = Append(@, item)]

Refused(t) == pushTo[t] # None /\ shut[pushTo[t]] /\ UNCHANGED items

\* Mutation: the end of the range, not its last number.
GiveBackEnd(s, n) == consumed' = [consumed EXCEPT ![s] = n + 1]

\* QueueState::consume(): the reader gives the slots up to n back.
GiveBack(s, n) == consumed' = [consumed EXCEPT ![s] = n]

\* QueueState::close()
CloseQueue(s) == shut' = [shut EXCEPT ![s] = TRUE]

(***************************************************************************)
(* The tx queue                                                            *)
(***************************************************************************)
Goto(m, st) == push' = [push EXCEPT ![m] = st]

\* publish() and subscribe() test _isShutdown before they push.
Call(m) ==
  /\ m \in {Sub(s) : s \in Subs} \cup {Pub(p) : p \in Pubs}
  /\ push[m] = "none"
  /\ Goto(m, IF isShutdown THEN "rejected" ELSE "called")
  /\ UNCHANGED <<txq, txEnds, delivery, executor, readers>>

\* push() of m: claim_one() takes a number at once, its slot free or not.
ClaimFor(m) == Goto(m, "claimed") /\ txq' = Append(txq, m)

Claim(m) ==
  /\ push[m] = "called"
  /\ ClaimFor(m)
  /\ UNCHANGED <<txEnds, delivery, executor, readers>>

\* Mutation: it does not wait for the push of the SUB.
CallUnsubAtOnce(s) ==
  /\ push[Sub(s)] # "none" /\ s \in Leavers
  /\ push[Unsub(s)] = "none"
  /\ ClaimFor(Unsub(s))
  /\ UNCHANGED <<txEnds, delivery, executor, readers>>

\* Unsub(), or the destructor of Unsub::Impl: of an Unsub that subscribe()
\* returned, or that it destroyed when its own push threw.
CallUnsub(s) ==
  /\ push[Sub(s)] = "failed" \/ (push[Sub(s)] = "done" /\ s \in Leavers)
  /\ push[Unsub(s)] = "none"
  /\ ClaimFor(Unsub(s))
  /\ UNCHANGED <<txEnds, delivery, executor, readers>>

Number(m) == CHOOSE n \in DOMAIN txq : txq[n] = m

\* What subscribe() does next: it returns the coroutine, or destroys it.
Subscribed(m, st) ==
  reader' = [s \in Subs |-> IF m = Sub(s) THEN st ELSE reader[s]]

\* The slot is free: the message is written and published.
PushDone(m) ==
  /\ push[m] = "claimed"
  /\ Number(m) - TxSize <= txConsumed
  /\ Goto(m, "done")
  /\ Subscribed(m, "ready")
  /\ UNCHANGED <<txq, txEnds, delivery, executor, readEnd, at, got>>

\* The queue is closed: the push throws and leaves a hole in the queue.
PushFailed(m) ==
  /\ push[m] = "claimed"
  /\ txShut
  /\ Goto(m, "failed")
  /\ Subscribed(m, "dropped")
  /\ UNCHANGED <<txq, txEnds, delivery, executor, readEnd, at, got>>

\* The user cancels the coroutine that pushes m: claim_one()'s handler, which
\* stays in its slot when the push is over, closes the queue for everybody.
CancelPush(m) ==
  /\ m \in Cancellable
  /\ push[m] \in {"claimed", "done"} /\ ~txShut
  /\ txShut' = TRUE
  /\ UNCHANGED <<uncancelled, shut, isCancelled, ends, readers>>

\* last_published_after(): the numbers before the first that is not published.
TxPublished ==
  CHOOSE n \in 0 .. Len(txq) :
    /\ \A k \in 1 .. n : push[txq[k]] = "done"
    /\ n < Len(txq) => push[txq[n + 1]] # "done"

\* The first half of shutdown(), called by a user or spawned by the handler that
\* run() has for its cancellation; its push is the Claim that follows.
Shutdown ==
  /\ ~isShutdown
  /\ isShutdown' = TRUE
  /\ Goto(Stop, "called")
  /\ UNCHANGED <<txq, txEnds, delivery, txState, rxState, server, isCancelled,
                 ends, readers>>

(***************************************************************************)
(* Cancellation                                                            *)
(***************************************************************************)
\* Mutation: the signal is lost.
CancelRxLost == UNCHANGED <<isCancelled, shut, txShut>>

\* A cancelled rx() wakes from a read; the wait of a push closes its queue.
CancelRx ==
  /\ isCancelled' = [isCancelled EXCEPT !["rx"] = TRUE]
  /\ IF rx = "push" THEN CloseQueue(pushTo["rx"]) ELSE UNCHANGED shut
  /\ txShut' = (txShut \/ rx = "pong")

\* Likewise tx(): it wakes from a write, its get() closes the tx queue, the
\* push of an EOF the subscription's.
CancelTx ==
  /\ isCancelled' = [isCancelled EXCEPT !["tx"] = TRUE]
  /\ IF pushTo["tx"] # None THEN CloseQueue(pushTo["tx"]) ELSE UNCHANGED shut
  /\ txShut' = (txShut \/ tx = "get")

(***************************************************************************)
(* Pushing EOF, one subscription after the other (tx() and run())          *)
(***************************************************************************)
\* Mutation: no EOF.
PushEofNone(t, S) == UNCHANGED pushes

\* t pushes EOF to one of S and has the others left; cancelled, it throws at
\* every co_await, catches that, and leaves them all without EOF.
PushEof(t, S) ==
  IF S = {} \/ isCancelled[t]
  THEN EndPush(t) /\ todo' = [todo EXCEPT ![t] = {}]
  ELSE \E s \in S : StartPush(t, s) /\ todo' = [todo EXCEPT ![t] = S \ {s}]

\* Pushed; or the queue is closed, and the exception is caught.
EofPushed(t) ==
  /\ t \in {"tx", "run"}
  /\ Granted(t, Eof) \/ Refused(t)
  /\ PushEof(t, todo[t])
  /\ UNCHANGED <<txQueue, consumed, shut, routes, executor, readers>>

(***************************************************************************)
(* tx()                                                                    *)
(***************************************************************************)
\* get() returns the range of all that is published.
TxGet ==
  /\ tx = "get"
  /\ TxPublished > txTaken
  /\ txTaken' = TxPublished
  /\ tx' = "next"
  /\ UNCHANGED <<push, txq, txConsumed, txShut, delivery, txAt, isStopping,
                 rxState, server, groups, readers>>

\* Mutation: no callback runs before the message is sent.
RegisteredNever(m) == subscribes

\* before_send()
Registered(m) == subscribes \cup {s \in Subs : m = Sub(s)}

\* The next message of the range: it is written, or it is the shutdown message
\* and after_send() pushes EOF to every subscription; cancelled, tx() throws.
TxSend(m) ==
  /\ tx = "next" /\ txAt <= txTaken /\ m = txq[txAt]
  /\ subscribes' = Registered(m)
  /\ \/ /\ m # Stop
        /\ tx' = "write"
        /\ UNCHANGED <<isStopping, pushes>>
     \/ /\ m = Stop
        /\ isStopping' = TRUE
        /\ tx' = IF isCancelled["tx"] THEN "throw" ELSE "eof"
        /\ PushEof("tx", subscribes)
  /\ UNCHANGED <<txQueue, queues, freed, txAt, rxState, server, groups,
                 readers>>

\* The message is written and the server learns of a subscription.  Most
\* messages have no after_send(); that of an UNSUB extracts the node of the map
\* and pushes EOF.
TxWritten(m) ==
  /\ tx = "write" /\ ~isCancelled["tx"] /\ m = txq[txAt]
  /\ wrote' = wrote \cup {s \in Subs : m = Sub(s)}
  /\ subscribes' = subscribes \ {s \in Subs : m = Unsub(s)}
  /\ PushEof("tx", {s \in Subs : m = Unsub(s)})
  /\ IF \E s \in Subs : m = Unsub(s)
     THEN tx' = "eof" /\ UNCHANGED txAt
     ELSE tx' = "next" /\ txAt' = txAt + 1
  /\ UNCHANGED <<txQueue, queues, freed, isStopping, rxState, sent, groups,
                 readers>>

\* after_send() is over; the node of an UNSUB dies with its frame.
TxSent(m) ==
  /\ tx = "eof" /\ pushTo["tx"] = None /\ m = txq[txAt]
  /\ freed' = freed \cup {s \in Subs : m = Unsub(s)}
  /\ txAt' = txAt + 1
  /\ tx' = "next"
  /\ UNCHANGED <<txQueue, queues, subscribes, pushes, isStopping, rxState,
                 server, groups, readers>>

\* tx() ends: the queue's head dies with its frame and closes the queue.
TxEnds(how) ==
  /\ tx' = how
  /\ txShut' = TRUE
  /\ UNCHANGED <<push, txq, txTaken, delivery, txAt, isStopping, rxState,
                 server, groups, readers>>

\* consume(range): done, or another round.
TxConsume ==
  /\ tx = "next" /\ txAt > txTaken
  /\ txConsumed' = txTaken
  /\ IF isStopping /\ subscribes = {}
     THEN TxEnds("ok")
     ELSE /\ tx' = "get"
          /\ UNCHANGED <<push, txq, txTaken, txShut, delivery, txAt, isStopping,
                         rxState, server, groups, readers>>

\* The write fails, or a co_await of the cancelled tx() throws.
TxThrows ==
  /\ \/ tx = "throw"
     \/ tx = "write" /\ (MayFail \/ isCancelled["tx"])
     \/ tx = "get" /\ (isCancelled["tx"] \/ txShut)
  /\ TxEnds("threw")
  /\ UNCHANGED txConsumed

(***************************************************************************)
(* rx() and pong()                                                         *)
(***************************************************************************)
\* A message for a subscription that is in _subscribes is pushed on its queue,
\* for any other it is dropped.  The server may send to a subscription for as
\* long as it likes: what it sent before it handled the UNSUB may come late.
RxMessage(s) ==
  /\ rx = "read" /\ ~isCancelled["rx"]
  /\ s \in wrote /\ sent[s] < Sends[s]
  /\ sent' = [sent EXCEPT ![s] = @ + 1]
  /\ IF s \in subscribes
     THEN rx' = "push" /\ StartPush("rx", s)
     ELSE UNCHANGED <<rx, pushTo, pushWant>>
  /\ UNCHANGED <<txQueue, queues, routes, todo, txState, rxError, wrote, groups,
                 readers>>

\* The push goes through.  When tx() has meanwhile destroyed the node of the
\* map, the tail it goes through is gone: it works none the less, or crashes.
RxPushed ==
  /\ rx = "push"
  /\ Granted("rx", sent[pushTo["rx"]])
  /\ rx' \in {"read"} \cup (IF pushTo["rx"] \in freed THEN {"crashed"} ELSE {})
  /\ EndPush("rx")
  /\ UNCHANGED <<txQueue, consumed, shut, routes, todo, txState, rxError,
                 server, groups, readers>>

RxPing(i) ==
  /\ rx = "read" /\ ~isCancelled["rx"]
  /\ push[Pong(i)] = "none"
  /\ rx' = "pong"
  /\ ClaimFor(Pong(i))
  /\ UNCHANGED <<txEnds, delivery, txState, rxError, server, groups, readers>>

RxPonged ==
  /\ rx = "pong" /\ \A i \in Pings : push[Pong(i)] \in {"none", "done"}
  /\ rx' = "read"
  /\ UNCHANGED <<txQueue, delivery, txState, rxError, server, groups, readers>>

\* rx() throws; rxWrap() notes whether that was the first thing to happen.
RxEnds(error) ==
  /\ rx' = "ended"
  /\ rxError' = error
  /\ first' = IF first = "none" THEN "rx" ELSE first
  /\ EndPush("rx")
  /\ UNCHANGED <<txQueue, queues, routes, todo, txState, server, isShutdown,
                 isCancelled, wrap, txEnd, order, run, readers>>

\* The connection fails, or the server sends -ERR.
RxFails == MayFail /\ rx = "read" /\ RxEnds("net")

\* rx() is cancelled, or a push threw: no handler in rx() catches it.
RxAborts ==
  /\ \/ rx = "read" /\ isCancelled["rx"]
     \/ rx = "push" /\ Refused("rx")
     \/ rx = "pong" /\ \E i \in Pings : push[Pong(i)] = "failed"
  /\ RxEnds("aborted")

(***************************************************************************)
(* run()                                                                   *)
(***************************************************************************)
Run ==
  /\ run = "off"
  /\ run' = "on" /\ rx' = "read" /\ tx' = "get" /\ txAt' = 1
  /\ UNCHANGED <<txQueue, delivery, isStopping, rxError, server, isShutdown,
                 isCancelled, results, readers>>

\* In rxWrap() the wait for _shutdownEvent ends first and cancels rx(): there is
\* a shutdown, or both of them were cancelled.
EventFirst ==
  /\ run = "on" /\ first = "none"
  /\ isShutdown \/ isCancelled["rx"]
  /\ first' = "event"
  /\ CancelRx
  /\ UNCHANGED <<uncancelled, wrap, txEnd, order, run, readers>>

\* The first of rxWrap() and tx() that ends with an error cancels the other.
EndsFirst(t) == order' = IF order = "none" THEN t ELSE order

WrapEnds ==
  /\ wrap = "on" /\ rx = "ended"
  /\ wrap' = IF first = "rx" THEN "threw" ELSE "ok"
  /\ EndsFirst("rx")
  /\ IF first = "rx" /\ txEnd = "on" THEN CancelTx
     ELSE UNCHANGED <<isCancelled, shut, txShut>>
  /\ UNCHANGED <<uncancelled, first, txEnd, run, readers>>

\* The signal cancels both of rxWrap()'s operations, if both are still running;
\* either may end first.
TxEnded ==
  /\ txEnd = "on" /\ tx \in {"ok", "threw"}
  /\ txEnd' = tx
  /\ EndsFirst("tx")
  /\ IF tx = "threw" /\ first = "none" THEN CancelRx
     ELSE UNCHANGED <<isCancelled, shut, txShut>>
  /\ UNCHANGED <<uncancelled, first, wrap, run, readers>>

\* Both have ended: the socket is closed, EOF goes to who is still subscribed.
\* If run() has been cancelled, which called shutdown(), its first co_await and
\* all others throw; only now does it matter whether it was.
RunClose ==
  /\ run = "on" /\ wrap # "on" /\ txEnd # "on"
  /\ run' = "eof"
  /\ \/ PushEof("run", subscribes)
     \/ isShutdown /\ UNCHANGED pushes
  /\ UNCHANGED <<txQueue, queues, routes, txState, rxState, server, isShutdown,
                 isCancelled, results, readers>>

\* run() is cancelled while it pushes: like any push this closes the queue.
CancelRun ==
  /\ run = "eof" /\ ~isCancelled["run"] /\ pushTo["run"] # None
  /\ isCancelled' = [isCancelled EXCEPT !["run"] = TRUE]
  /\ CloseQueue(pushTo["run"])
  /\ UNCHANGED <<uncancelled, txShut, ends, readers>>

\* It throws what the one that ended first threw.
RunEnds ==
  /\ run = "eof" /\ pushTo["run"] = None
  /\ run' = IF "threw" = (IF order = "rx" THEN wrap ELSE txEnd)
            THEN "threw" ELSE "ok"
  /\ UNCHANGED <<txQueue, delivery, txState, rxState, server, isShutdown,
                 isCancelled, results, readers>>

(***************************************************************************)
(* subscription()                                                          *)
(***************************************************************************)
\* Resumed by its user, or with a new range, it reads a message and yields it,
\* or it reads EOF and ends.
ReadItem(s) ==
  /\ reader[s] \in {"ready", "read"} /\ at[s] <= readEnd[s]
  /\ got' = [got EXCEPT ![s] = Slot(s, at[s])]
  /\ at' = [at EXCEPT ![s] = @ + 1]
  /\ IF got'[s] = Eof
     THEN /\ reader' = [reader EXCEPT ![s] = "ended"]
          /\ GiveBack(s, readEnd[s])
     ELSE /\ reader' = [reader EXCEPT ![s] = "ready"]
          /\ UNCHANGED consumed
  /\ UNCHANGED <<txQueue, items, shut, routes, pushes, executor, readEnd>>

\* The range is read: consume(), and wait for the next one.
Consume(s) ==
  /\ reader[s] = "ready" /\ at[s] > readEnd[s]
  /\ reader' = [reader EXCEPT ![s] = "get"]
  /\ GiveBack(s, readEnd[s])
  /\ UNCHANGED <<txQueue, items, shut, routes, pushes, executor, readEnd, at,
                 got>>

Get(s) ==
  /\ reader[s] = "get"
  /\ \/ /\ Published(s) > readEnd[s]
        /\ readEnd' = [readEnd EXCEPT ![s] = Published(s)]
        /\ reader' = [reader EXCEPT ![s] = "read"]
     \/ /\ shut[s]
        /\ reader' = [reader EXCEPT ![s] = "threw"]
        /\ UNCHANGED readEnd
  /\ UNCHANGED <<txQueue, delivery, executor, at, got>>

\* The user cancels the wait for the next message: get()'s handler closes the
\* queue.
CancelGet(s) ==
  /\ s \in Cancellable
  /\ reader[s] = "get" /\ ~shut[s]
  /\ CloseQueue(s)
  /\ UNCHANGED <<uncancelled, txShut, isCancelled, ends, readers>>

\* The user destroys the coroutine: the queue's head closes the queue.
Drop(s) ==
  /\ reader[s] \in {"ready", "ended", "threw"}
  /\ reader' = [reader EXCEPT ![s] = "dropped"]
  /\ CloseQueue(s)
  /\ readEnd' = [readEnd EXCEPT ![s] = 0]
  /\ at' = [at EXCEPT ![s] = 1]
  /\ got' = [got EXCEPT ![s] = 0]
  /\ UNCHANGED <<uncancelled, txShut, isCancelled, ends>>

(***************************************************************************)
(* The specification                                                       *)
(***************************************************************************)
TxStep ==
  \/ TxGet \/ TxConsume \/ TxThrows
  \/ \E m \in TxMessages : TxSend(m) \/ TxWritten(m) \/ TxSent(m)

RxStep == RxPushed \/ RxPonged \/ RxAborts

RunStep == EventFirst \/ WrapEnds \/ TxEnded \/ RunClose \/ RunEnds

\* What the executors run when it is ready; the server takes what is written.
Executor ==
  \/ TxStep \/ RxStep \/ RunStep \/ EofPushed("tx") \/ EofPushed("run")
  \/ \E m \in TxMessages : Claim(m) \/ PushDone(m) \/ PushFailed(m)

\* What the user of a subscription cannot put off for ever: he either goes on
\* reading or destroys it, and lets go of its Unsub.
Subscriber ==
  \E s \in Subs :
    ReadItem(s) \/ Consume(s) \/ Get(s) \/ Drop(s) \/ CallUnsub(s)

Server == \/ RxFails
          \/ \E i \in Pings : RxPing(i)
          \/ \E s \in Subs : RxMessage(s)

User ==
  \/ Run \/ Shutdown \/ CancelRun
  \/ \E m \in TxMessages : Call(m) \/ CancelPush(m)
  \/ \E s \in Subs : CancelGet(s)

Next == Executor \/ Subscriber \/ Server \/ User

\* Nobody has to subscribe, to send, to fail, to cancel or to shut down.
Fairness == WF_vars(Executor \/ Subscriber)

Spec == Init /\ [][Next]_vars /\ Fairness

(***************************************************************************)
(* Correctness                                                             *)
(***************************************************************************)
TypeOK ==
  /\ push \in [TxMessages ->
                {"none", "rejected", "called", "claimed", "done", "failed"}]
  /\ txq \in Seq(TxMessages)
  /\ txTaken \in 0 .. Len(txq) /\ txConsumed \in 0 .. txTaken
  /\ txShut \in BOOLEAN
  /\ \A s \in Subs : /\ sent[s] \in 0 .. Sends[s]
                      /\ items[s] \in Seq(0 .. Sends[s])
                      /\ consumed[s] \in 0 .. Published(s)
  /\ shut \in [Subs -> BOOLEAN]
  /\ subscribes \subseteq Subs /\ freed \subseteq Subs /\ wrote \subseteq Subs
  /\ pushTo \in [Pushers -> Subs \cup {None}] /\ pushWant \in [Pushers -> Int]
  /\ todo \in [Pushers -> SUBSET Subs]
  /\ isShutdown \in BOOLEAN /\ isStopping \in BOOLEAN
  /\ tx \in {"off", "get", "next", "write", "eof", "throw", "ok", "threw"}
  /\ txAt \in 0 .. txTaken + 1
  /\ rx \in {"off", "read", "push", "pong", "ended", "crashed"}
  /\ rxError \in {"none", "net", "aborted"}
  /\ isCancelled \in [Pushers -> BOOLEAN]
  /\ first \in {"none", "rx", "event"} /\ order \in {"none", "rx", "tx"}
  /\ wrap \in {"on", "ok", "threw"} /\ txEnd \in {"on", "ok", "threw"}
  /\ run \in {"off", "on", "eof", "ok", "threw"}
  /\ reader \in [Subs ->
       {"none", "ready", "read", "get", "ended", "threw", "dropped"}]
  /\ readEnd \in [Subs -> Nat] /\ at \in [Subs -> Nat] /\ got \in [Subs -> Nat]

\* The assertions of the callbacks that tx() runs: a SUB finds its id unused,
\* an UNSUB finds its subscription, whoever pushed them and in whatever order.
AssertsHold ==
  \A s \in Subs :
    /\ tx = "next" /\ txAt <= txTaken /\ txq[txAt] = Sub(s)
         => s \notin subscribes
    /\ tx = "write" /\ txq[txAt] = Unsub(s) => s \in subscribes

\* Until the UNSUB is written there is a route for what the server sends.
KnownIsRouted ==
  \A s \in wrote :
    s \in subscribes \/ \E n \in 1 .. txAt : n <= Len(txq) /\ txq[n] = Unsub(s)

\* Until somebody pushes EOF, a subscription yields what the server sent to it
\* from the first message on, each once and in order, and rx() does not
\* overwrite what was not read.
DeliveredInOrder ==
  \A s \in Subs :
    ~Contains(items[s], Eof) =>
      got[s] = at[s] - 1 /\ Published(s) <= consumed[s] + SubSize

\* shutdown() ends run(), whatever rx() and tx() are doing then: for as long as
\* the subscriptions are read or dropped and in the end unsubscribed.
ShutdownEndsRun ==
  (run = "on" /\ isShutdown /\ Leavers = Subs)
    ~> (run \in {"ok", "threw"} \/ rx = "crashed")

\* A subscription whose UNSUB was handled comes to an end for its reader.
UnsubscribedEnds ==
  \A s \in Subs :
    (s \in freed /\ reader[s] # "none")
      ~> (reader[s] \in {"ended", "threw", "dropped"} \/ rx = "crashed")

\* nats_coro.cpp:254: rx() ends before the shutdown event with a network error
\* only.
RxFirstIsNet == first = "rx" => rxError = "net"

\* test/test_nats_coro.cpp:505 (shutdown/eof_sub): after shutdown() a
\* subscription yields EOF; while the connection lives and nobody cancels
\* anything else it does not throw.
ShutdownYieldsEof ==
  ~MayFail /\ Cancellable = {} => \A s \in Subs : reader[s] # "threw"
=============================================================================
