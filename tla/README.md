# boost_asio_awaitable_ext in TLA+

This directory models the library from the bottom up - the one-shot event, the
lock-free barrier, the two sequencers of a ring buffer, the queue over them and
the NATS client that is built on the queues - checks the models with TLC and
proves the main theorems about them with TLAPS. Paths are relative to the
repository; line numbers are those of the files next to this directory.

    tlc -workers 2 -config MCSequenceBarrierClosing.cfg MCSequenceBarrier.tla
    tlapm SequenceBarrierProofs.tla

## 1. The system

The library adds synchronisation primitives to `boost::asio::awaitable`
coroutines, after cppcoro, and builds a small NATS client on them. Coroutines
run on the threads of an executor; a `co_await` may move a coroutine from one
thread to another, and everything marked *lock-free* below is called from
several threads at once.

| Component | State | Operations | Used by |
|---|---|---|---|
| `SequenceTraits` (`include/sequence_traits.h`) | none | `difference`, `precedes` on unsigned numbers that wrap | everything below |
| `Event` (`include/event.h`), lock-free | `_state`, `_handler` | `wait`, `set`, `cancel` | every awaiter, the client's shutdown |
| `SequenceBarrier` (`include/sequence_barrier.h`), lock-free | `_lastPublished`, list `_awaiters`, `_isClosed`; one `Awaiter` (target, result, event, next) in the frame of each waiting coroutine | `wait_until_published`, `publish`, `close`, `last_published` | sequencers, queues |
| `SequenceRange` (`include/sequence_range.h`) | a pair of numbers | `front`, `back`, `skip`, iteration | sequencers, queues |
| `SingleProducerSequencer` | `_nextToClaim`, its own barrier, a reference to the consumers' | `claim_one`, `claim_up_to`, `publish`, `wait_until_published`, `close` | the single-producer queue |
| `MultiProducerSequencer`, lock-free | `_nextToClaim`, slots `_published`, list `_awaiters`, `_isClosed`, a reference to the consumers' barrier | the same, and `any_available`, `last_published_after` | the multi-producer queue |
| `SequenceBarrierGroup` | references to barriers | `wait_until_published` (all of them), `close` | a sequencer with several consumers |
| Queue (`include/queue.h`) | buffer, `_readBarrier`, a sequencer, `_nextToRead` | tail: `push`; head: `get`, `operator[]`, `consume`, `close` | the client |
| `Client` (`src/nats_coro.cpp`) | socket, transmit queue, map `_subscribes` of queues, `_isShutdown`, `_shutdownEvent` | `publish`, `subscribe`, unsubscribe, `run` (with `rx` and `tx`), `shutdown` | applications |
| `subscription` (`src/subscribe.cpp`) | a queue head | generator of messages up to EOF | applications |
| Message parsing (`src/message.cpp`), `received` (`include/received.h`) | none, a byte count | parse a control line; when is a message complete | `rx` |
| `connect_to_nats`, `schedule`, concepts | none | handshake, an `asio::post`, compile-time tests | applications |

How they interact. A waiting coroutine puts an awaiter, which lives in its own
frame, on a shared list, suspends in `Event::wait`, and is resumed by whichever
thread takes the list and calls `Event::set` or `Event::cancel`: a publisher, a
thread that closes, or another waiter that helps. A producer claims a number
when the consumers' barrier has come within one buffer of it, writes the slot,
and publishes the number on the sequencer's side; a consumer waits on that side
and publishes what it has read on its own barrier. Two counters chase each
other around a ring and nothing else keeps the two ends out of each other's
slots. Cancelling any of these waits closes the whole thing: the cancellation
handler of a wait is `close()`.

What is hard here:

* **Interleaving.** Three atomics of a barrier, read one after the other by
  threads that each hold part of the list. A wakeup is lost if a test and a
  push fall on the wrong sides of each other.
* **Ordering.** Producers publish out of order, ranges are published back to
  front, and a number counts only when all before it are there.
* **Stale state.** A thread decides with a `lastKnownPublished` it read before
  it pushed, or that another thread wrote into an awaiter.
* **Ownership.** The list is linked through frames that disappear as soon as
  their event is set.
* **Numbers.** They wrap, start at -1, and share slots with the numbers one
  buffer away; ranges may be empty; types may be narrower than `int`.
* **Partial failure.** Cancelling one wait ends those of everybody else; a
  claim that throws has already taken its number.
* In the client: one queue pushed from three coroutines, references held across
  a suspension, and a transmit loop that waits on a subscriber's full queue.

What makes each component correct:

* *Event*: it is decided once; the waiter learns the decision, once, through a
  handler that is assigned by then.
* *Barrier*: no awaiter in two lists, none dropped, none touched once signalled;
  no lost wakeup; a wait returns a published number not before its target, and
  throws only if closed; every wait that can end does.
* *Sequencers*: nobody writes a slot somebody may read or write; a number is
  seen only with all before it; no lost wakeup; claims and waits end.
* *Queue*: a bounded first-in first-out queue.
* *Client*: every subscriber reads the messages of its subject in order and then
  EOF; `shutdown` ends `run`; the bytes of the connection are cut into the
  messages that were sent.

## 2. The modules and the code

| Module | Models |
|---|---|
| `SequenceTraits` | `include/sequence_traits.h` |
| `Event`, abstract `OneShot` | `include/event.h` |
| `SequenceBarrier`, abstract `PublishedUpTo` | `include/sequence_barrier.h` |
| `MultiProducerSequencer`, abstract `PublishedUpTo` again | `include/multi_producer_sequencer.h` |
| `SingleProducerSequencer`, abstract `BoundedQueue` | `include/single_producer_sequencer.h`, `include/queue.h` |
| `SequenceBarrierGroup`, abstract `PublishedUpTo` again | `include/sequence_barrier_group.h` |
| `Framing` | the reading half of `rx` in `src/nats_coro.cpp`, `src/message.cpp`, `include/received.h` |
| `Client` | `src/nats_coro.cpp`, `src/subscribe.cpp`, the queues between them |
| `MC...` and `.cfg` | small instances |
| `SequenceTraitsProofs`, `EventProofs`, `SequenceBarrierProofs`, `SequenceBarrierGroupProofs`, `SingleProducerSequencerProofs`, `MultiProducerSequencerProofs`, `FramingProofs`, `ClientProofs` | theorems |

The modules form a chain in which each refined specification is the next one's
building block: the barrier uses events as `OneShot` describes them (a variable
with three values: the first signal wins and the waiter resumes when there is
one), `SequenceBarrier` implements `PublishedUpTo`, and
`SingleProducerSequencer` contains two instances of `PublishedUpTo` - the
consumer's barrier, on which the producer waits, and the producer's, on which
the consumer waits. `SequenceBarrierGroup` is built of `PublishedUpTo` barriers
and is one again, and the queues of `Client` answer as `PublishedUpTo` does.

**One step is one atomic access.** In `Event`, `SequenceBarrier` and
`MultiProducerSequencer` each action contains one access of a shared atomic and
the computation on local variables and owned awaiters up to the next. `pc[t]`
is where thread t is inside the call, named for what it does next; the local
variables have names of their own (`seen` is `lastKnownPublished`, `goal` is
`targetSequence` or `earliestTargetSequence`, `requeue`/`held` and `ready` are
the local lists). A `compare_exchange` loop that pushes is one step, that of the
exchange that succeeds: the failed attempts change nothing shared.

**Sequential consistency.** The models interleave. The code orders what matters
with `memory_order_seq_cst`: a waiter pushes and then reads the number, a
publisher stores the number and then exchanges the list, and the first of the
two in the single order of these operations is seen by the other; the same
holds for `_isClosed`. The relaxed and acquire accesses left either follow a
seq_cst one on the same thread's path to data it then owns (the exchanges that
take the list), or are covered by a later seq_cst look (the scan of
`last_published_after`, which line 381 repeats), or are published by one that
follows (the tail of a range, line 284, before its first number). Reordering
that the memory model allows beyond this is not modelled.

**Lists are sets.** The order of a list decides nothing except, in
`resume_ready_awaiters()`, whose `lastKnownPublished` a scan starts from (line
324, the head of the list); the model starts from that of any member, which
includes every order the list can have. Resuming or cancelling the members of a
list is one step per member, in any order.

**Numbers are unwrapped.** A variable holds the integer a number stands for;
what the code computes with it goes through `Difference`, `Precedes` and `Wrap`,
which read its residue only. That makes an answer that is right only by luck of
the wrap visible, and lets properties compare with `<`. In the slots the residue
itself is stored, as in the code. `HalfRange` (2^(w-1)) is 4 or 8 in the runs of the
barrier, the group and the sequencers, and each of them crosses the wrap: -1 as an
unsigned number of that width, the `initial_sequence` of the program, is among
the numbers and so is 0. `Event`, `Framing` and `Client` have no such numbers: the
queues of `Client` count their messages.

**Initial states and inputs** are those of the constructors. A consumer of the
barrier may wait for any number in range, again and again, before and after it
was published; the publisher publishes increasing numbers, with gaps, since that
is what its callers do (`SequenceRange::back`). In the sequencers a consumer
waits for a number after those it has read, as `QueueState::wait` and the tests
do, and reads all it is told. In the barrier and the sequencers a close may come
at any moment; it stands for the cancellation handlers as well, which do nothing
else.

**`SequenceBarrierGroup`** models the parallel group: one operation per barrier,
spawned, waiting, resumed and returned on its own; the first error cancels the
others; the result is looked at when all have ended. Cancelling a wait closes
that barrier, so one error closes every barrier that is still waited on. A
barrier that is closed after its operation has been granted is not the group's
business until the end, where `is_closed()` turns the whole result into an
exception. The wait of a member of `Cancellable` may also be cancelled from outside,
as the test `cancellation` (`test/test_sequence_barrier_group.cpp:343`) does: its
operations that wait close their barriers, and those that have not begun fail
without closing any. That is the only way to lines 68 to 77 (the rethrowing of the
operations' exceptions with no barrier closed), and the only step in which the
group is not one barrier (`Abandon`). The program's sequencers never get there:
they await the group in a coroutine with an empty cancellation slot. In
`MultiProducerSequencer` a wait of a claim on the group is one step, the guard
of `Granted`; with one consumer the group is the plain barrier of the queue.

**Queues.** `SingleProducerSequencer` models `push` and `get`/`operator[]`/
`consume` with their items; producers may also claim several numbers at once, as
the sequencer's own tests do. A push is `Claim(1)`, `Claimed`, `Write`,
`Publish`. The number type is taken to be at least as wide as `int` (every use in
the program is `size_t`).

**`Framing`** is what `rx` does with bytes: find a line end, parse the control
line, compute how long the message is, read until the match condition says so,
cut the message out, consume it. A read brings any number of bytes, so that a
line, a CRLF or a payload may be cut anywhere and several messages may come at
once. A word of a control line, the blanks between two words, CR, LF and a piece
of a payload are one symbol each, so that `Fields` takes every other symbol up to
the first CR. Payloads are any sequences of `PayloadBytes`; in the run they include
CRLF, a line that looks like a control line and nothing at all. `Encode` and
`EncodeLast`, the bytes of the last n frames, are the server's side and external.

**`Client`** models `rx`, `tx`, `run`, `publish`, `subscribe`, the two ways to
unsubscribe, `shutdown`, the cancellation of `run` and of what users wait for, and
the subscriptions.

* `rx`, `tx` and `run` run on the executor of the connection, which is taken to
  be run by one thread: what one of them does between two suspensions is one
  step. The code does not see to that (section 6). Callers, whose pushes are
  several steps, and subscriptions run anywhere.
* The transmit queue is its list of messages in the order of their claims
  (`txq`), a state for each push, and what `tx` has taken and given back. A push
  that fails leaves a hole that ends what `tx` can see, as in
  `MultiProducerSequencer`.
* The queue of a subscription is all that was pushed on it (`items`), what its
  reader has given back, and whether it is closed; `Slot` reads the item that
  really stands in a slot, so that overwriting is seen. `pushWant` is the number
  `claim_one` computed when it was called (`_nextToClaim` at
  `include/single_producer_sequencer.h:74`), which is another's by the time the
  push goes on if two coroutines push on the queue at once. Every push suspends,
  whether there is room or not, because `claim_one` spawns a coroutine to wait.
* A cancelled push or `get` closes its queue; a cancelled read or write throws.
  Which pushes and gets their users may cancel is the constant `Cancellable`; a
  push may be cancelled when it is over, too, since the handler stays in the
  slot of the user's coroutine until something else is awaited.
* A parallel group cancels the other operation once and then waits for it. When
  `tx` fails, `rx` and the wait for `_shutdownEvent` are both cancelled, and either
  of them may be the first to end in `rxWrap`.
* The node of the map of a subscription dies with the frame of the UNSUB's
  callback. If `rx` is in a push through it then (line 335), that is undefined:
  in the model it works or `rx` ends in "crashed". What the others may still do
  then makes no difference: liveness properties say "or it has crashed", and the
  safety properties hold either way.
* A subscription whose `subscribe` threw is dropped at once and its UNSUB is
  pushed by the destructor of `Unsub::Impl`, as in the code.

## 3. What is checked

All runs finish within the limits of two workers; sizes are distinct states.

| Run | Instance | States | Shows |
|---|---|---|---|
| `event` | the whole event | 186 | types, handler ready, assertions, resumed once, refines `OneShot` with its liveness |
| `barrier_closing` | 2 consumers, publisher, 1 closer, numbers 7..9 of 3 bits | 445 000 | all the safety properties of the barrier; refines `PublishedUpTo`, liveness included |
| `sequencer_queue` | 2 producers, 1 consumer, 1 closer, 2 slots, numbers 16..18 of 4 bits | 963 000 | awaiters kept, slots, numbers seen in order, no lost wakeup |
| `sequencer_contract` | the same with 1 slot, 16..17 | 68 000 | claims end; refines `PublishedUpTo`, liveness included |
| `queue_single_producer` | 2 slots, 2 items, 1 closer, 8..12 of 3 bits | 45 000 | order of the counters, exclusive slots, refines `BoundedQueue`, waits end |
| `group` | 2 barriers, 2 consumers, one of them cancellable, numbers 7..8 of 3 bits | 115 000 | the group is one barrier as far as the slowest; its waits end |
| `framing` | streams of up to 2 frames, 4 payloads | 13 500 | the code's assertions, messages as sent, all handled |
| `client_delivery` | 2 subscriptions, one of which leaves, queues of 1, two messages for the other; the first's unsubscription may be cancelled, no failure | 2 573 000 | callbacks in order, routes while the server sends, delivery in order |
| `client_shutdown` | 1 subscription whose `get` may be cancelled, a PING, 1 tx slot, the connection may fail | 549 000 | `run` ends after `shutdown`; what was unsubscribed ends |
| `sequencer_regress`, `client_dropped`, `client_eof` | see section 5 | | three disagreements of code and documentation |

Why the bounds are enough. The shared state of a barrier knows no more than the
relation of each awaiter's target to the published number and to the target a
thread remembers. Two consumers already give one that helps another, and one
that requeues its own awaiter together with the other's. Three numbers give
before, at and after a target. For the sequencers two producers give a hole in
the prefix, two slots a slot that is reused while a neighbour is not; one slot
makes claims wait on each other. Three numbers and more for two slots reuse one
of them, five reuse both. The proofs below remove the bounds for the modules
they cover. Two barriers give a group a slower and a faster member and an error
that must reach another operation, whose cancellation then meets the other
consumer's. Two frames give a message that ends in the middle of a read, and the
longest stream is cut in every way. In the client a queue has 1 or 2 slots
instead of 64, so that every push may have to wait; two subscriptions give the
EOF loops something to go through and a full queue that holds up another
subscription's messages, one with a PING gives `rx` both its pushes. One wait on
a queue that its user may cancel is enough, since the handlers of a queue all
close it and a closed queue stays closed: in `client_delivery` it is a push to the
transmit queue, whose callbacks that run is about, in `client_shutdown` a
subscription's `get`. (With the unsubscription cancelled instead, the properties
of `client_shutdown` hold as well; that takes 642 000 states.) A subscription has
two slots in `client_shutdown` because with one `UnsubscribedEnds` fails, for a
reason that 64 slots do not have: `rx` and EOF, waiting for one number, may be
given two (hazard at line 85 of `single_producer_sequencer.h`), and in a queue of
one slot the message then overwrites EOF itself, not an older message. What a
third subscription or a longer stream of messages would add are more of the same
waits.

What the runs do not repeat: that waits on the barrier and on the multi-producer
sequencer end, and that the published prefix only grows, are part of
`ImplementsPublishedUpTo`, whose specification has them.

The properties are aimed at the hazards of `PROJECT.json`; for each property of
a passing run a mutation of the code is listed there that breaks it. The mutated
operators stand next to the originals under a comment that begins with
"Mutation".

**Fairness.** A thread inside a call goes on (`WF` of its steps), which is what
an operating system gives a running thread; the code's loops are lock-free, and
each turn of one fails only because another thread's succeeded. The executor
resumes a coroutine whose event has completed. Nobody is obliged to call
anything: to publish, claim, read, close or wait. Hence the liveness properties
say "once the number is published, or closed". In `SingleProducerSequencer` the
fairness of an answer is that of `PublishedUpTo`, which `SequenceBarrier`
implements, liveness included.

In `Framing` the connection delivers all that was sent. In `Client` the
executors run what is ready, and the user of a subscription does not stop in the
middle: he reads on or destroys it, and lets go of its `Unsub` in the end if the
subscription is one of `Leavers`. Nobody has to subscribe, to send, to fail, to
cancel or to shut down. Every step of the bounded instance uses something up, so that a
behaviour goes on until none of these steps is possible: fairness to each of
them would ask for no more than `Fairness`, which is for all of them together.

**Deadlock** is checked except where the system stops: in `event` all three
threads return; in `framing` and the client's runs the stream ends, or `run`
returns and the subscriptions are over; `sequencer_regress` has no closer and
ends when the numbers of the bounded instance are used. In the client the
liveness properties take its place.

## 4. What is proved

For every value of the constants: any number of threads, any number type, any
size, any range of numbers, any barriers of a group, any subscriptions and
streams of messages. One module restricts some of them: the theorems of the
second half of `MultiProducerSequencerProofs` are about one consumer,
`OneConsumer`, and say so in their statements. With several, a wakeup can be lost
and an answer can come too early (section 5); the program's queues have one.

* `SequenceTraitsProofs`: `Difference` is the integer difference, and `Precedes`
  is `<`, for numbers less than half of the range apart. Everything else cites
  these two facts.
* `EventProofs`: types, `AssertsHold`, `HandlerReady`, `ResumedOnce`, and that
  every step is a step of `OneShot` or a stutter. The invariant says that `_state`
  alone tells who completes the waiter: undecided, nothing is posted and the
  waiter is where `_state` says; decided, the handler is armed until the one
  thread that won (a caller in "call", or the waiter itself) has called it.
* `SequenceBarrierProofs`: types, `OneOwner`, `ListedIsPending`, `NoneDropped`,
  `NoLostWakeup`, `AnswerIsSound`, and the steps of `PublishedUpTo`. None of the
  properties is inductive alone. The invariant has five layers, each proved from
  those before it: types; `Phases`, where each kind of thread can be and where it
  may hold awaiters; `Lists`, the three properties of ownership, which are
  inductive together once `Phases` is known; `Numbers`, what the threads remember
  (what they have seen is published, what they take for closed is, and whatever
  is in `ready` is satisfied by what its thread has seen), from which
  `AnswerIsSound` follows; and `Wakeups`, `NoLostWakeup` with the fact it rests
  on: a consumer that pushes awaiters back remembers a goal no later than any of
  their targets, and the publisher pushes back only what its number does not
  satisfy, so that whoever pushes looks for what it pushed.
* `SequenceBarrierGroupProofs`: types, `AnswersAreTrue`, and the whole of
  `ImplementsPublishedUpTo` (the group's has no liveness part). The invariant adds
  that operations exist exactly while their consumer waits. What the group
  answers is the least of the answers, each of which its own barrier had
  published, so that it is at most what the slowest has published by then; and an
  error means that a barrier is closed or that the wait was cancelled, because the
  first one comes from either and the others from the cancellation that follows
  it. That a set of
  sequence numbers has a least member rests on the library's theorem that the
  naturals are well-founded, that `min_element` with `precedes` finds it, on
  `PrecedesIsLess`.
* `SingleProducerSequencerProofs`: types, `InOrder`, `SlotsAreExclusive`, and the
  whole of `ImplementsBoundedQueue` (the queue's has no liveness part). The
  invariant relates what an end holds between two steps to the shared counters:
  during a claim, the number waited for is one buffer behind the next; between
  claim and publication the claimed range ends at `nextToClaim` and begins above
  what is published; likewise for the reader. That a number fits its slot
  (`Slot`) uses that the size divides the range of the type, and that two numbers
  less than a buffer apart have different slots is proved from it. For the queue
  it adds `BufferInv`: what was written and not given back is still in its slot,
  and the last number written is the one before the claim, or the one published.
  The queue holds the items between the two counters, so that a write is seen
  when it is published, and giving back removes what was read first.
* `MultiProducerSequencerProofs`, any threads: types and `AwaitersAreKept`. The
  type invariant needs to know that every slot always holds the residue of a
  number of its own (`SlotsHold`); ownership needs `Phases`, as the barrier does:
  where each kind of thread can be, where it may hold awaiters, and that what it
  took for closed is. A step moves awaiters between lists, hands one to its
  coroutine, or touches none, and a lemma for each of the three does the rest.
* The same module, one consumer: `SlotsAreExclusive`,
  `SeenInOrder`, `NoLostWakeup`, and the steps of `PublishedUpTo`. First that the
  published prefix is well defined and depends on the slots and on what was read
  only. Then `Claims`: claims do not overlap, what a producer publishes is within
  a buffer of what was read, what nobody claimed is not published and not read,
  and neither is the first number of a claim, because a range is published back
  to front. Hence publishing never breaks the prefix, and `SlotsAreExclusive`.
  Then `Knowledge`: what an awaiter or a thread remembers is published, and,
  which is what fails for several consumers, not before what was read, so that a
  scan never begins in slots that are used again (`Fresh`). Hence `SeenInOrder`.
  Then `Wakes`, which is `NoLostWakeup` strengthened by what a producer that scans
  again must not have fallen behind, and `Goals`, that who pushes awaiters back
  looks for the earliest of their targets.
* `FramingProofs`: types, `AssertsHold` and `MessagesAreThoseSent`, for streams of
  any length, payloads of any bytes and up to nine of them (sizes have one digit),
  and reads of any size. The invariant says that for some n the messages are those
  of the first n frames and that the buffer with what the connection still brings
  is what the other frames encode (`Handled`); that during a payload `lineSize` and
  `total` are those of frame n + 1 (`InBody`); and that the match condition is next
  called with exactly what it has not counted (`Counts`). `MessagesAreThoseSent`
  needs `InBody`, without which a message could be cut anywhere, and `InBody` needs
  that a buffer with a line end in it begins with the whole line of the next frame
  (`AtLine`): frames have one CR in their first line and end it with CRLF. Nothing
  is assumed of payloads, since what is behind the first line end is never looked
  at. A step then moves n by one or leaves it. `EncodeLast` is a recursive function;
  that there is one, and so that it unfolds as its definition says, is proved from
  the least length for which there is none. `NothingIsLeftOut` adds that nothing is
  missing when the stream or `rx` has ended.
* `ClientProofs`: types, `AssertsHold`, `KnownIsRouted` and `DeliveredInOrder`, for
  any subscriptions, `publish` calls and PINGs, any number of messages, any sizes
  of queues, whether or not the connection fails, and whatever users cancel.
  `QueueOrder` says that SUB and UNSUB are claimed once each, the UNSUB after the SUB and only when its push
  returned; `TxOrder`, that what `tx` has registered, written and removed are the
  SUBs and UNSUBs before its place in the queue. The first two theorems follow.
  For the third, a queue on which nobody has pushed EOF is pushed on by `rx` only:
  each message is at its place and nothing unread is overwritten (`InPlace`), and
  the one message that may be missing is the one `rx` is pushing, which waits for
  the very slot it will be given (`NoneMissing`). That is where `pushWant`, the
  number `claim_one` computed before it was suspended, is still right. With an
  EOF it need not be, as the property's premise says.

Assumptions (named `ASSUME`s, evaluated by every run): the sets of threads are
disjoint; the numbers in play lie within half of the range of the type (the
barrier, the group and the multi-producer sequencer), so that what happens exactly
half of the range apart, where two numbers precede each other, is not covered; the
buffer's size is positive, below half of the range and divides it (the
constructors' assertions).

`Client` assumes of its constants that the queues have room for something, that
the streams are finite, that `None` is no subscription, and that `Cancellable` are
pushes and gets of users; `Framing`, that payloads
are sequences of `PayloadBytes` whose size has one digit.

Only model-checked:

* liveness: `WaitsEnd`, `ClaimsEnd`, those of the client and of
  `Framing`, and the fairness part of `ImplementsOneShot` and of
  `ImplementsPublishedUpTo` for the barrier and the multi-producer sequencer, of
  which the theorems are about the initial states and the steps. It rests on
  `ENABLED` and fairness, which the prover does not treat;
* `MultiProducerSequencer` for several consumers, but for types and ownership.

## 5. Where the code disagrees with its documentation

1. `sequencer_regress`: with two consumers a wakeup can be lost
   (`include/multi_producer_sequencer.h:477`). Consumer A pushes its awaiter and
   learns that n is published. Consumer B, with an older `lastKnownPublished`,
   takes the list in `add_awaiter` because its own target is satisfied, finds A
   not ready, and overwrites A's number with its own older one. B then reads on
   and the slot of the number after the old one is claimed again and
   overwritten. From then on every scan that starts from A's number
   (line 324) fails at its first slot, although A's target and all before it
   are published. The comment at line 449 argues that the slots cannot advance
   that far; it does so for the target, not for the number a scan starts from.
   The program's own queues have one consumer each and are not affected, as
   `sequencer_queue` and `MultiProducerSequencerProofs` show.

   The same regress breaks `SeenInOrder` in larger instances. In
   `resume_ready_awaiters()` the list of awaiters to resume is kept from one turn
   of the loop to the next. If the scan of a later turn starts from a regressed
   number (line 324) and stops there, the awaiters that an earlier turn found
   ready are resumed with that number, which is before their targets: the
   assertion of `Awaiter::resume` (line 31) fails, and without assertions a wait
   returns a number before the one it asked for. It takes three producers, three
   consumers and four slots, which is too deep for a run. Hence `OneConsumer` in
   the theorems.
2. `client_dropped`: a user may destroy the coroutine of a subscription while
   its route still exists; its `Unsub` is handled later, behind whatever `tx` has
   to do first. The next message of the subject is pushed on a closed queue,
   the push throws `operation_aborted`, and `rx` has no handler, unlike the three
   places that push EOF (lines 164, 275 and 390, "queue back maybe destroyed").
   `rx` ends and `run` throws, although the comment at `src/nats_coro.cpp:254`
   says "rx() first only with net error". In the run the connection does not fail
   and nobody cancels anything. If `tx` fails there is another way, which `run`
   does not show its caller: `rx` and the wait for the shutdown are cancelled
   together, and `rx` may be the first to end, with `operation_aborted`.
3. `client_eof`: `shutdown` makes `rxWrap` cancel `rx`. If `rx` is in a push just
   then, the handler of `claim_one` closes that subscription's queue, and its
   reader gets an exception from its next `get()` instead of EOF, which the test
   `shutdown/eof_sub` (`test/test_nats_coro.cpp:505`) expects. Because every push
   suspends, this does not take a full queue.

Two more are read off the code and have no run, since the models assume the
first away and an operation that changes nothing is not an action:

* Line 457 of `include/multi_producer_sequencer.h` compares a slot with
  `(lastKnownPublished + 1)`. For a `TSequence` narrower than `int` - the tests
  use `uint8_t` - the sum is an `int` and does not wrap as lines 183 and 381
  make it do, so 0 is compared with 256.
* `any_available()` (line 218) is false when exactly one slot is left: it asks
  for `_nextToClaim < last + size`, and a claim needs `<=`.

## 6. What is not modelled

* Of message parsing: the exceptions for control lines that are not well-formed
  (`parse_size`, missing fields), the moves of `Message` and `ControlLineView`.
* Of the client: several threads on the connection's executor. Then `rx` and
  `tx` race on `_subscribes`: the test `transfer_multithread`
  (`test/test_nats_coro.cpp:633`) runs the client on a pool of three threads
  without a strand, and only the order in time of SUB, messages and UNSUB keeps
  the two apart there. Also a subscriber that publishes before it reads on; a
  second `run`; the server's answers other than messages, PING and `-ERR`. In
  `client_delivery` the connection does not fail: what a failure cuts off is the
  business of `client_shutdown`. `publish` occurs in the two runs that expect a
  violation only: a message without callbacks is handled like a PONG.
* EOF for a subscription whose SUB is pushed behind the shutdown message, or is
  still in the transmit queue when the connection fails: the code pushes none,
  and nothing says that it should. Its reader ends when its user unsubscribes,
  or never, if `tx` has ended.
* The cancellation slots themselves: their handlers call `close()` or
  `cancel()`. In the event, the barrier and the sequencers these are modelled as
  calls at any time; that a slot keeps its handler after the wait returned (so
  that a later cancellation closes a barrier nobody waits on) is within "any time".
  In the group a cancellation is `CancelWait`; in `Client` it is `CancelPush`,
  `CancelGet` and `CancelRun` for the users, `CancelRx` and `CancelTx` within `run`.
  What a coroutine of a user does after it was cancelled is not modelled, except
  that it may go on.
* Destruction: of a barrier with awaiters (excluded by its assertion, which
  `ListedIsPending` implies for a barrier nobody waits on), of a queue's tail, and
  of the closure of `Event::_handler`. That of a head, which closes the queue, is
  in `Client`.
* Weak memory, see section 2; allocation failure; exceptions other than the
  `operation_aborted` of a closed barrier.
* `connect_to_nats` (a handshake of input and output), `schedule`, concepts,
  tests and examples.

## 7. Plan

In the order of importance.

1. `SequenceTraits`, `Event`/`OneShot`, `SequenceBarrier`/`PublishedUpTo` with
   their proofs; `MultiProducerSequencer`; `SingleProducerSequencer`/
   `BoundedQueue` with its first proofs. Done.
2. `SequenceBarrierGroup`, `Framing`, `Client`. Done.
3. Proofs of the group, of the multi-producer sequencer, of the bounded queue
   and of the client. Done.
4. The proofs of `Framing`. Done.
5. The items of the multi-producer queue, refining a bounded queue with several
   writers, and `Client` over that.
