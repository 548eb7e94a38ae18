----------------------- MODULE SingleProducerSequencer -----------------------
(***************************************************************************)
(* include/single_producer_sequencer.h between the two ends of a queue     *)
(* (include/queue.h): one producer claims slots of a ring buffer, writes   *)
(* and publishes them, one consumer gets what is published, reads it and   *)
(* gives the slots back.                                                   *)
(*                                                                         *)
(* The two meet in the buffer and in two barriers: the producer waits on   *)
(* the one the consumer publishes on (_consumerBarrier, the _readBarrier   *)
(* of QueueState), the consumer on _producerBarrier.  The barriers are     *)
(* those of PublishedUpTo, which SequenceBarrier implements.  The wait of  *)
(* a coroutine on a barrier ends in a step of the barrier's; the coroutine *)
(* goes on in a later one.                                                 *)
(***************************************************************************)
EXTENDS SequenceTraits, Sequences

CONSTANTS
  Producer, Consumer,   \* the coroutine at each end
  Closers,              \* threads that call close(), cancellation handlers too
  Item,                 \* what may be pushed
  BufferSize,
  Initial,              \* the constructor's initialSequence
  Last                  \* bound of the numbers that are claimed

ASSUME ThreadsAssumption ==
  /\ Producer # Consumer
  /\ Closers \cap {Producer, Consumer} = {}

\* The constructor's assertions on the size.
ASSUME RangeAssumption ==
  /\ BufferSize \in 1 .. HalfRange - 1 /\ Modulus % BufferSize = 0
  /\ Initial \in Int /\ Last \in Int /\ Initial <= Last

VARIABLES
  readPublished, readShut, readWant, readAnswer, readGot,       \* _consumerBarrier
  writePublished, writeShut, writeWant, writeAnswer, writeGot,  \* _producerBarrier
  nextToClaim,      \* _nextToClaim
  nextToRead,       \* _nextToRead
  buffer,           \* _buffer
  count,            \* how many numbers the producer asked for
  claim,            \* what it claimed and has still to write, and the end: <<next, end>>
  range,            \* what get() returned, <<begin, end>>
  batch,            \* what the consumer has read of it
  sent,             \* history: all the items that were written, in order
  pc                \* where each thread is

readBarrier == <<readPublished, readShut, readWant, readAnswer, readGot>>
writeBarrier == <<writePublished, writeShut, writeWant, writeAnswer, writeGot>>
front == <<nextToClaim, count, claim, sent>>
back == <<nextToRead, range, batch>>
vars == <<readBarrier, writeBarrier, front, back, buffer, pc>>

ReadBarrier ==
  INSTANCE PublishedUpTo WITH
    Consumers <- {Producer}, First <- Initial + 1 - BufferSize,
    published <- readPublished, shut <- readShut, want <- readWant,
    answer <- readAnswer, got <- readGot

WriteBarrier ==
  INSTANCE PublishedUpTo WITH
    Consumers <- {Consumer}, First <- Initial,
    published <- writePublished, shut <- writeShut, want <- writeWant,
    answer <- writeAnswer, got <- writeGot

Threads == {Producer, Consumer} \cup Closers
Slots == 0 .. BufferSize - 1

\* seq & index_mask()
Slot(s) == Wrap(s) % BufferSize

Init ==
  /\ ReadBarrier!Init
  /\ WriteBarrier!Init
  /\ nextToClaim = Initial + 1
  /\ nextToRead = Initial + 1
  /\ buffer \in [Slots -> Item]
  /\ count = 0
  /\ claim = <<Initial, Initial>>
  /\ range = <<Initial, Initial>>
  /\ batch = <<>>
  /\ sent = <<>>
  /\ pc = [t \in Threads |-> "idle"]

Goto(t, label) == pc' = [pc EXCEPT ![t] = label]

(***************************************************************************)
(* The producer: claim_one() or claim_up_to(n), write, publish()           *)
(***************************************************************************)
\* The wait for the slot of the next number begins.
Claim(n) ==
  /\ pc[Producer] = "idle"
  /\ nextToClaim + n - 1 <= Last
  /\ ReadBarrier!Ask(Producer, nextToClaim - BufferSize)
  /\ count' = n
  /\ Goto(Producer, "claim")
  /\ UNCHANGED <<writeBarrier, nextToClaim, claim, sent, back, buffer>>

\* lastAvailableSequence, from the number the wait returned, less the next.
Available == Wrap(readGot[Producer] + BufferSize - nextToClaim) + 1

\* Mutation: the numbers that were asked for, available or not.
ClaimEndAsAsked == nextToClaim + count

\* Where a claim ends: what was asked for, what is available at most.
ClaimEnd == nextToClaim + (IF count < Available THEN count ELSE Available)

Claimed ==
  /\ pc[Producer] = "claim"
  /\ readAnswer[Producer] = "granted"
  /\ claim' = <<nextToClaim, ClaimEnd>>
  /\ nextToClaim' = ClaimEnd
  /\ count' = 0
  /\ Goto(Producer, "write")
  /\ UNCHANGED <<readBarrier, writeBarrier, sent, back, buffer>>

\* It throws when the barrier is closed.
ClaimThrows ==
  /\ pc[Producer] = "claim"
  /\ readAnswer[Producer] = "refused"
  /\ count' = 0
  /\ Goto(Producer, "idle")
  /\ UNCHANGED <<readBarrier, writeBarrier, nextToClaim, claim, sent, back, buffer>>

\* The producer writes the next slot of its range.
Write(item) ==
  /\ pc[Producer] = "write"
  /\ claim[1] < claim[2]
  /\ buffer' = [buffer EXCEPT ![Slot(claim[1])] = item]
  /\ claim' = <<claim[1] + 1, claim[2]>>
  /\ sent' = Append(sent, item)
  /\ UNCHANGED <<readBarrier, writeBarrier, nextToClaim, count, back, pc>>

\* publish(range.back())
Publish ==
  /\ pc[Producer] = "write"
  /\ claim[1] = claim[2]
  /\ WriteBarrier!Publish(claim[2] - 1)
  /\ Goto(Producer, "idle")
  /\ UNCHANGED <<readBarrier, front, back, buffer>>

(***************************************************************************)
(* The consumer: get(), which calls wait_until_published(), and consume()  *)
(***************************************************************************)
Get ==
  /\ pc[Consumer] = "idle"
  /\ nextToRead <= Last
  /\ WriteBarrier!Ask(Consumer, nextToRead)
  /\ Goto(Consumer, "get")
  /\ UNCHANGED <<readBarrier, front, back, buffer>>

\* Mutation of Got: the number after what is available is taken as well.
GotOneMore ==
  /\ pc[Consumer] = "get"
  /\ writeAnswer[Consumer] = "granted"
  /\ range' = <<nextToRead, writeGot[Consumer] + 2>>
  /\ nextToRead' = writeGot[Consumer] + 2
  /\ Goto(Consumer, "read")
  /\ UNCHANGED <<readBarrier, writeBarrier, front, batch, buffer>>

\* Mutation of Got: only the last number that is available, not those before.
GotLatest ==
  /\ pc[Consumer] = "get"
  /\ writeAnswer[Consumer] = "granted"
  /\ range' = <<writeGot[Consumer], writeGot[Consumer] + 1>>
  /\ nextToRead' = writeGot[Consumer] + 1
  /\ Goto(Consumer, "read")
  /\ UNCHANGED <<readBarrier, writeBarrier, front, batch, buffer>>

Got ==
  /\ pc[Consumer] = "get"
  /\ writeAnswer[Consumer] = "granted"
  /\ range' = <<nextToRead, writeGot[Consumer] + 1>>
  /\ nextToRead' = writeGot[Consumer] + 1
  /\ Goto(Consumer, "read")
  /\ UNCHANGED <<readBarrier, writeBarrier, front, batch, buffer>>

GetThrows ==
  /\ pc[Consumer] = "get"
  /\ writeAnswer[Consumer] = "refused"
  /\ Goto(Consumer, "idle")
  /\ UNCHANGED <<readBarrier, writeBarrier, front, back, buffer>>

\* The consumer reads the next slot of the range.
Read ==
  LET s == range[1] + Len(batch) IN
  /\ pc[Consumer] = "read"
  /\ s < range[2]
  /\ batch' = Append(batch, buffer[Slot(s)])
  /\ UNCHANGED <<readBarrier, writeBarrier, front, nextToRead, range, buffer, pc>>

\* Mutation of Consume: the end of the range instead of its back.
ConsumeEnd ==
  /\ pc[Consumer] = "read"
  /\ range[1] + Len(batch) = range[2]
  /\ ReadBarrier!Publish(range[2])
  /\ batch' = <<>>
  /\ Goto(Consumer, "idle")
  /\ UNCHANGED <<writeBarrier, front, nextToRead, range, buffer>>

Consume ==
  /\ pc[Consumer] = "read"
  /\ range[1] + Len(batch) = range[2]
  /\ ReadBarrier!Publish(range[2] - 1)
  /\ batch' = <<>>
  /\ Goto(Consumer, "idle")
  /\ UNCHANGED <<writeBarrier, front, nextToRead, range, buffer>>

(***************************************************************************)
(* close(): the producer's barrier, then the consumer's                    *)
(***************************************************************************)
CloseWriteBarrier(k) ==
  /\ pc[k] = "idle"
  /\ WriteBarrier!Close \/ (writeShut /\ UNCHANGED writeBarrier)
  /\ Goto(k, "close")
  /\ UNCHANGED <<readBarrier, front, back, buffer>>

\* Mutation of CloseReadBarrier: the consumer's barrier stays open.
CloseReadBarrierLeft(k) ==
  /\ pc[k] = "close"
  /\ Goto(k, "idle")
  /\ UNCHANGED <<readBarrier, writeBarrier, front, back, buffer>>

CloseReadBarrier(k) ==
  /\ pc[k] = "close"
  /\ ReadBarrier!Close \/ (readShut /\ UNCHANGED readBarrier)
  /\ Goto(k, "idle")
  /\ UNCHANGED <<writeBarrier, front, back, buffer>>

(***************************************************************************)
(* The barriers answer                                                     *)
(***************************************************************************)
AnswerClaim ==
  ReadBarrier!Answer(Producer) /\ UNCHANGED <<writeBarrier, front, back, buffer, pc>>

AnswerGet ==
  WriteBarrier!Answer(Consumer) /\ UNCHANGED <<readBarrier, front, back, buffer, pc>>

(***************************************************************************)
(* The specification                                                       *)
(***************************************************************************)
ProducerStep == Claimed \/ ClaimThrows \/ (\E i \in Item : Write(i)) \/ Publish
ConsumerStep == Got \/ GetThrows \/ Read \/ Consume

Next ==
  \/ ProducerStep \/ \E n \in 1 .. BufferSize + 1 : Claim(n)
  \/ ConsumerStep \/ Get
  \/ \E k \in Closers : CloseWriteBarrier(k) \/ CloseReadBarrier(k)
  \/ AnswerClaim \/ AnswerGet

\* A wait on a barrier that can be answered is, and a coroutine that is resumed
\* does what it has to before it claims or gets again.  Nobody has to do that,
\* or to close.
Fairness ==
  /\ WF_vars(ProducerStep) /\ WF_vars(ConsumerStep)
  /\ \A k \in Closers : WF_vars(CloseReadBarrier(k))
  /\ WF_vars(AnswerClaim) /\ WF_vars(AnswerGet)

Spec == Init /\ [][Next]_vars /\ Fairness

(***************************************************************************)
(* Correctness                                                             *)
(***************************************************************************)
Numbers == Initial .. Last + 1

TypeOK ==
  /\ readPublished \in Numbers /\ writePublished \in Numbers
  /\ readShut \in BOOLEAN /\ writeShut \in BOOLEAN
  /\ nextToClaim \in Numbers /\ nextToRead \in Numbers
  /\ buffer \in [Slots -> Item]
  /\ count \in 0 .. BufferSize + 1
  /\ claim \in Numbers \X Numbers
  /\ range \in Numbers \X Numbers
  /\ batch \in Seq(Item) /\ sent \in Seq(Item)
  /\ pc \in [Threads -> {"idle", "claim", "write", "get", "read", "close"}]

\* Given back, read, published and claimed numbers follow one another, and
\* never more than one buffer apart: what both ends compute from numbers they
\* read at different times is right.  And what each publishes next is later
\* than what it published, as the barriers expect: no range is empty, which
\* publish(range) asserts.
InOrder ==
  /\ readPublished < nextToRead
  /\ nextToRead <= writePublished + 1
  /\ writePublished < nextToClaim
  /\ nextToClaim <= readPublished + BufferSize + 1
  /\ pc[Producer] = "write" => writePublished < claim[2] - 1
  /\ pc[Consumer] = "read" => readPublished < range[2] - 1

\* The producer writes no slot that is still to be read.
SlotsAreExclusive ==
  pc[Producer] = "write" =>
    \A s \in claim[1] .. claim[2] - 1, r \in readPublished + 1 .. writePublished :
      Slot(s) # Slot(r)

\* Refinement: the consumer reads what was written, all of it, once, in order.
Image ==
  INSTANCE BoundedQueue WITH
    Capacity <- BufferSize,
    queue <- SubSeq(sent, readPublished - Initial + 1, writePublished - Initial),
    taken <- IF pc[Consumer] = "read" THEN range[2] - range[1] ELSE 0

ImplementsBoundedQueue == Image!Spec

\* A claim ends once there is room for one number, a get() once there is
\* something to read, and both once somebody began to close.
WaitsEnd ==
  /\ (pc[Producer] = "claim" /\ (writeShut \/ nextToClaim <= readPublished + BufferSize))
       ~> pc[Producer] # "claim"
  /\ (pc[Consumer] = "get" /\ (writeShut \/ nextToRead <= writePublished))
       ~> pc[Consumer] # "get"
=============================================================================
