-------------------- MODULE SingleProducerSequencerProofs --------------------
(***************************************************************************)
(* Theorems about SingleProducerSequencer, for every size of the buffer    *)
(* and of the type, any items, any closers and any sequence numbers.       *)
(***************************************************************************)
EXTENDS SingleProducerSequencer, SequenceTraitsProofs, SequenceTheorems

(***************************************************************************)
(* The slots                                                               *)
(***************************************************************************)
LEMMA Sizes ==
  /\ BufferSize \in Nat /\ BufferSize > 0 /\ BufferSize < HalfRange
  /\ Modulus \in Nat /\ Modulus = HalfRange + HalfRange /\ HalfRange \in Nat
  /\ Initial \in Int /\ Last \in Int /\ Initial <= Last
  BY HalfRangeAssumption, RangeAssumption DEF Modulus

LEMMA SlotType == \A s \in Int : Slot(s) \in Slots
  BY Sizes, WrapType, Remainder DEF Slot, Slots

\* Two numbers less than a buffer apart are in different slots.
LEMMA SlotsDiffer ==
  ASSUME NEW s \in Int, NEW r \in Int, s # r, s - r < BufferSize, r - s < BufferSize
  PROVE  Slot(s) # Slot(r)
BY Sizes, RangeAssumption, SlotsApart DEF Slot

\* A number of the type's range is stored as it is.
LEMMA WrapSmall == \A n \in 0 .. Modulus - 1 : Wrap(n) = n
<1> SUFFICES ASSUME NEW n \in 0 .. Modulus - 1 PROVE Wrap(n) = n
  OBVIOUS
<1> QED
  BY Sizes DEF Wrap

(***************************************************************************)
(* The inductive invariant: what a wait was for is still what its end is   *)
(* about, and what each end holds lies between what it published last and  *)
(* what it claims or reads next.                                           *)
(***************************************************************************)
Answers == {"none", "asked", "granted", "refused"}

BarrierTypes ==
  /\ readWant \in [{Producer} -> Int] /\ readGot \in [{Producer} -> Int]
  /\ readAnswer \in [{Producer} -> Answers]
  /\ writeWant \in [{Consumer} -> Int] /\ writeGot \in [{Consumer} -> Int]
  /\ writeAnswer \in [{Consumer} -> Answers]

Places ==
  /\ pc[Producer] \in {"idle", "claim", "write"}
  /\ pc[Consumer] \in {"idle", "get", "read"}

ProducerInv ==
  /\ nextToClaim <= readPublished + BufferSize + 1
  /\ pc[Producer] # "write" => nextToClaim = writePublished + 1
  /\ pc[Producer] = "claim" =>
       /\ count >= 1 /\ nextToClaim + count <= Last + 1
       /\ readWant[Producer] = nextToClaim - BufferSize
       /\ readAnswer[Producer] = "granted" =>
            readWant[Producer] <= readGot[Producer] /\ readGot[Producer] <= readPublished
  /\ pc[Producer] = "write" =>
       /\ writePublished < claim[1] /\ claim[1] <= claim[2] /\ claim[2] = nextToClaim
       /\ writePublished < claim[2] - 1

ConsumerInv ==
  /\ nextToRead <= writePublished + 1
  /\ pc[Consumer] # "read" => nextToRead = readPublished + 1
  /\ pc[Consumer] = "get" =>
       /\ writeWant[Consumer] = nextToRead
       /\ writeAnswer[Consumer] = "granted" =>
            writeWant[Consumer] <= writeGot[Consumer] /\ writeGot[Consumer] <= writePublished
  /\ pc[Consumer] = "read" =>
       /\ range[1] = readPublished + 1 /\ range[2] = nextToRead
       /\ range[1] < range[2]

BatchInv ==
  /\ pc[Consumer] # "read" => batch = <<>>
  /\ pc[Consumer] = "read" => range[1] + Len(batch) <= range[2]

\* What the arithmetic of the proofs is done with.
LEMMA NumbersAreIntegers ==
  ASSUME TypeOK
  PROVE  /\ readPublished \in Int /\ writePublished \in Int
         /\ nextToClaim \in Int /\ nextToRead \in Int /\ count \in Int
         /\ claim[1] \in Int /\ claim[2] \in Int /\ claim = <<claim[1], claim[2]>>
         /\ range[1] \in Int /\ range[2] \in Int /\ Len(batch) \in Nat
<1>1. Numbers \subseteq Int
  BY Sizes DEF Numbers
<1>2. claim \in Int \X Int /\ range \in Int \X Int
  BY <1>1 DEF TypeOK
<1>3. batch \in Seq(Item) /\ count \in Int
  BY Sizes DEF TypeOK
<1> QED
  BY <1>1, <1>2, <1>3 DEF TypeOK

IInv == TypeOK /\ BarrierTypes /\ Places /\ ProducerInv /\ ConsumerInv /\ BatchInv

(***************************************************************************)
(* It holds at the start and every step preserves it                       *)
(***************************************************************************)
LEMMA IInvStarts == Init => IInv
<1> SUFFICES ASSUME Init PROVE IInv
  OBVIOUS
<1> USE Sizes, ThreadsAssumption DEF Init, ReadBarrier!Init, WriteBarrier!Init
<1>1. TypeOK
  <2>1. Initial \in Numbers /\ Initial + 1 \in Numbers
    BY DEF Numbers
  <2>2. <<>> \in Seq(Item)
    OBVIOUS
  <2>3. claim \in Numbers \X Numbers /\ range \in Numbers \X Numbers
    BY <2>1
  <2>4. 0 \in 0 .. BufferSize + 1
    OBVIOUS
  <2> QED
    BY <2>1, <2>2, <2>3, <2>4 DEF TypeOK
<1>2. BarrierTypes
  BY DEF BarrierTypes, Answers
<1>3. Places /\ ProducerInv /\ ConsumerInv /\ BatchInv
  BY DEF Places, ProducerInv, ConsumerInv, BatchInv, Threads
<1> QED
  BY <1>1, <1>2, <1>3 DEF IInv

\* A claim gets a number at least, no more than were asked for, and none beyond
\* a buffer from what the consumer has given back.
LEMMA ClaimEndsInTime ==
  ASSUME IInv, pc[Producer] = "claim", readAnswer[Producer] = "granted"
  PROVE  /\ ClaimEnd \in Int /\ nextToClaim < ClaimEnd
         /\ ClaimEnd <= nextToClaim + count
         /\ ClaimEnd <= readPublished + BufferSize + 1
<1>1. readPublished \in Int /\ writePublished \in Int /\ nextToClaim \in Int /\ count \in Int
  BY NumbersAreIntegers DEF IInv
<1>2. readGot[Producer] \in Int
  BY DEF IInv, BarrierTypes
<1>3. /\ count >= 1
      /\ nextToClaim - BufferSize <= readGot[Producer] /\ readGot[Producer] <= readPublished
  BY DEF IInv, ProducerInv
<1>4. readPublished < nextToClaim
  <2>1. pc[Consumer] # "read" => nextToRead = readPublished + 1
    BY DEF IInv, ConsumerInv
  <2>2. pc[Consumer] = "read" => range[1] = readPublished + 1 /\ range[2] = nextToRead /\ range[1] < range[2]
    BY DEF IInv, ConsumerInv
  <2>3. nextToRead \in Int /\ range[1] \in Int /\ nextToRead <= writePublished + 1
    BY NumbersAreIntegers DEF IInv, ConsumerInv
  <2>4. nextToClaim = writePublished + 1
    BY DEF IInv, ProducerInv
  <2> QED
    BY <1>1, <2>1, <2>2, <2>3, <2>4
<1>5. Available = readGot[Producer] + BufferSize - nextToClaim + 1
  <2>1. readGot[Producer] + BufferSize - nextToClaim \in 0 .. Modulus - 1
    BY <1>1, <1>2, <1>3, <1>4, Sizes
  <2> QED
    BY <2>1, WrapSmall DEF Available
<1> QED
  BY <1>1, <1>2, <1>3, <1>5, Sizes DEF ClaimEnd

\* What the consumer is told to read ends within the numbers in play.
LEMMA ReadEndsInRange ==
  ASSUME IInv, pc[Consumer] = "get", writeAnswer[Consumer] = "granted"
  PROVE  writeGot[Consumer] + 1 \in Numbers
<1>1. /\ readPublished \in Int /\ writePublished \in Int /\ nextToRead \in Int
      /\ nextToClaim \in Int /\ writeGot[Consumer] \in Int
  BY NumbersAreIntegers DEF IInv, BarrierTypes
<1>2. Initial <= nextToRead /\ nextToClaim <= Last + 1
  BY DEF IInv, TypeOK, Numbers
<1>3. nextToRead <= writeGot[Consumer] /\ writeGot[Consumer] <= writePublished
  BY DEF IInv, ConsumerInv
<1>4. writePublished < nextToClaim
  BY <1>1, NumbersAreIntegers DEF IInv, ProducerInv
<1> QED
  BY <1>1, <1>2, <1>3, <1>4, Sizes DEF Numbers

LEMMA IInvSteps == IInv /\ [Next]_vars => IInv'
<1> SUFFICES ASSUME IInv, [Next]_vars PROVE IInv'
  OBVIOUS
<1> USE Sizes, ThreadsAssumption
    DEF IInv, TypeOK, BarrierTypes, Answers, Places, ProducerInv, ConsumerInv, BatchInv,
        Numbers, Threads, Goto, readBarrier, writeBarrier, front, back
<1>1. ASSUME NEW n \in 1 .. BufferSize + 1, Claim(n) PROVE IInv'
  BY <1>1 DEF Claim, ReadBarrier!Ask
<1>2. CASE Claimed
  <2>1. /\ pc[Producer] = "claim" /\ readAnswer[Producer] = "granted"
        /\ claim' = <<nextToClaim, ClaimEnd>> /\ nextToClaim' = ClaimEnd /\ count' = 0
        /\ pc' = [pc EXCEPT ![Producer] = "write"]
        /\ UNCHANGED <<readBarrier, writeBarrier, sent, back, buffer>>
    BY <1>2 DEF Claimed
  <2>2. /\ ClaimEnd \in Int /\ nextToClaim < ClaimEnd
        /\ ClaimEnd <= nextToClaim + count /\ ClaimEnd <= readPublished + BufferSize + 1
    BY <2>1, ClaimEndsInTime
  <2>3. ClaimEnd \in Numbers
    BY <2>1, <2>2
  <2>4. ProducerInv'
    BY <2>1, <2>2
  <2>5. TypeOK' /\ BarrierTypes' /\ Places'
    BY <2>1, <2>3
  <2>6. ConsumerInv' /\ BatchInv'
    BY <2>1
  <2> QED
    BY <2>4, <2>5, <2>6
<1>3. CASE ClaimThrows
  BY <1>3 DEF ClaimThrows
<1>4. ASSUME NEW item \in Item, Write(item) PROVE IInv'
  <2>0. /\ pc[Producer] = "write" /\ claim[1] < claim[2]
        /\ claim' = <<claim[1] + 1, claim[2]>>
        /\ UNCHANGED <<readBarrier, writeBarrier, nextToClaim, count, back, pc>>
    BY <1>4 DEF Write
  <2>a. claim'[1] = claim[1] + 1 /\ claim'[2] = claim[2]
    BY <2>0
  <2>b. /\ claim[1] \in Int /\ claim[2] \in Int /\ writePublished \in Int
        /\ writePublished < claim[1] /\ claim[2] = nextToClaim
        /\ writePublished < claim[2] - 1
    BY <2>0, NumbersAreIntegers
  <2>c. ProducerInv'
    <3>1. writePublished < claim[1] + 1 /\ claim[1] + 1 <= claim[2]
      BY <2>0, <2>b
    <3> QED
      BY <2>0, <2>a, <2>b, <3>1
  <2>d. ConsumerInv' /\ BatchInv'
    BY <2>0
  <2>1. ProducerInv' /\ ConsumerInv' /\ BatchInv'
    BY <2>c, <2>d
  <2>2. claim' \in Numbers \X Numbers /\ buffer' \in [Slots -> Item] /\ sent' \in Seq(Item)
    <3>1. claim[1] + 1 \in Numbers /\ claim[2] \in Numbers
      <4>1. claim[1] < claim[2]
        BY <1>4 DEF Write
      <4>2. claim[1] \in Numbers /\ claim[2] \in Numbers
        OBVIOUS
      <4> QED
        BY <4>1, <4>2
    <3>2. claim' = <<claim[1] + 1, claim[2]>>
      BY <1>4 DEF Write
    <3>3. claim' \in Numbers \X Numbers
      BY <3>1, <3>2
    <3>4. buffer' \in [Slots -> Item]
      BY <1>4 DEF Write
    <3>5. sent' \in Seq(Item)
      BY <1>4 DEF Write
    <3> QED
      BY <3>3, <3>4, <3>5
  <2>3. TypeOK' /\ BarrierTypes' /\ Places'
    BY <1>4, <2>2 DEF Write
  <2> QED
    BY <2>1, <2>3
<1>5. CASE Publish
  <2>1. /\ pc[Producer] = "write" /\ pc' = [pc EXCEPT ![Producer] = "idle"]
        /\ writePublished' = claim[2] - 1
        /\ UNCHANGED <<writeShut, writeWant, writeAnswer, writeGot>>
        /\ UNCHANGED <<readBarrier, front, back, buffer>>
    BY <1>5 DEF Publish, WriteBarrier!Publish
  <2>2. /\ claim[2] = nextToClaim /\ writePublished < claim[2] - 1
        /\ nextToClaim \in Int /\ writePublished \in Int /\ claim[2] \in Int
        /\ Initial <= writePublished /\ claim[2] <= Last + 1
    BY <2>1, NumbersAreIntegers
  <2>3. writePublished' = nextToClaim - 1 /\ writePublished < writePublished'
    BY <2>1, <2>2
  <2>4. ProducerInv'
    BY <2>1, <2>2, <2>3
  <2>5. ConsumerInv'
    BY <2>1, <2>2, <2>3, NumbersAreIntegers
  <2>6. BatchInv' /\ BarrierTypes' /\ Places'
    BY <2>1
  <2>7. writePublished' \in Numbers
    BY <2>2, <2>3
  <2>8. TypeOK'
    BY <2>1, <2>7
  <2> QED
    BY <2>4, <2>5, <2>6, <2>8
<1>6. CASE Get
  BY <1>6 DEF Get, WriteBarrier!Ask
<1>7. CASE Got
  <2>1. /\ pc[Consumer] = "get" /\ writeAnswer[Consumer] = "granted"
        /\ range' = <<nextToRead, writeGot[Consumer] + 1>>
        /\ nextToRead' = writeGot[Consumer] + 1
        /\ pc' = [pc EXCEPT ![Consumer] = "read"]
        /\ UNCHANGED <<readBarrier, writeBarrier, front, batch, buffer>>
    BY <1>7 DEF Got
  <2>2. /\ nextToRead <= writeGot[Consumer] /\ writeGot[Consumer] <= writePublished
        /\ nextToRead = readPublished + 1 /\ writeGot[Consumer] \in Int
        /\ nextToRead \in Int /\ writePublished \in Int /\ batch = <<>>
    BY <2>1, NumbersAreIntegers
  <2>3. writeGot[Consumer] + 1 \in Numbers
    BY <2>1, ReadEndsInRange
  <2>4. TypeOK' /\ BarrierTypes' /\ Places'
    BY <2>1, <2>3
  <2>5. ProducerInv'
    BY <2>1
  <2>6. ConsumerInv'
    BY <2>1, <2>2
  <2>7. BatchInv'
    BY <2>1, <2>2
  <2> QED
    BY <2>4, <2>5, <2>6, <2>7
<1>8. CASE GetThrows
  BY <1>8 DEF GetThrows
<1>9. CASE Read
  <2> DEFINE s == range[1] + Len(batch)
  <2>1. /\ pc[Consumer] = "read" /\ s < range[2]
        /\ batch' = Append(batch, buffer[Slot(s)])
        /\ UNCHANGED <<readBarrier, writeBarrier, front, nextToRead, range, buffer, pc>>
    BY <1>9 DEF Read
  <2>2. range[1] \in Int /\ range[2] \in Int /\ Len(batch) \in Nat /\ batch \in Seq(Item)
    BY NumbersAreIntegers
  <2>3. buffer[Slot(s)] \in Item
    BY <2>2, SlotType
  <2>4. batch' \in Seq(Item) /\ Len(batch') = Len(batch) + 1
    BY <2>1, <2>2, <2>3
  <2>a. range[1] + Len(batch') = s + 1
    BY <2>2, <2>4
  <2>b. s + 1 <= range[2]
    <3>1. s \in Int
      BY <2>2
    <3> HIDE DEF s
    <3> QED
      BY <2>1, <2>2, <3>1
  <2>5. BatchInv'
    BY <2>1, <2>a, <2>b
  <2>6. ProducerInv' /\ ConsumerInv'
    BY <2>1
  <2>7. TypeOK' /\ BarrierTypes' /\ Places'
    BY <2>1, <2>4
  <2> QED
    BY <2>5, <2>6, <2>7
<1>10. CASE Consume
  <2>1. /\ pc[Consumer] = "read" /\ pc' = [pc EXCEPT ![Consumer] = "idle"]
        /\ readPublished' = range[2] - 1 /\ readPublished < readPublished'
        /\ batch' = <<>>
        /\ UNCHANGED <<readShut, readWant, readAnswer, readGot>>
        /\ UNCHANGED <<writeBarrier, front, nextToRead, range, buffer>>
    BY <1>10 DEF Consume, ReadBarrier!Publish
  <2>2. /\ range[2] = nextToRead /\ range[2] \in Int /\ nextToRead \in Int
        /\ readPublished \in Int /\ range[1] = readPublished + 1 /\ range[1] < range[2]
    BY <2>1, NumbersAreIntegers
  <2>a. nextToClaim \in Int /\ BufferSize \in Int
    BY NumbersAreIntegers
  <2>b. nextToClaim <= readPublished' + BufferSize + 1
    BY <2>1, <2>2, <2>a
  <2>c. /\ pc'[Producer] = pc[Producer]
        /\ UNCHANGED <<nextToClaim, writePublished, count, claim>>
    BY <2>1
  <2>d. \A n \in Int : n <= readPublished => n <= readPublished'
    BY <2>1, <2>2
  <2>3. ProducerInv'
    BY <2>1, <2>b, <2>c, <2>d
  <2>4. ConsumerInv' /\ BatchInv'
    BY <2>1, <2>2
  <2>5. readPublished' \in Numbers /\ batch' \in Seq(Item)
    <3>1. Initial <= readPublished /\ nextToRead <= Last + 1
      OBVIOUS
    <3>2. <<>> \in Seq(Item)
      OBVIOUS
    <3> QED
      BY <2>1, <2>2, <3>1, <3>2
  <2>6. TypeOK' /\ BarrierTypes' /\ Places'
    BY <2>1, <2>5
  <2> QED
    BY <2>3, <2>4, <2>6
<1>11. ASSUME NEW k \in Closers, CloseWriteBarrier(k) PROVE IInv'
  <2>1. /\ pc' = [pc EXCEPT ![k] = "close"] /\ k # Producer /\ k # Consumer
        /\ writeShut' \in BOOLEAN
        /\ UNCHANGED <<writePublished, writeWant, writeAnswer, writeGot>>
        /\ UNCHANGED <<readBarrier, front, back, buffer>>
    BY <1>11 DEF CloseWriteBarrier, WriteBarrier!Close
  <2>2. pc'[Producer] = pc[Producer] /\ pc'[Consumer] = pc[Consumer]
    BY <2>1
  <2>3. TypeOK' /\ BarrierTypes' /\ Places'
    BY <2>1, <2>2
  <2>4. ProducerInv'
    BY <2>1, <2>2
  <2>5. ConsumerInv' /\ BatchInv'
    BY <2>1, <2>2
  <2> QED
    BY <2>3, <2>4, <2>5
<1>12. ASSUME NEW k \in Closers, CloseReadBarrier(k) PROVE IInv'
  <2>1. /\ pc' = [pc EXCEPT ![k] = "idle"] /\ k # Producer /\ k # Consumer
        /\ readShut' \in BOOLEAN
        /\ UNCHANGED <<readPublished, readWant, readAnswer, readGot>>
        /\ UNCHANGED <<writeBarrier, front, back, buffer>>
    BY <1>12 DEF CloseReadBarrier, ReadBarrier!Close
  <2>2. pc'[Producer] = pc[Producer] /\ pc'[Consumer] = pc[Consumer]
    BY <2>1
  <2>3. TypeOK' /\ BarrierTypes' /\ Places'
    BY <2>1, <2>2
  <2>4. ProducerInv'
    BY <2>1, <2>2
  <2>5. ConsumerInv' /\ BatchInv'
    BY <2>1, <2>2
  <2> QED
    BY <2>3, <2>4, <2>5
<1>13. CASE AnswerClaim
  <2>1. UNCHANGED <<readPublished, readWant, writeBarrier, front, back, buffer, pc>>
    BY <1>13 DEF AnswerClaim, ReadBarrier!Answer, ReadBarrier!Grant, ReadBarrier!Refuse
  <2>2. CASE ReadBarrier!Grant(Producer)
    <3>1. PICK n \in readWant[Producer] .. readPublished :
            readGot' = [readGot EXCEPT ![Producer] = n]
      BY <2>2 DEF ReadBarrier!Grant
    <3>2. n \in Int /\ readWant[Producer] <= n /\ n <= readPublished
      OBVIOUS
    <3>3. readAnswer' \in [{Producer} -> Answers] /\ readShut' = readShut
      BY <2>2 DEF ReadBarrier!Grant
    <3>4. ProducerInv' /\ ConsumerInv' /\ BatchInv'
      BY <2>1, <3>1, <3>2
    <3> QED
      BY <2>1, <3>1, <3>2, <3>3, <3>4
  <2>3. CASE ReadBarrier!Refuse(Producer)
    BY <2>1, <2>3 DEF ReadBarrier!Refuse
  <2> QED
    BY <1>13, <2>2, <2>3 DEF AnswerClaim, ReadBarrier!Answer
<1>14. CASE AnswerGet
  <2>1. UNCHANGED <<writePublished, writeWant, readBarrier, front, back, buffer, pc>>
    BY <1>14 DEF AnswerGet, WriteBarrier!Answer, WriteBarrier!Grant, WriteBarrier!Refuse
  <2>2. CASE WriteBarrier!Grant(Consumer)
    <3>1. PICK n \in writeWant[Consumer] .. writePublished :
            writeGot' = [writeGot EXCEPT ![Consumer] = n]
      BY <2>2 DEF WriteBarrier!Grant
    <3>2. n \in Int /\ writeWant[Consumer] <= n /\ n <= writePublished
      OBVIOUS
    <3>3. writeAnswer' \in [{Consumer} -> Answers] /\ writeShut' = writeShut
      BY <2>2 DEF WriteBarrier!Grant
    <3>4. ProducerInv' /\ ConsumerInv' /\ BatchInv'
      BY <2>1, <3>1, <3>2
    <3> QED
      BY <2>1, <3>1, <3>2, <3>3, <3>4
  <2>3. CASE WriteBarrier!Refuse(Consumer)
    BY <2>1, <2>3 DEF WriteBarrier!Refuse
  <2> QED
    BY <1>14, <2>2, <2>3 DEF AnswerGet, WriteBarrier!Answer
<1>15. CASE UNCHANGED vars
  BY <1>15 DEF vars
<1> QED
  BY <1>1, <1>2, <1>3, <1>4, <1>5, <1>6, <1>7, <1>8, <1>9, <1>10, <1>11, <1>12,
     <1>13, <1>14, <1>15 DEF Next, ProducerStep, ConsumerStep

LEMMA Invariance == Spec => []IInv
  BY IInvStarts, IInvSteps, PTL DEF Spec

(***************************************************************************)
(* The theorems                                                            *)
(***************************************************************************)
\* Every variable keeps the type it has in the program, every number the range.
THEOREM TypeCorrect == Spec => []TypeOK
<1>1. IInv => TypeOK
  BY DEF IInv
<1> QED
  BY <1>1, Invariance, PTL

\* The four counters of the two ends stay in order and a buffer apart, although
\* each end moves its own and reads the others at different times; and no end
\* publishes a number twice or an empty range (claim_up_to(), get(), publish()).
THEOREM CountersStayInOrder == Spec => []InOrder
<1>1. IInv => InOrder
  <2> SUFFICES ASSUME IInv PROVE InOrder
    OBVIOUS
  <2>1. /\ readPublished \in Int /\ writePublished \in Int
        /\ nextToClaim \in Int /\ nextToRead \in Int
        /\ claim[1] \in Int /\ claim[2] \in Int /\ range[1] \in Int /\ range[2] \in Int
    BY NumbersAreIntegers DEF IInv
  <2>2. writePublished < nextToClaim /\ (pc[Producer] = "write" => writePublished < claim[2] - 1)
    BY <2>1 DEF IInv, ProducerInv
  <2>3. readPublished < nextToRead
    BY <2>1 DEF IInv, ConsumerInv
  <2>4. pc[Consumer] = "read" => readPublished < range[2] - 1
    BY <2>1 DEF IInv, ConsumerInv
  <2> QED
    BY <2>2, <2>3, <2>4 DEF IInv, ProducerInv, ConsumerInv, InOrder
<1> QED
  BY <1>1, Invariance, PTL

\* No slot the producer may write is one the consumer may still read, however
\* the numbers wrap around the type and the buffer (index_mask()).
THEOREM SlotsNeverShared == Spec => []SlotsAreExclusive
<1>1. IInv => SlotsAreExclusive
  <2> SUFFICES ASSUME IInv, pc[Producer] = "write",
                      NEW s \in claim[1] .. claim[2] - 1,
                      NEW r \in readPublished + 1 .. writePublished
               PROVE  Slot(s) # Slot(r)
    BY DEF SlotsAreExclusive
  <2>1. /\ readPublished \in Int /\ writePublished \in Int /\ nextToClaim \in Int
        /\ claim[1] \in Int /\ claim[2] \in Int
    BY NumbersAreIntegers DEF IInv
  <2>2. /\ writePublished < claim[1] /\ claim[2] = nextToClaim
        /\ nextToClaim <= readPublished + BufferSize + 1
    BY DEF IInv, ProducerInv
  <2>3. s \in Int /\ r \in Int /\ s # r /\ s - r < BufferSize /\ r - s < BufferSize
    BY <2>1, <2>2, Sizes
  <2> QED
    BY <2>3, SlotsDiffer
<1> QED
  BY <1>1, Invariance, PTL

(***************************************************************************)
(* The queue                                                               *)
(***************************************************************************)
\* The last number whose slot was written.
Written == Initial + Len(sent)

\* What was written and not given back is still in its slot.
BufferInv ==
  /\ pc[Producer] = "write" => Written = claim[1] - 1
  /\ pc[Producer] # "write" => Written = writePublished
  /\ \A s \in readPublished + 1 .. Written : buffer[Slot(s)] = sent[s - Initial]

\* The order of everything that the two ends have done and will do.
LEMMA Order ==
  ASSUME IInv, BufferInv
  PROVE  /\ Initial <= readPublished /\ readPublished <= writePublished
         /\ writePublished <= Written /\ Written < nextToClaim
         /\ nextToClaim <= readPublished + BufferSize + 1
         /\ readPublished \in Int /\ writePublished \in Int /\ Written \in Int
         /\ nextToClaim \in Int /\ Len(sent) \in Nat
<1>1. /\ readPublished \in Int /\ writePublished \in Int
      /\ nextToClaim \in Int /\ nextToRead \in Int
      /\ claim[1] \in Int /\ claim[2] \in Int /\ range[1] \in Int /\ range[2] \in Int
  BY NumbersAreIntegers DEF IInv
<1>2. sent \in Seq(Item) /\ Initial <= readPublished
  BY Sizes DEF IInv, TypeOK, Numbers
<1>3. Len(sent) \in Nat
  BY <1>2
<1>4. Written \in Int
  BY <1>3, Sizes DEF Written
<1>5. readPublished <= writePublished
  BY <1>1 DEF IInv, ConsumerInv
<1>6. writePublished <= Written /\ Written < nextToClaim
  <2>1. CASE pc[Producer] = "write"
    BY <1>1, <1>4, <2>1 DEF IInv, ProducerInv, BufferInv
  <2>2. CASE pc[Producer] # "write"
    BY <1>1, <1>4, <2>2 DEF IInv, ProducerInv, BufferInv
  <2> QED
    BY <2>1, <2>2
<1> QED
  BY <1>1, <1>2, <1>3, <1>4, <1>5, <1>6 DEF IInv, ProducerInv

LEMMA BufferStart == Init => BufferInv
<1> SUFFICES ASSUME Init PROVE BufferInv
  OBVIOUS
<1>1. sent = <<>> /\ readPublished = Initial /\ writePublished = Initial
      /\ pc[Producer] = "idle"
  BY DEF Init, ReadBarrier!Init, WriteBarrier!Init, Threads
<1>2. Len(sent) = 0
  BY <1>1
<1> QED
  BY <1>1, <1>2, Sizes DEF BufferInv, Written

\* Who moves what BufferInv is about.
LEMMA BufferCases ==
  ASSUME IInv, [Next]_vars
  PROVE  \/ UNCHANGED <<sent, buffer, claim, readPublished, writePublished>>
              /\ (pc'[Producer] = "write" <=> pc[Producer] = "write")
         \/ Claimed \/ Publish \/ Consume \/ \E i \in Item : Write(i)
<1> USE ThreadsAssumption
    DEF Goto, readBarrier, writeBarrier, front, back
<1>p. pc \in [Threads -> {"idle", "claim", "write", "get", "read", "close"}]
      /\ Producer \in Threads /\ Consumer \in Threads /\ Closers \subseteq Threads
  BY DEF IInv, TypeOK, Threads
<1> DEFINE Same ==
  UNCHANGED <<sent, buffer, claim, readPublished, writePublished>>
    /\ (pc'[Producer] = "write" <=> pc[Producer] = "write")
<1>1. ASSUME NEW n \in 1 .. BufferSize + 1, Claim(n) PROVE Same
  BY <1>1, <1>p DEF Claim, ReadBarrier!Ask
<1>2. ASSUME ClaimThrows PROVE Same
  BY <1>2, <1>p DEF ClaimThrows
<1>3. ASSUME Get PROVE Same
  BY <1>3, <1>p DEF Get, WriteBarrier!Ask
<1>4. ASSUME Got \/ GetThrows \/ Read PROVE Same
  BY <1>4, <1>p DEF Got, GetThrows, Read
<1>5. ASSUME NEW k \in Closers, CloseWriteBarrier(k) \/ CloseReadBarrier(k) PROVE Same
  BY <1>5, <1>p DEF CloseWriteBarrier, CloseReadBarrier, WriteBarrier!Close, ReadBarrier!Close
<1>6. ASSUME AnswerClaim \/ AnswerGet PROVE Same
  BY <1>6 DEF AnswerClaim, AnswerGet, ReadBarrier!Answer, ReadBarrier!Grant,
    ReadBarrier!Refuse, WriteBarrier!Answer, WriteBarrier!Grant, WriteBarrier!Refuse
<1>7. ASSUME UNCHANGED vars PROVE Same
  BY <1>7 DEF vars
<1> QED
  BY <1>1, <1>2, <1>3, <1>4, <1>5, <1>6, <1>7 DEF Next, ProducerStep, ConsumerStep

LEMMA BufferStep == IInv /\ BufferInv /\ [Next]_vars => BufferInv'
<1> SUFFICES ASSUME IInv, BufferInv, [Next]_vars PROVE BufferInv'
  OBVIOUS
<1>0. /\ Initial <= readPublished /\ readPublished <= writePublished
      /\ writePublished <= Written /\ Written < nextToClaim
      /\ nextToClaim <= readPublished + BufferSize + 1
      /\ readPublished \in Int /\ writePublished \in Int /\ Written \in Int
      /\ nextToClaim \in Int /\ Len(sent) \in Nat
  BY Order
<1>n. /\ claim[1] \in Int /\ claim[2] \in Int /\ range[1] \in Int /\ range[2] \in Int
      /\ nextToRead \in Int
  BY NumbersAreIntegers DEF IInv
<1>p. pc \in [Threads -> {"idle", "claim", "write", "get", "read", "close"}]
      /\ Producer \in Threads /\ Consumer \in Threads /\ Producer # Consumer
  BY ThreadsAssumption DEF IInv, TypeOK, Threads
<1> USE DEF Goto, readBarrier, writeBarrier, front, back
<1>1. CASE UNCHANGED <<sent, buffer, claim, readPublished, writePublished>>
             /\ (pc'[Producer] = "write" <=> pc[Producer] = "write")
  BY <1>1 DEF BufferInv, Written
<1>2. CASE Claimed
  <2>1. /\ pc[Producer] = "claim" /\ pc'[Producer] = "write"
        /\ claim'[1] = nextToClaim
        /\ UNCHANGED <<sent, buffer, readPublished, writePublished>>
    BY <1>2, <1>p DEF Claimed
  <2>2. nextToClaim = writePublished + 1
    BY <2>1 DEF IInv, ProducerInv
  <2> QED
    BY <1>0, <2>1, <2>2 DEF BufferInv, Written
<1>3. CASE Publish
  <2>1. /\ pc[Producer] = "write" /\ pc'[Producer] = "idle"
        /\ claim[1] = claim[2] /\ writePublished' = claim[2] - 1
        /\ UNCHANGED <<sent, buffer, readPublished>>
    BY <1>3, <1>p DEF Publish, WriteBarrier!Publish
  <2> QED
    BY <2>1 DEF BufferInv, Written
<1>4. CASE Consume
  <2>1. /\ pc'[Producer] = pc[Producer] /\ readPublished < readPublished'
        /\ readPublished' = range[2] - 1
        /\ UNCHANGED <<sent, buffer, claim, writePublished>>
    BY <1>4, <1>p DEF Consume, ReadBarrier!Publish
  <2>2. \A s \in readPublished' + 1 .. Written : s \in readPublished + 1 .. Written
    BY <1>0, <1>n, <2>1
  <2> QED
    BY <2>1, <2>2 DEF BufferInv, Written
<1>5. ASSUME NEW item \in Item, Write(item) PROVE BufferInv'
  <2>1. /\ pc[Producer] = "write" /\ pc'[Producer] = "write" /\ claim[1] < claim[2]
        /\ buffer' = [buffer EXCEPT ![Slot(claim[1])] = item]
        /\ claim'[1] = claim[1] + 1
        /\ sent' = Append(sent, item)
        /\ UNCHANGED <<readPublished, writePublished>>
    BY <1>5 DEF Write
  <2>2. Written = claim[1] - 1 /\ claim[2] = nextToClaim
    BY <2>1 DEF BufferInv, IInv, ProducerInv
  <2>3. /\ Len(sent') = Len(sent) + 1 /\ sent'[Len(sent) + 1] = item
        /\ \A n \in 1 .. Len(sent) : sent'[n] = sent[n]
    BY <2>1 DEF IInv, TypeOK
  <2>4. Written' = claim[1]
    <3>1. Initial + Len(sent) = claim[1] - 1 /\ Written' = Initial + Len(sent')
      BY <2>2 DEF Written
    <3>2. Initial \in Int /\ Len(sent) \in Int /\ claim[1] \in Int
      BY <1>0, <1>n, Sizes
    <3> QED
      BY <2>3, <3>1, <3>2
  <2>5. buffer'[Slot(claim[1])] = item
        /\ \A n \in Slots : n # Slot(claim[1]) => buffer'[n] = buffer[n]
    <3>1. buffer \in [Slots -> Item] /\ Slot(claim[1]) \in Slots
      BY <1>n, SlotType DEF IInv, TypeOK
    <3> QED
      BY <2>1, <3>1
  <2>6. ASSUME NEW s \in readPublished + 1 .. claim[1]
        PROVE  buffer'[Slot(s)] = sent'[s - Initial]
    <3>1. CASE s = claim[1]
      <4>1. s - Initial = Len(sent) + 1
        <5>1. Initial + Len(sent) = claim[1] - 1
          BY <2>2 DEF Written
        <5>2. claim[1] \in Int /\ Len(sent) \in Int /\ Initial \in Int /\ s = claim[1]
          BY <1>0, <1>n, <3>1, Sizes
        <5> QED
          BY <5>1, <5>2
      <4> QED
        BY <2>3, <2>5, <3>1, <4>1
    <3>2. CASE s # claim[1]
      <4>1. /\ s \in Int /\ s - claim[1] < BufferSize /\ claim[1] - s < BufferSize
            /\ s \in readPublished + 1 .. Written
        <5>1. s \in Int /\ readPublished < s /\ s <= claim[1] /\ s # claim[1]
          BY <1>0, <1>n, <3>2
        <5>2. claim[1] <= readPublished + BufferSize /\ BufferSize \in Int
          <6>1. claim[1] < claim[2] /\ claim[2] <= readPublished + BufferSize + 1
            BY <1>0, <2>1, <2>2
          <6> QED
            BY <1>0, <1>n, <6>1, Sizes
        <5>3. BufferSize > 0 /\ Written = claim[1] - 1
          BY <2>2, Sizes
        <5>4. claim[1] \in Int /\ readPublished \in Int
          BY <1>0, <1>n
        <5>5. s - claim[1] < BufferSize /\ claim[1] - s < BufferSize
          BY <5>1, <5>2, <5>3, <5>4
        <5>6. s \in readPublished + 1 .. Written
          BY <5>1, <5>3, <5>4
        <5> QED
          BY <5>1, <5>5, <5>6
      <4>2. Slot(s) # Slot(claim[1]) /\ Slot(s) \in Slots
        BY <1>n, <3>2, <4>1, SlotsDiffer, SlotType
      <4>3. s - Initial \in 1 .. Len(sent)
        BY <1>0, <4>1, Sizes DEF Written
      <4>4. buffer[Slot(s)] = sent[s - Initial]
        BY <4>1 DEF BufferInv
      <4> QED
        BY <2>3, <2>5, <4>2, <4>3, <4>4
    <3> QED
      BY <3>1, <3>2
  <2>7. Written' = claim'[1] - 1
    BY <1>n, <2>1, <2>4
  <2>8. \A s \in readPublished' + 1 .. Written' : buffer'[Slot(s)] = sent'[s - Initial]
    BY <2>1, <2>4, <2>6
  <2> QED
    BY <2>1, <2>7, <2>8 DEF BufferInv
<1> QED
  BY <1>1, <1>2, <1>3, <1>4, <1>5, BufferCases

\* What the refinement makes of the state.
Queued == SubSeq(sent, readPublished - Initial + 1, writePublished - Initial)

Taken == IF pc[Consumer] = "read" THEN range[2] - range[1] ELSE 0

LEMMA QueuedIs ==
  ASSUME IInv, BufferInv
  PROVE  /\ Queued \in Seq(Item)
         /\ Len(Queued) = writePublished - readPublished
         /\ \A i \in 1 .. writePublished - readPublished :
              Queued[i] = sent[readPublished - Initial + i]
<1>1. /\ Initial <= readPublished /\ readPublished <= writePublished
      /\ writePublished <= Written
      /\ readPublished \in Int /\ writePublished \in Int /\ Len(sent) \in Nat
      /\ Initial \in Int
  BY Order, Sizes
<1> DEFINE m == readPublished - Initial + 1
           n == writePublished - Initial
<1>2. m \in Int /\ n \in Int /\ 1 <= m /\ n <= Len(sent)
  BY <1>1 DEF Written
<1>3. \A i \in m .. n : sent[i] \in Item
  BY <1>1, <1>2 DEF IInv, TypeOK
<1>4. n - m + 1 = writePublished - readPublished /\ (m <= n \/ n - m + 1 = 0)
  BY <1>1
<1>5. \A i \in Int : m + i - 1 = readPublished - Initial + i
  BY <1>1
<1>6. Queued = SubSeq(sent, m, n)
  BY DEF Queued
<1> HIDE DEF m, n
<1>7. /\ SubSeq(sent, m, n) \in Seq(Item)
      /\ Len(SubSeq(sent, m, n)) = IF m <= n THEN n - m + 1 ELSE 0
      /\ \A i \in 1 .. n - m + 1 : SubSeq(sent, m, n)[i] = sent[m + i - 1]
  BY <1>2, <1>3, SubSeqProperties
<1>8. Len(Queued) = writePublished - readPublished
  BY <1>2, <1>4, <1>6, <1>7
<1>9. \A i \in 1 .. writePublished - readPublished :
        Queued[i] = sent[readPublished - Initial + i]
  <2>1. \A i \in 1 .. n - m + 1 : Queued[i] = sent[m + i - 1]
    BY <1>6, <1>7
  <2>2. \A i \in 1 .. writePublished - readPublished :
          i \in Int /\ i \in 1 .. n - m + 1
    BY <1>1, <1>4
  <2> QED
    BY <1>5, <2>1, <2>2
<1> QED
  BY <1>6, <1>7, <1>8, <1>9

\* Nothing is added to the queue while an item is written.
LEMMA WritingIsUnseen ==
  ASSUME IInv, BufferInv, IInv', BufferInv', NEW item \in Item,
         sent' = Append(sent, item), UNCHANGED <<readPublished, writePublished>>
  PROVE  Queued' = Queued
<1>1. /\ Queued \in Seq(Item)
      /\ Len(Queued) = writePublished - readPublished
      /\ \A i \in 1 .. writePublished - readPublished :
           Queued[i] = sent[readPublished - Initial + i]
  BY QueuedIs
<1>2. (IInv /\ BufferInv =>
         /\ Queued \in Seq(Item)
         /\ Len(Queued) = writePublished - readPublished
         /\ \A i \in 1 .. writePublished - readPublished :
              Queued[i] = sent[readPublished - Initial + i])'
  BY QueuedIs, PTL
<1>3. /\ Queued' \in Seq(Item)
      /\ Len(Queued') = writePublished - readPublished
      /\ \A i \in 1 .. writePublished - readPublished :
           Queued'[i] = sent'[readPublished - Initial + i]
  BY <1>2
<1>4. /\ Initial <= readPublished /\ writePublished <= Initial + Len(sent)
      /\ readPublished \in Int /\ writePublished \in Int /\ Len(sent) \in Nat
      /\ Initial \in Int
  BY Order, Sizes DEF Written
<1>5. \A i \in 1 .. writePublished - readPublished :
        readPublished - Initial + i \in 1 .. Len(sent)
  BY <1>4
<1>6. \A i \in 1 .. Len(sent) : sent'[i] = sent[i]
  BY DEF IInv, TypeOK
<1>7. \A i \in 1 .. Len(Queued) : Queued'[i] = Queued[i]
  BY <1>1, <1>3, <1>5, <1>6
<1> QED
  BY <1>1, <1>3, <1>7, SeqEqual

LEMMA ImageStarts == Init => Image!Init
<1> SUFFICES ASSUME Init PROVE Image!Init
  OBVIOUS
<1>1. /\ sent = <<>> /\ readPublished = Initial /\ writePublished = Initial
      /\ pc[Consumer] = "idle" /\ batch = <<>>
  BY DEF Init, ReadBarrier!Init, WriteBarrier!Init, Threads
<1>2. Queued = <<>>
  <2>1. readPublished - Initial + 1 = 1 /\ writePublished - Initial = 0
    BY <1>1, Sizes
  <2> QED
    BY <2>1, SubSeqEmpty DEF Queued
<1>3. Taken = 0
  BY <1>1 DEF Taken
<1> QED
  BY <1>1, <1>2, <1>3 DEF Image!Init, Queued, Taken

\* publish() adds what was written since the last time, and there is room.
LEMMA PublishAdds ==
  ASSUME IInv, BufferInv, Publish, IInv', BufferInv'
  PROVE  \E n \in 1 .. BufferSize - Len(Queued) :
           \E items \in [1 .. n -> Item] : Queued' = Queued \o items
<1>1. /\ pc[Producer] = "write" /\ claim[1] = claim[2]
      /\ writePublished' = claim[2] - 1 /\ writePublished < writePublished'
      /\ UNCHANGED <<sent, readPublished>>
  BY DEF Publish, WriteBarrier!Publish, readBarrier, front
<1>2. /\ Initial <= readPublished /\ readPublished <= writePublished
      /\ writePublished <= Written /\ Written < nextToClaim
      /\ nextToClaim <= readPublished + BufferSize + 1
      /\ readPublished \in Int /\ writePublished \in Int /\ Written \in Int
      /\ nextToClaim \in Int /\ Len(sent) \in Nat /\ claim[2] \in Int
      /\ Initial \in Int /\ BufferSize \in Int
  BY Order, NumbersAreIntegers, Sizes DEF IInv
<1>3. writePublished' = Written
  BY <1>1, <1>2 DEF BufferInv
<1> DEFINE m == readPublished - Initial + 1
           k == writePublished - Initial
           n == writePublished' - Initial
           items == SubSeq(sent, k + 1, n)
<1>4. /\ m \in 1 .. Len(sent) + 1 /\ k \in m - 1 .. Len(sent) /\ n \in k .. Len(sent)
      /\ k \in Int /\ n \in Int /\ k < n /\ 0 <= k /\ n <= Len(sent)
      /\ n - k \in 1 .. BufferSize - (writePublished - readPublished)
  <2>1. /\ Initial <= readPublished /\ readPublished <= writePublished
        /\ writePublished < Initial + Len(sent) /\ writePublished' = Initial + Len(sent)
        /\ Initial + Len(sent) <= readPublished + BufferSize
    BY <1>1, <1>2, <1>3 DEF Written
  <2>2. /\ m \in Int /\ k \in Int /\ n \in Int /\ 1 <= m /\ m - 1 <= k /\ k < n
        /\ n = Len(sent) /\ n - k <= BufferSize - (writePublished - readPublished)
    BY <1>2, <2>1
  <2>3. BufferSize - (writePublished - readPublished) \in Int /\ Len(sent) \in Nat
    BY <1>2
  <2> HIDE DEF m, k, n
  <2> QED
    BY <2>2, <2>3
<1>5. Queued = SubSeq(sent, m, k) /\ Queued' = SubSeq(sent, m, n)
  BY <1>1 DEF Queued
<1> HIDE DEF m, k, n
<1>6. sent \in Seq(Item)
  BY DEF IInv, TypeOK
<1>7. Queued' = Queued \o items
  BY <1>4, <1>5, <1>6, ConcatAdjacentSubSeq
<1>8. items \in Seq(Item) /\ Len(items) = n - k
  <2>1. \A i \in k + 1 .. n : sent[i] \in Item
    BY <1>4, <1>6
  <2>2. k + 1 \in Int /\ n \in Int
    BY <1>4
  <2>3. items \in Seq(Item) /\ Len(items) = IF k + 1 <= n THEN n - (k + 1) + 1 ELSE 0
    BY <2>1, <2>2, SubSeqProperties
  <2> HIDE DEF items
  <2> QED
    BY <1>4, <2>3
<1> HIDE DEF items
<1>9. items \in [1 .. n - k -> Item]
  BY <1>8
<1>10. Len(Queued) = writePublished - readPublished
  BY QueuedIs
<1> QED
  BY <1>4, <1>7, <1>9, <1>10

\* consume() drops what was taken.
LEMMA ConsumeDrops ==
  ASSUME IInv, BufferInv, Consume, IInv', BufferInv'
  PROVE  Queued' = SubSeq(Queued, Taken + 1, Len(Queued))
<1>1. /\ pc[Consumer] = "read"
      /\ readPublished' = range[2] - 1
      /\ UNCHANGED <<sent, writePublished>>
  BY DEF Consume, ReadBarrier!Publish, writeBarrier, front
<1>2. /\ range[1] = readPublished + 1 /\ range[2] = nextToRead
      /\ nextToRead <= writePublished + 1 /\ range[1] < range[2]
  BY <1>1 DEF IInv, ConsumerInv
<1>3. /\ Initial <= readPublished /\ readPublished <= writePublished
      /\ readPublished \in Int /\ writePublished \in Int /\ range[2] \in Int
      /\ range[1] \in Int /\ nextToRead \in Int /\ Initial \in Int
  BY Order, NumbersAreIntegers, Sizes DEF IInv
<1>4. /\ Queued \in Seq(Item)
      /\ Len(Queued) = writePublished - readPublished
      /\ \A i \in 1 .. writePublished - readPublished :
           Queued[i] = sent[readPublished - Initial + i]
  BY QueuedIs
<1>5. (IInv /\ BufferInv =>
         /\ Queued \in Seq(Item)
         /\ Len(Queued) = writePublished - readPublished
         /\ \A i \in 1 .. writePublished - readPublished :
              Queued[i] = sent[readPublished - Initial + i])'
  BY QueuedIs, PTL
<1>6. /\ Queued' \in Seq(Item)
      /\ Len(Queued') = writePublished - readPublished'
      /\ \A i \in 1 .. writePublished - readPublished' :
           Queued'[i] = sent[readPublished' - Initial + i]
  BY <1>1, <1>5
<1> DEFINE L == Len(Queued)
           rest == SubSeq(Queued, Taken + 1, L)
<1>7. /\ readPublished' \in Int
      /\ Taken = readPublished' - readPublished /\ Taken \in Int /\ 0 <= Taken
      /\ Taken <= L /\ L \in Int /\ L - Taken = writePublished - readPublished'
  BY <1>1, <1>2, <1>3, <1>4 DEF Taken
<1> DEFINE m == Taken + 1
<1>a. \A i \in m .. L : Queued[i] \in Item
  <2>1. \A i \in m .. L : i \in 1 .. L
    BY <1>7
  <2> QED
    BY <1>4, <2>1, ElementOfSeq DEF L
<1>b. /\ m \in Int /\ L \in Int /\ L - m + 1 = L - Taken /\ (m <= L \/ L - m + 1 = 0)
      /\ \A i \in Int : m + i - 1 = Taken + i
  BY <1>7
<1> HIDE DEF m, L
<1>c. /\ SubSeq(Queued, m, L) \in Seq(Item)
      /\ Len(SubSeq(Queued, m, L)) = IF m <= L THEN L - m + 1 ELSE 0
      /\ \A i \in 1 .. L - m + 1 : SubSeq(Queued, m, L)[i] = Queued[m + i - 1]
  BY <1>a, <1>b, SubSeqProperties
<1>d. rest = SubSeq(Queued, m, L)
  BY DEF m, L
<1> HIDE DEF rest
<1>8. /\ rest \in Seq(Item) /\ Len(rest) = L - Taken
      /\ \A i \in 1 .. L - Taken : rest[i] = Queued[Taken + i]
  <2>1. Len(rest) = L - Taken
    BY <1>b, <1>c, <1>d
  <2>2. \A i \in 1 .. L - Taken : i \in Int /\ i \in 1 .. L - m + 1
    BY <1>7, <1>b
  <2>3. \A i \in 1 .. L - Taken : rest[i] = Queued[Taken + i]
    BY <1>b, <1>c, <1>d, <2>2
  <2> QED
    BY <1>c, <1>d, <2>1, <2>3
<1>9. \A i \in 1 .. Len(rest) : rest[i] = Queued'[i]
  <2> SUFFICES ASSUME NEW i \in 1 .. Len(rest) PROVE rest[i] = Queued'[i]
    OBVIOUS
  <2>1. i \in Int /\ i \in 1 .. L - Taken /\ i \in 1 .. writePublished - readPublished'
    BY <1>7, <1>8
  <2>2. Taken + i \in 1 .. writePublished - readPublished
    <3>1. Taken \in Int /\ 0 <= Taken /\ Taken = readPublished' - readPublished
      BY <1>7
    <3>2. readPublished \in Int /\ writePublished \in Int /\ readPublished' \in Int
      BY <1>3, <1>7
    <3>3. i \in Int /\ 1 <= i /\ i <= L - Taken /\ L \in Int
      BY <1>7, <2>1
    <3>4. Taken + i \in 1 .. L
      BY <3>1, <3>3
    <3> QED
      BY <1>4, <3>4 DEF L
  <2>3. readPublished - Initial + (Taken + i) = readPublished' - Initial + i
    <3>1. Taken = readPublished' - readPublished
      BY <1>7
    <3>2. readPublished \in Int /\ readPublished' \in Int /\ Initial \in Int
      BY <1>3, <1>7
    <3>3. i \in Int
      BY <2>1
    <3> HIDE DEF Taken
    <3> QED
      BY <3>1, <3>2, <3>3
  <2>4. rest[i] = sent[readPublished - Initial + (Taken + i)]
    BY <1>4, <1>8, <2>1, <2>2
  <2> QED
    BY <1>6, <2>1, <2>3, <2>4
<1>10. Len(rest) = Len(Queued')
  BY <1>6, <1>7, <1>8
<1>11. rest = Queued'
  BY <1>6, <1>8, <1>9, <1>10, SeqEqual
<1> QED
  BY <1>11 DEF rest, L

\* The consumer reads the item that stands at that place of the queue.
LEMMA ReadTakesTheNext ==
  ASSUME IInv, BufferInv, Read
  PROVE  /\ Len(batch) < Taken
         /\ batch' = Append(batch, Queued[Len(batch) + 1])
<1> DEFINE s == range[1] + Len(batch)
<1>1. /\ pc[Consumer] = "read" /\ s < range[2]
      /\ batch' = Append(batch, buffer[Slot(s)])
  BY DEF Read
<1>2. /\ range[1] = readPublished + 1 /\ range[2] = nextToRead
      /\ nextToRead <= writePublished + 1
  BY <1>1 DEF IInv, ConsumerInv
<1>3. /\ writePublished <= Written
      /\ readPublished \in Int /\ writePublished \in Int /\ range[2] \in Int
      /\ range[1] \in Int /\ nextToRead \in Int /\ Len(batch) \in Nat
      /\ Written \in Int /\ Initial \in Int
  BY Order, NumbersAreIntegers, Sizes DEF IInv
<1>4. s \in readPublished + 1 .. Written
      /\ Len(batch) + 1 \in 1 .. writePublished - readPublished
      /\ s - Initial = readPublished - Initial + (Len(batch) + 1)
  BY <1>1, <1>2, <1>3
<1>5. Len(batch) < Taken
  BY <1>1, <1>3 DEF Taken
<1> HIDE DEF s
<1>6. buffer[Slot(s)] = sent[s - Initial]
  BY <1>4 DEF BufferInv
<1>7. Queued[Len(batch) + 1] = sent[readPublished - Initial + (Len(batch) + 1)]
  BY <1>4, QueuedIs
<1> QED
  BY <1>1, <1>4, <1>5, <1>6, <1>7

LEMMA ImageSteps ==
  ASSUME IInv, BufferInv, [Next]_vars, IInv', BufferInv'
  PROVE  [Image!Next]_(Image!vars)
<1> USE ThreadsAssumption DEF Goto, readBarrier, writeBarrier, front, back
<1>p. pc \in [Threads -> {"idle", "claim", "write", "get", "read", "close"}]
      /\ Producer \in Threads /\ Consumer \in Threads /\ Closers \subseteq Threads
      /\ Producer # Consumer
  BY DEF IInv, TypeOK, Threads
<1> DEFINE Unseen == Queued' = Queued /\ Taken' = Taken /\ batch' = batch
<1>s. Unseen => [Image!Next]_(Image!vars)
  BY DEF Image!vars, Queued, Taken
<1>q. UNCHANGED <<sent, readPublished, writePublished>> => Queued' = Queued
  BY DEF Queued
<1>t. UNCHANGED <<range>> /\ (pc'[Consumer] = "read" <=> pc[Consumer] = "read")
        => Taken' = Taken
  BY DEF Taken
<1>1. ASSUME NEW n \in 1 .. BufferSize + 1, Claim(n) PROVE Unseen
  BY <1>1, <1>p, <1>q, <1>t DEF Claim, ReadBarrier!Ask
<1>2. ASSUME Claimed \/ ClaimThrows PROVE Unseen
  BY <1>2, <1>p, <1>q, <1>t DEF Claimed, ClaimThrows
<1>3. ASSUME NEW i \in Item, Write(i) PROVE Unseen
  <2>1. sent' = Append(sent, i)
        /\ UNCHANGED <<readPublished, writePublished, range, batch, pc>>
    BY <1>3 DEF Write
  <2> QED
    BY <1>t, <2>1, WritingIsUnseen
<1>4. CASE Publish
  <2>1. Taken' = Taken /\ batch' = batch
    BY <1>4, <1>p, <1>t DEF Publish
  <2>2. Image!Add
    BY <1>4, <2>1, PublishAdds DEF Image!Add, Queued, Taken
  <2> QED
    BY <2>2 DEF Image!Next
<1>5. ASSUME Get \/ GetThrows PROVE Unseen
  BY <1>5, <1>p, <1>q, <1>t DEF Get, GetThrows, WriteBarrier!Ask
<1>6. CASE Got
  <2>1. /\ pc[Consumer] = "get" /\ pc'[Consumer] = "read"
        /\ writeAnswer[Consumer] = "granted"
        /\ range'[1] = nextToRead /\ range'[2] = writeGot[Consumer] + 1
        /\ UNCHANGED <<batch, sent, readPublished, writePublished>>
    BY <1>6, <1>p DEF Got
  <2>2. /\ nextToRead = readPublished + 1
        /\ nextToRead <= writeGot[Consumer] /\ writeGot[Consumer] <= writePublished
    BY <2>1 DEF IInv, ConsumerInv
  <2>3. /\ readPublished \in Int /\ writePublished \in Int /\ nextToRead \in Int
        /\ writeGot[Consumer] \in Int
    BY NumbersAreIntegers DEF IInv, BarrierTypes
  <2>4. Len(Queued) = writePublished - readPublished
    BY QueuedIs
  <2>5. Taken = 0 /\ Taken' = (writeGot[Consumer] + 1) - nextToRead
    BY <2>1 DEF Taken
  <2>6. Taken' \in 1 .. Len(Queued)
    BY <2>2, <2>3, <2>4, <2>5
  <2>7. Queued' = Queued
    BY <1>q, <2>1
  <2>8. Image!Take
    BY <2>1, <2>5, <2>6, <2>7 DEF Image!Take, Queued, Taken
  <2> QED
    BY <2>8 DEF Image!Next
<1>7. CASE Read
  <2>1. Queued' = Queued /\ Taken' = Taken
    BY <1>7, <1>q, <1>t DEF Read
  <2>2. Image!Read
    BY <1>7, <2>1, ReadTakesTheNext DEF Image!Read, Queued, Taken
  <2> QED
    BY <2>2 DEF Image!Next
<1>8. CASE Consume
  <2>1. /\ pc[Consumer] = "read" /\ pc'[Consumer] = "idle" /\ batch' = <<>>
        /\ range[1] + Len(batch) = range[2]
    BY <1>8, <1>p DEF Consume
  <2>2. range[1] < range[2] /\ range[1] \in Int /\ range[2] \in Int /\ Len(batch) \in Nat
    BY <2>1, NumbersAreIntegers DEF IInv, ConsumerInv
  <2>3. Taken > 0 /\ Len(batch) = Taken /\ Taken' = 0
    BY <2>1, <2>2 DEF Taken
  <2>4. Image!GiveBack
    BY <1>8, <2>1, <2>3, ConsumeDrops DEF Image!GiveBack, Queued, Taken
  <2> QED
    BY <2>4 DEF Image!Next
<1>9. ASSUME NEW k \in Closers, CloseWriteBarrier(k) \/ CloseReadBarrier(k) PROVE Unseen
  BY <1>9, <1>p, <1>q, <1>t
     DEF CloseWriteBarrier, CloseReadBarrier, WriteBarrier!Close, ReadBarrier!Close
<1>10. ASSUME AnswerClaim \/ AnswerGet PROVE Unseen
  BY <1>10, <1>q, <1>t DEF AnswerClaim, AnswerGet, ReadBarrier!Answer, ReadBarrier!Grant,
    ReadBarrier!Refuse, WriteBarrier!Answer, WriteBarrier!Grant, WriteBarrier!Refuse
<1>11. ASSUME UNCHANGED vars PROVE Unseen
  BY <1>11, <1>q, <1>t DEF vars
<1> HIDE DEF Unseen
<1> QED
  BY <1>s, <1>1, <1>2, <1>3, <1>4, <1>5, <1>6, <1>7, <1>8, <1>9, <1>10, <1>11
     DEF Next, ProducerStep, ConsumerStep

\* ImplementsBoundedQueue: seen through what was published and not given back,
\* claim, write and publish() of the producer and get(), reads and consume() of
\* the consumer are those of a first-in first-out queue of BufferSize places,
\* whatever is waited for, granted or closed in between.
THEOREM ActsAsOneQueue == Spec => ImplementsBoundedQueue
<1>1. Init => Image!Init /\ IInv /\ BufferInv
  BY ImageStarts, IInvStarts, BufferStart
<1>2. IInv /\ BufferInv /\ [Next]_vars => IInv' /\ BufferInv'
  BY IInvSteps, BufferStep
<1>3. IInv /\ BufferInv /\ [Next]_vars /\ IInv' /\ BufferInv'
        => [Image!Next]_(Image!vars)
  BY ImageSteps
<1> QED
  BY <1>1, <1>2, <1>3, PTL DEF Spec, ImplementsBoundedQueue, Image!Spec
=============================================================================
