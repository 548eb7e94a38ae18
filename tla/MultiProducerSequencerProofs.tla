-------------------- MODULE MultiProducerSequencerProofs --------------------
(***************************************************************************)
(* Theorems about MultiProducerSequencer, for any producers, consumers and *)
(* closers, every size of the buffer and of the type, and any range of     *)
(* sequence numbers.  First its types and who holds an awaiter; then the   *)
(* order of the numbers, the waits and PublishedUpTo, for one consumer     *)
(* (OneConsumer).                                                          *)
(***************************************************************************)
EXTENDS MultiProducerSequencer, SequenceTraitsProofs, WellFoundedInduction

(***************************************************************************)
(* The slots                                                               *)
(***************************************************************************)
\* What a slot may hold, and the numbers a scan may look for.
Storable == Initial - BufferSize + 1 .. Last
Scannable == Initial - BufferSize + 1 .. Last + 1

\* What the arithmetic of the proofs is done with.
LEMMA Sizes ==
  /\ BufferSize \in Nat /\ BufferSize > 0 /\ Modulus % BufferSize = 0
  /\ Modulus \in Nat /\ Modulus = HalfRange + HalfRange /\ HalfRange \in Nat
  /\ HalfRange > 0 /\ Modulus > 0
  /\ Initial \in Int /\ Last \in Int /\ Initial <= Last
  /\ Last - (Initial - BufferSize) < HalfRange
  BY HalfRangeAssumption, RangeAssumption DEF Modulus

LEMMA SequencesAreInt ==
  /\ \A s \in Sequences : s \in Int /\ Initial <= s /\ s <= Last
  /\ \A s \in Storable : s \in Int
  /\ \A s \in Scannable : s \in Int
  /\ Sequences \subseteq Storable /\ Storable \subseteq Scannable
  /\ \A s \in Sequences : s + 1 \in Scannable
  /\ Initial \in Sequences /\ Last + 1 \in Scannable
  BY Sizes DEF Sequences, Storable, Scannable

\* Within the range in play the wrapped comparison is the order of integers.
LEMMA Order ==
  \A a, b \in Sequences :
    /\ Difference(a, b) = a - b
    /\ Precedes(a, b) <=> a < b
<1> SUFFICES ASSUME NEW a \in Sequences, NEW b \in Sequences
             PROVE  Difference(a, b) = a - b /\ (Precedes(a, b) <=> a < b)
  OBVIOUS
<1>1. /\ a \in Int /\ b \in Int /\ a - b < HalfRange /\ -HalfRange <= a - b
  BY Sizes DEF Sequences
<1> QED
  BY <1>1, DifferenceIsExact, PrecedesIsLess

LEMMA SlotType == \A s \in Int : Slot(s) \in Slots
  BY Sizes, WrapType, Remainder DEF Slot, Slots

\* Two numbers less than a buffer apart are in different slots.
LEMMA SlotsDiffer ==
  ASSUME NEW s \in Int, NEW r \in Int, s # r, s - r < BufferSize, r - s < BufferSize
  PROVE  Slot(s) # Slot(r)
BY Sizes, SlotsApart DEF Slot

\* No two numbers in play are stored as the same value.
LEMMA ValuesDiffer ==
  ASSUME NEW s \in Scannable, NEW r \in Scannable, s # r
  PROVE  Wrap(s) # Wrap(r)
<1>1. /\ s \in Int /\ r \in Int /\ s - r < Modulus /\ r - s < Modulus
  BY Sizes DEF Scannable
<1> QED
  BY <1>1, WrapsApart

\* Every slot holds a number of its own.
SlotsHold ==
  \A i \in Slots : \E n \in Storable : Slot(n) = i /\ published[i] = Wrap(n)

\* There is a number for each slot among any as many as the buffer is long.
LEMMA SlotIsReached ==
  ASSUME NEW i \in Slots
  PROVE  \E s \in Initial - BufferSize + 1 .. Initial : Slot(s) = i
<1> DEFINE r == (Initial - i) % BufferSize
           s == Initial - r
<1>1. i \in Int /\ 0 <= i /\ i < BufferSize
  BY Sizes DEF Slots
<1>2. r \in 0 .. BufferSize - 1 /\ \E k \in Int : r = (Initial - i) - k * BufferSize
  <2>1. Initial - i \in Int
    BY <1>1, Sizes
  <2> QED
    BY <2>1, Sizes, Remainder
<1>3. PICK k \in Int : r = (Initial - i) - k * BufferSize
  BY <1>2
<1> HIDE DEF r
<1>4. s \in Initial - BufferSize + 1 .. Initial /\ s = i + k * BufferSize
  <2>1. r \in Int /\ 0 <= r /\ r <= BufferSize - 1
    BY <1>2, Sizes
  <2>2. k * BufferSize \in Int
    BY Sizes
  <2> QED
    BY <1>1, <2>1, <2>2, <1>3, Sizes
<1> HIDE DEF s
<1>5. PICK j \in Int : Slot(s) = s - j * BufferSize
  <2>1. s \in Int
    BY <1>4, Sizes
  <2>2. \E j \in Int : Slot(s) = s - j * BufferSize
    BY <2>1, Sizes, SlotTurns DEF Slot
  <2> QED
    BY <2>2
<1> DEFINE n == Slot(s)
<1>6. n \in Int /\ 0 <= n /\ n < BufferSize
  BY <1>4, Sizes, SlotType DEF Slots
<1>7. n = i - (j - k) * BufferSize
  <2>1. (j - k) * BufferSize = j * BufferSize - k * BufferSize
    BY Sizes
  <2> QED
    BY <1>1, <1>4, <1>5, <2>1, Sizes
<1> HIDE DEF n
<1>8. n = i
  <2>1. n - 0 * BufferSize = i - (j - k) * BufferSize
    BY <1>6, <1>7, Sizes
  <2>2. n - i < BufferSize /\ i - n < BufferSize
    BY <1>1, <1>6, Sizes
  <2>3. j - k \in Int /\ 0 \in Int
    OBVIOUS
  <2> QED
    BY <1>1, <1>6, <2>1, <2>2, <2>3, Sizes, Apart
<1> QED
  BY <1>4, <1>8 DEF n

\* A slot does not hold two numbers ...
LEMMA HoldsOne ==
  ASSUME NEW s \in Scannable, NEW r \in Scannable, s # r,
         Slot(s) = Slot(r), Holds(r)
  PROVE  ~Holds(s)
BY ValuesDiffer DEF Holds

\* ... and none holds the number after the last.
LEMMA NoneAfterLast ==
  ASSUME SlotsHold PROVE ~Holds(Last + 1)
<1>1. Last + 1 \in Scannable /\ Slot(Last + 1) \in Slots
  BY SequencesAreInt, SlotType
<1>2. PICK n \in Storable : published[Slot(Last + 1)] = Wrap(n)
  BY <1>1 DEF SlotsHold
<1>3. n \in Scannable /\ n # Last + 1
  BY Sizes DEF Storable, Scannable
<1> QED
  BY <1>1, <1>2, <1>3, ValuesDiffer DEF Holds

\* Hence a scan does not run past the last number.
LEMMA ScanStays ==
  ASSUME SlotsHold, NEW s \in Sequences, Holds(s + 1)
  PROVE  s + 1 \in Sequences
BY NoneAfterLast, Sizes DEF Sequences

\* What storing a number does to the slots.
LEMMA Stored ==
  ASSUME published \in [Slots -> 0 .. Modulus - 1], SlotsHold,
         NEW s \in Sequences, Store(s)
  PROVE  /\ published' \in [Slots -> 0 .. Modulus - 1]
         /\ SlotsHold'
         /\ Holds(s)'
         /\ \A n \in Scannable : n # s => (Holds(n)' <=> Holds(n) /\ Slot(n) # Slot(s))
<1>1. s \in Int /\ s \in Storable /\ s \in Scannable /\ Slot(s) \in Slots
      /\ Wrap(s) \in 0 .. Modulus - 1
  BY SequencesAreInt, SlotType, WrapType
<1>2. \A i \in Slots : published'[i] = IF i = Slot(s) THEN Wrap(s) ELSE published[i]
  BY DEF Store
<1>3. published' \in [Slots -> 0 .. Modulus - 1]
  BY <1>1 DEF Store
<1>4. SlotsHold'
  BY <1>1, <1>2 DEF SlotsHold
<1>5. ASSUME NEW n \in Scannable, n # s
      PROVE  Holds(n)' <=> Holds(n) /\ Slot(n) # Slot(s)
  <2>1. Slot(n) \in Slots /\ Wrap(n) # Wrap(s)
    BY <1>1, <1>5, SequencesAreInt, SlotType, ValuesDiffer
  <2> QED
    BY <1>2, <2>1 DEF Holds
<1> QED
  BY <1>1, <1>2, <1>3, <1>4, <1>5 DEF Holds

(***************************************************************************)
(* Types                                                                   *)
(***************************************************************************)
Types == TypeOK /\ SlotsHold

LEMMA TypesStart == Init => Types
<1> SUFFICES ASSUME Init PROVE Types
  OBVIOUS
<1> USE SequencesAreInt, Sizes DEF Init
<1> DEFINE first(i) == CHOOSE s \in Initial - BufferSize + 1 .. Initial : Slot(s) = i
<1>1. \A i \in Slots : first(i) \in Initial - BufferSize + 1 .. Initial /\ Slot(first(i)) = i
  BY SlotIsReached
<1>2. published = [i \in Slots |-> Wrap(first(i))]
  OBVIOUS
<1> HIDE DEF first
<1>3. \A i \in Slots : first(i) \in Storable /\ first(i) \in Int
  BY <1>1 DEF Storable
<1>4. SlotsHold /\ published \in [Slots -> 0 .. Modulus - 1]
  BY <1>1, <1>2, <1>3, WrapType DEF SlotsHold
<1>5. /\ nextToClaim \in Initial + 1 .. Last + 1
      /\ awaiters \subseteq Consumers /\ closed \in BOOLEAN /\ shut \in BOOLEAN
  <2>1. nextToClaim \in Initial + 1 .. Last + 1
    OBVIOUS
  <2>2. awaiters \subseteq Consumers
    OBVIOUS
  <2>3. closed \in BOOLEAN /\ shut \in BOOLEAN
    OBVIOUS
  <2> QED
    BY <2>1, <2>2, <2>3
<1>6. Initial \in Initial .. Last + 1
  OBVIOUS
<1>7. /\ consumed \in [Consumers -> Sequences] /\ target \in [Consumers -> Sequences]
      /\ known \in [Consumers -> Sequences]
      /\ event \in [Consumers -> {"not_set", "set", "canceled"}]
  OBVIOUS
<1>8. claim \in [Producers -> Sequences \X (Initial .. Last + 1)]
  BY <1>6
<1>9. /\ pc \in [Threads -> Labels]
      /\ seen \in [Threads -> Sequences]
      /\ goal \in [Threads -> Initial .. Last + 1]
      /\ sawClosed \in [Threads -> BOOLEAN]
  BY <1>6 DEF Labels
<1>10. held \in [Threads -> SUBSET Consumers] /\ ready \in [Threads -> SUBSET Consumers]
  OBVIOUS
<1> QED
  BY <1>4, <1>5, <1>7, <1>8, <1>9, <1>10 DEF Types, TypeOK

\* The numbers among what TypeOK says.
LEMMA NumbersAreInt ==
  ASSUME TypeOK
  PROVE  /\ nextToClaim \in Int
         /\ \A t \in Threads : goal[t] \in Int /\ seen[t] \in Int /\ seen[t] \in Sequences
         /\ \A c \in Consumers :
              /\ consumed[c] \in Int /\ target[c] \in Int /\ known[c] \in Int
              /\ consumed[c] \in Sequences /\ target[c] \in Sequences /\ known[c] \in Sequences
         /\ \A p \in Producers :
              /\ claim[p][1] \in Sequences /\ claim[p][1] \in Int
              /\ claim[p][2] \in Int /\ claim[p][2] <= Last + 1
              /\ claim[p] = <<claim[p][1], claim[p][2]>>
<1> USE DEF TypeOK
<1>1. nextToClaim \in Int
  BY Sizes
<1>2. \A t \in Threads : seen[t] \in Sequences /\ goal[t] \in Initial .. Last + 1
  OBVIOUS
<1>3. \A c \in Consumers :
        consumed[c] \in Sequences /\ target[c] \in Sequences /\ known[c] \in Sequences
  OBVIOUS
<1>4. ASSUME NEW p \in Producers
      PROVE  /\ claim[p][1] \in Sequences /\ claim[p][2] \in Initial .. Last + 1
             /\ claim[p] = <<claim[p][1], claim[p][2]>>
  <2>1. claim[p] \in Sequences \X (Initial .. Last + 1)
    OBVIOUS
  <2> QED
    BY <2>1
<1>5. \A n \in Initial .. Last + 1 : n \in Int /\ n <= Last + 1
  BY Sizes
<1> QED
  BY <1>1, <1>2, <1>3, <1>4, <1>5, SequencesAreInt

\* Sorting awaiters changes what is known, held, ready and aimed at, and keeps
\* their types.
LEMMA SplitTypes ==
  ASSUME TypeOK, NEW t \in Threads, NEW S \in SUBSET Consumers, Split(t, S)
  PROVE  /\ held' \in [Threads -> SUBSET Consumers] /\ ready' \in [Threads -> SUBSET Consumers]
         /\ known' \in [Consumers -> Sequences]
         /\ goal' \in [Threads -> Initial .. Last + 1]
<1> USE DEF TypeOK
<1>1. Unsatisfied(S, seen[t]) \in SUBSET Consumers
  BY DEF Unsatisfied
<1>2. held' \in [Threads -> SUBSET Consumers] /\ ready' \in [Threads -> SUBSET Consumers]
  BY <1>1 DEF Split
<1>3. known' \in [Consumers -> Sequences]
  BY DEF Split
<1>4. goal' \in [Threads -> Initial .. Last + 1]
  <2>1. ASSUME NEW a \in Consumers
        PROVE  seen[t] + Difference(target[a], seen[t]) \in Initial .. Last + 1
    <3>1. seen[t] + Difference(target[a], seen[t]) = target[a]
      BY NumbersAreInt, Order
    <3> QED
      BY <3>1, NumbersAreInt, SequencesAreInt, Sizes
  <2>2. goal' = goal \/ \E a \in Consumers :
          goal' = [goal EXCEPT ![t] = seen[t] + Difference(target[a], seen[t])]
    BY <1>1 DEF Split
  <2> QED
    BY <2>1, <2>2
<1> QED
  BY <1>2, <1>3, <1>4

\* The steps, with what a claim asks for bounded by the buffer.
LEMMA StepCases ==
  ASSUME TypeOK, [Next]_vars
  PROVE  \/ \E p \in Producers, n \in 1 .. BufferSize + 1 :
              nextToClaim + n - 1 <= Last /\ ClaimCount(p, n)
         \/ \E p \in Producers :
              \/ Granted(p) \/ Refused(p) \/ PublishRest(p) \/ PublishFront(p)
              \/ Exchange(p) \/ StartScan(p) \/ ScanNext(p) \/ EndScan(p)
              \/ Requeue(p) \/ Rescan(p) \/ Retake(p) \/ LoadClosed(p)
         \/ \E c \in Consumers :
              \/ \E s \in Sequences : Wait(c, s)
              \/ Enqueue(c) \/ LoadPublished(c) \/ Check(c) \/ TakeAwaiters(c)
              \/ Resume(c) \/ Consume(c)
         \/ \E x \in Closers : Close(x) \/ CloseBarrier(x)
         \/ \E t \in Threads :
              \/ TakeAll(t) /\ t \notin Consumers
              \/ \E a \in Consumers : ResumeAwaiter(t, a) \/ CancelAwaiter(t, a)
              \/ ResumedAll(t) \/ CancelledAll(t)
         \/ UNCHANGED vars
<1>1. ASSUME NEW p \in Producers, ClaimOne(p)
      PROVE  \E n \in 1 .. BufferSize + 1 : nextToClaim + n - 1 <= Last /\ ClaimCount(p, n)
  BY <1>1, NumbersAreInt, Sizes DEF ClaimOne
<1>2. ASSUME NEW p \in Producers, NEW m \in 2 .. BufferSize + 1, ClaimUpTo(p, m)
      PROVE  \E n \in 1 .. BufferSize + 1 : nextToClaim + n - 1 <= Last /\ ClaimCount(p, n)
  <2> DEFINE granted == IF m < BufferSize THEN m ELSE BufferSize
  <2>1. granted \in 1 .. BufferSize + 1
    BY Sizes
  <2>2. nextToClaim + granted - 1 <= Last /\ ClaimCount(p, granted)
    BY <1>2 DEF ClaimUpTo
  <2> QED
    BY <2>1, <2>2
<1> QED
  BY <1>1, <1>2, ThreadsAssumption
     DEF Next, ProducerStep, ConsumerStep, CloserStep, ListStep, Threads

LEMMA TypesStep == Types /\ [Next]_vars => Types'
<1> SUFFICES ASSUME Types, [Next]_vars PROVE Types'
  OBVIOUS
<1>0. TypeOK /\ SlotsHold
  BY DEF Types
<1> USE <1>0, SequencesAreInt
    DEF Types, TypeOK, Labels, Threads, Goto, shared, claims, waits, locals, vars
<1>a. UNCHANGED published => SlotsHold'
  BY DEF SlotsHold
<1>1. ASSUME NEW p \in Producers, NEW n \in 1 .. BufferSize + 1,
             nextToClaim + n - 1 <= Last, ClaimCount(p, n)
      PROVE  Types'
  <2>1. nextToClaim' \in Initial + 1 .. Last + 1
    BY <1>1, Sizes DEF ClaimCount
  <2>2. claim' \in [Producers -> Sequences \X (Initial .. Last + 1)]
    BY <1>1, Sizes DEF ClaimCount, Sequences
  <2> QED
    BY <1>1, <1>a, <2>1, <2>2 DEF ClaimCount
<1>2. ASSUME NEW p \in Producers, Granted(p) PROVE Types'
  <2>1. goal' \in [Threads -> Initial .. Last + 1]
    BY <1>2, Sizes DEF Granted, Sequences
  <2> QED
    BY <1>2, <1>a, <2>1 DEF Granted
<1>3. ASSUME NEW p \in Producers, Refused(p) PROVE Types'
  <2>1. claim' \in [Producers -> Sequences \X (Initial .. Last + 1)]
    BY <1>3, Sizes DEF Refused, Sequences
  <2> QED
    BY <1>3, <1>a, <2>1 DEF Refused
<1>4. ASSUME NEW p \in Producers, PublishRest(p) PROVE Types'
  <2>1. goal[p] \in Sequences /\ goal[p] + 1 \in Initial .. Last + 1
    BY <1>4, Sizes DEF PublishRest, Sequences
  <2>2. published' \in [Slots -> 0 .. Modulus - 1] /\ SlotsHold'
    BY <1>4, <2>1, Stored DEF PublishRest
  <2>3. goal' \in [Threads -> Initial .. Last + 1]
    BY <1>4, <2>1 DEF PublishRest
  <2> QED
    BY <1>4, <2>2, <2>3 DEF PublishRest
<1>5. ASSUME NEW p \in Producers, PublishFront(p) PROVE Types'
  <2>1. claim[p][1] \in Sequences
    OBVIOUS
  <2>2. published' \in [Slots -> 0 .. Modulus - 1] /\ SlotsHold'
    BY <1>5, <2>1, Stored DEF PublishFront
  <2>3. claim' \in [Producers -> Sequences \X (Initial .. Last + 1)]
        /\ goal' \in [Threads -> Initial .. Last + 1]
    BY <1>5, Sizes DEF PublishFront, Sequences
  <2> QED
    BY <1>5, <2>2, <2>3 DEF PublishFront
<1>6. ASSUME NEW p \in Producers, Exchange(p) PROVE Types'
  BY <1>6, <1>a DEF Exchange, Take
<1>7. ASSUME NEW p \in Producers, StartScan(p) PROVE Types'
  BY <1>7, <1>a DEF StartScan
<1>8. ASSUME NEW p \in Producers, ScanNext(p) PROVE Types'
  <2>1. seen[p] + 1 \in Sequences
    BY <1>8, ScanStays DEF ScanNext
  <2> QED
    BY <1>8, <1>a, <2>1 DEF ScanNext
<1>9. ASSUME NEW p \in Producers, EndScan(p) PROVE Types'
  <2>1. /\ held' \in [Threads -> SUBSET Consumers] /\ ready' \in [Threads -> SUBSET Consumers]
        /\ known' \in [Consumers -> Sequences]
        /\ goal' \in [Threads -> Initial .. Last + 1]
    BY <1>9, SplitTypes DEF EndScan
  <2> QED
    BY <1>9, <1>a, <2>1 DEF EndScan
<1>10. ASSUME NEW p \in Producers, Requeue(p) PROVE Types'
  BY <1>10, <1>a DEF Requeue, Push
<1>11. ASSUME NEW p \in Producers, Rescan(p) PROVE Types'
  <2>1. Holds(seen[p] + 1) => seen[p] + 1 \in Sequences
    BY ScanStays
  <2>2. PICK label \in {"retake", "rescan", "loadClosed"} : pc' = [pc EXCEPT ![p] = label]
    BY <1>11 DEF Rescan
  <2>3. seen' \in [Threads -> Sequences]
    BY <1>11, <2>1 DEF Rescan
  <2>4. UNCHANGED <<shared, claims, waits, goal, sawClosed, held, ready>>
    BY <1>11 DEF Rescan
  <2> QED
    BY <1>a, <2>2, <2>3, <2>4
<1>12. ASSUME NEW p \in Producers, Retake(p) PROVE Types'
  BY <1>12, <1>a DEF Retake, Take
<1>13. ASSUME NEW p \in Producers, LoadClosed(p) PROVE Types'
  BY <1>13, <1>a DEF LoadClosed
<1>14. ASSUME NEW c \in Consumers, NEW s \in Sequences, Wait(c, s) PROVE Types'
  <2>1. s \in Initial .. Last + 1
    BY Sizes DEF Sequences
  <2> QED
    BY <1>14, <1>a, <2>1 DEF Wait
<1>15. ASSUME NEW c \in Consumers, Enqueue(c) PROVE Types'
  BY <1>15, <1>a DEF Enqueue, Push
<1>16. ASSUME NEW c \in Consumers, LoadPublished(c) PROVE Types'
  <2>1. Holds(seen[c] + 1) => seen[c] + 1 \in Sequences
    BY ScanStays
  <2> QED
    BY <1>16, <1>a, <2>1 DEF LoadPublished
<1>17. ASSUME NEW c \in Consumers, Check(c) PROVE Types'
  BY <1>17, <1>a DEF Check
<1>18. ASSUME NEW c \in Consumers, TakeAwaiters(c) PROVE Types'
  <2>1. /\ held' \in [Threads -> SUBSET Consumers] /\ ready' \in [Threads -> SUBSET Consumers]
        /\ known' \in [Consumers -> Sequences]
        /\ goal' \in [Threads -> Initial .. Last + 1]
    BY <1>18, SplitTypes DEF TakeAwaiters
  <2> QED
    BY <1>18, <1>a, <2>1 DEF TakeAwaiters
<1>19. ASSUME NEW c \in Consumers, Resume(c) PROVE Types'
  BY <1>19, <1>a DEF Resume
<1>20. ASSUME NEW c \in Consumers, Consume(c) PROVE Types'
  BY <1>20, <1>a DEF Consume
<1>21. ASSUME NEW x \in Closers, Close(x) PROVE Types'
  BY <1>21, <1>a DEF Close
<1>22. ASSUME NEW x \in Closers, CloseBarrier(x) PROVE Types'
  BY <1>22, <1>a DEF CloseBarrier
<1>23. ASSUME NEW t \in Threads, TakeAll(t) PROVE Types'
  BY <1>23, <1>a DEF TakeAll, Take
<1>24. ASSUME NEW t \in Threads, NEW a \in Consumers, ResumeAwaiter(t, a) PROVE Types'
  BY <1>24, <1>a DEF ResumeAwaiter
<1>25. ASSUME NEW t \in Threads, ResumedAll(t) PROVE Types'
  <2>1. Initial \in Initial .. Last + 1
    BY Sizes
  <2> QED
    BY <1>25, <1>a, <2>1 DEF ResumedAll, Leave
<1>26. ASSUME NEW t \in Threads, NEW a \in Consumers, CancelAwaiter(t, a) PROVE Types'
  BY <1>26, <1>a DEF CancelAwaiter
<1>27. ASSUME NEW t \in Threads, CancelledAll(t) PROVE Types'
  BY <1>27, <1>a DEF CancelledAll
<1>28. CASE UNCHANGED vars
  BY <1>28, <1>a
<1> QED
  BY <1>1, <1>2, <1>3, <1>4, <1>5, <1>6, <1>7, <1>8, <1>9, <1>10, <1>11, <1>12,
     <1>13, <1>14, <1>15, <1>16, <1>17, <1>18, <1>19, <1>20, <1>21, <1>22, <1>23,
     <1>24, <1>25, <1>26, <1>27, <1>28, StepCases

(***************************************************************************)
(* Where the threads are                                                   *)
(***************************************************************************)
Places ==
  /\ \A p \in Producers :
       pc[p] \in {"idle", "claim", "publish", "exchange", "head", "scan", "requeue",
                 "rescan", "retake", "loadClosed", "takeAll", "resume", "cancel"}
  /\ \A c \in Consumers :
       pc[c] \in {"idle", "enqueue", "load", "check", "take", "resume", "cancel",
                 "suspended", "read"}
  /\ \A x \in Closers : pc[x] \in {"idle", "takeAll", "cancel", "closeBarrier"}

\* A thread holds awaiters only where it is going to push, sort, resume or
\* cancel them.
HoldingPlaces ==
  \A t \in Threads :
    /\ held[t] # {} =>
         \/ pc[t] \in {"enqueue", "head", "scan", "requeue", "loadClosed", "cancel"}
         \/ pc[t] = "resume" /\ sawClosed[t]
    /\ ready[t] # {} =>
         pc[t] \in {"enqueue", "load", "check", "take", "head", "scan", "requeue",
                   "rescan", "retake", "loadClosed", "takeAll", "resume"}
    /\ t \in Closers => ready[t] = {} /\ ~sawClosed[t]

\* What a thread saw closed is closed, and nothing is cancelled before.
ClosedIsClosed ==
  \A t \in Threads :
    /\ sawClosed[t] => closed
    /\ pc[t] \in {"takeAll", "cancel"} => closed
    /\ pc[t] = "takeAll" => t \in Closers \/ sawClosed[t]

Phases == Places /\ HoldingPlaces /\ ClosedIsClosed

LEMMA PhasesStart == Init => Phases
  BY ThreadsAssumption
     DEF Init, Phases, Places, HoldingPlaces, ClosedIsClosed, Threads

LEMMA PhasesStep == TypeOK /\ Phases /\ [Next]_vars => Phases'
<1> SUFFICES ASSUME TypeOK, Phases, [Next]_vars PROVE Phases'
  OBVIOUS
<1> USE ThreadsAssumption
    DEF TypeOK, Phases, Places, HoldingPlaces, ClosedIsClosed, Threads, Goto,
        shared, claims, waits, locals, vars
<1>1. ASSUME NEW p \in Producers, NEW n \in 1 .. BufferSize + 1,
             nextToClaim + n - 1 <= Last, ClaimCount(p, n)
      PROVE Phases'
  BY <1>1 DEF ClaimCount
<1>2. ASSUME NEW p \in Producers, Granted(p) PROVE Phases'
  BY <1>2 DEF Granted
<1>3. ASSUME NEW p \in Producers, Refused(p) PROVE Phases'
  BY <1>3 DEF Refused
<1>4. ASSUME NEW p \in Producers, PublishRest(p) PROVE Phases'
  BY <1>4 DEF PublishRest, Store
<1>5. ASSUME NEW p \in Producers, PublishFront(p) PROVE Phases'
  BY <1>5 DEF PublishFront, Store
<1>6. ASSUME NEW p \in Producers, Exchange(p) PROVE Phases'
  BY <1>6 DEF Exchange, Take
<1>7. ASSUME NEW p \in Producers, StartScan(p) PROVE Phases'
  BY <1>7 DEF StartScan
<1>8. ASSUME NEW p \in Producers, ScanNext(p) PROVE Phases'
  BY <1>8 DEF ScanNext
<1>9. ASSUME NEW p \in Producers, EndScan(p) PROVE Phases'
  BY <1>9 DEF EndScan, Split, Unsatisfied
<1>10. ASSUME NEW p \in Producers, Requeue(p) PROVE Phases'
  BY <1>10 DEF Requeue, Push
<1>11. ASSUME NEW p \in Producers, Rescan(p) PROVE Phases'
  <2>1. PICK label \in {"retake", "rescan", "loadClosed"} :
          pc' = [pc EXCEPT ![p] = label]
    BY <1>11 DEF Rescan
  <2>2. pc[p] = "rescan" /\ UNCHANGED <<shared, sawClosed, held, ready>>
    BY <1>11 DEF Rescan
  <2> QED
    BY <2>1, <2>2
<1>12. ASSUME NEW p \in Producers, Retake(p) PROVE Phases'
  BY <1>12 DEF Retake, Take
<1>13. ASSUME NEW p \in Producers, LoadClosed(p) PROVE Phases'
  BY <1>13 DEF LoadClosed
<1>14. ASSUME NEW c \in Consumers, NEW s \in Sequences, Wait(c, s) PROVE Phases'
  BY <1>14 DEF Wait
<1>15. ASSUME NEW c \in Consumers, Enqueue(c) PROVE Phases'
  BY <1>15 DEF Enqueue, Push
<1>16. ASSUME NEW c \in Consumers, LoadPublished(c) PROVE Phases'
  <2>1. PICK label \in {"load", "check"} : pc' = [pc EXCEPT ![c] = label]
    <3>1. Holds(seen[c] + 1) => pc' = [pc EXCEPT ![c] = "load"]
      BY <1>16 DEF LoadPublished
    <3>2. ~Holds(seen[c] + 1) => pc' = [pc EXCEPT ![c] = "check"]
      BY <1>16 DEF LoadPublished
    <3> QED
      BY <3>1, <3>2
  <2>2. pc[c] = "load" /\ UNCHANGED <<shared, sawClosed, held, ready>>
    BY <1>16 DEF LoadPublished
  <2> QED
    BY <2>1, <2>2
<1>17. ASSUME NEW c \in Consumers, Check(c) PROVE Phases'
  BY <1>17 DEF Check
<1>18. ASSUME NEW c \in Consumers, TakeAwaiters(c) PROVE Phases'
  BY <1>18 DEF TakeAwaiters, Split, Unsatisfied
<1>19. ASSUME NEW c \in Consumers, Resume(c) PROVE Phases'
  BY <1>19 DEF Resume
<1>20. ASSUME NEW c \in Consumers, Consume(c) PROVE Phases'
  BY <1>20 DEF Consume
<1>21. ASSUME NEW x \in Closers, Close(x) PROVE Phases'
  BY <1>21 DEF Close
<1>22. ASSUME NEW x \in Closers, CloseBarrier(x) PROVE Phases'
  BY <1>22 DEF CloseBarrier
<1>23. ASSUME NEW t \in Threads, TakeAll(t), t \notin Consumers PROVE Phases'
  <2>1. /\ pc[t] = "takeAll" /\ UNCHANGED <<closed, sawClosed, ready>>
        /\ held' = [held EXCEPT ![t] = awaiters]
        /\ pc' = [pc EXCEPT ![t] = IF t \in Closers THEN "cancel" ELSE "resume"]
    BY <1>23 DEF TakeAll, Take
  <2> QED
    BY <1>23, <2>1
<1>24. ASSUME NEW t \in Threads, NEW a \in Consumers, ResumeAwaiter(t, a) PROVE Phases'
  BY <1>24 DEF ResumeAwaiter
<1>25. ASSUME NEW t \in Threads, ResumedAll(t) PROVE Phases'
  <2>1. /\ pc[t] = "resume" /\ ready[t] = {} /\ UNCHANGED <<closed, held, ready>>
        /\ sawClosed' = [sawClosed EXCEPT ![t] = FALSE]
        /\ pc' = [pc EXCEPT ![t] = IF sawClosed[t] THEN "cancel"
                                  ELSE IF t \in Consumers THEN "suspended" ELSE "idle"]
    BY <1>25 DEF ResumedAll, Leave
  <2>2. t \notin Closers
    BY <2>1
  <2>3. Places'
    BY <2>1, <2>2
  <2>4. HoldingPlaces'
    BY <2>1, <2>2
  <2>5. ClosedIsClosed'
    BY <2>1, <2>2
  <2> QED
    BY <2>3, <2>4, <2>5
<1>26. ASSUME NEW t \in Threads, NEW a \in Consumers, CancelAwaiter(t, a) PROVE Phases'
  BY <1>26 DEF CancelAwaiter
<1>27. ASSUME NEW t \in Threads, CancelledAll(t) PROVE Phases'
  <2>1. PICK label \in {"suspended", "idle", "closeBarrier"} :
          /\ pc' = [pc EXCEPT ![t] = label]
          /\ label = "suspended" => t \in Consumers
          /\ label = "idle" => t \in Producers
          /\ label = "closeBarrier" => t \in Closers
    BY <1>27 DEF CancelledAll
  <2>2. /\ pc[t] = "cancel" /\ held[t] = {}
        /\ UNCHANGED <<shared, claims, waits, locals>>
    BY <1>27 DEF CancelledAll
  <2>3. Places'
    BY <2>1, <2>2
  <2>4. HoldingPlaces'
    BY <2>1, <2>2
  <2>5. ClosedIsClosed'
    BY <2>1, <2>2
  <2> QED
    BY <2>3, <2>4, <2>5
<1>28. CASE UNCHANGED vars
  BY <1>28
<1> QED
  BY <1>1, <1>2, <1>3, <1>4, <1>5, <1>6, <1>7, <1>8, <1>9, <1>10, <1>11,
     <1>12, <1>13, <1>14, <1>15, <1>16, <1>17, <1>18, <1>19, <1>20, <1>21,
     <1>22, <1>23, <1>24, <1>25, <1>26, <1>27, <1>28, StepCases

(***************************************************************************)
(* The lists                                                               *)
(***************************************************************************)
\* Thread t moves awaiters between the list and its own, and every one ends in
\* one of the three.
Transfer(t) ==
  /\ \A u \in Threads \ {t} : held'[u] = held[u] /\ ready'[u] = ready[u]
  /\ awaiters' \cup held'[t] \cup ready'[t] = awaiters \cup held[t] \cup ready[t]
  /\ awaiters' \cap (held'[t] \cup ready'[t]) = {}
  /\ held'[t] \cap ready'[t] = {}

\* Nobody else notices.
LEMMA Moves ==
  ASSUME OneOwner, NEW t \in Threads,
         Transfer(t)
  PROVE  OneOwner' /\ \A c \in Consumers : Listed(c)' <=> Listed(c)
<1>1. \A u \in Threads \ {t} : Held(u)' = Held(u)
  BY DEF Held, Transfer
<1>2. awaiters' \cup Held(t)' = awaiters \cup Held(t)
  BY DEF Held, Transfer
<1>3. OneOwner'
  <2>1. \A u \in Threads : awaiters' \cap Held(u)' = {} /\ held'[u] \cap ready'[u] = {}
    <3> SUFFICES ASSUME NEW u \in Threads, u # t
                 PROVE  awaiters' \cap Held(u)' = {} /\ held'[u] \cap ready'[u] = {}
      BY DEF Held, Transfer
    <3>1. awaiters \cap Held(u) = {} /\ Held(t) \cap Held(u) = {} /\ held[u] \cap ready[u] = {}
      BY DEF OneOwner
    <3>2. held'[u] = held[u] /\ ready'[u] = ready[u]
      BY DEF Transfer
    <3> QED
      BY <1>1, <1>2, <3>1, <3>2
  <2>2. \A u, v \in Threads : u # v => Held(u)' \cap Held(v)' = {}
    <3> SUFFICES ASSUME NEW u \in Threads, NEW v \in Threads, u # v
                 PROVE  Held(u)' \cap Held(v)' = {}
      OBVIOUS
    <3>1. \A w \in Threads \ {t} : (awaiters \cup Held(t)) \cap Held(w) = {}
      BY DEF OneOwner
    <3>2. Held(u) \cap Held(v) = {}
      BY DEF OneOwner
    <3> QED
      BY <1>1, <1>2, <3>1, <3>2
  <2> QED
    BY <2>1, <2>2 DEF OneOwner
<1>4. ASSUME NEW c \in Consumers PROVE Listed(c)' <=> Listed(c)
  BY <1>1, <1>2 DEF Listed
<1> QED
  BY <1>3, <1>4

\* If thread t drops awaiter a from its lists, a is in no list any more and the
\* others stay where they were.
LEMMA Drops ==
  ASSUME OneOwner, NEW t \in Threads, NEW a \in Held(t),
         awaiters' = awaiters,
         \A u \in Threads \ {t} : held'[u] = held[u] /\ ready'[u] = ready[u],
         held'[t] = held[t] \ {a},
         ready'[t] = ready[t] \ {a}
  PROVE  OneOwner' /\ \A c \in Consumers : Listed(c)' <=> Listed(c) /\ c # a
<1>1. \A u \in Threads \ {t} : Held(u)' = Held(u) /\ a \notin Held(u)
  BY DEF Held, OneOwner
<1>2. Held(t)' = Held(t) \ {a} /\ a \notin awaiters
  BY DEF Held, OneOwner
<1>3. \A u \in Threads : Held(u)' = Held(u) \ {a}
  BY <1>1, <1>2
<1>4. OneOwner'
  BY <1>3 DEF OneOwner, Held
<1>5. ASSUME NEW c \in Consumers PROVE Listed(c)' <=> Listed(c) /\ c # a
  BY <1>2, <1>3 DEF Listed
<1> QED
  BY <1>4, <1>5

\* If no thread touches a list, who is listed is the same as before.
LEMMA Stays ==
  ASSUME OneOwner, UNCHANGED <<awaiters, held, ready>>
  PROVE  OneOwner' /\ \A c \in Consumers : Listed(c)' <=> Listed(c)
BY DEF OneOwner, Listed, Held

\* If lists and events stay and nobody begins or ends a wait, all is kept.
LEMMA Keeps ==
  ASSUME AwaitersAreKept, OneOwner', \A c \in Consumers : Listed(c)' <=> Listed(c),
         event' = event, \A c \in Consumers : c \in Waiting' <=> c \in Waiting
  PROVE  AwaitersAreKept'
BY DEF AwaitersAreKept, ListedWhilePending

\* A thread that is not between two waits, or is no consumer, begins and ends none.
LEMMA WaitsStay ==
  ASSUME TypeOK, NEW t \in Threads, NEW label, pc' = [pc EXCEPT ![t] = label],
         t \in Consumers => pc[t] \notin {"idle", "read"} /\ label \notin {"idle", "read"}
  PROVE  \A c \in Consumers : c \in Waiting' <=> c \in Waiting
BY DEF TypeOK, Waiting, Threads

\* Sorting keeps every awaiter with its thread.
LEMMA SplitMoves ==
  ASSUME TypeOK, NEW t \in Threads, NEW S \in SUBSET Consumers, Split(t, S),
         S \cap ready[t] = {}
  PROVE  /\ \A u \in Threads \ {t} : held'[u] = held[u] /\ ready'[u] = ready[u]
         /\ held'[t] \cup ready'[t] = S \cup ready[t]
         /\ held'[t] \cap ready'[t] = {}
<1> DEFINE rest == Unsatisfied(S, seen[t])
<1>1. rest \subseteq S
  BY DEF Unsatisfied
<1>2. /\ held' = [held EXCEPT ![t] = rest]
      /\ ready' = [ready EXCEPT ![t] = @ \cup (S \ rest)]
  BY DEF Split
<1> HIDE DEF rest
<1>3. held'[t] = rest /\ ready'[t] = ready[t] \cup (S \ rest)
  BY <1>2 DEF TypeOK
<1> QED
  BY <1>1, <1>2, <1>3 DEF TypeOK

LEMMA ListsStart == Init => AwaitersAreKept
<1> SUFFICES ASSUME Init PROVE AwaitersAreKept
  OBVIOUS
<1>1. awaiters = {} /\ \A t \in Threads : Held(t) = {} /\ held[t] = {}
  BY DEF Init, Held
<1>2. Waiting = {}
  BY DEF Init, Waiting, Threads
<1> QED
  BY <1>1, <1>2 DEF AwaitersAreKept, OneOwner, ListedWhilePending, Listed

\* A step that touches no list and no event, in the middle of a call.
LEMMA ListsUntouched ==
  ASSUME TypeOK, AwaitersAreKept, NEW t \in Threads, NEW label,
         UNCHANGED <<awaiters, held, ready, event>>,
         pc' = [pc EXCEPT ![t] = label],
         t \in Consumers => pc[t] \notin {"idle", "read"} /\ label \notin {"idle", "read"}
  PROVE  AwaitersAreKept'
BY Stays, WaitsStay, Keeps DEF AwaitersAreKept

\* A step that moves awaiters between a thread and the list.
LEMMA ListsMoved ==
  ASSUME TypeOK, AwaitersAreKept, NEW t \in Threads, NEW label,
         event' = event,
         pc' = [pc EXCEPT ![t] = label],
         t \in Consumers => pc[t] \notin {"idle", "read"} /\ label \notin {"idle", "read"},
         Transfer(t)
  PROVE  AwaitersAreKept'
BY Moves, WaitsStay, Keeps DEF AwaitersAreKept

\* A thread that takes or pushes the list moves all of it.
LEMMA TakeMoves ==
  ASSUME TypeOK, OneOwner, NEW t \in Threads, held[t] = {}, Take(t), ready' = ready
  PROVE  Transfer(t)
BY DEF Transfer, TypeOK, OneOwner, Held, Take

LEMMA PushMoves ==
  ASSUME TypeOK, OneOwner, NEW t \in Threads, Push(t), ready' = ready
  PROVE  Transfer(t)
BY DEF Transfer, TypeOK, OneOwner, Held, Push

LEMMA ListsStep == TypeOK /\ Phases /\ AwaitersAreKept /\ [Next]_vars => AwaitersAreKept'
<1> SUFFICES ASSUME TypeOK, Phases, AwaitersAreKept, [Next]_vars PROVE AwaitersAreKept'
  OBVIOUS
<1>0. OneOwner /\ ListedWhilePending
  BY DEF AwaitersAreKept
<1> USE <1>0, ThreadsAssumption
    DEF TypeOK, Threads, Goto, shared, claims, waits, locals, vars
<1>1. ASSUME NEW p \in Producers, NEW n \in 1 .. BufferSize + 1,
             nextToClaim + n - 1 <= Last, ClaimCount(p, n)
       PROVE AwaitersAreKept'
  <2>1. UNCHANGED <<awaiters, held, ready, event>> /\ pc' = [pc EXCEPT ![p] = "claim"]
    BY <1>1 DEF ClaimCount
  <2> QED
    BY <1>1, <2>1, ListsUntouched
<1>2. ASSUME NEW p \in Producers, Granted(p) PROVE AwaitersAreKept'
  <2>1. UNCHANGED <<awaiters, held, ready, event>> /\ pc' = [pc EXCEPT ![p] = "publish"]
    BY <1>2 DEF Granted
  <2> QED
    BY <1>2, <2>1, ListsUntouched
<1>3. ASSUME NEW p \in Producers, Refused(p) PROVE AwaitersAreKept'
  <2>1. UNCHANGED <<awaiters, held, ready, event>> /\ pc' = [pc EXCEPT ![p] = "idle"]
    BY <1>3 DEF Refused
  <2> QED
    BY <1>3, <2>1, ListsUntouched
<1>4. ASSUME NEW p \in Producers, PublishRest(p) PROVE AwaitersAreKept'
  <2>1. UNCHANGED <<awaiters, held, ready, event, pc>>
    BY <1>4 DEF PublishRest
  <2> QED
    BY <2>1, Stays, Keeps DEF AwaitersAreKept, Waiting
<1>5. ASSUME NEW p \in Producers, PublishFront(p) PROVE AwaitersAreKept'
  <2>1. UNCHANGED <<awaiters, held, ready, event>> /\ pc' = [pc EXCEPT ![p] = "exchange"]
    BY <1>5 DEF PublishFront
  <2> QED
    BY <1>5, <2>1, ListsUntouched
<1>6. ASSUME NEW p \in Producers, Exchange(p) PROVE AwaitersAreKept'
  <2>1. held[p] = {} /\ ready' = ready /\ event' = event
    BY <1>6 DEF Exchange, Phases, HoldingPlaces
  <2>2. pc' = [pc EXCEPT ![p] = IF awaiters = {} THEN "idle" ELSE "head"]
    BY <1>6 DEF Exchange
  <2>3. Transfer(p)
    BY <1>6, <2>1, TakeMoves DEF Exchange
  <2> QED
    BY <2>1, <2>2, <2>3, ListsMoved
<1>7. ASSUME NEW p \in Producers, StartScan(p) PROVE AwaitersAreKept'
  <2>1. UNCHANGED <<awaiters, held, ready, event>> /\ pc' = [pc EXCEPT ![p] = "scan"]
    BY <1>7 DEF StartScan
  <2> QED
    BY <1>7, <2>1, ListsUntouched
<1>8. ASSUME NEW p \in Producers, ScanNext(p) PROVE AwaitersAreKept'
  <2>1. UNCHANGED <<awaiters, held, ready, event, pc>>
    BY <1>8 DEF ScanNext
  <2> QED
    BY <2>1, Stays, Keeps DEF AwaitersAreKept, Waiting
<1>9. ASSUME NEW p \in Producers, EndScan(p) PROVE AwaitersAreKept'
  <2>1. held[p] \cap ready[p] = {} /\ awaiters \cap (held[p] \cup ready[p]) = {}
    BY DEF OneOwner, Held
  <2>2. awaiters' = awaiters /\ event' = event /\ Split(p, held[p])
    BY <1>9 DEF EndScan
  <2>3. Transfer(p)
    BY <2>1, <2>2, SplitMoves DEF Transfer
  <2>4. PICK label : pc' = [pc EXCEPT ![p] = label]
    BY <1>9 DEF EndScan
  <2> QED
    BY <2>2, <2>3, <2>4, ListsMoved
<1>10. ASSUME NEW p \in Producers, Requeue(p) PROVE AwaitersAreKept'
  <2>1. /\ Push(p) /\ ready' = ready /\ event' = event
        /\ pc' = [pc EXCEPT ![p] = "rescan"]
    BY <1>10 DEF Requeue
  <2> QED
    BY <2>1, PushMoves, ListsMoved
<1>11. ASSUME NEW p \in Producers, Rescan(p) PROVE AwaitersAreKept'
  <2>1. UNCHANGED <<awaiters, held, ready, event>>
    BY <1>11 DEF Rescan
  <2>2. PICK label : pc' = [pc EXCEPT ![p] = label]
    BY <1>11 DEF Rescan
  <2> QED
    BY <2>1, <2>2, ListsUntouched
<1>12. ASSUME NEW p \in Producers, Retake(p) PROVE AwaitersAreKept'
  <2>1. held[p] = {} /\ ready' = ready /\ event' = event
    BY <1>12 DEF Retake, Phases, HoldingPlaces
  <2>2. Take(p) /\ pc' = [pc EXCEPT ![p] = "loadClosed"]
    BY <1>12 DEF Retake
  <2> QED
    BY <2>1, <2>2, TakeMoves, ListsMoved
<1>13. ASSUME NEW p \in Producers, LoadClosed(p) PROVE AwaitersAreKept'
  <2>1. UNCHANGED <<awaiters, held, ready, event>>
    BY <1>13 DEF LoadClosed
  <2>2. PICK label : pc' = [pc EXCEPT ![p] = label]
    BY <1>13 DEF LoadClosed
  <2> QED
    BY <2>1, <2>2, ListsUntouched
<1>14. ASSUME NEW c \in Consumers, NEW s \in Sequences, Wait(c, s) PROVE AwaitersAreKept'
  <2>1. pc[c] = "idle" /\ ~Listed(c)
    BY <1>14 DEF Wait, ListedWhilePending, Waiting
  <2>2. /\ event' = [event EXCEPT ![c] = "not_set"]
        /\ held' = [held EXCEPT ![c] = {c}]
        /\ awaiters' = awaiters /\ ready' = ready
        /\ pc' = [pc EXCEPT ![c] = "enqueue"]
    BY <1>14 DEF Wait
  <2>3. held[c] = {} /\ ready[c] = {}
    BY <2>1 DEF Phases, HoldingPlaces
  <2>4. c \notin awaiters /\ \A u \in Threads : c \notin held[u] /\ c \notin ready[u]
    BY <2>1 DEF Listed, Held
  <2>5. \A u \in Threads : Held(u)' = IF u = c THEN {c} ELSE Held(u)
    BY <2>2, <2>3 DEF Held
  <2>6. OneOwner'
    BY <2>2, <2>3, <2>4, <2>5 DEF OneOwner, Held
  <2>7. \A x \in Consumers : Listed(x)' <=> x = c \/ Listed(x)
    BY <2>2, <2>3, <2>5 DEF Listed, Held
  <2>8. c \in Waiting' /\ event'[c] = "not_set"
    BY <2>2 DEF Waiting
  <2>9. \A x \in Consumers \ {c} : (x \in Waiting' <=> x \in Waiting) /\ event'[x] = event[x]
    BY <2>2 DEF Waiting
  <2> QED
    BY <2>6, <2>7, <2>8, <2>9 DEF AwaitersAreKept, ListedWhilePending
<1>15. ASSUME NEW c \in Consumers, Enqueue(c) PROVE AwaitersAreKept'
  <2>1. /\ Push(c) /\ ready' = ready /\ event' = event
        /\ pc[c] = "enqueue" /\ pc' = [pc EXCEPT ![c] = "load"]
    BY <1>15 DEF Enqueue
  <2> QED
    BY <2>1, PushMoves, ListsMoved
<1>16. ASSUME NEW c \in Consumers, LoadPublished(c) PROVE AwaitersAreKept'
  <2>1. UNCHANGED <<awaiters, held, ready, event>> /\ pc[c] = "load"
    BY <1>16 DEF LoadPublished
  <2>2. PICK label \in {"load", "check"} : pc' = [pc EXCEPT ![c] = label]
    <3>1. Holds(seen[c] + 1) => pc' = [pc EXCEPT ![c] = "load"]
      BY <1>16 DEF LoadPublished
    <3>2. ~Holds(seen[c] + 1) => pc' = [pc EXCEPT ![c] = "check"]
      BY <1>16 DEF LoadPublished
    <3> QED
      BY <3>1, <3>2
  <2> QED
    BY <2>1, <2>2, ListsUntouched
<1>17. ASSUME NEW c \in Consumers, Check(c) PROVE AwaitersAreKept'
  <2>1. UNCHANGED <<awaiters, held, ready, event>> /\ pc[c] = "check"
    BY <1>17 DEF Check
  <2>2. PICK label \in {"resume", "take"} : pc' = [pc EXCEPT ![c] = label]
    BY <1>17 DEF Check
  <2> QED
    BY <2>1, <2>2, ListsUntouched
<1>18. ASSUME NEW c \in Consumers, TakeAwaiters(c) PROVE AwaitersAreKept'
  <2>1. pc[c] = "take" /\ awaiters' = {} /\ event' = event /\ Split(c, awaiters)
    BY <1>18 DEF TakeAwaiters
  <2>2. held[c] = {} /\ awaiters \cap ready[c] = {}
    BY <2>1 DEF Phases, HoldingPlaces, OneOwner, Held
  <2>3. Transfer(c)
    BY <2>1, <2>2, SplitMoves DEF Transfer
  <2>4. PICK label \in {"enqueue", "resume"} : pc' = [pc EXCEPT ![c] = label]
    BY <1>18 DEF TakeAwaiters
  <2> QED
    BY <2>1, <2>3, <2>4, ListsMoved
<1>19. ASSUME NEW c \in Consumers, Resume(c) PROVE AwaitersAreKept'
  <2>1. /\ UNCHANGED <<awaiters, held, ready, event>> /\ event[c] # "not_set"
        /\ \A x \in Consumers \ {c} : pc'[x] = pc[x]
    BY <1>19 DEF Resume
  <2>2. OneOwner' /\ \A x \in Consumers : Listed(x)' <=> Listed(x)
    BY <2>1, Stays
  <2>3. \A x \in Consumers \ {c} : x \in Waiting' <=> x \in Waiting
    BY <2>1 DEF Waiting
  <2> QED
    BY <2>1, <2>2, <2>3 DEF AwaitersAreKept, ListedWhilePending
<1>20. ASSUME NEW c \in Consumers, Consume(c) PROVE AwaitersAreKept'
  <2>1. /\ UNCHANGED <<awaiters, held, ready, event>> /\ pc[c] = "read"
        /\ pc' = [pc EXCEPT ![c] = "idle"]
    BY <1>20 DEF Consume
  <2>2. \A x \in Consumers : x \in Waiting' <=> x \in Waiting
    BY <2>1 DEF Waiting
  <2> QED
    BY <2>1, <2>2, Stays, Keeps DEF AwaitersAreKept
<1>21. ASSUME NEW x \in Closers, Close(x) PROVE AwaitersAreKept'
  <2>1. UNCHANGED <<awaiters, held, ready, event>> /\ pc' = [pc EXCEPT ![x] = "takeAll"]
    BY <1>21 DEF Close
  <2> QED
    BY <1>21, <2>1, ListsUntouched
<1>22. ASSUME NEW x \in Closers, CloseBarrier(x) PROVE AwaitersAreKept'
  <2>1. UNCHANGED <<awaiters, held, ready, event>> /\ pc' = [pc EXCEPT ![x] = "idle"]
    BY <1>22 DEF CloseBarrier
  <2> QED
    BY <1>22, <2>1, ListsUntouched
<1>23. ASSUME NEW t \in Threads, TakeAll(t), t \notin Consumers PROVE AwaitersAreKept'
  <2>1. /\ pc[t] = "takeAll" /\ Take(t) /\ ready' = ready /\ event' = event
        /\ pc' = [pc EXCEPT ![t] = IF t \in Closers THEN "cancel" ELSE "resume"]
    BY <1>23 DEF TakeAll
  <2>2. held[t] = {}
    BY <2>1 DEF Phases, HoldingPlaces
  <2> QED
    BY <1>23, <2>1, <2>2, TakeMoves, ListsMoved
<1>24. ASSUME NEW t \in Threads, NEW a \in Consumers, ResumeAwaiter(t, a) PROVE AwaitersAreKept'
  <2>1. /\ a \in ready[t] /\ UNCHANGED <<awaiters, held, pc>>
        /\ ready' = [ready EXCEPT ![t] = @ \ {a}]
        /\ event' = [event EXCEPT ![a] = IF @ = "not_set" THEN "set" ELSE @]
    BY <1>24 DEF ResumeAwaiter
  <2>2. a \notin held[t]
    BY <2>1 DEF OneOwner
  <2>3. OneOwner' /\ \A x \in Consumers : Listed(x)' <=> Listed(x) /\ x # a
    <3>1. awaiters' = awaiters /\ a \in Held(t)
      BY <2>1 DEF Held
    <3>2. \A u \in Threads \ {t} : held'[u] = held[u] /\ ready'[u] = ready[u]
      BY <2>1
    <3>3. held'[t] = held[t] \ {a} /\ ready'[t] = ready[t] \ {a}
      BY <2>1, <2>2
    <3> QED
      BY <3>1, <3>2, <3>3, Drops
  <2>4. event'[a] # "not_set" /\ \A x \in Consumers \ {a} : event'[x] = event[x]
    BY <2>1
  <2>5. \A x \in Consumers : x \in Waiting' <=> x \in Waiting
    BY <2>1 DEF Waiting
  <2> QED
    BY <2>3, <2>4, <2>5 DEF AwaitersAreKept, ListedWhilePending
<1>25. ASSUME NEW t \in Threads, ResumedAll(t) PROVE AwaitersAreKept'
  <2>1. /\ UNCHANGED <<awaiters, held, ready, event>> /\ pc[t] = "resume"
        /\ pc' = [pc EXCEPT ![t] = IF sawClosed[t] THEN "cancel"
                                  ELSE IF t \in Consumers THEN "suspended" ELSE "idle"]
    BY <1>25 DEF ResumedAll, Leave
  <2> QED
    BY <2>1, ListsUntouched
<1>26. ASSUME NEW t \in Threads, NEW a \in Consumers, CancelAwaiter(t, a) PROVE AwaitersAreKept'
  <2>1. /\ a \in held[t] /\ UNCHANGED <<awaiters, ready, pc>>
        /\ held' = [held EXCEPT ![t] = @ \ {a}]
        /\ event' = [event EXCEPT ![a] = IF @ = "not_set" THEN "canceled" ELSE @]
    BY <1>26 DEF CancelAwaiter
  <2>2. a \notin ready[t]
    BY <2>1 DEF OneOwner
  <2>3. OneOwner' /\ \A x \in Consumers : Listed(x)' <=> Listed(x) /\ x # a
    <3>1. awaiters' = awaiters /\ a \in Held(t)
      BY <2>1 DEF Held
    <3>2. \A u \in Threads \ {t} : held'[u] = held[u] /\ ready'[u] = ready[u]
      BY <2>1
    <3>3. held'[t] = held[t] \ {a} /\ ready'[t] = ready[t] \ {a}
      BY <2>1, <2>2
    <3> QED
      BY <3>1, <3>2, <3>3, Drops
  <2>4. event'[a] # "not_set" /\ \A x \in Consumers \ {a} : event'[x] = event[x]
    BY <2>1
  <2>5. \A x \in Consumers : x \in Waiting' <=> x \in Waiting
    BY <2>1 DEF Waiting
  <2> QED
    BY <2>3, <2>4, <2>5 DEF AwaitersAreKept, ListedWhilePending
<1>27. ASSUME NEW t \in Threads, CancelledAll(t) PROVE AwaitersAreKept'
  <2>1. /\ UNCHANGED <<awaiters, held, ready, event>> /\ pc[t] = "cancel"
        /\ pc' = [pc EXCEPT ![t] = CASE t \in Consumers -> "suspended"
                                    [] t \in Producers -> "idle"
                                    [] OTHER -> "closeBarrier"]
    BY <1>27 DEF CancelledAll
  <2> QED
    BY <2>1, ListsUntouched
<1>28. CASE UNCHANGED vars
  <2>1. UNCHANGED <<awaiters, held, ready, event, pc>>
    BY <1>28
  <2> QED
    BY <2>1, Stays, Keeps DEF AwaitersAreKept, Waiting
<1> QED
  BY <1>1, <1>2, <1>3, <1>4, <1>5, <1>6, <1>7, <1>8, <1>9, <1>10, <1>11,
     <1>12, <1>13, <1>14, <1>15, <1>16, <1>17, <1>18, <1>19, <1>20, <1>21,
     <1>22, <1>23, <1>24, <1>25, <1>26, <1>27, <1>28, StepCases

Ownership == Types /\ Phases /\ AwaitersAreKept

LEMMA OwnershipInvariant == Spec => []Ownership
<1>1. Init => Ownership
  BY TypesStart, PhasesStart, ListsStart DEF Ownership
<1>2. Ownership /\ [Next]_vars => Ownership'
  BY TypesStep, PhasesStep, ListsStep DEF Ownership, Types
<1> QED
  BY <1>1, <1>2, PTL DEF Spec

\* The variables of a sequencer stay in their ranges; what a scan counts up to
\* is a number in play.
THEOREM TypeCorrect == Spec => []TypeOK
<1>1. Ownership => TypeOK
  BY DEF Ownership, Types
<1> QED
  BY <1>1, OwnershipInvariant, PTL

\* No awaiter is ever in two lists, left out of all, or signalled twice or after
\* its coroutine went on, however many producers, consumers and closers split
\* and rejoin the lists.
THEOREM EveryAwaiterIsKept == Spec => []AwaitersAreKept
<1>1. Ownership => AwaitersAreKept
  BY DEF Ownership
<1> QED
  BY <1>1, OwnershipInvariant, PTL

(***************************************************************************)
(* From here on there is one consumer.  With several, what an awaiter      *)
(* knows may fall behind what all consumers have read (the run regress),   *)
(* and a scan that begins there reads slots that are written again.        *)
(***************************************************************************)
OneConsumer == \A a, b \in Consumers : a = b

(***************************************************************************)
(* The prefix                                                              *)
(***************************************************************************)
\* All numbers that consumer c has not read are published up to s, and not the
\* number after s.
ReadyUpTo(c, s) ==
  /\ s \in consumed[c] .. Last
  /\ \A n \in consumed[c] + 1 .. s : Holds(n)
  /\ s < Last => ~Holds(s + 1)

\* There is such a number ...
LEMMA SomePrefix ==
  ASSUME Types, NEW c \in Consumers
  PROVE  \E s \in Int : ReadyUpTo(c, s)
<1> DEFINE first == consumed[c]
           ends == {s \in first .. Last : s = Last \/ ~Holds(s + 1)}
           T == {s - first : s \in ends}
<1>1. first \in Int /\ first <= Last /\ Last \in Int
  BY NumbersAreInt, SequencesAreInt, Sizes DEF Types
<1> HIDE DEF first
<1>2. Last \in ends
  BY <1>1
<1>3. \A s \in ends : s \in Int /\ first <= s
  BY <1>1
<1> HIDE DEF ends
<1>4. T \subseteq Nat /\ T # {}
  BY <1>1, <1>2, <1>3
<1>5. PICK m \in T : \A u \in T : ~(<<u, m>> \in OpToRel(<, Nat))
  BY <1>4, WFMin, NatLessThanWellFounded
<1>6. \A u \in T : ~(u < m)
  BY <1>4, <1>5 DEF OpToRel
<1>7. PICK s \in ends : m = s - first
  BY <1>5
<1>8. \A r \in ends : s <= r
  <2> TAKE r \in ends
  <2>1. r - first \in T
    OBVIOUS
  <2>2. ~(r - first < s - first)
    BY <2>1, <1>6, <1>7
  <2> QED
    BY <2>2, <1>1, <1>3
<1>9. s \in first .. Last /\ (s < Last => ~Holds(s + 1))
  BY <1>1, <1>3 DEF ends
<1>10. ASSUME NEW n \in first + 1 .. s PROVE Holds(n)
  <2>1. n - 1 \in first .. Last /\ n - 1 < s /\ (n - 1) + 1 = n /\ n - 1 # Last
    BY <1>1, <1>9
  <2>2. n - 1 \notin ends
    BY <2>1, <1>8, <1>9, <1>1
  <2> QED
    BY <2>1, <2>2 DEF ends
<1> QED
  BY <1>1, <1>9, <1>10 DEF ReadyUpTo, first

\* ... only one ...
LEMMA OnePrefix ==
  ASSUME Types, NEW c \in Consumers, NEW s \in Int, NEW r \in Int,
         ReadyUpTo(c, s), ReadyUpTo(c, r)
  PROVE  s = r
<1>1. consumed[c] \in Int /\ Last \in Int
  BY NumbersAreInt, Sizes DEF Types
<1>2. CASE s < r
  BY <1>1, <1>2 DEF ReadyUpTo
<1>3. CASE r < s
  BY <1>1, <1>3 DEF ReadyUpTo
<1> QED
  BY <1>2, <1>3

\* ... and it is the prefix, when nobody else reads.
PrefixIsReady == \A c \in Consumers : Prefix \in Int /\ ReadyUpTo(c, Prefix)

LEMMA PrefixIsThat == OneConsumer /\ Types => PrefixIsReady
<1> SUFFICES ASSUME OneConsumer, Types, NEW c \in Consumers
             PROVE  Prefix \in Int /\ ReadyUpTo(c, Prefix)
  BY DEF PrefixIsReady
<1>1. \A x \in Consumers : x = c
  BY DEF OneConsumer
<1>2. consumed[c] \in Sequences
  BY NumbersAreInt DEF Types
<1>3. Behind = consumed[c]
  BY <1>1, <1>2, SequencesAreInt DEF Behind
<1>4. PICK s \in Int : ReadyUpTo(c, s)
  BY SomePrefix
<1>5. \E v \in consumed[c] .. Last : ReadyUpTo(c, v)
  BY <1>4 DEF ReadyUpTo
<1>6. ReadyUpTo(c, Prefix)
  BY <1>3, <1>5 DEF Prefix, ReadyUpTo
<1>7. Prefix \in consumed[c] .. Last
  BY <1>6 DEF ReadyUpTo
<1> QED
  BY <1>6, <1>7, <1>2, SequencesAreInt, Sizes

\* What is published without a gap after what was read is in the prefix, and
\* nothing after a gap is.
PrefixIsBounded ==
  \A c \in Consumers, s \in Int :
    /\ s <= Last /\ (\A n \in consumed[c] + 1 .. s : Holds(n)) => s <= Prefix
    /\ consumed[c] < s /\ s <= Last /\ ~Holds(s) => Prefix < s

LEMMA PrefixBounds == OneConsumer /\ Types => PrefixIsBounded
<1> SUFFICES ASSUME OneConsumer, Types, NEW c \in Consumers, NEW s \in Int, s <= Last
             PROVE  /\ (\A n \in consumed[c] + 1 .. s : Holds(n)) => s <= Prefix
                    /\ consumed[c] < s /\ ~Holds(s) => Prefix < s
  BY DEF PrefixIsBounded
<1>1. /\ Prefix \in Int /\ consumed[c] \in Int /\ Last \in Int
      /\ consumed[c] <= Prefix /\ Prefix <= Last
      /\ \A n \in consumed[c] + 1 .. Prefix : Holds(n)
      /\ Prefix < Last => ~Holds(Prefix + 1)
  BY PrefixIsThat, NumbersAreInt, Sizes DEF PrefixIsReady, ReadyUpTo, Types
<1> QED
  BY <1>1

\* It depends on the slots and on what was read only.
LEMMA PrefixStays ==
  ASSUME UNCHANGED <<published, consumed>>
  PROVE  Prefix' = Prefix
<1>1. \A n : Holds(n)' <=> Holds(n)
  BY DEF Holds
<1> QED
  BY <1>1 DEF Prefix, Behind

(***************************************************************************)
(* The claims                                                              *)
(***************************************************************************)
Claiming(p) == pc[p] \in {"claim", "publish"}

\* No number is claimed twice.
ClaimsAreApart ==
  /\ \A p \in Producers : Claiming(p) =>
       Initial < claim[p][1] /\ claim[p][1] < claim[p][2] /\ claim[p][2] <= nextToClaim
  /\ \A p, q \in Producers : p # q /\ Claiming(p) /\ Claiming(q) =>
       claim[p][2] <= claim[q][1] \/ claim[q][2] <= claim[p][1]

\* Who publishes writes where the consumers have read.
ClaimsHaveRoom ==
  \A p \in Producers : pc[p] = "publish" =>
    /\ claim[p][1] < goal[p] /\ goal[p] <= claim[p][2]
    /\ \A c \in Consumers : claim[p][2] - 1 - BufferSize <= consumed[c]

\* What nobody has claimed is not published, nor is the first number of a claim.
ClaimsAreUnpublished ==
  /\ \A s \in Int : nextToClaim <= s /\ s <= Last => ~Holds(s)
  /\ \A p \in Producers : Claiming(p) => ~Holds(claim[p][1])

\* And nobody has read any of these.
ClaimsAreUnread ==
  \A c \in Consumers :
    /\ consumed[c] < nextToClaim
    /\ \A p \in Producers : Claiming(p) => consumed[c] < claim[p][1]

Claims == ClaimsAreApart /\ ClaimsHaveRoom /\ ClaimsAreUnpublished /\ ClaimsAreUnread

\* So the prefix ends before them.
LEMMA PrefixIsUnclaimed ==
  OneConsumer /\ Types /\ ClaimsAreUnpublished /\ ClaimsAreUnread =>
    Prefix < nextToClaim /\ \A p \in Producers : Claiming(p) => Prefix < claim[p][1]
<1> SUFFICES ASSUME OneConsumer, Types, ClaimsAreUnpublished, ClaimsAreUnread
             PROVE  /\ Prefix < nextToClaim
                    /\ \A p \in Producers : Claiming(p) => Prefix < claim[p][1]
  OBVIOUS
<1>1. PICK c \in Consumers : TRUE
  BY ThreadsAssumption
<1>2. nextToClaim \in Int /\ nextToClaim <= Last + 1
  BY Sizes DEF Types, TypeOK
<1>3. Prefix \in Int /\ Prefix <= Last /\ consumed[c] \in Int /\ Last \in Int
  BY PrefixIsThat, NumbersAreInt, Sizes DEF PrefixIsReady, ReadyUpTo, Types
<1>4. Prefix < nextToClaim
  <2>1. nextToClaim <= Last => ~Holds(nextToClaim) /\ consumed[c] < nextToClaim
    BY <1>2 DEF ClaimsAreUnpublished, ClaimsAreUnread
  <2> QED
    BY <1>2, <1>3, <2>1, PrefixBounds DEF PrefixIsBounded
<1>5. ASSUME NEW p \in Producers, Claiming(p) PROVE Prefix < claim[p][1]
  <2>1. claim[p][1] \in Int /\ claim[p][1] <= Last
    BY NumbersAreInt, SequencesAreInt DEF Types
  <2>2. ~Holds(claim[p][1]) /\ consumed[c] < claim[p][1]
    BY <1>5 DEF ClaimsAreUnpublished, ClaimsAreUnread
  <2> QED
    BY <2>1, <2>2, PrefixBounds DEF PrefixIsBounded
<1> QED
  BY <1>4, <1>5

\* In the beginning everything after Initial is free.
LEMMA ClaimsStart == Init => Claims
<1> SUFFICES ASSUME Init PROVE Claims
  OBVIOUS
<1>1. nextToClaim = Initial + 1 /\ \A c \in Consumers : consumed[c] = Initial
  BY DEF Init
<1>2. \A p \in Producers : pc[p] = "idle"
  BY DEF Init, Threads
<1>3. ASSUME NEW s \in Int, Initial + 1 <= s, s <= Last PROVE ~Holds(s)
  <2>1. s \in Scannable /\ Slot(s) \in Slots
    BY <1>3, Sizes, SlotType DEF Scannable
  <2> DEFINE n == CHOOSE r \in Initial - BufferSize + 1 .. Initial : Slot(r) = Slot(s)
  <2>2. n \in Initial - BufferSize + 1 .. Initial
    BY <2>1, SlotIsReached
  <2>3. published[Slot(s)] = Wrap(n)
    BY <2>1 DEF Init
  <2> HIDE DEF n
  <2>4. n \in Scannable /\ n # s
    BY <1>3, <2>2, Sizes DEF Scannable
  <2> QED
    BY <2>1, <2>3, <2>4, ValuesDiffer DEF Holds
<1> QED
  BY <1>1, <1>2, <1>3, Sizes
     DEF Claims, ClaimsAreApart, ClaimsHaveRoom, ClaimsAreUnpublished, ClaimsAreUnread,
         Claiming

\* A step that neither claims, publishes nor reads.
Quiet ==
  /\ UNCHANGED <<published, nextToClaim, consumed, claim>>
  /\ \A p \in Producers :
       /\ Claiming(p)' <=> Claiming(p)
       /\ pc'[p] = "publish" <=> pc[p] = "publish"
       /\ pc[p] = "publish" => goal'[p] = goal[p]

\* Thread t goes elsewhere, and is not between a claim and its publication.
LEMMA QuietStep ==
  ASSUME TypeOK, NEW t \in Threads, NEW label,
         UNCHANGED <<published, nextToClaim, consumed, claim>>,
         pc' = [pc EXCEPT ![t] = label],
         \A u \in Threads \ {t} : goal'[u] = goal[u],
         {pc[t], label} \cap {"claim", "publish"} = {}
  PROVE  Quiet
<1>1. ASSUME NEW p \in Producers, p = t
      PROVE  ~Claiming(p) /\ ~Claiming(p)' /\ pc[p] # "publish" /\ pc'[p] # "publish"
  BY <1>1 DEF TypeOK, Claiming
<1>2. ASSUME NEW p \in Producers, p # t
      PROVE  pc'[p] = pc[p] /\ goal'[p] = goal[p]
  BY <1>2 DEF TypeOK, Threads
<1> QED
  BY <1>1, <1>2 DEF Quiet, Claiming

\* All other steps are quiet.
LEMMA ClaimCases ==
  ASSUME Types, Phases, [Next]_vars
  PROVE  \/ \E p \in Producers, n \in 1 .. BufferSize + 1 :
              nextToClaim + n - 1 <= Last /\ ClaimCount(p, n)
         \/ \E p \in Producers :
              Granted(p) \/ Refused(p) \/ PublishRest(p) \/ PublishFront(p)
         \/ \E c \in Consumers : Consume(c)
         \/ Quiet
<1>0. TypeOK
  BY DEF Types
<1> USE <1>0 DEF TypeOK, Threads, Goto, shared, claims, waits, locals
<1>6. ASSUME NEW p \in Producers, Exchange(p) PROVE Quiet
  <2>1. PICK label \in {"idle", "head"} : pc' = [pc EXCEPT ![p] = label]
    BY <1>6 DEF Exchange
  <2>2. /\ UNCHANGED <<published, nextToClaim, consumed, claim>> /\ pc[p] = "exchange"
        /\ \A u \in Threads \ {p} : goal'[u] = goal[u]
    BY <1>6 DEF Exchange
  <2>3. {pc[p], label} \cap {"claim", "publish"} = {}
    BY <2>1, <2>2
  <2> QED
    BY <2>1, <2>2, <2>3, QuietStep
<1>7. ASSUME NEW p \in Producers, StartScan(p) PROVE Quiet
  <2>1. /\ pc[p] = "head" /\ pc' = [pc EXCEPT ![p] = "scan"]
        /\ UNCHANGED <<published, nextToClaim, consumed, claim, goal>>
    BY <1>7 DEF StartScan
  <2>2. {pc[p], "scan"} \cap {"claim", "publish"} = {}
    BY <2>1
  <2> QED
    BY <2>1, <2>2, QuietStep
<1>8. ASSUME NEW p \in Producers, ScanNext(p) PROVE Quiet
  BY <1>8 DEF ScanNext, Quiet, Claiming
<1>9. ASSUME NEW p \in Producers, EndScan(p) PROVE Quiet
  <2>1. PICK label \in {"resume", "requeue"} : pc' = [pc EXCEPT ![p] = label]
    BY <1>9 DEF EndScan
  <2>2. pc[p] = "scan" /\ UNCHANGED <<published, nextToClaim, consumed, claim>>
        /\ Split(p, held[p])
    BY <1>9 DEF EndScan
  <2>3. \A u \in Threads \ {p} : goal'[u] = goal[u]
    BY <2>2 DEF Split
  <2> QED
    BY <2>1, <2>2, <2>3, QuietStep
<1>10. ASSUME NEW p \in Producers, Requeue(p) PROVE Quiet
  BY <1>10, QuietStep DEF Requeue
<1>11. ASSUME NEW p \in Producers, Rescan(p) PROVE Quiet
  <2>1. PICK label \in {"retake", "rescan", "loadClosed"} : pc' = [pc EXCEPT ![p] = label]
    BY <1>11 DEF Rescan
  <2>2. pc[p] = "rescan" /\ UNCHANGED <<published, nextToClaim, consumed, claim, goal>>
    BY <1>11 DEF Rescan
  <2>3. {pc[p], label} \cap {"claim", "publish"} = {}
    BY <2>1, <2>2
  <2> QED
    BY <2>1, <2>2, <2>3, QuietStep
<1>12. ASSUME NEW p \in Producers, Retake(p) PROVE Quiet
  BY <1>12, QuietStep DEF Retake
<1>13. ASSUME NEW p \in Producers, LoadClosed(p) PROVE Quiet
  <2>1. PICK label \in {"head", "takeAll", "resume"} : pc' = [pc EXCEPT ![p] = label]
    BY <1>13 DEF LoadClosed
  <2>2. /\ UNCHANGED <<published, nextToClaim, consumed, claim>> /\ pc[p] = "loadClosed"
        /\ \A u \in Threads \ {p} : goal'[u] = goal[u]
    BY <1>13 DEF LoadClosed
  <2>3. {pc[p], label} \cap {"claim", "publish"} = {}
    BY <2>1, <2>2
  <2> QED
    BY <2>1, <2>2, <2>3, QuietStep
<1>14. ASSUME NEW c \in Consumers, NEW s \in Sequences, Wait(c, s) PROVE Quiet
  BY <1>14, QuietStep DEF Wait
<1>15. ASSUME NEW c \in Consumers, Enqueue(c) PROVE Quiet
  BY <1>15, QuietStep DEF Enqueue
<1>16. ASSUME NEW c \in Consumers, LoadPublished(c) PROVE Quiet
  <2>1. CASE Holds(seen[c] + 1)
    BY <1>16, <2>1 DEF LoadPublished, Quiet, Claiming
  <2>2. CASE ~Holds(seen[c] + 1)
    BY <1>16, <2>2, QuietStep DEF LoadPublished
  <2> QED
    BY <2>1, <2>2
<1>17. ASSUME NEW c \in Consumers, Check(c) PROVE Quiet
  <2>1. PICK label \in {"resume", "take"} : pc' = [pc EXCEPT ![c] = label]
    BY <1>17 DEF Check
  <2>2. pc[c] = "check" /\ UNCHANGED <<published, nextToClaim, consumed, claim, goal>>
    BY <1>17 DEF Check
  <2>3. {pc[c], label} \cap {"claim", "publish"} = {}
    BY <2>1, <2>2
  <2> QED
    BY <2>1, <2>2, <2>3, QuietStep
<1>18. ASSUME NEW c \in Consumers, TakeAwaiters(c) PROVE Quiet
  <2>1. PICK label \in {"enqueue", "resume"} : pc' = [pc EXCEPT ![c] = label]
    BY <1>18 DEF TakeAwaiters
  <2>2. pc[c] = "take" /\ UNCHANGED <<published, nextToClaim, consumed, claim>>
        /\ Split(c, awaiters)
    BY <1>18 DEF TakeAwaiters
  <2>3. \A u \in Threads \ {c} : goal'[u] = goal[u]
    BY <2>2 DEF Split
  <2> QED
    BY <2>1, <2>2, <2>3, QuietStep
<1>19. ASSUME NEW c \in Consumers, Resume(c) PROVE Quiet
  <2>1. PICK label \in {"read", "idle"} : pc' = [pc EXCEPT ![c] = label]
    BY <1>19 DEF Resume
  <2>2. /\ UNCHANGED <<published, nextToClaim, consumed, claim>> /\ pc[c] = "suspended"
        /\ \A u \in Threads \ {c} : goal'[u] = goal[u]
    BY <1>19 DEF Resume
  <2>3. {pc[c], label} \cap {"claim", "publish"} = {}
    BY <2>1, <2>2
  <2> QED
    BY <2>1, <2>2, <2>3, QuietStep
<1>21. ASSUME NEW x \in Closers, Close(x) PROVE Quiet
  BY <1>21, QuietStep DEF Close
<1>22. ASSUME NEW x \in Closers, CloseBarrier(x) PROVE Quiet
  BY <1>22, QuietStep DEF CloseBarrier
<1>23. ASSUME NEW t \in Threads, TakeAll(t) PROVE Quiet
  <2>1. PICK label \in {"cancel", "resume"} : pc' = [pc EXCEPT ![t] = label]
    BY <1>23 DEF TakeAll
  <2>2. pc[t] = "takeAll" /\ UNCHANGED <<published, nextToClaim, consumed, claim, goal>>
    BY <1>23 DEF TakeAll
  <2>3. {pc[t], label} \cap {"claim", "publish"} = {}
    BY <2>1, <2>2
  <2> QED
    BY <2>1, <2>2, <2>3, QuietStep
<1>24. ASSUME NEW t \in Threads, NEW a \in Consumers, ResumeAwaiter(t, a) PROVE Quiet
  BY <1>24 DEF ResumeAwaiter, Quiet, Claiming
<1>25. ASSUME NEW t \in Threads, ResumedAll(t) PROVE Quiet
  <2>1. PICK label \in {"cancel", "suspended", "idle"} : pc' = [pc EXCEPT ![t] = label]
    BY <1>25 DEF ResumedAll, Leave
  <2>2. /\ UNCHANGED <<published, nextToClaim, consumed, claim>> /\ pc[t] = "resume"
        /\ \A u \in Threads \ {t} : goal'[u] = goal[u]
    BY <1>25 DEF ResumedAll, Leave
  <2>3. {pc[t], label} \cap {"claim", "publish"} = {}
    BY <2>1, <2>2
  <2> QED
    BY <2>1, <2>2, <2>3, QuietStep
<1>26. ASSUME NEW t \in Threads, NEW a \in Consumers, CancelAwaiter(t, a) PROVE Quiet
  BY <1>26 DEF CancelAwaiter, Quiet, Claiming
<1>27. ASSUME NEW t \in Threads, CancelledAll(t) PROVE Quiet
  <2>1. PICK label \in {"suspended", "idle", "closeBarrier"} : pc' = [pc EXCEPT ![t] = label]
    <3>1. pc' = [pc EXCEPT ![t] = CASE t \in Consumers -> "suspended"
                                    [] t \in Producers -> "idle"
                                    [] OTHER -> "closeBarrier"]
      BY <1>27 DEF CancelledAll
    <3>2. CASE t \in Consumers
      BY <3>1, <3>2, ThreadsAssumption
    <3>3. CASE t \in Producers
      BY <3>1, <3>3, ThreadsAssumption
    <3>4. CASE t \notin Consumers /\ t \notin Producers
      BY <3>1, <3>4
    <3> QED
      BY <3>2, <3>3, <3>4
  <2>2. /\ UNCHANGED <<published, nextToClaim, consumed, claim>> /\ pc[t] = "cancel"
        /\ \A u \in Threads \ {t} : goal'[u] = goal[u]
    BY <1>27 DEF CancelledAll
  <2>3. {pc[t], label} \cap {"claim", "publish"} = {}
    BY <2>1, <2>2
  <2> QED
    BY <2>1, <2>2, <2>3, QuietStep
<1>28. CASE UNCHANGED vars
  BY <1>28 DEF vars, Quiet, Claiming
<1> QED
  BY <1>6, <1>7, <1>8, <1>9, <1>10, <1>11, <1>12, <1>13, <1>14, <1>15, <1>16,
     <1>17, <1>18, <1>19, <1>21, <1>22, <1>23, <1>24, <1>25, <1>26, <1>27, <1>28,
     StepCases

\* A stored number is after the prefix and overwrites nothing the consumer has
\* still to read, and no gap is filled but its own.
LEMMA StoredAhead ==
  ASSUME OneConsumer, Types, Claims, NEW p \in Producers, pc[p] = "publish",
         NEW s \in Int, claim[p][1] <= s, s < claim[p][2], Store(s),
         consumed' = consumed, Types'
  PROVE  /\ Prefix <= Prefix'
         /\ claim[p][1] < s => Prefix' = Prefix
<1>1. PICK c \in Consumers : TRUE
  BY ThreadsAssumption
<1>2. /\ Prefix \in Int /\ consumed[c] \in Int /\ Last \in Int
      /\ consumed[c] <= Prefix /\ Prefix <= Last
      /\ \A n \in consumed[c] + 1 .. Prefix : Holds(n)
      /\ Prefix < Last => ~Holds(Prefix + 1)
  BY PrefixIsThat, NumbersAreInt, Sizes DEF PrefixIsReady, ReadyUpTo, Types
<1>3. Prefix < claim[p][1]
  BY PrefixIsUnclaimed DEF Claims, Claiming
<1>4. /\ claim[p][1] \in Int /\ claim[p][2] \in Int /\ claim[p][2] <= Last + 1
      /\ claim[p][2] - 1 - BufferSize <= consumed[c]
      /\ Initial <= consumed[c]
  BY NumbersAreInt, SequencesAreInt DEF Types, Claims, ClaimsHaveRoom
<1>5. s \in Sequences
  BY <1>2, <1>3, <1>4, Sizes DEF Sequences
<1>6. \A n \in Scannable : n # s => (Holds(n)' <=> Holds(n) /\ Slot(n) # Slot(s))
  BY <1>5, Stored DEF Types, TypeOK
<1>7. ASSUME NEW n \in consumed[c] + 1 .. Prefix PROVE Holds(n)'
  <2>1. n \in Int /\ n < s /\ s - n < BufferSize /\ n - s < BufferSize
    BY <1>2, <1>3, <1>4, Sizes
  <2>2. n \in Scannable
    BY <1>2, <1>4, Sizes DEF Scannable
  <2>3. Slot(n) # Slot(s)
    BY <2>1, SlotsDiffer
  <2>4. Holds(n)
    BY <1>2
  <2> QED
    BY <2>1, <2>2, <2>3, <2>4, <1>6
<1>8. consumed'[c] = consumed[c]
  OBVIOUS
<1>9. Prefix <= Prefix'
  <2>1. (OneConsumer /\ Types => PrefixIsBounded)'
    BY PrefixBounds, PTL
  <2>2. \A n \in consumed'[c] + 1 .. Prefix : Holds(n)'
    BY <1>7, <1>8
  <2> QED
    BY <2>1, <2>2, <1>2 DEF PrefixIsBounded
<1>10. ASSUME claim[p][1] < s PROVE Prefix' = Prefix
  <2>1. PICK gap \in Int : gap = Prefix + 1
    BY <1>2
  <2>2. gap \in Scannable /\ gap # s /\ consumed[c] < gap /\ gap <= Last /\ ~Holds(gap)
    BY <1>2, <1>3, <1>4, <1>5, <1>10, <2>1, Sizes DEF Scannable, Sequences
  <2>3. ~Holds(gap)'
    BY <2>2, <1>6
  <2>4. (OneConsumer /\ Types => PrefixIsBounded)'
    BY PrefixBounds, PTL
  <2>5. Prefix' < gap
    BY <1>8, <2>2, <2>3, <2>4 DEF PrefixIsBounded
  <2>6. (OneConsumer /\ Types => PrefixIsReady)'
    BY PrefixIsThat, PTL
  <2>7. Prefix' \in Int
    BY <2>6 DEF PrefixIsReady
  <2> QED
    BY <1>2, <1>9, <2>1, <2>5, <2>7
<1> QED
  BY <1>9, <1>10

\* What a consumer knows is published and not before what it has read, and it
\* asks for more than it has read.
Answers ==
  \A c \in Consumers :
    /\ consumed[c] <= known[c] /\ known[c] <= Prefix
    /\ pc[c] # "idle" => consumed[c] < target[c]
    /\ event[c] = "set" => target[c] <= known[c]
    /\ event[c] = "canceled" => closed

LEMMA ClaimsStep ==
  ASSUME OneConsumer, Types, Phases, Claims, Answers, [Next]_vars
  PROVE  Claims'
<1>0. /\ TypeOK /\ ClaimsAreApart /\ ClaimsHaveRoom /\ ClaimsAreUnpublished /\ ClaimsAreUnread
      /\ BufferSize \in Int /\ Initial \in Int /\ Last \in Int
      /\ nextToClaim \in Int /\ Initial + 1 <= nextToClaim
  BY Sizes DEF Types, TypeOK, Claims
<1>t. /\ \A p \in Producers : claim[p][1] \in Int /\ claim[p][2] \in Int /\ goal[p] \in Int
                              /\ claim[p][2] <= Last + 1 /\ claim[p][1] \in Sequences
      /\ \A c \in Consumers : consumed[c] \in Int /\ known[c] \in Int
                              /\ consumed[c] \in Sequences
      /\ Producers \subseteq Threads
  BY <1>0, NumbersAreInt DEF Threads
<1>u. Prefix \in Int /\ Prefix < nextToClaim
      /\ \A p \in Producers : Claiming(p) => Prefix < claim[p][1]
  BY PrefixIsThat, PrefixIsUnclaimed, ThreadsAssumption DEF PrefixIsReady, Claims
<1>h. UNCHANGED published => \A s : Holds(s)' <=> Holds(s)
  BY DEF Holds
<1> USE <1>0
<1>1. ASSUME NEW p \in Producers, NEW n \in 1 .. BufferSize + 1,
             nextToClaim + n - 1 <= Last, ClaimCount(p, n)
      PROVE  Claims'
  <2>1. /\ UNCHANGED <<published, consumed, goal>> /\ nextToClaim' = nextToClaim + n
        /\ claim' = [claim EXCEPT ![p] = <<nextToClaim, nextToClaim + n>>]
        /\ pc' = [pc EXCEPT ![p] = "claim"]
    BY <1>1 DEF ClaimCount, Goto, shared, locals
  <2>2. /\ claim'[p][1] = nextToClaim /\ claim'[p][2] = nextToClaim + n /\ pc'[p] = "claim"
        /\ \A q \in Producers \ {p} : claim'[q] = claim[q] /\ pc'[q] = pc[q]
    BY <2>1 DEF TypeOK, Threads
  <2>3. n \in Int /\ 1 <= n /\ nextToClaim <= Last
    BY <1>1
  <2>4. ClaimsAreApart'
    BY <1>t, <2>1, <2>2, <2>3 DEF ClaimsAreApart, Claiming
  <2>5. ClaimsHaveRoom'
    BY <2>1, <2>2 DEF ClaimsHaveRoom
  <2>6. ClaimsAreUnpublished'
    BY <1>h, <2>1, <2>2, <2>3 DEF ClaimsAreUnpublished, Claiming
  <2>7. ClaimsAreUnread'
    BY <1>t, <2>1, <2>2, <2>3 DEF ClaimsAreUnread, Claiming
  <2> QED
    BY <2>4, <2>5, <2>6, <2>7 DEF Claims
<1>2. ASSUME NEW p \in Producers, Granted(p) PROVE Claims'
  <2>1. /\ UNCHANGED <<published, consumed, nextToClaim, claim>> /\ pc[p] = "claim"
        /\ goal' = [goal EXCEPT ![p] = claim[p][1] + 1]
        /\ pc' = [pc EXCEPT ![p] = "publish"]
        /\ \A c \in Consumers : ~Precedes(consumed[c], claim[p][2] - 1 - BufferSize)
    BY <1>2 DEF Granted, Goto, shared, claims
  <2>2. /\ pc'[p] = "publish" /\ goal'[p] = claim[p][1] + 1
        /\ \A q \in Producers \ {p} : goal'[q] = goal[q] /\ pc'[q] = pc[q]
    BY <2>1, <1>t DEF TypeOK, Threads
  <2>3. \A q \in Producers : Claiming(q)' <=> Claiming(q)
    BY <2>1, <2>2 DEF Claiming
  <2>4. ASSUME NEW c \in Consumers PROVE claim[p][2] - 1 - BufferSize <= consumed[c]
    <3> DEFINE room == claim[p][2] - 1 - BufferSize
    <3>1. /\ room \in Int /\ Initial - BufferSize < room /\ room <= Last
          /\ consumed[c] \in Int /\ Initial <= consumed[c] /\ consumed[c] <= Last
      BY <1>t, <2>1, SequencesAreInt, Sizes DEF ClaimsAreApart, Claiming
    <3>2. consumed[c] - room < HalfRange /\ -HalfRange <= consumed[c] - room
      BY <3>1, Sizes
    <3>3. ~Precedes(consumed[c], room)
      BY <2>1
    <3> HIDE DEF room
    <3>4. ~(consumed[c] < room)
      BY <3>1, <3>2, <3>3, PrecedesIsLess
    <3>5. room <= consumed[c]
      BY <3>1, <3>4
    <3> QED
      BY <3>5 DEF room
  <2>5. ClaimsAreApart' /\ ClaimsAreUnread'
    BY <2>1, <2>3 DEF ClaimsAreApart, ClaimsAreUnread
  <2>6. ClaimsHaveRoom'
    <3>1. claim[p][1] < claim[p][1] + 1 /\ claim[p][1] + 1 <= claim[p][2]
      BY <1>t, <2>1 DEF ClaimsAreApart, Claiming
    <3> QED
      BY <2>1, <2>2, <2>4, <3>1 DEF ClaimsHaveRoom
  <2>7. ClaimsAreUnpublished'
    BY <1>h, <2>1, <2>3 DEF ClaimsAreUnpublished
  <2> QED
    BY <2>5, <2>6, <2>7 DEF Claims
<1>3. ASSUME NEW p \in Producers, Refused(p) PROVE Claims'
  <2>1. /\ UNCHANGED <<published, consumed, nextToClaim, goal>> /\ pc[p] = "claim"
        /\ claim' = [claim EXCEPT ![p] = <<Initial, Initial>>]
        /\ pc' = [pc EXCEPT ![p] = "idle"]
    BY <1>3 DEF Refused, Goto, shared, locals
  <2>2. /\ pc'[p] = "idle"
        /\ \A q \in Producers \ {p} : claim'[q] = claim[q] /\ pc'[q] = pc[q]
    BY <2>1, <1>t DEF TypeOK, Threads
  <2>4. ClaimsAreApart' /\ ClaimsHaveRoom' /\ ClaimsAreUnread'
    BY <2>1, <2>2 DEF ClaimsAreApart, ClaimsHaveRoom, ClaimsAreUnread, Claiming
  <2>5. ClaimsAreUnpublished'
    BY <1>h, <2>1, <2>2 DEF ClaimsAreUnpublished, Claiming
  <2> QED
    BY <2>4, <2>5 DEF Claims
<1>4. ASSUME NEW p \in Producers, pc[p] = "publish", NEW s \in Int,
             claim[p][1] <= s, s < claim[p][2], Store(s), s > claim[p][1] \/ ~Claiming(p)',
             UNCHANGED <<nextToClaim, consumed>>,
             \A q \in Producers : Claiming(q)' => Claiming(q) /\ claim'[q] = claim[q]
      PROVE  ClaimsAreUnpublished'
  <2>1. Claiming(p) /\ s \in Sequences /\ s < nextToClaim
    BY <1>4, <1>t, SequencesAreInt, Sizes DEF Claiming, ClaimsAreApart, Sequences
  <2>2. \A n \in Scannable : n # s => (Holds(n)' => Holds(n))
    BY <1>4, <2>1, Stored DEF TypeOK, Types
  <2>3. ASSUME NEW n \in Int, nextToClaim' <= n, n <= Last PROVE ~Holds(n)'
    <3>1. n \in Scannable /\ n # s /\ ~Holds(n)
      BY <1>4, <2>1, <2>3, Sizes DEF Scannable, ClaimsAreUnpublished
    <3> QED
      BY <2>2, <3>1
  <2>4. ASSUME NEW q \in Producers, Claiming(q)' PROVE ~Holds(claim[q][1])'
    <3>1. PICK n \in Sequences : n = claim[q][1] /\ n = claim'[q][1]
      BY <1>4, <1>t, <2>4
    <3>2. n # s
      <4>1. CASE q = p
        BY <1>4, <1>t, <2>4, <3>1, <4>1, SequencesAreInt
      <4>2. CASE q # p
        <5>1. Claiming(q) /\ n < claim[q][2]
          BY <1>4, <2>4, <3>1 DEF ClaimsAreApart
        <5>2. claim[p][2] <= n \/ claim[q][2] <= claim[p][1]
          BY <2>1, <3>1, <4>2, <5>1 DEF ClaimsAreApart
        <5> QED
          BY <1>4, <1>t, <5>1, <5>2, <3>1
      <4> QED
        BY <4>1, <4>2
    <3>3. ~Holds(n) /\ n \in Scannable
      BY <1>4, <2>4, <3>1, SequencesAreInt DEF ClaimsAreUnpublished
    <3>4. ~Holds(n)'
      BY <2>2, <3>2, <3>3
    <3> QED
      BY <3>1, <3>4 DEF Holds
  <2> QED
    BY <2>3, <2>4 DEF ClaimsAreUnpublished
<1>5. ASSUME NEW p \in Producers, PublishRest(p) PROVE Claims'
  <2>1. /\ UNCHANGED <<consumed, nextToClaim, claim, pc>> /\ pc[p] = "publish"
        /\ goal' = [goal EXCEPT ![p] = @ + 1] /\ goal[p] < claim[p][2] /\ Store(goal[p])
    BY <1>5 DEF PublishRest, claims
  <2>2. claim[p][1] < goal[p]
    BY <2>1 DEF ClaimsHaveRoom
  <2>3. \A q \in Producers : Claiming(q)' <=> Claiming(q)
    BY <2>1 DEF Claiming
  <2>4. ClaimsAreUnpublished'
    BY <1>4, <1>t, <2>1, <2>2, <2>3
  <2>5. ClaimsAreApart' /\ ClaimsAreUnread'
    BY <2>1, <2>3 DEF ClaimsAreApart, ClaimsAreUnread
  <2>6. goal'[p] = goal[p] + 1 /\ \A q \in Producers \ {p} : goal'[q] = goal[q]
    BY <2>1, <1>t DEF TypeOK
  <2>7. ClaimsHaveRoom'
    BY <1>t, <2>1, <2>2, <2>6 DEF ClaimsHaveRoom
  <2> QED
    BY <2>4, <2>5, <2>7 DEF Claims
<1>6. ASSUME NEW p \in Producers, PublishFront(p) PROVE Claims'
  <2>1. /\ UNCHANGED <<consumed, nextToClaim>> /\ pc[p] = "publish"
        /\ goal' = [goal EXCEPT ![p] = Initial] /\ goal[p] = claim[p][2]
        /\ Store(claim[p][1])
        /\ claim' = [claim EXCEPT ![p] = <<Initial, Initial>>]
        /\ pc' = [pc EXCEPT ![p] = "exchange"]
    BY <1>6 DEF PublishFront, Goto
  <2>2. /\ pc'[p] = "exchange"
        /\ \A q \in Producers \ {p} : claim'[q] = claim[q] /\ pc'[q] = pc[q] /\ goal'[q] = goal[q]
    BY <2>1, <1>t DEF TypeOK, Threads
  <2>3. ~Claiming(p)' /\ \A q \in Producers : Claiming(q)' => Claiming(q) /\ claim'[q] = claim[q]
    BY <2>2 DEF Claiming
  <2>4. claim[p][1] < claim[p][2]
    BY <2>1 DEF ClaimsAreApart, Claiming
  <2>5. ClaimsAreUnpublished'
    BY <1>4, <1>t, <2>1, <2>3, <2>4
  <2>6. ClaimsAreApart' /\ ClaimsAreUnread' /\ ClaimsHaveRoom'
    BY <2>1, <2>2, <2>3 DEF ClaimsAreApart, ClaimsAreUnread, ClaimsHaveRoom
  <2> QED
    BY <2>5, <2>6 DEF Claims
<1>7. ASSUME NEW c \in Consumers, Consume(c) PROVE Claims'
  <2>1. /\ UNCHANGED <<published, nextToClaim, claim, goal>> /\ pc[c] = "read"
        /\ consumed' = [consumed EXCEPT ![c] = known[c]] /\ pc' = [pc EXCEPT ![c] = "idle"]
    BY <1>7 DEF Consume, Goto, shared, locals
  <2>2. \A x \in Consumers : consumed'[x] \in Int /\ consumed[x] <= consumed'[x]
                             /\ consumed'[x] <= Prefix
    BY <2>1, <1>t, <1>u DEF Answers, TypeOK
  <2>3. \A p \in Producers : pc'[p] = pc[p]
    BY <2>1, ThreadsAssumption DEF TypeOK, Threads
  <2>4. \A p \in Producers : Claiming(p)' <=> Claiming(p)
    BY <2>3 DEF Claiming
  <2>5. ClaimsAreApart'
    BY <2>1, <2>4 DEF ClaimsAreApart
  <2>6. ClaimsHaveRoom'
    BY <1>t, <2>1, <2>2, <2>3 DEF ClaimsHaveRoom
  <2>7. ClaimsAreUnpublished'
    BY <1>h, <2>1, <2>4 DEF ClaimsAreUnpublished
  <2>8. ClaimsAreUnread'
    BY <1>t, <1>u, <2>1, <2>2, <2>4 DEF ClaimsAreUnread
  <2> QED
    BY <2>5, <2>6, <2>7, <2>8 DEF Claims
<1>8. CASE Quiet
  BY <1>8, <1>h
     DEF Claims, Quiet, ClaimsAreApart, ClaimsHaveRoom, ClaimsAreUnpublished, ClaimsAreUnread
<1> QED
  BY <1>1, <1>2, <1>3, <1>5, <1>6, <1>7, <1>8, ClaimCases

(***************************************************************************)
(* How the prefix moves                                                    *)
(***************************************************************************)
PrefixIsOnly == \A c \in Consumers, s \in Int : ReadyUpTo(c, s) => s = Prefix

LEMMA PrefixIsOne == OneConsumer /\ Types => PrefixIsOnly
BY PrefixIsThat, OnePrefix DEF PrefixIsReady, PrefixIsOnly

\* The rest of a claim is published after a gap, its first number.
LEMMA RestStays ==
  ASSUME OneConsumer, Types, Types', Claims, NEW p \in Producers, PublishRest(p)
  PROVE  Prefix' = Prefix
<1>1. /\ pc[p] = "publish" /\ Store(goal[p]) /\ consumed' = consumed
      /\ goal[p] \in Int /\ claim[p][1] < goal[p] /\ goal[p] < claim[p][2]
      /\ claim[p][1] \in Int
  BY NumbersAreInt DEF PublishRest, claims, Claims, ClaimsHaveRoom, Threads, Types
<1>2. claim[p][1] <= goal[p]
  BY <1>1
<1> QED
  BY <1>1, <1>2, StoredAhead

\* Only the publication of the first number of a claim moves it, and forward.
LEMMA PrefixMoves ==
  ASSUME OneConsumer, Types, Phases, Claims, Answers, [Next]_vars
  PROVE  /\ Prefix \in Int /\ Prefix' \in Int
         /\ Prefix <= Prefix'
         /\ Prefix' = Prefix \/ \E p \in Producers : PublishFront(p)
<1>t. TypeOK /\ Types'
  BY TypesStep DEF Types
<1>0. Prefix \in Int
  BY PrefixIsThat, ThreadsAssumption DEF PrefixIsReady
<1>1. ASSUME NEW p \in Producers, PublishRest(p) PROVE Prefix' = Prefix
  BY <1>1, <1>t, RestStays
<1>2. ASSUME NEW p \in Producers, PublishFront(p) PROVE Prefix <= Prefix'
  <2>1. /\ pc[p] = "publish" /\ Store(claim[p][1]) /\ consumed' = consumed
        /\ claim[p][1] \in Int /\ claim[p][1] < claim[p][2]
    BY <1>2, <1>t, NumbersAreInt DEF PublishFront, Claims, ClaimsAreApart, Claiming
  <2>2. claim[p][1] <= claim[p][1]
    BY <2>1
  <2> QED
    BY <1>t, <2>1, <2>2, StoredAhead
<1>3. ASSUME NEW c \in Consumers, Consume(c) PROVE Prefix' = Prefix
  <2>1. published' = published /\ consumed'[c] = known[c]
    BY <1>3, <1>t DEF Consume, shared, TypeOK
  <2>2. /\ consumed[c] \in Int /\ known[c] \in Int /\ consumed[c] <= known[c]
        /\ known[c] <= Prefix /\ ReadyUpTo(c, Prefix)
    BY <1>t, NumbersAreInt, PrefixIsThat DEF Answers, PrefixIsReady
  <2>3. PICK last \in Int : last = Prefix
    BY <1>0
  <2>4. \A n : Holds(n)' <=> Holds(n)
    BY <2>1 DEF Holds
  <2>5. ReadyUpTo(c, last)'
    BY <2>1, <2>2, <2>3, <2>4, Sizes DEF ReadyUpTo
  <2>6. (OneConsumer /\ Types => PrefixIsOnly)'
    BY PrefixIsOne, PTL
  <2> QED
    BY <1>t, <2>3, <2>5, <2>6 DEF PrefixIsOnly
<1>4. ASSUME NEW p \in Producers, NEW n \in 1 .. BufferSize + 1, ClaimCount(p, n)
      PROVE  Prefix' = Prefix
  BY <1>4, PrefixStays DEF ClaimCount, shared
<1>5. ASSUME NEW p \in Producers, Granted(p) \/ Refused(p) PROVE Prefix' = Prefix
  <2>1. UNCHANGED <<published, consumed>>
    BY <1>5 DEF Granted, Refused, shared, claims
  <2> QED
    BY <2>1, PrefixStays
<1>6. ASSUME Quiet PROVE Prefix' = Prefix
  <2>1. UNCHANGED <<published, consumed>>
    BY <1>6 DEF Quiet
  <2> QED
    BY <2>1, PrefixStays
<1>7. (OneConsumer /\ Types => PrefixIsReady)'
  BY PrefixIsThat, PTL
<1>8. Prefix' \in Int
  BY <1>t, <1>7, ThreadsAssumption DEF PrefixIsReady
<1>9. Prefix <= Prefix' /\ (Prefix' = Prefix \/ \E p \in Producers : PublishFront(p))
  <2>1. Prefix <= Prefix
    BY <1>0
  <2> QED
    BY <1>1, <1>2, <1>3, <1>4, <1>5, <1>6, <2>1, ClaimCases
<1> QED
  BY <1>0, <1>8, <1>9

\* A scan that finds a number finds it in the prefix.
LEMMA Found ==
  ASSUME OneConsumer, Types, NEW s \in Sequences, s <= Prefix, Holds(s + 1)
  PROVE  s + 1 <= Prefix
<1>1. PICK c \in Consumers : TRUE
  BY ThreadsAssumption
<1>2. /\ Prefix \in Int /\ Prefix <= Last /\ Last \in Int /\ s \in Int
      /\ Prefix < Last => ~Holds(Prefix + 1)
  BY PrefixIsThat, SequencesAreInt, Sizes, NumbersAreInt DEF PrefixIsReady, ReadyUpTo, Types
<1>3. ~Holds(Last + 1)
  BY NoneAfterLast DEF Types
<1> QED
  BY <1>2, <1>3

(***************************************************************************)
(* What the threads know                                                   *)
(***************************************************************************)
\* What a thread has seen is published, and satisfies those it calls ready.
Memories ==
  \A t \in Threads :
    /\ seen[t] <= Prefix
    /\ \A a \in ready[t] : target[a] <= seen[t]

\* No scan begins behind what was read.
Fresh ==
  /\ \A t \in Threads : pc[t] \in {"scan", "requeue"} => \A a \in held[t] : consumed[a] <= seen[t]
  /\ \A c \in Consumers : pc[c] \in {"enqueue", "load", "check", "take"} => consumed[c] <= seen[c]

Knowledge == Answers /\ Memories /\ Fresh

LEMMA KnowledgeStart == ASSUME OneConsumer, Init PROVE Knowledge
<1>1. PICK c \in Consumers : TRUE
  BY ThreadsAssumption
<1>2. Initial <= Prefix /\ Initial \in Int
  BY TypesStart, PrefixIsThat, Sizes DEF PrefixIsReady, ReadyUpTo, Init
<1>3. Answers
  BY <1>2, Sizes DEF Answers, Init, Threads
<1>4. Memories
  BY <1>2 DEF Memories, Init
<1>5. Fresh
  BY DEF Fresh, Init, Threads
<1> QED
  BY <1>3, <1>4, <1>5 DEF Knowledge

\* Thread t goes elsewhere, but not to where a scan begins, and learns nothing;
\* no awaiter is told a number.
LearnsNothing(t, label) ==
  /\ pc' = [pc EXCEPT ![t] = label]
  /\ label \notin {"scan", "requeue"}
  /\ t \in Consumers => pc[t] # "idle"
  /\ t \in Consumers /\ label \in {"enqueue", "load", "check", "take"} =>
       pc[t] \in {"enqueue", "load", "check", "take"}
  /\ UNCHANGED <<consumed, target, known, seen, ready>>
  /\ \A u \in Threads \ {t} : held'[u] = held[u]
  /\ closed' = closed \/ closed'
  /\ \A a \in Consumers : event'[a] = event[a] \/ (event'[a] = "canceled" /\ closed')

LEMMA NothingLearnt ==
  ASSUME Types, Knowledge, Prefix \in Int, Prefix' \in Int, Prefix <= Prefix',
         NEW t \in Threads, NEW label, LearnsNothing(t, label)
  PROVE  Knowledge'
<1> USE DEF LearnsNothing
<1>0. closed => closed'
  BY Zenon
<1>1. \A u \in Threads : seen[u] \in Int
  BY NumbersAreInt DEF Types
<1>2. \A c \in Consumers : known[c] \in Int
  BY NumbersAreInt DEF Types
<1>3. pc \in [Threads -> Labels] /\ Consumers \subseteq Threads
  BY DEF Types, TypeOK, Threads
<1>4. pc'[t] = label /\ \A u \in Threads \ {t} : pc'[u] = pc[u]
  BY <1>3
<1>5. Answers'
  BY <1>0, <1>2, <1>3, <1>4 DEF Knowledge, Answers
<1>6. Memories'
  BY <1>1 DEF Knowledge, Memories
<1>7. Fresh'
  BY <1>3, <1>4 DEF Knowledge, Fresh
<1> QED
  BY <1>5, <1>6, <1>7 DEF Knowledge

\* Thread t sees one number more.
LEMMA SeesMore ==
  ASSUME OneConsumer, Types, Knowledge, UNCHANGED <<published, consumed>>,
         NEW t \in Threads, NEW label, pc' = [pc EXCEPT ![t] = label],
         label \in {"scan", "requeue"} => pc[t] \in {"scan", "requeue"},
         t \in Consumers => pc[t] # "idle",
         t \in Consumers /\ label \in {"enqueue", "load", "check", "take"} =>
           pc[t] \in {"enqueue", "load", "check", "take"},
         UNCHANGED <<target, known, ready, held, closed, event>>,
         Holds(seen[t] + 1), seen' = [seen EXCEPT ![t] = @ + 1]
  PROVE  Knowledge'
<1>1. \A u \in Threads : seen[u] \in Int /\ seen[u] \in Sequences
  BY NumbersAreInt DEF Types
<1>2. \A c \in Consumers : consumed[c] \in Int /\ target[c] \in Int
  BY NumbersAreInt DEF Types
<1>3. pc \in [Threads -> Labels] /\ Consumers \subseteq Threads
      /\ ready \in [Threads -> SUBSET Consumers] /\ held \in [Threads -> SUBSET Consumers]
  BY DEF Types, TypeOK, Threads
<1>4. /\ pc'[t] = label /\ seen'[t] = seen[t] + 1
      /\ \A u \in Threads \ {t} : pc'[u] = pc[u] /\ seen'[u] = seen[u]
  BY <1>3 DEF Types, TypeOK
<1>5. seen[t] + 1 <= Prefix
  BY <1>1, Found DEF Knowledge, Memories
<1>6. Prefix' = Prefix
  BY PrefixStays
<1>7. \A u \in Threads : seen[u] <= seen'[u] /\ seen'[u] <= Prefix
  BY <1>1, <1>4, <1>5 DEF Knowledge, Memories
<1>8. \A u \in Threads : seen'[u] \in Int
  BY <1>1, <1>4
<1>9. Answers'
  BY <1>3, <1>4, <1>6 DEF Knowledge, Answers
<1>10. Memories'
  <2>1. \A u \in Threads : \A a \in ready[u] : a \in Consumers /\ target[a] <= seen[u]
    BY <1>3 DEF Knowledge, Memories
  <2> QED
    BY <1>1, <1>2, <1>6, <1>7, <1>8, <2>1 DEF Memories
<1>11. Fresh'
  <2>1. ASSUME NEW u \in Threads, pc'[u] \in {"scan", "requeue"}, NEW a \in held[u]
        PROVE  consumed[a] <= seen'[u]
    <3>1. a \in Consumers /\ consumed[a] <= seen[u]
      BY <1>3, <1>4, <2>1 DEF Knowledge, Fresh
    <3> QED
      BY <1>1, <1>2, <1>7, <1>8, <3>1
  <2>2. ASSUME NEW c \in Consumers, pc'[c] \in {"enqueue", "load", "check", "take"}
        PROVE  consumed[c] <= seen'[c]
    <3>1. consumed[c] <= seen[c]
      BY <1>3, <1>4, <2>2 DEF Knowledge, Fresh
    <3> QED
      BY <1>1, <1>2, <1>3, <1>7, <1>8, <3>1
  <2> QED
    BY <2>1, <2>2 DEF Fresh
<1> QED
  BY <1>9, <1>10, <1>11 DEF Knowledge

\* Sorting tells those that are not ready a number that is published.
LEMMA SplitTells ==
  ASSUME Types, Phases, AwaitersAreKept, Knowledge, NEW t \in Threads,
         NEW S \in SUBSET Consumers, Split(t, S), \A a \in S : Listed(a),
         \A a \in S : consumed[a] <= seen[t]
  PROVE  /\ \A u \in Threads \ {t} : ready'[u] = ready[u] /\ held'[u] = held[u]
         /\ \A a \in ready'[t] : target[a] <= seen[t]
         /\ held'[t] \subseteq S
         /\ \A a \in Consumers :
              known'[a] = known[a] \/
               (known'[a] = seen[t] /\ consumed[a] <= seen[t] /\ event[a] = "not_set")
<1> DEFINE rest == Unsatisfied(S, seen[t])
<1>1. rest \subseteq S
  BY DEF Unsatisfied
<1>2. \A a \in S \ rest : target[a] <= seen[t]
  <2> TAKE a \in S \ rest
  <2>1. /\ target[a] \in Int /\ seen[t] \in Int
        /\ Difference(target[a], seen[t]) = target[a] - seen[t]
    BY NumbersAreInt, Order DEF Types
  <2>2. ~(Difference(target[a], seen[t]) > 0)
    BY DEF Unsatisfied
  <2> QED
    BY <2>1, <2>2
<1>3. /\ held' = [held EXCEPT ![t] = rest]
      /\ ready' = [ready EXCEPT ![t] = @ \cup (S \ rest)]
      /\ known' = [a \in Consumers |-> IF a \in rest THEN seen[t] ELSE known[a]]
  BY DEF Split
<1> HIDE DEF rest
<1>4. /\ held'[t] = rest /\ ready'[t] = ready[t] \cup (S \ rest)
      /\ \A u \in Threads \ {t} : ready'[u] = ready[u] /\ held'[u] = held[u]
  BY <1>3 DEF Types, TypeOK
<1>5. \A a \in S : event[a] = "not_set"
  BY DEF AwaitersAreKept, ListedWhilePending
<1>6. \A a \in ready'[t] : target[a] <= seen[t]
  BY <1>2, <1>4 DEF Knowledge, Memories
<1>7. \A a \in Consumers :
        known'[a] = known[a] \/
               (known'[a] = seen[t] /\ consumed[a] <= seen[t] /\ event[a] = "not_set")
  BY <1>1, <1>3, <1>5
<1> QED
  BY <1>1, <1>4, <1>6, <1>7

\* What a thread holds is all there is to hold.
LEMMA HoldsAll ==
  ASSUME OneConsumer, OneOwner, NEW t \in Threads, NEW a \in held[t],
         TypeOK
  PROVE  ready[t] = {} /\ \A c \in Consumers : c = a
BY DEF OneConsumer, OneOwner, TypeOK

LEMMA KnowledgeStep ==
  ASSUME OneConsumer, Ownership, Claims, Knowledge, [Next]_vars
  PROVE  Knowledge'
<1>0. /\ TypeOK /\ Types /\ Phases /\ AwaitersAreKept /\ OneOwner /\ Answers
  BY DEF Ownership, Types, AwaitersAreKept, Knowledge
<1>t. /\ \A t \in Threads : seen[t] \in Int /\ seen[t] \in Sequences
      /\ \A c \in Consumers : /\ consumed[c] \in Int /\ known[c] \in Int
                              /\ target[c] \in Int /\ Initial <= consumed[c]
      /\ Producers \subseteq Threads /\ Consumers \subseteq Threads
      /\ Closers \subseteq Threads /\ Closers \cap Consumers = {}
      /\ Producers \cap Consumers = {} /\ Initial \in Int
      /\ pc \in [Threads -> Labels]
  BY <1>0, NumbersAreInt, SequencesAreInt, Sizes, ThreadsAssumption DEF Threads, TypeOK
<1>p. Prefix \in Int /\ Prefix' \in Int /\ Prefix <= Prefix'
  BY <1>0, PrefixMoves
<1>q. UNCHANGED <<published, consumed>> => Prefix' = Prefix
  BY PrefixStays
<1> USE <1>0, <1>t
<1>1. ASSUME NEW p \in Producers, NEW n \in 1 .. BufferSize + 1, ClaimCount(p, n)
      PROVE  Knowledge'
  <2>1. /\ UNCHANGED <<consumed, target, known, seen, ready, held, closed, event>>
        /\ pc' = [pc EXCEPT ![p] = "claim"]
    BY <1>1 DEF ClaimCount, Goto, shared, waits, locals
  <2>9. LearnsNothing(p, "claim")
    BY <2>1 DEF LearnsNothing
  <2> QED
    BY <2>9, <1>p, NothingLearnt
<1>2. ASSUME NEW p \in Producers, Granted(p) PROVE Knowledge'
  <2>1. /\ UNCHANGED <<consumed, target, known, seen, ready, held, closed, event>>
        /\ pc' = [pc EXCEPT ![p] = "publish"]
    BY <1>2 DEF Granted, Goto, shared, waits, claims
  <2>9. LearnsNothing(p, "publish")
    BY <2>1 DEF LearnsNothing
  <2> QED
    BY <2>9, <1>p, NothingLearnt
<1>3. ASSUME NEW p \in Producers, Refused(p) PROVE Knowledge'
  <2>1. /\ UNCHANGED <<consumed, target, known, seen, ready, held, closed, event>>
        /\ pc' = [pc EXCEPT ![p] = "idle"]
    BY <1>3 DEF Refused, Goto, shared, waits, locals
  <2>9. LearnsNothing(p, "idle")
    BY <2>1 DEF LearnsNothing
  <2> QED
    BY <2>9, <1>p, NothingLearnt
<1>4. ASSUME NEW p \in Producers, PublishRest(p) PROVE Knowledge'
  <2>1. /\ UNCHANGED <<consumed, target, known, seen, ready, held, closed, event>>
        /\ pc' = [pc EXCEPT ![p] = "publish"]
    BY <1>4 DEF PublishRest, waits, claims
  <2>9. LearnsNothing(p, "publish")
    BY <2>1 DEF LearnsNothing
  <2> QED
    BY <2>9, <1>p, NothingLearnt
<1>5. ASSUME NEW p \in Producers, PublishFront(p) PROVE Knowledge'
  <2>1. /\ UNCHANGED <<consumed, target, known, seen, ready, held, closed, event>>
        /\ pc' = [pc EXCEPT ![p] = "exchange"]
    BY <1>5 DEF PublishFront, Goto, waits
  <2>9. LearnsNothing(p, "exchange")
    BY <2>1 DEF LearnsNothing
  <2> QED
    BY <2>9, <1>p, NothingLearnt
<1>6. ASSUME NEW p \in Producers, Exchange(p) PROVE Knowledge'
  <2>1. /\ UNCHANGED <<consumed, target, known, seen, ready, closed, event>>
        /\ \A u \in Threads \ {p} : held'[u] = held[u]
    BY <1>6 DEF Exchange, Take, waits, claims, TypeOK
  <2>2. PICK label \in {"idle", "head"} : pc' = [pc EXCEPT ![p] = label]
    BY <1>6 DEF Exchange, Goto
  <2>9. LearnsNothing(p, label)
    BY <2>1, <2>2 DEF LearnsNothing
  <2> QED
    BY <2>9, <1>p, NothingLearnt
<1>7. ASSUME NEW p \in Producers, StartScan(p) PROVE Knowledge'
  <2>1. /\ UNCHANGED <<consumed, target, known, ready, held, closed, event, published>>
        /\ pc' = [pc EXCEPT ![p] = "scan"]
    BY <1>7 DEF StartScan, Goto, waits, claims, shared
  <2>2. PICK a \in held[p] : seen' = [seen EXCEPT ![p] = known[a]]
    BY <1>7 DEF StartScan
  <2>3. a \in Consumers /\ ready[p] = {} /\ (\A c \in Consumers : c = a)
    BY HoldsAll DEF TypeOK
  <2>4. /\ seen'[p] = known[a] /\ pc'[p] = "scan"
        /\ \A u \in Threads \ {p} : seen'[u] = seen[u] /\ pc'[u] = pc[u]
    BY <2>1, <2>2 DEF TypeOK
  <2>5. Prefix' = Prefix
    BY <1>q, <2>1
  <2>6. consumed[a] <= known[a] /\ known[a] <= Prefix
    BY <2>3 DEF Answers
  <2>7. Answers'
    BY <2>1, <2>4, <2>5 DEF Answers
  <2>8. Memories'
    BY <2>1, <2>3, <2>4, <2>5, <2>6 DEF Knowledge, Memories
  <2>9. Fresh'
    <3>1. \A x \in held[p] : consumed[x] <= seen'[p]
      BY <2>3, <2>4, <2>6 DEF TypeOK
    <3> QED
      BY <2>1, <2>4, <3>1 DEF Knowledge, Fresh
  <2> QED
    BY <2>7, <2>8, <2>9 DEF Knowledge
<1>8. ASSUME NEW p \in Producers, ScanNext(p) PROVE Knowledge'
  <2>1. /\ UNCHANGED <<consumed, target, known, ready, held, closed, event, published>>
        /\ pc[p] = "scan" /\ pc' = pc /\ Holds(seen[p] + 1)
        /\ seen' = [seen EXCEPT ![p] = @ + 1]
    BY <1>8 DEF ScanNext, waits, claims, shared
  <2>2. pc' = [pc EXCEPT ![p] = "scan"]
    BY <2>1
  <2> QED
    BY <2>1, <2>2, SeesMore
<1>9. ASSUME NEW p \in Producers, EndScan(p) PROVE Knowledge'
  <2>1. /\ UNCHANGED <<consumed, target, seen, closed, event, published>>
        /\ pc[p] = "scan" /\ Split(p, held[p])
    BY <1>9 DEF EndScan, claims, shared
  <2>2. PICK label \in {"resume", "requeue"} : pc' = [pc EXCEPT ![p] = label]
    BY <1>9 DEF EndScan, Goto
  <2>3. \A a \in held[p] : Listed(a) /\ consumed[a] <= seen[p]
    BY <2>1 DEF Knowledge, Fresh, Listed, Held
  <2>4. held[p] \in SUBSET Consumers
    BY DEF TypeOK
  <2>5. /\ \A u \in Threads \ {p} : ready'[u] = ready[u] /\ held'[u] = held[u]
        /\ \A a \in ready'[p] : target[a] <= seen[p]
        /\ held'[p] \subseteq held[p]
        /\ \A a \in Consumers :
             known'[a] = known[a] \/
               (known'[a] = seen[p] /\ consumed[a] <= seen[p] /\ event[a] = "not_set")
    BY <2>1, <2>3, <2>4, SplitTells
  <2>6. Prefix' = Prefix
    BY <1>q, <2>1
  <2>7. pc'[p] = label /\ \A u \in Threads \ {p} : pc'[u] = pc[u]
    BY <2>2
  <2>8. Answers'
    BY <2>1, <2>5, <2>6, <2>7 DEF Knowledge, Answers, Memories
  <2>9. Memories'
    BY <2>1, <2>5, <2>6 DEF Knowledge, Memories
  <2>10. Fresh'
    BY <2>1, <2>3, <2>5, <2>7 DEF Knowledge, Fresh
  <2> QED
    BY <2>8, <2>9, <2>10 DEF Knowledge
<1>10. ASSUME NEW p \in Producers, Requeue(p) PROVE Knowledge'
  <2>1. /\ UNCHANGED <<consumed, target, known, seen, ready, closed, event>>
        /\ \A u \in Threads \ {p} : held'[u] = held[u]
        /\ pc' = [pc EXCEPT ![p] = "rescan"]
    BY <1>10 DEF Requeue, Push, Goto, waits, claims, TypeOK
  <2>9. LearnsNothing(p, "rescan")
    BY <2>1 DEF LearnsNothing
  <2> QED
    BY <2>9, <1>p, NothingLearnt
<1>11. ASSUME NEW p \in Producers, Rescan(p) PROVE Knowledge'
  <2>1. /\ UNCHANGED <<consumed, target, known, ready, held, closed, event, published>>
        /\ pc[p] = "rescan"
    BY <1>11 DEF Rescan, waits, claims, shared
  <2>2. CASE Holds(seen[p] + 1)
    <3>1. PICK label \in {"retake", "rescan"} : pc' = [pc EXCEPT ![p] = label]
      BY <1>11, <2>2 DEF Rescan, Goto
    <3>2. seen' = [seen EXCEPT ![p] = @ + 1]
      BY <1>11, <2>2 DEF Rescan
    <3> QED
      BY <2>1, <2>2, <3>1, <3>2, SeesMore
  <2>3. CASE ~Holds(seen[p] + 1)
    <3>1. pc' = [pc EXCEPT ![p] = "loadClosed"] /\ seen' = seen
      BY <1>11, <2>3 DEF Rescan, Goto
    <3>9. LearnsNothing(p, "loadClosed")
      BY <2>1, <3>1 DEF LearnsNothing
    <3> QED
      BY <3>9, <1>p, NothingLearnt
  <2> QED
    BY <2>2, <2>3
<1>12. ASSUME NEW p \in Producers, Retake(p) PROVE Knowledge'
  <2>1. /\ UNCHANGED <<consumed, target, known, seen, ready, closed, event>>
        /\ \A u \in Threads \ {p} : held'[u] = held[u]
        /\ pc' = [pc EXCEPT ![p] = "loadClosed"]
    BY <1>12 DEF Retake, Take, Goto, waits, claims, TypeOK
  <2>9. LearnsNothing(p, "loadClosed")
    BY <2>1 DEF LearnsNothing
  <2> QED
    BY <2>9, <1>p, NothingLearnt
<1>13. ASSUME NEW p \in Producers, LoadClosed(p) PROVE Knowledge'
  <2>1. UNCHANGED <<consumed, target, known, seen, ready, held, closed, event>>
    BY <1>13 DEF LoadClosed, waits, claims, shared
  <2>2. PICK label \in {"head", "takeAll", "resume"} : pc' = [pc EXCEPT ![p] = label]
    BY <1>13 DEF LoadClosed, Goto
  <2>9. LearnsNothing(p, label)
    BY <2>1, <2>2 DEF LearnsNothing
  <2> QED
    BY <2>9, <1>p, NothingLearnt
<1>14. ASSUME NEW c \in Consumers, NEW s \in Sequences, Wait(c, s) PROVE Knowledge'
  <2>1. /\ UNCHANGED <<consumed, ready, closed, published>> /\ pc[c] = "idle"
        /\ consumed[c] < s
        /\ target' = [target EXCEPT ![c] = s] /\ event' = [event EXCEPT ![c] = "not_set"]
        /\ known' = [known EXCEPT ![c] = consumed[c]]
        /\ seen' = [seen EXCEPT ![c] = consumed[c]]
        /\ held' = [held EXCEPT ![c] = {c}]
        /\ pc' = [pc EXCEPT ![c] = "enqueue"]
    BY <1>14 DEF Wait, Goto, shared, claims
  <2>2. ready[c] = {} /\ \A u \in Threads : c \notin ready[u]
    <3>1. ~Listed(c)
      BY <2>1 DEF AwaitersAreKept, ListedWhilePending, Waiting
    <3> QED
      BY <2>1, <3>1 DEF Listed, Held, Phases, HoldingPlaces
  <2>3. /\ target'[c] = s /\ event'[c] = "not_set" /\ known'[c] = consumed[c]
        /\ \A x \in Consumers \ {c} :
             target'[x] = target[x] /\ event'[x] = event[x] /\ known'[x] = known[x]
    BY <2>1 DEF TypeOK
  <2>4. /\ seen'[c] = consumed[c] /\ held'[c] = {c} /\ pc'[c] = "enqueue"
        /\ \A u \in Threads \ {c} :
             seen'[u] = seen[u] /\ held'[u] = held[u] /\ pc'[u] = pc[u]
    BY <2>1 DEF TypeOK
  <2>5. Prefix' = Prefix /\ consumed[c] <= Prefix /\ consumed[c] <= consumed[c]
    BY <1>q, <2>1, PrefixIsThat, <1>p DEF PrefixIsReady, ReadyUpTo
  <2>6. Answers'
    BY <2>1, <2>3, <2>4, <2>5 DEF Answers
  <2>7. Memories'
    <3>1. \A u \in Threads : \A a \in ready[u] : a \in Consumers \ {c}
      BY <2>2 DEF TypeOK
    <3> QED
      BY <2>1, <2>2, <2>3, <2>4, <2>5, <3>1 DEF Knowledge, Memories
  <2>8. Fresh'
    BY <2>1, <2>4, <2>5 DEF Knowledge, Fresh
  <2> QED
    BY <2>6, <2>7, <2>8 DEF Knowledge
<1>15. ASSUME NEW c \in Consumers, Enqueue(c) PROVE Knowledge'
  <2>1. /\ UNCHANGED <<consumed, target, known, seen, ready, closed, event>>
        /\ \A u \in Threads \ {c} : held'[u] = held[u]
        /\ pc[c] = "enqueue" /\ pc' = [pc EXCEPT ![c] = "load"]
    BY <1>15 DEF Enqueue, Push, Goto, waits, claims, TypeOK
  <2>9. LearnsNothing(c, "load")
    BY <2>1 DEF LearnsNothing
  <2> QED
    BY <2>9, <1>p, NothingLearnt
<1>16. ASSUME NEW c \in Consumers, LoadPublished(c) PROVE Knowledge'
  <2>1. /\ UNCHANGED <<consumed, target, known, ready, held, closed, event, published>>
        /\ pc[c] = "load"
    BY <1>16 DEF LoadPublished, waits, claims, shared
  <2>2. CASE Holds(seen[c] + 1)
    <3>1. pc' = [pc EXCEPT ![c] = "load"] /\ seen' = [seen EXCEPT ![c] = @ + 1]
      BY <1>16, <2>1, <2>2 DEF LoadPublished
    <3> QED
      BY <2>1, <2>2, <3>1, SeesMore
  <2>3. CASE ~Holds(seen[c] + 1)
    <3>1. pc' = [pc EXCEPT ![c] = "check"] /\ seen' = seen
      BY <1>16, <2>3 DEF LoadPublished, Goto
    <3>9. LearnsNothing(c, "check")
      BY <2>1, <3>1 DEF LearnsNothing
    <3> QED
      BY <3>9, <1>p, NothingLearnt
  <2> QED
    BY <2>2, <2>3
<1>17. ASSUME NEW c \in Consumers, Check(c) PROVE Knowledge'
  <2>1. /\ UNCHANGED <<consumed, target, known, seen, ready, held, closed, event>>
        /\ pc[c] = "check"
    BY <1>17 DEF Check, waits, claims, shared
  <2>2. PICK label \in {"resume", "take"} : pc' = [pc EXCEPT ![c] = label]
    BY <1>17 DEF Check, Goto
  <2>9. LearnsNothing(c, label)
    BY <2>1, <2>2 DEF LearnsNothing
  <2> QED
    BY <2>9, <1>p, NothingLearnt
<1>18. ASSUME NEW c \in Consumers, TakeAwaiters(c) PROVE Knowledge'
  <2>1. /\ UNCHANGED <<consumed, target, seen, closed, event, published>>
        /\ pc[c] = "take" /\ Split(c, awaiters)
    BY <1>18 DEF TakeAwaiters, claims
  <2>2. PICK label \in {"enqueue", "resume"} : pc' = [pc EXCEPT ![c] = label]
    BY <1>18 DEF TakeAwaiters, Goto
  <2>3. awaiters \in SUBSET Consumers /\ \A x \in Consumers : x = c
    BY DEF TypeOK, OneConsumer
  <2>4. \A a \in awaiters : Listed(a) /\ consumed[a] <= seen[c]
    BY <2>1, <2>3 DEF Knowledge, Fresh, Listed
  <2>5. /\ \A u \in Threads \ {c} : ready'[u] = ready[u] /\ held'[u] = held[u]
        /\ \A a \in ready'[c] : target[a] <= seen[c]
        /\ held'[c] \subseteq awaiters
        /\ \A a \in Consumers :
             known'[a] = known[a] \/
               (known'[a] = seen[c] /\ consumed[a] <= seen[c] /\ event[a] = "not_set")
    BY <2>1, <2>3, <2>4, SplitTells
  <2>6. Prefix' = Prefix
    BY <1>q, <2>1
  <2>7. pc'[c] = label /\ \A u \in Threads \ {c} : pc'[u] = pc[u]
    BY <2>2
  <2>8. Answers'
    BY <2>1, <2>5, <2>6, <2>7 DEF Knowledge, Answers, Memories
  <2>9. Memories'
    BY <2>1, <2>5, <2>6 DEF Knowledge, Memories
  <2>10. Fresh'
    BY <2>1, <2>3, <2>5, <2>7 DEF Knowledge, Fresh
  <2> QED
    BY <2>8, <2>9, <2>10 DEF Knowledge
<1>19. ASSUME NEW c \in Consumers, Resume(c) PROVE Knowledge'
  <2>1. /\ UNCHANGED <<consumed, target, known, seen, ready, held, closed, event>>
        /\ pc[c] = "suspended"
    BY <1>19 DEF Resume, waits, claims, shared, locals
  <2>2. PICK label \in {"read", "idle"} : pc' = [pc EXCEPT ![c] = label]
    BY <1>19 DEF Resume, Goto
  <2>9. LearnsNothing(c, label)
    BY <2>1, <2>2 DEF LearnsNothing
  <2> QED
    BY <2>9, <1>p, NothingLearnt
<1>20. ASSUME NEW c \in Consumers, Consume(c) PROVE Knowledge'
  <2>1. /\ UNCHANGED <<target, known, seen, ready, held, closed, event>> /\ pc[c] = "read"
        /\ consumed' = [consumed EXCEPT ![c] = known[c]]
        /\ pc' = [pc EXCEPT ![c] = "idle"]
    BY <1>20 DEF Consume, Goto, shared, waits, locals
  <2>2. consumed'[c] = known[c] /\ pc'[c] = "idle" /\ \A x \in Consumers : x = c
    BY <2>1 DEF TypeOK, OneConsumer
  <2>3. \A u \in Threads : held[u] = {}
    <3>1. ~Listed(c)
      BY <2>1 DEF AwaitersAreKept, ListedWhilePending, Waiting
    <3> QED
      BY <2>2, <3>1 DEF Listed, Held, TypeOK
  <2>4. Answers'
    BY <1>p, <2>1, <2>2 DEF Answers
  <2>5. Memories'
    BY <1>p, <2>1 DEF Knowledge, Memories
  <2>6. Fresh'
    BY <2>1, <2>2, <2>3 DEF Fresh
  <2> QED
    BY <2>4, <2>5, <2>6 DEF Knowledge
<1>21. ASSUME NEW x \in Closers, Close(x) PROVE Knowledge'
  <2>1. /\ UNCHANGED <<consumed, target, known, seen, ready, held, event>> /\ closed'
        /\ pc' = [pc EXCEPT ![x] = "takeAll"]
    BY <1>21 DEF Close, Goto, waits, claims, locals
  <2>9. LearnsNothing(x, "takeAll")
    BY <2>1 DEF LearnsNothing
  <2> QED
    BY <2>9, <1>p, NothingLearnt
<1>22. ASSUME NEW x \in Closers, CloseBarrier(x) PROVE Knowledge'
  <2>1. /\ UNCHANGED <<consumed, target, known, seen, ready, held, closed, event>>
        /\ pc' = [pc EXCEPT ![x] = "idle"]
    BY <1>22 DEF CloseBarrier, Goto, waits, shared, locals
  <2>9. LearnsNothing(x, "idle")
    BY <2>1 DEF LearnsNothing
  <2> QED
    BY <2>9, <1>p, NothingLearnt
<1>23. ASSUME NEW t \in Threads, TakeAll(t), t \notin Consumers PROVE Knowledge'
  <2>1. /\ UNCHANGED <<consumed, target, known, seen, ready, closed, event>>
        /\ \A u \in Threads \ {t} : held'[u] = held[u]
    BY <1>23 DEF TakeAll, Take, waits, claims, TypeOK
  <2>2. PICK label \in {"cancel", "resume"} : pc' = [pc EXCEPT ![t] = label]
    BY <1>23 DEF TakeAll, Goto
  <2>9. LearnsNothing(t, label)
    BY <2>1, <2>2, <1>23 DEF LearnsNothing
  <2> QED
    BY <2>9, <1>p, NothingLearnt
<1>24. ASSUME NEW t \in Threads, NEW a \in Consumers, ResumeAwaiter(t, a) PROVE Knowledge'
  <2>1. /\ UNCHANGED <<consumed, target, seen, held, closed, pc, published>> /\ a \in ready[t]
        /\ ready' = [ready EXCEPT ![t] = @ \ {a}]
        /\ known' = [known EXCEPT ![a] = seen[t]]
        /\ event' = [event EXCEPT ![a] = IF @ = "not_set" THEN "set" ELSE @]
    BY <1>24 DEF ResumeAwaiter, shared, claims
  <2>2. pc[a] # "idle" /\ event[a] = "not_set"
    BY <2>1 DEF AwaitersAreKept, ListedWhilePending, Waiting, Listed, Held
  <2>3. /\ known'[a] = seen[t] /\ event'[a] = "set"
        /\ \A x \in Consumers \ {a} : known'[x] = known[x] /\ event'[x] = event[x]
    BY <2>1, <2>2 DEF TypeOK
  <2>4. target[a] <= seen[t] /\ seen[t] <= Prefix /\ consumed[a] < target[a]
    BY <2>1, <2>2 DEF Knowledge, Memories, Answers
  <2>5. Prefix' = Prefix
    BY <1>q, <2>1
  <2>6. Answers'
    BY <2>1, <2>3, <2>4, <2>5 DEF Answers
  <2>7. \A u \in Threads : ready'[u] \subseteq ready[u]
    BY <2>1 DEF TypeOK
  <2>8. Memories'
    BY <2>1, <2>5, <2>7 DEF Knowledge, Memories
  <2>9. Fresh'
    BY <2>1 DEF Knowledge, Fresh
  <2> QED
    BY <2>6, <2>8, <2>9 DEF Knowledge
<1>25. ASSUME NEW t \in Threads, ResumedAll(t) PROVE Knowledge'
  <2>1. /\ UNCHANGED <<consumed, target, known, ready, held, closed, event, published>>
        /\ pc[t] = "resume" /\ ready[t] = {}
        /\ seen' = [seen EXCEPT ![t] = Initial]
    BY <1>25 DEF ResumedAll, Leave, waits, claims, shared
  <2>2. PICK label \in {"cancel", "suspended", "idle"} : pc' = [pc EXCEPT ![t] = label]
    BY <1>25 DEF ResumedAll, Leave, Goto
  <2>3. /\ seen'[t] = Initial /\ pc'[t] = label
        /\ \A u \in Threads \ {t} : seen'[u] = seen[u] /\ pc'[u] = pc[u]
    BY <2>1, <2>2 DEF TypeOK
  <2>4. Prefix' = Prefix /\ Initial <= Prefix
    <3>1. PICK c \in Consumers : TRUE
      BY ThreadsAssumption
    <3>2. Initial <= consumed[c] /\ consumed[c] <= Prefix /\ consumed[c] \in Int
      BY PrefixIsThat, <1>p DEF PrefixIsReady, ReadyUpTo
    <3> QED
      BY <1>p, <1>q, <2>1, <3>2
  <2>5. Answers'
    BY <2>1, <2>2, <2>3, <2>4 DEF Answers
  <2>6. Memories'
    BY <2>1, <2>3, <2>4 DEF Knowledge, Memories
  <2>7. Fresh'
    BY <2>1, <2>2, <2>3 DEF Knowledge, Fresh
  <2> QED
    BY <2>5, <2>6, <2>7 DEF Knowledge
<1>26. ASSUME NEW t \in Threads, NEW a \in Consumers, CancelAwaiter(t, a) PROVE Knowledge'
  <2>1. /\ UNCHANGED <<consumed, target, known, seen, ready, closed>>
        /\ pc[t] = "cancel" /\ pc' = [pc EXCEPT ![t] = "cancel"]
        /\ \A u \in Threads \ {t} : held'[u] = held[u]
        /\ event' = [event EXCEPT ![a] = IF @ = "not_set" THEN "canceled" ELSE @]
    BY <1>26 DEF CancelAwaiter, claims, shared, TypeOK
  <2>2. closed
    BY <2>1 DEF Phases, ClosedIsClosed
  <2>3. \A x \in Consumers : event'[x] = event[x] \/ (event'[x] = "canceled" /\ closed')
    BY <2>1, <2>2 DEF TypeOK
  <2>9. LearnsNothing(t, "cancel")
    BY <2>1, <2>3 DEF LearnsNothing
  <2> QED
    BY <2>9, <1>p, NothingLearnt
<1>27. ASSUME NEW t \in Threads, CancelledAll(t) PROVE Knowledge'
  <2>1. /\ UNCHANGED <<consumed, target, known, seen, ready, held, closed, event>>
        /\ pc[t] = "cancel"
        /\ pc' = [pc EXCEPT ![t] = CASE t \in Consumers -> "suspended"
                                    [] t \in Producers -> "idle"
                                    [] OTHER -> "closeBarrier"]
    BY <1>27 DEF CancelledAll, Goto, waits, claims, shared, locals
  <2>2. PICK label : label = CASE t \in Consumers -> "suspended"
                               [] t \in Producers -> "idle"
                               [] OTHER -> "closeBarrier"
    OBVIOUS
  <2>3. label \in {"suspended", "idle", "closeBarrier"}
    <3>1. CASE t \in Consumers
      BY <2>2, <3>1
    <3>2. CASE t \in Producers
      BY <2>2, <3>2
    <3>3. CASE t \notin Consumers /\ t \notin Producers
      BY <2>2, <3>3
    <3> QED
      BY <3>1, <3>2, <3>3
  <2>9. LearnsNothing(t, label)
    BY <2>1, <2>2, <2>3 DEF LearnsNothing
  <2> QED
    BY <2>9, <1>p, NothingLearnt
<1>28. CASE UNCHANGED vars
  <2>1. UNCHANGED <<consumed, target, known, seen, ready, held, closed, event, pc>>
        /\ Prefix' = Prefix
    BY <1>28, <1>q DEF vars, shared, claims, waits, locals
  <2>2. Answers' /\ Memories' /\ Fresh'
    BY <2>1 DEF Knowledge, Answers, Memories, Fresh
  <2> QED
    BY <2>2 DEF Knowledge
<1> QED
  BY <1>1, <1>2, <1>3, <1>4, <1>5, <1>6, <1>7, <1>8, <1>9, <1>10, <1>11,
     <1>12, <1>13, <1>14, <1>15, <1>16, <1>17, <1>18, <1>19, <1>20, <1>21,
     <1>22, <1>23, <1>24, <1>25, <1>26, <1>27, <1>28, StepCases

(***************************************************************************)
(* The order of publication                                                *)
(***************************************************************************)
Ordered == Ownership /\ Claims /\ Knowledge

LEMMA OrderStart == OneConsumer /\ Init => Ordered
BY TypesStart, PhasesStart, ListsStart, ClaimsStart, KnowledgeStart DEF Ordered, Ownership

LEMMA OrderStep == OneConsumer /\ Ordered /\ [Next]_vars => Ordered'
<1> SUFFICES ASSUME OneConsumer, Ordered, [Next]_vars PROVE Ordered'
  OBVIOUS
<1>1. Types /\ Phases /\ AwaitersAreKept /\ Answers /\ Ownership /\ Claims /\ Knowledge
  BY DEF Ordered, Ownership, Knowledge
<1>2. Ownership'
  BY <1>1, TypesStep, PhasesStep, ListsStep DEF Ownership, Types
<1>3. Claims'
  BY <1>1, ClaimsStep
<1>4. Knowledge'
  BY <1>1, KnowledgeStep
<1> QED
  BY <1>2, <1>3, <1>4 DEF Ordered

LEMMA OrderInvariant == ASSUME OneConsumer PROVE Spec => []Ordered
<1>1. Init => Ordered
  BY OrderStart
<1>2. Ordered /\ [Next]_vars => Ordered'
  BY OrderStep
<1> QED
  BY <1>1, <1>2, PTL DEF Spec

\* All that is being written lies after the prefix and less than a buffer after
\* what was read.
LEMMA WritingIsAhead ==
  ASSUME OneConsumer, Ordered, NEW p \in Producers, NEW s \in Writing(p),
         NEW c \in Consumers
  PROVE  /\ s \in Int /\ Prefix \in Int /\ consumed[c] \in Int
         /\ consumed[c] <= Prefix /\ Prefix < s /\ s <= consumed[c] + BufferSize
         /\ pc[p] = "publish" /\ claim[p][1] <= s /\ s < claim[p][2]
<1>1. Types /\ TypeOK /\ Claims /\ ClaimsHaveRoom
  BY DEF Ordered, Ownership, Types, Claims
<1>2. /\ claim[p][1] \in Int /\ claim[p][2] \in Int /\ consumed[c] \in Int
      /\ Prefix \in Int /\ consumed[c] <= Prefix
  BY <1>1, NumbersAreInt, PrefixIsThat DEF PrefixIsReady, ReadyUpTo
<1>3. pc[p] = "publish" /\ s \in claim[p][1] .. claim[p][2] - 1
  BY DEF Writing
<1>4. s \in Int /\ claim[p][1] <= s /\ s < claim[p][2]
  BY <1>2, <1>3
<1>5. Prefix < claim[p][1]
  BY <1>1, <1>3, PrefixIsUnclaimed DEF Claims, Claiming
<1>6. claim[p][2] - 1 - BufferSize <= consumed[c]
  BY <1>1, <1>3 DEF ClaimsHaveRoom
<1> QED
  BY <1>2, <1>3, <1>4, <1>5, <1>6, Sizes

\* Two producers never write one slot at a time, and none writes a slot that the
\* consumer has still to read.
THEOREM NobodyOverwrites == ASSUME OneConsumer PROVE Spec => []SlotsAreExclusive
<1>1. Ordered => SlotsAreExclusive
  <2> SUFFICES ASSUME Ordered PROVE SlotsAreExclusive
    OBVIOUS
  <2>1. PICK c \in Consumers : TRUE
    BY ThreadsAssumption
  <2>2. ASSUME NEW p \in Producers, NEW q \in Producers, p # q,
               NEW s \in Writing(p), NEW r \in Writing(q)
        PROVE  Slot(s) # Slot(r)
    <3>1. /\ s \in Int /\ Prefix \in Int /\ consumed[c] \in Int
          /\ consumed[c] <= Prefix /\ Prefix < s /\ s <= consumed[c] + BufferSize
          /\ pc[p] = "publish" /\ claim[p][1] <= s /\ s < claim[p][2]
      BY WritingIsAhead
    <3>2. /\ r \in Int /\ Prefix < r /\ r <= consumed[c] + BufferSize
          /\ pc[q] = "publish" /\ claim[q][1] <= r /\ r < claim[q][2]
      BY WritingIsAhead
    <3>3. claim[p][2] <= claim[q][1] \/ claim[q][2] <= claim[p][1]
      BY <2>2, <3>1, <3>2 DEF Ordered, Claims, ClaimsAreApart, Claiming
    <3>4. claim[p][1] \in Int /\ claim[p][2] \in Int /\ claim[q][1] \in Int /\ claim[q][2] \in Int
      BY NumbersAreInt DEF Ordered, Ownership, Types
    <3>5. s # r /\ s - r < BufferSize /\ r - s < BufferSize
      BY <3>1, <3>2, <3>3, <3>4, Sizes
    <3> QED
      BY <3>1, <3>2, <3>5, SlotsDiffer
  <2>3. ASSUME NEW p \in Producers, NEW x \in Consumers,
               NEW s \in Writing(p), NEW r \in consumed[x] + 1 .. Prefix
        PROVE  Slot(s) # Slot(r)
    <3>1. /\ s \in Int /\ Prefix \in Int /\ consumed[x] \in Int
          /\ consumed[x] <= Prefix /\ Prefix < s /\ s <= consumed[x] + BufferSize
      BY WritingIsAhead
    <3>2. r \in Int /\ s # r /\ s - r < BufferSize /\ r - s < BufferSize
      BY <3>1, Sizes
    <3> QED
      BY <3>1, <3>2, SlotsDiffer
  <2> QED
    BY <2>2, <2>3 DEF SlotsAreExclusive
<1> QED
  BY <1>1, OrderInvariant, PTL

\* Published out of order, seen in order: nobody takes a number for published
\* before it is, and all before it are; a wait returns no number before the one
\* it asked for, as Awaiter::resume asserts, and throws only when closed.
THEOREM NobodyRunsAhead == ASSUME OneConsumer PROVE Spec => []SeenInOrder
<1>1. Ordered => SeenInOrder
  <2> SUFFICES ASSUME Ordered PROVE SeenInOrder
    OBVIOUS
  <2>1. Types /\ ClaimsAreUnpublished /\ ClaimsAreUnread /\ Answers /\ Memories
    BY DEF Ordered, Ownership, Claims, Knowledge
  <2>2. PrefixIsComplete
    BY <2>1, PrefixIsUnclaimed DEF PrefixIsComplete, Claiming
  <2>3. KnownIsPublished
    BY <2>1 DEF KnownIsPublished, Answers, Memories
  <2>4. AnswerIsSound
    BY <2>1 DEF AnswerIsSound, Answers
  <2> QED
    BY <2>2, <2>3, <2>4 DEF SeenInOrder
<1> QED
  BY <1>1, OrderInvariant, PTL

(***************************************************************************)
(* Wakeups                                                                 *)
(***************************************************************************)
\* Who holds awaiters to push them aims at the earliest of their targets.
Goals ==
  \A t \in Threads : \A a \in held[t] :
    /\ pc[t] \in {"requeue", "enqueue"} => goal[t] <= target[a]
    /\ pc[t] = "requeue" => seen[t] < goal[t]

LEMMA GoalsStart == Init => Goals
BY DEF Init, Goals

\* Thread t goes elsewhere than to push, and no other thread changes its goal.
LEMMA GoalsElsewhere ==
  ASSUME TypeOK, Goals, NEW t \in Threads, NEW label, pc' = [pc EXCEPT ![t] = label],
         label \notin {"requeue", "enqueue"}, target' = target,
         \A u \in Threads \ {t} : held'[u] = held[u] /\ goal'[u] = goal[u] /\ seen'[u] = seen[u]
  PROVE  Goals'
<1>1. pc'[t] = label /\ \A u \in Threads \ {t} : pc'[u] = pc[u]
  BY DEF TypeOK
<1> QED
  BY <1>1 DEF Goals

\* Sorting finds the earliest target of those that are not ready.
LEMMA SplitGoal ==
  ASSUME TypeOK, NEW t \in Threads, NEW S \in SUBSET Consumers, Split(t, S)
  PROVE  /\ \A u \in Threads \ {t} : goal'[u] = goal[u] /\ held'[u] = held[u]
         /\ \A a \in held'[t] : seen[t] < goal'[t] /\ goal'[t] <= target[a]
<1> DEFINE rest == Unsatisfied(S, seen[t])
<1>1. \A a \in rest : /\ a \in Consumers /\ Difference(target[a], seen[t]) > 0
                      /\ Difference(target[a], seen[t]) = target[a] - seen[t]
                      /\ target[a] \in Int
  BY NumbersAreInt, Order DEF Unsatisfied
<1>2. seen[t] \in Int
  BY NumbersAreInt
<1>3. /\ held' = [held EXCEPT ![t] = rest]
      /\ \/ rest = {} /\ goal' = goal
         \/ \E a \in rest :
              /\ \A b \in rest : Difference(target[a], seen[t]) <= Difference(target[b], seen[t])
              /\ goal' = [goal EXCEPT ![t] = seen[t] + Difference(target[a], seen[t])]
  BY DEF Split
<1> HIDE DEF rest
<1>4. held'[t] = rest /\ \A u \in Threads \ {t} : held'[u] = held[u]
  BY <1>3 DEF TypeOK
<1>5. CASE rest = {}
  BY <1>3, <1>4, <1>5
<1>6. ASSUME NEW a \in rest,
             \A b \in rest : Difference(target[a], seen[t]) <= Difference(target[b], seen[t]),
             goal' = [goal EXCEPT ![t] = seen[t] + Difference(target[a], seen[t])]
      PROVE  /\ \A u \in Threads \ {t} : goal'[u] = goal[u]
             /\ \A b \in rest : seen[t] < goal'[t] /\ goal'[t] <= target[b]
  <2>1. goal'[t] = seen[t] + Difference(target[a], seen[t])
        /\ \A u \in Threads \ {t} : goal'[u] = goal[u]
    BY <1>6 DEF TypeOK
  <2>2. goal'[t] = target[a] /\ seen[t] < target[a]
    BY <1>1, <1>2, <1>6, <2>1
  <2>3. ASSUME NEW b \in rest PROVE target[a] <= target[b]
    <3>1. target[a] - seen[t] <= target[b] - seen[t]
      BY <1>1, <1>6
    <3> QED
      BY <1>1, <1>2, <3>1
  <2> QED
    BY <2>1, <2>2, <2>3
<1> QED
  BY <1>3, <1>4, <1>5, <1>6

\* Where the steps with a choice go.
LEMMA CancelledLabel ==
  ASSUME NEW t \in Threads, CancelledAll(t)
  PROVE  \E label \in {"suspended", "idle", "closeBarrier"} : pc' = [pc EXCEPT ![t] = label]
<1>1. pc' = [pc EXCEPT ![t] = CASE t \in Consumers -> "suspended"
                                [] t \in Producers -> "idle"
                                [] OTHER -> "closeBarrier"]
  BY DEF CancelledAll, Goto
<1>2. CASE t \in Consumers
  BY <1>1, <1>2, ThreadsAssumption
<1>3. CASE t \in Producers
  BY <1>1, <1>3, ThreadsAssumption
<1>4. CASE t \notin Consumers /\ t \notin Producers
  BY <1>1, <1>4
<1> QED
  BY <1>2, <1>3, <1>4

LEMMA LoadedLabel ==
  ASSUME TypeOK, NEW c \in Consumers, LoadPublished(c)
  PROVE  \E label \in {"load", "check"} : pc' = [pc EXCEPT ![c] = label]
<1>1. CASE Holds(seen[c] + 1)
  <2>1. pc[c] = "load" /\ pc' = pc
    BY <1>1 DEF LoadPublished
  <2>2. pc' = [pc EXCEPT ![c] = "load"]
    BY <2>1 DEF TypeOK, Threads
  <2> QED
    BY <2>2
<1>2. CASE ~Holds(seen[c] + 1)
  BY <1>2 DEF LoadPublished, Goto
<1> QED
  BY <1>1, <1>2

LEMMA GoalsStep ==
  ASSUME TypeOK, Phases, AwaitersAreKept, Goals, [Next]_vars
  PROVE  Goals'
<1>t. /\ Producers \subseteq Threads /\ Consumers \subseteq Threads
      /\ Closers \subseteq Threads
  BY DEF Threads
<1> USE <1>t DEF Goto, shared, claims, waits, locals
<1>1. ASSUME NEW p \in Producers, NEW n \in 1 .. BufferSize + 1,
             nextToClaim + n - 1 <= Last, ClaimCount(p, n)
      PROVE Goals'
  <2>1. pc' = [pc EXCEPT ![p] = "claim"]
    BY <1>1 DEF ClaimCount, TypeOK
  <2>2. /\ target' = target
        /\ \A u \in Threads \ {p} : held'[u] = held[u] /\ goal'[u] = goal[u] /\ seen'[u] = seen[u]
    BY <1>1 DEF ClaimCount, TypeOK
  <2> QED
    BY <2>1, <2>2, GoalsElsewhere
<1>2. ASSUME NEW p \in Producers, Granted(p) PROVE Goals'
  <2>1. pc' = [pc EXCEPT ![p] = "publish"]
    BY <1>2 DEF Granted, TypeOK
  <2>2. /\ target' = target
        /\ \A u \in Threads \ {p} : held'[u] = held[u] /\ goal'[u] = goal[u] /\ seen'[u] = seen[u]
    BY <1>2 DEF Granted, TypeOK
  <2> QED
    BY <2>1, <2>2, GoalsElsewhere
<1>3. ASSUME NEW p \in Producers, Refused(p) PROVE Goals'
  <2>1. pc' = [pc EXCEPT ![p] = "idle"]
    BY <1>3 DEF Refused, TypeOK
  <2>2. /\ target' = target
        /\ \A u \in Threads \ {p} : held'[u] = held[u] /\ goal'[u] = goal[u] /\ seen'[u] = seen[u]
    BY <1>3 DEF Refused, TypeOK
  <2> QED
    BY <2>1, <2>2, GoalsElsewhere
<1>4. ASSUME NEW p \in Producers, PublishRest(p) PROVE Goals'
  <2>1. pc' = [pc EXCEPT ![p] = "publish"]
    BY <1>4 DEF PublishRest, TypeOK
  <2>2. /\ target' = target
        /\ \A u \in Threads \ {p} : held'[u] = held[u] /\ goal'[u] = goal[u] /\ seen'[u] = seen[u]
    BY <1>4 DEF PublishRest, TypeOK
  <2> QED
    BY <2>1, <2>2, GoalsElsewhere
<1>5. ASSUME NEW p \in Producers, PublishFront(p) PROVE Goals'
  <2>1. pc' = [pc EXCEPT ![p] = "exchange"]
    BY <1>5 DEF PublishFront, TypeOK
  <2>2. /\ target' = target
        /\ \A u \in Threads \ {p} : held'[u] = held[u] /\ goal'[u] = goal[u] /\ seen'[u] = seen[u]
    BY <1>5 DEF PublishFront, TypeOK
  <2> QED
    BY <2>1, <2>2, GoalsElsewhere
<1>6. ASSUME NEW p \in Producers, Exchange(p) PROVE Goals'
  <2>1. PICK label \in {"idle", "head"} : pc' = [pc EXCEPT ![p] = label]
    BY <1>6 DEF Exchange, Take, TypeOK
  <2>2. /\ target' = target
        /\ \A u \in Threads \ {p} : held'[u] = held[u] /\ goal'[u] = goal[u] /\ seen'[u] = seen[u]
    BY <1>6 DEF Exchange, Take, TypeOK
  <2> QED
    BY <2>1, <2>2, GoalsElsewhere
<1>7. ASSUME NEW p \in Producers, StartScan(p) PROVE Goals'
  <2>1. pc' = [pc EXCEPT ![p] = "scan"]
    BY <1>7 DEF StartScan, TypeOK
  <2>2. /\ target' = target
        /\ \A u \in Threads \ {p} : held'[u] = held[u] /\ goal'[u] = goal[u] /\ seen'[u] = seen[u]
    BY <1>7 DEF StartScan, TypeOK
  <2> QED
    BY <2>1, <2>2, GoalsElsewhere
<1>8. ASSUME NEW p \in Producers, ScanNext(p) PROVE Goals'
  <2>1. pc' = [pc EXCEPT ![p] = "scan"]
    BY <1>8 DEF ScanNext, TypeOK
  <2>2. /\ target' = target
        /\ \A u \in Threads \ {p} : held'[u] = held[u] /\ goal'[u] = goal[u] /\ seen'[u] = seen[u]
    BY <1>8 DEF ScanNext, TypeOK
  <2> QED
    BY <2>1, <2>2, GoalsElsewhere
<1>9. ASSUME NEW p \in Producers, EndScan(p) PROVE Goals'
  <2>1. seen' = seen /\ target' = target /\ Split(p, held[p])
    BY <1>9 DEF EndScan
  <2>a. held[p] \in SUBSET Consumers
    BY DEF TypeOK
  <2>2. /\ \A u \in Threads \ {p} : goal'[u] = goal[u] /\ held'[u] = held[u]
        /\ \A a \in held'[p] : seen[p] < goal'[p] /\ goal'[p] <= target[a]
    BY <2>1, <2>a, SplitGoal
  <2>3. \A u \in Threads \ {p} : pc'[u] = pc[u]
    BY <1>9 DEF EndScan, TypeOK
  <2> QED
    BY <2>1, <2>2, <2>3 DEF Goals
<1>10. ASSUME NEW p \in Producers, Requeue(p) PROVE Goals'
  <2>1. pc' = [pc EXCEPT ![p] = "rescan"]
    BY <1>10 DEF Requeue, Push, TypeOK
  <2>2. /\ target' = target
        /\ \A u \in Threads \ {p} : held'[u] = held[u] /\ goal'[u] = goal[u] /\ seen'[u] = seen[u]
    BY <1>10 DEF Requeue, Push, TypeOK
  <2> QED
    BY <2>1, <2>2, GoalsElsewhere
<1>11. ASSUME NEW p \in Producers, Rescan(p) PROVE Goals'
  <2>1. PICK label \in {"retake", "rescan", "loadClosed"} : pc' = [pc EXCEPT ![p] = label]
    BY <1>11 DEF Rescan, TypeOK
  <2>2. /\ target' = target
        /\ \A u \in Threads \ {p} : held'[u] = held[u] /\ goal'[u] = goal[u] /\ seen'[u] = seen[u]
    BY <1>11 DEF Rescan, TypeOK
  <2> QED
    BY <2>1, <2>2, GoalsElsewhere
<1>12. ASSUME NEW p \in Producers, Retake(p) PROVE Goals'
  <2>1. pc' = [pc EXCEPT ![p] = "loadClosed"]
    BY <1>12 DEF Retake, Take, TypeOK
  <2>2. /\ target' = target
        /\ \A u \in Threads \ {p} : held'[u] = held[u] /\ goal'[u] = goal[u] /\ seen'[u] = seen[u]
    BY <1>12 DEF Retake, Take, TypeOK
  <2> QED
    BY <2>1, <2>2, GoalsElsewhere
<1>13. ASSUME NEW p \in Producers, LoadClosed(p) PROVE Goals'
  <2>1. PICK label \in {"head", "takeAll", "resume"} : pc' = [pc EXCEPT ![p] = label]
    BY <1>13 DEF LoadClosed, TypeOK
  <2>2. /\ target' = target
        /\ \A u \in Threads \ {p} : held'[u] = held[u] /\ goal'[u] = goal[u] /\ seen'[u] = seen[u]
    BY <1>13 DEF LoadClosed, TypeOK
  <2> QED
    BY <2>1, <2>2, GoalsElsewhere
<1>14. ASSUME NEW c \in Consumers, NEW s \in Sequences, Wait(c, s) PROVE Goals'
  <2>1. /\ pc[c] = "idle" /\ target' = [target EXCEPT ![c] = s]
        /\ goal' = [goal EXCEPT ![c] = s] /\ seen' = [seen EXCEPT ![c] = consumed[c]]
        /\ held' = [held EXCEPT ![c] = {c}] /\ pc' = [pc EXCEPT ![c] = "enqueue"]
    BY <1>14 DEF Wait
  <2>2. \A u \in Threads : \A a \in held[u] : a \in Consumers \ {c}
    BY <2>1 DEF AwaitersAreKept, ListedWhilePending, Waiting, Listed, Held, TypeOK
  <2>3. goal'[c] = s /\ target'[c] = s /\ held'[c] = {c} /\ pc'[c] = "enqueue" /\ s <= s
    BY <2>1, SequencesAreInt DEF TypeOK
  <2>4. /\ \A u \in Threads \ {c} : /\ goal'[u] = goal[u] /\ seen'[u] = seen[u]
                                   /\ held'[u] = held[u] /\ pc'[u] = pc[u]
        /\ \A a \in Consumers \ {c} : target'[a] = target[a]
    BY <2>1 DEF TypeOK
  <2> QED
    BY <2>2, <2>3, <2>4 DEF Goals
<1>15. ASSUME NEW c \in Consumers, Enqueue(c) PROVE Goals'
  <2>1. pc' = [pc EXCEPT ![c] = "load"]
    BY <1>15 DEF Enqueue, Push, TypeOK
  <2>2. /\ target' = target
        /\ \A u \in Threads \ {c} : held'[u] = held[u] /\ goal'[u] = goal[u] /\ seen'[u] = seen[u]
    BY <1>15 DEF Enqueue, Push, TypeOK
  <2> QED
    BY <2>1, <2>2, GoalsElsewhere
<1>16. ASSUME NEW c \in Consumers, LoadPublished(c) PROVE Goals'
  <2>1. PICK label \in {"load", "check"} : pc' = [pc EXCEPT ![c] = label]
    BY <1>16, LoadedLabel DEF Goto
  <2>2. /\ target' = target
        /\ \A u \in Threads \ {c} : held'[u] = held[u] /\ goal'[u] = goal[u] /\ seen'[u] = seen[u]
    BY <1>16 DEF LoadPublished, TypeOK
  <2> QED
    BY <2>1, <2>2, GoalsElsewhere
<1>17. ASSUME NEW c \in Consumers, Check(c) PROVE Goals'
  <2>1. PICK label \in {"resume", "take"} : pc' = [pc EXCEPT ![c] = label]
    BY <1>17 DEF Check, TypeOK
  <2>2. /\ target' = target
        /\ \A u \in Threads \ {c} : held'[u] = held[u] /\ goal'[u] = goal[u] /\ seen'[u] = seen[u]
    BY <1>17 DEF Check, TypeOK
  <2> QED
    BY <2>1, <2>2, GoalsElsewhere
<1>18. ASSUME NEW c \in Consumers, TakeAwaiters(c) PROVE Goals'
  <2>1. seen' = seen /\ target' = target /\ Split(c, awaiters)
    BY <1>18 DEF TakeAwaiters
  <2>a. awaiters \in SUBSET Consumers
    BY DEF TypeOK
  <2>2. /\ \A u \in Threads \ {c} : goal'[u] = goal[u] /\ held'[u] = held[u]
        /\ \A a \in held'[c] : seen[c] < goal'[c] /\ goal'[c] <= target[a]
    BY <2>1, <2>a, SplitGoal
  <2>3. \A u \in Threads \ {c} : pc'[u] = pc[u]
    BY <1>18 DEF TakeAwaiters, TypeOK
  <2> QED
    BY <2>1, <2>2, <2>3 DEF Goals
<1>19. ASSUME NEW c \in Consumers, Resume(c) PROVE Goals'
  <2>1. PICK label \in {"read", "idle"} : pc' = [pc EXCEPT ![c] = label]
    BY <1>19 DEF Resume, TypeOK
  <2>2. /\ target' = target
        /\ \A u \in Threads \ {c} : held'[u] = held[u] /\ goal'[u] = goal[u] /\ seen'[u] = seen[u]
    BY <1>19 DEF Resume, TypeOK
  <2> QED
    BY <2>1, <2>2, GoalsElsewhere
<1>20. ASSUME NEW c \in Consumers, Consume(c) PROVE Goals'
  <2>1. pc' = [pc EXCEPT ![c] = "idle"]
    BY <1>20 DEF Consume, TypeOK
  <2>2. /\ target' = target
        /\ \A u \in Threads \ {c} : held'[u] = held[u] /\ goal'[u] = goal[u] /\ seen'[u] = seen[u]
    BY <1>20 DEF Consume, TypeOK
  <2> QED
    BY <2>1, <2>2, GoalsElsewhere
<1>21. ASSUME NEW x \in Closers, Close(x) PROVE Goals'
  <2>1. pc' = [pc EXCEPT ![x] = "takeAll"]
    BY <1>21 DEF Close, TypeOK
  <2>2. /\ target' = target
        /\ \A u \in Threads \ {x} : held'[u] = held[u] /\ goal'[u] = goal[u] /\ seen'[u] = seen[u]
    BY <1>21 DEF Close, TypeOK
  <2> QED
    BY <2>1, <2>2, GoalsElsewhere
<1>22. ASSUME NEW x \in Closers, CloseBarrier(x) PROVE Goals'
  <2>1. pc' = [pc EXCEPT ![x] = "idle"]
    BY <1>22 DEF CloseBarrier, TypeOK
  <2>2. /\ target' = target
        /\ \A u \in Threads \ {x} : held'[u] = held[u] /\ goal'[u] = goal[u] /\ seen'[u] = seen[u]
    BY <1>22 DEF CloseBarrier, TypeOK
  <2> QED
    BY <2>1, <2>2, GoalsElsewhere
<1>23. ASSUME NEW t \in Threads, TakeAll(t) PROVE Goals'
  <2>1. PICK label \in {"cancel", "resume"} : pc' = [pc EXCEPT ![t] = label]
    BY <1>23 DEF TakeAll, Take, TypeOK
  <2>2. /\ target' = target
        /\ \A u \in Threads \ {t} : held'[u] = held[u] /\ goal'[u] = goal[u] /\ seen'[u] = seen[u]
    BY <1>23 DEF TakeAll, Take, TypeOK
  <2> QED
    BY <2>1, <2>2, GoalsElsewhere
<1>24. ASSUME NEW t \in Threads, NEW a \in Consumers, ResumeAwaiter(t, a) PROVE Goals'
  <2>1. pc' = [pc EXCEPT ![t] = "resume"]
    BY <1>24 DEF ResumeAwaiter, TypeOK
  <2>2. /\ target' = target
        /\ \A u \in Threads \ {t} : held'[u] = held[u] /\ goal'[u] = goal[u] /\ seen'[u] = seen[u]
    BY <1>24 DEF ResumeAwaiter, TypeOK
  <2> QED
    BY <2>1, <2>2, GoalsElsewhere
<1>25. ASSUME NEW t \in Threads, ResumedAll(t) PROVE Goals'
  <2>1. PICK label \in {"cancel", "suspended", "idle"} : pc' = [pc EXCEPT ![t] = label]
    BY <1>25 DEF ResumedAll, Leave, TypeOK
  <2>2. /\ target' = target
        /\ \A u \in Threads \ {t} : held'[u] = held[u] /\ goal'[u] = goal[u] /\ seen'[u] = seen[u]
    BY <1>25 DEF ResumedAll, Leave, TypeOK
  <2> QED
    BY <2>1, <2>2, GoalsElsewhere
<1>26. ASSUME NEW t \in Threads, NEW a \in Consumers, CancelAwaiter(t, a) PROVE Goals'
  <2>1. pc' = [pc EXCEPT ![t] = "cancel"]
    BY <1>26 DEF CancelAwaiter, TypeOK
  <2>2. /\ target' = target
        /\ \A u \in Threads \ {t} : held'[u] = held[u] /\ goal'[u] = goal[u] /\ seen'[u] = seen[u]
    BY <1>26 DEF CancelAwaiter, TypeOK
  <2> QED
    BY <2>1, <2>2, GoalsElsewhere
<1>27. ASSUME NEW t \in Threads, CancelledAll(t) PROVE Goals'
  <2>1. PICK label \in {"suspended", "idle", "closeBarrier"} : pc' = [pc EXCEPT ![t] = label]
    BY <1>27, CancelledLabel
  <2>2. /\ target' = target
        /\ \A u \in Threads \ {t} : held'[u] = held[u] /\ goal'[u] = goal[u] /\ seen'[u] = seen[u]
    BY <1>27 DEF CancelledAll, TypeOK
  <2> QED
    BY <2>1, <2>2, GoalsElsewhere
<1>28. CASE UNCHANGED vars
  BY <1>28 DEF vars, Goals
<1> QED
  BY <1>1, <1>2, <1>3, <1>4, <1>5, <1>6, <1>7, <1>8, <1>9, <1>10, <1>11,
     <1>12, <1>13, <1>14, <1>15, <1>16, <1>17, <1>18, <1>19, <1>20, <1>21,
     <1>22, <1>23, <1>24, <1>25, <1>26, <1>27, <1>28, StepCases

\* Thread t will take the list for the sake of awaiter a, and looks at all the
\* numbers that a has not read.
Promised(t, a) == WillTakeFor(t, a) /\ (pc[t] = "rescan" => consumed[a] <= seen[t])

NumbersWake ==
  \A a \in awaiters : target[a] <= Prefix => \E t \in Threads : Promised(t, a)

\* Thread t will take the list when it finds the sequencer closed.
WillTakeAll(t) ==
  \/ pc[t] \in {"load", "check", "take", "takeAll", "rescan", "retake"}
  \/ pc[t] = "loadClosed" /\ held[t] = {}

ClosingWakes == closed /\ awaiters # {} => \E t \in Threads : WillTakeAll(t)

Wakes == NumbersWake /\ ClosingWakes

\* Where a thread is that promises to take the list.
Promising ==
  {"exchange", "retake", "rescan", "load", "check", "take", "takeAll", "loadClosed"}

\* A list that is taken needs no promise.
LEMMA TakenWakes == ASSUME awaiters' = {} PROVE Wakes'
BY DEF Wakes, NumbersWake, ClosingWakes

\* Thread u leaves and breaks no promise; the others keep theirs.
LEMMA WakesElsewhere ==
  ASSUME Wakes, NEW u \in Threads, pc[u] \notin Promising,
         awaiters' = awaiters, closed' = closed, Prefix' = Prefix,
         \A a \in awaiters : target'[a] = target[a] /\ consumed'[a] = consumed[a],
         \A t \in Threads \ {u} : /\ pc'[t] = pc[t] /\ seen'[t] = seen[t]
                                 /\ goal'[t] = goal[t] /\ held'[t] = held[t]
  PROVE  Wakes'
<1>1. NumbersWake'
  <2> SUFFICES ASSUME NEW a \in awaiters, target[a] <= Prefix
               PROVE  \E t \in Threads : Promised(t, a)'
    BY DEF NumbersWake
  <2>1. PICK t \in Threads : Promised(t, a)
    BY DEF Wakes, NumbersWake
  <2>2. t # u
    BY <2>1 DEF Promised, WillTakeFor, Promising
  <2>3. /\ pc'[t] = pc[t] /\ seen'[t] = seen[t] /\ goal'[t] = goal[t]
        /\ target'[a] = target[a] /\ consumed'[a] = consumed[a]
    BY <2>2
  <2>4. Promised(t, a)'
    BY <2>1, <2>3 DEF Promised, WillTakeFor
  <2> QED
    BY <2>4
<1>2. ClosingWakes'
  <2> SUFFICES ASSUME closed', awaiters # {} PROVE \E t \in Threads : WillTakeAll(t)'
    BY DEF ClosingWakes
  <2>1. closed
    BY Zenon
  <2>2. PICK t \in Threads : WillTakeAll(t)
    BY <2>1 DEF Wakes, ClosingWakes
  <2>3. t # u
    BY <2>2 DEF WillTakeAll, Promising
  <2>4. WillTakeAll(t)'
    BY <2>2, <2>3 DEF WillTakeAll
  <2> QED
    BY <2>4
<1> QED
  BY <1>1, <1>2 DEF Wakes

\* Thread u promises itself.
LEMMA WakesItself ==
  ASSUME NEW u \in Threads, \A a \in awaiters' : Promised(u, a)', closed' => WillTakeAll(u)'
  PROVE  Wakes'
BY DEF Wakes, NumbersWake, ClosingWakes

\* Thread u keeps its promises, and the others theirs.
LEMMA WakesOn ==
  ASSUME Wakes, NEW u \in Threads,
         awaiters' = awaiters, closed' = closed, Prefix' = Prefix,
         target' = target, consumed' = consumed,
         \A t \in Threads \ {u} : /\ pc'[t] = pc[t] /\ seen'[t] = seen[t]
                                 /\ goal'[t] = goal[t] /\ held'[t] = held[t],
         \A a \in awaiters : target[a] <= Prefix /\ Promised(u, a) => Promised(u, a)',
         WillTakeAll(u) /\ closed => WillTakeAll(u)'
  PROVE  Wakes'
<1>1. NumbersWake'
  <2> SUFFICES ASSUME NEW a \in awaiters, target[a] <= Prefix
               PROVE  \E t \in Threads : Promised(t, a)'
    BY DEF NumbersWake
  <2>1. PICK t \in Threads : Promised(t, a)
    BY DEF Wakes, NumbersWake
  <2>2. CASE t = u
    BY <2>1, <2>2
  <2>3. CASE t # u
    <3>1. pc'[t] = pc[t] /\ seen'[t] = seen[t] /\ goal'[t] = goal[t]
      BY <2>3
    <3>2. Promised(t, a)'
      BY <2>1, <3>1 DEF Promised, WillTakeFor
    <3> QED
      BY <3>2
  <2> QED
    BY <2>2, <2>3
<1>2. ClosingWakes'
  <2> SUFFICES ASSUME closed', awaiters # {} PROVE \E t \in Threads : WillTakeAll(t)'
    BY DEF ClosingWakes
  <2>1. closed
    BY Zenon
  <2>2. PICK t \in Threads : WillTakeAll(t)
    BY <2>1 DEF Wakes, ClosingWakes
  <2>3. CASE t = u
    BY <2>1, <2>2, <2>3
  <2>4. CASE t # u
    <3>1. WillTakeAll(t)'
      BY <2>2, <2>4 DEF WillTakeAll
    <3> QED
      BY <3>1
  <2> QED
    BY <2>3, <2>4
<1> QED
  BY <1>1, <1>2 DEF Wakes

\* A number that was not read and not found is not in the prefix.
LEMMA NotFound ==
  ASSUME OneConsumer, Types, NEW a \in Consumers, NEW s \in Sequences,
         consumed[a] <= s, ~Holds(s + 1)
  PROVE  Prefix <= s
<1>1. /\ Prefix \in Int /\ consumed[a] \in Int /\ s \in Int
      /\ \A n \in consumed[a] + 1 .. Prefix : Holds(n)
  BY PrefixIsThat, NumbersAreInt, SequencesAreInt DEF PrefixIsReady, ReadyUpTo, Types
<1> QED
  BY <1>1

LEMMA WakesStart == Init => Wakes
BY TakenWakes DEF Init, Wakes, NumbersWake, ClosingWakes

LEMMA WakesStep ==
  ASSUME OneConsumer, Ordered, Goals, Wakes, [Next]_vars
  PROVE  Wakes'
<1>0. /\ TypeOK /\ Types /\ Phases /\ AwaitersAreKept /\ Answers /\ Claims
      /\ Fresh /\ Ownership
  BY DEF Ordered, Ownership, Types, Knowledge
<1>t. /\ Producers \subseteq Threads /\ Consumers \subseteq Threads
      /\ Closers \subseteq Threads
      /\ Producers \cap Consumers = {} /\ Closers \cap Consumers = {}
  BY ThreadsAssumption DEF Threads
<1>n. /\ \A t \in Threads : seen[t] \in Int /\ goal[t] \in Int /\ seen[t] \in Sequences
      /\ \A c \in Consumers : consumed[c] \in Int /\ target[c] \in Int
      /\ Prefix \in Int
  BY <1>0, NumbersAreInt, PrefixMoves
<1>q. UNCHANGED <<published, consumed>> => Prefix' = Prefix
  BY PrefixStays
<1>y. Types'
  BY <1>0, TypesStep
<1> USE <1>0, <1>t DEF Goto, shared, claims, waits, locals
<1>1. ASSUME NEW p \in Producers, NEW n \in 1 .. BufferSize + 1,
             nextToClaim + n - 1 <= Last, ClaimCount(p, n)
      PROVE Wakes'
  <2>1. pc[p] = "idle" /\ UNCHANGED <<awaiters, target, consumed, published>>
    BY <1>1 DEF ClaimCount
  <2>2. closed' = closed
    BY <1>1 DEF ClaimCount
  <2>3. \A u \in Threads \ {p} : /\ pc'[u] = pc[u] /\ seen'[u] = seen[u]
                                  /\ goal'[u] = goal[u] /\ held'[u] = held[u]
    BY <1>1 DEF ClaimCount, TypeOK
  <2>4. Prefix' = Prefix
    BY <1>q, <2>1
  <2>5. pc[p] \notin Promising
    BY <2>1 DEF Promising
  <2> QED
    BY <2>1, <2>2, <2>3, <2>4, <2>5, WakesElsewhere
<1>2. ASSUME NEW p \in Producers, Granted(p) PROVE Wakes'
  <2>1. pc[p] = "claim" /\ UNCHANGED <<awaiters, target, consumed, published>>
    BY <1>2 DEF Granted
  <2>2. closed' = closed
    BY <1>2 DEF Granted
  <2>3. \A u \in Threads \ {p} : /\ pc'[u] = pc[u] /\ seen'[u] = seen[u]
                                  /\ goal'[u] = goal[u] /\ held'[u] = held[u]
    BY <1>2 DEF Granted, TypeOK
  <2>4. Prefix' = Prefix
    BY <1>q, <2>1
  <2>5. pc[p] \notin Promising
    BY <2>1 DEF Promising
  <2> QED
    BY <2>1, <2>2, <2>3, <2>4, <2>5, WakesElsewhere
<1>3. ASSUME NEW p \in Producers, Refused(p) PROVE Wakes'
  <2>1. pc[p] = "claim" /\ UNCHANGED <<awaiters, target, consumed, published>>
    BY <1>3 DEF Refused
  <2>2. closed' = closed
    BY <1>3 DEF Refused
  <2>3. \A u \in Threads \ {p} : /\ pc'[u] = pc[u] /\ seen'[u] = seen[u]
                                  /\ goal'[u] = goal[u] /\ held'[u] = held[u]
    BY <1>3 DEF Refused, TypeOK
  <2>4. Prefix' = Prefix
    BY <1>q, <2>1
  <2>5. pc[p] \notin Promising
    BY <2>1 DEF Promising
  <2> QED
    BY <2>1, <2>2, <2>3, <2>4, <2>5, WakesElsewhere
<1>4. ASSUME NEW p \in Producers, PublishRest(p) PROVE Wakes'
  <2>1. pc[p] = "publish" /\ UNCHANGED <<awaiters, target, consumed>>
    BY <1>4 DEF PublishRest
  <2>2. closed' = closed
    BY <1>4 DEF PublishRest
  <2>3. \A u \in Threads \ {p} : /\ pc'[u] = pc[u] /\ seen'[u] = seen[u]
                                  /\ goal'[u] = goal[u] /\ held'[u] = held[u]
    BY <1>4 DEF PublishRest, TypeOK
  <2>4. Prefix' = Prefix
    BY <1>4, <1>y, RestStays
  <2>5. pc[p] \notin Promising
    BY <2>1 DEF Promising
  <2> QED
    BY <2>1, <2>2, <2>3, <2>4, <2>5, WakesElsewhere
<1>5. ASSUME NEW p \in Producers, PublishFront(p) PROVE Wakes'
  <2>1. pc' = [pc EXCEPT ![p] = "exchange"]
    BY <1>5 DEF PublishFront
  <2>2. pc'[p] = "exchange"
    BY <2>1 DEF TypeOK
  <2>3. \A a \in awaiters' : Promised(p, a)'
    BY <2>2 DEF Promised, WillTakeFor
  <2>4. ClosingWakes'
    <3>1. /\ pc[p] = "publish" /\ awaiters' = awaiters /\ held' = held
          /\ \A t \in Threads \ {p} : pc'[t] = pc[t]
      BY <1>5, <2>1 DEF PublishFront, TypeOK
    <3>2. closed' = closed
      BY <1>5 DEF PublishFront
    <3> SUFFICES ASSUME closed', awaiters # {} PROVE \E t \in Threads : WillTakeAll(t)'
      BY <3>1 DEF ClosingWakes
    <3>3. closed
      BY <3>2, Zenon
    <3>4. PICK t \in Threads : WillTakeAll(t)
      BY <3>3 DEF Wakes, ClosingWakes
    <3>5. t # p
      BY <3>1, <3>4 DEF WillTakeAll
    <3>6. WillTakeAll(t)'
      BY <3>1, <3>4, <3>5 DEF WillTakeAll
    <3> QED
      BY <3>6
  <2> QED
    BY <2>3, <2>4 DEF Wakes, NumbersWake
<1>6. ASSUME NEW p \in Producers, Exchange(p) PROVE Wakes'
  <2>1. awaiters' = {}
    BY <1>6 DEF Exchange, Take
  <2> QED
    BY <2>1, TakenWakes
<1>7. ASSUME NEW p \in Producers, StartScan(p) PROVE Wakes'
  <2>1. pc[p] = "head" /\ UNCHANGED <<awaiters, target, consumed, published>>
    BY <1>7 DEF StartScan
  <2>2. closed' = closed
    BY <1>7 DEF StartScan
  <2>3. \A u \in Threads \ {p} : /\ pc'[u] = pc[u] /\ seen'[u] = seen[u]
                                  /\ goal'[u] = goal[u] /\ held'[u] = held[u]
    BY <1>7 DEF StartScan, TypeOK
  <2>4. Prefix' = Prefix
    BY <1>q, <2>1
  <2>5. pc[p] \notin Promising
    BY <2>1 DEF Promising
  <2> QED
    BY <2>1, <2>2, <2>3, <2>4, <2>5, WakesElsewhere
<1>8. ASSUME NEW p \in Producers, ScanNext(p) PROVE Wakes'
  <2>1. pc[p] = "scan" /\ UNCHANGED <<awaiters, target, consumed, published>>
    BY <1>8 DEF ScanNext
  <2>2. closed' = closed
    BY <1>8 DEF ScanNext
  <2>3. \A u \in Threads \ {p} : /\ pc'[u] = pc[u] /\ seen'[u] = seen[u]
                                  /\ goal'[u] = goal[u] /\ held'[u] = held[u]
    BY <1>8 DEF ScanNext, TypeOK
  <2>4. Prefix' = Prefix
    BY <1>q, <2>1
  <2>5. pc[p] \notin Promising
    BY <2>1 DEF Promising
  <2> QED
    BY <2>1, <2>2, <2>3, <2>4, <2>5, WakesElsewhere
<1>9. ASSUME NEW p \in Producers, EndScan(p) PROVE Wakes'
  <2>1. pc[p] = "scan" /\ UNCHANGED <<awaiters, target, consumed, published>>
    BY <1>9 DEF EndScan
  <2>2. closed' = closed
    BY <1>9 DEF EndScan
  <2>3. \A u \in Threads \ {p} : /\ pc'[u] = pc[u] /\ seen'[u] = seen[u]
                                  /\ goal'[u] = goal[u] /\ held'[u] = held[u]
    BY <1>9 DEF EndScan, Split, TypeOK
  <2>4. Prefix' = Prefix
    BY <1>q, <2>1
  <2>5. pc[p] \notin Promising
    BY <2>1 DEF Promising
  <2> QED
    BY <2>1, <2>2, <2>3, <2>4, <2>5, WakesElsewhere
<1>10. ASSUME NEW p \in Producers, Requeue(p) PROVE Wakes'
  <2>1. /\ pc[p] = "requeue" /\ awaiters' = awaiters \cup held[p]
        /\ UNCHANGED <<seen, goal, target, consumed, published>>
        /\ pc' = [pc EXCEPT ![p] = "rescan"]
    BY <1>10 DEF Requeue, Push
  <2>2. pc'[p] = "rescan"
    BY <2>1 DEF TypeOK
  <2>3. \A t \in Threads \ {p} : pc'[t] = pc[t]
    BY <2>1 DEF TypeOK
  <2>4. ClosingWakes'
    BY <2>2 DEF ClosingWakes, WillTakeAll
  <2>5. Prefix' = Prefix
    BY <1>q, <2>1
  <2>6. ASSUME NEW a \in awaiters', target'[a] <= Prefix'
        PROVE  \E t \in Threads : Promised(t, a)'
    <3>1. CASE a \in held[p]
      <4>1. seen[p] < goal[p] /\ goal[p] <= target[a] /\ consumed[a] <= seen[p]
        BY <2>1, <3>1 DEF Goals, Fresh
      <4>2. Promised(p, a)'
        BY <2>1, <2>2, <4>1 DEF Promised, WillTakeFor
      <4> QED
        BY <4>2
    <3>2. CASE a \in awaiters
      <4>1. PICK t \in Threads : Promised(t, a)
        BY <2>1, <2>5, <2>6, <3>2 DEF Wakes, NumbersWake
      <4>2. t # p
        BY <2>1, <4>1 DEF Promised, WillTakeFor
      <4>3. Promised(t, a)'
        BY <2>1, <2>3, <4>1, <4>2 DEF Promised, WillTakeFor
      <4> QED
        BY <4>3
    <3> QED
      BY <2>1, <3>1, <3>2
  <2> QED
    BY <2>4, <2>6 DEF Wakes, NumbersWake
<1>11. ASSUME NEW p \in Producers, Rescan(p) PROVE Wakes'
  <2>1. /\ pc[p] = "rescan" /\ UNCHANGED <<awaiters, target, consumed, published, goal, held>>
    BY <1>11 DEF Rescan
  <2>2. closed' = closed
    BY <1>11 DEF Rescan
  <2>3. \A t \in Threads \ {p} : pc'[t] = pc[t] /\ seen'[t] = seen[t]
    BY <1>11 DEF Rescan, TypeOK
  <2>4. held[p] = {} /\ goal'[p] = goal[p] /\ held'[p] = held[p]
    BY <2>1 DEF Phases, HoldingPlaces
  <2>5. Prefix' = Prefix
    BY <1>q, <2>1
  <2>6. PICK label \in {"retake", "rescan", "loadClosed"} : pc' = [pc EXCEPT ![p] = label]
    BY <1>11 DEF Rescan
  <2>7. WillTakeAll(p)'
    BY <2>4, <2>6 DEF WillTakeAll, TypeOK
  <2>8. ASSUME NEW a \in awaiters, target[a] <= Prefix, Promised(p, a) PROVE Promised(p, a)'
    <3>1. /\ p \in Producers /\ seen[p] < goal[p] /\ goal[p] <= target[a]
          /\ consumed[a] <= seen[p] /\ a \in Consumers
      BY <2>1, <2>8 DEF Promised, WillTakeFor, TypeOK
    <3>2. Holds(seen[p] + 1)
      <4>1. ~(Prefix <= seen[p])
        BY <1>n, <2>8, <3>1
      <4> QED
        BY <1>n, <3>1, <4>1, NotFound
    <3>3. seen'[p] = seen[p] + 1
      BY <1>11, <3>2 DEF Rescan, TypeOK
    <3>4. pc'[p] = IF seen[p] + 1 = goal[p] THEN "retake" ELSE "rescan"
      BY <1>11, <3>2 DEF Rescan, TypeOK
    <3>5. CASE seen[p] + 1 = goal[p]
      BY <3>1, <3>4, <3>5 DEF Promised, WillTakeFor
    <3>6. CASE seen[p] + 1 # goal[p]
      <4>1. seen[p] + 1 < goal[p] /\ consumed[a] <= seen[p] + 1
        BY <1>n, <3>1, <3>6
      <4>2. pc'[p] = "rescan"
        BY <3>4, <3>6
      <4> QED
        BY <2>1, <3>1, <3>3, <4>1, <4>2 DEF Promised, WillTakeFor
    <3> QED
      BY <3>5, <3>6
  <2>9. \A t \in Threads \ {p} : goal'[t] = goal[t] /\ held'[t] = held[t]
    BY <2>1
  <2> QED
    BY <2>1, <2>2, <2>3, <2>5, <2>7, <2>8, <2>9, WakesOn
<1>12. ASSUME NEW p \in Producers, Retake(p) PROVE Wakes'
  <2>1. awaiters' = {}
    BY <1>12 DEF Retake, Take
  <2> QED
    BY <2>1, TakenWakes
<1>13. ASSUME NEW p \in Producers, LoadClosed(p) PROVE Wakes'
  <2>1. /\ pc[p] = "loadClosed" /\ UNCHANGED <<awaiters, target, consumed, published, goal, held, seen>>
    BY <1>13 DEF LoadClosed
  <2>2. closed' = closed
    BY <1>13 DEF LoadClosed
  <2>3. \A t \in Threads \ {p} : pc'[t] = pc[t]
    BY <1>13 DEF LoadClosed, TypeOK
  <2>4. Prefix' = Prefix
    BY <1>q, <2>1
  <2>5. ASSUME WillTakeAll(p), closed PROVE WillTakeAll(p)'
    <3>1. held[p] = {}
      BY <2>1, <2>5 DEF WillTakeAll
    <3>2. pc'[p] = "takeAll"
      BY <1>13, <2>5, <3>1 DEF LoadClosed, TypeOK
    <3> QED
      BY <3>2 DEF WillTakeAll
  <2>6. \A a \in awaiters : ~Promised(p, a)
    BY <2>1 DEF Promised, WillTakeFor
  <2>7. \A t \in Threads \ {p} : goal'[t] = goal[t] /\ held'[t] = held[t] /\ seen'[t] = seen[t]
    BY <2>1
  <2> QED
    BY <2>1, <2>2, <2>3, <2>4, <2>5, <2>6, <2>7, WakesOn
<1>14. ASSUME NEW c \in Consumers, NEW s \in Sequences, Wait(c, s) PROVE Wakes'
  <2>1. /\ pc[c] = "idle" /\ awaiters' = awaiters /\ UNCHANGED <<consumed, published>>
        /\ \A x \in Consumers \ {c} : target'[x] = target[x]
    BY <1>14 DEF Wait, TypeOK
  <2>2. closed' = closed
    BY <1>14 DEF Wait
  <2>3. c \notin awaiters
    BY <2>1 DEF AwaitersAreKept, ListedWhilePending, Waiting, Listed
  <2>4. \A u \in Threads \ {c} : /\ pc'[u] = pc[u] /\ seen'[u] = seen[u]
                                  /\ goal'[u] = goal[u] /\ held'[u] = held[u]
    BY <1>14 DEF Wait, TypeOK
  <2>5. Prefix' = Prefix
    BY <1>q, <2>1
  <2>6. pc[c] \notin Promising /\ \A a \in awaiters : target'[a] = target[a]
    BY <2>1, <2>3 DEF TypeOK, Promising
  <2> QED
    BY <2>1, <2>2, <2>4, <2>5, <2>6, WakesElsewhere
<1>15. ASSUME NEW c \in Consumers, Enqueue(c) PROVE Wakes'
  <2>1. /\ pc[c] = "enqueue" /\ awaiters' = awaiters \cup held[c]
        /\ UNCHANGED <<seen, goal, target, consumed, published>>
        /\ pc' = [pc EXCEPT ![c] = "load"]
    BY <1>15 DEF Enqueue, Push
  <2>2. pc'[c] = "load"
    BY <2>1 DEF TypeOK
  <2>3. \A t \in Threads \ {c} : pc'[t] = pc[t]
    BY <2>1 DEF TypeOK
  <2>4. ClosingWakes'
    BY <2>2 DEF ClosingWakes, WillTakeAll
  <2>5. Prefix' = Prefix
    BY <1>q, <2>1
  <2>6. ASSUME NEW a \in awaiters', target'[a] <= Prefix'
        PROVE  \E t \in Threads : Promised(t, a)'
    <3>1. CASE a \in held[c]
      <4>1. goal[c] <= target[a]
        BY <2>1, <3>1 DEF Goals
      <4>2. Promised(c, a)'
        BY <2>1, <2>2, <4>1 DEF Promised, WillTakeFor
      <4> QED
        BY <4>2
    <3>2. CASE a \in awaiters
      <4>1. PICK t \in Threads : Promised(t, a)
        BY <2>1, <2>5, <2>6, <3>2 DEF Wakes, NumbersWake
      <4>2. t # c
        BY <2>1, <4>1 DEF Promised, WillTakeFor
      <4>3. Promised(t, a)'
        BY <2>1, <2>3, <4>1, <4>2 DEF Promised, WillTakeFor
      <4> QED
        BY <4>3
    <3> QED
      BY <2>1, <3>1, <3>2
  <2> QED
    BY <2>4, <2>6 DEF Wakes, NumbersWake
<1>16. ASSUME NEW c \in Consumers, LoadPublished(c) PROVE Wakes'
  <2>1. /\ pc[c] = "load" /\ UNCHANGED <<awaiters, target, consumed, published, goal, held>>
    BY <1>16 DEF LoadPublished
  <2>2. closed' = closed
    BY <1>16 DEF LoadPublished
  <2>3. PICK label \in {"load", "check"} : pc' = [pc EXCEPT ![c] = label]
    BY <1>16, LoadedLabel
  <2>4. Prefix' = Prefix
    BY <1>q, <2>1
  <2>5. pc'[c] = label /\ \A t \in Threads \ {c} : pc'[t] = pc[t]
    BY <2>3 DEF TypeOK
  <2>6. \A t \in Threads \ {c} : goal'[t] = goal[t] /\ held'[t] = held[t] /\ seen'[t] = seen[t]
    BY <1>16, <2>1 DEF LoadPublished, TypeOK
  <2>7. WillTakeAll(c)'
    BY <2>5 DEF WillTakeAll
  <2>8. ASSUME NEW a \in awaiters, target[a] <= Prefix, Promised(c, a) PROVE Promised(c, a)'
    <3>1. goal[c] <= target[a] /\ consumed[c] <= seen[c] /\ c \notin Producers
          /\ a \in Consumers
      BY <2>1, <2>8 DEF Promised, WillTakeFor, Fresh, TypeOK
    <3>2. CASE Holds(seen[c] + 1)
      <4>1. pc'[c] = "load" /\ goal'[c] = goal[c]
        BY <1>16, <2>1, <3>2 DEF LoadPublished, TypeOK
      <4> QED
        BY <2>1, <3>1, <4>1 DEF Promised, WillTakeFor
    <3>3. CASE ~Holds(seen[c] + 1)
      <4>1. pc'[c] = "check" /\ goal'[c] = goal[c] /\ seen'[c] = seen[c]
        BY <1>16, <2>1, <3>3 DEF LoadPublished, TypeOK
      <4>2. Prefix <= seen[c]
        BY <1>n, <3>1, <3>3, NotFound
      <4>3. goal[c] <= seen[c]
        BY <1>n, <2>8, <3>1, <4>2
      <4> QED
        BY <4>1, <4>3 DEF Promised, WillTakeFor
    <3> QED
      BY <3>2, <3>3
  <2> QED
    BY <2>1, <2>2, <2>4, <2>5, <2>6, <2>7, <2>8, WakesOn
<1>17. ASSUME NEW c \in Consumers, Check(c) PROVE Wakes'
  <2>1. /\ pc[c] = "check" /\ UNCHANGED <<awaiters, target, consumed, published, goal, held, seen>>
    BY <1>17 DEF Check
  <2>2. closed' = closed
    BY <1>17 DEF Check
  <2>3. PICK label \in {"resume", "take"} : pc' = [pc EXCEPT ![c] = label]
    BY <1>17 DEF Check
  <2>4. Prefix' = Prefix
    BY <1>q, <2>1
  <2>5. pc'[c] = label /\ \A t \in Threads \ {c} : pc'[t] = pc[t]
    BY <2>3 DEF TypeOK
  <2>6. \A t \in Threads \ {c} : goal'[t] = goal[t] /\ held'[t] = held[t] /\ seen'[t] = seen[t]
    BY <2>1
  <2>7. ASSUME WillTakeAll(c), closed PROVE WillTakeAll(c)'
    <3>1. pc'[c] = "take"
      BY <1>17, <2>7 DEF Check, TypeOK
    <3> QED
      BY <3>1 DEF WillTakeAll
  <2>8. ASSUME NEW a \in awaiters, Promised(c, a) PROVE Promised(c, a)'
    <3>1. goal[c] <= seen[c]
      BY <2>1, <2>8 DEF Promised, WillTakeFor
    <3>2. seen[c] \in Sequences /\ goal[c] \in Initial .. Last + 1
      BY <1>n DEF TypeOK
    <3>3. goal[c] \in Sequences
      BY <1>n, <3>1, <3>2, Sizes, SequencesAreInt DEF Sequences
    <3>4. ~Precedes(seen[c], goal[c])
      BY <1>n, <3>1, <3>3, Order
    <3>5. pc'[c] = "take"
      BY <1>17, <3>4 DEF Check, TypeOK
    <3> QED
      BY <3>5 DEF Promised, WillTakeFor
  <2> QED
    BY <2>1, <2>2, <2>4, <2>5, <2>6, <2>7, <2>8, WakesOn
<1>18. ASSUME NEW c \in Consumers, TakeAwaiters(c) PROVE Wakes'
  <2>1. awaiters' = {}
    BY <1>18 DEF TakeAwaiters
  <2> QED
    BY <2>1, TakenWakes
<1>19. ASSUME NEW c \in Consumers, Resume(c) PROVE Wakes'
  <2>1. pc[c] = "suspended" /\ UNCHANGED <<awaiters, target, consumed, published>>
    BY <1>19 DEF Resume
  <2>2. closed' = closed
    BY <1>19 DEF Resume
  <2>3. \A u \in Threads \ {c} : /\ pc'[u] = pc[u] /\ seen'[u] = seen[u]
                                  /\ goal'[u] = goal[u] /\ held'[u] = held[u]
    BY <1>19 DEF Resume, TypeOK
  <2>4. Prefix' = Prefix
    BY <1>q, <2>1
  <2>5. pc[c] \notin Promising
    BY <2>1 DEF Promising
  <2> QED
    BY <2>1, <2>2, <2>3, <2>4, <2>5, WakesElsewhere
<1>20. ASSUME NEW c \in Consumers, Consume(c) PROVE Wakes'
  <2>1. /\ pc[c] = "read" /\ awaiters' = awaiters
        /\ target' = target /\ \A x \in Consumers \ {c} : consumed'[x] = consumed[x]
    BY <1>20 DEF Consume, TypeOK
  <2>2. closed' = closed
    BY <1>20 DEF Consume
  <2>3. c \notin awaiters
    BY <2>1 DEF AwaitersAreKept, ListedWhilePending, Waiting, Listed
  <2>4. \A u \in Threads \ {c} : /\ pc'[u] = pc[u] /\ seen'[u] = seen[u]
                                  /\ goal'[u] = goal[u] /\ held'[u] = held[u]
    BY <1>20 DEF Consume, TypeOK
  <2>5. awaiters = {}
    BY <2>3 DEF OneConsumer, TypeOK
  <2> QED
    BY <2>1, <2>5, TakenWakes
<1>21. ASSUME NEW x \in Closers, Close(x) PROVE Wakes'
  <2>1. /\ pc[x] = "idle" /\ UNCHANGED <<awaiters, seen, goal, target, consumed, published>>
        /\ pc' = [pc EXCEPT ![x] = "takeAll"]
    BY <1>21 DEF Close
  <2>2. pc'[x] = "takeAll"
    BY <2>1 DEF TypeOK
  <2>3. (\A a \in awaiters' : Promised(x, a)') /\ WillTakeAll(x)'
    BY <2>2 DEF Promised, WillTakeFor, WillTakeAll
  <2> QED
    BY <2>3, WakesItself
<1>22. ASSUME NEW x \in Closers, CloseBarrier(x) PROVE Wakes'
  <2>1. pc[x] = "closeBarrier" /\ UNCHANGED <<awaiters, target, consumed, published>>
    BY <1>22 DEF CloseBarrier
  <2>2. closed' = closed
    BY <1>22 DEF CloseBarrier
  <2>3. \A u \in Threads \ {x} : /\ pc'[u] = pc[u] /\ seen'[u] = seen[u]
                                  /\ goal'[u] = goal[u] /\ held'[u] = held[u]
    BY <1>22 DEF CloseBarrier, TypeOK
  <2>4. Prefix' = Prefix
    BY <1>q, <2>1
  <2>5. pc[x] \notin Promising
    BY <2>1 DEF Promising
  <2> QED
    BY <2>1, <2>2, <2>3, <2>4, <2>5, WakesElsewhere
<1>23. ASSUME NEW t \in Threads, TakeAll(t), t \notin Consumers PROVE Wakes'
  <2>1. awaiters' = {}
    BY <1>23 DEF TakeAll, Take
  <2> QED
    BY <2>1, TakenWakes
<1>24. ASSUME NEW t \in Threads, NEW a \in Consumers, ResumeAwaiter(t, a) PROVE Wakes'
  <2>1. pc[t] = "resume" /\ UNCHANGED <<awaiters, target, consumed, published>>
    BY <1>24 DEF ResumeAwaiter
  <2>2. closed' = closed
    BY <1>24 DEF ResumeAwaiter
  <2>3. \A u \in Threads \ {t} : /\ pc'[u] = pc[u] /\ seen'[u] = seen[u]
                                  /\ goal'[u] = goal[u] /\ held'[u] = held[u]
    BY <1>24 DEF ResumeAwaiter, TypeOK
  <2>4. Prefix' = Prefix
    BY <1>q, <2>1
  <2>5. pc[t] \notin Promising
    BY <2>1 DEF Promising
  <2> QED
    BY <2>1, <2>2, <2>3, <2>4, <2>5, WakesElsewhere
<1>25. ASSUME NEW t \in Threads, ResumedAll(t) PROVE Wakes'
  <2>1. pc[t] = "resume" /\ UNCHANGED <<awaiters, target, consumed, published>>
    BY <1>25 DEF ResumedAll, Leave
  <2>2. closed' = closed
    BY <1>25 DEF ResumedAll, Leave
  <2>3. \A u \in Threads \ {t} : /\ pc'[u] = pc[u] /\ seen'[u] = seen[u]
                                  /\ goal'[u] = goal[u] /\ held'[u] = held[u]
    BY <1>25 DEF ResumedAll, Leave, TypeOK
  <2>4. Prefix' = Prefix
    BY <1>q, <2>1
  <2>5. pc[t] \notin Promising
    BY <2>1 DEF Promising
  <2> QED
    BY <2>1, <2>2, <2>3, <2>4, <2>5, WakesElsewhere
<1>26. ASSUME NEW t \in Threads, NEW a \in Consumers, CancelAwaiter(t, a) PROVE Wakes'
  <2>1. pc[t] = "cancel" /\ UNCHANGED <<awaiters, target, consumed, published>>
    BY <1>26 DEF CancelAwaiter
  <2>2. closed' = closed
    BY <1>26 DEF CancelAwaiter
  <2>3. \A u \in Threads \ {t} : /\ pc'[u] = pc[u] /\ seen'[u] = seen[u]
                                  /\ goal'[u] = goal[u] /\ held'[u] = held[u]
    BY <1>26 DEF CancelAwaiter, TypeOK
  <2>4. Prefix' = Prefix
    BY <1>q, <2>1
  <2>5. pc[t] \notin Promising
    BY <2>1 DEF Promising
  <2> QED
    BY <2>1, <2>2, <2>3, <2>4, <2>5, WakesElsewhere
<1>27. ASSUME NEW t \in Threads, CancelledAll(t) PROVE Wakes'
  <2>1. pc[t] = "cancel" /\ UNCHANGED <<awaiters, target, consumed, published>>
    BY <1>27 DEF CancelledAll
  <2>2. closed' = closed
    BY <1>27 DEF CancelledAll
  <2>3. \A u \in Threads \ {t} : /\ pc'[u] = pc[u] /\ seen'[u] = seen[u]
                                  /\ goal'[u] = goal[u] /\ held'[u] = held[u]
    BY <1>27 DEF CancelledAll, TypeOK
  <2>4. Prefix' = Prefix
    BY <1>q, <2>1
  <2>5. pc[t] \notin Promising
    BY <2>1 DEF Promising
  <2> QED
    BY <2>1, <2>2, <2>3, <2>4, <2>5, WakesElsewhere
<1>28. CASE UNCHANGED vars
  <2>1. UNCHANGED <<awaiters, target, consumed, published, pc, seen, goal, held>>
    BY <1>28 DEF vars
  <2>2. closed' = closed
    BY <1>28 DEF vars
  <2>3. Prefix' = Prefix
    BY <1>q, <2>1
  <2> QED
    BY <2>1, <2>2, <2>3
       DEF Wakes, NumbersWake, ClosingWakes, Promised, WillTakeFor, WillTakeAll
<1> QED
  BY <1>1, <1>2, <1>3, <1>4, <1>5, <1>6, <1>7, <1>8, <1>9, <1>10, <1>11,
     <1>12, <1>13, <1>14, <1>15, <1>16, <1>17, <1>18, <1>19, <1>20, <1>21,
     <1>22, <1>23, <1>24, <1>25, <1>26, <1>27, <1>28, StepCases

Promises == Ordered /\ Goals /\ Wakes

LEMMA PromisesInvariant == ASSUME OneConsumer PROVE Spec => []Promises
<1>1. Init => Promises
  BY OrderStart, GoalsStart, WakesStart DEF Promises
<1>2. Promises /\ [Next]_vars => Promises'
  <2> SUFFICES ASSUME Promises, [Next]_vars PROVE Promises'
    OBVIOUS
  <2>1. Ordered /\ Goals /\ Wakes /\ TypeOK /\ Phases /\ AwaitersAreKept
    BY DEF Promises, Ordered, Ownership, Types
  <2>2. Ordered' /\ Goals' /\ Wakes'
    BY <2>1, OrderStep, GoalsStep, WakesStep
  <2> QED
    BY <2>2 DEF Promises
<1> QED
  BY <1>1, <1>2, PTL DEF Spec

\* No lost wakeup: whenever the awaiter in the list could go on, some thread is
\* on its way to take the list, however the steps of publishing, of pushing and
\* of looking again interleave.
THEOREM NobodySleepsOn == ASSUME OneConsumer PROVE Spec => []NoLostWakeup
<1>1. Promises => NoLostWakeup
  <2> SUFFICES ASSUME Wakes PROVE NoLostWakeup
    BY DEF Promises
  <2>1. ASSUME NEW a \in awaiters, target[a] <= Prefix
        PROVE  \E t \in Threads : WillTakeFor(t, a)
    BY <2>1 DEF Wakes, NumbersWake, Promised
  <2>2. ASSUME closed, awaiters # {} PROVE \E t \in Threads : WillTakeIfClosed(t)
    BY <2>2 DEF Wakes, ClosingWakes, WillTakeAll, WillTakeIfClosed
  <2> QED
    BY <2>1, <2>2 DEF NoLostWakeup
<1> QED
  BY <1>1, PromisesInvariant, PTL

(***************************************************************************)
(* Refinement of PublishedUpTo, without its fairness                       *)
(***************************************************************************)
LEMMA AbstractStarts == OneConsumer /\ Init => Abstract!Init
<1> SUFFICES ASSUME OneConsumer, Init PROVE Abstract!Init
  OBVIOUS
<1>1. PICK c \in Consumers : TRUE
  BY ThreadsAssumption
<1>2. Types /\ Claims
  BY TypesStart, ClaimsStart
<1>3. Prefix < nextToClaim /\ Prefix \in Int /\ consumed[c] <= Prefix
  BY <1>2, PrefixIsUnclaimed, PrefixIsThat, NumbersAreInt, Sizes
     DEF Claims, PrefixIsReady, ReadyUpTo, Types
<1>4. nextToClaim = Initial + 1 /\ consumed[c] = Initial
  BY DEF Init
<1>5. Prefix = Initial
  BY <1>3, <1>4, Sizes
<1>6. /\ closed = FALSE /\ target = [x \in Consumers |-> Initial]
      /\ \A x \in Consumers : pc[x] = "idle" /\ event[x] = "not_set"
  BY DEF Init, Threads
<1>7. \A x \in Consumers : AnswerTo(x) = "none" /\ GrantedTo(x) = Initial
  BY <1>6 DEF AnswerTo, GrantedTo, Waiting
<1> QED
  BY <1>5, <1>6, <1>7 DEF Abstract!Init

\* Whoever waits asks still, whoever does not has his answer still.
KeepsAnswers(C) ==
  \A x \in C :
    /\ x \in Waiting' <=> x \in Waiting
    /\ x \notin Waiting => event'[x] = event[x] /\ known'[x] = known[x]

LEMMA AnswersKept ==
  ASSUME NEW C \in SUBSET Consumers, KeepsAnswers(C)
  PROVE  \A x \in C : AnswerTo(x)' = AnswerTo(x) /\ GrantedTo(x)' = GrantedTo(x)
<1> TAKE x \in C
<1>1. CASE x \in Waiting
  BY <1>1 DEF KeepsAnswers, AnswerTo, GrantedTo
<1>2. CASE x \notin Waiting
  BY <1>2 DEF KeepsAnswers, AnswerTo, GrantedTo
<1> QED
  BY <1>1, <1>2

\* A step nobody sees who waits for an answer.
LEMMA Unseen ==
  ASSUME Prefix' = Prefix, closed' = closed, target' = target, KeepsAnswers(Consumers)
  PROVE  UNCHANGED Abstract!vars
<1>1. \A x \in Consumers : AnswerTo(x)' = AnswerTo(x) /\ GrantedTo(x)' = GrantedTo(x)
  BY AnswersKept
<1> QED
  BY <1>1 DEF Abstract!vars

\* Thread t goes elsewhere inside of its call, and leaves what concerns the
\* answers alone.
LEMMA GoesUnseen ==
  ASSUME TypeOK, NEW t \in Threads, NEW label, pc' = [pc EXCEPT ![t] = label],
         t \in Consumers => pc[t] \notin {"idle", "read"} /\ label \notin {"idle", "read"},
         UNCHANGED <<published, consumed, target, known, event>>, closed' = closed
  PROVE  UNCHANGED Abstract!vars
<1>1. Prefix' = Prefix
  BY PrefixStays
<1>2. \A c \in Consumers : c \in Waiting' <=> c \in Waiting
  BY WaitsStay
<1>3. KeepsAnswers(Consumers)
  BY <1>2 DEF KeepsAnswers
<1> QED
  BY <1>1, <1>3, Unseen

\* A step that concerns the answer of c only.
LEMMA Visible ==
  ASSUME NEW c \in Consumers, KeepsAnswers(Consumers \ {c})
  PROVE  /\ [x \in Consumers |-> AnswerTo(x)]'
              = [[x \in Consumers |-> AnswerTo(x)] EXCEPT ![c] = AnswerTo(c)']
         /\ [x \in Consumers |-> GrantedTo(x)]'
              = [[x \in Consumers |-> GrantedTo(x)] EXCEPT ![c] = GrantedTo(c)']
<1>1. \A x \in Consumers \ {c} : AnswerTo(x)' = AnswerTo(x) /\ GrantedTo(x)' = GrantedTo(x)
  BY AnswersKept
<1> QED
  BY <1>1

LEMMA AbstractSteps ==
  OneConsumer /\ Ordered /\ [Next]_vars => [Abstract!Next]_(Abstract!vars)
<1> SUFFICES ASSUME OneConsumer, Ordered, [Next]_vars
             PROVE  [Abstract!Next]_(Abstract!vars)
  OBVIOUS
<1>t. /\ Types /\ TypeOK /\ Phases /\ AwaitersAreKept /\ Answers /\ Ownership
      /\ Claims /\ Knowledge
  BY DEF Ordered, Ownership, Knowledge, Types
<1>s. Consumers \subseteq Threads /\ Producers \subseteq Threads /\ Closers \subseteq Threads
      /\ Producers \cap Consumers = {} /\ Closers \cap Consumers = {}
  BY ThreadsAssumption DEF Threads
<1>m. /\ Prefix \in Int /\ Prefix' \in Int /\ Prefix <= Prefix'
      /\ Prefix' = Prefix \/ \E p \in Producers : PublishFront(p)
  BY <1>t, PrefixMoves
<1>q. UNCHANGED <<published, consumed>> => Prefix' = Prefix
  BY PrefixStays
<1>u. UNCHANGED Abstract!vars => [Abstract!Next]_(Abstract!vars)
  OBVIOUS
<1>y. Types'
  BY <1>t, TypesStep
<1>w. pc \in [Threads -> Labels] /\ Waiting \subseteq Consumers
  BY <1>t DEF TypeOK, Waiting
<1> USE <1>s DEF Goto, Leave, shared, claims, waits, locals
<1>1. ASSUME NEW p \in Producers, NEW n \in 1 .. BufferSize + 1, ClaimCount(p, n)
      PROVE  UNCHANGED Abstract!vars
  BY <1>1, <1>t, GoesUnseen DEF ClaimCount
<1>2. ASSUME NEW p \in Producers, Granted(p) PROVE UNCHANGED Abstract!vars
  BY <1>2, <1>t, GoesUnseen DEF Granted
<1>3. ASSUME NEW p \in Producers, Refused(p) PROVE UNCHANGED Abstract!vars
  BY <1>3, <1>t, GoesUnseen DEF Refused
<1>4. ASSUME NEW p \in Producers, PublishRest(p) PROVE UNCHANGED Abstract!vars
  <2>1. Prefix' = Prefix
    BY <1>4, <1>t, <1>y, RestStays
  <2>2. closed' = closed /\ UNCHANGED <<target, pc, event, known>>
    BY <1>4 DEF PublishRest
  <2>3. KeepsAnswers(Consumers)
    BY <2>2 DEF KeepsAnswers, Waiting
  <2> QED
    BY <2>1, <2>2, <2>3, Unseen
<1>5. ASSUME NEW p \in Producers, PublishFront(p)
      PROVE  [Abstract!Next]_(Abstract!vars)
  <2>1. closed' = closed /\ UNCHANGED <<target, event, known>>
        /\ pc' = [pc EXCEPT ![p] = "exchange"]
    BY <1>5 DEF PublishFront
  <2>2. \A c \in Consumers : c \in Waiting' <=> c \in Waiting
    BY <1>t, <2>1, WaitsStay
  <2>3. KeepsAnswers(Consumers)
    BY <2>1, <2>2 DEF KeepsAnswers
  <2>4. CASE Prefix' = Prefix
    BY <2>1, <2>3, <2>4, Unseen
  <2>5. CASE Prefix' # Prefix
    <3>1. Prefix < Prefix'
      BY <1>m, <2>5
    <3>2. (OneConsumer /\ Types => PrefixIsReady)'
      BY PrefixIsThat, PTL
    <3>3. PICK c \in Consumers : TRUE
      BY ThreadsAssumption
    <3>4. Prefix' \in consumed'[c] .. Last /\ consumed'[c] \in Sequences
      <4>1. consumed'[c] \in Sequences
        BY <1>y DEF Types, TypeOK
      <4>2. ReadyUpTo(c, Prefix)'
        BY <1>y, <3>2 DEF PrefixIsReady
      <4> QED
        BY <4>1, <4>2 DEF ReadyUpTo
    <3>5. Prefix' \in Initial .. Last
      BY <3>4, Sizes DEF Sequences
    <3>6. \A x \in Consumers : AnswerTo(x)' = AnswerTo(x) /\ GrantedTo(x)' = GrantedTo(x)
      BY <2>3, AnswersKept
    <3>7. Abstract!Publish(Prefix')
      BY <2>1, <3>1, <3>6 DEF Abstract!Publish
    <3> QED
      BY <3>5, <3>7 DEF Abstract!Next
  <2> QED
    BY <2>4, <2>5
<1>6. ASSUME NEW p \in Producers, Exchange(p) PROVE UNCHANGED Abstract!vars
  <2>1. PICK label \in {"idle", "head"} : pc' = [pc EXCEPT ![p] = label]
    BY <1>6 DEF Exchange
  <2> QED
    BY <1>6, <1>t, <2>1, GoesUnseen DEF Exchange
<1>7. ASSUME NEW p \in Producers, StartScan(p) PROVE UNCHANGED Abstract!vars
  BY <1>7, <1>t, GoesUnseen DEF StartScan
<1>8. ASSUME NEW p \in Producers, ScanNext(p) PROVE UNCHANGED Abstract!vars
  <2>1. pc' = [pc EXCEPT ![p] = "scan"]
    BY <1>8, <1>w DEF ScanNext
  <2> QED
    BY <1>8, <1>t, <2>1, GoesUnseen DEF ScanNext
<1>9. ASSUME NEW p \in Producers, EndScan(p) PROVE UNCHANGED Abstract!vars
  <2>1. PICK label \in {"resume", "requeue"} : pc' = [pc EXCEPT ![p] = label]
    BY <1>9 DEF EndScan
  <2>2. /\ UNCHANGED <<published, consumed, target, event>> /\ closed' = closed
        /\ Split(p, held[p])
    BY <1>9 DEF EndScan
  <2>3. \A c \in Consumers : c \in Waiting' <=> c \in Waiting
    BY <1>t, <2>1, WaitsStay
  <2>4. \A c \in held[p] : c \in Waiting
    BY <1>t DEF AwaitersAreKept, ListedWhilePending, Listed, Held, TypeOK
  <2>5. \A c \in Consumers \ held[p] : known'[c] = known[c]
    BY <2>2 DEF Split, Unsatisfied
  <2>6. KeepsAnswers(Consumers)
    BY <2>2, <2>3, <2>4, <2>5 DEF KeepsAnswers
  <2> QED
    BY <1>q, <2>2, <2>6, Unseen
<1>10. ASSUME NEW p \in Producers, Requeue(p) PROVE UNCHANGED Abstract!vars
  BY <1>10, <1>t, GoesUnseen DEF Requeue
<1>11. ASSUME NEW p \in Producers, Rescan(p) PROVE UNCHANGED Abstract!vars
  <2>1. PICK label \in {"retake", "rescan", "loadClosed"} : pc' = [pc EXCEPT ![p] = label]
    BY <1>11 DEF Rescan
  <2> QED
    BY <1>11, <1>t, <2>1, GoesUnseen DEF Rescan
<1>12. ASSUME NEW p \in Producers, Retake(p) PROVE UNCHANGED Abstract!vars
  BY <1>12, <1>t, GoesUnseen DEF Retake
<1>13. ASSUME NEW p \in Producers, LoadClosed(p) PROVE UNCHANGED Abstract!vars
  <2>1. PICK label \in {"head", "takeAll", "resume"} : pc' = [pc EXCEPT ![p] = label]
    BY <1>13 DEF LoadClosed
  <2> QED
    BY <1>13, <1>t, <2>1, GoesUnseen DEF LoadClosed
<1>14. ASSUME NEW c \in Consumers, NEW s \in Sequences, Wait(c, s)
       PROVE  [Abstract!Next]_(Abstract!vars)
  <2>1. /\ pc[c] = "idle" /\ closed' = closed /\ UNCHANGED <<published, consumed>>
        /\ target' = [target EXCEPT ![c] = s] /\ pc' = [pc EXCEPT ![c] = "enqueue"]
        /\ event' = [event EXCEPT ![c] = "not_set"]
        /\ known' = [known EXCEPT ![c] = consumed[c]]
    BY <1>14 DEF Wait
  <2>2. KeepsAnswers(Consumers \ {c})
    BY <1>t, <2>1 DEF KeepsAnswers, Waiting, TypeOK
  <2>3. c \notin Waiting /\ c \in Waiting'
    BY <1>w, <2>1 DEF Waiting
  <2>4. AnswerTo(c) # "asked" /\ AnswerTo(c)' = "asked" /\ GrantedTo(c)' = Initial
    BY <2>3 DEF AnswerTo, GrantedTo
  <2>5. Prefix' = Prefix
    BY <1>q, <2>1
  <2>6. Abstract!Ask(c, s)
    BY <2>1, <2>2, <2>4, <2>5, Visible DEF Abstract!Ask
  <2> QED
    BY <2>6 DEF Abstract!Next, Sequences
<1>15. ASSUME NEW c \in Consumers, Enqueue(c) PROVE UNCHANGED Abstract!vars
  BY <1>15, <1>t, GoesUnseen DEF Enqueue
<1>16. ASSUME NEW c \in Consumers, LoadPublished(c) PROVE UNCHANGED Abstract!vars
  <2>1. PICK label \in {"load", "check"} : pc' = [pc EXCEPT ![c] = label]
    BY <1>16, <1>t, LoadedLabel
  <2> QED
    BY <1>16, <1>t, <2>1, GoesUnseen DEF LoadPublished
<1>17. ASSUME NEW c \in Consumers, Check(c) PROVE UNCHANGED Abstract!vars
  <2>1. PICK label \in {"resume", "take"} : pc' = [pc EXCEPT ![c] = label]
    BY <1>17 DEF Check
  <2> QED
    BY <1>17, <1>t, <2>1, GoesUnseen DEF Check
<1>18. ASSUME NEW c \in Consumers, TakeAwaiters(c) PROVE UNCHANGED Abstract!vars
  <2>1. PICK label \in {"enqueue", "resume"} : pc' = [pc EXCEPT ![c] = label]
    BY <1>18 DEF TakeAwaiters
  <2>2. /\ UNCHANGED <<published, consumed, target, event>> /\ closed' = closed
        /\ Split(c, awaiters) /\ pc[c] = "take"
    BY <1>18 DEF TakeAwaiters
  <2>3. \A x \in Consumers : x \in Waiting' <=> x \in Waiting
    BY <1>t, <2>1, <2>2, WaitsStay
  <2>4. \A x \in awaiters : x \in Waiting
    BY <1>t DEF AwaitersAreKept, ListedWhilePending, Listed, TypeOK
  <2>5. \A x \in Consumers \ awaiters : known'[x] = known[x]
    BY <2>2 DEF Split, Unsatisfied
  <2>6. KeepsAnswers(Consumers)
    BY <2>2, <2>3, <2>4, <2>5 DEF KeepsAnswers
  <2> QED
    BY <1>q, <2>2, <2>6, Unseen
<1>19. ASSUME NEW c \in Consumers, Resume(c) PROVE [Abstract!Next]_(Abstract!vars)
  <2>1. /\ pc[c] = "suspended" /\ event[c] # "not_set" /\ closed' = closed
        /\ UNCHANGED <<published, consumed, target, known, event>>
        /\ pc' = [pc EXCEPT ![c] = IF event[c] = "set" THEN "read" ELSE "idle"]
    BY <1>19 DEF Resume
  <2>2. KeepsAnswers(Consumers \ {c})
    BY <1>w, <2>1 DEF KeepsAnswers, Waiting
  <2>3. c \in Waiting /\ c \notin Waiting'
    BY <1>w, <2>1 DEF Waiting
  <2>4. AnswerTo(c) = "asked" /\ GrantedTo(c) = Initial
    BY <2>3 DEF AnswerTo, GrantedTo
  <2>5. Prefix' = Prefix
    BY <1>q, <2>1
  <2>6. CASE event[c] = "set"
    <3>1. AnswerTo(c)' = "granted" /\ GrantedTo(c)' = known[c]
      BY <2>1, <2>3, <2>6 DEF AnswerTo, GrantedTo
    <3>2. known[c] \in target[c] .. Prefix
      <4>1. known[c] \in Int /\ target[c] \in Int
        BY <1>t, NumbersAreInt
      <4> QED
        BY <1>t, <1>m, <2>6, <4>1 DEF Answers
    <3>3. Abstract!Grant(c)
      BY <2>1, <2>2, <2>4, <2>5, <3>1, <3>2, Visible DEF Abstract!Grant
    <3> QED
      BY <3>3 DEF Abstract!Next, Abstract!Answer
  <2>7. CASE event[c] = "canceled"
    <3>1. AnswerTo(c)' = "refused" /\ GrantedTo(c)' = GrantedTo(c)
      BY <2>1, <2>3, <2>4, <2>7 DEF AnswerTo, GrantedTo
    <3>2. closed
      BY <1>t, <2>7 DEF Answers
    <3>3. [x \in Consumers |-> GrantedTo(x)]' = [x \in Consumers |-> GrantedTo(x)]
      BY <2>2, <3>1, AnswersKept
    <3>4. [x \in Consumers |-> AnswerTo(x)]'
            = [[x \in Consumers |-> AnswerTo(x)] EXCEPT ![c] = "refused"]
      BY <2>2, <3>1, Visible
    <3>5. Abstract!Refuse(c)
      BY <2>1, <2>4, <2>5, <3>2, <3>3, <3>4 DEF Abstract!Refuse
    <3> QED
      BY <3>5 DEF Abstract!Next, Abstract!Answer
  <2> QED
    BY <1>t, <2>1, <2>6, <2>7 DEF TypeOK
<1>20. ASSUME NEW c \in Consumers, Consume(c) PROVE UNCHANGED Abstract!vars
  <2>1. /\ pc[c] = "read" /\ pc' = [pc EXCEPT ![c] = "idle"] /\ closed' = closed
        /\ UNCHANGED <<target, known, event>>
    BY <1>20 DEF Consume
  <2>2. KeepsAnswers(Consumers)
    BY <1>w, <2>1 DEF KeepsAnswers, Waiting
  <2>3. Prefix' = Prefix
    <3>1. \A p \in Producers : ~PublishFront(p)
      BY <1>w, <2>1 DEF PublishFront
    <3> QED
      BY <1>m, <3>1
  <2> QED
    BY <2>1, <2>2, <2>3, Unseen
<1>21. ASSUME NEW x \in Closers, Close(x) PROVE [Abstract!Next]_(Abstract!vars)
  <2>1. /\ closed' = TRUE /\ UNCHANGED <<published, consumed, target, known, event>>
        /\ pc' = [pc EXCEPT ![x] = "takeAll"]
    BY <1>21 DEF Close
  <2>2. \A c \in Consumers : c \in Waiting' <=> c \in Waiting
    BY <1>t, <2>1, WaitsStay
  <2>3. KeepsAnswers(Consumers)
    BY <2>1, <2>2 DEF KeepsAnswers
  <2>4. \A c \in Consumers : AnswerTo(c)' = AnswerTo(c) /\ GrantedTo(c)' = GrantedTo(c)
    BY <2>3, AnswersKept
  <2>5. Prefix' = Prefix
    BY <1>q, <2>1
  <2>6. CASE closed
    <3>1. closed' = closed
      BY <1>t, <2>1, <2>6 DEF TypeOK
    <3> QED
      BY <2>1, <2>3, <2>5, <3>1, Unseen
  <2>7. CASE ~closed
    <3>1. Abstract!Close
      BY <2>1, <2>4, <2>5, <2>7 DEF Abstract!Close
    <3> QED
      BY <3>1 DEF Abstract!Next
  <2> QED
    BY <2>6, <2>7
<1>22. ASSUME NEW x \in Closers, CloseBarrier(x) PROVE UNCHANGED Abstract!vars
  BY <1>22, <1>t, GoesUnseen DEF CloseBarrier
<1>23. ASSUME NEW t \in Threads, TakeAll(t), t \notin Consumers
       PROVE  UNCHANGED Abstract!vars
  <2>1. PICK label \in {"cancel", "resume"} : pc' = [pc EXCEPT ![t] = label]
    BY <1>23 DEF TakeAll
  <2> QED
    BY <1>23, <1>t, <2>1, GoesUnseen DEF TakeAll
<1>24. ASSUME NEW t \in Threads, NEW a \in Consumers, ResumeAwaiter(t, a)
       PROVE  UNCHANGED Abstract!vars
  <2>1. /\ closed' = closed /\ UNCHANGED <<published, consumed, target, pc>>
        /\ \A x \in Consumers \ {a} : event'[x] = event[x] /\ known'[x] = known[x]
    BY <1>24, <1>t DEF ResumeAwaiter, TypeOK
  <2>2. a \in Waiting
    BY <1>24, <1>t DEF ResumeAwaiter, AwaitersAreKept, ListedWhilePending, Listed, Held
  <2>3. KeepsAnswers(Consumers)
    BY <2>1, <2>2 DEF KeepsAnswers, Waiting
  <2> QED
    BY <1>q, <2>1, <2>3, Unseen
<1>25. ASSUME NEW t \in Threads, ResumedAll(t) PROVE UNCHANGED Abstract!vars
  <2>1. PICK label \in {"cancel", "suspended", "idle"} :
          pc' = [pc EXCEPT ![t] = label] /\ (label = "idle" => t \notin Consumers)
    BY <1>25 DEF ResumedAll
  <2>2. pc[t] = "resume" /\ UNCHANGED <<published, consumed, target, known, event>>
    BY <1>25 DEF ResumedAll
  <2>3. closed' = closed
    BY <1>25 DEF ResumedAll
  <2> QED
    BY <1>t, <2>1, <2>2, <2>3, GoesUnseen
<1>26. ASSUME NEW t \in Threads, NEW a \in Consumers, CancelAwaiter(t, a)
       PROVE  UNCHANGED Abstract!vars
  <2>1. /\ closed' = closed /\ UNCHANGED <<published, consumed, target, pc>>
        /\ \A x \in Consumers \ {a} : event'[x] = event[x] /\ known'[x] = known[x]
    BY <1>26, <1>t DEF CancelAwaiter, TypeOK
  <2>2. a \in Waiting
    BY <1>26, <1>t DEF CancelAwaiter, AwaitersAreKept, ListedWhilePending, Listed, Held
  <2>3. KeepsAnswers(Consumers)
    BY <2>1, <2>2 DEF KeepsAnswers, Waiting
  <2> QED
    BY <1>q, <2>1, <2>3, Unseen
<1>27. ASSUME NEW t \in Threads, CancelledAll(t) PROVE UNCHANGED Abstract!vars
  <2>1. PICK label \in {"suspended", "idle", "closeBarrier"} : pc' = [pc EXCEPT ![t] = label]
    BY <1>27, CancelledLabel
  <2>2. t \in Consumers => label = "suspended"
    BY <1>27, <1>w, <2>1 DEF CancelledAll
  <2>3. pc[t] = "cancel" /\ UNCHANGED <<published, consumed, target, known, event>>
    BY <1>27 DEF CancelledAll
  <2>4. closed' = closed
    BY <1>27 DEF CancelledAll
  <2> QED
    BY <1>t, <2>1, <2>2, <2>3, <2>4, GoesUnseen
<1>28. ASSUME UNCHANGED vars PROVE UNCHANGED Abstract!vars
  <2>1. closed' = closed /\ UNCHANGED <<published, consumed, target, pc, known, event>>
    BY <1>28 DEF vars
  <2>2. KeepsAnswers(Consumers)
    BY <2>1 DEF KeepsAnswers, Waiting
  <2> QED
    BY <1>q, <2>1, <2>2, Unseen
<1> HIDE <1>s DEF Goto, Leave, shared, claims, waits, locals
<1>29. UNCHANGED Abstract!vars \/ [Abstract!Next]_(Abstract!vars)
  BY <1>t, <1>1, <1>2, <1>3, <1>4, <1>5, <1>6, <1>7, <1>8, <1>9, <1>10, <1>11,
     <1>12, <1>13, <1>14, <1>15, <1>16, <1>17, <1>18, <1>19, <1>20, <1>21,
     <1>22, <1>23, <1>24, <1>25, <1>26, <1>27, <1>28, StepCases
<1> QED
  BY <1>u, <1>29

\* Seen by who waits, claims, slots and scans disappear: the sequencer starts as
\* the barrier of PublishedUpTo does, and each of its steps is one of that
\* barrier or is not visible.
THEOREM AnswersAtomically ==
  ASSUME OneConsumer
  PROVE  Spec => Abstract!Init /\ [][Abstract!Next]_(Abstract!vars)
<1>1. Init => Abstract!Init
  BY AbstractStarts
<1>2. Ordered /\ [Next]_vars => [Abstract!Next]_(Abstract!vars)
  BY AbstractSteps
<1> QED
  BY <1>1, <1>2, OrderInvariant, PTL DEF Spec
=============================================================================
