------------------------ MODULE SequenceTraitsProofs ------------------------
(***************************************************************************)
(* Theorems about the order of the sequence numbers, for every width.      *)
(***************************************************************************)
EXTENDS SequenceTraits, TLAPS

\* What the program stores for n is a number of the unsigned type ...
LEMMA WrapType == \A n \in Int : Wrap(n) \in 0 .. (Modulus - 1)
  BY HalfRangeAssumption DEF Wrap, Modulus

\* ... that differs from n by a number of whole turns.
LEMMA WrapTurns == \A n \in Int : \E k \in Int : Wrap(n) = n - k * Modulus
  BY HalfRangeAssumption DEF Wrap, Modulus

\* Only the turn that brings n into the range of the type does.
LEMMA TurnIsUnique ==
  ASSUME NEW n \in Int, NEW k \in Int, NEW r \in 0 .. (Modulus - 1),
         r = n - k * Modulus, -HalfRange <= n, n < HalfRange
  PROVE  r = IF n >= 0 THEN n ELSE n + Modulus
<1>0. Modulus \in Nat /\ Modulus > 0 /\ Modulus = HalfRange + HalfRange
      /\ HalfRange \in Nat
  BY HalfRangeAssumption DEF Modulus
<1> DEFINE turns == k * Modulus
<1>1. k >= 1 => turns >= Modulus
  BY <1>0
<1>2. k <= -2 => turns <= -2 * Modulus
  BY <1>0
<1>3. turns \in Int
  BY <1>0
<1>4. r = n - turns
  OBVIOUS
<1> HIDE DEF turns
<1>5. k = 0 \/ k = -1
  BY <1>0, <1>1, <1>2, <1>3, <1>4
<1>6. (k = 0 => turns = 0) /\ (k = -1 => turns = -Modulus)
  BY <1>0 DEF turns
<1> QED
  BY <1>0, <1>3, <1>4, <1>5, <1>6

\* The difference of two wrapped sequence numbers is the difference of the
\* integers they stand for, as long as these are less than half of the range
\* apart (SequenceTraits::difference).
THEOREM DifferenceIsExact ==
  ASSUME NEW a \in Int, NEW b \in Int,
         -HalfRange <= a - b, a - b < HalfRange
  PROVE  Difference(a, b) = a - b
<1>0. Modulus \in Nat /\ Modulus = HalfRange + HalfRange /\ HalfRange \in Nat
  BY HalfRangeAssumption DEF Modulus
<1> DEFINE d == Wrap(Wrap(a) - Wrap(b))
<1>1. Wrap(a) \in Int /\ Wrap(b) \in Int
  BY <1>0, WrapType
<1>2. PICK i \in Int : Wrap(a) = a - i * Modulus
  BY WrapTurns
<1>3. PICK j \in Int : Wrap(b) = b - j * Modulus
  BY WrapTurns
<1>4. PICK k \in Int : d = (Wrap(a) - Wrap(b)) - k * Modulus
  BY <1>1, WrapTurns
<1>5. d = (a - b) - (i - j + k) * Modulus
  BY <1>0, <1>2, <1>3, <1>4
<1>6. d \in 0 .. (Modulus - 1)
  BY <1>1, WrapType
<1> HIDE DEF d
<1>7. d = IF a - b >= 0 THEN a - b ELSE (a - b) + Modulus
  <2>1. a - b \in Int /\ i - j + k \in Int
    OBVIOUS
  <2> QED
    BY <2>1, <1>5, <1>6, TurnIsUnique
<1>8. Difference(a, b) = IF d < HalfRange THEN d ELSE d - Modulus
  BY DEF Difference, d
<1> QED
  BY <1>0, <1>6, <1>7, <1>8

\* Within half of the range SequenceTraits::precedes is the order of the
\* integers, across the point where the numbers wrap around too.
THEOREM PrecedesIsLess ==
  ASSUME NEW a \in Int, NEW b \in Int,
         -HalfRange <= a - b, a - b < HalfRange
  PROVE  Precedes(a, b) <=> a < b
BY DifferenceIsExact DEF Precedes

(***************************************************************************)
(* Slots: a buffer whose size divides the range of the type puts a number  *)
(* where it would be if the numbers did not wrap.                          *)
(***************************************************************************)
\* A remainder is in range and some number of whole divisors below.
LEMMA Remainder ==
  ASSUME NEW n \in Int, NEW d \in Nat, d > 0
  PROVE  n % d \in 0 .. d - 1 /\ \E k \in Int : n % d = n - k * d
  OBVIOUS

\* Two numbers a whole number of divisors apart, and less than one, are equal.
LEMMA Apart ==
  ASSUME NEW d \in Nat, d > 0, NEW s \in Int, NEW r \in Int, s - r < d, r - s < d,
         NEW i \in Int, NEW j \in Int, s - i * d = r - j * d
  PROVE  s = r
<1> DEFINE k == i - j
<1>1. k \in Int /\ s - r = k * d
  OBVIOUS
<1> HIDE DEF k
<1>2. (k >= 1 => k * d >= d) /\ (k <= -1 => k * d <= -d) /\ (k = 0 => k * d = 0)
  BY <1>1
<1> QED
  BY <1>1, <1>2

\* The slot of the wrapped number is some number of buffers away from it.
LEMMA SlotTurns ==
  ASSUME NEW size \in Nat, size > 0, Modulus % size = 0, NEW s \in Int
  PROVE  \E k \in Int : Wrap(s) % size = s - k * size
<1>0. Modulus \in Nat /\ Modulus > 0
  BY HalfRangeAssumption DEF Modulus
<1>1. PICK i \in Int : Wrap(s) = s - i * Modulus
  BY WrapTurns
<1>2. PICK q \in Int : Modulus = q * size
  <2>1. \E q \in Int : Modulus % size = Modulus - q * size
    <3>1. Modulus \in Int
      BY <1>0
    <3> QED
      BY <3>1, Remainder
  <2> QED
    BY <2>1, <1>0
<1>3. PICK k \in Int : Wrap(s) % size = Wrap(s) - k * size
  <2>1. Wrap(s) \in Int
    BY <1>0, WrapType
  <2> QED
    BY <2>1, Remainder
<1> DEFINE turns == i * q
<1>4. turns \in Int /\ i * Modulus = turns * size
  BY <1>2
<1> HIDE DEF turns
<1>5. (turns + k) * size = turns * size + k * size
  BY <1>4
<1>6. Wrap(s) % size = s - (turns + k) * size
  BY <1>1, <1>3, <1>4, <1>5
<1> QED
  BY <1>4, <1>6

\* Two numbers less than a buffer apart are in different slots.
LEMMA SlotsApart ==
  ASSUME NEW size \in Nat, size > 0, Modulus % size = 0,
         NEW s \in Int, NEW r \in Int, s # r, s - r < size, r - s < size
  PROVE  Wrap(s) % size # Wrap(r) % size
<1>1. PICK i \in Int : Wrap(s) % size = s - i * size
  BY SlotTurns
<1>2. PICK j \in Int : Wrap(r) % size = r - j * size
  BY SlotTurns
<1> QED
  BY <1>1, <1>2, Apart

\* Two numbers less than the range apart are stored as different values.
LEMMA WrapsApart ==
  ASSUME NEW s \in Int, NEW r \in Int, s # r, s - r < Modulus, r - s < Modulus
  PROVE  Wrap(s) # Wrap(r)
<1>0. Modulus \in Nat /\ Modulus > 0
  BY HalfRangeAssumption DEF Modulus
<1>1. PICK i \in Int : Wrap(s) = s - i * Modulus
  BY WrapTurns
<1>2. PICK j \in Int : Wrap(r) = r - j * Modulus
  BY WrapTurns
<1> QED
  BY <1>0, <1>1, <1>2, Apart
=============================================================================
