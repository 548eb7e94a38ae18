--------------------- MODULE SequenceBarrierGroupProofs ---------------------
(***************************************************************************)
(* Theorems about SequenceBarrierGroup, for any barriers, consumers and    *)
(* sequence numbers.                                                       *)
(***************************************************************************)
EXTENDS SequenceBarrierGroup, SequenceTraitsProofs, WellFoundedInduction

(***************************************************************************)
(* The slowest barrier                                                     *)
(***************************************************************************)
\* A set of sequence numbers that is not empty has a smallest, which Min picks.
LEMMA SlowestIsSmallest ==
  ASSUME NEW S, S # {}, S \subseteq Sequences
  PROVE  Min(S) \in S /\ \A x \in S : Min(S) <= x
<1> DEFINE T == {x - Initial : x \in S}
<1>1. \A x \in S : x \in Int /\ Initial <= x
  BY SequencesAssumption DEF Sequences
<1>2. T \subseteq Nat /\ T # {}
  BY <1>1, SequencesAssumption
<1>3. PICK t \in T : \A u \in T : ~(<<u, t>> \in OpToRel(<, Nat))
  BY <1>2, WFMin, NatLessThanWellFounded
<1>4. \A u \in T : ~(u < t)
  BY <1>2, <1>3 DEF OpToRel
<1>5. PICK x \in S : t = x - Initial
  BY <1>3
<1>6. \A y \in S : x <= y
  <2> TAKE y \in S
  <2>1. y - Initial \in T
    OBVIOUS
  <2>2. ~(y - Initial < x - Initial)
    BY <2>1, <1>4, <1>5
  <2> QED BY <2>2, <1>1, SequencesAssumption
<1> QED BY <1>6 DEF Min

\* Sequence numbers are integers.
LEMMA SequencesAreInt == Sequences \subseteq Int
BY SequencesAssumption DEF Sequences

\* Within the range of the type precedes() is the order of the integers.
LEMMA PrecedesInRange ==
  ASSUME NEW a \in Sequences, NEW b \in Sequences
  PROVE  Precedes(a, b) <=> a < b
<1>1. a \in Int /\ b \in Int /\ HalfRange \in Nat \ {0}
  BY SequencesAreInt, HalfRangeAssumption
<1>2. -HalfRange <= a - b /\ a - b < HalfRange
  BY <1>1, SequencesAssumption DEF Sequences
<1> QED BY <1>1, <1>2, PrecedesIsLess

\* Of sequence numbers, the one that no other precedes is the smallest.
LEMMA UnprecededIsSmallest ==
  ASSUME NEW S, S # {}, S \subseteq Sequences
  PROVE  (CHOOSE v \in S : \A w \in S : ~Precedes(w, v)) = Min(S)
<1> DEFINE m == Min(S)
<1>1. m \in S /\ \A x \in S : m <= x
  BY SlowestIsSmallest
<1> HIDE DEF m
<1>2. \A v, w \in S : Precedes(w, v) <=> w < v
  BY PrecedesInRange
<1>3. \A v \in S : v \in Int
  BY SequencesAreInt
<1>4. \A w \in S : ~Precedes(w, m)
  BY <1>1, <1>2, <1>3
<1>5. ASSUME NEW v \in S, \A w \in S : ~Precedes(w, v) PROVE v = m
  BY <1>1, <1>2, <1>3, <1>5
<1> QED BY <1>1, <1>4, <1>5 DEF m

\* min_element() over one number per barrier: one of them, and none is smaller.
LEMMA SlowestOf ==
  ASSUME NEW f \in [Barriers -> Sequences]
  PROVE  LET m == Min({f[b] : b \in Barriers})
         IN  m \in Sequences /\ (\E b \in Barriers : m = f[b])
             /\ \A b \in Barriers : m <= f[b]
<1> DEFINE S == {f[b] : b \in Barriers}
<1>1. S # {} /\ S \subseteq Sequences
  BY BarriersAssumption
<1>2. Min(S) \in S /\ \A x \in S : Min(S) <= x
  BY <1>1, SlowestIsSmallest
<1> QED BY <1>1, <1>2

\* The group answers with the smallest number that its operations were answered.
LEMMA SlowestDecides ==
  ASSUME TypeOK, NEW c \in Consumers
  PROVE  LET m == PublishedBySlowest(c)
         IN  m \in Sequences /\ (\E b \in Barriers : m = value[c][b])
             /\ \A b \in Barriers : m <= value[c][b]
<1>1. value[c] \in [Barriers -> Sequences]
  BY DEF TypeOK
<1>2. PublishedBySlowest(c) = Min(Answers(c))
  <2>1. Answers(c) # {} /\ Answers(c) \subseteq Sequences
    BY <1>1, BarriersAssumption DEF Answers
  <2> QED BY <2>1, UnprecededIsSmallest DEF PublishedBySlowest
<1> DEFINE f == value[c]
<1>3. f \in [Barriers -> Sequences]
  BY <1>1
<1> HIDE DEF f
<1>4. LET m == Min({f[b] : b \in Barriers})
      IN  m \in Sequences /\ (\E b \in Barriers : m = f[b])
          /\ \A b \in Barriers : m <= f[b]
  BY <1>3, SlowestOf
<1> QED BY <1>2, <1>4 DEF f, Answers

(***************************************************************************)
(* The inductive invariant                                                 *)
(***************************************************************************)
\* A consumer's operations exist for as long as it waits for them.
OperationsAreAsked ==
  \A c \in Consumers : \A b \in Barriers :
    /\ op[c][b] # "none" <=> result[c] = "asked"
    /\ op[c][b] # "none" => target[c] \in First .. Last

Inv == TypeOK /\ OperationsAreAsked /\ AnswersAreTrue

\* In the first state nobody has asked and no barrier is closed.
LEMMA InitInv == Init => Inv
<1>1. Initial \in Sequences
  BY DEF Sequences
<1> QED BY <1>1 DEF Init, Inv, TypeOK, OperationsAreAsked, AnswersAreTrue

\* What a step of one operation leaves of the types.
LEMMA OperationType ==
  ASSUME TypeOK, NEW c \in Consumers, NEW b \in Barriers, NEW v \in Sequences,
         NEW st \in {"none", "spawned", "waiting", "resumed", "granted",
                     "refused"},
         Operation(c, b, st, v), cancelled' \subseteq Consumers
  PROVE  TypeOK'
BY DEF TypeOK, Operation, barriers

\* Every step preserves the types; an answer is a sequence number because who
\* waits has asked for one.
LEMMA TypeStep == Inv /\ [Next]_vars => TypeOK'
<1> SUFFICES ASSUME Inv, [Next]_vars PROVE TypeOK'
  OBVIOUS
<1> USE DEF Inv
<1>1. ASSUME NEW b \in Barriers, CloseOne(b) PROVE TypeOK'
  BY <1>1 DEF CloseOne, TypeOK
<1>2. ASSUME NEW b \in Barriers, NEW s \in First .. Last, Publish(b, s)
      PROVE TypeOK'
  BY <1>2 DEF Publish, Sequences, TypeOK
<1>3. ASSUME NEW c \in Consumers, NEW s \in First .. Last, Wait(c, s)
      PROVE TypeOK'
  <2>1. s \in Sequences /\ Initial \in Sequences
    BY DEF Sequences
  <2> QED BY <1>3, <2>1 DEF Wait, barriers, TypeOK
<1>4. ASSUME NEW c \in Consumers, Complete(c) PROVE TypeOK'
  <2>1. PublishedBySlowest(c) \in Sequences
    BY SlowestDecides
  <2>2. op' \in [Consumers -> [Barriers ->
                   {"none", "spawned", "waiting", "resumed", "granted",
                    "refused"}]]
    BY <1>4 DEF Complete, TypeOK
  <2>3. value' \in [Consumers -> [Barriers -> Sequences]]
    BY <1>4, <2>1 DEF Complete, TypeOK
  <2>4. result' \in [Consumers -> {"none", "asked", "granted", "refused"}]
    BY <1>4 DEF Complete, TypeOK
  <2> QED BY <1>4, <2>2, <2>3, <2>4 DEF Complete, barriers, TypeOK
<1>5. ASSUME NEW c \in Consumers, NEW b \in Barriers, Step(c, b) PROVE TypeOK'
  <2>1. value[c][b] \in Sequences /\ published[b] \in Sequences
        /\ cancelled \subseteq Consumers
    BY DEF TypeOK
  <2>2. CASE Start(c, b)
    BY <2>1, <2>2, OperationType DEF Start, Fail
  <2>3. CASE Resume(c, b)
    <3>1. PICK s \in target[c] .. published[b] : Operation(c, b, "resumed", s)
      BY <2>3 DEF Resume
    <3>2. target[c] \in First .. Last
      BY <2>3 DEF Resume, OperationsAreAsked
    <3>3. s \in Sequences
      BY <2>1, <3>2, SequencesAssumption DEF Sequences
    <3> QED BY <2>1, <2>3, <3>1, <3>3, OperationType DEF Resume
  <2>4. CASE Return(c, b)
    BY <2>1, <2>4, OperationType DEF Return
  <2>5. CASE Refuse(c, b)
    BY <2>1, <2>5, OperationType DEF Refuse, Fail
  <2>6. CASE Cancel(c, b)
    BY <2>6, <1>1 DEF Cancel
  <2> QED BY <1>5, <2>2, <2>3, <2>4, <2>5, <2>6 DEF Step
<1>6. ASSUME NEW c \in Consumers, CancelWait(c) PROVE TypeOK'
  BY <1>6 DEF CancelWait, barriers, TypeOK
<1>7. CASE UNCHANGED vars
  BY <1>7 DEF vars, barriers, TypeOK
<1> QED BY <1>1, <1>2, <1>3, <1>4, <1>5, <1>6, <1>7 DEF Next

\* Every step preserves what relates operations and requests.
LEMMA AskedStep == Inv /\ [Next]_vars => OperationsAreAsked'
<1> SUFFICES ASSUME Inv, [Next]_vars PROVE OperationsAreAsked'
  OBVIOUS
<1> USE DEF Inv, OperationsAreAsked
<1>1. ASSUME NEW b \in Barriers,
             CloseOne(b) \/ \E s \in First .. Last : Publish(b, s)
      PROVE  OperationsAreAsked'
  BY <1>1 DEF CloseOne, Publish
<1>2. ASSUME NEW c \in Consumers, NEW s \in First .. Last, Wait(c, s)
      PROVE OperationsAreAsked'
  BY <1>2 DEF Wait, barriers, TypeOK
<1>3. ASSUME NEW c \in Consumers, Complete(c) PROVE OperationsAreAsked'
  BY <1>3 DEF Complete, barriers, TypeOK
<1>4. ASSUME NEW c \in Consumers, NEW b \in Barriers, Step(c, b)
      PROVE OperationsAreAsked'
  <2>1. ASSUME op[c][b] # "none", NEW st, st # "none", NEW v,
               Operation(c, b, st, v)
        PROVE  OperationsAreAsked'
    BY <2>1 DEF Operation, barriers, TypeOK
  <2>2. CASE Start(c, b) BY <2>1, <2>2 DEF Start, Fail
  <2>3. CASE Resume(c, b) BY <2>1, <2>3 DEF Resume
  <2>4. CASE Return(c, b) BY <2>1, <2>4 DEF Return
  <2>5. CASE Refuse(c, b) BY <2>1, <2>5 DEF Refuse, Fail
  <2>6. CASE Cancel(c, b) BY <1>1, <2>6 DEF Cancel
  <2> QED BY <1>4, <2>2, <2>3, <2>4, <2>5, <2>6 DEF Step
<1>5. ASSUME NEW c \in Consumers, CancelWait(c) PROVE OperationsAreAsked'
  BY <1>5 DEF CancelWait, barriers
<1>6. CASE UNCHANGED vars
  BY <1>6 DEF vars, barriers
<1> QED BY <1>1, <1>2, <1>3, <1>4, <1>5, <1>6 DEF Next

\* Every step preserves the truth of the answers.
LEMMA AnswersStep == Inv /\ [Next]_vars => AnswersAreTrue'
<1> SUFFICES ASSUME Inv, [Next]_vars PROVE AnswersAreTrue'
  OBVIOUS
<1> USE DEF Inv, AnswersAreTrue
<1>1. ASSUME NEW b \in Barriers, CloseOne(b) PROVE AnswersAreTrue'
  <2>1. IsClosed'
    BY <1>1 DEF CloseOne, IsClosed, TypeOK
  <2> QED BY <1>1, <2>1 DEF CloseOne
<1>2. ASSUME NEW b \in Barriers, NEW s \in First .. Last, Publish(b, s)
      PROVE AnswersAreTrue'
  <2>1. \A i \in Barriers :
          published[i] \in Int /\ \A c \in Consumers : value[c][i] \in Int
    BY SequencesAreInt DEF TypeOK
  <2>2. \A i \in Barriers :
          published'[i] \in Int /\ published[i] <= published'[i]
    <3>1. s \in Int /\ published[b] < s
      BY <1>2, SequencesAssumption DEF Publish
    <3>2. \A i \in Barriers :
            published'[i] = IF i = b THEN s ELSE published[i]
      BY <1>2 DEF Publish, TypeOK
    <3> QED BY <2>1, <3>1, <3>2
  <2>3. UNCHANGED <<IsClosed, target, op, value, cancelled, result>>
    BY <1>2 DEF Publish, IsClosed
  <2>4. ASSUME NEW c \in Consumers, NEW i \in Barriers,
               op[c][i] \in {"resumed", "granted"}
        PROVE  target[c] <= value[c][i] /\ value[c][i] <= published'[i]
    BY <2>1, <2>2, <2>4
  <2> QED BY <2>3, <2>4
<1>3. ASSUME NEW c \in Consumers, NEW s \in First .. Last, Wait(c, s)
      PROVE AnswersAreTrue'
  <2>1. UNCHANGED <<IsClosed, published>> /\ c \notin cancelled'
    BY <1>3 DEF Wait, barriers, IsClosed
  <2>2. \A b \in Barriers : op'[c][b] = "spawned"
    BY <1>3 DEF Wait, TypeOK
  <2>3. \A d \in Consumers \ {c} :
          /\ op'[d] = op[d] /\ value'[d] = value[d] /\ target'[d] = target[d]
          /\ result'[d] = result[d] /\ (d \in cancelled' <=> d \in cancelled)
    BY <1>3 DEF Wait, TypeOK
  <2> QED BY <2>1, <2>2, <2>3
<1>4. ASSUME NEW c \in Consumers, Complete(c) PROVE AnswersAreTrue'
  <2>1. UNCHANGED <<IsClosed, published, target, cancelled>>
    BY <1>4 DEF Complete, barriers, IsClosed
  <2>2. result'[c] # "asked" /\ \A b \in Barriers : op'[c][b] = "none"
    BY <1>4 DEF Complete, TypeOK
  <2>3. \A d \in Consumers \ {c} :
          op'[d] = op[d] /\ value'[d] = value[d] /\ result'[d] = result[d]
    BY <1>4 DEF Complete, TypeOK
  <2> QED BY <2>1, <2>2, <2>3
<1>5. ASSUME NEW c \in Consumers, NEW b \in Barriers, Step(c, b)
      PROVE AnswersAreTrue'
  <2>1. ASSUME NEW st, NEW v, Operation(c, b, st, v),
               \/ cancelled' = cancelled
               \/ /\ cancelled' = cancelled \cup {c}
                  /\ IsClosed \/ c \in Cancellable,
               st \in {"resumed", "granted"} =>
                 target[c] <= v /\ v <= published[b],
               st = "refused" => c \in cancelled'
        PROVE  AnswersAreTrue'
    BY <2>1 DEF Operation, barriers, IsClosed, TypeOK
  <2>2. c \in cancelled /\ op[c][b] # "none" => IsClosed \/ c \in Cancellable
    BY DEF OperationsAreAsked
  <2>3. closed[b] => IsClosed
    BY DEF IsClosed
  <2>4. CASE Start(c, b)
    <3>1. CASE /\ Fail(c, b)
               /\ c \in cancelled \/ closed[b]
      <4>1. IsClosed \/ c \in Cancellable
        BY <2>2, <2>3, <2>4, <3>1 DEF Start
      <4> QED BY <2>1, <3>1, <4>1 DEF Fail
    <3>2. CASE /\ target[c] <= published[b] /\ cancelled' = cancelled
               /\ Operation(c, b, "granted", published[b])
      <4>1. published[b] <= published[b]
        <5>1. published[b] \in Int
          BY SequencesAreInt DEF TypeOK
        <5> QED BY <5>1
      <4> QED BY <2>1, <3>2, <4>1
    <3>3. CASE Operation(c, b, "waiting", value[c][b]) /\ cancelled' = cancelled
      BY <2>1, <3>3
    <3> QED BY <2>4, <3>1, <3>2, <3>3 DEF Start
  <2>5. CASE Resume(c, b)
    <3>1. PICK s \in target[c] .. published[b] : Operation(c, b, "resumed", s)
      BY <2>5 DEF Resume
    <3> QED BY <2>1, <2>5, <3>1 DEF Resume
  <2>6. CASE Return(c, b)
    BY <2>1, <2>6 DEF Return
  <2>7. CASE Refuse(c, b)
    BY <2>1, <2>3, <2>7 DEF Refuse, Fail
  <2>8. CASE Cancel(c, b)
    BY <1>1, <2>8 DEF Cancel
  <2> QED BY <1>5, <2>4, <2>5, <2>6, <2>7, <2>8 DEF Step
<1>6. ASSUME NEW c \in Consumers, CancelWait(c) PROVE AnswersAreTrue'
  BY <1>6 DEF CancelWait, barriers, IsClosed
<1>7. CASE UNCHANGED vars
  BY <1>7 DEF vars, barriers, IsClosed
<1> QED BY <1>1, <1>2, <1>3, <1>4, <1>5, <1>6, <1>7 DEF Next

\* The invariant is inductive.
LEMMA StepInv == Inv /\ [Next]_vars => Inv'
BY TypeStep, AskedStep, AnswersStep DEF Inv

\* The inductive invariant of wait_until_published(), publish() and close().
THEOREM Invariant == Spec => []Inv
<1>1. Init => Inv
  BY InitInv
<1>2. Inv /\ [Next]_vars => Inv'
  BY StepInv
<1> QED BY <1>1, <1>2, PTL DEF Spec

\* The variables keep their types, whatever is published, closed or waited for.
THEOREM TypeCorrect == Spec => []TypeOK
BY Invariant, PTL DEF Inv

\* No operation of a group is granted a number that its barrier has not
\* published or that lies before the target, and none fails unless a barrier is
\* closed or the wait is cancelled (sequence_barrier_group.h:60).
THEOREM AnswersTellTheTruth == Spec => []AnswersAreTrue
BY Invariant, PTL DEF Inv

(***************************************************************************)
(* The group is one barrier                                                *)
(***************************************************************************)
\* What the group has published, and what it told each consumer.
Slowest == Min({published[b] : b \in Barriers})

\* The slowest barrier's number was published by one of them.
LEMMA SlowestPublished ==
  ASSUME TypeOK
  PROVE  /\ Slowest \in Sequences
         /\ \E b \in Barriers : Slowest = published[b]
         /\ \A b \in Barriers : Slowest <= published[b]
BY SlowestOf DEF TypeOK, Slowest

Got == [c \in Consumers |->
          IF result[c] = "granted" THEN PublishedBySlowest(c) ELSE Initial]

\* The initial states of the group are those of one barrier.
LEMMA RefinesInit == Init => Abstract!Init
<1> SUFFICES ASSUME Init PROVE Abstract!Init
  OBVIOUS
<1>1. TypeOK
  BY InitInv DEF Inv
<1>2. Slowest = Initial
  BY <1>1, SlowestPublished DEF Init
<1>3. ~IsClosed
  BY DEF Init, IsClosed
<1>4. Got = [c \in Consumers |-> Initial]
  BY DEF Init, Got
<1> QED BY <1>2, <1>3, <1>4 DEF Init, Abstract!Init, Slowest, Got

\* A step of an operation is not seen outside.
LEMMA RefinesStep ==
  ASSUME Inv, NEW c \in Consumers, NEW b \in Barriers,
         NEW st, NEW v, Operation(c, b, st, v), op[c][b] # "none"
  PROVE  UNCHANGED Abstract!vars
<1>1. UNCHANGED <<published, closed, target, result>>
  BY DEF Operation, barriers
<1>2. result[c] = "asked"
  BY DEF Inv, OperationsAreAsked
<1>3. \A d \in Consumers \ {c} : value'[d] = value[d]
  BY DEF Inv, TypeOK, Operation
<1>4. \A d \in Consumers :
        result[d] = "granted" => PublishedBySlowest(d)' = PublishedBySlowest(d)
  BY <1>2, <1>3 DEF PublishedBySlowest, Answers
<1>5. Got' = Got
  BY <1>1, <1>4 DEF Got
<1> QED BY <1>1, <1>5 DEF Abstract!vars, IsClosed, Got

\* publish() of one barrier publishes a number of the group or is not seen.
LEMMA RefinesPublish ==
  ASSUME Inv, Inv', NEW b \in Barriers, NEW s \in First .. Last, Publish(b, s)
  PROVE  [Abstract!Next]_(Abstract!vars)
<1>1. Got' = Got /\ UNCHANGED <<IsClosed, target, result>>
  BY DEF Publish, Got, PublishedBySlowest, Answers, IsClosed
<1>2. TypeOK /\ TypeOK'
  BY DEF Inv
<1>3. /\ Slowest \in Sequences /\ \E i \in Barriers : Slowest = published[i]
      /\ \A i \in Barriers : Slowest <= published[i]
  BY <1>2, SlowestPublished
<1>4. Slowest' \in Sequences /\ \E i \in Barriers : Slowest' = published'[i]
  <2>1. \A i \in Barriers : published'[i] \in Sequences
    BY <1>2 DEF TypeOK
  <2> DEFINE f == published'
  <2>2. f \in [Barriers -> Sequences]
    BY <1>2 DEF TypeOK
  <2> HIDE DEF f
  <2>3. LET m == Min({f[i] : i \in Barriers})
        IN  m \in Sequences /\ \E i \in Barriers : m = f[i]
    BY <2>2, SlowestOf
  <2> QED BY <2>3 DEF f, Slowest
<1>5. \A i \in Barriers : published'[i] = published[i] \/ published'[i] = s
  BY <1>2 DEF Publish, TypeOK
<1>6. Slowest < s
  <2>1. published[b] \in Int /\ Slowest \in Int /\ s \in Int
    <3>1. published[b] \in Sequences
      BY <1>2 DEF TypeOK
    <3>2. s \in Int
      BY SequencesAssumption
    <3> QED BY <1>3, <3>1, <3>2, SequencesAreInt
  <2>2. published[b] < s /\ Slowest <= published[b]
    BY <1>3 DEF Publish
  <2> QED BY <2>1, <2>2
<1>7. Slowest <= Slowest'
  BY <1>3, <1>4, <1>5, <1>6, SequencesAreInt, SequencesAssumption
<1>8. CASE Slowest' = Slowest
  BY <1>1, <1>8 DEF Abstract!vars, Slowest, Got
<1>9. CASE Slowest < Slowest'
  <2>1. Slowest' \in First .. Last
    BY <1>3, <1>4, <1>9, SequencesAssumption DEF Sequences
  <2>2. Abstract!Publish(Slowest')
    BY <1>1, <1>9 DEF Abstract!Publish, Slowest, Got
  <2> QED BY <2>1, <2>2 DEF Abstract!Next
<1> QED BY <1>3, <1>4, <1>7, <1>8, <1>9, SequencesAreInt

\* The first close() of a barrier closes the group.
LEMMA RefinesClose ==
  ASSUME Inv, NEW b \in Barriers, CloseOne(b)
  PROVE  [Abstract!Next]_(Abstract!vars)
<1>1. Got' = Got /\ UNCHANGED <<published, target, result>>
  BY DEF CloseOne, Got, PublishedBySlowest, Answers
<1>2. IsClosed'
  BY DEF CloseOne, IsClosed, Inv, TypeOK
<1>3. CASE IsClosed
  BY <1>1, <1>2, <1>3 DEF Abstract!vars, Got
<1>4. CASE ~IsClosed
  BY <1>1, <1>2, <1>4 DEF Abstract!Next, Abstract!Close, Got
<1> QED BY <1>3, <1>4

\* wait_until_published() asks.
LEMMA RefinesWait ==
  ASSUME Inv, NEW c \in Consumers, NEW s \in First .. Last, Wait(c, s)
  PROVE  Abstract!Next
<1>1. UNCHANGED <<published, IsClosed>> /\ target' = [target EXCEPT ![c] = s]
      /\ result[c] # "asked" /\ result' = [result EXCEPT ![c] = "asked"]
  BY DEF Wait, barriers, IsClosed
<1>2. Got' = [Got EXCEPT ![c] = Initial]
  <2>1. \A d \in Consumers \ {c} :
          value'[d] = value[d] /\ result'[d] = result[d]
    BY DEF Wait, Inv, TypeOK
  <2>2. result'[c] = "asked"
    BY <1>1 DEF Inv, TypeOK
  <2>3. \A d \in Consumers \ {c} : PublishedBySlowest(d)' = PublishedBySlowest(d)
    BY <2>1 DEF PublishedBySlowest, Answers
  <2> QED BY <2>1, <2>2, <2>3 DEF Got
<1>3. Abstract!Ask(c, s)
  BY <1>1, <1>2 DEF Abstract!Ask, Got
<1> QED BY <1>3 DEF Abstract!Next

\* The end of the parallel group answers: with the slowest barrier's number,
\* which all have published, or with an error, since some barrier is closed or
\* the wait was cancelled.
LEMMA RefinesComplete ==
  ASSUME Inv, NEW c \in Consumers, Complete(c)
  PROVE  Abstract!Next \/ Abandon(c)
<1>1. UNCHANGED <<published, IsClosed, target>> /\ result[c] = "asked"
  BY DEF Complete, barriers, IsClosed
<1>2. \A d \in Consumers \ {c} : value'[d] = value[d] /\ result'[d] = result[d]
  BY DEF Complete, Inv, TypeOK
<1>3. CASE /\ IsClosed \/ \E b \in Barriers : op[c][b] = "refused"
           /\ result' = [result EXCEPT ![c] = "refused"]
           /\ UNCHANGED value
  <2>1. IsClosed \/ c \in Cancellable \cap cancelled
    BY <1>1, <1>3 DEF Inv, AnswersAreTrue
  <2>2. Got' = Got
    <3>1. result'[c] = "refused"
      BY <1>3 DEF Inv, TypeOK
    <3>2. \A d \in Consumers \ {c} :
            PublishedBySlowest(d)' = PublishedBySlowest(d)
      BY <1>2 DEF PublishedBySlowest, Answers
    <3> QED BY <1>1, <1>2, <3>1, <3>2 DEF Got
  <2>3. CASE IsClosed
    <3>1. Abstract!Refuse(c)
      BY <1>1, <1>3, <2>2, <2>3 DEF Abstract!Refuse, Got
    <3> QED BY <3>1 DEF Abstract!Next, Abstract!Answer
  <2>4. CASE c \in Cancellable \cap cancelled
    BY <1>1, <1>3, <2>4 DEF Abandon, barriers, Complete
  <2> QED BY <2>1, <2>3, <2>4
<1>4. CASE /\ \A b \in Barriers : op[c][b] = "granted"
           /\ result' = [result EXCEPT ![c] = "granted"]
           /\ value' = [value EXCEPT ![c] =
                          [b \in Barriers |-> PublishedBySlowest(c)]]
  <2> DEFINE m == PublishedBySlowest(c)
  <2>1. /\ m \in Sequences /\ \E b \in Barriers : m = value[c][b]
        /\ \A b \in Barriers : m <= value[c][b]
    BY SlowestDecides DEF Inv
  <2>2. /\ Slowest \in Sequences /\ \E b \in Barriers : Slowest = published[b]
    BY SlowestPublished DEF Inv
  <2>3. \A b \in Barriers :
          target[c] <= value[c][b] /\ value[c][b] <= published[b]
    BY <1>4 DEF Inv, AnswersAreTrue
  <2>4. \A b \in Barriers : value[c][b] \in Int /\ target[c] \in Int
    BY SequencesAreInt DEF Inv, TypeOK
  <2>5. m \in target[c] .. Slowest
    <3>1. m \in Int /\ Slowest \in Int
      BY <2>1, <2>2, SequencesAreInt
    <3>2. target[c] \in Int /\ target[c] <= m
      BY <2>1, <2>3, <2>4
    <3>3. m <= Slowest
      BY <2>1, <2>2, <2>3, <2>4, <3>1
    <3> HIDE DEF m
    <3> QED BY <3>1, <3>2, <3>3
  <2>6. PublishedBySlowest(c)' = m
    <3> HIDE DEF m
    <3>1. \A b \in Barriers : value'[c][b] = m
      BY <1>4 DEF m, Inv, TypeOK
    <3>2. Answers(c)' = {m}
      BY <3>1, BarriersAssumption DEF Answers
    <3>3. (CHOOSE v \in {m} : \A w \in {m} : ~Precedes(w, v)) = Min({m})
      BY <2>1, UnprecededIsSmallest
    <3>4. Min({m}) = m
      <4>1. Min({m}) \in {m}
        BY <2>1, SlowestIsSmallest
      <4> QED BY <4>1
    <3> QED BY <3>2, <3>3, <3>4 DEF PublishedBySlowest
  <2>7. Got' = [Got EXCEPT ![c] = m]
    <3>1. result'[c] = "granted"
      BY <1>4 DEF Inv, TypeOK
    <3>2. \A d \in Consumers \ {c} :
            PublishedBySlowest(d)' = PublishedBySlowest(d)
      BY <1>2 DEF PublishedBySlowest, Answers
    <3> HIDE DEF m
    <3> QED BY <1>2, <2>6, <3>1, <3>2 DEF Got
  <2>8. Abstract!Grant(c)
    <3> HIDE DEF m
    <3> QED BY <1>1, <1>4, <2>5, <2>7 DEF Abstract!Grant, Slowest, Got
  <2> QED BY <2>8 DEF Abstract!Next, Abstract!Answer
<1> QED BY <1>3, <1>4 DEF Complete

\* Every step of the group is a step of one barrier or of a cancelled wait, or it
\* is not seen.
LEMMA RefinesNext ==
  Inv /\ Inv' /\ [Next]_vars
    => [Abstract!Next \/ \E c \in Consumers : Abandon(c)]_(Abstract!vars)
<1> SUFFICES ASSUME Inv, Inv', [Next]_vars
             PROVE  [Abstract!Next \/ \E c \in Consumers : Abandon(c)]_(Abstract!vars)
  OBVIOUS
<1>1. ASSUME NEW c \in Consumers, NEW b \in Barriers, Step(c, b)
      PROVE  [Abstract!Next]_(Abstract!vars)
  <2>1. CASE Start(c, b) BY <2>1, RefinesStep DEF Start, Fail
  <2>2. CASE Resume(c, b) BY <2>2, RefinesStep DEF Resume
  <2>3. CASE Return(c, b) BY <2>3, RefinesStep DEF Return
  <2>4. CASE Refuse(c, b) BY <2>4, RefinesStep DEF Refuse, Fail
  <2>5. CASE Cancel(c, b) BY <2>5, RefinesClose DEF Cancel
  <2> QED BY <1>1, <2>1, <2>2, <2>3, <2>4, <2>5 DEF Step
<1>2. CASE UNCHANGED vars \/ \E c \in Consumers : CancelWait(c)
  <2>1. value' = value /\ result' = result
    BY <1>2 DEF vars, CancelWait
  <2>2. Got' = Got
    BY <2>1 DEF Got, PublishedBySlowest, Answers
  <2> QED
    BY <1>2, <2>2 DEF vars, CancelWait, barriers, Abstract!vars, IsClosed, Got
<1> QED BY <1>1, <1>2, RefinesPublish, RefinesClose, RefinesWait,
           RefinesComplete DEF Next

\* A group of barriers is one barrier (sequence_barrier_group.h:32), which has
\* published what its slowest member has and is closed when one of them is; only
\* a wait that was cancelled may fail on its own.
THEOREM ActsAsOneBarrier == Spec => ImplementsPublishedUpTo
<1>1. Init => Abstract!Init
  BY RefinesInit
<1>2. Inv /\ Inv' /\ [Next]_vars
        => [Abstract!Next \/ \E c \in Consumers : Abandon(c)]_(Abstract!vars)
  BY RefinesNext
<1> QED BY <1>1, <1>2, Invariant, PTL DEF Spec, ImplementsPublishedUpTo
=============================================================================
