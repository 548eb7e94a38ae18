------------------------ MODULE SequenceBarrierGroup ------------------------
(***************************************************************************)
(* include/sequence_barrier_group.h: one wait for several barriers.  A     *)
(* producer claims through it, so as not to overtake the slowest consumer. *)
(*                                                                         *)
(* The wait spawns a coroutine per barrier and runs them as one parallel   *)
(* group under wait_for_one_error().  A barrier's own wait is taken from   *)
(* PublishedUpTo, which SequenceBarrier implements.                        *)
(***************************************************************************)
EXTENDS SequenceTraits, FiniteSetsExt

CONSTANTS
  Barriers, Consumers, First, Initial, Last,
  Cancellable   \* the consumers whose wait somebody may cancel

ASSUME BarriersAssumption == IsFiniteSet(Barriers) /\ Barriers # {}
ASSUME CancellableAssumption == Cancellable \subseteq Consumers
\* The numbers in play lie within half of the range of the type.
ASSUME SequencesAssumption ==
  /\ First \in Int /\ Last \in Int /\ Initial \in Int /\ Initial < First
  /\ Last - Initial < HalfRange

VARIABLES
  published,    \* _lastPublished of each barrier
  closed,       \* its _isClosed
  target,       \* targetSequence of each consumer
  op,           \* what the coroutine of each consumer and barrier does
  value,        \* what the barrier answered it
  cancelled,    \* the consumers whose group has cancelled its operations
  result        \* "none", "asked", "granted" or "refused", for each consumer

barriers == <<published, closed>>
vars == <<barriers, target, op, value, cancelled, result>>

Init ==
  /\ published = [b \in Barriers |-> Initial]
  /\ closed = [b \in Barriers |-> FALSE]
  /\ target = [c \in Consumers |-> Initial]
  /\ op = [c \in Consumers |-> [b \in Barriers |-> "none"]]
  /\ value = [c \in Consumers |-> [b \in Barriers |-> Initial]]
  /\ cancelled = {}
  /\ result = [c \in Consumers |-> "none"]

\* Mutation: the end of a range, not its last number.
PublishNext(b, s) ==
  /\ published[b] < s
  /\ published' = [published EXCEPT ![b] = s + 1]
  /\ UNCHANGED <<closed, target, op, value, cancelled, result>>

\* publish() of one of the barriers.
Publish(b, s) ==
  /\ published[b] < s
  /\ published' = [published EXCEPT ![b] = s]
  /\ UNCHANGED <<closed, target, op, value, cancelled, result>>

\* close() of one of the barriers: one iteration of close() of the group, or
\* what an owner of the barrier does on its own.
CloseOne(b) ==
  /\ ~closed[b]
  /\ closed' = [closed EXCEPT ![b] = TRUE]
  /\ UNCHANGED <<published, target, op, value, cancelled, result>>

\* is_closed()
IsClosed == \E b \in Barriers : closed[b]

\* wait_until_published(): the operations are launched.
Wait(c, s) ==
  /\ result[c] # "asked"
  /\ result' = [result EXCEPT ![c] = "asked"]
  /\ target' = [target EXCEPT ![c] = s]
  /\ op' = [op EXCEPT ![c] = [b \in Barriers |-> "spawned"]]
  /\ value' = [value EXCEPT ![c] = [b \in Barriers |-> Initial]]
  /\ cancelled' = cancelled \ {c}
  /\ UNCHANGED barriers

\* Operation b of consumer c becomes st; it has been answered v.
Operation(c, b, st, v) ==
  /\ op' = [op EXCEPT ![c][b] = st]
  /\ value' = [value EXCEPT ![c][b] = v]
  /\ UNCHANGED <<barriers, target, result>>

\* An operation ends with an error: the first one cancels the group.
Fail(c, b) ==
  /\ Operation(c, b, "refused", value[c][b])
  /\ cancelled' = cancelled \cup {c}

\* The spawned coroutine starts; cancelled before that it throws at once.
Start(c, b) ==
  /\ op[c][b] = "spawned"
  /\ \/ /\ c \in cancelled \/ (closed[b] /\ target[c] <= published[b])
        /\ Fail(c, b)
     \/ /\ c \notin cancelled /\ ~closed[b] /\ target[c] <= published[b]
        /\ Operation(c, b, "granted", published[b])
        /\ UNCHANGED cancelled
     \/ /\ c \notin cancelled /\ published[b] < target[c]
        /\ Operation(c, b, "waiting", value[c][b])
        /\ UNCHANGED cancelled

\* The barrier resumes the operation, which has yet to run and to return.
Resume(c, b) ==
  /\ op[c][b] = "waiting"
  /\ \E s \in target[c] .. published[b] : Operation(c, b, "resumed", s)
  /\ UNCHANGED cancelled

Return(c, b) ==
  /\ op[c][b] = "resumed"
  /\ Operation(c, b, "granted", value[c][b])
  /\ UNCHANGED cancelled

Refuse(c, b) ==
  /\ op[c][b] = "waiting"
  /\ closed[b]
  /\ Fail(c, b)

\* Mutation: the operations ignore the signal.
CancelIgnored(c, b) ==
  /\ c \in cancelled
  /\ op[c][b] \in {"waiting", "resumed"}
  /\ UNCHANGED vars

\* The group's signal reaches an operation that waits, or that was resumed and
\* has not run: the handler the barrier installed closes the whole barrier.
Cancel(c, b) ==
  /\ c \in cancelled
  /\ op[c][b] \in {"waiting", "resumed"}
  /\ CloseOne(b)

\* The owner of the wait cancels it, and the group cancels its operations.
CancelWait(c) ==
  /\ c \in Cancellable \ cancelled
  /\ result[c] = "asked"
  /\ cancelled' = cancelled \cup {c}
  /\ UNCHANGED <<barriers, target, op, value, result>>

\* What the operations of c were answered.
Answers(c) == {value[c][b] : b \in Barriers}

\* Mutation: the least as an unsigned number.
PublishedByLeast(c) ==
  CHOOSE v \in Answers(c) : \A w \in Answers(c) : Wrap(v) <= Wrap(w)

\* min_element(): a number that no other precedes.
PublishedBySlowest(c) ==
  CHOOSE v \in Answers(c) : \A w \in Answers(c) : ~Precedes(w, v)

\* The group waits for every operation, after an error too.
AllDone(c) == \A b \in Barriers : op[c][b] \in {"granted", "refused"}

Complete(c) ==
  /\ result[c] = "asked"
  /\ AllDone(c)
  /\ \/ /\ IsClosed \/ \E b \in Barriers : op[c][b] = "refused"
        /\ result' = [result EXCEPT ![c] = "refused"]
        /\ UNCHANGED value
     \/ /\ ~IsClosed /\ \A b \in Barriers : op[c][b] = "granted"
        /\ result' = [result EXCEPT ![c] = "granted"]
        /\ value' = [value EXCEPT ![c] =
                       [b \in Barriers |-> PublishedBySlowest(c)]]
  /\ op' = [op EXCEPT ![c] = [b \in Barriers |-> "none"]]
  /\ UNCHANGED <<barriers, target, cancelled>>

Step(c, b) ==
  Start(c, b) \/ Resume(c, b) \/ Return(c, b) \/ Refuse(c, b) \/ Cancel(c, b)

Next ==
  \/ \E b \in Barriers : CloseOne(b) \/ \E s \in First .. Last : Publish(b, s)
  \/ \E c \in Consumers :
       \/ Complete(c) \/ CancelWait(c)
       \/ \E s \in First .. Last : Wait(c, s)
       \/ \E b \in Barriers : Step(c, b)

\* The executor runs what is ready.  Nobody has to publish, to close, to wait or
\* to cancel.
Fairness ==
  \A c \in Consumers :
    WF_vars(Complete(c)) /\ \A b \in Barriers : WF_vars(Step(c, b))

Spec == Init /\ [][Next]_vars /\ Fairness

(***************************************************************************)
(* Correctness                                                             *)
(***************************************************************************)
Sequences == First .. Last \cup {Initial}

TypeOK ==
  /\ published \in [Barriers -> Sequences]
  /\ closed \in [Barriers -> BOOLEAN]
  /\ target \in [Consumers -> Sequences]
  /\ op \in [Consumers -> [Barriers ->
               {"none", "spawned", "waiting", "resumed", "granted", "refused"}]]
  /\ value \in [Consumers -> [Barriers -> Sequences]]
  /\ cancelled \subseteq Consumers
  /\ result \in [Consumers -> {"none", "asked", "granted", "refused"}]

\* An operation that was answered tells the truth; one that failed, or was
\* cancelled, did so because some barrier was closed or its wait was cancelled.
AnswersAreTrue ==
  \A c \in Consumers :
    /\ \A b \in Barriers :
         /\ op[c][b] \in {"resumed", "granted"} =>
              target[c] <= value[c][b] /\ value[c][b] <= published[b]
         /\ op[c][b] = "refused" => c \in cancelled
    /\ result[c] = "asked" /\ c \in cancelled => IsClosed \/ c \in Cancellable

\* Cancelled before its operations began, a wait ends with an error although no
\* barrier is closed: what one barrier alone does not do.
Abandon(c) ==
  /\ c \in Cancellable \cap cancelled
  /\ result[c] = "asked"
  /\ result' = [result EXCEPT ![c] = "refused"]
  /\ UNCHANGED <<barriers, target, value>>

\* Refinement: the group is one barrier that has published what its slowest
\* member has, and that is closed when one of them is.
Abstract ==
  INSTANCE PublishedUpTo WITH
    published <- Min({published[b] : b \in Barriers}),
    shut <- IsClosed,
    want <- target,
    answer <- result,
    got <- [c \in Consumers |->
              IF result[c] = "granted" THEN PublishedBySlowest(c) ELSE Initial]

ImplementsPublishedUpTo ==
  /\ Abstract!Init
  /\ [][Abstract!Next \/ \E c \in Consumers : Abandon(c)]_(Abstract!vars)

\* A wait ends once every barrier has published its number or is closed, and
\* once one of its operations has failed or it was cancelled: the cancellation
\* reaches the operations that are left.
WaitsEnd ==
  \A c \in Consumers :
    (/\ result[c] = "asked"
     /\ \/ \A b \in Barriers : closed[b] \/ target[c] <= published[b]
        \/ c \in cancelled)
      ~> result[c] # "asked"
=============================================================================
