CONSTANTS
  c1 = c1  c2 = c2  p = p  k = k
  Publisher = p
  HalfRange = 4
  First = 7  Initial = 7
  Consumers = {c1, c2}
  Closers = {k}
  Last = 9
SPECIFICATION Spec
INVARIANTS TypeOK OneOwner ListedIsPending NoneDropped NoLostWakeup AnswerIsSound
PROPERTY ImplementsPublishedUpTo
