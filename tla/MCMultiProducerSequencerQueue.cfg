CONSTANTS
  c1 = c1  c2 = c2  p1 = p1  p2 = p2  k = k
  HalfRange = 8
  Initial = 15
  Last = 18
  BufferSize = 2
  Producers = {p1, p2}
  Consumers = {c1}
  Closers = {k}
SPECIFICATION Spec
SYMMETRY ThreadSymmetry
INVARIANTS TypeOK AwaitersAreKept SlotsAreExclusive SeenInOrder NoLostWakeup
