CONSTANTS
  c1 = c1  c2 = c2  p1 = p1  p2 = p2  k = k
  HalfRange = 8
  Initial = 15
  Last = 19
  BufferSize = 2
  Producers = {p1}
  Consumers = {c1, c2}
  Closers = {}
SPECIFICATION Spec
SYMMETRY ThreadSymmetry
INVARIANT NoLostWakeup
CHECK_DEADLOCK FALSE
