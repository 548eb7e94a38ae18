CONSTANTS
  p = p  c = c  k = k  m1 = m1  m2 = m2
  Producer = p
  Consumer = c
  Closers = {k}
  Item = {m1, m2}
  HalfRange = 4
  BufferSize = 2
  Initial = 7
  Last = 12
SPECIFICATION Spec
INVARIANTS TypeOK InOrder SlotsAreExclusive
PROPERTIES ImplementsBoundedQueue WaitsEnd
