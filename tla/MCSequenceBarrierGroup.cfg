CONSTANTS
  b1 = b1  b2 = b2  c1 = c1  c2 = c2
  Barriers = {b1, b2}
  Consumers = {c1, c2}
  Cancellable = {c1}
  HalfRange = 4
  First = 7  Initial = 6  Last = 8
SPECIFICATION Spec
INVARIANT TypeOK
PROPERTIES ImplementsPublishedUpTo WaitsEnd
