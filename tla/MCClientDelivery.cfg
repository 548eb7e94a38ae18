CONSTANTS
  s1 = s1  s2 = s2  p1 = p1  none = none
  None = none
  Subs = {s1, s2}  Leavers = {s1}
  Pubs = {}  Pings = {}
  Sends <- TwoToSecond  MayFail = FALSE  Cancellable <- FirstUnsub
  TxSize = 1  SubSize = 1
SPECIFICATION Spec
INVARIANTS AssertsHold KnownIsRouted DeliveredInOrder
CHECK_DEADLOCK FALSE
