CONSTANTS
  s1 = s1  s2 = s2  p1 = p1  none = none
  None = none
  Subs = {s1}  Leavers = {s1}
  Pubs = {}  Pings = {1}
  Sends <- OneEach  MayFail = TRUE  Cancellable = {s1}
  TxSize = 1  SubSize = 2
SPECIFICATION Spec
INVARIANT TypeOK
PROPERTIES ShutdownEndsRun UnsubscribedEnds
CHECK_DEADLOCK FALSE
