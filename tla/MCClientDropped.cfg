CONSTANTS
  s1 = s1  s2 = s2  p1 = p1  none = none
  None = none
  Subs = {s1}  Leavers = {s1}
  Pubs = {p1}  Pings = {}
  Sends <- OneEach  MayFail = FALSE  Cancellable = {}
  TxSize = 2  SubSize = 2
SPECIFICATION Spec
INVARIANT RxFirstIsNet
CHECK_DEADLOCK FALSE
