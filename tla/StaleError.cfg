SPECIFICATION Spec
CONSTANTS
  None = None
  s1 = s1
  k1 = k1
  k2 = k2
  NumDevices = 1
  Services <- OneService
  Requests <- TwoRequests
  HasWhitelist = FALSE
  MaxPosted = 1
INVARIANT ErrorIsOwn
CHECK_DEADLOCK FALSE
