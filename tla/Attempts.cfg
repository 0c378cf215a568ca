SPECIFICATION LiveSpec
CONSTANTS
  None = None
  s1 = s1
  k1 = k1
  k2 = k2
  NumDevices = 1
  Services <- OneService
  Requests <- TwoRequests
  HasWhitelist = TRUE
  MaxPosted = 2
INVARIANTS
  TypeOK
  RepliesAtMostOnce
  ConnectivityIsHighest
  ConnectivityIsAnnounced
PROPERTIES
  TimerEndsOwnAttempt
  AttemptEnds
  ImplementsConnect
CHECK_DEADLOCK FALSE
