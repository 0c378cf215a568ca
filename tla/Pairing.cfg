SPECIFICATION LiveSpec
CONSTANTS
  p1 = p1
  p2 = p2
  p3 = p3
  pin = pin
  embedded = embedded
  x = x
  y = y
  Sessions <- ThreeSessions
  Modes <- TwoModes
  Codes <- OneCode
  Empty = Empty
INVARIANTS
  TypeOK
  ShownIsLatestOpen
  CopyFollows
  SettledListenerKnows
PROPERTY EventuallyKnows
CHECK_DEADLOCK FALSE
