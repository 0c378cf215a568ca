SPECIFICATION Spec
CONSTANTS
  c1 = c1
  Clients <- OneClient
  MaxStarts = 3
  MaxSubscriptions = 2
  PrivetEnabled = TRUE
INVARIANT ComponentsCleanedUp
CHECK_DEADLOCK FALSE
