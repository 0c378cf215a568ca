SPECIFICATION Spec
CONSTANTS
  c1 = c1
  Clients <- OneClient
  MaxStarts = 3
  MaxSubscriptions = 2
  PrivetEnabled = TRUE
INVARIANT LostConnectionIsSurvived
CHECK_DEADLOCK FALSE
