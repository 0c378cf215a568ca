SPECIFICATION LiveSpec
CONSTANTS
  c1 = c1
  Clients <- OneClient
  MaxStarts = 3
  MaxSubscriptions = 2
  PrivetEnabled = TRUE
INVARIANTS
  TypeOK
  NoLostConnect
  NeverStranded
  LockedServiceHasBinder
  RoutedCommandFindsHandler
  RegisteredWithWeaved
PROPERTIES
  EventuallyConnected
  DeadClientsForgotten
  ImplementsContract
  ImplementsLink
CHECK_DEADLOCK FALSE
