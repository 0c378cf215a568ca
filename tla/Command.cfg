SPECIFICATION Spec
CONSTANTS
  k1 = k1
  k2 = k2
  Commands <- TwoCommands
INVARIANTS
  TypeOK
  ToldIsTrue
  FinisherKnows
  EmptyParametersReportNothing
PROPERTY ImplementsPromise
CHECK_DEADLOCK FALSE
