SPECIFICATION Spec
CONSTANTS
  Default = Default
  Empty = Empty
  Missing = Missing
  wifi = wifi
  cloud = cloud
  v1 = v1
  v2 = v2
  Names <- TwoNames
  Values <- TwoValues
  MaxSaves = 3
INVARIANTS
  TypeOK
  ReportedIsDurable
  NamedLoadsItsOwn
CHECK_DEADLOCK FALSE
