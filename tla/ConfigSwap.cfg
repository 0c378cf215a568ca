SPECIFICATION Spec
CONSTANTS
  Default = Default
  Empty = Empty
  Missing = Missing
  wifi = wifi
  cloud = cloud
  v1 = v1
  v2 = v2
  Names <- TwoNames
  Values <- TwoValues
  MaxSaves = 3
INVARIANT EveryNameLoadsItsOwn
CHECK_DEADLOCK FALSE
