SPECIFICATION Spec
CONSTANTS
  None = None
  MaxServices = 3
  ssid1 = ssid1
  ssid2 = ssid2
  Ssids <- TwoSsids
INVARIANTS
  TypeOK
  ProxiesAreLive
  RunsUnderItsSsid
  NothingIsLeft
  OthersAreRemoved
