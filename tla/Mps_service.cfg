SPECIFICATION MpsSpec
CONSTANTS
  u1 = u1  u2 = u2
  Configs <- SomeConfigs
  MaxInits = 2
  MaxLost = 1
  Users <- TwoUsers
  Senders <- OneUser
  kMax = 2
  CodecStart = 0
  Tries = 1
  StreamBuf = 1
  MaxUnits = 2
CHECK_DEADLOCK FALSE
INVARIANTS DevicesSafe UnitsKept
PROPERTIES ServiceReturnsAlways
