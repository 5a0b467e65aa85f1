SPECIFICATION FairSpec
CONSTANTS
  Platforms <- BothPlatforms
  MaxPackets = 3
  Sizes <- TwoSizes
CHECK_DEADLOCK FALSE
INVARIANTS StreamSafe
PROPERTIES DestroyReturns
