SPECIFICATION FairSpec
CONSTANTS
  Platforms <- BothPlatforms
  Bufs = {b1, b2, b3}
  MaxFrames = 3
  Sizes <- TwoSizes
CHECK_DEADLOCK FALSE
INVARIANTS StreamSafe
PROPERTIES DestroyReturns
