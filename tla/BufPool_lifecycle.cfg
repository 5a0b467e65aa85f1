SPECIFICATION FairSpec
CONSTANTS
  u1 = u1  u2 = u2  b1 = b1  b2 = b2  h1 = h1  h2 = h2  h3 = h3
  Users <- TwoUsers
  Blocks <- TwoBlocks
  Headers <- ThreeHeaders
  SurfArray <- OneInArray
  Timeouts <- OneRetry
  BlockNum = 1
  MaxPools = 2
  MaxHeld = 2
  CounterMod = 4
CHECK_DEADLOCK FALSE
INVARIANTS PoolSafe
PROPERTIES PoolCallsReturn ImplementsPool
