SPECIFICATION BatcherFairSpec
CONSTANTS
  c1 = c1  c2 = c2  x1 = x1  x2 = x2  x3 = x3  x4 = x4
  Clients <- TwoClients
  Items <- FourItems
  BatchSize = 2
  Timeout = 1
  MaxEvents = 4
CHECK_DEADLOCK FALSE
INVARIANTS ItemsSafe
PROPERTIES ItemsAreEmitted
