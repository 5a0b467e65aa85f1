SPECIFICATION FairSpec
CONSTANTS
  c1 = c1  c2 = c2  w1 = w1  w2 = w2  t1 = t1  t2 = t2
  a1 = a1  a2 = a2  a3 = a3
  Clients <- OneClient
  Workers <- OneWorker
  Tags <- TwoTags
  TagsOf <- AllTags
  DataNums <- ZeroOrOne
  Statuses <- OnlySuccess
  Addrs <- TwoAddrs
  MaxRequests = 3
  CounterMod = 8
CHECK_DEADLOCK FALSE
INVARIANTS EmptyPackagesSafe
PROPERTIES WaitReturns
