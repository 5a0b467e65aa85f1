SPECIFICATION Spec
CONSTANTS
  c1 = c1  c2 = c2  w1 = w1  w2 = w2  t1 = t1  t2 = t2
  a1 = a1  a2 = a2  a3 = a3
  Clients <- TwoClients
  Workers <- TwoWorkers
  Tags <- TwoTags
  TagsOf <- SharedTag
  DataNums <- OnlyTwo
  Statuses <- OnlySuccess
  Addrs <- ThreeAddrs
  MaxRequests = 3
  CounterMod = 8
SYMMETRY Symmetric
CHECK_DEADLOCK FALSE
INVARIANTS TypeOK OneResponder ResponseInOrder DestroyerAwake MemorySafe AnswersExact
PROPERTIES WaitCovers
