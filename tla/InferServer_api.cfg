SPECIFICATION ServerSpec
CONSTANTS
  c1 = c1  c2 = c2  k1 = k1  k2 = k2
  Clients <- TwoClients
  Sync <- SyncClients
  Keys <- TwoKeys
  EngineNum <- Engines
  CacheLimit = 1
  MaxThreads = 12
  MaxLoad = 2
  PackSizes <- Sizes
  Serialised = TRUE
  MaxModels = 2
  MaxExecs = 2
  MaxSessions = 2
  MaxReqs = 3
CHECK_DEADLOCK FALSE
PROPERTIES ServerSafe CallReturns
