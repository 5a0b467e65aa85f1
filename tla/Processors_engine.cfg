SPECIFICATION Spec
CONSTANTS
  NumEngines = 2
  Packs <- Packages
  Threads = 3
  MaxLoad = 2
  BufNum = 2
  Pooled = TRUE
CHECK_DEADLOCK FALSE
INVARIANTS EngineSafe
PROPERTIES PackageEnds
