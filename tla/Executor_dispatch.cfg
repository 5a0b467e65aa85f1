SPECIFICATION Spec
CONSTANTS
  b1 = b1  b2 = b2  b3 = b3  b4 = b4  b5 = b5
  NumEngines = 2
  NumNodes = 2
  Dynamic = TRUE
  Packs <- FiveBatches
CHECK_DEADLOCK FALSE
SYMMETRY Interchangeable
INVARIANTS ExecutorSafe
