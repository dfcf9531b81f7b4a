SPECIFICATION Spec
CONSTANTS
  NumThreads = 2
  NonceRange = 2
  MaxJobs = 2
  MaxLosses = 2
  AuthMayFail = FALSE
INVARIANTS TypeOK StaleWorkIsDropped PausedHasNoWork DisjointSearch SlotThreadAlive
