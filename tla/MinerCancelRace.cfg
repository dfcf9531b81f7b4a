SPECIFICATION Spec
CONSTANTS
  NumThreads = 1
  NonceRange = 2
  MaxJobs = 1
  MaxLosses = 0
  AuthMayFail = FALSE
INVARIANT CurrentWorkRuns
