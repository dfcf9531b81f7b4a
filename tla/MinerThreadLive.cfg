SPECIFICATION FairSpec
CONSTANTS
  NumThreads = 1
  NonceRange = 2
  MaxJobs = 2
  MaxLosses = 1
  AuthMayFail = TRUE
PROPERTIES StaleWorkEnds NewWorkIsTaken LossIdlesThreads StopEndsProcess
