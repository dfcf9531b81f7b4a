SPECIFICATION FairSpec
CONSTANTS
  MaxJobs = 2
  MaxDrops = 1
  MaxRestarts = 0
  MaxShares = 0
PROPERTY
  ConnectedGetsWork
CHECK_DEADLOCK FALSE
