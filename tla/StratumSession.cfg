SPECIFICATION FairSpec
CONSTANTS
  MaxJobs = 3
  MaxDrops = 1
  MaxRestarts = 1
  MaxShares = 1
INVARIANTS
  SessionTypeOK
  RefusedOnlyEarly
PROPERTIES
  HandshakeCompletes
  NextJobReaches
CHECK_DEADLOCK FALSE
