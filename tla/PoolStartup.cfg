SPECIFICATION FairSpec
CONSTANTS
  d1 = d1
  d2 = d2
  Daemons = {d1, d2}
  Main = d1
  FirstFork = TRUE
  MaxChanges = 3
  MaxNotices = 2
  MaxReports = 2
INVARIANTS
  StartupTypeOK
  OneServer
  SyncingIsAwaited
PROPERTY GetsGoing
CHECK_DEADLOCK FALSE
