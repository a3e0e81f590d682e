SPECIFICATION FairSpec
CONSTANTS
  Conns = {c1, c2}
  NoConn = NoConn
  Families = {"unix"}
  MaxRequests = 1
  MaxLogs = 0
  IdleLimit = 1
  WatchdogLimit = 2
  MayLoop = FALSE
  BrokenPipe = TRUE
CHECK_DEADLOCK FALSE
PROPERTIES
  StartAnswered
  OrphanReleased
