SPECIFICATION Spec
CONSTANTS
  Conns = {c1, c2}
  NoConn = NoConn
  Families = {"unix", "tcp"}
  MaxRequests = 1
  MaxLogs = 1
  IdleLimit = 1
  WatchdogLimit = 2
  MayLoop = FALSE
  BrokenPipe = TRUE
CHECK_DEADLOCK FALSE
INVARIANTS
  IdleExitSparesSessions
