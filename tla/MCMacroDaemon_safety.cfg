SPECIFICATION Spec
CONSTANTS
  Conns = {c1, c2}
  NoConn = NoConn
  Families = {"unix", "tcp"}
  MaxRequests = 2
  MaxLogs = 1
  IdleLimit = 1
  WatchdogLimit = 2
  MayLoop = TRUE
  BrokenPipe = TRUE
CHECK_DEADLOCK FALSE
SYMMETRY ConnSymmetry
INVARIANTS
  TypeOK
  SessionExclusion
  OwnStreams
  
PROPERTIES
  WatchdogSpares
