SPECIFICATION FairSpec
CONSTANTS
  Compilers = {c1, c2}
  MaxDaemons = 2
  None = None
  MaxPolls = 1
  MaxRounds = 2
  ProbeTimesOut = FALSE
  KilledStarting = FALSE
CHECK_DEADLOCK FALSE
INVARIANTS
  TypeOK
  OneDaemon
PROPERTIES
  SuccessorSpared
  StopReaches
  AskEnds
