SPECIFICATION FairSpec
CONSTANTS
  Files = {f1, f2}
  MaxRuns = 2
  MaxExps = 3
  MaxDepth = 3
  MaxQueries = 2
  MaxProcs = 2
  MaxLate = 2
CHECK_DEADLOCK FALSE
INVARIANTS
  TypeOK
  InStep
  SourceKnown
  NoEngineLeak
  ParkedClean
PROPERTIES
  RunEnds
