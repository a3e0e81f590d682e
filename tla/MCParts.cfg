SPECIFICATION PartsSpec
CONSTANTS
  CacheUsers = {u1, u2}
  Helpers = {h1, h2}
  Main = main
  JavaSource = java
  MaxBuilds = 2
  Dirs = {d}
  Jars = {j}
  Paths = {p, q}
  Contents = {c1, c2}
  Absent = absent
  Unknown = unknown
  PoolSize = 2
  MaxRuns = 3
  MaxWrites = 2
  Classes = {1, 2, 3}
  Loose = {1}
  FirstParents <- Diamond
  MaxParents = 2
  MaxMutations = 2
  Templates = {1, 2, 3}
  MaxSupers = 2
  Size = 3
  MaxEdges = 2
  Forms = {"import", "parent argument"}
  Symbols = {1, 2, 3}
  Ladder = {1, 2, 3, 4, 5, 6}
  Relevant = {1, 2, 3, 4, 5, 6}
  MaxModels = 5
  Lifted = 3
  MaxReads = 1
  MaxCalls = 3
  PickleBytes = {0, 127, 255}
  MaxPickle = 8
  MaxConst = 4
  Archives = {"a", "b"}
  ClassFiles = {"f"}
  Listings = {"l"}
  ArchiveLimit = 2
  ClassLimit = 4
  LargestKept = 2
  MaxRewrites = 2
  MaxLookups = 4
INVARIANTS
  MainClassLast
  AnswersRight RememberedSettled
  CycleNamed CyclicRejected
  CyclesReported AcceptedWhole
  ModelsExact
  CapturesRight
  SignatureSurvives
  BudgetsKept AnswersFresh
PROPERTIES
  OkMeansPublished ReusedUnchanged MissesForgotten
CHECK_DEADLOCK FALSE
