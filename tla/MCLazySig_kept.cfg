SPECIFICATION LazySpec
CONSTANTS
  Size = 2
  MaxEdges = 2
  Forms = {"parent argument"}
INVARIANT ErrorsReported
CHECK_DEADLOCK FALSE
