SPECIFICATION FairSpec
CONSTANTS
  NUnits = 4
  Size <- MCSize
  Workers = {w1, w2}
  PoolMins = {2, 3, 5}
  Nobody = Nobody
CHECK_DEADLOCK FALSE
INVARIANTS
  TypeOK
  Complete
  PushOrder
  NothingLeft
PROPERTIES
  Refines
  JoinEnds
