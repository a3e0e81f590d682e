SPECIFICATION Spec
CONSTANTS
  NUnits = 4
  Size <- MCSize
  Workers = {w1, w2}
  PoolMins = {3}
  Nobody = Nobody
CHECK_DEADLOCK FALSE
PROPERTIES
  OthersSpared
