SPECIFICATION Spec
CHECK_DEADLOCK FALSE
CONSTANTS
  MaxPoints = 4
  BatchSize = 2
  MaxQueue = 3
INVARIANTS
  NothingElseIsLost
  LoggedOnce
PROPERTIES
  PositionAdvances
