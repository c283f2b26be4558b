CONSTANTS
  Worker = {w1, w2}
  None = None
  MaxWork = 2
  MaxTotal = 3
SPECIFICATION PoolFairSpec
INVARIANT
  SleepCounted
PROPERTIES
  SleeperWoken
  DriversStop
CHECK_DEADLOCK FALSE
