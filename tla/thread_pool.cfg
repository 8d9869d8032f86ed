CONSTANTS
  MaxThreads = 5
  MaxCalls = 3
SPECIFICATION PoolSpec
INVARIANTS
  PoolTypeOK
  EachThreadOnce
  WokenAsTheyWait
PROPERTY CallsReturn
CHECK_DEADLOCK FALSE
