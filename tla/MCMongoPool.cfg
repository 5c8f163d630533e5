CONSTANTS
  NHosts = 3
  MaxMissed = 7
SPECIFICATION PoolSpec
INVARIANTS
  NeverUndefined
  FailsOver
CHECK_DEADLOCK FALSE
