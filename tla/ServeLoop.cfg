CONSTANTS
  None = None
  Second = 2
  InitialBackoff = 2
  MaxBackoff = 4
  HealthyUptime = 5
  Window = 6
  MaxRestarts = 3
  Capacity = 1
  MaxRecent = 5
SPECIFICATION FairSpec
INVARIANT TypeOK
PROPERTY HintProgress
PROPERTY NoLockout
PROPERTY RespawnCounted
