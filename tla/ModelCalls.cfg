CONSTANTS
  i1 = i1  i2 = i2  r1 = r1  r2 = r2 
  Instance = {i1, i2}
  Request = {r1, r2}
  None = None
  Limit = 1
  Lease = 3
  AttemptTimeout = 1
  StageBudget = 3
  MaxAttempts = 2
  Lag = 1
  MaxTime = 4
  MaxFaults = 1
SPECIFICATION Spec
INVARIANTS
  WithinLimit
  SlotsAreUsed
CHECK_DEADLOCK FALSE
PROPERTY EveryCallEnds
