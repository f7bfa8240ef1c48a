CONSTANTS
  i1 = i1  i2 = i2  c1 = c1  c2 = c2  m1 = m1
  Instance = {i1, i2}
  Call = {c1, c2}
  Message = {m1}
  Required = 2
  None = None
  EventFacts <- MCEventFacts
  ClaimSets <- MCClaimSets
  MaxDeliveries = 3
  MaxRequests = 2
  MaxCrashes = 1
SPECIFICATION FairSpec
INVARIANTS
  StateIsAggregate
  JudgedAfterPayment
  CasesAreRecorded
PROPERTY
  TriggersReachCases
CHECK_DEADLOCK FALSE
