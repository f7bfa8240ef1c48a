CONSTANTS
  p1 = p1  p2 = p2
  x1 = x1
  Nobody = Nobody
  Proc = {p1, p2}
  Request = {x1}
  MaxTip = 2
  MaxCrashes = 1
SPECIFICATION FairSpec
INVARIANTS
  LogMatchesRow
  DenialIsRespected
PROPERTIES
  ClosedNeverReopens
  ClosedIsFinal
  ApprovedResumptionMints
CHECK_DEADLOCK FALSE
