CONSTANTS
  i1 = i1  i2 = i2  c1 = c1  c2 = c2  r1 = r1
  Instance = {i1, i2}
  Call = {c1, c2}
  Remedy = {r1}
  None = None
  MaxAttempts = 1
  MaxRequests = 4
  MaxRestarts = 1
SPECIFICATION MCSpec
INVARIANTS
  ResolutionInv
  OneIssuePays
  ResolvedOnlyPaid
SYMMETRY MCSymmetry
CHECK_DEADLOCK FALSE
