CONSTANTS
  c1 = c1  c2 = c2  dated = dated  undated = undated
  v1 = v1  v2 = v2  allow = allow  block = block  t1 = t1
  Call = {c1, c2}
  Compilation = {dated, undated}
  Verification = {v1, v2}
  Policy = {allow, block}
  Bound = {t1}
  BoundOf <- MCBoundOf
  None = None
  MaxVersion = 5
  MaxRequests = 5
  MaxLost = 1
SPECIFICATION StatesSpec
INVARIANTS
  CompiledIsVerified
  BoundsAreCompiled
  SuccessorsKeepTerms
  SerialTip
SYMMETRY MCSymmetry
CHECK_DEADLOCK FALSE
