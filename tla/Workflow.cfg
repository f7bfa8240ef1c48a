CONSTANTS
  c1 = c1  c2 = c2  p1 = p1  p2 = p2  t1 = t1  t2 = t2
  Call = {c1, c2}
  Plan = {p1, p2}
  Stamp = {t1}
  None = None
  Signal = {"ALLOW", "REQUIRE_APPROVAL"}
  MaxTip = 1
  MaxCrashes = 1
SPECIFICATION Spec
INVARIANTS
  ChainIsOneRun
  TokensAreDecided
  StaleOnlyIfOvertaken
PROPERTY ResumeCompletes
