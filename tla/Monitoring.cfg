CONSTANTS
  p1 = p1  p2 = p2
  Proc = {p1, p2}
  MaxCrashes = 1
SPECIFICATION Spec
INVARIANTS
  PostureMatchesSignals
  WorstReportStands
  GateHolds
SYMMETRY MCSymmetry
CHECK_DEADLOCK FALSE
