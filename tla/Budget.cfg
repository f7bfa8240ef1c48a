CONSTANTS
  p1 = p1  p2 = p2
  g1 = g1  g2 = g2
  a1 = a1  a2 = a2
  k1 = k1  k2 = k2
  intentGroup = intentGroup
  remedyGroup = remedyGroup
  Proc = {p1, p2}
  Grant = {g1, g2}
  Action = {a1, a2}
  NoAction = NoAction
  Key = {k1, k2}
  Group = {intentGroup, remedyGroup}
  RootGroup = intentGroup
  ActionOf <- MCOneEach
  KeyOf <- MCKeyOwn
  GroupOf <- MCGroupRemedy
  Remedy = {a2}
  Amount <- MCAmount
  Limit <- MCTightLimit
  RootLimit = 3
  StateOf <- MCStateOf
  Answers = {"SUCCESS", "FAILED", "UNKNOWN"}
  Revocable = {}
  Expirable = {}
  StateReadMayFail = FALSE
  MaxTip = 1
  MaxCrashes = 1
SPECIFICATION Spec
INVARIANT BudgetRespected
SYMMETRY MCSymmetry
CHECK_DEADLOCK FALSE
