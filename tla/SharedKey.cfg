CONSTANTS
  p1 = p1  p2 = p2
  g1 = g1  g2 = g2
  a1 = a1  a2 = a2
  k1 = k1  k2 = k2
  intentGroup = intentGroup
  remedyGroup = remedyGroup
  Proc = {p1, p2}
  Grant = {g1, g2}
  Action = {a1, a2}
  NoAction = NoAction
  Key = {k1}
  Group = {intentGroup}
  RootGroup = intentGroup
  ActionOf <- MCOneEach
  KeyOf <- MCKeyShared
  GroupOf <- MCGroupIntent
  Remedy = {}
  Amount <- MCAmount
  Limit <- MCLimit
  RootLimit = 0
  StateOf <- MCStateOf
  Answers = {"SUCCESS", "FAILED", "MALFORMED", "UNKNOWN"}
  Revocable = {g1}
  Expirable = {}
  StateReadMayFail = FALSE
  MaxTip = 1
  MaxCrashes = 0
SPECIFICATION Spec
INVARIANTS
  IInv
  AtMostOnceEffect
  PaidRecordsAreTrue
  EffectHoldsExposure
  UnknownIsReconcilable
  ReconciliationSettles
PROPERTY RefinesPaymentOnce
SYMMETRY MCSymmetry
CHECK_DEADLOCK FALSE
