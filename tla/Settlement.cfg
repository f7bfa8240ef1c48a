CONSTANTS
  p1 = p1  p2 = p2
  g1 = g1  g2 = g2
  a1 = a1  a2 = a2
  k1 = k1  k2 = k2
  intentGroup = intentGroup
  remedyGroup = remedyGroup
  Proc = {p1, p2}
  Grant = {g1}
  Action = {a1}
  NoAction = NoAction
  Key = {k1}
  Group = {intentGroup}
  RootGroup = intentGroup
  ActionOf <- MCOnlyOne
  KeyOf <- MCKeyShared
  GroupOf <- MCGroupIntent
  Remedy = {}
  Amount <- MCAmount
  Limit <- MCLimit
  RootLimit = 0
  StateOf <- MCStateOf
  Answers = {"SUCCESS", "FAILED", "UNKNOWN"}
  Revocable = {}
  Expirable = {g1}
  StateReadMayFail = FALSE
  MaxTip = 2
  MaxCrashes = 0
SPECIFICATION FairSpec
PROPERTY SettlementCompletes
CHECK_DEADLOCK FALSE
