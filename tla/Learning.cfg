CONSTANTS
  c1 = c1  c2 = c2
  hard = hard  money = money  soft = soft
  judge = judge  devil = devil
  pay = pay
  m1 = m1  m2 = m2
  stated = stated  learned = learned  rule = rule  trust = trust
  None = None
  NoProposal = NoProposal
  Constraint = {hard, money, soft}
  KindOf <- MCKindOf
  Judge = {judge, devil}
  Required = {judge}
  Devil = devil
  Capability = {pay}
  Merchant = {m1, m2}
  Results <- MCResults
  Scopes <- MCScopes
  Requests <- MCRequests
  Exposures <- MCExposures
  Proc = {c1, c2}
  Proposal = {stated, learned, rule, trust}
  KindOfProposal <- MCKindOfProposal
  Expirable = {learned}
  MaxCrashes = 1
SPECIFICATION Spec
INVARIANTS
  InForceWasConfirmed
  ContradictedIsBlocked
  UnjudgedNeedsApproval
  DelegationNarrows
PROPERTY ExplicitOutranksLearned
SYMMETRY MCSymmetry
CHECK_DEADLOCK FALSE
