\* The whole provider: edits, approvals, two outstanding tokens.
SPECIFICATION Spec
CONSTANTS
  Tokens = {t1, t2}
  Checkouts = {c1}
  Merchants = {m1}
  MerchantOf <- OneMerchant
  Methods = {"ok"}
  Amounts = {0, 2}
  Policies <- SomePolicies
  InitialPolicy <- Cautious
  ApprovalTTL = 1
  MaxTime = 2
SYMMETRY TokenSymmetry
INVARIANT
  SpentMeter
PROPERTIES
  TokenScopeIsFixed
  OvershootNeedsStaleScope
  DecisionIsFinal
CHECK_DEADLOCK FALSE
