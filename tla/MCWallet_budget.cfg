\* One policy, never relaxed: does the meter stay within the budget?
SPECIFICATION Spec
CONSTANTS
  Tokens = {t1, t2}
  Checkouts = {c1}
  Merchants = {m1}
  MerchantOf <- OneMerchant
  Methods = {"ok"}
  Amounts = {1, 2}
  Policies <- OnlyCautious
  InitialPolicy <- Cautious
  ApprovalTTL = 1
  MaxTime = 0
SYMMETRY TokenSymmetry
INVARIANT WithinBudget
CHECK_DEADLOCK FALSE
