\* Concurrent calls, open mandates, captures and refunds; scores, limits, windows.
SPECIFICATION Spec
CONSTANTS
  Calls = {c1, c2, c3}
  Agents = {a1, a2}
  Registered = {a1}
  OpenMandates = {o1}
  NoOpen = NoOpen
  Amounts = {0, 1, 2}
  MaxCharge = 2
  MaxOccurrences = 2
  OpenBudget = 3
  Caps = {1, 2}
  Scores = {47, 100}
  Limits = {1, 2}
  InitialLimit = 3
  Window = 2
  MaxTime = 2
CONSTRAINT Focus
SYMMETRY CallSymmetry
INVARIANTS
  RefundsWithinCapture
  OccurrencesWithinRecurrence
  SpendWithinOpenBudget
  RefusedCallHoldsNoMoney
  VelocityRespected
PROPERTY LockoutNeedsAdmin
CHECK_DEADLOCK FALSE
