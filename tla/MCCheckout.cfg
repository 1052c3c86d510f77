\* One session, two completions of it, updates and cancellations at any await.
SPECIFICATION FairSpec
CONSTANTS
  Calls = {h1, h2}
  Checkouts = {c1}
  Quantities = {1, 2}
  Fees <- Discounts
  MaxObjects = 3
INVARIANTS
  ChargeIsSigned
  LiveTotalIsCurrent
  OrderAsMandated
  OneOrderPerSession
PROPERTIES
  TerminalStates
  InProgressEnds
CHECK_DEADLOCK FALSE
