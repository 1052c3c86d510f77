\* One autonomous run, authorized by the user, with two payment methods.
SPECIFICATION Spec
CONSTANTS
  c1 = c1
  c2 = c2
  Calls = {c1}
  Merchants = {m1}
  Prices = {1, 2}
  Extras = {0}
  Wishes = {1, 2}
  NoCap = NoCap
  Card = card
  Bank = bank
  Choices = {card, None}
  Policies <- Relaxed
  Routes <- OnlyAutonomous
  None = None
  MaxStarts = 2
  MaxCheckouts = 2
  MaxQty = 2
INVARIANT InstrumentIsAllowed
CHECK_DEADLOCK FALSE
