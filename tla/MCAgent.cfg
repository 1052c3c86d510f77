\* Autonomous runs at two merchants, overlapped and followed by the single routes of the API.
SPECIFICATION Spec
CONSTANTS
  c1 = c1
  c2 = c2
  Calls = {c1, c2}
  Merchants = {m1, m2}
  Prices = {1, 3}
  Extras = {1}
  Wishes = {2, NoCap}
  NoCap = NoCap
  Card = card
  Bank = card
  Choices = {None}
  Policies <- AskAboveOneOrAlways
  Routes <- OneOfEach
  None = None
  MaxStarts = 3
  MaxCheckouts = 2
  MaxQty = 2
SYMMETRY MerchantSymmetry
CONSTRAINT ShorterRuns
INVARIANTS
  PaidUnderOneGrant
  AutonomyNeedsApproval
  CopyIsCurrent
PROPERTY PaysWithinWish
CHECK_DEADLOCK FALSE
