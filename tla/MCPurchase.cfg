\* Two submits of one session and token, with an update or a cancellation meanwhile.
SPECIFICATION FairSpec
CONSTANTS
  Calls = {h1, h2}
  Checkouts = {c1}
  Tokens = {t1}
  Methods = {"ok", "challenge"}
  Quantities = {1, 3}
  Fees <- Discount
  MaxObjects = 2
  MaxCharge = 2
  Budget = 4
INVARIANTS
  OrderIsBacked
  MoneyPerToken
  MoneyIsAccounted
  MeterCoversCharges
PROPERTIES
  KeepsContract
  CallsEnd
CHECK_DEADLOCK FALSE
