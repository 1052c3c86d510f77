\* Two submits of one token overlap.
SPECIFICATION Spec
CONSTANTS
  Calls = {h1, h2}
  Checkouts = {c1}
  Tokens = {t1}
  Methods = {"ok"}
  Quantities = {1}
  Fees = {0}
  MaxObjects = 1
  MaxCharge = 2
  Budget = 4
INVARIANT TokenSettlesOnce
CHECK_DEADLOCK FALSE
