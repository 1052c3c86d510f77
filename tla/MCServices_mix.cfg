\* A requirement that accepts two items, and a basket with one piece of each.
SPECIFICATION ServicesSpec
CONSTANTS
  Null = Null
  RestKeys = {k1}
  NoRestKey = NoRestKey
  Carts = {a}
  Empty = Empty
  MaxCheckouts = 1
  MaxShipments = 1
  Products = {p1}
  Unknown = Unknown
  Quantities = {0}
  Prices = {1}
  MaxId = 1
  MaxRows = 1
  MaxLines = 1
  cap1 = cap1
  cap2 = cap2
  cap3 = cap3
  Names = {}
  Platforms = {}
  Businesses = {}
  m1 = m1
  m2 = m2
  co1 = co1
  co2 = co2
  i1 = i1
  i2 = i2
  Merchants <- TwoMerchants
  Items <- TwoItems
  Checkouts = {co1, co2}
  MerchantOf <- OneEach
  Requirements <- SmallRequirements
  MaxQty = 1
  Claims = {sub, buyer}
  Revealed = {buyer}
  Lifetime = 0
  MaxSigned = 2
  MaxHours = 0
  Calls = {c1}
  TTL = 0
  MaxIds = 1
  MaxLosses = 0
  Hosts = {h}
  Allowed = {h}
  Contents = {x}
  Credentials = {q}
  Counting = {q}
  Challenges = {r1}
  Ceremonies = {d1}
  ChallengeTTL = 0
  MaxCounter = 1
INVARIANT OneItemServes
CHECK_DEADLOCK FALSE
