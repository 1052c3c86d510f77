\* One service in each behaviour; times and counters as small as their edges allow.
SPECIFICATION ServicesSpec
CONSTANTS
  Null = Null
  RestKeys = {k1}
  NoRestKey = NoRestKey
  Carts = {a, b}
  Empty = Empty
  MaxCheckouts = 2
  MaxShipments = 1
  Products = {p1, p2}
  Unknown = Unknown
  Quantities = {0}
  Prices = {1, 2}
  MaxId = 1
  MaxRows = 2
  MaxLines = 2
  cap1 = cap1
  cap2 = cap2
  cap3 = cap3
  Names <- ThreeNames
  Platforms <- OneVersion
  Businesses <- SmallBusinesses
  m1 = m1
  m2 = m2
  co1 = co1
  co2 = co2
  i1 = i1
  i2 = i2
  Merchants <- TwoMerchants
  Items <- TwoItems
  Checkouts = {co1, co2}
  MerchantOf <- OneEach
  Requirements <- SmallRequirements
  MaxQty = 1
  Claims = {sub, buyer}
  Revealed = {buyer}
  Lifetime = 0
  MaxSigned = 3
  MaxHours = 1
  Calls = {c1, c2}
  TTL = 0
  MaxIds = 5
  MaxLosses = 1
  Hosts = {h, g}
  Allowed = {h}
  Contents = {x, y}
  Credentials = {q, r}
  Counting = {q}
  Challenges = {r1, r2}
  Ceremonies = {d1, d2, d3}
  ChallengeTTL = 0
  MaxCounter = 2
INVARIANTS
  FinalRepliesStay
  CartAddsUp
  IntersectionIsGreatest
  AcceptedIsAuthorized
  RefusalMeansExpired
  AssertionsSignOnce
PROPERTIES
  KeyRunsOnce
CHECK_DEADLOCK FALSE
