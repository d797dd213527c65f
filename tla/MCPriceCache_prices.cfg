CONSTANTS
  a1 = a1
  a2 = a2
  b1 = b1
  compute = compute
  storage = storage
  cheap = cheap
  dear = dear
  Syncs = {s1, s2, s3}
  Readers = {r1}
  Keys = {a1, a2, b1}
  Prices = {cheap, dear}
  Fetches = 2
  RulesOf <- TwoRules
  List <- ThreeDays
  MaxDay = 2
  NoPrice = NoPrice
  Unread = Unread
  Unasked = Unasked
  NoGeneration = NoGeneration
SYMMETRY Interchangeable
SPECIFICATION Spec
INVARIANTS
  TypeOK
  ActiveIsFaithful
PROPERTY ImplementsPriceBook
