CONSTANTS
  m1 = m1
  m2 = m2
  m3 = m3
  k1 = k1
  k2 = k2
  Msgs = {m1, m2, m3}
  Ignored = {}
  Keys = {k1, k2}
  KeyOf <- TwoEvents
  ChangeSetKeys = {k2}
  Workers = {w1, w2}
  Destinations = {sns}
  NoMsg = NoMsg
  LambdaTimeout = 1
  Lease = 2
  Visibility = 3
  BatchSize = 2
  MaxReceive = 2
  MaxFaults = 1
  StoreOutages = TRUE
  SqsDuplicates = FALSE
SYMMETRY WorkerSymmetry
SPECIFICATION Spec
INVARIANTS
  CompletedIsDelivered
  NoSilentLoss
