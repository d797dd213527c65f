CONSTANTS
  m1 = m1
  m2 = m2
  m3 = m3
  k1 = k1
  k2 = k2
  Msgs = {m1}
  Ignored = {}
  Keys = {k1}
  KeyOf <- OneEventTwice
  ChangeSetKeys = {}
  Workers = {w1, w2}
  Destinations = {sns}
  NoMsg = NoMsg
  LambdaTimeout = 1
  Lease = 2
  Visibility = 3
  BatchSize = 1
  MaxReceive = 2
  MaxFaults = 2
  StoreOutages = FALSE
  SqsDuplicates = TRUE
SYMMETRY WorkerSymmetry
SPECIFICATION Spec
INVARIANT NoSilentLoss
