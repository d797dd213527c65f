CONSTANTS
  m1 = m1
  m2 = m2
  m3 = m3
  k1 = k1
  k2 = k2
  Msgs = {m1, m2}
  Ignored = {}
  Keys = {k1}
  KeyOf <- OneEventTwice
  ChangeSetKeys = {}
  Workers = {w1, w2}
  Destinations = {sns, bus}
  NoMsg = NoMsg
  LambdaTimeout = 2
  Lease = 3
  Visibility = 4
  BatchSize = 2
  MaxReceive = 5
  MaxFaults = 2
  StoreOutages = FALSE
  SqsDuplicates = TRUE
SYMMETRY WorkerSymmetry
SPECIFICATION Spec
INVARIANTS
  TypeOK
  OneOwner
  LeaseCoversWork
  DuplicatesHaveACause
  DeadLettersHaveCauses
PROPERTY CompletedStays
