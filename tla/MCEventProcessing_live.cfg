CONSTANTS
  m1 = m1
  m2 = m2
  m3 = m3
  k1 = k1
  k2 = k2
  Msgs = {m1, m2, m3}
  Ignored = {m3}
  Keys = {k1, k2}
  KeyOf <- TwoEvents
  ChangeSetKeys = {}
  Workers = {w1, w2}
  Destinations = {sns}
  NoMsg = NoMsg
  LambdaTimeout = 1
  Lease = 2
  Visibility = 3
  BatchSize = 1
  MaxReceive = 5
  MaxFaults = 1
  StoreOutages = FALSE
  SqsDuplicates = FALSE
SPECIFICATION FairSpec
PROPERTY EventuallyHandled
