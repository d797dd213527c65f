CONSTANTS
  p1 = p1
  p2 = p2
  Ids = {i, j}
  NoPhysicalId = NoPhysicalId
  NoHistory = NoHistory
  ResourceSets <- Stacks
  UnitsPerCent = 4
  Threshold = 8
  TooLarge = {{j}}
  MaxOps = 3
SPECIFICATION Spec
INVARIANTS
  TypeOK
  EveryResourceOnce
  LedgerBalances
  DriftIsBounded
CHECK_DEADLOCK FALSE
