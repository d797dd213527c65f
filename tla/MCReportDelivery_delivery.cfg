CONSTANTS
  Deliveries <- TwoCycles
  MaxAttempts = 3
  MaxFaults = 1
SPECIFICATION FairSpec
INVARIANTS
  TypeOK
  MergedInPlace
PROPERTIES
  OverwriteHasACause
  EventuallyDelivered
CHECK_DEADLOCK FALSE
