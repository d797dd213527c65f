CONSTANTS
  Workers = {w1, w2}
  Settings <- LongAndHard
SYMMETRY WorkerSymmetry
SPECIFICATION Spec
INVARIANTS
  TypeOK
  Converged
  CommittedWasDecided
  OwnSnapshotOnlyInReplays
  DeltasStartAtKnownStates
  BaselineUsedOnce
PROPERTIES
  RetiredStaysRetired
CHECK_DEADLOCK FALSE
