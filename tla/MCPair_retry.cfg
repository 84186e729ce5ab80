SPECIFICATION Spec
CONSTANTS
  N = 2
  Deps <- PairDeps
  Refs <- PairRefs
  OnRetry <- PairOn
  OnStop <- PairOn
  Replica = {p1}
  SnapshotMayMiss = TRUE
  MaxRun = 1
  MaxTry = 2
  MaxInbox = 1
INVARIANTS
  TypeOK
  SettledIffTerminal
  InputsFresh
  RecordEarned
  DeletedIdle
PROPERTIES
  ImplementsLedger
CHECK_DEADLOCK FALSE
