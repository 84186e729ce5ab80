SPECIFICATION StopAndRerunSpec
CONSTANTS
  N = 2
  Deps <- PairDeps
  Refs <- PairRefs
  OnRetry <- PairOn
  OnStop <- PairOn
  Replica = {p1}
  SnapshotMayMiss = TRUE
  MaxRun = 2
  MaxTry = 1
  MaxInbox = 1
INVARIANT RecordEarned
PROPERTIES
  OldRunsFrozen
  OnlyRetryReopens
  ImplementsLedger
  TaskSettles
  LeftoversEnd
CHECK_DEADLOCK FALSE
