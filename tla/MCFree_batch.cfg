SPECIFICATION KeptSpec
CONSTANTS
  N = 2
  Deps <- FreeDeps
  Refs <- FreeRefs
  OnRetry <- FreeOn
  OnStop <- FreeOn
  Replica = {p1}
  SnapshotMayMiss = TRUE
  MaxRun = 1
  MaxTry = 2
  MaxInbox = 2
INVARIANTS
  EdgesSound
  OutcomeTrue
  HistoryAgrees
  SuccessIsReported
CHECK_DEADLOCK FALSE
