SPECIFICATION Spec
CONSTANTS
  N = 2
  Deps <- PairDeps
  Refs <- PairRefs
  OnRetry <- PairOn
  OnStop <- PairOn
  Replica = {p1}
  SnapshotMayMiss = FALSE
  MaxRun = 1
  MaxTry = 2
  MaxInbox = 1
INVARIANT RecordFollowsTask
CHECK_DEADLOCK FALSE
