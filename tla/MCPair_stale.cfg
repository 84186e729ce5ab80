SPECIFICATION Spec
CONSTANTS
  N = 2
  Deps <- PairDeps
  Refs <- PairRefs
  OnRetry <- PairOn
  OnStop <- PairOn
  Replica = {p1, p2}
  SnapshotMayMiss = FALSE
  MaxRun = 1
  MaxTry = 2
  MaxInbox = 1
PROPERTIES
  TimeoutJustified
CHECK_DEADLOCK FALSE
