SPECIFICATION Spec
CONSTANTS
  Replica = {r1, r2}
  Task = {t1, t2}
  Token = {k1, k2, k3, k4}
  NoToken = NoToken
  Tries = 2
  RedisRetries = 2
  Row = {row1, row2, row3}
  TaskOf <- ClaimTaskOf
  Bucket = {bucket}
  BucketOf <- ClaimBucketOf
  Limit <- ClaimLimit
  MaxAttempt <- ClaimAttempts
  NoWriter = NoWriter
  row1 = row1
  row2 = row2
  row3 = row3
  t1 = t1
  t2 = t2
  bucket = bucket
SYMMETRY Symmetric
INVARIANTS
  TypeOK
  Exclusive
  SoftCap
  ClaimedOnce
CHECK_DEADLOCK FALSE
