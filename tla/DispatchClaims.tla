--------------------------- MODULE DispatchClaims ---------------------------
(***************************************************************************)
(* The transactions that several replicas run under the task lock on the   *)
(* subtask rows of several tasks: claim_for_dispatch with its concurrency  *)
(* cap, the writes that settle a row and the reset for a retry.            *)
(*                                                                         *)
(* TaskCenter treats such a section as one step.  Here it is taken apart   *)
(* into the statements of its transaction, because the lock may expire     *)
(* under it and because the cap counts rows of other tasks, which the lock *)
(* does not cover.  The database is READ COMMITTED: a statement sees what  *)
(* is committed when it starts, and an UPDATE waits for the writer of its  *)
(* row and then looks at the row again.                                    *)
(***************************************************************************)
EXTENDS TaskLock, Integers, FiniteSets

CONSTANTS
    Row,            \* subtask rows that are ready to run
    TaskOf,         \* the task of a row
    Bucket,         \* task_catalog_code + step_code
    BucketOf,       \* the bucket a row is counted in
    Limit,          \* max_concurrency of a bucket; 0 or less means no limit
    MaxAttempt,     \* bound: attempts of every row
    NoWriter

ASSUME ReplicaAssumption == IsFiniteSet(Replica) /\ Replica # {}
ASSUME RowAssumption ==
    /\ IsFiniteSet(Row) /\ Row # {}
    /\ TaskOf \in [Row -> Task]
    /\ BucketOf \in [Row -> Bucket]
    /\ Limit \in [Bucket -> Int]
    /\ NoWriter \notin Replica
    /\ MaxAttempt \in [Row -> Nat \ {0}]

VARIABLES
    st,         \* committed subtasks.status: pending, running, ended
    ver,        \* committed subtasks.state_version
    attempt,    \* committed subtasks.current_attempt
    writer,     \* the replica whose open transaction has updated the row
    txn,        \* what every replica's transaction is about
    claims      \* history: claims of the row ever committed

vars == <<key, at, wants, token, tried, lost, lease,
          st, ver, attempt, writer, txn, claims>>
dbVars == <<st, ver, attempt, writer, claims>>

Job == {"claim", "settle", "retry"}

\* The status a job finds the row in (expect_statuses).
From(j) == CASE j = "claim" -> "pending" [] j = "settle" -> "running"
             [] j = "retry" -> "ended"

(***************************************************************************)
(* The statuses a job leaves the row in.  A claim whose runner is not      *)
(* registered fails the row instead (runner_unbound).                      *)
(***************************************************************************)
To(j) == CASE j = "claim" -> {"running", "ended"} [] j = "settle" -> {"ended"}
           [] j = "retry" -> {"pending"}

(***************************************************************************)
(* step: open (nothing read), read (the row was read and is eligible),     *)
(* free (the cap was found not reached), wrote (UPDATE hit the row, not    *)
(* committed), over (committed or rolled back).                            *)
(***************************************************************************)
Txn == [job : Job, row : Row, step : {"open", "read", "free", "wrote", "over"},
        seen : Nat, to : {"pending", "running", "ended"}]

Rest == [job |-> "claim", row |-> CHOOSE x \in Row : TRUE, step |-> "over",
         seen |-> 0, to |-> "pending"]

Running(b) == {x \in Row : BucketOf[x] = b /\ st[x] = "running"}

TypeOK ==
    /\ LockTypeOK
    /\ st \in [Row -> {"pending", "running", "ended"}]
    /\ ver \in [Row -> Nat]
    /\ attempt \in [Row -> Nat]
    /\ writer \in [Row -> Replica \cup {NoWriter}]
    /\ txn \in [Replica -> Txn]
    /\ claims \in [Row -> Nat]

Init ==
    /\ LockInit
    /\ st = [x \in Row |-> "pending"]
    /\ ver = [x \in Row |-> 0]
    /\ attempt = [x \in Row |-> 1]
    /\ writer = [x \in Row |-> NoWriter]
    /\ txn = [r \in Replica |-> Rest]
    /\ claims = [x \in Row |-> 0]

-----------------------------------------------------------------------------
\* A scan names a row, without the lock; the lock of its task is asked for.
Begin(r, j, x) ==
    /\ st[x] = From(j)
    /\ Ask(r, TaskOf[x])
    /\ txn' = [txn EXCEPT ![r] =
                 [job |-> j, row |-> x, step |-> "open", seen |-> 0,
                  to |-> From(j)]]
    /\ UNCHANGED dbVars

Enter(r) == Acquire(r) /\ UNCHANGED <<dbVars, txn>>

\* No lock: this row is left for the next round.
Wait(r) ==
    /\ Busy(r) \/ LoseReply(r)
    /\ txn' = IF at'[r] = "out" THEN [txn EXCEPT ![r] = Rest] ELSE txn
    /\ UNCHANGED dbVars

\* The row is read under the lock; not eligible: nothing to do.
Read(r) ==
    LET x == txn[r].row IN
    /\ at[r] = "inside" /\ txn[r].step = "open"
    /\ txn' = [txn EXCEPT ![r] =
                 IF st[x] = From(@.job)
                   THEN [@ EXCEPT !.seen = ver[x], !.step = "read"]
                   ELSE Rest]
    /\ UNCHANGED <<lockVars, dbVars>>

\* Mutant: one too many.
OverConcurrencyByOne(x) ==
    LET b == BucketOf[x] IN
    Limit[b] > 0 /\ Cardinality(Running(b)) > Limit[b]

\* _over_concurrency: count the running rows of the bucket.
OverConcurrency(x) ==
    LET b == BucketOf[x] IN
    Limit[b] > 0 /\ Cardinality(Running(b)) >= Limit[b]

\* Only a claim asks for a place under the cap.
Count(r) ==
    /\ txn[r].step = "read" /\ txn[r].job = "claim"
    /\ txn' = [txn EXCEPT ![r] = IF OverConcurrency(@.row) THEN Rest
                                ELSE [@ EXCEPT !.step = "free"]]
    /\ UNCHANGED <<lockVars, dbVars>>

\* Mutant: the UPDATE only names the row.
HitsRow(r) == TRUE

\* WHERE status IN expect_statuses AND state_version = expect_version
Hits(r) ==
    LET x == txn[r].row IN
    st[x] = From(txn[r].job) /\ ver[x] = txn[r].seen

(***************************************************************************)
(* transition_cas, claim_pending, reset_for_retry: the UPDATE waits while  *)
(* another transaction has written the row; 0 rows: give up.               *)
(***************************************************************************)
Update(r) ==
    LET x == txn[r].row IN
    /\ txn[r].step = IF txn[r].job = "claim" THEN "free" ELSE "read"
    /\ writer[x] = NoWriter
    /\ txn[r].job = "retry" => attempt[x] < MaxAttempt[x]
    /\ IF Hits(r)
         THEN /\ writer' = [writer EXCEPT ![x] = r]
              /\ \E s \in To(txn[r].job) :
                   txn' = [txn EXCEPT ![r].step = "wrote", ![r].to = s]
         ELSE /\ txn' = [txn EXCEPT ![r] = Rest]
              /\ writer' = writer
    /\ UNCHANGED <<lockVars, st, ver, attempt, claims>>

Commit(r) ==
    LET x == txn[r].row IN
    /\ txn[r].step = "wrote"
    /\ st' = [st EXCEPT ![x] = txn[r].to]
    /\ ver' = [ver EXCEPT ![x] = @ + 1]
    /\ attempt' = [attempt EXCEPT ![x] = IF txn[r].job = "retry" THEN @ + 1 ELSE @]
    /\ claims' = [claims EXCEPT ![x] = IF txn[r].to = "running" THEN @ + 1 ELSE @]
    /\ writer' = [writer EXCEPT ![x] = NoWriter]
    /\ txn' = [txn EXCEPT ![r] = Rest]
    /\ UNCHANGED lockVars

\* What a lost connection or an exception leaves: the rows as they were.
RolledBack(r) == [x \in Row |-> IF writer[x] = r THEN NoWriter ELSE writer[x]]

\* An exception inside the block: roll back, then the lock is released.
Fail(r) ==
    /\ at[r] = "inside" /\ txn[r].step # "over"
    /\ writer' = RolledBack(r)
    /\ txn' = [txn EXCEPT ![r] = Rest]
    /\ UNCHANGED <<lockVars, st, ver, attempt, claims>>

\* The transaction is over before the lock is released.
Leave(r) ==
    /\ txn[r].step = "over"
    /\ Release(r)
    /\ UNCHANGED <<dbVars, txn>>

\* The process dies and starts again.
Crash(r) ==
    /\ Die(r)
    /\ writer' = RolledBack(r)
    /\ txn' = [txn EXCEPT ![r] = Rest]
    /\ UNCHANGED <<st, ver, attempt, claims>>

RunOut(t) == Expire(t) /\ UNCHANGED <<dbVars, txn>>

Next ==
    \/ \E r \in Replica, j \in Job, x \in Row : Begin(r, j, x)
    \/ \E r \in Replica :
         \/ Enter(r) \/ Wait(r) \/ Read(r) \/ Count(r) \/ Update(r)
         \/ Commit(r) \/ Fail(r) \/ Leave(r) \/ Crash(r)
    \/ \E t \in Task : RunOut(t)

Spec == Init /\ [][Next]_vars

-----------------------------------------------------------------------------
(***************************************************************************)
(* The cap is soft, and this is how soft: at most |Replica| - 1 rows over  *)
(* the limit, however the counts of the replicas interleave and whatever   *)
(* leases expire (the warning in _over_concurrency's docstring).           *)
(***************************************************************************)
SoftCap ==
    \A b \in Bucket : Limit[b] > 0 =>
        Cardinality(Running(b)) <= Limit[b] + Cardinality(Replica) - 1

(***************************************************************************)
(* An attempt of a row is handed to a runner at most once, even when two   *)
(* replicas are in the section of its task at the same time: the           *)
(* state_version compare-and-set is the last line of defence.              *)
(***************************************************************************)
ClaimedOnce ==
    \A x \in Row : /\ claims[x] <= attempt[x]
                   /\ st[x] = "pending" => claims[x] < attempt[x]
=============================================================================
