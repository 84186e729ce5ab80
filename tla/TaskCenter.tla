----------------------------- MODULE TaskCenter -----------------------------
(***************************************************************************)
(* The life of one task of the task center (capabilities/task_center):     *)
(* its runs, its subtask rows, the background loops of the replicas that   *)
(* dispatch, absorb reports, judge timeouts and settle, the users who      *)
(* stop, retry and delete, and the runner that does the work.              *)
(*                                                                         *)
(* Everything a service method does between taking the task lock and       *)
(* committing is one action: task_service.py commits before it releases    *)
(* the lock.  What the code does outside the lock (the outbound call of a  *)
(* dispatch, the scans that choose candidates, the clean-up call of a      *)
(* delete) is an action of its own, so everybody else can step in between. *)
(***************************************************************************)
EXTENDS Downstream

CONSTANTS
    Deps,       \* depends_on of every node in the published flow
    Refs,       \* nodes whose outputs a node's bind_inputs refer to
    OnRetry,    \* downstream_on_retry of every node
    OnStop,     \* downstream_on_stop of every node
    Replica,    \* replicas of the background scheduler
    SnapshotMayMiss,    \* the task's row may escape an update (see UpdateSnapshot)
    MaxRun,     \* bound: runs of the task (retry_task opens one)
    MaxTry,     \* bound: attempts of a subtask row within a run
    MaxInbox    \* bound: reports waiting in the inbox

ASSUME FlowAssumption ==        \* what flow_validator.py lets be published
    /\ Deps \in [Node -> SUBSET Node]
    /\ Acyclic(Deps)
    /\ Refs \in [Node -> SUBSET Node]
    /\ Acyclic(Refs)
    /\ OnRetry \in [Node -> BOOLEAN]
    /\ OnStop \in [Node -> BOOLEAN]
    /\ \A n \in Node : \A l, m \in Deps[n] :
           OnRetry[l] = OnRetry[m] /\ OnStop[l] = OnStop[m]

ASSUME MissAssumption == SnapshotMayMiss \in BOOLEAN

ASSUME BoundAssumption ==
    MaxRun \in Nat \ {0} /\ MaxTry \in Nat \ {0} /\ MaxInbox \in Nat

Run == 1..MaxRun
Try == 1..MaxTry

\* An execution id names one attempt of one row: uuid4 never repeats.
Execution == Run \X Node \X Try

(***************************************************************************)
(* Status values (models/enums.py).  "none" stands for a row that does not *)
(* exist yet.                                                              *)
(***************************************************************************)
TaskActive       == {"pending", "running"}
TaskTerminal     == {"completed", "failed", "stopped"}
SubtaskTerminal  == {"success", "failed", "timeout", "stopped"}
SubtaskStatus    == {"pending", "running"} \cup SubtaskTerminal
SubtaskFailed    == {"failed", "timeout"}

(***************************************************************************)
(* DispatchDisposition: ACCEPTED, REJECTED, DELIVERY_UNKNOWN; "dead" is    *)
(* DELIVERY_UNKNOWN with dead_after_retry.                                 *)
(***************************************************************************)
Verdict == {"accepted", "rejected", "dead", "unknown"}

\* RUNTIME_REPORTABLE_STATUSES
Final == {"success", "failed"}

Idle == [pc |-> "idle"]
Job  == {Idle}
          \cup [pc : {"outbound", "patrol"}, exec : Execution]
          \cup [pc : {"finalize"}, exec : Execution, verdict : Verdict]

NoRow == <<>>

VARIABLES
    status,     \* tasks.status
    cur,        \* tasks.current_attempt
    deleted,    \* tasks.is_deleted (the subtask rows are marked with it)
    attempt,    \* task_attempts.status of every run
    st,         \* subtasks.status of every row
    try,        \* subtasks.current_attempt
    exec,       \* subtasks.execution_id: the attempt it names, 0 for NULL
    due,        \* started_at + timeout_seconds has passed
    deps,       \* subtasks.depends_on
    nxt,        \* subtasks.next_steps
    inp,        \* subtasks.inputs: the attempt whose outputs were bound
    hist,       \* subtask_attempts.status of every attempt of every row
    inbox,      \* subtask_reports not yet consumed
    runner,     \* what the runner has said of every execution
    job,        \* what every replica is in the middle of
    stuck,      \* the stuck row a replica has scanned and not yet judged
    removing    \* a delete_task between its two checks

taskVars  == <<status, cur, deleted, attempt>>
edgeVars  == <<deps, nxt>>
rowVars   == <<st, try, exec, due, inp, hist>>
procVars  == <<job, stuck>>
vars == <<status, cur, deleted, attempt, st, try, exec, due, deps, nxt, inp,
          hist, inbox, runner, job, stuck, removing>>

-----------------------------------------------------------------------------
(***************************************************************************)
(* Predicates and values the service methods share.                        *)
(***************************************************************************)

\* _deps_satisfied: every upstream of n is success (s: statuses, d: deps).
DepsSatisfied(s, d, n) == \A m \in d[n] : s[m] = "success"

\* _is_runnable_pending
RunnablePending(s, d, n) == s[n] = "pending" /\ DepsSatisfied(s, d, n)

\* Mutant: what can still be dispatched is overlooked.
RunSettledIfNothingRuns(s, d) == \A n \in Node : s[n] # "running"

\* _run_settled: nothing is running and nothing can be dispatched.
RunSettled(s, d) ==
    \A n \in Node : s[n] # "running" /\ ~RunnablePending(s, d, n)

\* Mutant: the subtask enumeration is used for the task.
OutcomeAsSubtask(s) ==
    IF \E n \in Node : s[n] \in SubtaskFailed THEN "failed"
    ELSE IF \E n \in Node : s[n] = "stopped" THEN "stopped"
    ELSE "success"

\* Mutant: a timeout does not count as a failure.
OutcomeWithoutTimeout(s) ==
    IF \E n \in Node : s[n] = "failed" THEN "failed"
    ELSE IF \E n \in Node : s[n] = "stopped" THEN "stopped"
    ELSE "completed"

\* The outcome _aggregate gives a settled run.
Outcome(s) ==
    IF \E n \in Node : s[n] \in SubtaskFailed THEN "failed"
    ELSE IF \E n \in Node : s[n] = "stopped" THEN "stopped"
    ELSE "completed"

\* The outputs column holds something only once the row is success.
Output(s, k, n) == IF s[n] = "success" THEN k[n] ELSE 0

\* _fill_inputs: only upstreams in depends_on give a value.
FillInputs(s, d, k, n) ==
    [m \in Node |-> IF m \in Refs[n] \cap d[n] THEN Output(s, k, m) ELSE 0]

NoInputs == [m \in Node |-> 0]

\* Mutant: the report is matched to the row, not to the attempt.
HoldsAnyAttempt(r, n, k) == st[r][n] = "running"

\* Mutant: a row that is terminal already is not left alone.
HoldsCredential(r, n, k) == exec[r][n] = k

\* Row n of run r holds the credential of attempt k and still runs.
Holds(r, n, k) == exec[r][n] = k /\ st[r][n] = "running"

\* Between two passes of the loop / in the dispatch pass.
Resting(p) == job[p] = Idle /\ stuck[p] = NoRow

\* has_pending_before: a report that arrived before the deadline waits.
HasPendingBefore(e) == [exec |-> e, early |-> TRUE] \in inbox

\* A report is early when it is received before the deadline of its row.
Report(e) ==
    [exec  |-> e,
     early |-> exec[e[1]][e[2]] = e[3] /\ ~due[e[1]][e[2]]]

-----------------------------------------------------------------------------
(***************************************************************************)
(* The parts of an action that close rows and settle the run.              *)
(***************************************************************************)

\* update_snapshot_cas, and mark_running of an active task: a compare-and-set
\* on state_version.  It finds nothing when the lease of the task lock ran out
\* and another holder wrote the row; the rest of the transaction is committed.
UpdateSnapshot(to) ==
    status' = to \/ (SnapshotMayMiss /\ UNCHANGED status)

\* Mutant: a run that nothing was dispatched of is not closed.
FinishStarted(r, to) ==
    attempt' = IF attempt[r] = "running"
               THEN [attempt EXCEPT ![r] = to] ELSE attempt

\* finish_attempt_cas: the record of run r is closed unless it is already.
FinishAttempt(r, to) ==
    attempt' = IF attempt[r] \in TaskActive
               THEN [attempt EXCEPT ![r] = to] ELSE attempt

\* Mutant: the record of a run that ended well is not reopened.
ReopenAttemptFailed(r) ==
    attempt' = IF attempt[r] = "failed"
               THEN [attempt EXCEPT ![r] = "running"] ELSE attempt

\* reopen_for_subtask_retry: only a completed or failed record is reopened.
ReopenAttempt(r) ==
    attempt' = IF attempt[r] \in {"completed", "failed"}
               THEN [attempt EXCEPT ![r] = "running"] ELSE attempt

\* _aggregate(ctx) of run r, whose rows are by now s.
Aggregate(r, s) ==
    IF r = cur /\ status \in TaskActive /\ RunSettled(s, deps[r])
    THEN FinishAttempt(r, Outcome(s)) /\ UpdateSnapshot(Outcome(s))
    ELSE UNCHANGED <<status, attempt>>

\* Mutant: only a running attempt is closed, whatever the caller asks for.
SyncRunningOnly(h, k, from, to) ==
    IF h[k] = "running" \/ to = "running" THEN [h EXCEPT ![k] = to] ELSE h

\* _sync_attempt_row: set_status_cas on the history row of attempt k.
SyncAttemptRow(h, k, from, to) ==
    IF h[k] \in from THEN [h EXCEPT ![k] = to] ELSE h

\* A row goes to a terminal status and the run is aggregated.
CloseRow(r, n, from, to) ==
    LET s == [st[r] EXCEPT ![n] = to]
    IN  /\ st'   = [st EXCEPT ![r] = s]
        /\ hist' = [hist EXCEPT ![r][n] = SyncAttemptRow(@, try[r][n], from, to)]
        /\ Aggregate(r, s)

\* Mutant: the run is not aggregated.
FailWithoutAggregate(r, n) ==
    /\ st'   = [st EXCEPT ![r][n] = "failed"]
    /\ hist' = [hist EXCEPT ![r][n][try[r][n]] = "failed"]
    /\ UNCHANGED <<status, attempt>>

\* _fail_subtask, by way of _close_subtask_row.
FailSubtask(r, n) == CloseRow(r, n, {"pending", "running"}, "failed")

\* Several pending rows are stopped (_close_subtask_row on each of them).
StopRows(r, targets) ==
    /\ st'   = [st EXCEPT ![r] =
                   [n \in Node |-> IF n \in targets THEN "stopped" ELSE st[r][n]]]
    /\ hist' = [hist EXCEPT ![r] =
                   [n \in Node |->
                       IF n \in targets
                       THEN SyncAttemptRow(hist[r][n], try[r][n],
                                           {"pending", "running"}, "stopped")
                       ELSE hist[r][n]]]

-----------------------------------------------------------------------------
(***************************************************************************)
(* fire: the task with its first run.                                      *)
(***************************************************************************)
NextOf == [m \in Node |-> {n \in Node : m \in Deps[n]}]   \* dual of Deps (N4)

Init ==
    /\ status = "pending" /\ cur = 1 /\ deleted = FALSE
    /\ attempt = [r \in Run |-> IF r = 1 THEN "pending" ELSE "none"]
    /\ st   = [r \in Run |-> [n \in Node |-> IF r = 1 THEN "pending" ELSE "none"]]
    /\ try  = [r \in Run |-> [n \in Node |-> 1]]
    /\ exec = [r \in Run |-> [n \in Node |-> 0]]
    /\ due  = [r \in Run |-> [n \in Node |-> FALSE]]
    /\ deps = [r \in Run |-> Deps]
    /\ nxt  = [r \in Run |-> NextOf]
    /\ inp  = [r \in Run |-> [n \in Node |-> NoInputs]]
    /\ hist = [r \in Run |-> [n \in Node |-> [k \in Try |->
                  IF r = 1 /\ k = 1 THEN "pending" ELSE "none"]]]
    /\ inbox = {}
    /\ runner = [e \in Execution |-> "none"]
    /\ job = [p \in Replica |-> Idle]
    /\ stuck = [p \in Replica |-> NoRow]
    /\ removing = FALSE

-----------------------------------------------------------------------------
(***************************************************************************)
(* Dispatch pass: claim under the lock, call the runner without it, then   *)
(* finalize under it again.                                                *)
(***************************************************************************)
Claimable(n) ==
    ~deleted /\ RunnablePending(st[cur], deps[cur], n)

\* claim_for_dispatch: pending -> running with a fresh execution id.
ClaimForDispatch(p, n) ==
    /\ job[p] = Idle
    /\ Claimable(n)
    /\ st'   = [st EXCEPT ![cur][n] = "running"]
    /\ exec' = [exec EXCEPT ![cur][n] = try[cur][n]]
    /\ due'  = [due EXCEPT ![cur][n] = FALSE]
    /\ hist' = [hist EXCEPT ![cur][n] =
                   SyncAttemptRow(@, try[cur][n], {"pending"}, "running")]
    /\ job'  = [job EXCEPT ![p] = [pc |-> "outbound",
                                   exec |-> <<cur, n, try[cur][n]>>]]
    /\ UNCHANGED <<taskVars, edgeVars, try, inp, inbox, runner, stuck, removing>>

\* claim_for_dispatch when the step's runner is not registered.
ClaimUnbound(p, n) ==
    /\ job[p] = Idle
    /\ Claimable(n)
    /\ FailSubtask(cur, n)
    /\ UNCHANGED <<cur, deleted, edgeVars, try, exec, due, inp, inbox, runner,
                   procVars, removing>>

\* _dispatch_with_retry: the call, its resends and what is known afterwards.
\* Unless it was accepted, the runner may or may not have got the work.
Dispatch(p, v) ==
    /\ job[p].pc = "outbound"
    /\ job' = [job EXCEPT ![p] = [pc |-> "finalize", exec |-> job[p].exec,
                                  verdict |-> v]]
    /\ \/ runner' = [runner EXCEPT ![job[p].exec] = "busy"]
       \/ v # "accepted" /\ UNCHANGED runner
    /\ UNCHANGED <<taskVars, edgeVars, rowVars, inbox, stuck, removing>>

\* Mutant: the task is set running whatever its status is.
MarkRunStartedAnyway(r) ==
    IF r = cur
    THEN /\ attempt' = IF attempt[r] = "pending"
                       THEN [attempt EXCEPT ![r] = "running"] ELSE attempt
         /\ status'  = "running"
    ELSE UNCHANGED <<status, attempt>>

\* _mark_run_started
MarkRunStarted(r) ==
    IF r = cur
    THEN /\ attempt' = IF attempt[r] = "pending"
                       THEN [attempt EXCEPT ![r] = "running"] ELSE attempt
         /\ IF status \in TaskActive THEN UpdateSnapshot("running") ELSE UNCHANGED status
    ELSE UNCHANGED <<status, attempt>>

\* finalize_dispatch, and _finalize_one.  A row that is no longer the one
\* this dispatch claimed is left alone.
FinalizeDispatch(p) ==
    /\ job[p].pc = "finalize"
    /\ LET r == job[p].exec[1]  n == job[p].exec[2]  v == job[p].verdict
       IN  IF deleted \/ ~Holds(r, n, job[p].exec[3]) \/ v = "unknown"
           THEN UNCHANGED <<status, attempt, st, hist>>
           ELSE IF v = "accepted"
           THEN MarkRunStarted(r) /\ UNCHANGED <<st, hist>>
           ELSE FailSubtask(r, n)
    /\ job' = [job EXCEPT ![p] = Idle]
    /\ UNCHANGED <<cur, deleted, edgeVars, try, exec, due, inp, inbox, runner,
                   stuck, removing>>

\* The replica dies, or _finalize_one cannot get the lock: what it was in
\* the middle of is forgotten.
Forget(p) ==
    /\ ~Resting(p)
    /\ job'   = [job EXCEPT ![p] = Idle]
    /\ stuck' = [stuck EXCEPT ![p] = NoRow]
    /\ UNCHANGED <<taskVars, edgeVars, rowVars, inbox, runner, removing>>

-----------------------------------------------------------------------------
(***************************************************************************)
(* The runner and its reports.                                             *)
(***************************************************************************)
\* The runner says v of execution e.  It must have got the work; once it has
\* given a final answer it keeps to it.
Answers(e, v) ==
    /\ runner[e] \in {"busy", v}
    /\ runner' = [runner EXCEPT ![e] = v]

\* A report goes into the inbox (SubtaskReportRepository.enqueue).
Enqueue(e) ==
    /\ Cardinality(inbox) < MaxInbox
    /\ inbox' = inbox \cup {Report(e)}

\* report_status: the runner reports, possibly late and more than once.
ReportStatus(e, v) ==
    /\ Answers(e, v) /\ Enqueue(e)
    /\ UNCHANGED <<taskVars, edgeVars, rowVars, procVars, removing>>

\* _query_pass / _query_one: a silent running row of an active task is asked
\* about and the runner's final answer queued like a report.
QueryOne(p, r, n, v) ==
    /\ Resting(p)
    /\ ~deleted /\ status \in TaskActive
    /\ st[r][n] = "running"
    /\ Answers(<<r, n, exec[r][n]>>, v) /\ Enqueue(<<r, n, exec[r][n]>>)
    /\ UNCHANGED <<taskVars, edgeVars, rowVars, procVars, removing>>

\* Mutant: inputs that were bound once are not bound again.
FillDownstreamOnce(r, n, s) ==
    [inp EXCEPT ![r] =
        [m \in Node |->
            IF /\ r = cur
               /\ m \in DownstreamClosure(nxt[r], n)
               /\ RunnablePending(s, deps[r], m)
               /\ inp[r][m] = NoInputs
            THEN FillInputs(s, deps[r], try[r], m)
            ELSE inp[r][m]]]

\* _fill_downstream: the pending downstreams that became ready.
FillDownstream(r, n, s) ==
    [inp EXCEPT ![r] =
        [m \in Node |->
            IF /\ r = cur
               /\ m \in DownstreamClosure(nxt[r], n)
               /\ RunnablePending(s, deps[r], m)
            THEN FillInputs(s, deps[r], try[r], m)
            ELSE inp[r][m]]]

\* _report_one / absorb_report / _absorb / _advance: a report whose
\* credential is no longer on a running row is only taken off the queue.
AbsorbReport(p, m) ==
    /\ Resting(p)
    /\ m \in inbox
    /\ inbox' = inbox \ {m}
    /\ LET r == m.exec[1]  n == m.exec[2]  v == runner[m.exec]
       IN  IF deleted \/ ~Holds(r, n, m.exec[3])
           THEN UNCHANGED <<status, attempt, st, hist, inp>>
           ELSE /\ CloseRow(r, n, {"running"}, v)
                /\ inp' = IF v = "success"
                          THEN FillDownstream(r, n, [st[r] EXCEPT ![n] = v])
                          ELSE inp
    /\ UNCHANGED <<cur, deleted, edgeVars, try, exec, due, runner, procVars,
                   removing>>

\* mark_dead_lettered: absorbing failed too often, or for too long.
DeadLetter(p, m) ==
    /\ Resting(p)
    /\ m \in inbox
    /\ inbox' = inbox \ {m}
    /\ UNCHANGED <<taskVars, edgeVars, rowVars, runner, procVars, removing>>

-----------------------------------------------------------------------------
(***************************************************************************)
(* Patrol: rows past their deadline, and ready rows nobody dispatched.     *)
(***************************************************************************)
\* The deadline of a running row passes.
DeadlinePasses(r, n) ==
    /\ st[r][n] = "running" /\ ~due[r][n]
    /\ due' = [due EXCEPT ![r][n] = TRUE]
    /\ UNCHANGED <<taskVars, edgeVars, st, try, exec, inp, hist, inbox, runner,
                   procVars, removing>>

\* Mutant: only rows of the current run are looked at.
PatrolScanCurrentRun(p, r, n) ==
    /\ Resting(p)
    /\ r = cur
    /\ ~deleted /\ st[r][n] = "running" /\ due[r][n]
    /\ ~HasPendingBefore(<<r, n, exec[r][n]>>)
    /\ job' = [job EXCEPT ![p] = [pc |-> "patrol", exec |-> <<r, n, exec[r][n]>>]]
    /\ UNCHANGED <<taskVars, edgeVars, rowVars, inbox, runner, stuck, removing>>

\* list_timed_out_for_patrol, in any run of the task.
PatrolScan(p, r, n) ==
    /\ Resting(p)
    /\ ~deleted /\ st[r][n] = "running" /\ due[r][n]
    /\ ~HasPendingBefore(<<r, n, exec[r][n]>>)
    /\ job' = [job EXCEPT ![p] = [pc |-> "patrol", exec |-> <<r, n, exec[r][n]>>]]
    /\ UNCHANGED <<taskVars, edgeVars, rowVars, inbox, runner, stuck, removing>>

\* _patrol_pass asks the runner first; a final answer is queued and the row
\* is not judged in this round.
PatrolQuery(p, v) ==
    /\ job[p].pc = "patrol"
    /\ Answers(job[p].exec, v) /\ Enqueue(job[p].exec)
    /\ job' = [job EXCEPT ![p] = Idle]
    /\ UNCHANGED <<taskVars, edgeVars, rowVars, stuck, removing>>

\* _timeout_one / handle_timeout: the row is re-read under the lock; it must
\* run and no early report of its present attempt may be waiting.
HandleTimeout(p) ==
    /\ job[p].pc = "patrol"
    /\ LET r == job[p].exec[1]  n == job[p].exec[2]
       IN  IF \/ deleted \/ st[r][n] # "running"
              \/ HasPendingBefore(<<r, n, exec[r][n]>>)
           THEN UNCHANGED <<status, attempt, st, hist>>
           ELSE CloseRow(r, n, {"running"}, "timeout")
    /\ job' = [job EXCEPT ![p] = Idle]
    /\ UNCHANGED <<cur, deleted, edgeVars, try, exec, due, inp, inbox, runner,
                   stuck, removing>>

\* list_stuck_pending, read at the start of the dispatch pass.
StuckScan(p, n) ==
    /\ Resting(p)
    /\ ~deleted /\ status \in TaskActive
    /\ RunnablePending(st[cur], deps[cur], n)
    /\ stuck' = [stuck EXCEPT ![p] = <<cur, n>>]
    /\ UNCHANGED <<taskVars, edgeVars, rowVars, inbox, runner, job, removing>>

\* _stuck_one / handle_stuck_pending, after the dispatches of the pass.
HandleStuckPending(p) ==
    /\ job[p] = Idle /\ stuck[p] # NoRow
    /\ LET r == stuck[p][1]  n == stuck[p][2]
       IN  IF deleted \/ r # cur \/ st[r][n] # "pending"
           THEN UNCHANGED <<status, attempt, st, hist>>
           ELSE CloseRow(r, n, {"pending", "running"}, "timeout")
    /\ stuck' = [stuck EXCEPT ![p] = NoRow]
    /\ UNCHANGED <<cur, deleted, edgeVars, try, exec, due, inp, inbox, runner,
                   job, removing>>

\* list_tasks_needing_settle: the run was closed and the task was not.
NeedsSettle ==
    /\ ~deleted /\ status \in TaskActive
    /\ attempt[cur] \in TaskTerminal
    /\ \A n \in Node : st[cur][n] # "running"

\* _settle_pass / _settle_one / settle_stale_task
SettleStaleTask(p) ==
    /\ Resting(p)
    /\ NeedsSettle
    /\ Aggregate(cur, st[cur])
    /\ UNCHANGED <<cur, deleted, edgeVars, rowVars, inbox, runner, procVars,
                   removing>>

-----------------------------------------------------------------------------
(***************************************************************************)
(* Users.  A call that is refused, or recognised as a resend, changes      *)
(* nothing and is not an action.                                           *)
(***************************************************************************)
PendingNodes(r) == {n \in Node : st[r][n] = "pending"}

\* stop_task / _do_stop_task / _stop_targets / _settle_stopped
StopTask ==
    /\ ~deleted /\ status \in TaskActive
    /\ \/ PendingNodes(cur) # {}
       \/ status = "pending" /\ \A n \in Node : st[cur][n] # "running"
    /\ StopRows(cur, PendingNodes(cur))
    /\ FinishAttempt(cur, "stopped") /\ UpdateSnapshot("stopped")
    /\ UNCHANGED <<cur, deleted, edgeVars, try, exec, due, inp, inbox, runner,
                   procVars, removing>>

\* stop_subtask / _do_stop_subtask / _stop_cascade_targets
StopSubtask(n) ==
    /\ ~deleted /\ status \in TaskActive
    /\ st[cur][n] = "pending"
    /\ LET targets == Elements(Chain(deps[cur], OnStop, n)) \cap PendingNodes(cur)
       IN  /\ StopRows(cur, targets)
           /\ Aggregate(cur, st'[cur])
    /\ UNCHANGED <<cur, deleted, edgeVars, try, exec, due, inp, inbox, runner,
                   procVars, removing>>

\* retry_task / _do_retry_task / _build_context: a new run, all rows fresh.
RetryTask ==
    /\ ~deleted /\ status \in TaskTerminal
    /\ cur < MaxRun
    /\ cur' = cur + 1
    /\ status' = "pending"
    /\ attempt' = [attempt EXCEPT ![cur + 1] = "pending"]
    /\ st'   = [st EXCEPT ![cur + 1] = [n \in Node |-> "pending"]]
    /\ hist' = [hist EXCEPT ![cur + 1] =
                   [n \in Node |-> [hist[cur + 1][n] EXCEPT ![1] = "pending"]]]
    /\ UNCHANGED <<deleted, edgeVars, try, exec, due, inp, inbox, runner,
                   procVars, removing>>

\* _require_batch_node_ids: a list that is not empty and names no node twice.
Batches ==
    {s \in UNION {[1..k -> Node] : k \in 1..N} :
        \A i, j \in DOMAIN s : s[i] = s[j] => i = j}

\* The dependencies with "each waits for the one before it" added.
AddedDeps(s, d) ==
    [n \in Node |-> d[n] \cup {s[i] : i \in {j \in DOMAIN s :
                                  j + 1 \in DOMAIN s /\ s[j + 1] = n}}]

\* Mutant: the order is written into depends_on only.
AddedNextForgotten(s, x) == x

\* The same edges seen from upstream, in next_steps.
AddedNext(s, x) ==
    [n \in Node |-> x[n] \cup {s[i] : i \in {j \in DOMAIN s :
                                  j > 1 /\ s[j - 1] = n}}]

\* The checks of _do_retry_subtasks on the rows of the list.
BatchAllowed(s) ==
    /\ s \in Batches
    /\ \A n \in Elements(s) :
           /\ st[cur][n] \in SubtaskTerminal
           /\ \A m \in deps[cur][n] \ Elements(s) : st[cur][m] = "success"
    /\ Acyclic(AddedDeps(s, deps[cur]))

\* _do_retry_subtasks: task and run reopened, the rows reset for one more
\* attempt with the order written into their edges, inputs of the ready ones
\* filled, a history row opened for each.
RetryRows(s) ==
    /\ ~deleted /\ status \in TaskTerminal
    /\ BatchAllowed(s)
    /\ \A n \in Elements(s) : try[cur][n] < MaxTry
    /\ status' = "running" /\ ReopenAttempt(cur)
    /\ LET B   == Elements(s)
           d   == AddedDeps(s, deps[cur])
           row == [n \in Node |-> IF n \in B THEN "pending" ELSE st[cur][n]]
           k   == [n \in Node |-> IF n \in B THEN try[cur][n] + 1 ELSE try[cur][n]]
       IN  /\ deps' = [deps EXCEPT ![cur] = d]
           /\ nxt'  = [nxt EXCEPT ![cur] = AddedNext(s, nxt[cur])]
           /\ st'   = [st EXCEPT ![cur] = row]
           /\ try'  = [try EXCEPT ![cur] = k]
           /\ exec' = [exec EXCEPT ![cur] =
                          [n \in Node |-> IF n \in B THEN 0 ELSE exec[cur][n]]]
           /\ due'  = [due EXCEPT ![cur] =
                          [n \in Node |-> IF n \in B THEN FALSE ELSE due[cur][n]]]
           /\ inp'  = [inp EXCEPT ![cur] =
                          [n \in Node |-> IF n \in B /\ DepsSatisfied(row, d, n)
                                          THEN FillInputs(row, d, k, n)
                                          ELSE inp[cur][n]]]
           /\ hist' = [hist EXCEPT ![cur] =
                          [n \in Node |-> IF n \in B
                                          THEN [hist[cur][n] EXCEPT ![k[n]] = "pending"]
                                          ELSE hist[cur][n]]]
    /\ UNCHANGED <<cur, deleted, inbox, runner, procVars, removing>>

\* retry_subtasks: the list is the caller's.
RetrySubtasks(s) == RetryRows(s)

\* retry_subtask / _do_retry_subtask: the list is the node and what follows it.
RetrySubtask(n) ==
    /\ st[cur][n] \in SubtaskTerminal
    /\ RetryRows(Chain(deps[cur], OnRetry, n))

\* _require_deletable: over the rows of every run.
Deletable ==
    /\ \A r \in Run, n \in Node : st[r][n] # "running"
    /\ \/ status \in TaskTerminal
       \/ \A r \in Run, n \in Node : st[r][n] # "pending"

\* delete_task up to the clean-up call to the runners, made without the lock.
DeleteBegin ==
    /\ ~removing /\ ~deleted /\ Deletable
    /\ removing' = TRUE
    /\ UNCHANGED <<taskVars, edgeVars, rowVars, inbox, runner, procVars>>

\* The runner did not clean up, or the second check refuses.
DeleteAbort ==
    /\ removing
    /\ removing' = FALSE
    /\ UNCHANGED <<taskVars, edgeVars, rowVars, inbox, runner, procVars>>

\* Mutant: only the state_version read under the lock is compared.
DeleteCommitUnchecked ==
    /\ removing /\ ~deleted
    /\ deleted' = TRUE
    /\ removing' = FALSE
    /\ UNCHANGED <<status, cur, attempt, edgeVars, rowVars, inbox, runner, procVars>>

\* delete_task under the lock: checked again, then the task and all its rows
\* are marked.
DeleteCommit ==
    /\ removing /\ ~deleted /\ Deletable
    /\ deleted' = TRUE
    /\ removing' = FALSE
    /\ UNCHANGED <<status, cur, attempt, edgeVars, rowVars, inbox, runner, procVars>>

-----------------------------------------------------------------------------
Scheduler(p) ==
    \/ \E n \in Node : ClaimForDispatch(p, n)
    \/ \E n \in Node : ClaimUnbound(p, n)
    \/ \E v \in Verdict : Dispatch(p, v)
    \/ FinalizeDispatch(p)
    \/ Forget(p)
    \/ \E r \in Run, n \in Node, v \in Final : QueryOne(p, r, n, v)
    \/ \E m \in inbox : AbsorbReport(p, m)
    \/ \E m \in inbox : DeadLetter(p, m)
    \/ \E r \in Run, n \in Node : PatrolScan(p, r, n)
    \/ \E v \in Final : PatrolQuery(p, v)
    \/ HandleTimeout(p)
    \/ \E n \in Node : StuckScan(p, n)
    \/ HandleStuckPending(p)
    \/ SettleStaleTask(p)

Runner == \E e \in Execution, v \in Final : ReportStatus(e, v)

Clock == \E r \in Run, n \in Node : DeadlinePasses(r, n)

User ==
    \/ StopTask
    \/ \E n \in Node : StopSubtask(n)
    \/ RetryTask
    \/ \E n \in Node : RetrySubtask(n)
    \/ \E s \in Batches : RetrySubtasks(s)
    \/ DeleteBegin
    \/ DeleteAbort
    \/ DeleteCommit

Next == (\E p \in Replica : Scheduler(p)) \/ Runner \/ Clock \/ User

Spec == Init /\ [][Next]_vars

-----------------------------------------------------------------------------
(***************************************************************************)
(* Fairness.  A round of _loop runs every pass, and the loop never dies,   *)
(* so a pass that has a candidate in infinitely many rounds handles it:    *)
(* strong fairness of the scans, of absorbing, of judging what was scanned *)
(* (a replica does not die at that point every time) and of settling (the  *)
(* lease does not run out at that point every time).  An outbound call     *)
(* returns and the replica goes on: weak fairness.  Time passes.  Nothing  *)
(* is assumed of ClaimForDispatch (the concurrency cap may refuse it for   *)
(* ever), of the runner, or of the users.                                  *)
(***************************************************************************)
Scan ==
    \E p \in Replica : \/ \E r \in Run, n \in Node : PatrolScan(p, r, n)
                       \/ \E n \in Node : StuckScan(p, n)

Judge ==
    \E p \in Replica : \/ \E v \in Final : PatrolQuery(p, v)
                       \/ HandleTimeout(p)
                       \/ HandleStuckPending(p)

\* A settle pass whose update of the task does not miss.
Settle == \E p \in Replica : SettleStaleTask(p) /\ status' \in TaskTerminal

LoopFairness ==
    /\ WF_vars(Clock)
    /\ \A p \in Replica : WF_vars((\E v \in Verdict : Dispatch(p, v)) \/ FinalizeDispatch(p))
    /\ SF_vars(Scan)
    /\ SF_vars(Judge)
    /\ SF_vars(Settle)

\* A report pass that gets to a report with a valid credential.
AbsorbHeld ==
    \E p \in Replica : \E m \in inbox :
        Holds(m.exec[1], m.exec[2], m.exec[3]) /\ AbsorbReport(p, m)

FairSpec == Spec /\ LoopFairness /\ SF_vars(AbsorbHeld)

-----------------------------------------------------------------------------
(***************************************************************************)
(* Type invariant.                                                         *)
(***************************************************************************)
\* Every column holds a value of its enumeration (models/enums.py).
TypeOK ==
    /\ status \in TaskActive \cup TaskTerminal
    /\ cur \in Run
    /\ deleted \in BOOLEAN
    /\ attempt \in [Run -> {"none"} \cup TaskActive \cup TaskTerminal]
    /\ st   \in [Run -> [Node -> {"none"} \cup SubtaskStatus]]
    /\ try  \in [Run -> [Node -> Try]]
    /\ exec \in [Run -> [Node -> {0} \cup Try]]
    /\ due  \in [Run -> [Node -> BOOLEAN]]
    /\ deps \in [Run -> [Node -> SUBSET Node]]
    /\ nxt  \in [Run -> [Node -> SUBSET Node]]
    /\ inp  \in [Run -> [Node -> [Node -> {0} \cup Try]]]
    /\ hist \in [Run -> [Node -> [Try -> {"none"} \cup SubtaskStatus]]]
    /\ inbox \in SUBSET [exec : Execution, early : BOOLEAN]
    /\ runner \in [Execution -> {"none", "busy", "success", "failed"}]
    /\ job \in [Replica -> Job]
    /\ stuck \in [Replica -> {NoRow} \cup (Run \X Node)]
    /\ removing \in BOOLEAN

-----------------------------------------------------------------------------
(***************************************************************************)
(* Safety.                                                                 *)
(***************************************************************************)
\* An active task always has a row that runs or can be dispatched, so that
\* something will come to settle it, or else its run is closed, so that the
\* settle pass will find it; and once a task is terminal nothing of its run
\* can be dispatched any more.  claim_for_dispatch relies on it: it does not
\* look at the task's status under the lock.
SettledIffTerminal ==
    IF status \in TaskActive
    THEN RunSettled(st[cur], deps[cur]) =>
             (SnapshotMayMiss /\ attempt[cur] \in TaskTerminal)
    ELSE \A n \in Node : ~RunnablePending(st[cur], deps[cur], n)

\* The task's final status tells the truth about its rows (_aggregate): all
\* succeeded, or one failed or timed out, or one was stopped (unless the run
\* had ended otherwise when the user stopped the task).  A row held back in
\* pending must never hide behind "completed".
OutcomeTrue ==
    /\ status = "completed" => \A n \in Node : st[cur][n] = "success"
    /\ status = "failed"    => \E n \in Node : st[cur][n] \in SubtaskFailed
    /\ status = "stopped"   => \/ \E n \in Node : st[cur][n] = "stopped"
                               \/ SnapshotMayMiss /\ attempt[cur] # "stopped"

\* The history table (subtask_attempts) tells the same story as the rows: the
\* last attempt has the row's status, earlier ones are finished.
HistoryAgrees ==
    \A r \in Run, n \in Node :
        st[r][n] # "none" =>
            /\ hist[r][n][try[r][n]] = st[r][n]
            /\ \A k \in Try : /\ k < try[r][n] => hist[r][n][k] \in SubtaskTerminal
                              /\ k > try[r][n] => hist[r][n][k] = "none"

\* The rows of run r bear out what its record says.
BorneOut(r) ==
    /\ attempt[r] = "completed" => \A n \in Node : st[r][n] = "success"
    /\ attempt[r] = "failed"    => \E n \in Node : st[r][n] \in SubtaskFailed

\* The record of a run never claims a result its rows do not bear out, and a
\* run that is over, of a settled task or superseded, is closed in the record:
\* however often it was reopened, closed and missed by the task
\* (finish_attempt_cas, reopen_for_subtask_retry, settle_stale_task), and
\* whatever comes late for a superseded run.
RecordEarned ==
    /\ \A r \in Run : BorneOut(r)
    /\ \A r \in Run : (r < cur \/ (r = cur /\ status \in TaskTerminal))
                        => attempt[r] \in TaskTerminal

\* A row that can be dispatched carries inputs bound to the present outputs
\* of its upstreams, whatever was retried since they were first bound
\* (_fill_inputs, _fill_downstream, the refill in _do_retry_subtasks).
InputsFresh ==
    \A n \in Node :
        RunnablePending(st[cur], deps[cur], n) =>
            inp[cur][n] = FillInputs(st[cur], deps[cur], try[cur], n)

\* A row is success only because the runner succeeded in that very attempt:
\* late, repeated and stale reports never complete another attempt (_absorb).
SuccessIsReported ==
    \A r \in Run, n \in Node :
        st[r][n] = "success" => runner[<<r, n, try[r][n]>>] = "success"

\* A deleted task has no running row in any run, although delete_task calls
\* the runners between its two checks without the lock.
DeletedIdle ==
    deleted => \A r \in Run, n \in Node : st[r][n] # "running"

\* The two directions of the edges agree in every run, also after a batch
\* retry has added some (_do_retry_subtasks), and never form a cycle.
EdgesSound ==
    \A r \in Run :
        /\ Acyclic(deps[r])
        /\ \A m, n \in Node : m \in deps[r][n] <=> n \in nxt[r][m]

-----------------------------------------------------------------------------
(***************************************************************************)
(* What a step may never do.                                               *)
(***************************************************************************)
\* A terminal task comes back to life only by a retry: a dispatch whose call
\* returns late, a late report or a patrol must not reopen it
\* (_mark_run_started, mark_running).
OnlyRetryReopens ==
    [][(status \in TaskTerminal /\ status' # status)
          => (cur' = cur + 1 \/ \E n \in Node : try'[cur][n] = try[cur][n] + 1)]_vars

\* Runs before the current one keep their result; their rows at most finish
\* what was still running (_absorb, _aggregate, handle_timeout).
OldRunsFrozen ==
    [][\A r \in 1..(cur - 1) :
          /\ attempt'[r] = attempt[r]
          /\ \A n \in Node :
                st'[r][n] # st[r][n] =>
                    (st[r][n] = "running" /\ st'[r][n] \in SubtaskTerminal)]_vars

-----------------------------------------------------------------------------
(***************************************************************************)
(* Liveness.                                                               *)
(***************************************************************************)
\* A task never stays active for ever: it is settled in the end, or deleted,
\* whatever calls, reports and replicas are lost on the way.
TaskSettles == []<>(status \in TaskTerminal \/ deleted)

\* Nor does a superseded run keep a running row for ever, which would hold a
\* place under the concurrency cap (handle_timeout looks at every run).
LeftoversEnd ==
    \A r \in Run : []<>(r < cur => \A n \in Node : st[r][n] # "running")

-----------------------------------------------------------------------------
(***************************************************************************)
(* What comments of the code say and the code does not do.                 *)
(***************************************************************************)
\* The record of the run is settled together with the task, with the same
\* status (AttemptStatus), and reopened with it (reopen_for_subtask_retry).
RecordFollowsTask == status \in TaskTerminal => attempt[cur] = status

\* The patrol judges what the scan had sifted (handle_timeout and
\* handle_stuck_pending): an attempt is timed out after its deadline, and a
\* row held back behind an unfinished upstream is not timed out at all.
TimeoutJustified ==
    [][/\ \A r \in Run, n \in Node :
             (st[r][n] = "running" /\ st'[r][n] = "timeout") => due[r][n]
       /\ \A n \in Node :
             (st[cur][n] = "pending" /\ ~DepsSatisfied(st[cur], deps[cur], n))
                 => st'[cur][n] # "timeout"]_vars
=============================================================================
