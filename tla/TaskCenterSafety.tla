-------------------------- MODULE TaskCenterSafety --------------------------
(***************************************************************************)
(* The task is active exactly while its run can move, and its final status *)
(* is true. The invariant is strengthened by: the current run has its      *)
(* record and rows; no run's dependencies form a cycle, also after batch   *)
(* retries; a terminal task with a row still running (it was stopped) has  *)
(* no pending row, so that a late success makes nothing ready; and a run   *)
(* closed as stopped has a stopped row.                                    *)
(*                                                                         *)
(* The second part lists the kinds of step there are as far as rows, edges *)
(* and inputs go (StepKinds), and shows with them that run records, both   *)
(* directions of the edges and filled inputs agree with the rows.          *)
(***************************************************************************)
EXTENDS TaskCenterProofs

\* The current run has its record and all its rows.
RowsExist == attempt[cur] # "none" /\ \A n \in Node : st[cur][n] # "none"

\* No run's depends_on forms a cycle.
DepsAcyclic == \A r \in Run : Acyclic(deps[r])

\* A terminal task whose run still has a running row was stopped, and that
\* stopped all its pending rows.
RunningHoldsNone ==
    (status \in TaskTerminal /\ \E n \in Node : st[cur][n] = "running")
        => \A n \in Node : st[cur][n] # "pending"

\* A run closed as stopped has a stopped row until rows of it are retried,
\* also when the task's row escaped the stop and a second one follows.
StopLeavesRow ==
    (status \in {"pending", "stopped"} /\ attempt[cur] = "stopped")
        => \E n \in Node : st[cur][n] = "stopped"

\* The inductive invariant, next to TypeInv.
Safe ==
    /\ RowsExist
    /\ DepsAcyclic
    /\ RunningHoldsNone
    /\ StopLeavesRow
    /\ SettledIffTerminal
    /\ OutcomeTrue

\* A step only closes rows of the current run, and only a running one succeeds.
Moves ==
    \A n \in Node :
        \/ st'[cur][n] = st[cur][n]
        \/ /\ st[cur][n] \in {"pending", "running"}
           /\ st'[cur][n] \in SubtaskTerminal
           /\ st'[cur][n] = "success" => st[cur][n] = "running"

\* A task is either active or terminal (models/enums.py).
LEMMA StatusSplit == TypeInv => /\ status \in TaskTerminal <=> status \notin TaskActive
                                /\ status \in TaskTerminal <=> status \in {"completed", "failed", "stopped"}
BY DEF TypeInv, TypeOK, TaskTerminal, TaskActive

\* A settled run without a failed or stopped row has succeeded as a whole: of
\* the rows that had not, one would wait for none of the others.
LEMMA CompletedMeansAll ==
    ASSUME NEW s \in [Node -> SubtaskStatus], NEW d \in [Node -> SUBSET Node], Acyclic(d),
           RunSettled(s, d), Outcome(s) = "completed"
    PROVE  \A n \in Node : s[n] = "success"
<1> DEFINE P == {n \in Node : s[n] # "success"}
<1> SUFFICES ASSUME P # {} PROVE FALSE
  OBVIOUS
<1>1. PICK n \in P : \A m \in P : m \notin d[n]
  <2>1. P \subseteq Node
    OBVIOUS
  <2> HIDE DEF P
  <2> QED BY <2>1, AcyclicHasSource
<1>2. s[n] = "pending"
  BY DEF RunSettled, Outcome, SubtaskFailed, SubtaskStatus, SubtaskTerminal
<1>3. DepsSatisfied(s, d, n)
  BY <1>1 DEF DepsSatisfied
<1> QED BY <1>2, <1>3 DEF RunSettled, RunnablePending

\* A step that only closes rows of the current run, and aggregates.  An
\* active task is settled exactly when its run is; a terminal one has no
\* pending row that could become ready, since none is pending while one runs.
LEMMA SafeMoves ==
    ASSUME TypeInv, TypeInv', Safe, Moves, UNCHANGED <<cur, deps>>,
           Aggregate(cur, st'[cur])
    PROVE  Safe'
<1> DEFINE s == st'[cur]
           d == deps[cur]
<1>1. cur \in Run /\ d \in [Node -> SUBSET Node]
  BY DEF TypeInv, TypeOK
<1>2. \A n \in Node : st[cur][n] \in SubtaskStatus
  BY <1>1 DEF Safe, RowsExist, TypeInv, TypeOK
<1>3. s \in [Node -> SubtaskStatus]
  <2>1. \A n \in Node : s[n] \in SubtaskStatus
    BY <1>2 DEF Moves, SubtaskStatus
  <2>2. s \in [Node -> {"none"} \cup SubtaskStatus]
    BY <1>1 DEF TypeInv, TypeOK
  <2> QED BY <2>1, <2>2
<1>4. attempt' = attempt \/ attempt' = [attempt EXCEPT ![cur] = Outcome(s)]
  BY DEF Aggregate, FinishAttempt
<1>5. RowsExist' /\ DepsAcyclic'
  <2>1. Outcome(s) # "none"
    BY OutcomeType DEF TaskTerminal
  <2>2. attempt'[cur] # "none"
    BY <1>1, <1>4, <2>1 DEF Safe, RowsExist, TypeInv, TypeOK
  <2> QED BY <1>3, <2>2 DEF Safe, RowsExist, DepsAcyclic, SubtaskStatus, SubtaskTerminal
<1>6. CASE status \in TaskActive /\ RunSettled(s, d)
  <2>1. RunningHoldsNone'
    BY <1>6 DEF RunningHoldsNone, RunSettled
  <2>2. Outcome(s) \in TaskTerminal /\ (Outcome(s) = "stopped" => \E n \in Node : s[n] = "stopped")
    BY OutcomeType DEF Outcome
  <2>3. CASE status' = Outcome(s)
    <3>1. status' \in TaskTerminal /\ status' \notin TaskActive /\ status' # "pending"
      BY <2>2, <2>3 DEF TaskTerminal, TaskActive
    <3>2. SettledIffTerminal'
      BY <1>6, <3>1 DEF SettledIffTerminal, RunSettled
    <3>3. status' = "completed" => \A n \in Node : s[n] = "success"
      BY <1>1, <1>3, <1>6, <2>3, CompletedMeansAll DEF Safe, DepsAcyclic
    <3>4. status' = "failed" => \E n \in Node : s[n] \in SubtaskFailed
      BY <2>3 DEF Outcome
    <3>5. OutcomeTrue' /\ StopLeavesRow'
      BY <2>2, <2>3, <3>1, <3>3, <3>4 DEF OutcomeTrue, StopLeavesRow
    <3> QED BY <1>5, <2>1, <3>2, <3>5 DEF Safe
  <2>4. CASE status' = status /\ SnapshotMayMiss
    <3>1. attempt'[cur] \in TaskTerminal
      BY <1>1, <1>6, <2>2 DEF Aggregate, FinishAttempt, Safe, RowsExist, TypeInv, TypeOK
    <3>2. SettledIffTerminal'
      BY <1>6, <2>4, <3>1 DEF SettledIffTerminal
    <3>3. OutcomeTrue'
      BY <1>6, <2>4 DEF OutcomeTrue, TaskActive
    <3>4. StopLeavesRow'
      <4>1. attempt'[cur] = attempt[cur] \/ attempt'[cur] = Outcome(s)
        BY <1>1, <1>4 DEF TypeInv, TypeOK
      <4> QED BY <2>2, <2>4, <4>1 DEF Safe, StopLeavesRow, Moves
    <3> QED BY <1>5, <2>1, <3>2, <3>3, <3>4 DEF Safe
  <2> QED BY <1>6, <2>3, <2>4 DEF Aggregate, UpdateSnapshot
<1>7. CASE status \in TaskActive /\ ~RunSettled(s, d)
  <2>1. status' = status /\ attempt' = attempt
    BY <1>7 DEF Aggregate
  <2>2. status' \notin TaskTerminal
    BY <1>7, <2>1, StatusSplit
  <2>3. StopLeavesRow'
    BY <2>1 DEF Safe, StopLeavesRow, Moves
  <2> QED BY <1>5, <1>7, <2>1, <2>2, <2>3
          DEF Safe, RunningHoldsNone, SettledIffTerminal, OutcomeTrue, TaskTerminal
<1>8. CASE status \notin TaskActive
  <2>1. status' = status /\ attempt' = attempt /\ status \in TaskTerminal
    BY <1>8, StatusSplit DEF Aggregate
  <2>2. SettledIffTerminal'
    <3> SUFFICES ASSUME NEW n \in Node, RunnablePending(s, d, n) PROVE FALSE
      BY <1>8, <2>1 DEF SettledIffTerminal
    <3>1. st[cur][n] = "pending"
      BY DEF RunnablePending, Moves, SubtaskTerminal
    <3>2. PICK m \in d[n] : st[cur][m] # "success"
      BY <1>8, <3>1 DEF Safe, SettledIffTerminal, RunnablePending, DepsSatisfied
    <3>3. m \in Node /\ s[m] = "success"
      BY <1>1 DEF RunnablePending, DepsSatisfied
    <3>4. st[cur][m] = "running"
      BY <3>2, <3>3 DEF Moves
    <3> QED BY <2>1, <3>1, <3>3, <3>4 DEF Safe, RunningHoldsNone
  <2>3. RunningHoldsNone'
    BY <2>1 DEF Safe, RunningHoldsNone, Moves, SubtaskTerminal
  <2>4. OutcomeTrue' /\ StopLeavesRow'
    BY <2>1 DEF Safe, OutcomeTrue, StopLeavesRow, Moves, SubtaskFailed
  <2> QED BY <1>5, <2>2, <2>3, <2>4 DEF Safe
<1> QED BY <1>6, <1>7, <1>8

\* A step that leaves the rows of the current run alone, and at most sets the
\* active task and its pending run running (_mark_run_started).
LEMMA SafeStill ==
    ASSUME TypeInv, Safe, UNCHANGED <<cur, deps>>, st'[cur] = st[cur],
           status' = status \/ (status \in TaskActive /\ status' = "running"),
           \/ attempt'[cur] = attempt[cur]
           \/ attempt[cur] = "pending" /\ attempt'[cur] = "running"
    PROVE  Safe'
<1>1. RowsExist' /\ DepsAcyclic'
  BY DEF Safe, RowsExist, DepsAcyclic
<1>2. RunningHoldsNone' /\ StopLeavesRow'
  BY DEF Safe, RunningHoldsNone, StopLeavesRow, TaskTerminal
<1>3. SettledIffTerminal'
  BY DEF Safe, SettledIffTerminal, TaskActive, TaskTerminal
<1>4. OutcomeTrue'
  BY DEF Safe, OutcomeTrue
<1> QED BY <1>1, <1>2, <1>3, <1>4 DEF Safe

\* A new task has a step that waits for nobody.
LEMMA SafeInit == Init => Safe
<1> SUFFICES ASSUME Init PROVE Safe
  OBVIOUS
<1>1. cur \in Run /\ \A n \in Node : st[cur][n] = "pending"
  BY BoundAssumption DEF Init, Run
<1>2. DepsAcyclic
  BY FlowAssumption DEF Init, DepsAcyclic
<1>3. PICK n \in Node : \A m \in Node : m \notin Deps[n]
  <2>1. Node # {} /\ Acyclic(Deps)
    BY NAssumption, FlowAssumption DEF Node
  <2> QED BY <2>1, AcyclicHasSource
<1>4. DepsSatisfied(st[cur], deps[cur], n)
  BY <1>1, <1>3, FlowAssumption DEF DepsSatisfied, Init
<1>5. status \in TaskActive /\ status \notin TaskTerminal
  BY DEF Init, TaskActive, TaskTerminal
<1>6. SettledIffTerminal
  BY <1>1, <1>4, <1>5 DEF SettledIffTerminal, RunSettled, RunnablePending
<1>7. attempt[cur] = "pending"
  BY <1>1 DEF Init
<1>8. RowsExist /\ RunningHoldsNone /\ StopLeavesRow /\ OutcomeTrue
  BY <1>1, <1>5, <1>7 DEF RowsExist, RunningHoldsNone, StopLeavesRow, OutcomeTrue, TaskTerminal
<1> QED BY <1>2, <1>6, <1>8 DEF Safe

\* Closing one row, of the current run or of an older one.
LEMMA SafeCloseRow ==
    ASSUME TypeInv, TypeInv', Safe, UNCHANGED <<cur, deps>>,
           NEW r \in Run, NEW n \in Node, NEW from, NEW to \in SubtaskTerminal,
           st[r][n] \in {"pending", "running"},
           to = "success" => st[r][n] = "running",
           CloseRow(r, n, from, to)
    PROVE  Safe'
<1> DEFINE s == [st[r] EXCEPT ![n] = to]
<1>1. st' = [st EXCEPT ![r] = s] /\ Aggregate(r, s)
  BY DEF CloseRow
<1>2. CASE r = cur
  <2>1. st'[cur] = s
    BY <1>1, <1>2 DEF TypeInv, TypeOK
  <2>2. Moves
    BY <1>2, <2>1 DEF Moves, TypeInv, TypeOK
  <2> QED BY <1>1, <1>2, <2>1, <2>2, SafeMoves
<1>3. CASE r # cur
  <2>1. st'[cur] = st[cur] /\ status' = status /\ attempt' = attempt
    BY <1>1, <1>3 DEF TypeInv, TypeOK, Aggregate
  <2> QED BY <2>1, SafeStill
<1> QED BY <1>2, <1>3

\* claim_for_dispatch: what it finds ready belongs to an active task.
LEMMA SafeClaim ==
    ASSUME TypeInv, Safe, NEW p \in Replica, NEW n \in Node, ClaimForDispatch(p, n)
    PROVE  Safe'
<1>1. cur \in Run /\ st[cur][n] = "pending" /\ RunnablePending(st[cur], deps[cur], n)
  BY DEF TypeInv, TypeOK, ClaimForDispatch, Claimable, RunnablePending
<1>2. status \in TaskActive
  BY <1>1 DEF Safe, SettledIffTerminal
<1>3. UNCHANGED <<cur, deps, status, attempt>>
  BY DEF ClaimForDispatch, taskVars, edgeVars
<1>4. \A m \in Node : st'[cur][m] = IF m = n THEN "running" ELSE st[cur][m]
  BY <1>1 DEF TypeInv, TypeOK, ClaimForDispatch
<1>5. RowsExist' /\ DepsAcyclic'
  BY <1>3, <1>4 DEF Safe, RowsExist, DepsAcyclic
<1>6. SettledIffTerminal'
  BY <1>2, <1>3, <1>4 DEF SettledIffTerminal, RunSettled
<1>7. RunningHoldsNone' /\ OutcomeTrue'
  BY <1>2, <1>3 DEF RunningHoldsNone, OutcomeTrue, TaskActive, TaskTerminal
<1>8. StopLeavesRow'
  BY <1>1, <1>3, <1>4 DEF Safe, StopLeavesRow
<1> QED BY <1>5, <1>6, <1>7, <1>8 DEF Safe

\* claim_for_dispatch for a step whose runner is not registered.
LEMMA SafeClaimUnbound ==
    ASSUME TypeInv, TypeInv', Safe, NEW p \in Replica, NEW n \in Node, ClaimUnbound(p, n)
    PROVE  Safe'
<1>1. cur \in Run /\ st[cur][n] = "pending"
  BY DEF TypeInv, TypeOK, ClaimUnbound, Claimable, RunnablePending
<1>2. CloseRow(cur, n, {"pending", "running"}, "failed") /\ UNCHANGED <<cur, deps>>
  BY DEF ClaimUnbound, FailSubtask, edgeVars
<1>3. "failed" \in SubtaskTerminal
  BY DEF SubtaskTerminal
<1> QED BY <1>1, <1>2, <1>3, SafeCloseRow

\* finalize_dispatch: a late answer sets no terminal task running.
LEMMA SafeFinalize ==
    ASSUME TypeInv, TypeInv', Safe, NEW p \in Replica, FinalizeDispatch(p)
    PROVE  Safe'
<1> DEFINE e == job[p].exec
<1>1. e[1] \in Run /\ e[2] \in Node
  BY JobType DEF TypeInv, FinalizeDispatch, Execution
<1>2. UNCHANGED <<cur, deps>>
  BY DEF FinalizeDispatch, edgeVars
<1>3. CASE UNCHANGED <<status, attempt, st, hist>>
  BY <1>2, <1>3, SafeStill
<1>4. CASE MarkRunStarted(e[1]) /\ UNCHANGED <<st, hist>>
  <2>1. status' = status \/ (status \in TaskActive /\ status' = "running")
    BY <1>4 DEF MarkRunStarted, UpdateSnapshot
  <2>2. \/ attempt'[cur] = attempt[cur]
        \/ attempt[cur] = "pending" /\ attempt'[cur] = "running"
    BY <1>4 DEF MarkRunStarted, TypeInv, TypeOK
  <2> QED BY <1>2, <1>4, <2>1, <2>2, SafeStill
<1>5. CASE FailSubtask(e[1], e[2]) /\ st[e[1]][e[2]] = "running"
  <2>1. "failed" \in SubtaskTerminal
    BY DEF SubtaskTerminal
  <2> QED BY <1>1, <1>2, <1>5, <2>1, SafeCloseRow DEF FailSubtask
<1> QED BY <1>3, <1>4, <1>5 DEF FinalizeDispatch, Holds

\* _absorb and _advance.
LEMMA SafeAbsorb ==
    ASSUME TypeInv, TypeInv', Safe, NEW p \in Replica, NEW m \in inbox, AbsorbReport(p, m)
    PROVE  Safe'
<1> DEFINE r == m.exec[1]
           n == m.exec[2]
           v == runner[m.exec]
<1>1. r \in Run /\ n \in Node /\ v \in SubtaskTerminal
  BY DEF TypeInv, TypeOK, InboxAnswered, Execution, Final, SubtaskTerminal
<1>2. UNCHANGED <<cur, deps>>
  BY DEF AbsorbReport, edgeVars
<1>3. CASE UNCHANGED <<status, attempt, st, hist, inp>>
  BY <1>2, <1>3, SafeStill
<1>4. CASE CloseRow(r, n, {"running"}, v) /\ st[r][n] = "running"
  BY <1>1, <1>2, <1>4, SafeCloseRow
<1> QED BY <1>3, <1>4 DEF AbsorbReport, Holds

\* handle_timeout.
LEMMA SafeHandleTimeout ==
    ASSUME TypeInv, TypeInv', Safe, NEW p \in Replica, HandleTimeout(p)
    PROVE  Safe'
<1> DEFINE r == job[p].exec[1]
           n == job[p].exec[2]
<1>1. r \in Run /\ n \in Node
  BY JobType DEF TypeInv, HandleTimeout, Execution
<1>2. UNCHANGED <<cur, deps>>
  BY DEF HandleTimeout, edgeVars
<1>3. CASE UNCHANGED <<status, attempt, st, hist>>
  BY <1>2, <1>3, SafeStill
<1>4. CASE CloseRow(r, n, {"running"}, "timeout") /\ st[r][n] = "running"
  <2>1. "timeout" \in SubtaskTerminal
    BY DEF SubtaskTerminal
  <2> QED BY <1>1, <1>2, <1>4, <2>1, SafeCloseRow
<1> QED BY <1>3, <1>4 DEF HandleTimeout

\* handle_stuck_pending.
LEMMA SafeHandleStuck ==
    ASSUME TypeInv, TypeInv', Safe, NEW p \in Replica, HandleStuckPending(p)
    PROVE  Safe'
<1> DEFINE r == stuck[p][1]
           n == stuck[p][2]
<1>1. r \in Run /\ n \in Node
  BY DEF TypeInv, TypeOK, HandleStuckPending
<1>2. UNCHANGED <<cur, deps>>
  BY DEF HandleStuckPending, edgeVars
<1>3. CASE UNCHANGED <<status, attempt, st, hist>>
  BY <1>2, <1>3, SafeStill
<1>4. CASE CloseRow(r, n, {"pending", "running"}, "timeout") /\ st[r][n] = "pending"
  <2>1. "timeout" \in SubtaskTerminal
    BY DEF SubtaskTerminal
  <2> QED BY <1>1, <1>2, <1>4, <2>1, SafeCloseRow
<1> QED BY <1>3, <1>4 DEF HandleStuckPending

\* settle_stale_task.
LEMMA SafeSettleStale ==
    ASSUME TypeInv, TypeInv', Safe, NEW p \in Replica, SettleStaleTask(p)
    PROVE  Safe'
<1>1. UNCHANGED <<cur, deps, st>> /\ Aggregate(cur, st[cur])
  BY DEF SettleStaleTask, NeedsSettle, edgeVars, rowVars
<1>2. Moves
  BY <1>1 DEF Moves
<1> QED BY <1>1, <1>2, SafeMoves

\* What StopRows does to the rows of the current run.
LEMMA StoppedRows ==
    ASSUME TypeInv, NEW targets, StopRows(cur, targets)
    PROVE  \A n \in Node : st'[cur][n] = IF n \in targets THEN "stopped" ELSE st[cur][n]
BY DEF TypeInv, TypeOK, StopRows

\* _do_stop_task: there is a row to stop, or the run is closed already.
LEMMA SafeStopTask ==
    ASSUME TypeInv, Safe, StopTask
    PROVE  Safe'
<1>1. \A n \in Node : st'[cur][n] = IF st[cur][n] = "pending" THEN "stopped" ELSE st[cur][n]
  BY StoppedRows DEF StopTask, PendingNodes
<1>2. cur \in Run /\ status \in TaskActive /\ UNCHANGED <<cur, deps>>
  BY DEF TypeInv, TypeOK, StopTask, edgeVars
<1>3. status' = "stopped" \/ (SnapshotMayMiss /\ status' = status)
  BY DEF StopTask, UpdateSnapshot
<1>4. attempt'[cur] = IF attempt[cur] \in TaskActive THEN "stopped" ELSE attempt[cur]
  BY <1>2 DEF StopTask, FinishAttempt, TypeInv, TypeOK
<1>5. attempt'[cur] \in TaskTerminal
  BY <1>2, <1>4 DEF Safe, RowsExist, TypeInv, TypeOK, TaskTerminal
<1>6. RowsExist' /\ DepsAcyclic'
  BY <1>1, <1>2, <1>5 DEF Safe, RowsExist, DepsAcyclic, TaskTerminal
<1>7. \A n \in Node : st'[cur][n] # "pending"
  BY <1>1
<1>8. SettledIffTerminal' /\ RunningHoldsNone'
  BY <1>2, <1>3, <1>5, <1>7 DEF SettledIffTerminal, RunningHoldsNone, RunnablePending, TaskActive
<1>9. CASE PendingNodes(cur) # {}
  <2>1. \E n \in Node : st'[cur][n] = "stopped"
    BY <1>1, <1>9 DEF PendingNodes
  <2>2. StopLeavesRow' /\ OutcomeTrue'
    BY <1>2, <1>3, <2>1 DEF StopLeavesRow, OutcomeTrue, TaskActive
  <2> QED BY <1>6, <1>8, <2>2 DEF Safe
<1>10. CASE PendingNodes(cur) = {}
  <2>1. status = "pending" /\ \A n \in Node : st[cur][n] \notin {"running", "pending"}
    BY <1>10 DEF StopTask, PendingNodes
  <2>2. SnapshotMayMiss /\ attempt[cur] \in TaskTerminal
    BY <1>2, <2>1 DEF Safe, SettledIffTerminal, RunSettled, RunnablePending
  <2>3. attempt'[cur] = attempt[cur]
    BY <1>4, <2>2 DEF TaskActive, TaskTerminal
  <2>4. attempt'[cur] = "stopped" => \E n \in Node : st'[cur][n] = "stopped"
    BY <1>1, <2>1, <2>3 DEF Safe, StopLeavesRow
  <2>5. StopLeavesRow' /\ OutcomeTrue'
    BY <1>2, <1>3, <2>2, <2>4 DEF StopLeavesRow, OutcomeTrue, TaskActive
  <2> QED BY <1>6, <1>8, <2>5 DEF Safe
<1> QED BY <1>9, <1>10

\* _do_stop_subtask.
LEMMA SafeStopSubtask ==
    ASSUME TypeInv, TypeInv', Safe, NEW n \in Node, StopSubtask(n)
    PROVE  Safe'
<1> DEFINE targets == Elements(Chain(deps[cur], OnStop, n)) \cap PendingNodes(cur)
<1>1. StopRows(cur, targets) /\ Aggregate(cur, st'[cur]) /\ UNCHANGED <<cur, deps>>
  BY DEF StopSubtask, edgeVars
<1>2. \A m \in Node : st'[cur][m] = IF m \in targets THEN "stopped" ELSE st[cur][m]
  <2> HIDE DEF targets
  <2> QED BY <1>1, StoppedRows
<1>3. Moves
  BY <1>2 DEF Moves, PendingNodes, SubtaskTerminal
<1> QED BY <1>1, <1>3, SafeMoves

\* A run is not settled when rows of it are pending that wait only for each
\* other and for rows that succeeded.
LEMMA PendingCanStart ==
    ASSUME NEW s, NEW d \in [Node -> SUBSET Node], Acyclic(d),
           NEW B, B \subseteq Node, B # {},
           \A n \in B : s[n] = "pending" /\ \A m \in d[n] \ B : s[m] = "success"
    PROVE  ~RunSettled(s, d)
<1>1. PICK n \in B : \A m \in B : m \notin d[n]
  BY AcyclicHasSource
<1>2. RunnablePending(s, d, n)
  BY <1>1 DEF RunnablePending, DepsSatisfied
<1> QED BY <1>2 DEF RunSettled

\* _do_retry_task: the new run has a step that waits for nobody.
LEMMA SafeRetryTask ==
    ASSUME TypeInv, Safe, RetryTask
    PROVE  Safe'
<1>1. cur + 1 \in Run
  BY BoundAssumption DEF TypeInv, TypeOK, RetryTask, Run
<1>2. cur' = cur + 1 /\ deps' = deps /\ status' = "pending"
  BY DEF RetryTask, edgeVars
<1>3. \A n \in Node : st'[cur'][n] = "pending"
  BY <1>1, <1>2 DEF TypeInv, TypeOK, RetryTask
<1>4. attempt'[cur'] = "pending"
  BY <1>1, <1>2 DEF TypeInv, TypeOK, RetryTask
<1>5. RowsExist' /\ DepsAcyclic'
  BY <1>2, <1>3, <1>4 DEF Safe, RowsExist, DepsAcyclic
<1>6. ~RunSettled(st'[cur'], deps'[cur'])
  <2>1. deps'[cur'] \in [Node -> SUBSET Node] /\ Acyclic(deps'[cur'])
    BY <1>1, <1>2 DEF TypeInv, TypeOK, Safe, DepsAcyclic
  <2>2. Node # {}
    BY NAssumption DEF Node
  <2> QED BY <1>3, <2>1, <2>2, PendingCanStart
<1>7. SettledIffTerminal' /\ RunningHoldsNone' /\ StopLeavesRow' /\ OutcomeTrue'
  BY <1>2, <1>6, <1>4 DEF SettledIffTerminal, RunningHoldsNone, StopLeavesRow, OutcomeTrue,
                          TaskActive, TaskTerminal
<1> QED BY <1>5, <1>7 DEF Safe

\* _do_retry_subtasks: of the rows of the list one can be dispatched at once.
LEMMA SafeRetryRows ==
    ASSUME TypeInv, Safe, NEW s, RetryRows(s)
    PROVE  Safe'
<1> DEFINE B == Elements(s)
           d == AddedDeps(s, deps[cur])
<1>1. cur \in Run /\ s \in Batches /\ BatchAllowed(s) /\ Acyclic(d)
  BY DEF TypeInv, TypeOK, RetryRows, ReopenAttempt, BatchAllowed
<1>2. B \subseteq Node /\ B # {} /\ d \in [Node -> SUBSET Node]
  BY <1>1, BatchType, AddedDepsType DEF TypeInv, TypeOK
<1>3. cur' = cur /\ status' = "running" /\ deps' = [deps EXCEPT ![cur] = d]
  BY DEF RetryRows, ReopenAttempt
<1>4. \A n \in Node : st'[cur][n] = IF n \in B THEN "pending" ELSE st[cur][n]
  BY <1>1 DEF TypeInv, TypeOK, RetryRows, ReopenAttempt
<1>5. RowsExist'
  <2>1. attempt'[cur] # "none"
    BY <1>1 DEF Safe, RowsExist, RetryRows, ReopenAttempt, TypeInv, TypeOK
  <2> QED BY <1>3, <1>4, <2>1 DEF Safe, RowsExist
<1>6. deps'[cur] = d /\ \A r \in Run : r # cur => deps'[r] = deps[r]
  BY <1>1, <1>3 DEF TypeInv, TypeOK
<1>7. DepsAcyclic'
  <2> HIDE DEF d
  <2> QED BY <1>1, <1>6 DEF Safe, DepsAcyclic
<1>8. ~RunSettled(st'[cur], d)
  <2>1. \A n \in B : \A m \in d[n] \ B : m \in deps[cur][n] \ B
    BY <1>2 DEF AddedDeps, Elements
  <2>2. \A n \in B : \A m \in d[n] \ B : st'[cur][m] = "success"
    BY <1>1, <1>2, <1>4, <2>1 DEF BatchAllowed
  <2>3. \A n \in B : st'[cur][n] = "pending"
    BY <1>2, <1>4
  <2> HIDE DEF d, B
  <2> QED BY <1>1, <1>2, <2>2, <2>3, PendingCanStart
<1>9. SettledIffTerminal' /\ RunningHoldsNone' /\ StopLeavesRow' /\ OutcomeTrue'
  BY <1>3, <1>6, <1>8
     DEF SettledIffTerminal, RunningHoldsNone, StopLeavesRow, OutcomeTrue, TaskActive, TaskTerminal
<1> QED BY <1>5, <1>7, <1>9 DEF Safe

\* Every step keeps the invariant.
LEMMA SafeNext == TypeInv /\ TypeInv' /\ Safe /\ [Next]_vars => Safe'
<1> SUFFICES ASSUME TypeInv, TypeInv', Safe, [Next]_vars PROVE Safe'
  OBVIOUS
<1>1. CASE UNCHANGED vars
  BY <1>1, SafeStill DEF vars
<1>2. ASSUME NEW p \in Replica, Scheduler(p) PROVE Safe'
  <2>1. CASE \/ \E v \in Verdict : Dispatch(p, v)
             \/ Forget(p)
             \/ \E r \in Run, n \in Node, v \in Final : QueryOne(p, r, n, v)
             \/ \E m \in inbox : DeadLetter(p, m)
             \/ \E r \in Run, n \in Node : PatrolScan(p, r, n)
             \/ \E v \in Final : PatrolQuery(p, v)
             \/ \E n \in Node : StuckScan(p, n)
    <3>1. UNCHANGED <<taskVars, edgeVars, rowVars>>
      BY <2>1 DEF Dispatch, Forget, QueryOne, DeadLetter, PatrolScan, PatrolQuery, StuckScan
    <3> QED BY <3>1, SafeStill DEF taskVars, edgeVars, rowVars
  <2> QED BY <1>2, <2>1, SafeClaim, SafeClaimUnbound, SafeFinalize, SafeAbsorb,
             SafeHandleTimeout, SafeHandleStuck, SafeSettleStale
          DEF Scheduler
<1>3. CASE Runner \/ Clock
  <2>1. UNCHANGED <<cur, deps, status, attempt, st>>
    BY <1>3 DEF Runner, Clock, ReportStatus, DeadlinePasses, taskVars, edgeVars, rowVars
  <2> QED BY <2>1, SafeStill
<1>4. CASE User
  <2>1. CASE DeleteBegin \/ DeleteAbort \/ DeleteCommit
    <3>1. UNCHANGED <<cur, deps, status, attempt, st>>
      BY <2>1 DEF DeleteBegin, DeleteAbort, DeleteCommit, taskVars, edgeVars, rowVars
    <3> QED BY <3>1, SafeStill
  <2> QED BY <1>4, <2>1, SafeStopTask, SafeStopSubtask, SafeRetryTask, SafeRetryRows
          DEF User, RetrySubtask, RetrySubtasks
<1> QED BY <1>1, <1>2, <1>3, <1>4 DEF Next

\* The inductive invariant holds in every reachable state.
LEMMA SafeInvariant == Spec => [](TypeInv /\ Safe)
<1>1. Init => TypeInv /\ Safe
  BY TypeInit, SafeInit
<1>2. TypeInv /\ Safe /\ [Next]_vars => (TypeInv /\ Safe)'
  BY TypeNext, SafeNext
<1> QED BY <1>1, <1>2, PTL DEF Spec

\* A task is active exactly as long as something of its run can still move
\* (_aggregate, _run_settled), for every flow the validator lets through: it
\* is never left active with nothing to do, unless its run is closed and the
\* settle pass will find it, and claim_for_dispatch never finds a ready row of
\* a terminal task.
THEOREM ActiveIffUnsettled == Spec => []SettledIffTerminal
<1>1. Safe => SettledIffTerminal
  BY DEF Safe
<1> QED BY <1>1, SafeInvariant, PTL

\* The final status of a task is what its rows say (_aggregate,
\* _settle_stopped), for every flow: completed only when every row succeeded,
\* failed only with a failed or timed-out row, stopped only with a stopped one
\* (or when the run had ended otherwise and the task had not been told).
THEOREM OutcomeCorrect == Spec => []OutcomeTrue
<1>1. Safe => OutcomeTrue
  BY DEF Safe
<1> QED BY <1>1, SafeInvariant, PTL

-----------------------------------------------------------------------------
(***************************************************************************)
(* What a step is, as far as the rows, their edges and inputs go.          *)
(***************************************************************************)
\* The rows stay as they are; an active task and its pending run may be set
\* running, or the task deleted.
Rests ==
    /\ UNCHANGED <<cur, edgeVars, st, try, hist, inp>>
    /\ status' = status \/ (status \in TaskActive /\ status' = "running")
    /\ \A r \in Run : \/ attempt'[r] = attempt[r]
                      \/ r = cur /\ attempt[r] = "pending" /\ attempt'[r] = "running"
    /\ deleted' = deleted \/ (~deleted /\ deleted' = TRUE /\ Deletable /\ status' = status)

\* Row n of run r, not pending in an old run, is closed and the run
\* aggregated; a success is one the runner reported of that very attempt.
Closes(r, n, from, to) ==
    /\ st[r][n] \in from
    /\ st[r][n] = "pending" => r = cur
    /\ to = "success" =>
           st[r][n] = "running" /\ runner[<<r, n, try[r][n]>>] = "success"
    /\ CloseRow(r, n, from, to)
    /\ inp' = IF to = "success" THEN FillDownstream(r, n, [st[r] EXCEPT ![n] = to])
              ELSE inp
    /\ ~deleted
    /\ UNCHANGED <<cur, deleted, edgeVars, try>>

Closing ==
    \E r \in Run, n \in Node, from \in SUBSET {"pending", "running"}, to \in SubtaskTerminal :
        Closes(r, n, from, to)

\* A step that leaves everything of the task alone.
LEMMA RestsIdle ==
    ASSUME UNCHANGED <<taskVars, edgeVars, rowVars>>
    PROVE  Rests
BY DEF Rests, taskVars, edgeVars, rowVars

\* Every step of the specification is of one of these kinds.
LEMMA StepKinds ==
    ASSUME TypeInv, [Next]_vars
    PROVE  \/ Rests
           \/ Closing
           \/ \E p \in Replica : SettleStaleTask(p)
           \/ \E p \in Replica, n \in Node : ClaimForDispatch(p, n)
           \/ StopTask
           \/ \E n \in Node : StopSubtask(n)
           \/ RetryTask
           \/ \E s : RetryRows(s)
<1> DEFINE Goal == \/ Rests
                   \/ Closing
                   \/ \E p \in Replica : SettleStaleTask(p)
                   \/ \E p \in Replica, n \in Node : ClaimForDispatch(p, n)
                   \/ StopTask
                   \/ \E n \in Node : StopSubtask(n)
                   \/ RetryTask
                   \/ \E s : RetryRows(s)
<1>1. CASE UNCHANGED vars \/ Runner
  BY <1>1, RestsIdle DEF vars, Runner, ReportStatus, taskVars, edgeVars, rowVars
<1>2. CASE Clock
  BY <1>2 DEF Clock, DeadlinePasses, Rests, taskVars
<1>3. ASSUME NEW p \in Replica, Scheduler(p) PROVE Goal
  <2> DEFINE both == {"pending", "running"}
  <2>0. /\ both \in SUBSET {"pending", "running"} /\ {"running"} \in SUBSET {"pending", "running"}
        /\ "failed" \in SubtaskTerminal /\ "timeout" \in SubtaskTerminal
    BY DEF SubtaskTerminal
  <2>1. CASE \/ \E v \in Verdict : Dispatch(p, v)
             \/ Forget(p)
             \/ \E r \in Run, n \in Node, v \in Final : QueryOne(p, r, n, v)
             \/ \E m \in inbox : DeadLetter(p, m)
             \/ \E r \in Run, n \in Node : PatrolScan(p, r, n)
             \/ \E v \in Final : PatrolQuery(p, v)
             \/ \E n \in Node : StuckScan(p, n)
    <3>1. UNCHANGED <<taskVars, edgeVars, rowVars>>
      BY <2>1 DEF Dispatch, Forget, QueryOne, DeadLetter, PatrolScan, PatrolQuery, StuckScan
    <3> QED BY <3>1, RestsIdle
  <2>2. ASSUME NEW n \in Node, ClaimUnbound(p, n) PROVE Closing
    <3>1. cur \in Run /\ Closes(cur, n, both, "failed")
      BY <2>2 DEF TypeInv, TypeOK, ClaimUnbound, Claimable, RunnablePending, FailSubtask, Closes
    <3> QED BY <2>0, <3>1 DEF Closing
  <2>3. CASE FinalizeDispatch(p)
    <3> DEFINE e == job[p].exec
    <3>1. e[1] \in Run /\ e[2] \in Node
      BY <2>3, JobType DEF TypeInv, FinalizeDispatch, Execution
    <3>2. UNCHANGED <<cur, deleted, edgeVars, try, inp>>
      BY <2>3 DEF FinalizeDispatch
    <3>3. CASE UNCHANGED <<status, attempt, st, hist>>
      BY <3>2, <3>3 DEF Rests
    <3>4. CASE MarkRunStarted(e[1]) /\ UNCHANGED <<st, hist>>
      <4>1. status' = status \/ (status \in TaskActive /\ status' = "running")
        BY <3>4 DEF MarkRunStarted, UpdateSnapshot
      <4>2. \A r \in Run :
               \/ attempt'[r] = attempt[r]
               \/ r = cur /\ attempt[r] = "pending" /\ attempt'[r] = "running"
        BY <3>4 DEF MarkRunStarted, TypeInv, TypeOK
      <4> QED BY <3>2, <3>4, <4>1, <4>2 DEF Rests
    <3>5. CASE FailSubtask(e[1], e[2]) /\ st[e[1]][e[2]] = "running" /\ ~deleted
      <4>1. Closes(e[1], e[2], both, "failed")
        BY <3>2, <3>5 DEF FailSubtask, Closes
      <4> QED BY <2>0, <3>1, <4>1 DEF Closing
    <3> QED BY <2>3, <3>3, <3>4, <3>5 DEF FinalizeDispatch, Holds
  <2>4. ASSUME NEW m \in inbox, AbsorbReport(p, m) PROVE Goal
    <3> DEFINE r == m.exec[1]
               n == m.exec[2]
               v == runner[m.exec]
    <3>1. r \in Run /\ n \in Node /\ v \in SubtaskTerminal
      BY DEF TypeInv, TypeOK, InboxAnswered, Execution, Final, SubtaskTerminal
    <3>2. UNCHANGED <<cur, deleted, edgeVars, try>>
      BY <2>4 DEF AbsorbReport
    <3>3. CASE UNCHANGED <<status, attempt, st, hist, inp>>
      BY <3>2, <3>3 DEF Rests
    <3>4. CASE /\ ~deleted /\ Holds(r, n, m.exec[3])
               /\ CloseRow(r, n, {"running"}, v)
               /\ inp' = IF v = "success"
                         THEN FillDownstream(r, n, [st[r] EXCEPT ![n] = v])
                         ELSE inp
      <4>1. m.exec = <<r, n, try[r][n]>>
        <5>1. m.exec \in Execution
          BY DEF TypeInv, TypeOK
        <5>2. m.exec[3] = try[r][n]
          BY <3>1, <3>4 DEF TypeInv, Credentials, Holds
        <5> QED BY <5>1, <5>2 DEF Execution
      <4>2. Closes(r, n, {"running"}, v)
        BY <3>2, <3>4, <4>1 DEF Closes, Holds
      <4> QED BY <2>0, <3>1, <4>2 DEF Closing
    <3> QED BY <2>4, <3>3, <3>4 DEF AbsorbReport
  <2>5. CASE HandleTimeout(p)
    <3> DEFINE r == job[p].exec[1]
               n == job[p].exec[2]
    <3>1. r \in Run /\ n \in Node
      BY <2>5, JobType DEF TypeInv, HandleTimeout, Execution
    <3>2. UNCHANGED <<cur, deleted, edgeVars, try, inp>>
      BY <2>5 DEF HandleTimeout
    <3>3. CASE UNCHANGED <<status, attempt, st, hist>>
      BY <3>2, <3>3 DEF Rests
    <3>4. CASE CloseRow(r, n, {"running"}, "timeout") /\ st[r][n] = "running" /\ ~deleted
      <4>1. Closes(r, n, {"running"}, "timeout")
        BY <3>2, <3>4 DEF Closes
      <4> QED BY <2>0, <3>1, <4>1 DEF Closing
    <3> QED BY <2>5, <3>3, <3>4 DEF HandleTimeout
  <2>6. CASE HandleStuckPending(p)
    <3> DEFINE r == stuck[p][1]
               n == stuck[p][2]
    <3>1. r \in Run /\ n \in Node
      BY <2>6 DEF TypeInv, TypeOK, HandleStuckPending
    <3>2. UNCHANGED <<cur, deleted, edgeVars, try, inp>>
      BY <2>6 DEF HandleStuckPending
    <3>3. CASE UNCHANGED <<status, attempt, st, hist>>
      BY <3>2, <3>3 DEF Rests
    <3>4. CASE /\ CloseRow(r, n, both, "timeout")
               /\ st[r][n] = "pending" /\ r = cur /\ ~deleted
      <4>1. Closes(r, n, both, "timeout")
        BY <3>2, <3>4 DEF Closes
      <4> QED BY <2>0, <3>1, <4>1 DEF Closing
    <3> QED BY <2>6, <3>3, <3>4 DEF HandleStuckPending
  <2> QED BY <1>3, <2>1, <2>2, <2>3, <2>4, <2>5, <2>6 DEF Scheduler
<1>4. CASE DeleteBegin \/ DeleteAbort
  BY <1>4, RestsIdle DEF DeleteBegin, DeleteAbort
<1>5. CASE DeleteCommit
  BY <1>5 DEF DeleteCommit, Rests, rowVars
<1> QED BY <1>1, <1>2, <1>3, <1>4, <1>5 DEF Next, User, RetrySubtask, RetrySubtasks

-----------------------------------------------------------------------------
(***************************************************************************)
(* What is kept beside the rows agrees with them: the records of the runs, *)
(* both directions of the edges, and the bound inputs.                     *)
(***************************************************************************)
\* depends_on and next_steps are the same edges.
EdgesDual == \A r \in Run : \A m, n \in Node : m \in deps[r][n] <=> n \in nxt[r][m]

\* Nothing is bound in the runs to come.
InputsAhead == \A r \in Run : r > cur => inp[r] = [n \in Node |-> NoInputs]

\* The inductive invariant, next to TypeInv and Safe.
Agreeing ==
    RecordEarned /\ EdgesDual /\ InputsAhead /\ InputsFresh

\* In this step the rows of the current run keep the inputs they have, or get
\* the present ones; the latter when they follow a row that just succeeded.
Refilled ==
    /\ \A r \in Run : r # cur => inp'[r] = inp[r]
    /\ \A m \in Node :
          \/ inp'[cur][m] = inp[cur][m]
          \/ inp'[cur][m] = FillInputs(st'[cur], deps[cur], try[cur], m)
    /\ \A n, m \in Node :
          (/\ st[cur][n] # "success" /\ st'[cur][n] = "success"
           /\ m \in nxt[cur][n] /\ RunnablePending(st'[cur], deps[cur], m))
          => inp'[cur][m] = FillInputs(st'[cur], deps[cur], try[cur], m)

\* _fill_inputs depends on the status and the attempt of the upstreams only.
LEMMA FillInputsSame ==
    ASSUME NEW s, NEW t, NEW d, NEW k, NEW n, \A m \in d[n] : s[m] = t[m]
    PROVE  FillInputs(s, d, k, n) = FillInputs(t, d, k, n)
BY DEF FillInputs, Output

\* Rows that were closed leave the inputs of what can be dispatched fresh.
LEMMA FreshMoves ==
    ASSUME TypeInv, Agreeing, Moves, Refilled, UNCHANGED <<cur, deps, try>>
    PROVE  InputsFresh'
<1> DEFINE s == st[cur]
           t == st'[cur]
           d == deps[cur]
<1> SUFFICES ASSUME NEW n \in Node, RunnablePending(t, d, n)
             PROVE  inp'[cur][n] = FillInputs(t, d, try[cur], n)
  BY DEF InputsFresh
<1>1. cur \in Run /\ d[n] \subseteq Node
  BY DEF TypeInv, TypeOK
<1>2. CASE \E m \in d[n] : s[m] # "success"
  <2>1. PICK m \in d[n] : s[m] # "success"
    BY <1>2
  <2>2. m \in Node /\ t[m] = "success" /\ n \in nxt[cur][m]
    BY <1>1, <2>1 DEF RunnablePending, DepsSatisfied, Agreeing, EdgesDual
  <2> QED BY <2>1, <2>2 DEF Refilled
<1>3. CASE \A m \in d[n] : s[m] = "success"
  <2>1. s[n] = "pending"
    BY DEF RunnablePending, Moves, SubtaskTerminal
  <2>2. inp[cur][n] = FillInputs(s, d, try[cur], n)
    BY <1>3, <2>1 DEF Agreeing, InputsFresh, RunnablePending, DepsSatisfied
  <2>3. FillInputs(s, d, try[cur], n) = FillInputs(t, d, try[cur], n)
    <3>1. \A m \in d[n] : s[m] = t[m]
      BY <1>3 DEF RunnablePending, DepsSatisfied
    <3> HIDE DEF s, t, d
    <3> QED BY <3>1, FillInputsSame
  <2> QED BY <2>2, <2>3 DEF Refilled
<1> QED BY <1>2, <1>3

\* A record that is left as it is, or opened, is borne out as before: rows
\* that have succeeded or failed stay as they are.
LEMMA StillBorneOut ==
    ASSUME NEW r, BorneOut(r),
           attempt'[r] = attempt[r] \/ attempt'[r] \notin {"completed", "failed"},
           \A n \in Node : st'[r][n] = st[r][n] \/ st[r][n] \in {"pending", "running"}
    PROVE  BorneOut(r)'
BY DEF BorneOut, SubtaskFailed

\* A step that only closes rows of the current run, and aggregates.
LEMMA AgreeMoves ==
    ASSUME TypeInv, TypeInv', Safe, Safe', Agreeing, Moves, Refilled,
           UNCHANGED <<cur, edgeVars, try>>, Aggregate(cur, st'[cur]),
           \A r \in Run : r # cur => st'[r] = st[r]
    PROVE  Agreeing'
<1> DEFINE s == st'[cur]
<1>1. InputsFresh'
  BY FreshMoves DEF edgeVars
<1>2. EdgesDual' /\ InputsAhead'
  BY DEF Agreeing, EdgesDual, InputsAhead, Refilled, edgeVars, TypeInv, TypeOK, Run
<1>3. cur \in Run /\ (status \in TaskTerminal <=> status \notin TaskActive)
  BY StatusSplit DEF TypeInv, TypeOK
<1>4. \A r \in Run : BorneOut(r)
  BY DEF Agreeing, RecordEarned
<1>5. CASE status \in TaskActive /\ RunSettled(s, deps[cur])
  <2>1. attempt' = [attempt EXCEPT ![cur] = IF @ \in TaskActive THEN Outcome(s) ELSE @]
    BY <1>3, <1>5 DEF Aggregate, FinishAttempt, TypeInv, TypeOK
  <2>2. /\ attempt'[cur] = IF attempt[cur] \in TaskActive THEN Outcome(s) ELSE attempt[cur]
        /\ \A r \in Run : r # cur => attempt'[r] = attempt[r]
    BY <1>3, <2>1 DEF TypeInv, TypeOK
  <2>3. attempt[cur] \in TaskActive \cup TaskTerminal
    BY <1>3 DEF TypeInv, TypeOK, Safe, RowsExist
  <2>4. /\ Outcome(s) \in TaskTerminal
        /\ Outcome(s) = "failed" => \E n \in Node : s[n] \in SubtaskFailed
    BY OutcomeType DEF Outcome
  <2>5. Outcome(s) = "completed" => \A n \in Node : s[n] = "success"
    <3>1. s \in [Node -> SubtaskStatus]
      BY <1>3 DEF TypeInv, TypeOK, Safe, RowsExist
    <3>2. deps[cur] \in [Node -> SUBSET Node] /\ Acyclic(deps[cur])
      BY <1>3 DEF TypeInv, TypeOK, Safe, DepsAcyclic
    <3> QED BY <1>5, <3>1, <3>2, CompletedMeansAll
  <2>6. BorneOut(cur)'
    <3>1. CASE attempt[cur] \in TaskActive
      BY <2>2, <2>4, <2>5, <3>1 DEF BorneOut
    <3>2. CASE attempt[cur] \notin TaskActive
      BY <1>3, <1>4, <2>2, <3>2, StillBorneOut DEF Moves
    <3> QED BY <3>1, <3>2
  <2>7. \A r \in Run : BorneOut(r)'
    BY <1>4, <2>2, <2>6, StillBorneOut
  <2>8. attempt'[cur] \in TaskTerminal
    BY <2>2, <2>3, <2>4
  <2>9. RecordEarned'
    BY <2>2, <2>7, <2>8 DEF Agreeing, RecordEarned
  <2> QED BY <1>1, <1>2, <2>9 DEF Agreeing
<1>6. CASE ~(status \in TaskActive /\ RunSettled(s, deps[cur]))
  <2>1. status' = status /\ attempt' = attempt
    BY <1>6 DEF Aggregate
  <2>2. \A r \in Run : BorneOut(r)'
    BY <1>4, <2>1, StillBorneOut DEF Moves
  <2>3. RecordEarned'
    BY <2>1, <2>2 DEF Agreeing, RecordEarned
  <2> QED BY <1>1, <1>2, <2>3 DEF Agreeing
<1> QED BY <1>5, <1>6

\* A step that leaves the rows of the current run and all inputs alone, and
\* at most sets the active task and its pending run running; a row of another
\* run may end.
LEMMA AgreeStill ==
    ASSUME TypeInv, Agreeing, UNCHANGED <<cur, edgeVars, try>>, st'[cur] = st[cur],
           \A r \in Run : inp'[r] = inp[r],
           \A r \in Run, n \in Node :
               st'[r][n] = st[r][n] \/ st[r][n] \in {"pending", "running"},
           status' = status \/ (status \in TaskActive /\ status' = "running"),
           \A r \in Run : \/ attempt'[r] = attempt[r]
                          \/ r = cur /\ attempt[r] = "pending" /\ attempt'[r] = "running"
    PROVE  Agreeing'
<1>1. RecordEarned'
  <2>1. \A r \in Run : BorneOut(r)'
    BY StillBorneOut DEF Agreeing, RecordEarned
  <2>2. "running" \notin TaskTerminal /\ "pending" \notin TaskTerminal
    BY DEF TaskTerminal
  <2> QED BY <2>1, <2>2 DEF Agreeing, RecordEarned
<1>2. EdgesDual' /\ InputsAhead'
  BY DEF Agreeing, EdgesDual, InputsAhead, edgeVars
<1>3. InputsFresh'
  BY DEF Agreeing, InputsFresh, edgeVars, TypeInv, TypeOK
<1> QED BY <1>1, <1>2, <1>3 DEF Agreeing

\* Closing a row: what follows it directly is in its closure, so
\* _fill_downstream reaches every row it makes ready.
LEMMA AgreeClosing ==
    ASSUME TypeInv, TypeInv', Safe, Safe', Agreeing, Closing
    PROVE  Agreeing'
<1>1. PICK r \in Run, n \in Node, from \in SUBSET {"pending", "running"}, to \in SubtaskTerminal :
          Closes(r, n, from, to)
  BY DEF Closing
<1> DEFINE s == [st[r] EXCEPT ![n] = to]
<1>2. st' = [st EXCEPT ![r] = s] /\ Aggregate(r, s) /\ UNCHANGED <<cur, edgeVars, try>>
  BY <1>1 DEF Closes, CloseRow
<1>3. CASE r # cur
  <2>1. st'[cur] = st[cur] /\ status' = status /\ attempt' = attempt
    BY <1>2, <1>3 DEF TypeInv, TypeOK, Aggregate
  <2>2. \A q \in Run : inp'[q] = inp[q]
    <3>1. \A q \in Run : inp[q] = [m \in Node |-> inp[q][m]]
      BY DEF TypeInv, TypeOK
    <3> QED BY <1>1, <1>3, <3>1 DEF Closes, FillDownstream, TypeInv, TypeOK
  <2>3. \A q \in Run, m \in Node :
            st'[q][m] = st[q][m] \/ st[q][m] \in {"pending", "running"}
    <3>1. st[r][n] \in {"pending", "running"} BY <1>1 DEF Closes
    <3>2. \A q \in Run, m \in Node :
              st'[q][m] = IF q = r /\ m = n THEN to ELSE st[q][m]
      BY <1>2 DEF TypeInv, TypeOK
    <3> QED BY <3>1, <3>2
  <2> QED BY <1>2, <2>1, <2>2, <2>3, AgreeStill
<1>4. CASE r = cur
  <2>1. st'[cur] = s
    BY <1>2, <1>4 DEF TypeInv, TypeOK
  <2>2. Moves
    <3>1. \A m \in Node : s[m] = IF m = n THEN to ELSE st[cur][m]
      BY <1>4 DEF TypeInv, TypeOK
    <3>2. st[cur][n] \in {"pending", "running"} /\ (to = "success" => st[cur][n] = "running")
      BY <1>1, <1>4 DEF Closes
    <3> QED BY <2>1, <3>1, <3>2 DEF Moves
  <2>3. Refilled
    <3>1. CASE to = "success"
      <4>1. /\ \A q \in Run : q # cur => inp'[q] = inp[q]
            /\ \A m \in Node :
                  inp'[cur][m] = IF m \in DownstreamClosure(nxt[cur], n) /\ RunnablePending(s, deps[cur], m)
                                 THEN FillInputs(s, deps[cur], try[cur], m) ELSE inp[cur][m]
        BY <1>1, <1>4, <3>1 DEF Closes, FillDownstream, TypeInv, TypeOK
      <4>2. nxt[cur][n] \subseteq DownstreamClosure(nxt[cur], n)
        BY DirectInClosure
      <4>3. \A m \in Node : s[m] # st[cur][m] => m = n
        BY <1>4 DEF TypeInv, TypeOK
      <4> HIDE DEF s
      <4> QED BY <2>1, <4>1, <4>2, <4>3 DEF Refilled
    <3>2. CASE to # "success"
      <4>1. inp' = inp
        BY <1>1, <3>2 DEF Closes
      <4>2. \A m \in Node : s[m] = "success" => st[cur][m] = "success"
        BY <1>4, <3>2 DEF TypeInv, TypeOK
      <4> HIDE DEF s
      <4> QED BY <2>1, <4>1, <4>2 DEF Refilled
    <3> QED BY <3>1, <3>2
  <2>4. \A q \in Run : q # cur => st'[q] = st[q]
    BY <1>2, <1>4 DEF TypeInv, TypeOK
  <2> QED BY <1>2, <1>4, <2>1, <2>2, <2>3, <2>4, AgreeMoves
<1> QED BY <1>3, <1>4

\* settle_stale_task.
LEMMA AgreeSettle ==
    ASSUME TypeInv, TypeInv', Safe, Safe', Agreeing, NEW p \in Replica, SettleStaleTask(p)
    PROVE  Agreeing'
<1>1. UNCHANGED <<cur, edgeVars, try, inp, st>> /\ Aggregate(cur, st[cur])
  BY DEF SettleStaleTask, NeedsSettle, edgeVars, rowVars
<1>2. Moves /\ Refilled
  BY <1>1 DEF Moves, Refilled
<1> QED BY <1>1, <1>2, AgreeMoves

\* claim_for_dispatch.
LEMMA AgreeClaim ==
    ASSUME TypeInv, Agreeing, NEW p \in Replica, NEW n \in Node, ClaimForDispatch(p, n)
    PROVE  Agreeing'
<1>1. cur \in Run /\ st[cur][n] = "pending" /\ UNCHANGED <<status, cur, attempt, edgeVars, try, inp>>
  BY DEF TypeInv, TypeOK, ClaimForDispatch, Claimable, RunnablePending, taskVars
<1>2. \A m \in Node : st'[cur][m] = IF m = n THEN "running" ELSE st[cur][m]
  BY <1>1 DEF TypeInv, TypeOK, ClaimForDispatch
<1>3. RecordEarned'
  <2>1. \A r \in Run, m \in Node :
            st'[r][m] = st[r][m] \/ st[r][m] \in {"pending", "running"}
    BY <1>1 DEF TypeInv, TypeOK, ClaimForDispatch
  <2>2. \A r \in Run : BorneOut(r)'
    BY <1>1, <2>1, StillBorneOut DEF Agreeing, RecordEarned
  <2> QED BY <1>1, <2>2 DEF Agreeing, RecordEarned
<1>4. EdgesDual' /\ InputsAhead'
  BY <1>1 DEF Agreeing, EdgesDual, InputsAhead, edgeVars
<1>5. InputsFresh'
  <2> SUFFICES ASSUME NEW m \in Node, RunnablePending(st'[cur], deps[cur], m)
               PROVE  inp[cur][m] = FillInputs(st'[cur], deps[cur], try[cur], m)
    BY <1>1 DEF InputsFresh, edgeVars
  <2>1. deps[cur][m] \subseteq Node
    BY <1>1 DEF TypeInv, TypeOK
  <2>2. \A x \in deps[cur][m] : st'[cur][x] = "success" /\ st[cur][x] = st'[cur][x]
    BY <1>2, <2>1 DEF RunnablePending, DepsSatisfied
  <2>3. RunnablePending(st[cur], deps[cur], m)
    BY <1>2, <2>2 DEF RunnablePending, DepsSatisfied
  <2>4. FillInputs(st[cur], deps[cur], try[cur], m) = FillInputs(st'[cur], deps[cur], try[cur], m)
    BY <2>2, FillInputsSame
  <2> QED BY <2>3, <2>4 DEF Agreeing, InputsFresh
<1> QED BY <1>3, <1>4, <1>5 DEF Agreeing

\* _do_stop_task: a run closed as failed keeps its failed row.
LEMMA AgreeStopTask ==
    ASSUME TypeInv, Safe, Agreeing, StopTask
    PROVE  Agreeing'
<1>1. \A n \in Node : st'[cur][n] = IF st[cur][n] = "pending" THEN "stopped" ELSE st[cur][n]
  BY StoppedRows DEF StopTask, PendingNodes
<1>2. cur \in Run /\ status \in TaskActive /\ UNCHANGED <<cur, edgeVars, try, inp>>
  BY DEF TypeInv, TypeOK, StopTask
<1>3. status' = "stopped" \/ status' = status
  BY DEF StopTask, UpdateSnapshot
<1>4. /\ attempt'[cur] = IF attempt[cur] \in TaskActive THEN "stopped" ELSE attempt[cur]
      /\ \A r \in Run : r # cur => attempt'[r] = attempt[r] /\ st'[r] = st[r]
  BY <1>2 DEF StopTask, StopRows, FinishAttempt, TypeInv, TypeOK
<1>5. RecordEarned'
  <2>1. \A r \in Run : BorneOut(r)'
    BY <1>1, <1>4, StillBorneOut DEF Agreeing, RecordEarned
  <2>2. attempt'[cur] \in TaskTerminal
    BY <1>2, <1>4 DEF TypeInv, TypeOK, Safe, RowsExist, TaskTerminal
  <2> QED BY <1>2, <1>4, <2>1, <2>2 DEF Agreeing, RecordEarned
<1>6. EdgesDual' /\ InputsAhead'
  BY <1>2 DEF Agreeing, EdgesDual, InputsAhead, edgeVars
<1>7. InputsFresh'
  BY <1>1, <1>2 DEF InputsFresh, RunnablePending
<1> QED BY <1>5, <1>6, <1>7 DEF Agreeing

\* _do_stop_subtask.
LEMMA AgreeStopSubtask ==
    ASSUME TypeInv, TypeInv', Safe, Safe', Agreeing, NEW n \in Node, StopSubtask(n)
    PROVE  Agreeing'
<1> DEFINE targets == Elements(Chain(deps[cur], OnStop, n)) \cap PendingNodes(cur)
<1>1. /\ StopRows(cur, targets) /\ Aggregate(cur, st'[cur])
      /\ UNCHANGED <<cur, edgeVars, try, inp>>
  BY DEF StopSubtask
<1>2. \A m \in Node : st'[cur][m] = IF m \in targets THEN "stopped" ELSE st[cur][m]
  <2> HIDE DEF targets
  <2> QED BY <1>1, StoppedRows
<1>3. Moves
  BY <1>2 DEF Moves, PendingNodes, SubtaskTerminal
<1>4. \A m \in Node : st'[cur][m] = "success" => st[cur][m] = "success"
  <2> HIDE DEF targets
  <2> QED BY <1>2
<1>5. Refilled
  BY <1>1, <1>4 DEF Refilled
<1>6. \A r \in Run : r # cur => st'[r] = st[r]
  BY <1>1 DEF StopRows, TypeInv, TypeOK
<1> QED BY <1>1, <1>3, <1>5, <1>6, AgreeMoves

\* _do_retry_task: a row of the new run that waits for nobody binds nothing.
LEMMA AgreeRetryTask ==
    ASSUME TypeInv, Agreeing, RetryTask
    PROVE  Agreeing'
<1>1. cur \in Run /\ cur + 1 \in Run /\ cur + 1 > cur
  BY BoundAssumption DEF TypeInv, TypeOK, RetryTask, Run
<1>2. cur' = cur + 1 /\ UNCHANGED <<edgeVars, try, inp>> /\ status' = "pending"
  BY DEF RetryTask
<1>3. \A n \in Node : st'[cur'][n] = "pending"
  BY <1>1, <1>2 DEF TypeInv, TypeOK, RetryTask
<1>4. attempt'[cur'] = "pending"
  BY <1>1, <1>2 DEF TypeInv, TypeOK, RetryTask
<1>5. RecordEarned'
  <2>1. /\ status \in TaskTerminal
        /\ \A r \in Run : r # cur + 1 => attempt'[r] = attempt[r] /\ st'[r] = st[r]
    BY DEF TypeInv, TypeOK, RetryTask
  <2>2. \A r \in Run : BorneOut(r)'
    BY <1>2, <1>4, <2>1, StillBorneOut DEF Agreeing, RecordEarned, BorneOut
  <2>3. "pending" \notin TaskTerminal BY DEF TaskTerminal
  <2>4. \A r \in Run : r < cur + 1 => r # cur + 1 /\ (r < cur \/ r = cur)
    BY <1>1 DEF Run
  <2> QED BY <1>2, <2>1, <2>2, <2>3, <2>4 DEF Agreeing, RecordEarned
<1>6. EdgesDual' /\ InputsAhead'
  BY <1>1, <1>2 DEF Agreeing, EdgesDual, InputsAhead, edgeVars, Run
<1>7. InputsFresh'
  <2> SUFFICES ASSUME NEW n \in Node, RunnablePending(st'[cur'], deps[cur'], n)
               PROVE  inp[cur'][n] = FillInputs(st'[cur'], deps[cur'], try[cur'], n)
    BY <1>2 DEF InputsFresh, edgeVars
  <2>1. deps[cur'][n] = {}
    <3>1. deps[cur'][n] \subseteq Node
      BY <1>1, <1>2 DEF TypeInv, TypeOK
    <3>2. \A m \in deps[cur'][n] : st'[cur'][m] = "success"
      BY DEF RunnablePending, DepsSatisfied
    <3> QED BY <1>3, <3>1, <3>2
  <2>2. FillInputs(st'[cur'], deps[cur'], try[cur'], n) = NoInputs
    BY <2>1 DEF FillInputs, NoInputs
  <2> QED BY <1>1, <1>2, <2>2 DEF Agreeing, InputsAhead
<1> QED BY <1>5, <1>6, <1>7 DEF Agreeing

\* The order of a batch is the same edges in both directions.
LEMMA AddedDual ==
    ASSUME NEW s \in Batches, NEW d \in [Node -> SUBSET Node], NEW x \in [Node -> SUBSET Node],
           \A m, n \in Node : m \in d[n] <=> n \in x[m],
           NEW m \in Node, NEW n \in Node
    PROVE  m \in AddedDeps(s, d)[n] <=> n \in AddedNext(s, x)[m]
<1>1. PICK k \in 1..N : s \in [1..k -> Node]
  BY DEF Batches
<1>2. m \in AddedDeps(s, d)[n] <=>
          (m \in d[n] \/ \E j \in 1..k : j + 1 \in 1..k /\ s[j + 1] = n /\ s[j] = m)
  BY <1>1 DEF AddedDeps
<1>3. n \in AddedNext(s, x)[m] <=>
          (n \in x[m] \/ \E j \in 1..k : j > 1 /\ s[j - 1] = m /\ s[j] = n)
  BY <1>1 DEF AddedNext
<1>4. ASSUME NEW j \in 1..k, j + 1 \in 1..k, s[j + 1] = n, s[j] = m
      PROVE  \E i \in 1..k : i > 1 /\ s[i - 1] = m /\ s[i] = n
  <2>1. (j + 1) - 1 = j /\ j + 1 > 1
    OBVIOUS
  <2> QED BY <1>4, <2>1
<1>5. ASSUME NEW j \in 1..k, j > 1, s[j - 1] = m, s[j] = n
      PROVE  \E i \in 1..k : i + 1 \in 1..k /\ s[i + 1] = n /\ s[i] = m
  <2>1. (j - 1) + 1 = j /\ j - 1 \in 1..k
    BY <1>5, NAssumption
  <2> QED BY <1>5, <2>1
<1> QED BY <1>2, <1>3, <1>4, <1>5

\* _do_retry_subtasks: of a terminal task nothing else could be dispatched,
\* and the retried rows that can be are bound again.
LEMMA AgreeRetryRows ==
    ASSUME TypeInv, Safe, Agreeing, NEW s, RetryRows(s)
    PROVE  Agreeing'
<1> DEFINE B   == Elements(s)
           d   == AddedDeps(s, deps[cur])
           row == [n \in Node |-> IF n \in B THEN "pending" ELSE st[cur][n]]
           k   == [n \in Node |-> IF n \in B THEN try[cur][n] + 1 ELSE try[cur][n]]
<1>1. cur \in Run /\ s \in Batches /\ status \in TaskTerminal
  BY DEF TypeInv, TypeOK, RetryRows, ReopenAttempt, BatchAllowed
<1>2. /\ cur' = cur /\ status' = "running" /\ ReopenAttempt(cur)
      /\ deps' = [deps EXCEPT ![cur] = d]
      /\ nxt'  = [nxt EXCEPT ![cur] = AddedNext(s, nxt[cur])]
      /\ st'   = [st EXCEPT ![cur] = row]
      /\ try'  = [try EXCEPT ![cur] = k]
      /\ inp'  = [inp EXCEPT ![cur] =
                     [n \in Node |-> IF n \in B /\ DepsSatisfied(row, d, n)
                                     THEN FillInputs(row, d, k, n)
                                     ELSE inp[cur][n]]]
  BY DEF RetryRows
<1>3. RecordEarned'
  <2>1. /\ attempt'[cur] \notin {"completed", "failed"}
        /\ \A r \in Run : r # cur => attempt'[r] = attempt[r] /\ st'[r] = st[r]
    BY <1>1, <1>2 DEF ReopenAttempt, TypeInv, TypeOK
  <2>2. \A r \in Run : BorneOut(r)'
    BY <1>1, <2>1, StillBorneOut DEF Agreeing, RecordEarned, BorneOut
  <2>3. "running" \notin TaskTerminal BY DEF TaskTerminal
  <2>4. \A r \in Run : r < cur => r # cur BY <1>1 DEF Run
  <2> QED BY <1>2, <2>1, <2>2, <2>3, <2>4 DEF Agreeing, RecordEarned
<1>4. EdgesDual'
  <2> SUFFICES ASSUME NEW r \in Run, NEW m \in Node, NEW n \in Node
               PROVE  m \in deps'[r][n] <=> n \in nxt'[r][m]
    BY DEF EdgesDual
  <2>1. CASE r # cur
    BY <1>2, <2>1 DEF Agreeing, EdgesDual, TypeInv, TypeOK
  <2>2. CASE r = cur
    <3>1. deps'[r] = d /\ nxt'[r] = AddedNext(s, nxt[cur])
      BY <1>1, <1>2, <2>2 DEF TypeInv, TypeOK
    <3>2. /\ deps[cur] \in [Node -> SUBSET Node] /\ nxt[cur] \in [Node -> SUBSET Node]
          /\ \A i, j \in Node : i \in deps[cur][j] <=> j \in nxt[cur][i]
      BY <1>1 DEF TypeInv, TypeOK, Agreeing, EdgesDual
    <3> QED BY <1>1, <3>1, <3>2, AddedDual
  <2> QED BY <2>1, <2>2
<1>5. InputsAhead'
  BY <1>1, <1>2 DEF Agreeing, InputsAhead, TypeInv, TypeOK, Run
<1>6. InputsFresh'
  <2>1. st'[cur] = row /\ deps'[cur] = d /\ try'[cur] = k
    BY <1>1, <1>2 DEF TypeInv, TypeOK
  <2> SUFFICES ASSUME NEW n \in Node, RunnablePending(row, d, n)
               PROVE  inp'[cur][n] = FillInputs(row, d, k, n)
    BY <1>2, <2>1 DEF InputsFresh
  <2>2. inp'[cur][n] = IF n \in B /\ DepsSatisfied(row, d, n)
                       THEN FillInputs(row, d, k, n) ELSE inp[cur][n]
    BY <1>1, <1>2 DEF TypeInv, TypeOK
  <2>3. DepsSatisfied(row, d, n) /\ row[n] = "pending"
    BY DEF RunnablePending
  <2>4. n \in B
    <3> SUFFICES ASSUME n \notin B PROVE FALSE
      OBVIOUS
    <3>1. deps[cur][n] \subseteq d[n] /\ deps[cur][n] \subseteq Node
      BY <1>1 DEF AddedDeps, TypeInv, TypeOK
    <3>2. \A m \in deps[cur][n] : st[cur][m] = "success"
      BY <2>3, <3>1 DEF DepsSatisfied
    <3>3. RunnablePending(st[cur], deps[cur], n)
      BY <2>3, <3>2 DEF RunnablePending, DepsSatisfied
    <3> QED BY <1>1, <3>3, StatusSplit DEF Safe, SettledIffTerminal
  <2> QED BY <2>2, <2>3, <2>4
<1> QED BY <1>3, <1>4, <1>5, <1>6 DEF Agreeing

\* A new task: the rows that wait for nobody have nothing to bind.
LEMMA AgreeInit == Init => Agreeing
<1> SUFFICES ASSUME Init PROVE Agreeing
  OBVIOUS
<1>1. cur \in Run /\ attempt[cur] = "pending" /\ status = "pending"
  BY BoundAssumption DEF Init, Run
<1>2. RecordEarned
  <2>1. \A r \in Run : attempt[r] \in {"pending", "none"} /\ ~(r < cur)
    BY DEF Init, Run
  <2> QED BY <1>1, <2>1 DEF RecordEarned, BorneOut, TaskTerminal
<1>3. EdgesDual
  BY FlowAssumption DEF Init, NextOf, EdgesDual
<1>4. InputsAhead
  BY DEF Init, InputsAhead
<1>5. InputsFresh
  <2> SUFFICES ASSUME NEW n \in Node, RunnablePending(st[cur], deps[cur], n)
               PROVE  inp[cur][n] = FillInputs(st[cur], deps[cur], try[cur], n)
    BY DEF InputsFresh
  <2>1. deps[cur] = Deps /\ (\A m \in Node : st[cur][m] = "pending") /\ inp[cur][n] = NoInputs
    BY <1>1 DEF Init
  <2>2. Deps[n] = {}
    BY <2>1, FlowAssumption DEF RunnablePending, DepsSatisfied
  <2>3. FillInputs(st[cur], Deps, try[cur], n) = NoInputs
    BY <2>2 DEF FillInputs, NoInputs
  <2> QED BY <2>1, <2>3
<1> QED BY <1>2, <1>3, <1>4, <1>5 DEF Agreeing

\* Every step keeps the invariant.
LEMMA AgreeNext ==
    TypeInv /\ TypeInv' /\ Safe /\ Safe' /\ Agreeing /\ [Next]_vars => Agreeing'
<1> SUFFICES ASSUME TypeInv, TypeInv', Safe, Safe', Agreeing, [Next]_vars PROVE Agreeing'
  OBVIOUS
<1>1. CASE Rests
  BY <1>1, AgreeStill DEF Rests
<1> QED BY <1>1, StepKinds, AgreeClosing, AgreeSettle, AgreeClaim, AgreeStopTask,
           AgreeStopSubtask, AgreeRetryTask, AgreeRetryRows

\* The three parts of the inductive invariant together.
LEMMA AgreeInvariant == Spec => [](TypeInv /\ Safe /\ Agreeing)
<1>1. Init => TypeInv /\ Safe /\ Agreeing
  BY TypeInit, SafeInit, AgreeInit
<1>2. TypeInv /\ Safe /\ Agreeing /\ [Next]_vars => (TypeInv /\ Safe /\ Agreeing)'
  BY TypeNext, SafeNext, AgreeNext
<1> QED BY <1>1, <1>2, PTL DEF Spec

\* No record claims a result its rows do not bear out, and every run that is
\* over is closed, for every flow, any number of runs, and however often they
\* were reopened, closed and left unsettled by a missed update
\* (finish_attempt_cas, reopen_for_subtask_retry, settle_stale_task).
THEOREM RecordCorrect == Spec => []RecordEarned
<1>1. Agreeing => RecordEarned
  BY DEF Agreeing
<1> QED BY <1>1, AgreeInvariant, PTL

\* depends_on and next_steps are the same edges in every run and form no
\* cycle, for every flow and every sequence of batch retries.
THEOREM EdgesCorrect == Spec => []EdgesSound
<1>1. Safe /\ Agreeing => EdgesSound
  BY DEF Safe, DepsAcyclic, Agreeing, EdgesDual, EdgesSound
<1> QED BY <1>1, AgreeInvariant, PTL

\* What can be dispatched has inputs bound to the present outputs of its
\* upstreams, for every flow and whatever was retried (_fill_downstream,
\* _do_retry_subtasks).
THEOREM InputsCorrect == Spec => []InputsFresh
<1>1. Agreeing => InputsFresh
  BY DEF Agreeing
<1> QED BY <1>1, AgreeInvariant, PTL
=============================================================================
