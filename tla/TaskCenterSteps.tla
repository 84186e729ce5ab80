-------------------------- MODULE TaskCenterSteps --------------------------
(***************************************************************************)
(* What a step of TaskCenter may never do: reopen a terminal task without  *)
(* a retry, change what an earlier run has finished, or start anything of  *)
(* a deleted task. Every action is shown to move the rows in one of five   *)
(* ways; the three theorems follow from those.                             *)
(*                                                                         *)
(* Then the history: it has the last word of every attempt that is over    *)
(* and the present one of the row, a success in it was reported, and with  *)
(* it every step of the task center is a step of the ledger.               *)
(***************************************************************************)
EXTENDS TaskCenterSafety, TaskRefinement

\* What a step may do to a row: claim it, close it (a pending one only in the
\* current run), reset it for a new attempt, or create it with a new run.
RowStep ==
    \A r \in Run, n \in Node :
        \/ st'[r][n] = st[r][n]
        \/ r = cur /\ ~deleted /\ st[r][n] = "pending" /\ st'[r][n] = "running"
        \/ /\ st'[r][n] \in SubtaskTerminal
           /\ st[r][n] = "running" \/ (st[r][n] = "pending" /\ r = cur)
        \/ r = cur /\ st[r][n] \in SubtaskTerminal /\ st'[r][n] = "pending"
        \/ r = cur + 1 /\ st'[r][n] = "pending"

\* A step writes the record of the current run, or opens the next one.
AttemptStep == \A r \in Run : r \notin {cur, cur + 1} => attempt'[r] = attempt[r]

\* A terminal task is changed by a retry only.
ReopenStep ==
    (status \in TaskTerminal /\ status' # status) =>
        (cur' = cur + 1 \/ \E n \in Node : try'[cur][n] = try[cur][n] + 1)

\* Deleting finds nothing running and nothing runs afterwards.
DeleteStep ==
    deleted' => deleted \/ (Deletable /\ st' = st)

\* What every step of the specification obeys.
StepOK == RowStep /\ AttemptStep /\ ReopenStep /\ DeleteStep

\* A step that writes neither rows nor statuses.
LEMMA StillStep ==
    ASSUME TypeInv, UNCHANGED <<st, attempt, status>>, DeleteStep
    PROVE  StepOK
BY DEF StepOK, RowStep, AttemptStep, ReopenStep

\* _aggregate writes the record of the current run only, and only while the
\* task is active.
LEMMA AggregateStep ==
    ASSUME TypeInv, NEW r \in Run, NEW s, Aggregate(r, s)
    PROVE  AttemptStep /\ ReopenStep
<1>1. status \in TaskTerminal => status' = status
  BY DEF TypeInv, TypeOK, Aggregate, FinishAttempt, UpdateSnapshot, TaskTerminal, TaskActive
<1>2. AttemptStep
  BY DEF TypeInv, TypeOK, Aggregate, FinishAttempt, UpdateSnapshot, AttemptStep
<1> QED BY <1>1, <1>2 DEF ReopenStep

\* Closing a running row, or a pending one of the current run
\* (_close_subtask_row).
LEMMA CloseRowStep ==
    ASSUME TypeInv, NEW r \in Run, NEW n \in Node, NEW from, NEW to \in SubtaskTerminal,
           CloseRow(r, n, from, to), deleted' = deleted,
           st[r][n] = "running" \/ (st[r][n] = "pending" /\ r = cur)
    PROVE  StepOK
<1>1. AttemptStep /\ ReopenStep
  BY AggregateStep DEF CloseRow
<1>2. st' = [st EXCEPT ![r] = [st[r] EXCEPT ![n] = to]]
  BY DEF CloseRow
<1>3. RowStep
  BY <1>2 DEF RowStep, TypeInv, TypeOK
<1> QED BY <1>1, <1>3 DEF StepOK, DeleteStep

\* Stopping pending rows of the current run (stop_task, stop_subtask).
LEMMA StopRowsStep ==
    ASSUME TypeInv, NEW targets, targets \subseteq PendingNodes(cur), StopRows(cur, targets)
    PROVE  RowStep
<1>1. \A r \in Run, n \in Node :
          st'[r][n] = IF r = cur /\ n \in targets THEN "stopped" ELSE st[r][n]
  BY DEF TypeInv, TypeOK, StopRows
<1>2. \A n \in targets : st[cur][n] = "pending"
  BY DEF PendingNodes
<1> QED BY <1>1, <1>2 DEF RowStep, SubtaskTerminal

\* The passes of the background loop, one by one.
LEMMA SchedulerStep ==
    ASSUME TypeInv, NEW p \in Replica, Scheduler(p)
    PROVE  StepOK
<1>1. deleted' = deleted
  BY DEF Scheduler, ClaimForDispatch, ClaimUnbound, Dispatch, FinalizeDispatch, Forget, QueryOne,
         AbsorbReport, DeadLetter, PatrolScan, PatrolQuery, HandleTimeout, StuckScan,
         HandleStuckPending, SettleStaleTask, taskVars
<1>10. "failed" \in SubtaskTerminal /\ "timeout" \in SubtaskTerminal
  BY DEF SubtaskTerminal
<1>2. CASE \/ \E v \in Verdict : Dispatch(p, v)
           \/ Forget(p)
           \/ \E r \in Run, n \in Node, v \in Final : QueryOne(p, r, n, v)
           \/ \E m \in inbox : DeadLetter(p, m)
           \/ \E r \in Run, n \in Node : PatrolScan(p, r, n)
           \/ \E v \in Final : PatrolQuery(p, v)
           \/ \E n \in Node : StuckScan(p, n)
  <2>1. UNCHANGED <<taskVars, edgeVars, rowVars>>
    BY <1>2 DEF Dispatch, Forget, QueryOne, DeadLetter, PatrolScan, PatrolQuery, StuckScan
  <2> QED BY <2>1, StillStep DEF taskVars, rowVars, DeleteStep
<1>3. ASSUME NEW n \in Node, ClaimForDispatch(p, n) PROVE StepOK
  <2>1. \A r \in Run, m \in Node :
            st'[r][m] = IF r = cur /\ m = n THEN "running" ELSE st[r][m]
    BY <1>3 DEF TypeInv, TypeOK, ClaimForDispatch
  <2>2. RowStep
    BY <1>3, <2>1 DEF RowStep, ClaimForDispatch, Claimable, RunnablePending
  <2> QED BY <1>1, <1>3, <2>2
          DEF StepOK, AttemptStep, ReopenStep, DeleteStep, ClaimForDispatch, taskVars
<1>4. ASSUME NEW n \in Node, ClaimUnbound(p, n) PROVE StepOK
  <2>1. cur \in Run /\ st[cur][n] = "pending"
    BY <1>4 DEF TypeInv, TypeOK, ClaimUnbound, Claimable, RunnablePending
  <2> QED BY <1>1, <1>10, <1>4, <2>1, CloseRowStep DEF ClaimUnbound, FailSubtask
<1>5. CASE FinalizeDispatch(p)
  <2> DEFINE e == job[p].exec
  <2>1. e[1] \in Run /\ e[2] \in Node
    BY <1>5, JobType DEF TypeInv, FinalizeDispatch, Execution
  <2>2. CASE UNCHANGED <<status, attempt, st, hist>>
    BY <1>1, <2>2, StillStep DEF DeleteStep
  <2>3. CASE MarkRunStarted(e[1]) /\ UNCHANGED <<st, hist>>
    <3>1. status \in TaskTerminal => status' = status
      BY <2>3 DEF MarkRunStarted, UpdateSnapshot, TaskTerminal, TaskActive
    <3>2. AttemptStep
      BY <2>1, <2>3 DEF TypeInv, TypeOK, AttemptStep, MarkRunStarted, UpdateSnapshot
    <3> QED BY <1>1, <2>3, <3>1, <3>2 DEF StepOK, RowStep, ReopenStep, DeleteStep
  <2>4. CASE FailSubtask(e[1], e[2]) /\ st[e[1]][e[2]] = "running"
    BY <1>1, <1>10, <2>1, <2>4, CloseRowStep DEF FailSubtask
  <2> QED BY <1>5, <2>2, <2>3, <2>4 DEF FinalizeDispatch, Holds
<1>6. ASSUME NEW m \in inbox, AbsorbReport(p, m) PROVE StepOK
  <2> DEFINE r == m.exec[1]
             n == m.exec[2]
             v == runner[m.exec]
  <2>1. r \in Run /\ n \in Node /\ v \in SubtaskTerminal
    BY DEF TypeInv, TypeOK, InboxAnswered, Execution, Final, SubtaskTerminal
  <2>2. CASE UNCHANGED <<status, attempt, st, hist, inp>>
    BY <1>1, <2>2, StillStep DEF DeleteStep
  <2>3. CASE CloseRow(r, n, {"running"}, v) /\ st[r][n] = "running"
    BY <1>1, <2>1, <2>3, CloseRowStep
  <2> QED BY <1>6, <2>2, <2>3 DEF AbsorbReport, Holds
<1>7. CASE HandleTimeout(p)
  <2> DEFINE r == job[p].exec[1]
             n == job[p].exec[2]
  <2>1. r \in Run /\ n \in Node
    BY <1>7, JobType DEF TypeInv, HandleTimeout, Execution
  <2>2. CASE UNCHANGED <<status, attempt, st, hist>>
    BY <1>1, <2>2, StillStep DEF DeleteStep
  <2>3. CASE CloseRow(r, n, {"running"}, "timeout") /\ st[r][n] = "running"
    BY <1>1, <1>10, <2>1, <2>3, CloseRowStep
  <2> QED BY <1>7, <2>2, <2>3 DEF HandleTimeout
<1>8. CASE HandleStuckPending(p)
  <2> DEFINE r == stuck[p][1]
             n == stuck[p][2]
  <2>1. r \in Run /\ n \in Node
    BY <1>8 DEF TypeInv, TypeOK, HandleStuckPending
  <2>2. CASE UNCHANGED <<status, attempt, st, hist>>
    BY <1>1, <2>2, StillStep DEF DeleteStep
  <2>3. CASE CloseRow(r, n, {"pending", "running"}, "timeout") /\ st[r][n] = "pending" /\ r = cur
    BY <1>1, <1>10, <2>1, <2>3, CloseRowStep
  <2> QED BY <1>8, <2>2, <2>3 DEF HandleStuckPending
<1>9. CASE SettleStaleTask(p)
  <2>1. AttemptStep /\ ReopenStep
    BY <1>9, AggregateStep DEF TypeInv, TypeOK, SettleStaleTask
  <2> QED BY <1>1, <1>9, <2>1 DEF StepOK, RowStep, DeleteStep, SettleStaleTask, rowVars
<1> QED BY <1>2, <1>3, <1>4, <1>5, <1>6, <1>7, <1>8, <1>9 DEF Scheduler

\* The calls of the users, one by one.
LEMMA UserStep ==
    ASSUME TypeInv, User
    PROVE  StepOK
<1>1. CASE StopTask
  <2>1. RowStep
    BY <1>1, StopRowsStep DEF StopTask, FinishAttempt, UpdateSnapshot
  <2>2. AttemptStep
    BY <1>1 DEF TypeInv, TypeOK, StopTask, FinishAttempt, UpdateSnapshot, AttemptStep
  <2>3. ReopenStep /\ DeleteStep
    BY <1>1 DEF StopTask, FinishAttempt, UpdateSnapshot, ReopenStep, DeleteStep, TaskActive, TaskTerminal
  <2> QED BY <2>1, <2>2, <2>3 DEF StepOK
<1>2. ASSUME NEW n \in Node, StopSubtask(n) PROVE StepOK
  <2> DEFINE targets == Elements(Chain(deps[cur], OnStop, n)) \cap PendingNodes(cur)
  <2>1. StopRows(cur, targets) /\ Aggregate(cur, st'[cur]) /\ deleted' = deleted
    BY <1>2 DEF StopSubtask
  <2>2. targets \subseteq PendingNodes(cur)
    OBVIOUS
  <2>3. RowStep
    <3> HIDE DEF targets
    <3> QED BY <2>1, <2>2, StopRowsStep
  <2>4. AttemptStep /\ ReopenStep
    BY <2>1, AggregateStep DEF TypeInv, TypeOK
  <2> QED BY <2>1, <2>3, <2>4 DEF StepOK, DeleteStep
<1>3. CASE RetryTask
  <2>1. cur + 1 \in Run /\ cur \in Run
    BY <1>3, BoundAssumption DEF TypeInv, TypeOK, RetryTask, Run
  <2>2. \A r \in Run, n \in Node : st'[r][n] = IF r = cur + 1 THEN "pending" ELSE st[r][n]
    BY <1>3, <2>1 DEF TypeInv, TypeOK, RetryTask
  <2>3. AttemptStep
    BY <1>3, <2>1 DEF TypeInv, TypeOK, RetryTask, AttemptStep
  <2> QED BY <1>3, <2>2, <2>3 DEF StepOK, RowStep, ReopenStep, DeleteStep, RetryTask
<1>4. ASSUME NEW s, RetryRows(s) PROVE StepOK
  <2>1. cur \in Run /\ s \in Batches /\ \A n \in Elements(s) : st[cur][n] \in SubtaskTerminal
    BY <1>4 DEF TypeInv, TypeOK, RetryRows, ReopenAttempt, BatchAllowed
  <2>2. \A r \in Run, n \in Node :
            st'[r][n] = IF r = cur /\ n \in Elements(s) THEN "pending" ELSE st[r][n]
    BY <1>4, <2>1 DEF TypeInv, TypeOK, RetryRows, ReopenAttempt
  <2>3. RowStep
    BY <2>1, <2>2 DEF RowStep
  <2>4. AttemptStep
    BY <1>4, <2>1 DEF TypeInv, TypeOK, RetryRows, ReopenAttempt, AttemptStep
  <2>5. PICK n \in Node : n \in Elements(s)
    BY <2>1, BatchType
  <2>6. try'[cur][n] = try[cur][n] + 1
    BY <1>4, <2>1, <2>5 DEF TypeInv, TypeOK, RetryRows, ReopenAttempt
  <2>7. deleted' = deleted
    BY <1>4 DEF RetryRows, ReopenAttempt
  <2> QED BY <2>3, <2>4, <2>6, <2>7 DEF StepOK, ReopenStep, DeleteStep
<1>5. CASE DeleteBegin \/ DeleteAbort \/ DeleteCommit
  <2>1. UNCHANGED <<st, attempt, status>> /\ DeleteStep
    BY <1>5 DEF DeleteBegin, DeleteAbort, DeleteCommit, DeleteStep, taskVars, rowVars
  <2> QED BY <2>1, StillStep
<1> QED BY <1>1, <1>2, <1>3, <1>4, <1>5 DEF User, RetrySubtask, RetrySubtasks

\* Every step.
LEMMA NextStep == TypeInv /\ [Next]_vars => StepOK
<1> SUFFICES ASSUME TypeInv, [Next]_vars PROVE StepOK
  OBVIOUS
<1>1. CASE UNCHANGED vars \/ Runner \/ Clock
  <2>1. UNCHANGED <<st, attempt, status, deleted>>
    BY <1>1 DEF vars, Runner, Clock, ReportStatus, DeadlinePasses, taskVars, rowVars
  <2> QED BY <2>1, StillStep DEF DeleteStep
<1> QED BY <1>1, SchedulerStep, UserStep DEF Next

\* A terminal task comes back to life only by a retry, with any number of
\* replicas and late answers (_mark_run_started, _aggregate).
THEOREM ReopenedOnlyByRetry == Spec => OnlyRetryReopens
<1>1. TypeInv /\ [Next]_vars => [ReopenStep]_vars
  BY NextStep DEF StepOK
<1>2. Spec => [][ReopenStep]_vars
  BY <1>1, TypeInvariant, PTL DEF Spec
<1> QED BY <1>2 DEF OnlyRetryReopens, ReopenStep

\* Runs before the current one keep their result and their finished rows
\* (_absorb, _aggregate, handle_timeout).
THEOREM OldRunsKept == Spec => OldRunsFrozen
<1> DEFINE A == \A r \in 1..(cur - 1) :
                   /\ attempt'[r] = attempt[r]
                   /\ \A n \in Node :
                         st'[r][n] # st[r][n] =>
                             (st[r][n] = "running" /\ st'[r][n] \in SubtaskTerminal)
<1>1. TypeInv /\ [Next]_vars => A
  <2> SUFFICES ASSUME TypeInv, [Next]_vars, NEW r \in 1..(cur - 1)
               PROVE  /\ attempt'[r] = attempt[r]
                      /\ \A n \in Node :
                            st'[r][n] # st[r][n] =>
                                (st[r][n] = "running" /\ st'[r][n] \in SubtaskTerminal)
    OBVIOUS
  <2>1. r \in Run /\ r # cur /\ r # cur + 1
    BY BoundAssumption DEF TypeInv, TypeOK, Run
  <2> QED BY <2>1, NextStep DEF StepOK, RowStep, AttemptStep
<1>2. Spec => [][A]_vars
  BY <1>1, TypeInvariant, PTL DEF Spec
<1> QED BY <1>2 DEF OldRunsFrozen

\* A deleted task has nothing running, although delete_task lets go of the
\* lock between its two checks.
THEOREM DeletedStaysIdle == Spec => []DeletedIdle
<1>1. Init => DeletedIdle
  BY DEF Init, DeletedIdle
<1>2. TypeInv /\ DeletedIdle /\ [Next]_vars => DeletedIdle'
  <2> SUFFICES ASSUME TypeInv, DeletedIdle, [Next]_vars, deleted',
                      NEW r \in Run, NEW n \in Node, st'[r][n] = "running"
               PROVE  FALSE
    BY DEF DeletedIdle
  <2>1. CASE deleted
    BY <2>1, NextStep DEF StepOK, RowStep, DeletedIdle, SubtaskTerminal
  <2>2. CASE ~deleted
    BY <2>2, NextStep DEF StepOK, DeleteStep, Deletable
  <2> QED BY <2>1, <2>2
<1> QED BY <1>1, <1>2, TypeInvariant, PTL DEF Spec

-----------------------------------------------------------------------------
(***************************************************************************)
(* The history of attempts.                                                *)
(***************************************************************************)
\* HistoryAgrees, and of a row that does not exist yet no attempt was opened.
History ==
    \A r \in Run, n \in Node :
        /\ hist[r][n][try[r][n]] = st[r][n]
        /\ \A k \in Try : /\ k < try[r][n] => hist[r][n][k] \in SubtaskTerminal
                          /\ k > try[r][n] => hist[r][n][k] = "none"
        /\ st[r][n] = "none" => try[r][n] = 1

\* The rows of all runs up to the current one exist.
RunsExist == \A r \in Run, n \in Node : r <= cur => st[r][n] # "none"

\* This step writes v into the history of the attempts E and of no others.
Writes(E, v) ==
    \A r \in Run, n \in Node, k \in Try :
        /\ <<r, n, k>> \in E => hist'[r][n][k] = v
        /\ <<r, n, k>> \notin E => hist'[r][n][k] = hist[r][n][k]

\* This step sets the rows R (a set of pairs) to v and leaves the others, and
\* all attempt numbers, alone.
Sets(R, v) ==
    /\ \A r \in Run, n \in Node : st'[r][n] = IF <<r, n>> \in R THEN v ELSE st[r][n]
    /\ try' = try

\* The present attempts of the rows R.
Present(R) ==
    {e \in Execution : <<e[1], e[2]>> \in R /\ e[3] = try[e[1]][e[2]]}

\* set_status_cas finds the history row in the status of its row.
LEMMA SyncWrites ==
    ASSUME TypeInv, History, NEW r \in Run, NEW n \in Node, NEW from, NEW to, st[r][n] \in from
    PROVE  SyncAttemptRow(hist[r][n], try[r][n], from, to) =
               [hist[r][n] EXCEPT ![try[r][n]] = to]
BY DEF TypeInv, TypeOK, History, SyncAttemptRow

\* Writing the row and the history of its present attempt alike keeps them
\* alike, as long as the row exists before and after.
LEMMA HistorySets ==
    ASSUME TypeInv, History, NEW R \in SUBSET (Run \X Node), NEW v, v # "none",
           Sets(R, v), Writes(Present(R), v)
    PROVE  History'
<1> SUFFICES ASSUME NEW r \in Run, NEW n \in Node
             PROVE  /\ hist'[r][n][try[r][n]] = st'[r][n]
                    /\ \A k \in Try : /\ k < try[r][n] => hist'[r][n][k] \in SubtaskTerminal
                                      /\ k > try[r][n] => hist'[r][n][k] = "none"
                    /\ st'[r][n] = "none" => try[r][n] = 1
  BY DEF History, Sets
<1>1. try[r][n] \in Try /\ Try \subseteq Int
  BY BoundAssumption DEF TypeInv, TypeOK, Try
<1>2. \A k \in Try : <<r, n, k>> \in Present(R) <=> (<<r, n>> \in R /\ k = try[r][n])
  BY DEF Present, Execution
<1>3. \A k \in Try : k # try[r][n] => hist'[r][n][k] = hist[r][n][k]
  BY <1>2 DEF Writes
<1>4. hist'[r][n][try[r][n]] = IF <<r, n>> \in R THEN v ELSE hist[r][n][try[r][n]]
  BY <1>1, <1>2 DEF Writes
<1>5. hist'[r][n][try[r][n]] = st'[r][n]
  BY <1>4 DEF Sets, History
<1>6. \A k \in Try : /\ k < try[r][n] => hist'[r][n][k] \in SubtaskTerminal
                     /\ k > try[r][n] => hist'[r][n][k] = "none"
  BY <1>1, <1>3 DEF History
<1>7. st'[r][n] = "none" => try[r][n] = 1
  <2>1. st[r][n] = "none" => try[r][n] = 1
    BY DEF History
  <2> QED BY <2>1 DEF Sets
<1> QED BY <1>5, <1>6, <1>7

\* _close_subtask_row, whoever calls it.
LEMMA ClosesWrites ==
    ASSUME TypeInv, History, NEW r \in Run, NEW n \in Node, NEW from, NEW to,
           Closes(r, n, from, to)
    PROVE  Sets({<<r, n>>}, to) /\ Writes({<<r, n, try[r][n]>>}, to)
<1>1. SyncAttemptRow(hist[r][n], try[r][n], from, to) = [hist[r][n] EXCEPT ![try[r][n]] = to]
  <2>1. st[r][n] \in from
    BY DEF Closes
  <2> QED BY <2>1, SyncWrites
<1>2. /\ st'   = [st EXCEPT ![r] = [st[r] EXCEPT ![n] = to]]
      /\ hist' = [hist EXCEPT ![r][n] = SyncAttemptRow(hist[r][n], try[r][n], from, to)]
      /\ try' = try
  BY DEF Closes, CloseRow
<1>3. Sets({<<r, n>>}, to)
  BY <1>2 DEF Sets, TypeInv, TypeOK
<1>4. \A q \in Run, m \in Node :
          hist'[q][m] = IF q = r /\ m = n THEN [hist[r][n] EXCEPT ![try[r][n]] = to]
                        ELSE hist[q][m]
  BY <1>1, <1>2 DEF TypeInv, TypeOK
<1>5. Writes({<<r, n, try[r][n]>>}, to)
  BY <1>4 DEF Writes, TypeInv, TypeOK
<1> QED BY <1>3, <1>5

\* claim_for_dispatch.
LEMMA ClaimWrites ==
    ASSUME TypeInv, History, NEW p \in Replica, NEW n \in Node, ClaimForDispatch(p, n)
    PROVE  Sets({<<cur, n>>}, "running") /\ Writes({<<cur, n, try[cur][n]>>}, "running")
<1>1. cur \in Run /\ st[cur][n] = "pending"
  BY DEF TypeInv, TypeOK, ClaimForDispatch, Claimable, RunnablePending
<1>2. SyncAttemptRow(hist[cur][n], try[cur][n], {"pending"}, "running") =
          [hist[cur][n] EXCEPT ![try[cur][n]] = "running"]
  <2>1. st[cur][n] \in {"pending"}
    BY <1>1
  <2> QED BY <1>1, <2>1, SyncWrites
<1>3. \A q \in Run, m \in Node :
          hist'[q][m] = IF q = cur /\ m = n
                        THEN [hist[cur][n] EXCEPT ![try[cur][n]] = "running"]
                        ELSE hist[q][m]
  BY <1>1, <1>2 DEF TypeInv, TypeOK, ClaimForDispatch
<1>4. Sets({<<cur, n>>}, "running")
  BY <1>1 DEF Sets, TypeInv, TypeOK, ClaimForDispatch
<1>5. Writes({<<cur, n, try[cur][n]>>}, "running")
  BY <1>3 DEF Writes, TypeInv, TypeOK
<1> QED BY <1>4, <1>5

\* stop_task and stop_subtask.
LEMMA StopWrites ==
    ASSUME TypeInv, History, NEW targets, targets \subseteq PendingNodes(cur),
           StopRows(cur, targets), try' = try
    PROVE  Sets({cur} \X targets, "stopped") /\ Writes(Present({cur} \X targets), "stopped")
<1>1. cur \in Run
  BY DEF TypeInv, TypeOK
<1>2. \A n \in targets : n \in Node /\ st[cur][n] = "pending"
  BY DEF PendingNodes
<1>3. \A n \in targets :
          SyncAttemptRow(hist[cur][n], try[cur][n], {"pending", "running"}, "stopped") =
              [hist[cur][n] EXCEPT ![try[cur][n]] = "stopped"]
  <2> TAKE n \in targets
  <2>1. n \in Node /\ st[cur][n] \in {"pending", "running"}
    BY <1>2
  <2> QED BY <1>1, <2>1, SyncWrites
<1>4. \A q \in Run, m \in Node :
          hist'[q][m] = IF q = cur /\ m \in targets
                        THEN [hist[cur][m] EXCEPT ![try[cur][m]] = "stopped"]
                        ELSE hist[q][m]
  BY <1>1, <1>3 DEF TypeInv, TypeOK, StopRows
<1>5. Sets({cur} \X targets, "stopped")
  BY <1>1 DEF Sets, TypeInv, TypeOK, StopRows
<1>6. \A q \in Run, m \in Node, k \in Try :
          <<q, m, k>> \in Present({cur} \X targets) <=>
              (q = cur /\ m \in targets /\ k = try[q][m])
  BY DEF Present, Execution
<1>7. \A q \in Run, m \in Node, k \in Try :
          /\ (q = cur /\ m \in targets /\ k = try[q][m]) => hist'[q][m][k] = "stopped"
          /\ ~(q = cur /\ m \in targets /\ k = try[q][m]) => hist'[q][m][k] = hist[q][m][k]
  <2> TAKE q \in Run, m \in Node, k \in Try
  <2>1. hist[q][m] \in [Try -> {"none"} \cup SubtaskStatus] /\ try[q][m] \in Try
    BY DEF TypeInv, TypeOK
  <2>2. CASE q = cur /\ m \in targets
    BY <1>4, <2>1, <2>2
  <2>3. CASE ~(q = cur /\ m \in targets)
    BY <1>4, <2>3
  <2> QED BY <2>2, <2>3
<1>8. Writes(Present({cur} \X targets), "stopped")
  <2> SUFFICES ASSUME NEW q \in Run, NEW m \in Node, NEW k \in Try
               PROVE  /\ <<q, m, k>> \in Present({cur} \X targets) => hist'[q][m][k] = "stopped"
                      /\ <<q, m, k>> \notin Present({cur} \X targets) => hist'[q][m][k] = hist[q][m][k]
    BY DEF Writes
  <2>1. <<q, m, k>> \in Present({cur} \X targets) <=> (q = cur /\ m \in targets /\ k = try[q][m])
    BY <1>6, Zenon
  <2>2. /\ (q = cur /\ m \in targets /\ k = try[q][m]) => hist'[q][m][k] = "stopped"
        /\ ~(q = cur /\ m \in targets /\ k = try[q][m]) => hist'[q][m][k] = hist[q][m][k]
    BY <1>7, Zenon
  <2> QED BY <2>1, <2>2, Zenon
<1> QED BY <1>5, <1>8

\* _do_retry_task: the first attempts of the new run.
LEMMA RetryTaskWrites ==
    ASSUME TypeInv, RetryTask
    PROVE  /\ cur + 1 \in Run /\ 1 \in Try
           /\ Sets({cur + 1} \X Node, "pending")
           /\ Writes({cur + 1} \X Node \X {1}, "pending")
<1>1. cur + 1 \in Run /\ 1 \in Try
  BY BoundAssumption DEF TypeInv, TypeOK, RetryTask, Run, Try
<1>2. Sets({cur + 1} \X Node, "pending")
  BY <1>1 DEF Sets, TypeInv, TypeOK, RetryTask
<1>3. \A q \in Run, m \in Node :
          hist'[q][m] = IF q = cur + 1 THEN [hist[cur + 1][m] EXCEPT ![1] = "pending"]
                        ELSE hist[q][m]
  BY <1>1 DEF TypeInv, TypeOK, RetryTask
<1>4. \A q \in Run, m \in Node, k \in Try :
          hist'[q][m][k] = IF q = cur + 1 /\ k = 1 THEN "pending" ELSE hist[q][m][k]
  <2> TAKE q \in Run, m \in Node, k \in Try
  <2>1. hist[q][m] \in [Try -> {"none"} \cup SubtaskStatus]
    BY DEF TypeInv, TypeOK
  <2> QED BY <1>1, <1>3, <2>1
<1>5. \A q \in Run, m \in Node, k \in Try :
          <<q, m, k>> \in {cur + 1} \X Node \X {1} <=> (q = cur + 1 /\ k = 1)
  OBVIOUS
<1>6. Writes({cur + 1} \X Node \X {1}, "pending")
  <2> SUFFICES ASSUME NEW q \in Run, NEW m \in Node, NEW k \in Try
               PROVE  /\ <<q, m, k>> \in {cur + 1} \X Node \X {1} => hist'[q][m][k] = "pending"
                      /\ <<q, m, k>> \notin {cur + 1} \X Node \X {1} => hist'[q][m][k] = hist[q][m][k]
    BY DEF Writes
  <2> QED BY <1>4, <1>5
<1> QED BY <1>1, <1>2, <1>6

\* The next attempts of the rows of a batch.
Following(s) ==
    {e \in Execution : e[1] = cur /\ e[2] \in Elements(s) /\ e[3] = try[cur][e[2]] + 1}

\* _do_retry_subtasks opens the next attempt of every row of the batch.
LEMMA RetryRowsWrites ==
    ASSUME TypeInv, NEW s, RetryRows(s)
    PROVE  /\ Writes(Following(s), "pending")
           /\ \A r \in Run, n \in Node :
                  IF r = cur /\ n \in Elements(s)
                  THEN st'[r][n] = "pending" /\ try'[r][n] = try[r][n] + 1 /\ try'[r][n] \in Try
                  ELSE st'[r][n] = st[r][n] /\ try'[r][n] = try[r][n]
<1> DEFINE k == [n \in Node |-> IF n \in Elements(s) THEN try[cur][n] + 1 ELSE try[cur][n]]
<1>1. cur \in Run
  BY DEF TypeInv, TypeOK
<1>2. \A r \in Run, n \in Node :
          IF r = cur /\ n \in Elements(s)
          THEN st'[r][n] = "pending" /\ try'[r][n] = try[r][n] + 1
          ELSE st'[r][n] = st[r][n] /\ try'[r][n] = try[r][n]
  BY <1>1 DEF TypeInv, TypeOK, RetryRows, ReopenAttempt
<1>3. \A n \in Elements(s) : n \in Node /\ try[cur][n] + 1 \in Try
  <2>1. \A n \in Elements(s) : n \in Node /\ try[cur][n] < MaxTry
    BY BatchType DEF RetryRows, ReopenAttempt, BatchAllowed
  <2> QED BY <1>1, <2>1, BoundAssumption DEF TypeInv, TypeOK, Try
<1>4. hist' = [hist EXCEPT ![cur] =
                  [n \in Node |-> IF n \in Elements(s)
                                  THEN [hist[cur][n] EXCEPT ![k[n]] = "pending"]
                                  ELSE hist[cur][n]]]
  BY DEF RetryRows, ReopenAttempt
<1>5. \A q \in Run, m \in Node :
          hist'[q][m] = IF q = cur /\ m \in Elements(s)
                        THEN [hist[cur][m] EXCEPT ![try[cur][m] + 1] = "pending"]
                        ELSE hist[q][m]
  BY <1>1, <1>4 DEF TypeInv, TypeOK
<1>6. \A q \in Run, m \in Node, i \in Try :
          <<q, m, i>> \in Following(s) <=> (q = cur /\ m \in Elements(s) /\ i = try[cur][m] + 1)
  BY DEF Following, Execution
<1>7. \A q \in Run, m \in Node, i \in Try :
          hist'[q][m][i] = IF q = cur /\ m \in Elements(s) /\ i = try[cur][m] + 1 THEN "pending"
                           ELSE hist[q][m][i]
  <2> TAKE q \in Run, m \in Node, i \in Try
  <2>1. hist[q][m] \in [Try -> {"none"} \cup SubtaskStatus]
    BY DEF TypeInv, TypeOK
  <2>2. CASE q = cur /\ m \in Elements(s)
    BY <1>3, <1>5, <2>1, <2>2
  <2>3. CASE ~(q = cur /\ m \in Elements(s))
    BY <1>5, <2>3
  <2> QED BY <2>2, <2>3
<1>8. Writes(Following(s), "pending")
  <2> SUFFICES ASSUME NEW q \in Run, NEW m \in Node, NEW i \in Try
               PROVE  /\ <<q, m, i>> \in Following(s) => hist'[q][m][i] = "pending"
                      /\ <<q, m, i>> \notin Following(s) => hist'[q][m][i] = hist[q][m][i]
    BY DEF Writes
  <2> QED BY <1>6, <1>7
<1> QED BY <1>2, <1>3, <1>8

\* A task as fire creates it.
LEMMA HistoryInit == Init => History /\ RunsExist
<1> SUFFICES ASSUME Init PROVE History /\ RunsExist
  OBVIOUS
<1>1. 1 \in Try /\ Try \subseteq Int /\ Run \subseteq Int /\ \A k \in Try : k >= 1
  BY BoundAssumption DEF Try, Run
<1>2. \A r \in Run, n \in Node : /\ try[r][n] = 1
                                 /\ st[r][n] = IF r = 1 THEN "pending" ELSE "none"
                                 /\ \A k \in Try : hist[r][n][k] = IF r = 1 /\ k = 1 THEN "pending" ELSE "none"
  BY DEF Init
<1>3. History
  BY <1>1, <1>2 DEF History
<1>4. RunsExist
  <2>1. cur = 1 /\ \A r \in Run : r <= 1 => r = 1
    BY BoundAssumption DEF Init, Run
  <2> QED BY <1>2, <2>1 DEF RunsExist
<1> QED BY <1>3, <1>4

\* A step that creates no row and moves to no new run keeps all rows there are.
LEMMA ExistSets ==
    ASSUME RunsExist, cur' = cur, NEW R, NEW v, v # "none", Sets(R, v)
    PROVE  RunsExist'
BY DEF RunsExist, Sets

\* Every step keeps the history true.
LEMMA HistoryNext ==
    TypeInv /\ History /\ RunsExist /\ [Next]_vars => (History /\ RunsExist)'
<1> SUFFICES ASSUME TypeInv, History, RunsExist, [Next]_vars PROVE History' /\ RunsExist'
  OBVIOUS
<1>0. cur \in Run /\ Run \subseteq Int
  BY BoundAssumption DEF TypeInv, TypeOK, Run
<1>1. CASE Rests \/ \E p \in Replica : SettleStaleTask(p)
  <2>1. UNCHANGED <<cur, st, try, hist>>
    BY <1>1 DEF Rests, SettleStaleTask, NeedsSettle, rowVars
  <2> QED BY <2>1 DEF History, RunsExist
<1>2. CASE Closing
  <2>1. PICK r \in Run, n \in Node, from \in SUBSET {"pending", "running"}, to \in SubtaskTerminal :
            Closes(r, n, from, to)
    BY <1>2 DEF Closing
  <2>2. Sets({<<r, n>>}, to) /\ Writes({<<r, n, try[r][n]>>}, to) /\ cur' = cur /\ to # "none"
    BY <2>1, ClosesWrites DEF Closes, SubtaskTerminal
  <2>3. Present({<<r, n>>}) = {<<r, n, try[r][n]>>} /\ {<<r, n>>} \in SUBSET (Run \X Node)
    BY DEF Present, Execution, TypeInv, TypeOK
  <2> QED BY <2>2, <2>3, HistorySets, ExistSets
<1>3. ASSUME NEW p \in Replica, NEW n \in Node, ClaimForDispatch(p, n) PROVE History' /\ RunsExist'
  <2>1. /\ Sets({<<cur, n>>}, "running") /\ Writes({<<cur, n, try[cur][n]>>}, "running")
        /\ cur' = cur
    BY <1>3, ClaimWrites DEF ClaimForDispatch, taskVars
  <2>2. Present({<<cur, n>>}) = {<<cur, n, try[cur][n]>>} /\ {<<cur, n>>} \in SUBSET (Run \X Node)
    BY <1>0 DEF Present, Execution, TypeInv, TypeOK
  <2> QED BY <2>1, <2>2, HistorySets, ExistSets
<1>4. ASSUME NEW targets, targets \subseteq PendingNodes(cur), StopRows(cur, targets),
             try' = try, cur' = cur
      PROVE  History' /\ RunsExist'
  <2>1. Sets({cur} \X targets, "stopped") /\ Writes(Present({cur} \X targets), "stopped")
    BY <1>4, StopWrites
  <2>2. {cur} \X targets \in SUBSET (Run \X Node)
    BY <1>0, <1>4 DEF PendingNodes
  <2> QED BY <1>4, <2>1, <2>2, HistorySets, ExistSets
<1>5. CASE StopTask
  BY <1>4, <1>5 DEF StopTask, FinishAttempt, UpdateSnapshot
<1>6. ASSUME NEW n \in Node, StopSubtask(n) PROVE History' /\ RunsExist'
  <2> DEFINE targets == Elements(Chain(deps[cur], OnStop, n)) \cap PendingNodes(cur)
  <2>1. StopRows(cur, targets) /\ try' = try /\ cur' = cur /\ targets \subseteq PendingNodes(cur)
    BY <1>6 DEF StopSubtask
  <2> HIDE DEF targets
  <2> QED BY <1>4, <2>1
<1>7. CASE RetryTask
  <2>1. /\ cur + 1 \in Run /\ 1 \in Try /\ cur' = cur + 1
        /\ Sets({cur + 1} \X Node, "pending")
        /\ Writes({cur + 1} \X Node \X {1}, "pending")
    BY <1>7, RetryTaskWrites DEF RetryTask
  <2>2. \A n \in Node : try[cur + 1][n] = 1
    BY <1>0, <2>1 DEF TypeInv, AheadNone, History
  <2>3. Writes(Present({cur + 1} \X Node), "pending")
    <3>1. \A q \in Run, m \in Node, k \in Try :
              <<q, m, k>> \in Present({cur + 1} \X Node) <=> <<q, m, k>> \in {cur + 1} \X Node \X {1}
      BY <2>1, <2>2 DEF Present, Execution
    <3>2. \A q \in Run, m \in Node, k \in Try :
              /\ <<q, m, k>> \in {cur + 1} \X Node \X {1} => hist'[q][m][k] = "pending"
              /\ <<q, m, k>> \notin {cur + 1} \X Node \X {1} => hist'[q][m][k] = hist[q][m][k]
      BY <2>1, Zenon DEF Writes
    <3> SUFFICES ASSUME NEW q \in Run, NEW m \in Node, NEW k \in Try
                 PROVE  /\ <<q, m, k>> \in Present({cur + 1} \X Node) => hist'[q][m][k] = "pending"
                        /\ <<q, m, k>> \notin Present({cur + 1} \X Node) =>
                               hist'[q][m][k] = hist[q][m][k]
      BY Zenon DEF Writes
    <3>3. <<q, m, k>> \in Present({cur + 1} \X Node) <=> <<q, m, k>> \in {cur + 1} \X Node \X {1}
      BY <3>1, Zenon
    <3>4. /\ <<q, m, k>> \in {cur + 1} \X Node \X {1} => hist'[q][m][k] = "pending"
          /\ <<q, m, k>> \notin {cur + 1} \X Node \X {1} => hist'[q][m][k] = hist[q][m][k]
      BY <3>2, Zenon
    <3> QED BY <3>3, <3>4, Zenon
  <2>4. {cur + 1} \X Node \in SUBSET (Run \X Node)
    BY <2>1
  <2>5. History'
    BY <2>1, <2>3, <2>4, HistorySets
  <2>6. RunsExist'
    <3> SUFFICES ASSUME NEW r \in Run, NEW n \in Node, r <= cur + 1 PROVE st'[r][n] # "none"
      BY <2>1 DEF RunsExist
    <3>1. CASE r = cur + 1
      BY <2>1, <3>1 DEF Sets
    <3>2. CASE r # cur + 1
      <4>1. r <= cur
        BY <1>0, <3>2
      <4>2. <<r, n>> \notin {cur + 1} \X Node
        BY <3>2
      <4> QED BY <2>1, <4>1, <4>2 DEF Sets, RunsExist
    <3> QED BY <3>1, <3>2
  <2> QED BY <2>5, <2>6
<1>8. ASSUME NEW s, RetryRows(s) PROVE History' /\ RunsExist'
  <2>1. /\ Writes(Following(s), "pending")
        /\ \A r \in Run, n \in Node :
               IF r = cur /\ n \in Elements(s)
               THEN st'[r][n] = "pending" /\ try'[r][n] = try[r][n] + 1 /\ try'[r][n] \in Try
               ELSE st'[r][n] = st[r][n] /\ try'[r][n] = try[r][n]
    BY <1>8, RetryRowsWrites
  <2>2. cur' = cur /\ \A n \in Elements(s) : st[cur][n] \in SubtaskTerminal
    BY <1>8 DEF RetryRows, ReopenAttempt, BatchAllowed
  <2>3. RunsExist'
    BY <2>1, <2>2 DEF RunsExist
  <2>4. History'
    <3> SUFFICES ASSUME NEW r \in Run, NEW n \in Node
                 PROVE  /\ hist'[r][n][try'[r][n]] = st'[r][n]
                        /\ \A k \in Try : /\ k < try'[r][n] => hist'[r][n][k] \in SubtaskTerminal
                                          /\ k > try'[r][n] => hist'[r][n][k] = "none"
                        /\ st'[r][n] = "none" => try'[r][n] = 1
      BY DEF History
    <3>1. try[r][n] \in Int /\ \A k \in Try : k \in Int
      BY BoundAssumption DEF TypeInv, TypeOK, Try
    <3>4. /\ hist[r][n][try[r][n]] = st[r][n]
          /\ \A k \in Try : /\ k < try[r][n] => hist[r][n][k] \in SubtaskTerminal
                            /\ k > try[r][n] => hist[r][n][k] = "none"
          /\ st[r][n] = "none" => try[r][n] = 1
      BY DEF History
    <3>2. CASE r = cur /\ n \in Elements(s)
      <4>1. \A k \in Try : <<r, n, k>> \in Following(s) <=> k = try[r][n] + 1
        BY <3>2 DEF Following, Execution
      <4>2. \A k \in Try : hist'[r][n][k] = IF k = try[r][n] + 1 THEN "pending" ELSE hist[r][n][k]
        BY <2>1, <4>1 DEF Writes
      <4>3. \A k \in Try : k < try[r][n] + 1 => hist[r][n][k] \in SubtaskTerminal
        BY <2>2, <3>1, <3>2, <3>4
      <4>4. \A k \in Try : k > try[r][n] + 1 => hist[r][n][k] = "none"
        BY <3>1, <3>4
      <4>5. try'[r][n] = try[r][n] + 1 /\ try'[r][n] \in Try /\ st'[r][n] = "pending"
        BY <2>1, <3>2
      <4>6. \A k \in Try : /\ k < try[r][n] + 1 => hist'[r][n][k] \in SubtaskTerminal
                           /\ k > try[r][n] + 1 => hist'[r][n][k] = "none"
        BY <3>1, <4>2, <4>3, <4>4
      <4> QED BY <4>2, <4>5, <4>6
    <3>3. CASE ~(r = cur /\ n \in Elements(s))
      <4>1. \A k \in Try : hist'[r][n][k] = hist[r][n][k]
        <5>1. \A k \in Try : <<r, n, k>> \notin Following(s)
          BY <3>3 DEF Following, Execution
        <5> QED BY <2>1, <5>1 DEF Writes
      <4>2. st'[r][n] = st[r][n] /\ try'[r][n] = try[r][n]
        BY <2>1, <3>3
      <4>3. try[r][n] \in Try
        BY DEF TypeInv, TypeOK
      <4> QED BY <3>4, <4>1, <4>2, <4>3
    <3> QED BY <3>2, <3>3
  <2> QED BY <2>3, <2>4
<1> QED BY <1>1, <1>2, <1>3, <1>5, <1>6, <1>7, <1>8, StepKinds

\* The inductive invariant of the history and of the refinement below.
LEMMA HistoryInvariant == Spec => [](TypeInv /\ Safe /\ History /\ RunsExist)
<1>1. Init => History /\ RunsExist
  BY HistoryInit
<1>2. TypeInv /\ History /\ RunsExist /\ [Next]_vars => (History /\ RunsExist)'
  BY HistoryNext
<1>3. Spec => [](History /\ RunsExist)
  BY <1>1, <1>2, TypeInvariant, PTL DEF Spec
<1> QED BY <1>3, SafeInvariant, PTL

\* The history table tells the same story as the rows (_sync_attempt_row),
\* for every flow, any number of replicas, runs and attempts.
THEOREM HistoryCorrect == Spec => []HistoryAgrees
<1>1. History => HistoryAgrees
  BY DEF History, HistoryAgrees
<1> QED BY <1>1, HistoryInvariant, PTL

\* The runner's success is never taken back: no execution is sent twice.
LEMMA SuccessKept ==
    ASSUME TypeInv, [Next]_vars
    PROVE  \A e \in Execution : runner[e] = "success" => runner'[e] = "success"
<1>1. ASSUME NEW p \in Replica, NEW v \in Verdict, Dispatch(p, v)
      PROVE  \A e \in Execution : runner[e] = "success" => runner'[e] = "success"
  <2>1. job[p].exec \in Execution /\ runner[job[p].exec] = "none"
    BY <1>1, JobType DEF TypeInv, OneOutbound, Dispatch
  <2> QED BY <1>1, <2>1 DEF Dispatch, TypeInv, TypeOK
<1>2. ASSUME NEW x, NEW v, Answers(x, v)
      PROVE  \A e \in Execution : runner[e] = "success" => runner'[e] = "success"
  BY <1>2 DEF Answers, TypeInv, TypeOK
<1>3. \/ runner' = runner
      \/ \E p \in Replica, v \in Verdict : Dispatch(p, v)
      \/ \E x, v : Answers(x, v)
  <2>1. CASE \E p \in Replica : Scheduler(p)
    BY <2>1 DEF Scheduler, ClaimForDispatch, ClaimUnbound, FinalizeDispatch, Forget, QueryOne,
         AbsorbReport, DeadLetter, PatrolScan, PatrolQuery, HandleTimeout, StuckScan,
         HandleStuckPending, SettleStaleTask
  <2>2. CASE Runner \/ Clock \/ UNCHANGED vars
    BY <2>2 DEF Runner, ReportStatus, Clock, DeadlinePasses, vars
  <2>3. CASE User
    BY <2>3 DEF User, StopTask, StopSubtask, RetryTask, RetrySubtask, RetrySubtasks, RetryRows,
         DeleteBegin, DeleteAbort, DeleteCommit
  <2> QED BY <2>1, <2>2, <2>3 DEF Next
<1> QED BY <1>1, <1>2, <1>3

\* A row is success only because the runner succeeded in that very attempt,
\* however many reports are late, lost, repeated or stale (_absorb).
THEOREM SuccessCorrect == Spec => []SuccessIsReported
<1>1. Init => SuccessIsReported
  BY DEF Init, SuccessIsReported
<1>2. TypeInv /\ History /\ SuccessIsReported /\ [Next]_vars => SuccessIsReported'
  <2> SUFFICES ASSUME TypeInv, History, SuccessIsReported, [Next]_vars,
                      NEW r \in Run, NEW n \in Node, st'[r][n] = "success"
               PROVE  runner'[<<r, n, try'[r][n]>>] = "success"
    BY DEF SuccessIsReported
  <2>1. \A q \in Run, m \in Node : <<q, m, try[q][m]>> \in Execution
    BY DEF TypeInv, TypeOK, Execution
  <2>2. CASE st[r][n] = "success" /\ try'[r][n] = try[r][n]
    BY <2>1, <2>2, SuccessKept DEF SuccessIsReported
  <2>3. ASSUME NEW R, NEW v, v # "success", Sets(R, v)
        PROVE  st[r][n] = "success" /\ try'[r][n] = try[r][n]
    BY <2>3 DEF Sets
  <2>4. CASE Rests \/ \E p \in Replica : SettleStaleTask(p)
    BY <2>2, <2>4 DEF Rests, SettleStaleTask, NeedsSettle, rowVars
  <2>5. CASE Closing
    <3>1. PICK q \in Run, m \in Node, from \in SUBSET {"pending", "running"}, to \in SubtaskTerminal :
              Closes(q, m, from, to)
      BY <2>5 DEF Closing
    <3>2. Sets({<<q, m>>}, to) /\ (to = "success" => runner[<<q, m, try[q][m]>>] = "success")
      BY <3>1, ClosesWrites DEF Closes
    <3>3. CASE q = r /\ m = n
      BY <2>1, <3>2, <3>3, SuccessKept DEF Sets
    <3>4. CASE ~(q = r /\ m = n)
      BY <2>2, <3>2, <3>4 DEF Sets
    <3> QED BY <3>3, <3>4
  <2>6. CASE \E p \in Replica, m \in Node : ClaimForDispatch(p, m)
    BY <2>2, <2>3, <2>6, ClaimWrites
  <2>7. CASE StopTask
    <3>1. \E R : Sets(R, "stopped")
      BY <2>7, StopWrites DEF StopTask, FinishAttempt, UpdateSnapshot
    <3> QED BY <2>2, <2>3, <3>1
  <2>8. ASSUME NEW m \in Node, StopSubtask(m) PROVE st[r][n] = "success" /\ try'[r][n] = try[r][n]
    <3> DEFINE targets == Elements(Chain(deps[cur], OnStop, m)) \cap PendingNodes(cur)
    <3>1. StopRows(cur, targets) /\ try' = try /\ targets \subseteq PendingNodes(cur)
      BY <2>8 DEF StopSubtask
    <3> HIDE DEF targets
    <3> QED BY <2>3, <3>1, StopWrites
  <2>9. CASE RetryTask
    BY <2>2, <2>3, <2>9, RetryTaskWrites
  <2>10. CASE \E s : RetryRows(s)
    BY <2>2, <2>10, RetryRowsWrites
  <2> QED BY <2>2, <2>4, <2>5, <2>6, <2>7, <2>8, <2>9, <2>10, StepKinds
<1> QED BY <1>1, <1>2, HistoryInvariant, PTL DEF Spec

-----------------------------------------------------------------------------
(***************************************************************************)
(* TaskCenter implements TaskLedger, step by step: a claim begins a line,  *)
(* a closed row ends one, a stop ends what was pending, a retry opens      *)
(* lines again, a delete discards the task, settling closes it, and every  *)
(* other step leaves the ledger alone.                                     *)
(***************************************************************************)
\* The lines of the ledger are the executions.
LEMMA LedgerLine == Ledger!Line = Execution
BY DEF Ledger!Line, Execution

\* The first page of the ledger.
LEMMA LedgerInit == Init => Ledger!Init
<1> SUFFICES ASSUME Init PROVE Ledger!Init
  OBVIOUS
<1>1. \A e \in Execution : hist[e[1]][e[2]][e[3]] = IF e[1] = 1 /\ e[3] = 1 THEN "pending" ELSE "none"
  BY DEF Init, Execution
<1>2. status \in TaskActive /\ deleted = FALSE
  BY DEF Init, TaskActive
<1> QED BY <1>1, <1>2, LedgerLine DEF Ledger!Init

\* A step that writes no history, moves the task neither into nor out of its
\* active statuses and deletes nothing leaves the ledger alone.
LEMMA LedgerStutter ==
    ASSUME hist' = hist, deleted' = deleted, status' \in TaskActive <=> status \in TaskActive
    PROVE  UNCHANGED Ledger!vars
BY DEF Ledger!vars

\* Writing history rows writes the lines.
LEMMA LedgerWrite ==
    ASSUME NEW E, NEW v, Writes(E, v)
    PROVE  Ledger!Write(E, v)
<1>1. \A e \in Execution : hist'[e[1]][e[2]][e[3]] = IF e \in E THEN v ELSE hist[e[1]][e[2]][e[3]]
  <2> TAKE e \in Execution
  <2>1. e[1] \in Run /\ e[2] \in Node /\ e[3] \in Try /\ e = <<e[1], e[2], e[3]>>
    BY DEF Execution
  <2>2. /\ e \in E => hist'[e[1]][e[2]][e[3]] = v
        /\ e \notin E => hist'[e[1]][e[2]][e[3]] = hist[e[1]][e[2]][e[3]]
    BY <2>1, Zenon DEF Writes
  <2> QED BY <2>2
<1> QED BY <1>1, LedgerLine DEF Ledger!Write

\* What is in the current run is in the newest run of the ledger.
LEMMA LedgerNewest ==
    ASSUME TypeInv, History, NEW e \in Execution, e[1] = cur
    PROVE  Ledger!Newest(e)
<1>1. ASSUME NEW f \in Execution, f[1] > cur PROVE hist[f[1]][f[2]][f[3]] = "none"
  <2>1. f[1] \in Run /\ f[2] \in Node /\ f[3] \in Try
    BY DEF Execution
  <2>2. st[f[1]][f[2]] = "none"
    BY <1>1, <2>1 DEF TypeInv, AheadNone
  <2>3. try[f[1]][f[2]] = 1 /\ hist[f[1]][f[2]][1] = "none"
    BY <2>1, <2>2 DEF History
  <2>4. f[3] = 1 \/ f[3] > 1
    BY <2>1, BoundAssumption DEF Try
  <2> QED BY <2>1, <2>3, <2>4 DEF History
<1> QED BY <1>1, LedgerLine DEF Ledger!Newest

\* A move of the ledger's lines is a step of it.
LEMMA LedgerBegins ==
    ASSUME NEW e \in Execution, Ledger!Begin(e)
    PROVE  Ledger!Next
<1>1. \E f \in Ledger!Line : Ledger!Begin(f)
  BY LedgerLine, Zenon
<1> QED BY <1>1, Zenon DEF Ledger!Next

LEMMA LedgerEnds ==
    ASSUME NEW E \in (SUBSET Execution) \ {{}}, NEW v \in Ledger!Ends, Ledger!End(E, v)
    PROVE  Ledger!Next
<1>1. \E F \in (SUBSET Ledger!Line) \ {{}} : \E w \in Ledger!Ends : Ledger!End(F, w)
  BY LedgerLine, Zenon
<1> QED BY <1>1, Zenon DEF Ledger!Next

LEMMA LedgerOpens ==
    ASSUME NEW E \in (SUBSET Execution) \ {{}}, Ledger!Again(E)
    PROVE  Ledger!Next
<1>1. \E F \in (SUBSET Ledger!Line) \ {{}} : Ledger!Again(F)
  BY LedgerLine, Zenon
<1> QED BY <1>1, Zenon DEF Ledger!Next

\* What the history says of an execution, in terms of its row.
LEMMA EntryOf ==
    ASSUME TypeInv, History, NEW e \in Execution
    PROVE  /\ e[3] = try[e[1]][e[2]] => hist[e[1]][e[2]][e[3]] = st[e[1]][e[2]]
           /\ \/ hist[e[1]][e[2]][e[3]] = st[e[1]][e[2]]
              \/ hist[e[1]][e[2]][e[3]] \in SubtaskTerminal
              \/ hist[e[1]][e[2]][e[3]] = "none"
<1>1. e[1] \in Run /\ e[2] \in Node /\ e[3] \in Try
  BY DEF Execution
<1>2. e[3] \in Int /\ try[e[1]][e[2]] \in Int
  BY <1>1, BoundAssumption DEF TypeInv, TypeOK, Try
<1>3. e[3] < try[e[1]][e[2]] \/ e[3] > try[e[1]][e[2]] \/ e[3] = try[e[1]][e[2]]
  BY <1>2
<1> QED BY <1>1, <1>3 DEF History

\* claim_for_dispatch begins the line of its execution.
LEMMA LedgerClaim ==
    ASSUME TypeInv, Safe, History, NEW p \in Replica, NEW n \in Node, ClaimForDispatch(p, n)
    PROVE  Ledger!Next
<1>0. PICK e : e = <<cur, n, try[cur][n]>>
  OBVIOUS
<1>1. e \in Execution /\ e[1] = cur /\ e[2] = n /\ e[3] = try[cur][n]
  BY <1>0 DEF TypeInv, TypeOK, Execution
<1>2. /\ ~deleted /\ st[cur][n] = "pending" /\ RunnablePending(st[cur], deps[cur], n)
      /\ status' = status /\ deleted' = deleted
  BY DEF ClaimForDispatch, Claimable, RunnablePending, taskVars
<1>3. status \in TaskActive
  BY <1>2 DEF Safe, SettledIffTerminal
<1>4. hist[cur][n][try[cur][n]] = "pending"
  BY <1>2 DEF TypeInv, TypeOK, History
<1>5. Ledger!Write({e}, "running")
  BY <1>0, ClaimWrites, LedgerWrite
<1>6. Ledger!Newest(e)
  BY <1>1, LedgerNewest
<1>7. Ledger!Begin(e)
  BY <1>1, <1>2, <1>3, <1>4, <1>5, <1>6 DEF Ledger!Begin
<1> QED BY <1>1, <1>7, LedgerBegins

\* _aggregate may close the task, of the current run only.
LEMMA LedgerAggregate ==
    ASSUME TypeInv, NEW r \in Run, NEW s, Aggregate(r, s)
    PROVE  \/ status' \in TaskActive <=> status \in TaskActive
           \/ r = cur /\ status \in TaskActive /\ status' \notin TaskActive
BY OutcomeType DEF Aggregate, UpdateSnapshot, TaskActive, TaskTerminal

\* A row that is closed ends the line of its present attempt.
LEMMA LedgerCloses ==
    ASSUME TypeInv, History, Closing
    PROVE  Ledger!Next
<1>1. PICK r \in Run, n \in Node, from \in SUBSET {"pending", "running"}, to \in SubtaskTerminal :
          Closes(r, n, from, to)
  BY DEF Closing
<1>0. PICK e : e = <<r, n, try[r][n]>>
  OBVIOUS
<1>2. e \in Execution /\ e[1] = r /\ e[2] = n /\ e[3] = try[r][n]
  BY <1>0 DEF TypeInv, TypeOK, Execution
<1>3. /\ st[r][n] \in {"pending", "running"} /\ (to = "success" => st[r][n] = "running")
      /\ ~deleted /\ deleted' = deleted
  BY <1>1 DEF Closes
<1>4. hist[r][n][try[r][n]] = st[r][n]
  BY DEF History
<1>5. Ledger!Write({e}, to)
  BY <1>0, <1>1, ClosesWrites, LedgerWrite
<1>6. \/ status' \in TaskActive <=> status \in TaskActive
      \/ r = cur /\ status \in TaskActive /\ status' \notin TaskActive
  BY <1>1, LedgerAggregate DEF Closes, CloseRow
<1>7. r = cur => Ledger!Newest(e)
  BY <1>2, LedgerNewest
<1>8. Ledger!End({e}, to)
  BY <1>2, <1>3, <1>4, <1>5, <1>6, <1>7 DEF Ledger!End
<1>9. {e} \in (SUBSET Execution) \ {{}} /\ to \in Ledger!Ends
  BY <1>2 DEF Ledger!Ends, SubtaskTerminal
<1> QED BY <1>8, <1>9, LedgerEnds

\* Pending rows of the current run that are stopped end their lines together;
\* when there are none, the task may still be closed.
LEMMA LedgerStops ==
    ASSUME TypeInv, History, NEW targets, targets \subseteq PendingNodes(cur),
           StopRows(cur, targets), try' = try, ~deleted, deleted' = deleted,
           \/ status' \in TaskActive <=> status \in TaskActive
           \/ status \in TaskActive /\ status' \notin TaskActive
    PROVE  [Ledger!Next]_Ledger!vars
<1>0. PICK E : E = Present({cur} \X targets)
  OBVIOUS
<1>1. Writes(E, "stopped")
  BY <1>0, StopWrites
<1>2. \A e \in E : e \in Execution /\ e[1] = cur /\ e[2] \in targets /\ e[3] = try[e[1]][e[2]]
  BY <1>0 DEF Present
<1>3. \A e \in E : hist[e[1]][e[2]][e[3]] = "pending" /\ Ledger!Newest(e)
  <2> TAKE e \in E
  <2>1. e \in Execution /\ e[1] = cur /\ st[cur][e[2]] = "pending" /\ e[3] = try[e[1]][e[2]]
    BY <1>2 DEF PendingNodes
  <2> QED BY <2>1, EntryOf, LedgerNewest
<1>4. Ledger!Write(E, "stopped")
  BY <1>1, LedgerWrite
<1>5. CASE E # {}
  <2>1. Ledger!End(E, "stopped")
    BY <1>2, <1>3, <1>4 DEF Ledger!End
  <2>2. E \in (SUBSET Execution) \ {{}} /\ "stopped" \in Ledger!Ends
    BY <1>2, <1>5 DEF Ledger!Ends
  <2> QED BY <2>1, <2>2, LedgerEnds
<1>6. CASE E = {}
  <2>1. [e \in Execution |-> hist'[e[1]][e[2]][e[3]]] = [e \in Execution |-> hist[e[1]][e[2]][e[3]]]
    BY <1>4, <1>6, LedgerLine DEF Ledger!Write
  <2>2. CASE status' \in TaskActive <=> status \in TaskActive
    BY <2>1, <2>2 DEF Ledger!vars
  <2>3. CASE status \in TaskActive /\ status' \notin TaskActive
    <3>1. Ledger!Close
      BY <2>1, <2>3 DEF Ledger!Close
    <3> QED BY <3>1 DEF Ledger!Next
  <2> QED BY <2>2, <2>3
<1> QED BY <1>5, <1>6

\* settle_stale_task closes the task.
LEMMA LedgerSettle ==
    ASSUME TypeInv, NEW p \in Replica, SettleStaleTask(p)
    PROVE  [Ledger!Next]_Ledger!vars
<1>1. /\ ~deleted /\ deleted' = deleted /\ hist' = hist
      /\ Aggregate(cur, st[cur])
  BY DEF SettleStaleTask, NeedsSettle, rowVars
<1>2. CASE status' \in TaskActive <=> status \in TaskActive
  BY <1>1, <1>2, LedgerStutter
<1>3. CASE status \in TaskActive /\ status' \notin TaskActive
  <2>1. Ledger!Close
    BY <1>1, <1>3 DEF Ledger!Close
  <2> QED BY <2>1 DEF Ledger!Next
<1> QED BY <1>1, <1>2, <1>3, LedgerAggregate DEF TypeInv, TypeOK

\* retry_task opens the first lines of the next run.
LEMMA LedgerRetryTask ==
    ASSUME TypeInv, History, RunsExist, RetryTask
    PROVE  Ledger!Next
<1>0. PICK E : E = {cur + 1} \X Node \X {1}
  OBVIOUS
<1>1. cur + 1 \in Run /\ 1 \in Try /\ Writes(E, "pending")
  BY <1>0, RetryTaskWrites
<1>2. /\ ~deleted /\ deleted' = deleted /\ status \in TaskTerminal /\ status' = "pending"
      /\ cur \in Int
  BY BoundAssumption DEF RetryTask, TypeInv, TypeOK, Run
<1>3. status \notin TaskActive /\ status' \in TaskActive
  BY <1>2 DEF TaskTerminal, TaskActive
<1>4. \A f \in Execution : f[1] \in Run /\ f[2] \in Node /\ f[3] \in Try /\ f[1] \in Int
  BY BoundAssumption DEF Execution, Run
<1>5. \A f \in Execution : f[1] < cur + 1 => hist[f[1]][f[2]][1] # "none"
  <2> SUFFICES ASSUME NEW f \in Execution, f[1] < cur + 1 PROVE hist[f[1]][f[2]][1] # "none"
    OBVIOUS
  <2>1. f[1] \in Run /\ f[2] \in Node /\ f[1] <= cur
    BY <1>2, <1>4
  <2>2. st[f[1]][f[2]] # "none"
    BY <2>1 DEF RunsExist
  <2>3. try[f[1]][f[2]] = 1 \/ 1 < try[f[1]][f[2]]
    BY <2>1, BoundAssumption DEF TypeInv, TypeOK, Try
  <2> QED BY <1>1, <2>1, <2>2, <2>3 DEF History, SubtaskTerminal
<1>6. \A f \in Execution : f[1] >= cur + 1 => hist[f[1]][f[2]][1] = "none"
  <2> SUFFICES ASSUME NEW f \in Execution, f[1] >= cur + 1 PROVE hist[f[1]][f[2]][1] = "none"
    OBVIOUS
  <2>1. f[1] \in Run /\ f[2] \in Node /\ f[1] > cur
    BY <1>2, <1>4
  <2>2. st[f[1]][f[2]] = "none"
    BY <2>1 DEF TypeInv, AheadNone
  <2> QED BY <2>1, <2>2 DEF History
<1>7. \A f \in Execution : f[1] < cur + 1 <=> hist[f[1]][f[2]][1] # "none"
  BY <1>2, <1>4, <1>5, <1>6
<1>8. \A f \in Execution : <<f[1], f[2], 1>> \in Execution
  BY <1>1 DEF Execution
<1>9. \A e \in E : e \in Execution /\ hist[e[1]][e[2]][e[3]] = "none"
  <2> TAKE e \in E
  <2>1. e \in Execution /\ e[1] = cur + 1 /\ e[3] = 1
    BY <1>0, <1>1 DEF Execution
  <2> QED BY <1>2, <1>6, <2>1
<1>10. Ledger!Write(E, "pending")
  BY <1>1, LedgerWrite
<1>11. Ledger!Again(E)
  BY <1>0, <1>1, <1>2, <1>3, <1>7, <1>8, <1>9, <1>10, LedgerLine DEF Ledger!Again
<1>12. E \in (SUBSET Execution) \ {{}}
  <2>1. 1 \in Node
    BY NAssumption DEF Node
  <2>2. <<cur + 1, 1, 1>> \in E
    BY <1>0, <2>1
  <2> QED BY <1>9, <2>2
<1> QED BY <1>11, <1>12, LedgerOpens

\* retry_subtask and retry_subtasks open the next lines of their rows.
LEMMA LedgerRetryRows ==
    ASSUME TypeInv, History, NEW s, RetryRows(s)
    PROVE  Ledger!Next
<1>0. PICK E : E = Following(s)
  OBVIOUS
<1>1. /\ Writes(E, "pending")
      /\ \A n \in Node : n \in Elements(s) => try[cur][n] + 1 \in Try
  BY <1>0, RetryRowsWrites DEF TypeInv, TypeOK
<1>2. /\ ~deleted /\ deleted' = deleted /\ status \in TaskTerminal /\ status' = "running"
      /\ s \in Batches
      /\ \A n \in Elements(s) : st[cur][n] \in SubtaskTerminal
  BY DEF RetryRows, ReopenAttempt, BatchAllowed
<1>3. status \notin TaskActive /\ status' \in TaskActive
  BY <1>2 DEF TaskTerminal, TaskActive
<1>4. \A e \in E : /\ e \in Execution /\ e[1] = cur /\ e[2] \in Elements(s) /\ e[2] \in Node
                   /\ e[3] = try[cur][e[2]] + 1 /\ e[3] \in Try
  BY <1>0 DEF Following, Execution
<1>5. \A e \in E : /\ hist[e[1]][e[2]][e[3]] = "none"
                   /\ Ledger!Newest(e)
                   /\ e[3] > 1
                   /\ <<e[1], e[2], e[3] - 1>> \in Execution
                   /\ hist[e[1]][e[2]][e[3] - 1] \in SubtaskTerminal
  <2> SUFFICES ASSUME NEW e \in E
               PROVE  /\ hist[e[1]][e[2]][e[3]] = "none"
                      /\ Ledger!Newest(e)
                      /\ e[3] > 1
                      /\ <<e[1], e[2], e[3] - 1>> \in Execution
                      /\ hist[e[1]][e[2]][e[3] - 1] \in SubtaskTerminal
    OBVIOUS
  <2>1. /\ e \in Execution /\ e[1] = cur /\ e[2] \in Elements(s) /\ e[2] \in Node
        /\ e[3] = try[cur][e[2]] + 1 /\ e[3] \in Try
    BY <1>4
  <2>2. cur \in Run /\ try[cur][e[2]] \in Try /\ try[cur][e[2]] \in Int /\ try[cur][e[2]] >= 1
    BY <2>1, BoundAssumption DEF TypeInv, TypeOK, Try
  <2>3. e[3] > try[cur][e[2]] /\ e[3] > 1 /\ e[3] - 1 = try[cur][e[2]]
    BY <2>1, <2>2
  <2>4. hist[e[1]][e[2]][e[3]] = "none"
    BY <2>1, <2>2, <2>3 DEF History
  <2>5. hist[cur][e[2]][try[cur][e[2]]] \in SubtaskTerminal
    BY <1>2, <2>1, <2>2 DEF History
  <2>6. <<e[1], e[2], e[3] - 1>> \in Execution
    BY <2>1, <2>2, <2>3 DEF Execution
  <2>7. Ledger!Newest(e)
    BY <2>1, LedgerNewest
  <2> QED BY <2>1, <2>3, <2>4, <2>5, <2>6, <2>7
<1>6. Ledger!Write(E, "pending")
  BY <1>1, LedgerWrite
<1>7. E \in (SUBSET Execution) \ {{}}
  <2>1. PICK n \in Node : n \in Elements(s)
    BY <1>2, BatchType
  <2>2. <<cur, n, try[cur][n] + 1>> \in E
    BY <1>0, <1>1, <2>1 DEF Following, Execution, TypeInv, TypeOK
  <2> QED BY <1>4, <2>2
<1>8. \A e \in E : hist[e[1]][e[2]][e[3] - 1] \in Ledger!Ends
  BY <1>5 DEF Ledger!Ends, SubtaskTerminal
<1>9. Ledger!Again(E)
  BY <1>2, <1>3, <1>4, <1>5, <1>6, <1>8 DEF Ledger!Again
<1> QED BY <1>7, <1>9, LedgerOpens

\* A step that leaves the rows alone leaves the ledger alone, or discards it.
LEMMA LedgerRests ==
    ASSUME TypeInv, History, Rests
    PROVE  [Ledger!Next]_Ledger!vars
<1>1. hist' = hist /\ (status' \in TaskActive <=> status \in TaskActive)
  BY DEF Rests, TaskActive
<1>2. CASE deleted' = deleted
  BY <1>1, <1>2, LedgerStutter
<1>3. CASE deleted' # deleted
  <2>1. ~deleted /\ Deletable /\ status' = status /\ deleted' = TRUE
    BY <1>3, Zenon DEF Rests
  <2>2. \A e \in Execution : /\ hist[e[1]][e[2]][e[3]] # "running"
                             /\ status \in TaskActive => hist[e[1]][e[2]][e[3]] # "pending"
    <3> TAKE e \in Execution
    <3>1. e[1] \in Run /\ e[2] \in Node
      BY DEF Execution
    <3>2. /\ st[e[1]][e[2]] # "running"
          /\ status \in TaskActive => st[e[1]][e[2]] # "pending"
      BY <2>1, <3>1 DEF Deletable, TaskActive, TaskTerminal
    <3> QED BY <3>2, EntryOf DEF SubtaskTerminal
  <2>3. Ledger!Discard
    BY <1>1, <2>1, <2>2, LedgerLine DEF Ledger!Discard
  <2> QED BY <2>3 DEF Ledger!Next
<1> QED BY <1>2, <1>3

\* Every step of the task center is a step of the ledger, or leaves it alone.
LEMMA LedgerNext ==
    TypeInv /\ Safe /\ History /\ RunsExist /\ [Next]_vars => [Ledger!Next]_Ledger!vars
<1> SUFFICES ASSUME TypeInv, Safe, History, RunsExist, [Next]_vars
             PROVE  [Ledger!Next]_Ledger!vars
  OBVIOUS
<1>1. CASE StopTask
  <2>1. /\ StopRows(cur, PendingNodes(cur)) /\ try' = try /\ ~deleted /\ deleted' = deleted
        /\ status \in TaskActive
    BY <1>1 DEF StopTask
  <2> QED BY <2>1, LedgerStops
<1>2. ASSUME NEW n \in Node, StopSubtask(n) PROVE [Ledger!Next]_Ledger!vars
  <2> DEFINE targets == Elements(Chain(deps[cur], OnStop, n)) \cap PendingNodes(cur)
  <2>1. /\ StopRows(cur, targets) /\ try' = try /\ ~deleted /\ deleted' = deleted
        /\ status \in TaskActive /\ targets \subseteq PendingNodes(cur)
    BY <1>2 DEF StopSubtask
  <2> HIDE DEF targets
  <2> QED BY <2>1, LedgerStops
<1> QED BY <1>1, <1>2, StepKinds, LedgerRests, LedgerCloses, LedgerSettle, LedgerClaim,
           LedgerRetryTask, LedgerRetryRows

\* The task center implements the ledger, for every flow, any number of
\* replicas, runs, attempts and reports, with missed updates or without.
THEOREM LedgerImplemented == Spec => ImplementsLedger
<1>1. Spec => [](TypeInv /\ Safe /\ History /\ RunsExist)
  BY HistoryInvariant
<1>2. Spec => [][Ledger!Next]_Ledger!vars
  BY <1>1, LedgerNext, PTL DEF Spec
<1> QED BY <1>2, LedgerInit, PTL DEF Spec, ImplementsLedger, Ledger!Spec
=============================================================================
