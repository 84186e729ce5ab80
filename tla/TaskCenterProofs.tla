-------------------------- MODULE TaskCenterProofs --------------------------
(***************************************************************************)
(* Type correctness of TaskCenter. TypeOK alone is not inductive: that a   *)
(* row is closed with a final status needs that a waiting report is about  *)
(* an execution the runner has finished, and that in turn needs that no    *)
(* execution is sent twice, hence that a claim always takes a fresh one.   *)
(***************************************************************************)
EXTENDS TaskCenter, DownstreamProofs

-----------------------------------------------------------------------------
\* A report that waits is about an execution the runner has finished.
InboxAnswered == \A m \in inbox : runner[m.exec] \in Final

\* A running row holds the credential of its attempt; one that has not been
\* claimed holds none.
Credentials ==
    \A r \in Run, n \in Node :
        /\ st[r][n] = "running" => exec[r][n] = try[r][n]
        /\ st[r][n] \in {"none", "pending"} => exec[r][n] = 0

\* The rows of runs to come do not exist.
AheadNone == \A r \in Run, n \in Node : r > cur => st[r][n] = "none"

\* The runner has not heard of execution e and nobody is sending it.
Unsent(e) ==
    /\ runner[e] = "none"
    /\ \A p \in Replica : job[p].pc = "outbound" => job[p].exec # e

\* Attempts that were not claimed yet are unsent.
Fresh ==
    \A r \in Run, n \in Node, k \in Try :
        (k > try[r][n] \/ (k = try[r][n] /\ exec[r][n] = 0)) => Unsent(<<r, n, k>>)

\* An execution is sent by the one replica that claimed it, once.
OneOutbound ==
    \A p \in Replica : job[p].pc = "outbound" =>
        /\ runner[job[p].exec] = "none"
        /\ \A q \in Replica :
               (job[q].pc = "outbound" /\ job[q].exec = job[p].exec) => q = p

\* The inductive invariant.
TypeInv ==
    TypeOK /\ InboxAnswered /\ Credentials /\ AheadNone /\ Fresh /\ OneOutbound

-----------------------------------------------------------------------------
\* The parts of TypeOK that several actions change, one by one.
TaskTyped ==
    /\ status \in TaskActive \cup TaskTerminal
    /\ attempt \in [Run -> {"none"} \cup TaskActive \cup TaskTerminal]

RowsTyped ==
    /\ st   \in [Run -> [Node -> {"none"} \cup SubtaskStatus]]
    /\ hist \in [Run -> [Node -> [Try -> {"none"} \cup SubtaskStatus]]]

InputsTyped == inp \in [Run -> [Node -> [Node -> {0} \cup Try]]]

ProcsTyped ==
    /\ job \in [Replica -> Job]
    /\ stuck \in [Replica -> {NoRow} \cup (Run \X Node)]

\* No row becomes pending or running in this step, and none is created.
Settling ==
    \A r \in Run, n \in Node :
        (st'[r][n] \in {"none", "pending", "running"} \/ st[r][n] = "none")
            => st'[r][n] = st[r][n]

\* What a replica is in the middle of names an execution, and a finished
\* outbound call a verdict.
LEMMA JobType ==
    ASSUME NEW p \in Replica, TypeOK
    PROVE  /\ job[p].pc \in {"outbound", "patrol", "finalize"} => job[p].exec \in Execution
           /\ job[p].pc = "finalize" => job[p].verdict \in Verdict
BY DEF TypeOK, Job, Idle

\* A replica that goes back to idle sends nothing.
LEMMA JobIdle ==
    ASSUME NEW p \in Replica, TypeOK, job' = [job EXCEPT ![p] = Idle]
    PROVE  /\ job' \in [Replica -> Job]
           /\ \A q \in Replica : job'[q].pc = "outbound" => job'[q] = job[q]
BY DEF TypeOK, Job, Idle

\* _aggregate gives a run a terminal task status.
LEMMA OutcomeType == \A s : Outcome(s) \in TaskTerminal
BY DEF Outcome, TaskTerminal

\* _aggregate keeps the columns of the task and its run in their enumerations.
LEMMA AggregateType ==
    ASSUME TypeOK, NEW r \in Run, NEW s, Aggregate(r, s)
    PROVE  TaskTyped'
<1>1. Outcome(s) \in TaskTerminal
  BY OutcomeType
<1>2. CASE UNCHANGED <<status, attempt>>
  BY <1>2 DEF TypeOK, TaskTyped
<1>3. CASE ~UNCHANGED <<status, attempt>>
  <2>1. /\ status' \in {status, Outcome(s)}
        /\ attempt' = IF attempt[r] \in TaskActive
                       THEN [attempt EXCEPT ![r] = Outcome(s)]
                       ELSE attempt
    BY <1>3 DEF Aggregate, FinishAttempt, UpdateSnapshot
  <2> QED BY <1>1, <2>1 DEF TypeOK, TaskTyped
<1> QED BY <1>2, <1>3

\* _sync_attempt_row keeps the history in its enumeration.
LEMMA SyncType ==
    ASSUME NEW h \in [Try -> {"none"} \cup SubtaskStatus], NEW k \in Try,
           NEW from, NEW to \in SubtaskStatus
    PROVE  SyncAttemptRow(h, k, from, to) \in [Try -> {"none"} \cup SubtaskStatus]
BY DEF SyncAttemptRow

\* Closing a row (_close_subtask_row) keeps the columns typed and opens no row.
LEMMA CloseRowType ==
    ASSUME TypeOK, NEW r \in Run, NEW n \in Node, NEW from,
           NEW to \in SubtaskTerminal, st[r][n] # "none", CloseRow(r, n, from, to)
    PROVE  TaskTyped' /\ RowsTyped' /\ Settling
<1>1. TaskTyped'
  BY AggregateType DEF CloseRow
<1>2. to \in SubtaskStatus /\ to \notin {"none", "pending", "running"}
  BY DEF SubtaskStatus, SubtaskTerminal
<1>3. SyncAttemptRow(hist[r][n], try[r][n], from, to)
         \in [Try -> {"none"} \cup SubtaskStatus]
  <2>1. hist[r][n] \in [Try -> {"none"} \cup SubtaskStatus] /\ try[r][n] \in Try
    BY DEF TypeOK
  <2> QED BY <1>2, <2>1, SyncType
<1>4. /\ st'   = [st EXCEPT ![r] = [st[r] EXCEPT ![n] = to]]
      /\ hist' = [hist EXCEPT ![r][n] = SyncAttemptRow(hist[r][n], try[r][n], from, to)]
  BY DEF CloseRow
<1>5. RowsTyped'
  BY <1>2, <1>3, <1>4 DEF TypeOK, RowsTyped
<1>6. Settling
  BY <1>2, <1>4 DEF TypeOK, Settling
<1> QED BY <1>1, <1>5, <1>6

\* Stopping pending rows keeps the columns typed and opens no row.
LEMMA StopRowsType ==
    ASSUME TypeOK, NEW r \in Run, NEW targets, StopRows(r, targets),
           \A n \in Node : n \in targets => st[r][n] # "none"
    PROVE  RowsTyped' /\ Settling
<1>1. "stopped" \in SubtaskStatus
  BY DEF SubtaskStatus, SubtaskTerminal
<1>2. \A n \in Node : SyncAttemptRow(hist[r][n], try[r][n], {"pending", "running"}, "stopped")
         \in [Try -> {"none"} \cup SubtaskStatus]
  <2>1. \A n \in Node : hist[r][n] \in [Try -> {"none"} \cup SubtaskStatus] /\ try[r][n] \in Try
    BY DEF TypeOK
  <2> QED BY <1>1, <2>1, SyncType
<1>3. [n \in Node |-> IF n \in targets THEN "stopped" ELSE st[r][n]]
         \in [Node -> {"none"} \cup SubtaskStatus]
  BY <1>1 DEF TypeOK
<1>4. st' \in [Run -> [Node -> {"none"} \cup SubtaskStatus]]
  BY <1>3 DEF StopRows, TypeOK
<1>5. hist' \in [Run -> [Node -> [Try -> {"none"} \cup SubtaskStatus]]]
  BY <1>2 DEF StopRows, TypeOK
<1>6. Settling
  BY DEF StopRows, TypeOK, Settling
<1> QED BY <1>4, <1>5, <1>6 DEF RowsTyped

\* _fill_inputs binds to attempts.
LEMMA FillInputsType ==
    ASSUME NEW s, NEW d, NEW k \in [Node -> Try], NEW n
    PROVE  FillInputs(s, d, k, n) \in [Node -> {0} \cup Try]
BY DEF FillInputs, Output

\* The task as fire creates it.
LEMMA TypeInit == Init => TypeInv
<1> SUFFICES ASSUME Init PROVE TypeInv
  OBVIOUS
<1> USE FlowAssumption, BoundAssumption, NAssumption DEF Run, Try
<1>1. TypeOK
  <2>1. nxt \in [Run -> [Node -> SUBSET Node]] /\ deps \in [Run -> [Node -> SUBSET Node]]
    BY DEF Init, NextOf
  <2>2. ProcsTyped
    BY DEF Init, Job, ProcsTyped
  <2>3. InputsTyped
    BY DEF Init, NoInputs, InputsTyped
  <2>4. RowsTyped
    BY DEF Init, SubtaskStatus, RowsTyped
  <2>5. TaskTyped
    BY DEF Init, TaskTyped, TaskActive
  <2>6. deleted \in BOOLEAN /\ removing \in BOOLEAN
    BY DEF Init
  <2>7. /\ cur \in Run
        /\ try  \in [Run -> [Node -> Try]]
        /\ exec \in [Run -> [Node -> {0} \cup Try]]
    BY DEF Init
  <2>8. /\ due  \in [Run -> [Node -> BOOLEAN]]
        /\ inbox \in SUBSET [exec : Execution, early : BOOLEAN]
        /\ runner \in [Execution -> {"none", "busy", "success", "failed"}]
    BY DEF Init
  <2> QED BY <2>1, <2>2, <2>3, <2>4, <2>5, <2>6, <2>7, <2>8
          DEF TypeOK, RowsTyped, TaskTyped, ProcsTyped, InputsTyped
<1>2. InboxAnswered /\ Credentials /\ AheadNone
  BY DEF Init, InboxAnswered, Credentials, AheadNone
<1>3. \A p \in Replica : job[p].pc # "outbound"
  BY DEF Init, Idle
<1>4. \A e \in Execution : runner[e] = "none"
  BY DEF Init
<1>5. Fresh /\ OneOutbound
  BY <1>3, <1>4 DEF Fresh, OneOutbound, Unsent, Execution
<1> QED BY <1>1, <1>2, <1>5 DEF TypeInv

\* The steps that send nothing and open no row keep the invariant.
LEMMA QuietStep ==
    ASSUME TypeInv, TaskTyped', RowsTyped', InputsTyped', ProcsTyped', Settling,
           UNCHANGED <<cur, edgeVars, try, exec, runner>>,
           inbox' \subseteq inbox,
           deleted' \in BOOLEAN, removing' \in BOOLEAN,
           due' \in [Run -> [Node -> BOOLEAN]],
           \A q \in Replica : job'[q].pc = "outbound" => job'[q] = job[q]
    PROVE  TypeInv'
<1>1. TypeOK'
  BY DEF TypeInv, TypeOK, TaskTyped, RowsTyped, InputsTyped, ProcsTyped, edgeVars
<1>2. InboxAnswered'
  BY DEF TypeInv, InboxAnswered
<1>3. Credentials'
  BY DEF TypeInv, Credentials, Settling
<1>4. Fresh'
  BY DEF TypeInv, Fresh, Unsent
<1>5. OneOutbound'
  BY DEF TypeInv, OneOutbound
<1>6. AheadNone'
  BY DEF TypeInv, AheadNone, Settling
<1> QED BY <1>1, <1>2, <1>3, <1>4, <1>5, <1>6 DEF TypeInv

\* claim_for_dispatch takes an execution nobody has used.
LEMMA TypeClaim ==
    ASSUME TypeInv, NEW p \in Replica, NEW n \in Node, ClaimForDispatch(p, n)
    PROVE  TypeInv'
<1> DEFINE e == <<cur, n, try[cur][n]>>
<1>1. cur \in Run /\ try[cur][n] \in Try /\ e \in Execution
  BY DEF TypeInv, TypeOK, Execution
<1>2. job' \in [Replica -> Job]
  BY <1>1 DEF TypeInv, TypeOK, ClaimForDispatch, Job
<1>3. hist' \in [Run -> [Node -> [Try -> {"none"} \cup SubtaskStatus]]]
  BY <1>1 DEF TypeInv, TypeOK, ClaimForDispatch, SyncAttemptRow, SubtaskStatus
<1>4. TypeOK'
  BY <1>1, <1>2, <1>3 DEF TypeInv, TypeOK, ClaimForDispatch, SubtaskStatus, taskVars, edgeVars
<1>5. Credentials'
  BY <1>1 DEF TypeInv, TypeOK, ClaimForDispatch, Credentials, taskVars, edgeVars
<1>6. InboxAnswered'
  BY DEF TypeInv, ClaimForDispatch, InboxAnswered
<1>7. exec[cur][n] = 0
  BY <1>1 DEF TypeInv, ClaimForDispatch, Claimable, RunnablePending, Credentials
<1>14. AheadNone'
  BY <1>1 DEF TypeInv, TypeOK, Run, AheadNone, ClaimForDispatch, taskVars
<1>8. Unsent(e)
  BY <1>1, <1>7 DEF TypeInv, Fresh
<1>9. \A q \in Replica : job'[q].pc = "outbound" =>
          job'[q].exec = IF q = p THEN e ELSE job[q].exec
  BY DEF TypeInv, TypeOK, ClaimForDispatch
<1>10. \A q \in Replica : job'[q].pc = "outbound" => q = p \/ job[q].pc = "outbound"
  BY DEF TypeInv, TypeOK, ClaimForDispatch
<1>11. OneOutbound'
  BY <1>8, <1>9, <1>10 DEF TypeInv, OneOutbound, Unsent, ClaimForDispatch
<1>12. \A r \in Run, m \in Node, k \in Try :
           (k > try[r][m] \/ (k = try[r][m] /\ exec'[r][m] = 0)) =>
               /\ k > try[r][m] \/ (k = try[r][m] /\ exec[r][m] = 0)
               /\ <<r, m, k>> # e
  BY <1>1, <1>7, BoundAssumption DEF TypeInv, TypeOK, ClaimForDispatch, Try
<1>13. Fresh'
  BY <1>9, <1>10, <1>12 DEF TypeInv, Fresh, Unsent, ClaimForDispatch
<1> QED BY <1>4, <1>5, <1>6, <1>11, <1>13, <1>14 DEF TypeInv

\* claim_for_dispatch for a step whose runner is not registered.
LEMMA TypeClaimUnbound ==
    ASSUME TypeInv, NEW p \in Replica, NEW n \in Node, ClaimUnbound(p, n)
    PROVE  TypeInv'
<1>1. TaskTyped' /\ RowsTyped' /\ Settling
  BY CloseRowType DEF TypeInv, TypeOK, ClaimUnbound, FailSubtask, SubtaskTerminal,
                      Claimable, RunnablePending
<1> QED BY <1>1, QuietStep DEF TypeInv, TypeOK, ClaimUnbound, procVars, InputsTyped, ProcsTyped

\* The outbound call: the execution it sends was never answered before.
LEMMA TypeDispatch ==
    ASSUME TypeInv, NEW p \in Replica, NEW v \in Verdict, Dispatch(p, v)
    PROVE  TypeInv'
<1> DEFINE e == job[p].exec
<1>1. e \in Execution /\ runner[e] = "none"
  BY JobType DEF TypeInv, OneOutbound, Dispatch
<1>2. \A x \in Execution : x # e => runner'[x] = runner[x]
  BY DEF TypeInv, TypeOK, Dispatch
<1>3. \A q \in Replica : job'[q].pc = "outbound" => q # p /\ job'[q] = job[q]
  BY DEF TypeInv, TypeOK, Dispatch
<1>4. runner' \in [Execution -> {"none", "busy", "success", "failed"}]
  BY <1>1 DEF TypeInv, TypeOK, Dispatch
<1>5. job' \in [Replica -> Job]
  BY <1>1 DEF TypeInv, TypeOK, Dispatch, Job
<1>6. TypeOK'
  BY <1>4, <1>5 DEF TypeInv, TypeOK, Dispatch, taskVars, edgeVars, rowVars
<1>7. InboxAnswered'
  BY <1>1, <1>2 DEF TypeInv, TypeOK, InboxAnswered, Dispatch, Final
<1>8. Credentials' /\ AheadNone'
  BY DEF TypeInv, Credentials, AheadNone, Dispatch, taskVars, rowVars
<1>9. OneOutbound'
  <2>1. \A q \in Replica : job'[q].pc = "outbound" => job[q].exec # e /\ job[q].exec \in Execution
    BY <1>3, JobType DEF TypeInv, OneOutbound, Dispatch
  <2> QED BY <1>2, <1>3, <2>1 DEF TypeInv, OneOutbound
<1>10. \A r \in Run, n \in Node, k \in Try : <<r, n, k>> \in Execution
  BY DEF Execution
<1>11. Fresh'
  <2>1. \A x \in Execution : Unsent(x) => Unsent(x)'
    BY <1>2, <1>3 DEF Unsent, Dispatch
  <2> QED BY <1>10, <2>1 DEF TypeInv, Fresh, Dispatch, rowVars
<1> QED BY <1>6, <1>7, <1>8, <1>9, <1>11 DEF TypeInv

\* finalize_dispatch.
LEMMA TypeFinalize ==
    ASSUME TypeInv, NEW p \in Replica, FinalizeDispatch(p)
    PROVE  TypeInv'
<1> DEFINE e == job[p].exec
<1>1. e[1] \in Run /\ e[2] \in Node
  BY JobType DEF TypeInv, FinalizeDispatch, Execution
<1>2. TaskTyped' /\ RowsTyped' /\ Settling
  <2>1. CASE UNCHANGED <<status, attempt, st, hist>>
    BY <2>1 DEF TypeInv, TypeOK, TaskTyped, RowsTyped, Settling
  <2>2. CASE MarkRunStarted(e[1]) /\ UNCHANGED <<st, hist>>
    <3>1. TaskTyped'
      BY <2>2, <1>1 DEF TypeInv, TypeOK, TaskTyped, MarkRunStarted, UpdateSnapshot, TaskActive, TaskTerminal
    <3> QED BY <2>2, <3>1 DEF TypeInv, TypeOK, RowsTyped, Settling
  <2>3. CASE FailSubtask(e[1], e[2]) /\ st[e[1]][e[2]] = "running"
    BY <2>3, <1>1, CloseRowType DEF TypeInv, FailSubtask, SubtaskTerminal
  <2> QED BY <2>1, <2>2, <2>3 DEF FinalizeDispatch, Holds
<1>3. /\ job' \in [Replica -> Job]
      /\ \A q \in Replica : job'[q].pc = "outbound" => job'[q] = job[q]
  BY JobIdle DEF TypeInv, FinalizeDispatch
<1> QED BY <1>2, <1>3, QuietStep DEF TypeInv, TypeOK, FinalizeDispatch, InputsTyped, ProcsTyped

\* The steps that touch no row, no edge and no run.
LEMMA IdleStep ==
    ASSUME TypeInv, UNCHANGED <<taskVars, edgeVars, rowVars, runner, removing>>,
           ProcsTyped', inbox' \subseteq inbox,
           \A q \in Replica : job'[q].pc = "outbound" => job'[q] = job[q]
    PROVE  TypeInv'
<1>1. TaskTyped' /\ RowsTyped' /\ InputsTyped' /\ Settling
  BY DEF TypeInv, TypeOK, TaskTyped, RowsTyped, InputsTyped, Settling, taskVars, rowVars
<1> QED BY <1>1, QuietStep DEF TypeInv, TypeOK, taskVars, edgeVars, rowVars

\* A replica dies in the middle of something.
LEMMA TypeForget ==
    ASSUME TypeInv, NEW p \in Replica, Forget(p)
    PROVE  TypeInv'
<1>1. ProcsTyped' /\ \A q \in Replica : job'[q].pc = "outbound" => job'[q] = job[q]
  BY JobIdle DEF TypeInv, TypeOK, Forget, ProcsTyped
<1> QED BY <1>1, IdleStep DEF Forget

\* The runner answers about an execution it has got and the answer is queued.
LEMMA AnswerStep ==
    ASSUME TypeInv, NEW e \in Execution, NEW v \in Final, Answers(e, v), Enqueue(e),
           UNCHANGED <<taskVars, edgeVars, rowVars, removing>>,
           ProcsTyped',
           \A q \in Replica : job'[q].pc = "outbound" => job'[q] = job[q]
    PROVE  TypeInv'
<1>1. runner[e] # "none" /\ runner'[e] = v
  BY DEF TypeInv, TypeOK, Answers, Final
<1>2. \A x \in Execution : x # e => runner'[x] = runner[x]
  BY DEF TypeInv, TypeOK, Answers
<1>3. runner' \in [Execution -> {"none", "busy", "success", "failed"}]
  BY DEF TypeInv, TypeOK, Answers, Final
<1>4. /\ Report(e).exec = e
      /\ Report(e) \in [exec : Execution, early : BOOLEAN]
  BY DEF Report
<1>5. TypeOK'
  BY <1>3, <1>4 DEF TypeInv, TypeOK, Enqueue, ProcsTyped, taskVars, edgeVars, rowVars
<1>6. InboxAnswered'
  BY <1>1, <1>2, <1>4 DEF TypeInv, TypeOK, InboxAnswered, Enqueue
<1>7. Credentials' /\ AheadNone'
  BY DEF TypeInv, Credentials, AheadNone, taskVars, rowVars
<1>8. \A q \in Replica : job'[q].pc = "outbound" => job'[q].exec # e /\ job'[q].exec \in Execution
  BY <1>1, JobType DEF TypeInv, OneOutbound
<1>9. OneOutbound'
  BY <1>2, <1>8 DEF TypeInv, OneOutbound
<1>10. \A r \in Run, n \in Node, k \in Try : <<r, n, k>> \in Execution
  BY DEF Execution
<1>11. \A x \in Execution : Unsent(x) => Unsent(x)'
  BY <1>1, <1>2 DEF Unsent
<1>12. Fresh'
  BY <1>10, <1>11 DEF TypeInv, Fresh, rowVars
<1> QED BY <1>5, <1>6, <1>7, <1>9, <1>12 DEF TypeInv

\* report_status.
LEMMA TypeReport ==
    ASSUME TypeInv, NEW e \in Execution, NEW v \in Final, ReportStatus(e, v)
    PROVE  TypeInv'
<1>1. ProcsTyped' /\ \A q \in Replica : job'[q] = job[q]
  BY DEF TypeInv, TypeOK, ReportStatus, procVars, ProcsTyped
<1> QED BY <1>1, AnswerStep DEF ReportStatus

\* The credential of a running row names an execution.
LEMMA RunningExecution ==
    ASSUME TypeInv, NEW r \in Run, NEW n \in Node, st[r][n] = "running"
    PROVE  <<r, n, exec[r][n]>> \in Execution
BY DEF TypeInv, TypeOK, Credentials, Execution

\* _query_one.
LEMMA TypeQueryOne ==
    ASSUME TypeInv, NEW p \in Replica, NEW r \in Run, NEW n \in Node, NEW v \in Final,
           QueryOne(p, r, n, v)
    PROVE  TypeInv'
<1>1. ProcsTyped' /\ \A q \in Replica : job'[q] = job[q]
  BY DEF TypeInv, TypeOK, QueryOne, procVars, ProcsTyped
<1>2. <<r, n, exec[r][n]>> \in Execution
  BY RunningExecution DEF QueryOne
<1> QED BY <1>1, <1>2, AnswerStep DEF QueryOne

\* _absorb and _advance.
LEMMA TypeAbsorb ==
    ASSUME TypeInv, NEW p \in Replica, NEW m \in inbox, AbsorbReport(p, m)
    PROVE  TypeInv'
<1> DEFINE r == m.exec[1]
           n == m.exec[2]
           v == runner[m.exec]
<1>1. r \in Run /\ n \in Node /\ v \in Final
  BY DEF TypeInv, TypeOK, InboxAnswered, Execution
<1>2. TaskTyped' /\ RowsTyped' /\ InputsTyped' /\ Settling
  <2>1. CASE UNCHANGED <<status, attempt, st, hist, inp>>
    BY <2>1 DEF TypeInv, TypeOK, TaskTyped, RowsTyped, InputsTyped, Settling
  <2>2. CASE /\ CloseRow(r, n, {"running"}, v)
             /\ st[r][n] = "running"
             /\ inp' = IF v = "success"
                       THEN FillDownstream(r, n, [st[r] EXCEPT ![n] = v])
                       ELSE inp
    <3>1. TaskTyped' /\ RowsTyped' /\ Settling
      BY <1>1, <2>2, CloseRowType DEF TypeInv, Final, SubtaskTerminal
    <3>2. \A s, x : FillInputs(s, deps[r], try[r], x) \in [Node -> {0} \cup Try]
      BY <1>1, FillInputsType DEF TypeInv, TypeOK
    <3>3. \A s : FillDownstream(r, n, s) \in [Run -> [Node -> [Node -> {0} \cup Try]]]
      BY <1>1, <3>2 DEF TypeInv, TypeOK, FillDownstream
    <3> QED BY <2>2, <3>1, <3>3 DEF InputsTyped, TypeInv, TypeOK
  <2> QED BY <2>1, <2>2 DEF AbsorbReport, Holds
<1>3. ProcsTyped' /\ job' = job /\ inbox' \subseteq inbox
  BY DEF TypeInv, TypeOK, AbsorbReport, procVars, ProcsTyped
<1> QED BY <1>2, <1>3, QuietStep DEF TypeInv, TypeOK, AbsorbReport

\* mark_dead_lettered.
LEMMA TypeDeadLetter ==
    ASSUME TypeInv, NEW p \in Replica, NEW m \in inbox, DeadLetter(p, m)
    PROVE  TypeInv'
<1>1. ProcsTyped' /\ job' = job /\ inbox' \subseteq inbox
  BY DEF TypeInv, TypeOK, DeadLetter, procVars, ProcsTyped
<1> QED BY <1>1, IdleStep DEF DeadLetter

\* A deadline passes.
LEMMA TypeDeadline ==
    ASSUME TypeInv, NEW r \in Run, NEW n \in Node, DeadlinePasses(r, n)
    PROVE  TypeInv'
<1>1. due' \in [Run -> [Node -> BOOLEAN]]
  BY DEF TypeInv, TypeOK, DeadlinePasses
<1>2. TaskTyped' /\ RowsTyped' /\ InputsTyped' /\ Settling /\ ProcsTyped'
  BY DEF TypeInv, TypeOK, TaskTyped, RowsTyped, InputsTyped, Settling, ProcsTyped,
         DeadlinePasses, taskVars, procVars
<1> QED BY <1>1, <1>2, QuietStep DEF TypeInv, TypeOK, DeadlinePasses, taskVars, procVars

\* list_timed_out_for_patrol.
LEMMA TypePatrolScan ==
    ASSUME TypeInv, NEW p \in Replica, NEW r \in Run, NEW n \in Node, PatrolScan(p, r, n)
    PROVE  TypeInv'
<1>1. <<r, n, exec[r][n]>> \in Execution
  BY RunningExecution DEF PatrolScan
<1>2. /\ job' \in [Replica -> Job]
      /\ \A q \in Replica : job'[q].pc = "outbound" => job'[q] = job[q]
  BY <1>1 DEF TypeInv, TypeOK, PatrolScan, Job
<1> QED BY <1>2, IdleStep DEF TypeInv, TypeOK, PatrolScan, ProcsTyped

\* _patrol_pass asks the runner.
LEMMA TypePatrolQuery ==
    ASSUME TypeInv, NEW p \in Replica, NEW v \in Final, PatrolQuery(p, v)
    PROVE  TypeInv'
<1>1. job[p].exec \in Execution
  BY JobType DEF TypeInv, PatrolQuery
<1>2. ProcsTyped' /\ \A q \in Replica : job'[q].pc = "outbound" => job'[q] = job[q]
  BY JobIdle DEF TypeInv, TypeOK, PatrolQuery, ProcsTyped
<1> QED BY <1>1, <1>2, AnswerStep DEF PatrolQuery

\* handle_timeout.
LEMMA TypeHandleTimeout ==
    ASSUME TypeInv, NEW p \in Replica, HandleTimeout(p)
    PROVE  TypeInv'
<1> DEFINE r == job[p].exec[1]
           n == job[p].exec[2]
<1>1. r \in Run /\ n \in Node
  BY JobType DEF TypeInv, HandleTimeout, Execution
<1>2. TaskTyped' /\ RowsTyped' /\ Settling
  <2>1. CASE UNCHANGED <<status, attempt, st, hist>>
    BY <2>1 DEF TypeInv, TypeOK, TaskTyped, RowsTyped, Settling
  <2>2. CASE CloseRow(r, n, {"running"}, "timeout") /\ st[r][n] = "running"
    BY <2>2, <1>1, CloseRowType DEF TypeInv, SubtaskTerminal
  <2> QED BY <2>1, <2>2 DEF HandleTimeout
<1>3. ProcsTyped' /\ \A q \in Replica : job'[q].pc = "outbound" => job'[q] = job[q]
  BY JobIdle DEF TypeInv, TypeOK, HandleTimeout, ProcsTyped
<1> QED BY <1>2, <1>3, QuietStep DEF TypeInv, TypeOK, HandleTimeout, InputsTyped

\* list_stuck_pending.
LEMMA TypeStuckScan ==
    ASSUME TypeInv, NEW p \in Replica, NEW n \in Node, StuckScan(p, n)
    PROVE  TypeInv'
<1>1. ProcsTyped' /\ job' = job
  BY DEF TypeInv, TypeOK, StuckScan, ProcsTyped
<1> QED BY <1>1, IdleStep DEF StuckScan

\* handle_stuck_pending.
LEMMA TypeHandleStuck ==
    ASSUME TypeInv, NEW p \in Replica, HandleStuckPending(p)
    PROVE  TypeInv'
<1> DEFINE r == stuck[p][1]
           n == stuck[p][2]
<1>1. r \in Run /\ n \in Node
  BY DEF TypeInv, TypeOK, HandleStuckPending
<1>2. TaskTyped' /\ RowsTyped' /\ Settling
  <2>1. CASE UNCHANGED <<status, attempt, st, hist>>
    BY <2>1 DEF TypeInv, TypeOK, TaskTyped, RowsTyped, Settling
  <2>2. CASE CloseRow(r, n, {"pending", "running"}, "timeout") /\ st[r][n] = "pending"
    BY <2>2, <1>1, CloseRowType DEF TypeInv, SubtaskTerminal
  <2> QED BY <2>1, <2>2 DEF HandleStuckPending
<1>3. ProcsTyped' /\ job' = job
  BY DEF TypeInv, TypeOK, HandleStuckPending, ProcsTyped
<1> QED BY <1>2, <1>3, QuietStep DEF TypeInv, TypeOK, HandleStuckPending, InputsTyped

\* settle_stale_task.
LEMMA TypeSettleStale ==
    ASSUME TypeInv, NEW p \in Replica, SettleStaleTask(p)
    PROVE  TypeInv'
<1>1. TaskTyped'
  BY AggregateType DEF TypeInv, TypeOK, SettleStaleTask
<1>2. RowsTyped' /\ InputsTyped' /\ Settling /\ ProcsTyped' /\ job' = job
  BY DEF TypeInv, TypeOK, RowsTyped, InputsTyped, Settling, ProcsTyped, SettleStaleTask,
         rowVars, procVars
<1> QED BY <1>1, <1>2, QuietStep DEF TypeInv, TypeOK, SettleStaleTask, rowVars

\* _do_stop_task.
LEMMA TypeStopTask ==
    ASSUME TypeInv, StopTask
    PROVE  TypeInv'
<1>1. RowsTyped' /\ Settling
  BY StopRowsType DEF TypeInv, TypeOK, StopTask, FinishAttempt, UpdateSnapshot, PendingNodes
<1>2. TaskTyped'
  BY DEF TypeInv, TypeOK, StopTask, FinishAttempt, UpdateSnapshot, TaskTyped, TaskTerminal
<1>3. InputsTyped' /\ ProcsTyped' /\ job' = job
  BY DEF TypeInv, TypeOK, InputsTyped, ProcsTyped, StopTask, FinishAttempt, UpdateSnapshot, procVars
<1> QED BY <1>1, <1>2, <1>3, QuietStep DEF TypeInv, TypeOK, StopTask, FinishAttempt, UpdateSnapshot

\* _do_stop_subtask.
LEMMA TypeStopSubtask ==
    ASSUME TypeInv, NEW n \in Node, StopSubtask(n)
    PROVE  TypeInv'
<1>1. RowsTyped' /\ Settling
  BY StopRowsType DEF TypeInv, TypeOK, StopSubtask, PendingNodes
<1>2. TaskTyped'
  BY AggregateType DEF TypeInv, TypeOK, StopSubtask
<1>3. InputsTyped' /\ ProcsTyped' /\ job' = job
  BY DEF TypeInv, TypeOK, InputsTyped, ProcsTyped, StopSubtask, procVars
<1> QED BY <1>1, <1>2, <1>3, QuietStep DEF TypeInv, TypeOK, StopSubtask

\* The three steps of delete_task.
LEMMA TypeDelete ==
    ASSUME TypeInv, DeleteBegin \/ DeleteAbort \/ DeleteCommit
    PROVE  TypeInv'
<1>1. UNCHANGED <<status, cur, attempt, edgeVars, rowVars, inbox, runner, procVars>>
  BY DEF DeleteBegin, DeleteAbort, DeleteCommit, taskVars
<1>2. deleted' \in BOOLEAN /\ removing' \in BOOLEAN
  BY DEF TypeInv, TypeOK, DeleteBegin, DeleteAbort, DeleteCommit, taskVars
<1>3. TaskTyped' /\ RowsTyped' /\ InputsTyped' /\ Settling /\ ProcsTyped' /\ job' = job
  BY <1>1 DEF TypeInv, TypeOK, TaskTyped, RowsTyped, InputsTyped, Settling, ProcsTyped,
              rowVars, procVars
<1> QED BY <1>1, <1>2, <1>3, QuietStep DEF TypeInv, TypeOK, rowVars

\* _do_retry_task opens a run whose rows did not exist.
LEMMA TypeRetryTask ==
    ASSUME TypeInv, RetryTask
    PROVE  TypeInv'
<1>1. cur \in Run /\ cur + 1 \in Run /\ cur + 1 # cur
  BY BoundAssumption DEF TypeInv, TypeOK, RetryTask, Run
<1>2. \A r \in Run, n \in Node : st'[r][n] = IF r = cur + 1 THEN "pending" ELSE st[r][n]
  BY <1>1 DEF TypeInv, TypeOK, RetryTask
<1>3. RowsTyped'
  <2>1. "pending" \in SubtaskStatus
    BY DEF SubtaskStatus
  <2>2. 1 \in Try
    BY BoundAssumption DEF Try
  <2>3. \A n \in Node : [hist[cur + 1][n] EXCEPT ![1] = "pending"]
                           \in [Try -> {"none"} \cup SubtaskStatus]
    BY <1>1, <2>1, <2>2 DEF TypeInv, TypeOK
  <2>4. hist' \in [Run -> [Node -> [Try -> {"none"} \cup SubtaskStatus]]]
    BY <1>1, <2>3 DEF TypeInv, TypeOK, RetryTask
  <2>5. st' \in [Run -> [Node -> {"none"} \cup SubtaskStatus]]
    BY <1>1, <2>1 DEF TypeInv, TypeOK, RetryTask
  <2> QED BY <2>4, <2>5 DEF RowsTyped
<1>4. TaskTyped'
  BY <1>1 DEF TypeInv, TypeOK, RetryTask, TaskTyped, TaskActive
<1>5. TypeOK'
  BY <1>1, <1>3, <1>4 DEF TypeInv, TypeOK, TaskTyped, RowsTyped, RetryTask, edgeVars, procVars
<1>6. InboxAnswered'
  BY DEF TypeInv, InboxAnswered, RetryTask
<1>7. \A n \in Node : st[cur + 1][n] = "none"
  BY <1>1 DEF TypeInv, AheadNone, Run
<1>8. Credentials'
  BY <1>1, <1>2, <1>7 DEF TypeInv, Credentials, RetryTask
<1>9. AheadNone'
  BY <1>1, <1>2 DEF TypeInv, AheadNone, RetryTask, Run
<1>10. Fresh' /\ OneOutbound'
  BY DEF TypeInv, Fresh, OneOutbound, Unsent, RetryTask, procVars
<1> QED BY <1>5, <1>6, <1>8, <1>9, <1>10 DEF TypeInv

\* What _require_batch_node_ids lets through names nodes, at least one.
LEMMA BatchType ==
    ASSUME NEW s \in Batches
    PROVE  /\ \A i \in DOMAIN s : s[i] \in Node
           /\ Elements(s) \subseteq Node /\ Elements(s) # {}
<1>1. PICK k \in 1..N : s \in [1..k -> Node]
  BY DEF Batches
<1>2. 1 \in DOMAIN s
  BY <1>1, NAssumption
<1> QED BY <1>1, <1>2 DEF Elements

\* The order of a batch adds edges between nodes.
LEMMA AddedDepsType ==
    ASSUME NEW s \in Batches, NEW d \in [Node -> SUBSET Node]
    PROVE  AddedDeps(s, d) \in [Node -> SUBSET Node]
BY BatchType DEF AddedDeps

\* The same edges in next_steps.
LEMMA AddedNextType ==
    ASSUME NEW s \in Batches, NEW x \in [Node -> SUBSET Node]
    PROVE  AddedNext(s, x) \in [Node -> SUBSET Node]
BY BatchType DEF AddedNext

\* _do_retry_subtasks: the new attempts are ones nobody has used.
LEMMA TypeRetryRows ==
    ASSUME TypeInv, NEW s, RetryRows(s)
    PROVE  TypeInv'
<1> DEFINE B   == Elements(s)
           d   == AddedDeps(s, deps[cur])
           row == [n \in Node |-> IF n \in B THEN "pending" ELSE st[cur][n]]
           k   == [n \in Node |-> IF n \in B THEN try[cur][n] + 1 ELSE try[cur][n]]
<1>1. cur \in Run /\ s \in Batches
  BY DEF TypeInv, TypeOK, RetryRows, ReopenAttempt, BatchAllowed
<1>2. k \in [Node -> Try]
  BY <1>1, BoundAssumption DEF TypeInv, TypeOK, RetryRows, ReopenAttempt, Try
<1>3. row \in [Node -> {"none"} \cup SubtaskStatus]
  BY <1>1 DEF TypeInv, TypeOK, SubtaskStatus
<1>4. d \in [Node -> SUBSET Node] /\ AddedNext(s, nxt[cur]) \in [Node -> SUBSET Node]
  BY <1>1, AddedDepsType, AddedNextType DEF TypeInv, TypeOK
<1>5. \A n \in Node : FillInputs(row, d, k, n) \in [Node -> {0} \cup Try]
  BY <1>2, FillInputsType
<1> HIDE DEF k, row, d
<1>6. /\ deps' = [deps EXCEPT ![cur] = d]
      /\ nxt'  = [nxt EXCEPT ![cur] = AddedNext(s, nxt[cur])]
      /\ st'   = [st EXCEPT ![cur] = row]
      /\ try'  = [try EXCEPT ![cur] = k]
      /\ exec' = [exec EXCEPT ![cur] =
                     [n \in Node |-> IF n \in B THEN 0 ELSE exec[cur][n]]]
      /\ due'  = [due EXCEPT ![cur] =
                     [n \in Node |-> IF n \in B THEN FALSE ELSE due[cur][n]]]
      /\ inp'  = [inp EXCEPT ![cur] =
                     [n \in Node |-> IF n \in B /\ DepsSatisfied(row, d, n)
                                     THEN FillInputs(row, d, k, n)
                                     ELSE inp[cur][n]]]
      /\ hist' = [hist EXCEPT ![cur] =
                     [n \in Node |-> IF n \in B
                                     THEN [hist[cur][n] EXCEPT ![k[n]] = "pending"]
                                     ELSE hist[cur][n]]]
  BY DEF RetryRows, ReopenAttempt, k, row, d
<1>7. TypeOK'
  <2>1. deps' \in [Run -> [Node -> SUBSET Node]] /\ nxt' \in [Run -> [Node -> SUBSET Node]]
    BY <1>1, <1>4, <1>6 DEF TypeInv, TypeOK
  <2>2. /\ st'  \in [Run -> [Node -> {"none"} \cup SubtaskStatus]]
        /\ try' \in [Run -> [Node -> Try]]
    BY <1>1, <1>2, <1>3, <1>6 DEF TypeInv, TypeOK
  <2>3. /\ exec' \in [Run -> [Node -> {0} \cup Try]]
        /\ due' \in [Run -> [Node -> BOOLEAN]]
    BY <1>1, <1>6 DEF TypeInv, TypeOK
  <2>4. inp' \in [Run -> [Node -> [Node -> {0} \cup Try]]]
    BY <1>1, <1>5, <1>6 DEF TypeInv, TypeOK
  <2>5. hist' \in [Run -> [Node -> [Try -> {"none"} \cup SubtaskStatus]]]
    <3>1. "pending" \in SubtaskStatus
      BY DEF SubtaskStatus
    <3>2. \A n \in Node : [hist[cur][n] EXCEPT ![k[n]] = "pending"]
                             \in [Try -> {"none"} \cup SubtaskStatus]
      BY <1>1, <1>2, <3>1 DEF TypeInv, TypeOK
    <3> QED BY <1>1, <1>6, <3>2 DEF TypeInv, TypeOK
  <2>6. TaskTyped'
    BY <1>1 DEF TypeInv, TypeOK, RetryRows, ReopenAttempt, TaskTyped, TaskActive
  <2> QED BY <2>1, <2>2, <2>3, <2>4, <2>5, <2>6
          DEF TypeInv, TypeOK, RetryRows, ReopenAttempt, TaskTyped, procVars
<1>8. InboxAnswered'
  BY DEF TypeInv, InboxAnswered, RetryRows, ReopenAttempt
<1>9. \A n \in Node : /\ n \in B => exec'[cur][n] = 0 /\ st'[cur][n] = "pending"
                                    /\ try'[cur][n] = try[cur][n] + 1
                      /\ n \notin B => /\ exec'[cur][n] = exec[cur][n]
                                       /\ st'[cur][n] = st[cur][n]
                                       /\ try'[cur][n] = try[cur][n]
  BY <1>1, <1>6 DEF TypeInv, TypeOK, k, row
<1>10. \A r \in Run : r # cur => exec'[r] = exec[r] /\ st'[r] = st[r] /\ try'[r] = try[r]
  BY <1>1, <1>6 DEF TypeInv, TypeOK
<1>11. Credentials' /\ AheadNone'
  BY <1>1, <1>9, <1>10 DEF TypeInv, TypeOK, Credentials, AheadNone, Run, RetryRows, ReopenAttempt
<1>12. \A r \in Run, n \in Node, i \in Try :
           (i > try'[r][n] \/ (i = try'[r][n] /\ exec'[r][n] = 0)) =>
               (i > try[r][n] \/ (i = try[r][n] /\ exec[r][n] = 0))
  <2> TAKE r \in Run, n \in Node, i \in Try
  <2>1. i \in Int /\ try[r][n] \in Int
    BY BoundAssumption DEF TypeInv, TypeOK, Try
  <2>2. CASE r = cur /\ n \in B
    BY <1>9, <2>1, <2>2
  <2>3. CASE r # cur \/ n \notin B
    BY <1>9, <1>10, <2>3
  <2> QED BY <2>2, <2>3
<1>13. runner' = runner /\ job' = job
  BY DEF RetryRows, ReopenAttempt, procVars
<1>14. Fresh' /\ OneOutbound'
  BY <1>12, <1>13 DEF TypeInv, Fresh, OneOutbound, Unsent
<1> QED BY <1>7, <1>8, <1>11, <1>14 DEF TypeInv

\* Every step keeps the invariant.
LEMMA TypeNext == TypeInv /\ [Next]_vars => TypeInv'
<1> SUFFICES ASSUME TypeInv, [Next]_vars PROVE TypeInv'
  OBVIOUS
<1>1. CASE UNCHANGED vars
  BY <1>1, IdleStep DEF vars, TypeInv, TypeOK, ProcsTyped, taskVars, edgeVars, rowVars
<1>2. ASSUME NEW p \in Replica, Scheduler(p) PROVE TypeInv'
  BY <1>2, TypeClaim, TypeClaimUnbound, TypeDispatch, TypeFinalize, TypeForget, TypeQueryOne,
     TypeAbsorb, TypeDeadLetter, TypePatrolScan, TypePatrolQuery, TypeHandleTimeout,
     TypeStuckScan, TypeHandleStuck, TypeSettleStale
     DEF Scheduler
<1>3. CASE Runner
  BY <1>3, TypeReport DEF Runner
<1>4. CASE Clock
  BY <1>4, TypeDeadline DEF Clock
<1>5. CASE User
  BY <1>5, TypeStopTask, TypeStopSubtask, TypeRetryTask, TypeRetryRows, TypeDelete
     DEF User, RetrySubtask, RetrySubtasks
<1> QED BY <1>1, <1>2, <1>3, <1>4, <1>5 DEF Next

\* A claim takes a fresh execution, a report waits only for an execution the
\* runner has finished, and all columns stay in their enumerations.
THEOREM TypeInvariant == Spec => []TypeInv
<1> QED BY TypeInit, TypeNext, PTL DEF Spec

\* Every column holds a value of its enumeration in every reachable state of
\* every flow, with any number of replicas, runs, attempts and reports.
THEOREM TypeCorrect == Spec => []TypeOK
<1>1. TypeInv => TypeOK
  BY DEF TypeInv
<1> QED BY <1>1, TypeInvariant, PTL
=============================================================================
