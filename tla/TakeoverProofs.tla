--------------------------- MODULE TakeoverProofs ---------------------------
(***************************************************************************)
(* The takeover row, for any number of workers, watchdogs, executions and  *)
(* resends: type correctness, that the row is only ever written with what  *)
(* belongs to the execution it holds, and what a delete may take off it.   *)
(***************************************************************************)
EXTENDS Takeover, TLAPS

-----------------------------------------------------------------------------
(***************************************************************************)
(* Every way the row is written, and by which statement.                   *)
(***************************************************************************)
RowMoves ==
    \/ \E e \in Execution : row' = BeginStep(Armed(e), e)
    \/ \E e \in Execution : row' = MarkReleasedIfIdle(Armed(e), NoReport)
    \/ \E e \in 0..MaxExec : row' = MarkReleased(row, [of |-> e, v |-> "failed"])
    \/ \E e \in Execution : row' = SetRagTaskId(row, e)
    \/ \E e \in 0..MaxExec : row' = StepHandled(row, e, step[e] = "compile")
    \/ row' = MarkReleasedIfIdle(row, NoReport)
    \/ removing # NoDelete /\ row' = MarkReleased(row, NoReport)
    \/ \E s \in {"parse", "compile"} : row.state = "released" /\ row' = Rearm(row, s)
    \/ row.state = "submitting" /\ row' = [row EXCEPT !.state = "managed", !.late = FALSE]
    \/ row.state \in Active /\ row' = [row EXCEPT !.late = TRUE]

LEMMA CallTyped ==
    ASSUME TypeOK, NEW k \in Worker, call[k].pc \in {"begun", "sent"}
    PROVE  call[k].exec \in Execution
  BY DEF TypeOK, Idle

LEMMA WatchTyped ==
    ASSUME TypeOK, NEW w \in Watcher, watch[w].pc \in {"done", "failed", "unattended"}
    PROVE  watch[w].exec \in 0..MaxExec
  BY DEF TypeOK, Idle

LEMMA RowTyped ==
    ASSUME TypeOK
    PROVE  row.exec \in 0..MaxExec
  BY DEF TypeOK, Row

LEMMA RowWrites ==
    ASSUME TypeOK, [Next]_vars
    PROVE  row' = row \/ RowMoves
<1>1. ASSUME NEW k \in Worker, NEW e \in Execution,
             Again(k, e) \/ Prepare(k, e) \/ Refuse(k, e) \/ ClaimOnly(k, e)
      PROVE  row' = row \/ RowMoves
  BY <1>1 DEF Again, Prepare, Refuse, ClaimOnly, RowMoves
<1>2. ASSUME NEW k \in Worker, Submit(k) \/ Raises(k) \/ Crash(k) PROVE row' = row
  BY <1>2 DEF Submit, Raises, Crash
<1>3. ASSUME NEW k \in Worker, SubmitFails(k) PROVE RowMoves
  <2>1. call[k].exec \in 0..MaxExec
    BY <1>3, CallTyped DEF SubmitFails, At, Execution
  <2> QED BY <1>3, <2>1 DEF SubmitFails, RowMoves
<1>4. ASSUME NEW k \in Worker, Bind(k) PROVE RowMoves
  <2>1. call[k].exec \in Execution BY <1>4, CallTyped DEF Bind, At
  <2> QED BY <1>4, <2>1 DEF Bind, RowMoves
<1>5. ASSUME NEW w \in Watcher, FinishStep(w) \/ FailStep(w) \/ Unattended(w) \/ Drop(w)
      PROVE  row' = row
  BY <1>5 DEF FinishStep, FailStep, Unattended, Drop, Reads
<1>6. ASSUME NEW w \in Watcher, Close(w) PROVE RowMoves
  <2>1. watch[w].exec \in 0..MaxExec BY <1>6, WatchTyped DEF Close
  <2> QED BY <1>6, <2>1 DEF Close, RowMoves
<1>7. ASSUME Center PROVE row' = row \/ RowMoves
  BY <1>7, RowTyped
  DEF Center, Dispatch, WriteOff, Query, Stop, TaskStopped, TaskStoppedRelease,
      NoticeLost, DeleteTask, RemoveTask, RemoveEnds, RowMoves
<1>8. ASSUME NEW s \in {"parse", "compile"}, Rerun(s) PROVE RowMoves
  BY <1>8 DEF Rerun, RowMoves
<1>9. ASSUME SubmitTask \/ MarkManaged \/ Clock PROVE row' = row \/ RowMoves
  BY <1>9 DEF SubmitTask, MarkManaged, Clock, RowMoves
<1>10. ASSUME NEW e \in Execution, EngineEnds(e) PROVE row' = row
  BY <1>10 DEF EngineEnds
<1>11. ASSUME UNCHANGED vars PROVE row' = row
  BY <1>11 DEF vars
<1> QED
  BY <1>1, <1>2, <1>3, <1>4, <1>5, <1>6, <1>7, <1>8, <1>9, <1>10, <1>11
  DEF Next, Runner, Watchdog

-----------------------------------------------------------------------------
(***************************************************************************)
(* Types                                                                   *)
(***************************************************************************)

LEMMA RowStaysTyped ==
    ASSUME TypeOK, RowMoves
    PROVE  row' \in Row
<1>0. /\ row \in Row /\ step \in [Execution -> {"none", "parse", "compile"}]
      /\ NoReport \in [of : 0..MaxExec, v : Final \cup {"none"}]
      /\ \A e \in 0..MaxExec : /\ [of |-> e, v |-> "failed"] \in [of : 0..MaxExec, v : Final \cup {"none"}]
                               /\ [of |-> e, v |-> "success"] \in [of : 0..MaxExec, v : Final \cup {"none"}]
      /\ \A e \in Execution : e \in 0..MaxExec
      /\ 0 \in 0..MaxExec
  BY TakeoverAssumption DEF TypeOK, NoReport, Final, Execution
<1> DEFINE Rep == [of : 0..MaxExec, v : Final \cup {"none"}]
<1>1. ASSUME NEW r \in Row, NEW rep \in Rep PROVE MarkReleased(r, rep) \in Row
  BY <1>0, <1>1 DEF MarkReleased, Released, Row
<1>2. ASSUME NEW r \in Row, NEW rep \in Rep PROVE MarkReleasedIfIdle(r, rep) \in Row
  BY <1>1, <1>2 DEF MarkReleasedIfIdle
<1>3. ASSUME NEW r \in Row, NEW s \in {"none", "parse", "compile"} PROVE Rearm(r, s) \in Row
  BY <1>0, <1>3 DEF Rearm, Row, Active
<1>4. ASSUME NEW e \in Execution PROVE Armed(e) \in Row
  <2>1. Rearm(row, step[e]) \in Row BY <1>0, <1>3, <1>4
  <2> QED BY <1>0, <2>1 DEF Armed, Row
<1>5. ASSUME NEW e \in Execution PROVE BeginStep(Armed(e), e) \in Row
  BY <1>0, <1>4, <1>5 DEF BeginStep, Row
<1>6. ASSUME NEW e \in Execution PROVE SetRagTaskId(row, e) \in Row
  BY <1>0, <1>6 DEF SetRagTaskId, Row
<1>7. ASSUME NEW e \in 0..MaxExec PROVE StepHandled(row, e, step[e] = "compile") \in Row
  BY <1>0, <1>7 DEF StepHandled, Row
<1>8. /\ [row EXCEPT !.state = "managed", !.late = FALSE] \in Row
      /\ [row EXCEPT !.late = TRUE] \in Row
  BY <1>0 DEF Row, Active
<1>9. \A e \in 0..MaxExec : MarkReleased(row, [of |-> e, v |-> "failed"]) \in Row
  BY <1>0, <1>1
<1>10. /\ \A e \in Execution : MarkReleasedIfIdle(Armed(e), NoReport) \in Row
       /\ MarkReleasedIfIdle(row, NoReport) \in Row
       /\ MarkReleased(row, NoReport) \in Row
  BY <1>0, <1>1, <1>2, <1>4
<1>11. \A s \in {"parse", "compile"} : Rearm(row, s) \in Row
  BY <1>0, <1>3
<1> QED
  BY <1>5, <1>6, <1>7, <1>8, <1>9, <1>10, <1>11 DEF RowMoves

\* What is told is a verdict.
LEMMA TellTyped ==
    ASSUME TypeOK, NEW e, NEW v \in Final, Tell(e, v)
    PROVE  verdict' \in [Execution -> {"none", "running"} \cup Final]
  BY DEF TypeOK, Tell

\* All but the row.
RestTyped ==
    /\ registry \in [Execution -> BOOLEAN]
    /\ call \in [Worker -> {Idle} \cup [pc : {"begun", "sent"}, exec : Execution]]
    /\ watch \in [Watcher -> {Idle} \cup [pc : {"done", "failed", "unattended"}, exec : 0..MaxExec]]
    /\ notice \in {"none", "sent", "told"}
    /\ engine \in [Execution -> {"none", "running", "done", "failed"}]
    /\ created \in BOOLEAN
    /\ last \in 0..MaxExec
    /\ step \in [Execution -> {"none", "parse", "compile"}]
    /\ verdict \in [Execution -> {"none", "running"} \cup Final]
    /\ sends \in [Execution -> Nat]
    /\ stopped \in BOOLEAN
    /\ removing \in {NoDelete} \cup 0..MaxExec

LEMMA RestStaysTyped ==
    ASSUME TypeOK, [Next]_vars
    PROVE  RestTyped'
<1>f. "failed" \in Final /\ "success" \in Final BY DEF Final
<1> USE DEF TypeOK, RestTyped
<1>1. ASSUME NEW k \in Worker, NEW e \in Execution,
             Again(k, e) \/ Prepare(k, e) \/ Refuse(k, e) \/ ClaimOnly(k, e)
      PROVE  RestTyped'
  <2>1. sends' \in [Execution -> Nat]
    <3>1. Arrives(k, e)
      BY <1>1 DEF Again, Prepare, Refuse, ClaimOnly
    <3>2. sends[e] - 1 \in Nat
      BY <3>1 DEF Arrives
    <3> QED BY <3>1, <3>2 DEF Arrives
  <2>2. CASE Again(k, e) BY <2>1, <2>2 DEF Again, runnerVars
  <2>3. CASE Prepare(k, e) BY <2>1, <2>3 DEF Prepare
  <2>4. CASE Refuse(k, e)
    <3>1. verdict' \in [Execution -> {"none", "running"} \cup Final]
      BY <2>4, <1>f, TellTyped DEF Refuse
    <3> QED BY <2>1, <2>4, <3>1 DEF Refuse, runnerVars
  <2>5. CASE ClaimOnly(k, e) BY <2>1, <2>5 DEF ClaimOnly
  <2> QED BY <1>1, <2>2, <2>3, <2>4, <2>5
<1>2. ASSUME NEW k \in Worker, Submit(k) PROVE RestTyped'
  <2>1. call[k] \in [pc : {"begun", "sent"}, exec : Execution]
    BY <1>2 DEF Submit, At, Idle
  <2>2. [call[k] EXCEPT !.pc = "sent"] \in [pc : {"begun", "sent"}, exec : Execution]
    BY <2>1
  <2> QED BY <1>2, <2>2 DEF Submit, Started, centerVars
<1>3. ASSUME NEW k \in Worker, SubmitFails(k) PROVE RestTyped'
  <2>1. call[k].exec \in Execution BY <1>3, CallTyped DEF SubmitFails, At
  <2>2. verdict' \in [Execution -> {"none", "running"} \cup Final]
    BY <1>3, <1>f, TellTyped DEF SubmitFails, Reject
  <2> QED BY <1>3, <2>1, <2>2 DEF SubmitFails, Reject, Started
<1>4. ASSUME NEW k \in Worker, Bind(k) PROVE RestTyped'
  <2>1. call[k].exec \in Execution BY <1>4, CallTyped DEF Bind, At
  <2>2. verdict' \in [Execution -> {"none", "running"} \cup Final]
    BY <1>4, <1>f, TellTyped DEF Bind, Reject
  <2> QED BY <1>4, <2>1, <2>2 DEF Bind, Reject
<1>5. ASSUME NEW k \in Worker, Raises(k) \/ Crash(k) PROVE RestTyped'
  <2>1. CASE Raises(k)
    <3>1. call[k].exec \in Execution BY <2>1 DEF Raises, Idle
    <3>2. verdict' \in [Execution -> {"none", "running"} \cup Final]
      BY <2>1, <1>f, TellTyped DEF Raises, Reject
    <3> QED BY <2>1, <3>1, <3>2 DEF Raises, Reject
  <2>2. CASE Crash(k) BY <2>2 DEF Crash, centerVars
  <2> QED BY <1>5, <2>1, <2>2
<1>6. ASSUME NEW w \in Watcher, FinishStep(w) \/ FailStep(w) \/ Unattended(w)
      PROVE  RestTyped'
  <2>1. verdict' \in [Execution -> {"none", "running"} \cup Final]
    BY <1>6, <1>f, TellTyped DEF FinishStep, FailStep, Unattended
  <2>2. row.exec \in 0..MaxExec BY RowTyped
  <2>3. watch' \in [Watcher -> {Idle} \cup [pc : {"done", "failed", "unattended"}, exec : 0..MaxExec]]
    BY <1>6, <2>2 DEF FinishStep, FailStep, Unattended, Reads
  <2> QED
    BY <1>6, <2>1, <2>3 DEF FinishStep, FailStep, Unattended, Reads, runnerVars
<1>7. ASSUME NEW w \in Watcher, Close(w) \/ Drop(w) PROVE RestTyped'
  BY <1>7 DEF Close, Drop, runnerVars, centerVars
<1>8. ASSUME NEW s \in {"parse", "compile"}, Dispatch(s) PROVE RestTyped'
  <2>1. last + 1 \in Execution /\ last' \in 0..MaxExec
    BY <1>8, TakeoverAssumption DEF Dispatch, Execution
  <2>2. Resends[last + 1] \in Nat BY <2>1, TakeoverAssumption DEF Execution
  <2> QED BY <1>8, <2>1, <2>2 DEF Dispatch, runnerVars
<1>9. ASSUME NEW e \in Execution, WriteOff(e) \/ Query(e) PROVE RestTyped'
  BY <1>9, <1>f DEF WriteOff, Query, runnerVars
<1>10. ASSUME \/ Stop \/ TaskStoppedRelease \/ NoticeLost
              \/ DeleteTask \/ RemoveTask \/ RemoveEnds
       PROVE  RestTyped'
  BY <1>10 DEF Stop, TaskStoppedRelease, NoticeLost, DeleteTask, RemoveTask,
               RemoveEnds, runnerVars, centerVars
<1>11. ASSUME TaskStopped PROVE RestTyped'
  <2>1. verdict' \in [Execution -> {"none", "running"} \cup Final]
    BY <1>11, <1>f, TellTyped DEF TaskStopped
  <2> QED BY <1>11, <2>1 DEF TaskStopped, runnerVars
<1>12. ASSUME NEW s \in {"parse", "compile"}, Rerun(s) PROVE RestTyped'
  BY <1>12 DEF Rerun, runnerVars, centerVars
<1>13. ASSUME SubmitTask \/ MarkManaged \/ Clock PROVE RestTyped'
  BY <1>13 DEF SubmitTask, MarkManaged, Clock, runnerVars, centerVars
<1>14. ASSUME NEW e \in Execution, EngineEnds(e) PROVE RestTyped'
  BY <1>14 DEF EngineEnds, runnerVars, centerVars
<1>15. ASSUME UNCHANGED vars PROVE RestTyped'
  BY <1>15 DEF vars
<1> QED
  BY <1>1, <1>2, <1>3, <1>4, <1>5, <1>6, <1>7, <1>8, <1>9, <1>10, <1>11, <1>12,
     <1>13, <1>14, <1>15
  DEF Next, Runner, Watchdog, Center

(***************************************************************************)
(* The row, the registry and what the handlers and watchdogs hold keep     *)
(* their types, for any number of each.                                    *)
(***************************************************************************)
THEOREM TakeoverTyped == Spec => []TypeOK
<1>1. Init => TypeOK
  <2> SUFFICES ASSUME Init PROVE TypeOK OBVIOUS
  <2>1. 0 \in 0..MaxExec /\ 0 \in Nat BY TakeoverAssumption
  <2>2. row \in Row BY <2>1 DEF Init, Row, NoReport, Active
  <2> QED BY <2>1, <2>2 DEF Init, TypeOK
<1>2. TypeOK /\ [Next]_vars => TypeOK'
  <2> SUFFICES ASSUME TypeOK, [Next]_vars PROVE TypeOK' OBVIOUS
  <2>1. row' \in Row BY RowWrites, RowStaysTyped DEF TypeOK
  <2> QED BY <2>1, RestStaysTyped DEF TypeOK, RestTyped
<1> QED BY <1>1, <1>2, PTL DEF Spec

-----------------------------------------------------------------------------
(***************************************************************************)
(* The row and its executions                                              *)
(***************************************************************************)

\* A row that was given back holds no execution.
ReleasedIsIdle == row.state = "released" => row.exec = 0

RowInv == TypeOK /\ ReleasedIsIdle

LEMMA ReleaseFacts ==
    ASSUME NEW r \in Row, NEW rep
    PROVE  \/ MarkReleased(r, rep) = r
           \/ /\ MarkReleased(r, rep).state = "released"
              /\ MarkReleased(r, rep).exec = 0
              /\ MarkReleased(r, rep).rag = 0
              /\ MarkReleased(r, rep).report = rep
  BY DEF MarkReleased, Released, Row

LEMMA ReleaseIdleFacts ==
    ASSUME NEW r \in Row, NEW rep
    PROVE  \/ MarkReleasedIfIdle(r, rep) = r
           \/ /\ r.exec = 0
              /\ MarkReleasedIfIdle(r, rep).state = "released"
              /\ MarkReleasedIfIdle(r, rep).exec = 0
              /\ MarkReleasedIfIdle(r, rep).rag = 0
              /\ MarkReleasedIfIdle(r, rep).report = rep
  BY ReleaseFacts DEF MarkReleasedIfIdle

LEMMA ArmedFacts ==
    ASSUME TypeOK, NEW e \in Execution
    PROVE  /\ Armed(e) \in Row
           /\ Armed(e).state # "released"
           /\ \/ Armed(e) = row
              \/ /\ row.state = "released"
                 /\ Armed(e).exec = 0 /\ Armed(e).rag = 0
                 /\ Armed(e).report = NoReport
<1>0. row \in Row /\ step[e] \in {"none", "parse", "compile"} BY DEF TypeOK
<1>1. CASE row.state = "released"
  <2>1. 0 \in 0..MaxExec /\ NoReport \in [of : 0..MaxExec, v : Final \cup {"none"}]
    BY TakeoverAssumption DEF NoReport
  <2>2. /\ Rearm(row, step[e]) \in Row
        /\ Rearm(row, step[e]).state = "managed"
        /\ Rearm(row, step[e]).exec = 0 /\ Rearm(row, step[e]).rag = 0
        /\ Rearm(row, step[e]).report = NoReport
    BY <1>0, <2>1 DEF Rearm, Row, Active
  <2> HIDE DEF NoReport
  <2> QED BY <1>1, <2>1, <2>2 DEF Armed, Row
<1>2. CASE row.state # "released"
  BY <1>0, <1>2 DEF Armed
<1> QED BY <1>1, <1>2

\* begin_step leaves the report and the engine's task as it found them.
LEMMA BeginFacts ==
    ASSUME TypeOK, NEW e \in Execution
    PROVE  /\ BeginStep(Armed(e), e).exec = e
           /\ BeginStep(Armed(e), e).state # "released"
           /\ BeginStep(Armed(e), e).rag = Armed(e).rag
           /\ BeginStep(Armed(e), e).report = Armed(e).report
           /\ BeginStep(Armed(e), e).handled = Armed(e).handled
  BY ArmedFacts DEF BeginStep, Row

LEMMA RowInvStep ==
    ASSUME RowInv, RowMoves
    PROVE  ReleasedIsIdle'
<1>0. row \in Row BY DEF RowInv, TypeOK
<1>1. ASSUME NEW e \in Execution, row' = BeginStep(Armed(e), e)
      PROVE  ReleasedIsIdle'
  BY <1>1, BeginFacts, ArmedFacts DEF RowInv, NoReport, ReleasedIsIdle
<1>2. ASSUME NEW e \in Execution, row' = MarkReleasedIfIdle(Armed(e), NoReport)
      PROVE  ReleasedIsIdle'
  BY <1>2, ReleaseIdleFacts, ArmedFacts DEF RowInv, NoReport, ReleasedIsIdle
<1>3. ASSUME NEW e \in 0..MaxExec, row' = MarkReleased(row, [of |-> e, v |-> "failed"])
      PROVE  ReleasedIsIdle'
  BY <1>0, <1>3 DEF MarkReleased, Released, Row, RowInv, ReleasedIsIdle
<1>4. ASSUME NEW e \in Execution, row' = SetRagTaskId(row, e)
      PROVE  ReleasedIsIdle'
  BY <1>0, <1>4 DEF SetRagTaskId, Row, RowInv, ReleasedIsIdle
<1>5. ASSUME NEW e \in 0..MaxExec, row' = StepHandled(row, e, step[e] = "compile")
      PROVE  ReleasedIsIdle'
  BY <1>0, <1>5 DEF StepHandled, Row, RowInv, ReleasedIsIdle
<1>6. ASSUME row' = MarkReleasedIfIdle(row, NoReport) \/ row' = MarkReleased(row, NoReport)
      PROVE  ReleasedIsIdle'
  BY <1>0, <1>6, ReleaseFacts, ReleaseIdleFacts DEF RowInv, NoReport, ReleasedIsIdle
<1>7. ASSUME NEW s \in {"parse", "compile"}, row' = Rearm(row, s)
      PROVE  ReleasedIsIdle'
  BY <1>0, <1>7 DEF Rearm, NoReport, Row, ReleasedIsIdle
<1>8. ASSUME \/ row.state = "submitting" /\ row' = [row EXCEPT !.state = "managed", !.late = FALSE]
             \/ row.state \in Active /\ row' = [row EXCEPT !.late = TRUE]
      PROVE  ReleasedIsIdle'
  BY <1>0, <1>8 DEF Row, RowInv, ReleasedIsIdle
<1> QED
  BY <1>1, <1>2, <1>3, <1>4, <1>5, <1>6, <1>7, <1>8 DEF RowMoves

LEMMA RowInvariant == Spec => []RowInv
<1>1. Init => ReleasedIsIdle
  BY DEF Init, NoReport, ReleasedIsIdle
<1>2. RowInv /\ [Next]_vars => ReleasedIsIdle'
  <2> SUFFICES ASSUME RowInv, [Next]_vars PROVE ReleasedIsIdle'
    OBVIOUS
  <2>1. CASE row' = row BY <2>1 DEF RowInv, ReleasedIsIdle
  <2>2. CASE RowMoves BY <2>2, RowInvStep
  <2> QED BY <2>1, <2>2, RowWrites DEF RowInv
<1>3. RowInv <=> TypeOK /\ ReleasedIsIdle
  BY DEF RowInv
<1> QED BY <1>1, <1>2, <1>3, TakeoverTyped, PTL DEF Spec

(***************************************************************************)
(* However late the handler or a watchdog writes, the engine's task and    *)
(* the success that get onto the row are those of its own execution.       *)
(***************************************************************************)
THEOREM TraceIsOwn == Spec => OwnTraceOnly
<1> DEFINE A == /\ row'.rag \notin {0, row.rag} => row'.rag = row.exec
                /\ row'.report.v = "success" /\ row'.report # row.report
                     => row'.report.of = row.exec
<1>1. RowInv /\ [Next]_vars => [A]_row
  <2> SUFFICES ASSUME RowInv, RowMoves PROVE A
    BY RowWrites DEF RowInv
  <2>0. row \in Row BY DEF RowInv, TypeOK
  <2>1. ASSUME NEW e \in Execution,
               row' = BeginStep(Armed(e), e) \/ row' = MarkReleasedIfIdle(Armed(e), NoReport)
        PROVE  A
    BY <2>1, BeginFacts, ReleaseIdleFacts, ArmedFacts DEF RowInv, NoReport
  <2>2. ASSUME NEW e \in 0..MaxExec, row' = MarkReleased(row, [of |-> e, v |-> "failed"])
        PROVE  A
    BY <2>0, <2>2 DEF MarkReleased, Released, Row
  <2>3. ASSUME NEW e \in Execution, row' = SetRagTaskId(row, e) PROVE A
    BY <2>0, <2>3 DEF SetRagTaskId, Row
  <2>4. ASSUME NEW e \in 0..MaxExec, row' = StepHandled(row, e, step[e] = "compile")
        PROVE  A
    BY <2>0, <2>4 DEF StepHandled, Row
  <2>5. ASSUME row' = MarkReleasedIfIdle(row, NoReport) \/ row' = MarkReleased(row, NoReport)
        PROVE  A
    BY <2>0, <2>5, ReleaseFacts, ReleaseIdleFacts DEF NoReport
  <2>6. ASSUME NEW s \in {"parse", "compile"}, row' = Rearm(row, s) PROVE A
    BY <2>0, <2>6 DEF Rearm, NoReport, Row
  <2>7. ASSUME \/ row' = [row EXCEPT !.state = "managed", !.late = FALSE]
               \/ row' = [row EXCEPT !.late = TRUE]
        PROVE  A
    BY <2>0, <2>7 DEF Row
  <2> QED BY <2>1, <2>2, <2>3, <2>4, <2>5, <2>6, <2>7 DEF RowMoves
<1>2. []RowInv /\ [][Next]_vars => [][A]_row
  BY <1>1, PTL
<1> QED BY <1>2, RowInvariant, PTL DEF Spec, OwnTraceOnly

-----------------------------------------------------------------------------
(***************************************************************************)
(* What a delete has seen stays so: nothing that was handed out before it  *)
(* looked is waited for again.                                             *)
(***************************************************************************)
DeleteSound ==
    removing # NoDelete => /\ removing <= last
                           /\ \A e \in 1..removing : verdict[e] # "running"

\* All but a dispatch: nothing is waited for that was not before.
OnlySettles ==
    /\ last' = last
    /\ \A e \in Execution : verdict'[e] = "running" => verdict[e] = "running"

LEMMA TellSettles ==
    ASSUME TypeOK, NEW e, NEW v \in Final, Tell(e, v), last' = last
    PROVE  OnlySettles
  BY DEF TypeOK, Tell, Final, OnlySettles

LEMMA CenterSettles ==
    ASSUME TypeOK, [Next]_vars, \A s \in {"parse", "compile"} : ~Dispatch(s)
    PROVE  OnlySettles
<1>f. "failed" \in Final /\ "success" \in Final BY DEF Final
<1>1. ASSUME NEW k \in Worker, Runner(k) PROVE OnlySettles
  <2>1. ASSUME NEW e \in Execution, Again(k, e) \/ Prepare(k, e) \/ ClaimOnly(k, e)
        PROVE  OnlySettles
    BY <2>1 DEF Again, Prepare, ClaimOnly, OnlySettles
  <2>2. ASSUME NEW e \in Execution, Refuse(k, e) PROVE OnlySettles
    BY <2>2, <1>f, TellSettles DEF Refuse
  <2>3. ASSUME Submit(k) \/ Crash(k) PROVE OnlySettles
    BY <2>3 DEF Submit, Crash, centerVars, OnlySettles
  <2>4. ASSUME SubmitFails(k) \/ Raises(k) PROVE OnlySettles
    BY <2>4, <1>f, TellSettles DEF SubmitFails, Raises, Reject
  <2>5. ASSUME Bind(k) PROVE OnlySettles
    <3>1. CASE row.exec = call[k].exec BY <2>5, <3>1 DEF Bind, OnlySettles
    <3>2. CASE row.exec # call[k].exec
      BY <2>5, <3>2, <1>f, TellSettles DEF Bind, Reject
    <3> QED BY <3>1, <3>2
  <2> QED BY <1>1, <2>1, <2>2, <2>3, <2>4, <2>5 DEF Runner
<1>2. ASSUME NEW w \in Watcher, Watchdog(w) PROVE OnlySettles
  <2>1. ASSUME FinishStep(w) \/ FailStep(w) PROVE OnlySettles
    BY <2>1, <1>f, TellSettles DEF FinishStep, FailStep, Reads
  <2>2. ASSUME Unattended(w) \/ Close(w) \/ Drop(w) PROVE OnlySettles
    BY <2>2 DEF Unattended, Reads, Close, Drop, centerVars, OnlySettles
  <2> QED BY <1>2, <2>1, <2>2 DEF Watchdog
<1>3. ASSUME NEW e \in Execution, WriteOff(e) \/ Query(e) PROVE OnlySettles
  BY <1>3 DEF TypeOK, WriteOff, Query, Final, OnlySettles
<1>4. ASSUME TaskStopped PROVE OnlySettles
  BY <1>4, <1>f, TellSettles DEF TaskStopped, OnlySettles
<1>5. ASSUME \/ Stop \/ TaskStoppedRelease \/ NoticeLost
             \/ DeleteTask \/ RemoveTask \/ RemoveEnds
      PROVE  OnlySettles
  BY <1>5 DEF Stop, TaskStoppedRelease, NoticeLost, DeleteTask, RemoveTask,
              RemoveEnds, centerVars, OnlySettles
<1>6. ASSUME NEW s \in {"parse", "compile"}, Rerun(s) PROVE OnlySettles
  BY <1>6 DEF Rerun, centerVars, OnlySettles
<1>7. ASSUME SubmitTask \/ MarkManaged \/ Clock PROVE OnlySettles
  BY <1>7 DEF SubmitTask, MarkManaged, Clock, centerVars, OnlySettles
<1>8. ASSUME NEW e \in Execution, EngineEnds(e) PROVE OnlySettles
  BY <1>8 DEF EngineEnds, centerVars, OnlySettles
<1>9. ASSUME UNCHANGED vars PROVE OnlySettles
  BY <1>9 DEF vars, OnlySettles
<1> QED
  BY <1>1, <1>2, <1>3, <1>4, <1>5, <1>6, <1>7, <1>8, <1>9 DEF Next, Center

\* Who changes what a delete has seen.
LEMMA RemovingMoves ==
    ASSUME [Next]_vars
    PROVE  removing' = removing \/ DeleteTask \/ RemoveEnds
<1>1. ASSUME NEW k \in Worker, Runner(k) PROVE removing' = removing
  BY <1>1 DEF Runner, Again, Prepare, Refuse, ClaimOnly, Submit, SubmitFails, Bind,
              Raises, Crash, centerVars
<1>2. ASSUME NEW w \in Watcher, Watchdog(w) PROVE removing' = removing
  BY <1>2 DEF Watchdog, FinishStep, FailStep, Unattended, Reads, Close, Drop, centerVars
<1>3. ASSUME Center PROVE removing' = removing \/ DeleteTask \/ RemoveEnds
  BY <1>3 DEF Center, Dispatch, WriteOff, Query, Stop, TaskStopped,
              TaskStoppedRelease, NoticeLost, RemoveTask, centerVars
<1>4. ASSUME NEW s \in {"parse", "compile"}, Rerun(s) PROVE removing' = removing
  BY <1>4 DEF Rerun, centerVars
<1>5. ASSUME SubmitTask \/ MarkManaged \/ Clock PROVE removing' = removing
  BY <1>5 DEF SubmitTask, MarkManaged, Clock, centerVars
<1>6. ASSUME NEW e \in Execution, EngineEnds(e) PROVE removing' = removing
  BY <1>6 DEF EngineEnds, centerVars
<1> QED BY <1>1, <1>2, <1>3, <1>4, <1>5, <1>6 DEF Next, vars

LEMMA DeleteSoundStep ==
    ASSUME TypeOK, DeleteSound, [Next]_vars
    PROVE  DeleteSound'
<1>0. /\ last \in 0..MaxExec /\ removing \in {NoDelete} \cup 0..MaxExec
      /\ verdict \in [Execution -> {"none", "running"} \cup Final]
      /\ MaxExec \in Nat /\ NoDelete \notin 0..MaxExec
  BY TakeoverAssumption DEF TypeOK, NoDelete
<1>1. CASE DeleteTask
  <2>1. /\ removing' = last /\ last' = last /\ verdict' = verdict
        /\ \A e \in Execution : verdict[e] # "running"
    BY <1>1 DEF DeleteTask
  <2>2. \A e \in 1..last : e \in Execution BY <1>0 DEF Execution
  <2> QED BY <1>0, <2>1, <2>2 DEF DeleteSound
<1>2. CASE RemoveEnds BY <1>2 DEF RemoveEnds, DeleteSound
<1>3. CASE removing' = removing /\ removing # NoDelete
  <2>0. \A e \in 1..removing : e \in Execution BY <1>0, <1>3 DEF Execution
  <2>1. ASSUME NEW s \in {"parse", "compile"}, Dispatch(s) PROVE DeleteSound'
    <3>1. last' = last + 1 /\ verdict' = [verdict EXCEPT ![last + 1] = "running"]
      BY <2>1 DEF Dispatch
    <3>2. \A e \in 1..removing : e # last + 1 BY <1>0, <1>3 DEF DeleteSound
    <3>3. \A e \in 1..removing : verdict'[e] = verdict[e]
      BY <1>0, <2>0, <3>1, <3>2
    <3> QED BY <1>0, <1>3, <3>1, <3>3 DEF DeleteSound
  <2>2. CASE \A s \in {"parse", "compile"} : ~Dispatch(s)
    <3>1. OnlySettles BY <2>2, CenterSettles
    <3> QED BY <1>3, <2>0, <3>1 DEF OnlySettles, DeleteSound
  <2> QED BY <2>1, <2>2
<1>4. CASE removing' = removing /\ removing = NoDelete
  BY <1>4 DEF DeleteSound
<1> QED BY <1>1, <1>2, <1>3, <1>4, RemovingMoves

LEMMA DeleteInvariant == Spec => []DeleteSound
<1>1. Init => DeleteSound BY DEF Init, DeleteSound
<1>2. TypeOK /\ DeleteSound /\ [Next]_vars => DeleteSound'
  BY DeleteSoundStep
<1> QED BY <1>1, <1>2, TakeoverTyped, PTL DEF Spec

(***************************************************************************)
(* An execution that is waited for leaves the row with nothing said only   *)
(* by a delete that had looked before the execution was handed out.        *)
(***************************************************************************)
THEOREM DroppedByDelete == Spec => DroppedOnlyByDelete
<1> DEFINE A == row.exec # 0 /\ row'.exec = 0 /\ verdict[row.exec] = "running"
                /\ row'.report = NoReport
                  => removing # NoDelete /\ row.exec > removing
<1>1. RowInv /\ DeleteSound /\ [Next]_vars => [A]_row
  <2> SUFFICES ASSUME RowInv, DeleteSound, RowMoves, row.exec # 0, row'.exec = 0,
                      verdict[row.exec] = "running", row'.report = NoReport
               PROVE  removing # NoDelete /\ row.exec > removing
    BY RowWrites DEF RowInv
  <2>0. row \in Row /\ row.state # "released" /\ row.exec \in Execution
    BY TakeoverAssumption DEF RowInv, TypeOK, ReleasedIsIdle, Row, Execution
  <2>1. ~\E e \in Execution :
          row' = BeginStep(Armed(e), e) \/ row' = MarkReleasedIfIdle(Armed(e), NoReport)
    BY <2>0, BeginFacts, ReleaseIdleFacts, ArmedFacts DEF RowInv, Execution
  <2>2. ASSUME NEW e \in 0..MaxExec, row' = MarkReleased(row, [of |-> e, v |-> "failed"])
        PROVE  row'.report # NoReport
    BY <2>0, <2>2 DEF MarkReleased, Released, NoReport, Row
  <2>3. ~\E e \in Execution : row' = SetRagTaskId(row, e)
    BY <2>0 DEF SetRagTaskId, Row
  <2>4. ASSUME NEW e \in 0..MaxExec, row' = StepHandled(row, e, step[e] = "compile")
        PROVE  row'.report # NoReport
    BY <2>0, <2>4 DEF StepHandled, NoReport, Row
  <2>5. row' # MarkReleasedIfIdle(row, NoReport)
    BY <2>0 DEF MarkReleasedIfIdle
  <2>6. /\ row' # [row EXCEPT !.state = "managed", !.late = FALSE]
        /\ row' # [row EXCEPT !.late = TRUE]
    BY <2>0 DEF Row
  <2>7. removing # NoDelete
    BY <2>0, <2>1, <2>2, <2>3, <2>4, <2>5, <2>6 DEF RowMoves
  <2>8. removing \in 0..MaxExec /\ row.exec \in 1..MaxExec /\ MaxExec \in Nat
    BY <2>0, <2>7, TakeoverAssumption DEF RowInv, TypeOK, Execution
  <2>9. row.exec \notin 1..removing BY <2>7 DEF DeleteSound
  <2> QED BY <2>7, <2>8, <2>9
<1>2. []RowInv /\ []DeleteSound /\ [][Next]_vars => [][A]_row
  BY <1>1, PTL
<1> QED BY <1>2, RowInvariant, DeleteInvariant, PTL DEF Spec, DroppedOnlyByDelete
=============================================================================
