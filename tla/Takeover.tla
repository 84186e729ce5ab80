------------------------------ MODULE Takeover ------------------------------
(***************************************************************************)
(* The knowledge base as a runner: one document that is processed by one   *)
(* task of the task center (knowledge_base/services/task_runner_service.py *)
(* and task_watch_service.py, jonex_core/task_runtime/runner.py).          *)
(*                                                                         *)
(* The takeover row says which execution the document is in the hands of;  *)
(* while it is active the document is locked for the user.  It is written  *)
(* by the handler of a dispatch, by the watchdogs, by the notice that the  *)
(* task was stopped and by the user's buttons, each in short transactions  *)
(* with calls to other services in between.  The task center is here what  *)
(* TaskCenter shows of it to a runner: executions it hands out, waits for, *)
(* asks about and gives up.  Left out: the deletion of the knowledge base, *)
(* and of the document, which the row forbids while it is active.          *)
(***************************************************************************)
EXTENDS Integers, FiniteSets

CONSTANTS
    Worker,         \* concurrent dispatch calls the runner can serve
    Watcher,        \* processes that run the watchdog's sweep
    Resends,        \* bound: sends of every dispatch (_dispatch_with_retry: 3)
    MaxExec,        \* bound: executions the task center hands out
    DeleteOffered   \* users can delete a task (remove_task says: not yet)

ASSUME TakeoverAssumption ==
    /\ MaxExec \in Nat \ {0} /\ DeleteOffered \in BOOLEAN
    /\ Resends \in [1..MaxExec -> Nat \ {0}]

Execution == 1..MaxExec
Active    == {"submitting", "managed"}          \* ACTIVE_STATES
Final     == {"success", "failed"}

VARIABLES
    row,        \* the takeover row (task_center_documents)
    registry,   \* executions that are claimed (task_execution_registry)
    call,       \* what every worker is doing for a dispatch
    watch,      \* what every watchdog is doing with the row it has read
    notice,     \* the notice that the task was stopped: none, sent, told
    engine,     \* the engine's task for every execution
    created,    \* the task center has the task
    last,       \* the execution it handed out last; 0: none
    step,       \* the step of every execution
    verdict,    \* what it makes of every execution: none, running, a Final
    sends,      \* copies of the dispatch that may still arrive, or never do
    stopped,    \* the user has stopped the task
    removing    \* a delete's call to the runner may still arrive: the last
                \* execution handed out when the delete made its check

runnerVars == <<registry, call>>
centerVars == <<created, last, step, verdict, sends, stopped, removing>>
vars == <<row, registry, call, watch, notice, engine,
          created, last, step, verdict, sends, stopped, removing>>

Idle     == [pc |-> "idle"]
NoReport == [of |-> 0, v |-> "none"]
NoDelete == -1

(***************************************************************************)
(* exec, rag and handled are execution ids, 0 for NULL; rag stands for the *)
(* engine's task that was started for that execution.  report is           *)
(* last_report, with the execution it is about.  late: the deadline that   *)
(* applies to the row as it is has passed (TC_NO_DISPATCH_SEC,             *)
(* TC_NO_DOWNSTREAM_SEC, TC_STEP_HARD_TIMEOUT_SEC, or the submission's).   *)
(***************************************************************************)
Row == [state : Active \cup {"released"}, step : {"none", "parse", "compile"},
        exec : 0..MaxExec, rag : 0..MaxExec, handled : 0..MaxExec,
        report : [of : 0..MaxExec, v : Final \cup {"none"}], late : BOOLEAN]

TypeOK ==
    /\ row \in Row
    /\ registry \in [Execution -> BOOLEAN]
    /\ call \in [Worker -> {Idle} \cup [pc : {"begun", "sent"}, exec : Execution]]
    /\ watch \in [Watcher -> {Idle} \cup [pc : {"done", "failed", "unattended"}, exec : 0..MaxExec]]
    /\ notice \in {"none", "sent", "told"}
    /\ engine \in [Execution -> {"none", "running", "done", "failed"}]
    /\ created \in BOOLEAN
    /\ last \in 0..MaxExec
    /\ step \in [Execution -> {"none", "parse", "compile"}]
    /\ verdict \in [Execution -> {"none", "running"} \cup Final]
    /\ sends \in [Execution -> Nat]
    /\ stopped \in BOOLEAN
    /\ removing \in {NoDelete} \cup 0..MaxExec

\* An upload has written the row and is about to submit the task.
Init ==
    /\ row = [state |-> "submitting", step |-> "none", exec |-> 0, rag |-> 0,
              handled |-> 0, report |-> NoReport, late |-> FALSE]
    /\ registry = [e \in Execution |-> FALSE]
    /\ call = [k \in Worker |-> Idle]
    /\ watch = [w \in Watcher |-> Idle]
    /\ notice = "none"
    /\ engine = [e \in Execution |-> "none"]
    /\ created = FALSE /\ last = 0 /\ stopped = FALSE
    /\ step = [e \in Execution |-> "none"]
    /\ verdict = [e \in Execution |-> "none"]
    /\ sends = [e \in Execution |-> 0]
    /\ removing = NoDelete

-----------------------------------------------------------------------------
(***************************************************************************)
(* The statements of TaskCenterDocumentRepository: what each leaves of the *)
(* row r.  A WHERE that does not hold leaves it as it is.                  *)
(***************************************************************************)
Released(r, rep) ==
    [r EXCEPT !.state = "released", !.exec = 0, !.rag = 0, !.report = rep, !.late = FALSE]

\* mark_released: it does not look at execution_id.
MarkReleased(r, rep) == IF r.state \in Active THEN Released(r, rep) ELSE r

\* Mutant: only_if_idle is forgotten.
MarkReleasedAnyway(r, rep) == MarkReleased(r, rep)

\* mark_released(only_if_idle=True)
MarkReleasedIfIdle(r, rep) == IF r.exec = 0 THEN MarkReleased(r, rep) ELSE r

\* rearm_for_step, of a released row
Rearm(r, s) ==
    [r EXCEPT !.state = "managed", !.step = s, !.exec = 0, !.rag = 0,
              !.report = NoReport, !.late = FALSE]

\* begin_step, of an active row: rag_task_id is left as it is.
BeginStep(r, e) == [r EXCEPT !.step = step[e], !.exec = e, !.late = FALSE]

\* Mutant: the number is written to the document's row, whoever holds it.
SetRagTaskIdAnyway(r, e) == [r EXCEPT !.rag = e, !.late = FALSE]

\* set_rag_task_id: WHERE execution_id = :e
SetRagTaskId(r, e) == IF r.exec = e THEN [r EXCEPT !.rag = e, !.late = FALSE] ELSE r

\* mark_step_handled: WHERE execution_id = :e, and not handled before
StepHandled(r, e, release) ==
    IF r.exec = e /\ r.handled # e
    THEN [r EXCEPT !.handled = e, !.exec = 0, !.rag = 0, !.late = FALSE,
                   !.report = [of |-> e, v |-> "success"],
                   !.state = IF release THEN "released" ELSE @]
    ELSE r

\* A report or a refusal reaches the task center, or is lost.
Tell(e, v) ==
    \/ verdict' = [verdict EXCEPT ![e] = IF @ = "running" THEN v ELSE @]
    \/ UNCHANGED verdict

-----------------------------------------------------------------------------
(***************************************************************************)
(* A dispatch arrives: RunnerBase.execute and the KB's _handle_step.       *)
(***************************************************************************)

\* Mutant: the sends are not limited.
ArrivesAlways(k, e) ==
    /\ call[k] = Idle
    /\ e <= last
    /\ sends' = [sends EXCEPT ![e] = @ - 1]

(***************************************************************************)
(* A copy of the dispatch of e gets to worker k.  An execution that is     *)
(* claimed is answered with ok and not done again.  What happens between   *)
(* claiming it and _prepare_step's transaction could as well happen before *)
(* the copy arrives, so the two are one step.                              *)
(***************************************************************************)
Arrives(k, e) ==
    /\ call[k] = Idle
    /\ sends[e] > 0
    /\ sends' = [sends EXCEPT ![e] = @ - 1]

Again(k, e) ==
    /\ Arrives(k, e)
    /\ registry[e]
    /\ UNCHANGED <<row, runnerVars, watch, notice, engine, created, last, step,
                   verdict, stopped, removing>>

\* A row that was given back is armed again (_rearm_after_console_retry).
Armed(e) == IF row.state = "released"
            THEN [Rearm(row, step[e]) EXCEPT !.handled = 0] ELSE row

\* claim and _prepare_step
Prepare(k, e) ==
    /\ Arrives(k, e)
    /\ ~registry[e]
    /\ registry' = [registry EXCEPT ![e] = TRUE]
    /\ row' = BeginStep(Armed(e), e)
    /\ call' = [call EXCEPT ![k] = [pc |-> "begun", exec |-> e]]
    /\ UNCHANGED <<watch, notice, engine, created, last, step, verdict, stopped, removing>>

\* _prepare_step finds the document gone, or not the one of the dispatch: the
\* claim is released, the answer is a failure.
Refuse(k, e) ==
    /\ Arrives(k, e)
    /\ ~registry[e]
    /\ row' = MarkReleasedIfIdle(Armed(e), NoReport)
    /\ Tell(e, "failed")
    /\ UNCHANGED <<runnerVars, watch, notice, engine, created, last, step, stopped, removing>>

\* The process dies with the claim made and nothing done.
ClaimOnly(k, e) ==
    /\ Arrives(k, e)
    /\ registry' = [registry EXCEPT ![e] = TRUE]
    /\ UNCHANGED <<row, call, watch, notice, engine, created, last, step, verdict,
                   stopped, removing>>

At(k, pc) == call[k].pc = pc

\* The handler fails: the claim is released, the answer is a failure.
Reject(k) ==
    /\ registry' = [registry EXCEPT ![call[k].exec] = FALSE]
    /\ call' = [call EXCEPT ![k] = Idle]
    /\ Tell(call[k].exec, "failed")

\* The engine knows the idempotency key of an execution it has got before.
Started(e) == engine' = [engine EXCEPT ![e] = IF @ = "none" THEN "running" ELSE @]

\* _submit_downstream
Submit(k) ==
    /\ At(k, "begun")
    /\ Started(call[k].exec)
    /\ call' = [call EXCEPT ![k].pc = "sent"]
    /\ UNCHANGED <<row, registry, watch, notice, centerVars>>

\* ... fails; the engine may have the task all the same.
SubmitFails(k) ==
    /\ At(k, "begun")
    /\ Started(call[k].exec) \/ UNCHANGED engine
    /\ row' = MarkReleased(row, [of |-> call[k].exec, v |-> "failed"])
    /\ Reject(k)
    /\ UNCHANGED <<watch, notice, created, last, step, sends, stopped, removing>>

\* The number of the engine's task is written; nobody's row: refuse.
Bind(k) ==
    /\ At(k, "sent")
    /\ row' = SetRagTaskId(row, call[k].exec)
    /\ IF row.exec = call[k].exec
         THEN call' = [call EXCEPT ![k] = Idle] /\ UNCHANGED <<registry, verdict>>
         ELSE Reject(k)
    /\ UNCHANGED <<watch, notice, engine, created, last, step, sends, stopped, removing>>

\* An exception nobody caught, or the call is cancelled: the claim is
\* released and the row stays as it is.
Raises(k) ==
    /\ call[k] # Idle
    /\ Reject(k)
    /\ UNCHANGED <<row, watch, notice, engine, created, last, step, sends, stopped, removing>>

\* The process dies: the claim stays.
Crash(k) ==
    /\ call[k] # Idle
    /\ call' = [call EXCEPT ![k] = Idle]
    /\ UNCHANGED <<row, registry, watch, notice, engine, centerVars>>

-----------------------------------------------------------------------------
(***************************************************************************)
(* The watchdog.  sweep reads the row, _inspect asks the engine and the    *)
(* task center and reports what became of the step; that is one step here. *)
(* The row is written later and may have changed by then: watch has the    *)
(* execution the row held when it was read.                                *)
(***************************************************************************)
\* The task is over for the task center.
TaskEnded ==
    \/ stopped
    \/ /\ last # 0
       /\ \/ verdict[last] = "failed"
          \/ verdict[last] = "success" /\ step[last] = "compile"

\* _master_already_settled: the step the row is at, or the whole task
MasterSettled ==
    \/ TaskEnded
    \/ \E e \in Execution : /\ step[e] = row.step /\ verdict[e] \in Final
                            /\ \A f \in Execution : step[f] = row.step => f <= e

\* What _inspect_rag_task asks the engine for, and _inspect_compile reads off
\* the document, whose columns are those of the compile that is under way.
Outcome ==
    IF row.rag = 0 THEN "none"
    ELSE engine[IF row.step = "compile" THEN row.exec ELSE row.rag]

Reads(w, pc) ==
    /\ watch[w] = Idle
    /\ watch' = [watch EXCEPT ![w] = [pc |-> pc, exec |-> row.exec]]
    /\ UNCHANGED <<row, runnerVars, notice, engine, created, last, step, sends, stopped, removing>>

\* _finish_step reports first.
FinishStep(w) ==
    /\ row.state = "managed" /\ row.exec # 0
    /\ ~row.late /\ Outcome = "done"
    /\ Tell(row.exec, "success")
    /\ Reads(w, "done")

\* Mutant: a step without an outcome is left alone.
FailStepOnEvidence(w) ==
    /\ row.state = "managed" /\ row.exec # 0
    /\ MasterSettled \/ Outcome = "failed"
    /\ Tell(row.exec, "failed")
    /\ Reads(w, "failed")

\* _fail_step, and _abandon of a step that the task center has settled.
FailStep(w) ==
    /\ row.state = "managed" /\ row.exec # 0
    /\ row.late \/ MasterSettled \/ Outcome = "failed"
    /\ Tell(row.exec, "failed")
    /\ Reads(w, "failed")

\* Nobody dispatches the next step (_abandon), or the task could not be
\* submitted in time (_fail_document): nothing to report.
Unattended(w) ==
    /\ row.late
    /\ row.state = "managed" => row.exec = 0
    /\ Reads(w, IF row.state = "managed" THEN "unattended" ELSE "failed")
    /\ UNCHANGED verdict

\* The row is written, whether the report was taken or not.
Close(w) ==
    LET e == watch[w].exec IN
    /\ \/ watch[w].pc = "done"   /\ row' = StepHandled(row, e, step[e] = "compile")
       \/ watch[w].pc = "failed" /\ row' = MarkReleased(row, [of |-> e, v |-> "failed"])
       \/ watch[w].pc = "unattended"  /\ row' = MarkReleasedIfIdle(row, NoReport)
    /\ watch' = [watch EXCEPT ![w] = Idle]
    /\ UNCHANGED <<runnerVars, notice, engine, centerVars>>

\* An exception, or the end of the process.
Drop(w) ==
    /\ watch[w] # Idle
    /\ watch' = [watch EXCEPT ![w] = Idle]
    /\ UNCHANGED <<row, runnerVars, notice, engine, centerVars>>

-----------------------------------------------------------------------------
(***************************************************************************)
(* Notices and questions of the task center, and the user's buttons.       *)
(***************************************************************************)
\* task_stopped: the execution in flight is reported as failed ...
TaskStopped ==
    /\ notice = "sent"
    /\ IF row.state = "released"
         THEN notice' = "none" /\ UNCHANGED verdict
         ELSE /\ notice' = "told"
              /\ IF row.exec = 0 THEN UNCHANGED verdict ELSE Tell(row.exec, "failed")
    /\ UNCHANGED <<row, runnerVars, watch, engine, created, last, step, sends, stopped, removing>>

\* ... and the row is read again and released.
TaskStoppedRelease ==
    /\ notice = "told"
    /\ row' = MarkReleased(row, [of |-> row.exec, v |-> "failed"])
    /\ notice' = "none"
    /\ UNCHANGED <<runnerVars, watch, engine, centerVars>>

NoticeLost ==
    /\ notice # "none"
    /\ notice' = "none"
    /\ UNCHANGED <<row, runnerVars, watch, engine, centerVars>>

\* Mutant: only the status of the task is looked at.
DeleteEnded ==
    /\ DeleteOffered /\ removing = NoDelete
    /\ created /\ TaskEnded
    /\ removing' = last
    /\ UNCHANGED <<row, runnerVars, watch, notice, engine, created, last, step,
                   verdict, sends, stopped>>

(***************************************************************************)
(* delete_task looks without the lock whether anything of the task can     *)
(* still move, and calls remove_task; it looks again, with the lock, when  *)
(* the call has been answered.  A retry in between is not kept out.  What  *)
(* the second look decides is not modelled: a deleted task is one that     *)
(* hands nothing more out.  One delete is under way at a time.             *)
(***************************************************************************)
DeleteTask ==
    /\ DeleteOffered /\ removing = NoDelete
    /\ created /\ TaskEnded /\ \A e \in Execution : verdict[e] # "running"
    /\ removing' = last
    /\ UNCHANGED <<row, runnerVars, watch, notice, engine, created, last, step,
                   verdict, sends, stopped>>

\* remove_task: a copy of the call reaches the runner.
RemoveTask ==
    /\ removing # NoDelete
    /\ row.state \in Active
    /\ row' = MarkReleased(row, NoReport)
    /\ UNCHANGED <<runnerVars, watch, notice, engine, centerVars>>

\* No copy is left.
RemoveEnds ==
    /\ removing # NoDelete
    /\ removing' = NoDelete
    /\ UNCHANGED <<row, runnerVars, watch, notice, engine, created, last, step,
                   verdict, sends, stopped>>

\* query_step_status: what the row says of execution e.
Answer(e) ==
    IF e = row.handled /\ row.report.v \in Final THEN row.report.v
    ELSE IF row.state \in Active THEN "running"
    ELSE row.report.v

\* _query_one: a final answer is taken like a report.
Query(e) ==
    /\ verdict[e] = "running"
    /\ Answer(e) \in Final
    /\ verdict' = [verdict EXCEPT ![e] = Answer(e)]
    /\ UNCHANGED <<row, runnerVars, watch, notice, engine, created, last, step, sends, stopped, removing>>

\* rearm_for_rerun: a button of the user, before the task center is asked.
Rerun(s) ==
    /\ row.state = "released" /\ TaskEnded
    /\ row' = Rearm(row, s)
    /\ UNCHANGED <<runnerVars, watch, notice, engine, centerVars>>

-----------------------------------------------------------------------------
(***************************************************************************)
(* The submission, the engine, the clock and the task center.              *)
(***************************************************************************)
\* submit_ontology_task, on upload or by the watchdog: its answer may be lost.
SubmitTask ==
    /\ row.state = "submitting" /\ ~created
    /\ created' = TRUE
    /\ UNCHANGED <<row, runnerVars, watch, notice, engine, last, step, verdict, sends, stopped, removing>>

\* mark_managed, after CREATED or REUSED
MarkManaged ==
    /\ created /\ row.state = "submitting"
    /\ row' = [row EXCEPT !.state = "managed", !.late = FALSE]
    /\ UNCHANGED <<runnerVars, watch, notice, engine, centerVars>>

EngineEnds(e) ==
    /\ engine[e] = "running"
    /\ \E v \in {"done", "failed"} : engine' = [engine EXCEPT ![e] = v]
    /\ UNCHANGED <<row, runnerVars, watch, notice, centerVars>>

Clock ==
    /\ row.state \in Active /\ ~row.late
    /\ row' = [row EXCEPT !.late = TRUE]
    /\ UNCHANGED <<runnerVars, watch, notice, engine, centerVars>>

(***************************************************************************)
(* The steps the task center may dispatch: the next one after a success,   *)
(* the same one or the whole task again after the end of the task; a       *)
(* stopped task only as a whole, and a step may still run in it.           *)
(***************************************************************************)
NextSteps ==
    IF last = 0 \/ stopped THEN {"parse"}
    ELSE IF verdict[last] = "running" THEN {}
    ELSE IF verdict[last] = "success" /\ step[last] = "parse" THEN {"compile"}
    ELSE {"parse", step[last]}

Dispatch(s) ==
    /\ created /\ last < MaxExec
    /\ s \in NextSteps
    /\ last' = last + 1
    /\ step' = [step EXCEPT ![last + 1] = s]
    /\ verdict' = [verdict EXCEPT ![last + 1] = "running"]
    /\ sends' = [sends EXCEPT ![last + 1] = Resends[last + 1]]
    /\ stopped' = FALSE
    /\ UNCHANGED <<row, runnerVars, watch, notice, engine, created, removing>>

\* Answered with 5xx to the last, or past its deadline: the step has failed.
WriteOff(e) ==
    /\ verdict[e] = "running"
    /\ verdict' = [verdict EXCEPT ![e] = "failed"]
    /\ UNCHANGED <<row, runnerVars, watch, notice, engine, created, last, step, sends, stopped, removing>>

\* stop_task: something of the task is still to come.
Stop ==
    /\ created /\ ~TaskEnded
    /\ last # 0 => step[last] = "parse"
    /\ stopped' = TRUE
    /\ notice' \in {"sent", "none"}
    /\ UNCHANGED <<row, runnerVars, watch, engine, created, last, step, verdict, sends, removing>>

Runner(k) ==
    \/ \E e \in Execution : Again(k, e) \/ Prepare(k, e) \/ Refuse(k, e) \/ ClaimOnly(k, e)
    \/ Submit(k) \/ SubmitFails(k) \/ Bind(k) \/ Raises(k) \/ Crash(k)

Watchdog(w) ==
    FinishStep(w) \/ FailStep(w) \/ Unattended(w) \/ Close(w) \/ Drop(w)

Center ==
    \/ \E s \in {"parse", "compile"} : Dispatch(s)
    \/ \E e \in Execution : WriteOff(e) \/ Query(e)
    \/ Stop \/ TaskStopped \/ TaskStoppedRelease \/ NoticeLost
    \/ DeleteTask \/ RemoveTask \/ RemoveEnds

Next ==
    \/ \E k \in Worker : Runner(k)
    \/ \E w \in Watcher : Watchdog(w)
    \/ Center
    \/ \E s \in {"parse", "compile"} : Rerun(s)
    \/ SubmitTask \/ MarkManaged \/ Clock
    \/ \E e \in Execution : EngineEnds(e)

Spec == Init /\ [][Next]_vars

-----------------------------------------------------------------------------
(***************************************************************************)
(* Only what was done for the execution a row holds is written to it: the  *)
(* engine's task of another execution is never bound to it, and the        *)
(* success of another one never closes it, however long the handler or the *)
(* watchdog was away with what it had read (set_rag_task_id,               *)
(* mark_step_handled).                                                     *)
(***************************************************************************)
OwnTraceOnly ==
    [][/\ row'.rag \notin {0, row.rag} => row'.rag = row.exec
       /\ row'.report.v = "success" /\ row'.report # row.report
            => row'.report.of = row.exec]_row

(***************************************************************************)
(* An execution the task center waits for is taken off the row with        *)
(* nothing said only by a delete, and only when it was handed out after    *)
(* that delete had looked: a handler that refuses, or a watchdog that      *)
(* finds nobody at work, never gives back a row that a dispatch has just   *)
(* taken (only_if_idle of mark_released).                                  *)
(***************************************************************************)
DroppedOnlyByDelete ==
    [][row.exec # 0 /\ row'.exec = 0 /\ verdict[row.exec] = "running"
       /\ row'.report = NoReport
          => removing # NoDelete /\ row.exec > removing]_row

(***************************************************************************)
(* A question about an execution that is waited for is not answered with   *)
(* the success of an earlier round (comment in rearm_for_step).  (It does  *)
(* not hold: see the run old_answer.)                                      *)
(***************************************************************************)
AnswerIsOwn ==
    \A e \in Execution :
        verdict[e] = "running" /\ Answer(e) = "success" => row.report.of = e

(***************************************************************************)
(* The document is unlocked again and again, whatever is lost and whoever  *)
(* dies: the watchdog's deadlines are the last resort.                     *)
(***************************************************************************)
Unlocked == []<>(row.state = "released")

(***************************************************************************)
(* The watchdog's loop never ends: a sweep comes again and again, what it  *)
(* finds is handled unless the process dies at that point every time, and  *)
(* time passes.  Nothing is assumed of the task center, of the engine, of  *)
(* the workers or of the user.                                             *)
(***************************************************************************)
Fairness ==
    /\ WF_vars(Clock)
    /\ WF_vars(\E w \in Watcher : FinishStep(w) \/ FailStep(w) \/ Unattended(w))
    /\ SF_vars(\E w \in Watcher : Close(w))

FairSpec == Spec /\ Fairness

(***************************************************************************)
(* The task center only believes a step to have succeeded when the engine  *)
(* has done its work.  (It does not hold: see the run false_success.)      *)
(***************************************************************************)
SuccessIsEarned ==
    \A e \in Execution : verdict[e] = "success" => engine[e] = "done"
=============================================================================
