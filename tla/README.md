# The task center, specified

A verification project for the task center of Jonex (`src/capabilities/task_center`),
the part of the repository that decides what runs, when, and what became of it, and for
the largest of its runners, the knowledge base. The TLA+ modules model

- one task through its runs, retries, stops and deletion (`TaskCenter`), and what it
  promises (`TaskLedger`);
- the transactions behind it, with the Redis lock that may expire and the concurrency
  cap across tasks (`TaskLock`, `DispatchClaims`);
- what starts tasks: flow definitions, triggers and cron (`Definitions`, `Triggers`,
  `Cron`, `FlowValidator`);
- what executes them: the runner's side, with the document it holds (`Takeover`).

In each of them replicas of a background loop, users and other services act at the same
time. TLC checks small instances; TLAPS proves the central properties for every flow,
every number of replicas and every bound.

## 1. The system

Jonex is a Python platform of *capabilities* (services that run as processes), a
shared library (`jonex_core`), a gateway and frontends. Most capabilities are CRUD
services or pipelines over external stores. The task center is the exception: it
keeps a state machine in PostgreSQL that several actors change at once.

### Inventory

| Component | State | Operations | Modelled by |
|---|---|---|---|
| task service (`services/task_service.py`) | tasks, runs (`task_attempts`), rows (`subtasks`), history (`subtask_attempts`) | fire, claim, finalize, absorb, aggregate, timeout, stuck, settle, stop, retry, delete | `TaskCenter`, `TaskLedger`, `Downstream`, `DownstreamChain`; the cap in `DispatchClaims` |
| background scheduler (`services/scheduler_service.py`) | a pass's candidates, held in memory | dispatch, query, report, patrol, settle, fire passes, per replica | `TaskCenter`; the fire pass in `Triggers` |
| execution repository (`repository/execution_repository.py`) | - | compare-and-set updates, candidate scans | guards and updates of `TaskCenter`; statement by statement in `DispatchClaims` |
| report inbox (`repository/report_repository.py`) | `subtask_reports` | enqueue, consume, dead-letter, "is an early report waiting" | `TaskCenter` |
| runner adapter (`flows/runner_adapter.py`) | - | call with resends, status query | `TaskCenter` (verdicts), `Takeover` (copies of a dispatch) |
| task lock (`services/task_lock.py`, `common/cache.py`) | a Redis key per task with a time to live | acquire in a window, retry after a lost reply, release by token | `TaskLock` |
| flow validator (`services/flow_validator.py`) | - | accepts or refuses a flow | `FlowValidator` (cycles), `DownstreamChain` (switches), the constant `Valid` |
| task definitions (`services/task_definition_service.py`) | a definition, its drafts and published versions | create, change, publish, delete | `Definitions` |
| triggers and cron (`services/task_trigger_service.py`, `services/cron.py`) | status, `next_fire_at`, version | create, change, pause, resume, fire, delete; claim and fire by the loop | `Triggers`, `Cron` |
| runner side (`jonex_core/task_runtime`) | executions that were claimed | execute once, answer, report, stop notice | `Takeover` |
| knowledge base as a runner (`task_runner_service.py`, `task_watch_service.py`) | the takeover row of a document, which locks it for the user | handle a dispatch, watchdog, stop, removal, questions, rerun | `Takeover` |
| other parts of the knowledge base, platform, business domain, data governance | stores of their own | CRUD, document pipelines | no |
| discovery, sidecar, gateways, MCP server, LLM gateway, frontends | registry, breakers | proxying | no |

### How the parts interact

A user fires a task: one row per step of the published flow, all `pending`. In every
round each replica of the loop looks for rows whose upstreams are all `success` and
*claims* one under the task lock (pending to running, with a fresh execution id). It
lets go of the lock and calls the runner over HTTP, which may take more than a minute
with the resends; then it takes the lock again and *finalizes*. The runner reports
into an inbox; the report pass *absorbs* a report under the lock, fills the inputs of
downstreams that became ready, and *aggregates*: when nothing of the run can move any
more the task gets its final status. A patrol asks about overdue rows and times them
out; ready rows nobody dispatched are timed out too; a settle pass repairs tasks whose
run was closed without them. Users stop a task or a step, retry one step, a list of
steps or the whole task (a new *run*), and delete it.

Tasks are started by hand or by a *trigger*: in every round each replica scans for
triggers that are due, claims the moment by a compare-and-set on `next_fire_at`, and
starts a task of the definition's current version. Definitions are edited as drafts and
published after validation.

The knowledge base is a runner. A dispatch makes a handler write the execution onto the
document's *takeover row*, start a task of the engine (atomic-rag), and write the number
of that task onto the row; a *watchdog* asks for its end, reports it, and gives the row
back. It also gives it back when nobody has dispatched, started or finished anything in
time, and when the task center says that the task was stopped.

### What is hard

- The outbound call, the candidate scans, and the clean-up call of a delete happen
  *without* the lock. What was scanned or claimed may be stopped, retried, re-claimed
  or deleted before the result comes back.
- Calls and reports are lost, late, repeated; a replica dies between any two steps.
- The same row is executed several times. Only the execution id tells a report of
  this attempt from one of the last.
- A task may be run again while rows of an earlier run are still running.
- A retry of a list writes its order into the rows' dependencies, so the graph changes
  while the task lives.
- The lock is a lease of 30 s that is not renewed; the cap of a step counts rows of other
  tasks, which no lock covers.
- Every request reads, computes or calls out, and writes later. What decides is the
  WHERE of the update, and each update compares something else: `next_fire_at`, the
  version, the status, the execution, or the row's id alone.
- A runner gets a dispatch twice or never, dies after it has claimed one, and comes back
  from a slow call to a row that another execution holds by now.
- Nothing pushes a task to its end except the loop: a state with no candidate for any
  pass is a task that hangs for ever.

What makes the parts correct:

- *settling*: a task is active exactly while something of it can still move, its
  final status is true, and it is reached in the end;
- *isolation of attempts and runs*: a late answer reaches only the attempt it is
  about, and only a retry brings a task back;
- *bookkeeping*: rows, history, runs and both directions of the edges agree;
- *inputs*: what is dispatched carries the present outputs of its upstreams;
- *deletion*: a deleted task has nothing running;
- *claims*: an attempt is handed out once, a due moment is fired once, the cap is exceeded
  by no more than its documentation says;
- *versions*: what is published or deleted stays so;
- *takeover*: what is written to a row belongs to the execution it holds, an awaited
  execution is answered for, and a document is always unlocked again.

`PROJECT.json` lists the hazards one by one, with the line where each bites and the
properties aimed at it.

## 2. Modules

| Module | What it is |
|---|---|
| `Downstream` | dependency graphs and the functions the service computes on them: the downstream chain of a retry or stop, its order, the closure along `next_steps` |
| `FlowValidator` | `_detect_cycles` as the depth-first search it is |
| `DownstreamChain` | a graph is validated and, when it passes, `_downstream_chain` runs on it as the two loops it is; extends `FlowValidator` |
| `TaskCenter` | the task with its runs and rows, the replicas, the inbox, the runner, the users |
| `TaskLedger` | what a task promises: a ledger of attempts that are opened, begun, ended and kept |
| `TaskRefinement` | `TaskCenter` implements `TaskLedger` |
| `TaskLock` | the key in Redis, tokens, the waiting window, lost replies, expiry |
| `DispatchClaims` | the transactions under that lock, statement by statement, on rows of several tasks; extends `TaskLock` |
| `Definitions` | a definition and its versions, edited by several people |
| `Cron` | `next_fire_at` and what it promises |
| `Triggers` | one trigger, the fire pass and the users; composes `Definitions` and `Cron` |
| `Takeover` | one document in the hands of the runner, the watchdog and the task center |
| `MCPair`, `MCFree` | flows for TLC: two steps in a row; two that are independent |
| `MCClaims`, `MCSchedule`, `MCTakeover` | rows, tasks and a bucket; a small calendar with two schedules; how often dispatches are sent |
| `DownstreamProofs` | lemmas about acyclic graphs, least numbers and the loop of `downstream_closure` |
| `ChainProofs` | the search for cycles and the loops of `_downstream_chain` |
| `TaskCenterProofs`, `TaskCenterSafety`, `TaskCenterSteps` | types; settling, outcome, records, edges and inputs; action properties, deletion, history and the refinement |
| `ClaimsProofs`, `ScheduleProofs`, `TakeoverProofs` | the theorems on the other three specifications |

### State of `TaskCenter`

One task, `MaxRun` runs of it, the steps `Node` of its flow.

| Variable | Column or state in the code |
|---|---|
| `status`, `cur`, `deleted` | `tasks.status`, `.current_attempt`, `.is_deleted` |
| `attempt[r]` | `task_attempts.status` of run `r` |
| `st`, `try`, `exec` `[r][n]` | `subtasks.status`, `.current_attempt`, `.execution_id` (the attempt it names, 0 for NULL) |
| `due[r][n]` | `started_at + timeout_seconds` has passed |
| `deps`, `nxt` `[r]` | `subtasks.depends_on`, `.next_steps` |
| `inp[r][n]` | `subtasks.inputs`, abstracted to the attempt whose outputs were bound, per upstream |
| `hist[r][n][k]` | `subtask_attempts.status` |
| `inbox` | unconsumed `subtask_reports`: the execution, and whether it arrived before the deadline |
| `runner[e]` | what the runner has said of execution `e` |
| `job[p]`, `stuck[p]` | local variables of replica `p`: the call it is in, the overdue row it patrols, the stuck row it scanned |
| `removing` | a `delete_task` between its two checks |

An execution id is the triple run, step, attempt. The code draws a `uuid4` at each
claim and a row is claimed once per attempt, so the triple identifies it. Outputs,
parameters and messages are reduced to the attempt they come from.

### Actions and the code

A service method commits before it releases the task lock, so what it does under the
lock is one action. What it does without the lock is an action of its own.

| Action | Code |
|---|---|
| `ClaimForDispatch`, `ClaimUnbound` | `claim_for_dispatch`: the claim, and the branch where the step's runner is not registered |
| `Dispatch` | `_dispatch_with_retry`, `call_with_retry`: ends in a verdict; unless accepted, the runner may or may not have the work |
| `FinalizeDispatch` | `_finalize_one`, `finalize_dispatch`, `_mark_run_started`, `_fail_subtask` |
| `Forget` | the replica dies, or cannot get the lock in `_finalize_one` |
| `ReportStatus` | `report_status`, called by the runner |
| `QueryOne` | `_query_pass`, `_query_one` |
| `AbsorbReport`, `DeadLetter` | `_report_one`, `absorb_report`, `_absorb`, `_advance`, `_fill_downstream`; `mark_dead_lettered` |
| `DeadlinePasses` | time |
| `PatrolScan`, `PatrolQuery`, `HandleTimeout` | `list_timed_out_for_patrol`, `_patrol_pass`, `handle_timeout` |
| `StuckScan`, `HandleStuckPending` | `list_stuck_pending`, `handle_stuck_pending` |
| `SettleStaleTask` | `_settle_pass`, `settle_stale_task` |
| `StopTask`, `StopSubtask` | `_do_stop_task`, `_settle_stopped`, `_do_stop_subtask`, `_stop_cascade_targets` |
| `RetryTask` | `_do_retry_task`, `_build_context`: a new run |
| `RetrySubtask`, `RetrySubtasks` | `_do_retry_subtask`, `_do_retry_subtasks` |
| `DeleteBegin`, `DeleteAbort`, `DeleteCommit` | `delete_task` around its call to the runners |

`Aggregate` (`_aggregate`) is part of every action that closes a row, as it is in the
code. A call that is refused, or recognised as a resend, changes nothing and is not an
action. `Init` is the state `fire` leaves behind.

`UpdateSnapshot` is the compare-and-set on the task's own row. The lock makes it succeed,
but its lease (30 s, not renewed) can run out under a slow transaction; the update then
finds nothing, `_aggregate` logs an error, and the rest of the transaction, the closed
record of the run included, is committed. With `SnapshotMayMiss` the model takes both
branches. It is the case `_settle_pass` exists for: an active task whose run is closed,
for which every other pass and most user operations have no candidate.

The flow is a constant. `FlowAssumption` says what `flow_validator.py` guarantees of a
published one: no cycle of dependencies, none of references, and upstreams of the same
step with equal switches. That the validator's search lets no cycle through is `CyclesFound`,
which is proved for flows of any size.

`TaskRefinement` maps a line of the ledger to a history row (`hist[r][n][k]`), *open* to an
active status and *gone* to `deleted`. The ledger knows no passes, locks, inboxes or
candidates. It allows a line to be begun only while the task is open and in the newest
run, to end once, and to be followed by another attempt only while the task is closed.

### `TaskLock` and `DispatchClaims`

`TaskCenter` takes a locked section for one step. Here the section is the statements it
consists of: `Begin` (a scan names the row), `Enter` or `Wait` (`acquire_task_lock`), `Read`,
`Count` (`_over_concurrency`), `Update` (waits for the writer of the row, then compares
status and `state_version`), `Commit`, `Leave`. `Fail` rolls back, `Crash` loses the process
and leaves the key, `RunOut` ends a lease under a holder. The three jobs are the kinds of
write there are: claim, settle, reset for a retry. `key` is the content of Redis, `token`
what a replica believes to hold; `lease` and `claims` are history variables.

### `Definitions`, `Cron`, `Triggers`

An editor's or user's request is two or three steps: what it has read is kept in `edit[e]`
or `req[u]` until it writes, and the guard of the write is the WHERE clause
(`OpenToUpdate`, `OpenToPublish`, `Unchanged`, `Claimable`) or the unique index
(`InsertAllowed`). `pass[p]` is the fire pass of a replica between its scan, claim and
firing. `DeleteDefinition` takes the trigger with it, as `delete_definition` does. Time is
counted in half minutes, so that the clock can show a moment within a minute; the length
of hours and days and the calendar are constants.

`DayMatches` is `day_matches`, case by case. What `next_fire_at` is held to (`NextMatch`) uses
neither it nor the search: a moment is decoded into its fields, and its day is looked up in
the table of cron.py's header (`DayNamed`).

Two simplifications of `Tick` and `Claim`: all replicas and users read one clock, which never
goes back. `FiredOnce` rests on that: with a clock that lags behind, a user's change could
compute a `next_fire_at` that was claimed before. And every schedule in use has a next moment
(`TriggerAssumption`), so the branch in which a firing finds none and pauses the trigger is
not taken; it ends the trigger's firings and cannot repeat one.

### `Takeover`

`row` is the row of `task_center_documents`, with `exec`, `rag` (the engine's task, named by
the execution it was started for), `handled` and `last_report`; `late` says that the
deadline that applies to it has passed. The statements of the repository are operators on
the row (`BeginStep`, `SetRagTaskId`, `StepHandled`, `MarkReleased`, `MarkReleasedIfIdle`,
`Rearm`), each with its WHERE. `call[k]` is a handler between its calls, `watch[w]` a
watchdog between reading the row and writing it, `notice` the stop notice. The task center
is what `TaskCenter` shows of it to a runner: it hands out executions (`Dispatch`), each
sent up to `Resends[e]` times, waits (`verdict`), asks (`Query`), gives up (`WriteOff`), stops,
deletes.

A handler ends in one of four ways: it has bound the engine's task (`Bind`), the submission
has failed (`SubmitFails`), it has raised or was cancelled, which releases the claim and
leaves the row as it is (`Raises`), or its process has died with the claim kept (`Crash`).

A delete looks without the lock (`DeleteTask`), calls `remove_task` (`RemoveTask`, any number
of times: the call is resent) and is over when no copy of the call is left (`RemoveEnds`). It
does not keep a retry out in between. `removing` is the last execution there was when it
looked. The docstring of `remove_task` says that deleting a task is not offered to users yet;
`DeleteOffered` is that switch. It is on in the run `takeover`, off in the two runs that refute
a comment, which therefore do not need it, and either in the theorems.

The watchdog's sweep reads a batch of rows and asks the engine and the task center about each
later. In the model, reading, asking and reporting are one step and only the write comes
later. What is lost is an answer about the row as it was some calls earlier: the report then
names the execution that was read, and the write compares it or does not, as here. `Outcome`
leaves out that a wiki compile may first wait in a queue; waiting is `"none"`.

## 3. Runs

| Run | Instance | Checks |
|---|---|---|
| `pair_retry` | 1 -> 2, one replica, one run, two attempts per row | `TypeOK`, `SettledIffTerminal`, `InputsFresh`, `RecordEarned`, `DeletedIdle`, `ImplementsLedger` |
| `pair_rerun` | 1 -> 2, one replica, two runs, one attempt, users who stop and rerun the task, fairness | `RecordEarned`, `OldRunsFrozen`, `OnlyRetryReopens`, `ImplementsLedger`, `TaskSettles`, `LeftoversEnd` |
| `free_batch` | two independent steps, one replica, two attempts, two waiting reports, nobody deletes | `EdgesSound`, `OutcomeTrue`, `HistoryAgrees`, `SuccessIsReported` |
| `downstream_chain` | every graph of 4 steps; of those that pass, every switch setting and start | `CyclesFound`, `ChainExact`, `TopologicalWhenClosed`, `ChainAgrees` |
| `claims` | two replicas, three rows of two tasks, one place under the cap | `TypeOK`, `Exclusive`, `SoftCap`, `ClaimedOnce` |
| `schedule` | two replicas, two editors, a user, two schedules, two versions | `TypeOK`, `FiredOnce`, `NextFireExact`, `CurrentIsNewest`, `DeletedForGood`, `PublishedForGood` |
| `takeover` | one worker, one watchdog, two executions, the first sent twice, deletes, fairness | `TypeOK`, `OwnTraceOnly`, `DroppedOnlyByDelete`, `Unlocked` |
| `stopped_record`, `stale_judgement`, `publish_race`, `false_success`, `old_answer` | | one statement of the code's comments each, violated (section 5) |

The passing runs of `TaskCenter` have `SnapshotMayMiss` set: the task's row may escape any
update. The refuted statements do not need it.

What they show, in words:

- `SettledIffTerminal`: an active task has a row that runs or can be dispatched, or the
  record of its run is closed, so that the settle pass finds it; and a terminal one has
  nothing that can be dispatched. `claim_for_dispatch` does not look
  at the task's status under the lock, so this is what keeps it from starting work of
  a stopped task.
- `OutcomeTrue`: completed means that every row succeeded. Rows held back behind a
  failed upstream stay `pending` in a settled run and must not be overlooked. Stopped
  means that a row was stopped, unless the run had been closed with another outcome
  before the user stopped the task, whose row had missed it.
- `RecordEarned`: however often a run is reopened and closed, its record never claims a
  result its rows do not bear out, and a run that is over is closed in the record. That
  the record says the same as the task is more, and does not hold (section 5).
- `InputsFresh`: a row that can be dispatched has inputs bound to the present outputs
  of its upstreams, however often these were retried.
- `HistoryAgrees`, `SuccessIsReported`: the history follows the row through timeouts,
  stops and retries, and a row succeeds only by a report of its own attempt.
- `ImplementsLedger`: nothing the passes, late answers and users do together amounts to a
  move the ledger does not know.
- `OnlyRetryReopens`, `OldRunsFrozen`: late results of an earlier attempt or run
  change neither a terminal task nor what a superseded run has finished.
- `DeletedIdle`: the second check of `delete_task` covers what happened during the
  call between the two.
- `EdgesSound`: `depends_on` and `next_steps` stay each other's converse and acyclic
  through batch retries in either order.
- `TaskSettles`, `LeftoversEnd`: see section 4.
- `CyclesFound`: the search reports a cycle exactly when the steps cannot be ranked; a
  join of two branches is none.
- `ChainExact`, `TopologicalWhenClosed`, `ChainAgrees`: the loops select the least set
  closed under the enabled edges, each step once, in dependency order if no selected
  step waits for one outside, and compute what `TaskCenter` uses for their result.
- `Exclusive`: two replicas are in the section of a task only after a lease has run out.
  A release by an old holder, a lost reply and a crash do not let a second one in.
- `ClaimedOnce`: and even then no attempt is claimed twice, because of `state_version`.
- `SoftCap`: replicas that counted under the locks of different tasks exceed the cap by at
  most their number less one, which is what the docstring of `_over_concurrency` says.
- `FiredOnce`: no due moment is claimed twice. `claim_fire` compares `next_fire_at` and not
  the version, the users' updates the version and not `next_fire_at`; neither alone would do.
- `NextFireExact`: the day-by-day search finds the first matching minute after now, also
  across days and months and when days of the month and of the week are both given.
- `CurrentIsNewest`, `PublishedForGood`, `DeletedForGood`: requests that had read something
  older neither move the current version back nor undo a publication or deletion.
- `OwnTraceOnly`: a handler or watchdog that was away binds no engine task to a row that
  another execution holds, and does not close that row with its own success. A *failure* can
  hit the wrong execution: `_fail_step` and `task_stopped` release by document. And a late
  copy of a dispatch takes over an active row (`BeginStep`); no line says otherwise.
- `DroppedOnlyByDelete`: an execution the task center waits for is not released from the row
  with nothing said, except by the call of a delete, and then only if it was handed out
  after that delete had looked. A handler that refuses and a watchdog that finds nobody at
  work give back an idle row only.
- `Unlocked`: the document is given back whatever is lost (section 4).

**Bounds.** `MaxRun`, `MaxTry`, `MaxInbox` bound the retries and the queue. Two of each
are the least that show interference between an attempt and the next, or a run and the
next; a third repeats it. Two steps are the least with an upstream, a downstream, a
held row and a batch with an order; two replicas the least that claim and judge the
same row. Taking all at two at once is beyond TLC, so each run raises the bounds its
properties are about: attempts and a downstream in `pair_retry`, runs in `pair_rerun`,
batches and waiting reports in `free_batch`. A second replica of the loop next to all of
`TaskCenter` is beyond TLC as well: only `stale_judgement` has one. What two replicas do to each
other is checked where they meet, on the lock and the rows (`claims`) and on a due trigger
(`schedule`). The theorems have no bounds to choose, and cover any number of replicas, runs,
attempts and reports for everything but liveness. Four steps are the least
with the order anomaly of section 5, and with a join behind a branch.

In `claims` three rows are the least with two rows of one task and a third of another in
the same bucket: replicas meet at a lock or only at the cap. One row has two attempts, so
that a claim of the first can come after the reset. Four tokens are enough for two holders
and the keys of both tasks; a token nobody remembers is as good as a new one. In `schedule`
the clock is read at 0, 2 and 7 half minutes: the start, the next due moment, and one
within a minute at which runs were missed; `MaxChange` 1 lets a user's change and a claim
come in either order. In `takeover` two executions are the least in
which a late copy, handler, watchdog or delete of the first meets the second, and two copies of
the first the least in which one arrives when the other was taken. `old_answer` needs a third
execution: two to finish the task and one to run it again. Replicas, editors, tokens and rows
of one task are interchangeable in `claims` and `schedule`, which use symmetry; both check
invariants and action properties only. The other runs use none.

**Deadlock** is not checked: a terminal or deleted task or a
document given back may rest for ever, and bounded retries end every behaviour of the
model. That no *active* task rests is `TaskSettles`, that no locked document does is
`Unlocked`.

Each property has a mutant in `PROJECT.json`: a definition with a plausible mistake
(a dropped guard, a forgotten aggregate, a scan that overlooks older runs) under which
TLC refutes it. The mutants stand next to the definitions they replace.

## 4. Fairness

`LoopFairness` is what `_loop` gives: it catches every exception and runs all passes in
every round, so a pass with a candidate in infinitely many rounds gets to handle it.

- `SF(Scan)`, `SF(Judge)`: strong, because a candidate comes and goes while other work
  occupies the replica, and because `Forget` may interrupt a replica, though not every
  time it comes to this point.
- `SF(Settle)`: a settle pass whose update does not miss. The lease may run out in some
  rounds, not in all of them.
- `WF` of going on with a dispatch (`Dispatch` or `FinalizeDispatch`), per replica: the
  call has timeouts and a bounded number of resends, and the pass then goes on. A crash
  (`Forget`) may come instead.
- `SF(AbsorbHeld)`: a report with a valid credential is offered in every round, and is
  not given up every time.
- `WF(Clock)`: deadlines pass.

Nothing is assumed of `ClaimForDispatch` (the concurrency cap may refuse it for ever),
of the runner, which may never answer, or of users. A row never claimed is ended by the
stuck check, one never answered by the patrol; hence `TaskSettles`. The `pair_rerun` run
lets users stop and rerun the whole task, as `LeftoversEnd` is about rows left behind by that.

`Fairness` of `Takeover` is the watchdog's loop and the clock, nothing else: weak fairness
of `Clock`, weak fairness of a sweep that finds something to do, strong fairness of `Close`,
since a process may die (`Drop`) between reading and writing, though not every time. Of the
task center, the engine, the handlers and the user nothing is assumed; the deadlines of the
watchdog are the last resort, and `Unlocked` shows that they are enough.

## 5. Where the code and its comments part

Each of these is a run that TLC refutes; `PROJECT.json` quotes the lines.

1. `stale_judgement`. `handle_stuck_pending` relies on the scan for readiness. A retry of
   the upstream in between holds the row back again, and it is timed out while held.
   `handle_timeout` relies on the scan for the deadline in the same way: between scan and
   lock the attempt can be finished, retried and claimed again by another replica.
2. `publish_race`. `publish_version` validates the config it has read, and `publish_draft`
   compares the status only. A change that commits in between is published unvalidated, and
   a published version cannot be changed any more.
3. `false_success`. `begin_step` on a row that is still active leaves the engine's task of
   the execution before. When the task center has given that one up and dispatched the step
   again before the watchdog gave the row back, the end of the old task is reported as the
   success of the new execution. `rearm_for_step` clears the column, and says why.

4. `stopped_record`. `reopen_for_subtask_retry` takes a completed or failed record back to
   running and leaves a stopped one alone. After a stop and a retry of single steps the task
   ends completed or failed, and its run still says stopped. The task is settled all the
   same: `_aggregate` skips a record that is closed already.
5. `old_answer`. The last branch of `query_step_status` answers for any execution with the
   last report of a released row. After a retry from the console the row is armed only when
   the dispatch arrives; a question before that gets the success of the earlier round, and
   the task center takes it. A rerun by the user's button arms the row first and is safe.

Three more are visible as the boundary of a property that holds:

- `delete_task` calls `remove_task` between its two checks, and a retry in between puts a new
  execution on the row. `remove_task` releases it without a report; the second check keeps the
  task, which then waits for this execution until its deadline. `DroppedOnlyByDelete` allows
  this and nothing else. It takes a delete, which is not offered to users at present.
- `_downstream_chain` takes "no next layer" for a cycle in the data. An upstream outside the
  list has the same effect, and the rest is sorted by name; hence the premise of
  `TopologicalWhenClosed`.
- The patrol asks the runner before it judges and skips the row on a final answer. If
  absorbing that answer fails every time, it is asked for again in every round. `TaskSettles`
  and `LeftoversEnd` assume that a report is not given up every time (`AbsorbHeld`).

## 6. What is proved

For all constants that satisfy the assumptions named in the modules: any flow the validator
lets through, any number of replicas, workers, watchdogs, editors, users, runs, attempts,
reports, versions, tokens and schedules. The bounds only cap how often users retry, how many
reports wait, or at which moments the clock is read.

| Theorem | States |
|---|---|
| `TaskCenterProofs!TypeCorrect` | `Spec => []TypeOK` |
| `TaskCenterSafety!ActiveIffUnsettled` | `Spec => []SettledIffTerminal` |
| `TaskCenterSafety!OutcomeCorrect` | `Spec => []OutcomeTrue` |
| `TaskCenterSafety!RecordCorrect` | `Spec => []RecordEarned` |
| `TaskCenterSafety!EdgesCorrect` | `Spec => []EdgesSound` |
| `TaskCenterSafety!InputsCorrect` | `Spec => []InputsFresh` |
| `TaskCenterSteps!ReopenedOnlyByRetry` | `Spec => OnlyRetryReopens` |
| `TaskCenterSteps!OldRunsKept` | `Spec => OldRunsFrozen` |
| `TaskCenterSteps!DeletedStaysIdle` | `Spec => []DeletedIdle` |
| `TaskCenterSteps!HistoryCorrect` | `Spec => []HistoryAgrees` |
| `TaskCenterSteps!SuccessCorrect` | `Spec => []SuccessIsReported` |
| `TaskCenterSteps!LedgerImplemented` | `Spec => ImplementsLedger` (the refinement) |
| `ChainProofs!SearchCorrect` | `Spec => []CyclesFound` of `DownstreamChain` |
| `ChainProofs!ChainCorrect` | `Spec => []ChainExact` |
| `ChainProofs!OrderCorrect` | `Spec => []TopologicalWhenClosed` |
| `ChainProofs!AgreementCorrect` | `Spec => []ChainAgrees` |
| `ClaimsProofs!ClaimsTyped` | `Spec => []TypeOK` of `DispatchClaims` |
| `ClaimsProofs!LockExcludes` | `Spec => []Exclusive` |
| `ClaimsProofs!AttemptClaimedOnce` | `Spec => []ClaimedOnce` |
| `ClaimsProofs!CapIsSoft` | `Spec => []SoftCap` |
| `ScheduleProofs!MomentFiredOnce` | `Spec => []FiredOnce` |
| `ScheduleProofs!NewestIsCurrent` | `Spec => []CurrentIsNewest` |
| `ScheduleProofs!PublishedKept` | `Spec => PublishedForGood` |
| `ScheduleProofs!DeletedKept` | `Spec => DeletedForGood` |
| `ScheduleProofs!NextFireCorrect` | `Spec => []NextFireExact` |
| `ScheduleProofs!ScheduleTypes` | `Spec => []TypeOK` of `Triggers` |
| `TakeoverProofs!TakeoverTyped` | `Spec => []TypeOK` of `Takeover` |
| `TakeoverProofs!TraceIsOwn` | `Spec => OwnTraceOnly` |
| `TakeoverProofs!DroppedByDelete` | `Spec => DroppedOnlyByDelete` |

**Types.** `TypeOK` is not inductive. A row is closed with the runner's answer to the
execution of a waiting report; that this is a final status (`InboxAnswered`) must
survive every dispatch, so no execution may be sent after it was answered
(`OneOutbound`), so a claim must take one nobody has sent (`Fresh`), which follows from
how rows carry credentials (`Credentials`, `AheadNone`). `TypeInv` is the conjunction.

**Settling and outcome.** `Safe` adds to the two properties: the current run has its
rows and its record (`RowsExist`); while the task is
pending or stopped, a run recorded as stopped has a stopped row (`StopLeavesRow`), so that
a second stop after a missed one, which may find no pending row left, is still true; dependencies stay acyclic (`DepsAcyclic`); a terminal task with a
row still running has no pending row (`RunningHoldsNone`). The last is needed for a
late report of success after a stop: it would make downstreams ready, were any
pending. `DepsAcyclic` is needed for `OutcomeTrue`: in a settled run without failed or
stopped rows, were some row pending, one of those would wait for none of the others
(`AcyclicHasSource`, by well-foundedness of the naturals applied to a ranking of the
steps), so it could be dispatched and the run would not be settled. For a batch retry
acyclicity is the check `_require_no_cycle_after_adding` makes.

**Steps.** `StepOK` says how a step may move a row (claim, close, reset, create) and
what else it may write. It is shown once for each action; the theorems follow.

**Records, edges, inputs.** `StepKinds` sorts the actions by what they do to the rows: nothing
(`Rests`), close one row and aggregate (`Closing`), settle, claim, stop the task or a step,
start another run, retry rows. `Agreeing` is then kept by each kind. Next to `RecordEarned` and
`InputsFresh` it says that both directions of the edges are the same (`EdgesDual`), and
that nothing is bound in later runs (`InputsAhead`). A row that is closed
late was running, so its run is not recorded as completed, and no failed row is overwritten
(`StillBorneOut`); a retry takes a completed or failed record back to running first.
`InputsFresh` needs the edges twice. A
row that becomes dispatchable because an upstream succeeded is refilled by walking
`next_steps`, while it waits along `depends_on`. And a retry resets rows along `next_steps`:
what it leaves successful must not feed a row whose upstream starts over
(`DirectInClosure`, on the loop of `downstream_closure`).

**History.** `History` strengthens `HistoryAgrees` to rows that do not exist yet, which have
no attempt opened; with `RunsExist` the rows of a new run are therefore the first of their
history. Every step writes one value into the history of one set of attempts (`Writes`): the
present attempts of the rows it sets. `SuccessIsReported` follows, since what the runner said
of an execution is only replaced when that execution is sent, and none is sent twice.

**The ledger.** The step simulation: a claim is *Begin*, closing a row *End*, a stop *End* of a
set of lines or *Close*, settling *Close*, a retry *Again*, a deletion *Discard*;
everything else stutters. `Writes` gives the lines, `History` that a line is begun or
ended from the status the ledger has for it, `Safe` that the task is closed when its attempts
are reopened.

**The search.** `SearchInv`: the trail lists the grey steps once each; any ranking of the steps
falls along it, so an edge back to a grey step refutes every ranking; while nothing is
reported no step of the trail leads back to it, so a step that turns black has only black
upstreams and gets the next rank (`BlackRanked`, with ranks up to the number of black steps).
When all are black and nothing is reported, that ranking is the one `Acyclic` asks for.

**The chain.** `ChainInv`: what is selected so far lies in every closed set and is never ranked
below the start, so the start waits for none of it; the list has come about layer by layer,
holds no step twice and, where no step of the selection waits for one outside, only steps
whose upstreams are listed before them. A layer is never empty then, because the graph passed the search
(`LayerThere`). Both loops have at most `N` rounds, since each adds a step (`WantedIsLeast`,
`LayersEnd`, by cardinality), so the operator `Chain`, which makes `N` rounds and no check,
returns the same list. These are the results about what loops compute that induction over data
would give. They are had without it: the property of the rounds is a set of numbers, and
the least number outside it, were there one, is contradicted (`UpTo`, `LoopRuns`).

**The lock.** `Exclusive` follows from `Held` (a replica inside whose lease lasts has its token
in the key of its task) and `OwnTokens` (no two replicas have the same token, and one that is
not inside has none). A second replica can acquire only an empty key, and a key is emptied
only by the token's owner or by expiry, which ends the lease.

**Claims.** `Wrote` says that a transaction that has updated a row is its only writer and that
the row is still as it was compared: other updates wait, and nothing else changes committed
columns. With it a commit moves a row from the status the job expects, and `ClaimedOnce` is
inductive.

**The cap.** The running rows alone are not inductive: a replica may have counted and not
committed. `CapInv` adds to the running rows of a bucket the replicas that are past their
count with a claim for it (*Entering*), and bounds the sum by limit + replicas - 1. A replica
that finds a place free counted at most limit - 1 running rows, and the entering replicas are
at most all of them.

**Triggers.** `FireInv` says that what a request is about to write is later than every moment
claimed so far as long as the version it read is current (`WriteIsLater`): a claim moves the
version, so a request that computed before it cannot write. It needs that a scanned moment
lies in the past (`DueIsPast`), that nothing is claimed before there is a trigger
(`NothingBeforeInsert`), and that `next_fire_at` of any moment lies after it (`NextFireAfter`,
by least elements of sets of integers).

**`next_fire_at`.** A moment decodes into day, hour and minute in one way (`AtDecodes`,
`AtEncodes`, from the uniqueness of quotient and remainder), and days follow each other
(`DayOrder`). So the moments the schedule names in the window are those the days of the search
hold (`FoundInDays`), and the first moment of the first day with any is the first of all
(`SearchExact`). That hours and minutes lie in their ranges is in `TriggerAssumption`; the
parser of cron expressions refuses others. `TypeOK` needs that what a request or a pass is
about to write is a moment of the window too (`Placed`, `NextFireIsMoment`).

**Versions.** `DefInv`: version numbers have no gaps, a draft is the newest version, and the
current version is the greatest published one. Publishing a draft is therefore publishing a
number above all others, which nothing in the code compares.

**Takeover.** `RowMoves` lists the statements a step may apply to the row; `RowWrites` shows
it once for each action. The theorems then look at statements, not at actors.
`DroppedOnlyByDelete` needs that a row that was given back holds no execution
(`ReleasedIsIdle`), and that every execution a delete has seen is no longer waited for while
the delete lasts (`DeleteSound`): what it takes from the row can only be newer.

**Only model-checked.** Liveness under fairness is out of the prover's reach: `TaskSettles`,
`LeftoversEnd` and `Unlocked` are checked by TLC on the runs of section 4. Every invariant, every
action property and the refinement that a passing run checks is also proved.

## 7. What is not modelled

- Several tasks inside `TaskCenter`. There the cap is a claim that does not happen, and a
  locked section is one step; of what an expired lease may cause, the missed update of the
  task's row is modelled (`UpdateSnapshot`). `DispatchClaims` has the tasks, the cap and the
  overlapping transactions, for the row alone.
- Counters and back-off of the inbox: `DeadLetter` may happen to any report at any time.
- The query pass's silence threshold and the stuck pass's age limit: the model lets both
  act at once, which includes every later time.
- The parser of cron expressions; triggers with a fixed version; the rules of the validator
  on fields, types and references, which are the constant `Valid`.
- In the knowledge base: deletion of a document or of the whole base while the runner holds
  a row, the queue of wiki compiles, the document's own columns, and the pipelines
  themselves (parsing, indexing, search), which are I/O against external stores.
- Payload contents, permissions, idempotency keys of user calls, paging, wording.
- Other capabilities and infrastructure (section 1): CRUD over PostgreSQL, I/O, proxies. The
  circuit breaker and rate limiter of the sidecar and the heartbeats of service discovery
  have state, and are candidates. Frontends and `Reference/` (vendored code, by far the most
  lines of the repository) are out of scope.

The modelled lines are therefore a small share of the repository: they are the task center
and the runner side of the knowledge base, where the concurrency is.

## 8. Plan

1. `ReportInbox`: attempts, age, dead-lettering of a report that is offered again.
2. The document's deletion next to `Takeover`; the queue of wiki compiles.
3. The sidecar's circuit breaker; the registry of service discovery with its heartbeats.
4. Proofs about what items 1 to 3 add. The safety properties of the present runs are all proved.
