------------------------------ MODULE Triggers ------------------------------
(***************************************************************************)
(* One trigger of a definition: the fire pass of every replica             *)
(* (scheduler_service._fire_pass, _fire_one), the users who create,        *)
(* change, pause, resume, fire and delete it (task_trigger_service.py) and *)
(* the clock they all read.  Composed with Definitions, whose current      *)
(* version a firing runs and whose deletion takes the trigger down.        *)
(***************************************************************************)
EXTENDS Definitions, Cron

CONSTANTS
    User,           \* people who work on the trigger, one request at a time
    Replica,        \* replicas of the background scheduler
    Plan,           \* cron_expr and misfire_policy, always given together
    CasAttempts,    \* TASK_CENTER_CAS_ATTEMPTS
    Reading,        \* bound: the moments the clock is read at
    MaxChange,      \* bound: state_version
    MaxTasks        \* bound: unfinished instances

ASSUME TriggerAssumption ==
    /\ CasAttempts \in Nat \ {0}
    /\ Reading \subseteq Nat /\ Reading # {} /\ IsFiniteSet(Reading)
    /\ MaxChange \in Nat /\ MaxTasks \in Nat
    /\ Plan # {}
    /\ \A q \in Plan : /\ q.policy \in {"skip", "catch_up"}
                       /\ q.cron.hours \subseteq 0..(DayLen - 1)
                       /\ q.cron.minutes \subseteq 0..(HourLen - 1)
                       /\ \A t \in Reading : NextFireAt(q.cron, t) # Never

VARIABLES
    now,        \* datetime.now()
    status,     \* task_triggers.status; none: not created
    next,       \* next_fire_at
    plan,       \* cron_expr and misfire_policy
    ver,        \* state_version
    req,        \* what every user's request has read
    pass,       \* what every replica's fire pass is in the middle of
    points      \* history: how often every due moment was claimed

trigVars == <<status, next, plan, ver, points>>
allDefVars == <<version, config, current, gone, edit>>
vars == <<version, config, current, gone, tasks, edit,
          now, status, next, plan, ver, req, pass, points>>

NoRequest == [op |-> "none"]
Rest == [pc |-> "rest"]

Moment == 0..At(Day(Max(Reading)) + SearchDays + 2, 0, 0)

TypeOK ==
    /\ DefTypeOK
    /\ now \in Reading
    /\ status \in {"none", "active", "paused", "deleted"}
    /\ next \in Moment
    /\ plan \in Plan
    /\ ver \in Nat
    /\ points \in [Moment -> Nat]

Init ==
    /\ DefInit
    /\ edit = [e \in Editor |-> NoEdit]
    /\ req = [u \in User |-> NoRequest]
    /\ now = Min(Reading)
    /\ status = "none"
    /\ next = 0
    /\ plan = CHOOSE q \in Plan : TRUE
    /\ ver = 0
    /\ pass = [p \in Replica |-> Rest]
    /\ points = [t \in Moment |-> 0]

-----------------------------------------------------------------------------
(***************************************************************************)
(* The fire pass of replica p.                                             *)
(***************************************************************************)

\* list_due_cron: what is due is noted, with the time of the pass.
Scan(p) ==
    /\ pass[p] = Rest
    /\ status = "active" /\ next <= now
    /\ pass' = [pass EXCEPT ![p] = [pc |-> "due", expect |-> next,
                                    plan |-> plan, at |-> now]]
    /\ UNCHANGED <<allDefVars, tasks, req, now, trigVars>>

\* The trigger is late by more than its own period.
Missed(d) == d.at - d.expect > NextFireAt(d.plan.cron, d.expect) - d.expect

\* Mutant: the due moment is not compared.
StillActive(d) == status = "active"

\* claim_fire: WHERE next_fire_at = :expect AND status = 'active'
Claimable(d) == status = "active" /\ next = d.expect

\* _fire_one up to the decision whether to start a task.
Claim(p) ==
    LET d == pass[p] IN
    /\ d.pc = "due"
    /\ IF Claimable(d)
         THEN /\ next' = NextFireAt(d.plan.cron, d.at)
              /\ ver' = ver + 1
              /\ points' = [points EXCEPT ![d.expect] = @ + 1]
              /\ pass' = [pass EXCEPT ![p] =
                            IF Missed(d) /\ d.plan.policy = "skip" THEN Rest
                            ELSE [pc |-> "fire"]]
         ELSE /\ pass' = [pass EXCEPT ![p] = Rest]
              /\ UNCHANGED <<next, ver, points>>
    /\ UNCHANGED <<allDefVars, tasks, req, now, status, plan>>

\* What fire_trigger and TaskService.fire need: else 1001 or 1002.
CanFire == status \notin {"none", "deleted"} /\ ~gone /\ current # 0

\* fire_trigger: a task starts, or the failure is one that time does not cure.
Fire(p) ==
    /\ pass[p].pc = "fire"
    /\ \/ /\ CanFire /\ tasks < MaxTasks
          /\ tasks' = tasks + 1
          /\ pass' = [pass EXCEPT ![p] = Rest]
       \/ /\ ~CanFire
          /\ pass' = [pass EXCEPT ![p] = [pc |-> "refused"]]
          /\ tasks' = tasks
    /\ UNCHANGED <<allDefVars, req, now, trigVars>>

\* pause_on_cron_failure: WHERE status = 'active'
PauseOnFailure(p) ==
    /\ pass[p].pc = "refused"
    /\ pass' = [pass EXCEPT ![p] = Rest]
    /\ IF status = "active" THEN status' = "paused" /\ ver' = ver + 1
                            ELSE UNCHANGED <<status, ver>>
    /\ UNCHANGED <<allDefVars, tasks, req, now, next, plan, points>>

\* A transient failure or the end of the process: the point is lost.
Drop(p) ==
    /\ pass[p] # Rest
    /\ pass' = [pass EXCEPT ![p] = Rest]
    /\ UNCHANGED <<allDefVars, tasks, req, now, trigVars>>

-----------------------------------------------------------------------------
(***************************************************************************)
(* The requests of user u.  A request that changes next_fire_at reads the  *)
(* row, computes from the clock, and writes under the version it read.     *)
(***************************************************************************)
Done(u) == req' = [req EXCEPT ![u] = NoRequest]

Change(u, r) ==
    /\ req' = [req EXCEPT ![u] = r]
    /\ UNCHANGED <<allDefVars, tasks, now, trigVars, pass>>

\* create_trigger: the definition is there.
AskTrigger(u, q) ==
    /\ req[u] = NoRequest /\ status = "none" /\ ~gone
    /\ Change(u, [op |-> "insert", plan |-> q, fire |-> NextFireAt(q.cron, now)])

\* The unique trigger key decides between two inserts.
Insert(u) ==
    /\ req[u].op = "insert"
    /\ IF status = "none"
         THEN /\ status' = "active"
              /\ next' = req[u].fire /\ plan' = req[u].plan
         ELSE UNCHANGED <<status, next, plan>>
    /\ Done(u)
    /\ UNCHANGED <<allDefVars, tasks, now, ver, pass, points>>

\* update_trigger with cron fields: the row is read ...
AskCron(u, q) ==
    /\ req[u] = NoRequest /\ status \in {"active", "paused"} /\ ver < MaxChange
    /\ Change(u, [op |-> "cron", plan |-> q, ver |-> ver, try |-> 1])

\* ... the next moment is computed ...
Compute(u) ==
    /\ req[u].op = "cron"
    /\ Change(u, [op |-> "write", plan |-> req[u].plan, ver |-> req[u].ver,
                  try |-> req[u].try, fire |-> NextFireAt(req[u].plan.cron, now)])

\* resume_trigger: the row is paused; the next moment is computed at once.
ResumeReq(k) == [op |-> "resume", ver |-> ver, try |-> k, fire |-> NextFireAt(plan.cron, now)]

AskResume(u) ==
    /\ req[u] = NoRequest /\ status = "paused" /\ ver < MaxChange
    /\ Change(u, ResumeReq(1))

\* Mutant: a deleted row is not left out.
VersionAlone(r) == ver = r.ver

\* update_fields_cas: WHERE status <> 'deleted' AND state_version = :expect
Unchanged(r) == status \in {"active", "paused"} /\ ver = r.ver

\* ... and it is written if nobody has changed the row; else read it again.
WriteCron(u) ==
    LET r == req[u] IN
    /\ r.op = "write"
    /\ IF Unchanged(r)
         THEN /\ next' = r.fire /\ plan' = r.plan /\ ver' = ver + 1
              /\ Done(u)
         ELSE /\ req' = [req EXCEPT ![u] =
                  IF status \in {"active", "paused"} /\ r.try < CasAttempts
                    THEN [op |-> "cron", plan |-> r.plan, ver |-> ver, try |-> r.try + 1]
                    ELSE NoRequest]
              /\ UNCHANGED <<next, plan, ver>>
    /\ UNCHANGED <<allDefVars, tasks, now, status, pass, points>>

\* When the row that is read again is active, somebody else has resumed it.
WriteResume(u) ==
    LET r == req[u] IN
    /\ r.op = "resume"
    /\ IF Unchanged(r)
         THEN /\ status' = "active" /\ next' = r.fire /\ ver' = ver + 1
              /\ Done(u)
         ELSE /\ req' = [req EXCEPT ![u] =
                  IF status = "paused" /\ r.try < CasAttempts
                    THEN ResumeReq(r.try + 1) ELSE NoRequest]
              /\ UNCHANGED <<status, next, ver>>
    /\ UNCHANGED <<allDefVars, tasks, now, plan, pass, points>>

\* Mutant: the next moment is cleared.
PauseClearsNext(u) ==
    /\ status = "active"
    /\ status' = "paused"
    /\ next' = Never
    /\ UNCHANGED <<allDefVars, tasks, req, now, plan, ver, pass, points>>

\* pause_trigger: no version, next_fire_at stays.
Pause(u) ==
    /\ status = "active"
    /\ status' = "paused"
    /\ UNCHANGED <<allDefVars, tasks, req, now, next, plan, ver, pass, points>>

\* delete_trigger
Delete(u) ==
    /\ status \in {"active", "paused"}
    /\ status' = "deleted"
    /\ UNCHANGED <<allDefVars, tasks, req, now, next, plan, ver, pass, points>>

\* trig.fire by hand: a paused trigger too; the plan is not touched.
FireNow(u) ==
    /\ CanFire /\ tasks < MaxTasks
    /\ tasks' = tasks + 1
    /\ UNCHANGED <<allDefVars, req, now, trigVars, pass>>

\* delete_definition's second half: mark_deleted_by_definition.
DeleteDefinition(e) ==
    /\ MarkDeleted(e)
    /\ status' = IF status = "none" THEN "none" ELSE "deleted"
    /\ UNCHANGED <<now, next, plan, ver, req, pass, points>>

DefinitionStep(e) ==
    /\ \/ AskCreate(e) \/ InsertVersion(e)
       \/ \E v \in Version : AskUpdate(e, v) \/ AskPublish(e, v)
       \/ WriteConfig(e) \/ Publish(e) \/ AskDelete(e)
    /\ UNCHANGED <<now, trigVars, req, pass>>

-----------------------------------------------------------------------------
\* The one clock that replicas and users read; it never goes back.
Tick ==
    /\ now' \in {t \in Reading : t > now}
    /\ UNCHANGED <<allDefVars, tasks, req, trigVars, pass>>

\* An instance of the definition comes to its end.
TaskEnds ==
    /\ tasks > 0
    /\ tasks' = tasks - 1
    /\ UNCHANGED <<allDefVars, req, now, trigVars, pass>>

FirePass(p) == Scan(p) \/ Claim(p) \/ Fire(p) \/ PauseOnFailure(p)

Request(u) ==
    \/ \E q \in Plan : AskTrigger(u, q) \/ AskCron(u, q)
    \/ Insert(u) \/ Compute(u) \/ WriteCron(u) \/ AskResume(u) \/ WriteResume(u)
    \/ Pause(u) \/ Delete(u) \/ FireNow(u)

Next ==
    \/ \E p \in Replica : FirePass(p) \/ Drop(p)
    \/ \E u \in User : Request(u)
    \/ \E e \in Editor : DefinitionStep(e) \/ DeleteDefinition(e)
    \/ Tick \/ TaskEnds

Spec == Init /\ [][Next]_vars

-----------------------------------------------------------------------------
(***************************************************************************)
(* No due moment is claimed twice, and none will be: next_fire_at is later *)
(* than every moment ever claimed.  claim_fire compares next_fire_at and   *)
(* not the version, update and resume compare the version and not          *)
(* next_fire_at; together they keep two replicas, or a replica and a user, *)
(* from firing the same moment again.                                      *)
(***************************************************************************)
FiredOnce == \A t \in Moment : /\ points[t] <= 1
                               /\ points[t] = 1 => t < next

(***************************************************************************)
(* A deleted trigger stays deleted: no late resume, update, pause or       *)
(* failing firing that had read it before brings it back.                  *)
(***************************************************************************)
DeletedForGood == [][status = "deleted" => status' = "deleted"]_status

(***************************************************************************)
(* At every moment the clock shows, next_fire_at finds what its docstring  *)
(* promises, for every schedule in use.                                    *)
(***************************************************************************)
NextFireExact == \A q \in Plan : NextFireAt(q.cron, now) = NextMatch(q.cron, now)
=============================================================================
