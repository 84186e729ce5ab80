--------------------------- MODULE ScheduleProofs ---------------------------
(***************************************************************************)
(* Triggers and definitions, for any number of users, editors, replicas,   *)
(* versions and schedules: a due moment is claimed at most once, a deleted *)
(* trigger stays deleted, a published version is kept, and the current     *)
(* version is the newest published one.  For any calendar, next_fire_at    *)
(* finds the first moment that matches.                                    *)
(***************************************************************************)
EXTENDS Triggers, FiniteSetTheorems, WellFoundedInduction, TLAPS

-----------------------------------------------------------------------------
(***************************************************************************)
(* The next moment lies in the future                                      *)
(***************************************************************************)

\* A set of integers with a lower bound has a least element, which Min is.
LEMMA LeastInteger ==
    ASSUME NEW S, NEW a \in Int, S \subseteq Int, S # {}, \A x \in S : a <= x
    PROVE  Min(S) \in S /\ \A y \in S : Min(S) <= y
<1> DEFINE R == OpToRel(<, Nat)
           T == {x - a : x \in S}
<1>1. IsWellFoundedOn(R, Nat)
  BY NatLessThanWellFounded
<1>2. T \subseteq Nat /\ T # {}
  <2>1. \A x \in S : x - a \in Nat
    <3> SUFFICES ASSUME NEW x \in S PROVE x - a \in Nat OBVIOUS
    <3>1. x \in Int /\ a <= x OBVIOUS
    <3> QED BY <3>1
  <2> QED BY <2>1
<1>3. PICK y \in T : \A z \in T : ~(<<z, y>> \in R)
  <2> HIDE DEF R, T
  <2> QED BY <1>1, <1>2, WFMin
<1>4. \A z \in T : y <= z
  <2> SUFFICES ASSUME NEW z \in T PROVE y <= z OBVIOUS
  <2>1. y \in Nat /\ z \in Nat BY <1>2
  <2>2. ~(z < y) BY <1>3, <2>1 DEF OpToRel
  <2> QED BY <2>1, <2>2
<1>5. PICK x \in S : y = x - a
  OBVIOUS
<1>6. \A z \in S : x <= z
  <2> SUFFICES ASSUME NEW z \in S PROVE x <= z OBVIOUS
  <2>1. z - a \in T OBVIOUS
  <2>2. y <= z - a BY <1>4, <2>1
  <2> QED BY <1>5, <2>2
<1> QED BY <1>6 DEF Min

\* A number of S that none exceeds is its maximum.
LEMMA MaxIs ==
    ASSUME NEW S, NEW m \in S, \A x \in S : x \in Int /\ m >= x
    PROVE  Max(S) = m
<1>1. Max(S) \in S /\ \A x \in S : Max(S) >= x
  BY DEF Max
<1> QED BY <1>1

LEMMA NextFireAfter ==
    ASSUME NEW q \in Plan, NEW t \in Reading
    PROVE  NextFireAt(q.cron, t) \in Int /\ NextFireAt(q.cron, t) > t
<1> DEFINE c == q.cron
           start == Start(t)
           Of(d) == {u \in {At(d, h, m) : h \in c.hours, m \in c.minutes} : u >= start}
           days == {d \in Day(start)..(Day(start) + SearchDays) :
                      MonthOf[d] \in c.months /\ DayMatches(c, d) /\ Of(d) # {}}
<1>1. /\ t \in Nat
      /\ c.hours \subseteq Int /\ c.minutes \subseteq Int
      /\ NextFireAt(c, t) # Never
  BY TriggerAssumption, CalendarAssumption
<1>2. start \in Int /\ start > t /\ start >= 0
  BY <1>1 DEF Start
<1>3. At(1, 0, 0) \in Int /\ At(1, 0, 0) > 0
  BY CalendarAssumption, SMTT(30) DEF At
<1>4. Day(start) \in Int
  <2> HIDE DEF start
  <2> QED BY <1>2, <1>3 DEF Day
<1>5. NextFireAt(c, t) = IF days = {} THEN Never ELSE Min(Of(Min(days)))
  BY DEF NextFireAt
<1>6. Min(days) \in days
  <2>1. days \subseteq Int /\ \A d \in days : Day(start) <= d
    BY <1>4, CalendarAssumption
  <2>2. days # {} BY <1>1, <1>5
  <2> HIDE DEF days
  <2> QED BY <1>4, <2>1, <2>2, LeastInteger
<1>7. ASSUME NEW d \in Int, Of(d) # {}
      PROVE  Min(Of(d)) \in Int /\ Min(Of(d)) >= start
  <2>1. Of(d) \subseteq Int
    BY <1>1, <1>7, CalendarAssumption DEF At
  <2>2. \A u \in Of(d) : start <= u BY <1>2, <2>1
  <2>3. Min(Of(d)) \in Of(d)
    <3> HIDE DEF Of, start
    <3> QED BY <1>2, <1>7, <2>1, <2>2, LeastInteger
  <2> QED BY <2>1, <2>3
<1>8. Min(days) \in Int /\ Of(Min(days)) # {}
  BY <1>4, <1>6, CalendarAssumption
<1>9. NextFireAt(c, t) = Min(Of(Min(days)))
  BY <1>1, <1>5
<1> HIDE DEF days, Of, start
<1>10. Min(Of(Min(days))) \in Int /\ Min(Of(Min(days))) >= start
  BY <1>7, <1>8
<1> QED BY <1>1, <1>2, <1>9, <1>10

-----------------------------------------------------------------------------
(***************************************************************************)
(* Definitions                                                             *)
(***************************************************************************)
EditReq == {NoEdit} \cup [op : {"create", "update", "publish"}, v : Version]
                    \cup {[op |-> "drop"]}

DefTyped ==
    /\ version \in [Version -> {"none", "draft", "published"}]
    /\ config \in [Version -> Config]
    /\ current \in 0..MaxVersion
    /\ edit \in [Editor -> EditReq]

\* Versions are numbered without gaps, and a request that is about to insert
\* one has the number of a version that exists or of the next.
NoGaps ==
    /\ \E n \in Version : \A v \in Version : version[v] # "none" <=> v <= n
    /\ \A e \in Editor : edit[e].op = "create" =>
          (edit[e].v > 1 => version[edit[e].v - 1] # "none")

\* A draft is newer than every other version.
DraftIsNewest ==
    \A v, u \in Version : version[v] = "draft" /\ version[u] # "none" => u <= v

CurrentIsMax ==
    /\ \A v \in Version : version[v] = "published" => v <= current
    /\ current # 0 => version[current] = "published"

DefInv == DefTyped /\ NoGaps /\ DraftIsNewest /\ CurrentIsMax

LEMMA InitDefInv == Init => DefInv
<1> SUFFICES ASSUME Init PROVE DefInv OBVIOUS
<1>1. 1 \in Version /\ \A v \in Version : v \in Int /\ v >= 1 /\ v <= MaxVersion
  BY VersionAssumption DEF Version
<1>2. (CHOOSE c \in Valid : TRUE) \in Config
  BY ConfigAssumption
<1>3. DefTyped
  <2>1. edit \in [Editor -> EditReq] BY DEF Init, EditReq
  <2>2. /\ version \in [Version -> {"none", "draft", "published"}]
        /\ config \in [Version -> Config]
    BY <1>2 DEF Init, DefInit
  <2>3. current \in 0..MaxVersion BY VersionAssumption DEF Init, DefInit
  <2> QED BY <2>1, <2>2, <2>3 DEF DefTyped
<1>4. NoGaps
  <2>1. \A v \in Version : version[v] # "none" <=> v <= 1
    BY <1>1 DEF Init, DefInit
  <2>2. \A e \in Editor : edit[e].op # "create"
    BY DEF Init, NoEdit
  <2> QED BY <1>1, <2>1, <2>2 DEF NoGaps
<1>5. DraftIsNewest /\ CurrentIsMax
  BY <1>1 DEF Init, DefInit, DraftIsNewest, CurrentIsMax
<1> QED BY <1>3, <1>4, <1>5 DEF DefInv

\* An answered request is gone; the others are as they were.
LEMMA AnswerTyped ==
    ASSUME DefTyped, NEW e \in Editor, Answer(e)
    PROVE  /\ edit' \in [Editor -> EditReq]
           /\ \A f \in Editor : edit'[f].op = "create" => edit'[f] = edit[f]
  BY DEF DefTyped, Answer, EditReq, NoEdit

LEMMA DefInvStep ==
    ASSUME DefInv, [Next]_vars
    PROVE  DefInv'
<1>v. /\ MaxVersion \in Nat /\ \A v : v \in Version <=> v \in Int /\ v >= 1 /\ v <= MaxVersion
  BY VersionAssumption DEF Version
<1> USE DEF DefInv
<1>1. ASSUME UNCHANGED <<version, config, current, edit>> PROVE DefInv'
  BY <1>1 DEF DefTyped, NoGaps, DraftIsNewest, CurrentIsMax
<1>2. ASSUME NEW e \in Editor, AskCreate(e) PROVE DefInv'
  <2>1. PICK n \in Version : \A v \in Version : version[v] # "none" <=> v <= n
    BY DEF NoGaps
  <2>2. Numbered = 1..n
    BY <1>v, <2>1 DEF Numbered
  <2>3. n \in Int /\ n >= 1 BY <1>v
  <2>4. Max(Numbered) = n
    <3>1. \A x \in Numbered : x \in Int /\ n >= x BY <2>2, <2>3
    <3>2. n \in Numbered BY <2>2, <2>3
    <3> QED BY <3>1, <3>2, MaxIs
  <2>5. Cardinality(Numbered) = n
    BY <2>2, <2>3, FS_Interval
  <2>6. n + 1 \in Version
    BY <1>2, <1>v, <2>3, <2>5 DEF AskCreate
  <2>7. /\ edit' = [edit EXCEPT ![e] = [op |-> "create", v |-> n + 1]]
        /\ UNCHANGED <<version, config, current>>
    BY <1>2, <2>4 DEF AskCreate, defVars
  <2>8. edit' \in [Editor -> EditReq]
    BY <2>6, <2>7 DEF DefTyped, EditReq
  <2>9. \A f \in Editor : edit'[f].op = "create" =>
          (edit'[f].v > 1 => version'[edit'[f].v - 1] # "none")
    <3> SUFFICES ASSUME NEW f \in Editor, edit'[f].op = "create", edit'[f].v > 1
                 PROVE  version[edit'[f].v - 1] # "none"
      BY <2>7
    <3>1. CASE f = e
      <4>1. edit'[f].v = n + 1 BY <2>7, <3>1 DEF DefTyped
      <4>2. version[n] # "none" BY <2>1, <2>3
      <4> QED BY <2>3, <4>1, <4>2
    <3>2. CASE f # e
      <4>1. edit'[f] = edit[f] BY <2>7, <3>2 DEF DefTyped
      <4> QED BY <4>1 DEF NoGaps
    <3> QED BY <3>1, <3>2
  <2> QED BY <2>7, <2>8, <2>9 DEF DefTyped, NoGaps, DraftIsNewest, CurrentIsMax
<1>3. ASSUME NEW e \in Editor, InsertVersion(e) PROVE DefInv'
  <2> DEFINE v == edit[e].v
  <2>1. v \in Version /\ (v > 1 => version[v - 1] # "none")
    BY <1>3 DEF InsertVersion, DefTyped, NoGaps, EditReq, NoEdit
  <2>2. /\ edit' \in [Editor -> EditReq] /\ current' = current
        /\ \A f \in Editor : edit'[f].op = "create" => edit'[f] = edit[f]
    BY <1>3, AnswerTyped DEF InsertVersion
  <2>3. CASE ~InsertAllowed(v)
    <3>1. UNCHANGED <<version, config>> BY <1>3, <2>3 DEF InsertVersion
    <3> QED BY <2>2, <3>1 DEF DefTyped, NoGaps, DraftIsNewest, CurrentIsMax
  <2>4. CASE InsertAllowed(v)
    <3>1. /\ version' = [version EXCEPT ![v] = "draft"]
          /\ config' \in [Version -> Config]
      BY <1>3, <2>1, <2>4 DEF InsertVersion, DefTyped
    <3>2. version[v] = "none" /\ \A u \in Version : version[u] # "draft"
      BY <2>4 DEF InsertAllowed, Drafts
    <3>3. PICK n \in Version : \A u \in Version : version[u] # "none" <=> u <= n
      BY DEF NoGaps
    <3>4. v = n + 1
      BY <1>v, <2>1, <3>2, <3>3
    <3>5. DefTyped' BY <2>1, <2>2, <3>1 DEF DefTyped
    <3>6. \A u \in Version : version'[u] # "none" <=> u <= v
      BY <1>v, <2>1, <3>1, <3>3, <3>4 DEF DefTyped
    <3>7. NoGaps'
      <4>1. \A f \in Editor : edit'[f].op = "create" =>
              (edit'[f].v > 1 => version'[edit'[f].v - 1] # "none")
        <5> SUFFICES ASSUME NEW f \in Editor, edit'[f].op = "create", edit'[f].v > 1
                     PROVE  version'[edit'[f].v - 1] # "none"
          OBVIOUS
        <5>1. edit'[f].v \in Version BY <2>2 DEF EditReq, NoEdit
        <5>2. edit'[f].v - 1 \in Version BY <1>v, <5>1
        <5>3. version[edit'[f].v - 1] # "none" BY <2>2 DEF NoGaps
        <5> QED BY <5>2, <5>3, <3>1 DEF DefTyped
      <4> QED BY <2>1, <3>6, <4>1 DEF NoGaps
    <3>8. DraftIsNewest'
      BY <2>1, <3>1, <3>2, <3>6 DEF DraftIsNewest, DefTyped
    <3>9. CurrentIsMax'
      BY <1>v, <2>1, <2>2, <3>1, <3>2 DEF CurrentIsMax, DefTyped
    <3> QED BY <3>5, <3>7, <3>8, <3>9
  <2> QED BY <2>3, <2>4
<1>4. ASSUME NEW e \in Editor, NEW v \in Version, AskUpdate(e, v) \/ AskPublish(e, v)
      PROVE  DefInv'
  <2>1. /\ UNCHANGED <<version, config, current>>
        /\ \E o \in {"update", "publish"} : edit' = [edit EXCEPT ![e] = [op |-> o, v |-> v]]
    BY <1>4 DEF AskUpdate, AskPublish, defVars
  <2>2. /\ edit' \in [Editor -> EditReq]
        /\ \A f \in Editor : edit'[f].op = "create" => edit'[f] = edit[f]
    BY <2>1 DEF DefTyped, EditReq
  <2> QED BY <2>1, <2>2 DEF DefTyped, NoGaps, DraftIsNewest, CurrentIsMax
<1>5. ASSUME NEW e \in Editor, WriteConfig(e) PROVE DefInv'
  <2>1. config' \in [Version -> Config] BY <1>5 DEF WriteConfig, DefTyped
  <2>2. /\ edit' \in [Editor -> EditReq] /\ version' = version /\ current' = current
        /\ \A f \in Editor : edit'[f].op = "create" => edit'[f] = edit[f]
    BY <1>5, AnswerTyped DEF WriteConfig
  <2> QED BY <2>1, <2>2 DEF DefTyped, NoGaps, DraftIsNewest, CurrentIsMax
<1>6. ASSUME NEW e \in Editor, Publish(e) PROVE DefInv'
  <2> DEFINE v == edit[e].v
  <2>1. v \in Version BY <1>6 DEF Publish, DefTyped, EditReq, NoEdit
  <2>2. /\ edit' \in [Editor -> EditReq] /\ config' = config
        /\ \A f \in Editor : edit'[f].op = "create" => edit'[f] = edit[f]
    BY <1>6, AnswerTyped DEF Publish
  <2>3. CASE ~OpenToPublish(v)
    <3>1. UNCHANGED <<version, current>> BY <1>6, <2>3 DEF Publish
    <3> QED BY <2>2, <3>1 DEF DefTyped, NoGaps, DraftIsNewest, CurrentIsMax
  <2>4. CASE OpenToPublish(v)
    <3>1. /\ version' = [version EXCEPT ![v] = "published"] /\ current' = v
          /\ version[v] = "draft"
      BY <1>6, <2>4 DEF Publish, OpenToPublish
    <3>2. DefTyped' BY <1>v, <2>1, <2>2, <3>1 DEF DefTyped
    <3>3. \A u \in Version : version'[u] # "none" <=> version[u] # "none"
      BY <2>1, <3>1 DEF DefTyped
    <3>4. NoGaps'
      <4>1. \E n \in Version : \A u \in Version : version'[u] # "none" <=> u <= n
        BY <3>3 DEF NoGaps
      <4>2. \A f \in Editor : edit'[f].op = "create" =>
              (edit'[f].v > 1 => version'[edit'[f].v - 1] # "none")
        <5> SUFFICES ASSUME NEW f \in Editor, edit'[f].op = "create", edit'[f].v > 1
                     PROVE  version'[edit'[f].v - 1] # "none"
          OBVIOUS
        <5>1. edit'[f].v \in Version BY <2>2 DEF EditReq, NoEdit
        <5>2. edit'[f].v - 1 \in Version BY <1>v, <5>1
        <5>3. version[edit'[f].v - 1] # "none" BY <2>2 DEF NoGaps
        <5> QED BY <5>2, <5>3, <3>3
      <4> QED BY <4>1, <4>2 DEF NoGaps
    <3>5. DraftIsNewest'
      BY <2>1, <3>1, <3>3 DEF DraftIsNewest, DefTyped
    <3>6. CurrentIsMax'
      <4>1. \A u \in Version : version'[u] = "published" => u <= v
        BY <2>1, <3>1, <3>3 DEF DraftIsNewest
      <4> QED BY <2>1, <3>1, <4>1 DEF CurrentIsMax, DefTyped
    <3> QED BY <3>2, <3>4, <3>5, <3>6
  <2> QED BY <2>3, <2>4
<1>7. ASSUME NEW e \in Editor, AskDelete(e) PROVE DefInv'
  <2>1. /\ UNCHANGED <<version, config, current>>
        /\ edit' = [edit EXCEPT ![e] = [op |-> "drop"]]
    BY <1>7 DEF AskDelete, defVars
  <2>2. /\ edit' \in [Editor -> EditReq]
        /\ \A f \in Editor : edit'[f].op = "create" => edit'[f] = edit[f]
    BY <2>1 DEF DefTyped, EditReq
  <2> QED BY <2>1, <2>2 DEF DefTyped, NoGaps, DraftIsNewest, CurrentIsMax
<1>8. ASSUME NEW e \in Editor, DeleteDefinition(e) PROVE DefInv'
  <2>1. /\ edit' \in [Editor -> EditReq] /\ UNCHANGED <<version, config, current>>
        /\ \A f \in Editor : edit'[f].op = "create" => edit'[f] = edit[f]
    BY <1>8, AnswerTyped DEF DeleteDefinition, MarkDeleted
  <2> QED BY <2>1 DEF DefTyped, NoGaps, DraftIsNewest, CurrentIsMax
<1>9. ASSUME \E p \in Replica : FirePass(p) \/ Drop(p) PROVE DefInv'
  BY <1>1, <1>9 DEF FirePass, Scan, Claim, Fire, PauseOnFailure, Drop, allDefVars
<1>10. ASSUME \E u \in User : Request(u) PROVE DefInv'
  BY <1>1, <1>10
  DEF Request, AskTrigger, Insert, AskCron, Compute, WriteCron, AskResume, WriteResume,
      Pause, Delete, FireNow, Change, allDefVars
<1>11. ASSUME Tick \/ TaskEnds PROVE DefInv'
  BY <1>1, <1>11 DEF Tick, TaskEnds, allDefVars
<1>12. ASSUME UNCHANGED vars PROVE DefInv'
  BY <1>1, <1>12 DEF vars
<1> QED
  BY <1>2, <1>3, <1>4, <1>5, <1>6, <1>7, <1>8, <1>9, <1>10, <1>11, <1>12
  DEF Next, DefinitionStep

LEMMA DefInvariant == Spec => []DefInv
  BY InitDefInv, DefInvStep, PTL DEF Spec

(***************************************************************************)
(* current_version_no is the newest published version, although publishing *)
(* never compares version numbers.                                         *)
(***************************************************************************)
THEOREM NewestIsCurrent == Spec => []CurrentIsNewest
<1>1. DefInv => CurrentIsNewest
  <2> SUFFICES ASSUME DefInv PROVE CurrentIsNewest OBVIOUS
  <2>v. /\ MaxVersion \in Nat /\ \A v \in Version : v \in Int /\ v >= 1
    BY VersionAssumption DEF Version
  <2>1. CASE current = 0
    BY <2>v, <2>1 DEF DefInv, CurrentIsMax, CurrentIsNewest, Published
  <2>2. CASE current # 0
    <3>1. current \in Version
      BY <2>2, VersionAssumption DEF DefInv, DefTyped, Version
    <3>2. current \in Published /\ \A v \in Published : v \in Int /\ current >= v
      BY <2>v, <2>2, <3>1 DEF DefInv, CurrentIsMax, Published
    <3>3. Max(Published) = current
      BY <3>2, MaxIs
    <3> QED BY <3>2, <3>3 DEF CurrentIsNewest
  <2> QED BY <2>1, <2>2
<1> QED BY <1>1, DefInvariant, PTL

(***************************************************************************)
(* A published version is never changed or withdrawn, whoever had read it  *)
(* as a draft.                                                             *)
(***************************************************************************)
THEOREM PublishedKept == Spec => PublishedForGood
<1> DEFINE A == \A v \in Published : version'[v] = "published" /\ config'[v] = config[v]
<1>1. DefInv /\ [Next]_vars => [A]_defVars
  <2> SUFFICES ASSUME DefInv, [Next]_vars PROVE [A]_defVars OBVIOUS
  <2> USE DEF DefInv
  <2>1. ASSUME version' = version, config' = config PROVE A
    BY <2>1 DEF Published
  <2>2. ASSUME NEW e \in Editor, InsertVersion(e) PROVE A
    <3>1. edit[e].v \in Version
      BY <2>2 DEF InsertVersion, DefTyped, EditReq, NoEdit
    <3> QED BY <2>2, <3>1 DEF InsertVersion, InsertAllowed, DefTyped, Published
  <2>3. ASSUME NEW e \in Editor, WriteConfig(e) PROVE A
    <3>1. edit[e].v \in Version
      BY <2>3 DEF WriteConfig, DefTyped, EditReq, NoEdit
    <3> QED BY <2>3, <3>1 DEF WriteConfig, OpenToUpdate, DefTyped, Published
  <2>4. ASSUME NEW e \in Editor, Publish(e) PROVE A
    <3>1. edit[e].v \in Version
      BY <2>4 DEF Publish, DefTyped, EditReq, NoEdit
    <3> QED BY <2>4, <3>1 DEF Publish, DefTyped, Published
  <2>5. ASSUME NEW e \in Editor,
               \/ AskCreate(e) \/ AskDelete(e) \/ DeleteDefinition(e)
               \/ \E v \in Version : AskUpdate(e, v) \/ AskPublish(e, v)
        PROVE  A
    BY <2>1, <2>5
    DEF AskCreate, AskDelete, DeleteDefinition, MarkDeleted, AskUpdate, AskPublish, defVars
  <2>6. ASSUME \E p \in Replica : FirePass(p) \/ Drop(p) PROVE A
    BY <2>1, <2>6 DEF FirePass, Scan, Claim, Fire, PauseOnFailure, Drop, allDefVars
  <2>7. ASSUME \E u \in User : Request(u) PROVE A
    BY <2>1, <2>7
    DEF Request, AskTrigger, Insert, AskCron, Compute, WriteCron, AskResume, WriteResume,
        Pause, Delete, FireNow, Change, allDefVars
  <2>8. ASSUME Tick \/ TaskEnds PROVE A
    BY <2>1, <2>8 DEF Tick, TaskEnds, allDefVars
  <2>9. ASSUME UNCHANGED vars PROVE A
    BY <2>1, <2>9 DEF vars
  <2> QED
    BY <2>2, <2>3, <2>4, <2>5, <2>6, <2>7, <2>8, <2>9 DEF Next, DefinitionStep
<1>2. []DefInv /\ [][Next]_vars => [][A]_defVars
  BY <1>1, PTL
<1> QED BY <1>2, DefInvariant, PTL DEF Spec, PublishedForGood

(***************************************************************************)
(* A deleted trigger stays deleted.                                        *)
(***************************************************************************)
THEOREM DeletedKept == Spec => DeletedForGood
<1> DEFINE A == status = "deleted" => status' = "deleted"
<1>1. [Next]_vars => [A]_status
  <2> SUFFICES ASSUME [Next]_vars, status = "deleted" PROVE status' = "deleted"
    OBVIOUS
  <2>1. ASSUME \E p \in Replica : FirePass(p) \/ Drop(p) PROVE status' = "deleted"
    BY <2>1 DEF FirePass, Scan, Claim, Fire, PauseOnFailure, Drop, trigVars
  <2>2. ASSUME \E u \in User : Request(u) PROVE status' = "deleted"
    BY <2>2
    DEF Request, AskTrigger, Insert, AskCron, Compute, WriteCron, AskResume, WriteResume,
        Unchanged, Pause, Delete, FireNow, Change, trigVars
  <2>3. ASSUME \E e \in Editor : DefinitionStep(e) \/ DeleteDefinition(e)
        PROVE  status' = "deleted"
    BY <2>3 DEF DefinitionStep, DeleteDefinition, trigVars
  <2>4. ASSUME Tick \/ TaskEnds \/ UNCHANGED vars PROVE status' = "deleted"
    BY <2>4 DEF Tick, TaskEnds, trigVars, vars
  <2> QED BY <2>1, <2>2, <2>3, <2>4 DEF Next
<1>2. [][Next]_vars => [][A]_status
  BY <1>1, PTL
<1> QED BY <1>2, PTL DEF Spec, DeletedForGood

-----------------------------------------------------------------------------
(***************************************************************************)
(* A due moment is claimed once                                            *)
(***************************************************************************)
PassState == {Rest, [pc |-> "fire"], [pc |-> "refused"]}
               \cup [pc : {"due"}, expect : Int, plan : Plan, at : Reading]

Req == {NoRequest}
         \cup [op : {"insert"}, plan : Plan, fire : Int]
         \cup [op : {"cron"}, plan : Plan, ver : Nat, try : Nat]
         \cup [op : {"write"}, plan : Plan, ver : Nat, try : Nat, fire : Int]
         \cup [op : {"resume"}, ver : Nat, try : Nat, fire : Int]

TrigTyped ==
    /\ now \in Reading
    /\ next \in Int
    /\ plan \in Plan
    /\ ver \in Nat
    /\ points \in [Moment -> Nat]
    /\ pass \in [Replica -> PassState]
    /\ req \in [User -> Req]

\* What was claimed lies in the past, and next_fire_at is later.
Claimed == \A t \in Moment : /\ points[t] <= 1
                             /\ points[t] # 0 => t < next /\ t <= now

\* A pass that has found the trigger due found it at a moment gone by.
DueIsPast == \A p \in Replica : pass[p].pc = "due" =>
                pass[p].expect <= pass[p].at /\ pass[p].at <= now

\* While the version is still the one a request has read, what it is about to
\* write is later than every moment claimed.
WriteIsLater ==
    \A u \in User : req[u].op \in {"write", "resume"} =>
        /\ req[u].ver <= ver
        /\ req[u].ver = ver => \A t \in Moment : points[t] # 0 => t < req[u].fire

ReadIsOld == \A u \in User : req[u].op = "cron" => req[u].ver <= ver

NothingBeforeInsert == status = "none" => \A t \in Moment : points[t] = 0

FireInv ==
    TrigTyped /\ Claimed /\ DueIsPast /\ WriteIsLater /\ ReadIsOld /\ NothingBeforeInsert

LEMMA ReadingIsNat == \A t \in Reading : t \in Int /\ t >= 0
  BY TriggerAssumption

LEMMA MomentIsInt == Moment \subseteq Int
  BY DEF Moment

LEMMA InitFireInv == Init => FireInv
<1> SUFFICES ASSUME Init PROVE FireInv OBVIOUS
<1>1. Min(Reading) \in Reading
  <2>1. 0 \in Int /\ Reading \subseteq Int /\ Reading # {}
    BY TriggerAssumption, ReadingIsNat
  <2>2. \A x \in Reading : 0 <= x BY ReadingIsNat
  <2> QED BY <2>1, <2>2, LeastInteger, Zenon
<1>2. (CHOOSE q \in Plan : TRUE) \in Plan
  BY TriggerAssumption
<1>3. pass \in [Replica -> PassState] /\ \A p \in Replica : pass[p].pc # "due"
  BY DEF Init, PassState, Rest
<1>4. /\ req \in [User -> Req]
      /\ \A u \in User : req[u].op \notin {"write", "resume", "cron"}
  BY DEF Init, Req, NoRequest
<1>5. TrigTyped BY <1>1, <1>2, <1>3, <1>4 DEF Init, TrigTyped
<1>6. \A t \in Moment : points[t] = 0 BY DEF Init
<1> QED
  BY <1>3, <1>4, <1>5, <1>6
  DEF FireInv, Claimed, DueIsPast, WriteIsLater, ReadIsOld, NothingBeforeInsert

\* The fields of what a pass and a request have read.
LEMMA DueTyped ==
    ASSUME TrigTyped, NEW p \in Replica, pass[p].pc = "due"
    PROVE  pass[p] \in [pc : {"due"}, expect : Int, plan : Plan, at : Reading]
  BY DEF TrigTyped, PassState, Rest

LEMMA ReqTyped ==
    ASSUME TrigTyped, NEW u \in User
    PROVE  /\ req[u].op = "insert" => req[u].plan \in Plan /\ req[u].fire \in Int
           /\ req[u].op = "cron" => req[u].plan \in Plan /\ req[u].ver \in Nat /\ req[u].try \in Nat
           /\ req[u].op = "write" =>
                /\ req[u].plan \in Plan /\ req[u].ver \in Nat /\ req[u].try \in Nat
                /\ req[u].fire \in Int
           /\ req[u].op = "resume" =>
                req[u].ver \in Nat /\ req[u].try \in Nat /\ req[u].fire \in Int
<1>1. req[u] \in Req BY DEF TrigTyped
<1> QED BY <1>1 DEF Req, NoRequest

\* A step that leaves the trigger alone and starts no write.
LEMMA QuietStep ==
    ASSUME FireInv, now' \in Reading, now' >= now, UNCHANGED <<next, plan, ver, points>>,
           status' = "none" => status = "none",
           pass' \in [Replica -> PassState],
           \A p \in Replica : pass'[p].pc = "due" => pass'[p] = pass[p],
           req' \in [User -> Req],
           \A u \in User : req'[u] = req[u] \/ req'[u].op \in {"none", "insert"}
    PROVE  FireInv'
<1>1. now \in Int /\ now' \in Int BY ReadingIsNat DEF FireInv, TrigTyped
<1>2. TrigTyped' BY DEF FireInv, TrigTyped
<1>3. Claimed'
  <2> SUFFICES ASSUME NEW t \in Moment PROVE points[t] <= 1 /\ (points[t] # 0 => t < next /\ t <= now')
    BY DEF Claimed
  <2> QED BY <1>1, MomentIsInt DEF FireInv, Claimed
<1>4. DueIsPast'
  <2> SUFFICES ASSUME NEW p \in Replica, pass'[p].pc = "due"
               PROVE  pass'[p].expect <= pass'[p].at /\ pass'[p].at <= now'
    BY DEF DueIsPast
  <2>1. pass'[p] = pass[p] OBVIOUS
  <2>2. pass[p] \in [pc : {"due"}, expect : Int, plan : Plan, at : Reading]
    BY <2>1, DueTyped DEF FireInv
  <2>3. pass[p].at \in Int /\ pass[p].expect \in Int
    BY <2>2, ReadingIsNat
  <2> QED BY <1>1, <2>1, <2>3 DEF FireInv, DueIsPast
<1>5. WriteIsLater' /\ ReadIsOld'
  BY DEF FireInv, WriteIsLater, ReadIsOld
<1>6. NothingBeforeInsert' BY DEF FireInv, NothingBeforeInsert
<1> QED BY <1>2, <1>3, <1>4, <1>5, <1>6 DEF FireInv

LEMMA ScanStep ==
    ASSUME FireInv, NEW p \in Replica, Scan(p)
    PROVE  FireInv'
<1> DEFINE d == [pc |-> "due", expect |-> next, plan |-> plan, at |-> now]
<1>1. /\ pass' = [pass EXCEPT ![p] = d]
      /\ UNCHANGED <<now, status, next, plan, ver, points, req>> /\ next <= now
  BY DEF Scan, trigVars
<1>2. d \in PassState BY DEF PassState, FireInv, TrigTyped
<1>3. pass' \in [Replica -> PassState] BY <1>1, <1>2 DEF FireInv, TrigTyped
<1>4. now \in Int BY ReadingIsNat DEF FireInv, TrigTyped
<1>5. DueIsPast'
  BY <1>1, <1>4 DEF FireInv, TrigTyped, DueIsPast
<1> QED
  BY <1>1, <1>3, <1>5
  DEF FireInv, TrigTyped, Claimed, WriteIsLater, ReadIsOld, NothingBeforeInsert

LEMMA ClaimStep ==
    ASSUME FireInv, NEW p \in Replica, Claim(p)
    PROVE  FireInv'
<1> DEFINE d == pass[p]
<1>1. /\ d \in [pc : {"due"}, expect : Int, plan : Plan, at : Reading]
      /\ d.expect <= d.at /\ d.at <= now
  BY DueTyped DEF Claim, FireInv, DueIsPast
<1>2. d.expect \in Int /\ d.at \in Int /\ now \in Int /\ d.at \in Reading /\ d.plan \in Plan
  <2>1. d.expect \in Int /\ d.at \in Reading /\ d.plan \in Plan BY <1>1
  <2>2. now \in Reading BY DEF FireInv, TrigTyped
  <2> HIDE DEF d
  <2> QED BY <2>1, <2>2, ReadingIsNat
<1>3. /\ UNCHANGED <<now, status, plan, req>>
      /\ pass' \in [Replica -> PassState]
      /\ \A q \in Replica : pass'[q].pc = "due" => pass'[q] = pass[q]
  BY DEF Claim, FireInv, TrigTyped, PassState, Rest
<1>4. CASE ~Claimable(d)
  <2>1. UNCHANGED <<next, ver, points>> BY <1>4 DEF Claim
  <2> QED BY <1>2, <1>3, <2>1, QuietStep DEF FireInv, TrigTyped
<1>5. CASE Claimable(d)
  <2> DEFINE n == NextFireAt(d.plan.cron, d.at)
  <2>1. /\ next' = n /\ ver' = ver + 1
        /\ points' = [points EXCEPT ![d.expect] = @ + 1]
        /\ next = d.expect /\ status = "active"
    BY <1>5 DEF Claim, Claimable
  <2>2. n \in Int /\ n > d.at
    BY <1>2, NextFireAfter
  <2> HIDE DEF n, d
  <2>3. ver \in Nat /\ points \in [Moment -> Nat] BY DEF FireInv, TrigTyped
  <2>4. TrigTyped'
    <3>0. \A t \in Moment : points[t] + 1 \in Nat BY <2>3
    <3>1. points' \in [Moment -> Nat]
      <4>1. CASE d.expect \in Moment BY <2>1, <2>3, <3>0, <4>1
      <4>2. CASE d.expect \notin Moment
        <5>1. points' = points BY <2>1, <2>3, <4>2
        <5> QED BY <2>3, <5>1
      <4> QED BY <4>1, <4>2
    <3>2. ver' \in Nat /\ next' \in Int BY <2>1, <2>2, <2>3
    <3> QED BY <1>3, <3>1, <3>2 DEF FireInv, TrigTyped
  <2>5. Claimed'
    <3> SUFFICES ASSUME NEW t \in Moment
                 PROVE  points'[t] <= 1 /\ (points'[t] # 0 => t < next' /\ t <= now')
      BY DEF Claimed
    <3>1. t \in Int /\ points[t] \in Nat /\ points[t] <= 1 /\ (points[t] # 0 => t < next /\ t <= now)
      BY <2>3, MomentIsInt DEF FireInv, Claimed
    <3>2. CASE t = d.expect
      <4>1. points[t] = 0 BY <1>2, <2>1, <3>1, <3>2
      <4>2. points'[t] = 1 BY <2>1, <2>3, <3>2, <4>1
      <4> QED BY <1>1, <1>2, <1>3, <2>1, <2>2, <3>2, <4>2
    <3>3. CASE t # d.expect
      <4>1. points'[t] = points[t] BY <2>1, <2>3, <3>3
      <4> QED BY <1>1, <1>2, <1>3, <2>1, <2>2, <3>1, <4>1
    <3> QED BY <3>2, <3>3
  <2>6. DueIsPast' BY <1>3 DEF FireInv, DueIsPast
  <2>7. WriteIsLater' /\ ReadIsOld'
    <3>1. \A u \in User : req[u].op \in {"write", "resume", "cron"} =>
             req[u].ver \in Nat /\ req[u].ver <= ver
      BY ReqTyped DEF FireInv, WriteIsLater, ReadIsOld
    <3>2. \A u \in User : req[u].op \in {"write", "resume", "cron"} =>
             req[u].ver <= ver + 1 /\ req[u].ver # ver + 1
      BY <2>3, <3>1
    <3> QED BY <1>3, <2>1, <3>2 DEF WriteIsLater, ReadIsOld
  <2>8. NothingBeforeInsert' BY <1>3, <2>1 DEF NothingBeforeInsert
  <2> QED BY <2>4, <2>5, <2>6, <2>7, <2>8 DEF FireInv
<1> QED BY <1>4, <1>5

\* A request starts to write, or is asked again, with the next moment of now.
LEMMA AskStep ==
    ASSUME FireInv, NEW u \in User, NEW r \in Req,
           req' = [req EXCEPT ![u] = r],
           UNCHANGED <<now, status, next, plan, ver, points, pass>>,
           r.op \in {"write", "resume", "cron"} => r.ver <= ver,
           r.op \in {"write", "resume"} => \E q \in Plan : r.fire = NextFireAt(q.cron, now)
    PROVE  FireInv'
<1>1. now \in Reading /\ now \in Int /\ req' \in [User -> Req]
  BY ReadingIsNat DEF FireInv, TrigTyped
<1>2. r.op \in {"write", "resume"} => r.fire \in Int /\ r.fire > now
  BY <1>1, NextFireAfter
<1>3. \A w \in User : req'[w] = IF w = u THEN r ELSE req[w]
  BY DEF FireInv, TrigTyped
<1>4. WriteIsLater'
  <2> SUFFICES ASSUME NEW w \in User, req'[w].op \in {"write", "resume"}
               PROVE  /\ req'[w].ver <= ver
                      /\ req'[w].ver = ver => \A t \in Moment : points[t] # 0 => t < req'[w].fire
    BY DEF WriteIsLater
  <2>1. CASE w # u BY <1>3, <2>1 DEF FireInv, WriteIsLater
  <2>2. CASE w = u
    <3>1. \A t \in Moment : points[t] # 0 => t < r.fire
      BY <1>1, <1>2, <1>3, <2>2, MomentIsInt DEF FireInv, Claimed
    <3> QED BY <1>3, <2>2, <3>1
  <2> QED BY <2>1, <2>2
<1>5. ReadIsOld' BY <1>3 DEF FireInv, ReadIsOld
<1> QED
  BY <1>1, <1>4, <1>5 DEF FireInv, TrigTyped, Claimed, DueIsPast, NothingBeforeInsert

\* A request writes the trigger under the version it has read.
LEMMA WriteStep ==
    ASSUME FireInv, NEW u \in User, req[u].op \in {"write", "resume"}, req[u].ver = ver,
           next' = req[u].fire, plan' \in Plan, ver' = ver + 1, status' # "none",
           req' = [req EXCEPT ![u] = NoRequest], UNCHANGED <<now, points, pass>>
    PROVE  FireInv'
<1>1. req[u].fire \in Int /\ ver \in Nat BY ReqTyped DEF FireInv, TrigTyped
<1>2. TrigTyped' BY <1>1 DEF FireInv, TrigTyped, Req
<1>3. Claimed' BY DEF FireInv, Claimed, WriteIsLater
<1>4. DueIsPast' BY DEF FireInv, DueIsPast
<1>5. WriteIsLater' /\ ReadIsOld'
  <2>1. \A w \in User : req[w].op \in {"write", "resume", "cron"} =>
           req[w].ver \in Nat /\ req[w].ver <= ver
    BY ReqTyped DEF FireInv, WriteIsLater, ReadIsOld
  <2>2. \A w \in User : req[w].op \in {"write", "resume", "cron"} =>
           req[w].ver <= ver + 1 /\ req[w].ver # ver + 1
    BY <1>1, <2>1
  <2>3. \A w \in User : req'[w] = req[w] \/ req'[w].op = "none"
    BY DEF FireInv, TrigTyped, NoRequest
  <2> QED BY <2>2, <2>3 DEF WriteIsLater, ReadIsOld
<1>6. NothingBeforeInsert' BY DEF NothingBeforeInsert
<1> QED BY <1>2, <1>3, <1>4, <1>5, <1>6 DEF FireInv

LEMMA RequestStep ==
    ASSUME FireInv, NEW u \in User, Request(u)
    PROVE  FireInv'
<1>0. /\ now \in Reading /\ now \in Int /\ plan \in Plan /\ ver \in Nat
      /\ pass \in [Replica -> PassState] /\ req \in [User -> Req]
  BY ReadingIsNat DEF FireInv, TrigTyped
<1>n. NoRequest \in Req /\ NoRequest.op = "none" BY DEF Req, NoRequest
<1>1. ASSUME NEW q \in Plan, AskTrigger(u, q) PROVE FireInv'
  <2>1. NextFireAt(q.cron, now) \in Int BY <1>0, NextFireAfter
  <2> DEFINE r == [op |-> "insert", plan |-> q, fire |-> NextFireAt(q.cron, now)]
  <2>2. r \in Req BY <2>1 DEF Req
  <2>3. req' = [req EXCEPT ![u] = r] /\ UNCHANGED <<now, status, next, plan, ver, points, pass>>
    BY <1>1 DEF AskTrigger, Change, trigVars
  <2>4. r.op = "insert" OBVIOUS
  <2> HIDE DEF r
  <2> QED BY <2>2, <2>3, <2>4, AskStep
<1>2. ASSUME Insert(u) PROVE FireInv'
  <2>1. /\ req' = [req EXCEPT ![u] = NoRequest] /\ UNCHANGED <<now, ver, pass, points>>
        /\ req[u].op = "insert"
    BY <1>2 DEF Insert, Done
  <2>2. CASE status # "none"
    <3>1. UNCHANGED <<status, next, plan>> BY <1>2, <2>2 DEF Insert
    <3> QED BY <1>0, <1>n, <2>1, <3>1, QuietStep
  <2>3. CASE status = "none"
    <3>1. next' \in Int /\ plan' \in Plan /\ status' = "active"
      BY <1>2, <2>1, <2>3, ReqTyped DEF Insert, FireInv
    <3>2. \A t \in Moment : points[t] = 0 BY <2>3 DEF FireInv, NothingBeforeInsert
    <3>3. \A w \in User : req'[w] = req[w] \/ req'[w].op = "none"
      BY <1>0, <1>n, <2>1
    <3>4. TrigTyped' BY <1>n, <2>1, <3>1 DEF FireInv, TrigTyped
    <3>5. Claimed' /\ DueIsPast' /\ NothingBeforeInsert'
      BY <2>1, <3>2 DEF FireInv, Claimed, DueIsPast, NothingBeforeInsert
    <3>6. WriteIsLater' /\ ReadIsOld'
      BY <2>1, <3>3 DEF FireInv, WriteIsLater, ReadIsOld
    <3> QED BY <3>4, <3>5, <3>6 DEF FireInv
  <2> QED BY <2>2, <2>3
<1>3. ASSUME NEW q \in Plan, AskCron(u, q) PROVE FireInv'
  <2> DEFINE r == [op |-> "cron", plan |-> q, ver |-> ver, try |-> 1]
  <2>1. r \in Req BY <1>0 DEF Req
  <2>2. req' = [req EXCEPT ![u] = r] /\ UNCHANGED <<now, status, next, plan, ver, points, pass>>
    BY <1>3 DEF AskCron, Change, trigVars
  <2>3. r.op = "cron" /\ r.ver <= ver BY <1>0
  <2> HIDE DEF r
  <2> QED BY <2>1, <2>2, <2>3, AskStep
<1>4. ASSUME Compute(u) PROVE FireInv'
  <2>1. /\ req[u].op = "cron" /\ req[u].plan \in Plan /\ req[u].ver \in Nat
        /\ req[u].try \in Nat /\ req[u].ver <= ver
    BY <1>4, ReqTyped DEF Compute, FireInv, ReadIsOld
  <2>2. NextFireAt(req[u].plan.cron, now) \in Int BY <1>0, <2>1, NextFireAfter
  <2> DEFINE r == [op |-> "write", plan |-> req[u].plan, ver |-> req[u].ver,
                   try |-> req[u].try, fire |-> NextFireAt(req[u].plan.cron, now)]
  <2>3. r \in Req BY <2>1, <2>2 DEF Req
  <2>4. req' = [req EXCEPT ![u] = r] /\ UNCHANGED <<now, status, next, plan, ver, points, pass>>
    BY <1>4 DEF Compute, Change, trigVars
  <2>5. r.ver <= ver /\ r.fire = NextFireAt(req[u].plan.cron, now) BY <2>1
  <2> HIDE DEF r
  <2> QED BY <2>1, <2>3, <2>4, <2>5, AskStep
<1>5. ASSUME NEW k \in Nat, req' = [req EXCEPT ![u] = ResumeReq(k)],
             UNCHANGED <<now, status, next, plan, ver, points, pass>>
      PROVE  FireInv'
  <2>1. NextFireAt(plan.cron, now) \in Int BY <1>0, NextFireAfter
  <2>2. /\ ResumeReq(k) \in Req
        /\ ResumeReq(k).ver <= ver
        /\ ResumeReq(k).fire = NextFireAt(plan.cron, now)
    BY <1>0, <2>1 DEF ResumeReq, Req
  <2> QED BY <1>0, <1>5, <2>2, AskStep
<1>6. ASSUME AskResume(u) PROVE FireInv'
  BY <1>5, <1>6 DEF AskResume, Change, trigVars
<1>7. ASSUME WriteCron(u) PROVE FireInv'
  <2>1. /\ req[u].op = "write" /\ req[u].plan \in Plan /\ req[u].try \in Nat
        /\ UNCHANGED <<now, status, pass, points>>
    BY <1>7, ReqTyped DEF WriteCron, FireInv
  <2>2. CASE Unchanged(req[u])
    BY <1>7, <2>1, <2>2, WriteStep DEF WriteCron, Unchanged, Done
  <2>3. CASE ~Unchanged(req[u])
    <3> DEFINE r == [op |-> "cron", plan |-> req[u].plan, ver |-> ver, try |-> req[u].try + 1]
    <3>1. /\ UNCHANGED <<next, plan, ver>>
          /\ req' = [req EXCEPT ![u] = r] \/ req' = [req EXCEPT ![u] = NoRequest]
      BY <1>7, <2>3 DEF WriteCron
    <3>2. r \in Req /\ r.op = "cron" /\ r.ver <= ver BY <1>0, <2>1 DEF Req
    <3> HIDE DEF r
    <3> QED BY <1>n, <2>1, <3>1, <3>2, AskStep
  <2> QED BY <2>2, <2>3
<1>8. ASSUME WriteResume(u) PROVE FireInv'
  <2>1. req[u].op = "resume" /\ req[u].try \in Nat /\ UNCHANGED <<now, plan, pass, points>>
    BY <1>8, ReqTyped DEF WriteResume, FireInv
  <2>2. CASE Unchanged(req[u])
    BY <1>0, <1>8, <2>1, <2>2, WriteStep DEF WriteResume, Unchanged, Done
  <2>3. CASE ~Unchanged(req[u])
    <3>1. /\ UNCHANGED <<status, next, ver>>
          /\ \/ req' = [req EXCEPT ![u] = ResumeReq(req[u].try + 1)]
             \/ req' = [req EXCEPT ![u] = NoRequest]
      BY <1>8, <2>3 DEF WriteResume
    <3>2. req[u].try + 1 \in Nat BY <2>1
    <3> QED BY <1>5, <1>n, <2>1, <3>1, <3>2, AskStep
  <2> QED BY <2>2, <2>3
<1>9. ASSUME Pause(u) \/ Delete(u) \/ FireNow(u) PROVE FireInv'
  <2>1. /\ UNCHANGED <<now, next, plan, ver, points, pass, req>>
        /\ status' = "none" => status = "none"
    BY <1>9 DEF Pause, Delete, FireNow, trigVars
  <2> QED BY <1>0, <2>1, QuietStep
<1> QED
  BY <1>1, <1>2, <1>3, <1>4, <1>6, <1>7, <1>8, <1>9 DEF Request

LEMMA FireInvStep ==
    ASSUME FireInv, [Next]_vars
    PROVE  FireInv'
<1>0. /\ now \in Reading /\ now \in Int /\ pass \in [Replica -> PassState]
      /\ req \in [User -> Req]
  BY ReadingIsNat DEF FireInv, TrigTyped
<1>1. ASSUME NEW p \in Replica, Fire(p) \/ PauseOnFailure(p) \/ Drop(p) PROVE FireInv'
  <2>1. /\ pass' \in [Replica -> PassState]
        /\ \A q \in Replica : pass'[q].pc = "due" => pass'[q] = pass[q]
    BY <1>0, <1>1 DEF Fire, PauseOnFailure, Drop, PassState, Rest
  <2>2. CASE Fire(p) \/ Drop(p)
    <3>1. UNCHANGED <<now, status, next, plan, ver, points, req>>
      BY <2>2 DEF Fire, Drop, trigVars
    <3> QED BY <1>0, <2>1, <3>1, QuietStep
  <2>3. CASE PauseOnFailure(p)
    <3>1. CASE status # "active"
      <4>1. UNCHANGED <<now, status, next, plan, ver, points, req>>
        BY <2>3, <3>1 DEF PauseOnFailure
      <4> QED BY <1>0, <2>1, <4>1, QuietStep
    <3>2. CASE status = "active"
      <4>1. /\ UNCHANGED <<now, next, plan, points, req>>
            /\ ver' = ver + 1 /\ status' = "paused" /\ ver \in Nat
        BY <2>3, <3>2 DEF PauseOnFailure, FireInv, TrigTyped
      <4>2. \A u \in User : req[u].op \in {"write", "resume", "cron"} =>
               req[u].ver \in Nat /\ req[u].ver <= ver
        BY ReqTyped DEF FireInv, WriteIsLater, ReadIsOld
      <4>3. \A u \in User : req[u].op \in {"write", "resume", "cron"} =>
               req[u].ver <= ver + 1 /\ req[u].ver # ver + 1
        BY <4>1, <4>2
      <4>4. WriteIsLater' /\ ReadIsOld' BY <4>1, <4>3 DEF WriteIsLater, ReadIsOld
      <4>5. TrigTyped' BY <2>1, <4>1 DEF FireInv, TrigTyped
      <4>6. Claimed' /\ DueIsPast' /\ NothingBeforeInsert'
        BY <2>1, <4>1 DEF FireInv, Claimed, DueIsPast, NothingBeforeInsert
      <4> QED BY <4>4, <4>5, <4>6 DEF FireInv
    <3> QED BY <3>1, <3>2
  <2> QED BY <1>1, <2>2, <2>3
<1>2. ASSUME NEW e \in Editor, DefinitionStep(e) \/ DeleteDefinition(e) PROVE FireInv'
  <2>1. /\ UNCHANGED <<now, next, plan, ver, points, pass, req>>
        /\ status' = "none" => status = "none"
    BY <1>2 DEF DefinitionStep, DeleteDefinition, trigVars
  <2> QED BY <1>0, <2>1, QuietStep
<1>3. ASSUME Tick PROVE FireInv'
  <2>1. /\ now' \in Reading /\ now' > now
        /\ UNCHANGED <<status, next, plan, ver, points, pass, req>>
    BY <1>3 DEF Tick, trigVars
  <2>2. now' >= now BY <1>0, <2>1, ReadingIsNat
  <2> QED BY <1>0, <2>1, <2>2, QuietStep
<1>4. ASSUME TaskEnds \/ UNCHANGED vars PROVE FireInv'
  <2>1. UNCHANGED <<now, status, next, plan, ver, points, pass, req>>
    BY <1>4 DEF TaskEnds, trigVars, vars
  <2> QED BY <1>0, <2>1, QuietStep
<1> QED
  BY <1>1, <1>2, <1>3, <1>4, ScanStep, ClaimStep, RequestStep DEF Next, FirePass

(***************************************************************************)
(* With any number of replicas and users, no due moment of a trigger is    *)
(* claimed twice and next_fire_at is past all that were.                   *)
(***************************************************************************)
THEOREM MomentFiredOnce == Spec => []FiredOnce
<1>1. FireInv => FiredOnce
  BY DEF FireInv, Claimed, FiredOnce
<1> QED BY <1>1, InitFireInv, FireInvStep, PTL DEF Spec

-----------------------------------------------------------------------------
(***************************************************************************)
(* The search of next_fire_at                                              *)
(***************************************************************************)

\* Quotient and remainder are what they say.
LEMMA DivMod ==
    ASSUME NEW b \in Nat \ {0}, NEW a \in Int
    PROVE  a \div b \in Int /\ a % b \in 0..b - 1 /\ a = (a \div b) * b + (a % b)
<1>1. a \div b \in Int /\ a % b \in 0..b - 1
  OBVIOUS
<1>2. a = b * (a \div b) + (a % b)
  OBVIOUS
<1>3. b * (a \div b) = (a \div b) * b
  BY <1>1
<1> QED BY <1>1, <1>2, <1>3

\* Products are monotonic.
LEMMA Product ==
    ASSUME NEW b \in Nat, NEW x \in Int, NEW y \in Int, x <= y
    PROVE  x * b \in Int /\ y * b \in Int /\ x * b <= y * b
<1>1. y - x \in Nat
  OBVIOUS
<1>2. (y - x) * b >= 0
  BY <1>1
<1>3. (y - x) * b = y * b - x * b
  OBVIOUS
<1> QED BY <1>2, <1>3

\* A number is divided in one way.
LEMMA DivUnique ==
    ASSUME NEW b \in Nat \ {0}, NEW q \in Int, NEW r \in 0..b - 1, NEW a \in Int, a = q * b + r
    PROVE  a \div b = q /\ a % b = r
<1> DEFINE p == a \div b
           s == a % b
<1>1. p \in Int /\ s \in 0..b - 1 /\ a = p * b + s
  BY DivMod
<1> HIDE DEF p, s
<1>2. ~(p < q)
  <2> SUFFICES ASSUME p < q PROVE FALSE
    OBVIOUS
  <2>1. p + 1 <= q
    BY <1>1
  <2>2. (p + 1) * b <= q * b /\ (p + 1) * b \in Int /\ q * b \in Int
    BY <1>1, <2>1, Product
  <2>3. (p + 1) * b = p * b + b /\ p * b \in Int
    BY <1>1
  <2> QED BY <1>1, <2>2, <2>3
<1>3. ~(q < p)
  <2> SUFFICES ASSUME q < p PROVE FALSE
    OBVIOUS
  <2>1. q + 1 <= p
    BY <1>1
  <2>2. (q + 1) * b <= p * b /\ (q + 1) * b \in Int /\ p * b \in Int
    BY <1>1, <2>1, Product
  <2>3. (q + 1) * b = q * b + b /\ q * b \in Int
    BY <1>1
  <2> QED BY <1>1, <2>2, <2>3
<1>4. p = q
  BY <1>1, <1>2, <1>3
<1>5. p * b = q * b /\ q * b \in Int
  BY <1>1, <1>4
<1>6. s = r
  BY <1>1, <1>5
<1> QED BY <1>4, <1>6 DEF p, s

\* The length of a day.
DayUnits == DayLen * (2 * HourLen)

LEMMA DayUnitsPositive ==
    /\ DayUnits \in Nat \ {0} /\ DayUnits >= 2
    /\ HourLen \in Nat \ {0} /\ DayLen \in Nat \ {0} /\ SearchDays \in Nat
<1>1. HourLen \in Nat \ {0} /\ DayLen \in Nat \ {0} /\ SearchDays \in Nat
  BY CalendarAssumption
<1>2. 1 * (2 * HourLen) <= DayLen * (2 * HourLen) /\ DayLen * (2 * HourLen) \in Int
  BY <1>1, Product
<1>3. DayUnits \in Int /\ DayUnits >= 2 * HourLen
  BY <1>1, <1>2 DEF DayUnits
<1> QED BY <1>1, <1>3

\* A moment is so many days, and less than a day.
LEMMA AtInDay ==
    ASSUME NEW d \in Int, NEW h \in 0..DayLen - 1, NEW m \in 0..HourLen - 1
    PROVE  /\ At(d, h, m) \in Int
           /\ \E r \in 0..DayUnits - 1 : At(d, h, m) = d * DayUnits + r
<1> DEFINE H == 2 * HourLen
           r == h * H + 2 * m
<1>1. HourLen \in Nat \ {0} /\ DayLen \in Nat \ {0} /\ H \in Nat /\ h \in Int /\ m \in Int
      /\ DayUnits \in Int
  BY DayUnitsPositive
<1>2. h * H >= 0 /\ h * H \in Int
  BY <1>1
<1>3. h <= DayLen - 1
  BY <1>1
<1>4. h * H <= (DayLen - 1) * H /\ (DayLen - 1) * H \in Int
  <2> HIDE DEF H
  <2> QED BY <1>1, <1>3, Product
<1>5. (DayLen - 1) * H = DayUnits - H
  <2> HIDE DEF H
  <2> QED BY <1>1 DEF DayUnits, H
<1>6. r \in 0..DayUnits - 1
  <2>1. 2 * m >= 0 /\ 2 * m < H /\ 2 * m \in Int
    BY <1>1
  <2> HIDE DEF H
  <2> QED BY <1>1, <1>2, <1>4, <1>5, <2>1
<1>7. At(d, h, m) = d * DayUnits + r
  <2>1. At(d, h, m) = 2 * ((d * DayLen) * HourLen + h * HourLen + m)
    BY <1>1 DEF At
  <2>2. (d * DayLen) * HourLen = d * (DayLen * HourLen) /\ DayLen * HourLen \in Int
    BY <1>1
  <2>3. d * DayUnits = 2 * (d * (DayLen * HourLen))
    BY <1>1 DEF DayUnits
  <2>4. h * H = 2 * (h * HourLen)
    BY <1>1
  <2> QED BY <1>1, <2>1, <2>2, <2>3, <2>4
<1>8. d * DayUnits \in Int
  BY <1>1
<1> HIDE DEF r
<1> QED BY <1>6, <1>7, <1>8

\* What a moment is made of can be read off it.
LEMMA AtDecodes ==
    ASSUME NEW d \in Int, NEW h \in 0..DayLen - 1, NEW m \in 0..HourLen - 1
    PROVE  /\ At(d, h, m) % 2 = 0
           /\ (At(d, h, m) \div 2) % HourLen = m
           /\ ((At(d, h, m) \div 2) \div HourLen) % DayLen = h
           /\ Day(At(d, h, m)) = d
<1>1. /\ HourLen \in Nat \ {0} /\ DayLen \in Nat \ {0} /\ h \in Int /\ m \in Int
      /\ DayUnits \in Nat \ {0}
  BY DayUnitsPositive
<1> DEFINE g == d * DayLen + h
           n == g * HourLen + m
<1>2. g \in Int
  BY <1>1
<1>3. n \in Int
  <2> HIDE DEF g
  <2> QED BY <1>1, <1>2
<1>4. At(d, h, m) = 2 * n
  BY DEF At
<1>5. g % DayLen = h
  BY <1>1, <1>2, DivUnique
<1> HIDE DEF g
<1>6. n \div HourLen = g /\ n % HourLen = m
  BY <1>1, <1>2, <1>3, DivUnique
<1> HIDE DEF n
<1>7. (2 * n) \div 2 = n /\ (2 * n) % 2 = 0
  BY <1>3
<1>8. Day(At(d, h, m)) = d
  <2>1. At(1, 0, 0) = DayUnits
    BY <1>1 DEF At, DayUnits
  <2>2. PICK r \in 0..DayUnits - 1 : At(d, h, m) = d * DayUnits + r
    BY AtInDay
  <2>3. At(d, h, m) \in Int
    BY AtInDay
  <2>4. At(d, h, m) \div DayUnits = d
    BY <1>1, <2>2, <2>3, DivUnique
  <2> QED BY <2>1, <2>4 DEF Day
<1> QED BY <1>4, <1>5, <1>6, <1>7, <1>8

\* Every whole minute is made of a day, an hour and a minute.
LEMMA AtEncodes ==
    ASSUME NEW t \in Int, t % 2 = 0
    PROVE  /\ (t \div 2) % HourLen \in 0..HourLen - 1
           /\ ((t \div 2) \div HourLen) % DayLen \in 0..DayLen - 1
           /\ Day(t) \in Int
           /\ t = At(Day(t), ((t \div 2) \div HourLen) % DayLen, (t \div 2) % HourLen)
<1> DEFINE n == t \div 2
           g == n \div HourLen
           m == n % HourLen
           h == g % DayLen
           d == g \div DayLen
<1>1. HourLen \in Nat \ {0} /\ DayLen \in Nat \ {0}
  BY DayUnitsPositive
<1>2. n \in Int /\ t = 2 * n
  OBVIOUS
<1> HIDE DEF n
<1>3. g \in Int /\ m \in 0..HourLen - 1 /\ n = g * HourLen + m
  BY <1>1, <1>2, DivMod
<1> HIDE DEF g, m
<1>4. d \in Int /\ h \in 0..DayLen - 1 /\ g = d * DayLen + h
  BY <1>1, <1>3, DivMod
<1> HIDE DEF d, h
<1>5. t = At(d, h, m)
  BY <1>2, <1>3, <1>4 DEF At
<1>6. Day(t) = d
  BY <1>3, <1>4, <1>5, AtDecodes
<1> QED BY <1>3, <1>4, <1>5, <1>6 DEF n, g, m, h

\* Moments that are in order lie in days that are.
LEMMA DayOrder ==
    ASSUME NEW t \in Int
    PROVE  /\ Day(t) \in Int /\ Day(t) * DayUnits <= t /\ t < (Day(t) + 1) * DayUnits
           /\ \A d \in Int : (d * DayUnits <= t => d <= Day(t)) /\ (t < d * DayUnits => Day(t) < d)
           /\ \A d \in Int : At(d, 0, 0) = d * DayUnits /\ d * DayUnits \in Int
<1>1. /\ HourLen \in Nat \ {0} /\ DayLen \in Nat \ {0}
      /\ DayUnits \in Nat \ {0} /\ DayUnits \in Int
  BY DayUnitsPositive
<1>2. \A d \in Int : At(d, 0, 0) = d * DayUnits /\ d * DayUnits \in Int
  <2> TAKE d \in Int
  <2>1. At(d, 0, 0) = 2 * ((d * DayLen) * HourLen)
    BY <1>1 DEF At
  <2>2. (d * DayLen) * HourLen = d * (DayLen * HourLen) /\ DayLen * HourLen \in Int
    BY <1>1
  <2>3. d * DayUnits = 2 * (d * (DayLen * HourLen))
    BY <1>1 DEF DayUnits
  <2> QED BY <1>1, <2>1, <2>2, <2>3
<1>3. At(1, 0, 0) = DayUnits
  BY <1>1 DEF At, DayUnits
<1> DEFINE D == Day(t)
           r == t % DayUnits
<1>4. D \in Int /\ r \in 0..DayUnits - 1 /\ t = D * DayUnits + r
  BY <1>1, <1>3, DivMod DEF Day
<1> HIDE DEF D, r
<1>5. D * DayUnits \in Int /\ (D + 1) * DayUnits = D * DayUnits + DayUnits
  BY <1>1, <1>4
<1>6. D * DayUnits <= t /\ t < (D + 1) * DayUnits
  BY <1>1, <1>4, <1>5
<1>7. ASSUME NEW d \in Int PROVE (d * DayUnits <= t => d <= D) /\ (t < d * DayUnits => D < d)
  <2>0. d * DayUnits \in Int
    BY <1>1
  <2>1. ASSUME d > D PROVE d * DayUnits > t
    <3>1. D + 1 <= d /\ D + 1 \in Int
      BY <1>4, <2>1
    <3>2. (D + 1) * DayUnits <= d * DayUnits /\ (D + 1) * DayUnits \in Int
      BY <1>1, <3>1, Product
    <3> QED BY <1>6, <2>0, <3>2
  <2>2. ASSUME d <= D PROVE d * DayUnits <= t
    <3>1. d * DayUnits <= D * DayUnits
      BY <1>1, <1>4, <2>2, Product
    <3> QED BY <1>5, <1>6, <2>0, <3>1
  <2> QED BY <1>4, <2>0, <2>1, <2>2
<1> QED BY <1>2, <1>4, <1>6, <1>7 DEF D

\* A number of S that exceeds none is its minimum.
LEMMA MinIs ==
    ASSUME NEW S, NEW m \in S, \A x \in S : x \in Int /\ m <= x
    PROVE  Min(S) = m
<1>1. Min(S) \in S /\ \A x \in S : Min(S) <= x
  BY DEF Min
<1> QED BY <1>1

\* The search starts with the first whole minute after `after`.
LEMMA StartIsNext ==
    ASSUME NEW t \in Int
    PROVE  /\ Start(t) \in Int /\ Start(t) > t /\ Start(t) <= t + 2
           /\ \A u \in Int : u % 2 = 0 /\ u > t => u >= Start(t)
<1> DEFINE k == t \div 2
<1>1. k \in Int /\ (t = 2 * k \/ t = 2 * k + 1) /\ Start(t) = 2 * k + 2
  BY DEF Start
<1> HIDE DEF k
<1>2. ASSUME NEW u \in Int, u % 2 = 0, u > t PROVE u >= Start(t)
  <2>1. u \div 2 \in Int /\ u = 2 * (u \div 2)
    BY <1>2
  <2> DEFINE j == u \div 2
  <2> HIDE DEF j
  <2>2. j \in Int /\ u = 2 * j
    BY <2>1 DEF j
  <2> QED BY <1>1, <1>2, <2>2
<1> QED BY <1>1, <1>2

\* What the search looks at, day by day.
OfDay(c, after, d) ==
    {u \in {At(d, h, m) : h \in c.hours, m \in c.minutes} : u >= Start(after)}

SearchedDays(c, after) ==
    {d \in Day(Start(after))..(Day(Start(after)) + SearchDays) :
        MonthOf[d] \in c.months /\ DayMatches(c, d) /\ OfDay(c, after, d) # {}}

\* What it is to find.
Found(c, after) ==
    {t \in (after + 1)..(At(Day(Start(after)) + SearchDays + 1, 0, 0) - 1) : Matches(c, t)}

LEMMA SearchIs ==
    ASSUME NEW c, NEW after
    PROVE  /\ NextFireAt(c, after) = IF SearchedDays(c, after) = {} THEN Never
                                     ELSE Min(OfDay(c, after, Min(SearchedDays(c, after))))
           /\ NextMatch(c, after) = IF Found(c, after) = {} THEN Never ELSE Min(Found(c, after))
<1>1. NextMatch(c, after) = IF Found(c, after) = {} THEN Never ELSE Min(Found(c, after))
  BY DEF NextMatch, Found
<1>2. NextFireAt(c, after) = IF SearchedDays(c, after) = {} THEN Never
                             ELSE Min(OfDay(c, after, Min(SearchedDays(c, after))))
  BY DEF NextFireAt, SearchedDays, OfDay
<1> QED BY <1>1, <1>2

\* A moment the search looks at lies in its day.
LEMMA OfDayIn ==
    ASSUME NEW c, c.hours \subseteq 0..DayLen - 1, c.minutes \subseteq 0..HourLen - 1,
           NEW after \in Int, NEW d \in Int, NEW u \in OfDay(c, after, d)
    PROVE  /\ u \in Int /\ u >= Start(after) /\ Day(u) = d
           /\ u % 2 = 0 /\ (u \div 2) % HourLen \in c.minutes
           /\ ((u \div 2) \div HourLen) % DayLen \in c.hours
<1>1. PICK h \in c.hours, m \in c.minutes : u = At(d, h, m) /\ u >= Start(after)
  BY DEF OfDay
<1>2. h \in 0..DayLen - 1 /\ m \in 0..HourLen - 1
  OBVIOUS
<1> QED BY <1>1, <1>2, AtDecodes, AtInDay

\* day_matches is the table of cron.py's header.
LEMMA DayMatchesIsNamed ==
    ASSUME NEW c, NEW d
    PROVE  DayMatches(c, d) <=> DayNamed(c, d)
<1> DEFINE dom == <<c.domStar, DayOf[d], c.days>>
           dow == <<c.dowStar, WeekdayOf[d], c.weekdays>>
           restricted == {f \in {dom, dow} : ~f[1]}
<1>1. /\ dom[1] = c.domStar /\ dom[2] = DayOf[d] /\ dom[3] = c.days
      /\ dow[1] = c.dowStar /\ dow[2] = WeekdayOf[d] /\ dow[3] = c.weekdays
  OBVIOUS
<1>2. DayNamed(c, d) <=> IF restricted = {}
                         THEN \A f \in {dom, dow} : f[2] \in f[3]
                         ELSE \E f \in restricted : f[2] \in f[3]
  BY DEF DayNamed
<1> HIDE DEF dom, dow
<1>3. /\ dom \in restricted <=> ~c.domStar
      /\ dow \in restricted <=> ~c.dowStar
      /\ \A f \in restricted : f = dom \/ f = dow
  BY <1>1
<1> HIDE DEF restricted
<1>4. CASE c.domStar /\ c.dowStar
  BY <1>1, <1>2, <1>3, <1>4 DEF DayMatches
<1>5. CASE c.domStar /\ ~c.dowStar
  BY <1>1, <1>2, <1>3, <1>5 DEF DayMatches
<1>6. CASE ~c.domStar /\ c.dowStar
  BY <1>1, <1>2, <1>3, <1>6 DEF DayMatches
<1>7. CASE ~c.domStar /\ ~c.dowStar
  BY <1>1, <1>2, <1>3, <1>7 DEF DayMatches
<1> QED BY <1>4, <1>5, <1>6, <1>7

\* The search looks at exactly the moments that match.
LEMMA FoundInDays ==
    ASSUME NEW c, c.hours \subseteq 0..DayLen - 1, c.minutes \subseteq 0..HourLen - 1,
           NEW after \in Int
    PROVE  /\ \A t \in Found(c, after) : Day(t) \in SearchedDays(c, after) /\ t \in OfDay(c, after, Day(t))
           /\ \A d \in SearchedDays(c, after) : OfDay(c, after, d) \subseteq Found(c, after)
<1> DEFINE first == Day(Start(after))
           last == first + SearchDays
<1>1. Start(after) \in Int /\ Start(after) > after
  BY StartIsNext
<1>2. first \in Int /\ SearchDays \in Nat
  BY <1>1, DayOrder, DayUnitsPositive
<1> HIDE DEF first
<1>3. /\ last \in Int /\ last + 1 \in Int /\ first <= last
      /\ At(last + 1, 0, 0) = (last + 1) * DayUnits /\ (last + 1) * DayUnits \in Int
  <2>1. last \in Int /\ last + 1 \in Int /\ first <= last
    BY <1>2
  <2> HIDE DEF last
  <2> QED BY <2>1, DayOrder
<1> HIDE DEF last
<1>4. Found(c, after) = {t \in (after + 1)..(At(last + 1, 0, 0) - 1) : Matches(c, t)}
  BY DEF Found, last, first
<1>5. SearchedDays(c, after) =
          {d \in first..last : MonthOf[d] \in c.months /\ DayMatches(c, d) /\ OfDay(c, after, d) # {}}
  BY DEF SearchedDays, last, first
<1>6. ASSUME NEW t \in Found(c, after)
      PROVE  Day(t) \in SearchedDays(c, after) /\ t \in OfDay(c, after, Day(t))
  <2>1. t \in Int /\ t > after /\ t < (last + 1) * DayUnits /\ Matches(c, t)
    BY <1>3, <1>4
  <2>2. /\ t % 2 = 0 /\ (t \div 2) % HourLen \in c.minutes
        /\ ((t \div 2) \div HourLen) % DayLen \in c.hours
        /\ MonthOf[Day(t)] \in c.months /\ DayMatches(c, Day(t))
    BY <2>1, DayMatchesIsNamed DEF Matches
  <2>3. t >= Start(after)
    BY <2>1, <2>2, StartIsNext
  <2>4. t \in OfDay(c, after, Day(t))
    BY <2>1, <2>2, <2>3, AtEncodes DEF OfDay
  <2>5. Day(t) \in Int /\ Day(t) < last + 1
    BY <1>3, <2>1, DayOrder
  <2>6. first <= Day(t)
    <3>1. first * DayUnits <= Start(after) /\ first * DayUnits \in Int
      BY <1>1, <1>2, DayOrder DEF first
    <3>2. first * DayUnits <= t
      BY <1>1, <2>1, <2>3, <3>1
    <3> QED BY <1>2, <2>1, <3>2, DayOrder
  <2>7. Day(t) \in first..last
    BY <1>2, <1>3, <2>5, <2>6
  <2> QED BY <1>5, <2>2, <2>4, <2>7
<1>7. ASSUME NEW d \in SearchedDays(c, after), NEW u \in OfDay(c, after, d)
      PROVE  u \in Found(c, after)
  <2>1. d \in Int /\ d <= last /\ MonthOf[d] \in c.months /\ DayMatches(c, d)
    BY <1>2, <1>3, <1>5
  <2>2. /\ u \in Int /\ u >= Start(after) /\ Day(u) = d
        /\ u % 2 = 0 /\ (u \div 2) % HourLen \in c.minutes
        /\ ((u \div 2) \div HourLen) % DayLen \in c.hours
    BY <2>1, OfDayIn
  <2>3. Matches(c, u)
    BY <2>1, <2>2, DayMatchesIsNamed DEF Matches
  <2>4. u < (last + 1) * DayUnits
    <3>1. ~((last + 1) * DayUnits <= u)
      <4>1. (last + 1) * DayUnits <= u => last + 1 <= Day(u)
        BY <1>3, <2>2, DayOrder
      <4> QED BY <1>3, <2>1, <2>2, <4>1
    <3> QED BY <1>3, <2>2, <3>1
  <2>5. u \in (after + 1)..(At(last + 1, 0, 0) - 1)
    BY <1>1, <1>3, <2>2, <2>4
  <2> QED BY <1>4, <2>3, <2>5
<1> QED BY <1>6, <1>7

\* The first moment of the first day is the first moment there is.
LEMMA SearchExact ==
    ASSUME NEW c, c.hours \subseteq 0..DayLen - 1, c.minutes \subseteq 0..HourLen - 1,
           NEW after \in Int
    PROVE  NextFireAt(c, after) = NextMatch(c, after)
<1> DEFINE days == SearchedDays(c, after)
           Of(d) == OfDay(c, after, d)
           found == Found(c, after)
           first == Day(Start(after))
<1>1. /\ \A t \in found : Day(t) \in days /\ t \in Of(Day(t))
      /\ \A d \in days : Of(d) \subseteq found
  BY FoundInDays
<1>2. first \in Int /\ Start(after) \in Int /\ SearchDays \in Int
  BY StartIsNext, DayOrder, DayUnitsPositive
<1>3. \A d \in days : d \in Int /\ first <= d /\ Of(d) # {}
  BY <1>2 DEF SearchedDays
<1>4. \A d \in Int : \A u \in Of(d) : u \in Int /\ Start(after) <= u /\ Day(u) = d
  BY <1>2, OfDayIn
<1> HIDE DEF days, Of, found, first
<1>5. CASE days = {}
  <2>1. found = {}
    BY <1>1, <1>5
  <2> QED BY <1>5, <2>1, SearchIs DEF days, found
<1>6. CASE days # {}
  <2>1. Min(days) \in days /\ \A d \in days : Min(days) <= d
    BY <1>2, <1>3, <1>6, LeastInteger
  <2> DEFINE D == Min(days)
             x == Min(Of(D))
  <2> HIDE DEF D
  <2>2. D \in days /\ D \in Int /\ Of(D) # {} /\ \A d \in days : D <= d
    BY <1>3, <2>1 DEF D
  <2>3. x \in Of(D) /\ \A u \in Of(D) : x <= u
    <3>1. Of(D) \subseteq Int /\ \A u \in Of(D) : Start(after) <= u
      BY <1>4, <2>2
    <3> QED BY <1>2, <2>2, <3>1, LeastInteger
  <2> HIDE DEF x
  <2>4. x \in found /\ x \in Int /\ Day(x) = D
    BY <1>1, <1>4, <2>2, <2>3
  <2>5. ASSUME NEW t \in found PROVE t \in Int /\ x <= t
    <3>1. Day(t) \in days /\ t \in Of(Day(t))
      BY <1>1
    <3>2. Day(t) \in Int /\ t \in Int /\ D <= Day(t)
      BY <1>3, <1>4, <2>2, <3>1
    <3>3. CASE Day(t) = D
      BY <2>3, <3>1, <3>2, <3>3
    <3>4. CASE D < Day(t)
      <4>1. ~(Day(t) * DayUnits <= x)
        BY <2>2, <2>4, <3>2, <3>4, DayOrder
      <4>2. Day(t) * DayUnits <= t /\ Day(t) * DayUnits \in Int
        BY <3>2, DayOrder
      <4> QED BY <2>4, <3>2, <4>1, <4>2
    <3> QED BY <2>2, <3>2, <3>3, <3>4
  <2>6. Min(found) = x /\ found # {}
    BY <2>4, <2>5, MinIs
  <2>7. NextMatch(c, after) = x
    BY <2>6, SearchIs DEF found
  <2>8. NextFireAt(c, after) = x
    BY <1>6, SearchIs DEF days, D, x, Of
  <2> QED BY <2>7, <2>8
<1> QED BY <1>5, <1>6

\* A finite set of integers has a greatest element, which Max is.
LEMMA GreatestInteger ==
    ASSUME NEW S, IsFiniteSet(S), S \subseteq Int, S # {}
    PROVE  Max(S) \in S /\ \A y \in S : Max(S) >= y
<1> DEFINE n == Cardinality(S)
<1>1. n \in Nat /\ n # 0
  BY FS_CardinalityType, FS_EmptySet
<1>2. PICK f : f \in Bijection(1..n, S)
  BY FS_CardinalityType DEF ExistsBijection
<1>3. f \in [1..n -> S] /\ \A y \in S : \E i \in 1..n : f[i] = y
  BY <1>2 DEF Bijection, Surjection
<1> HIDE DEF n
<1> DEFINE Top(k) == \E i \in 1..k : \A j \in 1..k : f[i] >= f[j]
           T == {k \in 1..n : ~Top(k)}
<1>4. \A i \in 1..n : f[i] \in Int
  BY <1>3
<1>5. CASE T # {}
  <2>1. T \subseteq Int /\ \A k \in T : 1 <= k
    BY <1>1
  <2>2. PICK K \in T : \A k \in T : K <= k
    <3> HIDE DEF T
    <3>1. Min(T) \in T /\ \A k \in T : Min(T) <= k
      <4>1. 1 \in Int
        OBVIOUS
      <4> QED BY <1>5, <2>1, <4>1, LeastInteger, Zenon
    <3> QED BY <3>1
  <2>3. K \in 1..n /\ ~Top(K)
    OBVIOUS
  <2>4. K # 1
    <3>1. Top(1)
      BY <1>1, <1>4
    <3> QED BY <2>3, <3>1
  <2>5. K - 1 \in 1..n /\ ~(K <= K - 1)
    BY <1>1, <2>3, <2>4
  <2>6. Top(K - 1)
    <3> HIDE DEF Top
    <3> QED BY <2>2, <2>5
  <2>7. PICK i \in 1..K - 1 : \A j \in 1..K - 1 : f[i] >= f[j]
    BY <2>6
  <2>8. /\ i \in 1..K /\ K \in 1..K /\ \A j \in 1..K : j \in 1..K - 1 \/ j = K
        /\ \A j \in 1..K : j \in 1..n
    BY <1>1, <2>3, <2>5, <2>7
  <2>9. CASE f[i] >= f[K]
    BY <2>3, <2>7, <2>8, <2>9
  <2>10. CASE ~(f[i] >= f[K])
    <3>1. \A j \in 1..K : f[K] >= f[j]
      BY <1>4, <2>7, <2>8, <2>10
    <3> QED BY <2>3, <2>8, <3>1
  <2> QED BY <2>9, <2>10
<1>6. CASE T = {}
  <2>1. n \in 1..n
    BY <1>1
  <2>2. Top(n)
    <3> HIDE DEF Top
    <3> QED BY <1>6, <2>1
  <2>3. PICK i \in 1..n : \A j \in 1..n : f[i] >= f[j]
    BY <2>2
  <2>4. f[i] \in S /\ \A y \in S : f[i] >= y
    BY <1>3, <2>3
  <2> QED BY <2>4 DEF Max
<1> QED BY <1>5, <1>6

\* Whatever next_fire_at returns for a schedule in use is a moment.
LEMMA NextFireIsMoment ==
    ASSUME NEW q \in Plan, NEW t \in Reading
    PROVE  NextFireAt(q.cron, t) \in Moment
<1> DEFINE c == q.cron
           R == Max(Reading)
           u == NextFireAt(c, t)
           first == Day(Start(t))
<1>1. /\ c.hours \subseteq 0..DayLen - 1 /\ c.minutes \subseteq 0..HourLen - 1
      /\ u # Never
  BY TriggerAssumption
<1>2. R \in Int /\ R >= 0 /\ t \in Int /\ t >= 0 /\ R >= t
  <2>1. IsFiniteSet(Reading) /\ Reading \subseteq Int /\ Reading # {}
    BY TriggerAssumption, ReadingIsNat
  <2> QED BY <2>1, GreatestInteger, ReadingIsNat
<1>3. u = NextMatch(c, t)
  BY <1>1, <1>2, SearchExact
<1>4. u \in Found(c, t)
  <2> HIDE DEF c, u
  <2>1. Found(c, t) # {} /\ u = Min(Found(c, t))
    BY <1>1, <1>3, SearchIs
  <2>2. Found(c, t) \subseteq Int /\ \A x \in Found(c, t) : t <= x
    BY <1>2 DEF Found
  <2> QED BY <1>2, <2>1, <2>2, LeastInteger
<1> HIDE DEF R, u, c
<1>5. Start(t) \in Int /\ Start(t) <= t + 2
  BY <1>2, StartIsNext
<1>6. /\ first \in Int /\ Day(R) \in Int /\ first * DayUnits <= Start(t)
      /\ R < (Day(R) + 1) * DayUnits
  BY <1>2, <1>5, DayOrder
<1>7. DayUnits \in Nat /\ DayUnits >= 2 /\ SearchDays \in Nat
  BY DayUnitsPositive
<1> HIDE DEF first
<1>8. first <= Day(R) + 1
  <2>1. (Day(R) + 2) * DayUnits = (Day(R) + 1) * DayUnits + DayUnits
    BY <1>6, <1>7
  <2>2. (Day(R) + 1) * DayUnits \in Int /\ first * DayUnits \in Int
    BY <1>6, <1>7
  <2>3. first * DayUnits < (Day(R) + 2) * DayUnits
    BY <1>2, <1>5, <1>6, <1>7, <2>1, <2>2
  <2>4. ~(Day(R) + 2 <= first)
    <3> SUFFICES ASSUME Day(R) + 2 <= first PROVE FALSE
      OBVIOUS
    <3>1. (Day(R) + 2) * DayUnits <= first * DayUnits
      BY <1>6, <1>7, Product
    <3> QED BY <1>7, <2>1, <2>2, <2>3, <3>1
  <2> QED BY <1>6, <2>4
<1> DEFINE a == first + SearchDays + 1
           b == Day(R) + SearchDays + 2
<1>9. a \in Int /\ b \in Int /\ a <= b
  BY <1>6, <1>7, <1>8
<1> HIDE DEF a, b
<1>10. At(a, 0, 0) <= At(b, 0, 0) /\ At(a, 0, 0) \in Int /\ At(b, 0, 0) \in Int
  <2>1. At(a, 0, 0) = a * DayUnits /\ At(b, 0, 0) = b * DayUnits
    BY <1>2, <1>9, DayOrder
  <2> QED BY <1>7, <1>9, <2>1, Product
<1>11. u \in (t + 1)..(At(a, 0, 0) - 1)
  BY <1>4 DEF Found, a, first
<1>12. u \in 0..At(b, 0, 0)
  BY <1>2, <1>10, <1>11
<1> QED BY <1>12 DEF Moment, b, R, u, c

(***************************************************************************)
(* For every calendar, schedule and moment the clock shows, next_fire_at   *)
(* finds the first moment after it that the schedule names.                *)
(***************************************************************************)
THEOREM NextFireCorrect == Spec => []NextFireExact
<1>1. FireInv => NextFireExact
  <2> SUFFICES ASSUME FireInv, NEW q \in Plan
               PROVE  NextFireAt(q.cron, now) = NextMatch(q.cron, now)
    BY DEF NextFireExact
  <2>1. now \in Int
    BY ReadingIsNat DEF FireInv, TrigTyped
  <2>2. q.cron.hours \subseteq 0..DayLen - 1 /\ q.cron.minutes \subseteq 0..HourLen - 1
    BY TriggerAssumption
  <2> QED BY <2>1, <2>2, SearchExact
<1> QED BY <1>1, InitFireInv, FireInvStep, PTL DEF Spec

\* What FireInv leaves open of the type invariant, and what a request is about
\* to write.
Placed ==
    /\ next \in Moment /\ status \in {"none", "active", "paused", "deleted"}
    /\ gone \in BOOLEAN /\ tasks \in Nat
    /\ \A u \in User : req[u].op \in {"insert", "write", "resume"} => req[u].fire \in Moment

LEMMA InitPlaced == Init => Placed
<1> SUFFICES ASSUME Init PROVE Placed
  OBVIOUS
<1>1. next \in Moment
  <2>1. PICK q \in Plan : TRUE
    BY TriggerAssumption
  <2>2. PICK t \in Reading : TRUE
    BY TriggerAssumption
  <2>3. NextFireAt(q.cron, t) \in Moment /\ NextFireAt(q.cron, t) > t /\ t \in Int /\ t >= 0
    BY NextFireAfter, NextFireIsMoment, ReadingIsNat
  <2> DEFINE top == At(Day(Max(Reading)) + SearchDays + 2, 0, 0)
  <2>4. Moment = 0..top
    BY DEF Moment
  <2>5. top \in Int
    <3>1. IsFiniteSet(Reading) /\ Reading \subseteq Int /\ Reading # {}
      BY TriggerAssumption, ReadingIsNat
    <3>2. Max(Reading) \in Int
      BY <3>1, GreatestInteger
    <3>3. Day(Max(Reading)) \in Int /\ SearchDays \in Nat
      BY <3>2, DayOrder, DayUnitsPositive
    <3>4. Day(Max(Reading)) + SearchDays + 2 \in Int
      BY <3>3
    <3> QED BY <3>2, <3>4, DayOrder
  <2> HIDE DEF top
  <2>6. 0 \in 0..top
    BY <2>3, <2>4, <2>5
  <2> QED BY <2>4, <2>6 DEF Init
<1>2. \A u \in User : req[u].op \notin {"insert", "write", "resume"}
  BY DEF Init, NoRequest
<1> QED BY <1>1, <1>2 DEF Init, DefInit, Placed

\* A request that is new or has changed carries a moment if it writes one.
LEMMA RequestPlaced ==
    ASSUME TrigTyped, Placed, NEW u \in User, NEW r, req' = [req EXCEPT ![u] = r],
           r.op \in {"insert", "write", "resume"} => r.fire \in Moment
    PROVE  \A w \in User : req'[w].op \in {"insert", "write", "resume"} => req'[w].fire \in Moment
<1> TAKE w \in User
<1>1. req'[w] = IF w = u THEN r ELSE req[w]
  BY DEF TrigTyped
<1> QED BY <1>1 DEF Placed

LEMMA PlacedStep ==
    ASSUME FireInv, Placed, [Next]_vars
    PROVE  Placed'
<1>0. /\ TrigTyped /\ now \in Reading /\ plan \in Plan
      /\ \A q \in Plan, t \in Reading : NextFireAt(q.cron, t) \in Moment
  BY NextFireIsMoment DEF FireInv, TrigTyped
<1>1. ASSUME UNCHANGED <<next, req>>, status' \in {"none", "active", "paused", "deleted"},
             gone' \in BOOLEAN, tasks' \in Nat
      PROVE  Placed'
  BY <1>1 DEF Placed
<1>2. ASSUME NEW p \in Replica, FirePass(p) \/ Drop(p) PROVE Placed'
  <2>1. CASE Claim(p)
    <3>1. UNCHANGED <<req, status, gone, tasks>>
      BY <2>1 DEF Claim, allDefVars
    <3>2. next' \in Moment
      <4>1. CASE Claimable(pass[p])
        <5>1. pass[p].plan \in Plan /\ pass[p].at \in Reading
          BY <1>0, <2>1, DueTyped DEF Claim
        <5>2. next' = NextFireAt(pass[p].plan.cron, pass[p].at)
          BY <2>1, <4>1 DEF Claim
        <5> QED BY <1>0, <5>1, <5>2
      <4>2. CASE ~Claimable(pass[p])
        BY <2>1, <4>2 DEF Claim, Placed
      <4> QED BY <4>1, <4>2
    <3> QED BY <3>1, <3>2 DEF Placed
  <2>2. CASE Scan(p) \/ Fire(p) \/ PauseOnFailure(p) \/ Drop(p)
    BY <1>1, <2>2 DEF Scan, Fire, PauseOnFailure, Drop, trigVars, allDefVars, Placed
  <2> QED BY <1>2, <2>1, <2>2 DEF FirePass
<1>3. ASSUME NEW u \in User, Request(u) PROVE Placed'
  <2> DEFINE Wrote == \A w \in User : req'[w].op \in {"insert", "write", "resume"} => req'[w].fire \in Moment
  <2>0. NoRequest.op \notin {"insert", "write", "resume"}
    BY DEF NoRequest
  <2>1. ASSUME NEW r, Change(u, r), r.op \in {"insert", "write", "resume"} => r.fire \in Moment
        PROVE  Placed'
    <3>1. Wrote
      BY <1>0, <2>1, RequestPlaced DEF Change
    <3>2. UNCHANGED <<next, status, gone, tasks>>
      BY <2>1 DEF Change, trigVars, allDefVars
    <3> QED BY <3>1, <3>2 DEF Placed
  <2>2. ASSUME NEW q \in Plan, AskTrigger(u, q) \/ AskCron(u, q) PROVE Placed'
    <3>1. CASE AskTrigger(u, q)
      <4>1. Change(u, [op |-> "insert", plan |-> q, fire |-> NextFireAt(q.cron, now)])
        BY <3>1 DEF AskTrigger
      <4> QED BY <1>0, <2>1, <4>1
    <3>2. CASE AskCron(u, q)
      <4>1. Change(u, [op |-> "cron", plan |-> q, ver |-> ver, try |-> 1])
        BY <3>2 DEF AskCron
      <4> QED BY <2>1, <4>1
    <3> QED BY <2>2, <3>1, <3>2
  <2>3. CASE Compute(u)
    <3>1. req[u].plan \in Plan
      BY <1>0, <2>3, ReqTyped DEF Compute
    <3> QED BY <1>0, <2>1, <2>3, <3>1 DEF Compute
  <2>4. CASE AskResume(u)
    BY <1>0, <2>1, <2>4 DEF AskResume, ResumeReq
  <2>5. CASE Insert(u)
    <3>1. Wrote
      BY <1>0, <2>0, <2>5, RequestPlaced DEF Insert, Done
    <3>2. UNCHANGED <<gone, tasks>> /\ next' \in Moment
          /\ status' \in {"none", "active", "paused", "deleted"}
      BY <2>5 DEF Insert, allDefVars, Placed
    <3> QED BY <3>1, <3>2 DEF Placed
  <2>6. CASE WriteCron(u)
    <3>1. Wrote
      <4>1. PICK r : req' = [req EXCEPT ![u] = r] /\ r.op \notin {"insert", "write", "resume"}
        <5>1. req' = [req EXCEPT ![u] = NoRequest] \/
              req' = [req EXCEPT ![u] = [op |-> "cron", plan |-> req[u].plan, ver |-> ver,
                                         try |-> req[u].try + 1]]
          BY <2>6 DEF WriteCron, Done
        <5> QED BY <2>0, <5>1
      <4> QED BY <1>0, <4>1, RequestPlaced
    <3>2. UNCHANGED <<gone, tasks, status>> /\ next' \in Moment
      BY <2>6 DEF WriteCron, allDefVars, Placed
    <3> QED BY <3>1, <3>2 DEF Placed
  <2>7. CASE WriteResume(u)
    <3>1. Wrote
      <4>1. PICK r : /\ req' = [req EXCEPT ![u] = r]
                     /\ r.op \in {"insert", "write", "resume"} => r.fire \in Moment
        <5>1. req' = [req EXCEPT ![u] = NoRequest] \/
              req' = [req EXCEPT ![u] = ResumeReq(req[u].try + 1)]
          BY <2>7 DEF WriteResume, Done
        <5>2. ResumeReq(req[u].try + 1).fire \in Moment
          BY <1>0 DEF ResumeReq
        <5> QED BY <2>0, <5>1, <5>2
      <4> QED BY <1>0, <4>1, RequestPlaced
    <3>2. UNCHANGED <<gone, tasks>> /\ next' \in Moment
          /\ status' \in {"none", "active", "paused", "deleted"}
      BY <2>7 DEF WriteResume, allDefVars, Placed
    <3> QED BY <3>1, <3>2 DEF Placed
  <2>8. CASE Pause(u) \/ Delete(u) \/ FireNow(u)
    BY <1>1, <2>8 DEF Pause, Delete, FireNow, trigVars, allDefVars, Placed
  <2> QED BY <1>3, <2>2, <2>3, <2>4, <2>5, <2>6, <2>7, <2>8 DEF Request
<1>4. ASSUME NEW e \in Editor, DefinitionStep(e) \/ DeleteDefinition(e) PROVE Placed'
  <2>1. UNCHANGED <<next, req>> /\ status' \in {"none", "active", "paused", "deleted"}
    BY <1>4 DEF DefinitionStep, DeleteDefinition, trigVars, Placed
  <2>2. gone' \in BOOLEAN /\ tasks' \in Nat
    <3>1. CASE DeleteDefinition(e)
      BY <3>1 DEF DeleteDefinition, MarkDeleted, Placed
    <3>2. CASE DefinitionStep(e)
      <4>1. gone' = gone /\ tasks' = tasks
        BY <3>2 DEF DefinitionStep, AskCreate, InsertVersion, AskUpdate, AskPublish,
                    WriteConfig, Publish, AskDelete, defVars
      <4> QED BY <4>1 DEF Placed
    <3> QED BY <1>4, <3>1, <3>2
  <2> QED BY <1>1, <2>1, <2>2
<1>5. CASE Tick \/ TaskEnds \/ UNCHANGED vars
  BY <1>1, <1>5 DEF Tick, TaskEnds, trigVars, allDefVars, vars, Placed
<1> QED BY <1>2, <1>3, <1>4, <1>5 DEF Next

(***************************************************************************)
(* Definitions, triggers and the clock stay within their types; what is    *)
(* stored as next_fire_at is always a moment of the search window.         *)
(***************************************************************************)
THEOREM ScheduleTypes == Spec => []TypeOK
<1>1. DefInv /\ FireInv /\ Placed => TypeOK
  BY DEF DefInv, DefTyped, FireInv, TrigTyped, Placed, TypeOK, DefTypeOK
<1>2. Spec => [](FireInv /\ Placed)
  BY InitFireInv, FireInvStep, InitPlaced, PlacedStep, PTL DEF Spec
<1> QED BY <1>1, <1>2, DefInvariant, PTL
=============================================================================
