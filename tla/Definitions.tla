---------------------------- MODULE Definitions ----------------------------
(***************************************************************************)
(* One task definition and its versions (task_definition_service.py,       *)
(* definition_repository.py): drafts are written, validated and published, *)
(* the definition is deleted with all that hangs on it.  A request reads   *)
(* first and writes in a second step; between the two other requests may   *)
(* commit.  What decides a race is the WHERE of the UPDATE or a unique     *)
(* index, and they are modelled as such.                                   *)
(***************************************************************************)
EXTENDS Integers, FiniteSetsExt

CONSTANTS
    Editor,         \* people who edit definitions, one request at a time
    Config,         \* flow configurations
    Valid,          \* those validate_flow_config has no issues with
    MaxVersion      \* bound: versions of the definition

ASSUME ConfigAssumption == Valid \subseteq Config /\ Valid # {}
ASSUME VersionAssumption == MaxVersion \in Nat \ {0}

Version == 1..MaxVersion

VARIABLES
    version,    \* status of every version: none, draft, published
    config,     \* its config
    current,    \* current_version_no of the definition
    gone,       \* is_deleted of the definition and of its versions
    tasks,      \* instances of the definition that have not finished
    edit        \* what every editor's request has read

defVars == <<version, config, current, gone>>

NoEdit == [op |-> "none"]

Drafts    == {v \in Version : version[v] = "draft"}
Published == {v \in Version : version[v] = "published"}
Numbered  == {v \in Version : version[v] # "none"}

DefTypeOK ==
    /\ version \in [Version -> {"none", "draft", "published"}]
    /\ config \in [Version -> Config]
    /\ current \in 0..MaxVersion
    /\ gone \in BOOLEAN
    /\ tasks \in Nat

\* create_definition with a valid initial_config: the first draft.
DefInit ==
    /\ version = [v \in Version |-> IF v = 1 THEN "draft" ELSE "none"]
    /\ config = [v \in Version |-> CHOOSE c \in Valid : TRUE]
    /\ current = 0
    /\ gone = FALSE
    /\ tasks = 0

Answer(e) == edit' = [edit EXCEPT ![e] = NoEdit]

-----------------------------------------------------------------------------
\* create_version: there is no draft; next_version_no is MAX + 1.
AskCreate(e) ==
    /\ edit[e] = NoEdit /\ ~gone /\ Drafts = {}
    /\ Cardinality(Numbered) < MaxVersion
    /\ edit' = [edit EXCEPT ![e] = [op |-> "create", v |-> Max(Numbered) + 1]]
    /\ UNCHANGED <<defVars, tasks>>

\* The unique indexes uq_tc_ver_no and uq_tc_ver_draft.
InsertAllowed(v) == version[v] = "none" /\ Drafts = {}

\* _create_version_row: the index decides.
InsertVersion(e) ==
    /\ edit[e].op = "create"
    /\ LET v == edit[e].v IN
       IF InsertAllowed(v)
         THEN /\ version' = [version EXCEPT ![v] = "draft"]
              /\ \E c \in Config : config' = [config EXCEPT ![v] = c]
         ELSE UNCHANGED <<version, config>>
    /\ Answer(e)
    /\ UNCHANGED <<current, gone, tasks>>

\* update_version, publish_version: the version that was read is a draft.
\* Publishing validates the config that was read.
AskUpdate(e, v) ==
    /\ edit[e] = NoEdit /\ ~gone /\ v \in Drafts
    /\ edit' = [edit EXCEPT ![e] = [op |-> "update", v |-> v]]
    /\ UNCHANGED <<defVars, tasks>>

AskPublish(e, v) ==
    /\ edit[e] = NoEdit /\ ~gone /\ v \in Drafts
    /\ config[v] \in Valid
    /\ edit' = [edit EXCEPT ![e] = [op |-> "publish", v |-> v]]
    /\ UNCHANGED <<defVars, tasks>>

\* Mutant: the row is found by its id alone.
IsThere(v) == ~gone

\* update_draft_config: WHERE id = :id AND status = 'draft' AND is_deleted = 0
OpenToUpdate(v) == version[v] = "draft" /\ ~gone

WriteConfig(e) ==
    /\ edit[e].op = "update"
    /\ LET v == edit[e].v IN
       IF OpenToUpdate(v) THEN \E c \in Config : config' = [config EXCEPT ![v] = c]
                          ELSE config' = config
    /\ Answer(e)
    /\ UNCHANGED <<version, current, gone, tasks>>

\* publish_draft: WHERE id = :id AND status = 'draft' AND is_deleted = 0
OpenToPublish(v) == version[v] = "draft" /\ ~gone

\* publish_draft and bump_current_version, in one transaction.
Publish(e) ==
    /\ edit[e].op = "publish"
    /\ LET v == edit[e].v IN
       IF OpenToPublish(v) THEN /\ version' = [version EXCEPT ![v] = "published"]
                                /\ current' = v
                           ELSE UNCHANGED <<version, current>>
    /\ Answer(e)
    /\ UNCHANGED <<config, gone, tasks>>

\* delete_definition: no unfinished instance was counted.
AskDelete(e) ==
    /\ edit[e] = NoEdit /\ ~gone /\ tasks = 0
    /\ edit' = [edit EXCEPT ![e] = [op |-> "drop"]]
    /\ UNCHANGED <<defVars, tasks>>

\* The definition and its versions; the triggers are the caller's part.
MarkDeleted(e) ==
    /\ edit[e].op = "drop"
    /\ gone' = TRUE
    /\ Answer(e)
    /\ UNCHANGED <<version, config, current, tasks>>

-----------------------------------------------------------------------------
(***************************************************************************)
(* current_version_no is the newest published version, 0 while there is    *)
(* none: "the latest published version" a trigger or task.fire runs.       *)
(* Nothing compares version numbers when a version is published: it holds  *)
(* because a version is published once, and only while it is the newest.   *)
(***************************************************************************)
CurrentIsNewest ==
    current = IF Published = {} THEN 0 ELSE Max(Published)

(***************************************************************************)
(* A published version is never changed or taken back, whoever had it open *)
(* as a draft when it was published (section 6.6 in update_version).       *)
(***************************************************************************)
PublishedForGood ==
    [][\A v \in Published : version'[v] = "published" /\ config'[v] = config[v]]_defVars

(***************************************************************************)
(* Only a config that passed the validation is ever published: what        *)
(* publish_version's docstring promises.  (It does not hold: see the run   *)
(* publish_race.)                                                          *)
(***************************************************************************)
PublishedIsValid == \A v \in Published : config[v] \in Valid
=============================================================================
