------------------------------ MODULE TaskLock ------------------------------
(***************************************************************************)
(* The task lock (services/task_lock.py over jonex_core/common/cache.py):  *)
(* a Redis key per task, set with NX and a time to live, deleted by its    *)
(* holder only after comparing the token.  Redis may lose a reply, a       *)
(* holder may die, and a key may run out under a holder that is still at   *)
(* work.                                                                   *)
(***************************************************************************)
EXTENDS Naturals

CONSTANTS
    Replica,        \* processes that take locks
    Task,           \* what is locked
    Token,          \* uuid4 values; one that nobody holds is as good as new
    NoToken,        \* the key does not exist
    Tries,          \* SET rounds in the waiting window of acquire_task_lock
    RedisRetries    \* max_retries of redis_retry

ASSUME TokenAssumption == NoToken \notin Token
ASSUME TaskAssumption == Task # {}
ASSUME RetryAssumption == Tries \in Nat \ {0} /\ RedisRetries \in Nat \ {0}

VARIABLES
    key,        \* the value of every task's key in Redis
    at,         \* where every replica is: out, acquiring, inside
    wants,      \* the task whose lock the replica is after or holds
    token,      \* the token it was given
    tried,      \* rounds of the window it has used
    lost,       \* SETs of this round whose reply never came
    lease       \* history: its key has not run out since it came in

lockVars == <<key, at, wants, token, tried, lost, lease>>

AnyTask == CHOOSE t \in Task : TRUE

LockTypeOK ==
    /\ key \in [Task -> Token \cup {NoToken}]
    /\ at \in [Replica -> {"out", "acquiring", "inside"}]
    /\ wants \in [Replica -> Task]
    /\ token \in [Replica -> Token \cup {NoToken}]
    /\ tried \in [Replica -> 0..(Tries - 1)]
    /\ lost \in [Replica -> 0..(RedisRetries - 1)]
    /\ lease \in [Replica -> BOOLEAN]

LockInit ==
    /\ key = [t \in Task |-> NoToken]
    /\ at = [r \in Replica |-> "out"]
    /\ wants = [r \in Replica |-> AnyTask]
    /\ token = [r \in Replica |-> NoToken]
    /\ tried = [r \in Replica |-> 0]
    /\ lost = [r \in Replica |-> 0]
    /\ lease = [r \in Replica |-> FALSE]

\* uuid4: a token no key has and no replica remembers.
Fresh == {k \in Token : /\ \A t \in Task : key[t] # k
                        /\ \A r \in Replica : token[r] # k}

\* The counters are local to acquire_task_lock.
NotWaiting(r) ==
    /\ tried' = [tried EXCEPT ![r] = 0]
    /\ lost' = [lost EXCEPT ![r] = 0]

\* Out of the block: nothing of the call is left but what is in Redis.
GoOut(r) ==
    /\ at' = [at EXCEPT ![r] = "out"]
    /\ wants' = [wants EXCEPT ![r] = AnyTask]
    /\ token' = [token EXCEPT ![r] = NoToken]
    /\ lease' = [lease EXCEPT ![r] = FALSE]
    /\ NotWaiting(r)

-----------------------------------------------------------------------------
\* `async with task_lock(t)`: the replica starts to wait for the lock.
Ask(r, t) ==
    /\ at[r] = "out"
    /\ at' = [at EXCEPT ![r] = "acquiring"]
    /\ wants' = [wants EXCEPT ![r] = t]
    /\ UNCHANGED <<key, token, tried, lost, lease>>

\* SET NX PX answers OK: the replica is in.
Acquire(r) ==
    /\ at[r] = "acquiring"
    /\ key[wants[r]] = NoToken
    /\ \E k \in Fresh :
         /\ key' = [key EXCEPT ![wants[r]] = k]
         /\ token' = [token EXCEPT ![r] = k]
    /\ at' = [at EXCEPT ![r] = "inside"]
    /\ lease' = [lease EXCEPT ![r] = TRUE]
    /\ NotWaiting(r)
    /\ UNCHANGED wants

\* Mutant: the window is counted one round too far.
BusyOnceMore(r) ==
    /\ at[r] = "acquiring"
    /\ key[wants[r]] # NoToken
    /\ tried' = [tried EXCEPT ![r] = @ + 1]
    /\ lost' = [lost EXCEPT ![r] = 0]
    /\ UNCHANGED <<key, at, wants, token, lease>>

\* SET NX PX answers nil: another round of the window, or TaskLockBusy.
Busy(r) ==
    /\ at[r] = "acquiring"
    /\ key[wants[r]] # NoToken
    /\ \/ /\ tried[r] + 1 < Tries
          /\ tried' = [tried EXCEPT ![r] = @ + 1]
          /\ lost' = [lost EXCEPT ![r] = 0]
          /\ UNCHANGED <<at, wants, token, lease>>
       \/ tried[r] + 1 = Tries /\ GoOut(r)
    /\ UNCHANGED key

(***************************************************************************)
(* The SET raises: it may have been carried out all the same.  redis_retry *)
(* calls acquire_lock again, and the token is drawn inside, so a key set   *)
(* by a call whose reply was lost belongs to nobody until it runs out.     *)
(* After the last retry CacheError leaves the block.                       *)
(***************************************************************************)
LoseReply(r) ==
    /\ at[r] = "acquiring"
    /\ \/ key' = key
       \/ /\ key[wants[r]] = NoToken
          /\ \E k \in Fresh : key' = [key EXCEPT ![wants[r]] = k]
    /\ \/ /\ lost[r] + 1 < RedisRetries
          /\ lost' = [lost EXCEPT ![r] = @ + 1]
          /\ UNCHANGED <<at, wants, token, tried, lease>>
       \/ lost[r] + 1 = RedisRetries /\ GoOut(r)

\* Mutant: DEL without comparing the token.
DeleteAny(r) == [key EXCEPT ![wants[r]] = NoToken]

\* release_lock: GET = token, then DEL, in one script.
DeleteOwn(r) ==
    IF key[wants[r]] = token[r] THEN [key EXCEPT ![wants[r]] = NoToken] ELSE key

\* The end of the block: release_task_lock, which swallows a Redis failure.
Release(r) ==
    /\ at[r] = "inside"
    /\ key' = DeleteOwn(r) \/ key' = key
    /\ GoOut(r)

\* The process dies: it forgets its token, the key stays.
Die(r) ==
    /\ at[r] # "out"
    /\ GoOut(r)
    /\ UNCHANGED key

\* PX has run out, whoever holds the key and whatever it is doing.
Expire(t) ==
    /\ key[t] # NoToken
    /\ key' = [key EXCEPT ![t] = NoToken]
    /\ lease' = [r \in Replica |-> lease[r] /\ token[r] # key[t]]
    /\ UNCHANGED <<at, wants, token, tried, lost>>

-----------------------------------------------------------------------------
(***************************************************************************)
(* Two replicas are inside the section of one task only after the key of   *)
(* one of them has run out: no release, no lost reply and no crash lets a  *)
(* second one in.  (task_lock.py: "A's lock expires, B gets it, A comes    *)
(* back and deletes B's lock" is what comparing the token prevents.)       *)
(***************************************************************************)
Exclusive ==
    \A r, s \in Replica :
        /\ r # s
        /\ at[r] = "inside" /\ at[s] = "inside"
        /\ wants[r] = wants[s]
        => ~(lease[r] /\ lease[s])
=============================================================================
