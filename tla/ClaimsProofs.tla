---------------------------- MODULE ClaimsProofs ----------------------------
(***************************************************************************)
(* The lock, the cap and the claim, for any number of replicas, tasks,     *)
(* rows, tokens and retries of Redis: type correctness, exclusion while    *)
(* leases last, the bound of the soft cap, and one claim per attempt.      *)
(***************************************************************************)
EXTENDS DispatchClaims, FiniteSetTheorems, TLAPS

-----------------------------------------------------------------------------
(***************************************************************************)
(* Types                                                                   *)
(***************************************************************************)

\* Rest is a transaction, whichever row it names.
LEMMA RestTyped == Rest \in Txn
  BY RowAssumption DEF Rest, Txn, Job

LEMMA AnyTaskTyped == AnyTask \in Task
  BY TaskAssumption DEF AnyTask

\* What every step of the lock leaves of its variables.
LEMMA GoOutTyped ==
    ASSUME NEW r \in Replica, LockTypeOK, GoOut(r)
    PROVE  /\ at' \in [Replica -> {"out", "acquiring", "inside"}]
           /\ wants' \in [Replica -> Task]
           /\ token' \in [Replica -> Token \cup {NoToken}]
           /\ tried' \in [Replica -> 0..(Tries - 1)]
           /\ lost' \in [Replica -> 0..(RedisRetries - 1)]
           /\ lease' \in [Replica -> BOOLEAN]
<1>1. 0 \in 0..(Tries - 1) /\ 0 \in 0..(RedisRetries - 1)
  BY RetryAssumption
<1> QED
  BY <1>1, AnyTaskTyped DEF LockTypeOK, GoOut, NotWaiting

LEMMA LockTyped ==
    ASSUME LockTypeOK, [Next]_vars
    PROVE  LockTypeOK'
<1>0. 0 \in 0..(Tries - 1) /\ 0 \in 0..(RedisRetries - 1)
  BY RetryAssumption
<1> USE DEF LockTypeOK
<1>1. ASSUME UNCHANGED lockVars PROVE LockTypeOK'
  BY <1>1 DEF lockVars
<1>2. ASSUME NEW r \in Replica, NEW j \in Job, NEW x \in Row, Begin(r, j, x)
      PROVE  LockTypeOK'
  <2>1. TaskOf[x] \in Task BY RowAssumption
  <2> QED BY <1>2, <2>1 DEF Begin, Ask
<1>3. ASSUME NEW r \in Replica, Enter(r) PROVE LockTypeOK'
  BY <1>3, <1>0 DEF Enter, Acquire, NotWaiting, Fresh
<1>4. ASSUME NEW r \in Replica, Busy(r) PROVE LockTypeOK'
  <2>1. CASE tried[r] + 1 < Tries /\ ~GoOut(r)
    <3>1. tried[r] + 1 \in 0..(Tries - 1) BY <2>1, RetryAssumption
    <3> QED BY <1>4, <2>1, <3>1, <1>0 DEF Busy
  <2>2. CASE GoOut(r)
    BY <1>4, <2>2, GoOutTyped DEF Busy
  <2> QED BY <1>4, <2>1, <2>2 DEF Busy
<1>5. ASSUME NEW r \in Replica, LoseReply(r) PROVE LockTypeOK'
  <2>0. key' \in [Task -> Token \cup {NoToken}]
    BY <1>5 DEF LoseReply, Fresh
  <2>1. CASE lost[r] + 1 < RedisRetries /\ ~GoOut(r)
    <3>1. lost[r] + 1 \in 0..(RedisRetries - 1) BY <2>1, RetryAssumption
    <3> QED BY <1>5, <2>0, <2>1, <3>1 DEF LoseReply
  <2>2. CASE GoOut(r)
    BY <2>0, <2>2, GoOutTyped
  <2> QED BY <1>5, <2>1, <2>2 DEF LoseReply
<1>6. ASSUME NEW r \in Replica, Leave(r) PROVE LockTypeOK'
  <2>1. key' \in [Task -> Token \cup {NoToken}]
    BY <1>6 DEF Leave, Release, DeleteOwn
  <2> QED BY <1>6, <2>1, GoOutTyped DEF Leave, Release
<1>7. ASSUME NEW r \in Replica, Crash(r) PROVE LockTypeOK'
  BY <1>7, GoOutTyped DEF Crash, Die
<1>8. ASSUME NEW t \in Task, RunOut(t) PROVE LockTypeOK'
  <2>1. lease' \in [Replica -> BOOLEAN]
    BY <1>8, Zenon DEF RunOut, Expire
  <2> QED BY <1>8, <2>1 DEF RunOut, Expire
<1> QED
  BY <1>1, <1>2, <1>3, <1>4, <1>5, <1>6, <1>7, <1>8
  DEF Next, vars, lockVars, Wait, Read, Count, Update, Commit, Fail

\* The part of TypeOK that is about rows and transactions.
RowsTyped ==
    /\ st \in [Row -> {"pending", "running", "ended"}]
    /\ ver \in [Row -> Nat]
    /\ attempt \in [Row -> Nat]
    /\ writer \in [Row -> Replica \cup {NoWriter}]
    /\ txn \in [Replica -> Txn]
    /\ claims \in [Row -> Nat]

\* What a job leaves of its row is a status.
LEMMA ToTyped ==
    ASSUME NEW j \in Job
    PROVE  /\ To(j) \subseteq {"pending", "running", "ended"}
           /\ From(j) \in {"pending", "running", "ended"}
  BY DEF To, From, Job

LEMMA RowsTypedStep ==
    ASSUME RowsTyped, [Next]_vars
    PROVE  RowsTyped'
<1> USE RestTyped DEF RowsTyped
<1>1. ASSUME UNCHANGED <<dbVars, txn>> PROVE RowsTyped'
  BY <1>1 DEF dbVars
<1>2. ASSUME NEW r \in Replica, NEW j \in Job, NEW x \in Row, Begin(r, j, x)
      PROVE  RowsTyped'
  BY <1>2, ToTyped DEF Begin, dbVars, Txn
<1>3. ASSUME NEW r \in Replica, Wait(r) PROVE RowsTyped'
  BY <1>3 DEF Wait, dbVars
<1>4. ASSUME NEW r \in Replica, Read(r) PROVE RowsTyped'
  <2>1. txn[r] \in Txn /\ ver[txn[r].row] \in Nat BY DEF Txn
  <2>2. [txn[r] EXCEPT !.seen = ver[txn[r].row], !.step = "read"] \in Txn
    BY <2>1 DEF Txn
  <2> QED BY <1>4, <2>2 DEF Read, dbVars
<1>5. ASSUME NEW r \in Replica, Count(r) PROVE RowsTyped'
  <2>1. [txn[r] EXCEPT !.step = "free"] \in Txn BY DEF Txn
  <2> QED BY <1>5, <2>1 DEF Count, dbVars
<1>6. ASSUME NEW r \in Replica, Update(r) PROVE RowsTyped'
  <2>1. txn[r].row \in Row /\ txn[r].job \in Job BY DEF Txn
  <2>2. \A s \in To(txn[r].job) :
           [txn EXCEPT ![r].step = "wrote", ![r].to = s] \in [Replica -> Txn]
    BY <2>1, ToTyped DEF Txn
  <2>3. CASE Hits(r)
    <3>1. PICK s \in To(txn[r].job) :
             txn' = [txn EXCEPT ![r].step = "wrote", ![r].to = s]
      BY <1>6, <2>3 DEF Update
    <3>2. txn' \in [Replica -> Txn] BY <2>2, <3>1
    <3> QED BY <1>6, <2>1, <2>3, <3>2 DEF Update
  <2>4. CASE ~Hits(r)
    BY <1>6, <2>4 DEF Update
  <2> QED BY <2>3, <2>4
<1>7. ASSUME NEW r \in Replica, Commit(r) PROVE RowsTyped'
  <2>1. txn[r].row \in Row /\ txn[r].to \in {"pending", "running", "ended"}
    BY DEF Txn
  <2> QED BY <1>7, <2>1 DEF Commit
<1>8. ASSUME NEW r \in Replica, Fail(r) PROVE RowsTyped'
  BY <1>8 DEF Fail, RolledBack
<1>9. ASSUME NEW r \in Replica, Crash(r) PROVE RowsTyped'
  BY <1>9 DEF Crash, RolledBack
<1> QED
  BY <1>1, <1>2, <1>3, <1>4, <1>5, <1>6, <1>7, <1>8, <1>9
  DEF Next, vars, dbVars, Enter, Leave, RunOut

(***************************************************************************)
(* Every variable of the lock and of the rows keeps its type; the counters *)
(* of acquire_task_lock and redis_retry stay within their windows.         *)
(***************************************************************************)
THEOREM ClaimsTyped == Spec => []TypeOK
<1>1. Init => TypeOK
  <2> SUFFICES ASSUME Init PROVE TypeOK OBVIOUS
  <2>1. 0 \in 0..(Tries - 1) /\ 0 \in 0..(RedisRetries - 1)
    BY RetryAssumption
  <2>2. LockTypeOK BY <2>1, AnyTaskTyped DEF Init, LockInit, LockTypeOK
  <2> QED BY <2>2, RestTyped DEF Init, TypeOK
<1>2. TypeOK /\ [Next]_vars => TypeOK'
  BY LockTyped, RowsTypedStep DEF TypeOK, RowsTyped
<1> QED BY <1>1, <1>2, PTL DEF Spec

-----------------------------------------------------------------------------
(***************************************************************************)
(* Exclusion                                                               *)
(***************************************************************************)

\* A holder has a token of its own, and it is in the key while its lease lasts.
Held ==
    \A r \in Replica : at[r] = "inside" =>
        /\ token[r] # NoToken
        /\ lease[r] => key[wants[r]] = token[r]

OwnTokens ==
    \A r, s \in Replica :
        (r # s /\ at[r] = "inside" /\ at[s] = "inside") => token[r] # token[s]

LockInv == LockTypeOK /\ Held /\ OwnTokens

\* A replica that leaves takes nothing from the others but its own key.
LEMMA GoOutHeld ==
    ASSUME LockInv, NEW r \in Replica, GoOut(r),
           key' = key \/ (at[r] = "inside" /\ key' = DeleteOwn(r))
    PROVE  Held' /\ OwnTokens'
<1> USE DEF LockInv, LockTypeOK
<1>1. \A s \in Replica : s # r =>
        /\ at'[s] = at[s] /\ token'[s] = token[s]
        /\ wants'[s] = wants[s] /\ lease'[s] = lease[s]
  BY DEF GoOut
<1>2. at'[r] = "out" BY DEF GoOut
<1>3. OwnTokens' BY <1>1, <1>2 DEF OwnTokens
<1>4. Held'
  <2> SUFFICES ASSUME NEW s \in Replica, at'[s] = "inside"
               PROVE  token'[s] # NoToken /\ (lease'[s] => key'[wants'[s]] = token'[s])
    BY DEF Held
  <2>1. s # r BY <1>2
  <2>2. ASSUME lease[s] PROVE key'[wants[s]] = token[s]
    <3>1. key[wants[s]] = token[s] BY <1>1, <2>1, <2>2 DEF Held
    <3>2. CASE key' = key BY <3>1, <3>2
    <3>3. CASE at[r] = "inside" /\ key' = DeleteOwn(r)
      <4>1. token[s] # token[r] BY <1>1, <2>1, <3>3 DEF OwnTokens
      <4> QED BY <3>1, <3>3, <4>1 DEF DeleteOwn
    <3> QED BY <3>2, <3>3
  <2> QED BY <1>1, <2>1, <2>2 DEF Held
<1> QED BY <1>3, <1>4

LEMMA LockInvStep ==
    ASSUME LockInv, [Next]_vars
    PROVE  LockInv'
<1>0. LockTypeOK' BY LockTyped DEF LockInv
<1> SUFFICES Held' /\ OwnTokens' BY <1>0 DEF LockInv
<1> USE DEF LockInv, LockTypeOK
<1>1. ASSUME UNCHANGED lockVars PROVE Held' /\ OwnTokens'
  BY <1>1 DEF lockVars, Held, OwnTokens
<1>2. ASSUME NEW r \in Replica, NEW j \in Job, NEW x \in Row, Begin(r, j, x)
      PROVE  Held' /\ OwnTokens'
  BY <1>2 DEF Begin, Ask, Held, OwnTokens
<1>3. ASSUME NEW r \in Replica, Enter(r) PROVE Held' /\ OwnTokens'
  <2>1. PICK k \in Fresh : /\ key' = [key EXCEPT ![wants[r]] = k]
                           /\ token' = [token EXCEPT ![r] = k]
    BY <1>3 DEF Enter, Acquire
  <2>2. /\ k # NoToken /\ k \in Token
        /\ \A s \in Replica : token[s] # k
    BY <2>1, TokenAssumption DEF Fresh
  <2>3. /\ key[wants[r]] = NoToken
        /\ at' = [at EXCEPT ![r] = "inside"]
        /\ lease' = [lease EXCEPT ![r] = TRUE]
        /\ wants' = wants
    BY <1>3 DEF Enter, Acquire
  <2>4. Held'
    <3> SUFFICES ASSUME NEW s \in Replica, at'[s] = "inside"
                 PROVE  token'[s] # NoToken /\ (lease'[s] => key'[wants'[s]] = token'[s])
      BY DEF Held
    <3>1. CASE s = r BY <2>1, <2>2, <2>3, <3>1
    <3>2. CASE s # r
      <4>1. at[s] = "inside" /\ token'[s] = token[s] /\ wants'[s] = wants[s]
        BY <2>1, <2>3, <3>2
      <4>2. lease'[s] = lease[s] BY <2>3, <3>2
      <4>3. lease[s] => key'[wants[s]] = token[s]
        BY <2>1, <2>3, <4>1 DEF Held
      <4> QED BY <4>1, <4>2, <4>3 DEF Held
    <3> QED BY <3>1, <3>2
  <2>5. OwnTokens' BY <2>1, <2>2, <2>3 DEF OwnTokens
  <2> QED BY <2>4, <2>5
<1>4. ASSUME NEW r \in Replica, Busy(r) PROVE Held' /\ OwnTokens'
  <2>1. CASE GoOut(r) BY <1>4, <2>1, GoOutHeld DEF Busy
  <2>2. CASE ~GoOut(r) BY <1>4, <2>2 DEF Busy, Held, OwnTokens
  <2> QED BY <2>1, <2>2
<1>5. ASSUME NEW r \in Replica, LoseReply(r) PROVE Held' /\ OwnTokens'
  <2>0. \A t \in Task : key[t] # NoToken => key'[t] = key[t]
    BY <1>5 DEF LoseReply
  <2>1. CASE ~GoOut(r)
    BY <1>5, <2>0, <2>1 DEF LoseReply, Held, OwnTokens
  <2>2. CASE GoOut(r)
    <3>1. at'[r] = "out" /\ \A s \in Replica : s # r =>
            /\ at'[s] = at[s] /\ token'[s] = token[s]
            /\ wants'[s] = wants[s] /\ lease'[s] = lease[s]
      BY <2>2 DEF GoOut
    <3>2. Held'
      <4> SUFFICES ASSUME NEW s \in Replica, at'[s] = "inside"
                   PROVE  token'[s] # NoToken /\ (lease'[s] => key'[wants'[s]] = token'[s])
        BY DEF Held
      <4>1. s # r BY <3>1
      <4>2. at[s] = "inside" BY <3>1, <4>1
      <4>3. lease[s] => key'[wants[s]] = token[s] BY <2>0, <4>2 DEF Held
      <4> QED BY <3>1, <4>1, <4>2, <4>3 DEF Held
    <3> QED BY <3>1, <3>2 DEF OwnTokens
  <2> QED BY <2>1, <2>2
<1>6. ASSUME NEW r \in Replica, Leave(r) PROVE Held' /\ OwnTokens'
  BY <1>6, GoOutHeld DEF Leave, Release
<1>7. ASSUME NEW r \in Replica, Crash(r) PROVE Held' /\ OwnTokens'
  BY <1>7, GoOutHeld DEF Crash, Die
<1>8. ASSUME NEW t \in Task, RunOut(t) PROVE Held' /\ OwnTokens'
  <2>1. /\ key' = [key EXCEPT ![t] = NoToken]
        /\ at' = at /\ wants' = wants /\ token' = token
    BY <1>8 DEF RunOut, Expire
  <2>2. \A s \in Replica : lease'[s] => lease[s] /\ token[s] # key[t]
    BY <1>8, Zenon DEF RunOut, Expire
  <2> QED BY <2>1, <2>2 DEF Held, OwnTokens
<1> QED
  BY <1>1, <1>2, <1>3, <1>4, <1>5, <1>6, <1>7, <1>8
  DEF Next, vars, lockVars, Wait, Read, Count, Update, Commit, Fail

(***************************************************************************)
(* Two replicas are in the section of a task together only after a lease   *)
(* has run out, whatever replies Redis loses and whoever dies.             *)
(***************************************************************************)
THEOREM LockExcludes == Spec => []Exclusive
<1>1. Init => LockInv
  <2> SUFFICES ASSUME Init PROVE LockInv OBVIOUS
  <2>1. 0 \in 0..(Tries - 1) /\ 0 \in 0..(RedisRetries - 1)
    BY RetryAssumption
  <2>2. LockTypeOK BY <2>1, AnyTaskTyped DEF Init, LockInit, LockTypeOK
  <2> QED BY <2>2 DEF Init, LockInit, LockInv, Held, OwnTokens
<1>2. LockInv /\ [Next]_vars => LockInv'
  BY LockInvStep
<1>3. LockInv => Exclusive
  BY DEF LockInv, Held, OwnTokens, Exclusive
<1> QED BY <1>1, <1>2, <1>3, PTL DEF Spec

-----------------------------------------------------------------------------
(***************************************************************************)
(* One claim per attempt                                                   *)
(***************************************************************************)

\* A transaction that has written its row is alone with it: nobody else can
\* change what it found there before it commits.
Wrote ==
    \A r \in Replica : txn[r].step = "wrote" =>
        /\ writer[txn[r].row] = r
        /\ st[txn[r].row] = From(txn[r].job)
        /\ txn[r].to \in To(txn[r].job)

ClaimInv == RowsTyped /\ Wrote /\ ClaimedOnce

\* A rollback frees the rows of its replica and no others.
LEMMA RollbackWrote ==
    ASSUME RowsTyped, Wrote, NEW r \in Replica, st' = st,
           writer' = RolledBack(r), txn' = [txn EXCEPT ![r] = Rest]
    PROVE  Wrote'
<1> SUFFICES ASSUME NEW s \in Replica, txn'[s].step = "wrote"
             PROVE  /\ writer'[txn'[s].row] = s
                    /\ st'[txn'[s].row] = From(txn'[s].job)
                    /\ txn'[s].to \in To(txn'[s].job)
  BY DEF Wrote
<1>1. s # r BY DEF RowsTyped, Rest
<1>2. txn'[s] = txn[s] /\ txn[s].row \in Row BY <1>1 DEF RowsTyped, Txn
<1> QED BY <1>1, <1>2 DEF Wrote, RolledBack, RowsTyped

LEMMA ClaimInvStep ==
    ASSUME ClaimInv, [Next]_vars
    PROVE  ClaimInv'
<1>0. RowsTyped' BY RowsTypedStep DEF ClaimInv
<1> SUFFICES Wrote' /\ ClaimedOnce' BY <1>0 DEF ClaimInv
<1> USE DEF ClaimInv, RowsTyped
<1>1. ASSUME UNCHANGED <<dbVars, txn>> PROVE Wrote' /\ ClaimedOnce'
  BY <1>1 DEF dbVars, Wrote, ClaimedOnce
<1>2. ASSUME NEW r \in Replica, UNCHANGED dbVars, NEW d, d.step # "wrote",
             txn' = [txn EXCEPT ![r] = d]
      PROVE  Wrote' /\ ClaimedOnce'
  BY <1>2 DEF dbVars, Wrote, ClaimedOnce
<1>3. ASSUME NEW r \in Replica, NEW j \in Job, NEW x \in Row, Begin(r, j, x)
      PROVE  Wrote' /\ ClaimedOnce'
  BY <1>2, <1>3 DEF Begin
<1>4. ASSUME NEW r \in Replica, Wait(r) PROVE Wrote' /\ ClaimedOnce'
  <2>1. Rest.step # "wrote" BY DEF Rest
  <2> QED BY <1>1, <1>2, <1>4, <2>1 DEF Wait
<1>5. ASSUME NEW r \in Replica, Read(r) \/ Count(r) PROVE Wrote' /\ ClaimedOnce'
  <2>1. UNCHANGED dbVars BY <1>5 DEF Read, Count
  <2>2. /\ \A s \in Replica : s # r => txn'[s] = txn[s]
        /\ txn'[r].step # "wrote"
    <3>1. [txn[r] EXCEPT !.seen = ver[txn[r].row], !.step = "read"].step = "read"
      BY DEF Txn
    <3>2. [txn[r] EXCEPT !.step = "free"].step = "free" BY DEF Txn
    <3>3. Rest.step = "over" BY DEF Rest
    <3>4. CASE Read(r) BY <3>1, <3>3, <3>4 DEF Read
    <3>5. CASE Count(r) BY <3>2, <3>3, <3>5 DEF Count
    <3> QED BY <1>5, <3>4, <3>5
  <2> QED BY <2>1, <2>2 DEF dbVars, Wrote, ClaimedOnce
<1>6. ASSUME NEW r \in Replica, Update(r) PROVE Wrote' /\ ClaimedOnce'
  <2>0. /\ st' = st /\ claims' = claims /\ attempt' = attempt
        /\ writer[txn[r].row] = NoWriter
        /\ txn[r].row \in Row
        /\ \A s \in Replica : txn[s].row \in Row
    BY <1>6 DEF Update, Txn
  <2>1. ClaimedOnce' BY <2>0 DEF ClaimedOnce
  <2>2. CASE Hits(r)
    <3>1. PICK v \in To(txn[r].job) :
             txn' = [txn EXCEPT ![r].step = "wrote", ![r].to = v]
      BY <1>6, <2>2 DEF Update
    <3>2. writer' = [writer EXCEPT ![txn[r].row] = r]
      BY <1>6, <2>2 DEF Update
    <3>3. /\ txn'[r].row = txn[r].row /\ txn'[r].job = txn[r].job /\ txn'[r].to = v
          /\ \A s \in Replica : s # r => txn'[s] = txn[s]
      BY <3>1 DEF Txn
    <3>4. \A s \in Replica : s # r /\ txn[s].step = "wrote" => txn[s].row # txn[r].row
      BY <2>0, RowAssumption DEF Wrote
    <3> QED BY <2>0, <2>1, <2>2, <3>2, <3>3, <3>4 DEF Wrote, Hits
  <2>3. CASE ~Hits(r)
    <3>1. txn' = [txn EXCEPT ![r] = Rest] /\ writer' = writer
      BY <1>6, <2>3 DEF Update
    <3> QED BY <2>0, <2>1, <3>1 DEF Wrote, Rest
  <2> QED BY <2>2, <2>3
<1>7. ASSUME NEW r \in Replica, Commit(r) PROVE Wrote' /\ ClaimedOnce'
  <2> DEFINE x == txn[r].row
  <2>1. /\ x \in Row /\ txn[r].job \in Job /\ txn[r].step = "wrote"
        /\ st[x] = From(txn[r].job) /\ txn[r].to \in To(txn[r].job)
        /\ writer[x] = r
    BY <1>7 DEF Commit, Wrote, Txn
  <2>2. Wrote'
    <3> SUFFICES ASSUME NEW s \in Replica, txn'[s].step = "wrote"
                 PROVE  /\ writer'[txn'[s].row] = s
                        /\ st'[txn'[s].row] = From(txn'[s].job)
                        /\ txn'[s].to \in To(txn'[s].job)
      BY DEF Wrote
    <3>1. txn' = [txn EXCEPT ![r] = Rest] BY <1>7 DEF Commit
    <3>2. s # r BY <3>1 DEF Rest
    <3>3. txn'[s] = txn[s] /\ txn[s].row \in Row BY <3>1, <3>2 DEF Txn
    <3>4. txn[s].row # x BY <2>1, <3>2, <3>3 DEF Wrote
    <3> QED BY <1>7, <2>1, <3>3, <3>4 DEF Commit, Wrote
  <2>3. ClaimedOnce'
    <3> SUFFICES ASSUME NEW y \in Row
                 PROVE  /\ claims'[y] <= attempt'[y]
                        /\ st'[y] = "pending" => claims'[y] < attempt'[y]
      BY DEF ClaimedOnce
    <3>1. CASE y # x BY <1>7, <2>1, <3>1 DEF Commit, ClaimedOnce
    <3>2. CASE y = x
      <4>1. /\ claims[x] \in Nat /\ attempt[x] \in Nat
            /\ claims[x] <= attempt[x]
            /\ st[x] = "pending" => claims[x] < attempt[x]
        BY <2>1 DEF ClaimedOnce
      <4>2. /\ st'[x] = txn[r].to
            /\ attempt'[x] = IF txn[r].job = "retry" THEN attempt[x] + 1 ELSE attempt[x]
            /\ claims'[x] = IF txn[r].to = "running" THEN claims[x] + 1 ELSE claims[x]
        BY <1>7, <2>1 DEF Commit
      <4>3. CASE txn[r].job = "claim"
        BY <2>1, <3>2, <4>1, <4>2, <4>3 DEF From, To
      <4>4. CASE txn[r].job = "settle"
        BY <2>1, <3>2, <4>1, <4>2, <4>4 DEF From, To
      <4>5. CASE txn[r].job = "retry"
        BY <2>1, <3>2, <4>1, <4>2, <4>5 DEF From, To
      <4> QED BY <2>1, <4>3, <4>4, <4>5 DEF Job
    <3> QED BY <3>1, <3>2
  <2> QED BY <2>2, <2>3
<1>8. ASSUME NEW r \in Replica, Fail(r) PROVE Wrote' /\ ClaimedOnce'
  BY <1>8, RollbackWrote DEF Fail, ClaimedOnce
<1>9. ASSUME NEW r \in Replica, Crash(r) PROVE Wrote' /\ ClaimedOnce'
  BY <1>9, RollbackWrote DEF Crash, ClaimedOnce
<1> QED
  BY <1>1, <1>3, <1>4, <1>5, <1>6, <1>7, <1>8, <1>9
  DEF Next, vars, dbVars, Enter, Leave, RunOut

LEMMA InitClaimInv == Init => ClaimInv
<1> SUFFICES ASSUME Init PROVE ClaimInv OBVIOUS
<1>1. RowsTyped BY RestTyped DEF Init, RowsTyped
<1>2. Wrote
  <2>1. Rest.step # "wrote" BY DEF Rest
  <2> QED BY <2>1 DEF Init, Wrote
<1>3. ClaimedOnce BY DEF Init, ClaimedOnce
<1> QED BY <1>1, <1>2, <1>3 DEF ClaimInv

(***************************************************************************)
(* No attempt of a row is given to a runner twice, with any number of      *)
(* replicas in the section of its task: the compare-and-set suffices.      *)
(***************************************************************************)
THEOREM AttemptClaimedOnce == Spec => []ClaimedOnce
<1>1. Init => ClaimInv
  BY InitClaimInv
<1>2. ClaimInv /\ [Next]_vars => ClaimInv'
  BY ClaimInvStep
<1>3. ClaimInv => ClaimedOnce
  BY DEF ClaimInv
<1> QED BY <1>1, <1>2, <1>3, PTL DEF Spec

-----------------------------------------------------------------------------
(***************************************************************************)
(* The soft cap                                                            *)
(***************************************************************************)

\* Replicas that have found a place in bucket b and have not committed.
Entering(b) ==
    {r \in Replica : /\ txn[r].job = "claim"
                     /\ txn[r].step \in {"free", "wrote"}
                     /\ BucketOf[txn[r].row] = b}

\* Those on their way in count too, before they are running.
CapInv ==
    \A b \in Bucket : Limit[b] > 0 =>
        Cardinality(Running(b)) + Cardinality(Entering(b))
            <= Limit[b] + Cardinality(Replica) - 1

SoftInv == ClaimInv /\ CapInv

LEMMA FiniteParts ==
    ASSUME NEW b
    PROVE  /\ IsFiniteSet(Running(b)) /\ Cardinality(Running(b)) \in Nat
           /\ IsFiniteSet(Entering(b)) /\ Cardinality(Entering(b)) \in Nat
           /\ Cardinality(Replica) \in Nat
           /\ Cardinality(Entering(b)) <= Cardinality(Replica)
<1>1. Running(b) \subseteq Row /\ Entering(b) \subseteq Replica
  BY DEF Running, Entering
<1>2. IsFiniteSet(Running(b)) BY <1>1, RowAssumption, FS_Subset
<1>3. /\ IsFiniteSet(Entering(b))
      /\ Cardinality(Entering(b)) <= Cardinality(Replica)
  BY <1>1, ReplicaAssumption, FS_Subset
<1> QED BY <1>2, <1>3, ReplicaAssumption, FS_CardinalityType

\* A bucket that loses rows or transactions stays within its bound.
LEMMA CapShrinks ==
    ASSUME NEW b, Running(b)' \subseteq Running(b), Entering(b)' \subseteq Entering(b)
    PROVE  /\ Cardinality(Running(b)') \in Nat /\ Cardinality(Entering(b)') \in Nat
           /\ Cardinality(Running(b)') <= Cardinality(Running(b))
           /\ Cardinality(Entering(b)') <= Cardinality(Entering(b))
<1>1. /\ IsFiniteSet(Running(b)') /\ Cardinality(Running(b)') <= Cardinality(Running(b))
      /\ IsFiniteSet(Entering(b)') /\ Cardinality(Entering(b)') <= Cardinality(Entering(b))
  BY FiniteParts, FS_Subset
<1> QED BY <1>1, FS_CardinalityType

LEMMA CapStep ==
    ASSUME SoftInv, [Next]_vars
    PROVE  CapInv'
<1> SUFFICES ASSUME NEW b \in Bucket, Limit[b] > 0
             PROVE  Cardinality(Running(b)') + Cardinality(Entering(b)')
                        <= Limit[b] + Cardinality(Replica) - 1
  BY DEF CapInv
<1> DEFINE Goal == Cardinality(Running(b)') + Cardinality(Entering(b)')
                        <= Limit[b] + Cardinality(Replica) - 1
<1>0. /\ Limit[b] \in Int
      /\ Cardinality(Running(b)) + Cardinality(Entering(b))
            <= Limit[b] + Cardinality(Replica) - 1
  BY RowAssumption DEF SoftInv, CapInv
<1>1. ASSUME Running(b)' \subseteq Running(b), Entering(b)' \subseteq Entering(b)
      PROVE  Goal
  BY <1>0, <1>1, CapShrinks, FiniteParts
<1> USE DEF SoftInv, ClaimInv, RowsTyped
<1>2. ASSUME UNCHANGED <<dbVars, txn>> PROVE Goal
  BY <1>1, <1>2 DEF dbVars, Running, Entering
<1>3. ASSUME NEW r \in Replica, st' = st,
             \A s \in Replica : s # r => txn'[s] = txn[s],
             txn'[r].step \notin {"free", "wrote"}
      PROVE  Goal
  BY <1>1, <1>3 DEF Running, Entering
<1>r. Rest.step = "over" BY DEF Rest
<1>4. ASSUME NEW r \in Replica, NEW j \in Job, NEW x \in Row, Begin(r, j, x) PROVE Goal
  BY <1>3, <1>4 DEF Begin, dbVars
<1>5. ASSUME NEW r \in Replica, Wait(r) PROVE Goal
  BY <1>2, <1>3, <1>5, <1>r DEF Wait, dbVars
<1>6. ASSUME NEW r \in Replica, Read(r) PROVE Goal
  <2>1. [txn[r] EXCEPT !.seen = ver[txn[r].row], !.step = "read"].step = "read"
    BY DEF Txn
  <2> QED BY <1>3, <1>6, <1>r, <2>1 DEF Read, dbVars
<1>7. ASSUME NEW r \in Replica, Count(r) PROVE Goal
  <2>0. txn[r].row \in Row /\ st' = st BY <1>7 DEF Count, dbVars, Txn
  <2>1. CASE OverConcurrency(txn[r].row) \/ BucketOf[txn[r].row] # b
    <3>1. /\ [txn[r] EXCEPT !.step = "free"].row = txn[r].row
          /\ \A s \in Replica : s # r => txn'[s] = txn[s]
          /\ txn'[r] = IF OverConcurrency(txn[r].row) THEN Rest
                       ELSE [txn[r] EXCEPT !.step = "free"]
      BY <1>7 DEF Count, Txn
    <3>2. Entering(b)' \subseteq Entering(b)
      BY <2>1, <3>1, <1>r DEF Entering
    <3>3. Running(b)' \subseteq Running(b) BY <2>0 DEF Running
    <3> QED BY <1>1, <3>2, <3>3
  <2>2. CASE ~OverConcurrency(txn[r].row) /\ BucketOf[txn[r].row] = b
    <3>1. Cardinality(Running(b)) < Limit[b]
      BY <2>2, <1>0, FiniteParts DEF OverConcurrency
    <3>2. Running(b)' = Running(b) BY <2>0 DEF Running
    <3>3. Entering(b)' \subseteq Replica BY DEF Entering
    <3>4. /\ Cardinality(Entering(b)') <= Cardinality(Replica)
          /\ Cardinality(Entering(b)') \in Nat
      BY <3>3, ReplicaAssumption, FS_Subset, FS_CardinalityType
    <3> QED BY <1>0, <3>1, <3>2, <3>4, FiniteParts
  <2> QED BY <2>1, <2>2
<1>8. ASSUME NEW r \in Replica, Update(r) PROVE Goal
  <2>1. CASE Hits(r)
    <3>1. PICK v \in To(txn[r].job) :
             txn' = [txn EXCEPT ![r].step = "wrote", ![r].to = v]
      BY <1>8, <2>1 DEF Update
    <3>2. /\ txn'[r].row = txn[r].row /\ txn'[r].job = txn[r].job
          /\ \A s \in Replica : s # r => txn'[s] = txn[s]
      BY <3>1 DEF Txn
    <3>3. txn[r].job = "claim" => txn[r].step = "free" BY <1>8 DEF Update
    <3>4. Entering(b)' \subseteq Entering(b) BY <3>2, <3>3 DEF Entering
    <3>5. Running(b)' \subseteq Running(b) BY <1>8 DEF Update, Running
    <3> QED BY <1>1, <3>4, <3>5
  <2>2. CASE ~Hits(r)
    BY <1>3, <1>8, <1>r, <2>2 DEF Update
  <2> QED BY <2>1, <2>2
<1>9. ASSUME NEW r \in Replica, Commit(r) PROVE Goal
  <2> DEFINE x == txn[r].row
  <2>1. /\ x \in Row /\ txn[r].job \in Job /\ txn[r].step = "wrote"
        /\ txn[r].to \in To(txn[r].job)
    BY <1>9 DEF Commit, Wrote, Txn
  <2>2. /\ st' = [st EXCEPT ![x] = txn[r].to]
        /\ txn' = [txn EXCEPT ![r] = Rest]
    BY <1>9 DEF Commit
  <2>3. Entering(b)' = Entering(b) \ {r}
    BY <2>2, <1>r DEF Entering
  <2>4. CASE txn[r].to # "running" \/ BucketOf[x] # b
    <3>1. Running(b)' \subseteq Running(b) BY <2>1, <2>2, <2>4 DEF Running
    <3> QED BY <1>1, <2>3, <3>1
  <2>5. CASE txn[r].to = "running" /\ BucketOf[x] = b
    <3>1. txn[r].job = "claim" BY <2>1, <2>5 DEF To, Job
    <3>2. r \in Entering(b) BY <2>1, <2>5, <3>1 DEF Entering
    <3>3. Cardinality(Entering(b)') = Cardinality(Entering(b)) - 1
      BY <2>3, <3>2, FiniteParts, FS_RemoveElement
    <3>4. Running(b)' = Running(b) \cup {x}
      BY <2>1, <2>2, <2>5 DEF Running
    <3>5. /\ Cardinality(Running(b)') \in Nat
          /\ Cardinality(Running(b)') <= Cardinality(Running(b)) + 1
      <4>1. IsFiniteSet(Running(b)) /\ Cardinality(Running(b)) \in Nat
        BY FiniteParts
      <4> HIDE DEF x
      <4>2. Cardinality(Running(b) \cup {x}) =
              IF x \in Running(b) THEN Cardinality(Running(b)) ELSE Cardinality(Running(b)) + 1
        BY <4>1, FS_AddElement
      <4> QED BY <3>4, <4>1, <4>2
    <3> QED BY <1>0, <3>3, <3>5, FiniteParts
  <2> QED BY <2>4, <2>5
<1>10. ASSUME NEW r \in Replica, Fail(r) PROVE Goal
  BY <1>3, <1>10, <1>r DEF Fail
<1>11. ASSUME NEW r \in Replica, Crash(r) PROVE Goal
  BY <1>3, <1>11, <1>r DEF Crash
<1> QED
  BY <1>2, <1>4, <1>5, <1>6, <1>7, <1>8, <1>9, <1>10, <1>11
  DEF Next, vars, dbVars, Enter, Leave, RunOut

(***************************************************************************)
(* For any number of replicas and any limit, a bucket never has more than  *)
(* limit + replicas - 1 running rows: each replica is past the count with  *)
(* at most one claim.                                                      *)
(***************************************************************************)
THEOREM CapIsSoft == Spec => []SoftCap
<1>1. Init => SoftInv
  <2> SUFFICES ASSUME Init PROVE SoftInv OBVIOUS
  <2>1. ClaimInv BY InitClaimInv
  <2>2. ASSUME NEW b \in Bucket, Limit[b] > 0
        PROVE  Cardinality(Running(b)) + Cardinality(Entering(b))
                  <= Limit[b] + Cardinality(Replica) - 1
    <3>1. Rest.step = "over" BY DEF Rest
    <3>2. Running(b) = {} /\ Entering(b) = {}
      BY <3>1 DEF Init, Running, Entering
    <3>3. Cardinality(Replica) \in Nat /\ Cardinality(Replica) # 0
      BY ReplicaAssumption, FS_CardinalityType, FS_EmptySet
    <3> QED BY <2>2, <3>2, <3>3, FS_EmptySet, RowAssumption
  <2> QED BY <2>1, <2>2 DEF SoftInv, CapInv
<1>2. SoftInv /\ [Next]_vars => SoftInv'
  BY ClaimInvStep, CapStep DEF SoftInv
<1>3. SoftInv => SoftCap
  <2> SUFFICES ASSUME SoftInv, NEW b \in Bucket, Limit[b] > 0
               PROVE  Cardinality(Running(b)) <= Limit[b] + Cardinality(Replica) - 1
    BY DEF SoftCap
  <2> QED BY FiniteParts, RowAssumption DEF SoftInv, CapInv
<1> QED BY <1>1, <1>2, <1>3, PTL DEF Spec
=============================================================================
