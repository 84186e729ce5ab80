--------------------------- MODULE TaskRefinement ---------------------------
(***************************************************************************)
(* TaskCenter implements TaskLedger: the lines are the history rows of the *)
(* attempts, the task is open while its status is an active one.           *)
(***************************************************************************)
EXTENDS TaskCenter

Ledger == INSTANCE TaskLedger WITH
    Step  <- Node,
    Runs  <- Run,
    Tries <- Try,
    entry <- [e \in Execution |-> hist[e[1]][e[2]][e[3]]],
    open  <- status \in TaskActive,
    gone  <- deleted

(***************************************************************************)
(* Whatever the passes of the replicas, late calls and reports, missed     *)
(* updates and the users' operations do to the rows, the attempt history   *)
(* and the task's status together only ever make the moves of the ledger.  *)
(***************************************************************************)
ImplementsLedger == Ledger!Spec
=============================================================================
