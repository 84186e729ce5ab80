------------------------------- MODULE MCPair -------------------------------
(***************************************************************************)
(* Two nodes in a row, 1 -> 2; 2 binds an output of 1.                     *)
(***************************************************************************)
EXTENDS TaskRefinement

PairDeps == <<{}, {1}>>
PairRefs == <<{}, {1}>>
PairOn   == <<TRUE, TRUE>>

(***************************************************************************)
(* Users who only stop the task and run it again: what becomes of the rows *)
(* that were running when it was stopped.                                  *)
(***************************************************************************)
StopAndRerun ==
    (\E p \in Replica : Scheduler(p)) \/ Runner \/ Clock \/ StopTask \/ RetryTask

StopAndRerunSpec ==
    /\ Init /\ [][StopAndRerun]_vars
    /\ LoopFairness
    /\ SF_vars(AbsorbHeld)
=============================================================================
