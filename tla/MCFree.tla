------------------------------- MODULE MCFree -------------------------------
(***************************************************************************)
(* Two nodes without a dependency, one of which binds an output of the     *)
(* other: an edge appears only when a batch retry puts one behind the      *)
(* other.                                                                  *)
(***************************************************************************)
EXTENDS TaskCenter

FreeDeps == <<{}, {}>>
FreeRefs == <<{}, {1}>>
FreeOn   == <<TRUE, TRUE>>

\* Users who do not delete the task.
Kept ==
    \/ \E p \in Replica : Scheduler(p)
    \/ Runner
    \/ Clock
    \/ StopTask
    \/ \E n \in Node : StopSubtask(n)
    \/ \E n \in Node : RetrySubtask(n)
    \/ \E s \in Batches : RetrySubtasks(s)

KeptSpec == Init /\ [][Kept]_vars
=============================================================================
