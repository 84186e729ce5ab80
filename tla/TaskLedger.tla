----------------------------- MODULE TaskLedger -----------------------------
(***************************************************************************)
(* What the task center promises of a task, without saying how: a ledger   *)
(* with a line for every attempt of every step of every run.  A line is    *)
(* opened, perhaps begun, ended, and never touched again; lines are opened *)
(* only while the task is closed and begun only while it is open, in the   *)
(* newest run; what ends late in an older run leaves the task alone; a     *)
(* task that is gone has no work under way and changes no more.            *)
(***************************************************************************)
EXTENDS Naturals

CONSTANTS Step, Runs, Tries

Line   == Runs \X Step \X Tries
Ends   == {"success", "failed", "timeout", "stopped"}

VARIABLES
    entry,      \* what every line says
    open,       \* the task is at work
    gone        \* the task was deleted

vars == <<entry, open, gone>>

\* e is in the newest run there is.
Newest(e) == \A f \in Line : f[1] > e[1] => entry[f] = "none"

Init ==
    /\ entry = [e \in Line |-> IF e[1] = 1 /\ e[3] = 1 THEN "pending" ELSE "none"]
    /\ open = TRUE
    /\ gone = FALSE

Write(E, v) == entry' = [e \in Line |-> IF e \in E THEN v ELSE entry[e]]

Begin(e) ==
    /\ open /\ ~gone /\ Newest(e)
    /\ entry[e] = "pending"
    /\ Write({e}, "running")
    /\ UNCHANGED <<open, gone>>

\* Work ends in one way; what never began may be given up together.  The task
\* may be closed with it when it is the newest run's.
End(E, v) ==
    /\ ~gone
    /\ \A e \in E : entry[e] \in {"pending", "running"}
    /\ v = "success" => \A e \in E : entry[e] = "running"
    /\ (\E e \in E : entry[e] = "running") => \E e \in E : E = {e}
    /\ Write(E, v)
    /\ open' = open \/ (~open' /\ \A e \in E : Newest(e))
    /\ UNCHANGED gone

Close ==
    /\ open /\ ~gone
    /\ open' = FALSE
    /\ UNCHANGED <<entry, gone>>

\* One more attempt of steps that have ended, or a new run of them all.
Again(E) ==
    /\ ~open /\ ~gone
    /\ \A e \in E : entry[e] = "none"
    /\ \/ \A e \in E : Newest(e) /\ e[3] > 1 /\ entry[<<e[1], e[2], e[3] - 1>>] \in Ends
       \/ \E r \in Runs : /\ E = {r} \X Step \X {1}
                          /\ \A f \in Line : (f[1] < r <=> entry[<<f[1], f[2], 1>>] # "none")
    /\ Write(E, "pending")
    /\ open' = TRUE
    /\ UNCHANGED gone

Discard ==
    /\ ~gone
    /\ \A e \in Line : entry[e] # "running" /\ (open => entry[e] # "pending")
    /\ gone' = TRUE
    /\ UNCHANGED <<entry, open>>

Next ==
    \/ \E e \in Line : Begin(e)
    \/ \E E \in (SUBSET Line) \ {{}} : Again(E) \/ \E v \in Ends : End(E, v)
    \/ Close
    \/ Discard

Spec == Init /\ [][Next]_vars
=============================================================================
