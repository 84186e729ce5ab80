--------------------------- MODULE FlowValidator ---------------------------
(***************************************************************************)
(* flow_validator.py: _detect_cycles, the depth-first search that keeps    *)
(* cycles of dependencies (N1) and of references (N10) out of a published  *)
(* flow.  visit colours a node grey, looks at its targets, and colours it  *)
(* black; trail is its call stack.  The targets of a node are listed in    *)
(* any order, the nodes in that of their numbers.                          *)
(***************************************************************************)
EXTENDS Downstream

VARIABLES
    dep,        \* edges: depends_on of every node
    color,      \* white, grey, black
    trail,      \* nodes whose visit has not returned
    issues      \* a cycle was reported

searchVars == <<color, trail, issues>>

White == {n \in Node : color[n] = "white"}
Grey  == {n \in Node : color[n] = "grey"}

SearchInit ==
    /\ dep \in [Node -> SUBSET Node]
    /\ color = [n \in Node |-> "white"]
    /\ trail = <<>>
    /\ issues = FALSE

\* Mutant: two colours only, so that a finished node counts as one on the trail.
ClosesOnVisited(n) == dep[n] \cap ((Node \ White) \cup {n}) # {}

(***************************************************************************)
(* A target that is grey closes a cycle.  The grey nodes are those of the  *)
(* trail whenever the loop of n is in control, so it makes no difference   *)
(* that the loop comes to the target later; n itself is grey by then.      *)
(***************************************************************************)
ClosesCycle(n) == dep[n] \cap (Grey \cup {n}) # {}

Visit(n) ==
    /\ color' = [color EXCEPT ![n] = "grey"]
    /\ trail' = Append(trail, n)
    /\ issues' = (issues \/ ClosesCycle(n))
    /\ UNCHANGED dep

Top == trail[Len(trail)]

\* The outer loop: the next node that is white.
VisitRoot ==
    /\ trail = <<>> /\ White # {}
    /\ Visit(CHOOSE n \in White : \A m \in White : n <= m)

\* The inner loop comes to a white target.
VisitTarget(n) ==
    /\ trail # <<>>
    /\ n \in dep[Top] \cap White
    /\ Visit(n)

\* All targets were looked at: visit returns.
VisitReturns ==
    /\ trail # <<>>
    /\ dep[Top] \cap White = {}
    /\ color' = [color EXCEPT ![Top] = "black"]
    /\ trail' = SubSeq(trail, 1, Len(trail) - 1)
    /\ UNCHANGED <<dep, issues>>

Search == VisitRoot \/ (\E n \in Node : VisitTarget(n)) \/ VisitReturns

Searched == trail = <<>> /\ White = {}

-----------------------------------------------------------------------------
(***************************************************************************)
(* The search reports a cycle exactly when there is one: its nodes cannot  *)
(* be ranked.  FlowAssumption of TaskCenter, and with it the theorems on   *)
(* settling, rests on this.                                                *)
(***************************************************************************)
CyclesFound == Searched => (issues <=> ~Acyclic(dep))
=============================================================================
