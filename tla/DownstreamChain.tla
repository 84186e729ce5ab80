--------------------------- MODULE DownstreamChain ---------------------------
(***************************************************************************)
(* task_service.py: _downstream_chain as the loops it is, over every flow  *)
(* of N nodes that passes the validation, every setting of the switch and  *)
(* every start node.  TaskCenter uses Downstream!Chain for its result.     *)
(***************************************************************************)
EXTENDS FlowValidator

VARIABLES
    on,         \* the switch of every node
    start,      \* the node the user clicked
    pc,         \* which loop is running
    wanted,     \* the set loop's result so far
    order       \* the list built so far

vars == <<dep, color, trail, issues, on, start, pc, wanted, order>>

\* Any graph may be handed in for publication.
Init ==
    /\ SearchInit
    /\ on = [n \in Node |-> FALSE]
    /\ start = 1
    /\ pc = "validate"
    /\ wanted = {} /\ order = <<>>

Validate ==
    /\ pc = "validate"
    /\ Search
    /\ UNCHANGED <<on, start, pc, wanted, order>>

\* No issue: the flow is published with any switches on which the upstreams of
\* a node agree (N23), run, and a step of the run is retried or stopped.
Published ==
    /\ pc = "validate"
    /\ Searched /\ ~issues
    /\ on' \in {f \in [Node -> BOOLEAN] :
                  \A n \in Node : \A l, m \in dep[n] : f[l] = f[m]}
    /\ start' \in Node
    /\ pc' = "expand"
    /\ wanted' = {start'}
    /\ order' = <<start'>>
    /\ UNCHANGED <<dep, searchVars>>

\* Mutant: the switch of the upstream is not read.
ExpandAnyway(c) ==
    /\ pc = "expand"
    /\ c \notin wanted
    /\ dep[c] \cap wanted # {}
    /\ wanted' = wanted \cup {c}
    /\ UNCHANGED <<dep, searchVars, on, start, pc, order>>

\* The for loop inside "while changed" takes one more candidate in.
Expand(c) ==
    /\ pc = "expand"
    /\ c \notin wanted
    /\ \E d \in dep[c] \cap wanted : on[d]
    /\ wanted' = wanted \cup {c}
    /\ UNCHANGED <<dep, searchVars, on, start, pc, order>>

\* A whole round changed nothing.
Expanded ==
    /\ pc = "expand"
    /\ Follow(dep, on, wanted) = wanted
    /\ pc' = "layer"
    /\ UNCHANGED <<dep, searchVars, on, start, wanted, order>>

Rest == wanted \ Elements(order)

\* "while rest": the next layer, or all that is left when there is none.
Layer ==
    /\ pc = "layer"
    /\ Rest # {}
    /\ order' = order \o Sorted(NextLayer(dep, order, Rest))
    /\ UNCHANGED <<dep, searchVars, on, start, pc, wanted>>

Return ==
    /\ pc = "layer"
    /\ Rest = {}
    /\ pc' = "done"
    /\ UNCHANGED <<dep, searchVars, on, start, wanted, order>>

Next ==
    \/ Validate \/ Published
    \/ (\E c \in Node : Expand(c)) \/ Expanded \/ Layer \/ Return

Spec == Init /\ [][Next]_vars

-----------------------------------------------------------------------------
Closed(S) == start \in S /\ Follow(dep, on, S) = S

\* The list names each node of the smallest set that holds the start node and
\* follows every enabled edge, and names it once (docstring of
\* _downstream_chain: "the start and the downstreams that depend on it").
ChainExact ==
    pc = "done" =>
        /\ Elements(order) = {n \in Node : \A S \in SUBSET Node : Closed(S) => n \in S}
        /\ \A i, j \in DOMAIN order : order[i] = order[j] => i = j

UpstreamFirst == \A i, j \in DOMAIN order : i < j => order[j] \notin dep[order[i]]

\* The list is in topological order when no node of it but the start waits
\* for a node outside it, whatever the names are.
TopologicalWhenClosed ==
    /\ pc = "done"
    /\ \A n \in wanted \ {start} : dep[n] \subseteq wanted
    => UpstreamFirst

\* The loops compute what TaskCenter takes for their result.
ChainAgrees == pc = "done" => order = Chain(dep, on, start)
=============================================================================
