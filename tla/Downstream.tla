----------------------------- MODULE Downstream -----------------------------
(***************************************************************************)
(* The dependency graph of one run of a task, and the functions            *)
(* task_service.py computes on it.  A graph is a function dep that maps a  *)
(* node to the set of nodes in its depends_on.  Nodes are numbers because  *)
(* the code sorts node ids by name: the order of the numbers is the order  *)
(* of the names.                                                           *)
(***************************************************************************)
EXTENDS Naturals, Sequences, FiniteSets

CONSTANT N                      \* number of nodes of the flow

ASSUME NAssumption == N \in Nat \ {0}

Node == 1..N

(***************************************************************************)
(* What _detect_cycles of flow_validator.py looks for (the search itself   *)
(* is in FlowValidator): a graph has no cycle iff its nodes can be ranked  *)
(* with every upstream strictly below its downstream.                      *)
(***************************************************************************)
Acyclic(dep) ==
    \E rank \in [Node -> 1..N] :
        \A n \in Node : \A m \in dep[n] \cap Node : rank[m] < rank[n]

\* sorted(S) of a set of node ids.
Sorted(S) ==
    [i \in 1..Cardinality(S) |->
        CHOOSE x \in S : Cardinality({y \in S : y < x}) = i - 1]

Elements(s) == {s[i] : i \in DOMAIN s}

(***************************************************************************)
(* task_service.py: _downstream_chain.  The start node and everything that *)
(* depends on it through nodes whose switch (downstream_on_retry or        *)
(* downstream_on_stop) is on.  One round of the code's while loop adds the *)
(* nodes with a selected upstream that says "follow"; N rounds reach the   *)
(* fixed point.                                                            *)
(***************************************************************************)
Follow(dep, on, picked) ==
    picked \cup {c \in Node : \E d \in dep[c] \cap picked : on[d]}

\* Mutant: only the direct downstreams follow.
WantedDirect(dep, on, start) == Follow(dep, on, {start})

Wanted(dep, on, start) ==
    LET round[k \in 0..N] ==
            IF k = 0 THEN {start} ELSE Follow(dep, on, round[k - 1])
    IN  round[N]

(***************************************************************************)
(* The order of the list: layer by layer, a layer being the remaining      *)
(* nodes all of whose upstreams are already listed; when no node qualifies *)
(* the rest is appended sorted by name.                                    *)
(***************************************************************************)
\* Mutant: one listed upstream is enough.
NextLayerGreedy(dep, order, rest) ==
    LET layer == {n \in rest : dep[n] \cap Elements(order) # {}}
    IN  IF layer = {} THEN rest ELSE layer

NextLayer(dep, order, rest) ==
    LET layer == {n \in rest : dep[n] \subseteq Elements(order)}
    IN  IF layer = {} THEN rest ELSE layer

Chain(dep, on, start) ==
    LET want == Wanted(dep, on, start)
        order[k \in 0..N] ==
            IF k = 0 THEN <<start>>
            ELSE LET rest == want \ Elements(order[k - 1])
                 IN  order[k - 1] \o Sorted(NextLayer(dep, order[k - 1], rest))
    IN  order[N]

(***************************************************************************)
(* RunContext.downstream_closure: the nodes reached along next_steps.      *)
(***************************************************************************)
DownstreamClosure(nxt, start) ==
    LET reach[k \in 0..N] ==
            IF k = 0 THEN nxt[start]
            ELSE reach[k - 1] \cup UNION {nxt[m] : m \in reach[k - 1]}
    IN  reach[N]
=============================================================================
