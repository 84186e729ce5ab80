----------------------------- MODULE ChainProofs -----------------------------
(***************************************************************************)
(* For a flow of any size: _detect_cycles reports a cycle exactly when     *)
(* there is one, and the loops of _downstream_chain list the smallest set  *)
(* that follows every enabled edge, each node once, upstreams first where  *)
(* they can be, which is the list TaskCenter computes with.                *)
(***************************************************************************)
EXTENDS DownstreamChain, DownstreamProofs, FiniteSetTheorems, SequenceTheorems

-----------------------------------------------------------------------------
(***************************************************************************)
(* The search.  trail lists the grey nodes once each; whatever ranks the   *)
(* nodes falls along it; while nothing is reported no node of the trail    *)
(* leads back to it, and the black nodes are ranked among themselves.      *)
(***************************************************************************)
Black == {n \in Node : color[n] = "black"}

Ranks(rank) ==
    /\ rank \in [Node -> 1..N]
    /\ \A n \in Node : \A m \in dep[n] \cap Node : rank[m] < rank[n]

SearchType ==
    /\ dep \in [Node -> SUBSET Node]
    /\ color \in [Node -> {"white", "grey", "black"}]
    /\ trail \in Seq(Node)
    /\ issues \in BOOLEAN

TrailIsGrey ==
    /\ \A i \in 1..Len(trail) : color[trail[i]] = "grey"
    /\ \A n \in Grey : \E i \in 1..Len(trail) : trail[i] = n
    /\ \A i, j \in 1..Len(trail) : trail[i] = trail[j] => i = j

TrailDescends ==
    \A rank : Ranks(rank) =>
        \A i, j \in 1..Len(trail) : i < j => rank[trail[j]] < rank[trail[i]]

NoWayBack == \A i, j \in 1..Len(trail) : j <= i => trail[j] \notin dep[trail[i]]

BlackRanked ==
    \E rank \in [Black -> 1..Cardinality(Black)] :
        \A n \in Black : \A m \in dep[n] : m \in Black /\ rank[m] < rank[n]

SearchInv ==
    /\ SearchType /\ TrailIsGrey /\ TrailDescends
    /\ issues => ~Acyclic(dep)
    /\ ~issues => NoWayBack /\ BlackRanked

\* Before the search nothing is on the trail and nothing is black.
LEMMA SearchStarts == SearchInit => SearchInv
<1> SUFFICES ASSUME SearchInit PROVE SearchInv
  OBVIOUS
<1>1. SearchType /\ Len(trail) = 0 /\ ~issues /\ Grey = {} /\ Black = {}
  <2>1. color \in [Node -> {"white", "grey", "black"}] /\ Grey = {} /\ Black = {}
    BY DEF SearchInit, Grey, Black
  <2>2. trail \in Seq(Node) /\ Len(trail) = 0
    BY DEF SearchInit
  <2> QED BY <2>1, <2>2 DEF SearchInit, SearchType
<1>2. TrailIsGrey /\ TrailDescends /\ NoWayBack
  BY <1>1 DEF TrailIsGrey, TrailDescends, NoWayBack
<1>3. BlackRanked
  <2>1. [n \in {} |-> 1] \in [{} -> 1..Cardinality({})]
    OBVIOUS
  <2> QED BY <1>1, <2>1 DEF BlackRanked
<1> QED BY <1>1, <1>2, <1>3 DEF SearchInv

\* The top of a trail that is not empty.
LEMMA TopOnTrail ==
    ASSUME SearchType, trail # <<>>
    PROVE  Len(trail) \in 1..Len(trail) /\ Len(trail) \in Nat /\ Top \in Node
BY DEF SearchType, Top

\* visit(n) of a white node, from the outer loop or from the node on top.
LEMMA VisitKeeps ==
    ASSUME SearchInv, NEW n \in White, Visit(n),
           trail = <<>> \/ (trail # <<>> /\ n \in dep[Top])
    PROVE  SearchInv'
<1> DEFINE L == Len(trail)
<1>1. SearchType /\ n \in Node /\ color[n] = "white" /\ L \in Nat
  BY DEF SearchInv, SearchType, White
<1>2. /\ color' = [color EXCEPT ![n] = "grey"] /\ dep' = dep
      /\ trail' = Append(trail, n) /\ issues' = (issues \/ ClosesCycle(n))
  BY DEF Visit
<1>3. SearchType'
  BY <1>1, <1>2 DEF SearchType
<1>4. /\ Len(trail') = L + 1 /\ trail'[L + 1] = n
      /\ \A i \in 1..L : trail'[i] = trail[i] /\ trail[i] \in Node
  BY <1>1, <1>2 DEF SearchType
<1>5. \A i \in 1..L : color[trail[i]] = "grey" /\ trail[i] # n
  BY <1>1 DEF SearchInv, TrailIsGrey
<1>6. \A i \in 1..L + 1 : i \in 1..L \/ i = L + 1
  BY <1>1
<1>7. Grey' = Grey \cup {n} /\ Black' = Black
  BY <1>1, <1>2 DEF Grey, Black, SearchType
<1>8. TrailIsGrey'
  <2>1. \A i \in 1..L + 1 : color'[trail'[i]] = "grey"
    BY <1>1, <1>2, <1>4, <1>5, <1>6 DEF SearchType
  <2>2. \A m \in Grey' : \E i \in 1..L + 1 : trail'[i] = m
    <3>1. L + 1 \in 1..L + 1 /\ \A i \in 1..L : i \in 1..L + 1
      BY <1>1
    <3> QED BY <1>4, <1>7, <3>1 DEF SearchInv, TrailIsGrey
  <2>3. \A i, j \in 1..L + 1 : trail'[i] = trail'[j] => i = j
    BY <1>4, <1>5, <1>6 DEF SearchInv, TrailIsGrey
  <2> QED BY <1>4, <2>1, <2>2, <2>3 DEF TrailIsGrey
<1>9. \A rank : Ranks(rank) => \A i \in 1..L : rank[n] < rank[trail[i]]
  <2> SUFFICES ASSUME NEW rank, Ranks(rank), NEW i \in 1..L
               PROVE  rank[n] < rank[trail[i]]
    OBVIOUS
  <2>1. trail # <<>> /\ n \in dep[Top]
    BY <1>1 DEF SearchType
  <2>2. Top = trail[L] /\ L \in 1..L /\ Top \in Node
    BY <1>1, <2>1, TopOnTrail DEF Top
  <2>3. rank[n] < rank[trail[L]]
    BY <1>1, <2>1, <2>2 DEF Ranks
  <2>4. i = L \/ rank[trail[L]] < rank[trail[i]]
    BY <1>1, <2>2 DEF SearchInv, TrailDescends
  <2>5. rank[n] \in Int /\ rank[trail[L]] \in Int /\ rank[trail[i]] \in Int
    BY <1>1, <1>4, <2>2, NAssumption DEF Ranks
  <2> QED BY <2>3, <2>4, <2>5
<1>10. \A rank : Ranks(rank)' <=> Ranks(rank)
  BY <1>2 DEF Ranks
<1>11. TrailDescends'
  <2> SUFFICES ASSUME NEW rank, Ranks(rank), NEW i \in 1..L + 1, NEW j \in 1..L + 1, i < j
               PROVE  rank[trail'[j]] < rank[trail'[i]]
    BY <1>4, <1>10 DEF TrailDescends
  <2>1. i \in 1..L
    BY <1>1
  <2>2. CASE j = L + 1
    BY <1>4, <1>9, <2>1, <2>2
  <2>3. CASE j \in 1..L
    BY <1>4, <2>1, <2>3 DEF SearchInv, TrailDescends
  <2> QED BY <1>6, <2>2, <2>3
<1>12. Acyclic(dep) <=> \E rank : Ranks(rank)
  BY DEF Acyclic, Ranks
<1>13. Acyclic(dep)' <=> Acyclic(dep)
  BY <1>2 DEF Acyclic
<1>14. ClosesCycle(n) => ~Acyclic(dep)
  <2> SUFFICES ASSUME ClosesCycle(n), NEW rank, Ranks(rank) PROVE FALSE
    BY <1>12
  <2>1. PICK m \in dep[n] : m \in Grey \/ m = n
    BY DEF ClosesCycle
  <2>2. m \in Node /\ rank[m] < rank[n] /\ rank[m] \in Int /\ rank[n] \in Int
    BY <1>1, <2>1, NAssumption DEF Ranks, SearchType
  <2>3. m # n
    BY <2>2
  <2>4. PICK i \in 1..L : trail[i] = m
    BY <2>1, <2>3 DEF SearchInv, TrailIsGrey
  <2> QED BY <1>9, <2>2, <2>4
<1>15. ASSUME ~issues' PROVE NoWayBack' /\ BlackRanked'
  <2>1. ~issues /\ dep[n] \cap (Grey \cup {n}) = {}
    BY <1>2, <1>15 DEF ClosesCycle
  <2>2. NoWayBack'
    <3> SUFFICES ASSUME NEW i \in 1..L + 1, NEW j \in 1..L + 1, j <= i
                 PROVE  trail'[j] \notin dep[trail'[i]]
      BY <1>2, <1>4 DEF NoWayBack
    <3>1. CASE i = L + 1
      <4>1. trail'[j] \in Grey \cup {n}
        BY <1>1, <1>4, <1>5, <1>6 DEF Grey
      <4> QED BY <1>4, <2>1, <3>1, <4>1
    <3>2. CASE i \in 1..L
      <4>1. j \in 1..L
        BY <1>1, <3>2
      <4> QED BY <1>4, <2>1, <3>2, <4>1 DEF SearchInv, NoWayBack
    <3> QED BY <1>6, <3>1, <3>2
  <2>3. BlackRanked'
    BY <1>2, <1>7, <2>1 DEF SearchInv, BlackRanked
  <2> QED BY <2>2, <2>3
<1> QED BY <1>2, <1>3, <1>8, <1>11, <1>13, <1>14, <1>15 DEF SearchInv

\* visit returns: the node on top has no white target, and none on the trail
\* unless an issue was reported, so it ranks above all that is black.
LEMMA ReturnKeeps ==
    ASSUME SearchInv, VisitReturns
    PROVE  SearchInv'
<1> DEFINE L == Len(trail)
<1>1. SearchType /\ trail # <<>> /\ L \in 1..L /\ L \in Nat /\ Top \in Node /\ Top = trail[L]
  BY TopOnTrail DEF SearchInv, VisitReturns, Top
<1>2. /\ color' = [color EXCEPT ![Top] = "black"] /\ dep' = dep /\ issues' = issues
      /\ trail' = SubSeq(trail, 1, L - 1) /\ dep[Top] \cap White = {}
  BY DEF VisitReturns
<1>3. /\ trail' \in Seq(Node) /\ Len(trail') = L - 1
      /\ \A i \in 1..L - 1 : trail'[i] = trail[i] /\ trail[i] \in Node /\ i \in 1..L /\ i # L
  <2>1. \A i \in 1..L - 1 : i \in 1..L /\ i # L
    BY <1>1
  <2>2. \A i \in 1..L : trail[i] \in Node
    BY <1>1 DEF SearchType
  <2>3. SubSeq(trail, 1, L - 1) \in Seq(Node) /\ Len(SubSeq(trail, 1, L - 1)) = L - 1
    <3>1. 1 \in Int /\ L - 1 \in Int /\ (1 <= L - 1 \/ L - 1 = 0)
      <4>1. L \in Nat /\ L \in 1..L
        BY <1>1
      <4> HIDE DEF L
      <4> QED BY <4>1
    <3>2. \A i \in 1..L - 1 : trail[i] \in Node
      BY <2>1, <2>2
    <3> QED BY <3>1, <3>2, SubSeqProperties
  <2>4. \A i \in 1..L - 1 : SubSeq(trail, 1, L - 1)[i] = trail[i]
    BY <1>1
  <2> QED BY <1>2, <2>1, <2>2, <2>3, <2>4
<1>4. SearchType'
  BY <1>1, <1>2, <1>3 DEF SearchType
<1>5. color[Top] = "grey" /\ \A i \in 1..L - 1 : trail[i] # Top
  BY <1>1, <1>3 DEF SearchInv, TrailIsGrey
<1>6. Grey' = Grey \ {Top} /\ Black' = Black \cup {Top} /\ Top \notin Black
  BY <1>1, <1>2, <1>5 DEF Grey, Black, SearchType
<1>7. TrailIsGrey'
  <2>1. \A i \in 1..L - 1 : color'[trail'[i]] = "grey"
    BY <1>1, <1>2, <1>3, <1>5 DEF SearchInv, TrailIsGrey, SearchType
  <2>2. \A m \in Grey' : \E i \in 1..L - 1 : trail'[i] = m
    <3> TAKE m \in Grey'
    <3>1. PICK i \in 1..L : trail[i] = m /\ m # Top
      BY <1>6 DEF SearchInv, TrailIsGrey
    <3>2. i \in 1..L - 1
      BY <1>1, <3>1
    <3> QED BY <1>3, <3>1, <3>2
  <2>3. \A i, j \in 1..L - 1 : trail'[i] = trail'[j] => i = j
    BY <1>3 DEF SearchInv, TrailIsGrey
  <2> QED BY <1>3, <2>1, <2>2, <2>3 DEF TrailIsGrey
<1>8. TrailDescends'
  <2>1. \A rank : Ranks(rank)' <=> Ranks(rank)
    BY <1>2 DEF Ranks
  <2> SUFFICES ASSUME NEW rank, Ranks(rank), NEW i \in 1..L - 1, NEW j \in 1..L - 1, i < j
               PROVE  rank[trail'[j]] < rank[trail'[i]]
    BY <1>3, <2>1 DEF TrailDescends
  <2> QED BY <1>3 DEF SearchInv, TrailDescends
<1>9. Acyclic(dep)' <=> Acyclic(dep)
  BY <1>2 DEF Acyclic
<1>10. ASSUME ~issues PROVE NoWayBack' /\ BlackRanked'
  <2>1. NoWayBack'
    BY <1>2, <1>3, <1>10 DEF SearchInv, NoWayBack
  <2>2. \A m \in dep[Top] : m \in Black
    <3> TAKE m \in dep[Top]
    <3>1. m \in Node /\ m \notin White
      BY <1>1, <1>2 DEF SearchType
    <3>2. m \notin Grey
      <4> SUFFICES ASSUME NEW j \in 1..L, trail[j] = m PROVE FALSE
        BY DEF SearchInv, TrailIsGrey
      <4>1. j <= L
        BY <1>1
      <4> QED BY <1>1, <1>10, <4>1 DEF SearchInv, NoWayBack
    <3> QED BY <1>1, <3>1, <3>2 DEF SearchType, White, Grey, Black
  <2>3. PICK rank \in [Black -> 1..Cardinality(Black)] :
            \A n \in Black : \A m \in dep[n] : m \in Black /\ rank[m] < rank[n]
    BY <1>10 DEF SearchInv, BlackRanked
  <2> DEFINE C == Cardinality(Black)
             up == [n \in Black \cup {Top} |-> IF n = Top THEN C + 1 ELSE rank[n]]
  <2>4. C \in Nat /\ Cardinality(Black') = C + 1
    <3>1. IsFiniteSet(Node)
      BY FS_Interval, NAssumption DEF Node
    <3>2. Black \in SUBSET Node
      BY DEF Black
    <3>3. IsFiniteSet(Black)
      BY <3>1, <3>2, FS_Subset
    <3> QED BY <1>6, <3>3, FS_CardinalityType, FS_AddElement
  <2>5. \A n \in Black : up[n] = rank[n] /\ rank[n] \in 1..C
    BY <1>6
  <2>6. up[Top] = C + 1
    OBVIOUS
  <2>7. up \in [Black' -> 1..C + 1]
    BY <1>6, <2>4, <2>5, <2>6
  <2>8. \A n \in Black' : \A m \in dep'[n] : m \in Black' /\ up[m] < up[n]
    <3> SUFFICES ASSUME NEW n \in Black', NEW m \in dep[n] PROVE m \in Black' /\ up[m] < up[n]
      BY <1>2
    <3>1. CASE n = Top
      BY <1>6, <2>2, <2>4, <2>5, <2>6, <3>1
    <3>2. CASE n \in Black
      BY <1>6, <2>3, <2>5, <3>2
    <3> QED BY <1>6, <3>1, <3>2
  <2> HIDE DEF up, C
  <2>9. BlackRanked'
    BY <2>4, <2>7, <2>8 DEF BlackRanked
  <2> QED BY <2>1, <2>9
<1> QED BY <1>2, <1>4, <1>7, <1>8, <1>9, <1>10 DEF SearchInv

\* Every step of the search.
LEMMA SearchKeeps ==
    ASSUME SearchInv, Search
    PROVE  SearchInv'
<1>1. CASE VisitRoot
  <2> DEFINE first == CHOOSE n \in White : \A m \in White : n <= m
  <2>1. White \subseteq Nat /\ White # {} /\ trail = <<>> /\ Visit(first)
    BY <1>1, NAssumption DEF VisitRoot, White, Node
  <2>2. first \in White
    BY <2>1, LeastNatural
  <2> QED BY <2>1, <2>2, VisitKeeps
<1>2. ASSUME NEW n \in Node, VisitTarget(n) PROVE SearchInv'
  BY <1>2, VisitKeeps DEF VisitTarget
<1> QED BY <1>1, <1>2, ReturnKeeps DEF Search

\* When the search is over all nodes are black.
LEMMA SearchTells ==
    ASSUME SearchInv
    PROVE  CyclesFound
<1> SUFFICES ASSUME Searched, ~issues PROVE Acyclic(dep)
  BY DEF CyclesFound, SearchInv, SearchType
<1>1. Black = Node
  <2>1. Grey = {} /\ White = {}
    BY DEF SearchInv, TrailIsGrey, Searched
  <2> QED BY <2>1 DEF SearchInv, SearchType, White, Grey, Black
<1>2. Cardinality(Node) = N
  BY FS_Interval, NAssumption DEF Node
<1> QED BY <1>1, <1>2 DEF SearchInv, BlackRanked, Acyclic

-----------------------------------------------------------------------------
(***************************************************************************)
(* The operators of Downstream: sorting a set of nodes, adding a layer to  *)
(* the list, and the rounds of the two recursive functions.                *)
(***************************************************************************)
\* Induction up to a bound, with the property as the set of what has it.
LEMMA UpTo ==
    ASSUME NEW M \in Nat, NEW T, 0 \in T, \A k \in 0..M : k \in T /\ k < M => k + 1 \in T
    PROVE  \A k \in 0..M : k \in T
<1> DEFINE S == {k \in 0..M : k \notin T}
<1>1. CASE S # {}
  <2>1. PICK K \in S : \A y \in S : K <= y
    <3>1. S \subseteq Nat
      OBVIOUS
    <3> HIDE DEF S
    <3> QED BY <1>1, <3>1, LeastNatural
  <2>2. K \in 1..M /\ K - 1 \in 0..M /\ K - 1 < M /\ (K - 1) + 1 = K
    OBVIOUS
  <2>3. K - 1 \in T
    BY <2>1, <2>2
  <2> QED BY <2>2, <2>3
<1> QED BY <1>1

\* Sets of nodes are finite.
LEMMA NodesFinite ==
    ASSUME NEW S \in SUBSET Node
    PROVE  IsFiniteSet(S) /\ Cardinality(S) \in Nat /\ Cardinality(S) <= N
<1>1. IsFiniteSet(Node) /\ Cardinality(Node) = N
  BY FS_Interval, NAssumption DEF Node
<1> QED BY <1>1, FS_Subset, FS_CardinalityType

\* A set of nodes is smaller than one that holds it and more.
LEMMA FewerNodes ==
    ASSUME NEW S \in SUBSET Node, NEW T \in SUBSET S, T # S
    PROVE  Cardinality(T) < Cardinality(S)
<1>1. IsFiniteSet(S) /\ Cardinality(S) \in Nat /\ Cardinality(T) \in Nat
  BY NodesFinite
<1> QED BY <1>1, FS_Subset

Distinct(s) == \A i, j \in DOMAIN s : s[i] = s[j] => i = j

\* sorted() of a set lists what is in it, once each.
LEMMA SortedLists ==
    ASSUME NEW S \in SUBSET Node
    PROVE  /\ Sorted(S) \in Seq(Node) /\ Len(Sorted(S)) = Cardinality(S)
           /\ Elements(Sorted(S)) = S /\ Distinct(Sorted(S))
<1> DEFINE C == Cardinality(S)
           Below(x) == {y \in S : y < x}
           f == [x \in S |-> Cardinality(Below(x))]
<1>1. C \in Nat /\ \A x \in S : x \in Int
  BY NodesFinite, NAssumption DEF Node
<1>2. \A x \in S : Below(x) \in SUBSET S /\ x \notin Below(x)
  BY <1>1
<1>3. \A x \in S : Cardinality(Below(x)) \in 0..C - 1
  <2> TAKE x \in S
  <2>1. Below(x) \in SUBSET S /\ Below(x) # S
    BY <1>2
  <2> HIDE DEF Below
  <2>2. Cardinality(Below(x)) \in Nat /\ Cardinality(Below(x)) < C
    BY <2>1, FewerNodes, NodesFinite
  <2> HIDE DEF C
  <2> QED BY <1>1, <2>2
<1>4. \A x, y \in S : x < y => Cardinality(Below(x)) < Cardinality(Below(y))
  <2> TAKE x, y \in S
  <2> HAVE x < y
  <2>1. Below(x) \in SUBSET Below(y) /\ x \in Below(y) /\ x \notin Below(x)
    BY <1>1
  <2>2. Below(y) \in SUBSET Node
    OBVIOUS
  <2> HIDE DEF Below
  <2> QED BY <2>1, <2>2, FewerNodes
<1>5. f \in [S -> 0..C - 1] /\ \A x \in S : f[x] = Cardinality(Below(x))
  <2> HIDE DEF Below
  <2> QED BY <1>3
<1>6. \A x, y \in S : f[x] = f[y] => x = y
  <2> TAKE x, y \in S
  <2>1. f[x] \in Int /\ f[y] \in Int
    <3> HIDE DEF f
    <3> QED BY <1>5
  <2>2. (x < y => f[x] < f[y]) /\ (y < x => f[y] < f[x])
    <3> HIDE DEF f, Below
    <3> QED BY <1>4, <1>5
  <2> HIDE DEF f
  <2> QED BY <1>1, <2>1, <2>2
<1>7. IsFiniteSet(0..C - 1) /\ Cardinality(0..C - 1) = C
  <2> HIDE DEF C
  <2> QED BY <1>1, FS_Interval
<1>8. f \in Surjection(S, 0..C - 1)
  <2> HIDE DEF f
  <2>1. f \in Injection(S, 0..C - 1)
    BY <1>5, <1>6 DEF Injection, IsInjective
  <2> QED BY <1>7, <2>1, FS_Injection
<1> DEFINE q == Sorted(S)
<1>9. /\ \A i \in 1..C : q[i] = CHOOSE x \in S : Cardinality(Below(x)) = i - 1
      /\ DOMAIN q = 1..C /\ q = [i \in 1..C |-> q[i]]
  <2> DEFINE pick(i) == CHOOSE x \in S : Cardinality(Below(x)) = i - 1
  <2>1. q = [i \in 1..C |-> pick(i)]
    BY Zenon DEF Sorted
  <2> HIDE DEF pick, q
  <2>2. /\ \A i \in 1..C : q[i] = pick(i)
        /\ DOMAIN q = 1..C /\ q = [i \in 1..C |-> q[i]]
    BY <2>1
  <2> QED BY <2>2, Zenon DEF pick
<1>10. \A i \in 1..C : q[i] \in S /\ f[q[i]] = i - 1
  <2> TAKE i \in 1..C
  <2>1. i - 1 \in 0..C - 1
    BY <1>1
  <2>2. \E x \in S : Cardinality(Below(x)) = i - 1
    <3> HIDE DEF f, Below
    <3> QED BY <1>5, <1>8, <2>1 DEF Surjection
  <2> HIDE DEF f, q, Below
  <2> QED BY <1>5, <1>9, <2>2
<1>11. DOMAIN q = 1..C
  BY <1>9
<1> HIDE DEF f, q
<1>12. q \in Seq(Node) /\ Len(q) = C
  <2>1. q \in [1..C -> Node]
    BY <1>9, <1>10
  <2> HIDE DEF C
  <2> QED BY <1>1, <2>1
<1>13. Distinct(q)
  <2> SUFFICES ASSUME NEW i \in 1..C, NEW j \in 1..C, q[i] = q[j] PROVE i = j
    BY <1>11 DEF Distinct
  <2>1. i - 1 = j - 1
    BY <1>10
  <2> QED BY <1>1, <2>1
<1>14. Elements(q) = S
  <2>1. ASSUME NEW x \in S PROVE \E i \in 1..C : q[i] = x
    <3>1. f[x] + 1 \in 1..C /\ (f[x] + 1) - 1 = f[x]
      BY <1>1, <1>5
    <3> QED BY <1>6, <1>10, <3>1
  <2> QED BY <1>10, <1>11, <2>1 DEF Elements
<1> QED BY <1>12, <1>13, <1>14 DEF q

\* What a layer holds.
LEMMA LayerHolds ==
    ASSUME NEW d, NEW s, NEW rest
    PROVE  /\ NextLayer(d, s, rest) \subseteq rest
           /\ rest # {} => NextLayer(d, s, rest) # {}
           /\ \A n \in rest : d[n] \subseteq Elements(s) =>
                \A m \in NextLayer(d, s, rest) : d[m] \subseteq Elements(s)
BY DEF NextLayer

\* One round of "while rest".
WithLayer(d, w, s) == s \o Sorted(NextLayer(d, s, w \ Elements(s)))

LEMMA LayerAdds ==
    ASSUME NEW d, NEW w \in SUBSET Node, NEW s \in Seq(Node)
    PROVE  LET layer == NextLayer(d, s, w \ Elements(s))
               t == WithLayer(d, w, s)
           IN  /\ t \in Seq(Node)
               /\ Len(t) = Len(s) + Cardinality(layer) /\ Cardinality(layer) \in Nat
               /\ Elements(t) = Elements(s) \cup layer
               /\ \A i \in 1..Len(s) : t[i] = s[i]
               /\ \A i \in 1..Len(t) : i > Len(s) => t[i] \in layer
               /\ Distinct(s) => Distinct(t)
<1> DEFINE layer == NextLayer(d, s, w \ Elements(s))
           q == Sorted(layer)
           t == s \o q
           L == Len(s)
           C == Cardinality(layer)
<1>1. layer \in SUBSET Node /\ layer \cap Elements(s) = {}
  BY LayerHolds
<1>2. C \in Nat
  BY <1>1, NodesFinite
<1>3. q \in Seq(Node) /\ Len(q) = C /\ Elements(q) = layer /\ Distinct(q)
  <2> HIDE DEF layer
  <2> QED BY <1>1, SortedLists
<1> HIDE DEF layer, q, C
<1>4. t \in Seq(Node) /\ Len(t) = L + C /\ L \in Nat
  BY <1>3
<1>5. \A i \in 1..L + C : t[i] = IF i <= L THEN s[i] ELSE q[i - L]
  BY <1>3
<1>6. DOMAIN t = 1..L + C /\ DOMAIN s = 1..L /\ DOMAIN q = 1..C
  BY <1>3, <1>4
<1> HIDE DEF t, L
<1>7. \A i \in 1..L + C : i \in 1..L \/ (i > L /\ i - L \in 1..C)
  BY <1>2, <1>4
<1>8. \A i \in 1..L : i \in 1..L + C /\ t[i] = s[i] /\ s[i] \in Elements(s)
  BY <1>2, <1>4, <1>5, <1>6 DEF Elements
<1>9. \A i \in 1..C : L + i \in 1..L + C /\ t[L + i] = q[i] /\ q[i] \in layer
  <2> TAKE i \in 1..C
  <2>1. L + i \in 1..L + C /\ ~(L + i <= L) /\ (L + i) - L = i
    BY <1>2, <1>4
  <2> QED BY <1>3, <1>5, <1>6, <2>1 DEF Elements
<1>10. \A i \in 1..L + C : i > L => t[i] = q[i - L] /\ t[i] \in layer
  <2> SUFFICES ASSUME NEW i \in 1..L + C, i > L PROVE t[i] = q[i - L] /\ t[i] \in layer
    OBVIOUS
  <2>1. i - L \in 1..C /\ L + (i - L) = i
    BY <1>2, <1>4
  <2> QED BY <1>9, <2>1
<1>11. Elements(t) = Elements(s) \cup layer
  <2>1. \A x \in Elements(t) : x \in Elements(s) \cup layer
    BY <1>6, <1>7, <1>8, <1>10 DEF Elements
  <2>2. \A x \in Elements(s) : x \in Elements(t)
    BY <1>6, <1>8 DEF Elements
  <2>3. \A x \in layer : x \in Elements(t)
    <3> TAKE x \in layer
    <3>1. PICK i \in 1..C : q[i] = x
      BY <1>3, <1>6 DEF Elements
    <3>2. L + i \in DOMAIN t /\ t[L + i] = x
      BY <1>6, <1>9, <3>1
    <3> QED BY <3>2 DEF Elements
  <2> QED BY <2>1, <2>2, <2>3
<1>12. Distinct(s) => Distinct(t)
  <2> SUFFICES ASSUME Distinct(s), NEW i \in 1..L + C, NEW j \in 1..L + C, t[i] = t[j] PROVE i = j
    BY <1>6 DEF Distinct
  <2>1. CASE i \in 1..L /\ j \in 1..L
    BY <1>6, <1>8, <2>1 DEF Distinct
  <2>2. CASE i > L /\ j > L
    <3>1. i - L \in 1..C /\ j - L \in 1..C /\ q[i - L] = q[j - L]
      BY <1>2, <1>4, <1>7, <1>10, <2>2
    <3>2. i - L = j - L
      BY <1>3, <1>6, <3>1 DEF Distinct
    <3> QED BY <1>2, <1>4, <3>2
  <2>3. ~(i \in 1..L /\ j > L) /\ ~(j \in 1..L /\ i > L)
    BY <1>1, <1>8, <1>10
  <2> QED BY <1>7, <2>1, <2>2, <2>3
<1> QED BY <1>2, <1>4, <1>8, <1>10, <1>11, <1>12 DEF WithLayer, t, q, layer, L, C

\* A loop whose round maps A into A has a run of N rounds.
LEMMA LoopRuns ==
    ASSUME NEW A, NEW a \in A, NEW g \in [A -> A]
    PROVE  \E f : f = [k \in 0..N |-> IF k = 0 THEN a ELSE g[f[k - 1]]] /\ f \in [0..N -> A]
<1> DEFINE Run(f, K) == f \in [0..K -> A] /\ f[0] = a /\ \A k \in 1..K : f[k] = g[f[k - 1]]
           T == {K \in Nat : \E f : Run(f, K)}
<1>1. 0 \in T
  <2>1. Run([k \in 0..0 |-> a], 0)
    OBVIOUS
  <2> QED BY <2>1
<1>2. ASSUME NEW K \in 0..N, K \in T, K < N PROVE K + 1 \in T
  <2>1. PICK f : Run(f, K)
    BY <1>2
  <2> DEFINE h == [k \in 0..K + 1 |-> IF k = K + 1 THEN g[f[K]] ELSE f[k]]
  <2>2. K \in Nat /\ K \in 0..K /\ f[K] \in A
    BY <2>1, NAssumption
  <2>3. \A k \in 0..K : k \in 0..K + 1 /\ h[k] = f[k] /\ f[k] \in A
    BY <2>1, <2>2
  <2>4. h[K + 1] = g[f[K]] /\ h[K + 1] \in A
    BY <2>2
  <2>5. \A k \in 0..K + 1 : k \in 0..K \/ k = K + 1
    BY <2>2
  <2>6. h \in [0..K + 1 -> A]
    BY <2>3, <2>4, <2>5
  <2>7. h[0] = a
    BY <2>1, <2>2, <2>3
  <2>8. \A k \in 1..K + 1 : h[k] = g[h[k - 1]]
    <3> TAKE k \in 1..K + 1
    <3>1. CASE k = K + 1
      <4>1. h[k - 1] = f[K]
        BY <2>2, <2>3, <3>1
      <4> HIDE DEF h
      <4> QED BY <2>4, <3>1, <4>1
    <3>2. CASE k \in 1..K
      <4>1. h[k] = f[k] /\ h[k - 1] = f[k - 1]
        BY <2>2, <2>3, <3>2
      <4> HIDE DEF h
      <4> QED BY <2>1, <3>2, <4>1
    <3> QED BY <2>2, <3>1, <3>2
  <2> HIDE DEF h
  <2>9. Run(h, K + 1)
    BY <2>6, <2>7, <2>8
  <2> QED BY <2>2, <2>9
<1>3. N \in T
  <2> HIDE DEF T
  <2> QED BY <1>1, <1>2, UpTo, NAssumption
<1>4. PICK f : Run(f, N)
  BY <1>3
<1>5. \A k \in 0..N : f[k] = IF k = 0 THEN a ELSE g[f[k - 1]]
  <2> TAKE k \in 0..N
  <2>1. k = 0 \/ k \in 1..N
    BY NAssumption
  <2> QED BY <1>4, <2>1
<1>6. f = [k \in 0..N |-> f[k]] /\ f \in [0..N -> A]
  BY <1>4
<1>7. f = [k \in 0..N |-> IF k = 0 THEN a ELSE g[f[k - 1]]]
  BY <1>5, <1>6
<1> QED BY <1>6, <1>7

\* f is what the set loop has collected after each round.
IsRounds(f, d, o, s) ==
    f = [k \in 0..N |-> IF k = 0 THEN {s} ELSE Follow(d, o, f[k - 1])]

\* The set loop has a run, and Wanted is the set after its last round.
LEMMA WantedIsRounds ==
    ASSUME NEW d, NEW o, NEW s \in Node
    PROVE  \E f : IsRounds(f, d, o, s) /\ Wanted(d, o, s) = f[N]
<1> DEFINE A == SUBSET Node
           g == [P \in A |-> Follow(d, o, P)]
<1>1. g \in [A -> A] /\ {s} \in A
  BY DEF Follow
<1>2. PICK f : f = [k \in 0..N |-> IF k = 0 THEN {s} ELSE g[f[k - 1]]] /\ f \in [0..N -> A]
  <2> HIDE DEF A, g
  <2> QED BY <1>1, LoopRuns, Zenon
<1>3. \A k \in 0..N : k # 0 => k - 1 \in 0..N
  BY NAssumption
<1>4. \A k \in 0..N : k # 0 => g[f[k - 1]] = Follow(d, o, f[k - 1])
  BY <1>2, <1>3
<1>5. \E h : IsRounds(h, d, o, s)
  <2> HIDE DEF g
  <2>1. \A k \in 0..N : f[k] = IF k = 0 THEN {s} ELSE Follow(d, o, f[k - 1])
    BY <1>2, <1>4
  <2>2. f = [k \in 0..N |-> f[k]]
    BY <1>2
  <2>3. f = [k \in 0..N |-> IF k = 0 THEN {s} ELSE Follow(d, o, f[k - 1])]
    BY <2>1, <2>2
  <2> QED BY <2>3 DEF IsRounds
<1> DEFINE F == CHOOSE h : IsRounds(h, d, o, s)
<1>6. IsRounds(F, d, o, s)
  BY <1>5
<1>7. Wanted(d, o, s) = F[N]
  BY DEF Wanted, IsRounds
<1> QED BY <1>6, <1>7

\* A set the loop has no more to add to.
Settled(d, o, P) == Follow(d, o, P) = P

\* N rounds are enough: Wanted is the smallest set of nodes that holds the
\* start node and follows every enabled edge.
LEMMA WantedIsLeast ==
    ASSUME NEW d, NEW o, NEW s \in Node
    PROVE  /\ Wanted(d, o, s) \in SUBSET Node /\ s \in Wanted(d, o, s)
           /\ Settled(d, o, Wanted(d, o, s))
           /\ \A P \in SUBSET Node : s \in P /\ Settled(d, o, P) => Wanted(d, o, s) \subseteq P
<1>1. PICK f : IsRounds(f, d, o, s) /\ Wanted(d, o, s) = f[N]
  BY WantedIsRounds
<1>2. f[0] = {s} /\ \A k \in 0..N : k < N => f[k + 1] = Follow(d, o, f[k])
  <2>1. \A k \in 0..N : f[k] = IF k = 0 THEN {s} ELSE Follow(d, o, f[k - 1])
    BY <1>1 DEF IsRounds
  <2>2. 0 \in 0..N /\ \A k \in 0..N : k < N => k + 1 \in 0..N /\ k + 1 # 0 /\ (k + 1) - 1 = k
    BY NAssumption
  <2> QED BY <2>1, <2>2
<1>3. N \in 0..N /\ N \in Nat
  BY NAssumption
<1>4. \A k \in 0..N : f[k] \in SUBSET Node /\ s \in f[k]
  <2> DEFINE T == {k \in 0..N : f[k] \in SUBSET Node /\ s \in f[k]}
  <2>1. 0 \in T
    BY <1>2, NAssumption
  <2>2. \A k \in 0..N : k \in T /\ k < N => k + 1 \in T
    BY <1>2, NAssumption DEF Follow
  <2>3. \A k \in 0..N : k \in T
    <3> HIDE DEF T
    <3> QED BY <1>3, <2>1, <2>2, UpTo
  <2> QED BY <2>3
<1>5. ASSUME NEW P \in SUBSET Node, s \in P, Settled(d, o, P) PROVE f[N] \subseteq P
  <2> DEFINE T == {k \in 0..N : f[k] \subseteq P}
  <2>1. 0 \in T
    BY <1>2, <1>5, NAssumption
  <2>2. ASSUME NEW k \in 0..N, k \in T, k < N PROVE k + 1 \in T
    <3>1. Follow(d, o, f[k]) \subseteq Follow(d, o, P)
      BY <2>2 DEF Follow
    <3>2. k + 1 \in 0..N
      BY <2>2, NAssumption
    <3> QED BY <1>2, <1>5, <2>2, <3>1, <3>2 DEF Settled
  <2>3. \A k \in 0..N : k \in T
    <3> HIDE DEF T
    <3> QED BY <1>3, <2>1, <2>2, UpTo
  <2> QED BY <1>3, <2>3
<1>6. Settled(d, o, f[N])
  <2> DEFINE T == {k \in 0..N : Settled(d, o, f[k]) \/ Cardinality(f[k]) > k}
  <2>1. 0 \in T
    <3>1. Cardinality(f[0]) = 1
      BY <1>2, FS_Singleton, Zenon
    <3> QED BY <1>3, <3>1
  <2>2. ASSUME NEW k \in 0..N, k \in T, k < N PROVE k + 1 \in T
    <3>1. k + 1 \in 0..N /\ k \in Nat
      BY <2>2, NAssumption
    <3>2. f[k + 1] = Follow(d, o, f[k])
      BY <1>2, <2>2
    <3>3. CASE Settled(d, o, f[k])
      BY <3>1, <3>2, <3>3 DEF Settled
    <3>4. CASE ~Settled(d, o, f[k])
      <4>1. f[k] \in SUBSET f[k + 1] /\ f[k] # f[k + 1] /\ f[k + 1] \in SUBSET Node
        BY <1>4, <3>1, <3>2, <3>4 DEF Settled, Follow
      <4>2. Cardinality(f[k]) < Cardinality(f[k + 1])
        BY <4>1, FewerNodes
      <4>3. Cardinality(f[k]) \in Nat /\ Cardinality(f[k + 1]) \in Nat
        BY <1>4, <3>1, NodesFinite
      <4>4. Cardinality(f[k]) > k
        BY <2>2, <3>4
      <4>5. Cardinality(f[k + 1]) > k + 1
        BY <3>1, <4>2, <4>3, <4>4
      <4> QED BY <3>1, <4>5
    <3> QED BY <3>3, <3>4
  <2>3. N \in T
    <3> HIDE DEF T
    <3> QED BY <1>3, <2>1, <2>2, UpTo
  <2>4. Cardinality(f[N]) \in Nat /\ Cardinality(f[N]) <= N
    BY <1>3, <1>4, NodesFinite
  <2> QED BY <1>3, <2>3, <2>4
<1> QED BY <1>1, <1>3, <1>4, <1>5, <1>6

\* f is the list after each round of "while rest".
IsLayers(f, d, w, s) ==
    f = [k \in 0..N |-> IF k = 0 THEN <<s>>
                        ELSE f[k - 1] \o Sorted(NextLayer(d, f[k - 1], w \ Elements(f[k - 1])))]

Layers(d, w, s) == CHOOSE f : IsLayers(f, d, w, s)

\* Chain is the list after the last of N rounds.
LEMMA ChainIsLayers ==
    ASSUME NEW d, NEW o, NEW s
    PROVE  Chain(d, o, s) = Layers(d, Wanted(d, o, s), s)[N]
BY DEF Chain, Layers, IsLayers

\* The list loop has a run; a round adds a layer.
LEMMA LayersRun ==
    ASSUME NEW d, NEW w \in SUBSET Node, NEW s \in Node
    PROVE  /\ Layers(d, w, s)[0] = <<s>>
           /\ \A k \in 0..N : k < N =>
                Layers(d, w, s)[k + 1] = WithLayer(d, w, Layers(d, w, s)[k])
<1> DEFINE A == Seq(Node)
           g == [q \in A |-> WithLayer(d, w, q)]
<1>1. g \in [A -> A] /\ <<s>> \in A
  <2>1. \A q \in Seq(Node) : WithLayer(d, w, q) \in Seq(Node)
    BY LayerAdds
  <2> QED BY <2>1
<1>2. PICK f : f = [k \in 0..N |-> IF k = 0 THEN <<s>> ELSE g[f[k - 1]]] /\ f \in [0..N -> A]
  <2> HIDE DEF A, g
  <2> QED BY <1>1, LoopRuns, Zenon
<1>3. \A k \in 0..N : k # 0 => k - 1 \in 0..N
  BY NAssumption
<1>4. \A k \in 0..N : k # 0 => g[f[k - 1]] = WithLayer(d, w, f[k - 1])
  BY <1>2, <1>3
<1>5. \E h : IsLayers(h, d, w, s)
  <2> HIDE DEF g
  <2>1. \A k \in 0..N : f[k] = IF k = 0 THEN <<s>> ELSE WithLayer(d, w, f[k - 1])
    BY <1>2, <1>4
  <2>2. f = [k \in 0..N |-> f[k]]
    BY <1>2
  <2>3. f = [k \in 0..N |-> IF k = 0 THEN <<s>> ELSE WithLayer(d, w, f[k - 1])]
    BY <2>1, <2>2
  <2> QED BY <2>3 DEF IsLayers, WithLayer
<1> DEFINE F == Layers(d, w, s)
<1>6. F = [k \in 0..N |-> IF k = 0 THEN <<s>> ELSE WithLayer(d, w, F[k - 1])]
  <2>1. IsLayers(F, d, w, s)
    BY <1>5 DEF Layers
  <2> HIDE DEF F
  <2> QED BY <2>1 DEF IsLayers, WithLayer
<1> HIDE DEF F
<1>7. 0 \in 0..N /\ \A k \in 0..N : k < N => k + 1 \in 0..N /\ k + 1 # 0 /\ (k + 1) - 1 = k
  BY NAssumption
<1>8. \A k \in 0..N : F[k] = IF k = 0 THEN <<s>> ELSE WithLayer(d, w, F[k - 1])
  BY <1>6
<1>9. F[0] = <<s>> /\ \A k \in 0..N : k < N => F[k + 1] = WithLayer(d, w, F[k])
  BY <1>7, <1>8
<1> QED BY <1>9 DEF F

\* Once all is listed the list stays.
LEMMA LayersEnd ==
    ASSUME NEW d, NEW w \in SUBSET Node, NEW s \in Node, NEW j \in 0..N,
           Layers(d, w, s)[j] \in Seq(Node), w \subseteq Elements(Layers(d, w, s)[j])
    PROVE  Layers(d, w, s)[N] = Layers(d, w, s)[j]
<1> DEFINE F == Layers(d, w, s)
           q == F[j]
           T == {k \in 0..N : k >= j => F[k] = q}
<1>1. WithLayer(d, w, q) = q
  <2> HIDE DEF F
  <2>1. w \ Elements(q) = {}
    BY DEF F
  <2>2. NextLayer(d, q, w \ Elements(q)) = {}
    BY <2>1, LayerHolds
  <2>3. Sorted({}) = <<>>
    <3>1. Sorted({}) \in Seq(Node) /\ Len(Sorted({})) = 0
      BY SortedLists, FS_EmptySet
    <3> QED BY <3>1, EmptySeq
  <2>4. q \in Seq(Node)
    BY DEF F
  <2> HIDE DEF q
  <2> QED BY <2>2, <2>3, <2>4, ConcatEmptySeq DEF WithLayer
<1>2. 0 \in T
  BY NAssumption
<1>3. ASSUME NEW k \in 0..N, k \in T, k < N PROVE k + 1 \in T
  <2>1. k + 1 \in 0..N /\ k \in Int /\ j \in Int
    BY <1>3, NAssumption
  <2>2. F[k + 1] = WithLayer(d, w, F[k])
    BY <1>3, LayersRun
  <2> HIDE DEF F
  <2>3. k + 1 = j => F[k + 1] = q
    OBVIOUS
  <2>4. k >= j => F[k + 1] = q
    <3> HIDE DEF q
    <3> QED BY <1>1, <1>3, <2>2
  <2>5. k + 1 >= j => k >= j \/ k + 1 = j
    BY <2>1
  <2> HIDE DEF q
  <2> QED BY <2>1, <2>3, <2>4, <2>5
<1>4. N \in T
  <2> HIDE DEF T
  <2>1. N \in Nat /\ N \in 0..N
    BY NAssumption
  <2> QED BY <1>2, <1>3, <2>1, UpTo
<1> QED BY <1>4, NAssumption

-----------------------------------------------------------------------------
(***************************************************************************)
(* The loops of _downstream_chain, on a flow that passed the search.  What *)
(* is wanted is in every closed set and never below the start node in any  *)
(* ranking; the list has come about layer by layer from it.                *)
(***************************************************************************)
\* No node of wanted but the start waits for a node outside.
Whole == \A n \in wanted \ {start} : dep[n] \subseteq wanted

UpstreamListed ==
    \A i \in 1..Len(order) : i > 1 =>
        \A m \in dep[order[i]] : \E j \in 1..Len(order) : j < i /\ order[j] = m

WantedInv ==
    /\ start \in Node /\ wanted \in SUBSET Node /\ start \in wanted
    /\ \A S \in SUBSET Node : Closed(S) => wanted \subseteq S
    /\ \A rank : Ranks(rank) => \A n \in wanted : rank[start] <= rank[n]

OrderInv ==
    /\ order \in Seq(Node) /\ Len(order) >= 1 /\ order[1] = start
    /\ Elements(order) \subseteq wanted
    /\ Distinct(order)
    /\ Whole => UpstreamListed
    /\ \E k \in 0..N : /\ order = Layers(dep, wanted, start)[k]
                       /\ k < Cardinality(Elements(order))

ChainInv ==
    /\ SearchInv
    /\ pc \in {"validate", "expand", "layer", "done"}
    /\ pc # "validate" => Acyclic(dep) /\ WantedInv
    /\ pc = "expand" => order = <<start>>
    /\ pc \in {"layer", "done"} => Follow(dep, on, wanted) = wanted /\ OrderInv
    /\ pc = "done" => Elements(order) = wanted

\* The search goes on while nothing else has begun.
LEMMA ChainValidate ==
    ASSUME ChainInv, Validate
    PROVE  ChainInv'
BY SearchKeeps DEF ChainInv, Validate

\* What was found of the flow holds as long as the flow and the search stay.
LEMMA SearchStays ==
    ASSUME SearchInv, UNCHANGED <<dep, searchVars>>
    PROVE  SearchInv' /\ (Acyclic(dep)' <=> Acyclic(dep)) /\ \A rank : Ranks(rank)' <=> Ranks(rank)
<1>1. dep' = dep /\ color' = color /\ trail' = trail /\ issues' = issues
  BY DEF searchVars
<1>2. Grey' = Grey /\ Black' = Black /\ Acyclic(dep)' = Acyclic(dep)
  BY <1>1 DEF Grey, Black, Acyclic
<1>3. \A rank : Ranks(rank)' <=> Ranks(rank)
  BY <1>1 DEF Ranks
<1>4. SearchType' /\ TrailIsGrey' /\ TrailDescends' /\ (~issues => NoWayBack' /\ BlackRanked')
  BY <1>1, <1>2, <1>3
     DEF SearchInv, SearchType, TrailIsGrey, TrailDescends, NoWayBack, BlackRanked
<1> QED BY <1>1, <1>2, <1>3, <1>4 DEF SearchInv

\* A flow without an issue is published and a step of its run picked.
LEMMA ChainPublished ==
    ASSUME ChainInv, Published
    PROVE  ChainInv'
<1>1. /\ SearchInv /\ Searched /\ ~issues /\ UNCHANGED <<dep, searchVars>>
      /\ start' \in Node /\ pc' = "expand" /\ wanted' = {start'} /\ order' = <<start'>>
  BY DEF ChainInv, Published
<1>2. Acyclic(dep)
  BY <1>1, SearchTells DEF CyclesFound
<1>3. SearchInv' /\ Acyclic(dep)'
  BY <1>1, <1>2, SearchStays
<1>4. WantedInv'
  <2>1. \A rank : Ranks(rank)' => rank[start'] <= rank[start']
    BY <1>1, NAssumption DEF Ranks
  <2> QED BY <1>1, <2>1 DEF WantedInv, Closed
<1> QED BY <1>1, <1>3, <1>4 DEF ChainInv

\* The set loop takes a candidate in: it is in every closed set, and ranks
\* above an upstream that was wanted.
LEMMA ChainExpand ==
    ASSUME ChainInv, NEW c \in Node, Expand(c)
    PROVE  ChainInv'
<1>1. /\ SearchInv /\ pc = "expand" /\ WantedInv /\ Acyclic(dep) /\ order = <<start>>
      /\ UNCHANGED <<dep, searchVars>> /\ UNCHANGED <<on, start, pc, order>>
      /\ wanted' = wanted \cup {c}
  BY DEF ChainInv, Expand
<1>2. PICK d \in dep[c] \cap wanted : on[d]
  BY DEF Expand
<1>3. SearchInv' /\ Acyclic(dep)' /\ \A rank : Ranks(rank)' <=> Ranks(rank)
  BY <1>1, SearchStays
<1>4. \A S \in SUBSET Node : Closed(S)' => wanted' \subseteq S
  <2> SUFFICES ASSUME NEW S \in SUBSET Node, Closed(S) PROVE wanted' \subseteq S
    BY <1>1 DEF Closed
  <2>1. wanted \subseteq S
    BY <1>1 DEF WantedInv
  <2>2. c \in Follow(dep, on, S)
    BY <1>2, <2>1 DEF Follow
  <2> QED BY <1>1, <2>1, <2>2 DEF Closed
<1>5. \A rank : Ranks(rank)' => \A n \in wanted' : rank[start'] <= rank[n]
  <2> SUFFICES ASSUME NEW rank, Ranks(rank), NEW n \in wanted \cup {c} PROVE rank[start] <= rank[n]
    BY <1>1, <1>3
  <2>1. CASE n \in wanted
    BY <1>1, <2>1 DEF WantedInv
  <2>2. CASE n = c
    <3>1. d \in Node /\ rank[d] < rank[c] /\ rank[start] <= rank[d]
      BY <1>1, <1>2 DEF WantedInv, Ranks
    <3>2. rank[d] \in Int /\ rank[c] \in Int /\ rank[start] \in Int
      BY <1>1, <3>1, NAssumption DEF Ranks, WantedInv
    <3> QED BY <2>2, <3>1, <3>2
  <2> QED BY <2>1, <2>2
<1>6. WantedInv'
  BY <1>1, <1>4, <1>5 DEF WantedInv
<1> QED BY <1>1, <1>3, <1>6 DEF ChainInv

\* A round that changed nothing ends the set loop; the list is the start node.
LEMMA ChainExpanded ==
    ASSUME ChainInv, Expanded
    PROVE  ChainInv'
<1>1. /\ SearchInv /\ WantedInv /\ Acyclic(dep) /\ order = <<start>>
      /\ UNCHANGED <<dep, searchVars>> /\ UNCHANGED <<on, start, wanted, order>>
      /\ pc' = "layer" /\ Follow(dep, on, wanted) = wanted
  BY DEF ChainInv, Expanded
<1>2. SearchInv' /\ Acyclic(dep)' /\ \A rank : Ranks(rank)' <=> Ranks(rank)
  BY <1>1, SearchStays
<1>3. dep' = dep /\ on' = on /\ start' = start /\ wanted' = wanted /\ order' = order
  BY <1>1
<1>4. WantedInv'
  <2>1. \A S \in SUBSET Node : Closed(S)' <=> Closed(S)
    BY <1>3 DEF Closed
  <2> QED BY <1>1, <1>2, <1>3, <2>1 DEF WantedInv
<1>5. OrderInv
  <2>1. start \in Node /\ start \in wanted /\ wanted \in SUBSET Node
    BY <1>1 DEF WantedInv
  <2>2. order \in Seq(Node) /\ Len(order) = 1 /\ order[1] = start /\ DOMAIN order = 1..1
    BY <1>1, <2>1
  <2>3. Elements(order) = {start} /\ Distinct(order) /\ UpstreamListed
    BY <2>2 DEF Elements, Distinct, UpstreamListed
  <2>4. 0 \in 0..N /\ order = Layers(dep, wanted, start)[0] /\ 0 < Cardinality(Elements(order))
    <3>1. Cardinality({start}) = 1
      BY FS_Singleton, Zenon
    <3>2. Layers(dep, wanted, start)[0] = <<start>>
      BY <2>1, LayersRun
    <3>3. 0 \in 0..N
      BY NAssumption
    <3>4. 0 < Cardinality(Elements(order))
      BY <2>3, <3>1
    <3> QED BY <1>1, <3>2, <3>3, <3>4
  <2> QED BY <2>1, <2>2, <2>3, <2>4 DEF OrderInv
<1>6. OrderInv'
  BY <1>3, <1>5 DEF OrderInv, Whole, UpstreamListed
<1> QED BY <1>1, <1>2, <1>3, <1>4, <1>6 DEF ChainInv

\* When no node of wanted waits for a node outside, a step of what is left
\* waits for none of the others: the next layer is one by the book.
LEMMA LayerThere ==
    ASSUME SearchType, Acyclic(dep), WantedInv, OrderInv, Whole, Rest # {}
    PROVE  \A m \in NextLayer(dep, order, Rest) : dep[m] \subseteq Elements(order)
<1>1. Rest \subseteq Node /\ start \in Elements(order)
  <2>1. 1 \in DOMAIN order
    BY DEF OrderInv
  <2> QED BY <2>1 DEF WantedInv, OrderInv, Rest, Elements
<1>2. PICK n \in Rest : \A m \in Rest : m \notin dep[n]
  BY <1>1, AcyclicHasSource
<1>3. dep[n] \subseteq wanted
  BY <1>1, <1>2 DEF Whole, Rest
<1>4. dep[n] \subseteq Elements(order)
  BY <1>2, <1>3 DEF Rest
<1> QED BY <1>2, <1>4 DEF NextLayer

\* A layer is appended.
LEMMA ChainLayer ==
    ASSUME ChainInv, Layer
    PROVE  ChainInv'
<1>1. /\ SearchInv /\ WantedInv /\ Acyclic(dep) /\ OrderInv /\ pc = "layer" /\ Rest # {}
      /\ UNCHANGED <<dep, searchVars>> /\ UNCHANGED <<on, start, pc, wanted>>
      /\ order' = WithLayer(dep, wanted, order) /\ Follow(dep, on, wanted) = wanted
  BY DEF ChainInv, Layer, WithLayer, Rest
<1>2. SearchInv' /\ Acyclic(dep)' /\ \A rank : Ranks(rank)' <=> Ranks(rank)
  BY <1>1, SearchStays
<1>3. dep' = dep /\ on' = on /\ start' = start /\ wanted' = wanted /\ pc' = "layer"
  BY <1>1
<1>4. WantedInv'
  <2>1. \A S \in SUBSET Node : Closed(S)' <=> Closed(S)
    BY <1>3 DEF Closed
  <2> QED BY <1>1, <1>2, <1>3, <2>1 DEF WantedInv
<1> DEFINE layer == NextLayer(dep, order, Rest)
           L == Len(order)
<1>5. /\ start \in Node /\ wanted \in SUBSET Node /\ order \in Seq(Node) /\ L \in Nat /\ L >= 1
      /\ Elements(order) \subseteq wanted /\ Distinct(order)
  BY <1>1 DEF WantedInv, OrderInv
<1>6. /\ order' \in Seq(Node)
      /\ Len(order') = L + Cardinality(layer) /\ Cardinality(layer) \in Nat
      /\ Elements(order') = Elements(order) \cup layer
      /\ \A i \in 1..L : order'[i] = order[i]
      /\ \A i \in 1..Len(order') : i > L => order'[i] \in layer
      /\ Distinct(order')
  <2> DEFINE t == WithLayer(dep, wanted, order)
             lay == NextLayer(dep, order, wanted \ Elements(order))
  <2>1. /\ t \in Seq(Node)
        /\ Len(t) = L + Cardinality(lay) /\ Cardinality(lay) \in Nat
        /\ Elements(t) = Elements(order) \cup lay
        /\ \A i \in 1..L : t[i] = order[i]
        /\ \A i \in 1..Len(t) : i > L => t[i] \in lay
        /\ Distinct(order) => Distinct(t)
    BY <1>5, LayerAdds
  <2>2. layer = lay /\ order' = t
    BY <1>1 DEF Rest
  <2> HIDE DEF t, lay, layer, L
  <2> QED BY <1>5, <2>1, <2>2
<1>7. layer \subseteq Rest /\ layer # {}
  BY <1>1, LayerHolds
<1>8. /\ Len(order') >= 1 /\ order'[1] = start' /\ Elements(order') \subseteq wanted'
  <2>1. Elements(order') \subseteq wanted'
    BY <1>3, <1>5, <1>6, <1>7 DEF Rest
  <2>2. 1 \in 1..L
    BY <1>5
  <2>3. order'[1] = start'
    BY <1>1, <1>3, <1>6, <2>2 DEF OrderInv
  <2> HIDE DEF L, layer
  <2>4. Len(order') >= 1
    BY <1>5, <1>6
  <2> QED BY <2>1, <2>3, <2>4
<1>9. ASSUME Whole' PROVE UpstreamListed'
  <2>1. Whole /\ UpstreamListed
    BY <1>1, <1>3, <1>9 DEF Whole, OrderInv
  <2>2. \A m \in layer : dep[m] \subseteq Elements(order)
    BY <1>1, <2>1, LayerThere DEF SearchInv
  <2> HIDE DEF layer
  <2> SUFFICES ASSUME NEW i \in 1..Len(order'), i > 1, NEW m \in dep[order'[i]]
               PROVE  \E j \in 1..Len(order') : j < i /\ order'[j] = m
    BY <1>3 DEF UpstreamListed
  <2>3. \A j \in 1..L : j \in 1..Len(order')
    <3> HIDE DEF L
    <3> QED BY <1>5, <1>6
  <2>4. CASE i \in 1..L
    <3>1. PICK j \in 1..L : j < i /\ order[j] = m
      BY <1>6, <2>1, <2>4 DEF UpstreamListed
    <3> QED BY <1>6, <2>3, <3>1
  <2>5. CASE i > L
    <3>1. m \in Elements(order)
      BY <1>6, <2>2, <2>5
    <3>2. PICK j \in 1..L : order[j] = m
      BY <1>5, <3>1 DEF Elements
    <3>3. j < i
      <4> HIDE DEF L
      <4> QED BY <1>5, <1>6, <2>5
    <3> QED BY <1>6, <2>3, <3>2, <3>3
  <2>6. i \in 1..L \/ i > L
    <3> HIDE DEF L
    <3> QED BY <1>5, <1>6
  <2> QED BY <2>4, <2>5, <2>6
<1>10. \E k \in 0..N : /\ order' = Layers(dep, wanted, start)[k]
                       /\ k < Cardinality(Elements(order'))
  <2>1. PICK k \in 0..N : /\ order = Layers(dep, wanted, start)[k]
                          /\ k < Cardinality(Elements(order))
    BY <1>1 DEF OrderInv
  <2>2. Elements(order') \in SUBSET wanted /\ Elements(order) \in SUBSET Elements(order')
    BY <1>3, <1>6, <1>8
  <2>3. Elements(order) # Elements(order')
    BY <1>6, <1>7 DEF Rest
  <2>4. Cardinality(Elements(order)) < Cardinality(Elements(order'))
    BY <1>5, <2>2, <2>3, FewerNodes
  <2>5. Cardinality(Elements(order)) \in Nat /\ Cardinality(Elements(order')) \in Nat
        /\ Cardinality(Elements(order')) <= N
    BY <1>5, <2>2, NodesFinite
  <2>6. k < N /\ k + 1 \in 0..N /\ k + 1 < Cardinality(Elements(order'))
    BY <2>1, <2>4, <2>5, NAssumption
  <2>7. order' = Layers(dep, wanted, start)[k + 1]
    BY <1>1, <1>5, <2>1, <2>6, LayersRun
  <2> QED BY <2>6, <2>7
<1>11. OrderInv'
  BY <1>3, <1>6, <1>8, <1>9, <1>10 DEF OrderInv
<1> QED BY <1>1, <1>2, <1>3, <1>4, <1>11 DEF ChainInv

\* Nothing is left.
LEMMA ChainReturn ==
    ASSUME ChainInv, Return \/ UNCHANGED vars
    PROVE  ChainInv'
<1>1. /\ UNCHANGED <<dep, searchVars>> /\ UNCHANGED <<on, start, wanted, order>>
      /\ pc' = pc \/ (pc = "layer" /\ pc' = "done" /\ Rest = {})
  BY DEF Return, vars, searchVars
<1>2. /\ SearchInv' /\ (Acyclic(dep) => Acyclic(dep)')
      /\ \A rank : Ranks(rank)' <=> Ranks(rank)
  BY <1>1, SearchStays DEF ChainInv
<1>3. dep' = dep /\ on' = on /\ start' = start /\ wanted' = wanted /\ order' = order
  BY <1>1
<1>4. WantedInv => WantedInv'
  <2>1. \A S \in SUBSET Node : Closed(S)' <=> Closed(S)
    BY <1>3 DEF Closed
  <2> QED BY <1>2, <1>3, <2>1 DEF WantedInv
<1>5. OrderInv => OrderInv'
  BY <1>3 DEF OrderInv, Whole, UpstreamListed
<1>6. OrderInv /\ Rest = {} => Elements(order) = wanted
  BY DEF OrderInv, Rest
<1> QED BY <1>1, <1>2, <1>3, <1>4, <1>5, <1>6 DEF ChainInv

LEMMA ChainInvariant == Spec => []ChainInv
<1>1. Init => ChainInv
  BY SearchStarts DEF Init, ChainInv
<1>2. ChainInv /\ [Next]_vars => ChainInv'
  BY ChainValidate, ChainPublished, ChainExpand, ChainExpanded, ChainLayer, ChainReturn DEF Next
<1> QED BY <1>1, <1>2, PTL DEF Spec

\* _detect_cycles reports a cycle of a flow of any size exactly when there is
\* one.
THEOREM SearchCorrect == Spec => []CyclesFound
<1>1. ChainInv => CyclesFound
  BY SearchTells DEF ChainInv
<1> QED BY <1>1, ChainInvariant, PTL

\* _downstream_chain lists the smallest set that holds the start node and
\* follows every enabled edge, each node once.
THEOREM ChainCorrect == Spec => []ChainExact
<1>1. ChainInv => ChainExact
  <2> SUFFICES ASSUME ChainInv, pc = "done"
               PROVE  /\ Elements(order) = {n \in Node : \A S \in SUBSET Node : Closed(S) => n \in S}
                      /\ \A i, j \in DOMAIN order : order[i] = order[j] => i = j
    BY DEF ChainExact
  <2>1. WantedInv /\ OrderInv /\ Follow(dep, on, wanted) = wanted /\ Elements(order) = wanted
    BY DEF ChainInv
  <2>2. Closed(wanted) /\ wanted \in SUBSET Node
    BY <2>1 DEF Closed, WantedInv
  <2>3. wanted = {n \in Node : \A S \in SUBSET Node : Closed(S) => n \in S}
    BY <2>1, <2>2 DEF WantedInv
  <2> QED BY <2>1, <2>3 DEF OrderInv, Distinct
<1> QED BY <1>1, ChainInvariant, PTL

\* The list of _downstream_chain is in topological order when no node of it
\* but the start waits for a node outside it.
THEOREM OrderCorrect == Spec => []TopologicalWhenClosed
<1>1. ChainInv => TopologicalWhenClosed
  <2> SUFFICES ASSUME ChainInv, pc = "done", Whole,
                      NEW i \in DOMAIN order, NEW j \in DOMAIN order, i < j,
                      order[j] \in dep[order[i]]
               PROVE  FALSE
    BY DEF TopologicalWhenClosed, UpstreamFirst, Whole
  <2>1. SearchType /\ WantedInv /\ OrderInv /\ Acyclic(dep) /\ UpstreamListed
    BY DEF ChainInv, OrderInv, SearchInv
  <2>2. DOMAIN order = 1..Len(order) /\ Len(order) \in Nat /\ order[1] = start
    BY <2>1 DEF OrderInv
  <2>3. CASE i > 1
    <3>1. PICK k \in 1..Len(order) : k < i /\ order[k] = order[j]
      BY <2>1, <2>2, <2>3 DEF UpstreamListed
    <3>2. k = j
      BY <2>1, <2>2, <3>1 DEF OrderInv, Distinct
    <3> QED BY <2>2, <3>1, <3>2
  <2>4. CASE i = 1
    <3>1. order[j] \in wanted /\ order[j] \in Node /\ start \in Node /\ order[j] \in dep[start]
      BY <2>1, <2>2, <2>4 DEF OrderInv, Elements, WantedInv
    <3>2. PICK rank : Ranks(rank)
      BY <2>1 DEF Acyclic, Ranks
    <3>3. rank[order[j]] < rank[start] /\ rank[start] <= rank[order[j]]
      BY <2>1, <3>1, <3>2 DEF Ranks, WantedInv
    <3>4. rank[order[j]] \in Int /\ rank[start] \in Int
      BY <3>1, <3>2, NAssumption DEF Ranks
    <3> QED BY <3>3, <3>4
  <2>5. i > 1 \/ i = 1
    BY <2>2
  <2> QED BY <2>3, <2>4, <2>5
<1> QED BY <1>1, ChainInvariant, PTL

\* What the loops of _downstream_chain return is what TaskCenter takes for
\* it: N rounds of each loop are enough, and more rounds add nothing.
THEOREM AgreementCorrect == Spec => []ChainAgrees
<1>1. ChainInv => ChainAgrees
  <2> SUFFICES ASSUME ChainInv, pc = "done" PROVE order = Chain(dep, on, start)
    BY DEF ChainAgrees
  <2>1. /\ start \in Node /\ wanted \in SUBSET Node /\ start \in wanted
        /\ Follow(dep, on, wanted) = wanted /\ Elements(order) = wanted /\ order \in Seq(Node)
        /\ \A S \in SUBSET Node : Closed(S) => wanted \subseteq S
    BY DEF ChainInv, WantedInv, OrderInv
  <2>2. wanted = Wanted(dep, on, start)
    <3> DEFINE W == Wanted(dep, on, start)
    <3>1. /\ W \in SUBSET Node /\ start \in W /\ Settled(dep, on, W)
          /\ \A P \in SUBSET Node : start \in P /\ Settled(dep, on, P) => W \subseteq P
      BY <2>1, WantedIsLeast
    <3> HIDE DEF W
    <3>2. W \subseteq wanted
      BY <2>1, <3>1 DEF Settled
    <3>3. wanted \subseteq W
      BY <2>1, <3>1 DEF Settled, Closed
    <3> QED BY <3>2, <3>3 DEF W
  <2>3. PICK k \in 0..N : order = Layers(dep, wanted, start)[k]
    BY DEF ChainInv, OrderInv
  <2>4. Layers(dep, wanted, start)[N] = order
    BY <2>1, <2>3, LayersEnd
  <2> QED BY <2>2, <2>4, ChainIsLayers
<1> QED BY <1>1, ChainInvariant, PTL
=============================================================================
