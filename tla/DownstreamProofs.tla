-------------------------- MODULE DownstreamProofs --------------------------
(***************************************************************************)
(* What an acyclic dependency graph gives: of any set of steps, one waits  *)
(* for none of the others; and what the loop of downstream_closure finds.  *)
(* A recursive function is got hold of by the least round at which a run   *)
(* of the loop would fail to exist.                                        *)
(***************************************************************************)
EXTENDS Downstream, WellFoundedInduction, TLAPS

\* A set of naturals that is not empty has a least element.
LEMMA LeastNatural ==
    ASSUME NEW S, S \subseteq Nat, S # {}
    PROVE  \E x \in S : \A y \in S : x <= y
<1> DEFINE R == OpToRel(<, Nat)
<1>1. IsWellFoundedOn(R, Nat)
  BY NatLessThanWellFounded
<1>2. PICK x \in S : \A y \in S : ~(<<y, x>> \in R)
  <2> HIDE DEF R
  <2> QED BY <1>1, WFMin
<1>3. \A y \in S : ~(y < x)
  BY <1>2 DEF OpToRel
<1> QED BY <1>3

\* Of any nodes of a flow without a cycle, one waits for none of the others.
LEMMA AcyclicHasSource ==
    ASSUME NEW dep, Acyclic(dep), NEW P, P \subseteq Node, P # {}
    PROVE  \E n \in P : \A m \in P : m \notin dep[n]
<1>1. PICK rank \in [Node -> 1..N] :
          \A n \in Node : \A m \in dep[n] \cap Node : rank[m] < rank[n]
  BY DEF Acyclic
<1> DEFINE S == {rank[n] : n \in P}
<1>2. S \subseteq Nat /\ S # {}
  BY <1>1, NAssumption
<1>3. PICK x \in S : \A y \in S : x <= y
  <2> HIDE DEF S
  <2> QED BY <1>2, LeastNatural
<1>4. PICK n \in P : x = rank[n]
  OBVIOUS
<1>5. \A m \in P : rank[m] \in 1..N /\ rank[n] <= rank[m]
  BY <1>1, <1>3, <1>4
<1>6. \A m \in P : m \in dep[n] => rank[m] < rank[n]
  BY <1>1
<1>7. \A m \in P : m \notin dep[n]
  BY <1>1, <1>5, <1>6, NAssumption
<1> QED BY <1>7

\* f is what the loop of downstream_closure has collected after each round.
IsReach(f, nxt, start) ==
    f = [k \in 0..N |-> IF k = 0 THEN nxt[start]
                        ELSE f[k - 1] \cup UNION {nxt[m] : m \in f[k - 1]}]

\* The loop of downstream_closure has a run: each round extends the one before.
LEMMA ReachExists ==
    ASSUME NEW nxt, NEW start
    PROVE  \E f : IsReach(f, nxt, start)
<1> DEFINE Upto(f, K) == f = [k \in 0..K |-> IF k = 0 THEN nxt[start]
                        ELSE f[k - 1] \cup UNION {nxt[m] : m \in f[k - 1]}]
           S == {K \in Nat : ~ \E f : Upto(f, K)}
<1>1. CASE S = {}
  BY <1>1, NAssumption DEF IsReach
<1>2. CASE S # {}
  <2>1. PICK K \in S : \A y \in S : K <= y
    <3>1. S \subseteq Nat
      OBVIOUS
    <3> HIDE DEF S
    <3> QED BY <1>2, <3>1, LeastNatural
  <2>2. K # 0
    <3>1. Upto([k \in 0..0 |-> nxt[start]], 0)
      OBVIOUS
    <3> QED BY <3>1
  <2>3. K - 1 \in Nat /\ K - 1 \notin S
    <3>1. K \in Nat
      OBVIOUS
    <3> HIDE DEF S
    <3> QED BY <2>1, <2>2, <3>1
  <2>4. PICK f : Upto(f, K - 1)
    <3>1. \E f : Upto(f, K - 1)
      <4> HIDE DEF Upto
      <4> QED BY <2>3
    <3> QED BY <3>1
  <2> DEFINE g == [k \in 0..K |-> IF k = K THEN f[K - 1] \cup UNION {nxt[m] : m \in f[K - 1]} ELSE f[k]]
  <2>5. \A k \in 0..K-1 : f[k] = IF k = 0 THEN nxt[start]
                        ELSE f[k - 1] \cup UNION {nxt[m] : m \in f[k - 1]}
    BY <2>4
  <2>6. \A k \in 0..K : g[k] = IF k = 0 THEN nxt[start]
                        ELSE g[k - 1] \cup UNION {nxt[m] : m \in g[k - 1]}
    <3> TAKE k \in 0..K
    <3>1. CASE k = K
      <4>1. g[k] = f[K - 1] \cup UNION {nxt[m] : m \in f[K - 1]}
        BY <3>1
      <4>2. g[k - 1] = f[K - 1]
        BY <2>1, <2>2, <3>1
      <4> HIDE DEF g
      <4> QED BY <2>2, <3>1, <4>1, <4>2
    <3>2. CASE k # K
      <4>1. k \in 0..K-1 /\ g[k] = f[k]
        BY <2>1, <3>2
      <4>2. k # 0 => g[k - 1] = f[k - 1]
        BY <2>1, <3>2
      <4> QED BY <2>5, <4>1, <4>2
    <3> QED BY <3>1, <3>2
  <2>7. Upto(g, K)
    <3>1. g = [k \in 0..K |-> g[k]]
      OBVIOUS
    <3> HIDE DEF g
    <3> QED BY <2>6, <3>1
  <2> QED BY <2>7
<1> QED BY <1>1, <1>2

\* downstream_closure returns what its loop has collected in the last round.
LEMMA ClosureIsReach ==
    ASSUME NEW nxt, NEW start
    PROVE  \E f : IsReach(f, nxt, start) /\ DownstreamClosure(nxt, start) = f[N]
<1> DEFINE F == CHOOSE f : IsReach(f, nxt, start)
<1>1. IsReach(F, nxt, start)
  BY ReachExists
<1>2. DownstreamClosure(nxt, start) = F[N]
  BY DEF DownstreamClosure, IsReach
<1> QED BY <1>1, <1>2

\* What follows a step directly is in its closure: the rounds only collect.
LEMMA DirectInClosure ==
    ASSUME NEW nxt, NEW start
    PROVE  nxt[start] \subseteq DownstreamClosure(nxt, start)
<1>1. PICK f : IsReach(f, nxt, start) /\ DownstreamClosure(nxt, start) = f[N]
  BY ClosureIsReach
<1>2. \A k \in 0..N : f[k] = IF k = 0 THEN nxt[start]
                        ELSE f[k - 1] \cup UNION {nxt[m] : m \in f[k - 1]}
  BY <1>1 DEF IsReach
<1> DEFINE S == {k \in 0..N : ~(nxt[start] \subseteq f[k])}
<1>3. CASE S # {}
  <2>1. PICK K \in S : \A y \in S : K <= y
    <3>1. S \subseteq Nat
      BY NAssumption
    <3> HIDE DEF S
    <3> QED BY <1>3, <3>1, LeastNatural
  <2>2. K # 0
    BY <1>2, NAssumption
  <2>3. K - 1 \in 0..N /\ K - 1 \notin S
    BY <2>1, <2>2, NAssumption
  <2> QED BY <1>2, <2>1, <2>2, <2>3
<1>4. CASE S = {}
  BY <1>1, <1>4, NAssumption
<1> QED BY <1>3, <1>4
=============================================================================
