------------------------ MODULE DecisionPaths_proofs ------------------------
(***************************************************************************)
(* Proofs, for decisions of any size, that the completed BDD computes the  *)
(* short-circuit expression, that path indexes stand for evaluations, that *)
(* what Visit records of the paths is what evaluations do, and that the    *)
(* design of the path indexes computes the same.                           *)
(***************************************************************************)
EXTENDS MCDC, IndexedDecision, DecisionBDD_proofs, WellFoundedInduction, FunctionTheorems

----------------------------------------------------------------------------
(* Induction and recursion over ranks.                                     *)

LEMMA Least ==
  ASSUME NEW T \in SUBSET Nat, T # {}
  PROVE  \E m \in T : \A n \in T : m <= n
<1> DEFINE R == OpToRel(<, Nat)
<1>1. IsWellFoundedOn(R, Nat)
  BY NatLessThanWellFounded
<1>2. \A x, y \in Nat : x < y => <<x, y>> \in R
  BY DEF OpToRel
<1> HIDE DEF R
<1>3. PICK m \in T : \A n \in T : ~(<<n, m>> \in R)
  BY <1>1, WFMin
<1>4. ASSUME NEW n \in T PROVE m <= n
  <2>1. n \in Nat /\ m \in Nat
    OBVIOUS
  <2>2. ~(n < m)
    BY <1>2, <1>3, <2>1
  <2> QED
    BY <2>1, <2>2
<1> QED
  BY <1>4

\* A set that contains whatever has all that ranks below it contains all
LEMMA RankInduction ==
  ASSUME NEW S, NEW rank \in [S -> Nat], NEW P,
         \A x \in S : (\A y \in S : rank[y] < rank[x] => y \in P) => x \in P
  PROVE  S \subseteq P
<1> SUFFICES ASSUME NEW z \in S, z \notin P PROVE FALSE
  OBVIOUS
<1>1. PICK T : T = {rank[x] : x \in {y \in S : y \notin P}}
  OBVIOUS
<1>2. T \in SUBSET Nat /\ T # {}
  BY <1>1
<1>3. PICK m \in T : \A n \in T : m <= n
  BY <1>2, Least
<1>4. PICK x \in S : x \notin P /\ rank[x] = m
  BY <1>1, <1>3
<1>5. ASSUME NEW y \in S, rank[y] < rank[x] PROVE y \in P
  <2> SUFFICES ASSUME y \notin P PROVE FALSE
    OBVIOUS
  <2>1. rank[y] \in T
    BY <1>1
  <2>2. rank[y] \in Nat /\ rank[x] \in Nat
    OBVIOUS
  <2> QED
    BY <1>3, <1>4, <1>5, <2>1, <2>2
<1> QED
  BY <1>4, <1>5

\* G defines the values of a function from values of a lower rank
LooksBelow(G, S, V, rank) ==
  /\ G \in [[S -> V] -> [S -> V]]
  /\ \A f, g \in [S -> V], x \in S :
       (\A y \in S : rank[y] < rank[x] => f[y] = g[y]) => G[f][x] = G[g][x]

LEMMA RankRecursion ==
  ASSUME NEW S, NEW V, NEW v \in V, NEW B \in Nat, NEW rank \in [S -> 0..B],
         NEW G, LooksBelow(G, S, V, rank)
  PROVE  \E f \in [S -> V] : f = G[f]
<1>0. /\ G \in [[S -> V] -> [S -> V]]
      /\ \A f, g \in [S -> V], x \in S :
           (\A y \in S : rank[y] < rank[x] => f[y] = g[y]) => G[f][x] = G[g][x]
  BY DEF LooksBelow
<1> DEFINE Upto(k) == \E f \in [S -> V] : \A x \in S : rank[x] < k => f[x] = G[f][x]
<1>1. Upto(0)
  <2>1. [x \in S |-> v] \in [S -> V]
    OBVIOUS
  <2>2. \A x \in S : ~(rank[x] < 0)
    OBVIOUS
  <2> QED
    BY <2>1, <2>2
<1>2. ASSUME NEW k \in Nat, Upto(k) PROVE Upto(k + 1)
  <2>1. PICK f \in [S -> V] : \A x \in S : rank[x] < k => f[x] = G[f][x]
    BY <1>2
  <2>2. PICK h \in [S -> V] : h = G[f]
    BY <1>0
  <2>3. ASSUME NEW x \in S, rank[x] < k + 1 PROVE h[x] = G[h][x]
    <3>1. ASSUME NEW y \in S, rank[y] < rank[x] PROVE f[y] = h[y]
      <4>1. rank[y] < k
        <5>1. rank[y] \in Nat /\ rank[x] \in Nat
          OBVIOUS
        <5> QED
          BY <2>3, <3>1, <5>1
      <4> QED
        BY <2>1, <2>2, <4>1
    <3>2. G[f][x] = G[h][x]
      BY <1>0, <3>1
    <3> QED
      BY <2>2, <3>2
  <2> QED
    BY <2>3
<1>3. Upto(B + 1)
  <2> SUFFICES ASSUME ~Upto(B + 1) PROVE FALSE
    OBVIOUS
  <2>1. PICK T : T = {k \in Nat : ~Upto(k)}
    OBVIOUS
  <2>2. T \in SUBSET Nat /\ B + 1 \in T
    BY <2>1
  <2> HIDE DEF Upto
  <2>3. PICK m \in T : \A n \in T : m <= n
    BY <2>2, Least
  <2>4. m \in Nat /\ ~Upto(m) /\ m # 0
    BY <1>1, <2>1, <2>3
  <2>5. PICK p : p = m - 1
    OBVIOUS
  <2>6. p \in Nat /\ p + 1 = m /\ ~(m <= p)
    BY <2>4, <2>5
  <2>7. Upto(p)
    BY <2>1, <2>3, <2>6
  <2> QED
    BY <1>2, <2>4, <2>6, <2>7
<1>4. PICK f \in [S -> V] : \A x \in S : rank[x] < B + 1 => f[x] = G[f][x]
  BY <1>3
<1>5. \A x \in S : rank[x] < B + 1
  OBVIOUS
<1>6. G[f] \in [S -> V] /\ \A x \in S : f[x] = G[f][x]
  BY <1>0, <1>4, <1>5
<1> QED
  BY <1>6

----------------------------------------------------------------------------
(* A completed BDD.                                                        *)

\* How far a node is from the end of the paths, at most
NodeRank == [n \in PathNodes |-> IF n \in Exits THEN 0 ELSE Len(vec) + 1 - n]

IsExit(n) ==
  /\ n \in Exits /\ n \in PathNodes /\ vec[n].kind = "Outcome"
  /\ vec[n].outcome = (n = ExitTrue)

IsConditionNode(n) ==
  LET c == vec[n].csco
  IN  /\ n \in PathNodes /\ vec[n].kind = "Condition" /\ n \notin Exits
      /\ vec[n].offset \in Nat
      /\ c \in Conditions /\ sco[c].node = n /\ sco[c].index \in CondIndexes
      /\ \A b \in BOOLEAN :
           vec[n].dests[b] \in PathNodes /\ NodeRank[vec[n].dests[b]] < NodeRank[n]

FinalBDD ==
  /\ Len(vec) + 1 \in Nat /\ NodeRank \in [PathNodes -> 0..(Len(vec) + 1)]
  /\ \A n \in PathNodes : IsExit(n) \/ IsConditionNode(n)
  /\ IsConditionNode(bdd.root)
  /\ \A c \in Conditions : IsConditionNode(sco[c].node) /\ vec[sco[c].node].csco = c
  /\ \A n \in Exits : IsExit(n)

LEMMA FinalNodes ==
  ASSUME IInv, ExitsFixed, NodesNumbered, Completed
  PROVE  FinalBDD
<1>1. /\ TypeOK /\ phase = "done" /\ vec \in Seq(BDDNode) /\ Len(vec) \in Nat
      /\ Len(vec) >= 2 /\ Ids = 1..Len(vec)
  BY DEF IInv, TypeOK, Completed, Ids
<1>2. \A n \in Ids : vec[n] \in BDDNode /\ vec[n].kind \in {"Outcome", "Jump", "Condition"}
  <2>1. \A n \in Ids : vec[n] \in BDDNode
    BY <1>1
  <2> QED
    BY <2>1 DEF BDDNode, OutcomeNodeType, JumpNodeType, ConditionNodeType
<1>3. \A n \in Ids : n \in Exits <=> vec[n].kind = "Outcome"
  BY DEF IInv, ExitsFirst
<1>4. \A n \in PathNodes : n \in Ids /\ vec[n].kind # "Jump"
  BY <1>1 DEF PathNodes, NodesOf
<1>5. \A n \in Ids : vec[n].kind # "Jump" => n \in PathNodes
  BY DEF PathNodes, NodesOf
<1>6. NodeRank \in [PathNodes -> 0..(Len(vec) + 1)]
  <2>1. ASSUME NEW n \in PathNodes
        PROVE  (IF n \in Exits THEN 0 ELSE Len(vec) + 1 - n) \in 0..(Len(vec) + 1)
    <3>1. n \in 1..Len(vec)
      BY <1>1, <1>4
    <3> QED
      BY <1>1, <3>1
  <2> QED
    BY <2>1 DEF NodeRank
<1>7. Exits \subseteq Ids
  BY <1>1 DEF Exits, ExitFalse, ExitTrue
<1>8. \A n \in Exits : IsExit(n)
  <2>1. vec[ExitFalse].outcome = FALSE /\ vec[ExitTrue].outcome = TRUE
    BY DEF ExitsFixed, OutcomeNode
  <2>2. ASSUME NEW n \in Exits PROVE vec[n].outcome = (n = ExitTrue)
    <3>1. CASE n = ExitFalse
      <4>1. (n = ExitTrue) = FALSE
        BY <3>1 DEF ExitFalse, ExitTrue
      <4> QED
        BY <2>1, <3>1, <4>1
    <3>2. CASE n = ExitTrue
      BY <2>1, <3>2
    <3> QED
      BY <3>1, <3>2 DEF Exits
  <2> QED
    BY <1>3, <1>5, <1>7, <2>2 DEF IsExit
<1>9. ASSUME NEW n \in Ids, vec[n].kind = "Condition" PROVE IsConditionNode(n)
  <2>1. n \in PathNodes /\ n \notin Exits /\ n \in 1..Len(vec) /\ n \in NodesOf("Condition")
    BY <1>1, <1>3, <1>5, <1>9 DEF NodesOf
  <2>2. vec[n].offset \in Nat
    BY <1>2, <1>9 DEF BDDNode, OutcomeNodeType, JumpNodeType, ConditionNodeType
  <2>3. vec[n].csco \in Conditions /\ sco[vec[n].csco].node = n
    BY <2>1 DEF NodesNumbered
  <2>4. sco[vec[n].csco].index \in CondIndexes
    BY <2>3 DEF NodesNumbered
  <2>5. ASSUME NEW b \in BOOLEAN
        PROVE  vec[n].dests[b] \in PathNodes /\ NodeRank[vec[n].dests[b]] < NodeRank[n]
    <3>1. PICK m : m = vec[n].dests[b]
      OBVIOUS
    <3>2. m \in Ids
      BY <1>1, <1>9, <3>1 DEF TypeOK, IdsAllocated
    <3>3. m \in Exits \/ (m > n /\ vec[m].kind = "Condition")
      BY <1>1, <2>1, <3>1 DEF IInv, ForwardEdges
    <3>4. m \in PathNodes
      BY <1>3, <1>5, <3>2, <3>3
    <3>5. NodeRank[n] = Len(vec) + 1 - n
      BY <2>1 DEF NodeRank
    <3>6. CASE m \in Exits
      <4>1. NodeRank[m] = 0
        BY <3>4, <3>6 DEF NodeRank
      <4> QED
        BY <1>1, <2>1, <3>1, <3>4, <3>5, <4>1
    <3>7. CASE m \notin Exits
      <4>1. NodeRank[m] = Len(vec) + 1 - m
        BY <3>4, <3>7 DEF NodeRank
      <4>2. m \in 1..Len(vec)
        BY <1>1, <3>2
      <4> QED
        BY <1>1, <2>1, <3>1, <3>3, <3>4, <3>5, <3>7, <4>1, <4>2
    <3> QED
      BY <3>6, <3>7
  <2> QED
    BY <1>9, <2>1, <2>2, <2>3, <2>4, <2>5 DEF IsConditionNode
<1>10. ASSUME NEW n \in PathNodes PROVE IsExit(n) \/ IsConditionNode(n)
  <2>1. n \in Ids /\ vec[n].kind \in {"Outcome", "Condition"}
    BY <1>2, <1>4
  <2> QED
    BY <1>3, <1>8, <1>9, <2>1
<1>11. IsConditionNode(bdd.root)
  <2>1. bdd.root \in NodesOf("Condition")
    BY <1>1 DEF IInv, ForwardEdges
  <2> QED
    BY <1>1, <1>9, <2>1 DEF NodesOf
<1>12. \A c \in Conditions : IsConditionNode(sco[c].node) /\ vec[sco[c].node].csco = c
  BY <1>1, <1>9 DEF NodesNumbered, NodesOf
<1> QED
  BY <1>1, <1>6, <1>8, <1>10, <1>11, <1>12 DEF FinalBDD

\* The value that e gives to the condition of node n
ValueAt(e, n) == e[sco[vec[n].csco].index]

LEMMA ValueAtType ==
  ASSUME NEW e \in [CondIndexes -> BOOLEAN], NEW n, IsConditionNode(n)
  PROVE  ValueAt(e, n) \in BOOLEAN
  BY DEF ValueAt, IsConditionNode

LEMMA NextNode ==
  ASSUME FinalBDD, NEW n, IsConditionNode(n), NEW b \in BOOLEAN
  PROVE  /\ n \in PathNodes /\ vec[n].kind = "Condition" /\ n \notin Exits
         /\ vec[n].dests[b] \in PathNodes /\ NodeRank[vec[n].dests[b]] < NodeRank[n]
  BY DEF IsConditionNode

\* One step of PathIndex
IndexStep(e, f, n) ==
  IF vec[n].kind = "Outcome" THEN 0
  ELSE LET v == e[sco[vec[n].csco].index]
       IN  (IF v THEN OffsetForTrue(vec[n].csco) ELSE 0) + f[vec[n].dests[v]]

LEMMA IndexSteps ==
  ASSUME FinalBDD, NEW e \in [CondIndexes -> BOOLEAN], NEW f, NEW n \in PathNodes
  PROVE  /\ IsExit(n) => IndexStep(e, f, n) = 0
         /\ IsConditionNode(n) =>
              IndexStep(e, f, n) = (IF ValueAt(e, n) THEN vec[n].offset ELSE 0)
                                   + f[vec[n].dests[ValueAt(e, n)]]
  BY DEF IndexStep, IsExit, IsConditionNode, OffsetForTrue, ValueAt

LEMMA IndexFunction ==
  ASSUME FinalBDD, NEW e \in [CondIndexes -> BOOLEAN]
  PROVE  \E f \in [PathNodes -> Nat] :
           /\ \A n \in PathNodes : f[n] = IndexStep(e, f, n)
           /\ PathIndex(e) = f[bdd.root]
<1>1. PICK S, B, rank : S = PathNodes /\ B = Len(vec) + 1 /\ rank = NodeRank
  OBVIOUS
<1>2. B \in Nat /\ rank \in [S -> 0..B] /\ rank \in [S -> Nat]
  BY <1>1 DEF FinalBDD
<1>3. ASSUME NEW f \in [S -> Nat], NEW n \in S PROVE IndexStep(e, f, n) \in Nat
  <2>1. CASE IsExit(n)
    BY <1>1, <2>1, IndexSteps
  <2>2. CASE IsConditionNode(n)
    <3>1. ValueAt(e, n) \in BOOLEAN /\ vec[n].offset \in Nat
      BY <2>2, ValueAtType DEF IsConditionNode
    <3>2. f[vec[n].dests[ValueAt(e, n)]] \in Nat
      BY <1>1, <2>2, <3>1, NextNode
    <3>3. (IF ValueAt(e, n) THEN vec[n].offset ELSE 0) \in Nat
      BY <3>1
    <3> QED
      BY <1>1, <2>2, <3>2, <3>3, IndexSteps
  <2> QED
    BY <1>1, <2>1, <2>2 DEF FinalBDD
<1>4. ASSUME NEW f, NEW g, NEW n \in S, \A y \in S : rank[y] < rank[n] => f[y] = g[y]
      PROVE  IndexStep(e, f, n) = IndexStep(e, g, n)
  <2>1. CASE IsExit(n)
    BY <1>1, <2>1, IndexSteps
  <2>2. CASE IsConditionNode(n)
    <3>1. ValueAt(e, n) \in BOOLEAN
      BY <2>2, ValueAtType
    <3>2. f[vec[n].dests[ValueAt(e, n)]] = g[vec[n].dests[ValueAt(e, n)]]
      BY <1>1, <1>4, <2>2, <3>1, NextNode
    <3> QED
      BY <1>1, <2>2, <3>2, IndexSteps
  <2> QED
    BY <1>1, <2>1, <2>2 DEF FinalBDD
<1>5. PICK G : G = [f \in [S -> Nat] |-> [n \in S |-> IndexStep(e, f, n)]]
  OBVIOUS
<1>6. G \in [[S -> Nat] -> [S -> Nat]]
  BY <1>3, <1>5
<1>7. PICK f \in [S -> Nat] : f = G[f]
  <2>1. ASSUME NEW f \in [S -> Nat], NEW g \in [S -> Nat], NEW n \in S,
               \A y \in S : rank[y] < rank[n] => f[y] = g[y]
        PROVE  G[f][n] = G[g][n]
    BY <1>4, <1>5, <2>1
  <2>2. LooksBelow(G, S, Nat, rank)
    BY <1>6, <2>1 DEF LooksBelow
  <2>3. 0 \in Nat
    OBVIOUS
  <2> QED
    BY <1>2, <2>2, <2>3, RankRecursion
<1>8. f = [n \in S |-> IndexStep(e, f, n)]
  BY <1>5, <1>7
<1>9. PICK g : g = CHOOSE h : h = [n \in S |-> IndexStep(e, h, n)]
  OBVIOUS
<1>10. g = [n \in S |-> IndexStep(e, g, n)]
  BY <1>8, <1>9
<1>11. PathIndex(e) = g[bdd.root]
  BY <1>1, <1>9 DEF PathIndex, IndexStep
<1>12. \A n \in S : g[n] = f[n]
  <2>1. PICK P : P = {n \in S : g[n] = f[n]}
    OBVIOUS
  <2>2. ASSUME NEW n \in S, \A y \in S : rank[y] < rank[n] => y \in P PROVE n \in P
    <3>1. IndexStep(e, g, n) = IndexStep(e, f, n)
      BY <1>4, <2>1, <2>2
    <3> QED
      BY <1>8, <1>10, <2>1, <3>1
  <2> QED
    BY <1>2, <2>1, <2>2, RankInduction
<1> QED
  BY <1>1, <1>8, <1>11, <1>12 DEF FinalBDD, IsConditionNode

\* An environment only takes edges that Visit takes
LEMMA EnvironmentEdge ==
  ASSUME NEW e \in Environments
  PROVE  /\ e \in [CondIndexes -> BOOLEAN]
         /\ \A n : IsConditionNode(n) => EdgeTaken(n, ValueAt(e, n))
<1>1. e \in [CondIndexes -> BOOLEAN]
  BY DEF Environments
<1>2. ASSUME NEW n, IsConditionNode(n) PROVE EdgeTaken(n, ValueAt(e, n))
  BY <1>2 DEF Environments, IsConditionNode, EdgeTaken, ValueAt
<1> QED
  BY <1>1, <1>2

IsIndex(e, f) ==
  f \in [PathNodes -> Nat] /\ \A n \in PathNodes : f[n] = IndexStep(e, f, n)

\* Along an edge, the index decreases by the offset exactly when the condition
\* is True, and stays among those of the paths of the node
LEMMA IndexAlongEdge ==
  ASSUME IInv, FinalBDD, Completed, NEW e \in Environments, NEW f, IsIndex(e, f),
         NEW n, IsConditionNode(n), count[n] > 0,
         NEW v, v = ValueAt(e, n), NEW m, m = vec[n].dests[v]
  PROVE  /\ v \in BOOLEAN /\ m \in PathNodes /\ count[m] > 0
         /\ v => f[n] = vec[n].offset + f[m]
         /\ ~v => f[n] = f[m] /\ (f[m] < count[m] => f[m] < vec[n].offset)
         /\ f[m] < count[m] => f[n] < count[n]
<1>1. /\ v \in BOOLEAN /\ n \in PathNodes /\ m \in PathNodes /\ vec[n].offset \in Nat
      /\ n \in NodesOf("Condition") /\ EdgeTaken(n, v)
  BY EnvironmentEdge, ValueAtType DEF IsConditionNode, PathNodes, NodesOf, Ids
<1>2. Additive(n)
  BY <1>1 DEF IInv, CountedNodesAdditive, Completed
<1>3. /\ vec[n].offset = EdgeCount(n, FALSE)
      /\ count[n] = EdgeCount(n, FALSE) + EdgeCount(n, TRUE)
  BY <1>2 DEF Additive
<1>4. count[m] > 0 /\ EdgeCount(n, v) = count[m]
  <2>1. Explored(n, v)
    BY <1>1, <1>2 DEF Additive
  <2> QED
    BY <1>1, <2>1 DEF Explored, EdgeCount
<1>5. \A b \in BOOLEAN : EdgeCount(n, b) \in Nat
  <2>1. count \in [Ids -> Nat]
    BY DEF IInv, TypeOK, Completed
  <2>2. \A b \in BOOLEAN : vec[n].dests[b] \in Ids
    BY DEF IsConditionNode, PathNodes
  <2> QED
    BY <2>1, <2>2 DEF EdgeCount
<1>6. f[m] \in Nat /\ f[n] \in Nat /\ f[n] = IndexStep(e, f, n)
  BY <1>1 DEF IsIndex
<1>7. f[n] = (IF v THEN vec[n].offset ELSE 0) + f[m]
  <2>1. e \in [CondIndexes -> BOOLEAN]
    BY EnvironmentEdge
  <2> QED
    BY <1>1, <1>6, <2>1, IndexSteps
<1>8. PICK x, y : x = EdgeCount(n, FALSE) /\ y = EdgeCount(n, TRUE)
  OBVIOUS
<1>9. /\ x \in Nat /\ y \in Nat /\ vec[n].offset = x /\ count[n] = x + y
      /\ v => y = count[m]
      /\ ~v => x = count[m]
  <2>1. v => v = TRUE
    BY <1>1
  <2>2. ~v => v = FALSE
    BY <1>1
  <2> QED
    BY <1>3, <1>4, <1>5, <1>8, <2>1, <2>2
<1>10. v => f[n] = x + f[m]
  BY <1>7, <1>9
<1>11. ~v => f[n] = f[m]
  BY <1>6, <1>7
<1>12. v => f[n] = vec[n].offset + f[m]
  BY <1>9, <1>10
<1>13. ~v => (f[m] < count[m] => f[m] < vec[n].offset)
  BY <1>9
<1>14. f[m] < count[m] => f[n] < count[n]
  <2>1. ASSUME v, f[m] < count[m] PROVE f[n] < count[n]
    <3>1. f[n] = x + f[m] /\ count[n] = x + y /\ f[m] < y
      BY <1>9, <1>10, <2>1
    <3> QED
      BY <1>6, <1>9, <3>1
  <2>2. ASSUME ~v, f[m] < count[m] PROVE f[n] < count[n]
    <3>1. f[n] = f[m] /\ count[n] = x + y /\ f[m] < x
      BY <1>9, <1>11, <2>2
    <3> QED
      BY <1>6, <1>9, <3>1
  <2> QED
    BY <2>1, <2>2
<1> QED
  BY <1>1, <1>4, <1>11, <1>12, <1>13, <1>14

LEMMA IndexBelowCount ==
  ASSUME IInv, FinalBDD, Completed, NEW e \in Environments, NEW f, IsIndex(e, f)
  PROVE  \A n \in PathNodes : count[n] > 0 => f[n] < count[n]
<1>1. PICK P : P = {n \in PathNodes : count[n] > 0 => f[n] < count[n]}
  OBVIOUS
<1>2. ASSUME NEW n \in PathNodes,
             \A y \in PathNodes : NodeRank[y] < NodeRank[n] => y \in P
      PROVE  n \in P
  <2> SUFFICES ASSUME count[n] > 0 PROVE f[n] < count[n]
    BY <1>1
  <2>1. CASE IsExit(n)
    <3>1. f[n] = 0
      BY <2>1, EnvironmentEdge, IndexSteps DEF IsIndex
    <3>2. n \in NodesOf("Outcome")
      BY <2>1 DEF IsExit, NodesOf, PathNodes, Ids
    <3>3. count[n] \in {0, 1}
      BY <3>2 DEF IInv, CountedNodesAdditive, Completed
    <3> QED
      BY <3>1, <3>3
  <2>2. CASE IsConditionNode(n)
    <3>1. PICK v, m : v = ValueAt(e, n) /\ m = vec[n].dests[v]
      OBVIOUS
    <3>2. /\ v \in BOOLEAN /\ m \in PathNodes /\ count[m] > 0
          /\ f[m] < count[m] => f[n] < count[n]
      BY <2>2, <3>1, IndexAlongEdge
    <3>3. NodeRank[m] < NodeRank[n]
      BY <2>2, <3>1, <3>2 DEF IsConditionNode
    <3> QED
      BY <1>1, <1>2, <3>2, <3>3
  <2> QED
    BY <2>1, <2>2 DEF FinalBDD
<1>3. NodeRank \in [PathNodes -> Nat]
  BY DEF FinalBDD
<1>4. PathNodes \subseteq P
  BY <1>2, <1>3, RankInduction
<1> QED
  BY <1>1, <1>4

----------------------------------------------------------------------------
(* Following the BDD from a node under an environment.                     *)

EvaluationType == [values : [CondIndexes -> Tristate], outcome : BOOLEAN]

\* No condition evaluated
Nothing(b) == [values |-> [i \in CondIndexes |-> "Unknown"], outcome |-> b]

Recorded(r, i, b) == [r EXCEPT !.values[i] = ToTristate(b)]

\* r, with the values that e gives to the conditions of A
Overlay(A, e, r) ==
  [values |-> [i \in CondIndexes |-> IF i \in A THEN ToTristate(e[i]) ELSE r.values[i]],
   outcome |-> r.outcome]

LEMMA RecordedOverlay ==
  ASSUME NEW e \in [CondIndexes -> BOOLEAN], NEW r \in EvaluationType,
         NEW i \in CondIndexes, NEW b, b = e[i]
  PROVE  Recorded(r, i, b) \in EvaluationType /\ Recorded(r, i, b) = Overlay({i}, e, r)
<1>1. ToTristate(b) \in Tristate
  BY DEF ToTristate, Tristate
<1>2. r = [values |-> r.values, outcome |-> r.outcome]
      /\ r.values \in [CondIndexes -> Tristate] /\ r.outcome \in BOOLEAN
  BY DEF EvaluationType
<1>3. Recorded(r, i, b) = [values |-> [r.values EXCEPT ![i] = ToTristate(b)], outcome |-> r.outcome]
  BY <1>2 DEF Recorded
<1>4. [r.values EXCEPT ![i] = ToTristate(b)] \in [CondIndexes -> Tristate]
  BY <1>1, <1>2
<1>5. [r.values EXCEPT ![i] = ToTristate(b)]
        = [k \in CondIndexes |-> IF k \in {i} THEN ToTristate(e[k]) ELSE r.values[k]]
  BY <1>2
<1>6. Recorded(r, i, b) \in EvaluationType
  BY <1>2, <1>3, <1>4 DEF EvaluationType
<1> QED
  BY <1>3, <1>5, <1>6 DEF Overlay

LEMMA OverlayTwice ==
  ASSUME NEW A, NEW B, NEW e, NEW r
  PROVE  Overlay(A, e, Overlay(B, e, r)) = Overlay(A \cup B, e, r)
  BY DEF Overlay

LEMMA NothingType ==
  ASSUME NEW b \in BOOLEAN
  PROVE  Nothing(b) \in EvaluationType
  BY DEF Nothing, EvaluationType, Tristate

FollowStep(e, f, n) ==
  IF vec[n].kind = "Outcome" THEN Nothing(vec[n].outcome)
  ELSE Recorded(f[vec[n].dests[ValueAt(e, n)]], sco[vec[n].csco].index, ValueAt(e, n))

IsFollowed(e, f) ==
  f \in [PathNodes -> EvaluationType] /\ \A n \in PathNodes : f[n] = FollowStep(e, f, n)

LEMMA FollowSteps ==
  ASSUME FinalBDD, NEW e \in [CondIndexes -> BOOLEAN], NEW f, NEW n \in PathNodes
  PROVE  /\ IsExit(n) => /\ FollowStep(e, f, n) = Nothing(n = ExitTrue)
                         /\ FollowStep(e, f, n) \in EvaluationType
         /\ IsConditionNode(n) =>
              LET c == vec[n].csco
                  v == ValueAt(e, n)
              IN  /\ v \in BOOLEAN /\ v = e[sco[c].index] /\ sco[c].index \in CondIndexes
                  /\ FollowStep(e, f, n) = Recorded(f[vec[n].dests[v]], sco[c].index, v)
<1>1. ASSUME IsExit(n)
      PROVE  FollowStep(e, f, n) = Nothing(n = ExitTrue) /\ FollowStep(e, f, n) \in EvaluationType
  <2>1. FollowStep(e, f, n) = Nothing(n = ExitTrue)
    BY <1>1 DEF FollowStep, IsExit
  <2>2. (n = ExitTrue) \in BOOLEAN
    OBVIOUS
  <2> QED
    BY <2>1, <2>2, NothingType
<1>2. ASSUME IsConditionNode(n)
      PROVE  LET c == vec[n].csco
                 v == ValueAt(e, n)
             IN  /\ v \in BOOLEAN /\ v = e[sco[c].index] /\ sco[c].index \in CondIndexes
                 /\ FollowStep(e, f, n) = Recorded(f[vec[n].dests[v]], sco[c].index, v)
  <2>1. ValueAt(e, n) \in BOOLEAN
    BY <1>2, ValueAtType
  <2> QED
    BY <1>2, <2>1 DEF FollowStep, IsConditionNode, ValueAt
<1> QED
  BY <1>1, <1>2

LEMMA FollowFunction ==
  ASSUME FinalBDD, NEW e \in [CondIndexes -> BOOLEAN]
  PROVE  \E f : IsFollowed(e, f)
<1>1. PICK S, B, rank : S = PathNodes /\ B = Len(vec) + 1 /\ rank = NodeRank
  OBVIOUS
<1>2. B \in Nat /\ rank \in [S -> 0..B]
  BY <1>1 DEF FinalBDD
<1>3. ASSUME NEW f \in [S -> EvaluationType], NEW n \in S
      PROVE  FollowStep(e, f, n) \in EvaluationType
  <2>1. CASE IsExit(n)
    BY <1>1, <2>1, FollowSteps
  <2>2. CASE IsConditionNode(n)
    <3>1. PICK v, i : v = ValueAt(e, n) /\ i = sco[vec[n].csco].index
      OBVIOUS
    <3>2. /\ v \in BOOLEAN /\ v = e[i] /\ i \in CondIndexes
          /\ FollowStep(e, f, n) = Recorded(f[vec[n].dests[v]], i, v)
      BY <1>1, <2>2, <3>1, FollowSteps
    <3>3. PICK r : r = f[vec[n].dests[v]]
      OBVIOUS
    <3>4. r \in EvaluationType
      BY <1>1, <2>2, <3>2, <3>3, NextNode
    <3>5. Recorded(r, i, v) \in EvaluationType
      BY <3>2, <3>4, RecordedOverlay
    <3> QED
      BY <3>2, <3>3, <3>5
  <2> QED
    BY <1>1, <2>1, <2>2 DEF FinalBDD
<1>4. ASSUME NEW f, NEW g, NEW n \in S, \A y \in S : rank[y] < rank[n] => f[y] = g[y]
      PROVE  FollowStep(e, f, n) = FollowStep(e, g, n)
  <2>1. CASE IsExit(n)
    BY <1>1, <2>1, FollowSteps
  <2>2. CASE IsConditionNode(n)
    <3>1. ValueAt(e, n) \in BOOLEAN
      BY <2>2, ValueAtType
    <3>2. f[vec[n].dests[ValueAt(e, n)]] = g[vec[n].dests[ValueAt(e, n)]]
      BY <1>1, <1>4, <2>2, <3>1, NextNode
    <3> QED
      BY <1>1, <2>2, <3>2, FollowSteps
  <2> QED
    BY <1>1, <2>1, <2>2 DEF FinalBDD
<1>5. PICK G : G = [f \in [S -> EvaluationType] |-> [n \in S |-> FollowStep(e, f, n)]]
  OBVIOUS
<1>6. G \in [[S -> EvaluationType] -> [S -> EvaluationType]]
  BY <1>3, <1>5
<1>7. PICK f \in [S -> EvaluationType] : f = G[f]
  <2>1. ASSUME NEW f \in [S -> EvaluationType], NEW g \in [S -> EvaluationType], NEW n \in S,
               \A y \in S : rank[y] < rank[n] => f[y] = g[y]
        PROVE  G[f][n] = G[g][n]
    BY <1>4, <1>5, <2>1
  <2>2. PICK V : V = EvaluationType
    OBVIOUS
  <2>3. LooksBelow(G, S, V, rank)
    BY <1>6, <2>1, <2>2 DEF LooksBelow
  <2>4. PICK v \in V : TRUE
    BY <2>2, NothingType
  <2> QED
    BY <1>2, <2>2, <2>3, <2>4, RankRecursion
<1>8. f = [n \in S |-> FollowStep(e, f, n)]
  BY <1>5, <1>7
<1> QED
  BY <1>1, <1>7, <1>8 DEF IsFollowed

LEMMA RecordedType ==
  ASSUME NEW r \in EvaluationType, NEW i \in CondIndexes, NEW b \in BOOLEAN
  PROVE  Recorded(r, i, b) \in EvaluationType
<1>1. PICK e : e = [k \in CondIndexes |-> b]
  OBVIOUS
<1>2. e \in [CondIndexes -> BOOLEAN] /\ b = e[i]
  BY <1>1
<1> QED
  BY <1>2, RecordedOverlay

\* One step of Condition_Values, from node n with index t
WalkAt(f, n, t) ==
  IF vec[n].kind = "Outcome" THEN Nothing(vec[n].outcome)
  ELSE LET v == t >= vec[n].offset
       IN  Recorded(f[vec[n].dests[v]][IF v THEN t - vec[n].offset ELSE t],
                    sco[vec[n].csco].index, v)

IsWalk(K, f) ==
  /\ f \in [PathNodes -> [0..K -> EvaluationType]]
  /\ \A n \in PathNodes, t \in 0..K : f[n][t] = WalkAt(f, n, t)

LEMMA WalkExit ==
  ASSUME NEW f, NEW n, NEW t, IsExit(n)
  PROVE  WalkAt(f, n, t) = Nothing(n = ExitTrue) /\ WalkAt(f, n, t) \in EvaluationType
<1>1. WalkAt(f, n, t) = Nothing(n = ExitTrue)
  BY DEF WalkAt, IsExit
<1>2. (n = ExitTrue) \in BOOLEAN
  OBVIOUS
<1> QED
  BY <1>1, <1>2, NothingType

WalksOn(K, f, n, t, v, u) ==
  /\ IF t >= vec[n].offset THEN v /\ u = t - vec[n].offset ELSE ~v /\ u = t
  /\ v \in BOOLEAN /\ u \in 0..K
  /\ WalkAt(f, n, t) = Recorded(f[vec[n].dests[v]][u], sco[vec[n].csco].index, v)

LEMMA WalkCondition ==
  ASSUME NEW K \in Nat, NEW f, NEW n, NEW t \in 0..K, IsConditionNode(n)
  PROVE  \E v, u : WalksOn(K, f, n, t, v, u)
<1>1. vec[n].offset \in Nat /\ vec[n].kind # "Outcome"
  BY DEF IsConditionNode
<1>2. CASE t >= vec[n].offset
  <2>1. (t >= vec[n].offset) = TRUE
    BY <1>2
  <2>2. WalkAt(f, n, t)
          = Recorded(f[vec[n].dests[TRUE]][t - vec[n].offset], sco[vec[n].csco].index, TRUE)
    BY <1>1, <2>1 DEF WalkAt
  <2>3. t - vec[n].offset \in 0..K
    BY <1>1, <1>2
  <2>4. WalksOn(K, f, n, t, TRUE, t - vec[n].offset)
    BY <1>2, <2>2, <2>3 DEF WalksOn
  <2> QED
    BY <2>4
<1>3. CASE ~(t >= vec[n].offset)
  <2>1. (t >= vec[n].offset) = FALSE
    BY <1>3
  <2>2. WalkAt(f, n, t) = Recorded(f[vec[n].dests[FALSE]][t], sco[vec[n].csco].index, FALSE)
    BY <1>1, <2>1 DEF WalkAt
  <2>3. WalksOn(K, f, n, t, FALSE, t)
    BY <1>3, <2>2 DEF WalksOn
  <2> QED
    BY <2>3
<1> QED
  BY <1>2, <1>3

LEMMA WalkFunction ==
  ASSUME FinalBDD, NEW K \in Nat
  PROVE  \E f : IsWalk(K, f) /\ ConditionValues(K) = f[bdd.root][K]
<1>1. PICK S, B, rank, V :
         S = PathNodes /\ B = Len(vec) + 1 /\ rank = NodeRank /\ V = [0..K -> EvaluationType]
  OBVIOUS
<1>2. B \in Nat /\ rank \in [S -> 0..B] /\ rank \in [S -> Nat]
  BY <1>1 DEF FinalBDD
<1>3. ASSUME NEW f \in [S -> V], NEW n \in S, NEW t \in 0..K
      PROVE  WalkAt(f, n, t) \in EvaluationType
  <2>1. CASE IsExit(n)
    BY <2>1, WalkExit
  <2>2. CASE IsConditionNode(n)
    <3>0. PICK v, u : WalksOn(K, f, n, t, v, u)
      BY <2>2, WalkCondition
    <3>1. /\ v \in BOOLEAN /\ u \in 0..K
          /\ WalkAt(f, n, t) = Recorded(f[vec[n].dests[v]][u], sco[vec[n].csco].index, v)
      BY <3>0 DEF WalksOn
    <3>2. PICK r, i : r = f[vec[n].dests[v]][u] /\ i = sco[vec[n].csco].index
      OBVIOUS
    <3>3. vec[n].dests[v] \in S
      BY <1>1, <2>2, <3>1, NextNode
    <3>4. r \in EvaluationType /\ i \in CondIndexes
      BY <1>1, <2>2, <3>1, <3>2, <3>3 DEF IsConditionNode
    <3>5. Recorded(r, i, v) \in EvaluationType
      BY <3>1, <3>4, RecordedType
    <3> QED
      BY <3>1, <3>2, <3>5
  <2> QED
    BY <1>1, <2>1, <2>2 DEF FinalBDD
<1>4. ASSUME NEW f, NEW g, NEW n \in S, NEW t \in 0..K, \A y \in S : rank[y] < rank[n] => f[y] = g[y]
      PROVE  WalkAt(f, n, t) = WalkAt(g, n, t)
  <2>1. CASE IsExit(n)
    BY <2>1, WalkExit
  <2>2. CASE IsConditionNode(n)
    <3>1. \A b \in BOOLEAN : f[vec[n].dests[b]] = g[vec[n].dests[b]]
      BY <1>1, <1>4, <2>2, NextNode
    <3>2. (t >= vec[n].offset) \in BOOLEAN
      OBVIOUS
    <3>3. f[vec[n].dests[t >= vec[n].offset]] = g[vec[n].dests[t >= vec[n].offset]]
      BY <3>1, <3>2
    <3> QED
      BY <2>2, <3>3 DEF IsConditionNode, WalkAt
  <2> QED
    BY <1>1, <2>1, <2>2 DEF FinalBDD
<1> DEFINE Step(f, n) == [t \in 0..K |-> WalkAt(f, n, t)]
<1>5. ASSUME NEW f \in [S -> V], NEW n \in S
      PROVE  Step(f, n) \in V
  BY <1>1, <1>3
<1>6. ASSUME NEW f, NEW g, NEW n \in S, \A y \in S : rank[y] < rank[n] => f[y] = g[y]
      PROVE  Step(f, n) = Step(g, n)
  BY <1>4, <1>6
<1>7. ASSUME NEW f, NEW n, NEW t \in 0..K PROVE Step(f, n)[t] = WalkAt(f, n, t)
  OBVIOUS
<1>8. PICK h : h = CHOOSE f : f = [n \in S |-> Step(f, n)]
  OBVIOUS
<1>9. ConditionValues(K) = h[bdd.root][K]
  BY <1>1, <1>8 DEF ConditionValues, WalkAt, Nothing, Recorded
<1> HIDE DEF Step
<1>10. PICK G : G = [f \in [S -> V] |-> [n \in S |-> Step(f, n)]]
  OBVIOUS
<1>11. G \in [[S -> V] -> [S -> V]]
  BY <1>5, <1>10
<1>12. PICK f \in [S -> V] : f = G[f]
  <2>1. ASSUME NEW f \in [S -> V], NEW g \in [S -> V], NEW n \in S,
               \A y \in S : rank[y] < rank[n] => f[y] = g[y]
        PROVE  G[f][n] = G[g][n]
    BY <1>6, <1>10, <2>1
  <2>2. LooksBelow(G, S, V, rank)
    BY <1>11, <2>1 DEF LooksBelow
  <2>3. PICK v \in V : TRUE
    <3>1. [t \in 0..K |-> Nothing(FALSE)] \in V
      BY <1>1, NothingType
    <3> QED
      BY <3>1
  <2> QED
    BY <1>2, <2>2, <2>3, RankRecursion
<1>13. f = [n \in S |-> Step(f, n)]
  BY <1>10, <1>12
<1>14. h = [n \in S |-> Step(h, n)]
  BY <1>8, <1>13
<1>15. \A n \in S : h[n] = f[n]
  <2>1. PICK P : P = {n \in S : h[n] = f[n]}
    OBVIOUS
  <2>2. ASSUME NEW n \in S, \A y \in S : rank[y] < rank[n] => y \in P PROVE n \in P
    <3>1. Step(h, n) = Step(f, n)
      BY <1>6, <2>1, <2>2
    <3> QED
      BY <1>13, <1>14, <2>1, <3>1
  <2> QED
    BY <1>2, <2>1, <2>2, RankInduction
<1>16. h \in [S -> V]
  BY <1>12, <1>14, <1>15
<1>17. ASSUME NEW n \in S, NEW t \in 0..K PROVE h[n][t] = WalkAt(h, n, t)
  <2>1. h[n] = Step(h, n)
    BY <1>14
  <2> QED
    BY <1>7, <2>1
<1>18. IsWalk(K, h)
  BY <1>1, <1>16, <1>17 DEF IsWalk
<1> QED
  BY <1>9, <1>18

\* The index of the path of an environment decodes into what it followed
LEMMA WalkDecodes ==
  ASSUME IInv, FinalBDD, Completed, NEW e \in Environments, NEW K \in Nat,
         NEW x, IsIndex(e, x), NEW f, IsFollowed(e, f), NEW w, IsWalk(K, w)
  PROVE  \A n \in PathNodes : count[n] > 0 /\ x[n] <= K => w[n][x[n]] = f[n]
<1>1. PICK P : P = {n \in PathNodes : count[n] > 0 /\ x[n] <= K => w[n][x[n]] = f[n]}
  OBVIOUS
<1>2. ASSUME NEW n \in PathNodes,
             \A y \in PathNodes : NodeRank[y] < NodeRank[n] => y \in P
      PROVE  n \in P
  <2> SUFFICES ASSUME count[n] > 0, x[n] <= K PROVE w[n][x[n]] = f[n]
    BY <1>1
  <2>1. PICK t : t = x[n]
    OBVIOUS
  <2>2. t \in 0..K /\ w[n][t] = WalkAt(w, n, t) /\ f[n] = FollowStep(e, f, n)
    <3>1. t \in Nat
      BY <2>1 DEF IsIndex
    <3> QED
      BY <2>1, <3>1 DEF IsWalk, IsFollowed
  <2>3. e \in [CondIndexes -> BOOLEAN]
    BY EnvironmentEdge
  <2>4. CASE IsExit(n)
    BY <2>1, <2>2, <2>3, <2>4, WalkExit, FollowSteps
  <2>5. CASE IsConditionNode(n)
    <3>1. PICK v, m : v = ValueAt(e, n) /\ m = vec[n].dests[v]
      OBVIOUS
    <3>2. /\ v \in BOOLEAN /\ m \in PathNodes /\ count[m] > 0
          /\ v => x[n] = vec[n].offset + x[m]
          /\ ~v => x[n] = x[m] /\ (x[m] < count[m] => x[m] < vec[n].offset)
      BY <2>5, <3>1, IndexAlongEdge
    <3>3. x[m] \in Nat /\ vec[n].offset \in Nat
      BY <2>5, <3>2 DEF IsIndex, IsConditionNode
    <3>4. x[m] < count[m]
      BY <3>2, IndexBelowCount
    <3>0. PICK u, k : WalksOn(K, w, n, t, u, k)
      BY <2>2, <2>5, WalkCondition
    <3>5. /\ u \in BOOLEAN /\ k \in 0..K
          /\ IF t >= vec[n].offset THEN u /\ k = t - vec[n].offset ELSE ~u /\ k = t
          /\ WalkAt(w, n, t) = Recorded(w[vec[n].dests[u]][k], sco[vec[n].csco].index, u)
      BY <3>0 DEF WalksOn
    <3>6. PICK a, o, q : a = x[m] /\ o = vec[n].offset /\ q = count[m]
      OBVIOUS
    <3>7. /\ a \in Nat /\ o \in Nat /\ t \in Nat
          /\ v => t = o + a
          /\ ~v => t = a /\ a < o
          /\ IF t >= o THEN u /\ k = t - o ELSE ~u /\ k = t
      BY <2>1, <2>2, <3>2, <3>3, <3>4, <3>5, <3>6
    <3>8. u = v /\ k = a
      BY <3>2, <3>5, <3>7
    <3>9. x[m] <= K
      BY <3>5, <3>6, <3>7, <3>8
    <3>10. NodeRank[m] < NodeRank[n]
      BY <2>5, <3>1, <3>2, NextNode
    <3>11. w[m][x[m]] = f[m]
      BY <1>1, <1>2, <3>2, <3>9, <3>10
    <3>12. FollowStep(e, f, n) = Recorded(f[m], sco[vec[n].csco].index, v)
      BY <2>3, <2>5, <3>1, FollowSteps
    <3>13. WalkAt(w, n, t) = Recorded(w[m][x[m]], sco[vec[n].csco].index, v)
      BY <3>1, <3>5, <3>6, <3>8
    <3> QED
      BY <2>1, <2>2, <3>11, <3>12, <3>13
  <2> QED
    BY <2>4, <2>5 DEF FinalBDD
<1>3. NodeRank \in [PathNodes -> Nat]
  BY DEF FinalBDD
<1>4. PathNodes \subseteq P
  BY <1>2, <1>3, RankInduction
<1> QED
  BY <1>1, <1>4

\* So Condition_Values gives what was followed from the root
LEMMA RoundTrip ==
  ASSUME IInv, FinalBDD, Completed, NEW e \in Environments, NEW f, IsFollowed(e, f)
  PROVE  /\ PathIndex(e) \in 0..(bdd.pathCount - 1)
         /\ ConditionValues(PathIndex(e)) = f[bdd.root]
<1>1. e \in [CondIndexes -> BOOLEAN]
  BY EnvironmentEdge
<1>2. PICK x : IsIndex(e, x) /\ PathIndex(e) = x[bdd.root]
  BY <1>1, IndexFunction DEF IsIndex
<1>3. PICK K : K = x[bdd.root]
  OBVIOUS
<1>4. bdd.root \in PathNodes
  BY DEF FinalBDD, IsConditionNode
<1>5. K \in Nat
  BY <1>2, <1>3, <1>4 DEF IsIndex
<1>6. count[bdd.root] > 0 /\ bdd.pathCount = count[bdd.root]
  BY DEF IInv, FramesNested, Completed
<1>7. bdd.pathCount \in Nat
  BY DEF IInv, TypeOK, BDDType
<1>8. K < bdd.pathCount
  BY <1>2, <1>3, <1>4, <1>6, IndexBelowCount
<1>9. PICK w : IsWalk(K, w) /\ ConditionValues(K) = w[bdd.root][K]
  BY <1>5, WalkFunction
<1>10. w[bdd.root][x[bdd.root]] = f[bdd.root]
  <2>1. x[bdd.root] <= K
    BY <1>3, <1>5
  <2> QED
    BY <1>2, <1>4, <1>5, <1>6, <1>9, <2>1, WalkDecodes
<1>11. K \in 0..(bdd.pathCount - 1)
  BY <1>5, <1>7, <1>8
<1> QED
  BY <1>2, <1>3, <1>9, <1>10, <1>11

----------------------------------------------------------------------------
(* The expression of a completed decision.                                 *)

SCOs == 2..Len(sco)

IsLeaf(s) ==
  /\ s \in SCOs /\ s \in Conditions
  /\ sco[s].kind = "Condition" /\ sco[s].index \in CondIndexes

\* x is an operand of s
Child(s, x) == x \in SCOs /\ x > s /\ sco[x].parent = s

IsNegation(s) ==
  /\ s \in SCOs /\ sco[s].kind = "Operator" /\ sco[s].op = "Not"
  /\ Child(s, sco[s].operands["Right"]) /\ IsOperand(sco[s].operands["Right"], s, "Right")

IsShortCircuit(s) ==
  /\ s \in SCOs /\ sco[s].kind = "Operator" /\ sco[s].op # "Not"
  /\ sco[s].op \in {"AndThen", "OrElse"}
  /\ Child(s, sco[s].operands["Left"]) /\ IsOperand(sco[s].operands["Left"], s, "Left")
  /\ Child(s, sco[s].operands["Right"]) /\ IsOperand(sco[s].operands["Right"], s, "Right")

\* How many SCOs an SCO may have below it
HeightBound == [s \in SCOs |-> Len(sco) - s]

FinalTree ==
  /\ Len(sco) \in Nat
  /\ SCOs \subseteq Nat
  /\ HeightBound \in [SCOs -> 0..Len(sco)]
  /\ \A s, x \in SCOs : s < x => HeightBound[x] < HeightBound[s]
  /\ sco[Decision].kind = "Decision"
  /\ sco[Decision].expr \in SCOs /\ IsOperand(sco[Decision].expr, Decision, "Right")
  /\ sco[sco[Decision].expr].parent = Decision
  /\ \A s \in SCOs : IsLeaf(s) \/ IsNegation(s) \/ IsShortCircuit(s)
  /\ \A s \in SCOs :
       /\ sco[s].parent \in 1..(s - 1)
       /\ sco[s].parent = Decision \/ sco[s].parent \in SCOs
       /\ \E pos \in {"Left", "Right"} : IsOperand(s, sco[s].parent, pos)

LEMMA FinalOperands ==
  ASSUME IInv, TreeGrows, NodesNumbered, Completed
  PROVE  FinalTree
<1>1. /\ sco \in Seq(SCODescriptor) /\ Len(sco) \in Nat /\ phase = "done"
      /\ arcs = <<>> /\ Len(arcs) = 0
  BY DEF IInv, TypeOK, ScanEnds, Completed
<1>2. Len(sco) >= 1
  <2>1. bdd.root \in NodesOf("Condition")
    BY <1>1 DEF IInv, ForwardEdges
  <2>2. vec[bdd.root].csco \in Conditions
    BY <2>1 DEF NodesNumbered
  <2> QED
    BY <1>1, <2>2 DEF Conditions
<1>3. \A p \in 1..Len(sco), pos \in {"Left", "Right"} :
         sco[p].kind # "Condition" /\ pos \in Positions(p) =>
           OperandOf(p, pos) \in (p + 1)..Len(sco) /\ sco[OperandOf(p, pos)].parent = p
  <2>1. ~\E i \in 1..Len(arcs) : TRUE
    BY <1>1
  <2> QED
    BY <2>1 DEF TreeGrows
<1>4. \A s \in SCOs : s \in 1..Len(sco) /\ s \in 2..Len(sco) /\ s \in Nat
  BY <1>1 DEF SCOs
<1>5. \A p \in 1..Len(sco) : \A x \in (p + 1)..Len(sco) : x \in SCOs /\ x > p
  BY <1>1 DEF SCOs
<1>6. /\ sco[Decision].kind = "Decision" /\ sco[Decision].expr \in SCOs
      /\ IsOperand(sco[Decision].expr, Decision, "Right")
      /\ sco[sco[Decision].expr].parent = Decision
  <2>1. sco[Decision].kind = "Decision" /\ Decision \in 1..Len(sco)
    BY <1>1, <1>2 DEF TreeGrows, Decision
  <2>2. "Right" \in Positions(Decision) /\ OperandOf(Decision, "Right") = sco[Decision].expr
    BY <2>1 DEF Positions, OperandOf
  <2>3. sco[Decision].kind # "Condition"
    BY <2>1
  <2> QED
    BY <1>3, <1>5, <2>1, <2>2, <2>3 DEF IsOperand
<1>7. ASSUME NEW s \in SCOs PROVE IsLeaf(s) \/ IsNegation(s) \/ IsShortCircuit(s)
  <2>1. s \in 1..Len(sco) /\ sco[s] \in SCODescriptor /\ sco[s].kind # "Decision"
    BY <1>1, <1>4 DEF TreeGrows
  <2>2. CASE sco[s].kind = "Condition"
    <3>1. s \in Conditions
      BY <2>1, <2>2 DEF Conditions
    <3> QED
      BY <2>2, <3>1 DEF IsLeaf, NodesNumbered
  <2>3. CASE sco[s].kind # "Condition"
    <3>1. sco[s].kind = "Operator" /\ sco[s].op \in {"Not", "AndThen", "OrElse"}
      BY <2>1, <2>3 DEF SCODescriptor, DecisionType, OperatorType, ConditionType
    <3>2. \A pos : OperandOf(s, pos) = sco[s].operands[pos]
      BY <3>1 DEF OperandOf
    <3>3. \A pos \in Positions(s) : pos \in {"Left", "Right"}
      BY DEF Positions
    <3>4. \A pos \in Positions(s) :
             Child(s, sco[s].operands[pos]) /\ IsOperand(sco[s].operands[pos], s, pos)
      BY <1>3, <1>5, <2>1, <2>3, <3>2, <3>3 DEF IsOperand, Child
    <3>5. CASE sco[s].op = "Not"
      <4>1. "Right" \in Positions(s)
        BY <3>5 DEF Positions
      <4> QED
        BY <3>1, <3>4, <3>5, <4>1 DEF IsNegation
    <3>6. CASE sco[s].op # "Not"
      <4>1. "Right" \in Positions(s) /\ "Left" \in Positions(s)
        BY <3>1, <3>6 DEF Positions
      <4>2. sco[s].op \in {"AndThen", "OrElse"}
        BY <3>1, <3>6
      <4> QED
        BY <3>1, <3>4, <3>6, <4>1, <4>2 DEF IsShortCircuit
    <3> QED
      BY <3>5, <3>6
  <2> QED
    BY <2>2, <2>3
<1>8. ASSUME NEW s \in SCOs
      PROVE  /\ sco[s].parent \in 1..(s - 1)
             /\ sco[s].parent = Decision \/ sco[s].parent \in SCOs
             /\ \E pos \in {"Left", "Right"} : IsOperand(s, sco[s].parent, pos)
  <2>1. /\ sco[s].parent \in 1..(s - 1)
        /\ \E pos \in {"Left", "Right"} : IsOperand(s, sco[s].parent, pos)
    BY <1>4 DEF TreeGrows
  <2>2. sco[s].parent = Decision \/ sco[s].parent \in SCOs
    BY <1>1, <2>1 DEF SCOs, Decision
  <2> QED
    BY <2>1, <2>2
<1>9. HeightBound \in [SCOs -> 0..Len(sco)]
  <2>1. \A s \in SCOs : Len(sco) - s \in 0..Len(sco)
    BY <1>1 DEF SCOs
  <2> QED
    BY <2>1 DEF HeightBound
<1>10. \A s, x \in SCOs : s < x => HeightBound[x] < HeightBound[s]
  BY <1>1 DEF HeightBound, SCOs
<1>11. SCOs \subseteq Nat
  BY <1>4
<1> QED
  BY <1>1, <1>6, <1>7, <1>8, <1>9, <1>10, <1>11 DEF FinalTree

\* One step of Value
ValueStep(e, f, s) ==
  IF sco[s].kind = "Condition" THEN e[sco[s].index]
  ELSE CASE sco[s].op = "Not"     -> ~f[sco[s].operands["Right"]]
         [] sco[s].op = "AndThen" -> /\ f[sco[s].operands["Left"]]
                                     /\ f[sco[s].operands["Right"]]
         [] sco[s].op = "OrElse"  -> \/ f[sco[s].operands["Left"]]
                                     \/ f[sco[s].operands["Right"]]

LEMMA LeafValue ==
  ASSUME NEW e \in [CondIndexes -> BOOLEAN], NEW f, NEW s, IsLeaf(s)
  PROVE  ValueStep(e, f, s) = e[sco[s].index] /\ ValueStep(e, f, s) \in BOOLEAN
  BY DEF ValueStep, IsLeaf

LEMMA NegationValue ==
  ASSUME NEW e, NEW f, NEW s, IsNegation(s)
  PROVE  /\ ValueStep(e, f, s) = ~f[sco[s].operands["Right"]]
         /\ ValueStep(e, f, s) \in BOOLEAN
<1>1. ValueStep(e, f, s) = ~f[sco[s].operands["Right"]]
  BY DEF ValueStep, IsNegation
<1> QED
  BY <1>1

LEMMA ShortCircuitValue ==
  ASSUME NEW e, NEW f, NEW s, IsShortCircuit(s)
  PROVE  LET l == f[sco[s].operands["Left"]]
             r == f[sco[s].operands["Right"]]
         IN  /\ sco[s].op = "AndThen" => ValueStep(e, f, s) = (l /\ r)
             /\ sco[s].op = "OrElse" => ValueStep(e, f, s) = (l \/ r)
             /\ ValueStep(e, f, s) \in BOOLEAN
<1> DEFINE l == f[sco[s].operands["Left"]]
           r == f[sco[s].operands["Right"]]
<1>1. sco[s].op = "AndThen" => ValueStep(e, f, s) = (l /\ r)
  BY DEF ValueStep, IsShortCircuit
<1>2. sco[s].op = "OrElse" => ValueStep(e, f, s) = (l \/ r)
  BY DEF ValueStep, IsShortCircuit
<1>3. (l /\ r) \in BOOLEAN /\ (l \/ r) \in BOOLEAN
  OBVIOUS
<1>4. sco[s].op \in {"AndThen", "OrElse"}
  BY DEF IsShortCircuit
<1> QED
  BY <1>1, <1>2, <1>3, <1>4

IsValued(e, f) ==
  f \in [SCOs -> BOOLEAN] /\ \A s \in SCOs : f[s] = ValueStep(e, f, s)

LEMMA ValueFunction ==
  ASSUME FinalTree, NEW e \in [CondIndexes -> BOOLEAN]
  PROVE  IsValued(e, Value(e))
<1>1. PICK S, B, rank : S = SCOs /\ B = Len(sco) /\ rank = HeightBound
  OBVIOUS
<1>2. B \in Nat /\ rank \in [S -> 0..B] /\ rank \in [S -> Nat]
  BY <1>1 DEF FinalTree
<1>3. ASSUME NEW f, NEW s \in S PROVE ValueStep(e, f, s) \in BOOLEAN
  BY <1>1, LeafValue, NegationValue, ShortCircuitValue DEF FinalTree
<1>4. ASSUME NEW f, NEW g, NEW s \in S, \A y \in S : rank[y] < rank[s] => f[y] = g[y]
      PROVE  ValueStep(e, f, s) = ValueStep(e, g, s)
  <2>1. \A x : Child(s, x) => f[x] = g[x]
    BY <1>1, <1>4 DEF Child, FinalTree
  <2>2. CASE IsLeaf(s)
    BY <2>2, LeafValue
  <2>3. CASE IsNegation(s)
    BY <2>1, <2>3, NegationValue DEF IsNegation
  <2>4. CASE IsShortCircuit(s)
    <3>1. /\ f[sco[s].operands["Left"]] = g[sco[s].operands["Left"]]
          /\ f[sco[s].operands["Right"]] = g[sco[s].operands["Right"]]
      BY <2>1, <2>4 DEF IsShortCircuit
    <3> QED
      BY <3>1 DEF ValueStep
  <2> QED
    BY <1>1, <2>2, <2>3, <2>4 DEF FinalTree
<1>5. PICK G : G = [f \in [S -> BOOLEAN] |-> [s \in S |-> ValueStep(e, f, s)]]
  OBVIOUS
<1>6. G \in [[S -> BOOLEAN] -> [S -> BOOLEAN]]
  BY <1>3, <1>5
<1>7. PICK f \in [S -> BOOLEAN] : f = G[f]
  <2>1. ASSUME NEW f \in [S -> BOOLEAN], NEW g \in [S -> BOOLEAN], NEW s \in S,
               \A y \in S : rank[y] < rank[s] => f[y] = g[y]
        PROVE  G[f][s] = G[g][s]
    BY <1>4, <1>5, <2>1
  <2>2. PICK V : V = BOOLEAN
    OBVIOUS
  <2>3. LooksBelow(G, S, V, rank)
    BY <1>6, <2>1, <2>2 DEF LooksBelow
  <2>4. PICK v \in V : TRUE
    BY <2>2
  <2> QED
    BY <1>2, <2>2, <2>3, <2>4, RankRecursion
<1>8. f = [s \in S |-> ValueStep(e, f, s)]
  BY <1>5, <1>7
<1>9. PICK g : g = CHOOSE h : h = [s \in S |-> ValueStep(e, h, s)]
  OBVIOUS
<1>10. g = [s \in S |-> ValueStep(e, g, s)]
  BY <1>8, <1>9
<1>11. Value(e) = g
  BY <1>1, <1>9 DEF Value, ValueStep, SCOs
<1>12. g \in [S -> BOOLEAN]
  BY <1>3, <1>10
<1> QED
  BY <1>1, <1>10, <1>11, <1>12 DEF IsValued

\* The value of the left operand that decides short-circuit operator s
DecidingValue(s) == sco[s].op = "OrElse"

LEMMA DecidedValue ==
  ASSUME NEW e, NEW f, IsValued(e, f), NEW s, IsShortCircuit(s)
  PROVE  LET l == f[sco[s].operands["Left"]]
             r == f[sco[s].operands["Right"]]
         IN  /\ DecidingValue(s) \in BOOLEAN /\ l \in BOOLEAN /\ r \in BOOLEAN
             /\ l = DecidingValue(s) => f[s] = DecidingValue(s)
             /\ l # DecidingValue(s) => f[s] = r
<1>1. PICK l, r, k : /\ l = f[sco[s].operands["Left"]] /\ r = f[sco[s].operands["Right"]]
                     /\ k = DecidingValue(s)
  OBVIOUS
<1>2. l \in BOOLEAN /\ r \in BOOLEAN /\ f[s] = ValueStep(e, f, s) /\ s \in SCOs
  BY <1>1 DEF IsValued, IsShortCircuit, Child
<1>3. CASE sco[s].op = "AndThen"
  <2>1. k = FALSE
    BY <1>1, <1>3 DEF DecidingValue
  <2>2. f[s] = (l /\ r)
    BY <1>1, <1>2, <1>3, ShortCircuitValue
  <2> QED
    BY <1>1, <1>2, <2>1, <2>2
<1>4. CASE sco[s].op = "OrElse"
  <2>1. k = TRUE
    BY <1>1, <1>4 DEF DecidingValue
  <2>2. f[s] = (l \/ r)
    BY <1>1, <1>2, <1>4, ShortCircuitValue
  <2> QED
    BY <1>1, <1>2, <2>1, <2>2
<1> QED
  BY <1>3, <1>4 DEF IsShortCircuit

\* The conditions evaluated in each operand, given the values v of the operands
EvaluatedStep(v, f, s) ==
  IF sco[s].kind = "Condition" THEN {sco[s].index}
  ELSE IF sco[s].op = "Not" THEN f[sco[s].operands["Right"]]
  ELSE f[sco[s].operands["Left"]] \cup
         (IF v[sco[s].operands["Left"]] = DecidingValue(s) THEN {}
          ELSE f[sco[s].operands["Right"]])

IsEvaluatedIn(v, f) ==
  f \in [SCOs -> SUBSET CondIndexes] /\ \A s \in SCOs : f[s] = EvaluatedStep(v, f, s)

LEMMA EvaluatedSteps ==
  ASSUME NEW v, NEW f, NEW s
  PROVE  /\ IsLeaf(s) => EvaluatedStep(v, f, s) = {sco[s].index}
         /\ IsNegation(s) => EvaluatedStep(v, f, s) = f[sco[s].operands["Right"]]
         /\ IsShortCircuit(s) =>
              EvaluatedStep(v, f, s) =
                f[sco[s].operands["Left"]] \cup
                  (IF v[sco[s].operands["Left"]] = DecidingValue(s) THEN {}
                   ELSE f[sco[s].operands["Right"]])
  BY DEF EvaluatedStep, IsLeaf, IsNegation, IsShortCircuit

LEMMA EvaluatedInFunction ==
  ASSUME FinalTree, NEW v
  PROVE  \E f : IsEvaluatedIn(v, f)
<1>1. PICK S, B, rank, V :
         S = SCOs /\ B = Len(sco) /\ rank = HeightBound /\ V = SUBSET CondIndexes
  OBVIOUS
<1>2. B \in Nat /\ rank \in [S -> 0..B]
  BY <1>1 DEF FinalTree
<1>3. ASSUME NEW f \in [S -> V], NEW s \in S PROVE EvaluatedStep(v, f, s) \in V
  <2>1. \A x : Child(s, x) => f[x] \in V
    BY <1>1 DEF Child
  <2>2. CASE IsLeaf(s)
    BY <1>1, <2>2, EvaluatedSteps DEF IsLeaf
  <2>3. CASE IsNegation(s)
    BY <1>1, <2>1, <2>3, EvaluatedSteps DEF IsNegation
  <2>4. CASE IsShortCircuit(s)
    <3>1. f[sco[s].operands["Left"]] \in V /\ f[sco[s].operands["Right"]] \in V
      BY <2>1, <2>4 DEF IsShortCircuit
    <3> QED
      BY <1>1, <2>4, <3>1, EvaluatedSteps
  <2> QED
    BY <1>1, <2>2, <2>3, <2>4 DEF FinalTree
<1>4. ASSUME NEW f, NEW g, NEW s \in S, \A y \in S : rank[y] < rank[s] => f[y] = g[y]
      PROVE  EvaluatedStep(v, f, s) = EvaluatedStep(v, g, s)
  <2>1. \A x : Child(s, x) => f[x] = g[x]
    BY <1>1, <1>4 DEF Child, FinalTree
  <2>2. CASE IsLeaf(s)
    BY <2>2, EvaluatedSteps
  <2>3. CASE IsNegation(s)
    BY <2>1, <2>3, EvaluatedSteps DEF IsNegation
  <2>4. CASE IsShortCircuit(s)
    <3>1. /\ f[sco[s].operands["Left"]] = g[sco[s].operands["Left"]]
          /\ f[sco[s].operands["Right"]] = g[sco[s].operands["Right"]]
      BY <2>1, <2>4 DEF IsShortCircuit
    <3> QED
      BY <2>4, <3>1 DEF EvaluatedStep
  <2> QED
    BY <1>1, <2>2, <2>3, <2>4 DEF FinalTree
<1>5. PICK G : G = [f \in [S -> V] |-> [s \in S |-> EvaluatedStep(v, f, s)]]
  OBVIOUS
<1>6. G \in [[S -> V] -> [S -> V]]
  BY <1>3, <1>5
<1>7. PICK f \in [S -> V] : f = G[f]
  <2>1. ASSUME NEW f \in [S -> V], NEW g \in [S -> V], NEW s \in S,
               \A y \in S : rank[y] < rank[s] => f[y] = g[y]
        PROVE  G[f][s] = G[g][s]
    BY <1>4, <1>5, <2>1
  <2>2. LooksBelow(G, S, V, rank)
    BY <1>6, <2>1 DEF LooksBelow
  <2>3. PICK x \in V : TRUE
    BY <1>1
  <2> QED
    BY <1>2, <2>2, <2>3, RankRecursion
<1>8. f = [s \in S |-> EvaluatedStep(v, f, s)]
  BY <1>5, <1>7
<1> QED
  BY <1>1, <1>7, <1>8 DEF IsEvaluatedIn

----------------------------------------------------------------------------
(* Following the BDD is evaluating the expression.                         *)

\* The node that the evaluation of s starts from
Entry(o, s) == IF o[s] = 0 THEN bdd.root ELSE vec[o[s]].dest

\* Where it goes on from, once s has value b
Exit(d, s, b) == PatchJump(vec, d[s][b])

\* The shape of the BDD
FinalShape(d, o, j) ==
  /\ Skeleton(d, o, j)
  /\ d \in [1..Len(sco) -> [BOOLEAN -> Ids]] /\ o \in [1..Len(sco) -> Ids \cup {0}]
  /\ j \in [1..Len(sco) -> Ids]
  /\ \A c : IsLeaf(c) =>
       LET n == sco[c].node
       IN  /\ IsConditionNode(n) /\ vec[n].csco = c
           /\ \A b \in BOOLEAN : vec[n].dests[b] = Exit(d, c, b)
           /\ Entry(o, c) = n
           /\ o[c] # 0 => vec[o[c]].kind = "Jump"

LEMMA FinalShapeFound ==
  ASSUME FinalBDD, FinalTree, Shaped, Completed
  PROVE  \E d, o, j : FinalShape(d, o, j)
<1>1. PICK d \in [1..Len(sco) -> [BOOLEAN -> Ids]],
           o \in [1..Len(sco) -> Ids \cup {0}], j \in [1..Len(sco) -> Ids] :
             Skeleton(d, o, j) /\ Reflects(d, o)
  BY DEF Shaped
<1>2. ASSUME NEW c, IsLeaf(c)
      PROVE  LET n == sco[c].node
             IN  /\ IsConditionNode(n) /\ vec[n].csco = c
                 /\ \A b \in BOOLEAN : vec[n].dests[b] = Exit(d, c, b)
                 /\ Entry(o, c) = n
                 /\ o[c] # 0 => vec[o[c]].kind = "Jump"
  <2>1. c \in Conditions
    BY <1>2 DEF IsLeaf
  <2>2. phase # "scan"
    BY DEF Completed
  <2>3. IsConditionNode(sco[c].node) /\ vec[sco[c].node].csco = c
    BY <2>1 DEF FinalBDD
  <2>4. /\ \A b \in BOOLEAN : vec[sco[c].node].dests[b] = PatchJump(vec, d[c][b])
        /\ IF o[c] = 0 THEN bdd.root = sco[c].node
           ELSE vec[o[c]].kind = "Jump" /\ vec[o[c]].dest = sco[c].node
    BY <1>1, <2>1, <2>2 DEF Reflects
  <2> QED
    BY <2>3, <2>4 DEF Entry, Exit
<1> QED
  BY <1>1, <1>2 DEF FinalShape

NegatedAt(d, o, s, x) ==
  d[x][FALSE] = d[s][TRUE] /\ d[x][TRUE] = d[s][FALSE] /\ o[x] = o[s]

SplitAt(d, o, j, s, l, r, k) ==
  /\ d[l][k] = d[s][k] /\ d[l][~k] = j[s] /\ o[l] = o[s]
  /\ d[r] = d[s] /\ o[r] = j[s] /\ j[s] \in Ids

LEMMA OperandShape ==
  ASSUME NEW d, NEW o, NEW j, FinalShape(d, o, j), FinalTree, NEW s \in SCOs
  PROVE  /\ IsNegation(s) => NegatedAt(d, o, s, sco[s].operands["Right"])
         /\ IsShortCircuit(s) =>
              SplitAt(d, o, j, s, sco[s].operands["Left"], sco[s].operands["Right"],
                      DecidingValue(s))
<1>1. s \in 1..Len(sco)
  BY DEF SCOs, FinalTree
<1>2. \A x, pos : x \in SCOs /\ pos \in {"Left", "Right"} /\ IsOperand(x, s, pos) =>
        d[x] = LeadsTo(d, j, s, pos) /\ o[x] = StandsFor(o, j, s, pos)
  BY <1>1 DEF FinalShape, Skeleton, SCOs
<1>3. ASSUME IsNegation(s)
      PROVE  NegatedAt(d, o, s, sco[s].operands["Right"])
  <2>1. PICK x : x = sco[s].operands["Right"]
    OBVIOUS
  <2>2. d[x] = LeadsTo(d, j, s, "Right") /\ o[x] = StandsFor(o, j, s, "Right")
    BY <1>2, <1>3, <2>1 DEF IsNegation, Child
  <2>3. d[x] = Dests(d[s][TRUE], d[s][FALSE]) /\ o[x] = o[s]
    BY <1>3, <2>2 DEF LeadsTo, StandsFor, IsNegation
  <2> QED
    BY <2>1, <2>3 DEF Dests, NegatedAt
<1>4. ASSUME IsShortCircuit(s)
      PROVE  SplitAt(d, o, j, s, sco[s].operands["Left"], sco[s].operands["Right"],
                     DecidingValue(s))
  <2>1. PICK l, r : l = sco[s].operands["Left"] /\ r = sco[s].operands["Right"]
    OBVIOUS
  <2>2. /\ d[l] = LeadsTo(d, j, s, "Left") /\ o[l] = StandsFor(o, j, s, "Left")
        /\ d[r] = LeadsTo(d, j, s, "Right") /\ o[r] = StandsFor(o, j, s, "Right")
    BY <1>2, <1>4, <2>1 DEF IsShortCircuit, Child
  <2>3. d[l] = LeftDests(sco[s].op, [dests |-> d[s]], j[s]) /\ o[l] = o[s]
    BY <1>4, <2>2 DEF LeadsTo, StandsFor, IsShortCircuit
  <2>4. d[r] = d[s] /\ o[r] = j[s]
    BY <1>4, <2>2 DEF LeadsTo, StandsFor, IsShortCircuit
  <2>5. j[s] \in Ids
    BY <1>1 DEF FinalShape
  <2>6. PICK k : k = DecidingValue(s)
    OBVIOUS
  <2>7. d[l][k] = d[s][k] /\ d[l][~k] = j[s]
    <3>1. CASE sco[s].op = "AndThen"
      <4>1. k = FALSE
        BY <2>6, <3>1 DEF DecidingValue
      <4>2. d[l] = [b \in BOOLEAN |-> IF b THEN j[s] ELSE d[s][FALSE]]
        BY <2>3, <3>1 DEF LeftDests, Dests
      <4> QED
        BY <4>1, <4>2
    <3>2. CASE sco[s].op = "OrElse"
      <4>1. k = TRUE
        BY <2>6, <3>2 DEF DecidingValue
      <4>2. d[l] = [b \in BOOLEAN |-> IF b THEN d[s][TRUE] ELSE j[s]]
        BY <2>3, <3>2 DEF LeftDests, Dests
      <4> QED
        BY <4>1, <4>2
    <3> QED
      BY <1>4, <3>1, <3>2 DEF IsShortCircuit
  <2> QED
    BY <2>1, <2>3, <2>4, <2>5, <2>6, <2>7 DEF SplitAt
<1> QED
  BY <1>3, <1>4

Traverses(d, o, e, v, w, f, s) ==
  /\ o[s] # 0 => vec[o[s]].kind = "Jump"
  /\ f[Entry(o, s)] = Overlay(w[s], e, f[Exit(d, s, v[s])])

LEMMA LeafTraversed ==
  ASSUME FinalBDD, FinalTree, NEW d, NEW o, NEW j, FinalShape(d, o, j),
         NEW e \in [CondIndexes -> BOOLEAN], NEW v, IsValued(e, v),
         NEW w, IsEvaluatedIn(v, w), NEW f, IsFollowed(e, f), NEW s, IsLeaf(s)
  PROVE  Traverses(d, o, e, v, w, f, s)
<1>1. PICK n, i, b : n = sco[s].node /\ i = sco[s].index /\ b = v[s]
  OBVIOUS
<1>2. /\ IsConditionNode(n) /\ vec[n].csco = s /\ Entry(o, s) = n
      /\ \A a \in BOOLEAN : vec[n].dests[a] = Exit(d, s, a)
      /\ o[s] # 0 => vec[o[s]].kind = "Jump"
  BY <1>1 DEF FinalShape
<1>3. s \in SCOs /\ i \in CondIndexes
  BY <1>1 DEF IsLeaf
<1>4. b = e[i] /\ b \in BOOLEAN /\ b = ValueAt(e, n)
  BY <1>1, <1>2, <1>3, LeafValue DEF IsValued, ValueAt
<1>5. w[s] = {i}
  BY <1>1, <1>3, EvaluatedSteps DEF IsEvaluatedIn
<1>6. PICK m, r : m = vec[n].dests[b] /\ r = f[m]
  OBVIOUS
<1>7. n \in PathNodes /\ m \in PathNodes /\ m = Exit(d, s, b)
  BY <1>2, <1>4, <1>6, NextNode
<1>8. r \in EvaluationType /\ f[n] = FollowStep(e, f, n)
  BY <1>6, <1>7 DEF IsFollowed
<1>9. FollowStep(e, f, n) = Recorded(r, i, b)
  BY <1>1, <1>2, <1>4, <1>6, <1>7, FollowSteps
<1>10. Recorded(r, i, b) = Overlay({i}, e, r)
  BY <1>3, <1>4, <1>8, RecordedOverlay
<1> QED
  BY <1>1, <1>2, <1>5, <1>6, <1>7, <1>8, <1>9, <1>10 DEF Traverses

LEMMA NegationTraversed ==
  ASSUME FinalTree, NEW d, NEW o, NEW j, FinalShape(d, o, j),
         NEW e \in [CondIndexes -> BOOLEAN], NEW v, IsValued(e, v),
         NEW w, IsEvaluatedIn(v, w), NEW f, NEW s, IsNegation(s),
         Traverses(d, o, e, v, w, f, sco[s].operands["Right"])
  PROVE  Traverses(d, o, e, v, w, f, s)
<1>1. PICK x : x = sco[s].operands["Right"]
  OBVIOUS
<1>2. s \in SCOs /\ x \in SCOs
  BY <1>1 DEF IsNegation, Child
<1>3. d[x][FALSE] = d[s][TRUE] /\ d[x][TRUE] = d[s][FALSE] /\ o[x] = o[s]
  <2>1. NegatedAt(d, o, s, x)
    BY <1>1, <1>2, OperandShape
  <2> QED
    BY <2>1 DEF NegatedAt
<1>4. v[s] = ~v[x] /\ v[x] \in BOOLEAN
  BY <1>1, <1>2, NegationValue DEF IsValued
<1>5. w[s] = w[x]
  BY <1>1, <1>2, EvaluatedSteps DEF IsEvaluatedIn
<1>6. d[x][v[x]] = d[s][v[s]]
  <2>1. CASE v[x] = TRUE
    <3>1. v[s] = FALSE
      BY <1>4, <2>1
    <3> QED
      BY <1>3, <2>1, <3>1
  <2>2. CASE v[x] = FALSE
    <3>1. v[s] = TRUE
      BY <1>4, <2>2
    <3> QED
      BY <1>3, <2>2, <3>1
  <2> QED
    BY <1>4, <2>1, <2>2
<1>7. Exit(d, x, v[x]) = Exit(d, s, v[s]) /\ Entry(o, x) = Entry(o, s)
  BY <1>3, <1>6 DEF Exit, Entry
<1> QED
  BY <1>1, <1>3, <1>5, <1>7 DEF Traverses

LEMMA ShortCircuitTraversed ==
  ASSUME FinalTree, NEW d, NEW o, NEW j, FinalShape(d, o, j), Ids \subseteq Nat \ {0},
         NEW e \in [CondIndexes -> BOOLEAN], NEW v, IsValued(e, v),
         NEW w, IsEvaluatedIn(v, w), NEW f, NEW s, IsShortCircuit(s),
         Traverses(d, o, e, v, w, f, sco[s].operands["Left"]),
         Traverses(d, o, e, v, w, f, sco[s].operands["Right"])
  PROVE  Traverses(d, o, e, v, w, f, s)
<1>1. PICK l, r, k :
         l = sco[s].operands["Left"] /\ r = sco[s].operands["Right"] /\ k = DecidingValue(s)
  OBVIOUS
<1>2. s \in SCOs /\ l \in SCOs /\ r \in SCOs
  BY <1>1 DEF IsShortCircuit, Child
<1>3. /\ d[l][k] = d[s][k] /\ d[l][~k] = j[s] /\ o[l] = o[s]
      /\ d[r] = d[s] /\ o[r] = j[s] /\ j[s] \in Ids /\ j[s] # 0
  <2>1. SplitAt(d, o, j, s, l, r, k)
    BY <1>1, <1>2, OperandShape
  <2> QED
    BY <2>1 DEF SplitAt
<1>4. /\ k \in BOOLEAN /\ v[l] \in BOOLEAN /\ v[r] \in BOOLEAN
      /\ v[l] = k => v[s] = k
      /\ v[l] # k => v[s] = v[r]
  BY <1>1, DecidedValue
<1>5. w[s] = w[l] \cup (IF v[l] = k THEN {} ELSE w[r])
  BY <1>1, <1>2, EvaluatedSteps DEF IsEvaluatedIn
<1>6. /\ o[l] # 0 => vec[o[l]].kind = "Jump"
      /\ f[Entry(o, l)] = Overlay(w[l], e, f[Exit(d, l, v[l])])
      /\ o[r] # 0 => vec[o[r]].kind = "Jump"
      /\ f[Entry(o, r)] = Overlay(w[r], e, f[Exit(d, r, v[r])])
  BY <1>1 DEF Traverses
<1>7. Entry(o, l) = Entry(o, s)
  BY <1>3 DEF Entry
<1>8. CASE v[l] = k
  <2>1. Exit(d, l, v[l]) = Exit(d, s, v[s])
    BY <1>3, <1>4, <1>8 DEF Exit
  <2>2. w[s] = w[l]
    BY <1>5, <1>8
  <2> QED
    BY <1>3, <1>6, <1>7, <2>1, <2>2 DEF Traverses
<1>9. CASE v[l] # k
  <2>1. v[l] = ~k
    BY <1>4, <1>9
  <2>2. Exit(d, l, v[l]) = Entry(o, r)
    <3>1. d[l][v[l]] = j[s]
      BY <1>3, <2>1
    <3>2. vec[j[s]].kind = "Jump"
      BY <1>3, <1>6
    <3> QED
      BY <1>3, <3>1, <3>2 DEF Exit, Entry, PatchJump
  <2>3. Exit(d, r, v[r]) = Exit(d, s, v[s])
    BY <1>3, <1>4, <1>9 DEF Exit
  <2>4. f[Entry(o, s)] = Overlay(w[l], e, Overlay(w[r], e, f[Exit(d, s, v[s])]))
    BY <1>6, <1>7, <2>2, <2>3
  <2>5. w[s] = w[l] \cup w[r]
    BY <1>5, <1>9
  <2> QED
    BY <1>3, <1>6, <2>4, <2>5, OverlayTwice DEF Traverses
<1> QED
  BY <1>8, <1>9

LEMMA OperandsTraversed ==
  ASSUME FinalBDD, FinalTree, NEW d, NEW o, NEW j, FinalShape(d, o, j),
         Ids \subseteq Nat \ {0},
         NEW e \in [CondIndexes -> BOOLEAN], NEW v, IsValued(e, v),
         NEW w, IsEvaluatedIn(v, w), NEW f, IsFollowed(e, f)
  PROVE  \A s \in SCOs : Traverses(d, o, e, v, w, f, s)
<1>1. PICK P : P = {s \in SCOs : Traverses(d, o, e, v, w, f, s)}
  OBVIOUS
<1>2. ASSUME NEW s \in SCOs, \A y \in SCOs : HeightBound[y] < HeightBound[s] => y \in P
      PROVE  Traverses(d, o, e, v, w, f, s)
  <2>1. \A x : Child(s, x) => Traverses(d, o, e, v, w, f, x)
    BY <1>1, <1>2 DEF Child, FinalTree
  <2>2. CASE IsLeaf(s)
    BY <2>2, LeafTraversed
  <2>3. CASE IsNegation(s)
    <3>1. Traverses(d, o, e, v, w, f, sco[s].operands["Right"])
      BY <2>1, <2>3 DEF IsNegation
    <3> QED
      BY <2>3, <3>1, NegationTraversed
  <2>4. CASE IsShortCircuit(s)
    <3>1. /\ Traverses(d, o, e, v, w, f, sco[s].operands["Left"])
          /\ Traverses(d, o, e, v, w, f, sco[s].operands["Right"])
      BY <2>1, <2>4 DEF IsShortCircuit
    <3> QED
      BY <2>4, <3>1, ShortCircuitTraversed
  <2> QED
    BY <2>2, <2>3, <2>4 DEF FinalTree
<1>3. HeightBound \in [SCOs -> Nat]
  BY DEF FinalTree
<1>4. SCOs \subseteq P
  BY <1>1, <1>2, <1>3, RankInduction
<1> QED
  BY <1>1, <1>4

\* What is followed from the root: the value of the expression, and those of
\* the conditions that its evaluation needs
LEMMA RootFollowed ==
  ASSUME FinalBDD, FinalTree, NEW d, NEW o, NEW j, FinalShape(d, o, j),
         Ids \subseteq Nat \ {0},
         NEW e \in [CondIndexes -> BOOLEAN], NEW v, IsValued(e, v),
         NEW w, IsEvaluatedIn(v, w), NEW f, IsFollowed(e, f)
  PROVE  LET x == sco[Decision].expr
         IN  f[bdd.root] = [values |-> [i \in CondIndexes |-> IF i \in w[x] THEN ToTristate(e[i])
                                                              ELSE "Unknown"],
                            outcome |-> v[x]]
<1>1. PICK x, b : x = sco[Decision].expr /\ b = v[x]
  OBVIOUS
<1>2. x \in SCOs /\ IsOperand(x, Decision, "Right") /\ b \in BOOLEAN
  BY <1>1 DEF FinalTree, IsValued
<1>3. Traverses(d, o, e, v, w, f, x)
  BY <1>2, OperandsTraversed
<1>4. Decision \in 1..Len(sco) /\ x \in 2..Len(sco)
  BY <1>2 DEF SCOs, FinalTree, Decision
<1>5. d[x] = LeadsTo(d, j, Decision, "Right") /\ o[x] = StandsFor(o, j, Decision, "Right")
  BY <1>2, <1>4 DEF FinalShape, Skeleton
<1>6. d[x] = Dests(ExitFalse, ExitTrue) /\ o[x] = 0
  BY <1>5 DEF LeadsTo, StandsFor, FinalTree, FinalShape, Skeleton
<1>7. PICK n : n = (IF b THEN ExitTrue ELSE ExitFalse)
  OBVIOUS
<1>8. IsExit(n) /\ n \in PathNodes /\ b = (n = ExitTrue)
  BY <1>2, <1>7 DEF FinalBDD, Exits, IsExit, ExitFalse, ExitTrue
<1>9. Entry(o, x) = bdd.root /\ Exit(d, x, b) = n
  BY <1>2, <1>6, <1>7, <1>8 DEF Entry, Exit, Dests, PatchJump, IsExit
<1>10. f[n] = Nothing(b)
  BY <1>8, FollowSteps DEF IsFollowed
<1>11. f[bdd.root] = Overlay(w[x], e, Nothing(b))
  BY <1>1, <1>3, <1>9, <1>10 DEF Traverses
<1> QED
  BY <1>1, <1>11 DEF Overlay, Nothing

----------------------------------------------------------------------------
(* The conditions evaluated, from the root of the expression down.         *)

NeededStep(v, f, s) ==
  LET p == sco[s].parent
  IN  IF s = Decision THEN TRUE
      ELSE /\ f[p]
           /\ \/ sco[p].kind = "Decision"
              \/ sco[p].op = "Not"
              \/ sco[p].operands["Left"] = s
              \/ ~(v[sco[p].operands["Left"]] = DecidingValue(p))

IsNeeded(v, f) ==
  f \in [1..Len(sco) -> BOOLEAN] /\ \A s \in 1..Len(sco) : f[s] = NeededStep(v, f, s)

LEMMA NeededFunction ==
  ASSUME FinalTree, NEW e
  PROVE  \E f : /\ IsNeeded(Value(e), f)
                /\ Evaluated(e) = {sco[s].index : s \in {c \in Conditions : f[c]}}
<1>1. PICK S, B, rank, v :
         S = 1..Len(sco) /\ B = Len(sco) /\ rank = [s \in S |-> s] /\ v = Value(e)
  OBVIOUS
<1>2. B \in Nat /\ rank \in [S -> 0..B]
  BY <1>1 DEF FinalTree
<1>3. ASSUME NEW f, NEW s \in S PROVE NeededStep(v, f, s) \in BOOLEAN
  BY DEF NeededStep
<1>4. ASSUME NEW f, NEW g, NEW s \in S, \A y \in S : rank[y] < rank[s] => f[y] = g[y]
      PROVE  NeededStep(v, f, s) = NeededStep(v, g, s)
  <2>1. CASE s = Decision
    BY <2>1 DEF NeededStep
  <2>2. CASE s # Decision
    <3>1. PICK p : p = sco[s].parent
      OBVIOUS
    <3>2. s \in SCOs /\ Len(sco) \in Nat
      BY <1>1, <2>2 DEF FinalTree, SCOs, Decision
    <3>3. p \in 1..(s - 1)
      BY <3>1, <3>2 DEF FinalTree
    <3>4. p \in S /\ p < s
      BY <1>1, <3>2, <3>3 DEF SCOs
    <3>5. f[p] = g[p]
      BY <1>1, <1>4, <3>4
    <3> QED
      BY <3>1, <3>5 DEF NeededStep
  <2> QED
    BY <2>1, <2>2
<1>5. PICK G : G = [f \in [S -> BOOLEAN] |-> [s \in S |-> NeededStep(v, f, s)]]
  OBVIOUS
<1>6. G \in [[S -> BOOLEAN] -> [S -> BOOLEAN]]
  BY <1>3, <1>5
<1>7. PICK f \in [S -> BOOLEAN] : f = G[f]
  <2>1. ASSUME NEW f \in [S -> BOOLEAN], NEW g \in [S -> BOOLEAN], NEW s \in S,
               \A y \in S : rank[y] < rank[s] => f[y] = g[y]
        PROVE  G[f][s] = G[g][s]
    BY <1>4, <1>5, <2>1
  <2>2. PICK V : V = BOOLEAN
    OBVIOUS
  <2>3. LooksBelow(G, S, V, rank)
    BY <1>6, <2>1, <2>2 DEF LooksBelow
  <2>4. PICK x \in V : TRUE
    BY <2>2
  <2> QED
    BY <1>2, <2>2, <2>3, <2>4, RankRecursion
<1>8. f = [s \in S |-> NeededStep(v, f, s)]
  BY <1>5, <1>7
<1>9. PICK g : g = CHOOSE h : h = [s \in S |-> NeededStep(v, h, s)]
  OBVIOUS
<1>10. g = [s \in S |-> NeededStep(v, g, s)]
  BY <1>8, <1>9
<1>11. Evaluated(e) = {sco[s].index : s \in {c \in Conditions : g[c]}}
  BY <1>1, <1>9 DEF Evaluated, NeededStep, DecidingValue
<1>12. IsNeeded(v, g)
  BY <1>1, <1>3, <1>10 DEF IsNeeded
<1> QED
  BY <1>1, <1>11, <1>12

\* What is evaluated in an SCO that is evaluated is evaluated
LEMMA EvaluatedDown ==
  ASSUME FinalTree, NEW v, NEW u, IsNeeded(v, u), NEW w, IsEvaluatedIn(v, w),
         NEW i
  PROVE  \A s \in SCOs : u[s] /\ i \in w[s] =>
                            \E c \in Conditions : u[c] /\ sco[c].index = i
<1>1. PICK P : P = {s \in SCOs : u[s] /\ i \in w[s] =>
                                   \E c \in Conditions : u[c] /\ sco[c].index = i}
  OBVIOUS
<1>2. ASSUME NEW s \in SCOs, \A y \in SCOs : HeightBound[y] < HeightBound[s] => y \in P
      PROVE  s \in P
  <2> SUFFICES ASSUME u[s], i \in w[s]
               PROVE  \E c \in Conditions : u[c] /\ sco[c].index = i
    BY <1>1
  <2>1. \A x : Child(s, x) => x \in P
    BY <1>2 DEF Child, FinalTree
  <2>2. \A x : x \in P /\ u[x] /\ i \in w[x] => \E c \in Conditions : u[c] /\ sco[c].index = i
    BY <1>1
  <2>3. w[s] = EvaluatedStep(v, w, s)
    BY DEF IsEvaluatedIn
  <2>4. \A x \in SCOs : x \in 1..Len(sco) /\ x # Decision
    BY DEF SCOs, FinalTree, Decision
  <2>5. CASE IsLeaf(s)
    BY <2>3, <2>5, EvaluatedSteps DEF IsLeaf
  <2>6. CASE IsNegation(s)
    <3>1. PICK x : x = sco[s].operands["Right"]
      OBVIOUS
    <3>2. x \in P /\ x \in SCOs /\ i \in w[x]
      BY <2>1, <2>3, <2>6, <3>1, EvaluatedSteps DEF IsNegation, Child
    <3>3. sco[x].parent = s
      BY <2>6, <3>1 DEF IsNegation, Child
    <3>4. u[x] = NeededStep(v, u, x)
      BY <2>4, <3>2 DEF IsNeeded
    <3>5. u[x]
      BY <2>4, <2>6, <3>2, <3>3, <3>4 DEF NeededStep, IsNegation
    <3> QED
      BY <2>2, <3>2, <3>5
  <2>7. CASE IsShortCircuit(s)
    <3>1. PICK l, r : l = sco[s].operands["Left"] /\ r = sco[s].operands["Right"]
      OBVIOUS
    <3>2. l \in P /\ r \in P /\ l \in SCOs /\ r \in SCOs
      BY <2>1, <2>7, <3>1 DEF IsShortCircuit, Child
    <3>3. sco[l].parent = s /\ sco[r].parent = s
      BY <2>7, <3>1 DEF IsShortCircuit, Child
    <3>4. u[l] = NeededStep(v, u, l) /\ u[r] = NeededStep(v, u, r)
      BY <2>4, <3>2 DEF IsNeeded
    <3>5. w[s] = w[l] \cup (IF v[l] = DecidingValue(s) THEN {} ELSE w[r])
      BY <2>3, <2>7, <3>1, EvaluatedSteps
    <3>6. u[l]
      BY <2>4, <3>1, <3>2, <3>3, <3>4 DEF NeededStep
    <3>7. v[l] # DecidingValue(s) => u[r]
      BY <2>4, <3>1, <3>2, <3>3, <3>4 DEF NeededStep
    <3> QED
      BY <2>2, <3>2, <3>5, <3>6, <3>7
  <2> QED
    BY <2>5, <2>6, <2>7 DEF FinalTree
<1>3. HeightBound \in [SCOs -> Nat]
  BY DEF FinalTree
<1>4. SCOs \subseteq P
  BY <1>2, <1>3, RankInduction
<1> QED
  BY <1>1, <1>4

\* A condition evaluated is evaluated in the whole expression
LEMMA EvaluatedUp ==
  ASSUME FinalTree, NEW v, NEW u, IsNeeded(v, u), NEW w, IsEvaluatedIn(v, w),
         NEW c \in Conditions, u[c]
  PROVE  sco[c].index \in w[sco[Decision].expr]
<1>1. PICK i, T : i = sco[c].index /\ T = {s \in SCOs : u[s] /\ i \in w[s]}
  OBVIOUS
<1>2. c \in SCOs /\ IsLeaf(c)
  <2>1. c \in 1..Len(sco) /\ sco[c].kind = "Condition"
    BY DEF Conditions
  <2>2. c # Decision
    BY <2>1 DEF FinalTree
  <2>3. c \in SCOs
    BY <2>1, <2>2 DEF SCOs, Decision, FinalTree
  <2> QED
    BY <2>1, <2>3 DEF FinalTree, IsNegation, IsShortCircuit
<1>3. c \in T
  BY <1>1, <1>2, EvaluatedSteps DEF IsEvaluatedIn
<1>4. PICK m \in T : \A n \in T : m <= n
  <2>1. T \in SUBSET Nat /\ T # {}
    BY <1>1, <1>3 DEF FinalTree
  <2> QED
    BY <2>1, Least
<1>5. PICK p : p = sco[m].parent
  OBVIOUS
<1>6. /\ m \in SCOs /\ u[m] /\ i \in w[m] /\ p \in 1..(m - 1)
      /\ p = Decision \/ p \in SCOs
      /\ \E pos \in {"Left", "Right"} : IsOperand(m, p, pos)
  BY <1>1, <1>4, <1>5 DEF FinalTree
<1>7. m \in 1..Len(sco) /\ m # Decision /\ m \in Nat /\ p < m
  BY <1>6 DEF SCOs, FinalTree, Decision
<1>8. u[m] = NeededStep(v, u, m)
  BY <1>7 DEF IsNeeded
<1>9. PICK pos \in {"Left", "Right"} : IsOperand(m, p, pos)
  BY <1>6
<1>10. CASE p = Decision
  <2>1. m = sco[Decision].expr
    BY <1>9, <1>10 DEF IsOperand, OperandOf, FinalTree
  <2> QED
    BY <1>1, <1>6, <2>1
<1>11. CASE p \in SCOs
  <2>1. sco[p].kind # "Condition"
    BY <1>9 DEF IsOperand
  <2>2. u[p]
    BY <1>5, <1>6, <1>7, <1>8 DEF NeededStep
  <2>3. w[p] = EvaluatedStep(v, w, p)
    BY <1>11 DEF IsEvaluatedIn
  <2>4. i \in w[p]
    <3>1. CASE IsNegation(p)
      <4>1. m = sco[p].operands["Right"]
        BY <1>9, <3>1 DEF IsOperand, OperandOf, Positions, IsNegation
      <4> QED
        BY <1>6, <2>3, <3>1, <4>1, EvaluatedSteps
    <3>2. CASE IsShortCircuit(p)
      <4>1. w[p] = w[sco[p].operands["Left"]] \cup
                     (IF v[sco[p].operands["Left"]] = DecidingValue(p) THEN {}
                      ELSE w[sco[p].operands["Right"]])
        BY <2>3, <3>2, EvaluatedSteps
      <4>2. m = sco[p].operands["Left"] \/ m = sco[p].operands["Right"]
        BY <1>9, <3>2 DEF IsOperand, OperandOf, IsShortCircuit
      <4>3. \/ sco[p].operands["Left"] = m
            \/ ~(v[sco[p].operands["Left"]] = DecidingValue(p))
        BY <1>5, <1>6, <1>7, <1>8, <3>2 DEF NeededStep, IsShortCircuit
      <4> QED
        BY <1>6, <4>1, <4>2, <4>3
    <3> QED
      BY <1>11, <2>1, <3>1, <3>2 DEF FinalTree, IsLeaf
  <2>5. p \in T
    BY <1>1, <1>11, <2>2, <2>4
  <2>6. m <= p
    BY <1>4, <2>5
  <2>7. p \in Nat
    BY <1>11 DEF FinalTree
  <2> QED
    BY <1>7, <2>6, <2>7
<1> QED
  BY <1>6, <1>10, <1>11

LEMMA EvaluatedInExpression ==
  ASSUME FinalTree, NEW e, NEW w, IsEvaluatedIn(Value(e), w)
  PROVE  Evaluated(e) = w[sco[Decision].expr]
<1>1. PICK v : v = Value(e)
  OBVIOUS
<1>2. PICK u : /\ IsNeeded(v, u)
               /\ Evaluated(e) = {sco[s].index : s \in {c \in Conditions : u[c]}}
  BY <1>1, NeededFunction
<1>3. PICK x : x = sco[Decision].expr
  OBVIOUS
<1>4. x \in SCOs /\ IsOperand(x, Decision, "Right")
  BY <1>3 DEF FinalTree
<1>5. u[x]
  <2>1. x \in 1..Len(sco) /\ x # Decision /\ Decision \in 1..Len(sco)
    BY <1>4 DEF SCOs, FinalTree, Decision
  <2>2. u[x] = NeededStep(v, u, x) /\ u[Decision] = NeededStep(v, u, Decision)
    BY <1>2, <2>1 DEF IsNeeded
  <2>3. sco[x].parent = Decision
    BY <1>3, <1>4 DEF FinalTree
  <2> QED
    BY <2>1, <2>2, <2>3 DEF NeededStep, FinalTree
<1>6. ASSUME NEW i \in w[x] PROVE i \in Evaluated(e)
  <2>1. PICK c \in Conditions : u[c] /\ sco[c].index = i
    BY <1>1, <1>2, <1>4, <1>5, <1>6, EvaluatedDown
  <2> QED
    BY <1>2, <2>1
<1>7. ASSUME NEW i \in Evaluated(e) PROVE i \in w[x]
  <2>1. PICK c \in Conditions : u[c] /\ sco[c].index = i
    BY <1>2, <1>7
  <2> QED
    BY <1>1, <1>2, <1>3, <2>1, EvaluatedUp
<1> QED
  BY <1>3, <1>6, <1>7

----------------------------------------------------------------------------
(* The theorem.                                                            *)

\* A completed BDD and its expression
LEMMA CompletedFinal ==
  ASSUME PathIInv, Completed
  PROVE  FinalBDD /\ FinalTree /\ Ids \subseteq Nat \ {0}
<1>1. IInv /\ ExitsFixed /\ TreeGrows /\ NodesNumbered
  BY DEF PathIInv
<1>2. Ids \subseteq Nat \ {0}
  BY <1>1 DEF IInv, TypeOK, Ids
<1> QED
  BY <1>1, <1>2, FinalNodes, FinalOperands

LEMMA FollowedReference ==
  ASSUME PathIInv, Completed, NEW e \in [CondIndexes -> BOOLEAN], NEW f, IsFollowed(e, f)
  PROVE  f[bdd.root] = ReferenceEvaluation(e)
<1>1. FinalBDD /\ FinalTree /\ Ids \subseteq Nat \ {0}
  BY CompletedFinal
<1>2. PICK d, o, j : FinalShape(d, o, j)
  BY <1>1, FinalShapeFound DEF PathIInv
<1>3. PICK v : v = Value(e)
  OBVIOUS
<1>4. IsValued(e, v)
  BY <1>1, <1>3, ValueFunction
<1>5. PICK w : IsEvaluatedIn(v, w)
  BY <1>1, EvaluatedInFunction
<1>6. PICK x : x = sco[Decision].expr
  OBVIOUS
<1>7. f[bdd.root] = [values |-> [i \in CondIndexes |-> IF i \in w[x] THEN ToTristate(e[i])
                                                       ELSE "Unknown"],
                     outcome |-> v[x]]
  BY <1>1, <1>2, <1>4, <1>5, <1>6, RootFollowed
<1>8. Evaluated(e) = w[x] /\ ExpressionValue(e) = v[x]
  BY <1>1, <1>3, <1>5, <1>6, EvaluatedInExpression DEF ExpressionValue
<1> QED
  BY <1>7, <1>8 DEF ReferenceEvaluation

LEMMA ConditionsDesignated ==
  ASSUME PathIInv, Completed, NEW s \in Conditions
  PROVE  ConditionAt(sco[s].index) = s
<1> DEFINE Before(n) == {m \in NodesOf("Condition") : m < n}
<1>1. /\ NodesOf("Condition") \subseteq Nat
      /\ \A n \in NodesOf("Condition") : IsFiniteSet(Before(n))
  <2>1. Len(vec) \in Nat
    BY DEF PathIInv, IInv, TypeOK
  <2>2. IsFiniteSet(1..Len(vec))
    BY <2>1, FS_Interval
  <2>3. \A n \in NodesOf("Condition") : Before(n) \subseteq 1..Len(vec)
    BY DEF NodesOf
  <2> QED
    BY <2>1, <2>2, <2>3, FS_Subset DEF NodesOf
<1>2. ASSUME NEW m \in NodesOf("Condition"), NEW n \in NodesOf("Condition"), m < n
      PROVE  Cardinality(Before(m)) # Cardinality(Before(n))
  <2>1. m \in Before(n) /\ m \notin Before(m) /\ Before(m) \subseteq Before(n)
    BY <1>1, <1>2
  <2>2. IsFiniteSet(Before(n)) /\ IsFiniteSet(Before(m))
    BY <1>1
  <2>3. PICK A, B : A = Before(m) /\ B = Before(n)
    OBVIOUS
  <2>4. Cardinality(A) = Cardinality(B) => A = B
    BY <2>1, <2>2, <2>3, FS_Subset
  <2> QED
    BY <2>1, <2>3, <2>4
<1>3. PICK n : n = sco[s].node
  OBVIOUS
<1>4. n \in NodesOf("Condition") /\ vec[n].csco = s /\ Cardinality(Before(n)) = sco[s].index
  BY <1>3 DEF PathIInv, NodesNumbered
<1> HIDE DEF Before
<1>5. \A m \in NodesOf("Condition") : Cardinality(Before(m)) = sco[s].index => m = n
  <2>1. \A m \in NodesOf("Condition") : m < n \/ n < m \/ m = n
    BY <1>1, <1>4
  <2> QED
    BY <1>2, <1>4, <2>1
<1>6. n = CHOOSE m \in NodesOf("Condition") : Cardinality(Before(m)) = sco[s].index
  BY <1>4, <1>5
<1> QED
  BY <1>4, <1>6 DEF ConditionAt, Before

\* The index that the condition witnesses accumulate along any evaluation is
\* one of the decision's, and Condition_Values decodes it into the values and
\* the outcome of that evaluation of the short-circuit expression
THEOREM PathIndexDecodes == Spec => []PathIndexRoundTrip
<1>1. PathIInv => PathIndexRoundTrip
  <2> SUFFICES ASSUME PathIInv, Completed
               PROVE  /\ \A s \in Conditions : ConditionAt(sco[s].index) = s
                      /\ \A e \in Environments :
                           /\ PathIndex(e) \in 0..(bdd.pathCount - 1)
                           /\ ConditionValues(PathIndex(e)) = ReferenceEvaluation(e)
    BY DEF PathIndexRoundTrip
  <2>1. IInv /\ FinalBDD
    BY CompletedFinal DEF PathIInv
  <2>2. ASSUME NEW e \in Environments
        PROVE  /\ PathIndex(e) \in 0..(bdd.pathCount - 1)
               /\ ConditionValues(PathIndex(e)) = ReferenceEvaluation(e)
    <3>1. e \in [CondIndexes -> BOOLEAN]
      BY EnvironmentEdge
    <3>2. PICK f : IsFollowed(e, f)
      BY <2>1, <3>1, FollowFunction
    <3>3. f[bdd.root] = ReferenceEvaluation(e)
      BY <3>1, <3>2, FollowedReference
    <3> QED
      BY <2>1, <3>2, <3>3, RoundTrip
  <2> QED
    BY <2>2, ConditionsDesignated
<1> QED
  BY <1>1, PathInvariance, PTL

----------------------------------------------------------------------------
(* Valuations that agree on what is evaluated follow the same path.        *)

\* a and b agree on the conditions that r has values for
AgreeOn(r, a, b) == \A i \in CondIndexes : r.values[i] # "Unknown" => a[i] = b[i]

LEMMA RecordedValues ==
  ASSUME NEW r \in EvaluationType, NEW i \in CondIndexes, NEW v \in BOOLEAN
  PROVE  LET q == Recorded(r, i, v)
         IN  /\ q \in EvaluationType /\ q.outcome = r.outcome
             /\ q.values[i] = ToTristate(v) /\ q.values[i] # "Unknown"
             /\ \A k \in CondIndexes : k # i => q.values[k] = r.values[k]
<1>1. r = [values |-> r.values, outcome |-> r.outcome]
      /\ r.values \in [CondIndexes -> Tristate] /\ r.outcome \in BOOLEAN
  BY DEF EvaluationType
<1>2. Recorded(r, i, v) = [values |-> [r.values EXCEPT ![i] = ToTristate(v)], outcome |-> r.outcome]
  BY <1>1 DEF Recorded
<1>3. ToTristate(v) # "Unknown"
  BY DEF ToTristate
<1> QED
  BY <1>1, <1>2, <1>3, RecordedType

LEMMA TristateOne ==
  ASSUME NEW a \in BOOLEAN, NEW b \in BOOLEAN
  PROVE  ToTristate(a) = ToTristate(b) => a = b
  BY DEF ToTristate

\* The successor that valuation e follows from condition node n
Successor(e, n) == vec[n].dests[ValueAt(e, n)]

NodeIndex(n) == sco[vec[n].csco].index

LEMMA FollowCondition ==
  ASSUME FinalBDD, NEW e \in [CondIndexes -> BOOLEAN], NEW f, IsFollowed(e, f),
         NEW n, IsConditionNode(n)
  PROVE  /\ n \in PathNodes /\ NodeIndex(n) \in CondIndexes
         /\ ValueAt(e, n) \in BOOLEAN /\ ValueAt(e, n) = e[NodeIndex(n)]
         /\ Successor(e, n) \in PathNodes /\ NodeRank[Successor(e, n)] < NodeRank[n]
         /\ f[n] \in EvaluationType /\ f[Successor(e, n)] \in EvaluationType
         /\ f[n] = Recorded(f[Successor(e, n)], NodeIndex(n), ValueAt(e, n))
         /\ f[n].outcome = f[Successor(e, n)].outcome
         /\ f[n].values[NodeIndex(n)] = ToTristate(ValueAt(e, n))
         /\ f[n].values[NodeIndex(n)] # "Unknown"
         /\ \A k \in CondIndexes :
              k # NodeIndex(n) => f[n].values[k] = f[Successor(e, n)].values[k]
<1>1. PICK i, v, m : i = NodeIndex(n) /\ v = ValueAt(e, n) /\ m = Successor(e, n)
  OBVIOUS
<1>2. n \in PathNodes /\ i \in CondIndexes /\ v \in BOOLEAN /\ v = e[i]
  BY <1>1, ValueAtType DEF IsConditionNode, NodeIndex, ValueAt
<1>3. m = vec[n].dests[v]
  BY <1>1 DEF Successor
<1>4. m \in PathNodes /\ NodeRank[m] < NodeRank[n]
  BY <1>2, <1>3, NextNode
<1>5. f[n] = FollowStep(e, f, n) /\ f[m] \in EvaluationType /\ f[n] \in EvaluationType
  BY <1>2, <1>4 DEF IsFollowed
<1>6. f[n] = Recorded(f[m], i, v)
  BY <1>1, <1>3, <1>5 DEF FollowStep, NodeIndex, IsConditionNode
<1>7. PICK q, r : r = f[m] /\ q = Recorded(r, i, v)
  OBVIOUS
<1>8. /\ q.outcome = r.outcome
      /\ q.values[i] = ToTristate(v) /\ q.values[i] # "Unknown"
      /\ \A k \in CondIndexes : k # i => q.values[k] = r.values[k]
  BY <1>2, <1>5, <1>7, RecordedValues
<1> QED
  BY <1>1, <1>2, <1>4, <1>5, <1>6, <1>7, <1>8

\* What agreement gives from node n on
SamePath(a, b, f, g, x, y, n) ==
  AgreeOn(f[n], a, b) => f[n] = g[n] /\ x[n] = y[n]

LEMMA AgreementFollowed ==
  ASSUME FinalBDD,
         NEW a \in [CondIndexes -> BOOLEAN], NEW f, IsFollowed(a, f), NEW x, IsIndex(a, x),
         NEW b \in [CondIndexes -> BOOLEAN], NEW g, IsFollowed(b, g), NEW y, IsIndex(b, y)
  PROVE  \A n \in PathNodes : SamePath(a, b, f, g, x, y, n)
<1>1. PICK P : P = {n \in PathNodes : SamePath(a, b, f, g, x, y, n)}
  OBVIOUS
<1>2. ASSUME NEW n \in PathNodes,
             \A z \in PathNodes : NodeRank[z] < NodeRank[n] => z \in P
      PROVE  n \in P
  <2> SUFFICES ASSUME AgreeOn(f[n], a, b) PROVE f[n] = g[n] /\ x[n] = y[n]
    BY <1>1 DEF SamePath
  <2>1. CASE IsExit(n)
    BY <2>1, FollowSteps, IndexSteps DEF IsFollowed, IsIndex
  <2>2. CASE IsConditionNode(n)
    <3>1. PICK m, v, i : m = Successor(a, n) /\ v = ValueAt(a, n) /\ i = NodeIndex(n)
      OBVIOUS
    <3>2. /\ i \in CondIndexes /\ v \in BOOLEAN /\ v = a[i]
          /\ m \in PathNodes /\ NodeRank[m] < NodeRank[n]
          /\ f[n].values[i] # "Unknown"
          /\ f[n] = Recorded(f[m], i, v)
          /\ \A k \in CondIndexes : k # i => f[n].values[k] = f[m].values[k]
      BY <2>2, <3>1, FollowCondition
    <3>3. a[i] = b[i]
      BY <3>2 DEF AgreeOn
    <3>4. ValueAt(b, n) = v
      BY <3>1, <3>2, <3>3 DEF ValueAt, NodeIndex
    <3>5. Successor(b, n) = m
      BY <3>1, <3>4 DEF Successor
    <3>6. AgreeOn(f[m], a, b)
      BY <3>2, <3>3 DEF AgreeOn
    <3>7. f[m] = g[m] /\ x[m] = y[m]
      BY <1>1, <1>2, <3>2, <3>6 DEF SamePath
    <3>8. g[n] = Recorded(g[m], i, v)
      BY <2>2, <3>1, <3>4, <3>5, FollowCondition
    <3>9. x[n] = y[n]
      <4>1. /\ x[n] = (IF v THEN vec[n].offset ELSE 0) + x[m]
            /\ y[n] = (IF v THEN vec[n].offset ELSE 0) + y[m]
        <5>1. x[n] = IndexStep(a, x, n) /\ y[n] = IndexStep(b, y, n)
          BY DEF IsIndex
        <5>2. IndexStep(a, x, n) = (IF v THEN vec[n].offset ELSE 0) + x[m]
          BY <2>2, <3>1, IndexSteps DEF Successor
        <5>3. IndexStep(b, y, n) = (IF v THEN vec[n].offset ELSE 0) + y[m]
          BY <2>2, <3>1, <3>4, <3>5, IndexSteps DEF Successor
        <5> QED
          BY <5>1, <5>2, <5>3
      <4> QED
        BY <3>7, <4>1
    <3> QED
      BY <3>2, <3>7, <3>8, <3>9
  <2> QED
    BY <2>1, <2>2 DEF FinalBDD
<1>3. NodeRank \in [PathNodes -> Nat]
  BY DEF FinalBDD
<1>4. PathNodes \subseteq P
  BY <1>2, <1>3, RankInduction
<1> QED
  BY <1>1, <1>4

\* The values of an evaluation are those of the valuation it comes from
LEMMA ReferenceValues ==
  ASSUME PathIInv, Completed, NEW e \in [CondIndexes -> BOOLEAN]
  PROVE  LET r == ReferenceEvaluation(e)
         IN  /\ r \in EvaluationType
             /\ \A i \in CondIndexes :
                  /\ r.values[i] # "Unknown" <=> i \in Evaluated(e)
                  /\ i \in Evaluated(e) => r.values[i] = ToTristate(e[i])
<1>1. PICK f : IsFollowed(e, f)
  BY CompletedFinal, FollowFunction
<1>2. f[bdd.root] = ReferenceEvaluation(e) /\ bdd.root \in PathNodes
  BY <1>1, FollowedReference, CompletedFinal DEF FinalBDD, IsConditionNode
<1>3. ReferenceEvaluation(e) \in EvaluationType
  BY <1>1, <1>2 DEF IsFollowed
<1>4. \A i \in CondIndexes : ToTristate(e[i]) # "Unknown"
  BY DEF ToTristate
<1> QED
  BY <1>3, <1>4 DEF ReferenceEvaluation

\* Valuations that agree on what one of them evaluates have the same path
LEMMA Agreement ==
  ASSUME PathIInv, Completed,
         NEW a \in [CondIndexes -> BOOLEAN], NEW b \in [CondIndexes -> BOOLEAN],
         \A i \in Evaluated(a) : a[i] = b[i]
  PROVE  ReferenceEvaluation(a) = ReferenceEvaluation(b) /\ PathIndex(a) = PathIndex(b)
<1>1. FinalBDD /\ bdd.root \in PathNodes
  BY CompletedFinal DEF FinalBDD, IsConditionNode
<1>2. PICK f, g : IsFollowed(a, f) /\ IsFollowed(b, g)
  BY <1>1, FollowFunction
<1>3. PICK x : IsIndex(a, x) /\ PathIndex(a) = x[bdd.root]
  BY <1>1, IndexFunction DEF IsIndex
<1>4. PICK y : IsIndex(b, y) /\ PathIndex(b) = y[bdd.root]
  BY <1>1, IndexFunction DEF IsIndex
<1>5. f[bdd.root] = ReferenceEvaluation(a) /\ g[bdd.root] = ReferenceEvaluation(b)
  BY <1>2, FollowedReference
<1>6. AgreeOn(f[bdd.root], a, b)
  BY <1>5, ReferenceValues DEF AgreeOn
<1>7. SamePath(a, b, f, g, x, y, bdd.root)
  BY <1>1, <1>2, <1>3, <1>4, AgreementFollowed
<1> QED
  BY <1>3, <1>4, <1>5, <1>6, <1>7 DEF SamePath

\* Evaluated gives indexes of conditions
LEMMA EvaluatedIndexes ==
  ASSUME PathIInv, NEW e
  PROVE  Evaluated(e) \subseteq CondIndexes
<1>1. \A s \in Conditions : sco[s].index \in CondIndexes
  BY DEF PathIInv, NodesNumbered
<1> QED
  BY <1>1 DEF Evaluated

\* An evaluation is that of one path
LEMMA SameEvaluation ==
  ASSUME PathIInv, Completed,
         NEW a \in [CondIndexes -> BOOLEAN], NEW b \in [CondIndexes -> BOOLEAN],
         ReferenceEvaluation(a).values = ReferenceEvaluation(b).values
  PROVE  /\ ReferenceEvaluation(a) = ReferenceEvaluation(b) /\ PathIndex(a) = PathIndex(b)
         /\ Evaluated(a) = Evaluated(b)
         /\ \A i \in Evaluated(a) : a[i] = b[i]
<1>1. PICK r, q : r = ReferenceEvaluation(a) /\ q = ReferenceEvaluation(b)
  OBVIOUS
<1>2. /\ r \in EvaluationType /\ q \in EvaluationType /\ r.values = q.values
      /\ \A i \in CondIndexes :
            /\ r.values[i] # "Unknown" <=> i \in Evaluated(a)
            /\ i \in Evaluated(a) => r.values[i] = ToTristate(a[i])
            /\ q.values[i] # "Unknown" <=> i \in Evaluated(b)
            /\ i \in Evaluated(b) => q.values[i] = ToTristate(b[i])
  BY <1>1, ReferenceValues
<1>3. Evaluated(a) \subseteq CondIndexes /\ Evaluated(b) \subseteq CondIndexes
  BY EvaluatedIndexes
<1>4. Evaluated(a) = Evaluated(b)
  BY <1>2, <1>3
<1>5. \A i \in Evaluated(a) : a[i] = b[i]
  BY <1>2, <1>3, <1>4, TristateOne
<1> QED
  BY <1>4, <1>5, Agreement

----------------------------------------------------------------------------
(* The conditions are evaluated in the order of their indexes.             *)

LEMMA IndexOrder ==
  ASSUME PathIInv, Completed, NEW m \in NodesOf("Condition"), NEW n \in NodesOf("Condition"), m < n
  PROVE  NodeIndex(m) < NodeIndex(n)
<1>1. PICK A, B : /\ A = {k \in NodesOf("Condition") : k < m}
                  /\ B = {k \in NodesOf("Condition") : k < n}
  OBVIOUS
<1>2. Len(vec) \in Nat
  BY DEF PathIInv, IInv, TypeOK
<1>3. m \in Nat /\ n \in Nat /\ \A k \in NodesOf("Condition") : k \in Nat /\ k \in 1..Len(vec)
  BY <1>2 DEF NodesOf
<1>4. A \subseteq B /\ m \in B /\ m \notin A /\ B \subseteq 1..Len(vec)
  <2>1. \A k \in A : k \in NodesOf("Condition") /\ k < n
    BY <1>1, <1>3
  <2>2. m \notin A
    BY <1>1, <1>3
  <2> QED
    BY <1>1, <1>3, <2>1, <2>2
<1>5. IsFiniteSet(B)
  <2>1. IsFiniteSet(1..Len(vec))
    BY <1>2, FS_Interval
  <2> QED
    BY <1>4, <2>1, FS_Subset
<1>6. /\ IsFiniteSet(A) /\ Cardinality(A) <= Cardinality(B)
      /\ Cardinality(B) = Cardinality(A) => B = A
  BY <1>4, <1>5, FS_Subset
<1>7. Cardinality(A) \in Nat /\ Cardinality(B) \in Nat
  BY <1>5, <1>6, FS_CardinalityType
<1>8. Cardinality(A) < Cardinality(B)
  BY <1>4, <1>6, <1>7
<1>9. \A k \in NodesOf("Condition") :
         Cardinality({i \in NodesOf("Condition") : i < k}) = NodeIndex(k)
  <2>1. \A k \in NodesOf("Condition") : vec[k].csco \in Conditions /\ sco[vec[k].csco].node = k
    BY DEF PathIInv, NodesNumbered
  <2>2. \A s \in Conditions :
           Cardinality({i \in NodesOf("Condition") : i < sco[s].node}) = sco[s].index
    BY DEF PathIInv, NodesNumbered
  <2> QED
    BY <2>1, <2>2 DEF NodeIndex
<1> QED
  BY <1>1, <1>8, <1>9

LEMMA SuccessorOrder ==
  ASSUME PathIInv, Completed, NEW n, IsConditionNode(n), NEW b \in BOOLEAN,
         NEW m, m = vec[n].dests[b], IsConditionNode(m)
  PROVE  NodeIndex(n) < NodeIndex(m) /\ NodeIndex(n) \in Nat /\ NodeIndex(m) \in Nat
<1>1. FinalBDD /\ Len(vec) \in Nat
  BY CompletedFinal DEF PathIInv, IInv, TypeOK
<1>2. n \in NodesOf("Condition") /\ m \in NodesOf("Condition")
  BY DEF IsConditionNode, NodesOf, PathNodes, Ids
<1>3. n \in Nat /\ m \in Nat
  BY <1>1, <1>2 DEF NodesOf
<1>4. NodeRank[m] < NodeRank[n]
  BY <1>1, NextNode
<1>5. NodeRank[m] = Len(vec) + 1 - m /\ NodeRank[n] = Len(vec) + 1 - n
  BY DEF NodeRank, IsConditionNode
<1>6. n < m
  BY <1>1, <1>3, <1>4, <1>5
<1>7. NodeIndex(n) \in CondIndexes /\ NodeIndex(m) \in CondIndexes
  BY DEF IsConditionNode, NodeIndex
<1> QED
  BY <1>2, <1>6, <1>7, IndexOrder DEF CondIndexes

\* r only has values for the condition of node n and later ones
LaterThan(r, n) ==
  \A i \in CondIndexes : r.values[i] # "Unknown" => IsConditionNode(n) /\ NodeIndex(n) <= i

LEMMA LaterValues ==
  ASSUME PathIInv, Completed, NEW e \in [CondIndexes -> BOOLEAN], NEW f, IsFollowed(e, f)
  PROVE  \A n \in PathNodes : LaterThan(f[n], n)
<1>0. FinalBDD
  BY CompletedFinal
<1>1. PICK P : P = {n \in PathNodes : LaterThan(f[n], n)}
  OBVIOUS
<1>2. ASSUME NEW n \in PathNodes,
             \A z \in PathNodes : NodeRank[z] < NodeRank[n] => z \in P
      PROVE  n \in P
  <2>1. CASE IsExit(n)
    <3>1. f[n] = Nothing(n = ExitTrue)
      BY <1>0, <2>1, FollowSteps DEF IsFollowed
    <3> QED
      BY <1>1, <3>1 DEF LaterThan, Nothing
  <2>2. CASE IsConditionNode(n)
    <3> SUFFICES ASSUME NEW i \in CondIndexes, f[n].values[i] # "Unknown", i # NodeIndex(n)
                 PROVE  NodeIndex(n) <= i
      <4>1. NodeIndex(n) <= NodeIndex(n)
        BY <2>2 DEF IsConditionNode, NodeIndex, CondIndexes
      <4> QED
        BY <1>1, <2>2, <4>1 DEF LaterThan
    <3>1. PICK m, v : m = Successor(e, n) /\ v = ValueAt(e, n)
      OBVIOUS
    <3>2. /\ m \in PathNodes /\ NodeRank[m] < NodeRank[n] /\ v \in BOOLEAN
          /\ f[m].values[i] # "Unknown"
      BY <1>0, <2>2, <3>1, FollowCondition
    <3>3. IsConditionNode(m) /\ NodeIndex(m) <= i
      BY <1>1, <1>2, <3>2 DEF LaterThan
    <3>4. NodeIndex(n) < NodeIndex(m) /\ NodeIndex(n) \in Nat /\ NodeIndex(m) \in Nat
      BY <2>2, <3>1, <3>2, <3>3, SuccessorOrder DEF Successor
    <3>5. i \in Int
      BY DEF CondIndexes
    <3> QED
      BY <3>3, <3>4, <3>5
  <2> QED
    BY <1>0, <2>1, <2>2 DEF FinalBDD
<1>3. NodeRank \in [PathNodes -> Nat]
  BY <1>0 DEF FinalBDD
<1>4. PathNodes \subseteq P
  BY <1>2, <1>3, RankInduction
<1> QED
  BY <1>1, <1>4

\* The path from n goes through node k, the one of condition index j
GoesThrough(f, j, k, n) ==
  f[n].values[j] # "Unknown" =>
    /\ f[n].outcome = f[k].outcome
    /\ \A i \in CondIndexes : f[k].values[i] # "Unknown" => f[n].values[i] # "Unknown"

\* An index is that of one node
LEMMA IndexNode ==
  ASSUME PathIInv, Completed, NEW k, IsConditionNode(k), NEW n, IsConditionNode(n),
         NodeIndex(n) = NodeIndex(k)
  PROVE  n = k
<1>1. /\ vec[k].csco \in Conditions /\ sco[vec[k].csco].node = k
      /\ vec[n].csco \in Conditions /\ sco[vec[n].csco].node = n
  BY DEF IsConditionNode
<1>2. ConditionAt(NodeIndex(n)) = vec[n].csco /\ ConditionAt(NodeIndex(k)) = vec[k].csco
  BY <1>1, ConditionsDesignated DEF NodeIndex
<1> QED
  BY <1>1, <1>2

LEMMA PathThrough ==
  ASSUME PathIInv, Completed, NEW e \in [CondIndexes -> BOOLEAN], NEW f, IsFollowed(e, f),
         NEW k, IsConditionNode(k), NEW j, j = NodeIndex(k)
  PROVE  \A n \in PathNodes : GoesThrough(f, j, k, n)
<1>0. FinalBDD /\ j \in CondIndexes
  BY CompletedFinal DEF IsConditionNode, NodeIndex
<1>1. PICK P : P = {n \in PathNodes : GoesThrough(f, j, k, n)}
  OBVIOUS
<1>2. ASSUME NEW n \in PathNodes,
             \A z \in PathNodes : NodeRank[z] < NodeRank[n] => z \in P
      PROVE  n \in P
  <2>1. CASE IsExit(n)
    <3>1. f[n] = Nothing(n = ExitTrue)
      BY <1>0, <2>1, FollowSteps DEF IsFollowed
    <3> QED
      BY <1>0, <1>1, <3>1 DEF GoesThrough, Nothing
  <2>2. CASE n = k
    BY <1>1, <2>2 DEF GoesThrough
  <2>3. CASE IsConditionNode(n) /\ n # k
    <3> SUFFICES ASSUME f[n].values[j] # "Unknown"
                 PROVE  /\ f[n].outcome = f[k].outcome
                        /\ \A i \in CondIndexes :
                             f[k].values[i] # "Unknown" => f[n].values[i] # "Unknown"
      BY <1>1 DEF GoesThrough
    <3>1. NodeIndex(n) # j
      BY <2>3, IndexNode
    <3>2. PICK m : m = Successor(e, n)
      OBVIOUS
    <3>3. /\ m \in PathNodes /\ NodeRank[m] < NodeRank[n]
          /\ f[n].outcome = f[m].outcome
          /\ f[n].values[NodeIndex(n)] # "Unknown"
          /\ \A i \in CondIndexes : i # NodeIndex(n) => f[n].values[i] = f[m].values[i]
      BY <1>0, <2>3, <3>2, FollowCondition
    <3>4. f[m].values[j] # "Unknown"
      BY <1>0, <3>1, <3>3
    <3>5. /\ f[m].outcome = f[k].outcome
          /\ \A i \in CondIndexes : f[k].values[i] # "Unknown" => f[m].values[i] # "Unknown"
      BY <1>1, <1>2, <3>3, <3>4 DEF GoesThrough
    <3> QED
      BY <3>3, <3>5
  <2> QED
    BY <1>0, <2>1, <2>2, <2>3 DEF FinalBDD
<1>3. NodeRank \in [PathNodes -> Nat]
  BY <1>0 DEF FinalBDD
<1>4. PathNodes \subseteq P
  BY <1>2, <1>3, RankInduction
<1> QED
  BY <1>1, <1>4

\* Changing the value of one condition changes nothing before it
LEMMA StillReached ==
  ASSUME PathIInv, Completed,
         NEW a \in [CondIndexes -> BOOLEAN], NEW f, IsFollowed(a, f),
         NEW b \in [CondIndexes -> BOOLEAN], NEW g, IsFollowed(b, g),
         NEW j \in CondIndexes, \A i \in CondIndexes : i < j => a[i] = b[i]
  PROVE  \A n \in PathNodes : f[n].values[j] # "Unknown" => g[n].values[j] # "Unknown"
<1>0. FinalBDD
  BY CompletedFinal
<1>1. PICK P : P = {n \in PathNodes : f[n].values[j] # "Unknown" => g[n].values[j] # "Unknown"}
  OBVIOUS
<1>2. ASSUME NEW n \in PathNodes,
             \A z \in PathNodes : NodeRank[z] < NodeRank[n] => z \in P
      PROVE  n \in P
  <2> SUFFICES ASSUME f[n].values[j] # "Unknown" PROVE g[n].values[j] # "Unknown"
    BY <1>1
  <2>1. IsConditionNode(n) /\ NodeIndex(n) <= j
    BY LaterValues DEF LaterThan
  <2>2. CASE NodeIndex(n) = j
    BY <1>0, <2>1, <2>2, FollowCondition
  <2>3. CASE NodeIndex(n) # j
    <3>1. NodeIndex(n) \in CondIndexes /\ NodeIndex(n) < j
      <4>1. NodeIndex(n) \in CondIndexes
        BY <2>1 DEF IsConditionNode, NodeIndex
      <4>2. NodeIndex(n) \in Int /\ j \in Int
        BY <4>1 DEF CondIndexes
      <4> QED
        BY <2>1, <2>3, <4>1, <4>2
    <3>2. ValueAt(a, n) = ValueAt(b, n)
      BY <3>1 DEF ValueAt, NodeIndex
    <3>3. Successor(a, n) = Successor(b, n)
      BY <3>2 DEF Successor
    <3>4. PICK m : m = Successor(a, n)
      OBVIOUS
    <3>5. /\ m \in PathNodes /\ NodeRank[m] < NodeRank[n]
          /\ f[n].values[j] = f[m].values[j]
      BY <1>0, <2>1, <2>3, <3>4, FollowCondition
    <3>6. g[n].values[j] = g[m].values[j]
      BY <1>0, <2>1, <2>3, <3>3, <3>4, FollowCondition
    <3> QED
      BY <1>1, <1>2, <3>5, <3>6
  <2> QED
    BY <2>2, <2>3
<1>3. NodeRank \in [PathNodes -> Nat]
  BY <1>0 DEF FinalBDD
<1>4. PathNodes \subseteq P
  BY <1>2, <1>3, RankInduction
<1> QED
  BY <1>1, <1>4

----------------------------------------------------------------------------
(* Pairs of evaluations that show the influence of a condition.            *)

LEMMA MaxIndexFound ==
  ASSUME NEW D \in SUBSET CondIndexes, D # {}, LastCondIndex \in Nat
  PROVE  MaxIndex(D) \in D /\ \A k \in D : k <= MaxIndex(D)
<1>1. PICK T, L : L = LastCondIndex /\ T = {L - k : k \in D}
  OBVIOUS
<1>2. \A k \in D : k \in Nat /\ k <= L
  BY <1>1 DEF CondIndexes
<1>3. T \in SUBSET Nat /\ T # {}
  BY <1>1, <1>2
<1>4. PICK t \in T : \A n \in T : t <= n
  BY <1>3, Least
<1>5. PICK m \in D : t = L - m
  BY <1>1
<1>6. ASSUME NEW k \in D PROVE k <= m
  <2>1. t <= L - k
    BY <1>1, <1>4
  <2>2. k \in Nat /\ m \in Nat /\ L \in Nat
    BY <1>1, <1>2
  <2> QED
    BY <1>5, <2>1, <2>2
<1> QED
  BY <1>6 DEF MaxIndex

LEMMA LastIndexNatural ==
  ASSUME PathIInv, Completed
  PROVE  LastCondIndex \in Nat /\ IsFiniteSet(CondIndexes)
<1>1. PICK c : c \in Conditions
  BY CompletedFinal DEF FinalBDD, IsConditionNode
<1>2. Len(sco) \in Nat
  BY DEF PathIInv, IInv, TypeOK
<1>3. Conditions \subseteq 1..Len(sco)
  BY DEF Conditions
<1>4. IsFiniteSet(1..Len(sco))
  BY <1>2, FS_Interval
<1>5. IsFiniteSet(Conditions)
  BY <1>3, <1>4, FS_Subset
<1>6. Cardinality(Conditions) \in Nat
  BY <1>5, FS_CardinalityType
<1>7. Cardinality(Conditions) # 0
  BY <1>1, <1>5, FS_EmptySet
<1>8. LastCondIndex \in Nat
  BY <1>6, <1>7 DEF LastCondIndex
<1> QED
  BY <1>8, FS_Interval DEF CondIndexes

LEMMA MixEnvironment ==
  ASSUME PathIInv, NEW a \in Environments, NEW b \in Environments, NEW e \in [CondIndexes -> BOOLEAN],
         \A i \in CondIndexes : e[i] = a[i] \/ e[i] = b[i]
  PROVE  e \in Environments
<1>1. ASSUME NEW s \in Conditions PROVE sco[s].value # ToTristate(~e[sco[s].index])
  <2>1. sco[s].index \in CondIndexes
    BY DEF PathIInv, NodesNumbered
  <2>2. /\ sco[s].value # ToTristate(~a[sco[s].index])
        /\ sco[s].value # ToTristate(~b[sco[s].index])
    BY DEF Environments
  <2> QED
    BY <2>1, <2>2
<1> QED
  BY <1>1 DEF Environments

LEMMA VariedConditions ==
  ASSUME PathIInv, Completed, NEW a \in [CondIndexes -> BOOLEAN], NEW b \in [CondIndexes -> BOOLEAN]
  PROVE  Varied(ReferenceEvaluation(a), ReferenceEvaluation(b))
           = {i \in Evaluated(a) \cap Evaluated(b) : a[i] # b[i]}
<1>1. PICK r, q : r = ReferenceEvaluation(a) /\ q = ReferenceEvaluation(b)
  OBVIOUS
<1>2. /\ r \in EvaluationType /\ q \in EvaluationType
      /\ \A i \in CondIndexes :
            /\ r.values[i] # "Unknown" <=> i \in Evaluated(a)
            /\ i \in Evaluated(a) => r.values[i] = ToTristate(a[i])
            /\ q.values[i] # "Unknown" <=> i \in Evaluated(b)
            /\ i \in Evaluated(b) => q.values[i] = ToTristate(b[i])
  BY <1>1, ReferenceValues
<1>3. Evaluated(a) \subseteq CondIndexes /\ Evaluated(b) \subseteq CondIndexes
  BY EvaluatedIndexes
<1>4. \A i \in CondIndexes : CondJ(r, i) = r.values[i] /\ CondJ(q, i) = q.values[i]
  BY <1>2 DEF CondJ, EvaluationType
<1>5. \A i \in CondIndexes : ToTristate(a[i]) = ToTristate(b[i]) <=> a[i] = b[i]
  BY TristateOne
<1>6. ASSUME NEW i \in CondIndexes
      PROVE  i \in Varied(r, q) <=> i \in Evaluated(a) \cap Evaluated(b) /\ a[i] # b[i]
  BY <1>2, <1>4, <1>5 DEF Varied
<1>7. Varied(r, q) \subseteq CondIndexes
  BY DEF Varied
<1> QED
  BY <1>1, <1>3, <1>6, <1>7

\* a where it is evaluated, b elsewhere
Mixed(a, b) == [i \in CondIndexes |-> IF i \in Evaluated(a) THEN a[i] ELSE b[i]]

LEMMA MixedEvaluation ==
  ASSUME PathIInv, Completed, NEW a \in Environments, NEW b \in Environments
  PROVE  LET e == Mixed(a, b)
         IN  /\ e \in Environments /\ e \in [CondIndexes -> BOOLEAN]
             /\ ReferenceEvaluation(e) = ReferenceEvaluation(a)
             /\ \A i \in CondIndexes :
                  i \in Evaluated(a) => e[i] = a[i]
             /\ \A i \in CondIndexes :
                  i \notin Varied(ReferenceEvaluation(a), ReferenceEvaluation(b)) /\ i \in Evaluated(b)
                    => e[i] = b[i]
<1>1. a \in [CondIndexes -> BOOLEAN] /\ b \in [CondIndexes -> BOOLEAN]
  BY DEF Environments
<1>2. PICK e : e = Mixed(a, b)
  OBVIOUS
<1>3. /\ e \in [CondIndexes -> BOOLEAN]
      /\ \A i \in CondIndexes : e[i] = IF i \in Evaluated(a) THEN a[i] ELSE b[i]
  BY <1>1, <1>2 DEF Mixed
<1>4. e \in Environments
  BY <1>3, MixEnvironment
<1>5. Evaluated(a) \subseteq CondIndexes
  BY EvaluatedIndexes
<1>6. \A i \in Evaluated(a) : a[i] = e[i]
  BY <1>3, <1>5
<1>7. ReferenceEvaluation(a) = ReferenceEvaluation(e)
  BY <1>1, <1>3, <1>6, Agreement
<1>8. ASSUME NEW i \in CondIndexes, i \in Evaluated(b),
             i \notin Varied(ReferenceEvaluation(a), ReferenceEvaluation(b))
      PROVE  e[i] = b[i]
  BY <1>1, <1>3, <1>8, VariedConditions
<1> QED
  BY <1>2, <1>3, <1>4, <1>6, <1>7, <1>8

\* e with the value of condition j changed, when it then agrees with b from j on
LEMMA FlippedOutcome ==
  ASSUME PathIInv, Completed,
         NEW e \in [CondIndexes -> BOOLEAN], NEW h \in [CondIndexes -> BOOLEAN],
         NEW b \in [CondIndexes -> BOOLEAN], NEW j \in Evaluated(e), j \in Evaluated(b),
         \A i \in CondIndexes : i < j => e[i] = h[i],
         \A i \in Evaluated(b) : i >= j => b[i] = h[i]
  PROVE  ReferenceEvaluation(h).outcome = ReferenceEvaluation(b).outcome
<1>1. FinalBDD /\ bdd.root \in PathNodes /\ j \in CondIndexes
  BY CompletedFinal, EvaluatedIndexes DEF FinalBDD, IsConditionNode
<1>2. PICK f, g, p : IsFollowed(e, f) /\ IsFollowed(h, g) /\ IsFollowed(b, p)
  BY <1>1, FollowFunction
<1>3. /\ f[bdd.root] = ReferenceEvaluation(e) /\ g[bdd.root] = ReferenceEvaluation(h)
      /\ p[bdd.root] = ReferenceEvaluation(b)
  BY <1>2, FollowedReference
<1>4. PICK y, z : IsIndex(h, y) /\ IsIndex(b, z)
  BY <1>1, IndexFunction DEF IsIndex
<1>5. PICK k : IsConditionNode(k) /\ NodeIndex(k) = j
  <2>1. PICK c \in Conditions : sco[c].index = j
    BY DEF Evaluated
  <2>2. IsConditionNode(sco[c].node) /\ vec[sco[c].node].csco = c
    BY <1>1 DEF FinalBDD
  <2> QED
    BY <2>1, <2>2 DEF NodeIndex
<1>6. f[bdd.root].values[j] # "Unknown" /\ p[bdd.root].values[j] # "Unknown"
  BY <1>1, <1>3, ReferenceValues
<1>7. g[bdd.root].values[j] # "Unknown"
  BY <1>1, <1>2, <1>6, StillReached
<1>8. GoesThrough(g, j, k, bdd.root) /\ GoesThrough(p, j, k, bdd.root)
  BY <1>1, <1>2, <1>5, PathThrough
<1>9. g[bdd.root].outcome = g[k].outcome /\ p[bdd.root].outcome = p[k].outcome
  BY <1>6, <1>7, <1>8 DEF GoesThrough
<1>10. AgreeOn(p[k], b, h)
  <2> SUFFICES ASSUME NEW i \in CondIndexes, p[k].values[i] # "Unknown" PROVE b[i] = h[i]
    BY DEF AgreeOn
  <2>1. i \in Evaluated(b)
    <3>1. p[bdd.root].values[i] # "Unknown"
      BY <1>6, <1>8 DEF GoesThrough
    <3> QED
      BY <1>3, <3>1, ReferenceValues
  <2>2. k \in PathNodes
    BY <1>5 DEF IsConditionNode
  <2>3. j <= i
    BY <1>2, <1>5, <2>2, LaterValues DEF LaterThan
  <2> QED
    BY <1>1, <2>1, <2>3 DEF CondIndexes
<1>11. k \in PathNodes
  BY <1>5 DEF IsConditionNode
<1>12. SamePath(b, h, p, g, z, y, k)
  BY <1>1, <1>2, <1>4, <1>11, AgreementFollowed
<1> QED
  BY <1>3, <1>9, <1>10, <1>12 DEF SamePath

\* j shows its influence: it can change the outcome of r into that of q
Influences(r, q, j) ==
  \E e \in Valuations(r) :
    LET flipped == [e EXCEPT ![j] = ~@]
    IN  flipped \in Environments /\ ExpressionValue(flipped) = q.outcome

LEMMA MaskingPair ==
  ASSUME PathIInv, Completed, NEW a \in Environments, NEW b \in Environments,
         NEW ev1, ev1 = SourceEvaluation(a), NEW ev2, ev2 = SourceEvaluation(b),
         ev1.outcome # ev2.outcome
  PROVE  /\ IsMCDCPair(ev1, ev2, FALSE) # NoConditionIndex
         /\ Influences(ev1, ev2, IsMCDCPair(ev1, ev2, FALSE))
<1>1. /\ a \in [CondIndexes -> BOOLEAN] /\ b \in [CondIndexes -> BOOLEAN]
      /\ ev1 = ReferenceEvaluation(a) /\ ev2 = ReferenceEvaluation(b)
  BY DEF Environments, SourceEvaluation
<1>2. PICK D : D = Varied(ev1, ev2)
  OBVIOUS
<1>3. D = {i \in Evaluated(a) \cap Evaluated(b) : a[i] # b[i]} /\ D \subseteq CondIndexes
  BY <1>1, <1>2, VariedConditions DEF Varied
<1>4. PICK e : e = Mixed(a, b)
  OBVIOUS
<1>5. /\ e \in Environments /\ e \in [CondIndexes -> BOOLEAN]
      /\ ReferenceEvaluation(e) = ev1
      /\ \A i \in CondIndexes : i \in Evaluated(a) => e[i] = a[i]
      /\ \A i \in CondIndexes : i \notin D /\ i \in Evaluated(b) => e[i] = b[i]
  BY <1>1, <1>2, <1>4, MixedEvaluation
<1>6. Evaluated(a) \subseteq CondIndexes /\ Evaluated(b) \subseteq CondIndexes
  BY EvaluatedIndexes
<1>7. D # {}
  <2> SUFFICES ASSUME D = {} PROVE FALSE
    OBVIOUS
  <2>1. \A i \in Evaluated(b) : b[i] = e[i]
    BY <1>5, <1>6
  <2>2. ReferenceEvaluation(b) = ReferenceEvaluation(e)
    BY <1>1, <1>5, <2>1, Agreement
  <2> QED
    BY <1>1, <1>5, <2>2
<1>8. PICK j : j = MaxIndex(D)
  OBVIOUS
<1>9. IsMCDCPair(ev1, ev2, FALSE) = j
  BY <1>2, <1>7, <1>8 DEF IsMCDCPair
<1>10. j \in D /\ \A k \in D : k <= j
  BY <1>3, <1>7, <1>8, MaxIndexFound, LastIndexNatural
<1>11. j \in Nat /\ j \in CondIndexes /\ \A i \in CondIndexes : i \in Nat
  BY <1>3, <1>10, LastIndexNatural DEF CondIndexes
<1>12. j # NoConditionIndex
  BY <1>11 DEF NoConditionIndex
<1>13. PICK h : h = [e EXCEPT ![j] = ~@]
  OBVIOUS
<1>14. /\ h \in [CondIndexes -> BOOLEAN] /\ h[j] = ~e[j]
       /\ \A i \in CondIndexes : i # j => h[i] = e[i]
  BY <1>5, <1>11, <1>13
<1>15. h[j] = b[j] /\ e[j] = a[j]
  <2>1. a[j] # b[j] /\ j \in Evaluated(a) /\ a[j] \in BOOLEAN /\ b[j] \in BOOLEAN
    BY <1>1, <1>3, <1>10, <1>11
  <2> QED
    BY <1>5, <1>11, <1>14, <2>1
<1>16. h \in Environments
  BY <1>5, <1>14, <1>15, MixEnvironment
<1>17. Evaluated(e) = Evaluated(a)
  BY <1>1, <1>5, SameEvaluation
<1>18. \A i \in CondIndexes : i < j => e[i] = h[i]
  BY <1>11, <1>14
<1>19. ASSUME NEW i \in Evaluated(b), i >= j PROVE b[i] = h[i]
  <2>1. CASE i = j
    BY <1>15, <2>1
  <2>2. CASE i # j
    <3>1. i \in CondIndexes /\ ~(i <= j)
      <4>1. i \in CondIndexes /\ i \in Nat /\ j \in Nat
        BY <1>6, <1>11
      <4> QED
        BY <1>19, <2>2, <4>1
    <3>2. i \notin D
      BY <1>10, <3>1
    <3> QED
      BY <1>5, <1>14, <2>2, <3>1, <3>2
  <2> QED
    BY <2>1, <2>2
<1>20. j \in Evaluated(e) /\ j \in Evaluated(b)
  BY <1>3, <1>10, <1>17
<1>21. ReferenceEvaluation(h).outcome = ReferenceEvaluation(b).outcome
  BY <1>1, <1>5, <1>14, <1>18, <1>19, <1>20, FlippedOutcome
<1>22. ExpressionValue(h) = ev2.outcome
  BY <1>1, <1>21 DEF ReferenceEvaluation
<1>23. e \in Valuations(ev1)
  BY <1>5 DEF Valuations, SourceEvaluation
<1> QED
  BY <1>12, <1>13, <1>16, <1>22, <1>23, <1>9 DEF Influences

\* Every pair of evaluations with different outcomes shows the influence of
\* the last condition that differs in both: that condition alone can change
\* the outcome of the first into that of the second
THEOREM MaskingPairsSound == Spec => []MaskingPairsIndependent
<1>1. PathIInv => MaskingPairsIndependent
  <2> SUFFICES ASSUME PathIInv, Completed, NEW ev1 \in Evaluations, NEW ev2 \in Evaluations,
                      ev1.outcome # ev2.outcome
               PROVE  /\ IsMCDCPair(ev1, ev2, FALSE) # NoConditionIndex
                      /\ Influences(ev1, ev2, IsMCDCPair(ev1, ev2, FALSE))
    BY DEF MaskingPairsIndependent, Influences
  <2>1. PICK a \in Environments, b \in Environments :
           ev1 = SourceEvaluation(a) /\ ev2 = SourceEvaluation(b)
    BY DEF Evaluations
  <2> QED
    BY <2>1, MaskingPair
<1> QED
  BY <1>1, PathInvariance, PTL

\* The two evaluations differ by the value of j only
OneChange(r, q, j) == \E e \in Valuations(r) : SourceEvaluation([e EXCEPT ![j] = ~@]) = q

LEMMA UniqueCausePair ==
  ASSUME PathIInv, Completed, NEW a \in Environments, NEW b \in Environments,
         NEW ev1, ev1 = SourceEvaluation(a), NEW ev2, ev2 = SourceEvaluation(b),
         IsMCDCPair(ev1, ev2, TRUE) # NoConditionIndex
  PROVE  /\ IsMCDCPair(ev1, ev2, TRUE) = IsMCDCPair(ev1, ev2, FALSE)
         /\ OneChange(ev1, ev2, IsMCDCPair(ev1, ev2, TRUE))
<1>1. /\ a \in [CondIndexes -> BOOLEAN] /\ b \in [CondIndexes -> BOOLEAN]
      /\ ev1 = ReferenceEvaluation(a) /\ ev2 = ReferenceEvaluation(b)
  BY DEF Environments, SourceEvaluation
<1>2. PICK D : D = Varied(ev1, ev2)
  OBVIOUS
<1>3. D = {i \in Evaluated(a) \cap Evaluated(b) : a[i] # b[i]} /\ D \subseteq CondIndexes
  BY <1>1, <1>2, VariedConditions DEF Varied
<1>4. PICK e : e = Mixed(a, b)
  OBVIOUS
<1>5. /\ e \in Environments /\ e \in [CondIndexes -> BOOLEAN]
      /\ ReferenceEvaluation(e) = ev1
      /\ \A i \in CondIndexes : i \in Evaluated(a) => e[i] = a[i]
      /\ \A i \in CondIndexes : i \notin D /\ i \in Evaluated(b) => e[i] = b[i]
  BY <1>1, <1>2, <1>4, MixedEvaluation
<1>6. Evaluated(a) \subseteq CondIndexes /\ Evaluated(b) \subseteq CondIndexes
  BY EvaluatedIndexes
<1>7. PICK j : j = MaxIndex(D)
  OBVIOUS
<1>8. /\ ev1.outcome # ev2.outcome /\ D # {} /\ ~(Cardinality(D) > 1)
      /\ IsMCDCPair(ev1, ev2, TRUE) = j /\ IsMCDCPair(ev1, ev2, FALSE) = j
  BY <1>2, <1>7 DEF IsMCDCPair
<1>9. j \in D
  BY <1>3, <1>7, <1>8, MaxIndexFound, LastIndexNatural
<1>10. D = {j}
  <2>1. IsFiniteSet(D)
    BY <1>3, LastIndexNatural, FS_Subset
  <2>2. Cardinality(D) \in Nat
    BY <2>1, FS_CardinalityType
  <2>3. {j} \in SUBSET D /\ Cardinality({j}) = 1
    BY <1>9, FS_Singleton
  <2>4. Cardinality({j}) <= Cardinality(D) /\ (Cardinality(D) = Cardinality({j}) => D = {j})
    BY <2>1, <2>3, FS_Subset
  <2> QED
    BY <1>8, <2>2, <2>3, <2>4
<1>11. PICK h : h = [e EXCEPT ![j] = ~@]
  OBVIOUS
<1>12. j \in CondIndexes
  BY <1>3, <1>9
<1>13. /\ h \in [CondIndexes -> BOOLEAN] /\ h[j] = ~e[j]
       /\ \A i \in CondIndexes : i # j => h[i] = e[i]
  BY <1>5, <1>11, <1>12
<1>14. h[j] = b[j]
  <2>1. a[j] # b[j] /\ j \in Evaluated(a) /\ a[j] \in BOOLEAN /\ b[j] \in BOOLEAN
    BY <1>1, <1>3, <1>9, <1>12
  <2> QED
    BY <1>5, <1>12, <1>13, <2>1
<1>15. \A i \in Evaluated(b) : b[i] = h[i]
  BY <1>5, <1>6, <1>10, <1>13, <1>14
<1>16. ReferenceEvaluation(b) = ReferenceEvaluation(h)
  BY <1>1, <1>13, <1>15, Agreement
<1>17. SourceEvaluation(h) = ev2 /\ e \in Valuations(ev1)
  BY <1>1, <1>5, <1>16 DEF Valuations, SourceEvaluation
<1> QED
  BY <1>8, <1>11, <1>17 DEF OneChange

\* A unique cause pair is a masking pair for the same condition, and one
\* valuation yields both evaluations up to the value of that condition
THEOREM UniqueCausePairsSound == Spec => []UniqueCausePairsIndependent
<1>1. PathIInv => UniqueCausePairsIndependent
  <2> SUFFICES ASSUME PathIInv, Completed, NEW ev1 \in Evaluations, NEW ev2 \in Evaluations,
                      IsMCDCPair(ev1, ev2, TRUE) # NoConditionIndex
               PROVE  /\ IsMCDCPair(ev1, ev2, TRUE) = IsMCDCPair(ev1, ev2, FALSE)
                      /\ OneChange(ev1, ev2, IsMCDCPair(ev1, ev2, TRUE))
    BY DEF UniqueCausePairsIndependent, OneChange
  <2>1. PICK a \in Environments, b \in Environments :
           ev1 = SourceEvaluation(a) /\ ev2 = SourceEvaluation(b)
    BY DEF Evaluations
  <2> QED
    BY <2>1, UniqueCausePair
<1> QED
  BY <1>1, PathInvariance, PTL

----------------------------------------------------------------------------
(* Every index is that of one evaluation.                                  *)

LEMMA EnvironmentExists ==
  ASSUME PathIInv, Completed
  PROVE  \E e : e \in Environments
<1>1. PICK e : e = [i \in CondIndexes |-> sco[ConditionAt(i)].value = "True"]
  OBVIOUS
<1>2. e \in [CondIndexes -> BOOLEAN]
  BY <1>1
<1>3. ASSUME NEW s \in Conditions PROVE sco[s].value # ToTristate(~e[sco[s].index])
  <2>1. sco[s].index \in CondIndexes /\ ConditionAt(sco[s].index) = s
    BY ConditionsDesignated DEF PathIInv, NodesNumbered
  <2>2. e[sco[s].index] = (sco[s].value = "True")
    BY <1>1, <2>1
  <2>3. CASE sco[s].value = "True"
    <3>1. e[sco[s].index] = TRUE
      BY <2>2, <2>3
    <3>2. ToTristate(~e[sco[s].index]) = "False"
      BY <3>1 DEF ToTristate
    <3> QED
      BY <2>3, <3>2
  <2>4. CASE sco[s].value # "True"
    <3>1. e[sco[s].index] = FALSE
      BY <2>2, <2>4
    <3>2. ToTristate(~e[sco[s].index]) = "True"
      BY <3>1 DEF ToTristate
    <3> QED
      BY <2>4, <3>2
  <2> QED
    BY <2>3, <2>4
<1> QED
  BY <1>2, <1>3 DEF Environments

\* Each of the paths counted at n is that of some valuation
LEMMA IndexReached ==
  ASSUME PathIInv, Completed
  PROVE  \A n \in PathNodes, t \in Nat :
           t < count[n] => \E e \in Environments : \E x : IsIndex(e, x) /\ x[n] = t
<1>0. FinalBDD /\ IInv /\ phase = "done"
  BY CompletedFinal DEF PathIInv, Completed
<1> DEFINE Reached(n, t) == \E e \in Environments : \E x : IsIndex(e, x) /\ x[n] = t
<1>1. PICK P : P = {n \in PathNodes : \A t \in Nat : t < count[n] => Reached(n, t)}
  OBVIOUS
<1>2. count \in [Ids -> Nat]
  BY <1>0 DEF IInv, TypeOK
<1>3. ASSUME NEW n \in PathNodes, NEW t \in Nat, t < count[n],
             \A z \in PathNodes : NodeRank[z] < NodeRank[n] => z \in P
      PROVE  Reached(n, t)
  <2>1. n \in Ids /\ count[n] \in Nat /\ count[n] > 0
    BY <1>2, <1>3 DEF PathNodes
  <2>2. CASE IsExit(n)
    <3>1. n \in NodesOf("Outcome")
      BY <2>1, <2>2 DEF IsExit, NodesOf, Ids
    <3>2. count[n] \in {0, 1}
      BY <1>0, <3>1 DEF IInv, CountedNodesAdditive
    <3>3. t = 0
      BY <1>3, <3>2
    <3>4. PICK e : e \in Environments
      BY EnvironmentExists
    <3>5. PICK x : IsIndex(e, x)
      BY <1>0, <3>4, EnvironmentEdge, IndexFunction DEF IsIndex
    <3>6. x[n] = 0
      BY <1>0, <2>2, <3>4, <3>5, EnvironmentEdge, IndexSteps DEF IsIndex
    <3> QED
      BY <3>3, <3>4, <3>5, <3>6
  <2>3. CASE IsConditionNode(n)
    <3>1. n \in NodesOf("Condition")
      BY <2>1, <2>3 DEF IsConditionNode, NodesOf, Ids
    <3>2. Additive(n)
      BY <1>0, <2>1, <3>1 DEF IInv, CountedNodesAdditive
    <3>3. PICK p, q : p = EdgeCount(n, FALSE) /\ q = EdgeCount(n, TRUE)
      OBVIOUS
    <3>4. \A b \in BOOLEAN : vec[n].dests[b] \in PathNodes /\ vec[n].dests[b] \in Ids
                             /\ NodeRank[vec[n].dests[b]] < NodeRank[n]
      BY <1>0, <2>3, NextNode DEF PathNodes
    <3>5. p \in Nat /\ q \in Nat
      BY <1>2, <3>3, <3>4 DEF EdgeCount
    <3>6. vec[n].offset = p /\ count[n] = p + q
      BY <3>2, <3>3 DEF Additive
    <3>7. PICK v \in BOOLEAN, u \in Nat :
             /\ u < EdgeCount(n, v)
             /\ t = (IF v THEN vec[n].offset ELSE 0) + u
      <4>1. CASE t < p
        <5>1. t < EdgeCount(n, FALSE) /\ t \in Nat
          BY <1>3, <3>3, <4>1
        <5>2. t = (IF FALSE THEN vec[n].offset ELSE 0) + t
          BY <5>1
        <5> QED
          BY <5>1, <5>2
      <4>2. CASE ~(t < p)
        <5>1. t - p \in Nat /\ t - p < q
          BY <1>3, <3>5, <3>6, <4>2
        <5>2. t = (IF TRUE THEN vec[n].offset ELSE 0) + (t - p)
          BY <3>5, <3>6
        <5> QED
          BY <3>3, <5>1, <5>2
      <4> QED
        BY <4>1, <4>2
    <3>8. PICK m : m = vec[n].dests[v]
      OBVIOUS
    <3>9. EdgeTaken(n, v) /\ u < count[m]
      BY <3>7, <3>8 DEF EdgeCount
    <3>10. m \in PathNodes /\ m \in P
      BY <1>3, <3>4, <3>7, <3>8
    <3>11. PICK a \in Environments : \E z : IsIndex(a, z) /\ z[m] = u
      BY <1>1, <3>7, <3>9, <3>10
    <3>20. PICK y : IsIndex(a, y) /\ y[m] = u
      BY <3>11
    <3>12. PICK i, e : i = NodeIndex(n) /\ e = [a EXCEPT ![i] = v]
      OBVIOUS
    <3>13. a \in [CondIndexes -> BOOLEAN] /\ i \in CondIndexes
      BY <2>3, <3>12 DEF Environments, IsConditionNode, NodeIndex
    <3>14. e \in [CondIndexes -> BOOLEAN] /\ e[i] = v /\ \A k \in CondIndexes : k # i => e[k] = a[k]
      BY <3>12, <3>13
    <3>15. e \in Environments
      <4>1. ASSUME NEW s \in Conditions PROVE sco[s].value # ToTristate(~e[sco[s].index])
        <5>1. sco[s].index \in CondIndexes
          BY DEF PathIInv, NodesNumbered
        <5>2. CASE sco[s].index = i
          <6>1. IsConditionNode(sco[s].node) /\ vec[sco[s].node].csco = s
            BY <1>0 DEF FinalBDD
          <6>2. sco[s].node = n
            BY <2>3, <3>12, <5>2, <6>1, IndexNode DEF NodeIndex
          <6> QED
            BY <3>9, <3>14, <5>2, <6>1, <6>2 DEF EdgeTaken
        <5>3. CASE sco[s].index # i
          <6>1. sco[s].value # ToTristate(~a[sco[s].index])
            BY DEF Environments
          <6> QED
            BY <3>14, <5>1, <5>3, <6>1
        <5> QED
          BY <5>2, <5>3
      <4> QED
        BY <3>14, <4>1 DEF Environments
    <3>16. PICK x : IsIndex(e, x)
      BY <1>0, <3>14, IndexFunction DEF IsIndex
    <3>17. x[m] = y[m]
      <4>1. PICK f, g : IsFollowed(a, f) /\ IsFollowed(e, g)
        BY <1>0, <3>13, <3>14, FollowFunction
      <4>2. SamePath(a, e, f, g, y, x, m)
        BY <1>0, <3>10, <3>20, <3>13, <3>14, <3>16, <4>1, AgreementFollowed
      <4>3. LaterThan(f[m], m)
        BY <3>10, <3>13, <4>1, LaterValues
      <4>4. ASSUME NEW k \in CondIndexes, f[m].values[k] # "Unknown" PROVE a[k] = e[k]
        <5>1. IsConditionNode(m) /\ NodeIndex(m) <= k
          BY <4>3, <4>4 DEF LaterThan
        <5>2. NodeIndex(n) < NodeIndex(m) /\ NodeIndex(n) \in Nat /\ NodeIndex(m) \in Nat
          BY <2>3, <3>7, <3>8, <5>1, SuccessorOrder
        <5>3. k \in Int
          BY DEF CondIndexes
        <5>4. k # i
          BY <3>12, <5>1, <5>2, <5>3
        <5> QED
          BY <3>14, <5>4
      <4> QED
        BY <4>2, <4>4 DEF SamePath, AgreeOn
    <3>18. x[n] = t
      <4>1. ValueAt(e, n) = v
        BY <3>12, <3>14 DEF ValueAt, NodeIndex
      <4>2. x[n] = IndexStep(e, x, n)
        BY <3>16 DEF IsIndex
      <4>3. IndexStep(e, x, n) = (IF v THEN vec[n].offset ELSE 0) + x[m]
        BY <1>0, <2>3, <3>8, <3>14, <4>1, IndexSteps
      <4> QED
        BY <3>7, <3>20, <3>17, <4>2, <4>3
    <3> QED
      BY <3>15, <3>16, <3>18
  <2> QED
    BY <1>0, <2>2, <2>3 DEF FinalBDD
<1>4. NodeRank \in [PathNodes -> Nat]
  BY <1>0 DEF FinalBDD
<1> HIDE DEF Reached
<1>5. PathNodes \subseteq P
  <2>1. ASSUME NEW n \in PathNodes,
               \A z \in PathNodes : NodeRank[z] < NodeRank[n] => z \in P
        PROVE  n \in P
    BY <1>1, <1>3, <2>1
  <2> QED
    BY <1>4, <2>1, RankInduction
<1> QED
  BY <1>1, <1>5 DEF Reached

LEMMA IndexUnique ==
  ASSUME PathIInv, Completed, NEW e \in [CondIndexes -> BOOLEAN], NEW x, IsIndex(e, x)
  PROVE  PathIndex(e) = x[bdd.root]
<1>1. FinalBDD /\ bdd.root \in PathNodes
  BY CompletedFinal DEF FinalBDD, IsConditionNode
<1>2. PICK y : IsIndex(e, y) /\ PathIndex(e) = y[bdd.root]
  BY <1>1, IndexFunction DEF IsIndex
<1>3. PICK f : IsFollowed(e, f)
  BY <1>1, FollowFunction
<1>4. SamePath(e, e, f, f, x, y, bdd.root)
  BY <1>1, <1>2, <1>3, AgreementFollowed
<1> QED
  BY <1>2, <1>4 DEF SamePath, AgreeOn

\* The indexes below Path_Count are one to one with the evaluations
THEOREM PathsCounted == Spec => []PathCountExact
<1>1. ASSUME PathIInv, Completed
      PROVE  bdd.pathCount = Cardinality({ReferenceEvaluation(e) : e \in Environments})
  <2>1. PICK N, S, C : /\ N = bdd.pathCount /\ C = 0..(N - 1)
                       /\ S = {ReferenceEvaluation(e) : e \in Environments}
    OBVIOUS
  <2>2. FinalBDD /\ IInv /\ phase = "done" /\ bdd.root \in PathNodes
    BY <1>1, CompletedFinal DEF PathIInv, Completed, FinalBDD, IsConditionNode
  <2>3. N \in Nat /\ N = count[bdd.root]
    BY <2>1, <2>2 DEF IInv, TypeOK, BDDType, FramesNested
  <2>4. \A e \in Environments : e \in [CondIndexes -> BOOLEAN]
    BY DEF Environments
  <2>5. \A e \in Environments :
           PathIndex(e) \in C /\ ConditionValues(PathIndex(e)) = ReferenceEvaluation(e)
    <3> SUFFICES ASSUME NEW e \in Environments
                 PROVE  PathIndex(e) \in C /\ ConditionValues(PathIndex(e)) = ReferenceEvaluation(e)
      OBVIOUS
    <3>1. PICK f : IsFollowed(e, f)
      BY <2>2, <2>4, FollowFunction
    <3> QED
      BY <1>1, <2>1, <2>2, <2>4, <3>1, RoundTrip, FollowedReference
  <2>6. \A k \in C : \E e \in Environments : PathIndex(e) = k
    <3> SUFFICES ASSUME NEW k \in C PROVE \E e \in Environments : PathIndex(e) = k
      OBVIOUS
    <3>1. k \in Nat /\ k < count[bdd.root]
      BY <2>1, <2>3
    <3>2. PICK e \in Environments : \E x : IsIndex(e, x) /\ x[bdd.root] = k
      BY <1>1, <2>2, <3>1, IndexReached
    <3> QED
      BY <1>1, <2>4, <3>2, IndexUnique
  <2>7. PICK h : h = [k \in C |-> ConditionValues(k)]
    OBVIOUS
  <2>8. h \in [C -> S]
    BY <2>1, <2>5, <2>6, <2>7
  <2>9. \A r \in S : \E k \in C : h[k] = r
    BY <2>1, <2>5, <2>7
  <2>10. ASSUME NEW k \in C, NEW l \in C, h[k] = h[l] PROVE k = l
    <3>1. PICK a \in Environments, b \in Environments : PathIndex(a) = k /\ PathIndex(b) = l
      BY <2>6
    <3>2. ReferenceEvaluation(a) = ReferenceEvaluation(b)
      BY <2>5, <2>7, <2>10, <3>1
    <3> QED
      BY <1>1, <2>4, <3>1, <3>2, SameEvaluation
  <2>11. ExistsBijection(C, S)
    <3>1. h \in Bijection(C, S)
      BY <2>8, <2>9, <2>10, Fun_IsBij
    <3> QED
      BY <3>1 DEF ExistsBijection
  <2>12. IsFiniteSet(C) /\ Cardinality(C) = N
    <3>1. 0 \in Int /\ N - 1 \in Int
      BY <2>3
    <3>2. IsFiniteSet(0..(N - 1)) /\ Cardinality(0..(N - 1)) = IF 0 > N - 1 THEN 0 ELSE (N - 1) - 0 + 1
      BY <3>1, FS_Interval
    <3> QED
      BY <2>1, <2>3, <3>2
  <2>13. Cardinality(S) = Cardinality(C)
    BY <2>11, <2>12, FS_Bijection
  <2> QED
    BY <2>1, <2>12, <2>13
<1>2. PathIInv => PathCountExact
  BY <1>1 DEF PathCountExact
<1> QED
  BY <1>2, PathInvariance, PTL

----------------------------------------------------------------------------
(* The order on evaluations is lexicographic.                              *)

LexLess(f, g) ==
  \E j \in Nat : f[j] < g[j] /\ \A i \in Nat : i < j => f[i] = g[i]

LEMMA LexOrder ==
  ASSUME NEW f \in [Nat -> Int], NEW g \in [Nat -> Int]
  PROVE  /\ ~LexLess(f, f)
         /\ f # g => (LexLess(f, g) <=> ~LexLess(g, f))
         /\ \A h \in [Nat -> Int] : LexLess(f, g) /\ LexLess(g, h) => LexLess(f, h)
<1>1. ~LexLess(f, f)
  BY DEF LexLess
<1>2. ASSUME f # g PROVE LexLess(f, g) <=> ~LexLess(g, f)
  <2>1. PICK T : T = {i \in Nat : f[i] # g[i]}
    OBVIOUS
  <2>2. T \in SUBSET Nat /\ T # {}
    BY <1>2, <2>1
  <2>3. PICK j \in T : \A n \in T : j <= n
    BY <2>2, Least
  <2>4. j \in Nat /\ f[j] # g[j] /\ f[j] \in Int /\ g[j] \in Int
    BY <2>1, <2>3
  <2>5. \A i \in Nat : i < j => f[i] = g[i]
    <3> SUFFICES ASSUME NEW i \in Nat, i < j, f[i] # g[i] PROVE FALSE
      OBVIOUS
    <3>1. j <= i
      BY <2>1, <2>3
    <3> QED
      BY <2>4, <3>1
  <2>6. LexLess(f, g) => f[j] < g[j]
    <3> SUFFICES ASSUME NEW k \in Nat, f[k] < g[k], \A i \in Nat : i < k => f[i] = g[i]
                 PROVE  f[j] < g[j]
      BY DEF LexLess
    <3>1. ~(j < k)
      BY <2>4
    <3>2. ~(k < j)
      <4>1. f[k] \in Int
        OBVIOUS
      <4> QED
        BY <2>5, <4>1
    <3> QED
      BY <2>4, <3>1, <3>2
  <2>7. LexLess(g, f) => g[j] < f[j]
    <3> SUFFICES ASSUME NEW k \in Nat, g[k] < f[k], \A i \in Nat : i < k => g[i] = f[i]
                 PROVE  g[j] < f[j]
      BY DEF LexLess
    <3>1. ~(j < k)
      BY <2>4
    <3>2. ~(k < j)
      <4>1. f[k] \in Int
        OBVIOUS
      <4> QED
        BY <2>5, <4>1
    <3> QED
      BY <2>4, <3>1, <3>2
  <2>8. f[j] < g[j] => LexLess(f, g)
    BY <2>4, <2>5 DEF LexLess
  <2>9. g[j] < f[j] => LexLess(g, f)
    BY <2>4, <2>5 DEF LexLess
  <2> QED
    BY <2>4, <2>6, <2>7, <2>8, <2>9
<1>3. ASSUME NEW h \in [Nat -> Int], LexLess(f, g), LexLess(g, h) PROVE LexLess(f, h)
  <2>1. PICK j \in Nat : f[j] < g[j] /\ \A i \in Nat : i < j => f[i] = g[i]
    BY <1>3 DEF LexLess
  <2>2. PICK k \in Nat : g[k] < h[k] /\ \A i \in Nat : i < k => g[i] = h[i]
    BY <1>3 DEF LexLess
  <2>3. PICK m \in Nat : m <= j /\ m <= k /\ (m = j \/ m = k)
    <3>1. CASE j <= k
      BY <3>1
    <3>2. CASE ~(j <= k)
      BY <3>2
    <3> QED
      BY <3>1, <3>2
  <2>4. \A i \in Nat : i < m => f[i] = h[i]
    <3> SUFFICES ASSUME NEW i \in Nat, i < m PROVE f[i] = h[i]
      OBVIOUS
    <3>1. i < j /\ i < k
      BY <2>3
    <3> QED
      BY <2>1, <2>2, <3>1
  <2>5. f[m] <= g[m] /\ g[m] <= h[m] /\ (f[m] < g[m] \/ g[m] < h[m])
    <3>1. f[m] \in Int /\ g[m] \in Int /\ h[m] \in Int
      BY <1>3
    <3>2. m = j \/ m < j
      BY <2>3
    <3>3. m = k \/ m < k
      BY <2>3
    <3>4. f[m] < g[m] \/ f[m] = g[m]
      BY <2>1, <3>2
    <3>5. g[m] < h[m] \/ g[m] = h[m]
      BY <2>2, <3>3
    <3>6. f[m] < g[m] \/ g[m] < h[m]
      BY <2>1, <2>2, <2>3
    <3> QED
      BY <3>1, <3>4, <3>5, <3>6
  <2>6. f[m] < h[m]
    <3>1. f[m] \in Int /\ g[m] \in Int /\ h[m] \in Int
      BY <1>3
    <3> QED
      BY <2>5, <3>1
  <2> QED
    BY <2>4, <2>6 DEF LexLess
<1> QED
  BY <1>1, <1>2, <1>3

\* What "<" compares at each position
Key(r) == [i \in Nat |-> IF i \in DOMAIN r.values THEN Rank(r.values[i]) ELSE -1]

\* A vector of values, of any length
IsVector(r) == \E m \in Nat : r.values \in [0..m -> Tristate]

LEMMA RankType ==
  ASSUME NEW s \in Tristate, NEW t \in Tristate
  PROVE  Rank(s) \in 0..2 /\ (Rank(s) = Rank(t) => s = t)
  BY DEF Rank, Tristate

LEMMA KeyType ==
  ASSUME NEW r, IsVector(r)
  PROVE  /\ Key(r) \in [Nat -> Int] /\ DOMAIN r.values \subseteq Nat
         /\ \A i \in Nat : IF i \in DOMAIN r.values
                           THEN /\ Key(r)[i] = Rank(r.values[i]) /\ Key(r)[i] \in Nat
                                /\ r.values[i] \in Tristate
                                /\ \A k \in Nat : k < i => k \in DOMAIN r.values
                           ELSE Key(r)[i] = -1
<1>1. PICK m \in Nat : r.values \in [0..m -> Tristate]
  BY DEF IsVector
<1>2. DOMAIN r.values = 0..m /\ \A i \in 0..m : r.values[i] \in Tristate
  BY <1>1
<1>3. \A i \in 0..m : Rank(r.values[i]) \in 0..2
  BY <1>2, RankType
<1>4. -1 \in Int
  OBVIOUS
<1> QED
  BY <1>2, <1>3, <1>4 DEF Key

LEMMA LexicographicOrder ==
  ASSUME NEW l, NEW r, IsVector(l), IsVector(r)
  PROVE  EvalLess(l, r) <=> LexLess(Key(l), Key(r))
<1>1. PICK f, g : f = Key(l) /\ g = Key(r)
  OBVIOUS
<1>2. ASSUME EvalLess(l, r) PROVE LexLess(f, g)
  <2>1. PICK j \in FirstDifference(l, r) :
           j \notin DOMAIN l.values \/ Rank(l.values[j]) < Rank(r.values[j])
    BY <1>2 DEF EvalLess
  <2>2. /\ j \in DOMAIN r.values /\ j \in Nat
        /\ \A i \in DOMAIN r.values :
             i < j => i \in DOMAIN l.values /\ l.values[i] = r.values[i]
    BY <2>1, KeyType DEF FirstDifference
  <2>3. \A i \in Nat : i < j => f[i] = g[i]
    <3> SUFFICES ASSUME NEW i \in Nat, i < j PROVE f[i] = g[i]
      OBVIOUS
    <3>1. i \in DOMAIN r.values /\ i \in DOMAIN l.values /\ l.values[i] = r.values[i]
      BY <2>2, KeyType
    <3> QED
      BY <1>1, <3>1, KeyType
  <2>4. f[j] < g[j]
    <3>1. g[j] = Rank(r.values[j]) /\ g[j] \in Nat
      BY <1>1, <2>2, KeyType
    <3>2. CASE j \in DOMAIN l.values
      <4>1. f[j] = Rank(l.values[j])
        BY <1>1, <2>2, <3>2, KeyType
      <4> QED
        BY <2>1, <3>1, <3>2, <4>1
    <3>3. CASE j \notin DOMAIN l.values
      <4>1. f[j] = -1
        BY <1>1, <2>2, <3>3, KeyType
      <4> QED
        BY <3>1, <4>1
    <3> QED
      BY <3>2, <3>3
  <2> QED
    BY <2>2, <2>3, <2>4 DEF LexLess
<1>3. ASSUME LexLess(f, g) PROVE EvalLess(l, r)
  <2>1. PICK j \in Nat : f[j] < g[j] /\ \A i \in Nat : i < j => f[i] = g[i]
    BY <1>3 DEF LexLess
  <2>2. \A i \in Nat : /\ i \in DOMAIN l.values => f[i] = Rank(l.values[i]) /\ f[i] \in Nat
                       /\ i \notin DOMAIN l.values => f[i] = -1
                       /\ i \in DOMAIN r.values => g[i] = Rank(r.values[i]) /\ g[i] \in Nat
                       /\ i \notin DOMAIN r.values => g[i] = -1
    BY <1>1, KeyType
  <2>3. j \in DOMAIN r.values
    <3> SUFFICES ASSUME j \notin DOMAIN r.values PROVE FALSE
      OBVIOUS
    <3>1. g[j] = -1 /\ (f[j] = -1 \/ f[j] \in Nat)
      BY <2>2
    <3> QED
      BY <2>1, <3>1
  <2>4. \A i \in DOMAIN r.values :
           i < j => i \in DOMAIN l.values /\ l.values[i] = r.values[i]
    <3> SUFFICES ASSUME NEW i \in DOMAIN r.values, i < j
                 PROVE  i \in DOMAIN l.values /\ l.values[i] = r.values[i]
      OBVIOUS
    <3>1. i \in Nat
      BY KeyType
    <3>2. f[i] = g[i] /\ g[i] \in Nat
      BY <2>1, <2>2, <3>1
    <3>3. i \in DOMAIN l.values
      <4>1. ~(-1 \in Nat)
        OBVIOUS
      <4> QED
        BY <2>2, <3>1, <3>2, <4>1
    <3>4. l.values[i] \in Tristate /\ r.values[i] \in Tristate
      BY <3>1, <3>3, KeyType
    <3>5. Rank(l.values[i]) = Rank(r.values[i])
      BY <2>2, <3>1, <3>2, <3>3
    <3> QED
      BY <3>3, <3>4, <3>5, RankType
  <2>5. j \in DOMAIN l.values => Rank(l.values[j]) < Rank(r.values[j])
    BY <2>1, <2>2, <2>3
  <2>6. j \in DOMAIN l.values => l.values[j] # r.values[j]
    <3> SUFFICES ASSUME j \in DOMAIN l.values, l.values[j] = r.values[j] PROVE FALSE
      OBVIOUS
    <3>1. Rank(l.values[j]) < Rank(r.values[j]) /\ Rank(r.values[j]) \in Nat
      BY <2>2, <2>3, <2>5
    <3> QED
      BY <3>1
  <2>7. j \in FirstDifference(l, r)
    BY <2>3, <2>4, <2>6 DEF FirstDifference
  <2> QED
    BY <2>5, <2>7 DEF EvalLess
<1> QED
  BY <1>1, <1>2, <1>3

LEMMA KeyValues ==
  ASSUME NEW l, NEW r, IsVector(l), IsVector(r), Key(l) = Key(r)
  PROVE  l.values = r.values
<1>1. PICK m \in Nat : l.values \in [0..m -> Tristate]
  BY DEF IsVector
<1>2. PICK n \in Nat : r.values \in [0..n -> Tristate]
  BY DEF IsVector
<1>3. \A i \in Nat : ~(-1 \in Nat) /\ (i \in DOMAIN l.values <=> i \in DOMAIN r.values)
  BY KeyType
<1>4. DOMAIN l.values = DOMAIN r.values
  BY <1>1, <1>2, <1>3
<1>5. \A i \in DOMAIN l.values : l.values[i] = r.values[i]
  <2> SUFFICES ASSUME NEW i \in DOMAIN l.values PROVE l.values[i] = r.values[i]
    OBVIOUS
  <2>1. i \in Nat /\ i \in DOMAIN r.values
    BY <1>1, <1>4
  <2>2. Rank(l.values[i]) = Rank(r.values[i])
    BY <2>1, KeyType
  <2> QED
    BY <1>1, <1>2, <1>4, <2>2, RankType
<1> QED
  BY <1>1, <1>2, <1>4, <1>5

LEMMA OrderByKey ==
  ASSUME NEW S, \A l \in S : IsVector(l), \A l, r \in S : Key(l) = Key(r) => l = r
  PROVE  /\ \A l, r \in S : l # r => (EvalLess(l, r) <=> ~EvalLess(r, l))
         /\ \A l \in S : ~EvalLess(l, l)
         /\ \A l, m, r \in S : EvalLess(l, m) /\ EvalLess(m, r) => EvalLess(l, r)
<1>1. \A l \in S : Key(l) \in [Nat -> Int]
  BY KeyType
<1>2. \A l, r \in S : EvalLess(l, r) <=> LexLess(Key(l), Key(r))
  BY LexicographicOrder
<1>3. ASSUME NEW l \in S, NEW r \in S, l # r PROVE EvalLess(l, r) <=> ~EvalLess(r, l)
  <2>1. PICK f \in [Nat -> Int], g \in [Nat -> Int] : f = Key(l) /\ g = Key(r)
    BY <1>1
  <2>2. f # g
    BY <1>3, <2>1
  <2>3. LexLess(f, g) <=> ~LexLess(g, f)
    BY <2>2, LexOrder
  <2> QED
    BY <1>2, <2>1, <2>3
<1>4. ASSUME NEW l \in S PROVE ~EvalLess(l, l)
  BY <1>1, <1>2, LexOrder
<1>5. ASSUME NEW l \in S, NEW m \in S, NEW r \in S, EvalLess(l, m), EvalLess(m, r)
      PROVE  EvalLess(l, r)
  <2>1. LexLess(Key(l), Key(m)) /\ LexLess(Key(m), Key(r))
    BY <1>2, <1>5
  <2>2. LexLess(Key(l), Key(r))
    BY <1>1, <2>1, LexOrder
  <2> QED
    BY <1>2, <2>2
<1> QED
  BY <1>3, <1>4, <1>5

\* The root's condition is always evaluated
LEMMA SomethingEvaluated ==
  ASSUME PathIInv, Completed, NEW e \in [CondIndexes -> BOOLEAN]
  PROVE  Evaluated(e) # {}
<1>1. FinalBDD /\ IsConditionNode(bdd.root)
  BY CompletedFinal DEF FinalBDD
<1>2. PICK f : IsFollowed(e, f)
  BY <1>1, FollowFunction
<1>3. PICK i : i = NodeIndex(bdd.root)
  OBVIOUS
<1>4. i \in CondIndexes
  BY <1>1, <1>3 DEF IsConditionNode, NodeIndex
<1>5. f[bdd.root].values[i] # "Unknown"
  BY <1>1, <1>2, <1>3, FollowCondition
<1>6. f[bdd.root] = ReferenceEvaluation(e)
  BY <1>2, FollowedReference
<1> QED
  BY <1>4, <1>5, <1>6, ReferenceValues

LEMMA ObjectVector ==
  ASSUME PathIInv, Completed, NEW e \in [CondIndexes -> BOOLEAN]
  PROVE  LET r == ReferenceEvaluation(e)
             m == MaxIndex(Evaluated(e))
         IN  /\ m \in CondIndexes /\ m \in Nat
             /\ \A i \in CondIndexes : m < i => r.values[i] = "Unknown"
             /\ ObjectEvaluation(e) = [values |-> [i \in 0..m |-> r.values[i]], outcome |-> r.outcome]
             /\ IsVector(ObjectEvaluation(e))
<1>1. PICK r, m, D : r = ReferenceEvaluation(e) /\ D = Evaluated(e) /\ m = MaxIndex(D)
  OBVIOUS
<1>2. D \in SUBSET CondIndexes /\ D # {} /\ LastCondIndex \in Nat
  BY <1>1, EvaluatedIndexes, SomethingEvaluated, LastIndexNatural
<1>3. m \in D /\ \A k \in D : k <= m
  BY <1>1, <1>2, MaxIndexFound
<1>4. m \in CondIndexes /\ m \in Nat /\ 0..m \subseteq CondIndexes
  BY <1>2, <1>3 DEF CondIndexes
<1>5. /\ r \in EvaluationType
      /\ \A i \in CondIndexes : r.values[i] # "Unknown" <=> i \in D
  BY <1>1, ReferenceValues
<1>6. \A i \in CondIndexes : m < i => r.values[i] = "Unknown"
  <2> SUFFICES ASSUME NEW i \in CondIndexes, m < i, i \in D PROVE FALSE
    BY <1>5
  <2>1. i \in Int /\ i <= m
    BY <1>3 DEF CondIndexes
  <2> QED
    BY <1>4, <2>1
<1>7. ObjectEvaluation(e) = [values |-> [i \in 0..m |-> r.values[i]], outcome |-> r.outcome]
  <2>1. r = [values |-> r.values, outcome |-> r.outcome]
    BY <1>5 DEF EvaluationType
  <2>2. ObjectEvaluation(e) = [r EXCEPT !.values = [i \in 0..m |-> r.values[i]]]
    BY <1>1 DEF ObjectEvaluation
  <2> QED
    BY <2>1, <2>2
<1>8. [i \in 0..m |-> r.values[i]] \in [0..m -> Tristate]
  BY <1>4, <1>5 DEF EvaluationType
<1>9. IsVector(ObjectEvaluation(e))
  BY <1>4, <1>7, <1>8 DEF IsVector
<1> QED
  BY <1>1, <1>4, <1>6, <1>7, <1>9

\* A source evaluation is a vector, and its values are all of it
LEMMA SourceKeys ==
  ASSUME PathIInv, Completed
  PROVE  /\ \A l \in Evaluations : IsVector(l)
         /\ \A l, r \in Evaluations : Key(l) = Key(r) => l = r
<1>1. \A e \in Environments : e \in [CondIndexes -> BOOLEAN]
  BY EnvironmentEdge
<1>2. ASSUME NEW l \in Evaluations PROVE IsVector(l)
  <2>1. PICK e \in Environments : l = ReferenceEvaluation(e)
    BY DEF Evaluations, SourceEvaluation
  <2>2. l \in EvaluationType
    BY <1>1, <2>1, ReferenceValues
  <2>3. LastCondIndex \in Nat
    BY LastIndexNatural
  <2> QED
    BY <2>2, <2>3 DEF IsVector, EvaluationType, CondIndexes
<1>3. ASSUME NEW l \in Evaluations, NEW r \in Evaluations, Key(l) = Key(r) PROVE l = r
  <2>1. PICK a \in Environments, b \in Environments :
           l = ReferenceEvaluation(a) /\ r = ReferenceEvaluation(b)
    BY DEF Evaluations, SourceEvaluation
  <2>2. l.values = r.values
    BY <1>2, <1>3, KeyValues
  <2> QED
    BY <1>1, <2>1, <2>2, SameEvaluation
<1> QED
  BY <1>2, <1>3

\* The end that an object evaluation lacks is Unknown
LEMMA ObjectKeys ==
  ASSUME PathIInv, Completed
  PROVE  /\ \A l \in ObjectEvaluations : IsVector(l)
         /\ \A l, r \in ObjectEvaluations : Key(l) = Key(r) => l = r
<1>1. \A e \in Environments : e \in [CondIndexes -> BOOLEAN]
  BY EnvironmentEdge
<1>2. ASSUME NEW l \in ObjectEvaluations PROVE IsVector(l)
  BY <1>1, ObjectVector DEF ObjectEvaluations
<1>3. ASSUME NEW l \in ObjectEvaluations, NEW r \in ObjectEvaluations, Key(l) = Key(r)
      PROVE  l = r
  <2>1. PICK a \in Environments, b \in Environments :
           l = ObjectEvaluation(a) /\ r = ObjectEvaluation(b)
    BY DEF ObjectEvaluations
  <2>2. l.values = r.values
    BY <1>2, <1>3, KeyValues
  <2>3. PICK p, q, m, n : /\ p = ReferenceEvaluation(a) /\ q = ReferenceEvaluation(b)
                          /\ m = MaxIndex(Evaluated(a)) /\ n = MaxIndex(Evaluated(b))
    OBVIOUS
  <2>4. /\ m \in Nat /\ n \in Nat
        /\ \A i \in CondIndexes : m < i => p.values[i] = "Unknown"
        /\ \A i \in CondIndexes : n < i => q.values[i] = "Unknown"
        /\ l = [values |-> [i \in 0..m |-> p.values[i]], outcome |-> p.outcome]
        /\ r = [values |-> [i \in 0..n |-> q.values[i]], outcome |-> q.outcome]
    BY <1>1, <2>1, <2>3, ObjectVector
  <2>5. [i \in 0..m |-> p.values[i]] = [i \in 0..n |-> q.values[i]]
    BY <2>2, <2>4
  <2>6. 0..m = 0..n /\ \A i \in 0..m : p.values[i] = q.values[i]
    BY <2>5
  <2>7. m = n
    <3>1. m \in 0..n /\ n \in 0..m
      BY <2>4, <2>6
    <3> QED
      BY <2>4, <3>1
  <2>8. p \in EvaluationType /\ q \in EvaluationType
    BY <1>1, <2>3, ReferenceValues
  <2>9. \A i \in CondIndexes : p.values[i] = q.values[i]
    <3> SUFFICES ASSUME NEW i \in CondIndexes PROVE p.values[i] = q.values[i]
      OBVIOUS
    <3>1. i \in Nat
      BY DEF CondIndexes
    <3>2. i \in 0..m \/ m < i
      BY <2>4, <3>1
    <3> QED
      BY <2>4, <2>6, <2>7, <3>2
  <2>10. p.values = q.values
    BY <2>8, <2>9 DEF EvaluationType
  <2>11. p = q
    BY <1>1, <2>3, <2>10, SameEvaluation
  <2> QED
    BY <2>4, <2>7, <2>11
<1> QED
  BY <1>2, <1>3

\* Evaluations from source traces, and those from object traces, are each
\* totally ordered by "<", which tells any two of them apart
THEOREM EvaluationsOrdered == Spec => []EvaluationsTotallyOrdered
<1>1. ASSUME PathIInv, Completed, NEW evs \in {Evaluations, ObjectEvaluations}
      PROVE  /\ \A l, r \in evs : l # r => (EvalLess(l, r) <=> ~EvalLess(r, l))
             /\ \A l \in evs : ~EvalLess(l, l)
             /\ \A l, m, r \in evs : EvalLess(l, m) /\ EvalLess(m, r) => EvalLess(l, r)
  <2>1. /\ \A l \in evs : IsVector(l)
        /\ \A l, r \in evs : Key(l) = Key(r) => l = r
    BY <1>1, SourceKeys, ObjectKeys
  <2> QED
    BY <2>1, OrderByKey
<1>2. PathIInv => EvaluationsTotallyOrdered
  BY <1>1 DEF EvaluationsTotallyOrdered
<1> QED
  BY <1>2, PathInvariance, PTL

----------------------------------------------------------------------------
(* The nodes on the path of a valuation.                                   *)

\* The path that f follows from node x goes through node n
Reaches(f, x, n) ==
  IF n \in Exits THEN f[x].outcome = (n = ExitTrue) ELSE f[x].values[NodeIndex(n)] # "Unknown"

\* The values of evaluation f, followed under e, and a completed decision
Followed(e, f) == e \in [CondIndexes -> BOOLEAN] /\ IsFollowed(e, f)

LEMMA ReachFromExit ==
  ASSUME PathIInv, Completed, NEW e, NEW f, Followed(e, f), NEW x, IsExit(x), NEW n \in PathNodes
  PROVE  Reaches(f, x, n) <=> n = x
<1>1. FinalBDD
  BY CompletedFinal
<1>2. f[x] = Nothing(x = ExitTrue)
  BY <1>1, FollowSteps DEF IsExit, IsFollowed, Followed
<1>3. CASE IsExit(n)
  <2>1. n \in Exits /\ x \in Exits
    BY <1>3 DEF IsExit
  <2>2. f[x].outcome = (x = ExitTrue)
    BY <1>2 DEF Nothing
  <2> QED
    BY <2>1, <2>2 DEF Reaches, Exits, ExitFalse, ExitTrue
<1>4. CASE IsConditionNode(n)
  <2>1. n \notin Exits /\ NodeIndex(n) \in CondIndexes
    BY <1>4 DEF IsConditionNode, NodeIndex
  <2>2. f[x].values[NodeIndex(n)] = "Unknown"
    BY <1>2, <2>1 DEF Nothing
  <2>3. n # x
    BY <2>1 DEF IsExit
  <2> QED
    BY <2>1, <2>2, <2>3 DEF Reaches
<1> QED
  BY <1>1, <1>3, <1>4 DEF FinalBDD

LEMMA ReachFromCondition ==
  ASSUME PathIInv, Completed, NEW e, NEW f, Followed(e, f), NEW x, IsConditionNode(x),
         NEW n \in PathNodes
  PROVE  Reaches(f, x, n) <=> n = x \/ Reaches(f, Successor(e, x), n)
<1>1. FinalBDD
  BY CompletedFinal
<1>2. PICK y : y = Successor(e, x)
  OBVIOUS
<1>3. /\ f[x].outcome = f[y].outcome /\ f[x].values[NodeIndex(x)] # "Unknown"
      /\ \A k \in CondIndexes : k # NodeIndex(x) => f[x].values[k] = f[y].values[k]
  BY <1>1, <1>2, FollowCondition DEF Followed
<1>4. CASE IsExit(n)
  <2>1. n \in Exits /\ n # x
    BY <1>4 DEF IsExit, IsConditionNode
  <2> QED
    BY <1>2, <1>3, <2>1 DEF Reaches
<1>5. CASE IsConditionNode(n)
  <2>1. n \notin Exits /\ NodeIndex(n) \in CondIndexes
    BY <1>5 DEF IsConditionNode, NodeIndex
  <2>2. NodeIndex(n) = NodeIndex(x) => n = x
    BY <1>5, IndexNode
  <2> QED
    BY <1>2, <1>3, <2>1, <2>2 DEF Reaches
<1> QED
  BY <1>1, <1>4, <1>5 DEF FinalBDD

LEMMA ReachOn ==
  ASSUME PathIInv, Completed, NEW e, NEW f, Followed(e, f), NEW m \in PathNodes,
         NEW n \in PathNodes, Reaches(f, m, n)
  PROVE  \A x \in PathNodes : Reaches(f, x, m) => Reaches(f, x, n)
<1>0. FinalBDD
  BY CompletedFinal
<1>1. PICK P : P = {x \in PathNodes : Reaches(f, x, m) => Reaches(f, x, n)}
  OBVIOUS
<1>2. ASSUME NEW x \in PathNodes,
             \A z \in PathNodes : NodeRank[z] < NodeRank[x] => z \in P
      PROVE  x \in P
  <2> SUFFICES ASSUME Reaches(f, x, m) PROVE Reaches(f, x, n)
    BY <1>1
  <2>1. CASE x = m
    BY <2>1
  <2>2. CASE IsExit(x)
    <3>1. m = x
      BY <2>2, ReachFromExit
    <3> QED
      BY <3>1
  <2>3. CASE IsConditionNode(x) /\ x # m
    <3>1. PICK y : y = Successor(e, x)
      OBVIOUS
    <3>2. y \in PathNodes /\ NodeRank[y] < NodeRank[x]
      BY <1>0, <2>3, <3>1, FollowCondition DEF Followed
    <3>3. Reaches(f, y, m)
      BY <2>3, <3>1, ReachFromCondition
    <3>4. Reaches(f, y, n)
      BY <1>1, <1>2, <3>2, <3>3
    <3> QED
      BY <2>3, <3>1, <3>4, ReachFromCondition
  <2> QED
    BY <1>0, <2>1, <2>2, <2>3 DEF FinalBDD
<1>3. NodeRank \in [PathNodes -> Nat]
  BY <1>0 DEF FinalBDD
<1>4. PathNodes \subseteq P
  BY <1>2, <1>3, RankInduction
<1> QED
  BY <1>1, <1>4

\* A node on the path, but for its first one, is where the path goes from a
\* node before it, and is the next one on the path
LEMMA Predecessor ==
  ASSUME PathIInv, Completed, NEW e, NEW f, Followed(e, f), NEW n \in PathNodes
  PROVE  \A x \in PathNodes : Reaches(f, x, n) /\ x # n =>
           \E m : IsConditionNode(m) /\ Reaches(f, x, m) /\ Successor(e, m) = n
<1>0. FinalBDD
  BY CompletedFinal
<1> DEFINE Before(x) == \E m : IsConditionNode(m) /\ Reaches(f, x, m) /\ Successor(e, m) = n
<1>1. PICK P : P = {x \in PathNodes : Reaches(f, x, n) /\ x # n => Before(x)}
  OBVIOUS
<1>2. ASSUME NEW x \in PathNodes,
             \A z \in PathNodes : NodeRank[z] < NodeRank[x] => z \in P
      PROVE  x \in P
  <2> SUFFICES ASSUME Reaches(f, x, n), x # n PROVE Before(x)
    BY <1>1
  <2>1. IsConditionNode(x)
    BY <1>0, ReachFromExit DEF FinalBDD
  <2>2. PICK y : y = Successor(e, x)
    OBVIOUS
  <2>3. y \in PathNodes /\ NodeRank[y] < NodeRank[x]
    BY <1>0, <2>1, <2>2, FollowCondition DEF Followed
  <2>4. Reaches(f, y, n)
    BY <2>1, <2>2, ReachFromCondition
  <2>5. CASE y = n
    <3>1. Reaches(f, x, x)
      BY <2>1, ReachFromCondition
    <3> QED
      BY <2>1, <2>2, <2>5, <3>1
  <2>6. CASE y # n
    <3>1. Before(y)
      BY <1>1, <1>2, <2>3, <2>4, <2>6
    <3>2. PICK m : IsConditionNode(m) /\ Reaches(f, y, m) /\ Successor(e, m) = n
      BY <3>1
    <3>3. Reaches(f, x, m)
      BY <2>1, <2>2, <3>2, ReachFromCondition DEF IsConditionNode
    <3> QED
      BY <3>2, <3>3
  <2> QED
    BY <2>5, <2>6
<1>3. NodeRank \in [PathNodes -> Nat]
  BY <1>0 DEF FinalBDD
<1>4. PathNodes \subseteq P
  BY <1>2, <1>3, RankInduction
<1> QED
  BY <1>1, <1>4

\* Nodes on the path are reached from those before them
LEMMA ReachOrder ==
  ASSUME PathIInv, Completed, NEW e, NEW f, Followed(e, f),
         NEW m, IsConditionNode(m), NEW n, IsConditionNode(n), NodeIndex(m) < NodeIndex(n)
  PROVE  \A x \in PathNodes : Reaches(f, x, m) /\ Reaches(f, x, n) => Reaches(f, m, n)
<1>0. FinalBDD /\ m \in PathNodes /\ n \in PathNodes /\ m \notin Exits /\ n \notin Exits
  BY CompletedFinal DEF IsConditionNode
<1>1. PICK P : P = {x \in PathNodes : Reaches(f, x, m) /\ Reaches(f, x, n) => Reaches(f, m, n)}
  OBVIOUS
<1>2. ASSUME NEW x \in PathNodes,
             \A z \in PathNodes : NodeRank[z] < NodeRank[x] => z \in P
      PROVE  x \in P
  <2> SUFFICES ASSUME Reaches(f, x, m), Reaches(f, x, n), x # m PROVE Reaches(f, m, n)
    BY <1>1
  <2>1. IsConditionNode(x)
    BY <1>0, ReachFromExit DEF FinalBDD
  <2>2. x # n
    <3>1. NodeIndex(m) \in CondIndexes /\ NodeIndex(n) \in CondIndexes
      BY DEF IsConditionNode, NodeIndex
    <3>2. f[x].values[NodeIndex(m)] # "Unknown"
      BY <1>0 DEF Reaches
    <3>3. NodeIndex(x) <= NodeIndex(m)
      BY <3>1, <3>2, LaterValues DEF LaterThan, Followed
    <3> QED
      BY <3>1, <3>3 DEF CondIndexes
  <2>3. PICK y : y = Successor(e, x)
    OBVIOUS
  <2>4. y \in PathNodes /\ NodeRank[y] < NodeRank[x]
    BY <1>0, <2>1, <2>3, FollowCondition DEF Followed
  <2>5. Reaches(f, y, m) /\ Reaches(f, y, n)
    BY <1>0, <2>1, <2>2, <2>3, ReachFromCondition
  <2> QED
    BY <1>1, <1>2, <2>4, <2>5
<1>3. NodeRank \in [PathNodes -> Nat]
  BY <1>0 DEF FinalBDD
<1>4. PathNodes \subseteq P
  BY <1>2, <1>3, RankInduction
<1> QED
  BY <1>1, <1>4

\* A path reaches its first node, then nodes of higher indexes
LEMMA ReachUp ==
  ASSUME PathIInv, Completed, NEW e, NEW f, Followed(e, f),
         NEW m, IsConditionNode(m), NEW n, IsConditionNode(n), Reaches(f, m, n)
  PROVE  NodeIndex(m) <= NodeIndex(n) /\ NodeIndex(m) \in Nat /\ NodeIndex(n) \in Nat
<1>1. NodeIndex(m) \in CondIndexes /\ NodeIndex(n) \in CondIndexes /\ m \in PathNodes /\ n \notin Exits
  BY DEF IsConditionNode, NodeIndex
<1>2. f[m].values[NodeIndex(n)] # "Unknown"
  BY <1>1 DEF Reaches
<1>3. NodeIndex(m) <= NodeIndex(n)
  BY <1>1, <1>2, LaterValues DEF LaterThan, Followed
<1> QED
  BY <1>1, <1>3 DEF CondIndexes

----------------------------------------------------------------------------
(* The nodes that Visit counted are those that valuations reach.           *)

\* Edge b of condition node m, which Visit has followed, leads to n
Follows(m, b, n) ==
  /\ IsConditionNode(m) /\ b \in BOOLEAN /\ count[m] > 0 /\ EdgeTaken(m, b)
  /\ vec[m].dests[b] = n

NodesFound ==
  /\ \A n : IsConditionNode(n) =>
       IF count[n] > 0 /\ vec[n].parent # 0
       THEN Follows(vec[n].parent, vec[n].parentValue, n)
       ELSE vec[n].parent = 0 /\ (count[n] > 0 => n = bdd.root)
  /\ \A n \in Exits :
       /\ bdd.reachable[n = ExitTrue] <=> count[n] > 0
       /\ count[n] > 0 => \E m, b : Follows(m, b, n)
  /\ \A m, b, n :
       Follows(m, b, n) /\ IsConditionNode(n) /\ bdd.firstMultipath = 0 =>
         vec[n].parent = m /\ vec[n].parentValue = b

MultipathLed ==
  LET n == bdd.firstMultipath
  IN  /\ IsConditionNode(n) /\ count[n] > 0
      /\ \E m, b : Follows(m, b, n) /\ (vec[n].parent # m \/ vec[n].parentValue # b)

LEMMA DoneVisits ==
  ASSUME PathIInv, VisitsTraced, Completed
  PROVE  NodesFound /\ (bdd.firstMultipath # 0 => MultipathLed)
<1>1. /\ FinalBDD /\ IInv /\ phase = "done" /\ frames = <<>>
      /\ ParentsPassed /\ OutcomesMarked /\ TargetsVisited /\ MultipathFound
  BY CompletedFinal DEF PathIInv, IInv, FramesNested, Completed, VisitsTraced
<1>2. count \in [Ids -> Nat] /\ Ids \subseteq Nat \ {0}
  BY <1>1 DEF IInv, TypeOK, Ids
<1>3. /\ \A n : n \in NodesOf("Condition") <=> IsConditionNode(n)
      /\ \A n \in NodesOf("Condition") : n \in Ids
  <2>1. ASSUME NEW n \in NodesOf("Condition") PROVE IsConditionNode(n) /\ n \in Ids
    <3>1. n \in PathNodes /\ vec[n].kind = "Condition" /\ n \in Ids
      BY DEF NodesOf, PathNodes, Ids
    <3> QED
      BY <1>1, <3>1 DEF FinalBDD, IsExit
  <2>2. ASSUME NEW n, IsConditionNode(n) PROVE n \in NodesOf("Condition")
    BY <2>2 DEF IsConditionNode, NodesOf, PathNodes, Ids
  <2> QED
    BY <2>1, <2>2
<1>4. \A n, S : ~Pending(n, S)
  BY <1>1 DEF Pending
<1>5. \A n : Visited(n) <=> count[n] > 0
  BY <1>4 DEF Visited
<1>6. \A m, b, n : LeadsInto(m, b, n) <=> Follows(m, b, n)
  BY <1>3, <1>4 DEF LeadsInto, Passed, Follows
<1>7. ASSUME NEW n, IsConditionNode(n)
      PROVE  IF count[n] > 0 /\ vec[n].parent # 0
             THEN Follows(vec[n].parent, vec[n].parentValue, n)
             ELSE vec[n].parent = 0 /\ (count[n] > 0 => n = bdd.root)
  BY <1>1, <1>3, <1>5, <1>6, <1>7 DEF ParentsPassed
<1>8. ASSUME NEW n \in Exits
      PROVE  /\ bdd.reachable[n = ExitTrue] <=> count[n] > 0
             /\ count[n] > 0 => \E m, b : Follows(m, b, n)
  <2>1. IsExit(n)
    BY <1>1 DEF FinalBDD
  <2>2. n \in NodesOf("Outcome") /\ vec[n].outcome = (n = ExitTrue)
    BY <2>1 DEF IsExit, NodesOf, PathNodes, Ids
  <2> QED
    BY <1>1, <1>6, <2>2 DEF OutcomesMarked
<1>9. \A m, b : ~Entering(m, b)
  BY <1>1 DEF Entering
<1>10. ASSUME NEW m, NEW b, NEW n, Follows(m, b, n), IsConditionNode(n), bdd.firstMultipath = 0
       PROVE  vec[n].parent = m /\ vec[n].parentValue = b
  <2>1. m \in Ids /\ b \in BOOLEAN /\ n \in NodesOf("Condition") /\ LeadsInto(m, b, n)
    BY <1>3, <1>6, <1>10 DEF Follows
  <2> QED
    BY <1>1, <1>9, <1>10, <2>1 DEF TargetsVisited
<1>11. bdd.firstMultipath # 0 => MultipathLed
  BY <1>1, <1>3, <1>5, <1>6 DEF MultipathFound, MultipathLed
<1> QED
  BY <1>7, <1>8, <1>10, <1>11 DEF NodesFound

\* The nodes that a valuation reaches from a counted one are counted
LEMMA ReachedCounted ==
  ASSUME PathIInv, Completed, NEW e \in Environments, NEW f, Followed(e, f), NEW n \in PathNodes
  PROVE  \A x \in PathNodes : count[x] > 0 /\ Reaches(f, x, n) => count[n] > 0
<1>0. FinalBDD /\ IInv /\ phase = "done"
  BY CompletedFinal DEF PathIInv, Completed
<1>1. PICK P : P = {x \in PathNodes : count[x] > 0 /\ Reaches(f, x, n) => count[n] > 0}
  OBVIOUS
<1>2. ASSUME NEW x \in PathNodes,
             \A z \in PathNodes : NodeRank[z] < NodeRank[x] => z \in P
      PROVE  x \in P
  <2> SUFFICES ASSUME count[x] > 0, Reaches(f, x, n), n # x PROVE count[n] > 0
    BY <1>1
  <2>1. IsConditionNode(x)
    BY <1>0, ReachFromExit DEF FinalBDD
  <2>2. PICK y, v : y = Successor(e, x) /\ v = ValueAt(e, x)
    OBVIOUS
  <2>3. y \in PathNodes /\ NodeRank[y] < NodeRank[x] /\ v \in BOOLEAN
    BY <1>0, <2>1, <2>2, FollowCondition DEF Followed
  <2>4. Reaches(f, y, n)
    BY <2>1, <2>2, ReachFromCondition
  <2>5. EdgeTaken(x, v) /\ y = vec[x].dests[v]
    BY <2>1, <2>2, EnvironmentEdge DEF Successor
  <2>6. x \in NodesOf("Condition")
    BY <2>1 DEF IsConditionNode, NodesOf, PathNodes, Ids
  <2>7. Explored(x, FALSE) /\ Explored(x, TRUE)
    BY <1>0, <2>6 DEF IInv, CountedNodesAdditive, Additive
  <2>8. count[y] > 0
    BY <2>3, <2>5, <2>7 DEF Explored
  <2> QED
    BY <1>1, <1>2, <2>3, <2>4, <2>8
<1>3. NodeRank \in [PathNodes -> Nat]
  BY <1>0 DEF FinalBDD
<1>4. PathNodes \subseteq P
  BY <1>2, <1>3, RankInduction
<1> QED
  BY <1>1, <1>4

\* A valuation that takes edge b of node m, when it can be taken
LEMMA ChangedEnvironment ==
  ASSUME PathIInv, Completed, NEW a \in Environments, NEW m, IsConditionNode(m),
         NEW b \in BOOLEAN, EdgeTaken(m, b)
  PROVE  \E e \in Environments :
           ValueAt(e, m) = b /\ \A i \in CondIndexes : i # NodeIndex(m) => e[i] = a[i]
<1>1. PICK k, e : k = NodeIndex(m) /\ e = [a EXCEPT ![k] = b]
  OBVIOUS
<1>2. a \in [CondIndexes -> BOOLEAN] /\ k \in CondIndexes /\ FinalBDD
  BY <1>1, CompletedFinal DEF Environments, IsConditionNode, NodeIndex
<1>3. e \in [CondIndexes -> BOOLEAN] /\ e[k] = b /\ \A i \in CondIndexes : i # k => e[i] = a[i]
  BY <1>1, <1>2
<1>4. ASSUME NEW s \in Conditions PROVE sco[s].value # ToTristate(~e[sco[s].index])
  <2>1. sco[s].index \in CondIndexes
    BY DEF PathIInv, NodesNumbered
  <2>2. CASE sco[s].index = k
    <3>1. IsConditionNode(sco[s].node) /\ vec[sco[s].node].csco = s
      BY <1>2 DEF FinalBDD
    <3>2. sco[s].node = m
      BY <1>1, <2>2, <3>1, IndexNode DEF NodeIndex
    <3> QED
      BY <1>3, <2>2, <3>1, <3>2 DEF EdgeTaken
  <2>3. CASE sco[s].index # k
    <3>1. sco[s].value # ToTristate(~a[sco[s].index])
      BY DEF Environments
    <3> QED
      BY <1>3, <2>1, <2>3, <3>1
  <2> QED
    BY <2>2, <2>3
<1>5. ValueAt(e, m) = b
  BY <1>1, <1>3 DEF ValueAt, NodeIndex
<1> QED
  BY <1>1, <1>3, <1>4, <1>5 DEF Environments

\* Some valuation follows the edge
EdgeFollowed(m, b) ==
  \E e \in Environments :
    \E f : Followed(e, f) /\ Reaches(f, bdd.root, m) /\ ValueAt(e, m) = b

NodeReached(n) ==
  \E e \in Environments : \E f : Followed(e, f) /\ Reaches(f, bdd.root, n)

LEMMA EdgeReached ==
  ASSUME PathIInv, Completed, NEW m, IsConditionNode(m), NodeReached(m),
         NEW b \in BOOLEAN, EdgeTaken(m, b)
  PROVE  EdgeFollowed(m, b)
<1>1. FinalBDD /\ bdd.root \in PathNodes /\ m \notin Exits /\ NodeIndex(m) \in CondIndexes
  BY CompletedFinal DEF FinalBDD, IsConditionNode, NodeIndex
<1>2. PICK a \in Environments : \E g : Followed(a, g) /\ Reaches(g, bdd.root, m)
  BY DEF NodeReached
<1>3. PICK g : Followed(a, g) /\ Reaches(g, bdd.root, m)
  BY <1>2
<1>5. PICK e \in Environments :
        ValueAt(e, m) = b /\ \A i \in CondIndexes : i # NodeIndex(m) => e[i] = a[i]
  BY <1>2, ChangedEnvironment
<1>6. e \in [CondIndexes -> BOOLEAN]
  BY <1>5 DEF Environments
<1>7. PICK f : IsFollowed(e, f)
  BY <1>1, <1>6, FollowFunction
<1>8. \A i \in CondIndexes : i < NodeIndex(m) => a[i] = e[i]
  BY <1>1, <1>5 DEF CondIndexes
<1>9. f[bdd.root].values[NodeIndex(m)] # "Unknown"
  BY <1>1, <1>3, <1>6, <1>7, <1>8, StillReached DEF Followed, Reaches
<1> QED
  BY <1>1, <1>5, <1>6, <1>7, <1>9 DEF EdgeFollowed, Followed, Reaches

\* Following an edge reaches what it leads to
LEMMA SuccessorReached ==
  ASSUME PathIInv, Completed, NEW e, NEW f, Followed(e, f), NEW m, IsConditionNode(m),
         Reaches(f, bdd.root, m)
  PROVE  Reaches(f, m, Successor(e, m)) /\ Reaches(f, bdd.root, Successor(e, m))
<1>1. FinalBDD /\ bdd.root \in PathNodes /\ m \in PathNodes
  BY CompletedFinal DEF FinalBDD, IsConditionNode
<1>2. PICK y : y = Successor(e, m)
  OBVIOUS
<1>3. y \in PathNodes
  BY <1>1, <1>2, FollowCondition DEF Followed
<1>4. Reaches(f, y, y)
  BY <1>1, <1>3, ReachFromExit, ReachFromCondition DEF FinalBDD
<1>5. Reaches(f, m, y)
  BY <1>2, <1>3, <1>4, ReachFromCondition
<1> QED
  BY <1>1, <1>2, <1>3, <1>5, ReachOn

LEMMA CountedReached ==
  ASSUME PathIInv, VisitsTraced, Completed
  PROVE  \A n \in PathNodes : count[n] > 0 => NodeReached(n)
<1>0. /\ FinalBDD /\ NodesFound /\ IsConditionNode(bdd.root) /\ bdd.root \in PathNodes
      /\ Len(vec) \in Nat /\ PathNodes \subseteq 1..Len(vec)
  <2>1. FinalBDD /\ NodesFound
    BY CompletedFinal, DoneVisits
  <2>2. vec \in Seq(BDDNode)
    BY DEF PathIInv, IInv, TypeOK
  <2>3. Len(vec) \in Nat /\ PathNodes \subseteq 1..Len(vec)
    BY <2>2 DEF PathNodes, Ids
  <2> QED
    BY <2>1, <2>3 DEF FinalBDD, IsConditionNode
<1>1. ASSUME NEW m, NEW b, NEW n, Follows(m, b, n), NodeReached(m) PROVE NodeReached(n)
  <2>1. IsConditionNode(m) /\ b \in BOOLEAN /\ EdgeTaken(m, b) /\ vec[m].dests[b] = n
    BY <1>1 DEF Follows
  <2>2. EdgeFollowed(m, b)
    BY <1>1, <2>1, EdgeReached
  <2>3. PICK e \in Environments :
          \E f : Followed(e, f) /\ Reaches(f, bdd.root, m) /\ ValueAt(e, m) = b
    BY <2>2 DEF EdgeFollowed
  <2>4. PICK f : Followed(e, f) /\ Reaches(f, bdd.root, m) /\ ValueAt(e, m) = b
    BY <2>3
  <2>5. Successor(e, m) = n
    BY <2>1, <2>4 DEF Successor
  <2>6. Reaches(f, bdd.root, n)
    BY <2>1, <2>4, <2>5, SuccessorReached
  <2> QED
    BY <2>4, <2>6 DEF NodeReached
<1>2. NodeReached(bdd.root)
  <2>1. PICK e : e \in Environments
    BY EnvironmentExists
  <2>2. e \in [CondIndexes -> BOOLEAN]
    BY <2>1 DEF Environments
  <2>3. PICK f : IsFollowed(e, f)
    BY <1>0, <2>2, FollowFunction
  <2>4. Reaches(f, bdd.root, bdd.root)
    BY <1>0, <2>2, <2>3, ReachFromCondition DEF Followed
  <2> QED
    BY <2>1, <2>2, <2>3, <2>4 DEF NodeReached, Followed
<1> DEFINE C == {n \in PathNodes : IsConditionNode(n)}
<1>3. PICK S, rank : S = C /\ rank = [n \in S |-> n]
  OBVIOUS
<1>4. rank \in [S -> Nat]
  BY <1>0, <1>3
<1>5. PICK P : P = {n \in S : count[n] > 0 => NodeReached(n)}
  OBVIOUS
<1>6. ASSUME NEW n \in S, \A z \in S : rank[z] < rank[n] => z \in P PROVE n \in P
  <2> SUFFICES ASSUME count[n] > 0, n # bdd.root PROVE NodeReached(n)
    BY <1>2, <1>5
  <2>1. Follows(vec[n].parent, vec[n].parentValue, n)
    BY <1>0, <1>3 DEF NodesFound
  <2>2. PICK m, b : m = vec[n].parent /\ b = vec[n].parentValue
    OBVIOUS
  <2>3. IsConditionNode(m) /\ b \in BOOLEAN /\ count[m] > 0 /\ vec[m].dests[b] = n
    BY <2>1, <2>2 DEF Follows
  <2>4. NodeRank[n] < NodeRank[m] /\ m \in S
    BY <1>0, <1>3, <2>3, NextNode
  <2>5. NodeRank[n] = Len(vec) + 1 - n /\ NodeRank[m] = Len(vec) + 1 - m
    BY <1>3, <2>3 DEF NodeRank, IsConditionNode
  <2>6. m < n
    <3>1. m \in Nat /\ n \in Nat
      BY <1>0, <1>3, <2>4
    <3> QED
      BY <1>0, <2>4, <2>5, <3>1
  <2>7. m \in P
    BY <1>3, <1>6, <2>4, <2>6
  <2> QED
    BY <1>1, <1>5, <2>1, <2>2, <2>3, <2>7
<1>7. S \subseteq P
  BY <1>4, <1>6, RankInduction
<1>8. ASSUME NEW n \in PathNodes, count[n] > 0, IsExit(n) PROVE NodeReached(n)
  <2>1. PICK m, b : Follows(m, b, n)
    BY <1>0, <1>8 DEF NodesFound, IsExit
  <2>2. NodeReached(m)
    BY <1>3, <1>5, <1>7, <2>1 DEF Follows, IsConditionNode
  <2> QED
    BY <1>1, <2>1, <2>2
<1> QED
  BY <1>0, <1>3, <1>5, <1>7, <1>8 DEF FinalBDD

----------------------------------------------------------------------------
(* Statically known outcomes.                                              *)

LEMMA RootCounted ==
  ASSUME PathIInv, Completed
  PROVE  count[bdd.root] > 0
<1>1. IInv /\ FinalBDD
  BY CompletedFinal DEF PathIInv
<1>2. PICK e : e \in Environments
  BY EnvironmentExists
<1>3. e \in [CondIndexes -> BOOLEAN]
  BY <1>2 DEF Environments
<1>4. PICK f : IsFollowed(e, f)
  BY <1>1, <1>3, FollowFunction
<1>5. PathIndex(e) \in 0..(bdd.pathCount - 1)
  BY <1>1, <1>2, <1>4, RoundTrip
<1>6. bdd.pathCount = count[bdd.root] /\ bdd.pathCount \in Nat
  BY <1>1 DEF IInv, TypeOK, BDDType, FramesNested, Completed
<1> QED
  BY <1>5, <1>6

\* The exits that Visit marked are those that valuations reach
LEMMA ReachableOutcomes ==
  ASSUME PathIInv, VisitsTraced, Completed, NEW b \in BOOLEAN
  PROVE  bdd.reachable[b] <=> \E e \in Environments : ExpressionValue(e) = b
<1>0. FinalBDD /\ IInv /\ NodesFound /\ bdd.root \in PathNodes /\ phase = "done"
  BY CompletedFinal, DoneVisits DEF PathIInv, FinalBDD, IsConditionNode, Completed
<1>1. PICK n : n = IF b THEN ExitTrue ELSE ExitFalse
  OBVIOUS
<1>2. n \in Exits /\ n \in PathNodes /\ (n = ExitTrue) = b
  <2>1. n \in Exits /\ (n = ExitTrue) = b
    BY <1>1 DEF Exits, ExitTrue, ExitFalse
  <2> QED
    BY <1>0, <2>1 DEF FinalBDD, IsExit
<1>3. bdd.reachable[b] <=> count[n] > 0
  BY <1>0, <1>2 DEF NodesFound
<1>4. ASSUME NEW e, NEW f, Followed(e, f)
      PROVE  ExpressionValue(e) = f[bdd.root].outcome /\ f[bdd.root].outcome \in BOOLEAN
  <2>1. f[bdd.root] = ReferenceEvaluation(e) /\ f[bdd.root] \in EvaluationType
    BY <1>0, <1>4, FollowedReference DEF Followed, IsFollowed
  <2> QED
    BY <2>1 DEF ReferenceEvaluation, EvaluationType
<1>5. ASSUME count[n] > 0 PROVE \E e \in Environments : ExpressionValue(e) = b
  <2>1. PICK e \in Environments : \E f : Followed(e, f) /\ Reaches(f, bdd.root, n)
    BY <1>2, <1>5, CountedReached DEF NodeReached
  <2>2. PICK f : Followed(e, f) /\ Reaches(f, bdd.root, n)
    BY <2>1
  <2> QED
    BY <1>2, <1>4, <2>2 DEF Reaches
<1>6. ASSUME NEW e \in Environments, ExpressionValue(e) = b PROVE count[n] > 0
  <2>1. e \in [CondIndexes -> BOOLEAN]
    BY DEF Environments
  <2>2. PICK f : IsFollowed(e, f)
    BY <1>0, <2>1, FollowFunction
  <2>3. Followed(e, f)
    BY <2>1, <2>2 DEF Followed
  <2>4. Reaches(f, bdd.root, n)
    BY <1>2, <1>4, <1>6, <2>3 DEF Reaches
  <2> QED
    BY <1>0, <1>2, <2>3, <2>4, RootCounted, ReachedCounted
<1> QED
  BY <1>3, <1>5, <1>6

\* One step of Outcome, from node n
OutcomeStep(f, n) ==
  IF vec[n].kind = "Outcome" THEN ToTristate(vec[n].outcome)
  ELSE LET v == sco[vec[n].csco].value
       IN  IF v = "Unknown" THEN "Unknown"
           ELSE f[vec[n].dests[v = "True"]]

IsOutcomeFunction(f) == \A n \in PathNodes : f[n] = OutcomeStep(f, n)

ConstantValue(n) == sco[vec[n].csco].value

LEMMA OutcomeSteps ==
  ASSUME FinalBDD, NEW f, NEW n \in PathNodes
  PROVE  /\ IsExit(n) => OutcomeStep(f, n) = ToTristate(n = ExitTrue)
         /\ IsConditionNode(n) =>
              OutcomeStep(f, n) = IF ConstantValue(n) = "Unknown" THEN "Unknown"
                                  ELSE f[vec[n].dests[ConstantValue(n) = "True"]]
  BY DEF OutcomeStep, IsExit, IsConditionNode, ConstantValue

LEMMA OutcomeFunction ==
  ASSUME FinalBDD, \A c \in Conditions : sco[c].value \in Tristate
  PROVE  \E f : IsOutcomeFunction(f) /\ \A s, b : OutcomeOf(s, b) = f[NextBDDNode(s, b)]
<1>1. PICK S, B, rank : S = PathNodes /\ B = Len(vec) + 1 /\ rank = NodeRank
  OBVIOUS
<1>2. B \in Nat /\ rank \in [S -> 0..B] /\ rank \in [S -> Nat]
  BY <1>1 DEF FinalBDD
<1>3. PICK V : V = Tristate
  OBVIOUS
<1>4. "Unknown" \in V /\ \A b \in BOOLEAN : ToTristate(b) \in V
  BY <1>3 DEF ToTristate, Tristate
<1>5. ASSUME NEW n \in S, IsConditionNode(n)
      PROVE  /\ vec[n].dests[ConstantValue(n) = "True"] \in S
             /\ rank[vec[n].dests[ConstantValue(n) = "True"]] < rank[n]
  <2>1. (ConstantValue(n) = "True") \in BOOLEAN
    OBVIOUS
  <2> QED
    BY <1>1, <1>5, <2>1, NextNode
<1>6. ASSUME NEW f \in [S -> V], NEW n \in S PROVE OutcomeStep(f, n) \in V
  <2>1. CASE IsExit(n)
    <3>1. (n = ExitTrue) \in BOOLEAN
      OBVIOUS
    <3> QED
      BY <1>1, <1>4, <2>1, <3>1, OutcomeSteps
  <2>2. CASE IsConditionNode(n)
    <3>1. f[vec[n].dests[ConstantValue(n) = "True"]] \in V
      BY <1>5, <2>2
    <3> QED
      BY <1>1, <1>4, <2>2, <3>1, OutcomeSteps
  <2> QED
    BY <1>1, <2>1, <2>2 DEF FinalBDD
<1>7. ASSUME NEW f, NEW g, NEW n \in S, \A y \in S : rank[y] < rank[n] => f[y] = g[y]
      PROVE  OutcomeStep(f, n) = OutcomeStep(g, n)
  <2>1. CASE IsExit(n)
    BY <1>1, <2>1, OutcomeSteps
  <2>2. CASE IsConditionNode(n)
    <3>1. f[vec[n].dests[ConstantValue(n) = "True"]] = g[vec[n].dests[ConstantValue(n) = "True"]]
      BY <1>5, <1>7, <2>2
    <3> QED
      BY <1>1, <2>2, <3>1, OutcomeSteps
  <2> QED
    BY <1>1, <2>1, <2>2 DEF FinalBDD
<1>8. PICK G : G = [f \in [S -> V] |-> [n \in S |-> OutcomeStep(f, n)]]
  OBVIOUS
<1>9. G \in [[S -> V] -> [S -> V]]
  BY <1>6, <1>8
<1>10. PICK f \in [S -> V] : f = G[f]
  <2>1. ASSUME NEW f \in [S -> V], NEW g \in [S -> V], NEW n \in S,
               \A y \in S : rank[y] < rank[n] => f[y] = g[y]
        PROVE  G[f][n] = G[g][n]
    BY <1>7, <1>8, <2>1
  <2>2. LooksBelow(G, S, V, rank)
    BY <1>9, <2>1 DEF LooksBelow
  <2>3. PICK v \in V : TRUE
    BY <1>4
  <2> QED
    BY <1>2, <2>2, <2>3, RankRecursion
<1>11. f = [n \in S |-> OutcomeStep(f, n)]
  BY <1>8, <1>10
<1>12. PICK g : g = CHOOSE h : h = [n \in S |-> OutcomeStep(h, n)]
  OBVIOUS
<1>13. g = [n \in S |-> OutcomeStep(g, n)]
  BY <1>11, <1>12
<1>14. ASSUME NEW s, NEW b PROVE OutcomeOf(s, b) = g[NextBDDNode(s, b)]
  BY <1>1, <1>12 DEF OutcomeOf, OutcomeStep
<1> QED
  BY <1>1, <1>13, <1>14 DEF IsOutcomeFunction

\* What Outcome knows is the outcome of every valuation
LEMMA OutcomeKnown ==
  ASSUME PathIInv, Completed, NEW e \in Environments, NEW f, Followed(e, f), NEW g, IsOutcomeFunction(g),
         \A c \in Conditions : sco[c].value \in Tristate
  PROVE  \A n \in PathNodes : g[n] \in {"Unknown", ToTristate(f[n].outcome)}
<1>0. FinalBDD
  BY CompletedFinal
<1>1. PICK P : P = {n \in PathNodes : g[n] \in {"Unknown", ToTristate(f[n].outcome)}}
  OBVIOUS
<1>2. ASSUME NEW n \in PathNodes,
             \A z \in PathNodes : NodeRank[z] < NodeRank[n] => z \in P
      PROVE  n \in P
  <2>1. CASE IsExit(n)
    <3>1. f[n] = Nothing(n = ExitTrue)
      BY <1>0, <2>1, FollowSteps DEF IsFollowed, Followed
    <3>2. f[n].outcome = (n = ExitTrue)
      BY <3>1 DEF Nothing
    <3>3. g[n] = ToTristate(n = ExitTrue)
      BY <1>0, <2>1, OutcomeSteps DEF IsOutcomeFunction
    <3> QED
      BY <1>1, <3>2, <3>3
  <2>2. CASE IsConditionNode(n)
    <3> SUFFICES ASSUME ConstantValue(n) # "Unknown"
                 PROVE  g[n] \in {"Unknown", ToTristate(f[n].outcome)}
      <4>1. ConstantValue(n) = "Unknown" => g[n] = "Unknown"
        BY <1>0, <2>2, OutcomeSteps DEF IsOutcomeFunction
      <4> QED
        BY <1>1, <4>1
    <3>1. PICK v, m : v = ValueAt(e, n) /\ m = Successor(e, n)
      OBVIOUS
    <3>2. /\ m \in PathNodes /\ NodeRank[m] < NodeRank[n] /\ v \in BOOLEAN
          /\ f[n].outcome = f[m].outcome
      BY <1>0, <2>2, <3>1, FollowCondition DEF Followed
    <3>3. v = (ConstantValue(n) = "True")
      <4>1. ConstantValue(n) \in Tristate /\ ConstantValue(n) # ToTristate(~v)
        BY <2>2, <3>1 DEF IsConditionNode, ConstantValue, Environments, ValueAt
      <4> QED
        BY <3>2, <4>1 DEF Tristate, ToTristate
    <3>4. g[n] = g[m]
      <4>1. g[n] = g[vec[n].dests[ConstantValue(n) = "True"]]
        BY <1>0, <2>2, OutcomeSteps DEF IsOutcomeFunction
      <4>2. m = vec[n].dests[v]
        BY <3>1 DEF Successor
      <4> QED
        BY <3>3, <4>1, <4>2
    <3> QED
      BY <1>1, <1>2, <3>2, <3>4
  <2> QED
    BY <1>0, <2>1, <2>2 DEF FinalBDD
<1>3. NodeRank \in [PathNodes -> Nat]
  BY <1>0 DEF FinalBDD
<1>4. PathNodes \subseteq P
  BY <1>2, <1>3, RankInduction
<1> QED
  BY <1>1, <1>4

LEMMA KnownOutcome ==
  ASSUME PathIInv, Completed, NEW e \in Environments, NEW s \in Conditions,
         sco[s].index \in Evaluated(e)
  PROVE  OutcomeOf(s, e[sco[s].index]) \in {"Unknown", ToTristate(ExpressionValue(e))}
<1>0. /\ FinalBDD /\ bdd.root \in PathNodes /\ e \in [CondIndexes -> BOOLEAN]
      /\ \A c \in Conditions : sco[c].value \in Tristate
  <2>1. FinalBDD /\ e \in [CondIndexes -> BOOLEAN]
    BY CompletedFinal DEF Environments
  <2>2. \A c \in Conditions : sco[c].value \in Tristate
    <3> SUFFICES ASSUME NEW c \in Conditions PROVE sco[c].value \in Tristate
      OBVIOUS
    <3>1. sco \in Seq(SCODescriptor) /\ c \in 1..Len(sco)
      BY DEF PathIInv, IInv, TypeOK, Conditions
    <3>2. sco[c] \in SCODescriptor
      BY <3>1
    <3>3. sco[c].kind = "Condition"
      BY DEF Conditions
    <3> QED
      BY <3>2, <3>3 DEF SCODescriptor, DecisionType, OperatorType, ConditionType
  <2> QED
    BY <2>1, <2>2 DEF FinalBDD, IsConditionNode
<1>1. PICK f : IsFollowed(e, f)
  BY <1>0, FollowFunction
<1>2. PICK g : IsOutcomeFunction(g) /\ \A t, b : OutcomeOf(t, b) = g[NextBDDNode(t, b)]
  BY <1>0, OutcomeFunction
<1>3. PICK n, i : n = sco[s].node /\ i = sco[s].index
  OBVIOUS
<1>4. IsConditionNode(n) /\ vec[n].csco = s /\ i = NodeIndex(n) /\ i \in CondIndexes
  BY <1>0, <1>3 DEF FinalBDD, IsConditionNode, NodeIndex
<1>5. f[bdd.root] = ReferenceEvaluation(e)
  BY <1>0, <1>1, FollowedReference
<1>6. f[bdd.root].values[i] # "Unknown"
  BY <1>0, <1>3, <1>4, <1>5, ReferenceValues
<1>7. f[bdd.root].outcome = f[n].outcome
  BY <1>0, <1>1, <1>4, <1>6, PathThrough DEF GoesThrough
<1>8. PICK m : m = Successor(e, n)
  OBVIOUS
<1>9. m \in PathNodes /\ f[n].outcome = f[m].outcome
  BY <1>0, <1>1, <1>4, <1>8, FollowCondition
<1>10. NextBDDNode(s, e[sco[s].index]) = m
  BY <1>3, <1>4, <1>8 DEF NextBDDNode, Successor, ValueAt
<1>11. g[m] \in {"Unknown", ToTristate(f[m].outcome)}
  BY <1>0, <1>1, <1>2, <1>9, OutcomeKnown DEF Followed
<1>12. ExpressionValue(e) = f[bdd.root].outcome
  BY <1>5 DEF ReferenceEvaluation
<1> QED
  BY <1>2, <1>7, <1>9, <1>10, <1>11, <1>12

\* What Visit finds reachable, and the outcomes that Outcome and
\* Decision_Outcome deduce, are those of the evaluations that can happen
THEOREM StaticOutcomes == Spec => []StaticOutcomesSound
<1>1. ASSUME PathIInv, VisitsTraced, Completed PROVE StaticOutcomesSound
  <2>1. PICK outcomes : outcomes = {ExpressionValue(e) : e \in Environments}
    OBVIOUS
  <2>2. \A b \in BOOLEAN : bdd.reachable[b] <=> b \in outcomes
    BY <1>1, <2>1, ReachableOutcomes
  <2>3. bdd.reachable \in [BOOLEAN -> BOOLEAN]
    BY <1>1 DEF PathIInv, IInv, TypeOK, BDDType
  <2>4. bdd.reachable = [b \in BOOLEAN |-> b \in outcomes]
    BY <2>2, <2>3
  <2>5. outcomes \subseteq BOOLEAN
    <3> SUFFICES ASSUME NEW e \in Environments PROVE ExpressionValue(e) \in BOOLEAN
      BY <2>1
    <3>1. ReferenceEvaluation(e) \in EvaluationType
      BY <1>1, ReferenceValues DEF Environments
    <3> QED
      BY <3>1 DEF ReferenceEvaluation, EvaluationType
  <2>6. ASSUME NEW b \in outcomes PROVE DecisionOutcome \in {"Unknown", ToTristate(b)}
    <3>1. b \in BOOLEAN /\ bdd.reachable[b] = TRUE
      BY <2>2, <2>3, <2>5, <2>6
    <3>2. CASE bdd.reachable[FALSE] = bdd.reachable[TRUE]
      BY <3>2 DEF DecisionOutcome
    <3>3. CASE bdd.reachable[FALSE] # bdd.reachable[TRUE]
      <4>1. bdd.reachable[TRUE] = b
        <5>1. CASE b = TRUE
          BY <3>1, <5>1
        <5>2. CASE b = FALSE
          BY <2>3, <3>1, <3>3, <5>2
        <5> QED
          BY <3>1, <5>1, <5>2
      <4> QED
        BY <3>3, <4>1 DEF DecisionOutcome
    <3> QED
      BY <3>2, <3>3
  <2>7. \A e \in Environments, s \in Conditions :
          sco[s].index \in Evaluated(e) =>
            OutcomeOf(s, e[sco[s].index]) \in {"Unknown", ToTristate(ExpressionValue(e))}
    BY <1>1, KnownOutcome
  <2> QED
    BY <2>1, <2>4, <2>6, <2>7 DEF StaticOutcomesSound
<1>2. PathIInv /\ VisitsTraced => StaticOutcomesSound
  BY <1>1 DEF StaticOutcomesSound
<1> QED
  BY <1>2, PathInvariance, VisitInvariance, PTL

----------------------------------------------------------------------------
(* The values before a condition.                                          *)

LEMMA NodeOrder ==
  ASSUME PathIInv, Completed, NEW m, IsConditionNode(m), NEW b \in BOOLEAN,
         NEW n, IsConditionNode(n), vec[m].dests[b] = n
  PROVE  m \in 1..Len(vec) /\ n \in 1..Len(vec) /\ m < n /\ Len(vec) \in Nat
<1>1. FinalBDD /\ vec \in Seq(BDDNode)
  BY CompletedFinal DEF PathIInv, IInv, TypeOK
<1>2. m \in 1..Len(vec) /\ n \in 1..Len(vec) /\ Len(vec) \in Nat
  BY <1>1 DEF IsConditionNode, PathNodes, Ids
<1>3. NodeRank[n] < NodeRank[m]
  BY <1>1, NextNode
<1>4. NodeRank[n] = Len(vec) + 1 - n /\ NodeRank[m] = Len(vec) + 1 - m
  BY DEF NodeRank, IsConditionNode
<1>5. PICK L : L = Len(vec)
  OBVIOUS
<1>6. m \in Nat /\ n \in Nat /\ L \in Nat /\ L + 1 - n < L + 1 - m
  BY <1>2, <1>3, <1>4, <1>5
<1>7. m < n
  BY <1>6
<1> QED
  BY <1>2, <1>7

\* No edge that Visit followed leads to the root
LEMMA RootFirst ==
  ASSUME PathIInv, VisitsTraced, Completed, NEW m, NEW b, Follows(m, b, bdd.root)
  PROVE  FALSE
<1>1. FinalBDD /\ IsConditionNode(bdd.root) /\ bdd.root \in PathNodes
  BY CompletedFinal DEF FinalBDD, IsConditionNode
<1>2. IsConditionNode(m) /\ b \in BOOLEAN /\ count[m] > 0 /\ vec[m].dests[b] = bdd.root /\ m \in PathNodes
  BY DEF Follows, IsConditionNode
<1>3. PICK e \in Environments : \E f : Followed(e, f) /\ Reaches(f, bdd.root, m)
  BY <1>2, CountedReached DEF NodeReached
<1>4. PICK f : Followed(e, f) /\ Reaches(f, bdd.root, m)
  BY <1>3
<1>5. PICK r : r = bdd.root
  OBVIOUS
<1>6. NodeIndex(r) <= NodeIndex(m) /\ NodeIndex(m) \in Nat /\ NodeIndex(r) \in Nat
  BY <1>1, <1>2, <1>4, <1>5, ReachUp
<1>7. NodeIndex(m) < NodeIndex(r)
  BY <1>1, <1>2, <1>5, SuccessorOrder
<1> QED
  BY <1>6, <1>7

\* What a valuation evaluates, it evaluates at a node
LEMMA EvaluatedNode ==
  ASSUME PathIInv, Completed, NEW e, NEW f, Followed(e, f), NEW i \in CondIndexes,
         f[bdd.root].values[i] # "Unknown"
  PROVE  \E k : IsConditionNode(k) /\ NodeIndex(k) = i /\ Reaches(f, bdd.root, k)
<1>1. FinalBDD /\ e \in [CondIndexes -> BOOLEAN] /\ IsFollowed(e, f)
  BY CompletedFinal DEF Followed
<1>2. f[bdd.root] = ReferenceEvaluation(e)
  BY <1>1, FollowedReference
<1>3. i \in Evaluated(e)
  BY <1>1, <1>2, ReferenceValues
<1>4. PICK s \in Conditions : sco[s].index = i
  BY <1>3 DEF Evaluated
<1>5. PICK k : k = sco[s].node
  OBVIOUS
<1>6. IsConditionNode(k) /\ NodeIndex(k) = i
  BY <1>1, <1>4, <1>5 DEF FinalBDD, NodeIndex
<1>7. k \notin Exits
  BY <1>6 DEF IsConditionNode
<1> QED
  BY <1>6, <1>7 DEF Reaches

\* Valuation f comes into node n along edge b of m: the condition of m is
\* the last one that it evaluates before that of n
ComesFrom(f, m, b, n) ==
  /\ NodeIndex(m) \in Nat /\ NodeIndex(n) \in Nat /\ NodeIndex(m) < NodeIndex(n)
  /\ f[bdd.root].values[NodeIndex(m)] = ToTristate(b)
  /\ \A i \in CondIndexes :
       NodeIndex(m) < i /\ i < NodeIndex(n) => f[bdd.root].values[i] = "Unknown"

LEMMA EdgeValues ==
  ASSUME PathIInv, Completed, NEW e, NEW f, Followed(e, f), NEW m, IsConditionNode(m),
         Reaches(f, bdd.root, m), NEW b, b = ValueAt(e, m),
         NEW n, IsConditionNode(n), Successor(e, m) = n
  PROVE  ComesFrom(f, m, b, n)
<1>1. /\ FinalBDD /\ bdd.root \in PathNodes /\ m \notin Exits /\ n \in PathNodes
      /\ e \in [CondIndexes -> BOOLEAN] /\ IsFollowed(e, f)
  BY CompletedFinal DEF FinalBDD, IsConditionNode, Followed
<1>2. b \in BOOLEAN /\ vec[m].dests[b] = n /\ b = e[NodeIndex(m)] /\ NodeIndex(m) \in CondIndexes
  BY <1>1, FollowCondition DEF Successor
<1>3. NodeIndex(m) \in Nat /\ NodeIndex(n) \in Nat /\ NodeIndex(m) < NodeIndex(n)
  BY <1>2, SuccessorOrder
<1>4. f[bdd.root].values[NodeIndex(m)] = ToTristate(b)
  <2>1. f[bdd.root] = ReferenceEvaluation(e)
    BY <1>1, FollowedReference
  <2>2. f[bdd.root].values[NodeIndex(m)] # "Unknown"
    BY <1>1 DEF Reaches
  <2> QED
    BY <1>1, <1>2, <2>1, <2>2, ReferenceValues
<1>5. ASSUME NEW i \in CondIndexes, NodeIndex(m) < i, i < NodeIndex(n),
             f[bdd.root].values[i] # "Unknown"
      PROVE  FALSE
  <2>1. PICK k : IsConditionNode(k) /\ NodeIndex(k) = i /\ Reaches(f, bdd.root, k)
    BY <1>5, EvaluatedNode
  <2>2. Reaches(f, m, k)
    BY <1>1, <1>5, <2>1, ReachOrder
  <2>3. i \in Nat
    BY DEF CondIndexes
  <2>4. k # m
    BY <1>3, <1>5, <2>1, <2>3
  <2>5. Reaches(f, n, k)
    <3>1. k \in PathNodes
      BY <2>1 DEF IsConditionNode
    <3> QED
      BY <2>2, <2>4, <3>1, ReachFromCondition
  <2>6. NodeIndex(n) <= NodeIndex(k)
    BY <2>1, <2>5, ReachUp
  <2> QED
    BY <1>3, <1>5, <2>1, <2>3, <2>6
<1> QED
  BY <1>3, <1>4, <1>5 DEF ComesFrom

\* One step of Infer_Values, from node n, for the conditions of K
ClimbStep(K, f, n) ==
  IF vec[n].parent = 0
  THEN [i \in K |-> "Unknown"]
  ELSE [f[vec[n].parent] EXCEPT
          ![sco[vec[vec[n].parent].csco].index] = ToTristate(vec[n].parentValue)]

IsClimb(K, f) ==
  /\ f \in [NodesOf("Condition") -> [K -> Tristate]]
  /\ \A n \in NodesOf("Condition") : f[n] = ClimbStep(K, f, n)

LEMMA ParentBefore ==
  ASSUME PathIInv, VisitsTraced, Completed, NEW n \in NodesOf("Condition"), vec[n].parent # 0
  PROVE  /\ vec[n].parent \in NodesOf("Condition") /\ vec[n].parentValue \in BOOLEAN
         /\ vec[n].parent \in 1..Len(vec) /\ vec[n].parent < n
<1>1. NodesFound /\ FinalBDD
  BY DoneVisits, CompletedFinal
<1>2. IsConditionNode(n)
  <2>1. n \in PathNodes /\ vec[n].kind = "Condition"
    BY DEF NodesOf, PathNodes, Ids
  <2> QED
    BY <1>1, <2>1 DEF FinalBDD, IsExit
<1>3. Follows(vec[n].parent, vec[n].parentValue, n)
  BY <1>1, <1>2 DEF NodesFound
<1>4. PICK m, b : m = vec[n].parent /\ b = vec[n].parentValue
  OBVIOUS
<1>5. IsConditionNode(m) /\ b \in BOOLEAN /\ vec[m].dests[b] = n
  BY <1>3, <1>4 DEF Follows
<1>6. m \in NodesOf("Condition")
  BY <1>5 DEF IsConditionNode, NodesOf, PathNodes, Ids
<1>7. m \in 1..Len(vec) /\ m < n
  BY <1>2, <1>5, NodeOrder
<1> QED
  BY <1>4, <1>5, <1>6, <1>7

LEMMA ClimbFunction ==
  ASSUME PathIInv, VisitsTraced, Completed, NEW s \in Conditions,
         NEW K, K = 0..(sco[s].index - 1)
  PROVE  \E f : IsClimb(K, f) /\ InferValues(s) = f[sco[s].node]
<1>0. Len(vec) \in Nat /\ NodesOf("Condition") \subseteq 1..Len(vec)
  BY DEF PathIInv, IInv, TypeOK, NodesOf
<1>1. PICK S, B, rank : /\ S = NodesOf("Condition") /\ B = Len(vec)
                        /\ rank = [n \in S |-> n]
  OBVIOUS
<1>2. B \in Nat /\ rank \in [S -> 0..B] /\ rank \in [S -> Nat]
  BY <1>0, <1>1
<1>3. PICK V : V = [K -> Tristate]
  OBVIOUS
<1>4. PICK v \in V : v = [i \in K |-> "Unknown"]
  BY <1>3 DEF Tristate
<1>5. ASSUME NEW n \in S, vec[n].parent # 0
      PROVE  /\ vec[n].parent \in S /\ rank[vec[n].parent] < rank[n]
             /\ ToTristate(vec[n].parentValue) \in Tristate
  <2>1. /\ vec[n].parent \in S /\ vec[n].parentValue \in BOOLEAN /\ vec[n].parent < n
    BY <1>1, <1>5, ParentBefore
  <2> QED
    BY <1>1, <2>1 DEF ToTristate, Tristate
<1>6. ASSUME NEW f \in [S -> V], NEW n \in S PROVE ClimbStep(K, f, n) \in V
  <2>1. CASE vec[n].parent = 0
    BY <1>4, <2>1 DEF ClimbStep
  <2>2. CASE vec[n].parent # 0
    <3>1. PICK p, t, k : /\ p = f[vec[n].parent] /\ t = ToTristate(vec[n].parentValue)
                         /\ k = sco[vec[vec[n].parent].csco].index
      OBVIOUS
    <3>2. p \in [K -> Tristate] /\ t \in Tristate
      BY <1>3, <1>5, <2>2, <3>1
    <3>3. [p EXCEPT ![k] = t] \in [K -> Tristate]
      BY <3>2
    <3>4. ClimbStep(K, f, n) = [p EXCEPT ![k] = t]
      BY <2>2, <3>1 DEF ClimbStep
    <3> QED
      BY <1>3, <3>3, <3>4
  <2> QED
    BY <2>1, <2>2
<1>7. ASSUME NEW f, NEW g, NEW n \in S, \A y \in S : rank[y] < rank[n] => f[y] = g[y]
      PROVE  ClimbStep(K, f, n) = ClimbStep(K, g, n)
  <2>1. CASE vec[n].parent = 0
    BY <2>1 DEF ClimbStep
  <2>2. CASE vec[n].parent # 0
    <3>1. f[vec[n].parent] = g[vec[n].parent]
      BY <1>5, <1>7, <2>2
    <3> QED
      BY <3>1 DEF ClimbStep
  <2> QED
    BY <2>1, <2>2
<1>8. PICK G : G = [f \in [S -> V] |-> [n \in S |-> ClimbStep(K, f, n)]]
  OBVIOUS
<1>9. G \in [[S -> V] -> [S -> V]]
  BY <1>6, <1>8
<1>10. PICK f \in [S -> V] : f = G[f]
  <2>1. ASSUME NEW f \in [S -> V], NEW g \in [S -> V], NEW n \in S,
               \A y \in S : rank[y] < rank[n] => f[y] = g[y]
        PROVE  G[f][n] = G[g][n]
    BY <1>7, <1>8, <2>1
  <2>2. LooksBelow(G, S, V, rank)
    BY <1>9, <2>1 DEF LooksBelow
  <2> QED
    BY <1>2, <1>4, <2>2, RankRecursion
<1>11. f = [n \in S |-> ClimbStep(K, f, n)]
  BY <1>8, <1>10
<1>12. PICK g : g = CHOOSE h : h = [n \in S |-> ClimbStep(K, h, n)]
  OBVIOUS
<1>13. g = [n \in S |-> ClimbStep(K, g, n)]
  BY <1>11, <1>12
<1>14. InferValues(s) = g[sco[s].node]
  BY <1>1, <1>12 DEF InferValues, ClimbStep
<1>15. \A n \in S : g[n] = f[n]
  <2>1. PICK P : P = {n \in S : g[n] = f[n]}
    OBVIOUS
  <2>2. ASSUME NEW n \in S, \A y \in S : rank[y] < rank[n] => y \in P PROVE n \in P
    <3>1. ClimbStep(K, g, n) = ClimbStep(K, f, n)
      BY <1>7, <2>1, <2>2
    <3> QED
      BY <1>11, <1>13, <2>1, <3>1
  <2>3. S \subseteq P
    BY <1>2, <2>2, RankInduction
  <2> QED
    BY <2>1, <2>3
<1>16. sco[s].node \in S
  BY <1>1 DEF PathIInv, NodesNumbered
<1> QED
  BY <1>1, <1>3, <1>10, <1>11, <1>14, <1>15, <1>16 DEF IsClimb

\* What Infer_Values finds for the node of n: the values before it
ClimbedTo(K, f, h, n) ==
  h[n] = [i \in K |-> IF i < NodeIndex(n) THEN f[bdd.root].values[i] ELSE "Unknown"]

LEMMA ClimbedValues ==
  ASSUME PathIInv, VisitsTraced, Completed, bdd.firstMultipath = 0,
         NEW e \in Environments, NEW f, Followed(e, f),
         NEW K \in SUBSET CondIndexes, NEW h, IsClimb(K, h)
  PROVE  \A n \in NodesOf("Condition") : Reaches(f, bdd.root, n) => ClimbedTo(K, f, h, n)
<1>0. /\ FinalBDD /\ NodesFound /\ IsConditionNode(bdd.root) /\ bdd.root \in PathNodes
      /\ Len(vec) \in Nat /\ NodesOf("Condition") \subseteq 1..Len(vec)
      /\ e \in [CondIndexes -> BOOLEAN] /\ IsFollowed(e, f)
  <2>1. FinalBDD /\ NodesFound
    BY CompletedFinal, DoneVisits
  <2>2. Len(vec) \in Nat /\ NodesOf("Condition") \subseteq 1..Len(vec)
    BY DEF PathIInv, IInv, TypeOK, NodesOf
  <2> QED
    BY <2>1, <2>2 DEF FinalBDD, IsConditionNode, Followed
<1>1. PICK S, rank : S = NodesOf("Condition") /\ rank = [n \in S |-> n]
  OBVIOUS
<1>2. rank \in [S -> Nat]
  BY <1>0, <1>1
<1>3. PICK P : P = {n \in S : Reaches(f, bdd.root, n) => ClimbedTo(K, f, h, n)}
  OBVIOUS
<1>4. ASSUME NEW n \in S, \A z \in S : rank[z] < rank[n] => z \in P PROVE n \in P
  <2> SUFFICES ASSUME Reaches(f, bdd.root, n) PROVE ClimbedTo(K, f, h, n)
    BY <1>3
  <2>1. IsConditionNode(n) /\ n \in PathNodes
    <3>1. n \in PathNodes /\ vec[n].kind = "Condition"
      BY <1>1 DEF NodesOf, PathNodes, Ids
    <3> QED
      BY <1>0, <3>1 DEF FinalBDD, IsExit
  <2>2. h[n] = ClimbStep(K, h, n)
    BY <1>1 DEF IsClimb
  <2>3. PICK v : v = f[bdd.root].values
    OBVIOUS
  <2>4. NodeIndex(n) \in Nat
    BY <2>1 DEF IsConditionNode, NodeIndex, CondIndexes
  <2>5. CASE n = bdd.root
    <3>1. vec[n].parent = 0
      <4> SUFFICES ASSUME vec[n].parent # 0 PROVE FALSE
        OBVIOUS
      <4>1. Follows(vec[n].parent, vec[n].parentValue, n)
        BY <1>0, <2>1 DEF NodesFound
      <4> QED
        BY <2>5, <4>1, RootFirst
    <3>2. h[n] = [i \in K |-> "Unknown"]
      BY <2>2, <3>1 DEF ClimbStep
    <3>3. ASSUME NEW i \in K, i < NodeIndex(n) PROVE v[i] = "Unknown"
      <4>1. v[i] # "Unknown" => NodeIndex(n) <= i
        BY <1>0, <2>3, <2>5, LaterValues DEF LaterThan
      <4>2. i \in Nat
        BY DEF CondIndexes
      <4> QED
        BY <2>4, <3>3, <4>1, <4>2
    <3> QED
      BY <2>3, <3>2, <3>3 DEF ClimbedTo
  <2>6. CASE n # bdd.root
    <3>1. PICK m : IsConditionNode(m) /\ Reaches(f, bdd.root, m) /\ Successor(e, m) = n
      BY <1>0, <2>1, <2>6, Predecessor
    <3>2. PICK b : b = ValueAt(e, m)
      OBVIOUS
    <3>3. /\ b \in BOOLEAN /\ vec[m].dests[b] = n /\ m \in PathNodes
          /\ NodeIndex(m) \in CondIndexes
      BY <1>0, <3>1, <3>2, FollowCondition DEF Successor
    <3>4. Follows(m, b, n)
      <4>1. EdgeTaken(m, b)
        BY <3>1, <3>2, EnvironmentEdge
      <4>2. count[m] > 0
        BY <1>0, <3>1, <3>3, RootCounted, ReachedCounted
      <4> QED
        BY <3>1, <3>3, <4>1, <4>2 DEF Follows
    <3>5. vec[n].parent = m /\ vec[n].parentValue = b
      BY <1>0, <2>1, <3>4 DEF NodesFound
    <3>6. m < n /\ m \in S /\ m # 0
      <4>1. m \in 1..Len(vec) /\ m < n
        BY <2>1, <3>1, <3>3, NodeOrder
      <4>2. m \in S
        BY <1>1, <3>1 DEF IsConditionNode, NodesOf, PathNodes, Ids
      <4> QED
        BY <4>1, <4>2
    <3>7. ClimbedTo(K, f, h, m)
      BY <1>1, <1>3, <1>4, <3>1, <3>6
    <3>8. ComesFrom(f, m, b, n)
      BY <2>1, <3>1, <3>2, EdgeValues
    <3>9. PICK j, k, t : j = NodeIndex(m) /\ k = NodeIndex(n) /\ t = ToTristate(b)
      OBVIOUS
    <3>10. /\ j \in Nat /\ k \in Nat /\ j < k /\ v[j] = t
           /\ \A i \in CondIndexes : j < i /\ i < k => v[i] = "Unknown"
      BY <2>3, <3>8, <3>9 DEF ComesFrom
    <3>11. PICK q : q = h[m]
      OBVIOUS
    <3>12. q = [i \in K |-> IF i < j THEN v[i] ELSE "Unknown"]
      BY <2>3, <3>7, <3>9, <3>11 DEF ClimbedTo
    <3>13. h[n] = [q EXCEPT ![j] = t]
      BY <2>2, <3>5, <3>6, <3>9, <3>11 DEF ClimbStep, NodeIndex
    <3>14. ASSUME NEW i \in K
           PROVE  [q EXCEPT ![j] = t][i] = IF i < k THEN v[i] ELSE "Unknown"
      <4>1. i \in Nat /\ i \in CondIndexes
        BY DEF CondIndexes
      <4>2. CASE i = j
        BY <3>10, <3>12, <4>2
      <4>3. CASE i # j
        <5>1. [q EXCEPT ![j] = t][i] = IF i < j THEN v[i] ELSE "Unknown"
          BY <3>12, <4>3
        <5>2. j < i /\ i < k => v[i] = "Unknown"
          BY <3>10, <4>1
        <5>3. i < j => i < k
          BY <3>10, <4>1
        <5>4. i < j \/ j < i
          BY <3>10, <4>1, <4>3
        <5> QED
          BY <5>1, <5>2, <5>3, <5>4
      <4> QED
        BY <4>2, <4>3
    <3>15. [q EXCEPT ![j] = t] = [i \in K |-> IF i < k THEN v[i] ELSE "Unknown"]
      BY <3>12, <3>14
    <3> QED
      BY <2>3, <3>9, <3>13, <3>15 DEF ClimbedTo
  <2> QED
    BY <2>5, <2>6
<1>5. S \subseteq P
  BY <1>2, <1>4, RankInduction
<1> QED
  BY <1>1, <1>3, <1>5

\* With no multipath condition, they are those of every evaluation
LEMMA InferredPrefix ==
  ASSUME PathIInv, VisitsTraced, Completed, bdd.firstMultipath = 0,
         NEW e \in Environments, NEW s \in Conditions, sco[s].index \in Evaluated(e)
  PROVE  InferValues(s) = Prefix(e, s)
<1>1. FinalBDD /\ e \in [CondIndexes -> BOOLEAN]
  BY CompletedFinal DEF Environments
<1>2. PICK f : IsFollowed(e, f)
  BY <1>1, FollowFunction
<1>3. PICK K, n : K = 0..(sco[s].index - 1) /\ n = sco[s].node
  OBVIOUS
<1>4. PICK h : IsClimb(K, h) /\ InferValues(s) = h[n]
  BY <1>3, ClimbFunction
<1>5. IsConditionNode(n) /\ vec[n].csco = s /\ NodeIndex(n) = sco[s].index /\ n \notin Exits
  BY <1>1, <1>3 DEF FinalBDD, IsConditionNode, NodeIndex
<1>6. n \in NodesOf("Condition")
  BY <1>5 DEF IsConditionNode, NodesOf, PathNodes, Ids
<1>7. f[bdd.root] = ReferenceEvaluation(e)
  BY <1>1, <1>2, FollowedReference
<1>8. sco[s].index \in CondIndexes
  BY <1>5 DEF IsConditionNode, NodeIndex
<1>9. K \in SUBSET CondIndexes /\ \A i \in K : i < sco[s].index
  BY <1>3, <1>8, LastIndexNatural DEF CondIndexes
<1>10. Reaches(f, bdd.root, n)
  BY <1>1, <1>5, <1>7, <1>8, ReferenceValues DEF Reaches
<1>11. ClimbedTo(K, f, h, n)
  BY <1>1, <1>2, <1>4, <1>6, <1>9, <1>10, ClimbedValues DEF Followed
<1>12. InferValues(s) = [i \in K |-> f[bdd.root].values[i]]
  BY <1>4, <1>5, <1>9, <1>11 DEF ClimbedTo
<1> QED
  BY <1>3, <1>7, <1>12 DEF Prefix

\* Infer_Values deduces the values before a condition of every evaluation
\* that reaches it
THEOREM InferredValues == Spec => []InferredValuesSound
<1>1. ASSUME PathIInv, VisitsTraced, Completed, ~HasMultipathCondition,
             NEW e \in Environments, NEW s \in Conditions, sco[s].index \in Evaluated(e)
      PROVE  InferValues(s) = Prefix(e, s)
  BY <1>1, InferredPrefix DEF HasMultipathCondition
<1>2. PathIInv /\ VisitsTraced => InferredValuesSound
  BY <1>1 DEF InferredValuesSound
<1> QED
  BY <1>2, PathInvariance, VisitInvariance, PTL

----------------------------------------------------------------------------
(* The multipath conditions.                                               *)

\* What evaluations that reach condition s have evaluated before it
Prefixes(s) == {Prefix(e, s) : e \in {f \in Environments : sco[s].index \in Evaluated(f)}}

LEMMA PrefixesFinite ==
  ASSUME PathIInv, Completed, NEW s \in Conditions
  PROVE  IsFiniteSet(Prefixes(s))
<1>1. /\ FinalBDD /\ IInv /\ bdd.pathCount \in Nat
      /\ \A e \in Environments : e \in [CondIndexes -> BOOLEAN]
  BY CompletedFinal DEF PathIInv, IInv, TypeOK, BDDType, Environments
<1>2. PICK C, T, K : /\ C = 0..(bdd.pathCount - 1) /\ T = Prefixes(s)
                     /\ K = 0..(sco[s].index - 1)
  OBVIOUS
<1>3. PICK S : S = {k \in C : \E e \in Environments :
                      PathIndex(e) = k /\ sco[s].index \in Evaluated(e)}
  OBVIOUS
<1>4. PICK h : h = [k \in S |-> [i \in K |-> ConditionValues(k).values[i]]]
  OBVIOUS
<1>5. ASSUME NEW e \in Environments
      PROVE  PathIndex(e) \in C /\ ConditionValues(PathIndex(e)) = ReferenceEvaluation(e)
  <2>1. PICK f : IsFollowed(e, f)
    BY <1>1, FollowFunction
  <2> QED
    BY <1>1, <1>2, <2>1, RoundTrip, FollowedReference
<1>6. ASSUME NEW e \in Environments, sco[s].index \in Evaluated(e)
      PROVE  PathIndex(e) \in S /\ h[PathIndex(e)] = Prefix(e, s)
  <2>1. PathIndex(e) \in S
    BY <1>3, <1>5, <1>6
  <2>2. h[PathIndex(e)] = [i \in K |-> ReferenceEvaluation(e).values[i]]
    BY <1>4, <1>5, <2>1
  <2> QED
    BY <1>2, <2>1, <2>2 DEF Prefix
<1>7. ASSUME NEW k \in S PROVE h[k] \in T
  <2>1. PICK e \in Environments : PathIndex(e) = k /\ sco[s].index \in Evaluated(e)
    BY <1>3
  <2> QED
    BY <1>2, <1>6, <2>1 DEF Prefixes
<1>8. \A p \in T : \E k \in S : h[k] = p
  BY <1>2, <1>6 DEF Prefixes
<1>9. h \in Surjection(S, T)
  <2>1. h \in [S -> T]
    BY <1>4, <1>7
  <2> QED
    BY <1>8, <2>1, Fun_IsSurj
<1>10. IsFiniteSet(S)
  <2>1. IsFiniteSet(C)
    BY <1>1, <1>2, FS_Interval
  <2> QED
    BY <1>3, <2>1, FS_Subset
<1> QED
  BY <1>2, <1>9, <1>10, FS_Surjection

LEMMA SeveralPrefixes ==
  ASSUME PathIInv, Completed, NEW s \in Conditions
  PROVE  s \in MultipathConditions <=> \E p, q \in Prefixes(s) : p # q
<1>1. PICK T : T = Prefixes(s)
  OBVIOUS
<1>2. IsFiniteSet(T) /\ Cardinality(T) \in Nat
  BY <1>1, PrefixesFinite, FS_CardinalityType
<1>3. s \in MultipathConditions <=> Cardinality(T) > 1
  BY <1>1 DEF MultipathConditions, Prefixes
<1>4. Cardinality(T) = 0 <=> T = {}
  BY <1>2, FS_EmptySet
<1>5. Cardinality(T) = 1 <=> \E x : T = {x}
  BY <1>2, FS_Singleton
<1>6. (\E p, q \in T : p # q) <=> T # {} /\ ~(\E x : T = {x})
  OBVIOUS
<1> QED
  BY <1>1, <1>2, <1>3, <1>4, <1>5, <1>6

\* Some evaluation comes into node n, that of s, along edge b of m
Enters(m, b, n, s) ==
  \E e \in Environments :
    \E f : /\ Followed(e, f) /\ ComesFrom(f, m, b, n)
          /\ sco[s].index \in Evaluated(e)
          /\ Prefix(e, s) = [i \in 0..(NodeIndex(n) - 1) |-> f[bdd.root].values[i]]

LEMMA EdgeEntered ==
  ASSUME PathIInv, VisitsTraced, Completed, NEW m, NEW b, NEW n, Follows(m, b, n),
         IsConditionNode(n)
  PROVE  Enters(m, b, n, vec[n].csco)
<1>1. FinalBDD /\ IsConditionNode(m) /\ m \in PathNodes /\ b \in BOOLEAN /\ count[m] > 0
      /\ EdgeTaken(m, b) /\ vec[m].dests[b] = n /\ n \notin Exits
      /\ NodeIndex(n) \in CondIndexes
  BY CompletedFinal DEF Follows, IsConditionNode, NodeIndex
<1>2. EdgeFollowed(m, b)
  BY <1>1, CountedReached, EdgeReached
<1>3. PICK e \in Environments :
        \E f : Followed(e, f) /\ Reaches(f, bdd.root, m) /\ ValueAt(e, m) = b
  BY <1>2 DEF EdgeFollowed
<1>4. PICK f : Followed(e, f) /\ Reaches(f, bdd.root, m) /\ ValueAt(e, m) = b
  BY <1>3
<1>5. Successor(e, m) = n
  BY <1>1, <1>4 DEF Successor
<1>6. ComesFrom(f, m, b, n)
  BY <1>1, <1>4, <1>5, EdgeValues
<1>7. Reaches(f, bdd.root, n)
  BY <1>1, <1>4, <1>5, SuccessorReached
<1>8. f[bdd.root] = ReferenceEvaluation(e) /\ e \in [CondIndexes -> BOOLEAN]
  BY <1>1, <1>4, FollowedReference DEF Followed
<1>9. NodeIndex(n) \in Evaluated(e)
  BY <1>1, <1>7, <1>8, ReferenceValues DEF Reaches
<1>10. Prefix(e, vec[n].csco) = [i \in 0..(NodeIndex(n) - 1) |-> f[bdd.root].values[i]]
  BY <1>8 DEF Prefix, NodeIndex
<1> QED
  BY <1>4, <1>6, <1>9, <1>10 DEF Enters, NodeIndex

\* Evaluations that come along different edges differ before the node
LEMMA EdgesDiffer ==
  ASSUME PathIInv, Completed, NEW n, IsConditionNode(n),
         NEW m, IsConditionNode(m), NEW b \in BOOLEAN, NEW f, ComesFrom(f, m, b, n),
         NEW p, IsConditionNode(p), NEW c \in BOOLEAN, NEW g, ComesFrom(g, p, c, n),
         \A i \in 0..(NodeIndex(n) - 1) : f[bdd.root].values[i] = g[bdd.root].values[i]
  PROVE  m = p /\ b = c
<1>1. PICK v, w : v = f[bdd.root].values /\ w = g[bdd.root].values
  OBVIOUS
<1>2. PICK j, k, l : j = NodeIndex(m) /\ k = NodeIndex(p) /\ l = NodeIndex(n)
  OBVIOUS
<1>3. /\ j \in Nat /\ l \in Nat /\ j < l /\ v[j] = ToTristate(b)
      /\ \A i \in CondIndexes : j < i /\ i < l => v[i] = "Unknown"
  BY <1>1, <1>2 DEF ComesFrom
<1>4. /\ k \in Nat /\ k < l /\ w[k] = ToTristate(c)
      /\ \A i \in CondIndexes : k < i /\ i < l => w[i] = "Unknown"
  BY <1>1, <1>2 DEF ComesFrom
<1>5. j \in CondIndexes /\ k \in CondIndexes
  BY <1>2 DEF IsConditionNode, NodeIndex
<1>6. v[j] = w[j] /\ v[k] = w[k]
  <2>1. j \in 0..(l - 1) /\ k \in 0..(l - 1)
    BY <1>3, <1>4
  <2> QED
    BY <1>1, <1>2, <2>1
<1>7. ToTristate(b) # "Unknown" /\ ToTristate(c) # "Unknown"
  BY DEF ToTristate
<1>8. ~(j < k) /\ ~(k < j)
  BY <1>3, <1>4, <1>5, <1>6, <1>7
<1>9. j = k
  BY <1>3, <1>4, <1>8
<1>10. m = p
  BY <1>2, <1>9, IndexNode
<1>11. b = c
  BY <1>3, <1>4, <1>6, <1>9, TristateOne
<1> QED
  BY <1>10, <1>11

LEMMA MultipathReached ==
  ASSUME PathIInv, VisitsTraced, Completed, bdd.firstMultipath # 0
  PROVE  vec[bdd.firstMultipath].csco \in MultipathConditions
<1>1. MultipathLed /\ NodesFound
  BY DoneVisits
<1>2. PICK n : n = bdd.firstMultipath
  OBVIOUS
<1>3. IsConditionNode(n) /\ count[n] > 0
      /\ \E m, b : Follows(m, b, n) /\ (vec[n].parent # m \/ vec[n].parentValue # b)
  BY <1>1, <1>2 DEF MultipathLed
<1>4. PICK m, b : Follows(m, b, n) /\ (vec[n].parent # m \/ vec[n].parentValue # b)
  BY <1>3
<1>5. n # bdd.root
  BY <1>4, RootFirst
<1>6. Follows(vec[n].parent, vec[n].parentValue, n)
  BY <1>1, <1>3, <1>5 DEF NodesFound
<1>7. PICK p, c : p = vec[n].parent /\ c = vec[n].parentValue
  OBVIOUS
<1>8. Follows(p, c, n) /\ (p # m \/ c # b)
  BY <1>4, <1>6, <1>7
<1>9. PICK s : s = vec[n].csco
  OBVIOUS
<1>10. s \in Conditions
  BY <1>3, <1>9 DEF IsConditionNode
<1>11. Enters(m, b, n, s) /\ Enters(p, c, n, s)
  BY <1>3, <1>4, <1>8, <1>9, EdgeEntered
<1>12. PICK x \in Environments :
         \E f : /\ Followed(x, f) /\ ComesFrom(f, m, b, n)
               /\ sco[s].index \in Evaluated(x)
               /\ Prefix(x, s) = [i \in 0..(NodeIndex(n) - 1) |-> f[bdd.root].values[i]]
  BY <1>11 DEF Enters
<1>13. PICK f : /\ Followed(x, f) /\ ComesFrom(f, m, b, n)
                /\ sco[s].index \in Evaluated(x)
                /\ Prefix(x, s) = [i \in 0..(NodeIndex(n) - 1) |-> f[bdd.root].values[i]]
  BY <1>12
<1>14. PICK y \in Environments :
         \E g : /\ Followed(y, g) /\ ComesFrom(g, p, c, n)
               /\ sco[s].index \in Evaluated(y)
               /\ Prefix(y, s) = [i \in 0..(NodeIndex(n) - 1) |-> g[bdd.root].values[i]]
  BY <1>11 DEF Enters
<1>15. PICK g : /\ Followed(y, g) /\ ComesFrom(g, p, c, n)
                /\ sco[s].index \in Evaluated(y)
                /\ Prefix(y, s) = [i \in 0..(NodeIndex(n) - 1) |-> g[bdd.root].values[i]]
  BY <1>14
<1>16. Prefix(x, s) \in Prefixes(s) /\ Prefix(y, s) \in Prefixes(s)
  BY <1>13, <1>15 DEF Prefixes
<1>17. Prefix(x, s) # Prefix(y, s)
  <2> SUFFICES ASSUME Prefix(x, s) = Prefix(y, s) PROVE FALSE
    OBVIOUS
  <2>1. \A i \in 0..(NodeIndex(n) - 1) : f[bdd.root].values[i] = g[bdd.root].values[i]
    <3> SUFFICES ASSUME NEW i \in 0..(NodeIndex(n) - 1)
                 PROVE  f[bdd.root].values[i] = g[bdd.root].values[i]
      OBVIOUS
    <3>1. Prefix(x, s)[i] = f[bdd.root].values[i]
      BY <1>13
    <3>2. Prefix(y, s)[i] = g[bdd.root].values[i]
      BY <1>15
    <3> QED
      BY <3>1, <3>2
  <2>2. IsConditionNode(m) /\ b \in BOOLEAN /\ IsConditionNode(p) /\ c \in BOOLEAN
    BY <1>4, <1>8 DEF Follows
  <2>3. m = p /\ b = c
    BY <1>3, <1>13, <1>15, <2>1, <2>2, EdgesDiffer
  <2> QED
    BY <1>8, <2>3
<1>18. s \in MultipathConditions
  BY <1>10, <1>16, <1>17, SeveralPrefixes
<1> QED
  BY <1>2, <1>9, <1>18

LEMMA NoMultipath ==
  ASSUME PathIInv, VisitsTraced, Completed, bdd.firstMultipath = 0
  PROVE  MultipathConditions = {}
<1> SUFFICES ASSUME NEW s \in MultipathConditions PROVE FALSE
  OBVIOUS
<1>1. s \in Conditions
  BY DEF MultipathConditions
<1>2. PICK p, q \in Prefixes(s) : p # q
  BY <1>1, SeveralPrefixes
<1>3. p = InferValues(s) /\ q = InferValues(s)
  BY <1>1, InferredPrefix DEF Prefixes
<1> QED
  BY <1>2, <1>3

\* Visit finds a multipath condition exactly when there is one, and it is one
THEOREM MultipathFoundExactly == Spec => []MultipathExact
<1>1. ASSUME PathIInv, VisitsTraced, Completed
      PROVE  IF MultipathConditions = {} THEN ~HasMultipathCondition
             ELSE HasMultipathCondition
                  /\ vec[bdd.firstMultipath].csco \in MultipathConditions
  BY <1>1, MultipathReached, NoMultipath DEF HasMultipathCondition
<1>2. PathIInv /\ VisitsTraced => MultipathExact
  BY <1>1 DEF MultipathExact
<1> QED
  BY <1>2, PathInvariance, VisitInvariance, PTL
----------------------------------------------------------------------------
(* Paths put together from those of several valuations.                    *)

\* The evaluations followed under e, and the nodes they go through from x
Follow(e) == CHOOSE f : IsFollowed(e, f)
Leads(e, x, n) == Reaches(Follow(e), x, n)

\* Nodes in the order of the conditions, the exits last
Pos(n) == IF n \in Exits THEN LastCondIndex + 1 ELSE NodeIndex(n)

LEMMA FollowChosen ==
  ASSUME PathIInv, Completed, NEW e \in [CondIndexes -> BOOLEAN]
  PROVE  Followed(e, Follow(e))
<1>1. \E f : IsFollowed(e, f)
  BY CompletedFinal, FollowFunction
<1> QED
  BY <1>1 DEF Follow, Followed

LEMMA PosType ==
  ASSUME PathIInv, Completed, NEW n \in PathNodes
  PROVE  /\ Pos(n) \in Nat /\ LastCondIndex \in Nat /\ (IsExit(n) \/ IsConditionNode(n))
         /\ IsConditionNode(n) => /\ Pos(n) = NodeIndex(n) /\ NodeIndex(n) \in CondIndexes
                                  /\ Pos(n) <= LastCondIndex
         /\ IsExit(n) => Pos(n) = LastCondIndex + 1
<1>1. LastCondIndex \in Nat /\ (IsExit(n) \/ IsConditionNode(n))
  BY LastIndexNatural, CompletedFinal DEF FinalBDD
<1>2. CASE IsExit(n)
  <2>1. Pos(n) = LastCondIndex + 1 /\ ~IsConditionNode(n)
    BY <1>2 DEF IsExit, IsConditionNode, Pos
  <2> QED
    BY <1>1, <1>2, <2>1
<1>3. CASE IsConditionNode(n)
  <2>1. Pos(n) = NodeIndex(n) /\ NodeIndex(n) \in CondIndexes /\ ~IsExit(n)
    BY <1>3 DEF IsConditionNode, IsExit, Pos, NodeIndex
  <2>2. NodeIndex(n) \in Nat /\ NodeIndex(n) <= LastCondIndex
    BY <1>1, <2>1 DEF CondIndexes
  <2> QED
    BY <1>1, <1>3, <2>1, <2>2
<1> QED
  BY <1>1, <1>2, <1>3

LEMMA LeadsSelf ==
  ASSUME PathIInv, Completed, NEW e \in [CondIndexes -> BOOLEAN], NEW x \in PathNodes
  PROVE  Leads(e, x, x)
<1>1. Followed(e, Follow(e))
  BY FollowChosen
<1> QED
  BY <1>1, PosType, ReachFromExit, ReachFromCondition DEF Leads

LEMMA LeadsEdge ==
  ASSUME PathIInv, Completed, NEW e \in [CondIndexes -> BOOLEAN], NEW m, IsConditionNode(m)
  PROVE  /\ ValueAt(e, m) \in BOOLEAN /\ ValueAt(e, m) = e[NodeIndex(m)]
         /\ Successor(e, m) \in PathNodes /\ Leads(e, m, Successor(e, m))
         /\ Pos(m) < Pos(Successor(e, m))
<1>1. Followed(e, Follow(e)) /\ FinalBDD
  BY FollowChosen, CompletedFinal
<1>2. /\ ValueAt(e, m) \in BOOLEAN /\ ValueAt(e, m) = e[NodeIndex(m)]
      /\ Successor(e, m) \in PathNodes /\ m \in PathNodes
  BY <1>1, FollowCondition DEF Followed
<1>3. PICK n : n = Successor(e, m)
  OBVIOUS
<1>4. Leads(e, n, n)
  BY <1>2, <1>3, LeadsSelf
<1>5. Leads(e, m, n)
  BY <1>1, <1>2, <1>3, <1>4, ReachFromCondition DEF Leads
<1>6. Pos(m) < Pos(n)
  <2>1. CASE IsConditionNode(n)
    <3>1. NodeIndex(m) < NodeIndex(n)
      BY <1>2, <1>3, <2>1, SuccessorOrder DEF Successor
    <3> QED
      BY <2>1, <3>1, <1>2, <1>3, PosType
  <2>2. CASE IsExit(n)
    <3>1. Pos(n) = LastCondIndex + 1 /\ LastCondIndex \in Nat
      BY <2>2, <1>2, <1>3, PosType
    <3>2. Pos(m) <= LastCondIndex /\ Pos(m) \in Nat
      BY <1>2, PosType
    <3> QED
      BY <3>1, <3>2
  <2> QED
    BY <2>1, <2>2, <1>2, <1>3, PosType
<1> QED
  BY <1>2, <1>3, <1>5, <1>6

LEMMA LeadsOn ==
  ASSUME PathIInv, Completed, NEW e \in [CondIndexes -> BOOLEAN], NEW x \in PathNodes,
         NEW m \in PathNodes, NEW n \in PathNodes, Leads(e, x, m), Leads(e, m, n)
  PROVE  Leads(e, x, n)
<1>1. Followed(e, Follow(e))
  BY FollowChosen
<1> QED
  BY <1>1, ReachOn DEF Leads

LEMMA LeadsUp ==
  ASSUME PathIInv, Completed, NEW e \in [CondIndexes -> BOOLEAN], NEW x \in PathNodes,
         NEW n \in PathNodes, Leads(e, x, n)
  PROVE  Pos(x) <= Pos(n) /\ (Pos(x) = Pos(n) => x = n)
<1>1. Followed(e, Follow(e)) /\ Reaches(Follow(e), x, n)
  BY FollowChosen DEF Leads
<1>2. /\ IsExit(x) \/ IsConditionNode(x)
      /\ IsExit(n) \/ IsConditionNode(n)
      /\ Pos(x) \in Nat /\ Pos(n) \in Nat
  BY PosType
<1>3. CASE IsExit(x)
  <2>1. n = x
    BY <1>1, <1>3, ReachFromExit
  <2> QED
    BY <1>2, <2>1
<1>4. CASE IsConditionNode(x) /\ IsConditionNode(n)
  <2>1. NodeIndex(x) <= NodeIndex(n)
    BY <1>1, <1>4, ReachUp
  <2>2. NodeIndex(x) = NodeIndex(n) => x = n
    BY <1>4, IndexNode
  <2> QED
    BY <1>4, <2>1, <2>2, PosType
<1>5. CASE IsConditionNode(x) /\ IsExit(n)
  <2>1. Pos(x) <= LastCondIndex /\ Pos(n) = LastCondIndex + 1 /\ LastCondIndex \in Nat
    BY <1>5, PosType
  <2> QED
    BY <1>2, <2>1
<1> QED
  BY <1>2, <1>3, <1>4, <1>5

\* Of two nodes on a path, the path goes from the first to the second
LEMMA LeadsOrder ==
  ASSUME PathIInv, Completed, NEW e \in [CondIndexes -> BOOLEAN], NEW x \in PathNodes,
         NEW p \in PathNodes, NEW q \in PathNodes,
         Leads(e, x, p), Leads(e, x, q), Pos(p) <= Pos(q)
  PROVE  Leads(e, p, q)
<1>1. PICK f : f = Follow(e)
  OBVIOUS
<1>2. Followed(e, f) /\ Reaches(f, x, p) /\ Reaches(f, x, q)
  BY <1>1, FollowChosen DEF Leads
<1>3. /\ IsExit(p) \/ IsConditionNode(p)
      /\ IsExit(q) \/ IsConditionNode(q)
      /\ Pos(p) \in Nat /\ Pos(q) \in Nat /\ LastCondIndex \in Nat
  BY PosType
<1>4. CASE IsExit(p)
  <2>1. IsExit(q)
    <3>1. Pos(p) = LastCondIndex + 1
      BY <1>4, PosType
    <3>2. IsConditionNode(q) => Pos(q) <= LastCondIndex
      BY PosType
    <3> QED
      BY <1>3, <3>1, <3>2
  <2>2. p = q
    BY <1>2, <1>4, <2>1 DEF IsExit, Reaches, Exits, ExitTrue, ExitFalse
  <2> QED
    BY <2>2, LeadsSelf
<1>5. CASE IsConditionNode(p) /\ IsConditionNode(q)
  <2>1. Pos(p) = NodeIndex(p) /\ Pos(q) = NodeIndex(q)
    BY <1>5, PosType
  <2>2. CASE NodeIndex(p) = NodeIndex(q)
    <3>1. p = q
      BY <1>5, <2>2, IndexNode
    <3> QED
      BY <3>1, LeadsSelf
  <2>3. CASE NodeIndex(p) < NodeIndex(q)
    BY <1>1, <1>2, <1>5, <2>3, ReachOrder DEF Leads
  <2> QED
    BY <1>3, <2>1, <2>2, <2>3
<1>6. CASE IsConditionNode(p) /\ IsExit(q)
  <2>1. p \notin Exits /\ q \in Exits
    BY <1>6 DEF IsExit, IsConditionNode
  <2>2. f[x].values[NodeIndex(p)] # "Unknown" /\ f[x].outcome = (q = ExitTrue)
    BY <1>2, <2>1 DEF Reaches
  <2>3. GoesThrough(f, NodeIndex(p), p, x)
    BY <1>2, <1>6, PathThrough DEF Followed
  <2>4. f[p].outcome = (q = ExitTrue)
    BY <2>2, <2>3 DEF GoesThrough
  <2> QED
    BY <1>1, <2>1, <2>4 DEF Leads, Reaches
<1> QED
  BY <1>3, <1>4, <1>5, <1>6

\* A path depends on the conditions from its start on
LEMMA LeadsLater ==
  ASSUME PathIInv, Completed, NEW a \in [CondIndexes -> BOOLEAN],
         NEW b \in [CondIndexes -> BOOLEAN], NEW x \in PathNodes, NEW n \in PathNodes,
         \A i \in CondIndexes : Pos(x) <= i => a[i] = b[i], Leads(a, x, n)
  PROVE  Leads(b, x, n)
<1>1. PICK f, g : f = Follow(a) /\ g = Follow(b)
  OBVIOUS
<1>2. FinalBDD /\ IsFollowed(a, f) /\ IsFollowed(b, g) /\ Reaches(f, x, n)
  BY <1>1, FollowChosen, CompletedFinal DEF Followed, Leads
<1>3. PICK u : IsIndex(a, u)
  BY <1>2, IndexFunction DEF IsIndex
<1>4. PICK w : IsIndex(b, w)
  BY <1>2, IndexFunction DEF IsIndex
<1>5. AgreeOn(f[x], a, b)
  <2> SUFFICES ASSUME NEW i \in CondIndexes, f[x].values[i] # "Unknown" PROVE a[i] = b[i]
    BY DEF AgreeOn
  <2>1. IsConditionNode(x) /\ NodeIndex(x) <= i
    BY <1>2, LaterValues DEF LaterThan
  <2>2. Pos(x) <= i
    BY <2>1, PosType
  <2> QED
    BY <2>2
<1>6. f[x] = g[x]
  BY <1>2, <1>3, <1>4, <1>5, AgreementFollowed DEF SamePath
<1> QED
  BY <1>1, <1>2, <1>6 DEF Leads, Reaches

\* ... up to its end
LEMMA LeadsBefore ==
  ASSUME PathIInv, Completed, NEW a \in [CondIndexes -> BOOLEAN],
         NEW b \in [CondIndexes -> BOOLEAN], NEW x \in PathNodes, NEW n \in PathNodes,
         \A i \in CondIndexes : i < Pos(n) => a[i] = b[i], Leads(a, x, n)
  PROVE  Leads(b, x, n)
<1>1. CASE IsConditionNode(n)
  <2>1. Followed(a, Follow(a)) /\ Followed(b, Follow(b))
    BY FollowChosen
  <2>2. Pos(n) = NodeIndex(n) /\ NodeIndex(n) \in CondIndexes /\ n \notin Exits
    BY <1>1, PosType DEF IsConditionNode
  <2>3. \A i \in CondIndexes : i < NodeIndex(n) => a[i] = b[i]
    BY <2>2
  <2>4. PICK j : j = NodeIndex(n)
    OBVIOUS
  <2>5. Follow(a)[x].values[j] # "Unknown"
    BY <2>2, <2>4 DEF Leads, Reaches
  <2>6. Follow(b)[x].values[j] # "Unknown"
    BY <2>1, <2>2, <2>3, <2>4, <2>5, StillReached DEF Followed
  <2> QED
    BY <2>2, <2>4, <2>6 DEF Leads, Reaches
<1>2. CASE IsExit(n)
  <2>1. Pos(n) = LastCondIndex + 1 /\ LastCondIndex \in Nat
    BY <1>2, PosType
  <2>2. \A i \in CondIndexes : i < LastCondIndex + 1
    BY <2>1 DEF CondIndexes
  <2>3. \A i \in CondIndexes : a[i] = b[i]
    BY <2>1, <2>2
  <2> QED
    BY <2>3, LeadsLater
<1> QED
  BY <1>1, <1>2, PosType

\* ... so that it only depends on those of the conditions in between
LEMMA LeadsBetween ==
  ASSUME PathIInv, Completed, NEW a \in [CondIndexes -> BOOLEAN],
         NEW b \in [CondIndexes -> BOOLEAN], NEW x \in PathNodes, NEW n \in PathNodes,
         \A i \in CondIndexes : Pos(x) <= i /\ i < Pos(n) => a[i] = b[i], Leads(a, x, n)
  PROVE  Leads(b, x, n)
<1>1. PICK c : c = [i \in CondIndexes |-> IF i < Pos(x) THEN a[i] ELSE b[i]]
  OBVIOUS
<1>2. c \in [CondIndexes -> BOOLEAN]
  BY <1>1
<1>3. Pos(x) \in Nat /\ Pos(n) \in Nat /\ CondIndexes \subseteq Nat
  BY PosType DEF CondIndexes
<1>4. \A i \in CondIndexes : i < Pos(n) => a[i] = c[i]
  BY <1>1, <1>3
<1>5. Leads(c, x, n)
  BY <1>2, <1>4, LeadsBefore
<1>6. \A i \in CondIndexes : Pos(x) <= i => c[i] = b[i]
  BY <1>1, <1>3
<1> QED
  BY <1>2, <1>5, <1>6, LeadsLater

\* Some valuation leads from x to n
CanLead(x, n) == \E e \in [CondIndexes -> BOOLEAN] : Leads(e, x, n)

LEMMA CanLeadOn ==
  ASSUME PathIInv, Completed, NEW x \in PathNodes, NEW m \in PathNodes, NEW n \in PathNodes,
         CanLead(x, m), CanLead(m, n)
  PROVE  CanLead(x, n)
<1>1. PICK a \in [CondIndexes -> BOOLEAN] : Leads(a, x, m)
  BY DEF CanLead
<1>2. PICK b \in [CondIndexes -> BOOLEAN] : Leads(b, m, n)
  BY DEF CanLead
<1>3. PICK c : c = [i \in CondIndexes |-> IF i < Pos(m) THEN a[i] ELSE b[i]]
  OBVIOUS
<1>4. c \in [CondIndexes -> BOOLEAN]
  BY <1>3
<1>5. Pos(m) \in Nat /\ CondIndexes \subseteq Nat
  BY PosType DEF CondIndexes
<1>6. \A i \in CondIndexes : i < Pos(m) => a[i] = c[i]
  BY <1>3
<1>7. Leads(c, x, m)
  BY <1>1, <1>4, <1>6, LeadsBefore
<1>8. \A i \in CondIndexes : Pos(m) <= i => b[i] = c[i]
  BY <1>3, <1>5
<1>9. Leads(c, m, n)
  BY <1>2, <1>4, <1>8, LeadsLater
<1>10. Leads(c, x, n)
  BY <1>4, <1>7, <1>9, LeadsOn
<1> QED
  BY <1>4, <1>10 DEF CanLead

\* Each edge can be followed
LEMMA CanLeadEdge ==
  ASSUME PathIInv, Completed, NEW m, IsConditionNode(m), NEW b \in BOOLEAN
  PROVE  CanLead(m, vec[m].dests[b]) /\ vec[m].dests[b] \in PathNodes /\ Pos(m) < Pos(vec[m].dests[b])
<1>1. PICK e : e = [i \in CondIndexes |-> b]
  OBVIOUS
<1>2. e \in [CondIndexes -> BOOLEAN] /\ NodeIndex(m) \in CondIndexes /\ e[NodeIndex(m)] = b
  BY <1>1 DEF IsConditionNode, NodeIndex
<1>3. Successor(e, m) = vec[m].dests[b]
  BY <1>2, LeadsEdge DEF Successor
<1> QED
  BY <1>2, <1>3, LeadsEdge DEF CanLead
----------------------------------------------------------------------------
(* The nodes that a subexpression starts from and goes on to.              *)

NegationPlaced(d, o, s, x) ==
  Entry(o, x) = Entry(o, s) /\ \A b \in BOOLEAN : Exit(d, x, b) = Exit(d, s, ~b)

SplitPlaced(d, o, s, l, r, k) ==
  /\ k \in BOOLEAN /\ l \in SCOs /\ r \in SCOs
  /\ Entry(o, l) = Entry(o, s) /\ Exit(d, l, k) = Exit(d, s, k)
  /\ Exit(d, l, ~k) = Entry(o, r) /\ \A b \in BOOLEAN : Exit(d, r, b) = Exit(d, s, b)

LEMMA JumpOrigins ==
  ASSUME PathIInv, Completed, NEW d, NEW o, NEW j, FinalShape(d, o, j)
  PROVE  \A s \in SCOs : o[s] # 0 => vec[o[s]].kind = "Jump"
<1>1. FinalBDD /\ FinalTree /\ Ids \subseteq Nat \ {0}
  BY CompletedFinal
<1>2. PICK e : e = [i \in CondIndexes |-> TRUE]
  OBVIOUS
<1>3. e \in [CondIndexes -> BOOLEAN]
  BY <1>2
<1>4. PICK v : IsValued(e, v)
  BY <1>1, <1>3, ValueFunction
<1>5. PICK w : IsEvaluatedIn(v, w)
  BY <1>1, EvaluatedInFunction
<1>6. PICK f : IsFollowed(e, f)
  BY <1>1, <1>3, FollowFunction
<1>7. \A s \in SCOs : Traverses(d, o, e, v, w, f, s)
  BY <1>1, <1>3, <1>4, <1>5, <1>6, OperandsTraversed
<1> QED
  BY <1>7 DEF Traverses

LEMMA OperandPlaces ==
  ASSUME PathIInv, Completed, NEW d, NEW o, NEW j, FinalShape(d, o, j), NEW s \in SCOs
  PROVE  /\ IsNegation(s) => NegationPlaced(d, o, s, sco[s].operands["Right"])
         /\ IsShortCircuit(s) =>
              SplitPlaced(d, o, s, sco[s].operands["Left"], sco[s].operands["Right"],
                          DecidingValue(s))
<1>1. FinalTree /\ Ids \subseteq Nat \ {0}
  BY CompletedFinal
<1>2. ASSUME IsNegation(s)
      PROVE  NegationPlaced(d, o, s, sco[s].operands["Right"])
  <2>1. PICK x : x = sco[s].operands["Right"]
    OBVIOUS
  <2>2. d[x][FALSE] = d[s][TRUE] /\ d[x][TRUE] = d[s][FALSE] /\ o[x] = o[s]
    <3>1. NegatedAt(d, o, s, sco[s].operands["Right"])
      BY <1>1, <1>2, OperandShape
    <3> QED
      BY <2>1, <3>1 DEF NegatedAt
  <2>3. ASSUME NEW b \in BOOLEAN PROVE Exit(d, x, b) = Exit(d, s, ~b)
    <3>1. CASE b = TRUE
      BY <2>2, <3>1 DEF Exit
    <3>2. CASE b = FALSE
      BY <2>2, <3>2 DEF Exit
    <3> QED
      BY <3>1, <3>2
  <2> QED
    BY <2>1, <2>2, <2>3 DEF NegationPlaced, Entry
<1>3. ASSUME IsShortCircuit(s)
      PROVE  SplitPlaced(d, o, s, sco[s].operands["Left"], sco[s].operands["Right"],
                         DecidingValue(s))
  <2>1. PICK l, r, k :
           l = sco[s].operands["Left"] /\ r = sco[s].operands["Right"] /\ k = DecidingValue(s)
    OBVIOUS
  <2>2. l \in SCOs /\ r \in SCOs /\ k \in BOOLEAN
    BY <1>3, <2>1 DEF IsShortCircuit, Child, DecidingValue
  <2>3. SplitAt(d, o, j, s, l, r, k)
    BY <1>1, <1>3, <2>1, OperandShape
  <2>4. /\ d[l][k] = d[s][k] /\ d[l][~k] = j[s] /\ o[l] = o[s]
        /\ d[r] = d[s] /\ o[r] = j[s] /\ j[s] \in Ids
    BY <2>3 DEF SplitAt
  <2>5. vec[j[s]].kind = "Jump" /\ j[s] # 0
    BY <1>1, <2>2, <2>4, JumpOrigins
  <2>6. Exit(d, l, ~k) = Entry(o, r)
    BY <2>4, <2>5 DEF Exit, Entry, PatchJump
  <2> QED
    BY <2>1, <2>2, <2>4, <2>6 DEF SplitPlaced, Entry, Exit
<1> QED
  BY <1>2, <1>3

\* A leaf leads where subexpression s does
EndsWith(d, s, c, z) ==
  /\ IsLeaf(c) /\ z \in BOOLEAN
  /\ Exit(d, c, z) = Exit(d, s, TRUE) /\ Exit(d, c, ~z) = Exit(d, s, FALSE)

Routed(d, o, s) ==
  LET n == Entry(o, s)
  IN  /\ IsConditionNode(n)
      /\ \A b \in BOOLEAN : /\ Exit(d, s, b) \in PathNodes /\ CanLead(n, Exit(d, s, b))
                            /\ Pos(n) < Pos(Exit(d, s, b))
      /\ \A e \in [CondIndexes -> BOOLEAN] : \E b \in BOOLEAN : Leads(e, n, Exit(d, s, b))
      /\ \E c, z : EndsWith(d, s, c, z)

LEMMA LeafRouted ==
  ASSUME PathIInv, Completed, NEW d, NEW o, NEW j, FinalShape(d, o, j), NEW s, IsLeaf(s)
  PROVE  Routed(d, o, s)
<1>1. PICK n : n = sco[s].node
  OBVIOUS
<1>2. /\ IsConditionNode(n) /\ vec[n].csco = s /\ Entry(o, s) = n
      /\ \A b \in BOOLEAN : vec[n].dests[b] = Exit(d, s, b)
  BY <1>1 DEF FinalShape
<1>3. \A b \in BOOLEAN : /\ Exit(d, s, b) \in PathNodes /\ CanLead(n, Exit(d, s, b))
                         /\ Pos(n) < Pos(Exit(d, s, b))
  BY <1>2, CanLeadEdge
<1>4. ASSUME NEW e \in [CondIndexes -> BOOLEAN]
      PROVE  \E b \in BOOLEAN : Leads(e, n, Exit(d, s, b))
  BY <1>2, LeadsEdge DEF Successor
<1>5. EndsWith(d, s, s, TRUE)
  BY DEF EndsWith
<1> QED
  BY <1>2, <1>3, <1>4, <1>5 DEF Routed

LEMMA NegationRouted ==
  ASSUME PathIInv, Completed, NEW d, NEW o, NEW s, NEW x, NegationPlaced(d, o, s, x),
         Routed(d, o, x)
  PROVE  Routed(d, o, s)
<1>1. PICK n : n = Entry(o, s)
  OBVIOUS
<1>2. n = Entry(o, x) /\ \A b \in BOOLEAN : Exit(d, s, b) = Exit(d, x, ~b)
  <2>1. \A b \in BOOLEAN : (~(~b)) = b /\ (~b) \in BOOLEAN
    OBVIOUS
  <2> QED
    BY <1>1, <2>1 DEF NegationPlaced
<1>3. /\ IsConditionNode(n)
      /\ \A b \in BOOLEAN : /\ Exit(d, x, b) \in PathNodes /\ CanLead(n, Exit(d, x, b))
                            /\ Pos(n) < Pos(Exit(d, x, b))
      /\ \A e \in [CondIndexes -> BOOLEAN] : \E b \in BOOLEAN : Leads(e, n, Exit(d, x, b))
      /\ \E c, z : EndsWith(d, x, c, z)
  BY <1>2 DEF Routed
<1>4. \A b \in BOOLEAN : /\ Exit(d, s, b) \in PathNodes /\ CanLead(n, Exit(d, s, b))
                         /\ Pos(n) < Pos(Exit(d, s, b))
  <2> SUFFICES ASSUME NEW b \in BOOLEAN
               PROVE  /\ Exit(d, s, b) \in PathNodes /\ CanLead(n, Exit(d, s, b))
                      /\ Pos(n) < Pos(Exit(d, s, b))
    OBVIOUS
  <2>1. PICK a \in BOOLEAN : a = ~b
    OBVIOUS
  <2>2. Exit(d, s, b) = Exit(d, x, a)
    BY <1>2, <2>1
  <2> QED
    BY <1>3, <2>2
<1>5. ASSUME NEW e \in [CondIndexes -> BOOLEAN]
      PROVE  \E b \in BOOLEAN : Leads(e, n, Exit(d, s, b))
  <2>1. PICK b \in BOOLEAN : Leads(e, n, Exit(d, x, b))
    BY <1>3
  <2>2. PICK a \in BOOLEAN : a = ~b
    OBVIOUS
  <2>3. Exit(d, s, a) = Exit(d, x, b)
    BY <2>2 DEF NegationPlaced
  <2> QED
    BY <2>1, <2>3
<1>6. PICK c, z : EndsWith(d, x, c, z)
  BY <1>3
<1>7. PICK y \in BOOLEAN : y = ~z
  OBVIOUS
<1>8. EndsWith(d, s, c, y)
  <2>1. Exit(d, x, TRUE) = Exit(d, s, FALSE) /\ Exit(d, x, FALSE) = Exit(d, s, TRUE)
    BY DEF NegationPlaced
  <2>2. CASE z = TRUE
    BY <1>6, <1>7, <2>1, <2>2 DEF EndsWith
  <2>3. CASE z = FALSE
    BY <1>6, <1>7, <2>1, <2>3 DEF EndsWith
  <2> QED
    BY <1>6, <2>2, <2>3 DEF EndsWith
<1> QED
  BY <1>1, <1>3, <1>4, <1>5, <1>8 DEF Routed

LEMMA SplitRouted ==
  ASSUME PathIInv, Completed, NEW d, NEW o, NEW s, NEW l, NEW r, NEW k,
         SplitPlaced(d, o, s, l, r, k), Routed(d, o, l), Routed(d, o, r)
  PROVE  Routed(d, o, s)
<1>1. PICK n, m : n = Entry(o, s) /\ m = Entry(o, r)
  OBVIOUS
<1>2. /\ k \in BOOLEAN /\ Entry(o, l) = n /\ Exit(d, l, k) = Exit(d, s, k)
      /\ Exit(d, l, ~k) = m /\ \A b \in BOOLEAN : Exit(d, r, b) = Exit(d, s, b)
  BY <1>1 DEF SplitPlaced
<1>3. PICK h \in BOOLEAN : h = ~k
  OBVIOUS
<1>4. Exit(d, l, h) = m
  BY <1>2, <1>3
<1>5. /\ IsConditionNode(n) /\ n \in PathNodes
      /\ \A b \in BOOLEAN : /\ Exit(d, l, b) \in PathNodes /\ CanLead(n, Exit(d, l, b))
                            /\ Pos(n) < Pos(Exit(d, l, b))
      /\ \A e \in [CondIndexes -> BOOLEAN] : \E b \in BOOLEAN : Leads(e, n, Exit(d, l, b))
  BY <1>2 DEF Routed, IsConditionNode
<1>6. /\ IsConditionNode(m) /\ m \in PathNodes
      /\ \A b \in BOOLEAN : /\ Exit(d, s, b) \in PathNodes /\ CanLead(m, Exit(d, s, b))
                            /\ Pos(m) < Pos(Exit(d, s, b))
      /\ \A e \in [CondIndexes -> BOOLEAN] : \E b \in BOOLEAN : Leads(e, m, Exit(d, s, b))
  BY <1>1, <1>2 DEF Routed, IsConditionNode
<1>7. CanLead(n, m) /\ Pos(n) < Pos(m)
  BY <1>4, <1>5
<1>8. ASSUME NEW b \in BOOLEAN
      PROVE  /\ Exit(d, s, b) \in PathNodes /\ CanLead(n, Exit(d, s, b))
             /\ Pos(n) < Pos(Exit(d, s, b))
  <2>1. CanLead(n, Exit(d, s, b))
    BY <1>5, <1>6, <1>7, CanLeadOn
  <2>2. Pos(n) \in Nat /\ Pos(m) \in Nat /\ Pos(Exit(d, s, b)) \in Nat
    BY <1>5, <1>6, PosType
  <2> QED
    BY <1>6, <1>7, <2>1, <2>2
<1>9. ASSUME NEW e \in [CondIndexes -> BOOLEAN]
      PROVE  \E b \in BOOLEAN : Leads(e, n, Exit(d, s, b))
  <2>1. PICK b \in BOOLEAN : Leads(e, n, Exit(d, l, b))
    BY <1>5
  <2>2. CASE b = k
    BY <1>2, <2>1, <2>2
  <2>3. CASE b = h
    <3>1. Leads(e, n, m)
      BY <1>4, <2>1, <2>3
    <3>2. PICK a \in BOOLEAN : Leads(e, m, Exit(d, s, a))
      BY <1>6
    <3>3. Leads(e, n, Exit(d, s, a))
      BY <1>5, <1>6, <3>1, <3>2, LeadsOn
    <3> QED
      BY <3>3
  <2> QED
    BY <1>2, <1>3, <2>2, <2>3
<1>10. PICK c, z : EndsWith(d, r, c, z)
  BY DEF Routed
<1>11. EndsWith(d, s, c, z)
  BY <1>2, <1>10 DEF EndsWith
<1> QED
  BY <1>1, <1>5, <1>8, <1>9, <1>11 DEF Routed

\* Every subexpression can be left with both values, and is left
LEMMA AllRouted ==
  ASSUME PathIInv, Completed, NEW d, NEW o, NEW j, FinalShape(d, o, j)
  PROVE  \A s \in SCOs : Routed(d, o, s)
<1>1. FinalTree
  BY CompletedFinal
<1>2. PICK P : P = {s \in SCOs : Routed(d, o, s)}
  OBVIOUS
<1>3. ASSUME NEW s \in SCOs, \A y \in SCOs : HeightBound[y] < HeightBound[s] => y \in P
      PROVE  Routed(d, o, s)
  <2>1. \A x : Child(s, x) => Routed(d, o, x)
    BY <1>1, <1>2, <1>3 DEF Child, FinalTree
  <2>2. CASE IsLeaf(s)
    BY <2>2, LeafRouted
  <2>3. CASE IsNegation(s)
    <3>1. Routed(d, o, sco[s].operands["Right"])
      BY <2>1, <2>3 DEF IsNegation
    <3>2. NegationPlaced(d, o, s, sco[s].operands["Right"])
      BY <2>3, OperandPlaces
    <3> QED
      BY <3>1, <3>2, NegationRouted
  <2>4. CASE IsShortCircuit(s)
    <3>1. Routed(d, o, sco[s].operands["Left"]) /\ Routed(d, o, sco[s].operands["Right"])
      BY <2>1, <2>4 DEF IsShortCircuit
    <3>2. SplitPlaced(d, o, s, sco[s].operands["Left"], sco[s].operands["Right"],
                      DecidingValue(s))
      BY <2>4, OperandPlaces
    <3> QED
      BY <3>1, <3>2, SplitRouted
  <2> QED
    BY <1>1, <2>2, <2>3, <2>4 DEF FinalTree
<1>4. HeightBound \in [SCOs -> Nat]
  BY <1>1 DEF FinalTree
<1>5. SCOs \subseteq P
  BY <1>2, <1>3, <1>4, RankInduction
<1> QED
  BY <1>2, <1>5

\* What s is an operand of
LEMMA ParentOf ==
  ASSUME FinalTree, NEW s \in SCOs, NEW p, p = sco[s].parent
  PROVE  \/ p = Decision /\ s = sco[Decision].expr
         \/ /\ p \in SCOs /\ p < s
            /\ \/ IsNegation(p) /\ s = sco[p].operands["Right"]
               \/ IsShortCircuit(p) /\ s = sco[p].operands["Left"]
               \/ IsShortCircuit(p) /\ s = sco[p].operands["Right"]
<1>1. /\ p \in 1..(s - 1) /\ (p = Decision \/ p \in SCOs) /\ s \in Nat
      /\ \E pos \in {"Left", "Right"} : IsOperand(s, p, pos)
  BY DEF FinalTree
<1>2. PICK pos \in {"Left", "Right"} : IsOperand(s, p, pos)
  BY <1>1
<1>3. CASE p = Decision
  <2>1. s = sco[Decision].expr
    BY <1>2, <1>3 DEF FinalTree, IsOperand, OperandOf
  <2> QED
    BY <1>3, <2>1
<1>4. CASE p \in SCOs
  <2>1. p < s
    BY <1>1
  <2>2. ~IsLeaf(p) /\ (IsNegation(p) \/ IsShortCircuit(p))
    BY <1>2, <1>4 DEF FinalTree, IsOperand, IsLeaf
  <2>3. CASE IsNegation(p)
    BY <1>2, <1>4, <2>1, <2>3 DEF IsNegation, IsOperand, OperandOf, Positions
  <2>4. CASE IsShortCircuit(p)
    BY <1>2, <1>4, <2>1, <2>4 DEF IsShortCircuit, IsOperand, OperandOf
  <2> QED
    BY <2>2, <2>3, <2>4
<1> QED
  BY <1>1, <1>3, <1>4

\* The whole expression starts at the root and leads to the exits
LEMMA ExpressionPlace ==
  ASSUME PathIInv, Completed, NEW d, NEW o, NEW j, FinalShape(d, o, j),
         NEW s, s = sco[Decision].expr
  PROVE  Entry(o, s) = bdd.root /\ \A b \in BOOLEAN : Exit(d, s, b) = IF b THEN ExitTrue ELSE ExitFalse
<1>1. FinalTree /\ FinalBDD /\ s \in SCOs /\ IsOperand(s, Decision, "Right")
  BY CompletedFinal DEF FinalTree
<1>2. sco[Decision].kind = "Decision" /\ Decision \in 1..Len(sco) /\ s \in 2..Len(sco)
  BY <1>1 DEF FinalTree, SCOs, Decision
<1>3. d[s] = LeadsTo(d, j, Decision, "Right") /\ o[s] = StandsFor(o, j, Decision, "Right")
  BY <1>1, <1>2 DEF FinalShape, Skeleton
<1>4. d[Decision] = Dests(ExitFalse, ExitTrue) /\ o[Decision] = 0
  BY DEF FinalShape, Skeleton
<1>5. d[s] = Dests(ExitFalse, ExitTrue) /\ o[s] = 0
  BY <1>2, <1>3, <1>4 DEF LeadsTo, StandsFor
<1>6. vec[ExitTrue].kind = "Outcome" /\ vec[ExitFalse].kind = "Outcome"
  BY <1>1 DEF FinalBDD, IsExit, Exits
<1>7. ASSUME NEW b \in BOOLEAN PROVE Exit(d, s, b) = IF b THEN ExitTrue ELSE ExitFalse
  <2>1. d[s][b] = IF b THEN ExitTrue ELSE ExitFalse
    BY <1>5 DEF Dests
  <2> QED
    BY <1>6, <2>1 DEF Exit, PatchJump
<1> QED
  BY <1>5, <1>7 DEF Entry

\* A subexpression is reached, and its values lead to different nodes
Separates(d, o, s) ==
  CanLead(bdd.root, Entry(o, s)) /\ Exit(d, s, TRUE) # Exit(d, s, FALSE)

LEMMA ExpressionSeparates ==
  ASSUME PathIInv, Completed, NEW d, NEW o, NEW j, FinalShape(d, o, j),
         NEW s, s = sco[Decision].expr
  PROVE  Separates(d, o, s)
<1>1. /\ Entry(o, s) = bdd.root /\ Exit(d, s, TRUE) = ExitTrue /\ Exit(d, s, FALSE) = ExitFalse
  BY ExpressionPlace, Zenon
<1>2. PICK e : e = [i \in CondIndexes |-> TRUE]
  OBVIOUS
<1>3. e \in [CondIndexes -> BOOLEAN] /\ bdd.root \in PathNodes
  BY <1>2, CompletedFinal DEF FinalBDD, IsConditionNode
<1>4. Leads(e, bdd.root, bdd.root)
  BY <1>3, LeadsSelf
<1>5. CanLead(bdd.root, Entry(o, s))
  BY <1>1, <1>3, <1>4 DEF CanLead
<1>6. Exit(d, s, TRUE) # Exit(d, s, FALSE)
  <2>1. ExitTrue # ExitFalse
    BY DEF ExitTrue, ExitFalse
  <2> QED
    BY <1>1, <2>1, Zenon
<1> QED
  BY <1>5, <1>6 DEF Separates

LEMMA SplitSeparates ==
  ASSUME PathIInv, Completed, NEW d, NEW o, NEW j, FinalShape(d, o, j),
         NEW s \in SCOs, NEW l, NEW r, NEW k, SplitPlaced(d, o, s, l, r, k), Separates(d, o, s)
  PROVE  Separates(d, o, l) /\ Separates(d, o, r)
<1>1. PICK n, m : n = Entry(o, s) /\ m = Entry(o, r)
  OBVIOUS
<1>2. /\ k \in BOOLEAN /\ Entry(o, l) = n /\ Exit(d, l, k) = Exit(d, s, k)
      /\ Exit(d, l, ~k) = m /\ \A b \in BOOLEAN : Exit(d, r, b) = Exit(d, s, b)
      /\ l \in SCOs /\ r \in SCOs
  BY <1>1 DEF SplitPlaced
<1>3. PICK h \in BOOLEAN : h = ~k
  BY <1>2
<1>4. Routed(d, o, s) /\ Routed(d, o, l) /\ Routed(d, o, r)
  BY <1>2, AllRouted
<1>5. IsConditionNode(m) /\ m \in PathNodes /\ Pos(m) < Pos(Exit(d, r, k))
  BY <1>1, <1>2, <1>4 DEF Routed, IsConditionNode
<1>6. Exit(d, l, k) # m
  <2>1. Pos(m) \in Nat
    BY <1>5, PosType
  <2>2. Exit(d, l, k) = Exit(d, r, k)
    BY <1>2
  <2> QED
    BY <1>5, <2>1, <2>2
<1>7. Exit(d, l, TRUE) # Exit(d, l, FALSE)
  <2>1. CASE k = TRUE
    BY <1>2, <1>6, <2>1
  <2>2. CASE k = FALSE
    BY <1>2, <1>6, <2>2
  <2> QED
    BY <1>2, <2>1, <2>2
<1>8. Exit(d, r, TRUE) # Exit(d, r, FALSE)
  BY <1>2 DEF Separates
<1>9. CanLead(bdd.root, n)
  BY <1>1 DEF Separates
<1>10. CanLead(bdd.root, m)
  <2>1. Exit(d, l, h) = m
    BY <1>2, <1>3
  <2>2. CanLead(n, m) /\ n \in PathNodes
    BY <1>2, <1>4, <2>1 DEF Routed, IsConditionNode
  <2>3. bdd.root \in PathNodes
    BY CompletedFinal DEF FinalBDD, IsConditionNode
  <2> QED
    BY <1>5, <1>9, <2>2, <2>3, CanLeadOn
<1> QED
  BY <1>1, <1>2, <1>7, <1>8, <1>9, <1>10 DEF Separates

SCORank == [s \in SCOs |-> s]

LEMMA AllSeparate ==
  ASSUME PathIInv, Completed, NEW d, NEW o, NEW j, FinalShape(d, o, j)
  PROVE  \A s \in SCOs : Separates(d, o, s)
<1>1. FinalTree /\ SCOs \subseteq Nat
  BY CompletedFinal DEF FinalTree
<1>2. PICK P : P = {s \in SCOs : Separates(d, o, s)}
  OBVIOUS
<1>3. ASSUME NEW s \in SCOs, \A y \in SCOs : SCORank[y] < SCORank[s] => y \in P
      PROVE  Separates(d, o, s)
  <2>1. PICK p : p = sco[s].parent
    OBVIOUS
  <2>2. p \in SCOs /\ p < s => Separates(d, o, p)
    BY <1>2, <1>3 DEF SCORank
  <2>3. CASE p = Decision /\ s = sco[Decision].expr
    BY <2>3, ExpressionSeparates
  <2>4. CASE p \in SCOs /\ p < s /\ IsNegation(p) /\ s = sco[p].operands["Right"]
    <3>1. NegationPlaced(d, o, p, s)
      BY <2>4, OperandPlaces
    <3>2. Exit(d, s, TRUE) = Exit(d, p, FALSE) /\ Exit(d, s, FALSE) = Exit(d, p, TRUE)
          /\ Entry(o, s) = Entry(o, p)
      BY <3>1 DEF NegationPlaced
    <3> QED
      BY <2>2, <2>4, <3>2 DEF Separates
  <2>5. CASE p \in SCOs /\ p < s /\ IsShortCircuit(p)
             /\ (s = sco[p].operands["Left"] \/ s = sco[p].operands["Right"])
    <3>1. SplitPlaced(d, o, p, sco[p].operands["Left"], sco[p].operands["Right"],
                      DecidingValue(p))
      BY <2>5, OperandPlaces
    <3> QED
      BY <2>2, <2>5, <3>1, SplitSeparates
  <2> QED
    BY <1>1, <2>1, <2>3, <2>4, <2>5, ParentOf
<1>4. SCORank \in [SCOs -> Nat]
  BY <1>1 DEF SCORank
<1>5. SCOs \subseteq P
  BY <1>2, <1>3, <1>4, RankInduction
<1> QED
  BY <1>2, <1>5

\* The node of a condition is that of a leaf
LEMMA NodeLeaf ==
  ASSUME PathIInv, Completed, NEW d, NEW o, NEW j, FinalShape(d, o, j), NEW n, IsConditionNode(n)
  PROVE  LET c == vec[n].csco
         IN  /\ IsLeaf(c) /\ c \in SCOs /\ Entry(o, c) = n
             /\ \A b \in BOOLEAN : vec[n].dests[b] = Exit(d, c, b)
<1>1. PICK c : c = vec[n].csco
  OBVIOUS
<1>2. c \in Conditions /\ sco[c].node = n /\ FinalTree
  BY <1>1, CompletedFinal DEF IsConditionNode
<1>3. c \in SCOs
  <2>1. c \in 1..Len(sco) /\ sco[c].kind = "Condition" /\ sco[Decision].kind = "Decision"
        /\ Len(sco) \in Nat
    BY <1>2 DEF Conditions, FinalTree
  <2> QED
    BY <2>1 DEF SCOs, Decision
<1>4. IsLeaf(c)
  BY <1>2, <1>3 DEF FinalTree, IsNegation, IsShortCircuit, Conditions
<1> QED
  BY <1>1, <1>2, <1>3, <1>4 DEF FinalShape

\* Every condition can be evaluated, and its values lead to different nodes
LEMMA ConditionsReached ==
  ASSUME PathIInv, Completed, NEW n, IsConditionNode(n)
  PROVE  CanLead(bdd.root, n) /\ vec[n].dests[TRUE] # vec[n].dests[FALSE]
<1>1. \E d, o, j : FinalShape(d, o, j)
  BY CompletedFinal, FinalShapeFound DEF PathIInv
<1>2. PICK d, o, j : FinalShape(d, o, j)
  BY <1>1
<1>3. PICK c : c = vec[n].csco
  OBVIOUS
<1>4. c \in SCOs /\ Entry(o, c) = n /\ \A b \in BOOLEAN : vec[n].dests[b] = Exit(d, c, b)
  BY <1>2, <1>3, NodeLeaf
<1>5. Separates(d, o, c)
  BY <1>2, <1>4, AllSeparate
<1> QED
  BY <1>4, <1>5 DEF Separates
----------------------------------------------------------------------------
(* The edges into a condition, when no left operand decides its operator   *)
(* on the way to it.                                                       *)

\* Where next leads in the end, from each element, when it stops at those of A
EndsAt(S, A, next, f) ==
  f \in [S -> S] /\ \A s \in S : f[s] = IF s \in A THEN s ELSE f[next[s]]

LEMMA ChainEnds ==
  ASSUME NEW S, NEW B \in Nat, NEW rank \in [S -> 0..B], NEW A, NEW next \in [S -> S],
         \A s \in S : s \notin A => rank[next[s]] < rank[s]
  PROVE  \E f : EndsAt(S, A, next, f)
<1>1. CASE S = {}
  <2>1. PICK f : f = [s \in S |-> s]
    OBVIOUS
  <2>2. EndsAt(S, A, next, f)
    BY <1>1, <2>1 DEF EndsAt
  <2> QED
    BY <2>2
<1>2. CASE S # {}
  <2>1. PICK v \in S : TRUE
    BY <1>2
  <2>2. PICK G : G = [f \in [S -> S] |-> [s \in S |-> IF s \in A THEN s ELSE f[next[s]]]]
    OBVIOUS
  <2>3. G \in [[S -> S] -> [S -> S]]
    BY <2>2
  <2>4. ASSUME NEW f \in [S -> S], NEW g \in [S -> S], NEW s \in S,
               \A y \in S : rank[y] < rank[s] => f[y] = g[y]
        PROVE  G[f][s] = G[g][s]
    <3>1. /\ G[f][s] = IF s \in A THEN s ELSE f[next[s]]
          /\ G[g][s] = IF s \in A THEN s ELSE g[next[s]]
      BY <2>2
    <3>2. s \notin A => f[next[s]] = g[next[s]]
      BY <2>4
    <3> QED
      BY <3>1, <3>2
  <2>5. LooksBelow(G, S, S, rank)
    BY <2>3, <2>4 DEF LooksBelow
  <2>6. PICK f \in [S -> S] : f = G[f]
    BY <2>1, <2>5, RankRecursion
  <2>7. G[f] = [s \in S |-> IF s \in A THEN s ELSE f[next[s]]]
    BY <2>2
  <2>8. \A s \in S : f[s] = IF s \in A THEN s ELSE f[next[s]]
    BY <2>6, <2>7
  <2>9. EndsAt(S, A, next, f)
    BY <2>6, <2>8 DEF EndsAt
  <2> QED
    BY <2>9
<1> QED
  BY <1>1, <1>2

IsWhole(s) == sco[s].parent = Decision
IsLeft(s) == IsShortCircuit(sco[s].parent) /\ s = sco[sco[s].parent].operands["Left"]
IsRight(s) == IsShortCircuit(sco[s].parent) /\ s = sco[sco[s].parent].operands["Right"]

\* f[s]: s, or the first SCO above it, that is in A, unless the expression is
ClimbsTo(A, f) ==
  /\ f \in [SCOs -> SCOs]
  /\ \A s \in SCOs : f[s] = IF s \in A \/ IsWhole(s) THEN s ELSE f[sco[s].parent]

\* f[s]: the last condition of s
LastOf(f) ==
  /\ f \in [SCOs -> SCOs]
  /\ \A s \in SCOs : f[s] = IF IsLeaf(s) THEN s ELSE f[sco[s].operands["Right"]]

LEMMA ClimbExists ==
  ASSUME FinalTree, NEW A
  PROVE  \E f : ClimbsTo(A, f)
<1>1. PICK S, B, rank : S = SCOs /\ B = Len(sco) /\ rank = SCORank
  OBVIOUS
<1>2. B \in Nat /\ rank \in [S -> 0..B] /\ \A s \in S : rank[s] = s
  BY <1>1 DEF FinalTree, SCORank, SCOs
<1>3. PICK C : C = {s \in S : s \in A \/ IsWhole(s)}
  OBVIOUS
<1>4. PICK next : next = [s \in S |-> IF s \in C THEN s ELSE sco[s].parent]
  OBVIOUS
<1>5. ASSUME NEW s \in S, s \notin C
      PROVE  sco[s].parent \in S /\ sco[s].parent < s
  <2>1. sco[s].parent # Decision
    BY <1>3, <1>5 DEF IsWhole
  <2> QED
    BY <1>1, <2>1, ParentOf
<1>6. next \in [S -> S] /\ \A s \in S : s \notin C => rank[next[s]] < rank[s]
  BY <1>2, <1>4, <1>5
<1>7. PICK f : EndsAt(S, C, next, f)
  BY <1>2, <1>6, ChainEnds
<1>8. ClimbsTo(A, f)
  BY <1>1, <1>3, <1>4, <1>7 DEF EndsAt, ClimbsTo
<1> QED
  BY <1>8

LEMMA LastExists ==
  ASSUME FinalTree
  PROVE  \E f : LastOf(f)
<1>1. PICK S, B, rank : S = SCOs /\ B = Len(sco) /\ rank = HeightBound
  OBVIOUS
<1>2. B \in Nat /\ rank \in [S -> 0..B]
  BY <1>1 DEF FinalTree
<1>3. PICK C : C = {s \in S : IsLeaf(s)}
  OBVIOUS
<1>4. PICK next : next = [s \in S |-> IF s \in C THEN s ELSE sco[s].operands["Right"]]
  OBVIOUS
<1>5. ASSUME NEW s \in S, s \notin C
      PROVE  sco[s].operands["Right"] \in S /\ rank[sco[s].operands["Right"]] < rank[s]
  <2>1. Child(s, sco[s].operands["Right"])
    BY <1>1, <1>3, <1>5 DEF FinalTree, IsNegation, IsShortCircuit
  <2> QED
    BY <1>1, <2>1 DEF Child, FinalTree
<1>6. next \in [S -> S] /\ \A s \in S : s \notin C => rank[next[s]] < rank[s]
  BY <1>4, <1>5
<1>7. PICK f : EndsAt(S, C, next, f)
  BY <1>2, <1>6, ChainEnds
<1>8. LastOf(f)
  BY <1>1, <1>3, <1>4, <1>7 DEF EndsAt, LastOf
<1> QED
  BY <1>8

\* The two operands of an operator are not the same one
LEMMA OperandsDiffer ==
  ASSUME PathIInv, Completed, NEW s, IsShortCircuit(s)
  PROVE  sco[s].operands["Left"] # sco[s].operands["Right"]
<1>1. \E d, o, j : FinalShape(d, o, j)
  BY CompletedFinal, FinalShapeFound DEF PathIInv
<1>2. PICK d, o, j : FinalShape(d, o, j)
  BY <1>1
<1>3. PICK l, r, k :
        l = sco[s].operands["Left"] /\ r = sco[s].operands["Right"] /\ k = DecidingValue(s)
  OBVIOUS
<1>4. s \in SCOs
  BY DEF IsShortCircuit
<1>5. SplitPlaced(d, o, s, l, r, k)
  BY <1>2, <1>3, <1>4, OperandPlaces
<1>6. PICK h \in BOOLEAN : h = ~k
  OBVIOUS
<1>7. Exit(d, l, h) = Entry(o, r) /\ r \in SCOs
  BY <1>5, <1>6 DEF SplitPlaced
<1>8. Pos(Entry(o, r)) < Pos(Exit(d, r, h)) /\ Entry(o, r) \in PathNodes
  BY <1>2, <1>7, AllRouted DEF Routed, IsConditionNode
<1>9. Pos(Entry(o, r)) \in Nat
  BY <1>8, PosType
<1> QED
  BY <1>3, <1>7, <1>8, <1>9

\* Some edge of a short-circuit operator, decided by its left operand, leads to n
DecidedInto(d, n) ==
  {s \in SCOs : IsShortCircuit(s) /\ Exit(d, s, DecidingValue(s)) = n}

\* What leads to n, when no such edge does, is the end of the left operand of
\* which n starts the right one
LEMMA LeftOperandEnds ==
  ASSUME PathIInv, Completed, NEW d, NEW o, NEW j, FinalShape(d, o, j),
         NEW n, IsConditionNode(n), DecidedInto(d, n) = {},
         NEW t, ClimbsTo({s \in SCOs : IsLeft(s)}, t)
  PROVE  \A s \in SCOs : (\E b \in BOOLEAN : Exit(d, s, b) = n) =>
           \E x : /\ IsShortCircuit(x) /\ t[s] = sco[x].operands["Left"]
                  /\ Entry(o, sco[x].operands["Right"]) = n
<1>0. FinalTree /\ FinalBDD /\ n \notin Exits
  BY CompletedFinal DEF IsConditionNode
<1> DEFINE Leaving(s) == \E b \in BOOLEAN : Exit(d, s, b) = n
           Found(s) == \E x : /\ IsShortCircuit(x) /\ t[s] = sco[x].operands["Left"]
                              /\ Entry(o, sco[x].operands["Right"]) = n
<1>1. PICK P : P = {s \in SCOs : Leaving(s) => Found(s)}
  OBVIOUS
<1>2. ASSUME NEW s \in SCOs, \A y \in SCOs : SCORank[y] < SCORank[s] => y \in P, Leaving(s)
      PROVE  Found(s)
  <2>1. PICK p : p = sco[s].parent
    OBVIOUS
  <2>2. p \in SCOs /\ p < s /\ Leaving(p) => Found(p)
    BY <1>1, <1>2 DEF SCORank
  <2>3. PICK b \in BOOLEAN : Exit(d, s, b) = n
    BY <1>2
  <2>4. CASE p = Decision /\ s = sco[Decision].expr
    <3>1. Exit(d, s, b) = IF b THEN ExitTrue ELSE ExitFalse
      BY <2>4, ExpressionPlace
    <3> QED
      BY <1>0, <2>3, <3>1 DEF Exits
  <2>5. CASE p \in SCOs /\ p < s /\ IsNegation(p) /\ s = sco[p].operands["Right"]
    <3>1. NegationPlaced(d, o, p, s)
      BY <2>5, OperandPlaces
    <3>2. PICK a \in BOOLEAN : a = ~b
      OBVIOUS
    <3>3. Exit(d, p, a) = n
      BY <2>3, <3>1, <3>2 DEF NegationPlaced
    <3>4. Found(p)
      BY <2>2, <2>5, <3>3
    <3>5. ~IsLeft(s) /\ ~IsWhole(s)
      <4>1. p # Decision /\ ~IsShortCircuit(p)
        BY <2>5 DEF IsNegation, IsShortCircuit, SCOs, Decision
      <4> QED
        BY <2>1, <4>1 DEF IsLeft, IsWhole
    <3>6. t[s] = t[p]
      BY <2>1, <3>5 DEF ClimbsTo
    <3> QED
      BY <3>4, <3>6
  <2>6. CASE p \in SCOs /\ p < s /\ IsShortCircuit(p) /\ s = sco[p].operands["Left"]
    <3>1. PICK r, k : r = sco[p].operands["Right"] /\ k = DecidingValue(p)
      OBVIOUS
    <3>2. SplitPlaced(d, o, p, s, r, k)
      BY <2>6, <3>1, OperandPlaces
    <3>3. b # k
      <4>1. Exit(d, p, k) # n
        BY <2>6, <3>1 DEF DecidedInto
      <4> QED
        BY <2>3, <3>2, <4>1 DEF SplitPlaced
    <3>4. b = ~k
      BY <3>2, <3>3 DEF SplitPlaced
    <3>5. Entry(o, r) = n
      BY <2>3, <3>2, <3>4 DEF SplitPlaced
    <3>6. t[s] = s
      BY <2>1, <2>6 DEF ClimbsTo, IsLeft
    <3> QED
      BY <2>6, <3>1, <3>5, <3>6
  <2>7. CASE p \in SCOs /\ p < s /\ IsShortCircuit(p) /\ s = sco[p].operands["Right"]
    <3>1. PICK l, k : l = sco[p].operands["Left"] /\ k = DecidingValue(p)
      OBVIOUS
    <3>2. SplitPlaced(d, o, p, l, s, k)
      BY <2>7, <3>1, OperandPlaces
    <3>3. Exit(d, p, b) = n
      BY <2>3, <3>2 DEF SplitPlaced
    <3>4. Found(p)
      BY <2>2, <2>7, <3>3
    <3>5. ~IsLeft(s) /\ ~IsWhole(s)
      <4>1. p # Decision
        BY <2>7 DEF SCOs, Decision
      <4> QED
        BY <2>1, <2>7, <4>1, OperandsDiffer DEF IsLeft, IsWhole
    <3>6. t[s] = t[p]
      BY <2>1, <3>5 DEF ClimbsTo
    <3> QED
      BY <3>4, <3>6
  <2> QED
    BY <1>0, <2>1, <2>4, <2>5, <2>6, <2>7, ParentOf
<1>3. SCORank \in [SCOs -> Nat]
  BY <1>0 DEF SCORank, FinalTree
<1>4. SCOs \subseteq P
  BY <1>1, <1>2, <1>3, RankInduction
<1> QED
  BY <1>1, <1>4

\* A subexpression starts with the node of a condition that is the start of
\* the same right operands
LEMMA FirstOperand ==
  ASSUME PathIInv, Completed, NEW d, NEW o, NEW j, FinalShape(d, o, j),
         NEW u, ClimbsTo({s \in SCOs : IsRight(s)}, u)
  PROVE  \A s \in SCOs : \E c : IsLeaf(c) /\ Entry(o, c) = Entry(o, s) /\ u[c] = u[s]
<1>0. FinalTree
  BY CompletedFinal
<1> DEFINE Starts(s) == \E c : IsLeaf(c) /\ Entry(o, c) = Entry(o, s) /\ u[c] = u[s]
<1>1. PICK P : P = {s \in SCOs : Starts(s)}
  OBVIOUS
<1>2. ASSUME NEW s \in SCOs, \A y \in SCOs : HeightBound[y] < HeightBound[s] => y \in P
      PROVE  Starts(s)
  <2>1. \A x : Child(s, x) => Starts(x)
    BY <1>0, <1>1, <1>2 DEF Child, FinalTree
  <2>2. CASE IsLeaf(s)
    BY <2>2
  <2>3. ASSUME NEW x, Child(s, x), Entry(o, x) = Entry(o, s), ~IsRight(x)
        PROVE  Starts(s)
    <3>1. x \in SCOs /\ sco[x].parent = s /\ s # Decision
      BY <2>3 DEF Child, SCOs, Decision
    <3>2. u[x] = u[s]
      BY <2>3, <3>1 DEF ClimbsTo, IsWhole
    <3> QED
      BY <2>1, <2>3, <3>2
  <2>4. CASE IsNegation(s)
    <3>1. PICK x : x = sco[s].operands["Right"]
      OBVIOUS
    <3>2. Child(s, x) /\ ~IsShortCircuit(s)
      BY <2>4, <3>1 DEF IsNegation, IsShortCircuit
    <3>3. ~IsRight(x)
      BY <3>2 DEF IsRight, Child
    <3>4. Entry(o, x) = Entry(o, s)
      BY <2>4, <3>1, OperandPlaces DEF NegationPlaced
    <3> QED
      BY <2>3, <3>2, <3>3, <3>4
  <2>5. CASE IsShortCircuit(s)
    <3>1. PICK x : x = sco[s].operands["Left"]
      OBVIOUS
    <3>2. Child(s, x)
      BY <2>5, <3>1 DEF IsShortCircuit
    <3>3. ~IsRight(x)
      BY <2>5, <3>1, <3>2, OperandsDiffer DEF IsRight, Child
    <3>4. Entry(o, x) = Entry(o, s)
      BY <2>5, <3>1, OperandPlaces DEF SplitPlaced
    <3> QED
      BY <2>3, <3>2, <3>3, <3>4
  <2> QED
    BY <1>0, <2>2, <2>4, <2>5 DEF FinalTree
<1>3. HeightBound \in [SCOs -> Nat]
  BY <1>0 DEF FinalTree
<1>4. SCOs \subseteq P
  BY <1>1, <1>2, <1>3, RankInduction
<1> QED
  BY <1>1, <1>4

\* A node starts one right operand only
LEMMA RightOperandStarts ==
  ASSUME PathIInv, Completed, NEW d, NEW o, NEW j, FinalShape(d, o, j),
         NEW x, IsShortCircuit(x), NEW y, IsShortCircuit(y),
         Entry(o, sco[x].operands["Right"]) = Entry(o, sco[y].operands["Right"])
  PROVE  x = y
<1>0. FinalTree
  BY CompletedFinal
<1>1. PICK u : ClimbsTo({s \in SCOs : IsRight(s)}, u)
  BY <1>0, ClimbExists
<1>2. PICK r, q : r = sco[x].operands["Right"] /\ q = sco[y].operands["Right"]
  OBVIOUS
<1>3. r \in SCOs /\ q \in SCOs /\ sco[r].parent = x /\ sco[q].parent = y
  BY <1>2 DEF IsShortCircuit, Child
<1>4. IsRight(r) /\ IsRight(q)
  BY <1>2, <1>3 DEF IsRight
<1>5. u[r] = r /\ u[q] = q
  BY <1>1, <1>3, <1>4 DEF ClimbsTo
<1>6. PICK a : IsLeaf(a) /\ Entry(o, a) = Entry(o, r) /\ u[a] = u[r]
  BY <1>1, <1>3, FirstOperand
<1>7. PICK c : IsLeaf(c) /\ Entry(o, c) = Entry(o, q) /\ u[c] = u[q]
  BY <1>1, <1>3, FirstOperand
<1>8. vec[Entry(o, a)].csco = a /\ vec[Entry(o, c)].csco = c
  BY <1>6, <1>7 DEF FinalShape
<1>9. a = c
  BY <1>2, <1>6, <1>7, <1>8
<1> QED
  BY <1>3, <1>5, <1>6, <1>7, <1>9

\* Climbing to a left operand keeps the last condition
LEMMA LastCondition ==
  ASSUME PathIInv, Completed, NEW t, ClimbsTo({s \in SCOs : IsLeft(s)}, t), NEW g, LastOf(g)
  PROVE  \A s \in SCOs : g[t[s]] = g[s]
<1>0. FinalTree
  BY CompletedFinal
<1>1. PICK P : P = {s \in SCOs : g[t[s]] = g[s]}
  OBVIOUS
<1>2. ASSUME NEW s \in SCOs, \A y \in SCOs : SCORank[y] < SCORank[s] => y \in P
      PROVE  g[t[s]] = g[s]
  <2>1. PICK p : p = sco[s].parent
    OBVIOUS
  <2>2. CASE IsLeft(s) \/ IsWhole(s)
    <3>1. t[s] = s
      BY <2>2 DEF ClimbsTo
    <3> QED
      BY <3>1
  <2>3. CASE ~IsLeft(s) /\ ~IsWhole(s)
    <3>1. p \in SCOs /\ p < s /\ ~IsLeaf(p) /\ s = sco[p].operands["Right"]
      <4>1. p # Decision
        BY <2>1, <2>3 DEF IsWhole
      <4>2. ~(IsShortCircuit(p) /\ s = sco[p].operands["Left"])
        BY <2>1, <2>3 DEF IsLeft
      <4>3. /\ p \in SCOs /\ p < s
            /\ \/ IsNegation(p) /\ s = sco[p].operands["Right"]
               \/ IsShortCircuit(p) /\ s = sco[p].operands["Right"]
        BY <1>0, <2>1, <4>1, <4>2, ParentOf
      <4>4. ~IsLeaf(p)
        BY <4>3 DEF IsLeaf, IsNegation, IsShortCircuit
      <4> QED
        BY <4>3, <4>4
    <3>2. t[s] = t[p]
      BY <2>1, <2>3 DEF ClimbsTo
    <3>3. g[p] = g[s]
      BY <3>1 DEF LastOf
    <3>4. g[t[p]] = g[p]
      BY <1>1, <1>2, <3>1 DEF SCORank
    <3> QED
      BY <3>2, <3>3, <3>4
  <2> QED
    BY <2>2, <2>3
<1>3. SCORank \in [SCOs -> Nat]
  BY <1>0 DEF SCORank, FinalTree
<1>4. SCOs \subseteq P
  BY <1>1, <1>2, <1>3, RankInduction
<1> QED
  BY <1>1, <1>4

\* A node that two edges lead to is one that the left operand of some operator
\* leads to when it decides it
LEMMA EdgeDecided ==
  ASSUME PathIInv, Completed, NEW d, NEW o, NEW j, FinalShape(d, o, j),
         NEW n, IsConditionNode(n),
         NEW m, IsConditionNode(m), NEW b \in BOOLEAN, vec[m].dests[b] = n,
         NEW p, IsConditionNode(p), NEW a \in BOOLEAN, vec[p].dests[a] = n,
         m # p \/ b # a
  PROVE  DecidedInto(d, n) # {}
<1> SUFFICES ASSUME DecidedInto(d, n) = {} PROVE FALSE
  OBVIOUS
<1>0. FinalTree
  BY CompletedFinal
<1>1. PICK t : ClimbsTo({s \in SCOs : IsLeft(s)}, t)
  BY <1>0, ClimbExists
<1>2. PICK g : LastOf(g)
  BY <1>0, LastExists
<1>3. PICK c, e : c = vec[m].csco /\ e = vec[p].csco
  OBVIOUS
<1>4. /\ IsLeaf(c) /\ c \in SCOs /\ Entry(o, c) = m /\ Exit(d, c, b) = n
      /\ IsLeaf(e) /\ e \in SCOs /\ Entry(o, e) = p /\ Exit(d, e, a) = n
  BY <1>3, NodeLeaf
<1>5. PICK x : /\ IsShortCircuit(x) /\ t[c] = sco[x].operands["Left"]
               /\ Entry(o, sco[x].operands["Right"]) = n
  BY <1>1, <1>4, LeftOperandEnds
<1>6. PICK y : /\ IsShortCircuit(y) /\ t[e] = sco[y].operands["Left"]
               /\ Entry(o, sco[y].operands["Right"]) = n
  BY <1>1, <1>4, LeftOperandEnds
<1>7. x = y
  BY <1>5, <1>6, RightOperandStarts
<1>8. g[c] = c /\ g[e] = e
  BY <1>2, <1>4 DEF LastOf
<1>9. g[t[c]] = c /\ g[t[e]] = e
  BY <1>1, <1>2, <1>4, <1>8, LastCondition
<1>10. c = e
  BY <1>5, <1>6, <1>7, <1>9
<1>11. m = p
  BY <1>4, <1>10
<1>12. b # a
  BY <1>11
<1>13. vec[m].dests[TRUE] # vec[m].dests[FALSE]
  BY ConditionsReached
<1>14. b \in BOOLEAN /\ a \in BOOLEAN
  OBVIOUS
<1>15. vec[m].dests[b] = vec[m].dests[a]
  BY <1>11
<1>16. b = a
  <2>1. CASE b = TRUE /\ a = FALSE
    BY <1>13, <1>15, <2>1, Zenon
  <2>2. CASE b = FALSE /\ a = TRUE
    BY <1>13, <1>15, <2>2, Zenon
  <2>3. CASE b = TRUE /\ a = TRUE
    BY <2>3
  <2>4. CASE b = FALSE /\ a = FALSE
    BY <2>4
  <2>5. \/ b = TRUE /\ a = TRUE
        \/ b = FALSE /\ a = FALSE
        \/ b = TRUE /\ a = FALSE
        \/ b = FALSE /\ a = TRUE
    BY <1>14
  <2> QED
    BY <2>1, <2>2, <2>3, <2>4, <2>5
<1> QED
  BY <1>12, <1>16
----------------------------------------------------------------------------
(* What First_Multipath_Condition stands for.                              *)

\* Value c of the condition of m leads to n; its other value leads to y, from
\* which either n is joined or the path goes on from x, and so can it from n
Diamond(m, c, n, y, x) ==
  /\ IsConditionNode(m) /\ IsConditionNode(n) /\ IsConditionNode(y) /\ x \in PathNodes
  /\ c \in BOOLEAN /\ vec[m].dests[c] = n /\ vec[m].dests[~c] = y
  /\ CanLead(y, n) /\ CanLead(n, x) /\ Pos(n) < Pos(x)
  /\ \A e \in [CondIndexes -> BOOLEAN] : Leads(e, y, n) \/ Leads(e, y, x)

Onward(n, x) == x \in PathNodes /\ CanLead(n, x) /\ Pos(n) < Pos(x)

\* Above the least operator that is decided into n, what the other value leads
\* to is further on
OtherExit(d, n, t) ==
  \A a, b \in BOOLEAN : a # b /\ Exit(d, t, a) = n => Onward(n, Exit(d, t, b))

LEMMA LeftOther ==
  ASSUME PathIInv, Completed, NEW d, NEW o, NEW j, FinalShape(d, o, j),
         NEW n, IsConditionNode(n), NEW t, NEW p \in SCOs, IsShortCircuit(p),
         t = sco[p].operands["Left"], p \notin DecidedInto(d, n)
  PROVE  OtherExit(d, n, t)
<1>1. PICK r, k : r = sco[p].operands["Right"] /\ k = DecidingValue(p)
  OBVIOUS
<1>2. SplitPlaced(d, o, p, t, r, k)
  BY <1>1, OperandPlaces
<1>3. k \in BOOLEAN /\ r \in SCOs
  BY <1>2 DEF SplitPlaced
<1>4. Exit(d, p, k) # n
  BY <1>1 DEF DecidedInto
<1>5. Exit(d, t, k) # n
  BY <1>2, <1>4 DEF SplitPlaced
<1>6. Routed(d, o, r)
  BY <1>3, AllRouted
<1>7. ASSUME NEW a \in BOOLEAN, NEW b \in BOOLEAN, a # b, Exit(d, t, a) = n
      PROVE  Onward(n, Exit(d, t, b))
  <2>1. a # k
    BY <1>5, <1>7
  <2>2. b = k /\ a = (~k)
    BY <1>3, <1>7, <2>1
  <2>3. Entry(o, r) = n
    BY <1>2, <1>7, <2>2 DEF SplitPlaced
  <2>4. Exit(d, t, b) = Exit(d, r, k)
    BY <1>2, <1>3, <2>2 DEF SplitPlaced
  <2> QED
    BY <1>3, <1>6, <2>3, <2>4 DEF Routed, Onward
<1> QED
  BY <1>7 DEF OtherExit

LEMMA OtherExits ==
  ASSUME PathIInv, Completed, NEW d, NEW o, NEW j, FinalShape(d, o, j),
         NEW n, IsConditionNode(n), NEW s \in SCOs, \A p \in DecidedInto(d, n) : s <= p
  PROVE  OtherExit(d, n, s)
<1>0. FinalTree
  BY CompletedFinal
<1>1. PICK P : P = {t \in SCOs : t <= s => OtherExit(d, n, t)}
  OBVIOUS
<1>2. SCOs \subseteq Nat /\ \A t \in SCOs : SCORank[t] = t
  BY <1>0 DEF FinalTree, SCORank
<1>3. SCORank \in [SCOs -> Nat]
  BY <1>2 DEF SCORank
<1>4. ASSUME NEW t \in SCOs, \A y \in SCOs : SCORank[y] < SCORank[t] => y \in P
      PROVE  t \in P
  <2> SUFFICES ASSUME t <= s PROVE OtherExit(d, n, t)
    BY <1>1
  <2>1. PICK p : p = sco[t].parent
    OBVIOUS
  <2>2. CASE p = Decision /\ t = sco[Decision].expr
    <3>1. \A b \in BOOLEAN : Exit(d, t, b) = IF b THEN ExitTrue ELSE ExitFalse
      BY <2>2, ExpressionPlace
    <3>2. \A b \in BOOLEAN : Exit(d, t, b) \in Exits
      BY <3>1 DEF Exits
    <3>3. \A b \in BOOLEAN : Exit(d, t, b) # n
      BY <3>2 DEF IsConditionNode
    <3> QED
      BY <3>3 DEF OtherExit
  <2>3. ASSUME p \in SCOs, p < t
        PROVE  OtherExit(d, n, p) /\ p < s
    <3>1. p \in Nat /\ t \in Nat /\ s \in Nat /\ SCORank[p] = p /\ SCORank[t] = t
      BY <1>2, <2>3
    <3>2. SCORank[p] < SCORank[t] /\ p <= s /\ p < s
      BY <2>3, <3>1
    <3>3. p \in P
      BY <1>4, <2>3, <3>2
    <3> QED
      BY <1>1, <3>2, <3>3
  <2>4. CASE p \in SCOs /\ p < t /\ IsNegation(p) /\ t = sco[p].operands["Right"]
    <3>1. NegationPlaced(d, o, p, t)
      BY <2>4, OperandPlaces
    <3>2. OtherExit(d, n, p)
      BY <2>3, <2>4
    <3>3. ASSUME NEW a \in BOOLEAN, NEW b \in BOOLEAN, a # b, Exit(d, t, a) = n
          PROVE  Onward(n, Exit(d, t, b))
      <4>1. PICK a1 \in BOOLEAN, b1 \in BOOLEAN : a1 = (~a) /\ b1 = (~b)
        BY <3>3
      <4>2. a1 # b1
        BY <3>3, <4>1
      <4>3. Exit(d, t, a) = Exit(d, p, a1) /\ Exit(d, t, b) = Exit(d, p, b1)
        BY <3>1, <3>3, <4>1 DEF NegationPlaced
      <4> QED
        BY <3>2, <3>3, <4>2, <4>3 DEF OtherExit
    <3> QED
      BY <3>3 DEF OtherExit
  <2>5. CASE p \in SCOs /\ p < t /\ IsShortCircuit(p) /\ t = sco[p].operands["Right"]
    <3>1. PICK l, k : SplitPlaced(d, o, p, l, t, k)
      BY <2>5, OperandPlaces
    <3>2. \A b \in BOOLEAN : Exit(d, t, b) = Exit(d, p, b)
      BY <3>1 DEF SplitPlaced
    <3>3. OtherExit(d, n, p)
      BY <2>3, <2>5
    <3> QED
      BY <3>2, <3>3 DEF OtherExit
  <2>6. CASE p \in SCOs /\ p < t /\ IsShortCircuit(p) /\ t = sco[p].operands["Left"]
    <3>1. p < s /\ p \in Nat /\ s \in Nat
      BY <1>2, <2>3, <2>6
    <3>2. p \notin DecidedInto(d, n)
      BY <3>1
    <3> QED
      BY <2>6, <3>2, LeftOther
  <2> QED
    BY <1>0, <2>1, <2>2, <2>4, <2>5, <2>6, ParentOf
<1>5. SCOs \subseteq P
  BY <1>3, <1>4, RankInduction
<1>6. s \in P /\ s \in Nat
  BY <1>2, <1>5
<1> QED
  BY <1>1, <1>6

LEMMA LeastDecided ==
  ASSUME PathIInv, Completed, NEW d, NEW n, DecidedInto(d, n) # {}
  PROVE  \E s \in DecidedInto(d, n) : \A p \in DecidedInto(d, n) : s <= p
<1>1. SCOs \subseteq Nat
  BY CompletedFinal DEF FinalTree
<1>2. DecidedInto(d, n) \in SUBSET Nat
  BY <1>1 DEF DecidedInto
<1> QED
  BY <1>2, Least

LEMMA DiamondAt ==
  ASSUME PathIInv, Completed, NEW d, NEW o, NEW j, FinalShape(d, o, j),
         NEW n, IsConditionNode(n), DecidedInto(d, n) # {}
  PROVE  \E m, c, y, x : Diamond(m, c, n, y, x)
<1>1. PICK s \in DecidedInto(d, n) : \A p \in DecidedInto(d, n) : s <= p
  BY LeastDecided
<1>2. PICK l, r, k : /\ l = sco[s].operands["Left"] /\ r = sco[s].operands["Right"]
                     /\ k = DecidingValue(s)
  OBVIOUS
<1>3. s \in SCOs /\ IsShortCircuit(s) /\ Exit(d, s, k) = n
  BY <1>1, <1>2 DEF DecidedInto
<1>4. SplitPlaced(d, o, s, l, r, k)
  BY <1>2, <1>3, OperandPlaces
<1>5. PICK h \in BOOLEAN : h = (~k)
  BY <1>4 DEF SplitPlaced
<1>6. /\ k \in BOOLEAN /\ l \in SCOs /\ r \in SCOs /\ h # k
      /\ Exit(d, l, k) = n /\ Exit(d, l, h) = Entry(o, r)
      /\ Exit(d, r, k) = n /\ Exit(d, r, h) = Exit(d, s, h)
  BY <1>3, <1>4, <1>5 DEF SplitPlaced
<1>7. PICK x : x = Exit(d, s, h)
  OBVIOUS
<1>8. OtherExit(d, n, s)
  BY <1>1, <1>3, OtherExits
<1>9. Onward(n, x)
  BY <1>3, <1>6, <1>7, <1>8 DEF OtherExit
<1>10. PICK y : y = Entry(o, r)
  OBVIOUS
<1>11. Routed(d, o, r) /\ Routed(d, o, l)
  BY <1>6, AllRouted
<1>12. IsConditionNode(y) /\ CanLead(y, n)
  BY <1>6, <1>10, <1>11 DEF Routed
<1>13. \A e \in [CondIndexes -> BOOLEAN] : Leads(e, y, n) \/ Leads(e, y, x)
  <2>1. ASSUME NEW e \in [CondIndexes -> BOOLEAN]
        PROVE  Leads(e, y, n) \/ Leads(e, y, x)
    <3>1. PICK b \in BOOLEAN : Leads(e, y, Exit(d, r, b))
      BY <1>10, <1>11, <2>1 DEF Routed
    <3>2. b = k \/ b = h
      BY <1>5, <1>6, <3>1
    <3> QED
      BY <1>6, <1>7, <3>1, <3>2
  <2> QED
    BY <2>1
<1>14. PICK q, z : EndsWith(d, l, q, z)
  BY <1>11 DEF Routed
<1>15. PICK w \in BOOLEAN : w = (~z)
  BY <1>14 DEF EndsWith
<1>16. /\ IsLeaf(q) /\ z \in BOOLEAN /\ z # w
       /\ Exit(d, q, z) = Exit(d, l, TRUE) /\ Exit(d, q, w) = Exit(d, l, FALSE)
  BY <1>14, <1>15 DEF EndsWith
<1>17. \E c, b \in BOOLEAN : b = (~c) /\ Exit(d, q, c) = n /\ Exit(d, q, b) = y
  <2>1. CASE k = TRUE /\ h = FALSE
    <3>1. Exit(d, q, z) = n /\ Exit(d, q, w) = y
      BY <1>6, <1>10, <1>16, <2>1
    <3> QED
      BY <1>15, <1>16, <3>1
  <2>2. CASE k = FALSE /\ h = TRUE
    <3>1. Exit(d, q, w) = n /\ Exit(d, q, z) = y
      BY <1>6, <1>10, <1>16, <2>2
    <3>2. z = (~w)
      BY <1>15, <1>16
    <3> QED
      BY <1>15, <1>16, <3>1, <3>2
  <2> QED
    BY <1>5, <1>6, <2>1, <2>2
<1>18. PICK c \in BOOLEAN, b \in BOOLEAN : b = (~c) /\ Exit(d, q, c) = n /\ Exit(d, q, b) = y
  BY <1>17
<1>19. PICK m : m = sco[q].node
  OBVIOUS
<1>20. IsConditionNode(m) /\ \A v \in BOOLEAN : vec[m].dests[v] = Exit(d, q, v)
  BY <1>16, <1>19 DEF FinalShape
<1>21. vec[m].dests[c] = n /\ vec[m].dests[~c] = y
  BY <1>18, <1>20
<1>22. Diamond(m, c, n, y, x)
  BY <1>9, <1>12, <1>13, <1>18, <1>20, <1>21 DEF Diamond, Onward
<1> QED
  BY <1>22

\* There is a diamond into the multipath condition that Visit found
LEMMA DiamondFound ==
  ASSUME PathIInv, VisitsTraced, Completed, bdd.firstMultipath # 0
  PROVE  \E m, c, n, y, x : Diamond(m, c, n, y, x)
<1>1. MultipathLed /\ NodesFound
  BY DoneVisits
<1>2. PICK n : n = bdd.firstMultipath
  OBVIOUS
<1>3. IsConditionNode(n) /\ count[n] > 0
      /\ \E m, b : Follows(m, b, n) /\ (vec[n].parent # m \/ vec[n].parentValue # b)
  BY <1>1, <1>2 DEF MultipathLed
<1>4. PICK m, b : Follows(m, b, n) /\ (vec[n].parent # m \/ vec[n].parentValue # b)
  BY <1>3
<1>5. n # bdd.root
  BY <1>4, RootFirst
<1>6. Follows(vec[n].parent, vec[n].parentValue, n)
  BY <1>1, <1>3, <1>5 DEF NodesFound
<1>7. PICK p, a : p = vec[n].parent /\ a = vec[n].parentValue
  OBVIOUS
<1>8. Follows(p, a, n) /\ (m # p \/ b # a)
  BY <1>4, <1>6, <1>7
<1>9. /\ IsConditionNode(m) /\ b \in BOOLEAN /\ vec[m].dests[b] = n
      /\ IsConditionNode(p) /\ a \in BOOLEAN /\ vec[p].dests[a] = n
  BY <1>4, <1>8 DEF Follows
<1>10. FinalBDD /\ FinalTree
  BY CompletedFinal
<1>11. PICK d, o, j : FinalShape(d, o, j)
  BY <1>10, FinalShapeFound DEF PathIInv
<1>12. DecidedInto(d, n) # {}
  BY <1>3, <1>8, <1>9, <1>11, EdgeDecided
<1>13. \E v, c, y, x : Diamond(v, c, n, y, x)
  BY <1>3, <1>11, <1>12, DiamondAt
<1> QED
  BY <1>13
----------------------------------------------------------------------------
(* Evaluations and the paths they come from, with no static condition.     *)

NoneStatic == \A s \in Conditions : sco[s].value = "Unknown"

\* Every valuation of the conditions is then one that can happen
LEMMA AllEnvironments ==
  ASSUME NoneStatic
  PROVE  Environments = [CondIndexes -> BOOLEAN]
<1>1. \A b : ToTristate(b) # "Unknown"
  BY DEF ToTristate
<1>2. ASSUME NEW e \in [CondIndexes -> BOOLEAN]
      PROVE  \A s \in Conditions : sco[s].value # ToTristate(~e[sco[s].index])
  BY <1>1 DEF NoneStatic
<1> QED
  BY <1>2 DEF Environments

\* What the evaluation of e says of its path
LEMMA EvaluatedLeads ==
  ASSUME PathIInv, Completed, NEW e \in [CondIndexes -> BOOLEAN], NEW q, IsConditionNode(q)
  PROVE  Leads(e, bdd.root, q) <=> NodeIndex(q) \in Evaluated(e)
<1>1. Followed(e, Follow(e))
  BY FollowChosen
<1>2. Follow(e)[bdd.root] = ReferenceEvaluation(e)
  BY <1>1, FollowedReference DEF Followed
<1>3. NodeIndex(q) \in CondIndexes /\ q \notin Exits
  BY DEF IsConditionNode, NodeIndex
<1>4. ReferenceEvaluation(e).values[NodeIndex(q)] # "Unknown" <=> NodeIndex(q) \in Evaluated(e)
  BY <1>3, ReferenceValues
<1> QED
  BY <1>2, <1>3, <1>4 DEF Leads, Reaches

LEMMA OutcomeLeads ==
  ASSUME PathIInv, Completed, NEW e \in [CondIndexes -> BOOLEAN], NEW x \in Exits
  PROVE  Leads(e, bdd.root, x) <=> SourceEvaluation(e).outcome = (x = ExitTrue)
<1>1. Followed(e, Follow(e))
  BY FollowChosen
<1>2. Follow(e)[bdd.root] = ReferenceEvaluation(e)
  BY <1>1, FollowedReference DEF Followed
<1> QED
  BY <1>2 DEF Leads, Reaches, SourceEvaluation

\* Every index is that of a node
LEMMA NodeOfIndex ==
  ASSUME PathIInv, Completed, NEW i \in CondIndexes
  PROVE  \E n : IsConditionNode(n) /\ NodeIndex(n) = i
<1>1. \A c \in Conditions : IsConditionNode(sco[c].node) /\ vec[sco[c].node].csco = c
  BY CompletedFinal DEF FinalBDD
<1>2. LastCondIndex \in Nat /\ IsFiniteSet(CondIndexes)
  BY LastIndexNatural
<1>3. Cardinality(CondIndexes) = LastCondIndex + 1
  BY <1>2, FS_Interval DEF CondIndexes
<1>4. Cardinality(Conditions) \in Nat
  <2>1. Len(sco) \in Nat
    BY DEF PathIInv, IInv, TypeOK
  <2>2. IsFiniteSet(1..Len(sco)) /\ Conditions \subseteq 1..Len(sco)
    BY <2>1, FS_Interval DEF Conditions
  <2> QED
    BY <2>2, FS_Subset, FS_CardinalityType
<1>5. Cardinality(Conditions) = Cardinality(CondIndexes)
  BY <1>3, <1>4 DEF LastCondIndex
<1>6. PICK f : f = [c \in Conditions |-> sco[c].index]
  OBVIOUS
<1>7. f \in [Conditions -> CondIndexes]
  BY <1>1, <1>6 DEF IsConditionNode
<1>8. ASSUME NEW a \in Conditions, NEW b \in Conditions, f[a] = f[b] PROVE a = b
  <2>1. PICK m, p : m = sco[a].node /\ p = sco[b].node
    OBVIOUS
  <2>2. /\ IsConditionNode(m) /\ vec[m].csco = a /\ NodeIndex(m) = sco[a].index
        /\ IsConditionNode(p) /\ vec[p].csco = b /\ NodeIndex(p) = sco[b].index
    BY <1>1, <2>1 DEF NodeIndex
  <2>3. sco[a].index = sco[b].index
    BY <1>6, <1>8
  <2>4. m = p
    BY <2>2, <2>3, IndexNode
  <2> QED
    BY <2>2, <2>4
<1>9. f \in Injection(Conditions, CondIndexes)
  BY <1>7, <1>8, Fun_IsInj
<1>10. f \in Surjection(Conditions, CondIndexes)
  BY <1>2, <1>5, <1>9, FS_Injection
<1>11. \E c \in Conditions : f[c] = i
  BY <1>10, Fun_SurjectionProperties
<1>12. PICK c \in Conditions : sco[c].index = i
  BY <1>6, <1>11
<1> QED
  BY <1>1, <1>12 DEF NodeIndex

\* From each node some valuation leads to an exit
LEMMA SomeExit ==
  ASSUME PathIInv, Completed, NEW x \in PathNodes
  PROVE  \E z \in Exits : CanLead(x, z)
<1>1. PICK e : e = [i \in CondIndexes |-> TRUE]
  OBVIOUS
<1>2. e \in [CondIndexes -> BOOLEAN]
  BY <1>1
<1>3. IsFollowed(e, Follow(e))
  BY <1>2, FollowChosen DEF Followed
<1>4. Follow(e)[x].outcome \in BOOLEAN
  BY <1>3 DEF IsFollowed, EvaluationType
<1>5. PICK z : z = IF Follow(e)[x].outcome THEN ExitTrue ELSE ExitFalse
  OBVIOUS
<1>6. ExitTrue # ExitFalse /\ z \in Exits
  BY <1>5 DEF ExitTrue, ExitFalse, Exits
<1>7. Follow(e)[x].outcome = (z = ExitTrue)
  BY <1>4, <1>5, <1>6
<1>8. Leads(e, x, z)
  BY <1>6, <1>7 DEF Leads, Reaches
<1> QED
  BY <1>2, <1>6, <1>8 DEF CanLead

\* a before condition k, b from it on
LEMMA Spliced ==
  ASSUME PathIInv, Completed, NEW a \in [CondIndexes -> BOOLEAN],
         NEW b \in [CondIndexes -> BOOLEAN], NEW k \in Nat
  PROVE  \E h \in [CondIndexes -> BOOLEAN] :
           \A i \in CondIndexes : IF i < k THEN h[i] = a[i] ELSE h[i] = b[i]
<1>1. PICK h : h = [i \in CondIndexes |-> IF i < k THEN a[i] ELSE b[i]]
  OBVIOUS
<1> QED
  BY <1>1

\* The evaluations of two paths that go through node n, and have no condition
\* from n on with different values, have the same outcome
LEMMA SameOnward ==
  ASSUME PathIInv, Completed, NEW a \in [CondIndexes -> BOOLEAN],
         NEW b \in [CondIndexes -> BOOLEAN], NEW n, IsConditionNode(n),
         Leads(a, bdd.root, n), Leads(b, bdd.root, n),
         \A i \in Varied(SourceEvaluation(a), SourceEvaluation(b)) : i < NodeIndex(n)
  PROVE  SourceEvaluation(a).outcome = SourceEvaluation(b).outcome
<1>1. PICK j : j = NodeIndex(n)
  OBVIOUS
<1>2. j \in Evaluated(a) /\ j \in Evaluated(b)
  BY <1>1, EvaluatedLeads
<1>3. LastCondIndex \in Nat /\ CondIndexes \subseteq Nat /\ j \in CondIndexes /\ j \in Nat
  BY <1>1, LastIndexNatural DEF CondIndexes, IsConditionNode, NodeIndex
<1>4. Evaluated(a) \subseteq CondIndexes /\ Evaluated(b) \subseteq CondIndexes
  BY EvaluatedIndexes
<1>5. PICK h : h = [i \in CondIndexes |-> IF i \in Evaluated(b) /\ i >= j THEN b[i] ELSE a[i]]
  OBVIOUS
<1>6. h \in [CondIndexes -> BOOLEAN]
  BY <1>5
<1>7. \A i \in CondIndexes : h[i] = IF i \in Evaluated(b) /\ i >= j THEN b[i] ELSE a[i]
  BY <1>5
<1>8. \A i \in CondIndexes : i < j => a[i] = h[i]
  BY <1>3, <1>7
<1>9. \A i \in Evaluated(b) : i >= j => b[i] = h[i]
  BY <1>4, <1>7
<1>10. ReferenceEvaluation(h).outcome = ReferenceEvaluation(b).outcome
  BY <1>2, <1>6, <1>8, <1>9, FlippedOutcome
<1>11. \A i \in Evaluated(a) : a[i] = h[i]
  <2> SUFFICES ASSUME NEW i \in Evaluated(a), i \in Evaluated(b), i >= j, a[i] # b[i] PROVE FALSE
    BY <1>4, <1>7
  <2>1. i \in Varied(ReferenceEvaluation(a), ReferenceEvaluation(b))
    BY VariedConditions
  <2>2. i < j
    BY <1>1, <2>1 DEF SourceEvaluation
  <2>3. i \in Nat
    BY <1>3, <1>4
  <2> QED
    BY <1>3, <2>2, <2>3
<1>12. ReferenceEvaluation(a) = ReferenceEvaluation(h)
  BY <1>6, <1>11, Agreement
<1> QED
  BY <1>10, <1>12 DEF SourceEvaluation
----------------------------------------------------------------------------
(* Evaluations that take every branch of a BDD with a multipath condition, *)
(* and show nothing of another condition.                                  *)

\* Each value of a condition can be taken
LEMMA ValueTaken ==
  ASSUME PathIInv, Completed, NEW q, IsConditionNode(q), NEW v \in BOOLEAN
  PROVE  \E a \in [CondIndexes -> BOOLEAN] : Leads(a, bdd.root, q) /\ ValueAt(a, q) = v
<1>1. PICK e \in [CondIndexes -> BOOLEAN] : Leads(e, bdd.root, q)
  BY ConditionsReached DEF CanLead
<1>2. PICK a : a = [e EXCEPT ![NodeIndex(q)] = v]
  OBVIOUS
<1>3. NodeIndex(q) \in CondIndexes /\ q \in PathNodes /\ bdd.root \in PathNodes
  BY CompletedFinal DEF IsConditionNode, NodeIndex, FinalBDD
<1>4. /\ a \in [CondIndexes -> BOOLEAN] /\ a[NodeIndex(q)] = v
      /\ \A i \in CondIndexes : i # NodeIndex(q) => e[i] = a[i]
  BY <1>2, <1>3
<1>5. Pos(q) = NodeIndex(q) /\ Pos(q) \in Nat
  BY <1>3, PosType
<1>6. \A i \in CondIndexes : i < Pos(q) => e[i] = a[i]
  BY <1>4, <1>5
<1>7. Leads(a, bdd.root, q)
  BY <1>1, <1>3, <1>4, <1>6, LeadsBefore
<1>8. ValueAt(a, q) = v
  BY <1>4, LeadsEdge
<1> QED
  BY <1>4, <1>7, <1>8

\* h goes through m, and round to n, as a does before m and as u from n on
GoesRound(m, c, n, a, u, h) ==
  /\ h \in [CondIndexes -> BOOLEAN]
  /\ Leads(h, bdd.root, m) /\ ValueAt(h, m) = (~c) /\ Leads(h, bdd.root, n)
  /\ \A i \in CondIndexes : /\ i < Pos(m) => h[i] = a[i]
                            /\ i >= Pos(n) => h[i] = u[i]

LEMMA WayRound ==
  ASSUME PathIInv, Completed, NEW m, NEW c, NEW n, NEW y, NEW x, Diamond(m, c, n, y, x),
         NEW a \in [CondIndexes -> BOOLEAN], Leads(a, bdd.root, m),
         NEW u \in [CondIndexes -> BOOLEAN]
  PROVE  \E h : GoesRound(m, c, n, a, u, h)
<1>1. PICK b \in BOOLEAN : b = (~c)
  BY DEF Diamond
<1>2. /\ IsConditionNode(m) /\ IsConditionNode(n) /\ IsConditionNode(y)
      /\ vec[m].dests[b] = y /\ CanLead(y, n)
  BY <1>1 DEF Diamond
<1>3. m \in PathNodes /\ n \in PathNodes /\ y \in PathNodes /\ bdd.root \in PathNodes
  BY <1>2, CompletedFinal DEF IsConditionNode, FinalBDD
<1>4. PICK w \in [CondIndexes -> BOOLEAN] : Leads(w, y, n)
  BY <1>2 DEF CanLead
<1>5. Pos(m) < Pos(y)
  BY <1>2, CanLeadEdge
<1>6. Pos(y) <= Pos(n)
  BY <1>3, <1>4, LeadsUp
<1>7. /\ Pos(m) = NodeIndex(m) /\ NodeIndex(m) \in CondIndexes
      /\ Pos(m) \in Nat /\ Pos(n) \in Nat /\ Pos(y) \in Nat
  BY <1>2, <1>3, PosType
<1>8. PICK h : h = [i \in CondIndexes |-> IF i < Pos(m) THEN a[i]
                                         ELSE IF i = Pos(m) THEN b
                                         ELSE IF i < Pos(n) THEN w[i] ELSE u[i]]
  OBVIOUS
<1>9. h \in [CondIndexes -> BOOLEAN]
  BY <1>1, <1>8
<1>10. LastCondIndex \in Nat /\ CondIndexes \subseteq Nat
  BY LastIndexNatural DEF CondIndexes
<1>11. \A i \in CondIndexes : /\ i < Pos(m) => a[i] = h[i]
                              /\ i = Pos(m) => h[i] = b
                              /\ Pos(y) <= i /\ i < Pos(n) => w[i] = h[i]
                              /\ i >= Pos(n) => h[i] = u[i]
  BY <1>5, <1>6, <1>7, <1>8, <1>10
<1>12. Leads(h, bdd.root, m)
  BY <1>3, <1>9, <1>11, LeadsBefore
<1>13. ValueAt(h, m) = b
  BY <1>2, <1>7, <1>9, <1>11, LeadsEdge
<1>14. Leads(h, m, y)
  <2>1. Successor(h, m) = y
    BY <1>2, <1>13 DEF Successor
  <2> QED
    BY <1>2, <1>9, <2>1, LeadsEdge
<1>15. Leads(h, y, n)
  BY <1>3, <1>4, <1>9, <1>11, LeadsBetween
<1>16. Leads(h, bdd.root, y)
  BY <1>3, <1>9, <1>12, <1>14, LeadsOn
<1>17. Leads(h, bdd.root, n)
  BY <1>3, <1>9, <1>15, <1>16, LeadsOn
<1>18. GoesRound(m, c, n, a, u, h)
  BY <1>1, <1>9, <1>11, <1>12, <1>13, <1>17 DEF GoesRound
<1> QED
  BY <1>18

\* The only valuation kept that takes the value c of m, and goes on to exit z
TakesShort(m, c, n, z, g) ==
  /\ g \in [CondIndexes -> BOOLEAN] /\ z \in Exits
  /\ Leads(g, bdd.root, m) /\ ValueAt(g, m) = c
  /\ Leads(g, bdd.root, n) /\ Leads(g, bdd.root, z)

\* The valuations kept: those that do not evaluate m, those that go round to n
\* or end as g does, and g
Kept(m, c, n, z, g) ==
  {e \in [CondIndexes -> BOOLEAN] :
     \/ ~Leads(e, bdd.root, m)
     \/ ValueAt(e, m) = (~c) /\ (Leads(e, bdd.root, n) \/ Leads(e, bdd.root, z))
     \/ e = g}

LEMMA ShortTaken ==
  ASSUME PathIInv, Completed, NEW m, NEW c, NEW n, NEW y, NEW x, Diamond(m, c, n, y, x),
         NEW z \in Exits, CanLead(x, z)
  PROVE  \E g : TakesShort(m, c, n, z, g)
<1>1. /\ IsConditionNode(m) /\ IsConditionNode(n) /\ x \in PathNodes /\ c \in BOOLEAN
      /\ vec[m].dests[c] = n /\ CanLead(n, x)
  BY DEF Diamond
<1>2. m \in PathNodes /\ n \in PathNodes /\ bdd.root \in PathNodes /\ z \in PathNodes
  BY <1>1, CompletedFinal DEF IsConditionNode, FinalBDD, IsExit
<1>3. CanLead(n, z)
  BY <1>1, <1>2, CanLeadOn
<1>4. PICK u \in [CondIndexes -> BOOLEAN] : Leads(u, n, z)
  BY <1>3 DEF CanLead
<1>5. PICK a \in [CondIndexes -> BOOLEAN] : Leads(a, bdd.root, m) /\ ValueAt(a, m) = c
  BY <1>1, ValueTaken
<1>6. Pos(m) < Pos(n) /\ Pos(m) \in Nat /\ Pos(n) \in Nat /\ Pos(m) = NodeIndex(m)
      /\ NodeIndex(m) \in CondIndexes
  BY <1>1, <1>2, CanLeadEdge, PosType
<1>7. PICK g \in [CondIndexes -> BOOLEAN] :
        \A i \in CondIndexes : IF i < Pos(n) THEN g[i] = a[i] ELSE g[i] = u[i]
  BY <1>6, Spliced
<1>8. LastCondIndex \in Nat /\ CondIndexes \subseteq Nat
  BY LastIndexNatural DEF CondIndexes
<1>9. \A i \in CondIndexes : /\ i < Pos(m) => a[i] = g[i]
                             /\ Pos(n) <= i => u[i] = g[i]
                             /\ i = Pos(m) => a[i] = g[i]
  BY <1>6, <1>7, <1>8
<1>10. Leads(g, bdd.root, m)
  BY <1>2, <1>5, <1>9, LeadsBefore
<1>11. ValueAt(a, m) = a[NodeIndex(m)] /\ ValueAt(g, m) = g[NodeIndex(m)]
  BY <1>1, LeadsEdge
<1>12. ValueAt(g, m) = c
  BY <1>5, <1>6, <1>9, <1>11
<1>13. Leads(g, m, n)
  <2>1. Successor(g, m) = n
    BY <1>1, <1>12 DEF Successor
  <2> QED
    BY <1>1, <2>1, LeadsEdge
<1>14. Leads(g, bdd.root, n)
  BY <1>2, <1>10, <1>13, LeadsOn
<1>15. Leads(g, n, z)
  BY <1>2, <1>4, <1>9, LeadsLater
<1>16. Leads(g, bdd.root, z)
  BY <1>2, <1>14, <1>15, LeadsOn
<1>17. TakesShort(m, c, n, z, g)
  BY <1>10, <1>12, <1>14, <1>16 DEF TakesShort
<1> QED
  BY <1>17

LEMMA VariedSymmetric ==
  ASSUME NEW r, NEW q
  PROVE  Varied(r, q) = Varied(q, r)
  BY DEF Varied

\* What a pair of evaluations shows
LEMMA PairShows ==
  ASSUME PathIInv, Completed, NEW r, NEW q, NEW i \in CondIndexes, IsMCDCPair(r, q, FALSE) = i
  PROVE  /\ r.outcome # q.outcome /\ i \in Varied(r, q)
         /\ \A k \in Varied(r, q) : k <= i
<1>1. LastCondIndex \in Nat /\ i \in Nat
  BY LastIndexNatural DEF CondIndexes
<1>2. i # NoConditionIndex
  BY <1>1 DEF NoConditionIndex
<1>3. r.outcome # q.outcome /\ Varied(r, q) # {} /\ MaxIndex(Varied(r, q)) = i
  BY <1>2, Zenon DEF IsMCDCPair
<1>4. Varied(r, q) \in SUBSET CondIndexes
  BY DEF Varied
<1> QED
  BY <1>1, <1>3, <1>4, MaxIndexFound

\* A valuation kept does not show the condition of m with g
LEMMA NotWithShort ==
  ASSUME PathIInv, Completed, NEW m, IsConditionNode(m), NEW n, IsConditionNode(n),
         Pos(m) < Pos(n), NEW c \in BOOLEAN, NEW z, NEW g, TakesShort(m, c, n, z, g),
         NEW a \in [CondIndexes -> BOOLEAN], Leads(a, bdd.root, m), ValueAt(a, m) = (~c),
         Leads(a, bdd.root, n) \/ Leads(a, bdd.root, z),
         \A k \in Varied(SourceEvaluation(a), SourceEvaluation(g)) : k <= NodeIndex(m)
  PROVE  SourceEvaluation(a).outcome = SourceEvaluation(g).outcome
<1>1. CASE Leads(a, bdd.root, z)
  <2>1. z \in Exits /\ g \in [CondIndexes -> BOOLEAN] /\ Leads(g, bdd.root, z)
    BY DEF TakesShort
  <2>2. SourceEvaluation(g).outcome = (z = ExitTrue)
    BY <2>1, OutcomeLeads
  <2>3. SourceEvaluation(a).outcome = (z = ExitTrue)
    BY <1>1, <2>1, OutcomeLeads
  <2> QED
    BY <2>2, <2>3
<1>2. CASE Leads(a, bdd.root, n)
  <2>1. g \in [CondIndexes -> BOOLEAN] /\ Leads(g, bdd.root, n)
    BY DEF TakesShort
  <2>2. /\ Pos(m) = NodeIndex(m) /\ Pos(n) = NodeIndex(n) /\ Pos(m) \in Nat /\ Pos(n) \in Nat
        /\ CondIndexes \subseteq Nat
    <3>1. m \in PathNodes /\ n \in PathNodes
      BY DEF IsConditionNode
    <3> QED
      BY <3>1, PosType DEF CondIndexes
  <2>3. Varied(SourceEvaluation(a), SourceEvaluation(g)) \subseteq CondIndexes
    BY DEF Varied
  <2>4. \A k \in Varied(SourceEvaluation(a), SourceEvaluation(g)) : k < NodeIndex(n)
    <3>1. PICK V, i, j : /\ V = Varied(SourceEvaluation(a), SourceEvaluation(g))
                         /\ i = NodeIndex(m) /\ j = NodeIndex(n)
      OBVIOUS
    <3>2. V \subseteq Nat /\ i \in Nat /\ j \in Nat /\ i < j
      BY <2>2, <2>3, <3>1
    <3>3. \A k \in V : k <= i
      BY <3>1
    <3>4. \A k \in V : k < j
      BY <3>2, <3>3
    <3> QED
      BY <3>1, <3>4
  <2> QED
    BY <1>2, <2>1, <2>4, SameOnward
<1> QED
  BY <1>1, <1>2

\* No two valuations kept show the condition of m
LEMMA NothingShown ==
  ASSUME PathIInv, Completed, NEW m, NEW c, NEW n, NEW y, NEW x, Diamond(m, c, n, y, x),
         NEW z, NEW g, TakesShort(m, c, n, z, g),
         NEW a \in Kept(m, c, n, z, g), NEW b \in Kept(m, c, n, z, g)
  PROVE  IsMCDCPair(SourceEvaluation(a), SourceEvaluation(b), FALSE) # NodeIndex(m)
<1>1. PICK i : i = NodeIndex(m)
  OBVIOUS
<1>2. IsConditionNode(m) /\ IsConditionNode(n) /\ c \in BOOLEAN /\ vec[m].dests[c] = n
  BY DEF Diamond
<1>3. Pos(m) < Pos(n)
  BY <1>2, CanLeadEdge
<1>4. i \in CondIndexes
  BY <1>1, <1>2 DEF IsConditionNode, NodeIndex
<1>5. PICK r, q : r = SourceEvaluation(a) /\ q = SourceEvaluation(b)
  OBVIOUS
<1> SUFFICES ASSUME IsMCDCPair(r, q, FALSE) = i PROVE FALSE
  BY <1>1, <1>5
<1>6. r.outcome # q.outcome /\ i \in Varied(r, q) /\ \A k \in Varied(r, q) : k <= i
  BY <1>4, PairShows
<1>7. a \in [CondIndexes -> BOOLEAN] /\ b \in [CondIndexes -> BOOLEAN]
  BY DEF Kept
<1>8. i \in Evaluated(a) /\ i \in Evaluated(b) /\ a[i] # b[i]
  BY <1>5, <1>6, <1>7, VariedConditions DEF SourceEvaluation
<1>9. Leads(a, bdd.root, m) /\ Leads(b, bdd.root, m)
  BY <1>1, <1>2, <1>7, <1>8, EvaluatedLeads
<1>10. ValueAt(a, m) = a[i] /\ ValueAt(b, m) = b[i]
  BY <1>1, <1>2, <1>7, LeadsEdge
<1>11. \A e \in Kept(m, c, n, z, g) :
         /\ e = g => ValueAt(e, m) = c
         /\ Leads(e, bdd.root, m) /\ ValueAt(e, m) # c =>
              ValueAt(e, m) = (~c) /\ (Leads(e, bdd.root, n) \/ Leads(e, bdd.root, z))
         /\ Leads(e, bdd.root, m) /\ ValueAt(e, m) = c => e = g
  BY <1>2 DEF Kept, TakesShort
<1>12. CASE ValueAt(b, m) = c
  <2>1. b = g
    BY <1>9, <1>11, <1>12
  <2>2. ValueAt(a, m) # c
    BY <1>8, <1>10, <1>12
  <2>3. ValueAt(a, m) = (~c) /\ (Leads(a, bdd.root, n) \/ Leads(a, bdd.root, z))
    BY <1>9, <1>11, <2>2
  <2>4. \A k \in Varied(SourceEvaluation(a), SourceEvaluation(g)) : k <= NodeIndex(m)
    BY <1>1, <1>5, <1>6, <2>1
  <2>5. SourceEvaluation(a).outcome = SourceEvaluation(g).outcome
    BY <1>2, <1>3, <1>7, <1>9, <2>3, <2>4, NotWithShort
  <2> QED
    BY <1>5, <1>6, <2>1, <2>5
<1>13. CASE ValueAt(b, m) # c
  <2>1. ValueAt(b, m) = (~c) /\ (Leads(b, bdd.root, n) \/ Leads(b, bdd.root, z))
    BY <1>9, <1>11, <1>13
  <2>2. ValueAt(a, m) # (~c) /\ ValueAt(a, m) \in BOOLEAN
    BY <1>2, <1>7, <1>8, <1>10, <2>1, LeadsEdge
  <2>3. ValueAt(a, m) = c
    BY <1>2, <2>2
  <2>4. a = g
    BY <1>9, <1>11, <2>3
  <2>5. Varied(q, r) = Varied(r, q)
    BY VariedSymmetric
  <2>6. \A k \in Varied(SourceEvaluation(b), SourceEvaluation(g)) : k <= NodeIndex(m)
    BY <1>1, <1>5, <1>6, <2>4, <2>5
  <2>7. SourceEvaluation(b).outcome = SourceEvaluation(g).outcome
    BY <1>2, <1>3, <1>7, <1>9, <2>1, <2>6, NotWithShort
  <2> QED
    BY <1>5, <1>6, <2>4, <2>7
<1> QED
  BY <1>12, <1>13

\* Branch v of node q is taken by a valuation kept
BranchKept(m, c, n, z, g, q, v) ==
  \E e \in Kept(m, c, n, z, g) : Leads(e, bdd.root, q) /\ ValueAt(e, q) = v

LEMMA RoundKept ==
  ASSUME NEW m, NEW c, NEW n, NEW z, NEW g, NEW a, NEW u, NEW h, GoesRound(m, c, n, a, u, h)
  PROVE  h \in Kept(m, c, n, z, g)
  BY DEF GoesRound, Kept

\* ... before m, or at m
LEMMA KeptBefore ==
  ASSUME PathIInv, Completed, NEW m, NEW c, NEW n, NEW y, NEW x, Diamond(m, c, n, y, x),
         NEW z, NEW g, TakesShort(m, c, n, z, g),
         NEW q, IsConditionNode(q), NEW v \in BOOLEAN,
         NEW a \in [CondIndexes -> BOOLEAN], Leads(a, bdd.root, m), Leads(a, bdd.root, q),
         ValueAt(a, q) = v, Pos(q) < Pos(m) \/ q = m
  PROVE  BranchKept(m, c, n, z, g, q, v)
<1>1. IsConditionNode(m) /\ c \in BOOLEAN /\ m \in PathNodes /\ q \in PathNodes
      /\ bdd.root \in PathNodes
  BY CompletedFinal DEF Diamond, IsConditionNode, FinalBDD
<1>2. CASE q = m /\ v = c
  <2>1. g \in Kept(m, c, n, z, g) /\ Leads(g, bdd.root, m) /\ ValueAt(g, m) = c
    BY DEF TakesShort, Kept
  <2> QED
    BY <1>2, <2>1 DEF BranchKept
<1>3. CASE q = m /\ v # c
  <2>1. PICK h : GoesRound(m, c, n, a, a, h)
    BY WayRound
  <2>2. Leads(h, bdd.root, m) /\ ValueAt(h, m) = (~c)
    BY <2>1 DEF GoesRound
  <2>3. v = (~c)
    BY <1>1, <1>3
  <2> QED
    BY <1>3, <2>1, <2>2, <2>3, RoundKept DEF BranchKept
<1>4. CASE Pos(q) < Pos(m)
  <2>1. PICK h : GoesRound(m, c, n, a, a, h)
    BY WayRound
  <2>2. h \in [CondIndexes -> BOOLEAN] /\ \A i \in CondIndexes : i < Pos(m) => a[i] = h[i]
    BY <2>1 DEF GoesRound
  <2>3. /\ Pos(q) \in Nat /\ Pos(m) \in Nat /\ NodeIndex(q) \in CondIndexes
        /\ Pos(q) = NodeIndex(q) /\ CondIndexes \subseteq Nat
    BY <1>1, PosType DEF CondIndexes
  <2>4. \A i \in CondIndexes : i < Pos(q) => a[i] = h[i]
    BY <1>4, <2>2, <2>3
  <2>5. Leads(h, bdd.root, q)
    BY <1>1, <2>2, <2>4, LeadsBefore
  <2>6. ValueAt(h, q) = h[NodeIndex(q)] /\ ValueAt(a, q) = a[NodeIndex(q)]
    BY <2>2, LeadsEdge
  <2>7. ValueAt(h, q) = v
    BY <1>4, <2>2, <2>3, <2>6
  <2> QED
    BY <2>1, <2>5, <2>7, RoundKept DEF BranchKept
<1> QED
  BY <1>2, <1>3, <1>4

\* The value of a condition is kept with that of its index
LEMMA SameValueAt ==
  ASSUME PathIInv, Completed, NEW q, IsConditionNode(q), NEW a \in [CondIndexes -> BOOLEAN],
         NEW h \in [CondIndexes -> BOOLEAN], a[NodeIndex(q)] = h[NodeIndex(q)]
  PROVE  ValueAt(a, q) = ValueAt(h, q)
  BY LeadsEdge

\* ... after n, whichever way n is reached
LEMMA KeptAfter ==
  ASSUME PathIInv, Completed, NEW m, NEW c, NEW n, NEW y, NEW x, Diamond(m, c, n, y, x),
         NEW z, NEW g, NEW q, IsConditionNode(q), NEW v \in BOOLEAN,
         NEW a \in [CondIndexes -> BOOLEAN], Leads(a, bdd.root, m),
         NEW u \in [CondIndexes -> BOOLEAN], Leads(u, n, q), ValueAt(u, q) = v
  PROVE  BranchKept(m, c, n, z, g, q, v)
<1>1. /\ IsConditionNode(n) /\ n \in PathNodes /\ q \in PathNodes /\ bdd.root \in PathNodes
  BY CompletedFinal DEF Diamond, IsConditionNode, FinalBDD
<1>2. PICK h : GoesRound(m, c, n, a, u, h)
  BY WayRound
<1>3. /\ h \in [CondIndexes -> BOOLEAN] /\ Leads(h, bdd.root, n)
      /\ \A i \in CondIndexes : i >= Pos(n) => h[i] = u[i]
  BY <1>2 DEF GoesRound
<1>4. Pos(n) <= Pos(q)
  BY <1>1, LeadsUp
<1>5. /\ Pos(n) \in Nat /\ Pos(q) \in Nat /\ NodeIndex(q) \in CondIndexes
      /\ Pos(q) = NodeIndex(q) /\ CondIndexes \subseteq Nat
  BY <1>1, PosType DEF CondIndexes
<1>6. \A i \in CondIndexes : Pos(n) <= i => u[i] = h[i]
  BY <1>3, <1>5
<1>7. Leads(h, n, q)
  BY <1>1, <1>3, <1>6, LeadsLater
<1>8. Leads(h, bdd.root, q)
  BY <1>1, <1>3, <1>7, LeadsOn
<1>9. u[NodeIndex(q)] = h[NodeIndex(q)]
  BY <1>4, <1>5, <1>6
<1>10. ValueAt(h, q) = v
  BY <1>3, <1>9, SameValueAt
<1> QED
  BY <1>2, <1>8, <1>10, RoundKept DEF BranchKept

\* ... away from n, before x: the path can be ended as g does
LEMMA KeptAside ==
  ASSUME PathIInv, Completed, NEW m, NEW c, NEW n, NEW y, NEW x, Diamond(m, c, n, y, x),
         NEW z \in Exits, CanLead(x, z), NEW g, NEW q, IsConditionNode(q), NEW v \in BOOLEAN,
         NEW a \in [CondIndexes -> BOOLEAN], Leads(a, bdd.root, m), ValueAt(a, m) = (~c),
         Leads(a, bdd.root, q), ValueAt(a, q) = v, Leads(a, bdd.root, x), Pos(q) < Pos(x)
  PROVE  BranchKept(m, c, n, z, g, q, v)
<1>1. /\ IsConditionNode(m) /\ m \in PathNodes /\ q \in PathNodes /\ bdd.root \in PathNodes
      /\ x \in PathNodes /\ z \in PathNodes /\ IsConditionNode(n) /\ n \in PathNodes
      /\ vec[m].dests[c] = n /\ c \in BOOLEAN /\ Pos(n) < Pos(x)
  BY CompletedFinal DEF Diamond, IsConditionNode, FinalBDD, IsExit
<1>2. PICK u \in [CondIndexes -> BOOLEAN] : Leads(u, x, z)
  BY DEF CanLead
<1>3. /\ Pos(q) \in Nat /\ Pos(x) \in Nat /\ Pos(m) \in Nat /\ Pos(n) \in Nat
      /\ NodeIndex(q) \in CondIndexes /\ NodeIndex(m) \in CondIndexes
      /\ Pos(q) = NodeIndex(q) /\ Pos(m) = NodeIndex(m) /\ CondIndexes \subseteq Nat
  BY <1>1, PosType DEF CondIndexes
<1>4. Pos(m) < Pos(x)
  <2>1. Pos(m) < Pos(n)
    BY <1>1, CanLeadEdge
  <2> QED
    BY <1>1, <1>3, <2>1
<1>5. PICK h \in [CondIndexes -> BOOLEAN] :
        \A i \in CondIndexes : IF i < Pos(x) THEN h[i] = a[i] ELSE h[i] = u[i]
  BY <1>3, Spliced
<1>6. \A i \in CondIndexes : /\ i < Pos(x) => a[i] = h[i]
                             /\ Pos(x) <= i => u[i] = h[i]
  BY <1>3, <1>5
<1>7. \A i \in CondIndexes : /\ i < Pos(m) => a[i] = h[i]
                             /\ i < Pos(q) => a[i] = h[i]
  BY <1>3, <1>4, <1>6
<1>8. Leads(h, bdd.root, m) /\ Leads(h, bdd.root, q) /\ Leads(h, bdd.root, x)
  BY <1>1, <1>6, <1>7, LeadsBefore
<1>9. Leads(h, x, z)
  BY <1>1, <1>2, <1>6, LeadsLater
<1>10. Leads(h, bdd.root, z)
  BY <1>1, <1>8, <1>9, LeadsOn
<1>11. a[NodeIndex(m)] = h[NodeIndex(m)] /\ a[NodeIndex(q)] = h[NodeIndex(q)]
  BY <1>3, <1>4, <1>6
<1>12. ValueAt(h, m) = (~c) /\ ValueAt(h, q) = v
  BY <1>1, <1>11, SameValueAt
<1>13. h \in Kept(m, c, n, z, g)
  BY <1>10, <1>12 DEF Kept
<1> QED
  BY <1>8, <1>12, <1>13 DEF BranchKept

\* Every branch is taken
LEMMA EveryBranchKept ==
  ASSUME PathIInv, Completed, NEW m, NEW c, NEW n, NEW y, NEW x, Diamond(m, c, n, y, x),
         NEW z \in Exits, CanLead(x, z), NEW g, TakesShort(m, c, n, z, g),
         NEW q, IsConditionNode(q), NEW v \in BOOLEAN
  PROVE  BranchKept(m, c, n, z, g, q, v)
<1>1. PICK a \in [CondIndexes -> BOOLEAN] : Leads(a, bdd.root, q) /\ ValueAt(a, q) = v
  BY ValueTaken
<1>2. CASE ~Leads(a, bdd.root, m)
  BY <1>1, <1>2 DEF Kept, BranchKept
<1>3. CASE Leads(a, bdd.root, m)
  <2>1. PICK b \in BOOLEAN : b = (~c)
    BY DEF Diamond
  <2>2. /\ IsConditionNode(m) /\ IsConditionNode(n) /\ IsConditionNode(y) /\ c \in BOOLEAN
        /\ m \in PathNodes /\ n \in PathNodes /\ y \in PathNodes /\ x \in PathNodes
        /\ q \in PathNodes /\ bdd.root \in PathNodes
        /\ vec[m].dests[c] = n /\ vec[m].dests[b] = y
    BY <2>1, CompletedFinal DEF Diamond, IsConditionNode, FinalBDD
  <2>3. Pos(q) \in Nat /\ Pos(m) \in Nat /\ Pos(x) \in Nat /\ Pos(n) \in Nat
    BY <2>2, PosType
  <2>4. CASE Pos(q) < Pos(m) \/ q = m
    BY <1>1, <1>3, <2>4, KeptBefore
  <2>5. CASE ~(Pos(q) < Pos(m) \/ q = m)
    <3>1. Pos(m) <= Pos(q)
      BY <2>3, <2>5
    <3>2. Leads(a, m, q)
      BY <1>1, <1>3, <2>2, <3>1, LeadsOrder
    <3>3. Leads(a, Successor(a, m), q)
      <4>1. Followed(a, Follow(a))
        BY FollowChosen
      <4> QED
        BY <2>2, <2>5, <3>2, <4>1, ReachFromCondition DEF Leads
    <3>4. ValueAt(a, m) = c \/ ValueAt(a, m) = b
      <4>1. ValueAt(a, m) \in BOOLEAN
        BY <2>2, LeadsEdge
      <4> QED
        BY <2>1, <2>2, <4>1
    <3>5. CASE ValueAt(a, m) = c
      <4>1. Successor(a, m) = n
        BY <2>2, <3>5 DEF Successor
      <4>2. Leads(a, n, q)
        BY <3>3, <4>1
      <4> QED
        BY <1>1, <1>3, <4>2, KeptAfter
    <3>6. CASE ValueAt(a, m) = b
      <4>1. Successor(a, m) = y
        BY <2>2, <3>6 DEF Successor
      <4>2. Leads(a, m, y)
        BY <2>2, <4>1, LeadsEdge
      <4>3. Leads(a, bdd.root, y)
        BY <1>3, <2>2, <4>2, LeadsOn
      <4>4. CASE Leads(a, y, n)
        <5>1. Leads(a, bdd.root, n)
          BY <2>2, <4>3, <4>4, LeadsOn
        <5>2. a \in Kept(m, c, n, z, g)
          BY <2>1, <3>6, <5>1 DEF Kept
        <5> QED
          BY <1>1, <5>2 DEF BranchKept
      <4>5. CASE Leads(a, y, x)
        <5>1. Leads(a, bdd.root, x)
          BY <2>2, <4>3, <4>5, LeadsOn
        <5>2. CASE Pos(q) < Pos(x)
          <6>1. ValueAt(a, m) = (~c)
            BY <2>1, <3>6
          <6> QED
            BY <1>1, <1>3, <5>1, <5>2, <6>1, KeptAside
        <5>3. CASE Pos(x) <= Pos(q)
          <6>1. Leads(a, x, q)
            BY <1>1, <2>2, <5>1, <5>3, LeadsOrder
          <6>2. PICK w \in [CondIndexes -> BOOLEAN] : Leads(w, n, x)
            BY DEF Diamond, CanLead
          <6>3. PICK u \in [CondIndexes -> BOOLEAN] :
                  \A i \in CondIndexes : IF i < Pos(x) THEN u[i] = w[i] ELSE u[i] = a[i]
            BY <2>3, Spliced
          <6>4. /\ NodeIndex(q) \in CondIndexes /\ Pos(q) = NodeIndex(q)
                /\ CondIndexes \subseteq Nat
            BY <2>2, PosType DEF CondIndexes
          <6>5. \A i \in CondIndexes : /\ i < Pos(x) => w[i] = u[i]
                                       /\ Pos(x) <= i => a[i] = u[i]
            BY <2>3, <6>3, <6>4
          <6>6. Leads(u, n, x)
            BY <2>2, <6>2, <6>5, LeadsBefore
          <6>7. Leads(u, x, q)
            BY <2>2, <6>1, <6>5, LeadsLater
          <6>8. Leads(u, n, q)
            BY <2>2, <6>6, <6>7, LeadsOn
          <6>9. a[NodeIndex(q)] = u[NodeIndex(q)]
            BY <5>3, <6>4, <6>5
          <6>10. ValueAt(u, q) = v
            BY <1>1, <6>9, SameValueAt
          <6> QED
            BY <1>3, <6>8, <6>10, KeptAfter
        <5> QED
          BY <2>3, <5>2, <5>3
      <4> QED
        BY <4>4, <4>5 DEF Diamond
    <3> QED
      BY <3>4, <3>5, <3>6
  <2> QED
    BY <2>4, <2>5
<1> QED
  BY <1>2, <1>3

\* With a multipath condition, some evaluations take every branch and do not
\* achieve MC/DC
LEMMA MultipathNotEnough ==
  ASSUME PathIInv, VisitsTraced, Completed, NoneStatic, bdd.firstMultipath # 0
  PROVE  \E evs \in BranchCovering : MCDCState(evs, FALSE) # "Covered"
<1>1. PICK m, c, n, y, x : Diamond(m, c, n, y, x)
  BY DiamondFound
<1>2. PICK z \in Exits : CanLead(x, z)
  BY <1>1, SomeExit DEF Diamond
<1>3. PICK g : TakesShort(m, c, n, z, g)
  BY <1>1, <1>2, ShortTaken
<1>4. PICK K : K = Kept(m, c, n, z, g)
  OBVIOUS
<1>5. K \subseteq Environments
  BY <1>4, AllEnvironments DEF Kept
<1>6. PICK evs : evs = {SourceEvaluation(e) : e \in K}
  OBVIOUS
<1>7. evs \in SUBSET Evaluations
  BY <1>5, <1>6 DEF Evaluations
<1>8. ASSUME NEW i \in CondIndexes, NEW b \in BOOLEAN
      PROVE  \E ev \in evs : ev.values[i] = ToTristate(b)
  <2>1. PICK q : IsConditionNode(q) /\ NodeIndex(q) = i
    BY NodeOfIndex
  <2>2. PICK e \in K : Leads(e, bdd.root, q) /\ ValueAt(e, q) = b
    BY <1>1, <1>2, <1>3, <1>4, <2>1, EveryBranchKept DEF BranchKept
  <2>3. e \in [CondIndexes -> BOOLEAN]
    BY <1>4, <2>2 DEF Kept
  <2>4. i \in Evaluated(e) /\ e[i] = b
    BY <2>1, <2>2, <2>3, EvaluatedLeads, LeadsEdge
  <2>5. SourceEvaluation(e).values[i] = ToTristate(b)
    BY <2>3, <2>4, ReferenceValues DEF SourceEvaluation
  <2> QED
    BY <1>6, <2>2, <2>5
<1>9. evs \in BranchCovering
  BY <1>7, <1>8 DEF BranchCovering
<1>10. NodeIndex(m) \in CondIndexes
  BY <1>1 DEF Diamond, IsConditionNode, NodeIndex
<1>11. NodeIndex(m) \notin Independent(evs, FALSE)
  <2> SUFFICES ASSUME NodeIndex(m) \in Independent(evs, FALSE) PROVE FALSE
    OBVIOUS
  <2>0. PICK p \in evs \X evs : IsMCDCPair(p[1], p[2], FALSE) = NodeIndex(m)
    BY DEF Independent
  <2>1. PICK r \in evs, q \in evs : IsMCDCPair(r, q, FALSE) = NodeIndex(m)
    BY <2>0
  <2>2. PICK a \in K, b \in K : r = SourceEvaluation(a) /\ q = SourceEvaluation(b)
    BY <1>6, <2>1
  <2> QED
    BY <1>1, <1>3, <1>4, <2>1, <2>2, NothingShown
<1>12. MCDCState(evs, FALSE) # "Covered"
  BY <1>10, <1>11 DEF MCDCState
<1> QED
  BY <1>9, <1>12
----------------------------------------------------------------------------
(* With no multipath condition, every branch is enough.                    *)

\* From each condition, both outcomes can be reached
LEMMA BothOutcomes ==
  ASSUME PathIInv, Completed
  PROVE  \A n \in PathNodes : IsConditionNode(n) => \A z \in Exits : CanLead(n, z)
<1>1. PICK P : P = {n \in PathNodes : IsConditionNode(n) => \A z \in Exits : CanLead(n, z)}
  OBVIOUS
<1>2. FinalBDD
  BY CompletedFinal
<1>3. NodeRank \in [PathNodes -> Nat]
  BY <1>2 DEF FinalBDD
<1>4. ASSUME NEW n \in PathNodes, \A y \in PathNodes : NodeRank[y] < NodeRank[n] => y \in P
      PROVE  n \in P
  <2> SUFFICES ASSUME IsConditionNode(n), NEW z \in Exits PROVE CanLead(n, z)
    BY <1>1
  <2>1. z \in PathNodes
    BY <1>2 DEF FinalBDD, IsExit
  <2>2. \A b \in BOOLEAN : /\ vec[n].dests[b] \in PathNodes /\ CanLead(n, vec[n].dests[b])
                           /\ NodeRank[vec[n].dests[b]] < NodeRank[n]
    BY CanLeadEdge DEF IsConditionNode
  <2>3. ASSUME NEW b \in BOOLEAN, IsConditionNode(vec[n].dests[b])
        PROVE  CanLead(n, z)
    <3>1. PICK y : y = vec[n].dests[b]
      OBVIOUS
    <3>2. y \in PathNodes /\ CanLead(n, y) /\ y \in P
      BY <1>4, <2>2, <2>3, <3>1
    <3>3. CanLead(y, z)
      BY <1>1, <2>3, <3>1, <3>2
    <3> QED
      BY <2>1, <3>2, <3>3, CanLeadOn
  <2>4. CASE \A b \in BOOLEAN : ~IsConditionNode(vec[n].dests[b])
    <3>1. PICK t, f : t = vec[n].dests[TRUE] /\ f = vec[n].dests[FALSE]
      OBVIOUS
    <3>2. t # f
      BY <3>1, ConditionsReached
    <3>3. t \in PathNodes /\ f \in PathNodes /\ CanLead(n, t) /\ CanLead(n, f)
      BY <2>2, <3>1
    <3>4. IsExit(t) /\ IsExit(f)
      BY <1>2, <2>4, <3>1, <3>3 DEF FinalBDD
    <3>5. z = t \/ z = f
      BY <3>2, <3>4 DEF IsExit, Exits
    <3> QED
      BY <3>3, <3>5
  <2> QED
    BY <2>3, <2>4
<1>5. PathNodes \subseteq P
  BY <1>3, <1>4, RankInduction
<1> QED
  BY <1>1, <1>5

\* The last branch on the way to an exit
LEMMA LastBranch ==
  ASSUME PathIInv, Completed, NEW n, IsConditionNode(n), NEW z \in Exits
  PROVE  \E e \in [CondIndexes -> BOOLEAN] : \E q :
           /\ Leads(e, bdd.root, n) /\ Leads(e, n, q) /\ Leads(e, bdd.root, q)
           /\ IsConditionNode(q) /\ Successor(e, q) = z
<1>1. n \in PathNodes /\ bdd.root \in PathNodes /\ z \in PathNodes /\ n \notin Exits
  BY CompletedFinal DEF IsConditionNode, FinalBDD, IsExit
<1>2. CanLead(n, z) /\ CanLead(bdd.root, n)
  BY <1>1, BothOutcomes, ConditionsReached
<1>3. PICK u \in [CondIndexes -> BOOLEAN] : Leads(u, n, z)
  BY <1>2 DEF CanLead
<1>4. PICK a \in [CondIndexes -> BOOLEAN] : Leads(a, bdd.root, n)
  BY <1>2 DEF CanLead
<1>5. Pos(n) \in Nat /\ CondIndexes \subseteq Nat
  BY <1>1, PosType DEF CondIndexes
<1>6. PICK e \in [CondIndexes -> BOOLEAN] :
        \A i \in CondIndexes : IF i < Pos(n) THEN e[i] = a[i] ELSE e[i] = u[i]
  BY <1>5, Spliced
<1>7. \A i \in CondIndexes : /\ i < Pos(n) => a[i] = e[i]
                             /\ Pos(n) <= i => u[i] = e[i]
  BY <1>5, <1>6
<1>8. Leads(e, bdd.root, n) /\ Leads(e, n, z)
  BY <1>1, <1>3, <1>4, <1>7, LeadsBefore, LeadsLater
<1>9. Followed(e, Follow(e))
  BY FollowChosen
<1>10. z # n
  BY <1>1
<1>11. \E q : IsConditionNode(q) /\ Reaches(Follow(e), n, q) /\ Successor(e, q) = z
  BY <1>1, <1>8, <1>9, <1>10, Predecessor DEF Leads
<1>12. PICK q : IsConditionNode(q) /\ Leads(e, n, q) /\ Successor(e, q) = z
  BY <1>11 DEF Leads
<1>13. q \in PathNodes
  BY <1>12 DEF IsConditionNode
<1>14. Leads(e, bdd.root, q)
  BY <1>1, <1>8, <1>12, <1>13, LeadsOn
<1> QED
  BY <1>8, <1>12, <1>14

\* The values before node q, of the evaluations that reach it, are the same
LEMMA SameBefore ==
  ASSUME PathIInv, VisitsTraced, Completed, NoneStatic, bdd.firstMultipath = 0,
         NEW a \in [CondIndexes -> BOOLEAN], NEW b \in [CondIndexes -> BOOLEAN],
         NEW k \in Evaluated(a), k \in Evaluated(b), NEW i \in CondIndexes, i < k
  PROVE  SourceEvaluation(a).values[i] = SourceEvaluation(b).values[i]
<1>1. k \in CondIndexes /\ LastCondIndex \in Nat
  BY EvaluatedIndexes, LastIndexNatural
<1>2. i \in 0..(k - 1)
  BY <1>1 DEF CondIndexes
<1>3. a \in Environments /\ b \in Environments
  BY AllEnvironments
<1>4. PICK q : IsConditionNode(q) /\ NodeIndex(q) = k
  BY <1>1, NodeOfIndex
<1>5. PICK s : s = vec[q].csco
  OBVIOUS
<1>6. s \in Conditions /\ sco[s].index = k
  BY <1>4, <1>5 DEF IsConditionNode, NodeIndex
<1>7. Prefix(a, s) = Prefix(b, s)
  <2>1. InferValues(s) = Prefix(a, s)
    BY <1>3, <1>6, InferredPrefix
  <2>2. InferValues(s) = Prefix(b, s)
    BY <1>3, <1>6, InferredPrefix
  <2> QED
    BY <2>1, <2>2
<1>8. Prefix(a, s)[i] = ReferenceEvaluation(a).values[i]
  BY <1>2, <1>6 DEF Prefix
<1>9. Prefix(b, s)[i] = ReferenceEvaluation(b).values[i]
  BY <1>2, <1>6 DEF Prefix
<1> QED
  BY <1>7, <1>8, <1>9 DEF SourceEvaluation

\* The valuations whose evaluations are in evs
From(evs) == {e \in [CondIndexes -> BOOLEAN] : SourceEvaluation(e) \in evs}

LEMMA BranchTaken ==
  ASSUME PathIInv, Completed, NoneStatic, NEW evs \in BranchCovering,
         NEW q, IsConditionNode(q), NEW v \in BOOLEAN
  PROVE  \E e \in From(evs) : Leads(e, bdd.root, q) /\ ValueAt(e, q) = v
<1>1. PICK i \in CondIndexes : i = NodeIndex(q)
  BY DEF IsConditionNode, NodeIndex
<1>2. PICK ev \in evs : ev.values[i] = ToTristate(v)
  BY DEF BranchCovering
<1>3. evs \subseteq Evaluations
  BY DEF BranchCovering
<1>4. PICK e \in Environments : ev = SourceEvaluation(e)
  BY <1>2, <1>3 DEF Evaluations
<1>5. e \in [CondIndexes -> BOOLEAN]
  BY AllEnvironments
<1>6. e \in From(evs)
  BY <1>2, <1>4, <1>5 DEF From
<1>7. ReferenceEvaluation(e).values[i] = ToTristate(v) /\ ToTristate(v) # "Unknown"
  BY <1>2, <1>4 DEF SourceEvaluation, ToTristate
<1>8. i \in Evaluated(e) /\ ToTristate(e[i]) = ToTristate(v)
  BY <1>5, <1>7, ReferenceValues
<1>9. e[i] \in BOOLEAN
  BY <1>5
<1>10. e[i] = v
  BY <1>8, <1>9, TristateOne
<1> QED
  BY <1>1, <1>5, <1>6, <1>8, <1>10, EvaluatedLeads, LeadsEdge

\* ... and, with no multipath condition, from a condition to each outcome
LEMMA OutcomeTaken ==
  ASSUME PathIInv, VisitsTraced, Completed, NoneStatic, bdd.firstMultipath = 0,
         NEW evs \in BranchCovering, NEW n, IsConditionNode(n), NEW z \in Exits
  PROVE  \E e \in From(evs) : NodeIndex(n) \in Evaluated(e) /\ Leads(e, bdd.root, z)
<1>0. PICK a \in [CondIndexes -> BOOLEAN] :
        \E q : /\ Leads(a, bdd.root, n) /\ Leads(a, n, q) /\ Leads(a, bdd.root, q)
              /\ IsConditionNode(q) /\ Successor(a, q) = z
  BY LastBranch
<1>1. PICK q : /\ Leads(a, bdd.root, n) /\ Leads(a, n, q) /\ Leads(a, bdd.root, q)
               /\ IsConditionNode(q) /\ Successor(a, q) = z
  BY <1>0
<1>2. PICK v \in BOOLEAN : v = ValueAt(a, q)
  BY <1>1, LeadsEdge
<1>3. PICK e \in From(evs) : Leads(e, bdd.root, q) /\ ValueAt(e, q) = v
  BY <1>1, BranchTaken
<1>4. e \in [CondIndexes -> BOOLEAN]
  BY DEF From
<1>5. n \in PathNodes /\ q \in PathNodes /\ bdd.root \in PathNodes /\ z \in PathNodes
  BY <1>1, CompletedFinal DEF IsConditionNode, FinalBDD, IsExit
<1>6. Successor(e, q) = z
  BY <1>1, <1>2, <1>3 DEF Successor
<1>7. Leads(e, q, z)
  BY <1>1, <1>4, <1>6, LeadsEdge
<1>8. Leads(e, bdd.root, z)
  BY <1>3, <1>4, <1>5, <1>7, LeadsOn
<1>9. NodeIndex(q) \in Evaluated(e) /\ NodeIndex(q) \in Evaluated(a)
      /\ NodeIndex(n) \in Evaluated(a)
  BY <1>1, <1>3, <1>4, EvaluatedLeads
<1>10. NodeIndex(n) \in Evaluated(e)
  <2>1. CASE q = n
    BY <1>9, <2>1
  <2>2. CASE q # n
    <3>1. NodeIndex(n) < NodeIndex(q) /\ NodeIndex(n) \in CondIndexes
      <4>1. Pos(n) <= Pos(q) /\ Pos(n) # Pos(q)
        BY <1>1, <1>5, <2>2, LeadsUp
      <4>2. /\ Pos(n) = NodeIndex(n) /\ Pos(q) = NodeIndex(q) /\ NodeIndex(n) \in CondIndexes
            /\ Pos(n) \in Nat /\ Pos(q) \in Nat
        BY <1>1, <1>5, PosType
      <4> QED
        BY <4>1, <4>2
    <3>2. SourceEvaluation(a).values[NodeIndex(n)] = SourceEvaluation(e).values[NodeIndex(n)]
      BY <1>4, <1>9, <3>1, SameBefore
    <3> QED
      BY <1>4, <1>9, <3>1, <3>2, ReferenceValues DEF SourceEvaluation
  <2> QED
    BY <2>1, <2>2
<1> QED
  BY <1>8, <1>10

\* With no multipath condition, two evaluations that give a condition different
\* values and have different outcomes vary in it only, so that they show it
LEMMA ShowsOnly ==
  ASSUME PathIInv, VisitsTraced, Completed, NoneStatic, bdd.firstMultipath = 0,
         NEW a \in [CondIndexes -> BOOLEAN], NEW b \in [CondIndexes -> BOOLEAN],
         NEW i \in Evaluated(a), i \in Evaluated(b), a[i] # b[i],
         SourceEvaluation(a).outcome # SourceEvaluation(b).outcome
  PROVE  IsMCDCPair(SourceEvaluation(a), SourceEvaluation(b), FALSE) = i
<1>1. PICK V : V = Varied(SourceEvaluation(a), SourceEvaluation(b))
  OBVIOUS
<1>2. V = {k \in Evaluated(a) \cap Evaluated(b) : a[k] # b[k]}
  BY <1>1, VariedConditions DEF SourceEvaluation
<1>3. Evaluated(a) \subseteq CondIndexes /\ Evaluated(b) \subseteq CondIndexes
  BY EvaluatedIndexes
<1>4. LastCondIndex \in Nat /\ CondIndexes \subseteq Nat
  BY LastIndexNatural DEF CondIndexes
<1>5. ASSUME NEW k \in Evaluated(a), k \in Evaluated(b), NEW h \in Evaluated(a), h \in Evaluated(b),
             h < k
      PROVE  a[h] = b[h]
  <2>1. SourceEvaluation(a).values[h] = SourceEvaluation(b).values[h]
    BY <1>3, <1>5, SameBefore
  <2>2. ToTristate(a[h]) = ToTristate(b[h])
    BY <1>3, <1>5, <2>1, ReferenceValues DEF SourceEvaluation
  <2>3. a[h] \in BOOLEAN /\ b[h] \in BOOLEAN
    BY <1>3, <1>5
  <2> QED
    BY <2>2, <2>3, TristateOne
<1>6. ASSUME NEW k \in V, k # i PROVE FALSE
  <2>1. k \in Evaluated(a) /\ k \in Evaluated(b) /\ a[k] # b[k] /\ k \in Nat /\ i \in Nat
    BY <1>2, <1>3, <1>4
  <2>2. k < i \/ i < k
    BY <1>6, <2>1
  <2> QED
    BY <1>5, <2>1, <2>2
<1>7. i \in V
  BY <1>2
<1>8. V \in SUBSET CondIndexes /\ V # {}
  BY <1>2, <1>3, <1>7
<1>9. MaxIndex(V) \in V
  BY <1>4, <1>8, MaxIndexFound
<1>10. MaxIndex(V) = i
  BY <1>6, <1>9
<1>11. MaxIndex(Varied(SourceEvaluation(a), SourceEvaluation(b))) = i
  BY <1>1, <1>10
<1>12. Varied(SourceEvaluation(a), SourceEvaluation(b)) # {}
  BY <1>1, <1>8
<1> QED
  BY <1>11, <1>12, Zenon DEF IsMCDCPair

\* Two evaluations of evs show condition i
LEMMA PairInSet ==
  ASSUME NEW evs, NEW r \in evs, NEW q \in evs, NEW i, IsMCDCPair(r, q, FALSE) = i,
         i # NoConditionIndex
  PROVE  i \in Independent(evs, FALSE)
<1>1. PICK p : p = <<r, q>>
  OBVIOUS
<1>2. p \in evs \X evs /\ p[1] = r /\ p[2] = q
  BY <1>1
<1>3. IsMCDCPair(p[1], p[2], FALSE) = i
  BY <1>2
<1> QED
  BY <1>2, <1>3 DEF Independent

LEMMA EveryConditionShown ==
  ASSUME PathIInv, VisitsTraced, Completed, NoneStatic, bdd.firstMultipath = 0,
         NEW evs \in BranchCovering, NEW i \in CondIndexes
  PROVE  i \in Independent(evs, FALSE)
<1>1. PICK n : IsConditionNode(n) /\ NodeIndex(n) = i
  BY NodeOfIndex
<1>2. PICK t \in From(evs) : Leads(t, bdd.root, n) /\ ValueAt(t, n) = TRUE
  BY <1>1, BranchTaken
<1>3. PICK f \in From(evs) : Leads(f, bdd.root, n) /\ ValueAt(f, n) = FALSE
  BY <1>1, BranchTaken
<1>4. \A e \in From(evs) : e \in [CondIndexes -> BOOLEAN] /\ SourceEvaluation(e) \in evs
  BY DEF From
<1>5. i \in Evaluated(t) /\ i \in Evaluated(f)
  BY <1>1, <1>2, <1>3, <1>4, EvaluatedLeads
<1>6. t[i] = TRUE /\ f[i] = FALSE
  BY <1>1, <1>2, <1>3, <1>4, LeadsEdge
<1>7. i # NoConditionIndex
  BY LastIndexNatural DEF CondIndexes, NoConditionIndex
<1>8. ASSUME NEW a \in From(evs), NEW b \in From(evs), i \in Evaluated(a), i \in Evaluated(b),
             a[i] # b[i], SourceEvaluation(a).outcome # SourceEvaluation(b).outcome
      PROVE  i \in Independent(evs, FALSE)
  <2>1. IsMCDCPair(SourceEvaluation(a), SourceEvaluation(b), FALSE) = i
    BY <1>4, <1>8, ShowsOnly
  <2> QED
    BY <1>4, <1>7, <1>8, <2>1, PairInSet
<1>9. CASE SourceEvaluation(t).outcome # SourceEvaluation(f).outcome
  BY <1>5, <1>6, <1>8, <1>9
<1>10. CASE SourceEvaluation(t).outcome = SourceEvaluation(f).outcome
  <2>1. ExitTrue \in Exits /\ ExitFalse \in Exits /\ ExitTrue # ExitFalse
    BY DEF ExitTrue, ExitFalse, Exits
  <2>2. PICK x \in From(evs) : i \in Evaluated(x) /\ Leads(x, bdd.root, ExitTrue)
    BY <1>1, <2>1, OutcomeTaken
  <2>3. PICK y \in From(evs) : i \in Evaluated(y) /\ Leads(y, bdd.root, ExitFalse)
    BY <1>1, <2>1, OutcomeTaken
  <2>4. SourceEvaluation(x).outcome = TRUE
    BY <1>4, <2>1, <2>2, OutcomeLeads
  <2>5. SourceEvaluation(y).outcome = FALSE
    BY <1>4, <2>1, <2>3, OutcomeLeads
  <2>6. PICK w \in From(evs) : /\ i \in Evaluated(w)
                               /\ SourceEvaluation(w).outcome # SourceEvaluation(t).outcome
    <3>1. SourceEvaluation(x).outcome # SourceEvaluation(y).outcome
      BY <2>4, <2>5
    <3> QED
      BY <2>2, <2>3, <3>1
  <2>7. w[i] \in BOOLEAN
    BY <1>4
  <2>8. CASE w[i] # t[i]
    BY <1>5, <1>8, <2>6, <2>8
  <2>9. CASE w[i] = t[i]
    <3>1. w[i] # f[i]
      BY <1>6, <2>9
    <3>2. SourceEvaluation(w).outcome # SourceEvaluation(f).outcome
      BY <1>10, <2>6
    <3> QED
      BY <1>5, <1>8, <2>6, <3>1, <3>2
  <2> QED
    BY <2>8, <2>9
<1> QED
  BY <1>9, <1>10

\* First_Multipath_Condition is set exactly when some evaluations can take
\* every branch of the BDD without achieving masking MC/DC: with none, object
\* branch coverage is enough
THEOREM BranchCoverageEnough == Spec => []BranchCoverageImpliesMCDC
<1>1. ASSUME PathIInv, VisitsTraced, Completed, NoneStatic
      PROVE  ~HasMultipathCondition <=> \A evs \in BranchCovering : MCDCState(evs, FALSE) = "Covered"
  <2>1. CASE bdd.firstMultipath # 0
    <3>1. \E evs \in BranchCovering : MCDCState(evs, FALSE) # "Covered"
      BY <1>1, <2>1, MultipathNotEnough
    <3> QED
      BY <2>1, <3>1 DEF HasMultipathCondition
  <2>2. CASE bdd.firstMultipath = 0
    <3>1. ASSUME NEW evs \in BranchCovering PROVE MCDCState(evs, FALSE) = "Covered"
      <4>1. CondIndexes \subseteq Independent(evs, FALSE)
        BY <1>1, <2>2, <3>1, EveryConditionShown
      <4> QED
        BY <4>1 DEF MCDCState
    <3> QED
      BY <2>2, <3>1 DEF HasMultipathCondition
  <2> QED
    BY <2>1, <2>2
<1>2. PathIInv /\ VisitsTraced => BranchCoverageImpliesMCDC
  BY <1>1 DEF BranchCoverageImpliesMCDC, NoneStatic
<1> QED
  BY <1>2, PathInvariance, VisitInvariance, PTL

----------------------------------------------------------------------------
(* The design of the path indexes: where its edges lead.                   *)

\* One step of Destinations
DestinationStep(f, s) ==
  LET p == sco[s].parent
      left == sco[p].kind = "Operator" /\ Operand(p, "Left") = s
  IN  CASE sco[p].kind = "Decision" -> [b \in BOOLEAN |-> Outcome(b)]
        [] sco[p].kind = "Operator" /\ sco[p].op = "Not" ->
              [b \in BOOLEAN |-> f[p][~b]]
        [] left /\ sco[p].op = "AndThen" ->
              [f[p] EXCEPT ![TRUE] = Placeholder(p)]
        [] left /\ sco[p].op = "OrElse" ->
              [f[p] EXCEPT ![FALSE] = Placeholder(p)]
        [] OTHER -> f[p]

Outcomes == [b \in BOOLEAN |-> Outcome(b)]
Swapped(g) == [b \in BOOLEAN |-> g[~b]]
Redirected(g, k, n) == [g EXCEPT ![k] = n]

LEMMA DestinationSteps ==
  ASSUME FinalTree, NEW f, NEW s \in SCOs, NEW p, p = sco[s].parent
  PROVE  /\ p = Decision => DestinationStep(f, s) = Outcomes
         /\ IsNegation(p) => DestinationStep(f, s) = Swapped(f[p])
         /\ IsShortCircuit(p) /\ s = sco[p].operands["Left"] =>
              DestinationStep(f, s) = Redirected(f[p], ~DecidingValue(p), Placeholder(p))
         /\ IsShortCircuit(p) /\ s # sco[p].operands["Left"] => DestinationStep(f, s) = f[p]
<1>1. ASSUME p = Decision PROVE DestinationStep(f, s) = Outcomes
  <2>1. sco[p].kind = "Decision"
    BY <1>1 DEF FinalTree
  <2> QED
    BY <2>1 DEF DestinationStep, Outcomes
<1>2. ASSUME IsNegation(p) PROVE DestinationStep(f, s) = Swapped(f[p])
  <2>1. sco[p].kind = "Operator" /\ sco[p].op = "Not"
    BY <1>2 DEF IsNegation
  <2> QED
    BY <2>1 DEF DestinationStep, Swapped
<1>3. ASSUME IsShortCircuit(p), s = sco[p].operands["Left"]
      PROVE  DestinationStep(f, s) = Redirected(f[p], ~DecidingValue(p), Placeholder(p))
  <2>1. sco[p].kind = "Operator" /\ sco[p].op \in {"AndThen", "OrElse"}
    BY <1>3 DEF IsShortCircuit
  <2>2. CASE sco[p].op = "AndThen"
    <3>1. (~DecidingValue(p)) = TRUE
      BY <2>2 DEF DecidingValue
    <3>2. DestinationStep(f, s) = [f[p] EXCEPT ![TRUE] = Placeholder(p)]
      BY <1>3, <2>1, <2>2 DEF DestinationStep, Operand
    <3> QED
      BY <3>1, <3>2 DEF Redirected
  <2>3. CASE sco[p].op = "OrElse"
    <3>1. (~DecidingValue(p)) = FALSE
      BY <2>3 DEF DecidingValue
    <3>2. DestinationStep(f, s) = [f[p] EXCEPT ![FALSE] = Placeholder(p)]
      BY <1>3, <2>1, <2>3 DEF DestinationStep, Operand
    <3> QED
      BY <3>1, <3>2 DEF Redirected
  <2> QED
    BY <2>1, <2>2, <2>3
<1>4. ASSUME IsShortCircuit(p), s # sco[p].operands["Left"] PROVE DestinationStep(f, s) = f[p]
  <2>1. sco[p].kind = "Operator" /\ sco[p].op # "Not"
    BY <1>4 DEF IsShortCircuit
  <2> QED
    BY <1>4, <2>1 DEF DestinationStep, Operand
<1> QED
  BY <1>1, <1>2, <1>3, <1>4

\* The edges that lead to s, from those that lead to what it is an operand of
LEMMA DestinationType ==
  ASSUME FinalTree, NEW f \in [SCOs -> [BOOLEAN -> Int]], NEW s \in SCOs
  PROVE  DestinationStep(f, s) \in [BOOLEAN -> Int]
<1>1. PICK p : p = sco[s].parent
  OBVIOUS
<1>2. CASE p = Decision
  <2>1. Outcomes \in [BOOLEAN -> Int]
    BY DEF Outcome, Outcomes
  <2>2. DestinationStep(f, s) = Outcomes
    BY <1>1, <1>2, DestinationSteps
  <2> QED
    BY <2>1, <2>2
<1>3. CASE p \in SCOs
  <2>1. f[p] \in [BOOLEAN -> Int] /\ Placeholder(p) \in Int
    BY <1>3 DEF FinalTree, Placeholder
  <2>2. IsNegation(p) \/ IsShortCircuit(p)
    BY <1>1, <1>3, ParentOf DEF Decision, SCOs, FinalTree
  <2>3. CASE IsNegation(p)
    <3>1. Swapped(f[p]) \in [BOOLEAN -> Int]
      BY <2>1 DEF Swapped
    <3> QED
      BY <1>1, <2>1, <2>3, <3>1, DestinationSteps
  <2>4. CASE IsShortCircuit(p)
    <3>1. PICK k \in BOOLEAN : k = ~DecidingValue(p)
      BY DEF DecidingValue
    <3>2. PICK z \in Int : z = Placeholder(p)
      BY <2>1
    <3>3. Redirected(f[p], k, z) \in [BOOLEAN -> Int]
      BY <2>1 DEF Redirected
    <3> QED
      BY <1>1, <2>1, <2>4, <3>1, <3>2, <3>3, DestinationSteps
  <2> QED
    BY <2>2, <2>3, <2>4
<1> QED
  BY <1>1, <1>2, <1>3 DEF FinalTree

LEMMA DestinationFunction ==
  ASSUME FinalTree
  PROVE  /\ Destinations \in [SCOs -> [BOOLEAN -> Int]]
         /\ \A s \in SCOs : Destinations[s] = DestinationStep(Destinations, s)
<1>1. PICK S, B, rank, V : S = SCOs /\ B = Len(sco) /\ rank = SCORank /\ V = [BOOLEAN -> Int]
  OBVIOUS
<1>2. B \in Nat /\ rank \in [S -> 0..B]
  BY <1>1 DEF FinalTree, SCORank, SCOs
<1>3. ASSUME NEW f, NEW g, NEW s \in S,
             \A y \in S : rank[y] < rank[s] => f[y] = g[y]
      PROVE  DestinationStep(f, s) = DestinationStep(g, s)
  <2>1. PICK p : p = sco[s].parent
    OBVIOUS
  <2>2. CASE p = Decision
    BY <1>1, <2>1, <2>2, DestinationSteps
  <2>3. CASE p \in SCOs
    <3>1. p < s /\ (IsNegation(p) \/ IsShortCircuit(p))
      BY <1>1, <2>1, <2>3, ParentOf DEF Decision, SCOs, FinalTree
    <3>2. f[p] = g[p]
      BY <1>1, <1>3, <2>3, <3>1 DEF SCORank
    <3>3. CASE IsNegation(p)
      BY <1>1, <2>1, <3>2, <3>3, DestinationSteps
    <3>4. CASE IsShortCircuit(p)
      BY <1>1, <2>1, <3>2, <3>4, DestinationSteps
    <3> QED
      BY <3>1, <3>3, <3>4
  <2> QED
    BY <1>1, <2>1, <2>2, <2>3 DEF FinalTree
<1>4. PICK G : G = [f \in [S -> V] |-> [s \in S |-> DestinationStep(f, s)]]
  OBVIOUS
<1>5. LooksBelow(G, S, V, rank)
  <2>1. G \in [[S -> V] -> [S -> V]]
    BY <1>1, <1>4, DestinationType
  <2>2. \A f, g \in [S -> V], s \in S :
          (\A y \in S : rank[y] < rank[s] => f[y] = g[y]) => G[f][s] = G[g][s]
    BY <1>3, <1>4
  <2> QED
    BY <2>1, <2>2 DEF LooksBelow
<1>6. PICK v \in V : TRUE
  <2>1. [b \in BOOLEAN |-> 0] \in V
    BY <1>1
  <2> QED
    BY <2>1
<1>7. PICK f \in [S -> V] : f = G[f]
  BY <1>2, <1>5, <1>6, RankRecursion
<1>8. f = [s \in S |-> DestinationStep(f, s)]
  BY <1>4, <1>7
<1>9. PICK g : g = CHOOSE h : h = [s \in S |-> DestinationStep(h, s)]
  OBVIOUS
<1>10. g = [s \in S |-> DestinationStep(g, s)]
  BY <1>8, <1>9
<1>11. Destinations = g
  BY <1>1, <1>9, Zenon DEF Destinations, DestinationStep, SCOs
<1>12. g \in [S -> V]
  <2>1. PICK P : P = {s \in S : g[s] \in V}
    OBVIOUS
  <2>2. ASSUME NEW s \in S, \A y \in S : rank[y] < rank[s] => y \in P PROVE s \in P
    <3>1. PICK h : h = [y \in S |-> IF y \in P THEN g[y] ELSE v]
      OBVIOUS
    <3>2. h \in [S -> V] /\ \A y \in S : rank[y] < rank[s] => h[y] = g[y]
      BY <2>1, <2>2, <3>1
    <3>3. DestinationStep(g, s) = DestinationStep(h, s)
      BY <1>3, <3>2
    <3>4. DestinationStep(h, s) \in V
      BY <1>1, <3>2, DestinationType
    <3>5. g[s] = DestinationStep(g, s)
      BY <1>10
    <3> QED
      BY <2>1, <3>3, <3>4, <3>5
  <2>3. rank \in [S -> Nat]
    BY <1>2
  <2>4. S \subseteq P
    BY <2>2, <2>3, RankInduction
  <2>5. \A s \in S : g[s] \in V
    BY <2>1, <2>4
  <2> QED
    BY <1>10, <2>5
<1> QED
  BY <1>1, <1>10, <1>11, <1>12

\* One step of FirstCondition
FirstStep(f, s) ==
  IF sco[s].kind = "Condition" THEN s
  ELSE IF sco[s].op = "Not" THEN f[Operand(s, "Right")]
  ELSE f[Operand(s, "Left")]

LEMMA FirstSteps ==
  ASSUME NEW f, NEW s
  PROVE  /\ IsLeaf(s) => FirstStep(f, s) = s
         /\ IsNegation(s) => FirstStep(f, s) = f[sco[s].operands["Right"]]
         /\ IsShortCircuit(s) => FirstStep(f, s) = f[sco[s].operands["Left"]]
BY DEF FirstStep, Operand, IsLeaf, IsNegation, IsShortCircuit

LEMMA FirstFunction ==
  ASSUME FinalTree
  PROVE  \A s \in SCOs : FirstCondition[s] = FirstStep(FirstCondition, s)
<1>1. PICK S, B, rank : S = SCOs /\ B = Len(sco) /\ rank = HeightBound
  OBVIOUS
<1>2. B \in Nat /\ rank \in [S -> 0..B]
  BY <1>1 DEF FinalTree
<1>3. ASSUME NEW f \in [S -> S], NEW s \in S PROVE FirstStep(f, s) \in S
  <2>1. \A x : Child(s, x) => f[x] \in S
    BY <1>1, <1>3 DEF Child
  <2>2. CASE IsLeaf(s)
    BY <1>3, <2>2, FirstSteps
  <2>3. CASE IsNegation(s)
    BY <2>1, <2>3, FirstSteps DEF IsNegation
  <2>4. CASE IsShortCircuit(s)
    BY <2>1, <2>4, FirstSteps DEF IsShortCircuit
  <2> QED
    BY <1>1, <2>2, <2>3, <2>4 DEF FinalTree
<1>4. ASSUME NEW f, NEW g, NEW s \in S, \A y \in S : rank[y] < rank[s] => f[y] = g[y]
      PROVE  FirstStep(f, s) = FirstStep(g, s)
  <2>1. \A x : Child(s, x) => f[x] = g[x]
    BY <1>1, <1>4 DEF Child, FinalTree
  <2>2. CASE IsLeaf(s)
    BY <2>2, FirstSteps
  <2>3. CASE IsNegation(s)
    BY <2>1, <2>3, FirstSteps DEF IsNegation
  <2>4. CASE IsShortCircuit(s)
    BY <2>1, <2>4, FirstSteps DEF IsShortCircuit
  <2> QED
    BY <1>1, <2>2, <2>3, <2>4 DEF FinalTree
<1>5. PICK G : G = [f \in [S -> S] |-> [s \in S |-> FirstStep(f, s)]]
  OBVIOUS
<1>6. LooksBelow(G, S, S, rank)
  <2>1. G \in [[S -> S] -> [S -> S]]
    BY <1>3, <1>5
  <2>2. \A f, g \in [S -> S], s \in S :
          (\A y \in S : rank[y] < rank[s] => f[y] = g[y]) => G[f][s] = G[g][s]
    BY <1>4, <1>5
  <2> QED
    BY <2>1, <2>2 DEF LooksBelow
<1>7. PICK f \in [S -> S] : f = G[f]
  <2>1. sco[Decision].expr \in S
    BY <1>1 DEF FinalTree
  <2> QED
    BY <1>2, <1>6, <2>1, RankRecursion
<1>8. f = [s \in S |-> FirstStep(f, s)]
  BY <1>5, <1>7
<1>9. PICK g : g = CHOOSE h : h = [s \in S |-> FirstStep(h, s)]
  OBVIOUS
<1>10. g = [s \in S |-> FirstStep(g, s)]
  BY <1>8, <1>9
<1>11. FirstCondition = g
  BY <1>1, <1>9, Zenon DEF FirstCondition, FirstStep, SCOs
<1> QED
  BY <1>1, <1>10, <1>11

\* The condition evaluated first is that of the node that a subexpression
\* starts from
LEMMA FirstConditions ==
  ASSUME PathIInv, Completed, NEW d, NEW o, NEW j, FinalShape(d, o, j)
  PROVE  \A s \in SCOs : FirstCondition[s] = vec[Entry(o, s)].csco
<1>0. FinalTree
  BY CompletedFinal
<1>1. PICK P : P = {s \in SCOs : FirstCondition[s] = vec[Entry(o, s)].csco}
  OBVIOUS
<1>2. ASSUME NEW s \in SCOs, \A y \in SCOs : HeightBound[y] < HeightBound[s] => y \in P
      PROVE  s \in P
  <2>1. \A x : Child(s, x) => FirstCondition[x] = vec[Entry(o, x)].csco
    BY <1>0, <1>1, <1>2 DEF Child, FinalTree
  <2>2. FirstCondition[s] = FirstStep(FirstCondition, s)
    BY <1>0, FirstFunction
  <2>3. CASE IsLeaf(s)
    <3>1. vec[Entry(o, s)].csco = s
      BY <2>3 DEF FinalShape
    <3> QED
      BY <1>1, <2>2, <2>3, <3>1, FirstSteps
  <2>4. CASE IsNegation(s)
    <3>1. PICK x : x = sco[s].operands["Right"]
      OBVIOUS
    <3>2. Child(s, x) /\ Entry(o, x) = Entry(o, s)
      BY <2>4, <3>1, OperandPlaces DEF IsNegation, NegationPlaced
    <3>3. FirstCondition[s] = FirstCondition[x]
      BY <2>2, <2>4, <3>1, FirstSteps
    <3> QED
      BY <1>1, <2>1, <3>2, <3>3
  <2>5. CASE IsShortCircuit(s)
    <3>1. PICK x : x = sco[s].operands["Left"]
      OBVIOUS
    <3>2. Child(s, x) /\ Entry(o, x) = Entry(o, s)
      BY <2>5, <3>1, OperandPlaces DEF IsShortCircuit, SplitPlaced
    <3>3. FirstCondition[s] = FirstCondition[x]
      BY <2>2, <2>5, <3>1, FirstSteps
    <3> QED
      BY <1>1, <2>1, <3>2, <3>3
  <2> QED
    BY <1>0, <2>3, <2>4, <2>5 DEF FinalTree
<1>3. HeightBound \in [SCOs -> Nat]
  BY <1>0 DEF FinalTree
<1>4. SCOs \subseteq P
  BY <1>2, <1>3, RankInduction
<1> QED
  BY <1>1, <1>4

\* The node that the prototype names: an outcome or a condition
LEMMA NamedNode ==
  ASSUME PathIInv, Completed, NEW n
  PROVE  /\ IsExit(n) => /\ Named(n) = Outcome(n = ExitTrue) /\ IsOutcome(Named(n))
                         /\ OutcomeValue(Named(n)) = (n = ExitTrue)
         /\ IsConditionNode(n) => /\ Named(n) = vec[n].csco /\ Named(n) \in Conditions
                                  /\ Named(n) \in SCOs /\ ~IsOutcome(Named(n))
                                  /\ Substituted(Named(n)) = Named(n)
         /\ IsExit(n) => Substituted(Named(n)) = Named(n)
<1>1. FinalTree
  BY CompletedFinal
<1>2. ASSUME IsExit(n)
      PROVE  /\ Named(n) = Outcome(n = ExitTrue) /\ IsOutcome(Named(n))
             /\ OutcomeValue(Named(n)) = (n = ExitTrue)
             /\ Substituted(Named(n)) = Named(n)
  <2>1. Named(n) = Outcome(n = ExitTrue)
    BY <1>2 DEF Named, IsExit
  <2>2. \A b \in BOOLEAN : /\ IsOutcome(Outcome(b)) /\ OutcomeValue(Outcome(b)) = b
                           /\ Substituted(Outcome(b)) = Outcome(b)
    BY <1>1 DEF IsOutcome, Outcome, OutcomeValue, Substituted, FinalTree
  <2>3. (n = ExitTrue) \in BOOLEAN
    OBVIOUS
  <2> QED
    BY <2>1, <2>2, <2>3
<1>3. ASSUME IsConditionNode(n)
      PROVE  /\ Named(n) = vec[n].csco /\ Named(n) \in Conditions
             /\ Named(n) \in SCOs /\ ~IsOutcome(Named(n))
             /\ Substituted(Named(n)) = Named(n)
  <2>1. PICK c : c = vec[n].csco
    OBVIOUS
  <2>2. Named(n) = c /\ c \in Conditions
    BY <1>3, <2>1 DEF Named, IsConditionNode
  <2>3. c \in 1..Len(sco) /\ sco[c].kind = "Condition"
    BY <2>2 DEF Conditions
  <2>4. c \in SCOs
    BY <1>1, <2>3 DEF SCOs, FinalTree, Decision
  <2>5. ~IsOutcome(c) /\ Substituted(c) = c
    BY <1>1, <2>4 DEF IsOutcome, Substituted, SCOs, FinalTree
  <2> QED
    BY <2>1, <2>2, <2>4, <2>5
<1> QED
  BY <1>2, <1>3

\* Where Destinations leads, once its placeholders are replaced
ExitNamed(d, s) ==
  \A b \in BOOLEAN : Substituted(Destinations[s][b]) = Named(Exit(d, s, b))

LEMMA DestinationPlaces ==
  ASSUME PathIInv, Completed, NEW d, NEW o, NEW j, FinalShape(d, o, j)
  PROVE  \A s \in SCOs : ExitNamed(d, s)
<1>0. FinalTree /\ FinalBDD
  BY CompletedFinal
<1>1. PICK P : P = {s \in SCOs : ExitNamed(d, s)}
  OBVIOUS
<1>2. ASSUME NEW s \in SCOs, \A y \in SCOs : SCORank[y] < SCORank[s] => y \in P
      PROVE  s \in P
  <2>1. PICK p : p = sco[s].parent
    OBVIOUS
  <2>2. PICK f : f = Destinations
    OBVIOUS
  <2>3. f[s] = DestinationStep(f, s) /\ f \in [SCOs -> [BOOLEAN -> Int]]
    BY <1>0, <2>2, DestinationFunction
  <2>0. /\ Decision \notin SCOs
        /\ \/ p = Decision /\ s = sco[Decision].expr
           \/ /\ p \in SCOs /\ p < s
              /\ \/ IsNegation(p) /\ s = sco[p].operands["Right"]
                 \/ IsShortCircuit(p) /\ s = sco[p].operands["Left"]
                 \/ IsShortCircuit(p) /\ s = sco[p].operands["Right"]
    <3>1. Decision \notin SCOs
      BY <1>0 DEF SCOs, Decision, FinalTree
    <3> QED
      BY <1>0, <2>1, <3>1, ParentOf
  <2>4. CASE p = Decision
    <3>1. s = sco[Decision].expr
      BY <2>0, <2>4
    <3>2. f[s] = Outcomes
      BY <1>0, <2>1, <2>3, <2>4, DestinationSteps
    <3>3. ASSUME NEW b \in BOOLEAN PROVE Substituted(f[s][b]) = Named(Exit(d, s, b))
      <4>1. PICK n : n = Exit(d, s, b)
        OBVIOUS
      <4>2. n = IF b THEN ExitTrue ELSE ExitFalse
        BY <3>1, <4>1, ExpressionPlace
      <4>3. n \in Exits /\ (n = ExitTrue) = b
        BY <4>2 DEF Exits, ExitTrue, ExitFalse
      <4>4. IsExit(n)
        BY <1>0, <4>3 DEF FinalBDD
      <4>5. Named(n) = Outcome(b) /\ Substituted(Named(n)) = Named(n)
        BY <4>3, <4>4, NamedNode
      <4>6. f[s][b] = Outcome(b)
        BY <3>2 DEF Outcomes
      <4> QED
        BY <4>1, <4>5, <4>6
    <3> QED
      BY <1>1, <2>2, <3>3 DEF ExitNamed
  <2>5. CASE p \in SCOs
    <3>1. /\ p < s
          /\ \/ IsNegation(p) /\ s = sco[p].operands["Right"]
             \/ IsShortCircuit(p) /\ s = sco[p].operands["Left"]
             \/ IsShortCircuit(p) /\ s = sco[p].operands["Right"]
      BY <2>0, <2>5
    <3>2. ExitNamed(d, p)
      BY <1>1, <1>2, <2>5, <3>1 DEF SCORank
    <3>3. \A b \in BOOLEAN : Substituted(f[p][b]) = Named(Exit(d, p, b))
      BY <2>2, <3>2 DEF ExitNamed
    <3>4. f[p] \in [BOOLEAN -> Int]
      BY <2>3, <2>5
    <3>5. CASE IsNegation(p) /\ s = sco[p].operands["Right"]
      <4>1. \A b \in BOOLEAN : Exit(d, s, b) = Exit(d, p, ~b)
        BY <2>5, <3>5, OperandPlaces DEF NegationPlaced
      <4>2. f[s] = Swapped(f[p])
        BY <1>0, <2>1, <2>3, <3>5, DestinationSteps
      <4>3. ASSUME NEW b \in BOOLEAN PROVE Substituted(f[s][b]) = Named(Exit(d, s, b))
        <5>1. PICK k \in BOOLEAN : k = ~b
          OBVIOUS
        <5>2. f[s][b] = f[p][k] /\ Exit(d, s, b) = Exit(d, p, k)
          BY <4>1, <4>2, <5>1 DEF Swapped
        <5> QED
          BY <3>3, <5>2
      <4> QED
        BY <1>1, <2>2, <4>3 DEF ExitNamed
    <3>6. CASE IsShortCircuit(p) /\ s = sco[p].operands["Left"]
      <4>1. PICK r, k : r = sco[p].operands["Right"] /\ k = DecidingValue(p)
        OBVIOUS
      <4>2. SplitPlaced(d, o, p, s, r, k)
        BY <2>5, <3>6, <4>1, OperandPlaces
      <4>3. k \in BOOLEAN /\ r \in SCOs
        BY <4>2 DEF SplitPlaced
      <4>4. PICK h \in BOOLEAN : h = ~k
        BY <4>3
      <4>5. f[s] = Redirected(f[p], h, Placeholder(p))
        BY <1>0, <2>1, <2>3, <3>6, <4>1, <4>4, DestinationSteps
      <4>6. f[s][h] = Placeholder(p) /\ f[s][k] = f[p][k]
        BY <3>4, <4>3, <4>4, <4>5 DEF Redirected
      <4>7. Exit(d, s, k) = Exit(d, p, k) /\ Exit(d, s, h) = Entry(o, r)
        BY <4>2, <4>4 DEF SplitPlaced
      <4>8. Substituted(f[s][k]) = Named(Exit(d, s, k))
        BY <3>3, <4>3, <4>6, <4>7
      <4>9. Substituted(f[s][h]) = Named(Exit(d, s, h))
        <5>1. Substituted(Placeholder(p)) = FirstCondition[r]
          BY <1>0, <2>5, <4>1 DEF Substituted, Placeholder, Operand, FinalTree, SCOs
        <5>2. IsConditionNode(Entry(o, r))
          BY <4>3, AllRouted DEF Routed
        <5>3. Named(Entry(o, r)) = FirstCondition[r]
          BY <4>3, <5>2, FirstConditions, NamedNode
        <5> QED
          BY <4>6, <4>7, <5>1, <5>3
      <4>10. \A b \in BOOLEAN : b = k \/ b = h
        BY <4>3, <4>4
      <4> QED
        BY <1>1, <2>2, <4>8, <4>9, <4>10 DEF ExitNamed
    <3>7. CASE IsShortCircuit(p) /\ s = sco[p].operands["Right"]
      <4>1. PICK l, k : l = sco[p].operands["Left"] /\ k = DecidingValue(p)
        OBVIOUS
      <4>2. SplitPlaced(d, o, p, l, s, k)
        BY <2>5, <3>7, <4>1, OperandPlaces
      <4>3. l # s
        <5>1. k \in BOOLEAN /\ Exit(d, l, ~k) = Entry(o, s)
          BY <4>2 DEF SplitPlaced
        <5>2. PICK h \in BOOLEAN : h = ~k
          BY <5>1
        <5>3. Pos(Entry(o, s)) < Pos(Exit(d, s, h)) /\ IsConditionNode(Entry(o, s))
          BY AllRouted DEF Routed
        <5>4. Pos(Entry(o, s)) \in Nat
          BY <5>3, PosType DEF IsConditionNode
        <5> QED
          BY <5>1, <5>2, <5>3, <5>4
      <4>4. f[s] = f[p]
        BY <1>0, <2>1, <2>3, <3>7, <4>1, <4>3, DestinationSteps
      <4>5. \A b \in BOOLEAN : Exit(d, s, b) = Exit(d, p, b)
        BY <4>2 DEF SplitPlaced
      <4> QED
        BY <1>1, <2>2, <3>3, <4>4, <4>5 DEF ExitNamed
    <3> QED
      BY <3>1, <3>5, <3>6, <3>7
  <2> QED
    BY <1>0, <2>1, <2>4, <2>5 DEF FinalTree
<1>3. SCORank \in [SCOs -> Nat]
  BY <1>0 DEF SCORank, FinalTree
<1>4. SCOs \subseteq P
  BY <1>2, <1>3, RankInduction
<1> QED
  BY <1>1, <1>4

\* With no static condition, Visit counts every node
LEMMA AllCounted ==
  ASSUME PathIInv, Completed, NoneStatic, NEW n \in PathNodes
  PROVE  /\ count[n] \in Nat
         /\ IsExit(n) => count[n] = 1
         /\ IsConditionNode(n) =>
              /\ vec[n].offset = count[vec[n].dests[FALSE]]
              /\ count[n] = count[vec[n].dests[FALSE]] + count[vec[n].dests[TRUE]]
<1>0. IInv /\ FinalBDD /\ bdd.root \in PathNodes /\ IsConditionNode(bdd.root)
  <2>1. IInv /\ FinalBDD
    BY CompletedFinal DEF PathIInv
  <2> QED
    BY <2>1 DEF FinalBDD, IsConditionNode
<1>1. count \in [Ids -> Nat] /\ PathNodes \subseteq Ids
  BY <1>0 DEF IInv, TypeOK, Completed, PathNodes
<1>2. ASSUME CanLead(bdd.root, n) PROVE count[n] > 0
  <2>1. PICK e \in [CondIndexes -> BOOLEAN] : Leads(e, bdd.root, n)
    BY <1>2 DEF CanLead
  <2>2. e \in Environments
    BY <2>1, AllEnvironments
  <2>3. Followed(e, Follow(e)) /\ Reaches(Follow(e), bdd.root, n)
    BY <2>1, FollowChosen DEF Leads
  <2> QED
    BY <1>0, <2>2, <2>3, RootCounted, ReachedCounted
<1>3. ASSUME IsExit(n) PROVE count[n] = 1
  <2>1. n \in Exits /\ n \in NodesOf("Outcome")
    BY <1>3 DEF IsExit, NodesOf, PathNodes, Ids
  <2>2. CanLead(bdd.root, n)
    BY <1>0, <2>1, BothOutcomes
  <2>3. count[n] \in {0, 1}
    BY <1>0, <2>1 DEF IInv, CountedNodesAdditive, Completed
  <2> QED
    BY <1>2, <2>2, <2>3
<1>4. ASSUME IsConditionNode(n)
      PROVE  /\ vec[n].offset = count[vec[n].dests[FALSE]]
             /\ count[n] = count[vec[n].dests[FALSE]] + count[vec[n].dests[TRUE]]
  <2>1. n \in NodesOf("Condition") /\ vec[n].csco \in Conditions
    BY <1>4 DEF IsConditionNode, NodesOf, PathNodes, Ids
  <2>2. count[n] > 0
    BY <1>2, <1>4, ConditionsReached
  <2>3. Additive(n)
    BY <1>0, <2>1, <2>2 DEF IInv, CountedNodesAdditive, Completed
  <2>4. ASSUME NEW b \in BOOLEAN PROVE EdgeCount(n, b) = count[vec[n].dests[b]]
    <3>1. EdgeTaken(n, b)
      BY <2>1 DEF NoneStatic, EdgeTaken, ToTristate
    <3> QED
      BY <3>1 DEF EdgeCount
  <2> QED
    BY <2>3, <2>4 DEF Additive
<1> QED
  BY <1>1, <1>3, <1>4

\* Where the edge of a condition leads
EdgeEnd(c, b) == vec[sco[c].node].dests[b]

ConditionRank == [c \in Conditions |-> NodeRank[sco[c].node]]

\* What the prototype calls node m, that an edge of condition c leads to
NamesNext(c, x, m) ==
  /\ m \in PathNodes /\ x = Named(m)
  /\ \/ IsExit(m) /\ IsOutcome(x) /\ OutcomeValue(x) = (m = ExitTrue)
     \/ /\ IsConditionNode(m) /\ ~IsOutcome(x) /\ x \in Conditions
        /\ sco[x].node = m /\ vec[m].csco = x /\ ConditionRank[x] < ConditionRank[c]

LEMMA EdgesNamed ==
  ASSUME PathIInv, Completed, NEW c \in Conditions, NEW b \in BOOLEAN
  PROVE  NamesNext(c, Edges[c][b], EdgeEnd(c, b))
<1>0. FinalTree /\ FinalBDD /\ Shaped
  BY CompletedFinal DEF PathIInv
<1>1. PICK d, o, j : FinalShape(d, o, j)
  BY <1>0, FinalShapeFound
<1>2. PICK n, m, x : n = sco[c].node /\ m = vec[n].dests[b] /\ x = Edges[c][b]
  OBVIOUS
<1>3. IsConditionNode(n) /\ vec[n].csco = c
  BY <1>0, <1>2 DEF FinalBDD
<1>4. m \in PathNodes /\ NodeRank[m] < NodeRank[n]
  BY <1>2, <1>3, NextNode, <1>0
<1>5. c \in SCOs /\ m = Exit(d, c, b)
  BY <1>1, <1>2, <1>3, NodeLeaf
<1>6. x = Substituted(Destinations[c][b])
  BY <1>2 DEF Edges
<1>7. x = Named(m)
  BY <1>1, <1>5, <1>6, DestinationPlaces DEF ExitNamed
<1>8. CASE IsExit(m)
  BY <1>2, <1>4, <1>7, <1>8, NamedNode DEF NamesNext, EdgeEnd
<1>9. CASE IsConditionNode(m)
  <2>1. x = vec[m].csco /\ x \in Conditions /\ ~IsOutcome(x)
    BY <1>7, <1>9, NamedNode
  <2>2. sco[x].node = m
    BY <1>9, <2>1 DEF IsConditionNode
  <2>3. ConditionRank[x] < ConditionRank[c]
    BY <1>2, <1>4, <2>1, <2>2 DEF ConditionRank
  <2> QED
    BY <1>2, <1>4, <1>7, <1>9, <2>1, <2>2, <2>3 DEF NamesNext, EdgeEnd
<1> QED
  BY <1>0, <1>4, <1>8, <1>9 DEF FinalBDD

LEMMA ConditionRankType ==
  ASSUME PathIInv, Completed
  PROVE  /\ Len(vec) + 1 \in Nat /\ ConditionRank \in [Conditions -> 0..(Len(vec) + 1)]
         /\ ConditionRank \in [Conditions -> Nat]
<1>1. FinalBDD
  BY CompletedFinal
<1>2. \A c \in Conditions : sco[c].node \in PathNodes
  BY <1>1 DEF FinalBDD, IsConditionNode
<1> QED
  BY <1>1, <1>2 DEF FinalBDD, ConditionRank

\* The code starts with the condition of the root
LEMMA EntryAgrees ==
  ASSUME PathIInv, Completed
  PROVE  EntryCondition = vec[bdd.root].csco /\ EntryCondition \in Conditions
<1>0. FinalTree /\ FinalBDD /\ Shaped
  BY CompletedFinal DEF PathIInv
<1>1. PICK d, o, j : FinalShape(d, o, j)
  BY <1>0, FinalShapeFound
<1>2. PICK s : s = sco[Decision].expr
  OBVIOUS
<1>3. s \in SCOs /\ Entry(o, s) = bdd.root
  BY <1>0, <1>1, <1>2, ExpressionPlace DEF FinalTree
<1>4. EntryCondition = vec[bdd.root].csco
  BY <1>1, <1>2, <1>3, FirstConditions DEF EntryCondition
<1> QED
  BY <1>0, <1>4 DEF FinalBDD, IsConditionNode

\* One step of PathCounts
CountStep(edges, f, c) == CountFrom(f, edges[c][FALSE]) + CountFrom(f, edges[c][TRUE])

LEMMA CountFunction ==
  ASSUME PathIInv, Completed, NEW edges, edges = Edges
  PROVE  \A c \in Conditions : PathCounts(edges)[c] = CountStep(edges, PathCounts(edges), c)
<1>1. PICK S, B, rank : S = Conditions /\ B = Len(vec) + 1 /\ rank = ConditionRank
  OBVIOUS
<1>2. B \in Nat /\ rank \in [S -> 0..B]
  BY <1>1, ConditionRankType
<1>3. \A c \in S, b \in BOOLEAN :
        LET x == edges[c][b] IN IsOutcome(x) \/ (x \in S /\ rank[x] < rank[c])
  BY <1>1, EdgesNamed DEF NamesNext
<1>4. ASSUME NEW f \in [S -> Nat], NEW c \in S PROVE CountStep(edges, f, c) \in Nat
  <2>1. ASSUME NEW b \in BOOLEAN PROVE CountFrom(f, edges[c][b]) \in Nat
    BY <1>3, <1>4 DEF CountFrom
  <2>2. PICK x, y : x = CountFrom(f, edges[c][FALSE]) /\ y = CountFrom(f, edges[c][TRUE])
    OBVIOUS
  <2>3. x \in Nat /\ y \in Nat
    BY <2>1, <2>2
  <2>4. CountStep(edges, f, c) = x + y
    BY <2>2, Zenon DEF CountStep
  <2> QED
    BY <2>3, <2>4
<1>5. ASSUME NEW f, NEW g, NEW c \in S, \A y \in S : rank[y] < rank[c] => f[y] = g[y]
      PROVE  CountStep(edges, f, c) = CountStep(edges, g, c)
  <2>1. ASSUME NEW b \in BOOLEAN PROVE CountFrom(f, edges[c][b]) = CountFrom(g, edges[c][b])
    BY <1>3, <1>5 DEF CountFrom
  <2> QED
    BY <2>1 DEF CountStep
<1>6. PICK G : G = [f \in [S -> Nat] |-> [c \in S |-> CountStep(edges, f, c)]]
  OBVIOUS
<1>7. PICK V : V = Nat
  OBVIOUS
<1>8. LooksBelow(G, S, V, rank)
  <2>1. G \in [[S -> V] -> [S -> V]]
    BY <1>4, <1>6, <1>7
  <2>2. \A f, g \in [S -> V], c \in S :
          (\A y \in S : rank[y] < rank[c] => f[y] = g[y]) => G[f][c] = G[g][c]
    BY <1>5, <1>6, <1>7
  <2> QED
    BY <2>1, <2>2 DEF LooksBelow
<1>9. PICK f \in [S -> V] : f = G[f]
  <2>1. 0 \in V
    BY <1>7
  <2> QED
    BY <1>2, <1>8, <2>1, RankRecursion
<1>10. f = [c \in S |-> CountStep(edges, f, c)]
  BY <1>6, <1>7, <1>9
<1>11. PICK g : g = CHOOSE h : h = [c \in S |-> CountStep(edges, h, c)]
  OBVIOUS
<1>12. g = [c \in S |-> CountStep(edges, g, c)]
  BY <1>10, <1>11
<1>13. PathCounts(edges) = g
  BY <1>1, <1>11, Zenon DEF PathCounts, CountStep
<1> QED
  BY <1>1, <1>12, <1>13

DesignCounts == PathCounts(Edges)
DesignOffsets == Offsets(Edges, DesignCounts)
DesignCode == AdaEvalCode(Edges, DesignOffsets)

\* The paths that the prototype counts are those that Visit counts
LEMMA CountsAgree ==
  ASSUME PathIInv, Completed, NoneStatic
  PROVE  \A n \in PathNodes : CountFrom(DesignCounts, Named(n)) = count[n]
<1>0. FinalBDD
  BY CompletedFinal
<1>1. PICK P : P = {n \in PathNodes : CountFrom(DesignCounts, Named(n)) = count[n]}
  OBVIOUS
<1>2. ASSUME NEW n \in PathNodes,
             \A y \in PathNodes : NodeRank[y] < NodeRank[n] => y \in P
      PROVE  n \in P
  <2>1. CASE IsExit(n)
    BY <1>1, <2>1, NamedNode, AllCounted DEF CountFrom
  <2>2. CASE IsConditionNode(n)
    <3>1. PICK c : c = vec[n].csco
      OBVIOUS
    <3>2. c \in Conditions /\ sco[c].node = n
      BY <2>2, <3>1 DEF IsConditionNode
    <3>3. ASSUME NEW b \in BOOLEAN
          PROVE  CountFrom(DesignCounts, Edges[c][b]) = count[vec[n].dests[b]]
      <4>1. PICK m : m = vec[n].dests[b]
        OBVIOUS
      <4>2. m \in P
        BY <1>0, <1>2, <2>2, <4>1, NextNode
      <4>3. NamesNext(c, Edges[c][b], m)
        BY <3>2, <4>1, EdgesNamed DEF EdgeEnd
      <4> QED
        BY <1>1, <4>1, <4>2, <4>3 DEF NamesNext
    <3>4. DesignCounts[c] = CountStep(Edges, DesignCounts, c)
      BY <3>2, CountFunction DEF DesignCounts
    <3>5. DesignCounts[c] = count[vec[n].dests[FALSE]] + count[vec[n].dests[TRUE]]
      BY <3>3, <3>4 DEF CountStep
    <3>6. CountFrom(DesignCounts, Named(n)) = DesignCounts[c]
      BY <2>2, <3>1, NamedNode DEF CountFrom
    <3> QED
      BY <1>1, <2>2, <3>5, <3>6, AllCounted
  <2> QED
    BY <1>0, <2>1, <2>2 DEF FinalBDD
<1>3. NodeRank \in [PathNodes -> Nat]
  BY <1>0 DEF FinalBDD
<1>4. PathNodes \subseteq P
  BY <1>2, <1>3, RankInduction
<1> QED
  BY <1>1, <1>4

\* The offsets of the prototype, and the code that they make
LEMMA DesignBranches ==
  ASSUME PathIInv, Completed, NoneStatic, NEW c \in Conditions
  PROVE  /\ DesignOffsets[c] = OffsetForTrue(c)
         /\ \A b \in BOOLEAN :
              /\ DesignCode[c][b].increment = (IF b THEN OffsetForTrue(c) ELSE 0)
              /\ DesignCode[c][b].goto = Edges[c][b]
<1>1. PICK n, m : n = sco[c].node /\ m = vec[n].dests[FALSE]
  OBVIOUS
<1>2. IsConditionNode(n)
  BY <1>1, CompletedFinal DEF FinalBDD
<1>3. n \in PathNodes /\ OffsetForTrue(c) = count[m]
  <2>1. n \in PathNodes
    BY <1>2 DEF IsConditionNode
  <2> QED
    BY <1>1, <1>2, <2>1, AllCounted DEF OffsetForTrue
<1>4. NamesNext(c, Edges[c][FALSE], m)
  BY <1>1, EdgesNamed DEF EdgeEnd
<1>5. DesignOffsets[c] = CountFrom(DesignCounts, Edges[c][FALSE])
  BY DEF DesignOffsets, Offsets
<1>6. DesignOffsets[c] = OffsetForTrue(c)
  BY <1>3, <1>4, <1>5, CountsAgree DEF NamesNext
<1>7. PICK z : z = DesignOffsets
  OBVIOUS
<1>8. ASSUME NEW b \in BOOLEAN
      PROVE  DesignCode[c][b] = [increment |-> IF b THEN z[c] ELSE 0, goto |-> Edges[c][b]]
  BY <1>7 DEF DesignCode, AdaEvalCode
<1>9. ASSUME NEW b \in BOOLEAN
      PROVE  /\ DesignCode[c][b].increment = (IF b THEN OffsetForTrue(c) ELSE 0)
             /\ DesignCode[c][b].goto = Edges[c][b]
  <2>1. PICK i, x : i = (IF b THEN z[c] ELSE 0) /\ x = Edges[c][b]
    OBVIOUS
  <2>2. DesignCode[c][b] = [increment |-> i, goto |-> x]
    BY <1>8, <2>1
  <2>3. DesignCode[c][b].increment = i /\ DesignCode[c][b].goto = x
    BY <2>2
  <2> QED
    BY <1>6, <1>7, <2>1, <2>3
<1> QED
  BY <1>6, <1>9

----------------------------------------------------------------------------
(* The design of the path indexes: what its code computes.                 *)

\* One step of Call
RunStep(code, param, f, c) ==
  [index \in Nat |->
     LET branch == code[c][param[c]]
         next == index + branch.increment
     IN  IF IsOutcome(branch.goto)
         THEN [result |-> OutcomeValue(branch.goto), index |-> next]
         ELSE f[branch.goto][next]]

ResultType == [result : BOOLEAN, index : Nat]

Increment(c, b) == IF b THEN OffsetForTrue(c) ELSE 0

\* What is returned when edge x of a condition is taken with index i
Returned(f, x, i) ==
  IF IsOutcome(x) THEN [result |-> OutcomeValue(x), index |-> i] ELSE f[x][i]

LEMMA RunSteps ==
  ASSUME PathIInv, Completed, NoneStatic, NEW param \in [Conditions -> BOOLEAN], NEW f,
         NEW c \in Conditions
  PROVE  RunStep(DesignCode, param, f, c) =
           [i \in Nat |-> Returned(f, Edges[c][param[c]], i + Increment(c, param[c]))]
<1>1. PICK b \in BOOLEAN : b = param[c]
  OBVIOUS
<1>2. PICK r, x, k : r = DesignCode[c][b] /\ x = Edges[c][b] /\ k = Increment(c, b)
  OBVIOUS
<1>3. r.increment = k /\ r.goto = x
  BY <1>1, <1>2, DesignBranches DEF Increment
<1>4. RunStep(DesignCode, param, f, c) =
        [index \in Nat |->
           IF IsOutcome(r.goto)
           THEN [result |-> OutcomeValue(r.goto), index |-> index + r.increment]
           ELSE f[r.goto][index + r.increment]]
  BY <1>1, <1>2 DEF RunStep
<1>5. RunStep(DesignCode, param, f, c) = [index \in Nat |-> Returned(f, x, index + k)]
  BY <1>3, <1>4 DEF Returned
<1> QED
  BY <1>1, <1>2, <1>5

LEMMA IncrementType ==
  ASSUME PathIInv, Completed, NEW c \in Conditions, NEW b \in BOOLEAN
  PROVE  Increment(c, b) \in Nat
<1>1. OffsetForTrue(c) \in Nat
  BY CompletedFinal DEF FinalBDD, IsConditionNode, OffsetForTrue
<1> QED
  BY <1>1 DEF Increment

\* What is returned from each condition, with each index
IsRun(param, f) ==
  \A c \in Conditions, i \in Nat :
    f[c][i] = Returned(f, Edges[c][param[c]], i + Increment(c, param[c]))

LEMMA RunFunction ==
  ASSUME PathIInv, Completed, NoneStatic, NEW param \in [Conditions -> BOOLEAN]
  PROVE  \E f : IsRun(param, f) /\ Call(DesignCode, param) = f[EntryCondition][1]
<1>1. PICK S, B, rank, V, code :
        /\ S = Conditions /\ B = Len(vec) + 1 /\ rank = ConditionRank
        /\ V = [Nat -> ResultType] /\ code = DesignCode
  OBVIOUS
<1>2. B \in Nat /\ rank \in [S -> 0..B]
  BY <1>1, ConditionRankType
<1>3. ASSUME NEW c \in S
      PROVE  LET x == Edges[c][param[c]]
             IN  \/ IsOutcome(x) /\ OutcomeValue(x) \in BOOLEAN
                 \/ ~IsOutcome(x) /\ x \in S /\ rank[x] < rank[c]
  <2>1. PICK x, m : x = Edges[c][param[c]] /\ m = EdgeEnd(c, param[c])
    OBVIOUS
  <2>2. NamesNext(c, x, m)
    BY <1>1, <1>3, <2>1, EdgesNamed
  <2>3. (m = ExitTrue) \in BOOLEAN
    OBVIOUS
  <2>4. \/ IsOutcome(x) /\ OutcomeValue(x) \in BOOLEAN
        \/ ~IsOutcome(x) /\ x \in S /\ rank[x] < rank[c]
    BY <1>1, <2>2, <2>3 DEF NamesNext
  <2> QED
    BY <2>1, <2>4
<1>4. ASSUME NEW f \in [S -> V], NEW c \in S PROVE RunStep(code, param, f, c) \in V
  <2>1. PICK x, k : x = Edges[c][param[c]] /\ k = Increment(c, param[c])
    OBVIOUS
  <2>2. k \in Nat
    BY <1>1, <2>1, IncrementType
  <2>3. ASSUME NEW i \in Nat PROVE Returned(f, x, i + k) \in ResultType
    <3>1. PICK h \in Nat : h = i + k
      BY <2>2, <2>3
    <3>2. CASE IsOutcome(x)
      BY <1>3, <2>1, <3>1, <3>2 DEF Returned, ResultType
    <3>3. CASE ~IsOutcome(x)
      <4>1. f[x] \in [Nat -> ResultType]
        BY <1>1, <1>3, <2>1, <3>3
      <4> QED
        BY <3>1, <3>3, <4>1 DEF Returned
    <3> QED
      BY <3>2, <3>3
  <2>4. RunStep(code, param, f, c) = [i \in Nat |-> Returned(f, x, i + k)]
    BY <1>1, <2>1, RunSteps
  <2> QED
    BY <1>1, <2>3, <2>4
<1>5. ASSUME NEW f, NEW g, NEW c \in S, \A y \in S : rank[y] < rank[c] => f[y] = g[y]
      PROVE  RunStep(code, param, f, c) = RunStep(code, param, g, c)
  <2>1. PICK x, k : x = Edges[c][param[c]] /\ k = Increment(c, param[c])
    OBVIOUS
  <2>2. \A i : Returned(f, x, i) = Returned(g, x, i)
    BY <1>3, <1>5, <2>1 DEF Returned
  <2>3. /\ RunStep(code, param, f, c) = [i \in Nat |-> Returned(f, x, i + k)]
        /\ RunStep(code, param, g, c) = [i \in Nat |-> Returned(g, x, i + k)]
    BY <1>1, <2>1, RunSteps
  <2> QED
    BY <2>2, <2>3
<1>6. PICK G : G = [f \in [S -> V] |-> [c \in S |-> RunStep(code, param, f, c)]]
  OBVIOUS
<1>7. LooksBelow(G, S, V, rank)
  <2>1. G \in [[S -> V] -> [S -> V]]
    BY <1>4, <1>6
  <2>2. \A f, g \in [S -> V], c \in S :
          (\A y \in S : rank[y] < rank[c] => f[y] = g[y]) => G[f][c] = G[g][c]
    BY <1>5, <1>6
  <2> QED
    BY <2>1, <2>2 DEF LooksBelow
<1>8. PICK v \in V : TRUE
  <2>1. [result |-> TRUE, index |-> 0] \in ResultType
    BY DEF ResultType
  <2>2. [i \in Nat |-> [result |-> TRUE, index |-> 0]] \in V
    BY <1>1, <2>1
  <2> QED
    BY <2>2
<1>9. PICK f \in [S -> V] : f = G[f]
  <2>1. v \in V /\ B \in Nat /\ rank \in [S -> 0..B] /\ LooksBelow(G, S, V, rank)
    BY <1>2, <1>7, <1>8
  <2>2. \E h \in [S -> V] : h = G[h]
    BY <2>1, RankRecursion
  <2> QED
    BY <2>2
<1>10. f = [c \in S |-> RunStep(code, param, f, c)]
  BY <1>6, <1>9
<1>11. PICK g : g = CHOOSE h : h = [c \in S |-> RunStep(code, param, h, c)]
  OBVIOUS
<1>12. g = [c \in S |-> RunStep(code, param, g, c)]
  BY <1>10, <1>11
<1>13. Call(DesignCode, param) = g[EntryCondition][1]
  <2>1. Call(code, param) = g[EntryCondition][1]
    BY <1>1, <1>11, Zenon DEF Call, RunStep
  <2> QED
    BY <1>1, <2>1
<1>14. IsRun(param, g)
  <2>1. ASSUME NEW c \in Conditions, NEW i \in Nat
        PROVE  g[c][i] = Returned(g, Edges[c][param[c]], i + Increment(c, param[c]))
    <3>1. PICK x, k : x = Edges[c][param[c]] /\ k = Increment(c, param[c])
      OBVIOUS
    <3>2. g[c] = [l \in Nat |-> Returned(g, x, l + k)]
      <4>1. g[c] = RunStep(DesignCode, param, g, c)
        BY <1>1, <1>12
      <4> QED
        BY <3>1, <4>1, RunSteps
    <3> QED
      BY <3>1, <3>2
  <2> QED
    BY <2>1 DEF IsRun
<1> QED
  BY <1>13, <1>14

\* The code returns the value of the expression, and the path index
LEMMA CallAgrees ==
  ASSUME PathIInv, Completed, NoneStatic, NEW e \in [CondIndexes -> BOOLEAN],
         NEW param, param = [s \in Conditions |-> e[sco[s].index]]
  PROVE  Call(DesignCode, param) = [result |-> ExpressionValue(e), index |-> PathIndex(e) + 1]
<1>0. FinalBDD
  BY CompletedFinal
<1>1. \A c \in Conditions : sco[c].index \in CondIndexes
  BY <1>0 DEF FinalBDD, IsConditionNode
<1>2. param \in [Conditions -> BOOLEAN] /\ \A c \in Conditions : param[c] = e[sco[c].index]
  BY <1>1
<1>3. PICK g : IsRun(param, g) /\ Call(DesignCode, param) = g[EntryCondition][1]
  BY <1>2, RunFunction
<1>4. PICK x : IsIndex(e, x) /\ PathIndex(e) = x[bdd.root]
  BY <1>0, IndexFunction DEF IsIndex
<1>5. PICK f : IsFollowed(e, f)
  BY <1>0, FollowFunction
<1> DEFINE Right(n) ==
      \A i \in Nat : Returned(g, Named(n), i) = [result |-> f[n].outcome, index |-> i + x[n]]
<1>6. PICK P : P = {n \in PathNodes : Right(n)}
  OBVIOUS
<1>7. ASSUME NEW n \in PathNodes,
             \A y \in PathNodes : NodeRank[y] < NodeRank[n] => y \in P
      PROVE  n \in P
  <2>1. CASE IsExit(n)
    <3>1. f[n].outcome = (n = ExitTrue)
      BY <1>0, <1>5, <2>1, FollowSteps DEF IsFollowed, Nothing
    <3>2. x[n] = 0
      BY <1>0, <1>4, <2>1, IndexSteps DEF IsIndex
    <3>3. IsOutcome(Named(n)) /\ OutcomeValue(Named(n)) = (n = ExitTrue)
      BY <2>1, NamedNode
    <3>4. ASSUME NEW i \in Nat
          PROVE  Returned(g, Named(n), i) = [result |-> f[n].outcome, index |-> i + x[n]]
      BY <3>1, <3>2, <3>3 DEF Returned
    <3> QED
      BY <1>6, <3>4
  <2>2. CASE IsConditionNode(n)
    <3>1. PICK c, v, m : c = vec[n].csco /\ v = ValueAt(e, n) /\ m = vec[n].dests[v]
      OBVIOUS
    <3>2. /\ c \in Conditions /\ sco[c].node = n /\ v = param[c] /\ v \in BOOLEAN
          /\ vec[n].offset = OffsetForTrue(c) /\ vec[n].offset \in Nat
      BY <1>2, <2>2, <3>1, ValueAtType DEF IsConditionNode, ValueAt, OffsetForTrue
    <3>3. m \in P
      BY <1>0, <1>7, <2>2, <3>1, <3>2, NextNode
    <3>4. Right(m) /\ m \in PathNodes
      BY <1>6, <3>3
    <3>5. Edges[c][v] = Named(m)
      <4>1. m = EdgeEnd(c, v)
        BY <3>1, <3>2 DEF EdgeEnd
      <4>2. NamesNext(c, Edges[c][v], m)
        BY <3>2, <4>1, EdgesNamed
      <4> QED
        BY <4>2 DEF NamesNext
    <3>6. x[n] = Increment(c, v) + x[m] /\ x[m] \in Nat /\ x[n] \in Nat
      <4>1. x[n] = (IF v THEN vec[n].offset ELSE 0) + x[m]
        BY <1>0, <1>4, <2>2, <3>1, IndexSteps DEF IsIndex
      <4> QED
        BY <1>4, <3>2, <3>4, <4>1 DEF Increment, IsIndex
    <3>7. f[n].outcome = f[m].outcome
      BY <1>0, <1>5, <2>2, <3>1, FollowCondition DEF Successor
    <3>8. Named(n) = c /\ ~IsOutcome(c)
      BY <2>2, <3>1, NamedNode
    <3>9. ASSUME NEW i \in Nat
          PROVE  Returned(g, Named(n), i) = [result |-> f[n].outcome, index |-> i + x[n]]
      <4>1. PICK k : k = Increment(c, v)
        OBVIOUS
      <4>2. k \in Nat
        BY <3>2, <4>1, IncrementType
      <4>3. Returned(g, Named(n), i) = g[c][i]
        BY <3>8 DEF Returned
      <4>4. g[c][i] = Returned(g, Named(m), i + k)
        BY <1>3, <3>2, <3>5, <4>1 DEF IsRun
      <4>5. i + k \in Nat /\ (i + k) + x[m] = i + x[n]
        BY <3>6, <4>1, <4>2
      <4>6. Returned(g, Named(m), i + k) = [result |-> f[m].outcome, index |-> (i + k) + x[m]]
        BY <3>4, <4>5
      <4> QED
        BY <3>7, <4>3, <4>4, <4>5, <4>6
    <3> QED
      BY <1>6, <3>9
  <2> QED
    BY <1>0, <2>1, <2>2 DEF FinalBDD
<1>8. NodeRank \in [PathNodes -> Nat]
  BY <1>0 DEF FinalBDD
<1>9. PathNodes \subseteq P
  BY <1>7, <1>8, RankInduction
<1>10. bdd.root \in PathNodes /\ IsConditionNode(bdd.root)
  BY <1>0 DEF FinalBDD, IsConditionNode
<1>11. Right(bdd.root)
  BY <1>6, <1>9, <1>10
<1>12. EntryCondition = Named(bdd.root)
  BY <1>10, EntryAgrees, NamedNode
<1>13. ~IsOutcome(Named(bdd.root))
  BY <1>10, NamedNode
<1>14. g[EntryCondition][1] = Returned(g, Named(bdd.root), 1)
  BY <1>12, <1>13 DEF Returned
<1>15. f[bdd.root].outcome = ExpressionValue(e)
  <2>1. f[bdd.root] = ReferenceEvaluation(e)
    BY <1>5, FollowedReference
  <2>2. ReferenceEvaluation(e).outcome = ExpressionValue(e)
    BY DEF ReferenceEvaluation
  <2> QED
    BY <2>1, <2>2
<1>16. x[bdd.root] \in Nat
  BY <1>4, <1>10 DEF IsIndex
<1>17. g[EntryCondition][1] = [result |-> f[bdd.root].outcome, index |-> 1 + x[bdd.root]]
  BY <1>11, <1>14
<1>18. 1 + x[bdd.root] = PathIndex(e) + 1
  BY <1>4, <1>16
<1> QED
  BY <1>3, <1>15, <1>17, <1>18

----------------------------------------------------------------------------
(* The design of the path indexes: its tests.                              *)

TestType == [path : SUBSET (Conditions \X BOOLEAN), result : BOOLEAN]

\* The tests that start with an edge to x
TestsFrom(f, x) ==
  IF IsOutcome(x) THEN <<[path |-> {}, result |-> OutcomeValue(x)]>> ELSE f[x]

Extended(q, c, b) == [i \in DOMAIN q |-> [q[i] EXCEPT !.path = @ \cup {<<c, b>>}]]

\* One step of EnumerateTests
TestsStep(edges, f, c) ==
  LET via(b) ==
        LET node == edges[c][b]
            rest == IF IsOutcome(node)
                    THEN <<[path |-> {}, result |-> OutcomeValue(node)]>>
                    ELSE f[node]
        IN  [i \in DOMAIN rest |-> [rest[i] EXCEPT !.path = @ \cup {<<c, b>>}]]
  IN  via(FALSE) \o via(TRUE)

LEMMA TestsSteps ==
  ASSUME NEW edges, NEW f, NEW c
  PROVE  TestsStep(edges, f, c) =
           Extended(TestsFrom(f, edges[c][FALSE]), c, FALSE)
             \o Extended(TestsFrom(f, edges[c][TRUE]), c, TRUE)
BY Zenon DEF TestsStep, Extended, TestsFrom

\* q, with the edge added to each path
IsExtended(q, c, b, r) ==
  /\ r \in Seq(TestType) /\ Len(r) = Len(q)
  /\ \A i \in 1..Len(q) :
       r[i].result = q[i].result /\ r[i].path = q[i].path \cup {<<c, b>>}

LEMMA ExtendedTests ==
  ASSUME NEW q \in Seq(TestType), NEW c \in Conditions, NEW b \in BOOLEAN
  PROVE  IsExtended(q, c, b, Extended(q, c, b))
<1>1. PICK n \in Nat : n = Len(q)
  OBVIOUS
<1>2. DOMAIN q = 1..n /\ \A i \in 1..n : q[i] \in TestType
  BY <1>1
<1>3. PICK r : r = Extended(q, c, b)
  OBVIOUS
<1>4. ASSUME NEW i \in 1..n
      PROVE  r[i] \in TestType /\ r[i].result = q[i].result /\ r[i].path = q[i].path \cup {<<c, b>>}
  <2>1. PICK t \in TestType : t = q[i]
    BY <1>2
  <2>2. r[i] = [t EXCEPT !.path = @ \cup {<<c, b>>}]
    BY <1>2, <1>3, <2>1 DEF Extended
  <2>3. t.path \cup {<<c, b>>} \in SUBSET (Conditions \X BOOLEAN) /\ t.result \in BOOLEAN
    BY DEF TestType
  <2>4. r[i] = [path |-> t.path \cup {<<c, b>>}, result |-> t.result]
    BY <2>2 DEF TestType
  <2> QED
    BY <2>1, <2>3, <2>4 DEF TestType
<1>5. r = [i \in 1..n |-> r[i]]
  BY <1>2, <1>3 DEF Extended
<1>6. r \in [1..n -> TestType]
  BY <1>4, <1>5
<1>7. r \in Seq(TestType) /\ Len(r) = n
  BY <1>1, <1>6
<1> QED
  BY <1>1, <1>3, <1>4, <1>7 DEF IsExtended

\* The tests through the edge to x
LEMMA TestsJoined ==
  ASSUME NEW a \in Seq(TestType), NEW b \in Seq(TestType)
  PROVE  /\ a \o b \in Seq(TestType) /\ Len(a \o b) = Len(a) + Len(b)
         /\ \A i \in 1..Len(a) : (a \o b)[i] = a[i]
         /\ \A i \in 1..Len(b) : (a \o b)[Len(a) + i] = b[i]
         /\ \A i \in 1..Len(a \o b) :
              i \in 1..Len(a) \/ \E l \in 1..Len(b) : i = Len(a) + l
<1>1. PICK m, n : m = Len(a) /\ n = Len(b)
  OBVIOUS
<1>2. m \in Nat /\ n \in Nat /\ Len(a \o b) = m + n /\ a \o b \in Seq(TestType)
  BY <1>1
<1>3. \A i \in 1..m : (a \o b)[i] = a[i]
  BY <1>1, <1>2
<1>4. \A i \in 1..n : (a \o b)[m + i] = b[i]
  BY <1>1, <1>2
<1>5. ASSUME NEW i \in 1..(m + n) PROVE i \in 1..m \/ \E l \in 1..n : i = m + l
  <2>1. CASE i <= m
    BY <1>2, <2>1
  <2>2. CASE i > m
    <3>1. PICK l : l = i - m
      OBVIOUS
    <3>2. l \in 1..n /\ i = m + l
      BY <1>2, <2>2, <3>1
    <3> QED
      BY <3>2
  <2> QED
    BY <1>2, <2>1, <2>2
<1> QED
  BY <1>1, <1>2, <1>3, <1>4, <1>5

LEMMA TestsFromType ==
  ASSUME PathIInv, Completed, NEW f, NEW c \in Conditions, NEW b \in BOOLEAN,
         \A y \in Conditions : ConditionRank[y] < ConditionRank[c] => f[y] \in Seq(TestType)
  PROVE  TestsFrom(f, Edges[c][b]) \in Seq(TestType)
<1>1. PICK x, m : x = Edges[c][b] /\ m = EdgeEnd(c, b)
  OBVIOUS
<1>2. NamesNext(c, x, m)
  BY <1>1, EdgesNamed
<1>3. CASE IsOutcome(x)
  <2>1. PICK z \in BOOLEAN : z = (m = ExitTrue)
    OBVIOUS
  <2>2. OutcomeValue(x) = z
    BY <1>2, <1>3, <2>1 DEF NamesNext
  <2>3. [path |-> {}, result |-> z] \in TestType
    BY DEF TestType
  <2>4. TestsFrom(f, x) = <<[path |-> {}, result |-> z]>>
    BY <1>3, <2>2 DEF TestsFrom
  <2> QED
    BY <1>1, <2>3, <2>4
<1>4. CASE ~IsOutcome(x)
  BY <1>1, <1>2, <1>4 DEF NamesNext, TestsFrom
<1> QED
  BY <1>3, <1>4

IsTests(g) == \A c \in Conditions : g[c] = TestsStep(Edges, g, c)

LEMMA TestsFunction ==
  ASSUME PathIInv, Completed
  PROVE  \E g : IsTests(g) /\ EnumerateTests(Edges) = g[EntryCondition]
<1>1. PICK S, B, rank, V, edges :
        /\ S = Conditions /\ B = Len(vec) + 1 /\ rank = ConditionRank
        /\ V = Seq(TestType) /\ edges = Edges
  OBVIOUS
<1>2. B \in Nat /\ rank \in [S -> 0..B]
  BY <1>1, ConditionRankType
<1>3. ASSUME NEW f \in [S -> V], NEW c \in S PROVE TestsStep(edges, f, c) \in V
  <2>1. PICK p, q : p = TestsFrom(f, edges[c][FALSE]) /\ q = TestsFrom(f, edges[c][TRUE])
    OBVIOUS
  <2>2. p \in V /\ q \in V
    BY <1>1, <2>1, TestsFromType
  <2>3. Extended(p, c, FALSE) \in V /\ Extended(q, c, TRUE) \in V
    BY <1>1, <2>2, ExtendedTests DEF IsExtended
  <2>4. TestsStep(edges, f, c) = Extended(p, c, FALSE) \o Extended(q, c, TRUE)
    BY <2>1, TestsSteps
  <2>5. \A x, y \in V : x \o y \in V
    BY <1>1, TestsJoined
  <2> QED
    BY <2>3, <2>4, <2>5
<1>4. ASSUME NEW f, NEW g, NEW c \in S, \A y \in S : rank[y] < rank[c] => f[y] = g[y]
      PROVE  TestsStep(edges, f, c) = TestsStep(edges, g, c)
  <2>1. ASSUME NEW b \in BOOLEAN PROVE TestsFrom(f, edges[c][b]) = TestsFrom(g, edges[c][b])
    BY <1>1, <1>4, EdgesNamed DEF NamesNext, TestsFrom
  <2> QED
    BY <2>1, TestsSteps
<1>5. PICK G : G = [f \in [S -> V] |-> [c \in S |-> TestsStep(edges, f, c)]]
  OBVIOUS
<1>6. LooksBelow(G, S, V, rank)
  <2>1. G \in [[S -> V] -> [S -> V]]
    BY <1>3, <1>5
  <2>2. \A f, g \in [S -> V], c \in S :
          (\A y \in S : rank[y] < rank[c] => f[y] = g[y]) => G[f][c] = G[g][c]
    BY <1>4, <1>5
  <2> QED
    BY <2>1, <2>2 DEF LooksBelow
<1>7. PICK f \in [S -> V] : f = G[f]
  <2>1. << >> \in V
    BY <1>1
  <2> QED
    BY <1>2, <1>6, <2>1, RankRecursion
<1>8. f = [c \in S |-> TestsStep(edges, f, c)]
  BY <1>5, <1>7
<1>9. PICK g : g = CHOOSE h : h = [c \in S |-> TestsStep(edges, h, c)]
  OBVIOUS
<1>10. g = [c \in S |-> TestsStep(edges, g, c)]
  BY <1>8, <1>9
<1>11. EnumerateTests(edges) = g[EntryCondition]
  BY <1>1, <1>9, Zenon DEF EnumerateTests, TestsStep
<1>12. IsTests(g)
  BY <1>1, <1>10 DEF IsTests
<1> QED
  BY <1>1, <1>11, <1>12

\* The tests that go on with edge b of condition c
NextTests(g, c, b) == TestsFrom(g, Edges[c][b])

\* Test i of condition c is test l of those, with the edge before it
ComesThrough(g, c, i, b, l) ==
  /\ b \in BOOLEAN /\ l \in 1..Len(NextTests(g, c, b))
  /\ i = (IF b THEN Len(NextTests(g, c, FALSE)) ELSE 0) + l
  /\ g[c][i].result = NextTests(g, c, b)[l].result
  /\ g[c][i].path = NextTests(g, c, b)[l].path \cup {<<c, b>>}

LEMMA TestsThrough ==
  ASSUME NEW g, IsTests(g), NEW c \in Conditions,
         \A b \in BOOLEAN : NextTests(g, c, b) \in Seq(TestType)
  PROVE  /\ g[c] \in Seq(TestType)
         /\ Len(g[c]) = Len(NextTests(g, c, FALSE)) + Len(NextTests(g, c, TRUE))
         /\ \A i \in 1..Len(g[c]) : \E b, l : ComesThrough(g, c, i, b, l)
<1>1. PICK p, q : p = NextTests(g, c, FALSE) /\ q = NextTests(g, c, TRUE)
  OBVIOUS
<1>2. p \in Seq(TestType) /\ q \in Seq(TestType)
  BY <1>1
<1>3. PICK a, b : a = Extended(p, c, FALSE) /\ b = Extended(q, c, TRUE)
  OBVIOUS
<1>4. IsExtended(p, c, FALSE, a) /\ IsExtended(q, c, TRUE, b)
  BY <1>2, <1>3, ExtendedTests
<1>5. /\ a \in Seq(TestType) /\ Len(a) = Len(p)
      /\ \A i \in 1..Len(p) : a[i].result = p[i].result /\ a[i].path = p[i].path \cup {<<c, FALSE>>}
  BY <1>4 DEF IsExtended
<1>6. /\ b \in Seq(TestType) /\ Len(b) = Len(q)
      /\ \A i \in 1..Len(q) : b[i].result = q[i].result /\ b[i].path = q[i].path \cup {<<c, TRUE>>}
  BY <1>4 DEF IsExtended
<1>7. g[c] = a \o b
  BY <1>1, <1>3, TestsSteps DEF IsTests, NextTests
<1>8. PICK r : r = g[c]
  OBVIOUS
<1>9. /\ r \in Seq(TestType) /\ Len(r) = Len(p) + Len(q)
      /\ \A i \in 1..Len(p) : r[i] = a[i]
      /\ \A i \in 1..Len(q) : r[Len(p) + i] = b[i]
      /\ \A i \in 1..Len(r) : i \in 1..Len(p) \/ \E l \in 1..Len(q) : i = Len(p) + l
  <2>1. /\ r \in Seq(TestType) /\ Len(r) = Len(a) + Len(b)
        /\ \A i \in 1..Len(a) : r[i] = a[i]
        /\ \A i \in 1..Len(b) : r[Len(a) + i] = b[i]
        /\ \A i \in 1..Len(r) : i \in 1..Len(a) \/ \E l \in 1..Len(b) : i = Len(a) + l
    <3>1. a \in Seq(TestType) /\ b \in Seq(TestType) /\ r = a \o b
      BY <1>5, <1>6, <1>7, <1>8
    <3> QED
      BY <3>1, TestsJoined
  <2>2. Len(a) = Len(p) /\ Len(b) = Len(q)
    BY <1>5, <1>6
  <2> QED
    BY <2>1, <2>2
<1>10. Len(p) \in Nat
  BY <1>2
<1>11. ASSUME NEW i \in 1..Len(r) PROVE \E v, l : ComesThrough(g, c, i, v, l)
  <2>1. CASE i \in 1..Len(p)
    <3>1. r[i].result = p[i].result /\ r[i].path = p[i].path \cup {<<c, FALSE>>}
      BY <1>5, <1>9, <2>1
    <3>2. i = 0 + i
      BY <1>10, <2>1
    <3>3. ComesThrough(g, c, i, FALSE, i)
      BY <1>1, <1>8, <2>1, <3>1, <3>2 DEF ComesThrough
    <3> QED
      BY <3>3
  <2>2. CASE \E l \in 1..Len(q) : i = Len(p) + l
    <3>1. PICK l \in 1..Len(q) : i = Len(p) + l
      BY <2>2
    <3>2. r[i].result = q[l].result /\ r[i].path = q[l].path \cup {<<c, TRUE>>}
      BY <1>6, <1>9, <3>1
    <3>3. ComesThrough(g, c, i, TRUE, l)
      BY <1>1, <1>8, <3>1, <3>2 DEF ComesThrough
    <3> QED
      BY <3>3
  <2> QED
    BY <1>9, <2>1, <2>2
<1> QED
  BY <1>1, <1>8, <1>9, <1>11

\* The conditions of t are those of node n and later ones, each with one value
FromNode(n, t) ==
  \A q \in Conditions, v \in BOOLEAN :
    <<q, v>> \in t.path =>
      NodeRank[sco[q].node] <= NodeRank[n] /\ <<q, ~v>> \notin t.path

\* The paths from node n, as the tests give them
TestsOf(g, n) ==
  LET q == TestsFrom(g, Named(n))
  IN  /\ q \in Seq(TestType) /\ Len(q) = count[n]
      /\ \A i \in 1..Len(q) : FromNode(n, q[i])

LEMMA FromEdge ==
  ASSUME PathIInv, Completed, NEW n, IsConditionNode(n), NEW c, c = vec[n].csco,
         NEW b \in BOOLEAN, NEW m, m = vec[n].dests[b], NEW t, FromNode(m, t),
         NEW u, u.path = t.path \cup {<<c, b>>}
  PROVE  FromNode(n, u)
<1>1. /\ m \in PathNodes /\ n \in PathNodes /\ NodeRank[m] < NodeRank[n]
      /\ c \in Conditions /\ sco[c].node = n
  <2>1. FinalBDD
    BY CompletedFinal
  <2>2. m \in PathNodes /\ n \in PathNodes /\ NodeRank[m] < NodeRank[n]
    BY <2>1, NextNode
  <2> QED
    BY <2>2 DEF IsConditionNode
<1>2. NodeRank \in [PathNodes -> Nat] /\ \A q \in Conditions : sco[q].node \in PathNodes
  <2>1. FinalBDD
    BY CompletedFinal
  <2>2. NodeRank \in [PathNodes -> Nat] /\ \A q \in Conditions : IsConditionNode(sco[q].node)
    BY <2>1 DEF FinalBDD
  <2> QED
    BY <2>2 DEF IsConditionNode
<1>3. NodeRank[m] \in Nat /\ NodeRank[n] \in Nat
  BY <1>1, <1>2
<1> SUFFICES ASSUME NEW q \in Conditions, NEW v \in BOOLEAN, <<q, v>> \in u.path
             PROVE  NodeRank[sco[q].node] <= NodeRank[n] /\ <<q, ~v>> \notin u.path
  BY DEF FromNode
<1>4. PICK w \in BOOLEAN : w = ~v
  OBVIOUS
<1>5. ASSUME NEW x \in BOOLEAN, <<c, x>> \in t.path PROVE FALSE
  <2>1. NodeRank[sco[c].node] <= NodeRank[m]
    BY <1>1, <1>5 DEF FromNode
  <2> QED
    BY <1>1, <1>3, <2>1
<1>6. CASE <<q, v>> \in t.path
  <2>1. NodeRank[sco[q].node] <= NodeRank[m] /\ <<q, w>> \notin t.path
    BY <1>4, <1>6 DEF FromNode
  <2>2. NodeRank[sco[q].node] \in Nat
    BY <1>2
  <2>3. NodeRank[sco[q].node] <= NodeRank[n]
    BY <1>1, <1>3, <2>1, <2>2
  <2>4. q # c
    BY <1>5, <1>6
  <2> QED
    BY <1>4, <2>1, <2>3, <2>4
<1>7. CASE q = c /\ v = b
  <2>1. NodeRank[sco[q].node] <= NodeRank[n]
    BY <1>1, <1>3, <1>7
  <2>2. <<c, w>> \notin t.path
    BY <1>4, <1>5
  <2>3. w # b
    BY <1>4, <1>7
  <2> QED
    BY <1>4, <1>7, <2>1, <2>2, <2>3
<1> QED
  BY <1>6, <1>7

LEMMA TestsCounted ==
  ASSUME PathIInv, Completed, NoneStatic, NEW g, IsTests(g)
  PROVE  \A n \in PathNodes : TestsOf(g, n)
<1>0. FinalBDD
  BY CompletedFinal
<1>1. PICK P : P = {n \in PathNodes : TestsOf(g, n)}
  OBVIOUS
<1>2. ASSUME NEW n \in PathNodes,
             \A y \in PathNodes : NodeRank[y] < NodeRank[n] => y \in P
      PROVE  n \in P
  <2>1. CASE IsExit(n)
    <3>1. PICK z \in BOOLEAN : z = (n = ExitTrue)
      OBVIOUS
    <3>2. PICK t, q : t = [path |-> {}, result |-> z] /\ q = TestsFrom(g, Named(n))
      OBVIOUS
    <3>3. t \in TestType
      BY <3>2 DEF TestType
    <3>4. q = <<t>>
      BY <2>1, <3>1, <3>2, NamedNode DEF TestsFrom
    <3>5. q \in Seq(TestType) /\ Len(q) = 1 /\ q[1] = t
      BY <3>3, <3>4
    <3>6. FromNode(n, t)
      BY <3>2 DEF FromNode
    <3>7. count[n] = 1
      BY <2>1, AllCounted
    <3>8. \A i \in 1..Len(q) : FromNode(n, q[i])
      <4>1. \A i \in 1..Len(q) : i = 1
        BY <3>5
      <4> QED
        BY <3>5, <3>6, <4>1
    <3> QED
      BY <1>1, <3>2, <3>5, <3>7, <3>8 DEF TestsOf
  <2>2. CASE IsConditionNode(n)
    <3>1. PICK c : c = vec[n].csco
      OBVIOUS
    <3>2. c \in Conditions /\ sco[c].node = n
      BY <2>2, <3>1 DEF IsConditionNode
    <3>3. ASSUME NEW b \in BOOLEAN
          PROVE  /\ NextTests(g, c, b) \in Seq(TestType)
                 /\ Len(NextTests(g, c, b)) = count[vec[n].dests[b]]
                 /\ \A i \in 1..Len(NextTests(g, c, b)) :
                      FromNode(vec[n].dests[b], NextTests(g, c, b)[i])
      <4>1. PICK m : m = vec[n].dests[b]
        OBVIOUS
      <4>2. m \in P
        BY <1>0, <1>2, <2>2, <4>1, NextNode
      <4>3. Edges[c][b] = Named(m)
        BY <3>2, <4>1, EdgesNamed DEF EdgeEnd, NamesNext
      <4>4. NextTests(g, c, b) = TestsFrom(g, Named(m))
        BY <4>3 DEF NextTests
      <4> QED
        BY <1>1, <4>1, <4>2, <4>4 DEF TestsOf
    <3>4. /\ g[c] \in Seq(TestType)
          /\ Len(g[c]) = Len(NextTests(g, c, FALSE)) + Len(NextTests(g, c, TRUE))
          /\ \A i \in 1..Len(g[c]) : \E b, l : ComesThrough(g, c, i, b, l)
      BY <3>2, <3>3, TestsThrough
    <3>5. Len(g[c]) = count[n]
      <4>1. count[n] = count[vec[n].dests[FALSE]] + count[vec[n].dests[TRUE]]
        BY <2>2, AllCounted
      <4> QED
        BY <3>3, <3>4, <4>1
    <3>6. ASSUME NEW i \in 1..Len(g[c]) PROVE FromNode(n, g[c][i])
      <4>1. PICK b, l : ComesThrough(g, c, i, b, l)
        BY <3>4
      <4>2. /\ b \in BOOLEAN /\ l \in 1..Len(NextTests(g, c, b))
            /\ g[c][i].path = NextTests(g, c, b)[l].path \cup {<<c, b>>}
        BY <4>1 DEF ComesThrough
      <4>3. PICK m, t, u : m = vec[n].dests[b] /\ t = NextTests(g, c, b)[l] /\ u = g[c][i]
        OBVIOUS
      <4>4. FromNode(m, t) /\ u.path = t.path \cup {<<c, b>>}
        BY <3>3, <4>2, <4>3
      <4>5. FromNode(n, u)
        BY <2>2, <3>1, <4>2, <4>3, <4>4, FromEdge
      <4> QED
        BY <4>3, <4>5
    <3>7. TestsFrom(g, Named(n)) = g[c]
      BY <2>2, <3>1, NamedNode DEF TestsFrom
    <3> QED
      BY <1>1, <3>4, <3>5, <3>6, <3>7 DEF TestsOf
  <2> QED
    BY <1>0, <2>1, <2>2 DEF FinalBDD
<1>3. NodeRank \in [PathNodes -> Nat]
  BY <1>0 DEF FinalBDD
<1>4. PathNodes \subseteq P
  BY <1>2, <1>3, RankInduction
<1> QED
  BY <1>1, <1>4

\* The parameters follow the path of test t
Agrees(param, t) ==
  \A q \in Conditions, v \in BOOLEAN : <<q, v>> \in t.path => param[q] = v

\* Called from node n with parameters that follow test i, the code returns its
\* result, and its index among the tests
ReturnsTest(param, h, g, n) ==
  LET q == TestsFrom(g, Named(n))
  IN  \A i \in 1..Len(q) : Agrees(param, q[i]) =>
        \A k \in Nat : Returned(h, Named(n), k) = [result |-> q[i].result, index |-> k + (i - 1)]

LEMMA TestsReturned ==
  ASSUME PathIInv, Completed, NoneStatic, NEW g, IsTests(g),
         NEW param \in [Conditions -> BOOLEAN], NEW h, IsRun(param, h)
  PROVE  \A n \in PathNodes : ReturnsTest(param, h, g, n)
<1>0. FinalBDD
  BY CompletedFinal
<1>1. PICK P : P = {n \in PathNodes : ReturnsTest(param, h, g, n)}
  OBVIOUS
<1>2. ASSUME NEW n \in PathNodes,
             \A y \in PathNodes : NodeRank[y] < NodeRank[n] => y \in P
      PROVE  n \in P
  <2>1. CASE IsExit(n)
    <3>1. PICK z : z = OutcomeValue(Named(n))
      OBVIOUS
    <3>2. PICK t, q : t = [path |-> {}, result |-> z] /\ q = TestsFrom(g, Named(n))
      OBVIOUS
    <3>3. q = <<t>> /\ IsOutcome(Named(n))
      BY <2>1, <3>1, <3>2, NamedNode DEF TestsFrom
    <3>4. ASSUME NEW i \in 1..Len(q), NEW k \in Nat
          PROVE  Returned(h, Named(n), k) = [result |-> q[i].result, index |-> k + (i - 1)]
      <4>1. i = 1 /\ k + (i - 1) = k /\ q[i].result = z
        BY <3>2, <3>3, <3>4
      <4> QED
        BY <3>1, <3>3, <4>1 DEF Returned
    <3> QED
      BY <1>1, <3>2, <3>4 DEF ReturnsTest
  <2>2. CASE IsConditionNode(n)
    <3>1. PICK c : c = vec[n].csco
      OBVIOUS
    <3>2. c \in Conditions /\ sco[c].node = n
      BY <2>2, <3>1 DEF IsConditionNode
    <3>3. ASSUME NEW b \in BOOLEAN
          PROVE  LET m == vec[n].dests[b]
                 IN  /\ m \in PathNodes /\ ReturnsTest(param, h, g, m) /\ Edges[c][b] = Named(m)
                     /\ NextTests(g, c, b) = TestsFrom(g, Named(m))
                     /\ NextTests(g, c, b) \in Seq(TestType)
                     /\ Len(NextTests(g, c, b)) = count[m]
      <4>1. PICK m : m = vec[n].dests[b]
        OBVIOUS
      <4>2. m \in P /\ m \in PathNodes
        BY <1>0, <1>2, <2>2, <4>1, NextNode
      <4>3. Edges[c][b] = Named(m)
        BY <3>2, <4>1, EdgesNamed DEF EdgeEnd, NamesNext
      <4>4. NextTests(g, c, b) = TestsFrom(g, Named(m))
        BY <4>3 DEF NextTests
      <4>5. TestsOf(g, m)
        BY <4>2, TestsCounted
      <4> QED
        BY <1>1, <4>1, <4>2, <4>3, <4>4, <4>5 DEF TestsOf
    <3>4. PICK q : q = g[c]
      OBVIOUS
    <3>5. \A i \in 1..Len(q) : \E b, l : ComesThrough(g, c, i, b, l)
      BY <3>2, <3>3, <3>4, TestsThrough
    <3>6. TestsFrom(g, Named(n)) = q /\ Named(n) = c /\ ~IsOutcome(c)
      BY <2>2, <3>1, <3>4, NamedNode DEF TestsFrom
    <3>7. ASSUME NEW i \in 1..Len(q), Agrees(param, q[i]), NEW k \in Nat
          PROVE  Returned(h, c, k) = [result |-> q[i].result, index |-> k + (i - 1)]
      <4>1. PICK b, l : ComesThrough(g, c, i, b, l)
        BY <3>5, <3>7
      <4>2. PICK m, u : m = vec[n].dests[b] /\ u = NextTests(g, c, b)
        OBVIOUS
      <4>3. PICK f : f = NextTests(g, c, FALSE)
        OBVIOUS
      <4>4. /\ b \in BOOLEAN /\ l \in 1..Len(u) /\ i = (IF b THEN Len(f) ELSE 0) + l
            /\ q[i].result = u[l].result /\ q[i].path = u[l].path \cup {<<c, b>>}
        BY <3>4, <4>1, <4>2, <4>3 DEF ComesThrough
      <4>5. param[c] = b
        <5>1. <<c, b>> \in q[i].path
          BY <4>4
        <5> QED
          BY <3>2, <3>7, <4>4, <5>1 DEF Agrees
      <4>6. Agrees(param, u[l])
        BY <3>7, <4>4 DEF Agrees
      <4>7. PICK x : x = Increment(c, b)
        OBVIOUS
      <4>8. x \in Nat /\ x = (IF b THEN Len(f) ELSE 0)
        <5>1. vec[n].offset = Len(f)
          BY <2>2, <3>3, <4>3, AllCounted
        <5>2. OffsetForTrue(c) = Len(f)
          BY <3>2, <5>1 DEF OffsetForTrue
        <5>3. x \in Nat
          BY <3>2, <4>4, <4>7, IncrementType
        <5> QED
          BY <4>7, <5>2, <5>3 DEF Increment
      <4>9. Returned(h, c, k) = Returned(h, Named(m), k + x)
        <5>1. h[c][k] = Returned(h, Edges[c][b], k + x)
          BY <3>2, <4>5, <4>7 DEF IsRun
        <5>2. Edges[c][b] = Named(m)
          BY <3>3, <4>2, <4>4
        <5> QED
          BY <3>6, <5>1, <5>2 DEF Returned
      <4>10. /\ ReturnsTest(param, h, g, m) /\ u = TestsFrom(g, Named(m))
             /\ u \in Seq(TestType)
        BY <3>3, <4>2, <4>4
      <4>11. PICK y \in Nat : y = k + x
        BY <3>7, <4>8
      <4>12. Returned(h, Named(m), y) = [result |-> u[l].result, index |-> y + (l - 1)]
        BY <4>4, <4>6, <4>10 DEF ReturnsTest
      <4>13. y + (l - 1) = k + (i - 1)
        <5>1. l \in Int /\ i = x + l
          BY <4>4, <4>8, <4>10
        <5> QED
          BY <3>7, <4>8, <4>11, <5>1
      <4> QED
        BY <4>4, <4>9, <4>11, <4>12, <4>13
    <3> QED
      BY <1>1, <3>6, <3>7 DEF ReturnsTest
  <2> QED
    BY <1>0, <2>1, <2>2 DEF FinalBDD
<1>3. NodeRank \in [PathNodes -> Nat]
  BY <1>0 DEF FinalBDD
<1>4. PathNodes \subseteq P
  BY <1>2, <1>3, RankInduction
<1> QED
  BY <1>1, <1>4

\* Test i follows path i
LEMMA TestsAgree ==
  ASSUME PathIInv, Completed, NoneStatic, NEW tests, tests = EnumerateTests(Edges)
  PROVE  /\ Len(tests) = bdd.pathCount
         /\ \A i \in DOMAIN tests :
              Call(DesignCode, Parameters(tests[i])) = [result |-> tests[i].result, index |-> i]
<1>0. FinalBDD /\ bdd.root \in PathNodes /\ IsConditionNode(bdd.root) /\ IInv
  <2>1. FinalBDD /\ IInv
    BY CompletedFinal DEF PathIInv
  <2> QED
    BY <2>1 DEF FinalBDD, IsConditionNode
<1>1. PICK g : IsTests(g) /\ tests = g[EntryCondition]
  BY TestsFunction
<1>2. PICK x : x = Named(bdd.root)
  OBVIOUS
<1>3. x = EntryCondition /\ ~IsOutcome(x)
  BY <1>0, <1>2, EntryAgrees, NamedNode
<1>4. tests = TestsFrom(g, x)
  BY <1>1, <1>3 DEF TestsFrom
<1>5. /\ tests \in Seq(TestType) /\ Len(tests) = count[bdd.root]
      /\ \A i \in 1..Len(tests) : FromNode(bdd.root, tests[i])
  BY <1>0, <1>1, <1>2, <1>4, TestsCounted DEF TestsOf
<1>6. count[bdd.root] = bdd.pathCount
  BY <1>0 DEF IInv, FramesNested, Completed
<1>7. ASSUME NEW i \in DOMAIN tests
      PROVE  Call(DesignCode, Parameters(tests[i])) = [result |-> tests[i].result, index |-> i]
  <2>1. i \in 1..Len(tests) /\ Len(tests) \in Nat
    BY <1>5, <1>7
  <2>2. PICK t, param : t = tests[i] /\ param = Parameters(t)
    OBVIOUS
  <2>3. /\ param \in [Conditions -> BOOLEAN]
        /\ \A c \in Conditions : param[c] <=> <<c, TRUE>> \in t.path
    <3>1. param = [c \in Conditions |-> <<c, TRUE>> \in t.path]
      BY <2>2 DEF Parameters
    <3>2. \A c \in Conditions : (<<c, TRUE>> \in t.path) \in BOOLEAN
      OBVIOUS
    <3>3. param \in [Conditions -> BOOLEAN]
      BY <3>1, <3>2
    <3>4. \A c \in Conditions : param[c] = (<<c, TRUE>> \in t.path)
      BY <3>1
    <3> QED
      BY <3>3, <3>4
  <2>4. Agrees(param, t)
    <3>1. FromNode(bdd.root, t)
      BY <1>5, <2>1, <2>2
    <3>2. ASSUME NEW q \in Conditions, NEW v \in BOOLEAN, <<q, v>> \in t.path PROVE param[q] = v
      <4>1. CASE v = TRUE
        BY <2>3, <3>2, <4>1
      <4>2. CASE v = FALSE
        <5>1. <<q, ~v>> \notin t.path /\ (~v) = TRUE
          BY <3>1, <3>2, <4>2 DEF FromNode
        <5>2. ~param[q] /\ param[q] \in BOOLEAN
          BY <2>3, <5>1
        <5> QED
          BY <4>2, <5>2
      <4> QED
        BY <4>1, <4>2
    <3> QED
      BY <3>2 DEF Agrees
  <2>5. PICK h : IsRun(param, h) /\ Call(DesignCode, param) = h[EntryCondition][1]
    BY <2>3, RunFunction
  <2>6. ReturnsTest(param, h, g, bdd.root)
    BY <1>0, <1>1, <2>3, <2>5, TestsReturned
  <2>7. Returned(h, x, 1) = [result |-> t.result, index |-> 1 + (i - 1)]
    BY <1>2, <1>4, <2>1, <2>2, <2>4, <2>6 DEF ReturnsTest
  <2>8. Returned(h, x, 1) = h[EntryCondition][1]
    BY <1>3 DEF Returned
  <2>9. 1 + (i - 1) = i
    BY <2>1
  <2> QED
    BY <2>2, <2>5, <2>7, <2>8, <2>9
<1> QED
  BY <1>5, <1>6, <1>7

LEMMA DesignAgrees ==
  ASSUME PathIInv
  PROVE  PrototypeAgrees
<1> SUFFICES ASSUME Completed, NoneStatic
             PROVE  LET edges == Edges
                        counts == PathCounts(edges)
                        offsets == Offsets(edges, counts)
                        code == AdaEvalCode(edges, offsets)
                        tests == EnumerateTests(edges)
                    IN  /\ EntryCondition = vec[bdd.root].csco
                        /\ \A s \in Conditions :
                              /\ \A b \in BOOLEAN : edges[s][b] = Named(NextBDDNode(s, b))
                              /\ offsets[s] = OffsetForTrue(s)
                        /\ counts[EntryCondition] = bdd.pathCount
                        /\ \A e \in Environments :
                              Call(code, [s \in Conditions |-> e[sco[s].index]]) =
                                 [result |-> ExpressionValue(e), index |-> PathIndex(e) + 1]
                        /\ Len(tests) = bdd.pathCount
                        /\ \A i \in DOMAIN tests :
                              Call(code, Parameters(tests[i])) =
                                 [result |-> tests[i].result, index |-> i]
  BY DEF PrototypeAgrees, NoneStatic
<1>0. FinalBDD /\ bdd.root \in PathNodes /\ IsConditionNode(bdd.root) /\ IInv
  <2>1. FinalBDD /\ IInv
    BY CompletedFinal DEF PathIInv
  <2> QED
    BY <2>1 DEF FinalBDD, IsConditionNode
<1>1. EntryCondition = vec[bdd.root].csco
  BY EntryAgrees
<1>2. ASSUME NEW s \in Conditions
      PROVE  /\ \A b \in BOOLEAN : Edges[s][b] = Named(NextBDDNode(s, b))
             /\ DesignOffsets[s] = OffsetForTrue(s)
  BY <1>2, EdgesNamed, DesignBranches DEF EdgeEnd, NextBDDNode, NamesNext
<1>3. DesignCounts[EntryCondition] = bdd.pathCount
  <2>1. EntryCondition = Named(bdd.root) /\ ~IsOutcome(Named(bdd.root))
    BY <1>0, <1>1, NamedNode
  <2>2. CountFrom(DesignCounts, Named(bdd.root)) = count[bdd.root]
    BY <1>0, CountsAgree
  <2>3. count[bdd.root] = bdd.pathCount
    BY <1>0 DEF IInv, FramesNested, Completed
  <2> QED
    BY <2>1, <2>2, <2>3 DEF CountFrom
<1>4. ASSUME NEW e \in Environments
      PROVE  Call(DesignCode, [s \in Conditions |-> e[sco[s].index]]) =
               [result |-> ExpressionValue(e), index |-> PathIndex(e) + 1]
  <2>1. e \in [CondIndexes -> BOOLEAN]
    BY <1>4 DEF Environments
  <2> QED
    BY <2>1, CallAgrees
<1>5. PICK tests : tests = EnumerateTests(Edges)
  OBVIOUS
<1>6. /\ Len(tests) = bdd.pathCount
      /\ \A i \in DOMAIN tests :
           Call(DesignCode, Parameters(tests[i])) = [result |-> tests[i].result, index |-> i]
  BY <1>5, TestsAgree
<1> QED
  BY <1>1, <1>2, <1>3, <1>4, <1>5, <1>6, Zenon DEF DesignCode, DesignOffsets, DesignCounts

\* For every decision without static conditions, the edges, the offsets and the
\* path counts of the design are those of the tool, its code returns the value
\* of the decision and its path index, and test i has index i
THEOREM DesignAndToolAgree == Spec => []PrototypeAgrees
<1>1. PathIInv => PrototypeAgrees
  BY DesignAgrees
<1> QED
  BY <1>1, PathInvariance, PTL
=============================================================================
