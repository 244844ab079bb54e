------------------------ MODULE Consolidation_proofs ------------------------
(***************************************************************************)
(* Proofs about consolidation: whatever the units, and however often and   *)
(* in whatever order they were saved and loaded, a unit is in the tables   *)
(* as if its SCOs had just been loaded, and the coverage of a run is the   *)
(* union of what its own traces and the checkpoints it loaded cover.       *)
(***************************************************************************)
EXTENDS Consolidation, FiniteSetTheorems, TLAPS

----------------------------------------------------------------------------
(* Tables that grow by a unit.                                             *)

IsAppended(w, S, s, m, f) ==
  /\ w \in Seq(S) /\ Len(w) = Len(s) + m
  /\ \A i \in 1..Len(s) : w[i] = s[i]
  /\ \A k \in 1..m : w[Len(s) + k] = f[k]

LEMMA Appending ==
  ASSUME NEW S, NEW s \in Seq(S), NEW m \in Nat, NEW f \in [1..m -> S]
  PROVE  IsAppended(s \o f, S, s, m, f)
<1>1. f \in Seq(S) /\ Len(f) = m
  OBVIOUS
<1> QED
  BY <1>1 DEF IsAppended

IsVersion(shape, nodes, insts) ==
  /\ shape \in Seq(Descriptors) /\ Len(shape) \in Nat /\ DOMAIN shape = 1..Len(shape)
  /\ nodes \in Seq([sco : 1..Len(shape), dests : SUBSET (1..Len(nodes))])
  /\ Len(nodes) \in Nat /\ DOMAIN nodes = 1..Len(nodes)
  /\ insts \in Seq(0..Len(insts)) /\ Len(insts) \in Nat /\ DOMAIN insts = 1..Len(insts)
  /\ \A s \in 1..Len(shape) :
       /\ shape[s] \in Descriptors /\ shape[s].refs \subseteq 1..Len(shape)
       /\ shape[s].node \in 0..Len(nodes) /\ shape[s].lastNode \in 0..Len(nodes)
       /\ shape[s].kind = "Decision" => shape[s].node # 0 /\ shape[s].lastNode # 0
  /\ \A n \in 1..Len(nodes) :
       /\ nodes[n] \in [sco : 1..Len(shape), dests : SUBSET (1..Len(nodes))]
       /\ \E s \in 1..Len(shape) :
            shape[s].kind = "Decision" /\ n \in shape[s].node..shape[s].lastNode
       /\ shape[nodes[n].sco].kind = "Condition" /\ shape[nodes[n].sco].node = n

LEMMA VersionFacts ==
  ASSUME NEW v \in Versions
  PROVE  IsVersion(SCOsOf[v], NodesOf[v], InstancesOf[v])
<1>0. PICK shape, nodes, insts :
         shape = SCOsOf[v] /\ nodes = NodesOf[v] /\ insts = InstancesOf[v]
  OBVIOUS
<1>1. /\ shape \in Seq(Descriptors)
      /\ nodes \in Seq([sco : DOMAIN shape, dests : SUBSET DOMAIN nodes])
      /\ insts \in Seq(0..Len(insts))
      /\ \A s \in DOMAIN shape :
           /\ shape[s].refs \subseteq DOMAIN shape
           /\ {shape[s].node, shape[s].lastNode} \subseteq 0..Len(nodes)
           /\ shape[s].kind = "Decision" => 0 \notin {shape[s].node, shape[s].lastNode}
      /\ \A n \in DOMAIN nodes :
           /\ \E s \in DOMAIN shape :
                shape[s].kind = "Decision" /\ n \in shape[s].node..shape[s].lastNode
           /\ shape[nodes[n].sco].kind = "Condition" /\ shape[nodes[n].sco].node = n
  <2>1. /\ SCOsOf[v] \in Seq(Descriptors)
        /\ NodesOf[v] \in Seq([sco : DOMAIN SCOsOf[v], dests : SUBSET DOMAIN NodesOf[v]])
        /\ InstancesOf[v] \in Seq(0..Len(InstancesOf[v]))
        /\ \A s \in DOMAIN SCOsOf[v] :
             /\ SCOsOf[v][s].refs \subseteq DOMAIN SCOsOf[v]
             /\ {SCOsOf[v][s].node, SCOsOf[v][s].lastNode} \subseteq 0..Len(NodesOf[v])
             /\ SCOsOf[v][s].kind = "Decision" =>
                  0 \notin {SCOsOf[v][s].node, SCOsOf[v][s].lastNode}
        /\ \A n \in DOMAIN NodesOf[v] :
             /\ \E s \in DOMAIN SCOsOf[v] :
                  SCOsOf[v][s].kind = "Decision" /\ n \in SCOsOf[v][s].node..SCOsOf[v][s].lastNode
             /\ SCOsOf[v][NodesOf[v][n].sco].kind = "Condition"
             /\ SCOsOf[v][NodesOf[v][n].sco].node = n
    BY UnitsAssumption, Zenon DEF UnitsAssumption
  <2> QED
    BY <1>0, <2>1, Zenon
<1>2. /\ Len(shape) \in Nat /\ DOMAIN shape = 1..Len(shape)
      /\ Len(insts) \in Nat /\ DOMAIN insts = 1..Len(insts)
      /\ Len(nodes) \in Nat /\ DOMAIN nodes = 1..Len(nodes)
  BY <1>1
<1>3. \A s \in 1..Len(shape) : shape[s] \in Descriptors
  BY <1>1, <1>2
<1>4. nodes \in Seq([sco : 1..Len(shape), dests : SUBSET (1..Len(nodes))])
  <2>1. [sco : DOMAIN shape, dests : SUBSET DOMAIN nodes]
          = [sco : 1..Len(shape), dests : SUBSET (1..Len(nodes))]
    BY <1>2
  <2> QED
    BY <1>1, <2>1
<1>5. \A n \in 1..Len(nodes) : nodes[n] \in [sco : 1..Len(shape), dests : SUBSET (1..Len(nodes))]
  <2>1. PICK Q : Q = [sco : 1..Len(shape), dests : SUBSET (1..Len(nodes))]
    OBVIOUS
  <2>2. nodes \in Seq(Q)
    BY <1>4, <2>1
  <2>3. \A n \in 1..Len(nodes) : nodes[n] \in Q
    BY <2>2
  <2> QED
    BY <2>1, <2>3
<1>6. \A s \in 1..Len(shape) :
         /\ shape[s].refs \subseteq 1..Len(shape)
         /\ shape[s].node \in 0..Len(nodes) /\ shape[s].lastNode \in 0..Len(nodes)
         /\ shape[s].kind = "Decision" => shape[s].node # 0 /\ shape[s].lastNode # 0
  BY <1>1, <1>2
<1>7. \A n \in 1..Len(nodes) :
         /\ \E s \in 1..Len(shape) :
              shape[s].kind = "Decision" /\ n \in shape[s].node..shape[s].lastNode
         /\ shape[nodes[n].sco].kind = "Condition" /\ shape[nodes[n].sco].node = n
  BY <1>1, <1>2
<1>8. IsVersion(shape, nodes, insts)
  BY <1>1, <1>2, <1>3, <1>4, <1>5, <1>6, <1>7 DEF IsVersion
<1> QED
  BY <1>0, <1>8

\* The fields of a relocated descriptor
RelocatedTo(d, c, f, g) ==
  [kind |-> d.kind, origin |-> c, refs |-> {f[s] : s \in d.refs},
   node |-> IF d.node = 0 THEN 0 ELSE g[d.node],
   lastNode |-> IF d.lastNode = 0 THEN 0 ELSE g[d.lastNode], degraded |-> d.degraded]

LEMMA RelocatedFields ==
  ASSUME NEW d \in Descriptors, NEW c, NEW f, NEW g
  PROVE  Relocated(d, c, f, g) = RelocatedTo(d, c, f, g)
<1>1. PICK k, o, e, x, y, z :
         d = [kind |-> k, origin |-> o, refs |-> e, node |-> x, lastNode |-> y, degraded |-> z]
  BY DEF Descriptors
<1>2. PICK R, N, L : /\ R = {f[s] : s \in d.refs}
                     /\ N = IF d.node = 0 THEN 0 ELSE g[d.node]
                     /\ L = IF d.lastNode = 0 THEN 0 ELSE g[d.lastNode]
  OBVIOUS
<1>3. Relocated(d, c, f, g) = [d EXCEPT !.origin = c, !.refs = R, !.node = N, !.lastNode = L]
  BY <1>1, <1>2 DEF Relocated
<1>4. [d EXCEPT !.origin = c, !.refs = R, !.node = N, !.lastNode = L]
        = [kind |-> k, origin |-> c, refs |-> R, node |-> N, lastNode |-> L, degraded |-> z]
  <2>1. PICK p : p = [d EXCEPT !.origin = c]
    OBVIOUS
  <2>2. p = [kind |-> k, origin |-> c, refs |-> e, node |-> x, lastNode |-> y, degraded |-> z]
    BY <1>1, <2>1
  <2>3. PICK q : q = [p EXCEPT !.refs = R]
    OBVIOUS
  <2>4. q = [kind |-> k, origin |-> c, refs |-> R, node |-> x, lastNode |-> y, degraded |-> z]
    BY <2>2, <2>3
  <2>5. PICK r : r = [q EXCEPT !.node = N]
    OBVIOUS
  <2>6. r = [kind |-> k, origin |-> c, refs |-> R, node |-> N, lastNode |-> y, degraded |-> z]
    BY <2>4, <2>5
  <2>7. [r EXCEPT !.lastNode = L]
          = [kind |-> k, origin |-> c, refs |-> R, node |-> N, lastNode |-> L, degraded |-> z]
    BY <2>6
  <2>8. [d EXCEPT !.origin = c, !.refs = R, !.node = N, !.lastNode = L] = [r EXCEPT !.lastNode = L]
    BY <2>1, <2>3, <2>5
  <2> QED
    BY <2>7, <2>8
<1>5. k = d.kind /\ z = d.degraded
  BY <1>1
<1> QED
  BY <1>2, <1>3, <1>4, <1>5 DEF RelocatedTo

LEMMA ShiftedValues ==
  ASSUME NEW m \in Nat, NEW by \in Nat
  PROVE  \A i \in 1..m : Shifted(m, by)[i] = by + i /\ Shifted(m, by)[i] \in Nat
  BY DEF Shifted

ShapeMoved(d, r, c, b, n) ==
  /\ r \in Descriptors /\ r.origin = c /\ r.kind = d.kind /\ r.degraded = d.degraded
  /\ r.refs = {b + x : x \in d.refs}
  /\ r.node = (IF d.node = 0 THEN 0 ELSE n + d.node)
  /\ r.lastNode = (IF d.lastNode = 0 THEN 0 ELSE n + d.lastNode)

\* The first SCO of a unit is the one that follows b, its first node follows n
LEMMA RelocatedShape ==
  ASSUME NEW v \in Versions, NEW s \in 1..Len(SCOsOf[v]), NEW c \in Nat, NEW b \in Nat, NEW n \in Nat,
         NEW d, d = SCOsOf[v][s],
         NEW r, r = Relocated(d, c, Shifted(Len(SCOsOf[v]), b), Shifted(Len(NodesOf[v]), n))
  PROVE  ShapeMoved(d, r, c, b, n)
<1>1. PICK m, k : m = Len(SCOsOf[v]) /\ k = Len(NodesOf[v])
  OBVIOUS
<1>2. /\ m \in Nat /\ k \in Nat /\ d \in Descriptors /\ d.refs \subseteq 1..m
      /\ d.node \in 0..k /\ d.lastNode \in 0..k
  BY <1>1, VersionFacts DEF IsVersion
<1>3. PICK f, g : f = Shifted(m, b) /\ g = Shifted(k, n)
  OBVIOUS
<1>4. /\ \A i \in 1..m : f[i] = b + i /\ f[i] \in Nat
      /\ \A i \in 1..k : g[i] = n + i /\ g[i] \in Nat
  BY <1>2, <1>3, ShiftedValues
<1>5. r = [kind |-> d.kind, origin |-> c, refs |-> {f[x] : x \in d.refs},
           node |-> IF d.node = 0 THEN 0 ELSE g[d.node],
           lastNode |-> IF d.lastNode = 0 THEN 0 ELSE g[d.lastNode], degraded |-> d.degraded]
  <2>1. r = Relocated(d, c, f, g)
    BY <1>1, <1>3
  <2>2. r = RelocatedTo(d, c, f, g)
    BY <1>2, <2>1, RelocatedFields
  <2> QED
    BY <2>2 DEF RelocatedTo
<1>6. {f[x] : x \in d.refs} = {b + x : x \in d.refs} /\ {f[x] : x \in d.refs} \subseteq Nat
  BY <1>2, <1>4
<1>7. (d.node # 0 => d.node \in 1..k) /\ (d.lastNode # 0 => d.lastNode \in 1..k)
  BY <1>2
<1>8. /\ (IF d.node = 0 THEN 0 ELSE g[d.node]) = (IF d.node = 0 THEN 0 ELSE n + d.node)
      /\ (IF d.node = 0 THEN 0 ELSE g[d.node]) \in Nat
      /\ (IF d.lastNode = 0 THEN 0 ELSE g[d.lastNode]) = (IF d.lastNode = 0 THEN 0 ELSE n + d.lastNode)
      /\ (IF d.lastNode = 0 THEN 0 ELSE g[d.lastNode]) \in Nat
  BY <1>4, <1>7
<1>9. d.kind \in {"Statement", "Decision", "Operator", "Condition", "Removed"} /\ d.degraded \in BOOLEAN
  BY <1>2 DEF Descriptors
<1>10. r \in Descriptors
  BY <1>5, <1>6, <1>8, <1>9 DEF Descriptors
<1>11. /\ r.origin = c /\ r.kind = d.kind /\ r.degraded = d.degraded
       /\ r.refs = {f[x] : x \in d.refs}
       /\ r.node = (IF d.node = 0 THEN 0 ELSE g[d.node])
       /\ r.lastNode = (IF d.lastNode = 0 THEN 0 ELSE g[d.lastNode])
  BY <1>5
<1>12. r.refs = {b + x : x \in d.refs}
  BY <1>6, <1>11
<1>13. /\ r.node = (IF d.node = 0 THEN 0 ELSE n + d.node)
       /\ r.lastNode = (IF d.lastNode = 0 THEN 0 ELSE n + d.lastNode)
  BY <1>8, <1>11
<1> QED
  BY <1>10, <1>11, <1>12, <1>13 DEF ShapeMoved

\* The tables w are those of t, and more
Grows(t, w) ==
  /\ Len(t.cu) <= Len(w.cu) /\ \A c \in 1..Len(t.cu) : w.cu[c] = t.cu[c]
  /\ Len(t.sco) <= Len(w.sco) /\ \A s \in 1..Len(t.sco) : w.sco[s] = t.sco[s]
  /\ Len(t.bdd) <= Len(w.bdd) /\ \A n \in 1..Len(t.bdd) : w.bdd[n] = t.bdd[n]
  /\ Len(t.inst) <= Len(w.inst) /\ \A i \in 1..Len(t.inst) : w.inst[i] = t.inst[i]

LEMMA TableFacts ==
  ASSUME NEW t, TablesTyped(t)
  PROVE  /\ Len(t.cu) \in Nat /\ DOMAIN t.cu = 1..Len(t.cu)
         /\ Len(t.sco) \in Nat /\ DOMAIN t.sco = 1..Len(t.sco)
         /\ Len(t.bdd) \in Nat /\ DOMAIN t.bdd = 1..Len(t.bdd)
         /\ Len(t.inst) \in Nat /\ DOMAIN t.inst = 1..Len(t.inst)
         /\ \A c \in 1..Len(t.cu) :
              /\ t.cu[c] \in Units /\ t.cu[c].version \in Versions
              /\ t.cu[c].first \in Nat \ {0} /\ t.cu[c].firstInst \in Nat \ {0}
              /\ t.cu[c].last \in Nat /\ t.cu[c].lastInst \in Nat
         /\ \A s \in 1..Len(t.sco) : t.sco[s] \in Descriptors
<1>1. /\ t.cu \in Seq(Units) /\ t.sco \in Seq(Descriptors)
      /\ t.bdd \in Seq([sco : Nat, dests : SUBSET Nat]) /\ t.inst \in Seq([cu : Nat, enclosing : Nat])
  BY DEF TablesTyped
<1>2. \A c \in 1..Len(t.cu) : t.cu[c] \in Units
  BY <1>1
<1>3. \A u \in Units : /\ u.version \in Versions
                      /\ u.first \in Nat \ {0} /\ u.firstInst \in Nat \ {0}
                      /\ u.last \in Nat /\ u.lastInst \in Nat
  BY DEF Units
<1> QED
  BY <1>1, <1>2, <1>3

\* What UnitAt says, of the parts it is about
UnitIs(t, c, n, u, shape, nodes, insts, scoMap, nodeMap) ==
  /\ u.last = u.first - 1 + Len(shape) /\ u.last <= Len(t.sco)
  /\ u.lastInst = u.firstInst - 1 + Len(insts) /\ u.lastInst <= Len(t.inst)
  /\ n + Len(nodes) <= Len(t.bdd)
  /\ \A s \in DOMAIN shape : t.sco[u.first - 1 + s] = Relocated(shape[s], c, scoMap, nodeMap)
  /\ \A k \in DOMAIN nodes :
       t.bdd[n + k] = [sco |-> scoMap[nodes[k].sco], dests |-> {nodeMap[d] : d \in nodes[k].dests}]
  /\ \A i \in DOMAIN insts :
       t.inst[u.firstInst - 1 + i] =
         [cu |-> c, enclosing |-> IF insts[i] = 0 THEN 0 ELSE u.firstInst - 1 + insts[i]]

IsUnit(t, c, n, u, shape, nodes, insts, scoMap, nodeMap) ==
  /\ u = t.cu[c] /\ shape = SCOsOf[u.version] /\ nodes = NodesOf[u.version]
  /\ insts = InstancesOf[u.version]
  /\ scoMap = Shifted(Len(shape), u.first - 1) /\ nodeMap = Shifted(Len(nodes), n)

LEMMA UnitParts ==
  ASSUME NEW t, NEW c, NEW n, NEW u, NEW shape, NEW nodes, NEW insts, NEW scoMap, NEW nodeMap,
         IsUnit(t, c, n, u, shape, nodes, insts, scoMap, nodeMap)
  PROVE  UnitAt(t, c, n) <=> UnitIs(t, c, n, u, shape, nodes, insts, scoMap, nodeMap)
<1>1. UnitAt(t, c, n) <=>
        UnitIs(t, c, n, t.cu[c], SCOsOf[t.cu[c].version], NodesOf[t.cu[c].version],
               InstancesOf[t.cu[c].version],
               Shifted(Len(SCOsOf[t.cu[c].version]), t.cu[c].first - 1),
               Shifted(Len(NodesOf[t.cu[c].version]), n))
  BY DEF UnitAt, UnitIs
<1> QED
  BY <1>1 DEF IsUnit

\* A unit stays as it is when others are added
LEMMA UnitGrown ==
  ASSUME NEW t, NEW w, TablesTyped(t), Grows(t, w),
         Len(w.sco) \in Nat, Len(w.bdd) \in Nat, Len(w.inst) \in Nat,
         NEW c \in 1..Len(t.cu), NEW n \in Nat, UnitAt(t, c, n)
  PROVE  UnitAt(w, c, n)
<1>1. PICK u, shape, nodes, insts, scoMap, nodeMap :
         IsUnit(t, c, n, u, shape, nodes, insts, scoMap, nodeMap)
  BY DEF IsUnit
<1>2. /\ u.first \in Nat \ {0} /\ u.firstInst \in Nat \ {0} /\ u.version \in Versions
      /\ Len(t.sco) \in Nat /\ Len(t.bdd) \in Nat /\ Len(t.inst) \in Nat
      /\ w.cu[c] = u
  BY <1>1, TableFacts DEF Grows, IsUnit
<1>3. /\ Len(shape) \in Nat /\ DOMAIN shape = 1..Len(shape)
      /\ Len(nodes) \in Nat /\ DOMAIN nodes = 1..Len(nodes)
      /\ Len(insts) \in Nat /\ DOMAIN insts = 1..Len(insts)
  BY <1>1, <1>2, VersionFacts DEF IsVersion, IsUnit
<1>4. UnitIs(t, c, n, u, shape, nodes, insts, scoMap, nodeMap)
  BY <1>1, UnitParts
<1>5. /\ u.last = u.first - 1 + Len(shape) /\ u.last <= Len(t.sco)
      /\ u.lastInst = u.firstInst - 1 + Len(insts) /\ u.lastInst <= Len(t.inst)
      /\ n + Len(nodes) <= Len(t.bdd)
  BY <1>4 DEF UnitIs
<1>50. PICK a, b, p, q, x, y : /\ a = u.first - 1 /\ b = u.firstInst - 1 /\ p = Len(t.sco) /\ q = Len(t.inst)
                              /\ x = Len(shape) /\ y = Len(insts)
  OBVIOUS
<1>51. /\ a \in Nat /\ b \in Nat /\ p \in Nat /\ q \in Nat /\ x \in Nat /\ y \in Nat
       /\ a + x <= p /\ b + y <= q
  <2>1. a \in Nat /\ b \in Nat
    BY <1>2, <1>50, SMTT(30)
  <2> QED
    BY <1>2, <1>3, <1>5, <1>50, <2>1
<1>6. /\ u.last <= Len(w.sco) /\ u.lastInst <= Len(w.inst) /\ n + Len(nodes) <= Len(w.bdd)
  <2>1. Len(t.sco) <= Len(w.sco) /\ Len(t.bdd) <= Len(w.bdd) /\ Len(t.inst) <= Len(w.inst)
    BY DEF Grows
  <2> QED
    <3>1. PICK e, f, g, h : e = Len(w.sco) /\ f = Len(w.bdd) /\ g = Len(w.inst) /\ h = n + Len(nodes)
      OBVIOUS
    <3>2. a + x <= e /\ b + y <= g
      <4>1. p <= e /\ e \in Nat /\ q <= g /\ g \in Nat
        BY <1>50, <2>1, <3>1
      <4> QED
        BY <1>51, <4>1
    <3>3. h <= Len(t.bdd) /\ Len(t.bdd) <= f /\ h \in Nat
      BY <1>3, <1>5, <2>1, <3>1
    <3>4. h <= f
      BY <1>2, <3>1, <3>3
    <3> QED
      BY <1>5, <1>50, <3>1, <3>2, <3>4
<1>7. \A s \in DOMAIN shape : w.sco[u.first - 1 + s] = t.sco[u.first - 1 + s]
  <2> SUFFICES ASSUME NEW s \in 1..Len(shape)
               PROVE  w.sco[u.first - 1 + s] = t.sco[u.first - 1 + s]
    BY <1>3
  <2>1. u.first - 1 + s \in 1..Len(t.sco)
    BY <1>50, <1>51, SMTT(30)
  <2> QED
    BY <2>1 DEF Grows
<1>8. \A k \in DOMAIN nodes : w.bdd[n + k] = t.bdd[n + k]
  <2> SUFFICES ASSUME NEW k \in 1..Len(nodes) PROVE w.bdd[n + k] = t.bdd[n + k]
    BY <1>3
  <2>1. n + k \in 1..Len(t.bdd)
    BY <1>2, <1>3, <1>5
  <2> QED
    BY <2>1 DEF Grows
<1>9. \A i \in DOMAIN insts : w.inst[u.firstInst - 1 + i] = t.inst[u.firstInst - 1 + i]
  <2> SUFFICES ASSUME NEW i \in 1..Len(insts)
               PROVE  w.inst[u.firstInst - 1 + i] = t.inst[u.firstInst - 1 + i]
    BY <1>3
  <2>1. u.firstInst - 1 + i \in 1..Len(t.inst)
    BY <1>50, <1>51, SMTT(30)
  <2> QED
    BY <2>1 DEF Grows
<1>10. UnitIs(w, c, n, u, shape, nodes, insts, scoMap, nodeMap)
  BY <1>4, <1>6, <1>7, <1>8, <1>9, Zenon DEF UnitIs
<1>11. IsUnit(w, c, n, u, shape, nodes, insts, scoMap, nodeMap)
  BY <1>1, <1>2 DEF IsUnit
<1> QED
  BY <1>10, <1>11, UnitParts

\* The tables w are those of t after version v is loaded
LoadedIn(t, w, v) ==
  LET c == Len(t.cu) + 1
      scoMap == Shifted(Len(SCOsOf[v]), Len(t.sco))
      nodeMap == Shifted(Len(NodesOf[v]), Len(t.bdd))
  IN  /\ w.cu = Append(t.cu,
           [version |-> v,
            first |-> Len(t.sco) + 1, last |-> Len(t.sco) + Len(SCOsOf[v]),
            firstInst |-> Len(t.inst) + 1,
            lastInst |-> Len(t.inst) + Len(InstancesOf[v])])
      /\ w.sco = t.sco \o [i \in DOMAIN SCOsOf[v] |->
                             Relocated(SCOsOf[v][i], c, scoMap, nodeMap)]
      /\ w.bdd = t.bdd \o [i \in DOMAIN NodesOf[v] |->
                             [sco |-> scoMap[NodesOf[v][i].sco],
                              dests |-> {nodeMap[n] : n \in NodesOf[v][i].dests}]]
      /\ w.inst = t.inst \o [i \in DOMAIN InstancesOf[v] |->
                               [cu |-> c,
                                enclosing |-> IF InstancesOf[v][i] = 0 THEN 0
                                              ELSE InstancesOf[v][i] + Len(t.inst)]]

LEMMA UnitLoaded ==
  ASSUME NEW t, NEW w, TablesTyped(t), NEW v \in Versions, LoadedIn(t, w, v)
  PROVE  /\ w.cu \in Seq(Units) /\ w.sco \in Seq(Descriptors)
         /\ w.bdd \in Seq([sco : Nat, dests : SUBSET Nat])
         /\ w.inst \in Seq([cu : Nat, enclosing : Nat])
         /\ Len(w.cu) = Len(t.cu) + 1 /\ w.cu[Len(w.cu)].version = v
         /\ w.cu[Len(w.cu)].first = Len(t.sco) + 1
         /\ Len(w.sco) = Len(t.sco) + Len(SCOsOf[v])
         /\ Grows(t, w)
         /\ UnitAt(w, Len(w.cu), Len(t.bdd))
<1>1. PICK shape, nodes, insts, scoMap, nodeMap, c, b, n, m :
         /\ shape = SCOsOf[v] /\ nodes = NodesOf[v] /\ insts = InstancesOf[v]
         /\ scoMap = Shifted(Len(shape), Len(t.sco)) /\ nodeMap = Shifted(Len(nodes), Len(t.bdd))
         /\ c = Len(t.cu) + 1 /\ b = Len(t.sco) /\ n = Len(t.bdd) /\ m = Len(t.inst)
  OBVIOUS
<1>2. /\ t.cu \in Seq(Units) /\ t.sco \in Seq(Descriptors)
      /\ t.bdd \in Seq([sco : Nat, dests : SUBSET Nat]) /\ t.inst \in Seq([cu : Nat, enclosing : Nat])
      /\ Len(t.cu) \in Nat /\ c \in Nat \ {0} /\ b \in Nat /\ n \in Nat /\ m \in Nat
  BY <1>1, TableFacts DEF TablesTyped
<1>3. /\ shape \in Seq(Descriptors) /\ Len(shape) \in Nat /\ DOMAIN shape = 1..Len(shape)
      /\ Len(nodes) \in Nat /\ DOMAIN nodes = 1..Len(nodes)
      /\ insts \in Seq(0..Len(insts)) /\ Len(insts) \in Nat /\ DOMAIN insts = 1..Len(insts)
      /\ \A k \in 1..Len(nodes) :
           nodes[k] \in [sco : 1..Len(shape), dests : SUBSET (1..Len(nodes))]
  BY <1>1, VersionFacts DEF IsVersion
<1>4. PICK u, F, G, H :
         /\ u = [version |-> v, first |-> b + 1, last |-> b + Len(shape),
                 firstInst |-> m + 1, lastInst |-> m + Len(insts)]
         /\ F = [i \in 1..Len(shape) |-> Relocated(shape[i], c, scoMap, nodeMap)]
         /\ G = [i \in 1..Len(nodes) |-> [sco |-> scoMap[nodes[i].sco],
                                          dests |-> {nodeMap[d] : d \in nodes[i].dests}]]
         /\ H = [i \in 1..Len(insts) |->
                   [cu |-> c, enclosing |-> IF insts[i] = 0 THEN 0 ELSE insts[i] + m]]
  OBVIOUS
<1>5. w.cu = Append(t.cu, u) /\ w.sco = t.sco \o F /\ w.bdd = t.bdd \o G /\ w.inst = t.inst \o H
  <2>1. /\ w.cu = Append(t.cu, u)
        /\ w.sco = t.sco \o [i \in DOMAIN shape |-> Relocated(shape[i], c, scoMap, nodeMap)]
        /\ w.bdd = t.bdd \o [i \in DOMAIN nodes |-> [sco |-> scoMap[nodes[i].sco],
                                                     dests |-> {nodeMap[d] : d \in nodes[i].dests}]]
        /\ w.inst = t.inst \o [i \in DOMAIN insts |->
                   [cu |-> c, enclosing |-> IF insts[i] = 0 THEN 0 ELSE insts[i] + m]]
    BY <1>1, <1>4, Zenon DEF LoadedIn
  <2> QED
    BY <1>3, <1>4, <2>1, Zenon
<1>6. u \in Units
  BY <1>2, <1>3, <1>4 DEF Units
<1>7. F \in [1..Len(shape) -> Descriptors]
  <2>1. \A i \in 1..Len(shape) : Relocated(shape[i], c, scoMap, nodeMap) \in Descriptors
    <3> SUFFICES ASSUME NEW i \in 1..Len(shape)
                 PROVE  Relocated(shape[i], c, scoMap, nodeMap) \in Descriptors
      OBVIOUS
    <3>1. PICK d, r : d = shape[i] /\ r = Relocated(d, c, scoMap, nodeMap)
      OBVIOUS
    <3>2. /\ i \in 1..Len(SCOsOf[v]) /\ d = SCOsOf[v][i]
          /\ r = Relocated(d, c, Shifted(Len(SCOsOf[v]), b), Shifted(Len(NodesOf[v]), n))
      BY <1>1, <3>1
    <3>3. ShapeMoved(d, r, c, b, n)
      BY <1>2, <3>2, RelocatedShape
    <3> QED
      BY <3>1, <3>3 DEF ShapeMoved
  <2> QED
    BY <1>4, <2>1
<1>8. G \in [1..Len(nodes) -> [sco : Nat, dests : SUBSET Nat]]
  <2>1. /\ \A i \in 1..Len(shape) : scoMap[i] \in Nat
        /\ \A i \in 1..Len(nodes) : nodeMap[i] \in Nat
    BY <1>1, <1>2, <1>3, ShiftedValues
  <2>2. ASSUME NEW i \in 1..Len(nodes)
        PROVE  /\ scoMap[nodes[i].sco] \in Nat
               /\ {nodeMap[d] : d \in nodes[i].dests} \in SUBSET Nat
    <3>1. nodes[i].sco \in 1..Len(shape) /\ nodes[i].dests \subseteq 1..Len(nodes)
      BY <1>3
    <3> QED
      BY <2>1, <3>1
  <2> QED
    BY <1>4, <2>2
<1>9. H \in [1..Len(insts) -> [cu : Nat, enclosing : Nat]]
  BY <1>2, <1>3, <1>4
<1>10. /\ w.cu \in Seq(Units) /\ Len(w.cu) = c /\ w.cu[c] = u
       /\ \A k \in 1..Len(t.cu) : w.cu[k] = t.cu[k]
  BY <1>1, <1>2, <1>5, <1>6
<1>11. /\ w.sco \in Seq(Descriptors) /\ Len(w.sco) = b + Len(shape)
       /\ \A i \in 1..b : w.sco[i] = t.sco[i]
       /\ \A k \in 1..Len(shape) : w.sco[b + k] = F[k]
  <2>1. PICK S, q : S = Descriptors /\ q = t.sco
    OBVIOUS
  <2>2. q \in Seq(S) /\ F \in [1..Len(shape) -> S] /\ Len(q) = b
    BY <1>1, <1>2, <1>7, <2>1
  <2>3. IsAppended(q \o F, S, q, Len(shape), F)
    BY <1>3, <2>2, Appending
  <2> QED
    BY <1>5, <2>1, <2>2, <2>3 DEF IsAppended
<1>12. /\ w.bdd \in Seq([sco : Nat, dests : SUBSET Nat]) /\ Len(w.bdd) = n + Len(nodes)
       /\ \A i \in 1..n : w.bdd[i] = t.bdd[i]
       /\ \A k \in 1..Len(nodes) : w.bdd[n + k] = G[k]
  <2>1. PICK S, q : S = [sco : Nat, dests : SUBSET Nat] /\ q = t.bdd
    OBVIOUS
  <2>2. q \in Seq(S) /\ G \in [1..Len(nodes) -> S] /\ Len(q) = n
    BY <1>1, <1>2, <1>8, <2>1
  <2>3. IsAppended(q \o G, S, q, Len(nodes), G)
    BY <1>3, <2>2, Appending
  <2> QED
    BY <1>5, <2>1, <2>2, <2>3 DEF IsAppended
<1>13. /\ w.inst \in Seq([cu : Nat, enclosing : Nat]) /\ Len(w.inst) = m + Len(insts)
       /\ \A i \in 1..m : w.inst[i] = t.inst[i]
       /\ \A k \in 1..Len(insts) : w.inst[m + k] = H[k]
  <2>1. PICK S, q : S = [cu : Nat, enclosing : Nat] /\ q = t.inst
    OBVIOUS
  <2>2. q \in Seq(S) /\ H \in [1..Len(insts) -> S] /\ Len(q) = m
    BY <1>1, <1>2, <1>9, <2>1
  <2>3. IsAppended(q \o H, S, q, Len(insts), H)
    BY <1>3, <2>2, Appending
  <2> QED
    BY <1>5, <2>1, <2>2, <2>3 DEF IsAppended
<1>14. Grows(t, w)
  <2>1. /\ Len(t.cu) <= Len(w.cu) /\ Len(t.sco) <= Len(w.sco)
        /\ Len(t.bdd) <= Len(w.bdd) /\ Len(t.inst) <= Len(w.inst)
    <3>1. Len(shape) \in Nat /\ Len(nodes) \in Nat /\ Len(insts) \in Nat
      BY <1>3
    <3>2. Len(w.cu) = Len(t.cu) + 1 /\ Len(w.sco) = Len(t.sco) + Len(shape)
      BY <1>1, <1>10, <1>11
    <3>3. Len(w.bdd) = Len(t.bdd) + Len(nodes) /\ Len(w.inst) = Len(t.inst) + Len(insts)
      BY <1>1, <1>12, <1>13
    <3>4. Len(t.cu) \in Nat /\ Len(t.sco) \in Nat /\ Len(t.bdd) \in Nat /\ Len(t.inst) \in Nat
      BY <1>1, <1>2
    <3> QED
      BY <3>1, <3>2, <3>3, <3>4, SMTT(30)
  <2> QED
    BY <1>1, <1>10, <1>11, <1>12, <1>13, <2>1 DEF Grows
<1>15. UnitAt(w, c, n)
  <2>1. /\ u.version = v /\ u.first - 1 = b /\ u.firstInst - 1 = m
        /\ u.last = b + Len(shape) /\ u.lastInst = m + Len(insts)
    BY <1>2, <1>4
  <2>2. \A s \in DOMAIN shape : w.sco[b + s] = Relocated(shape[s], c, scoMap, nodeMap)
    BY <1>3, <1>4, <1>11
  <2>3. \A k \in DOMAIN nodes :
          w.bdd[n + k] = [sco |-> scoMap[nodes[k].sco], dests |-> {nodeMap[d] : d \in nodes[k].dests}]
    BY <1>3, <1>4, <1>12
  <2>4. ASSUME NEW i \in DOMAIN insts
        PROVE  w.inst[m + i] = [cu |-> c, enclosing |-> IF insts[i] = 0 THEN 0 ELSE m + insts[i]]
    <3>1. insts[i] \in Nat
      BY <1>3
    <3>2. insts[i] + m = m + insts[i]
      BY <1>2, <3>1
    <3> QED
      BY <1>3, <1>4, <1>13, <3>2
  <2>5. /\ u.last <= Len(w.sco) /\ u.lastInst <= Len(w.inst) /\ n + Len(nodes) <= Len(w.bdd)
    BY <1>2, <1>3, <1>11, <1>12, <1>13, <2>1
  <2>6. /\ shape = SCOsOf[u.version] /\ nodes = NodesOf[u.version] /\ insts = InstancesOf[u.version]
        /\ scoMap = Shifted(Len(shape), u.first - 1) /\ nodeMap = Shifted(Len(nodes), n)
        /\ w.cu[c] = u
    BY <1>1, <1>10, <2>1
  <2>7. IsUnit(w, c, n, u, shape, nodes, insts, scoMap, nodeMap)
    BY <2>6 DEF IsUnit
  <2>8. UnitIs(w, c, n, u, shape, nodes, insts, scoMap, nodeMap)
    BY <2>1, <2>2, <2>3, <2>4, <2>5 DEF UnitIs
  <2> QED
    BY <2>7, <2>8, UnitParts
<1> QED
  BY <1>1, <1>4, <1>10, <1>11, <1>12, <1>13, <1>14, <1>15

\* What the tables hold of the SCO and of the instance of a unit
SCOIs(t, c, n, s) ==
  LET u == t.cu[c]
      x == u.first - 1 + s
      d == SCOsOf[u.version][s]
  IN  /\ x \in 1..Len(t.sco) /\ x \in u.first..u.last
      /\ t.sco[x].origin = c /\ t.sco[x].kind = d.kind /\ t.sco[x].degraded = d.degraded
      /\ t.sco[x].refs = {u.first - 1 + r : r \in d.refs}
      /\ t.sco[x].node = (IF d.node = 0 THEN 0 ELSE n + d.node)
      /\ t.sco[x].lastNode = (IF d.lastNode = 0 THEN 0 ELSE n + d.lastNode)

InstIs(t, c, i) ==
  LET u == t.cu[c]
      x == u.firstInst - 1 + i
      e == InstancesOf[u.version][i]
  IN  /\ x \in 1..Len(t.inst) /\ x \in u.firstInst..u.lastInst
      /\ t.inst[x] = [cu |-> c, enclosing |-> IF e = 0 THEN 0 ELSE u.firstInst - 1 + e]

LEMMA UnitContents ==
  ASSUME NEW t, TablesTyped(t), NEW c \in 1..Len(t.cu), NEW n \in Nat, UnitAt(t, c, n)
  PROVE  /\ \A s \in 1..Len(SCOsOf[t.cu[c].version]) : SCOIs(t, c, n, s)
         /\ \A i \in 1..Len(InstancesOf[t.cu[c].version]) : InstIs(t, c, i)
<1>1. PICK u, shape, nodes, insts, scoMap, nodeMap :
         IsUnit(t, c, n, u, shape, nodes, insts, scoMap, nodeMap)
  BY DEF IsUnit
<1>2. PICK b, a : b = u.first - 1 /\ a = u.firstInst - 1
  OBVIOUS
<1>3. /\ u.first \in Nat \ {0} /\ u.firstInst \in Nat \ {0} /\ u.version \in Versions
      /\ u = t.cu[c] /\ c \in Nat
  BY <1>1, TableFacts DEF IsUnit
<1>4. /\ b \in Nat /\ u.first = b + 1 /\ a \in Nat /\ u.firstInst = a + 1
  BY <1>2, <1>3
<1>5. /\ Len(shape) \in Nat /\ DOMAIN shape = 1..Len(shape)
      /\ Len(insts) \in Nat /\ DOMAIN insts = 1..Len(insts)
  BY <1>1, <1>3, VersionFacts DEF IsVersion, IsUnit
<1>6. UnitIs(t, c, n, u, shape, nodes, insts, scoMap, nodeMap)
  BY <1>1, UnitParts
<1>7. /\ u.last = b + Len(shape) /\ u.last <= Len(t.sco)
      /\ u.lastInst = a + Len(insts) /\ u.lastInst <= Len(t.inst)
      /\ Len(t.sco) \in Nat /\ Len(t.inst) \in Nat
      /\ \A s \in DOMAIN shape : t.sco[b + s] = Relocated(shape[s], c, scoMap, nodeMap)
      /\ \A i \in DOMAIN insts :
           t.inst[a + i] = [cu |-> c, enclosing |-> IF insts[i] = 0 THEN 0 ELSE a + insts[i]]
  BY <1>2, <1>6, TableFacts DEF UnitIs
<1>8. ASSUME NEW s \in 1..Len(shape) PROVE SCOIs(t, c, n, s)
  <2>1. PICK d, r : d = shape[s] /\ r = t.sco[b + s]
    OBVIOUS
  <2>2. r = Relocated(d, c, Shifted(Len(SCOsOf[u.version]), b), Shifted(Len(NodesOf[u.version]), n))
    BY <1>1, <1>2, <1>5, <1>7, <2>1 DEF IsUnit
  <2>3. shape = SCOsOf[u.version]
    BY <1>1 DEF IsUnit
  <2>4. /\ r.origin = c /\ r.kind = d.kind /\ r.degraded = d.degraded
        /\ r.refs = {b + x : x \in d.refs}
        /\ r.node = (IF d.node = 0 THEN 0 ELSE n + d.node)
        /\ r.lastNode = (IF d.lastNode = 0 THEN 0 ELSE n + d.lastNode)
    <3>1. ShapeMoved(d, r, c, b, n)
      BY <1>3, <1>4, <2>1, <2>2, <2>3, RelocatedShape
    <3> QED
      BY <3>1 DEF ShapeMoved
  <2>5. b + s \in 1..Len(t.sco) /\ b + s \in u.first..u.last
    BY <1>4, <1>5, <1>7
  <2> QED
    BY <1>2, <1>3, <2>1, <2>3, <2>4, <2>5 DEF SCOIs
<1>9. ASSUME NEW i \in 1..Len(insts) PROVE InstIs(t, c, i)
  <2>1. a + i \in 1..Len(t.inst) /\ a + i \in u.firstInst..u.lastInst
    BY <1>4, <1>5, <1>7
  <2>2. t.inst[a + i] = [cu |-> c, enclosing |-> IF insts[i] = 0 THEN 0 ELSE a + insts[i]]
    BY <1>5, <1>7
  <2>3. insts = InstancesOf[u.version]
    BY <1>1 DEF IsUnit
  <2> QED
    BY <1>2, <1>3, <2>1, <2>2, <2>3 DEF InstIs
<1> QED
  BY <1>1, <1>8, <1>9 DEF IsUnit

\* Tables are still concatenations of units when a unit is added
LEMMA LoadedWellFormed ==
  ASSUME NEW t, NEW w, WellFormed(t), NEW v \in Versions, LoadedIn(t, w, v),
         \A c \in 1..Len(t.cu) : UnitOf[t.cu[c].version] # UnitOf[v],
         w.sci = t.sci, w.provider = t.provider
  PROVE  WellFormed(w)
<1>1. TablesTyped(t) /\ OriginsRight(t) /\ UnitsOnce(t)
  BY DEF WellFormed
<1>2. PICK m, b, l, k : m = Len(t.cu) /\ b = Len(t.sco) /\ l = Len(SCOsOf[v]) /\ k = Len(w.cu)
  OBVIOUS
<1>3. /\ w.cu \in Seq(Units) /\ w.sco \in Seq(Descriptors)
      /\ w.bdd \in Seq([sco : Nat, dests : SUBSET Nat])
      /\ w.inst \in Seq([cu : Nat, enclosing : Nat])
      /\ k = m + 1 /\ w.cu[k].version = v /\ w.cu[k].first = b + 1
      /\ Len(w.sco) = b + l
      /\ Grows(t, w) /\ UnitAt(w, k, Len(t.bdd))
  BY <1>1, <1>2, UnitLoaded
<1>4. m \in Nat /\ b \in Nat /\ l \in Nat /\ Len(t.bdd) \in Nat
  BY <1>1, <1>2, TableFacts, VersionFacts DEF IsVersion
<1>5. TablesTyped(w)
  <2>1. t.sci \subseteq [sco : 1..b, tag : Nat, value : BOOLEAN] /\ t.provider \in Providers
    BY <1>1, <1>2 DEF TablesTyped
  <2>2. 1..b \subseteq 1..(b + l)
    BY <1>4
  <2>3. [sco : 1..b, tag : Nat, value : BOOLEAN] \subseteq [sco : 1..(b + l), tag : Nat, value : BOOLEAN]
    BY <2>2
  <2>4. w.sci \subseteq [sco : 1..Len(w.sco), tag : Nat, value : BOOLEAN]
    BY <1>3, <2>1, <2>3
  <2> QED
    BY <1>3, <2>1, <2>4 DEF TablesTyped
<1>6. \A c \in 1..m : c \in 1..k /\ w.cu[c] = t.cu[c]
  BY <1>2, <1>3, <1>4 DEF Grows
<1>7. \A s \in 1..b : w.sco[s] = t.sco[s]
  BY <1>2, <1>3 DEF Grows
<1>8. OriginsRight(w)
  <2>1. ASSUME NEW s \in 1..Len(w.sco)
        PROVE  w.sco[s].origin \in 1..k /\ s \in w.cu[w.sco[s].origin].first..w.cu[w.sco[s].origin].last
    <3>1. CASE s \in 1..b
      BY <1>1, <1>2, <1>6, <1>7, <3>1 DEF OriginsRight
    <3>2. CASE s \notin 1..b
      <4>1. PICK x \in 1..l : s = b + x
        <5>1. s - b \in 1..l /\ s = b + (s - b)
          BY <1>3, <1>4, <3>2
        <5> QED
          BY <5>1
      <4>2. SCOIs(w, k, Len(t.bdd), x)
        <5>1. k \in 1..Len(w.cu)
          BY <1>2, <1>3, <1>4
        <5>2. x \in 1..Len(SCOsOf[w.cu[k].version])
          BY <1>2, <1>3
        <5> QED
          BY <1>3, <1>4, <1>5, <5>1, <5>2, UnitContents
      <4>3. w.cu[k].first - 1 + x = s
        BY <1>3, <1>4, <4>1
      <4>4. w.sco[s].origin = k /\ s \in w.cu[k].first..w.cu[k].last
        BY <4>2, <4>3 DEF SCOIs
      <4> QED
        BY <1>3, <1>4, <4>4
    <3> QED
      BY <3>1, <3>2
  <2>2. ASSUME NEW x \in w.sci
        PROVE  LET u == w.cu[w.sco[x.sco].origin]
               IN  x.tag = 0 \/ x.tag \in u.firstInst..u.lastInst
    <3>1. x \in t.sci /\ x.sco \in 1..b
      BY <1>1, <1>2, <2>2 DEF TablesTyped
    <3>2. t.sco[x.sco].origin \in 1..m
      BY <1>1, <1>2, <3>1 DEF OriginsRight
    <3>3. w.cu[w.sco[x.sco].origin] = t.cu[t.sco[x.sco].origin]
      BY <1>6, <1>7, <3>1, <3>2
    <3> QED
      BY <1>1, <3>1, <3>3 DEF OriginsRight
  <2> QED
    BY <1>2, <2>1, <2>2 DEF OriginsRight
<1>9. UnitsOnce(w)
  <2> SUFFICES ASSUME NEW c \in 1..k, NEW d \in 1..k,
                      UnitOf[w.cu[c].version] = UnitOf[w.cu[d].version]
               PROVE  c = d
    BY <1>2 DEF UnitsOnce
  <2>1. (c \in 1..m \/ c = k) /\ (d \in 1..m \/ d = k)
    <3>1. k = m + 1
      BY <1>3
    <3> QED
      BY <1>4, <3>1
  <2> QED
    BY <1>1, <1>2, <1>3, <1>6, <2>1 DEF UnitsOnce
<1>10. ASSUME NEW c \in 1..Len(w.cu) PROVE \E n \in Nat : UnitAt(w, c, n)
  <2>1. CASE c = k
    BY <1>3, <1>4, <2>1
  <2>2. CASE c # k
    <3>1. c \in 1..Len(t.cu)
      BY <1>2, <1>3, <1>4, <2>2
    <3>2. PICK n \in Nat : UnitAt(t, c, n)
      BY <3>1 DEF WellFormed
    <3>3. Len(w.sco) \in Nat /\ Len(w.bdd) \in Nat /\ Len(w.inst) \in Nat
      BY <1>3
    <3> QED
      BY <1>1, <1>3, <3>1, <3>2, <3>3, UnitGrown
  <2> QED
    BY <2>1, <2>2
<1> QED
  BY <1>5, <1>8, <1>9, <1>10 DEF WellFormed

----------------------------------------------------------------------------
(* A unit that a checkpoint adds is loaded as its SCOs would be.           *)

\* No SCO was removed from a unit
NothingRemoved ==
  \A v \in Versions : \A s \in DOMAIN SCOsOf[v] : SCOsOf[v][s].kind # "Removed"

LEMMA PositionInRange ==
  ASSUME NEW a \in Nat, NEW m \in Nat, NEW k \in 1..m
  PROVE  Position((a + 1)..(a + m), a + k) = k
<1>1. {y \in (a + 1)..(a + m) : y <= a + k} = (a + 1)..(a + k)
  OBVIOUS
<1>2. a + 1 \in Int /\ a + k \in Int /\ ~(a + 1 > a + k) /\ (a + k) - (a + 1) + 1 = k
  OBVIOUS
<1>3. Cardinality((a + 1)..(a + k)) = k
  BY <1>2, FS_Interval
<1> QED
  BY <1>1, <1>3 DEF Position

LEMMA NthInRange ==
  ASSUME NEW a \in Nat, NEW m \in Nat, NEW S, S = (a + 1)..(a + m)
  PROVE  /\ Cardinality(S) = m /\ IsFiniteSet(S)
         /\ \A k \in 1..m : Nth(S, k) = a + k
<1>1. Cardinality(S) = m /\ IsFiniteSet(S)
  <2>1. a + 1 \in Int /\ a + m \in Int
    OBVIOUS
  <2>2. Cardinality(S) = (IF a + 1 > a + m THEN 0 ELSE (a + m) - (a + 1) + 1) /\ IsFiniteSet(S)
    BY <2>1, FS_Interval
  <2>3. (IF a + 1 > a + m THEN 0 ELSE (a + m) - (a + 1) + 1) = m
    OBVIOUS
  <2> QED
    BY <2>2, <2>3
<1>2. ASSUME NEW k \in 1..m PROVE Nth(S, k) = a + k
  <2>1. a + k \in S /\ Position(S, a + k) = k
    BY PositionInRange
  <2>2. ASSUME NEW x \in S, Position(S, x) = k PROVE x = a + k
    <3>1. x - a \in 1..m /\ x = a + (x - a)
      OBVIOUS
    <3>2. PICK i \in 1..m : x = a + i
      BY <3>1
    <3>3. Position(S, x) = i
      BY <3>2, PositionInRange
    <3> QED
      BY <2>2, <3>2, <3>3
  <2> QED
    BY <2>1, <2>2 DEF Nth
<1> QED
  BY <1>1, <1>2

\* The unit u of the checkpoint that is loaded next, number j
NextUnit(j, n, u, shape, nodes, insts, b, a) ==
  /\ j = Len(relocs.cu) + 1 /\ u = CPUnit /\ u = input.cu[j] /\ j \in 1..Len(input.cu)
  /\ shape = SCOsOf[u.version] /\ nodes = NodesOf[u.version] /\ insts = InstancesOf[u.version]
  /\ b = u.first - 1 /\ a = u.firstInst - 1 /\ b \in Nat /\ a \in Nat /\ n \in Nat
  /\ u.first = b + 1 /\ u.firstInst = a + 1 /\ u \in Units
  /\ IsVersion(shape, nodes, insts)
  /\ u.last = b + Len(shape) /\ u.lastInst = a + Len(insts)
  /\ u.last <= Len(input.sco) /\ u.lastInst <= Len(input.inst) /\ n + Len(nodes) <= Len(input.bdd)
  /\ \A s \in 1..Len(shape) : SCOIs(input, j, n, s)
  /\ \A i \in 1..Len(insts) : InstIs(input, j, i)
  /\ \A k \in 1..Len(nodes) :
       input.bdd[n + k] = [sco |-> b + nodes[k].sco, dests |-> {n + d : d \in nodes[k].dests}]

LEMMA NextUnitFound ==
  ASSUME WellFormed(input), LoadingUnit, Len(relocs.cu) \in Nat
  PROVE  \E j, n, u, shape, nodes, insts, b, a : NextUnit(j, n, u, shape, nodes, insts, b, a)
<1>1. PICK j : j = Len(relocs.cu) + 1
  OBVIOUS
<1>2. TablesTyped(input) /\ j \in 1..Len(input.cu)
  BY <1>1, TableFacts DEF WellFormed, LoadingUnit
<1>3. PICK n \in Nat : UnitAt(input, j, n)
  BY <1>2 DEF WellFormed
<1>4. PICK u, shape, nodes, insts, scoMap, nodeMap :
         IsUnit(input, j, n, u, shape, nodes, insts, scoMap, nodeMap)
  BY DEF IsUnit
<1>5. PICK b, a : b = u.first - 1 /\ a = u.firstInst - 1
  OBVIOUS
<1>6. /\ u = input.cu[j] /\ u = CPUnit /\ u \in Units /\ u.version \in Versions
      /\ b \in Nat /\ a \in Nat /\ u.first = b + 1 /\ u.firstInst = a + 1
  <2>1. u = input.cu[j] /\ u = CPUnit
    BY <1>1, <1>4 DEF IsUnit, CPUnit
  <2>2. /\ u \in Units /\ u.version \in Versions
        /\ u.first \in Nat \ {0} /\ u.firstInst \in Nat \ {0}
    BY <1>2, <2>1, TableFacts
  <2> QED
    BY <1>5, <2>1, <2>2
<1>7. IsVersion(shape, nodes, insts)
  BY <1>4, <1>6, VersionFacts DEF IsUnit
<1>8. UnitIs(input, j, n, u, shape, nodes, insts, scoMap, nodeMap)
  BY <1>3, <1>4, UnitParts
<1>9. /\ u.last = b + Len(shape) /\ u.lastInst = a + Len(insts)
      /\ u.last <= Len(input.sco) /\ u.lastInst <= Len(input.inst) /\ n + Len(nodes) <= Len(input.bdd)
  BY <1>5, <1>8 DEF UnitIs
<1>10. /\ \A s \in 1..Len(shape) : SCOIs(input, j, n, s)
       /\ \A i \in 1..Len(insts) : InstIs(input, j, i)
  <2>1. shape = SCOsOf[input.cu[j].version] /\ insts = InstancesOf[input.cu[j].version]
    BY <1>4 DEF IsUnit
  <2> QED
    BY <1>2, <1>3, <2>1, UnitContents
<1>11. ASSUME NEW k \in 1..Len(nodes)
       PROVE  input.bdd[n + k] = [sco |-> b + nodes[k].sco, dests |-> {n + d : d \in nodes[k].dests}]
  <2>1. /\ nodes[k] \in [sco : 1..Len(shape), dests : SUBSET (1..Len(nodes))]
        /\ Len(shape) \in Nat /\ Len(nodes) \in Nat /\ k \in DOMAIN nodes
    BY <1>7 DEF IsVersion
  <2>2. scoMap = Shifted(Len(shape), b) /\ nodeMap = Shifted(Len(nodes), n)
    BY <1>4, <1>5 DEF IsUnit
  <2>3. /\ scoMap[nodes[k].sco] = b + nodes[k].sco
        /\ \A d \in nodes[k].dests : nodeMap[d] = n + d
    BY <1>6, <2>1, <2>2, ShiftedValues
  <2>4. input.bdd[n + k] = [sco |-> scoMap[nodes[k].sco], dests |-> {nodeMap[d] : d \in nodes[k].dests}]
    BY <1>8, <2>1 DEF UnitIs
  <2>5. {nodeMap[d] : d \in nodes[k].dests} = {n + d : d \in nodes[k].dests}
    BY <2>3
  <2> QED
    BY <2>3, <2>4, <2>5
<1>12. shape = SCOsOf[u.version] /\ nodes = NodesOf[u.version] /\ insts = InstancesOf[u.version]
  BY <1>4 DEF IsUnit
<1>13. NextUnit(j, n, u, shape, nodes, insts, b, a)
  BY <1>1, <1>2, <1>3, <1>5, <1>6, <1>7, <1>9, <1>10, <1>11, <1>12 DEF NextUnit
<1> QED
  BY <1>13

\* All SCOs of the unit are loaded, and all the nodes of its decisions
LEMMA AllKept ==
  ASSUME NothingRemoved, NEW j, NEW n, NEW u, NEW shape, NEW nodes, NEW insts, NEW b, NEW a,
         NextUnit(j, n, u, shape, nodes, insts, b, a)
  PROVE  Kept = (b + 1)..(b + Len(shape)) /\ KeptNodes = (n + 1)..(n + Len(nodes))
<1>1. /\ u = CPUnit /\ u = input.cu[j] /\ u.first = b + 1 /\ u.last = b + Len(shape)
      /\ b \in Nat /\ n \in Nat /\ u.first - 1 = b /\ u.version \in Versions
      /\ shape = SCOsOf[u.version]
      /\ \A s \in 1..Len(shape) : SCOIs(input, j, n, s)
  BY DEF NextUnit, Units
<1>2. PICK l, m : l = Len(shape) /\ m = Len(nodes)
  OBVIOUS
<1>3. /\ l \in Nat /\ m \in Nat /\ DOMAIN shape = 1..l
      /\ \A s \in 1..l :
           /\ shape[s].node \in 0..m /\ shape[s].lastNode \in 0..m
           /\ shape[s].kind = "Decision" => shape[s].node # 0 /\ shape[s].lastNode # 0
      /\ \A k \in 1..m : \E s \in 1..l :
           shape[s].kind = "Decision" /\ k \in shape[s].node..shape[s].lastNode
  <2>1. IsVersion(shape, nodes, insts)
    BY DEF NextUnit
  <2>2. /\ l \in Nat /\ m \in Nat /\ DOMAIN shape = 1..l /\ DOMAIN nodes = 1..m
    BY <1>2, <2>1 DEF IsVersion
  <2>3. \A s \in 1..Len(shape) :
          /\ shape[s].node \in 0..Len(nodes) /\ shape[s].lastNode \in 0..Len(nodes)
          /\ shape[s].kind = "Decision" => shape[s].node # 0 /\ shape[s].lastNode # 0
    BY <2>1, Zenon DEF IsVersion
  <2>4. \A k \in 1..Len(nodes) : \E s \in 1..Len(shape) :
          shape[s].kind = "Decision" /\ k \in shape[s].node..shape[s].lastNode
    BY <2>1, Zenon DEF IsVersion
  <2> QED
    BY <1>2, <2>2, <2>3, <2>4, Zenon
<1>4. \A s \in 1..l :
         /\ input.sco[b + s].kind = shape[s].kind /\ shape[s].kind # "Removed"
         /\ input.sco[b + s].node = (IF shape[s].node = 0 THEN 0 ELSE n + shape[s].node)
         /\ input.sco[b + s].lastNode = (IF shape[s].lastNode = 0 THEN 0 ELSE n + shape[s].lastNode)
  <2> SUFFICES ASSUME NEW s \in 1..l
               PROVE  /\ input.sco[b + s].kind = shape[s].kind /\ shape[s].kind # "Removed"
                      /\ input.sco[b + s].node
                           = (IF shape[s].node = 0 THEN 0 ELSE n + shape[s].node)
                      /\ input.sco[b + s].lastNode
                           = (IF shape[s].lastNode = 0 THEN 0 ELSE n + shape[s].lastNode)
    OBVIOUS
  <2>1. SCOIs(input, j, n, s)
    BY <1>1, <1>2
  <2>2. shape[s].kind # "Removed"
    BY <1>1, <1>3 DEF NothingRemoved
  <2>3. input.cu[j].first - 1 = b /\ SCOsOf[input.cu[j].version] = shape
    BY <1>1
  <2> QED
    BY <2>1, <2>2, <2>3 DEF SCOIs
<1>5. \A x \in (b + 1)..(b + l) : \E s \in 1..l : x = b + s
  <2> SUFFICES ASSUME NEW x \in (b + 1)..(b + l) PROVE \E s \in 1..l : x = b + s
    OBVIOUS
  <2>0. b \in Nat /\ l \in Nat
    BY <1>1, <1>3
  <2>1. x - b \in 1..l /\ x = b + (x - b)
    BY <2>0
  <2> QED
    BY <2>1
<1>6. Kept = (b + 1)..(b + l)
  <2>1. Kept = {s \in (b + 1)..(b + l) : input.sco[s].kind # "Removed"}
    BY <1>1, <1>2 DEF Kept
  <2> QED
    BY <1>4, <1>5, <2>1
<1>7. ASSUME NEW s \in 1..l, shape[s].kind = "Decision"
      PROVE  /\ input.sco[b + s].node = n + shape[s].node
             /\ input.sco[b + s].lastNode = n + shape[s].lastNode
             /\ shape[s].node \in 1..m /\ shape[s].lastNode \in 1..m
  BY <1>3, <1>4, <1>7
<1>8. PICK D : D = {s \in Kept : input.sco[s].kind = "Decision"}
  OBVIOUS
<1>9. KeptNodes = UNION {input.sco[s].node..input.sco[s].lastNode : s \in D}
  BY <1>8 DEF KeptNodes
<1>10. ASSUME NEW x \in KeptNodes PROVE x \in (n + 1)..(n + m)
  <2>1. PICK y \in D : x \in input.sco[y].node..input.sco[y].lastNode
    BY <1>9
  <2>2. PICK s \in 1..l : y = b + s
    BY <1>5, <1>6, <1>8
  <2>3. shape[s].kind = "Decision"
    BY <1>4, <1>8, <2>2
  <2>4. /\ input.sco[y].node = n + shape[s].node /\ input.sco[y].lastNode = n + shape[s].lastNode
        /\ shape[s].node \in 1..m /\ shape[s].lastNode \in 1..m
    BY <1>7, <2>2, <2>3
  <2> QED
    <3>1. PICK p, q : p = shape[s].node /\ q = shape[s].lastNode
      OBVIOUS
    <3>2. p \in 1..m /\ q \in 1..m /\ x \in (n + p)..(n + q)
      BY <2>1, <2>4, <3>1
    <3>3. n \in Nat /\ m \in Nat
      BY <1>1, <1>3
    <3> QED
      BY <3>2, <3>3
<1>11. ASSUME NEW x \in (n + 1)..(n + m) PROVE x \in KeptNodes
  <2>0. b \in Nat /\ l \in Nat /\ n \in Nat /\ m \in Nat
    BY <1>1, <1>3
  <2>1. x - n \in 1..m /\ x = n + (x - n)
    BY <2>0
  <2>2. PICK k \in 1..m : x = n + k
    BY <2>1
  <2>3. PICK s \in 1..l : shape[s].kind = "Decision" /\ k \in shape[s].node..shape[s].lastNode
    BY <1>3
  <2>4. /\ input.sco[b + s].node = n + shape[s].node /\ input.sco[b + s].lastNode = n + shape[s].lastNode
        /\ shape[s].node \in 1..m /\ shape[s].lastNode \in 1..m
    BY <1>7, <2>3
  <2>5. b + s \in (b + 1)..(b + l)
    BY <2>0
  <2>6. b + s \in D
    BY <1>4, <1>6, <1>8, <2>3, <2>5
  <2>7. x \in input.sco[b + s].node..input.sco[b + s].lastNode
    <3>1. PICK p, q : p = shape[s].node /\ q = shape[s].lastNode
      OBVIOUS
    <3>2. p \in 1..m /\ q \in 1..m /\ k \in p..q
      BY <2>3, <2>4, <3>1
    <3>3. n + k \in (n + p)..(n + q)
      BY <2>0, <3>2
    <3> QED
      BY <2>2, <2>4, <3>1, <3>3
  <2> QED
    BY <1>9, <2>6, <2>7
<1> QED
  BY <1>2, <1>6, <1>10, <1>11

\* How the identifiers of the unit are mapped while it is loaded
LEMMA NewMaps ==
  ASSUME NothingRemoved, NEW j, NEW n, NEW u, NEW shape, NEW nodes, NEW insts, NEW b, NEW a,
         NextUnit(j, n, u, shape, nodes, insts, b, a), TablesTyped(input),
         Len(sco) \in Nat, Len(bdd) \in Nat
  PROVE  /\ \A s \in 1..Len(shape) : NewSCOMap[b + s] = Len(sco) + s
         /\ \A k \in 1..Len(nodes) : NodeMap[n + k] = Len(bdd) + k
         /\ \A k \in 1..Len(nodes) : ConditionOf(n + k) = Len(sco) + nodes[k].sco
<1>1. PICK l, m, x, y : l = Len(shape) /\ m = Len(nodes) /\ x = Len(sco) /\ y = Len(bdd)
  OBVIOUS
<1>2. /\ u = CPUnit /\ u.first = b + 1 /\ b \in Nat /\ n \in Nat
      /\ u.first - 1 = b /\ u = input.cu[j] /\ shape = SCOsOf[u.version]
      /\ b + l <= Len(input.sco) /\ n + m <= Len(input.bdd)
      /\ l \in Nat /\ m \in Nat /\ x \in Nat /\ y \in Nat
  BY <1>1 DEF NextUnit, IsVersion
<1>3. /\ Kept = (b + 1)..(b + l) /\ KeptNodes = (n + 1)..(n + m)
      /\ DOMAIN input.sco = 1..Len(input.sco) /\ Len(input.sco) \in Nat
      /\ DOMAIN input.bdd = 1..Len(input.bdd) /\ Len(input.bdd) \in Nat
  BY <1>1, AllKept, TableFacts
<1>4. ASSUME NEW s \in 1..l PROVE NewSCOMap[b + s] = x + s
  <2>1. b + s \in DOMAIN input.sco
    BY <1>2, <1>3
  <2>2. NewSCOMap[b + s] = x + 1 + (b + s) - (b + 1)
    BY <1>1, <1>2, <2>1 DEF NewSCOMap
  <2> QED
    BY <1>2, <2>2
<1>5. ASSUME NEW k \in 1..m PROVE NodeMap[n + k] = y + k
  <2>1. n + k \in DOMAIN input.bdd /\ n + k \in KeptNodes
    BY <1>2, <1>3
  <2>2. NodeMap[n + k] = y + Position(KeptNodes, n + k)
    BY <1>1, <2>1 DEF NodeMap
  <2>3. Position(KeptNodes, n + k) = k
    BY <1>2, <1>3, PositionInRange
  <2> QED
    BY <2>2, <2>3
<1>6. ASSUME NEW k \in 1..m PROVE ConditionOf(n + k) = x + nodes[k].sco
  <2>1. PICK i : i = nodes[k].sco
    OBVIOUS
  <2>2. /\ i \in 1..l /\ shape[i].kind = "Condition" /\ shape[i].node = k
    BY <1>1, <2>1 DEF NextUnit, IsVersion
  <2>3. SCOIs(input, j, n, i)
    BY <1>1, <2>2 DEF NextUnit
  <2>4. k # 0
    BY <1>2
  <2>5. input.sco[b + i].kind = "Condition" /\ input.sco[b + i].node = n + k
    BY <1>2, <2>2, <2>3, <2>4 DEF SCOIs
  <2>6. b + i \in Kept
    BY <1>2, <1>3, <2>2
  <2>7. input.bdd[n + k].sco = b + i
    <3>1. k \in 1..Len(nodes)
      BY <1>1
    <3>2. input.bdd[n + k] = [sco |-> b + nodes[k].sco, dests |-> {n + d : d \in nodes[k].dests}]
      BY <3>1 DEF NextUnit
    <3> QED
      BY <2>1, <3>2
  <2>8. ConditionOf(n + k) = NewSCOMap[b + i]
    BY <2>5, <2>6, <2>7 DEF ConditionOf
  <2> QED
    BY <1>4, <2>1, <2>2, <2>8
<1> QED
  BY <1>1, <1>4, <1>5, <1>6

LEMMA NewUnitLoaded ==
  ASSUME NothingRemoved, TablesTyped(Checkpoint), TablesTyped(input),
         NEW j, NEW n, NEW u, NEW shape, NEW nodes, NEW insts, NEW b, NEW a,
         NextUnit(j, n, u, shape, nodes, insts, b, a), LoadNewUnit
  PROVE  LoadedIn(Checkpoint, Checkpoint', u.version)
<1>1. PICK t, w : t = Checkpoint /\ w = Checkpoint'
  OBVIOUS
<1>2. /\ t.cu = cu /\ t.sco = sco /\ t.bdd = bdd /\ t.inst = inst
      /\ w.cu = cu' /\ w.sco = sco' /\ w.bdd = bdd' /\ w.inst = inst'
  BY <1>1 DEF Checkpoint
<1>3. PICK l, m, o, x, y, z, c, by :
         /\ l = Len(shape) /\ m = Len(nodes) /\ o = Len(insts)
         /\ x = Len(sco) /\ y = Len(bdd) /\ z = Len(inst) /\ c = Len(cu) + 1 /\ by = z + 1 - u.firstInst
  OBVIOUS
<1>4. /\ u = CPUnit /\ u.first = b + 1 /\ u.firstInst = a + 1 /\ b \in Nat /\ a \in Nat /\ n \in Nat
      /\ u.last = b + l /\ u.lastInst = a + o /\ u \in Units
      /\ u = input.cu[j] /\ u.first - 1 = b /\ u.firstInst - 1 = a
      /\ shape = SCOsOf[u.version] /\ nodes = NodesOf[u.version] /\ insts = InstancesOf[u.version]
      /\ l \in Nat /\ m \in Nat /\ o \in Nat
      /\ DOMAIN shape = 1..l /\ DOMAIN nodes = 1..m /\ DOMAIN insts = 1..o
  BY <1>3 DEF NextUnit, IsVersion
<1>5. /\ x \in Nat /\ y \in Nat /\ z \in Nat /\ c \in Nat
      /\ by \in Int /\ by = z - a
  <2>1. TablesTyped(t)
    BY <1>1
  <2>2. Len(t.cu) \in Nat /\ Len(t.sco) \in Nat /\ Len(t.bdd) \in Nat /\ Len(t.inst) \in Nat
    BY <2>1, TableFacts
  <2>3. x \in Nat /\ y \in Nat /\ z \in Nat /\ c \in Nat
    BY <1>2, <1>3, <2>2
  <2>4. by = z + 1 - (a + 1)
    BY <1>3, <1>4
  <2> QED
    BY <1>4, <2>3, <2>4
<1>6. /\ \A s \in 1..l : NewSCOMap[b + s] = x + s
      /\ \A k \in 1..m : NodeMap[n + k] = y + k
      /\ \A k \in 1..m : ConditionOf(n + k) = x + nodes[k].sco
  BY <1>3, <1>5, NewMaps
<1>7. PICK scoMap, nodeMap : scoMap = Shifted(l, x) /\ nodeMap = Shifted(m, y)
  OBVIOUS
<1>8. /\ \A s \in 1..l : scoMap[s] = x + s
      /\ \A k \in 1..m : nodeMap[k] = y + k
  <2>1. l \in Nat /\ x \in Nat /\ m \in Nat /\ y \in Nat
    BY <1>4, <1>5
  <2>2. \A s \in 1..l : Shifted(l, x)[s] = x + s
    BY <2>1, ShiftedValues
  <2>3. \A k \in 1..m : Shifted(m, y)[k] = y + k
    BY <2>1, ShiftedValues
  <2> QED
    BY <1>7, <2>2, <2>3, Zenon
<1>9. /\ Cardinality(Kept) = l /\ \A k \in 1..l : Nth(Kept, k) = b + k
      /\ Cardinality(KeptNodes) = m /\ \A k \in 1..m : Nth(KeptNodes, k) = n + k
  <2>1. Kept = (b + 1)..(b + l) /\ KeptNodes = (n + 1)..(n + m)
    BY <1>3, AllKept
  <2>2. Cardinality(Kept) = l /\ \A k \in 1..l : Nth(Kept, k) = b + k
    <3>1. \A S : S = (b + 1)..(b + l) => Cardinality(S) = l /\ \A k \in 1..l : Nth(S, k) = b + k
      <4>1. b \in Nat /\ l \in Nat
        BY <1>4
      <4> QED
        BY <4>1, NthInRange
    <3> QED
      BY <2>1, <3>1, Zenon
  <2>3. Cardinality(KeptNodes) = m /\ \A k \in 1..m : Nth(KeptNodes, k) = n + k
    <3>1. \A S : S = (n + 1)..(n + m) => Cardinality(S) = m /\ \A k \in 1..m : Nth(S, k) = n + k
      <4>1. n \in Nat /\ m \in Nat
        BY <1>4
      <4> QED
        BY <4>1, NthInRange
    <3> QED
      BY <2>1, <3>1, Zenon
  <2> QED
    BY <2>2, <2>3
<1>10. cu' = Append(cu, [version |-> u.version, first |-> x + 1, last |-> x + l,
                         firstInst |-> z + 1, lastInst |-> z + o])
  <2>1. cu' = Append(cu, [u EXCEPT !.first = x + 1, !.last = x + 1 + @ - u.first,
                                   !.firstInst = @ + by, !.lastInst = @ + by])
    BY <1>3, <1>4 DEF LoadNewUnit
  <2>2. /\ x + 1 + (b + l) - (b + 1) = x + l
        /\ (a + 1) + by = z + 1 /\ (a + o) + by = z + o
    BY <1>4, <1>5
  <2>3. PICK v, p, q, r, s :
           u = [version |-> v, first |-> p, last |-> q, firstInst |-> r, lastInst |-> s]
    BY <1>4 DEF Units
  <2>4. p = b + 1 /\ q = b + l /\ r = a + 1 /\ s = a + o
    BY <1>4, <2>3
  <2>40. PICK e, f, g, h : e = x + 1 /\ f = x + 1 + q - p /\ g = r + by /\ h = s + by
    OBVIOUS
  <2>41. [u EXCEPT !.first = x + 1, !.last = x + 1 + @ - u.first,
                   !.firstInst = @ + by, !.lastInst = @ + by]
           = [u EXCEPT !.first = e, !.last = f, !.firstInst = g, !.lastInst = h]
    BY <2>3, <2>40
  <2>42. [u EXCEPT !.first = e, !.last = f, !.firstInst = g, !.lastInst = h]
           = [version |-> v, first |-> e, last |-> f, firstInst |-> g, lastInst |-> h]
    <3>1. PICK d1 : d1 = [u EXCEPT !.first = e]
      OBVIOUS
    <3>2. d1 = [version |-> v, first |-> e, last |-> q, firstInst |-> r, lastInst |-> s]
      BY <2>3, <3>1
    <3>3. PICK d2 : d2 = [d1 EXCEPT !.last = f]
      OBVIOUS
    <3>4. d2 = [version |-> v, first |-> e, last |-> f, firstInst |-> r, lastInst |-> s]
      BY <3>2, <3>3
    <3>5. PICK d3 : d3 = [d2 EXCEPT !.firstInst = g]
      OBVIOUS
    <3>6. d3 = [version |-> v, first |-> e, last |-> f, firstInst |-> g, lastInst |-> s]
      BY <3>4, <3>5
    <3>7. [d3 EXCEPT !.lastInst = h]
            = [version |-> v, first |-> e, last |-> f, firstInst |-> g, lastInst |-> h]
      BY <3>6
    <3>8. [u EXCEPT !.first = e, !.last = f, !.firstInst = g, !.lastInst = h]
            = [d3 EXCEPT !.lastInst = h]
      BY <3>1, <3>3, <3>5
    <3> QED
      BY <3>7, <3>8
  <2>5. f = x + l /\ g = z + 1 /\ h = z + o
    BY <2>2, <2>4, <2>40
  <2>6. v = u.version
    BY <2>3
  <2> QED
    BY <2>1, <2>40, <2>41, <2>42, <2>5, <2>6
<1>11. sco' = sco \o [i \in DOMAIN shape |-> Relocated(shape[i], c, scoMap, nodeMap)]
  <2>1. sco' = sco \o [k \in 1..l |-> Relocated(input.sco[Nth(Kept, k)], c, NewSCOMap, NodeMap)]
    BY <1>3, <1>9 DEF LoadNewUnit
  <2>2. ASSUME NEW k \in 1..l
        PROVE  Relocated(input.sco[Nth(Kept, k)], c, NewSCOMap, NodeMap)
                 = Relocated(shape[k], c, scoMap, nodeMap)
    <3>1. PICK d, e : d = shape[k] /\ e = input.sco[b + k]
      OBVIOUS
    <3>2. Nth(Kept, k) = b + k
      BY <1>9
    <3>3. SCOIs(input, j, n, k)
      BY <1>3 DEF NextUnit
    <3>4. /\ b + k \in 1..Len(input.sco)
          /\ e.kind = d.kind /\ e.degraded = d.degraded /\ e.refs = {b + r : r \in d.refs}
          /\ e.node = (IF d.node = 0 THEN 0 ELSE n + d.node)
          /\ e.lastNode = (IF d.lastNode = 0 THEN 0 ELSE n + d.lastNode)
      <4>1. input.cu[j].first - 1 = b /\ SCOsOf[input.cu[j].version][k] = d
        BY <1>4, <3>1
      <4> QED
        BY <3>1, <3>3, <4>1 DEF SCOIs
    <3>5. /\ d \in Descriptors /\ d.refs \subseteq 1..l
          /\ d.node \in 0..m /\ d.lastNode \in 0..m
      BY <1>3, <3>1 DEF NextUnit, IsVersion
    <3>6. e \in Descriptors
      BY <3>1, <3>4, TableFacts
    <3>7. {NewSCOMap[r] : r \in e.refs} = {scoMap[r] : r \in d.refs}
      <4>1. {NewSCOMap[r] : r \in e.refs} = {NewSCOMap[b + r] : r \in d.refs}
        BY <3>4
      <4>2. \A r \in d.refs : NewSCOMap[b + r] = scoMap[r]
        BY <1>6, <1>8, <3>5
      <4> QED
        BY <4>1, <4>2
    <3>8. (IF e.node = 0 THEN 0 ELSE NodeMap[e.node]) = (IF d.node = 0 THEN 0 ELSE nodeMap[d.node])
      <4>1. CASE d.node = 0
        BY <3>4, <4>1
      <4>2. CASE d.node # 0
        <5>1. d.node \in 1..m /\ e.node = n + d.node /\ e.node # 0
          BY <1>4, <3>4, <3>5, <4>2, SMTT(30)
        <5> QED
          BY <1>6, <1>8, <4>2, <5>1
      <4> QED
        BY <4>1, <4>2
    <3>9. (IF e.lastNode = 0 THEN 0 ELSE NodeMap[e.lastNode])
            = (IF d.lastNode = 0 THEN 0 ELSE nodeMap[d.lastNode])
      <4>1. CASE d.lastNode = 0
        BY <3>4, <4>1
      <4>2. CASE d.lastNode # 0
        <5>1. d.lastNode \in 1..m /\ e.lastNode = n + d.lastNode /\ e.lastNode # 0
          BY <1>4, <3>4, <3>5, <4>2, SMTT(30)
        <5> QED
          BY <1>6, <1>8, <4>2, <5>1
      <4> QED
        BY <4>1, <4>2
    <3>10. RelocatedTo(e, c, NewSCOMap, NodeMap) = RelocatedTo(d, c, scoMap, nodeMap)
      BY <3>4, <3>7, <3>8, <3>9 DEF RelocatedTo
    <3> QED
      BY <3>1, <3>2, <3>5, <3>6, <3>10, RelocatedFields
  <2> QED
    BY <1>4, <2>1, <2>2
<1>12. bdd' = bdd \o [i \in DOMAIN nodes |->
                        [sco |-> scoMap[nodes[i].sco], dests |-> {nodeMap[d] : d \in nodes[i].dests}]]
  <2>1. bdd' = bdd \o [k \in 1..m |->
                         [sco |-> ConditionOf(Nth(KeptNodes, k)),
                          dests |-> {NodeMap[d] : d \in input.bdd[Nth(KeptNodes, k)].dests}]]
    BY <1>3, <1>9 DEF LoadNewUnit
  <2>2. ASSUME NEW k \in 1..m
        PROVE  /\ ConditionOf(Nth(KeptNodes, k)) = scoMap[nodes[k].sco]
               /\ {NodeMap[d] : d \in input.bdd[Nth(KeptNodes, k)].dests}
                    = {nodeMap[d] : d \in nodes[k].dests}
    <3>1. Nth(KeptNodes, k) = n + k
      BY <1>9
    <3>2. /\ nodes[k] \in [sco : 1..l, dests : SUBSET (1..m)]
          /\ input.bdd[n + k] = [sco |-> b + nodes[k].sco, dests |-> {n + d : d \in nodes[k].dests}]
      BY <1>3 DEF NextUnit, IsVersion
    <3>3. nodes[k].sco \in 1..l /\ nodes[k].dests \subseteq 1..m
      BY <3>2
    <3>4. ConditionOf(n + k) = scoMap[nodes[k].sco]
      BY <1>6, <1>8, <3>3
    <3>5. {NodeMap[d] : d \in input.bdd[n + k].dests} = {NodeMap[n + d] : d \in nodes[k].dests}
      BY <3>2
    <3>6. \A d \in nodes[k].dests : NodeMap[n + d] = nodeMap[d]
      BY <1>6, <1>8, <3>3
    <3> QED
      BY <3>1, <3>4, <3>5, <3>6
  <2> QED
    BY <1>4, <2>1, <2>2
<1>13. inst' = inst \o [i \in DOMAIN insts |->
                          [cu |-> c, enclosing |-> IF insts[i] = 0 THEN 0 ELSE insts[i] + z]]
  <2>1. inst' = inst \o [k \in 1..(u.lastInst - u.firstInst + 1) |->
                 [cu |-> c,
                  enclosing |-> IF input.inst[u.firstInst + k - 1].enclosing = 0 THEN 0
                                ELSE input.inst[u.firstInst + k - 1].enclosing + by]]
    BY <1>3, <1>4 DEF LoadNewUnit
  <2>2. 1..(u.lastInst - u.firstInst + 1) = 1..o
    BY <1>4
  <2>3. ASSUME NEW k \in 1..o
        PROVE  (IF input.inst[u.firstInst + k - 1].enclosing = 0 THEN 0
                ELSE input.inst[u.firstInst + k - 1].enclosing + by)
                 = (IF insts[k] = 0 THEN 0 ELSE insts[k] + z)
    <3>1. InstIs(input, j, k) /\ insts \in Seq(0..o) /\ Len(insts) = o
      BY <1>3 DEF NextUnit, IsVersion
    <3>2. input.inst[a + k] = [cu |-> j, enclosing |-> IF insts[k] = 0 THEN 0 ELSE a + insts[k]]
      BY <1>4, <3>1 DEF InstIs
    <3>3. u.firstInst + k - 1 = a + k
      BY <1>4
    <3>4. insts[k] \in Nat
      BY <3>1
    <3>5. input.inst[a + k].enclosing = (IF insts[k] = 0 THEN 0 ELSE a + insts[k])
      BY <3>2
    <3>6. insts[k] # 0 => a + insts[k] # 0 /\ a + insts[k] + by = insts[k] + z
      <4>1. PICK e : e = insts[k]
        OBVIOUS
      <4>2. e # 0 => a + e # 0 /\ a + e + (z - a) = e + z
        <5>1. a \in Nat /\ z \in Nat /\ e \in Nat
          BY <1>4, <1>5, <3>4, <4>1
        <5> QED
          BY <5>1
      <4> QED
        BY <1>5, <4>1, <4>2
    <3> QED
      BY <3>3, <3>5, <3>6
  <2> QED
    BY <1>4, <2>1, <2>2, <2>3
<1>14. LoadedIn(t, w, u.version)
  <2>1. /\ scoMap = Shifted(Len(shape), x) /\ nodeMap = Shifted(Len(nodes), y)
        /\ c = Len(t.cu) + 1 /\ x = Len(t.sco) /\ y = Len(t.bdd) /\ z = Len(t.inst)
    BY <1>2, <1>3, <1>7
  <2>2. /\ w.cu = Append(t.cu, [version |-> u.version, first |-> Len(t.sco) + 1,
                                last |-> Len(t.sco) + Len(shape),
                                firstInst |-> Len(t.inst) + 1, lastInst |-> Len(t.inst) + Len(insts)])
        /\ w.sco = t.sco \o [i \in DOMAIN shape |-> Relocated(shape[i], Len(t.cu) + 1, scoMap, nodeMap)]
    BY <1>2, <1>3, <1>10, <1>11, <2>1
  <2>3. /\ w.bdd = t.bdd \o [i \in DOMAIN nodes |->
                  [sco |-> scoMap[nodes[i].sco], dests |-> {nodeMap[d] : d \in nodes[i].dests}]]
        /\ w.inst = t.inst \o [i \in DOMAIN insts |->
                  [cu |-> Len(t.cu) + 1,
                   enclosing |-> IF insts[i] = 0 THEN 0 ELSE insts[i] + Len(t.inst)]]
    BY <1>2, <1>12, <1>13, <2>1
  <2>4. /\ scoMap = Shifted(Len(SCOsOf[u.version]), Len(t.sco))
        /\ nodeMap = Shifted(Len(NodesOf[u.version]), Len(t.bdd))
        /\ shape = SCOsOf[u.version] /\ nodes = NodesOf[u.version] /\ insts = InstancesOf[u.version]
    BY <1>4, <2>1
  <2> QED
    BY <2>2, <2>3, <2>4, ZenonT(30) DEF LoadedIn
<1> QED
  BY <1>1, <1>14

----------------------------------------------------------------------------
(* The tables are well formed in every state.                              *)

SCIRight(t, x) ==
  LET u == t.cu[t.sco[x.sco].origin]
  IN  /\ x \in [sco : 1..Len(t.sco), tag : Nat, value : BOOLEAN]
      /\ x.tag = 0 \/ x.tag \in u.firstInst..u.lastInst

\* Only coverage changes
SameTables(t, w) ==
  /\ w.cu = t.cu /\ w.sco = t.sco /\ w.bdd = t.bdd /\ w.inst = t.inst
  /\ w.provider \in Providers
  /\ \A x \in w.sci : x \in t.sci \/ SCIRight(t, x)

LEMMA CoverageAdded ==
  ASSUME NEW t, NEW w, WellFormed(t), SameTables(t, w)
  PROVE  WellFormed(w)
<1>1. TablesTyped(t) /\ OriginsRight(t) /\ UnitsOnce(t)
  BY DEF WellFormed
<1>2. /\ w.cu = t.cu /\ w.sco = t.sco /\ w.bdd = t.bdd /\ w.inst = t.inst
      /\ w.provider \in Providers
  BY DEF SameTables
<1>3. ASSUME NEW x \in w.sci PROVE SCIRight(t, x)
  <2>1. CASE x \in t.sci
    BY <1>1, <2>1 DEF TablesTyped, OriginsRight, SCIRight
  <2>2. CASE x \notin t.sci
    BY <2>2 DEF SameTables
  <2> QED
    BY <2>1, <2>2
<1>4. TablesTyped(w)
  <2>1. w.sci \subseteq [sco : 1..Len(t.sco), tag : Nat, value : BOOLEAN]
    BY <1>3 DEF SCIRight
  <2> QED
    BY <1>1, <1>2, <2>1 DEF TablesTyped
<1>5. OriginsRight(w)
  <2>1. ASSUME NEW s \in 1..Len(w.sco)
        PROVE  LET c == w.sco[s].origin
               IN  c \in 1..Len(w.cu) /\ s \in w.cu[c].first..w.cu[c].last
    BY <1>1, <1>2 DEF OriginsRight
  <2>2. ASSUME NEW x \in w.sci
        PROVE  LET u == w.cu[w.sco[x.sco].origin]
               IN  x.tag = 0 \/ x.tag \in u.firstInst..u.lastInst
    BY <1>2, <1>3 DEF SCIRight
  <2> QED
    BY <2>1, <2>2, Zenon DEF OriginsRight
<1>6. UnitsOnce(w)
  BY <1>1, <1>2, Zenon DEF UnitsOnce
<1>7. Len(t.cu) \in Nat /\ Len(t.sco) \in Nat /\ Len(t.bdd) \in Nat /\ Len(t.inst) \in Nat
  BY <1>1, TableFacts
<1>8. Grows(t, w)
  BY <1>2, <1>7 DEF Grows
<1>9. ASSUME NEW c \in 1..Len(w.cu) PROVE \E n \in Nat : UnitAt(w, c, n)
  <2>1. c \in 1..Len(t.cu)
    BY <1>2
  <2>2. PICK n \in Nat : UnitAt(t, c, n)
    BY <2>1 DEF WellFormed
  <2>3. Len(w.sco) \in Nat /\ Len(w.bdd) \in Nat /\ Len(w.inst) \in Nat
    BY <1>2, <1>7
  <2> QED
    BY <1>1, <1>8, <2>1, <2>2, <2>3, UnitGrown
<1> QED
  BY <1>4, <1>5, <1>6, <1>9 DEF WellFormed

LEMMA EmptyWellFormed ==
  ASSUME NEW t, t.cu = <<>>, t.sco = <<>>, t.bdd = <<>>, t.inst = <<>>, t.sci = {},
         t.provider \in Providers
  PROVE  WellFormed(t)
<1>1. TablesTyped(t)
  BY DEF TablesTyped
<1>2. 1..Len(t.cu) = {} /\ 1..Len(t.sco) = {}
  BY SMT
<1>3. OriginsRight(t) /\ UnitsOnce(t)
  BY <1>2 DEF OriginsRight, UnitsOnce
<1> QED
  BY <1>1, <1>2, <1>3 DEF WellFormed

LEMMA CheckpointFields ==
  /\ Checkpoint.cu = cu /\ Checkpoint.sco = sco /\ Checkpoint.bdd = bdd
  /\ Checkpoint.inst = inst /\ Checkpoint.sci = sci /\ Checkpoint.provider = provider
  /\ Checkpoint'.cu = cu' /\ Checkpoint'.sco = sco' /\ Checkpoint'.bdd = bdd'
  /\ Checkpoint'.inst = inst' /\ Checkpoint'.sci = sci' /\ Checkpoint'.provider = provider'
BY DEF Checkpoint

LEMMA SCOsLoaded ==
  ASSUME NEW v \in Versions, LoadSCOs(v), WellFormed(Checkpoint)
  PROVE  /\ LoadedIn(Checkpoint, Checkpoint', v)
         /\ WellFormed(Checkpoint')
<1>1. PICK t, w : t = Checkpoint /\ w = Checkpoint'
  OBVIOUS
<1>2. /\ t.cu = cu /\ t.sco = sco /\ t.bdd = bdd /\ t.inst = inst /\ t.sci = sci
      /\ t.provider = provider
      /\ w.cu = cu' /\ w.sco = sco' /\ w.bdd = bdd' /\ w.inst = inst' /\ w.sci = sci'
      /\ w.provider = provider'
  BY <1>1, CheckpointFields
<1>3. LoadedIn(t, w, v)
  BY <1>2, Zenon DEF LoadedIn, LoadSCOs
<1>4. w.sci = t.sci /\ w.provider = t.provider
  BY <1>2 DEF LoadSCOs
<1>5. \A c \in 1..Len(t.cu) : UnitOf[t.cu[c].version] # UnitOf[v]
  BY <1>2 DEF LoadSCOs, CompUnit
<1>6. WellFormed(t)
  BY <1>1
<1>7. WellFormed(w)
  BY <1>3, <1>4, <1>5, <1>6, LoadedWellFormed
<1> QED
  BY <1>1, <1>3, <1>7

LEMMA NewUnitWellFormed ==
  ASSUME NothingRemoved, WellFormed(Checkpoint), WellFormed(input), LoadNewUnit,
         Len(relocs.cu) \in Nat
  PROVE  /\ LoadedIn(Checkpoint, Checkpoint', CPUnit.version)
         /\ CPUnit.version \in Versions
         /\ \A c \in 1..Len(cu) : UnitOf[cu[c].version] # UnitOf[CPUnit.version]
         /\ WellFormed(Checkpoint')
<1>1. PICK t, w, v : t = Checkpoint /\ w = Checkpoint' /\ v = CPUnit.version
  OBVIOUS
<1>2. /\ t.cu = cu /\ t.sci = sci /\ t.provider = provider
      /\ w.sci = sci' /\ w.provider = provider'
  BY <1>1, CheckpointFields
<1>3. LoadingUnit
  BY DEF LoadNewUnit
<1>4. PICK j, n, u, shape, nodes, insts, b, a : NextUnit(j, n, u, shape, nodes, insts, b, a)
  BY <1>3, NextUnitFound
<1>5. u = CPUnit /\ u.version = v /\ v \in Versions
  BY <1>1, <1>4 DEF NextUnit, Units
<1>6. LoadedIn(Checkpoint, Checkpoint', u.version)
  BY <1>4, NewUnitLoaded DEF WellFormed
<1>7. LoadedIn(t, w, v) /\ WellFormed(t)
  BY <1>1, <1>5, <1>6
<1>8. w.sci = t.sci /\ w.provider = t.provider
  BY <1>2, <1>3 DEF LoadingUnit
<1>9. \A c \in 1..Len(cu) : UnitOf[cu[c].version] # UnitOf[v]
  BY <1>1 DEF LoadNewUnit, Known, CompUnit
<1>10. WellFormed(w)
  BY <1>2, <1>5, <1>7, <1>8, <1>9, LoadedWellFormed
<1> QED
  BY <1>1, <1>5, <1>7, <1>9, <1>10

----------------------------------------------------------------------------
(* Relocations map the units loaded so far.                                *)

\* Where the SCOs and the instances of unit c are: they follow b and a
Numbers(t, c, b, a, l, o) ==
  /\ t.cu[c].version \in Versions
  /\ b \in Nat /\ a \in Nat /\ l \in Nat /\ o \in Nat
  /\ l = Len(SCOsOf[t.cu[c].version]) /\ DOMAIN SCOsOf[t.cu[c].version] = 1..l
  /\ o = Len(InstancesOf[t.cu[c].version]) /\ DOMAIN InstancesOf[t.cu[c].version] = 1..o
  /\ t.cu[c].first = b + 1 /\ t.cu[c].first - 1 = b /\ t.cu[c].last = b + l
  /\ t.cu[c].firstInst = a + 1 /\ t.cu[c].firstInst - 1 = a /\ t.cu[c].lastInst = a + o
  /\ \A s \in 1..l : /\ b + s \in 1..Len(t.sco) /\ t.sco[b + s].origin = c
                     /\ t.sco[b + s].degraded = SCOsOf[t.cu[c].version][s].degraded
  /\ \A i \in 1..o : a + i \in 1..Len(t.inst) /\ t.inst[a + i].cu = c

LEMMA UnitNumbers ==
  ASSUME NEW t, WellFormed(t), NEW c \in 1..Len(t.cu)
  PROVE  \E b, a, l, o : Numbers(t, c, b, a, l, o)
<1>1. TablesTyped(t)
  BY DEF WellFormed
<1>2. PICK n \in Nat : UnitAt(t, c, n)
  BY DEF WellFormed
<1>3. PICK u, shape, nodes, insts, scoMap, nodeMap :
         IsUnit(t, c, n, u, shape, nodes, insts, scoMap, nodeMap)
  BY DEF IsUnit
<1>4. UnitIs(t, c, n, u, shape, nodes, insts, scoMap, nodeMap)
  BY <1>2, <1>3, UnitParts
<1>5. PICK b, a, l, o : b = u.first - 1 /\ a = u.firstInst - 1 /\ l = Len(shape) /\ o = Len(insts)
  OBVIOUS
<1>6. /\ u.version \in Versions /\ u.first \in Nat \ {0} /\ u.firstInst \in Nat \ {0}
      /\ u = t.cu[c] /\ shape = SCOsOf[u.version] /\ insts = InstancesOf[u.version]
  BY <1>1, <1>3, TableFacts DEF IsUnit
<1>7. /\ l \in Nat /\ o \in Nat /\ DOMAIN shape = 1..l /\ DOMAIN insts = 1..o
  BY <1>5, <1>6, VersionFacts DEF IsVersion
<1>8. b \in Nat /\ a \in Nat /\ u.first = b + 1 /\ u.firstInst = a + 1
  <2>1. PICK p, q : p = u.first /\ q = u.firstInst
    OBVIOUS
  <2>2. p \in Nat \ {0} /\ q \in Nat \ {0} /\ b = p - 1 /\ a = q - 1
    BY <1>5, <1>6, <2>1
  <2> QED
    BY <2>1, <2>2
<1>9. u.last = b + l /\ u.lastInst = a + o
  BY <1>4, <1>5 DEF UnitIs
<1>10. /\ \A s \in 1..Len(SCOsOf[t.cu[c].version]) : SCOIs(t, c, n, s)
       /\ \A i \in 1..Len(InstancesOf[t.cu[c].version]) : InstIs(t, c, i)
  BY <1>1, <1>2, UnitContents
<1>11. \A s \in 1..l : /\ b + s \in 1..Len(t.sco) /\ t.sco[b + s].origin = c
                       /\ t.sco[b + s].degraded = shape[s].degraded
  <2> SUFFICES ASSUME NEW s \in 1..l
               PROVE  /\ b + s \in 1..Len(t.sco) /\ t.sco[b + s].origin = c
                      /\ t.sco[b + s].degraded = shape[s].degraded
    OBVIOUS
  <2>1. SCOIs(t, c, n, s)
    BY <1>5, <1>6, <1>10
  <2>2. t.cu[c].first - 1 = b /\ SCOsOf[t.cu[c].version][s] = shape[s]
    BY <1>5, <1>6
  <2> QED
    BY <2>1, <2>2 DEF SCOIs
<1>12. \A i \in 1..o : a + i \in 1..Len(t.inst) /\ t.inst[a + i].cu = c
  <2> SUFFICES ASSUME NEW i \in 1..o PROVE a + i \in 1..Len(t.inst) /\ t.inst[a + i].cu = c
    OBVIOUS
  <2>1. InstIs(t, c, i)
    BY <1>5, <1>6, <1>10
  <2>2. t.cu[c].firstInst - 1 = a
    BY <1>5, <1>6
  <2>3. PICK e : t.inst[a + i] = [cu |-> c, enclosing |-> e] /\ a + i \in 1..Len(t.inst)
    BY <2>1, <2>2 DEF InstIs
  <2> QED
    BY <2>3
<1>13. Numbers(t, c, b, a, l, o)
  BY <1>5, <1>6, <1>7, <1>8, <1>9, <1>11, <1>12 DEF Numbers
<1> QED
  BY <1>13

\* The numbers of another unit are others
LEMMA NumbersApart ==
  ASSUME NEW t, NEW c, NEW d, NEW b, NEW a, NEW l, NEW o, NEW b2, NEW a2, NEW l2, NEW o2,
         Numbers(t, c, b, a, l, o), Numbers(t, d, b2, a2, l2, o2), c # d
  PROVE  /\ \A s \in 1..l : b + s \notin (b2 + 1)..(b2 + l2)
         /\ \A i \in 1..o : a + i \notin (a2 + 1)..(a2 + o2)
<1>1. /\ b \in Nat /\ a \in Nat /\ b2 \in Nat /\ a2 \in Nat /\ l2 \in Nat /\ o2 \in Nat
      /\ \A s \in 1..l : t.sco[b + s].origin = c /\ \A i \in 1..o : t.inst[a + i].cu = c
  BY DEF Numbers
<1>2. /\ \A s \in 1..l2 : t.sco[b2 + s].origin = d
      /\ \A i \in 1..o2 : t.inst[a2 + i].cu = d
  BY DEF Numbers
<1>20. \A i \in 1..o : t.inst[a + i].cu = c
  BY DEF Numbers
<1>3. ASSUME NEW s \in 1..l, b + s \in (b2 + 1)..(b2 + l2) PROVE FALSE
  <2>1. b + s - b2 \in 1..l2 /\ b + s = b2 + (b + s - b2)
    BY <1>1, <1>3
  <2>2. PICK r \in 1..l2 : b + s = b2 + r
    BY <2>1
  <2> QED
    BY <1>1, <1>2, <2>2
<1>4. ASSUME NEW i \in 1..o, a + i \in (a2 + 1)..(a2 + o2) PROVE FALSE
  <2>1. a + i - a2 \in 1..o2 /\ a + i = a2 + (a + i - a2)
    BY <1>1, <1>4
  <2>2. PICK r \in 1..o2 : a + i = a2 + r
    BY <2>1
  <2> QED
    BY <1>20, <1>2, <2>2
<1> QED
  BY <1>3, <1>4

Relocations ==
  [cu : Seq(Nat), existing : Nat, ignored : {{}}, sco : [DOMAIN input.sco -> Nat],
   bdd : [DOMAIN input.bdd -> Nat], inst : [DOMAIN input.inst -> Int]]

\* Unit j of the checkpoint is mapped onto unit c, and what the others map to is kept
Maps(j, c) ==
  /\ relocs' \in Relocations /\ relocs'.cu = Append(relocs.cu, c) /\ input' = input
  /\ \A x \in 1..Len(input.sco) :
       x \notin input.cu[j].first..input.cu[j].last => relocs'.sco[x] = relocs.sco[x]
  /\ \A x \in 1..Len(input.inst) :
       x \notin input.cu[j].firstInst..input.cu[j].lastInst => relocs'.inst[x] = relocs.inst[x]
  /\ Len(cu) \in Nat /\ Len(cu') \in Nat
  /\ Len(cu) <= Len(cu') /\ \A d \in 1..Len(cu) : cu'[d] = cu[d]
  /\ c \in 1..Len(cu') /\ UnitOf[cu'[c].version] = UnitOf[input.cu[j].version]

LEMMA OthersMapped ==
  ASSUME WellFormed(input), RelocsRight, NEW j \in 1..Len(input.cu), j = Len(relocs.cu) + 1,
         NEW c, Maps(j, c), NEW i \in 1..Len(input.cu), i # j
  PROVE  UnitMapped(i)'
<1>1. PICK k, m : k = Len(relocs.cu) /\ m = Len(cu)
  OBVIOUS
<1>2. /\ relocs.cu \in Seq(Nat) /\ k \in Nat /\ m \in Nat /\ j = k + 1 /\ i \in Nat
      /\ \A e \in 1..k : relocs.cu[e] \in 1..m
      /\ UnitMapped(i)
      /\ c \in Nat
  BY <1>1 DEF RelocsRight, Maps
<1>3. /\ relocs'.cu = Append(relocs.cu, c) /\ input' = input
      /\ \A d \in 1..m : cu'[d] = cu[d]
  BY <1>1 DEF Maps
<1>4. Len(relocs'.cu) = k + 1 /\ \A e \in 1..k : relocs'.cu[e] = relocs.cu[e]
  BY <1>1, <1>2, <1>3
<1>5. PICK b, a, l, o : Numbers(input, i, b, a, l, o)
  BY UnitNumbers
<1>6. PICK b2, a2, l2, o2 : Numbers(input, j, b2, a2, l2, o2)
  BY UnitNumbers
<1>7. /\ \A s \in 1..l : b + s \notin (b2 + 1)..(b2 + l2)
      /\ \A x \in 1..o : a + x \notin (a2 + 1)..(a2 + o2)
  BY <1>5, <1>6, NumbersApart
<1>8. PICK u : u = input.cu[i]
  OBVIOUS
<1>9. /\ u.first - 1 = b /\ u.firstInst - 1 = a
      /\ DOMAIN SCOsOf[u.version] = 1..l /\ DOMAIN InstancesOf[u.version] = 1..o
      /\ \A s \in 1..l : b + s \in 1..Len(input.sco)
      /\ \A x \in 1..o : a + x \in 1..Len(input.inst)
  BY <1>5, <1>8 DEF Numbers
<1>10. /\ input.cu[j].first..input.cu[j].last = (b2 + 1)..(b2 + l2)
       /\ input.cu[j].firstInst..input.cu[j].lastInst = (a2 + 1)..(a2 + o2)
  BY <1>6 DEF Numbers
<1>11. /\ \A s \in 1..l : relocs'.sco[b + s] = relocs.sco[b + s]
       /\ \A x \in 1..o : relocs'.inst[a + x] = relocs.inst[a + x]
  BY <1>7, <1>9, <1>10 DEF Maps
<1>12. CASE i <= k
  <2>1. PICK d : d = relocs.cu[i]
    OBVIOUS
  <2>2. i \in 1..k /\ relocs'.cu[i] = d /\ d \in 1..m /\ cu'[d] = cu[d]
    BY <1>2, <1>3, <1>4, <1>12, <2>1
  <2>3. i <= k + 1
    BY <1>2, <1>12
  <2>4. CASE cu[d].version = u.version
    <3>1. /\ \A s \in 1..l : relocs.sco[b + s] = cu[d].first - 1 + s
          /\ \A x \in 1..o : relocs.inst[a + x] = cu[d].firstInst - 1 + x
      BY <1>1, <1>2, <1>8, <1>9, <1>12, <2>1, <2>4 DEF UnitMapped
    <3>2. /\ \A s \in 1..l : relocs'.sco[b + s] = cu'[d].first - 1 + s
          /\ \A x \in 1..o : relocs'.inst[a + x] = cu'[d].firstInst - 1 + x
      BY <1>11, <2>2, <3>1
    <3> QED
      BY <1>3, <1>4, <1>8, <1>9, <2>2, <2>3, <2>4, <3>2 DEF UnitMapped
  <2>5. CASE cu[d].version # u.version
    <3>1. \A s \in 1..l : relocs.sco[b + s] = 0
      BY <1>1, <1>2, <1>8, <1>9, <1>12, <2>1, <2>5 DEF UnitMapped
    <3> QED
      BY <1>3, <1>4, <1>8, <1>9, <1>11, <2>2, <2>5, <3>1 DEF UnitMapped
  <2> QED
    BY <2>4, <2>5
<1>13. CASE ~(i <= k)
  <2>1. ~(i <= k + 1)
    BY <1>2, <1>13
  <2>2. \A s \in 1..l : relocs.sco[b + s] = 0
    BY <1>1, <1>2, <1>8, <1>9, <1>13 DEF UnitMapped
  <2> QED
    BY <1>3, <1>4, <1>8, <1>9, <1>11, <2>1, <2>2 DEF UnitMapped
<1> QED
  BY <1>12, <1>13

LEMMA RelocsKept ==
  ASSUME WellFormed(input), RelocsRight, NEW j \in 1..Len(input.cu), j = Len(relocs.cu) + 1,
         NEW c, Maps(j, c), UnitMapped(j)'
  PROVE  RelocsRight'
<1>1. PICK k, m : k = Len(relocs.cu) /\ m = Len(cu)
  OBVIOUS
<1>2. /\ relocs.cu \in Seq(Nat) /\ k \in Nat /\ m \in Nat /\ j = k + 1
      /\ \A e \in 1..k : relocs.cu[e] \in 1..m
      /\ \A e \in 1..k : UnitOf[cu[relocs.cu[e]].version] = UnitOf[input.cu[e].version]
      /\ c \in Nat /\ Len(input.cu) \in Nat /\ k + 1 <= Len(input.cu)
  <2>1. Len(input.cu) \in Nat
    BY TableFacts DEF WellFormed
  <2> QED
    BY <1>1, <2>1 DEF RelocsRight, Maps
<1>3. /\ relocs'.cu = Append(relocs.cu, c) /\ input' = input
      /\ \A d \in 1..m : cu'[d] = cu[d]
      /\ \A d \in 1..m : d \in 1..Len(cu')
      /\ c \in 1..Len(cu') /\ UnitOf[cu'[c].version] = UnitOf[input.cu[j].version]
  BY <1>1 DEF Maps
<1>4. /\ Len(relocs'.cu) = k + 1 /\ \A e \in 1..k : relocs'.cu[e] = relocs.cu[e]
      /\ relocs'.cu[k + 1] = c
  BY <1>1, <1>2, <1>3
<1>5. ASSUME NEW e \in 1..Len(relocs'.cu)
      PROVE  /\ relocs'.cu[e] \in 1..Len(cu')
             /\ UnitOf[cu'[relocs'.cu[e]].version] = UnitOf[input'.cu[e].version]
  <2>1. e \in 1..k \/ e = k + 1
    BY <1>2, <1>4
  <2>2. CASE e \in 1..k
    <3>1. PICK d : d = relocs.cu[e]
      OBVIOUS
    <3>2. relocs'.cu[e] = d /\ d \in 1..m
      BY <1>2, <1>4, <2>2, <3>1, Zenon
    <3>3. cu'[d] = cu[d] /\ d \in 1..Len(cu')
      BY <1>3, <3>2, Zenon
    <3>4. UnitOf[cu[d].version] = UnitOf[input.cu[e].version]
      BY <1>2, <2>2, <3>1, Zenon
    <3> QED
      BY <1>3, <3>2, <3>3, <3>4, Zenon
  <2>3. CASE e = k + 1
    BY <1>2, <1>3, <1>4, <2>3
  <2> QED
    BY <2>1, <2>2, <2>3
<1>6. \A i \in 1..Len(input'.cu) : UnitMapped(i)'
  BY <1>3, OthersMapped
<1>7. relocs' \in [cu : Seq(Nat), existing : Nat, ignored : {{}},
                   sco : [DOMAIN input'.sco -> Nat], bdd : [DOMAIN input'.bdd -> Nat],
                   inst : [DOMAIN input'.inst -> Int]]
  BY <1>3 DEF Maps, Relocations
<1>8. Len(relocs'.cu) <= Len(input'.cu)
  BY <1>2, <1>3, <1>4
<1> QED
  BY <1>5, <1>6, <1>7, <1>8 DEF RelocsRight

NewRelocs(r, C, F, G, N, I) ==
  [r EXCEPT !.cu = C, !.sco = F, !.ignored = G, !.bdd = N, !.inst = I]

RelocsOf(r, C, F, G, N, I) ==
  [cu |-> C, existing |-> r.existing, ignored |-> G, sco |-> F, bdd |-> N, inst |-> I]

LEMMA RelocsFields ==
  ASSUME NEW r \in Relocations, NEW C, NEW F, NEW G, NEW N, NEW I
  PROVE  NewRelocs(r, C, F, G, N, I) = RelocsOf(r, C, F, G, N, I)
<1>1. PICK c, e, g, f, n, i :
         r = [cu |-> c, existing |-> e, ignored |-> g, sco |-> f, bdd |-> n, inst |-> i]
  BY DEF Relocations
<1>2. PICK d1 : d1 = [r EXCEPT !.cu = C]
  OBVIOUS
<1>3. d1 = [cu |-> C, existing |-> e, ignored |-> g, sco |-> f, bdd |-> n, inst |-> i]
  BY <1>1, <1>2
<1>4. PICK d2 : d2 = [d1 EXCEPT !.sco = F]
  OBVIOUS
<1>5. d2 = [cu |-> C, existing |-> e, ignored |-> g, sco |-> F, bdd |-> n, inst |-> i]
  BY <1>3, <1>4
<1>6. PICK d3 : d3 = [d2 EXCEPT !.ignored = G]
  OBVIOUS
<1>7. d3 = [cu |-> C, existing |-> e, ignored |-> G, sco |-> F, bdd |-> n, inst |-> i]
  BY <1>5, <1>6
<1>8. PICK d4 : d4 = [d3 EXCEPT !.bdd = N]
  OBVIOUS
<1>9. d4 = [cu |-> C, existing |-> e, ignored |-> G, sco |-> F, bdd |-> N, inst |-> i]
  BY <1>7, <1>8
<1>10. [d4 EXCEPT !.inst = I]
         = [cu |-> C, existing |-> e, ignored |-> G, sco |-> F, bdd |-> N, inst |-> I]
  BY <1>9
<1>11. NewRelocs(r, C, F, G, N, I) = [d4 EXCEPT !.inst = I]
  BY <1>2, <1>4, <1>6, <1>8 DEF NewRelocs
<1>12. r.existing = e
  BY <1>1
<1> QED
  BY <1>10, <1>11, <1>12 DEF RelocsOf

RelocsAre(r2, C, F, I) ==
  r2 \in Relocations /\ r2.cu = C /\ r2.sco = F /\ r2.inst = I

LEMMA RelocsTyped ==
  ASSUME NEW r \in Relocations, NEW C \in Seq(Nat), NEW F, F \in [DOMAIN input.sco -> Nat],
         NEW N, N \in [DOMAIN input.bdd -> Nat], NEW I, I \in [DOMAIN input.inst -> Int]
  PROVE  RelocsAre(RelocsOf(r, C, F, {}, N, I), C, F, I)
<1>1. r.existing \in Nat
  BY DEF Relocations
<1> QED
  BY <1>1 DEF Relocations, RelocsOf, RelocsAre

LEMMA NewUnitMapped ==
  ASSUME NothingRemoved, WellFormed(Checkpoint), WellFormed(input), RelocsRight, LoadNewUnit
  PROVE  RelocsRight'
<1>1. LoadingUnit /\ relocs \in Relocations
  BY DEF LoadNewUnit, RelocsRight, Relocations
<1>2. relocs.cu \in Seq(Nat) /\ Len(relocs.cu) \in Nat
  BY <1>1 DEF Relocations
<1>3. PICK j, n, u, shape, nodes, insts, b, a : NextUnit(j, n, u, shape, nodes, insts, b, a)
  BY <1>1, <1>2, NextUnitFound
<1>4. PICK m, x, y, z, l, k, o, by :
         /\ m = Len(cu) /\ x = Len(sco) /\ y = Len(bdd) /\ z = Len(inst)
         /\ l = Len(shape) /\ k = Len(nodes) /\ o = Len(insts)
         /\ by = Len(inst) + 1 - u.firstInst
  OBVIOUS
<1>5. /\ cu \in Seq(Units) /\ m \in Nat /\ x \in Nat /\ y \in Nat /\ z \in Nat
  <2>1. TablesTyped(Checkpoint)
    BY DEF WellFormed
  <2>2. /\ Len(Checkpoint.cu) \in Nat /\ Len(Checkpoint.sco) \in Nat
        /\ Len(Checkpoint.bdd) \in Nat /\ Len(Checkpoint.inst) \in Nat
    BY <2>1, TableFacts
  <2>3. Checkpoint.cu \in Seq(Units)
    BY <2>1 DEF TablesTyped
  <2> QED
    BY <1>4, <2>2, <2>3, CheckpointFields
<1>6. /\ u = CPUnit /\ u = input.cu[j] /\ j = Len(relocs.cu) + 1 /\ j \in 1..Len(input.cu)
      /\ u.first = b + 1 /\ u.last = b + l /\ u.firstInst = a + 1 /\ u.lastInst = a + o
      /\ u.first - 1 = b /\ u.firstInst - 1 = a
      /\ b \in Nat /\ a \in Nat /\ n \in Nat /\ l \in Nat /\ k \in Nat /\ o \in Nat
      /\ shape = SCOsOf[u.version] /\ insts = InstancesOf[u.version]
      /\ DOMAIN shape = 1..l /\ DOMAIN insts = 1..o
      /\ n + k <= Len(input.bdd) /\ b + l <= Len(input.sco) /\ a + o <= Len(input.inst)
  <2>1. IsVersion(shape, nodes, insts)
    BY <1>3 DEF NextUnit
  <2>2. /\ l \in Nat /\ k \in Nat /\ o \in Nat /\ DOMAIN shape = 1..l /\ DOMAIN insts = 1..o
    BY <1>4, <2>1 DEF IsVersion
  <2>3. /\ u = CPUnit /\ u = input.cu[j] /\ j = Len(relocs.cu) + 1 /\ j \in 1..Len(input.cu)
        /\ u.first = b + 1 /\ u.firstInst = a + 1
        /\ b = u.first - 1 /\ a = u.firstInst - 1
        /\ b \in Nat /\ a \in Nat /\ n \in Nat
        /\ shape = SCOsOf[u.version] /\ insts = InstancesOf[u.version]
    BY <1>3, Zenon DEF NextUnit
  <2>4. /\ u.last = b + Len(shape) /\ u.lastInst = a + Len(insts)
        /\ u.last <= Len(input.sco) /\ u.lastInst <= Len(input.inst)
        /\ n + Len(nodes) <= Len(input.bdd)
    BY <1>3, Zenon DEF NextUnit
  <2> QED
    BY <1>4, <2>2, <2>3, <2>4, Zenon
<1>7. Kept = (b + 1)..(b + l) /\ KeptNodes = (n + 1)..(n + k)
  BY <1>3, <1>4, AllKept
<1>8. /\ DOMAIN input.sco = 1..Len(input.sco) /\ Len(input.sco) \in Nat
      /\ DOMAIN input.bdd = 1..Len(input.bdd) /\ Len(input.bdd) \in Nat
      /\ DOMAIN input.inst = 1..Len(input.inst) /\ Len(input.inst) \in Nat
  BY TableFacts DEF WellFormed
<1>9. /\ relocs.sco \in [DOMAIN input.sco -> Nat] /\ relocs.bdd \in [DOMAIN input.bdd -> Nat]
      /\ relocs.inst \in [DOMAIN input.inst -> Int] /\ relocs.ignored = {}
  BY <1>1 DEF Relocations
<1>10. \A s \in Kept : \E i \in 1..l : s = b + i
  <2> SUFFICES ASSUME NEW s \in Kept PROVE \E i \in 1..l : s = b + i
    OBVIOUS
  <2>0. b \in Nat /\ l \in Nat /\ s \in (b + 1)..(b + l)
    BY <1>6, <1>7
  <2>1. s - b \in 1..l /\ s = b + (s - b)
    BY <2>0
  <2> QED
    BY <2>1
<1>11. \A i \in 1..l : b + i \in Kept /\ Position(Kept, b + i) = i
  <2> SUFFICES ASSUME NEW i \in 1..l PROVE b + i \in Kept /\ Position(Kept, b + i) = i
    OBVIOUS
  <2>1. b \in Nat /\ l \in Nat
    BY <1>6
  <2>2. Position((b + 1)..(b + l), b + i) = i
    BY <2>1, PositionInRange
  <2>3. b + i \in (b + 1)..(b + l)
    BY <2>1
  <2> QED
    BY <1>7, <2>2, <2>3
<1>12. \A s \in Kept : Position(Kept, s) \in Nat
  <2> SUFFICES ASSUME NEW s \in Kept PROVE Position(Kept, s) \in Nat
    OBVIOUS
  <2>1. PICK i \in 1..l : s = b + i
    BY <1>10
  <2>2. Position(Kept, s) = i
    BY <1>11, <2>1
  <2> QED
    BY <2>2
<1>13. \A s \in KeptNodes : Position(KeptNodes, s) \in Nat
  <2> SUFFICES ASSUME NEW s \in KeptNodes PROVE Position(KeptNodes, s) \in Nat
    OBVIOUS
  <2>1. s - n \in 1..k /\ s = n + (s - n)
    BY <1>6, <1>7
  <2>2. PICK i \in 1..k : s = n + i
    BY <2>1
  <2>3. Position(KeptNodes, s) = i
    BY <1>6, <1>7, <2>2, PositionInRange
  <2> QED
    BY <1>6, <2>3
<1>14. PICK C, F, N, I :
         /\ C = Append(relocs.cu, m + 1)
         /\ F = [s \in DOMAIN input.sco |-> IF s \in Kept THEN x + Position(Kept, s) ELSE relocs.sco[s]]
         /\ N = NodeMap
         /\ I = [i \in DOMAIN input.inst |-> IF i \in u.firstInst..u.lastInst THEN i + by ELSE relocs.inst[i]]
  OBVIOUS
<1>15. relocs' = NewRelocs(relocs, C, F, {}, N, I)
  <2>1. relocs.ignored \cup ((u.first..u.last) \ Kept) = {}
    BY <1>6, <1>7, <1>9
  <2>2. relocs' = [relocs EXCEPT !.cu = C, !.sco = F,
                                 !.ignored = relocs.ignored \cup ((u.first..u.last) \ Kept),
                                 !.bdd = N, !.inst = I]
    BY <1>1, <1>4, <1>6, <1>9, <1>14 DEF LoadNewUnit, Relocations
  <2> QED
    BY <2>1, <2>2 DEF NewRelocs
<1>16. C \in Seq(Nat) /\ Len(C) = j /\ C[j] = m + 1
  BY <1>2, <1>5, <1>6, <1>14
<1>17. F \in [DOMAIN input.sco -> Nat]
  BY <1>5, <1>9, <1>12, <1>14
<1>18. N \in [DOMAIN input.bdd -> Nat]
  BY <1>4, <1>5, <1>9, <1>13, <1>14 DEF NodeMap
<1>19. I \in [DOMAIN input.inst -> Int]
  <2>1. by \in Int
    <3>1. by = z + 1 - (a + 1) /\ z \in Nat /\ a \in Nat
      BY <1>4, <1>5, <1>6
    <3> QED
      BY <3>1
  <2> QED
    BY <1>8, <1>9, <1>14, <2>1
<1>20. relocs' \in Relocations /\ relocs'.cu = C /\ relocs'.sco = F /\ relocs'.inst = I
  <2>1. relocs' = RelocsOf(relocs, C, F, {}, N, I)
    BY <1>1, <1>15, RelocsFields
  <2>2. C \in Seq(Nat)
    BY <1>16
  <2> QED
    <3>1. RelocsAre(RelocsOf(relocs, C, F, {}, N, I), C, F, I)
      BY <1>1, <1>17, <1>18, <1>19, <2>2, RelocsTyped
    <3> QED
      BY <2>1, <3>1 DEF RelocsAre
<1>21. PICK d : cu' = Append(cu, d) /\ d.version = u.version /\ d.first = x + 1 /\ d.firstInst = z + 1
  <2>1. LoadedIn(Checkpoint, Checkpoint', u.version)
    BY <1>3, NewUnitLoaded DEF WellFormed
  <2>2. cu' = Append(cu, [version |-> u.version, first |-> x + 1,
                          last |-> x + Len(SCOsOf[u.version]), firstInst |-> z + 1,
                          lastInst |-> z + Len(InstancesOf[u.version])])
    BY <1>4, <2>1, CheckpointFields DEF LoadedIn
  <2> QED
    BY <2>2
<1>22. Len(cu') = m + 1 /\ cu'[m + 1] = d /\ \A e \in 1..m : cu'[e] = cu[e]
  BY <1>4, <1>5, <1>21
<1>23. input' = input
  BY <1>1 DEF LoadingUnit
<1>24. Maps(j, m + 1)
  <2>1. \A s \in 1..Len(input.sco) : s \notin u.first..u.last => F[s] = relocs.sco[s]
    BY <1>6, <1>7, <1>8, <1>14
  <2>2. \A i \in 1..Len(input.inst) : i \notin u.firstInst..u.lastInst => I[i] = relocs.inst[i]
    BY <1>8, <1>14
  <2>3. m + 1 \in 1..Len(cu') /\ m <= Len(cu') /\ Len(cu') \in Nat
    BY <1>5, <1>22
  <2> QED
    BY <1>4, <1>5, <1>6, <1>14, <1>20, <1>21, <1>22, <1>23, <2>1, <2>2, <2>3 DEF Maps
<1>25. UnitMapped(j)'
  <2>1. ASSUME NEW s \in 1..l PROVE F[b + s] = x + s
    <3>1. b + s \in DOMAIN input.sco
      BY <1>6, <1>8
    <3> QED
      BY <1>11, <1>14, <3>1
  <2>2. ASSUME NEW i \in 1..o PROVE I[a + i] = z + i
    <3>1. a + i \in DOMAIN input.inst /\ a + i \in u.firstInst..u.lastInst
      BY <1>6, <1>8, SMTT(30)
    <3>2. I[a + i] = a + i + (z + 1 - (a + 1))
      BY <1>4, <1>6, <1>14, <3>1
    <3> QED
      BY <1>5, <1>6, <3>2
  <2>3. d.first - 1 = x /\ d.firstInst - 1 = z
    BY <1>5, <1>21
  <2>4. j <= Len(relocs'.cu) /\ relocs'.cu[j] = m + 1
    BY <1>6, <1>16, <1>20
  <2>5. /\ \A s \in DOMAIN SCOsOf[u.version] : relocs'.sco[u.first - 1 + s] = d.first - 1 + s
        /\ \A i \in DOMAIN InstancesOf[u.version] : relocs'.inst[u.firstInst - 1 + i] = d.firstInst - 1 + i
    BY <1>6, <1>20, <2>1, <2>2, <2>3
  <2> QED
    <3>1. input'.cu[j] = u /\ cu'[relocs'.cu[j]] = d /\ d.version = u.version
      BY <1>6, <1>21, <1>22, <1>23, <2>4
    <3> QED
      BY <2>4, <2>5, <3>1 DEF UnitMapped
<1> QED
  BY <1>6, <1>24, <1>25, RelocsKept

LEMMA KnownUnitMapped ==
  ASSUME WellFormed(Checkpoint), WellFormed(input), RelocsRight, MergeUnit
  PROVE  RelocsRight'
<1>1. LoadingUnit /\ relocs \in Relocations
  BY DEF MergeUnit, RelocsRight, Relocations
<1>2. relocs.cu \in Seq(Nat) /\ Len(relocs.cu) \in Nat
  BY <1>1 DEF Relocations
<1>3. PICK j, u : j = Len(relocs.cu) + 1 /\ u = CPUnit
  OBVIOUS
<1>4. u = input.cu[j] /\ j \in 1..Len(input.cu)
  <2>1. Len(input.cu) \in Nat
    BY TableFacts DEF WellFormed
  <2> QED
    BY <1>1, <1>2, <1>3, <2>1 DEF CPUnit, LoadingUnit
<1>5. PICK c \in Known :
         /\ cu[c].version = u.version
         /\ relocs' = [relocs EXCEPT
              !.cu = Append(@, c),
              !.sco = [s \in DOMAIN @ |-> IF s \in u.first..u.last
                                          THEN s + cu[c].first - u.first ELSE @[s]],
              !.inst = [i \in DOMAIN @ |-> IF i \in u.firstInst..u.lastInst
                                           THEN i + cu[c].firstInst - u.firstInst ELSE @[i]]]
  BY <1>3 DEF MergeUnit
<1>6. c \in 1..Len(cu) /\ Len(cu) \in Nat /\ UnitOf[cu[c].version] = UnitOf[u.version]
  <2>1. Len(Checkpoint.cu) \in Nat
    BY TableFacts DEF WellFormed
  <2> QED
    BY <1>3, <1>5, <2>1, CheckpointFields DEF Known, CompUnit
<1>7. PICK b, a, l, o : Numbers(input, j, b, a, l, o)
  BY <1>4, UnitNumbers
<1>8. PICK b2, a2, l2, o2 : Numbers(Checkpoint, c, b2, a2, l2, o2)
  BY <1>6, UnitNumbers, CheckpointFields
<1>9. /\ b \in Nat /\ a \in Nat /\ l \in Nat /\ o \in Nat
      /\ u.first = b + 1 /\ u.first - 1 = b /\ u.last = b + l
      /\ u.firstInst = a + 1 /\ u.firstInst - 1 = a /\ u.lastInst = a + o
      /\ DOMAIN SCOsOf[u.version] = 1..l /\ DOMAIN InstancesOf[u.version] = 1..o
      /\ \A s \in 1..l : b + s \in 1..Len(input.sco)
      /\ \A i \in 1..o : a + i \in 1..Len(input.inst)
  BY <1>4, <1>7 DEF Numbers
<1>10. /\ b2 \in Nat /\ a2 \in Nat /\ cu[c].first = b2 + 1 /\ cu[c].first - 1 = b2
       /\ cu[c].firstInst = a2 + 1 /\ cu[c].firstInst - 1 = a2
  BY <1>8, CheckpointFields DEF Numbers
<1>11. /\ DOMAIN input.sco = 1..Len(input.sco) /\ Len(input.sco) \in Nat
       /\ DOMAIN input.inst = 1..Len(input.inst) /\ Len(input.inst) \in Nat
  BY TableFacts DEF WellFormed
<1>12. /\ relocs.sco \in [DOMAIN input.sco -> Nat] /\ relocs.bdd \in [DOMAIN input.bdd -> Nat]
       /\ relocs.inst \in [DOMAIN input.inst -> Int] /\ relocs.ignored = {}
  BY <1>1 DEF Relocations
<1>13. PICK C, F, N, I :
         /\ C = Append(relocs.cu, c)
         /\ F = [s \in DOMAIN input.sco |-> IF s \in u.first..u.last
                                            THEN s + cu[c].first - u.first ELSE relocs.sco[s]]
         /\ N = relocs.bdd
         /\ I = [i \in DOMAIN input.inst |-> IF i \in u.firstInst..u.lastInst
                                             THEN i + cu[c].firstInst - u.firstInst ELSE relocs.inst[i]]
  OBVIOUS
<1>14. relocs' = RelocsOf(relocs, C, F, {}, N, I)
  <2>1. relocs' = [relocs EXCEPT !.cu = C, !.sco = F, !.inst = I]
    BY <1>1, <1>5, <1>12, <1>13 DEF Relocations
  <2>2. PICK p, e, g, f, n, i :
           relocs = [cu |-> p, existing |-> e, ignored |-> g, sco |-> f, bdd |-> n, inst |-> i]
    BY <1>1 DEF Relocations
  <2>3. PICK d1 : d1 = [relocs EXCEPT !.cu = C]
    OBVIOUS
  <2>4. d1 = [cu |-> C, existing |-> e, ignored |-> g, sco |-> f, bdd |-> n, inst |-> i]
    BY <2>2, <2>3
  <2>5. PICK d2 : d2 = [d1 EXCEPT !.sco = F]
    OBVIOUS
  <2>6. d2 = [cu |-> C, existing |-> e, ignored |-> g, sco |-> F, bdd |-> n, inst |-> i]
    BY <2>4, <2>5
  <2>7. [d2 EXCEPT !.inst = I] = [cu |-> C, existing |-> e, ignored |-> g, sco |-> F, bdd |-> n, inst |-> I]
    BY <2>6
  <2>8. relocs' = [d2 EXCEPT !.inst = I]
    BY <2>1, <2>3, <2>5
  <2>9. e = relocs.existing /\ g = {} /\ n = N
    BY <1>12, <1>13, <2>2
  <2> QED
    BY <2>7, <2>8, <2>9 DEF RelocsOf
<1>15. C \in Seq(Nat) /\ Len(C) = j /\ C[j] = c
  BY <1>2, <1>3, <1>6, <1>13
<1>16. F \in [DOMAIN input.sco -> Nat]
  <2>1. ASSUME NEW s \in DOMAIN input.sco, s \in u.first..u.last PROVE s + cu[c].first - u.first \in Nat
    <3>1. s \in (b + 1)..(b + l) /\ cu[c].first = b2 + 1 /\ u.first = b + 1
      BY <1>9, <1>10, <2>1
    <3>2. s + (b2 + 1) - (b + 1) \in Nat
      BY <1>9, <1>10, <3>1
    <3> QED
      BY <3>1, <3>2
  <2> QED
    BY <1>12, <1>13, <2>1
<1>17. I \in [DOMAIN input.inst -> Int]
  <2>1. ASSUME NEW i \in DOMAIN input.inst PROVE i + cu[c].firstInst - u.firstInst \in Int
    <3>1. i \in Nat /\ cu[c].firstInst = a2 + 1 /\ u.firstInst = a + 1
      BY <1>9, <1>10, <1>11
    <3>2. i + (a2 + 1) - (a + 1) \in Int
      BY <1>9, <1>10, <3>1
    <3> QED
      BY <3>1, <3>2
  <2> QED
    BY <1>12, <1>13, <2>1
<1>18. relocs' \in Relocations /\ relocs'.cu = C /\ relocs'.sco = F /\ relocs'.inst = I
  <2>1. relocs' = RelocsOf(relocs, C, F, {}, N, I)
    BY <1>14
  <2>2. C \in Seq(Nat) /\ N \in [DOMAIN input.bdd -> Nat]
    BY <1>12, <1>13, <1>15
  <2> QED
    <3>1. RelocsAre(RelocsOf(relocs, C, F, {}, N, I), C, F, I)
      BY <1>1, <1>16, <1>17, <2>2, RelocsTyped
    <3> QED
      BY <2>1, <3>1 DEF RelocsAre
<1>19. input' = input /\ cu' = cu
  BY <1>1 DEF LoadingUnit, MergeUnit
<1>20. Maps(j, c)
  <2>1. \A s \in 1..Len(input.sco) : s \notin u.first..u.last => F[s] = relocs.sco[s]
    BY <1>11, <1>13
  <2>2. \A i \in 1..Len(input.inst) : i \notin u.firstInst..u.lastInst => I[i] = relocs.inst[i]
    BY <1>11, <1>13
  <2>3. Len(cu) <= Len(cu)
    BY <1>6
  <2> QED
    BY <1>4, <1>6, <1>13, <1>18, <1>19, <2>1, <2>2, <2>3 DEF Maps
<1>21. UnitMapped(j)'
  <2>1. ASSUME NEW s \in 1..l PROVE F[b + s] = b2 + s
    <3>1. b + s \in DOMAIN input.sco /\ b + s \in u.first..u.last
      <4>1. b + s \in (b + 1)..(b + l)
        BY <1>9
      <4> QED
        BY <1>9, <1>11, <4>1
    <3>2. F[b + s] = b + s + (b2 + 1) - (b + 1)
      BY <1>9, <1>10, <1>13, <3>1
    <3> QED
      BY <1>9, <1>10, <3>2
  <2>2. ASSUME NEW i \in 1..o PROVE I[a + i] = a2 + i
    <3>1. a + i \in DOMAIN input.inst /\ a + i \in u.firstInst..u.lastInst
      <4>1. a + i \in (a + 1)..(a + o)
        BY <1>9
      <4> QED
        BY <1>9, <1>11, <4>1
    <3>2. I[a + i] = a + i + (a2 + 1) - (a + 1)
      BY <1>9, <1>10, <1>13, <3>1
    <3> QED
      BY <1>9, <1>10, <3>2
  <2>3. j <= Len(relocs'.cu) /\ relocs'.cu[j] = c
    BY <1>2, <1>3, <1>15, <1>18
  <2>4. /\ \A s \in DOMAIN SCOsOf[u.version] : relocs'.sco[u.first - 1 + s] = cu[c].first - 1 + s
        /\ \A i \in DOMAIN InstancesOf[u.version] : relocs'.inst[u.firstInst - 1 + i] = cu[c].firstInst - 1 + i
    BY <1>9, <1>10, <1>18, <2>1, <2>2
  <2>5. input'.cu[j] = u /\ cu'[relocs'.cu[j]] = cu[c]
    BY <1>4, <1>19, <2>3
  <2> QED
    BY <1>5, <2>3, <2>4, <2>5 DEF UnitMapped
<1> QED
  BY <1>3, <1>4, <1>20, <1>21, RelocsKept

LEMMA SkippedUnitMapped ==
  ASSUME WellFormed(Checkpoint), WellFormed(input), RelocsRight, SkipUnit
  PROVE  RelocsRight'
<1>1. LoadingUnit /\ relocs \in Relocations
  BY DEF SkipUnit, RelocsRight, Relocations
<1>2. relocs.cu \in Seq(Nat) /\ Len(relocs.cu) \in Nat
  BY <1>1 DEF Relocations
<1>3. PICK j, u : j = Len(relocs.cu) + 1 /\ u = CPUnit
  OBVIOUS
<1>4. u = input.cu[j] /\ j \in 1..Len(input.cu)
  <2>1. Len(input.cu) \in Nat
    BY TableFacts DEF WellFormed
  <2> QED
    BY <1>1, <1>2, <1>3, <2>1 DEF CPUnit, LoadingUnit
<1>5. PICK c \in Known : /\ cu[c].version # u.version
                         /\ relocs' = [relocs EXCEPT !.cu = Append(@, c)]
  BY <1>3 DEF SkipUnit
<1>6. c \in 1..Len(cu) /\ Len(cu) \in Nat /\ UnitOf[cu[c].version] = UnitOf[u.version]
  <2>1. Len(Checkpoint.cu) \in Nat
    BY TableFacts DEF WellFormed
  <2> QED
    BY <1>3, <1>5, <2>1, CheckpointFields DEF Known, CompUnit
<1>7. PICK C : C = Append(relocs.cu, c)
  OBVIOUS
<1>8. C \in Seq(Nat) /\ Len(C) = j /\ C[j] = c
  BY <1>2, <1>3, <1>6, <1>7
<1>9. /\ relocs' \in Relocations /\ relocs'.cu = C
      /\ relocs'.sco = relocs.sco /\ relocs'.inst = relocs.inst
  <2>1. PICK p, e, g, f, n, i :
           relocs = [cu |-> p, existing |-> e, ignored |-> g, sco |-> f, bdd |-> n, inst |-> i]
    BY <1>1 DEF Relocations
  <2>2. relocs' = [cu |-> C, existing |-> e, ignored |-> g, sco |-> f, bdd |-> n, inst |-> i]
    BY <1>5, <1>7, <2>1
  <2>3. /\ e \in Nat /\ g \in {{}} /\ f \in [DOMAIN input.sco -> Nat]
        /\ n \in [DOMAIN input.bdd -> Nat] /\ i \in [DOMAIN input.inst -> Int]
    BY <1>1, <2>1 DEF Relocations
  <2>4. C \in Seq(Nat)
    BY <1>8
  <2>5. relocs' \in Relocations
    BY <2>2, <2>3, <2>4 DEF Relocations
  <2> QED
    BY <2>1, <2>2, <2>5
<1>10. input' = input /\ cu' = cu
  BY <1>1 DEF LoadingUnit, SkipUnit
<1>11. Maps(j, c)
  <2>1. Len(cu) <= Len(cu)
    BY <1>6
  <2> QED
    BY <1>4, <1>6, <1>7, <1>9, <1>10, <2>1 DEF Maps
<1>12. UnitMapped(j)'
  <2>1. ~(j <= Len(relocs.cu))
    BY <1>2, <1>3
  <2>2. \A s \in DOMAIN SCOsOf[u.version] : relocs.sco[u.first - 1 + s] = 0
    BY <1>4, <2>1 DEF RelocsRight, UnitMapped
  <2>3. relocs'.cu[j] = c /\ input'.cu[j] = u /\ cu'[c].version # u.version
    BY <1>4, <1>5, <1>8, <1>9, <1>10
  <2> QED
    BY <1>9, <2>2, <2>3 DEF UnitMapped
<1> QED
  BY <1>3, <1>4, <1>11, <1>12, RelocsKept

LEMMA NothingMapped ==
  ASSUME NEW cp, WellFormed(cp), Len(cu) \in Nat, StartLoad(cp)
  PROVE  RelocsRight'
<1>1. /\ input' = cp
      /\ relocs' = [cu |-> <<>>, existing |-> Len(cu), ignored |-> {},
                    sco |-> [s \in DOMAIN cp.sco |-> 0],
                    bdd |-> [n \in DOMAIN cp.bdd |-> 0],
                    inst |-> [i \in DOMAIN cp.inst |-> 0]]
  BY DEF StartLoad
<1>2. relocs' \in [cu : Seq(Nat), existing : Nat, ignored : {{}},
                   sco : [DOMAIN cp.sco -> Nat], bdd : [DOMAIN cp.bdd -> Nat],
                   inst : [DOMAIN cp.inst -> Int]]
  BY <1>1
<1>3. Len(cp.cu) \in Nat /\ DOMAIN cp.sco = 1..Len(cp.sco)
  BY TableFacts DEF WellFormed
<1>4. Len(relocs'.cu) = 0 /\ relocs'.sco = [s \in DOMAIN cp.sco |-> 0]
  BY <1>1
<1>5. ASSUME NEW j \in 1..Len(cp.cu) PROVE UnitMapped(j)'
  <2>1. PICK b, a, l, o : Numbers(cp, j, b, a, l, o)
    BY UnitNumbers
  <2>2. PICK u : u = cp.cu[j]
    OBVIOUS
  <2>3. /\ u.first - 1 = b /\ DOMAIN SCOsOf[u.version] = 1..l
        /\ \A s \in 1..l : b + s \in 1..Len(cp.sco)
    BY <2>1, <2>2 DEF Numbers
  <2>4. \A s \in DOMAIN SCOsOf[u.version] : relocs'.sco[u.first - 1 + s] = 0
    BY <1>3, <1>4, <2>3
  <2>5. ~(j <= Len(relocs'.cu))
    BY <1>3, <1>4
  <2> QED
    BY <1>1, <2>2, <2>4, <2>5 DEF UnitMapped
<1>6. Len(relocs'.cu) <= Len(cp.cu) /\ 1..Len(relocs'.cu) = {}
  BY <1>3, <1>4
<1> QED
  BY <1>1, <1>2, <1>5, <1>6 DEF RelocsRight

----------------------------------------------------------------------------
(* What an item of coverage is about.                                      *)

\* Item x of tables t is about SCO s of version v, which is unit c of t, in its
\* instance k, if any
ItemAt(t, x, c, v, s, k, b, a) ==
  /\ c \in 1..Len(t.cu) /\ v = t.cu[c].version /\ v \in Versions
  /\ b \in Nat /\ a \in Nat
  /\ t.cu[c].first = b + 1 /\ t.cu[c].first - 1 = b
  /\ t.cu[c].firstInst = a + 1 /\ t.cu[c].firstInst - 1 = a
  /\ t.cu[c].lastInst = a + Len(InstancesOf[v]) /\ Len(InstancesOf[v]) \in Nat
  /\ DOMAIN SCOsOf[v] = 1..Len(SCOsOf[v]) /\ Len(SCOsOf[v]) \in Nat
  /\ s \in 1..Len(SCOsOf[v]) /\ x.sco = b + s /\ b + s \in 1..Len(t.sco)
  /\ t.sco[b + s].origin = c /\ t.sco[b + s].degraded = SCOsOf[v][s].degraded
  /\ k \in 0..Len(InstancesOf[v]) /\ x.tag = (IF k = 0 THEN 0 ELSE a + k)
  /\ x.value \in BOOLEAN

LEMMA ItemFound ==
  ASSUME NEW t, WellFormed(t), NEW x \in t.sci
  PROVE  \E c, v, s, k, b, a : ItemAt(t, x, c, v, s, k, b, a)
<1>1. PICK c : c = t.sco[x.sco].origin
  OBVIOUS
<1>2. /\ x.sco \in 1..Len(t.sco) /\ x.tag \in Nat /\ x.value \in BOOLEAN
      /\ c \in 1..Len(t.cu) /\ x.sco \in t.cu[c].first..t.cu[c].last
      /\ x.tag = 0 \/ x.tag \in t.cu[c].firstInst..t.cu[c].lastInst
  BY <1>1 DEF WellFormed, TablesTyped, OriginsRight
<1>3. PICK b, a, l, o : Numbers(t, c, b, a, l, o)
  BY <1>2, UnitNumbers
<1>4. PICK v : v = t.cu[c].version
  OBVIOUS
<1>5. /\ v \in Versions /\ b \in Nat /\ a \in Nat /\ l \in Nat /\ o \in Nat
      /\ l = Len(SCOsOf[v]) /\ DOMAIN SCOsOf[v] = 1..l /\ o = Len(InstancesOf[v])
      /\ t.cu[c].first = b + 1 /\ t.cu[c].first - 1 = b /\ t.cu[c].last = b + l
      /\ t.cu[c].firstInst = a + 1 /\ t.cu[c].firstInst - 1 = a /\ t.cu[c].lastInst = a + o
      /\ \A s \in 1..l : /\ b + s \in 1..Len(t.sco) /\ t.sco[b + s].origin = c
                         /\ t.sco[b + s].degraded = SCOsOf[v][s].degraded
  BY <1>3, <1>4 DEF Numbers
<1>6. PICK s \in 1..l : x.sco = b + s
  <2>1. x.sco \in (b + 1)..(b + l) /\ b \in Nat /\ l \in Nat
    BY <1>2, <1>5
  <2>2. PICK e : e = x.sco
    OBVIOUS
  <2>3. e - b \in 1..l /\ e = b + (e - b)
    BY <2>1, <2>2
  <2> QED
    BY <2>2, <2>3
<1>7. PICK k \in 0..o : x.tag = (IF k = 0 THEN 0 ELSE a + k)
  <2>1. CASE x.tag = 0
    BY <1>5, <2>1
  <2>2. CASE x.tag # 0
    <3>1. x.tag \in (a + 1)..(a + o)
      BY <1>2, <1>5, <2>2
    <3>2. x.tag - a \in 1..o /\ x.tag = a + (x.tag - a) /\ x.tag - a # 0
      <4>1. a \in Nat /\ o \in Nat
        BY <1>5
      <4>2. \A e \in (a + 1)..(a + o) : e - a \in 1..o /\ e = a + (e - a) /\ e - a # 0
        BY <4>1
      <4> QED
        BY <3>1, <4>2
    <3> QED
      BY <3>2
  <2> QED
    BY <2>1, <2>2
<1>8. ItemAt(t, x, c, v, s, k, b, a)
  BY <1>2, <1>4, <1>5, <1>6, <1>7 DEF ItemAt
<1> QED
  BY <1>8

LEMMA ItemObligation ==
  ASSUME NEW t, NEW x, NEW c, NEW v, NEW s, NEW k, NEW b, NEW a, ItemAt(t, x, c, v, s, k, b, a)
  PROVE  Obligation(t, x) = [version |-> v, index |-> s, value |-> x.value, instance |-> k]
<1>1. PICK i, e, p : i = x.sco /\ e = x.tag /\ p = t.cu[c]
  OBVIOUS
<1>2. /\ t.sco[x.sco].origin = c /\ p.version = v /\ p.first = b + 1 /\ p.firstInst = a + 1
      /\ i = b + s /\ e = (IF k = 0 THEN 0 ELSE a + k)
  BY <1>1 DEF ItemAt
<1>3. b \in Nat /\ a \in Nat /\ s \in Nat /\ k \in Nat
  BY DEF ItemAt
<1>4. (b + s) - (b + 1) + 1 = s
  BY <1>3
<1>5. (IF e = 0 THEN 0 ELSE e - (a + 1) + 1) = k
  BY <1>2, <1>3
<1>6. Obligation(t, x) = [version |-> p.version, index |-> i - p.first + 1, value |-> x.value,
                          instance |-> IF e = 0 THEN 0 ELSE e - p.firstInst + 1]
  BY <1>1, <1>2, Zenon DEF Obligation
<1> QED
  BY <1>2, <1>4, <1>5, <1>6

\* The coverage of the checkpoint, with the identifiers of the run
Moved(x) == [sco |-> relocs.sco[x.sco], tag |-> MapTag(x.tag), value |-> x.value]

LEMMA ItemMoved ==
  ASSUME WellFormed(Checkpoint), WellFormed(input), RelocsRight, Len(relocs.cu) = Len(input.cu),
         NEW x \in input.sci, relocs.sco[x.sco] \in DOMAIN sco,
         NEW c, NEW v, NEW s, NEW k, NEW b, NEW a, ItemAt(input, x, c, v, s, k, b, a)
  PROVE  \E d, b2, a2 :
           ItemAt(Checkpoint, Moved(x), d, v, s, IF provider = "default" THEN 0 ELSE k, b2, a2)
<1>1. /\ Len(sco) \in Nat /\ DOMAIN sco = 1..Len(sco) /\ Len(input.cu) \in Nat
  BY TableFacts, CheckpointFields DEF WellFormed
<1>2. /\ c \in 1..Len(input.cu) /\ v = input.cu[c].version /\ b \in Nat /\ a \in Nat
      /\ input.cu[c].first - 1 = b /\ input.cu[c].firstInst - 1 = a
      /\ DOMAIN SCOsOf[v] = 1..Len(SCOsOf[v]) /\ Len(SCOsOf[v]) \in Nat
      /\ s \in 1..Len(SCOsOf[v]) /\ x.sco = b + s
      /\ k \in 0..Len(InstancesOf[v]) /\ Len(InstancesOf[v]) \in Nat
      /\ x.tag = (IF k = 0 THEN 0 ELSE a + k) /\ x.value \in BOOLEAN
      /\ v \in Versions
  BY DEF ItemAt
<1>3. PICK d : d = relocs.cu[c]
  OBVIOUS
<1>4. c <= Len(relocs.cu) /\ d \in 1..Len(cu) /\ UnitMapped(c)
  BY <1>1, <1>2, <1>3 DEF RelocsRight
<1>5. cu[d].version = v
  <2>1. SUFFICES ASSUME cu[d].version # v PROVE FALSE
    OBVIOUS
  <2>2. relocs.sco[b + s] = 0
    BY <1>2, <1>3, <1>4, <2>1 DEF UnitMapped
  <2> QED
    BY <1>1, <1>2, <2>2
<1>6. /\ relocs.sco[b + s] = cu[d].first - 1 + s
      /\ \A i \in DOMAIN InstancesOf[v] : relocs.inst[a + i] = cu[d].firstInst - 1 + i
  BY <1>2, <1>3, <1>4, <1>5 DEF UnitMapped
<1>7. PICK b2, a2, l, o : Numbers(Checkpoint, d, b2, a2, l, o)
  BY <1>4, UnitNumbers, CheckpointFields
<1>8. /\ b2 \in Nat /\ a2 \in Nat /\ l = Len(SCOsOf[v]) /\ o = Len(InstancesOf[v])
      /\ DOMAIN InstancesOf[v] = 1..o
      /\ cu[d].first = b2 + 1 /\ cu[d].first - 1 = b2
      /\ cu[d].firstInst = a2 + 1 /\ cu[d].firstInst - 1 = a2 /\ cu[d].lastInst = a2 + o
      /\ \A i \in 1..l : /\ b2 + i \in 1..Len(sco) /\ sco[b2 + i].origin = d
                         /\ sco[b2 + i].degraded = SCOsOf[v][i].degraded
  BY <1>5, <1>7, CheckpointFields DEF Numbers
<1>9. PICK r : r = (IF provider = "default" THEN 0 ELSE k)
  OBVIOUS
<1>10. r \in 0..Len(InstancesOf[v])
  BY <1>2, <1>9
<1>11. MapTag(x.tag) = (IF r = 0 THEN 0 ELSE a2 + r)
  <2>1. CASE provider = "default"
    BY <1>9, <2>1 DEF MapTag
  <2>2. CASE provider # "default" /\ k = 0
    BY <1>2, <1>9, <2>2 DEF MapTag
  <2>3. CASE provider # "default" /\ k # 0
    <3>1. x.tag = a + k /\ x.tag # 0 /\ k \in 1..o /\ r = k
      BY <1>2, <1>8, <1>9, <2>3
    <3>2. relocs.inst[a + k] = a2 + k
      BY <1>6, <1>8, <3>1
    <3> QED
      BY <2>3, <3>1, <3>2 DEF MapTag
  <2> QED
    BY <2>1, <2>2, <2>3
<1>12. PICK y : y = Moved(x)
  OBVIOUS
<1>13. y.sco = b2 + s /\ y.tag = MapTag(x.tag) /\ y.value = x.value
  BY <1>2, <1>6, <1>8, <1>12 DEF Moved
<1>14. ItemAt(Checkpoint, y, d, v, s, r, b2, a2)
  BY <1>2, <1>4, <1>5, <1>8, <1>10, <1>11, <1>13, CheckpointFields DEF ItemAt
<1> QED
  BY <1>9, <1>12, <1>14

LEMMA CoverageMerged ==
  ASSUME WellFormed(Checkpoint), WellFormed(input), RelocsRight, Len(relocs.cu) = Len(input.cu),
         NEW x \in input.sci, relocs.sco[x.sco] \in DOMAIN sco
  PROVE  SCIRight(Checkpoint, Moved(x))
<1>1. PICK c, v, s, k, b, a : ItemAt(input, x, c, v, s, k, b, a)
  BY ItemFound
<1>2. PICK r : r = (IF provider = "default" THEN 0 ELSE k)
  OBVIOUS
<1>3. PICK d, b2, a2 : ItemAt(Checkpoint, Moved(x), d, v, s, r, b2, a2)
  BY <1>1, <1>2, ItemMoved
<1>4. PICK y : y = Moved(x)
  OBVIOUS
<1>40. y = [sco |-> y.sco, tag |-> y.tag, value |-> y.value]
  <2>1. PICK e, f, g : y = [sco |-> e, tag |-> f, value |-> g]
    BY <1>4 DEF Moved
  <2> QED
    BY <2>1
<1>5. PICK t, u : t = Checkpoint /\ u = t.cu[d]
  OBVIOUS
<1>6. /\ y.sco = b2 + s /\ b2 + s \in 1..Len(t.sco) /\ t.sco[b2 + s].origin = d
      /\ a2 \in Nat /\ Len(InstancesOf[v]) \in Nat /\ r \in 0..Len(InstancesOf[v])
      /\ y.tag = (IF r = 0 THEN 0 ELSE a2 + r) /\ y.value \in BOOLEAN
      /\ u.firstInst = a2 + 1 /\ u.lastInst = a2 + Len(InstancesOf[v])
  BY <1>3, <1>4, <1>5 DEF ItemAt
<1>7. y.tag \in Nat /\ (y.tag = 0 \/ y.tag \in u.firstInst..u.lastInst)
  <2>1. CASE r = 0
    BY <1>6, <2>1
  <2>2. CASE r # 0
    <3>1. a2 + r \in (a2 + 1)..(a2 + Len(InstancesOf[v])) /\ a2 + r \in Nat
      BY <1>6, <2>2
    <3> QED
      BY <1>6, <2>2, <3>1
  <2> QED
    BY <2>1, <2>2
<1>8. y \in [sco : 1..Len(t.sco), tag : Nat, value : BOOLEAN]
  BY <1>40, <1>6, <1>7
<1>9. SCIRight(t, y)
  BY <1>5, <1>6, <1>7, <1>8 DEF SCIRight
<1> QED
  BY <1>4, <1>5, <1>9

----------------------------------------------------------------------------
(* The invariant.                                                          *)

LEMMA RunStarts ==
  ASSUME NextRun, \A cp \in saved' : WellFormed(cp)
  PROVE  IInv'
<1>1. WellFormed(Checkpoint')
  <2>1. PICK w : w = Checkpoint'
    OBVIOUS
  <2>2. /\ w.cu = <<>> /\ w.sco = <<>> /\ w.bdd = <<>> /\ w.inst = <<>> /\ w.sci = {}
        /\ w.provider \in Providers
    BY <2>1, CheckpointFields DEF NextRun
  <2>3. WellFormed(w)
    BY <2>2, EmptyWellFormed
  <2> QED
    BY <2>1, <2>3
<1>2. LoadInProgress'
  BY DEF NextRun, LoadInProgress
<1>3. WellFormed(Checkpoint)'
  BY <1>1
<1>4. (\A cp \in saved : WellFormed(cp))'
  OBVIOUS
<1> QED
  BY <1>2, <1>3, <1>4 DEF IInv

LEMMA InvInit ==
  ASSUME Init
  PROVE  IInv
<1>1. WellFormed(Checkpoint)
  <2>1. PICK w : w = Checkpoint
    OBVIOUS
  <2>2. /\ w.cu = <<>> /\ w.sco = <<>> /\ w.bdd = <<>> /\ w.inst = <<>> /\ w.sci = {}
        /\ w.provider \in Providers
    BY <2>1, CheckpointFields DEF Init
  <2>3. WellFormed(w)
    BY <2>2, EmptyWellFormed
  <2> QED
    BY <2>1, <2>3
<1>2. LoadInProgress
  BY DEF Init, LoadInProgress
<1> QED
  BY <1>1, <1>2 DEF IInv, Init

\* An action that leaves the tables alone and adds no wrong coverage
LEMMA TablesStay ==
  ASSUME WellFormed(Checkpoint), cu' = cu, sco' = sco, bdd' = bdd, inst' = inst,
         provider' \in Providers,
         \A x \in sci' : x \in sci \/ SCIRight(Checkpoint, x)
  PROVE  WellFormed(Checkpoint')
<1>1. PICK t, w : t = Checkpoint /\ w = Checkpoint'
  OBVIOUS
<1>2. SameTables(t, w) /\ WellFormed(t)
  BY <1>1, CheckpointFields DEF SameTables
<1>3. WellFormed(w)
  BY <1>2, CoverageAdded
<1> QED
  BY <1>1, <1>3

LEMMA RelocsStay ==
  ASSUME RelocsRight, relocs' = relocs, input' = input, cu' = cu
  PROVE  RelocsRight'
<1>1. \A j : UnitMapped(j) => UnitMapped(j)'
  BY DEF UnitMapped
<1> QED
  BY <1>1 DEF RelocsRight

LEMMA TraceProcessed ==
  ASSUME WellFormed(Checkpoint), NEW s \in DOMAIN sco, NEW tag \in 0..Len(inst),
         NEW values \in SUBSET BOOLEAN, ProcessTrace(s, tag, values)
  PROVE  WellFormed(Checkpoint')
<1>1. PICK t, c, u : t = Checkpoint /\ c = sco[s].origin /\ u = cu[c]
  OBVIOUS
<1>2. /\ t.sco = sco /\ t.cu = cu /\ TablesTyped(t) /\ OriginsRight(t)
  BY <1>1, CheckpointFields DEF WellFormed
<1>3. s \in 1..Len(sco) /\ tag \in Nat
  <2>1. DOMAIN t.sco = 1..Len(t.sco) /\ Len(t.inst) \in Nat /\ t.inst = inst
    BY <1>1, <1>2, TableFacts, CheckpointFields
  <2> QED
    BY <1>2, <2>1
<1>4. tag = 0 \/ tag \in u.firstInst..u.lastInst
  <2>1. tag \in Tags(c)
    BY <1>1 DEF ProcessTrace
  <2> QED
    BY <1>1, <2>1 DEF Tags
<1>5. \A e \in values : SCIRight(t, [sco |-> s, tag |-> tag, value |-> e])
  <2> SUFFICES ASSUME NEW e \in values PROVE SCIRight(t, [sco |-> s, tag |-> tag, value |-> e])
    OBVIOUS
  <2>1. PICK x : x = [sco |-> s, tag |-> tag, value |-> e]
    OBVIOUS
  <2>2. x.sco = s /\ x.tag = tag /\ x \in [sco : 1..Len(t.sco), tag : Nat, value : BOOLEAN]
    BY <1>2, <1>3, <2>1
  <2>3. SCIRight(t, x)
    BY <1>1, <1>2, <1>4, <2>2 DEF SCIRight
  <2> QED
    BY <2>1, <2>3
<1>6. /\ cu' = cu /\ sco' = sco /\ bdd' = bdd /\ inst' = inst /\ provider' = provider
      /\ sci' = sci \cup {[sco |-> s, tag |-> tag, value |-> e] : e \in values}
  BY DEF ProcessTrace, tables
<1>7. provider \in Providers
  BY <1>1, <1>2, CheckpointFields DEF TablesTyped
<1>8. \A x \in sci' : x \in sci \/ SCIRight(Checkpoint, x)
  BY <1>1, <1>5, <1>6
<1> QED
  BY <1>6, <1>7, <1>8, TablesStay

LEMMA CoverageLoaded ==
  ASSUME WellFormed(Checkpoint), WellFormed(input), RelocsRight, Len(relocs.cu) = Len(input.cu),
         LoadCoverage, ~Raise
  PROVE  /\ WellFormed(Checkpoint') /\ phase' = "files"
         /\ UNCHANGED <<tables, files, provider, input, relocs, inputs, saved>>
         /\ DoMerge => \A x \in input.sci : relocs.sco[x.sco] \in DOMAIN sco
         /\ UsableSCI = {c \in input.sci : input.sco[c.sco].degraded
                                             => [c EXCEPT !.value = ~@] \in input.sci}
         /\ sci' = sci \cup (IF ~DoMerge THEN {} ELSE {Moved(x) : x \in UsableSCI})
<1>1. relocs.ignored = {}
  BY DEF RelocsRight
<1>2. /\ ~(DoMerge /\ \E c \in input.sci : relocs.sco[c.sco] \notin DOMAIN sco)
      /\ sci' = sci \cup
           (IF ~DoMerge THEN {}
            ELSE {[sco |-> relocs.sco[c.sco], tag |-> MapTag(c.tag), value |-> c.value] : c \in UsableSCI})
      /\ phase' = "files"
      /\ UNCHANGED <<tables, files, provider, input, relocs, inputs, saved>>
  BY <1>1 DEF LoadCoverage
<1>3. sci' = sci \cup (IF ~DoMerge THEN {} ELSE {Moved(x) : x \in UsableSCI})
  BY <1>2, Zenon DEF Moved
<1>4. UsableSCI = {c \in input.sci : input.sco[c.sco].degraded
                                       => [c EXCEPT !.value = ~@] \in input.sci}
  BY <1>1 DEF UsableSCI
<1>5. ASSUME NEW x \in sci' PROVE x \in sci \/ SCIRight(Checkpoint, x)
  <2>1. CASE x \in sci
    BY <2>1
  <2>2. CASE x \notin sci
    <3>1. DoMerge /\ \E c \in UsableSCI : x = Moved(c)
      BY <1>3, <2>2
    <3>2. PICK c \in input.sci : x = Moved(c)
      BY <1>4, <3>1
    <3>3. relocs.sco[c.sco] \in DOMAIN sco
      BY <1>2, <3>1
    <3> QED
      BY <3>2, <3>3, CoverageMerged
  <2> QED
    BY <2>1, <2>2
<1>6. provider \in Providers
  BY CheckpointFields DEF WellFormed, TablesTyped
<1>7. cu' = cu /\ sco' = sco /\ bdd' = bdd /\ inst' = inst /\ provider' = provider
  BY <1>2 DEF tables
<1>8. WellFormed(Checkpoint')
  BY <1>5, <1>6, <1>7, TablesStay
<1> QED
  BY <1>2, <1>3, <1>4, <1>8

LEMMA RunRaises ==
  ASSUME IInv, Raise
  PROVE  IInv'
<1>1. NextRun /\ \A cp \in saved' : WellFormed(cp)
  BY DEF Raise, IInv
<1> QED
  BY <1>1, RunStarts

LEMMA InvNext ==
  ASSUME NothingRemoved, IInv, [Next]_vars
  PROVE  IInv'
<1>1. /\ WellFormed(Checkpoint) /\ LoadInProgress /\ \A cp \in saved : WellFormed(cp)
      /\ inputs \subseteq saved
  BY DEF IInv, LoadInProgress
<1>2. phase \in {"units", "coverage"} => WellFormed(input) /\ RelocsRight
  BY <1>1 DEF LoadInProgress
<1>3. provider \in Providers /\ Len(cu) \in Nat
  BY <1>1, TableFacts, CheckpointFields DEF WellFormed, TablesTyped
<1>4. ASSUME NEW v \in Versions, LoadSCOs(v) PROVE IInv'
  <2>1. WellFormed(Checkpoint')
    BY <1>1, <1>4, SCOsLoaded
  <2>2. phase = "traces" /\ UNCHANGED <<load, saved>>
    BY <1>4 DEF LoadSCOs
  <2>3. LoadInProgress'
    BY <1>1, <2>2 DEF LoadInProgress, load
  <2> QED
    BY <1>1, <2>1, <2>2, <2>3 DEF IInv
<1>5. ASSUME NEW s \in DOMAIN sco, NEW tag \in 0..Len(inst),
             NEW values \in SUBSET BOOLEAN \ {{}}, ProcessTrace(s, tag, values)
      PROVE  IInv'
  <2>1. WellFormed(Checkpoint')
    BY <1>1, <1>5, TraceProcessed
  <2>2. phase = "traces" /\ UNCHANGED <<load, saved>>
    BY <1>5 DEF ProcessTrace
  <2>3. LoadInProgress'
    BY <1>1, <2>2 DEF LoadInProgress, load
  <2> QED
    BY <1>1, <2>1, <2>2, <2>3 DEF IInv
<1>6. ASSUME NEW cp \in saved, StartLoad(cp) PROVE IInv'
  <2>1. /\ cu' = cu /\ sco' = sco /\ bdd' = bdd /\ inst' = inst /\ sci' = sci /\ provider' = provider
        /\ saved' = saved /\ phase' = "units" /\ input' = cp /\ inputs' = inputs \cup {cp}
    BY <1>6 DEF StartLoad, tables
  <2>2. WellFormed(Checkpoint')
    BY <1>1, <1>3, <2>1, TablesStay
  <2>3. RelocsRight'
    BY <1>1, <1>3, <1>6, NothingMapped
  <2>4. LoadInProgress'
    BY <1>1, <2>1, <2>3 DEF LoadInProgress
  <2> QED
    BY <1>1, <2>1, <2>2, <2>4 DEF IInv
<1>7. ASSUME LoadingUnit, WellFormed(Checkpoint'), RelocsRight' PROVE IInv'
  <2>1. phase = "units" /\ UNCHANGED <<phase, input, inputs, saved>>
    BY <1>7 DEF LoadingUnit
  <2>2. LoadInProgress'
    BY <1>1, <1>7, <2>1 DEF LoadInProgress
  <2> QED
    BY <1>1, <1>7, <2>1, <2>2 DEF IInv
<1>8. CASE LoadNewUnit
  <2>1. LoadingUnit
    BY <1>8 DEF LoadNewUnit
  <2>2. WellFormed(input) /\ RelocsRight
    BY <1>2, <2>1 DEF LoadingUnit
  <2>3. Len(relocs.cu) \in Nat
    BY <2>2 DEF RelocsRight
  <2>4. WellFormed(Checkpoint')
    BY <1>1, <1>8, <2>2, <2>3, NewUnitWellFormed
  <2>5. RelocsRight'
    BY <1>1, <1>8, <2>2, NewUnitMapped
  <2> QED
    BY <1>7, <2>1, <2>4, <2>5
<1>9. ASSUME LoadingUnit, cu' = cu, sco' = sco, bdd' = bdd, inst' = inst
      PROVE  WellFormed(Checkpoint')
  <2>1. sci' = sci /\ provider' = provider
    BY <1>9 DEF LoadingUnit
  <2> QED
    BY <1>1, <1>3, <1>9, <2>1, TablesStay
<1>10. CASE MergeUnit
  <2>1. LoadingUnit /\ cu' = cu /\ sco' = sco /\ bdd' = bdd /\ inst' = inst
    BY <1>10 DEF MergeUnit
  <2>2. WellFormed(input) /\ RelocsRight
    BY <1>2, <2>1 DEF LoadingUnit
  <2>3. RelocsRight'
    BY <1>1, <1>10, <2>2, KnownUnitMapped
  <2> QED
    BY <1>7, <1>9, <2>1, <2>3
<1>11. CASE SkipUnit
  <2>1. LoadingUnit /\ cu' = cu /\ sco' = sco /\ bdd' = bdd /\ inst' = inst
    BY <1>11 DEF SkipUnit
  <2>2. WellFormed(input) /\ RelocsRight
    BY <1>2, <2>1 DEF LoadingUnit
  <2>3. RelocsRight'
    BY <1>1, <1>11, <2>2, SkippedUnitMapped
  <2> QED
    BY <1>7, <1>9, <2>1, <2>3
<1>12. CASE LoadAnnotations
  <2>1. CASE Raise
    BY <2>1, RunRaises
  <2>2. CASE ~Raise
    <3>1. /\ phase = "units" /\ phase' = "coverage" /\ Len(relocs.cu) = Len(input.cu)
          /\ UNCHANGED <<cu, sco, bdd, inst, sci, files, provider, input, relocs, inputs, saved>>
      BY <1>12, <2>2 DEF LoadAnnotations
    <3>2. WellFormed(Checkpoint')
      BY <1>1, <1>3, <3>1, TablesStay
    <3>3. RelocsRight'
      BY <1>2, <3>1, RelocsStay
    <3>4. LoadInProgress'
      BY <1>1, <3>1, <3>3 DEF LoadInProgress
    <3> QED
      BY <1>1, <3>1, <3>2, <3>4 DEF IInv
  <2> QED
    BY <2>1, <2>2
<1>13. CASE LoadCoverage
  <2>1. CASE Raise
    BY <2>1, RunRaises
  <2>2. CASE ~Raise
    <3>1. phase = "coverage" /\ Len(relocs.cu) = Len(input.cu)
      BY <1>1, <1>13 DEF LoadCoverage, LoadInProgress
    <3>2. /\ WellFormed(Checkpoint') /\ phase' = "files"
          /\ UNCHANGED <<tables, files, provider, input, relocs, inputs, saved>>
      BY <1>1, <1>2, <1>13, <2>2, <3>1, CoverageLoaded
    <3>3. LoadInProgress'
      BY <1>1, <3>2 DEF LoadInProgress
    <3> QED
      BY <1>1, <3>2, <3>3 DEF IInv
  <2> QED
    BY <2>1, <2>2
<1>14. CASE LoadTraceFiles
  <2>1. CASE Raise
    BY <2>1, RunRaises
  <2>2. CASE ~Raise
    <3>1. phase' = "loaded" /\ UNCHANGED <<tables, sci, provider, inputs, saved>>
      BY <1>14, <2>2 DEF LoadTraceFiles
    <3>2. WellFormed(Checkpoint')
      BY <1>1, <1>3, <3>1, TablesStay DEF tables
    <3>3. LoadInProgress'
      BY <1>1, <3>1 DEF LoadInProgress
    <3> QED
      BY <1>1, <3>1, <3>2, <3>3 DEF IInv
  <2> QED
    BY <2>1, <2>2
<1>15. CASE End
  <2>1. NextRun /\ (saved' = saved \/ saved' = saved \cup {Checkpoint})
    BY <1>15 DEF End
  <2>2. \A cp \in saved' : WellFormed(cp)
    BY <1>1, <2>1
  <2> QED
    BY <2>1, <2>2, RunStarts
<1>16. CASE UNCHANGED vars
  <2>1. UNCHANGED <<cu, sco, bdd, inst, sci, provider, phase, input, relocs, inputs, saved>>
    BY <1>16 DEF vars, tables, load
  <2>2. WellFormed(Checkpoint')
    BY <1>1, <1>3, <2>1, TablesStay
  <2>3. phase \in {"units", "coverage"} => RelocsRight'
    BY <1>2, <2>1, RelocsStay
  <2>4. LoadInProgress'
    BY <1>1, <2>1, <2>3 DEF LoadInProgress
  <2> QED
    BY <1>1, <2>1, <2>2, <2>4 DEF IInv
<1> QED
  BY <1>4, <1>5, <1>6, <1>8, <1>10, <1>11, <1>12, <1>13, <1>14, <1>15, <1>16 DEF Next

\* In every state that runs of the tool reach, the tables are concatenations of
\* units as SCO files describe them, in checkpoints too, and relocations map
\* the units loaded so far onto those of the run.
THEOREM Invariance ==
  ASSUME NothingRemoved
  PROVE  Spec => []IInv
<1>1. IInv /\ [Next]_vars => IInv'
  BY NothingRemoved, InvNext
<1> QED
  BY <1>1, InvInit, PTL DEF Spec

LEMMA ShapeOfUnits ==
  ASSUME WellFormed(Checkpoint)
  PROVE  UnitsKeepShape
<1>1. PICK t : t = Checkpoint
  OBVIOUS
<1>2. /\ t.cu = cu /\ t.sco = sco /\ t.bdd = bdd /\ t.inst = inst
      /\ TablesTyped(t) /\ DOMAIN cu = 1..Len(cu) /\ Len(bdd) \in Nat
  BY <1>1, CheckpointFields, TableFacts DEF WellFormed
<1>3. ASSUME NEW c \in DOMAIN cu, NEW u, u = cu[c]
      PROVE  /\ u.last = u.first + Len(SCOsOf[u.version]) - 1
             /\ \E n \in 0..Len(bdd) :
                  /\ \A s \in DOMAIN SCOsOf[u.version] :
                       sco[Shifted(Len(SCOsOf[u.version]), u.first - 1)[s]]
                         = Relocated(SCOsOf[u.version][s], c,
                                     Shifted(Len(SCOsOf[u.version]), u.first - 1),
                                     Shifted(Len(NodesOf[u.version]), n))
                  /\ \A k \in DOMAIN NodesOf[u.version] :
                       bdd[Shifted(Len(NodesOf[u.version]), n)[k]]
                         = [sco |-> Shifted(Len(SCOsOf[u.version]), u.first - 1)[NodesOf[u.version][k].sco],
                            dests |-> {Shifted(Len(NodesOf[u.version]), n)[d] : d \in NodesOf[u.version][k].dests}]
             /\ \A i \in DOMAIN InstancesOf[u.version] :
                  inst[u.firstInst + i - 1] =
                    [cu |-> c, enclosing |-> IF InstancesOf[u.version][i] = 0 THEN 0
                                             ELSE u.firstInst + InstancesOf[u.version][i] - 1]
  <2>1. c \in 1..Len(t.cu)
    BY <1>2
  <2>2. PICK n \in Nat : UnitAt(t, c, n)
    BY <1>1, <2>1 DEF WellFormed
  <2>3. PICK shape, nodes, insts, scoMap, nodeMap :
           IsUnit(t, c, n, u, shape, nodes, insts, scoMap, nodeMap)
    BY <1>2, <1>3 DEF IsUnit
  <2>4. UnitIs(t, c, n, u, shape, nodes, insts, scoMap, nodeMap)
    BY <2>2, <2>3, UnitParts
  <2>5. PICK b, a, l, m, o : /\ b = u.first - 1 /\ a = u.firstInst - 1
                             /\ l = Len(shape) /\ m = Len(nodes) /\ o = Len(insts)
    OBVIOUS
  <2>6. /\ shape = SCOsOf[u.version] /\ nodes = NodesOf[u.version] /\ insts = InstancesOf[u.version]
        /\ scoMap = Shifted(l, b) /\ nodeMap = Shifted(m, n)
    BY <2>3, <2>5 DEF IsUnit
  <2>7. u.version \in Versions /\ u.first \in Nat \ {0} /\ u.firstInst \in Nat \ {0}
    BY <1>2, <1>3, <2>1, TableFacts
  <2>8. /\ l \in Nat /\ m \in Nat /\ o \in Nat
        /\ DOMAIN shape = 1..l /\ DOMAIN nodes = 1..m /\ DOMAIN insts = 1..o
        /\ \A i \in 1..o : insts[i] \in Nat
    <3>1. IsVersion(shape, nodes, insts)
      BY <2>6, <2>7, VersionFacts
    <3>2. insts \in Seq(0..Len(insts)) /\ Len(insts) \in Nat
      BY <3>1 DEF IsVersion
    <3> QED
      BY <2>5, <3>1, <3>2 DEF IsVersion
  <2>9. b \in Nat /\ a \in Nat /\ u.first = b + 1 /\ u.firstInst = a + 1
    <3>1. PICK p, q : p = u.first /\ q = u.firstInst
      OBVIOUS
    <3>2. p \in Nat \ {0} /\ q \in Nat \ {0} /\ b = p - 1 /\ a = q - 1
      BY <2>5, <2>7, <3>1
    <3> QED
      BY <3>1, <3>2
  <2>10. u.last = u.first + l - 1
    <3>1. u.last = b + l
      BY <2>4, <2>5 DEF UnitIs
    <3>2. b + l = (b + 1) + l - 1
      BY <2>8, <2>9
    <3> QED
      BY <2>9, <3>1, <3>2
  <2>11. n \in 0..Len(bdd)
    <3>1. n + m <= Len(bdd)
      BY <1>2, <2>4, <2>5 DEF UnitIs
    <3> QED
      BY <1>2, <2>8, <3>1
  <2>12. \A s \in DOMAIN shape : sco[scoMap[s]] = Relocated(shape[s], c, scoMap, nodeMap)
    <3>1. \A s \in DOMAIN shape : scoMap[s] = b + s
      <4>1. l \in Nat /\ b \in Nat
        BY <2>8, <2>9
      <4>2. \A s \in 1..l : Shifted(l, b)[s] = b + s
        BY <4>1, ShiftedValues
      <4> QED
        BY <2>6, <2>8, <4>2
    <3>2. \A s \in DOMAIN shape : sco[b + s] = Relocated(shape[s], c, scoMap, nodeMap)
      BY <1>2, <2>4, <2>5 DEF UnitIs
    <3> QED
      BY <3>1, <3>2, Zenon
  <2>13. \A k \in DOMAIN nodes :
           bdd[nodeMap[k]] = [sco |-> scoMap[nodes[k].sco], dests |-> {nodeMap[d] : d \in nodes[k].dests}]
    <3>1. \A k \in DOMAIN nodes : nodeMap[k] = n + k
      <4>1. m \in Nat /\ n \in Nat
        BY <2>8
      <4>2. \A k \in 1..m : Shifted(m, n)[k] = n + k
        BY <4>1, ShiftedValues
      <4> QED
        BY <2>6, <2>8, <4>2
    <3>2. \A k \in DOMAIN nodes :
            bdd[n + k] = [sco |-> scoMap[nodes[k].sco], dests |-> {nodeMap[d] : d \in nodes[k].dests}]
      BY <1>2, <2>4 DEF UnitIs
    <3> QED
      BY <3>1, <3>2, Zenon
  <2>14. \A i \in DOMAIN insts :
           inst[u.firstInst + i - 1] =
             [cu |-> c, enclosing |-> IF insts[i] = 0 THEN 0 ELSE u.firstInst + insts[i] - 1]
    <3> SUFFICES ASSUME NEW i \in 1..o
                 PROVE  inst[u.firstInst + i - 1] =
                          [cu |-> c, enclosing |-> IF insts[i] = 0 THEN 0 ELSE u.firstInst + insts[i] - 1]
      BY <2>8
    <3>1. PICK e : e = insts[i]
      OBVIOUS
    <3>2. inst[a + i] = [cu |-> c, enclosing |-> IF e = 0 THEN 0 ELSE a + e]
      BY <1>2, <2>4, <2>5, <2>8, <3>1 DEF UnitIs
    <3>3. (a + 1) + i - 1 = a + i /\ (a + 1) + e - 1 = a + e
      BY <2>8, <2>9, <3>1
    <3> QED
      BY <2>9, <3>1, <3>2, <3>3
  <2>15. /\ l = Len(SCOsOf[u.version]) /\ m = Len(NodesOf[u.version]) /\ b = u.first - 1
         /\ scoMap = Shifted(Len(SCOsOf[u.version]), u.first - 1)
         /\ nodeMap = Shifted(Len(NodesOf[u.version]), n)
    BY <2>5, <2>6
  <2>16. u.last = u.first + Len(SCOsOf[u.version]) - 1
    BY <2>10, <2>15
  <2>17. \A s \in DOMAIN SCOsOf[u.version] :
           sco[Shifted(Len(SCOsOf[u.version]), u.first - 1)[s]]
             = Relocated(SCOsOf[u.version][s], c,
                         Shifted(Len(SCOsOf[u.version]), u.first - 1),
                         Shifted(Len(NodesOf[u.version]), n))
    BY <2>6, <2>12, <2>15, Zenon
  <2>18. \A k \in DOMAIN NodesOf[u.version] :
           bdd[Shifted(Len(NodesOf[u.version]), n)[k]]
             = [sco |-> Shifted(Len(SCOsOf[u.version]), u.first - 1)[NodesOf[u.version][k].sco],
                dests |-> {Shifted(Len(NodesOf[u.version]), n)[d] : d \in NodesOf[u.version][k].dests}]
    <3> SUFFICES ASSUME NEW k \in DOMAIN NodesOf[u.version]
                 PROVE  bdd[Shifted(Len(NodesOf[u.version]), n)[k]]
                          = [sco |-> Shifted(Len(SCOsOf[u.version]), u.first - 1)[NodesOf[u.version][k].sco],
                             dests |-> {Shifted(Len(NodesOf[u.version]), n)[d] :
                                          d \in NodesOf[u.version][k].dests}]
      OBVIOUS
    <3>1. PICK D : D = NodesOf[u.version][k].dests
      OBVIOUS
    <3>2. bdd[nodeMap[k]] = [sco |-> scoMap[NodesOf[u.version][k].sco], dests |-> {nodeMap[d] : d \in D}]
      BY <2>6, <2>13, <3>1
    <3>3. {nodeMap[d] : d \in D} = {Shifted(Len(NodesOf[u.version]), n)[d] : d \in D}
      BY <2>15
    <3> QED
      BY <2>15, <3>1, <3>2, <3>3
  <2>19. \A i \in DOMAIN InstancesOf[u.version] :
           inst[u.firstInst + i - 1] =
             [cu |-> c, enclosing |-> IF InstancesOf[u.version][i] = 0 THEN 0
                                      ELSE u.firstInst + InstancesOf[u.version][i] - 1]
    BY <2>6, <2>14, Zenon
  <2> QED
    BY <2>11, <2>16, <2>17, <2>18, <2>19, Zenon
<1> QED
  BY <1>3, Zenon DEF UnitsKeepShape

\* Whatever runs and checkpoints the SCOs of a unit went through, the unit is in
\* the tables as if they had just been loaded (UnitsKeepShape).
THEOREM ShapesKept ==
  ASSUME NothingRemoved
  PROVE  Spec => []UnitsKeepShape
<1>1. IInv => UnitsKeepShape
  BY ShapeOfUnits DEF IInv
<1> QED
  BY <1>1, NothingRemoved, Invariance, PTL

----------------------------------------------------------------------------
(* Coverage in terms of obligations.                                       *)

\* Units and coverage are the same, in terms of obligations
LEMMA SameMeaning ==
  ASSUME NEW t, NEW w, w.cu = t.cu, w.sco = t.sco, w.sci = t.sci
  PROVE  VersionsOf(w) = VersionsOf(t) /\ Covered(w) = Covered(t)
<1>1. \A x : Obligation(w, x) = Obligation(t, x)
  BY Zenon DEF Obligation
<1> QED
  BY <1>1 DEF VersionsOf, Covered

LEMMA UnitLearnt ==
  ASSUME NEW t, NEW w, WellFormed(t), NEW v \in Versions, LoadedIn(t, w, v), w.sci = t.sci
  PROVE  VersionsOf(w) = VersionsOf(t) \cup {v} /\ Covered(w) = Covered(t)
<1>1. TablesTyped(t) /\ OriginsRight(t)
  BY DEF WellFormed
<1>2. PICK m : m = Len(t.cu)
  OBVIOUS
<1>3. /\ m \in Nat /\ DOMAIN t.cu = 1..m /\ w.cu \in Seq(Units) /\ Len(w.cu) = m + 1
      /\ w.cu[m + 1].version = v /\ Grows(t, w)
  <2>1. m \in Nat /\ DOMAIN t.cu = 1..m
    BY <1>1, <1>2, TableFacts
  <2>2. PICK k : k = Len(w.cu)
    OBVIOUS
  <2>3. w.cu \in Seq(Units) /\ k = m + 1 /\ w.cu[k].version = v /\ Grows(t, w)
    BY <1>1, <1>2, <2>2, UnitLoaded
  <2> QED
    BY <2>1, <2>2, <2>3
<1>4. /\ DOMAIN w.cu = 1..(m + 1) /\ \A c \in 1..m : w.cu[c] = t.cu[c]
      /\ \A s \in 1..Len(t.sco) : w.sco[s] = t.sco[s]
  BY <1>2, <1>3 DEF Grows
<1>5. VersionsOf(w) = VersionsOf(t) \cup {v}
  <2>1. VersionsOf(w) = {w.cu[c].version : c \in 1..(m + 1)}
    BY <1>4 DEF VersionsOf
  <2>2. VersionsOf(t) = {t.cu[c].version : c \in 1..m}
    BY <1>3 DEF VersionsOf
  <2>3. \A c \in 1..(m + 1) : c \in 1..m \/ c = m + 1
    BY <1>3
  <2>4. \A c \in 1..m : c \in 1..(m + 1)
    BY <1>3
  <2>5. m + 1 \in 1..(m + 1)
    BY <1>3
  <2> QED
    BY <1>3, <1>4, <2>1, <2>2, <2>3, <2>4, <2>5
<1>6. ASSUME NEW x \in t.sci PROVE Obligation(w, x) = Obligation(t, x)
  <2>1. x.sco \in 1..Len(t.sco)
    BY <1>1 DEF TablesTyped
  <2>2. t.sco[x.sco].origin \in 1..m
    BY <1>1, <1>2, <2>1 DEF OriginsRight
  <2>3. w.cu[w.sco[x.sco].origin] = t.cu[t.sco[x.sco].origin]
    BY <1>4, <2>1, <2>2
  <2> QED
    BY <2>3, Zenon DEF Obligation
<1>7. Covered(w) = Covered(t)
  BY <1>6 DEF Covered
<1> QED
  BY <1>5, <1>7

LEMMA ItemObliges ==
  ASSUME NEW t, NEW x, NEW c, NEW v, NEW s, NEW k, NEW b, NEW a, ItemAt(t, x, c, v, s, k, b, a),
         DOMAIN t.cu = 1..Len(t.cu)
  PROVE  Obligation(t, x) \in Obligations /\ v \in VersionsOf(t)
<1>1. PICK o : o = Obligation(t, x)
  OBVIOUS
<1>2. o = [version |-> v, index |-> s, value |-> x.value, instance |-> k]
  BY <1>1, ItemObligation
<1>3. /\ v \in Versions /\ s \in DOMAIN SCOsOf[v] /\ x.value \in BOOLEAN
      /\ k \in 0..Len(InstancesOf[v])
  BY DEF ItemAt
<1>4. o \in [version : {v}, index : DOMAIN SCOsOf[v], value : BOOLEAN,
             instance : 0..Len(InstancesOf[v])]
  BY <1>2, <1>3
<1>5. o \in Obligations
  BY <1>3, <1>4 DEF Obligations
<1>6. v \in VersionsOf(t)
  BY DEF ItemAt, VersionsOf
<1> QED
  BY <1>1, <1>5, <1>6

LEMMA CoveredTyped ==
  ASSUME NEW t, WellFormed(t), NEW x \in t.sci
  PROVE  Obligation(t, x) \in Obligations /\ Obligation(t, x).version \in VersionsOf(t)
<1>1. PICK c, v, s, k, b, a : ItemAt(t, x, c, v, s, k, b, a)
  BY ItemFound
<1>2. DOMAIN t.cu = 1..Len(t.cu)
  BY TableFacts DEF WellFormed
<1>3. Obligation(t, x) = [version |-> v, index |-> s, value |-> x.value, instance |-> k]
  BY <1>1, ItemObligation
<1>4. Obligation(t, x).version = v
  BY <1>3
<1>5. Obligation(t, x) \in Obligations /\ v \in VersionsOf(t)
  BY <1>1, <1>2, ItemObliges
<1> QED
  BY <1>4, <1>5

\* The item with the other value
Negated(x) == [x EXCEPT !.value = ~@]

LEMMA NegatedItem ==
  ASSUME NEW x, NEW p, NEW q, NEW r, x = [sco |-> p, tag |-> q, value |-> r]
  PROVE  Negated(x) = [sco |-> p, tag |-> q, value |-> ~r]
BY DEF Negated

\* The obligation with the other value
LEMMA NegatedObligation ==
  ASSUME NEW x, NEW p, NEW q, NEW r, NEW e, x = [version |-> p, index |-> q, value |-> r, instance |-> e]
  PROVE  Negated(x) = [version |-> p, index |-> q, value |-> ~r, instance |-> e]
BY DEF Negated

\* Items of coverage are those of obligations, one to one
LEMMA ItemsDiffer ==
  ASSUME NEW t, WellFormed(t), NEW x \in t.sci, NEW y \in t.sci,
         Obligation(t, y) = Negated(Obligation(t, x))
  PROVE  y = Negated(x)
<1>1. PICK c, v, s, k, b, a : ItemAt(t, x, c, v, s, k, b, a)
  BY ItemFound
<1>2. PICK c2, v2, s2, k2, b2, a2 : ItemAt(t, y, c2, v2, s2, k2, b2, a2)
  BY ItemFound
<1>3. Obligation(t, x) = [version |-> v, index |-> s, value |-> x.value, instance |-> k]
  BY <1>1, ItemObligation
<1>4. Obligation(t, y) = [version |-> v2, index |-> s2, value |-> y.value, instance |-> k2]
  BY <1>2, ItemObligation
<1>5. Negated(Obligation(t, x)) = [version |-> v, index |-> s, value |-> ~x.value, instance |-> k]
  BY <1>3, NegatedObligation
<1>6. v2 = v /\ s2 = s /\ k2 = k /\ y.value = ~x.value
  <2>1. PICK o : o = Obligation(t, y)
    OBVIOUS
  <2>2. o.version = v2 /\ o.index = s2 /\ o.value = y.value /\ o.instance = k2
    BY <1>4, <2>1
  <2>3. o.version = v /\ o.index = s /\ o.value = ~x.value /\ o.instance = k
    BY <1>5, <2>1
  <2> QED
    BY <2>2, <2>3
<1>7. /\ c \in 1..Len(t.cu) /\ c2 \in 1..Len(t.cu)
      /\ v = t.cu[c].version /\ v2 = t.cu[c2].version
  BY <1>1, <1>2 DEF ItemAt
<1>8. c2 = c
  BY <1>6, <1>7 DEF WellFormed, UnitsOnce
<1>9. b2 = b /\ a2 = a
  BY <1>1, <1>2, <1>8 DEF ItemAt
<1>10. y.sco = x.sco /\ y.tag = x.tag
  BY <1>1, <1>2, <1>6, <1>9 DEF ItemAt
<1>11. /\ x \in [sco : 1..Len(t.sco), tag : Nat, value : BOOLEAN]
       /\ y \in [sco : 1..Len(t.sco), tag : Nat, value : BOOLEAN]
  BY DEF WellFormed, TablesTyped
<1>12. PICK p, q, r : x = [sco |-> p, tag |-> q, value |-> r]
  BY <1>11
<1>13. y = [sco |-> y.sco, tag |-> y.tag, value |-> y.value]
  BY <1>11
<1>14. y = [sco |-> p, tag |-> q, value |-> ~r]
  BY <1>6, <1>10, <1>12, <1>13
<1> QED
  BY <1>12, <1>14, NegatedItem

LEMMA ItemNegated ==
  ASSUME NEW t, WellFormed(t), NEW x \in t.sci, Negated(x) \in t.sci
  PROVE  Obligation(t, Negated(x)) = Negated(Obligation(t, x))
<1>1. PICK c, v, s, k, b, a : ItemAt(t, x, c, v, s, k, b, a)
  BY ItemFound
<1>2. x \in [sco : 1..Len(t.sco), tag : Nat, value : BOOLEAN]
  BY DEF WellFormed, TablesTyped
<1>3. PICK p, q, r : x = [sco |-> p, tag |-> q, value |-> r]
  BY <1>2
<1>4. PICK y : y = Negated(x)
  OBVIOUS
<1>5. y = [sco |-> p, tag |-> q, value |-> ~r]
  BY <1>3, <1>4, NegatedItem
<1>6. y.sco = x.sco /\ y.tag = x.tag /\ y.value = ~x.value /\ y.value \in BOOLEAN
  <2>1. x.sco = p /\ x.tag = q /\ x.value = r
    BY <1>3
  <2>2. y.sco = p /\ y.tag = q /\ y.value = ~r
    BY <1>5
  <2> QED
    BY <2>1, <2>2
<1>7. ItemAt(t, y, c, v, s, k, b, a)
  BY <1>1, <1>6 DEF ItemAt
<1>8. Obligation(t, y) = [version |-> v, index |-> s, value |-> y.value, instance |-> k]
  BY <1>7, ItemObligation
<1>9. Obligation(t, x) = [version |-> v, index |-> s, value |-> x.value, instance |-> k]
  BY <1>1, ItemObligation
<1>10. Negated(Obligation(t, x)) = [version |-> v, index |-> s, value |-> ~x.value, instance |-> k]
  BY <1>9, NegatedObligation
<1> QED
  BY <1>4, <1>6, <1>8, <1>10

\* What the coverage of an item becomes once it is loaded
Loaded(o) == IF provider = "default" THEN [o EXCEPT !.instance = 0] ELSE o

LEMMA MovedObligation ==
  ASSUME WellFormed(Checkpoint), WellFormed(input), RelocsRight, Len(relocs.cu) = Len(input.cu),
         NEW x \in input.sci, relocs.sco[x.sco] \in DOMAIN sco,
         NEW o, o = Obligation(input, x)
  PROVE  /\ Obligation(Checkpoint, Moved(x)) = Loaded(o)
         /\ o \in Obligations /\ o.version \in VersionsOf(Checkpoint)
         /\ SCOsOf[o.version][o.index].degraded = input.sco[x.sco].degraded
<1>1. PICK c, v, s, k, b, a : ItemAt(input, x, c, v, s, k, b, a)
  BY ItemFound
<1>2. PICK r : r = (IF provider = "default" THEN 0 ELSE k)
  OBVIOUS
<1>3. PICK d, b2, a2 : ItemAt(Checkpoint, Moved(x), d, v, s, r, b2, a2)
  BY <1>1, <1>2, ItemMoved
<1>4. o = [version |-> v, index |-> s, value |-> x.value, instance |-> k]
  BY <1>1, ItemObligation
<1>5. PICK e : e = x.value
  OBVIOUS
<1>6. Obligation(Checkpoint, Moved(x)) = [version |-> v, index |-> s, value |-> e, instance |-> r]
  <2>1. Obligation(Checkpoint, Moved(x))
          = [version |-> v, index |-> s, value |-> Moved(x).value, instance |-> r]
    BY <1>3, ItemObligation
  <2>2. Moved(x).value = e
    BY <1>5 DEF Moved
  <2> QED
    BY <2>1, <2>2
<1>7. Loaded(o) = [version |-> v, index |-> s, value |-> e, instance |-> r]
  <2>1. o = [version |-> v, index |-> s, value |-> e, instance |-> k]
    BY <1>4, <1>5
  <2>2. [o EXCEPT !.instance = 0] = [version |-> v, index |-> s, value |-> e, instance |-> 0]
    BY <2>1
  <2>3. CASE provider = "default"
    BY <1>2, <2>2, <2>3 DEF Loaded
  <2>4. CASE provider # "default"
    BY <1>2, <2>1, <2>4 DEF Loaded
  <2> QED
    BY <2>3, <2>4
<1>8. /\ DOMAIN input.cu = 1..Len(input.cu)
      /\ DOMAIN Checkpoint.cu = 1..Len(Checkpoint.cu)
  BY TableFacts DEF WellFormed
<1>9. o \in Obligations
  BY <1>1, <1>8, ItemObliges
<1>10. v \in VersionsOf(Checkpoint)
  BY <1>3, <1>8, ItemObliges
<1>11. o.version = v /\ o.index = s
  BY <1>4
<1>12. SCOsOf[v][s].degraded = input.sco[x.sco].degraded
  BY <1>1 DEF ItemAt
<1> QED
  BY <1>6, <1>7, <1>9, <1>10, <1>11, <1>12

\* The items that are merged are those of the obligations that may be
LEMMA MergedRight ==
  ASSUME WellFormed(Checkpoint), WellFormed(input), RelocsRight, Len(relocs.cu) = Len(input.cu),
         \A x \in input.sci : relocs.sco[x.sco] \in DOMAIN sco,
         UsableSCI = {c \in input.sci : input.sco[c.sco].degraded
                                          => [c EXCEPT !.value = ~@] \in input.sci},
         NEW same, same = {o \in Promise!Usable(Covered(input)) : o.version \in VersionsOf(Checkpoint)}
  PROVE  {Obligation(Checkpoint, Moved(x)) : x \in UsableSCI}
           = IF provider # "default" THEN same ELSE Promise!Merged(same)
<1>1. ASSUME NEW x \in input.sci, NEW o, o = Obligation(input, x)
      PROVE  /\ Obligation(Checkpoint, Moved(x)) = Loaded(o)
             /\ o \in Obligations /\ o.version \in VersionsOf(Checkpoint)
             /\ SCOsOf[o.version][o.index].degraded = input.sco[x.sco].degraded
  BY <1>1, MovedObligation
<1>2. UsableSCI = {c \in input.sci : input.sco[c.sco].degraded => Negated(c) \in input.sci}
  BY Zenon DEF Negated
<1>3. \A o : o \in Promise!Usable(Covered(input)) <=>
         /\ o \in Covered(input)
         /\ (o \in Obligations /\ SCOsOf[o.version][o.index].degraded) => Negated(o) \in Covered(input)
  BY Zenon DEF Promise!Usable, Negated
<1>4. ASSUME NEW x \in UsableSCI PROVE Obligation(input, x) \in Promise!Usable(Covered(input))
  <2>1. PICK o : o = Obligation(input, x)
    OBVIOUS
  <2>2. x \in input.sci /\ o \in Covered(input)
    BY <1>2, <2>1 DEF Covered
  <2>3. ASSUME SCOsOf[o.version][o.index].degraded PROVE Negated(o) \in Covered(input)
    <3>1. input.sco[x.sco].degraded
      BY <1>1, <2>1, <2>2, <2>3
    <3>2. Negated(x) \in input.sci
      BY <1>2, <3>1
    <3>3. Obligation(input, Negated(x)) = Negated(o)
      BY <2>1, <2>2, <3>2, ItemNegated
    <3> QED
      BY <3>2, <3>3 DEF Covered
  <2> QED
    BY <1>3, <2>1, <2>2, <2>3
<1>5. ASSUME NEW o \in Promise!Usable(Covered(input))
      PROVE  \E x \in UsableSCI : o = Obligation(input, x)
  <2>1. PICK x \in input.sci : o = Obligation(input, x)
    BY <1>3 DEF Covered
  <2>2. ASSUME input.sco[x.sco].degraded PROVE Negated(x) \in input.sci
    <3>1. o \in Obligations /\ SCOsOf[o.version][o.index].degraded
      BY <1>1, <2>1, <2>2
    <3>2. Negated(o) \in Covered(input)
      BY <1>3, <3>1
    <3>3. PICK y \in input.sci : Negated(o) = Obligation(input, y)
      BY <3>2 DEF Covered
    <3>4. y = Negated(x)
      BY <2>1, <3>3, ItemsDiffer
    <3> QED
      BY <3>3, <3>4
  <2> QED
    BY <1>2, <2>1, <2>2
<1>6. same = {Obligation(input, x) : x \in UsableSCI}
  <2>1. \A x \in UsableSCI : x \in input.sci
    BY <1>2
  <2>2. \A x \in UsableSCI : Obligation(input, x).version \in VersionsOf(Checkpoint)
    BY <1>1, <2>1
  <2> QED
    BY <1>4, <1>5, <2>2
<1>7. {Obligation(Checkpoint, Moved(x)) : x \in UsableSCI} = {Loaded(o) : o \in same}
  <2>1. \A x \in UsableSCI : x \in input.sci
    BY <1>2
  <2>2. \A x \in UsableSCI : Obligation(Checkpoint, Moved(x)) = Loaded(Obligation(input, x))
    BY <1>1, <2>1
  <2>3. {Obligation(Checkpoint, Moved(x)) : x \in UsableSCI}
          = {Loaded(Obligation(input, x)) : x \in UsableSCI}
    BY <2>2, Zenon
  <2>4. {Loaded(o) : o \in same} = {Loaded(Obligation(input, x)) : x \in UsableSCI}
    BY <1>6, Zenon
  <2> QED
    BY <2>3, <2>4
<1>8. CASE provider # "default"
  <2>1. \A o : Loaded(o) = o
    BY <1>8 DEF Loaded
  <2>2. {Loaded(o) : o \in same} = same
    BY <2>1
  <2> QED
    BY <1>7, <1>8, <2>2
<1>9. CASE provider = "default"
  <2>1. \A o : Loaded(o) = [o EXCEPT !.instance = 0]
    BY <1>9 DEF Loaded
  <2>2. {Loaded(o) : o \in same} = Promise!Merged(same)
    BY <2>1, Zenon DEF Promise!Merged
  <2> QED
    BY <1>7, <1>9, <2>2
<1> QED
  BY <1>8, <1>9

----------------------------------------------------------------------------
(* Consolidation keeps what it promises.                                   *)

LEMMA MeaningFields ==
  ASSUME NEW t
  PROVE  /\ Meaning(t).known = VersionsOf(t) /\ Meaning(t).covered = Covered(t)
         /\ Meaning(t).separated = (t.provider # "default")
BY DEF Meaning

LEMMA NothingKnown ==
  ASSUME NEW t, t.cu = <<>>, t.sci = {}
  PROVE  VersionsOf(t) = {} /\ Covered(t) = {}
BY DEF VersionsOf, Covered

LEMMA RunEnds ==
  ASSUME NextRun, \/ saved' = saved
                  \/ phase \in {"traces", "loaded"} /\ saved' = saved \cup {Checkpoint}
  PROVE  Promise!End
<1>1. /\ phase' = "traces" /\ inputs' = {} /\ provider' \in Providers
      /\ Checkpoint'.cu = <<>> /\ Checkpoint'.sci = {}
  BY CheckpointFields DEF NextRun
<1>2. VersionsOf(Checkpoint') = {} /\ Covered(Checkpoint') = {}
  <2>1. PICK w : w = Checkpoint'
    OBVIOUS
  <2> QED
    BY <1>1, <2>1, NothingKnown
<1>3. PICK M : M = {Meaning(cp) : cp \in saved}
  OBVIOUS
<1>4. \/ {Meaning(cp) : cp \in saved'} = M
      \/ /\ phase \in {"traces", "loaded"}
         /\ {Meaning(cp) : cp \in saved'} = M \cup {Meaning(Checkpoint)}
  BY <1>3
<1>5. Meaning(Checkpoint) = [known |-> VersionsOf(Checkpoint), covered |-> Covered(Checkpoint),
                             separated |-> provider # "default"]
  BY CheckpointFields DEF Meaning
<1>6. {Meaning(cp) : cp \in inputs'} = {}
  BY <1>1
<1> QED
  BY <1>1, <1>2, <1>3, <1>4, <1>5, <1>6 DEF Promise!End

LEMMA Learns ==
  ASSUME WellFormed(Checkpoint), NEW v \in Versions, LoadedIn(Checkpoint, Checkpoint', v),
         \A c \in 1..Len(cu) : UnitOf[cu[c].version] # UnitOf[v],
         UNCHANGED <<sci, provider, phase, input, inputs, saved>>,
         \/ inputs = {}
         \/ phase = "units" /\ v \in VersionsOf(input)
  PROVE  Promise!Learn(v)
<1>1. PICK t, w : t = Checkpoint /\ w = Checkpoint'
  OBVIOUS
<1>2. /\ t.cu = cu /\ t.sci = sci /\ w.sci = sci' /\ LoadedIn(t, w, v) /\ WellFormed(t)
  BY <1>1, CheckpointFields
<1>3. VersionsOf(w) = VersionsOf(t) \cup {v} /\ Covered(w) = Covered(t)
  BY <1>2, UnitLearnt
<1>4. DOMAIN cu = 1..Len(cu)
  BY <1>2, TableFacts DEF WellFormed
<1>5. \A x \in VersionsOf(t) : UnitOf[x] # UnitOf[v]
  BY <1>2, <1>4 DEF VersionsOf
<1>6. \/ {Meaning(cp) : cp \in inputs} = {}
      \/ \E cp \in (IF phase \in {"units", "coverage"} THEN {Meaning(input)} ELSE {}) : v \in cp.known
  <2>1. CASE inputs = {}
    BY <2>1
  <2>2. CASE phase = "units" /\ v \in VersionsOf(input)
    BY <2>2, MeaningFields
  <2> QED
    BY <2>1, <2>2
<1> QED
  BY <1>1, <1>3, <1>5, <1>6 DEF Promise!Learn

\* Units, coverage, and the checkpoints opened and saved are the same
LEMMA Stutters ==
  ASSUME UNCHANGED <<cu, sco, sci, provider, inputs, saved>>,
         \/ {phase, phase'} \subseteq {"units", "coverage"} /\ input' = input
         \/ {phase, phase'} \cap {"units", "coverage"} = {}
  PROVE  UNCHANGED Promise!vars
<1>1. PICK t, w : t = Checkpoint /\ w = Checkpoint'
  OBVIOUS
<1>2. w.cu = t.cu /\ w.sco = t.sco /\ w.sci = t.sci
  BY <1>1, CheckpointFields
<1>3. VersionsOf(w) = VersionsOf(t) /\ Covered(w) = Covered(t)
  BY <1>2, SameMeaning
<1>4. (IF phase' \in {"units", "coverage"} THEN {Meaning(input')} ELSE {})
        = (IF phase \in {"units", "coverage"} THEN {Meaning(input)} ELSE {})
  OBVIOUS
<1> QED
  BY <1>1, <1>3, <1>4 DEF Promise!vars

LEMMA Covers ==
  ASSUME WellFormed(Checkpoint), WellFormed(Checkpoint'), inputs = {}, sci \subseteq sci',
         UNCHANGED <<cu, sco, provider, phase, input, inputs, saved>>
  PROVE  Promise!Cover
<1>1. PICK t, w : t = Checkpoint /\ w = Checkpoint'
  OBVIOUS
<1>2. /\ w.cu = t.cu /\ w.sco = t.sco /\ t.sci \subseteq w.sci /\ WellFormed(w)
  BY <1>1, CheckpointFields
<1>3. \A x : Obligation(w, x) = Obligation(t, x)
  BY <1>2, Zenon DEF Obligation
<1>4. VersionsOf(w) = VersionsOf(t)
  BY <1>2, Zenon DEF VersionsOf
<1>5. Covered(t) \subseteq Covered(w)
  BY <1>2, <1>3 DEF Covered
<1>6. \A o \in Covered(w) : o \in Obligations /\ o.version \in VersionsOf(t)
  BY <1>2, <1>4, CoveredTyped DEF Covered
<1>7. {Meaning(cp) : cp \in inputs} = {}
  OBVIOUS
<1> QED
  BY <1>1, <1>4, <1>5, <1>6, <1>7 DEF Promise!Cover

LEMMA Opens ==
  ASSUME NEW cp \in saved, StartLoad(cp)
  PROVE  Promise!Open(Meaning(cp)) /\ Meaning(cp) \in {Meaning(x) : x \in saved}
<1>1. /\ phase \in {"traces", "loaded"} /\ phase' = "units" /\ input' = cp
      /\ inputs' = inputs \cup {cp}
      /\ UNCHANGED <<cu, sco, sci, provider, saved>>
  BY DEF StartLoad, tables
<1>2. PICK t, w : t = Checkpoint /\ w = Checkpoint'
  OBVIOUS
<1>3. w.cu = t.cu /\ w.sco = t.sco /\ w.sci = t.sci
  BY <1>1, <1>2, CheckpointFields
<1>4. VersionsOf(w) = VersionsOf(t) /\ Covered(w) = Covered(t)
  BY <1>3, SameMeaning
<1>5. {Meaning(x) : x \in inputs'} = {Meaning(x) : x \in inputs} \cup {Meaning(cp)}
  BY <1>1
<1> QED
  BY <1>1, <1>2, <1>4, <1>5 DEF Promise!Open

LEMMA Consolidates ==
  ASSUME WellFormed(Checkpoint), WellFormed(input), RelocsRight, Len(relocs.cu) = Len(input.cu),
         LoadCoverage, ~Raise
  PROVE  Promise!Consolidate(Meaning(input))
<1>1. /\ phase' = "files" /\ UNCHANGED <<tables, provider, input, inputs, saved>>
      /\ DoMerge => \A x \in input.sci : relocs.sco[x.sco] \in DOMAIN sco
      /\ UsableSCI = {c \in input.sci : input.sco[c.sco].degraded
                                          => [c EXCEPT !.value = ~@] \in input.sci}
      /\ sci' = sci \cup (IF ~DoMerge THEN {} ELSE {Moved(x) : x \in UsableSCI})
  BY CoverageLoaded
<1>2. PICK t, w : t = Checkpoint /\ w = Checkpoint'
  OBVIOUS
<1>3. /\ w.cu = t.cu /\ w.sco = t.sco /\ t.cu = cu /\ w.sci = sci' /\ t.sci = sci
  BY <1>1, <1>2, CheckpointFields DEF tables
<1>4. \A x : Obligation(w, x) = Obligation(t, x)
  BY <1>3, Zenon DEF Obligation
<1>5. VersionsOf(w) = VersionsOf(t)
  BY <1>3, Zenon DEF VersionsOf
<1>6. PICK same : same = {o \in Promise!Usable(Covered(input)) : o.version \in VersionsOf(Checkpoint)}
  OBVIOUS
<1>7. PICK added : added = (IF provider # "default" THEN IF input.provider # "default" THEN same ELSE {}
                            ELSE Promise!Merged(same))
  OBVIOUS
<1>8. provider \in {"default", "instance"} /\ input.provider \in {"default", "instance"}
  <2>1. provider \in Providers /\ input.provider \in Providers
    BY CheckpointFields DEF WellFormed, TablesTyped
  <2> QED
    BY <2>1, ProvidersAssumption DEF ProvidersAssumption
<1>9. Covered(w) = Covered(t) \cup added
  <2>1. CASE ~DoMerge
    <3>1. provider # "default" /\ ~(input.provider # "default")
      BY <1>8, <2>1 DEF DoMerge
    <3>2. added = {}
      BY <1>7, <3>1
    <3>3. w.sci = t.sci
      BY <1>1, <1>3, <2>1
    <3> QED
      BY <1>4, <3>2, <3>3 DEF Covered
  <2>2. CASE DoMerge
    <3>1. {Obligation(Checkpoint, Moved(x)) : x \in UsableSCI}
            = IF provider # "default" THEN same ELSE Promise!Merged(same)
      BY <1>1, <1>6, <2>2, MergedRight
    <3>2. provider # "default" => input.provider # "default"
      BY <1>8, <2>2 DEF DoMerge
    <3>3. added = {Obligation(t, Moved(x)) : x \in UsableSCI}
      BY <1>2, <1>7, <3>1, <3>2
    <3>4. w.sci = t.sci \cup {Moved(x) : x \in UsableSCI}
      BY <1>1, <1>3, <2>2
    <3> QED
      BY <1>4, <3>3, <3>4 DEF Covered
  <2> QED
    BY <2>1, <2>2
<1>10. \A v \in VersionsOf(input) : \E x \in VersionsOf(t) : UnitOf[x] = UnitOf[v]
  <2> SUFFICES ASSUME NEW v \in VersionsOf(input)
               PROVE  \E x \in VersionsOf(t) : UnitOf[x] = UnitOf[v]
    OBVIOUS
  <2>1. DOMAIN input.cu = 1..Len(input.cu) /\ DOMAIN cu = 1..Len(cu)
    BY TableFacts, CheckpointFields DEF WellFormed
  <2>2. PICK j \in 1..Len(input.cu) : v = input.cu[j].version
    BY <2>1 DEF VersionsOf
  <2>3. relocs.cu[j] \in 1..Len(cu) /\ UnitOf[cu[relocs.cu[j]].version] = UnitOf[v]
    BY <2>2 DEF RelocsRight
  <2> QED
    BY <1>3, <2>1, <2>3 DEF VersionsOf
<1>11. PICK m : m = Meaning(input)
  OBVIOUS
<1>12. m.known = VersionsOf(input) /\ m.covered = Covered(input) /\ m.separated = (input.provider # "default")
  BY <1>11, MeaningFields
<1>13. phase' \notin {"units", "coverage"}
  BY <1>1
<1>14. added = (IF ~(provider # "default") THEN Promise!Merged(same)
                ELSE IF m.separated THEN same ELSE {})
  BY <1>7, <1>12
<1>15. same = {c \in Promise!Usable(m.covered) : c.version \in VersionsOf(Checkpoint)}
  BY <1>6, <1>12
<1>16. Promise!Consolidate(m)
  BY <1>1, <1>2, <1>5, <1>9, <1>10, <1>12, <1>13, <1>14, <1>15 DEF Promise!Consolidate
<1> QED
  BY <1>11, <1>16

LEMMA StepImplemented ==
  ASSUME NothingRemoved, IInv, [Next]_vars
  PROVE  [Promise!Next]_Promise!vars
<1>1. /\ WellFormed(Checkpoint) /\ LoadInProgress /\ \A cp \in saved : WellFormed(cp)
      /\ inputs \subseteq saved /\ WellFormed(Checkpoint')
  BY InvNext DEF IInv, LoadInProgress
<1>2. phase \in {"units", "coverage"} => WellFormed(input) /\ RelocsRight
  BY <1>1 DEF LoadInProgress
<1>3. ASSUME Raise PROVE Promise!Next
  <2>1. Promise!End
    BY <1>3, RunEnds DEF Raise
  <2> QED
    BY <2>1 DEF Promise!Next
<1>4. ASSUME NEW v \in Versions, LoadSCOs(v) PROVE Promise!Next
  <2>1. LoadedIn(Checkpoint, Checkpoint', v)
    BY <1>1, <1>4, SCOsLoaded
  <2>2. \A c \in 1..Len(cu) : UnitOf[cu[c].version] # UnitOf[v]
    BY <1>4 DEF LoadSCOs, CompUnit
  <2>3. phase = "traces" /\ UNCHANGED <<sci, provider, phase, input, inputs, saved>>
    BY <1>4 DEF LoadSCOs, load
  <2>4. inputs = {}
    BY <1>1, <2>3 DEF LoadInProgress
  <2>5. Promise!Learn(v)
    BY <1>1, <2>1, <2>2, <2>3, <2>4, Learns
  <2> QED
    BY <2>5 DEF Promise!Next
<1>5. ASSUME NEW s \in DOMAIN sco, NEW tag \in 0..Len(inst),
             NEW values \in SUBSET BOOLEAN \ {{}}, ProcessTrace(s, tag, values)
      PROVE  Promise!Next
  <2>1. /\ phase = "traces" /\ sci \subseteq sci'
        /\ UNCHANGED <<cu, sco, provider, phase, input, inputs, saved>>
    BY <1>5 DEF ProcessTrace, tables, load
  <2>2. inputs = {}
    BY <1>1, <2>1 DEF LoadInProgress
  <2>3. Promise!Cover
    BY <1>1, <2>1, <2>2, Covers
  <2> QED
    BY <2>3 DEF Promise!Next
<1>6. ASSUME NEW cp \in saved, StartLoad(cp) PROVE Promise!Next
  <2>1. Promise!Open(Meaning(cp)) /\ Meaning(cp) \in {Meaning(x) : x \in saved}
    BY <1>6, Opens
  <2> QED
    BY <2>1 DEF Promise!Next
<1>7. CASE LoadNewUnit
  <2>1. /\ phase = "units" /\ UNCHANGED <<sci, provider, phase, input, inputs, saved>>
        /\ Len(relocs.cu) < Len(input.cu)
    BY <1>7 DEF LoadNewUnit, LoadingUnit
  <2>2. WellFormed(input) /\ RelocsRight
    BY <1>2, <2>1
  <2>3. Len(relocs.cu) \in Nat /\ Len(input.cu) \in Nat /\ DOMAIN input.cu = 1..Len(input.cu)
    BY <2>2, TableFacts DEF RelocsRight, WellFormed
  <2>4. PICK v : v = CPUnit.version
    OBVIOUS
  <2>5. /\ LoadedIn(Checkpoint, Checkpoint', v) /\ v \in Versions
        /\ \A c \in 1..Len(cu) : UnitOf[cu[c].version] # UnitOf[v]
    BY <1>1, <1>7, <2>2, <2>3, <2>4, NewUnitWellFormed
  <2>6. v \in VersionsOf(input)
    <3>1. Len(relocs.cu) + 1 \in 1..Len(input.cu)
      BY <2>1, <2>3
    <3> QED
      BY <2>3, <2>4, <3>1 DEF VersionsOf, CPUnit
  <2>7. Promise!Learn(v)
    BY <1>1, <2>1, <2>5, <2>6, Learns
  <2> QED
    BY <2>5, <2>7 DEF Promise!Next
<1>8. CASE MergeUnit \/ SkipUnit
  <2>1. /\ phase = "units" /\ UNCHANGED <<cu, sco, sci, provider, phase, input, inputs, saved>>
    BY <1>8 DEF MergeUnit, SkipUnit, LoadingUnit
  <2>2. UNCHANGED Promise!vars
    BY <2>1, Stutters
  <2> QED
    BY <2>2
<1>9. CASE LoadAnnotations
  <2>1. CASE ~Raise
    <3>1. /\ phase = "units" /\ phase' = "coverage"
          /\ UNCHANGED <<cu, sco, sci, provider, input, inputs, saved>>
      BY <1>9, <2>1 DEF LoadAnnotations
    <3>2. UNCHANGED Promise!vars
      BY <3>1, Stutters
    <3> QED
      BY <3>2
  <2> QED
    BY <1>3, <2>1
<1>10. CASE LoadCoverage
  <2>1. CASE ~Raise
    <3>1. phase = "coverage" /\ Len(relocs.cu) = Len(input.cu)
      BY <1>1, <1>10 DEF LoadCoverage, LoadInProgress
    <3>2. Promise!Consolidate(Meaning(input))
      BY <1>1, <1>2, <1>10, <2>1, <3>1, Consolidates
    <3>3. Meaning(input) \in (IF phase \in {"units", "coverage"} THEN {Meaning(input)} ELSE {})
      BY <3>1
    <3> QED
      BY <3>2, <3>3 DEF Promise!Next
  <2> QED
    BY <1>3, <2>1
<1>11. CASE LoadTraceFiles
  <2>1. CASE ~Raise
    <3>1. /\ phase = "files" /\ phase' = "loaded"
          /\ UNCHANGED <<cu, sco, sci, provider, inputs, saved>>
      BY <1>11, <2>1 DEF LoadTraceFiles, tables
    <3>2. UNCHANGED Promise!vars
      BY <3>1, Stutters
    <3> QED
      BY <3>2
  <2> QED
    BY <1>3, <2>1
<1>12. CASE End
  <2>1. Promise!End
    BY <1>12, RunEnds DEF End
  <2> QED
    BY <2>1 DEF Promise!Next
<1>13. CASE UNCHANGED vars
  <2>1. UNCHANGED <<cu, sco, sci, provider, phase, input, inputs, saved>>
    BY <1>13 DEF vars, tables, load
  <2>2. UNCHANGED Promise!vars
    BY <2>1, Stutters
  <2> QED
    BY <2>2
<1> QED
  BY <1>4, <1>5, <1>6, <1>7, <1>8, <1>9, <1>10, <1>11, <1>12, <1>13 DEF Next

LEMMA InitImplemented ==
  ASSUME Init
  PROVE  Promise!Init
<1>1. /\ Checkpoint.cu = <<>> /\ Checkpoint.sci = {}
      /\ phase = "traces" /\ inputs = {} /\ saved = {}
  BY CheckpointFields DEF Init
<1>2. VersionsOf(Checkpoint) = {} /\ Covered(Checkpoint) = {}
  <2>1. PICK t : t = Checkpoint
    OBVIOUS
  <2> QED
    BY <1>1, <2>1, NothingKnown
<1>3. {Meaning(cp) : cp \in inputs} = {} /\ {Meaning(cp) : cp \in saved} = {}
  BY <1>1
<1> QED
  BY <1>1, <1>2, <1>3 DEF Promise!Init, Promise!Start

\* Consolidation adds to each obligation what checkpoints say of it and to no
\* other one, whatever the order in which units and checkpoints were loaded and
\* however each run numbered them (RefinesMergedCoverage).
THEOREM ConsolidationExact ==
  ASSUME NothingRemoved
  PROVE  Spec => RefinesMergedCoverage
<1>1. IInv /\ [Next]_vars => [Promise!Next]_Promise!vars
  BY NothingRemoved, StepImplemented
<1> QED
  BY <1>1, InitImplemented, NothingRemoved, Invariance, PTL
     DEF Spec, RefinesMergedCoverage, Promise!Spec
=============================================================================
