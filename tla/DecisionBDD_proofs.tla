------------------------- MODULE DecisionBDD_proofs -------------------------
(***************************************************************************)
(* Proofs, for decisions of any size, that the construction of a BDD keeps *)
(* its jumps resolvable, leaves only forward edges, gives it the shape of  *)
(* the expression, and counts paths so that the indexes of the paths of a  *)
(* condition are partitioned between its two successors; and that Visit    *)
(* leaves in the state a trace of its walk.                                *)
(***************************************************************************)
EXTENDS DecisionPaths, SequenceTheorems, FiniteSetTheorems, TLAPS

----------------------------------------------------------------------------
(* Sequences as stacks: what a pop and the pushes that follow it leave.    *)

LEMMA PopPush1 ==
  ASSUME NEW S, NEW s \in Seq(S), s # <<>>, NEW x \in S
  PROVE  LET r == <<x>> \o Tail(s)
         IN  /\ r \in Seq(S) /\ Len(r) = Len(s) /\ r # <<>>
             /\ r[1] = x
             /\ \A i \in 2..Len(s) : r[i] = s[i]
  OBVIOUS

LEMMA PopPush2 ==
  ASSUME NEW S, NEW s \in Seq(S), s # <<>>, NEW x \in S, NEW y \in S
  PROVE  LET r == <<x, y>> \o Tail(s)
         IN  /\ r \in Seq(S) /\ Len(r) = Len(s) + 1 /\ r # <<>>
             /\ r[1] = x /\ r[2] = y
             /\ \A i \in 3..(Len(s) + 1) : r[i] = s[i - 1]
  OBVIOUS

LEMMA Pop ==
  ASSUME NEW S, NEW s \in Seq(S), s # <<>>
  PROVE  /\ Tail(s) \in Seq(S) /\ Len(Tail(s)) = Len(s) - 1
         /\ \A i \in 1..(Len(s) - 1) : Tail(s)[i] = s[i + 1]
         /\ Head(s) = s[1] /\ Head(s) \in S /\ Len(s) \in Nat \ {0}
         /\ (Tail(s) = <<>>) <=> (Len(s) = 1)
<1>1. Len(s) \in Nat \ {0}
  OBVIOUS
<1>2. Head(s) = s[1] /\ Head(s) \in S
  BY <1>1
<1>3. Tail(s) \in Seq(S) /\ Len(Tail(s)) = Len(s) - 1
  BY <1>1
<1>4. \A i \in 1..(Len(s) - 1) : Tail(s)[i] = s[i + 1]
  BY <1>1
<1>5. (Tail(s) = <<>>) <=> (Len(s) = 1)
  <2>1. Tail(s) = <<>> <=> Len(Tail(s)) = 0
    BY <1>3, EmptySeq
  <2> QED
    BY <2>1, <1>1, <1>3
<1> QED
  BY <1>1, <1>2, <1>3, <1>4, <1>5

LEMMA AppendFacts ==
  ASSUME NEW S, NEW s \in Seq(S), NEW x \in S
  PROVE  /\ Append(s, x) \in Seq(S) /\ Len(Append(s, x)) = Len(s) + 1
         /\ Append(s, x)[Len(s) + 1] = x
         /\ \A i \in 1..Len(s) : Append(s, x)[i] = s[i]
         /\ Len(s) \in Nat
  OBVIOUS

LEMMA UpdateFacts ==
  ASSUME NEW S, NEW s \in Seq(S), NEW k \in 1..Len(s), NEW x \in S,
         NEW r, r = [s EXCEPT ![k] = x]
  PROVE  /\ r \in Seq(S) /\ Len(r) = Len(s) /\ r[k] = x
         /\ \A m \in 1..Len(s) : m # k => r[m] = s[m]
  OBVIOUS

----------------------------------------------------------------------------
(* SCOs: attaching an expression keeps the table well formed.              *)

LEMMA SCOKinds ==
  ASSUME NEW d \in SCODescriptor
  PROVE  /\ d.kind = "Decision" <=> d \in DecisionType
         /\ d.kind = "Operator" <=> d \in OperatorType
         /\ d.kind = "Condition" <=> d \in ConditionType
  BY DEF SCODescriptor, DecisionType, OperatorType, ConditionType

LEMMA ReparentType ==
  ASSUME NEW d \in SCODescriptor, NEW p \in Nat
  PROVE  /\ [d EXCEPT !.parent = p] \in SCODescriptor
         /\ [d EXCEPT !.parent = p].kind = d.kind
<1>1. CASE d \in DecisionType
  BY <1>1 DEF SCODescriptor, DecisionType
<1>2. CASE d \in OperatorType
  BY <1>2 DEF SCODescriptor, OperatorType
<1>3. CASE d \in ConditionType
  BY <1>3 DEF SCODescriptor, ConditionType
<1> QED
  BY <1>1, <1>2, <1>3 DEF SCODescriptor

LEMMA AttachType ==
  ASSUME NEW t \in Seq(SCODescriptor), NEW parent \in 1..Len(t),
         NEW expr \in 1..Len(t), NEW pos \in {"Left", "Right"},
         t[parent].kind # "Condition"
  PROVE  LET r == Attach(t, parent, pos, expr)
         IN  /\ r \in Seq(SCODescriptor) /\ Len(r) = Len(t)
             /\ \A s \in 1..Len(t) : r[s].kind = t[s].kind
<1> DEFINE t1 == [t EXCEPT ![expr].parent = parent]
<1>1. Len(t) \in Nat /\ \A s \in 1..Len(t) : t[s] \in SCODescriptor
  OBVIOUS
<1>2. [t[expr] EXCEPT !.parent = parent] \in SCODescriptor
  BY <1>1, ReparentType
<1>3. /\ t1 \in Seq(SCODescriptor) /\ Len(t1) = Len(t)
      /\ \A s \in 1..Len(t) : t1[s] \in SCODescriptor
  BY <1>1, <1>2
<1>4. \A s \in 1..Len(t) : t1[s].kind = t[s].kind
  BY <1>1, ReparentType
<1>5. t1[parent] \in SCODescriptor /\ t1[parent].kind # "Condition"
  BY <1>3, <1>4
<1> HIDE DEF t1
<1>6. CASE t[parent].kind = "Operator"
  <2> DEFINE x == [t1[parent] EXCEPT !.operands[pos] = expr]
  <2>1. t1[parent].kind = "Operator"
    BY <1>4, <1>6
  <2>2. x \in SCODescriptor /\ x.kind = t1[parent].kind
    BY <1>5, <2>1, SCOKinds DEF SCODescriptor, OperatorType
  <2>3. Attach(t, parent, pos, expr) = [t1 EXCEPT ![parent] = x]
    BY <1>6 DEF Attach, t1
  <2> HIDE DEF x
  <2> QED
    BY <1>1, <1>3, <1>4, <2>2, <2>3
<1>7. CASE t[parent].kind # "Operator"
  <2> DEFINE x == [t1[parent] EXCEPT !.expr = expr]
  <2>1. t1[parent].kind # "Operator"
    BY <1>4, <1>7
  <2>2. x \in SCODescriptor /\ x.kind = t1[parent].kind
    <3>1. t1[parent] \in DecisionType
      BY <1>5, <2>1 DEF SCODescriptor, OperatorType, ConditionType
    <3> QED
      BY <3>1 DEF SCODescriptor, DecisionType
  <2>3. Attach(t, parent, pos, expr) = [t1 EXCEPT ![parent] = x]
    BY <1>7 DEF Attach, t1
  <2> HIDE DEF x
  <2> QED
    BY <1>1, <1>3, <1>4, <2>2, <2>3
<1> QED
  BY <1>6, <1>7

\* An entry's SCO, attached to the parent that the popped arc designates
LEMMA EntrySCO ==
  ASSUME TypeOK, arcs # <<>>, NEW d \in SCODescriptor, NEW r, r = WithSCO(d)
  PROVE  /\ r \in Seq(SCODescriptor) /\ Len(r) = Len(sco) + 1
         /\ \A s \in 1..Len(sco) : r[s].kind = sco[s].kind
         /\ r[Len(sco) + 1].kind = d.kind
<1> DEFINE t == Append(sco, d)
<1>1. /\ t \in Seq(SCODescriptor) /\ Len(t) = Len(sco) + 1 /\ Len(sco) \in Nat
      /\ t[Len(sco) + 1] = d
      /\ \A s \in 1..Len(sco) : t[s] = sco[s]
  BY AppendFacts DEF TypeOK
<1>2. /\ Head(arcs) = arcs[1] /\ 1 \in 1..Len(arcs) /\ Head(arcs) \in ArcType
  BY Pop DEF TypeOK
<1>3. /\ Head(arcs).parent \in 1..Len(sco) /\ Head(arcs).pos \in {"Left", "Right"}
      /\ sco[Head(arcs).parent].kind # "Condition"
  BY <1>2 DEF TypeOK, IdsAllocated, ArcType
<1> HIDE DEF t
<1>4. /\ Head(arcs).parent \in 1..Len(t) /\ Len(sco) + 1 \in 1..Len(t)
      /\ t[Head(arcs).parent].kind # "Condition"
  BY <1>1, <1>3
<1> DEFINE e == Attach(t, Head(arcs).parent, Head(arcs).pos, Len(sco) + 1)
<1>5. /\ e \in Seq(SCODescriptor) /\ Len(e) = Len(t)
      /\ \A s \in 1..Len(t) : e[s].kind = t[s].kind
  BY <1>1, <1>3, <1>4, AttachType
<1>6. r = e
  BY DEF WithSCO, t
<1> HIDE DEF e
<1> QED
  BY <1>1, <1>5, <1>6

LEMMA DestsFacts ==
  ASSUME NEW f \in Nat, NEW t \in Nat
  PROVE  /\ Dests(f, t) \in [BOOLEAN -> Nat]
         /\ Dests(f, t)[FALSE] = f /\ Dests(f, t)[TRUE] = t
  BY DEF Dests

LEMMA ArcFacts ==
  ASSUME NEW d \in [BOOLEAN -> Nat], NEW origin \in Nat, NEW parent \in Nat,
         NEW pos \in {"Left", "Right"}
  PROVE  LET x == Arc(d, origin, parent, pos)
         IN  /\ x \in ArcType /\ x.dests = d
             /\ x.origin = origin /\ x.parent = parent
  BY DEF Arc, ArcType

----------------------------------------------------------------------------
(* The invariant holds initially.                                          *)

LEMMA InitIInv == Init => IInv
<1> SUFFICES ASSUME Init PROVE IInv
  OBVIOUS
<1> DEFINE a == Arc(Dests(ExitFalse, ExitTrue), 0, 1, "Right")
<1>1. /\ sco \in Seq(SCODescriptor) /\ Len(sco) = 1 /\ sco[1].kind = "Decision"
  BY DEF Init, SCODescriptor, DecisionType
<1>2. /\ vec \in Seq(BDDNode) /\ Len(vec) = 2 /\ Ids = {1, 2}
      /\ vec[1].kind = "Outcome" /\ vec[2].kind = "Outcome"
  BY DEF Init, BDDNode, OutcomeNodeType, OutcomeNode, Ids
<1>3. /\ a \in ArcType /\ a.origin = 0 /\ a.parent = 1
      /\ \A b \in BOOLEAN : a.dests[b] \in {1, 2}
  BY DEF ArcType, Arc, Dests, ExitFalse, ExitTrue
<1>4. /\ arcs \in Seq(ArcType) /\ Len(arcs) = 1 /\ arcs # <<>>
      /\ \A i \in 1..Len(arcs) : i = 1 /\ arcs[i] = a
  BY <1>3 DEF Init
<1>5. bdd \in BDDType /\ bdd.root = 0
  BY DEF Init, BDDType
<1>6. phase = "scan" /\ frames = <<>> /\ frames \in Seq(CallType)
      /\ 1..Len(frames) = {}
  BY DEF Init
<1> HIDE DEF a
<1>7. IdsAllocated
  BY <1>1, <1>2, <1>3, <1>4, <1>5, <1>6 DEF IdsAllocated
<1>8. TypeOK
  BY <1>1, <1>2, <1>4, <1>5, <1>6, <1>7 DEF TypeOK
<1>9. JumpsResolved
  BY <1>2, <1>3, <1>4, <1>5 DEF JumpsResolved, NodesOf
<1>10. ExitsFirst /\ ArcsLeadDeeper /\ ConditionsLeadForward
  BY <1>2, <1>3, <1>4
  DEF ExitsFirst, ArcsLeadDeeper, ConditionsLeadForward, NodesOf,
      Exits, ExitFalse, ExitTrue
<1>11. ScanEnds /\ ForwardEdges /\ FramesNested /\ CountedNodesAdditive
  BY <1>4, <1>5, <1>6
  DEF ScanEnds, ForwardEdges, FramesNested, CountedNodesAdditive
<1> QED
  BY <1>8, <1>9, <1>10, <1>11 DEF IInv

----------------------------------------------------------------------------
(* Scanning an operator or a condition preserves the invariant.            *)

LEMMA ProcessNotInv == IInv /\ ProcessNot => IInv'
<1> SUFFICES ASSUME IInv, ProcessNot PROVE IInv'
  OBVIOUS
<1> DEFINE a == Head(arcs)
           x == Arc(Dests(a.dests[TRUE], a.dests[FALSE]), a.origin,
                    Len(sco) + 1, "Right")
<1>1. /\ phase = "scan" /\ arcs # <<>> /\ frames = <<>> /\ TypeOK
      /\ UNCHANGED <<vec, bdd, phase, frames, count>>
  BY DEF IInv, ProcessNot, ScanEnds
<1>2. /\ a = arcs[1] /\ 1 \in 1..Len(arcs) /\ a \in ArcType /\ Len(arcs) \in Nat
  BY <1>1, Pop DEF TypeOK
<1>3. /\ sco' \in Seq(SCODescriptor) /\ Len(sco') = Len(sco) + 1
      /\ \A s \in 1..Len(sco) : sco'[s].kind = sco[s].kind
      /\ sco'[Len(sco) + 1].kind = "Operator" /\ Len(sco) \in Nat
  <2>1. /\ OperatorSCO("Not") \in SCODescriptor
        /\ OperatorSCO("Not").kind = "Operator"
    BY DEF OperatorSCO, SCODescriptor, OperatorType
  <2>2. sco \in Seq(SCODescriptor)
    BY <1>1 DEF TypeOK
  <2> QED
    BY <1>1, <2>1, <2>2, EntrySCO DEF ProcessNot
<1>4. /\ x \in ArcType /\ x.origin = a.origin /\ x.parent = Len(sco) + 1
      /\ x.dests[TRUE] = a.dests[FALSE] /\ x.dests[FALSE] = a.dests[TRUE]
  <2>1. a.dests[TRUE] \in Nat /\ a.dests[FALSE] \in Nat /\ a.origin \in Nat
    BY <1>2 DEF ArcType
  <2>2. Len(sco) + 1 \in Nat /\ "Right" \in {"Left", "Right"}
    BY <1>3
  <2> DEFINE d == Dests(a.dests[TRUE], a.dests[FALSE])
  <2>3. /\ d \in [BOOLEAN -> Nat]
        /\ d[TRUE] = a.dests[FALSE] /\ d[FALSE] = a.dests[TRUE]
    BY <2>1, DestsFacts
  <2> HIDE DEF d
  <2>4. x = Arc(d, a.origin, Len(sco) + 1, "Right")
    BY DEF d
  <2> HIDE DEF x
  <2>5. /\ x \in ArcType /\ x.dests = d
        /\ x.origin = a.origin /\ x.parent = Len(sco) + 1
    BY <2>1, <2>2, <2>3, <2>4, ArcFacts
  <2> QED
    BY <2>3, <2>5
<1>5. /\ arcs' \in Seq(ArcType) /\ Len(arcs') = Len(arcs) /\ arcs' # <<>>
      /\ arcs'[1] = x
      /\ \A i \in 2..Len(arcs) : arcs'[i] = arcs[i]
  <2>1. arcs' = <<x>> \o Tail(arcs)
    BY DEF ProcessNot
  <2> HIDE DEF x
  <2> QED
    BY <2>1, <1>1, <1>4, PopPush1 DEF TypeOK
<1> HIDE DEF x, a
<1>6. /\ \A i \in 1..Len(arcs) : arcs'[i].origin = arcs[i].origin
      /\ \A i \in 1..Len(arcs), b \in BOOLEAN :
           \E c \in BOOLEAN : arcs'[i].dests[b] = arcs[i].dests[c]
  <2>1. SUFFICES ASSUME NEW i \in 1..Len(arcs)
                 PROVE  /\ arcs'[i].origin = arcs[i].origin
                        /\ \A b \in BOOLEAN : \E c \in BOOLEAN :
                             arcs'[i].dests[b] = arcs[i].dests[c]
    OBVIOUS
  <2>2. CASE i = 1
    BY <2>2, <1>2, <1>4, <1>5
  <2>3. CASE i \in 2..Len(arcs)
    BY <2>3, <1>5
  <2> QED
    BY <2>2, <2>3, <1>2
<1>7. IdsAllocated'
  <2>1. \A i \in 1..Len(arcs') :
          /\ arcs'[i].parent \in 1..Len(sco')
          /\ sco'[arcs'[i].parent].kind # "Condition"
    <3> SUFFICES ASSUME NEW i \in 1..Len(arcs)
                 PROVE  /\ arcs'[i].parent \in 1..Len(sco')
                        /\ sco'[arcs'[i].parent].kind # "Condition"
      BY <1>5
    <3>2. CASE i = 1
      BY <3>2, <1>3, <1>4, <1>5
    <3>3. CASE i \in 2..Len(arcs)
      <4>1. arcs[i].parent \in 1..Len(sco) /\ sco[arcs[i].parent].kind # "Condition"
        BY <1>1 DEF TypeOK, IdsAllocated
      <4> QED
        BY <4>1, <3>3, <1>3, <1>5
    <3> QED
      BY <3>2, <3>3, <1>2
  <2>2. \A i \in 1..Len(arcs) :
          /\ arcs'[i].origin \in Ids \cup {0}
          /\ \A b \in BOOLEAN : arcs'[i].dests[b] \in Ids
    BY <1>1, <1>6 DEF TypeOK, IdsAllocated
  <2> QED
    BY <2>1, <2>2, <1>1, <1>5 DEF TypeOK, IdsAllocated, Ids
<1>8. TypeOK'
  BY <1>1, <1>3, <1>5, <1>7 DEF TypeOK, Ids
<1>9. JumpsResolved'
  BY <1>1, <1>2, <1>5, <1>6 DEF IInv, JumpsResolved, NodesOf
<1>10. ArcsLeadDeeper'
  <2> SUFFICES ASSUME NEW i \in 1..Len(arcs), NEW b \in BOOLEAN
               PROVE  \/ arcs'[i].dests[b] \in Exits
                      \/ \E j \in (i + 1)..Len(arcs) :
                           arcs'[j].origin = arcs'[i].dests[b]
    BY <1>5 DEF ArcsLeadDeeper
  <2>1. PICK c \in BOOLEAN : arcs'[i].dests[b] = arcs[i].dests[c]
    BY <1>6
  <2>2. CASE arcs[i].dests[c] \in Exits
    BY <2>1, <2>2
  <2>3. CASE \E j \in (i + 1)..Len(arcs) : arcs[j].origin = arcs[i].dests[c]
    <3>1. PICK j \in (i + 1)..Len(arcs) : arcs[j].origin = arcs[i].dests[c]
      BY <2>3
    <3>2. j \in 1..Len(arcs)
      BY <1>2
    <3> QED
      BY <2>1, <3>1, <3>2, <1>6
  <2> QED
    BY <2>2, <2>3 DEF IInv, ArcsLeadDeeper
<1>11. ExitsFirst' /\ ConditionsLeadForward' /\ ScanEnds'
  BY <1>1, <1>5
  DEF IInv, ExitsFirst, ConditionsLeadForward, NodesOf, Ids, ScanEnds
<1>12. ForwardEdges' /\ FramesNested' /\ CountedNodesAdditive'
  BY <1>1 DEF ForwardEdges, FramesNested, CountedNodesAdditive
<1> QED
  BY <1>8, <1>9, <1>10, <1>11, <1>12 DEF IInv
LEMMA ProcessBinaryInv ==
  ASSUME IInv, NEW op \in {"AndThen", "OrElse"}, ProcessBinary(op)
  PROVE  IInv'
<1> DEFINE a == Head(arcs)
           l == Len(vec) + 1
           o == Len(sco) + 1
           x == Arc(LeftDests(op, a, l), a.origin, o, "Left")
           y == Arc(a.dests, l, o, "Right")
<1>1. /\ phase = "scan" /\ arcs # <<>> /\ frames = <<>> /\ TypeOK
      /\ UNCHANGED <<bdd, phase, frames, count>>
      /\ arcs \in Seq(ArcType) /\ vec \in Seq(BDDNode) /\ sco \in Seq(SCODescriptor)
  BY DEF IInv, ProcessBinary, ScanEnds, TypeOK
<1>2. /\ a = arcs[1] /\ 1 \in 1..Len(arcs) /\ a \in ArcType /\ Len(arcs) \in Nat
  BY <1>1, Pop
<1>3. /\ sco' \in Seq(SCODescriptor) /\ Len(sco') = o
      /\ \A s \in 1..Len(sco) : sco'[s].kind = sco[s].kind
      /\ sco'[o].kind = "Operator" /\ Len(sco) \in Nat
  <2>1. /\ OperatorSCO(op) \in SCODescriptor
        /\ OperatorSCO(op).kind = "Operator"
    BY DEF OperatorSCO, SCODescriptor, OperatorType
  <2>2. sco' = WithSCO(OperatorSCO(op))
    BY DEF ProcessBinary
  <2>3. Len(sco) \in Nat
    BY <1>1
  <2> QED
    BY <1>1, <2>1, <2>2, <2>3, EntrySCO
<1>4. /\ vec' \in Seq(BDDNode) /\ Len(vec') = l /\ Len(vec) \in Nat
      /\ vec'[l] = JumpNode
      /\ \A n \in 1..Len(vec) : vec'[n] = vec[n]
  <2>1. JumpNode \in BDDNode
    BY DEF JumpNode, BDDNode, JumpNodeType
  <2>2. vec' = Append(vec, JumpNode)
    BY DEF ProcessBinary
  <2> QED
    BY <1>1, <2>1, <2>2, AppendFacts
<1>5. /\ a.dests \in [BOOLEAN -> Nat] /\ a.origin \in Nat
      /\ l \in Nat /\ o \in Nat
      /\ "Left" \in {"Left", "Right"} /\ "Right" \in {"Left", "Right"}
  BY <1>2, <1>3, <1>4 DEF ArcType
<1>6. /\ LeftDests(op, a, l) \in [BOOLEAN -> Nat]
      /\ \A b \in BOOLEAN : LeftDests(op, a, l)[b] \in {a.dests[b], l}
  BY <1>5 DEF LeftDests, Dests
<1>7. /\ x \in ArcType /\ x.origin = a.origin /\ x.parent = o
      /\ \A b \in BOOLEAN : x.dests[b] \in {a.dests[b], l}
  <2> DEFINE d == LeftDests(op, a, l)
  <2>1. x = Arc(d, a.origin, o, "Left")
    OBVIOUS
  <2> HIDE DEF d, x, o
  <2>2. x \in ArcType /\ x.dests = d /\ x.origin = a.origin /\ x.parent = o
    BY <2>1, <1>5, <1>6, ArcFacts DEF d
  <2> QED
    BY <2>2, <1>6 DEF d
<1>8. /\ y \in ArcType /\ y.origin = l /\ y.parent = o /\ y.dests = a.dests
  <2>1. y = Arc(a.dests, l, o, "Right")
    OBVIOUS
  <2> HIDE DEF y, o, l
  <2> QED
    BY <2>1, <1>5, ArcFacts
<1>9. /\ arcs' \in Seq(ArcType) /\ Len(arcs') = Len(arcs) + 1 /\ arcs' # <<>>
      /\ arcs'[1] = x /\ arcs'[2] = y
      /\ \A i \in 3..(Len(arcs) + 1) : arcs'[i] = arcs[i - 1]
  <2>1. arcs' = <<x, y>> \o Tail(arcs)
    BY DEF ProcessBinary
  <2> HIDE DEF x, y
  <2> QED
    BY <2>1, <1>1, <1>7, <1>8, PopPush2
<1> HIDE DEF x, y, a
<1>10. /\ arcs[1].origin \in Ids \cup {0} /\ l \notin Ids /\ Ids' = Ids \cup {l}
       /\ \A i \in 1..Len(arcs) : arcs[i].origin \in Ids \cup {0}
       /\ Ids = 1..Len(vec)
  BY <1>1, <1>2, <1>4 DEF TypeOK, IdsAllocated, Ids
\* What each arc of the new stack comes from
<1>11. /\ arcs'[1].origin = arcs[1].origin /\ arcs'[2].origin = l
       /\ \A i \in 3..(Len(arcs) + 1) : arcs'[i].origin = arcs[i - 1].origin
       /\ \A b \in BOOLEAN : /\ arcs'[1].dests[b] \in {arcs[1].dests[b], l}
                             /\ arcs'[2].dests[b] = arcs[1].dests[b]
       /\ \A i \in 3..(Len(arcs) + 1), b \in BOOLEAN :
            arcs'[i].dests[b] = arcs[i - 1].dests[b]
  BY <1>2, <1>7, <1>8, <1>9
<1>12. \A i \in 1..Len(arcs') : i \in {1, 2} \/ i \in 3..(Len(arcs) + 1)
  BY <1>2, <1>9
<1>13. IdsAllocated'
  <2>1. \A i \in 1..Len(arcs') :
          arcs'[i].parent \in 1..Len(sco') /\ sco'[arcs'[i].parent].kind # "Condition"
    <3> SUFFICES ASSUME NEW i \in 1..Len(arcs')
                 PROVE  /\ arcs'[i].parent \in 1..Len(sco')
                        /\ sco'[arcs'[i].parent].kind # "Condition"
      OBVIOUS
    <3>1. CASE i \in {1, 2}
      BY <3>1, <1>3, <1>7, <1>8, <1>9
    <3>2. CASE i \in 3..(Len(arcs) + 1)
      <4>1. i - 1 \in 1..Len(arcs)
        BY <3>2, <1>2
      <4>2. arcs[i - 1].parent \in 1..Len(sco) /\ sco[arcs[i - 1].parent].kind # "Condition"
        BY <4>1, <1>1 DEF TypeOK, IdsAllocated
      <4> QED
        BY <4>2, <3>2, <1>3, <1>9
    <3> QED
      BY <3>1, <3>2, <1>12
  <2>2. \A i \in 1..Len(arcs') :
          /\ arcs'[i].origin \in Ids' \cup {0}
          /\ \A b \in BOOLEAN : arcs'[i].dests[b] \in Ids'
    <3> SUFFICES ASSUME NEW i \in 1..Len(arcs')
                 PROVE  /\ arcs'[i].origin \in Ids' \cup {0}
                        /\ \A b \in BOOLEAN : arcs'[i].dests[b] \in Ids'
      OBVIOUS
    <3>1. \A j \in 1..Len(arcs), b \in BOOLEAN : arcs[j].dests[b] \in Ids
      BY <1>1 DEF TypeOK, IdsAllocated
    <3>2. CASE i \in {1, 2}
      BY <3>1, <3>2, <1>2, <1>10, <1>11
    <3>3. CASE i \in 3..(Len(arcs) + 1)
      <4>1. i - 1 \in 1..Len(arcs)
        BY <3>3, <1>2
      <4> QED
        BY <4>1, <3>1, <3>3, <1>10, <1>11
    <3> QED
      BY <3>2, <3>3, <1>12
  <2>3. \A n \in Ids' :
          /\ vec'[n].kind = "Condition" =>
               \A b \in BOOLEAN : vec'[n].dests[b] \in Ids'
          /\ vec'[n].kind = "Jump" => vec'[n].dest \in Ids' \cup {0}
    <3>1. \A n \in Ids :
          /\ vec[n].kind = "Condition" =>
               \A b \in BOOLEAN : vec[n].dests[b] \in Ids
          /\ vec[n].kind = "Jump" => vec[n].dest \in Ids \cup {0}
      BY <1>1 DEF TypeOK, IdsAllocated
    <3> QED
      BY <3>1, <1>4, <1>10 DEF JumpNode
  <2>4. bdd.root \in Ids \cup {0}
    BY <1>1 DEF TypeOK, IdsAllocated
  <2>5. 1..Len(frames') = {}
    BY <1>1
  <2> QED
    BY <2>1, <2>2, <2>3, <2>4, <2>5, <1>1, <1>10 DEF IdsAllocated
<1>14. TypeOK'
  BY <1>1, <1>3, <1>4, <1>9, <1>13 DEF TypeOK
<1>15. JumpsResolved'
  <2>1. ASSUME NEW i \in 1..Len(arcs'), NEW j \in 1..Len(arcs'),
               arcs'[i].origin = arcs'[j].origin
        PROVE  i = j
    <3> DEFINE old(k) == IF k = 1 THEN 1 ELSE k - 1
    <3>1. \A p, q \in 1..Len(arcs) : arcs[p].origin = arcs[q].origin => p = q
      BY DEF IInv, JumpsResolved
    <3>2. \A k \in 1..Len(arcs') :
             k # 2 => /\ old(k) \in 1..Len(arcs)
                      /\ arcs'[k].origin = arcs[old(k)].origin
      BY <1>2, <1>11, <1>12
    <3>3. l # 0 /\ arcs'[2].origin = l
      BY <1>4, <1>11
    <3>4. \A k \in 1..Len(arcs') : k # 2 => arcs'[k].origin # l
      <4>1. \A p \in 1..Len(arcs) : arcs[p].origin # l
        BY <3>3, <1>10
      <4> HIDE DEF old, l
      <4> QED
        BY <3>2, <4>1
    <3>5. CASE i = 2 \/ j = 2
      BY <2>1, <3>3, <3>4, <3>5
    <3>6. CASE i # 2 /\ j # 2
      <4>1. old(i) = old(j)
        BY <2>1, <3>1, <3>2, <3>6
      <4> QED
        BY <4>1, <3>6, <1>12
    <3> QED
      BY <3>5, <3>6
  <2>2. ASSUME NEW i \in 1..Len(arcs')
        PROVE  IF arcs'[i].origin = 0 THEN i = 1 /\ bdd'.root = 0
               ELSE vec'[arcs'[i].origin] = JumpNode
    <3>1. \A k \in 1..Len(arcs) :
            IF arcs[k].origin = 0 THEN k = 1 /\ bdd.root = 0
            ELSE vec[arcs[k].origin] = JumpNode
      BY DEF IInv, JumpsResolved
    <3>2. CASE i = 1
      BY <3>1, <3>2, <1>1, <1>2, <1>4, <1>10, <1>11
    <3>3. CASE i = 2
      BY <3>3, <1>4, <1>11
    <3>4. CASE i \in 3..(Len(arcs) + 1)
      <4>1. i - 1 \in 1..Len(arcs) /\ i - 1 # 1
        BY <3>4, <1>2
      <4>2. arcs[i - 1].origin # 0 /\ vec[arcs[i - 1].origin] = JumpNode
        BY <4>1, <3>1
      <4> QED
        BY <4>1, <4>2, <3>4, <1>4, <1>10, <1>11
    <3> QED
      BY <3>2, <3>3, <3>4, <1>12
  <2>3. bdd'.root = 0 => arcs' # <<>> /\ arcs'[1].origin = 0
    BY <1>1, <1>9, <1>11 DEF IInv, JumpsResolved
  <2>4. ASSUME NEW n \in NodesOf("Jump")'
        PROVE  IF vec'[n].dest = 0 THEN \E i \in 1..Len(arcs') : arcs'[i].origin = n
               ELSE vec'[vec'[n].dest].kind = "Condition"
    <3>1. CASE n = l
      BY <3>1, <1>2, <1>4, <1>9, <1>11 DEF JumpNode
    <3>2. CASE n # l
      <4>1. n \in Ids /\ n \in NodesOf("Jump") /\ vec'[n] = vec[n]
        BY <2>4, <3>2, <1>4, <1>10 DEF NodesOf, Ids
      <4>2. CASE vec[n].dest = 0
        <5>1. PICK i \in 1..Len(arcs) : arcs[i].origin = n
          BY <4>1, <4>2 DEF IInv, JumpsResolved
        <5>2. CASE i = 1
          BY <5>1, <5>2, <4>1, <4>2, <1>2, <1>9, <1>11
        <5>3. CASE i # 1
          <6>1. i + 1 \in 3..(Len(arcs) + 1) /\ i + 1 - 1 = i /\ i + 1 \in 1..Len(arcs')
            BY <5>3, <1>2, <1>9
          <6>2. arcs'[i + 1].origin = n
            BY <5>1, <6>1, <1>11
          <6> QED
            BY <6>1, <6>2, <4>1, <4>2
        <5> QED
          BY <5>2, <5>3
      <4>3. CASE vec[n].dest # 0
        <5>1. vec[vec[n].dest].kind = "Condition" /\ vec[n].dest \in Ids
          BY <4>1, <4>3, <1>1 DEF IInv, JumpsResolved, TypeOK, IdsAllocated, NodesOf
        <5> QED
          BY <5>1, <4>1, <4>3, <1>4, <1>10
      <4> QED
        BY <4>2, <4>3
    <3> QED
      BY <3>1, <3>2
  <2> QED
    BY <2>1, <2>2, <2>3, <2>4 DEF JumpsResolved
<1>16. ArcsLeadDeeper'
  <2> SUFFICES ASSUME NEW i \in 1..Len(arcs'), NEW b \in BOOLEAN
               PROVE  \/ arcs'[i].dests[b] \in Exits
                      \/ \E j \in (i + 1)..Len(arcs') :
                           arcs'[j].origin = arcs'[i].dests[b]
    BY DEF ArcsLeadDeeper
  <2>1. ASSUME NEW k \in 1..Len(arcs), arcs[k].dests[b] \notin Exits
        PROVE  \E j \in (k + 2)..Len(arcs') : arcs'[j].origin = arcs[k].dests[b]
    <3>1. PICK j \in (k + 1)..Len(arcs) : arcs[j].origin = arcs[k].dests[b]
      BY <2>1 DEF IInv, ArcsLeadDeeper
    <3>2. j + 1 \in (k + 2)..Len(arcs') /\ j + 1 \in 3..(Len(arcs) + 1) /\ j + 1 - 1 = j
      BY <1>2, <1>9
    <3> QED
      BY <3>1, <3>2, <1>11
  <2>2. CASE i = 1
    <3>1. CASE arcs'[1].dests[b] = l
      <4>1. 2 \in (i + 1)..Len(arcs') /\ arcs'[2].origin = l
        BY <2>2, <1>2, <1>9, <1>11
      <4> QED
        BY <4>1, <3>1, <2>2
    <3>2. CASE arcs'[1].dests[b] = arcs[1].dests[b]
      <4>1. \A j \in 3..Len(arcs') : j \in 2..Len(arcs')
        BY <1>2, <1>9
      <4> QED
        BY <4>1, <2>1, <2>2, <3>2, <1>2
    <3> QED
      BY <3>1, <3>2, <1>11
  <2>3. CASE i = 2
    BY <2>1, <2>3, <1>2, <1>11
  <2>4. CASE i \in 3..(Len(arcs) + 1)
    <3>1. i - 1 \in 1..Len(arcs) /\ (i - 1) + 2 = i + 1
      BY <2>4, <1>2
    <3>2. arcs'[i].dests[b] = arcs[i - 1].dests[b]
      BY <2>4, <1>11
    <3> QED
      BY <3>1, <3>2, <2>1
  <2> QED
    BY <2>2, <2>3, <2>4, <1>12
<1>17. ExitsFirst' /\ ConditionsLeadForward' /\ ScanEnds'
  <2>1. ExitsFirst'
    <3>1. \A n \in Ids : n \in Exits <=> vec[n].kind = "Outcome"
      BY DEF IInv, ExitsFirst
    <3>2. vec'[l].kind = "Jump" /\ l \notin Exits
      BY <1>1, <1>4 DEF TypeOK, JumpNode, Exits, ExitFalse, ExitTrue
    <3> QED
      BY <3>1, <3>2, <1>4, <1>10 DEF ExitsFirst
  <2>2. ScanEnds'
    BY <1>1, <1>4, <1>9, <1>10 DEF IInv, ScanEnds, TypeOK, IdsAllocated
  <2>3. ASSUME NEW n \in NodesOf("Condition")', NEW b \in BOOLEAN
        PROVE  \/ vec'[n].dests[b] \in Exits
               \/ /\ vec'[vec'[n].dests[b]].kind = "Jump"
                  /\ \/ vec'[vec'[n].dests[b]].dest = 0
                     \/ vec'[vec'[n].dests[b]].dest > n
    <3>1. n \in Ids /\ n \in NodesOf("Condition") /\ vec'[n] = vec[n]
      BY <2>3, <1>4, <1>10 DEF NodesOf, Ids, JumpNode
    <3>2. vec[n].dests[b] \in Ids
      BY <3>1, <1>1 DEF TypeOK, IdsAllocated, NodesOf
    <3>3. vec'[vec[n].dests[b]] = vec[vec[n].dests[b]]
      BY <3>2, <1>4, <1>10
    <3> QED
      BY <3>1, <3>3, <1>1 DEF IInv, ConditionsLeadForward
  <2> QED
    BY <2>1, <2>2, <2>3 DEF ConditionsLeadForward
<1>18. ForwardEdges' /\ FramesNested' /\ CountedNodesAdditive'
  BY <1>1 DEF ForwardEdges, FramesNested, CountedNodesAdditive
<1> QED
  BY <1>14, <1>15, <1>16, <1>17, <1>18 DEF IInv
\* The nodes once the condition is allocated and its jump is resolved
LEMMA WithConditionFacts ==
  ASSUME IInv, arcs # <<>>, phase = "scan",
         NEW v, v = WithCondition(Head(arcs), Len(sco) + 1),
         NEW r, r = IF Head(arcs).origin = 0 THEN Len(vec) + 1 ELSE bdd.root
  PROVE  /\ v \in Seq(BDDNode) /\ Len(v) = Len(vec) + 1 /\ Len(vec) \in Nat
         /\ \A m \in 1..Len(vec) :
              /\ v[m].kind = vec[m].kind
              /\ m # arcs[1].origin => v[m] = vec[m]
         /\ v[Len(v)].kind = "Condition" /\ v[Len(v)].dests = arcs[1].dests
         /\ v[Len(v)].csco = Len(sco) + 1
         /\ arcs[1].origin # 0 =>
              v[arcs[1].origin].kind = "Jump" /\ v[arcs[1].origin].dest = Len(v)
         /\ r \in 1..Len(v) /\ r # 0 /\ v[r].kind = "Condition"
<1> DEFINE a == Head(arcs)
           n == Len(vec) + 1
           x == ConditionNode(Len(sco) + 1, a.dests)
           u == Append(vec, x)
<1>1. /\ vec \in Seq(BDDNode) /\ arcs \in Seq(ArcType) /\ Len(vec) \in Nat
      /\ Len(sco) \in Nat
  BY DEF IInv, TypeOK
<1>2. a = arcs[1] /\ 1 \in 1..Len(arcs) /\ a \in ArcType
  BY <1>1, Pop
<1>3. a.dests \in [BOOLEAN -> Nat] /\ a.origin \in 0..Len(vec)
  <2>1. arcs[1].origin \in Ids \cup {0}
    BY <1>2 DEF IInv, TypeOK, IdsAllocated
  <2> QED
    BY <2>1, <1>1, <1>2 DEF ArcType, Ids
<1>4. x \in BDDNode /\ x.kind = "Condition" /\ x.dests = a.dests /\ x.csco = Len(sco) + 1
  BY <1>1, <1>3 DEF ConditionNode, BDDNode, ConditionNodeType
<1> HIDE DEF x
<1>5. /\ u \in Seq(BDDNode) /\ Len(u) = n /\ u[n] = x
      /\ \A m \in 1..Len(vec) : u[m] = vec[m]
  BY <1>1, <1>4, AppendFacts
<1> HIDE DEF u
<1>6. v = IF a.origin = 0 THEN u ELSE [u EXCEPT ![a.origin].dest = n]
  BY DEF WithCondition, u, x
<1>7. bdd.root = 0 <=> a.origin = 0
  BY <1>2 DEF IInv, JumpsResolved
<1>8. bdd.root \in 0..Len(vec) /\ (bdd.root # 0 => vec[bdd.root].kind = "Condition")
  BY <1>1 DEF IInv, TypeOK, IdsAllocated, Ids, ScanEnds
<1>9. CASE a.origin = 0
  <2>1. v = u /\ r = n
    BY <1>6, <1>9
  <2> QED
    BY <2>1, <1>1, <1>2, <1>4, <1>5, <1>9
<1>10. CASE a.origin # 0
  <2> DEFINE k == a.origin
  <2>1. vec[k] = JumpNode /\ k \in 1..Len(vec)
    BY <1>2, <1>3, <1>10 DEF IInv, JumpsResolved
  <2>2. u[k] = JumpNode /\ k # n /\ k \in 1..Len(u)
    BY <2>1, <1>1, <1>5
  <2> DEFINE j == [u[k] EXCEPT !.dest = n]
  <2>3. j \in BDDNode /\ j.kind = "Jump" /\ j.dest = n
    BY <2>2, <1>1 DEF JumpNode, BDDNode, JumpNodeType
  <2>4. v = [u EXCEPT ![k] = j]
    BY <1>6, <1>10
  <2> HIDE DEF j
  <2>5. /\ v \in Seq(BDDNode) /\ Len(v) = n /\ v[k] = j /\ v[n] = x
        /\ \A m \in 1..Len(vec) : m # k => v[m] = vec[m]
    <3> HIDE DEF k, n
    <3>1. /\ v \in Seq(BDDNode) /\ Len(v) = Len(u) /\ v[k] = j
          /\ \A m \in 1..Len(u) : m # k => v[m] = u[m]
      BY <2>2, <2>3, <2>4, <1>5, UpdateFacts
    <3> QED
      BY <3>1, <2>2, <1>1, <1>5 DEF n
  <2>6. r = bdd.root /\ r # 0 /\ r \in 1..Len(vec) /\ vec[r].kind = "Condition"
    BY <1>7, <1>8, <1>10
  <2>7. \A m \in 1..Len(vec) : v[m].kind = vec[m].kind
    BY <2>1, <2>3, <2>5 DEF JumpNode
  <2> HIDE DEF k
  <2>8. k = arcs[1].origin /\ k \in Nat
    BY <1>2, <1>3 DEF k
  <2>9. /\ v[arcs[1].origin].kind = "Jump" /\ v[arcs[1].origin].dest = Len(v)
        /\ v[Len(v)].kind = "Condition" /\ v[Len(v)].dests = arcs[1].dests
        /\ v[Len(v)].csco = Len(sco) + 1
    BY <2>3, <2>5, <2>8, <1>2, <1>4
  <2>10. r \in 1..Len(v) /\ v[r].kind = "Condition"
    BY <2>5, <2>6, <2>7, <1>1
  <2> QED
    BY <2>5, <2>6, <2>7, <2>8, <2>9, <2>10, <1>1
<1> QED
  BY <1>9, <1>10

LEMMA ConditionSCOFacts ==
  ASSUME TypeOK, NEW code \in ConditionCodes
  PROVE  LET d == ConditionSCO(ConditionValue(code), Cardinality(Conditions),
                               Len(vec) + 1)
         IN  d \in SCODescriptor /\ d.kind = "Condition"
<1>1. Cardinality(Conditions) \in Nat
  <2>1. Len(sco) \in Nat
    BY DEF TypeOK
  <2>2. IsFiniteSet(1..Len(sco)) /\ Conditions \subseteq 1..Len(sco)
    BY <2>1, FS_Interval DEF Conditions
  <2> QED
    BY <2>2, FS_Subset, FS_CardinalityType
<1>2. ConditionValue(code) \in Tristate
  BY BoundsAssumption DEF ConditionValue, Tristate
<1>3. Len(vec) + 1 \in Nat
  BY DEF TypeOK
<1> DEFINE k == Cardinality(Conditions)
<1> HIDE DEF k
<1>4. ConditionSCO(ConditionValue(code), k, Len(vec) + 1) \in ConditionType
  BY <1>1, <1>2, <1>3 DEF ConditionSCO, ConditionType, k
<1> QED
  BY <1>4 DEF SCODescriptor, ConditionType, k
\* Once no jump waits, patching keeps the kinds, replaces every destination
\* that was a jump by its target, and leaves the jumps alone
LEMMA PatchFacts ==
  ASSUME NEW v \in Seq(BDDNode), NEW w, w = PatchJumps(v),
         \A m \in 1..Len(v) : v[m].kind = "Jump" =>
            v[m].dest \in 1..Len(v) /\ v[v[m].dest].kind = "Condition",
         \A m \in 1..Len(v), b \in BOOLEAN :
            v[m].kind = "Condition" => v[m].dests[b] \in 1..Len(v)
  PROVE  /\ w \in Seq(BDDNode) /\ Len(w) = Len(v)
         /\ \A m \in 1..Len(v) :
              /\ w[m].kind = v[m].kind
              /\ v[m].kind = "Outcome" => w[m] = v[m]
              /\ v[m].kind = "Jump" => w[m].dest = v[m].dest
              /\ v[m].kind = "Condition" =>
                   /\ \A b \in BOOLEAN : w[m].dests[b] = PatchJump(v, v[m].dests[b])
                   /\ w[m].csco = v[m].csco
<1>1. Len(v) \in Nat /\ \A m \in 1..Len(v) : v[m] \in BDDNode
  OBVIOUS
<1> DEFINE x(m) == CASE v[m].kind = "Condition" ->
                    [v[m] EXCEPT !.dests = [b \in BOOLEAN |-> PatchJump(v, @[b])]]
               [] v[m].kind = "Jump" -> [v[m] EXCEPT !.dest = PatchJump(v, @)]
               [] OTHER -> v[m]
<1>2. ASSUME NEW m \in 1..Len(v)
      PROVE  /\ x(m) \in BDDNode /\ x(m).kind = v[m].kind
             /\ v[m].kind = "Outcome" => x(m) = v[m]
             /\ v[m].kind = "Jump" => x(m).dest = v[m].dest
             /\ v[m].kind = "Condition" =>
                  /\ \A b \in BOOLEAN : x(m).dests[b] = PatchJump(v, v[m].dests[b])
                  /\ x(m).csco = v[m].csco
  <2>1. v[m] \in BDDNode
    BY <1>1
  <2>2. CASE v[m].kind = "Condition"
    <3> DEFINE d == [b \in BOOLEAN |-> PatchJump(v, v[m].dests[b])]
    <3>1. \A b \in BOOLEAN : PatchJump(v, v[m].dests[b]) \in Nat
      BY <2>2, <1>1 DEF PatchJump
    <3>2. d \in [BOOLEAN -> Nat]
      BY <3>1
    <3>3. v[m] \in ConditionNodeType
      BY <2>1, <2>2 DEF BDDNode, OutcomeNodeType, JumpNodeType
    <3>4. x(m) = [v[m] EXCEPT !.dests = d]
      BY <2>2
    <3>5. \A b \in BOOLEAN : d[b] = PatchJump(v, v[m].dests[b])
      OBVIOUS
    <3> HIDE DEF d, x
    <3>6. /\ x(m) \in ConditionNodeType /\ x(m).dests = d /\ x(m).kind = v[m].kind
          /\ x(m).csco = v[m].csco
      BY <3>2, <3>3, <3>4 DEF ConditionNodeType
    <3> QED
      BY <3>5, <3>6, <2>2 DEF BDDNode
  <2>3. CASE v[m].kind = "Jump"
    <3>1. x(m) = [v[m] EXCEPT !.dest = v[m].dest]
      BY <2>3, <1>1 DEF PatchJump
    <3>2. v[m] \in JumpNodeType
      BY <2>1, <2>3 DEF BDDNode, OutcomeNodeType, ConditionNodeType
    <3> HIDE DEF x
    <3> QED
      BY <3>1, <3>2, <2>3 DEF BDDNode, JumpNodeType
  <2>4. CASE v[m].kind \notin {"Jump", "Condition"}
    BY <2>1, <2>4
  <2> QED
    BY <2>2, <2>3, <2>4
<1>3. w = [m \in 1..Len(v) |-> x(m)]
  BY DEF PatchJumps
<1> HIDE DEF x
<1> QED
  BY <1>1, <1>2, <1>3

\* Once the condition is allocated, the pending operands keep their jumps,
\* every other jump leads to a condition, and conditions lead to exits or forward
LEMMA WithConditionEdges ==
  ASSUME IInv, arcs # <<>>, phase = "scan",
         NEW v, v = WithCondition(Head(arcs), Len(sco) + 1),
         NEW n, n = Len(vec) + 1, NEW k, k = arcs[1].origin
  PROVE  /\ \A i \in 2..Len(arcs) :
              /\ arcs[i].origin \in Ids /\ arcs[i].origin # k /\ arcs[i].origin # 0
              /\ v[arcs[i].origin] = JumpNode
         /\ \A m \in 1..n : v[m].kind = "Jump" =>
              IF v[m].dest = 0 THEN \E i \in 2..Len(arcs) : arcs[i].origin = m
              ELSE v[m].dest \in 1..n /\ v[v[m].dest].kind = "Condition"
         /\ \A m \in 1..n, b \in BOOLEAN : v[m].kind = "Condition" =>
              /\ v[m].dests[b] \in 1..n
              /\ \/ v[m].dests[b] \in Exits
                 \/ /\ v[v[m].dests[b]].kind = "Jump"
                    /\ v[v[m].dests[b]].dest = 0 \/ v[v[m].dests[b]].dest > m
<1>1. TypeOK /\ arcs \in Seq(ArcType) /\ vec \in Seq(BDDNode) /\ Len(vec) >= 2
  BY DEF IInv, TypeOK
<1>2. 1 \in 1..Len(arcs) /\ Len(arcs) \in Nat \ {0}
  BY <1>1, Pop
<1>3. /\ Len(vec) \in Nat
      /\ \A m \in 1..Len(vec) :
           v[m].kind = vec[m].kind /\ (m # k => v[m] = vec[m])
      /\ v[n].kind = "Condition" /\ v[n].dests = arcs[1].dests
      /\ k # 0 => v[k].kind = "Jump" /\ v[k].dest = n
  <2>1. PICK r : r = IF Head(arcs).origin = 0 THEN Len(vec) + 1 ELSE bdd.root
    OBVIOUS
  <2> QED
    BY <2>1, WithConditionFacts
<1>4. Ids = 1..Len(vec) /\ k \in Ids \cup {0} /\ 1..n = Ids \cup {n} /\ n \notin Ids
  BY <1>1, <1>2, <1>3 DEF TypeOK, IdsAllocated, Ids
<1>5. ASSUME NEW i \in 2..Len(arcs)
      PROVE  /\ arcs[i].origin \in Ids /\ arcs[i].origin # k /\ arcs[i].origin # 0
             /\ v[arcs[i].origin] = JumpNode
  <2>1. i \in 1..Len(arcs) /\ i # 1
    BY <1>2
  <2>2. arcs[i].origin # 0 /\ arcs[i].origin # k /\ vec[arcs[i].origin] = JumpNode
    BY <2>1, <1>2 DEF IInv, JumpsResolved
  <2>3. arcs[i].origin \in Ids
    BY <2>1, <2>2, <1>1 DEF TypeOK, IdsAllocated
  <2> QED
    BY <2>2, <2>3, <1>3, <1>4
<1>6. ASSUME NEW m \in 1..n, v[m].kind = "Jump"
      PROVE  IF v[m].dest = 0 THEN \E i \in 2..Len(arcs) : arcs[i].origin = m
             ELSE v[m].dest \in 1..n /\ v[v[m].dest].kind = "Condition"
  <2>1. m \in Ids /\ vec[m].kind = "Jump" /\ m \in NodesOf("Jump")
    BY <1>3, <1>4, <1>6 DEF NodesOf
  <2>2. CASE m = k
    BY <2>1, <2>2, <1>3, <1>4
  <2>3. CASE m # k
    <3>1. v[m] = vec[m]
      BY <2>1, <2>3, <1>3, <1>4
    <3>2. CASE vec[m].dest = 0
      <4>1. PICK i \in 1..Len(arcs) : arcs[i].origin = m
        BY <2>1, <3>2 DEF IInv, JumpsResolved
      <4>2. i \in 2..Len(arcs)
        BY <4>1, <2>3, <1>2
      <4> QED
        BY <4>1, <4>2, <3>1, <3>2
    <3>3. CASE vec[m].dest # 0
      <4>1. vec[m].dest \in Ids /\ vec[vec[m].dest].kind = "Condition"
        BY <2>1, <3>3, <1>1 DEF IInv, JumpsResolved, TypeOK, IdsAllocated
      <4> QED
        BY <4>1, <3>1, <3>3, <1>3, <1>4
    <3> QED
      BY <3>2, <3>3
  <2> QED
    BY <2>2, <2>3
<1>7. ASSUME NEW m \in 1..n, v[m].kind = "Condition", NEW b \in BOOLEAN
       PROVE  /\ v[m].dests[b] \in 1..n
              /\ \/ v[m].dests[b] \in Exits
                 \/ /\ v[v[m].dests[b]].kind = "Jump"
                    /\ v[v[m].dests[b]].dest = 0 \/ v[v[m].dests[b]].dest > m
  <2>1. CASE m = n
    <3>1. arcs[1].dests[b] \in Ids /\ v[m].dests[b] = arcs[1].dests[b]
      BY <2>1, <1>1, <1>2, <1>3 DEF TypeOK, IdsAllocated
    <3>2. CASE arcs[1].dests[b] \in Exits
      BY <3>1, <3>2, <1>4
    <3>3. CASE arcs[1].dests[b] \notin Exits
      <4>1. PICK j \in 2..Len(arcs) : arcs[j].origin = arcs[1].dests[b]
        BY <3>3, <1>2 DEF IInv, ArcsLeadDeeper
      <4>2. v[v[m].dests[b]] = JumpNode
        BY <4>1, <3>1, <1>5
      <4> QED
        BY <4>2, <3>1, <1>4 DEF JumpNode
    <3> QED
      BY <3>2, <3>3
  <2>2. CASE m # n
    <3> DEFINE d == vec[m].dests[b]
    <3>1. m \in Ids /\ vec[m].kind = "Condition" /\ m \in NodesOf("Condition")
      BY <2>2, <1>3, <1>4, <1>7 DEF NodesOf
    <3>2. v[m] = vec[m]
      BY <3>1, <1>3, <1>4, <1>7
    <3>3. /\ d \in Ids
          /\ d \in Exits \/ (vec[d].kind = "Jump" /\ (vec[d].dest = 0 \/ vec[d].dest > m))
      BY <3>1, <1>1 DEF IInv, ConditionsLeadForward, TypeOK, IdsAllocated
    <3> HIDE DEF d
    <3>4. CASE d \in Exits
      BY <3>2, <3>3, <3>4, <1>4 DEF d
    <3>5. CASE d \notin Exits
      <4>1. n > m /\ n \in Nat
        BY <3>1, <1>3, <1>4
      <4>2. v[d].kind = "Jump" /\ (v[d].dest = 0 \/ v[d].dest > m)
        BY <3>3, <3>5, <4>1, <1>3, <1>4
      <4> QED
        BY <3>2, <3>3, <4>2, <1>4 DEF d
    <3> QED
      BY <3>4, <3>5
  <2> QED
    BY <2>1, <2>2
<1> QED
  BY <1>5, <1>6, <1>7

LEMMA ProcessConditionInv ==
  ASSUME IInv, NEW code \in ConditionCodes, ProcessCondition(code)
  PROVE  IInv'
<1> DEFINE n == Len(vec) + 1
           v == WithCondition(Head(arcs), Len(sco) + 1)
           root == IF Head(arcs).origin = 0 THEN n ELSE bdd.root
           k == arcs[1].origin
<1>1. /\ phase = "scan" /\ arcs # <<>> /\ frames = <<>> /\ TypeOK
      /\ arcs \in Seq(ArcType) /\ vec \in Seq(BDDNode) /\ sco \in Seq(SCODescriptor)
      /\ Len(vec) >= 2
  BY DEF IInv, ProcessCondition, ScanEnds, TypeOK
<1>2. 1 \in 1..Len(arcs) /\ Len(arcs) \in Nat \ {0} /\ Len(sco) \in Nat
  BY <1>1, Pop
<1>3. /\ sco' \in Seq(SCODescriptor) /\ Len(sco') = Len(sco) + 1
      /\ \A s \in 1..Len(sco) : sco'[s].kind = sco[s].kind
  <2> DEFINE new == ConditionSCO(ConditionValue(code), Cardinality(Conditions), n)
  <2>1. new \in SCODescriptor
    BY <1>1, ConditionSCOFacts
  <2>2. sco' = WithSCO(new)
    BY DEF ProcessCondition
  <2>3. TypeOK /\ arcs # <<>>
    BY <1>1
  <2> HIDE DEF new
  <2> QED
    BY <2>1, <2>2, <2>3, EntrySCO
<1>4. /\ v \in Seq(BDDNode) /\ Len(v) = n /\ Len(vec) \in Nat
      /\ \A m \in 1..Len(vec) :
           v[m].kind = vec[m].kind /\ (m # k => v[m] = vec[m])
      /\ v[n].kind = "Condition" /\ v[n].dests = arcs[1].dests
      /\ k # 0 => v[k].kind = "Jump" /\ v[k].dest = n
      /\ root \in 1..n /\ root # 0 /\ v[root].kind = "Condition"
  <2> HIDE DEF v
  <2>1. v = WithCondition(Head(arcs), Len(sco) + 1)
    BY DEF v
  <2> QED
    BY <2>1, <1>1, WithConditionFacts
<1>5. /\ arcs' \in Seq(ArcType) /\ Len(arcs') = Len(arcs) - 1
      /\ \A i \in 1..Len(arcs') : arcs'[i] = arcs[i + 1] /\ i + 1 \in 2..Len(arcs)
      /\ arcs' = <<>> <=> Len(arcs) = 1
  <2>1. arcs' = Tail(arcs)
    BY DEF ProcessCondition
  <2> QED
    BY <2>1, <1>1, <1>2, Pop
<1>6. bdd' \in BDDType /\ bdd'.root = root
  <2>1. root \in Nat /\ bdd' = [bdd EXCEPT !.root = root] /\ bdd \in BDDType
    BY <1>1, <1>4 DEF ProcessCondition, TypeOK
  <2> HIDE DEF root
  <2> QED
    BY <2>1 DEF BDDType
<1>7. Ids = 1..Len(vec) /\ k \in Ids \cup {0} /\ 1..n = Ids \cup {n} /\ n \notin Ids
  BY <1>1, <1>2, <1>4 DEF TypeOK, IdsAllocated, Ids
<1> HIDE DEF v, root
\* The pending operands keep their jumps, and every other jump is resolved
<1>8. /\ \A i \in 2..Len(arcs) :
           /\ arcs[i].origin \in Ids /\ arcs[i].origin # k /\ arcs[i].origin # 0
           /\ v[arcs[i].origin] = JumpNode
      /\ \A m \in 1..n : v[m].kind = "Jump" =>
           IF v[m].dest = 0 THEN \E i \in 2..Len(arcs) : arcs[i].origin = m
           ELSE v[m].dest \in 1..n /\ v[v[m].dest].kind = "Condition"
      /\ \A m \in 1..n, b \in BOOLEAN : v[m].kind = "Condition" =>
           /\ v[m].dests[b] \in 1..n
           /\ \/ v[m].dests[b] \in Exits
              \/ /\ v[v[m].dests[b]].kind = "Jump"
                 /\ v[v[m].dests[b]].dest = 0 \/ v[v[m].dests[b]].dest > m
  <2>1. v = WithCondition(Head(arcs), Len(sco) + 1) /\ IInv
    BY DEF v
  <2>2. n = Len(vec) + 1 /\ k = arcs[1].origin
    OBVIOUS
  <2> HIDE DEF n, k
  <2> QED
    BY <2>1, <2>2, <1>1, WithConditionEdges
<1>9. \A m \in 1..n : v[m].kind = "Jump" =>
        IF v[m].dest = 0 THEN \E i \in 2..Len(arcs) : arcs[i].origin = m
        ELSE v[m].dest \in 1..n /\ v[v[m].dest].kind = "Condition"
  BY <1>8
<1>10. \A m \in 1..n, b \in BOOLEAN : v[m].kind = "Condition" =>
         /\ v[m].dests[b] \in 1..n
         /\ \/ v[m].dests[b] \in Exits
            \/ /\ v[v[m].dests[b]].kind = "Jump"
               /\ v[v[m].dests[b]].dest = 0 \/ v[v[m].dests[b]].dest > m
  BY <1>8
<1>11. \A m \in 1..n : m \in Exits <=> v[m].kind = "Outcome"
  <2>1. n \notin Exits
    BY <1>1, <1>4 DEF Exits, ExitFalse, ExitTrue
  <2> QED
    BY <2>1, <1>4, <1>7 DEF IInv, ExitsFirst
<1>12. CASE Len(arcs) # 1
  <2>1. vec' = v /\ UNCHANGED <<phase, frames, count>> /\ Ids' = 1..n
    BY <1>4, <1>12 DEF ProcessCondition, v, Ids
  <2>2. IdsAllocated'
    <3>1. \A i \in 1..Len(arcs') :
            /\ arcs'[i].origin \in Ids' \cup {0}
            /\ \A b \in BOOLEAN : arcs'[i].dests[b] \in Ids'
            /\ arcs'[i].parent \in 1..Len(sco')
            /\ sco'[arcs'[i].parent].kind # "Condition"
      <4>1. \A i \in 2..Len(arcs) :
            /\ arcs[i].origin \in Ids \cup {0}
            /\ \A b \in BOOLEAN : arcs[i].dests[b] \in Ids
            /\ arcs[i].parent \in 1..Len(sco)
            /\ sco[arcs[i].parent].kind # "Condition"
        BY <1>1, <1>2 DEF TypeOK, IdsAllocated
      <4>2. \A m \in Ids : m \in Ids'
        BY <2>1, <1>7
      <4>3. \A p \in 1..Len(sco) : p \in 1..Len(sco') /\ sco'[p].kind = sco[p].kind
        BY <1>2, <1>3
      <4> SUFFICES ASSUME NEW i \in 1..Len(arcs')
                   PROVE  /\ arcs'[i].origin \in Ids' \cup {0}
                          /\ \A b \in BOOLEAN : arcs'[i].dests[b] \in Ids'
                          /\ arcs'[i].parent \in 1..Len(sco')
                          /\ sco'[arcs'[i].parent].kind # "Condition"
        OBVIOUS
      <4>4. arcs'[i] = arcs[i + 1] /\ i + 1 \in 2..Len(arcs)
        BY <1>5
      <4> QED
        BY <4>1, <4>2, <4>3, <4>4
    <3>2. \A m \in 1..n : v[m].kind = "Jump" => v[m].dest \in 1..n \cup {0}
      BY <1>9
    <3>3. 1..Len(frames') = {}
      BY <1>1, <2>1
    <3> QED
      BY <3>1, <3>2, <3>3, <2>1, <1>4, <1>6, <1>10 DEF IdsAllocated
  <2>3. TypeOK'
    BY <2>1, <2>2, <1>1, <1>3, <1>4, <1>5, <1>6 DEF TypeOK
  <2>4. JumpsResolved'
    <3>1. \A i, j \in 1..Len(arcs') : arcs'[i].origin = arcs'[j].origin => i = j
      <4>1. \A i, j \in 1..Len(arcs) : arcs[i].origin = arcs[j].origin => i = j
        BY DEF IInv, JumpsResolved
      <4>2. \A i \in 2..Len(arcs) : i \in 1..Len(arcs)
        BY <1>2
      <4> QED
        BY <4>1, <4>2, <1>2, <1>5
    <3>2. ASSUME NEW i \in 1..Len(arcs')
          PROVE  arcs'[i].origin # 0 /\ vec'[arcs'[i].origin] = JumpNode
      <4>1. arcs'[i] = arcs[i + 1] /\ i + 1 \in 2..Len(arcs)
        BY <1>5
      <4>2. \A j \in 2..Len(arcs) : arcs[j].origin # 0 /\ v[arcs[j].origin] = JumpNode
        BY <1>8
      <4>3. vec' = v
        BY <2>1
      <4> QED
        BY <4>1, <4>2, <4>3
    <3>3. bdd'.root # 0
      BY <1>4, <1>6
    <3>4. ASSUME NEW m \in NodesOf("Jump")'
          PROVE  IF vec'[m].dest = 0 THEN \E i \in 1..Len(arcs') : arcs'[i].origin = m
                 ELSE vec'[vec'[m].dest].kind = "Condition"
      <4>1. m \in 1..n /\ v[m].kind = "Jump"
        BY <3>4, <2>1, <1>4 DEF NodesOf
      <4>2. CASE v[m].dest = 0
        <5>1. PICK i \in 2..Len(arcs) : arcs[i].origin = m
          BY <4>1, <4>2, <1>9
        <5>2. i - 1 \in 1..Len(arcs') /\ (i - 1) + 1 = i
          BY <1>2, <1>5
        <5> QED
          BY <5>1, <5>2, <4>2, <2>1, <1>5
      <4>3. CASE v[m].dest # 0
        BY <4>1, <4>3, <2>1, <1>9
      <4> QED
        BY <4>2, <4>3
    <3> QED
      BY <3>1, <3>2, <3>3, <3>4 DEF JumpsResolved
  <2>5. ArcsLeadDeeper'
    <3> SUFFICES ASSUME NEW i \in 1..Len(arcs'), NEW b \in BOOLEAN,
                        arcs'[i].dests[b] \notin Exits
                 PROVE  \E j \in (i + 1)..Len(arcs') :
                           arcs'[j].origin = arcs'[i].dests[b]
      BY DEF ArcsLeadDeeper
    <3>1. arcs'[i] = arcs[i + 1] /\ i + 1 \in 1..Len(arcs)
      BY <1>2, <1>5
    <3>2. PICK j \in (i + 2)..Len(arcs) : arcs[j].origin = arcs[i + 1].dests[b]
      BY <3>1 DEF IInv, ArcsLeadDeeper
    <3>3. j - 1 \in (i + 1)..Len(arcs') /\ j - 1 \in 1..Len(arcs') /\ (j - 1) + 1 = j
      BY <1>2, <1>5
    <3> QED
      BY <3>1, <3>2, <3>3, <1>5
  <2>6. ConditionsLeadForward' /\ ExitsFirst'
    BY <2>1, <1>4, <1>10, <1>11 DEF ConditionsLeadForward, ExitsFirst, NodesOf
  <2>7. ScanEnds'
    BY <2>1, <1>1, <1>4, <1>5, <1>6, <1>12 DEF ScanEnds
  <2>8. ForwardEdges' /\ FramesNested' /\ CountedNodesAdditive'
    BY <2>1, <1>1 DEF ForwardEdges, FramesNested, CountedNodesAdditive
  <2> QED
    BY <2>3, <2>4, <2>5, <2>6, <2>7, <2>8 DEF IInv
<1>13. CASE Len(arcs) = 1
  <2>1. /\ vec' = PatchJumps(v) /\ phase' = "enumerate" /\ arcs' = <<>>
        /\ frames' = <<VisitCall(root, 0, FALSE)>>
        /\ count' = [m \in 1..Len(v) |-> 0]
    BY <1>5, <1>13 DEF ProcessCondition, v, root
  <2>2. \A m \in 1..n : v[m].kind = "Jump" =>
          v[m].dest \in 1..n /\ v[v[m].dest].kind = "Condition"
    BY <1>9, <1>13
  <2>3. /\ vec' \in Seq(BDDNode) /\ Len(vec') = n
        /\ \A m \in 1..n :
             /\ vec'[m].kind = v[m].kind
             /\ v[m].kind = "Jump" => vec'[m].dest = v[m].dest
             /\ v[m].kind = "Condition" =>
                  \A b \in BOOLEAN : vec'[m].dests[b] = PatchJump(v, v[m].dests[b])
    <3>1. PICK w : w = vec'
      OBVIOUS
    <3>2. v \in Seq(BDDNode) /\ w = PatchJumps(v) /\ Len(v) = n
      BY <3>1, <2>1, <1>4
    <3>3. \A m \in 1..Len(v), b \in BOOLEAN :
            v[m].kind = "Condition" => v[m].dests[b] \in 1..Len(v)
      BY <3>2, <1>10
    <3>4. /\ w \in Seq(BDDNode) /\ Len(w) = Len(v)
          /\ \A m \in 1..Len(v) :
               /\ w[m].kind = v[m].kind
               /\ v[m].kind = "Jump" => w[m].dest = v[m].dest
               /\ v[m].kind = "Condition" =>
                    \A b \in BOOLEAN : w[m].dests[b] = PatchJump(v, v[m].dests[b])
      BY <3>2, <3>3, <2>2, PatchFacts
    <3> QED
      BY <3>1, <3>2, <3>4
  <2>4. ASSUME NEW m \in 1..n, v[m].kind = "Condition", NEW b \in BOOLEAN
        PROVE  LET d == vec'[m].dests[b]
               IN  d \in 1..n /\ (d \in Exits \/ (d > m /\ vec'[d].kind = "Condition"))
    <3> DEFINE d == v[m].dests[b]
    <3>1. d \in 1..n /\ vec'[m].dests[b] = PatchJump(v, d)
      BY <2>3, <2>4, <1>10
    <3>2. CASE d \in Exits
      <4>1. v[d].kind = "Outcome"
        BY <3>1, <3>2, <1>11
      <4>2. vec'[m].dests[b] = d
        BY <3>1, <4>1 DEF PatchJump
      <4> QED
        BY <3>1, <3>2, <4>2
    <3>3. CASE d \notin Exits
      <4>1. v[d].kind = "Jump" /\ (v[d].dest = 0 \/ v[d].dest > m)
        BY <2>4, <3>3, <1>10
      <4>2. v[d].dest \in 1..n /\ v[v[d].dest].kind = "Condition"
        BY <4>1, <3>1, <2>2
      <4>3. vec'[m].dests[b] = v[d].dest
        BY <3>1, <4>1 DEF PatchJump
      <4> QED
        BY <4>1, <4>2, <4>3, <2>3
    <3> QED
      BY <3>2, <3>3
  <2>5. /\ 1..Len(frames') = {1} /\ frames'[1].node = root
        /\ frames'[1].at = "enter" /\ frames' # <<>> /\ Len(frames') = 1
        /\ frames' \in Seq(CallType)
    <3>1. VisitCall(root, 0, FALSE) \in CallType
      BY <1>4 DEF VisitCall, CallType
    <3> QED
      BY <2>1, <3>1 DEF VisitCall
  <2>6. Ids' = 1..n /\ count' \in [1..n -> Nat] /\ \A m \in 1..n : count'[m] = 0
    BY <2>1, <2>3, <1>4 DEF Ids
  <2>7. IdsAllocated'
    <3>1. 1..Len(arcs') = {}
      BY <2>1
    <3>2. \A m \in 1..n : vec'[m].kind = "Jump" => vec'[m].dest \in 1..n
      BY <2>2, <2>3
    <3>3. \A m \in 1..n, b \in BOOLEAN :
            vec'[m].kind = "Condition" => vec'[m].dests[b] \in 1..n
      BY <2>3, <2>4
    <3> QED
      BY <3>1, <3>2, <3>3, <2>5, <2>6, <1>4, <1>6 DEF IdsAllocated
  <2>8. TypeOK'
    <3>1. /\ sco' \in Seq(SCODescriptor) /\ vec' \in Seq(BDDNode)
          /\ arcs' \in Seq(ArcType) /\ bdd' \in BDDType /\ frames' \in Seq(CallType)
      BY <2>3, <2>5, <1>3, <1>5, <1>6
    <3>2. phase' = "enumerate" /\ count' \in [Ids' -> Nat]
      BY <2>1, <2>6
    <3>3. Len(vec') >= 2
      BY <2>3, <1>1, <1>4
    <3> QED
      BY <3>1, <3>2, <3>3, <2>7 DEF TypeOK
  <2>9. JumpsResolved'
    <3>1. 1..Len(arcs') = {} /\ bdd'.root # 0
      BY <2>1, <1>4, <1>6
    <3>2. \A m \in 1..n : vec'[m].kind = "Jump" =>
            vec'[m].dest # 0 /\ vec'[vec'[m].dest].kind = "Condition"
      BY <2>2, <2>3
    <3> QED
      BY <3>1, <3>2, <2>3 DEF JumpsResolved, NodesOf
  <2>10. ForwardEdges'
    <3>1. Len(vec') = n /\ \A m \in 1..n : vec'[m].kind = v[m].kind
      BY <2>3
    <3>2. bdd'.root \in NodesOf("Condition")'
      BY <3>1, <1>4, <1>6 DEF NodesOf
    <3>3. ASSUME NEW m \in NodesOf("Condition")', NEW b \in BOOLEAN
          PROVE  LET d == vec'[m].dests[b]
                 IN  d \in Exits \/ (d > m /\ vec'[d].kind = "Condition")
      <4>1. m \in 1..n /\ v[m].kind = "Condition"
        BY <3>1, <3>3 DEF NodesOf
      <4> QED
        BY <2>4, <4>1
    <3>4. Exits' = Exits
      BY DEF Exits, ExitFalse, ExitTrue
    <3> QED
      BY <3>2, <3>3, <3>4 DEF ForwardEdges
  <2>11. ExitsFirst' /\ ScanEnds' /\ ArcsLeadDeeper' /\ ConditionsLeadForward'
    <3>1. ExitsFirst'
      BY <2>3, <2>6, <1>11 DEF ExitsFirst
    <3>2. ScanEnds'
      BY <2>1, <2>3, <1>4, <1>6 DEF ScanEnds
    <3>3. ArcsLeadDeeper' /\ ConditionsLeadForward'
      BY <2>1 DEF ArcsLeadDeeper, ConditionsLeadForward
    <3> QED
      BY <3>1, <3>2, <3>3
  <2>12. FramesNested'
    <3>1. /\ \A i \in 1..Len(frames') : i = 1 /\ ~(i > 1)
          /\ vec'[root].kind = "Condition"
          /\ Len(frames') = 1 /\ frames'[1].node = bdd'.root
          /\ phase' # "done" /\ frames' # <<>>
      <4>1. \A i \in 1..Len(frames') : i = 1 /\ ~(i > 1)
        BY <2>5
      <4>2. vec'[root].kind = "Condition"
        BY <2>3, <1>4
      <4> QED
        BY <4>1, <4>2, <2>1, <2>5, <1>6
    <3>2. \A i, j \in 1..Len(frames') : ~(i < j)
      BY <2>5
    <3> QED
      BY <3>1, <3>2, <2>5 DEF FramesNested, CallNested, CallsOrdered
  <2>13. CountedNodesAdditive'
    BY <2>3, <2>6 DEF CountedNodesAdditive, NodesOf
  <2> QED
    BY <2>8, <2>9, <2>10, <2>11, <2>12, <2>13 DEF IInv
<1> QED
  BY <1>12, <1>13
----------------------------------------------------------------------------
(* A step of Enumerate_Paths preserves the invariant.                      *)

\* What no step of the enumeration changes
NodesKept ==
  /\ sco' = sco /\ arcs' = arcs /\ bdd'.root = bdd.root
  /\ Len(vec') = Len(vec)
  /\ \A m \in Ids :
       /\ vec'[m].kind = vec[m].kind
       /\ vec[m].kind = "Condition" =>
            vec'[m].dests = vec[m].dests /\ vec'[m].csco = vec[m].csco
       /\ vec[m].kind # "Condition" => vec'[m] = vec[m]

LEMMA EnumerationKeeps ==
  ASSUME IInv, phase = "enumerate", phase' \in {"enumerate", "done"},
         NodesKept, vec' \in Seq(BDDNode), bdd' \in BDDType,
         frames' \in Seq(CallType),
         \A i \in 1..Len(frames') : frames'[i].node \in Ids,
         count' \in [Ids -> Nat], FramesNested', CountedNodesAdditive'
  PROVE  IInv'
<1>1. TypeOK /\ arcs = <<>> /\ Ids' = Ids /\ Ids = 1..Len(vec)
  BY DEF IInv, ScanEnds, NodesKept, Ids
<1>2. NodesOf("Condition")' = NodesOf("Condition")
      /\ NodesOf("Jump")' = NodesOf("Jump")
  BY <1>1 DEF NodesKept, NodesOf
<1>3. \A m \in NodesOf("Condition") : m \in Ids /\ vec'[m].dests = vec[m].dests
  BY DEF NodesKept, NodesOf, Ids
<1>4. \A m \in NodesOf("Jump") : m \in Ids /\ vec'[m] = vec[m]
  BY DEF NodesKept, NodesOf, Ids
<1>5. 1..Len(arcs') = {} /\ 1..Len(arcs) = {} /\ arcs' = <<>>
  BY <1>1 DEF NodesKept
<1>6. IdsAllocated'
  <2>1. ASSUME NEW n \in Ids
        PROVE  /\ vec'[n].kind = "Condition" =>
                    \A b \in BOOLEAN : vec'[n].dests[b] \in Ids
               /\ vec'[n].kind = "Jump" => vec'[n].dest \in Ids \cup {0}
    BY <1>1 DEF NodesKept, TypeOK, IdsAllocated
  <2>2. bdd'.root \in Ids \cup {0}
    BY <1>1 DEF NodesKept, TypeOK, IdsAllocated
  <2> QED
    BY <2>1, <2>2, <1>1, <1>5 DEF IdsAllocated
<1>7. TypeOK'
  <2>1. sco' \in Seq(SCODescriptor) /\ arcs' \in Seq(ArcType) /\ Len(vec') >= 2
    BY <1>1 DEF NodesKept, TypeOK
  <2> QED
    BY <2>1, <1>1, <1>6 DEF TypeOK
<1>8. JumpsResolved'
  <2>1. bdd.root # 0
    BY <1>1 DEF IInv, JumpsResolved
  <2>2. \A n \in NodesOf("Jump") :
          /\ vec[n].dest # 0 /\ vec[n].dest \in Ids
          /\ vec[vec[n].dest].kind = "Condition"
    BY <1>1, <1>4, <1>5 DEF IInv, JumpsResolved, TypeOK, IdsAllocated, NodesOf
  <2>3. \A n \in NodesOf("Jump") :
          vec'[n].dest # 0 /\ vec'[vec'[n].dest].kind = "Condition"
    BY <2>2, <1>4 DEF NodesKept
  <2> QED
    BY <2>1, <2>3, <1>2, <1>5 DEF JumpsResolved, NodesKept
<1>9. ForwardEdges'
  <2>1. bdd.root \in NodesOf("Condition") /\ bdd'.root = bdd.root
    BY DEF IInv, ForwardEdges, NodesKept
  <2>2. ASSUME NEW n \in NodesOf("Condition"), NEW b \in BOOLEAN
        PROVE  \/ vec'[n].dests[b] \in Exits
               \/ vec'[n].dests[b] > n /\ vec'[vec'[n].dests[b]].kind = "Condition"
    <3>1. vec'[n].dests[b] = vec[n].dests[b] /\ vec[n].dests[b] \in Ids
      BY <1>1, <1>3 DEF TypeOK, IdsAllocated, NodesOf
    <3>2. \/ vec[n].dests[b] \in Exits
          \/ vec[n].dests[b] > n /\ vec[vec[n].dests[b]].kind = "Condition"
      BY DEF IInv, ForwardEdges
    <3> QED
      BY <3>1, <3>2 DEF NodesKept
  <2> QED
    BY <2>1, <2>2, <1>2 DEF ForwardEdges
<1>10. ExitsFirst' /\ ArcsLeadDeeper' /\ ConditionsLeadForward'
  BY <1>1, <1>5
  DEF IInv, ExitsFirst, ArcsLeadDeeper, ConditionsLeadForward, NodesKept
<1>11. ScanEnds'
  BY <1>1, <1>5 DEF IInv, ScanEnds, NodesKept, TypeOK, IdsAllocated
<1> QED
  BY <1>7, <1>8, <1>9, <1>10, <1>11 DEF IInv

\* The innermost call, and what the invariant says of it
LEMMA InnermostCall ==
  ASSUME IInv, phase = "enumerate", frames # <<>>
  PROVE  /\ Len(frames) \in Nat \ {0} /\ 1 \in 1..Len(frames)
         /\ Frame = frames[1] /\ Frame \in CallType /\ Frame.node \in Ids
         /\ frames \in Seq(CallType) /\ count \in [Ids -> Nat]
         /\ vec \in Seq(BDDNode) /\ bdd \in BDDType /\ Ids = 1..Len(vec)
         /\ vec[Frame.node].kind # "Jump"
<1>1. frames \in Seq(CallType)
  BY DEF IInv, TypeOK
<1>2. /\ Len(frames) \in Nat \ {0} /\ 1 \in 1..Len(frames)
      /\ Frame = frames[1] /\ Frame \in CallType
  BY <1>1, Pop DEF Frame
<1>3. Frame.node \in Ids
  BY <1>2 DEF IInv, TypeOK, IdsAllocated
<1>4. vec[Frame.node].kind # "Jump"
  BY <1>2 DEF IInv, FramesNested, CallNested
<1> QED
  BY <1>1, <1>2, <1>3, <1>4 DEF IInv, TypeOK, Ids

\* Edges do not depend on what the enumeration stores on nodes
LEMMA EdgesKept ==
  ASSUME NodesKept, NEW n \in NodesOf("Condition"), NEW b \in BOOLEAN
  PROVE  /\ EdgeTaken(n, b)' = EdgeTaken(n, b)
         /\ vec'[n].dests[b] = vec[n].dests[b]
  BY DEF NodesKept, EdgeTaken, NodesOf, Ids

\* Where the edges of a condition lead, and that they lead forward
LEMMA EdgeTargets ==
  ASSUME IInv, phase # "scan", NEW n \in NodesOf("Condition"), NEW b \in BOOLEAN
  PROVE  LET d == vec[n].dests[b]
         IN  /\ d \in Ids /\ d # n
             /\ vec[d].kind = "Outcome" \/ (vec[d].kind = "Condition" /\ d > n)
<1>1. n \in Ids /\ n \in Nat /\ vec[n].kind = "Condition"
  BY DEF NodesOf, Ids, IInv, TypeOK
<1>2. vec[n].dests[b] \in Ids
  BY <1>1 DEF IInv, TypeOK, IdsAllocated
<1>3. \/ vec[n].dests[b] \in Exits
      \/ vec[n].dests[b] > n /\ vec[vec[n].dests[b]].kind = "Condition"
  BY DEF IInv, ForwardEdges
<1>4. vec[n].dests[b] \in Exits => vec[vec[n].dests[b]].kind = "Outcome"
  BY <1>2 DEF IInv, ExitsFirst
<1> QED
  BY <1>1, <1>2, <1>3, <1>4

\* A call returns: its caller has now explored the edge it moved past
LEMMA ReturnNested ==
  ASSUME IInv, phase = "enumerate", frames # <<>>, NodesKept,
         phase' = "enumerate", frames' = Tail(frames), count' \in [Ids -> Nat],
         \A m \in Ids : m # Frame.node => count'[m] = count[m],
         count'[Frame.node] > 0
  PROVE  FramesNested'
<1>1. /\ Len(frames) \in Nat \ {0} /\ 1 \in 1..Len(frames) /\ Frame = frames[1]
      /\ Frame.node \in Ids /\ frames \in Seq(CallType) /\ count \in [Ids -> Nat]
  BY InnermostCall
<1>2. /\ Len(frames') = Len(frames) - 1 /\ (frames' = <<>> <=> Len(frames) = 1)
      /\ \A i \in 1..Len(frames') :
           /\ frames'[i] = frames[i + 1] /\ i + 1 \in 2..Len(frames)
           /\ i + 1 \in 1..Len(frames) /\ i + 1 > 1 /\ (i + 1) - 1 = i
           /\ i \in 1..Len(frames)
  BY <1>1, Pop
<1>3. \A m \in Ids : count[m] > 0 => count'[m] > 0
  OBVIOUS
<1>4. ASSUME NEW n \in NodesOf("Condition"), NEW b \in BOOLEAN
      PROVE  /\ Explored(n, b) => Explored(n, b)'
             /\ Frame.node = vec[n].dests[b] => Explored(n, b)'
  <2>1. /\ EdgeTaken(n, b)' = EdgeTaken(n, b)
        /\ vec'[n].dests[b] = vec[n].dests[b]
    BY EdgesKept
  <2>2. vec[n].dests[b] \in Ids
    BY EdgeTargets
  <2> QED
    BY <2>1, <2>2, <1>3 DEF Explored
<1>5. ASSUME NEW i \in 1..Len(frames'), NEW f, f = frames'[i]
      PROVE  /\ f = frames[i + 1] /\ f.at \in {"true", "return"}
             /\ f.node \in NodesOf("Condition") /\ f.node \in Ids /\ f.node \in Nat
             /\ vec[f.node].kind = "Condition" /\ count[f.node] = 0
             /\ f.at = "true" => frames[i].node = vec[f.node].dests[FALSE]
             /\ f.at = "return" => /\ frames[i].node = vec[f.node].dests[TRUE]
                                   /\ Explored(f.node, FALSE)
  <2>1. f = frames[i + 1] /\ i + 1 \in 1..Len(frames) /\ i + 1 > 1
        /\ (i + 1) - 1 = i
    BY <1>2, <1>5
  <2>2. f.node \in Ids /\ f.node \in Nat
    BY <2>1 DEF IInv, TypeOK, IdsAllocated, Ids
  <2>3. CallNested(i + 1)
    BY <2>1 DEF IInv, FramesNested
  <2> QED
    BY <2>1, <2>2, <2>3 DEF CallNested, NodesOf, Ids
<1>6. ASSUME NEW i \in 1..Len(frames') PROVE frames'[i].node # Frame.node
  <2>0. PICK f : f = frames'[i]
    OBVIOUS
  <2>1. /\ f = frames[i + 1] /\ f.node \in Nat /\ i + 1 \in 2..Len(frames)
        /\ vec[f.node].kind = "Condition" /\ i \in Nat \ {0}
    <3>1. f = frames[i + 1] /\ f.node \in Nat /\ vec[f.node].kind = "Condition"
      BY <2>0, <1>5
    <3> QED
      BY <3>1, <1>1, <1>2
  <2>2. Frame.node \in Nat
    BY <1>1 DEF Ids
  <2>3. CASE Frame.at = "enter" /\ vec[Frame.node].kind = "Condition"
    <3>0. PICK g : g = frames'[1]
      OBVIOUS
    <3>1. 1 \in 1..Len(frames') /\ 1 + 1 = 2 /\ 2 \in 1..Len(frames)
      BY <2>1, <1>1, <1>2
    <3>2. /\ g = frames[2] /\ g.node \in NodesOf("Condition") /\ g.node \in Nat
          /\ g.at \in {"true", "return"}
          /\ \/ frames[1].node = vec[g.node].dests[FALSE]
             \/ frames[1].node = vec[g.node].dests[TRUE]
      <4>1. /\ g = frames[1 + 1] /\ g.at \in {"true", "return"}
            /\ g.node \in NodesOf("Condition") /\ g.node \in Nat
            /\ g.at = "true" => frames[1].node = vec[g.node].dests[FALSE]
            /\ g.at = "return" => frames[1].node = vec[g.node].dests[TRUE]
        BY <3>0, <3>1, <1>5
      <4> QED
        BY <4>1, <3>1
    <3>3. Frame.node > g.node
      BY <3>2, <2>3, <1>1, EdgeTargets
    <3>4. i = 1 \/ g.node > frames[i + 1].node
      BY <3>1, <3>2, <2>1 DEF IInv, FramesNested, CallsOrdered
    <3> QED
      BY <3>2, <3>3, <3>4, <2>0, <2>1, <2>2
  <2>4. CASE Frame.at # "enter"
    <3>1. frames[1].node > frames[i + 1].node
      BY <2>1, <2>4, <1>1, <1>2 DEF IInv, FramesNested, CallsOrdered
    <3> QED
      BY <3>1, <2>0, <2>1, <2>2, <1>1
  <2>5. CASE vec[Frame.node].kind # "Condition"
    BY <2>0, <2>1, <2>5
  <2> QED
    BY <2>3, <2>4, <2>5
<1>7. ASSUME NEW i \in 1..Len(frames') PROVE CallNested(i)'
  <2>0. PICK f : f = frames'[i]
    OBVIOUS
  <2>1. /\ f.at \in {"true", "return"} /\ f.node \in NodesOf("Condition")
        /\ f.node \in Ids /\ count[f.node] = 0
        /\ f.at = "true" => frames[i].node = vec[f.node].dests[FALSE]
        /\ f.at = "return" => /\ frames[i].node = vec[f.node].dests[TRUE]
                              /\ Explored(f.node, FALSE)
    BY <2>0, <1>5
  <2>2. vec'[f.node].kind = "Condition" /\ vec'[f.node].dests = vec[f.node].dests
    BY <2>1 DEF NodesKept, NodesOf
  <2>3. count'[f.node] = 0
    BY <2>0, <2>1, <1>6
  <2>4. i > 1 => frames'[i - 1] = frames[i]
    <3>1. i > 1 => i - 1 \in 1..Len(frames') /\ (i - 1) + 1 = i
      BY <1>1, <1>2
    <3> QED
      BY <3>1, <1>2
  <2>5. f.at = "return" => Explored(f.node, FALSE)'
    BY <2>1, <1>4
  <2>6. i = 1 /\ f.at = "true" => Explored(f.node, FALSE)'
    BY <2>1, <1>1, <1>4
  <2>7. i = 1 /\ f.at = "return" => Explored(f.node, TRUE)'
    BY <2>1, <1>1, <1>4
  <2> QED
    BY <2>0, <2>1, <2>2, <2>3, <2>4, <2>5, <2>6, <2>7 DEF CallNested
<1>8. CallsOrdered'
  <2> SUFFICES ASSUME NEW i \in 1..Len(frames'), NEW j \in 1..Len(frames'), i < j,
                      frames'[i].at # "enter"
               PROVE  frames'[i].node > frames'[j].node
    BY DEF CallsOrdered
  <2> QED
    BY <1>1, <1>2 DEF IInv, FramesNested, CallsOrdered
<1>9. frames' # <<>> => frames'[Len(frames')].node = bdd'.root
  <2> SUFFICES ASSUME frames' # <<>> PROVE frames'[Len(frames')].node = bdd'.root
    OBVIOUS
  <2>1. Len(frames') \in 1..Len(frames') /\ Len(frames') + 1 = Len(frames)
    BY <1>1, <1>2
  <2> QED
    BY <2>1, <1>2 DEF IInv, FramesNested, NodesKept
<1>10. frames' = <<>> => count'[bdd'.root] > 0
  BY <1>1, <1>2 DEF IInv, FramesNested, NodesKept
<1> QED
  BY <1>7, <1>8, <1>9, <1>10 DEF FramesNested
\* A count, once positive, does not change: what was additive remains so
LEMMA AdditiveKept ==
  ASSUME IInv, phase = "enumerate", NodesKept,
         NEW n \in NodesOf("Condition"), count[n] > 0,
         vec'[n].offset = vec[n].offset,
         \A m \in Ids : count[m] > 0 => count'[m] = count[m]
  PROVE  Additive(n)'
<1>1. Additive(n) /\ n \in Ids
  BY DEF IInv, CountedNodesAdditive, NodesOf, Ids
<1>2. ASSUME NEW b \in BOOLEAN, Explored(n, b)
      PROVE  Explored(n, b)' /\ EdgeCount(n, b)' = EdgeCount(n, b)
  <2>1. /\ EdgeTaken(n, b)' = EdgeTaken(n, b)
        /\ vec'[n].dests[b] = vec[n].dests[b]
    BY EdgesKept
  <2>2. vec[n].dests[b] \in Ids
    BY EdgeTargets
  <2> QED
    BY <2>1, <2>2, <1>2 DEF Explored, EdgeCount
<1> QED
  BY <1>1, <1>2 DEF Additive

LEMMA VisitOutcomeInv == IInv /\ VisitOutcome => IInv' /\ NodesKept
<1> SUFFICES ASSUME IInv, VisitOutcome PROVE IInv' /\ NodesKept
  OBVIOUS
<1> DEFINE k == Frame.node
<1>1. /\ phase = "enumerate" /\ frames # <<>> /\ phase' = "enumerate"
      /\ vec[k].kind = "Outcome" /\ UNCHANGED <<sco, vec, arcs>>
      /\ bdd' = [bdd EXCEPT !.reachable[vec[k].outcome] = TRUE]
      /\ count' = [count EXCEPT ![k] = 1] /\ frames' = Tail(frames)
  BY DEF VisitOutcome
<1>2. /\ Len(frames) \in Nat \ {0} /\ k \in Ids /\ frames \in Seq(CallType)
      /\ count \in [Ids -> Nat] /\ vec \in Seq(BDDNode) /\ bdd \in BDDType
      /\ Ids = 1..Len(vec)
  BY <1>1, InnermostCall
<1>3. bdd' \in BDDType /\ bdd'.root = bdd.root
  <2>1. vec[k].outcome \in BOOLEAN
    <3> HIDE DEF k
    <3>0. vec[k] \in BDDNode /\ vec[k].kind = "Outcome"
      BY <1>1, <1>2
    <3>1. vec[k] \in OutcomeNodeType
      BY <3>0 DEF BDDNode, JumpNodeType, ConditionNodeType
    <3> QED
      BY <3>1 DEF OutcomeNodeType
  <2> QED
    BY <2>1, <1>1, <1>2 DEF BDDType
<1>4. NodesKept
  BY <1>1, <1>3 DEF NodesKept
<1> HIDE DEF k
<1>5. /\ count' \in [Ids -> Nat] /\ count'[k] = 1
      /\ \A m \in Ids : m # k => count'[m] = count[m]
  BY <1>1, <1>2
<1>6. /\ frames' \in Seq(CallType)
      /\ \A i \in 1..Len(frames') : frames'[i].node \in Ids
  <2>1. \A i \in 1..Len(frames) : frames[i].node \in Ids
    BY DEF IInv, TypeOK, IdsAllocated
  <2> QED
    BY <2>1, <1>1, <1>2, Pop
<1>7. FramesNested'
  BY <1>1, <1>4, <1>5, ReturnNested DEF k
<1>8. CountedNodesAdditive'
  <2>1. count[k] \in {0, 1}
    BY <1>1, <1>2 DEF IInv, CountedNodesAdditive, NodesOf, k
  <2>2. \A m \in Ids : count[m] > 0 => count'[m] = count[m]
    BY <2>1, <1>5
  <2>3. ASSUME NEW n \in NodesOf("Condition"), count'[n] > 0
        PROVE  Additive(n)'
    <3>1. n \in Ids /\ n # k
      BY <1>1 DEF NodesOf, Ids, k
    <3>2. count[n] > 0
      BY <2>3, <3>1, <1>5
    <3> QED
      BY <3>2, <2>2, <1>1, <1>4, AdditiveKept
  <2>4. \A n \in NodesOf("Outcome") : count'[n] \in {0, 1}
    <3>1. \A n \in NodesOf("Outcome") : n \in Ids /\ count[n] \in {0, 1}
      BY <1>1 DEF IInv, CountedNodesAdditive, NodesOf, Ids
    <3> QED
      BY <3>1, <1>5
  <2>5. NodesOf("Condition")' = NodesOf("Condition")
        /\ NodesOf("Outcome")' = NodesOf("Outcome")
    BY <1>1 DEF NodesOf
  <2> QED
    BY <2>3, <2>4, <2>5 DEF CountedNodesAdditive
<1> QED
  BY <1>1, <1>2, <1>3, <1>4, <1>5, <1>6, <1>7, <1>8, EnumerationKeeps

LEMMA VisitAgainInv == IInv /\ VisitAgain => IInv' /\ NodesKept
<1> SUFFICES ASSUME IInv, VisitAgain PROVE IInv' /\ NodesKept
  OBVIOUS
<1> DEFINE k == Frame.node
<1>1. /\ phase = "enumerate" /\ frames # <<>> /\ phase' = "enumerate"
      /\ count[k] > 0 /\ UNCHANGED <<sco, vec, arcs, count>>
      /\ bdd' = [bdd EXCEPT !.firstMultipath = IF @ = 0 THEN k ELSE @]
      /\ frames' = Tail(frames)
  BY DEF VisitAgain
<1>2. /\ Len(frames) \in Nat \ {0} /\ k \in Ids /\ frames \in Seq(CallType)
      /\ count \in [Ids -> Nat] /\ vec \in Seq(BDDNode) /\ bdd \in BDDType
      /\ Ids = 1..Len(vec) /\ Len(vec) \in Nat
  BY <1>1, InnermostCall
<1>3. bdd' \in BDDType /\ bdd'.root = bdd.root
  <2> DEFINE m == IF bdd.firstMultipath = 0 THEN k ELSE bdd.firstMultipath
  <2>1. m \in Nat /\ bdd' = [bdd EXCEPT !.firstMultipath = m]
    BY <1>1, <1>2 DEF BDDType
  <2> HIDE DEF m
  <2> QED
    BY <2>1, <1>2 DEF BDDType
<1>4. NodesKept
  BY <1>1, <1>3 DEF NodesKept
<1> HIDE DEF k
<1>5. /\ frames' \in Seq(CallType)
      /\ \A i \in 1..Len(frames') : frames'[i].node \in Ids
  <2>1. \A i \in 1..Len(frames) : frames[i].node \in Ids
    BY DEF IInv, TypeOK, IdsAllocated
  <2> QED
    BY <2>1, <1>1, <1>2, Pop
<1>6. FramesNested'
  BY <1>1, <1>2, <1>4, ReturnNested DEF k
<1>7. CountedNodesAdditive'
  BY <1>1
  DEF IInv, CountedNodesAdditive, NodesOf, Additive, EdgeCount, EdgeTaken, Explored
<1> QED
  BY <1>1, <1>2, <1>3, <1>4, <1>5, <1>6, <1>7, EnumerationKeeps

LEMMA VisitReturnInv == IInv /\ VisitReturn => IInv' /\ NodesKept
<1> SUFFICES ASSUME IInv, VisitReturn PROVE IInv' /\ NodesKept
  OBVIOUS
<1> DEFINE k == Frame.node
           x == [vec[k] EXCEPT !.offset = PathOffset(k)]
           e(b) == EdgeCount(k, b)
<1>1. /\ phase = "enumerate" /\ frames # <<>> /\ phase' = "enumerate"
      /\ Frame.at = "return" /\ UNCHANGED <<sco, arcs, bdd>>
      /\ vec' = [vec EXCEPT ![k] = x]
      /\ count' = [count EXCEPT ![k] = e(FALSE) + e(TRUE)]
      /\ frames' = Tail(frames)
  BY DEF VisitReturn
<1>2. /\ Len(frames) \in Nat \ {0} /\ k \in Ids /\ frames \in Seq(CallType)
      /\ count \in [Ids -> Nat] /\ vec \in Seq(BDDNode) /\ bdd \in BDDType
      /\ Ids = 1..Len(vec) /\ Frame = frames[1] /\ 1 \in 1..Len(frames)
      /\ Len(vec) \in Nat
  BY <1>1, InnermostCall
<1>3. /\ vec[k].kind = "Condition" /\ count[k] = 0 /\ k \in NodesOf("Condition")
      /\ Explored(k, FALSE) /\ Explored(k, TRUE)
  <2>1. CallNested(1)
    BY <1>1, <1>2 DEF IInv, FramesNested
  <2> QED
    BY <2>1, <1>1, <1>2 DEF CallNested, NodesOf
<1>4. \A b \in BOOLEAN : /\ vec[k].dests[b] \in Ids /\ vec[k].dests[b] # k
                         /\ e(b) \in Nat
                         /\ EdgeTaken(k, b) => e(b) > 0
  <2>1. \A b \in BOOLEAN : vec[k].dests[b] \in Ids /\ vec[k].dests[b] # k
    BY <1>1, <1>3, EdgeTargets
  <2>2. \A b \in BOOLEAN : EdgeTaken(k, b) => count[vec[k].dests[b]] > 0
    BY <1>3 DEF Explored
  <2> QED
    BY <2>1, <2>2, <1>2 DEF EdgeCount
<1>5. EdgeTaken(k, FALSE) \/ EdgeTaken(k, TRUE)
  BY DEF EdgeTaken, ToTristate
<1>6. x \in BDDNode /\ x.kind = "Condition" /\ x.dests = vec[k].dests
      /\ x.csco = vec[k].csco /\ x.offset = e(FALSE)
  <2>1. vec[k] \in ConditionNodeType /\ PathOffset(k) = e(FALSE)
    BY <1>2, <1>3 DEF BDDNode, OutcomeNodeType, JumpNodeType, PathOffset
  <2>2. PathOffset(k) \in Nat
    BY <2>1, <1>4
  <2> QED
    BY <2>1, <2>2 DEF BDDNode, ConditionNodeType
<1> HIDE DEF x, k, e
<1>7. /\ vec' \in Seq(BDDNode) /\ Len(vec') = Len(vec) /\ vec'[k] = x
      /\ \A m \in Ids : m # k => vec'[m] = vec[m]
  BY <1>1, <1>2, <1>6, UpdateFacts
<1>8. NodesKept
  <2>1. \A m \in Ids : m = k \/ vec'[m] = vec[m]
    BY <1>7
  <2> QED
    BY <2>1, <1>1, <1>3, <1>6, <1>7 DEF NodesKept
<1>9. /\ count' \in [Ids -> Nat] /\ count'[k] = e(FALSE) + e(TRUE) /\ count'[k] > 0
      /\ \A m \in Ids : m # k => count'[m] = count[m]
  <2>1. PICK p, q : p = e(FALSE) /\ q = e(TRUE)
    OBVIOUS
  <2>2. p \in Nat /\ q \in Nat /\ (p > 0 \/ q > 0)
    BY <2>1, <1>4, <1>5
  <2>3. PICK t : t = p + q
    OBVIOUS
  <2>4. count' = [count EXCEPT ![k] = t]
    BY <2>1, <2>3, <1>1
  <2>5. t \in Nat /\ t > 0
    BY <2>2, <2>3
  <2> QED
    BY <2>1, <2>3, <2>4, <2>5, <1>2
<1>10. /\ frames' \in Seq(CallType)
       /\ \A i \in 1..Len(frames') : frames'[i].node \in Ids
  <2>1. \A i \in 1..Len(frames) : frames[i].node \in Ids
    BY DEF IInv, TypeOK, IdsAllocated
  <2> QED
    BY <2>1, <1>1, <1>2, Pop
<1>11. FramesNested'
  BY <1>1, <1>8, <1>9, ReturnNested DEF k
<1>12. CountedNodesAdditive'
  <2>1. NodesOf("Condition")' = NodesOf("Condition")
        /\ NodesOf("Outcome")' = NodesOf("Outcome")
    BY <1>2, <1>8 DEF NodesKept, NodesOf, Ids
  <2>2. \A m \in Ids : count[m] > 0 => count'[m] = count[m]
    BY <1>3, <1>9
  <2>3. ASSUME NEW n \in NodesOf("Condition"), count'[n] > 0
        PROVE  Additive(n)'
    <3>1. n \in Ids
      BY DEF NodesOf, Ids
    <3>2. CASE n = k
      <4>2. \A b \in BOOLEAN : count'[vec[k].dests[b]] = count[vec[k].dests[b]]
        BY <1>4, <1>9
      <4>3. PICK q : q = k
        OBVIOUS
      <4>4. \A b \in BOOLEAN : EdgeCount(q, b)' = e(b) /\ (Explored(q, b) => Explored(q, b)')
        <5>1. \A b \in BOOLEAN : /\ EdgeTaken(q, b)' = EdgeTaken(q, b)
                                 /\ vec'[q].dests[b] = vec[q].dests[b]
          BY <1>3, <1>8, <4>3, EdgesKept
        <5> QED
          BY <5>1, <4>2, <4>3 DEF EdgeCount, Explored, e
      <4>5. Explored(q, FALSE) /\ Explored(q, TRUE)
        BY <4>3, <1>3
      <4>6. Additive(q)'
        BY <4>3, <4>4, <4>5, <1>6, <1>7, <1>9 DEF Additive
      <4> QED
        BY <4>3, <4>6, <3>2
    <3>3. CASE n # k
      <4>1. count[n] > 0 /\ vec'[n].offset = vec[n].offset
        BY <2>3, <3>1, <3>3, <1>7, <1>9
      <4> QED
        BY <4>1, <2>2, <1>1, <1>8, AdditiveKept
    <3> QED
      BY <3>2, <3>3
  <2>4. \A n \in NodesOf("Outcome") : count'[n] \in {0, 1}
    <3>1. \A n \in NodesOf("Outcome") : n \in Ids /\ n # k /\ count[n] \in {0, 1}
      BY <1>1, <1>3 DEF IInv, CountedNodesAdditive, NodesOf, Ids
    <3> QED
      BY <3>1, <1>9
  <2> QED
    BY <2>1, <2>3, <2>4 DEF CountedNodesAdditive
<1>13. bdd' \in BDDType
  BY <1>1, <1>2
<1> QED
  BY <1>1, <1>7, <1>8, <1>9, <1>10, <1>11, <1>12, <1>13, EnumerationKeeps
LEMMA VisitFirstInv == IInv /\ VisitFirst => IInv' /\ NodesKept
<1> SUFFICES ASSUME IInv, VisitFirst PROVE IInv' /\ NodesKept
  OBVIOUS
<1> DEFINE k == Frame.node
           x == [vec[k] EXCEPT !.parent = Frame.origin, !.parentValue = Frame.value]
           f == [Frame EXCEPT !.at = "false"]
<1>1. /\ phase = "enumerate" /\ frames # <<>> /\ phase' = "enumerate"
      /\ Frame.at = "enter" /\ UNCHANGED <<sco, arcs, bdd, count>>
      /\ vec[k].kind = "Condition" /\ count[k] = 0
      /\ vec' = [vec EXCEPT ![k].parent = Frame.origin, ![k].parentValue = Frame.value]
      /\ frames' = <<f>> \o Tail(frames)
  BY DEF VisitFirst
<1>2. /\ Len(frames) \in Nat \ {0} /\ k \in Ids /\ frames \in Seq(CallType)
      /\ count \in [Ids -> Nat] /\ vec \in Seq(BDDNode) /\ bdd \in BDDType
      /\ Ids = 1..Len(vec) /\ Frame = frames[1] /\ 1 \in 1..Len(frames)
      /\ Len(vec) \in Nat /\ Frame \in CallType
  BY <1>1, InnermostCall
<1>3. /\ x \in BDDNode /\ x.kind = "Condition" /\ x.dests = vec[k].dests
      /\ x.csco = vec[k].csco /\ x.offset = vec[k].offset
  <2>1. vec[k] \in ConditionNodeType
    <3> HIDE DEF k
    <3>1. vec[k] \in BDDNode /\ vec[k].kind = "Condition"
      BY <1>1, <1>2
    <3> QED
      BY <3>1 DEF BDDNode, OutcomeNodeType, JumpNodeType
  <2>2. Frame.origin \in Nat /\ Frame.value \in BOOLEAN
    BY <1>2 DEF CallType
  <2> QED
    BY <2>1, <2>2 DEF BDDNode, ConditionNodeType
<1>4. f \in CallType /\ f.node = k /\ f.at = "false"
  BY <1>2 DEF CallType
<1>5. vec' = [vec EXCEPT ![k] = x]
  BY <1>1, <1>2
<1> HIDE DEF x, f, k
<1>6. /\ vec' \in Seq(BDDNode) /\ Len(vec') = Len(vec) /\ vec'[k] = x
      /\ \A m \in Ids : m # k => vec'[m] = vec[m]
  BY <1>2, <1>3, <1>5, UpdateFacts
<1>7. \A m \in Ids : m = k \/ vec'[m] = vec[m]
  BY <1>6
<1>8. NodesKept
  BY <1>7, <1>1, <1>3, <1>6 DEF NodesKept
<1>9. /\ frames' \in Seq(CallType) /\ Len(frames') = Len(frames) /\ frames' # <<>>
      /\ frames'[1] = f /\ \A i \in 2..Len(frames) : frames'[i] = frames[i]
  BY <1>1, <1>2, <1>4, PopPush1
<1>10. \A i \in 1..Len(frames) : i = 1 \/ (i \in 2..Len(frames) /\ i > 1)
  BY <1>2
<1>11. /\ \A i \in 1..Len(frames) : frames'[i].node = frames[i].node
       /\ frames[1].node = k
  BY <1>2, <1>4, <1>9, <1>10 DEF k
<1>12. \A i \in 1..Len(frames') : frames'[i].node \in Ids
  BY <1>9, <1>11 DEF IInv, TypeOK, IdsAllocated
<1>13. ASSUME NEW n \in NodesOf("Condition"), NEW b \in BOOLEAN
       PROVE  /\ Explored(n, b)' = Explored(n, b)
              /\ EdgeCount(n, b)' = EdgeCount(n, b)
  <2>1. /\ EdgeTaken(n, b)' = EdgeTaken(n, b)
        /\ vec'[n].dests[b] = vec[n].dests[b]
    BY <1>8, EdgesKept
  <2> QED
    BY <2>1, <1>1 DEF Explored, EdgeCount
<1>14. FramesNested'
  <2>1. ASSUME NEW i \in 1..Len(frames') PROVE CallNested(i)'
    <3>1. CASE i = 1
      <4>1. vec'[k].kind = "Condition" /\ count'[k] = 0
        BY <1>1, <1>3, <1>6 DEF k
      <4>2. PICK g : g = frames'[i]
        OBVIOUS
      <4>3. g.node = k /\ g.at = "false" /\ ~(i > 1)
        BY <4>2, <3>1, <1>4, <1>9
      <4> QED
        BY <4>1, <4>2, <4>3 DEF CallNested
    <3>2. CASE i \in 2..Len(frames)
      <4>0. PICK g : g = frames[i]
        OBVIOUS
      <4>1. /\ g = frames'[i] /\ g = frames[i] /\ i > 1 /\ g.node \in Ids
            /\ frames'[i - 1].node = frames[i - 1].node
        <5>1. i - 1 \in 1..Len(frames) /\ i > 1 /\ i \in 1..Len(frames)
          BY <3>2, <1>2
        <5> QED
          BY <5>1, <4>0, <3>2, <1>9, <1>11 DEF IInv, TypeOK, IdsAllocated
      <4>2. CallNested(i)
        BY <3>2, <1>1, <1>9, <2>1 DEF IInv, FramesNested
      <4>3. g.node \in NodesOf("Condition") /\ g.at \in {"true", "return"}
        BY <4>1, <4>2 DEF CallNested, NodesOf, Ids
      <4>4. vec'[g.node].kind = vec[g.node].kind /\ vec'[g.node].dests = vec[g.node].dests
        BY <4>1, <4>3, <1>8 DEF NodesKept, NodesOf
      <4>5. Explored(g.node, FALSE)' = Explored(g.node, FALSE)
        BY <4>3, <1>13
      <4>6. /\ g.at = "true" => frames[i - 1].node = vec[g.node].dests[FALSE]
            /\ g.at = "return" => /\ frames[i - 1].node = vec[g.node].dests[TRUE]
                                  /\ Explored(g.node, FALSE)
            /\ vec[g.node].kind = "Condition" /\ count[g.node] = 0
        BY <4>1, <4>2, <4>3 DEF CallNested
      <4>7. i > 1 /\ i # 1 /\ count' = count
        BY <3>2, <1>1, <1>2
      <4> QED
        BY <4>1, <4>3, <4>4, <4>5, <4>6, <4>7 DEF CallNested
    <3> QED
      BY <3>1, <3>2, <1>9, <1>10
  <2>2. CallsOrdered'
    <3> SUFFICES ASSUME NEW i \in 1..Len(frames), NEW j \in 1..Len(frames), i < j,
                        frames'[i].at # "enter"
                 PROVE  frames[i].node > frames[j].node
      BY <1>9, <1>11 DEF CallsOrdered
    <3>1. CASE i # 1
      BY <3>1, <1>1, <1>9, <1>10 DEF IInv, FramesNested, CallsOrdered
    <3>2. CASE i = 1
      <4>0. PICK g : g = frames[2]
        OBVIOUS
      <4>1. 2 \in 1..Len(frames) /\ 2 - 1 = 1 /\ 2 > 1 /\ j \in 2..Len(frames)
        BY <3>2, <1>2
      <4>2. CallNested(2)
        BY <4>1, <1>1 DEF IInv, FramesNested
      <4>3. /\ g.at \in {"true", "return"} /\ vec[g.node].kind = "Condition"
            /\ \/ k = vec[g.node].dests[FALSE]
               \/ k = vec[g.node].dests[TRUE]
        BY <4>0, <4>1, <4>2, <1>11 DEF CallNested
      <4>4. g.node \in NodesOf("Condition")
        BY <4>0, <4>1, <4>3 DEF IInv, TypeOK, IdsAllocated, NodesOf, Ids
      <4>5. k > g.node
        BY <4>3, <4>4, <1>1, EdgeTargets DEF k
      <4>6. j = 2 \/ g.node > frames[j].node
        BY <4>0, <4>1, <4>3, <1>1 DEF IInv, FramesNested, CallsOrdered
      <4>7. k \in Nat /\ g.node \in Nat /\ frames[j].node \in Nat
        BY <4>0, <4>1, <1>2 DEF IInv, TypeOK, IdsAllocated, Ids
      <4> QED
        BY <4>0, <4>5, <4>6, <4>7, <3>2, <1>11
    <3> QED
      BY <3>1, <3>2
  <2>3. frames'[Len(frames')].node = bdd'.root
    <3>1. Len(frames) \in 1..Len(frames)
      BY <1>2
    <3> QED
      BY <3>1, <1>1, <1>9, <1>11 DEF IInv, FramesNested
  <2> QED
    BY <2>1, <2>2, <2>3, <1>1, <1>9 DEF FramesNested
<1>15. CountedNodesAdditive'
  <2>1. /\ NodesOf("Condition")' = NodesOf("Condition")
        /\ NodesOf("Outcome")' = NodesOf("Outcome")
    BY <1>2, <1>8 DEF NodesKept, NodesOf, Ids
  <2>2. ASSUME NEW n \in NodesOf("Condition"), count'[n] > 0
        PROVE  Additive(n)'
    <3>1. n \in Ids /\ n # k /\ count[n] > 0
      BY <2>2, <1>1 DEF NodesOf, Ids, k
    <3>2. vec'[n].offset = vec[n].offset
      BY <3>1, <1>6
    <3> QED
      BY <3>1, <3>2, <1>1, <1>8, AdditiveKept
  <2> QED
    BY <2>1, <2>2, <1>1 DEF IInv, CountedNodesAdditive
<1> QED
  BY <1>1, <1>2, <1>6, <1>8, <1>9, <1>12, <1>14, <1>15, EnumerationKeeps
LEMMA VisitEdgeInv ==
  ASSUME IInv, NEW b \in BOOLEAN, VisitEdge(b)
  PROVE  IInv' /\ NodesKept
<1> DEFINE after == [Frame EXCEPT !.at = IF b THEN "return" ELSE "true"]
           call == VisitCall(vec[Frame.node].dests[b], Frame.node, b)
<1>0. PICK k : k = Frame.node
  OBVIOUS
<1>1. /\ phase = "enumerate" /\ frames # <<>> /\ phase' = "enumerate"
      /\ Frame.at = IF b THEN "true" ELSE "false"
      /\ UNCHANGED <<sco, vec, arcs, bdd, count>>
      /\ frames' = (IF EdgeTaken(k, b) THEN <<call, after>> ELSE <<after>>)
                     \o Tail(frames)
  BY <1>0 DEF VisitEdge
<1>2. /\ Len(frames) \in Nat \ {0} /\ k \in Ids /\ frames \in Seq(CallType)
      /\ count \in [Ids -> Nat] /\ vec \in Seq(BDDNode) /\ bdd \in BDDType
      /\ Ids = 1..Len(vec) /\ Frame = frames[1] /\ 1 \in 1..Len(frames)
      /\ Len(vec) \in Nat /\ Frame \in CallType
  BY <1>0, <1>1, InnermostCall
<1>3. /\ vec[k].kind = "Condition" /\ count[k] = 0 /\ k \in NodesOf("Condition")
      /\ b => Explored(k, FALSE)
  <2>1. CallNested(1)
    BY <1>1, <1>2 DEF IInv, FramesNested
  <2>2. /\ vec[k].kind = "Condition" /\ count[k] = 0
        /\ b => Explored(k, FALSE)
    BY <2>1, <1>0, <1>1, <1>2 DEF CallNested
  <2> QED
    BY <2>2, <1>2 DEF NodesOf
<1>4. PICK d : d = vec[k].dests[b]
  OBVIOUS
<1>5. d \in Ids /\ vec[d].kind \in {"Outcome", "Condition"}
  BY <1>1, <1>3, <1>4, EdgeTargets
<1>6. /\ after \in CallType /\ after.node = k
      /\ after.at = IF b THEN "return" ELSE "true"
  <2>1. PICK s : s = IF b THEN "return" ELSE "true"
    OBVIOUS
  <2>2. after = [Frame EXCEPT !.at = s] /\ s \in {"true", "return"}
    BY <2>1
  <2> HIDE DEF after
  <2> QED
    BY <2>1, <2>2, <1>0, <1>2 DEF CallType
<1>7. call \in CallType /\ call.node = d /\ call.at = "enter"
  <2>1. call = [node |-> d, origin |-> k, value |-> b, at |-> "enter"]
    BY <1>0, <1>4 DEF VisitCall
  <2> HIDE DEF call
  <2> QED
    BY <2>1, <1>2, <1>5 DEF CallType
<1> HIDE DEF after, call
<1>8. NodesKept
  BY <1>1 DEF NodesKept
<1>9. CountedNodesAdditive'
  BY <1>1
  DEF IInv, CountedNodesAdditive, NodesOf, Additive, EdgeCount, EdgeTaken, Explored
<1>10. \A n : /\ Explored(n, FALSE)' = Explored(n, FALSE)
              /\ Explored(n, TRUE)' = Explored(n, TRUE)
  BY <1>1 DEF Explored, EdgeTaken
<1>11. \A i \in 1..Len(frames) :
         frames[i].node \in Ids /\ frames[i].node \in Nat /\ CallNested(i)
  BY <1>1, <1>2 DEF IInv, FramesNested, TypeOK, IdsAllocated
\* The caller, past the edge, is nested below its own callers as before
<1>12. ASSUME NEW i \in 2..Len(frames), NEW j \in 1..Len(frames'),
              frames'[j] = frames[i], j > 1,
              frames'[j - 1].node = frames[i - 1].node
       PROVE  CallNested(j)'
  <2>0. PICK g : g = frames[i]
    OBVIOUS
  <2>1. CallNested(i) /\ i > 1 /\ i # 1 /\ j # 1
    BY <1>2, <1>11, <1>12
  <2>2. /\ vec[g.node].kind = "Condition" /\ count[g.node] = 0
        /\ \/ g.at = "true" /\ frames[i - 1].node = vec[g.node].dests[FALSE]
           \/ g.at = "return" /\ frames[i - 1].node = vec[g.node].dests[TRUE]
        /\ g.at = "return" => Explored(g.node, FALSE)
    BY <2>0, <2>1 DEF CallNested
  <2> QED
    BY <2>0, <2>1, <2>2, <1>1, <1>10, <1>12 DEF CallNested
<1>13. CASE EdgeTaken(k, b)
  <2>1. /\ frames' \in Seq(CallType) /\ Len(frames') = Len(frames) + 1
        /\ frames' # <<>> /\ frames'[1] = call /\ frames'[2] = after
        /\ \A i \in 3..(Len(frames) + 1) : frames'[i] = frames[i - 1]
    <3>1. frames' = <<call, after>> \o Tail(frames)
      BY <1>1, <1>13
    <3> QED
      BY <3>1, <1>1, <1>2, <1>6, <1>7, PopPush2
  <2>2. \A i \in 1..Len(frames') :
          \/ i = 1 \/ i = 2
          \/ i \in 3..(Len(frames) + 1) /\ i - 1 \in 2..Len(frames)
             /\ i - 1 \in 1..Len(frames)
    BY <2>1, <1>2
  <2>3. \A i \in 2..Len(frames') : /\ i - 1 \in 1..Len(frames)
                                   /\ frames'[i].node = frames[i - 1].node
    <3> SUFFICES ASSUME NEW i \in 2..Len(frames')
                 PROVE  /\ i - 1 \in 1..Len(frames)
                        /\ frames'[i].node = frames[i - 1].node
      OBVIOUS
    <3>1. CASE i = 2
      BY <3>1, <2>1, <1>0, <1>2, <1>6
    <3>2. CASE i # 2
      <4>1. i \in 3..(Len(frames) + 1) /\ i - 1 \in 1..Len(frames)
        BY <3>2, <2>1, <1>2
      <4> QED
        BY <4>1, <2>1
    <3> QED
      BY <3>1, <3>2
  <2>4. \A i \in 1..Len(frames') : frames'[i].node \in Ids
    <3>1. \A i \in 1..Len(frames') : i = 1 \/ i \in 2..Len(frames')
      BY <2>1, <1>2
    <3> QED
      BY <3>1, <2>1, <2>3, <1>5, <1>7, <1>11
  <2>5. ASSUME NEW i \in 1..Len(frames') PROVE CallNested(i)'
    <3>1. CASE i = 1
      <4>1. PICK g : g = frames'[i]
        OBVIOUS
      <4>2. g.node = d /\ g.at = "enter" /\ ~(i > 1)
        BY <4>1, <3>1, <2>1, <1>7
      <4> QED
        BY <4>1, <4>2, <1>1, <1>5 DEF CallNested
    <3>2. CASE i = 2
      <4>1. PICK g : g = frames'[i]
        OBVIOUS
      <4>2. /\ g.node = k /\ g.at = IF b THEN "return" ELSE "true"
            /\ i - 1 = 1 /\ i # 1 /\ frames'[i - 1].node = d
        BY <4>1, <3>2, <2>1, <1>6, <1>7
      <4>3. CASE b = TRUE
        <5>1. g.at = "return" /\ frames'[i - 1].node = vec[g.node].dests[TRUE]
              /\ Explored(k, FALSE)
          BY <4>2, <4>3, <1>3, <1>4
        <5> QED
          BY <5>1, <4>1, <4>2, <1>1, <1>3, <1>10 DEF CallNested
      <4>4. CASE b = FALSE
        <5>1. g.at = "true" /\ frames'[i - 1].node = vec[g.node].dests[FALSE]
          BY <4>2, <4>4, <1>4
        <5> QED
          BY <5>1, <4>1, <4>2, <1>1, <1>3 DEF CallNested
      <4> QED
        BY <4>3, <4>4
    <3>3. CASE i \in 3..(Len(frames) + 1) /\ i - 1 \in 2..Len(frames)
      <4>1. i > 1 /\ frames'[i] = frames[i - 1]
        BY <3>3, <2>1, <1>2
      <4>2. i - 1 \in 2..Len(frames') /\ frames'[i - 1].node = frames[(i - 1) - 1].node
        BY <3>3, <2>1, <2>3, <1>2
      <4> QED
        BY <4>1, <4>2, <3>3, <1>12
    <3> QED
      BY <3>1, <3>2, <3>3, <2>2
  <2>6. CallsOrdered'
    <3> SUFFICES ASSUME NEW i \in 1..Len(frames'), NEW j \in 1..Len(frames'), i < j,
                        frames'[i].at # "enter"
                 PROVE  frames'[i].node > frames'[j].node
      BY DEF CallsOrdered
    <3>1. i # 1
      BY <2>1, <1>7
    <3>2. /\ i \in 2..Len(frames') /\ j \in 3..(Len(frames) + 1)
          /\ j \in 2..Len(frames') /\ i - 1 < j - 1
      BY <3>1, <2>1, <1>2
    <3>3. /\ frames'[i].node = frames[i - 1].node /\ frames'[j].node = frames[j - 1].node
          /\ i - 1 \in 1..Len(frames) /\ j - 1 \in 1..Len(frames)
      BY <3>2, <2>3
    <3>4. frames[i - 1].at # "enter"
      <4>1. CASE i = 2
        BY <4>1, <1>1, <1>2
      <4>2. CASE i # 2
        <5>1. i \in 3..(Len(frames) + 1)
          BY <4>2, <3>1, <2>1, <1>2
        <5> QED
          BY <5>1, <2>1
      <4> QED
        BY <4>1, <4>2
    <3> QED
      BY <3>2, <3>3, <3>4, <1>1 DEF IInv, FramesNested, CallsOrdered
  <2>7. frames'[Len(frames')].node = bdd'.root
    <3>1. Len(frames') \in 2..Len(frames') /\ Len(frames') - 1 = Len(frames)
      BY <2>1, <1>2
    <3> QED
      BY <3>1, <2>3, <1>1 DEF IInv, FramesNested
  <2>8. FramesNested'
    BY <2>1, <2>5, <2>6, <2>7, <1>1 DEF FramesNested
  <2> QED
    BY <2>1, <2>4, <2>8, <1>1, <1>2, <1>8, <1>9, EnumerationKeeps
<1>14. CASE ~EdgeTaken(k, b)
  <2>1. /\ frames' \in Seq(CallType) /\ Len(frames') = Len(frames)
        /\ frames' # <<>> /\ frames'[1] = after
        /\ \A i \in 2..Len(frames) : frames'[i] = frames[i]
    <3>1. frames' = <<after>> \o Tail(frames)
      BY <1>1, <1>14
    <3> QED
      BY <3>1, <1>1, <1>2, <1>6, PopPush1
  <2>2. \A i \in 1..Len(frames) : i = 1 \/ i \in 2..Len(frames)
    BY <1>2
  <2>3. \A i \in 1..Len(frames) : frames'[i].node = frames[i].node
    BY <2>1, <2>2, <1>0, <1>2, <1>6
  <2>4. \A i \in 1..Len(frames') : frames'[i].node \in Ids
    BY <2>1, <2>3, <1>11
  <2>5. ASSUME NEW i \in 1..Len(frames') PROVE CallNested(i)'
    <3>1. CASE i = 1
      <4>1. PICK g : g = frames'[i]
        OBVIOUS
      <4>2. /\ g.node = k /\ g.at = IF b THEN "return" ELSE "true"
            /\ i = 1 /\ ~(i > 1)
        BY <4>1, <3>1, <2>1, <1>6
      <4>3. CASE b = TRUE
        <5>1. g.at = "return" /\ Explored(k, FALSE) /\ Explored(k, TRUE)
          BY <4>2, <4>3, <1>3, <1>14 DEF Explored
        <5> QED
          BY <5>1, <4>1, <4>2, <1>1, <1>3, <1>10 DEF CallNested
      <4>4. CASE b = FALSE
        <5>1. g.at = "true" /\ Explored(k, FALSE)
          BY <4>2, <4>4, <1>14 DEF Explored
        <5> QED
          BY <5>1, <4>1, <4>2, <1>1, <1>3, <1>10 DEF CallNested
      <4> QED
        BY <4>3, <4>4
    <3>2. CASE i \in 2..Len(frames)
      <4>1. i > 1 /\ i - 1 \in 1..Len(frames) /\ frames'[i] = frames[i]
        BY <3>2, <2>1, <1>2
      <4>2. frames'[i - 1].node = frames[i - 1].node
        BY <4>1, <2>3
      <4> QED
        BY <4>1, <4>2, <3>2, <2>1, <1>12
    <3> QED
      BY <3>1, <3>2, <2>1, <2>2
  <2>6. CallsOrdered'
    <3>1. \A i \in 1..Len(frames) : frames'[i].at # "enter" => frames[i].at # "enter"
      BY <2>1, <2>2, <1>1, <1>2
    <3> SUFFICES ASSUME NEW i \in 1..Len(frames), NEW j \in 1..Len(frames), i < j,
                        frames'[i].at # "enter"
                 PROVE  frames[i].node > frames[j].node
      BY <2>1, <2>3 DEF CallsOrdered
    <3> QED
      BY <3>1, <1>1 DEF IInv, FramesNested, CallsOrdered
  <2>7. frames'[Len(frames')].node = bdd'.root
    <3>1. Len(frames) \in 1..Len(frames)
      BY <1>2
    <3> QED
      BY <3>1, <2>1, <2>3, <1>1 DEF IInv, FramesNested
  <2>8. FramesNested'
    BY <2>1, <2>5, <2>6, <2>7, <1>1 DEF FramesNested
  <2> QED
    BY <2>1, <2>4, <2>8, <1>1, <1>2, <1>8, <1>9, EnumerationKeeps
<1> QED
  BY <1>8, <1>13, <1>14

LEMMA EnumeratedInv == IInv /\ Enumerated => IInv' /\ NodesKept
<1> SUFFICES ASSUME IInv, Enumerated PROVE IInv' /\ NodesKept
  OBVIOUS
<1>1. /\ phase = "enumerate" /\ frames = <<>> /\ phase' = "done"
      /\ UNCHANGED <<sco, vec, arcs, frames, count>>
      /\ bdd' = [bdd EXCEPT !.pathCount = count[bdd.root]]
  BY DEF Enumerated
<1>2. /\ bdd \in BDDType /\ bdd.root \in Ids /\ count \in [Ids -> Nat]
      /\ vec \in Seq(BDDNode) /\ count[bdd.root] > 0
  <2>1. bdd.root \in NodesOf("Condition")
    BY <1>1 DEF IInv, ForwardEdges
  <2> QED
    BY <2>1, <1>1 DEF IInv, TypeOK, FramesNested, NodesOf, Ids
<1>3. bdd' \in BDDType /\ bdd'.root = bdd.root /\ bdd'.pathCount = count[bdd.root]
  BY <1>1, <1>2 DEF BDDType
<1>4. NodesKept
  BY <1>1, <1>3 DEF NodesKept
<1>5. 1..Len(frames') = {} /\ frames' \in Seq(CallType)
  BY <1>1
<1>6. FramesNested'
  BY <1>1, <1>2, <1>3, <1>5 DEF FramesNested, CallsOrdered
<1>7. CountedNodesAdditive'
  BY <1>1
  DEF IInv, CountedNodesAdditive, NodesOf, Additive, EdgeCount, EdgeTaken, Explored
<1> QED
  BY <1>1, <1>2, <1>3, <1>4, <1>5, <1>6, <1>7, EnumerationKeeps

----------------------------------------------------------------------------
(* The invariant, and what it implies.                                     *)

LEMMA StutterInv == IInv /\ UNCHANGED vars => IInv'
<1> SUFFICES ASSUME IInv, UNCHANGED vars PROVE IInv'
  OBVIOUS
<1> USE DEF vars, IInv
<1>1. TypeOK' /\ ExitsFirst' /\ ScanEnds' /\ ArcsLeadDeeper'
  BY DEF TypeOK, IdsAllocated, Ids, ExitsFirst, ScanEnds, ArcsLeadDeeper
<1>2. JumpsResolved' /\ ForwardEdges' /\ ConditionsLeadForward'
  BY DEF JumpsResolved, ForwardEdges, ConditionsLeadForward, NodesOf
<1>3. FramesNested'
  BY DEF FramesNested, CallNested, CallsOrdered, Explored, EdgeTaken
<1>4. CountedNodesAdditive'
  BY DEF CountedNodesAdditive, NodesOf, Additive, EdgeCount, EdgeTaken, Explored
<1> QED
  BY <1>1, <1>2, <1>3, <1>4

\* The state of the construction satisfies the inductive invariant after any
\* sequence of operators, conditions and steps of Visit.
THEOREM Invariance == Spec => []IInv
<1>1. IInv /\ [Next]_vars => IInv'
  <2> SUFFICES ASSUME IInv, [Next]_vars PROVE IInv'
    OBVIOUS
  <2>1. CASE ProcessNot
    BY <2>1, ProcessNotInv
  <2>2. CASE \E op \in {"AndThen", "OrElse"} : ProcessBinary(op)
    BY <2>2, ProcessBinaryInv
  <2>3. CASE \E code \in ConditionCodes : ProcessCondition(code)
    BY <2>3, ProcessConditionInv
  <2>4. CASE VisitOutcome
    BY <2>4, VisitOutcomeInv
  <2>5. CASE VisitAgain
    BY <2>5, VisitAgainInv
  <2>6. CASE VisitFirst
    BY <2>6, VisitFirstInv
  <2>7. CASE \E b \in BOOLEAN : VisitEdge(b)
    BY <2>7, VisitEdgeInv
  <2>8. CASE VisitReturn
    BY <2>8, VisitReturnInv
  <2>9. CASE Enumerated
    BY <2>9, EnumeratedInv
  <2>10. CASE UNCHANGED vars
    BY <2>10, StutterInv
  <2> QED
    BY <2>1, <2>2, <2>3, <2>4, <2>5, <2>6, <2>7, <2>8, <2>9, <2>10
    DEF Next, EnumeratePaths
<1> QED
  BY <1>1, InitIInv, PTL DEF Spec

\* Ids held by nodes, arcs and pending calls designate allocated nodes and
\* SCOs, whatever the size of the decision.
THEOREM TypeCorrect == Spec => []TypeOK
<1>1. IInv => TypeOK
  BY DEF IInv
<1> QED
  BY <1>1, Invariance, PTL

\* No operand is lost by the scan, whatever the nesting of the operators:
\* every jump waits for exactly one pending operand or has its target.
THEOREM JumpsAreResolved == Spec => []JumpsResolved
<1>1. IInv => JumpsResolved
  BY DEF IInv
<1> QED
  BY <1>1, Invariance, PTL

\* After Completed the BDD is acyclic, with no jump left to follow.
THEOREM EdgesLeadForward == Spec => []ForwardEdges
<1>1. IInv => ForwardEdges
  BY DEF IInv
<1> QED
  BY <1>1, Invariance, PTL

\* Path counts and offsets partition the path indexes of a condition
\* between its two successors, in every decision.
THEOREM PathsPartitioned == Spec => []CountsAdditive
<1>1. IInv => CountsAdditive
  BY DEF IInv, CountsAdditive, FramesNested, CountedNodesAdditive, Additive,
     Explored
<1> QED
  BY <1>1, Invariance, PTL

----------------------------------------------------------------------------
(* An entry's SCO: what changes in the table.                              *)

\* The SCO appended is attached to the parent that the popped arc designates,
\* at the place that was free; nothing else changes
EntryAdded(d, N, a) ==
  /\ N \in Nat /\ N >= 1 /\ Len(sco') = N + 1 /\ a.parent \in 1..N
  /\ sco'[N + 1].kind = d.kind /\ sco'[N + 1].parent = a.parent
  /\ d.kind = "Operator" =>
       sco'[N + 1].op = d.op /\ sco'[N + 1].operands = d.operands
  /\ d.kind = "Condition" =>
       /\ sco'[N + 1].value = d.value /\ sco'[N + 1].index = d.index
       /\ sco'[N + 1].node = d.node
  /\ \A s \in 1..N :
       /\ sco'[s].kind = sco[s].kind /\ sco'[s].parent = sco[s].parent
       /\ sco[s].kind = "Operator" => sco'[s].op = sco[s].op
       /\ sco[s].kind = "Condition" => sco'[s] = sco[s]
       /\ sco[s].kind # "Condition" =>
            /\ Positions(s)' = Positions(s)
            /\ \A pos \in Positions(s) :
                 OperandOf(s, pos)' = IF s = a.parent /\ pos = a.pos THEN N + 1
                                      ELSE OperandOf(s, pos)

LEMMA EntryContents ==
  ASSUME TypeOK, TreeGrows, arcs # <<>>, NEW d \in SCODescriptor, d.kind # "Decision",
         sco' = WithSCO(d),
         NEW N, N = Len(sco), NEW a, a = arcs[1]
  PROVE  EntryAdded(d, N, a)
<1>1. /\ sco \in Seq(SCODescriptor) /\ N \in Nat
      /\ \A s \in 1..N : sco[s] \in SCODescriptor
  BY DEF TypeOK
<1>2. 1 \in 1..Len(arcs) /\ Head(arcs) = a /\ a \in ArcType
  BY Pop DEF TypeOK
<1>3. /\ a.parent \in 1..N /\ sco[a.parent].kind # "Condition" /\ N >= 1
      /\ a.pos \in {"Left", "Right"} /\ a.pos \in Positions(a.parent)
  <2>1. a.parent \in 1..N /\ sco[a.parent].kind # "Condition"
    BY <1>1, <1>2 DEF TypeOK, IdsAllocated
  <2>2. IsOperand(0, a.parent, a.pos)
    BY <1>2 DEF TreeGrows
  <2>3. a.pos \in Positions(a.parent)
    BY <2>2 DEF IsOperand
  <2>4. a.pos \in {"Left", "Right"}
    BY <1>2 DEF ArcType
  <2>5. N >= 1
    BY <1>1, <2>1
  <2> QED
    BY <2>1, <2>3, <2>4, <2>5
<1>4. PICK t : t = Append(sco, d)
  OBVIOUS
<1>5. /\ t \in Seq(SCODescriptor) /\ Len(t) = N + 1
      /\ t[N + 1] = d /\ \A s \in 1..N : t[s] = sco[s]
  BY <1>1, <1>4, AppendFacts
<1>6. sco' = Attach(t, a.parent, a.pos, N + 1)
  BY <1>2, <1>4 DEF WithSCO
<1>7. /\ Len(sco') = N + 1 /\ \A s \in 1..(N + 1) : sco'[s].kind = t[s].kind
  <2>1. /\ a.parent \in 1..Len(t) /\ N + 1 \in 1..Len(t)
        /\ t[a.parent].kind # "Condition"
    BY <1>1, <1>3, <1>5
  <2> QED
    BY <2>1, <1>3, <1>5, <1>6, AttachType
<1>8. /\ \A s \in 1..N : s # a.parent => sco'[s] = sco[s]
      /\ sco'[N + 1] = [d EXCEPT !.parent = a.parent]
      /\ sco'[a.parent] = IF sco[a.parent].kind = "Operator"
                          THEN [sco[a.parent] EXCEPT !.operands[a.pos] = N + 1]
                          ELSE [sco[a.parent] EXCEPT !.expr = N + 1]
  <2>1. /\ a.parent \in 1..Len(t) /\ N + 1 \in 1..Len(t) /\ a.parent # N + 1
        /\ t[a.parent] = sco[a.parent] /\ t[N + 1].kind # "Decision"
    BY <1>1, <1>3, <1>5
  <2>2. /\ \A s \in 1..Len(t) : s \notin {a.parent, N + 1} => sco'[s] = t[s]
        /\ sco'[N + 1] = [t[N + 1] EXCEPT !.parent = a.parent]
        /\ sco'[a.parent] = IF t[a.parent].kind = "Operator"
                            THEN [t[a.parent] EXCEPT !.operands[a.pos] = N + 1]
                            ELSE [t[a.parent] EXCEPT !.expr = N + 1]
    <3> DEFINE t1 == [t EXCEPT ![N + 1].parent = a.parent]
    <3>1. /\ DOMAIN t = 1..Len(t) /\ DOMAIN t1 = 1..Len(t)
          /\ \A s \in 1..Len(t) : s # N + 1 => t1[s] = t[s]
          /\ t1[N + 1] = [t[N + 1] EXCEPT !.parent = a.parent]
      BY <1>5, <2>1
    <3>2. sco' = IF t[a.parent].kind = "Operator"
                 THEN [t1 EXCEPT ![a.parent].operands[a.pos] = N + 1]
                 ELSE [t1 EXCEPT ![a.parent].expr = N + 1]
      BY <1>6 DEF Attach
    <3> HIDE DEF t1
    <3>3. t1[a.parent] = t[a.parent]
      BY <2>1, <3>1
    <3>4. sco' = [t1 EXCEPT ![a.parent] = IF t[a.parent].kind = "Operator"
                               THEN [t[a.parent] EXCEPT !.operands[a.pos] = N + 1]
                               ELSE [t[a.parent] EXCEPT !.expr = N + 1]]
      BY <3>2, <3>3
    <3> QED
      BY <2>1, <3>1, <3>4
  <2>3. \A s \in 1..N : s \in 1..Len(t) /\ s # N + 1
    BY <1>1, <1>5
  <2> QED
    BY <2>1, <2>2, <2>3, <1>5
<1>9. ASSUME NEW s \in 1..N
      PROVE  /\ sco'[s].kind = sco[s].kind /\ sco'[s].parent = sco[s].parent
             /\ sco[s].kind = "Operator" => sco'[s].op = sco[s].op
             /\ sco[s].kind = "Condition" => sco'[s] = sco[s]
             /\ sco[s].kind # "Condition" =>
                  /\ Positions(s)' = Positions(s)
                  /\ \A pos \in Positions(s) :
                       OperandOf(s, pos)' = IF s = a.parent /\ pos = a.pos THEN N + 1
                                          ELSE OperandOf(s, pos)
  <2>1. CASE s # a.parent
    BY <1>8, <2>1 DEF Positions, OperandOf
  <2>2. CASE s = a.parent /\ sco[s].kind = "Operator"
    <3>1. sco[s] \in OperatorType
      BY <1>1, <2>2, SCOKinds
    <3>2. sco'[s] = [sco[s] EXCEPT !.operands[a.pos] = N + 1]
      BY <1>8, <2>2
    <3>3. /\ sco'[s].kind = "Operator" /\ sco'[s].parent = sco[s].parent
          /\ sco'[s].op = sco[s].op
          /\ \A pos \in {"Left", "Right"} :
               sco'[s].operands[pos] = IF pos = a.pos THEN N + 1 ELSE sco[s].operands[pos]
      BY <3>1, <3>2, <1>3 DEF OperatorType
    <3>4. Positions(s) \subseteq {"Left", "Right"} /\ Positions(s)' = Positions(s)
      BY <3>3, <2>2 DEF Positions
    <3>5. \A pos \in Positions(s) :
            OperandOf(s, pos)' = IF pos = a.pos THEN N + 1 ELSE OperandOf(s, pos)
      BY <3>3, <3>4, <2>2 DEF OperandOf
    <3> QED
      BY <2>2, <3>3, <3>4, <3>5
  <2>3. CASE s = a.parent /\ sco[s].kind # "Operator"
    <3>1. sco[s] \in DecisionType /\ sco[s].kind = "Decision"
      BY <1>1, <1>3, <2>3, SCOKinds DEF SCODescriptor, OperatorType, ConditionType
    <3>2. sco'[s] = [sco[s] EXCEPT !.expr = N + 1]
      BY <1>8, <2>3
    <3>3. /\ sco'[s].kind = "Decision" /\ sco'[s].parent = sco[s].parent
          /\ sco'[s].expr = N + 1
      BY <3>1, <3>2 DEF DecisionType
    <3>4. Positions(s)' = Positions(s) /\ Positions(s) = {"Right"} /\ a.pos = "Right"
      BY <3>1, <3>3, <1>3, <2>3 DEF Positions
    <3> QED
      BY <2>3, <3>1, <3>3, <3>4 DEF OperandOf
  <2> QED
    BY <2>1, <2>2, <2>3
<1>10. /\ sco'[N + 1].kind = d.kind /\ sco'[N + 1].parent = a.parent
       /\ d.kind = "Operator" =>
            sco'[N + 1].op = d.op /\ sco'[N + 1].operands = d.operands
       /\ d.kind = "Condition" =>
            /\ sco'[N + 1].value = d.value /\ sco'[N + 1].index = d.index
            /\ sco'[N + 1].node = d.node
  <2>1. CASE d \in OperatorType
    BY <1>8, <2>1 DEF OperatorType
  <2>2. CASE d \in ConditionType
    BY <1>8, <2>2 DEF ConditionType
  <2> QED
    BY <2>1, <2>2 DEF SCODescriptor, DecisionType
<1> QED
  BY <1>1, <1>3, <1>7, <1>9, <1>10 DEF EntryAdded
\* The arcs pushed for an operator wait for its operands
PushedFor(d, k) ==
  /\ Len(arcs') = Len(arcs) - 1 + k
  /\ \A i \in 1..(Len(arcs) - 1) : arcs'[i + k] = arcs[i + 1]
  /\ \A i \in 1..k : arcs'[i].parent = Len(sco) + 1
  /\ d.kind = "Condition" => k = 0
  /\ d.kind = "Operator" =>
       /\ \A pos \in {"Left", "Right"} : d.operands[pos] = 0
       /\ d.op = "Not" => k = 1 /\ arcs'[1].pos = "Right"
       /\ d.op # "Not" => k = 2 /\ arcs'[1].pos = "Left" /\ arcs'[2].pos = "Right"

LEMMA TreeStep ==
  ASSUME TypeOK, TreeGrows, arcs # <<>>, NEW d \in SCODescriptor, d.kind # "Decision",
         sco' = WithSCO(d), NEW k \in 0..2, PushedFor(d, k)
  PROVE  TreeGrows'
<1>1. PICK N, a : N = Len(sco) /\ a = arcs[1]
  OBVIOUS
<1>2. /\ N \in Nat /\ N >= 1 /\ Len(sco') = N + 1 /\ a.parent \in 1..N
      /\ sco'[N + 1].kind = d.kind /\ sco'[N + 1].parent = a.parent
      /\ d.kind = "Operator" =>
           sco'[N + 1].op = d.op /\ sco'[N + 1].operands = d.operands
      /\ \A s \in 1..N :
           /\ sco'[s].kind = sco[s].kind /\ sco'[s].parent = sco[s].parent
           /\ sco[s].kind # "Condition" =>
                /\ Positions(s)' = Positions(s)
                /\ \A pos \in Positions(s) :
                     OperandOf(s, pos)' = IF s = a.parent /\ pos = a.pos THEN N + 1
                                        ELSE OperandOf(s, pos)
  <2>1. EntryAdded(d, N, a)
    BY <1>1, EntryContents
  <2> QED
    BY <2>1 DEF EntryAdded
<1>3. /\ d.kind \in {"Operator", "Condition"} /\ N + 1 >= 2
      /\ 1 \in 1..N /\ sco[Decision].kind = "Decision"
  BY <1>2 DEF SCODescriptor, DecisionType, OperatorType, ConditionType, TreeGrows, Decision
<1>4. /\ 1 \in 1..Len(arcs) /\ Len(arcs) \in Nat /\ a = arcs[1]
      /\ IsOperand(0, a.parent, a.pos) /\ a.pos \in Positions(a.parent)
      /\ sco[a.parent].kind # "Condition"
  BY <1>1, Pop DEF TypeOK, TreeGrows, IsOperand
<1>5. \A s : Positions(s) \subseteq {"Left", "Right"}
  BY DEF Positions
<1>6. d.kind = "Operator" =>
         /\ Positions(N + 1)' = IF d.op = "Not" THEN {"Right"} ELSE {"Left", "Right"}
         /\ \A pos \in {"Left", "Right"} : OperandOf(N + 1, pos)' = 0
  BY <1>1, <1>2 DEF Positions, OperandOf, PushedFor
<1>7. /\ Len(arcs') = Len(arcs) - 1 + k /\ Len(arcs') \in Nat
      /\ \A i \in 1..Len(arcs') :
           IF i <= k THEN arcs'[i].parent = N + 1
           ELSE i - k + 1 \in 2..Len(arcs) /\ arcs'[i] = arcs[i - k + 1]
      /\ \A i \in 2..Len(arcs) : i + k - 1 \in 1..Len(arcs') /\ arcs'[i + k - 1] = arcs[i]
  <2>1. /\ Len(arcs') = Len(arcs) - 1 + k
        /\ \A i \in 1..(Len(arcs) - 1) : arcs'[i + k] = arcs[i + 1]
        /\ \A i \in 1..k : arcs'[i].parent = N + 1
    BY <1>1 DEF PushedFor
  <2>2. ASSUME NEW i \in 1..Len(arcs'), ~(i <= k)
        PROVE  i - k + 1 \in 2..Len(arcs) /\ arcs'[i] = arcs[i - k + 1]
    <3>1. i - k \in 1..(Len(arcs) - 1)
      BY <2>1, <2>2, <1>4
    <3> QED
      BY <2>1, <3>1, <1>4
  <2>3. ASSUME NEW i \in 2..Len(arcs)
        PROVE  i + k - 1 \in 1..Len(arcs') /\ arcs'[i + k - 1] = arcs[i]
    <3>1. PICK m : m = i - 1
      OBVIOUS
    <3>2. m \in 1..(Len(arcs) - 1) /\ m + 1 = i /\ m + k = i + k - 1
      BY <1>4, <3>1
    <3>3. arcs'[m + k] = arcs[m + 1]
      BY <2>1, <3>2
    <3> QED
      BY <2>1, <3>2, <3>3, <1>4
  <2> QED
    BY <2>1, <2>2, <2>3, <1>4
<1>8. \A i \in 1..Len(arcs) : arcs[i].parent \in 1..N /\ sco[arcs[i].parent].kind # "Condition"
  BY <1>1 DEF TypeOK, IdsAllocated
<1>9. ASSUME NEW s \in 2..(N + 1)
      PROVE  /\ sco'[s].kind # "Decision" /\ sco'[s].parent \in 1..(s - 1)
             /\ \E pos \in {"Left", "Right"} : IsOperand(s, sco[s].parent, pos)'
  <2>1. CASE s = N + 1
    <3>1. IsOperand(s, a.parent, a.pos)'
      BY <1>2, <1>4, <2>1 DEF IsOperand
    <3> QED
      BY <1>2, <1>3, <1>4, <1>5, <2>1, <3>1
  <2>2. CASE s # N + 1
    <3>1. s \in 2..N /\ s \in 1..N
      BY <1>2, <2>2
    <3>2. /\ sco[s].kind # "Decision" /\ sco[s].parent \in 1..(s - 1)
          /\ \E pos \in {"Left", "Right"} : IsOperand(s, sco[s].parent, pos)
      BY <1>1, <3>1 DEF TreeGrows
    <3>3. PICK pos \in {"Left", "Right"} : IsOperand(s, sco[s].parent, pos)
      BY <3>2
    <3>4. sco[s].parent \in 1..N /\ s # 0
      BY <1>2, <3>1, <3>2
    <3>5. ~(sco[s].parent = a.parent /\ pos = a.pos)
      BY <1>4, <3>3, <3>4 DEF IsOperand
    <3>6. IsOperand(s, sco[s].parent, pos)'
      BY <1>2, <3>1, <3>3, <3>4, <3>5 DEF IsOperand
    <3> QED
      BY <1>2, <3>1, <3>2, <3>6
  <2> QED
    BY <2>1, <2>2
<1>10. ASSUME NEW p \in 1..(N + 1), NEW pos \in {"Left", "Right"},
              sco'[p].kind # "Condition", pos \in Positions(p)'
       PROVE  \/ OperandOf(p, pos)' \in (p + 1)..(N + 1) /\ sco'[OperandOf(p, pos)'].parent = p
              \/ /\ OperandOf(p, pos)' = 0
                 /\ \E i \in 1..Len(arcs') : arcs'[i].parent = p /\ arcs'[i].pos = pos
  <2>1. CASE p = N + 1
    <3>1. d.kind = "Operator"
      BY <1>2, <1>3, <1>10, <2>1
    <3>2. OperandOf(p, pos)' = 0
      BY <1>6, <2>1, <3>1
    <3>3. PICK i \in 1..k : arcs'[i].pos = pos
      BY <1>6, <1>10, <2>1, <3>1 DEF PushedFor
    <3>4. i \in 1..Len(arcs') /\ arcs'[i].parent = p
      BY <1>1, <1>4, <1>7, <2>1, <3>3 DEF PushedFor
    <3> QED
      BY <3>2, <3>3, <3>4
  <2>2. CASE p # N + 1
    <3>1. p \in 1..N /\ sco[p].kind # "Condition" /\ pos \in Positions(p)
      BY <1>2, <1>10, <2>2
    <3>2. OperandOf(p, pos)' = IF p = a.parent /\ pos = a.pos THEN N + 1 ELSE OperandOf(p, pos)
      BY <1>2, <3>1
    <3>3. CASE p = a.parent /\ pos = a.pos
      BY <1>2, <3>2, <3>3
    <3>4. CASE ~(p = a.parent /\ pos = a.pos)
      <4>1. OperandOf(p, pos)' = OperandOf(p, pos)
        BY <3>2, <3>4
      <4>2. CASE OperandOf(p, pos) \in (p + 1)..N /\ sco[OperandOf(p, pos)].parent = p
        <5>1. OperandOf(p, pos) \in 1..N
          BY <1>2, <4>2
        <5> QED
          BY <1>2, <4>1, <4>2, <5>1
      <4>3. CASE OperandOf(p, pos) = 0 /\ \E i \in 1..Len(arcs) : arcs[i].parent = p /\ arcs[i].pos = pos
        <5>1. PICK i \in 1..Len(arcs) : arcs[i].parent = p /\ arcs[i].pos = pos
          BY <4>3
        <5>2. i \in 2..Len(arcs)
          BY <1>4, <3>4, <5>1
        <5> QED
          BY <1>7, <4>1, <4>3, <5>1, <5>2
      <4>4. \/ OperandOf(p, pos) \in (p + 1)..Len(sco) /\ sco[OperandOf(p, pos)].parent = p
            \/ /\ OperandOf(p, pos) = 0
               /\ \E i \in 1..Len(arcs) : arcs[i].parent = p /\ arcs[i].pos = pos
        BY <1>1, <3>1 DEF TreeGrows
      <4> QED
        BY <1>1, <4>2, <4>3, <4>4
    <3> QED
      BY <3>3, <3>4
  <2> QED
    BY <2>1, <2>2
<1>11. ASSUME NEW i \in 1..Len(arcs')
       PROVE  IsOperand(0, arcs[i].parent, arcs[i].pos)'
  <2>1. CASE i <= k
    <3>1. arcs'[i].parent = N + 1 /\ i \in 1..k /\ d.kind = "Operator"
      BY <1>3, <1>7, <2>1 DEF PushedFor
    <3>2. arcs'[i].pos \in Positions(N + 1)'
      <4>1. CASE d.op = "Not"
        BY <1>6, <3>1, <4>1 DEF PushedFor
      <4>2. CASE d.op # "Not"
        BY <1>6, <3>1, <4>2 DEF PushedFor
      <4> QED
        BY <4>1, <4>2
    <3>3. Positions(N + 1)' \subseteq {"Left", "Right"}
      BY DEF Positions
    <3> QED
      BY <1>2, <1>6, <3>1, <3>2, <3>3 DEF IsOperand
  <2>2. CASE ~(i <= k)
    <3>1. PICK m \in 2..Len(arcs) : arcs'[i] = arcs[m]
      BY <1>7, <2>2
    <3>2. m \in 1..Len(arcs) /\ m # 1
      BY <1>4, <3>1
    <3>3. IsOperand(0, arcs[m].parent, arcs[m].pos) /\ arcs[m].parent \in 1..N
      BY <1>8, <3>2 DEF TreeGrows
    <3>4. ~(arcs[m].parent = a.parent /\ arcs[m].pos = a.pos)
      BY <1>4, <3>2 DEF TreeGrows
    <3> QED
      BY <1>2, <3>1, <3>3, <3>4 DEF IsOperand
  <2> QED
    BY <2>1, <2>2
<1>12. ASSUME NEW i \in 1..Len(arcs'), NEW m \in 1..Len(arcs'),
              arcs'[i].parent = arcs'[m].parent, arcs'[i].pos = arcs'[m].pos
       PROVE  i = m
  <2>1. CASE i <= k /\ m <= k
    <3>1. i \in 1..k /\ m \in 1..k
      BY <2>1
    <3> QED
      BY <1>3, <1>12, <3>1 DEF PushedFor
  <2>2. CASE i <= k <=> ~(m <= k)
    <3>1. \A x \in 1..Len(arcs') : x <= k => arcs'[x].parent = N + 1
      BY <1>7
    <3>2. \A x \in 1..Len(arcs') : ~(x <= k) => arcs'[x].parent \in 1..N
      <4> SUFFICES ASSUME NEW x \in 1..Len(arcs'), ~(x <= k) PROVE arcs'[x].parent \in 1..N
        OBVIOUS
      <4>1. x - k + 1 \in 2..Len(arcs) /\ arcs'[x] = arcs[x - k + 1]
        BY <1>7
      <4>2. x - k + 1 \in 1..Len(arcs)
        BY <1>4, <4>1
      <4> QED
        BY <1>8, <4>1, <4>2
    <3>3. N + 1 \notin 1..N
      BY <1>2
    <3> QED
      BY <1>12, <2>2, <3>1, <3>2, <3>3
  <2>3. CASE ~(i <= k) /\ ~(m <= k)
    <3>1. /\ i - k + 1 \in 1..Len(arcs) /\ arcs'[i] = arcs[i - k + 1]
          /\ m - k + 1 \in 1..Len(arcs) /\ arcs'[m] = arcs[m - k + 1]
      BY <1>4, <1>7, <2>3
    <3>2. i - k + 1 = m - k + 1
      BY <1>12, <3>1 DEF TreeGrows
    <3> QED
      BY <1>7, <3>2
  <2> QED
    BY <2>1, <2>2, <2>3
<1>13. sco'[Decision].kind = "Decision"
  BY <1>2, <1>3 DEF Decision
<1> QED
  BY <1>2, <1>9, <1>10, <1>11, <1>12, <1>13 DEF TreeGrows

----------------------------------------------------------------------------
(* The shape of the expression, while it is scanned.                       *)

\* d2, o2 and j2 say for the entry what the popped arc says, and what d, o and
\* j say for the others
Continues(d, o, j, d2, o2, j2, N, a) ==
  /\ \A s \in 1..N : d2[s] = d[s] /\ o2[s] = o[s] /\ j2[s] = j[s]
  /\ d2[N + 1] = a.dests /\ o2[N + 1] = a.origin

\* The arcs pushed lead where the entry's operands are to lead
PushedLead(d, o, j, N, k) ==
  \A i \in 1..k :
    /\ arcs'[i].dests = LeadsTo(d, j, N, arcs[i].pos)'
    /\ arcs'[i].origin = StandsFor(o, j, N, arcs[i].pos)'

LEMMA SkeletonStep ==
  ASSUME TypeOK, TreeGrows, arcs # <<>>, NEW x \in SCODescriptor, x.kind # "Decision",
         sco' = WithSCO(x), NEW k \in 0..2, PushedFor(x, k),
         NEW N, N = Len(sco), NEW d, NEW o, NEW j, Skeleton(d, o, j),
         NEW d2, NEW o2, NEW j2, Continues(d, o, j, d2, o2, j2, N, arcs[1]),
         PushedLead(d2, o2, j2, N + 1, k)
  PROVE  Skeleton(d2, o2, j2)'
<1>0. /\ \A s \in 1..N : d2[s] = d[s] /\ o2[s] = o[s] /\ j2[s] = j[s]
      /\ d2[N + 1] = arcs[1].dests /\ o2[N + 1] = arcs[1].origin
  BY DEF Continues
<1>1. PICK a : a = arcs[1]
  OBVIOUS
<1>2. EntryAdded(x, N, a)
  BY <1>1, EntryContents
<1>3. /\ N \in Nat /\ N >= 1 /\ Len(sco') = N + 1 /\ a.parent \in 1..N
      /\ sco'[N + 1].kind = x.kind
      /\ x.kind = "Operator" => sco'[N + 1].op = x.op /\ sco'[N + 1].operands = x.operands
  BY <1>2 DEF EntryAdded
<1>4. \A s \in 1..N :
        /\ sco'[s].kind = sco[s].kind
        /\ sco[s].kind = "Operator" => sco'[s].op = sco[s].op
        /\ sco[s].kind # "Condition" =>
             /\ Positions(s)' = Positions(s)
             /\ \A pos \in Positions(s) :
                  OperandOf(s, pos)' = IF s = a.parent /\ pos = a.pos THEN N + 1
                                     ELSE OperandOf(s, pos)
  BY <1>2 DEF EntryAdded
<1>5. \A p \in 1..N : sco[p].kind \in {"Decision", "Operator", "Condition"}
  <2>1. \A p \in 1..N : sco[p] \in SCODescriptor
    BY DEF TypeOK
  <2> QED
    BY <2>1 DEF SCODescriptor, DecisionType, OperatorType, ConditionType
<1>6. ASSUME NEW p \in 1..N, NEW pos, sco[p].kind # "Condition"
      PROVE  /\ LeadsTo(d2, j2, p, pos)' = LeadsTo(d, j, p, pos)
             /\ StandsFor(o2, j2, p, pos)' = StandsFor(o, j, p, pos)
  <2>1. CASE sco[p].kind = "Decision"
    BY <1>0, <1>4, <2>1 DEF LeadsTo, StandsFor
  <2>2. CASE sco[p].kind = "Operator"
    BY <1>0, <1>4, <2>2 DEF LeadsTo, StandsFor
  <2> QED
    BY <1>5, <1>6, <2>1, <2>2
<1>7. /\ 1 \in 1..Len(arcs) /\ Len(arcs) \in Nat /\ IsOperand(0, a.parent, a.pos)
      /\ a.pos \in {"Left", "Right"} /\ sco[a.parent].kind # "Condition"
      /\ a.dests = LeadsTo(d, j, a.parent, a.pos)
      /\ a.origin = StandsFor(o, j, a.parent, a.pos)
  <2>1. 1 \in 1..Len(arcs) /\ Len(arcs) \in Nat
    BY Pop DEF TypeOK
  <2>2. a \in ArcType
    BY <1>1, <2>1 DEF TypeOK
  <2> QED
    BY <1>1, <2>1, <2>2 DEF TreeGrows, Skeleton, IsOperand, ArcType
<1>8. ASSUME NEW p \in 1..(N + 1), NEW s \in 2..(N + 1), NEW pos \in {"Left", "Right"},
             IsOperand(s, p, pos)'
      PROVE  /\ d2[s] = LeadsTo(d2, j2, p, pos)'
             /\ o2[s] = StandsFor(o2, j2, p, pos)'
  <2>1. p \in 1..N
    <3> SUFFICES ASSUME p = N + 1 PROVE FALSE
      BY <1>3
    <3>1. x.kind = "Operator"
      BY <1>3, <1>8 DEF IsOperand, SCODescriptor, DecisionType, OperatorType, ConditionType
    <3>2. OperandOf(p, pos)' = 0
      BY <1>3, <3>1 DEF OperandOf, PushedFor
    <3> QED
      BY <1>8, <3>2 DEF IsOperand
  <2>2. /\ sco[p].kind # "Condition" /\ pos \in Positions(p)
        /\ s = IF p = a.parent /\ pos = a.pos THEN N + 1 ELSE OperandOf(p, pos)
    BY <1>4, <1>8, <2>1 DEF IsOperand
  <2>3. CASE p = a.parent /\ pos = a.pos
    <3>1. s = N + 1 /\ d2[s] = a.dests /\ o2[s] = a.origin
      BY <1>0, <1>1, <2>2, <2>3
    <3> QED
      BY <1>6, <1>7, <2>1, <2>2, <2>3, <3>1
  <2>4. CASE ~(p = a.parent /\ pos = a.pos)
    <3>1. IsOperand(s, p, pos) /\ OperandOf(p, pos) = s
      BY <2>2, <2>4 DEF IsOperand
    <3>2. s \in 2..N /\ s \in 1..N
      <4>1. OperandOf(p, pos) \in (p + 1)..Len(sco) \/ OperandOf(p, pos) = 0
        <5>1. p \in 1..Len(sco)
          BY <2>1
        <5> QED
          BY <2>2, <5>1 DEF TreeGrows
      <4> QED
        BY <1>3, <2>1, <3>1, <4>1
    <3>3. d[s] = LeadsTo(d, j, p, pos) /\ o[s] = StandsFor(o, j, p, pos)
      BY <2>1, <3>1, <3>2 DEF Skeleton
    <3> QED
      BY <1>0, <1>6, <2>1, <2>2, <3>2, <3>3
  <2> QED
    BY <2>3, <2>4
<1>9. ASSUME NEW i \in 1..Len(arcs')
      PROVE  /\ arcs'[i].dests = LeadsTo(d2, j2, arcs[i].parent, arcs[i].pos)'
             /\ arcs'[i].origin = StandsFor(o2, j2, arcs[i].parent, arcs[i].pos)'
  <2>1. CASE i <= k
    <3>1. i \in 1..k /\ arcs'[i].parent = N + 1
      BY <2>1 DEF PushedFor
    <3> QED
      BY <3>1 DEF PushedLead
  <2>2. CASE ~(i <= k)
    <3>1. PICK m : m = i - k
      OBVIOUS
    <3>2. /\ m \in 1..(Len(arcs) - 1) /\ i = m + k
          /\ m + 1 \in 1..Len(arcs)
      BY <1>7, <2>2, <3>1 DEF PushedFor
    <3>3. arcs'[i] = arcs[m + 1]
      BY <3>2 DEF PushedFor
    <3>4. /\ arcs[m + 1].parent \in 1..N /\ sco[arcs[m + 1].parent].kind # "Condition"
          /\ arcs[m + 1].dests = LeadsTo(d, j, arcs[m + 1].parent, arcs[m + 1].pos)
          /\ arcs[m + 1].origin = StandsFor(o, j, arcs[m + 1].parent, arcs[m + 1].pos)
      BY <3>2 DEF TypeOK, IdsAllocated, Skeleton
    <3> QED
      BY <1>6, <3>3, <3>4
  <2> QED
    BY <2>1, <2>2
<1>10. d2[Decision] = Dests(ExitFalse, ExitTrue) /\ o2[Decision] = 0
  BY <1>0, <1>3 DEF Skeleton, Decision
<1> QED
  BY <1>3, <1>8, <1>9, <1>10 DEF Skeleton

LEMMA FirstArc ==
  ASSUME TypeOK, arcs # <<>>
  PROVE  /\ 1 \in 1..Len(arcs) /\ Len(arcs) \in Nat /\ Head(arcs) = arcs[1]
         /\ arcs[1] \in ArcType /\ arcs[1].dests \in [BOOLEAN -> Ids]
         /\ arcs[1].origin \in Ids \cup {0} /\ arcs[1].pos \in {"Left", "Right"}
<1>1. /\ 1 \in 1..Len(arcs) /\ Len(arcs) \in Nat /\ Head(arcs) = arcs[1]
      /\ arcs[1] \in ArcType
  BY Pop DEF TypeOK
<1>2. /\ arcs[1].origin \in Ids \cup {0}
      /\ \A b \in BOOLEAN : arcs[1].dests[b] \in Ids
  BY <1>1 DEF TypeOK, IdsAllocated
<1>3. arcs[1].dests \in [BOOLEAN -> Nat] /\ arcs[1].pos \in {"Left", "Right"}
  BY <1>1 DEF ArcType
<1>4. arcs[1].dests \in [BOOLEAN -> Ids]
  BY <1>2, <1>3
<1> QED
  BY <1>1, <1>2, <1>3, <1>4

\* Operators change neither the conditions nor what their nodes are
LEMMA OperatorEntry ==
  ASSUME TypeOK, TreeGrows, arcs # <<>>, NEW x \in SCODescriptor, x.kind = "Operator",
         sco' = WithSCO(x)
  PROVE  /\ Conditions' = Conditions /\ Decision \in 1..Len(sco) /\ CondIndexes' = CondIndexes
         /\ \A c \in Conditions : c \in 1..Len(sco) /\ sco'[c] = sco[c]
<1>1. PICK N, a : N = Len(sco) /\ a = arcs[1]
  OBVIOUS
<1>2. EntryAdded(x, N, a)
  <2>1. x.kind # "Decision"
    OBVIOUS
  <2> QED
    BY <1>1, <2>1, EntryContents
<1>3. /\ N \in Nat /\ N >= 1 /\ Len(sco') = N + 1 /\ sco'[N + 1].kind = "Operator"
      /\ \A s \in 1..N : /\ sco'[s].kind = sco[s].kind
                         /\ sco[s].kind = "Condition" => sco'[s] = sco[s]
  BY <1>2 DEF EntryAdded
<1>4. ASSUME NEW s \in 1..(N + 1) PROVE s \in Conditions' <=> s \in Conditions
  BY <1>1, <1>3 DEF Conditions
<1>5. Conditions' = Conditions
  BY <1>1, <1>3, <1>4 DEF Conditions
<1>6. CondIndexes' = CondIndexes
  BY <1>5 DEF CondIndexes, LastCondIndex
<1>7. \A c \in Conditions : c \in 1..Len(sco) /\ sco'[c] = sco[c]
  BY <1>1, <1>3 DEF Conditions
<1> QED
  BY <1>1, <1>3, <1>5, <1>6, <1>7 DEF Decision

\* ... so that they keep the numbering, as long as they add no condition node
LEMMA OperatorNumbers ==
  ASSUME NodesNumbered, Conditions' = Conditions, CondIndexes' = CondIndexes,
         \A c \in Conditions : sco'[c] = sco[c],
         NodesOf("Condition")' = NodesOf("Condition"),
         \A n \in NodesOf("Condition") : vec'[n].csco = vec[n].csco
  PROVE  NodesNumbered'
<1>1. /\ \A n \in NodesOf("Condition") : vec[n].csco \in Conditions /\ sco[vec[n].csco].node = n
      /\ Cardinality(NodesOf("Condition")) = Cardinality(Conditions)
  BY DEF NodesNumbered
<1>2. ASSUME NEW s \in Conditions
      PROVE  LET n == sco'[s].node
             IN  /\ sco'[s].index \in CondIndexes
                 /\ n \in NodesOf("Condition") /\ vec'[n].csco = s
                 /\ Cardinality({m \in NodesOf("Condition")' : m < n}) = sco'[s].index
  <2>1. LET n == sco[s].node
        IN  /\ sco[s].index \in CondIndexes
            /\ n \in NodesOf("Condition") /\ vec[n].csco = s
            /\ Cardinality({m \in NodesOf("Condition") : m < n}) = sco[s].index
    BY DEF NodesNumbered
  <2> QED
    BY <2>1
<1> QED
  BY <1>1, <1>2 DEF NodesNumbered

\* What the arcs pushed for operator x say, once arc a is popped; l is the jump
\* that stands for a right operand
OperandArcs(x, a, l) ==
  /\ arcs'[1].origin = a.origin
  /\ x.op = "Not" => arcs'[1].dests = Dests(a.dests[TRUE], a.dests[FALSE])
  /\ x.op # "Not" => /\ arcs'[1].dests = LeftDests(x.op, a, l)
                     /\ arcs'[2].dests = a.dests /\ arcs'[2].origin = l

LEMMA OperatorShape ==
  ASSUME TypeOK, TreeGrows, NodesNumbered, Shaped, arcs # <<>>, phase = "scan",
         phase' = phase, bdd' = bdd,
         NEW x \in SCODescriptor, x.kind = "Operator", sco' = WithSCO(x),
         NEW k \in 0..2, PushedFor(x, k), NEW l, OperandArcs(x, arcs[1], l),
         Ids \subseteq Ids', \A n \in Ids : vec'[n] = vec[n], l \in Ids',
         NodesOf("Condition")' = NodesOf("Condition")
  PROVE  TreeGrows' /\ NodesNumbered' /\ Shaped'
<1>1. x.kind # "Decision"
  OBVIOUS
<1>2. TreeGrows'
  BY <1>1, TreeStep
<1>3. /\ Conditions' = Conditions /\ CondIndexes' = CondIndexes
      /\ \A c \in Conditions : c \in 1..Len(sco) /\ sco'[c] = sco[c]
  BY OperatorEntry
<1>4. NodesOf("Condition") \subseteq Ids
  BY DEF NodesOf, Ids
<1>5. NodesNumbered'
  BY <1>3, <1>4, OperatorNumbers
<1>6. PICK N, a : N = Len(sco) /\ a = arcs[1]
  OBVIOUS
<1>7. /\ a.dests \in [BOOLEAN -> Ids] /\ a.origin \in Ids \cup {0} /\ N \in Nat
  BY <1>6, FirstArc DEF TypeOK
<1>8. PICK d \in [1..N -> [BOOLEAN -> Ids]], o \in [1..N -> Ids \cup {0}],
           j \in [1..N -> Ids] : Skeleton(d, o, j) /\ Reflects(d, o)
  BY <1>6 DEF Shaped
<1>9. PICK D, W : D = [BOOLEAN -> Ids'] /\ W = Ids' \cup {0}
  OBVIOUS
<1>10. d \in [1..N -> D] /\ o \in [1..N -> W] /\ j \in [1..N -> Ids'] /\ a.dests \in D /\ a.origin \in W
  <2>1. [BOOLEAN -> Ids] \subseteq D /\ Ids \cup {0} \subseteq W
    BY <1>9
  <2> QED
    BY <2>1, <1>7, <1>8
<1>11. PICK d2 : /\ d2 \in [1..(N + 1) -> D] /\ d2[N + 1] = a.dests
                 /\ \A s \in 1..N : d2[s] = d[s]
  <2>1. \A s \in 1..N : s # N + 1 /\ s \in 1..(N + 1)
    BY <1>7
  <2> DEFINE w == [s \in 1..(N + 1) |-> IF s = N + 1 THEN a.dests ELSE d[s]]
  <2>2. w \in [1..(N + 1) -> D] /\ w[N + 1] = a.dests /\ \A s \in 1..N : w[s] = d[s]
    BY <1>7, <1>10, <2>1
  <2> QED
    BY <2>2
<1>12. PICK o2 : /\ o2 \in [1..(N + 1) -> W] /\ o2[N + 1] = a.origin
                 /\ \A s \in 1..N : o2[s] = o[s]
  <2>1. \A s \in 1..N : s # N + 1 /\ s \in 1..(N + 1)
    BY <1>7
  <2> DEFINE w == [s \in 1..(N + 1) |-> IF s = N + 1 THEN a.origin ELSE o[s]]
  <2>2. w \in [1..(N + 1) -> W] /\ w[N + 1] = a.origin /\ \A s \in 1..N : w[s] = o[s]
    BY <1>7, <1>10, <2>1
  <2> QED
    BY <2>2
<1>13. PICK j2 : /\ j2 \in [1..(N + 1) -> Ids'] /\ j2[N + 1] = l
                 /\ \A s \in 1..N : j2[s] = j[s]
  <2>1. \A s \in 1..N : s # N + 1 /\ s \in 1..(N + 1)
    BY <1>7
  <2> DEFINE w == [s \in 1..(N + 1) |-> IF s = N + 1 THEN l ELSE j[s]]
  <2>2. w \in [1..(N + 1) -> Ids'] /\ w[N + 1] = l /\ \A s \in 1..N : w[s] = j[s]
    BY <1>7, <1>10, <2>1
  <2> QED
    BY <2>2
<1>14. Continues(d, o, j, d2, o2, j2, N, arcs[1])
  BY <1>6, <1>11, <1>12, <1>13 DEF Continues
<1>15. EntryAdded(x, N, a)
  BY <1>1, <1>6, EntryContents
<1>16. Len(sco') = N + 1 /\ sco'[N + 1].kind = "Operator" /\ sco'[N + 1].op = x.op
  BY <1>15 DEF EntryAdded
<1>17. PushedLead(d2, o2, j2, N + 1, k)
  <2> SUFFICES ASSUME NEW i \in 1..k
               PROVE  /\ arcs'[i].dests = LeadsTo(d2, j2, N + 1, arcs[i].pos)'
                      /\ arcs'[i].origin = StandsFor(o2, j2, N + 1, arcs[i].pos)'
    BY DEF PushedLead
  <2>1. CASE x.op = "Not"
    <3>1. i = 1 /\ arcs'[1].pos = "Right"
      BY <2>1 DEF PushedFor
    <3>2. LeadsTo(d2, j2, N + 1, "Right")' = Dests(a.dests[TRUE], a.dests[FALSE])
      BY <1>11, <1>16, <2>1 DEF LeadsTo
    <3>3. StandsFor(o2, j2, N + 1, "Right")' = a.origin
      BY <1>12, <1>16, <2>1 DEF StandsFor
    <3> QED
      BY <1>6, <2>1, <3>1, <3>2, <3>3 DEF OperandArcs
  <2>2. CASE x.op # "Not" /\ i = 1
    <3>1. arcs'[1].pos = "Left"
      BY <2>2 DEF PushedFor
    <3>2. LeadsTo(d2, j2, N + 1, "Left")' = LeftDests(x.op, a, l)
      BY <1>11, <1>13, <1>16, <2>2 DEF LeadsTo, LeftDests
    <3>3. StandsFor(o2, j2, N + 1, "Left")' = a.origin
      BY <1>12, <1>16, <2>2 DEF StandsFor
    <3> QED
      BY <1>6, <2>2, <3>1, <3>2, <3>3 DEF OperandArcs
  <2>3. CASE x.op # "Not" /\ i = 2
    <3>1. arcs'[2].pos = "Right"
      BY <2>3 DEF PushedFor
    <3>2. LeadsTo(d2, j2, N + 1, "Right")' = a.dests
      BY <1>11, <1>13, <1>16, <2>3 DEF LeadsTo
    <3>3. StandsFor(o2, j2, N + 1, "Right")' = l
      BY <1>13, <1>16, <2>3 DEF StandsFor
    <3> QED
      BY <1>6, <2>3, <3>1, <3>2, <3>3 DEF OperandArcs
  <2> QED
    BY <2>1, <2>2, <2>3
<1>18. Skeleton(d2, o2, j2)'
  BY <1>1, <1>6, <1>8, <1>14, <1>17, SkeletonStep
<1>19. Reflects(d2, o2)'
  <2>1. ASSUME NEW c \in Conditions
        PROVE  /\ sco'[c].node \in Ids /\ sco'[c].node = sco[c].node
               /\ d2[c] = d[c] /\ o2[c] = o[c] /\ o[c] \in Ids \cup {0}
    BY <1>3, <1>4, <1>6, <1>8, <1>11, <1>12 DEF NodesNumbered
  <2> QED
    BY <1>3, <1>8, <2>1 DEF Reflects
<1>20. Shaped'
  BY <1>9, <1>11, <1>12, <1>13, <1>16, <1>18, <1>19 DEF Shaped
<1> QED
  BY <1>2, <1>5, <1>20

LEMMA NotShape ==
  ASSUME IInv, TreeGrows, NodesNumbered, Shaped, ProcessNot
  PROVE  TreeGrows' /\ NodesNumbered' /\ Shaped'
<1>1. /\ phase = "scan" /\ arcs # <<>> /\ TypeOK
      /\ vec' = vec /\ bdd' = bdd /\ phase' = phase
  BY DEF IInv, ProcessNot, ScanEnds
<1>2. PICK x : x = OperatorSCO("Not")
  OBVIOUS
<1>3. /\ x \in SCODescriptor /\ x.kind = "Operator" /\ x.op = "Not" /\ sco' = WithSCO(x)
      /\ \A pos \in {"Left", "Right"} : x.operands[pos] = 0
  BY <1>2 DEF OperatorSCO, SCODescriptor, OperatorType, ProcessNot
<1>4. PICK N, a, y : /\ N = Len(sco) /\ a = arcs[1]
                     /\ y = Arc(Dests(a.dests[TRUE], a.dests[FALSE]), a.origin, N + 1, "Right")
  OBVIOUS
<1>5. /\ Len(arcs) \in Nat /\ a \in ArcType /\ a.dests \in [BOOLEAN -> Ids]
      /\ a.origin \in Ids \cup {0} /\ Head(arcs) = a /\ N \in Nat /\ 1 \in Ids
  BY <1>1, <1>4, FirstArc DEF TypeOK, Ids
<1>6. /\ y.dests = Dests(a.dests[TRUE], a.dests[FALSE]) /\ y.origin = a.origin
      /\ y.parent = N + 1 /\ y.pos = "Right"
  BY <1>4 DEF Arc
<1>7. y \in ArcType
  <2>1. a.dests[TRUE] \in Nat /\ a.dests[FALSE] \in Nat /\ a.origin \in Nat
    BY <1>5 DEF ArcType
  <2>2. PICK e : e = Dests(a.dests[TRUE], a.dests[FALSE])
    OBVIOUS
  <2>3. e \in [BOOLEAN -> Nat]
    BY <2>1, <2>2, DestsFacts
  <2>4. y = Arc(e, a.origin, N + 1, "Right") /\ N + 1 \in Nat
    BY <1>4, <1>5, <2>2
  <2> QED
    BY <2>1, <2>3, <2>4, ArcFacts
<1>8. arcs' = <<y>> \o Tail(arcs)
  BY <1>4, <1>5 DEF ProcessNot
<1>9. /\ arcs' \in Seq(ArcType) /\ Len(arcs') = Len(arcs) /\ arcs'[1] = y
      /\ \A i \in 2..Len(arcs) : arcs'[i] = arcs[i]
  BY <1>1, <1>7, <1>8, PopPush1 DEF TypeOK
<1>10. PushedFor(x, 1)
  <2>1. \A i \in 1..(Len(arcs) - 1) : arcs'[i + 1] = arcs[i + 1]
    <3>1. \A i \in 1..(Len(arcs) - 1) : i + 1 \in 2..Len(arcs)
      BY <1>5
    <3> QED
      BY <1>9, <3>1
  <2>2. /\ Len(arcs') = Len(arcs) - 1 + 1
        /\ arcs'[1].parent = Len(sco) + 1 /\ arcs'[1].pos = "Right"
    <3>1. Len(arcs') = Len(arcs) - 1 + 1
      BY <1>5, <1>9
    <3> QED
      BY <1>4, <1>6, <1>9, <3>1
  <2> QED
    BY <1>3, <2>1, <2>2 DEF PushedFor
<1>11. OperandArcs(x, arcs[1], 1)
  BY <1>3, <1>4, <1>6, <1>9 DEF OperandArcs
<1>12. /\ Ids \subseteq Ids' /\ \A n \in Ids : vec'[n] = vec[n]
       /\ 1 \in Ids' /\ NodesOf("Condition")' = NodesOf("Condition") /\ 1 \in 0..2
  BY <1>1, <1>5 DEF Ids, NodesOf
<1> QED
  BY <1>1, <1>3, <1>10, <1>11, <1>12, OperatorShape

LEMMA BinaryShape ==
  ASSUME IInv, TreeGrows, NodesNumbered, Shaped, NEW op \in {"AndThen", "OrElse"},
         ProcessBinary(op)
  PROVE  TreeGrows' /\ NodesNumbered' /\ Shaped'
<1>1. /\ phase = "scan" /\ arcs # <<>> /\ TypeOK /\ bdd' = bdd /\ phase' = phase
  BY DEF IInv, ProcessBinary, ScanEnds
<1>2. PICK x : x = OperatorSCO(op)
  OBVIOUS
<1>3. /\ x \in SCODescriptor /\ x.kind = "Operator" /\ x.op = op /\ sco' = WithSCO(x)
      /\ \A pos \in {"Left", "Right"} : x.operands[pos] = 0
  BY <1>2 DEF OperatorSCO, SCODescriptor, OperatorType, ProcessBinary
<1>4. PICK N, a, l, y, z :
        /\ N = Len(sco) /\ a = arcs[1] /\ l = Len(vec) + 1
        /\ y = Arc(LeftDests(op, a, l), a.origin, N + 1, "Left")
        /\ z = Arc(a.dests, l, N + 1, "Right")
  OBVIOUS
<1>5. /\ Len(arcs) \in Nat /\ a \in ArcType /\ a.dests \in [BOOLEAN -> Ids]
      /\ a.origin \in Ids \cup {0} /\ Head(arcs) = a /\ N \in Nat
      /\ Len(vec) \in Nat /\ l \in Nat /\ vec \in Seq(BDDNode)
  BY <1>1, <1>4, FirstArc DEF TypeOK
<1>6. /\ y.dests = LeftDests(op, a, l) /\ y.origin = a.origin
      /\ y.parent = N + 1 /\ y.pos = "Left"
      /\ z.dests = a.dests /\ z.origin = l /\ z.parent = N + 1 /\ z.pos = "Right"
  BY <1>4 DEF Arc
<1>7. y \in ArcType /\ z \in ArcType
  <2>1. /\ a.dests \in [BOOLEAN -> Nat] /\ a.origin \in Nat /\ N + 1 \in Nat
        /\ a.dests[TRUE] \in Nat /\ a.dests[FALSE] \in Nat
    <3>1. a.dests \in [BOOLEAN -> Nat] /\ a.origin \in Nat
      BY <1>5 DEF ArcType
    <3>2. N + 1 \in Nat
      BY <1>5
    <3>3. a.dests[TRUE] \in Nat /\ a.dests[FALSE] \in Nat
      BY <3>1
    <3> QED
      BY <3>1, <3>2, <3>3
  <2>2. LeftDests(op, a, l) \in [BOOLEAN -> Nat]
    BY <1>5, <2>1, DestsFacts DEF LeftDests
  <2>3. y \in ArcType
    BY <1>4, <2>1, <2>2, ArcFacts
  <2>4. z \in ArcType
    BY <1>4, <1>5, <2>1, ArcFacts
  <2> QED
    BY <2>3, <2>4
<1>8. arcs' = <<y, z>> \o Tail(arcs)
  BY <1>4, <1>5 DEF ProcessBinary
<1>9. /\ arcs' \in Seq(ArcType) /\ Len(arcs') = Len(arcs) + 1
      /\ arcs'[1] = y /\ arcs'[2] = z
      /\ \A i \in 3..(Len(arcs) + 1) : arcs'[i] = arcs[i - 1]
  BY <1>1, <1>7, <1>8, PopPush2 DEF TypeOK
<1>10. PushedFor(x, 2)
  <2>1. \A i \in 1..(Len(arcs) - 1) : arcs'[i + 2] = arcs[i + 1]
    <3>1. \A i \in 1..(Len(arcs) - 1) : i + 2 \in 3..(Len(arcs) + 1) /\ (i + 2) - 1 = i + 1
      BY <1>5
    <3> QED
      BY <1>9, <3>1
  <2>2. /\ Len(arcs') = Len(arcs) - 1 + 2
        /\ arcs'[1].parent = Len(sco) + 1 /\ arcs'[1].pos = "Left"
        /\ arcs'[2].parent = Len(sco) + 1 /\ arcs'[2].pos = "Right"
    BY <1>4, <1>5, <1>6, <1>9
  <2>3. \A i \in 1..2 : i = 1 \/ i = 2
    OBVIOUS
  <2> QED
    BY <1>3, <2>1, <2>2, <2>3 DEF PushedFor
<1>11. OperandArcs(x, arcs[1], l)
  BY <1>3, <1>4, <1>6, <1>9 DEF OperandArcs
<1>12. /\ Len(vec') = l /\ vec'[l] = JumpNode
       /\ \A n \in 1..Len(vec) : vec'[n] = vec[n]
  <2>1. vec' = Append(vec, JumpNode) /\ JumpNode \in BDDNode
    BY DEF ProcessBinary, JumpNode, BDDNode, JumpNodeType
  <2> QED
    BY <1>4, <1>5, <2>1, AppendFacts
<1>13. /\ Ids \subseteq Ids' /\ \A n \in Ids : vec'[n] = vec[n]
       /\ l \in Ids' /\ 2 \in 0..2
  BY <1>4, <1>5, <1>12 DEF Ids
<1>14. NodesOf("Condition")' = NodesOf("Condition")
  <2>1. l \notin NodesOf("Condition")'
    BY <1>12 DEF NodesOf, JumpNode
  <2>2. 1..l = (1..Len(vec)) \cup {l}
    BY <1>4, <1>5
  <2> QED
    BY <1>12, <2>1, <2>2 DEF NodesOf
<1> QED
  BY <1>1, <1>3, <1>10, <1>11, <1>13, <1>14, OperatorShape

----------------------------------------------------------------------------
(* The nodes once a condition is allocated, jumps patched or not.          *)

\* Where a node that leads to m during the scan leads once the phase is p
Now(p, v, m) == IF p = "scan" THEN m ELSE PatchJump(v, m)

ConditionAdded(a, n, c) ==
  /\ n = Len(vec) + 1 /\ Len(vec') = n /\ n \in Nat /\ a.origin \in Ids \cup {0}
  /\ phase' \in {"scan", "enumerate"}
  /\ \A m \in Ids :
       /\ vec'[m].kind = vec[m].kind
       /\ vec[m].kind = "Outcome" => vec'[m] = vec[m]
       /\ vec[m].kind = "Condition" =>
            /\ vec'[m].csco = vec[m].csco
            /\ \A b \in BOOLEAN : vec'[m].dests[b] = Now(phase', vec', vec[m].dests[b])
       /\ vec[m].kind = "Jump" /\ vec[m].dest # 0 => vec'[m].dest = vec[m].dest
  /\ vec'[n].kind = "Condition" /\ vec'[n].csco = c
  /\ \A b \in BOOLEAN : vec'[n].dests[b] = Now(phase', vec', a.dests[b])
  /\ IF a.origin = 0 THEN bdd'.root = n /\ bdd.root = 0
     ELSE /\ bdd'.root = bdd.root /\ bdd.root # 0
          /\ vec[a.origin].dest = 0
          /\ vec'[a.origin].kind = "Jump" /\ vec'[a.origin].dest = n

LEMMA ConditionNodes ==
  ASSUME IInv, NEW code \in ConditionCodes, ProcessCondition(code),
         NEW a, a = arcs[1], NEW n, n = Len(vec) + 1
  PROVE  ConditionAdded(a, n, Len(sco) + 1)
<1>1. PICK v, r : /\ v = WithCondition(Head(arcs), Len(sco) + 1)
                  /\ r = IF Head(arcs).origin = 0 THEN Len(vec) + 1 ELSE bdd.root
  OBVIOUS
<1>2. phase = "scan" /\ arcs # <<>> /\ TypeOK
  BY DEF IInv, ProcessCondition, ScanEnds
<1>3. /\ 1 \in 1..Len(arcs) /\ Len(arcs) \in Nat /\ Head(arcs) = a
      /\ a.dests \in [BOOLEAN -> Ids] /\ a.origin \in Ids \cup {0}
  BY <1>2, FirstArc
<1>4. /\ v \in Seq(BDDNode) /\ Len(v) = n /\ Len(vec) \in Nat
      /\ \A m \in Ids : v[m].kind = vec[m].kind /\ (m # a.origin => v[m] = vec[m])
      /\ v[n].kind = "Condition" /\ v[n].dests = a.dests /\ v[n].csco = Len(sco) + 1
      /\ a.origin # 0 => v[a.origin].kind = "Jump" /\ v[a.origin].dest = n
  BY <1>1, <1>2, WithConditionFacts DEF Ids
<1>5. n \in Nat /\ Ids = 1..(n - 1) /\ 1..n = Ids \cup {n} /\ n \notin Ids
  BY <1>4 DEF Ids
<1>6. /\ \A m \in 1..n : v[m].kind = "Jump" =>
           IF v[m].dest = 0 THEN \E i \in 2..Len(arcs) : arcs[i].origin = m
           ELSE v[m].dest \in 1..n /\ v[v[m].dest].kind = "Condition"
      /\ \A m \in 1..n, b \in BOOLEAN : v[m].kind = "Condition" => v[m].dests[b] \in 1..n
  BY <1>1, <1>2, WithConditionEdges
<1>7. /\ phase' \in {"scan", "enumerate"} /\ Len(vec') = n
      /\ \A m \in 1..n :
           /\ vec'[m].kind = v[m].kind
           /\ v[m].kind = "Outcome" => vec'[m] = v[m]
           /\ v[m].kind = "Jump" => vec'[m].dest = v[m].dest
           /\ v[m].kind = "Condition" =>
                /\ vec'[m].csco = v[m].csco
                /\ \A b \in BOOLEAN : vec'[m].dests[b] = Now(phase', vec', v[m].dests[b])
  <2>1. CASE Len(arcs) # 1
    <3>1. vec' = v /\ phase' = "scan"
      BY <1>1, <1>2, <2>1 DEF ProcessCondition
    <3> QED
      BY <1>4, <3>1 DEF Now
  <2>2. CASE Len(arcs) = 1
    <3>1. vec' = PatchJumps(v) /\ phase' = "enumerate"
      BY <1>1, <2>2 DEF ProcessCondition
    <3>2. \A m \in 1..Len(v) : v[m].kind = "Jump" =>
            v[m].dest \in 1..Len(v) /\ v[v[m].dest].kind = "Condition"
      <4>1. 2..Len(arcs) = {}
        BY <2>2
      <4> QED
        BY <1>4, <1>6, <4>1
    <3>3. \A m \in 1..Len(v), b \in BOOLEAN :
            v[m].kind = "Condition" => v[m].dests[b] \in 1..Len(v)
      BY <1>4, <1>6
    <3>4. /\ Len(vec') = n
          /\ \A m \in 1..n :
               /\ vec'[m].kind = v[m].kind
               /\ v[m].kind = "Outcome" => vec'[m] = v[m]
               /\ v[m].kind = "Jump" => vec'[m].dest = v[m].dest
               /\ v[m].kind = "Condition" =>
                    /\ \A b \in BOOLEAN : vec'[m].dests[b] = PatchJump(v, v[m].dests[b])
                    /\ vec'[m].csco = v[m].csco
      BY <1>4, <3>1, <3>2, <3>3, PatchFacts
    <3>5. \A m \in 1..n : PatchJump(vec', m) = PatchJump(v, m)
      BY <3>4 DEF PatchJump
    <3>6. \A m : Now(phase', vec', m) = PatchJump(vec', m)
      BY <3>1 DEF Now
    <3> QED
      BY <1>6, <3>1, <3>4, <3>5, <3>6
  <2> QED
    BY <2>1, <2>2
<1>8. /\ a.origin = 0 => bdd.root = 0
      /\ a.origin # 0 => bdd.root # 0 /\ vec[a.origin] = JumpNode
  BY <1>3 DEF IInv, JumpsResolved
<1>9. bdd'.root = r
  <2>1. bdd' = [bdd EXCEPT !.root = r] /\ bdd \in BDDType
    BY <1>1, <1>2 DEF ProcessCondition, TypeOK
  <2> QED
    BY <2>1 DEF BDDType
<1>10. IF a.origin = 0 THEN bdd'.root = n /\ bdd.root = 0
       ELSE /\ bdd'.root = bdd.root /\ bdd.root # 0
            /\ vec[a.origin].dest = 0
            /\ vec'[a.origin].kind = "Jump" /\ vec'[a.origin].dest = n
  <2>1. CASE a.origin = 0
    BY <1>1, <1>3, <1>8, <1>9, <2>1
  <2>2. CASE a.origin # 0
    <3>1. a.origin \in 1..n /\ vec[a.origin].dest = 0
      BY <1>3, <1>5, <1>8, <2>2 DEF JumpNode
    <3> QED
      BY <1>1, <1>3, <1>4, <1>7, <1>8, <1>9, <2>2, <3>1
  <2> QED
    BY <2>1, <2>2
<1>11. ASSUME NEW m \in Ids
       PROVE  /\ vec'[m].kind = vec[m].kind
              /\ vec[m].kind = "Outcome" => vec'[m] = vec[m]
              /\ vec[m].kind = "Condition" =>
                   /\ vec'[m].csco = vec[m].csco
                   /\ \A b \in BOOLEAN : vec'[m].dests[b] = Now(phase', vec', vec[m].dests[b])
              /\ vec[m].kind = "Jump" /\ vec[m].dest # 0 => vec'[m].dest = vec[m].dest
  <2>1. m \in 1..n /\ v[m].kind = vec[m].kind
    BY <1>4, <1>5
  <2>2. CASE m = a.origin
    <3>1. vec[m].kind = "Jump" /\ vec[m].dest = 0
      BY <1>4, <1>5, <1>8, <2>2 DEF JumpNode, Ids
    <3>2. vec'[m].kind = vec[m].kind
      BY <1>7, <2>1
    <3> QED
      BY <3>1, <3>2
  <2>3. CASE m # a.origin
    <3>1. v[m] = vec[m]
      BY <1>4, <2>3
    <3> QED
      BY <1>7, <2>1, <3>1
  <2> QED
    BY <2>2, <2>3
<1>12. /\ vec'[n].kind = "Condition" /\ vec'[n].csco = Len(sco) + 1
       /\ \A b \in BOOLEAN : vec'[n].dests[b] = Now(phase', vec', a.dests[b])
  <2>1. n \in 1..n
    BY <1>5
  <2> QED
    BY <1>4, <1>7, <2>1
<1> QED
  BY <1>3, <1>5, <1>7, <1>10, <1>11, <1>12 DEF ConditionAdded

\* The conditions and the nodes once one is added
LEMMA ConditionEntry ==
  ASSUME TypeOK, TreeGrows, arcs # <<>>, NEW x \in SCODescriptor, x.kind = "Condition",
         sco' = WithSCO(x), NEW N, N = Len(sco)
  PROVE  /\ N \in Nat /\ Conditions' = Conditions \cup {N + 1} /\ N + 1 \notin Conditions
         /\ \A s \in Conditions : sco'[s] = sco[s] /\ s \in 1..N
         /\ sco'[N + 1].index = x.index /\ sco'[N + 1].node = x.node
         /\ sco'[N + 1].value = x.value
         /\ Cardinality(Conditions) \in Nat
         /\ Cardinality(Conditions') = Cardinality(Conditions) + 1
         /\ CondIndexes = 0..(Cardinality(Conditions) - 1)
         /\ CondIndexes' = 0..Cardinality(Conditions)
<1>1. PICK a : a = arcs[1]
  OBVIOUS
<1>2. EntryAdded(x, N, a)
  BY <1>1, EntryContents
<1>3. /\ N \in Nat /\ Len(sco') = N + 1 /\ sco'[N + 1].kind = "Condition"
      /\ sco'[N + 1].index = x.index /\ sco'[N + 1].node = x.node
      /\ sco'[N + 1].value = x.value
      /\ \A s \in 1..N : /\ sco'[s].kind = sco[s].kind
                         /\ sco[s].kind = "Condition" => sco'[s] = sco[s]
  BY <1>2 DEF EntryAdded
<1>4. 1..(N + 1) = (1..N) \cup {N + 1} /\ N + 1 \notin 1..N
  BY <1>3
<1>5. Conditions' = Conditions \cup {N + 1} /\ N + 1 \notin Conditions
  BY <1>3, <1>4 DEF Conditions
<1>6. IsFiniteSet(Conditions)
  <2>1. IsFiniteSet(1..N) /\ Conditions \subseteq 1..N
    BY <1>3, FS_Interval DEF Conditions
  <2> QED
    BY <2>1, FS_Subset
<1>7. /\ Cardinality(Conditions) \in Nat
      /\ Cardinality(Conditions \cup {N + 1}) = Cardinality(Conditions) + 1
  BY <1>5, <1>6, FS_AddElement, FS_CardinalityType
<1>8. \A s \in Conditions : sco'[s] = sco[s] /\ s \in 1..N
  BY <1>3 DEF Conditions
<1>9. PICK k : k = Cardinality(Conditions)
  OBVIOUS
<1>10. CondIndexes = 0..(k - 1) /\ CondIndexes' = 0..k
  <2>1. Cardinality(Conditions') = k + 1 /\ k \in Nat
    BY <1>5, <1>7, <1>9
  <2>2. (k + 1) - 1 = k
    BY <2>1
  <2> QED
    BY <1>9, <2>1, <2>2 DEF CondIndexes, LastCondIndex
<1> QED
  BY <1>3, <1>5, <1>7, <1>8, <1>9, <1>10

LEMMA ConditionNumbers ==
  ASSUME TypeOK, TreeGrows, NodesNumbered, arcs # <<>>,
         NEW x \in SCODescriptor, x.kind = "Condition", sco' = WithSCO(x),
         NEW n, n = Len(vec) + 1, x.index = Cardinality(Conditions), x.node = n,
         NEW a, ConditionAdded(a, n, Len(sco) + 1)
  PROVE  NodesNumbered'
<1>1. PICK N : N = Len(sco)
  OBVIOUS
<1>2. /\ N \in Nat /\ Conditions' = Conditions \cup {N + 1} /\ N + 1 \notin Conditions
      /\ \A s \in Conditions : sco'[s] = sco[s] /\ s \in 1..N
      /\ sco'[N + 1].index = Cardinality(Conditions) /\ sco'[N + 1].node = n
      /\ Cardinality(Conditions) \in Nat
      /\ Cardinality(Conditions') = Cardinality(Conditions) + 1
      /\ CondIndexes = 0..(Cardinality(Conditions) - 1)
      /\ CondIndexes' = 0..Cardinality(Conditions)
  BY <1>1, ConditionEntry
<1>3. /\ Len(vec') = n /\ n \in Nat /\ vec'[n].kind = "Condition" /\ vec'[n].csco = N + 1
      /\ \A m \in Ids :
           /\ vec'[m].kind = vec[m].kind
           /\ vec[m].kind = "Condition" => vec'[m].csco = vec[m].csco
  BY <1>1 DEF ConditionAdded
<1>4. Ids = 1..(n - 1) /\ 1..n = Ids \cup {n} /\ n \notin Ids
  BY <1>3 DEF Ids, TypeOK
<1>5. /\ NodesOf("Condition")' = NodesOf("Condition") \cup {n} /\ n \notin NodesOf("Condition")
      /\ NodesOf("Condition") \subseteq Ids
  BY <1>3, <1>4 DEF NodesOf, Ids
<1>6. IsFiniteSet(NodesOf("Condition"))
  <2>1. IsFiniteSet(1..(n - 1)) /\ NodesOf("Condition") \subseteq 1..(n - 1)
    BY <1>3, <1>4, <1>5, FS_Interval
  <2> QED
    BY <2>1, FS_Subset
<1>7. Cardinality(NodesOf("Condition")') = Cardinality(NodesOf("Condition")) + 1
  BY <1>5, <1>6, FS_AddElement
<1>8. ASSUME NEW s \in Conditions'
      PROVE  LET m == sco'[s].node
             IN  /\ sco'[s].index \in CondIndexes'
                 /\ m \in NodesOf("Condition")' /\ vec'[m].csco = s
                 /\ Cardinality({i \in NodesOf("Condition")' : i < m}) = sco'[s].index
  <2>1. CASE s = N + 1
    <3>1. {i \in NodesOf("Condition")' : i < n} = NodesOf("Condition")
      BY <1>3, <1>4, <1>5
    <3>2. Cardinality(NodesOf("Condition")) = Cardinality(Conditions)
      BY DEF NodesNumbered
    <3>3. Cardinality(Conditions) \in 0..Cardinality(Conditions)
      BY <1>2
    <3> QED
      BY <1>2, <1>3, <1>5, <2>1, <3>1, <3>2, <3>3
  <2>2. CASE s \in Conditions
    <3>1. PICK m : m = sco[s].node
      OBVIOUS
    <3>2. /\ sco[s].index \in CondIndexes
          /\ m \in NodesOf("Condition") /\ vec[m].csco = s
          /\ Cardinality({i \in NodesOf("Condition") : i < m}) = sco[s].index
      BY <2>2, <3>1 DEF NodesNumbered
    <3>3. m \in Ids /\ vec[m].kind = "Condition" /\ ~(n < m)
      BY <1>3, <1>4, <1>5, <3>2 DEF NodesOf
    <3>4. {i \in NodesOf("Condition")' : i < m} = {i \in NodesOf("Condition") : i < m}
      BY <1>5, <3>3
    <3>5. sco[s].index \in CondIndexes'
      BY <1>2, <3>2
    <3> QED
      BY <1>2, <1>3, <1>5, <2>2, <3>1, <3>2, <3>3, <3>4, <3>5
  <2> QED
    BY <1>2, <2>1, <2>2
<1>9. ASSUME NEW m \in NodesOf("Condition")'
      PROVE  vec'[m].csco \in Conditions' /\ sco'[vec'[m].csco].node = m
  <2>1. CASE m = n
    BY <1>2, <1>3, <2>1
  <2>2. CASE m \in NodesOf("Condition")
    <3>1. vec[m].csco \in Conditions /\ sco[vec[m].csco].node = m
      BY <2>2 DEF NodesNumbered
    <3>2. vec'[m].csco = vec[m].csco
      BY <1>3, <1>5, <2>2 DEF NodesOf
    <3> QED
      BY <1>2, <3>1, <3>2
  <2> QED
    BY <1>5, <2>1, <2>2
<1>10. Cardinality(NodesOf("Condition")') = Cardinality(Conditions')
  BY <1>2, <1>7 DEF NodesNumbered
<1> QED
  BY <1>8, <1>9, <1>10 DEF NodesNumbered

LEMMA ConditionReflects ==
  ASSUME TypeOK, NodesNumbered, phase = "scan", NEW d, NEW o, Reflects(d, o),
         \A s \in Conditions : o[s] \in Ids \cup {0},
         NEW a, NEW n, NEW N, ConditionAdded(a, n, N + 1),
         Conditions' = Conditions \cup {N + 1},
         \A s \in Conditions : sco'[s] = sco[s], sco'[N + 1].node = n,
         \A s \in Conditions : s \in 1..N,
         NEW j, NEW d2, NEW o2, NEW j2, Continues(d, o, j, d2, o2, j2, N, a)
  PROVE  Reflects(d2, o2)'
<1> SUFFICES ASSUME NEW c \in Conditions'
             PROVE  LET m == sco'[c].node
                    IN  /\ \A b \in BOOLEAN : vec'[m].dests[b] = Now(phase', vec', d2[c][b])
                        /\ IF o2[c] = 0 THEN bdd'.root = m
                           ELSE vec'[o2[c]].kind = "Jump" /\ vec'[o2[c]].dest = m
  BY DEF Reflects, Now
<1>1. CASE c = N + 1
  BY <1>1 DEF ConditionAdded, Continues
<1>2. CASE c \in Conditions
  <2>1. PICK m : m = sco[c].node
    OBVIOUS
  <2>2. /\ m \in Ids /\ vec[m].kind = "Condition" /\ sco'[c].node = m
        /\ d2[c] = d[c] /\ o2[c] = o[c] /\ o[c] \in Ids \cup {0}
    BY <1>2, <2>1 DEF NodesNumbered, NodesOf, Ids, Continues
  <2>3. /\ \A b \in BOOLEAN : vec[m].dests[b] = d[c][b]
        /\ IF o[c] = 0 THEN bdd.root = m ELSE vec[o[c]].kind = "Jump" /\ vec[o[c]].dest = m
    BY <1>2, <2>1 DEF Reflects
  <2>4. \A b \in BOOLEAN : vec'[m].dests[b] = Now(phase', vec', d2[c][b])
    BY <2>2, <2>3 DEF ConditionAdded
  <2>5. m # 0
    BY <2>2 DEF Ids
  <2>6. CASE o[c] = 0
    <3>1. bdd.root # 0 /\ bdd.root = m
      BY <2>3, <2>5, <2>6
    <3>2. bdd'.root = m
      BY <3>1 DEF ConditionAdded
    <3> QED
      BY <2>2, <2>4, <2>6, <3>2
  <2>7. CASE o[c] # 0
    <3>1. o[c] \in Ids /\ vec[o[c]].kind = "Jump" /\ vec[o[c]].dest = m
      BY <2>2, <2>3, <2>7
    <3>2. vec'[o[c]].kind = "Jump" /\ vec'[o[c]].dest = m
      BY <2>5, <3>1 DEF ConditionAdded
    <3> QED
      BY <2>2, <2>4, <2>7, <3>2
  <2> QED
    BY <2>6, <2>7
<1> QED
  BY <1>1, <1>2

LEMMA ConditionShape ==
  ASSUME IInv, TreeGrows, NodesNumbered, Shaped, NEW code \in ConditionCodes,
         ProcessCondition(code)
  PROVE  TreeGrows' /\ NodesNumbered' /\ Shaped'
<1>1. phase = "scan" /\ arcs # <<>> /\ TypeOK
  BY DEF IInv, ProcessCondition, ScanEnds
<1>2. PICK N, n, a, x :
        /\ N = Len(sco) /\ n = Len(vec) + 1 /\ a = arcs[1]
        /\ x = ConditionSCO(ConditionValue(code), Cardinality(Conditions), n)
  OBVIOUS
<1>3. /\ x \in SCODescriptor /\ x.kind = "Condition" /\ sco' = WithSCO(x)
      /\ x.index = Cardinality(Conditions) /\ x.node = n
  <2>1. x \in SCODescriptor /\ x.kind = "Condition"
    BY <1>1, <1>2, ConditionSCOFacts
  <2>2. sco' = WithSCO(x)
    BY <1>2 DEF ProcessCondition
  <2>3. x.index = Cardinality(Conditions) /\ x.node = n
    BY <1>2 DEF ConditionSCO
  <2> QED
    BY <2>1, <2>2, <2>3
<1>4. /\ 1 \in 1..Len(arcs) /\ Len(arcs) \in Nat /\ N \in Nat
      /\ a.dests \in [BOOLEAN -> Ids] /\ a.origin \in Ids \cup {0}
  BY <1>1, <1>2, FirstArc DEF TypeOK
<1>5. PushedFor(x, 0)
  <2>1. arcs' = Tail(arcs) /\ arcs \in Seq(ArcType)
    BY <1>1 DEF ProcessCondition, TypeOK
  <2>2. /\ Len(arcs') = Len(arcs) - 1
        /\ \A i \in 1..(Len(arcs) - 1) : arcs'[i] = arcs[i + 1]
    BY <1>1, <2>1, Pop
  <2>3. Len(arcs') = Len(arcs) - 1 + 0 /\ \A i \in 1..(Len(arcs) - 1) : i + 0 = i
    BY <1>4, <2>2
  <2> QED
    BY <1>3, <2>2, <2>3 DEF PushedFor
<1>6. ConditionAdded(a, n, N + 1)
  BY <1>2, ConditionNodes
<1>7. 0 \in 0..2 /\ x.kind # "Decision"
  BY <1>3
<1>8. TreeGrows'
  BY <1>1, <1>3, <1>5, <1>7, TreeStep
<1>9. NodesNumbered'
  BY <1>1, <1>2, <1>3, <1>6, ConditionNumbers
<1>10. /\ Conditions' = Conditions \cup {N + 1}
       /\ \A s \in Conditions : sco'[s] = sco[s] /\ s \in 1..N
       /\ sco'[N + 1].node = n
  BY <1>1, <1>2, <1>3, ConditionEntry
<1>11. PICK d \in [1..N -> [BOOLEAN -> Ids]], o \in [1..N -> Ids \cup {0}],
            j \in [1..N -> Ids] : Skeleton(d, o, j) /\ Reflects(d, o)
  BY <1>2 DEF Shaped
<1>12. Ids \subseteq Ids' /\ 1 \in Ids'
  BY <1>1, <1>6 DEF ConditionAdded, Ids, TypeOK
<1>13. PICK D, W : D = [BOOLEAN -> Ids'] /\ W = Ids' \cup {0}
  OBVIOUS
<1>14. /\ d \in [1..N -> D] /\ o \in [1..N -> W] /\ j \in [1..N -> Ids']
       /\ a.dests \in D /\ a.origin \in W
  <2>1. [BOOLEAN -> Ids] \subseteq D /\ Ids \cup {0} \subseteq W
    BY <1>12, <1>13
  <2> QED
    BY <1>4, <1>11, <1>12, <2>1
<1>15. \A s \in 1..N : s # N + 1 /\ s \in 1..(N + 1)
  BY <1>4
<1>16. PICK d2 : /\ d2 \in [1..(N + 1) -> D] /\ d2[N + 1] = a.dests
                 /\ \A s \in 1..N : d2[s] = d[s]
  <2> DEFINE w == [s \in 1..(N + 1) |-> IF s = N + 1 THEN a.dests ELSE d[s]]
  <2>1. w \in [1..(N + 1) -> D] /\ w[N + 1] = a.dests /\ \A s \in 1..N : w[s] = d[s]
    BY <1>4, <1>14, <1>15
  <2> QED
    BY <2>1
<1>17. PICK o2 : /\ o2 \in [1..(N + 1) -> W] /\ o2[N + 1] = a.origin
                 /\ \A s \in 1..N : o2[s] = o[s]
  <2> DEFINE w == [s \in 1..(N + 1) |-> IF s = N + 1 THEN a.origin ELSE o[s]]
  <2>1. w \in [1..(N + 1) -> W] /\ w[N + 1] = a.origin /\ \A s \in 1..N : w[s] = o[s]
    BY <1>4, <1>14, <1>15
  <2> QED
    BY <2>1
<1>18. PICK j2 : /\ j2 \in [1..(N + 1) -> Ids'] /\ \A s \in 1..N : j2[s] = j[s]
  <2> DEFINE w == [s \in 1..(N + 1) |-> IF s = N + 1 THEN 1 ELSE j[s]]
  <2>1. w \in [1..(N + 1) -> Ids'] /\ \A s \in 1..N : w[s] = j[s]
    BY <1>4, <1>12, <1>14, <1>15
  <2> QED
    BY <2>1
<1>19. Continues(d, o, j, d2, o2, j2, N, arcs[1])
  BY <1>2, <1>16, <1>17, <1>18 DEF Continues
<1>20. PushedLead(d2, o2, j2, N + 1, 0)
  BY DEF PushedLead
<1>21. Skeleton(d2, o2, j2)'
  BY <1>1, <1>2, <1>3, <1>5, <1>7, <1>11, <1>19, <1>20, SkeletonStep
<1>22. \A s \in Conditions : o[s] \in Ids \cup {0}
  BY <1>10, <1>11
<1>23. Reflects(d2, o2)'
  <2>1. Reflects(d, o) /\ Continues(d, o, j, d2, o2, j2, N, a)
    BY <1>2, <1>11, <1>19
  <2> QED
    BY <1>1, <1>6, <1>10, <1>22, <2>1, ConditionReflects
<1>24. Len(sco') = N + 1
  <2>1. EntryAdded(x, N, a)
    BY <1>1, <1>2, <1>3, <1>7, EntryContents
  <2> QED
    BY <2>1 DEF EntryAdded
<1>25. Shaped'
  BY <1>13, <1>16, <1>17, <1>18, <1>21, <1>23, <1>24 DEF Shaped
<1> QED
  BY <1>8, <1>9, <1>25

\* The tree and its skeleton depend on the entries and the arcs only
LEMMA TreeKept ==
  ASSUME sco' = sco, arcs' = arcs
  PROVE  /\ TreeGrows => TreeGrows'
         /\ \A d, o, j : Skeleton(d, o, j) => Skeleton(d, o, j)'
<1>1. ASSUME NEW s, NEW p, NEW pos PROVE IsOperand(s, p, pos)' <=> IsOperand(s, p, pos)
  BY DEF IsOperand, OperandOf, Positions
<1>2. ASSUME NEW p, NEW pos
      PROVE  OperandOf(p, pos)' = OperandOf(p, pos) /\ Positions(p)' = Positions(p)
  BY DEF OperandOf, Positions
<1>3. TreeGrows => TreeGrows'
  BY <1>1, <1>2 DEF TreeGrows
<1>4. ASSUME NEW d, NEW o, NEW j, NEW p, NEW pos
      PROVE  /\ LeadsTo(d, j, p, pos)' = LeadsTo(d, j, p, pos)
             /\ StandsFor(o, j, p, pos)' = StandsFor(o, j, p, pos)
  BY DEF LeadsTo, StandsFor
<1>5. ASSUME NEW d, NEW o, NEW j, Skeleton(d, o, j) PROVE Skeleton(d, o, j)'
  <2>1. ASSUME NEW p \in 1..Len(sco), NEW s \in 2..Len(sco), NEW pos \in {"Left", "Right"},
               IsOperand(s, p, pos)'
        PROVE  d[s] = LeadsTo(d, j, p, pos)' /\ o[s] = StandsFor(o, j, p, pos)'
    <3>1. d[s] = LeadsTo(d, j, p, pos) /\ o[s] = StandsFor(o, j, p, pos)
      BY <1>1, <1>5, <2>1 DEF Skeleton
    <3> QED
      BY <1>4, <3>1
  <2>2. ASSUME NEW i \in 1..Len(arcs)
        PROVE  /\ arcs'[i].dests = LeadsTo(d, j, arcs[i].parent, arcs[i].pos)'
               /\ arcs'[i].origin = StandsFor(o, j, arcs[i].parent, arcs[i].pos)'
    <3>1. /\ arcs[i].dests = LeadsTo(d, j, arcs[i].parent, arcs[i].pos)
          /\ arcs[i].origin = StandsFor(o, j, arcs[i].parent, arcs[i].pos)
      BY <1>5 DEF Skeleton
    <3> QED
      BY <1>4, <3>1
  <2> QED
    BY <1>5, <2>1, <2>2 DEF Skeleton
<1> QED
  BY <1>3, <1>5

\* Enumerating the paths leaves the shape as it is
LEMMA EnumerationShape ==
  ASSUME IInv, TreeGrows, NodesNumbered, Shaped, phase # "scan", phase' # "scan", NodesKept
  PROVE  TreeGrows' /\ NodesNumbered' /\ Shaped'
<1>1. sco' = sco /\ arcs' = arcs /\ Ids' = Ids /\ bdd'.root = bdd.root
  BY DEF NodesKept, Ids
<1>2. TreeGrows'
  BY <1>1, TreeKept
<1>3. /\ \A m \in Ids :
           /\ vec'[m].kind = vec[m].kind
           /\ vec[m].kind = "Condition" => vec'[m].csco = vec[m].csco /\ vec'[m].dests = vec[m].dests
           /\ vec[m].kind # "Condition" => vec'[m] = vec[m]
      /\ Conditions' = Conditions /\ CondIndexes' = CondIndexes
      /\ NodesOf("Condition")' = NodesOf("Condition") /\ NodesOf("Condition") \subseteq Ids
  BY <1>1 DEF NodesKept, Ids, Conditions, CondIndexes, LastCondIndex, NodesOf
<1>4. NodesNumbered'
  <2>1. /\ \A c \in Conditions : sco'[c] = sco[c]
        /\ \A n \in NodesOf("Condition") : vec'[n].csco = vec[n].csco
    BY <1>1, <1>3 DEF NodesOf, Ids
  <2> QED
    BY <1>3, <2>1, OperatorNumbers
<1>5. PICK d \in [1..Len(sco) -> [BOOLEAN -> Ids]], o \in [1..Len(sco) -> Ids \cup {0}],
           j \in [1..Len(sco) -> Ids] : Skeleton(d, o, j) /\ Reflects(d, o)
  BY DEF Shaped
<1>6. Skeleton(d, o, j)'
  BY <1>1, <1>5, TreeKept
<1>7. Reflects(d, o)'
  <2> SUFFICES ASSUME NEW c \in Conditions
               PROVE  LET n == sco[c].node
                      IN  /\ \A b \in BOOLEAN : vec'[n].dests[b] = PatchJump(vec', d[c][b])
                          /\ IF o[c] = 0 THEN bdd'.root = n
                             ELSE vec'[o[c]].kind = "Jump" /\ vec'[o[c]].dest = n
    BY <1>1, <1>3 DEF Reflects
  <2>1. PICK n : n = sco[c].node
    OBVIOUS
  <2>2. n \in Ids /\ vec[n].kind = "Condition" /\ c \in 1..Len(sco)
    BY <2>1 DEF NodesNumbered, NodesOf, Ids, Conditions
  <2>3. /\ \A b \in BOOLEAN : vec[n].dests[b] = PatchJump(vec, d[c][b])
        /\ IF o[c] = 0 THEN bdd.root = n ELSE vec[o[c]].kind = "Jump" /\ vec[o[c]].dest = n
    BY <1>5, <2>1 DEF Reflects
  <2>4. \A b \in BOOLEAN : d[c][b] \in Ids
    BY <1>5, <2>2
  <2>5. \A m \in Ids : PatchJump(vec', m) = PatchJump(vec, m)
    BY <1>3 DEF PatchJump
  <2>6. \A b \in BOOLEAN : vec'[n].dests[b] = PatchJump(vec', d[c][b])
    BY <1>3, <2>2, <2>3, <2>4, <2>5
  <2>7. o[c] \in Ids \cup {0}
    BY <1>5, <2>2
  <2> QED
    BY <1>1, <1>3, <2>1, <2>3, <2>6, <2>7
<1>8. Shaped'
  BY <1>1, <1>5, <1>6, <1>7 DEF Shaped
<1> QED
  BY <1>2, <1>4, <1>8

LEMMA InitShape == Init => TreeGrows /\ NodesNumbered /\ Shaped
<1> SUFFICES ASSUME Init PROVE TreeGrows /\ NodesNumbered /\ Shaped
  OBVIOUS
<1>1. /\ Len(sco) = 1 /\ sco[1] = [kind |-> "Decision", expr |-> 0, parent |-> 0]
      /\ Len(vec) = 2 /\ vec[1].kind = "Outcome" /\ vec[2].kind = "Outcome"
      /\ Len(arcs) = 1 /\ arcs[1] = Arc(Dests(ExitFalse, ExitTrue), 0, 1, "Right")
  BY DEF Init, OutcomeNode
<1>2. /\ arcs[1].dests = Dests(ExitFalse, ExitTrue) /\ arcs[1].origin = 0
      /\ arcs[1].parent = 1 /\ arcs[1].pos = "Right"
  BY <1>1 DEF Arc
<1>3. 1..1 = {1} /\ 2..1 = {} /\ 1..2 = {1, 2}
  OBVIOUS
<1>4. Positions(1) = {"Right"} /\ OperandOf(1, "Right") = 0 /\ sco[1].kind = "Decision"
  BY <1>1 DEF Positions, OperandOf
<1>5. TreeGrows
  BY <1>1, <1>2, <1>3, <1>4 DEF TreeGrows, IsOperand, Decision
<1>6. Conditions = {} /\ NodesOf("Condition") = {}
  BY <1>1, <1>3, <1>4 DEF Conditions, NodesOf
<1>7. NodesNumbered
  BY <1>6 DEF NodesNumbered
<1>8. PICK d, o, j : /\ d = [s \in 1..1 |-> Dests(ExitFalse, ExitTrue)]
                     /\ o = [s \in 1..1 |-> 0] /\ j = [s \in 1..1 |-> 1]
  OBVIOUS
<1>9. Ids = {1, 2} /\ Dests(ExitFalse, ExitTrue) \in [BOOLEAN -> Ids]
  BY <1>1, <1>3 DEF Ids, Dests, ExitFalse, ExitTrue
<1>10. /\ d \in [1..Len(sco) -> [BOOLEAN -> Ids]]
       /\ o \in [1..Len(sco) -> Ids \cup {0}] /\ j \in [1..Len(sco) -> Ids]
       /\ d[1] = Dests(ExitFalse, ExitTrue) /\ o[1] = 0
  BY <1>1, <1>3, <1>8, <1>9
<1>11. Skeleton(d, o, j)
  BY <1>1, <1>2, <1>3, <1>4, <1>10 DEF Skeleton, Decision, LeadsTo, StandsFor
<1>12. Reflects(d, o)
  BY <1>6 DEF Reflects
<1> QED
  BY <1>5, <1>7, <1>10, <1>11, <1>12 DEF Shaped

\* No step changes the exits
LEMMA ExitsStep == IInv /\ ExitsFixed /\ [Next]_vars => ExitsFixed'
<1> SUFFICES ASSUME IInv, ExitsFixed, [Next]_vars PROVE ExitsFixed'
  OBVIOUS
<1>1. ExitFalse \in Ids /\ ExitTrue \in Ids
  BY DEF IInv, TypeOK, Ids, ExitFalse, ExitTrue
<1>2. /\ vec[ExitFalse].kind = "Outcome" /\ vec[ExitTrue].kind = "Outcome"
  BY DEF ExitsFixed, OutcomeNode
<1>3. ASSUME \A m \in Ids : vec[m].kind = "Outcome" => vec'[m] = vec[m]
      PROVE  ExitsFixed'
  BY <1>1, <1>2, <1>3 DEF ExitsFixed
<1>4. CASE vec' = vec
  BY <1>4 DEF ExitsFixed
<1>5. CASE \E op \in {"AndThen", "OrElse"} : ProcessBinary(op)
  <2>1. vec' = Append(vec, JumpNode) /\ vec \in Seq(BDDNode) /\ JumpNode \in BDDNode
    BY <1>5 DEF ProcessBinary, JumpNode, BDDNode, JumpNodeType, IInv, TypeOK
  <2> QED
    BY <1>3, <2>1, AppendFacts DEF Ids
<1>6. CASE \E code \in ConditionCodes : ProcessCondition(code)
  <2>1. PICK code \in ConditionCodes : ProcessCondition(code)
    BY <1>6
  <2>2. PICK a, n : a = arcs[1] /\ n = Len(vec) + 1
    OBVIOUS
  <2>3. ConditionAdded(a, n, Len(sco) + 1)
    BY <2>1, <2>2, ConditionNodes
  <2> QED
    BY <1>3, <2>3 DEF ConditionAdded
<1>7. CASE EnumeratePaths
  <2>1. NodesKept
    BY <1>7, VisitOutcomeInv, VisitAgainInv, VisitFirstInv, VisitEdgeInv, VisitReturnInv,
       EnumeratedInv DEF EnumeratePaths
  <2> QED
    BY <1>3, <2>1 DEF NodesKept
<1> QED
  BY <1>4, <1>5, <1>6, <1>7 DEF Next, ProcessNot, vars

\* The BDD keeps the shape of the expression, whatever its size.
THEOREM PathInvariance == Spec => []PathIInv
<1>1. Init => PathIInv
  <2>1. Init => ExitsFixed
    BY DEF Init, ExitsFixed, ExitFalse, ExitTrue
  <2> QED
    BY <2>1, InitIInv, InitShape DEF PathIInv
<1>2. PathIInv /\ [Next]_vars => PathIInv'
  <2> SUFFICES ASSUME IInv, ExitsFixed, TreeGrows, NodesNumbered, Shaped, [Next]_vars
               PROVE  PathIInv'
    BY DEF PathIInv
  <2>0. ExitsFixed'
    BY ExitsStep
  <2>1. CASE ProcessNot
    BY <2>0, <2>1, ProcessNotInv, NotShape DEF PathIInv
  <2>2. CASE \E op \in {"AndThen", "OrElse"} : ProcessBinary(op)
    BY <2>0, <2>2, ProcessBinaryInv, BinaryShape DEF PathIInv
  <2>3. CASE \E code \in ConditionCodes : ProcessCondition(code)
    BY <2>0, <2>3, ProcessConditionInv, ConditionShape DEF PathIInv
  <2>4. CASE EnumeratePaths
    <3>1. IInv' /\ NodesKept
      BY <2>4, VisitOutcomeInv, VisitAgainInv, VisitFirstInv, VisitEdgeInv, VisitReturnInv,
         EnumeratedInv DEF EnumeratePaths
    <3>2. phase # "scan" /\ phase' # "scan"
      BY <2>4 DEF EnumeratePaths, VisitOutcome, VisitAgain, VisitFirst, VisitEdge,
         VisitReturn, Enumerated
    <3> QED
      BY <2>0, <3>1, <3>2, EnumerationShape DEF PathIInv
  <2>5. CASE UNCHANGED vars
    <3>1. IInv'
      BY <2>5, StutterInv
    <3>2. sco' = sco /\ vec' = vec /\ arcs' = arcs /\ bdd' = bdd /\ phase' = phase
      BY <2>5 DEF vars
    <3>3. TreeGrows'
      BY <3>2, TreeKept
    <3>4. /\ Conditions' = Conditions /\ CondIndexes' = CondIndexes
          /\ NodesOf("Condition")' = NodesOf("Condition") /\ Ids' = Ids
      BY <3>2 DEF Conditions, CondIndexes, LastCondIndex, NodesOf, Ids
    <3>5. NodesNumbered'
      BY <3>2, <3>4, OperatorNumbers
    <3>6. PICK d \in [1..Len(sco) -> [BOOLEAN -> Ids]], o \in [1..Len(sco) -> Ids \cup {0}],
               j \in [1..Len(sco) -> Ids] : Skeleton(d, o, j) /\ Reflects(d, o)
      BY DEF Shaped
    <3>7. Reflects(d, o)'
      BY <3>2, <3>4, <3>6 DEF Reflects
    <3>8. Skeleton(d, o, j)'
      BY <3>2, <3>6, TreeKept
    <3>9. Shaped'
      BY <3>2, <3>4, <3>6, <3>7, <3>8 DEF Shaped
    <3> QED
      BY <2>0, <3>1, <3>3, <3>5, <3>9 DEF PathIInv
  <2> QED
    BY <2>1, <2>2, <2>3, <2>4, <2>5 DEF Next
<1> QED
  BY <1>1, <1>2, PTL DEF Spec

----------------------------------------------------------------------------
(* Visit, edge by edge.                                                    *)

\* A call below the innermost one
Below(n, steps) ==
  \E i \in 2..Len(frames) : frames[i].node = n /\ frames[i].at \in steps

LEMMA PendingSplit ==
  ASSUME Len(frames) \in Nat \ {0}, NEW n, NEW S
  PROVE  Pending(n, S) <=> Below(n, S) \/ (frames[1].node = n /\ frames[1].at \in S)
<1>1. \A i \in 1..Len(frames) : i = 1 \/ i \in 2..Len(frames)
  OBVIOUS
<1>2. 1 \in 1..Len(frames) /\ \A i \in 2..Len(frames) : i \in 1..Len(frames)
  OBVIOUS
<1> QED
  BY <1>1, <1>2 DEF Pending, Below

LEMMA PendingPopped ==
  ASSUME frames \in Seq(CallType), frames # <<>>, frames' = Tail(frames), NEW n, NEW S
  PROVE  Pending(n, S)' <=> Below(n, S)
<1>1. PICK t : t = Tail(frames)
  OBVIOUS
<1>2. /\ Len(frames) \in Nat \ {0} /\ Len(t) = Len(frames) - 1
      /\ \A i \in 1..Len(t) : t[i] = frames[i + 1]
  BY <1>1, Pop
<1>3. Pending(n, S)' <=> \E i \in 1..Len(t) : t[i].node = n /\ t[i].at \in S
  BY <1>1 DEF Pending
<1>4. ASSUME NEW i \in 1..Len(t), t[i].node = n, t[i].at \in S PROVE Below(n, S)
  <2>1. i + 1 \in 2..Len(frames)
    BY <1>2
  <2> QED
    BY <1>2, <1>4, <2>1 DEF Below
<1>5. ASSUME NEW i \in 2..Len(frames), frames[i].node = n, frames[i].at \in S
      PROVE  \E j \in 1..Len(t) : t[j].node = n /\ t[j].at \in S
  <2>1. i - 1 \in 1..Len(t) /\ (i - 1) + 1 = i
    BY <1>2
  <2>2. t[i - 1] = frames[i]
    BY <1>2, <2>1
  <2> QED
    BY <1>5, <2>1, <2>2
<1> QED
  BY <1>3, <1>4, <1>5 DEF Below

LEMMA PendingChanged ==
  ASSUME frames \in Seq(CallType), frames # <<>>, NEW f \in CallType,
         frames' = <<f>> \o Tail(frames), NEW n, NEW S
  PROVE  Pending(n, S)' <=> Below(n, S) \/ (f.node = n /\ f.at \in S)
<1>1. PICK t : t = frames'
  OBVIOUS
<1>2. /\ Len(frames) \in Nat \ {0} /\ Len(t) = Len(frames) /\ t[1] = f
      /\ \A i \in 2..Len(frames) : t[i] = frames[i]
  BY <1>1, Pop, PopPush1
<1>3. Pending(n, S)' <=> \E i \in 1..Len(t) : t[i].node = n /\ t[i].at \in S
  BY <1>1 DEF Pending
<1>4. \A i \in 1..Len(t) : i = 1 \/ i \in 2..Len(frames)
  BY <1>2
<1>5. 1 \in 1..Len(t) /\ \A i \in 2..Len(frames) : i \in 1..Len(t)
  BY <1>2
<1> QED
  BY <1>2, <1>3, <1>4, <1>5 DEF Below

LEMMA PendingCalled ==
  ASSUME frames \in Seq(CallType), frames # <<>>, NEW f \in CallType, NEW g \in CallType,
         frames' = <<g, f>> \o Tail(frames), NEW n, NEW S, g.at \notin S
  PROVE  Pending(n, S)' <=> Below(n, S) \/ (f.node = n /\ f.at \in S)
<1>1. PICK t : t = frames'
  OBVIOUS
<1>2. /\ Len(frames) \in Nat \ {0} /\ Len(t) = Len(frames) + 1 /\ t[1] = g /\ t[2] = f
      /\ \A i \in 3..(Len(frames) + 1) : t[i] = frames[i - 1]
  BY <1>1, Pop, PopPush2
<1>3. Pending(n, S)' <=> \E i \in 1..Len(t) : t[i].node = n /\ t[i].at \in S
  BY <1>1 DEF Pending
<1>4. ASSUME NEW i \in 1..Len(t), t[i].node = n, t[i].at \in S
      PROVE  Below(n, S) \/ (f.node = n /\ f.at \in S)
  <2>1. i = 1 \/ i = 2 \/ (i \in 3..(Len(frames) + 1) /\ i - 1 \in 2..Len(frames))
    BY <1>2
  <2> QED
    BY <1>2, <1>4, <2>1 DEF Below
<1>5. ASSUME NEW i \in 2..Len(frames), frames[i].node = n, frames[i].at \in S
      PROVE  \E j \in 1..Len(t) : t[j].node = n /\ t[j].at \in S
  <2>1. i + 1 \in 1..Len(t) /\ i + 1 \in 3..(Len(frames) + 1) /\ (i + 1) - 1 = i
    BY <1>2
  <2>2. t[i + 1] = frames[i]
    BY <1>2, <2>1
  <2> QED
    BY <1>5, <2>1, <2>2
<1>6. 2 \in 1..Len(t)
  BY <1>2
<1> QED
  BY <1>2, <1>3, <1>4, <1>5, <1>6 DEF Below

\* A condition that is being visited is not pending below
LEMMA NoneBelow ==
  ASSUME IInv, phase = "enumerate", frames # <<>>, Frame.at # "enter", NEW S
  PROVE  ~Below(Frame.node, S)
<1>1. Len(frames) \in Nat \ {0} /\ 1 \in 1..Len(frames) /\ Frame = frames[1]
  BY InnermostCall
<1>2. ASSUME NEW i \in 2..Len(frames), frames[i].node = Frame.node PROVE FALSE
  <2>1. i \in 1..Len(frames) /\ 1 < i
    BY <1>1
  <2>2. frames[1].node > frames[i].node
    BY <1>1, <2>1 DEF IInv, FramesNested, CallsOrdered
  <2>3. frames[1].node \in Nat
    BY <1>1 DEF IInv, TypeOK, IdsAllocated, Ids
  <2> QED
    BY <1>1, <1>2, <2>2, <2>3
<1> QED
  BY <1>2 DEF Below

\* After a return, the innermost call is in the middle of a visit
LEMMA NotEntering ==
  ASSUME IInv, phase = "enumerate", frames # <<>>, frames' = Tail(frames)
  PROVE  \A m, b : ~Entering(m, b)'
<1>1. PICK t : t = Tail(frames)
  OBVIOUS
<1>2. /\ Len(frames) \in Nat \ {0} /\ Len(t) = Len(frames) - 1 /\ (t = <<>> <=> Len(frames) = 1)
      /\ \A i \in 1..Len(t) : t[i] = frames[i + 1]
  BY <1>1, InnermostCall, Pop
<1>3. ASSUME t # <<>> PROVE t[1].at # "enter"
  <2>1. 1 \in 1..Len(t) /\ 2 \in 1..Len(frames) /\ 2 > 1 /\ t[1] = frames[2]
    <3>1. 1 \in 1..Len(t) /\ 2 \in 1..Len(frames) /\ 1 + 1 = 2
      BY <1>2, <1>3
    <3> QED
      BY <1>2, <3>1
  <2>2. CallNested(2)
    BY <2>1 DEF IInv, FramesNested
  <2> QED
    BY <2>1, <2>2 DEF CallNested
<1> QED
  BY <1>1, <1>3 DEF Entering

LEMMA KindsKept ==
  ASSUME NodesKept
  PROVE  /\ Ids' = Ids /\ NodesOf("Condition")' = NodesOf("Condition")
         /\ NodesOf("Outcome")' = NodesOf("Outcome")
         /\ \A n \in NodesOf("Outcome") : vec'[n] = vec[n]
  BY DEF NodesKept, NodesOf, Ids

Trace == CallEntered /\ ParentsPassed /\ OutcomesMarked /\ TargetsVisited /\ MultipathFound

NoCallStarts == \A m, b : ~Entering(m, b)

\* A step that leaves what was visited, and the edges that were passed
SameVisits == \A n \in NodesOf("Condition") : Visited(n)' <=> Visited(n)
SameLeads == \A m, b, n : LeadsInto(m, b, n)' <=> LeadsInto(m, b, n)
SameParents ==
  \A n \in NodesOf("Condition") :
    vec'[n].parent = vec[n].parent /\ vec'[n].parentValue = vec[n].parentValue
SameOutcomes ==
  \A n \in NodesOf("Outcome") :
    /\ bdd'.reachable[vec[n].outcome] = bdd.reachable[vec[n].outcome]
    /\ count'[n] = count[n]

LEMMA LeadsKept ==
  ASSUME NodesKept,
         \A n \in NodesOf("Condition"), b \in BOOLEAN : Passed(n, b)' <=> Passed(n, b)
  PROVE  SameLeads
<1>1. NodesOf("Condition")' = NodesOf("Condition")
  BY KindsKept
<1>2. \A m \in NodesOf("Condition") : vec'[m].dests = vec[m].dests
  BY DEF NodesKept, NodesOf, Ids
<1> QED
  BY <1>1, <1>2 DEF LeadsInto, SameLeads

\* Below the innermost call, and the edges that can be taken
LEMMA SameEdges ==
  ASSUME NodesKept
  PROVE  \A n \in NodesOf("Condition"), b \in BOOLEAN : EdgeTaken(n, b)' <=> EdgeTaken(n, b)
<1>1. \A n \in NodesOf("Condition") : vec'[n].csco = vec[n].csco
  BY DEF NodesKept, NodesOf, Ids
<1> QED
  BY <1>1 DEF EdgeTaken, NodesKept

LEMMA TraceKept ==
  ASSUME Trace, NodesKept, NoCallStarts, NoCallStarts', SameVisits, SameLeads, SameParents,
         SameOutcomes, bdd'.firstMultipath = bdd.firstMultipath
  PROVE  Trace'
<1>1. /\ NodesOf("Condition")' = NodesOf("Condition") /\ NodesOf("Outcome")' = NodesOf("Outcome")
      /\ \A n \in NodesOf("Outcome") : vec'[n] = vec[n]
      /\ Ids' = Ids /\ bdd'.root = bdd.root
  BY KindsKept DEF NodesKept
<1>2. CallEntered'
  BY DEF NoCallStarts, Entering, CallEntered
<1>3. ParentsPassed'
  BY <1>1 DEF Trace, ParentsPassed, NoCallStarts, SameVisits, SameLeads, SameParents
<1>4. OutcomesMarked'
  BY <1>1 DEF Trace, OutcomesMarked, SameLeads, SameOutcomes
<1>5. TargetsVisited'
  BY <1>1 DEF Trace, TargetsVisited, NoCallStarts, SameVisits, SameLeads, SameParents
<1>6. MultipathFound'
  BY <1>1 DEF Trace, MultipathFound, SameVisits, SameLeads, SameParents
<1> QED
  BY <1>2, <1>3, <1>4, <1>5, <1>6 DEF Trace

LEMMA PendingHere ==
  ASSUME IInv, phase = "enumerate", frames # <<>>, NEW n, NEW S
  PROVE  Pending(n, S) <=> Below(n, S) \/ (Frame.node = n /\ Frame.at \in S)
BY InnermostCall, PendingSplit

LEMMA ReturnFromEnter ==
  ASSUME IInv, phase = "enumerate", frames # <<>>, Frame.at = "enter", frames' = Tail(frames),
         NodesKept,
         \A n \in NodesOf("Condition") : count'[n] = count[n]
  PROVE  SameVisits /\ SameLeads /\ NoCallStarts'
<1>1. ASSUME NEW n, NEW S, "enter" \notin S PROVE Pending(n, S)' <=> Pending(n, S)
  <2>1. Pending(n, S)' <=> Below(n, S)
    BY InnermostCall, PendingPopped
  <2>2. Pending(n, S) <=> Below(n, S)
    BY PendingHere, <1>1
  <2> QED
    BY <2>1, <2>2
<1>2. SameVisits
  BY <1>1 DEF SameVisits, Visited
<1>3. ASSUME NEW n \in NodesOf("Condition"), NEW b \in BOOLEAN
      PROVE  Passed(n, b)' <=> Passed(n, b)
  <2>1. EdgeTaken(n, b)' <=> EdgeTaken(n, b)
    BY SameEdges
  <2>2. CASE b = TRUE
    BY <1>1, <2>1, <2>2 DEF Passed
  <2>3. CASE b = FALSE
    BY <1>1, <2>1, <2>3 DEF Passed
  <2> QED
    BY <2>2, <2>3
<1>4. SameLeads
  BY <1>3, LeadsKept
<1>5. NoCallStarts'
  BY NotEntering DEF NoCallStarts
<1> QED
  BY <1>2, <1>4, <1>5

\* The call that reaches an outcome, or a condition again, is along an edge
LEMMA EnteredAlong ==
  ASSUME IInv, Trace, phase = "enumerate", frames # <<>>, Frame.at = "enter",
         Frame.node \in NodesOf("Outcome") \/ count[Frame.node] > 0
  PROVE  /\ Entering(Frame.origin, Frame.value) /\ Frame.origin \in NodesOf("Condition")
         /\ Frame.value \in BOOLEAN
         /\ LeadsInto(Frame.origin, Frame.value, Frame.node)
<1>1. Frame = frames[1]
  BY InnermostCall
<1>2. Entering(Frame.origin, Frame.value)
  BY <1>1 DEF Entering
<1>3. ASSUME Frame.origin = 0 PROVE FALSE
  <2>1. Frame.node = bdd.root /\ \A n \in NodesOf("Condition") : ~Visited(n)
    BY <1>1, <1>3 DEF Trace, CallEntered
  <2>2. bdd.root \in NodesOf("Condition")
    BY DEF IInv, ForwardEdges
  <2> QED
    BY <2>1, <2>2 DEF Visited, NodesOf
<1>4. LeadsInto(Frame.origin, Frame.value, Frame.node)
  BY <1>1, <1>3 DEF Trace, CallEntered
<1> QED
  BY <1>2, <1>4 DEF LeadsInto

LEMMA VisitAgainTraced ==
  ASSUME IInv, Trace, VisitAgain, NodesKept
  PROVE  Trace'
<1>1. /\ phase = "enumerate" /\ frames # <<>> /\ Frame.at = "enter"
      /\ count[Frame.node] > 0 /\ vec[Frame.node].kind = "Condition"
      /\ frames' = Tail(frames) /\ vec' = vec /\ count' = count
  BY DEF VisitAgain
<1>2. PICK k, o, v : k = Frame.node /\ o = Frame.origin /\ v = Frame.value
  OBVIOUS
<1>3. /\ bdd'.firstMultipath = IF bdd.firstMultipath = 0 THEN k ELSE bdd.firstMultipath
      /\ bdd'.reachable = bdd.reachable /\ bdd'.root = bdd.root
  BY <1>1, <1>2, InnermostCall DEF VisitAgain, BDDType
<1>4. k \in NodesOf("Condition") /\ k # 0 /\ Visited(k) /\ 0 \notin NodesOf("Condition")
  BY <1>1, <1>2, InnermostCall DEF NodesOf, Ids, Visited
<1>5. SameVisits /\ SameLeads /\ NoCallStarts'
  BY <1>1, ReturnFromEnter
<1>6. /\ Entering(o, v) /\ o \in NodesOf("Condition") /\ v \in BOOLEAN /\ LeadsInto(o, v, k)
  BY <1>1, <1>2, EnteredAlong
<1>7. \A m, b : Entering(m, b) => m = o /\ b = v
  BY <1>6 DEF Entering
<1>8. /\ NodesOf("Condition")' = NodesOf("Condition") /\ NodesOf("Outcome")' = NodesOf("Outcome")
      /\ Ids' = Ids
  BY KindsKept
<1>9. CallEntered'
  BY <1>5 DEF NoCallStarts, Entering, CallEntered
<1>10. ParentsPassed'
  BY <1>1, <1>3, <1>5, <1>8 DEF Trace, ParentsPassed, NoCallStarts, SameVisits, SameLeads
<1>11. OutcomesMarked'
  BY <1>1, <1>3, <1>5, <1>8 DEF Trace, OutcomesMarked, SameLeads
<1>12. TargetsVisited'
  <2>1. ASSUME NEW n \in NodesOf("Condition"), NEW m \in Ids, NEW b \in BOOLEAN,
               LeadsInto(m, b, n)
        PROVE  Visited(n)
    <3>1. CASE Entering(m, b)
      BY <1>4, <1>6, <1>7, <2>1, <3>1 DEF LeadsInto
    <3>2. CASE ~Entering(m, b)
      BY <2>1, <3>2 DEF Trace, TargetsVisited
    <3> QED
      BY <3>1, <3>2
  <2>2. bdd'.firstMultipath # 0
    BY <1>3, <1>4
  <2> QED
    BY <1>5, <1>8, <2>1, <2>2 DEF TargetsVisited, SameVisits, SameLeads
<1>13. MultipathFound'
  <2>1. ASSUME bdd.firstMultipath = 0 PROVE MultipathFound'
    <3>1. vec[k].parent # o \/ vec[k].parentValue # v
      BY <1>4, <1>6 DEF Trace, ParentsPassed
    <3>2. o \in Ids
      BY <1>6 DEF NodesOf, Ids
    <3>3. bdd'.firstMultipath = k
      BY <1>3, <2>1
    <3> QED
      BY <1>1, <1>4, <1>5, <1>6, <1>8, <3>1, <3>2, <3>3 DEF MultipathFound, SameVisits, SameLeads
  <2>2. ASSUME bdd.firstMultipath # 0 PROVE MultipathFound'
    BY <1>1, <1>3, <1>5, <1>8, <2>2 DEF Trace, MultipathFound, SameVisits, SameLeads
  <2> QED
    BY <2>1, <2>2
<1> QED
  BY <1>9, <1>10, <1>11, <1>12, <1>13 DEF Trace

LEMMA VisitOutcomeTraced ==
  ASSUME IInv, ExitsFixed, Trace, VisitOutcome, NodesKept
  PROVE  Trace'
<1>1. /\ phase = "enumerate" /\ frames # <<>> /\ Frame.at = "enter"
      /\ vec[Frame.node].kind = "Outcome" /\ frames' = Tail(frames) /\ vec' = vec
      /\ count' = [count EXCEPT ![Frame.node] = 1]
      /\ bdd' = [bdd EXCEPT !.reachable[vec[Frame.node].outcome] = TRUE]
  BY DEF VisitOutcome
<1>2. PICK k, o, v : k = Frame.node /\ o = Frame.origin /\ v = Frame.value
  OBVIOUS
<1>3. /\ k \in Ids /\ k \in NodesOf("Outcome") /\ k \notin NodesOf("Condition")
      /\ count \in [Ids -> Nat]
  BY <1>1, <1>2, InnermostCall DEF NodesOf, Ids
<1>4. /\ count'[k] = 1 /\ \A n \in Ids : n # k => count'[n] = count[n]
  BY <1>1, <1>2, <1>3
<1>5. /\ \A n \in NodesOf("Outcome") : vec[n].outcome \in BOOLEAN
      /\ \A n \in NodesOf("Outcome") : n # k => vec[n].outcome # vec[k].outcome
      /\ NodesOf("Outcome") \subseteq Ids /\ NodesOf("Condition") \subseteq Ids
  <2>1. NodesOf("Outcome") \subseteq Ids /\ NodesOf("Condition") \subseteq Ids
    BY DEF NodesOf, Ids
  <2>2. NodesOf("Outcome") \subseteq {1, 2}
    BY <2>1 DEF IInv, ExitsFirst, Exits, ExitFalse, ExitTrue, NodesOf
  <2>3. vec[1].outcome = FALSE /\ vec[2].outcome = TRUE
    BY DEF ExitsFixed, ExitFalse, ExitTrue, OutcomeNode
  <2> QED
    BY <1>3, <2>1, <2>2, <2>3
<1>6. PICK r : r = vec[k].outcome
  OBVIOUS
<1>7. /\ bdd'.reachable[r] = TRUE
      /\ \A b \in BOOLEAN : b # r => bdd'.reachable[b] = bdd.reachable[b]
      /\ bdd'.root = bdd.root /\ bdd'.firstMultipath = bdd.firstMultipath
  <2>1. bdd' = [bdd EXCEPT !.reachable[r] = TRUE] /\ r \in BOOLEAN
    BY <1>1, <1>2, <1>3, <1>5, <1>6
  <2>2. bdd \in BDDType
    BY <1>1, InnermostCall
  <2> QED
    BY <2>1, <2>2 DEF BDDType
<1>8. \A n \in NodesOf("Condition") : count'[n] = count[n]
  BY <1>3, <1>4, <1>5
<1>9. SameVisits /\ SameLeads /\ NoCallStarts'
  BY <1>1, <1>8, ReturnFromEnter
<1>10. /\ Entering(o, v) /\ o \in NodesOf("Condition") /\ v \in BOOLEAN /\ LeadsInto(o, v, k)
  BY <1>1, <1>2, <1>3, EnteredAlong
<1>11. \A m, b : Entering(m, b) => m = o /\ b = v
  BY <1>10 DEF Entering
<1>12. /\ NodesOf("Condition")' = NodesOf("Condition") /\ NodesOf("Outcome")' = NodesOf("Outcome")
       /\ Ids' = Ids
  BY KindsKept
<1>13. CallEntered'
  BY <1>9 DEF NoCallStarts, Entering, CallEntered
<1>14. ParentsPassed'
  BY <1>1, <1>7, <1>9, <1>12 DEF Trace, ParentsPassed, NoCallStarts, SameVisits, SameLeads
<1>15. OutcomesMarked'
  <2>1. ASSUME NEW n \in NodesOf("Outcome")
        PROVE  /\ bdd'.reachable[vec'[n].outcome] <=> count'[n] > 0
               /\ count'[n] > 0 => \E m \in Ids', b \in BOOLEAN : LeadsInto(m, b, n)'
    <3>1. CASE n = k
      <4>1. LeadsInto(o, v, k)' /\ o \in Ids'
        BY <1>5, <1>9, <1>10, <1>12 DEF SameLeads
      <4>2. bdd'.reachable[vec'[n].outcome] = TRUE /\ count'[n] = 1
        BY <1>1, <1>4, <1>6, <1>7, <3>1
      <4> QED
        BY <1>10, <3>1, <4>1, <4>2
    <3>2. CASE n # k
      <4>1. bdd'.reachable[vec'[n].outcome] = bdd.reachable[vec[n].outcome] /\ count'[n] = count[n]
        BY <1>1, <1>4, <1>5, <1>6, <1>7, <2>1, <3>2
      <4>2. /\ bdd.reachable[vec[n].outcome] <=> count[n] > 0
            /\ count[n] > 0 => \E m \in Ids, b \in BOOLEAN : LeadsInto(m, b, n)
        BY <2>1 DEF Trace, OutcomesMarked
      <4> QED
        BY <1>9, <1>12, <4>1, <4>2 DEF SameLeads
    <3> QED
      BY <3>1, <3>2
  <2> QED
    BY <1>12, <2>1 DEF OutcomesMarked
<1>16. TargetsVisited'
  <2>1. ASSUME NEW n \in NodesOf("Condition"), NEW m \in Ids, NEW b \in BOOLEAN,
               LeadsInto(m, b, n)
        PROVE  ~Entering(m, b)
    BY <1>3, <1>10, <1>11, <2>1 DEF LeadsInto
  <2> QED
    BY <1>1, <1>7, <1>9, <1>12, <2>1 DEF Trace, TargetsVisited, SameVisits, SameLeads
<1>17. MultipathFound'
  BY <1>1, <1>7, <1>9, <1>12 DEF Trace, MultipathFound, SameVisits, SameLeads
<1> QED
  BY <1>13, <1>14, <1>15, <1>16, <1>17 DEF Trace

LEMMA VisitReturnTraced ==
  ASSUME IInv, Trace, VisitReturn, NodesKept
  PROVE  Trace'
<1> DEFINE x == [vec[Frame.node] EXCEPT !.offset = PathOffset(Frame.node)]
<1>1. /\ phase = "enumerate" /\ frames # <<>> /\ Frame.at = "return"
      /\ frames' = Tail(frames) /\ bdd' = bdd
      /\ vec' = [vec EXCEPT ![Frame.node] = x]
      /\ count' = [count EXCEPT
                     ![Frame.node] = EdgeCount(Frame.node, FALSE) + EdgeCount(Frame.node, TRUE)]
  BY DEF VisitReturn
<1>2. PICK k : k = Frame.node
  OBVIOUS
<1>3. /\ k \in Ids /\ Frame = frames[1] /\ count \in [Ids -> Nat] /\ vec \in Seq(BDDNode)
      /\ 1 \in 1..Len(frames) /\ Ids = 1..Len(vec)
  BY <1>1, <1>2, InnermostCall
<1>4. /\ vec[k].kind = "Condition" /\ Explored(k, FALSE) /\ Explored(k, TRUE)
  <2>1. CallNested(1)
    BY <1>1, <1>3 DEF IInv, FramesNested
  <2> QED
    BY <2>1, <1>1, <1>2, <1>3 DEF CallNested
<1>5. \A b \in BOOLEAN : EdgeCount(k, b) \in Nat /\ (EdgeTaken(k, b) => EdgeCount(k, b) > 0)
  <2>1. \A b \in BOOLEAN : vec[k].dests[b] \in Ids
    BY <1>3, <1>4 DEF IInv, TypeOK, IdsAllocated
  <2>2. \A b \in BOOLEAN : EdgeTaken(k, b) => count[vec[k].dests[b]] > 0
    BY <1>4 DEF Explored
  <2> QED
    BY <2>1, <2>2, <1>3 DEF EdgeCount
<1>6. EdgeTaken(k, FALSE) \/ EdgeTaken(k, TRUE)
  BY DEF EdgeTaken, ToTristate
<1>7. count'[k] > 0 /\ \A n \in Ids : n # k => count'[n] = count[n]
  <2>1. PICK p, q : p = EdgeCount(k, FALSE) /\ q = EdgeCount(k, TRUE)
    OBVIOUS
  <2>2. p \in Nat /\ q \in Nat /\ (p > 0 \/ q > 0)
    BY <2>1, <1>5, <1>6
  <2>3. PICK t : t = p + q
    OBVIOUS
  <2>4. count' = [count EXCEPT ![k] = t]
    BY <2>1, <2>3, <1>1, <1>2
  <2>5. t > 0
    BY <2>2, <2>3
  <2> QED
    BY <2>4, <2>5, <1>3
<1>8. \A S : \A n : Pending(n, S) <=> Below(n, S) \/ (n = k /\ "return" \in S)
  BY <1>1, <1>2, PendingHere
<1>9. \A S : \A n : Pending(n, S)' <=> Below(n, S)
  BY <1>1, <1>3, InnermostCall, PendingPopped
<1>10. NodesOf("Condition") \subseteq Ids /\ NodesOf("Outcome") \subseteq Ids
  BY DEF NodesOf, Ids
<1>11. SameVisits
  <2>1. ASSUME NEW n \in NodesOf("Condition") PROVE Visited(n)' <=> Visited(n)
    <3>1. CASE n = k
      BY <3>1, <1>7, <1>8 DEF Visited
    <3>2. CASE n # k
      BY <3>2, <1>7, <1>8, <1>9, <1>10 DEF Visited
    <3> QED
      BY <3>1, <3>2
  <2> QED
    BY <2>1 DEF SameVisits
<1>12. ASSUME NEW n \in NodesOf("Condition"), NEW b \in BOOLEAN
       PROVE  Passed(n, b)' <=> Passed(n, b)
  <2>0. EdgeTaken(n, b)' <=> EdgeTaken(n, b)
    BY SameEdges
  <2>1. PICK S : S = IF b THEN {"return"} ELSE {"true", "return"}
    OBVIOUS
  <2>2. "return" \in S
    BY <2>1
  <2>3. CASE n = k
    BY <2>0, <2>1, <2>2, <2>3, <1>7, <1>8 DEF Passed
  <2>4. CASE n # k
    BY <2>0, <2>1, <2>4, <1>7, <1>8, <1>9, <1>10 DEF Passed
  <2> QED
    BY <2>3, <2>4
<1>13. SameLeads
  BY <1>12, LeadsKept
<1>14. NoCallStarts /\ NoCallStarts'
  <2>1. NoCallStarts
    BY <1>1, <1>3 DEF NoCallStarts, Entering
  <2> QED
    BY <2>1, <1>1, NotEntering DEF NoCallStarts
<1>15. SameParents
  <2>1. vec[k] \in ConditionNodeType
    BY <1>3, <1>4 DEF BDDNode, OutcomeNodeType, JumpNodeType
  <2>2. PICK y : y = x
    OBVIOUS
  <2>3. y.parent = vec[k].parent /\ y.parentValue = vec[k].parentValue
    BY <2>1, <2>2, <1>2 DEF ConditionNodeType
  <2>4. vec' = [vec EXCEPT ![k] = y]
    BY <1>1, <1>2, <2>2
  <2>5. vec'[k] = y /\ \A n \in Ids : n # k => vec'[n] = vec[n]
    BY <1>3, <2>4
  <2> QED
    BY <1>10, <2>3, <2>5 DEF SameParents
<1>16. SameOutcomes
  <2>1. \A n \in NodesOf("Outcome") : n # k
    BY <1>4 DEF NodesOf
  <2> QED
    BY <2>1, <1>1, <1>7, <1>10 DEF SameOutcomes
<1> QED
  BY <1>1, <1>11, <1>13, <1>14, <1>15, <1>16, TraceKept

LEMMA EnumeratedTraced ==
  ASSUME IInv, Trace, Enumerated, NodesKept
  PROVE  Trace'
<1>1. /\ frames = <<>> /\ vec' = vec /\ count' = count /\ frames' = frames /\ sco' = sco
      /\ bdd' = [bdd EXCEPT !.pathCount = count[bdd.root]]
  BY DEF Enumerated
<1>2. bdd'.firstMultipath = bdd.firstMultipath /\ bdd'.reachable = bdd.reachable
  BY <1>1 DEF IInv, TypeOK, BDDType
<1>3. NoCallStarts /\ NoCallStarts'
  BY <1>1 DEF NoCallStarts, Entering
<1>4. SameVisits /\ SameParents /\ SameOutcomes
  BY <1>1, <1>2 DEF SameVisits, SameParents, SameOutcomes, Visited, Pending
<1>5. SameLeads
  BY <1>1 DEF SameLeads, LeadsInto, Passed, EdgeTaken, Pending, NodesOf
<1> QED
  BY <1>2, <1>3, <1>4, <1>5, TraceKept

LEMMA VisitFirstTraced ==
  ASSUME IInv, IInv', Trace, VisitFirst, NodesKept
  PROVE  Trace'
<1> DEFINE x == [vec[Frame.node] EXCEPT !.parent = Frame.origin, !.parentValue = Frame.value]
           f == [Frame EXCEPT !.at = "false"]
<1>1. /\ phase = "enumerate" /\ frames # <<>> /\ phase' = phase
      /\ Frame.at = "enter" /\ UNCHANGED <<sco, bdd, count>>
      /\ vec[Frame.node].kind = "Condition" /\ count[Frame.node] = 0
      /\ vec' = [vec EXCEPT ![Frame.node].parent = Frame.origin,
                            ![Frame.node].parentValue = Frame.value]
      /\ frames' = <<f>> \o Tail(frames)
  BY DEF VisitFirst
<1>2. PICK k, o, v : k = Frame.node /\ o = Frame.origin /\ v = Frame.value
  OBVIOUS
<1>3. /\ k \in Ids /\ Frame = frames[1] /\ count \in [Ids -> Nat] /\ vec \in Seq(BDDNode)
      /\ Len(frames) \in Nat \ {0} /\ Ids = 1..Len(vec) /\ Frame \in CallType
      /\ frames \in Seq(CallType)
  BY <1>1, <1>2, InnermostCall
<1>4. f \in CallType /\ f.node = k /\ f.at = "false"
  BY <1>2, <1>3 DEF CallType
<1> HIDE DEF x, f
<1>5. \A S : \A n : Pending(n, S)' <=> Below(n, S) \/ (n = k /\ "false" \in S)
  BY <1>1, <1>3, <1>4, PendingChanged
<1>6. \A S : "enter" \notin S => \A n : Pending(n, S) <=> Below(n, S)
  BY <1>1, PendingHere
<1>7. \A S : ~Below(k, S)
  <2>1. /\ frames'[1] = f /\ Len(frames') = Len(frames)
        /\ \A i \in 2..Len(frames) : frames'[i] = frames[i]
    BY <1>1, <1>3, <1>4, PopPush1
  <2>2. CallsOrdered' /\ k \in Nat
    BY <1>1, <1>3 DEF IInv, FramesNested
  <2>3. ASSUME NEW i \in 2..Len(frames), frames[i].node = k PROVE FALSE
    <3>1. i \in 1..Len(frames') /\ 1 \in 1..Len(frames') /\ 1 < i
      BY <1>3, <2>1
    <3>2. frames'[1].node > frames'[i].node
      BY <1>4, <2>1, <2>2, <3>1 DEF CallsOrdered
    <3> QED
      BY <1>4, <2>1, <2>2, <2>3, <3>2
  <2> QED
    BY <2>3 DEF Below
<1>8. k \in NodesOf("Condition") /\ ~Visited(k) /\ NodesOf("Condition") \subseteq Ids
  <2>1. k \in NodesOf("Condition") /\ NodesOf("Condition") \subseteq Ids
    BY <1>1, <1>2, <1>3 DEF NodesOf, Ids
  <2> QED
    <3>1. PICK S : S = {"false", "true", "return"}
      OBVIOUS
    <3>2. ~Pending(k, S)
      BY <1>6, <1>7, <3>1
    <3> QED
      BY <1>1, <1>2, <2>1, <3>1, <3>2 DEF Visited
<1>9. \A n \in NodesOf("Condition") : Visited(n)' <=> Visited(n) \/ n = k
  BY <1>1, <1>5, <1>6 DEF Visited
<1>10. SameLeads
  <2>1. ASSUME NEW n \in NodesOf("Condition"), NEW b \in BOOLEAN
        PROVE  Passed(n, b)' <=> Passed(n, b)
    <3>0. EdgeTaken(n, b)' <=> EdgeTaken(n, b)
      BY SameEdges
    <3>1. PICK S : S = IF b THEN {"return"} ELSE {"true", "return"}
      OBVIOUS
    <3>2. "enter" \notin S /\ "false" \notin S
      BY <3>1
    <3> QED
      BY <1>1, <1>5, <1>6, <3>0, <3>1, <3>2 DEF Passed
  <2> QED
    BY <2>1, LeadsKept
<1>11. NoCallStarts'
  <2>1. frames'[1] = f
    BY <1>1, <1>3, <1>4, PopPush1
  <2> QED
    BY <1>4, <2>1 DEF NoCallStarts, Entering
<1>12. /\ vec'[k].parent = o /\ vec'[k].parentValue = v
       /\ \A n \in Ids : n # k => vec'[n] = vec[n]
  <2>1. PICK y : y = x
    OBVIOUS
  <2>2. vec[k] \in ConditionNodeType
    <3>1. vec[k] \in BDDNode /\ vec[k].kind = "Condition"
      BY <1>3, <1>1, <1>2
    <3> QED
      BY <3>1 DEF BDDNode, OutcomeNodeType, JumpNodeType
  <2>3. y.parent = o /\ y.parentValue = v
    BY <2>1, <2>2, <1>2 DEF ConditionNodeType, x
  <2>4. vec' = [vec EXCEPT ![k] = y]
    BY <1>1, <1>2, <1>3, <2>1 DEF x
  <2> QED
    BY <1>3, <2>3, <2>4
<1>13. /\ NodesOf("Condition")' = NodesOf("Condition") /\ NodesOf("Outcome")' = NodesOf("Outcome")
       /\ Ids' = Ids /\ \A n \in NodesOf("Outcome") : vec'[n] = vec[n]
  BY KindsKept
<1>14. Entering(o, v) /\ \A m, b : Entering(m, b) => m = o /\ b = v
  BY <1>1, <1>2, <1>3 DEF Entering
<1>15. IF o = 0 THEN k = bdd.root /\ \A n \in NodesOf("Condition") : ~Visited(n)
       ELSE LeadsInto(o, v, k)
  BY <1>1, <1>2, <1>3 DEF Trace, CallEntered
<1>16. CallEntered'
  BY <1>11 DEF NoCallStarts, Entering, CallEntered
<1>17. ParentsPassed'
  <2>0. ASSUME NEW n \in NodesOf("Condition"), ~Visited(n)' PROVE vec'[n].parent = 0
    BY <1>8, <1>9, <1>12, <2>0 DEF Trace, ParentsPassed
  <2>1. ASSUME NEW n \in NodesOf("Condition"), Visited(n)'
        PROVE  (IF vec[n].parent = 0 THEN n = bdd.root
                ELSE LeadsInto(vec[n].parent, vec[n].parentValue, n))'
    <3>0. \A m, b, i : LeadsInto(m, b, i)' <=> LeadsInto(m, b, i)
      BY <1>10 DEF SameLeads
    <3>9. bdd' = bdd
      BY <1>1
    <3>1. CASE n = k
      <4>1. vec'[n].parent = o /\ vec'[n].parentValue = v
        BY <1>12, <3>1
      <4> QED
        BY <1>15, <3>0, <3>9, <3>1, <4>1
    <3>2. CASE n # k
      <4>1. Visited(n) /\ vec'[n] = vec[n]
        BY <1>8, <1>9, <1>12, <2>1, <3>2
      <4>2. IF vec[n].parent = 0 THEN n = bdd.root
            ELSE LeadsInto(vec[n].parent, vec[n].parentValue, n)
        BY <4>1 DEF Trace, ParentsPassed
      <4> QED
        BY <3>0, <3>9, <4>1, <4>2
    <3> QED
      BY <3>1, <3>2
  <2> QED
    BY <1>11, <1>13, <2>0, <2>1 DEF ParentsPassed, NoCallStarts
<1>18. OutcomesMarked'
  BY <1>1, <1>10, <1>13 DEF Trace, OutcomesMarked, SameLeads
<1>19. TargetsVisited'
  <2>1. ASSUME NEW n \in NodesOf("Condition"), NEW m \in Ids, NEW b \in BOOLEAN,
               LeadsInto(m, b, n)
        PROVE  /\ Visited(n)'
               /\ bdd.firstMultipath = 0 => vec'[n].parent = m /\ vec'[n].parentValue = b
    <3>1. CASE Entering(m, b)
      <4>1. m = o /\ b = v /\ o # 0
        BY <1>3, <1>14, <2>1, <3>1 DEF Ids
      <4>2. n = k
        BY <1>15, <2>1, <4>1 DEF LeadsInto
      <4> QED
        BY <1>9, <1>12, <4>1, <4>2
    <3>2. CASE ~Entering(m, b)
      <4>1. /\ Visited(n)
            /\ bdd.firstMultipath = 0 => vec[n].parent = m /\ vec[n].parentValue = b
        BY <2>1, <3>2 DEF Trace, TargetsVisited
      <4>2. vec'[n] = vec[n]
        BY <1>8, <1>12, <4>1
      <4> QED
        BY <1>9, <4>1, <4>2
    <3> QED
      BY <3>1, <3>2
  <2>2. bdd' = bdd
    BY <1>1
  <2>3. \A m, b, n : LeadsInto(m, b, n)' <=> LeadsInto(m, b, n)
    BY <1>10 DEF SameLeads
  <2>4. ASSUME NEW n \in NodesOf("Condition")', NEW m \in Ids', NEW b \in BOOLEAN,
               LeadsInto(m, b, n)'
        PROVE  /\ Visited(n)'
               /\ bdd'.firstMultipath = 0 => vec'[n].parent = m /\ vec'[n].parentValue = b
    <3>1. n \in NodesOf("Condition") /\ m \in Ids
      BY <1>13, <2>4
    <3>2. LeadsInto(m, b, n)
      BY <2>3, <2>4
    <3> QED
      BY <2>1, <2>2, <3>1, <3>2
  <2> QED
    BY <2>4 DEF TargetsVisited
<1>20. MultipathFound'
  <2> SUFFICES ASSUME bdd.firstMultipath # 0 PROVE MultipathFound'
    BY <1>1 DEF MultipathFound
  <2>1. PICK n : n = bdd.firstMultipath
    OBVIOUS
  <2>2. /\ n \in NodesOf("Condition") /\ Visited(n)
        /\ \E m \in Ids, b \in BOOLEAN :
             LeadsInto(m, b, n) /\ (vec[n].parent # m \/ vec[n].parentValue # b)
    BY <2>1 DEF Trace, MultipathFound
  <2>3. vec'[n] = vec[n] /\ Visited(n)'
    BY <1>8, <1>9, <1>12, <2>2
  <2> QED
    BY <1>1, <1>10, <1>13, <2>1, <2>2, <2>3 DEF MultipathFound, SameLeads
<1> QED
  BY <1>16, <1>17, <1>18, <1>19, <1>20 DEF Trace

LEMMA VisitEdgeTraced ==
  ASSUME IInv, Trace, NEW b \in BOOLEAN, VisitEdge(b), NodesKept
  PROVE  Trace'
<1> DEFINE f == [Frame EXCEPT !.at = IF b THEN "return" ELSE "true"]
           g == VisitCall(vec[Frame.node].dests[b], Frame.node, b)
<1>1. /\ phase = "enumerate" /\ frames # <<>> /\ UNCHANGED <<sco, vec, bdd, count>>
      /\ Frame.at = IF b THEN "true" ELSE "false"
      /\ frames' = (IF EdgeTaken(Frame.node, b) THEN <<g, f>> ELSE <<f>>) \o Tail(frames)
  BY DEF VisitEdge
<1>2. PICK k : k = Frame.node
  OBVIOUS
<1>3. /\ k \in Ids /\ Frame = frames[1] /\ count \in [Ids -> Nat]
      /\ Len(frames) \in Nat \ {0} /\ 1 \in 1..Len(frames) /\ Ids = 1..Len(vec)
      /\ Frame \in CallType /\ frames \in Seq(CallType) /\ Frame.at # "enter"
  BY <1>1, <1>2, InnermostCall
<1>4. f \in CallType /\ f.node = k /\ f.at = IF b THEN "return" ELSE "true"
  BY <1>2, <1>3 DEF CallType
<1>5. /\ k \in NodesOf("Condition") /\ count[k] = 0 /\ vec[k].dests[b] \in Ids /\ k # 0
  <2>1. CallNested(1)
    BY <1>1, <1>3 DEF IInv, FramesNested
  <2>2. vec[k].kind = "Condition" /\ count[k] = 0
    BY <2>1, <1>2, <1>3 DEF CallNested
  <2> QED
    BY <1>3, <2>2 DEF IInv, TypeOK, IdsAllocated, NodesOf, Ids
<1>6. PICK d : d = vec[k].dests[b]
  OBVIOUS
<1>7. g \in CallType /\ g = [node |-> d, origin |-> k, value |-> b, at |-> "enter"]
  BY <1>2, <1>3, <1>5, <1>6 DEF VisitCall, CallType
<1>8. \A S : "enter" \notin S =>
         \A n : Pending(n, S)' <=> Below(n, S) \/ (n = k /\ f.at \in S)
  <2>1. CASE EdgeTaken(k, b)
    <3>1. frames' = <<g, f>> \o Tail(frames)
      BY <1>1, <1>2, <2>1
    <3>2. g.at = "enter"
      BY <1>7
    <3>3. f \in CallType /\ g \in CallType /\ f.node = k
      BY <1>4, <1>7
    <3>4. frames \in Seq(CallType) /\ frames # <<>>
      BY <1>1, <1>3
    <3> HIDE DEF f, g
    <3>5. ASSUME NEW n, NEW S, "enter" \notin S
          PROVE  Pending(n, S)' <=> Below(n, S) \/ (f.node = n /\ f.at \in S)
      BY <3>1, <3>2, <3>3, <3>4, <3>5, PendingCalled
    <3> QED
      BY <3>3, <3>5
  <2>2. CASE ~EdgeTaken(k, b)
    <3>1. frames' = <<f>> \o Tail(frames)
      BY <1>1, <1>2, <2>2
    <3> HIDE DEF f, g
    <3> QED
      BY <1>1, <1>3, <1>4, <3>1, PendingChanged
  <2> QED
    BY <2>1, <2>2
<1>9. \A S : \A n : Pending(n, S) <=> Below(n, S) \/ (n = k /\ Frame.at \in S)
  BY <1>1, <1>2, PendingHere
<1>10. \A S : ~Below(k, S)
  BY <1>1, <1>2, <1>3, NoneBelow
<1>11. SameVisits
  <2>1. PICK S : S = {"false", "true", "return"}
    OBVIOUS
  <2>2. "enter" \notin S /\ Frame.at \in S /\ f.at \in S
    BY <1>1, <1>4, <2>1
  <2>3. \A n : Pending(n, S)' <=> Pending(n, S)
    <3> HIDE DEF f, g
    <3> QED
      BY <1>8, <1>9, <2>2
  <2> QED
    BY <1>1, <2>1, <2>3 DEF SameVisits, Visited
<1>12. /\ NodesOf("Condition")' = NodesOf("Condition") /\ NodesOf("Outcome")' = NodesOf("Outcome")
       /\ Ids' = Ids
  BY KindsKept
<1>13. ASSUME NEW n \in NodesOf("Condition"), NEW c \in BOOLEAN
       PROVE  Passed(n, c)' <=> Passed(n, c) \/ (n = k /\ c = b /\ EdgeTaken(k, b))
  <2>0. EdgeTaken(n, c)' <=> EdgeTaken(n, c)
    BY SameEdges
  <2>1. PICK S : S = IF c THEN {"return"} ELSE {"true", "return"}
    OBVIOUS
  <2>2. "enter" \notin S /\ (f.at \in S <=> Frame.at \in S \/ c = b)
    BY <1>1, <1>4, <2>1
  <2>3. Pending(n, S)' <=> Pending(n, S) \/ (n = k /\ c = b)
    <3> HIDE DEF f, g
    <3> QED
      BY <1>8, <1>9, <2>2
  <2> QED
    BY <1>1, <2>0, <2>1, <2>3 DEF Passed
<1>14. ~Passed(k, b)
  <2>1. PICK S : S = IF b THEN {"return"} ELSE {"true", "return"}
    OBVIOUS
  <2>2. Frame.at \notin S
    BY <1>1, <2>1
  <2> QED
    BY <1>5, <1>9, <1>10, <2>1, <2>2 DEF Passed
<1>15. NoCallStarts
  BY <1>1, <1>3 DEF NoCallStarts, Entering
<1>16. CASE ~EdgeTaken(k, b)
  <2>1. SameLeads
    BY <1>13, <1>16, LeadsKept
  <2>2. NoCallStarts'
    <3>1. frames'[1] = f
      BY <1>1, <1>2, <1>3, <1>4, <1>16, PopPush1
    <3> QED
      BY <1>4, <3>1 DEF NoCallStarts, Entering
  <2>3. SameParents /\ SameOutcomes
    BY <1>1 DEF SameParents, SameOutcomes
  <2> QED
    BY <1>1, <1>11, <1>15, <2>1, <2>2, <2>3, TraceKept
<1>17. CASE EdgeTaken(k, b)
  <2>1. \A m, c, n : LeadsInto(m, c, n)' <=> LeadsInto(m, c, n) \/ (m = k /\ c = b /\ n = d)
    BY <1>1, <1>5, <1>6, <1>12, <1>13, <1>17 DEF LeadsInto
  <2>2. frames'[1] = g /\ frames' # <<>>
    <3>1. frames' = <<g, f>> \o Tail(frames)
      BY <1>1, <1>2, <1>17
    <3> HIDE DEF f, g
    <3> QED
      BY <1>1, <1>3, <1>4, <1>7, <3>1, PopPush2
  <2>3. \A m, c : Entering(m, c)' <=> m = k /\ c = b
    BY <1>7, <2>2 DEF Entering
  <2>4. CallEntered'
    BY <1>5, <1>7, <2>1, <2>2 DEF CallEntered
  <2>5. ParentsPassed'
    <3>1. ASSUME NEW n \in NodesOf("Condition"), Visited(n)
          PROVE  /\ IF vec[n].parent = 0 THEN n = bdd.root
                    ELSE LeadsInto(vec[n].parent, vec[n].parentValue, n)
                 /\ ~(vec[n].parent = k /\ vec[n].parentValue = b)
      BY <1>5, <1>14, <3>1 DEF Trace, ParentsPassed, LeadsInto
    <3>2. \A n \in NodesOf("Condition") : ~Visited(n) => vec[n].parent = 0
      BY DEF Trace, ParentsPassed
    <3> QED
      BY <1>1, <1>11, <1>12, <2>1, <2>3, <3>1, <3>2 DEF ParentsPassed, SameVisits
  <2>6. OutcomesMarked'
    BY <1>1, <1>12, <2>1 DEF Trace, OutcomesMarked
  <2>7. TargetsVisited'
    BY <1>1, <1>11, <1>12, <1>15, <2>1, <2>3
    DEF Trace, TargetsVisited, SameVisits, NoCallStarts
  <2>8. MultipathFound'
    BY <1>1, <1>11, <1>12, <2>1 DEF Trace, MultipathFound, SameVisits
  <2> QED
    BY <2>4, <2>5, <2>6, <2>7, <2>8 DEF Trace
<1> QED
  BY <1>16, <1>17

\* No node has a parent while the decision is scanned
LEMMA NewParents ==
  ASSUME IInv, NEW code \in ConditionCodes, ProcessCondition(code),
         \A n \in NodesOf("Condition") : vec[n].parent = 0
  PROVE  \A n \in NodesOf("Condition")' : vec'[n].parent = 0
<1>1. PICK a, v, r :
        /\ a = Head(arcs) /\ v = WithCondition(a, Len(sco) + 1)
        /\ r = IF a.origin = 0 THEN Len(vec) + 1 ELSE bdd.root
  OBVIOUS
<1>2. phase = "scan" /\ arcs # <<>> /\ vec \in Seq(BDDNode) /\ a = arcs[1] /\ a \in ArcType
  BY <1>1, Pop DEF IInv, ProcessCondition, ScanEnds, TypeOK
<1>3. /\ v \in Seq(BDDNode) /\ Len(v) = Len(vec) + 1 /\ Len(vec) \in Nat
      /\ \A m \in 1..Len(vec) : v[m].kind = vec[m].kind /\ (m # a.origin => v[m] = vec[m])
      /\ a.origin # 0 => v[a.origin].kind = "Jump"
  BY <1>1, <1>2, WithConditionFacts
<1>4. PICK x : x = ConditionNode(Len(sco) + 1, a.dests)
  OBVIOUS
<1>5. PICK u : u = Append(vec, x)
  OBVIOUS
<1>6. x.parent = 0
  BY <1>4 DEF ConditionNode
<1>7. v = IF a.origin = 0 THEN u ELSE [u EXCEPT ![a.origin].dest = Len(vec) + 1]
  BY <1>1, <1>4, <1>5 DEF WithCondition
<1>8. u[Len(vec) + 1] = x
  BY <1>2, <1>5
<1>9. a.origin # Len(vec) + 1
  <2>1. 1 \in 1..Len(arcs)
    BY <1>2 DEF IInv, TypeOK
  <2>2. a.origin \in 1..Len(vec) \cup {0}
    BY <1>2, <2>1 DEF IInv, TypeOK, IdsAllocated, Ids
  <2> QED
    BY <1>3, <2>2
<1>10. v[Len(vec) + 1] = x
  <2>1. CASE a.origin = 0
    BY <1>7, <1>8, <2>1
  <2>2. CASE a.origin # 0
    <3>1. PICK y : y = [u[a.origin] EXCEPT !.dest = Len(vec) + 1]
      OBVIOUS
    <3>2. v = [u EXCEPT ![a.origin] = y]
      BY <1>7, <2>2, <3>1
    <3>3. Len(vec) + 1 \in DOMAIN u
      BY <1>2, <1>3, <1>5
    <3> QED
      BY <1>8, <1>9, <3>2, <3>3
  <2> QED
    BY <2>1, <2>2
<1>11. ASSUME NEW m \in 1..Len(v), v[m].kind = "Condition" PROVE v[m].parent = 0
  <2>1. CASE m = Len(vec) + 1
    BY <1>6, <1>10, <2>1
  <2>2. CASE m # Len(vec) + 1
    <3>1. m \in 1..Len(vec)
      BY <1>3, <2>2
    <3>2. v[m] = vec[m] /\ vec[m].kind = "Condition"
      BY <1>3, <1>11, <3>1
    <3> QED
      BY <3>1, <3>2 DEF NodesOf
  <2> QED
    BY <2>1, <2>2
<1>12. CASE vec' = v
  BY <1>11, <1>12 DEF NodesOf
<1>13. CASE vec' = PatchJumps(v)
  <2>1. ASSUME NEW m \in 1..Len(v), vec'[m].kind = "Condition" PROVE vec'[m].parent = 0
    <3>1. v[m] \in BDDNode
      BY <1>3
    <3>2. CASE v[m].kind = "Condition"
      <4>1. vec'[m] = [v[m] EXCEPT !.dests = [b \in BOOLEAN |-> PatchJump(v, @[b])]]
        BY <1>13, <3>2 DEF PatchJumps
      <4>2. v[m] \in ConditionNodeType
        BY <3>1, <3>2 DEF BDDNode, OutcomeNodeType, JumpNodeType
      <4>3. vec'[m].parent = v[m].parent
        BY <4>1, <4>2 DEF ConditionNodeType
      <4> QED
        BY <1>11, <3>2, <4>3
    <3>3. CASE v[m].kind = "Jump"
      <4>1. vec'[m] = [v[m] EXCEPT !.dest = PatchJump(v, @)]
        BY <1>13, <3>3 DEF PatchJumps
      <4>2. v[m] \in JumpNodeType
        BY <3>1, <3>3 DEF BDDNode, OutcomeNodeType, ConditionNodeType
      <4>3. vec'[m].kind = v[m].kind
        BY <4>1, <4>2 DEF JumpNodeType
      <4> QED
        BY <2>1, <3>3, <4>3
    <3>4. CASE v[m].kind \notin {"Jump", "Condition"}
      <4>1. vec'[m] = v[m]
        BY <1>13, <3>4 DEF PatchJumps
      <4> QED
        BY <2>1, <3>4, <4>1
    <3> QED
      BY <3>2, <3>3, <3>4
  <2>2. Len(vec') = Len(v)
    BY <1>3, <1>13 DEF PatchJumps
  <2> QED
    BY <2>1, <2>2 DEF NodesOf
<1> QED
  BY <1>1, <1>12, <1>13 DEF ProcessCondition

LEMMA VisitStarted ==
  ASSUME IInv, IInv', ExitsFixed', VisitsTraced, NEW code \in ConditionCodes,
         ProcessCondition(code), phase' # "scan"
  PROVE  Trace'
<1>1. PICK a, v, r :
        /\ a = Head(arcs) /\ v = WithCondition(a, Len(sco) + 1)
        /\ r = IF a.origin = 0 THEN Len(vec) + 1 ELSE bdd.root
  OBVIOUS
<1>2. /\ phase = "scan" /\ bdd' = [bdd EXCEPT !.root = r] /\ vec' = PatchJumps(v)
      /\ frames' = <<VisitCall(r, 0, FALSE)>> /\ count' = [m \in 1..Len(v) |-> 0]
  BY <1>1 DEF ProcessCondition
<1>3. /\ bdd'.root = r /\ bdd'.firstMultipath = 0 /\ \A b \in BOOLEAN : bdd'.reachable[b] = FALSE
  BY <1>2 DEF IInv, TypeOK, BDDType, VisitsTraced
<1>4. Ids' = 1..Len(v) /\ \A n \in Ids' : count'[n] = 0
  BY <1>2 DEF PatchJumps, Ids
<1>5. /\ frames' # <<>> /\ Len(frames') = 1 /\ frames'[1].at = "enter"
      /\ frames'[1].origin = 0 /\ frames'[1].node = r
  BY <1>2 DEF VisitCall
<1>6. \A n, S : "enter" \notin S => ~Pending(n, S)'
  BY <1>5 DEF Pending
<1>7. /\ NodesOf("Condition")' \subseteq Ids' /\ NodesOf("Outcome")' \subseteq Ids'
  BY DEF NodesOf, Ids
<1>8. \A n \in NodesOf("Condition")' : ~Visited(n)'
  BY <1>4, <1>6, <1>7 DEF Visited
<1>9. \A m, b, n : ~LeadsInto(m, b, n)'
  <2>1. ASSUME NEW m \in NodesOf("Condition")', NEW b \in BOOLEAN PROVE ~Passed(m, b)'
    <3>1. PICK S : S = IF b THEN {"return"} ELSE {"true", "return"}
      OBVIOUS
    <3> QED
      BY <1>4, <1>6, <1>7, <3>1 DEF Passed
  <2> QED
    BY <2>1 DEF LeadsInto
<1>10. \A n \in NodesOf("Outcome")' : vec'[n].outcome \in BOOLEAN
  <2>1. NodesOf("Outcome")' \subseteq {1, 2}
    BY <1>7 DEF IInv, ExitsFirst, Exits, ExitFalse, ExitTrue, NodesOf
  <2>2. vec'[1].outcome = FALSE /\ vec'[2].outcome = TRUE
    BY DEF ExitsFixed, ExitFalse, ExitTrue, OutcomeNode
  <2> QED
    BY <2>1, <2>2
<1>11. CallEntered'
  BY <1>3, <1>5, <1>8 DEF CallEntered
<1>12. OutcomesMarked'
  BY <1>3, <1>4, <1>7, <1>10 DEF OutcomesMarked
<1>13. \A n \in NodesOf("Condition")' : vec'[n].parent = 0
  BY <1>2, NewParents DEF VisitsTraced
<1> QED
  BY <1>3, <1>8, <1>9, <1>11, <1>12, <1>13
  DEF Trace, ParentsPassed, TargetsVisited, MultipathFound

LEMMA VisitsStep == PathIInv /\ PathIInv' /\ VisitsTraced /\ [Next]_vars => VisitsTraced'
<1> SUFFICES ASSUME PathIInv, PathIInv', VisitsTraced, [Next]_vars PROVE VisitsTraced'
  OBVIOUS
<1>1. IInv /\ IInv' /\ ExitsFixed /\ ExitsFixed'
  BY DEF PathIInv
<1>2. CASE EnumeratePaths
  <2>1. phase # "scan" /\ phase' # "scan" /\ NodesKept
    BY <1>1, <1>2, VisitOutcomeInv, VisitAgainInv, VisitFirstInv, VisitEdgeInv, VisitReturnInv,
       EnumeratedInv
    DEF EnumeratePaths, VisitOutcome, VisitAgain, VisitFirst, VisitEdge, VisitReturn, Enumerated
  <2>2. Trace
    BY <2>1 DEF VisitsTraced, Trace
  <2>3. Trace'
    BY <1>1, <1>2, <2>1, <2>2, VisitOutcomeTraced, VisitAgainTraced, VisitFirstTraced,
       VisitEdgeTraced, VisitReturnTraced, EnumeratedTraced
    DEF EnumeratePaths
  <2> QED
    BY <2>1, <2>3 DEF VisitsTraced, Trace
<1>3. CASE \E code \in ConditionCodes : ProcessCondition(code)
  <2>1. PICK code \in ConditionCodes : ProcessCondition(code)
    BY <1>3
  <2>2. phase' # "scan" => Trace'
    BY <1>1, <2>1, VisitStarted
  <2>3. PICK r : bdd' = [bdd EXCEPT !.root = r]
    BY <2>1 DEF ProcessCondition
  <2>4. bdd'.firstMultipath = bdd.firstMultipath /\ bdd'.reachable = bdd.reachable /\ phase = "scan"
    BY <1>1, <2>1, <2>3 DEF IInv, TypeOK, BDDType, ProcessCondition
  <2>5. \A n \in NodesOf("Condition")' : vec'[n].parent = 0
    BY <1>1, <2>1, <2>4, NewParents DEF VisitsTraced
  <2> QED
    BY <2>2, <2>4, <2>5 DEF VisitsTraced, Trace
<1>4. CASE ProcessNot
  BY <1>4 DEF ProcessNot, VisitsTraced, NodesOf
<1>6. CASE \E op \in {"AndThen", "OrElse"} : ProcessBinary(op)
  <2>1. /\ vec' = Append(vec, JumpNode) /\ phase = "scan" /\ phase' = phase /\ bdd' = bdd
        /\ vec \in Seq(BDDNode) /\ JumpNode \in BDDNode
    BY <1>1, <1>6 DEF ProcessBinary, JumpNode, BDDNode, JumpNodeType, IInv, TypeOK
  <2>2. Len(vec') = Len(vec) + 1 /\ vec'[Len(vec) + 1] = JumpNode /\ Len(vec) \in Nat
        /\ \A m \in 1..Len(vec) : vec'[m] = vec[m]
    BY <2>1, AppendFacts
  <2>3. \A n \in NodesOf("Condition")' : n \in NodesOf("Condition") /\ vec'[n] = vec[n]
    BY <2>2 DEF NodesOf, JumpNode
  <2> QED
    BY <2>1, <2>3 DEF VisitsTraced
<1>5. CASE UNCHANGED vars
  <2>1. /\ sco' = sco /\ vec' = vec /\ bdd' = bdd /\ phase' = phase /\ frames' = frames
        /\ count' = count
    BY <1>5 DEF vars
  <2> QED
    BY <2>1
    DEF VisitsTraced, CallEntered, ParentsPassed, OutcomesMarked, TargetsVisited, MultipathFound,
        LeadsInto, Passed, EdgeTaken, Visited, Entering, Pending, NodesOf, Ids
<1> QED
  BY <1>2, <1>3, <1>4, <1>5, <1>6 DEF Next

\* Visit finds the nodes along the edges that can be taken, each first along
\* the one it records as parent; the nodes that a second edge leads to are
\* there exactly when First_Multipath_Condition is set, and it is one of them.
THEOREM VisitInvariance == Spec => []VisitsTraced
<1>1. Init => VisitsTraced
  BY DEF Init, VisitsTraced, NodesOf, OutcomeNode
<1> QED
  BY <1>1, VisitsStep, PathInvariance, PTL DEF Spec
=============================================================================
