--------------------------- MODULE DecisionPaths ---------------------------
(***************************************************************************)
(* What the rest of the tool reads off a completed BDD: the contribution   *)
(* of each condition to the path index (Offset_For_True), the decoding of  *)
(* a path index into condition values (Condition_Values), the outcome that *)
(* a condition value forces (Outcome), the values that must precede a      *)
(* condition (Get_Origin, MC_DC.Infer_Values), and the statically known    *)
(* outcome (Decision_Outcome).  The reference they are compared with is    *)
(* the expression tree that the SCO operands describe, evaluated under     *)
(* short-circuit semantics.                                                *)
(***************************************************************************)
EXTENDS DecisionBDD

Decision == 1
LastCondIndex == Cardinality(Conditions) - 1
CondIndexes == 0..LastCondIndex

\* Condition (SCO, Index): that of the Index-th condition node, from 0
ConditionAt(i) ==
  LET node == CHOOSE n \in NodesOf("Condition") :
                Cardinality({m \in NodesOf("Condition") : m < n}) = i
  IN  vec[node].csco

(***************************************************************************)
(* Reference semantics: an environment gives each condition, by index, the *)
(* value it has whenever it is evaluated; a statically known condition has *)
(* its static value.                                                       *)
(***************************************************************************)
Environments ==
  {e \in [CondIndexes -> BOOLEAN] :
     \A s \in Conditions : sco[s].value # ToTristate(~e[sco[s].index])}

\* Value of every subexpression; operands have higher ids than operators
Value(e) ==
  LET val[s \in 2..Len(sco)] ==
        IF sco[s].kind = "Condition" THEN e[sco[s].index]
        ELSE CASE sco[s].op = "Not"     -> ~val[sco[s].operands["Right"]]
               [] sco[s].op = "AndThen" -> /\ val[sco[s].operands["Left"]]
                                           /\ val[sco[s].operands["Right"]]
               [] sco[s].op = "OrElse"  -> \/ val[sco[s].operands["Left"]]
                                           \/ val[sco[s].operands["Right"]]
  IN  val

ExpressionValue(e) == Value(e)[sco[Decision].expr]

\* Indexes of the conditions evaluated under e: an operand is evaluated when
\* its operator is and, on the right, when the left value does not decide it
Evaluated(e) ==
  LET val == Value(e)
      Decides(s) == val[sco[s].operands["Left"]] = (sco[s].op = "OrElse")
      ev[s \in 1..Len(sco)] ==
        LET p == sco[s].parent
        IN  IF s = Decision THEN TRUE
            ELSE /\ ev[p]
                 /\ \/ sco[p].kind = "Decision"
                    \/ sco[p].op = "Not"
                    \/ sco[p].operands["Left"] = s
                    \/ ~Decides(p)
  IN  {sco[s].index : s \in {c \in Conditions : ev[c]}}

\* The evaluation that MC/DC analysis should see for e
ReferenceEvaluation(e) ==
  LET evaluated == Evaluated(e)
  IN  [values  |-> [i \in CondIndexes |-> IF i \in evaluated
                                         THEN ToTristate(e[i]) ELSE "Unknown"],
       outcome |-> ExpressionValue(e)]

----------------------------------------------------------------------------
(* Accessors of the completed BDD.                                         *)

\* Once the jumps are patched, no node leads to one
PathNodes == Ids \ NodesOf("Jump")

OffsetForTrue(s) == vec[sco[s].node].offset
NextBDDNode(s, b) == vec[sco[s].node].dests[b]

\* The path index the instrumented program computes under e: the condition
\* witnesses run in evaluation order, each adding its offset when True
PathIndex(e) ==
  LET idx[n \in PathNodes] ==
        IF vec[n].kind = "Outcome" THEN 0
        ELSE LET v == e[sco[vec[n].csco].index]
             IN  (IF v THEN OffsetForTrue(vec[n].csco) ELSE 0)
                 + idx[vec[n].dests[v]]
  IN  idx[bdd.root]

\* Condition_Values: follow the BDD, subtracting offsets from the index
ConditionValues(pathIndex) ==
  LET walk[n \in PathNodes] ==
        [tail \in 0..pathIndex |->
           IF vec[n].kind = "Outcome"
           THEN [values |-> [i \in CondIndexes |-> "Unknown"],
                 outcome |-> vec[n].outcome]
           ELSE LET v == tail >= vec[n].offset
                    rest == walk[vec[n].dests[v]]
                              [IF v THEN tail - vec[n].offset ELSE tail]
                IN  [rest EXCEPT !.values[sco[vec[n].csco].index] =
                       ToTristate(v)]]
  IN  walk[bdd.root][pathIndex]

\* Outcome (SCO, Value): the decision outcome that value b of condition s
\* leads to, through statically known conditions only
OutcomeOf(s, b) ==
  LET out[n \in PathNodes] ==
        IF vec[n].kind = "Outcome" THEN ToTristate(vec[n].outcome)
        ELSE LET v == sco[vec[n].csco].value
             IN  IF v = "Unknown" THEN "Unknown"
                 ELSE out[vec[n].dests[v = "True"]]
  IN  out[NextBDDNode(s, b)]

HasMultipathCondition == bdd.firstMultipath # 0

\* Decision_Outcome: the outcome when only one is reachable
DecisionOutcome ==
  IF bdd.reachable[FALSE] # bdd.reachable[TRUE]
  THEN ToTristate(bdd.reachable[TRUE]) ELSE "Unknown"

\* Infer_Values: climb the parents of the node of condition s (Get_Origin)
InferValues(s) ==
  LET climb[n \in NodesOf("Condition")] ==
        IF vec[n].parent = 0
        THEN [i \in 0..(sco[s].index - 1) |-> "Unknown"]
        ELSE [climb[vec[n].parent] EXCEPT
                ![sco[vec[vec[n].parent].csco].index] =
                  ToTristate(vec[n].parentValue)]
  IN  climb[sco[s].node]

----------------------------------------------------------------------------
(* Properties of a completed decision.                                     *)

Completed == phase = "done"

\* The BDD computes the decision: for every valuation of the conditions, the
\* path followed in the BDD evaluates exactly the conditions that the
\* short-circuit expression evaluates and reaches its value, and the index
\* computed along it (by the condition witnesses) decodes, by
\* Condition_Values, into just those values and that outcome, which Condition
\* attributes to the conditions they were recorded for.
PathIndexRoundTrip ==
  Completed =>
    /\ \A s \in Conditions : ConditionAt(sco[s].index) = s
    /\ \A e \in Environments :
         /\ PathIndex(e) \in 0..(bdd.pathCount - 1)
         /\ ConditionValues(PathIndex(e)) = ReferenceEvaluation(e)

\* Path_Count is the number of MC/DC bits reserved for the decision; every
\* one of them stands for an evaluation that can happen, and for one only.
PathCountExact ==
  Completed =>
    bdd.pathCount = Cardinality({ReferenceEvaluation(e) : e \in Environments})

\* First_Multipath_Condition is set exactly when some condition can be
\* reached through two evaluations that differ before it, and designates
\* such a condition: coverage of the BDD's branches implies MC/DC only when
\* there is none, and object coverage keeps full history on that basis.
Prefix(e, s) ==
  LET values == ReferenceEvaluation(e).values
  IN  [i \in 0..(sco[s].index - 1) |-> values[i]]
MultipathConditions ==
  {s \in Conditions :
     Cardinality({Prefix(e, s) : e \in {f \in Environments :
                                    sco[s].index \in Evaluated(f)}}) > 1}
MultipathExact ==
  Completed =>
    IF MultipathConditions = {} THEN ~HasMultipathCondition
    ELSE HasMultipathCondition
         /\ vec[bdd.firstMultipath].csco \in MultipathConditions

\* With no multipath condition, the values Infer_Values deduces before a
\* condition are those of every evaluation that reaches it.
InferredValuesSound ==
  Completed /\ ~HasMultipathCondition =>
    \A e \in Environments, s \in Conditions :
      sco[s].index \in Evaluated(e) => InferValues(s) = Prefix(e, s)

\* Statically known conditions: an outcome is recorded as reachable exactly
\* when some evaluation produces it, and the outcome that Outcome attaches to
\* a condition value is that of every evaluation giving the condition that
\* value.
StaticOutcomesSound ==
  Completed =>
    LET outcomes == {ExpressionValue(e) : e \in Environments}
    IN  /\ bdd.reachable = [b \in BOOLEAN |-> b \in outcomes]
        /\ \A b \in outcomes : DecisionOutcome \in {"Unknown", ToTristate(b)}
        /\ \A e \in Environments :
              LET evaluated == Evaluated(e)
                  outcome == ToTristate(ExpressionValue(e))
              IN  \A s \in Conditions :
                    sco[s].index \in evaluated =>
                      OutcomeOf(s, e[sco[s].index]) \in {"Unknown", outcome}

\* Once its last entry is scanned, the enumeration of the paths of a decision
\* ends: Visit follows no cycle.
EnumerationEnds == (phase = "enumerate") ~> (phase = "done")
----------------------------------------------------------------------------
(* Why they hold: the BDD has the shape of the expression.                 *)

\* The operands that an SCO other than a condition has
Positions(p) ==
  IF sco[p].kind = "Decision" \/ sco[p].op = "Not" THEN {"Right"}
  ELSE {"Left", "Right"}

OperandOf(p, pos) ==
  IF sco[p].kind = "Decision" THEN sco[p].expr ELSE sco[p].operands[pos]

IsOperand(s, p, pos) ==
  sco[p].kind # "Condition" /\ pos \in Positions(p) /\ OperandOf(p, pos) = s

\* The entries make a tree, but for the operands that arcs wait for
TreeGrows ==
  /\ sco[Decision].kind = "Decision"
  /\ \A s \in 2..Len(sco) :
       /\ sco[s].kind # "Decision" /\ sco[s].parent \in 1..(s - 1)
       /\ \E pos \in {"Left", "Right"} : IsOperand(s, sco[s].parent, pos)
  /\ \A p \in 1..Len(sco), pos \in {"Left", "Right"} :
       sco[p].kind # "Condition" /\ pos \in Positions(p) =>
         LET x == OperandOf(p, pos)
         IN  \/ x \in (p + 1)..Len(sco) /\ sco[x].parent = p
             \/ x = 0 /\ \E i \in 1..Len(arcs) : arcs[i].parent = p /\ arcs[i].pos = pos
  /\ \A i \in 1..Len(arcs) : IsOperand(0, arcs[i].parent, arcs[i].pos)
  /\ \A i, j \in 1..Len(arcs) :
       arcs[i].parent = arcs[j].parent /\ arcs[i].pos = arcs[j].pos => i = j

ExitsFixed == vec[ExitFalse] = OutcomeNode(FALSE) /\ vec[ExitTrue] = OutcomeNode(TRUE)

\* Conditions and their nodes are numbered in the order of their entries
NodesNumbered ==
  /\ Cardinality(NodesOf("Condition")) = Cardinality(Conditions)
  /\ \A n \in NodesOf("Condition") :
       vec[n].csco \in Conditions /\ sco[vec[n].csco].node = n
  /\ \A s \in Conditions :
       LET n == sco[s].node
       IN  /\ sco[s].index \in CondIndexes
           /\ n \in NodesOf("Condition") /\ vec[n].csco = s
           /\ Cardinality({m \in NodesOf("Condition") : m < n}) = sco[s].index

(***************************************************************************)
(* For each SCO: where its values lead (d), the jump that stands for it, 0 *)
(* for the leftmost operands (o), and, for an operator, the jump that      *)
(* stands for its right operand (j).                                       *)
(***************************************************************************)
LeadsTo(d, j, p, pos) ==
  IF sco[p].kind = "Decision" THEN d[p]
  ELSE IF sco[p].op = "Not" THEN Dests(d[p][TRUE], d[p][FALSE])
  ELSE IF pos = "Left" THEN LeftDests(sco[p].op, [dests |-> d[p]], j[p])
  ELSE d[p]

StandsFor(o, j, p, pos) ==
  IF sco[p].kind = "Operator" /\ sco[p].op # "Not" /\ pos = "Right" THEN j[p]
  ELSE o[p]

Skeleton(d, o, j) ==
  /\ d[Decision] = Dests(ExitFalse, ExitTrue) /\ o[Decision] = 0
  /\ \A p \in 1..Len(sco), s \in 2..Len(sco), pos \in {"Left", "Right"} :
       IsOperand(s, p, pos) =>
         d[s] = LeadsTo(d, j, p, pos) /\ o[s] = StandsFor(o, j, p, pos)
  /\ \A i \in 1..Len(arcs) :
       /\ arcs[i].dests = LeadsTo(d, j, arcs[i].parent, arcs[i].pos)
       /\ arcs[i].origin = StandsFor(o, j, arcs[i].parent, arcs[i].pos)

\* The node of a condition leads there, and its jump, if any, leads to the node
Reflects(d, o) ==
  \A c \in Conditions :
    LET n == sco[c].node
    IN  /\ \A b \in BOOLEAN :
             vec[n].dests[b] = IF phase = "scan" THEN d[c][b]
                               ELSE PatchJump(vec, d[c][b])
        /\ IF o[c] = 0 THEN bdd.root = n
           ELSE vec[o[c]].kind = "Jump" /\ vec[o[c]].dest = n

Shaped ==
  \E d \in [1..Len(sco) -> [BOOLEAN -> Ids]],
     o \in [1..Len(sco) -> Ids \cup {0}], j \in [1..Len(sco) -> Ids] :
       Skeleton(d, o, j) /\ Reflects(d, o)

PathIInv == IInv /\ ExitsFixed /\ TreeGrows /\ NodesNumbered /\ Shaped

(***************************************************************************)
(* How Visit found the nodes: each was reached along an edge that a caller *)
(* had moved past, the one it has as parent, and the first edge to lead to *)
(* a node that was visited already made it the multipath one.              *)
(***************************************************************************)

Pending(n, steps) ==
  \E i \in 1..Len(frames) : frames[i].node = n /\ frames[i].at \in steps

Visited(n) == count[n] > 0 \/ Pending(n, {"false", "true", "return"})

\* Visit has moved past edge b of condition node n, which can be taken
Passed(n, b) ==
  /\ EdgeTaken(n, b)
  /\ count[n] > 0 \/ Pending(n, IF b THEN {"return"} ELSE {"true", "return"})

\* The call along edge b of node n, or from Enumerate_Paths (n = 0), starts
Entering(n, b) ==
  frames # <<>> /\ frames[1].at = "enter" /\ frames[1].origin = n /\ frames[1].value = b

LeadsInto(m, b, n) ==
  /\ m \in NodesOf("Condition") /\ b \in BOOLEAN
  /\ Passed(m, b) /\ vec[m].dests[b] = n

\* The node entered is the root, before any other, or where the edge leads
CallEntered ==
  frames # <<>> /\ frames[1].at = "enter" =>
    IF frames[1].origin = 0
    THEN frames[1].node = bdd.root /\ \A n \in NodesOf("Condition") : ~Visited(n)
    ELSE LeadsInto(frames[1].origin, frames[1].value, frames[1].node)

ParentsPassed ==
  \A n \in NodesOf("Condition") :
    IF Visited(n)
    THEN /\ IF vec[n].parent = 0 THEN n = bdd.root
            ELSE LeadsInto(vec[n].parent, vec[n].parentValue, n)
         /\ ~Entering(vec[n].parent, vec[n].parentValue)
    ELSE vec[n].parent = 0

OutcomesMarked ==
  \A n \in NodesOf("Outcome") :
    /\ bdd.reachable[vec[n].outcome] <=> count[n] > 0
    /\ count[n] > 0 => \E m \in Ids, b \in BOOLEAN : LeadsInto(m, b, n)

TargetsVisited ==
  \A n \in NodesOf("Condition"), m \in Ids, b \in BOOLEAN :
    LeadsInto(m, b, n) /\ ~Entering(m, b) =>
      /\ Visited(n)
      /\ bdd.firstMultipath = 0 => vec[n].parent = m /\ vec[n].parentValue = b

MultipathFound ==
  bdd.firstMultipath # 0 =>
    LET n == bdd.firstMultipath
    IN  /\ n \in NodesOf("Condition") /\ Visited(n)
        /\ \E m \in Ids, b \in BOOLEAN :
             LeadsInto(m, b, n) /\ (vec[n].parent # m \/ vec[n].parentValue # b)

VisitsTraced ==
  /\ phase = "scan" =>
       /\ bdd.firstMultipath = 0 /\ \A b \in BOOLEAN : ~bdd.reachable[b]
       /\ \A n \in NodesOf("Condition") : vec[n].parent = 0
  /\ phase # "scan" =>
       CallEntered /\ ParentsPassed /\ OutcomesMarked /\ TargetsVisited /\ MultipathFound
=============================================================================
