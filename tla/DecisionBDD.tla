---------------------------- MODULE DecisionBDD ----------------------------
(***************************************************************************)
(* Construction of the binary decision diagram (BDD) of one decision, from *)
(* the pre-order stream of low level SCO entries ('!', '&', '|', ' ') that *)
(* the instrumenter or the compiler produces for it:                       *)
(*   - Process_Low_Level_Entry appends one SCO per entry and calls the     *)
(*     BDD builder (sc_obligations.adb);                                   *)
(*   - the builder keeps a stack of pending arcs, one per operand still to *)
(*     be scanned, and Jump nodes standing for operands whose root         *)
(*     condition is not allocated yet (sc_obligations-bdd.adb);            *)
(*   - the entry that carries the Last flag triggers Completed, which      *)
(*     short-circuits the jumps, then Enumerate_Paths, whose recursive     *)
(*     Visit is modelled one call or return at a time, as a stack machine. *)
(*                                                                         *)
(* Node and SCO ids are positions in vec and sco; 0 is No_BDD_Node_Id and  *)
(* No_SCO_Id.  The decision is SCO 1.                                      *)
(***************************************************************************)
EXTENDS Integers, Sequences, FiniteSets

CONSTANTS
  ConditionCodes, \* C2 codes of the producer: "c", and "t", "f" if static
  MaxConditions,  \* bound: conditions in the decision
  MaxNots         \* bound: NOT operators in the decision

ASSUME BoundsAssumption ==
  /\ ConditionCodes \subseteq {"c", "t", "f"}
  /\ MaxConditions \in Nat \ {0}
  /\ MaxNots \in Nat

VARIABLES
  sco,        \* SCO_Vector: the decision, its operators and its conditions
  vec,        \* BDD_Vector: the nodes of this BDD
  arcs,       \* Arcs_Stack, top first
  bdd,        \* the BDD_Type record (State.Current_BDD)
  phase,      \* "scan", then "enumerate", then "done"
  frames,     \* pending calls to Visit, innermost first
  count       \* local Path_Count array of Enumerate_Paths

vars == <<sco, vec, arcs, bdd, phase, frames, count>>

Tristate == {"False", "True", "Unknown"}

\* Make_Condition_Value
ConditionValue(code) ==
  CASE code = "f" -> "False" [] code = "t" -> "True" [] code = "c" -> "Unknown"

ToTristate(b) == IF b THEN "True" ELSE "False"

ExitFalse == 1
ExitTrue  == 2

(***************************************************************************)
(* Node kinds, with the defaults the variant record BDD_Node gives them.   *)
(***************************************************************************)
OutcomeNode(b) == [kind |-> "Outcome", outcome |-> b]
JumpNode == [kind |-> "Jump", dest |-> 0]
ConditionNode(c, d) ==
  [kind |-> "Condition", csco |-> c, dests |-> d,
   parent |-> 0, parentValue |-> FALSE, offset |-> 0]

\* Destinations: what the False and True outcomes of a subtree lead to
Dests(f, t) == [b \in BOOLEAN |-> IF b THEN t ELSE f]

Arc(d, origin, parent, pos) ==
  [dests |-> d, origin |-> origin, parent |-> parent, pos |-> pos]

NodesOf(k) == {n \in 1..Len(vec) : vec[n].kind = k}
Conditions == {s \in 1..Len(sco) : sco[s].kind = "Condition"}
Operators  == {s \in 1..Len(sco) : sco[s].kind = "Operator"}
Nots       == {s \in Operators : sco[s].op = "Not"}

----------------------------------------------------------------------------
(* BDD.Create, on the decision's header entry.                             *)

Init ==
  /\ sco = <<[kind |-> "Decision", expr |-> 0, parent |-> 0]>>
  /\ vec = <<OutcomeNode(FALSE), OutcomeNode(TRUE)>>
  /\ arcs = <<Arc(Dests(ExitFalse, ExitTrue), 0, 1, "Right")>>
  /\ bdd = [root |-> 0, firstMultipath |-> 0,
            reachable |-> [b \in BOOLEAN |-> FALSE], pathCount |-> 0]
  /\ phase = "scan"
  /\ frames = <<>>
  /\ count = <<>>

----------------------------------------------------------------------------
(* Scanning operators and conditions.                                      *)

\* Set_Operand_Or_Expression on table t: expr becomes operand pos of parent
Attach(t, parent, pos, expr) ==
  LET t1 == [t EXCEPT ![expr].parent = parent]
  IN  IF t[parent].kind = "Operator"
      THEN [t1 EXCEPT ![parent].operands[pos] = expr]
      ELSE [t1 EXCEPT ![parent].expr = expr]

OperatorSCO(op) ==
  [kind |-> "Operator", op |-> op, parent |-> 0,
   operands |-> [p \in {"Left", "Right"} |-> 0]]
ConditionSCO(value, index, node) ==
  [kind |-> "Condition", value |-> value, index |-> index, node |-> node,
   parent |-> 0]

\* The entry's SCO is appended, and attached where the popped arc says
WithSCO(d) ==
  Attach(Append(sco, d), Head(arcs).parent, Head(arcs).pos, Len(sco) + 1)

ProcessNot ==
  /\ phase = "scan"
  /\ Cardinality(Nots) < MaxNots
  /\ sco' = WithSCO(OperatorSCO("Not"))
  /\ LET a == Head(arcs)
     IN  arcs' = <<Arc(Dests(a.dests[TRUE], a.dests[FALSE]), a.origin,
                       Len(sco) + 1, "Right")>> \o Tail(arcs)
  /\ UNCHANGED <<vec, bdd, phase, frames, count>>

\* Destinations of the left operand of a short-circuit operator: the right
\* operand, through jump l, on the value that does not decide the operator
LeftDests(op, a, l) ==
  IF op = "AndThen" THEN Dests(a.dests[FALSE], l) ELSE Dests(l, a.dests[TRUE])

\* Defect: the arcs of the operands are pushed in scan order, so that the
\* right one is popped first
ProcessBinaryRightFirst(op) ==
  /\ phase = "scan"
  /\ Cardinality(Conditions) + Len(arcs) < MaxConditions
  /\ sco' = WithSCO(OperatorSCO(op))
  /\ vec' = Append(vec, JumpNode)
  /\ LET a == Head(arcs)
         l == Len(vec) + 1
         o == Len(sco) + 1
     IN  arcs' = <<Arc(a.dests, l, o, "Right"),
                   Arc(LeftDests(op, a, l), a.origin, o, "Left")>> \o Tail(arcs)
  /\ UNCHANGED <<bdd, phase, frames, count>>

\* Process_And_Then and Process_Or_Else
ProcessBinary(op) ==
  /\ phase = "scan"
  /\ Cardinality(Conditions) + Len(arcs) < MaxConditions
  /\ sco' = WithSCO(OperatorSCO(op))
  /\ vec' = Append(vec, JumpNode)
  /\ LET a == Head(arcs)
         l == Len(vec) + 1
         o == Len(sco) + 1
     IN  arcs' = <<Arc(LeftDests(op, a, l), a.origin, o, "Left"),
                   Arc(a.dests, l, o, "Right")>> \o Tail(arcs)
  /\ UNCHANGED <<bdd, phase, frames, count>>

\* Defect: destinations are left as they are
PatchNothing(v, d) == d

\* Patch_Jump: a destination that denotes a jump becomes the jump's target
PatchJump(v, d) == IF v[d].kind = "Jump" THEN v[d].dest ELSE d

\* Completed: references to jumps are replaced.  A jump's own target is
\* never a jump (the assertion in Patch_Jump; see JumpsResolved), so the
\* order of the loop over the nodes does not matter.
PatchJumps(v) ==
  [n \in 1..Len(v) |->
     CASE v[n].kind = "Condition" ->
            [v[n] EXCEPT !.dests = [b \in BOOLEAN |-> PatchJump(v, @[b])]]
       [] v[n].kind = "Jump" -> [v[n] EXCEPT !.dest = PatchJump(v, @)]
       [] OTHER -> v[n]]

\* Defect: the value of the edge followed is not passed on
VisitCallNoValue(n, origin, value) ==
  [node |-> n, origin |-> origin, value |-> FALSE, at |-> "enter"]

VisitCall(n, origin, value) ==
  [node |-> n, origin |-> origin, value |-> value, at |-> "enter"]

\* The nodes once the condition is allocated and the jump that was waiting
\* for it, if any, is set to it
WithCondition(a, c) ==
  LET n == Len(vec) + 1
      v == Append(vec, ConditionNode(c, a.dests))
  IN  IF a.origin = 0 THEN v ELSE [v EXCEPT ![a.origin].dest = n]

\* A condition entry: Process_Condition, then, for the last condition of
\* the decision, Completed up to the first call of Visit
ProcessCondition(code) ==
  LET a == Head(arcs)
      n == Len(vec) + 1
      v == WithCondition(a, Len(sco) + 1)
      root == IF a.origin = 0 THEN n ELSE bdd.root
  IN  /\ phase = "scan"
      /\ sco' = WithSCO(ConditionSCO(ConditionValue(code),
                                     Cardinality(Conditions), n))
      /\ arcs' = Tail(arcs)
      /\ bdd' = [bdd EXCEPT !.root = root]
      /\ IF Len(arcs) = 1
         THEN /\ vec' = PatchJumps(v)
              /\ phase' = "enumerate"
              /\ frames' = <<VisitCall(root, 0, FALSE)>>
              /\ count' = [m \in 1..Len(v) |-> 0]
         ELSE /\ vec' = v
              /\ UNCHANGED <<phase, frames, count>>

----------------------------------------------------------------------------
(* Enumerate_Paths: Visit (Node_Id, Origin_Id, Origin_Value).              *)

\* Defects: the static value of the condition is ignored, or negated
EdgeAlwaysTaken(n, b) == TRUE
EdgeOppositeTaken(n, b) == sco[vec[n].csco].value # ToTristate(b)

\* The condition of node n is not statically known to have the other value
EdgeTaken(n, b) == sco[vec[n].csco].value # ToTristate(~b)

Frame == Head(frames)

\* Visit reaches an outcome
VisitOutcome ==
  /\ phase = "enumerate" /\ frames # <<>> /\ Frame.at = "enter"
  /\ vec[Frame.node].kind = "Outcome"
  /\ bdd' = [bdd EXCEPT !.reachable[vec[Frame.node].outcome] = TRUE]
  /\ count' = [count EXCEPT ![Frame.node] = 1]
  /\ frames' = Tail(frames)
  /\ UNCHANGED <<sco, vec, arcs, phase>>

\* Defect: a second path to a condition goes unnoticed
VisitAgainUnrecorded ==
  /\ phase = "enumerate" /\ frames # <<>> /\ Frame.at = "enter"
  /\ vec[Frame.node].kind = "Condition"
  /\ count[Frame.node] > 0
  /\ frames' = Tail(frames)
  /\ UNCHANGED <<sco, vec, arcs, bdd, phase, count>>

\* Visit reaches a condition whose paths are already counted
VisitAgain ==
  /\ phase = "enumerate" /\ frames # <<>> /\ Frame.at = "enter"
  /\ vec[Frame.node].kind = "Condition"
  /\ count[Frame.node] > 0
  /\ bdd' = [bdd EXCEPT !.firstMultipath = IF @ = 0 THEN Frame.node ELSE @]
  /\ frames' = Tail(frames)
  /\ UNCHANGED <<sco, vec, arcs, phase, count>>

\* Visit reaches a condition for the first time
VisitFirst ==
  /\ phase = "enumerate" /\ frames # <<>> /\ Frame.at = "enter"
  /\ vec[Frame.node].kind = "Condition"
  /\ count[Frame.node] = 0
  /\ vec' = [vec EXCEPT ![Frame.node].parent = Frame.origin,
                        ![Frame.node].parentValue = Frame.value]
  /\ frames' = <<[Frame EXCEPT !.at = "false"]>> \o Tail(frames)
  /\ UNCHANGED <<sco, arcs, bdd, phase, count>>

\* The loop over the destinations: False, then True
VisitEdge(b) ==
  /\ phase = "enumerate" /\ frames # <<>>
  /\ Frame.at = IF b THEN "true" ELSE "false"
  /\ LET after == [Frame EXCEPT !.at = IF b THEN "return" ELSE "true"]
     IN  frames' = (IF EdgeTaken(Frame.node, b)
                    THEN <<VisitCall(vec[Frame.node].dests[b],
                                     Frame.node, b), after>>
                    ELSE <<after>>) \o Tail(frames)
  /\ UNCHANGED <<sco, vec, arcs, bdd, phase, count>>

\* Count of paths through successor b of node n (Edge_Count)
EdgeCount(n, b) == IF EdgeTaken(n, b) THEN count[vec[n].dests[b]] ELSE 0

\* Defects: the offset is the count of the True edge, or one too many
PathOffsetOfTrue(n) == EdgeCount(n, TRUE)
PathOffsetPlusOne(n) == EdgeCount(n, FALSE) + 1

\* What a True value of the condition of n adds to the path index
PathOffset(n) == EdgeCount(n, FALSE)

VisitReturn ==
  /\ phase = "enumerate" /\ frames # <<>> /\ Frame.at = "return"
  /\ LET n == Frame.node
     IN  /\ vec' = [vec EXCEPT ![n].offset = PathOffset(n)]
         /\ count' = [count EXCEPT
                        ![n] = EdgeCount(n, FALSE) + EdgeCount(n, TRUE)]
  /\ frames' = Tail(frames)
  /\ UNCHANGED <<sco, arcs, bdd, phase>>

\* Enumerate_Paths returns
Enumerated ==
  /\ phase = "enumerate" /\ frames = <<>>
  /\ bdd' = [bdd EXCEPT !.pathCount = count[bdd.root]]
  /\ phase' = "done"
  /\ UNCHANGED <<sco, vec, arcs, frames, count>>

EnumeratePaths ==
  \/ VisitOutcome \/ VisitAgain \/ VisitFirst
  \/ \E b \in BOOLEAN : VisitEdge(b)
  \/ VisitReturn \/ Enumerated

Next ==
  \/ ProcessNot
  \/ \E op \in {"AndThen", "OrElse"} : ProcessBinary(op)
  \/ \E code \in ConditionCodes : ProcessCondition(code)
  \/ EnumeratePaths

Spec == Init /\ [][Next]_vars

\* Enumerate_Paths is a procedure call: once entered, it keeps running
FairSpec == Spec /\ WF_vars(EnumeratePaths)

----------------------------------------------------------------------------
(* Type invariant.                                                         *)

DecisionType == [kind : {"Decision"}, expr : Nat, parent : Nat]
OperatorType ==
  [kind : {"Operator"}, op : {"Not", "AndThen", "OrElse"}, parent : Nat,
   operands : [{"Left", "Right"} -> Nat]]
ConditionType ==
  [kind : {"Condition"}, value : Tristate, index : Nat, node : Nat,
   parent : Nat]
SCODescriptor == DecisionType \cup OperatorType \cup ConditionType

OutcomeNodeType == [kind : {"Outcome"}, outcome : BOOLEAN]
JumpNodeType == [kind : {"Jump"}, dest : Nat]
ConditionNodeType ==
  [kind : {"Condition"}, csco : Nat, dests : [BOOLEAN -> Nat], parent : Nat,
   parentValue : BOOLEAN, offset : Nat]
BDDNode == OutcomeNodeType \cup JumpNodeType \cup ConditionNodeType

ArcType ==
  [dests : [BOOLEAN -> Nat], origin : Nat, parent : Nat,
   pos : {"Left", "Right"}]
BDDType ==
  [root : Nat, firstMultipath : Nat, reachable : [BOOLEAN -> BOOLEAN],
   pathCount : Nat]
CallType ==
  [node : Nat, origin : Nat, value : BOOLEAN,
   at : {"enter", "false", "true", "return"}]

Ids == 1..Len(vec)

\* Nodes, arcs and calls only designate nodes already allocated
IdsAllocated ==
  /\ bdd.root \in Ids \cup {0}
  /\ \A n \in Ids :
       /\ vec[n].kind = "Condition" =>
            \A b \in BOOLEAN : vec[n].dests[b] \in Ids
       /\ vec[n].kind = "Jump" => vec[n].dest \in Ids \cup {0}
  /\ \A i \in 1..Len(arcs) :
       /\ arcs[i].origin \in Ids \cup {0}
       /\ \A b \in BOOLEAN : arcs[i].dests[b] \in Ids
       /\ arcs[i].parent \in 1..Len(sco)
       /\ sco[arcs[i].parent].kind # "Condition"
  /\ \A i \in 1..Len(frames) : frames[i].node \in Ids

TypeOK ==
  /\ sco \in Seq(SCODescriptor)
  /\ vec \in Seq(BDDNode)
  /\ arcs \in Seq(ArcType)
  /\ bdd \in BDDType
  /\ phase \in {"scan", "enumerate", "done"}
  /\ frames \in Seq(CallType)
  /\ phase # "scan" => count \in [Ids -> Nat]
  /\ Len(vec) >= 2
  /\ IdsAllocated

----------------------------------------------------------------------------
(* Safety of the construction.                                             *)

Exits == {ExitFalse, ExitTrue}

\* While a decision is scanned, every jump either waits to be the origin of
\* exactly one pending operand or already designates a condition: the
\* operand that will resolve it is never lost, nor scanned twice.  The root
\* is the only operand that no jump stands for.
JumpsResolved ==
  /\ \A i, j \in 1..Len(arcs) : arcs[i].origin = arcs[j].origin => i = j
  /\ \A i \in 1..Len(arcs) :
       IF arcs[i].origin = 0 THEN i = 1 /\ bdd.root = 0
       ELSE vec[arcs[i].origin] = JumpNode
  /\ bdd.root = 0 => arcs # <<>> /\ arcs[1].origin = 0
  /\ \A n \in NodesOf("Jump") :
       IF vec[n].dest = 0 THEN \E i \in 1..Len(arcs) : arcs[i].origin = n
       ELSE vec[vec[n].dest].kind = "Condition"

\* After Completed, no reference to a jump is left, and a condition leads to
\* an exit or to a condition allocated after it: the BDD is acyclic, which
\* Visit, Condition_Values and Outcome rely on to terminate.
ForwardEdges ==
  phase # "scan" =>
    /\ bdd.root \in NodesOf("Condition")
    /\ \A n \in NodesOf("Condition"), b \in BOOLEAN :
         LET d == vec[n].dests[b]
         IN  d \in Exits \/ (d > n /\ vec[d].kind = "Condition")

\* The count that Enumerate_Paths leaves on a condition is the sum of those
\* of the successors it can take, and what a True value adds to the path
\* index is the count of the False one: the indexes of the paths through the
\* two successors partition those of the condition.
CountsAdditive ==
  phase = "done" =>
    /\ bdd.pathCount = count[bdd.root] /\ bdd.pathCount > 0
    /\ \A n \in NodesOf("Condition") :
         count[n] > 0 =>
           /\ vec[n].offset = EdgeCount(n, FALSE)
           /\ count[n] = EdgeCount(n, FALSE) + EdgeCount(n, TRUE)
           /\ \A b \in BOOLEAN : EdgeTaken(n, b) => count[vec[n].dests[b]] > 0

----------------------------------------------------------------------------
(* The inductive invariant behind the three properties above.              *)

\* Where the arcs of a subtree lead while the decision is scanned: to an
\* exit, or to the jump of an operand deeper in the stack
ArcsLeadDeeper ==
  \A i \in 1..Len(arcs), b \in BOOLEAN :
    LET d == arcs[i].dests[b]
    IN  d \in Exits \/ \E j \in (i + 1)..Len(arcs) : arcs[j].origin = d

\* Where conditions lead during the scan: to an exit, or to a jump whose
\* target is not allocated yet or was allocated after the condition
ConditionsLeadForward ==
  phase = "scan" =>
    \A n \in NodesOf("Condition"), b \in BOOLEAN :
      LET d == vec[n].dests[b]
      IN  \/ d \in Exits
          \/ /\ vec[d].kind = "Jump"
             /\ vec[d].dest = 0 \/ vec[d].dest > n

ExitsFirst ==
  \A n \in Ids : n \in Exits <=> vec[n].kind = "Outcome"

\* The arcs are used up exactly when the scan ends
ScanEnds ==
  /\ phase = "scan" <=> arcs # <<>>
  /\ bdd.root # 0 => vec[bdd.root].kind = "Condition"
  /\ phase = "scan" => frames = <<>>

\* Edge b of node n has been followed, and its paths counted
Explored(n, b) == EdgeTaken(n, b) => count[vec[n].dests[b]] > 0

Additive(n) ==
  /\ vec[n].offset = EdgeCount(n, FALSE)
  /\ count[n] = EdgeCount(n, FALSE) + EdgeCount(n, TRUE)
  /\ Explored(n, FALSE) /\ Explored(n, TRUE)

\* Pending call i: it was made along an edge its caller has just moved past,
\* and it has moved past no edge whose paths are not counted, unless the call
\* along that edge is pending
CallNested(i) ==
  LET f == frames[i]
  IN  /\ vec[f.node].kind # "Jump"
      /\ f.at # "enter" => vec[f.node].kind = "Condition" /\ count[f.node] = 0
      /\ i > 1 => \/ /\ f.at = "true"
                     /\ frames[i - 1].node = vec[f.node].dests[FALSE]
                  \/ /\ f.at = "return"
                     /\ frames[i - 1].node = vec[f.node].dests[TRUE]
      /\ f.at = "return" => Explored(f.node, FALSE)
      /\ i = 1 /\ f.at = "true" => Explored(f.node, FALSE)
      /\ i = 1 /\ f.at = "return" => Explored(f.node, TRUE)

\* A condition being visited is pending once
CallsOrdered ==
  \A i, j \in 1..Len(frames) :
    i < j /\ frames[i].at # "enter" => frames[i].node > frames[j].node

FramesNested ==
  phase # "scan" =>
    /\ \A i \in 1..Len(frames) : CallNested(i)
    /\ CallsOrdered
    /\ frames # <<>> => frames[Len(frames)].node = bdd.root
    /\ frames = <<>> => count[bdd.root] > 0
    /\ phase = "done" => frames = <<>> /\ bdd.pathCount = count[bdd.root]

CountedNodesAdditive ==
  phase # "scan" =>
    /\ \A n \in NodesOf("Condition") : count[n] > 0 => Additive(n)
    /\ \A n \in NodesOf("Outcome") : count[n] \in {0, 1}

IInv ==
  /\ TypeOK /\ JumpsResolved /\ ForwardEdges
  /\ ExitsFirst /\ ScanEnds /\ ArcsLeadDeeper /\ ConditionsLeadForward
  /\ FramesNested /\ CountedNodesAdditive
=============================================================================
