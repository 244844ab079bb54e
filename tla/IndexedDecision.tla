--------------------------- MODULE IndexedDecision ---------------------------
(***************************************************************************)
(* The proof of concept of the path indexes (doc/design/instrument_mcdc.py, *)
(* under src/tools/gnatcov): the BDD of an expression tree, computed top   *)
(* down with placeholders, the IndexedBDD that adds the offsets, the Ada   *)
(* code that evaluates a decision and its index, and the tests that it     *)
(* generates for this code.  The tool computes the same with the jumps and *)
(* the path counts of DecisionBDD; the prototype knows no static           *)
(* condition.                                                              *)
(*                                                                         *)
(* Expressions are the ids of the operators and conditions in sco.  An     *)
(* outcome is a negative number, a placeholder is past the expressions.    *)
(***************************************************************************)
EXTENDS DecisionPaths

Outcome(b) == IF b THEN -1 ELSE -2
IsOutcome(node) == node < 0
OutcomeValue(node) == node = -1

Placeholder(operator) == Len(sco) + operator

----------------------------------------------------------------------------
(* BDD *)

Operand(s, pos) == sco[s].operands[pos]

\* What the arguments of compute_edges are for each expression: where it leads
\* when False and when True.  The right operand is a placeholder meanwhile.
Destinations ==
  LET dest[s \in 2..Len(sco)] ==
        LET p == sco[s].parent
            left == sco[p].kind = "Operator" /\ Operand(p, "Left") = s
        IN  CASE sco[p].kind = "Decision" -> [b \in BOOLEAN |-> Outcome(b)]
              [] sco[p].kind = "Operator" /\ sco[p].op = "Not" ->
                    [b \in BOOLEAN |-> dest[p][~b]]
              [] left /\ sco[p].op = "AndThen" ->
                    [dest[p] EXCEPT ![TRUE] = Placeholder(p)]
              [] left /\ sco[p].op = "OrElse" ->
                    [dest[p] EXCEPT ![FALSE] = Placeholder(p)]
              [] OTHER -> dest[p]
  IN  dest

\* What compute_edges returns: the first condition to evaluate.
FirstCondition ==
  LET root[s \in 2..Len(sco)] ==
        IF sco[s].kind = "Condition" THEN s
        ELSE IF sco[s].op = "Not" THEN root[Operand(s, "Right")]
        ELSE root[Operand(s, "Left")]
  IN  root

\* The second pass replaces the placeholders.
Substituted(node) ==
  IF node > Len(sco) THEN FirstCondition[Operand(node - Len(sco), "Right")] ELSE node

EntryCondition == FirstCondition[sco[Decision].expr]
Edges == [c \in Conditions |-> [b \in BOOLEAN |-> Substituted(Destinations[c][b])]]

----------------------------------------------------------------------------
(* IndexedBDD *)

CountFrom(counts, node) == IF IsOutcome(node) THEN 1 ELSE counts[node]

\* An edge leads to a later condition.
PathCounts(edges) ==
  LET count_of[c \in Conditions] ==
        CountFrom(count_of, edges[c][FALSE]) + CountFrom(count_of, edges[c][TRUE])
  IN  count_of

\* defect: the paths that follow are those of the True edge
OffsetsOfTrueEdge(edges, counts) ==
  [c \in Conditions |-> CountFrom(counts, edges[c][TRUE])]

Offsets(edges, counts) == [c \in Conditions |-> CountFrom(counts, edges[c][FALSE])]

----------------------------------------------------------------------------
(* The generated code and its tests *)

\* Function Decision: each condition has a label, with the increment and the
\* goto of each of its branches, and is emitted once.
AdaEvalCode(edges, offsets) ==
  [c \in Conditions |->
     [b \in BOOLEAN |-> [increment |-> IF b THEN offsets[c] ELSE 0, goto |-> edges[c][b]]]]

\* Its result and Witnessed_Index: the conditions are its parameters.
Call(code, param) ==
  LET run[c \in Conditions] ==
        [index \in Nat |->
           LET branch == code[c][param[c]]
               next == index + branch.increment
           IN  IF IsOutcome(branch.goto)
               THEN [result |-> OutcomeValue(branch.goto), index |-> next]
               ELSE run[branch.goto][next]]
  IN  run[EntryCondition][1]

\* The paths from a node, those through False first.
EnumerateTests(edges) ==
  LET paths[c \in Conditions] ==
        LET via(b) ==
              LET node == edges[c][b]
                  rest == IF IsOutcome(node)
                          THEN <<[path |-> {}, result |-> OutcomeValue(node)]>>
                          ELSE paths[node]
              IN  [i \in DOMAIN rest |-> [rest[i] EXCEPT !.path = @ \cup {<<c, b>>}]]
        IN  via(FALSE) \o via(TRUE)
  IN  paths[EntryCondition]

\* The parameters a test does not name are False.
Parameters(test) == [c \in Conditions |-> <<c, TRUE>> \in test.path]

----------------------------------------------------------------------------

\* A node of the tool's BDD, as the prototype names it.
Named(n) == IF vec[n].kind = "Outcome" THEN Outcome(vec[n].outcome) ELSE vec[n].csco

(***************************************************************************)
(* The design and the tool agree on every decision without static          *)
(* conditions: same edges, same offsets, same number of paths.  The code   *)
(* of the design computes the value of the decision and the path index of  *)
(* the tool, counted from 1, and its tests, in order, have the indexes     *)
(* from 1 on ("each evaluation path gives a different index and ... all    *)
(* possible indexes are contiguous", instrument_mcdc.py:286-287).          *)
(***************************************************************************)
PrototypeAgrees ==
  Completed /\ (\A s \in Conditions : sco[s].value = "Unknown") =>
    LET edges == Edges
        counts == PathCounts(edges)
        offsets == Offsets(edges, counts)
        code == AdaEvalCode(edges, offsets)
        tests == EnumerateTests(edges)
    IN  /\ EntryCondition = vec[bdd.root].csco
        /\ \A s \in Conditions :
              /\ \A b \in BOOLEAN : edges[s][b] = Named(NextBDDNode(s, b))
              /\ offsets[s] = OffsetForTrue(s)
        /\ counts[EntryCondition] = bdd.pathCount
        /\ \A e \in Environments :
              Call(code, [s \in Conditions |-> e[sco[s].index]]) =
                 [result |-> ExpressionValue(e), index |-> PathIndex(e) + 1]
        /\ Len(tests) = bdd.pathCount
        /\ \A i \in DOMAIN tests :
              Call(code, Parameters(tests[i])) =
                 [result |-> tests[i].result, index |-> i]
=============================================================================
