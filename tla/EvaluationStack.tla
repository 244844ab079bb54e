-------------------------- MODULE EvaluationStack --------------------------
(***************************************************************************)
(* Full history MC/DC from object traces (coverage-source.adb): a single   *)
(* stack of evaluations follows the decisions that the traced program      *)
(* evaluates.  The tool only sees conditional branches; the program nests  *)
(* evaluations (a condition calls a function that evaluates decisions, the *)
(* same one included) and abandons some of them when exceptions propagate. *)
(***************************************************************************)
EXTENDS Integers, Sequences, FiniteSets, SequencesExt

CONSTANTS
  Decisions,        \* decisions whose full history is processed
  Successor,        \* per decision, condition index and value: the next
                    \* condition, and the outcome when there is none
  CallGraph,        \* <<d, i, e>>: condition i of d may evaluate e by a call
  RaiseEdges,       \* <<d, i>>: a check of condition i of d branches to a raise
  UnknownOutcomes,  \* <<d, i, v>>: edge to an outcome that is not identified
  HandledInside,    \* whether exceptions that code without conditional branch
                    \* raises may be handled within an evaluation in progress
  MaxDepth,         \* bound: evaluations in progress in the program
  MaxStack          \* bound: evaluations on the stack when one is abandoned

NoCondition == -1
Conditions(d) == DOMAIN Successor[d]

ASSUME SuccessorAssumption ==
  \A d \in Decisions :
    /\ Conditions(d) \subseteq Nat /\ 0 \in Conditions(d)
    /\ \A i \in Conditions(d), v \in BOOLEAN :
         LET s == Successor[d][i][v]
         IN  /\ s.outcome \in BOOLEAN
             /\ s.next # NoCondition => s.next \in Conditions(d) /\ s.next > i

VARIABLES
  running,    \* the program: evaluations in progress, innermost last
  completed,  \* the program: evaluations it has completed
  stack,      \* Evaluation_Stack, top last
  recorded    \* SCI.Evaluations, of all decisions

vars == <<running, completed, stack, recorded>>

----------------------------------------------------------------------------
(* The program.                                                            *)

\* An evaluation in progress: condition cond is being evaluated, after those
\* of known, each with its value
Frame(d) == [decision |-> d, cond |-> 0, known |-> {}]

Current == Last(running)
Depth == Len(running)

\* The evaluations in progress once the n innermost are abandoned
Abandon(n) == SubSeq(running, 1, Depth - n)

----------------------------------------------------------------------------
(* Condition_Evaluated.                                                    *)

NewEvaluation(d) == [decision |-> d, values |-> <<>>, next |-> 0]

\* Defect: an evaluation of the decision is taken for the current one
SameDecision(d, i) == stack # <<>> /\ Last(stack).decision = d

InCurrentEvaluation(d, i) ==
  /\ stack # <<>>
  /\ Last(stack).decision = d
  /\ Last(stack).next = i

\* Unknown markers for the conditions before i that have no value
Pad(values, i) == values \o [j \in 1..(i - Len(values)) |-> "Unknown"]

\* Defect: the next condition is always the following one
WithConditionFollowing(e, i, v) ==
  [e EXCEPT !.values = Append(Pad(@, i), IF v THEN "True" ELSE "False"),
            !.next = IF i + 1 \in Conditions(e.decision) THEN i + 1
                     ELSE NoCondition]

\* Evaluation e with value v for condition i
WithCondition(e, i, v) ==
  [e EXCEPT !.values = Append(Pad(@, i), IF v THEN "True" ELSE "False"),
            !.next = Successor[e.decision][i][v].next]

\* The stack once the current evaluation, or a new one, has value v for
\* condition i of decision d
ConditionEvaluated(d, i, v) ==
  IF InCurrentEvaluation(d, i)
  THEN Append(Front(stack), WithCondition(Last(stack), i, v))
  ELSE Append(stack, WithCondition(NewEvaluation(d), i, v))

----------------------------------------------------------------------------

Init ==
  /\ running = <<>>
  /\ completed = {}
  /\ stack = <<>>
  /\ recorded = {}

\* The program starts to evaluate decision d, by a call from the condition in
\* progress if there is one.  No conditional branch: the tool sees nothing.
StartEvaluation(d) ==
  /\ Depth < MaxDepth
  /\ running # <<>> => <<Current.decision, Current.cond, d>> \in CallGraph
  /\ running' = Append(running, Frame(d))
  /\ UNCHANGED <<completed, stack, recorded>>

\* Edge_Taken, to another condition
ConditionTested(v) ==
  /\ running # <<>>
  /\ LET d == Current.decision
         i == Current.cond
         s == Successor[d][i][v]
     IN  /\ s.next # NoCondition
         /\ stack' = ConditionEvaluated(d, i, v)
         /\ running' = [running EXCEPT ![Depth].cond = s.next,
                                       ![Depth].known = @ \cup {<<i, v>>}]
  /\ UNCHANGED <<completed, recorded>>

\* Edge_Taken, to an outcome: Set_Outcome_Taken pops the evaluation and
\* records it, unless the outcome of the edge is unknown
OutcomeReached(v) ==
  /\ running # <<>>
  /\ LET d == Current.decision
         i == Current.cond
         s == Successor[d][i][v]
         evaluated == ConditionEvaluated(d, i, v)
         e == Last(evaluated)
     IN  /\ s.next = NoCondition
         /\ running' = Abandon(1)
         /\ \/ /\ <<d, i, v>> \notin UnknownOutcomes
               /\ stack' = Front(evaluated)
               /\ recorded' = recorded \cup
                    {[decision |-> e.decision, values |-> e.values,
                      outcome |-> s.outcome]}
               /\ completed' = completed \cup
                    {[decision |-> d, known |-> Current.known \cup {<<i, v>>},
                      outcome |-> s.outcome]}
            \/ /\ <<d, i, v>> \in UnknownOutcomes
               /\ Len(stack) < MaxStack
               /\ stack' = evaluated
               /\ UNCHANGED <<recorded, completed>>

\* An exception is raised by code without conditional branch, and handled
\* once the n innermost evaluations are abandoned: the tool sees nothing
RaiseInCall(n) ==
  /\ n \in 1..Depth
  /\ n = Depth \/ HandledInside
  /\ Len(stack) < MaxStack
  /\ running' = Abandon(n)
  /\ UNCHANGED <<completed, stack, recorded>>

\* A check of the condition in progress fails: the exception is handled in
\* the function that evaluates the decision, or further out.  Edge_Taken deletes
\* the last evaluation (Delete_Last does nothing to an empty vector).
RaiseFromCheck(n) ==
  /\ n \in 1..Depth
  /\ n \in {1, Depth} \/ HandledInside
  /\ n > 1 => Len(stack) < MaxStack
  /\ <<Current.decision, Current.cond>> \in RaiseEdges
  /\ running' = Abandon(n)
  /\ stack' = IF stack = <<>> THEN stack ELSE Front(stack)
  /\ UNCHANGED <<completed, recorded>>

Next ==
  \/ \E d \in Decisions : StartEvaluation(d)
  \/ \E v \in BOOLEAN : ConditionTested(v) \/ OutcomeReached(v)
  \/ \E n \in 1..MaxDepth : RaiseInCall(n) \/ RaiseFromCheck(n)

Spec == Init /\ [][Next]_vars

----------------------------------------------------------------------------
(* Properties.                                                             *)

\* The conditions with a value, and their values
Known(values) ==
  {<<j - 1, values[j] = "True">> :
     j \in {k \in 1..Len(values) : values[k] # "Unknown"}}

\* The evaluations in progress that the tool knows of, and how many of a set
\* of them are further in than the k-th one
PendingAt == {k \in 1..Depth : running[k].known # {}}
Above(P, k) == Cardinality({j \in P : j > k})

\* The evaluations in progress are the topmost ones of the stack, in order
\* and with the conditions evaluated so far, whatever was abandoned before:
\* the next condition that the program tests is looked for in the right one.
PendingOnTop ==
  \A k \in PendingAt :
    /\ Above(PendingAt, k) < Len(stack)
    /\ LET e == stack[Len(stack) - Above(PendingAt, k)]
       IN  /\ e.decision = running[k].decision
           /\ e.next = running[k].cond
           /\ Known(e.values) = running[k].known

\* The evaluations recorded are exactly those that the program completed,
\* each with the value of every condition that it evaluated.
RecordedExact ==
  {[decision |-> r.decision, known |-> Known(r.values), outcome |-> r.outcome] :
     r \in recorded} = completed

----------------------------------------------------------------------------
(* Why they hold.                                                          *)

\* Where the tool follows the program: exceptions leave all the evaluations in
\* progress, or are raised by a check once the evaluation is on the stack; and
\* an evaluation whose outcome is not identified is not nested in another one.
Followed ==
  /\ ~HandledInside
  /\ \A check \in RaiseEdges : check[2] # 0
  /\ \A edge \in UnknownOutcomes, call \in CallGraph : edge[1] # call[3]

Marks == {"True", "False", "Unknown"}

TypeOK ==
  /\ running \in Seq([decision : Decisions, cond : Nat, known : SUBSET (Nat \X BOOLEAN)])
  /\ stack \in Seq([decision : Decisions, values : Seq(Marks),
                    next : Nat \cup {NoCondition}])
  /\ recorded \subseteq [decision : Decisions, values : Seq(Marks), outcome : BOOLEAN]
  /\ completed \subseteq [decision : Decisions, known : SUBSET (Nat \X BOOLEAN),
                          outcome : BOOLEAN]

\* An evaluation that has not got past its first condition is not known of, and
\* each one but the outermost is called by the one around it
FramesLinked ==
  \A k \in 1..Depth :
    /\ running[k].cond \in Conditions(running[k].decision)
    /\ running[k].known = {} <=> running[k].cond = 0
    /\ k > 1 => <<running[k - 1].decision, running[k - 1].cond, running[k].decision>>
                  \in CallGraph

\* No evaluation of the stack waits for a first condition, or for one that has a
\* value: an abandoned one is never taken for one that starts
StackAhead ==
  \A m \in 1..Len(stack) :
    stack[m].next # NoCondition =>
      stack[m].next > 0 /\ Len(stack[m].values) <= stack[m].next

IInv == TypeOK /\ FramesLinked /\ StackAhead /\ PendingOnTop /\ RecordedExact
============================================================================
