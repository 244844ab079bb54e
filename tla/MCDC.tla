-------------------------------- MODULE MCDC --------------------------------
(***************************************************************************)
(* MC/DC analysis of the evaluations recorded for a decision (mc_dc.adb,   *)
(* Coverage.Source.Compute_MCDC_State): the order that keeps them in a set,*)
(* the pairs that show the independent influence of a condition, and the   *)
(* state of the decision.                                                  *)
(***************************************************************************)
EXTENDS DecisionPaths

NoConditionIndex == -1

MaxIndex(S) == CHOOSE i \in S : \A j \in S : j <= i

\* An evaluation as source traces give it: one value per condition
SourceEvaluation(e) == ReferenceEvaluation(e)

\* An evaluation as object traces give it: Condition_Evaluated stops the
\* vector at the last condition evaluated
ObjectEvaluation(e) ==
  [ReferenceEvaluation(e) EXCEPT
     !.values = [i \in 0..MaxIndex(Evaluated(e)) |-> @[i]]]

Evaluations == {SourceEvaluation(e) : e \in Environments}
ObjectEvaluations == {ObjectEvaluation(e) : e \in Environments}

\* Cond_J: value of condition j in an evaluation, Unknown past its end
CondJ(ev, j) == IF j \in DOMAIN ev.values THEN ev.values[j] ELSE "Unknown"

\* Conditions evaluated in both evaluations, with different values
Varied(ev1, ev2) ==
  {j \in CondIndexes : /\ CondJ(ev1, j) # "Unknown"
                       /\ CondJ(ev2, j) # "Unknown"
                       /\ CondJ(ev1, j) # CondJ(ev2, j)}

\* Defects: the scan runs forward, or unique cause is not enforced
IsMCDCPairForward(ev1, ev2, uniqueCause) ==
  LET varied == Varied(ev1, ev2)
  IN  IF \/ ev1.outcome = ev2.outcome
         \/ varied = {}
         \/ uniqueCause /\ Cardinality(varied) > 1
      THEN NoConditionIndex
      ELSE CHOOSE i \in varied : \A j \in varied : i <= j
IsMCDCPairMasking(ev1, ev2, uniqueCause) ==
  LET varied == Varied(ev1, ev2)
  IN  IF ev1.outcome = ev2.outcome \/ varied = {} THEN NoConditionIndex
      ELSE MaxIndex(varied)

\* Is_MC_DC_Pair: the reverse scan stops at the last varied condition for
\* masking MC/DC, and requires it to be the only one for unique cause
IsMCDCPair(ev1, ev2, uniqueCause) ==
  LET varied == Varied(ev1, ev2)
  IN  IF \/ ev1.outcome = ev2.outcome
         \/ varied = {}
         \/ uniqueCause /\ Cardinality(varied) > 1
      THEN NoConditionIndex
      ELSE MaxIndex(varied)

\* Compute_MCDC_State: conditions whose independent influence the recorded
\* evaluations show, whichever the order they are paired in
Independent(evs, uniqueCause) ==
  {IsMCDCPair(p[1], p[2], uniqueCause) : p \in evs \X evs} \ {NoConditionIndex}

MCDCState(evs, uniqueCause) ==
  IF CondIndexes \subseteq Independent(evs, uniqueCause) THEN "Covered"
  ELSE IF Independent(evs, uniqueCause) = {} THEN "NotCovered"
  ELSE "PartiallyCovered"

\* Tristates compare in the order of their declaration: False, True, Unknown
Rank(t) == CASE t = "False" -> 0 [] t = "True" -> 1 [] t = "Unknown" -> 2

\* "<": the scan of R's values against L's
FirstDifference(l, r) ==
  {j \in DOMAIN r.values :
     /\ j \notin DOMAIN l.values \/ l.values[j] # r.values[j]
     /\ \A i \in DOMAIN r.values :
          i < j => i \in DOMAIN l.values /\ l.values[i] = r.values[i]}
\* Defect: the scan goes on past a value that is greater
EvalLessPastGreater(l, r) ==
  \E j \in DOMAIN r.values :
     \/ j \notin DOMAIN l.values
     \/ Rank(l.values[j]) < Rank(r.values[j])

EvalLess(l, r) ==
  \E j \in FirstDifference(l, r) :
     \/ j \notin DOMAIN l.values
     \/ Rank(l.values[j]) < Rank(r.values[j])

----------------------------------------------------------------------------
(* Properties, of every completed decision.                                *)

\* The valuations of the conditions that produce an evaluation
Valuations(ev) == {e \in Environments : SourceEvaluation(e) = ev}

\* "Remarkable property of Masking MC/DC with short circuit: any evaluation
\* pair with varied outcome is an independent influence pair for the
\* rightmost varied condition".  The pair always has such a condition, and
\* the condition alone decides: there are valuations e1 and e2 producing the
\* two evaluations that agree on every later condition, so that giving e1
\* the other value of that condition alone gives the outcome of e2.
MaskingPairsIndependent ==
  Completed =>
    \A ev1 \in Evaluations :
      LET valuations == Valuations(ev1)
      IN  \A ev2 \in Evaluations :
            ev1.outcome # ev2.outcome =>
              LET j == IsMCDCPair(ev1, ev2, FALSE)
              IN  /\ j # NoConditionIndex
                  /\ \E e \in valuations :
                       LET flipped == [e EXCEPT ![j] = ~@]
                       IN  /\ flipped \in Environments
                           /\ ExpressionValue(flipped) = ev2.outcome

\* A unique cause pair is a masking pair for the same condition: no other
\* condition evaluated in both evaluations changed, so that one valuation
\* yields both evaluations up to that single change.
UniqueCausePairsIndependent ==
  Completed =>
    \A ev1 \in Evaluations :
      LET valuations == Valuations(ev1)
      IN  \A ev2 \in Evaluations :
            LET j == IsMCDCPair(ev1, ev2, TRUE)
            IN  j # NoConditionIndex =>
                  /\ j = IsMCDCPair(ev1, ev2, FALSE)
                  /\ \E e \in valuations :
                       SourceEvaluation([e EXCEPT ![j] = ~@]) = ev2

\* The order on evaluations is a total order, and evaluations it cannot tell
\* apart are the same, outcome included (the assertion in "<"): a set of
\* evaluations neither loses one nor keeps it twice, whether they come from
\* source traces or from object traces, whose vectors differ in length.
EvaluationsTotallyOrdered ==
  Completed =>
    \A evs \in {Evaluations, ObjectEvaluations} :
      /\ \A l, r \in evs : l # r => (EvalLess(l, r) <=> ~EvalLess(r, l))
      /\ \A l \in evs : ~EvalLess(l, l)
      /\ \A l, m, r \in evs :
           EvalLess(l, m) /\ EvalLess(m, r) => EvalLess(l, r)

\* Sets of evaluations that take every branch of the BDD in both directions
BranchCovering ==
  {evs \in SUBSET Evaluations :
     \A i \in CondIndexes, b \in BOOLEAN :
        \E ev \in evs : ev.values[i] = ToTristate(b)}

\* Has_Multipath_Condition tells when object branch coverage is enough: with
\* no multipath condition, evaluations that take every branch achieve
\* masking MC/DC; with one, some that do so leave it unachieved ("OBC does
\* not imply MC/DC coverage").  Stated for decisions with no static condition.
BranchCoverageImpliesMCDC ==
  Completed /\ (\A s \in Conditions : sco[s].value = "Unknown") =>
    (~HasMultipathCondition <=>
       \A evs \in BranchCovering : MCDCState(evs, FALSE) = "Covered")
=============================================================================
