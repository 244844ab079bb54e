------------------------- MODULE MCEvaluationStack -------------------------
(* Instances of the evaluation stack for TLC.                              *)
EXTENDS EvaluationStack

To(i) == [next |-> i, outcome |-> FALSE]
Outcome(b) == [next |-> NoCondition, outcome |-> b]
Test(ifTrue, ifFalse) == [v \in BOOLEAN |-> IF v THEN ifTrue ELSE ifFalse]

\* (A and then B) or else C: condition 2 is reachable through two paths
AndOr == <<Test(To(1), To(2)), Test(Outcome(TRUE), To(2)),
           Test(Outcome(TRUE), Outcome(FALSE))>>

\* A and then B
And == <<Test(To(1), Outcome(FALSE)), Test(Outcome(TRUE), Outcome(FALSE))>>

FromZero(s) == [i \in 0..Len(s) - 1 |-> s[i + 1]]

\* rec calls itself from any condition; top calls rec and is never called
MCDecisions == {"rec", "top"}
MCSuccessor == [d \in MCDecisions |->
                  FromZero(IF d = "rec" THEN AndOr ELSE And)]
MCCallGraph == {<<"rec", i, "rec">> : i \in 0..2}
                 \cup {<<"top", i, "rec">> : i \in 0..1}

LaterChecks == {<<"rec", 1>>, <<"rec", 2>>, <<"top", 1>>}
TopOutcome == {<<"top", 1, TRUE>>}

\* What the theorems of EvaluationStack_proofs require
ASSUME FollowedAssumption == Followed
=============================================================================
