------------------------ MODULE EvaluationStack_proofs ------------------------
(***************************************************************************)
(* Proofs about the evaluation stack: where the tool follows the program,  *)
(* the evaluations in progress stay on top of whatever was abandoned, and  *)
(* those recorded are those completed, for any decisions, any calls and    *)
(* recursion between them, and any number of evaluations.                  *)
(***************************************************************************)
EXTENDS EvaluationStack, FiniteSetTheorems, SequenceTheorems, TLAPS

FrameType == [decision : Decisions, cond : Nat, known : SUBSET (Nat \X BOOLEAN)]
EvaluationType ==
  [decision : Decisions, values : Seq(Marks), next : Nat \cup {NoCondition}]

----------------------------------------------------------------------------
(* Counting the evaluations above one                                      *)

LEMMA AboveType ==
  ASSUME NEW n \in Nat, NEW P \in SUBSET (1..n), NEW k \in Nat
  PROVE  Above(P, k) \in Nat
<1>1. IsFiniteSet(1..n)
  BY FS_Interval
<1>2. {j \in P : j > k} \subseteq 1..n
  OBVIOUS
<1>3. IsFiniteSet({j \in P : j > k})
  BY <1>1, <1>2, FS_Subset
<1> QED
  BY <1>3, FS_CardinalityType DEF Above

\* Nothing is above the last one
LEMMA AboveLast ==
  ASSUME NEW n \in Nat, NEW P \in SUBSET (1..n)
  PROVE  Above(P, n) = 0
<1>1. \A j \in P : j \in Nat /\ j <= n
  OBVIOUS
<1>2. \A j \in P : ~(j > n)
  BY <1>1
<1>3. {j \in P : j > n} = {}
  BY <1>2, Zenon
<1> QED
  BY <1>3, FS_EmptySet DEF Above

\* The last one is above all the others
LEMMA AboveGrows ==
  ASSUME NEW n \in Nat, NEW P \in SUBSET (1..n), n \notin P, NEW k \in P
  PROVE  Above(P \cup {n}, k) = Above(P, k) + 1
<1> DEFINE A == {j \in P : j > k}
<1>1. IsFiniteSet(A)
  <2>1. A \subseteq 1..n
    OBVIOUS
  <2>2. IsFiniteSet(1..n)
    BY FS_Interval
  <2> QED
    BY <2>1, <2>2, FS_Subset
<1>2. {j \in P \cup {n} : j > k} = A \cup {n} /\ n \notin A
  OBVIOUS
<1>3. Cardinality(A \cup {n}) = Cardinality(A) + 1
  <2> HIDE DEF A
  <2> QED
    BY <1>1, <1>2, FS_AddElement
<1> QED
  BY <1>2, <1>3 DEF Above

----------------------------------------------------------------------------
(* The values of an evaluation                                             *)

\* The conditions known of an evaluation after a value is added: those known
\* before, and this one; those that were skipped are unknown
LEMMA KnownWithValue ==
  ASSUME NEW s \in Seq(Marks), NEW i \in Nat, Len(s) <= i, NEW v \in BOOLEAN
  PROVE  LET t == Append(Pad(s, i), IF v THEN "True" ELSE "False")
         IN  t \in Seq(Marks) /\ Len(t) = i + 1 /\ Known(t) = Known(s) \cup {<<i, v>>}
<1> DEFINE p == [j \in 1..(i - Len(s)) |-> "Unknown"]
           x == IF v THEN "True" ELSE "False"
           t == Append(Pad(s, i), x)
<1>1. p \in Seq(Marks) /\ Len(p) = i - Len(s) /\ Len(s) \in Nat
  BY DEF Marks
<1>2. /\ Pad(s, i) \in Seq(Marks) /\ Len(Pad(s, i)) = i
      /\ \A j \in 1..Len(s) : Pad(s, i)[j] = s[j]
      /\ \A j \in (Len(s) + 1)..i : Pad(s, i)[j] = "Unknown"
  BY <1>1 DEF Pad
<1>3. x \in Marks /\ x # "Unknown" /\ (x = "True") = v
  BY DEF Marks
<1>4. /\ t \in Seq(Marks) /\ Len(t) = i + 1 /\ t[i + 1] = x
      /\ \A j \in 1..Len(s) : t[j] = s[j]
      /\ \A j \in (Len(s) + 1)..i : t[j] = "Unknown"
  <2> HIDE DEF x
  <2> QED
    BY <1>1, <1>2, <1>3
<1> HIDE DEF p, x, t
<1>5. {k \in 1..Len(t) : t[k] # "Unknown"}
        = {k \in 1..Len(s) : s[k] # "Unknown"} \cup {i + 1}
  BY <1>1, <1>3, <1>4
<1>6. \A k \in 1..Len(s) : (t[k] = "True") = (s[k] = "True")
  BY <1>4
<1>7. Known(t) = Known(s) \cup {<<i, v>>}
  <2>1. Known(t) = {<<j - 1, t[j] = "True">> :
                      j \in {k \in 1..Len(s) : s[k] # "Unknown"} \cup {i + 1}}
    BY <1>5 DEF Known
  <2>2. ASSUME NEW c PROVE c \in Known(t) <=> c \in Known(s) \cup {<<i, v>>}
    <3>1. <<(i + 1) - 1, t[i + 1] = "True">> = <<i, v>>
      BY <1>3, <1>4
    <3>2. c \in Known(t) <=>
            \/ \E j \in 1..Len(s) : s[j] # "Unknown" /\ c = <<j - 1, t[j] = "True">>
            \/ c = <<(i + 1) - 1, t[i + 1] = "True">>
      BY <2>1
    <3>3. c \in Known(s) <=>
            \E j \in 1..Len(s) : s[j] # "Unknown" /\ c = <<j - 1, s[j] = "True">>
      BY DEF Known
    <3> QED
      BY <1>6, <3>1, <3>2, <3>3
  <2> QED
    BY <2>2
<1> QED
  BY <1>4, <1>7 DEF t, x

----------------------------------------------------------------------------
(* The tool follows the condition that the program evaluates               *)

\* The program's evaluation in progress, and its place in the counts
LEMMA CurrentFacts ==
  ASSUME IInv, running # <<>>
  PROVE  /\ Depth \in Nat \ {0} /\ Current = running[Depth]
         /\ Current.decision \in Decisions
         /\ Current.cond \in Conditions(Current.decision) /\ Current.cond \in Nat
         /\ Current.known \in SUBSET (Nat \X BOOLEAN)
         /\ Current.known = {} <=> Current.cond = 0
         /\ PendingAt \in SUBSET (1..Depth) /\ (Depth \in PendingAt <=> Current.cond # 0)
         /\ Above(PendingAt, Depth) = 0
<1>1. running \in Seq(FrameType)
  BY DEF IInv, TypeOK, FrameType
<1>2. Depth \in Nat \ {0} /\ running[Depth] \in FrameType
  BY <1>1 DEF Depth
<1>3. Current = running[Depth]
  BY DEF Current, Last, Depth
<1>4. PendingAt \in SUBSET (1..Depth)
  BY DEF PendingAt
<1>5. Above(PendingAt, Depth) = 0
  BY <1>2, <1>4, AboveLast
<1>6. /\ Current.cond \in Conditions(Current.decision)
      /\ Current.known = {} <=> Current.cond = 0
  <2>1. Depth \in 1..Depth /\ FramesLinked
    BY <1>2 DEF IInv
  <2> QED
    BY <1>3, <2>1 DEF FramesLinked
<1>7. Depth \in PendingAt <=> Current.known # {}
  BY <1>2, <1>3 DEF PendingAt
<1> QED
  BY <1>2, <1>3, <1>4, <1>5, <1>6, <1>7 DEF FrameType

\* What is left of a sequence without its last element
LEMMA FrontFacts ==
  ASSUME NEW S, NEW s \in Seq(S), s # <<>>
  PROVE  /\ Len(s) \in Nat \ {0} /\ Last(s) = s[Len(s)] /\ Last(s) \in S
         /\ Front(s) \in Seq(S) /\ Len(Front(s)) = Len(s) - 1
         /\ \A k \in 1..(Len(s) - 1) : Front(s)[k] = s[k]
<1>1. Len(s) \in Nat \ {0} /\ Last(s) = s[Len(s)] /\ Last(s) \in S
  BY DEF Last
<1>2. \A k \in 1..(Len(s) - 1) : s[k] \in S
  BY <1>1
<1>3. /\ Front(s) \in Seq(S) /\ Len(Front(s)) = Len(s) - 1
      /\ \A k \in 1..(Len(s) - 1) : Front(s)[k] = s[k]
  <2> DEFINE n == Len(s) - 1
  <2>1. n \in Nat /\ 1 \in Int
    BY <1>1
  <2>2. Front(s) = SubSeq(s, 1, n)
    BY DEF Front
  <2> HIDE DEF n
  <2>3. /\ SubSeq(s, 1, n) \in Seq(S)
        /\ Len(SubSeq(s, 1, n)) = IF 1 <= n THEN n - 1 + 1 ELSE 0
        /\ \A k \in 1..(n - 1 + 1) : SubSeq(s, 1, n)[k] = s[1 + k - 1]
    BY <1>2, <2>1, SubSeqProperties DEF n
  <2>4. \A k \in 1..n : Front(s)[k] = s[k]
    BY <2>1, <2>2, <2>3
  <2>5. Front(s) \in Seq(S) /\ Len(Front(s)) = n
    BY <2>1, <2>2, <2>3
  <2> QED
    BY <2>4, <2>5 DEF n
<1> QED
  BY <1>1, <1>3

\* The successors of a condition
LEMMA SuccessorFacts ==
  ASSUME NEW d \in Decisions, NEW i \in Conditions(d), NEW v \in BOOLEAN
  PROVE  /\ i \in Nat /\ Successor[d][i][v].outcome \in BOOLEAN
         /\ Successor[d][i][v].next # NoCondition =>
              /\ Successor[d][i][v].next \in Conditions(d)
              /\ Successor[d][i][v].next \in Nat
              /\ Successor[d][i][v].next > i
BY SuccessorAssumption DEF SuccessorAssumption

\* The evaluation that gets the value of the condition in progress is that of
\* the program: the one on top, or a new one for a first condition
LEMMA EvaluatedOnTop ==
  ASSUME IInv, running # <<>>, NEW v \in BOOLEAN
  PROVE  LET d == Current.decision
             i == Current.cond
             E == ConditionEvaluated(d, i, v)
             n == Len(stack) + IF i = 0 THEN 1 ELSE 0
         IN  /\ E \in Seq(EvaluationType) /\ Len(E) = n /\ n \in Nat \ {0}
             /\ \A m \in 1..(n - 1) : m \in 1..Len(stack) /\ E[m] = stack[m]
             /\ E[n].decision = d /\ E[n].next = Successor[d][i][v].next
             /\ Len(E[n].values) = i + 1
             /\ Known(E[n].values) = Current.known \cup {<<i, v>>}
<1> DEFINE d == Current.decision
           i == Current.cond
           E == ConditionEvaluated(d, i, v)
           x == IF v THEN "True" ELSE "False"
           w(e) == Append(Pad(e.values, i), x)
           s == Successor[d][i][v].next
           n == Len(stack) + IF i = 0 THEN 1 ELSE 0
<1>1. /\ d \in Decisions /\ i \in Conditions(d) /\ i \in Nat
      /\ Current.known = {} <=> i = 0
      /\ Depth \in Nat \ {0} /\ Current = running[Depth]
      /\ Depth \in PendingAt <=> i # 0
      /\ Above(PendingAt, Depth) = 0
  BY CurrentFacts
<1>2. s \in Nat \cup {NoCondition}
  BY <1>1, SuccessorFacts
<1>3. stack \in Seq(EvaluationType) /\ Len(stack) \in Nat
  BY DEF IInv, TypeOK, EvaluationType
<1>4. ASSUME NEW e \in EvaluationType, e.decision = d, Len(e.values) <= i
      PROVE  LET f == WithCondition(e, i, v)
             IN  /\ f \in EvaluationType /\ f.decision = d /\ f.next = s
                 /\ Len(f.values) = i + 1
                 /\ Known(f.values) = Known(e.values) \cup {<<i, v>>}
  <2>1. /\ w(e) \in Seq(Marks) /\ Len(w(e)) = i + 1
        /\ Known(w(e)) = Known(e.values) \cup {<<i, v>>}
    BY <1>1, <1>4, KnownWithValue DEF EvaluationType
  <2>2. WithCondition(e, i, v) = [e EXCEPT !.values = w(e), !.next = s]
    BY <1>4 DEF WithCondition
  <2> HIDE DEF w, s
  <2> QED
    BY <1>2, <1>4, <2>1, <2>2 DEF EvaluationType
<1> SUFFICES /\ E \in Seq(EvaluationType) /\ Len(E) = n /\ n \in Nat \ {0}
             /\ \A m \in 1..(n - 1) : m \in 1..Len(stack) /\ E[m] = stack[m]
             /\ E[n].decision = d /\ E[n].next = s
             /\ Len(E[n].values) = i + 1
             /\ Known(E[n].values) = Current.known \cup {<<i, v>>}
  OBVIOUS
<1>5. CASE i = 0
  <2>1. ~InCurrentEvaluation(d, i)
    <3>1. ASSUME stack # <<>> PROVE Last(stack).next # 0
      <4>1. Len(stack) \in 1..Len(stack) /\ Last(stack) = stack[Len(stack)]
        BY <1>3, <3>1 DEF Last
      <4> QED
        BY <4>1 DEF IInv, StackAhead, NoCondition
    <3> QED
      BY <1>5, <3>1 DEF InCurrentEvaluation
  <2> DEFINE e == NewEvaluation(d)
             f == WithCondition(e, i, v)
  <2>2. e \in EvaluationType /\ e.decision = d /\ e.values = <<>>
    BY <1>1 DEF NewEvaluation, EvaluationType
  <2>3. Len(e.values) = 0 /\ Known(e.values) = {}
    BY <2>2 DEF Known
  <2>4. /\ f \in EvaluationType /\ f.decision = d /\ f.next = s
        /\ Len(f.values) = i + 1
        /\ Known(f.values) = Current.known \cup {<<i, v>>}
    BY <1>1, <1>4, <1>5, <2>2, <2>3
  <2>5. E = Append(stack, f) /\ n = Len(stack) + 1
    BY <1>5, <2>1 DEF ConditionEvaluated
  <2> HIDE DEF E, f, e, n, d, i, s
  <2> QED
    BY <1>3, <2>4, <2>5
<1>6. CASE i # 0
  <2> DEFINE m == Len(stack)
             e == stack[m]
             f == WithCondition(e, i, v)
  <2>1. /\ m > 0 /\ e.decision = d /\ e.next = i /\ Known(e.values) = Current.known
    <3>1. Depth \in PendingAt
      BY <1>1, <1>6
    <3>2. /\ 0 < m /\ m - 0 = m
          /\ stack[m - 0].decision = running[Depth].decision
          /\ stack[m - 0].next = running[Depth].cond
          /\ Known(stack[m - 0].values) = running[Depth].known
      BY <1>1, <1>3, <3>1 DEF IInv, PendingOnTop
    <3> QED
      BY <1>1, <3>2
  <2>2. m \in 1..m /\ stack # <<>> /\ Last(stack) = e /\ e \in EvaluationType
    BY <1>3, <2>1 DEF Last
  <2>3. InCurrentEvaluation(d, i)
    BY <2>1, <2>2 DEF InCurrentEvaluation
  <2>4. Len(e.values) <= i
    BY <1>1, <2>1, <2>2 DEF IInv, StackAhead, NoCondition
  <2>5. /\ f \in EvaluationType /\ f.decision = d /\ f.next = s
        /\ Len(f.values) = i + 1
        /\ Known(f.values) = Current.known \cup {<<i, v>>}
    BY <1>4, <2>1, <2>2, <2>4
  <2>6. E = Append(Front(stack), f) /\ n = m
    BY <1>3, <1>6, <2>2, <2>3 DEF ConditionEvaluated
  <2>7. /\ Front(stack) \in Seq(EvaluationType) /\ Len(Front(stack)) = m - 1
        /\ \A k \in 1..(m - 1) : Front(stack)[k] = stack[k]
    BY <1>3, <2>1, FrontFacts
  <2> HIDE DEF E, f, e, n, d, i, s
  <2> QED
    BY <1>3, <2>1, <2>5, <2>6, <2>7
<1> QED
  BY <1>5, <1>6

----------------------------------------------------------------------------
(* The steps                                                               *)

\* The type of what a step of the program leaves
LEMMA StackType ==
  ASSUME IInv
  PROVE  /\ running \in Seq(FrameType) /\ Depth \in Nat
         /\ stack \in Seq(EvaluationType) /\ Len(stack) \in Nat
         /\ \A k \in 1..Depth : running[k] \in FrameType
<1>1. running \in Seq(FrameType) /\ stack \in Seq(EvaluationType)
  BY DEF IInv, TypeOK, FrameType, EvaluationType
<1> QED
  BY <1>1 DEF Depth

LEMMA StartEvaluationStep ==
  ASSUME IInv, NEW d \in Decisions, StartEvaluation(d)
  PROVE  IInv'
<1>1. Depth \in Nat /\ running \in Seq(FrameType) /\ Frame(d) \in FrameType
  BY StackType DEF Frame, FrameType
<1>2. /\ running' \in Seq(FrameType) /\ Depth' = Depth + 1
      /\ \A k \in 1..Depth : running'[k] = running[k]
      /\ running'[Depth + 1] = Frame(d)
  BY <1>1 DEF StartEvaluation, Depth
<1>3. TypeOK'
  BY <1>2 DEF IInv, TypeOK, FrameType, StartEvaluation
<1>4. FramesLinked'
  <2> SUFFICES ASSUME NEW k \in 1..(Depth + 1)
               PROVE  /\ running'[k].cond \in Conditions(running'[k].decision)
                      /\ running'[k].known = {} <=> running'[k].cond = 0
                      /\ k > 1 => <<running'[k - 1].decision, running'[k - 1].cond,
                                    running'[k].decision>> \in CallGraph
    BY <1>2 DEF FramesLinked
  <2>1. CASE k \in 1..Depth
    <3>1. k > 1 => k - 1 \in 1..Depth
      BY <1>1, <2>1
    <3> QED
      BY <1>2, <2>1, <3>1 DEF IInv, FramesLinked
  <2>2. CASE k = Depth + 1
    <3>1. 0 \in Conditions(d) /\ running'[k] = Frame(d)
      BY <1>2, <2>2, SuccessorAssumption DEF SuccessorAssumption
    <3>2. ASSUME k > 1
          PROVE  <<running'[k - 1].decision, running'[k - 1].cond, d>> \in CallGraph
      <4>1. k - 1 = Depth /\ Depth \in 1..Depth
        BY <1>1, <2>2, <3>2
      <4>2. running # <<>>
        BY <1>1, <4>1 DEF Depth
      <4>3. Current = running[Depth]
        BY DEF Current, Last, Depth
      <4> QED
        BY <1>2, <4>1, <4>2, <4>3 DEF StartEvaluation
    <3> QED
      BY <3>1, <3>2 DEF Frame
  <2> QED
    BY <1>1, <2>1, <2>2
<1>5. PendingAt' = PendingAt
  <2>1. running'[Depth + 1].known = {}
    BY <1>2 DEF Frame
  <2> QED
    BY <1>1, <1>2, <2>1 DEF PendingAt
<1>6. PendingOnTop'
  <2>1. PendingAt \in SUBSET (1..Depth)
    BY DEF PendingAt
  <2> QED
    BY <1>2, <1>5, <2>1 DEF IInv, PendingOnTop, StartEvaluation
<1> QED
  BY <1>3, <1>4, <1>6 DEF IInv, StackAhead, RecordedExact, StartEvaluation

LEMMA ConditionTestedStep ==
  ASSUME IInv, NEW v \in BOOLEAN, ConditionTested(v)
  PROVE  IInv'
<1> DEFINE d == Current.decision
           i == Current.cond
           s == Successor[d][i][v].next
           E == ConditionEvaluated(d, i, v)
           n == Len(stack) + IF i = 0 THEN 1 ELSE 0
           known == Current.known \cup {<<i, v>>}
           new == [running[Depth] EXCEPT !.cond = s, !.known = known]
<1>1. /\ running # <<>> /\ s # NoCondition /\ stack' = E
      /\ running' = [running EXCEPT ![Depth].cond = s,
                                    ![Depth].known = @ \cup {<<i, v>>}]
      /\ UNCHANGED <<completed, recorded>>
  BY DEF ConditionTested
<1>2. /\ Depth \in Nat \ {0} /\ Current = running[Depth] /\ d \in Decisions
      /\ i \in Conditions(d) /\ i \in Nat
      /\ Current.known \in SUBSET (Nat \X BOOLEAN)
      /\ Current.known = {} <=> i = 0
      /\ PendingAt \in SUBSET (1..Depth) /\ (Depth \in PendingAt <=> i # 0)
      /\ Above(PendingAt, Depth) = 0
  BY <1>1, CurrentFacts
<1>3. s \in Conditions(d) /\ s \in Nat /\ s > i
  BY <1>1, <1>2, SuccessorFacts
<1>4. /\ E \in Seq(EvaluationType) /\ Len(E) = n /\ n \in Nat \ {0}
      /\ \A m \in 1..(n - 1) : m \in 1..Len(stack) /\ E[m] = stack[m]
      /\ E[n].decision = d /\ E[n].next = s /\ Len(E[n].values) = i + 1
      /\ Known(E[n].values) = Current.known \cup {<<i, v>>}
  BY <1>1, EvaluatedOnTop
<1>5. running \in Seq(FrameType) /\ Len(stack) \in Nat
      /\ \A k \in 1..Depth : running[k] \in FrameType
  BY StackType
<1> HIDE DEF d, i, s, E, n
<1>6. /\ new \in FrameType /\ known # {}
      /\ new.decision = d /\ new.cond = s /\ new.known = known
  <2>1. known \in SUBSET (Nat \X BOOLEAN) /\ <<i, v>> \in known
    BY <1>2
  <2>2. running[Depth] \in FrameType /\ running[Depth].decision = d
    BY <1>2, <1>5 DEF d
  <2> HIDE DEF known
  <2> QED
    BY <1>3, <2>1, <2>2 DEF FrameType
<1>7. /\ running' = [running EXCEPT ![Depth] = new]
      /\ running' \in Seq(FrameType) /\ Depth' = Depth
      /\ running'[Depth] = new
      /\ \A k \in 1..(Depth - 1) : running'[k] = running[k]
  <2>1. Depth \in 1..Depth /\ running[Depth] \in FrameType
    BY <1>2, <1>5
  <2>2. running[Depth].known \cup {<<i, v>>} = known
    BY <1>2
  <2>3. running' = [running EXCEPT ![Depth] =
                      [running[Depth] EXCEPT !.cond = s, !.known = @ \cup {<<i, v>>}]]
    BY <1>1
  <2>4. running' = [running EXCEPT ![Depth] = new]
    BY <2>2, <2>3
  <2> HIDE DEF new
  <2> QED
    BY <1>2, <1>5, <1>6, <2>1, <2>4 DEF Depth
<1> HIDE DEF new
<1>8. TypeOK'
  BY <1>1, <1>4, <1>7 DEF IInv, TypeOK, FrameType, EvaluationType
<1>9. FramesLinked'
  <2> SUFFICES ASSUME NEW k \in 1..Depth
               PROVE  /\ running'[k].cond \in Conditions(running'[k].decision)
                      /\ running'[k].known = {} <=> running'[k].cond = 0
                      /\ k > 1 => <<running'[k - 1].decision, running'[k - 1].cond,
                                    running'[k].decision>> \in CallGraph
    BY <1>7 DEF FramesLinked
  <2>1. running'[k].decision = running[k].decision
    BY <1>2, <1>6, <1>7 DEF d
  <2>2. k > 1 => k - 1 \in 1..(Depth - 1)
    BY <1>2
  <2>3. CASE k = Depth
    <3>1. new.known # {} /\ new.cond = s /\ s # 0 /\ new.decision = d
      BY <1>2, <1>3, <1>6
    <3> QED
      BY <1>2, <1>3, <1>7, <2>1, <2>2, <2>3, <3>1 DEF IInv, FramesLinked
  <2>4. CASE k # Depth
    BY <1>2, <1>7, <2>1, <2>2, <2>4 DEF IInv, FramesLinked
  <2> QED
    BY <2>3, <2>4
<1>10. StackAhead'
  <2> SUFFICES ASSUME NEW m \in 1..n, E[m].next # NoCondition
               PROVE  E[m].next > 0 /\ Len(E[m].values) <= E[m].next
    BY <1>1, <1>4 DEF StackAhead
  <2>1. CASE m = n
    BY <1>2, <1>3, <1>4, <2>1
  <2>2. CASE m \in 1..(n - 1)
    BY <1>4, <2>2 DEF IInv, StackAhead
  <2> QED
    BY <1>4, <2>1, <2>2
<1>11. PendingAt' = PendingAt \cup {Depth}
  <2>1. running'[Depth].known # {}
    BY <1>6, <1>7
  <2>2. \A k \in 1..Depth : k # Depth => k \in 1..(Depth - 1)
    BY <1>2
  <2> QED
    BY <1>2, <1>7, <2>1, <2>2 DEF PendingAt
<1>12. PendingOnTop'
  <2> SUFFICES ASSUME NEW k \in PendingAt'
               PROVE  LET e == E[n - Above(PendingAt', k)]
                      IN  /\ Above(PendingAt', k) < n
                          /\ e.decision = running'[k].decision
                          /\ e.next = running'[k].cond
                          /\ Known(e.values) = running'[k].known
    BY <1>1, <1>4 DEF PendingOnTop
  <2>1. CASE k = Depth
    <3>1. PendingAt' \in SUBSET (1..Depth)
      BY <1>2, <1>11
    <3>2. Above(PendingAt', k) = 0
      BY <1>2, <2>1, <3>1, AboveLast
    <3>3. n - 0 = n /\ 0 < n
      BY <1>4
    <3> QED
      BY <1>4, <1>6, <1>7, <2>1, <3>2, <3>3
  <2>2. CASE k # Depth
    <3> DEFINE a == Above(PendingAt, k)
    <3>0. Depth \in Nat /\ k \in PendingAt /\ PendingAt \in SUBSET (1..Depth)
      BY <1>2, <1>11, <2>2 DEF PendingAt
    <3>1a. k \in 1..(Depth - 1) /\ k \in Nat
      BY <2>2, <3>0
    <3>1b. a \in Nat
      <4>1. Above(PendingAt, k) \in Nat
        BY <3>0, <3>1a, AboveType
      <4> QED
        BY <4>1
    <3>1. k \in PendingAt /\ k \in 1..(Depth - 1) /\ k \in Nat /\ a \in Nat
      BY <3>0, <3>1a, <3>1b
    <3>2. /\ a < Len(stack)
          /\ stack[Len(stack) - a].decision = running[k].decision
          /\ stack[Len(stack) - a].next = running[k].cond
          /\ Known(stack[Len(stack) - a].values) = running[k].known
      BY <3>1 DEF IInv, PendingOnTop
    <3>3. /\ Above(PendingAt', k) < n
          /\ n - Above(PendingAt', k) = Len(stack) - a
          /\ n - Above(PendingAt', k) \in 1..(n - 1)
      <4>1. CASE i = 0
        <5>1. Above(PendingAt', k) = a + 1
          BY <1>2, <1>11, <3>1, <4>1, AboveGrows
        <5> HIDE DEF a
        <5> QED
          BY <1>5, <3>1, <3>2, <4>1, <5>1 DEF n
      <4>2. CASE i # 0
        <5>1. PendingAt' = PendingAt /\ n = Len(stack)
          BY <1>2, <1>5, <1>11, <4>2 DEF n
        <5>2. a # 0
          <6>1. IsFiniteSet({j \in PendingAt : j > k})
            <7>1. {j \in PendingAt : j > k} \subseteq 1..Depth
              BY <1>2
            <7>2. IsFiniteSet(1..Depth)
              BY <1>2, FS_Interval
            <7> QED
              BY <7>1, <7>2, FS_Subset
          <6>2. Depth \in {j \in PendingAt : j > k}
            BY <1>2, <3>1, <4>2
          <6> QED
            BY <6>1, <6>2, FS_EmptySet DEF Above
        <5> HIDE DEF a
        <5> QED
          BY <1>5, <3>1, <3>2, <5>1, <5>2 DEF a
      <4> QED
        BY <4>1, <4>2
    <3> HIDE DEF a
    <3> QED
      BY <1>4, <1>7, <3>1, <3>2, <3>3
  <2> QED
    BY <2>1, <2>2
<1>13. RecordedExact'
  BY <1>1 DEF IInv, RecordedExact
<1> QED
  BY <1>8, <1>9, <1>10, <1>12, <1>13 DEF IInv

\* What is left of the program once its innermost evaluation is over
LEMMA AbandonOne ==
  ASSUME IInv, running # <<>>, running' = Abandon(1)
  PROVE  /\ running' \in Seq(FrameType) /\ Depth' = Depth - 1
         /\ \A k \in 1..(Depth - 1) : running'[k] = running[k]
         /\ PendingAt' = PendingAt \ {Depth} /\ FramesLinked'
<1>1. running \in Seq(FrameType) /\ Depth \in Nat \ {0}
  BY StackType, CurrentFacts
<1>2. running' = Front(running)
  BY DEF Abandon, Front, Depth
<1>3. /\ running' \in Seq(FrameType) /\ Depth' = Depth - 1
      /\ \A k \in 1..(Depth - 1) : running'[k] = running[k]
  BY <1>1, <1>2, FrontFacts DEF Depth
<1>4. PendingAt' = PendingAt \ {Depth}
  <2>1. 1..(Depth - 1) = (1..Depth) \ {Depth}
    BY <1>1
  <2> QED
    BY <1>3, <2>1 DEF PendingAt
<1>5. FramesLinked'
  <2> SUFFICES ASSUME NEW k \in 1..(Depth - 1)
               PROVE  /\ running'[k].cond \in Conditions(running'[k].decision)
                      /\ running'[k].known = {} <=> running'[k].cond = 0
                      /\ k > 1 => <<running'[k - 1].decision, running'[k - 1].cond,
                                    running'[k].decision>> \in CallGraph
    BY <1>3 DEF FramesLinked
  <2>1. k \in 1..Depth /\ (k > 1 => k - 1 \in 1..(Depth - 1))
    BY <1>1
  <2> QED
    BY <1>3, <2>1 DEF IInv, FramesLinked
<1> QED
  BY <1>3, <1>4, <1>5

\* Nothing is left of it once they are all abandoned
LEMMA AbandonAll ==
  ASSUME IInv, running' = Abandon(Depth)
  PROVE  running' = <<>> /\ Depth' = 0 /\ PendingAt' = {}
<1>1. Depth \in Nat
  BY StackType
<1>2. running' = <<>>
  <2>1. Depth - Depth = 0
    BY <1>1
  <2>2. running' = SubSeq(running, 1, 0)
    BY <2>1 DEF Abandon
  <2> QED
    BY <2>2, SubSeqEmpty
<1>3. Depth' = 0
  BY <1>2 DEF Depth
<1> QED
  BY <1>2, <1>3 DEF PendingAt

\* Without evaluations in progress, any stack that waits for no first condition
LEMMA AllAbandoned ==
  ASSUME IInv, running' = Abandon(Depth), stack' \in Seq(EvaluationType), StackAhead',
         UNCHANGED <<completed, recorded>>
  PROVE  IInv'
<1>1. running' = <<>> /\ Depth' = 0 /\ PendingAt' = {}
  BY AbandonAll
<1>2. TypeOK'
  BY <1>1 DEF IInv, TypeOK, EvaluationType
<1>3. FramesLinked' /\ PendingOnTop'
  BY <1>1 DEF FramesLinked, PendingOnTop
<1> QED
  BY <1>2, <1>3 DEF IInv, RecordedExact

\* The evaluation of the innermost one goes with it, if it has one
LEMMA PoppedTogether ==
  ASSUME IInv, running # <<>>, running' = Abandon(1), stack' \in Seq(EvaluationType),
         Len(stack') = Len(stack) - (IF Current.cond = 0 THEN 0 ELSE 1),
         \A m \in 1..Len(stack') : m \in 1..Len(stack) /\ stack'[m] = stack[m]
  PROVE  StackAhead' /\ PendingOnTop'
<1>1. StackAhead'
  BY DEF IInv, StackAhead
<1> DEFINE i == Current.cond
<1>2. /\ Depth \in Nat \ {0} /\ PendingAt \in SUBSET (1..Depth)
      /\ (Depth \in PendingAt <=> i # 0) /\ i \in Nat
  BY CurrentFacts
<1>3. /\ PendingAt' = PendingAt \ {Depth}
      /\ \A k \in 1..(Depth - 1) : running'[k] = running[k]
  BY AbandonOne
<1>4. Len(stack) \in Nat
  BY StackType
<1> HIDE DEF i
<1>5. PendingOnTop'
  <2> SUFFICES ASSUME NEW k \in PendingAt'
               PROVE  LET e == stack'[Len(stack') - Above(PendingAt', k)]
                      IN  /\ Above(PendingAt', k) < Len(stack')
                          /\ e.decision = running'[k].decision
                          /\ e.next = running'[k].cond
                          /\ Known(e.values) = running'[k].known
    BY DEF PendingOnTop
  <2> DEFINE a == Above(PendingAt, k)
             b == Above(PendingAt', k)
             l == Len(stack')
  <2>1. /\ k \in PendingAt /\ k \in Nat /\ k \in 1..(Depth - 1)
        /\ PendingAt' \in SUBSET (1..Depth)
    BY <1>2, <1>3
  <2>2. a \in Nat /\ b \in Nat
    BY <1>2, <2>1, AboveType
  <2>3. /\ a < Len(stack)
        /\ stack[Len(stack) - a].decision = running[k].decision
        /\ stack[Len(stack) - a].next = running[k].cond
        /\ Known(stack[Len(stack) - a].values) = running[k].known
    BY <2>1 DEF IInv, PendingOnTop
  <2>4. b < l /\ l - b = Len(stack) - a /\ l - b \in 1..l
    <3>1. CASE i = 0
      <4>1. b = a /\ l = Len(stack)
        <5>1. PendingAt' = PendingAt
          BY <1>2, <1>3, <3>1
        <5> QED
          BY <1>4, <3>1, <5>1 DEF i
      <4> HIDE DEF a, b, l
      <4> QED
        BY <1>4, <2>2, <2>3, <4>1
    <3>2. CASE i # 0
      <4>1. a = b + 1 /\ l = Len(stack) - 1
        <5>1. PendingAt = PendingAt' \cup {Depth} /\ Depth \notin PendingAt'
          BY <1>2, <1>3, <3>2
        <5>2. a = b + 1
          <6> DEFINE P == PendingAt'
          <6>1. Depth \in Nat /\ P \in SUBSET (1..Depth) /\ Depth \notin P /\ k \in P
            BY <1>2, <2>1, <5>1
          <6> HIDE DEF P
          <6>2. Above(P \cup {Depth}, k) = Above(P, k) + 1
            BY <6>1, AboveGrows
          <6> QED
            BY <5>1, <6>2 DEF P
        <5> QED
          BY <3>2, <5>2 DEF i
      <4> HIDE DEF a, b, l
      <4> QED
        BY <1>4, <2>2, <2>3, <4>1
    <3> QED
      BY <3>1, <3>2
  <2> HIDE DEF a, b
  <2>5. stack'[l - b] = stack[Len(stack) - a] /\ running'[k] = running[k]
    BY <1>3, <2>1, <2>4
  <2> QED
    BY <2>3, <2>4, <2>5 DEF b
<1> QED
  BY <1>1, <1>5

LEMMA OutcomeReachedStep ==
  ASSUME IInv, Followed, NEW v \in BOOLEAN, OutcomeReached(v)
  PROVE  IInv'
<1> DEFINE d == Current.decision
           i == Current.cond
           s == Successor[d][i][v]
           E == ConditionEvaluated(d, i, v)
           n == Len(stack) + IF i = 0 THEN 1 ELSE 0
<1>1. /\ running # <<>> /\ s.next = NoCondition /\ running' = Abandon(1)
      /\ \/ /\ stack' = Front(E)
            /\ recorded' = recorded \cup
                 {[decision |-> Last(E).decision, values |-> Last(E).values,
                   outcome |-> s.outcome]}
            /\ completed' = completed \cup
                 {[decision |-> d, known |-> Current.known \cup {<<i, v>>},
                   outcome |-> s.outcome]}
         \/ /\ <<d, i, v>> \in UnknownOutcomes
            /\ stack' = E
            /\ UNCHANGED <<recorded, completed>>
  BY DEF OutcomeReached
<1>2. /\ Depth \in Nat \ {0} /\ Current = running[Depth] /\ d \in Decisions
      /\ i \in Conditions(d) /\ i \in Nat
      /\ Current.known \in SUBSET (Nat \X BOOLEAN)
  BY <1>1, CurrentFacts
<1>3. s.outcome \in BOOLEAN
  BY <1>2, SuccessorFacts
<1>4. /\ E \in Seq(EvaluationType) /\ Len(E) = n /\ n \in Nat \ {0}
      /\ \A m \in 1..(n - 1) : m \in 1..Len(stack) /\ E[m] = stack[m]
      /\ E[n].decision = d /\ E[n].next = s.next
      /\ Known(E[n].values) = Current.known \cup {<<i, v>>}
  BY <1>1, EvaluatedOnTop
<1>5. stack \in Seq(EvaluationType) /\ Len(stack) \in Nat
  BY StackType
<1>6. E # <<>> /\ E[n] \in EvaluationType
  BY <1>4
<1> HIDE DEF E
<1>7. CASE /\ stack' = Front(E)
           /\ recorded' = recorded \cup
                {[decision |-> Last(E).decision, values |-> Last(E).values,
                  outcome |-> s.outcome]}
           /\ completed' = completed \cup
                {[decision |-> d, known |-> Current.known \cup {<<i, v>>},
                  outcome |-> s.outcome]}
  <2>1. /\ stack' \in Seq(EvaluationType) /\ Len(stack') = n - 1 /\ Last(E) = E[n]
        /\ \A m \in 1..(n - 1) : stack'[m] = stack[m]
    BY <1>4, <1>6, <1>7, FrontFacts
  <2>2. n - 1 = Len(stack) - (IF i = 0 THEN 0 ELSE 1)
    BY <1>5
  <2> DEFINE known == Current.known \cup {<<i, v>>}
             r == [decision |-> d, values |-> E[n].values, outcome |-> s.outcome]
             c == [decision |-> d, known |-> known, outcome |-> s.outcome]
  <2>3. recorded' = recorded \cup {r} /\ completed' = completed \cup {c}
    BY <1>4, <1>7, <2>1
  <2>4. known \in SUBSET (Nat \X BOOLEAN) /\ E[n].values \in Seq(Marks)
    BY <1>2, <1>6 DEF EvaluationType
  <2> HIDE DEF n, d, i, s
  <2>5. StackAhead' /\ PendingOnTop'
    BY <1>1, <1>4, <2>1, <2>2, PoppedTogether DEF i
  <2>6. FramesLinked' /\ running' \in Seq(FrameType)
    BY <1>1, AbandonOne
  <2>7. TypeOK'
    <3>1. r \in [decision : Decisions, values : Seq(Marks), outcome : BOOLEAN]
      BY <1>2, <1>3, <2>4
    <3>2. c \in [decision : Decisions, known : SUBSET (Nat \X BOOLEAN), outcome : BOOLEAN]
      <4> HIDE DEF known
      <4> QED
        BY <1>2, <1>3, <2>4
    <3> HIDE DEF r, c
    <3> QED
      BY <2>1, <2>3, <2>6, <3>1, <3>2 DEF IInv, TypeOK, FrameType, EvaluationType
  <2>8. RecordedExact'
    <3> DEFINE image(x) == [decision |-> x.decision, known |-> Known(x.values),
                            outcome |-> x.outcome]
    <3>1. image(r) = c
      BY <1>4
    <3>2. {image(x) : x \in recorded} = completed
      BY DEF IInv, RecordedExact
    <3> HIDE DEF image, r, c
    <3>3. {image(x) : x \in recorded'} = completed'
      BY <2>3, <3>1, <3>2
    <3> QED
      BY <3>3 DEF image, RecordedExact
  <2> QED
    BY <2>5, <2>6, <2>7, <2>8 DEF IInv
<1>8. CASE /\ <<d, i, v>> \in UnknownOutcomes
           /\ stack' = E
           /\ UNCHANGED <<recorded, completed>>
  <2>1. Depth = 1
    <3>1. ASSUME Depth # 1 PROVE FALSE
      <4> DEFINE c == running[Depth - 1]
      <4>1. Depth - 1 \in 1..Depth /\ Depth \in 1..Depth /\ Depth > 1
        BY <1>2, <3>1
      <4>2. <<c.decision, c.cond, d>> \in CallGraph
        BY <1>2, <4>1 DEF IInv, FramesLinked
      <4>3. <<d, i, v>>[1] # <<c.decision, c.cond, d>>[3]
        BY <1>8, <4>2 DEF Followed
      <4> QED
        BY <4>3
    <3> QED
      BY <3>1
  <2>2. StackAhead'
    <3> SUFFICES ASSUME NEW m \in 1..n, E[m].next # NoCondition
                 PROVE  E[m].next > 0 /\ Len(E[m].values) <= E[m].next
      BY <1>4, <1>8 DEF StackAhead
    <3>1. m # n
      BY <1>1, <1>4
    <3>2. m \in 1..(n - 1)
      BY <1>4, <3>1
    <3> QED
      BY <1>4, <3>2 DEF IInv, StackAhead
  <2> QED
    BY <1>1, <1>4, <1>8, <2>1, <2>2, AllAbandoned
<1> QED
  BY <1>1, <1>7, <1>8

LEMMA RaiseSteps ==
  ASSUME IInv, Followed, NEW n \in 1..MaxDepth, RaiseInCall(n) \/ RaiseFromCheck(n)
  PROVE  IInv'
<1>1. CASE RaiseInCall(n)
  <2>1. running' = Abandon(Depth) /\ UNCHANGED <<completed, stack, recorded>>
    BY <1>1 DEF RaiseInCall, Followed
  <2>2. StackAhead' /\ stack' \in Seq(EvaluationType)
    BY <2>1, StackType DEF IInv, StackAhead
  <2> QED
    BY <2>1, <2>2, AllAbandoned
<1>2. CASE RaiseFromCheck(n)
  <2>1. /\ n \in 1..Depth /\ n \in {1, Depth} /\ running' = Abandon(n)
        /\ <<Current.decision, Current.cond>> \in RaiseEdges
        /\ stack' = IF stack = <<>> THEN stack ELSE Front(stack)
        /\ UNCHANGED <<completed, recorded>>
    BY <1>2 DEF RaiseFromCheck, Followed
  <2>2. Depth \in Nat /\ stack \in Seq(EvaluationType) /\ Len(stack) \in Nat
    BY StackType
  <2>3. /\ stack' \in Seq(EvaluationType)
        /\ stack # <<>> => Len(stack') = Len(stack) - 1
        /\ stack = <<>> => stack' = stack
        /\ Len(stack') \in Nat /\ Len(stack') <= Len(stack)
        /\ \A m \in 1..Len(stack') : m \in 1..Len(stack) /\ stack'[m] = stack[m]
    <3>1. CASE stack = <<>>
      BY <2>1, <2>2, <3>1
    <3>2. CASE stack # <<>>
      <4>1. /\ stack' = Front(stack) /\ Front(stack) \in Seq(EvaluationType)
            /\ Len(Front(stack)) = Len(stack) - 1 /\ Len(stack) \in Nat \ {0}
            /\ \A m \in 1..(Len(stack) - 1) : Front(stack)[m] = stack[m]
        BY <2>1, <2>2, <3>2, FrontFacts
      <4> QED
        BY <3>2, <4>1
    <3> QED
      BY <3>1, <3>2
  <2>4. CASE n = Depth
    <3>1. StackAhead'
      BY <2>3 DEF IInv, StackAhead
    <3> QED
      BY <2>1, <2>3, <2>4, <3>1, AllAbandoned
  <2>5. CASE n = 1 /\ n # Depth
    <3>1. running # <<>>
      BY <2>1, <2>2 DEF Depth
    <3>2. Current.decision \in Decisions /\ Current.cond # 0 /\ Depth \in PendingAt
      BY <2>1, <3>1, CurrentFacts DEF Followed
    <3>3. stack # <<>>
      <4>1. Above(PendingAt, Depth) = 0
        BY <3>1, CurrentFacts
      <4>2. 0 < Len(stack)
        BY <3>2, <4>1 DEF IInv, PendingOnTop
      <4> QED
        BY <4>2
    <3>4. StackAhead' /\ PendingOnTop'
      BY <2>1, <2>3, <2>5, <3>1, <3>2, <3>3, PoppedTogether
    <3>5. running' \in Seq(FrameType) /\ FramesLinked'
      BY <2>1, <2>5, <3>1, AbandonOne
    <3>6. TypeOK'
      BY <2>1, <2>3, <3>5 DEF IInv, TypeOK, FrameType, EvaluationType
    <3> QED
      BY <2>1, <3>4, <3>5, <3>6 DEF IInv, RecordedExact
  <2> QED
    BY <2>1, <2>4, <2>5
<1> QED
  BY <1>1, <1>2

----------------------------------------------------------------------------
(* The theorems                                                            *)

LEMMA InitIInv == Init => IInv
<1> SUFFICES ASSUME Init PROVE IInv
  OBVIOUS
<1>1. running = <<>> /\ stack = <<>> /\ recorded = {} /\ completed = {}
  BY DEF Init
<1>2. Depth = 0 /\ PendingAt = {}
  BY <1>1 DEF Depth, PendingAt
<1>3. TypeOK
  BY <1>1 DEF TypeOK
<1>4. FramesLinked /\ StackAhead /\ PendingOnTop /\ RecordedExact
  BY <1>1, <1>2 DEF FramesLinked, StackAhead, PendingOnTop, RecordedExact
<1> QED
  BY <1>3, <1>4 DEF IInv

LEMMA NextIInv ==
  ASSUME Followed
  PROVE  IInv /\ [Next]_vars => IInv'
<1> SUFFICES ASSUME IInv, [Next]_vars PROVE IInv'
  OBVIOUS
<1>1. CASE \E d \in Decisions : StartEvaluation(d)
  BY <1>1, StartEvaluationStep
<1>2. CASE \E v \in BOOLEAN : ConditionTested(v) \/ OutcomeReached(v)
  BY <1>2, ConditionTestedStep, OutcomeReachedStep
<1>3. CASE \E n \in 1..MaxDepth : RaiseInCall(n) \/ RaiseFromCheck(n)
  BY <1>3, RaiseSteps
<1>4. CASE UNCHANGED vars
  BY <1>4 DEF vars, IInv, TypeOK, FramesLinked, StackAhead, PendingOnTop, RecordedExact,
              PendingAt, Depth
<1> QED
  BY <1>1, <1>2, <1>3, <1>4 DEF Next

\* Where the tool follows the program, every evaluation in progress that it knows
\* of is at its place on the stack, and no abandoned one is taken for it
THEOREM Invariance ==
  ASSUME Followed
  PROVE  Spec => []IInv
<1>1. Init => IInv
  BY InitIInv
<1>2. IInv /\ [Next]_vars => IInv'
  BY NextIInv
<1> QED
  BY <1>1, <1>2, PTL DEF Spec

\* Condition_Evaluated finds on top of Evaluation_Stack the evaluation that the
\* program is in, over any recursion and whatever exceptions left below
THEOREM TopIsCurrent ==
  ASSUME Followed
  PROVE  Spec => []PendingOnTop
<1>1. IInv => PendingOnTop
  BY DEF IInv
<1>2. Spec => []IInv
  BY Invariance
<1> QED
  BY <1>1, <1>2, PTL

\* The evaluations that the MC/DC analysis reads are those that the program
\* completed, no more and no less, with the conditions that it evaluated
THEOREM HistoryExact ==
  ASSUME Followed
  PROVE  Spec => []RecordedExact
<1>1. IInv => RecordedExact
  BY DEF IInv
<1>2. Spec => []IInv
  BY Invariance
<1> QED
  BY <1>1, <1>2, PTL
=============================================================================
