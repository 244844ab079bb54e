--------------------------- MODULE TestSuite_proofs ---------------------------
(***************************************************************************)
(* Proofs about the driver of the testsuite: the result of a test is about *)
(* the run that pushes it, and the qualification data of a test stay       *)
(* together, for any tests, opt files, command lines and alternate runs,   *)
(* any number of successive runs and any interruptions.                    *)
(***************************************************************************)
EXTENDS TestSuite, WellFoundedInduction, TLAPS

-----------------------------------------------------------------------------
(* The control of a test *)

\* A directive that applies has one of the kinds
LEMMA ControlKind ==
  ASSUME NEW t \in Tests
  PROVE  TestControl(t) \in Kinds
<1> DEFINE tags == Discriminants(args) \cup LangDiscriminants(t)
           A == {i \in DOMAIN OptFiles[t] : OptFiles[t][i].tags \subseteq tags}
           D == [tags : SUBSET STRING, kind : Kinds]
           R == OpToRel(<, Nat)
<1>1. OptFiles[t] \in Seq(D)
  BY TestsAssumption DEF TestsAssumption
<1>2. A \in SUBSET Nat /\ \A i \in A : OptFiles[t][i].kind \in Kinds
  <2> HIDE DEF D
  <2>1. /\ DOMAIN OptFiles[t] = 1..Len(OptFiles[t]) /\ Len(OptFiles[t]) \in Nat
        /\ \A i \in 1..Len(OptFiles[t]) : OptFiles[t][i] \in D
    BY <1>1
  <2>2. \A d \in D : d.kind \in Kinds
    BY DEF D
  <2> QED
    BY <2>1, <2>2
<1>3. CASE A = {}
  BY <1>3 DEF TestControl, Kinds
<1>4. CASE A # {}
  <2>1. \A x, y \in Nat : x < y => <<x, y>> \in R
    BY DEF OpToRel
  <2>2. IsWellFoundedOn(R, Nat)
    BY NatLessThanWellFounded
  <2> HIDE DEF A, R
  <2>3. PICK m \in A : \A n \in A : ~(<<n, m>> \in R)
    BY <1>2, <1>4, <2>2, WFMin
  <2>4. \A n \in A : ~(n < m)
    BY <1>2, <2>1, <2>3
  <2>5. \A n \in A : m <= n
    BY <1>2, <2>4
  <2>6. Min(A) \in A
    BY <2>5 DEF Min
  <2> QED
    BY <1>2, <1>4, <2>6 DEF TestControl, A
<1> QED
  BY <1>3, <1>4

\* The control of a test depends on the options only
LEMMA ControlStable ==
  ASSUME args' = args, NEW t \in Tests
  PROVE  TestControl(t)' = TestControl(t)
BY DEF TestControl

-----------------------------------------------------------------------------
(* The invariant of one test *)

TestInv(t) == StageOf(t) /\ VerdictOf(t) /\ DataOf(t) /\ DataTogether(t)

\* A test that the run has not come to
LEMMA NotReached ==
  ASSUME IInv, NEW t \in Tests, run' = run \/ run' = run + 1,
         ctxdata' = ctxdata \/ ctxdata' = run',
         stage'[t] = "unplanned" \/ (stage'[t] = "planned" /\ phase' = "running"),
         result'[t] = "none", disk' = disk
  PROVE  TestInv(t)'
<1>1. run \in Nat /\ ctxdata \in Nat /\ disk[t] \in DirType
  BY DEF IInv, TypeOK
<1>2. ctxdata <= run /\ disk[t].std.run <= run /\ DataTogether(t)
  BY DEF IInv, ContextDumped, DataOf
<1>3. disk[t].std.run \in Nat /\ disk[t].qda \in Nat
  BY <1>1 DEF DirType
<1>4. StageOf(t)' /\ VerdictOf(t)'
  BY DEF StageOf, VerdictOf
<1>5. DataOf(t)'
  <2>1. disk'[t].std.run <= run'
    BY <1>1, <1>2, <1>3
  <2> QED
    BY <2>1 DEF DataOf
<1>6. DataTogether(t)'
  BY <1>1, <1>2, <1>3 DEF DataTogether
<1> QED
  BY <1>4, <1>5, <1>6 DEF TestInv

\* A step that does not touch a test keeps what is known of it
LEMMA Untouched ==
  ASSUME IInv, NEW t \in Tests, run' = run, args' = args, ctxdata' = ctxdata,
         stage'[t] = stage[t],
         stage[t] # "unplanned" => phase' \in {"running", "over", "interrupted"},
         control'[t] = control[t], script'[t] = script[t], result'[t] = result[t],
         disk'[t] = disk[t]
  PROVE  TestInv(t)'
<1>1. TestControl(t)' = TestControl(t)
  BY ControlStable
<1>2. TestInv(t)
  BY DEF IInv, TestInv
<1>3. StageOf(t)'
  BY <1>1, <1>2 DEF TestInv, StageOf
<1>4. VerdictOf(t)'
  BY <1>1, <1>2 DEF TestInv, VerdictOf, LeftOver, Qualifying
<1>5. DataOf(t)' /\ DataTogether(t)'
  BY <1>2 DEF TestInv, DataOf, DataTogether
<1> QED
  BY <1>3, <1>4, <1>5 DEF TestInv
-----------------------------------------------------------------------------
(* The steps of the suite *)

\* Before the tests are planned, none has a stage or a result
LEMMA NoneReached ==
  ASSUME IInv, NEW t \in Tests, phase \in {"hooks", "context", "configure", "planning"}
  PROVE  stage[t] = "unplanned" /\ result[t] = "none"
BY DEF IInv, StageOf

LEMMA StartStep ==
  ASSUME IInv, NEW a \in Commands, Start(a)
  PROVE  IInv'
<1>1. TypeOK'
  <2>1. TypeOK
    BY DEF IInv
  <2>2. run' \in Nat /\ phase' \in {"over", "hooks"} /\ planned' = {}
    BY <2>1 DEF TypeOK, Start
  <2>3. stage' \in [Tests -> Stages]
    BY DEF Start, Stages
  <2>4. /\ control' \in [Tests -> {"none"}] /\ script' \in [Tests -> {"none"}]
        /\ result' \in [Tests -> {"none"}]
    BY DEF Start
  <2> QED
    BY <2>1, <2>2, <2>3, <2>4 DEF TypeOK, Start
<1>2. ContextDumped'
  BY DEF IInv, TypeOK, ContextDumped, Start
<1>3. ASSUME NEW t \in Tests PROVE TestInv(t)'
  <2>1. /\ run' = run + 1 /\ ctxdata' = ctxdata /\ disk' = disk
        /\ stage'[t] = "unplanned" /\ result'[t] = "none"
    BY DEF Start
  <2> QED
    BY <1>3, <2>1, NotReached
<1> QED
  BY <1>1, <1>2, <1>3 DEF IInv, TestInv

LEMMA SuiteSteps ==
  ASSUME IInv, SuiteStep \/ Interrupt
  PROVE  IInv'
<1> USE DEF Over, progress, testing
<1>1. CASE SetupAltrunHooks
  <2>1. TypeOK'
    BY <1>1 DEF IInv, TypeOK, SetupAltrunHooks
  <2>2. ContextDumped'
    BY <1>1 DEF IInv, ContextDumped, SetupAltrunHooks
  <2>3. ASSUME NEW t \in Tests PROVE TestInv(t)'
    <3>1. /\ run' = run /\ ctxdata' \in {ctxdata, run'} /\ disk' = disk
          /\ stage' = stage /\ result' = result
      BY <1>1 DEF SetupAltrunHooks
    <3>2. stage[t] = "unplanned" /\ result[t] = "none"
      BY <1>1, NoneReached DEF SetupAltrunHooks
    <3> QED
      BY <2>3, <3>1, <3>2, NotReached
  <2> QED
    BY <2>1, <2>2, <2>3 DEF IInv, TestInv
<1>2. CASE DumpCtxdata
  <2>1. TypeOK'
    BY <1>2 DEF IInv, TypeOK, DumpCtxdata
  <2>2. ContextDumped'
    BY <1>2 DEF IInv, TypeOK, ContextDumped, DumpCtxdata
  <2>3. ASSUME NEW t \in Tests PROVE TestInv(t)'
    <3>1. /\ run' = run /\ ctxdata' \in {ctxdata, run'} /\ disk' = disk
          /\ stage' = stage /\ result' = result
      BY <1>2 DEF DumpCtxdata
    <3>2. stage[t] = "unplanned" /\ result[t] = "none"
      BY <1>2, NoneReached DEF DumpCtxdata
    <3> QED
      BY <2>3, <3>1, <3>2, NotReached
  <2> QED
    BY <2>1, <2>2, <2>3 DEF IInv, TestInv
<1>3. CASE Configure
  <2>1. TypeOK'
    BY <1>3 DEF IInv, TypeOK, Configure
  <2>2. ContextDumped'
    BY <1>3 DEF IInv, ContextDumped, Configure
  <2>3. ASSUME NEW t \in Tests PROVE TestInv(t)'
    <3>1. /\ run' = run /\ ctxdata' \in {ctxdata, run'} /\ disk' = disk
          /\ stage' = stage /\ result' = result
      BY <1>3 DEF Configure
    <3>2. stage[t] = "unplanned" /\ result[t] = "none"
      BY <1>3, NoneReached DEF Configure
    <3> QED
      BY <2>3, <3>1, <3>2, NotReached
  <2> QED
    BY <2>1, <2>2, <2>3 DEF IInv, TestInv
<1>4. CASE PlanTests
  <2>1. PICK generated \in SUBSET Group, fails \in BOOLEAN : Plan(generated, fails)
    BY <1>4 DEF PlanTests
  <2>2. TypeOK'
    BY <2>1, TestsAssumption DEF IInv, TypeOK, Plan, Stages, TestsAssumption
  <2>3. ContextDumped'
    BY <2>1 DEF IInv, ContextDumped, Plan
  <2>4. ASSUME NEW t \in Tests PROVE TestInv(t)'
    BY <2>1, <2>4, NotReached, NoneReached DEF Plan
  <2> QED
    BY <2>2, <2>3, <2>4 DEF IInv, TestInv
<1>5. CASE Finish \/ Interrupt
  <2>1. TypeOK'
    BY <1>5 DEF IInv, TypeOK, Finish, Interrupt
  <2>2. ContextDumped'
    BY <1>5 DEF IInv, ContextDumped, Finish, Interrupt
  <2>3. ASSUME NEW t \in Tests PROVE TestInv(t)'
    BY <1>5, <2>3, Untouched DEF Finish, Interrupt
  <2> QED
    BY <2>1, <2>2, <2>3 DEF IInv, TestInv
<1> QED
  BY <1>1, <1>2, <1>3, <1>4, <1>5 DEF SuiteStep

-----------------------------------------------------------------------------
(* The steps of a test *)

\* A step of a test under way keeps the invariant as far as it keeps what is
\* known of that test: the others are untouched
LEMMA OneTest ==
  ASSUME IInv, NEW t \in Tests, NEW s, At(t, s), TypeOK', TestInv(t)',
         UNCHANGED <<run, args, phase, ctxdata>>,
         \A u \in Tests \ {t} :
            /\ stage'[u] = stage[u] /\ control'[u] = control[u]
            /\ script'[u] = script[u] /\ result'[u] = result[u]
            /\ disk'[u] = disk[u]
  PROVE  IInv'
<1>1. ContextDumped'
  BY DEF IInv, ContextDumped
<1>2. ASSUME NEW u \in Tests \ {t} PROVE TestInv(u)'
  BY <1>2, Untouched DEF At
<1> QED
  BY <1>1, <1>2 DEF IInv, TestInv

\* What is known of a test under way
LEMMA UnderWay ==
  ASSUME IInv, NEW t \in Tests, NEW s, At(t, s)
  PROVE  /\ phase = "running" /\ stage[t] = s /\ TestInv(t)
         /\ Qualifying(args) => ctxdata = run
         /\ run \in Nat /\ ctxdata \in Nat /\ ctxdata <= run
         /\ disk[t] \in DirType
         /\ s # "done" => result[t] = "none"
BY DEF IInv, TypeOK, ContextDumped, TestInv, StageOf, At

LEMMA InterpretControlStep ==
  ASSUME IInv, NEW t \in Tests, InterpretControl(t)
  PROVE  IInv'
<1> DEFINE c == TestControl(t)
<1>1. c \in Kinds /\ At(t, "planned") /\ TestControl(t)' = c
  BY ControlKind, ControlStable DEF InterpretControl, Push, Goto
<1> HIDE DEF c
<1>2. /\ UNCHANGED <<run, args, phase, present, planned, ctxdata, script, disk>>
      /\ control' = [control EXCEPT ![t] = c]
      /\ \/ /\ c \in {"DEAD", "ILLEGAL"}
            /\ stage' = [stage EXCEPT ![t] = "done"]
            /\ result' = [result EXCEPT ![t] = IF c = "DEAD" THEN "SKIP" ELSE "ERROR"]
         \/ /\ c \in {"run", "XFAIL"}
            /\ stage' = [stage EXCEPT ![t] = "controlled"]
            /\ result' = result
  BY <1>1 DEF c, InterpretControl, Push, Goto, Kinds
<1>3. TypeOK'
  BY <1>1, <1>2 DEF IInv, TypeOK, Stages, Results
<1>4. TestInv(t)'
  <2>1. TestInv(t) /\ phase = "running"
    BY <1>1, UnderWay
  <2>2. /\ stage'[t] \in {"done", "controlled"} /\ control'[t] = c
        /\ stage'[t] = "done" => c \in {"DEAD", "ILLEGAL"}
        /\ result'[t] = IF c = "DEAD" THEN "SKIP" ELSE IF c = "ILLEGAL" THEN "ERROR"
                        ELSE "none"
        /\ stage'[t] = "controlled" => c \in {"run", "XFAIL"}
    BY <1>1, <1>2, UnderWay DEF IInv, TypeOK
  <2>3. StageOf(t)'
    BY <1>1, <1>2, <2>1, <2>2 DEF StageOf
  <2>4. VerdictOf(t)'
    BY <1>1, <1>2, <2>1, <2>2 DEF VerdictOf, Passing
  <2>5. DataOf(t)' /\ DataTogether(t)'
    BY <1>2, <2>1, <2>2 DEF TestInv, DataOf, DataTogether
  <2> QED
    BY <2>3, <2>4, <2>5 DEF TestInv
<1> QED
  BY <1>1, <1>2, <1>3, <1>4, OneTest DEF IInv, TypeOK

LEMMA SetUpStep ==
  ASSUME IInv, NEW t \in Tests, SetUp(t)
  PROVE  IInv'
<1>1. /\ At(t, "controlled") /\ TestInv(t) /\ phase = "running" /\ disk[t] \in DirType
      /\ Qualifying(args) => ctxdata = run
      /\ run \in Nat /\ ctxdata \in Nat
  BY UnderWay DEF SetUp
<1>2. /\ UNCHANGED <<run, args, phase, present, planned, ctxdata, control, script, result>>
      /\ stage' = [stage EXCEPT ![t] = "set up"]
      /\ disk' = [disk EXCEPT ![t] =
            IF Qualifying(args) THEN [Cleared(@) EXCEPT !.ctx = ctxdata] ELSE Cleared(@)]
  BY DEF SetUp, Goto, testing
<1> DEFINE c == Cleared(disk[t])
           d == IF Qualifying(args) THEN [c EXCEPT !.ctx = ctxdata] ELSE c
<1>3. disk' = [disk EXCEPT ![t] = d]
  BY <1>2
<1>4. /\ disk'[t] \in DirType /\ disk'[t].qda = NoFile /\ disk'[t].std = disk[t].std
      /\ Qualifying(args) => disk'[t].ctx = ctxdata
  <2>1. disk'[t] = d
    BY <1>3 DEF IInv, TypeOK
  <2>2. c \in DirType /\ c.qda = NoFile /\ c.std = disk[t].std
    BY <1>1 DEF DirType, Cleared, NoOut, NoFile
  <2> HIDE DEF c
  <2>3. d \in DirType /\ d.qda = c.qda /\ d.std = c.std
    BY <1>1, <2>2 DEF DirType
  <2>4. Qualifying(args) => d.ctx = ctxdata
    BY <2>2 DEF DirType
  <2> QED
    BY <2>1, <2>2, <2>3, <2>4
<1>5. TypeOK'
  BY <1>2, <1>4 DEF IInv, TypeOK, Stages
<1>6. TestInv(t)'
  <2>1. stage'[t] = "set up" /\ stage[t] = "controlled" /\ TestControl(t)' = TestControl(t)
    BY <1>1, <1>2, ControlStable DEF IInv, TypeOK, At
  <2>2. StageOf(t)' /\ VerdictOf(t)'
    BY <1>1, <1>2, <2>1 DEF TestInv, StageOf, VerdictOf
  <2>3. DataOf(t)' /\ DataTogether(t)'
    BY <1>1, <1>2, <1>4, <2>1 DEF TestInv, DataOf, DataTogether
  <2> QED
    BY <2>2, <2>3 DEF TestInv
<1> QED
  BY <1>1, <1>2, <1>5, <1>6, OneTest DEF IInv, TypeOK

\* A hook that fails concludes the test
LEMMA AbortStep ==
  ASSUME IInv, NEW t \in Tests, NEW s \in {"set up", "script"}, At(t, s), Abort(t),
         {"pre_testcase", "post_testcase"} \cap args.hooks # {}
  PROVE  IInv'
<1>1. TestInv(t) /\ stage[t] = s /\ phase = "running"
  BY UnderWay
<1>2. /\ UNCHANGED <<run, args, phase, present, planned, ctxdata, control, script, disk>>
      /\ stage' = [stage EXCEPT ![t] = "done"]
      /\ result' = [result EXCEPT ![t] = "ERROR"]
  BY DEF Abort, Push, Goto
<1>3. TypeOK'
  BY <1>2 DEF IInv, TypeOK, Stages, Results
<1>4. TestInv(t)'
  <2>1. /\ stage'[t] = "done" /\ result'[t] = "ERROR" /\ TestControl(t)' = TestControl(t)
        /\ TestControl(t) # "DEAD"
    BY <1>1, <1>2, ControlStable DEF IInv, TypeOK, TestInv, StageOf
  <2>2. StageOf(t)' /\ VerdictOf(t)'
    BY <1>1, <1>2, <2>1 DEF StageOf, VerdictOf, Passing
  <2>3. DataOf(t)' /\ DataTogether(t)'
    BY <1>1, <1>2, <2>1 DEF TestInv, DataOf, DataTogether
  <2> QED
    BY <2>2, <2>3 DEF TestInv
<1> QED
  BY <1>2, <1>3, <1>4, OneTest DEF IInv, TypeOK

LEMMA SpawnStep ==
  ASSUME IInv, NEW t \in Tests, Spawn(t)
  PROVE  IInv'
<1>1. /\ At(t, "set up") /\ stage[t] = "set up" /\ TestInv(t) /\ phase = "running"
      /\ disk[t] \in DirType /\ run \in Nat /\ result[t] = "none"
  BY UnderWay DEF Spawn
<1>2. CASE "pre_testcase" \in args.hooks /\ Abort(t)
  BY <1>1, <1>2, AbortStep
<1>3. CASE /\ Goto(t, "script") /\ UNCHANGED <<control, result>>
           /\ script' = [script EXCEPT ![t] = "running"]
           /\ disk' = [disk EXCEPT ![t].out = [run |-> run, verdict |-> "open"],
                                   ![t].log = run, ![t].work = run, ![t].tmp = run]
  <2>1. disk'[t] = [disk[t] EXCEPT !.out = [run |-> run, verdict |-> "open"],
                                  !.log = run, !.work = run, !.tmp = run]
    BY <1>3 DEF IInv, TypeOK
  <2> DEFINE o == [run |-> run, verdict |-> "open"]
             e == [disk[t] EXCEPT !.out = o, !.log = run, !.work = run, !.tmp = run]
  <2>2. /\ disk'[t] \in DirType /\ disk'[t].qda = disk[t].qda
        /\ disk'[t].ctx = disk[t].ctx /\ disk'[t].std = disk[t].std
        /\ disk'[t].log = run /\ disk'[t].work = run /\ disk'[t].out.run = run
    <3>1. o \in [run : Nat, verdict : {"none", "open", "PASSED", "FAILED"}] /\ o.run = run
      BY <1>1
    <3>2. disk'[t] = e
      BY <2>1
    <3> HIDE DEF o
    <3>3. /\ e \in DirType /\ e.qda = disk[t].qda /\ e.ctx = disk[t].ctx
          /\ e.std = disk[t].std /\ e.log = run /\ e.work = run /\ e.out = o
      BY <1>1, <3>1 DEF DirType
    <3> QED
      BY <3>1, <3>2, <3>3
  <2>3. \A u \in Tests \ {t} : disk'[u] = disk[u]
    BY <1>3 DEF IInv, TypeOK
  <2>4. disk' \in [Tests -> DirType]
    BY <1>3, <2>2, <2>3 DEF IInv, TypeOK
  <2>5. TypeOK'
    BY <1>3, <2>4 DEF IInv, TypeOK, Goto, Stages
  <2>6. TestInv(t)'
    <3>1. stage'[t] = "script" /\ script'[t] = "running" /\ TestControl(t)' = TestControl(t)
      BY <1>3, ControlStable DEF IInv, TypeOK, Goto
    <3>2. StageOf(t)' /\ VerdictOf(t)'
      BY <1>1, <1>3, <2>2, <3>1 DEF TestInv, StageOf, VerdictOf, Goto
    <3>3. DataOf(t)' /\ DataTogether(t)'
      BY <1>1, <1>3, <2>2, <3>1 DEF TestInv, DataOf, DataTogether, Goto
    <3> QED
      BY <3>2, <3>3 DEF TestInv
  <2> QED
    BY <1>1, <1>3, <2>3, <2>5, <2>6, OneTest DEF IInv, TypeOK, Goto
<1>4. CASE /\ Goto(t, "script") /\ UNCHANGED <<control, result, disk>>
           /\ script' = [script EXCEPT ![t] = "error"]
  <2>1. TypeOK'
    BY <1>4 DEF IInv, TypeOK, Goto, Stages
  <2>2. TestInv(t)'
    <3>1. stage'[t] = "script" /\ script'[t] = "error" /\ TestControl(t)' = TestControl(t)
      BY <1>4, ControlStable DEF IInv, TypeOK, Goto
    <3>2. StageOf(t)' /\ VerdictOf(t)'
      BY <1>1, <1>4, <3>1 DEF TestInv, StageOf, VerdictOf, Goto
    <3>3. DataOf(t)' /\ DataTogether(t)'
      BY <1>1, <1>4, <3>1 DEF TestInv, DataOf, DataTogether, Goto
    <3> QED
      BY <3>2, <3>3 DEF TestInv
  <2> QED
    BY <1>1, <1>4, <2>1, <2>2, OneTest DEF IInv, TypeOK, Goto
<1> QED
  BY <1>2, <1>3, <1>4 DEF Spawn

LEMMA ScriptWritesStep ==
  ASSUME IInv, NEW t \in Tests, ScriptWrites(t)
  PROVE  IInv'
<1>1. /\ At(t, "script") /\ stage[t] = "script" /\ TestInv(t) /\ phase = "running"
      /\ disk[t] \in DirType /\ run \in Nat /\ result[t] = "none"
      /\ script[t] = "running"
      /\ Qualifying(args) => ctxdata = run
      /\ ctxdata <= run
  BY UnderWay DEF ScriptWrites
<1>2. /\ UNCHANGED <<run, args, phase, present, planned, ctxdata, control, script, result>>
      /\ stage' = [stage EXCEPT ![t] = "script"]
  BY DEF ScriptWrites, Goto, testing
<1>3. PICK d \in DirType :
         /\ disk' = [disk EXCEPT ![t] = d]
         /\ d.out.run = disk[t].out.run /\ d.log = disk[t].log /\ d.work = disk[t].work
         /\ d.ctx = disk[t].ctx /\ d.std = disk[t].std
         /\ d.qda = disk[t].qda \/ (Qualifying(args) /\ d.qda = run)
  <2>1. CASE DumpsData(t) /\ disk' = [disk EXCEPT ![t].qda = run]
    <3>1. [disk[t] EXCEPT !.qda = run] \in DirType
      BY <1>1 DEF DirType
    <3>2. disk' = [disk EXCEPT ![t] = [disk[t] EXCEPT !.qda = run]]
      BY <2>1
    <3>3. WITNESS [disk[t] EXCEPT !.qda = run] \in DirType
    <3> QED
      BY <1>1, <2>1, <3>2 DEF DumpsData, DirType
  <2>2. ASSUME NEW v \in {"PASSED", "FAILED"}, disk' = [disk EXCEPT ![t].out.verdict = v]
        PROVE  \E d \in DirType :
                  /\ disk' = [disk EXCEPT ![t] = d]
                  /\ d.out.run = disk[t].out.run /\ d.log = disk[t].log
                  /\ d.work = disk[t].work
                  /\ d.ctx = disk[t].ctx /\ d.std = disk[t].std
                  /\ d.qda = disk[t].qda \/ (Qualifying(args) /\ d.qda = run)
    <3>1. [disk[t] EXCEPT !.out.verdict = v] \in DirType
      BY <1>1 DEF DirType
    <3>2. disk' = [disk EXCEPT ![t] = [disk[t] EXCEPT !.out.verdict = v]]
      BY <2>2
    <3>3. WITNESS [disk[t] EXCEPT !.out.verdict = v] \in DirType
    <3> QED
      BY <1>1, <3>2 DEF DirType
  <2> QED
    BY <2>1, <2>2 DEF ScriptWrites
<1>4. disk'[t] = d /\ \A u \in Tests \ {t} : disk'[u] = disk[u]
  BY <1>3 DEF IInv, TypeOK
<1>5. TypeOK'
  BY <1>2, <1>3 DEF IInv, TypeOK, Stages
<1>6. TestInv(t)'
  <2>1. stage'[t] = "script" /\ TestControl(t)' = TestControl(t)
    BY <1>2, ControlStable DEF IInv, TypeOK
  <2>2. StageOf(t)' /\ VerdictOf(t)'
    BY <1>1, <1>2, <1>3, <1>4, <2>1 DEF TestInv, StageOf, VerdictOf
  <2>3. disk[t].std.run \in Nat /\ disk[t].std.run <= run
    BY <1>1 DEF DirType, TestInv, DataOf
  <2>4. DataOf(t)'
    BY <1>1, <1>2, <1>3, <1>4, <2>1, <2>3 DEF TestInv, DataOf
  <2>5. DataTogether(t)'
    <3>1. CASE d.qda = disk[t].qda
      BY <1>1, <1>2, <1>3, <1>4, <3>1 DEF TestInv, DataTogether
    <3>2. CASE Qualifying(args) /\ d.qda = run
      <4>1. disk'[t].ctx = run /\ disk'[t].log = run /\ disk'[t].work = run
        BY <1>1, <1>3, <1>4, <3>2 DEF TestInv, DataOf
      <4>2. disk'[t].std.run <= run /\ disk'[t].qda = run /\ run <= ctxdata'
        BY <1>1, <1>2, <1>3, <1>4, <2>3, <3>2
      <4> QED
        BY <1>2, <4>1, <4>2 DEF DataTogether
    <3> QED
      BY <1>3, <3>1, <3>2
  <2> QED
    BY <2>2, <2>4, <2>5 DEF TestInv
<1> QED
  BY <1>1, <1>2, <1>4, <1>5, <1>6, OneTest DEF IInv, TypeOK

LEMMA ScriptEndsStep ==
  ASSUME IInv, NEW t \in Tests, ScriptEnds(t)
  PROVE  IInv'
<1>1. /\ At(t, "script") /\ stage[t] = "script" /\ TestInv(t) /\ phase = "running"
      /\ script[t] = "running" /\ result[t] = "none"
  BY UnderWay DEF ScriptEnds
<1>2. /\ UNCHANGED <<run, args, phase, present, planned, ctxdata, control, result, disk>>
      /\ stage' = [stage EXCEPT ![t] = "script"]
  BY DEF ScriptEnds, Goto
<1>3. PICK e \in {"ok", "error", "killed"} : script' = [script EXCEPT ![t] = e]
  BY DEF ScriptEnds
<1>4. TypeOK'
  BY <1>2, <1>3 DEF IInv, TypeOK, Stages
<1>5. TestInv(t)'
  <2>1. stage'[t] = "script" /\ script'[t] = e /\ TestControl(t)' = TestControl(t)
    BY <1>2, <1>3, ControlStable DEF IInv, TypeOK
  <2>2. StageOf(t)' /\ VerdictOf(t)'
    BY <1>1, <1>2, <2>1 DEF TestInv, StageOf, VerdictOf
  <2>3. DataOf(t)' /\ DataTogether(t)'
    BY <1>1, <1>2, <2>1 DEF TestInv, DataOf, DataTogether
  <2> QED
    BY <2>2, <2>3 DEF TestInv
<1> QED
  BY <1>1, <1>2, <1>3, <1>4, <1>5, OneTest DEF IInv, TypeOK

\* Cleanups keep the report and the data; those of a qualification run, the log
\* and the working directories too
LEMMA CleanupsKeep ==
  ASSUME NEW d \in DirType, NEW c \in Cleanups(d)
  PROVE  /\ c \in DirType /\ c.out = d.out /\ c.qda = d.qda /\ c.ctx = d.ctx
         /\ c.std = d.std
         /\ Qualifying(args) => c.log = d.log /\ c.work = d.work
<1>1. PICK removed \in SUBSET ({"tmp"} \cup IF Qualifying(args) THEN {} ELSE {"work", "log"}) :
         c = [d EXCEPT !.tmp = IF "tmp" \in removed THEN NoFile ELSE @,
                       !.work = IF "work" \in removed THEN NoFile ELSE @,
                       !.log = IF "log" \in removed THEN NoFile ELSE @]
  BY DEF Cleanups
<1>2. /\ c.out = d.out /\ c.qda = d.qda /\ c.ctx = d.ctx /\ c.std = d.std
      /\ c \in DirType
  BY <1>1 DEF DirType, NoFile
<1>3. Qualifying(args) => c.log = d.log /\ c.work = d.work
  BY <1>1 DEF DirType
<1> QED
  BY <1>2, <1>3

\* The status is that of this run
LEMMA LatchedStatusType ==
  ASSUME IInv, NEW t \in Tests
  PROVE  /\ LatchedStatus(t).run = run
         /\ LatchedStatus(t) \in [run : Nat, status : Results \cup {"none"},
                                  passed : BOOLEAN, xfail : BOOLEAN]
<1>1. Pending(t) \in Results
  BY DEF IInv, TypeOK, Pending, Results
<1>2. (Pending(t) \in Passing) \in BOOLEAN /\ (control[t] = "XFAIL") \in BOOLEAN
  OBVIOUS
<1> QED
  BY <1>1, <1>2 DEF LatchedStatus, IInv, TypeOK

LEMMA TearDownStep ==
  ASSUME IInv, NEW t \in Tests, TearDown(t)
  PROVE  IInv'
<1>1. /\ At(t, "script") /\ stage[t] = "script" /\ TestInv(t) /\ phase = "running"
      /\ disk[t] \in DirType /\ run \in Nat /\ result[t] = "none"
      /\ script[t] # "running"
      /\ Qualifying(args) => ctxdata = run
  <2>1. At(t, "script") /\ script[t] # "running"
    BY DEF TearDown
  <2> QED
    BY <2>1, UnderWay
<1>2. CASE "post_testcase" \in args.hooks /\ Abort(t)
  BY <1>1, <1>2, AbortStep
<1>3. CASE /\ \E d \in IF args.cleanups /\ Pending(t) # "FAIL"
                       THEN Cleanups(disk[t]) ELSE {disk[t]} :
                disk' = [disk EXCEPT ![t] =
                   IF Qualifying(args) THEN [d EXCEPT !.std = LatchedStatus(t)] ELSE d]
           /\ Goto(t, "torn down")
           /\ UNCHANGED testing
  <2>1. PICK d \in IF args.cleanups /\ Pending(t) # "FAIL"
                   THEN Cleanups(disk[t]) ELSE {disk[t]} :
                disk' = [disk EXCEPT ![t] =
                   IF Qualifying(args) THEN [d EXCEPT !.std = LatchedStatus(t)] ELSE d]
    BY <1>3
  <2>2. /\ d \in DirType /\ d.out = disk[t].out /\ d.qda = disk[t].qda
        /\ d.ctx = disk[t].ctx /\ d.std = disk[t].std
        /\ Qualifying(args) => d.log = disk[t].log /\ d.work = disk[t].work
    BY <1>1, CleanupsKeep
  <2> DEFINE e == IF Qualifying(args) THEN [d EXCEPT !.std = LatchedStatus(t)] ELSE d
  <2>3. /\ e \in DirType /\ e.out = disk[t].out /\ e.qda = disk[t].qda
        /\ e.ctx = disk[t].ctx
        /\ e.std.run = IF Qualifying(args) THEN run ELSE disk[t].std.run
        /\ Qualifying(args) => e.log = disk[t].log /\ e.work = disk[t].work
    <3>1. CASE Qualifying(args)
      <4> DEFINE l == LatchedStatus(t)
      <4>1. l.run = run /\ l \in [run : Nat, status : Results \cup {"none"},
                                  passed : BOOLEAN, xfail : BOOLEAN]
        BY LatchedStatusType
      <4> HIDE DEF l
      <4>2. /\ [d EXCEPT !.std = l] \in DirType
            /\ [d EXCEPT !.std = l].out = d.out /\ [d EXCEPT !.std = l].qda = d.qda
            /\ [d EXCEPT !.std = l].ctx = d.ctx /\ [d EXCEPT !.std = l].std = l
            /\ [d EXCEPT !.std = l].log = d.log /\ [d EXCEPT !.std = l].work = d.work
        BY <2>2, <4>1 DEF DirType
      <4> QED
        BY <2>2, <3>1, <4>1, <4>2 DEF l
    <3>2. CASE ~Qualifying(args)
      BY <2>2, <3>2
    <3> QED
      BY <3>1, <3>2
  <2>4. disk' = [disk EXCEPT ![t] = e]
    BY <2>1
  <2> HIDE DEF e
  <2>5. /\ disk' \in [Tests -> DirType] /\ disk'[t] = e
        /\ \A u \in Tests \ {t} : disk'[u] = disk[u]
    BY <2>3, <2>4 DEF IInv, TypeOK
  <2>6. TypeOK'
    BY <1>3, <2>5 DEF IInv, TypeOK, Goto, testing, Stages
  <2>7. TestInv(t)'
    <3>1. stage'[t] = "torn down" /\ TestControl(t)' = TestControl(t)
      BY <1>3, ControlStable DEF IInv, TypeOK, Goto
    <3>2. StageOf(t)' /\ VerdictOf(t)'
      BY <1>1, <1>3, <2>3, <2>5, <3>1 DEF TestInv, StageOf, VerdictOf, Goto, testing
    <3>3. e.std.run <= run
      BY <1>1, <2>3 DEF TestInv, DataOf
    <3>4. DataOf(t)'
      BY <1>3, <2>5, <3>1, <3>3 DEF DataOf, Goto
    <3>5. disk[t].qda # NoFile => Qualifying(args) /\ disk[t].qda = run
      BY <1>1 DEF TestInv, DataOf
    <3>6. DataTogether(t)'
      BY <1>1, <1>3, <2>3, <2>5, <3>3, <3>5 DEF TestInv, DataTogether, Goto
    <3> QED
      BY <3>2, <3>4, <3>6 DEF TestInv
  <2> QED
    BY <1>1, <1>3, <2>5, <2>6, <2>7, OneTest DEF IInv, TypeOK, Goto, testing
<1> QED
  BY <1>2, <1>3 DEF TearDown

LEMMA AnalyzeStep ==
  ASSUME IInv, NEW t \in Tests, Analyze(t)
  PROVE  IInv'
<1>1. /\ At(t, "torn down") /\ stage[t] = "torn down" /\ TestInv(t) /\ phase = "running"
      /\ disk[t] \in DirType /\ result[t] = "none"
  <2>1. At(t, "torn down")
    BY DEF Analyze
  <2>2. stage[t] = "torn down" /\ TestInv(t) /\ phase = "running" /\ disk[t] \in DirType
    BY <2>1, UnderWay
  <2>3. result[t] = "none"
    BY <2>2 DEF TestInv, StageOf
  <2> QED
    BY <2>1, <2>2, <2>3
<1>2. /\ UNCHANGED <<run, args, phase, present, planned, ctxdata, control, script, disk>>
      /\ stage' = [stage EXCEPT ![t] = "done"]
      /\ result' = [result EXCEPT ![t] = Analysis(t)]
  BY DEF Analyze, Push, Goto
<1>3. /\ control[t] = TestControl(t) /\ control[t] \in {"run", "XFAIL"}
      /\ script[t] = "ok" => disk[t].out.run = run
  BY <1>1 DEF TestInv, StageOf
<1> DEFINE passed == script[t] = "ok" /\ disk[t].out.verdict = "PASSED"
<1>4. Analysis(t) = IF passed THEN IF control[t] = "XFAIL" THEN "XPASS" ELSE "PASS"
                   ELSE IF control[t] = "XFAIL" THEN "XFAIL" ELSE "FAIL"
  BY DEF Analysis, Success, Failure
<1>5. passed <=> /\ script[t] = "ok"
                 /\ disk[t].out = [run |-> run, verdict |-> "PASSED"]
  <2>1. disk[t].out \in [run : Nat, verdict : {"none", "open", "PASSED", "FAILED"}]
    BY <1>1 DEF DirType
  <2>2. disk[t].out = [run |-> disk[t].out.run, verdict |-> disk[t].out.verdict]
    BY <2>1
  <2>3. ASSUME passed PROVE disk[t].out = [run |-> run, verdict |-> "PASSED"]
    BY <1>3, <2>2, <2>3
  <2> QED
    BY <2>3
<1> HIDE DEF passed
<1>6. TypeOK'
  BY <1>2, <1>4 DEF IInv, TypeOK, Stages, Results
<1>7. TestInv(t)'
  <2>1. /\ stage'[t] = "done" /\ result'[t] = Analysis(t)
        /\ TestControl(t)' = TestControl(t)
    BY <1>2, ControlStable DEF IInv, TypeOK
  <2>2. StageOf(t)'
    BY <1>1, <1>2, <1>4, <2>1 DEF StageOf
  <2>3. VerdictOf(t)'
    BY <1>2, <1>3, <1>4, <1>5, <2>1 DEF VerdictOf, Passing
  <2>4. DataOf(t)' /\ DataTogether(t)'
    BY <1>1, <1>2, <2>1 DEF TestInv, DataOf, DataTogether
  <2> QED
    BY <2>2, <2>3, <2>4 DEF TestInv
<1> QED
  BY <1>1, <1>2, <1>6, <1>7, OneTest DEF IInv, TypeOK

-----------------------------------------------------------------------------
(* The theorems *)

LEMMA InitIInv == Init => IInv
<1> SUFFICES ASSUME Init PROVE IInv
  OBVIOUS
<1>1. EmptyDir \in DirType /\ EmptyDir.qda = NoFile /\ EmptyDir.std.run = 0
  BY DEF EmptyDir, DirType, NoOut, NoStatus, NoFile
<1>2. TypeOK
  BY <1>1 DEF Init, TypeOK, Stages, NoFile
<1>3. ContextDumped
  BY DEF Init, ContextDumped, NoFile
<1>4. ASSUME NEW t \in Tests
      PROVE  StageOf(t) /\ VerdictOf(t) /\ DataOf(t) /\ DataTogether(t)
  BY <1>1, <1>4 DEF Init, StageOf, VerdictOf, DataOf, DataTogether
<1> QED
  BY <1>2, <1>3, <1>4 DEF IInv

LEMMA NextIInv == IInv /\ [Next]_vars => IInv'
<1> SUFFICES ASSUME IInv, [Next]_vars PROVE IInv'
  OBVIOUS
<1>1. CASE \E a \in Commands : Start(a)
  BY <1>1, StartStep
<1>2. CASE SuiteStep \/ Interrupt
  BY <1>2, SuiteSteps
<1>3. ASSUME NEW t \in Tests, TestStep(t) PROVE IInv'
  BY <1>3, InterpretControlStep, SetUpStep, SpawnStep, ScriptWritesStep, ScriptEndsStep,
     TearDownStep, AnalyzeStep DEF TestStep
<1>4. CASE UNCHANGED vars
  <2>1. UNCHANGED <<run, args, phase, present, planned, stage, control, script, result,
                    disk, ctxdata>>
    BY <1>4 DEF vars, progress, testing
  <2>2. TypeOK' /\ ContextDumped'
    BY <2>1 DEF IInv, TypeOK, ContextDumped
  <2>3. ASSUME NEW t \in Tests PROVE TestInv(t)'
    BY <2>1, <2>3, Untouched DEF IInv, StageOf
  <2> QED
    BY <2>2, <2>3 DEF IInv, TestInv
<1> QED
  BY <1>1, <1>2, <1>3, <1>4 DEF Next

\* The stage of a test, its control, its script and its files agree, in every
\* run: the order in which TestPyRunner takes a test through them
THEOREM Invariance == Spec => []IInv
BY InitIInv, NextIInv, PTL DEF Spec

\* The result of a test is that of the script this run started for it, under the
\* directive that applies to it, and an error is a hook's or a wrong directive's
THEOREM VerdictSound == Spec => []VerdictOfThisRun
<1>1. IInv => VerdictOfThisRun
  BY DEF IInv, VerdictOfThisRun
<1> QED
  BY <1>1, Invariance, PTL

\* The qualification data of a test come with the context, log and reports of
\* the run that dumped them, over any number of runs and interruptions
THEOREM QualificationDataTogether == Spec => []StrDataTogether
<1>1. IInv => StrDataTogether
  BY DEF IInv, StrDataTogether
<1> QED
  BY <1>1, Invariance, PTL
=============================================================================
