------------------------------- MODULE TestSuite -------------------------------
(***************************************************************************)
(* The testsuite driver (testsuite.py, over the external e3.testsuite): a  *)
(* run checks its command line, installs the hooks of an alternate run,    *)
(* dumps the context of a qualification run, configures the toolchain,     *)
(* plans the tests, those that group.py scripts generate included, and     *)
(* takes each through control, set up, script, tear down and analysis, in  *)
(* parallel.  Runs follow one another over the same directories, and one   *)
(* may be interrupted at any point: what a report on a qualification run   *)
(* reads is what they left there.                                          *)
(*                                                                         *)
(* A test.py script is external here and does what TestScript says.        *)
(***************************************************************************)
EXTENDS Integers, Sequences, FiniteSets, SequencesExt

CONSTANTS
    Tests,
    Group,       \* the tests that a group.py script generates
    Subtree,     \* test -> the part of the tree it belongs to
    Lang,        \* test -> the language directory it is under, or "none"
    OptFiles,    \* test -> the directives of its opt files, deepest first:
                 \* [tags, kind]
    Altruns,     \* directory of hooks -> [setup, hooks: name -> programs]
    Commands,    \* the command lines
    MaxRuns      \* bound on the successive runs

HookNames == {"pre_testsuite", "post_testsuite", "pre_testcase", "post_testcase"}

\* What the directives of an opt file come to; "run" is also their default.
Kinds == {"run", "DEAD", "XFAIL", "ILLEGAL"}

ASSUME TestsAssumption ==
    /\ Group \subseteq Tests
    /\ OptFiles \in [Tests -> Seq([tags : SUBSET STRING, kind : Kinds])]

VARIABLES
    run, args, phase,            \* the run, its options, where it is
    present, planned, stage,     \* generated tests on disk; this run's tests
    control, script, result,     \* test -> control, exit and report, result
    disk, ctxdata                \* what the directories hold

progress == <<planned, stage>>
testing == <<control, script, result>>
vars == <<run, args, phase, present, progress, testing, disk, ctxdata>>

-----------------------------------------------------------------------------
(* Files.  What is written is tagged with the run that wrote it; 0: none. *)

NoFile == 0
NoOut == [run |-> NoFile, verdict |-> "none"]
NoStatus == [run |-> NoFile, status |-> "none", passed |-> FALSE, xfail |-> FALSE]

\* test.py.out, test.py.log, the qualification data, the context copy, the
\* status, the working directories of the script with its reports, and the
\* temporary and binary artifacts.
EmptyDir == [out |-> NoOut, log |-> NoFile, qda |-> NoFile, ctx |-> NoFile,
             std |-> NoStatus, work |-> NoFile, tmp |-> NoFile]

-----------------------------------------------------------------------------
(* Command line *)

Versions == {"gnat95", "gnat05", "gnat12"}

Qualifying(a) == a.qualif_level # "none"

\* The levels whose regular expression matches the test's directory.
QlevelInfo == [doA |-> [subtrees |-> {"stmt", "decision", "mcdc", "common"},
                        xcovlevel |-> "stmt+mcdc"],
               doB |-> [subtrees |-> {"stmt", "decision", "common"},
                        xcovlevel |-> "stmt+decision"],
               doC |-> [subtrees |-> {"stmt", "common"}, xcovlevel |-> "stmt"]]

qualif_levels(t) == {l \in DOMAIN QlevelInfo : Subtree[t] \in QlevelInfo[l].subtrees}

Refused(a) == Qualifying(a) /\ (a.cargs_ada \cap Versions = {} \/ "gnatec" \notin a.cargs_ada)

Defaulted(a) ==
    [a EXCEPT !.cargs_ada = IF @ \cap Versions = {} THEN @ \cup {"gnat05"} ELSE @,
              !.gprmode = @ \/ a.trace_mode = "src",
              !.largs = IF a.target = "elf" THEN @ \o <<"-lgnat">> ELSE @]

\* The programs of the altrun directory for a hook: more than one is an error,
\* and so is one that competes with an option.
HookConflict(a) ==
    /\ a.altrun # "none"
    /\ \E h \in HookNames :
          LET programs == Altruns[a.altrun].hooks[h]
          IN  programs > 1 \/ (programs = 1 /\ h \in a.hooks)

WithHooks(a) ==
    IF a.altrun = "none" THEN a
    ELSE [a EXCEPT !.hooks =
             @ \cup {h \in HookNames : Altruns[a.altrun].hooks[h] = 1}]

BaseDiscriminants(a) == {"ALL", IF a.trace_mode = "src" THEN "src-traces" ELSE "bin-traces"}
BoardDiscriminants(a) == IF a.board = "none" THEN {} ELSE {"board", a.board}
QualifLevelDiscriminants(a) ==
    CASE a.qualif_level = "none" -> {} [] a.qualif_level = "doA" -> {"DOA"}
      [] a.qualif_level = "doB" -> {"DOB"} [] a.qualif_level = "doC" -> {"DOC"}
CargsTag == [gnat95 |-> "CARGS_gnat95", gnat05 |-> "CARGS_gnat05",
             gnat12 |-> "CARGS_gnat12", gnatec |-> "CARGS_gnatec"]
CargsDiscriminants(a) == {CargsTag[c] : c \in a.cargs_ada}
RtsDiscriminants(a) ==
    CASE a.RTS = "zfp" -> {"RTS_ZFP_STRICT"}
      [] a.RTS = "zfp-board" -> {"RTS_ZFP"}
      [] a.RTS = "ravenscar-sfp" -> {"RTS_RAVENSCAR", "RTS_RAVENSCAR_SFP"}
      [] a.RTS = "ravenscar" -> {"RTS_RAVENSCAR", "RTS_RAVENSCAR_FULL"}
      [] OTHER -> {"RTS_FULL"}

Discriminants(a) ==
    BaseDiscriminants(a) \cup BoardDiscriminants(a) \cup QualifLevelDiscriminants(a)
       \cup CargsDiscriminants(a) \cup RtsDiscriminants(a)

-----------------------------------------------------------------------------
(* A run of the suite *)

Over(p) == phase' = p /\ UNCHANGED <<run, present, progress, testing, disk>>

\* The command line is parsed, and refused or completed.
Start(a) ==
    /\ phase \in {"over", "interrupted"} /\ run < MaxRuns
    /\ run' = run + 1
    /\ args' = Defaulted(a)
    /\ phase' = IF Refused(a) THEN "over" ELSE "hooks"
    /\ planned' = {}
    /\ stage' = [t \in Tests |-> "unplanned"]
    /\ control' = [t \in Tests |-> "none"]
    /\ script' = [t \in Tests |-> "none"]
    /\ result' = [t \in Tests |-> "none"]
    /\ UNCHANGED <<present, disk, ctxdata>>

\* The setup program of the altrun directory runs first; it may fail.
SetupAltrunHooks ==
    /\ phase = "hooks"
    /\ args' = WithHooks(args)
    /\ \/ ~HookConflict(args) /\ Over("context")
       \/ HookConflict(args) /\ Over("over")
       \/ args.altrun # "none" /\ Altruns[args.altrun].setup /\ Over("over")
    /\ UNCHANGED ctxdata

DumpCtxdata ==
    /\ phase = "context"
    /\ Over("configure")
    /\ ctxdata' = IF Qualifying(args) THEN run ELSE ctxdata
    /\ UNCHANGED args

\* The toolchain configuration, the support library (not for a full runtime)
\* or the first hook may fail.
Configure ==
    /\ phase = "configure"
    /\ \/ Over("planning")
       \/ Over("over")
    /\ UNCHANGED <<args, ctxdata>>

\* A directory with a test.py and no .generated is a test; one with a
\* group.py is a group, whose tests are those found below once the script has
\* run: those it generates now, and those that an earlier run of it left.
Plan(generated, fails) ==
    /\ phase = "planning"
    /\ present' = present \cup generated
    /\ planned' = (Tests \ Group) \cup (IF fails THEN {} ELSE present')
    /\ stage' = [t \in Tests |-> IF t \in planned' THEN "planned" ELSE "unplanned"]
    /\ phase' = "running"
    /\ UNCHANGED <<run, args, testing, disk, ctxdata>>

PlanTests == \E generated \in SUBSET Group, fails \in BOOLEAN : Plan(generated, fails)

Finish ==
    /\ phase = "running"
    /\ \A t \in planned : stage[t] = "done"
    /\ Over("over")
    /\ UNCHANGED <<args, ctxdata>>

Interrupt ==
    /\ phase \notin {"over", "interrupted"}
    /\ Over("interrupted")
    /\ UNCHANGED <<args, ctxdata>>

-----------------------------------------------------------------------------
(* A test *)

At(t, s) == phase = "running" /\ t \in planned /\ stage[t] = s
Goto(t, s) ==
    /\ stage' = [stage EXCEPT ![t] = s]
    /\ UNCHANGED <<run, args, phase, present, planned, ctxdata>>

Push(t, status) == result' = [result EXCEPT ![t] = status] /\ Goto(t, "done")

AbortSilently(t) ==                                  \* defect: nothing is pushed
    /\ Goto(t, "aborted") /\ UNCHANGED <<testing, disk>>

Abort(t) == Push(t, "ERROR") /\ UNCHANGED <<control, script, disk>>

LangDiscriminants(t) ==
    CASE Lang[t] = "Ada" -> {"LANG_ADA"} [] Lang[t] = "C" -> {"LANG_C"} [] OTHER -> {}

\* The deepest directive whose discriminants are all set decides.
TestControl(t) ==
    LET tags == Discriminants(args) \cup LangDiscriminants(t)
        applying == {i \in DOMAIN OptFiles[t] : OptFiles[t][i].tags \subseteq tags}
    IN  IF applying = {} THEN "run" ELSE OptFiles[t][Min(applying)].kind

\* test.opt and the extra.opt files above the test's directory.
InterpretControl(t) ==
    /\ At(t, "planned")
    /\ control' = [control EXCEPT ![t] = TestControl(t)]
    /\ UNCHANGED <<script, disk>>
    /\ CASE TestControl(t) = "DEAD" -> Push(t, "SKIP")
         [] TestControl(t) = "ILLEGAL" -> Push(t, "ERROR")
         [] OTHER -> Goto(t, "controlled") /\ UNCHANGED result

ClearedNotData(d) == [d EXCEPT !.out = NoOut, !.log = NoFile]  \* defect: qdaf kept
Cleared(d) == [d EXCEPT !.out = NoOut, !.log = NoFile, !.qda = NoFile]

\* The script gets the options of the run on its command line: only the level
\* matters here (DumpsData).
SetUp(t) ==
    /\ At(t, "controlled")
    /\ Goto(t, "set up")
    /\ disk' = [disk EXCEPT ![t] =
          IF Qualifying(args) THEN [Cleared(@) EXCEPT !.ctx = ctxdata] ELSE Cleared(@)]
    /\ UNCHANGED testing

\* The script dumps data when it is told a level.
DumpsData(t) == Qualifying(args) /\ qualif_levels(t) # {}

\* The pre-testcase hook may fail; the script may not start.
Spawn(t) ==
    /\ At(t, "set up")
    /\ \/ "pre_testcase" \in args.hooks /\ Abort(t)
       \/ /\ script' = [script EXCEPT ![t] = "running"]
          /\ disk' = [disk EXCEPT ![t].out = [run |-> run, verdict |-> "open"],
                                  ![t].log = run, ![t].work = run, ![t].tmp = run]
          /\ Goto(t, "script")
          /\ UNCHANGED <<control, result>>
       \/ /\ script' = [script EXCEPT ![t] = "error"]
          /\ Goto(t, "script")
          /\ UNCHANGED <<control, result, disk>>

\* A script writes its verdict once, last.
ScriptWrites(t) ==
    /\ At(t, "script") /\ script[t] = "running"
    /\ disk[t].out.verdict = "open"
    /\ \/ DumpsData(t) /\ disk[t].qda = NoFile /\ disk' = [disk EXCEPT ![t].qda = run]
       \/ \E v \in {"PASSED", "FAILED"} :
             /\ DumpsData(t) /\ v = "PASSED" => disk[t].qda = run
             /\ disk' = [disk EXCEPT ![t].out.verdict = v]
    /\ UNCHANGED testing /\ Goto(t, "script")

\* It exits by itself, or is killed on a timeout.
ScriptEnds(t) ==
    /\ At(t, "script") /\ script[t] = "running"
    /\ \E e \in {"ok", "error", "killed"} :
          /\ e = "ok" => disk[t].out.verdict # "open"
          /\ e = "error" => disk[t].out.verdict # "PASSED"
          /\ script' = [script EXCEPT ![t] = e]
    /\ UNCHANGED <<control, result, disk>> /\ Goto(t, "script")

\* Post-run cleanups: the temporary directories and the binaries, and for a
\* regular run the logs and working directories.  An entry that cannot be
\* removed stays, and is only reported in the error file.
Cleanups(d) ==
    {[d EXCEPT !.tmp = IF "tmp" \in removed THEN NoFile ELSE @,
               !.work = IF "work" \in removed THEN NoFile ELSE @,
               !.log = IF "log" \in removed THEN NoFile ELSE @] :
       removed \in SUBSET ({"tmp"} \cup IF Qualifying(args) THEN {} ELSE {"work", "log"})}

Passing == {"PASS", "XPASS"}

\* A result is an error as long as nothing is pushed.
Pending(t) == IF result[t] = "none" THEN "ERROR" ELSE result[t]

LatchedStatus(t) ==
    [run |-> run, status |-> Pending(t), passed |-> Pending(t) \in Passing,
     xfail |-> control[t] = "XFAIL"]

TearDown(t) ==
    /\ At(t, "script") /\ script[t] # "running"
    /\ \/ "post_testcase" \in args.hooks /\ Abort(t)
       \/ /\ \E d \in IF args.cleanups /\ Pending(t) # "FAIL"
                      THEN Cleanups(disk[t]) ELSE {disk[t]} :
                disk' = [disk EXCEPT ![t] =
                   IF Qualifying(args) THEN [d EXCEPT !.std = LatchedStatus(t)] ELSE d]
          /\ Goto(t, "torn down")
          /\ UNCHANGED testing

Failure(t) == IF control[t] = "XFAIL" THEN "XFAIL" ELSE "FAIL"
Success(t) == IF control[t] = "XFAIL" THEN "XPASS" ELSE "PASS"

\* defect: the report is read whatever the exit status of the script
AnalysisOfReport(t) ==
    IF disk[t].out.verdict = "PASSED" THEN Success(t) ELSE Failure(t)

Analysis(t) ==
    IF script[t] = "ok" /\ disk[t].out.verdict = "PASSED" THEN Success(t) ELSE Failure(t)

Analyze(t) ==
    /\ At(t, "torn down")
    /\ Push(t, Analysis(t))
    /\ UNCHANGED <<control, script, disk>>

-----------------------------------------------------------------------------

Init ==
    /\ run = 0 /\ phase = "over"
    /\ args \in Commands
    /\ present = {} /\ planned = {}
    /\ stage = [t \in Tests |-> "unplanned"]
    /\ control = [t \in Tests |-> "none"]
    /\ script = [t \in Tests |-> "none"]
    /\ result = [t \in Tests |-> "none"]
    /\ disk = [t \in Tests |-> EmptyDir]
    /\ ctxdata = NoFile

SuiteStep == SetupAltrunHooks \/ DumpCtxdata \/ Configure \/ PlanTests \/ Finish

TestStep(t) ==
    \/ InterpretControl(t) \/ SetUp(t) \/ Spawn(t) \/ ScriptWrites(t)
    \/ ScriptEnds(t) \/ TearDown(t) \/ Analyze(t)

Next ==
    \/ \E a \in Commands : Start(a)
    \/ SuiteStep
    \/ Interrupt
    \/ \E t \in Tests : TestStep(t)

\* The driver goes on by itself, and each test has a thread and a timeout.
Fairness ==
    /\ WF_vars(SuiteStep)
    /\ \A t \in Tests : WF_vars(TestStep(t))

Spec == Init /\ [][Next]_vars /\ Fairness

-----------------------------------------------------------------------------

(***************************************************************************)
(* The result of a test is about this run: it passes only if its script,   *)
(* started now, reported PASSED and exited normally, and no hook failed,   *)
(* and fails only if one of these is not so, or, which the comments on the *)
(* cleanups would have it do ("exceptions from our internal rm are turned  *)
(* into test failures") and this allows, if a cleanup left something; the  *)
(* directive that applies first decides whether it is skipped, and whether *)
(* a success or a failure is expected.                                     *)
(***************************************************************************)
\* The cleanups were asked for, and an entry they remove is still there.
LeftOver(t) ==
    /\ args.cleanups
    /\ \/ disk[t].tmp # NoFile
       \/ ~Qualifying(args) /\ (disk[t].work # NoFile \/ disk[t].log # NoFile)

VerdictOf(t) ==
    result[t] # "none" =>
       LET passed == /\ script[t] = "ok"
                     /\ disk[t].out = [run |-> run, verdict |-> "PASSED"]
       IN  /\ result[t] \in Passing => passed
           /\ result[t] \in {"FAIL", "XFAIL"} => ~passed \/ LeftOver(t)
           /\ (result[t] = "SKIP") = (TestControl(t) = "DEAD")
           /\ result[t] \in {"XFAIL", "XPASS"} => TestControl(t) = "XFAIL"
           /\ result[t] \in {"FAIL", "PASS"} => TestControl(t) = "run"
           /\ result[t] = "ERROR" =>
                 \/ TestControl(t) = "ILLEGAL"
                 \/ {"pre_testcase", "post_testcase"} \cap args.hooks # {}

VerdictOfThisRun == \A t \in Tests : VerdictOf(t)

(***************************************************************************)
(* The qualification data of a test come with the context, the log and the *)
(* reports of the run that dumped them, whatever runs followed, and are    *)
(* never older than the status they are shown with ("Clear them upfront to *)
(* prevent accumulation across executions and bogus reuse of old           *)
(* contents").                                                             *)
(***************************************************************************)
DataTogether(t) ==
    disk[t].qda # NoFile =>
       /\ disk[t].ctx = disk[t].qda /\ disk[t].log = disk[t].qda
       /\ disk[t].work = disk[t].qda
       /\ disk[t].std.run <= disk[t].qda
       /\ disk[t].qda <= ctxdata

StrDataTogether == \A t \in Tests : DataTogether(t)

-----------------------------------------------------------------------------
(* Why they hold.  The type of the state, and what the stage of a test says *)
(* of its control, of its script and of what it has on disk.                *)

Stages == {"unplanned", "planned", "controlled", "set up", "script", "torn down",
           "done"}
Results == {"PASS", "XPASS", "FAIL", "XFAIL", "SKIP", "ERROR"}

DirType ==
    [out : [run : Nat, verdict : {"none", "open", "PASSED", "FAILED"}],
     log : Nat, qda : Nat, ctx : Nat, work : Nat, tmp : Nat,
     std : [run : Nat, status : Results \cup {"none"}, passed : BOOLEAN,
            xfail : BOOLEAN]]

TypeOK ==
    /\ run \in Nat /\ ctxdata \in Nat
    /\ phase \in {"hooks", "context", "configure", "planning", "running", "over",
                  "interrupted"}
    /\ present \in SUBSET Group /\ planned \in SUBSET Tests
    /\ stage \in [Tests -> Stages]
    /\ control \in [Tests -> Kinds \cup {"none"}]
    /\ script \in [Tests -> {"none", "running", "ok", "error", "killed"}]
    /\ result \in [Tests -> Results \cup {"none"}]
    /\ disk \in [Tests -> DirType]

\* Nothing is known of a test before the run comes to it; a test under way has
\* the control of this run's options, and a script that answers to this run.
StageOf(t) ==
    /\ stage[t] # "unplanned" => phase \in {"running", "over", "interrupted"}
    /\ stage[t] = "done" <=> result[t] # "none"
    /\ stage[t] \in {"controlled", "set up", "script", "torn down"} =>
          control[t] = TestControl(t) /\ control[t] \in {"run", "XFAIL"}
    /\ stage[t] \in {"script", "torn down"} /\ script[t] \in {"running", "ok"} =>
          disk[t].out.run = run

\* The context of a qualification run is dumped before its tests, and what a
\* test under way has of qualification data is of this run, and in its context.
ContextDumped ==
    /\ ctxdata <= run
    /\ phase \in {"configure", "planning", "running"} /\ Qualifying(args) =>
          ctxdata = run

DataOf(t) ==
    /\ disk[t].std.run <= run
    /\ stage[t] \in {"set up", "script"} =>
          /\ Qualifying(args) => disk[t].ctx = ctxdata
          /\ disk[t].qda # NoFile => Qualifying(args) /\ disk[t].qda = run
    /\ stage[t] = "script" /\ script[t] = "running" =>
          disk[t].log = run /\ disk[t].work = run

IInv ==
    /\ TypeOK
    /\ ContextDumped
    /\ \A t \in Tests : StageOf(t) /\ VerdictOf(t) /\ DataOf(t) /\ DataTogether(t)

(***************************************************************************)
(* A run that starts its tests comes to its end, and no sooner than each   *)
(* of them has a result, unless it is interrupted.                         *)
(***************************************************************************)
EveryTestConcluded ==
    phase = "running" ~>
       \/ phase = "interrupted"
       \/ phase = "over" /\ \A t \in planned : result[t] # "none"
=============================================================================
