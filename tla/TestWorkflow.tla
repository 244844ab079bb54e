---------------------------- MODULE TestWorkflow ----------------------------
(***************************************************************************)
(* One execution of a test.py script of the testsuite: a TestCase          *)
(* (SCOV/tc.py) takes its drivers and consolidation specs through each     *)
(* --level, one SCOV_helper (SCOV/internals/driver.py) at a time: work     *)
(* directory, instrumentation, build, execution, reports, check of the     *)
(* expectations.  The directories of the test keep what an earlier         *)
(* execution left there, and are shared by the levels: the programs built  *)
(* for the first level serve all of them.                                  *)
(*                                                                         *)
(* gnatcov, gprbuild and the programs are external: they fail, print and   *)
(* leave files as they please.  What the coverage reports contain is in    *)
(* ReportNotes, what a check compares in NoteMatching, and how             *)
(* expectations are read in Expectations.                                  *)
(***************************************************************************)
EXTENDS Integers, Sequences, FiniteSets, SequencesExt

CONSTANTS
    Drivers,      \* the sequence of the drivers' names (all_drivers)
    Short,        \* name -> directory name: "test_" is stripped, once
    Sources,
    Subunits,     \* the sources that are subunits of another source
    Closure,      \* driver -> the sources of its program
    Interest,     \* driver or spec -> the sources with expectations
    Options,      \* the sets of command line options and TestCase arguments,
                  \* with the consolidation specs: [name, drivers they match]
    MaxFailures   \* bound: no check fails from this many failures on

Levels == {"stmt", "stmt+decision", "stmt+mcdc", "stmt+uc_mcdc"}
Diags == {"exception", "check", "check2"}

\* Two drivers or specs never share a directory: the names differ once
\* "test_" and the extension are gone.  A test without drivers is refused.
ASSUME NamesAssumption ==
    /\ \A m, n \in DOMAIN Short : Short[m] = Short[n] => m = n
    /\ Drivers \in Seq(DOMAIN Short) /\ Drivers # <<>>
    /\ \A i, j \in DOMAIN Drivers : Drivers[i] = Drivers[j] => i = j
    /\ Interest \in [DOMAIN Short -> SUBSET Sources]
    /\ Closure \in [Range(Drivers) -> SUBSET Sources]

ASSUME OptionsAssumption ==
    \A o \in Options :
       /\ o.cspecs \in Seq([name : (DOMAIN Short) \ Range(Drivers),
                            drivers : Seq(Range(Drivers))])
       /\ o.category \in {"none", "stmt", "decision", "mcdc"}
       /\ o.xcov_level \in Levels \cup {""} /\ o.qualif \in BOOLEAN
       /\ o.trace_mode \in {"bin", "src"} /\ o.expected_diags \in Seq(SUBSET Diags)

VARIABLES
    opts, levels, pos, step, available_bdbase,   \* where the script is
    files, builds,                               \* what the directories hold
    n_failed, reported, out, exit,               \* thistest, its report
    entries, dumped,                             \* qualification data
    checked                                      \* history of the checks

place == <<opts, levels, pos, available_bdbase>>
disk == <<files, builds>>
verdict == <<n_failed, reported, out>>
qdata == <<entries, dumped>>
vars == <<place, step, disk, verdict, exit, qdata, checked>>

None == -1      \* no such file
Before == 0     \* the build of the files that an earlier execution left
NoBase == "none"

-----------------------------------------------------------------------------
(* Directories *)

WdbaseFor == [l \in Levels |->
                 CASE l = "stmt" -> "st_"
                   [] l = "stmt+decision" -> "dc_"
                   [] l = "stmt+mcdc" -> "mc_"
                   [] OTHER -> "uc_"]

WdirControl(wdbase, bdbase) ==
    [wdbase |-> wdbase,
     bdbase |-> IF bdbase = NoBase THEN wdbase ELSE bdbase,
     reuse_bin |-> bdbase # NoBase]

Dirs == Range(WdbaseFor) \X Range(Short)

\* A directory: the program (bin), the SCO files, the traces, the checkpoint
\* and the report.  Programs, SCO files and traces are known by their build.
EmptyDir == [bin |-> None, scos |-> [s \in Sources |-> None], traces |-> {},
             ckpt |-> <<>>, rep |-> <<>>]

Trace(prog, build, level) == [prog |-> prog, build |-> build, level |-> level]

LeftBefore(base, d) ==
    LET l == CHOOSE l \in DOMAIN WdbaseFor : WdbaseFor[l] = base
        ts == {Trace(p, Before, l) : p \in {p \in Range(Drivers) : Short[p] = d}}
        report == [traces |-> ts, scos |-> {}, bins |-> {}]
    IN  [bin |-> Before, scos |-> [s \in Sources |-> Before], traces |-> ts,
         ckpt |-> <<report>>, rep |-> <<report>>]

-----------------------------------------------------------------------------
(* The object being run *)

Objects == [i \in DOMAIN Drivers |->
               [name |-> Drivers[i], drivers |-> <<Drivers[i]>>]] \o opts.cspecs

DefaultXcovlevels == [none     |-> <<"stmt+mcdc">>,
                      stmt     |-> <<"stmt">>,
                      decision |-> <<"stmt+decision">>,
                      mcdc     |-> <<"stmt+mcdc", "stmt+uc_mcdc">>]

Xcovlevels(o) ==
    LET defaults == DefaultXcovlevels[o.category]
    IN  IF o.xcov_level # "" THEN <<o.xcov_level>>
        ELSE IF o.qualif THEN <<Head(defaults)>> ELSE defaults

level == Head(levels)
object == Objects[pos]
singletest == Len(object.drivers) = 1
main == IF singletest THEN object.drivers[1] ELSE object.name

wdctl == WdirControl(WdbaseFor[level], available_bdbase)
awdir_for(m) == <<wdctl.wdbase, Short[m]>>
abdir_for(m) == <<wdctl.bdbase, Short[m]>>
awdir == awdir_for(main)

\* RUNTIME_INFO: the testsuite names a runtime, or the default one is full.
has_full_runtime == opts.runtime = "none"
has_ravenscar_runtime == opts.runtime = "ravenscar-board"

dump_trigger == CASE has_full_runtime -> "atexit"
                  [] has_ravenscar_runtime -> "ravenscar-task-termination"
                  [] OTHER -> "main-end"
dump_channel == IF has_full_runtime THEN "bin-file" ELSE "base64-stdout"

-----------------------------------------------------------------------------
(* thistest: failures, stops and exceptions *)

At(s) == step = s /\ exit = "running"

\* Failures are logged.  A harness test recognises those of the checks and of
\* the exceptions by their text; there are n others.
Failed(n, diags) ==
    /\ n > 0 \/ diags # <<>> => n_failed < MaxFailures
    /\ n_failed' = n_failed + n + Len(diags)
    /\ reported' = reported \o diags

Verdict(n) == IF n = 0 THEN "PASSED" ELSE "FAILED"

Raise == step' = "raised"

Stop ==
    /\ n_failed' = n_failed + 1
    /\ out' = Verdict(n_failed + 1)
    /\ Raise
    /\ UNCHANGED <<place, builds, reported, exit, qdata, checked>>

Continue(n, diags, next) ==
    /\ Failed(n, diags)
    /\ step' = next
    /\ UNCHANGED <<out, exit>>

\* The failures of a gnatcov command that does not stop the test: a log of
\* memcheck that is not empty.
XcovFailures == {0} \cup IF opts.enable_valgrind = "memcheck" THEN {1} ELSE {}

\* Instrumentation and analysis must not print anything either.
PrintingXcovFailures ==
    XcovFailures \cup {n + 1 : n \in XcovFailures}

-----------------------------------------------------------------------------
(* The steps of a SCOV_helper *)

\* The switches that expectations depend on are computed first.
CargsForbidden == opts.qualif /\ opts.extracargs

\* Then expectations are read: the expander may stop the test or raise.
\* Empty ones are a failure, reported once for each kind of notes.
New ==
    /\ At("new") /\ levels # <<>>
    /\ \/ Stop /\ UNCHANGED files
       \/ Raise /\ UNCHANGED <<place, disk, verdict, exit, qdata, checked>>
       \/ /\ ~CargsForbidden
          /\ \E none \in {0, 2} : Continue(none, <<>>, "workdir")
          /\ entries' = Append(entries, <<level, object.name>>)
          /\ UNCHANGED <<place, disk, dumped, checked>>

\* Defect: the directory of an earlier execution is used as it is.
WorkdirKept(dir) == files

Workdir(dir) == [files EXCEPT ![dir] = EmptyDir]

ToWorkdir ==
    /\ At("workdir")
    /\ files' = Workdir(awdir)
    /\ step' = IF ~singletest THEN "report"
               ELSE IF wdctl.reuse_bin THEN "run"
               ELSE IF opts.trace_mode = "src" THEN "instrument" ELSE "build"
    /\ UNCHANGED <<place, builds, verdict, exit, qdata, checked>>

units_of_interest == Interest[object.name] \ Subunits

\* The SCO files (ALIs or SIDs) of the program's sources, written in "obj": a
\* subunit has none, and only the units of interest are instrumented.
ScosOf(prog, build) ==
    [s \in Sources |->
        IF /\ s \in Closure[prog] \ Subunits
           /\ opts.trace_mode = "src" => s \in units_of_interest
        THEN build ELSE None]

\* Source traces need a project file, and a single driver for the handler of
\* main-end dumps.
Instrument ==
    /\ At("instrument")
    /\ \/ ~opts.gprmode /\ Raise
          /\ UNCHANGED <<place, disk, verdict, exit, qdata, checked>>
       \/ opts.gprmode /\ Stop /\ UNCHANGED files
       \/ /\ opts.gprmode
          /\ dump_trigger = "main-end" => singletest
          /\ files' = [files EXCEPT ![awdir].scos = ScosOf(main, builds + 1)]
          /\ \E n \in PrintingXcovFailures : Continue(n, <<>>, "build")
          /\ UNCHANGED <<place, builds, qdata, checked>>

Build ==
    /\ At("build")
    /\ \/ Stop /\ UNCHANGED files
       \/ /\ files' = [files EXCEPT
                         ![abdir_for(main)].bin = builds + 1,
                         ![abdir_for(main)].scos =
                            IF opts.trace_mode = "bin"
                            THEN ScosOf(main, builds + 1) ELSE @]
          /\ builds' = builds + 1
          /\ step' = "run"
          /\ UNCHANGED <<place, verdict, exit, qdata, checked>>

\* What an execution leaves: gnatcov run succeeds only with a trace, a program
\* that is not there does nothing.
Executions(bin) ==
    {r \in [ok : BOOLEAN, trace : BOOLEAN, exception : BOOLEAN] :
        /\ bin = None => ~r.ok /\ ~r.trace /\ ~r.exception
        /\ r.ok /\ opts.trace_mode = "bin" => r.trace}

\* The handler for main-end dumps prints only when failures are expected.
ExceptionShown(r) ==
    /\ r.exception
    /\ opts.trace_mode = "src" /\ dump_trigger = "main-end" =>
          opts.expect_failures

\* A base64 trace is on the output and must be extracted: it fails without it.
ExecutionFails(r) ==
    \/ ~r.ok
    \/ /\ opts.trace_mode = "src" /\ dump_channel = "base64-stdout"
       /\ ~r.trace

\* The command that leaves the trace is gnatcov, unless a program that was
\* instrumented writes it.
ExecutionFailures ==
    IF opts.trace_mode = "bin" \/ dump_channel = "base64-stdout"
    THEN XcovFailures ELSE {0}

RunTest ==
    /\ At("run")
    /\ LET bin == files[abdir_for(main)].bin
       IN  \E r \in Executions(bin) :
             /\ files' = IF r.trace
                         THEN [files EXCEPT ![awdir].traces =
                                 @ \cup {Trace(main, bin, level)}]
                         ELSE files
             /\ IF ExecutionFails(r) /\ ~opts.expect_failures
                THEN Stop
                ELSE /\ \E n \in ExecutionFailures :
                           Continue(n, IF ExceptionShown(r)
                                       THEN <<"exception">> ELSE <<>>, "report")
                     /\ UNCHANGED <<place, builds, qdata, checked>>

-----------------------------------------------------------------------------
(* Reports *)

use_checkpoint_inputs == opts.consolidate = "checkpoints" /\ ~singletest

TracesFor(prog) == {t \in files[awdir_for(prog)].traces : t.prog = prog}

InputsFound ==
    \A prog \in Range(object.drivers) :
       IF use_checkpoint_inputs THEN files[awdir_for(prog)].ckpt # <<>>
       ELSE Cardinality(TracesFor(prog)) = 1

\* The SCO file of a source: that of the first driver that has one.
LocateScofile(source) ==
    LET found(i) == files[abdir_for(object.drivers[i])].scos[source]
        have == {i \in DOMAIN object.drivers : found(i) # None}
    IN  IF have = {} THEN {} ELSE {<<source, found(Min(have))>>}

ScofilesList == UNION {LocateScofile(s) : s \in Interest[object.name]}

\* With -P (a program just built with its project file) the SCOs are those of
\* the project's objects, in the working directory.
ProjectScos ==
    {<<s, files[awdir].scos[s]>> : s \in
        {s \in Interest[object.name] : files[awdir].scos[s] # None}}

coverage_sco_options ==
    IF opts.gprmode /\ singletest /\ ~wdctl.reuse_bin
    THEN ProjectScos ELSE ScofilesList

Report ==
    IF use_checkpoint_inputs
    THEN LET cs == {files[awdir_for(p)].ckpt[1] : p \in Range(object.drivers)}
         IN  [traces |-> UNION {c.traces : c \in cs},
              scos |-> UNION {c.scos : c \in cs},
              bins |-> UNION {c.bins : c \in cs}]
    ELSE [traces |-> UNION {TracesFor(p) : p \in Range(object.drivers)},
          scos |-> coverage_sco_options,
          bins |-> {<<p, files[abdir_for(p)].bin>> : p \in Range(object.drivers)}]

\* gnatcov coverage --annotate=report; a single test saves a checkpoint too.
GenReport ==
    /\ At("report")
    /\ \/ Stop /\ UNCHANGED files
       \/ /\ InputsFound
          /\ files' = [files EXCEPT
                         ![awdir].rep = <<Report>>,
                         ![awdir].ckpt = IF singletest
                                            /\ opts.consolidate = "checkpoints"
                                         THEN <<Report>> ELSE @]
          /\ \E n \in PrintingXcovFailures :
                Continue(n, <<>>, IF opts.qualif THEN "check" ELSE "xcov")
          /\ UNCHANGED <<place, builds, qdata, checked>>

GenXcov ==
    /\ At("xcov")
    /\ \/ Stop /\ UNCHANGED files
       \/ /\ \E n \in PrintingXcovFailures : Continue(n, <<>>, "check")
          /\ UNCHANGED <<place, disk, qdata, checked>>

-----------------------------------------------------------------------------
(* The check, then the next driver, spec or level *)

CheckFailures ==
    {[n |-> 0, diags |-> d] : d \in {<<>>, <<"check">>, <<"check", "check2">>}}
    \cup IF opts.xreports THEN {[n |-> 1, diags |-> <<>>]} ELSE {}

NoStrictestCategory ==
    /\ opts.category = "none"
    /\ level \notin {"stmt", "stmt+decision", "stmt+mcdc"}

\* Defect: the last object of a level is left out.
NextObjectEarly ==
    /\ available_bdbase' = IF pos = Len(Drivers) /\ available_bdbase = NoBase
                           THEN WdbaseFor[level] ELSE available_bdbase
    /\ pos' = IF pos >= Len(Objects) - 1 THEN 1 ELSE pos + 1
    /\ levels' = IF pos >= Len(Objects) - 1 THEN Tail(levels) ELSE levels
    /\ UNCHANGED opts

NextObject ==
    /\ available_bdbase' = IF pos = Len(Drivers) /\ available_bdbase = NoBase
                           THEN WdbaseFor[level] ELSE available_bdbase
    /\ pos' = IF pos = Len(Objects) THEN 1 ELSE pos + 1
    /\ levels' = IF pos = Len(Objects) THEN Tail(levels) ELSE levels
    /\ UNCHANGED opts

Check(l, o, report, clean) ==
    [level |-> l, name |-> o.name, drivers |-> Range(o.drivers),
     report |-> report, clean |-> clean]

CheckExpectations ==
    /\ At("check")
    /\ \/ Stop /\ UNCHANGED files
       \/ NoStrictestCategory /\ Raise
          /\ UNCHANGED <<place, disk, verdict, exit, qdata, checked>>
       \/ /\ ~NoStrictestCategory
          /\ \E f \in CheckFailures :
                /\ Continue(f.n, f.diags, "new")
                /\ checked' = checked \cup
                      {Check(level, object, files[awdir].rep[1], f.n = 0 /\ f.diags = <<>>)}
          /\ NextObject
          /\ UNCHANGED <<disk, qdata>>

-----------------------------------------------------------------------------
(* The end of the script *)

\* Defect: no finally clause, an exception leaves nothing.
FlushedAtEnd == dumped' = IF opts.qualif /\ step = "new" THEN <<entries>> ELSE dumped

\* The finally clause of TestCase.run.
Flushed == dumped' = IF opts.qualif THEN <<entries>> ELSE dumped

\* Defect: no result() at the end of the script.
EndRunSilently ==
    /\ At("new") /\ levels = <<>>
    /\ Flushed
    /\ step' = IF opts.expected_diags # <<>> THEN "match" ELSE "end"
    /\ UNCHANGED <<place, disk, verdict, exit, entries, checked>>

EndRun ==
    /\ At("new") /\ levels = <<>>
    /\ Flushed
    /\ step' = IF opts.expected_diags # <<>> THEN "match" ELSE "result"
    /\ UNCHANGED <<place, disk, verdict, exit, entries, checked>>

EndInError ==
    /\ At("raised")
    /\ Flushed
    /\ exit' = "error"
    /\ UNCHANGED <<place, step, disk, verdict, entries, checked>>

\* HarnessTestCase: a diagnostic reported as expected cancels a failure; one
\* that does not match exactly once is a failure.
CountMatchOn(diags) ==
    {h \in (DOMAIN diags) \X (DOMAIN opts.expected_diags) :
        diags[h[1]] \in opts.expected_diags[h[2]]}

MatchDiags ==
    /\ At("match")
    /\ LET hits == CountMatchOn(reported)
           unmet == {j \in DOMAIN opts.expected_diags :
                        Cardinality({h \in hits : h[2] = j}) # 1}
           unexpected == {i \in DOMAIN reported :
                             Cardinality({h \in hits : h[1] = i}) # 1}
       IN  n_failed' = n_failed - Cardinality(hits)
                       + Cardinality(unmet) + Cardinality(unexpected)
    /\ step' = "result"
    /\ UNCHANGED <<place, disk, reported, out, exit, qdata, checked>>

Result ==
    /\ At("result")
    /\ out' = Verdict(n_failed)
    /\ step' = "end"
    /\ UNCHANGED <<place, disk, n_failed, reported, exit, qdata, checked>>

Exit ==
    /\ At("end")
    /\ exit' = "ok"
    /\ UNCHANGED <<place, step, disk, verdict, qdata, checked>>

\* The testsuite driver kills a script that exceeds its time limit.
TimeOut ==
    /\ exit = "running"
    /\ exit' = "killed"
    /\ UNCHANGED <<place, step, disk, verdict, qdata, checked>>

-----------------------------------------------------------------------------

Init ==
    /\ opts \in Options
    /\ levels = Xcovlevels(opts) /\ pos = 1 /\ step = "new"
    /\ available_bdbase = NoBase
    /\ files \in {[d \in Dirs |-> EmptyDir],
                  [d \in Dirs |-> LeftBefore(d[1], d[2])]}
    /\ builds = Before
    /\ n_failed = 0 /\ reported = <<>> /\ out = "open" /\ exit = "running"
    /\ entries = <<>> /\ dumped = <<>> /\ checked = {}

Next ==
    \/ New \/ ToWorkdir \/ Instrument \/ Build \/ RunTest
    \/ GenReport \/ GenXcov \/ CheckExpectations
    \/ EndRun \/ EndInError \/ MatchDiags \/ Result \/ Exit \/ TimeOut

Spec == Init /\ [][Next]_vars
-----------------------------------------------------------------------------

\* The sources a report is about: those of interest that a driver has SCOs
\* for.  Checkpoints have the sources of interest of their own drivers.
OfInterest(o, c) ==
    LET mine(d) == IF o.consolidate = "checkpoints" THEN Interest[d]
                   ELSE IF o.trace_mode = "src"
                   THEN Interest[d] \cap Interest[c.name] ELSE Interest[c.name]
    IN  UNION {(mine(d) \cap Closure[d]) \ Subunits : d \in c.drivers}

(***************************************************************************)
(* What is checked comes from this execution of the script: each report    *)
(* was made from one trace of each of its drivers, taken at its level by a *)
(* program built now, the program still being the one that is analysed,    *)
(* with the SCOs of the build of one of these programs.  A test has the    *)
(* files of earlier executions, and other levels, in its directories       *)
(* (driver.py: "We arrange for each run to execute in a different subdir   *)
(* to prevent mixups").                                                    *)
(***************************************************************************)
FromOwnArtifacts(o, c) ==
    /\ {t.prog : t \in c.report.traces} = c.drivers
    /\ Cardinality(c.report.traces) = Cardinality(c.drivers)
    /\ \A t \in c.report.traces :
          /\ t.level = c.level /\ t.build > Before
          /\ <<t.prog, t.build>> \in c.report.bins
    /\ \A s \in c.report.scos :
          \E t \in c.report.traces : t.build = s[2] /\ s[1] \in Closure[t.prog]
    /\ {s[1] : s \in c.report.scos} = OfInterest(o, c)

ReportsFromOwnArtifacts == \A c \in checked : FromOwnArtifacts(opts, c)

(***************************************************************************)
(* A script that says PASSED has checked every driver and every            *)
(* consolidation spec, at every level of its category, and no check failed *)
(* (a harness test expects the failures it cancels).                       *)
(***************************************************************************)
PassedMeansAllChecked ==
    out = "PASSED" =>
       \A l \in Range(Xcovlevels(opts)), o \in Range(Objects) :
          \E c \in checked :
             /\ c.level = l /\ c.name = o.name /\ c.drivers = Range(o.drivers)
             /\ opts.expected_diags = <<>> => c.clean

(***************************************************************************)
(* A qualification run that ends by itself, even on an exception, dumps    *)
(* the data of every object it started, in order ("try/finally is critical *)
(* in making sure we dump results in case of failure"), and what it        *)
(* dumps accounts for all it checked.                                      *)
(***************************************************************************)
EntriesDumped ==
    exit \in {"ok", "error"} /\ opts.qualif =>
       /\ dumped = <<entries>>
       /\ \A c \in checked : <<c.level, c.name>> \in Range(dumped[1])

Script == INSTANCE TestScript

(***************************************************************************)
(* The script keeps what TestScript promises to the testsuite driver.      *)
(***************************************************************************)
ScriptImplemented == Script!Spec

-----------------------------------------------------------------------------
(* Why they hold. *)

Steps == {"new", "workdir", "instrument", "build", "run", "report", "xcov", "check",
          "raised", "match", "result", "end"}

\* An object is under way, from its entry to its check; the script is past them.
UnderWay == step \in {"workdir", "instrument", "build", "run", "report", "xcov", "check"}
Ending == step \in {"match", "result", "end"}

Builds == Nat \cup {None}
TraceType == [prog : Range(Drivers), build : Builds, level : Levels]
ReportType == [traces : SUBSET TraceType, scos : SUBSET (Sources \X Builds),
               bins : SUBSET (Range(Drivers) \X Builds)]
DirType == [bin : Builds, scos : [Sources -> Builds], traces : SUBSET TraceType,
            ckpt : Seq(ReportType), rep : Seq(ReportType)]

FilesTypeOK == files \in [Dirs -> DirType] /\ builds \in Nat

ScriptTypeOK ==
    /\ opts \in Options /\ step \in Steps
    /\ levels \in Seq(Levels) /\ pos \in 1..Len(Objects)
    /\ available_bdbase \in Range(WdbaseFor) \cup {NoBase}
    /\ n_failed \in Int /\ reported \in Seq(Diags)
    /\ entries \in Seq(Levels \X DOMAIN Short)
    /\ out \in {"open", "PASSED", "FAILED"}
    /\ exit \in {"running", "ok", "error", "killed"}

TypeOK == ScriptTypeOK /\ FilesTypeOK

\* The verdict is written last, of a count that is never negative before the
\* expected failures are cancelled, and a check that failed is counted.
Counted ==
    /\ out # "open" => step \in {"raised", "end"}
    /\ step = "raised" => out # "PASSED"
    /\ step = "end" => out # "open" /\ (out = "PASSED" => n_failed = 0)
    /\ step \notin {"result", "end"} => n_failed >= 0
    /\ step = "match" => opts.expected_diags # <<>>
    /\ opts.expected_diags = <<>> =>
          n_failed >= 0 /\ (n_failed = 0 => \A c \in checked : c.clean)

\* The entry of an object is there when it is under way, and remains.
Recorded ==
    /\ UnderWay => <<level, object.name>> \in Range(entries)
    /\ \A c \in checked : <<c.level, c.name>> \in Range(entries)
    /\ exit = "ok" => step = "end"
    /\ opts.qualif /\ (Ending \/ exit = "error") => dumped = <<entries>>

\* The levels that remain are the last ones of the category, and all that comes
\* before the current object at the current level is checked.
LevelsLeft ==
    LET all == Xcovlevels(opts)
        done == Len(all) - Len(levels)
    IN  /\ done >= 0
        /\ \A k \in 1..Len(levels) : levels[k] = all[done + k]

CheckedBefore(l, p) ==
    LET done == Len(Xcovlevels(opts)) - Len(levels)
    IN  l <= done \/ (l = done + 1 /\ p < pos /\ levels # <<>>)

CheckedSoFar ==
    /\ UnderWay => levels # <<>>
    /\ Ending => levels = <<>>
    /\ \A l \in DOMAIN Xcovlevels(opts), p \in DOMAIN Objects :
          CheckedBefore(l, p) =>
             \E c \in checked :
                /\ c.level = Xcovlevels(opts)[l] /\ c.name = Objects[p].name
                /\ c.drivers = Range(Objects[p].drivers)

ScriptInv == ScriptTypeOK /\ Counted /\ Recorded /\ LevelsLeft /\ CheckedSoFar

FirstLevel == Len(levels) = Len(Xcovlevels(opts))

\* The programs are those of the first level, once all drivers are through it.
ProgramsPlace ==
    IF available_bdbase = NoBase THEN FirstLevel /\ pos <= Len(Drivers)
    ELSE /\ available_bdbase = WdbaseFor[Xcovlevels(opts)[1]]
         /\ FirstLevel => pos > Len(Drivers)

\* The directory that a driver has at this level is of this execution.
HasWorkdir(q) ==
    q < pos \/ (q = pos /\ UnderWay /\ step # "workdir")

ScosBuilt(d, build) ==
    [s \in Sources |->
        IF /\ s \in Closure[d] \ Subunits
           /\ opts.trace_mode = "src" => s \in Interest[d] \ Subunits
        THEN build ELSE None]

\* So is its program, with the SCOs of the same build.
OwnProgram(q) ==
    LET built == files[abdir_for(Drivers[q])]
    IN  available_bdbase # NoBase \/ HasWorkdir(q) =>
           /\ built.bin # Before
           /\ built.bin # None => built.scos = ScosBuilt(Drivers[q], built.bin)

\* At most one trace there, of this level and of that program; a checkpoint is
\* a report on this driver alone.
OwnTraces(q) ==
    LET d == Drivers[q]
        bin == files[abdir_for(d)].bin
        work == files[awdir_for(d)]
    IN  HasWorkdir(q) =>
           /\ work.traces \subseteq {Trace(d, bin, level)}
           /\ work.traces # {} => bin > Before
           /\ work.ckpt # <<>> /\ opts.consolidate = "checkpoints" =>
                 /\ \E t \in work.ckpt[1].traces : work.ckpt[1].traces = {t}
                 /\ FromOwnArtifacts(opts, Check(level, Objects[q], work.ckpt[1], TRUE))

\* A spec that matches one driver empties the directory of this driver, program
\* included, and goes no further than its report: the second level has none.
SpecAlone(p) ==
    /\ p > Len(Drivers) /\ Len(Objects[p].drivers) = 1 =>
          FirstLevel /\ pos <= p
    /\ p > Len(Drivers) /\ Len(Objects[p].drivers) = 1 /\ p = pos =>
          /\ step \notin {"instrument", "build", "xcov", "check"}
          /\ step \in {"run", "report"} =>
                files[awdir].traces = {} /\ files[abdir_for(main)].bin = None

\* Where the object under way is.
InHand ==
    /\ step \in {"instrument", "build"} =>
          available_bdbase = NoBase /\ files[awdir].bin = None
    /\ step \in {"instrument", "build", "run"} => singletest /\ files[awdir].traces = {}
    /\ step = "build" /\ opts.trace_mode = "src" =>
          files[awdir].scos = ScosBuilt(main, builds + 1)
    /\ step \in {"xcov", "check"} =>
          /\ files[awdir].rep # <<>>
          /\ FromOwnArtifacts(opts, Check(level, object, files[awdir].rep[1], TRUE))

\* As long as objects remain and none has raised.
Going == levels # <<>> /\ step # "raised"

Artifacts ==
    /\ ReportsFromOwnArtifacts
    /\ Going =>
          /\ ProgramsPlace /\ InHand
          /\ \A q \in DOMAIN Drivers : OwnProgram(q) /\ OwnTraces(q)
          /\ \A p \in DOMAIN Objects : SpecAlone(p)

IInv == ScriptInv /\ FilesTypeOK /\ Artifacts
=============================================================================
