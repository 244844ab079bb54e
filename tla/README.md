# Verification of GNATcoverage

GNATcoverage (`src/tools/gnatcov`) measures the structural coverage of Ada and C programs, at the object
level (instructions, branches) and at the source level (statements, decisions, MC/DC). It works from the
*source coverage obligations* (SCOs) that a compiler or its own instrumenter emits, and from execution
traces of two kinds: *object traces* (address ranges and branch directions that an emulator or a debugger
records) and *source traces* (bit buffers that an instrumented program fills and dumps).

Around the tool, the repository has the testsuite that qualifies it (`src/testsuite`: a driver in Python runs
thousands of test programs and compares what the tool reports with what each test expects) and the production of
the qualification kits that are made of its results (`src/qualification`).

This directory holds TLA+ models of the algorithms and protocols of the tool, and of its qualification, in which an
error is hard to see with a test, the TLC configurations that check them, and theorems that TLAPS proves for every value of
the bounds. All paths below are relative to `src/tools/gnatcov` unless they start with `src/`.

Contents: [1 Inventory](#1-inventory), [2 Modules](#2-modules), [3 Correspondence with the
code](#3-correspondence-with-the-code), [4 Runs](#4-runs-bounds-and-what-they-show), [5 Proofs](#5-proofs),
[6 Divergences](#6-divergences-between-the-code-and-what-is-said-of-it), [7 Not modelled](#7-not-modelled),
[8 Plan](#8-plan).

## 1. Inventory

### The parts and how they interact

```
  LI files / instrumenter          object traces                    source traces
        |                               |                                |
   ali_files, instrument-*         traces_files                  instrument-input_traces
        | low level SCO entries         | Add_Entry                      | bits
        v                               v                                |
   sc_obligations  <---+         traces_dbase (per exec, per routine)    |
   sc_obligations-bdd  |                | Set_Insn_State (traces_elf)    |
        |              |                v                                |
        | BDD,         |         coverage-object: lines, routines        |
        | path index   |                | Object_To_Source               |
        v              |                v                                v
   decision_map -------+-----> coverage-source (statements, decisions, Evaluation_Stack)
                                        |  evaluations                   ^
                                        v                                | Checkpoint_Load
                                     mc_dc                          checkpoints
                                        |
                                        v
                                annotations-*, traces_dump (reports)
```

```
  test.py scripts <---- testsuite.py (threads, hooks, timeouts)  ----> test.py.out, .std, tcs.dump, ctx.dump
     | TestCase (tc.py), SCOV_helper (driver.py)                                    |
     |    expectations (test driver's text) --> XnotesExpander ---> expected notes  | STR/genrest.py
     |    gnatcov report ---------------------> RnotesExpander ---> emitted notes   v
     |    gnatcov xcov files -----------------> LnotesExpander --/      report on the tests
     |                                   _Xchecker                                  |
     v verdict                                                   qualification/genbundle.py: kit
```

The tool is one sequential process: there is no thread of its own. What makes it hard is elsewhere. Its
inputs come in any order and overlap; many of its algorithms are recursive over shared structures (BDDs,
ordered sets modified while they are searched); the program that it observes nests, recurses and raises
exceptions while the tool sees a small part of it; and results of separate runs are renumbered and merged.

| Component | State | Operations | What is hard |
|---|---|---|---|
| Decision BDD (`sc_obligations-bdd`) | BDD node vector, stack of pending arcs, `BDD_Type` record | `Create`, `Process_Not`, `Process_And_Then`, `Process_Or_Else`, `Process_Condition`, `Completed`, `Enumerate_Paths` | forward references (jumps) resolved at the end, shared nodes, recursive enumeration with memoisation, statically known conditions |
| SCO accessors (`sc_obligations`) | SCO vector, read only once loaded | `Offset_For_True`, `Condition_Values`, `Outcome`, `Get_Origin`, `Decision_Outcome`, `Has_Multipath_Condition` | the numbering of paths must decode into the values it was computed from |
| MC/DC (`mc_dc`) | none: functions on evaluations | `"<"`, `Is_MC_DC_Pair`, `Infer_Values` | order on vectors of different lengths, masking, unique cause |
| Source coverage (`coverage-source`) | `SCI_Vector`, `Evaluation_Stack` | `Compute_Source_Coverage` (`Condition_Evaluated`, `Edge_Taken`, `Set_Outcome_Taken`), `Compute_Line_State`, `Compute_MCDC_State`, `Process_Source_Trace`, checkpoints | evaluations abandoned by exceptions, nested and recursive; unknown outcomes; merge of several sources of data |
| Trace database (`traces_dbase`) | ordered set of disjoint address ranges with flags | `Add_Entry`, `Init`, `Init_Post`, `Update_State`, `Split_Trace`, iteration | recursive splits that modify the set between a search and the use of its result; comparison that is not an equivalence |
| Object coverage (`coverage-object`, `traces_elf.Set_Insn_State`, `traces_names`) | states of trace entries | `Set_Insn_State`, `Get_Line_State`, `Update_Line_State`, `Compute_Routine_State` | bounds at both ends of ranges, delay slots, gaps |
| Trace files (`traces_files`, `traces_files_registry`, `qemu_traces`) | none lasting | read, write, append | binary formats; size 0 |
| Executables (`traces_elf`, `elf_files`, `dwarf_handling`, `coff`, `binary_files`) | sections, symbols, lines, subprograms | parsing | external formats |
| Decision map (`decision_map`, `cfg_dump`) | branch to condition edges | `Analyze` | heuristics over compiled control flow graphs |
| SCO loading, checkpoints (`ali_files`, `checkpoints`, `Checkpoint_*` of each table) | relocation maps | `Load_SCOs`, `Checkpoint_Save`, `Checkpoint_Load` | order of loads, units that do not match, removed SCOs, renumbering of several tables |
| Source instrumentation (`instrument-*`) | unit instrumentation context | witnesses, MC/DC state variables | nesting, tasks, recursion and exceptions of the instrumented program |
| Run-time library (`rts`) | statement, decision and MC/DC buffers | `Witness`, trace output | concurrent witnesses; reset of the path index |
| Design prototype (`doc/design/instrument_mcdc.py`) | none: functions on expressions | `IndexedBDD`, `ada_eval_code`, `enumerate_tests` | the same numbering as the tool, computed in another way |
| Reading of reports (`src/testsuite/SCOV/internals`: `rnexpanders`, `lnexpanders`, `tfiles`, `cnotes`, `segments`, `stags`) | current block, counts, notes read | one step per line | a report that is truncated or has lost or repeated lines |
| Check of expectations (`driver.py`) | emitted notes and what they discharge | `try_sat_over`, `process_xkind` | greedy matching, fuzzy blocks, weak notes, separation tags |
| Expansion of expectations (`xnexpanders.py`, `xnotep.py`) | groups, controls, last line expectation, open blocks | one step per line of the text, then of each source | state carried from line to line, choices by level and option |
| Test scripts (`tc.py`, `htc.py`, `driver.py`, `SUITE`) | directories shared by levels, drivers and executions; failure count; report; qualification data | to_workdir, instrument, build, run, reports, check, flush | stale files, a failure of any command at any point |
| Driver of the suite (`testsuite.py`) | fragments of tests, test directories that outlive a run | hooks, control, set up, run, tear down, analysis | tests in parallel, hooks and scripts that fail, interrupted runs, files left by earlier runs |
| Report on tests (`STR/genrest.py`) | the status and data files of a suite | load, sort, count | missing and hidden tests, totals |
| Qualification kits (`src/qualification/genbundle.py`) | a work directory kept between invocations | clone, model, documents by format, zip, consistency log | resumed invocations, commands that fail, results of another level |
| Selection and import of testcases (`src/qualification/qm`: `genmodel.py`, `template.xml`, `importers.py`) | the model of a level; the log of testcases without results, in the clone | choice of chapters and sets for a level; import of artifacts | the level of the model and the one the testsuite ran at |
| Levels, tags, options; reports; files table; driver; adapters; disassembler binding | see PROJECT.json | | input and output around the others |

### What makes each part correct

* **Decision BDD.** While a decision is scanned, every operand still to come has exactly one place to go to;
  once it is complete, no forward reference is left and there is no cycle; path indexes and evaluations are
  in bijection; the multipath flag, on which the tool bases both "branch coverage is enough" and the
  inference of values, is exact; statically known conditions remove exactly the evaluations that cannot happen.
* **MC/DC.** The evaluations of a decision form a set under a total order; a pair accepted as showing the
  independent influence of a condition does show it.
* **Source coverage.** The evaluations recorded are those of the program, whatever it abandoned.
* **Trace database.** Whatever the order, the overlaps and the repetitions of traces, it knows exactly which
  addresses were executed and which directions branches took.
* **Object coverage.** The state of a line or routine is a function of what its instructions did, and not
  of the way traces were cut.
* **Checkpoints.** The outcome of a consolidation does not depend on the order of the loads; data always
  relates to the SCO it was recorded for.
* **Design prototype.** It numbers the evaluations as the tool does.
* **Verdict of a test.** It passes exactly when the notes that the tool emitted and those that the test expects
  explain each other, and what a damaged report has lost is a failure.
* **Expectations.** Each note stated by the text of a test is looked for, in the source, at the place and at the levels
  it is stated for.
* **Test scripts and suite.** A result is about the programs, traces and reports of this execution, at its level;
  PASSED means that all was checked; every test has a result; data kept for qualification come from one run.
* **Report on tests, kits.** The overall status is that of the tests; a kit is of one level and one set of artifacts.
* **Run-time library.** The bits set are those of the evaluations that were completed.

## 2. Modules

| Module | Models | Uses |
|---|---|---|
| `DecisionBDD` | construction of a BDD, entry by entry, and `Enumerate_Paths`, call by call | |
| `DecisionPaths` | accessors of a completed decision, against the short-circuit semantics of the expression | EXTENDS `DecisionBDD` |
| `MCDC` | order, pairs and state of evaluations | EXTENDS `DecisionPaths` |
| `ExecutedCode` | abstract: what a trace database promises | |
| `TracesDbase` | `Add_Entry`, call by call | implements `ExecutedCode` (`Code`) |
| `ObjectCoverage` | `Set_Insn_State`, states of lines and routines | EXTENDS `TracesDbase` |
| `EvaluationStack` | a traced program and the evaluation stack that follows it | |
| `MergedCoverage` | abstract: what consolidation promises, in terms of obligations | |
| `Consolidation` | runs of the tool, their numbered tables, checkpoints saved and loaded | implements `MergedCoverage` (`Promise`) |
| `IndexedDecision` | the design prototype of path indexes, against the tool's BDD | EXTENDS `DecisionPaths` |
| `CoverageNotes` | kinds of notes, sections, separation tags | |
| `ReportNotes` | the text report and its reading, line by line | EXTENDS `CoverageNotes` |
| `NoteMatching` | comparison of emitted and expected notes | EXTENDS `ReportNotes` |
| `Expectations` | both passes over the expectations of a test | EXTENDS `CoverageNotes` |
| `TestScript` | abstract: what a script promises to the driver of the suite | |
| `TestWorkflow` | one execution of a test script | implements `TestScript` (`Script`) |
| `TestSuite` | successive runs of the suite | its scripts do what `TestScript` says |
| `TestReport` | the report on the tests of a suite | |
| `QualificationKit` | successive invocations of `genbundle.py` | EXTENDS `TestReport` |
| `DecisionBDD_proofs`, `ObjectCoverage_proofs`, `EvaluationStack_proofs`, `Consolidation_proofs`, `TestWorkflow_proofs`, `TestSuite_proofs`, `QualificationKit_proofs`, `DecisionPaths_proofs` | theorems and proofs | each EXTENDS the module it is named after; the first is about `DecisionPaths` too, the second about `TracesDbase`, and the last one about `MCDC` and `IndexedDecision` |
| `MCDecision`, `MCObjectCoverage`, `MCEvaluationStack`, `MCConsolidation`, `MCTestVerdict`, `MCExpectations`, `MCTestWorkflow`, `MCTestSuite`, `MCQualificationKit` | instances for TLC | |

Definitions preceded by a comment that starts with "Defect" (or "defect") are variants of the one that follows them, with
a plausible error. No specification uses them; they serve to show that a property notices that error.

`ObjectCoverage` composes the trace database with the analysis that splits its entries again;
`DecisionPaths` and `MCDC` compose the construction of a decision with everything that is read off it.
`Consolidation` composes the tables of `sc_obligations`, `coverage-source` and `traces_files_registry` along one
stream. `EvaluationStack` is independent of `DecisionBDD`: it takes the successors of conditions as a constant, as
`coverage-source.adb` takes them from the completed BDD through `decision_map`.

The testsuite is composed along the verdict of a test: `NoteMatching` runs `ReportNotes` to its end, then compares;
`TestWorkflow` has the outcome of a check as a choice, and says which artifacts it is about; `TestSuite` has the
execution of a script as a choice among what `TestScript` allows, which is what `TestWorkflow` is shown to implement;
`QualificationKit` packs what `TestReport` makes of the directories of a suite.

## 3. Correspondence with the code

PROJECT.json gives the lines of every definition. The main choices are these.

**DecisionBDD.** The state is that of `Process_Low_Level_Entry` for one decision: `sco` and `vec` are
`SCO_Vector` and `BDD_Vector` restricted to it, `arcs` is `Arcs_Stack` with its top first, `bdd` the record
under construction. Ids are positions, and 0 stands for the `No_..._Id` constants. `ProcessNot`,
`ProcessBinary` and `ProcessCondition` are one low level entry each; the last condition also runs
`Completed` up to the first call of `Visit`, in the same action as in the code. `Visit` is recursive and
its memo table, the BDD and the parents change between a call and its return: it is modelled as a stack
machine, `frames`, with a step per call, per edge of the loop over the two destinations and per return.
Source locations, and the consistency checks on what producers emit, are left out. `MaxConditions` and
`MaxNots` bound the decision in the guards.

**DecisionPaths, MCDC.** Pure operators on the final state. The reference semantics (`Value`, `Evaluated`,
`ReferenceEvaluation`) reads only the operands of the SCOs, never the BDD. `PathIndex` is what the condition
witnesses of the run-time library compute, `ConditionValues` the decoding of a path index.

**TracesDbase.** `entries` is `Base.Entries`. `Add_Entry` calls itself for the parts of a trace that lie
before and after the entry it conflicts with, *then* replaces that entry, which it captured before the
calls. `calls` is the stack of what remains to be done: an "add" is a call, a "merge" what its caller does
after its recursive calls. Each step is a call or a merge. Addresses are `0..MaxPC`. `Conflict` is the
element that a failed `Insert` of the ordered set designates: the comparison functions hold all entries that
overlap the key for equal to it, so that the one found depends on the search of the container; the descent
of the container's `Insert` ends on the greatest of them. The database of an executable and those of its
routines follow the same code, and are one base in the model. `Emitted` is the environment: what the trace
producers write, read off them and off `qemu_traces.ads`.

**ObjectCoverage.** The instructions are a constant (`Insns`), tiled, in place of the disassembler.
`SetInsnState` is one action (the code runs it with no other operation in progress) and may run again on
entries that it has split, as `traces_elf.adb` does once padding is stripped. `GetLineState` is the state of
a line whose code is one range.

**EvaluationStack.** `running` and `completed` are the program: evaluations in progress, with the calls that
nest them, and those completed. `stack` and `recorded` are the tool. A conditional branch is one step of
both (`ConditionTested`, `OutcomeReached`, `RaiseFromCheck`); a call, or an exception raised by code that
has no conditional branch, is a step of the program only (`StartEvaluation`, `RaiseInCall`). An exception
that is handled abandons the `n` innermost evaluations. `UnknownOutcomes` are the edges whose outcome
`decision_map` could not identify. `HandledInside` tells whether exceptions may be handled *within* an
evaluation in progress, for instance by a function that a condition calls.

**Consolidation.** The variables `cu`, `sco`, `bdd`, `inst`, `annotations`, `sci` and `files` are the tables of one run of
the tool, numbered as that run met its units; `saved` are the checkpoints, which are copies of them. A run loads
SCOs and processes traces (`LoadSCOs`, `ProcessTrace`), then loads checkpoints one after the other, then may save
one and ends: this is the order of `gnatcov_bits_specific.adb`. Loading is cut into steps where the code
goes from one table to the next: one action per unit (`LoadNewUnit`, `MergeUnit` and `SkipUnit` are the three cases of
`Checkpoint_Load_Unit`), the annotations, the coverage, the trace files. `relocs` is `CLS.Relocations`. What a SCO refers
to (parent, operands, dominant) is one set `refs`, as all of them are relocated by the same `Remap_SCO_Id`.
`Raise` is an exception that nothing handles: the run ends and saves nothing. The model is that of a production
build, in which `pragma Assert` is not evaluated: an exception is that of an index check. `sci` holds the statements
executed and the outcomes taken, by instance tag; the outcomes of one decision are merged or not together, as in
`Merge_SCI`. `MergedCoverage` has no identifiers: `Obligation` reads an identifier as the version of a unit, the
rank of the SCO in it and the rank of the instance.

**IndexedDecision.** Expressions are the SCOs of `DecisionBDD`. `compute_edges` is recursive with the destinations as
arguments: `Destinations` is that argument as a function of the expression, `FirstCondition` what the call
returns, `Substituted` the replacement of placeholders. The generated code is evaluated (`AdaEvalCode`, `Call`), not
printed.

**CoverageNotes, ReportNotes.** Notes are records (kind, section, separation tag). The text of the report is a sequence
of lines, each the class of lines that the reader's expressions tell apart, with the count or note it
carries: `Rendered` is what `annotations-report.adb` writes for the violations found, and `Damaged` adds the reports in
which one line is missing, repeated or unreadable, and those that are cut anywhere. The actions are the branches of one
iteration of the reading loop (`StartBlock`, `EndBlock`, `ParseEnote`, `ParseSummary`, `SkipLine`) and the final check;
`starts` and `ends` are the counts that `start_hits` and `end_hits` are read for. An exception is `reading = "aborted"`.

**NoteMatching.** One source, one category, one level. `Candidates` are the emitted notes that may discharge an expectation
(`try_sat_over`), in the order of the code, of which the first is taken. The kinds of expectations are processed one
after the other, each to its end, as `process_xkind` does, which starts each time with nothing satisfied.

**Expectations.** A line of the text is a record of what the expander's expressions extract from it. The first pass is
one action per kind of line (`ParseSources`, `ParseCtl`, `ParseLX`, `ParseContinuation`, `IgnoreLine`), the second
`ProcessTline`, for each line of each source. The levels and controls that choose among alternatives are evaluated as in
the code. What a source line holds that the expressions may find is a set of anchors. A stop of the test and an exception
are the outcomes "stop" and "crash".

**TestWorkflow.** `step` is where `SCOV_helper.run` is, `levels` and `pos` where `TestCase` is in its two
loops. A directory holds a program, SCO files, traces, a checkpoint and a report, each known by the build or the level it
is from; those of an earlier execution are there at the start. An external command succeeds, fails, or prints,
as it pleases. `step = "raised"` is an exception on its way to the handlers of `TestCase.run` and `thistest`.
`checked` is a history variable: what was compared, with the artifacts it came from.

**TestSuite.** `stage` is the fragment each test is in; tests interleave. Files are tagged with the run that wrote
them. A script is external: it opens its report, writes data and a verdict, exits or is killed, as `TestScript` allows.
A run may be interrupted at any point, and the next starts with what it left.

**TestReport, QualificationKit.** The report is a function of the directories of a suite and of the level
(`QDreport`), with the exceptions that end its production (`NoReport`). An invocation of `genbundle.py` is a sequence of
steps, one per method called by `build_as_needed`; each may fail, and the next invocation finds what it left. `Testcase` is what
the tree says of each test directory: the chapter it is under, whether it is a testcase of the requirements (a `tc.rst`), and the level
that its set is local to, if it is; `Imported` are the testcases that the model generated for a level makes the Qualifying
Machine find, and `clone.missing` the log that the importers clear and fill while the TOR is built. Between two
steps of an invocation nothing changes outside; between invocations the testsuite may be run again and the artifacts
get a new version. The stamps of kits, which are dates, are all the same: the hardest case.

## 4. Runs, bounds and what they show

| Run | Question | Bounds |
|---|---|---|
| `decision` | do the invariants of the proof hold at every step; does the design prototype agree; are BDD, path indexes, multipath flag, inferred values and static outcomes right; do accepted pairs show independent influence, is the order total, is branch coverage enough exactly without multipath conditions; does the enumeration end? | 4 conditions, each dynamic, True or False; 1 NOT |
| `object_lines` | do entries stay disjoint, do captured entries survive the recursion, is what is executed recorded exactly; are instructions never cut, are states of lines exact? | 7 addresses, 6 instructions, a plain branch and a two-byte one with a delay slot; six kinds of operations |
| `object_routine` | (violation) is a covered routine covered? | 7 addresses |
| `evaluation_history` | are the evaluations recorded those of the program? | 2 decisions of 2 and 3 conditions, 3 evaluations in progress, 3 abandoned |
| `consolidation` | do units keep their shape, is the coverage of obligations merged exactly, over two generations of checkpoints? | 2 units, one in two versions; 2 checkpoints, 2 loads per run |
| `consolidation_exemptions` | (violation) do the exemptions of a unit follow it? | 2 units |
| `test_verdict` | is a damaged report noticed, is an intact one read, does a check pass exactly when notes explain each other (where a fuzzy block has one kind of them)? | reports of 2 violations, 2 expectations, listings of 2 lines, 4 levels, 3 categories |
| `fuzzy_blocks` | (violation) is an unmatched expectation of a fuzzy block tolerated once a similar one is satisfied? | those of `test_verdict` |
| `expectations` | are the notes those that the text states, is it rejected only if wrong (or for blanks around a bar)? | texts of 5 lines, 2 sources, 2 levels, lines of sources with and without blanks around the bar |
| `test_workflow` | is what is checked of this execution and level, does PASSED mean all was checked, are data dumped, does the script implement `TestScript`? | 2 drivers, 2 consolidation specs, 13 sets of options, 2 failures |
| `testsuite` | are results and data of one run, does every test get a result? | 2 tests, 2 runs, 8 command lines |
| `qualification_kit` | is the report truthful, is a kit of its invocation, is a new consistency log exact? | 4 tests, one of which is no testcase of the requirements and one is local to level B; 2 trees; 2 invocations, 9 command lines at levels A, B and C |

*Why the bounds are enough.* Three conditions make every shape in which a node is shared, four make a shared
node below another one, nested operators of both kinds on either side and jumps to jumps; a NOT makes the two
destinations swap at any level. Three values per condition give every mix of static conditions. Six instructions
let a trace overlap two entries with a gap before, between or after them, which is the deepest recursion of a
call that is not a repetition of itself, in a code where a line can contain a gap between two entries and a branch
at either end, with and without a delay slot. Traces are those that instructions can emit; the theorems about `TracesDbase`
hold for any ranges. Three evaluations in progress of a recursive decision, with three stale ones, let a stale evaluation of
the same decision lie under, between and above those in progress. `MaxStack` is a guard on abandonments only:
no step of the tool is cut. In `consolidation`, one unit has a decision with two BDD nodes, another two nested
instances, and the third is a version of the second: a checkpoint may hold units in either order, all, some or
none of which are known to the run that loads it, in the same version or not; a checkpoint of the second
generation has been renumbered once already. `MaxOwn` is the number of runs that have SCOs and traces of their
own, `MaxCovered` the number of SCOs their traces cover: merging treats each SCO separately.

In `test_verdict`, two violations make the order and the sharing of emitted notes matter, and every line of a report is
in turn the last, the missing one or the repeated one; the expectations have every kind of thing that changes the
matching: a line or a part of it, a tag that covers one or both of the emitted ones, a weak note, a fuzzy block, an
exempted region, no note at all. In `expectations`, three lines after the sources are enough for a control, a line
expectation and a continuation in any order, and a second group of sources starts after two. In `test_workflow`, a
directory is used by two levels of two drivers and a consolidation of both, after an earlier execution that used the
same ones; one failure decides the verdict, a second one stands for all others (`MaxFailures`). Two runs of the suite
and two invocations of the kit builder are the least in which what an earlier one left can be taken for something
else; a third finds no other files than a second does, as each file is only known by who wrote it.
`Levels` of `test_verdict` has the four that expectations tell apart.

*Deadlock.* `consolidation` and `consolidation_exemptions` check it: another run of the tool can always start. The other
runs disable the check: a program may stop between two traces, or after its last evaluation, the decision is finished in
phase "done", and a test, an expansion, a script, the last run and the last invocation end.

*Fairness.* `EnumerationEnds` assumes `WF_vars(EnumeratePaths)`. `Enumerate_Paths` is a procedure that
`Completed` calls in the single thread of the tool: once entered, nothing else runs until it returns. No
fairness is assumed of the scan, which depends on the producer of entries. `EveryTestConcluded` assumes weak fairness
of the steps of the driver of the suite, and of those of each test: `e3.testsuite` runs the fragments of a test as soon as
a thread is free, and kills a script that exceeds its timeout, so that a script that does nothing more ends too.
Starting a run and interrupting one have no fairness.

Each property of a passing run is violated by at least one of the defects listed in PROJECT.json.

## 5. Proofs

All proofs are for every value of the constants under the named assumptions of the modules, which TLC evaluates on
the instances of the runs; bounds are arbitrary natural numbers. Each module has an inductive invariant (`IInv`,
`ObjIInv` or `PathIInv`), in a section "Why they hold", and its proofs in a module of their own: one lemma per action, then
`Invariance`, then the properties.

| Assumption | What it says, and why the code justifies it |
|---|---|
| `BoundsAssumption`, `CodeAssumption` | the bounds of decisions and of addresses are natural numbers; `BranchEnds` and `Ops` are any sets of addresses and of flags |
| `InsnsAssumption` | instructions tile the code, as a disassembler that starts where the previous one ends cuts it; the delay slot of a conditional branch exists and is no conditional branch, as `traces_elf.adb:3455-3456` says |
| `UnitsAssumption` | the SCOs of a version of a unit refer to SCOs, nodes and instances of the same version; a decision has the nodes of its conditions |
| `ProvidersAssumption` | coverage is separated by instances or not at all; tags by routine cannot be loaded from a checkpoint and are not modelled |
| `SuccessorAssumption` | what the completed BDD gives: an edge leads to an outcome or to a later condition (`ForwardEdges`, itself proved) |
| `TestsAssumption`, `NamesAssumption`, `OptionsAssumption`, `TreeAssumption`, `SuitesAssumption` | the types of what the command line, the file system, the opt files and a run of the testsuite give; the directories of two drivers differ (section 6) |

**DecisionBDD_proofs** proves `Spec => []IInv` (`Invariance`) and, from it, `TypeCorrect`,
`JumpsAreResolved`, `EdgesLeadForward` and `PathsPartitioned`. None of the four properties is inductive:

* `JumpsResolved` says where operands go; that a jump is never lost needs `ArcsLeadDeeper`: the destinations
  of an operand are exits or the jump of an operand *deeper* in the stack, so that when it is popped its
  origin is referenced only by conditions already allocated.
* `ForwardEdges` holds after `Completed` only. During the scan it is `ConditionsLeadForward`: a condition
  leads to an exit, or to a jump that is not resolved, or that is resolved with a later node. When the
  stack is empty all jumps are resolved, and patching yields `ForwardEdges`.
* `CountsAdditive` reads counts of other nodes when a call of `Visit` returns. `FramesNested` describes the
  pending calls: each is made along the edge that its caller has just moved past, edges already passed are
  counted, and the nodes of the calls decrease towards the bottom, from `ForwardEdges`; hence a count that is
  read is final, and a node is never visited again while it is being visited. `CountedNodesAdditive`
  carries the result.

Two more invariants say what the construction leaves for the proofs about paths:

* *The BDD has the shape of the expression* (`PathIInv`, an invariant of the construction). `TreeGrows`: the SCOs make a tree whose
  missing operands are those that the arcs wait for; `NodesNumbered`: conditions and their nodes are numbered alike;
  `Shaped`: there are, for every SCO, the destinations `d` that its values lead to and the jump `o` that stands for it, related
  as `Process_Operator` relates them (`Skeleton`), and the nodes and jumps of the table are these (`Reflects`). The witnesses are
  quantified, since popped arcs are no longer in the state; TLC could not enumerate them, so this invariant is in no run.
* *Visit leaves a trace of its walk* (`VisitsTraced`, inductive together with `PathIInv`: `VisitInvariance`). `CallEntered`: the node of a
  call that starts is where the edge of its caller leads; `ParentsPassed`: a visited node has as parent an edge that a caller
  has moved past, and is never entered again along it; `OutcomesMarked`: an outcome is marked when it has paths, and only then;
  `TargetsVisited`: an edge moved past leads to a visited node, the parent edge of it as long as there is no multipath
  condition; `MultipathFound`: the multipath condition has a second edge into it. TLC finds `VisitsTraced` an invariant of the
  instance of run `decision` (a run of its own would repeat the question that the three properties ask).

**ObjectCoverage_proofs** proves, of `TracesDbase`, `Spec => []IInv`, `DisjointEntries`, and `Refinement`: `Spec =>
RefinesExecutedCode`. The difficulty is that a merge uses an entry captured before recursive calls that
change the set. `CapturedEntriesKept` says that it is still there; it is inductive only with `CallsApart`
(pending calls are about disjoint addresses, the entries captured by merges included, and no entry reaches
from one "add" to another) and `EntriesDisjoint`: a call only touches entries that overlap it, and these
are nobody else's. `BranchesLast` and `NewOutcomesRecorded` serve the refinement: a trace that only brings
a new direction merges it into one entry, which is the one that contains the branch, because the trace and
all entries end with it. The refinement mapping counts what pending calls will add as already there, so that
reading a trace is the abstract step and all the steps of `Add_Entry` stutter; the key lemma replaces one
item (entry or call) by others with the same addresses and flags.

Of `ObjectCoverage` it proves `WholeEntries` (`EntriesWholeInsns`), `LinesExact` (`LineStateExact`) and `ObjRefinement`: the
database still refines `ExecutedCode` when `Set_Insn_State` splits its entries. `ObjIInv` extends the invariant of the
database: before the analysis, what overlapping traces are cut into is like traces (`AsEmitted`: whole instructions, a
branch together with its delay slot, a direction for the branch they end with), calls included; after it, an entry is one
conditional instruction with its state or has none (`EntryAnalyzed`), and `EntriesAnalyzed` adds that the directions of an
instruction are those of the entry of its delay slot. `Get_Line_State` accumulates states over entries in order of
address: `LineScan` is a recursive function; the proof gives a closed form of it (`NoCode`, `Covered`, or
`PartiallyCovered`, according to the entries that end below an address), and shows that it satisfies the equation and
that nothing else does.

**Consolidation_proofs** proves `ShapesKept` (`UnitsKeepShape`) and `ConsolidationExact`: `Spec => RefinesMergedCoverage`, for any
units, tables and sequences of runs. The one hypothesis is `NothingRemoved`: a unit with a removed SCO breaks both (section 6).
`UnitsKeepShape` speaks of one unit at a time, and is not inductive. `IInv` has three parts:

* `WellFormed`, of the tables and of every checkpoint: they are concatenations of units. `UnitAt(t, c, n)` says that unit `c` is at its
  place what loading its SCO file would give, where its nodes follow node `n`; no table says where that is, so `n` is quantified.
  `OriginsRight` gives an identifier its unit and an instance tag the unit of its SCO, without which `Obligation`, the refinement
  mapping, would not be defined; `UnitsOnce` says that two units of a table are never versions of the same one.
* `RelocsRight`, while a checkpoint is loaded: each unit met so far has its counterpart in the tables, and `UnitMapped` says
  that its SCOs and instances have those of the counterpart, rank by rank, or nothing when the versions differ. It speaks of the
  units to come too: they are mapped to nothing yet.
* `LoadInProgress` ties these to the phase; what is loaded has been saved.

The step that adds a unit (`LoadNewUnit`) numbers what is kept of it with the ranks of a set: the proof shows that without removed SCOs
the set is an interval and its ranks a shift, then that relocation by a shift commutes with placing a unit, and that tables which
grow leave the units already there where they are. For the refinement, an obligation of the run or of the checkpoint is recovered from the
relocated identifier: ranks within the unit are kept, and a unit without counterpart has no identifier.

**EvaluationStack_proofs** proves `TopIsCurrent` (`PendingOnTop`) and `HistoryExact` (`RecordedExact`) where the tool can
follow the program at all, which `Followed` says: exceptions leave all evaluations in progress or are raised by a check in
a condition that is not the first, and a nested decision has identified outcomes. The first two exclude what section 6
reports as errors of the tool; without the third, the evaluation that is left on the stack is the one that the caller takes
for its own. Abandoned evaluations then stay below, and `StackAhead` is what keeps them there: none of them waits for
a first condition, so that none is taken for an evaluation that starts.

**TestWorkflow_proofs** proves `ScriptInvariance`, and from it `PassedSound`, `EntriesAlwaysDumped` and `Refinement` (`Spec =>
ScriptImplemented`: liveness is no part of what `TestScript` promises); then `Invariance`, with `OwnArtifactsOnly`
(`ReportsFromOwnArtifacts`). The second needs to know where every file of every directory comes from at each step:
`ProgramsPlace` (programs are those of the first level), `OwnProgram`, `OwnTraces` (at most one trace in the directory of a
driver, of its program and level), `SpecAlone` (a consolidation spec that matches a single driver works in the directory of
this driver, which it empties: it never gets to a check) and `InHand`. The proof also found that two guards of a
CASE of the model overlapped; they are disjoint since.

**TestSuite_proofs** proves `VerdictSound` and `QualificationDataTogether`. `StageOf` ties the stage of a test to its control,
its script and the run that wrote its files; `DataTogether` is inductive with `DataOf` and `ContextDumped`.

**QualificationKit_proofs** proves `KitOwnParts`, `FreshLogSound` and `KitReports` (`ReportTruthful`). A kit is assembled in passes over formats and parts,
over a work directory that earlier invocations left: `Dated` says that nothing in it is from an invocation to come, and that
a part that is not asked for is older; `PartsDone` says which parts are built, moved or packed at each step; `CloneMatched`
what the clone has of the results once the TOR is built. The report is made of sums, folds over sets listed in some order:
a fold is shown to exist and to go through the list step by step (`IterationExists`, `SumSteps`), so that a sum over tests
counts these tests and their notes whatever it had counted before (`Counted`, `SumOverCounted`). Category after category, the
total then counts what is shown (`TotalCounted`): an internal category is left out if and only if all its tests are hidden ones
(`CategorySkipped`), and no test that failed is.

**DecisionPaths_proofs** proves what is computed over the BDD of any decision: `PathIndexDecodes` (`PathIndexRoundTrip`),
`PathsCounted` (`PathCountExact`), `MaskingPairsSound`, `UniqueCausePairsSound`, `EvaluationsOrdered`
(`EvaluationsTotallyOrdered`), `StaticOutcomes` (`StaticOutcomesSound`), `InferredValues` (`InferredValuesSound`),
`MultipathFoundExactly` (`MultipathExact`), `BranchCoverageEnough` (`BranchCoverageImpliesMCDC`) and `DesignAndToolAgree`
(`PrototypeAgrees`). They rest on the two invariants that end **DecisionBDD_proofs**; the argument has five parts.

* *Following it computes the expression.* An induction over SCOs, from operands to operators, shows that from the first
  condition of a subexpression, the conditions followed are those that the short-circuit semantics evaluates, up to the
  destination for its value. Recursive functions over nodes are shown to exist by recursion on a rank (outcomes first, then
  nodes downwards), from `ForwardEdges`.
* *Consequences.* Offsets and counts partition the indexes at each node, so that an index decodes into the path it was accumulated
  on, and each index below `Path_Count` is that of some valuation: a bijection with the evaluations, hence the count. Two
  valuations that agree on what one evaluates have the same evaluation (`Agreement`), and changing a condition that is
  evaluated changes nothing before it (`PathThrough`): these give the pairs of MC/DC. `EvalLess` is the lexicographic order of
  vectors of integers, where a missing value is less than any (`LexicographicOrder`).
* *The nodes Visit found are those that evaluations reach.* `Reaches` says that the path of a valuation goes through a node;
  paths compose (`ReachOn`), have a last step (`Predecessor`) and go up in the numbering of conditions (`ReachOrder`, `ReachUp`).
  A counted node is reached along its parents: changing one condition redirects a path at that node and nowhere before
  (`EdgeReached`). Conversely a path follows edges that Visit took, to counted nodes. So marked outcomes are those of
  evaluations; with no multipath condition, the path into a node is that of its parents, which Infer_Values climbs; and two
  edges into a node carry evaluations that differ before it, at the later of the two conditions they leave (`EdgesDiffer`).
* *Branch coverage and MC/DC.* `Leads` is `Reaches` along the path of a valuation; a path depends on the conditions between
  its ends only (`LeadsBetween`), so that paths of several valuations can be put together. An induction over SCOs shows that
  every condition can be evaluated, and that its two values lead to different nodes (`ConditionsReached`). With no multipath
  condition, what is evaluated before the last branch of a path is known from that branch: evaluations that take every branch have,
  through each condition, both of its values and both outcomes, and two that differ in both vary in it only (`ShowsOnly`).
  With one, two edges into a node show a short-circuit operator whose left operand decides it on the way to that node
  (`EdgeDecided`: otherwise both edges leave the last condition of the same operand). The least such operator gives a
  `Diamond`: a condition of which one value leads to the node and the other to it or past it, where it can go on to as well.
  `Kept` is then a set of valuations that takes every branch, in which a single one takes the short side, and it shows
  nothing with the others (`NothingShown`).
* *The design computes the same BDD.* The design goes down from the root with two destinations, where the tool goes up from
  operands and patches arcs. The condition that its subexpression starts with is that of the node where the tool's starts
  (`FirstConditions`), and the destinations it passes down, once its two outcomes stand for True and False, are those that the
  values of the subexpression lead to (`DestinationPlaces`); so the edges are the same (`EdgesNamed`). With no static
  condition Visit counts every node (`AllCounted`), and then counts and offsets are equal (`CountsAgree`, `DesignBranches`).
  The conditions of a path are distinct (`FromNode`), so that the tests of a node can be given as parameters to what follows:
  run from that node, the code adds the index of the path to the one it was given (`CallAgrees`), and the i-th test adds
  i - 1 (`TestsReturned`).

*Only model-checked.* Liveness (`EnumerationEnds`, `EveryTestConcluded`). The properties of `ReportNotes`, `NoteMatching` and `Expectations`, whose definitions are filters of sequences
(`SelectSeq`), of which the provers know nothing. All other invariants of the runs
are both checked by TLC and proved. (Induction over data is within reach where its instance is stated as a set of
counterexamples with a least element: `LineScan`, and the functions over a BDD, were proved so.)

## 6. Divergences between the code and what is said of it

Three runs refute a statement of the repository; PROJECT.json quotes the lines.

* `object_routine`: a routine whose last instruction is one byte long and was not executed is reported
  covered, because of a strict comparison with its last address.
* `consolidation_exemptions`: `Checkpoint_Load` relocates the unit of a copy of an annotation and inserts the original;
  when the result is saved and loaded again, the exemption may be dropped, or be inserted twice (an exception).
* `fuzzy_blocks`: `src/testsuite/SCOV/internals/driver.py:317-318` resets what is satisfied with each kind of notes, where
  comments (275-276, 290-292) speak of fuzzy blocks as a whole: an unmatched expectation is not tolerated when only one of another
  kind of its block was satisfied, though similar. The properties of `test_verdict` follow the comments; `FailureMeansUnexplained`
  has the hypothesis `FuzzyBlocksUniform`, that expectations of a block which are similar have the same kind.

The following were met while the modules were written, and no run is about them. The modules do what the code does; where
the code departs from what is said of it, the passing runs either leave the case out or have a property that does not
look at it, as said here.

In the tool:

* An exception handled inside a function called by a condition leaves the evaluation it abandons on top of the stack: an
  evaluation is then recorded in which a condition that was evaluated is Unknown (`coverage-source.adb:1836`, against
  `mc_dc.ads:43-44`). A check that fails in a *first* condition deletes the evaluation of the caller, as the failing one is
  not on the stack yet (`coverage-source.adb:1450`, against the comment at 1441). `MCEvaluationStack_history.cfg` excludes
  the first by `HandledInside = FALSE`, and has no raise in a first condition.
* The SCOs of a unit that is skipped for a mismatch are neither mapped nor marked ignored, so that its coverage
  ends the run with an exception, or a failed assertion in a development build (`sc_obligations.adb:1014-1016`,
  `coverage-source.adb:560`). `Consolidation` has it (`Raise`); the run then saves nothing.
* Coverage that cannot be merged is left by a return that precedes the reading of the list of units; trace files are
  then read from the wrong place of the stream (`coverage-source.adb:546-551`). The model gives the two outcomes that do not
  depend on the bytes found there: none is found, or an exception.
* Removed SCOs are left out, while references and the last SCO of the unit are shifted as if they had been appended
  (`sc_obligations.adb:821-824`, 941 and 760, against 178-182). No unit of `MCConsolidation` has one,
  and `Consolidation_proofs` assumes `NothingRemoved`.

In the testsuite (paths under `src/testsuite`):

* `testsuite.py:646` latches the status of a test before the analysis that decides it (723-733): the status kept for
  qualification is the initial ERROR, with `passed` False, where `SUITE/qdata.py:12-14` says it holds the overall
  status. `STR/genrest.py:270-275` knows the names OK, UOK, XFAIL and FAILED, of which `testsuite.py` only uses XFAIL: any
  other raises KeyError. `TestReport` keeps genrest's names, so that the report is one on statuses it can read.
* A status file may be older than the data file of its test (a post-testcase hook that fails), against
  `testsuite.py:472-475`: `StrDataTogether` only asks that it is not newer. The header (`testsuite.py:80-81`) says that
  tests are restricted to those of the qualification level: no test is skipped for that. The comments on the cleanups
  want their failures seen (635-637: they may alter the status; 835-838: exceptions of rm are turned into test failures), but
  what they set, `passed` and `status` of the runner, is not what the analysis looks at: it is the output of the script, and the
  result does not tell. `VerdictOfThisRun` takes no side: it allows a failure where a cleanup left something (`LeftOver`).
  The context of a qualification run is dumped
  before the configuration, which may abort. Tests that a group script generated in an earlier run are run
  again (895-898).
* A report that is empty, or cut before its first block, is read as one without notes (`rnexpanders.py:130-142`, 519-528):
  `NothingLostSilently` (`HasBlocks`) and `PassMeansExplained` (condition "blank") exclude it.
* In a harness test, one diagnostic may match two of the expected ones, so that PASSED hides a failure
  (`SCOV/htc.py:46-49`, 63-77): this is why `PassedMeansAllChecked` says nothing of failures for them.
* `xnexpanders.py:1310` compares a string with the objects of a list, so that the mix of "0" with other notes is not
  refused (comment at 1302-1306); `__expose` overwrites the notes of a source that several groups name (738-739); "+#"
  extends a line expectation of an earlier group, or raises when there is none (852). The lists of sources and of notes of the
  grammar have blanks around their bars (86), and a list is split at the bar alone (1036-1041): the name after the blank is
  empty, and the text is refused. `RejectedOnlyIfWrong` has this as its one named exception (`BlanksAroundBar`).
* `driver.py:858` strips a set of characters where a suffix is meant (`rstrip(".xcov")`); `strictest_cat_for` (935-943)
  has no entry for the level `stmt+uc_mcdc`; directory names are made by stripping the first "test_" (655-661), so
  that two drivers could share one, which `NamesAssumption` excludes.

In the qualification of the tool:

* `STR/genrest.py` raises KeyError on an expectation about decisions in a level C run, whose tables have no such column; a
  category said to be internal is hidden unless it has failures.
* `genbundle.py:894-899`: to rebuild a kit without the STR and without `--testsuite-dir` fails once its archives are made, when the
  local copy of the testsuite, which there is not, is to be packed: it then has no consistency log. The archive of a kit is added to if
  it exists (888): one of html pages keeps those of earlier builds that the new ones have not (`stale`), which `KitOfInvocation` lets be.
  A testcase of a set that is local to a level (`genmodel.py:24-42`) is imported for this level only, where `testsuite.py:118-150`
  runs all those of a chapter: `FreshLogExact` is about those the level requires (`Required`). A clone that is reused keeps the results of earlier testsuite directories (570-588), which is why
  `FreshLogExact` is about new clones. A kit that is rebuilt keeps parts of other levels or artifacts: `KitOfInvocation` is
  about those that were asked for.

## 7. Not modelled

* `decision_map`: its input is what compilers emit; the quality of its heuristics is not a property of
  states. Its result is a constant of `EvaluationStack`.
* Parsing (ELF, DWARF, PE, LI files, trace formats), reports other than the order and the counts of the text one,
  options, project handling, process execution: pure input and output.
* In `EvaluationStack`, the passing run has no exception handled within an evaluation (`HandledInside`), and no check
  that fails in a first condition: section 6 says what the tool does of them.
* In `TestWorkflow`: switches, project files and the `--subdirs` of instrumentation; scripts that do not use
  `TestCase`. In `TestSuite`: options that only reach scripts, consoles, the toolchain's configuration beyond its failure.
  In `TestReport` and `QualificationKit`: layout, sphinx, git beyond the version that a clone has.
* What the importers of `src/qualification/qm/qm_plugins` make of artifacts, except for the log of testcases without results. The
  model of the Qualifying Machine (`template.xml`) also has a reader of requirement sets under any chapter; what it makes of a set that
  the readers of the level leave out is up to that external tool, and `QualificationKit` goes by the stated intent of `genmodel.py`,
  "so only the language/criterion sections of relevance are included".
* `scripts/decision_cfg.py` and the other developer scripts,
  `SCOV/expgen` (generator of test sources), the trace decoders of `SUITE`, the wording of all outputs.
* Overflow of `Path_Count`, a 31 bit number that may double with each operator: a decision large enough is
  out of reach of TLC. The hazard is listed.
* The wrap of the last address of an entry of size 0 at address 0 (`traces_files.adb:639`): `Emitted` traces start in
  code.
* A fault between a conditional branch and its delay slot, excluded by `WholeInsns`: no trace producer of
  the repository is known to emit it. The hazard is listed.
* In `Consolidation`: source file indices and their relocation, ignored files, the list of units of interest, the
  `Has_Code` flags, evaluations for MC/DC (relocated as the outcomes of their decision are), the check of
  coverage levels, the older versions of the format, and tags by routine, which cannot be loaded at all. To load the LI
  file of a unit that is known already changes nothing (`Allocate_CU`). The passing run has no removed SCO and no
  exemption: section 6 says what these break.
* Tasks of the traced program over the evaluation stack: the traces carry no task identity, so that the
  single stack follows one thread of control only. The hazard is listed.

## 8. Plan

In this order, the most important behaviour first; items 1 to 9 are done, and 12 in part.

1. `DecisionBDD`, `DecisionPaths`, `MCDC`: every MC/DC result depends on them.
2. `ExecutedCode`, `TracesDbase`, with the refinement: every object coverage result depends on it.
3. `ObjectCoverage`: the analysis over the database.
4. `EvaluationStack`: full history.
5. `MergedCoverage`, `Consolidation`: save and load of checkpoints; the union of what each run covered.
6. `IndexedDecision`: the reference that the design gives for the numbering of paths.
7. `CoverageNotes`, `ReportNotes`, `NoteMatching`, `Expectations`: every verdict of the testsuite depends on them.
8. `TestScript`, `TestWorkflow`, `TestSuite`, with the refinement: what a result is about.
9. `TestReport`, `QualificationKit`: what is said of the results.
10. `LineStates`: statement and decision states in `coverage-source`, their propagation and their merge into the
    state of a line (`Compute_Line_State`, `Update_Line_State`); reference: the obligations of the line.
11. `Witness`: the run-time buffers and the MC/DC state variable of a decision under recursion, exceptions
    and tasks; composed with `DecisionPaths` for the decoding of bits.
12. Proofs: done for items 1 to 6, 8 and 9; those of item 7 are left to TLC, for the reason given in section 5.
