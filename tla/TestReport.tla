------------------------------ MODULE TestReport ------------------------------
(***************************************************************************)
(* The test results report (STR/genrest.py): what it reads from the        *)
(* directories of a testsuite that was run in qualification mode, the      *)
(* categories it sorts the testcases into, the counters of each testcase,  *)
(* and the summary with its overall status.                                *)
(*                                                                         *)
(* A suite is what a run left: its context (level, target, board, other    *)
(* tool, reference of its artifacts, version of gnatcov), whether the      *)
(* pragmas file that -gnatec designates can still be read, and its         *)
(* directories.  A directory has a subtree, a status (or "none": no status *)
(* file), maybe a data file, its expected notes and whether each was       *)
(* satisfied (none without a data file).                                   *)
(***************************************************************************)
EXTENDS Integers, Sequences, FiniteSets, SequencesExt

VioColumns == {"nov", "igv", "scv", "dcv", "mcv", "xbv"}
StaColumns == {"passed", "xfail", "failed"}

viocnt_columns_for ==
    [doA |-> VioColumns, doB |-> VioColumns \ {"mcv"}, doC |-> VioColumns \ {"mcv", "dcv"}]

column_for_kind ==
    [k \in {"r0", "r0c", "xBlock0", "sNoCov", "sPartCov", "dtNoCov", "dfNoCov",
            "dPartCov", "dNoCov", "etNoCov", "efNoCov", "ePartCov", "eNoCov",
            "cPartCov", "xBlock1"} |->
        CASE k \in {"r0", "xBlock0"} -> "nov"
          [] k = "r0c" -> "igv"
          [] k \in {"sNoCov", "sPartCov"} -> "scv"
          [] k \in {"dtNoCov", "dfNoCov", "dPartCov", "dNoCov"} -> "dcv"
          [] k = "xBlock1" -> "xbv"
          [] OTHER -> "mcv"]

\* The names of the statuses are those of another driver than testsuite.py.
column_for_status ==
    [OK |-> "passed", XFAIL |-> "xfail", UOK |-> "passed", FAILED |-> "failed"]

-----------------------------------------------------------------------------
(* Loading *)

\* Every directory with a status file.
qdl(suite) == {d \in DOMAIN suite.dirs : suite.dirs[d].status # "none"}

\* The first category that matches is that of the testcase; the last matches
\* all.  The languages reported on are those of the categories in use.
Categories ==
    <<[name |-> "Ada STATEMENT", matcher |-> {"stmt"}, lang |-> TRUE, internal |-> FALSE],
      [name |-> "Ada DECISION", matcher |-> {"decision"}, lang |-> TRUE, internal |-> FALSE],
      [name |-> "Ada MCDC", matcher |-> {"mcdc"}, lang |-> TRUE, internal |-> FALSE],
      [name |-> "REPORT Format", matcher |-> {"report"}, lang |-> FALSE, internal |-> FALSE],
      [name |-> "Testsuite Selftest", matcher |-> {"selftest"}, lang |-> FALSE,
       internal |-> TRUE],
      [name |-> "Others",
       matcher |-> {"stmt", "decision", "mcdc", "report", "selftest", "other"},
       lang |-> FALSE, internal |-> FALSE]>>

trymatch(cat, suite, d) == suite.dirs[d].subtree \in cat.matcher

categorize(suite, d) ==
    CHOOSE i \in DOMAIN Categories :
       /\ trymatch(Categories[i], suite, d)
       /\ \A j \in 1..(i - 1) : ~trymatch(Categories[j], suite, d)

cat_qdl(suite, i) == {d \in qdl(suite) : categorize(suite, d) = i}

languages(suite) ==
    \E i \in DOMAIN Categories : Categories[i].lang /\ cat_qdl(suite, i) # {}

-----------------------------------------------------------------------------
(* Counters: expected and satisfied, per column of violations *)

tcdata_for(suite, d) ==
    [col \in viocnt_columns_for[suite.dolevel] |->
        LET notes == suite.dirs[d].notes
            expected == {i \in DOMAIN notes : column_for_kind[notes[i].kind] = col}
        IN  [expected |-> Cardinality(expected),
             satisfied |-> Cardinality({i \in expected : notes[i].satisfied})]]

ZeroCounters(level) ==
    [col \in viocnt_columns_for[level] |-> [expected |-> 0, satisfied |-> 0]]

augment_by(counters, others) ==
    [col \in DOMAIN counters |->
        [expected |-> counters[col].expected + others[col].expected,
         satisfied |-> counters[col].satisfied + others[col].satisfied]]

\* Each cell of a testcase shows what was expected, and also what was
\* satisfied unless the test passed.
tcdict_for(suite, d) ==
    LET details == column_for_status[suite.dirs[d].status] # "passed"
    IN  [status |-> column_for_status[suite.dirs[d].status],
         cells |-> [col \in viocnt_columns_for[suite.dolevel] |->
             LET cell == tcdata_for(suite, d)[col]
             IN  IF details THEN <<cell.satisfied, cell.expected>>
                 ELSE <<cell.expected>>]]

\* One table per category in use, internal ones excepted.
tctables(suite) ==
    [i \in {i \in DOMAIN Categories : cat_qdl(suite, i) # {} /\ ~Categories[i].internal} |->
        [d \in cat_qdl(suite, i) |-> tcdict_for(suite, d)]]

-----------------------------------------------------------------------------
(* Summary *)

init_data_for(level) ==
    [passed |-> 0, xfail |-> 0, failed |-> 0, counters |-> ZeroCounters(level)]

do_sum(suite, sum, d) ==
    LET sta == column_for_status[suite.dirs[d].status]
    IN  [[sum EXCEPT ![sta] = @ + 1]
            EXCEPT !.counters = augment_by(@, tcdata_for(suite, d))]

SumOver(suite, sum, tests) ==
    FoldLeft(LAMBDA s, d : do_sum(suite, s, d), sum, SetToSeq(tests))

\* defect: an internal category is skipped, failures or not
SkippedIfInternal(cat, sum) == cat.internal

\* An internal category is skipped unless it has failures.
Skipped(cat, sum) == cat.internal /\ sum.failed = 0

sumdata_for(suite, acc, i) ==
    LET tests == cat_qdl(suite, i)
        thissum == SumOver(suite, init_data_for(suite.dolevel), tests)
    IN  IF tests = {} \/ Skipped(Categories[i], thissum) THEN acc
        ELSE [lines |-> Append(acc.lines,
                 [name |-> Categories[i].name, sum |-> thissum,
                  ovsta |-> IF thissum.failed = 0 THEN "passed" ELSE "failed"]),
              total |-> SumOver(suite, acc.total, tests)]

sumdata(suite) ==
    LET sums == FoldLeft(LAMBDA acc, i : sumdata_for(suite, acc, i),
                         [lines |-> <<>>, total |-> init_data_for(suite.dolevel)],
                         [i \in DOMAIN Categories |-> i])
    IN  [lines |-> sums.lines, total |-> sums.total,
         ovsta |-> IF sums.total.failed = 0 THEN "PASSED" ELSE "FAILED"]

-----------------------------------------------------------------------------
(* The report, or why there is none *)

\* defect: the level asked for is not compared with that of the testsuite
LevelUnchecked(suite, level) == suite.dolevel = "none"

LevelRefused(suite, level) ==
    suite.dolevel = "none" \/ (level # "none" /\ level # suite.dolevel)

\* gnatemu is shown unless the run was native or on a board.
SuiteEnviron(suite) ==
    {"runstamp, host", "gnatcov", "gnatpro"}
       \cup (IF suite.target /\ ~suite.board THEN {"gnatemu"} ELSE {})
       \cup (IF suite.other THEN {"other"} ELSE {})

\* The switches and pragmas of the languages that tests were run for.
SuiteOptions(suite) ==
    {"command line", "common switches", "runtime profile"}
       \cup (IF languages(suite) THEN {"Ada switches", "pragmas"} ELSE {})

\* The pragmas file is read then.
EnvInfoFails(suite) == languages(suite) /\ ~suite.adc

\* Columns are looked up by status name and by kind of note.
CountersFail(suite) ==
    \E d \in qdl(suite) :
       \/ suite.dirs[d].status \notin DOMAIN column_for_status
       \/ \E n \in ToSet(suite.dirs[d].notes) :
             column_for_kind[n.kind] \notin viocnt_columns_for[suite.dolevel]

NoReport == [level |-> "none"]

QDreport(suite, level) ==
    IF LevelRefused(suite, level) \/ EnvInfoFails(suite) \/ CountersFail(suite)
    THEN NoReport
    ELSE [level |-> suite.dolevel,
          envinfo |-> <<SuiteEnviron(suite), SuiteOptions(suite)>>,
          tables |-> tctables(suite), summary |-> sumdata(suite)]
=============================================================================
