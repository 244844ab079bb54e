--------------------------- MODULE QualificationKit ---------------------------
(***************************************************************************)
(* The production of qualification kits (qualification/genbundle.py):      *)
(* successive invocations over one work directory.  An invocation updates  *)
(* the clone of the artifacts, writes the model of the Qualifying Machine, *)
(* and for each format builds the documents asked for, the test results    *)
(* (STR) from a testsuite directory, the requirements (TOR) and the plans, *)
(* and packs them in a kit; it ends with a log on their consistency.  A    *)
(* command that fails ends the invocation, and the next one resumes from   *)
(* what it left.                                                           *)
(*                                                                         *)
(* The testsuite is run again, and the artifacts change, between           *)
(* invocations.  git, the Qualifying Machine, sphinx, rsync and zip are    *)
(* external.  All the kits have the same stamp: --rekit names it, or it is *)
(* that of today.                                                          *)
(***************************************************************************)
EXTENDS TestReport

CONSTANTS
    Suites, Reruns,   \* the testsuite directory at first; after a new run
    Tree,             \* version of the artifacts -> the tests it has
    Testcase,         \* test -> the chapter its directory is under, whether a
                      \* tc.rst and the requirements above make it a testcase
                      \* of the TOR, the level its set is only for, or "any"
    Options,          \* the command lines
    MaxInvocations    \* bound on the successive invocations

Formats == {"html", "pdf"}
Parts == {"tor", "plans", "str"}

\* What options.parse_args leaves; CheckValid refuses some of them.
ASSUME OptionsAssumption ==
    Options \subseteq
       [dolevel : {"none", "doA", "doB", "doC"}, xgnatcov : STRING, formats : Seq(Formats),
        parts : SUBSET STRING, testsuite_dir : BOOLEAN, rekit : BOOLEAN,
        kitp : BOOLEAN, gitpull : BOOLEAN, gitreuse : BOOLEAN, gitsource : BOOLEAN]

ASSUME TreeAssumption == Tree # <<>> /\ Tree \in Seq(SUBSET UNION Range(Tree))

\* The appendix has tests, but no requirement.
ASSUME TestcaseAssumption ==
    \A t \in UNION Range(Tree) :
       /\ Testcase[t].chapter \in {"stmt", "decision", "mcdc", "Common", "Appendix"}
       /\ Testcase[t].tc => Testcase[t].chapter # "Appendix"

\* A run of the testsuite leaves a directory per testcase; the kinds of notes
\* are those of the expectations.
ASSUME SuitesAssumption ==
    \A s \in Suites \cup Reruns :
       /\ s.dolevel \in DOMAIN viocnt_columns_for \cup {"none"}
       /\ IsFiniteSet(DOMAIN s.dirs)
       /\ \A d \in DOMAIN s.dirs :
             /\ s.dirs[d].subtree \in UNION {c.matcher : c \in Range(Categories)}
             /\ s.dirs[d].notes \in Seq([kind : DOMAIN column_for_kind, satisfied : BOOLEAN])

VARIABLES
    inv, o, step,           \* invocation, its options, where it is
    fmts, todo, local,      \* formats and parts to do, local_testsuite_dir
    upstream, suite, rest,  \* artifacts, testsuite directory, its STR/source
    clone, items, kits, log \* the work directory

process == <<inv, o, fmts, local>>
outside == <<upstream, suite>>
workdir == <<clone, items, kits, log>>
vars == <<process, step, todo, outside, rest, workdir>>

None == [inv |-> 0]

do(part) == part \in o.parts
passno == Len(o.formats) - Len(fmts) + 1
format == Head(fmts)

\* The parts asked for, in the order they are built.
asked == (IF do("str") THEN <<"str">> ELSE <<>>)
            \o (IF do("tor") THEN <<"tor">> ELSE <<>>)
            \o (IF do("plans") THEN <<"plans">> ELSE <<>>)

-----------------------------------------------------------------------------
(* Invocations *)

\* The options that are refused.
CheckValid(opts) ==
    /\ opts.dolevel # "none" /\ opts.formats # <<>>
    /\ opts.parts \subseteq Parts
    /\ "str" \in opts.parts => opts.testsuite_dir
    /\ ~(opts.gitpull /\ opts.gitsource)

\* No part asked for: a kit of all of them.
WithParts(opts) ==
    [opts EXCEPT !.kitp = opts.rekit \/ opts.parts = {},
                 !.parts = IF @ = {} THEN Parts ELSE @]

Start(opts) ==
    /\ step = "idle" /\ inv < MaxInvocations
    /\ inv' = inv + 1
    /\ o' = WithParts(opts)
    /\ fmts' = opts.formats /\ todo' = <<>> /\ local' = None
    /\ step' = IF CheckValid(o') THEN "git" ELSE "idle"
    /\ IF inv = 0 THEN UNCHANGED outside
       ELSE upstream' \in upstream..Len(Tree) /\ suite' \in {suite} \cup Reruns
    /\ rest' = IF suite' = suite THEN rest ELSE NoReport
    /\ UNCHANGED workdir

Fail ==
    /\ step # "idle" /\ step' = "idle"
    /\ UNCHANGED <<process, todo, outside, rest, workdir>>

\* Pull, reuse, or a new clone, from which the results copied for an earlier
\* TOR and the logs are gone.
GitUpdate ==
    /\ step = "git"
    /\ UNCHANGED <<process, todo, outside, rest, items, kits, log>>
    /\ \/ /\ o.gitpull /\ clone # None
          /\ clone' = [clone EXCEPT !.tree = upstream] /\ step' = "model"
       \/ /\ o.gitreuse /\ ~o.gitpull /\ clone # None
          /\ step' = "model" /\ UNCHANGED clone
       \/ /\ ~o.gitpull /\ ~o.gitreuse
          /\ \/ /\ clone' = [inv |-> inv, tree |-> upstream, level |-> "none",
                              dumps |-> {}, missing |-> {}, tor |-> 0]
                /\ step' = "model"
             \/ clone' = None /\ step' = "idle"
       \/ (o.gitpull \/ o.gitreuse) /\ clone = None /\ step' = "idle" /\ UNCHANGED clone

\* The model reads the requirements of the chapters for the level, and the
\* sets of testcases that are for this level only.
GenQmModel ==
    /\ step = "model" /\ step' = "str"
    /\ clone' = [clone EXCEPT !.level = o.dolevel]
    /\ UNCHANGED <<process, todo, outside, rest, items, kits, log>>

\* The STR's text is generated in the testsuite directory, once.
PrepareStrDir ==
    /\ step = "str"
    /\ IF do("str") /\ passno = 1
       THEN /\ rest' = QDreport(suite, o.dolevel)
            /\ step' = IF rest' = NoReport THEN "idle" ELSE "localize"
       ELSE step' = "localize" /\ UNCHANGED rest
    /\ UNCHANGED <<process, todo, outside, workdir>>

LocalizeTestsuiteDir ==
    /\ step = "localize" /\ step' = "build"
    /\ local' = IF o.testsuite_dir /\ local = None
                THEN [inv |-> inv, suite |-> suite, rest |-> rest] ELSE local
    /\ todo' = asked
    /\ UNCHANGED <<inv, o, fmts, outside, rest, workdir>>

-----------------------------------------------------------------------------
(* Documents *)

Built(part, report) ==
    [inv |-> inv, part |-> part, level |-> o.dolevel, tree |-> clone.tree, report |-> report]

\* What is built replaces the item of the same name.
LatchInto(part, report) ==
    /\ items' = [items EXCEPT ![format][part] = Built(part, report)]
    /\ todo' = Tail(todo)
    /\ UNCHANGED <<process, outside, rest, kits, log>>
    /\ step' = IF todo' = <<>> THEN "kit" ELSE "build"

BuildStr ==
    /\ step = "build" /\ Head(todo) = "str"
    /\ LatchInto("str", local.rest)
    /\ UNCHANGED clone

\* The results are copied next to the testcases of the clone, if it has them.
SyncedResults(tree) ==
    {d \in DOMAIN local.suite.dirs \cap Tree[tree] : local.suite.dirs[d].data}

chapters_for ==
    [doC |-> {"stmt"}, doB |-> {"stmt", "decision"}, doA |-> {"stmt", "decision", "mcdc"}]

\* defect: the requirements of all the levels
ImportedAtAnyLevel(tree, level) == {t \in Tree[tree] : Testcase[t].tc}

\* The testcases that the Qualifying Machine finds under the requirements of
\* the model, which include those that are common to all levels.
Imported(tree, level) ==
    {t \in Tree[tree] :
       /\ Testcase[t].tc
       /\ Testcase[t].chapter \in chapters_for[level] \cup {"Common"}
       /\ Testcase[t].dolevel \in {level, "any"}}

\* It lists those without results, in a log that it clears first.
BuildTor ==
    /\ step = "build" /\ Head(todo) = "tor"
    /\ LET dumps == clone.dumps \cup
              (IF local # None /\ passno = 1 THEN SyncedResults(clone.tree) ELSE {})
       IN  clone' = [clone EXCEPT !.dumps = dumps, !.tor = inv,
                                  !.missing = Imported(clone.tree, clone.level) \ dumps]
    /\ LatchInto("tor", NoReport)

BuildPlans ==
    /\ step = "build" /\ Head(todo) = "plans"
    /\ LatchInto("plans", NoReport)
    /\ UNCHANGED clone

-----------------------------------------------------------------------------
(* Kits *)

BuildKit ==
    /\ step = "kit" /\ UNCHANGED <<process, outside, rest, workdir>>
    /\ todo' = IF o.kitp THEN asked ELSE <<>>
    /\ step' = IF o.kitp THEN "relocate" ELSE "next"

\* The items move into the kit and replace its own.
RelocateInto ==
    /\ step = "relocate" /\ todo # <<>>
    /\ LET part == Head(todo)
       IN  /\ kits' = [kits EXCEPT ![format].items[part] = items[format][part]]
           /\ items' = [items EXCEPT ![format][part] = None]
    /\ todo' = Tail(todo)
    /\ UNCHANGED <<process, step, outside, rest, clone, log>>

\* The kit is added to the archive of that name, if there is one.  What was
\* there may keep pages (html) that the new items have not; in pdf, an item is
\* a file, and replaces that of the same name.
Leftovers(kit) ==
    IF format # "html" \/ kit.zip = None THEN {}
    ELSE (kit.zip.stale \cup Range(kit.zip.items)) \ Range(kit.items)

ZipKit ==
    /\ step = "relocate" /\ todo = <<>>
    /\ kits' = [kits EXCEPT ![format].zip =
          [inv |-> inv, suite |-> suite, items |-> kits[format].items,
           stale |-> Leftovers(kits[format])]]
    /\ step' = "next"
    /\ UNCHANGED <<process, todo, outside, rest, clone, items, log>>

NextFormat ==
    /\ step = "next" /\ fmts' = Tail(fmts)
    /\ step' = IF fmts' # <<>> THEN "str" ELSE IF o.kitp THEN "log" ELSE "idle"
    /\ UNCHANGED <<inv, o, local, todo, outside, rest, workdir>>

TreeConsistency(tree, s) ==
    IF tree = s.treeref THEN "matches"
    ELSE IF s.treeref < tree THEN "local tree is ahead" ELSE "suite tree is ahead"

VersionConsistency(expected, actual) ==
    IF expected = "none" THEN "not specified"
    ELSE IF expected = actual THEN "matches" ELSE "doesn't match"

\* The testsuite directory is zipped and its context read.  A kit may be built
\* again without one, if not for the STR: this then raises an exception.
DumpConsistencyLog ==
    /\ step = "log" /\ step' = "idle"
    /\ log' = IF local = None THEN log
              ELSE [inv |-> inv, tree |-> clone.tree, level |-> o.dolevel, suite |-> local.suite,
                    trees |-> TreeConsistency(clone.tree, local.suite),
                    version |-> VersionConsistency(o.xgnatcov, local.suite.gnatcov),
                    tr |-> IF clone.tor = 0 THEN "not available"
                           ELSE IF do("tor") THEN "FRESH" ELSE "OLD",
                    missing |-> clone.missing]
    /\ UNCHANGED <<process, todo, outside, rest, clone, items, kits>>

-----------------------------------------------------------------------------

NoItems == [p \in Parts |-> None]

Init ==
    /\ inv = 0 /\ o \in {WithParts(opts) : opts \in {CHOOSE x \in Options : TRUE}}
    /\ step = "idle" /\ fmts = <<>> /\ todo = <<>> /\ local = None
    /\ upstream = 1 /\ suite \in Suites /\ rest = NoReport
    /\ clone = None
    /\ items = [f \in Formats |-> NoItems]
    /\ kits = [f \in Formats |-> [items |-> NoItems, zip |-> None]]
    /\ log = None

Next ==
    \/ \E opts \in Options : Start(opts)
    \/ Fail \/ GitUpdate \/ GenQmModel \/ PrepareStrDir \/ LocalizeTestsuiteDir
    \/ BuildStr \/ BuildTor \/ BuildPlans
    \/ BuildKit \/ RelocateInto \/ ZipKit \/ NextFormat \/ DumpConsistencyLog

Spec == Init /\ [][Next]_vars

-----------------------------------------------------------------------------
(* Properties *)

\* The kit that has just been packed.
Packed == step = "next" /\ o.kitp
zip == kits[format].zip

Notes(s, tests) ==
    FoldLeft(LAMBDA n, d : n + Len(s.dirs[d].notes), 0, SetToSeq(tests))

(***************************************************************************)
(* An STR in a kit says what the runs of the tests were: the overall       *)
(* status is PASSED if and only if no test that left a status failed; the  *)
(* total has every test, but those of an internal category without         *)
(* failures; and each expectation of these tests is counted once           *)
(* ("*passed* if all tests were *passed* or *xfail*", genrest.py:212-214).  *)
(***************************************************************************)
ReportTruthful ==
    Packed /\ "str" \in o.parts =>
       LET report == zip.items["str"].report
           failed == {d \in qdl(zip.suite) : zip.suite.dirs[d].status = "FAILED"}
           hidden(d) == /\ zip.suite.dirs[d].subtree = "selftest"
                        /\ \A e \in failed : zip.suite.dirs[e].subtree # "selftest"
           shown == {d \in qdl(zip.suite) : ~hidden(d)}
           total == report.summary.total
       IN  /\ (report.summary.ovsta = "PASSED") = (failed = {})
           /\ total.passed + total.xfail + total.failed = Cardinality(shown)
           /\ total.failed = Cardinality(failed)
           /\ Notes(zip.suite, shown) =
                 FoldLeft(LAMBDA n, c : n + total.counters[c].expected, 0,
                          SetToSeq(DOMAIN total.counters))

(***************************************************************************)
(* The parts that an invocation asked for are, in the kit it packed, those *)
(* it built itself, from the artifacts and at the level it was given, and  *)
(* the STR is that of the testsuite directory, run at this level; the      *)
(* other parts were there before (genbundle.py: "keep the old elements in  *)
(* place").  An html archive may have pages of earlier builds besides.     *)
(***************************************************************************)
KitOfInvocation ==
    Packed =>
       /\ zip.inv = inv
       /\ \A p \in o.parts :
             /\ zip.items[p].inv = inv /\ zip.items[p].part = p
             /\ zip.items[p].tree = clone.tree /\ zip.items[p].level = o.dolevel
       /\ \A p \in Parts \ o.parts : zip.items[p].inv < inv
       /\ "str" \in o.parts =>
             /\ zip.items["str"].report = QDreport(suite, o.dolevel)
             /\ suite.dolevel = o.dolevel

(***************************************************************************)
(* A consistency log marked FRESH, after a new clone, lists exactly the    *)
(* testcases of the artifacts that the testsuite directory has no results  *)
(* for, among those that the testsuite runs for the level of the           *)
(* invocation (QLEVEL_INFO), sets that are only for another level aside:   *)
(* what genmodel.py selects for the TOR is what testsuite.py dumps results *)
(* for.                                                                    *)
(***************************************************************************)
QLEVEL_INFO ==
    [doA |-> {"Common", "Appendix", "stmt", "decision", "mcdc"},
     doB |-> {"Common", "Appendix", "stmt", "decision"},
     doC |-> {"Common", "Appendix", "stmt"}]

Required(tree, level) ==
    {t \in Tree[tree] :
       /\ Testcase[t].tc /\ Testcase[t].chapter \in QLEVEL_INFO[level]
       /\ Testcase[t].dolevel \in {level, "any"}}

FreshLogExact ==
    log # None /\ log.inv = clone.inv /\ log.tr = "FRESH" =>
       log.missing =
          {d \in Required(log.tree, log.level) :
             ~(d \in DOMAIN log.suite.dirs /\ log.suite.dirs[d].data)}

-----------------------------------------------------------------------------
(* Why they hold. *)

AllSuites == Suites \cup Reruns
DoLevels == {opts.dolevel : opts \in Options} \cup {"none"}
Testcases == UNION Range(Tree)
Reports == {QDreport(s, l) : s \in AllSuites, l \in DoLevels} \cup {NoReport}

Item == {None} \cup
    [inv : Nat, part : Parts, level : DoLevels, tree : 1..Len(Tree), report : Reports]
Kit == [items : [Parts -> Item],
        zip : {None} \cup [inv : Nat, suite : AllSuites, items : [Parts -> Item],
                           stale : SUBSET Item]]
Clone == {None} \cup
    [inv : Nat, tree : 1..Len(Tree), level : DoLevels, dumps : SUBSET Testcases,
     missing : SUBSET Testcases, tor : Nat]
Log == {None} \cup
    [inv : Nat, tree : 1..Len(Tree), level : DoLevels, suite : AllSuites,
     trees : {"matches", "local tree is ahead", "suite tree is ahead"},
     version : {"not specified", "matches", "doesn't match"},
     tr : {"not available", "FRESH", "OLD"}, missing : SUBSET Testcases]

Steps == {"idle", "git", "model", "str", "localize", "build", "kit", "relocate",
          "next", "log"}
Running == step # "idle"

TypeOK ==
    /\ inv \in Nat /\ step \in Steps
    /\ fmts \in Seq(Formats) /\ todo \in Seq(Parts)
    /\ local \in {None} \cup [inv : Nat, suite : AllSuites, rest : Reports]
    /\ upstream \in 1..Len(Tree) /\ suite \in AllSuites /\ rest \in Reports
    /\ clone \in Clone /\ log \in Log
    /\ items \in [Formats -> [Parts -> Item]] /\ kits \in [Formats -> Kit]

\* The invocation under way was accepted, and has a format to produce.
Accepted ==
    Running =>
       /\ o \in {WithParts(opts) : opts \in Options} /\ CheckValid(o) /\ inv > 0
       /\ Len(fmts) <= Len(o.formats)
       /\ step = "log" <=> fmts = <<>>
       /\ step \in {"git", "model"} => passno = 1

\* Nothing comes from an invocation to come; before its end, an invocation has
\* no log, and no part but those it was asked for.
Dated ==
    /\ \A f \in Formats, p \in Parts :
          /\ items[f][p].inv <= inv /\ kits[f].items[p].inv <= inv
          /\ Running /\ p \notin o.parts => kits[f].items[p].inv < inv
    /\ clone.inv <= inv /\ log.inv <= inv /\ (log # None => log.inv > 0)
    /\ Running => log.inv < inv

\* The results are prepared and copied in the first pass, for all of them.
Localized == passno > 1 \/ step \in {"build", "kit", "relocate", "next"}

Prepared ==
    Running =>
       /\ step \notin {"git"} => clone # None
       /\ step \notin {"git", "model"} => clone.level = o.dolevel
       /\ do("str") /\ (Localized \/ step = "localize") =>
             rest = QDreport(suite, o.dolevel) /\ rest # NoReport
       /\ local = IF Localized /\ o.testsuite_dir
                  THEN [inv |-> inv, suite |-> suite, rest |-> rest] ELSE None

OwnPart(p, item) ==
    /\ item.inv = inv /\ item.part = p
    /\ item.tree = clone.tree /\ item.level = o.dolevel
    /\ p = "str" => item.report = QDreport(suite, o.dolevel)

\* The parts are first built, then moved into the kit, one by one.
PartsDone ==
    /\ step \in {"build", "relocate"} =>
          /\ Range(todo) \subseteq o.parts
          /\ \A i, j \in DOMAIN todo : todo[i] = todo[j] => i = j
    /\ step = "build" => todo # <<>>
    /\ step = "relocate" => o.kitp
    /\ \A p \in o.parts :
          /\ step = "build" /\ p \notin Range(todo) => OwnPart(p, items[format][p])
          /\ step = "kit" => OwnPart(p, items[format][p])
          /\ step = "relocate" =>
                OwnPart(p, IF p \in Range(todo) THEN items[format][p]
                           ELSE kits[format].items[p])
          /\ step = "next" /\ o.kitp => OwnPart(p, kits[format].items[p])
    /\ Packed => zip.inv = inv /\ zip.suite = suite /\ zip.items = kits[format].items

\* A clone of this invocation has the results of its testsuite directory, once
\* the TOR is built.
TorBuilt ==
    \/ passno > 1 \/ step \in {"kit", "relocate", "next"}
    \/ step = "build" /\ "tor" \notin Range(todo)

ResultsOf(s, tree) == {d \in DOMAIN s.dirs \cap Tree[tree] : s.dirs[d].data}

CloneMatched ==
    Running /\ clone.inv = inv /\ do("tor") =>
       IF TorBuilt
       THEN local # None =>
               /\ clone.dumps = ResultsOf(local.suite, clone.tree)
               /\ clone.missing = Imported(clone.tree, clone.level) \ clone.dumps
       ELSE clone.dumps = {}

IInv == TypeOK /\ Accepted /\ Dated /\ Prepared /\ PartsDone /\ CloneMatched /\ FreshLogExact
=============================================================================
