----------------------------- MODULE MCTestSuite -----------------------------
EXTENDS TestSuite

(***************************************************************************)
(* A qualification test and a generated test; a qualification run, regular *)
(* runs with hooks and cleanups, and command lines that are refused.       *)
(***************************************************************************)
MCTests == {"q", "g"}
MCGroup == {"g"}
MCSubtree == [t \in MCTests |-> IF t = "q" THEN "decision" ELSE "none"]
MCLang == [t \in MCTests |-> IF t = "q" THEN "Ada" ELSE "none"]

\* q fails with the GNAT 95 runs of a level C, is not run from sources; g is
\* never to be run on a board, and its opt file is wrong for zfp.
MCOptFiles == [t \in MCTests |->
    IF t = "q"
    THEN <<[tags |-> {"src-traces"}, kind |-> "DEAD"],
           [tags |-> {"LANG_ADA", "DOC"}, kind |-> "XFAIL"],
           [tags |-> {"CARGS_gnat95"}, kind |-> "DEAD"]>>
    ELSE <<[tags |-> {"board"}, kind |-> "DEAD"],
           [tags |-> {"RTS_ZFP"}, kind |-> "ILLEGAL"],
           [tags |-> {"CARGS_gnat05", "RTS_FULL"}, kind |-> "XFAIL"],
           [tags |-> {"ALL"}, kind |-> "run"]>>]

NoHook == [h \in HookNames |-> 0]
MCAltruns ==
    [valgrind |-> [setup |-> TRUE, hooks |-> [NoHook EXCEPT !["post_testcase"] = 1]],
     twice |-> [setup |-> FALSE, hooks |-> [NoHook EXCEPT !["pre_testcase"] = 2]]]

Plain == [qualif_level |-> "none", cargs_ada |-> {}, gprmode |-> FALSE,
          trace_mode |-> "bin", target |-> "native", largs |-> <<>>,
          board |-> "none", RTS |-> "none", hooks |-> {}, altrun |-> "none",
          cleanups |-> FALSE]
Qualif == [Plain EXCEPT !.qualif_level = "doC", !.cargs_ada = {"gnat95", "gnatec"}]

MCCommands ==
    {[Plain EXCEPT !.hooks = {"pre_testcase"}, !.cleanups = TRUE],
     Qualif,
     [Qualif EXCEPT !.qualif_level = "doB", !.altrun = "valgrind", !.cleanups = TRUE,
                    !.cargs_ada = {"gnat12", "gnatec"}],
     [Qualif EXCEPT !.qualif_level = "doA", !.cargs_ada = {"gnat12"}],
     [Plain EXCEPT !.trace_mode = "src", !.RTS = "zfp-board", !.target = "elf",
                   !.altrun = "valgrind", !.hooks = {"post_testcase"}],
     [Plain EXCEPT !.trace_mode = "src", !.RTS = "zfp-board", !.target = "elf"],
     [Plain EXCEPT !.board = "iSystem", !.altrun = "twice"],
     [Plain EXCEPT !.board = "iSystem", !.RTS = "ravenscar"]}
=============================================================================
