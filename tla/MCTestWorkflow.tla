--------------------------- MODULE MCTestWorkflow ---------------------------
EXTENDS TestWorkflow

(***************************************************************************)
(* Two drivers over a shared source, a consolidation of both, and one whose *)
(* expression matches a single driver.                                     *)
(***************************************************************************)
MCDrivers == <<"test_a", "test_b">>
ConsAB == [name |-> "cons_ab", drivers |-> <<"test_a", "test_b">>]
ConsB == [name |-> "cons_b", drivers |-> <<"test_b">>]
MCShort == [n \in {"test_a", "test_b", "cons_ab", "cons_b"} |->
               CASE n = "test_a" -> "a" [] n = "test_b" -> "b" [] OTHER -> n]
MCSources == {"p", "p-s", "q"}
MCSubunits == {"p-s"}
MCClosure == [d \in {"test_a", "test_b"} |-> MCSources]
MCInterest == [n \in {"test_a", "test_b", "cons_ab", "cons_b"} |->
                  CASE n = "test_a" -> {"p", "p-s"}
                    [] n = "test_b" -> {"q"}
                    [] OTHER -> {"p", "q"}]

Plain == [category |-> "stmt", xcov_level |-> "", qualif |-> FALSE,
          trace_mode |-> "bin", gprmode |-> FALSE, consolidate |-> "traces",
          runtime |-> "none", expect_failures |-> FALSE, extracargs |-> FALSE,
          xreports |-> FALSE, enable_valgrind |-> "none",
          expected_diags |-> <<>>, cspecs |-> <<ConsAB>>]

Source == [Plain EXCEPT !.trace_mode = "src", !.gprmode = TRUE]

MCOptions == {
    [Plain EXCEPT !.category = "mcdc"],
    [Plain EXCEPT !.category = "mcdc", !.qualif = TRUE],
    [Plain EXCEPT !.qualif = TRUE, !.extracargs = TRUE],
    [Plain EXCEPT !.category = "decision", !.enable_valgrind = "memcheck"],
    [Plain EXCEPT !.consolidate = "checkpoints", !.category = "decision"],
    [Source EXCEPT !.category = "mcdc", !.consolidate = "checkpoints"],
    [Source EXCEPT !.runtime = "zfp-board", !.xreports = TRUE],
    [Source EXCEPT !.runtime = "kernel", !.enable_valgrind = "memcheck"],
    [Plain EXCEPT !.trace_mode = "src"],
    [Plain EXCEPT !.category = "mcdc", !.cspecs = <<ConsB, ConsAB>>],
    [Plain EXCEPT !.category = "none", !.xcov_level = "stmt+uc_mcdc"],
    [Plain EXCEPT !.expect_failures = TRUE,
                  !.expected_diags = <<{"check"}, {"check", "check2"}>>],
    [Source EXCEPT !.expect_failures = TRUE, !.runtime = "ravenscar-board",
                   !.expected_diags = <<{"exception"}>>]}
=============================================================================
