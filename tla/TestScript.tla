----------------------------- MODULE TestScript -----------------------------
(***************************************************************************)
(* What a test.py script promises to the testsuite driver that runs it     *)
(* (SUITE/context.py): its report is open, failures are counted, and the   *)
(* verdict, which is the count's, is written once, last.  A script that    *)
(* exits normally has written a verdict; one that stops on an error has    *)
(* written FAILED or none at all.                                          *)
(***************************************************************************)
EXTENDS Integers

VARIABLES n_failed, out, exit

vars == <<n_failed, out, exit>>

Init == n_failed = 0 /\ out = "open" /\ exit = "running"

Running == exit = "running" /\ out = "open"

\* Checks fail, or a harness test cancels the failures it expects.
Count == Running /\ n_failed' \in Int /\ UNCHANGED <<out, exit>>

Conclude ==
    /\ Running
    /\ out' = IF n_failed = 0 THEN "PASSED" ELSE "FAILED"
    /\ UNCHANGED <<n_failed, exit>>

\* A stop counts a failure and writes FAILED.
Stop ==
    /\ Running
    /\ n_failed' = n_failed + 1 /\ out' = "FAILED"
    /\ UNCHANGED exit

Leave ==
    /\ exit = "running"
    /\ exit' \in {"ok", "error", "killed"}
    /\ exit' = "ok" => out # "open"
    /\ exit' = "error" => out # "PASSED"
    /\ UNCHANGED <<n_failed, out>>

Next == Count \/ Conclude \/ Stop \/ Leave

Spec == Init /\ [][Next]_vars
=============================================================================
