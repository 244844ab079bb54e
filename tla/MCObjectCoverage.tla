-------------------------- MODULE MCObjectCoverage --------------------------
(* Instances of object coverage for TLC.                                   *)
EXTENDS ObjectCoverage

Insn(first, last, cond) == [first |-> first, last |-> last, cond |-> cond]

\* A conditional branch, another one of two bytes with a delay slot, and a
\* one-byte return
MCInsns == {Insn(0, 0, FALSE), Insn(1, 1, TRUE), Insn(2, 2, FALSE),
            Insn(3, 4, TRUE), Insn(5, 5, FALSE), Insn(6, 6, FALSE)}
MCBranchEnds == {1, 5}

MCOps == {{"Block"}, {"Fault"}, {"Block", "Br0"}, {"Block", "Br1"}, {"Br0"},
          {"Br1"}}
=============================================================================
