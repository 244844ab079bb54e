---------------------------- MODULE ExecutedCode ----------------------------
(***************************************************************************)
(* What a trace database promises to object coverage analysis, whatever    *)
(* the order, overlaps and repetitions of the traces it is given: the code *)
(* addresses that some trace executed and, for each conditional branch,    *)
(* the directions it took.                                                 *)
(***************************************************************************)
EXTENDS Integers

CONSTANTS
  MaxPC,      \* bound: code addresses are 0..MaxPC
  BranchEnds  \* last address of each conditional branch instruction

VARIABLES
  executed,   \* addresses executed
  taken       \* per branch end, directions taken

Directions == {"Br0", "Br1"}

Init ==
  /\ executed = {}
  /\ taken = [a \in BranchEnds |-> {}]

\* A trace [first, last] ends with the given directions
Record(first, last, directions) ==
  /\ executed' = executed \cup first..last
  /\ taken' = [a \in BranchEnds |->
                 IF a \in first..last THEN taken[a] \cup directions
                 ELSE taken[a]]

Next ==
  \E first, last \in 0..MaxPC, directions \in SUBSET Directions :
    Record(first, last, directions)

Spec == Init /\ [][Next]_<<executed, taken>>
=============================================================================
