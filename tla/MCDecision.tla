----------------------------- MODULE MCDecision -----------------------------
(* Instance of the decision modules for TLC: all decisions of bounded size. *)
EXTENDS MCDC, IndexedDecision
=============================================================================
