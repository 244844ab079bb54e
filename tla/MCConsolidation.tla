-------------------------- MODULE MCConsolidation --------------------------
EXTENDS Consolidation

MCUnitOf == [v \in {"a1", "a2", "b1"} |-> IF v = "b1" THEN "b" ELSE "a"]

MCSCO(kind, refs, node, lastNode) ==
  [kind |-> kind, origin |-> 0, refs |-> refs, node |-> node,
   lastNode |-> lastNode, degraded |-> kind = "Decision"]

\* a1: a statement in a generic.  a2: another version of that unit.
\* b1: a decision with two conditions.
MCSCOsOf ==
  [a1 |-> <<MCSCO("Statement", {}, 0, 0)>>,
   a2 |-> <<MCSCO("Statement", {}, 0, 0), MCSCO("Statement", {1}, 0, 0)>>,
   b1 |-> <<MCSCO("Decision", {2}, 1, 2), MCSCO("Operator", {3, 4}, 0, 0),
            MCSCO("Condition", {2}, 1, 0), MCSCO("Condition", {2}, 2, 0)>>]

MCNodesOf ==
  [a1 |-> <<>>, a2 |-> <<>>,
   b1 |-> <<[sco |-> 3, dests |-> {2}], [sco |-> 4, dests |-> {}]>>]

MCInstancesOf == [a1 |-> <<0, 1>>, a2 |-> <<>>, b1 |-> <<0>>]
=============================================================================
