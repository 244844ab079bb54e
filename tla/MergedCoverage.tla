--------------------------- MODULE MergedCoverage ---------------------------
(***************************************************************************)
(* What consolidation promises.  A run of the tool knows some units, each  *)
(* in one version, and what its traces cover of their obligations.  It may *)
(* then open checkpoints of other runs: each adds the units that were not  *)
(* known, and the coverage of every version that is the known one, and     *)
(* nothing else.  No identifier appears here: coverage relates to          *)
(* obligations, however the tables of each run number them.                *)
(***************************************************************************)
CONSTANTS
  Versions,     \* of units: what the SCO provider and fingerprint identify
  UnitOf,       \* the unit of a version
  Obligations,  \* [version, index, value, instance]; instance 0 for all
  Degraded      \* obligations whose value may be negated in another run

VARIABLES
  known,      \* versions of the units known to the current run
  covered,    \* obligations it has found covered
  separated,  \* whether it separates the coverage of instances
  opened,     \* checkpoints it has opened
  pending,    \* the one it has opened last, until its coverage is merged
  saved       \* the checkpoints saved by all runs

vars == <<known, covered, separated, opened, pending, saved>>

Start ==
  /\ known = {}
  /\ covered = {}
  /\ separated \in BOOLEAN
  /\ opened = {}
  /\ pending = {}

Init == Start /\ saved = {}

\* A unit is learnt from SCOs, and then from the checkpoint that is open
Learn(v) ==
  /\ \/ opened = {}
     \/ \E cp \in pending : v \in cp.known
  /\ \A w \in known : UnitOf[w] # UnitOf[v]
  /\ known' = known \cup {v}
  /\ UNCHANGED <<covered, separated, opened, pending, saved>>

\* Traces cover obligations of known units
Cover ==
  /\ opened = {}
  /\ covered' \in SUBSET Obligations
  /\ covered \subseteq covered'
  /\ \A c \in covered' : c.version \in known
  /\ UNCHANGED <<known, separated, opened, pending, saved>>

Open(cp) ==
  /\ pending = {}
  /\ opened' = opened \cup {cp}
  /\ pending' = {cp}
  /\ UNCHANGED <<known, covered, separated, saved>>

\* A value that may be negated is only of use along with the other one
Usable(items) ==
  {c \in items : c \in Degraded => [c EXCEPT !.value = ~@] \in items}

Merged(items) == {[c EXCEPT !.instance = 0] : c \in items}

\* Once the units of a checkpoint are known, its coverage is added
Consolidate(cp) ==
  LET same == {c \in Usable(cp.covered) : c.version \in known}
  IN  /\ \A v \in cp.known : \E w \in known : UnitOf[w] = UnitOf[v]
      /\ covered' = covered \cup (IF ~separated THEN Merged(same)
                                  ELSE IF cp.separated THEN same ELSE {})
      /\ pending' = {}
      /\ UNCHANGED <<known, separated, opened, saved>>

\* A run ends, having saved its results or not, and another one starts
End ==
  /\ \/ saved' = saved
     \/ /\ pending = {}
        /\ saved' = saved \cup
             {[known |-> known, covered |-> covered, separated |-> separated]}
  /\ known' = {}
  /\ covered' = {}
  /\ separated' \in BOOLEAN
  /\ opened' = {}
  /\ pending' = {}

Next ==
  \/ \E v \in Versions : Learn(v)
  \/ Cover
  \/ \E cp \in saved : Open(cp)
  \/ \E cp \in pending : Consolidate(cp)
  \/ End

Spec == Init /\ [][Next]_vars
=============================================================================
