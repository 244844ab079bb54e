--------------------------- MODULE Consolidation ---------------------------
(***************************************************************************)
(* Checkpoints (checkpoints.adb and the Checkpoint_ operations of          *)
(* sc_obligations.adb, coverage-source.adb, traces_files_registry.adb).    *)
(* A run numbers units, SCOs, BDD nodes and instances as it meets them.    *)
(* It loads SCOs, processes traces, loads checkpoints saved by other runs, *)
(* which numbered the same things otherwise, and may save one itself.      *)
(* Loading relocates every identifier a checkpoint holds.                  *)
(***************************************************************************)
EXTENDS Integers, Sequences, FiniteSets

CONSTANTS
  Versions,    \* of units: what the SCO provider and fingerprint identify
  UnitOf,      \* the unit (main source file) of a version
  SCOsOf,      \* per version, its SCOs, numbered from 1
  NodesOf,     \* per version, the condition nodes of the BDDs of its decisions
  InstancesOf, \* per version, the enclosing instance, or 0, of its instances
  Annotated,   \* versions with an exemption
  Providers,   \* tag providers that runs use
  MaxCovered,  \* bound: SCOs that the traces of one run cover
  MaxOwn,      \* bound: runs with SCOs and traces of their own
  MaxInputs,   \* bound: checkpoints loaded in one run
  MaxSaved     \* bound: checkpoints saved by all runs

Descriptors ==
  [kind : {"Statement", "Decision", "Operator", "Condition", "Removed"},
   origin : Nat, refs : SUBSET Nat, node : Nat, lastNode : Nat,
   degraded : BOOLEAN]

\* Within a version, SCOs refer to each other and to nodes of the version, a
\* decision has the nodes of its BDD, which are those of its conditions, and
\* instances are enclosed in instances.
UnitsAssumption ==
  \A v \in Versions :
    LET scos == SCOsOf[v]
        nodes == NodesOf[v]
    IN  /\ scos \in Seq(Descriptors)
        /\ nodes \in Seq([sco : DOMAIN scos, dests : SUBSET DOMAIN nodes])
        /\ InstancesOf[v] \in Seq(0..Len(InstancesOf[v]))
        /\ \A s \in DOMAIN scos :
             /\ scos[s].refs \subseteq DOMAIN scos
             /\ {scos[s].node, scos[s].lastNode} \subseteq 0..Len(nodes)
             /\ scos[s].kind = "Decision" => 0 \notin {scos[s].node, scos[s].lastNode}
        /\ \A n \in DOMAIN nodes :
             /\ \E s \in DOMAIN scos :
                  scos[s].kind = "Decision" /\ n \in scos[s].node..scos[s].lastNode
             /\ scos[nodes[n].sco].kind = "Condition" /\ scos[nodes[n].sco].node = n
ASSUME UnitsAssumption

\* Coverage is separated by instances or not at all; tags by routine cannot be
\* loaded from a checkpoint and are not modelled
ProvidersAssumption == Providers \subseteq {"default", "instance"}
ASSUME ProvidersAssumption

VARIABLES
  cu, sco, bdd, inst,  \* CU_Vector, SCO_Vector, BDD_Vector, Inst_Vector
  annotations,         \* ALI_Annotations: [unit, cu]
  sci,                 \* what SCI_Vector holds: [sco, tag, value]
  files,               \* trace files of the registry, by the run they are from
  provider,            \* Tag_Provider
  phase,               \* what the run does next
  input,               \* the checkpoint being loaded
  relocs,              \* CLS.Relocations, for that checkpoint
  inputs,              \* checkpoints loaded by this run
  saved                \* checkpoints saved so far

tables == <<cu, sco, bdd, inst, annotations>>
load == <<phase, input, relocs, inputs>>
vars == <<tables, sci, files, provider, load, saved>>

----------------------------------------------------------------------------
(* Tables of a run.  Identifiers are positions, 0 stands for No_..._Id.    *)

CompUnit(unit) == {c \in 1..Len(cu) : UnitOf[cu[c].version] = unit}

\* SCO descriptor d in unit c, with other identifiers of SCOs and of BDD nodes
Relocated(d, c, scoMap, nodeMap) ==
  [d EXCEPT !.origin = c,
            !.refs = {scoMap[s] : s \in @},
            !.node = IF @ = 0 THEN 0 ELSE nodeMap[@],
            !.lastNode = IF @ = 0 THEN 0 ELSE nodeMap[@]]

Shifted(last, by) == [i \in 1..last |-> i + by]

Checkpoint ==
  [cu |-> cu, sco |-> sco, bdd |-> bdd, inst |-> inst, sci |-> sci,
   annotations |-> annotations, files |-> files, provider |-> provider]

Init ==
  /\ cu = <<>> /\ sco = <<>> /\ bdd = <<>> /\ inst = <<>>
  /\ annotations = {} /\ sci = {} /\ files = {}
  /\ provider \in Providers
  /\ phase = "traces" /\ input = <<>> /\ relocs = <<>> /\ inputs = {}
  /\ saved = {}

\* The process ends and another run of the tool starts
NextRun ==
  /\ cu' = <<>> /\ sco' = <<>> /\ bdd' = <<>> /\ inst' = <<>>
  /\ annotations' = {} /\ sci' = {} /\ files' = {}
  /\ provider' \in Providers
  /\ phase' = "traces" /\ input' = <<>> /\ relocs' = <<>> /\ inputs' = {}

\* The process ends with an exception, having saved nothing
Raise == NextRun /\ UNCHANGED saved

----------------------------------------------------------------------------
(* Load_SCOs and the processing of traces.                                 *)

\* SCOs of a unit already known are ignored (Allocate_CU)
LoadSCOs(v) ==
  LET c == Len(cu) + 1
      scoMap == Shifted(Len(SCOsOf[v]), Len(sco))
      nodeMap == Shifted(Len(NodesOf[v]), Len(bdd))
  IN  /\ phase = "traces"
      /\ Cardinality(saved) < MaxOwn
      /\ CompUnit(UnitOf[v]) = {}
      /\ cu' = Append(cu,
           [version |-> v,
            first |-> Len(sco) + 1, last |-> Len(sco) + Len(SCOsOf[v]),
            firstInst |-> Len(inst) + 1,
            lastInst |-> Len(inst) + Len(InstancesOf[v])])
      /\ sco' = sco \o [i \in DOMAIN SCOsOf[v] |->
                          Relocated(SCOsOf[v][i], c, scoMap, nodeMap)]
      /\ bdd' = bdd \o [i \in DOMAIN NodesOf[v] |->
                          [sco |-> scoMap[NodesOf[v][i].sco],
                           dests |-> {nodeMap[n] : n \in NodesOf[v][i].dests}]]
      /\ inst' = inst \o [i \in DOMAIN InstancesOf[v] |->
                            [cu |-> c,
                             enclosing |-> IF InstancesOf[v][i] = 0 THEN 0
                                           ELSE InstancesOf[v][i] + Len(inst)]]
      /\ annotations' = annotations \cup
           (IF v \in Annotated THEN {[unit |-> UnitOf[v], cu |-> c]} ELSE {})
      /\ UNCHANGED <<sci, files, provider, load, saved>>

\* Instance_Tag_Provider tags with an instance of the unit, if code is in one
Tags(c) ==
  {0} \cup (IF provider = "instance" THEN cu[c].firstInst..cu[c].lastInst
            ELSE {})

\* A trace of this run executes a statement or takes outcomes of a decision
ProcessTrace(s, tag, values) ==
  /\ phase = "traces"
  /\ Cardinality({c.sco : c \in sci}) < MaxCovered
  /\ tag \in Tags(sco[s].origin)
  /\ \/ sco[s].kind = "Statement" /\ values = {TRUE}
     \/ sco[s].kind = "Decision"
  /\ sci' = sci \cup {[sco |-> s, tag |-> tag, value |-> v] : v \in values}
  /\ files' = files \cup {Cardinality(saved) + 1}
  /\ UNCHANGED <<tables, provider, load, saved>>

----------------------------------------------------------------------------
(* SC_Obligations.Checkpoint_Load, unit by unit.                           *)

StartLoad(cp) ==
  /\ phase \in {"traces", "loaded"}
  /\ cp \notin inputs
  /\ Cardinality(inputs) < MaxInputs
  /\ phase' = "units"
  /\ input' = cp
  /\ inputs' = inputs \cup {cp}
  /\ relocs' = [cu |-> <<>>, existing |-> Len(cu), ignored |-> {},
                sco |-> [s \in DOMAIN cp.sco |-> 0],
                bdd |-> [n \in DOMAIN cp.bdd |-> 0],
                inst |-> [i \in DOMAIN cp.inst |-> 0]]
  /\ UNCHANGED <<tables, sci, files, provider, saved>>

\* The unit of the checkpoint that is loaded next, and its known counterparts
CPUnit == input.cu[Len(relocs.cu) + 1]
Known == CompUnit(UnitOf[CPUnit.version])

LoadingUnit ==
  /\ phase = "units"
  /\ Len(relocs.cu) < Len(input.cu)
  /\ UNCHANGED <<annotations, sci, files, provider, phase, input, inputs, saved>>

\* Position of x in the set of numbers S, and the number at a position
Position(S, x) == Cardinality({y \in S : y <= x})
Nth(S, k) == CHOOSE x \in S : Position(S, x) = k

\* Defect: identifiers are shifted by the last SCO instead of the next one
NewSCOMapFromLast == [s \in DOMAIN input.sco |-> Len(sco) + s - CPUnit.first]

\* Remap_SCO_Id of Checkpoint_Load_New_Unit: forward references are allowed
\* for, so that it does not go through relocs
NewSCOMap == [s \in DOMAIN input.sco |-> Len(sco) + 1 + s - CPUnit.first]

\* SCOs that are loaded: the removed ones are left out
Kept == {s \in CPUnit.first..CPUnit.last : input.sco[s].kind # "Removed"}

\* BDD nodes that are loaded, with their decision
KeptNodes ==
  UNION {input.sco[s].node..input.sco[s].lastNode :
           s \in {s \in Kept : input.sco[s].kind = "Decision"}}

NodeMap ==
  [n \in DOMAIN input.bdd |->
     IF n \in KeptNodes THEN Len(bdd) + Position(KeptNodes, n)
     ELSE relocs.bdd[n]]

\* The node of a condition designates it from when the condition is loaded
ConditionOf(n) ==
  IF \E s \in Kept : input.sco[s].kind = "Condition" /\ input.sco[s].node = n
  THEN NewSCOMap[input.bdd[n].sco]
  ELSE input.bdd[n].sco

LoadNewUnit ==
  LET u == CPUnit
      c == Len(cu) + 1
      by == Len(inst) + 1 - u.firstInst
  IN  /\ LoadingUnit
      /\ Known = {}
      /\ inst' = inst \o
           [k \in 1..(u.lastInst - u.firstInst + 1) |->
              LET e == input.inst[u.firstInst + k - 1].enclosing
              IN  [cu |-> c, enclosing |-> IF e = 0 THEN 0 ELSE e + by]]
      /\ sco' = sco \o
           [k \in 1..Cardinality(Kept) |->
              Relocated(input.sco[Nth(Kept, k)], c, NewSCOMap, NodeMap)]
      /\ bdd' = bdd \o
           [k \in 1..Cardinality(KeptNodes) |->
              LET n == Nth(KeptNodes, k)
              IN  [sco |-> ConditionOf(n),
                   dests |-> {NodeMap[d] : d \in input.bdd[n].dests}]]
      /\ cu' = Append(cu,
           [u EXCEPT !.first = Len(sco) + 1,
                     !.last = Len(sco) + 1 + @ - u.first,
                     !.firstInst = @ + by, !.lastInst = @ + by])
      /\ relocs' =
           [relocs EXCEPT
              !.cu = Append(@, c),
              !.sco = [s \in DOMAIN @ |->
                         IF s \in Kept THEN Len(sco) + Position(Kept, s)
                         ELSE @[s]],
              !.ignored = @ \cup ((u.first..u.last) \ Kept),
              !.bdd = NodeMap,
              !.inst = [i \in DOMAIN @ |->
                          IF i \in u.firstInst..u.lastInst THEN i + by
                          ELSE @[i]]]

\* The unit is known in the same version: its identifiers are shifted
MergeUnit ==
  /\ LoadingUnit
  /\ \E c \in Known :
       LET u == CPUnit
       IN  /\ cu[c].version = u.version
           /\ relocs' =
                [relocs EXCEPT
                   !.cu = Append(@, c),
                   !.sco = [s \in DOMAIN @ |->
                              IF s \in u.first..u.last
                              THEN s + cu[c].first - u.first ELSE @[s]],
                   !.inst = [i \in DOMAIN @ |->
                               IF i \in u.firstInst..u.lastInst
                               THEN i + cu[c].firstInst - u.firstInst
                               ELSE @[i]]]
  /\ UNCHANGED <<cu, sco, bdd, inst>>

\* The unit is known in another version: a warning, and nothing is mapped
SkipUnit ==
  /\ LoadingUnit
  /\ \E c \in Known :
       /\ cu[c].version # CPUnit.version
       /\ relocs' = [relocs EXCEPT !.cu = Append(@, c)]
  /\ UNCHANGED <<cu, sco, bdd, inst>>

\* The annotations of the units that this checkpoint has added are inserted
\* as they are in the checkpoint; to insert one twice raises an exception
LoadAnnotations ==
  LET added == {a \in input.annotations : relocs.cu[a.cu] > relocs.existing}
  IN  /\ phase = "units"
      /\ Len(relocs.cu) = Len(input.cu)
      /\ IF \E a \in added, b \in annotations : a.unit = b.unit THEN Raise
         ELSE /\ annotations' = annotations \cup added
              /\ phase' = "coverage"
              /\ UNCHANGED <<cu, sco, bdd, inst, sci, files, provider, input,
                             relocs, inputs, saved>>

----------------------------------------------------------------------------
(* Coverage.Source and Traces_Files_Registry.                              *)

\* Coverage separated by something else cannot be merged into separate tags
DoMerge == provider \in {"default", input.provider}

\* Defect: instances keep the number they have in the checkpoint
MapTagUnmapped(tag) == IF provider = "default" THEN 0 ELSE tag

\* Map_Tag of the tag provider
MapTag(tag) ==
  IF provider = "default" \/ tag = 0 THEN 0 ELSE relocs.inst[tag]

\* What Merge_Checkpoint_SCI takes: a single outcome is of no use if the
\* decision may have been negated
UsableSCI ==
  {c \in input.sci : /\ c.sco \notin relocs.ignored
                     /\ input.sco[c.sco].degraded
                          => [c EXCEPT !.value = ~@] \in input.sci}

LoadCoverage ==
  /\ phase = "coverage"
  /\ IF DoMerge /\ \E c \in input.sci : /\ c.sco \notin relocs.ignored
                                        /\ relocs.sco[c.sco] \notin DOMAIN sco
     THEN Raise
     ELSE /\ sci' = sci \cup
               (IF ~DoMerge THEN {}
                ELSE {[sco |-> relocs.sco[c.sco], tag |-> MapTag(c.tag),
                       value |-> c.value] : c \in UsableSCI})
          /\ phase' = "files"
          /\ UNCHANGED <<tables, files, provider, input, relocs, inputs, saved>>

\* When coverage is not merged, the list of units that follows it has not been
\* read: trace files are read from there, which finds none or raises
LoadTraceFiles ==
  /\ phase = "files"
  /\ \/ /\ files' = IF DoMerge THEN files \cup input.files ELSE files
        /\ phase' = "loaded"
        /\ input' = <<>> /\ relocs' = <<>>
        /\ UNCHANGED <<tables, sci, provider, inputs, saved>>
     \/ ~DoMerge /\ Raise

\* Checkpoint_Save, if a checkpoint is asked for; then the run ends
End ==
  /\ phase \in {"traces", "loaded"}
  /\ \/ /\ Cardinality(saved) < MaxSaved
        /\ saved' = saved \cup {Checkpoint}
     \/ UNCHANGED saved
  /\ NextRun

Next ==
  \/ \E v \in Versions : LoadSCOs(v)
  \/ \E s \in DOMAIN sco, tag \in 0..Len(inst),
        values \in SUBSET BOOLEAN \ {{}} : ProcessTrace(s, tag, values)
  \/ \E cp \in saved : StartLoad(cp)
  \/ LoadNewUnit
  \/ MergeUnit
  \/ SkipUnit
  \/ LoadAnnotations
  \/ LoadCoverage
  \/ LoadTraceFiles
  \/ End

Spec == Init /\ [][Next]_vars

----------------------------------------------------------------------------
(* Properties.                                                             *)

\* Whatever the runs and checkpoints that its SCOs went through, a unit is in
\* the tables as if its SCOs had just been loaded: its range holds its SCOs and
\* they refer to each other, to its BDD nodes and instances
\* (Checkpoint_Load_New_Unit and Remap_BDD).
UnitsKeepShape ==
  \A c \in DOMAIN cu :
    LET u == cu[c]
        shape == SCOsOf[u.version]
        scos == Shifted(Len(shape), u.first - 1)
    IN  /\ u.last = u.first + Len(shape) - 1
        /\ \E n \in 0..Len(bdd) :
             LET nodes == Shifted(Len(NodesOf[u.version]), n)
             IN  /\ \A s \in DOMAIN shape :
                      sco[scos[s]] = Relocated(shape[s], c, scos, nodes)
                 /\ \A k \in DOMAIN NodesOf[u.version] :
                      LET node == NodesOf[u.version][k]
                      IN  bdd[nodes[k]] =
                            [sco |-> scos[node.sco],
                             dests |-> {nodes[d] : d \in node.dests}]
        /\ \A i \in DOMAIN InstancesOf[u.version] :
             LET e == InstancesOf[u.version][i]
             IN  inst[u.firstInst + i - 1] =
                   [cu |-> c,
                    enclosing |-> IF e = 0 THEN 0 ELSE u.firstInst + e - 1]

----------------------------------------------------------------------------
(* What a comment says, and checkpoints of checkpoints refute.             *)

\* "If this annotation comes from a compilation unit whose data is being
\* imported from this checkpoint, add it now (else it is assumed to be already
\* present)": once annotations are loaded, the known units have theirs.
AnnotationsPresent ==
  phase # "units" =>
    \A c \in DOMAIN cu : cu[c].version \in Annotated =>
      \E a \in annotations : a.unit = UnitOf[cu[c].version]

----------------------------------------------------------------------------
(* The abstract specification: coverage in terms of obligations.           *)

Obligation(t, c) ==
  LET u == t.cu[t.sco[c.sco].origin]
  IN  [version |-> u.version, index |-> c.sco - u.first + 1, value |-> c.value,
       instance |-> IF c.tag = 0 THEN 0 ELSE c.tag - u.firstInst + 1]

VersionsOf(t) == {t.cu[c].version : c \in DOMAIN t.cu}
Covered(t) == {Obligation(t, c) : c \in t.sci}

Obligations ==
  UNION {[version : {v}, index : DOMAIN SCOsOf[v], value : BOOLEAN,
          instance : 0..Len(InstancesOf[v])] : v \in Versions}

Meaning(t) == [known |-> VersionsOf(t), covered |-> Covered(t),
               separated |-> t.provider # "default"]

Promise == INSTANCE MergedCoverage WITH
  Degraded <- {o \in Obligations : SCOsOf[o.version][o.index].degraded},
  known <- VersionsOf(Checkpoint),
  covered <- Covered(Checkpoint),
  separated <- provider # "default",
  opened <- {Meaning(cp) : cp \in inputs},
  pending <- IF phase \in {"units", "coverage"} THEN {Meaning(input)} ELSE {},
  saved <- {Meaning(cp) : cp \in saved}

\* Consolidation adds to each obligation what checkpoints say of it and to no
\* other one, whatever the order in which units and checkpoints were loaded
\* and however each run numbered them (all of Checkpoint_Load and Save).
RefinesMergedCoverage == Promise!Spec

----------------------------------------------------------------------------
(* Why they hold: tables are concatenations of units, and relocations map  *)
(* the units of the checkpoint loaded so far onto those of the run.        *)

Units == [version : Versions, first : Nat \ {0}, last : Nat,
          firstInst : Nat \ {0}, lastInst : Nat]

\* Unit c of tables t, where its BDD nodes come after node n
UnitAt(t, c, n) ==
  LET u == t.cu[c]
      shape == SCOsOf[u.version]
      scos == Shifted(Len(shape), u.first - 1)
      nodes == Shifted(Len(NodesOf[u.version]), n)
      insts == InstancesOf[u.version]
  IN  /\ u.last = u.first - 1 + Len(shape) /\ u.last <= Len(t.sco)
      /\ u.lastInst = u.firstInst - 1 + Len(insts) /\ u.lastInst <= Len(t.inst)
      /\ n + Len(NodesOf[u.version]) <= Len(t.bdd)
      /\ \A s \in DOMAIN shape :
           t.sco[u.first - 1 + s] = Relocated(shape[s], c, scos, nodes)
      /\ \A k \in DOMAIN NodesOf[u.version] :
           t.bdd[n + k] = [sco |-> scos[NodesOf[u.version][k].sco],
                           dests |-> {nodes[d] : d \in NodesOf[u.version][k].dests}]
      /\ \A i \in DOMAIN insts :
           t.inst[u.firstInst - 1 + i] =
             [cu |-> c,
              enclosing |-> IF insts[i] = 0 THEN 0 ELSE u.firstInst - 1 + insts[i]]

TablesTyped(t) ==
  /\ t.cu \in Seq(Units) /\ t.sco \in Seq(Descriptors)
  /\ t.bdd \in Seq([sco : Nat, dests : SUBSET Nat])
  /\ t.inst \in Seq([cu : Nat, enclosing : Nat])
  /\ t.sci \subseteq [sco : 1..Len(t.sco), tag : Nat, value : BOOLEAN]
  /\ t.provider \in Providers

\* The unit of each SCO, and of the instance that coverage is tagged with
OriginsRight(t) ==
  /\ \A s \in 1..Len(t.sco) :
       LET c == t.sco[s].origin
       IN  c \in 1..Len(t.cu) /\ s \in t.cu[c].first..t.cu[c].last
  /\ \A x \in t.sci :
       LET u == t.cu[t.sco[x.sco].origin]
       IN  x.tag = 0 \/ x.tag \in u.firstInst..u.lastInst

UnitsOnce(t) ==
  \A c, d \in 1..Len(t.cu) :
    UnitOf[t.cu[c].version] = UnitOf[t.cu[d].version] => c = d

WellFormed(t) ==
  /\ TablesTyped(t) /\ OriginsRight(t) /\ UnitsOnce(t)
  /\ \A c \in 1..Len(t.cu) : \E n \in Nat : UnitAt(t, c, n)

\* What the relocations say of unit j of the checkpoint: its SCOs and instances
\* are those of the unit of the run, unless the versions differ
UnitMapped(j) ==
  LET u == input.cu[j]
      c == relocs.cu[j]
  IN  IF j <= Len(relocs.cu) /\ cu[c].version = u.version
      THEN /\ \A s \in DOMAIN SCOsOf[u.version] :
                relocs.sco[u.first - 1 + s] = cu[c].first - 1 + s
           /\ \A i \in DOMAIN InstancesOf[u.version] :
                relocs.inst[u.firstInst - 1 + i] = cu[c].firstInst - 1 + i
      ELSE \A s \in DOMAIN SCOsOf[u.version] : relocs.sco[u.first - 1 + s] = 0

RelocsRight ==
  /\ relocs \in [cu : Seq(Nat), existing : Nat, ignored : {{}},
                  sco : [DOMAIN input.sco -> Nat], bdd : [DOMAIN input.bdd -> Nat],
                  inst : [DOMAIN input.inst -> Int]]
  /\ Len(relocs.cu) <= Len(input.cu)
  /\ \A j \in 1..Len(relocs.cu) :
       /\ relocs.cu[j] \in 1..Len(cu)
       /\ UnitOf[cu[relocs.cu[j]].version] = UnitOf[input.cu[j].version]
  /\ \A j \in 1..Len(input.cu) : UnitMapped(j)

LoadInProgress ==
  /\ phase \in {"traces", "units", "coverage", "files", "loaded"}
  /\ phase = "traces" => inputs = {}
  /\ phase \in {"units", "coverage"} => input \in inputs /\ RelocsRight
  /\ phase = "coverage" => Len(relocs.cu) = Len(input.cu)
  /\ inputs \subseteq saved

IInv ==
  /\ WellFormed(Checkpoint) /\ LoadInProgress
  /\ \A cp \in saved : WellFormed(cp)
=============================================================================
