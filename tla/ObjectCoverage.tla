--------------------------- MODULE ObjectCoverage ---------------------------
(***************************************************************************)
(* Object coverage analysis over the trace database: Set_Insn_State        *)
(* (traces_elf.adb) splits the entries at their conditional branch and     *)
(* gives each part its state, then the state of a source line              *)
(* (coverage-object.adb) and of a routine (traces_names.adb) is computed   *)
(* from the entries that meet its code.                                    *)
(***************************************************************************)
EXTENDS TracesDbase, SequencesExt

CONSTANTS
  Insns,         \* the instructions: [first, last, cond]
  BranchLevel    \* whether branches are assessed, or instructions only

\* Last address of the block that conditional instruction i ends: its own,
\* or that of the next instruction, in its delay slot
EndOf(i) ==
  IF i.last \in BranchEnds THEN i.last
  ELSE (CHOOSE s \in Insns : s.first = i.last + 1).last

\* The instructions tile the code, and a delay slot has no conditional branch
\* ("there cannot be two consecutive branch instructions")
ASSUME InsnsAssumption ==
  /\ \A i \in Insns :
       /\ i.first \in 0..MaxPC /\ i.last \in i.first..MaxPC /\ i.cond \in BOOLEAN
       /\ i.cond /\ i.last \notin BranchEnds =>
            \E s \in Insns : s.first = i.last + 1 /\ ~s.cond
  /\ \A a \in 0..MaxPC : \E i \in Insns : a \in Span(i)
  /\ \A i, j \in Insns : i # j => Span(i) \cap Span(j) = {}
  /\ BranchEnds = {EndOf(i) : i \in {k \in Insns : k.cond}}
  /\ BranchLevel \in BOOLEAN

VARIABLE analyzed   \* Set_Insn_State is done

objVars == <<entries, calls, analyzed>>

\* What a trace producer emits for this code: whole instructions, never a
\* conditional one without its delay slot, and a direction exactly when the
\* block ended with its conditional branch; or no instruction at all, when the
\* first one faulted
WholeInsns(first, last, op) ==
  /\ \E i \in Insns : i.first = first
  /\ \E i \in Insns : i.last = last
  /\ \A i \in Insns :
       i.cond => (i.first \in first..last <=> EndOf(i) \in first..last)
  /\ (op \cap Directions # {}) <=> last \in BranchEnds \cap (first..last)

ReadTrace ==
  /\ \E first \in 0..MaxPC, op \in Ops :
       \E last \in (first - 1)..MaxPC :
         WholeInsns(first, last, op) /\ ProcessTraceEntry(first, last, op)
  /\ ~analyzed
  /\ UNCHANGED analyzed

AddTrace == AddEntry /\ UNCHANGED analyzed

----------------------------------------------------------------------------
(* Set_Insn_State.                                                         *)

InsnsOf(t) == {i \in Insns : Span(i) \subseteq Span(t)}

\* Defect: a delay slot is not looked for
LastCondLast(t) == CHOOSE i \in InsnsOf(t) : i.last = t.last

\* The instruction whose condition ends trace t, if it has one: the
\* penultimate one if conditional, for delay slots, otherwise the last
LastCond(t) ==
  LET last == CHOOSE i \in InsnsOf(t) : i.last = t.last
      penultimate == {i \in InsnsOf(t) : i.last = last.first - 1 /\ i.cond}
  IN  IF penultimate = {} THEN last ELSE CHOOSE i \in penultimate : TRUE

\* Defect: a branch that only fell through is taken for one that went both
\* ways
CondStateNoFallthrough(op) ==
  CASE op \cap Directions = {} -> "Covered"
    [] op \cap Directions = {"Br0"} -> "BranchTaken"
    [] OTHER -> "BothTaken"

\* State of a conditional instruction, from the flags of its trace
CondState(op) ==
  CASE op \cap Directions = {} -> "Covered"
    [] op \cap Directions = {"Br0"} -> "BranchTaken"
    [] op \cap Directions = {"Br1"} -> "FallthroughTaken"
    [] op \cap Directions = Directions -> "BothTaken"

\* Coverage_State: instruction coverage ignores directions
CoverageState(state) == IF BranchLevel THEN state ELSE "Covered"

\* The parts of trace t, split around its conditional instruction
StateParts(t) ==
  LET c == LastCond(t)
  IN  IF ~c.cond THEN {[t EXCEPT !.state = CoverageState("Covered")]}
      ELSE {p \in {Entry(t.first, c.first - 1, t.op, CoverageState("Covered")),
                   Entry(c.first, c.last, t.op, CoverageState(CondState(t.op))),
                   Entry(c.last + 1, t.last, t.op, CoverageState("Covered"))} :
              p.first <= p.last}

\* Done once all traces are read, and again, on the entries already split,
\* once padding is stripped from the end of the routine
SetInsnState ==
  /\ calls = <<>>
  /\ entries' = UNION {StateParts(t) : t \in entries}
  /\ analyzed' = TRUE
  /\ UNCHANGED calls

ObjInit == Init /\ analyzed = FALSE

ObjNext == ReadTrace \/ AddTrace \/ SetInsnState

ObjSpec == ObjInit /\ [][ObjNext]_objVars

----------------------------------------------------------------------------
(* State of the code of a source line, and of a routine.                   *)

\* Update_Line_State
UpdateLineState(state, insnState) ==
  LET full == insnState \in {"Covered", "BothTaken"}
  IN  CASE state = "NotCovered" ->
             IF insnState = "NotCovered" THEN "NotCovered"
             ELSE "PartiallyCovered"
        [] state = "PartiallyCovered" -> "PartiallyCovered"
        [] state = "Covered" -> IF full THEN "Covered" ELSE "PartiallyCovered"
        [] state = "NoCode" ->
             IF full THEN "Covered"
             ELSE IF insnState = "NotCovered" THEN "NotCovered"
             ELSE "PartiallyCovered"

InOrder(S) == SetToSortSeq(S, LAMBDA x, y : x.first < y.first)

\* PC_Range_Covered
PCRangeCovered(ranges, first, last) ==
  \A pc \in first..last : \E r \in ranges : pc \in Span(r)

\* The state accumulated over the entries met, in the order of their addresses:
\* below[n], over those that end below n
LineScan(met) ==
  LET below[n \in 0..(MaxPC + 1)] ==
        IF n = 0 THEN "NoCode"
        ELSE LET ending == {t \in met : t.last = n - 1}
             IN  IF ending = {} THEN below[n - 1]
                 ELSE UpdateLineState(below[n - 1], (CHOOSE t \in ending : TRUE).state)
  IN  below[MaxPC + 1]

\* Get_Line_State: Init_Post starts at the entry that contains first or
\* follows it, and the iteration stops past last
GetLineState(first, last) ==
  LET met == Conflicts([first |-> first, last |-> last])
  IN  IF met = {} THEN "NotCovered"
      ELSE IF PCRangeCovered(met, first, last) THEN LineScan(met)
      ELSE UpdateLineState(LineScan(met), "NotCovered")

\* Compute_Routine_State, for the routine 0..MaxPC: stop at the first gap,
\* then look for code left after the last entry
ComputeRoutineState ==
  LET step(r, t) ==
        IF r.gap THEN r
        ELSE IF t.first > r.addr
        THEN [r EXCEPT !.state = UpdateLineState(@, "NotCovered"),
                       !.gap = TRUE]
        ELSE [r EXCEPT !.state = UpdateLineState(@, t.state),
                       !.addr = t.last + 1]
      scan == FoldLeft(step, [state |-> "NoCode", addr |-> 0, gap |-> FALSE],
                       InOrder(entries))
      state == IF scan.addr < MaxPC THEN UpdateLineState(scan.state, "NotCovered")
               ELSE scan.state
  IN  IF state = "NoCode" THEN "NotCovered" ELSE state

----------------------------------------------------------------------------
(* Reference: the state of a run of instructions, from what was executed.  *)

\* Every instruction was executed, and every conditional one in both
\* directions at branch level
FullyExecuted(insns) ==
  \A i \in insns :
    /\ i.first \in Executed
    /\ i.cond /\ BranchLevel => Taken[EndOf(i)] = Directions

LineState(insns) ==
  IF \A i \in insns : i.first \notin Executed THEN "NotCovered"
  ELSE IF FullyExecuted(insns) THEN "Covered"
  ELSE "PartiallyCovered"

----------------------------------------------------------------------------
(* Properties.                                                             *)

\* Splitting, by overlapping traces and by Set_Insn_State, never cuts an
\* instruction: the disassembly of an entry falls on its end (otherwise
\* Set_Insn_State raises Program_Error).
EntriesWholeInsns ==
  \A e \in entries : /\ \E i \in Insns : i.first = e.first
                     /\ \E i \in Insns : i.last = e.last

\* The state of any run of instructions attached to a line is the one that
\* the instructions' own executions and directions define, however the
\* traces that executed them overlapped.
LineStateExact ==
  analyzed =>
    \A i, j \in Insns :
      i.first <= j.first =>
        GetLineState(i.first, j.last) =
          LineState({k \in Insns : k.first \in i.first..j.first})

\* A routine in state Covered, "The coverage criteria is satisfied"
\* (traces_lines.ads), has every instruction executed; the others are
\* reported as not fully covered (traces_dump.adb).
RoutineCoveredFully ==
  analyzed /\ ComputeRoutineState = "Covered" =>
    \A i \in Insns : i.first \in Executed

----------------------------------------------------------------------------
(* Why they hold.                                                          *)

\* Whole instructions, a conditional one with its delay slot, and a direction
\* for the branch that they end with
Whole(x) ==
  /\ \E i \in Insns : i.first = x.first
  /\ \E i \in Insns : i.last = x.last

SlotsWithin(x) ==
  \A i \in Insns : i.cond => (i.first \in Span(x) <=> EndOf(i) \in Span(x))

Directed(x) == BranchEnds \cap Span(x) # {} => x.op \cap Directions # {}

AsEmitted(x) == Whole(x) /\ SlotsWithin(x) /\ Directed(x)

\* However traces overlap, what they are cut into is like traces
ItemsAsEmitted ==
  ~analyzed =>
    /\ \A e \in entries : AsEmitted(e)
    /\ \A i \in 1..Len(calls) : AsEmitted(calls[i])

\* The analysis leaves entries that are one conditional instruction, with its
\* state, or have none; flags stay the same up to the end of the block.
EntryAnalyzed(e) ==
  /\ Whole(e) /\ Directed(e)
  /\ \/ /\ \E i \in Insns : i.cond /\ i.first = e.first /\ i.last = e.last
        /\ e.state = CoverageState(CondState(e.op))
     \/ /\ \A i \in Insns : i.cond => i.first \notin Span(e)
        /\ e.state = CoverageState("Covered")

EntriesAnalyzed ==
  analyzed =>
    /\ calls = <<>>
    /\ \A e \in entries : EntryAnalyzed(e)
    /\ \A e \in entries, i \in Insns :
         i.cond /\ i.first \in Span(e) =>
           \E g \in entries : EndOf(i) \in Span(g) /\ g.op = e.op

ObjIInv ==
  /\ IInv /\ analyzed \in BOOLEAN
  /\ ItemsAsEmitted /\ EntriesAnalyzed
=============================================================================
