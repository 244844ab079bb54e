---------------------------- MODULE TracesDbase ----------------------------
(***************************************************************************)
(* The trace database of object coverage (traces_dbase.adb): an ordered set*)
(* of disjoint address ranges, each with the operation flags accumulated   *)
(* over the traces that executed it.  Add_Entry splits the entries that a  *)
(* new trace overlaps; it is recursive, and is modelled one call at a time:*)
(* calls is the stack of the calls still to make and of the merges that    *)
(* their callers will do after them, with the entry they captured before.  *)
(***************************************************************************)
EXTENDS Integers, Sequences

CONSTANTS
  MaxPC,       \* bound: code addresses are 0..MaxPC
  BranchEnds,  \* last address of each conditional branch instruction
  Ops          \* operations that traces come with

Flags == {"Block", "Fault", "Br0", "Br1"}

ASSUME CodeAssumption ==
  /\ MaxPC \in Nat
  /\ BranchEnds \subseteq 0..MaxPC
  /\ Ops \subseteq SUBSET Flags

VARIABLES
  entries,  \* Base.Entries
  calls     \* Add_Entry calls and merges to do, innermost first

vars == <<entries, calls>>

Entry(first, last, op, state) ==
  [first |-> first, last |-> last, op |-> op, state |-> state]

Span(x) == x.first..x.last

\* Overlapping ranges are equal for the ordered set (Is_Equal, Is_Smaller)
Overlap(x, y) == x.first <= y.last /\ x.last >= y.first
Conflicts(x) == {e \in entries : Overlap(x, e)}

\* Defect: the search ends on the first one
ConflictFirst(x) ==
  CHOOSE e \in Conflicts(x) : \A o \in Conflicts(x) : o.first >= e.first

\* The element that a failed Insert designates: among those it is neither
\* before nor after, the search of the container ends on the last one
Conflict(x) ==
  CHOOSE e \in Conflicts(x) : \A o \in Conflicts(x) : o.first <= e.first

AddCall(first, last, op) ==
  [at |-> "add", first |-> first, last |-> last, op |-> op]

\* Merge with entry into, captured before the recursive calls
MergeCall(first, last, op, into) ==
  [at |-> "merge", first |-> first, last |-> last, op |-> op, into |-> into]

\* A new branch outcome for a block that an earlier trace executed
NewOutcome(op) == op \cap {"Block", "Fault"} = {}

Recorded == {a \in 0..MaxPC : \E e \in entries : a \in Span(e)}

\* What trace producers emit: a conditional branch ends its block, and an
\* operation without the block flag comes after that of the whole block
Emitted(first, last, op) ==
  /\ \A a \in BranchEnds : a \in first..last => a = last
  /\ NewOutcome(op) => first <= last /\ first..last \subseteq Recorded
                       /\ last \in BranchEnds

----------------------------------------------------------------------------

Init ==
  /\ entries = {}
  /\ calls = <<>>

\* Process_Trace_Entry: one more trace is read from a trace file.  A trace of
\* size 0 has its last address just before the first.
ProcessTraceEntry(first, last, op) ==
  /\ calls = <<>>
  /\ Emitted(first, last, op)
  /\ calls' = <<AddCall(first, last, op)>>
  /\ UNCHANGED entries

Call == Head(calls)

\* Add_Entry discards an empty trace
DiscardEmpty ==
  /\ calls # <<>> /\ Call.at = "add"
  /\ Call.last < Call.first
  /\ calls' = Tail(calls)
  /\ UNCHANGED entries

\* The range overlaps no entry: Insert succeeds
InsertEntry ==
  /\ calls # <<>> /\ Call.at = "add"
  /\ Call.first <= Call.last
  /\ Conflicts(Call) = {}
  /\ entries' = entries \cup {Entry(Call.first, Call.last, Call.op, "Unknown")}
  /\ calls' = Tail(calls)

\* Conflict, without Block or Fault: just merge flags
MergeFlags ==
  /\ calls # <<>> /\ Call.at = "add"
  /\ Call.first <= Call.last
  /\ Conflicts(Call) # {}
  /\ NewOutcome(Call.op)
  /\ LET e == Conflict(Call)
     IN  entries' = (entries \ {e})
                      \cup {Entry(e.first, e.last, Call.op \cup e.op, e.state)}
  /\ calls' = Tail(calls)

\* The calls for the parts of x before and after entry e, when not empty
Outside(x, e) ==
  (IF x.first < e.first THEN <<AddCall(x.first, e.first - 1, x.op)>> ELSE <<>>)
  \o
  (IF x.last > e.last THEN <<AddCall(e.last + 1, x.last, x.op)>> ELSE <<>>)

\* Defect: the part within e is not clipped
InsideUnclipped(x, e) == MergeCall(x.first, x.last, x.op, e)

\* The part of x within entry e
Inside(x, e) ==
  MergeCall(IF x.first < e.first THEN e.first ELSE x.first,
            IF x.last > e.last THEN e.last ELSE x.last, x.op, e)

\* Conflict: first add entries for before and after, then merge
SplitCall ==
  /\ calls # <<>> /\ Call.at = "add"
  /\ Call.first <= Call.last
  /\ Conflicts(Call) # {}
  /\ ~NewOutcome(Call.op)
  /\ LET e == Conflict(Call)
     IN  calls' = Outside(Call, e) \o <<Inside(Call, e)>> \o Tail(calls)
  /\ UNCHANGED entries

\* Defect: the last piece starts at the end of the merged part
PiecesTailOverlaps(e, first, last, op) ==
  {p \in {Entry(e.first, first - 1, e.op, e.state),
          Entry(first, last, op \cup e.op, e.state),
          Entry(last, e.last, e.op, e.state)} : p.first <= p.last}

\* The entries that replace entry e once flags op are merged into the part
\* first..last of it
Pieces(e, first, last, op) ==
  {p \in {Entry(e.first, first - 1, e.op, e.state),
          Entry(first, last, op \cup e.op, e.state),
          Entry(last + 1, e.last, e.op, e.state)} : p.first <= p.last}

MergeEntry ==
  /\ calls # <<>> /\ Call.at = "merge"
  /\ entries' = (entries \ {Call.into})
                  \cup Pieces(Call.into, Call.first, Call.last, Call.op)
  /\ calls' = Tail(calls)

AddEntry ==
  DiscardEmpty \/ InsertEntry \/ MergeFlags \/ SplitCall \/ MergeEntry

Next ==
  \/ \E first \in 0..MaxPC, op \in Ops :
       \E last \in (first - 1)..MaxPC : ProcessTraceEntry(first, last, op)
  \/ AddEntry

Spec == Init /\ [][Next]_vars

----------------------------------------------------------------------------
(* Type invariant.                                                         *)

InsnStates ==
  {"Unknown", "NotCovered", "Covered", "BranchTaken", "FallthroughTaken",
   "BothTaken"}
EntryType ==
  [first : 0..MaxPC, last : 0..MaxPC, op : SUBSET Flags, state : InsnStates]
AddCallType ==
  [at : {"add"}, first : 0..MaxPC, last : -1..MaxPC, op : SUBSET Flags]
MergeCallType ==
  [at : {"merge"}, first : 0..MaxPC, last : 0..MaxPC, op : SUBSET Flags,
   into : EntryType]

TypeOK ==
  /\ entries \subseteq EntryType
  /\ calls \in Seq(AddCallType \cup MergeCallType)

----------------------------------------------------------------------------
(* Safety.                                                                 *)

\* The entries stay non-empty and pairwise disjoint: Is_Equal then is an
\* equivalence on them, as the ordered set requires of its elements, and the
\* Insert calls that merges rely on never meet an existing element.
EntriesDisjoint ==
  /\ \A e \in entries : e.first <= e.last
  /\ \A e, g \in entries : e # g => ~Overlap(e, g)

\* The entry that a merge captured before its recursive calls is still in
\* the database when they return, although they split other entries.
CapturedEntriesKept ==
  \A i \in 1..Len(calls) :
    calls[i].at = "merge" =>
      /\ calls[i].into \in entries
      /\ calls[i].first <= calls[i].last
      /\ Span(calls[i]) \subseteq Span(calls[i].into)

\* Pending calls are about different addresses, and no entry reaches from
\* one to another: a call never works on an entry that a caller will split.
CallsApart ==
  \A i, j \in 1..Len(calls) :
    i # j =>
      /\ Span(calls[i]) \cap Span(calls[j]) = {}
      /\ calls[i].at = "merge" =>
           Span(calls[i].into) \cap Span(calls[j]) = {}
      /\ calls[i].at = "add" /\ calls[j].at = "add" =>
           \A e \in entries : Span(e) \cap Span(calls[i]) = {}
                              \/ Span(e) \cap Span(calls[j]) = {}

\* An entry or a call that contains the end of a conditional branch ends
\* there: Set_Insn_State finds the branch, if any, at the end of an entry.
BranchesLast ==
  \A a \in BranchEnds :
    /\ \A e \in entries : a \in Span(e) => a = e.last
    /\ \A i \in 1..Len(calls) : a \in Span(calls[i]) => a = calls[i].last

\* New outcomes are for addresses the database already has
NewOutcomesRecorded ==
  \A i \in 1..Len(calls) :
    NewOutcome(calls[i].op) =>
      /\ Len(calls) = 1
      /\ calls[i].at = "add"
      /\ calls[i].first <= calls[i].last
      /\ Span(calls[i]) \subseteq Recorded
      /\ calls[i].last \in BranchEnds

IInv ==
  /\ TypeOK /\ EntriesDisjoint /\ CapturedEntriesKept /\ CallsApart
  /\ BranchesLast /\ NewOutcomesRecorded

----------------------------------------------------------------------------
(* Refinement: reading a trace records its range and directions at once;   *)
(* the steps of Add_Entry change neither.                                  *)

Directions == {"Br0", "Br1"}

Executed ==
  {a \in 0..MaxPC : \/ \E e \in entries : a \in Span(e)
                    \/ \E i \in 1..Len(calls) : a \in Span(calls[i])}

Taken ==
  [a \in BranchEnds |->
     {d \in Directions :
        \/ \E e \in entries : a \in Span(e) /\ d \in e.op
        \/ \E i \in 1..Len(calls) : a \in Span(calls[i]) /\ d \in calls[i].op}]

Code == INSTANCE ExecutedCode WITH executed <- Executed, taken <- Taken

\* The database holds, for every address and every conditional branch, what
\* all the traces read so far say of it, neither more nor less.
RefinesExecutedCode == Code!Spec
=============================================================================
