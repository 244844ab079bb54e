----------------------------- MODULE ReportNotes -----------------------------
(***************************************************************************)
(* Reading of a coverage report by the testsuite (RnotesExpander,          *)
(* SCOV/internals/rnexpanders.py): line by line, with a current block, the *)
(* counts that close blocks and those of the final summary. The report is  *)
(* what annotations-report.adb writes, possibly damaged.                   *)
(***************************************************************************)
EXTENDS CoverageNotes, SequencesExt

CONSTANTS
  Coverages,   \* what gnatcov may have found: sequences of notes
  Levels       \* coverage levels of the run

ASSUME ReportAssumption ==
  /\ Levels \subseteq {"stmt", "stmt+decision", "stmt+mcdc", "stmt+uc_mcdc"}
  /\ \A notes \in Coverages : \A i \in DOMAIN notes :
       {"kind", "segment", "stag"} \subseteq DOMAIN notes[i]

VARIABLES
  level,       \* --level
  violations,  \* what gnatcov found
  condition,   \* what became of the report: "intact" or "damaged", then
               \* "read", or "blank" without any block (nothing reads this)
  report,      \* lines still to read
  rs,          \* current block, or "none"
  starts,      \* start_hits, as a count by block
  ends,        \* end_hits, as a count by block
  found,       \* notes recognized, by block
  ecount,      \* count validated at the end of a block, or NoCount
  checked,     \* blocks whose summary line was seen
  enotes,      \* emitted notes, in order
  failed,      \* thistest.failed was called
  reading      \* "read", "done", or "aborted" by an exception

reportVars == <<level, violations, condition, report, rs, starts, ends, found, ecount,
                checked, enotes, failed, reading>>

NoCount == 99

----------------------------------------------------------------------------
(* The blocks of RblockSet.                                                *)

VioSections == {"STMT", "DECISION", "UC_MCDC", "MCDC"}
NoteBlocks == VioSections \cup {"NCI", "XRE", "OER"}
Transparent == {"CTX", "CV"}
Unexpected == {"Usection", "Uchapter"}
Blocks == NoteBlocks \cup Transparent \cup Unexpected \cup {"SMR"}

\* Diagnostics that each block recognizes, and the kind they stand for
DecisionDiags == [false |-> "dfNoCov", true |-> "dtNoCov", never |-> "dNoCov",
                  both |-> "dPartCov"]
MCDCDiags == [false |-> "efNoCov", true |-> "etNoCov", never |-> "eNoCov",
              both |-> "ePartCov", pair |-> "cPartCov"]
ReNotes ==
  [STMT |-> [notexec |-> "sNoCov", multiple |-> "sPartCov"],
   DECISION |-> DecisionDiags, UC_MCDC |-> MCDCDiags, MCDC |-> MCDCDiags,
   NCI |-> [nocode |-> "sNotCoverable", alwaysT |-> "dtAlways",
            alwaysF |-> "dfAlways"],
   XRE |-> [zero |-> "xBlock0", some |-> "xBlock1"]]

\* Text of the line that ends a block, after the count
EndText(block) ==
  CASE block \in VioSections -> "violation"
    [] block = "OER" -> "message"
    [] block = "XRE" -> "exempted region"
    [] block = "NCI" -> "exclusion"
    [] block = "SMR" -> "END OF REPORT"

\* Defect: the summary is expected to repeat the end of each block
SummaryTextAsEnd(block) == EndText(block)

\* Text of the line of the summary that repeats the count of a block
SummaryText(block) ==
  CASE block \in VioSections -> block
    [] block = "NCI" -> "coverage exclusion"
    [] OTHER -> EndText(block)

\* The line ends the block; transparent and unexpected blocks end at once
EndsOn(block, line) ==
  IF block \in Transparent \cup Unexpected THEN TRUE
  ELSE line.t = "count" /\ line.text = EndText(block)

----------------------------------------------------------------------------
(* The report of gnatcov.                                                  *)

Start(block) == [t |-> "start", block |-> block]
Count(text, n) == [t |-> "count", text |-> text, n |-> n]
Text == [t |-> "text"]

SectionsOf(lvl) ==
  CASE lvl = "stmt" -> <<"STMT">>
    [] lvl = "stmt+decision" -> <<"STMT", "DECISION">>
    [] lvl = "stmt+mcdc" -> <<"STMT", "DECISION", "MCDC">>
    [] lvl = "stmt+uc_mcdc" -> <<"STMT", "DECISION", "UC_MCDC">>

\* The notes of a section, with the diagnostic that its kind stands for
DiagIn(block, kind) ==
  CHOOSE d \in DOMAIN ReNotes[block] : ReNotes[block][d] = kind
NotesIn(block, notes) ==
  SelectSeq(notes, LAMBDA n : \E d \in DOMAIN ReNotes[block] :
                                ReNotes[block][d] = n.kind)
NoteLine(block, n) ==
  [t |-> "note", diag |-> DiagIn(block, n.kind), segment |-> n.segment,
   stag |-> n.stag]
NoteLines(block, notes) ==
  LET ns == NotesIn(block, notes)
  IN  [i \in DOMAIN ns |-> NoteLine(block, ns[i])]

Block(block, notes) ==
  <<Start(block)>> \o NoteLines(block, notes)
    \o <<Count(EndText(block), Len(NotesIn(block, notes)))>>

Summary(block, notes) ==
  <<Count(SummaryText(block), Len(NotesIn(block, notes)))>>

\* Pretty_Print_End: exclusions and exempted regions have chapters of their
\* own when there are some
Rendered(lvl, notes) ==
  LET chapters == SelectSeq(<<"NCI", "XRE">>, LAMBDA b : NotesIn(b, notes) # <<>>)
      blocks == SectionsOf(lvl) \o chapters
      all(Op(_, _)) ==
        FlattenSeq([i \in DOMAIN blocks |-> Op(blocks[i], notes)])
  IN  <<Start("CTX"), Text, Start("CV"), Text>> \o all(Block)
        \o <<Start("SMR")>> \o all(Summary) \o <<Count("END OF REPORT", 0)>>

\* What may become of it: nothing, or one line is lost, repeated or
\* unrecognizable, or the end is missing
Damaged(lines) ==
  {lines}
    \cup {RemoveAt(lines, i) : i \in DOMAIN lines}
    \cup {InsertAt(lines, i, lines[i]) : i \in DOMAIN lines}
    \cup {ReplaceAt(lines, i, Text) : i \in DOMAIN lines}
    \cup {SubSeq(lines, 1, i) : i \in 0..(Len(lines) - 1)}

\* Notes that the level has sections for
Reportable(lvl, notes) ==
  \A i \in DOMAIN notes :
    \E block \in ToSet(SectionsOf(lvl)) \cup {"NCI", "XRE"} :
      \E d \in DOMAIN ReNotes[block] : ReNotes[block][d] = notes[i].kind

NothingRead ==
  /\ rs = "none"
  /\ starts = [b \in Blocks |-> 0]
  /\ ends = [b \in Blocks |-> 0]
  /\ found = [b \in NoteBlocks |-> 0]
  /\ ecount = [b \in NoteBlocks |-> NoCount]
  /\ checked = {}

ReportInit ==
  /\ level \in Levels
  /\ violations \in {notes \in Coverages : Reportable(level, notes)}
  /\ report \in Damaged(Rendered(level, violations))
  /\ condition = IF report = Rendered(level, violations) THEN "intact"
                 ELSE "damaged"
  /\ NothingRead
  /\ enotes = <<>>
  /\ failed = FALSE
  /\ reading = "read"

----------------------------------------------------------------------------
(* RnotesExpander.process_tline, one case per action.                      *)

NextLine ==
  /\ reading = "read"
  /\ report # <<>>
  /\ report' = Tail(report)
  /\ UNCHANGED <<level, violations, condition>>

line == Head(report)
InBlock == rs # "none" /\ line.t # "start"

\* A block starts, whether or not the current one has ended
StartBlock ==
  /\ NextLine
  /\ line.t = "start"
  /\ rs' = line.block
  /\ starts' = [starts EXCEPT ![line.block] = @ + 1]
  /\ UNCHANGED <<ends, found, ecount, checked, enotes, failed, reading>>

\* Defect: the count that ends a block is not compared
EndBlockUnchecked ==
  /\ NextLine
  /\ InBlock
  /\ EndsOn(rs, line)
  /\ ends' = [ends EXCEPT ![rs] = @ + 1]
  /\ ecount' = IF rs \in NoteBlocks THEN [ecount EXCEPT ![rs] = line.n]
               ELSE ecount
  /\ rs' = "none"
  /\ UNCHANGED <<starts, found, checked, enotes, failed, reading>>

\* The current block ends, and validates its count if it holds notes
EndBlock ==
  /\ NextLine
  /\ InBlock
  /\ EndsOn(rs, line)
  /\ ends' = [ends EXCEPT ![rs] = @ + 1]
  /\ IF rs \in NoteBlocks
     THEN /\ ecount' = [ecount EXCEPT ![rs] = found[rs]]
          /\ failed' = (failed \/ line.n # found[rs])
     ELSE UNCHANGED <<ecount, failed>>
  /\ rs' = "none"
  /\ UNCHANGED <<starts, found, checked, enotes, reading>>

\* A diagnostic in a block of notes. A block of other errors knows none.
ParseEnote ==
  /\ NextLine
  /\ InBlock /\ ~EndsOn(rs, line)
  /\ rs \in NoteBlocks
  /\ line.t = "note"
  /\ IF rs # "OER" /\ line.diag \in DOMAIN ReNotes[rs]
     THEN /\ enotes' = Append(enotes, [kind |-> ReNotes[rs][line.diag],
                                       segment |-> line.segment,
                                       stag |-> line.stag])
          /\ found' = [found EXCEPT ![rs] = @ + 1]
          /\ UNCHANGED failed
     ELSE failed' = TRUE /\ UNCHANGED <<enotes, found>>
  /\ UNCHANGED <<rs, starts, ends, ecount, checked, reading>>

\* A line of the summary, against the count of the blocks it may be about.
\* The count of a block that did not end is an attribute never set.
ParseSummary ==
  /\ NextLine
  /\ InBlock /\ ~EndsOn(rs, line)
  /\ rs = "SMR"
  /\ LET about == {b \in NoteBlocks \ checked :
                     line.t = "count" /\ SummaryText(b) = line.text}
     IN  IF \E b \in about : ecount[b] = NoCount
         THEN /\ failed' = TRUE
              /\ reading' = "aborted"
              /\ UNCHANGED checked
         ELSE /\ failed' = (failed \/ \E b \in about : \/ ecount[b] # line.n
                                                       \/ starts[b] # 1)
              /\ checked' = checked \cup about
              /\ UNCHANGED reading
  /\ UNCHANGED <<rs, starts, ends, found, ecount, enotes>>

\* Out of any block, or not a diagnostic
SkipLine ==
  /\ NextLine
  /\ line.t # "start"
  /\ \/ rs = "none"
     \/ InBlock /\ ~EndsOn(rs, line) /\ rs \in NoteBlocks /\ line.t # "note"
  /\ UNCHANGED <<rs, starts, ends, found, ecount, checked, enotes, failed,
                 reading>>

\* RblockSet.check, once the report is read
CheckBlocks ==
  /\ reading = "read"
  /\ report = <<>>
  /\ failed' = \/ failed
               \/ \E b \in Blocks \ Unexpected : starts[b] # ends[b]
               \/ \E b \in Unexpected : starts[b] > 0
               \/ \E b \in NoteBlocks : starts[b] > 0 /\ b \notin checked
  /\ reading' = "done"
  /\ UNCHANGED <<level, violations, condition, report, rs, starts, ends, found, ecount,
                 checked, enotes>>

ReadReport ==
  \/ StartBlock
  \/ EndBlock
  \/ ParseEnote
  \/ ParseSummary
  \/ SkipLine
  \/ CheckBlocks

----------------------------------------------------------------------------
(* Properties.                                                             *)

\* As many notes of each sort on both sides, whatever their order
SameNotes(s, t) ==
  \A n \in ToSet(s) \cup ToSet(t) :
    Len(SelectSeq(s, LAMBDA x : x = n)) = Len(SelectSeq(t, LAMBDA x : x = n))

HasBlocks == \E b \in NoteBlocks : starts[b] > 0

\* A report that was read without a failure gave exactly the notes that
\* gnatcov found, as soon as it holds one block: no line that is lost,
\* repeated or not understood changes them unnoticed (counts of blocks,
\* summary, starts and ends). A report that stops before its first block has
\* no count to check, and is read as one without notes.
NothingLostSilently ==
  reading = "done" /\ ~failed /\ HasBlocks => SameNotes(enotes, violations)

\* A report as gnatcov writes it, at any level, never makes the reading fail.
IntactReportRead ==
  reading # "read" /\ condition = "intact" => ~failed
=============================================================================
