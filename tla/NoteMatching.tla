---------------------------- MODULE NoteMatching ----------------------------
(***************************************************************************)
(* Comparison of the emitted notes of a source with the expected ones      *)
(* (check_expectations and _Xchecker, SCOV/internals/driver.py), after the *)
(* report was read. For annotated sources, the emitted notes are one note  *)
(* per line (lnexpanders.py).                                              *)
(***************************************************************************)
EXTENDS ReportNotes

CONSTANTS
  Expectations,     \* expected report notes of a source: sequences
  LineExpectations, \* expected line notes of a source: sequences
  Listings,         \* annotated sources: marks of their lines
  Categories,       \* test categories, among "stmt", "decision", "mcdc", "none"
  Formats           \* "report", and "xcov" unless for qualification

ASSUME MatchingAssumption ==
  /\ Categories \subseteq {"stmt", "decision", "mcdc", "none"}
  /\ Formats \subseteq {"report", "xcov"}

VARIABLES
  category,   \* of the test
  format,     \* of the coverage results that are checked
  checking,   \* the comparison has started
  verdict,    \* "" until the comparison is over, then "pass" or "fail"
  xnotes,     \* expected notes of the source
  kinds,      \* kinds of expectations to process, the current one first
  todo,       \* expectations of that kind not looked at yet
  discharges, \* emitted note -> expectation it discharges, or 0
  complaints  \* failures registered for notes

matchVars == <<category, format, checking, verdict, xnotes, kinds, todo, discharges, complaints>>
vars == <<reportVars, matchVars>>

----------------------------------------------------------------------------
(* check_expectations: what is relevant for the category and level.        *)

Strength(x) ==
  CASE x = "stmt" -> 1
    [] x \in {"decision", "stmt+decision"} -> 2
    [] x \in {"mcdc", "stmt+mcdc", "stmt+uc_mcdc"} -> 3

StricterLevel == category # "none" /\ Strength(level) > Strength(category)

\* The level of tests without a category is never the unique cause variant,
\* for which the table has no entry
RelevanceCat ==
  IF category # "none" THEN category
  ELSE [l \in {"stmt", "stmt+decision", "stmt+mcdc"} |->
          CASE l = "stmt" -> "stmt"
            [] l = "stmt+decision" -> "decision"
            [] l = "stmt+mcdc" -> "mcdc"][level]

RelevantEmitted ==
  IF format = "xcov" THEN elNoteKinds
  ELSE tNoteKinds \o xNoteKinds \o sNoteKinds
         \o (IF RelevanceCat = "stmt" THEN <<>> ELSE dNoteKinds)
         \o (IF RelevanceCat = "mcdc" THEN cNoteKinds ELSE <<>>)

RelevantExpected ==
  IF format = "xcov" THEN elNoteKinds ELSE RelevantEmitted \o rAntiKinds

\* Kinds of emitted notes that may discharge an expectation of kind xkind,
\* in the order they are tried: micro relaxations for stricter levels, and
\* everything for anti-expectations
DischargeKinds(xkind) ==
  CASE AntiP(xkind) -> RelevantEmitted
    [] StricterLevel /\ xkind = "xBlock0" -> <<"xBlock0", "xBlock1">>
    [] StricterLevel /\ xkind = "lFullCov" -> <<"lFullCov", "lPartCov">>
    [] StricterLevel /\ xkind = "lx0" -> <<"lx0", "lx1">>
    [] OTHER -> <<xkind>>

\* Indices of the notes of a kind, in order
OfKind(notes, kind) ==
  SelectSeq([i \in DOMAIN notes |-> i], LAMBDA i : notes[i].kind = kind)

----------------------------------------------------------------------------
(* Notes of an annotated source, from the mark of each line (NK_for).      *)

NKFor == [NoCode |-> "lNoCode", NotCoverable |-> "lNotCoverable",
          Full |-> "lFullCov", None |-> "lNoCov", Partial |-> "lPartCov",
          Exempt |-> "lx0", ExemptViolation |-> "lx1"]

ListingNotes(marks) ==
  [l \in DOMAIN marks |-> [kind |-> NKFor[marks[l]], segment |-> Line(l),
                           stag |-> NoStag]]

----------------------------------------------------------------------------
(* _Xchecker.run.                                                          *)

\* The kinds that have expectations, in the order of the list
KindsToProcess(relevant, xns) ==
  SelectSeq(relevant, LAMBDA k : OfKind(xns, k) # <<>>)

\* Both sets of notes are known, the blocks of the report are dropped
BeginCheck ==
  /\ reading = "done"
  /\ ~checking
  /\ checking' = TRUE
  /\ xnotes' \in IF format = "xcov" THEN LineExpectations ELSE Expectations
  /\ discharges' = [i \in DOMAIN enotes |-> 0]
  /\ kinds' = KindsToProcess(RelevantExpected, xnotes')
  /\ todo' = IF kinds' = <<>> THEN <<>> ELSE OfKind(xnotes', Head(kinds'))
  /\ condition' = IF format = "xcov" \/ HasBlocks THEN "read" ELSE "blank"
  /\ rs' = "none"
  /\ starts' = [b \in Blocks |-> 0]
  /\ ends' = [b \in Blocks |-> 0]
  /\ found' = [b \in NoteBlocks |-> 0]
  /\ ecount' = [b \in NoteBlocks |-> NoCount]
  /\ checked' = {}
  /\ UNCHANGED <<level, violations, report, enotes, failed, reading, category,
                 format, verdict, complaints>>

\* Defect: a note may answer several expectations
CandidatesShared(xn) ==
  LET answer(i) == Discharges(enotes[i], xn)
      ofkind(kind) == SelectSeq(OfKind(enotes, kind), answer)
      ekinds == DischargeKinds(xn.kind)
  IN  FlattenSeq([k \in DOMAIN ekinds |-> ofkind(ekinds[k])])

Candidates(xn) ==
  LET answer(i) == discharges[i] = 0 /\ Discharges(enotes[i], xn)
      ofkind(kind) == SelectSeq(OfKind(enotes, kind), answer)
      ekinds == DischargeKinds(xn.kind)
  IN  FlattenSeq([k \in DOMAIN ekinds |-> ofkind(ekinds[k])])

\* try_sat_over, for each kind in turn: the first note that answers the
\* expectation and no other one
TrySatOver ==
  /\ checking
  /\ todo # <<>>
  /\ todo' = Tail(todo)
  /\ LET x == Head(todo)
         candidates == Candidates(xnotes[x])
     IN  discharges' = IF candidates = <<>> THEN discharges
                       ELSE [discharges EXCEPT ![Head(candidates)] = x]
  /\ UNCHANGED <<reportVars, category, format, checking, verdict, xnotes, kinds,
                 complaints>>

Satisfied(x) == \E i \in DOMAIN enotes : discharges[i] = x

\* In the fuzzy block of x, an expectation of its kind is satisfied. What is
\* satisfied is forgotten from one kind to the next.
FuzzyOK(x) ==
  /\ xnotes[x].block # 0
  /\ DeviationP(xnotes[x].kind) \/ PositiveP(xnotes[x].kind)
  /\ \E y \in DOMAIN xnotes :
       /\ xnotes[y].block = xnotes[x].block
       /\ xnotes[y].kind = xnotes[x].kind
       /\ Satisfied(y)

Missing(x) ==
  /\ ~Satisfied(x)
  /\ ~xnotes[x].weak
  /\ ~AntiP(xnotes[x].kind)
  /\ ~FuzzyOK(x)

\* process_unsat, for all blocks, once the expectations of a kind were tried
ProcessUnsat ==
  /\ checking
  /\ todo = <<>> /\ kinds # <<>>
  /\ complaints' = complaints \cup
       {<<"missing", x>> : x \in {y \in ToSet(OfKind(xnotes, Head(kinds))) : Missing(y)}}
  /\ kinds' = Tail(kinds)
  /\ todo' = IF kinds' = <<>> THEN <<>> ELSE OfKind(xnotes, Head(kinds'))
  /\ UNCHANGED <<reportVars, category, format, checking, verdict, xnotes,
                 discharges>>

\* A note that answers no expectation, or an anti-expectation
Offends(i) ==
  /\ StrictP(enotes[i].kind)
  /\ discharges[i] = 0 \/ AntiP(xnotes[discharges[i]].kind)

\* process_ekind, for all relevant kinds, and the outcome for the test
ProcessEkinds ==
  /\ checking /\ verdict = ""
  /\ kinds = <<>>
  /\ complaints' = complaints \cup
       {<<"unexpected", i>> :
          i \in {j \in DOMAIN enotes : /\ enotes[j].kind \in ToSet(RelevantEmitted)
                                       /\ Offends(j)}}
  /\ verdict' = IF failed \/ complaints' # {} THEN "fail" ELSE "pass"
  /\ UNCHANGED <<reportVars, category, format, checking, xnotes, kinds, todo,
                 discharges>>

----------------------------------------------------------------------------

\* The report is still to be read; a listing is taken as a whole
Init ==
  /\ format \in Formats
  /\ category \in Categories
  /\ IF format = "report" THEN ReportInit
     ELSE /\ level \in Levels
          /\ enotes \in {ListingNotes(marks) : marks \in Listings}
          /\ violations = enotes
          /\ condition = "intact"
          /\ report = <<>>
          /\ NothingRead
          /\ failed = FALSE
          /\ reading = "done"
  /\ category # "none" => Strength(level) >= Strength(category)
  /\ level = "stmt+uc_mcdc" => category # "none"
  /\ checking = FALSE
  /\ verdict = ""
  /\ xnotes = <<>>
  /\ kinds = <<>>
  /\ todo = <<>>
  /\ discharges = <<>>
  /\ complaints = {}

Next ==
  \/ ReadReport /\ UNCHANGED matchVars
  \/ BeginCheck
  \/ TrySatOver
  \/ ProcessUnsat
  \/ ProcessEkinds

Spec == Init /\ [][Next]_vars

----------------------------------------------------------------------------
(* Reference: an assignment of the notes to the expectations.              *)

\* Where a section lies, in lines of MaxColumn columns
MaxColumn == 3
Extent(s) ==
  {<<l, c>> \in (s.l0..s.l1) \X (1..MaxColumn) :
     /\ l = s.l0 /\ s.c0 # 0 => c >= s.c0
     /\ l = s.l1 /\ s.c1 # 0 => c <= s.c1}

\* Note n is what expectation x asks for, or what it turns into when the
\* level is stricter than the category of the test
Answers(n, x) ==
  /\ \/ n.kind = x.kind
     \/ StricterLevel /\ <<n.kind, x.kind>> \in {<<"xBlock1", "xBlock0">>,
                              <<"lPartCov", "lFullCov">>, <<"lx1", "lx0">>}
  /\ Extent(n.segment) \subseteq Extent(x.segment)
  /\ (n.stag = NoStag) = (x.stag = NoStag)
  /\ n.stag # NoStag => StagMatch(n.stag, x.stag)

Relevant(notes, relevant) == {i \in DOMAIN notes : notes[i].kind \in ToSet(relevant)}

\* The notes can be shared out among the expectations: each strict one to an
\* expectation of its own that it answers, so that no firm expectation is
\* left, nor any of a fuzzy block none of which has one: there, one of a similar
\* kind (positive or deviation) makes up for it
Similar(x, y) ==
  \/ DeviationP(xnotes[x].kind) /\ DeviationP(xnotes[y].kind)
  \/ PositiveP(xnotes[x].kind) /\ PositiveP(xnotes[y].kind)
SameBlock(x, y) == xnotes[x].block # 0 /\ xnotes[y].block = xnotes[x].block

Explained(notes) ==
  LET ns == Relevant(notes, RelevantEmitted)
      xs == {x \in Relevant(xnotes, RelevantExpected) : ~AntiP(xnotes[x].kind)}
      lenient(x, met) ==
        \/ xnotes[x].weak
        \/ \E y \in met : SameBlock(x, y) /\ Similar(x, y)
  IN  \E m \in [ns -> xs \cup {0}] :
        /\ \A n \in ns : m[n] = 0 \/ Answers(notes[n], xnotes[m[n]])
        /\ \A n, o \in ns : m[n] = m[o] /\ m[n] # 0 => n = o
        /\ \A n \in ns : StrictP(notes[n].kind) => m[n] # 0
        /\ \A x \in xs : x \in {m[n] : n \in ns} \/ lenient(x, {m[n] : n \in ns} \ {0})

\* Expectations that the same note could answer cover different places
ExpectationsApart ==
  \A x, y \in Relevant(xnotes, RelevantExpected) :
    x # y /\ ~AntiP(xnotes[x].kind) /\ ~AntiP(xnotes[y].kind) =>
      Extent(xnotes[x].segment) \cap Extent(xnotes[y].segment) = {}

\* The similar expectations of a fuzzy block are all of a kind
FuzzyBlocksUniform ==
  \A x, y \in Relevant(xnotes, RelevantExpected) :
    SameBlock(x, y) /\ Similar(x, y) => xnotes[x].kind = xnotes[y].kind

----------------------------------------------------------------------------
(* Properties.                                                             *)

\* When a test passes, all that gnatcov found is expected and all that is
\* expected was found, one for one: neither the reading of the report, nor
\* the greedy choice of dischargers, nor the relaxations hide a difference.
\* (A report without any block is the exception: see NothingLostSilently.)
PassMeansExplained ==
  verdict = "pass" /\ condition # "blank" => Explained(violations)

\* A test never fails when its notes can be explained, provided that the
\* report was read, that the expectations are about different places
\* (otherwise the first one takes the first note that suits it, which
\* another one may need), and that those of a fuzzy block are alike
\* (otherwise see FuzzyBlocksTolerant).
FailureMeansUnexplained ==
  verdict = "fail" /\ ~failed /\ ExpectationsApart /\ FuzzyBlocksUniform =>
    ~Explained(enotes)

\* "unmatched expectations are ok in fuzzy blocks where at least one similar
\* (positive or deviation) expectation was satisfied": none is reported as
\* missing there (process_one_unsat).
FuzzyBlocksTolerant ==
  verdict # "" /\ ~failed =>
    \A x, y \in DOMAIN xnotes :
      SameBlock(x, y) /\ Similar(x, y) /\ Satisfied(y) =>
        <<"missing", x>> \notin complaints
=============================================================================
