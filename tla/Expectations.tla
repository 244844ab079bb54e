---------------------------- MODULE Expectations ----------------------------
(***************************************************************************)
(* From the text of expectations in a test driver to the notes expected    *)
(* for each source (XnotesExpander, SCOV/internals/xnexpanders.py, and     *)
(* XnoteP, SCOV/internals/xnotep.py). A first pass over the text builds    *)
(* groups of line expectations (LX) under the control of CTL lines; a      *)
(* second one over the sources instantiates notes where the LX match.      *)
(***************************************************************************)
EXTENDS CoverageNotes, SequencesExt

CONSTANTS
  Specs,     \* texts of expectations: sequences of lines, see LX below
  Levels,    \* coverage levels of the run
  Controls,  \* control key -> options in effect: "%cov", "%cargs", ...
  Sources    \* name of a source -> its lines; others do not exist

VARIABLES
  stated,    \* the text, as a whole
  level,     \* --level
  scovdata,  \* lines of the text still to parse
  lcxs,      \* LX objects created so far
  groups,    \* uxgroups, ended
  current,   \* current_uxg, or NoGroup
  grabbing,
  lastlx,    \* index of the last LX grabbed, or 0
  units,     \* group and source of the units still to instantiate
  lno,       \* line of the first of these that comes next
  blocks,    \* open fuzzy blocks of that source, the innermost last
  nblocks,   \* number of blocks created
  notes,     \* notes instantiated, of all sources
  lastni,    \* pattern of a block note -> its note
  outcome    \* "" while it lasts, then "exposed", "stop" or "crash"

parseVars == <<scovdata, lcxs, groups, current, grabbing, lastlx>>
noteVars == <<lno, blocks, nblocks, notes, lastni>>
vars == <<stated, level, parseVars, units, noteVars, outcome>>

----------------------------------------------------------------------------
(* Lines of the text, and of the sources.                                  *)

\* "# a b|c": alternative lists of sources, with blanks around "|" or not
SourcesLine(lists, spaced) == [t |-> "sources", lists |-> lists, spaced |-> spaced]
\* "%cov: opt, !opt %cancel:": parts, each with a key and options
CtlLine(parts) == [t |-> "ctl", parts |-> parts]
\* "=/lre/ lnotes ## rnotes", each note being subject to levels or not
LXLine(override, lre, lnotes, rnotes) ==
  [t |-> "lx", override |-> override, lre |-> lre, lnotes |-> lnotes,
   rnotes |-> rnotes]
\* "+# rnotes"
ContLine(rnotes) == [t |-> "cont", rnotes |-> rnotes]

\* "sd=>~s-:"text"@(stag)"; no level means any, "*" in stext asks for the
\* closing parenthesis
Choice(levels, note) == [levels |-> levels, note |-> note]
Note(weak, kind, stext, stag) ==
  [weak |-> weak, kind |-> kind, stext |-> stext, stag |-> stag]
NoText == [base |-> "", extend |-> FALSE]
Instances(names) == [class |-> "instances", parts |-> names]
r0Note == Note(FALSE, "r0", NoText, NoStag)

\* Default expectations, for lines that carry these anchors
builtin_lxs ==
  <<LXLine(FALSE, "__l-s-", <<Choice({}, Note(FALSE, "lNoCov", NoText, NoStag))>>,
           <<Choice({}, Note(FALSE, "sNoCov", NoText, NoStag))>>),
    LXLine(FALSE, "__l!d!", <<Choice({}, Note(FALSE, "lPartCov", NoText, NoStag))>>,
           <<Choice({}, Note(FALSE, "dPartCov", NoText, NoStag))>>),
    LXLine(FALSE, "__l!dT-", <<Choice({}, Note(FALSE, "lPartCov", NoText, NoStag))>>,
           <<Choice({}, Note(FALSE, "dtNoCov", NoText, NoStag))>>)>>

\* Kinds of outcomes are substituted according to hints in the sources
subst_tuples_for ==
  [key \in {"o/d", "o/e", "o/0", "s/e", "e", "d"} |->
     CASE key = "o/d" -> [otNoCov |-> "dtNoCov", ofNoCov |-> "dfNoCov",
                          oPartCov |-> "dPartCov", oNoCov |-> "dNoCov"]
       [] key = "o/e" -> [otNoCov |-> "etNoCov", ofNoCov |-> "efNoCov",
                          oPartCov |-> "ePartCov", oNoCov |-> "eNoCov"]
       [] key = "o/0" -> [k \in {"otNoCov", "ofNoCov", "oPartCov", "oNoCov",
                                 "lPartCov"} |-> "None"]
       [] key = "s/e" -> [sNoCov |-> "eNoCov"]
       [] OTHER -> <<>>]

----------------------------------------------------------------------------
(* Note choices.                                                           *)

\* __select_rnote: the note if it is for the level or for all of them
SelectRnotes(choices) ==
  LET kept == SelectSeq(choices, LAMBDA c : c.levels = {} \/ level \in c.levels)
  IN  [i \in DOMAIN kept |-> kept[i].note]

\* __select_lnote: the last choice for the level, or else for all of them
LnoteChoices(choices) ==
  LET exact == SelectSeq(choices, LAMBDA c : level \in c.levels)
  IN  IF exact # <<>> THEN exact
      ELSE SelectSeq(choices, LAMBDA c : c.levels = {})

\* __parse_lcx. No report expectation means the empty set. The test for the
\* empty set and something else compares patterns with a string: it never
\* stops anything.
LX(line) ==
  LET rnotes == SelectRnotes(line.rnotes)
  IN  [lre |-> line.lre,
       lnp |-> Last(LnoteChoices(line.lnotes)).note,
       rnps |-> IF rnotes = <<>> THEN <<r0Note>> ELSE rnotes]

----------------------------------------------------------------------------
(* Parsing: __parse_groups_from, one line at a time.                       *)

NoGroup == [srlist |-> <<>>, lxset |-> <<>>]

Stop == outcome' = "stop"
Crash == outcome' = "crash"

NextLine ==
  /\ outcome = ""
  /\ units = <<>>
  /\ scovdata # <<>>
  /\ scovdata' = Tail(scovdata)
  /\ UNCHANGED <<stated, level, units, noteVars>>

line == Head(scovdata)

\* __eval_ctl_update_from, for one key: all of its options, each of them
\* possibly inverted, are in effect
PartHolds(part) ==
  \A i \in DOMAIN part.opts :
    (part.opts[i].opt \in Controls[part.key]) # part.opts[i].invert

\* Defect: parts after a cancellation request count as well
CtlUpdateAll(parts) ==
  IF \A i \in DOMAIN parts : parts[i].key = "%cancel" \/ PartHolds(parts[i])
  THEN IF \E i \in DOMAIN parts : parts[i].key = "%cancel" THEN "cancel" ELSE "grab"
  ELSE "skip"

\* __try_ctl_update_from: "grab", "skip" or, if the parts before it hold,
\* "cancel"
CtlUpdate(parts) ==
  LET stops == {i \in DOMAIN parts :
                  parts[i].key = "%cancel" \/ ~PartHolds(parts[i])}
      first == CHOOSE i \in stops : \A j \in stops : i <= j
  IN  IF stops = {} THEN "grab"
      ELSE IF parts[first].key = "%cancel" THEN "cancel" ELSE "skip"

\* A cancelled group is forgotten, with what was grabbed for it
ParseCtl ==
  /\ NextLine
  /\ line.t = "ctl"
  /\ LET update == CtlUpdate(line.parts)
     IN  /\ current' = IF update = "cancel" THEN NoGroup ELSE current
         /\ grabbing' = IF update = "cancel" THEN grabbing ELSE update = "grab"
  /\ UNCHANGED <<lcxs, groups, lastlx, outcome>>

\* Continuation of the last LX grabbed, wherever it is
ParseContinuation ==
  /\ NextLine
  /\ line.t = "cont" /\ grabbing
  /\ IF lastlx = 0 THEN Crash /\ UNCHANGED lcxs
     ELSE /\ lcxs' = [lcxs EXCEPT ![lastlx].rnps = @ \o SelectRnotes(line.rnotes)]
          /\ UNCHANGED outcome
  /\ UNCHANGED <<groups, current, grabbing, lastlx>>

\* __end_parse_on: the LX of the group and the defaults it does not redefine
EndedGroup(objects) ==
  LET lres == {objects[lx].lre : lx \in ToSet(current.lxset)}
      nothere == SelectSeq(builtin_lxs, LAMBDA lx : lx.lre \notin lres)
  IN  [objects |-> objects \o [i \in DOMAIN nothere |-> LX(nothere[i])],
       group |-> [current EXCEPT !.lxset =
                    @ \o [i \in DOMAIN nothere |-> Len(objects) + i]]]

\* __parse_sources: blanks around the separator leave an empty name, which
\* designates the directory of sources and exists
Candidates(lists, spaced) ==
  [i \in DOMAIN lists |->
     IF spaced
     THEN (IF i > 1 THEN <<"">> ELSE <<>>) \o lists[i]
            \o (IF i < Len(lists) THEN <<"">> ELSE <<>>)
     ELSE lists[i]]

\* A new group starts: the current one ends, and exactly one of the lists of
\* sources must exist
ParseSources ==
  /\ NextLine
  /\ line.t = "sources"
  /\ LET cands == Candidates(line.lists, line.spaced)
         goodlists == {i \in DOMAIN cands :
                         ToSet(cands[i]) \subseteq DOMAIN Sources \cup {""}}
         ended == EndedGroup(lcxs)
     IN  /\ IF current = NoGroup THEN UNCHANGED <<lcxs, groups>>
            ELSE /\ lcxs' = ended.objects
                 /\ groups' = Append(groups, ended.group)
         /\ IF Cardinality(goodlists) # 1
            THEN Stop /\ UNCHANGED <<current, grabbing>>
            ELSE /\ current' = [srlist |-> cands[CHOOSE i \in goodlists : TRUE],
                                lxset |-> <<>>]
                 /\ grabbing' = TRUE
                 /\ UNCHANGED outcome
  /\ UNCHANGED lastlx

\* An LX line, which takes the place of the LX with the same expression
ParseLX ==
  /\ NextLine
  /\ line.t = "lx" /\ grabbing
  /\ LET same == {i \in DOMAIN current.lxset :
                    lcxs[current.lxset[i]].lre = line.lre}
         new == Len(lcxs) + 1
     IN  IF LnoteChoices(line.lnotes) = <<>>
         THEN Stop /\ UNCHANGED <<lcxs, current, lastlx>>
         ELSE IF current = NoGroup
         THEN Crash /\ UNCHANGED <<lcxs, current, lastlx>>
         ELSE IF same # {} /\ ~line.override
         THEN Stop /\ UNCHANGED <<lcxs, current, lastlx>>
         ELSE /\ lcxs' = Append(lcxs, LX(line))
              /\ current' = [current EXCEPT !.lxset =
                   IF same = {} THEN Append(@, new)
                   ELSE [i \in DOMAIN @ |-> IF i \in same THEN new ELSE @[i]]]
              /\ lastlx' = new
              /\ UNCHANGED outcome
  /\ UNCHANGED <<groups, grabbing>>

IgnoreLine ==
  /\ NextLine
  /\ \/ line.t = "comment"
     \/ line.t \in {"lx", "cont"} /\ ~grabbing
  /\ UNCHANGED <<lcxs, groups, current, grabbing, lastlx, outcome>>

----------------------------------------------------------------------------
(* The text is parsed: stags are resolved, then groups are closed.         *)

\* __resolve_itags_within: lines of the sources of all groups that carry
\* the name of an instance
SlocsOf(name, gs) ==
  {<<s, l>> \in UNION {{<<s, l>> : l \in DOMAIN Sources[s]} :
                         s \in UNION {ToSet(gs[i].srlist) : i \in DOMAIN gs} \ {""}} :
     name \in Sources[s][l].marks}

Resolved(stag, gs) ==
  IF stag.class # "instances" THEN stag
  ELSE Itag([i \in DOMAIN stag.parts |->
               LET sloc == CHOOSE p \in SlocsOf(stag.parts[i], gs) : TRUE
               IN  <<sloc[1], sloc[2], 0>>])

\* Defect: the first of several lines is taken
ResolvableFirst(stag, gs) ==
  stag.class = "instances" =>
    \A i \in DOMAIN stag.parts : SlocsOf(stag.parts[i], gs) # {}

Resolvable(stag, gs) ==
  stag.class = "instances" =>
    \A i \in DOMAIN stag.parts : Cardinality(SlocsOf(stag.parts[i], gs)) = 1

UnitsOf(gs) ==
  FlattenSeq([g \in DOMAIN gs |->
    [i \in DOMAIN gs[g].srlist |-> [group |-> g, source |-> gs[g].srlist[i]]]])

\* The last group ends, instances are resolved and the sources are opened,
\* among which the directory that an empty name stands for cannot be
EndParse ==
  /\ outcome = "" /\ units = <<>> /\ scovdata = <<>>
  /\ LET ended == EndedGroup(lcxs)
         gs == IF current = NoGroup THEN groups ELSE Append(groups, ended.group)
         objects == IF current = NoGroup THEN lcxs ELSE ended.objects
         lxs == UNION {ToSet(gs[g].lxset) : g \in DOMAIN gs}
         ok == \A lx \in lxs : \A i \in DOMAIN objects[lx].rnps :
                 Resolvable(objects[lx].rnps[i].stag, gs)
     IN  /\ groups' = gs
         /\ lcxs' = IF ~ok THEN objects
                    ELSE [lx \in DOMAIN objects |-> [objects[lx] EXCEPT !.rnps =
                            [i \in DOMAIN @ |->
                               [@[i] EXCEPT !.stag =
                                  IF lx \in lxs THEN Resolved(@, gs) ELSE @]]]]
         /\ units' = IF ok THEN UnitsOf(gs) ELSE <<>>
         /\ outcome' = IF ~ok THEN "stop"
                       ELSE IF \E i \in DOMAIN UnitsOf(gs) : UnitsOf(gs)[i].source = ""
                       THEN "crash"
                       ELSE IF UnitsOf(gs) = <<>> THEN "exposed" ELSE ""
  /\ current' = NoGroup
  /\ UNCHANGED <<stated, level, scovdata, grabbing, lastlx, noteVars>>

----------------------------------------------------------------------------
(* Instantiation over a source: UnitCX.process_tline and XnoteP.           *)

unit == Head(units)
tline == Sources[unit.source][lno]

\* The substitutions of the line, the last one of a kind being in force
Substituted(kind, keys) ==
  LET on == {i \in DOMAIN keys : kind \in DOMAIN subst_tuples_for[keys[i]]}
  IN  IF on = {} THEN kind
      ELSE subst_tuples_for[keys[CHOOSE i \in on : \A j \in on : j <= i]][kind]

\* __extended_segend_for: from column c of the text, up to the parenthesis
\* that closes one opened before
ExtendedSegend(text, c) ==
  LET nest[i \in (c - 1)..Len(text)] ==
        IF i = c - 1 THEN 0
        ELSE CASE text[i] = "(" -> nest[i - 1] + 1
               [] text[i] = ")" -> nest[i - 1] - 1
               [] OTHER -> nest[i - 1]
      closing == {i \in c..Len(text) : nest[i] < 0}
  IN  IF closing = {} THEN Len(text)
      ELSE CHOOSE i \in closing : \A j \in closing : i <= j

\* Where the subtext of a pattern is found on the line
Matches(stext) ==
  IF stext.base \in DOMAIN tline.cols THEN tline.cols[stext.base] ELSE {}

SegmentOf(stext) ==
  LET cols == CHOOSE m \in Matches(stext) : TRUE
  IN  Segment(lno, cols[1], IF stext.extend THEN ExtendedSegend(tline.text, cols[2])
                            ELSE cols[2])

\* What a pattern does on the line: nothing, expand its block note, or a new
\* note. Pattern 0 of an LX is the one of the line note.
Pattern(lx, i) == IF i = 0 THEN lcxs[lx].lnp ELSE lcxs[lx].rnps[i]

NewNote(pattern, kind, segment) ==
  [source |-> unit.source, group |-> unit.group, kind |-> kind,
   segment |-> segment, stag |-> pattern.stag, weak |-> pattern.weak,
   block |-> IF blocks = <<>> THEN 0 ELSE Last(blocks)]

Instanciated(state, lx, i) ==
  LET pattern == Pattern(lx, i)
      kind == Substituted(pattern.kind, tline.subst)
      added(segment) == Append(state.notes, NewNote(pattern, kind, segment))
      key == <<lx, i>>
  IN  IF kind = "None" THEN state
      ELSE IF BlockP(pattern.kind)
      THEN IF key \in DOMAIN state.lastni
           THEN [state EXCEPT !.notes[state.lastni[key]].segment.l1 = lno]
           ELSE [notes |-> added(Line(lno)),
                 lastni |-> [k \in DOMAIN state.lastni \cup {key} |->
                               IF k = key THEN Len(state.notes) + 1
                               ELSE state.lastni[k]],
                 stop |-> state.stop]
      ELSE IF pattern.stext = NoText THEN [state EXCEPT !.notes = added(Line(lno))]
      ELSE IF Cardinality(Matches(pattern.stext)) # 1 THEN [state EXCEPT !.stop = TRUE]
      ELSE [state EXCEPT !.notes = added(SegmentOf(pattern.stext))]

\* Patterns of the LX of the group that match the line, in order
Matching ==
  LET lxset == groups[unit.group].lxset
      on == SelectSeq(lxset, LAMBDA lx : lcxs[lx].lre \in tline.anchors)
  IN  FlattenSeq([k \in DOMAIN on |->
        [i \in 1..(Len(lcxs[on[k]].rnps) + 1) |-> <<on[k], i - 1>>]])

\* Notes of the line come first, then the blocks it opens or closes
ProcessTline ==
  /\ outcome = "" /\ units # <<>>
  /\ lno <= Len(Sources[unit.source])
  /\ LET state == FoldLeft(LAMBDA s, p : Instanciated(s, p[1], p[2]),
                           [notes |-> notes, lastni |-> lastni, stop |-> FALSE],
                           Matching)
     IN  /\ notes' = state.notes
         /\ lastni' = state.lastni
         /\ IF state.stop \/ (tline.block = "close" /\ blocks = <<>>)
            THEN Stop /\ UNCHANGED <<blocks, nblocks>>
            ELSE /\ CASE tline.block = "open" ->
                           /\ nblocks' = nblocks + 1
                           /\ blocks' = Append(blocks, nblocks + 1)
                      [] tline.block = "close" ->
                           /\ blocks' = Front(blocks)
                           /\ UNCHANGED nblocks
                      [] OTHER -> UNCHANGED <<blocks, nblocks>>
                 /\ UNCHANGED outcome
  /\ lno' = lno + 1
  /\ UNCHANGED <<stated, level, parseVars, units>>

\* A unit is exposed: it takes the place of another one for the same source
EndUnit ==
  /\ outcome = "" /\ units # <<>>
  /\ lno > Len(Sources[unit.source])
  /\ IF blocks # <<>> THEN Stop ELSE
       outcome' = IF Tail(units) = <<>> THEN "exposed" ELSE ""
  /\ notes' = SelectSeq(notes, LAMBDA n : n.source # unit.source \/ n.group = unit.group)
  /\ units' = Tail(units)
  /\ lno' = 1
  /\ blocks' = <<>>
  /\ UNCHANGED <<stated, level, parseVars, nblocks, lastni>>

----------------------------------------------------------------------------

Init ==
  /\ stated \in Specs
  /\ level \in Levels
  /\ scovdata = stated
  /\ lcxs = <<>>
  /\ groups = <<>>
  /\ current = NoGroup
  /\ grabbing = TRUE
  /\ lastlx = 0
  /\ units = <<>>
  /\ lno = 1
  /\ blocks = <<>>
  /\ nblocks = 0
  /\ notes = <<>>
  /\ lastni = <<>>
  /\ outcome = ""

Next ==
  \/ ParseCtl
  \/ ParseContinuation
  \/ ParseSources
  \/ ParseLX
  \/ IgnoreLine
  \/ EndParse
  \/ ProcessTline
  \/ EndUnit

Spec == Init /\ [][Next]_vars

----------------------------------------------------------------------------
(* What the text means, line by line, without a state.                     *)

LinesOf(type) == {i \in DOMAIN stated : stated[i].t = type}
LatestOf(type, i) == {j \in LinesOf(type) : j < i /\ \A k \in LinesOf(type) : k < i => k <= j}
SameGroup(i, j) == LatestOf("sources", i + 1) = LatestOf("sources", j + 1)

Cancels(c) ==
  \E p \in DOMAIN stated[c].parts :
    /\ stated[c].parts[p].key = "%cancel"
    /\ \A q \in 1..(p - 1) : stated[c].parts[q].key # "%cancel" /\ PartHolds(stated[c].parts[q])
Cancelled(g) == \E c \in LinesOf("ctl") : SameGroup(c, g) /\ Cancels(c)

\* The last control before a line, in its group, lets it through
InForce(i) ==
  LET before == {c \in LinesOf("ctl") : c < i /\ SameGroup(c, i) /\ ~Cancels(c)}
  IN  \A c \in before :
        (\A d \in before : d <= c) =>
          \A p \in DOMAIN stated[c].parts : PartHolds(stated[c].parts[p])

StatedLX(g) == {i \in LinesOf("lx") : SameGroup(i, g) /\ InForce(i)}
\* Those that no other one overrides
EffectiveLX(g) ==
  {i \in StatedLX(g) : \A j \in StatedLX(g) : j > i => stated[j].lre # stated[i].lre}
ContinuationsOf(i) ==
  SetToSortSeq({j \in LinesOf("cont") : InForce(j) /\ \A k \in i..(j - 1) : k = i \/
                                                     stated[k].t = "cont"}
                 \cap {j \in DOMAIN stated : j > i}, <)

\* Expectations of a group: the expression, the line note and the report
\* notes for the level
MeaningOf(text, conts) ==
  LET rnotes == FoldLeft(LAMBDA notes1, j : notes1 \o SelectRnotes(stated[j].rnotes),
                         SelectRnotes(text.rnotes), conts)
  IN  [lre |-> text.lre, lnp |-> LX(text).lnp,
       rnps |-> IF SelectRnotes(text.rnotes) = <<>> THEN <<r0Note>> \o rnotes ELSE rnotes]
GroupLX(g) ==
  LET own == {MeaningOf(stated[i], ContinuationsOf(i)) : i \in EffectiveLX(g)}
  IN  own \cup {MeaningOf(builtin_lxs[b], <<>>) :
                  b \in {b \in DOMAIN builtin_lxs :
                           builtin_lxs[b].lre \notin {lx.lre : lx \in own}}}

ListsOf(g) ==
  {i \in DOMAIN stated[g].lists : ToSet(stated[g].lists[i]) \subseteq DOMAIN Sources}
SourcesOf(g) == UNION {ToSet(stated[g].lists[i]) : i \in ListsOf(g)}
LiveGroups == {g \in LinesOf("sources") : ~Cancelled(g)}
\* The last group that names a source governs it
GroupsOf(source) ==
  {g \in LiveGroups : /\ source \in SourcesOf(g)
                      /\ \A h \in LiveGroups : source \in SourcesOf(h) => h <= g}

Subst(kind, l, source) ==
  FoldLeft(LAMBDA k, key : IF kind \in DOMAIN subst_tuples_for[key]
                           THEN subst_tuples_for[key][kind] ELSE k,
           kind, Sources[source][l].subst)

\* Lines of a source that a pattern of an LX applies to
LinesFor(lx, pattern, source) ==
  {l \in DOMAIN Sources[source] :
     lx.lre \in Sources[source][l].anchors /\ Subst(pattern.kind, l, source) # "None"}

\* The parenthesis that closes the one at column c
ClosingOf(text, c) ==
  LET count(i, p) == Cardinality({j \in c..i : text[j] = p})
  IN  {i \in c..Len(text) : count(i, "(") = count(i, ")")}

SegmentFor(pattern, l, source) ==
  IF pattern.stext = NoText THEN Line(l)
  ELSE LET found == CHOOSE m \in Sources[source][l].cols[pattern.stext.base] : TRUE
           text == Sources[source][l].text
           closing == ClosingOf(text, found[1])
       IN  Segment(l, found[1],
                   IF ~pattern.stext.extend THEN found[2]
                   ELSE IF closing = {} THEN Len(text)
                   ELSE CHOOSE c \in closing : \A d \in closing : c <= d)

\* The line that opens the innermost fuzzy block around a line, 0 if none
InnermostOpen(l, source) ==
  LET has(what, o, k) ==
        Cardinality({i \in o..k : Sources[source][i].block = what})
      opens == {o \in 1..(l - 1) :
                  /\ Sources[source][o].block = "open"
                  /\ \A k \in o..(l - 1) : has("close", o, k) < has("open", o, k)}
  IN  IF opens = {} THEN 0 ELSE CHOOSE o \in opens : \A p \in opens : p <= o

StagFor(pattern) ==
  IF pattern.stag.class # "instances" THEN pattern.stag
  ELSE Itag([i \in DOMAIN pattern.stag.parts |->
               CHOOSE sloc \in {<<s, l, 0>> : s \in UNION {SourcesOf(g) : g \in LiveGroups},
                                              l \in 1..10} :
                 /\ sloc[2] \in DOMAIN Sources[sloc[1]]
                 /\ pattern.stag.parts[i] \in Sources[sloc[1]][sloc[2]].marks])

NotesFor(lx, pattern, source) ==
  LET lines == LinesFor(lx, pattern, source)
      note(kind, segment) ==
        [source |-> source, kind |-> kind, segment |-> segment,
         stag |-> StagFor(pattern), weak |-> pattern.weak,
         open |-> InnermostOpen(segment.l0, source)]
      first == CHOOSE l \in lines : \A k \in lines : l <= k
      last == CHOOSE l \in lines : \A k \in lines : k <= l
  IN  IF lines = {} THEN {}
      ELSE IF BlockP(pattern.kind) THEN {note(pattern.kind, Section(first, 0, last, 0))}
      ELSE {note(Subst(pattern.kind, l, source), SegmentFor(pattern, l, source)) :
              l \in lines}

PatternsOf(lx) == {lx.lnp} \cup ToSet(lx.rnps)
ExpectedNotes ==
  UNION {UNION {UNION {NotesFor(lx, p, s) : p \in PatternsOf(lx)} :
                  lx \in UNION {GroupLX(g) : g \in GroupsOf(s)}} : s \in DOMAIN Sources}

\* What is wrong in a text or in the sources it names
IllFormed ==
  \/ \E g \in LinesOf("sources") : Cardinality(ListsOf(g)) # 1
  \/ \E g \in LinesOf("sources") : \E i, j \in StatedLX(g) :
       i < j /\ stated[i].lre = stated[j].lre /\ ~stated[j].override
  \/ \E g \in LinesOf("sources") : \E i \in StatedLX(g) :
       \/ LnoteChoices(stated[i].lnotes) = <<>>
       \/ \E c \in LinesOf("ctl") : c < i /\ SameGroup(c, i) /\ Cancels(c)
  \/ \E g \in LiveGroups : \E lx \in GroupLX(g) : \E i \in DOMAIN lx.rnps :
       /\ lx.rnps[i].stag.class = "instances"
       /\ \E name \in ToSet(lx.rnps[i].stag.parts) :
            Cardinality(UNION {{<<s, l>> : l \in {l \in DOMAIN Sources[s] :
                                                    name \in Sources[s][l].marks}} :
                                 s \in UNION {SourcesOf(h) : h \in LiveGroups}}) # 1
  \/ \E g \in LiveGroups : \E s \in SourcesOf(g) :
       \/ \E lx \in GroupLX(g) : \E p \in PatternsOf(lx) : \E l \in LinesFor(lx, p, s) :
            /\ p.stext # NoText /\ ~BlockP(p.kind)
            /\ \/ p.stext.base \notin DOMAIN Sources[s][l].cols
               \/ Cardinality(Sources[s][l].cols[p.stext.base]) # 1
       \/ \E l \in DOMAIN Sources[s] :
            Sources[s][l].block = "close" /\ InnermostOpen(l, s) = 0
       \/ InnermostOpen(Len(Sources[s]) + 1, s) # 0

----------------------------------------------------------------------------
(* Properties.                                                             *)

\* The notes a well-formed text ends up with are those it states: for each
\* source, the expectations of the last group that names it, as controls,
\* overriding, levels and hints in the source decide, on the sections and in
\* the fuzzy blocks these designate; nothing is left over from lines that
\* were skipped, from groups that were cancelled or from other sources.
NotesAsStated ==
  outcome = "exposed" =>
    LET opens(i) == InnermostOpen(notes[i].segment.l0, notes[i].source)
    IN  /\ {[source |-> notes[i].source, kind |-> notes[i].kind,
             segment |-> notes[i].segment, stag |-> notes[i].stag,
             weak |-> notes[i].weak, open |-> opens(i)] : i \in DOMAIN notes}
             = ExpectedNotes
        /\ \A i, j \in DOMAIN notes :
             /\ notes[i].block = 0 <=> opens(i) = 0
             /\ notes[i].source = notes[j].source =>
                  (notes[i].block = notes[j].block <=> opens(i) = opens(j))

\* Lists of sources with blanks around the bar, the way the header of
\* xnexpanders.py writes them ("x0.adb | x1.c y1.c")
BlanksAroundBar == \E g \in LiveGroups : stated[g].spaced /\ Len(stated[g].lists) > 1

\* A text is turned down if, and only if, something is wrong in it: a stray
\* restriction, a mistyped name or an ambiguous subtext never make for a test
\* that expects less than what its author wrote. The one exception crashes, on
\* a text that is as documented: blanks around the bar make an empty name.
RejectedOnlyIfWrong ==
  /\ outcome = "exposed" => ~IllFormed /\ ~BlanksAroundBar
  /\ outcome = "stop" => IllFormed
  /\ outcome = "crash" => IllFormed \/ BlanksAroundBar
=============================================================================
