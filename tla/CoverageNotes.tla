---------------------------- MODULE CoverageNotes ----------------------------
(***************************************************************************)
(* Coverage notes of the testsuite (SCOV/internals): the kinds of notes    *)
(* and what is deduced from their rank (cnotes.py), the source sections    *)
(* they designate (segments.py), their separation tags (stags.py), and     *)
(* when an emitted note answers an expected one.                           *)
(***************************************************************************)
EXTENDS Naturals, Sequences, FiniteSets

\* Note kinds and the separators between families, in increasing order
Kinds ==
  <<"lNoCode", "lFullCov", "strictNote", "r0", "r0c", "lx0", "lx1",
    "deviationNote", "lNoCov", "lPartCov", "lNotCoverable", "sNoCov",
    "sPartCov", "sNotCoverable", "dtAlways", "dfAlways", "dtNoCov", "dfNoCov",
    "dNoCov", "dPartCov", "etNoCov", "efNoCov", "eNoCov", "ePartCov",
    "otNoCov", "ofNoCov", "oNoCov", "oPartCov", "cPartCov", "blockNote",
    "xBlock0", "xBlock1">>

Rank == [kind \in {Kinds[i] : i \in DOMAIN Kinds} |->
           CHOOSE i \in DOMAIN Kinds : Kinds[i] = kind]

elNoteKinds == <<"lNoCode", "lNotCoverable", "lNoCov", "lPartCov", "lFullCov",
                 "lx0", "lx1">>
sNoteKinds == <<"sNoCov", "sPartCov", "sNotCoverable">>
dNoteKinds == <<"dtNoCov", "dfNoCov", "dPartCov", "dNoCov", "dtAlways",
                "dfAlways">>
cNoteKinds == <<"etNoCov", "efNoCov", "ePartCov", "eNoCov", "cPartCov">>
xNoteKinds == <<"xBlock0", "xBlock1">>
tNoteKinds == <<"otNoCov", "ofNoCov", "oPartCov", "oNoCov">>
rAntiKinds == <<"r0", "r0c">>

DeviationP(kind) == Rank["deviationNote"] < Rank[kind] /\ Rank[kind] < Rank["blockNote"]
PositiveP(kind) == kind = "lFullCov"
BlockP(kind) == Rank[kind] > Rank["blockNote"]
StrictP(kind) == Rank[kind] > Rank["strictNote"]
AntiP(kind) == kind \in {"r0", "r0c"}

----------------------------------------------------------------------------
(* Sections of sources: from l0:c0 to l1:c1. Column 0 stands for a line as *)
(* a whole.                                                                *)

Section(l0, c0, l1, c1) == [l0 |-> l0, c0 |-> c0, l1 |-> l1, c1 |-> c1]
Segment(l, c0, c1) == Section(l, c0, l, c1)
Line(l) == Segment(l, 0, 0)
Point(l, c) == Segment(l, c, c)

PastOrEq(l, c, ol, oc) == l > ol \/ (l = ol /\ (c >= oc \/ oc = 0))
BeforeEq(l, c, ol, oc) == l < ol \/ (l = ol /\ (c <= oc \/ oc = 0))

\* Defect: column 0 is a column like the others
WithinColumns(s, other) ==
  /\ s.l0 > other.l0 \/ (s.l0 = other.l0 /\ s.c0 >= other.c0)
  /\ s.l1 < other.l1 \/ (s.l1 = other.l1 /\ s.c1 <= other.c1)

Within(s, other) ==
  /\ PastOrEq(s.l0, s.c0, other.l0, other.c0)
  /\ BeforeEq(s.l1, s.c1, other.l1, other.c1)

----------------------------------------------------------------------------
(* Separation tags: the routine, or the nest of instantiation slocs        *)
(* <<file, line, column>>, that a note comes from.                         *)

NoStag == [class |-> "none", parts |-> <<>>]
Rtag(routine) == [class |-> "Rtag", parts |-> <<<<routine, 0, 0>>>>]
Itag(slocs) == [class |-> "Itag", parts |-> slocs]

\* Columns of instantiation slocs are not compared
StagMatch(tag, other) ==
  /\ tag.class = other.class
  /\ Len(tag.parts) = Len(other.parts)
  /\ \A i \in DOMAIN tag.parts :
       tag.parts[i][1] = other.parts[i][1] /\ tag.parts[i][2] = other.parts[i][2]

Discharges(en, xn) ==
  /\ Within(en.segment, xn.segment)
  /\ \/ en.stag = NoStag /\ xn.stag = NoStag
     \/ en.stag # NoStag /\ xn.stag # NoStag /\ StagMatch(en.stag, xn.stag)
=============================================================================
