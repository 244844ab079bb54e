---------------------------- MODULE MCTestVerdict ----------------------------
(* Instances of the verdict of a test for TLC. *)
EXTENDS NoteMatching

Emitted(kind, segment, stag) == [kind |-> kind, segment |-> segment, stag |-> stag]
Expected(kind, segment, stag, weak, block) ==
  [kind |-> kind, segment |-> segment, stag |-> stag, weak |-> weak, block |-> block]

R1 == Rtag("r1")
I1 == Itag(<<<<"f", 4, 0>>, <<"g", 7, 0>>>>)
I1Emitted == Itag(<<<<"f", 4, 2>>, <<"g", 7, 1>>>>)
I2Emitted == Itag(<<<<"f", 4, 2>>>>)

MCEmitted ==
  {Emitted("sNoCov", Point(1, 1), NoStag), Emitted("sNoCov", Point(1, 2), NoStag),
   Emitted("sNoCov", Point(1, 1), I1Emitted), Emitted("sNoCov", Point(1, 1), I2Emitted),
   Emitted("dtNoCov", Point(1, 1), NoStag), Emitted("efNoCov", Point(2, 2), NoStag),
   Emitted("sNotCoverable", Point(2, 1), NoStag),
   Emitted("xBlock1", Section(1, 1, 2, 3), NoStag)}
MCCoverages == UNION {[1..n -> MCEmitted] : n \in 0..2}

MCExpected ==
  {Expected("sNoCov", Line(1), NoStag, FALSE, 0),
   Expected("sNoCov", Segment(1, 1, 1), NoStag, FALSE, 0),
   Expected("sNoCov", Line(1), I1, FALSE, 0),
   Expected("sNoCov", Line(2), NoStag, FALSE, 1),
   Expected("sNoCov", Line(1), NoStag, FALSE, 1),
   Expected("dtNoCov", Line(1), NoStag, FALSE, 1),
   Expected("efNoCov", Line(2), NoStag, TRUE, 0),
   Expected("xBlock0", Section(1, 0, 2, 0), NoStag, FALSE, 0),
   Expected("r0", Line(1), NoStag, FALSE, 0)}
MCExpectations == UNION {[1..n -> MCExpected] : n \in 0..2}

MCListings == [1..2 -> {"NoCode", "Full", "Partial", "None", "ExemptViolation"}]
MCLineExpected ==
  {Expected(k, Line(l), NoStag, w, b) :
     k \in {"lFullCov", "lPartCov"}, l \in 1..2, w \in {FALSE}, b \in {0, 1}}
    \cup {Expected("lx0", Line(1), NoStag, FALSE, 0),
          Expected("lNoCov", Line(2), NoStag, TRUE, 0)}
MCLineExpectations == UNION {[1..n -> MCLineExpected] : n \in 0..2}
=============================================================================
