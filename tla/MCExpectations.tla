--------------------------- MODULE MCExpectations ---------------------------
(* Instances of the expansion of expectations for TLC. *)
EXTENDS Expectations

SrcLine(anchors, text, cols, subst, block, marks) ==
  [anchors |-> anchors, text |-> text, cols |-> cols, subst |-> subst,
   block |-> block, marks |-> marks]

Parens == <<"(", "o", "(", "o", ")", ")", "o">>
MCSources ==
  [s \in {"a", "b"} |->
     IF s = "a"
     THEN <<SrcLine({"e1"}, Parens, [p |-> {<<1, 2>>}, q |-> {<<3, 4>>}], <<>>, "open", {"i1", "i2"}),
            SrcLine({"e1", "e2"}, <<"(", "o", "o">>, [p |-> {<<1, 2>>}], <<"o/d">>, "open", {}),
            SrcLine({"e2"}, <<>>, <<>>, <<"o/d", "o/e">>, "close", {}),
            SrcLine({"e2"}, <<>>, <<>>, <<"o/0">>, "close", {}),
            SrcLine({"__l-s-"}, <<>>, <<>>, <<"s/e">>, "open", {}),
            SrcLine({"e2"}, <<>>, <<>>, <<>>, "close", {})>>
     ELSE <<SrcLine({"e2"}, <<>>, <<>>, <<"o/e">>, "none", {"i2"})>>]

MCLevels == {"stmt", "mcdc"}
MCControls == ("%cov" :> {"routines"}) @@ ("%tags" :> {}) @@ ("%cancel" :> {})

Opt(opt, invert) == [opt |-> opt, invert |-> invert]
Part(key, opts) == [key |-> key, opts |-> opts]
Plain(kind) == Note(FALSE, kind, NoText, NoStag)
Always(note) == <<Choice({}, note)>>
At(base, extend) == [base |-> base, extend |-> extend]

Starts ==
  {SourcesLine(<<<<"a", "b">>, <<"c">>>>, FALSE), SourcesLine(<<<<"a">>>>, FALSE)}
MoreStarts ==
  {SourcesLine(<<<<"b">>>>, FALSE), SourcesLine(<<<<"a">>, <<"b">>>>, FALSE),
   SourcesLine(<<<<"a", "c">>>>, FALSE)}
\* Blanks around the bar, as documented
SpacedStarts ==
  {SourcesLine(<<<<"a">>, <<"c">>>>, TRUE), SourcesLine(<<<<"c">>, <<"a", "b">>>>, TRUE),
   SourcesLine(<<<<"a">>, <<"b">>>>, TRUE), SourcesLine(<<<<"a">>>>, TRUE)}

Ctls ==
  {CtlLine(<<Part("%cov", <<Opt("routines", FALSE)>>), Part("%tags", <<Opt("t", FALSE)>>)>>),
   CtlLine(<<Part("%tags", <<Opt("t", TRUE)>>)>>),
   CtlLine(<<Part("%cov", <<Opt("routines", FALSE)>>), Part("%cancel", <<>>),
             Part("%tags", <<Opt("t", FALSE)>>)>>)}
LXs ==
  {LXLine(FALSE, "e1", Always(Plain("lNoCov")), Always(Note(TRUE, "sNoCov", At("p", TRUE), NoStag))),
   LXLine(TRUE, "e1", Always(Plain("lPartCov")), <<Choice({"mcdc"}, Plain("cPartCov"))>>),
   LXLine(FALSE, "e2", <<Choice({"stmt"}, Plain("lFullCov")), Choice({}, Plain("lPartCov")),
                         Choice({"mcdc"}, Plain("lNoCov"))>>,
          <<Choice({"mcdc"}, Plain("otNoCov")), Choice({}, Plain("oNoCov"))>>),
   LXLine(FALSE, "e2", <<Choice({"stmt"}, Plain("lNoCov"))>>, <<Choice({"mcdc"}, Plain("eNoCov"))>>),
   LXLine(TRUE, "__l-s-", Always(Plain("lFullCov")),
          Always(Note(FALSE, "sNoCov", NoText, Instances(<<"i1">>))))}
MoreLXs ==
  {LXLine(FALSE, "e1", Always(Plain("lNoCov")), Always(Note(FALSE, "sNoCov", At("q", FALSE), NoStag))),
   LXLine(FALSE, "e1", Always(Plain("lNoCov")), Always(Note(FALSE, "sNoCov", NoText, Instances(<<"i2">>))))}
Conts == {ContLine(<<Choice({"stmt"}, Note(FALSE, "sNoCov", NoText, Rtag("r"))),
                     Choice({"mcdc"}, Plain("dPartCov"))>>)}
Blocks ==
  {LXLine(FALSE, "e2", Always(Plain("lNoCov")), Always(Plain("xBlock0")))}

\* A continuation follows what it continues, and a block note has one source
WellLaidOut(body) ==
  \A i \in DOMAIN body : body[i] \in Conts => i > 1 /\ body[i - 1].t \in {"lx", "cont"}
Bodies(lines, n) == {body \in UNION {[1..k -> lines] : k \in 0..n} : WellLaidOut(body)}
OneSource(text) ==
  \A i \in DOMAIN text : text[i] \in Blocks =>
    \A j \in DOMAIN text : text[j].t = "sources" => text[j].lists = <<<<"a">>>>

MCSpecs ==
  {text \in {<<s>> \o body : s \in Starts, body \in Bodies(Ctls \cup LXs \cup Conts \cup Blocks, 3)}
              \cup {<<s>> \o body : s \in Starts \cup MoreStarts,
                                    body \in Bodies(LXs \cup MoreLXs, 1)}
              \cup {<<s>> \o body : s \in SpacedStarts, body \in Bodies(Ctls \cup LXs, 1)}
              \cup {<<s>> \o body1 \o <<t>> \o body2 :
                      s \in Starts, t \in {SourcesLine(<<<<"b">>>>, FALSE),
                                           SourcesLine(<<<<"a">>>>, FALSE)},
                      body1 \in Bodies(Ctls \cup LXs, 2), body2 \in Bodies(Ctls \cup LXs, 1)} :
     OneSource(text)}
=============================================================================
