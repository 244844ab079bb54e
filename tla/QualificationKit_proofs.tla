---------------------- MODULE QualificationKit_proofs ----------------------
(***************************************************************************)
(* Proofs about the production of qualification kits: what is packed is    *)
(* what the invocation was asked for and built itself, a fresh consistency *)
(* log lists exactly what lacks results, and the report in a kit says what *)
(* the runs of its tests were, for any artifacts, testsuite runs, command  *)
(* lines, and failures between two steps.                                  *)
(***************************************************************************)
EXTENDS QualificationKit, TLAPS, FunctionTheorems, FiniteSetTheorems, WellFoundedInduction

-----------------------------------------------------------------------------
(* Command lines and sequences of parts *)

OptionType ==
  [dolevel : {"none", "doA", "doB", "doC"}, xgnatcov : STRING, formats : Seq(Formats),
   parts : SUBSET STRING, testsuite_dir : BOOLEAN, rekit : BOOLEAN,
   kitp : BOOLEAN, gitpull : BOOLEAN, gitreuse : BOOLEAN, gitsource : BOOLEAN]

LEMMA OptionFacts ==
  ASSUME NEW opts \in Options, NEW c, c = WithParts(opts)
  PROVE  /\ c.formats = opts.formats /\ c.dolevel = opts.dolevel
         /\ c.formats \in Seq(Formats) /\ c.dolevel \in DoLevels /\ c.parts # {}
         /\ c.testsuite_dir \in BOOLEAN /\ c.kitp \in BOOLEAN
         /\ CheckValid(c) =>
              /\ c.parts \subseteq Parts /\ c.dolevel \in {"doA", "doB", "doC"}
              /\ c.formats # <<>> /\ Len(c.formats) \in Nat \ {0}
              /\ "str" \in c.parts => c.testsuite_dir
<1>1. opts \in OptionType
  BY OptionsAssumption DEF OptionsAssumption, OptionType
<1>2. /\ c.formats = opts.formats /\ c.dolevel = opts.dolevel
      /\ c.testsuite_dir = opts.testsuite_dir
      /\ c.parts = IF opts.parts = {} THEN Parts ELSE opts.parts
      /\ c.kitp = (opts.rekit \/ opts.parts = {})
  BY <1>1 DEF WithParts, OptionType
<1>3. /\ opts.formats \in Seq(Formats) /\ opts.testsuite_dir \in BOOLEAN
      /\ opts.dolevel # "none" => opts.dolevel \in {"doA", "doB", "doC"}
  BY <1>1 DEF OptionType
<1>4. opts.dolevel \in DoLevels
  BY DEF DoLevels
<1>5. c.parts # {}
  BY <1>2 DEF Parts
<1>6. c.formats # <<>> => Len(c.formats) \in Nat \ {0}
  BY <1>2, <1>3
<1> QED
  BY <1>2, <1>3, <1>4, <1>5, <1>6 DEF CheckValid

\* What the options under way say
LEMMA RunningFacts ==
  ASSUME TypeOK, Accepted, Running
  PROVE  /\ o.parts \subseteq Parts /\ o.parts # {}
         /\ o.formats \in Seq(Formats) /\ Len(o.formats) \in Nat \ {0}
         /\ o.dolevel \in DoLevels /\ o.dolevel \in {"doA", "doB", "doC"}
         /\ o.kitp \in BOOLEAN /\ o.testsuite_dir \in BOOLEAN
         /\ do("str") => o.testsuite_dir
         /\ inv \in Nat \ {0} /\ fmts \in Seq(Formats) /\ Len(fmts) \in Nat
         /\ step # "log" => format \in Formats /\ fmts # <<>>
<1>1. PICK opts \in Options : o = WithParts(opts)
  BY DEF Accepted
<1>2. CheckValid(o) /\ inv > 0 /\ inv \in Nat /\ fmts \in Seq(Formats)
  BY DEF Accepted, TypeOK
<1>3. step # "log" => format \in Formats /\ fmts # <<>>
  BY <1>2 DEF Accepted, format
<1>4. Len(fmts) \in Nat /\ inv \in Nat \ {0}
  BY <1>2
<1> QED
  BY <1>1, <1>2, <1>3, <1>4, OptionFacts DEF do

Distinct(s) == \A i, j \in DOMAIN s : s[i] = s[j] => i = j

LEMMA ConcatFacts ==
  ASSUME NEW S, NEW s \in Seq(S), NEW t \in Seq(S), Distinct(s), Distinct(t),
         Range(s) \cap Range(t) = {}
  PROVE  /\ s \o t \in Seq(S) /\ Range(s \o t) = Range(s) \cup Range(t)
         /\ Distinct(s \o t)
<1>1. /\ Len(s) \in Nat /\ DOMAIN s = 1..Len(s) /\ Len(t) \in Nat /\ DOMAIN t = 1..Len(t)
      /\ s \o t \in Seq(S) /\ DOMAIN (s \o t) = 1..(Len(s) + Len(t))
      /\ \A i \in 1..Len(s) : (s \o t)[i] = s[i]
      /\ \A i \in 1..(Len(s) + Len(t)) : i > Len(s) => (s \o t)[i] = t[i - Len(s)]
  OBVIOUS
<1> DEFINE u == s \o t
<1> HIDE DEF u
<1>2. \A i \in 1..(Len(s) + Len(t)) : i > Len(s) => i - Len(s) \in 1..Len(t)
  BY <1>1
<1>3. \A i \in 1..(Len(s) + Len(t)) : i \in 1..Len(s) \/ i > Len(s)
  BY <1>1
<1>4. \A i \in DOMAIN u : \/ i \in 1..Len(s) /\ u[i] = s[i]
                          \/ i > Len(s) /\ i - Len(s) \in 1..Len(t) /\ u[i] = t[i - Len(s)]
  BY <1>1, <1>2, <1>3 DEF u
<1>5. Range(u) \subseteq Range(s) \cup Range(t)
  BY <1>1, <1>4 DEF Range
<1>6. Range(s) \subseteq Range(u)
  <2>1. \A i \in 1..Len(s) : i \in DOMAIN u /\ u[i] = s[i]
    BY <1>1 DEF u
  <2> QED
    BY <1>1, <2>1 DEF Range
<1>7. Range(t) \subseteq Range(u)
  <2>1. ASSUME NEW j \in 1..Len(t)
        PROVE  Len(s) + j \in DOMAIN u /\ u[Len(s) + j] = t[j]
    <3>1. /\ Len(s) + j \in 1..(Len(s) + Len(t)) /\ Len(s) + j > Len(s)
          /\ (Len(s) + j) - Len(s) = j
      BY <1>1
    <3> QED
      BY <1>1, <3>1 DEF u
  <2> QED
    BY <1>1, <2>1 DEF Range
<1>8. Distinct(u)
  <2> SUFFICES ASSUME NEW i \in DOMAIN u, NEW j \in DOMAIN u, u[i] = u[j]
               PROVE  i = j
    BY DEF Distinct
  <2>1. \A k \in 1..Len(s) : s[k] \in Range(s)
    BY <1>1 DEF Range
  <2>2. \A k \in 1..Len(t) : t[k] \in Range(t)
    BY <1>1 DEF Range
  <2>3. CASE i \in 1..Len(s) /\ u[i] = s[i] /\ j \in 1..Len(s) /\ u[j] = s[j]
    BY <1>1, <2>3 DEF Distinct
  <2>4. CASE i > Len(s) /\ j > Len(s)
    <3>1. /\ i - Len(s) \in 1..Len(t) /\ j - Len(s) \in 1..Len(t)
          /\ t[i - Len(s)] = t[j - Len(s)] /\ i \in Nat /\ j \in Nat
      BY <1>1, <1>4, <2>4 DEF u
    <3>2. i - Len(s) = j - Len(s)
      BY <1>1, <3>1 DEF Distinct
    <3> QED
      BY <1>1, <3>1, <3>2
  <2> QED
    BY <1>1, <1>4, <2>1, <2>2, <2>3, <2>4
<1> QED
  BY <1>1, <1>5, <1>6, <1>7, <1>8 DEF u

LEMMA AskedFacts ==
  ASSUME o.parts \subseteq Parts
  PROVE  /\ asked \in Seq(Parts) /\ Range(asked) = o.parts /\ Distinct(asked)
         /\ o.parts # {} => asked # <<>>
<1> DEFINE One(x) == IF do(x) THEN <<x>> ELSE <<>>
           s == One("str")
           t == One("tor")
           p == One("plans")
<1>1. "str" \in Parts /\ "tor" \in Parts /\ "plans" \in Parts
      /\ \A x \in Parts : x = "str" \/ x = "tor" \/ x = "plans"
  BY DEF Parts
<1>2. ASSUME NEW x \in Parts
      PROVE  /\ One(x) \in Seq(Parts) /\ Distinct(One(x))
             /\ Range(One(x)) = {x} \cap o.parts
  <2>1. CASE do(x)
    <3>1. One(x) = <<x>> /\ <<x>> \in Seq(Parts) /\ DOMAIN <<x>> = {1} /\ <<x>>[1] = x
      BY <2>1
    <3>2. Range(<<x>>) = {x}
      BY <3>1 DEF Range
    <3> QED
      BY <2>1, <3>1, <3>2 DEF Distinct, do
  <2>2. CASE ~do(x)
    <3>1. One(x) = <<>> /\ <<>> \in Seq(Parts) /\ DOMAIN <<>> = {}
      BY <2>2
    <3>2. Range(<<>>) = {}
      BY <3>1 DEF Range
    <3> QED
      BY <2>2, <3>1, <3>2 DEF Distinct, do
  <2> QED
    BY <2>1, <2>2
<1>3. asked = (s \o t) \o p
  BY DEF asked
<1>4. /\ s \in Seq(Parts) /\ Distinct(s) /\ Range(s) = {"str"} \cap o.parts
      /\ t \in Seq(Parts) /\ Distinct(t) /\ Range(t) = {"tor"} \cap o.parts
      /\ p \in Seq(Parts) /\ Distinct(p) /\ Range(p) = {"plans"} \cap o.parts
  BY <1>1, <1>2
<1> HIDE DEF s, t, p
<1>5. Range(s) \cap Range(t) = {} /\ (Range(s) \cup Range(t)) \cap Range(p) = {}
  BY <1>4
<1>6. /\ s \o t \in Seq(Parts) /\ Distinct(s \o t)
      /\ Range(s \o t) = Range(s) \cup Range(t)
  BY <1>4, <1>5, ConcatFacts
<1>7. /\ asked \in Seq(Parts) /\ Distinct(asked)
      /\ Range(asked) = (Range(s) \cup Range(t)) \cup Range(p)
  <2> DEFINE st == s \o t
  <2>1. st \in Seq(Parts) /\ Distinct(st) /\ Range(st) \cap Range(p) = {}
    BY <1>5, <1>6
  <2> HIDE DEF st
  <2>2. st \o p \in Seq(Parts) /\ Distinct(st \o p) /\ Range(st \o p) = Range(st) \cup Range(p)
    BY <1>4, <2>1, ConcatFacts
  <2> QED
    BY <1>3, <1>6, <2>2 DEF st
<1>8. Range(asked) = o.parts
  BY <1>1, <1>4, <1>7
<1>9. asked = <<>> => Range(asked) = {}
  BY DEF Range
<1> QED
  BY <1>7, <1>8, <1>9

LEMMA TailFacts ==
  ASSUME NEW S, NEW s \in Seq(S), s # <<>>, Distinct(s)
  PROVE  /\ Tail(s) \in Seq(S) /\ Head(s) \in S /\ Head(s) \in Range(s)
         /\ Range(Tail(s)) = Range(s) \ {Head(s)}
         /\ Distinct(Tail(s))
<1>1. /\ Len(s) \in Nat \ {0} /\ DOMAIN s = 1..Len(s) /\ Head(s) = s[1]
      /\ Tail(s) \in Seq(S) /\ DOMAIN Tail(s) = 1..(Len(s) - 1)
      /\ \A i \in 1..(Len(s) - 1) : Tail(s)[i] = s[i + 1]
  OBVIOUS
<1>2. \A i \in 1..(Len(s) - 1) : i + 1 \in 1..Len(s) /\ i + 1 # 1
  BY <1>1
<1>3. \A i \in 1..Len(s) : i # 1 => i - 1 \in 1..(Len(s) - 1) /\ (i - 1) + 1 = i
  BY <1>1
<1>4. Range(Tail(s)) \subseteq Range(s) \ {Head(s)}
  <2>1. \A i \in 1..(Len(s) - 1) : s[i + 1] # s[1]
    BY <1>1, <1>2 DEF Distinct
  <2> QED
    BY <1>1, <1>2, <2>1 DEF Range
<1>5. ASSUME NEW x \in Range(s), x # Head(s) PROVE x \in Range(Tail(s))
  <2>1. PICK i \in 1..Len(s) : x = s[i]
    BY <1>1 DEF Range
  <2>2. i - 1 \in 1..(Len(s) - 1) /\ x = Tail(s)[i - 1]
    BY <1>1, <1>3, <1>5, <2>1
  <2> QED
    BY <1>1, <2>2 DEF Range
<1>6. Distinct(Tail(s))
  <2> SUFFICES ASSUME NEW i \in 1..(Len(s) - 1), NEW j \in 1..(Len(s) - 1),
                      Tail(s)[i] = Tail(s)[j]
               PROVE  i = j
    BY <1>1 DEF Distinct
  <2>1. i + 1 = j + 1
    BY <1>1, <1>2 DEF Distinct
  <2> QED
    BY <2>1, <1>1
<1> QED
  <2>1. Head(s) \in Range(s)
    BY <1>1 DEF Range
  <2> QED
    BY <1>1, <1>4, <1>5, <1>6, <2>1

-----------------------------------------------------------------------------
(* What steps have in common *)

LEMMA SameProcess ==
  ASSUME UNCHANGED <<o, fmts>>
  PROVE  /\ o' = o /\ fmts' = fmts /\ passno' = passno /\ format' = format
         /\ asked' = asked /\ (\A p : do(p)' <=> do(p))
         /\ (CheckValid(o)' <=> CheckValid(o))
  BY DEF passno, format, asked, do, CheckValid

\* The facts of an invocation under way
LEMMA UnderWayFacts ==
  ASSUME IInv, Running
  PROVE  /\ TypeOK /\ Accepted /\ Dated /\ Prepared /\ PartsDone /\ CloneMatched
         /\ o.parts \subseteq Parts /\ o.parts # {} /\ o.dolevel \in DoLevels
         /\ o.dolevel \in {"doA", "doB", "doC"} /\ (do("str") => o.testsuite_dir)
         /\ inv \in Nat \ {0}
         /\ step # "log" => format \in Formats /\ fmts # <<>>
  BY RunningFacts DEF IInv

LEMMA AcceptedKept ==
  ASSUME IInv, Running, UNCHANGED <<inv, o, fmts>>, step' # "git",
         step' \notin {"log", "idle"} => step # "log",
         step' = "log" => step = "log", step' = "model" => step = "git"
  PROVE  Accepted'
<1>1. /\ o' = o /\ fmts' = fmts /\ passno' = passno
      /\ (CheckValid(o)' <=> CheckValid(o))
  BY SameProcess
<1> QED
  BY <1>1 DEF IInv, Accepted, Running

LEMMA DatedKept ==
  ASSUME IInv, Running, UNCHANGED <<inv, o, items, kits, log>>, clone'.inv <= inv
  PROVE  Dated'
  BY DEF IInv, Dated, Running

LEMMA NoneFacts ==
  /\ None.inv = 0 /\ None \in Item /\ None \in Clone /\ None \in Log
  /\ \A x \in Log : x.inv \in Nat
<1>1. None.inv = 0 /\ None \in Item /\ None \in Clone /\ None \in Log
  BY DEF None, Item, Clone, Log
<1>2. ASSUME NEW x \in Log PROVE x.inv \in Nat
  <2>1. CASE x = None
    BY <1>1, <2>1
  <2>2. CASE x # None
    BY <2>2 DEF Log
  <2> QED
    BY <2>1, <2>2
<1> QED
  BY <1>1, <1>2

\* A log is about the clone of its invocation: a later one replaces this clone
LEMMA FreshLogKept ==
  ASSUME IInv, log' = log, clone'.inv = clone.inv \/ (Running /\ clone'.inv = inv) \/ clone' = None
  PROVE  FreshLogExact'
<1>1. log # None => log.inv > 0
  BY DEF IInv, Dated
<1>2. Running => log.inv < inv
  BY DEF IInv, Dated
<1>3. log.inv \in Nat /\ inv \in Nat
  BY NoneFacts DEF IInv, TypeOK
<1>4. ASSUME log' # None, log'.inv = clone'.inv PROVE log.inv = clone.inv
  <2>1. None.inv = 0
    BY DEF None
  <2> QED
    BY <1>1, <1>2, <1>3, <1>4, <2>1
<1> QED
  BY <1>1, <1>4 DEF IInv, FreshLogExact

LEMMA CloneFacts ==
  ASSUME TypeOK, clone # None
  PROVE  /\ clone \in [inv : Nat, tree : 1..Len(Tree), level : DoLevels,
                       dumps : SUBSET Testcases, missing : SUBSET Testcases, tor : Nat]
  BY DEF TypeOK, Clone

-----------------------------------------------------------------------------
(* The invocations *)

LEMMA StartInv ==
  ASSUME IInv, NEW opts \in Options, Start(opts)
  PROVE  IInv'
<1>0. /\ TypeOK /\ Dated /\ step = "idle" /\ ~Running
      /\ inv' = inv + 1 /\ o' = WithParts(opts) /\ fmts' = opts.formats
      /\ todo' = <<>> /\ local' = None /\ clone' = clone /\ items' = items
      /\ kits' = kits /\ log' = log
      /\ step' = IF CheckValid(o') THEN "git" ELSE "idle"
      /\ upstream' \in 1..Len(Tree) /\ suite' \in AllSuites /\ rest' \in {rest, NoReport}
  <2>1. TypeOK /\ Dated
    BY DEF IInv
  <2>2. Len(Tree) \in Nat /\ upstream \in 1..Len(Tree) /\ suite \in AllSuites
    BY <2>1, TreeAssumption DEF TypeOK, TreeAssumption
  <2>3. upstream' \in 1..Len(Tree) /\ suite' \in AllSuites
    BY <2>2 DEF Start, outside, AllSuites
  <2> QED
    BY <2>1, <2>3 DEF Start, Running, workdir
<1>1. /\ o'.formats = opts.formats /\ o'.formats \in Seq(Formats)
      /\ CheckValid(o') => o'.formats # <<>>
  BY <1>0, OptionFacts
<1>2. Len(fmts') = Len(o'.formats) /\ Len(fmts') \in Nat /\ passno' = 1
  BY <1>0, <1>1 DEF passno
<1>3. TypeOK'
  <2>1. /\ inv' \in Nat /\ fmts' \in Seq(Formats) /\ step' \in Steps /\ rest' \in Reports
    BY <1>0, <1>1 DEF TypeOK, Steps, Reports
  <2> QED
    BY <1>0, <2>1 DEF TypeOK
<1>4. Accepted'
  BY <1>0, <1>1, <1>2 DEF Accepted, Running, TypeOK
<1>5. Dated'
  <2>1. \A f \in Formats, p \in Parts : items[f][p].inv \in Nat /\ kits[f].items[p].inv \in Nat
    BY <1>0, NoneFacts DEF TypeOK, Item, Kit
  <2>2. clone.inv \in Nat /\ log.inv \in Nat /\ inv \in Nat
    BY <1>0, NoneFacts DEF TypeOK, Clone
  <2> QED
    BY <1>0, <2>1, <2>2 DEF Dated
<1>6. Prepared'
  BY <1>0, <1>2 DEF Prepared, Localized, Running
<1>7. PartsDone'
  BY <1>0 DEF PartsDone, Packed
<1>8. CloneMatched'
  <2>1. clone.inv \in Nat /\ inv \in Nat /\ clone.inv <= inv
    BY <1>0, NoneFacts DEF TypeOK, Clone, Dated
  <2> QED
    BY <1>0, <2>1 DEF CloneMatched
<1>9. FreshLogExact'
  BY <1>0, FreshLogKept
<1> QED
  BY <1>3, <1>4, <1>5, <1>6, <1>7, <1>8, <1>9 DEF IInv

LEMMA FailInv ==
  ASSUME IInv, Fail
  PROVE  IInv'
<1>1. /\ Running /\ step' = "idle" /\ UNCHANGED <<inv, o, fmts, local>>
      /\ UNCHANGED <<todo, upstream, suite, rest, clone, items, kits, log>>
  BY DEF Fail, Running, process, outside, workdir
<1>2. TypeOK'
  BY <1>1 DEF IInv, TypeOK, Steps
<1>3. Accepted' /\ Prepared' /\ PartsDone' /\ CloneMatched'
  BY <1>1 DEF Accepted, Prepared, PartsDone, CloneMatched, Running, Packed
<1>4. Dated'
  BY <1>1, DatedKept DEF IInv, Dated
<1>5. FreshLogExact'
  BY <1>1, FreshLogKept
<1> QED
  BY <1>2, <1>3, <1>4, <1>5 DEF IInv

LEMMA GitUpdateInv ==
  ASSUME IInv, GitUpdate
  PROVE  IInv'
<1>0. /\ Running /\ step = "git" /\ UNCHANGED <<inv, o, fmts, local>>
      /\ UNCHANGED <<todo, upstream, suite, rest, items, kits, log>>
      /\ TypeOK /\ Prepared /\ CloneMatched
      /\ clone # None => clone \in
           [inv : Nat, tree : 1..Len(Tree), level : DoLevels,
            dumps : SUBSET Testcases, missing : SUBSET Testcases, tor : Nat]
  BY CloneFacts DEF GitUpdate, Running, process, outside, IInv
<1>1. \/ step' = "idle" /\ clone' = clone
      \/ step' = "idle" /\ clone' = None
      \/ step' = "model" /\ clone # None /\ clone' = clone
      \/ step' = "model" /\ clone # None /\ clone' = [clone EXCEPT !.tree = upstream]
      \/ step' = "model" /\ clone' = [inv |-> inv, tree |-> upstream, level |-> "none",
                                      dumps |-> {}, missing |-> {}, tor |-> 0]
  BY DEF GitUpdate
<1>2. /\ clone' \in Clone /\ (step' = "model" => clone' # None)
      /\ \/ clone'.inv = clone.inv /\ clone'.dumps = clone.dumps
         \/ clone'.inv = inv /\ clone'.dumps = {}
         \/ clone' = None
  <2>1. upstream \in 1..Len(Tree) /\ inv \in Nat \ {0} /\ "none" \in DoLevels
    BY <1>0, UnderWayFacts DEF TypeOK, DoLevels
  <2>2. CASE step' = "model" /\ clone # None /\ clone' = [clone EXCEPT !.tree = upstream]
    <3>1. clone' \in [inv : Nat, tree : 1..Len(Tree), level : DoLevels,
                      dumps : SUBSET Testcases, missing : SUBSET Testcases, tor : Nat]
      BY <1>0, <2>1, <2>2
    <3>2. clone'.inv = clone.inv /\ clone'.dumps = clone.dumps /\ clone'.tree = upstream
      BY <1>0, <2>2
    <3>3. DOMAIN clone' # DOMAIN None
      BY <3>1 DEF None
    <3> QED
      BY <3>1, <3>2, <3>3 DEF Clone
  <2>3. CASE clone' = [inv |-> inv, tree |-> upstream, level |-> "none",
                       dumps |-> {}, missing |-> {}, tor |-> 0]
    <3>1. DOMAIN clone' # DOMAIN None
      BY <2>3 DEF None
    <3> QED
      BY <2>1, <2>3, <3>1 DEF Clone
  <2> QED
    BY <1>0, <1>1, <2>2, <2>3, NoneFacts DEF TypeOK
<1>3. step' \in {"idle", "model"}
  BY <1>1
<1>4. TypeOK'
  BY <1>0, <1>2, <1>3 DEF TypeOK, Steps
<1>5. Accepted'
  BY <1>0, <1>3, AcceptedKept
<1>6. Dated'
  <2>1. clone'.inv <= inv
    BY <1>0, <1>2, NoneFacts, UnderWayFacts DEF Dated
  <2> QED
    BY <1>0, <2>1, DatedKept
<1>7. passno = 1 /\ passno' = 1 /\ (\A p : do(p)' <=> do(p))
  BY <1>0, SameProcess DEF IInv, Accepted
<1>8. Prepared'
  BY <1>0, <1>2, <1>3, <1>7 DEF Prepared, Localized, Running
<1>9. PartsDone'
  BY <1>3 DEF PartsDone, Packed
<1>10. CloneMatched'
  <2>1. ~TorBuilt /\ ~TorBuilt'
    BY <1>0, <1>3, <1>7 DEF TorBuilt
  <2>2. ASSUME Running', clone'.inv = inv', do("tor")' PROVE clone'.dumps = {}
    <3>1. inv' = inv /\ inv # 0 /\ do("tor")
      BY <1>0, <1>7, <2>2, UnderWayFacts
    <3> QED
      BY <1>0, <1>2, <2>1, <2>2, <3>1, NoneFacts DEF CloneMatched
  <2> QED
    BY <2>1, <2>2 DEF CloneMatched
<1>11. FreshLogExact'
  BY <1>0, <1>2, FreshLogKept
<1> QED
  BY <1>4, <1>5, <1>6, <1>8, <1>9, <1>10, <1>11 DEF IInv

LEMMA GenQmModelInv ==
  ASSUME IInv, GenQmModel
  PROVE  IInv'
<1>0. /\ Running /\ step = "model" /\ step' = "str" /\ UNCHANGED <<inv, o, fmts, local>>
      /\ UNCHANGED <<todo, upstream, suite, rest, items, kits, log>>
      /\ clone' = [clone EXCEPT !.level = o.dolevel]
      /\ TypeOK /\ Prepared /\ CloneMatched /\ clone # None
  BY DEF GenQmModel, Running, process, outside, IInv, Prepared
<1>1. /\ clone' \in Clone /\ clone' # None /\ clone'.level = o.dolevel
      /\ clone'.inv = clone.inv /\ clone'.dumps = clone.dumps
  <2>1. clone \in [inv : Nat, tree : 1..Len(Tree), level : DoLevels,
                   dumps : SUBSET Testcases, missing : SUBSET Testcases, tor : Nat]
    BY <1>0, CloneFacts
  <2>2. o.dolevel \in DoLevels
    BY <1>0, UnderWayFacts
  <2>3. clone' \in [inv : Nat, tree : 1..Len(Tree), level : DoLevels,
                    dumps : SUBSET Testcases, missing : SUBSET Testcases, tor : Nat]
    BY <1>0, <2>1, <2>2
  <2>4. DOMAIN clone' # DOMAIN None
    BY <2>3 DEF None
  <2> QED
    BY <1>0, <2>1, <2>3, <2>4 DEF Clone
<1>2. TypeOK'
  BY <1>0, <1>1 DEF TypeOK, Steps
<1>3. Accepted'
  BY <1>0, AcceptedKept
<1>4. Dated'
  BY <1>0, <1>1, DatedKept DEF IInv, Dated
<1>5. passno = 1 /\ passno' = 1 /\ (\A p : do(p)' <=> do(p))
  BY <1>0, SameProcess DEF IInv, Accepted
<1>6. Prepared'
  BY <1>0, <1>1, <1>5 DEF Prepared, Localized, Running
<1>7. PartsDone'
  BY <1>0 DEF PartsDone, Packed
<1>8. CloneMatched'
  BY <1>0, <1>1, <1>5 DEF CloneMatched, TorBuilt, Running
<1>9. FreshLogExact'
  BY <1>0, <1>1, FreshLogKept
<1> QED
  BY <1>2, <1>3, <1>4, <1>6, <1>7, <1>8, <1>9 DEF IInv

LEMMA PrepareStrDirInv ==
  ASSUME IInv, PrepareStrDir
  PROVE  IInv'
<1>0. /\ Running /\ step = "str" /\ step' \in {"idle", "localize"}
      /\ UNCHANGED <<inv, o, fmts, local, todo, upstream, suite, clone, items, kits, log>>
      /\ TypeOK /\ Prepared /\ CloneMatched
      /\ IF do("str") /\ passno = 1
         THEN /\ rest' = QDreport(suite, o.dolevel)
              /\ step' = "localize" => rest' # NoReport
         ELSE rest' = rest
  BY DEF PrepareStrDir, Running, process, outside, workdir, IInv
<1>1. rest' \in Reports
  <2>1. suite \in AllSuites /\ rest \in Reports /\ o.dolevel \in DoLevels
    BY <1>0, UnderWayFacts DEF TypeOK
  <2> QED
    BY <1>0, <2>1 DEF Reports
<1>2. TypeOK'
  BY <1>0, <1>1 DEF TypeOK, Steps
<1>3. Accepted'
  BY <1>0, AcceptedKept
<1>4. Dated'
  BY <1>0, DatedKept DEF IInv, Dated
<1>5. passno' = passno /\ (\A p : do(p)' <=> do(p))
  BY <1>0, SameProcess
<1>6. passno >= 1 /\ passno \in Nat
  <2>1. Len(fmts) <= Len(o.formats) /\ Len(fmts) \in Nat /\ Len(o.formats) \in Nat
    BY <1>0, RunningFacts DEF IInv, Accepted
  <2> QED
    BY <2>1 DEF passno
<1>7. Prepared'
  <2>1. Localized' <=> Localized
    BY <1>0, <1>5 DEF Localized
  <2>2. ~(do("str") /\ passno = 1) => (do("str") => passno > 1)
    BY <1>6
  <2>3. clone # None /\ clone.level = o.dolevel
    BY <1>0 DEF Prepared
  <2>4. step' # "idle" /\ do("str") => rest' = QDreport(suite, o.dolevel) /\ rest' # NoReport
    BY <1>0, <2>2 DEF Prepared, Localized
  <2>5. step' # "idle" => local' = IF Localized' /\ o'.testsuite_dir
                THEN [inv |-> inv', suite |-> suite', rest |-> rest'] ELSE None
    <3>1. CASE Localized
      <4>1. rest' = rest
        BY <1>0, <3>1 DEF Localized
      <4> QED
        BY <1>0, <2>1, <4>1 DEF Prepared
    <3>2. CASE ~Localized
      BY <1>0, <2>1, <3>2 DEF Prepared
    <3> QED
      BY <3>1, <3>2
  <2> QED
    BY <1>0, <1>5, <2>3, <2>4, <2>5 DEF Prepared, Running
<1>8. PartsDone'
  BY <1>0 DEF PartsDone, Packed
<1>9. CloneMatched'
  BY <1>0, <1>5 DEF CloneMatched, TorBuilt, Running
<1>10. FreshLogExact'
  BY <1>0, FreshLogKept
<1> QED
  BY <1>2, <1>3, <1>4, <1>7, <1>8, <1>9, <1>10 DEF IInv

LEMMA LocalizeInv ==
  ASSUME IInv, LocalizeTestsuiteDir
  PROVE  IInv'
<1>0. /\ Running /\ step = "localize" /\ step' = "build"
      /\ UNCHANGED <<inv, o, fmts, upstream, suite, rest, clone, items, kits, log>>
      /\ local' = IF o.testsuite_dir /\ local = None
                  THEN [inv |-> inv, suite |-> suite, rest |-> rest] ELSE local
      /\ todo' = asked
      /\ TypeOK /\ Prepared /\ CloneMatched
  BY DEF LocalizeTestsuiteDir, Running, outside, workdir, IInv
<1>1. asked \in Seq(Parts) /\ Range(asked) = o.parts /\ Distinct(asked) /\ asked # <<>>
  BY <1>0, UnderWayFacts, AskedFacts
<1>2. local' = IF o.testsuite_dir
               THEN [inv |-> inv, suite |-> suite, rest |-> rest] ELSE None
  BY <1>0 DEF Prepared
<1>3. TypeOK'
  BY <1>0, <1>1, <1>2 DEF TypeOK, Steps
<1>4. Accepted'
  BY <1>0, AcceptedKept
<1>5. Dated'
  BY <1>0, DatedKept DEF IInv, Dated
<1>6. passno' = passno /\ (\A p : do(p)' <=> do(p))
  BY <1>0, SameProcess
<1>7. Prepared'
  BY <1>0, <1>2, <1>6 DEF Prepared, Localized, Running
<1>8. PartsDone'
  BY <1>0, <1>1 DEF PartsDone, Packed, Distinct
<1>9. CloneMatched'
  <2>1. do("tor") => "tor" \in Range(todo')
    BY <1>0, <1>1 DEF do
  <2>2. do("tor") => (TorBuilt' <=> TorBuilt)
    BY <1>0, <1>6, <2>1 DEF TorBuilt
  <2>3. TorBuilt /\ local # None => local' = local
    BY <1>0
  <2>4. TorBuilt => Localized
    BY <1>0 DEF TorBuilt, Localized
  <2>5. local' # None /\ Localized => local # None
    BY <1>0, <1>2 DEF Prepared
  <2> QED
    BY <1>0, <1>6, <2>2, <2>3, <2>4, <2>5 DEF CloneMatched, Running
<1>10. FreshLogExact'
  BY <1>0, FreshLogKept
<1> QED
  BY <1>3, <1>4, <1>5, <1>7, <1>8, <1>9, <1>10 DEF IInv

-----------------------------------------------------------------------------
(* The documents *)

LEMMA BuiltType ==
  ASSUME TypeOK, clone # None, o.dolevel \in DoLevels,
         NEW part \in Parts, NEW report \in Reports
  PROVE  Built(part, report) \in Item
<1>1. clone.tree \in 1..Len(Tree) /\ inv \in Nat
  BY CloneFacts DEF TypeOK
<1> QED
  BY <1>1 DEF Built, Item

\* A part that is built takes its place among the items
LEMMA LatchInv ==
  ASSUME IInv, step = "build", NEW part \in Parts, NEW report \in Reports,
         Head(todo) = part, LatchInto(part, report),
         clone' \in Clone, clone' # None, clone'.inv = clone.inv,
         clone'.tree = clone.tree, clone'.level = clone.level,
         part = "str" => report = QDreport(suite, o.dolevel),
         CloneMatched'
  PROVE  IInv'
<1>0. /\ Running /\ UNCHANGED <<inv, o, fmts, local, upstream, suite, rest, kits, log>>
      /\ items' = [items EXCEPT ![format][part] = Built(part, report)]
      /\ todo' = Tail(todo)
      /\ step' = IF todo' = <<>> THEN "kit" ELSE "build"
      /\ TypeOK /\ Dated /\ Prepared /\ PartsDone
      /\ format \in Formats /\ o.dolevel \in DoLevels /\ clone # None
      /\ clone.level = o.dolevel /\ inv \in Nat
  BY UnderWayFacts DEF LatchInto, Running, process, outside, Prepared
<1>1. /\ todo' \in Seq(Parts) /\ Range(todo') = Range(todo) \ {part}
      /\ Distinct(todo') /\ Range(todo) \subseteq o.parts
      /\ todo' = <<>> => Range(todo') = {}
  <2>1. todo \in Seq(Parts) /\ todo # <<>> /\ Distinct(todo) /\ Range(todo) \subseteq o.parts
    BY <1>0 DEF TypeOK, PartsDone, Distinct
  <2>2. todo' = <<>> => Range(todo') = {}
    BY DEF Range
  <2> QED
    BY <1>0, <2>1, <2>2, TailFacts
<1>2. Built(part, report) \in Item
  BY <1>0, BuiltType
<1>3. /\ items \in [Formats -> [Parts -> Item]] /\ items' \in [Formats -> [Parts -> Item]]
      /\ items'[format][part] = Built(part, report)
      /\ \A f \in Formats, p \in Parts :
            f # format \/ p # part => items'[f][p] = items[f][p]
  <2>1. items \in [Formats -> [Parts -> Item]]
    BY <1>0 DEF TypeOK
  <2> QED
    BY <1>0, <1>2, <2>1
<1>4. /\ Built(part, report).inv = inv /\ Built(part, report).part = part
      /\ Built(part, report).tree = clone.tree /\ Built(part, report).level = o.dolevel
      /\ Built(part, report).report = report
  BY DEF Built
<1>5. TypeOK'
  BY <1>0, <1>1, <1>3 DEF TypeOK, Steps
<1>6. Accepted'
  BY <1>0, AcceptedKept
<1>7. Dated'
  <2>1. part \in o.parts
    <3>1. todo \in Seq(Parts) /\ todo # <<>> /\ Distinct(todo)
      BY <1>0 DEF TypeOK, PartsDone, Distinct
    <3> QED
      BY <1>1, <3>1, TailFacts
  <2>2. \A f \in Formats, p \in Parts :
          /\ items'[f][p].inv <= inv
          /\ p \notin o.parts => items'[f][p] = items[f][p]
    BY <1>0, <1>3, <1>4, <2>1 DEF Dated
  <2> QED
    BY <1>0, <2>2 DEF Dated, Running
<1>8. passno' = passno /\ format' = format /\ (\A p : do(p)' <=> do(p))
  BY <1>0, SameProcess
<1>9. Prepared'
  BY <1>0, <1>8 DEF Prepared, Localized, Running
<1>10. PartsDone'
  <2>1. ASSUME NEW p \in o.parts, p \notin Range(todo')
        PROVE  OwnPart(p, items[format][p])'
    <3>1. p \in Parts
      BY <1>0, UnderWayFacts
    <3>2. CASE p = part
      BY <1>0, <1>3, <1>4, <1>8, <3>2 DEF OwnPart
    <3>3. CASE p # part
      <4>1. OwnPart(p, items[format][p]) /\ items'[format'][p] = items[format][p]
        BY <1>0, <1>1, <1>3, <1>8, <2>1, <3>1, <3>3 DEF PartsDone
      <4> QED
        BY <1>0, <4>1 DEF OwnPart
    <3> QED
      BY <3>2, <3>3
  <2>2. step' \in {"kit", "build"} /\ (step' = "kit" => Range(todo') = {})
        /\ (step' = "build" => todo' # <<>>)
    BY <1>0, <1>1
  <2>3. Range(todo') \subseteq o.parts
    BY <1>1
  <2> QED
    BY <1>0, <1>1, <2>1, <2>2, <2>3 DEF PartsDone, Packed, Distinct
<1>11. FreshLogExact'
  BY <1>0, FreshLogKept
<1> QED
  BY <1>5, <1>6, <1>7, <1>9, <1>10, <1>11 DEF IInv

\* Building another part leaves the clone's account of results as it is
LEMMA OtherPart ==
  ASSUME IInv, step = "build", NEW part \in Parts, part # "tor", NEW report,
         Head(todo) = part, LatchInto(part, report), clone' = clone
  PROVE  CloneMatched'
<1>0. /\ Running /\ UNCHANGED <<inv, o, fmts, local>> /\ todo' = Tail(todo)
      /\ step' = IF todo' = <<>> THEN "kit" ELSE "build"
      /\ TypeOK /\ PartsDone /\ CloneMatched
  BY DEF LatchInto, Running, process, IInv
<1>1. /\ Range(todo') = Range(todo) \ {part} /\ (todo' = <<>> => Range(todo') = {})
  <2>1. todo \in Seq(Parts) /\ todo # <<>> /\ Distinct(todo)
    BY <1>0 DEF TypeOK, PartsDone, Distinct
  <2>2. todo' = <<>> => Range(todo') = {}
    BY DEF Range
  <2> QED
    BY <1>0, <2>1, <2>2, TailFacts
<1>2. passno' = passno /\ (\A p : do(p)' <=> do(p))
  BY <1>0, SameProcess
<1>3. TorBuilt' <=> TorBuilt
  BY <1>0, <1>1, <1>2 DEF TorBuilt
<1> QED
  BY <1>0, <1>2, <1>3 DEF CloneMatched

LEMMA BuildStrInv ==
  ASSUME IInv, BuildStr
  PROVE  IInv'
<1>1. /\ step = "build" /\ Head(todo) = "str" /\ LatchInto("str", local.rest)
      /\ clone' = clone /\ TypeOK /\ Prepared /\ PartsDone /\ Running
  BY DEF BuildStr, IInv, Running
<1>2. do("str")
  <2>1. todo \in Seq(Parts) /\ todo # <<>> /\ Distinct(todo) /\ Range(todo) \subseteq o.parts
    BY <1>1 DEF TypeOK, PartsDone, Distinct
  <2> QED
    BY <1>1, <2>1, TailFacts DEF do
<1>3. local.rest = rest /\ rest = QDreport(suite, o.dolevel) /\ rest \in Reports
  BY <1>1, <1>2, UnderWayFacts DEF Prepared, Localized, TypeOK
<1>4. "str" \in Parts /\ "str" # "tor" /\ clone \in Clone /\ clone # None
  BY <1>1 DEF Parts, TypeOK, Prepared
<1> QED
  BY <1>1, <1>3, <1>4, OtherPart, LatchInv

LEMMA BuildPlansInv ==
  ASSUME IInv, BuildPlans
  PROVE  IInv'
<1>1. /\ step = "build" /\ Head(todo) = "plans" /\ LatchInto("plans", NoReport)
      /\ clone' = clone /\ TypeOK /\ Prepared /\ Running
  BY DEF BuildPlans, IInv, Running
<1>2. /\ "plans" \in Parts /\ "plans" # "tor" /\ "plans" # "str"
      /\ clone \in Clone /\ clone # None /\ NoReport \in Reports
  BY <1>1 DEF Parts, TypeOK, Prepared, Reports
<1> QED
  BY <1>1, <1>2, OtherPart, LatchInv

LEMMA BuildTorInv ==
  ASSUME IInv, BuildTor
  PROVE  IInv'
<1> DEFINE dumps == clone.dumps \cup
              (IF local # None /\ passno = 1 THEN SyncedResults(clone.tree) ELSE {})
<1>0. /\ step = "build" /\ Head(todo) = "tor" /\ LatchInto("tor", NoReport)
      /\ clone' = [clone EXCEPT !.dumps = dumps, !.tor = inv,
                                !.missing = Imported(clone.tree, clone.level) \ dumps]
      /\ TypeOK /\ Accepted /\ Prepared /\ PartsDone /\ CloneMatched /\ Running /\ clone # None
  BY DEF BuildTor, IInv, Running, Prepared
<1>1. /\ "tor" \in Parts /\ NoReport \in Reports /\ "tor" # "str"
  BY DEF Parts, Reports
<1>2. clone \in [inv : Nat, tree : 1..Len(Tree), level : DoLevels,
                 dumps : SUBSET Testcases, missing : SUBSET Testcases, tor : Nat]
  BY <1>0, CloneFacts
<1>3. Tree[clone.tree] \subseteq Testcases
  <2>1. Tree \in Seq(SUBSET Testcases) /\ clone.tree \in 1..Len(Tree)
    BY <1>2, TreeAssumption DEF TreeAssumption, Testcases
  <2> QED
    BY <2>1
<1>4. dumps \subseteq Testcases /\ Imported(clone.tree, clone.level) \subseteq Testcases
  BY <1>2, <1>3 DEF SyncedResults, Imported
<1>5. /\ clone' \in Clone /\ clone' # None /\ clone'.inv = clone.inv
      /\ clone'.tree = clone.tree /\ clone'.level = clone.level
      /\ clone'.dumps = dumps /\ clone'.missing = Imported(clone.tree, clone.level) \ dumps
  <2> HIDE DEF dumps
  <2>1. inv \in Nat
    BY <1>0 DEF TypeOK
  <2>2. /\ clone'.inv = clone.inv
        /\ clone'.tree = clone.tree /\ clone'.level = clone.level
        /\ clone'.dumps = dumps /\ clone'.missing = Imported(clone.tree, clone.level) \ dumps
    BY <1>0, <1>2
  <2>3. clone' \in [inv : Nat, tree : 1..Len(Tree), level : DoLevels,
                    dumps : SUBSET Testcases, missing : SUBSET Testcases, tor : Nat]
    BY <1>0, <1>2, <1>3, <1>4, <2>1
  <2>4. DOMAIN clone' # DOMAIN None
    BY <2>3 DEF None
  <2> QED
    BY <2>2, <2>3, <2>4 DEF Clone
<1>6. CloneMatched'
  <2>0. /\ UNCHANGED <<inv, o, fmts, local>> /\ todo' = Tail(todo)
        /\ step' = IF todo' = <<>> THEN "kit" ELSE "build"
    BY <1>0 DEF LatchInto, process
  <2>1. passno' = passno /\ (\A p : do(p)' <=> do(p))
    BY <2>0, SameProcess
  <2>2. Range(todo') = Range(todo) \ {"tor"} /\ "tor" \in Range(todo)
    <3>1. todo \in Seq(Parts) /\ todo # <<>> /\ Distinct(todo)
      BY <1>0 DEF TypeOK, PartsDone, Distinct
    <3> QED
      BY <1>0, <2>0, <3>1, TailFacts
  <2>3. TorBuilt' /\ (TorBuilt <=> passno > 1)
    BY <1>0, <2>0, <2>1, <2>2 DEF TorBuilt
  <2>4. passno >= 1 /\ passno \in Nat
    <3>1. Len(fmts) <= Len(o.formats) /\ Len(fmts) \in Nat /\ Len(o.formats) \in Nat
      BY <1>0, RunningFacts DEF Accepted
    <3> QED
      BY <3>1 DEF passno
  <2>5. ASSUME clone.inv = inv, do("tor"), local # None
        PROVE  dumps = ResultsOf(local.suite, clone.tree)
    <3>1. CASE passno = 1
      BY <1>0, <2>3, <2>5, <3>1 DEF CloneMatched, SyncedResults, ResultsOf
    <3>2. CASE passno > 1
      BY <1>0, <2>3, <2>5, <3>2 DEF CloneMatched
    <3> QED
      BY <2>4, <3>1, <3>2
  <2> HIDE DEF dumps
  <2> QED
    BY <1>5, <2>0, <2>1, <2>3, <2>5 DEF CloneMatched, ResultsOf
<1> QED
  BY <1>0, <1>1, <1>5, <1>6, LatchInv

-----------------------------------------------------------------------------
(* The kits *)

LEMMA BuildKitInv ==
  ASSUME IInv, BuildKit
  PROVE  IInv'
<1>0. /\ Running /\ step = "kit"
      /\ UNCHANGED <<inv, o, fmts, local, upstream, suite, rest, clone, items, kits, log>>
      /\ todo' = IF o.kitp THEN asked ELSE <<>>
      /\ step' = IF o.kitp THEN "relocate" ELSE "next"
      /\ TypeOK /\ Prepared /\ PartsDone /\ CloneMatched
  BY DEF BuildKit, Running, process, outside, workdir, IInv
<1>1. asked \in Seq(Parts) /\ Range(asked) = o.parts /\ Distinct(asked)
  BY <1>0, UnderWayFacts, AskedFacts
<1>2. TypeOK'
  BY <1>0, <1>1 DEF TypeOK, Steps
<1>3. Accepted'
  BY <1>0, AcceptedKept
<1>4. Dated'
  BY <1>0, DatedKept DEF IInv, Dated
<1>5. passno' = passno /\ format' = format /\ (\A p : do(p)' <=> do(p))
  BY <1>0, SameProcess
<1>6. Prepared'
  BY <1>0, <1>5 DEF Prepared, Localized, Running
<1>7. PartsDone'
  <2>1. ASSUME NEW p \in o.parts PROVE OwnPart(p, items[format][p])'
    BY <1>0, <1>5, <2>1 DEF PartsDone, OwnPart
  <2> QED
    BY <1>0, <1>1, <1>5, <2>1 DEF PartsDone, Packed, Distinct, OwnPart
<1>8. CloneMatched'
  BY <1>0, <1>5 DEF CloneMatched, TorBuilt, Running
<1>9. FreshLogExact'
  BY <1>0, FreshLogKept
<1> QED
  BY <1>2, <1>3, <1>4, <1>6, <1>7, <1>8, <1>9 DEF IInv

LEMMA RelocateInv ==
  ASSUME IInv, RelocateInto
  PROVE  IInv'
<1> DEFINE part == Head(todo)
           moved == items[format][part]
<1>0. /\ Running /\ step = "relocate" /\ todo # <<>> /\ todo' = Tail(todo) /\ step' = step
      /\ UNCHANGED <<inv, o, fmts, local, upstream, suite, rest, clone, log>>
      /\ kits' = [kits EXCEPT ![format].items[part] = moved]
      /\ items' = [items EXCEPT ![format][part] = None]
      /\ TypeOK /\ Dated /\ Prepared /\ PartsDone /\ CloneMatched
      /\ format \in Formats /\ inv \in Nat
  BY UnderWayFacts DEF RelocateInto, Running, process, outside, IInv
<1>1. /\ todo' \in Seq(Parts) /\ part \in Parts /\ part \in o.parts
      /\ Range(todo') = Range(todo) \ {part} /\ part \in Range(todo)
      /\ Distinct(todo') /\ Range(todo) \subseteq o.parts
  <2>1. todo \in Seq(Parts) /\ Distinct(todo) /\ Range(todo) \subseteq o.parts
    BY <1>0 DEF TypeOK, PartsDone, Distinct
  <2> QED
    BY <1>0, <2>1, TailFacts
<1> HIDE DEF part
<1>2. /\ items \in [Formats -> [Parts -> Item]] /\ kits \in [Formats -> Kit]
      /\ moved \in Item
  BY <1>0, <1>1 DEF TypeOK
<1> HIDE DEF moved
<1>3. /\ items' \in [Formats -> [Parts -> Item]] /\ items'[format][part] = None
      /\ \A f \in Formats, p \in Parts :
            f # format \/ p # part => items'[f][p] = items[f][p]
  BY <1>0, <1>1, <1>2, NoneFacts
<1> DEFINE new == [kits[format].items EXCEPT ![part] = moved]
           kit == [kits[format] EXCEPT !.items = new]
<1>4. kits[format] \in Kit /\ kits[format].items \in [Parts -> Item]
  BY <1>0, <1>2 DEF Kit
<1>5. /\ new \in [Parts -> Item] /\ new[part] = moved
      /\ \A p \in Parts : p # part => new[p] = kits[format].items[p]
  BY <1>1, <1>2, <1>4
<1>6. kits' = [kits EXCEPT ![format] = kit]
  BY <1>0, <1>2
<1> HIDE DEF new
<1>7. kit \in Kit /\ kit.items = new
  BY <1>4, <1>5 DEF Kit
<1> HIDE DEF kit
<1>8. /\ kits' \in [Formats -> Kit] /\ kits'[format].items[part] = moved
      /\ \A f \in Formats, p \in Parts :
            f # format \/ p # part => kits'[f].items[p] = kits[f].items[p]
  <2>1. kits' \in [Formats -> Kit] /\ kits'[format] = kit
    BY <1>0, <1>2, <1>6, <1>7
  <2>2. \A f \in Formats : f # format => kits'[f] = kits[f]
    BY <1>2, <1>6
  <2> QED
    BY <1>5, <1>7, <2>1, <2>2
<1>9. TypeOK'
  BY <1>0, <1>1, <1>3, <1>8 DEF TypeOK
<1>10. Accepted'
  BY <1>0, AcceptedKept
<1>11. Dated'
  <2>1. moved.inv <= inv
    BY <1>0, <1>1 DEF Dated, moved
  <2>2. None.inv <= inv
    BY <1>0, NoneFacts
  <2>3. ASSUME NEW f \in Formats, NEW p \in Parts
        PROVE  /\ items'[f][p].inv <= inv /\ kits'[f].items[p].inv <= inv
               /\ p \notin o.parts => kits'[f].items[p].inv < inv
    <3>1. CASE f = format /\ p = part
      BY <1>1, <1>3, <1>8, <2>1, <2>2, <3>1
    <3>2. CASE f # format \/ p # part
      <4>1. items'[f][p] = items[f][p] /\ kits'[f].items[p] = kits[f].items[p]
        BY <1>3, <1>8, <3>2
      <4> QED
        BY <1>0, <4>1 DEF Dated
    <3> QED
      BY <3>1, <3>2
  <2> QED
    BY <1>0, <2>3 DEF Dated
<1>12. passno' = passno /\ format' = format /\ (\A p : do(p)' <=> do(p))
  BY <1>0, SameProcess
<1>13. Prepared'
  BY <1>0, <1>12 DEF Prepared, Localized, Running
<1>14. PartsDone'
  <2>1. ASSUME NEW p \in o.parts
        PROVE  OwnPart(p, IF p \in Range(todo') THEN items'[format][p]
                          ELSE kits'[format].items[p])
    <3>1. p \in Parts
      BY <1>0, UnderWayFacts
    <3>2. CASE p = part
      <4>1. OwnPart(p, moved)
        BY <1>0, <1>1, <3>2 DEF PartsDone, moved
      <4> QED
        BY <1>1, <1>8, <3>2, <4>1
    <3>3. CASE p # part
      <4>1. items'[format][p] = items[format][p]
            /\ kits'[format].items[p] = kits[format].items[p]
            /\ (p \in Range(todo') <=> p \in Range(todo))
        BY <1>0, <1>1, <1>3, <1>8, <3>1, <3>3
      <4> QED
        BY <1>0, <4>1 DEF PartsDone
    <3> QED
      BY <3>2, <3>3
  <2>2. ASSUME NEW p \in o.parts
        PROVE  OwnPart(p, IF p \in Range(todo) THEN items[format][p]
                          ELSE kits[format].items[p])'
    BY <1>0, <1>12, <2>1 DEF OwnPart
  <2>3. Range(todo') \subseteq o.parts
    BY <1>1
  <2> QED
    BY <1>0, <1>1, <2>2, <2>3 DEF PartsDone, Packed, Distinct
<1>15. CloneMatched'
  BY <1>0, <1>12 DEF CloneMatched, TorBuilt, Running
<1>16. FreshLogExact'
  BY <1>0, FreshLogKept
<1> QED
  BY <1>9, <1>10, <1>11, <1>13, <1>14, <1>15, <1>16 DEF IInv

\* What stays in an archive came from the items of kits
LEMMA LeftoversType ==
  ASSUME NEW kit \in Kit
  PROVE  Leftovers(kit) \in SUBSET Item
<1>1. CASE format = "html" /\ kit.zip # None
  <2>1. kit.zip.items \in [Parts -> Item] /\ kit.zip.stale \in SUBSET Item
    BY <1>1 DEF Kit
  <2>2. Range(kit.zip.items) \subseteq Item
    BY <2>1 DEF Range
  <2> QED
    BY <1>1, <2>1, <2>2 DEF Leftovers
<1>2. CASE ~(format = "html" /\ kit.zip # None)
  BY <1>2 DEF Leftovers
<1> QED
  BY <1>1, <1>2

LEMMA ZipKitInv ==
  ASSUME IInv, ZipKit
  PROVE  IInv'
<1> DEFINE packed == [inv |-> inv, suite |-> suite, items |-> kits[format].items,
                      stale |-> Leftovers(kits[format])]
<1>0. /\ Running /\ step = "relocate" /\ todo = <<>> /\ step' = "next"
      /\ UNCHANGED <<inv, o, fmts, local, todo, upstream, suite, rest, clone, items, log>>
      /\ kits' = [kits EXCEPT ![format].zip = packed]
      /\ TypeOK /\ Dated /\ Prepared /\ PartsDone /\ CloneMatched
      /\ format \in Formats /\ inv \in Nat
  BY UnderWayFacts DEF ZipKit, Running, process, outside, IInv
<1>1. kits \in [Formats -> Kit] /\ kits[format] \in Kit
  BY <1>0 DEF TypeOK
<1>2. /\ packed \in [inv : Nat, suite : AllSuites, items : [Parts -> Item],
                      stale : SUBSET Item]
      /\ packed.inv = inv /\ packed.suite = suite /\ packed.items = kits[format].items
  <2>1. Leftovers(kits[format]) \in SUBSET Item
    BY <1>1, LeftoversType
  <2>2. kits[format].items \in [Parts -> Item] /\ inv \in Nat /\ suite \in AllSuites
    BY <1>0, <1>1 DEF TypeOK, Kit
  <2> QED
    BY <2>1, <2>2
<1> DEFINE kit == [kits[format] EXCEPT !.zip = packed]
<1>3. kits' = [kits EXCEPT ![format] = kit]
  BY <1>0, <1>1
<1> HIDE DEF packed
<1>4. kit \in Kit /\ kit.items = kits[format].items /\ kit.zip = packed
  BY <1>1, <1>2 DEF Kit
<1> HIDE DEF kit
<1>5. /\ kits' \in [Formats -> Kit] /\ kits'[format].zip = packed
      /\ \A f \in Formats : kits'[f].items = kits[f].items
  BY <1>0, <1>1, <1>3, <1>4
<1>6. TypeOK'
  BY <1>0, <1>5 DEF TypeOK, Steps
<1>7. Accepted'
  BY <1>0, AcceptedKept
<1>8. Dated'
  BY <1>0, <1>5 DEF Dated, Running
<1>9. passno' = passno /\ format' = format /\ (\A p : do(p)' <=> do(p))
  BY <1>0, SameProcess
<1>10. Prepared'
  BY <1>0, <1>9 DEF Prepared, Localized, Running
<1>11. PartsDone'
  <2>1. Range(todo) = {}
    BY <1>0 DEF Range
  <2>2. ASSUME NEW p \in o.parts PROVE OwnPart(p, kits[format].items[p])'
    BY <1>0, <1>5, <1>9, <2>1, <2>2 DEF PartsDone, OwnPart
  <2>3. zip'.inv = inv' /\ zip'.suite = suite' /\ zip'.items = kits'[format'].items
    BY <1>0, <1>2, <1>5, <1>9 DEF zip
  <2> QED
    BY <1>0, <2>2, <2>3 DEF PartsDone
<1>12. CloneMatched'
  BY <1>0, <1>9 DEF CloneMatched, TorBuilt, Running
<1>13. FreshLogExact'
  BY <1>0, FreshLogKept
<1> QED
  BY <1>6, <1>7, <1>8, <1>10, <1>11, <1>12, <1>13 DEF IInv

LEMMA NextFormatInv ==
  ASSUME IInv, NextFormat
  PROVE  IInv'
<1>0. /\ Running /\ step = "next" /\ fmts' = Tail(fmts)
      /\ step' = IF fmts' # <<>> THEN "str" ELSE IF o.kitp THEN "log" ELSE "idle"
      /\ UNCHANGED <<inv, o, local, todo, upstream, suite, rest, clone, items, kits, log>>
      /\ TypeOK /\ Accepted /\ Prepared /\ CloneMatched
  BY DEF NextFormat, Running, outside, workdir, IInv
<1>1. /\ fmts' \in Seq(Formats) /\ Len(fmts') <= Len(o.formats)
      /\ passno' > 1 /\ Len(fmts') \in Nat
  <2>1. /\ fmts \in Seq(Formats) /\ fmts # <<>> /\ Len(fmts) <= Len(o.formats)
        /\ Len(o.formats) \in Nat
    BY <1>0, RunningFacts DEF Accepted
  <2>2. fmts' \in Seq(Formats) /\ Len(fmts') = Len(fmts) - 1 /\ Len(fmts) \in Nat \ {0}
    BY <1>0, <2>1
  <2>3. passno' = Len(o.formats) - Len(fmts') + 1
    BY <1>0 DEF passno
  <2> QED
    BY <2>1, <2>2, <2>3
<1>2. TypeOK'
  BY <1>0, <1>1 DEF TypeOK, Steps
<1>3. Accepted'
  BY <1>0, <1>1 DEF Accepted, Running, CheckValid
<1>4. Dated'
  BY <1>0, DatedKept DEF IInv, Dated
<1>5. \A p : do(p)' <=> do(p)
  BY <1>0 DEF do
<1>6. Prepared'
  BY <1>0, <1>1, <1>5 DEF Prepared, Localized, Running
<1>7. PartsDone'
  BY <1>0 DEF PartsDone, Packed
<1>8. CloneMatched'
  BY <1>0, <1>1, <1>5 DEF CloneMatched, TorBuilt, Running
<1>9. FreshLogExact'
  BY <1>0, FreshLogKept
<1> QED
  BY <1>2, <1>3, <1>4, <1>6, <1>7, <1>8, <1>9 DEF IInv

\* What the model selects for a level is what the testsuite runs for it
LEMMA ImportedRequired ==
  ASSUME NEW tree \in 1..Len(Tree), NEW level \in {"doA", "doB", "doC"}
  PROVE  Imported(tree, level) = Required(tree, level)
<1> SUFFICES ASSUME NEW t \in Tree[tree], Testcase[t].tc
             PROVE  Testcase[t].chapter \in chapters_for[level] \cup {"Common"}
                       <=> Testcase[t].chapter \in QLEVEL_INFO[level]
  BY DEF Imported, Required
<1>1. t \in UNION Range(Tree)
  <2>1. Tree \in Seq(SUBSET UNION Range(Tree)) /\ tree \in DOMAIN Tree
    BY TreeAssumption DEF TreeAssumption
  <2> QED
    BY <2>1 DEF Range
<1>2. Testcase[t].chapter # "Appendix"
  BY <1>1, TestcaseAssumption DEF TestcaseAssumption
<1> QED
  BY <1>2 DEF chapters_for, QLEVEL_INFO

LEMMA DumpLogInv ==
  ASSUME IInv, DumpConsistencyLog
  PROVE  IInv'
<1> DEFINE new == [inv |-> inv, tree |-> clone.tree, level |-> o.dolevel,
                   suite |-> local.suite,
                   trees |-> TreeConsistency(clone.tree, local.suite),
                   version |-> VersionConsistency(o.xgnatcov, local.suite.gnatcov),
                   tr |-> IF clone.tor = 0 THEN "not available"
                          ELSE IF do("tor") THEN "FRESH" ELSE "OLD",
                   missing |-> clone.missing]
<1>0. /\ Running /\ step = "log" /\ step' = "idle"
      /\ UNCHANGED <<inv, o, fmts, local, todo, upstream, suite, rest, clone, items, kits>>
      /\ log' = IF local = None THEN log ELSE new
      /\ TypeOK /\ Accepted /\ Dated /\ Prepared /\ CloneMatched /\ clone # None
  BY DEF DumpConsistencyLog, Running, process, outside, IInv, Prepared
<1>1. /\ clone.tree \in 1..Len(Tree) /\ clone.missing \in SUBSET Testcases
      /\ inv \in Nat \ {0} /\ clone.inv \in Nat /\ clone.level = o.dolevel
      /\ o.dolevel \in DoLevels /\ o.dolevel \in {"doA", "doB", "doC"}
  BY <1>0, CloneFacts, UnderWayFacts DEF Prepared
<1>2. ASSUME local # None PROVE new \in Log /\ new.inv = inv /\ new.tree = clone.tree
  <2>1. local.suite \in AllSuites
    BY <1>0, <1>2 DEF TypeOK
  <2>2. /\ TreeConsistency(clone.tree, local.suite)
              \in {"matches", "local tree is ahead", "suite tree is ahead"}
        /\ VersionConsistency(o.xgnatcov, local.suite.gnatcov)
              \in {"not specified", "matches", "doesn't match"}
    BY DEF TreeConsistency, VersionConsistency
  <2>3. (IF clone.tor = 0 THEN "not available"
         ELSE IF do("tor") THEN "FRESH" ELSE "OLD")
        \in {"not available", "FRESH", "OLD"}
    OBVIOUS
  <2> QED
    BY <1>1, <2>1, <2>2, <2>3 DEF Log
<1>3. TypeOK'
  BY <1>0, <1>2 DEF TypeOK, Steps
<1>4. Accepted' /\ Prepared' /\ PartsDone' /\ CloneMatched'
  BY <1>0 DEF Accepted, Prepared, PartsDone, CloneMatched, Running, Packed
<1>5. Dated'
  <2>1. log' = log \/ log'.inv = inv
    BY <1>0, <1>2
  <2>2. log'.inv <= inv /\ (log' # None => log'.inv > 0)
    <3>1. log.inv <= inv /\ (log # None => log.inv > 0)
      BY <1>0 DEF Dated
    <3>2. inv <= inv /\ inv > 0
      BY <1>1
    <3> QED
      BY <2>1, <3>1, <3>2
  <2> QED
    BY <1>0, <2>2 DEF Dated, Running
<1>6. FreshLogExact'
  <2>1. CASE local = None
    BY <1>0, <2>1, FreshLogKept
  <2>2. CASE local # None
    <3>1. passno > 1
      <4>1. Len(o.formats) \in Nat \ {0} /\ Len(fmts) = 0
        BY <1>0, RunningFacts DEF Accepted
      <4> QED
        BY <4>1 DEF passno
    <3>2. ASSUME clone.inv = inv, do("tor")
          PROVE  /\ clone.missing = Required(clone.tree, o.dolevel) \ clone.dumps
                 /\ clone.dumps = ResultsOf(local.suite, clone.tree)
      <4>1. Imported(clone.tree, clone.level) = Required(clone.tree, o.dolevel)
        BY <1>1, ImportedRequired
      <4> QED
        BY <1>0, <2>2, <3>1, <3>2, <4>1 DEF CloneMatched, TorBuilt
    <3>3. /\ log' = new /\ new.inv = inv /\ new.tree = clone.tree /\ new.level = o.dolevel
          /\ new.suite = local.suite /\ new.missing = clone.missing
          /\ new.tr = "FRESH" => do("tor")
      BY <1>0, <2>2
    <3> HIDE DEF new
    <3>4. Required(clone.tree, o.dolevel) \subseteq Tree[clone.tree]
      BY DEF Required
    <3> QED
      BY <1>0, <3>2, <3>3, <3>4 DEF FreshLogExact, ResultsOf
  <2> QED
    BY <2>1, <2>2
<1> QED
  BY <1>3, <1>4, <1>5, <1>6 DEF IInv

-----------------------------------------------------------------------------
(* All of them *)

LEMMA KitInit ==
  ASSUME Init
  PROVE  IInv
<1>1. /\ inv = 0 /\ step = "idle" /\ ~Running /\ fmts = <<>> /\ todo = <<>> /\ local = None
      /\ upstream = 1 /\ suite \in AllSuites /\ rest = NoReport /\ clone = None
      /\ items = [f \in Formats |-> NoItems]
      /\ kits = [f \in Formats |-> [items |-> NoItems, zip |-> None]] /\ log = None
  BY DEF Init, Running, AllSuites
<1>2. NoItems \in [Parts -> Item] /\ \A p \in Parts : NoItems[p] = None
  BY NoneFacts DEF NoItems
<1>3. 1 \in 1..Len(Tree)
  BY TreeAssumption DEF TreeAssumption
<1>4. [items |-> NoItems, zip |-> None] \in Kit
  BY <1>2 DEF Kit
<1>5. TypeOK
  BY <1>1, <1>2, <1>3, <1>4, NoneFacts DEF TypeOK, Steps, Reports
<1>6. Dated
  BY <1>1, <1>2, NoneFacts DEF Dated
<1>7. Accepted /\ Prepared /\ PartsDone /\ CloneMatched /\ FreshLogExact
  BY <1>1 DEF Accepted, Prepared, PartsDone, CloneMatched, FreshLogExact, Packed
<1> QED
  BY <1>5, <1>6, <1>7 DEF IInv

LEMMA StutterInv ==
  ASSUME IInv, UNCHANGED vars
  PROVE  IInv'
<1>1. UNCHANGED <<inv, o, fmts, local, step, todo, upstream, suite, rest, clone, items,
                  kits, log>>
  BY DEF vars, process, outside, workdir
<1>2. /\ passno' = passno /\ format' = format /\ (\A p : do(p)' <=> do(p))
      /\ (CheckValid(o)' <=> CheckValid(o))
  BY <1>1, SameProcess
<1>3. TypeOK' /\ Dated' /\ FreshLogExact'
  BY <1>1 DEF IInv, TypeOK, Dated, FreshLogExact, Running
<1>4. Accepted' /\ Prepared' /\ CloneMatched'
  BY <1>1, <1>2 DEF IInv, Accepted, Prepared, CloneMatched, Localized, TorBuilt, Running
<1>5. PartsDone'
  BY <1>1, <1>2 DEF IInv, PartsDone, OwnPart, Packed, zip
<1> QED
  BY <1>3, <1>4, <1>5 DEF IInv

(***************************************************************************)
(* The work directory is always as the place of the invocation says, what  *)
(* was left by those that failed included: the inductive invariant.        *)
(***************************************************************************)
THEOREM Invariance == Spec => []IInv
<1>1. IInv /\ [Next]_vars => IInv'
  <2> SUFFICES ASSUME IInv, [Next]_vars PROVE IInv'
    OBVIOUS
  <2>1. CASE \E opts \in Options : Start(opts)
    BY <2>1, StartInv
  <2>2. CASE Fail
    BY <2>2, FailInv
  <2>3. CASE GitUpdate
    BY <2>3, GitUpdateInv
  <2>4. CASE GenQmModel
    BY <2>4, GenQmModelInv
  <2>5. CASE PrepareStrDir
    BY <2>5, PrepareStrDirInv
  <2>6. CASE LocalizeTestsuiteDir
    BY <2>6, LocalizeInv
  <2>7. CASE BuildStr
    BY <2>7, BuildStrInv
  <2>8. CASE BuildTor
    BY <2>8, BuildTorInv
  <2>9. CASE BuildPlans
    BY <2>9, BuildPlansInv
  <2>10. CASE BuildKit
    BY <2>10, BuildKitInv
  <2>11. CASE RelocateInto
    BY <2>11, RelocateInv
  <2>12. CASE ZipKit
    BY <2>12, ZipKitInv
  <2>13. CASE NextFormat
    BY <2>13, NextFormatInv
  <2>14. CASE DumpConsistencyLog
    BY <2>14, DumpLogInv
  <2>15. CASE UNCHANGED vars
    BY <2>15, StutterInv
  <2> QED
    BY <2>1, <2>2, <2>3, <2>4, <2>5, <2>6, <2>7, <2>8, <2>9, <2>10, <2>11, <2>12,
       <2>13, <2>14, <2>15 DEF Next
<1> QED
  BY <1>1, KitInit, PTL DEF Spec

(***************************************************************************)
(* Each kit that is packed has the parts its invocation was asked for, as  *)
(* that invocation built them, and an STR of its own testsuite directory   *)
(* and level; the other parts are those of earlier invocations.            *)
(***************************************************************************)
THEOREM KitOwnParts == Spec => []KitOfInvocation
<1>1. ASSUME IInv PROVE KitOfInvocation
  <2> SUFFICES ASSUME Packed PROVE KitOfInvocation
    BY DEF KitOfInvocation
  <2>1. /\ Running /\ step = "next" /\ o.kitp /\ PartsDone /\ Dated /\ Prepared
        /\ format \in Formats /\ o.dolevel # "none"
    BY <1>1, UnderWayFacts DEF Packed, Running
  <2>2. zip.inv = inv /\ zip.items = kits[format].items
    BY <2>1 DEF PartsDone
  <2>3. \A p \in o.parts : OwnPart(p, zip.items[p])
    BY <2>1, <2>2 DEF PartsDone
  <2>4. \A p \in Parts \ o.parts : zip.items[p].inv < inv
    BY <2>1, <2>2 DEF Dated
  <2>5. ASSUME do("str") PROVE suite.dolevel = o.dolevel
    <3>1. QDreport(suite, o.dolevel) # NoReport
      BY <2>1, <2>5 DEF Prepared, Localized
    <3>2. ~LevelRefused(suite, o.dolevel)
      BY <3>1 DEF QDreport
    <3> QED
      BY <2>1, <3>2 DEF LevelRefused
  <2> QED
    BY <2>2, <2>3, <2>4, <2>5 DEF KitOfInvocation, OwnPart, do
<1> QED
  BY <1>1, Invariance, PTL

(***************************************************************************)
(* A consistency log marked FRESH names every testcase of the artifacts    *)
(* that lacks results, and no other, until the clone is made again.        *)
(***************************************************************************)
THEOREM FreshLogSound == Spec => []FreshLogExact
<1>1. IInv => FreshLogExact
  BY DEF IInv
<1> QED
  BY <1>1, Invariance, PTL

-----------------------------------------------------------------------------
(* Folds *)

LEMMA Least ==
  ASSUME NEW T \in SUBSET Nat, T # {}
  PROVE  \E m \in T : \A n \in T : m <= n
<1> DEFINE R == OpToRel(<, Nat)
<1>1. IsWellFoundedOn(R, Nat)
  BY NatLessThanWellFounded
<1>2. \A x, y \in Nat : x < y => <<x, y>> \in R
  BY DEF OpToRel
<1> HIDE DEF R
<1>3. PICK m \in T : \A n \in T : ~(<<n, m>> \in R)
  BY <1>1, WFMin
<1>4. ASSUME NEW n \in T PROVE m <= n
  <2>1. n \in Nat /\ m \in Nat
    OBVIOUS
  <2>2. ~(n < m)
    BY <1>2, <1>3, <2>1
  <2> QED
    BY <2>1, <2>2
<1> QED
  BY <1>4

LEMMA UpFromZero ==
  ASSUME NEW T \in SUBSET Nat, 0 \in T, \A k \in T : k + 1 \in T
  PROVE  \A k \in Nat : k \in T
<1> SUFFICES ASSUME NEW z \in Nat, z \notin T PROVE FALSE
  OBVIOUS
<1>1. PICK U : U = {k \in Nat : k \notin T}
  OBVIOUS
<1>2. PICK m \in U : \A k \in U : m <= k
  BY <1>1, Least
<1>3. m \in Nat /\ m # 0 /\ m \notin T
  BY <1>1, <1>2
<1>4. PICK p : p = m - 1
  OBVIOUS
<1>5. p \in Nat /\ p + 1 = m /\ ~(m <= p)
  BY <1>3, <1>4
<1> QED
  BY <1>1, <1>2, <1>3, <1>5

Iterates(g, n, base, G) ==
  g = [s \in SUBSET (1..n) |-> IF s = {} THEN base ELSE G[<<g[s \ {Max(s)}], Max(s)>>]]

LEMMA MaxIs ==
  ASSUME NEW k \in Nat, NEW s \in SUBSET (1..k), k \in s
  PROVE  Max(s) = k
<1>1. PICK x : x = Max(s)
  OBVIOUS
<1>2. \A y \in s : k >= y
  OBVIOUS
<1>3. x \in s /\ (\A y \in s : x >= y)
  BY <1>1, <1>2 DEF Max
<1>4. x \in 1..k /\ x >= k
  BY <1>3
<1> QED
  BY <1>1, <1>4

\* A fold is an iteration over the positions of the sequence
LEMMA IterationExists ==
  ASSUME NEW n \in Nat, NEW V, NEW base \in V, NEW G \in [V \X (1..n) -> V]
  PROVE  \E g \in [SUBSET (1..n) -> V] : Iterates(g, n, base, G)
<1> DEFINE P(k) == k <= n => \E g \in [SUBSET (1..k) -> V] : Iterates(g, k, base, G)
<1>1. P(0)
  <2>1. PICK g : g = [s \in SUBSET (1..0) |-> base]
    OBVIOUS
  <2>2. \A s \in SUBSET (1..0) : s = {}
    OBVIOUS
  <2>3. g \in [SUBSET (1..0) -> V]
    BY <2>1
  <2>4. Iterates(g, 0, base, G)
    BY <2>1, <2>2 DEF Iterates
  <2> QED
    BY <2>3, <2>4
<1>2. ASSUME NEW k \in Nat, P(k) PROVE P(k + 1)
  <2> SUFFICES ASSUME k + 1 <= n
               PROVE  \E g \in [SUBSET (1..(k + 1)) -> V] : Iterates(g, k + 1, base, G)
    OBVIOUS
  <2>0. k <= n
    OBVIOUS
  <2>1. PICK g \in [SUBSET (1..k) -> V] : Iterates(g, k, base, G)
    BY <1>2, <2>0
  <2>2. PICK h : h = [s \in SUBSET (1..(k + 1)) |->
                       IF k + 1 \in s THEN G[<<g[s \ {k + 1}], k + 1>>] ELSE g[s]]
    OBVIOUS
  <2>3. ASSUME NEW s \in SUBSET (1..(k + 1)), k + 1 \in s
        PROVE  /\ h[s] \in V /\ Max(s) = k + 1
               /\ h[s] = G[<<h[s \ {Max(s)}], Max(s)>>]
    <3>1. Max(s) = k + 1
      BY <2>3, MaxIs
    <3>2. PICK r : r = s \ {k + 1}
      OBVIOUS
    <3>3. r \in SUBSET (1..k) /\ r \in SUBSET (1..(k + 1)) /\ k + 1 \notin r
      BY <3>2
    <3>4. h[r] = g[r] /\ g[r] \in V
      BY <2>1, <2>2, <3>3
    <3>5. h[s] = G[<<g[r], k + 1>>]
      BY <2>2, <2>3, <3>2
    <3>6. <<g[r], k + 1>> \in V \X (1..n)
      BY <3>4
    <3> QED
      BY <3>1, <3>2, <3>4, <3>5, <3>6
  <2>4. ASSUME NEW s \in SUBSET (1..(k + 1)), k + 1 \notin s
        PROVE  /\ h[s] \in V
               /\ h[s] = IF s = {} THEN base ELSE G[<<h[s \ {Max(s)}], Max(s)>>]
    <3>1. s \in SUBSET (1..k)
      BY <2>4
    <3>2. h[s] = g[s] /\ g[s] \in V
      BY <2>1, <2>2, <2>4, <3>1
    <3>3. g[s] = IF s = {} THEN base ELSE G[<<g[s \ {Max(s)}], Max(s)>>]
      BY <2>1, <3>1 DEF Iterates
    <3>4. PICK r : r = s \ {Max(s)}
      OBVIOUS
    <3>5. r \in SUBSET (1..k) /\ r \in SUBSET (1..(k + 1)) /\ k + 1 \notin r
      <4>1. r \in SUBSET (1..k)
        BY <3>1, <3>4
      <4>2. \A x \in 1..k : x \in 1..(k + 1) /\ x # k + 1
        OBVIOUS
      <4> QED
        BY <4>1, <4>2
    <3>6. h[r] = g[r]
      BY <2>2, <3>5
    <3> QED
      BY <3>2, <3>3, <3>4, <3>6
  <2>5. \A s \in SUBSET (1..(k + 1)) :
          /\ h[s] \in V
          /\ h[s] = IF s = {} THEN base ELSE G[<<h[s \ {Max(s)}], Max(s)>>]
    BY <2>3, <2>4
  <2>6. h \in [SUBSET (1..(k + 1)) -> V]
    BY <2>2, <2>5
  <2>7. Iterates(h, k + 1, base, G)
    BY <2>2, <2>5 DEF Iterates
  <2> QED
    BY <2>6, <2>7
<1>3. \A k \in Nat : P(k)
  <2>1. PICK T : T = {k \in Nat : P(k)}
    OBVIOUS
  <2> HIDE DEF P
  <2> QED
    BY <1>1, <1>2, <2>1, UpFromZero
<1>4. P(n) /\ n <= n
  <2> HIDE DEF P
  <2> QED
    BY <1>3
<1>5. PICK T : T = SUBSET (1..n)
  OBVIOUS
<1>6. \E g \in [T -> V] : Iterates(g, n, base, G)
  BY <1>4, <1>5
<1> QED
  BY <1>5, <1>6

\* A set is listed without repetition
LEMMA Listed ==
  ASSUME NEW T, IsFiniteSet(T), NEW seq, seq = SetToSeq(T)
  PROVE  \E n \in Nat : /\ n = Cardinality(T) /\ seq \in [1..n -> T]
                        /\ \A i, j \in 1..n : seq[i] = seq[j] => i = j
                        /\ \A t \in T : \E i \in 1..n : seq[i] = t
<1>1. PICK n : n = Cardinality(T)
  OBVIOUS
<1>2. n \in Nat /\ ExistsBijection(1..n, T)
  BY <1>1, FS_CardinalityType
<1>3. PICK f : f \in Bijection(1..n, T)
  BY <1>2 DEF ExistsBijection
<1>4. f \in [1..n -> T] /\ \A i, j \in 1..n : f[i] = f[j] => i = j
  BY <1>3, Fun_BijectionProperties
<1>5. f \in [1..n -> T] /\ IsInjective(f)
  BY <1>4 DEF IsInjective
<1>6. seq \in [1..n -> T] /\ IsInjective(seq)
  BY <1>1, <1>5 DEF SetToSeq
<1>7. \A i, j \in 1..n : seq[i] = seq[j] => i = j
  BY <1>6 DEF IsInjective
<1>8. seq \in Injection(1..n, T)
  BY <1>6, <1>7, Fun_IsInj
<1>9. Cardinality(1..n) = n
  BY <1>2, FS_Interval
<1>10. seq \in Surjection(1..n, T)
  BY <1>1, <1>8, <1>9, FS_Injection
<1>11. \A t \in T : \E i \in 1..n : seq[i] = t
  BY <1>10 DEF Surjection
<1> QED
  BY <1>1, <1>2, <1>6, <1>7, <1>11

-----------------------------------------------------------------------------
(* What the counters count *)

Columns(su) == viocnt_columns_for[su.dolevel]
Counters(su) == [Columns(su) -> [expected : Nat, satisfied : Nat]]
SumType(su) ==
  [passed : Nat, xfail : Nat, failed : Nat, counters : Counters(su)]

Column(su, d, i) == column_for_kind[su.dirs[d].notes[i].kind]
Status(su, d) == column_for_status[su.dirs[d].status]

\* A suite that can be reported on
Reportable(su) ==
  /\ su \in AllSuites /\ su.dolevel \in DOMAIN viocnt_columns_for
  /\ ~CountersFail(su)

LEMMA CategoryFacts ==
  /\ DOMAIN Categories = 1..6
  /\ Categories[1].matcher = {"stmt"} /\ Categories[2].matcher = {"decision"}
  /\ Categories[3].matcher = {"mcdc"} /\ Categories[4].matcher = {"report"}
  /\ Categories[5].matcher = {"selftest"}
  /\ Categories[6].matcher = {"stmt", "decision", "mcdc", "report", "selftest", "other"}
  /\ \A i \in 1..6 : Categories[i].internal <=> i = 5
<1>1. DOMAIN Categories = 1..6
  BY DEF Categories
<1>2. /\ Categories[1].matcher = {"stmt"} /\ Categories[2].matcher = {"decision"}
      /\ Categories[3].matcher = {"mcdc"} /\ Categories[4].matcher = {"report"}
  BY DEF Categories
<1>3. /\ Categories[5].matcher = {"selftest"}
      /\ Categories[6].matcher = {"stmt", "decision", "mcdc", "report", "selftest", "other"}
  BY DEF Categories
<1>4. /\ Categories[1].internal = FALSE /\ Categories[2].internal = FALSE
      /\ Categories[3].internal = FALSE /\ Categories[4].internal = FALSE
      /\ Categories[5].internal = TRUE /\ Categories[6].internal = FALSE
  BY DEF Categories
<1> QED
  BY <1>1, <1>2, <1>3, <1>4

LEMMA ReportableFacts ==
  ASSUME NEW su, Reportable(su)
  PROVE  /\ IsFiniteSet(qdl(su))
         /\ \A d \in qdl(su) :
              /\ Status(su, d) \in StaColumns
              /\ su.dirs[d].status = "FAILED" <=> Status(su, d) = "failed"
              /\ DOMAIN su.dirs[d].notes = 1..Len(su.dirs[d].notes)
              /\ Len(su.dirs[d].notes) \in Nat
              /\ \A i \in DOMAIN su.dirs[d].notes : Column(su, d, i) \in Columns(su)
              /\ su.dirs[d].subtree \in {"stmt", "decision", "mcdc", "report", "selftest", "other"}
<1>1. /\ IsFiniteSet(DOMAIN su.dirs)
      /\ \A d \in DOMAIN su.dirs :
           /\ su.dirs[d].subtree \in UNION {c.matcher : c \in Range(Categories)}
           /\ su.dirs[d].notes \in Seq([kind : DOMAIN column_for_kind, satisfied : BOOLEAN])
  BY SuitesAssumption DEF SuitesAssumption, Reportable, AllSuites
<1>2. qdl(su) \in SUBSET DOMAIN su.dirs
  BY DEF qdl
<1>3. IsFiniteSet(qdl(su))
  BY <1>1, <1>2, FS_Subset
<1>4. ASSUME NEW c \in Range(Categories)
      PROVE  c.matcher \subseteq {"stmt", "decision", "mcdc", "report", "selftest", "other"}
  <2>1. PICK i \in DOMAIN Categories : c = Categories[i]
    BY DEF Range
  <2> QED
    BY <2>1, CategoryFacts
<1>5. ASSUME NEW d \in qdl(su)
      PROVE  /\ DOMAIN su.dirs[d].notes = 1..Len(su.dirs[d].notes)
             /\ Len(su.dirs[d].notes) \in Nat
             /\ su.dirs[d].subtree \in {"stmt", "decision", "mcdc", "report", "selftest", "other"}
  <2>1. PICK q : q = su.dirs[d].notes
    OBVIOUS
  <2>2. PICK S : S = [kind : DOMAIN column_for_kind, satisfied : BOOLEAN]
    OBVIOUS
  <2>3. q \in Seq(S)
    BY <1>1, <1>2, <2>1, <2>2
  <2>4. DOMAIN q = 1..Len(q) /\ Len(q) \in Nat
    BY <2>3
  <2> QED
    BY <1>1, <1>2, <1>4, <2>1, <2>4
<1>6. ASSUME NEW d \in qdl(su)
      PROVE  /\ su.dirs[d].status \in {"OK", "XFAIL", "UOK", "FAILED"}
             /\ \A i \in DOMAIN su.dirs[d].notes : Column(su, d, i) \in Columns(su)
  <2>1. su.dirs[d].status \in DOMAIN column_for_status
    BY DEF Reportable, CountersFail
  <2>2. \A e \in ToSet(su.dirs[d].notes) : column_for_kind[e.kind] \in Columns(su)
    BY DEF Reportable, CountersFail, Columns
  <2>3. DOMAIN column_for_status = {"OK", "XFAIL", "UOK", "FAILED"}
    BY DEF column_for_status
  <2> QED
    BY <2>1, <2>2, <2>3 DEF ToSet, Column
<1>7. ASSUME NEW d \in qdl(su)
      PROVE  /\ Status(su, d) \in StaColumns
             /\ su.dirs[d].status = "FAILED" <=> Status(su, d) = "failed"
  <2>1. PICK x : x = su.dirs[d].status
    OBVIOUS
  <2>2. /\ column_for_status["OK"] = "passed" /\ column_for_status["XFAIL"] = "xfail"
        /\ column_for_status["UOK"] = "passed" /\ column_for_status["FAILED"] = "failed"
    BY DEF column_for_status
  <2> QED
    BY <1>6, <2>1, <2>2 DEF Status, StaColumns
<1> QED
  BY <1>3, <1>5, <1>6, <1>7

\* The notes of a test in some columns
NotesOf(su, d, C) == {i \in DOMAIN su.dirs[d].notes : Column(su, d, i) \in C}

LEMMA NotesFinite ==
  ASSUME NEW su, Reportable(su), NEW d \in qdl(su), NEW C
  PROVE  IsFiniteSet(NotesOf(su, d, C)) /\ Cardinality(NotesOf(su, d, C)) \in Nat
<1>1. IsFiniteSet(1..Len(su.dirs[d].notes))
  <2>1. PICK l \in Nat : l = Len(su.dirs[d].notes)
    BY ReportableFacts
  <2>2. IsFiniteSet(1..l)
    BY <2>1, FS_Interval
  <2> QED
    BY <2>1, <2>2
<1>2. NotesOf(su, d, C) \in SUBSET (1..Len(su.dirs[d].notes))
  BY ReportableFacts DEF NotesOf
<1> QED
  BY <1>1, <1>2, FS_Subset, FS_CardinalityType

LEMMA CountersOf ==
  ASSUME NEW su, Reportable(su), NEW d \in qdl(su)
  PROVE  /\ tcdata_for(su, d) \in Counters(su)
         /\ \A c \in Columns(su) :
              tcdata_for(su, d)[c].expected = Cardinality(NotesOf(su, d, {c}))
<1>1. PICK t : t = tcdata_for(su, d)
  OBVIOUS
<1>2. ASSUME NEW c \in Columns(su)
      PROVE  /\ t[c] \in [expected : Nat, satisfied : Nat]
             /\ t[c].expected = Cardinality(NotesOf(su, d, {c}))
  <2>1. PICK E : E = NotesOf(su, d, {c})
    OBVIOUS
  <2>2. IsFiniteSet(E) /\ Cardinality(E) \in Nat
    BY <2>1, NotesFinite
  <2>3. E = {i \in DOMAIN su.dirs[d].notes : column_for_kind[su.dirs[d].notes[i].kind] = c}
    BY <2>1 DEF NotesOf, Column
  <2>4. PICK A : A = {i \in E : su.dirs[d].notes[i].satisfied}
    OBVIOUS
  <2>5. IsFiniteSet(A) /\ Cardinality(A) \in Nat
    BY <2>2, <2>4, FS_Subset, FS_CardinalityType
  <2>6. t[c] = [expected |-> Cardinality(E), satisfied |-> Cardinality(A)]
    BY <1>1, <2>3, <2>4 DEF tcdata_for, Columns
  <2> QED
    BY <2>1, <2>2, <2>5, <2>6
<1>3. t = [c \in Columns(su) |-> t[c]]
  BY <1>1 DEF tcdata_for, Columns
<1> QED
  BY <1>1, <1>2, <1>3 DEF Counters

\* What a test adds to a sum
One(su, d, sta) == IF Status(su, d) = sta THEN 1 ELSE 0

LEMMA Summed ==
  ASSUME NEW su, Reportable(su), NEW d \in qdl(su), NEW sum \in SumType(su),
         NEW after, after = do_sum(su, sum, d)
  PROVE  /\ after \in SumType(su)
         /\ after.passed = sum.passed + One(su, d, "passed")
         /\ after.xfail = sum.xfail + One(su, d, "xfail")
         /\ after.failed = sum.failed + One(su, d, "failed")
         /\ \A c \in Columns(su) :
              after.counters[c].expected =
                 sum.counters[c].expected + Cardinality(NotesOf(su, d, {c}))
<1>1. PICK t : t = tcdata_for(su, d)
  OBVIOUS
<1>2. PICK sta : sta = Status(su, d)
  OBVIOUS
<1>3. PICK mid : mid = [sum EXCEPT ![sta] = @ + 1]
  OBVIOUS
<1>4. sta \in {"passed", "xfail", "failed"}
  BY <1>2, ReportableFacts DEF StaColumns
<1>5. /\ mid \in SumType(su) /\ mid.counters = sum.counters
      /\ mid.passed = sum.passed + One(su, d, "passed")
      /\ mid.xfail = sum.xfail + One(su, d, "xfail")
      /\ mid.failed = sum.failed + One(su, d, "failed")
  <2>1. CASE sta = "passed"
    BY <1>2, <1>3, <2>1 DEF SumType, One
  <2>2. CASE sta = "xfail"
    BY <1>2, <1>3, <2>2 DEF SumType, One
  <2>3. CASE sta = "failed"
    BY <1>2, <1>3, <2>3 DEF SumType, One
  <2> QED
    BY <1>4, <2>1, <2>2, <2>3
<1>6. PICK cs : cs = augment_by(mid.counters, t)
  OBVIOUS
<1>7. after = [mid EXCEPT !.counters = cs]
  BY <1>1, <1>2, <1>3, <1>6 DEF do_sum, Status
<1>8. mid.counters \in Counters(su) /\ t \in Counters(su)
  BY <1>1, <1>5, CountersOf DEF SumType
<1>9. ASSUME NEW c \in Columns(su)
      PROVE  /\ cs[c] \in [expected : Nat, satisfied : Nat]
             /\ cs[c].expected = mid.counters[c].expected + t[c].expected
  <2>1. PICK x \in [expected : Nat, satisfied : Nat] : x = mid.counters[c]
    BY <1>8 DEF Counters
  <2>2. PICK y \in [expected : Nat, satisfied : Nat] : y = t[c]
    BY <1>8 DEF Counters
  <2>3. c \in DOMAIN mid.counters
    BY <1>8 DEF Counters
  <2>4. cs[c] = [expected |-> x.expected + y.expected, satisfied |-> x.satisfied + y.satisfied]
    BY <1>6, <2>1, <2>2, <2>3 DEF augment_by
  <2> QED
    BY <2>1, <2>2, <2>4
<1>10. cs \in Counters(su)
  <2>1. cs = [c \in Columns(su) |-> cs[c]]
    BY <1>6, <1>8 DEF augment_by, Counters
  <2> QED
    BY <1>9, <2>1 DEF Counters
<1>11. /\ after \in SumType(su) /\ after.passed = mid.passed /\ after.xfail = mid.xfail
       /\ after.failed = mid.failed /\ after.counters = cs
  BY <1>5, <1>7, <1>10 DEF SumType
<1>12. \A c \in Columns(su) : t[c].expected = Cardinality(NotesOf(su, d, {c}))
  BY <1>1, CountersOf
<1> QED
  BY <1>5, <1>9, <1>11, <1>12

LEMMA MaxIn ==
  ASSUME NEW n \in Nat, NEW s \in SUBSET (1..n), s # {}
  PROVE  Max(s) \in s /\ Max(s) \in 1..n
<1>1. PICK U : U = {n - x : x \in s}
  OBVIOUS
<1>2. U \in SUBSET Nat /\ U # {}
  <2>1. \A x \in s : n - x \in Nat
    OBVIOUS
  <2>2. PICK z \in s : TRUE
    OBVIOUS
  <2>3. n - z \in U
    BY <1>1
  <2> QED
    BY <1>1, <2>1, <2>3
<1>3. PICK m \in U : \A k \in U : m <= k
  BY <1>2, Least
<1>4. PICK x \in s : m = n - x
  BY <1>1, <1>3
<1>5. ASSUME NEW y \in s PROVE x >= y
  <2>1. n - y \in U
    BY <1>1
  <2>2. n - x <= n - y
    BY <1>3, <1>4, <2>1
  <2> QED
    BY <2>2
<1>6. Max(s) \in s
  BY <1>4, <1>5 DEF Max
<1> QED
  BY <1>6

\* The numbers up to k
LEMMA Initial ==
  /\ 1..0 = {}
  /\ \A n \in Nat : \A k \in 1..n :
       /\ 1..k # {} /\ (1..k) \in SUBSET (1..n)
       /\ Max(1..k) = k /\ (1..k) \ {k} = 1..(k - 1)
<1>1. 1..0 = {}
  OBVIOUS
<1>2. ASSUME NEW n \in Nat, NEW k \in 1..n
      PROVE  /\ 1..k # {} /\ (1..k) \in SUBSET (1..n)
             /\ Max(1..k) = k /\ (1..k) \ {k} = 1..(k - 1)
  <2>1. PICK s : s = 1..k
    OBVIOUS
  <2>2. s \in SUBSET (1..k) /\ k \in s /\ k \in Nat /\ s \in SUBSET (1..n)
    BY <2>1
  <2>3. Max(s) = k
    BY <2>2, MaxIs
  <2>4. (1..k) \ {k} = 1..(k - 1)
    OBVIOUS
  <2> QED
    BY <2>1, <2>2, <2>3, <2>4
<1> QED
  BY <1>1, <1>2

\* The sum of tests, one after the other
SumsAlong(su, sum, seq, n, h) ==
  /\ h[0] = sum
  /\ \A k \in 1..n : h[k] = do_sum(su, h[k - 1], seq[k])

Stepwise(su, sum, T) ==
  \E n \in Nat : \E seq \in [1..n -> T] : \E h \in [0..n -> SumType(su)] :
    /\ \A i, j \in 1..n : seq[i] = seq[j] => i = j
    /\ \A t \in T : \E i \in 1..n : seq[i] = t
    /\ SumsAlong(su, sum, seq, n, h)
    /\ SumOver(su, sum, T) = h[n]

LEMMA SumSteps ==
  ASSUME NEW su, Reportable(su), NEW sum \in SumType(su), NEW T \in SUBSET qdl(su)
  PROVE  Stepwise(su, sum, T)
<1>1. IsFiniteSet(T)
  BY ReportableFacts, FS_Subset
<1>2. PICK seq : seq = SetToSeq(T)
  OBVIOUS
<1>3. PICK n \in Nat : /\ seq \in [1..n -> T]
                       /\ \A i, j \in 1..n : seq[i] = seq[j] => i = j
                       /\ \A t \in T : \E i \in 1..n : seq[i] = t
  BY <1>1, <1>2, Listed
<1>4. DOMAIN seq = 1..n
  BY <1>3
<1>5. PICK V : V = SumType(su)
  OBVIOUS
<1>6. PICK G : G = [p \in V \X (1..n) |-> do_sum(su, p[1], seq[p[2]])]
  OBVIOUS
<1>7. ASSUME NEW v \in V, NEW k \in 1..n PROVE do_sum(su, v, seq[k]) \in V
  BY <1>3, <1>5, Summed
<1>8. G \in [V \X (1..n) -> V]
  BY <1>6, <1>7
<1>9. PICK f \in [SUBSET (1..n) -> V] : Iterates(f, n, sum, G)
  BY <1>5, <1>8, IterationExists
<1>10. ASSUME NEW s \in SUBSET (1..n)
       PROVE  f[s] = IF s = {} THEN sum ELSE do_sum(su, f[s \ {Max(s)}], seq[Max(s)])
  <2>1. f[s] = IF s = {} THEN sum ELSE G[<<f[s \ {Max(s)}], Max(s)>>]
    BY <1>9 DEF Iterates
  <2>2. CASE s # {}
    <3>1. Max(s) \in 1..n
      BY <2>2, MaxIn
    <3>2. PICK k \in 1..n : k = Max(s)
      BY <3>1
    <3>3. PICK v \in V : v = f[s \ {k}]
      BY <1>9
    <3>4. G[<<v, k>>] = do_sum(su, v, seq[k])
      BY <1>6
    <3> QED
      BY <2>1, <2>2, <3>2, <3>3, <3>4
  <2> QED
    BY <2>1, <2>2
<1>11. f = [s \in SUBSET (1..n) |->
              IF s = {} THEN sum ELSE do_sum(su, f[s \ {Max(s)}], seq[Max(s)])]
  BY <1>9, <1>10
<1>12. PICK g : g = CHOOSE e : e = [s \in SUBSET (1..n) |->
                  IF s = {} THEN sum ELSE do_sum(su, e[s \ {Max(s)}], seq[Max(s)])]
  OBVIOUS
<1>13. g = [s \in SUBSET (1..n) |->
              IF s = {} THEN sum ELSE do_sum(su, g[s \ {Max(s)}], seq[Max(s)])]
  BY <1>11, <1>12
<1>14. SumOver(su, sum, T) = g[1..n]
  <2>1. SumOver(su, sum, T) = (CHOOSE e : e = [s \in SUBSET DOMAIN seq |->
           IF s = {} THEN sum ELSE do_sum(su, e[s \ {Max(s)}], seq[Max(s)])])[DOMAIN seq]
    BY <1>2, Zenon DEF SumOver, FoldLeft, MapThenFoldSet
  <2> QED
    BY <1>4, <1>12, <2>1
<1>15. PICK h : h = [k \in 0..n |-> g[1..k]]
  OBVIOUS
<1>16. h[0] = sum
  <2>1. {} \in SUBSET (1..n) /\ 0 \in 0..n
    OBVIOUS
  <2>2. h[0] = g[{}]
    BY <1>15, <2>1, Initial
  <2> QED
    BY <1>13, <2>1, <2>2
<1>17. ASSUME NEW k \in 1..n PROVE h[k] = do_sum(su, h[k - 1], seq[k])
  <2>1. PICK s : s = 1..k
    OBVIOUS
  <2>2. s # {} /\ s \in SUBSET (1..n) /\ Max(s) = k /\ s \ {k} = 1..(k - 1)
    BY <2>1, Initial
  <2>3. g[s] = do_sum(su, g[s \ {k}], seq[k])
    BY <1>13, <2>2
  <2>4. k \in 0..n /\ k - 1 \in 0..n
    OBVIOUS
  <2>5. h[k] = g[s] /\ h[k - 1] = g[1..(k - 1)]
    BY <1>15, <2>1, <2>4
  <2> QED
    BY <2>2, <2>3, <2>5
<1>18. \A k \in Nat : k \in {i \in Nat : i <= n => h[i] \in V}
  <2>1. PICK U : U = {i \in Nat : i <= n => h[i] \in V}
    OBVIOUS
  <2>2. 0 \in U
    BY <1>5, <1>16, <2>1
  <2>3. ASSUME NEW k \in U PROVE k + 1 \in U
    <3>1. CASE k + 1 <= n
      <4>1. k \in Nat /\ k + 1 \in 1..n /\ k <= n /\ (k + 1) - 1 = k
        BY <2>1, <3>1
      <4>2. h[k + 1] = do_sum(su, h[k], seq[k + 1])
        BY <1>17, <4>1
      <4>3. h[k] \in V
        BY <2>1, <4>1
      <4>4. do_sum(su, h[k], seq[k + 1]) \in V
        BY <1>7, <4>1, <4>3
      <4> QED
        BY <2>1, <4>1, <4>2, <4>4
    <3>2. CASE ~(k + 1 <= n)
      BY <2>1, <3>2
    <3> QED
      BY <3>1, <3>2
  <2> QED
    BY <2>1, <2>2, <2>3, UpFromZero
<1>19. h \in [0..n -> V]
  BY <1>15, <1>18
<1>20. h[n] = g[1..n]
  BY <1>15
<1>21. SumsAlong(su, sum, seq, n, h)
  BY <1>16, <1>17 DEF SumsAlong
<1> QED
  BY <1>3, <1>5, <1>14, <1>19, <1>20, <1>21 DEF Stepwise

\* The notes of some tests in some columns, and the tests of a status
Noted(su, S, C) == {p \in S \X Nat : p[2] \in NotesOf(su, p[1], C)}
With(su, S, sta) == {d \in S : Status(su, d) = sta}

LEMMA DisjointSum ==
  ASSUME NEW A, NEW B, IsFiniteSet(A), IsFiniteSet(B), A \cap B = {}
  PROVE  /\ IsFiniteSet(A \cup B)
         /\ Cardinality(A \cup B) = Cardinality(A) + Cardinality(B)
         /\ Cardinality(A) \in Nat /\ Cardinality(B) \in Nat
<1>1. Cardinality(A \cap B) = 0
  BY FS_EmptySet
<1>2. Cardinality(A) \in Nat /\ Cardinality(B) \in Nat
  BY FS_CardinalityType
<1>3. /\ IsFiniteSet(A \cup B)
      /\ Cardinality(A \cup B) = Cardinality(A) + Cardinality(B) - Cardinality(A \cap B)
  BY FS_Union
<1> QED
  BY <1>1, <1>2, <1>3

LEMMA NotedMore ==
  ASSUME NEW su, Reportable(su), NEW S \in SUBSET qdl(su), NEW C,
         NEW d \in qdl(su), d \notin S, IsFiniteSet(Noted(su, S, C))
  PROVE  /\ IsFiniteSet(Noted(su, S \cup {d}, C))
         /\ Cardinality(Noted(su, S \cup {d}, C)) =
              Cardinality(Noted(su, S, C)) + Cardinality(NotesOf(su, d, C))
<1>1. PICK A : A = Noted(su, S, C)
  OBVIOUS
<1>2. PICK I : I = NotesOf(su, d, C)
  OBVIOUS
<1>3. PICK B : B = {p \in {d} \X Nat : p[2] \in I}
  OBVIOUS
<1>4. I \in SUBSET Nat
  BY <1>2, ReportableFacts DEF NotesOf
<1>5. IsFiniteSet(I)
  BY <1>2, NotesFinite
<1>6. PICK f : f = [i \in I |-> <<d, i>>]
  OBVIOUS
<1>7. f \in [I -> B]
  BY <1>3, <1>4, <1>6
<1>8. \A i, j \in I : f[i] = f[j] => i = j
  BY <1>6
<1>9. ASSUME NEW p \in B PROVE \E i \in I : f[i] = p
  <2>1. p[2] \in I /\ p = <<d, p[2]>>
    BY <1>3
  <2> QED
    BY <1>6, <2>1
<1>10. f \in Bijection(I, B)
  BY <1>7, <1>8, <1>9, Fun_IsBij
<1>11. IsFiniteSet(B) /\ Cardinality(B) = Cardinality(I)
  BY <1>5, <1>10, FS_Bijection DEF ExistsBijection
<1>12. A \cap B = {}
  BY <1>1, <1>3 DEF Noted
<1>13. Noted(su, S \cup {d}, C) = A \cup B
  BY <1>1, <1>2, <1>3 DEF Noted
<1>14. IsFiniteSet(A \cup B) /\ Cardinality(A \cup B) = Cardinality(A) + Cardinality(B)
  BY <1>1, <1>11, <1>12, DisjointSum
<1> QED
  BY <1>1, <1>2, <1>11, <1>13, <1>14

LEMMA NotedFinite ==
  ASSUME NEW su, Reportable(su), NEW S \in SUBSET qdl(su), NEW C
  PROVE  IsFiniteSet(Noted(su, S, C)) /\ Cardinality(Noted(su, S, C)) \in Nat
<1>1. IsFiniteSet(S)
  BY ReportableFacts, FS_Subset
<1>2. PICK seq : seq = SetToSeq(S)
  OBVIOUS
<1>3. PICK n \in Nat : /\ seq \in [1..n -> S]
                       /\ \A i, j \in 1..n : seq[i] = seq[j] => i = j
                       /\ \A t \in S : \E i \in 1..n : seq[i] = t
  BY <1>1, <1>2, Listed
<1>4. PICK U : U = {k \in Nat : k <= n => IsFiniteSet(Noted(su, {seq[i] : i \in 1..k}, C))}
  OBVIOUS
<1>5. 0 \in U
  <2>1. Noted(su, {seq[i] : i \in 1..0}, C) = {}
    BY DEF Noted
  <2>2. IsFiniteSet({})
    BY FS_EmptySet
  <2> QED
    BY <1>4, <2>1, <2>2
<1>6. ASSUME NEW k \in U PROVE k + 1 \in U
  <2>1. CASE k + 1 <= n
    <3>1. k \in Nat /\ k <= n /\ k + 1 \in 1..n /\ (\A i \in 1..k : i \in 1..n /\ i # k + 1)
      BY <1>4, <2>1
    <3>2. PICK A : A = {seq[i] : i \in 1..k}
      OBVIOUS
    <3>3. IsFiniteSet(Noted(su, A, C))
      BY <1>4, <3>1, <3>2
    <3>4. PICK d : d = seq[k + 1]
      OBVIOUS
    <3>5. A \in SUBSET qdl(su) /\ d \in qdl(su) /\ d \notin A
      BY <1>3, <3>1, <3>2, <3>4
    <3>6. IsFiniteSet(Noted(su, A \cup {d}, C))
      BY <3>3, <3>5, NotedMore
    <3>7. {seq[i] : i \in 1..(k + 1)} = A \cup {d}
      BY <3>1, <3>2, <3>4
    <3> QED
      BY <1>4, <3>1, <3>6, <3>7
  <2>2. CASE ~(k + 1 <= n)
    BY <1>4, <2>2
  <2> QED
    BY <2>1, <2>2
<1>7. n \in U
  BY <1>4, <1>5, <1>6, UpFromZero
<1>8. {seq[i] : i \in 1..n} = S
  BY <1>3
<1>9. IsFiniteSet(Noted(su, S, C))
  BY <1>4, <1>7, <1>8
<1> QED
  BY <1>9, FS_CardinalityType

LEMMA WithMore ==
  ASSUME NEW su, Reportable(su), NEW S \in SUBSET qdl(su),
         NEW d \in qdl(su), d \notin S, NEW sta
  PROVE  /\ IsFiniteSet(With(su, S, sta)) /\ Cardinality(With(su, S, sta)) \in Nat
         /\ Cardinality(With(su, S \cup {d}, sta)) =
              Cardinality(With(su, S, sta)) + One(su, d, sta)
<1>1. PICK A : A = With(su, S, sta)
  OBVIOUS
<1>2. A \in SUBSET qdl(su) /\ d \notin A
  BY <1>1 DEF With
<1>3. IsFiniteSet(A) /\ Cardinality(A) \in Nat
  BY <1>2, ReportableFacts, FS_Subset, FS_CardinalityType
<1>4. CASE Status(su, d) = sta
  <2>1. With(su, S \cup {d}, sta) = A \cup {d} /\ One(su, d, sta) = 1
    BY <1>1, <1>4 DEF With, One
  <2>2. Cardinality(A \cup {d}) = Cardinality(A) + 1
    BY <1>2, <1>3, FS_AddElement
  <2> QED
    BY <1>1, <1>3, <2>1, <2>2
<1>5. CASE Status(su, d) # sta
  <2>1. With(su, S \cup {d}, sta) = A /\ One(su, d, sta) = 0
    BY <1>1, <1>5 DEF With, One
  <2> QED
    BY <1>1, <1>3, <2>1
<1> QED
  BY <1>4, <1>5

\* A sum counts the tests of S, and their notes
Counted(su, sum, S) ==
  /\ S \in SUBSET qdl(su) /\ sum \in SumType(su)
  /\ sum.passed = Cardinality(With(su, S, "passed"))
  /\ sum.xfail = Cardinality(With(su, S, "xfail"))
  /\ sum.failed = Cardinality(With(su, S, "failed"))
  /\ \A c \in Columns(su) : sum.counters[c].expected = Cardinality(Noted(su, S, {c}))

LEMMA CountedMore ==
  ASSUME NEW su, Reportable(su), NEW sum, NEW S, Counted(su, sum, S),
         NEW d \in qdl(su), d \notin S
  PROVE  Counted(su, do_sum(su, sum, d), S \cup {d})
<1>1. PICK after : after = do_sum(su, sum, d)
  OBVIOUS
<1>2. S \in SUBSET qdl(su) /\ sum \in SumType(su)
  BY DEF Counted
<1>3. /\ after \in SumType(su)
      /\ after.passed = sum.passed + One(su, d, "passed")
      /\ after.xfail = sum.xfail + One(su, d, "xfail")
      /\ after.failed = sum.failed + One(su, d, "failed")
      /\ \A c \in Columns(su) :
           after.counters[c].expected =
              sum.counters[c].expected + Cardinality(NotesOf(su, d, {c}))
  BY <1>1, <1>2, Summed
<1>4. /\ after.passed = Cardinality(With(su, S \cup {d}, "passed"))
      /\ after.xfail = Cardinality(With(su, S \cup {d}, "xfail"))
      /\ after.failed = Cardinality(With(su, S \cup {d}, "failed"))
  BY <1>2, <1>3, WithMore DEF Counted
<1>5. ASSUME NEW c \in Columns(su)
      PROVE  after.counters[c].expected = Cardinality(Noted(su, S \cup {d}, {c}))
  <2>1. IsFiniteSet(Noted(su, S, {c}))
    BY <1>2, NotedFinite
  <2>2. Cardinality(Noted(su, S \cup {d}, {c})) =
          Cardinality(Noted(su, S, {c})) + Cardinality(NotesOf(su, d, {c}))
    BY <1>2, <2>1, NotedMore
  <2> QED
    BY <1>3, <2>2 DEF Counted
<1> QED
  BY <1>1, <1>2, <1>3, <1>4, <1>5 DEF Counted

\* Summing over other tests counts these as well
LEMMA SumOverCounted ==
  ASSUME NEW su, Reportable(su), NEW sum, NEW S, Counted(su, sum, S),
         NEW T \in SUBSET qdl(su), S \cap T = {}
  PROVE  Counted(su, SumOver(su, sum, T), S \cup T)
<1>1. S \in SUBSET qdl(su) /\ sum \in SumType(su)
  BY DEF Counted
<1>2. PICK n \in Nat : \E seq \in [1..n -> T] : \E h \in [0..n -> SumType(su)] :
           /\ \A i, j \in 1..n : seq[i] = seq[j] => i = j
           /\ \A t \in T : \E i \in 1..n : seq[i] = t
           /\ SumsAlong(su, sum, seq, n, h)
           /\ SumOver(su, sum, T) = h[n]
  <2>1. Stepwise(su, sum, T)
    BY <1>1, SumSteps
  <2> QED
    BY <2>1 DEF Stepwise
<1>3. PICK seq \in [1..n -> T] : \E h \in [0..n -> SumType(su)] :
           /\ \A i, j \in 1..n : seq[i] = seq[j] => i = j
           /\ \A t \in T : \E i \in 1..n : seq[i] = t
           /\ SumsAlong(su, sum, seq, n, h)
           /\ SumOver(su, sum, T) = h[n]
  BY <1>2
<1>4. PICK h \in [0..n -> SumType(su)] :
           /\ \A i, j \in 1..n : seq[i] = seq[j] => i = j
           /\ \A t \in T : \E i \in 1..n : seq[i] = t
           /\ SumsAlong(su, sum, seq, n, h)
           /\ SumOver(su, sum, T) = h[n]
  BY <1>3
<1>5. PICK U : U = {k \in Nat : k <= n => Counted(su, h[k], S \cup {seq[i] : i \in 1..k})}
  OBVIOUS
<1>6. 0 \in U
  <2>1. {seq[i] : i \in 1..0} = {} /\ h[0] = sum
    BY <1>4 DEF SumsAlong
  <2>2. S \cup {seq[i] : i \in 1..0} = S
    BY <2>1
  <2> QED
    BY <1>5, <2>1, <2>2
<1>7. ASSUME NEW k \in U PROVE k + 1 \in U
  <2>1. CASE k + 1 <= n
    <3>1. k \in Nat /\ k <= n /\ k + 1 \in 1..n /\ (\A i \in 1..k : i \in 1..n /\ i # k + 1)
      BY <1>5, <2>1
    <3>2. PICK A : A = S \cup {seq[i] : i \in 1..k}
      OBVIOUS
    <3>3. Counted(su, h[k], A)
      BY <1>5, <3>1, <3>2
    <3>4. PICK d : d = seq[k + 1]
      OBVIOUS
    <3>5. d \in T
      BY <3>1, <3>4
    <3>6. d \in qdl(su) /\ d \notin A
      BY <1>4, <3>1, <3>2, <3>4, <3>5
    <3>7. h[k + 1] = do_sum(su, h[k], d)
      <4>1. k = (k + 1) - 1
        BY <3>1
      <4> QED
        BY <1>4, <3>1, <3>4, <4>1 DEF SumsAlong
    <3>8. Counted(su, h[k + 1], A \cup {d})
      BY <3>3, <3>6, <3>7, CountedMore
    <3>9. S \cup {seq[i] : i \in 1..(k + 1)} = A \cup {d}
      BY <3>1, <3>2, <3>4
    <3> QED
      <4>1. Counted(su, h[k + 1], S \cup {seq[i] : i \in 1..(k + 1)})
        BY <3>8, <3>9
      <4> QED
        BY <1>5, <3>1, <4>1
  <2>2. CASE ~(k + 1 <= n)
    BY <1>5, <2>2
  <2> QED
    BY <2>1, <2>2
<1>8. n \in U
  BY <1>5, <1>6, <1>7, UpFromZero
<1>9. {seq[i] : i \in 1..n} = T
  BY <1>4
<1>10. Counted(su, h[n], S \cup {seq[i] : i \in 1..n})
  BY <1>5, <1>8
<1> QED
  BY <1>4, <1>9, <1>10

-----------------------------------------------------------------------------
(* The summary *)

LEMMA ColumnsFinite ==
  ASSUME NEW su, Reportable(su)
  PROVE  IsFiniteSet(Columns(su))
<1>1. IsFiniteSet(VioColumns)
  <2>1. IsFiniteSet({})
    BY FS_EmptySet
  <2>2. IsFiniteSet({"nov"})
    BY FS_Singleton
  <2>3. IsFiniteSet({"nov"} \cup {"igv"})
    BY <2>2, FS_AddElement
  <2>4. IsFiniteSet(({"nov"} \cup {"igv"}) \cup {"scv"})
    BY <2>3, FS_AddElement
  <2>5. IsFiniteSet((({"nov"} \cup {"igv"}) \cup {"scv"}) \cup {"dcv"})
    BY <2>4, FS_AddElement
  <2>6. IsFiniteSet(((({"nov"} \cup {"igv"}) \cup {"scv"}) \cup {"dcv"}) \cup {"mcv"})
    BY <2>5, FS_AddElement
  <2>7. IsFiniteSet((((({"nov"} \cup {"igv"}) \cup {"scv"}) \cup {"dcv"}) \cup {"mcv"}) \cup {"xbv"})
    BY <2>6, FS_AddElement
  <2>8. VioColumns = (((({"nov"} \cup {"igv"}) \cup {"scv"}) \cup {"dcv"}) \cup {"mcv"}) \cup {"xbv"}
    BY DEF VioColumns
  <2> QED
    BY <2>7, <2>8
<1>2. Columns(su) \in SUBSET VioColumns
  <2>1. su.dolevel \in {"doA", "doB", "doC"}
    BY DEF Reportable, viocnt_columns_for
  <2>2. /\ viocnt_columns_for["doA"] \subseteq VioColumns
        /\ viocnt_columns_for["doB"] \subseteq VioColumns
        /\ viocnt_columns_for["doC"] \subseteq VioColumns
    BY DEF viocnt_columns_for
  <2>3. PICK l : l = su.dolevel
    OBVIOUS
  <2> QED
    BY <2>1, <2>2, <2>3 DEF Columns
<1> QED
  BY <1>1, <1>2, FS_Subset

LEMMA NothingSummed ==
  ASSUME NEW su, Reportable(su)
  PROVE  Counted(su, init_data_for(su.dolevel), {})
<1>1. PICK sum : sum = init_data_for(su.dolevel)
  OBVIOUS
<1>2. PICK cs : cs = ZeroCounters(su.dolevel)
  OBVIOUS
<1>3. sum = [passed |-> 0, xfail |-> 0, failed |-> 0, counters |-> cs]
  BY <1>1, <1>2 DEF init_data_for
<1>4. cs = [c \in Columns(su) |-> [expected |-> 0, satisfied |-> 0]]
  BY <1>2 DEF ZeroCounters, Columns
<1>5. cs \in Counters(su) /\ \A c \in Columns(su) : cs[c].expected = 0
  BY <1>4 DEF Counters
<1>6. sum \in SumType(su)
  BY <1>3, <1>5 DEF SumType
<1>7. \A sta : With(su, {}, sta) = {}
  BY DEF With
<1>8. \A C : Noted(su, {}, C) = {}
  BY DEF Noted
<1>9. Cardinality({}) = 0
  BY FS_EmptySet
<1>10. {} \in SUBSET qdl(su)
  OBVIOUS
<1>11. sum.passed = 0 /\ sum.xfail = 0 /\ sum.failed = 0 /\ sum.counters = cs
  BY <1>3
<1>12. \A c \in Columns(su) : sum.counters[c].expected = Cardinality(Noted(su, {}, {c}))
  BY <1>5, <1>8, <1>9, <1>11
<1>13. \A sta : Cardinality(With(su, {}, sta)) = 0
  BY <1>7, <1>9
<1> QED
  BY <1>1, <1>6, <1>10, <1>11, <1>12, <1>13 DEF Counted

LineType(su) ==
  [name : {Categories[i].name : i \in 1..6}, sum : SumType(su), ovsta : {"passed", "failed"}]
AccType(su) == [lines : Seq(LineType(su)), total : SumType(su)]

LEMMA SumOverType ==
  ASSUME NEW su, Reportable(su), NEW sum \in SumType(su), NEW T \in SUBSET qdl(su)
  PROVE  SumOver(su, sum, T) \in SumType(su)
<1>1. Stepwise(su, sum, T)
  BY SumSteps
<1>2. PICK n \in Nat : \E seq \in [1..n -> T] : \E h \in [0..n -> SumType(su)] :
           SumOver(su, sum, T) = h[n]
  BY <1>1 DEF Stepwise
<1> QED
  BY <1>2

LEMMA CategoryAdded ==
  ASSUME NEW su, Reportable(su), NEW acc \in AccType(su), NEW i \in 1..6,
         NEW after, after = sumdata_for(su, acc, i),
         NEW T, T = cat_qdl(su, i), NEW this, this = SumOver(su, init_data_for(su.dolevel), T)
  PROVE  /\ after \in AccType(su)
         /\ IF T = {} \/ Skipped(Categories[i], this) THEN after = acc
            ELSE after.total = SumOver(su, acc.total, T)
<1>1. T \in SUBSET qdl(su)
  BY DEF cat_qdl
<1>2. this \in SumType(su)
  BY <1>1, NothingSummed, SumOverType DEF Counted
<1>3. PICK all : all = SumOver(su, acc.total, T)
  OBVIOUS
<1>4. acc.total \in SumType(su) /\ acc.lines \in Seq(LineType(su))
  BY DEF AccType
<1>5. all \in SumType(su)
  BY <1>1, <1>3, <1>4, SumOverType
<1>6. CASE T = {} \/ Skipped(Categories[i], this)
  BY <1>6 DEF sumdata_for
<1>7. CASE ~(T = {} \/ Skipped(Categories[i], this))
  <2>1. PICK name : name = Categories[i].name
    OBVIOUS
  <2>2. name \in {Categories[k].name : k \in 1..6}
    BY <2>1
  <2>3. PICK ov : ov = IF this.failed = 0 THEN "passed" ELSE "failed"
    OBVIOUS
  <2>4. ov \in {"passed", "failed"}
    BY <2>3
  <2>5. PICK line : line = [name |-> name, sum |-> this, ovsta |-> ov]
    OBVIOUS
  <2>6. line \in LineType(su)
    BY <1>2, <2>2, <2>4, <2>5 DEF LineType
  <2>7. after = [lines |-> Append(acc.lines, line), total |-> all]
    BY <1>3, <1>7, <2>1, <2>3, <2>5, Zenon DEF sumdata_for
  <2>8. Append(acc.lines, line) \in Seq(LineType(su))
    BY <1>4, <2>6
  <2> QED
    BY <1>3, <1>5, <1>7, <2>7, <2>8 DEF AccType
<1> QED
  BY <1>6, <1>7

\* The sums after each category
TotalsAlong(su, h) ==
  /\ h \in [0..6 -> AccType(su)]
  /\ h[0] = [lines |-> <<>>, total |-> init_data_for(su.dolevel)]
  /\ \A i \in 1..6 : h[i] = sumdata_for(su, h[i - 1], i)
  /\ sumdata(su).total = h[6].total
  /\ sumdata(su).ovsta = IF h[6].total.failed = 0 THEN "PASSED" ELSE "FAILED"

LEMMA TotalSteps ==
  ASSUME NEW su, Reportable(su)
  PROVE  \E h : TotalsAlong(su, h)
<1>1. PICK V : V = AccType(su)
  OBVIOUS
<1>2. PICK seq : seq = [i \in DOMAIN Categories |-> i]
  OBVIOUS
<1>3. DOMAIN seq = 1..6 /\ \A i \in 1..6 : seq[i] = i
  BY <1>2, CategoryFacts
<1>4. PICK acc : acc = [lines |-> <<>>, total |-> init_data_for(su.dolevel)]
  OBVIOUS
<1>5. acc \in V
  <2>1. init_data_for(su.dolevel) \in SumType(su)
    BY NothingSummed DEF Counted
  <2>2. <<>> \in Seq(LineType(su))
    OBVIOUS
  <2> QED
    BY <1>1, <1>4, <2>1, <2>2 DEF AccType
<1>6. PICK G : G = [p \in V \X (1..6) |-> sumdata_for(su, p[1], p[2])]
  OBVIOUS
<1>7. ASSUME NEW v \in V, NEW k \in 1..6 PROVE sumdata_for(su, v, k) \in V
  BY <1>1, CategoryAdded
<1>8. G \in [V \X (1..6) -> V]
  BY <1>6, <1>7
<1>9. PICK f \in [SUBSET (1..6) -> V] : Iterates(f, 6, acc, G)
  BY <1>5, <1>8, IterationExists
<1>10. ASSUME NEW s \in SUBSET (1..6)
       PROVE  f[s] = IF s = {} THEN acc ELSE sumdata_for(su, f[s \ {Max(s)}], seq[Max(s)])
  <2>1. f[s] = IF s = {} THEN acc ELSE G[<<f[s \ {Max(s)}], Max(s)>>]
    BY <1>9 DEF Iterates
  <2>2. CASE s # {}
    <3>1. Max(s) \in 1..6
      BY <2>2, MaxIn
    <3>2. PICK k \in 1..6 : k = Max(s)
      BY <3>1
    <3>3. PICK v \in V : v = f[s \ {k}]
      BY <1>9
    <3>4. G[<<v, k>>] = sumdata_for(su, v, k) /\ seq[k] = k
      BY <1>3, <1>6
    <3> QED
      BY <2>1, <2>2, <3>2, <3>3, <3>4
  <2> QED
    BY <2>1, <2>2
<1>11. f = [s \in SUBSET (1..6) |->
              IF s = {} THEN acc ELSE sumdata_for(su, f[s \ {Max(s)}], seq[Max(s)])]
  BY <1>9, <1>10
<1>12. PICK g : g = CHOOSE e : e = [s \in SUBSET (1..6) |->
                  IF s = {} THEN acc ELSE sumdata_for(su, e[s \ {Max(s)}], seq[Max(s)])]
  OBVIOUS
<1>13. g = [s \in SUBSET (1..6) |->
              IF s = {} THEN acc ELSE sumdata_for(su, g[s \ {Max(s)}], seq[Max(s)])]
  BY <1>11, <1>12
<1>14. PICK h : h = [k \in 0..6 |-> g[1..k]]
  OBVIOUS
<1>15. /\ sumdata(su).total = h[6].total
       /\ sumdata(su).ovsta = IF h[6].total.failed = 0 THEN "PASSED" ELSE "FAILED"
  <2>1. PICK sums : sums = FoldLeft(LAMBDA a, i : sumdata_for(su, a, i), acc, seq)
    OBVIOUS
  <2>2. sumdata(su) = [lines |-> sums.lines, total |-> sums.total,
                       ovsta |-> IF sums.total.failed = 0 THEN "PASSED" ELSE "FAILED"]
    BY <1>2, <1>4, <2>1, Zenon DEF sumdata
  <2>3. sums = (CHOOSE e : e = [s \in SUBSET DOMAIN seq |->
           IF s = {} THEN acc ELSE sumdata_for(su, e[s \ {Max(s)}], seq[Max(s)])])[DOMAIN seq]
    BY <2>1, Zenon DEF FoldLeft, MapThenFoldSet
  <2>4. sums = g[1..6]
    BY <1>3, <1>12, <2>3
  <2>5. h[6] = g[1..6]
    BY <1>14
  <2> QED
    BY <2>2, <2>4, <2>5
<1>16. h[0] = acc
  <2>1. {} \in SUBSET (1..6) /\ 0 \in 0..6
    OBVIOUS
  <2>2. h[0] = g[{}]
    BY <1>14, <2>1, Initial
  <2> QED
    BY <1>13, <2>1, <2>2
<1>17. ASSUME NEW k \in 1..6 PROVE h[k] = sumdata_for(su, h[k - 1], k)
  <2>1. PICK s : s = 1..k
    OBVIOUS
  <2>2. s # {} /\ s \in SUBSET (1..6) /\ Max(s) = k /\ s \ {k} = 1..(k - 1)
    BY <2>1, Initial
  <2>3. g[s] = sumdata_for(su, g[s \ {k}], seq[k]) /\ seq[k] = k
    BY <1>3, <1>13, <2>2
  <2>4. k \in 0..6 /\ k - 1 \in 0..6
    OBVIOUS
  <2>5. h[k] = g[s] /\ h[k - 1] = g[1..(k - 1)]
    BY <1>14, <2>1, <2>4
  <2> QED
    BY <2>2, <2>3, <2>5
<1>18. \A k \in Nat : k \in {i \in Nat : i <= 6 => h[i] \in V}
  <2>1. PICK U : U = {i \in Nat : i <= 6 => h[i] \in V}
    OBVIOUS
  <2>2. 0 \in U
    BY <1>5, <1>16, <2>1
  <2>3. ASSUME NEW k \in U PROVE k + 1 \in U
    <3>1. CASE k + 1 <= 6
      <4>1. k \in Nat /\ k + 1 \in 1..6 /\ k <= 6 /\ (k + 1) - 1 = k
        BY <2>1, <3>1
      <4>2. h[k + 1] = sumdata_for(su, h[k], k + 1)
        BY <1>17, <4>1
      <4>3. h[k] \in V
        BY <2>1, <4>1
      <4>4. sumdata_for(su, h[k], k + 1) \in V
        BY <1>7, <4>1, <4>3
      <4> QED
        BY <2>1, <4>1, <4>2, <4>4
    <3>2. CASE ~(k + 1 <= 6)
      BY <2>1, <3>2
    <3> QED
      BY <3>1, <3>2
  <2> QED
    BY <2>1, <2>2, <2>3, UpFromZero
<1>19. h \in [0..6 -> V]
  <2>1. ASSUME NEW k \in 0..6 PROVE h[k] \in V
    <3>1. k \in Nat /\ k <= 6
      OBVIOUS
    <3> QED
      BY <1>18, <3>1
  <2> QED
    BY <1>14, <2>1
<1> QED
  BY <1>1, <1>4, <1>15, <1>16, <1>17, <1>19 DEF TotalsAlong

LEMMA CategoryOf ==
  ASSUME NEW su, Reportable(su), NEW d \in qdl(su)
  PROVE  /\ categorize(su, d) \in 1..6
         /\ categorize(su, d) = 5 <=> su.dirs[d].subtree = "selftest"
<1>1. PICK t : t = su.dirs[d].subtree
  OBVIOUS
<1>2. t \in {"stmt", "decision", "mcdc", "report", "selftest", "other"}
  BY <1>1, ReportableFacts
<1> DEFINE First(i) == /\ t \in Categories[i].matcher
                       /\ \A j \in 1..(i - 1) : ~(t \in Categories[j].matcher)
<1>3. \E k \in 1..6 : First(k) /\ (k = 5 <=> t = "selftest")
  <2>1. CASE t = "stmt"
    <3>1. First(1)
      BY <2>1, CategoryFacts
    <3> QED
      BY <2>1, <3>1
  <2>2. CASE t = "decision"
    <3>1. \A j \in 1..(2 - 1) : j = 1
      OBVIOUS
    <3>2. First(2)
      BY <2>2, <3>1, CategoryFacts
    <3> QED
      BY <2>2, <3>2
  <2>3. CASE t = "mcdc"
    <3>1. \A j \in 1..(3 - 1) : j = 1 \/ j = 2
      OBVIOUS
    <3>2. First(3)
      BY <2>3, <3>1, CategoryFacts
    <3> QED
      BY <2>3, <3>2
  <2>4. CASE t = "report"
    <3>1. \A j \in 1..(4 - 1) : j = 1 \/ j = 2 \/ j = 3
      OBVIOUS
    <3>2. First(4)
      BY <2>4, <3>1, CategoryFacts
    <3> QED
      BY <2>4, <3>2
  <2>5. CASE t = "selftest"
    <3>1. \A j \in 1..(5 - 1) : j = 1 \/ j = 2 \/ j = 3 \/ j = 4
      OBVIOUS
    <3>2. First(5)
      BY <2>5, <3>1, CategoryFacts
    <3> QED
      BY <2>5, <3>2
  <2>6. CASE t = "other"
    <3>1. \A j \in 1..(6 - 1) : j = 1 \/ j = 2 \/ j = 3 \/ j = 4 \/ j = 5
      OBVIOUS
    <3>2. First(6)
      BY <2>6, <3>1, CategoryFacts
    <3> QED
      BY <2>6, <3>2
  <2> QED
    BY <1>2, <2>1, <2>2, <2>3, <2>4, <2>5, <2>6
<1>4. PICK k \in 1..6 : First(k) /\ (k = 5 <=> t = "selftest")
  BY <1>3
<1>5. PICK c : c = categorize(su, d)
  OBVIOUS
<1>6. c = CHOOSE i \in 1..6 : First(i)
  <2>1. c = CHOOSE i \in DOMAIN Categories :
              /\ t \in Categories[i].matcher
              /\ \A j \in 1..(i - 1) : ~(t \in Categories[j].matcher)
    BY <1>1, <1>5, Zenon DEF categorize, trymatch
  <2>2. DOMAIN Categories = 1..6
    BY CategoryFacts
  <2> QED
    BY <2>1, <2>2, Zenon
<1> HIDE DEF First
<1>7. c \in 1..6 /\ First(c)
  BY <1>4, <1>6
<1> USE DEF First
<1>8. ~(c < k) /\ ~(k < c)
  <2>1. ASSUME c < k PROVE FALSE
    <3>1. c \in 1..(k - 1)
      BY <1>7, <2>1
    <3> QED
      BY <1>4, <1>7, <3>1
  <2>2. ASSUME k < c PROVE FALSE
    <3>1. k \in 1..(c - 1)
      BY <1>7, <2>2
    <3> QED
      BY <1>4, <1>7, <3>1
  <2> QED
    BY <2>1, <2>2
<1>9. c = k
  BY <1>7, <1>8
<1> QED
  BY <1>1, <1>4, <1>5, <1>9

\* The tests of an internal category in which nothing failed
FailedTests(su) == {d \in qdl(su) : su.dirs[d].status = "FAILED"}
HiddenTest(su, d) == /\ su.dirs[d].subtree = "selftest"
                     /\ \A e \in FailedTests(su) : su.dirs[e].subtree # "selftest"
ShownTo(su, i) == {d \in qdl(su) : categorize(su, d) <= i /\ ~HiddenTest(su, d)}

LEMMA CategorySkipped ==
  ASSUME NEW su, Reportable(su), NEW i \in 1..6, NEW T, T = cat_qdl(su, i),
         NEW this, this = SumOver(su, init_data_for(su.dolevel), T)
  PROVE  /\ Skipped(Categories[i], this) => \A d \in T : HiddenTest(su, d)
         /\ ~Skipped(Categories[i], this) => \A d \in T : ~HiddenTest(su, d)
<1>1. T \in SUBSET qdl(su) /\ \A d \in T : categorize(su, d) = i
  BY DEF cat_qdl
<1>2. Counted(su, this, T)
  <2>1. {} \cap T = {} /\ {} \cup T = T
    OBVIOUS
  <2>2. Counted(su, this, {} \cup T)
    BY <1>1, <2>1, NothingSummed, SumOverCounted
  <2> QED
    BY <2>1, <2>2
<1>3. IsFiniteSet(With(su, T, "failed"))
  <2>1. With(su, T, "failed") \in SUBSET qdl(su)
    BY <1>1 DEF With
  <2> QED
    BY <2>1, ReportableFacts, FS_Subset
<1>4. this.failed = 0 <=> With(su, T, "failed") = {}
  BY <1>2, <1>3, FS_EmptySet DEF Counted
<1>5. this.failed = 0 <=> \A d \in T : su.dirs[d].status # "FAILED"
  <2>1. \A d \in T : su.dirs[d].status = "FAILED" <=> d \in With(su, T, "failed")
    BY <1>1, ReportableFacts DEF With
  <2>2. With(su, T, "failed") \subseteq T
    BY DEF With
  <2> QED
    BY <1>4, <2>1, <2>2
<1>6. Skipped(Categories[i], this) <=> i = 5 /\ this.failed = 0
  BY CategoryFacts DEF Skipped
<1>7. CASE i = 5
  <2>1. \A d \in qdl(su) : su.dirs[d].subtree = "selftest" <=> d \in T
    BY <1>7, CategoryOf DEF cat_qdl
  <2>2. \A d \in T : HiddenTest(su, d) <=> this.failed = 0
    BY <1>1, <1>5, <2>1 DEF HiddenTest, FailedTests
  <2> QED
    BY <1>6, <1>7, <2>2
<1>8. CASE i # 5
  <2>1. \A d \in T : su.dirs[d].subtree # "selftest"
    BY <1>1, <1>8, CategoryOf
  <2> QED
    BY <1>6, <1>8, <2>1 DEF HiddenTest
<1> QED
  BY <1>7, <1>8

Shown(su) == {d \in qdl(su) : ~HiddenTest(su, d)}

LEMMA TotalCounted ==
  ASSUME NEW su, Reportable(su)
  PROVE  Counted(su, sumdata(su).total, Shown(su))
<1>1. PICK h : TotalsAlong(su, h)
  BY TotalSteps
<1>2. /\ h \in [0..6 -> AccType(su)]
      /\ h[0] = [lines |-> <<>>, total |-> init_data_for(su.dolevel)]
      /\ \A i \in 1..6 : h[i] = sumdata_for(su, h[i - 1], i)
      /\ sumdata(su).total = h[6].total
  BY <1>1 DEF TotalsAlong
<1>3. PICK U : U = {k \in Nat : k <= 6 => Counted(su, h[k].total, ShownTo(su, k))}
  OBVIOUS
<1>4. 0 \in U
  <2>1. ShownTo(su, 0) = {}
    BY CategoryOf DEF ShownTo
  <2>2. h[0].total = init_data_for(su.dolevel)
    BY <1>2
  <2> QED
    BY <1>3, <2>1, <2>2, NothingSummed
<1>5. ASSUME NEW k \in U PROVE k + 1 \in U
  <2>1. CASE k + 1 <= 6
    <3>1. PICK i : i = k + 1
      OBVIOUS
    <3>2. k \in Nat /\ k <= 6 /\ k \in 0..6 /\ i \in 1..6 /\ i \in Nat /\ i - 1 = k
      BY <1>3, <2>1, <3>1
    <3>3. PICK acc \in AccType(su) : acc = h[k]
      BY <1>2, <3>2
    <3>4. PICK T : T = cat_qdl(su, i)
      OBVIOUS
    <3>5. PICK this : this = SumOver(su, init_data_for(su.dolevel), T)
      OBVIOUS
    <3>6. PICK after : after = sumdata_for(su, acc, i)
      OBVIOUS
    <3>7. IF T = {} \/ Skipped(Categories[i], this) THEN after = acc
          ELSE after.total = SumOver(su, acc.total, T)
      BY <3>2, <3>4, <3>5, <3>6, CategoryAdded
    <3>8. h[i] = after
      BY <1>2, <3>2, <3>3, <3>6
    <3>9. Counted(su, acc.total, ShownTo(su, k))
      BY <1>3, <3>2, <3>3
    <3>10. \A d \in qdl(su) : categorize(su, d) \in 1..6
      BY CategoryOf
    <3>11. T \in SUBSET qdl(su) /\ \A d \in qdl(su) : d \in T <=> categorize(su, d) = i
      BY <3>4 DEF cat_qdl
    <3>12. CASE T = {} \/ Skipped(Categories[i], this)
      <4>1. \A d \in T : HiddenTest(su, d)
        BY <3>2, <3>4, <3>5, <3>12, CategorySkipped
      <4>2. ASSUME NEW d \in qdl(su)
            PROVE  d \in ShownTo(su, i) <=> d \in ShownTo(su, k)
        <5>1. PICK c \in 1..6 : c = categorize(su, d)
          BY <3>10
        <5>2. c <= i <=> c <= k \/ c = i
          BY <3>2
        <5> QED
          BY <3>11, <4>1, <5>1, <5>2, <3>2 DEF ShownTo
      <4>3. ShownTo(su, i) = ShownTo(su, k)
        BY <4>2 DEF ShownTo
      <4>4. Counted(su, h[i].total, ShownTo(su, i))
        BY <3>7, <3>8, <3>9, <3>12, <4>3
      <4> QED
        BY <1>3, <3>1, <3>2, <4>4
    <3>13. CASE ~(T = {} \/ Skipped(Categories[i], this))
      <4>1. \A d \in T : ~HiddenTest(su, d)
        BY <3>2, <3>4, <3>5, <3>13, CategorySkipped
      <4>2. ASSUME NEW d \in qdl(su)
            PROVE  /\ d \in ShownTo(su, i) <=> d \in ShownTo(su, k) \/ d \in T
                   /\ ~(d \in ShownTo(su, k) /\ d \in T)
        <5>1. PICK c \in 1..6 : c = categorize(su, d)
          BY <3>10
        <5>2. (c <= i <=> c <= k \/ c = i) /\ ~(c <= k /\ c = i)
          BY <3>2
        <5> QED
          BY <3>11, <4>1, <5>1, <5>2, <3>2 DEF ShownTo
      <4>3. ShownTo(su, i) = ShownTo(su, k) \cup T /\ ShownTo(su, k) \cap T = {}
        BY <3>11, <4>2 DEF ShownTo
      <4>4. Counted(su, SumOver(su, acc.total, T), ShownTo(su, k) \cup T)
        BY <3>9, <3>11, <4>3, SumOverCounted
      <4>5. Counted(su, h[i].total, ShownTo(su, i))
        BY <3>7, <3>8, <3>13, <4>3, <4>4
      <4> QED
        BY <1>3, <3>1, <3>2, <4>5
    <3> QED
      BY <3>12, <3>13
  <2>2. CASE ~(k + 1 <= 6)
    BY <1>3, <2>2
  <2> QED
    BY <2>1, <2>2
<1>6. 6 \in U
  BY <1>3, <1>4, <1>5, UpFromZero
<1>7. ShownTo(su, 6) = Shown(su)
  <2>1. \A d \in qdl(su) : categorize(su, d) <= 6
    BY CategoryOf
  <2> QED
    BY <2>1 DEF ShownTo, Shown
<1> QED
  BY <1>2, <1>3, <1>6, <1>7

-----------------------------------------------------------------------------
(* Sums of numbers *)

Adds(g, n, w) ==
  \A s \in SUBSET (1..n) : g[s] = IF s = {} THEN 0 ELSE g[s \ {Max(s)}] + w[Max(s)]

LEMMA AddsExists ==
  ASSUME NEW n \in Nat, NEW w \in [1..n -> Nat]
  PROVE  \E f \in [SUBSET (1..n) -> Nat] : Adds(f, n, w)
<1>1. PICK G : G = [p \in Nat \X (1..n) |-> p[1] + w[p[2]]]
  OBVIOUS
<1>2. G \in [Nat \X (1..n) -> Nat]
  <2>1. ASSUME NEW p \in Nat \X (1..n) PROVE p[1] + w[p[2]] \in Nat
    OBVIOUS
  <2> QED
    BY <1>1, <2>1
<1>3. PICK f \in [SUBSET (1..n) -> Nat] : Iterates(f, n, 0, G)
  BY <1>2, IterationExists
<1>4. ASSUME NEW s \in SUBSET (1..n)
      PROVE  f[s] = IF s = {} THEN 0 ELSE f[s \ {Max(s)}] + w[Max(s)]
  <2>1. f[s] = IF s = {} THEN 0 ELSE G[<<f[s \ {Max(s)}], Max(s)>>]
    BY <1>3 DEF Iterates
  <2>2. CASE s # {}
    <3>1. Max(s) \in 1..n
      BY <2>2, MaxIn
    <3>2. PICK k \in 1..n : k = Max(s)
      BY <3>1
    <3>3. PICK v \in Nat : v = f[s \ {k}]
      BY <1>3
    <3>4. G[<<v, k>>] = v + w[k]
      BY <1>1
    <3> QED
      BY <2>1, <2>2, <3>2, <3>3, <3>4
  <2> QED
    BY <2>1, <2>2
<1> QED
  BY <1>4 DEF Adds

\* Sums of the first numbers
RunningSum(h, n, w) ==
  h \in [0..n -> Nat] /\ h[0] = 0 /\ \A k \in 1..n : h[k] = h[k - 1] + w[k]

LEMMA AddsUp ==
  ASSUME NEW n \in Nat, NEW w \in [1..n -> Nat], NEW g, Adds(g, n, w)
  PROVE  \E h : RunningSum(h, n, w) /\ h[n] = g[1..n]
<1>1. PICK h : h = [k \in 0..n |-> g[1..k]]
  OBVIOUS
<1>2. h[0] = 0
  <2>1. {} \in SUBSET (1..n) /\ 0 \in 0..n
    OBVIOUS
  <2>2. h[0] = g[{}]
    BY <1>1, <2>1, Initial
  <2> QED
    BY <2>1, <2>2 DEF Adds
<1>3. ASSUME NEW k \in 1..n PROVE h[k] = h[k - 1] + w[k]
  <2>1. PICK s : s = 1..k
    OBVIOUS
  <2>2. s # {} /\ s \in SUBSET (1..n) /\ Max(s) = k /\ s \ {k} = 1..(k - 1)
    BY <2>1, Initial
  <2>3. g[s] = g[s \ {k}] + w[k]
    BY <2>2 DEF Adds
  <2>4. k \in 0..n /\ k - 1 \in 0..n
    OBVIOUS
  <2>5. h[k] = g[s] /\ h[k - 1] = g[1..(k - 1)]
    BY <1>1, <2>1, <2>4
  <2> QED
    BY <2>2, <2>3, <2>5
<1>4. PICK U : U = {i \in Nat : i <= n => h[i] \in Nat}
  OBVIOUS
<1>5. 0 \in U
  BY <1>2, <1>4
<1>6. ASSUME NEW k \in U PROVE k + 1 \in U
  <2>1. CASE k + 1 <= n
    <3>1. k \in Nat /\ k + 1 \in 1..n /\ k <= n /\ (k + 1) - 1 = k
      BY <1>4, <2>1
    <3>2. h[k + 1] = h[k] + w[k + 1]
      BY <1>3, <3>1
    <3>3. h[k] \in Nat /\ w[k + 1] \in Nat
      BY <1>4, <3>1
    <3> QED
      BY <1>4, <3>1, <3>2, <3>3
  <2>2. CASE ~(k + 1 <= n)
    BY <1>4, <2>2
  <2> QED
    BY <2>1, <2>2
<1>7. \A k \in Nat : k \in U
  BY <1>4, <1>5, <1>6, UpFromZero
<1>8. ASSUME NEW k \in 0..n PROVE h[k] \in Nat
  <2>1. k \in Nat /\ k <= n
    OBVIOUS
  <2> QED
    BY <1>4, <1>7, <2>1
<1>9. h \in [0..n -> Nat] /\ h[n] = g[1..n]
  BY <1>1, <1>8
<1> QED
  BY <1>2, <1>3, <1>9 DEF RunningSum

SumsTo(w, n, total) ==
  w \in [1..n -> Nat] /\ \E h : RunningSum(h, n, w) /\ h[n] = total

LEMMA NotesSum ==
  ASSUME NEW su, Reportable(su), NEW T \in SUBSET qdl(su),
         NEW seq, seq = SetToSeq(T), NEW n \in Nat, seq \in [1..n -> T]
  PROVE  SumsTo([k \in 1..n |-> Len(su.dirs[seq[k]].notes)], n, Notes(su, T))
<1>1. DOMAIN seq = 1..n
  OBVIOUS
<1>2. PICK w : w = [k \in 1..n |-> Len(su.dirs[seq[k]].notes)]
  OBVIOUS
<1>3. w \in [1..n -> Nat]
  <2>1. ASSUME NEW k \in 1..n PROVE Len(su.dirs[seq[k]].notes) \in Nat
    BY ReportableFacts
  <2> QED
    BY <1>2, <2>1
<1>4. PICK f \in [SUBSET (1..n) -> Nat] : Adds(f, n, w)
  BY <1>3, AddsExists
<1>5. ASSUME NEW s \in SUBSET (1..n), s # {}
      PROVE  w[Max(s)] = Len(su.dirs[seq[Max(s)]].notes)
  BY <1>2, <1>5, MaxIn
<1>6. f = [s \in SUBSET (1..n) |->
             IF s = {} THEN 0 ELSE f[s \ {Max(s)}] + Len(su.dirs[seq[Max(s)]].notes)]
  <2>1. \A s \in SUBSET (1..n) :
          f[s] = IF s = {} THEN 0 ELSE f[s \ {Max(s)}] + Len(su.dirs[seq[Max(s)]].notes)
    BY <1>4, <1>5 DEF Adds
  <2> QED
    BY <1>4, <2>1
<1>7. PICK g : g = CHOOSE e : e = [s \in SUBSET (1..n) |->
             IF s = {} THEN 0 ELSE e[s \ {Max(s)}] + Len(su.dirs[seq[Max(s)]].notes)]
  OBVIOUS
<1>8. g = [s \in SUBSET (1..n) |->
             IF s = {} THEN 0 ELSE g[s \ {Max(s)}] + Len(su.dirs[seq[Max(s)]].notes)]
  BY <1>6, <1>7
<1>9. Adds(g, n, w)
  <2>1. \A s \in SUBSET (1..n) :
          g[s] = IF s = {} THEN 0 ELSE g[s \ {Max(s)}] + Len(su.dirs[seq[Max(s)]].notes)
    BY <1>8
  <2> QED
    BY <1>5, <2>1 DEF Adds
<1>10. Notes(su, T) = g[1..n]
  <2>1. Notes(su, T) = (CHOOSE e : e = [s \in SUBSET DOMAIN seq |->
           IF s = {} THEN 0
           ELSE e[s \ {Max(s)}] + Len(su.dirs[seq[Max(s)]].notes)])[DOMAIN seq]
    BY Zenon DEF Notes, FoldLeft, MapThenFoldSet
  <2> QED
    BY <1>1, <1>7, <2>1
<1>11. PICK h : RunningSum(h, n, w) /\ h[n] = g[1..n]
  BY <1>3, <1>9, AddsUp
<1>12. RunningSum(h, n, w) /\ h[n] = Notes(su, T)
  BY <1>10, <1>11
<1> QED
  BY <1>2, <1>3, <1>12 DEF SumsTo

Expected(counters) ==
  FoldLeft(LAMBDA n, c : n + counters[c].expected, 0, SetToSeq(DOMAIN counters))

LEMMA ExpectedSum ==
  ASSUME NEW T, NEW counters, counters \in [T -> [expected : Nat, satisfied : Nat]],
         NEW seq, seq = SetToSeq(T), NEW n \in Nat, seq \in [1..n -> T]
  PROVE  SumsTo([k \in 1..n |-> counters[seq[k]].expected], n, Expected(counters))
<1>1. DOMAIN seq = 1..n /\ DOMAIN counters = T
  OBVIOUS
<1>2. PICK w : w = [k \in 1..n |-> counters[seq[k]].expected]
  OBVIOUS
<1>3. w \in [1..n -> Nat]
  <2>1. ASSUME NEW k \in 1..n PROVE counters[seq[k]].expected \in Nat
    OBVIOUS
  <2> QED
    BY <1>2, <2>1
<1>4. PICK f \in [SUBSET (1..n) -> Nat] : Adds(f, n, w)
  BY <1>3, AddsExists
<1>5. ASSUME NEW s \in SUBSET (1..n), s # {}
      PROVE  w[Max(s)] = counters[seq[Max(s)]].expected
  BY <1>2, <1>5, MaxIn
<1>6. f = [s \in SUBSET (1..n) |->
             IF s = {} THEN 0 ELSE f[s \ {Max(s)}] + counters[seq[Max(s)]].expected]
  <2>1. \A s \in SUBSET (1..n) :
          f[s] = IF s = {} THEN 0 ELSE f[s \ {Max(s)}] + counters[seq[Max(s)]].expected
    BY <1>4, <1>5 DEF Adds
  <2> QED
    BY <1>4, <2>1
<1>7. PICK g : g = CHOOSE e : e = [s \in SUBSET (1..n) |->
             IF s = {} THEN 0 ELSE e[s \ {Max(s)}] + counters[seq[Max(s)]].expected]
  OBVIOUS
<1>8. g = [s \in SUBSET (1..n) |->
             IF s = {} THEN 0 ELSE g[s \ {Max(s)}] + counters[seq[Max(s)]].expected]
  BY <1>6, <1>7
<1>9. Adds(g, n, w)
  <2>1. \A s \in SUBSET (1..n) :
          g[s] = IF s = {} THEN 0 ELSE g[s \ {Max(s)}] + counters[seq[Max(s)]].expected
    BY <1>8
  <2> QED
    BY <1>5, <2>1 DEF Adds
<1>10. Expected(counters) = g[1..n]
  <2>1. Expected(counters) = (CHOOSE e : e = [s \in SUBSET DOMAIN seq |->
           IF s = {} THEN 0
           ELSE e[s \ {Max(s)}] + counters[seq[Max(s)]].expected])[DOMAIN seq]
    BY <1>1, Zenon DEF Expected, FoldLeft, MapThenFoldSet
  <2> QED
    BY <1>1, <1>7, <2>1
<1>11. PICK h : RunningSum(h, n, w) /\ h[n] = g[1..n]
  BY <1>3, <1>9, AddsUp
<1>12. RunningSum(h, n, w) /\ h[n] = Expected(counters)
  BY <1>10, <1>11
<1> QED
  BY <1>2, <1>3, <1>12 DEF SumsTo

LEMMA NotesCounted ==
  ASSUME NEW su, Reportable(su), NEW T \in SUBSET qdl(su)
  PROVE  Notes(su, T) = Cardinality(Noted(su, T, Columns(su)))
<1>1. IsFiniteSet(T)
  BY ReportableFacts, FS_Subset
<1>2. PICK seq : seq = SetToSeq(T)
  OBVIOUS
<1>3. PICK n \in Nat : /\ seq \in [1..n -> T]
                       /\ \A i, j \in 1..n : seq[i] = seq[j] => i = j
                       /\ \A t \in T : \E i \in 1..n : seq[i] = t
  BY <1>1, <1>2, Listed
<1>4. PICK w : w = [k \in 1..n |-> Len(su.dirs[seq[k]].notes)]
  OBVIOUS
<1>5. PICK h : RunningSum(h, n, w) /\ h[n] = Notes(su, T)
  <2>1. SumsTo(w, n, Notes(su, T))
    BY <1>2, <1>3, <1>4, NotesSum
  <2> QED
    BY <2>1 DEF SumsTo
<1>6. PICK C : C = Columns(su)
  OBVIOUS
<1>7. PICK U : U = {k \in Nat : k <= n =>
                      h[k] = Cardinality(Noted(su, {seq[i] : i \in 1..k}, C))}
  OBVIOUS
<1>8. 0 \in U
  <2>1. Noted(su, {seq[i] : i \in 1..0}, C) = {}
    BY DEF Noted
  <2>2. Cardinality({}) = 0 /\ h[0] = 0
    BY <1>5, FS_EmptySet DEF RunningSum
  <2>3. h[0] = Cardinality(Noted(su, {seq[i] : i \in 1..0}, C))
    BY <2>1, <2>2
  <2> QED
    BY <1>7, <2>3
<1>9. ASSUME NEW k \in U PROVE k + 1 \in U
  <2>1. CASE k + 1 <= n
    <3>1. k \in Nat /\ k <= n /\ k + 1 \in 1..n /\ (\A i \in 1..k : i \in 1..n /\ i # k + 1)
      BY <1>7, <2>1
    <3>2. PICK A : A = {seq[i] : i \in 1..k}
      OBVIOUS
    <3>3. h[k] = Cardinality(Noted(su, A, C))
      BY <1>7, <3>1, <3>2
    <3>4. PICK d : d = seq[k + 1]
      OBVIOUS
    <3>5. A \in SUBSET qdl(su) /\ d \in qdl(su) /\ d \notin A
      BY <1>3, <3>1, <3>2, <3>4
    <3>6. Cardinality(Noted(su, A \cup {d}, C)) =
            Cardinality(Noted(su, A, C)) + Cardinality(NotesOf(su, d, C))
      BY <3>5, NotedFinite, NotedMore
    <3>7. {seq[i] : i \in 1..(k + 1)} = A \cup {d}
      BY <3>1, <3>2, <3>4
    <3>8. Cardinality(NotesOf(su, d, C)) = w[k + 1]
      <4>1. PICK l \in Nat : l = Len(su.dirs[d].notes)
        BY <3>5, ReportableFacts
      <4>2. NotesOf(su, d, C) = 1..l
        BY <1>6, <3>5, <4>1, ReportableFacts DEF NotesOf
      <4>3. Cardinality(1..l) = l
        BY <4>1, FS_Interval
      <4> QED
        BY <1>4, <3>1, <3>4, <4>1, <4>2, <4>3
    <3>9. h[k + 1] = h[k] + w[k + 1]
      <4>1. k = (k + 1) - 1
        BY <3>1
      <4> QED
        BY <1>5, <3>1, <4>1 DEF RunningSum
    <3>10. h[k + 1] = Cardinality(Noted(su, {seq[i] : i \in 1..(k + 1)}, C))
      BY <3>3, <3>6, <3>7, <3>8, <3>9
    <3> QED
      BY <1>7, <3>1, <3>10
  <2>2. CASE ~(k + 1 <= n)
    BY <1>7, <2>2
  <2> QED
    BY <2>1, <2>2
<1>10. n \in U
  BY <1>7, <1>8, <1>9, UpFromZero
<1>11. {seq[i] : i \in 1..n} = T
  BY <1>3
<1>12. h[n] = Cardinality(Noted(su, {seq[i] : i \in 1..n}, C))
  BY <1>7, <1>10
<1> QED
  BY <1>5, <1>6, <1>11, <1>12

LEMMA ExpectedCounted ==
  ASSUME NEW su, Reportable(su), NEW sum, NEW S, Counted(su, sum, S)
  PROVE  Expected(sum.counters) = Cardinality(Noted(su, S, Columns(su)))
<1>1. PICK T : T = Columns(su)
  OBVIOUS
<1>2. IsFiniteSet(T)
  BY <1>1, ColumnsFinite
<1>3. PICK seq : seq = SetToSeq(T)
  OBVIOUS
<1>4. PICK n \in Nat : /\ seq \in [1..n -> T]
                       /\ \A i, j \in 1..n : seq[i] = seq[j] => i = j
                       /\ \A t \in T : \E i \in 1..n : seq[i] = t
  BY <1>2, <1>3, Listed
<1>5. PICK cs : cs = sum.counters
  OBVIOUS
<1>6. cs \in [T -> [expected : Nat, satisfied : Nat]] /\ S \in SUBSET qdl(su)
  BY <1>1, <1>5 DEF Counted, SumType, Counters
<1>7. PICK w : w = [k \in 1..n |-> cs[seq[k]].expected]
  OBVIOUS
<1>8. PICK h : RunningSum(h, n, w) /\ h[n] = Expected(cs)
  <2>1. SumsTo(w, n, Expected(cs))
    BY <1>3, <1>4, <1>6, <1>7, ExpectedSum
  <2> QED
    BY <2>1 DEF SumsTo
<1>9. PICK U : U = {k \in Nat : k <= n =>
                      h[k] = Cardinality(Noted(su, S, {seq[i] : i \in 1..k}))}
  OBVIOUS
<1>10. 0 \in U
  <2>1. Noted(su, S, {seq[i] : i \in 1..0}) = {}
    BY DEF Noted, NotesOf
  <2>2. Cardinality({}) = 0 /\ h[0] = 0
    BY <1>8, FS_EmptySet DEF RunningSum
  <2>3. h[0] = Cardinality(Noted(su, S, {seq[i] : i \in 1..0}))
    BY <2>1, <2>2
  <2> QED
    BY <1>9, <2>3
<1>11. ASSUME NEW k \in U PROVE k + 1 \in U
  <2>1. CASE k + 1 <= n
    <3>1. k \in Nat /\ k <= n /\ k + 1 \in 1..n /\ (\A i \in 1..k : i \in 1..n /\ i # k + 1)
      BY <1>9, <2>1
    <3>2. PICK C : C = {seq[i] : i \in 1..k}
      OBVIOUS
    <3>3. h[k] = Cardinality(Noted(su, S, C))
      BY <1>9, <3>1, <3>2
    <3>4. PICK c : c = seq[k + 1]
      OBVIOUS
    <3>5. c \in T /\ c \notin C
      BY <1>4, <3>1, <3>2, <3>4
    <3>6. PICK A : A = Noted(su, S, C)
      OBVIOUS
    <3>7. PICK B : B = Noted(su, S, {c})
      OBVIOUS
    <3>8. IsFiniteSet(A) /\ IsFiniteSet(B)
      BY <1>6, <3>6, <3>7, NotedFinite
    <3>9. Noted(su, S, C \cup {c}) = A \cup B /\ A \cap B = {}
      BY <3>5, <3>6, <3>7 DEF Noted, NotesOf
    <3>10. Cardinality(Noted(su, S, C \cup {c})) = Cardinality(A) + Cardinality(B)
      BY <3>8, <3>9, DisjointSum
    <3>11. {seq[i] : i \in 1..(k + 1)} = C \cup {c}
      BY <3>1, <3>2, <3>4
    <3>12. Cardinality(B) = w[k + 1]
      <4>1. Cardinality(B) = cs[c].expected
        BY <1>1, <1>5, <3>5, <3>7 DEF Counted
      <4> QED
        BY <1>7, <3>1, <3>4, <4>1
    <3>13. h[k + 1] = h[k] + w[k + 1]
      <4>1. k = (k + 1) - 1
        BY <3>1
      <4> QED
        BY <1>8, <3>1, <4>1 DEF RunningSum
    <3>14. h[k + 1] = Cardinality(Noted(su, S, {seq[i] : i \in 1..(k + 1)}))
      BY <3>3, <3>6, <3>10, <3>11, <3>12, <3>13
    <3> QED
      BY <1>9, <3>1, <3>14
  <2>2. CASE ~(k + 1 <= n)
    BY <1>9, <2>2
  <2> QED
    BY <2>1, <2>2
<1>12. n \in U
  BY <1>9, <1>10, <1>11, UpFromZero
<1>13. {seq[i] : i \in 1..n} = T
  BY <1>4
<1>14. h[n] = Cardinality(Noted(su, S, {seq[i] : i \in 1..n}))
  BY <1>9, <1>12
<1> QED
  BY <1>1, <1>5, <1>8, <1>13, <1>14

\* What a summary says of a suite
LEMMA SummaryTruthful ==
  ASSUME NEW su, Reportable(su), NEW summary, summary = sumdata(su)
  PROVE  /\ (summary.ovsta = "PASSED") = (FailedTests(su) = {})
         /\ summary.total.passed + summary.total.xfail + summary.total.failed =
               Cardinality(Shown(su))
         /\ summary.total.failed = Cardinality(FailedTests(su))
         /\ Notes(su, Shown(su)) = Expected(summary.total.counters)
<1>1. PICK total : total = summary.total
  OBVIOUS
<1>2. PICK S : S = Shown(su)
  OBVIOUS
<1>3. Counted(su, total, S)
  BY <1>1, <1>2, TotalCounted
<1>4. S \in SUBSET qdl(su)
  BY <1>3 DEF Counted
<1>5. PICK P : P = With(su, S, "passed")
  OBVIOUS
<1>6. PICK X : X = With(su, S, "xfail")
  OBVIOUS
<1>7. PICK F : F = With(su, S, "failed")
  OBVIOUS
<1>8. IsFiniteSet(P) /\ IsFiniteSet(X) /\ IsFiniteSet(F)
  <2>1. P \in SUBSET qdl(su) /\ X \in SUBSET qdl(su) /\ F \in SUBSET qdl(su)
    BY <1>4, <1>5, <1>6, <1>7 DEF With
  <2> QED
    BY <2>1, ReportableFacts, FS_Subset
<1>9. /\ total.passed = Cardinality(P) /\ total.xfail = Cardinality(X)
      /\ total.failed = Cardinality(F)
  BY <1>3, <1>5, <1>6, <1>7 DEF Counted
<1>10. P \cap X = {} /\ (P \cup X) \cap F = {}
  BY <1>5, <1>6, <1>7 DEF With
<1>11. S = (P \cup X) \cup F
  <2>1. \A d \in S : Status(su, d) \in {"passed", "xfail", "failed"}
    BY <1>4, ReportableFacts DEF StaColumns
  <2> QED
    BY <1>5, <1>6, <1>7, <2>1 DEF With
<1>12. /\ IsFiniteSet(P \cup X) /\ Cardinality(P \cup X) = Cardinality(P) + Cardinality(X)
  BY <1>8, <1>10, DisjointSum
<1>13. Cardinality(S) = Cardinality(P \cup X) + Cardinality(F)
  BY <1>8, <1>10, <1>11, <1>12, DisjointSum
<1>14. F = FailedTests(su)
  <2>1. \A d \in FailedTests(su) : d \in qdl(su) /\ d \in Shown(su)
    BY DEF FailedTests, Shown, HiddenTest
  <2> QED
    BY <1>2, <1>4, <1>7, <2>1, ReportableFacts DEF With, FailedTests
<1>15. total.failed = 0 <=> F = {}
  BY <1>8, <1>9, FS_EmptySet
<1>16. PICK h : TotalsAlong(su, h)
  BY TotalSteps
<1>17. summary.ovsta = IF total.failed = 0 THEN "PASSED" ELSE "FAILED"
  BY <1>1, <1>16 DEF TotalsAlong
<1>18. (summary.ovsta = "PASSED") = (FailedTests(su) = {})
  BY <1>14, <1>15, <1>17
<1>19. Notes(su, S) = Expected(total.counters)
  BY <1>3, <1>4, NotesCounted, ExpectedCounted
<1> QED
  BY <1>1, <1>2, <1>9, <1>12, <1>13, <1>14, <1>18, <1>19

(***************************************************************************)
(* The STR of each kit says what the runs of its tests were: its overall   *)
(* status, its totals and its counts of expectations, for any number of    *)
(* tests, notes and statuses it can read.                                  *)
(***************************************************************************)
THEOREM KitReports == Spec => []ReportTruthful
<1>1. ASSUME IInv PROVE ReportTruthful
  <2> SUFFICES ASSUME Packed, "str" \in o.parts
               PROVE  LET report == zip.items["str"].report
                          total == report.summary.total
                          shown == Shown(zip.suite)
                      IN  /\ (report.summary.ovsta = "PASSED") = (FailedTests(zip.suite) = {})
                          /\ total.passed + total.xfail + total.failed = Cardinality(shown)
                          /\ total.failed = Cardinality(FailedTests(zip.suite))
                          /\ Notes(zip.suite, shown) = Expected(total.counters)
    BY Zenon DEF ReportTruthful, Shown, HiddenTest, FailedTests, Expected
  <2>1. TypeOK /\ Accepted /\ Prepared /\ PartsDone /\ Running /\ step = "next" /\ o.kitp
    BY <1>1 DEF IInv, Packed, Running
  <2>2. zip.suite = suite /\ zip.items = kits[format].items
    BY <2>1 DEF PartsDone, Packed
  <2>3. OwnPart("str", kits[format].items["str"])
    BY <2>1 DEF PartsDone
  <2>4. zip.suite = suite /\ zip.items["str"].report = QDreport(suite, o.dolevel)
    BY <2>2, <2>3 DEF OwnPart
  <2>5. QDreport(suite, o.dolevel) # NoReport
    BY <2>1 DEF Prepared, Localized, do
  <2>6. suite \in AllSuites
    BY <2>1 DEF TypeOK
  <2>7. ~LevelRefused(suite, o.dolevel) /\ ~CountersFail(suite)
    BY <2>5 DEF QDreport
  <2>8. suite.dolevel \in DOMAIN viocnt_columns_for
    BY <2>6, <2>7, SuitesAssumption DEF SuitesAssumption, LevelRefused, AllSuites
  <2>9. Reportable(suite)
    BY <2>6, <2>7, <2>8 DEF Reportable
  <2>10. PICK summary : summary = sumdata(suite)
    OBVIOUS
  <2>11. QDreport(suite, o.dolevel).summary = summary
    BY <2>5, <2>10 DEF QDreport
  <2> QED
    BY <2>4, <2>9, <2>10, <2>11, SummaryTruthful
<1> QED
  BY <1>1, Invariance, PTL
=============================================================================
