------------------------- MODULE TestWorkflow_proofs -------------------------
(***************************************************************************)
(* Proofs about one execution of a test script: it implements TestScript,  *)
(* passes only when all was checked, dumps its qualification data, and     *)
(* checks reports made from its own artifacts only, for any drivers,       *)
(* consolidation specs, sources, options and failures of the tools.        *)
(***************************************************************************)
EXTENDS TestWorkflow, FiniteSetTheorems, SequenceTheorems, TLAPS

-----------------------------------------------------------------------------
(* The objects and the levels *)

SpecType == [name : (DOMAIN Short) \ Range(Drivers), drivers : Seq(Range(Drivers))]

LEMMA DriversFacts ==
  /\ Len(Drivers) \in Nat \ {0} /\ DOMAIN Drivers = 1..Len(Drivers)
  /\ \A i \in 1..Len(Drivers) : Drivers[i] \in Range(Drivers) /\ Drivers[i] \in DOMAIN Short
  /\ \A d \in Range(Drivers) :
       d \in DOMAIN Short /\ \E i \in 1..Len(Drivers) : d = Drivers[i]
<1>1. Drivers \in Seq(DOMAIN Short) /\ Drivers # <<>>
  BY NamesAssumption DEF NamesAssumption
<1>2. /\ Len(Drivers) \in Nat \ {0} /\ DOMAIN Drivers = 1..Len(Drivers)
      /\ \A i \in 1..Len(Drivers) : Drivers[i] \in DOMAIN Short
  BY <1>1
<1> QED
  BY <1>2 DEF Range

LEMMA ConcatFacts ==
  ASSUME NEW S, NEW a \in Seq(S), NEW b \in Seq(S)
  PROVE  /\ a \o b \in Seq(S) /\ Len(a \o b) = Len(a) + Len(b)
         /\ Len(a) \in Nat /\ Len(b) \in Nat /\ DOMAIN (a \o b) = 1..(Len(a) + Len(b))
         /\ \A i \in 1..Len(a) : (a \o b)[i] = a[i]
         /\ \A i \in 1..(Len(a) + Len(b)) : i > Len(a) => (a \o b)[i] = b[i - Len(a)]
  OBVIOUS

\* The drivers come first, then the consolidation specs
LEMMA ObjectsFacts ==
  ASSUME opts \in Options
  PROVE  /\ Len(Objects) \in Nat \ {0} /\ Len(Objects) >= Len(Drivers)
         /\ DOMAIN Objects = 1..Len(Objects)
         /\ \A p \in 1..Len(Drivers) :
              Objects[p] = [name |-> Drivers[p], drivers |-> <<Drivers[p]>>]
         /\ \A p \in 1..Len(Objects) : p > Len(Drivers) => Objects[p] \in SpecType
         /\ \A p \in 1..Len(Objects) :
              /\ Objects[p].name \in DOMAIN Short
              /\ Objects[p].drivers \in Seq(Range(Drivers))
<1> DEFINE O == [name : DOMAIN Short, drivers : Seq(Range(Drivers))]
           D == [i \in DOMAIN Drivers |->
                    [name |-> Drivers[i], drivers |-> <<Drivers[i]>>]]
           n == Len(Drivers)
<1>1. n \in Nat \ {0} /\ DOMAIN Drivers = 1..n
  BY DriversFacts
<1>2. \A i \in 1..n : [name |-> Drivers[i], drivers |-> <<Drivers[i]>>] \in O
  BY DriversFacts
<1>3. D \in Seq(O) /\ Len(D) = n
  <2> HIDE DEF O
  <2> QED
    BY <1>1, <1>2
<1>4. opts.cspecs \in Seq(SpecType)
  BY OptionsAssumption DEF OptionsAssumption, SpecType
<1>5. \A x \in SpecType : x \in O
  BY DEF SpecType
<1>6. opts.cspecs \in Seq(O) /\ Len(opts.cspecs) \in Nat
  <2> HIDE DEF O
  <2> QED
    BY <1>4, <1>5
<1>7. Objects = D \o opts.cspecs
  BY DEF Objects
<1>8. \A i \in 1..n : D[i] = [name |-> Drivers[i], drivers |-> <<Drivers[i]>>]
  BY <1>1
<1>9. \A o \in O : o.name \in DOMAIN Short /\ o.drivers \in Seq(Range(Drivers))
  OBVIOUS
<1> HIDE DEF D, O, n
<1>a. /\ D \o opts.cspecs \in Seq(O) /\ Len(D \o opts.cspecs) = n + Len(opts.cspecs)
      /\ \A p \in 1..n : (D \o opts.cspecs)[p] = D[p]
      /\ \A p \in 1..(n + Len(opts.cspecs)) :
           p > n => (D \o opts.cspecs)[p] = opts.cspecs[p - n]
  BY <1>3, <1>6, ConcatFacts, Zenon
<1>10. /\ Objects \in Seq(O) /\ Len(Objects) = n + Len(opts.cspecs)
       /\ \A p \in 1..n : Objects[p] = D[p]
       /\ \A p \in 1..Len(Objects) : p > n => Objects[p] = opts.cspecs[p - n]
  BY <1>1, <1>6, <1>7, <1>a
<1>11. \A p \in 1..Len(Objects) : p > n => Objects[p] \in SpecType
  <2> SUFFICES ASSUME NEW p \in 1..Len(Objects), p > n PROVE Objects[p] \in SpecType
    OBVIOUS
  <2>1. p - n \in 1..Len(opts.cspecs)
    BY <1>1, <1>6, <1>10
  <2> QED
    BY <1>4, <1>10, <2>1
<1>12. \A p \in 1..Len(Objects) : Objects[p] \in O
  BY <1>10
<1>13. Len(Objects) \in Nat \ {0} /\ Len(Objects) >= n /\ DOMAIN Objects = 1..Len(Objects)
  BY <1>1, <1>6, <1>10
<1> QED
  BY <1>8, <1>9, <1>10, <1>11, <1>12, <1>13 DEF n

\* A category is covered at one or two different levels
LEMMA XcovlevelsFacts ==
  ASSUME opts \in Options
  PROVE  /\ Xcovlevels(opts) \in Seq(Levels) /\ Len(Xcovlevels(opts)) \in {1, 2}
         /\ DOMAIN Xcovlevels(opts) = 1..Len(Xcovlevels(opts))
         /\ \A i, j \in 1..Len(Xcovlevels(opts)) :
              Xcovlevels(opts)[i] = Xcovlevels(opts)[j] => i = j
<1>1. /\ opts.category \in {"none", "stmt", "decision", "mcdc"}
      /\ opts.xcov_level \in Levels \cup {""} /\ opts.qualif \in BOOLEAN
  BY OptionsAssumption DEF OptionsAssumption
<1>2. CASE opts.xcov_level # ""
  <2>1. Xcovlevels(opts) = <<opts.xcov_level>> /\ opts.xcov_level \in Levels
    BY <1>1, <1>2 DEF Xcovlevels
  <2> QED
    BY <2>1
<1>3. CASE opts.xcov_level = ""
  <2> DEFINE d == DefaultXcovlevels[opts.category]
  <2>a. Xcovlevels(opts) = IF opts.qualif THEN <<Head(d)>> ELSE d
    BY <1>3 DEF Xcovlevels
  <2>b. d \in {<<"stmt+mcdc">>, <<"stmt">>, <<"stmt+decision">>,
               <<"stmt+mcdc", "stmt+uc_mcdc">>}
    <3>1. /\ DefaultXcovlevels["none"] = <<"stmt+mcdc">>
          /\ DefaultXcovlevels["stmt"] = <<"stmt">>
          /\ DefaultXcovlevels["decision"] = <<"stmt+decision">>
          /\ DefaultXcovlevels["mcdc"] = <<"stmt+mcdc", "stmt+uc_mcdc">>
      BY DEF DefaultXcovlevels
    <3> QED
      BY <1>1, <3>1
  <2>1. \/ \E l \in Levels : Xcovlevels(opts) = <<l>>
        \/ Xcovlevels(opts) = <<"stmt+mcdc", "stmt+uc_mcdc">>
    <3> HIDE DEF d
    <3>1. CASE d \in {<<"stmt+mcdc">>, <<"stmt">>, <<"stmt+decision">>}
      <4>1. \E l \in Levels : d = <<l>>
        BY <3>1 DEF Levels
      <4>2. \E l \in Levels : d = <<l>> /\ Head(d) = l
        BY <4>1
      <4> QED
        BY <1>1, <2>a, <4>2
    <3>2. CASE d = <<"stmt+mcdc", "stmt+uc_mcdc">>
      <4>1. Head(d) = "stmt+mcdc" /\ "stmt+mcdc" \in Levels
        BY <3>2 DEF Levels
      <4> QED
        BY <1>1, <2>a, <3>2, <4>1
    <3> QED
      BY <2>b, <3>1, <3>2
  <2>2. CASE \E l \in Levels : Xcovlevels(opts) = <<l>>
    BY <2>2
  <2>3. CASE Xcovlevels(opts) = <<"stmt+mcdc", "stmt+uc_mcdc">>
    BY <2>3 DEF Levels
  <2> QED
    BY <2>1, <2>2, <2>3
<1> QED
  BY <1>2, <1>3

LEMMA WdbaseFacts ==
  /\ Range(WdbaseFor) = {"st_", "dc_", "mc_", "uc_"}
  /\ \A l \in Levels : WdbaseFor[l] \in Range(WdbaseFor)
  /\ \A k, l \in Levels : WdbaseFor[k] = WdbaseFor[l] => k = l
<1>1. /\ DOMAIN WdbaseFor = {"stmt", "stmt+decision", "stmt+mcdc", "stmt+uc_mcdc"}
      /\ WdbaseFor["stmt"] = "st_" /\ WdbaseFor["stmt+decision"] = "dc_"
      /\ WdbaseFor["stmt+mcdc"] = "mc_" /\ WdbaseFor["stmt+uc_mcdc"] = "uc_"
  BY DEF WdbaseFor, Levels
<1> QED
  BY <1>1 DEF Range, Levels

\* The object under way
LEMMA InHandFacts ==
  ASSUME ScriptTypeOK, levels # <<>>
  PROVE  /\ level \in Levels /\ level = levels[1]
         /\ pos \in 1..Len(Objects) /\ object = Objects[pos]
         /\ object.name \in DOMAIN Short /\ object.drivers \in Seq(Range(Drivers))
         /\ main \in DOMAIN Short
<1>1. levels \in Seq(Levels) /\ pos \in 1..Len(Objects) /\ opts \in Options
  BY DEF ScriptTypeOK
<1>2. level \in Levels /\ level = levels[1]
  BY <1>1 DEF level
<1>3. object = Objects[pos]
  BY DEF object
<1>4. object.name \in DOMAIN Short /\ object.drivers \in Seq(Range(Drivers))
  BY <1>1, <1>3, ObjectsFacts
<1>5. ASSUME singletest PROVE object.drivers[1] \in DOMAIN Short
  <2>1. object.drivers[1] \in Range(Drivers)
    BY <1>4, <1>5 DEF singletest
  <2> QED
    BY <2>1, DriversFacts
<1>6. main \in DOMAIN Short
  BY <1>4, <1>5 DEF main
<1> QED
  BY <1>1, <1>2, <1>3, <1>4, <1>6

-----------------------------------------------------------------------------
(* What a step of an object does to the script *)

\* It goes on: failures are only added
Advance ==
  /\ UnderWay /\ exit = "running"
  /\ step' \in {"instrument", "build", "run", "report", "xcov", "check"}
  /\ n_failed' \in Int /\ n_failed' >= n_failed /\ reported' \in Seq(Diags)
  /\ UNCHANGED <<place, out, exit, qdata, checked>>

\* It stops the test, or raises
Quit ==
  /\ step = "new" \/ UnderWay
  /\ exit = "running" /\ step' = "raised"
  /\ \/ UNCHANGED <<n_failed, out>>
     \/ n_failed' = n_failed + 1 /\ out' = Verdict(n_failed + 1)
  /\ UNCHANGED <<place, reported, exit, qdata, checked>>

LEMMA AdvanceInv ==
  ASSUME ScriptInv, Advance
  PROVE  ScriptInv'
<1>1. UnderWay' /\ ~Ending' /\ step # "new" /\ step' # "new"
  BY DEF Advance, UnderWay, Ending
<1>2. /\ opts' = opts /\ levels' = levels /\ pos' = pos /\ exit' = exit /\ out' = out
      /\ available_bdbase' = available_bdbase
      /\ entries' = entries /\ dumped' = dumped /\ checked' = checked
      /\ Objects' = Objects /\ object' = object /\ level' = level
  BY DEF Advance, place, qdata, Objects, object, level
<1>3. ScriptTypeOK'
  BY <1>2 DEF ScriptInv, ScriptTypeOK, Advance, Steps
<1>4. Counted'
  <2>1. step \notin {"raised", "match", "result", "end"} /\ n_failed \in Int
    BY DEF Advance, UnderWay, ScriptInv, ScriptTypeOK
  <2> QED
    BY <1>2, <2>1 DEF ScriptInv, Counted, Advance
<1>5. Recorded'
  BY <1>1, <1>2 DEF ScriptInv, Recorded, Advance
<1>6. LevelsLeft'
  BY <1>2 DEF ScriptInv, LevelsLeft
<1>7. CheckedSoFar'
  BY <1>1, <1>2 DEF ScriptInv, CheckedSoFar, CheckedBefore, Advance
<1> QED
  BY <1>3, <1>4, <1>5, <1>6, <1>7 DEF ScriptInv

LEMMA QuitInv ==
  ASSUME ScriptInv, Quit
  PROVE  ScriptInv'
<1>1. ~UnderWay' /\ ~Ending' /\ step' # "new"
  BY DEF Quit, UnderWay, Ending
<1>2. /\ opts' = opts /\ levels' = levels /\ pos' = pos /\ exit' = exit
      /\ available_bdbase' = available_bdbase /\ reported' = reported
      /\ entries' = entries /\ dumped' = dumped /\ checked' = checked
      /\ Objects' = Objects
  BY DEF Quit, place, qdata, Objects
<1>3. step \notin {"raised", "match", "result", "end"} /\ n_failed \in Int
  BY DEF Quit, UnderWay, ScriptInv, ScriptTypeOK
<1>4. out = "open" /\ n_failed >= 0
  BY <1>3 DEF ScriptInv, Counted, ScriptTypeOK
<1>5. \/ out' = "open" /\ n_failed' = n_failed
      \/ out' = "FAILED" /\ n_failed' = n_failed + 1
  BY <1>3, <1>4 DEF Quit, Verdict
<1>6. ScriptTypeOK'
  BY <1>2, <1>3, <1>5 DEF ScriptInv, ScriptTypeOK, Quit, Steps
<1>7. Counted'
  BY <1>2, <1>3, <1>4, <1>5 DEF ScriptInv, Counted, Quit
<1>8. Recorded'
  BY <1>1, <1>2 DEF ScriptInv, Recorded, Quit
<1>9. LevelsLeft'
  BY <1>2 DEF ScriptInv, LevelsLeft
<1>10. CheckedSoFar'
  BY <1>1, <1>2 DEF ScriptInv, CheckedSoFar, CheckedBefore
<1> QED
  BY <1>6, <1>7, <1>8, <1>9, <1>10 DEF ScriptInv

LEMMA XcovFailuresType == XcovFailures \subseteq Nat /\ PrintingXcovFailures \subseteq Nat
  BY DEF XcovFailures, PrintingXcovFailures

LEMMA ContinueAdvances ==
  ASSUME ScriptTypeOK, NEW n \in Nat, NEW diags \in Seq(Diags), NEW next,
         Continue(n, diags, next)
  PROVE  /\ step' = next /\ n_failed' \in Int /\ n_failed' >= n_failed
         /\ reported' \in Seq(Diags) /\ UNCHANGED <<out, exit>>
         /\ n_failed' = n_failed + n + Len(diags) /\ Len(diags) \in Nat
<1>1. n_failed \in Int /\ reported \in Seq(Diags)
  BY DEF ScriptTypeOK
<1>2. Len(diags) \in Nat /\ n_failed' = n_failed + n + Len(diags)
  BY DEF Continue, Failed
<1>3. reported' \in Seq(Diags)
  BY <1>1 DEF Continue, Failed
<1> QED
  BY <1>1, <1>2, <1>3 DEF Continue

LEMMA StopQuits ==
  ASSUME Stop, step = "new" \/ UnderWay, exit = "running"
  PROVE  Quit
  BY DEF Stop, Raise, Quit, place, verdict, qdata

\* The actions on the directories
LEMMA MovesAdvance ==
  ASSUME ScriptTypeOK,
         ToWorkdir \/ Instrument \/ Build \/ RunTest \/ GenReport \/ GenXcov
  PROVE  Advance \/ Quit
<1>0. ScriptTypeOK /\ <<>> \in Seq(Diags) /\ <<"exception">> \in Seq(Diags)
  BY DEF Diags
<1>1. CASE ToWorkdir
  <2>1. At("workdir") /\ UNCHANGED <<place, builds, verdict, exit, qdata, checked>>
    BY <1>1 DEF ToWorkdir
  <2>2. step' \in {"report", "run", "instrument", "build"}
    BY <1>1, Zenon DEF ToWorkdir
  <2> QED
    BY <2>1, <2>2 DEF At, Advance, UnderWay, ScriptTypeOK, verdict
<1>2. CASE Instrument
  <2>0. step = "instrument" /\ exit = "running"
    BY <1>2 DEF Instrument, At
  <2>1. CASE Stop
    BY <2>0, <2>1, StopQuits DEF UnderWay
  <2>2. CASE Raise /\ UNCHANGED <<place, disk, verdict, exit, qdata, checked>>
    BY <2>0, <2>2 DEF UnderWay, Quit, Raise, verdict
  <2>3. ASSUME NEW n \in PrintingXcovFailures, Continue(n, <<>>, "build"),
               UNCHANGED <<place, builds, qdata, checked>>
        PROVE  Advance
    <3>1. n \in Nat
      BY XcovFailuresType
    <3> QED
      BY <1>0, <2>0, <2>3, <3>1, ContinueAdvances DEF Advance, UnderWay
  <2> QED
    BY <1>2, <2>1, <2>2, <2>3 DEF Instrument
<1>3. CASE Build
  <2>0. step = "build" /\ exit = "running"
    BY <1>3 DEF Build, At
  <2>1. CASE Stop
    BY <2>0, <2>1, StopQuits DEF UnderWay
  <2>2. CASE step' = "run" /\ UNCHANGED <<place, verdict, exit, qdata, checked>>
    BY <2>0, <2>2 DEF UnderWay, Advance, verdict, ScriptTypeOK
  <2> QED
    BY <1>3, <2>1, <2>2 DEF Build
<1>4. CASE RunTest
  <2>0. step = "run" /\ exit = "running"
    BY <1>4 DEF RunTest, At
  <2>1. CASE Stop
    BY <2>0, <2>1, StopQuits DEF UnderWay
  <2>3. ASSUME NEW n \in ExecutionFailures, NEW d \in {<<>>, <<"exception">>},
               Continue(n, d, "report"), UNCHANGED <<place, builds, qdata, checked>>
        PROVE  Advance
    <3>1. n \in Nat /\ d \in Seq(Diags)
      <4>1. ExecutionFailures \subseteq Nat
        BY XcovFailuresType DEF ExecutionFailures
      <4> QED
        BY <1>0, <4>1
    <3> QED
      BY <1>0, <2>0, <2>3, <3>1, ContinueAdvances DEF Advance, UnderWay
  <2>4. Stop \/ \E n \in ExecutionFailures, d \in {<<>>, <<"exception">>} :
           Continue(n, d, "report") /\ UNCHANGED <<place, builds, qdata, checked>>
    BY <1>4, Zenon DEF RunTest
  <2> QED
    BY <2>1, <2>3, <2>4
<1>5. CASE GenReport
  <2>0. step = "report" /\ exit = "running"
    BY <1>5 DEF GenReport, At
  <2>1. CASE Stop
    BY <2>0, <2>1, StopQuits DEF UnderWay
  <2>3. ASSUME NEW n \in PrintingXcovFailures, NEW next \in {"check", "xcov"},
               Continue(n, <<>>, next), UNCHANGED <<place, builds, qdata, checked>>
        PROVE  Advance
    <3>1. n \in Nat
      BY XcovFailuresType
    <3> QED
      BY <1>0, <2>0, <2>3, <3>1, ContinueAdvances DEF Advance, UnderWay
  <2>4. Stop \/ \E n \in PrintingXcovFailures, next \in {"check", "xcov"} :
           Continue(n, <<>>, next) /\ UNCHANGED <<place, builds, qdata, checked>>
    BY <1>5, Zenon DEF GenReport
  <2> QED
    BY <2>1, <2>3, <2>4
<1>6. CASE GenXcov
  <2>0. step = "xcov" /\ exit = "running"
    BY <1>6 DEF GenXcov, At
  <2>1. CASE Stop
    BY <2>0, <2>1, StopQuits DEF UnderWay
  <2>3. ASSUME NEW n \in PrintingXcovFailures, Continue(n, <<>>, "check"),
               UNCHANGED <<place, disk, qdata, checked>>
        PROVE  Advance
    <3>1. n \in Nat
      BY XcovFailuresType
    <3> QED
      BY <1>0, <2>0, <2>3, <3>1, ContinueAdvances DEF Advance, UnderWay
  <2> QED
    BY <1>6, <2>1, <2>3 DEF GenXcov
<1> QED
  BY <1>1, <1>2, <1>3, <1>4, <1>5, <1>6

LEMMA NewInv ==
  ASSUME ScriptInv, New
  PROVE  ScriptInv'
<1>0. step = "new" /\ exit = "running" /\ levels # <<>> /\ ScriptTypeOK
  BY DEF New, At, ScriptInv
<1>1. CASE Stop
  BY <1>0, <1>1, StopQuits, QuitInv
<1>2. CASE Raise /\ UNCHANGED <<place, disk, verdict, exit, qdata, checked>>
  <2>1. Quit
    BY <1>0, <1>2 DEF Raise, Quit, verdict
  <2> QED
    BY <2>1, QuitInv
<1>3. ASSUME NEW none \in {0, 2}, Continue(none, <<>>, "workdir"),
             entries' = Append(entries, <<level, object.name>>),
             UNCHANGED <<place, disk, dumped, checked>>
      PROVE  ScriptInv'
  <2>1. <<>> \in Seq(Diags) /\ none \in Nat
    OBVIOUS
  <2>2. /\ step' = "workdir" /\ n_failed' \in Int /\ n_failed' >= n_failed
        /\ reported' \in Seq(Diags) /\ out' = out /\ exit' = exit
    BY <1>0, <1>3, <2>1, ContinueAdvances
  <2>3. /\ opts' = opts /\ levels' = levels /\ pos' = pos
        /\ available_bdbase' = available_bdbase
        /\ dumped' = dumped /\ checked' = checked
        /\ Objects' = Objects /\ object' = object /\ level' = level
    BY <1>3 DEF place, Objects, object, level
  <2>4. UnderWay' /\ ~Ending'
    BY <2>2 DEF UnderWay, Ending
  <2>5. <<level, object.name>> \in Levels \X DOMAIN Short
    BY <1>0, InHandFacts
  <2>6. entries \in Seq(Levels \X DOMAIN Short)
    BY <1>0 DEF ScriptTypeOK
  <2>7. /\ entries' \in Seq(Levels \X DOMAIN Short)
        /\ \A e \in Range(entries) : e \in Range(entries')
        /\ <<level, object.name>> \in Range(entries')
    <3> DEFINE e == <<level, object.name>>
               T == Levels \X DOMAIN Short
    <3>1. entries' = Append(entries, e) /\ e \in T /\ entries \in Seq(T)
      BY <1>3, <2>5, <2>6
    <3> HIDE DEF e, T
    <3>2. /\ entries' \in Seq(T) /\ Len(entries') = Len(entries) + 1
          /\ Len(entries) \in Nat
          /\ \A i \in 1..Len(entries) : entries'[i] = entries[i]
          /\ entries'[Len(entries) + 1] = e
      BY <3>1
    <3>3. DOMAIN entries = 1..Len(entries) /\ DOMAIN entries' = 1..(Len(entries) + 1)
      BY <3>1, <3>2
    <3>4. e \in Range(entries') /\ \A x \in Range(entries) : x \in Range(entries')
      BY <3>2, <3>3 DEF Range
    <3> QED
      BY <3>2, <3>4 DEF e, T
  <2>8. ScriptTypeOK'
    BY <1>0, <2>2, <2>3, <2>7 DEF ScriptTypeOK, Steps
  <2>9. Counted'
    BY <1>0, <2>2, <2>3 DEF ScriptInv, Counted, ScriptTypeOK
  <2>10. Recorded'
    BY <1>0, <2>2, <2>3, <2>4, <2>7 DEF ScriptInv, Recorded
  <2>11. LevelsLeft'
    BY <2>3 DEF ScriptInv, LevelsLeft
  <2>12. CheckedSoFar'
    BY <1>0, <2>3, <2>4 DEF ScriptInv, CheckedSoFar, CheckedBefore
  <2> QED
    BY <2>8, <2>9, <2>10, <2>11, <2>12 DEF ScriptInv
<1> QED
  BY <1>1, <1>2, <1>3 DEF New

LEMMA CheckFailuresType ==
  ASSUME NEW f \in CheckFailures
  PROVE  f.n \in Nat /\ f.diags \in Seq(Diags)
<1>1. \/ f = [n |-> 0, diags |-> <<>>] \/ f = [n |-> 0, diags |-> <<"check">>]
      \/ f = [n |-> 0, diags |-> <<"check", "check2">>] \/ f = [n |-> 1, diags |-> <<>>]
  BY DEF CheckFailures
<1>2. f.n \in Nat /\ f.diags \in {<<>>, <<"check">>, <<"check", "check2">>}
  BY <1>1
<1>3. "check" \in Diags /\ "check2" \in Diags
  BY DEF Diags
<1>4. <<>> \in Seq(Diags) /\ <<"check">> \in Seq(Diags)
  BY <1>3
<1>5. <<"check", "check2">> \in Seq(Diags)
  BY <1>3
<1> QED
  BY <1>2, <1>4, <1>5

LEMMA CheckExpectationsInv ==
  ASSUME ScriptInv, CheckExpectations
  PROVE  ScriptInv'
<1>0. step = "check" /\ exit = "running" /\ UnderWay /\ ScriptTypeOK
  BY DEF CheckExpectations, At, ScriptInv, UnderWay
<1>1. CASE Stop
  BY <1>0, <1>1, StopQuits, QuitInv
<1>2. CASE Raise /\ UNCHANGED <<place, disk, verdict, exit, qdata, checked>>
  <2>1. Quit
    BY <1>0, <1>2 DEF Raise, Quit, verdict
  <2> QED
    BY <2>1, QuitInv
<1>3. ASSUME NEW f \in CheckFailures, Continue(f.n, f.diags, "new"),
             checked' = checked \cup
               {Check(level, object, files[awdir].rep[1], f.n = 0 /\ f.diags = <<>>)},
             NextObject, UNCHANGED <<disk, qdata>>
      PROVE  ScriptInv'
  <2> DEFINE c0 == Check(level, object, files[awdir].rep[1], f.n = 0 /\ f.diags = <<>>)
             all == Xcovlevels(opts)
             done == Len(all) - Len(levels)
  <2>1. f.n \in Nat /\ f.diags \in Seq(Diags)
    BY CheckFailuresType
  <2>2. /\ step' = "new" /\ n_failed' \in Int /\ n_failed' >= n_failed
        /\ reported' \in Seq(Diags) /\ out' = out /\ exit' = exit
        /\ n_failed' = n_failed + f.n + Len(f.diags) /\ Len(f.diags) \in Nat
    BY <1>0, <1>3, <2>1, ContinueAdvances
  <2>3. /\ c0.level = level /\ c0.name = object.name /\ c0.drivers = Range(object.drivers)
        /\ c0.clean = (f.n = 0 /\ f.diags = <<>>)
    BY DEF Check
  <2>4. checked' = checked \cup {c0}
    BY <1>3
  <2>5. opts' = opts /\ Objects' = Objects /\ entries' = entries /\ dumped' = dumped
    BY <1>3 DEF NextObject, qdata, Objects
  <2>6. /\ levels # <<>> /\ levels \in Seq(Levels) /\ level = levels[1]
        /\ Len(levels) \in Nat \ {0}
        /\ pos \in 1..Len(Objects) /\ object = Objects[pos]
    BY <1>0, InHandFacts DEF ScriptInv, ScriptTypeOK, CheckedSoFar
  <2>7. Len(Objects) \in Nat \ {0} /\ DOMAIN Objects = 1..Len(Objects)
    BY <1>0, ObjectsFacts DEF ScriptTypeOK
  <2>8. /\ Len(all) \in Nat /\ done \in Nat /\ DOMAIN all = 1..Len(all)
        /\ \A k \in 1..Len(levels) : levels[k] = all[done + k]
    <3>1. Len(all) \in Nat /\ DOMAIN all = 1..Len(all)
      BY <1>0, XcovlevelsFacts DEF ScriptTypeOK
    <3> QED
      BY <2>6, <3>1 DEF ScriptInv, LevelsLeft
  <2>9. level = all[done + 1]
    BY <2>6, <2>8
  <2>10. ~UnderWay' /\ ~Ending'
    BY <2>2 DEF UnderWay, Ending
  <2> HIDE DEF c0
  <2>11. /\ pos = Len(Objects) => pos' = 1 /\ levels' = Tail(levels)
         /\ pos # Len(Objects) => pos' = pos + 1 /\ levels' = levels
         /\ available_bdbase' \in {available_bdbase, WdbaseFor[level]}
    BY <1>3 DEF NextObject
  <2>12. ASSUME pos = Len(Objects)
         PROVE  /\ LevelsLeft' /\ levels' \in Seq(Levels) /\ pos' \in 1..Len(Objects)
                /\ \A l \in DOMAIN all, p \in DOMAIN Objects :
                     CheckedBefore(l, p)' => CheckedBefore(l, p) \/ (l = done + 1 /\ p = pos)
    <3>1. /\ levels' \in Seq(Levels) /\ Len(levels') = Len(levels) - 1
          /\ \A k \in 1..(Len(levels) - 1) : levels'[k] = levels[k + 1]
      BY <2>6, <2>11, <2>12
    <3>2. Len(Xcovlevels(opts')) - Len(levels') = done + 1
      BY <2>5, <2>6, <2>8, <3>1
    <3>3. LevelsLeft'
      <4>1. ASSUME NEW k \in 1..Len(levels')
            PROVE  levels'[k] = all[done + 1 + k]
        <5>1. k + 1 \in 1..Len(levels) /\ levels'[k] = levels[k + 1]
          BY <2>6, <3>1
        <5>2. done + (k + 1) = done + 1 + k
          BY <2>8
        <5> QED
          BY <2>8, <5>1, <5>2
      <4> QED
        <5>1. done + 1 >= 0
          BY <2>8
        <5>2. opts' = opts
          BY <2>5
        <5> QED
          BY <3>2, <4>1, <5>1, <5>2, Zenon DEF LevelsLeft
    <3>4. ASSUME NEW l \in DOMAIN all, NEW p \in DOMAIN Objects, CheckedBefore(l, p)'
          PROVE  CheckedBefore(l, p) \/ (l = done + 1 /\ p = pos)
      <4>1. l <= done + 1
        <5>1. ~(p < pos')
          BY <2>7, <2>11, <2>12
        <5> QED
          BY <3>2, <3>4, <5>1 DEF CheckedBefore
      <4>2. p < pos \/ p = pos
        BY <2>7, <2>12
      <4> QED
        BY <2>6, <2>8, <4>1, <4>2 DEF CheckedBefore
    <3> QED
      BY <2>7, <2>11, <2>12, <3>1, <3>3, <3>4
  <2>13. ASSUME pos # Len(Objects)
         PROVE  /\ LevelsLeft' /\ levels' \in Seq(Levels) /\ pos' \in 1..Len(Objects)
                /\ \A l \in DOMAIN all, p \in DOMAIN Objects :
                     CheckedBefore(l, p)' => CheckedBefore(l, p) \/ (l = done + 1 /\ p = pos)
    <3>1. LevelsLeft'
      BY <2>5, <2>11, <2>13 DEF ScriptInv, LevelsLeft
    <3>2. ASSUME NEW l \in DOMAIN all, NEW p \in DOMAIN Objects, CheckedBefore(l, p)'
          PROVE  CheckedBefore(l, p) \/ (l = done + 1 /\ p = pos)
      <4>1. opts' = opts /\ levels' = levels /\ pos' = pos + 1
        BY <2>5, <2>11, <2>13
      <4>2. l <= done \/ (l = done + 1 /\ p < pos + 1 /\ levels # <<>>)
        BY <3>2, <4>1 DEF CheckedBefore
      <4>3. pos \in Nat /\ p \in Nat
        BY <2>6, <2>7
      <4>4. p < pos + 1 => p < pos \/ p = pos
        BY <4>3
      <4> QED
        BY <4>2, <4>4 DEF CheckedBefore
    <3>3. pos' \in 1..Len(Objects)
      <4> DEFINE n == Len(Objects)
      <4>1. n \in Nat /\ pos \in 1..n /\ pos # n /\ pos' = pos + 1
        BY <2>6, <2>7, <2>11, <2>13
      <4> HIDE DEF n
      <4>2. pos' \in 1..n
        BY <4>1
      <4> QED
        BY <4>2 DEF n
    <3> QED
      BY <2>6, <2>11, <2>13, <3>1, <3>2, <3>3
  <2>14. /\ LevelsLeft' /\ levels' \in Seq(Levels) /\ pos' \in 1..Len(Objects)
         /\ \A l \in DOMAIN all, p \in DOMAIN Objects :
              CheckedBefore(l, p)' => CheckedBefore(l, p) \/ (l = done + 1 /\ p = pos)
    BY <2>12, <2>13, Zenon
  <2>15. ScriptTypeOK'
    <3>1. available_bdbase' \in Range(WdbaseFor) \cup {NoBase}
      <4>1. level \in Levels
        BY <1>0, <2>6, InHandFacts
      <4> QED
        BY <1>0, <2>11, <4>1, WdbaseFacts DEF ScriptTypeOK
    <3> QED
      BY <1>0, <2>2, <2>5, <2>14, <3>1 DEF ScriptTypeOK, Steps
  <2>16. Counted'
    <3>1. Counted /\ n_failed \in Int /\ out = "open" /\ n_failed >= 0
      BY <1>0 DEF ScriptInv, Counted, ScriptTypeOK
    <3>2. ASSUME opts.expected_diags = <<>>, n_failed' = 0
          PROVE  \A c \in checked' : c.clean
      <4>1. n_failed = 0 /\ f.n = 0 /\ Len(f.diags) = 0
        BY <2>1, <2>2, <3>1, <3>2
      <4>2. f.diags = <<>>
        BY <2>1, <4>1
      <4>3. c0.clean
        BY <2>3, <4>1, <4>2
      <4>4. \A c \in checked : c.clean
        BY <3>1, <3>2, <4>1 DEF Counted
      <4> QED
        BY <2>4, <4>3, <4>4
    <3>3. n_failed' >= 0
      BY <2>2, <3>1
    <3>4. step' = "new" /\ out' = "open" /\ opts' = opts
      BY <2>2, <2>5, <3>1
    <3> QED
      BY <3>2, <3>3, <3>4 DEF Counted
  <2>17. Recorded'
    <3>1. <<c0.level, c0.name>> \in Range(entries)
      BY <1>0, <2>3 DEF ScriptInv, Recorded
    <3>2. \A c \in checked' : <<c.level, c.name>> \in Range(entries)
      BY <2>4, <3>1 DEF ScriptInv, Recorded
    <3> QED
      BY <1>0, <2>2, <2>5, <2>10, <3>2 DEF Recorded
  <2>18. CheckedSoFar'
    <3>1. ASSUME NEW l \in DOMAIN all, NEW p \in DOMAIN Objects, CheckedBefore(l, p)'
          PROVE  \E c \in checked' :
                    /\ c.level = all[l] /\ c.name = Objects[p].name
                    /\ c.drivers = Range(Objects[p].drivers)
      <4>1. CASE CheckedBefore(l, p)
        BY <2>4, <4>1 DEF ScriptInv, CheckedSoFar
      <4>2. CASE l = done + 1 /\ p = pos
        BY <2>3, <2>4, <2>6, <2>9, <4>2
      <4> QED
        BY <2>14, <3>1, <4>1, <4>2
    <3> QED
      BY <2>5, <2>10, <3>1 DEF CheckedSoFar
  <2> QED
    BY <2>14, <2>15, <2>16, <2>17, <2>18 DEF ScriptInv
<1> QED
  BY <1>1, <1>2, <1>3 DEF CheckExpectations

\* The steps past the objects leave the place and the checks as they are
PastObjects ==
  /\ ~UnderWay' /\ UNCHANGED <<place, entries, checked>>
  /\ Ending' => levels = <<>>
  /\ opts.qualif /\ (Ending' \/ exit' = "error") => dumped' = <<entries>>
  /\ exit' = "ok" => step' = "end"

LEMMA PastObjectsInv ==
  ASSUME ScriptInv, PastObjects
  PROVE  Recorded' /\ LevelsLeft' /\ CheckedSoFar' /\ opts' = opts /\ checked' = checked
<1>1. /\ opts' = opts /\ levels' = levels /\ pos' = pos
      /\ entries' = entries /\ checked' = checked /\ Objects' = Objects
  BY DEF PastObjects, place, Objects
<1>2. Recorded'
  BY <1>1 DEF PastObjects, ScriptInv, Recorded
<1>3. LevelsLeft'
  BY <1>1 DEF ScriptInv, LevelsLeft
<1>4. CheckedSoFar'
  BY <1>1 DEF PastObjects, ScriptInv, CheckedSoFar, CheckedBefore
<1> QED
  BY <1>1, <1>2, <1>3, <1>4

LEMMA EndRunInv ==
  ASSUME ScriptInv, EndRun
  PROVE  ScriptInv'
<1>1. /\ step = "new" /\ exit = "running" /\ levels = <<>>
      /\ dumped' = IF opts.qualif THEN <<entries>> ELSE dumped
      /\ step' = IF opts.expected_diags # <<>> THEN "match" ELSE "result"
      /\ UNCHANGED <<place, disk, verdict, exit, entries, checked>>
  BY DEF EndRun, At, Flushed
<1>2. PastObjects
  BY <1>1 DEF PastObjects, UnderWay, Ending
<1>3. Recorded' /\ LevelsLeft' /\ CheckedSoFar' /\ opts' = opts
  BY <1>2, PastObjectsInv
<1>4. ScriptTypeOK'
  BY <1>1 DEF ScriptInv, ScriptTypeOK, Steps, place, verdict, Objects
<1>5. Counted'
  BY <1>1, <1>3 DEF ScriptInv, ScriptTypeOK, Counted, verdict
<1> QED
  BY <1>3, <1>4, <1>5 DEF ScriptInv

LEMMA EndInErrorInv ==
  ASSUME ScriptInv, EndInError
  PROVE  ScriptInv'
<1>1. /\ step = "raised" /\ exit = "running" /\ exit' = "error" /\ step' = step
      /\ dumped' = IF opts.qualif THEN <<entries>> ELSE dumped
      /\ UNCHANGED <<place, disk, verdict, entries, checked>>
  BY DEF EndInError, At, Flushed
<1>2. PastObjects
  BY <1>1 DEF PastObjects, UnderWay, Ending
<1>3. Recorded' /\ LevelsLeft' /\ CheckedSoFar' /\ opts' = opts
  BY <1>2, PastObjectsInv
<1>4. ScriptTypeOK'
  BY <1>1 DEF ScriptInv, ScriptTypeOK, place, verdict, Objects
<1>5. Counted'
  BY <1>1, <1>3 DEF ScriptInv, Counted, verdict
<1> QED
  BY <1>3, <1>4, <1>5 DEF ScriptInv

\* Expected failures are finitely many, what is left of the count a number
LEMMA MatchDiagsType ==
  ASSUME ScriptTypeOK, MatchDiags
  PROVE  n_failed' \in Int
<1> DEFINE hits == CountMatchOn(reported)
           R == DOMAIN reported
           E == DOMAIN opts.expected_diags
           unmet == {j \in E : Cardinality({h \in hits : h[2] = j}) # 1}
           unexpected == {i \in R : Cardinality({h \in hits : h[1] = i}) # 1}
<1>1. IsFiniteSet(R) /\ IsFiniteSet(E)
  <2>1. reported \in Seq(Diags) /\ opts.expected_diags \in Seq(SUBSET Diags)
    BY OptionsAssumption DEF ScriptTypeOK, OptionsAssumption
  <2>2. /\ R = 1..Len(reported) /\ E = 1..Len(opts.expected_diags)
        /\ Len(reported) \in Int /\ Len(opts.expected_diags) \in Int /\ 1 \in Int
    BY <2>1
  <2> HIDE DEF R, E
  <2> QED
    BY <2>2, FS_Interval
<1>2. IsFiniteSet(R \X E)
  BY <1>1, FS_Product
<1>3. hits \subseteq R \X E /\ unmet \subseteq E /\ unexpected \subseteq R
  BY DEF CountMatchOn
<1>4. IsFiniteSet(hits) /\ IsFiniteSet(unmet) /\ IsFiniteSet(unexpected)
  <2> HIDE DEF hits, unmet, unexpected, R, E
  <2> QED
    BY <1>1, <1>2, <1>3, FS_Subset
<1>5. /\ Cardinality(hits) \in Nat /\ Cardinality(unmet) \in Nat
      /\ Cardinality(unexpected) \in Nat
  <2> HIDE DEF hits, unmet, unexpected, R, E
  <2> QED
    BY <1>4, FS_CardinalityType
<1>6. n_failed' = n_failed - Cardinality(hits) + Cardinality(unmet) + Cardinality(unexpected)
  BY DEF MatchDiags
<1>7. n_failed \in Int
  BY DEF ScriptTypeOK
<1> HIDE DEF hits, unmet, unexpected, R, E
<1> QED
  BY <1>5, <1>6, <1>7

LEMMA MatchDiagsInv ==
  ASSUME ScriptInv, MatchDiags
  PROVE  ScriptInv'
<1>1. /\ step = "match" /\ exit = "running" /\ step' = "result"
      /\ UNCHANGED <<place, disk, reported, out, exit, qdata, checked>>
  BY DEF MatchDiags, At
<1>2. PastObjects
  BY <1>1 DEF PastObjects, UnderWay, Ending, qdata, ScriptInv, Recorded, CheckedSoFar
<1>3. Recorded' /\ LevelsLeft' /\ CheckedSoFar' /\ opts' = opts
  BY <1>2, PastObjectsInv
<1>4. n_failed' \in Int
  BY MatchDiagsType DEF ScriptInv
<1>5. ScriptTypeOK'
  BY <1>1, <1>4 DEF ScriptInv, ScriptTypeOK, Steps, place, qdata, Objects
<1>6. Counted'
  BY <1>1, <1>3 DEF ScriptInv, Counted
<1> QED
  BY <1>3, <1>5, <1>6 DEF ScriptInv

LEMMA ResultInv ==
  ASSUME ScriptInv, Result
  PROVE  ScriptInv'
<1>1. /\ step = "result" /\ exit = "running" /\ step' = "end" /\ out' = Verdict(n_failed)
      /\ UNCHANGED <<place, disk, n_failed, reported, exit, qdata, checked>>
  BY DEF Result, At
<1>2. PastObjects
  BY <1>1 DEF PastObjects, UnderWay, Ending, qdata, ScriptInv, Recorded, CheckedSoFar
<1>3. Recorded' /\ LevelsLeft' /\ CheckedSoFar' /\ opts' = opts
  BY <1>2, PastObjectsInv
<1>4. ScriptTypeOK'
  BY <1>1 DEF ScriptInv, ScriptTypeOK, Steps, Verdict, place, qdata, Objects
<1>5. Counted'
  BY <1>1, <1>3 DEF ScriptInv, Counted, Verdict
<1> QED
  BY <1>3, <1>4, <1>5 DEF ScriptInv

\* The end of the process changes nothing else
LEMMA LeaveInv ==
  ASSUME ScriptInv, exit' \in {"ok", "killed"}, exit' = "ok" => step = "end",
         UNCHANGED <<place, step, disk, verdict, qdata, checked>>
  PROVE  ScriptInv'
<1>1. /\ opts' = opts /\ levels' = levels /\ pos' = pos
      /\ available_bdbase' = available_bdbase /\ step' = step
      /\ n_failed' = n_failed /\ reported' = reported /\ out' = out
      /\ entries' = entries /\ dumped' = dumped /\ checked' = checked
      /\ Objects' = Objects /\ object' = object /\ level' = level
  BY DEF place, verdict, qdata, Objects, object, level
<1>2. (UnderWay' <=> UnderWay) /\ (Ending' <=> Ending)
  BY <1>1 DEF UnderWay, Ending
<1>3. ScriptTypeOK'
  BY <1>1 DEF ScriptInv, ScriptTypeOK
<1>4. Counted'
  BY <1>1 DEF ScriptInv, Counted
<1>5. Recorded'
  BY <1>1, <1>2 DEF ScriptInv, Recorded
<1>6. LevelsLeft'
  BY <1>1 DEF ScriptInv, LevelsLeft
<1>7. CheckedSoFar'
  BY <1>1, <1>2 DEF ScriptInv, CheckedSoFar, CheckedBefore
<1> QED
  BY <1>3, <1>4, <1>5, <1>6, <1>7 DEF ScriptInv

LEMMA StutterInv ==
  ASSUME ScriptInv, UNCHANGED vars
  PROVE  ScriptInv'
<1>1. /\ opts' = opts /\ levels' = levels /\ pos' = pos
      /\ available_bdbase' = available_bdbase /\ step' = step /\ exit' = exit
      /\ n_failed' = n_failed /\ reported' = reported /\ out' = out
      /\ entries' = entries /\ dumped' = dumped /\ checked' = checked
      /\ Objects' = Objects /\ object' = object /\ level' = level
  BY DEF vars, place, verdict, qdata, Objects, object, level
<1>2. (UnderWay' <=> UnderWay) /\ (Ending' <=> Ending)
  BY <1>1 DEF UnderWay, Ending
<1>3. ScriptTypeOK'
  BY <1>1 DEF ScriptInv, ScriptTypeOK
<1>4. Counted' /\ LevelsLeft'
  BY <1>1 DEF ScriptInv, Counted, LevelsLeft
<1>5. Recorded'
  BY <1>1, <1>2 DEF ScriptInv, Recorded
<1>6. CheckedSoFar'
  BY <1>1, <1>2 DEF ScriptInv, CheckedSoFar, CheckedBefore
<1> QED
  BY <1>3, <1>4, <1>5, <1>6 DEF ScriptInv

LEMMA ScriptInit ==
  ASSUME Init
  PROVE  ScriptInv
<1>1. /\ opts \in Options
      /\ levels = Xcovlevels(opts) /\ pos = 1 /\ step = "new"
      /\ available_bdbase = NoBase
      /\ n_failed = 0 /\ reported = <<>> /\ out = "open" /\ exit = "running"
      /\ entries = <<>> /\ dumped = <<>> /\ checked = {}
  BY DEF Init
<1>2. ~UnderWay /\ ~Ending
  BY <1>1 DEF UnderWay, Ending
<1>3. /\ levels \in Seq(Levels) /\ Len(levels) \in Nat /\ Len(Objects) \in Nat \ {0}
      /\ DOMAIN Objects = 1..Len(Objects) /\ DOMAIN Xcovlevels(opts) = 1..Len(levels)
  BY <1>1, XcovlevelsFacts, ObjectsFacts
<1>4. ScriptTypeOK
  BY <1>1, <1>3 DEF ScriptTypeOK, Steps
<1>5. Counted
  BY <1>1 DEF Counted
<1>6. Recorded
  BY <1>1, <1>2 DEF Recorded
<1>7. LevelsLeft
  BY <1>1, <1>3 DEF LevelsLeft
<1>8. CheckedSoFar
  <2>1. ASSUME NEW l \in DOMAIN Xcovlevels(opts), NEW p \in DOMAIN Objects
        PROVE  ~CheckedBefore(l, p)
    BY <1>1, <1>3 DEF CheckedBefore
  <2> QED
    BY <1>2, <2>1 DEF CheckedSoFar
<1> QED
  BY <1>4, <1>5, <1>6, <1>7, <1>8 DEF ScriptInv

LEMMA ScriptStep ==
  ASSUME ScriptInv, [Next]_vars
  PROVE  ScriptInv'
<1>1. CASE New
  BY <1>1, NewInv
<1>2. CASE ToWorkdir \/ Instrument \/ Build \/ RunTest \/ GenReport \/ GenXcov
  <2>1. Advance \/ Quit
    BY <1>2, MovesAdvance DEF ScriptInv
  <2> QED
    BY <2>1, AdvanceInv, QuitInv
<1>3. CASE CheckExpectations
  BY <1>3, CheckExpectationsInv
<1>4. CASE EndRun
  BY <1>4, EndRunInv
<1>5. CASE EndInError
  BY <1>5, EndInErrorInv
<1>6. CASE MatchDiags
  BY <1>6, MatchDiagsInv
<1>7. CASE Result
  BY <1>7, ResultInv
<1>8. CASE Exit \/ TimeOut
  BY <1>8, LeaveInv DEF Exit, TimeOut, At
<1>9. CASE UNCHANGED vars
  BY <1>9, StutterInv
<1> QED
  BY <1>1, <1>2, <1>3, <1>4, <1>5, <1>6, <1>7, <1>8, <1>9 DEF Next

(***************************************************************************)
(* The script's verdict, record of objects and place in its levels are     *)
(* always those that its steps count on: the inductive invariant.          *)
(***************************************************************************)
THEOREM ScriptInvariance == Spec => []ScriptInv
<1>1. Init => ScriptInv
  BY ScriptInit
<1>2. ScriptInv /\ [Next]_vars => ScriptInv'
  BY ScriptStep
<1> QED
  BY <1>1, <1>2, PTL DEF Spec

(***************************************************************************)
(* A script says PASSED only when every driver and spec was checked at     *)
(* every level, without a failure unless failures are expected.            *)
(***************************************************************************)
THEOREM PassedSound == Spec => []PassedMeansAllChecked
<1>1. ASSUME ScriptInv PROVE PassedMeansAllChecked
  <2> SUFFICES ASSUME out = "PASSED",
                      NEW l \in Range(Xcovlevels(opts)), NEW o \in Range(Objects)
               PROVE  \E c \in checked :
                        /\ c.level = l /\ c.name = o.name /\ c.drivers = Range(o.drivers)
                        /\ opts.expected_diags = <<>> => c.clean
    BY DEF PassedMeansAllChecked
  <2>1. step = "end" /\ n_failed = 0
    BY <1>1 DEF ScriptInv, Counted
  <2>2. levels = <<>>
    BY <1>1, <2>1 DEF ScriptInv, CheckedSoFar, Ending
  <2>3. PICK k \in DOMAIN Xcovlevels(opts) : l = Xcovlevels(opts)[k]
    BY DEF Range
  <2>4. PICK p \in DOMAIN Objects : o = Objects[p]
    BY DEF Range
  <2>5. CheckedBefore(k, p)
    <3>1. /\ Len(Xcovlevels(opts)) \in Nat
          /\ DOMAIN Xcovlevels(opts) = 1..Len(Xcovlevels(opts))
      BY <1>1, XcovlevelsFacts DEF ScriptInv, ScriptTypeOK
    <3>2. Len(levels) = 0
      BY <2>2
    <3> QED
      BY <3>1, <3>2 DEF CheckedBefore
  <2>6. PICK c \in checked : /\ c.level = Xcovlevels(opts)[k] /\ c.name = Objects[p].name
                             /\ c.drivers = Range(Objects[p].drivers)
    BY <1>1, <2>5 DEF ScriptInv, CheckedSoFar
  <2>7. opts.expected_diags = <<>> => c.clean
    BY <1>1, <2>1 DEF ScriptInv, Counted
  <2> QED
    BY <2>3, <2>4, <2>6, <2>7
<1> QED
  BY <1>1, ScriptInvariance, PTL

(***************************************************************************)
(* The data of a qualification run is dumped, and accounts for all that    *)
(* was checked, however the script ends by itself.                         *)
(***************************************************************************)
THEOREM EntriesAlwaysDumped == Spec => []EntriesDumped
<1>1. ASSUME ScriptInv PROVE EntriesDumped
  <2> SUFFICES ASSUME exit \in {"ok", "error"}, opts.qualif
               PROVE  /\ dumped = <<entries>>
                      /\ \A c \in checked : <<c.level, c.name>> \in Range(dumped[1])
    BY DEF EntriesDumped
  <2>1. Recorded
    BY <1>1 DEF ScriptInv
  <2>2. Ending \/ exit = "error"
    BY <2>1 DEF Recorded, Ending
  <2>3. dumped = <<entries>> /\ dumped[1] = entries
    BY <2>1, <2>2 DEF Recorded
  <2> QED
    BY <2>1, <2>3 DEF Recorded
<1> QED
  BY <1>1, ScriptInvariance, PTL

-----------------------------------------------------------------------------
(* The script implements TestScript *)

LEMMA CountRefines ==
  ASSUME ScriptInv, out = "open", exit = "running", n_failed' \in Int, UNCHANGED <<out, exit>>
  PROVE  Script!Next
  BY DEF Script!Next, Script!Count, Script!Running

LEMMA StopRefines ==
  ASSUME ScriptInv, out = "open", exit = "running", Quit
  PROVE  [Script!Next]_Script!vars
<1>1. CASE UNCHANGED <<n_failed, out>>
  BY <1>1 DEF Quit, Script!vars
<1>2. CASE n_failed' = n_failed + 1 /\ out' = Verdict(n_failed + 1)
  <2>1. n_failed >= 0 /\ n_failed \in Int
    BY DEF ScriptInv, ScriptTypeOK, Counted, Quit, UnderWay
  <2>2. out' = "FAILED" /\ exit' = exit
    BY <1>2, <2>1 DEF Verdict, Quit
  <2> QED
    BY <1>2, <2>2 DEF Script!Next, Script!Stop, Script!Running
<1> QED
  BY <1>1, <1>2 DEF Quit

LEMMA RefinementStep ==
  ASSUME ScriptInv, [Next]_vars
  PROVE  [Script!Next]_Script!vars
<1>0. ScriptTypeOK /\ Counted /\ Recorded
  BY DEF ScriptInv
<1>1. CASE New
  <2>1. step = "new" /\ exit = "running" /\ out = "open"
    BY <1>0, <1>1 DEF New, At, Counted
  <2>2. CASE Stop
    BY <2>1, <2>2, StopQuits, StopRefines
  <2>3. CASE UNCHANGED <<place, disk, verdict, exit, qdata, checked>>
    BY <2>3 DEF verdict, Script!vars
  <2>4. ASSUME NEW none \in {0, 2}, Continue(none, <<>>, "workdir")
        PROVE  Script!Next
    <3>1. <<>> \in Seq(Diags) /\ none \in Nat
      OBVIOUS
    <3>2. n_failed' \in Int /\ UNCHANGED <<out, exit>>
      BY <1>0, <2>4, <3>1, ContinueAdvances
    <3> QED
      BY <2>1, <3>2, CountRefines
  <2> QED
    BY <1>1, <2>2, <2>3, <2>4 DEF New
<1>2. CASE ToWorkdir \/ Instrument \/ Build \/ RunTest \/ GenReport \/ GenXcov
  <2>1. Advance \/ Quit
    BY <1>0, <1>2, MovesAdvance
  <2>2. out = "open" /\ exit = "running"
    BY <1>0, <2>1 DEF Counted, Advance, Quit, UnderWay
  <2>3. CASE Advance
    <3>1. n_failed' \in Int /\ UNCHANGED <<out, exit>>
      BY <2>3 DEF Advance
    <3> QED
      BY <2>2, <3>1, CountRefines
  <2> QED
    BY <2>1, <2>2, <2>3, StopRefines
<1>3. CASE CheckExpectations
  <2>1. step = "check" /\ exit = "running" /\ out = "open" /\ UnderWay
    BY <1>0, <1>3 DEF CheckExpectations, At, Counted, UnderWay
  <2>2. CASE Stop
    BY <2>1, <2>2, StopQuits, StopRefines
  <2>3. CASE UNCHANGED <<place, disk, verdict, exit, qdata, checked>>
    BY <2>3 DEF verdict, Script!vars
  <2>4. ASSUME NEW f \in CheckFailures, Continue(f.n, f.diags, "new")
        PROVE  Script!Next
    <3>1. f.n \in Nat /\ f.diags \in Seq(Diags)
      BY CheckFailuresType
    <3>2. n_failed' \in Int /\ UNCHANGED <<out, exit>>
      BY <1>0, <2>4, <3>1, ContinueAdvances
    <3> QED
      BY <2>1, <3>2, CountRefines
  <2> QED
    BY <1>3, <2>2, <2>3, <2>4 DEF CheckExpectations
<1>4. CASE EndRun
  BY <1>4 DEF EndRun, verdict, Script!vars
<1>5. CASE EndInError
  <2>1. exit = "running" /\ exit' = "error" /\ out # "PASSED" /\ UNCHANGED <<n_failed, out>>
    BY <1>0, <1>5 DEF EndInError, At, Counted, verdict
  <2> QED
    BY <2>1 DEF Script!Next, Script!Leave
<1>6. CASE MatchDiags
  <2>1. out = "open" /\ exit = "running" /\ UNCHANGED <<out, exit>>
    BY <1>0, <1>6 DEF MatchDiags, At, Counted
  <2> QED
    BY <1>0, <1>6, <2>1, MatchDiagsType, CountRefines
<1>7. CASE Result
  <2>1. out = "open" /\ exit = "running" /\ UNCHANGED <<n_failed, exit>>
    BY <1>0, <1>7 DEF Result, At, Counted
  <2>2. out' = Verdict(n_failed)
    BY <1>7 DEF Result
  <2> QED
    BY <2>1, <2>2 DEF Script!Next, Script!Conclude, Script!Running, Verdict
<1>8. CASE Exit
  <2>1. exit = "running" /\ exit' = "ok" /\ out # "open" /\ UNCHANGED <<n_failed, out>>
    BY <1>0, <1>8 DEF Exit, At, Counted, verdict
  <2> QED
    BY <2>1 DEF Script!Next, Script!Leave
<1>9. CASE TimeOut
  <2>1. exit = "running" /\ exit' = "killed" /\ UNCHANGED <<n_failed, out>>
    BY <1>9 DEF TimeOut, verdict
  <2> QED
    BY <2>1 DEF Script!Next, Script!Leave
<1>10. CASE UNCHANGED vars
  BY <1>10 DEF vars, verdict, Script!vars
<1> QED
  BY <1>1, <1>2, <1>3, <1>4, <1>5, <1>6, <1>7, <1>8, <1>9, <1>10 DEF Next

(***************************************************************************)
(* What the testsuite driver sees of a script is what TestScript promises: *)
(* one verdict, that of the count, written last.                           *)
(***************************************************************************)
THEOREM Refinement == Spec => ScriptImplemented
<1>1. Init => Script!Init
  BY DEF Init, Script!Init
<1>2. ScriptInv /\ [Next]_vars => [Script!Next]_Script!vars
  BY RefinementStep
<1> QED
  BY <1>1, <1>2, ScriptInvariance, PTL DEF Spec, Script!Spec, ScriptImplemented

-----------------------------------------------------------------------------
(* Directories: those of two drivers or specs, or of two levels, differ *)

W(l, m) == <<WdbaseFor[l], Short[m]>>

BuildLevel == IF available_bdbase = NoBase THEN level ELSE Xcovlevels(opts)[1]

LEMMA DirsFacts ==
  ASSUME NEW k \in Levels, NEW l \in Levels, NEW m \in DOMAIN Short, NEW n \in DOMAIN Short
  PROVE  W(l, m) \in Dirs /\ (W(k, m) = W(l, n) => k = l /\ m = n)
<1>1. Short[m] \in Range(Short) /\ (Short[m] = Short[n] => m = n)
  BY NamesAssumption DEF NamesAssumption, Range
<1>2. WdbaseFor[l] \in Range(WdbaseFor) /\ (WdbaseFor[k] = WdbaseFor[l] => k = l)
  BY WdbaseFacts
<1> QED
  BY <1>1, <1>2 DEF W, Dirs

\* What the object under way is, and whose directory it works in
LEMMA ObjectKinds ==
  ASSUME ScriptTypeOK, levels # <<>>
  PROVE  /\ pos <= Len(Drivers) =>
              /\ object = [name |-> Drivers[pos], drivers |-> <<Drivers[pos]>>]
              /\ singletest /\ main = Drivers[pos] /\ object.name = main
         /\ singletest => /\ main \in Range(Drivers) /\ object.drivers = <<main>>
                          /\ Range(object.drivers) = {main}
         /\ ~singletest => /\ main = object.name /\ main \notin Range(Drivers)
                           /\ pos > Len(Drivers)
<1>1. /\ pos \in 1..Len(Objects) /\ object = Objects[pos]
      /\ object.drivers \in Seq(Range(Drivers)) /\ opts \in Options
  BY InHandFacts DEF ScriptTypeOK
<1>2. Len(Drivers) \in Nat \ {0}
  BY DriversFacts
<1>3. ASSUME pos <= Len(Drivers)
      PROVE  /\ object = [name |-> Drivers[pos], drivers |-> <<Drivers[pos]>>]
             /\ singletest /\ main = Drivers[pos] /\ object.name = main
  <2>1. pos \in 1..Len(Drivers)
    BY <1>1, <1>2, <1>3
  <2>2. object = [name |-> Drivers[pos], drivers |-> <<Drivers[pos]>>]
    BY <1>1, <2>1, ObjectsFacts
  <2>3. object.drivers = <<Drivers[pos]>> /\ object.name = Drivers[pos]
    BY <2>2
  <2>4. singletest
    BY <2>3 DEF singletest
  <2> QED
    BY <2>2, <2>3, <2>4 DEF main
<1>4. ASSUME singletest
      PROVE  /\ main \in Range(Drivers) /\ object.drivers = <<main>>
             /\ Range(object.drivers) = {main}
  <2>1. Len(object.drivers) = 1 /\ main = object.drivers[1]
    BY <1>4 DEF singletest, main
  <2>2. object.drivers = <<main>> /\ main \in Range(Drivers) /\ DOMAIN object.drivers = {1}
    BY <1>1, <2>1
  <2>3. Range(object.drivers) = {main}
    BY <2>1, <2>2 DEF Range
  <2> QED
    BY <2>2, <2>3
<1>5. ASSUME ~singletest
      PROVE  /\ main = object.name /\ main \notin Range(Drivers)
             /\ pos > Len(Drivers)
  <2>1. main = object.name
    BY <1>5 DEF main
  <2>2. pos > Len(Drivers)
    BY <1>1, <1>2, <1>3, <1>5
  <2>3. object \in SpecType
    BY <1>1, <2>2, ObjectsFacts
  <2> QED
    BY <2>1, <2>2, <2>3 DEF SpecType
<1> QED
  BY <1>3, <1>4, <1>5

LEMMA PlaceFacts ==
  ASSUME ScriptInv, levels # <<>>, ProgramsPlace
  PROVE  /\ level \in Levels /\ BuildLevel \in Levels
         /\ \A m : awdir_for(m) = W(level, m) /\ abdir_for(m) = W(BuildLevel, m)
         /\ awdir = W(level, main)
         /\ wdctl.reuse_bin <=> available_bdbase # NoBase
         /\ FirstLevel <=> level = Xcovlevels(opts)[1]
         /\ available_bdbase = NoBase => /\ FirstLevel /\ pos <= Len(Drivers)
                                         /\ BuildLevel = level
         /\ pos <= Len(Drivers) /\ available_bdbase # NoBase => BuildLevel # level
         /\ pos > Len(Drivers) => available_bdbase # NoBase
<1> DEFINE all == Xcovlevels(opts)
           done == Len(all) - Len(levels)
<1>1. /\ levels \in Seq(Levels) /\ level \in Levels /\ level = levels[1]
      /\ Len(levels) \in Nat \ {0} /\ pos \in Nat /\ Len(Drivers) \in Nat
      /\ available_bdbase \in Range(WdbaseFor) \cup {NoBase}
  BY InHandFacts, ObjectsFacts, DriversFacts DEF ScriptInv, ScriptTypeOK
<1>2. /\ all \in Seq(Levels) /\ Len(all) \in {1, 2}
      /\ \A i, j \in 1..Len(all) : all[i] = all[j] => i = j
  BY XcovlevelsFacts DEF ScriptInv, ScriptTypeOK
<1>3. all[1] \in Levels
  BY <1>2
<1>4. done >= 0 /\ levels[1] = all[done + 1]
  BY <1>1 DEF ScriptInv, LevelsLeft
<1> HIDE DEF all
<1>5. FirstLevel <=> level = all[1]
  <2>1. FirstLevel <=> done = 0
    BY <1>1, <1>2 DEF FirstLevel, all
  <2>2. done + 1 \in 1..Len(all) /\ 1 \in 1..Len(all) /\ done \in Int
    BY <1>1, <1>2, <1>4
  <2> HIDE DEF done
  <2> QED
    BY <1>1, <1>2, <1>4, <2>1, <2>2
<1>6. BuildLevel \in Levels
  BY <1>1, <1>3 DEF BuildLevel, all
<1>7. NoBase \notin Range(WdbaseFor)
  BY WdbaseFacts DEF NoBase
<1>8. wdctl.wdbase = WdbaseFor[level]
  BY DEF wdctl, WdirControl
<1>9. wdctl.bdbase = WdbaseFor[BuildLevel]
  BY DEF wdctl, WdirControl, BuildLevel, ProgramsPlace
<1>10. wdctl.reuse_bin <=> available_bdbase # NoBase
  BY DEF wdctl, WdirControl
<1>11. \A m : awdir_for(m) = W(level, m) /\ abdir_for(m) = W(BuildLevel, m)
  BY <1>8, <1>9 DEF awdir_for, abdir_for, W
<1>12. awdir = W(level, main)
  BY <1>11 DEF awdir
<1>13. /\ available_bdbase = NoBase => /\ FirstLevel /\ pos <= Len(Drivers)
                                       /\ BuildLevel = level
       /\ pos <= Len(Drivers) /\ available_bdbase # NoBase => BuildLevel # level
       /\ pos > Len(Drivers) => available_bdbase # NoBase
  BY <1>1, <1>5 DEF ProgramsPlace, BuildLevel, all
<1> QED
  BY <1>1, <1>5, <1>6, <1>10, <1>11, <1>12, <1>13 DEF all

\* What depends on the place of the script only
LEMMA SamePlace ==
  ASSUME UNCHANGED place
  PROVE  /\ opts' = opts /\ levels' = levels /\ pos' = pos
         /\ available_bdbase' = available_bdbase
         /\ Objects' = Objects /\ object' = object /\ main' = main /\ level' = level
         /\ (singletest' <=> singletest) /\ wdctl' = wdctl
         /\ \A m : awdir_for(m)' = awdir_for(m) /\ abdir_for(m)' = abdir_for(m)
         /\ awdir' = awdir
         /\ (FirstLevel' <=> FirstLevel) /\ (ProgramsPlace' <=> ProgramsPlace)
         /\ \A d, b : ScosBuilt(d, b)' = ScosBuilt(d, b)
<1>1. /\ opts' = opts /\ levels' = levels /\ pos' = pos
      /\ available_bdbase' = available_bdbase
  BY DEF place
<1>2. Objects' = Objects /\ object' = object /\ level' = level
  BY <1>1 DEF Objects, object, level
<1>3. (singletest' <=> singletest) /\ main' = main
  BY <1>2 DEF singletest, main
<1>4. wdctl' = wdctl
  BY <1>1, <1>2 DEF wdctl
<1>5. \A m : awdir_for(m)' = awdir_for(m) /\ abdir_for(m)' = abdir_for(m)
  BY <1>4 DEF awdir_for, abdir_for
<1>6. awdir' = awdir
  BY <1>3, <1>4 DEF awdir, awdir_for
<1>7. (FirstLevel' <=> FirstLevel) /\ (ProgramsPlace' <=> ProgramsPlace)
  BY <1>1 DEF FirstLevel, ProgramsPlace
<1>9. ASSUME NEW d, NEW b PROVE ScosBuilt(d, b)' = ScosBuilt(d, b)
  BY <1>1 DEF ScosBuilt
<1> QED
  BY <1>1, <1>2, <1>3, <1>4, <1>5, <1>6, <1>7, <1>9

-----------------------------------------------------------------------------
(* A step that changes the directory of the object under way only *)

GoodProgram(dir, d) ==
  dir.bin # Before /\ (dir.bin # None => dir.scos = ScosBuilt(d, dir.bin))

GoodTraces(dir, bin, q) ==
  /\ dir.traces \subseteq {Trace(Drivers[q], bin, level)}
  /\ dir.traces # {} => bin > Before
  /\ dir.ckpt # <<>> /\ opts.consolidate = "checkpoints" =>
       /\ \E t \in dir.ckpt[1].traces : dir.ckpt[1].traces = {t}
       /\ FromOwnArtifacts(opts, Check(level, Objects[q], dir.ckpt[1], TRUE))

ProgramDir(q) == W(BuildLevel, Drivers[q])
WorkDir(q) == W(level, Drivers[q])

LEMMA GoingFacts ==
  ASSUME IInv, Going
  PROVE  /\ ScriptInv /\ ScriptTypeOK /\ levels # <<>> /\ ProgramsPlace /\ InHand
         /\ files \in [Dirs -> DirType] /\ builds \in Nat
         /\ pos \in 1..Len(Objects) /\ pos \in Nat /\ Len(Drivers) \in Nat \ {0}
         /\ DOMAIN Objects = 1..Len(Objects)
         /\ \A q \in 1..Len(Drivers) : OwnProgram(q) /\ OwnTraces(q)
         /\ \A p \in DOMAIN Objects : SpecAlone(p)
         /\ \A q \in 1..Len(Drivers) :
              /\ available_bdbase # NoBase \/ HasWorkdir(q) =>
                   GoodProgram(files[ProgramDir(q)], Drivers[q])
              /\ HasWorkdir(q) =>
                   GoodTraces(files[WorkDir(q)], files[ProgramDir(q)].bin, q)
<1>1. /\ ScriptInv /\ ScriptTypeOK /\ levels # <<>> /\ ProgramsPlace /\ InHand
      /\ files \in [Dirs -> DirType] /\ builds \in Nat
      /\ \A q \in DOMAIN Drivers : OwnProgram(q) /\ OwnTraces(q)
      /\ \A p \in DOMAIN Objects : SpecAlone(p)
  BY DEF IInv, ScriptInv, Artifacts, Going, FilesTypeOK
<1>2. /\ pos \in 1..Len(Objects) /\ pos \in Nat /\ Len(Drivers) \in Nat \ {0}
      /\ DOMAIN Objects = 1..Len(Objects) /\ DOMAIN Drivers = 1..Len(Drivers)
  BY <1>1, ObjectsFacts, DriversFacts DEF ScriptTypeOK
<1>3. \A m : awdir_for(m) = W(level, m) /\ abdir_for(m) = W(BuildLevel, m)
  BY <1>1, PlaceFacts
<1>4. ASSUME NEW q \in 1..Len(Drivers)
      PROVE  /\ available_bdbase # NoBase \/ HasWorkdir(q) =>
                   GoodProgram(files[ProgramDir(q)], Drivers[q])
             /\ HasWorkdir(q) =>
                   GoodTraces(files[WorkDir(q)], files[ProgramDir(q)].bin, q)
  <2>1. OwnProgram(q) /\ OwnTraces(q)
    BY <1>1, <1>2
  <2>2. abdir_for(Drivers[q]) = ProgramDir(q) /\ awdir_for(Drivers[q]) = WorkDir(q)
    BY <1>3 DEF ProgramDir, WorkDir
  <2> QED
    <3>1. available_bdbase # NoBase \/ HasWorkdir(q) =>
            GoodProgram(files[ProgramDir(q)], Drivers[q])
      BY <2>1, <2>2 DEF OwnProgram, GoodProgram
    <3>2. ASSUME HasWorkdir(q)
          PROVE  GoodTraces(files[WorkDir(q)], files[ProgramDir(q)].bin, q)
      BY <2>1, <2>2, <3>2, Zenon DEF OwnTraces, GoodTraces
    <3> QED
      BY <3>1, <3>2
<1> QED
  BY <1>1, <1>2, <1>4

LEMMA OwnAfter ==
  ASSUME IInv, Going, UNCHANGED place, NEW q \in 1..Len(Drivers),
         available_bdbase # NoBase \/ HasWorkdir(q)' =>
           GoodProgram(files'[ProgramDir(q)], Drivers[q]),
         HasWorkdir(q)' => GoodTraces(files'[WorkDir(q)], files'[ProgramDir(q)].bin, q)
  PROVE  OwnProgram(q)' /\ OwnTraces(q)'
<1>1. \A m : awdir_for(m) = W(level, m) /\ abdir_for(m) = W(BuildLevel, m)
  BY GoingFacts, PlaceFacts
<1>2. /\ abdir_for(Drivers[q])' = ProgramDir(q) /\ awdir_for(Drivers[q])' = WorkDir(q)
      /\ available_bdbase' = available_bdbase /\ level' = level /\ opts' = opts
      /\ Objects' = Objects
      /\ \A d, b : ScosBuilt(d, b)' = ScosBuilt(d, b)
  BY <1>1, SamePlace DEF ProgramDir, WorkDir
<1>3. OwnProgram(q)'
  BY <1>2 DEF OwnProgram, GoodProgram
<1>4. OwnTraces(q)'
  BY <1>2 DEF OwnTraces, GoodTraces
<1> QED
  BY <1>3, <1>4

LEMMA OthersKept ==
  ASSUME IInv, Going, UNCHANGED place, main \in DOMAIN Short,
         \A dir \in Dirs : dir # awdir => files'[dir] = files[dir],
         NEW q \in 1..Len(Drivers), Drivers[q] # main
  PROVE  OwnProgram(q)' /\ OwnTraces(q)'
<1>1. /\ ScriptInv /\ ScriptTypeOK /\ levels # <<>> /\ ProgramsPlace
      /\ pos \in Nat /\ Len(Drivers) \in Nat
      /\ available_bdbase # NoBase \/ HasWorkdir(q) =>
           GoodProgram(files[ProgramDir(q)], Drivers[q])
      /\ HasWorkdir(q) => GoodTraces(files[WorkDir(q)], files[ProgramDir(q)].bin, q)
  BY GoingFacts
<1>2. /\ level \in Levels /\ BuildLevel \in Levels /\ awdir = W(level, main)
  BY <1>1, PlaceFacts
<1>3. Drivers[q] \in DOMAIN Short
  BY DriversFacts
<1>4. /\ ProgramDir(q) \in Dirs /\ ProgramDir(q) # awdir
      /\ WorkDir(q) \in Dirs /\ WorkDir(q) # awdir
  BY <1>2, <1>3, DirsFacts DEF ProgramDir, WorkDir
<1>5. files'[ProgramDir(q)] = files[ProgramDir(q)] /\ files'[WorkDir(q)] = files[WorkDir(q)]
  BY <1>4
<1>6. q # pos
  <2>1. pos <= Len(Drivers) => main = Drivers[pos]
    BY <1>1, ObjectKinds
  <2> QED
    BY <1>1, <2>1
<1>7. HasWorkdir(q)' => HasWorkdir(q)
  BY <1>6, SamePlace DEF HasWorkdir
<1> QED
  BY <1>1, <1>5, <1>7, OwnAfter

LEMMA ArtifactsAfter ==
  ASSUME IInv, Going, UNCHANGED <<place, checked>>, main \in DOMAIN Short,
         \A dir \in Dirs : dir # awdir => files'[dir] = files[dir],
         InHand',
         \A q \in 1..Len(Drivers) :
            Drivers[q] = main =>
              /\ available_bdbase # NoBase \/ HasWorkdir(q)' =>
                   GoodProgram(files'[ProgramDir(q)], Drivers[q])
              /\ HasWorkdir(q)' =>
                   GoodTraces(files'[WorkDir(q)], files'[ProgramDir(q)].bin, q),
         pos > Len(Drivers) /\ singletest =>
           /\ step' \notin {"instrument", "build", "xcov", "check"}
           /\ step' \in {"run", "report"} =>
                files'[awdir].traces = {} /\ files'[W(BuildLevel, main)].bin = None
  PROVE  Artifacts'
<1>0. /\ opts' = opts /\ levels' = levels /\ pos' = pos
      /\ Objects' = Objects /\ object' = object /\ main' = main /\ level' = level
      /\ (singletest' <=> singletest) /\ awdir' = awdir
      /\ \A m : abdir_for(m)' = abdir_for(m)
      /\ (FirstLevel' <=> FirstLevel) /\ (ProgramsPlace' <=> ProgramsPlace)
  BY SamePlace
<1>1. ReportsFromOwnArtifacts'
  BY <1>0 DEF IInv, Artifacts, ReportsFromOwnArtifacts
<1>2. ProgramsPlace'
  BY <1>0, GoingFacts
<1>3. \A q \in DOMAIN Drivers : OwnProgram(q)' /\ OwnTraces(q)'
  <2> SUFFICES ASSUME NEW q \in 1..Len(Drivers)
               PROVE  OwnProgram(q)' /\ OwnTraces(q)'
    BY DriversFacts
  <2>1. CASE Drivers[q] = main
    BY <2>1, OwnAfter
  <2>2. CASE Drivers[q] # main
    BY <2>2, OthersKept
  <2> QED
    BY <2>1, <2>2
<1>4. \A p \in DOMAIN Objects' : SpecAlone(p)'
  <2> SUFFICES ASSUME NEW p \in DOMAIN Objects PROVE SpecAlone(p)'
    BY <1>0
  <2>1. /\ SpecAlone(p) /\ ScriptInv /\ levels # <<>> /\ ProgramsPlace
        /\ ScriptTypeOK /\ object = Objects[pos]
    BY GoingFacts, InHandFacts
  <2>2. abdir_for(main) = W(BuildLevel, main)
    BY <2>1, PlaceFacts
  <2>3. p = pos => (singletest <=> Len(Objects[p].drivers) = 1)
    BY <2>1 DEF singletest
  <2>4. abdir_for(main)' = W(BuildLevel, main)
    BY <1>0, <2>2 DEF abdir_for
  <2> QED
    BY <1>0, <2>1, <2>3, <2>4 DEF SpecAlone
<1> QED
  BY <1>1, <1>2, <1>3, <1>4 DEF Artifacts

LEMMA QuitArtifacts ==
  ASSUME IInv, Quit
  PROVE  Artifacts'
<1>1. checked' = checked /\ step' = "raised" /\ opts' = opts
  BY SamePlace DEF Quit
<1>2. ReportsFromOwnArtifacts'
  BY <1>1 DEF IInv, Artifacts, ReportsFromOwnArtifacts
<1> QED
  BY <1>1, <1>2 DEF Artifacts, Going

\* The driver that the object under way runs: itself, or the only one of a spec
LEMMA MainDriver ==
  ASSUME IInv, Going, NEW q \in 1..Len(Drivers), Drivers[q] = main
  PROVE  /\ singletest /\ (pos <= Len(Drivers) => q = pos)
         /\ (pos > Len(Drivers) => q < pos /\ HasWorkdir(q))
         /\ ProgramDir(q) = W(BuildLevel, main) /\ WorkDir(q) = awdir
<1>1. /\ ScriptInv /\ ScriptTypeOK /\ levels # <<>> /\ ProgramsPlace
      /\ pos \in Nat /\ Len(Drivers) \in Nat
  BY GoingFacts
<1>2. singletest
  BY <1>1, ObjectKinds, DriversFacts
<1>3. ASSUME pos <= Len(Drivers) PROVE q = pos
  <2>1. main = Drivers[pos] /\ pos \in 1..Len(Drivers)
    BY <1>1, <1>3, GoingFacts, ObjectKinds
  <2> QED
    BY <2>1, DriversFacts, NamesAssumption DEF NamesAssumption
<1>4. WorkDir(q) = awdir /\ ProgramDir(q) = W(BuildLevel, main)
  BY <1>1, PlaceFacts DEF WorkDir, ProgramDir
<1>5. pos > Len(Drivers) => q < pos /\ HasWorkdir(q)
  BY <1>1 DEF HasWorkdir
<1> QED
  BY <1>2, <1>3, <1>4, <1>5

LEMMA EmptyDirType == EmptyDir \in DirType
<1>1. None \in Builds
  BY DEF None, Builds
<1> QED
  BY <1>1 DEF EmptyDir, DirType

LEMMA NewArtifacts ==
  ASSUME IInv, New
  PROVE  FilesTypeOK' /\ Artifacts'
<1>0. step = "new" /\ exit = "running" /\ levels # <<>> /\ Going
  BY DEF New, At, Going
<1>1. CASE Quit /\ UNCHANGED disk
  BY <1>1, QuitArtifacts DEF disk, IInv, FilesTypeOK
<1>2. CASE step' = "workdir" /\ UNCHANGED <<place, disk, checked>>
  <2>1. files' = files /\ builds' = builds /\ UNCHANGED <<place, checked>>
    BY <1>2 DEF disk
  <2>2. FilesTypeOK'
    BY <2>1 DEF IInv, FilesTypeOK
  <2>3. main \in DOMAIN Short
    BY <1>0, GoingFacts, InHandFacts
  <2>4. InHand'
    BY <1>2 DEF InHand
  <2>5. ASSUME NEW q \in 1..Len(Drivers), HasWorkdir(q)' PROVE HasWorkdir(q)
    BY <1>2, <2>1, <2>5, SamePlace DEF HasWorkdir
  <2>6. \A q \in 1..Len(Drivers) :
              /\ available_bdbase # NoBase \/ HasWorkdir(q)' =>
                   GoodProgram(files'[ProgramDir(q)], Drivers[q])
              /\ HasWorkdir(q)' =>
                   GoodTraces(files'[WorkDir(q)], files'[ProgramDir(q)].bin, q)
    BY <1>0, <2>1, <2>5, GoingFacts
  <2>7. \A dir \in Dirs : dir # awdir => files'[dir] = files[dir]
    BY <2>1
  <2> QED
    BY <1>0, <1>2, <2>1, <2>2, <2>3, <2>4, <2>6, <2>7, ArtifactsAfter
<1>3. ASSUME NEW none \in {0, 2}, Continue(none, <<>>, "workdir"),
             UNCHANGED <<place, disk, dumped, checked>>
      PROVE  step' = "workdir" /\ UNCHANGED <<place, disk, checked>>
  BY <1>3 DEF Continue
<1>4. CASE Raise /\ UNCHANGED <<place, disk, verdict, exit, qdata, checked>>
  <2>1. Quit /\ UNCHANGED disk
    BY <1>0, <1>4 DEF Raise, Quit, verdict
  <2> QED
    BY <1>1, <2>1
<1>5. CASE Stop /\ UNCHANGED files
  <2>1. Quit /\ UNCHANGED disk
    BY <1>0, <1>5, StopQuits DEF disk, Stop
  <2> QED
    BY <1>1, <2>1
<1> QED
  BY <1>2, <1>3, <1>4, <1>5 DEF New

LEMMA ToWorkdirArtifacts ==
  ASSUME IInv, ToWorkdir
  PROVE  FilesTypeOK' /\ Artifacts'
<1>1. step = "workdir" /\ exit = "running" /\ UNCHANGED <<place, builds, checked>>
  BY DEF ToWorkdir, At
<1>2. UnderWay /\ levels # <<>> /\ Going
  BY <1>1 DEF UnderWay, Going, IInv, ScriptInv, CheckedSoFar
<1>3. /\ ScriptInv /\ ScriptTypeOK /\ ProgramsPlace /\ pos \in 1..Len(Objects) /\ pos \in Nat
      /\ files \in [Dirs -> DirType] /\ Len(Drivers) \in Nat
      /\ DOMAIN Objects = 1..Len(Objects)
  BY <1>2, GoingFacts
<1>4. main \in DOMAIN Short /\ level \in Levels /\ object = Objects[pos]
  BY <1>2, <1>3, InHandFacts
<1>5. /\ awdir = W(level, main) /\ BuildLevel \in Levels
      /\ (wdctl.reuse_bin <=> available_bdbase # NoBase)
  BY <1>2, <1>3, PlaceFacts
<1>6. awdir \in Dirs
  BY <1>4, <1>5, DirsFacts
<1>7. files' = [files EXCEPT ![awdir] = EmptyDir]
  BY DEF ToWorkdir, Workdir
<1>8. files'[awdir] = EmptyDir /\ \A dir \in Dirs : dir # awdir => files'[dir] = files[dir]
  BY <1>3, <1>6, <1>7
<1>9. FilesTypeOK'
  BY <1>1, <1>3, <1>7, EmptyDirType DEF IInv, FilesTypeOK
<1>10. EmptyDir.bin = None /\ EmptyDir.traces = {} /\ EmptyDir.ckpt = <<>>
  BY DEF EmptyDir
<1>11. \/ ~singletest /\ step' = "report"
       \/ singletest /\ available_bdbase # NoBase /\ step' = "run"
       \/ /\ singletest /\ available_bdbase = NoBase
          /\ \/ step' = "build" /\ opts.trace_mode # "src"
             \/ step' = "instrument"
  BY <1>5 DEF ToWorkdir
<1>12. InHand'
  <2>1. /\ awdir' = awdir /\ (singletest' <=> singletest) /\ opts' = opts
        /\ available_bdbase' = available_bdbase
    BY <1>1, SamePlace
  <2> QED
    BY <1>8, <1>10, <1>11, <2>1 DEF InHand
<1>13. pos > Len(Drivers) /\ singletest =>
         /\ FirstLevel /\ available_bdbase # NoBase /\ BuildLevel = level
         /\ step' = "run"
  <2> SUFFICES ASSUME pos > Len(Drivers), singletest
               PROVE  /\ FirstLevel /\ available_bdbase # NoBase /\ BuildLevel = level
                      /\ step' = "run"
    OBVIOUS
  <2>1. SpecAlone(pos) /\ Len(Objects[pos].drivers) = 1
    BY <1>2, <1>3, <1>4, GoingFacts DEF singletest
  <2>2. FirstLevel
    BY <2>1 DEF SpecAlone
  <2>3. available_bdbase # NoBase /\ level = Xcovlevels(opts)[1]
    BY <1>2, <1>3, <2>2, PlaceFacts
  <2> QED
    BY <1>11, <2>2, <2>3 DEF BuildLevel
<1>14. ASSUME NEW q \in 1..Len(Drivers), Drivers[q] = main
       PROVE  /\ available_bdbase # NoBase \/ HasWorkdir(q)' =>
                   GoodProgram(files'[ProgramDir(q)], Drivers[q])
              /\ HasWorkdir(q)' =>
                   GoodTraces(files'[WorkDir(q)], files'[ProgramDir(q)].bin, q)
  <2>1. /\ singletest /\ (pos <= Len(Drivers) => q = pos)
        /\ ProgramDir(q) = W(BuildLevel, main) /\ WorkDir(q) = awdir
    BY <1>2, <1>14, MainDriver
  <2>2. GoodTraces(files'[WorkDir(q)], files'[ProgramDir(q)].bin, q)
    BY <1>8, <1>10, <2>1 DEF GoodTraces
  <2>3. None # Before
    BY DEF None, Before
  <2>4. CASE ProgramDir(q) = awdir
    BY <1>8, <1>10, <2>2, <2>3, <2>4 DEF GoodProgram
  <2>5. CASE ProgramDir(q) # awdir
    <3>1. available_bdbase # NoBase
      BY <1>2, <1>3, <1>5, <1>13, <2>1, <2>5, PlaceFacts
    <3>2. GoodProgram(files[ProgramDir(q)], Drivers[q])
      BY <1>2, <3>1, GoingFacts
    <3>3. ProgramDir(q) \in Dirs
      BY <1>4, <1>5, <2>1, DirsFacts
    <3> QED
      BY <1>8, <2>2, <2>5, <3>2, <3>3
  <2> QED
    BY <2>4, <2>5
<1>15. pos > Len(Drivers) /\ singletest =>
         /\ step' \notin {"instrument", "build", "xcov", "check"}
         /\ step' \in {"run", "report"} =>
                files'[awdir].traces = {} /\ files'[W(BuildLevel, main)].bin = None
  BY <1>5, <1>8, <1>10, <1>13
<1> QED
  BY <1>1, <1>2, <1>4, <1>8, <1>9, <1>12, <1>14, <1>15, ArtifactsAfter

\* A step under way of an object that goes on
LEMMA UnderWayFacts ==
  ASSUME IInv, UnderWay
  PROVE  /\ Going /\ ScriptInv /\ ScriptTypeOK /\ levels # <<>> /\ ProgramsPlace /\ InHand
         /\ files \in [Dirs -> DirType] /\ builds \in Nat
         /\ main \in DOMAIN Short /\ awdir = W(level, main)
         /\ abdir_for(main) = W(BuildLevel, main)
         /\ awdir \in Dirs /\ W(BuildLevel, main) \in Dirs
         /\ awdir' = W(level, main)' /\ level \in Levels
<1>1. Going
  BY DEF UnderWay, Going, IInv, ScriptInv, CheckedSoFar
<1>2. /\ ScriptInv /\ ScriptTypeOK /\ levels # <<>> /\ ProgramsPlace /\ InHand
      /\ files \in [Dirs -> DirType] /\ builds \in Nat
  BY <1>1, GoingFacts
<1>3. main \in DOMAIN Short /\ level \in Levels
  BY <1>2, InHandFacts
<1>4. /\ awdir = W(level, main) /\ abdir_for(main) = W(BuildLevel, main)
      /\ BuildLevel \in Levels
  BY <1>2, PlaceFacts
<1>5. awdir \in Dirs /\ W(BuildLevel, main) \in Dirs
  BY <1>3, <1>4, DirsFacts
<1>6. awdir' = W(level, main)'
  BY DEF awdir, awdir_for, wdctl, WdirControl, W
<1> QED
  BY <1>1, <1>2, <1>3, <1>4, <1>5, <1>6

LEMMA ScosOfType ==
  ASSUME NEW b \in Builds, NEW d
  PROVE  ScosOf(d, b) \in [Sources -> Builds]
  BY DEF ScosOf, Builds

\* Instrumentation and build are for a driver, in its own directory
LEMMA BuildsOwn ==
  ASSUME IInv, step \in {"instrument", "build"}
  PROVE  /\ UnderWay /\ available_bdbase = NoBase /\ pos <= Len(Drivers)
         /\ W(BuildLevel, main) = awdir /\ files[awdir].bin = None
         /\ files[awdir].traces = {} /\ singletest
         /\ \A b : ScosOf(main, b) = ScosBuilt(main, b)
         /\ \A q \in 1..Len(Drivers) :
              Drivers[q] = main => /\ q = pos /\ HasWorkdir(q)
                                   /\ ProgramDir(q) = awdir /\ WorkDir(q) = awdir
<1>1. UnderWay
  BY DEF UnderWay
<1>2. /\ Going /\ ScriptInv /\ ScriptTypeOK /\ levels # <<>> /\ ProgramsPlace /\ InHand
      /\ awdir = W(level, main)
  BY <1>1, UnderWayFacts
<1>3. /\ available_bdbase = NoBase /\ files[awdir].bin = None /\ singletest
      /\ files[awdir].traces = {}
  BY <1>2 DEF InHand
<1>4. pos <= Len(Drivers) /\ BuildLevel = level
  BY <1>2, <1>3, PlaceFacts
<1>5. object.name = main
  BY <1>2, <1>4, ObjectKinds
<1>6. \A b : ScosOf(main, b) = ScosBuilt(main, b)
  BY <1>5 DEF ScosOf, ScosBuilt, units_of_interest
<1>7. ASSUME NEW q \in 1..Len(Drivers), Drivers[q] = main
      PROVE  /\ q = pos /\ HasWorkdir(q)
             /\ ProgramDir(q) = awdir /\ WorkDir(q) = awdir
  <2>1. q = pos /\ ProgramDir(q) = W(BuildLevel, main) /\ WorkDir(q) = awdir
    BY <1>2, <1>4, <1>7, MainDriver
  <2>2. HasWorkdir(q)
    BY <1>1, <2>1 DEF HasWorkdir
  <2> QED
    BY <1>2, <1>4, <2>1, <2>2
<1> QED
  BY <1>1, <1>2, <1>3, <1>4, <1>6, <1>7

LEMMA InstrumentArtifacts ==
  ASSUME IInv, Instrument
  PROVE  FilesTypeOK' /\ Artifacts'
<1>0. step = "instrument" /\ exit = "running"
  BY DEF Instrument, At
<1>1. /\ UnderWay /\ available_bdbase = NoBase /\ pos <= Len(Drivers)
      /\ W(BuildLevel, main) = awdir /\ files[awdir].bin = None
      /\ files[awdir].traces = {} /\ singletest
      /\ \A b : ScosOf(main, b) = ScosBuilt(main, b)
      /\ \A q \in 1..Len(Drivers) :
            Drivers[q] = main => /\ q = pos /\ HasWorkdir(q)
                                 /\ ProgramDir(q) = awdir /\ WorkDir(q) = awdir
  BY <1>0, BuildsOwn
<1>2. /\ Going /\ main \in DOMAIN Short /\ awdir \in Dirs
      /\ files \in [Dirs -> DirType] /\ builds \in Nat
  BY <1>1, UnderWayFacts
<1>3. CASE Quit /\ UNCHANGED disk
  BY <1>3, QuitArtifacts DEF disk, IInv, FilesTypeOK
<1>4. ASSUME files' = [files EXCEPT ![awdir].scos = ScosOf(main, builds + 1)],
             step' = "build", UNCHANGED <<place, builds, checked>>
      PROVE  FilesTypeOK' /\ Artifacts'
  <2> DEFINE new == [files[awdir] EXCEPT !.scos = ScosOf(main, builds + 1)]
  <2>1. builds + 1 \in Builds
    BY <1>2 DEF Builds
  <2>2. files[awdir] \in DirType
    BY <1>2
  <2>3. /\ new \in DirType /\ new.bin = None /\ new.traces = {}
        /\ new.scos = ScosBuilt(main, builds + 1) /\ new.ckpt = files[awdir].ckpt
    <3>1. ScosOf(main, builds + 1) \in [Sources -> Builds]
      BY <2>1, ScosOfType
    <3> QED
      BY <1>1, <2>2, <3>1 DEF DirType
  <2>4. files' = [files EXCEPT ![awdir] = new]
    BY <1>4
  <2> HIDE DEF new
  <2>5. files'[awdir] = new /\ \A dir \in Dirs : dir # awdir => files'[dir] = files[dir]
    BY <1>2, <2>4
  <2>6. FilesTypeOK'
    BY <1>2, <1>4, <2>3, <2>4 DEF FilesTypeOK
  <2>7. InHand'
    <3>1. /\ awdir' = awdir /\ (singletest' <=> singletest) /\ main' = main /\ opts' = opts
          /\ available_bdbase' = available_bdbase /\ builds' = builds
          /\ ScosBuilt(main, builds + 1)' = ScosBuilt(main, builds + 1)
      BY <1>4, SamePlace DEF ScosBuilt
    <3> QED
      BY <1>1, <1>4, <2>3, <2>5, <3>1 DEF InHand
  <2>8. ASSUME NEW q \in 1..Len(Drivers), Drivers[q] = main
        PROVE  /\ available_bdbase # NoBase \/ HasWorkdir(q)' =>
                     GoodProgram(files'[ProgramDir(q)], Drivers[q])
               /\ HasWorkdir(q)' =>
                     GoodTraces(files'[WorkDir(q)], files'[ProgramDir(q)].bin, q)
    <3>1. HasWorkdir(q) /\ ProgramDir(q) = awdir /\ WorkDir(q) = awdir
      BY <1>1, <2>8
    <3>2. GoodTraces(files[awdir], files[awdir].bin, q)
      BY <1>2, <3>1, GoingFacts
    <3>3. GoodTraces(new, new.bin, q)
      BY <2>3, <3>2 DEF GoodTraces
    <3>4. GoodProgram(new, Drivers[q])
      BY <2>3 DEF GoodProgram, None, Before
    <3> QED
      BY <2>5, <3>1, <3>3, <3>4
  <2> QED
    <3>1. ~(pos > Len(Drivers))
      BY <1>1, <1>2, GoingFacts
    <3>2. UNCHANGED <<place, checked>>
      BY <1>4
    <3> QED
      BY <1>1, <1>2, <3>1, <3>2, <2>5, <2>6, <2>7, <2>8, ArtifactsAfter
<1>5. CASE Raise /\ UNCHANGED <<place, disk, verdict, exit, qdata, checked>>
  <2>1. Quit /\ UNCHANGED disk
    BY <1>0, <1>1, <1>5 DEF Raise, Quit, verdict
  <2> QED
    BY <1>3, <2>1
<1>6. CASE Stop /\ UNCHANGED files
  <2>1. Quit /\ UNCHANGED disk
    BY <1>0, <1>1, <1>6, StopQuits DEF disk, Stop
  <2> QED
    BY <1>3, <2>1
<1>7. ASSUME NEW n \in PrintingXcovFailures, Continue(n, <<>>, "build"),
             UNCHANGED <<place, builds, qdata, checked>>
      PROVE  step' = "build" /\ UNCHANGED <<place, builds, checked>>
  BY <1>7 DEF Continue
<1> QED
  BY <1>4, <1>5, <1>6, <1>7 DEF Instrument

LEMMA BuildArtifacts ==
  ASSUME IInv, Build
  PROVE  FilesTypeOK' /\ Artifacts'
<1>0. step = "build" /\ exit = "running"
  BY DEF Build, At
<1>1. /\ UnderWay /\ available_bdbase = NoBase /\ pos <= Len(Drivers)
      /\ W(BuildLevel, main) = awdir /\ files[awdir].bin = None
      /\ files[awdir].traces = {} /\ singletest
      /\ \A b : ScosOf(main, b) = ScosBuilt(main, b)
      /\ \A q \in 1..Len(Drivers) :
            Drivers[q] = main => /\ q = pos /\ HasWorkdir(q)
                                 /\ ProgramDir(q) = awdir /\ WorkDir(q) = awdir
  BY <1>0, BuildsOwn
<1>2. /\ Going /\ main \in DOMAIN Short /\ awdir \in Dirs /\ InHand
      /\ files \in [Dirs -> DirType] /\ builds \in Nat /\ abdir_for(main) = awdir
      /\ opts.trace_mode \in {"bin", "src"}
  BY <1>1, UnderWayFacts, OptionsAssumption DEF OptionsAssumption, ScriptTypeOK
<1>3. CASE Stop /\ UNCHANGED files
  <2>1. Quit /\ UNCHANGED disk
    BY <1>0, <1>1, <1>3, StopQuits DEF disk, Stop
  <2> QED
    BY <2>1, QuitArtifacts DEF disk, IInv, FilesTypeOK
<1>4. ASSUME files' = [files EXCEPT
                         ![abdir_for(main)].bin = builds + 1,
                         ![abdir_for(main)].scos =
                            IF opts.trace_mode = "bin"
                            THEN ScosOf(main, builds + 1) ELSE @],
             builds' = builds + 1, step' = "run", UNCHANGED <<place, checked>>
      PROVE  FilesTypeOK' /\ Artifacts'
  <2> DEFINE ss == IF opts.trace_mode = "bin"
                   THEN ScosOf(main, builds + 1) ELSE files[awdir].scos
             new == [files[awdir] EXCEPT !.bin = builds + 1, !.scos = ss]
  <2>1. builds + 1 \in Builds /\ builds + 1 # Before
    BY <1>2 DEF Builds, Before
  <2>2. files[awdir] \in DirType
    BY <1>2
  <2>3. ss \in [Sources -> Builds] /\ ss = ScosBuilt(main, builds + 1)
    <3>1. ScosOf(main, builds + 1) \in [Sources -> Builds]
      BY <2>1, ScosOfType
    <3>2. files[awdir].scos \in [Sources -> Builds]
      BY <2>2 DEF DirType
    <3>3. opts.trace_mode = "src" => files[awdir].scos = ScosBuilt(main, builds + 1)
      BY <1>0, <1>2 DEF InHand
    <3> QED
      BY <1>1, <1>2, <3>1, <3>2, <3>3
  <2>4. files' = [files EXCEPT ![awdir] = new]
    <3>1. files' = [files EXCEPT ![awdir] =
                      [[files[awdir] EXCEPT !.bin = builds + 1] EXCEPT !.scos = ss]]
      BY <1>2, <1>4, <2>2 DEF DirType
    <3>2. [[files[awdir] EXCEPT !.bin = builds + 1] EXCEPT !.scos = ss] = new
      <4> HIDE DEF ss
      <4> QED
        BY <2>2 DEF DirType
    <3> QED
      BY <3>1, <3>2
  <2> HIDE DEF ss
  <2>5. /\ new \in DirType /\ new.bin = builds + 1 /\ new.traces = {}
        /\ new.scos = ScosBuilt(main, builds + 1) /\ new.ckpt = files[awdir].ckpt
    BY <1>1, <2>1, <2>2, <2>3 DEF DirType
  <2> HIDE DEF new
  <2>6. files'[awdir] = new /\ \A dir \in Dirs : dir # awdir => files'[dir] = files[dir]
    BY <1>2, <2>4
  <2>7. FilesTypeOK'
    <3>1. builds' \in Nat
      BY <1>2, <1>4
    <3> QED
      BY <1>2, <2>4, <2>5, <3>1 DEF FilesTypeOK
  <2>8. InHand'
    <3>1. awdir' = awdir /\ (singletest' <=> singletest)
      BY <1>4, SamePlace
    <3> QED
      BY <1>1, <1>4, <2>5, <2>6, <3>1 DEF InHand
  <2>9. ASSUME NEW q \in 1..Len(Drivers), Drivers[q] = main
        PROVE  /\ available_bdbase # NoBase \/ HasWorkdir(q)' =>
                     GoodProgram(files'[ProgramDir(q)], Drivers[q])
               /\ HasWorkdir(q)' =>
                     GoodTraces(files'[WorkDir(q)], files'[ProgramDir(q)].bin, q)
    <3>1. HasWorkdir(q) /\ ProgramDir(q) = awdir /\ WorkDir(q) = awdir
      BY <1>1, <2>9
    <3>2. GoodTraces(files[awdir], files[awdir].bin, q)
      BY <1>2, <3>1, GoingFacts
    <3>3. GoodTraces(new, new.bin, q)
      BY <2>5, <3>2 DEF GoodTraces
    <3>4. GoodProgram(new, Drivers[q])
      BY <2>1, <2>5, <2>9 DEF GoodProgram
    <3> QED
      BY <2>6, <3>1, <3>3, <3>4
  <2> QED
    <3>1. ~(pos > Len(Drivers))
      BY <1>1, <1>2, GoingFacts
    <3>2. UNCHANGED <<place, checked>>
      BY <1>4
    <3> QED
      BY <1>1, <1>2, <3>1, <3>2, <2>6, <2>7, <2>8, <2>9, ArtifactsAfter
<1> QED
  BY <1>3, <1>4 DEF Build

\* The only driver of the object under way has its directory and its program
LEMMA MainDriverFacts ==
  ASSUME IInv, UnderWay, step # "workdir", NEW q \in 1..Len(Drivers), Drivers[q] = main
  PROVE  /\ HasWorkdir(q) /\ singletest
         /\ ProgramDir(q) = W(BuildLevel, main) /\ WorkDir(q) = awdir
         /\ GoodProgram(files[W(BuildLevel, main)], main)
         /\ GoodTraces(files[awdir], files[W(BuildLevel, main)].bin, q)
<1>1. Going
  BY UnderWayFacts
<1>2. /\ singletest /\ (pos <= Len(Drivers) => q = pos)
      /\ (pos > Len(Drivers) => HasWorkdir(q))
      /\ ProgramDir(q) = W(BuildLevel, main) /\ WorkDir(q) = awdir
  BY <1>1, MainDriver
<1>3. pos \in Nat /\ Len(Drivers) \in Nat
  BY <1>1, GoingFacts
<1>4. HasWorkdir(q)
  BY <1>2, <1>3 DEF HasWorkdir
<1> QED
  BY <1>1, <1>2, <1>4, GoingFacts

LEMMA RunTestArtifacts ==
  ASSUME IInv, RunTest
  PROVE  FilesTypeOK' /\ Artifacts'
<1>0. step = "run" /\ exit = "running" /\ UnderWay
  BY DEF RunTest, At, UnderWay
<1>1. /\ Going /\ main \in DOMAIN Short /\ awdir \in Dirs /\ InHand
      /\ ScriptTypeOK /\ levels # <<>> /\ level \in Levels
      /\ files \in [Dirs -> DirType] /\ builds \in Nat
      /\ abdir_for(main) = W(BuildLevel, main) /\ W(BuildLevel, main) \in Dirs
  BY <1>0, UnderWayFacts
<1>2. singletest /\ files[awdir].traces = {}
  BY <1>0, <1>1 DEF InHand
<1>3. main \in Range(Drivers)
  BY <1>1, <1>2, ObjectKinds
<1> DEFINE pd == W(BuildLevel, main)
           bin == files[pd].bin
           T == Trace(main, bin, level)
<1>4. PICK r \in Executions(bin) :
        /\ files' = IF r.trace
                    THEN [files EXCEPT ![awdir].traces = @ \cup {T}] ELSE files
        /\ \/ Stop
           \/ /\ \E n \in ExecutionFailures, d \in {<<>>, <<"exception">>} :
                    Continue(n, d, "report")
              /\ UNCHANGED <<place, builds, qdata, checked>>
  BY <1>1, Zenon DEF RunTest
<1>5. (bin = None => ~r.trace) /\ r.trace \in BOOLEAN
  BY DEF Executions
<1>6. bin \in Builds
  BY <1>1 DEF DirType
<1> DEFINE new == [files[awdir] EXCEPT !.traces = IF r.trace THEN {T} ELSE {}]
<1>7. files[awdir] \in DirType /\ files[pd] \in DirType
  BY <1>1
<1>8. /\ new \in DirType /\ new.bin = files[awdir].bin /\ new.scos = files[awdir].scos
      /\ new.traces = (IF r.trace THEN {T} ELSE {}) /\ new.ckpt = files[awdir].ckpt
  <2>1. T \in TraceType
    BY <1>1, <1>3, <1>6 DEF Trace, TraceType
  <2> HIDE DEF T
  <2> QED
    BY <1>7, <2>1 DEF DirType
<1>9. files' = [files EXCEPT ![awdir] = new]
  <2> HIDE DEF T
  <2>1. CASE r.trace
    BY <1>1, <1>2, <1>4, <1>7, <2>1 DEF DirType
  <2>2. CASE ~r.trace
    <3>1. new = files[awdir]
      BY <1>2, <1>7, <2>2 DEF DirType
    <3> QED
      BY <1>1, <1>4, <2>2, <3>1
  <2> QED
    BY <2>1, <2>2
<1> HIDE DEF new
<1>10. files'[awdir] = new /\ \A dir \in Dirs : dir # awdir => files'[dir] = files[dir]
  BY <1>1, <1>9
<1>11. files'[pd].bin = bin /\ files'[pd].scos = files[pd].scos
  <2>1. CASE pd = awdir
    BY <1>8, <1>10, <2>1
  <2>2. CASE pd # awdir
    BY <1>1, <1>10, <2>2
  <2> QED
    BY <2>1, <2>2
<1>12. builds' = builds => FilesTypeOK'
  BY <1>1, <1>8, <1>9 DEF FilesTypeOK
<1> HIDE DEF pd, bin, T
<1>13. CASE Stop
  <2>1. Quit /\ builds' = builds
    BY <1>0, <1>13, StopQuits DEF Stop
  <2> QED
    BY <1>12, <2>1, QuitArtifacts
<1>14. ASSUME step' = "report", UNCHANGED <<place, builds, checked>>
       PROVE  FilesTypeOK' /\ Artifacts'
  <2>1. InHand'
    BY <1>14 DEF InHand
  <2>2. ASSUME NEW q \in 1..Len(Drivers), Drivers[q] = main
        PROVE  /\ available_bdbase # NoBase \/ HasWorkdir(q)' =>
                     GoodProgram(files'[ProgramDir(q)], Drivers[q])
               /\ HasWorkdir(q)' =>
                     GoodTraces(files'[WorkDir(q)], files'[ProgramDir(q)].bin, q)
    <3>1. /\ ProgramDir(q) = pd /\ WorkDir(q) = awdir
          /\ GoodProgram(files[pd], main) /\ GoodTraces(files[awdir], bin, q)
      BY <1>0, <2>2, MainDriverFacts DEF pd, bin
    <3>2. GoodProgram(files'[pd], Drivers[q])
      BY <1>11, <2>2, <3>1 DEF GoodProgram, bin
    <3>3. bin # Before
      BY <3>1 DEF GoodProgram, bin
    <3>4. r.trace => bin > Before
      BY <1>5, <1>6, <3>3 DEF Builds, Before, None
    <3>5. T = Trace(Drivers[q], bin, level)
      BY <2>2 DEF T
    <3>6. GoodTraces(new, bin, q)
      BY <1>8, <3>1, <3>4, <3>5 DEF GoodTraces
    <3> QED
      BY <1>10, <1>11, <3>1, <3>2, <3>6
  <2>3. ASSUME pos > Len(Drivers), singletest
        PROVE  files'[awdir].traces = {} /\ files'[pd].bin = None
    <3>1. SpecAlone(pos) /\ Len(Objects[pos].drivers) = 1
      BY <1>1, <2>3, GoingFacts, InHandFacts DEF singletest
    <3>2. bin = None
      BY <1>0, <1>1, <2>3, <3>1 DEF SpecAlone, bin, pd
    <3> QED
      BY <1>5, <1>8, <1>10, <1>11, <3>2
  <2>4. UNCHANGED <<place, checked>> /\ builds' = builds
    BY <1>14
  <2> QED
    BY <1>1, <1>10, <1>12, <1>14, <2>1, <2>2, <2>3, <2>4, ArtifactsAfter DEF pd
<1>15. ASSUME NEW n \in ExecutionFailures, NEW d \in {<<>>, <<"exception">>},
              Continue(n, d, "report"), UNCHANGED <<place, builds, qdata, checked>>
       PROVE  step' = "report" /\ UNCHANGED <<place, builds, checked>>
  BY <1>15 DEF Continue
<1> QED
  BY <1>4, <1>13, <1>14, <1>15

LEMMA GenXcovArtifacts ==
  ASSUME IInv, GenXcov
  PROVE  FilesTypeOK' /\ Artifacts'
<1>0. step = "xcov" /\ exit = "running" /\ UnderWay
  BY DEF GenXcov, At, UnderWay
<1>1. /\ Going /\ main \in DOMAIN Short /\ InHand
      /\ files \in [Dirs -> DirType] /\ builds \in Nat
  BY <1>0, UnderWayFacts
<1>2. CASE Stop /\ UNCHANGED files
  <2>1. Quit /\ UNCHANGED disk
    BY <1>0, <1>2, StopQuits DEF disk, Stop
  <2> QED
    BY <2>1, QuitArtifacts DEF disk, IInv, FilesTypeOK
<1>3. ASSUME step' = "check", UNCHANGED <<place, disk, checked>>
      PROVE  FilesTypeOK' /\ Artifacts'
  <2>1. files' = files /\ builds' = builds /\ UNCHANGED <<place, checked>>
    BY <1>3 DEF disk
  <2>2. InHand'
    <3>1. /\ awdir' = awdir /\ object' = object /\ level' = level /\ opts' = opts
      BY <2>1, SamePlace
    <3>2. /\ files[awdir].rep # <<>>
          /\ FromOwnArtifacts(opts, Check(level, object, files[awdir].rep[1], TRUE))
      BY <1>0, <1>1 DEF InHand
    <3> QED
      BY <1>3, <2>1, <3>1, <3>2 DEF InHand
  <2>3. ASSUME NEW q \in 1..Len(Drivers), Drivers[q] = main
        PROVE  /\ available_bdbase # NoBase \/ HasWorkdir(q)' =>
                     GoodProgram(files'[ProgramDir(q)], Drivers[q])
               /\ HasWorkdir(q)' =>
                     GoodTraces(files'[WorkDir(q)], files'[ProgramDir(q)].bin, q)
    BY <1>0, <2>1, <2>3, MainDriverFacts
  <2>4. ~(pos > Len(Drivers) /\ singletest)
    <3> SUFFICES ASSUME pos > Len(Drivers), singletest PROVE FALSE
      OBVIOUS
    <3>1. SpecAlone(pos) /\ Len(Objects[pos].drivers) = 1
      BY <1>1, GoingFacts, InHandFacts DEF singletest
    <3> QED
      BY <1>0, <3>1 DEF SpecAlone
  <2>5. FilesTypeOK'
    BY <1>1, <2>1 DEF FilesTypeOK
  <2> QED
    BY <1>1, <2>1, <2>2, <2>3, <2>4, <2>5, ArtifactsAfter
<1>4. ASSUME NEW n \in PrintingXcovFailures, Continue(n, <<>>, "check"),
             UNCHANGED <<place, disk, qdata, checked>>
      PROVE  step' = "check" /\ UNCHANGED <<place, disk, checked>>
  BY <1>4 DEF Continue
<1> QED
  BY <1>2, <1>3, <1>4 DEF GenXcov

-----------------------------------------------------------------------------
(* Reports are made from the artifacts of the drivers *)

LEMMA MinFacts ==
  ASSUME NEW S \in SUBSET Nat, S # {}
  PROVE  Min(S) \in S
<1> DEFINE R == OpToRel(<, Nat)
<1>1. \A x, y \in Nat : x < y => <<x, y>> \in R
  BY DEF OpToRel
<1>2. IsWellFoundedOn(R, Nat)
  BY NatLessThanWellFounded
<1> HIDE DEF R
<1>3. PICK m \in S : \A n \in S : ~(<<n, m>> \in R)
  BY <1>2, WFMin
<1>4. \A n \in S : ~(n < m)
  BY <1>1, <1>3
<1>5. \A n \in S : m <= n
  BY <1>4
<1> QED
  BY <1>5 DEF Min

LEMMA RangeFinite ==
  ASSUME NEW S, NEW s \in Seq(S)
  PROVE  IsFiniteSet(Range(s))
<1>1. DOMAIN s = 1..Len(s) /\ Len(s) \in Int /\ 1 \in Int
  OBVIOUS
<1>2. IsFiniteSet(DOMAIN s)
  BY <1>1, FS_Interval
<1>3. s \in Surjection(DOMAIN s, Range(s))
  <2>1. s \in [DOMAIN s -> Range(s)]
    BY <1>1 DEF Range
  <2>2. \A t \in Range(s) : \E i \in DOMAIN s : s[i] = t
    BY DEF Range
  <2> QED
    BY <2>1, <2>2 DEF Surjection
<1> QED
  BY <1>2, <1>3, FS_Surjection

\* One trace for each of some drivers: as many traces as drivers
LEMMA OneTraceEach ==
  ASSUME NEW D, IsFiniteSet(D), NEW f \in [D -> TraceType],
         \A p \in D : f[p].prog = p
  PROVE  LET ts == {f[p] : p \in D}
         IN  {t.prog : t \in ts} = D /\ Cardinality(ts) = Cardinality(D)
<1> DEFINE ts == {f[p] : p \in D}
<1>1. {t.prog : t \in ts} = D
  OBVIOUS
<1>2. f \in Bijection(D, ts)
  <2>1. f \in [D -> ts]
    OBVIOUS
  <2>2. \A p, q \in D : f[p] = f[q] => p = q
    OBVIOUS
  <2>3. \A t \in ts : \E p \in D : f[p] = t
    OBVIOUS
  <2> QED
    BY <2>1, <2>2, <2>3 DEF Bijection, Injection, Surjection, IsInjective
<1>3. Cardinality(ts) = Cardinality(D)
  BY <1>2, FS_Bijection DEF ExistsBijection
<1> QED
  BY <1>1, <1>3

BinOf(p) == files[abdir_for(p)].bin

\* The SCOs of a source are among those of its build for a driver
HasScos(s, p) ==
  /\ s \in Closure[p] \ Subunits
  /\ opts.trace_mode = "src" => s \in Interest[p]

LEMMA ScosBuiltFacts ==
  ASSUME NEW s \in Sources, NEW p, NEW b, b # None
  PROVE  ScosBuilt(p, b)[s] = IF HasScos(s, p) THEN b ELSE None
  BY DEF ScosBuilt, HasScos

\* All the drivers of an object that comes to its report have run now
LEMMA DriversReady ==
  ASSUME IInv, step = "report", InputsFound
  PROVE  /\ Going /\ (singletest => pos <= Len(Drivers))
         /\ object.drivers \in Seq(Range(Drivers))
         /\ \A p \in Range(object.drivers) :
              /\ p \in Range(Drivers) /\ p \in DOMAIN Short
              /\ files[abdir_for(p)] \in DirType /\ files[awdir_for(p)] \in DirType
              /\ BinOf(p) # None => files[abdir_for(p)].scos = ScosBuilt(p, BinOf(p))
              /\ ~use_checkpoint_inputs =>
                   TracesFor(p) = {Trace(p, BinOf(p), level)} /\ BinOf(p) > Before
              /\ use_checkpoint_inputs =>
                   /\ files[awdir_for(p)].ckpt # <<>>
                   /\ \E t \in files[awdir_for(p)].ckpt[1].traces :
                         files[awdir_for(p)].ckpt[1].traces = {t}
                   /\ FromOwnArtifacts(opts,
                        Check(level, [name |-> p, drivers |-> <<p>>],
                              files[awdir_for(p)].ckpt[1], TRUE))
<1>1. UnderWay
  BY DEF UnderWay
<1>2. /\ Going /\ ScriptInv /\ ScriptTypeOK /\ levels # <<>> /\ ProgramsPlace
      /\ files \in [Dirs -> DirType]
  BY <1>1, UnderWayFacts
<1>3. /\ object.drivers \in Seq(Range(Drivers)) /\ object = Objects[pos]
      /\ pos \in 1..Len(Objects) /\ level \in Levels
  BY <1>2, InHandFacts
<1>4. /\ BuildLevel \in Levels
      /\ \A m : awdir_for(m) = W(level, m) /\ abdir_for(m) = W(BuildLevel, m)
  BY <1>2, PlaceFacts
<1>5. pos \in Nat /\ Len(Drivers) \in Nat \ {0} /\ DOMAIN Objects = 1..Len(Objects)
  BY <1>2, GoingFacts
<1>6. ASSUME singletest, pos > Len(Drivers)
      PROVE  FALSE
  <2>1. files[awdir].traces = {}
    <3>1. SpecAlone(pos) /\ Len(Objects[pos].drivers) = 1
      BY <1>2, <1>3, <1>5, <1>6, GoingFacts DEF singletest
    <3> QED
      BY <1>6, <3>1 DEF SpecAlone
  <2>2. main \in Range(object.drivers)
    BY <1>2, <1>6, ObjectKinds
  <2>3. Cardinality(TracesFor(main)) = 1
    BY <1>6, <2>2 DEF InputsFound, use_checkpoint_inputs
  <2>4. TracesFor(main) = {}
    BY <2>1 DEF TracesFor, awdir
  <2> QED
    BY <2>3, <2>4, FS_EmptySet
<1>7. ASSUME NEW p \in Range(object.drivers)
      PROVE  /\ p \in Range(Drivers) /\ p \in DOMAIN Short
             /\ files[abdir_for(p)] \in DirType /\ files[awdir_for(p)] \in DirType
             /\ BinOf(p) # None => files[abdir_for(p)].scos = ScosBuilt(p, BinOf(p))
             /\ ~use_checkpoint_inputs =>
                  TracesFor(p) = {Trace(p, BinOf(p), level)} /\ BinOf(p) > Before
             /\ use_checkpoint_inputs =>
                  /\ files[awdir_for(p)].ckpt # <<>>
                  /\ \E t \in files[awdir_for(p)].ckpt[1].traces :
                        files[awdir_for(p)].ckpt[1].traces = {t}
                  /\ FromOwnArtifacts(opts,
                       Check(level, [name |-> p, drivers |-> <<p>>],
                             files[awdir_for(p)].ckpt[1], TRUE))
  <2>1. p \in Range(Drivers)
    BY <1>3 DEF Range
  <2>2. PICK q \in 1..Len(Drivers) : p = Drivers[q]
    BY <2>1, DriversFacts
  <2>3. p \in DOMAIN Short
    BY <2>1, DriversFacts
  <2>4. abdir_for(p) = ProgramDir(q) /\ awdir_for(p) = WorkDir(q)
    BY <1>4, <2>2 DEF ProgramDir, WorkDir
  <2>5. abdir_for(p) \in Dirs /\ awdir_for(p) \in Dirs
    BY <1>3, <1>4, <2>3, DirsFacts
  <2>6. HasWorkdir(q)
    <3>1. CASE pos <= Len(Drivers)
      <4>1. Drivers[q] = main
        BY <1>2, <2>2, <3>1, ObjectKinds
      <4>2. q = pos
        BY <1>2, <3>1, <4>1, MainDriver
      <4> QED
        BY <1>1, <4>2 DEF HasWorkdir
    <3>2. CASE pos > Len(Drivers)
      BY <1>5, <3>2 DEF HasWorkdir
    <3> QED
      BY <1>5, <3>1, <3>2
  <2>7. /\ GoodProgram(files[abdir_for(p)], p)
        /\ GoodTraces(files[awdir_for(p)], BinOf(p), q)
    BY <1>2, <2>2, <2>4, <2>6, GoingFacts DEF BinOf
  <2>8. BinOf(p) # None => files[abdir_for(p)].scos = ScosBuilt(p, BinOf(p))
    BY <2>7 DEF GoodProgram, BinOf
  <2>9. ASSUME ~use_checkpoint_inputs
        PROVE  TracesFor(p) = {Trace(p, BinOf(p), level)} /\ BinOf(p) > Before
    <3>1. Cardinality(TracesFor(p)) = 1
      BY <2>9 DEF InputsFound
    <3>2. TracesFor(p) # {}
      BY <3>1, FS_EmptySet
    <3>3. TracesFor(p) \subseteq files[awdir_for(p)].traces
      BY DEF TracesFor
    <3> QED
      BY <2>2, <2>7, <3>2, <3>3 DEF GoodTraces
  <2>10. ASSUME use_checkpoint_inputs
         PROVE  /\ files[awdir_for(p)].ckpt # <<>>
                /\ \E t \in files[awdir_for(p)].ckpt[1].traces :
                      files[awdir_for(p)].ckpt[1].traces = {t}
                /\ FromOwnArtifacts(opts,
                     Check(level, [name |-> p, drivers |-> <<p>>],
                           files[awdir_for(p)].ckpt[1], TRUE))
    <3>1. opts.consolidate = "checkpoints" /\ files[awdir_for(p)].ckpt # <<>>
      BY <2>10 DEF InputsFound, use_checkpoint_inputs
    <3>2. Objects[q] = [name |-> p, drivers |-> <<p>>]
      BY <1>2, <2>2, ObjectsFacts DEF ScriptTypeOK
    <3> QED
      BY <2>7, <3>1, <3>2 DEF GoodTraces
  <2> QED
    BY <1>2, <2>1, <2>3, <2>5, <2>8, <2>9, <2>10
<1>8. singletest => pos <= Len(Drivers)
  BY <1>5, <1>6
<1> QED
  BY <1>2, <1>3, <1>7, <1>8

\* The SCO file located for a source is of one of the programs
LEMMA LocateScofileFacts ==
  ASSUME NEW s \in Sources, object.drivers \in Seq(Range(Drivers)),
         \A p \in Range(object.drivers) :
           /\ BinOf(p) # None
           /\ files[abdir_for(p)].scos = ScosBuilt(p, BinOf(p))
  PROVE  /\ \A x \in LocateScofile(s) :
              x = <<s, x[2]>> /\ \E p \in Range(object.drivers) : x[2] = BinOf(p) /\ HasScos(s, p)
         /\ \A p \in Range(object.drivers) : HasScos(s, p) => LocateScofile(s) # {}
<1> DEFINE found(i) == files[abdir_for(object.drivers[i])].scos[s]
           have == {i \in DOMAIN object.drivers : found(i) # None}
<1>1. DOMAIN object.drivers \subseteq Nat
  OBVIOUS
<1>2. ASSUME NEW i \in DOMAIN object.drivers
      PROVE  /\ object.drivers[i] \in Range(object.drivers)
             /\ found(i) = IF HasScos(s, object.drivers[i])
                           THEN BinOf(object.drivers[i]) ELSE None
             /\ BinOf(object.drivers[i]) # None
  <2>1. object.drivers[i] \in Range(object.drivers)
    BY DEF Range
  <2>2. /\ BinOf(object.drivers[i]) # None
        /\ files[abdir_for(object.drivers[i])].scos
             = ScosBuilt(object.drivers[i], BinOf(object.drivers[i]))
    BY <2>1
  <2> QED
    BY <2>1, <2>2, ScosBuiltFacts
<1>3. LocateScofile(s) = IF have = {} THEN {} ELSE {<<s, found(Min(have))>>}
  BY DEF LocateScofile
<1>4. have # {} => Min(have) \in have
  <2>1. have \in SUBSET Nat
    BY <1>1
  <2> HIDE DEF have
  <2> QED
    BY <2>1, MinFacts
<1>5. ASSUME NEW x \in LocateScofile(s)
      PROVE  x = <<s, x[2]>> /\ \E p \in Range(object.drivers) : x[2] = BinOf(p) /\ HasScos(s, p)
  <2>1. have # {} /\ x = <<s, found(Min(have))>>
    BY <1>3
  <2>2. Min(have) \in DOMAIN object.drivers /\ found(Min(have)) # None
    BY <1>4, <2>1
  <2> QED
    BY <1>2, <2>1, <2>2
<1>6. ASSUME NEW p \in Range(object.drivers), HasScos(s, p)
      PROVE  LocateScofile(s) # {}
  <2>1. PICK i \in DOMAIN object.drivers : p = object.drivers[i]
    BY DEF Range
  <2>2. found(i) # None
    BY <1>2, <1>6, <2>1
  <2>3. i \in have
    BY <2>2
  <2> QED
    BY <1>3, <2>3
<1> QED
  BY <1>5, <1>6

\* The SCOs a report is given: those of interest that a program was built with
LEMMA ScoOptionsFacts ==
  ASSUME IInv, step = "report", InputsFound, ~use_checkpoint_inputs
  PROVE  /\ \A x \in coverage_sco_options :
              /\ x = <<x[1], x[2]>> /\ x[1] \in Interest[object.name]
              /\ \E p \in Range(object.drivers) : x[2] = BinOf(p) /\ HasScos(x[1], p)
         /\ \A s \in Interest[object.name], p \in Range(object.drivers) :
              HasScos(s, p) => \E x \in coverage_sco_options : x[1] = s
<1>0. /\ Going /\ (singletest => pos <= Len(Drivers))
      /\ object.drivers \in Seq(Range(Drivers))
      /\ \A p \in Range(object.drivers) :
           /\ BinOf(p) # None => files[abdir_for(p)].scos = ScosBuilt(p, BinOf(p))
           /\ BinOf(p) > Before
  BY DriversReady
<1>1. ScriptInv /\ ScriptTypeOK /\ levels # <<>> /\ ProgramsPlace
  BY <1>0, GoingFacts
<1>2. Interest[object.name] \subseteq Sources
  <2>1. object.name \in DOMAIN Short
    BY <1>1, InHandFacts
  <2> QED
    BY <2>1, NamesAssumption DEF NamesAssumption
<1>3. \A p \in Range(object.drivers) :
        BinOf(p) # None /\ files[abdir_for(p)].scos = ScosBuilt(p, BinOf(p))
  BY <1>0 DEF Before, None
<1>4. CASE opts.gprmode /\ singletest /\ ~wdctl.reuse_bin
  <2>1. coverage_sco_options = ProjectScos
    BY <1>4 DEF coverage_sco_options
  <2>2. awdir = abdir_for(main)
    BY <1>1, <1>4, PlaceFacts
  <2>3. Range(object.drivers) = {main}
    BY <1>1, <1>4, ObjectKinds
  <2>4. BinOf(main) # None /\ files[awdir].scos = ScosBuilt(main, BinOf(main))
    BY <1>3, <2>2, <2>3
  <2>5. ASSUME NEW s \in Interest[object.name]
        PROVE  files[awdir].scos[s] = IF HasScos(s, main) THEN BinOf(main) ELSE None
    BY <1>2, <2>4, ScosBuiltFacts
  <2>6. ASSUME NEW x \in ProjectScos
        PROVE  /\ x = <<x[1], x[2]>> /\ x[1] \in Interest[object.name]
               /\ x[2] = BinOf(main) /\ HasScos(x[1], main)
    <3>1. PICK s \in Interest[object.name] :
            files[awdir].scos[s] # None /\ x = <<s, files[awdir].scos[s]>>
      BY DEF ProjectScos
    <3> QED
      BY <2>5, <3>1
  <2>7. ASSUME NEW s \in Interest[object.name], HasScos(s, main)
        PROVE  \E x \in ProjectScos : x[1] = s
    <3>1. files[awdir].scos[s] # None
      BY <2>4, <2>5, <2>7
    <3>2. <<s, files[awdir].scos[s]>> \in ProjectScos
      BY <3>1 DEF ProjectScos
    <3> QED
      BY <3>2
  <2> QED
    BY <2>1, <2>3, <2>6, <2>7
<1>5. CASE ~(opts.gprmode /\ singletest /\ ~wdctl.reuse_bin)
  <2>1. coverage_sco_options = ScofilesList
    BY <1>5 DEF coverage_sco_options
  <2>2. ASSUME NEW s \in Interest[object.name]
        PROVE  /\ \A x \in LocateScofile(s) :
                    /\ x = <<s, x[2]>>
                    /\ \E p \in Range(object.drivers) : x[2] = BinOf(p) /\ HasScos(s, p)
               /\ \A p \in Range(object.drivers) : HasScos(s, p) => LocateScofile(s) # {}
    BY <1>0, <1>2, <1>3, LocateScofileFacts
  <2>3. ASSUME NEW x \in ScofilesList
        PROVE  /\ x = <<x[1], x[2]>> /\ x[1] \in Interest[object.name]
               /\ \E p \in Range(object.drivers) : x[2] = BinOf(p) /\ HasScos(x[1], p)
    <3>1. PICK s \in Interest[object.name] : x \in LocateScofile(s)
      BY DEF ScofilesList
    <3> QED
      BY <2>2, <3>1
  <2>4. ASSUME NEW s \in Interest[object.name], NEW p \in Range(object.drivers),
               HasScos(s, p)
        PROVE  \E x \in ScofilesList : x[1] = s
    <3>1. PICK x \in LocateScofile(s) : TRUE
      BY <2>2, <2>4
    <3>2. x \in ScofilesList /\ x[1] = s
      BY <2>2, <3>1 DEF ScofilesList
    <3> QED
      BY <3>2
  <2> QED
    BY <2>1, <2>3, <2>4
<1> QED
  BY <1>4, <1>5

LEMMA TracesReportOwn ==
  ASSUME IInv, step = "report", InputsFound, ~use_checkpoint_inputs
  PROVE  /\ FromOwnArtifacts(opts, Check(level, object, Report, TRUE))
         /\ Report.traces =
              {Trace(p, BinOf(p), level) : p \in Range(object.drivers)}
<1> DEFINE D == Range(object.drivers)
           c == Check(level, object, Report, TRUE)
           f == [p \in D |-> Trace(p, BinOf(p), level)]
<1>0. /\ Going /\ (singletest => pos <= Len(Drivers))
      /\ object.drivers \in Seq(Range(Drivers))
      /\ \A p \in D :
           /\ p \in Range(Drivers) /\ files[abdir_for(p)] \in DirType
           /\ TracesFor(p) = {Trace(p, BinOf(p), level)} /\ BinOf(p) > Before
  BY DriversReady
<1>1. ScriptInv /\ ScriptTypeOK /\ levels # <<>> /\ level \in Levels
  BY <1>0, GoingFacts, InHandFacts
<1>2. IsFiniteSet(D)
  BY <1>0, RangeFinite
<1>3. \A p \in D : f[p] \in TraceType /\ f[p].prog = p /\ f[p].build = BinOf(p)
                   /\ f[p].level = level
  BY <1>0, <1>1 DEF Trace, TraceType, DirType, BinOf
<1>4. Report.traces = {f[p] : p \in D}
  <2>1. Report.traces = UNION {TracesFor(p) : p \in D}
    BY DEF Report
  <2> QED
    BY <1>0, <2>1
<1>5. /\ Report.scos = coverage_sco_options
      /\ Report.bins = {<<p, BinOf(p)>> : p \in D}
  BY DEF Report, BinOf
<1>6. c.level = level /\ c.name = object.name /\ c.drivers = D /\ c.report = Report
  BY DEF Check
<1>7. /\ \A x \in coverage_sco_options :
           /\ x[1] \in Interest[object.name]
           /\ \E p \in D : x[2] = BinOf(p) /\ HasScos(x[1], p)
      /\ \A s \in Interest[object.name], p \in D :
           HasScos(s, p) => \E x \in coverage_sco_options : x[1] = s
  BY ScoOptionsFacts
<1> HIDE DEF c
<1>8. \A s : s \in OfInterest(opts, c) <=>
               s \in Interest[object.name] /\ \E p \in D : HasScos(s, p)
  <2>1. CASE opts.consolidate = "checkpoints"
    <3>1. singletest
      BY <2>1 DEF use_checkpoint_inputs
    <3>2. D = {object.name}
      BY <1>0, <1>1, <3>1, ObjectKinds
    <3> QED
      BY <1>6, <2>1, <3>2 DEF OfInterest, HasScos
  <2>2. CASE opts.consolidate # "checkpoints"
    BY <1>6, <2>2 DEF OfInterest, HasScos
  <2> QED
    BY <2>1, <2>2
<1>9. {t.prog : t \in c.report.traces} = c.drivers
      /\ Cardinality(c.report.traces) = Cardinality(c.drivers)
  <2>1. f \in [D -> TraceType]
    BY <1>3
  <2> HIDE DEF D, f
  <2> QED
    BY <1>2, <1>3, <1>4, <1>6, <2>1, OneTraceEach
<1>10. \A t \in c.report.traces :
          /\ t.level = c.level /\ t.build > Before
          /\ <<t.prog, t.build>> \in c.report.bins
  BY <1>0, <1>3, <1>4, <1>5, <1>6
<1>11. \A x \in c.report.scos :
          \E t \in c.report.traces : t.build = x[2] /\ x[1] \in Closure[t.prog]
  <2> SUFFICES ASSUME NEW x \in coverage_sco_options
               PROVE  \E t \in Report.traces : t.build = x[2] /\ x[1] \in Closure[t.prog]
    BY <1>5, <1>6
  <2>1. PICK p \in D : x[2] = BinOf(p) /\ HasScos(x[1], p)
    BY <1>7
  <2>2. f[p] \in Report.traces /\ x[1] \in Closure[p]
    BY <1>4, <2>1 DEF HasScos
  <2> QED
    BY <1>3, <2>1, <2>2
<1>12. {x[1] : x \in c.report.scos} = OfInterest(opts, c)
  <2>1. ASSUME NEW s \in OfInterest(opts, c)
        PROVE  \E x \in coverage_sco_options : x[1] = s
    BY <1>7, <1>8
  <2>2. \A x \in coverage_sco_options : x[1] \in OfInterest(opts, c)
    BY <1>7, <1>8
  <2>3. c.report.scos = coverage_sco_options
    BY <1>5, <1>6
  <2> QED
    BY <2>1, <2>2, <2>3
<1>13. FromOwnArtifacts(opts, c)
  BY <1>9, <1>10, <1>11, <1>12 DEF FromOwnArtifacts
<1> QED
  BY <1>4, <1>13 DEF c

LEMMA CheckpointsReportOwn ==
  ASSUME IInv, step = "report", InputsFound, use_checkpoint_inputs
  PROVE  FromOwnArtifacts(opts, Check(level, object, Report, TRUE))
<1> DEFINE D == Range(object.drivers)
           ck(p) == files[awdir_for(p)].ckpt[1]
           one(p) == Check(level, [name |-> p, drivers |-> <<p>>], ck(p), TRUE)
           f == [p \in D |-> CHOOSE t \in ck(p).traces : ck(p).traces = {t}]
           c == Check(level, object, Report, TRUE)
<1>0. /\ Going /\ object.drivers \in Seq(Range(Drivers))
      /\ \A p \in D :
           /\ files[awdir_for(p)] \in DirType /\ files[awdir_for(p)].ckpt # <<>>
           /\ \E t \in ck(p).traces : ck(p).traces = {t}
           /\ FromOwnArtifacts(opts, one(p))
  BY DriversReady
<1>1. IsFiniteSet(D)
  BY <1>0, RangeFinite
<1>2. \A p \in D : ck(p) \in ReportType
  <2> SUFFICES ASSUME NEW p \in D PROVE ck(p) \in ReportType
    OBVIOUS
  <2>1. files[awdir_for(p)].ckpt \in Seq(ReportType) /\ files[awdir_for(p)].ckpt # <<>>
    BY <1>0 DEF DirType
  <2> QED
    BY <2>1
<1>3. \A p \in D : one(p).level = level /\ one(p).name = p /\ one(p).drivers = {p}
                   /\ one(p).report = ck(p)
  <2> SUFFICES ASSUME NEW p \in D
               PROVE  one(p).level = level /\ one(p).name = p /\ one(p).drivers = {p}
                      /\ one(p).report = ck(p)
    OBVIOUS
  <2>1. Range(<<p>>) = {p}
    BY DEF Range
  <2> QED
    BY <2>1 DEF Check
<1> HIDE DEF one
<1>4. \A p \in D : f[p] \in ck(p).traces /\ ck(p).traces = {f[p]}
  BY <1>0
<1>5. \A p \in D :
        /\ f[p] \in TraceType /\ f[p].prog = p /\ f[p].level = level
        /\ f[p].build > Before /\ <<p, f[p].build>> \in ck(p).bins
  <2> SUFFICES ASSUME NEW p \in D
               PROVE  /\ f[p] \in TraceType /\ f[p].prog = p /\ f[p].level = level
                      /\ f[p].build > Before /\ <<p, f[p].build>> \in ck(p).bins
    OBVIOUS
  <2>1. FromOwnArtifacts(opts, one(p)) /\ f[p] \in ck(p).traces
    BY <1>0, <1>4
  <2>2. f[p] \in TraceType
    BY <1>2, <2>1 DEF ReportType
  <2>3. {t.prog : t \in ck(p).traces} = {p}
    BY <1>3, <2>1 DEF FromOwnArtifacts
  <2>4. f[p].prog = p
    BY <2>1, <2>3
  <2>5. /\ f[p].level = level /\ f[p].build > Before
        /\ <<f[p].prog, f[p].build>> \in ck(p).bins
    BY <1>3, <2>1 DEF FromOwnArtifacts
  <2> QED
    BY <2>2, <2>4, <2>5
<1>6. \A p \in D :
        /\ \A x \in ck(p).scos : f[p].build = x[2] /\ x[1] \in Closure[p]
        /\ {x[1] : x \in ck(p).scos} = OfInterest(opts, one(p))
  <2> SUFFICES ASSUME NEW p \in D
               PROVE  /\ \A x \in ck(p).scos : f[p].build = x[2] /\ x[1] \in Closure[p]
                      /\ {x[1] : x \in ck(p).scos} = OfInterest(opts, one(p))
    OBVIOUS
  <2>1. FromOwnArtifacts(opts, one(p)) /\ ck(p).traces = {f[p]} /\ f[p].prog = p
    BY <1>0, <1>4, <1>5
  <2>2. /\ \A x \in ck(p).scos :
             \E t \in ck(p).traces : t.build = x[2] /\ x[1] \in Closure[t.prog]
        /\ {x[1] : x \in ck(p).scos} = OfInterest(opts, one(p))
    BY <1>3, <2>1 DEF FromOwnArtifacts
  <2> QED
    BY <2>1, <2>2
<1>7. /\ Report.traces = UNION {ck(p).traces : p \in D}
      /\ Report.scos = UNION {ck(p).scos : p \in D}
      /\ Report.bins = UNION {ck(p).bins : p \in D}
  <2> DEFINE cs == {ck(p) : p \in D}
  <2>1. /\ Report.traces = UNION {x.traces : x \in cs}
        /\ Report.scos = UNION {x.scos : x \in cs}
        /\ Report.bins = UNION {x.bins : x \in cs}
    BY DEF Report
  <2> HIDE DEF ck
  <2> QED
    BY <2>1
<1>8. Report.traces = {f[p] : p \in D}
  BY <1>4, <1>7
<1>9. c.level = level /\ c.name = object.name /\ c.drivers = D /\ c.report = Report
  BY DEF Check
<1> HIDE DEF c, ck
<1>10. {t.prog : t \in c.report.traces} = c.drivers
       /\ Cardinality(c.report.traces) = Cardinality(c.drivers)
  <2>1. f \in [D -> TraceType]
    BY <1>5
  <2> HIDE DEF D, f
  <2> QED
    <3>1. \A p \in D : f[p].prog = p
      BY <1>5
    <3>2. LET ts == {f[p] : p \in D}
          IN  {t.prog : t \in ts} = D /\ Cardinality(ts) = Cardinality(D)
      BY <1>1, <2>1, <3>1, OneTraceEach
    <3> QED
      BY <1>8, <1>9, <3>2
<1> HIDE DEF f
<1>11. \A t \in c.report.traces :
          /\ t.level = c.level /\ t.build > Before
          /\ <<t.prog, t.build>> \in c.report.bins
  <2> SUFFICES ASSUME NEW p \in D
               PROVE  /\ f[p].level = level /\ f[p].build > Before
                      /\ <<f[p].prog, f[p].build>> \in Report.bins
    BY <1>8, <1>9
  <2>1. /\ f[p].prog = p /\ f[p].level = level /\ f[p].build > Before
        /\ <<p, f[p].build>> \in ck(p).bins
    BY <1>5
  <2> QED
    BY <1>7, <2>1
<1>12. \A x \in c.report.scos :
          \E t \in c.report.traces : t.build = x[2] /\ x[1] \in Closure[t.prog]
  <2> SUFFICES ASSUME NEW p \in D, NEW x \in ck(p).scos
               PROVE  \E t \in Report.traces : t.build = x[2] /\ x[1] \in Closure[t.prog]
    BY <1>7, <1>9
  <2>1. f[p].build = x[2] /\ x[1] \in Closure[p] /\ f[p].prog = p
    BY <1>5, <1>6
  <2>2. f[p] \in Report.traces
    BY <1>8
  <2> QED
    BY <2>1, <2>2
<1>13. {x[1] : x \in c.report.scos} = OfInterest(opts, c)
  <2>1. opts.consolidate = "checkpoints"
    BY DEF use_checkpoint_inputs
  <2>2. \A s : s \in OfInterest(opts, c) <=>
                 \E p \in D : s \in (Interest[p] \cap Closure[p]) \ Subunits
    BY <1>9, <2>1 DEF OfInterest
  <2>3. \A p \in D : \A s : s \in OfInterest(opts, one(p)) <=>
                              s \in (Interest[p] \cap Closure[p]) \ Subunits
    BY <1>3, <2>1 DEF OfInterest
  <2>4. ASSUME NEW s
        PROVE  s \in {x[1] : x \in c.report.scos} <=> s \in OfInterest(opts, c)
    <3>1. s \in {x[1] : x \in c.report.scos} <=>
            \E p \in D : s \in {x[1] : x \in ck(p).scos}
      BY <1>7, <1>9
    <3> QED
      BY <1>6, <2>2, <2>3, <3>1
  <2> QED
    BY <2>4
<1>14. FromOwnArtifacts(opts, c)
  BY <1>10, <1>11, <1>12, <1>13 DEF FromOwnArtifacts
<1> QED
  BY <1>14 DEF c

LEMMA ReportTyped ==
  ASSUME IInv, step = "report", InputsFound
  PROVE  Report \in ReportType
<1> DEFINE D == Range(object.drivers)
           ck(p) == files[awdir_for(p)].ckpt[1]
<1>0. /\ Going
      /\ \A p \in D :
           /\ p \in Range(Drivers)
           /\ files[abdir_for(p)] \in DirType /\ files[awdir_for(p)] \in DirType
           /\ use_checkpoint_inputs => files[awdir_for(p)].ckpt # <<>>
  BY DriversReady
<1>1. /\ ScriptTypeOK /\ levels # <<>>
  BY <1>0, GoingFacts
<1>2. CASE use_checkpoint_inputs
  <2>1. ASSUME NEW p \in D PROVE ck(p) \in ReportType
    <3>1. files[awdir_for(p)].ckpt \in Seq(ReportType) /\ files[awdir_for(p)].ckpt # <<>>
      BY <1>0, <1>2 DEF DirType
    <3> QED
      BY <3>1
  <2> DEFINE cs == {ck(p) : p \in D}
  <2>2. cs \subseteq ReportType
    BY <2>1
  <2>3. Report = [traces |-> UNION {x.traces : x \in cs}, scos |-> UNION {x.scos : x \in cs},
                  bins |-> UNION {x.bins : x \in cs}]
    BY <1>2 DEF Report
  <2> HIDE DEF cs
  <2>4. \A x \in cs : /\ x.traces \subseteq TraceType /\ x.scos \subseteq Sources \X Builds
                      /\ x.bins \subseteq Range(Drivers) \X Builds
    BY <2>2 DEF ReportType
  <2>5. /\ UNION {x.traces : x \in cs} \subseteq TraceType
        /\ UNION {x.scos : x \in cs} \subseteq Sources \X Builds
        /\ UNION {x.bins : x \in cs} \subseteq Range(Drivers) \X Builds
    BY <2>4
  <2> QED
    BY <2>3, <2>5 DEF ReportType
<1>3. CASE ~use_checkpoint_inputs
  <2> DEFINE ts == UNION {TracesFor(p) : p \in D}
             bs == {<<p, files[abdir_for(p)].bin>> : p \in D}
  <2>1. Report = [traces |-> ts, scos |-> coverage_sco_options, bins |-> bs]
    BY <1>3 DEF Report
  <2>2. \A p \in D : TracesFor(p) \subseteq TraceType /\ files[abdir_for(p)].bin \in Builds
    BY <1>0 DEF DirType, TracesFor
  <2>3. ts \subseteq TraceType /\ bs \subseteq Range(Drivers) \X Builds
    BY <1>0, <2>2
  <2>4. coverage_sco_options \subseteq Sources \X Builds
    <3>1. ASSUME NEW x \in coverage_sco_options
          PROVE  x \in Sources \X Builds
      <4>1. /\ x = <<x[1], x[2]>> /\ x[1] \in Interest[object.name]
            /\ \E p \in D : x[2] = BinOf(p)
        BY <1>3, ScoOptionsFacts
      <4>2. Interest[object.name] \subseteq Sources
        <5>1. object.name \in DOMAIN Short
          BY <1>1, InHandFacts
        <5> QED
          BY <5>1, NamesAssumption DEF NamesAssumption
      <4>3. x[1] \in Sources /\ x[2] \in Builds
        BY <2>2, <4>1, <4>2 DEF BinOf
      <4> QED
        BY <4>1, <4>3
    <3> QED
      BY <3>1
  <2> HIDE DEF ts, bs
  <2> QED
    BY <2>1, <2>3, <2>4 DEF ReportType
<1> QED
  BY <1>2, <1>3

LEMMA ReportOwn ==
  ASSUME IInv, step = "report", InputsFound
  PROVE  /\ FromOwnArtifacts(opts, Check(level, object, Report, TRUE))
         /\ singletest => \E t \in Report.traces : Report.traces = {t}
<1>1. CASE use_checkpoint_inputs
  BY <1>1, CheckpointsReportOwn DEF use_checkpoint_inputs
<1>2. CASE ~use_checkpoint_inputs
  <2>1. /\ FromOwnArtifacts(opts, Check(level, object, Report, TRUE))
        /\ Report.traces =
             {Trace(p, BinOf(p), level) : p \in Range(object.drivers)}
    BY <1>2, TracesReportOwn
  <2>2. ScriptTypeOK /\ levels # <<>>
    BY DriversReady, GoingFacts
  <2>3. ASSUME singletest PROVE \E t \in Report.traces : Report.traces = {t}
    <3>1. Range(object.drivers) = {main}
      BY <2>2, <2>3, ObjectKinds
    <3> QED
      BY <2>1, <3>1
  <2> QED
    BY <2>1, <2>3
<1> QED
  BY <1>1, <1>2

LEMMA GenReportArtifacts ==
  ASSUME IInv, GenReport
  PROVE  FilesTypeOK' /\ Artifacts'
<1>0. step = "report" /\ exit = "running" /\ UnderWay
  BY DEF GenReport, At, UnderWay
<1>1. /\ Going /\ main \in DOMAIN Short /\ awdir \in Dirs
      /\ files \in [Dirs -> DirType] /\ builds \in Nat
      /\ W(BuildLevel, main) \in Dirs
  BY <1>0, UnderWayFacts
<1>2. CASE Stop /\ UNCHANGED files
  <2>1. Quit /\ UNCHANGED disk
    BY <1>0, <1>2, StopQuits DEF disk, Stop
  <2> QED
    BY <2>1, QuitArtifacts DEF disk, IInv, FilesTypeOK
<1>3. ASSUME InputsFound,
             files' = [files EXCEPT
                         ![awdir].rep = <<Report>>,
                         ![awdir].ckpt = IF singletest
                                            /\ opts.consolidate = "checkpoints"
                                         THEN <<Report>> ELSE @],
             step' \in {"check", "xcov"}, UNCHANGED <<place, builds, checked>>
      PROVE  FilesTypeOK' /\ Artifacts'
  <2> DEFINE cc == IF singletest /\ opts.consolidate = "checkpoints"
                   THEN <<Report>> ELSE files[awdir].ckpt
             new == [files[awdir] EXCEPT !.rep = <<Report>>, !.ckpt = cc]
  <2>1. /\ Report \in ReportType
        /\ FromOwnArtifacts(opts, Check(level, object, Report, TRUE))
        /\ singletest => \E t \in Report.traces : Report.traces = {t}
    BY <1>0, <1>3, ReportTyped, ReportOwn
  <2>2. files[awdir] \in DirType
    BY <1>1
  <2>3. files' = [files EXCEPT ![awdir] = new]
    <3>1. files' = [files EXCEPT ![awdir] =
                      [[files[awdir] EXCEPT !.rep = <<Report>>] EXCEPT !.ckpt = cc]]
      BY <1>1, <1>3, <2>2 DEF DirType
    <3>2. [[files[awdir] EXCEPT !.rep = <<Report>>] EXCEPT !.ckpt = cc] = new
      <4> HIDE DEF cc
      <4> QED
        BY <2>2 DEF DirType
    <3> QED
      BY <3>1, <3>2
  <2>4. cc \in Seq(ReportType) /\ <<Report>> \in Seq(ReportType)
    <3>1. files[awdir].ckpt \in Seq(ReportType)
      BY <2>2 DEF DirType
    <3>2. <<Report>> \in Seq(ReportType)
      BY <2>1
    <3> QED
      BY <3>1, <3>2
  <2>5. /\ new \in DirType /\ new.bin = files[awdir].bin /\ new.scos = files[awdir].scos
        /\ new.traces = files[awdir].traces /\ new.rep = <<Report>> /\ new.ckpt = cc
    <3> HIDE DEF cc
    <3> QED
      BY <2>2, <2>4 DEF DirType
  <2> HIDE DEF new
  <2>6. files'[awdir] = new /\ \A dir \in Dirs : dir # awdir => files'[dir] = files[dir]
    BY <1>1, <2>3
  <2>7. FilesTypeOK'
    BY <1>1, <1>3, <2>3, <2>5 DEF FilesTypeOK
  <2>8. InHand'
    <3>1. awdir' = awdir /\ object' = object /\ level' = level /\ opts' = opts
      BY <1>3, SamePlace
    <3>2. files'[awdir].rep # <<>> /\ files'[awdir].rep[1] = Report
      <4> HIDE DEF cc
      <4>1. files'[awdir].rep = <<Report>>
        BY <2>5, <2>6
      <4> QED
        BY <4>1
    <3> QED
      BY <1>3, <2>1, <3>1, <3>2 DEF InHand
  <2>9. ~(pos > Len(Drivers) /\ singletest)
    BY <1>0, <1>1, <1>3, DriversReady, GoingFacts
  <2>10. ASSUME NEW q \in 1..Len(Drivers), Drivers[q] = main
         PROVE  /\ available_bdbase # NoBase \/ HasWorkdir(q)' =>
                      GoodProgram(files'[ProgramDir(q)], Drivers[q])
                /\ HasWorkdir(q)' =>
                      GoodTraces(files'[WorkDir(q)], files'[ProgramDir(q)].bin, q)
    <3> DEFINE pd == W(BuildLevel, main)
    <3>1. /\ ProgramDir(q) = pd /\ WorkDir(q) = awdir /\ singletest
          /\ GoodProgram(files[pd], main) /\ GoodTraces(files[awdir], files[pd].bin, q)
      BY <1>0, <2>10, MainDriverFacts
    <3>2. files'[pd].bin = files[pd].bin /\ files'[pd].scos = files[pd].scos
      <4> HIDE DEF cc, pd
      <4>1. pd \in Dirs
        BY <1>1 DEF pd
      <4>2. CASE pd = awdir
        BY <2>5, <2>6, <4>2
      <4>3. CASE pd # awdir
        BY <2>6, <4>1, <4>3
      <4> QED
        BY <4>2, <4>3
    <3>3. Objects[q] = object
      <4>1. pos <= Len(Drivers) /\ ScriptTypeOK /\ levels # <<>>
        BY <1>1, <2>9, <3>1, GoingFacts
      <4>2. q = pos
        BY <1>1, <2>10, <4>1, MainDriver
      <4> QED
        BY <4>1, <4>2, InHandFacts
    <3> HIDE DEF pd
    <3>4. GoodProgram(files'[pd], Drivers[q])
      BY <2>10, <3>1, <3>2 DEF GoodProgram
    <3>5. GoodTraces(new, files[pd].bin, q)
      <4>1. ASSUME new.ckpt # <<>>, opts.consolidate = "checkpoints"
            PROVE  /\ \E t \in new.ckpt[1].traces : new.ckpt[1].traces = {t}
                   /\ FromOwnArtifacts(opts, Check(level, Objects[q], new.ckpt[1], TRUE))
        <5>1. new.ckpt[1] = Report
          BY <2>5, <3>1, <4>1
        <5> QED
          BY <2>1, <3>1, <3>3, <5>1
      <4> HIDE DEF cc
      <4> QED
        BY <2>5, <3>1, <4>1 DEF GoodTraces
    <3> QED
      BY <2>6, <3>1, <3>2, <3>4, <3>5
  <2>11. UNCHANGED <<place, checked>>
    BY <1>3
  <2> QED
    BY <1>1, <2>6, <2>7, <2>8, <2>9, <2>10, <2>11, ArtifactsAfter
<1>4. ASSUME NEW n \in PrintingXcovFailures, NEW next \in {"check", "xcov"},
             Continue(n, <<>>, next), UNCHANGED <<place, builds, qdata, checked>>
      PROVE  step' \in {"check", "xcov"} /\ UNCHANGED <<place, builds, checked>>
  BY <1>4 DEF Continue
<1> QED
  <2>1. CASE Stop /\ UNCHANGED files
    BY <1>2, <2>1
  <2>2. CASE ~(Stop /\ UNCHANGED files)
    <3>1. PICK n \in PrintingXcovFailures :
            Continue(n, <<>>, IF opts.qualif THEN "check" ELSE "xcov")
      BY <2>2 DEF GenReport
    <3>2. UNCHANGED <<place, builds, qdata, checked>>
      BY <2>2 DEF GenReport
    <3>3. step' \in {"check", "xcov"} /\ UNCHANGED <<place, builds, checked>>
      <4>1. (IF opts.qualif THEN "check" ELSE "xcov") \in {"check", "xcov"}
        OBVIOUS
      <4> QED
        BY <1>4, <3>1, <3>2, <4>1
    <3> QED
      BY <1>3, <2>2, <3>3 DEF GenReport
  <2> QED
    BY <2>1, <2>2

\* A report is judged on what it was made from, whether the check failed or not
LEMMA CleanApart ==
  ASSUME NEW l, NEW o, NEW r, NEW clean,
         FromOwnArtifacts(opts, Check(l, o, r, TRUE))
  PROVE  FromOwnArtifacts(opts, Check(l, o, r, clean))
<1> DEFINE c == Check(l, o, r, TRUE)
           d == Check(l, o, r, clean)
<1>1. c.level = d.level /\ c.name = d.name /\ c.drivers = d.drivers /\ c.report = d.report
  BY DEF Check
<1> HIDE DEF c, d
<1>2. FromOwnArtifacts(opts, c) <=> FromOwnArtifacts(opts, d)
  BY <1>1 DEF FromOwnArtifacts, OfInterest
<1> QED
  BY <1>2 DEF c, d

\* The directories of the programs remain: they are set once and for all
\* when the last driver is through its first level
LEMMA NextPlace ==
  ASSUME IInv, step = "check", NextObject, step' = "new", ScriptTypeOK', levels' # <<>>
  PROVE  /\ ProgramsPlace' /\ (\A m : abdir_for(m)' = abdir_for(m))
         /\ Objects' = Objects /\ opts' = opts
         /\ \A q : HasWorkdir(q)' <=> q < pos'
         /\ available_bdbase' # NoBase =>
              available_bdbase # NoBase \/ pos >= Len(Drivers)
         /\ pos # Len(Objects) => /\ pos' = pos + 1 /\ level' = level
                                  /\ (\A m : awdir_for(m)' = awdir_for(m))
                                  /\ (FirstLevel' <=> FirstLevel)
         /\ pos = Len(Objects) => pos' = 1
<1> DEFINE all == Xcovlevels(opts)
           n == Len(Drivers)
<1>1. UnderWay /\ opts' = opts /\ Objects' = Objects
  BY DEF UnderWay, NextObject, Objects
<1>2. /\ ScriptInv /\ ScriptTypeOK /\ levels # <<>> /\ ProgramsPlace
      /\ n \in Nat \ {0} /\ pos \in 1..Len(Objects) /\ Len(Objects) \in Nat
      /\ Len(Objects) >= n
  <2>1. Going
    BY <1>1, UnderWayFacts
  <2> QED
    BY <2>1, GoingFacts, ObjectsFacts DEF ScriptTypeOK
<1>3. /\ level \in Levels /\ BuildLevel \in Levels
      /\ \A m : awdir_for(m) = W(level, m) /\ abdir_for(m) = W(BuildLevel, m)
      /\ FirstLevel <=> level = all[1]
      /\ available_bdbase = NoBase => FirstLevel /\ pos <= n /\ BuildLevel = level
      /\ pos > n => available_bdbase # NoBase
  BY <1>2, PlaceFacts
<1>4. /\ available_bdbase' = IF pos = n /\ available_bdbase = NoBase
                             THEN WdbaseFor[level] ELSE available_bdbase
      /\ pos' = IF pos = Len(Objects) THEN 1 ELSE pos + 1
      /\ levels' = IF pos = Len(Objects) THEN Tail(levels) ELSE levels
  BY DEF NextObject
<1>5. all \in Seq(Levels) /\ Len(all) \in {1, 2} /\ all[1] \in Levels
  <2>1. all \in Seq(Levels) /\ Len(all) \in {1, 2}
    BY <1>2, XcovlevelsFacts DEF ScriptTypeOK
  <2> QED
    BY <2>1
<1>6. WdbaseFor[level] # NoBase /\ WdbaseFor[all[1]] # NoBase
  BY <1>3, <1>5, WdbaseFacts DEF NoBase
<1>7. \A q : HasWorkdir(q)' <=> q < pos'
  BY DEF HasWorkdir, UnderWay
<1>8. BuildLevel = IF available_bdbase = NoBase THEN level ELSE all[1]
  BY DEF BuildLevel
<1> HIDE DEF all, n
<1>9. \/ available_bdbase' = NoBase /\ available_bdbase = NoBase /\ pos < n
      \/ available_bdbase' = WdbaseFor[all[1]] /\ BuildLevel = all[1]
  <2>1. CASE available_bdbase = NoBase /\ pos = n
    BY <1>3, <1>4, <1>8, <2>1
  <2>2. CASE available_bdbase = NoBase /\ pos # n
    BY <1>2, <1>3, <1>4, <2>2
  <2>3. CASE available_bdbase # NoBase
    <3>1. available_bdbase = WdbaseFor[all[1]]
      BY <1>2, <2>3 DEF ProgramsPlace, all
    <3> QED
      BY <1>4, <1>8, <2>3, <3>1
  <2> QED
    BY <2>1, <2>2, <2>3
<1>10. available_bdbase' # NoBase => available_bdbase # NoBase \/ pos >= n
  BY <1>2, <1>4
<1>11. wdctl.bdbase = WdbaseFor[BuildLevel]
  BY <1>2 DEF wdctl, WdirControl, BuildLevel, ProgramsPlace
<1>12. ASSUME pos # Len(Objects)
       PROVE  /\ ProgramsPlace' /\ (\A m : abdir_for(m)' = abdir_for(m))
              /\ pos' = pos + 1 /\ level' = level
              /\ (\A m : awdir_for(m)' = awdir_for(m))
              /\ (FirstLevel' <=> FirstLevel)
  <2>1. pos' = pos + 1 /\ levels' = levels /\ level' = level
    BY <1>4, <1>12 DEF level
  <2>2. FirstLevel' <=> FirstLevel
    BY <1>1, <2>1 DEF FirstLevel
  <2>3. wdctl'.wdbase = wdctl.wdbase
    BY <2>1 DEF wdctl, WdirControl
  <2>4. wdctl'.bdbase = wdctl.bdbase
    <3>1. CASE available_bdbase' = NoBase /\ available_bdbase = NoBase
      BY <2>1, <3>1 DEF wdctl, WdirControl
    <3>2. CASE available_bdbase' = WdbaseFor[all[1]] /\ BuildLevel = all[1]
      BY <1>6, <1>11, <3>2 DEF wdctl, WdirControl
    <3> QED
      BY <1>9, <3>1, <3>2
  <2>5. ProgramsPlace'
    <3>1. CASE available_bdbase' = NoBase /\ available_bdbase = NoBase /\ pos < n
      <4>1. FirstLevel' /\ pos' <= n
        BY <1>2, <1>3, <2>1, <2>2, <3>1
      <4> QED
        BY <3>1, <4>1 DEF ProgramsPlace, n
    <3>2. CASE available_bdbase' = WdbaseFor[all[1]] /\ BuildLevel = all[1]
      <4>1. FirstLevel => pos' > n
        <5>1. CASE available_bdbase = NoBase
          BY <1>2, <1>4, <1>6, <2>1, <3>2, <5>1
        <5>2. CASE available_bdbase # NoBase
          BY <1>2, <2>1, <5>2 DEF ProgramsPlace, n
        <5> QED
          BY <5>1, <5>2
      <4>2. available_bdbase' # NoBase /\ available_bdbase' = WdbaseFor[Xcovlevels(opts')[1]]
        BY <1>1, <1>6, <3>2 DEF all
      <4> QED
        BY <2>2, <4>1, <4>2 DEF ProgramsPlace, n
    <3> QED
      BY <1>9, <3>1, <3>2
  <2> QED
    BY <2>1, <2>2, <2>3, <2>4, <2>5 DEF awdir_for, abdir_for
<1>13. ASSUME pos = Len(Objects)
       PROVE  /\ ProgramsPlace' /\ (\A m : abdir_for(m)' = abdir_for(m))
              /\ pos' = 1
  <2>1. pos' = 1 /\ levels' = Tail(levels)
    BY <1>4, <1>13
  <2>2. available_bdbase' = WdbaseFor[all[1]] /\ BuildLevel = all[1]
    BY <1>2, <1>9, <1>13
  <2>3. wdctl'.bdbase = wdctl.bdbase
    BY <1>6, <1>11, <2>2 DEF wdctl, WdirControl
  <2>4. ~FirstLevel'
    <3>1. Len(levels') = Len(levels) - 1 /\ Len(levels) \in Nat
      BY <1>2, <2>1 DEF ScriptTypeOK
    <3>2. Len(all) >= Len(levels)
      <4>1. Len(all) - Len(levels) >= 0
        BY <1>2 DEF ScriptInv, LevelsLeft, all
      <4> QED
        BY <1>5, <3>1, <4>1
    <3>3. Len(levels') # Len(all)
      BY <1>5, <3>1, <3>2
    <3> QED
      BY <1>1, <3>3 DEF FirstLevel, all
  <2>5. ProgramsPlace'
    <3>1. available_bdbase' # NoBase /\ available_bdbase' = WdbaseFor[Xcovlevels(opts')[1]]
      BY <1>1, <1>6, <2>2 DEF all
    <3> QED
      BY <2>4, <3>1 DEF ProgramsPlace
  <2> QED
    BY <2>1, <2>3, <2>5 DEF abdir_for
<1> QED
  BY <1>1, <1>7, <1>10, <1>12, <1>13 DEF n

LEMMA CheckExpectationsArtifacts ==
  ASSUME IInv, CheckExpectations
  PROVE  FilesTypeOK' /\ Artifacts'
<1>0. step = "check" /\ exit = "running" /\ UnderWay
  BY DEF CheckExpectations, At, UnderWay
<1>1. CASE Quit /\ UNCHANGED disk
  BY <1>1, QuitArtifacts DEF disk, IInv, FilesTypeOK
<1>2. CASE Stop /\ UNCHANGED files
  <2>1. Quit /\ UNCHANGED disk
    BY <1>0, <1>2, StopQuits DEF disk, Stop
  <2> QED
    BY <1>1, <2>1
<1>3. CASE Raise /\ UNCHANGED <<place, disk, verdict, exit, qdata, checked>>
  <2>1. Quit /\ UNCHANGED disk
    BY <1>0, <1>3 DEF Raise, Quit, verdict
  <2> QED
    BY <1>1, <2>1
<1>4. ASSUME NEW f \in CheckFailures, Continue(f.n, f.diags, "new"),
             checked' = checked \cup
               {Check(level, object, files[awdir].rep[1], f.n = 0 /\ f.diags = <<>>)},
             NextObject, UNCHANGED <<disk, qdata>>
      PROVE  FilesTypeOK' /\ Artifacts'
  <2> DEFINE n == Len(Drivers)
  <2>1. /\ Going /\ ScriptInv /\ levels # <<>> /\ InHand /\ n \in Nat \ {0}
        /\ pos \in 1..Len(Objects) /\ DOMAIN Objects = 1..Len(Objects)
        /\ Len(Objects) \in Nat /\ Len(Objects) >= n
        /\ \A q \in 1..n : OwnProgram(q) /\ OwnTraces(q)
        /\ \A p \in DOMAIN Objects : SpecAlone(p)
    <3>1. Going
      BY <1>0, UnderWayFacts
    <3>2. ScriptTypeOK
      BY <3>1, GoingFacts
    <3> QED
      BY <3>1, <3>2, GoingFacts, ObjectsFacts DEF ScriptTypeOK
  <2>2. step' = "new" /\ files' = files /\ builds' = builds /\ opts' = opts
    BY <1>4 DEF Continue, disk, NextObject
  <2>3. FilesTypeOK'
    BY <2>2 DEF IInv, FilesTypeOK
  <2>4. ReportsFromOwnArtifacts'
    <3>1. FromOwnArtifacts(opts, Check(level, object, files[awdir].rep[1],
                                       f.n = 0 /\ f.diags = <<>>))
      BY <1>0, <2>1, CleanApart DEF InHand
    <3> QED
      BY <1>4, <2>2, <3>1 DEF IInv, Artifacts, ReportsFromOwnArtifacts
  <2>5. InHand'
    BY <2>2 DEF InHand
  <2>6. ScriptTypeOK'
    BY <2>1, CheckExpectationsInv DEF ScriptInv
  <2>7. ASSUME levels' # <<>>
        PROVE  /\ ProgramsPlace'
               /\ \A q \in 1..n : OwnProgram(q)' /\ OwnTraces(q)'
               /\ \A p \in DOMAIN Objects' : SpecAlone(p)'
    <3>1. /\ ProgramsPlace' /\ (\A m : abdir_for(m)' = abdir_for(m))
          /\ Objects' = Objects
          /\ \A q : HasWorkdir(q)' <=> q < pos'
          /\ available_bdbase' # NoBase => available_bdbase # NoBase \/ pos >= n
          /\ pos # Len(Objects) => /\ pos' = pos + 1 /\ level' = level
                                   /\ (\A m : awdir_for(m)' = awdir_for(m))
                                   /\ (FirstLevel' <=> FirstLevel)
          /\ pos = Len(Objects) => pos' = 1
      BY <1>0, <1>4, <2>2, <2>6, <2>7, NextPlace
    <3>0. /\ pos \in Nat /\ n \in Nat /\ pos' \in {1, pos + 1}
          /\ \A q \in 1..n : q \in Nat /\ q >= 1 /\ q <= n
      <4>1. pos \in Nat /\ n \in Nat
        BY <2>1
      <4>2. pos' \in {1, pos + 1}
        BY <3>1
      <4> HIDE DEF n
      <4> QED
        BY <4>1, <4>2
    <3>2. \A q \in 1..n : q <= pos => HasWorkdir(q)
      BY <1>0, <2>1 DEF HasWorkdir
    <3>3. ASSUME NEW q \in 1..n PROVE OwnProgram(q)'
      <4>1. available_bdbase' # NoBase \/ HasWorkdir(q)' =>
              available_bdbase # NoBase \/ HasWorkdir(q)
        <5> HIDE DEF n
        <5>1. pos >= n => q <= pos
          BY <3>0, <3>3
        <5>2. q < pos' => q <= pos
          BY <3>0, <3>3
        <5>3. available_bdbase' # NoBase => available_bdbase # NoBase \/ pos >= n
          BY <3>1 DEF n
        <5>4. HasWorkdir(q)' => q < pos'
          BY <3>1, Zenon
        <5> QED
          BY <3>2, <3>3, <5>1, <5>2, <5>3, <5>4, Zenon
      <4>2. OwnProgram(q)
        BY <2>1
      <4>3. \A d, b : ScosBuilt(d, b)' = ScosBuilt(d, b)
        BY <2>2 DEF ScosBuilt
      <4> QED
        BY <2>2, <3>1, <4>1, <4>2, <4>3 DEF OwnProgram
    <3>4. ASSUME NEW q \in 1..n PROVE OwnTraces(q)'
      <4>1. CASE pos # Len(Objects)
        <5> HIDE DEF n
        <5>1. HasWorkdir(q)' => q < pos' /\ pos' = pos + 1
          BY <3>1, <4>1, Zenon
        <5>2. q < pos + 1 => q <= pos
          BY <3>0, <3>4
        <5>3. HasWorkdir(q)' => HasWorkdir(q)
          BY <3>2, <3>4, <5>1, <5>2
        <5>4. OwnTraces(q) /\ level' = level
          BY <2>1, <3>1, <3>4, <4>1
        <5>5. /\ Objects' = Objects
              /\ \A m : abdir_for(m)' = abdir_for(m) /\ awdir_for(m)' = awdir_for(m)
          BY <3>1, <4>1, Zenon
        <5> QED
          BY <2>2, <5>3, <5>4, <5>5 DEF OwnTraces
      <4>2. CASE pos = Len(Objects)
        <5>1. ~HasWorkdir(q)'
          BY <2>1, <3>1, <4>2
        <5> QED
          BY <5>1 DEF OwnTraces
      <4> QED
        BY <4>1, <4>2
    <3>5. ASSUME NEW p \in DOMAIN Objects PROVE SpecAlone(p)'
      <4>1. CASE ~(p > n /\ Len(Objects[p].drivers) = 1)
        BY <3>1, <4>1 DEF SpecAlone, n
      <4>2. CASE p > n /\ Len(Objects[p].drivers) = 1
        <5>1. FirstLevel /\ pos <= p /\ p # pos
          BY <1>0, <2>1, <4>2 DEF SpecAlone, n
        <5>2. pos \in Nat /\ p \in Nat /\ pos # Len(Objects)
          <6> DEFINE m == Len(Objects)
          <6>1. m \in Nat /\ pos \in 1..m /\ p \in 1..m
            BY <2>1, <3>5
          <6> HIDE DEF m
          <6>2. pos \in Nat /\ p \in Nat /\ pos # m
            BY <5>1, <6>1
          <6> QED
            BY <6>2 DEF m
        <5>3. FirstLevel' /\ pos' = pos + 1
          BY <3>1, <5>1, <5>2
        <5>4. pos' <= p
          BY <5>1, <5>2, <5>3
        <5> QED
          BY <2>2, <5>3, <5>4 DEF SpecAlone
      <4> QED
        BY <4>1, <4>2
    <3> QED
      BY <3>1, <3>3, <3>4, <3>5
  <2>8. DOMAIN Drivers = 1..n
    BY DriversFacts
  <2> QED
    BY <2>3, <2>4, <2>5, <2>7, <2>8 DEF Artifacts, Going
<1> QED
  BY <1>2, <1>3, <1>4 DEF CheckExpectations

-----------------------------------------------------------------------------
(* The end of the script, and its beginning *)

LEMMA PastObjectsArtifacts ==
  ASSUME IInv, UNCHANGED <<place, disk, checked>>, ~Going'
  PROVE  FilesTypeOK' /\ Artifacts'
<1>1. opts' = opts /\ files' = files /\ builds' = builds /\ checked' = checked
  BY SamePlace DEF disk
<1> QED
  BY <1>1 DEF IInv, FilesTypeOK, Artifacts, ReportsFromOwnArtifacts

LEMMA SameStepArtifacts ==
  ASSUME IInv, UNCHANGED <<place, disk, checked, step>>
  PROVE  FilesTypeOK' /\ Artifacts'
<1>1. /\ opts' = opts /\ levels' = levels /\ pos' = pos
      /\ available_bdbase' = available_bdbase
      /\ files' = files /\ builds' = builds /\ checked' = checked /\ step' = step
  BY SamePlace DEF disk
<1>2. /\ Objects' = Objects /\ object' = object /\ main' = main /\ level' = level
      /\ (singletest' <=> singletest) /\ awdir' = awdir
      /\ \A m : awdir_for(m)' = awdir_for(m) /\ abdir_for(m)' = abdir_for(m)
      /\ (FirstLevel' <=> FirstLevel) /\ (ProgramsPlace' <=> ProgramsPlace)
      /\ \A d, b : ScosBuilt(d, b)' = ScosBuilt(d, b)
  BY SamePlace
<1>3. \A q : HasWorkdir(q)' <=> HasWorkdir(q)
  BY <1>1 DEF HasWorkdir, UnderWay
<1>4. FilesTypeOK' /\ (ReportsFromOwnArtifacts' <=> ReportsFromOwnArtifacts)
  BY <1>1 DEF IInv, FilesTypeOK, ReportsFromOwnArtifacts
<1>5. InHand => InHand'
  BY <1>1, <1>2 DEF InHand
<1>6. ASSUME NEW q, OwnProgram(q), OwnTraces(q) PROVE OwnProgram(q)' /\ OwnTraces(q)'
  BY <1>1, <1>2, <1>3, <1>6 DEF OwnProgram, OwnTraces
<1>7. ASSUME NEW p, SpecAlone(p) PROVE SpecAlone(p)'
  BY <1>1, <1>2, <1>7 DEF SpecAlone
<1> QED
  BY <1>1, <1>2, <1>4, <1>5, <1>6, <1>7 DEF IInv, Artifacts, Going

LEMMA LeftBeforeType ==
  ASSUME NEW base \in Range(WdbaseFor), NEW d
  PROVE  LeftBefore(base, d) \in DirType
<1> DEFINE l == CHOOSE l \in DOMAIN WdbaseFor : WdbaseFor[l] = base
           ts == {Trace(p, Before, l) : p \in {p \in Range(Drivers) : Short[p] = d}}
           report == [traces |-> ts, scos |-> {}, bins |-> {}]
<1>1. l \in Levels
  BY DEF Range, WdbaseFor
<1>2. Before \in Builds
  BY DEF Before, Builds
<1> HIDE DEF l
<1>3. ts \subseteq TraceType
  BY <1>1, <1>2 DEF TraceType, Trace
<1> HIDE DEF ts
<1>4. report \in ReportType
  BY <1>3 DEF ReportType
<1> HIDE DEF report
<1>5. <<report>> \in Seq(ReportType)
  BY <1>4
<1>6. LeftBefore(base, d) =
        [bin |-> Before, scos |-> [s \in Sources |-> Before], traces |-> ts,
         ckpt |-> <<report>>, rep |-> <<report>>]
  BY DEF LeftBefore, report, ts, l
<1> QED
  BY <1>2, <1>3, <1>5, <1>6 DEF DirType

LEMMA ArtifactsInit ==
  ASSUME Init
  PROVE  FilesTypeOK /\ Artifacts
<1>1. /\ opts \in Options /\ levels = Xcovlevels(opts) /\ pos = 1 /\ step = "new"
      /\ available_bdbase = NoBase /\ builds = Before /\ checked = {}
      /\ files \in {[d \in Dirs |-> EmptyDir], [d \in Dirs |-> LeftBefore(d[1], d[2])]}
  BY DEF Init
<1>2. FilesTypeOK
  <2>1. ASSUME NEW d \in Dirs PROVE LeftBefore(d[1], d[2]) \in DirType
    <3>1. d[1] \in Range(WdbaseFor)
      BY DEF Dirs
    <3> QED
      BY <3>1, LeftBeforeType
  <2>2. files \in [Dirs -> DirType]
    BY <1>1, <2>1, EmptyDirType
  <2> QED
    BY <1>1, <2>2 DEF FilesTypeOK, Before
<1>3. ReportsFromOwnArtifacts
  BY <1>1 DEF ReportsFromOwnArtifacts
<1>4. ~UnderWay /\ Len(Drivers) \in Nat \ {0} /\ DOMAIN Drivers = 1..Len(Drivers)
  BY <1>1, DriversFacts DEF UnderWay
<1>5. ProgramsPlace /\ FirstLevel
  BY <1>1, <1>4 DEF ProgramsPlace, FirstLevel
<1>6. InHand
  BY <1>1 DEF InHand
<1>7. \A q \in DOMAIN Drivers : ~HasWorkdir(q)
  BY <1>1, <1>4 DEF HasWorkdir
<1>8. \A q \in DOMAIN Drivers : OwnProgram(q) /\ OwnTraces(q)
  BY <1>1, <1>7 DEF OwnProgram, OwnTraces
<1>9. \A p \in DOMAIN Objects : SpecAlone(p)
  <2>1. DOMAIN Objects = 1..Len(Objects)
    BY <1>1, ObjectsFacts
  <2> QED
    BY <1>1, <1>5, <2>1 DEF SpecAlone
<1> QED
  BY <1>2, <1>3, <1>5, <1>6, <1>8, <1>9 DEF Artifacts

LEMMA ArtifactsStep ==
  ASSUME IInv, [Next]_vars
  PROVE  FilesTypeOK' /\ Artifacts'
<1>1. CASE New
  BY <1>1, NewArtifacts
<1>2. CASE ToWorkdir
  BY <1>2, ToWorkdirArtifacts
<1>3. CASE Instrument
  BY <1>3, InstrumentArtifacts
<1>4. CASE Build
  BY <1>4, BuildArtifacts
<1>5. CASE RunTest
  BY <1>5, RunTestArtifacts
<1>6. CASE GenReport
  BY <1>6, GenReportArtifacts
<1>7. CASE GenXcov
  BY <1>7, GenXcovArtifacts
<1>8. CASE CheckExpectations
  BY <1>8, CheckExpectationsArtifacts
<1>9. CASE EndRun \/ EndInError
  <2>1. UNCHANGED <<place, disk, checked>> /\ ~Going'
    BY <1>9, SamePlace DEF EndRun, EndInError, At, Going
  <2> QED
    BY <2>1, PastObjectsArtifacts
<1>10. CASE MatchDiags \/ Result
  <2>1. UNCHANGED <<place, disk, checked>> /\ levels' = levels /\ Ending
    BY <1>10, SamePlace DEF MatchDiags, Result, At, Ending
  <2>2. ~Going'
    BY <2>1 DEF IInv, ScriptInv, CheckedSoFar, Going
  <2> QED
    BY <2>1, <2>2, PastObjectsArtifacts
<1>11. CASE Exit \/ TimeOut \/ UNCHANGED vars
  BY <1>11, SameStepArtifacts DEF Exit, TimeOut, vars
<1> QED
  BY <1>1, <1>2, <1>3, <1>4, <1>5, <1>6, <1>7, <1>8, <1>9, <1>10, <1>11 DEF Next

(***************************************************************************)
(* The directories hold what the place of the script says, from its first  *)
(* step to its last: the inductive invariant.                              *)
(***************************************************************************)
THEOREM Invariance == Spec => []IInv
<1>1. Init => IInv
  BY ScriptInit, ArtifactsInit DEF IInv
<1>2. IInv /\ [Next]_vars => IInv'
  <2> SUFFICES ASSUME IInv, [Next]_vars PROVE IInv'
    OBVIOUS
  <2>1. ScriptInv'
    BY ScriptStep DEF IInv
  <2> QED
    BY <2>1, ArtifactsStep DEF IInv
<1> QED
  BY <1>1, <1>2, PTL DEF Spec

(***************************************************************************)
(* Each report that is checked was made from one trace of each driver it   *)
(* stands for, at its level, by programs built by this execution of the    *)
(* script, and with the SCOs of these builds: never from what an earlier   *)
(* execution, or another level, left in the directories.                   *)
(***************************************************************************)
THEOREM OwnArtifactsOnly == Spec => []ReportsFromOwnArtifacts
<1>1. IInv => ReportsFromOwnArtifacts
  BY DEF IInv, Artifacts
<1> QED
  BY <1>1, Invariance, PTL
=============================================================================
