------------------------ MODULE ObjectCoverage_proofs ------------------------
(***************************************************************************)
(* Proofs about the trace database and object coverage analysis. The first *)
(* part is about TracesDbase alone: the entries stay disjoint, Add_Entry   *)
(* finds after its recursive calls the entry it captured before them, and  *)
(* the database implements the record of the executed code, for any code,  *)
(* any conditional branches and any set of operations. The second part     *)
(* is about ObjectCoverage: however traces overlap and however often the   *)
(* analysis runs, entries are whole instructions, the state of a line is   *)
(* the one that its instructions define, and the database, once analysed,  *)
(* still is the record of the executed code.                               *)
(***************************************************************************)
EXTENDS ObjectCoverage, WellFoundedInduction, TLAPS

----------------------------------------------------------------------------
(* Entries, calls, and the entry that a conflicting Insert designates.     *)

\* A non-empty set of natural numbers has a least element
LEMMA Least ==
  ASSUME NEW T \in SUBSET Nat, T # {}
  PROVE  \E m \in T : \A n \in T : m <= n
<1> DEFINE R == OpToRel(<, Nat)
<1>1. IsWellFoundedOn(R, Nat)
  BY NatLessThanWellFounded
<1>2. \A x, y \in Nat : x < y => <<x, y>> \in R
  BY DEF OpToRel
<1> HIDE DEF R
<1>3. PICK m \in T : \A n \in T : ~(<<n, m>> \in R)
  BY <1>1, WFMin
<1>4. ASSUME NEW n \in T PROVE m <= n
  <2>1. n \in Nat /\ m \in Nat
    OBVIOUS
  <2>2. ~(n < m)
    BY <1>2, <1>3, <2>1
  <2> QED
    BY <2>1, <2>2
<1> QED
  BY <1>4

\* The fields of an entry
LEMMA EntryFacts ==
  ASSUME TypeOK, NEW e \in entries
  PROVE  /\ e \in EntryType
         /\ e.first \in 0..MaxPC /\ e.last \in 0..MaxPC
         /\ e.first \in Int /\ e.last \in Int
         /\ e.op \in SUBSET Flags /\ e.state \in InsnStates
<1>1. e \in EntryType
  BY DEF TypeOK
<1> QED
  BY <1>1, CodeAssumption DEF EntryType, CodeAssumption

\* The fields of a call
LEMMA CallFacts ==
  ASSUME TypeOK, NEW i \in 1..Len(calls)
  PROVE  /\ calls[i] \in AddCallType \cup MergeCallType
         /\ calls[i].at \in {"add", "merge"}
         /\ calls[i].at = "add" => calls[i] \in AddCallType
         /\ calls[i].at = "merge" =>
              /\ calls[i] \in MergeCallType
              /\ calls[i].into \in EntryType
              /\ calls[i].last \in 0..MaxPC
         /\ calls[i].first \in 0..MaxPC /\ calls[i].last \in -1..MaxPC
         /\ calls[i].first \in Int /\ calls[i].last \in Int
         /\ calls[i].op \in SUBSET Flags
<1>1. calls[i] \in AddCallType \cup MergeCallType
  BY DEF TypeOK
<1>2. CASE calls[i] \in AddCallType
  BY <1>1, <1>2, CodeAssumption DEF AddCallType, CodeAssumption
<1>3. CASE calls[i] \in MergeCallType
  BY <1>1, <1>3, CodeAssumption DEF MergeCallType, CodeAssumption
<1> QED
  BY <1>1, <1>2, <1>3

\* The call in progress is the first of the stack
LEMMA HeadFacts ==
  ASSUME TypeOK, calls # <<>>
  PROVE  /\ Call = calls[1] /\ 1 \in 1..Len(calls) /\ Len(calls) \in Nat
         /\ Tail(calls) \in Seq(AddCallType \cup MergeCallType)
         /\ Len(Tail(calls)) = Len(calls) - 1
         /\ \A i \in 1..Len(Tail(calls)) :
              i + 1 \in 2..Len(calls) /\ Tail(calls)[i] = calls[i + 1]
  BY DEF TypeOK, Call

\* The conflict of a call is an entry that overlaps it, and the last one
LEMMA ConflictFacts ==
  ASSUME TypeOK, NEW i \in 1..Len(calls), Conflicts(calls[i]) # {}
  PROVE  /\ Conflict(calls[i]) \in entries
         /\ Overlap(calls[i], Conflict(calls[i]))
         /\ \A o \in Conflicts(calls[i]) : o.first <= Conflict(calls[i]).first
<1> DEFINE C == Conflicts(calls[i])
<1> DEFINE T == {MaxPC - e.first : e \in C}
<1>1. C \subseteq entries /\ \A o \in C : Overlap(calls[i], o)
  BY DEF Conflicts
<1>2. \A o \in C : o.first \in 0..MaxPC
  BY <1>1, EntryFacts
<1>3. T \in SUBSET Nat /\ T # {}
  BY <1>2, CodeAssumption DEF CodeAssumption
<1>4. PICK m \in T : \A n \in T : m <= n
  <2> HIDE DEF T
  <2> QED
    BY <1>3, Least
<1>5. PICK e \in C : m = MaxPC - e.first
  OBVIOUS
<1>6. \A o \in C : MaxPC - o.first \in T
  OBVIOUS
<1>7. \A o \in C : o.first <= e.first
  <2> SUFFICES ASSUME NEW o \in C PROVE o.first <= e.first
    OBVIOUS
  <2>1. MaxPC - e.first <= MaxPC - o.first
    BY <1>4, <1>5, <1>6
  <2>2. e.first \in Int /\ o.first \in Int /\ MaxPC \in Int
    BY <1>2, CodeAssumption DEF CodeAssumption
  <2> QED
    BY <2>1, <2>2
<1>8. Conflict(calls[i]) \in C /\ \A o \in C : o.first <= Conflict(calls[i]).first
  <2> HIDE DEF C, T
  <2>1. Conflict(calls[i]) = CHOOSE x \in C : \A o \in C : o.first <= x.first
    BY DEF Conflict, C
  <2> QED
    BY <1>7, <2>1
<1> QED
  BY <1>1, <1>8

----------------------------------------------------------------------------
(* The calls that replace one in conflict with an entry.                   *)

\* A stack whose first element is replaced by a sequence p
LEMMA StackFacts ==
  ASSUME NEW S, NEW s \in Seq(S), s # <<>>, NEW p \in Seq(S),
         NEW c, c = p \o Tail(s)
  PROVE  /\ c \in Seq(S)
         /\ Len(p) \in Nat /\ Len(s) \in Nat
         /\ Len(c) = Len(p) + Len(s) - 1
         /\ \A i \in 1..Len(c) :
              /\ i <= Len(p) => i \in 1..Len(p) /\ c[i] = p[i]
              /\ i > Len(p) => /\ i - Len(p) + 1 \in 2..Len(s)
                               /\ c[i] = s[i - Len(p) + 1]
         /\ \A k \in 1..Len(p) : k \in 1..Len(c) /\ c[k] = p[k]
         /\ \A j \in 2..Len(s) :
              /\ j - 1 + Len(p) \in 1..Len(c)
              /\ c[j - 1 + Len(p)] = s[j]
<1>1. /\ Tail(s) \in Seq(S) /\ Len(Tail(s)) = Len(s) - 1
      /\ \A i \in 1..Len(Tail(s)) : Tail(s)[i] = s[i + 1]
      /\ Len(p) \in Nat /\ Len(s) \in Nat
  OBVIOUS
<1>2. PICK t \in Seq(S) : t = Tail(s)
  BY <1>1
<1>3. /\ c \in Seq(S) /\ Len(c) = Len(p) + Len(t) /\ Len(c) \in Nat
      /\ \A i \in 1..Len(c) :
           c[i] = IF i <= Len(p) THEN p[i] ELSE t[i - Len(p)]
  BY <1>2
<1>4. /\ Len(t) = Len(s) - 1
      /\ \A i \in 1..Len(t) : t[i] = s[i + 1]
  BY <1>1, <1>2
<1>5. \A i \in 1..Len(c) :
        i > Len(p) => i - Len(p) + 1 \in 2..Len(s) /\ c[i] = s[i - Len(p) + 1]
  BY <1>1, <1>3, <1>4
<1>6. \A j \in 2..Len(s) :
        j - 1 + Len(p) \in 1..Len(c) /\ c[j - 1 + Len(p)] = s[j]
  BY <1>1, <1>3, <1>4
<1> QED
  BY <1>1, <1>3, <1>4, <1>5, <1>6

\* The elements of a concatenation
LEMMA ConcatFacts ==
  ASSUME NEW S, NEW p \in Seq(S), NEW q \in Seq(S)
  PROVE  \A s : s = p \o q =>
           /\ s \in Seq(S) /\ Len(s) = Len(p) + Len(q)
           /\ \A i \in 1..Len(p) : s[i] = p[i]
           /\ \A i \in 1..Len(q) : s[Len(p) + i] = q[i]
<1>1. p \o q \in Seq(S) /\ Len(p \o q) = Len(p) + Len(q)
  OBVIOUS
<1>2. \A i \in 1..Len(p) : (p \o q)[i] = p[i]
  OBVIOUS
<1>3. \A i \in 1..Len(q) : (p \o q)[Len(p) + i] = q[i]
  OBVIOUS
<1> QED
  BY <1>1, <1>2, <1>3

\* The parts of call h around entry e: before b, after a, and within m, with
\* the conditions under which there is a part before or after
Shape(parts, h, e, b, a, m) ==
  /\ \A k \in 1..Len(parts) :
       \/ parts[k] = b /\ h.first < e.first
       \/ parts[k] = a /\ h.last > e.last
       \/ parts[k] = m
  /\ \E k \in 1..Len(parts) : parts[k] = m
  /\ h.first < e.first => \E k \in 1..Len(parts) : parts[k] = b
  /\ h.last > e.last => \E k \in 1..Len(parts) : parts[k] = a
  /\ \A k, l \in 1..Len(parts) :
       k # l => \/ parts[k] = b /\ (parts[l] = a \/ parts[l] = m)
                \/ parts[k] = a /\ (parts[l] = b \/ parts[l] = m)
                \/ parts[k] = m /\ (parts[l] = b \/ parts[l] = a)
  /\ b.at = "add" /\ b.first = h.first /\ b.last = e.first - 1 /\ b.op = h.op
  /\ a.at = "add" /\ a.first = e.last + 1 /\ a.last = h.last /\ a.op = h.op
  /\ m.at = "merge" /\ m.op = h.op /\ m.into = e
  /\ m.first = IF h.first < e.first THEN e.first ELSE h.first
  /\ m.last = IF h.last > e.last THEN e.last ELSE h.last

\* SplitCall makes parts of this shape
LEMMA PartsShape ==
  ASSUME NEW h, h.first \in 0..MaxPC, h.last \in 0..MaxPC,
         h.op \in SUBSET Flags, h.first <= h.last,
         NEW e \in EntryType, e.first <= e.last, Overlap(h, e),
         NEW X
  PROVE  X = Outside(h, e) \o <<Inside(h, e)>> =>
           /\ X \in Seq(AddCallType \cup MergeCallType)
           /\ \E b, a, m : Shape(X, h, e, b, a, m)
<1>0. MaxPC \in Int /\ e.first \in 0..MaxPC /\ e.last \in 0..MaxPC
  BY CodeAssumption DEF CodeAssumption, EntryType
<1>1. /\ h.first \in Int /\ h.last \in Int /\ e.first \in Int /\ e.last \in Int
      /\ h.first <= e.last /\ h.last >= e.first
  BY <1>0 DEF Overlap
<1> DEFINE B == AddCall(h.first, e.first - 1, h.op)
           A == AddCall(e.last + 1, h.last, h.op)
           M == Inside(h, e)
<1>2. /\ B.at = "add" /\ B.first = h.first /\ B.last = e.first - 1 /\ B.op = h.op
      /\ h.first < e.first => B \in AddCallType
  BY <1>0, <1>1 DEF AddCall, AddCallType
<1>3. /\ A.at = "add" /\ A.first = e.last + 1 /\ A.last = h.last /\ A.op = h.op
      /\ h.last > e.last => A \in AddCallType
  BY <1>0, <1>1 DEF AddCall, AddCallType
<1>4. /\ M.at = "merge" /\ M.op = h.op /\ M.into = e
      /\ M.first = IF h.first < e.first THEN e.first ELSE h.first
      /\ M.last = IF h.last > e.last THEN e.last ELSE h.last
      /\ M \in MergeCallType
  BY <1>0, <1>1 DEF Inside, MergeCall, MergeCallType
<1>5. PICK parts :
        parts = (IF h.first < e.first THEN <<B>> ELSE <<>>)
                \o (IF h.last > e.last THEN <<A>> ELSE <<>>) \o <<M>>
  OBVIOUS
<1>5a. X = Outside(h, e) \o <<Inside(h, e)>> => X = parts
  BY <1>5 DEF Outside
<1> HIDE DEF A, B, M
<1>6. PICK b, a, m : b = B /\ a = A /\ m = M
  OBVIOUS
<1>7. /\ m \in MergeCallType
      /\ h.first < e.first => b \in AddCallType
      /\ h.last > e.last => a \in AddCallType
  BY <1>2, <1>3, <1>4, <1>6
<1>8. parts = (IF h.first < e.first THEN <<b>> ELSE <<>>)
              \o (IF h.last > e.last THEN <<a>> ELSE <<>>) \o <<m>>
  BY <1>5, <1>6
<1> DEFINE S == AddCallType \cup MergeCallType
           np == IF h.first < e.first THEN 1 ELSE 0
           nq == IF h.last > e.last THEN 1 ELSE 0
<1>9. /\ parts \in Seq(S) /\ Len(parts) = np + nq + 1
      /\ h.first < e.first => parts[1] = b
      /\ h.last > e.last => parts[np + 1] = a
      /\ parts[np + nq + 1] = m
  <2>1. PICK p : p = IF h.first < e.first THEN <<b>> ELSE <<>>
    OBVIOUS
  <2>2. PICK q : q = IF h.last > e.last THEN <<a>> ELSE <<>>
    OBVIOUS
  <2>3. p \in Seq(S) /\ Len(p) = np /\ (h.first < e.first => p[1] = b)
    <3>1. CASE h.first < e.first
      <4>1. b \in S /\ np = 1 /\ p = <<b>>
        BY <1>7, <2>1, <3>1
      <4> HIDE DEF S, np
      <4> QED
        BY <4>1
    <3>2. CASE ~(h.first < e.first)
      <4>1. np = 0 /\ p = <<>>
        BY <2>1, <3>2
      <4> HIDE DEF S, np
      <4> QED
        BY <3>2, <4>1
    <3> QED
      BY <3>1, <3>2
  <2>4. q \in Seq(S) /\ Len(q) = nq /\ (h.last > e.last => q[1] = a)
    <3>1. CASE h.last > e.last
      <4>1. a \in S /\ nq = 1 /\ q = <<a>>
        BY <1>7, <2>2, <3>1
      <4> HIDE DEF S, nq
      <4> QED
        BY <4>1
    <3>2. CASE ~(h.last > e.last)
      <4>1. nq = 0 /\ q = <<>>
        BY <2>2, <3>2
      <4> HIDE DEF S, nq
      <4> QED
        BY <3>2, <4>1
    <3> QED
      BY <3>1, <3>2
  <2>5. parts = p \o q \o <<m>>
    BY <1>8, <2>1, <2>2
  <2> HIDE DEF S
  <2>6. m \in S /\ Len(p) \in 0..1 /\ Len(q) \in 0..1
    BY <1>7, <2>3, <2>4 DEF S
  <2>7. PICK r : r = p \o q
    OBVIOUS
  <2>8. /\ r \in Seq(S) /\ Len(r) = np + nq
        /\ h.first < e.first => r[1] = b
        /\ h.last > e.last => r[np + 1] = a
    <3>1. /\ r \in Seq(S) /\ Len(r) = Len(p) + Len(q)
          /\ \A i \in 1..Len(p) : r[i] = p[i]
          /\ \A i \in 1..Len(q) : r[Len(p) + i] = q[i]
      BY <2>3, <2>4, <2>7, ConcatFacts
    <3> QED
      BY <2>3, <2>4, <3>1
  <2>9. PICK t : t = <<m>>
    OBVIOUS
  <2>10. t \in Seq(S) /\ Len(t) = 1 /\ t[1] = m
    BY <2>6, <2>9
  <2>10a. parts = r \o t
    BY <2>5, <2>7, <2>9
  <2>11. /\ parts \in Seq(S) /\ Len(parts) = Len(r) + Len(t)
         /\ \A i \in 1..Len(r) : parts[i] = r[i]
         /\ \A i \in 1..Len(t) : parts[Len(r) + i] = t[i]
    <3>1. r \in Seq(S) /\ t \in Seq(S)
      BY <2>8, <2>10
    <3> QED
      BY <2>10a, <3>1, ConcatFacts
  <2>12. Len(parts) = Len(r) + 1 /\ parts[Len(r) + 1] = m
    BY <2>10, <2>11
  <2> QED
    BY <2>8, <2>11, <2>12
<1>10. /\ \A k \in 1..Len(parts) :
            \/ parts[k] = b /\ h.first < e.first
            \/ parts[k] = a /\ h.last > e.last
            \/ parts[k] = m
       /\ \E k \in 1..Len(parts) : parts[k] = m
       /\ h.first < e.first => \E k \in 1..Len(parts) : parts[k] = b
       /\ h.last > e.last => \E k \in 1..Len(parts) : parts[k] = a
       /\ \A k, l \in 1..Len(parts) :
            k # l => \/ parts[k] = b /\ (parts[l] = a \/ parts[l] = m)
                     \/ parts[k] = a /\ (parts[l] = b \/ parts[l] = m)
                     \/ parts[k] = m /\ (parts[l] = b \/ parts[l] = a)
  BY <1>9
<1> HIDE DEF S, np, nq
<1>11. /\ b.at = "add" /\ b.first = h.first /\ b.last = e.first - 1 /\ b.op = h.op
       /\ a.at = "add" /\ a.first = e.last + 1 /\ a.last = h.last /\ a.op = h.op
       /\ m.at = "merge" /\ m.op = h.op /\ m.into = e
       /\ m.first = IF h.first < e.first THEN e.first ELSE h.first
       /\ m.last = IF h.last > e.last THEN e.last ELSE h.last
  BY <1>2, <1>3, <1>4, <1>6
<1>12. Shape(parts, h, e, b, a, m)
  BY <1>10, <1>11 DEF Shape
<1> QED
  BY <1>5a, <1>9, <1>12 DEF S

\* The parts of a call in conflict with entry e: of different addresses, they
\* make up the call, and only the last one, to merge, is within e.
LEMMA PartsFacts ==
  ASSUME NEW h, h.first \in 0..MaxPC, h.last \in 0..MaxPC, h.first <= h.last,
         NEW e \in EntryType, e.first <= e.last, Overlap(h, e),
         NEW parts, NEW b, NEW a, NEW m, Shape(parts, h, e, b, a, m)
  PROVE  /\ \A k \in 1..Len(parts) :
              /\ parts[k].op = h.op
              /\ parts[k].first \in Int /\ parts[k].last \in Int
              /\ parts[k].first <= parts[k].last
              /\ h.first <= parts[k].first /\ parts[k].last <= h.last
              /\ parts[k].at = "add" =>
                   \/ parts[k].last < e.first
                   \/ parts[k].first > e.last /\ parts[k].last = h.last
              /\ parts[k].at = "merge" =>
                   /\ parts[k].into = e
                   /\ e.first <= parts[k].first /\ parts[k].last <= e.last
                   /\ parts[k].first = h.first \/ parts[k].first = e.first
                   /\ parts[k].last = h.last \/ parts[k].last = e.last
              /\ parts[k].at \in {"add", "merge"}
         /\ \A k, l \in 1..Len(parts) :
              k # l =>
                /\ \/ parts[k].last < parts[l].first
                   \/ parts[l].last < parts[k].first
                /\ parts[k].at = "merge" => parts[l].at = "add"
                /\ parts[k].at = "add" /\ parts[l].at = "add" =>
                     \/ parts[k].last < e.first /\ parts[l].first > e.last
                     \/ parts[l].last < e.first /\ parts[k].first > e.last
         /\ \A x \in h.first..h.last :
              \E k \in 1..Len(parts) : x \in parts[k].first..parts[k].last
<1>1. /\ h.first \in Int /\ h.last \in Int /\ e.first \in Int /\ e.last \in Int
      /\ h.first <= e.last /\ h.last >= e.first
  BY CodeAssumption DEF CodeAssumption, EntryType, Overlap
<1> DEFINE Fits(x) ==
         /\ x.op = h.op /\ x.first \in Int /\ x.last \in Int
         /\ x.first <= x.last
         /\ h.first <= x.first /\ x.last <= h.last
         /\ x.at = "add" =>
              x.last < e.first \/ (x.first > e.last /\ x.last = h.last)
         /\ x.at = "merge" =>
              /\ x.into = e
              /\ e.first <= x.first /\ x.last <= e.last
              /\ x.first = h.first \/ x.first = e.first
              /\ x.last = h.last \/ x.last = e.last
         /\ x.at \in {"add", "merge"}
<1>b. /\ b.at = "add" /\ b.first = h.first /\ b.last = e.first - 1 /\ b.op = h.op
      /\ a.at = "add" /\ a.first = e.last + 1 /\ a.last = h.last /\ a.op = h.op
      /\ m.at = "merge" /\ m.op = h.op /\ m.into = e
      /\ m.first = IF h.first < e.first THEN e.first ELSE h.first
      /\ m.last = IF h.last > e.last THEN e.last ELSE h.last
  BY DEF Shape
<1>2. \A k \in 1..Len(parts) : Fits(parts[k])
  <2> SUFFICES ASSUME NEW x,
                      \/ x = b /\ h.first < e.first
                      \/ x = a /\ h.last > e.last
                      \/ x = m
               PROVE  Fits(x)
    BY DEF Shape
  <2>1. CASE x = b /\ h.first < e.first
    BY <1>1, <1>b, <2>1
  <2>2. CASE x = a /\ h.last > e.last
    BY <1>1, <1>b, <2>2
  <2>3. CASE x = m
    BY <1>1, <1>b, <2>3
  <2> QED
    BY <2>1, <2>2, <2>3
<1> DEFINE Apart(x, y) ==
         /\ x.last < y.first \/ y.last < x.first
         /\ x.at = "merge" => y.at = "add"
         /\ x.at = "add" /\ y.at = "add" =>
              \/ x.last < e.first /\ y.first > e.last
              \/ y.last < e.first /\ x.first > e.last
<1>3. \A k, l \in 1..Len(parts) : k # l => Apart(parts[k], parts[l])
  <2> SUFFICES ASSUME NEW x, NEW y,
                      \/ x = b /\ (y = a \/ y = m)
                      \/ x = a /\ (y = b \/ y = m)
                      \/ x = m /\ (y = b \/ y = a)
               PROVE  Apart(x, y)
    BY DEF Shape
  <2>1. CASE (x = b /\ y = a) \/ (x = a /\ y = b)
    BY <1>1, <1>b, <2>1
  <2>2. CASE (x = b /\ y = m) \/ (x = m /\ y = b)
    BY <1>1, <1>b, <2>2
  <2>3. CASE (x = a /\ y = m) \/ (x = m /\ y = a)
    BY <1>1, <1>b, <2>3
  <2> HIDE DEF Apart
  <2> QED
    BY <2>1, <2>2, <2>3
<1>4. ASSUME NEW x \in h.first..h.last
      PROVE  \E k \in 1..Len(parts) : x \in parts[k].first..parts[k].last
  <2>1. CASE x < e.first
    <3>1. h.first < e.first /\ x \in b.first..b.last
      BY <1>1, <1>b, <2>1
    <3> QED
      BY <3>1 DEF Shape
  <2>2. CASE x > e.last
    <3>1. h.last > e.last /\ x \in a.first..a.last
      BY <1>1, <1>b, <2>2
    <3> QED
      BY <3>1 DEF Shape
  <2>3. CASE e.first <= x /\ x <= e.last
    <3>1. x \in m.first..m.last
      BY <1>1, <1>b, <2>3
    <3> QED
      BY <3>1 DEF Shape
  <2> QED
    BY <1>1, <2>1, <2>2, <2>3
<1> QED
  BY <1>2, <1>3, <1>4

----------------------------------------------------------------------------
(* The invariant is inductive: one lemma for each action.                  *)

\* The empty database of Init_Base
LEMMA InitIInv ==
  ASSUME Init
  PROVE  IInv
<1>1. entries = {} /\ calls = <<>> /\ Len(calls) = 0
  BY DEF Init
<1>2. TypeOK
  BY <1>1 DEF TypeOK
<1> QED
  BY <1>1, <1>2 DEF IInv, EntriesDisjoint, CapturedEntriesKept, CallsApart,
                    BranchesLast, NewOutcomesRecorded

\* A trace read from a trace file is the only call to do
LEMMA ReadIInv ==
  ASSUME IInv, NEW first \in 0..MaxPC, NEW op \in Ops,
         NEW last \in (first - 1)..MaxPC, ProcessTraceEntry(first, last, op)
  PROVE  IInv'
<1>1. entries' = entries /\ calls' = <<AddCall(first, last, op)>>
      /\ Emitted(first, last, op)
  BY DEF ProcessTraceEntry
<1>2. PICK c : c = AddCall(first, last, op)
  OBVIOUS
<1>3. /\ c.at = "add" /\ c.first = first /\ c.last = last /\ c.op = op
      /\ c \in AddCallType
  BY <1>2, CodeAssumption DEF AddCall, AddCallType, CodeAssumption
<1>4. /\ calls' \in Seq(AddCallType \cup MergeCallType)
      /\ \A i \in 1..Len(calls') : i = 1 /\ calls'[i] = c
      /\ Len(calls') = 1
  BY <1>1, <1>2, <1>3
<1>5. TypeOK'
  BY <1>1, <1>4 DEF IInv, TypeOK
<1>6. EntriesDisjoint'
  BY <1>1 DEF IInv, EntriesDisjoint, Overlap
<1>7. CapturedEntriesKept'
  BY <1>3, <1>4 DEF CapturedEntriesKept
<1>8. CallsApart'
  BY <1>4 DEF CallsApart
<1>9. BranchesLast'
  <2>1. ASSUME NEW a \in BranchEnds, NEW i \in 1..Len(calls'), a \in Span(calls'[i])
        PROVE  a = calls'[i].last
    BY <1>1, <1>3, <1>4, <2>1 DEF Emitted, Span
  <2> QED
    BY <1>1, <2>1 DEF IInv, BranchesLast, Span
<1>10. NewOutcomesRecorded'
  <2> SUFFICES ASSUME NEW i \in 1..Len(calls'), NewOutcome(calls'[i].op)
               PROVE  /\ Len(calls') = 1 /\ calls'[i].at = "add"
                      /\ calls'[i].first <= calls'[i].last
                      /\ Span(calls'[i]) \subseteq Recorded'
                      /\ calls'[i].last \in BranchEnds
    BY DEF NewOutcomesRecorded, NewOutcome, Span
  <2>1. NewOutcome(op) /\ calls'[i] = c
    BY <1>3, <1>4
  <2>2. first <= last /\ first..last \subseteq Recorded /\ last \in BranchEnds
    BY <1>1, <2>1 DEF Emitted
  <2>3. Recorded' = Recorded
    BY <1>1 DEF Recorded, Span
  <2> QED
    BY <1>3, <1>4, <2>1, <2>2, <2>3 DEF Span
<1> QED
  BY <1>5, <1>6, <1>7, <1>8, <1>9, <1>10 DEF IInv

\* A step that ends the call in progress leaves the others as they were
LEMMA TailFacts ==
  ASSUME TypeOK, calls # <<>>, calls' = Tail(calls)
  PROVE  /\ calls' \in Seq(AddCallType \cup MergeCallType)
         /\ \A i \in 1..Len(calls') :
              i + 1 \in 2..Len(calls) /\ calls'[i] = calls[i + 1]
         /\ Len(calls') = Len(calls) - 1 /\ Len(calls) \in Nat
<1>1. /\ Tail(calls) \in Seq(AddCallType \cup MergeCallType)
      /\ Len(Tail(calls)) = Len(calls) - 1 /\ Len(calls) \in Nat
      /\ \A i \in 1..Len(Tail(calls)) :
           i + 1 \in 2..Len(calls) /\ Tail(calls)[i] = calls[i + 1]
  BY HeadFacts
<1> QED
  BY <1>1

\* An empty call only leaves the stack
LEMMA DiscardIInv ==
  ASSUME IInv, DiscardEmpty
  PROVE  IInv'
<1>1. TypeOK /\ calls # <<>> /\ calls' = Tail(calls) /\ entries' = entries
  BY DEF IInv, DiscardEmpty
<1>2. /\ calls' \in Seq(AddCallType \cup MergeCallType)
      /\ \A i \in 1..Len(calls') :
           i + 1 \in 1..Len(calls) /\ calls'[i] = calls[i + 1]
      /\ Len(calls') = Len(calls) - 1 /\ Len(calls) \in Nat
  BY <1>1, TailFacts
<1>3. TypeOK'
  BY <1>1, <1>2 DEF TypeOK
<1>4. EntriesDisjoint'
  BY <1>1 DEF IInv, EntriesDisjoint, Overlap
<1>5. CapturedEntriesKept'
  BY <1>1, <1>2 DEF IInv, CapturedEntriesKept, Span
<1>6. CallsApart'
  <2> SUFFICES ASSUME NEW i \in 1..Len(calls'), NEW j \in 1..Len(calls'), i # j
               PROVE  /\ Span(calls'[i]) \cap Span(calls'[j]) = {}
                      /\ calls'[i].at = "merge" =>
                           Span(calls'[i].into) \cap Span(calls'[j]) = {}
                      /\ calls'[i].at = "add" /\ calls'[j].at = "add" =>
                           \A e \in entries' :
                             \/ Span(e) \cap Span(calls'[i]) = {}
                             \/ Span(e) \cap Span(calls'[j]) = {}
    BY DEF CallsApart, Span
  <2>1. PICK k \in 1..Len(calls), l \in 1..Len(calls) :
          k # l /\ calls'[i] = calls[k] /\ calls'[j] = calls[l]
    BY <1>2
  <2> QED
    BY <1>1, <2>1 DEF IInv, CallsApart
<1>7. BranchesLast'
  BY <1>1, <1>2 DEF IInv, BranchesLast, Span
<1>8. NewOutcomesRecorded'
  BY <1>1, <1>2 DEF IInv, NewOutcomesRecorded
<1> QED
  BY <1>3, <1>4, <1>5, <1>6, <1>7, <1>8 DEF IInv

\* The range of a call that meets no entry becomes an entry
LEMMA InsertIInv ==
  ASSUME IInv, InsertEntry
  PROVE  IInv'
<1>1. /\ TypeOK /\ calls # <<>> /\ calls' = Tail(calls)
      /\ Call.at = "add" /\ Call.first <= Call.last /\ Conflicts(Call) = {}
  BY DEF IInv, InsertEntry
<1>2. /\ calls' \in Seq(AddCallType \cup MergeCallType)
      /\ \A i \in 1..Len(calls') :
           i + 1 \in 2..Len(calls) /\ calls'[i] = calls[i + 1]
      /\ Len(calls') = Len(calls) - 1 /\ Len(calls) \in Nat
  BY <1>1, TailFacts
<1>3. Call = calls[1] /\ 1 \in 1..Len(calls)
  BY <1>1, HeadFacts
<1>4. /\ Call.first \in 0..MaxPC /\ Call.last \in 0..MaxPC
      /\ Call.first \in Int /\ Call.last \in Int /\ Call.op \in SUBSET Flags
  <2>1. /\ Call.first \in 0..MaxPC /\ Call.last \in -1..MaxPC
        /\ Call.op \in SUBSET Flags
    BY <1>1, <1>3, CallFacts
  <2> QED
    BY <1>1, <2>1, CodeAssumption DEF CodeAssumption
<1>5. PICK n : n = Entry(Call.first, Call.last, Call.op, "Unknown")
  OBVIOUS
<1>6. /\ n \in EntryType /\ n.first = Call.first /\ n.last = Call.last
      /\ entries' = entries \cup {n} /\ Span(n) = Span(Call)
  BY <1>4, <1>5 DEF InsertEntry, Entry, EntryType, InsnStates, Span
<1>7. TypeOK'
  BY <1>1, <1>2, <1>6 DEF TypeOK
<1>8. EntriesDisjoint'
  <2>1. \A e \in entries : ~Overlap(e, n) /\ ~Overlap(n, e)
    <3> SUFFICES ASSUME NEW e \in entries
                 PROVE  ~Overlap(e, n) /\ ~Overlap(n, e)
      OBVIOUS
    <3>1. ~Overlap(Call, e)
      BY <1>1 DEF Conflicts
    <3>2. e.first \in Int /\ e.last \in Int
      BY <1>1, EntryFacts
    <3> QED
      BY <1>4, <1>6, <3>1, <3>2 DEF Overlap
  <2> QED
    BY <1>1, <1>6, <2>1 DEF IInv, EntriesDisjoint, Overlap
<1>9. CapturedEntriesKept'
  <2>1. \A i \in 1..Len(calls') : i + 1 \in 1..Len(calls)
    BY <1>2
  <2>2. ASSUME NEW i \in 1..Len(calls'), calls'[i].at = "merge"
        PROVE  /\ calls'[i].into \in entries'
               /\ calls'[i].first <= calls'[i].last
               /\ Span(calls'[i]) \subseteq Span(calls'[i].into)
    <3>1. PICK j \in 1..Len(calls) : calls'[i] = calls[j]
      BY <1>2, <2>1
    <3> QED
      BY <1>6, <2>2, <3>1 DEF IInv, CapturedEntriesKept
  <2> QED
    BY <2>2 DEF CapturedEntriesKept, Span
<1>10. CallsApart'
  <2> SUFFICES ASSUME NEW i \in 1..Len(calls'), NEW j \in 1..Len(calls'), i # j
               PROVE  /\ Span(calls'[i]) \cap Span(calls'[j]) = {}
                      /\ calls'[i].at = "merge" =>
                           Span(calls'[i].into) \cap Span(calls'[j]) = {}
                      /\ calls'[i].at = "add" /\ calls'[j].at = "add" =>
                           \A e \in entries' :
                             \/ Span(e) \cap Span(calls'[i]) = {}
                             \/ Span(e) \cap Span(calls'[j]) = {}
    BY DEF CallsApart, Span
  <2>1. PICK k \in 2..Len(calls), l \in 2..Len(calls) :
          k # l /\ calls'[i] = calls[k] /\ calls'[j] = calls[l]
    BY <1>2
  <2>2. k \in 1..Len(calls) /\ l \in 1..Len(calls) /\ k # 1
    BY <2>1
  <2>3. Span(calls[1]) \cap Span(calls[k]) = {}
    BY <1>3, <2>2 DEF IInv, CallsApart
  <2>4. Span(n) \cap Span(calls'[i]) = {}
    BY <1>3, <1>6, <2>1, <2>3
  <2> QED
    BY <1>6, <2>1, <2>2, <2>4 DEF IInv, CallsApart
<1>11. BranchesLast'
  <2> SUFFICES ASSUME NEW a \in BranchEnds
               PROVE  /\ \A e \in entries' : a \in Span(e) => a = e.last
                      /\ \A i \in 1..Len(calls') :
                           a \in Span(calls'[i]) => a = calls'[i].last
    BY DEF BranchesLast, Span
  <2>1. a \in Span(n) => a = n.last
    BY <1>3, <1>6 DEF IInv, BranchesLast
  <2>2. \A e \in entries' : a \in Span(e) => a = e.last
    BY <1>6, <2>1 DEF IInv, BranchesLast
  <2>3. \A i \in 1..Len(calls') : a \in Span(calls'[i]) => a = calls'[i].last
    BY <1>2 DEF IInv, BranchesLast
  <2> QED
    BY <2>2, <2>3
<1>12. NewOutcomesRecorded'
  <2>1. \A i \in 1..Len(calls') : ~NewOutcome(calls'[i].op)
    BY <1>2 DEF IInv, NewOutcomesRecorded
  <2> QED
    BY <2>1 DEF NewOutcomesRecorded, NewOutcome
<1> QED
  BY <1>7, <1>8, <1>9, <1>10, <1>11, <1>12 DEF IInv

\* New outcomes of a block are merged into the entry that ends with its
\* branch: the one that the search designates among those of the block
LEMMA MergeFlagsFacts ==
  ASSUME IInv, MergeFlags
  PROVE  \E e \in entries, n \in EntryType :
           /\ entries' = (entries \ {e}) \cup {n}
           /\ n.first = e.first /\ n.last = e.last /\ n.op = Call.op \cup e.op
           /\ e.last = Call.last /\ Call.last \in BranchEnds
           /\ calls = <<Call>> /\ calls' = <<>>
           /\ Span(Call) \subseteq Recorded
<1>1. /\ TypeOK /\ calls # <<>> /\ calls' = Tail(calls)
      /\ Call.at = "add" /\ Call.first <= Call.last /\ Conflicts(Call) # {}
      /\ NewOutcome(Call.op)
  BY DEF IInv, MergeFlags
<1>2. /\ Call = calls[1] /\ 1 \in 1..Len(calls)
      /\ Call.first \in Int /\ Call.last \in Int /\ Call.op \in SUBSET Flags
  BY <1>1, HeadFacts, CallFacts
<1>3. /\ Len(calls) = 1 /\ Span(Call) \subseteq Recorded
      /\ Call.last \in BranchEnds
  BY <1>1, <1>2 DEF IInv, NewOutcomesRecorded
<1>4. calls = <<Call>> /\ calls' = <<>>
  BY <1>1, <1>2, <1>3 DEF TypeOK
<1>5. PICK e : e = Conflict(Call)
  OBVIOUS
<1>6. /\ e \in entries /\ Overlap(Call, e)
      /\ \A o \in Conflicts(Call) : o.first <= e.first
  BY <1>1, <1>2, <1>5, ConflictFacts
<1>7. PICK g \in entries : Call.last \in Span(g)
  BY <1>1, <1>2, <1>3 DEF Recorded, Span
<1>8. /\ e.first \in Int /\ e.last \in Int /\ e \in EntryType
      /\ e.op \in SUBSET Flags /\ e.state \in InsnStates
      /\ e.first \in 0..MaxPC /\ e.last \in 0..MaxPC
      /\ g.first \in Int /\ g.last \in Int
  BY <1>1, <1>6, EntryFacts
<1>9. g \in Conflicts(Call)
  BY <1>1, <1>2, <1>7, <1>8 DEF Conflicts, Overlap, Span
<1>10. e = g
  <2>1. g.first <= e.first /\ e.first <= Call.last /\ Call.last <= g.last
        /\ e.first <= e.last
    BY <1>2, <1>6, <1>7, <1>8, <1>9 DEF Overlap, Span, IInv, EntriesDisjoint
  <2>2. Overlap(g, e)
    BY <1>2, <1>8, <2>1 DEF Overlap
  <2> QED
    BY <1>6, <2>2 DEF IInv, EntriesDisjoint
<1>11. Call.last = e.last
  BY <1>3, <1>6, <1>7, <1>10 DEF IInv, BranchesLast
<1>12. PICK n : n = Entry(e.first, e.last, Call.op \cup e.op, e.state)
  OBVIOUS
<1>13. /\ n \in EntryType /\ n.first = e.first /\ n.last = e.last
       /\ n.op = Call.op \cup e.op /\ entries' = (entries \ {e}) \cup {n}
  BY <1>2, <1>5, <1>8, <1>12 DEF MergeFlags, Entry, EntryType
<1> QED
  BY <1>3, <1>4, <1>6, <1>11, <1>13

\* Merging flags only changes the operation of an entry
LEMMA MergeFlagsIInv ==
  ASSUME IInv, MergeFlags
  PROVE  IInv'
<1>1. PICK e \in entries, n \in EntryType :
        /\ entries' = (entries \ {e}) \cup {n}
        /\ n.first = e.first /\ n.last = e.last /\ calls' = <<>>
  BY MergeFlagsFacts
<1>2. Span(n) = Span(e) /\ \A g : Overlap(g, n) = Overlap(g, e)
                                  /\ Overlap(n, g) = Overlap(e, g)
  BY <1>1 DEF Span, Overlap
<1>3. calls' \in Seq(AddCallType \cup MergeCallType) /\ Len(calls') = 0
  BY <1>1
<1>4. TypeOK'
  BY <1>1, <1>3 DEF IInv, TypeOK
<1>5. EntriesDisjoint'
  <2>1. \A g \in entries' : g.first <= g.last
    BY <1>1 DEF IInv, EntriesDisjoint
  <2>2. \A g, h \in entries' : g # h => ~Overlap(g, h)
    BY <1>1, <1>2 DEF IInv, EntriesDisjoint
  <2> QED
    BY <2>1, <2>2 DEF EntriesDisjoint, Overlap
<1>6. BranchesLast'
  BY <1>1, <1>2, <1>3 DEF IInv, BranchesLast, Span
<1> QED
  BY <1>3, <1>4, <1>5, <1>6
  DEF IInv, CapturedEntriesKept, CallsApart, NewOutcomesRecorded

\* What SplitCall knows of the call, of the entry it meets and of the parts
\* it is replaced by
LEMMA SplitFacts ==
  ASSUME IInv, SplitCall
  PROVE  \E h \in AddCallType, e \in entries,
            parts \in Seq(AddCallType \cup MergeCallType) :
           /\ \E b, a, m : Shape(parts, h, e, b, a, m)
           /\ calls' = parts \o Tail(calls)
           /\ Overlap(h, e) /\ e \in EntryType /\ e.first <= e.last
           /\ e.first \in Int /\ e.last \in Int
           /\ calls # <<>> /\ h = calls[1] /\ 1 \in 1..Len(calls)
           /\ h.at = "add" /\ ~NewOutcome(h.op) /\ h.first <= h.last
           /\ h.first \in 0..MaxPC /\ h.last \in 0..MaxPC
           /\ h.first \in Int /\ h.last \in Int
           /\ h.op \in SUBSET Flags
<1>0. PICK h : h = Call
  OBVIOUS
<1>1. /\ TypeOK /\ calls # <<>> /\ h.at = "add" /\ ~NewOutcome(h.op)
      /\ h.first <= h.last /\ Conflicts(h) # {}
  BY <1>0 DEF IInv, SplitCall
<1>2. h = calls[1] /\ 1 \in 1..Len(calls)
  BY <1>0, <1>1, HeadFacts
<1>3. /\ h.first \in 0..MaxPC /\ h.last \in 0..MaxPC
      /\ h.first \in Int /\ h.last \in Int /\ h.op \in SUBSET Flags
      /\ h \in AddCallType
  <2>1. /\ h.first \in 0..MaxPC /\ h.last \in -1..MaxPC
        /\ h.op \in SUBSET Flags /\ h \in AddCallType
    BY <1>1, <1>2, CallFacts
  <2> QED
    BY <1>1, <2>1, CodeAssumption DEF CodeAssumption
<1>4. PICK e : e = Conflict(h)
  OBVIOUS
<1>5. e \in entries /\ Overlap(h, e)
  BY <1>1, <1>2, <1>4, ConflictFacts
<1>6. e \in EntryType /\ e.first \in Int /\ e.last \in Int /\ e.first <= e.last
  BY <1>1, <1>5, EntryFacts DEF IInv, EntriesDisjoint
<1>7. PICK parts : parts = Outside(h, e) \o <<Inside(h, e)>>
  OBVIOUS
<1>8. /\ parts \in Seq(AddCallType \cup MergeCallType)
      /\ \E b, a, m : Shape(parts, h, e, b, a, m)
  BY <1>1, <1>3, <1>5, <1>6, <1>7, PartsShape
<1>9. calls' = parts \o Tail(calls)
  BY <1>0, <1>4, <1>7 DEF SplitCall
<1> QED
  BY <1>1, <1>2, <1>3, <1>5, <1>6, <1>8, <1>9

\* Each of the calls that follow SplitCall is a part of the call in progress,
\* or one of the others
LEMMA SplitStack ==
  ASSUME TypeOK, calls # <<>>,
         NEW parts \in Seq(AddCallType \cup MergeCallType),
         calls' = parts \o Tail(calls)
  PROVE  /\ calls' \in Seq(AddCallType \cup MergeCallType)
         /\ Len(parts) \in Nat /\ Len(calls) \in Nat
         /\ \A i \in 1..Len(calls') :
              \/ i \in 1..Len(parts) /\ calls'[i] = parts[i]
              \/ /\ i > Len(parts) /\ i - Len(parts) + 1 \in 2..Len(calls)
                 /\ calls'[i] = calls[i - Len(parts) + 1]
         /\ \A k \in 1..Len(parts) : k \in 1..Len(calls') /\ calls'[k] = parts[k]
         /\ \A j \in 2..Len(calls) :
              /\ j - 1 + Len(parts) \in 1..Len(calls')
              /\ calls'[j - 1 + Len(parts)] = calls[j]
<1>1. PICK c : c = calls'
  OBVIOUS
<1>2. c = parts \o Tail(calls) /\ calls \in Seq(AddCallType \cup MergeCallType)
  BY <1>1 DEF TypeOK
<1>3. /\ c \in Seq(AddCallType \cup MergeCallType)
      /\ Len(parts) \in Nat /\ Len(calls) \in Nat
      /\ Len(c) = Len(parts) + Len(calls) - 1
      /\ \A i \in 1..Len(c) :
           /\ i <= Len(parts) => i \in 1..Len(parts) /\ c[i] = parts[i]
           /\ i > Len(parts) => /\ i - Len(parts) + 1 \in 2..Len(calls)
                                /\ c[i] = calls[i - Len(parts) + 1]
      /\ \A k \in 1..Len(parts) : k \in 1..Len(c) /\ c[k] = parts[k]
      /\ \A j \in 2..Len(calls) :
           /\ j - 1 + Len(parts) \in 1..Len(c)
           /\ c[j - 1 + Len(parts)] = calls[j]
  BY <1>2, StackFacts
<1> QED
  BY <1>1, <1>3

\* A call gives way to its parts: only the one to merge is within the entry
\* it captures, and no other call is near that entry
LEMMA SplitIInv ==
  ASSUME IInv, SplitCall
  PROVE  IInv'
<1>0. PICK h \in AddCallType, e \in entries,
         parts \in Seq(AddCallType \cup MergeCallType) :
        /\ \E b, a, m : Shape(parts, h, e, b, a, m)
        /\ calls' = parts \o Tail(calls)
        /\ Overlap(h, e) /\ e \in EntryType /\ e.first <= e.last
        /\ e.first \in Int /\ e.last \in Int
        /\ calls # <<>> /\ h = calls[1] /\ 1 \in 1..Len(calls)
        /\ h.at = "add" /\ ~NewOutcome(h.op) /\ h.first <= h.last
        /\ h.first \in 0..MaxPC /\ h.last \in 0..MaxPC
        /\ h.first \in Int /\ h.last \in Int
        /\ h.op \in SUBSET Flags
  BY SplitFacts
<1>b. PICK b, a, m : Shape(parts, h, e, b, a, m)
  BY <1>0
<1>a. /\ e.first \in Int /\ e.last \in Int /\ e.first <= e.last
      /\ h.first \in Int /\ h.last \in Int /\ h.first <= h.last
      /\ h.first <= e.last /\ h.last >= e.first
  BY <1>0 DEF Overlap
<1>1. entries' = entries
  BY DEF SplitCall
<1>2. /\ calls' \in Seq(AddCallType \cup MergeCallType)
      /\ Len(parts) \in Nat /\ Len(calls) \in Nat
      /\ \A i \in 1..Len(calls') :
           \/ i \in 1..Len(parts) /\ calls'[i] = parts[i]
           \/ /\ i > Len(parts) /\ i - Len(parts) + 1 \in 2..Len(calls)
              /\ calls'[i] = calls[i - Len(parts) + 1]
  BY <1>0, SplitStack DEF IInv
<1>3. \A k \in 1..Len(parts) :
        /\ parts[k].op = h.op
        /\ parts[k].first \in Int /\ parts[k].last \in Int
        /\ parts[k].first <= parts[k].last
        /\ h.first <= parts[k].first /\ parts[k].last <= h.last
        /\ parts[k].at = "add" =>
             \/ parts[k].last < e.first
             \/ parts[k].first > e.last /\ parts[k].last = h.last
        /\ parts[k].at = "merge" =>
             /\ parts[k].into = e
             /\ e.first <= parts[k].first /\ parts[k].last <= e.last
             /\ parts[k].first = h.first \/ parts[k].first = e.first
             /\ parts[k].last = h.last \/ parts[k].last = e.last
        /\ parts[k].at \in {"add", "merge"}
  <2>1. /\ h.first \in 0..MaxPC /\ h.last \in 0..MaxPC /\ h.first <= h.last
        /\ e \in EntryType /\ e.first <= e.last /\ Overlap(h, e)
        /\ Shape(parts, h, e, b, a, m)
    BY <1>0, <1>b
  <2> QED
    BY ONLY <2>1, CodeAssumption, PartsFacts
<1>4. \A k, l \in 1..Len(parts) :
        k # l =>
          /\ \/ parts[k].last < parts[l].first
             \/ parts[l].last < parts[k].first
          /\ parts[k].at = "merge" => parts[l].at = "add"
          /\ parts[k].at = "add" /\ parts[l].at = "add" =>
               \/ parts[k].last < e.first /\ parts[l].first > e.last
               \/ parts[l].last < e.first /\ parts[k].first > e.last
  <2>1. /\ h.first \in 0..MaxPC /\ h.last \in 0..MaxPC /\ h.first <= h.last
        /\ e \in EntryType /\ e.first <= e.last /\ Overlap(h, e)
        /\ Shape(parts, h, e, b, a, m)
    BY <1>0, <1>b
  <2> QED
    BY ONLY <2>1, CodeAssumption, PartsFacts
<1>5. \A k \in 1..Len(parts) : Span(parts[k]) \subseteq Span(h)
  <2> SUFFICES ASSUME NEW k \in 1..Len(parts)
               PROVE  Span(parts[k]) \subseteq Span(h)
    OBVIOUS
  <2>1. /\ parts[k].first \in Int /\ parts[k].last \in Int
        /\ h.first <= parts[k].first /\ parts[k].last <= h.last
    BY <1>3
  <2> QED
    BY <1>a, <2>1 DEF Span
<1>6. TypeOK'
  BY <1>1, <1>2 DEF IInv, TypeOK
<1>7. EntriesDisjoint'
  BY <1>1 DEF IInv, EntriesDisjoint, Overlap
<1>8. CapturedEntriesKept'
  <2> SUFFICES ASSUME NEW i \in 1..Len(calls'), calls'[i].at = "merge"
               PROVE  /\ calls'[i].into \in entries
                      /\ calls'[i].first <= calls'[i].last
                      /\ Span(calls'[i]) \subseteq Span(calls'[i].into)
    BY <1>1 DEF CapturedEntriesKept, Span
  <2>1. CASE i \in 1..Len(parts) /\ calls'[i] = parts[i]
    BY <1>0, <1>3, <2>1 DEF Span
  <2>2. CASE \E j \in 2..Len(calls) : calls'[i] = calls[j]
    <3>1. PICK j \in 1..Len(calls) : calls'[i] = calls[j]
      BY <1>2, <2>2
    <3> QED
      BY <2>2, <3>1 DEF IInv, CapturedEntriesKept
  <2> QED
    BY <1>2, <2>1, <2>2
\* Calls that were pending are apart from the parts of the call in progress
<1>9. ASSUME NEW k \in 1..Len(parts), NEW j \in 2..Len(calls)
      PROVE  /\ Span(parts[k]) \cap Span(calls[j]) = {}
             /\ parts[k].at = "merge" => Span(parts[k].into) \cap Span(calls[j]) = {}
             /\ calls[j].at = "merge" => Span(calls[j].into) \cap Span(parts[k]) = {}
             /\ calls[j].at = "add" =>
                  \A g \in entries : \/ Span(g) \cap Span(parts[k]) = {}
                                     \/ Span(g) \cap Span(calls[j]) = {}
  <2>1. j \in 1..Len(calls) /\ j # 1 /\ calls[j].at \in {"add", "merge"}
    BY <1>0, CallFacts DEF IInv
  <2>2. /\ Span(h) \cap Span(calls[j]) = {}
        /\ calls[j].at = "merge" => Span(calls[j].into) \cap Span(h) = {}
        /\ calls[j].at = "add" =>
             \A g \in entries : \/ Span(g) \cap Span(h) = {}
                                \/ Span(g) \cap Span(calls[j]) = {}
    BY <1>0, <2>1 DEF IInv, CallsApart
  <2>3. PICK x \in Int : x \in Span(e) /\ x \in Span(h)
    <3>1. CASE h.first <= e.first
      BY <1>0, <3>1 DEF Overlap, Span
    <3>2. CASE e.first <= h.first
      BY <1>0, <3>2 DEF Overlap, Span
    <3> QED
      BY <1>0, <3>1, <3>2
  <2>4. Span(e) \cap Span(calls[j]) = {}
    <3>1. CASE calls[j].at = "add"
      BY <2>2, <2>3, <3>1
    <3>2. CASE calls[j].at = "merge"
      <4>1. calls[j].into \in entries /\ Span(calls[j]) \subseteq Span(calls[j].into)
        BY <2>1, <3>2 DEF IInv, CapturedEntriesKept
      <4>2. calls[j].into # e
        BY <2>2, <2>3, <3>2
      <4>3. ~Overlap(e, calls[j].into)
        BY <4>1, <4>2 DEF IInv, EntriesDisjoint
      <4>4. calls[j].into.first \in Int /\ calls[j].into.last \in Int
        BY <4>1, EntryFacts DEF IInv
      <4>5. Span(e) \cap Span(calls[j].into) = {}
        BY <1>0, <4>3, <4>4 DEF Overlap, Span
      <4> QED
        BY <4>1, <4>5
    <3> QED
      BY <2>1, <3>1, <3>2
  <2> QED
    BY <1>3, <1>5, <2>2, <2>4
<1>10. CallsApart'
  <2> SUFFICES ASSUME NEW i \in 1..Len(calls'), NEW j \in 1..Len(calls'), i # j
               PROVE  /\ Span(calls'[i]) \cap Span(calls'[j]) = {}
                      /\ calls'[i].at = "merge" =>
                           Span(calls'[i].into) \cap Span(calls'[j]) = {}
                      /\ calls'[i].at = "add" /\ calls'[j].at = "add" =>
                           \A g \in entries :
                             \/ Span(g) \cap Span(calls'[i]) = {}
                             \/ Span(g) \cap Span(calls'[j]) = {}
    BY <1>1 DEF CallsApart, Span
  <2>1. CASE /\ i \in 1..Len(parts) /\ calls'[i] = parts[i]
             /\ j \in 1..Len(parts) /\ calls'[j] = parts[j]
    <3>1. PICK x, y : x = parts[i] /\ y = parts[j]
      OBVIOUS
    <3>2. /\ x.first \in Int /\ x.last \in Int
          /\ y.first \in Int /\ y.last \in Int
          /\ x.at = "add" => x.last < e.first \/ x.first > e.last
          /\ y.at = "add" => y.last < e.first \/ y.first > e.last
          /\ x.at = "merge" => x.into = e
      BY <1>3, <2>1, <3>1
    <3>3. /\ x.last < y.first \/ y.last < x.first
          /\ x.at = "merge" => y.at = "add"
          /\ x.at = "add" /\ y.at = "add" =>
               \/ x.last < e.first /\ y.first > e.last
               \/ y.last < e.first /\ x.first > e.last
      BY <1>4, <2>1, <3>1
    <3>4. Span(x) \cap Span(y) = {}
      BY <3>2, <3>3 DEF Span
    <3>5. x.at = "merge" => Span(x.into) \cap Span(y) = {}
      BY <1>0, <3>2, <3>3 DEF Span
    <3>6. ASSUME x.at = "add", y.at = "add", NEW g \in entries
          PROVE  Span(g) \cap Span(x) = {} \/ Span(g) \cap Span(y) = {}
      <4>1. g.first \in Int /\ g.last \in Int
        BY <3>6, EntryFacts DEF IInv
      <4>2. CASE g = e
        BY <1>0, <3>2, <3>6, <4>2 DEF Span
      <4>3. CASE g # e
        <5>1. ~Overlap(g, e)
          BY <1>0, <3>6, <4>3 DEF IInv, EntriesDisjoint
        <5>2. g.last < e.first \/ e.last < g.first
          BY <1>0, <4>1, <5>1 DEF Overlap
        <5>3. \/ x.last < e.first /\ y.first > e.last
              \/ y.last < e.first /\ x.first > e.last
          BY <3>3, <3>6
        <5>4. CASE g.last < e.first
          BY <1>a, <3>2, <4>1, <5>3, <5>4 DEF Span
        <5>5. CASE e.last < g.first
          BY <1>a, <3>2, <4>1, <5>3, <5>5 DEF Span
        <5> QED
          BY <5>2, <5>4, <5>5
      <4> QED
        BY <4>2, <4>3
    <3> QED
      BY <2>1, <3>1, <3>4, <3>5, <3>6
  <2>2. CASE /\ i \in 1..Len(parts) /\ calls'[i] = parts[i]
             /\ \E l \in 2..Len(calls) : calls'[j] = calls[l]
    BY <1>9, <2>2
  <2>3. CASE /\ j \in 1..Len(parts) /\ calls'[j] = parts[j]
             /\ \E l \in 2..Len(calls) : calls'[i] = calls[l]
    BY <1>9, <2>3
  <2>4. CASE /\ i > Len(parts) /\ i - Len(parts) + 1 \in 2..Len(calls)
             /\ calls'[i] = calls[i - Len(parts) + 1]
             /\ j > Len(parts) /\ j - Len(parts) + 1 \in 2..Len(calls)
             /\ calls'[j] = calls[j - Len(parts) + 1]
    <3>1. PICK k \in 2..Len(calls) :
            k = i - Len(parts) + 1 /\ calls'[i] = calls[k]
      BY <2>4
    <3>2. PICK l \in 2..Len(calls) :
            l = j - Len(parts) + 1 /\ calls'[j] = calls[l]
      BY <2>4
    <3>3. k # l /\ k \in 1..Len(calls) /\ l \in 1..Len(calls)
      BY <1>2, <3>1, <3>2
    <3> QED
      BY <3>1, <3>2, <3>3 DEF IInv, CallsApart
  <2> QED
    <3>1. \/ i \in 1..Len(parts) /\ calls'[i] = parts[i]
          \/ /\ i > Len(parts) /\ i - Len(parts) + 1 \in 2..Len(calls)
             /\ calls'[i] = calls[i - Len(parts) + 1]
      BY <1>2
    <3>2. \/ j \in 1..Len(parts) /\ calls'[j] = parts[j]
          \/ /\ j > Len(parts) /\ j - Len(parts) + 1 \in 2..Len(calls)
             /\ calls'[j] = calls[j - Len(parts) + 1]
      BY <1>2
    <3> QED
      BY <2>1, <2>2, <2>3, <2>4, <3>1, <3>2
<1>11. BranchesLast'
  <2> SUFFICES ASSUME NEW x \in BranchEnds
               PROVE  /\ \A g \in entries : x \in Span(g) => x = g.last
                      /\ \A i \in 1..Len(calls') :
                           x \in Span(calls'[i]) => x = calls'[i].last
    BY <1>1 DEF BranchesLast, Span
  <2>1. \A k \in 1..Len(calls) : x \in Span(calls[k]) => x = calls[k].last
    BY DEF IInv, BranchesLast
  <2>2. \A g \in entries : x \in Span(g) => x = g.last
    BY DEF IInv, BranchesLast
  <2>3. ASSUME NEW k \in 1..Len(parts), x \in Span(parts[k])
        PROVE  x = parts[k].last
    <3>1. x \in Int /\ x = h.last
      BY <1>0, <1>5, <2>1, <2>3, CodeAssumption DEF CodeAssumption
    <3>2. x \in Span(e) => x = e.last
      BY <2>2
    <3>3. PICK y : y = parts[k]
      OBVIOUS
    <3>4. /\ y.first \in Int /\ y.last \in Int /\ y.last <= h.last
          /\ y.at \in {"add", "merge"}
          /\ y.at = "add" => y.last < e.first \/ y.last = h.last
          /\ y.at = "merge" => /\ e.first <= y.first /\ y.last <= e.last
                               /\ y.last = h.last \/ y.last = e.last
      BY <1>3, <3>3
    <3>5. y.first <= x /\ x <= y.last
      BY <2>3, <3>1, <3>3, <3>4 DEF Span
    <3>6. CASE y.last = h.last
      BY <3>1, <3>3, <3>6
    <3>7. CASE y.last < e.first
      BY <1>a, <3>1, <3>4, <3>5, <3>7
    <3>8. CASE y.at = "merge" /\ y.last = e.last
      <4>1. x \in Span(e)
        BY <1>a, <3>1, <3>4, <3>5, <3>8 DEF Span
      <4> QED
        BY <3>2, <3>3, <3>8, <4>1
    <3> QED
      BY <3>4, <3>6, <3>7, <3>8
  <2>4. \A i \in 1..Len(calls') : x \in Span(calls'[i]) => x = calls'[i].last
    <3> SUFFICES ASSUME NEW i \in 1..Len(calls'), x \in Span(calls'[i])
                 PROVE  x = calls'[i].last
      OBVIOUS
    <3>1. CASE i \in 1..Len(parts) /\ calls'[i] = parts[i]
      BY <2>3, <3>1
    <3>2. CASE \E k \in 1..Len(calls) : calls'[i] = calls[k]
      BY <2>1, <3>2
    <3> QED
      BY <1>2, <3>1, <3>2
  <2> QED
    BY <2>2, <2>4
<1>12. NewOutcomesRecorded'
  <2>1. \A k \in 1..Len(parts) : ~NewOutcome(parts[k].op)
    BY <1>0, <1>3 DEF NewOutcome
  <2>2. \A k \in 2..Len(calls) : ~NewOutcome(calls[k].op)
    BY <1>2 DEF IInv, NewOutcomesRecorded
  <2>3. \A i \in 1..Len(calls') : ~NewOutcome(calls'[i].op)
    BY <1>2, <2>1, <2>2
  <2> QED
    BY <2>3 DEF NewOutcomesRecorded, NewOutcome
<1> QED
  BY <1>6, <1>7, <1>8, <1>10, <1>11, <1>12 DEF IInv

\* The pieces of an entry around the part that is merged: non-empty, disjoint,
\* they make up the entry, and only the part merged has more flags
LEMMA PiecesFacts ==
  ASSUME NEW e \in EntryType, NEW first \in Int, NEW last \in Int,
         NEW op \in SUBSET Flags,
         e.first <= first, first <= last, last <= e.last
  PROVE  /\ \A p \in Pieces(e, first, last, op) :
              /\ p \in EntryType /\ p.first \in Int /\ p.last \in Int
              /\ p.first <= p.last /\ e.first <= p.first /\ p.last <= e.last
              /\ \/ p.op = e.op /\ p.last < first
                 \/ p.op = e.op /\ p.first > last /\ p.last = e.last
                 \/ p.op = op \cup e.op /\ p.first = first /\ p.last = last
         /\ \A p, q \in Pieces(e, first, last, op) :
              p # q => p.last < q.first \/ q.last < p.first
         /\ \A x \in e.first..e.last :
              /\ \E p \in Pieces(e, first, last, op) : x \in p.first..p.last
              /\ first <= x /\ x <= last =>
                   \E p \in Pieces(e, first, last, op) :
                     x \in p.first..p.last /\ p.op = op \cup e.op
<1>1. /\ e.first \in 0..MaxPC /\ e.last \in 0..MaxPC /\ MaxPC \in Int
      /\ e.op \in SUBSET Flags /\ e.state \in InsnStates
      /\ e.first \in Int /\ e.last \in Int
  BY CodeAssumption DEF CodeAssumption, EntryType
<1> DEFINE B == Entry(e.first, first - 1, e.op, e.state)
           M == Entry(first, last, op \cup e.op, e.state)
           A == Entry(last + 1, e.last, e.op, e.state)
<1>2. PICK b, m, a : b = B /\ m = M /\ a = A
  OBVIOUS
<1>3. /\ b.first = e.first /\ b.last = first - 1 /\ b.op = e.op
      /\ m.first = first /\ m.last = last /\ m.op = op \cup e.op
      /\ a.first = last + 1 /\ a.last = e.last /\ a.op = e.op
  BY <1>2 DEF Entry
<1>4. /\ e.first <= first - 1 => b \in EntryType
      /\ m \in EntryType
      /\ last + 1 <= e.last => a \in EntryType
  BY <1>1, <1>2 DEF Entry, EntryType
<1>5. PICK P : P = Pieces(e, first, last, op)
  OBVIOUS
<1>6. P = {p \in {b, m, a} : p.first <= p.last}
  BY <1>2, <1>5 DEF Pieces
<1>7. ASSUME NEW p \in P
      PROVE  /\ p \in EntryType /\ p.first \in Int /\ p.last \in Int
             /\ p.first <= p.last /\ e.first <= p.first /\ p.last <= e.last
             /\ \/ p.op = e.op /\ p.last < first
                \/ p.op = e.op /\ p.first > last /\ p.last = e.last
                \/ p.op = op \cup e.op /\ p.first = first /\ p.last = last
  <2>1. p \in {b, m, a} /\ p.first <= p.last
    BY <1>6
  <2>2. CASE p = b
    BY <1>1, <1>3, <1>4, <2>1, <2>2
  <2>3. CASE p = m
    BY <1>1, <1>3, <1>4, <2>1, <2>3
  <2>4. CASE p = a
    BY <1>1, <1>3, <1>4, <2>1, <2>4
  <2> QED
    BY <2>1, <2>2, <2>3, <2>4
<1>8. ASSUME NEW p \in P, NEW q \in P, p # q
      PROVE  p.last < q.first \/ q.last < p.first
  <2>1. p \in {b, m, a} /\ q \in {b, m, a}
    BY <1>6
  <2>2. CASE (p = b /\ q = m) \/ (p = m /\ q = b)
    BY <1>1, <1>3, <2>2
  <2>3. CASE (p = b /\ q = a) \/ (p = a /\ q = b)
    BY <1>1, <1>3, <2>3
  <2>4. CASE (p = m /\ q = a) \/ (p = a /\ q = m)
    BY <1>1, <1>3, <2>4
  <2> QED
    BY <1>8, <2>1, <2>2, <2>3, <2>4
<1>9. ASSUME NEW x \in e.first..e.last
      PROVE  /\ \E p \in P : x \in p.first..p.last
             /\ first <= x /\ x <= last =>
                  \E p \in P : x \in p.first..p.last /\ p.op = op \cup e.op
  <2>1. x \in Int /\ e.first <= x /\ x <= e.last
    BY <1>1
  <2>2. CASE x < first
    <3>1. b \in P /\ x \in b.first..b.last
      BY <1>1, <1>3, <1>6, <2>1, <2>2
    <3> QED
      BY <2>1, <2>2, <3>1
  <2>3. CASE x > last
    <3>1. a \in P /\ x \in a.first..a.last
      BY <1>1, <1>3, <1>6, <2>1, <2>3
    <3> QED
      BY <2>1, <2>3, <3>1
  <2>4. CASE first <= x /\ x <= last
    <3>1. m \in P /\ x \in m.first..m.last
      BY <1>1, <1>3, <1>6, <2>1, <2>4
    <3> QED
      BY <1>3, <3>1
  <2> QED
    BY <2>1, <2>2, <2>3, <2>4
<1> HIDE DEF A, B, M
<1> QED
  BY <1>5, <1>7, <1>8, <1>9

\* What MergeEntry knows of the call, of the entry it captured and of the
\* pieces that replace it
LEMMA MergeFacts ==
  ASSUME IInv, MergeEntry
  PROVE  \E h \in MergeCallType, e \in entries, P \in SUBSET EntryType :
           /\ P = Pieces(e, h.first, h.last, h.op)
           /\ entries' = (entries \ {e}) \cup P /\ calls' = Tail(calls)
           /\ calls # <<>> /\ h = calls[1] /\ 1 \in 1..Len(calls)
           /\ h.at = "merge" /\ h.into = e /\ h.op \in SUBSET Flags
           /\ h.first \in Int /\ h.last \in Int /\ h.first <= h.last
           /\ e \in EntryType /\ e.first \in Int /\ e.last \in Int
           /\ e.first <= h.first /\ h.last <= e.last
<1>1. /\ TypeOK /\ calls # <<>> /\ Call.at = "merge" /\ calls' = Tail(calls)
      /\ entries' = (entries \ {Call.into})
                      \cup Pieces(Call.into, Call.first, Call.last, Call.op)
  BY DEF IInv, MergeEntry
<1>2. PICK h : h = Call
  OBVIOUS
<1>3. h = calls[1] /\ 1 \in 1..Len(calls) /\ h.at = "merge"
  BY <1>1, <1>2, HeadFacts
<1>4. /\ h \in MergeCallType /\ h.first \in Int /\ h.last \in Int
      /\ h.op \in SUBSET Flags
  BY <1>1, <1>3, CallFacts
<1>5. PICK e : e = h.into
  OBVIOUS
<1>6. e \in entries /\ h.first <= h.last /\ Span(h) \subseteq Span(e)
  BY <1>3, <1>5 DEF IInv, CapturedEntriesKept
<1>7. e \in EntryType /\ e.first \in Int /\ e.last \in Int
  BY <1>1, <1>6, EntryFacts
<1>8. e.first <= h.first /\ h.last <= e.last
  <2>1. h.first \in Span(h) /\ h.last \in Span(h)
    BY <1>4, <1>6 DEF Span
  <2> QED
    BY <1>4, <1>6, <1>7, <2>1 DEF Span
<1>9. entries' = (entries \ {e}) \cup Pieces(e, h.first, h.last, h.op)
  BY <1>1, <1>2, <1>5
<1>10. Pieces(e, h.first, h.last, h.op) \in SUBSET EntryType
  BY <1>4, <1>6, <1>7, <1>8, PiecesFacts
<1> QED
  BY <1>1, <1>3, <1>4, <1>5, <1>6, <1>7, <1>8, <1>9, <1>10

\* The captured entry gives way to its pieces, away from the calls left
LEMMA MergeIInv ==
  ASSUME IInv, MergeEntry
  PROVE  IInv'
<1>0. PICK h \in MergeCallType, e \in entries, P \in SUBSET EntryType :
        /\ P = Pieces(e, h.first, h.last, h.op)
        /\ entries' = (entries \ {e}) \cup P /\ calls' = Tail(calls)
        /\ calls # <<>> /\ h = calls[1] /\ 1 \in 1..Len(calls)
        /\ h.at = "merge" /\ h.into = e /\ h.op \in SUBSET Flags
        /\ h.first \in Int /\ h.last \in Int /\ h.first <= h.last
        /\ e \in EntryType /\ e.first \in Int /\ e.last \in Int
        /\ e.first <= h.first /\ h.last <= e.last
  BY MergeFacts
<1>1. /\ \A p \in P :
           /\ p \in EntryType /\ p.first \in Int /\ p.last \in Int
           /\ p.first <= p.last /\ e.first <= p.first /\ p.last <= e.last
           /\ \/ p.last < h.first
              \/ p.first > h.last /\ p.last = e.last
              \/ p.first = h.first /\ p.last = h.last
      /\ \A p, q \in P : p # q => p.last < q.first \/ q.last < p.first
  BY <1>0, PiecesFacts
<1>2. /\ calls' \in Seq(AddCallType \cup MergeCallType)
      /\ \A i \in 1..Len(calls') :
           i + 1 \in 2..Len(calls) /\ calls'[i] = calls[i + 1]
      /\ Len(calls') = Len(calls) - 1 /\ Len(calls) \in Nat
  BY <1>0, TailFacts DEF IInv
<1>3. \A p \in P : Span(p) \subseteq Span(e)
  BY <1>0, <1>1 DEF Span
\* The calls left are apart from the entry that is replaced
<1>4. \A j \in 2..Len(calls) : Span(e) \cap Span(calls[j]) = {}
  BY <1>0, <1>2 DEF IInv, CallsApart
<1>5. TypeOK'
  BY <1>0, <1>1, <1>2 DEF IInv, TypeOK
<1>6. EntriesDisjoint'
  <2>1. ASSUME NEW p \in P, NEW g \in entries, g # e
        PROVE  ~Overlap(p, g) /\ ~Overlap(g, p)
    <3>1. g.first \in Int /\ g.last \in Int
      BY <2>1, EntryFacts DEF IInv
    <3>2. ~Overlap(e, g) /\ ~Overlap(g, e)
      BY <2>1 DEF IInv, EntriesDisjoint
    <3> QED
      BY <1>0, <1>1, <3>1, <3>2 DEF Overlap
  <2>2. ASSUME NEW p \in P, NEW q \in P, p # q
        PROVE  ~Overlap(p, q)
    BY <1>1, <2>2 DEF Overlap
  <2>3. \A g \in entries' : g.first <= g.last
    BY <1>0, <1>1 DEF IInv, EntriesDisjoint
  <2>4. \A g, k \in entries' : g # k => ~Overlap(g, k)
    BY <1>0, <2>1, <2>2 DEF IInv, EntriesDisjoint
  <2> QED
    BY <2>3, <2>4 DEF EntriesDisjoint, Overlap
<1>7. CapturedEntriesKept'
  <2> SUFFICES ASSUME NEW i \in 1..Len(calls'), calls'[i].at = "merge"
               PROVE  /\ calls'[i].into \in entries'
                      /\ calls'[i].first <= calls'[i].last
                      /\ Span(calls'[i]) \subseteq Span(calls'[i].into)
    BY DEF CapturedEntriesKept, Span
  <2>1. PICK j \in 2..Len(calls) : calls'[i] = calls[j]
    BY <1>2
  <2>2. j \in 1..Len(calls) /\ calls[j].at = "merge"
    BY <2>1
  <2>3. /\ calls[j].into \in entries /\ calls[j].first <= calls[j].last
        /\ Span(calls[j]) \subseteq Span(calls[j].into)
    BY <2>2 DEF IInv, CapturedEntriesKept
  <2>4. calls[j].first \in Span(calls[j])
    BY <2>2, <2>3, CallFacts DEF IInv, Span
  <2>5. calls[j].into # e
    BY <1>4, <2>3, <2>4
  <2> QED
    BY <1>0, <2>1, <2>3, <2>5
<1>8. CallsApart'
  <2> SUFFICES ASSUME NEW i \in 1..Len(calls'), NEW j \in 1..Len(calls'), i # j
               PROVE  /\ Span(calls'[i]) \cap Span(calls'[j]) = {}
                      /\ calls'[i].at = "merge" =>
                           Span(calls'[i].into) \cap Span(calls'[j]) = {}
                      /\ calls'[i].at = "add" /\ calls'[j].at = "add" =>
                           \A g \in entries' :
                             \/ Span(g) \cap Span(calls'[i]) = {}
                             \/ Span(g) \cap Span(calls'[j]) = {}
    BY DEF CallsApart, Span
  <2>1. PICK k \in 2..Len(calls), l \in 2..Len(calls) :
          k # l /\ calls'[i] = calls[k] /\ calls'[j] = calls[l]
    BY <1>2
  <2>2. k \in 1..Len(calls) /\ l \in 1..Len(calls)
    BY <2>1
  <2>3. \A p \in P : Span(p) \cap Span(calls'[i]) = {}
    BY <1>3, <1>4, <2>1
  <2>4. /\ Span(calls[k]) \cap Span(calls[l]) = {}
        /\ calls[k].at = "merge" =>
             Span(calls[k].into) \cap Span(calls[l]) = {}
        /\ calls[k].at = "add" /\ calls[l].at = "add" =>
             \A g \in entries : \/ Span(g) \cap Span(calls[k]) = {}
                               \/ Span(g) \cap Span(calls[l]) = {}
    BY <2>1, <2>2 DEF IInv, CallsApart
  <2>5. ASSUME calls'[i].at = "add", calls'[j].at = "add", NEW g \in entries'
        PROVE  \/ Span(g) \cap Span(calls'[i]) = {}
               \/ Span(g) \cap Span(calls'[j]) = {}
    <3>1. CASE g \in P
      BY <2>3, <3>1
    <3>2. CASE g \in entries
      BY <2>1, <2>4, <2>5, <3>2
    <3> QED
      BY <1>0, <3>1, <3>2
  <2> QED
    BY <2>1, <2>4, <2>5
<1>9. BranchesLast'
  <2> SUFFICES ASSUME NEW x \in BranchEnds
               PROVE  /\ \A g \in entries' : x \in Span(g) => x = g.last
                      /\ \A i \in 1..Len(calls') :
                           x \in Span(calls'[i]) => x = calls'[i].last
    BY DEF BranchesLast, Span
  <2>1. x \in Int
    BY CodeAssumption DEF CodeAssumption
  <2>2. /\ x \in Span(e) => x = e.last
        /\ x \in Span(h) => x = h.last
    BY <1>0 DEF IInv, BranchesLast
  <2>3. ASSUME NEW p \in P, x \in Span(p) PROVE x = p.last
    <3>1. x \in Span(e) /\ x = e.last /\ p.first <= x /\ x <= p.last
      BY <1>1, <1>3, <2>1, <2>2, <2>3 DEF Span
    <3>2. CASE p.last < h.first
      BY <1>0, <1>1, <2>1, <3>1, <3>2
    <3>3. CASE p.last = e.last
      BY <3>1, <3>3
    <3>4. CASE p.first = h.first /\ p.last = h.last
      <4>1. x \in Span(h)
        BY <2>3, <3>4 DEF Span
      <4> QED
        BY <2>2, <3>4, <4>1
    <3> QED
      BY <1>1, <3>2, <3>3, <3>4
  <2>4. \A g \in entries' : x \in Span(g) => x = g.last
    BY <1>0, <2>3 DEF IInv, BranchesLast
  <2>5. \A i \in 1..Len(calls') : x \in Span(calls'[i]) => x = calls'[i].last
    BY <1>2 DEF IInv, BranchesLast
  <2> QED
    BY <2>4, <2>5
<1>10. NewOutcomesRecorded'
  <2>1. \A i \in 1..Len(calls') : ~NewOutcome(calls'[i].op)
    BY <1>2 DEF IInv, NewOutcomesRecorded
  <2> QED
    BY <2>1 DEF NewOutcomesRecorded, NewOutcome
<1> QED
  BY <1>5, <1>6, <1>7, <1>8, <1>9, <1>10 DEF IInv

----------------------------------------------------------------------------
(* The invariant, and the properties it implies.                           *)

\* The inductive invariant of the trace database holds in every reachable
\* state, whatever the traces, the code and its branches.
THEOREM Invariance == Spec => []IInv
<1>1. Init => IInv
  BY InitIInv
<1>2. IInv /\ [Next]_vars => IInv'
  <2> SUFFICES ASSUME IInv, [Next]_vars PROVE IInv'
    OBVIOUS
  <2>1. ASSUME NEW first \in 0..MaxPC, NEW op \in Ops,
               NEW last \in (first - 1)..MaxPC,
               ProcessTraceEntry(first, last, op)
        PROVE  IInv'
    BY <2>1, ReadIInv
  <2>2. CASE DiscardEmpty
    BY <2>2, DiscardIInv
  <2>3. CASE InsertEntry
    BY <2>3, InsertIInv
  <2>4. CASE MergeFlags
    BY <2>4, MergeFlagsIInv
  <2>5. CASE SplitCall
    BY <2>5, SplitIInv
  <2>6. CASE MergeEntry
    BY <2>6, MergeIInv
  <2>7. CASE UNCHANGED vars
    BY <2>7 DEF vars, IInv, TypeOK, EntriesDisjoint, CapturedEntriesKept,
                CallsApart, BranchesLast, NewOutcomesRecorded, NewOutcome,
                Recorded, Span, Overlap
  <2> QED
    BY <2>1, <2>2, <2>3, <2>4, <2>5, <2>6, <2>7 DEF Next, AddEntry
<1> QED
  BY <1>1, <1>2, PTL DEF Spec

\* Entries and calls keep their types: no address leaves the code.
THEOREM TypeCorrect == Spec => []TypeOK
<1>1. IInv => TypeOK
  BY DEF IInv
<1> QED
  BY <1>1, Invariance, PTL

\* The entries of the database are always non-empty and pairwise disjoint,
\* in the middle of Add_Entry too.
THEOREM DisjointEntries == Spec => []EntriesDisjoint
<1>1. IInv => EntriesDisjoint
  BY DEF IInv
<1> QED
  BY <1>1, Invariance, PTL

----------------------------------------------------------------------------
(* The database implements the record of the executed code.                *)

\* What the database and the calls to do hold
Items == entries \cup {calls[i] : i \in 1..Len(calls)}
Holds(a) == \E x \in Items : a \in Span(x)
HoldsWith(a, d) == \E x \in Items : a \in Span(x) /\ d \in x.op

\* The abstract state in these terms
LEMMA ItemFacts ==
  /\ Executed = {a \in 0..MaxPC : Holds(a)}
  /\ Taken = [a \in BranchEnds |-> {d \in Directions : HoldsWith(a, d)}]
<1>1. \A a : Holds(a) <=> \/ \E e \in entries : a \in Span(e)
                          \/ \E i \in 1..Len(calls) : a \in Span(calls[i])
  BY DEF Holds, Items
<1>2. \A a, d :
        HoldsWith(a, d) <=>
          \/ \E e \in entries : a \in Span(e) /\ d \in e.op
          \/ \E i \in 1..Len(calls) : a \in Span(calls[i]) /\ d \in calls[i].op
  BY DEF HoldsWith, Items
<1> QED
  BY <1>1, <1>2 DEF Executed, Taken

\* ... and after a step
LEMMA ItemFactsNext ==
  /\ Executed' = {a \in 0..MaxPC : Holds(a)'}
  /\ Taken' = [a \in BranchEnds |-> {d \in Directions : HoldsWith(a, d)'}]
<1>1. \A a : Holds(a)' <=> \/ \E e \in entries' : a \in Span(e)
                          \/ \E i \in 1..Len(calls') : a \in Span(calls'[i])
  BY DEF Holds, Items, Span
<1>2. \A a, d :
        HoldsWith(a, d)' <=>
          \/ \E e \in entries' : a \in Span(e) /\ d \in e.op
          \/ \E i \in 1..Len(calls') :
               a \in Span(calls'[i]) /\ d \in calls'[i].op
  BY DEF HoldsWith, Items, Span
<1> QED
  BY <1>1, <1>2 DEF Executed, Taken, Span

\* A step that changes neither what addresses nor what outcomes are held
LEMMA SameCode ==
  ASSUME \A a \in 0..MaxPC : Holds(a)' <=> Holds(a),
         \A a \in BranchEnds, d \in Directions :
           HoldsWith(a, d)' <=> HoldsWith(a, d)
  PROVE  Executed' = Executed /\ Taken' = Taken
  BY ItemFacts, ItemFactsNext

\* What the items of X hold, those of Y do
Within(X, Y) ==
  /\ \A a \in 0..MaxPC : (\E x \in X : a \in Span(x)) =>
                         \E y \in Y : a \in Span(y)
  /\ \A a \in BranchEnds, d \in Directions :
       (\E x \in X : a \in Span(x) /\ d \in x.op) =>
         \E y \in Y : a \in Span(y) /\ d \in y.op

\* A step that replaces items by others that hold the same
LEMMA ReplaceItems ==
  ASSUME NEW old, NEW new, NEW kept,
         Items = kept \cup old, Items' = kept \cup new,
         Within(new, kept \cup old), Within(old, kept \cup new)
  PROVE  Executed' = Executed /\ Taken' = Taken
<1>1. ASSUME NEW a \in 0..MaxPC PROVE Holds(a)' <=> Holds(a)
  BY DEF Holds, Span, Within
<1>2. ASSUME NEW a \in BranchEnds, NEW d \in Directions
      PROVE  HoldsWith(a, d)' <=> HoldsWith(a, d)
  BY DEF HoldsWith, Span, Within
<1> QED
  BY <1>1, <1>2, SameCode
\* The items when the call in progress ends
LEMMA ItemsOfTail ==
  ASSUME TypeOK, calls # <<>>, calls' = Tail(calls)
  PROVE  /\ Items = entries \cup {calls[j] : j \in 2..Len(calls)} \cup {Call}
         /\ Items' = entries' \cup {calls[j] : j \in 2..Len(calls)}
<1>1. /\ \A i \in 1..Len(calls') :
           i + 1 \in 2..Len(calls) /\ calls'[i] = calls[i + 1]
      /\ Len(calls') = Len(calls) - 1 /\ Len(calls) \in Nat
  BY TailFacts
<1>2. Call = calls[1] /\ 1 \in 1..Len(calls)
  BY HeadFacts
<1>3. \A j \in 1..Len(calls) : j = 1 \/ j \in 2..Len(calls)
  BY <1>1
<1>4. \A j \in 2..Len(calls) :
        j \in 1..Len(calls) /\ j - 1 \in 1..Len(calls') /\ calls'[j - 1] = calls[j]
  <2> SUFFICES ASSUME NEW j \in 2..Len(calls)
               PROVE  j \in 1..Len(calls) /\ j - 1 \in 1..Len(calls')
                      /\ calls'[j - 1] = calls[j]
    OBVIOUS
  <2>1. j \in 1..Len(calls) /\ j - 1 \in 1..Len(calls') /\ (j - 1) + 1 = j
    BY <1>1
  <2> QED
    BY <1>1, <2>1
<1>5. {calls[j] : j \in 1..Len(calls)} =
        {calls[j] : j \in 2..Len(calls)} \cup {Call}
  BY <1>2, <1>3, <1>4
<1>6. {calls'[i] : i \in 1..Len(calls')} = {calls[j] : j \in 2..Len(calls)}
  BY <1>1, <1>4
<1> QED
  BY <1>5, <1>6 DEF Items
\* An empty call held nothing
LEMMA DiscardSame ==
  ASSUME IInv, DiscardEmpty
  PROVE  Executed' = Executed /\ Taken' = Taken
<1> DEFINE kept == entries \cup {calls[j] : j \in 2..Len(calls)}
<1>1. /\ TypeOK /\ calls # <<>> /\ calls' = Tail(calls) /\ entries' = entries
      /\ Call.last < Call.first
  BY DEF IInv, DiscardEmpty
<1>2. /\ Items = kept \cup {Call} /\ Items' = kept
      /\ Call = calls[1] /\ 1 \in 1..Len(calls)
  BY <1>1, ItemsOfTail, HeadFacts
<1>3. Span(Call) = {}
  BY <1>1, <1>2, CallFacts DEF Span
<1>4. PICK k, o : k = kept /\ o = {Call}
  OBVIOUS
<1> HIDE DEF kept
<1>5. Items = k \cup o /\ Items' = k \cup {}
  BY <1>2, <1>4
<1>6. Within({}, k \cup o) /\ Within(o, k \cup {})
  BY <1>3, <1>4 DEF Within
<1> QED
  BY ONLY <1>5, <1>6, ReplaceItems

\* The new entry holds what the call held
LEMMA InsertSame ==
  ASSUME IInv, InsertEntry
  PROVE  Executed' = Executed /\ Taken' = Taken
<1> DEFINE kept == entries \cup {calls[j] : j \in 2..Len(calls)}
<1>1. TypeOK /\ calls # <<>> /\ calls' = Tail(calls)
  BY DEF IInv, InsertEntry
<1>2. PICK n : n = Entry(Call.first, Call.last, Call.op, "Unknown")
  OBVIOUS
<1>3. entries' = entries \cup {n} /\ Span(n) = Span(Call) /\ n.op = Call.op
  BY <1>2 DEF InsertEntry, Entry, Span
<1>4. Items = kept \cup {Call} /\ Items' = kept \cup {n}
  BY <1>1, <1>3, ItemsOfTail
<1>5. PICK k, o, w : k = kept /\ o = {Call} /\ w = {n}
  OBVIOUS
<1> HIDE DEF kept
<1>6. Items = k \cup o /\ Items' = k \cup w
  BY <1>4, <1>5
<1>7. Within(w, k \cup o) /\ Within(o, k \cup w)
  BY <1>3, <1>5 DEF Within
<1> QED
  BY ONLY <1>6, <1>7, ReplaceItems

\* The addresses of the call are recorded already, and its outcomes are those
\* of the branch that ends the entry
LEMMA MergeFlagsSame ==
  ASSUME IInv, MergeFlags
  PROVE  Executed' = Executed /\ Taken' = Taken
<1>1. PICK e \in entries, n \in EntryType :
        /\ entries' = (entries \ {e}) \cup {n}
        /\ n.first = e.first /\ n.last = e.last /\ n.op = Call.op \cup e.op
        /\ e.last = Call.last /\ Call.last \in BranchEnds
        /\ calls = <<Call>> /\ calls' = <<>>
        /\ Span(Call) \subseteq Recorded
  BY MergeFlagsFacts
<1>2. PICK kept, old, new :
        kept = entries \ {e} /\ old = {e, Call} /\ new = {n}
  OBVIOUS
<1>2a. Items = kept \cup old /\ Items' = kept \cup new /\ Span(n) = Span(e)
  BY <1>1, <1>2 DEF Items, Span
<1>3. \A a \in BranchEnds : /\ a \in Span(e) => a = e.last
                            /\ a \in Span(Call) => a = Call.last
  <2>1. 1 \in 1..Len(calls) /\ calls[1] = Call
    BY <1>1
  <2> QED
    BY <1>1, <2>1 DEF IInv, BranchesLast
<1>4. Call.last \in Span(Call) /\ e.last \in Span(e)
  <2>1. Call.first \in Int /\ Call.last \in Int /\ Call.first <= Call.last
    BY HeadFacts, CallFacts DEF IInv, MergeFlags
  <2>2. e.first \in Int /\ e.last \in Int /\ e.first <= e.last
    BY <1>1, EntryFacts DEF IInv, EntriesDisjoint
  <2> QED
    BY <2>1, <2>2 DEF Span
<1>5. \A a \in Span(Call) : \E x \in kept \cup new : a \in Span(x)
  BY <1>1, <1>2, <1>2a DEF Recorded
<1>6. Within(new, kept \cup old)
  BY <1>1, <1>2, <1>2a, <1>3, <1>4 DEF Within
<1>7. Within(old, kept \cup new)
  BY <1>1, <1>2, <1>2a, <1>3, <1>4, <1>5 DEF Within
<1> QED
  BY ONLY <1>2a, <1>6, <1>7, ReplaceItems
\* The parts of a call make up the call, with its operation
LEMMA SplitSame ==
  ASSUME IInv, SplitCall
  PROVE  Executed' = Executed /\ Taken' = Taken
<1>1. PICK h \in AddCallType, e \in entries,
         parts \in Seq(AddCallType \cup MergeCallType) :
        /\ \E b, a, m : Shape(parts, h, e, b, a, m)
        /\ calls' = parts \o Tail(calls)
        /\ Overlap(h, e) /\ e \in EntryType /\ e.first <= e.last
        /\ calls # <<>> /\ h = calls[1] /\ 1 \in 1..Len(calls)
        /\ h.first <= h.last
        /\ h.first \in 0..MaxPC /\ h.last \in 0..MaxPC
        /\ h.first \in Int /\ h.last \in Int
  BY SplitFacts
<1>2. PICK b, a, m : Shape(parts, h, e, b, a, m)
  BY <1>1
<1>3. /\ \A k \in 1..Len(parts) :
           /\ parts[k].op = h.op
           /\ parts[k].first \in Int /\ parts[k].last \in Int
           /\ h.first <= parts[k].first /\ parts[k].last <= h.last
      /\ \A x \in h.first..h.last :
           \E k \in 1..Len(parts) : x \in parts[k].first..parts[k].last
  <2>1. /\ h.first \in 0..MaxPC /\ h.last \in 0..MaxPC /\ h.first <= h.last
        /\ e \in EntryType /\ e.first <= e.last /\ Overlap(h, e)
        /\ Shape(parts, h, e, b, a, m)
    BY <1>1, <1>2
  <2> QED
    BY ONLY <2>1, CodeAssumption, PartsFacts
<1> DEFINE kept == entries \cup {calls[j] : j \in 2..Len(calls)}
           new == {parts[k] : k \in 1..Len(parts)}
<1>4. Items = kept \cup {h}
  <2>1. /\ \A j \in 1..Len(calls) : j = 1 \/ j \in 2..Len(calls)
        /\ 2..Len(calls) \subseteq 1..Len(calls)
    <3>1. Len(calls) \in Nat
      BY DEF IInv, TypeOK
    <3> QED
      BY <3>1
  <2>2. {calls[j] : j \in 1..Len(calls)} =
          {calls[j] : j \in 2..Len(calls)} \cup {h}
    BY <1>1, <2>1
  <2> QED
    BY <2>2 DEF Items
<1>5. Items' = kept \cup new
  <2>1. /\ Len(parts) \in Nat /\ Len(calls) \in Nat
        /\ \A i \in 1..Len(calls') :
             \/ i \in 1..Len(parts) /\ calls'[i] = parts[i]
             \/ /\ i > Len(parts) /\ i - Len(parts) + 1 \in 2..Len(calls)
                /\ calls'[i] = calls[i - Len(parts) + 1]
        /\ \A k \in 1..Len(parts) : k \in 1..Len(calls') /\ calls'[k] = parts[k]
        /\ \A j \in 2..Len(calls) :
             /\ j - 1 + Len(parts) \in 1..Len(calls')
             /\ calls'[j - 1 + Len(parts)] = calls[j]
    BY <1>1, SplitStack DEF IInv
  <2>2. {calls'[i] : i \in 1..Len(calls')} \subseteq
          new \cup {calls[j] : j \in 2..Len(calls)}
    BY <2>1
  <2>3. new \subseteq {calls'[i] : i \in 1..Len(calls')}
    BY <2>1
  <2>4. {calls[j] : j \in 2..Len(calls)} \subseteq
          {calls'[i] : i \in 1..Len(calls')}
    BY <2>1
  <2>5. entries' = entries
    BY DEF SplitCall
  <2> QED
    BY <2>2, <2>3, <2>4, <2>5 DEF Items
<1>6. \A x \in new : Span(x) \subseteq Span(h) /\ x.op = h.op
  <2> SUFFICES ASSUME NEW k \in 1..Len(parts)
               PROVE  Span(parts[k]) \subseteq Span(h) /\ parts[k].op = h.op
    OBVIOUS
  <2> QED
    BY <1>1, <1>3 DEF Span
<1>7. \A x \in Span(h) : \E p \in new : x \in Span(p)
  BY <1>3 DEF Span
<1>8. PICK k, o, n : k = kept /\ o = {h} /\ n = new
  OBVIOUS
<1> HIDE DEF kept, new
<1>9. Items = k \cup o /\ Items' = k \cup n
  BY <1>4, <1>5, <1>8
<1>10. Within(n, k \cup o) /\ Within(o, k \cup n)
  BY <1>6, <1>7, <1>8 DEF Within
<1> QED
  BY ONLY <1>9, <1>10, ReplaceItems

\* The pieces of an entry make up the entry, and the part merged has the
\* operation of the call as well
LEMMA MergeSame ==
  ASSUME IInv, MergeEntry
  PROVE  Executed' = Executed /\ Taken' = Taken
<1>1. PICK h \in MergeCallType, e \in entries, P \in SUBSET EntryType :
        /\ P = Pieces(e, h.first, h.last, h.op)
        /\ entries' = (entries \ {e}) \cup P /\ calls' = Tail(calls)
        /\ calls # <<>> /\ h = calls[1] /\ 1 \in 1..Len(calls)
        /\ h.op \in SUBSET Flags
        /\ h.first \in Int /\ h.last \in Int /\ h.first <= h.last
        /\ e \in EntryType /\ e.first \in Int /\ e.last \in Int
        /\ e.first <= h.first /\ h.last <= e.last
  BY MergeFacts
<1>2. /\ \A p \in P :
           /\ p.first \in Int /\ p.last \in Int
           /\ e.first <= p.first /\ p.last <= e.last
           /\ \/ p.op = e.op
              \/ p.op = h.op \cup e.op /\ p.first = h.first /\ p.last = h.last
      /\ \A x \in e.first..e.last :
           /\ \E p \in P : x \in p.first..p.last
           /\ h.first <= x /\ x <= h.last =>
                \E p \in P : x \in p.first..p.last /\ p.op = h.op \cup e.op
  BY <1>1, PiecesFacts
<1> DEFINE kept == (entries \ {e}) \cup {calls[j] : j \in 2..Len(calls)}
<1>3. Items = kept \cup {e, h} /\ Items' = kept \cup P
  <2>1. Call = h
    BY <1>1 DEF Call
  <2> QED
    BY <1>1, <2>1, ItemsOfTail DEF IInv
<1>4. \A p \in P :
        /\ Span(p) \subseteq Span(e) /\ e.op \subseteq p.op
        /\ p.op = e.op \/ (p.op = h.op \cup e.op /\ Span(p) = Span(h))
  BY <1>1, <1>2 DEF Span
<1>5. Span(h) \subseteq Span(e) /\ \A x \in Span(e) : \E p \in P : x \in Span(p)
  BY <1>1, <1>2 DEF Span
<1>6. \A x \in Span(h) : \E p \in P : x \in Span(p) /\ p.op = h.op \cup e.op
  <2> SUFFICES ASSUME NEW x \in Span(h)
               PROVE  \E p \in P : x \in Span(p) /\ p.op = h.op \cup e.op
    OBVIOUS
  <2>1. x \in e.first..e.last /\ h.first <= x /\ x <= h.last
    BY <1>1 DEF Span
  <2> QED
    BY <1>2, <2>1 DEF Span
<1>7. PICK k, o : k = kept /\ o = {e, h}
  OBVIOUS
<1> HIDE DEF kept
<1>8. Items = k \cup o /\ Items' = k \cup P
  BY <1>3, <1>7
<1>9. Within(P, k \cup o)
  BY <1>4, <1>5, <1>7 DEF Within
<1>10. Within(o, k \cup P)
  BY <1>4, <1>5, <1>6, <1>7 DEF Within
<1> QED
  BY ONLY <1>8, <1>9, <1>10, ReplaceItems
\* Reading a trace records its range and its directions at once; an empty
\* trace changes nothing
LEMMA ReadRecords ==
  ASSUME IInv, NEW first \in 0..MaxPC, NEW op \in Ops,
         NEW last \in (first - 1)..MaxPC, ProcessTraceEntry(first, last, op)
  PROVE  \/ Executed' = Executed /\ Taken' = Taken
         \/ /\ last \in 0..MaxPC
            /\ Code!Record(first, last, op \cap Directions)
<1>1. entries' = entries /\ calls = <<>> /\ calls' = <<AddCall(first, last, op)>>
  BY DEF ProcessTraceEntry
<1>2. PICK c, o : c = AddCall(first, last, op) /\ o = {c}
  OBVIOUS
<1>3. Span(c) = first..last /\ c.op = op
  BY <1>2 DEF AddCall, Span
<1>4. Items = entries /\ Items' = entries \cup o
  BY <1>1, <1>2 DEF Items
<1>5. CASE last < first
  <2>1. PICK k : k = entries
    OBVIOUS
  <2>2. Items = k \cup {} /\ Items' = k \cup o
    BY <1>4, <2>1
  <2>3. first..last = {}
    BY <1>5, CodeAssumption DEF CodeAssumption
  <2>4. Within({}, k \cup o) /\ Within(o, k \cup {})
    BY <1>2, <1>3, <2>3 DEF Within
  <2> QED
    BY ONLY <2>2, <2>4, ReplaceItems
<1>6. CASE first <= last
  <2>1. last \in 0..MaxPC /\ first..last \subseteq 0..MaxPC
    BY <1>6, CodeAssumption DEF CodeAssumption
  <2>2. /\ \A a : Holds(a)' <=> Holds(a) \/ a \in first..last
        /\ \A a, d : HoldsWith(a, d)' <=>
                       HoldsWith(a, d) \/ (a \in first..last /\ d \in op)
    BY <1>2, <1>3, <1>4 DEF Holds, HoldsWith, Span
  <2>3. /\ Executed' = {a \in 0..MaxPC : Holds(a)'}
        /\ Taken' = [a \in BranchEnds |-> {d \in Directions : HoldsWith(a, d)'}]
    BY ItemFactsNext
  <2>4. Executed' = Executed \cup first..last
    BY <2>1, <2>2, <2>3, ItemFacts
  <2>5. Taken' = [a \in BranchEnds |->
                    IF a \in first..last THEN Taken[a] \cup (op \cap Directions)
                    ELSE Taken[a]]
    <3>1. \A a \in BranchEnds : Taken[a] = {d \in Directions : HoldsWith(a, d)}
      BY ItemFacts
    <3>2. \A a \in BranchEnds :
            {d \in Directions : HoldsWith(a, d)'} =
              IF a \in first..last THEN Taken[a] \cup (op \cap Directions)
              ELSE Taken[a]
      BY <2>2, <3>1
    <3> QED
      BY <2>3, <3>2
  <2> QED
    BY <2>1, <2>4, <2>5 DEF Code!Record
<1> QED
  BY <1>5, <1>6, CodeAssumption DEF CodeAssumption

\* The trace database implements the record of the executed code: whatever the
\* order and the overlaps of the traces, and however Add_Entry splits the
\* entries they meet, it holds exactly the addresses and the branch directions
\* that the traces read so far have executed.
THEOREM Refinement == Spec => RefinesExecutedCode
<1>1. Init => Code!Init
  <2> SUFFICES ASSUME Init PROVE Code!Init
    OBVIOUS
  <2>1. entries = {} /\ calls = <<>> /\ 1..Len(calls) = {}
    BY DEF Init
  <2>2. Executed = {}
    BY <2>1 DEF Executed
  <2>3. Taken = [a \in BranchEnds |-> {}]
    BY <2>1 DEF Taken
  <2> QED
    BY <2>2, <2>3 DEF Code!Init
<1>2. IInv /\ [Next]_vars => [Code!Next]_<<Executed, Taken>>
  <2> SUFFICES ASSUME IInv, [Next]_vars
               PROVE  Code!Next \/ (Executed' = Executed /\ Taken' = Taken)
    OBVIOUS
  <2>1. ASSUME NEW first \in 0..MaxPC, NEW op \in Ops,
               NEW last \in (first - 1)..MaxPC,
               ProcessTraceEntry(first, last, op)
        PROVE  Code!Next \/ (Executed' = Executed /\ Taken' = Taken)
    <3>1. op \cap Directions \in SUBSET Code!Directions
      BY DEF Directions, Code!Directions
    <3> QED
      BY <2>1, <3>1, ReadRecords DEF Code!Next
  <2>2. CASE DiscardEmpty
    BY <2>2, DiscardSame
  <2>3. CASE InsertEntry
    BY <2>3, InsertSame
  <2>4. CASE MergeFlags
    BY <2>4, MergeFlagsSame
  <2>5. CASE SplitCall
    BY <2>5, SplitSame
  <2>6. CASE MergeEntry
    BY <2>6, MergeSame
  <2>7. CASE UNCHANGED vars
    BY <2>7 DEF vars, Executed, Taken, Span
  <2> QED
    BY <2>1, <2>2, <2>3, <2>4, <2>5, <2>6, <2>7 DEF Next, AddEntry
<1> QED
  BY <1>1, <1>2, Invariance, PTL DEF Spec, RefinesExecutedCode, Code!Spec

----------------------------------------------------------------------------
(***************************************************************************)
(* Object coverage: the analysis of the database.                          *)
(***************************************************************************)

(* Instructions and delay slots *)

LEMMA InsnFacts ==
  ASSUME NEW i \in Insns
  PROVE  /\ i.first \in 0..MaxPC /\ i.last \in 0..MaxPC /\ i.first <= i.last
         /\ i.first \in Int /\ i.last \in Int /\ i.cond \in BOOLEAN
         /\ MaxPC \in Int
<1>1. i.first \in 0..MaxPC /\ i.last \in i.first..MaxPC /\ i.cond \in BOOLEAN
  BY InsnsAssumption DEF InsnsAssumption
<1>2. MaxPC \in Nat
  BY CodeAssumption DEF CodeAssumption
<1> QED
  BY <1>1, <1>2

\* Two instructions that share an address are the same one
LEMMA SameInsn ==
  ASSUME NEW i \in Insns, NEW j \in Insns, NEW a \in Int,
         i.first <= a, a <= i.last, j.first <= a, a <= j.last
  PROVE  i = j
<1>1. a \in Span(i) /\ a \in Span(j)
  BY InsnFacts DEF Span
<1> QED
  BY <1>1, InsnsAssumption DEF InsnsAssumption

\* An instruction follows and precedes another one, within the code
LEMMA NextInsn ==
  ASSUME NEW i \in Insns, i.last < MaxPC
  PROVE  \E j \in Insns : j.first = i.last + 1
<1>1. i.last + 1 \in 0..MaxPC /\ i.last \in Int /\ i.first <= i.last /\ i.first \in Int
  BY InsnFacts
<1>2. PICK j \in Insns : i.last + 1 \in Span(j)
  BY <1>1, InsnsAssumption DEF InsnsAssumption
<1>3. /\ j.first <= i.last + 1 /\ i.last + 1 <= j.last
      /\ j.first \in Int /\ j.last \in Int
  BY <1>1, <1>2, InsnFacts DEF Span
<1>4. j.first > i.last
  <2> SUFFICES ASSUME j.first <= i.last PROVE FALSE
    BY <1>1, <1>3
  <2>1. i.last <= j.last
    BY <1>1, <1>3
  <2>2. i = j
    BY <1>1, <2>1, SameInsn
  <2> QED
    BY <1>1, <1>3, <2>2
<1> QED
  BY <1>1, <1>3, <1>4

LEMMA PreviousInsn ==
  ASSUME NEW j \in Insns, j.first > 0
  PROVE  \E i \in Insns : i.last = j.first - 1
<1>1. /\ j.first - 1 \in 0..MaxPC /\ j.last \in Int /\ j.first <= j.last
      /\ j.first \in Int
  BY InsnFacts
<1>2. PICK i \in Insns : j.first - 1 \in Span(i)
  BY <1>1, InsnsAssumption DEF InsnsAssumption
<1>3. /\ i.first <= j.first - 1 /\ j.first - 1 <= i.last
      /\ i.first \in Int /\ i.last \in Int
  BY <1>1, <1>2, InsnFacts DEF Span
<1>4. i.last < j.first
  <2> SUFFICES ASSUME j.first <= i.last PROVE FALSE
    BY <1>1, <1>3
  <2>1. i.first <= j.first
    BY <1>1, <1>3
  <2>2. i = j
    BY <1>1, <2>1, SameInsn
  <2> QED
    BY <1>1, <1>3, <2>2
<1> QED
  BY <1>1, <1>3, <1>4

\* The block that a conditional instruction ends reaches to its own end, or to
\* that of the unconditional one that follows it
LEMMA SlotFacts ==
  ASSUME NEW i \in Insns, i.cond
  PROVE  /\ EndOf(i) \in BranchEnds /\ EndOf(i) \in 0..MaxPC /\ EndOf(i) \in Int
         /\ \/ EndOf(i) = i.last
            \/ /\ i.last \notin BranchEnds
               /\ \E s \in Insns : /\ s.first = i.last + 1 /\ ~s.cond
                                   /\ EndOf(i) = s.last
<1>1. EndOf(i) \in BranchEnds
  BY InsnsAssumption DEF InsnsAssumption
<1>2. BranchEnds \subseteq 0..MaxPC /\ MaxPC \in Nat
  BY CodeAssumption DEF CodeAssumption
<1>2a. EndOf(i) \in 0..MaxPC /\ EndOf(i) \in Int
  <2>1. \A a \in BranchEnds : a \in 0..MaxPC /\ a \in Int
    BY <1>2
  <2> QED
    BY <1>1, <2>1
<1>3. CASE i.last \in BranchEnds
  <2>1. EndOf(i) = i.last
    BY <1>3 DEF EndOf
  <2> QED
    BY <1>1, <1>2a, <2>1
<1>4. CASE i.last \notin BranchEnds
  <2>1. PICK s \in Insns : s.first = i.last + 1 /\ ~s.cond
    BY <1>4, InsnsAssumption DEF InsnsAssumption
  <2>2. PICK t : t = CHOOSE k \in Insns : k.first = i.last + 1
    OBVIOUS
  <2>3. t \in Insns /\ t.first = i.last + 1
    BY <2>1, <2>2
  <2>4. t = s
    BY <2>1, <2>3, InsnFacts, SameInsn
  <2>5. EndOf(i) = t.last
    BY <1>4, <2>2 DEF EndOf
  <2>6. \E r \in Insns : r.first = i.last + 1 /\ ~r.cond /\ EndOf(i) = r.last
    BY <2>1, <2>4, <2>5
  <2> QED
    BY <1>1, <1>2a, <1>4, <2>6
<1> QED
  BY <1>3, <1>4

LEMMA SlotReach ==
  ASSUME NEW i \in Insns, i.cond
  PROVE  i.last <= EndOf(i)
<1>1. CASE EndOf(i) = i.last
  BY <1>1, InsnFacts
<1>2. ASSUME NEW s \in Insns, s.first = i.last + 1, EndOf(i) = s.last
      PROVE  i.last <= EndOf(i)
  BY <1>2, InsnFacts
<1> QED
  BY <1>1, <1>2, SlotFacts

----------------------------------------------------------------------------
(* What traces and entries are cut into *)

\* The ends of whole instructions are not inside of an instruction
LEMMA Boundaries ==
  ASSUME NEW x, x.first \in Int, x.last \in Int, Whole(x), NEW i \in Insns
  PROVE  /\ x.first <= i.first \/ x.first > i.last
         /\ x.last < i.first \/ x.last >= i.last
<1>1. PICK j \in Insns : j.first = x.first
  BY DEF Whole
<1>2. PICK k \in Insns : k.last = x.last
  BY DEF Whole
<1>3. /\ i.first \in Int /\ i.last \in Int /\ i.first <= i.last
      /\ j.first \in Int /\ j.last \in Int /\ j.first <= j.last
      /\ k.first \in Int /\ k.last \in Int /\ k.first <= k.last
  BY InsnFacts
<1>4. x.first <= i.first \/ x.first > i.last
  <2> SUFFICES ASSUME i.first < x.first, x.first <= i.last PROVE FALSE
    BY <1>3
  <2>1. i = j
    BY <1>1, <1>3, SameInsn
  <2> QED
    BY <1>1, <1>3, <2>1
<1>5. x.last < i.first \/ x.last >= i.last
  <2> SUFFICES ASSUME i.first <= x.last, x.last < i.last PROVE FALSE
    BY <1>3
  <2>1. i = k
    BY <1>2, <1>3, SameInsn
  <2> QED
    BY <1>2, <1>3, <2>1
<1> QED
  BY <1>4, <1>5

\* Whole instructions that reach into the block of a conditional one without it
\* have its delay slot
LEMMA BlockBoundaries ==
  ASSUME NEW x, x.first \in Int, x.last \in Int, x.first <= x.last, Whole(x),
         NEW i \in Insns, i.cond, i.first < x.first, x.first <= EndOf(i)
  PROVE  EndOf(i) <= x.last
<1>1. /\ i.first \in Int /\ i.last \in Int /\ EndOf(i) \in Int
      /\ x.first > i.last
  BY InsnFacts, SlotFacts, Boundaries
<1>2. PICK s \in Insns : s.first = i.last + 1 /\ EndOf(i) = s.last
  BY <1>1, SlotFacts
<1>3. s.first \in Int /\ s.last \in Int
  BY InsnFacts
<1>4. x.last < s.first \/ x.last >= s.last
  BY Boundaries
<1> QED
  BY <1>1, <1>2, <1>3, <1>4

\* The parts of x around y, and the part that they share
Cut(p, x, y) ==
  \/ p.first = x.first /\ p.last = y.first - 1
  \/ p.first = y.last + 1 /\ p.last = x.last
  \/ /\ p.first = x.first \/ p.first = y.first
     /\ p.last = x.last \/ p.last = y.last
     /\ p.first >= x.first /\ p.first >= y.first
     /\ p.last <= x.last /\ p.last <= y.last

LEMMA CutWhole ==
  ASSUME NEW x, NEW y, x.first \in 0..MaxPC, x.last \in 0..MaxPC,
         y.first \in 0..MaxPC, y.last \in 0..MaxPC, x.first <= x.last,
         y.first <= y.last, Whole(x), Whole(y),
         NEW p, Cut(p, x, y), p.first <= p.last
  PROVE  Whole(p)
<1>1. MaxPC \in Nat
  BY CodeAssumption DEF CodeAssumption
<1>2. PICK x1 \in Insns, x2 \in Insns : x1.first = x.first /\ x2.last = x.last
  BY DEF Whole
<1>3. PICK y1 \in Insns, y2 \in Insns : y1.first = y.first /\ y2.last = y.last
  BY DEF Whole
<1>4. CASE p.first = x.first /\ p.last = y.first - 1
  <2>1. y1.first > 0
    BY <1>1, <1>3, <1>4
  <2>2. PICK k \in Insns : k.last = y1.first - 1
    BY <2>1, PreviousInsn
  <2> QED
    BY <1>2, <1>3, <1>4, <2>2 DEF Whole
<1>5. CASE p.first = y.last + 1 /\ p.last = x.last
  <2>1. y2.last < MaxPC
    BY <1>1, <1>3, <1>5
  <2>2. PICK k \in Insns : k.first = y2.last + 1
    BY <2>1, NextInsn
  <2> QED
    BY <1>2, <1>3, <1>5, <2>2 DEF Whole
<1>6. CASE (p.first = x.first \/ p.first = y.first) /\ (p.last = x.last \/ p.last = y.last)
  BY <1>2, <1>3, <1>6 DEF Whole
<1> QED
  BY <1>4, <1>5, <1>6 DEF Cut

LEMMA CutSlots ==
  ASSUME NEW x, NEW y, x.first \in 0..MaxPC, x.last \in 0..MaxPC,
         y.first \in 0..MaxPC, y.last \in 0..MaxPC, x.first <= x.last,
         y.first <= y.last, Whole(x), Whole(y), SlotsWithin(x), SlotsWithin(y),
         NEW p, Cut(p, x, y), p.first <= p.last, Overlap(x, y)
  PROVE  SlotsWithin(p)
<1> SUFFICES ASSUME NEW i \in Insns, i.cond
             PROVE  i.first \in Span(p) <=> EndOf(i) \in Span(p)
  BY DEF SlotsWithin
<1>1. /\ i.first \in Int /\ EndOf(i) \in Int /\ i.first <= EndOf(i)
      /\ MaxPC \in Int
  <2>1. i.first \in Int /\ i.last \in Int /\ i.first <= i.last /\ MaxPC \in Int
    BY InsnFacts
  <2>2. EndOf(i) \in Int /\ i.last <= EndOf(i)
    BY SlotFacts, SlotReach
  <2> QED
    BY <2>1, <2>2
<1>2. /\ x.first \in Int /\ x.last \in Int /\ y.first \in Int /\ y.last \in Int
  BY <1>1
<1>3. /\ (x.first <= i.first /\ i.first <= x.last)
            <=> (x.first <= EndOf(i) /\ EndOf(i) <= x.last)
      /\ (y.first <= i.first /\ i.first <= y.last)
            <=> (y.first <= EndOf(i) /\ EndOf(i) <= y.last)
  BY <1>1, <1>2 DEF SlotsWithin, Span
<1>4. i.first < y.first /\ y.first <= EndOf(i) => EndOf(i) <= y.last
  BY <1>2, BlockBoundaries
<1>5. x.first <= y.last /\ x.last >= y.first
  BY DEF Overlap
<1>6. p.first \in Int /\ p.last \in Int
  BY <1>1, <1>2 DEF Cut
<1>7. (p.first <= i.first /\ i.first <= p.last)
         <=> (p.first <= EndOf(i) /\ EndOf(i) <= p.last)
  BY <1>1, <1>2, <1>3, <1>4, <1>5, <1>6 DEF Cut
<1> QED
  BY <1>1, <1>6, <1>7 DEF Span

\* An entry or call of the same addresses, with no less flags
LEMMA SameAddresses ==
  ASSUME NEW x, NEW y, AsEmitted(x), y.first = x.first, y.last = x.last,
         x.op \subseteq y.op
  PROVE  AsEmitted(y)
<1>1. Span(y) = Span(x)
  BY DEF Span
<1>2. Whole(y) /\ SlotsWithin(y)
  BY <1>1 DEF AsEmitted, Whole, SlotsWithin
<1>3. Directed(y)
  BY <1>1 DEF AsEmitted, Directed
<1> QED
  BY <1>2, <1>3 DEF AsEmitted

\* Each part has the flags of x, of y or of both; the flags of y are in the part
\* that they share
LEMMA CutAsEmitted ==
  ASSUME NEW x, NEW y, x.first \in 0..MaxPC, x.last \in 0..MaxPC,
         y.first \in 0..MaxPC, y.last \in 0..MaxPC, x.first <= x.last,
         y.first <= y.last, AsEmitted(x), AsEmitted(y), Overlap(x, y),
         NEW p, Cut(p, x, y), p.first <= p.last, x.op \subseteq p.op
  PROVE  AsEmitted(p)
<1>1. Whole(p) /\ SlotsWithin(p)
  BY CutWhole, CutSlots DEF AsEmitted
<1>2. MaxPC \in Int
  BY CodeAssumption DEF CodeAssumption
<1>3. /\ x.first \in Int /\ x.last \in Int /\ y.first \in Int /\ y.last \in Int
      /\ x.first <= y.last /\ x.last >= y.first
  BY <1>2 DEF Overlap
<1>4. Span(p) \subseteq Span(x)
  BY <1>3 DEF Cut, Span
<1>5. Directed(p)
  BY <1>4 DEF AsEmitted, Directed
<1> QED
  BY <1>1, <1>5 DEF AsEmitted

----------------------------------------------------------------------------
(* Reading a trace, and the steps of Add_Entry *)

LEMMA ReadAsEmitted ==
  ASSUME NEW first \in 0..MaxPC, NEW op \in Ops, NEW last \in (first - 1)..MaxPC,
         WholeInsns(first, last, op), ProcessTraceEntry(first, last, op),
         ObjIInv, ~analyzed, UNCHANGED analyzed
  PROVE  ItemsAsEmitted'
<1>1. /\ entries' = entries /\ calls' = <<AddCall(first, last, op)>>
      /\ \A a \in BranchEnds : a \in first..last => a = last
  BY DEF ProcessTraceEntry, Emitted
<1>2. PICK c : c = AddCall(first, last, op)
  OBVIOUS
<1>3. c.first = first /\ c.last = last /\ c.op = op
  BY <1>2 DEF AddCall
<1>4. Span(c) = first..last
  BY <1>3 DEF Span
<1>5. Whole(c) /\ SlotsWithin(c)
  BY <1>3, <1>4 DEF WholeInsns, Whole, SlotsWithin
<1>6. Directed(c)
  BY <1>1, <1>3, <1>4 DEF WholeInsns, Directed
<1>7. Len(calls') = 1 /\ calls'[1] = c
  BY <1>1, <1>2
<1>8. \A e \in entries' : AsEmitted(e)
  BY <1>1 DEF ObjIInv, ItemsAsEmitted
<1>9. \A k \in 1..Len(calls') : AsEmitted(calls'[k])
  BY <1>5, <1>6, <1>7 DEF AsEmitted
<1> QED
  BY <1>8, <1>9 DEF ItemsAsEmitted

LEMMA TailAsEmitted ==
  ASSUME ObjIInv, ~analyzed, calls # <<>>, calls' = Tail(calls)
  PROVE  /\ \A k \in 1..Len(calls') : AsEmitted(calls'[k])
         /\ AsEmitted(Call) /\ \A e \in entries : AsEmitted(e)
<1>1. /\ TypeOK /\ \A e \in entries : AsEmitted(e)
      /\ \A k \in 1..Len(calls) : AsEmitted(calls[k])
  BY DEF ObjIInv, IInv, ItemsAsEmitted
<1>2. /\ \A k \in 1..Len(calls') : k + 1 \in 2..Len(calls) /\ calls'[k] = calls[k + 1]
      /\ Len(calls) \in Nat
  BY <1>1, TailFacts
<1>3. Call = calls[1] /\ 1 \in 1..Len(calls)
  BY <1>1, HeadFacts
<1>4. \A k \in 1..Len(calls') : k + 1 \in 1..Len(calls)
  BY <1>2
<1> QED
  BY <1>1, <1>2, <1>3, <1>4

LEMMA DiscardAsEmitted ==
  ASSUME ObjIInv, ~analyzed, DiscardEmpty
  PROVE  ItemsAsEmitted'
<1>1. calls # <<>> /\ calls' = Tail(calls) /\ entries' = entries
  BY DEF DiscardEmpty
<1> QED
  BY <1>1, TailAsEmitted DEF ItemsAsEmitted

LEMMA InsertAsEmitted ==
  ASSUME ObjIInv, ~analyzed, InsertEntry
  PROVE  ItemsAsEmitted'
<1>1. PICK n : n = Entry(Call.first, Call.last, Call.op, "Unknown")
  OBVIOUS
<1>2. n.first = Call.first /\ n.last = Call.last /\ n.op = Call.op
  BY <1>1 DEF Entry
<1>3. calls # <<>> /\ calls' = Tail(calls) /\ entries' = entries \cup {n}
  BY <1>1 DEF InsertEntry
<1>4. AsEmitted(n)
  BY <1>2, <1>3, TailAsEmitted, SameAddresses
<1> QED
  BY <1>3, <1>4, TailAsEmitted DEF ItemsAsEmitted

LEMMA MergeFlagsAsEmitted ==
  ASSUME ObjIInv, ~analyzed, MergeFlags
  PROVE  ItemsAsEmitted'
<1>1. PICK e \in entries, n \in EntryType :
        /\ entries' = (entries \ {e}) \cup {n}
        /\ n.first = e.first /\ n.last = e.last /\ n.op = Call.op \cup e.op
        /\ calls' = <<>>
  BY MergeFlagsFacts DEF ObjIInv
<1>2. \A x \in entries : AsEmitted(x)
  BY DEF ObjIInv, ItemsAsEmitted
<1>3. AsEmitted(n)
  BY <1>1, <1>2, SameAddresses
<1>4. 1..Len(calls') = {}
  BY <1>1
<1>5. \A x \in entries' : AsEmitted(x)
  BY <1>1, <1>2, <1>3
<1> QED
  BY <1>4, <1>5 DEF ItemsAsEmitted

\* The calls that SplitCall makes are cut out of the one in progress
LEMMA SplitAsEmitted ==
  ASSUME ObjIInv, ~analyzed, SplitCall
  PROVE  ItemsAsEmitted'
<1>1. PICK h \in AddCallType, e \in entries,
         parts \in Seq(AddCallType \cup MergeCallType) :
        /\ \E b, a, m : Shape(parts, h, e, b, a, m)
        /\ calls' = parts \o Tail(calls)
        /\ Overlap(h, e) /\ e \in EntryType /\ e.first <= e.last
        /\ calls # <<>> /\ h = calls[1] /\ 1 \in 1..Len(calls)
        /\ h.first <= h.last /\ h.first \in 0..MaxPC /\ h.last \in 0..MaxPC
  BY SplitFacts DEF ObjIInv
<1>2. PICK b, a, m : Shape(parts, h, e, b, a, m)
  BY <1>1
<1>3. e.first \in 0..MaxPC /\ e.last \in 0..MaxPC /\ MaxPC \in Int
  BY <1>1, CodeAssumption DEF EntryType, CodeAssumption
<1>4. AsEmitted(h) /\ AsEmitted(e) /\ \A k \in 1..Len(calls) : AsEmitted(calls[k])
  BY <1>1 DEF ObjIInv, ItemsAsEmitted
<1>5. ASSUME NEW p, \/ p = b /\ h.first < e.first
                    \/ p = a /\ h.last > e.last
                    \/ p = m
      PROVE  AsEmitted(p)
  <2>1. /\ b.first = h.first /\ b.last = e.first - 1 /\ b.op = h.op
        /\ a.first = e.last + 1 /\ a.last = h.last /\ a.op = h.op
        /\ m.op = h.op
        /\ m.first = IF h.first < e.first THEN e.first ELSE h.first
        /\ m.last = IF h.last > e.last THEN e.last ELSE h.last
    BY <1>2 DEF Shape
  <2>2. h.first <= e.last /\ h.last >= e.first
    BY <1>1 DEF Overlap
  <2>3. Cut(p, h, e) /\ p.first <= p.last
    <3>1. CASE p = b /\ h.first < e.first
      BY <1>1, <1>3, <2>1, <3>1 DEF Cut
    <3>2. CASE p = a /\ h.last > e.last
      BY <1>1, <1>3, <2>1, <3>2 DEF Cut
    <3>3. CASE p = m
      BY <1>1, <1>3, <2>1, <2>2, <3>3 DEF Cut
    <3> QED
      BY <1>5, <3>1, <3>2, <3>3
  <2>4. h.op \subseteq p.op
    BY <1>5, <2>1
  <2> QED
    BY <1>1, <1>3, <1>4, <2>3, <2>4, CutAsEmitted
<1>6. \A k \in 1..Len(parts) : AsEmitted(parts[k])
  <2> TAKE k \in 1..Len(parts)
  <2>1. \/ parts[k] = b /\ h.first < e.first
        \/ parts[k] = a /\ h.last > e.last
        \/ parts[k] = m
    BY <1>2 DEF Shape
  <2> QED
    BY <1>5, <2>1
<1>7. \A k \in 1..Len(calls') : AsEmitted(calls'[k])
  <2> TAKE k \in 1..Len(calls')
  <2>1. /\ Len(parts) \in Nat /\ Len(calls) \in Nat
        /\ \/ k \in 1..Len(parts) /\ calls'[k] = parts[k]
           \/ /\ k > Len(parts) /\ k - Len(parts) + 1 \in 2..Len(calls)
              /\ calls'[k] = calls[k - Len(parts) + 1]
    BY <1>1, SplitStack DEF ObjIInv, IInv
  <2>2. k - Len(parts) + 1 \in 2..Len(calls) => k - Len(parts) + 1 \in 1..Len(calls)
    BY <2>1
  <2> QED
    BY <1>4, <1>6, <2>1, <2>2
<1>8. \A x \in entries' : AsEmitted(x)
  BY DEF SplitCall, ObjIInv, ItemsAsEmitted
<1> QED
  BY <1>7, <1>8 DEF ItemsAsEmitted

\* So are the entries that replace the captured one
LEMMA MergeAsEmitted ==
  ASSUME ObjIInv, ~analyzed, MergeEntry
  PROVE  ItemsAsEmitted'
<1>1. PICK h \in MergeCallType, e \in entries, P \in SUBSET EntryType :
        /\ P = Pieces(e, h.first, h.last, h.op)
        /\ entries' = (entries \ {e}) \cup P /\ calls' = Tail(calls)
        /\ calls # <<>> /\ h = calls[1] /\ 1 \in 1..Len(calls)
        /\ h.first \in Int /\ h.last \in Int /\ h.first <= h.last
        /\ e \in EntryType /\ e.first \in Int /\ e.last \in Int
        /\ e.first <= h.first /\ h.last <= e.last
  BY MergeFacts DEF ObjIInv
<1>2. /\ e.first \in 0..MaxPC /\ e.last \in 0..MaxPC /\ MaxPC \in Int
      /\ h.first \in 0..MaxPC /\ h.last \in 0..MaxPC
  BY <1>1, CodeAssumption DEF EntryType, MergeCallType, CodeAssumption
<1>3. AsEmitted(h) /\ AsEmitted(e) /\ \A x \in entries : AsEmitted(x)
  BY <1>1 DEF ObjIInv, ItemsAsEmitted
<1>4. e.first <= e.last /\ Overlap(e, h)
  BY <1>1 DEF Overlap
<1>5. ASSUME NEW p \in P PROVE AsEmitted(p)
  <2>1. /\ p.first <= p.last
        /\ \/ p = Entry(e.first, h.first - 1, e.op, e.state)
           \/ p = Entry(h.first, h.last, h.op \cup e.op, e.state)
           \/ p = Entry(h.last + 1, e.last, e.op, e.state)
    BY <1>1, <1>5 DEF Pieces
  <2>2. Cut(p, e, h)
    <3>1. CASE p = Entry(e.first, h.first - 1, e.op, e.state)
      BY <3>1 DEF Cut, Entry
    <3>2. CASE p = Entry(h.first, h.last, h.op \cup e.op, e.state)
      BY <1>1, <3>2 DEF Cut, Entry
    <3>3. CASE p = Entry(h.last + 1, e.last, e.op, e.state)
      BY <3>3 DEF Cut, Entry
    <3> QED
      BY <2>1, <3>1, <3>2, <3>3
  <2>3. e.op \subseteq p.op
    BY <2>1 DEF Entry
  <2> QED
    BY <1>1, <1>2, <1>3, <1>4, <2>1, <2>2, <2>3, CutAsEmitted
<1>6. \A x \in entries' : AsEmitted(x)
  BY <1>1, <1>3, <1>5
<1> QED
  BY <1>1, <1>6, TailAsEmitted DEF ItemsAsEmitted

----------------------------------------------------------------------------
(* Set_Insn_State *)

\* What the analysis relies on: the conditional instruction of an entry, if any,
\* is its last one, but for a delay slot
Analyzable(t) ==
  /\ t \in EntryType /\ t.first <= t.last
  /\ Whole(t) /\ Directed(t)
  /\ \A i \in Insns : i.cond /\ i.first \in Span(t) =>
       EndOf(i) = t.last \/ i.last = t.last

LEMMA EntriesAnalyzable ==
  ASSUME ObjIInv, calls = <<>>, NEW t \in entries
  PROVE  Analyzable(t)
<1>1. /\ t \in EntryType /\ t.first <= t.last
      /\ \A a \in BranchEnds : a \in Span(t) => a = t.last
  BY EntryFacts DEF ObjIInv, IInv, EntriesDisjoint, BranchesLast
<1>2. CASE ~analyzed
  <2>1. AsEmitted(t)
    BY <1>2 DEF ObjIInv, ItemsAsEmitted
  <2>2. ASSUME NEW i \in Insns, i.cond, i.first \in Span(t)
        PROVE  EndOf(i) = t.last
    BY <1>1, <2>1, <2>2, SlotFacts DEF AsEmitted, SlotsWithin
  <2> QED
    BY <1>1, <2>1, <2>2 DEF AsEmitted, Analyzable
<1>3. CASE analyzed
  <2>1. EntryAnalyzed(t)
    BY <1>3 DEF ObjIInv, EntriesAnalyzed
  <2>2. ASSUME NEW i \in Insns, i.cond, i.first \in Span(t)
        PROVE  i.last = t.last
    <3>1. PICK j \in Insns : j.first = t.first /\ j.last = t.last
      BY <2>1, <2>2 DEF EntryAnalyzed
    <3>2. j.first <= i.first /\ i.first <= j.last /\ i.first <= i.last /\ i.first \in Int
      BY <2>2, <3>1, InsnFacts DEF Span
    <3>3. i = j
      BY <3>2, SameInsn
    <3> QED
      BY <3>1, <3>3
  <2> QED
    BY <1>1, <2>1, <2>2 DEF EntryAnalyzed, Analyzable
<1> QED
  BY <1>2, <1>3 DEF ObjIInv

\* The last instruction of an entry
LEMMA LastInsn ==
  ASSUME NEW t, Analyzable(t)
  PROVE  \E l \in Insns :
           /\ l = CHOOSE i \in InsnsOf(t) : i.last = t.last
           /\ l.last = t.last /\ t.first <= l.first
<1>1. t.first \in Int /\ t.last \in Int /\ t.first <= t.last /\ Whole(t)
  BY CodeAssumption DEF Analyzable, EntryType, CodeAssumption
<1>2. PICK k \in Insns : k.last = t.last
  BY <1>1 DEF Whole
<1>3. k.first \in Int /\ k.last \in Int /\ k.first <= k.last
  BY InsnFacts
<1>4. t.first <= k.first
  BY <1>1, <1>2, <1>3, Boundaries
<1>5. k \in InsnsOf(t)
  BY <1>1, <1>2, <1>3, <1>4 DEF InsnsOf, Span
<1>6. PICK l : l = CHOOSE i \in InsnsOf(t) : i.last = t.last
  OBVIOUS
<1>7. l \in InsnsOf(t) /\ l.last = t.last
  BY <1>2, <1>5, <1>6
<1>8. l \in Insns /\ l.first \in Int /\ l.first <= l.last
  BY <1>7, InsnFacts DEF InsnsOf
<1>9. t.first <= l.first
  BY <1>1, <1>7, <1>8, Boundaries
<1> QED
  BY <1>6, <1>7, <1>8, <1>9

\* The search among the last two instructions finds the conditional one
LEMMA LastCondFacts ==
  ASSUME NEW t, Analyzable(t)
  PROVE  \/ /\ LastCond(t) \in Insns /\ LastCond(t).cond
            /\ t.first <= LastCond(t).first /\ LastCond(t).last <= t.last
            /\ \A k \in Insns : k.cond /\ k.first \in Span(t) => k = LastCond(t)
         \/ /\ ~LastCond(t).cond
            /\ \A k \in Insns : k.cond => k.first \notin Span(t)
<1>1. /\ t.first \in Int /\ t.last \in Int /\ t.first <= t.last
      /\ \A i \in Insns : i.cond /\ i.first \in Span(t) =>
           EndOf(i) = t.last \/ i.last = t.last
  BY CodeAssumption DEF Analyzable, EntryType, CodeAssumption
<1>2. PICK l \in Insns :
        /\ l = CHOOSE i \in InsnsOf(t) : i.last = t.last
        /\ l.last = t.last /\ t.first <= l.first
  BY LastInsn
<1>3. l.first \in Int /\ l.last \in Int /\ l.first <= l.last
  BY InsnFacts
<1>4. PICK Q : Q = {i \in InsnsOf(t) : i.last = l.first - 1 /\ i.cond}
  OBVIOUS
<1>5. LastCond(t) = IF Q = {} THEN l ELSE CHOOSE i \in Q : TRUE
  BY <1>2, <1>4 DEF LastCond
<1>6. ASSUME NEW q \in Q
      PROVE  /\ q \in Insns /\ q.cond /\ q.last = l.first - 1
             /\ q.first \in Span(t) /\ q.first \in Int /\ q.last \in Int
             /\ q.first <= q.last
  <2>1. q \in Insns /\ q.cond /\ q.last = l.first - 1 /\ Span(q) \subseteq Span(t)
    BY <1>4, <1>6 DEF InsnsOf
  <2>2. q.first \in Int /\ q.last \in Int /\ q.first <= q.last
    BY <2>1, InsnFacts
  <2>3. q.first \in Span(q)
    BY <2>2 DEF Span
  <2> QED
    BY <2>1, <2>2, <2>3
<1>7. ASSUME NEW k \in Insns, k.cond, k.first \in Span(t)
      PROVE  k = LastCond(t) /\ t.first <= k.first /\ k.last <= t.last
  <2>1. /\ t.first <= k.first /\ k.first <= t.last
        /\ k.first \in Int /\ k.last \in Int /\ k.first <= k.last
    BY <1>1, <1>7, InsnFacts DEF Span
  <2>2. CASE k.last = t.last
    <3>1. k = l
      BY <1>2, <1>3, <2>1, <2>2, SameInsn
    <3>2. ASSUME NEW q \in Q PROVE FALSE
      <4>1. /\ q \in Insns /\ q.cond /\ q.last = l.first - 1
            /\ q.first \in Span(t) /\ q.last \in Int
        BY <1>6, <3>2
      <4>2. EndOf(q) = t.last /\ q.last # t.last
        BY <1>1, <1>2, <1>3, <4>1
      <4>3. PICK s \in Insns : s.first = q.last + 1 /\ ~s.cond /\ EndOf(q) = s.last
        BY <4>1, <4>2, SlotFacts
      <4>4. s.last = l.last
        BY <1>2, <4>2, <4>3
      <4>5. s.first \in Int /\ s.last \in Int /\ s.first <= s.last
        BY InsnFacts
      <4>6. s = l
        BY <1>3, <4>4, <4>5, SameInsn
      <4> QED
        BY <1>7, <3>1, <4>3, <4>6
    <3>3. LastCond(t) = l
      BY <1>5, <3>2
    <3> QED
      BY <2>1, <2>2, <3>1, <3>3
  <2>3. CASE k.last # t.last
    <3>1. EndOf(k) = t.last
      BY <1>1, <1>7, <2>3
    <3>2. PICK s \in Insns : s.first = k.last + 1 /\ EndOf(k) = s.last
      BY <1>7, <2>3, <3>1, SlotFacts
    <3>3. s.first \in Int /\ s.last \in Int /\ s.first <= s.last
      BY InsnFacts
    <3>4. s = l
      BY <1>2, <1>3, <3>1, <3>2, <3>3, SameInsn
    <3>5. k.last = l.first - 1 /\ k.last <= t.last
      BY <1>1, <1>2, <1>3, <2>1, <3>2, <3>4
    <3>6. k \in Q
      BY <1>1, <1>4, <1>7, <2>1, <3>5 DEF InsnsOf, Span
    <3>7. ASSUME NEW q \in Q PROVE q = k
      <4>1. q \in Insns /\ q.last = k.last /\ q.first <= q.last /\ q.last \in Int
        BY <1>6, <3>5, <3>7
      <4> QED
        BY <2>1, <4>1, SameInsn
    <3>8. LastCond(t) = k
      BY <1>5, <3>6, <3>7
    <3> QED
      BY <2>1, <3>5, <3>8
  <2> QED
    BY <2>2, <2>3
<1>8. CASE \E k \in Insns : k.cond /\ k.first \in Span(t)
  BY <1>7, <1>8
<1>9. CASE \A k \in Insns : k.cond => k.first \notin Span(t)
  <2>1. Q = {}
    BY <1>6, <1>9
  <2>2. LastCond(t) = l
    BY <1>5, <2>1
  <2>3. l.first \in Span(t)
    BY <1>1, <1>2, <1>3 DEF Span
  <2> QED
    BY <1>9, <2>2, <2>3
<1> QED
  BY <1>8, <1>9

----------------------------------------------------------------------------
(* States *)

LEMMA CondStates ==
  ASSUME NEW op \in SUBSET Flags
  PROVE  /\ op \cap Directions = {} => CondState(op) = "Covered"
         /\ op \cap Directions = {"Br0"} => CondState(op) = "BranchTaken"
         /\ op \cap Directions = {"Br1"} => CondState(op) = "FallthroughTaken"
         /\ op \cap Directions = {"Br0", "Br1"} => CondState(op) = "BothTaken"
         /\ \/ op \cap Directions = {} \/ op \cap Directions = {"Br0"}
            \/ op \cap Directions = {"Br1"} \/ op \cap Directions = {"Br0", "Br1"}
<1>1. Directions = {"Br0", "Br1"}
  BY DEF Directions
<1>2. /\ {} # {"Br0"} /\ {} # {"Br1"} /\ {} # {"Br0", "Br1"} /\ {"Br0"} # {"Br1"}
      /\ {"Br0"} # {"Br0", "Br1"} /\ {"Br1"} # {"Br0", "Br1"}
  OBVIOUS
<1>3. \/ op \cap Directions = {} \/ op \cap Directions = {"Br0"}
      \/ op \cap Directions = {"Br1"} \/ op \cap Directions = {"Br0", "Br1"}
  BY <1>1
<1>4. PICK d : d = op \cap Directions
  OBVIOUS
<1>5. d = {} => CondState(op) = "Covered"
  BY <1>1, <1>2, <1>4, Zenon DEF CondState
<1>6. d = {"Br0"} => CondState(op) = "BranchTaken"
  BY <1>1, <1>2, <1>4, Zenon DEF CondState
<1>7. d = {"Br1"} => CondState(op) = "FallthroughTaken"
  BY <1>1, <1>2, <1>4, Zenon DEF CondState
<1>8. d = {"Br0", "Br1"} => CondState(op) = "BothTaken"
  BY <1>1, <1>2, <1>4, Zenon DEF CondState
<1> QED
  BY <1>3, <1>4, <1>5, <1>6, <1>7, <1>8

LEMMA CoverageStates ==
  /\ CoverageState("Covered") = "Covered"
  /\ \A op \in SUBSET Flags :
       CoverageState(CondState(op)) \in
         {"Covered", "BranchTaken", "FallthroughTaken", "BothTaken"}
<1>1. CoverageState("Covered") = "Covered"
  BY DEF CoverageState
<1>2. ASSUME NEW op \in SUBSET Flags
      PROVE  CoverageState(CondState(op)) \in
               {"Covered", "BranchTaken", "FallthroughTaken", "BothTaken"}
  <2>1. CondState(op) \in {"Covered", "BranchTaken", "FallthroughTaken", "BothTaken"}
    BY CondStates
  <2> QED
    BY <2>1 DEF CoverageState
<1> QED
  BY <1>1, <1>2

----------------------------------------------------------------------------
(* What Set_Insn_State makes of an entry *)

LEMMA StatePartsFacts ==
  ASSUME NEW t, Analyzable(t)
  PROVE  /\ \A p \in StateParts(t) :
              /\ p \in EntryType /\ p.first <= p.last /\ p.op = t.op
              /\ t.first <= p.first /\ p.last <= t.last /\ EntryAnalyzed(p)
         /\ \A p, q \in StateParts(t) :
              p # q => p.last < q.first \/ q.last < p.first
         /\ \A a \in Span(t) : \E p \in StateParts(t) : a \in Span(p)
<1>1. /\ t \in EntryType /\ t.first \in 0..MaxPC /\ t.last \in 0..MaxPC
      /\ t.first \in Int /\ t.last \in Int /\ t.first <= t.last /\ MaxPC \in Int
      /\ t.op \in SUBSET Flags /\ Whole(t) /\ Directed(t)
  BY CodeAssumption DEF Analyzable, EntryType, CodeAssumption
<1>2. PICK c : c = LastCond(t)
  OBVIOUS
<1>3. CASE ~c.cond
  <2>1. PICK p : p = [t EXCEPT !.state = CoverageState("Covered")]
    OBVIOUS
  <2>2. StateParts(t) = {p}
    BY <1>2, <1>3, <2>1 DEF StateParts
  <2>3. /\ p \in EntryType /\ p.first = t.first /\ p.last = t.last /\ p.op = t.op
        /\ p.state = CoverageState("Covered")
    BY <1>1, <2>1, CoverageStates DEF EntryType, InsnStates
  <2>4. Span(p) = Span(t)
    BY <2>3 DEF Span
  <2>5. \A k \in Insns : k.cond => k.first \notin Span(p)
    BY <1>2, <1>3, <2>4, LastCondFacts
  <2>6. EntryAnalyzed(p)
    BY <1>1, <2>3, <2>4, <2>5 DEF EntryAnalyzed, Whole, Directed
  <2> QED
    BY <1>1, <2>2, <2>3, <2>4, <2>6
<1>4. CASE c.cond
  <2>1. /\ c \in Insns /\ t.first <= c.first /\ c.last <= t.last
        /\ c.first \in Int /\ c.last \in Int /\ c.first <= c.last
        /\ c.first \in 0..MaxPC /\ c.last \in 0..MaxPC
        /\ \A k \in Insns : k.cond /\ k.first \in Span(t) => k = c
    BY <1>2, <1>4, LastCondFacts, InsnFacts
  <2>2. PICK b, m, a :
          /\ b = Entry(t.first, c.first - 1, t.op, CoverageState("Covered"))
          /\ m = Entry(c.first, c.last, t.op, CoverageState(CondState(t.op)))
          /\ a = Entry(c.last + 1, t.last, t.op, CoverageState("Covered"))
    OBVIOUS
  <2>3. StateParts(t) = {p \in {b, m, a} : p.first <= p.last}
    BY <1>2, <1>4, <2>2 DEF StateParts
  <2>4. /\ b.first = t.first /\ b.last = c.first - 1
        /\ m.first = c.first /\ m.last = c.last
        /\ a.first = c.last + 1 /\ a.last = t.last
        /\ b.op = t.op /\ m.op = t.op /\ a.op = t.op
        /\ b.state = CoverageState("Covered") /\ a.state = CoverageState("Covered")
        /\ m.state = CoverageState(CondState(t.op))
    BY <2>2 DEF Entry
  <2>5. /\ CoverageState("Covered") \in InsnStates
        /\ CoverageState(CondState(t.op)) \in InsnStates
    BY <1>1, CoverageStates DEF InsnStates
  <2>6. ASSUME NEW p, p \in {b, m, a}, p.first <= p.last
        PROVE  /\ p \in EntryType /\ p.op = t.op
               /\ t.first <= p.first /\ p.last <= t.last
               /\ p.first \in Int /\ p.last \in Int
    <3>1. CASE p = b
      <4>1. b.first \in 0..MaxPC /\ b.last \in 0..MaxPC
        BY <1>1, <2>1, <2>4, <2>6, <3>1
      <4> QED
        BY <1>1, <2>1, <2>2, <2>4, <2>5, <3>1, <4>1 DEF Entry, EntryType
    <3>2. CASE p = m
      BY <1>1, <2>1, <2>2, <2>4, <2>5, <3>2 DEF Entry, EntryType
    <3>3. CASE p = a
      <4>1. a.first \in 0..MaxPC /\ a.last \in 0..MaxPC
        BY <1>1, <2>1, <2>4, <2>6, <3>3
      <4> QED
        BY <1>1, <2>1, <2>2, <2>4, <2>5, <3>3, <4>1 DEF Entry, EntryType
    <3> QED
      BY <2>6, <3>1, <3>2, <3>3
  <2>7. Whole(c)
    BY <2>1 DEF Whole
  <2>8. ASSUME NEW p, p \in {b, m, a}, p.first <= p.last
        PROVE  Whole(p) /\ Directed(p)
    <3>1. Cut(p, t, c)
      BY <2>1, <2>4, <2>8 DEF Cut
    <3>2. Whole(p)
      BY <1>1, <2>1, <2>7, <2>8, <3>1, CutWhole
    <3>3. Span(p) \subseteq Span(t) /\ p.op = t.op
      <4>1. t.first <= p.first /\ p.last <= t.last /\ p.first \in Int /\ p.last \in Int
        BY <2>6, <2>8
      <4> QED
        BY <1>1, <2>4, <2>8, <4>1 DEF Span
    <3> QED
      BY <1>1, <3>2, <3>3 DEF Directed
  <2>9. ASSUME NEW p, p \in {b, m, a}, p.first <= p.last
        PROVE  EntryAnalyzed(p)
    <3>1. CASE p = m
      BY <1>4, <2>1, <2>4, <2>8, <2>9, <3>1 DEF EntryAnalyzed
    <3>2. CASE p = a \/ p = b
      <4>1. ASSUME NEW k \in Insns, k.cond, k.first \in Span(p)
            PROVE  FALSE
        <5>1. /\ t.first <= p.first /\ p.last <= t.last /\ p.first \in Int /\ p.last \in Int
              /\ k.first \in Int /\ p.first <= k.first /\ k.first <= p.last
          BY <2>6, <2>9, <4>1, InsnFacts DEF Span
        <5>2. k.first \in Span(t)
          BY <1>1, <5>1 DEF Span
        <5>3. k = c
          BY <2>1, <4>1, <5>2
        <5> QED
          BY <2>1, <2>4, <3>2, <5>1, <5>3
      <4> QED
        BY <2>4, <2>8, <2>9, <3>2, <4>1 DEF EntryAnalyzed
    <3> QED
      BY <2>9, <3>1, <3>2
  <2>10. ASSUME NEW p, NEW q, p \in {b, m, a}, q \in {b, m, a}, p # q
         PROVE  p.last < q.first \/ q.last < p.first
    BY <1>1, <2>1, <2>4, <2>10
  <2>11. ASSUME NEW x \in Span(t)
         PROVE  \E p \in {b, m, a} : p.first <= p.last /\ x \in Span(p)
    <3>1. x \in Int /\ t.first <= x /\ x <= t.last
      BY <1>1, <2>11 DEF Span
    <3>2. CASE x < c.first
      BY <1>1, <2>1, <2>4, <3>1, <3>2 DEF Span
    <3>3. CASE c.first <= x /\ x <= c.last
      BY <1>1, <2>1, <2>4, <3>1, <3>3 DEF Span
    <3>4. CASE x > c.last
      BY <1>1, <2>1, <2>4, <3>1, <3>4 DEF Span
    <3> QED
      BY <2>1, <3>1, <3>2, <3>3, <3>4
  <2>12. \A p \in StateParts(t) : p \in {b, m, a} /\ p.first <= p.last
    BY <2>3
  <2>13. /\ \A p \in StateParts(t) :
              /\ p \in EntryType /\ p.first <= p.last /\ p.op = t.op
              /\ t.first <= p.first /\ p.last <= t.last /\ EntryAnalyzed(p)
         /\ \A p, q \in StateParts(t) :
              p # q => p.last < q.first \/ q.last < p.first
    BY <2>6, <2>9, <2>10, <2>12
  <2> QED
    BY <2>3, <2>11, <2>13
<1> QED
  BY <1>3, <1>4

\* The analysis, entry by entry
LEMMA AnalysisFacts ==
  ASSUME ObjIInv, SetInsnState
  PROVE  /\ \A e \in entries' : \E t \in entries :
              e \in StateParts(t) /\ Span(e) \subseteq Span(t)
         /\ \A t \in entries : StateParts(t) \subseteq entries'
         /\ \A t \in entries : Analyzable(t)
         /\ calls = <<>> /\ calls' = <<>> /\ analyzed'
<1>1. /\ entries' = UNION {StateParts(t) : t \in entries}
      /\ calls = <<>> /\ calls' = <<>> /\ analyzed'
  BY DEF SetInsnState
<1>2. \A t \in entries : Analyzable(t)
  BY <1>1, EntriesAnalyzable
<1>3. ASSUME NEW t \in entries, NEW e \in StateParts(t)
      PROVE  Span(e) \subseteq Span(t)
  <2>1. t.first <= e.first /\ e.last <= t.last /\ e \in EntryType /\ t \in EntryType
    BY <1>2, <1>3, StatePartsFacts DEF Analyzable
  <2>2. t.first \in Int /\ t.last \in Int /\ e.first \in Int /\ e.last \in Int
    BY <2>1, CodeAssumption DEF EntryType, CodeAssumption
  <2> QED
    BY <2>1, <2>2 DEF Span
<1> QED
  BY <1>1, <1>2, <1>3

LEMMA AnalysisIInv ==
  ASSUME ObjIInv, SetInsnState
  PROVE  IInv'
<1>1. /\ \A e \in entries' : \E t \in entries :
           e \in StateParts(t) /\ Span(e) \subseteq Span(t)
      /\ \A t \in entries : Analyzable(t)
      /\ calls' = <<>> /\ 1..Len(calls') = {} /\ IInv
  BY AnalysisFacts DEF ObjIInv
<1>2. ASSUME NEW e \in entries' PROVE e \in EntryType /\ e.first <= e.last
  BY <1>1, <1>2, StatePartsFacts
<1>3. TypeOK'
  BY <1>1, <1>2 DEF TypeOK
<1>4. ASSUME NEW e \in entries', NEW g \in entries', e # g
      PROVE  ~Overlap(e, g)
  <2>1. PICK t \in entries : e \in StateParts(t) /\ Analyzable(t)
    BY <1>1, <1>4
  <2>2. PICK u \in entries : g \in StateParts(u) /\ Analyzable(u)
    BY <1>1, <1>4
  <2>3. /\ e.first \in Int /\ e.last \in Int /\ g.first \in Int /\ g.last \in Int
        /\ t.first \in Int /\ t.last \in Int /\ u.first \in Int /\ u.last \in Int
    BY <1>2, <1>4, <2>1, <2>2, CodeAssumption DEF Analyzable, EntryType, CodeAssumption
  <2>4. CASE t = u
    <3>1. e.last < g.first \/ g.last < e.first
      BY <1>4, <2>1, <2>2, <2>4, StatePartsFacts
    <3> QED
      BY <2>3, <3>1 DEF Overlap
  <2>5. CASE t # u
    <3>1. ~Overlap(t, u)
      BY <1>1, <2>5 DEF IInv, EntriesDisjoint
    <3>2. /\ t.first <= e.first /\ e.last <= t.last
          /\ u.first <= g.first /\ g.last <= u.last
      BY <2>1, <2>2, StatePartsFacts
    <3> QED
      BY <2>3, <3>1, <3>2 DEF Overlap
  <2> QED
    BY <2>4, <2>5
<1>5. EntriesDisjoint'
  BY <1>2, <1>4 DEF EntriesDisjoint, Overlap
<1>6. ASSUME NEW a \in BranchEnds, NEW e \in entries', a \in Span(e)
      PROVE  a = e.last
  <2>1. PICK t \in entries : /\ e \in StateParts(t) /\ Span(e) \subseteq Span(t)
                             /\ Analyzable(t)
    BY <1>1, <1>6
  <2>2. a = t.last
    BY <1>1, <1>6, <2>1 DEF IInv, BranchesLast
  <2>3. e.last <= t.last /\ e \in EntryType /\ e.first <= a /\ a <= e.last
    BY <1>2, <1>6, <2>1, StatePartsFacts DEF Span
  <2>4. t.last \in Int /\ e.last \in Int
    BY <2>1, <2>3, CodeAssumption DEF Analyzable, EntryType, CodeAssumption
  <2> QED
    BY <2>2, <2>3, <2>4
<1>7. BranchesLast'
  BY <1>1, <1>6 DEF BranchesLast, Span
<1>8. CapturedEntriesKept' /\ CallsApart' /\ NewOutcomesRecorded'
  BY <1>1 DEF CapturedEntriesKept, CallsApart, NewOutcomesRecorded
<1> QED
  BY <1>3, <1>5, <1>7, <1>8 DEF IInv

LEMMA AnalysisEntries ==
  ASSUME ObjIInv, SetInsnState
  PROVE  EntriesAnalyzed'
<1>1. /\ \A e \in entries' : \E t \in entries :
           e \in StateParts(t) /\ Span(e) \subseteq Span(t)
      /\ \A t \in entries : StateParts(t) \subseteq entries' /\ Analyzable(t)
      /\ calls = <<>> /\ calls' = <<>> /\ analyzed'
  BY AnalysisFacts
<1>2. \A e \in entries' : EntryAnalyzed(e)
  BY <1>1, StatePartsFacts
<1>3. ASSUME NEW e \in entries', NEW i \in Insns, i.cond, i.first \in Span(e)
      PROVE  \E g \in entries' : EndOf(i) \in Span(g) /\ g.op = e.op
  <2>1. PICK t \in entries : e \in StateParts(t) /\ i.first \in Span(t)
    BY <1>1, <1>3
  <2>2. \E u \in entries : EndOf(i) \in Span(u) /\ u.op = t.op
    <3>1. CASE analyzed
      BY <1>3, <2>1, <3>1 DEF ObjIInv, EntriesAnalyzed
    <3>2. CASE ~analyzed
      <4>1. SlotsWithin(t)
        BY <2>1, <3>2 DEF ObjIInv, ItemsAsEmitted, AsEmitted
      <4> QED
        BY <1>3, <2>1, <4>1 DEF SlotsWithin
    <3> QED
      BY <3>1, <3>2 DEF ObjIInv
  <2>3. PICK u \in entries : EndOf(i) \in Span(u) /\ u.op = t.op
    BY <2>2
  <2>4. PICK g \in StateParts(u) : EndOf(i) \in Span(g)
    BY <1>1, <2>3, StatePartsFacts
  <2> QED
    BY <1>1, <2>1, <2>3, <2>4, StatePartsFacts
<1> QED
  BY <1>1, <1>2, <1>3 DEF EntriesAnalyzed, Span

----------------------------------------------------------------------------
(* The invariant *)

THEOREM ObjInvariance == ObjSpec => []ObjIInv
<1>1. ObjInit => ObjIInv
  <2> SUFFICES ASSUME ObjInit PROVE ObjIInv
    OBVIOUS
  <2>1. entries = {} /\ calls = <<>> /\ 1..Len(calls) = {} /\ analyzed = FALSE /\ IInv
    BY InitIInv DEF ObjInit, Init
  <2> QED
    BY <2>1 DEF ObjIInv, ItemsAsEmitted, EntriesAnalyzed
<1>2. ObjIInv /\ [ObjNext]_objVars => ObjIInv'
  <2> SUFFICES ASSUME ObjIInv, [ObjNext]_objVars PROVE ObjIInv'
    OBVIOUS
  <2>1. ASSUME NEW first \in 0..MaxPC, NEW op \in Ops, NEW last \in (first - 1)..MaxPC,
               WholeInsns(first, last, op), ProcessTraceEntry(first, last, op),
               ~analyzed, UNCHANGED analyzed
        PROVE  ObjIInv'
    <3>1. IInv'
      BY <2>1, ReadIInv DEF ObjIInv
    <3>2. ItemsAsEmitted'
      BY <2>1, ReadAsEmitted
    <3> QED
      BY <2>1, <3>1, <3>2 DEF ObjIInv, EntriesAnalyzed
  <2>2. CASE AddTrace
    <3>1. AddEntry /\ analyzed' = analyzed /\ IInv /\ analyzed \in BOOLEAN
      BY <2>2 DEF AddTrace, ObjIInv
    <3>2. calls # <<>>
      BY <3>1 DEF AddEntry, DiscardEmpty, InsertEntry, MergeFlags, SplitCall, MergeEntry
    <3>3. ~analyzed
      BY <3>2 DEF ObjIInv, EntriesAnalyzed
    <3>4. IInv' /\ ItemsAsEmitted'
      <4>1. CASE DiscardEmpty
        BY <3>1, <3>3, <4>1, DiscardIInv, DiscardAsEmitted
      <4>2. CASE InsertEntry
        BY <3>1, <3>3, <4>2, InsertIInv, InsertAsEmitted
      <4>3. CASE MergeFlags
        BY <3>1, <3>3, <4>3, MergeFlagsIInv, MergeFlagsAsEmitted
      <4>4. CASE SplitCall
        BY <3>1, <3>3, <4>4, SplitIInv, SplitAsEmitted
      <4>5. CASE MergeEntry
        BY <3>1, <3>3, <4>5, MergeIInv, MergeAsEmitted
      <4> QED
        BY <3>1, <4>1, <4>2, <4>3, <4>4, <4>5 DEF AddEntry
    <3> QED
      BY <3>1, <3>3, <3>4 DEF ObjIInv, EntriesAnalyzed
  <2>3. CASE SetInsnState
    BY <2>3, AnalysisIInv, AnalysisEntries DEF ObjIInv, ItemsAsEmitted, SetInsnState
  <2>4. CASE UNCHANGED objVars
    <3>1. IInv'
      BY <2>4 DEF objVars, ObjIInv, IInv, TypeOK, EntriesDisjoint, CapturedEntriesKept,
                  CallsApart, BranchesLast, NewOutcomesRecorded, NewOutcome,
                  Recorded, Span, Overlap
    <3> QED
      BY <2>4, <3>1 DEF objVars, ObjIInv, ItemsAsEmitted, EntriesAnalyzed, Span
  <2> QED
    BY <2>1, <2>2, <2>3, <2>4 DEF ObjNext, ReadTrace
<1> QED
  BY <1>1, <1>2, PTL DEF ObjSpec

\* No trace, and no analysis, cuts an instruction: Set_Insn_State always comes
\* out on the end of the entry.
THEOREM WholeEntries == ObjSpec => []EntriesWholeInsns
<1>1. ObjIInv => EntriesWholeInsns
  <2> SUFFICES ASSUME ObjIInv, NEW e \in entries PROVE Whole(e)
    BY DEF EntriesWholeInsns, Whole
  <2> QED
    BY DEF ObjIInv, ItemsAsEmitted, EntriesAnalyzed, AsEmitted, EntryAnalyzed
<1> QED
  BY <1>1, ObjInvariance, PTL

----------------------------------------------------------------------------
(* The iteration over the entries of a line *)

Full(t) == t.state \in {"Covered", "BothTaken"}
StatesSet == {"Covered", "BranchTaken", "FallthroughTaken", "BothTaken"}

LEMMA UpdateFacts ==
  ASSUME NEW x \in StatesSet
  PROVE  /\ UpdateLineState("PartiallyCovered", x) = "PartiallyCovered"
         /\ x \in {"Covered", "BothTaken"} =>
              /\ UpdateLineState("NoCode", x) = "Covered"
              /\ UpdateLineState("Covered", x) = "Covered"
         /\ x \notin {"Covered", "BothTaken"} =>
              /\ UpdateLineState("NoCode", x) = "PartiallyCovered"
              /\ UpdateLineState("Covered", x) = "PartiallyCovered"
         /\ UpdateLineState("PartiallyCovered", "NotCovered") = "PartiallyCovered"
         /\ UpdateLineState("Covered", "NotCovered") = "PartiallyCovered"
<1>1. \A y : UpdateLineState("PartiallyCovered", y) = "PartiallyCovered"
  BY Zenon DEF UpdateLineState
<1>2. \A y : UpdateLineState("Covered", y) =
               IF y \in {"Covered", "BothTaken"} THEN "Covered" ELSE "PartiallyCovered"
  BY Zenon DEF UpdateLineState
<1>3. \A y : UpdateLineState("NoCode", y) =
               IF y \in {"Covered", "BothTaken"} THEN "Covered"
               ELSE IF y = "NotCovered" THEN "NotCovered" ELSE "PartiallyCovered"
  BY Zenon DEF UpdateLineState
<1>4. x # "NotCovered"
  BY DEF StatesSet
<1> QED
  BY <1>1, <1>2, <1>3, <1>4

\* The states of the entries that end below n, accumulated
StateBelow(met, n) ==
  LET ended == {t \in met : t.last < n}
  IN  IF ended = {} THEN "NoCode"
      ELSE IF \A t \in ended : Full(t) THEN "Covered"
      ELSE "PartiallyCovered"

ScanStep(met, f, n) ==
  IF n = 0 THEN "NoCode"
  ELSE LET ending == {t \in met : t.last = n - 1}
       IN  IF ending = {} THEN f[n - 1]
           ELSE UpdateLineState(f[n - 1], (CHOOSE t \in ending : TRUE).state)

LEMMA StateBelowStep ==
  ASSUME NEW met,
         \A t \in met : t.last \in 0..MaxPC /\ t.state \in StatesSet,
         \A t, u \in met : t.last = u.last => t = u,
         NEW n \in 0..(MaxPC + 1), NEW f, n > 0 => f[n - 1] = StateBelow(met, n - 1)
  PROVE  StateBelow(met, n) = ScanStep(met, f, n)
<1>0. MaxPC \in Nat /\ n \in Int /\ \A t \in met : t.last \in Int
  BY CodeAssumption DEF CodeAssumption
<1>1. CASE n = 0
  <2>1. {t \in met : t.last < n} = {}
    BY <1>0, <1>1
  <2> QED
    BY <1>1, <2>1 DEF StateBelow, ScanStep
<1>2. CASE n > 0
  <2>1. PICK before, ending, ended :
          /\ before = {t \in met : t.last < n - 1}
          /\ ending = {t \in met : t.last = n - 1}
          /\ ended = {t \in met : t.last < n}
    OBVIOUS
  <2>2. ended = before \cup ending
    BY <1>0, <2>1
  <2>3. n # 0 /\ f[n - 1] = IF before = {} THEN "NoCode"
                            ELSE IF \A t \in before : Full(t) THEN "Covered"
                            ELSE "PartiallyCovered"
    BY <1>0, <1>2, <2>1 DEF StateBelow
  <2>4. StateBelow(met, n) = IF ended = {} THEN "NoCode"
                             ELSE IF \A t \in ended : Full(t) THEN "Covered"
                             ELSE "PartiallyCovered"
    BY <2>1 DEF StateBelow
  <2>5. ScanStep(met, f, n) =
          IF ending = {} THEN f[n - 1]
          ELSE UpdateLineState(f[n - 1], (CHOOSE t \in ending : TRUE).state)
    BY <2>1, <2>3 DEF ScanStep
  <2>6. CASE ending = {}
    <3>1. ended = before
      BY <2>2, <2>6
    <3> QED
      BY <2>3, <2>4, <2>5, <2>6, <3>1
  <2>7. CASE ending # {}
    <3>1. PICK t : t = CHOOSE u \in ending : TRUE
      OBVIOUS
    <3>2. t \in ending /\ t \in met /\ t.state \in StatesSet
      BY <2>1, <2>7, <3>1
    <3>3. ending = {t}
      BY <2>1, <3>2
    <3>4. ScanStep(met, f, n) = UpdateLineState(f[n - 1], t.state)
      BY <2>5, <2>7, <3>1
    <3>5. ended # {} /\ ((\A u \in ended : Full(u)) <=> (\A u \in before : Full(u)) /\ Full(t))
      BY <2>2, <3>3
    <3>6. CASE Full(t)
      <4>1. /\ UpdateLineState("NoCode", t.state) = "Covered"
            /\ UpdateLineState("Covered", t.state) = "Covered"
            /\ UpdateLineState("PartiallyCovered", t.state) = "PartiallyCovered"
        BY <3>2, <3>6, UpdateFacts DEF Full
      <4> QED
        BY <2>3, <2>4, <3>4, <3>5, <3>6, <4>1
    <3>7. CASE ~Full(t)
      <4>1. /\ UpdateLineState("NoCode", t.state) = "PartiallyCovered"
            /\ UpdateLineState("Covered", t.state) = "PartiallyCovered"
            /\ UpdateLineState("PartiallyCovered", t.state) = "PartiallyCovered"
        BY <3>2, <3>7, UpdateFacts DEF Full
      <4> QED
        BY <2>3, <2>4, <3>4, <3>5, <3>7, <4>1
    <3> QED
      BY <3>6, <3>7
  <2> QED
    BY <2>6, <2>7
<1> QED
  BY <1>0, <1>1, <1>2

\* What the iteration computes, whatever the number of entries
LEMMA LineScanFacts ==
  ASSUME NEW met,
         \A t \in met : t.last \in 0..MaxPC /\ t.state \in StatesSet,
         \A t, u \in met : t.last = u.last => t = u
  PROVE  /\ met # {} /\ (\A t \in met : Full(t)) => LineScan(met) = "Covered"
         /\ met # {} /\ ~(\A t \in met : Full(t)) => LineScan(met) = "PartiallyCovered"
<1> DEFINE D == 0..(MaxPC + 1)
           g == [n \in D |-> StateBelow(met, n)]
<1>0. MaxPC \in Nat /\ \A n \in D : n \in Nat /\ (n > 0 => n - 1 \in D)
  BY CodeAssumption DEF CodeAssumption
<1>1. g = [n \in D |-> ScanStep(met, g, n)]
  <2>1. ASSUME NEW n \in D PROVE g[n] = ScanStep(met, g, n)
    <3>1. n > 0 => g[n - 1] = StateBelow(met, n - 1)
      BY <1>0
    <3>2. g[n] = StateBelow(met, n)
      OBVIOUS
    <3> HIDE DEF g
    <3> QED
      BY <3>1, <3>2, StateBelowStep
  <2>2. \A n \in D : StateBelow(met, n) = ScanStep(met, g, n)
    BY <2>1
  <2> QED
    BY <2>2
<1>2. PICK f : f = CHOOSE g2 : g2 = [n \in D |-> ScanStep(met, g2, n)]
  OBVIOUS
<1>3. f = [n \in D |-> ScanStep(met, f, n)]
  <2> HIDE DEF D, g
  <2> QED
    BY <1>1, <1>2
<1>4. LineScan(met) = f[MaxPC + 1]
  BY <1>2 DEF LineScan, ScanStep
<1> HIDE DEF g
<1>5. \A n \in D : f[n] = StateBelow(met, n)
  <2> SUFFICES ASSUME NEW n \in D, f[n] # StateBelow(met, n) PROVE FALSE
    OBVIOUS
  <2>1. PICK T : T = {k \in D : f[k] # StateBelow(met, k)}
    OBVIOUS
  <2>2. T \in SUBSET Nat /\ T # {}
    BY <1>0, <2>1
  <2>3. PICK m \in T : \A k \in T : m <= k
    BY <2>2, Least
  <2>4. m \in D /\ m \in Nat /\ f[m] # StateBelow(met, m)
    BY <1>0, <2>1, <2>3
  <2>5. m > 0 => f[m - 1] = StateBelow(met, m - 1)
    <3> SUFFICES ASSUME m > 0, f[m - 1] # StateBelow(met, m - 1) PROVE FALSE
      OBVIOUS
    <3>1. m - 1 \in D
      BY <1>0, <2>4
    <3>2. m - 1 \in T
      BY <2>1, <3>1
    <3> QED
      BY <2>3, <2>4, <3>2
  <2>6. StateBelow(met, m) = ScanStep(met, f, m)
    BY <2>4, <2>5, StateBelowStep
  <2>7. f[m] = ScanStep(met, f, m)
    <3> HIDE DEF D
    <3> QED
      BY <1>3, <2>4
  <2> QED
    BY <2>4, <2>6, <2>7
<1>6. MaxPC + 1 \in D /\ {t \in met : t.last < MaxPC + 1} = met
  BY <1>0
<1>7. LineScan(met) = IF met = {} THEN "NoCode"
                      ELSE IF \A t \in met : Full(t) THEN "Covered"
                      ELSE "PartiallyCovered"
  BY <1>4, <1>5, <1>6 DEF StateBelow
<1> QED
  BY <1>7

----------------------------------------------------------------------------
(* The state of a line *)

\* The instructions attached to a line, from i to j, and their addresses
LineCode(i, j) == {k \in Insns : k.first \in i.first..j.first}

LEMMA LineInsns ==
  ASSUME NEW i \in Insns, NEW j \in Insns, i.first <= j.first
  PROVE  /\ i \in LineCode(i, j)
         /\ \A k \in LineCode(i, j) : i.first <= k.first /\ k.last <= j.last
         /\ \A a \in i.first..j.last : \E k \in LineCode(i, j) : a \in Span(k)
<1>1. /\ i.first \in Int /\ i.last \in Int /\ i.first <= i.last
      /\ j.first \in Int /\ j.last \in Int /\ j.first <= j.last
      /\ i.first \in 0..MaxPC /\ j.last \in 0..MaxPC /\ MaxPC \in Int
  BY InsnFacts
<1>2. i \in LineCode(i, j)
  BY <1>1 DEF LineCode
<1>3. ASSUME NEW k \in LineCode(i, j) PROVE i.first <= k.first /\ k.last <= j.last
  <2>1. /\ k \in Insns /\ k.first \in Int /\ k.last \in Int /\ k.first <= k.last
        /\ i.first <= k.first /\ k.first <= j.first
    BY <1>1, <1>3, InsnFacts DEF LineCode
  <2>2. CASE k.last < j.first
    BY <1>1, <2>1, <2>2
  <2>3. CASE k.last >= j.first
    <3>1. k = j
      BY <1>1, <2>1, <2>3, SameInsn
    <3> QED
      BY <1>1, <2>1, <3>1
  <2> QED
    BY <1>1, <2>1, <2>2, <2>3
<1>4. ASSUME NEW a \in i.first..j.last
      PROVE  \E k \in LineCode(i, j) : a \in Span(k)
  <2>1. a \in 0..MaxPC /\ a \in Int /\ i.first <= a /\ a <= j.last
    BY <1>1, <1>4
  <2>2. PICK k \in Insns : a \in Span(k)
    BY <2>1, InsnsAssumption DEF InsnsAssumption
  <2>3. /\ k.first \in Int /\ k.last \in Int /\ k.first <= a /\ a <= k.last
    BY <2>1, <2>2, InsnFacts DEF Span
  <2>4. i.first <= k.first
    <3> SUFFICES ASSUME k.first < i.first PROVE FALSE
      BY <1>1, <2>3
    <3>1. i.first <= k.last
      BY <1>1, <2>1, <2>3
    <3>2. k = i
      BY <1>1, <2>3, <3>1, SameInsn
    <3> QED
      BY <1>1, <3>2
  <2>5. k.first <= j.first
    <3> SUFFICES ASSUME j.first < k.first PROVE FALSE
      BY <1>1, <2>3
    <3>1. k.first <= j.last
      BY <1>1, <2>1, <2>3
    <3>2. k = j
      BY <1>1, <2>3, <3>1, SameInsn
    <3> QED
      BY <1>1, <3>2
  <2> QED
    BY <1>1, <2>2, <2>3, <2>4, <2>5 DEF LineCode
<1> QED
  BY <1>2, <1>3, <1>4

\* An entry that has an address of an instruction has all of them
LEMMA EntryHasInsn ==
  ASSUME NEW e \in EntryType, Whole(e), NEW k \in Insns, NEW a \in Int,
         a \in Span(e), a \in Span(k)
  PROVE  Span(k) \subseteq Span(e) /\ k.first \in Span(e)
<1>1. /\ e.first \in Int /\ e.last \in Int /\ k.first \in Int /\ k.last \in Int
      /\ k.first <= k.last
  BY InsnFacts, CodeAssumption DEF EntryType, CodeAssumption
<1>2. e.first <= a /\ a <= e.last /\ k.first <= a /\ a <= k.last
  BY <1>1 DEF Span
<1>3. e.first <= k.first /\ k.last <= e.last
  BY <1>1, <1>2, Boundaries
<1> QED
  BY <1>1, <1>3 DEF Span

\* The entries that the iteration meets are those of the instructions of the line
LEMMA EntriesMet ==
  ASSUME ObjIInv, analyzed, NEW i \in Insns, NEW j \in Insns, i.first <= j.first,
         NEW e \in entries
  PROVE  e \in Conflicts([first |-> i.first, last |-> j.last])
           <=> \E k \in LineCode(i, j) : k.first \in Span(e)
<1>1. PICK x : x = [first |-> i.first, last |-> j.last]
  OBVIOUS
<1>2. x.first = i.first /\ x.last = j.last
  BY <1>1
<1>3. e \in EntryType /\ Whole(e) /\ e.first <= e.last
  BY DEF ObjIInv, IInv, TypeOK, EntriesDisjoint, EntriesAnalyzed, EntryAnalyzed
<1>4. /\ e.first \in Int /\ e.last \in Int /\ i.first \in Int /\ j.last \in Int
      /\ i.first <= j.last
  BY <1>3, InsnFacts, CodeAssumption DEF EntryType, CodeAssumption
<1>5. e \in Conflicts(x) <=> i.first <= e.last /\ j.last >= e.first
  BY <1>2 DEF Conflicts, Overlap
<1>6. ASSUME e \in Conflicts(x)
      PROVE  \E k \in LineCode(i, j) : k.first \in Span(e)
  <2>1. PICK a : a = IF e.first <= i.first THEN i.first ELSE e.first
    OBVIOUS
  <2>2. a \in Int /\ a \in i.first..j.last /\ a \in Span(e)
    BY <1>3, <1>4, <1>5, <1>6, <2>1 DEF Span
  <2>3. PICK k \in LineCode(i, j) : a \in Span(k)
    BY <2>2, LineInsns
  <2>4. k \in Insns
    BY <2>3 DEF LineCode
  <2> QED
    BY <1>3, <2>2, <2>3, <2>4, EntryHasInsn
<1>7. ASSUME NEW k \in LineCode(i, j), k.first \in Span(e)
      PROVE  e \in Conflicts(x)
  <2>1. k \in Insns /\ i.first <= k.first /\ k.last <= j.last
    BY LineInsns DEF LineCode
  <2>2. k.first \in Int /\ k.last \in Int /\ k.first <= k.last
    BY <2>1, InsnFacts
  <2> QED
    BY <1>4, <1>5, <1>7, <2>1, <2>2 DEF Span
<1> QED
  BY <1>1, <1>6, <1>7

\* The range is covered when all the instructions of the line are executed
LEMMA RangeCovered ==
  ASSUME ObjIInv, analyzed, NEW i \in Insns, NEW j \in Insns, i.first <= j.first,
         NEW met, met = Conflicts([first |-> i.first, last |-> j.last])
  PROVE  /\ \A k \in Insns : k.first \in Executed <=> \E e \in entries : k.first \in Span(e)
         /\ met = {} <=> \A k \in LineCode(i, j) : k.first \notin Executed
         /\ PCRangeCovered(met, i.first, j.last)
              <=> \A k \in LineCode(i, j) : k.first \in Executed
<1>1. calls = <<>> /\ 1..Len(calls) = {}
  BY DEF ObjIInv, EntriesAnalyzed
<1>2. ASSUME NEW k \in Insns
      PROVE  k.first \in Executed <=> \E e \in entries : k.first \in Span(e)
  BY <1>1, InsnFacts DEF Executed
<1>3. LineCode(i, j) \subseteq Insns /\ met \subseteq entries
  BY DEF LineCode, Conflicts
<1>4. \A e \in entries : e \in met <=> \E k \in LineCode(i, j) : k.first \in Span(e)
  BY EntriesMet
<1>5. met = {} <=> \A k \in LineCode(i, j) : k.first \notin Executed
  BY <1>2, <1>3, <1>4
<1>6. \A e \in entries : e \in EntryType /\ Whole(e)
  BY DEF ObjIInv, IInv, TypeOK, EntriesAnalyzed, EntryAnalyzed
<1>7. ASSUME PCRangeCovered(met, i.first, j.last), NEW k \in LineCode(i, j)
      PROVE  k.first \in Executed
  <2>1. k \in Insns /\ i.first <= k.first /\ k.last <= j.last
    BY <1>3, LineInsns
  <2>2. k.first \in i.first..j.last
    BY <2>1, InsnFacts
  <2>3. PICK e \in met : k.first \in Span(e)
    BY <1>7, <2>2 DEF PCRangeCovered
  <2> QED
    BY <1>2, <1>3, <2>1, <2>3
<1>8. ASSUME \A k \in LineCode(i, j) : k.first \in Executed,
             NEW a \in i.first..j.last
      PROVE  \E e \in met : a \in Span(e)
  <2>1. PICK k \in LineCode(i, j) : a \in Span(k)
    BY <1>8, LineInsns
  <2>2. PICK e \in entries : k.first \in Span(e)
    BY <1>2, <1>3, <1>8
  <2>3. k \in Insns /\ k.first \in Int /\ k.first \in Span(k)
    BY <1>3, InsnFacts DEF Span
  <2>4. Span(k) \subseteq Span(e)
    BY <1>6, <2>2, <2>3, EntryHasInsn
  <2> QED
    BY <1>4, <2>1, <2>2, <2>4
<1> QED
  BY <1>2, <1>5, <1>7, <1>8 DEF PCRangeCovered

\* An entry is full when its instruction, if conditional, went both ways
LEMMA FullFacts ==
  ASSUME ObjIInv, analyzed, NEW e \in entries
  PROVE  Full(e) <=> \A k \in Insns : k.cond /\ BranchLevel /\ k.first \in Span(e) =>
                       Taken[EndOf(k)] = Directions
<1>1. /\ EntryAnalyzed(e) /\ e \in EntryType /\ calls = <<>> /\ 1..Len(calls) = {}
      /\ e.op \in SUBSET Flags /\ EntriesDisjoint /\ e.first <= e.last
      /\ \A g \in entries : Directed(g) /\ g \in EntryType
  BY DEF ObjIInv, IInv, TypeOK, EntriesDisjoint, EntriesAnalyzed, EntryAnalyzed, EntryType
<1>2. CoverageState("Covered") = "Covered"
  BY DEF CoverageState
<1>3. CASE ~\E k \in Insns : k.cond /\ k.first \in Span(e)
  <2>1. e.state = "Covered"
    <3>1. ASSUME NEW c \in Insns, c.cond, c.first = e.first, c.last = e.last
          PROVE  FALSE
      <4>1. c.first \in Span(e)
        BY <3>1, InsnFacts DEF Span
      <4> QED
        BY <1>3, <3>1, <4>1
    <3> QED
      BY <1>1, <1>2, <3>1 DEF EntryAnalyzed
  <2> QED
    BY <1>3, <2>1 DEF Full
<1>4. ASSUME NEW c \in Insns, c.cond, c.first \in Span(e)
      PROVE  Full(e) <=> \A k \in Insns : k.cond /\ BranchLevel /\ k.first \in Span(e) =>
                           Taken[EndOf(k)] = Directions
  <2>1. /\ \E k \in Insns : k.first = e.first /\ k.last = e.last
        /\ e.state = CoverageState(CondState(e.op))
    BY <1>1, <1>4 DEF EntryAnalyzed
  <2>2. ASSUME NEW k \in Insns, k.first \in Span(e) PROVE k = c
    <3>1. PICK b \in Insns : b.first = e.first /\ b.last = e.last
      BY <2>1
    <3>2. /\ b.first \in Int /\ b.last \in Int /\ b.first <= b.last
          /\ c.first \in Int /\ c.last \in Int /\ c.first <= c.last
          /\ k.first \in Int /\ k.last \in Int /\ k.first <= k.last
      BY InsnFacts
    <3>3. b.first <= c.first /\ c.first <= b.last /\ b.first <= k.first /\ k.first <= b.last
      BY <1>4, <2>2, <3>1, <3>2 DEF Span
    <3>4. b = c /\ b = k
      BY <3>2, <3>3, SameInsn
    <3> QED
      BY <3>4
  <2>3. EndOf(c) \in BranchEnds /\ EndOf(c) \in Int
    BY <1>4, SlotFacts
  <2>4. PICK g \in entries : EndOf(c) \in Span(g) /\ g.op = e.op
    BY <1>4 DEF ObjIInv, EntriesAnalyzed
  <2>5. ASSUME NEW h \in entries, EndOf(c) \in Span(h) PROVE h = g
    <3>1. /\ h.first \in Int /\ h.last \in Int /\ g.first \in Int /\ g.last \in Int
      BY <1>1, CodeAssumption DEF EntryType, CodeAssumption
    <3>2. Overlap(h, g)
      BY <2>3, <2>4, <2>5, <3>1 DEF Overlap, Span
    <3> QED
      BY <1>1, <3>2 DEF EntriesDisjoint
  <2>6. Taken[EndOf(c)] = {d \in Directions : d \in e.op}
    BY <1>1, <2>3, <2>4, <2>5 DEF Taken
  <2>7. e.op \cap Directions # {}
    BY <1>1, <2>3, <2>4 DEF Directed
  <2>8. Taken[EndOf(c)] = Directions <=> e.op \cap Directions = {"Br0", "Br1"}
    BY <2>6 DEF Directions
  <2>9. CASE ~BranchLevel
    <3>1. e.state = "Covered"
      BY <2>1, <2>9 DEF CoverageState
    <3> QED
      BY <2>9, <3>1 DEF Full
  <2>10. CASE BranchLevel
    <3>1. e.state = CondState(e.op)
      BY <2>1, <2>10 DEF CoverageState
    <3>2. Full(e) <=> e.op \cap Directions = {"Br0", "Br1"}
      <4>1. \/ e.op \cap Directions = {"Br0"} /\ e.state = "BranchTaken"
            \/ e.op \cap Directions = {"Br1"} /\ e.state = "FallthroughTaken"
            \/ e.op \cap Directions = {"Br0", "Br1"} /\ e.state = "BothTaken"
        BY <1>1, <2>7, <3>1, CondStates
      <4> QED
        BY <4>1 DEF Full
    <3> QED
      BY <1>4, <2>2, <2>8, <2>10, <3>2
  <2> QED
    BY <2>9, <2>10
<1> QED
  BY <1>3, <1>4

\* Whatever the traces, and the times the analysis ran, the state of a line is the
\* one that the executions and directions of its instructions define.
THEOREM LinesExact == ObjSpec => []LineStateExact
<1>1. ObjIInv => LineStateExact
  <2> SUFFICES ASSUME ObjIInv, analyzed, NEW i \in Insns, NEW j \in Insns,
                      i.first <= j.first
               PROVE  GetLineState(i.first, j.last) = LineState(LineCode(i, j))
    BY DEF LineStateExact, LineCode
  <2> DEFINE R == LineCode(i, j)
  <2>1. PICK met : met = Conflicts([first |-> i.first, last |-> j.last])
    OBVIOUS
  <2>2. GetLineState(i.first, j.last) =
          IF met = {} THEN "NotCovered"
          ELSE IF PCRangeCovered(met, i.first, j.last) THEN LineScan(met)
          ELSE UpdateLineState(LineScan(met), "NotCovered")
    BY <2>1 DEF GetLineState
  <2>3. /\ \A k \in Insns : k.first \in Executed <=> \E e \in entries : k.first \in Span(e)
        /\ met = {} <=> \A k \in R : k.first \notin Executed
        /\ PCRangeCovered(met, i.first, j.last) <=> \A k \in R : k.first \in Executed
    BY <2>1, RangeCovered
  <2>4. /\ met \subseteq entries /\ R \subseteq Insns /\ i \in R
        /\ \A e \in entries : e \in met <=> \E k \in R : k.first \in Span(e)
    BY <2>1, EntriesMet, LineInsns DEF Conflicts, LineCode
  <2>5. \A t \in met : t.last \in 0..MaxPC /\ t.state \in StatesSet
    <3> TAKE t \in met
    <3>1. EntryAnalyzed(t) /\ t \in EntryType /\ t.op \in SUBSET Flags
      BY <2>4 DEF ObjIInv, IInv, TypeOK, EntriesAnalyzed, EntryType
    <3> QED
      BY <3>1, CoverageStates DEF EntryAnalyzed, EntryType, StatesSet
  <2>6. \A t, u \in met : t.last = u.last => t = u
    <3> SUFFICES ASSUME NEW t \in met, NEW u \in met, t.last = u.last, t # u
                 PROVE  FALSE
      OBVIOUS
    <3>1. ~Overlap(t, u) /\ t.first <= t.last /\ u.first <= u.last
      BY <2>4 DEF ObjIInv, IInv, EntriesDisjoint
    <3> QED
      BY <3>1 DEF Overlap
  <2>7. /\ met # {} /\ (\A t \in met : Full(t)) => LineScan(met) = "Covered"
        /\ met # {} /\ ~(\A t \in met : Full(t)) => LineScan(met) = "PartiallyCovered"
    BY <2>5, <2>6, LineScanFacts
  <2>8. /\ UpdateLineState("PartiallyCovered", "NotCovered") = "PartiallyCovered"
        /\ UpdateLineState("Covered", "NotCovered") = "PartiallyCovered"
    BY UpdateFacts DEF StatesSet
  <2>9. ASSUME \A k \in R : k.first \in Executed
        PROVE  (\A t \in met : Full(t)) <=> FullyExecuted(R)
    <3>1. ASSUME \A t \in met : Full(t), NEW k \in R, k.cond, BranchLevel
          PROVE  Taken[EndOf(k)] = Directions
      <4>1. PICK e \in entries : k.first \in Span(e)
        BY <2>3, <2>4, <2>9
      <4>2. Full(e)
        BY <2>4, <3>1, <4>1
      <4> QED
        BY <2>4, <3>1, <4>1, <4>2, FullFacts
    <3>2. ASSUME FullyExecuted(R), NEW t \in met
          PROVE  Full(t)
      <4>1. ASSUME NEW k \in Insns, k.cond, BranchLevel, k.first \in Span(t)
            PROVE  Taken[EndOf(k)] = Directions
        <5>1. /\ EntryAnalyzed(t) /\ t \in EntryType /\ t.first <= t.last
          BY <2>4 DEF ObjIInv, IInv, TypeOK, EntriesDisjoint, EntriesAnalyzed
        <5>2. PICK b \in Insns : b.first = t.first /\ b.last = t.last
          BY <4>1, <5>1 DEF EntryAnalyzed
        <5>3. PICK r \in R : r.first \in Span(t)
          BY <2>4
        <5>4. /\ b.first \in Int /\ b.last \in Int /\ b.first <= b.last
              /\ k.first \in Int /\ k.first <= k.last
              /\ r \in Insns /\ r.first \in Int /\ r.first <= r.last
          BY <2>4, InsnFacts
        <5>5. /\ b.first <= k.first /\ k.first <= b.last
              /\ b.first <= r.first /\ r.first <= b.last
          BY <4>1, <5>2, <5>3, <5>4 DEF Span
        <5>6. k = r
          <6>1. b = k
            BY <5>4, <5>5, SameInsn
          <6>2. b = r
            BY <5>4, <5>5, SameInsn
          <6> QED
            BY <6>1, <6>2
        <5> QED
          BY <3>2, <4>1, <5>6 DEF FullyExecuted
      <4> QED
        BY <2>4, <4>1, FullFacts
    <3> QED
      BY <2>9, <3>1, <3>2 DEF FullyExecuted
  <2>10. LineState(R) = IF \A k \in R : k.first \notin Executed THEN "NotCovered"
                        ELSE IF FullyExecuted(R) THEN "Covered"
                        ELSE "PartiallyCovered"
    BY DEF LineState
  <2>11. GetLineState(i.first, j.last) = LineState(R)
    <3> HIDE DEF R
    <3>1. CASE met = {}
      BY <2>2, <2>3, <2>10, <3>1
    <3>2. CASE met # {} /\ \A k \in R : k.first \in Executed
      <4>1. \E k \in R : k.first \in Executed
        BY <2>4, <3>2
      <4>2. GetLineState(i.first, j.last) = LineScan(met)
        BY <2>2, <2>3, <3>2
      <4>3. LineState(R) = IF FullyExecuted(R) THEN "Covered" ELSE "PartiallyCovered"
        BY <2>10, <4>1
      <4>4. CASE FullyExecuted(R)
        <5>1. \A t \in met : Full(t)
          BY <2>9, <3>2, <4>4
        <5> QED
          BY <2>7, <3>2, <4>2, <4>3, <4>4, <5>1
      <4>5. CASE ~FullyExecuted(R)
        <5>1. ~(\A t \in met : Full(t))
          BY <2>9, <3>2, <4>5
        <5> QED
          BY <2>7, <3>2, <4>2, <4>3, <4>5, <5>1
      <4> QED
        BY <4>4, <4>5
    <3>3. CASE met # {} /\ ~(\A k \in R : k.first \in Executed)
      <4>1. ~FullyExecuted(R)
        BY <3>3 DEF FullyExecuted
      <4>2. LineScan(met) \in {"Covered", "PartiallyCovered"}
        BY <2>7, <3>3
      <4>3. UpdateLineState(LineScan(met), "NotCovered") = "PartiallyCovered"
        BY <2>8, <4>2
      <4>4. GetLineState(i.first, j.last) = "PartiallyCovered"
        BY <2>2, <2>3, <3>3, <4>3
      <4>5. LineState(R) = "PartiallyCovered"
        BY <2>3, <2>10, <3>3, <4>1
      <4> QED
        BY <4>4, <4>5
    <3> QED
      BY <3>1, <3>2, <3>3
  <2> QED
    BY <2>11
<1> QED
  BY <1>1, ObjInvariance, PTL

----------------------------------------------------------------------------
(* The analysis splits entries, and keeps what they record.                *)

LEMMA AnalysisSame ==
  ASSUME ObjIInv, SetInsnState
  PROVE  Executed' = Executed /\ Taken' = Taken
<1>1. /\ \A e \in entries' : \E t \in entries :
           e \in StateParts(t) /\ Span(e) \subseteq Span(t)
      /\ \A t \in entries : StateParts(t) \subseteq entries' /\ Analyzable(t)
      /\ 1..Len(calls) = {} /\ 1..Len(calls') = {}
  BY AnalysisFacts
<1>2. \A a : (\E e \in entries' : a \in Span(e)) <=> (\E t \in entries : a \in Span(t))
  BY <1>1, StatePartsFacts
<1>3. \A a, d : (\E e \in entries' : a \in Span(e) /\ d \in e.op)
                  <=> (\E t \in entries : a \in Span(t) /\ d \in t.op)
  BY <1>1, StatePartsFacts
<1>4. Executed' = Executed
  BY <1>1, <1>2 DEF Executed, Span
<1>5. Taken' = Taken
  BY <1>1, <1>3 DEF Taken, Span
<1> QED
  BY <1>4, <1>5

\* The database still is the record of the executed code when it is analysed.
THEOREM ObjRefinement == ObjSpec => RefinesExecutedCode
<1>1. ObjInit => Code!Init
  <2> SUFFICES ASSUME ObjInit PROVE Code!Init
    OBVIOUS
  <2>1. entries = {} /\ calls = <<>> /\ 1..Len(calls) = {}
    BY DEF ObjInit, Init
  <2>2. Executed = {}
    BY <2>1 DEF Executed
  <2>3. Taken = [a \in BranchEnds |-> {}]
    BY <2>1 DEF Taken
  <2> QED
    BY <2>2, <2>3 DEF Code!Init
<1>2. ObjIInv /\ [ObjNext]_objVars => [Code!Next]_<<Executed, Taken>>
  <2> SUFFICES ASSUME ObjIInv, [ObjNext]_objVars
               PROVE  Code!Next \/ (Executed' = Executed /\ Taken' = Taken)
    OBVIOUS
  <2>1. ASSUME NEW first \in 0..MaxPC, NEW op \in Ops, NEW last \in (first - 1)..MaxPC,
               ProcessTraceEntry(first, last, op)
        PROVE  Code!Next \/ (Executed' = Executed /\ Taken' = Taken)
    <3>1. IInv
      BY DEF ObjIInv
    <3>2. op \cap Directions \in SUBSET Code!Directions
      BY DEF Directions, Code!Directions
    <3> QED
      BY <2>1, <3>1, <3>2, ReadRecords DEF Code!Next
  <2>2. CASE AddTrace
    BY <2>2, DiscardSame, InsertSame, MergeFlagsSame, SplitSame, MergeSame
       DEF AddTrace, AddEntry, ObjIInv
  <2>3. CASE SetInsnState
    BY <2>3, AnalysisSame
  <2>4. CASE UNCHANGED objVars
    BY <2>4 DEF objVars, Executed, Taken, Span
  <2> QED
    BY <2>1, <2>2, <2>3, <2>4 DEF ObjNext, ReadTrace
<1> QED
  BY <1>1, <1>2, ObjInvariance, PTL DEF ObjSpec, RefinesExecutedCode, Code!Spec
=============================================================================
