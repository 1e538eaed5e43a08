---------------------------- MODULE GrammarProofs ----------------------------
(****************************************************************************)
(* The parser reads the language of Grammar, all of it and nothing else,    *)
(* and stops at the first token that cannot be right, for every file.       *)
(*                                                                          *)
(* The readings of a sequence of tokens are computed from its end.  First   *)
(* they are shown to be just what the rules of the grammar give of them, so *)
(* that each rule can be used by itself.  What the parser has open can be   *)
(* completed in certain ways by the tokens that follow:                     *)
(* each step keeps these ways, at the beginning they are the readings of    *)
(* the file, and at the end they are what was read.                         *)
(****************************************************************************)
EXTENDS ConfigProofs, Language

(* -- The readings of the grammar ---------------------------------------------- *)

\* The kinds of what is open: an object, a list, the file.
Kinds == {"object", "list", "file"}

\* The function that Readings defines.
BehindIn(ts, f, n) == IF n > Len(ts) THEN {} ELSE f[n + 1]
IsChart(ts, f) == f = [n \in 1..(Len(ts) + 1) |-> BehindIn(ts, f, n) \cup Beginning(ts, n, BehindIn(ts, f, n))]
Chart(ts) == CHOOSE f : IsChart(ts, f)

\* The readings of Grammar are what that function has at the first place.
LEMMA ReadingsIsChart == \A ts : Readings(ts) = Chart(ts)[1]
BY DEF Readings, Chart, IsChart, BehindIn

\* From a place on, a function is as it should be.
ChartedFrom(ts, f, m) ==
  \A n \in m..(Len(ts) + 1) : f[n] = BehindIn(ts, f, n) \cup Beginning(ts, n, BehindIn(ts, f, n))

\* What holds at the end, and at a place if it holds behind it, holds everywhere.
LEMMA Backwards ==
  ASSUME NEW N \in Nat \ {0}, NEW S, N \in S, \A n \in 1..(N - 1) : n + 1 \in S => n \in S
  PROVE  \A n \in 1..N : n \in S
<1> SUFFICES ASSUME \E n \in 1..N : n \notin S
             PROVE  FALSE
  OBVIOUS
<1> DEFINE T == {n \in 1..N : n \notin S}
<1>1. T \in SUBSET (0..N) /\ T # {}
  OBVIOUS
<1>2. PICK m \in T : \A n \in T : n <= m
  <2> HIDE DEF T
  <2> QED
    BY <1>1, GreatestOne
<1>3. m \in 1..(N - 1) /\ m + 1 \in 1..N
  OBVIOUS
<1>4. m + 1 \notin T
  BY <1>2, <1>3
<1> QED
  BY <1>3, <1>4

\* The same from the first place on.
LEMMA Forwards ==
  ASSUME NEW N \in Nat \ {0}, NEW S, 1 \in S, \A n \in 1..(N - 1) : n \in S => n + 1 \in S
  PROVE  \A n \in 1..N : n \in S
<1> SUFFICES ASSUME \E n \in 1..N : n \notin S
             PROVE  FALSE
  OBVIOUS
<1> DEFINE T == {n \in 1..N : n \notin S}
<1>1. T \in SUBSET Nat /\ T # {}
  OBVIOUS
<1>2. PICK m \in T : \A n \in T : m <= n
  <2> HIDE DEF T
  <2> QED
    BY <1>1, LeastOne
<1>3. m - 1 \in 1..(N - 1) /\ m - 1 \in 1..N /\ (m - 1) + 1 = m
  OBVIOUS
<1>4. m - 1 \notin T
  BY <1>2, <1>3
<1> QED
  BY <1>3, <1>4

\* There is such a function: it is pieced together from the end on.
LEMMA SomeChart ==
  ASSUME NEW ts, Len(ts) \in Nat
  PROVE  \E f : IsChart(ts, f)
<1>1. PICK N \in Nat \ {0} : N = Len(ts) + 1 /\ Len(ts) = N - 1
  OBVIOUS
<1> DEFINE S == {n \in 1..N : \E f : ChartedFrom(ts, f, n)}
<1>2. N \in S
  <2> DEFINE f == [n \in {N} |-> Beginning(ts, N, {})]
  <2>1. \A g : BehindIn(ts, g, N) = {}
    BY <1>1 DEF BehindIn
  <2>2. \A n \in N..N : n = N
    OBVIOUS
  <2>3. f[N] = {} \cup Beginning(ts, N, {})
    OBVIOUS
  <2> HIDE DEF f
  <2>4. ChartedFrom(ts, f, N)
    BY <1>1, <2>1, <2>2, <2>3, Zenon DEF ChartedFrom
  <2> QED
    BY <2>4
<1>3. ASSUME NEW m \in 1..(N - 1), m + 1 \in S
      PROVE  m \in S
  <2>1. PICK f : ChartedFrom(ts, f, m + 1)
    BY <1>3
  <2>2. PICK b : b = f[m + 1] \cup Beginning(ts, m, f[m + 1])
    OBVIOUS
  <2> DEFINE g == [n \in m..N |-> IF n = m THEN b ELSE f[n]]
  <2>3. g[m] = b /\ \A n \in (m + 1)..N : g[n] = f[n]
    OBVIOUS
  <2> HIDE DEF g
  <2>4. BehindIn(ts, g, m) = f[m + 1]
    BY <1>1, <2>3 DEF BehindIn
  <2>5. \A n \in (m + 1)..N : BehindIn(ts, g, n) = BehindIn(ts, f, n)
    <3>1. ASSUME NEW n \in (m + 1)..N
          PROVE  n > Len(ts) \/ n + 1 \in (m + 1)..N
      BY <1>1
    <3> QED
      BY <2>3, <3>1, Zenon DEF BehindIn
  <2>6. \A n \in m..N : n = m \/ n \in (m + 1)..N
    OBVIOUS
  <2>7. ChartedFrom(ts, g, m)
    BY <1>1, <2>1, <2>2, <2>3, <2>4, <2>5, <2>6, Zenon DEF ChartedFrom
  <2>8. m \in 1..N
    OBVIOUS
  <2> QED
    BY <2>7, <2>8
<1>4. 1 \in S
  <2> HIDE DEF S
  <2> QED
    BY <1>2, <1>3, Backwards
<1>5. PICK f : ChartedFrom(ts, f, 1)
  BY <1>4
<1> DEFINE g == [n \in 1..N |-> f[n]]
<1>6. \A n \in 1..N : g[n] = f[n]
  OBVIOUS
<1>7. \A n \in 1..N : BehindIn(ts, g, n) = BehindIn(ts, f, n)
  <2>1. ASSUME NEW n \in 1..N
        PROVE  n > Len(ts) \/ n + 1 \in 1..N
    BY <1>1
  <2> HIDE DEF g
  <2> QED
    BY <1>6, <2>1, Zenon DEF BehindIn
<1>8. \A n \in 1..N : f[n] = BehindIn(ts, g, n) \cup Beginning(ts, n, BehindIn(ts, g, n))
  BY <1>1, <1>5, <1>7, Zenon DEF ChartedFrom
<1>9. g = [n \in 1..N |-> BehindIn(ts, g, n) \cup Beginning(ts, n, BehindIn(ts, g, n))]
  <2>1. PICK h : h = g
    OBVIOUS
  <2>2. h = [n \in 1..N |-> f[n]]
    BY <2>1
  <2>3. h = [n \in 1..N |-> BehindIn(ts, h, n) \cup Beginning(ts, n, BehindIn(ts, h, n))]
    BY <1>8, <2>1, <2>2
  <2> QED
    BY <2>1, <2>3, Zenon
<1>10. IsChart(ts, g)
  BY <1>1, <1>9, Zenon DEF IsChart
<1> QED
  BY <1>10

\* It is computed backwards, each place from the one behind it.
LEMMA ChartIs ==
  ASSUME NEW ts, Len(ts) \in Nat
  PROVE  \A n \in 1..(Len(ts) + 1) :
           Chart(ts)[n] = BehindIn(ts, Chart(ts), n) \cup Beginning(ts, n, BehindIn(ts, Chart(ts), n))
<1>1. IsChart(ts, Chart(ts))
  BY SomeChart, Zenon DEF Chart
<1>2. PICK f : f = Chart(ts)
  OBVIOUS
<1>3. f = [n \in 1..(Len(ts) + 1) |-> BehindIn(ts, f, n) \cup Beginning(ts, n, BehindIn(ts, f, n))]
  BY <1>1, <1>2, Zenon DEF IsChart
<1>4. \A n \in 1..(Len(ts) + 1) : f[n] = BehindIn(ts, f, n) \cup Beginning(ts, n, BehindIn(ts, f, n))
  BY <1>3
<1> QED
  BY <1>2, <1>4, Zenon

\* What every reading is like.
WellPart(ts, p, n) == /\ p = Part(p.to, p.is)
                      /\ p.to \in n..(Len(ts) + 1) /\ IsSeq(p.is)
WellRead(ts, x) == /\ x.from \in 1..(Len(ts) + 1)
                   /\ x.to \in x.from..(Len(ts) + 1)
                   /\ x.what = "value" => x.to > x.from
                   /\ IsSeq(x.is)
                   /\ x = Reading(x.what, x.from, Part(x.to, x.is))

\* One item and those behind it, as a formula.
AreItems(ts, kind, n, r, p) ==
  /\ IsItem(ts, kind, n)
  /\ \E y \in ReadAt(r, "value", ItsValue(kind, n)) :
       \E z \in ReadAt(r, kind, y.to) :
         p = Part(z.to, <<Item(ts, kind, n, y.is[1])>> \o z.is)

\* What is in the sets of the grammar, as formulas: some items,
LEMMA ItemsMember ==
  ASSUME NEW ts, NEW kind, NEW n, NEW r, NEW p
  PROVE  p \in Items(ts, kind, n, r) <=> AreItems(ts, kind, n, r, p)
<1> DEFINE Of(y) == {Part(z.to, <<Item(ts, kind, n, y.is[1])>> \o z.is) : z \in ReadAt(r, kind, y.to)}
           Y == IF IsItem(ts, kind, n) THEN ReadAt(r, "value", ItsValue(kind, n)) ELSE {}
<1>1. Items(ts, kind, n, r) = UNION {Of(y) : y \in Y}
  BY DEF Items
<1>2. \A y : p \in Of(y) <=> \E z \in ReadAt(r, kind, y.to) : p = Part(z.to, <<Item(ts, kind, n, y.is[1])>> \o z.is)
  OBVIOUS
<1>3. \A y : y \in Y <=> IsItem(ts, kind, n) /\ y \in ReadAt(r, "value", ItsValue(kind, n))
  OBVIOUS
<1> HIDE DEF Of, Y
<1>4. p \in Items(ts, kind, n, r) <=> \E y \in Y : p \in Of(y)
  BY <1>1
<1> QED
  BY <1>2, <1>3, <1>4, Zenon DEF AreItems

\* Sequences of items are sequences, whatever the items are.
LEMMA JoinedIsSeq ==
  ASSUME NEW e, NEW s, IsSeq(s)
  PROVE  IsSeq(<<e>> \o s)
<1>1. PICK S : s \in Seq(S)
  BY DEF IsSeq
<1>2. PICK T : T = S \cup {e}
  OBVIOUS
<1>3. s \in Seq(T) /\ <<e>> \in Seq(T)
  BY <1>1, <1>2, SeqMonotonic
<1>4. <<e>> \o s \in Seq(T)
  BY <1>3, ConcatProperties
<1> QED
  BY <1>4 DEF IsSeq

\* Parts and readings have the fields they were made of.
LEMMA PartIs == \A to, is : Part(to, is).to = to /\ Part(to, is).is = is
BY DEF Part

LEMMA ReadingIs ==
  \A what, from, part :
    /\ Reading(what, from, part).what = what /\ Reading(what, from, part).from = from
    /\ Reading(what, from, part).to = part.to /\ Reading(what, from, part).is = part.is
BY DEF Reading

\* Items end behind their place,
LEMMA ItemsWell ==
  ASSUME NEW ts, Len(ts) \in Nat, NEW kind, NEW n \in Nat, NEW r, \A x \in r : WellRead(ts, x),
         NEW p \in Items(ts, kind, n, r)
  PROVE  WellPart(ts, p, n + 1)
<1>1. PICK y \in ReadAt(r, "value", ItsValue(kind, n)) :
             \E z \in ReadAt(r, kind, y.to) : p = Part(z.to, <<Item(ts, kind, n, y.is[1])>> \o z.is)
  BY ItemsMember DEF AreItems
<1>2. PICK z \in ReadAt(r, kind, y.to) : p = Part(z.to, <<Item(ts, kind, n, y.is[1])>> \o z.is)
  BY <1>1
<1>3. y \in r /\ y.what = "value" /\ y.from = ItsValue(kind, n) /\ z \in r /\ z.from = y.to
  BY DEF ReadAt
<1>4. IsSeq(p.is) /\ p.to = z.to /\ p = Part(p.to, p.is)
  <2>1. p.is = <<Item(ts, kind, n, y.is[1])>> \o z.is /\ p.to = z.to
    BY <1>2, PartIs, Zenon
  <2>2. IsSeq(z.is)
    BY <1>3, Zenon DEF WellRead
  <2> QED
    BY <1>2, <2>1, <2>2, JoinedIsSeq, Zenon
<1>5. ItsValue(kind, n) \in {n, n + 2}
  BY DEF ItsValue
<1>6. /\ y.from \in 1..(Len(ts) + 1) /\ y.to \in y.from..(Len(ts) + 1) /\ y.to > y.from
      /\ z.to \in z.from..(Len(ts) + 1)
  BY <1>3, Zenon DEF WellRead
<1>7. z.to \in (n + 1)..(Len(ts) + 1)
  <2> HIDE DEF WellRead
  <2> QED
    BY <1>3, <1>5, <1>6
<1> QED
  BY <1>4, <1>7 DEF WellPart

\* One item is a sequence.
LEMMA OneIsSeq == \A e : IsSeq(<<e>>)
<1> SUFFICES ASSUME NEW e
             PROVE  IsSeq(<<e>>)
  OBVIOUS
<1>1. <<e>> \in Seq({e})
  OBVIOUS
<1> QED
  BY <1>1 DEF IsSeq

\* A value is a word or what is between brackets.
IsWord(ts, n, p) == IsText(ts[n]) /\ p = Part(n + 1, <<ScalarOf(ts[n])>>)
IsCompound(ts, n, r, p) == \E kind \in Bracketed : \E q \in Enclosed(ts, kind, n, r) :
                             p = Part(q.to + 1, <<Compound(kind, q.is)>>)

\* The values at a place, and all that begins there.
LEMMA ValuesMember ==
  ASSUME NEW ts, NEW n, NEW r, NEW p
  PROVE  p \in Values(ts, n, r) <=> IsWord(ts, n, p) \/ IsCompound(ts, n, r, p)
<1> DEFINE Of(kind) == {Part(q.to + 1, <<Compound(kind, q.is)>>) : q \in Enclosed(ts, kind, n, r)}
           Words1 == IF IsText(ts[n]) THEN {Part(n + 1, <<ScalarOf(ts[n])>>)} ELSE {}
<1>1. Values(ts, n, r) = Words1 \cup UNION {Of(kind) : kind \in Bracketed}
  BY DEF Values, Bracketed
<1>2. \A kind : p \in Of(kind) <=> \E q \in Enclosed(ts, kind, n, r) : p = Part(q.to + 1, <<Compound(kind, q.is)>>)
  OBVIOUS
<1>3. p \in Words1 <=> IsText(ts[n]) /\ p = Part(n + 1, <<ScalarOf(ts[n])>>)
  OBVIOUS
<1> HIDE DEF Of, Words1
<1>4. p \in Values(ts, n, r) <=> p \in Words1 \/ \E kind \in Bracketed : p \in Of(kind)
  BY <1>1
<1> QED
  BY <1>2, <1>3, <1>4, Zenon DEF IsWord, IsCompound

LEMMA BeginningMember ==
  ASSUME NEW ts, NEW n, NEW r, NEW x
  PROVE  x \in Beginning(ts, n, r) <=>
           \/ n <= Len(ts) /\ \E p \in Values(ts, n, r) : x = Reading("value", n, p)
           \/ \E kind \in Kinds : \E p \in Following(ts, kind, n, r) : x = Reading(kind, n, p)
<1> DEFINE Of(kind) == {Reading(kind, n, p) : p \in Following(ts, kind, n, r)}
           V == IF n <= Len(ts) THEN Values(ts, n, r) ELSE {}
           These == {Reading("value", n, p) : p \in V}
<1>1. Beginning(ts, n, r) = These \cup UNION {Of(kind) : kind \in Kinds}
  BY DEF Beginning, Kinds
<1>2. \A kind : x \in Of(kind) <=> \E p \in Following(ts, kind, n, r) : x = Reading(kind, n, p)
  OBVIOUS
<1>3. x \in These <=> n <= Len(ts) /\ \E p \in Values(ts, n, r) : x = Reading("value", n, p)
  OBVIOUS
<1> HIDE DEF Of, These
<1>4. x \in Beginning(ts, n, r) <=> x \in These \/ \E kind \in Kinds : x \in Of(kind)
  BY <1>1
<1> QED
  BY <1>2, <1>3, <1>4, Zenon

\* Nothing ends where it begins,
LEMMA NothingWell ==
  ASSUME NEW ts, NEW n, n \in 1..(Len(ts) + 1), Len(ts) \in Nat
  PROVE  WellPart(ts, Nothing(n), n)
<1>1. Nothing(n).to = n /\ Nothing(n).is = <<>> /\ Nothing(n) = Part(n, <<>>)
  BY PartIs, Zenon DEF Nothing
<1>2. n \in n..(Len(ts) + 1)
  OBVIOUS
<1> QED
  BY <1>1, <1>2, EmptyIsSeq, Zenon DEF WellPart

\* what follows, behind it or there,
LEMMA FollowingWell ==
  ASSUME NEW ts, Len(ts) \in Nat, NEW kind, NEW n \in 1..(Len(ts) + 1), NEW r, \A x \in r : WellRead(ts, x),
         NEW p \in Following(ts, kind, n, r)
  PROVE  WellPart(ts, p, n)
<1>1. p = Nothing(n) \/ p \in Items(ts, kind, n, r) \/ p \in Items(ts, kind, n + 1, r)
  BY DEF Following
<1>2. n \in Nat /\ n + 1 \in Nat
  OBVIOUS
<1>3. WellPart(ts, p, n) \/ WellPart(ts, p, n + 1) \/ WellPart(ts, p, n + 1 + 1)
  BY <1>1, <1>2, NothingWell, ItemsWell, Zenon
<1>4. \A m \in n..(n + 2) : p.to \in m..(Len(ts) + 1) => p.to \in n..(Len(ts) + 1)
  OBVIOUS
<1>5. n \in n..(n + 2) /\ n + 1 \in n..(n + 2) /\ n + 1 + 1 \in n..(n + 2)
  OBVIOUS
<1> QED
  BY <1>3, <1>4, <1>5, Zenon DEF WellPart

\* what is between brackets, at the bracket that closes it,
LEMMA EnclosedWell ==
  ASSUME NEW ts, Len(ts) \in Nat, NEW kind, NEW n \in 1..Len(ts), NEW r, \A x \in r : WellRead(ts, x),
         NEW p \in Enclosed(ts, kind, n, r)
  PROVE  /\ p.to \in (n + 1)..Len(ts) /\ IsSeq(p.is) /\ p = Part(p.to, p.is)
<1>1. (p = Nothing(n + 1) \/ p \in Items(ts, kind, n + 1, r)) /\ p.to <= Len(ts)
  BY DEF Enclosed
<1>2. n + 1 \in 1..(Len(ts) + 1) /\ n + 1 \in Nat
  OBVIOUS
<1>3. WellPart(ts, p, n + 1) \/ WellPart(ts, p, n + 1 + 1)
  BY <1>1, <1>2, NothingWell, ItemsWell, Zenon
<1>4. \A m : m = n + 1 \/ m = n + 1 + 1 =>
        (p.to \in m..(Len(ts) + 1) => p.to \in (n + 1)..Len(ts))
  BY <1>1
<1> QED
  BY <1>3, <1>4, Zenon DEF WellPart

\* and so is every reading that begins at a place, if those behind it are.
LEMMA BeginningWell ==
  ASSUME NEW ts, Len(ts) \in Nat, NEW n \in 1..(Len(ts) + 1), NEW r, \A x \in r : WellRead(ts, x),
         NEW x \in Beginning(ts, n, r)
  PROVE  WellRead(ts, x) /\ x.from = n
<1>1. ASSUME NEW what, NEW p, x = Reading(what, n, p), WellPart(ts, p, n),
             what = "value" => p.to > n
      PROVE  WellRead(ts, x) /\ x.from = n
  <2>1. x.what = what /\ x.from = n /\ x.to = p.to /\ x.is = p.is
    <3>1. x = Reading(what, n, p)
      BY <1>1
    <3> QED
      BY <3>1 DEF Reading
  <2>2. p = Part(p.to, p.is) /\ p.to \in n..(Len(ts) + 1) /\ IsSeq(p.is)
    BY <1>1, Zenon DEF WellPart
  <2> QED
    BY <1>1, <2>1, <2>2, Zenon DEF WellRead
<1>2. CASE n <= Len(ts) /\ \E p \in Values(ts, n, r) : x = Reading("value", n, p)
  <2>1. PICK p \in Values(ts, n, r) : x = Reading("value", n, p)
    BY <1>2
  <2>2. n \in 1..Len(ts)
    BY <1>2
  <2>3. ASSUME NEW to \in (n + 1)..(Len(ts) + 1), NEW is, IsSeq(is), p = Part(to, is)
        PROVE  WellPart(ts, p, n) /\ p.to > n
    <3>1. to \in n..(Len(ts) + 1) /\ to > n
      OBVIOUS
    <3> QED
      BY <2>3, <3>1, PartIs, Zenon DEF WellPart
  <2>4. CASE IsWord(ts, n, p)
    <3>1. n + 1 \in (n + 1)..(Len(ts) + 1)
      BY <2>2
    <3>2. IsSeq(<<ScalarOf(ts[n])>>)
      BY OneIsSeq
    <3> QED
      BY <1>1, <2>1, <2>3, <2>4, <3>1, <3>2 DEF IsWord
  <2>5. CASE IsCompound(ts, n, r, p)
    <3>1. PICK kind \in Bracketed : \E q \in Enclosed(ts, kind, n, r) :
                p = Part(q.to + 1, <<Compound(kind, q.is)>>)
      BY <2>5 DEF IsCompound
    <3>2. PICK q \in Enclosed(ts, kind, n, r) : p = Part(q.to + 1, <<Compound(kind, q.is)>>)
      BY <3>1
    <3>3. q.to \in (n + 1)..Len(ts)
      BY <2>2, EnclosedWell
    <3>4. q.to + 1 \in (n + 1)..(Len(ts) + 1)
      BY <3>3
    <3>5. IsSeq(<<Compound(kind, q.is)>>)
      BY OneIsSeq
    <3> QED
      BY <1>1, <2>1, <2>3, <3>2, <3>4, <3>5
  <2> QED
    <3>1. p \in Values(ts, n, r)
      BY <2>1
    <3>2. IsWord(ts, n, p) \/ IsCompound(ts, n, r, p)
      BY <3>1, ValuesMember
    <3> QED
      BY <2>4, <2>5, <3>2
<1>3. CASE \E kind \in Kinds : \E p \in Following(ts, kind, n, r) : x = Reading(kind, n, p)
  <2>1. PICK kind \in Kinds : \E p \in Following(ts, kind, n, r) : x = Reading(kind, n, p)
    BY <1>3
  <2>2. PICK p \in Following(ts, kind, n, r) : x = Reading(kind, n, p)
    BY <2>1
  <2>3. kind # "value"
    BY <2>1 DEF Kinds
  <2> QED
    BY <1>1, <2>2, <2>3, FollowingWell
<1> QED
  BY <1>2, <1>3, BeginningMember

\* The chart has at a place only what begins there or behind it.
ChartWellAt(ts, n) == \A x \in Chart(ts)[n] : WellRead(ts, x) /\ x.from >= n

\* It is so at every place.
LEMMA ChartWell ==
  ASSUME NEW ts, Len(ts) \in Nat
  PROVE  \A n \in 1..(Len(ts) + 1) : ChartWellAt(ts, n)
<1>1. PICK N \in Nat \ {0} : N = Len(ts) + 1 /\ Len(ts) = N - 1
  OBVIOUS
<1>2. PICK f : f = Chart(ts)
  OBVIOUS
<1>3. \A n \in 1..N : f[n] = BehindIn(ts, f, n) \cup Beginning(ts, n, BehindIn(ts, f, n))
  BY <1>1, <1>2, ChartIs, Zenon
<1> DEFINE S == {n \in 1..N : ChartWellAt(ts, n)}
<1>4. ASSUME NEW n \in 1..N, NEW r, r = BehindIn(ts, f, n), \A x \in r : WellRead(ts, x) /\ x.from >= n
      PROVE  n \in S
  <2>1. \A x \in r : WellRead(ts, x)
    BY <1>4
  <2>2. \A x \in Beginning(ts, n, r) : WellRead(ts, x) /\ x.from = n
    BY <1>1, <2>1, BeginningWell
  <2>3. n >= n
    OBVIOUS
  <2>4. \A x \in f[n] : WellRead(ts, x) /\ x.from >= n
    BY <1>3, <1>4, <2>2, <2>3
  <2> QED
    BY <1>2, <2>4, Zenon DEF ChartWellAt
<1>5. N \in S
  <2>1. BehindIn(ts, f, N) = {} /\ N \in 1..N
    BY <1>1 DEF BehindIn
  <2> QED
    BY <1>4, <2>1
<1>6. ASSUME NEW n \in 1..(N - 1), n + 1 \in S
      PROVE  n \in S
  <2>1. BehindIn(ts, f, n) = f[n + 1] /\ n \in 1..N
    BY <1>1 DEF BehindIn
  <2>2. \A x \in f[n + 1] : WellRead(ts, x) /\ x.from >= n + 1
    BY <1>2, <1>6, Zenon DEF ChartWellAt
  <2>3. \A x \in f[n + 1] : WellRead(ts, x) /\ x.from >= n
    <3> SUFFICES ASSUME NEW x \in f[n + 1]
                 PROVE  x.from >= n
      BY <2>2
    <3>1. x.from \in Nat /\ x.from >= n + 1
      BY <2>2 DEF WellRead
    <3> QED
      BY <3>1
  <2> HIDE DEF S
  <2> QED
    BY <1>4, <2>1, <2>3
<1>7. \A n \in 1..N : n \in S
  <2> HIDE DEF S
  <2> QED
    BY <1>5, <1>6, Backwards
<1> QED
  BY <1>1, <1>7

\* Two sets of readings that have the same behind a place.
SameFrom(r, s, m) == \A what : \A n \in Nat : n >= m => ReadAt(r, what, n) = ReadAt(s, what, n)

\* What begins at a place depends only on what begins behind it: its items,
LEMMA SameItems ==
  ASSUME NEW ts, Len(ts) \in Nat, NEW kind, NEW n \in Nat, NEW m \in Nat, NEW r, NEW s,
         \A x \in s : WellRead(ts, x), SameFrom(r, s, m), ItsValue(kind, n) \in Nat, ItsValue(kind, n) >= m
  PROVE  Items(ts, kind, n, r) = Items(ts, kind, n, s)
<1>1. ReadAt(r, "value", ItsValue(kind, n)) = ReadAt(s, "value", ItsValue(kind, n))
  BY Zenon DEF SameFrom
<1>2. ASSUME NEW y \in ReadAt(s, "value", ItsValue(kind, n))
      PROVE  ReadAt(r, kind, y.to) = ReadAt(s, kind, y.to)
  <2>1. y \in s /\ y.from = ItsValue(kind, n)
    BY DEF ReadAt
  <2>2. y.from \in 1..(Len(ts) + 1) /\ y.to \in y.from..(Len(ts) + 1)
    BY <2>1, Zenon DEF WellRead
  <2>3. y.to \in Nat /\ y.to >= m
    BY <2>1, <2>2
  <2> QED
    BY <2>3, Zenon DEF SameFrom
<1>3. ASSUME NEW p
      PROVE  p \in Items(ts, kind, n, r) <=> p \in Items(ts, kind, n, s)
  <2>1. AreItems(ts, kind, n, r, p) <=> AreItems(ts, kind, n, s, p)
    BY <1>1, <1>2, Zenon DEF AreItems
  <2> QED
    BY <2>1, ItemsMember
<1> QED
  BY <1>3

\* and the whole of it.
LEMMA SameBeginning ==
  ASSUME NEW ts, Len(ts) \in Nat, NEW n \in 1..(Len(ts) + 1), NEW r, NEW s,
         \A x \in s : WellRead(ts, x), SameFrom(r, s, n + 1)
  PROVE  Beginning(ts, n, r) = Beginning(ts, n, s)
<1>1. \A kind : Items(ts, kind, n + 1, r) = Items(ts, kind, n + 1, s)
  <2> SUFFICES ASSUME NEW kind
               PROVE  Items(ts, kind, n + 1, r) = Items(ts, kind, n + 1, s)
    OBVIOUS
  <2>1. n + 1 \in Nat /\ ItsValue(kind, n + 1) \in Nat /\ ItsValue(kind, n + 1) >= n + 1
    BY DEF ItsValue
  <2> QED
    BY <2>1, SameItems
<1>2. Items(ts, "file", n, r) = Items(ts, "file", n, s)
  <2>1. n \in Nat /\ n + 1 \in Nat /\ ItsValue("file", n) \in Nat /\ ItsValue("file", n) >= n + 1
    BY DEF ItsValue
  <2> QED
    BY <2>1, SameItems
<1>3. \A kind : Following(ts, kind, n, r) = Following(ts, kind, n, s)
  BY <1>1, <1>2 DEF Following
<1>4. \A kind : Enclosed(ts, kind, n, r) = Enclosed(ts, kind, n, s)
  <2> SUFFICES ASSUME NEW kind
               PROVE  Enclosed(ts, kind, n, r) = Enclosed(ts, kind, n, s)
    OBVIOUS
  <2>1. PICK all : all = {Nothing(n + 1)} \cup Items(ts, kind, n + 1, s)
    OBVIOUS
  <2>2. {Nothing(n + 1)} \cup Items(ts, kind, n + 1, r) = all
    BY <1>1, <2>1, Zenon
  <2> QED
    BY <2>1, <2>2, Zenon DEF Enclosed
<1>5. Values(ts, n, r) = Values(ts, n, s)
  <2>1. ASSUME NEW p
        PROVE  p \in Values(ts, n, r) <=> p \in Values(ts, n, s)
    <3>1. IsCompound(ts, n, r, p) <=> IsCompound(ts, n, s, p)
      BY <1>4, Zenon DEF IsCompound
    <3> QED
      BY <3>1, ValuesMember
  <2> QED
    BY <2>1
<1> QED
  BY <1>3, <1>5 DEF Beginning

\* Every reading is within the tokens.
LEMMA ReadingsWell ==
  ASSUME NEW ts, Len(ts) \in Nat
  PROVE  \A x \in Readings(ts) : WellRead(ts, x)
<1>1. 1 \in 1..(Len(ts) + 1)
  OBVIOUS
<1> QED
  BY <1>1, ReadingsIsChart, ChartWell, Zenon DEF ChartWellAt

\* What the chart has from a place on are the readings from there on.
ChartExactAt(ts, n) == \A x : x \in Chart(ts)[n] <=> x \in Readings(ts) /\ x.from >= n

\* It is so at every place.
LEMMA ChartExact ==
  ASSUME NEW ts, Len(ts) \in Nat
  PROVE  \A n \in 1..(Len(ts) + 1) : ChartExactAt(ts, n)
<1>1. PICK N \in Nat \ {0} : N = Len(ts) + 1 /\ Len(ts) = N - 1
  OBVIOUS
<1>2. PICK f : f = Chart(ts)
  OBVIOUS
<1>3. \A n \in 1..N : f[n] = BehindIn(ts, f, n) \cup Beginning(ts, n, BehindIn(ts, f, n))
  BY <1>1, <1>2, ChartIs, Zenon
<1>4. \A n \in 1..N : \A x \in f[n] : WellRead(ts, x) /\ x.from >= n
  BY <1>1, <1>2, ChartWell, Zenon DEF ChartWellAt
<1>5. Readings(ts) = f[1]
  BY <1>2, ReadingsIsChart, Zenon
<1> DEFINE S == {n \in 1..N : ChartExactAt(ts, n)}
<1>6. 1 \in S
  <2>1. 1 \in 1..N
    OBVIOUS
  <2>2. \A x : x \in f[1] <=> x \in Readings(ts) /\ x.from >= 1
    BY <1>4, <1>5, <2>1, Zenon
  <2> QED
    BY <1>2, <2>1, <2>2, Zenon DEF ChartExactAt
<1>7. ASSUME NEW n \in 1..(N - 1), n \in S
      PROVE  n + 1 \in S
  <2>1. BehindIn(ts, f, n) = f[n + 1] /\ n \in 1..N /\ n + 1 \in 1..N
    BY <1>1 DEF BehindIn
  <2>2. f[n] = f[n + 1] \cup Beginning(ts, n, f[n + 1])
    BY <1>3, <2>1, Zenon
  <2>3. \A x \in Beginning(ts, n, f[n + 1]) : x.from = n
    BY <1>1, <1>4, <2>1, BeginningWell
  <2>4. \A x : x \in f[n] <=> x \in Readings(ts) /\ x.from >= n
    BY <1>2, <1>7, Zenon DEF ChartExactAt
  <2>5. ASSUME NEW x \in f[n + 1]
        PROVE  x \in Readings(ts) /\ x.from >= n + 1
    BY <1>4, <2>1, <2>2, <2>4
  <2>6. ASSUME NEW x \in Readings(ts), x.from >= n + 1
        PROVE  x \in f[n + 1]
    <3>1. WellRead(ts, x)
      BY ReadingsWell
    <3>2. x.from \in Nat
      BY <3>1 DEF WellRead
    <3>3. x.from >= n /\ x.from # n
      BY <2>6, <3>2
    <3> QED
      BY <2>2, <2>3, <2>4, <3>3
  <2>7. \A x : x \in f[n + 1] <=> x \in Readings(ts) /\ x.from >= n + 1
    BY <2>5, <2>6
  <2> QED
    BY <1>2, <2>1, <2>7, Zenon DEF ChartExactAt
<1>8. \A n \in 1..N : n \in S
  <2> HIDE DEF S
  <2> QED
    BY <1>6, <1>7, Forwards
<1> QED
  BY <1>1, <1>8

\* The readings are closed under the grammar, and nothing else is one.
LEMMA ReadingsFixed ==
  ASSUME NEW ts, Len(ts) \in Nat, NEW n \in 1..(Len(ts) + 1), NEW x
  PROVE  x \in Readings(ts) /\ x.from = n <=> x \in Beginning(ts, n, Readings(ts))
<1>1. PICK N \in Nat \ {0} : N = Len(ts) + 1 /\ Len(ts) = N - 1
  OBVIOUS
<1>2. PICK f : f = Chart(ts)
  OBVIOUS
<1>3. PICK r : r = BehindIn(ts, f, n)
  OBVIOUS
<1>4. f[n] = r \cup Beginning(ts, n, r)
  BY <1>2, <1>3, ChartIs, Zenon
<1>5. \A y \in Readings(ts) : WellRead(ts, y)
  BY ReadingsWell
<1>6. \A y : y \in r <=> y \in Readings(ts) /\ y.from >= n + 1
  <2>1. CASE n = N
    <3>1. r = {}
      BY <1>1, <1>3, <2>1 DEF BehindIn
    <3>2. ASSUME NEW y \in Readings(ts)
          PROVE  ~(y.from >= n + 1)
      <4>1. y.from \in 1..N
        BY <1>1, <1>5 DEF WellRead
      <4> QED
        BY <2>1, <4>1
    <3> QED
      BY <3>1, <3>2
  <2>2. CASE n # N
    <3>1. r = f[n + 1] /\ n + 1 \in 1..(Len(ts) + 1)
      BY <1>1, <1>3, <2>2 DEF BehindIn
    <3> QED
      BY <1>2, <3>1, ChartExact, Zenon DEF ChartExactAt
  <2> QED
    BY <2>1, <2>2
<1>7. SameFrom(r, Readings(ts), n + 1)
  <2> SUFFICES ASSUME NEW what, NEW m \in Nat, m >= n + 1
               PROVE  ReadAt(r, what, m) = ReadAt(Readings(ts), what, m)
    BY Zenon DEF SameFrom
  <2>1. ASSUME NEW y, y.from = m
        PROVE  y \in r <=> y \in Readings(ts)
    BY <1>6, <2>1
  <2> QED
    BY <2>1 DEF ReadAt
<1>8. Beginning(ts, n, r) = Beginning(ts, n, Readings(ts))
  BY <1>5, <1>7, SameBeginning
<1>9. \A y : y \in f[n] <=> y \in Readings(ts) /\ y.from >= n
  BY <1>2, ChartExact, Zenon DEF ChartExactAt
<1>10. ASSUME x \in Readings(ts), x.from = n
       PROVE  x \in Beginning(ts, n, Readings(ts))
  <2>1. x \in f[n] /\ x \notin r
    BY <1>6, <1>9, <1>10
  <2> QED
    BY <1>4, <1>8, <2>1
<1>11. ASSUME x \in Beginning(ts, n, Readings(ts))
       PROVE  x \in Readings(ts) /\ x.from = n
  <2>1. x \in f[n]
    BY <1>4, <1>8, <1>11
  <2>2. x.from = n
    BY <1>5, <1>11, BeginningWell
  <2> QED
    BY <1>9, <2>1, <2>2
<1> QED
  BY <1>10, <1>11

(* -- The grammar, rule by rule ------------------------------------------------ *)

(* A value, what follows an item, and an item with what follows, from one   *)
(* place to another.                                                        *)
IsValue(ts, n, m, v) == Reading("value", n, Part(m, <<v>>)) \in Readings(ts)
Rest(ts, kind, n, m, is) == Reading(kind, n, Part(m, is)) \in Readings(ts)
Some(ts, kind, n, m, is) == Part(m, is) \in Items(ts, kind, n, Readings(ts))

\* A part is made of one end and one sequence only.
LEMMA SameParts ==
  \A a, b, c, d : Part(a, b) = Part(c, d) => a = c /\ b = d
BY PartIs

\* The reading of a value has one item.
LEMMA ValueIsOne ==
  ASSUME NEW ts, Len(ts) \in Nat, NEW y \in Readings(ts), y.what = "value"
  PROVE  /\ y = Reading("value", y.from, Part(y.to, <<y.is[1]>>))
         /\ IsValue(ts, y.from, y.to, y.is[1])
<1>1. PICK n : n = y.from
  OBVIOUS
<1>2. WellRead(ts, y)
  BY ReadingsWell
<1>3. n \in 1..(Len(ts) + 1) /\ y = Reading("value", y.from, Part(y.to, y.is))
  BY <1>1, <1>2, Zenon DEF WellRead
<1>4. y \in Beginning(ts, n, Readings(ts))
  BY <1>1, <1>3, ReadingsFixed
<1>5. PICK p \in Values(ts, n, Readings(ts)) : y = Reading("value", n, p)
  <2>1. ASSUME NEW kind \in Kinds, NEW p, y = Reading(kind, n, p)
        PROVE  FALSE
    <3>1. y.what = kind
      BY <2>1 DEF Reading
    <3> QED
      BY <3>1 DEF Kinds
  <2> QED
    BY <1>4, <2>1, BeginningMember
<1>6. \E e : p.is = <<e>>
  <2>1. IsWord(ts, n, p) \/ IsCompound(ts, n, Readings(ts), p)
    BY ValuesMember
  <2>2. \E to, e : p = Part(to, <<e>>)
    BY <2>1, Zenon DEF IsWord, IsCompound
  <2> QED
    BY <2>2, PartIs
<1>7. y.is = p.is
  BY <1>5 DEF Reading
<1>8. y.is = <<y.is[1]>>
  BY <1>6, <1>7
<1>9. y = Reading("value", y.from, Part(y.to, <<y.is[1]>>))
  BY <1>3, <1>8, Zenon
<1> QED
  BY <1>9, Zenon DEF IsValue

\* Where a reading is, and what it has.
LEMMA ValueType ==
  ASSUME NEW ts, Len(ts) \in Nat, NEW n, NEW m, NEW v, IsValue(ts, n, m, v)
  PROVE  n \in 1..(Len(ts) + 1) /\ m \in (n + 1)..(Len(ts) + 1)
<1>1. PICK x : x = Reading("value", n, Part(m, <<v>>))
  OBVIOUS
<1>2. x \in Readings(ts)
  BY <1>1 DEF IsValue
<1>3. WellRead(ts, x)
  BY <1>2, ReadingsWell
<1>4. x.from = n /\ x.to = m /\ x.what = "value"
  BY <1>1 DEF Reading, Part
<1>5. n \in 1..(Len(ts) + 1) /\ m \in n..(Len(ts) + 1) /\ m > n
  BY <1>3, <1>4 DEF WellRead
<1> QED
  BY <1>5

\* The same of what follows.
LEMMA RestType ==
  ASSUME NEW ts, Len(ts) \in Nat, NEW kind, NEW n, NEW m, NEW is, Rest(ts, kind, n, m, is)
  PROVE  n \in 1..(Len(ts) + 1) /\ m \in n..(Len(ts) + 1) /\ IsSeq(is)
<1>1. PICK x : x = Reading(kind, n, Part(m, is))
  OBVIOUS
<1>2. x \in Readings(ts)
  BY <1>1 DEF Rest
<1>3. WellRead(ts, x)
  BY <1>2, ReadingsWell
<1>4. x.from = n /\ x.to = m /\ x.is = is
  BY <1>1 DEF Reading, Part
<1> QED
  BY <1>3, <1>4, Zenon DEF WellRead

(* One item with those that follow it: a value, with key and colon if one   *)
(* belongs there.                                                           *)
SomeForm(ts, kind, n, m, is) ==
  /\ IsItem(ts, kind, n)
  /\ \E k, v, t : /\ IsValue(ts, ItsValue(kind, n), k, v)
                  /\ Rest(ts, kind, k, m, t)
                  /\ is = <<Item(ts, kind, n, v)>> \o t

\* The rule of items.
LEMMA SomeRule ==
  ASSUME NEW ts, Len(ts) \in Nat, NEW kind, NEW n, NEW m, NEW is
  PROVE  Some(ts, kind, n, m, is) <=> SomeForm(ts, kind, n, m, is)
<1>1. PICK r : r = Readings(ts)
  OBVIOUS
<1>2. Some(ts, kind, n, m, is) <=> AreItems(ts, kind, n, r, Part(m, is))
  BY <1>1, ItemsMember, Zenon DEF Some
<1>3. ASSUME AreItems(ts, kind, n, r, Part(m, is))
      PROVE  SomeForm(ts, kind, n, m, is)
  <2>1. PICK y \in ReadAt(r, "value", ItsValue(kind, n)) :
               \E z \in ReadAt(r, kind, y.to) :
                 Part(m, is) = Part(z.to, <<Item(ts, kind, n, y.is[1])>> \o z.is)
    BY <1>3 DEF AreItems
  <2>2. PICK z \in ReadAt(r, kind, y.to) :
               Part(m, is) = Part(z.to, <<Item(ts, kind, n, y.is[1])>> \o z.is)
    BY <2>1
  <2>3. y \in r /\ y.what = "value" /\ y.from = ItsValue(kind, n)
        /\ z \in r /\ z.what = kind /\ z.from = y.to
    BY DEF ReadAt
  <2>4. IsValue(ts, ItsValue(kind, n), y.to, y.is[1])
    <3>1. IsValue(ts, y.from, y.to, y.is[1])
      BY <1>1, <2>3, ValueIsOne
    <3> QED
      BY <2>3, <3>1, Zenon
  <2>5. z = Reading(kind, y.to, Part(z.to, z.is))
    <3>1. WellRead(ts, z)
      BY <1>1, <2>3, ReadingsWell
    <3> QED
      BY <2>3, <3>1, Zenon DEF WellRead
  <2>6. m = z.to /\ is = <<Item(ts, kind, n, y.is[1])>> \o z.is
    <3>1. PICK b : b = <<Item(ts, kind, n, y.is[1])>> \o z.is
      OBVIOUS
    <3>2. Part(m, is) = Part(z.to, b)
      BY <2>2, <3>1, Zenon
    <3>3. m = z.to /\ is = b
      BY <3>2, SameParts
    <3> QED
      BY <3>1, <3>3, Zenon
  <2>7. Rest(ts, kind, y.to, m, z.is)
    BY <1>1, <2>3, <2>5, <2>6, Zenon DEF Rest
  <2>8. IsItem(ts, kind, n)
    BY <1>3 DEF AreItems
  <2> QED
    BY <2>4, <2>6, <2>7, <2>8, Zenon DEF SomeForm
<1>4. ASSUME SomeForm(ts, kind, n, m, is)
      PROVE  AreItems(ts, kind, n, r, Part(m, is))
  <2>1. PICK k, v, t : /\ IsValue(ts, ItsValue(kind, n), k, v)
                       /\ Rest(ts, kind, k, m, t)
                       /\ is = <<Item(ts, kind, n, v)>> \o t
    BY <1>4, Zenon DEF SomeForm
  <2>2. PICK y : y = Reading("value", ItsValue(kind, n), Part(k, <<v>>))
    OBVIOUS
  <2>3. PICK z : z = Reading(kind, k, Part(m, t))
    OBVIOUS
  <2>4. /\ y.what = "value" /\ y.from = ItsValue(kind, n) /\ y.to = k /\ y.is = <<v>>
        /\ z.what = kind /\ z.from = k /\ z.to = m /\ z.is = t
    BY <2>2, <2>3 DEF Reading, Part
  <2>5. y \in r /\ z \in r
    BY <1>1, <2>1, <2>2, <2>3 DEF IsValue, Rest
  <2>6. y \in ReadAt(r, "value", ItsValue(kind, n)) /\ z \in ReadAt(r, kind, y.to)
    BY <2>4, <2>5, Zenon DEF ReadAt
  <2>7. y.is[1] = v
    BY <2>4
  <2>8. Part(m, is) = Part(z.to, <<Item(ts, kind, n, y.is[1])>> \o z.is)
    BY <2>1, <2>4, <2>7, Zenon
  <2>9. IsItem(ts, kind, n)
    BY <1>4, Zenon DEF SomeForm
  <2> QED
    BY <2>6, <2>8, <2>9, Zenon DEF AreItems
<1> QED
  BY <1>2, <1>3, <1>4

\* Items take at least a token.
LEMMA SomeType ==
  ASSUME NEW ts, Len(ts) \in Nat, NEW kind, NEW n \in Nat, NEW m, NEW is, Some(ts, kind, n, m, is)
  PROVE  m \in (n + 1)..(Len(ts) + 1) /\ IsSeq(is)
<1>1. WellPart(ts, Part(m, is), n + 1)
  BY ReadingsWell, ItemsWell DEF Some
<1> QED
  BY <1>1, PartIs, Zenon DEF WellPart

\* Nothing more, or a separator, but in the file, and items.
RestForm(ts, kind, n, m, is) ==
  \/ m = n /\ is = <<>>
  \/ kind = "file" /\ Some(ts, kind, n, m, is)
  \/ /\ kind # "file" /\ n <= Len(ts) /\ ~IsBracket(ts[n], Closer(kind))
     /\ Some(ts, kind, n + 1, m, is)

\* The rule of what follows.
LEMMA RestRule ==
  ASSUME NEW ts, Len(ts) \in Nat, NEW kind \in Kinds, NEW n \in 1..(Len(ts) + 1), NEW m, NEW is
  PROVE  Rest(ts, kind, n, m, is) <=> RestForm(ts, kind, n, m, is)
<1>1. PICK r : r = Readings(ts)
  OBVIOUS
<1>2. PICK p : p = Part(m, is)
  OBVIOUS
<1>3. PICK x : x = Reading(kind, n, p)
  OBVIOUS
<1>4. x.what = kind /\ x.from = n /\ x.to = p.to /\ x.is = p.is /\ p.to = m /\ p.is = is
  BY <1>2, <1>3 DEF Reading, Part
<1>5. Rest(ts, kind, n, m, is) <=> x \in Beginning(ts, n, r)
  <2>1. x \in r <=> x \in Beginning(ts, n, r)
    BY <1>1, <1>4, ReadingsFixed
  <2> QED
    BY <1>1, <1>2, <1>3, <2>1, Zenon DEF Rest
<1>6. x \in Beginning(ts, n, r) <=> p \in Following(ts, kind, n, r)
  <2>1. ASSUME p \in Following(ts, kind, n, r)
        PROVE  x \in Beginning(ts, n, r)
    BY <1>3, <2>1, BeginningMember
  <2>2. ASSUME NEW what, NEW q, x = Reading(what, n, q), q = Part(q.to, q.is)
        PROVE  what = kind /\ q = p
    <3>1. what = x.what /\ q.to = x.to /\ q.is = x.is
      BY <2>2 DEF Reading
    <3> QED
      BY <1>2, <1>4, <2>2, <3>1, Zenon
  <2>3. ASSUME NEW what \in Kinds, NEW q \in Following(ts, what, n, r), x = Reading(what, n, q)
        PROVE  p \in Following(ts, kind, n, r)
    <3>1. WellPart(ts, q, n)
      BY <1>1, FollowingWell, ReadingsWell
    <3> QED
      BY <2>2, <2>3, <3>1, Zenon DEF WellPart
  <2>4. ~\E q \in Values(ts, n, r) : x = Reading("value", n, q)
    <3>1. kind # "value"
      BY DEF Kinds
    <3>2. ASSUME NEW q, x = Reading("value", n, q)
          PROVE  FALSE
      <4>1. x.what = "value"
        BY <3>2 DEF Reading
      <4> QED
        BY <1>4, <3>1, <4>1
    <3> QED
      BY <3>2
  <2> QED
    BY <2>1, <2>3, <2>4, BeginningMember
<1>7. p \in Following(ts, kind, n, r) <=>
        \/ p = Nothing(n)
        \/ kind = "file" /\ p \in Items(ts, kind, n, r)
        \/ /\ kind # "file" /\ n <= Len(ts) /\ ~IsBracket(ts[n], Closer(kind))
           /\ p \in Items(ts, kind, n + 1, r)
  BY DEF Following
<1>8. p = Nothing(n) <=> m = n /\ is = <<>>
  BY <1>2, SameParts, Zenon DEF Nothing
<1> QED
  BY <1>1, <1>2, <1>5, <1>6, <1>7, <1>8, Zenon DEF RestForm, Some

\* What may be between two brackets.
Inside(ts, kind, n, m, is) == (m = n /\ is = <<>>) \/ Some(ts, kind, n, m, is)

\* A value between two brackets that belong together.
CompoundForm(ts, n, m, v) ==
  \E kind \in Bracketed, k \in 1..Len(ts) : \E is :
    /\ IsBracket(ts[n], Opener(kind)) /\ Inside(ts, kind, n + 1, k, is)
    /\ IsBracket(ts[k], Closer(kind)) /\ m = k + 1 /\ v = Compound(kind, is)

\* The rule of values.
LEMMA ValueRule ==
  ASSUME NEW ts, Len(ts) \in Nat, NEW n \in 1..(Len(ts) + 1), NEW m, NEW v
  PROVE  IsValue(ts, n, m, v) <=>
           /\ n <= Len(ts)
           /\ \/ IsText(ts[n]) /\ m = n + 1 /\ v = ScalarOf(ts[n])
              \/ CompoundForm(ts, n, m, v)
<1>1. PICK r : r = Readings(ts)
  OBVIOUS
<1>2. PICK p : p = Part(m, <<v>>)
  OBVIOUS
<1>3. PICK x : x = Reading("value", n, p)
  OBVIOUS
<1>4. x.what = "value" /\ x.from = n /\ x.to = p.to /\ x.is = p.is /\ p.to = m /\ p.is = <<v>>
  BY <1>2, <1>3 DEF Reading, Part
<1>5. IsValue(ts, n, m, v) <=> x \in Beginning(ts, n, r)
  <2>1. x \in r <=> x \in Beginning(ts, n, r)
    BY <1>1, <1>4, ReadingsFixed
  <2> QED
    BY <1>1, <1>2, <1>3, <2>1, Zenon DEF IsValue
<1>6. x \in Beginning(ts, n, r) <=> n <= Len(ts) /\ p \in Values(ts, n, r)
  <2>1. ASSUME n <= Len(ts), p \in Values(ts, n, r)
        PROVE  x \in Beginning(ts, n, r)
    BY <1>3, <2>1, BeginningMember
  <2>2. ASSUME NEW kind \in Kinds, NEW q, x = Reading(kind, n, q)
        PROVE  FALSE
    <3>1. x.what = kind
      BY <2>2 DEF Reading
    <3> QED
      BY <1>4, <3>1 DEF Kinds
  <2>3. ASSUME NEW q \in Values(ts, n, r), x = Reading("value", n, q)
        PROVE  q = p
    <3>1. IsWord(ts, n, q) \/ IsCompound(ts, n, r, q)
      BY ValuesMember
    <3>2. \E to, is : q = Part(to, is)
      BY <3>1, Zenon DEF IsWord, IsCompound
    <3>3. PICK to, is : q = Part(to, is)
      BY <3>2
    <3>4. q.to = to /\ q.is = is /\ x.to = q.to /\ x.is = q.is
      BY <2>3, <3>3 DEF Reading, Part
    <3> QED
      BY <1>2, <1>4, <3>3, <3>4, Zenon
  <2> QED
    BY <2>1, <2>2, <2>3, BeginningMember
<1>7. p \in Values(ts, n, r) <=> IsWord(ts, n, p) \/ IsCompound(ts, n, r, p)
  BY ValuesMember
<1>8. \A to, w : p = Part(to, <<w>>) <=> m = to /\ v = w
  <2>1. ASSUME NEW to, NEW w, p = Part(to, <<w>>)
        PROVE  m = to /\ v = w
    <3>1. p.to = to /\ p.is = <<w>>
      BY <2>1 DEF Part
    <3>2. <<v>> = <<w>>
      BY <1>4, <3>1, Zenon
    <3> QED
      BY <1>4, <3>1, <3>2
  <2> QED
    BY <1>2, <2>1
<1>9. IsWord(ts, n, p) <=> IsText(ts[n]) /\ m = n + 1 /\ v = ScalarOf(ts[n])
  BY <1>8, Zenon DEF IsWord
<1>10. ASSUME n <= Len(ts), NEW kind, NEW q
       PROVE  q \in Enclosed(ts, kind, n, r) <=>
                /\ q = Nothing(n + 1) \/ q \in Items(ts, kind, n + 1, r)
                /\ IsBracket(ts[n], Opener(kind))
                /\ q.to <= Len(ts) /\ IsBracket(ts[q.to], Closer(kind))
  BY DEF Enclosed
<1>11. ASSUME n <= Len(ts), IsCompound(ts, n, r, p)
       PROVE  CompoundForm(ts, n, m, v)
  <2>1. PICK kind \in Bracketed : \E q \in Enclosed(ts, kind, n, r) :
               p = Part(q.to + 1, <<Compound(kind, q.is)>>)
    BY <1>11, Zenon DEF IsCompound
  <2>2. PICK q \in Enclosed(ts, kind, n, r) : p = Part(q.to + 1, <<Compound(kind, q.is)>>)
    BY <2>1
  <2>3. m = q.to + 1 /\ v = Compound(kind, q.is)
    BY <1>8, <2>2, Zenon
  <2>4. n \in 1..Len(ts)
    BY <1>11
  <2>5. q.to \in (n + 1)..Len(ts) /\ q = Part(q.to, q.is)
    BY <1>1, <2>4, EnclosedWell, ReadingsWell
  <2>6. q.to \in 1..Len(ts)
    BY <2>4, <2>5
  <2>7. /\ q = Nothing(n + 1) \/ q \in Items(ts, kind, n + 1, r)
        /\ IsBracket(ts[n], Opener(kind)) /\ IsBracket(ts[q.to], Closer(kind))
    BY <1>10, <1>11
  <2>8. Inside(ts, kind, n + 1, q.to, q.is)
    <3>1. q = Nothing(n + 1) => q.to = n + 1 /\ q.is = <<>>
      BY DEF Nothing, Part
    <3> QED
      BY <1>1, <2>5, <2>7, <3>1, Zenon DEF Inside, Some
  <2> QED
    BY <2>3, <2>6, <2>7, <2>8, Zenon DEF CompoundForm
<1>12. ASSUME n <= Len(ts), CompoundForm(ts, n, m, v)
       PROVE  IsCompound(ts, n, r, p)
  <2>1. PICK kind \in Bracketed, k \in 1..Len(ts) : \E is :
          /\ IsBracket(ts[n], Opener(kind)) /\ Inside(ts, kind, n + 1, k, is)
          /\ IsBracket(ts[k], Closer(kind)) /\ m = k + 1 /\ v = Compound(kind, is)
    BY <1>12, Zenon DEF CompoundForm
  <2>2. PICK is :
          /\ IsBracket(ts[n], Opener(kind)) /\ Inside(ts, kind, n + 1, k, is)
          /\ IsBracket(ts[k], Closer(kind)) /\ m = k + 1 /\ v = Compound(kind, is)
    BY <2>1
  <2>3. PICK q : q = Part(k, is)
    OBVIOUS
  <2>4. q.to = k /\ q.is = is
    BY <2>3 DEF Part
  <2>5. q = Nothing(n + 1) \/ q \in Items(ts, kind, n + 1, r)
    BY <1>1, <2>2, <2>3, Zenon DEF Inside, Some, Nothing
  <2>6. k <= Len(ts)
    OBVIOUS
  <2>7. q \in Enclosed(ts, kind, n, r)
    BY <1>10, <1>12, <2>2, <2>4, <2>5, <2>6
  <2>8. p = Part(q.to + 1, <<Compound(kind, q.is)>>)
    BY <1>2, <2>2, <2>4, Zenon
  <2> QED
    BY <2>7, <2>8, Zenon DEF IsCompound
<1> QED
  BY <1>5, <1>6, <1>7, <1>9, <1>11, <1>12

\* What is between brackets ends where it began or behind.
LEMMA InsideType ==
  ASSUME NEW ts, Len(ts) \in Nat, NEW kind, NEW n \in Nat, NEW m, NEW is, Inside(ts, kind, n, m, is)
  PROVE  m \in Nat /\ m >= n /\ IsSeq(is)
<1>1. CASE m = n /\ is = <<>>
  BY <1>1, EmptyIsSeq
<1>2. CASE Some(ts, kind, n, m, is)
  <2>1. m \in (n + 1)..(Len(ts) + 1) /\ IsSeq(is)
    BY <1>2, SomeType
  <2> QED
    BY <2>1
<1> QED
  BY <1>1, <1>2 DEF Inside

(* -- How what is open can end ------------------------------------------------- *)

(* Where a frame of the parser can end, and with which items, by what is     *)
(* looked for in it at a place.                                              *)
Keyed(f, token) == [f EXCEPT !.key = KeyOf(token)]

RestEnds(ts, f, n, m, is) == \E t : Rest(ts, f.kind, n, m, t) /\ is = f.items \o t
ValueEnds(ts, f, n, m, is) == \E k, v : IsValue(ts, n, k, v) /\ RestEnds(ts, Pushed(f, v), k, m, is)
ColonEnds(ts, f, n, m, is) ==
  n \in 1..Len(ts) /\ ts[n].type = "colon" /\ ValueEnds(ts, f, n + 1, m, is)
KeyEnds(ts, f, n, m, is) ==
  n \in 1..Len(ts) /\ IsText(ts[n]) /\ ColonEnds(ts, Keyed(f, ts[n]), n + 1, m, is)
ItemEnds(ts, f, n, m, is) == IF f.kind = "list" THEN ValueEnds(ts, f, n, m, is)
                                                ELSE KeyEnds(ts, f, n, m, is)
FirstEnds(ts, f, n, m, is) == (m = n /\ is = f.items) \/ ItemEnds(ts, f, n, m, is)

\* A key changes nothing else of a frame,
LEMMA KeyedOK ==
  ASSUME NEW f, FrameOK(f), NEW token
  PROVE  /\ FrameOK(Keyed(f, token)) /\ Keyed(f, token).kind = f.kind
         /\ Keyed(f, token).items = f.items /\ Keyed(f, token).key = KeyOf(token)
<1>1. PICK kind, items, key : f = [kind |-> kind, items |-> items, key |-> key]
  BY DEF FrameOK
<1>2. PICK g : g = Keyed(f, token)
  OBVIOUS
<1>3. PICK key2 : key2 = KeyOf(token)
  OBVIOUS
<1>4. g = [kind |-> kind, items |-> items, key |-> key2]
  BY <1>1, <1>2, <1>3 DEF Keyed
<1>5. g.kind = kind /\ g.items = items /\ g.key = key2 /\ f.kind = kind /\ f.items = items
  BY <1>1, <1>4
<1> QED
  BY <1>2, <1>3, <1>4, <1>5, Zenon DEF FrameOK

\* and a value becomes its last item.
LEMMA PushedIs ==
  ASSUME NEW f, FrameOK(f), NEW v
  PROVE  /\ Pushed(f, v).kind = f.kind /\ FrameOK(Pushed(f, v))
         /\ Pushed(f, v).items = Append(f.items, IF f.kind = "list" THEN v ELSE [key |-> f.key, value |-> v])
<1>1. PICK kind, items, key : f = [kind |-> kind, items |-> items, key |-> key]
  BY DEF FrameOK
<1>2. f.kind = kind /\ f.items = items /\ f.key = key
  BY <1>1
<1>3. PICK item : item = IF f.kind = "list" THEN v ELSE [key |-> f.key, value |-> v]
  OBVIOUS
<1>4. PICK all : all = Append(f.items, item)
  OBVIOUS
<1>5. Pushed(f, v) = [f EXCEPT !.items = all, !.key = NoKey]
  BY <1>3, <1>4, Zenon DEF Pushed
<1>6. Pushed(f, v).items = all
  BY <1>1, <1>5
<1> QED
  BY <1>3, <1>4, <1>6, PushedOK, Zenon

\* An item moves from what follows to what has been read.
IsMoved(s, e, t) == Append(s, e) \o t = s \o (<<e>> \o t)

\* It is the same sequence.
LEMMA AppendedIs ==
  ASSUME NEW s, IsSeq(s), NEW e, NEW t, IsSeq(t)
  PROVE  IsMoved(s, e, t)
<1>1. PICK S : s \in Seq(S)
  BY DEF IsSeq
<1>2. PICK T : t \in Seq(T)
  BY DEF IsSeq
<1>3. PICK U : U = S \cup T \cup {e}
  OBVIOUS
<1>4. s \in Seq(U) /\ t \in Seq(U) /\ e \in U
  BY <1>1, <1>2, <1>3, SeqMonotonic
<1>5. <<e>> \in Seq(U)
  BY <1>4
<1>6. Append(s, e) = s \o <<e>>
  BY <1>4, AppendIsConcat
<1>7. (s \o <<e>>) \o t = s \o (<<e>> \o t)
  BY <1>4, <1>5, ConcatAssociative
<1> QED
  BY <1>6, <1>7, Zenon DEF IsMoved

\* Neither in front of a sequence nor behind it does nothing matter.
LEMMA NothingMore ==
  ASSUME NEW s, IsSeq(s)
  PROVE  s \o <<>> = s /\ <<>> \o s = s
<1>1. PICK S : s \in Seq(S)
  BY DEF IsSeq
<1> QED
  BY <1>1, ConcatEmptySeq

\* The frame that a value is read for, and what it is behind the value.
ForItem(ts, f, n) == IF f.kind = "list" THEN f ELSE Keyed(f, ts[n])

\* A frame with one item more, and what follows that item.
HasGone(ts, f, g, n, v, t) ==
  /\ g.kind = f.kind
  /\ g.items \o t = f.items \o (<<Item(ts, f.kind, n, v)>> \o t)

\* The value of an item goes where the grammar has it.
LEMMA ItemGoes ==
  ASSUME NEW ts, NEW f, FrameOK(f), NEW n, NEW v, NEW t, IsSeq(t)
  PROVE  HasGone(ts, f, Pushed(ForItem(ts, f, n), v), n, v, t)
<1>1. PICK h : h = ForItem(ts, f, n)
  OBVIOUS
<1>2. FrameOK(h) /\ h.kind = f.kind /\ h.items = f.items /\ (f.kind # "list" => h.key = KeyOf(ts[n]))
  <2>1. CASE f.kind = "list"
    BY <1>1, <2>1 DEF ForItem
  <2>2. CASE f.kind # "list"
    <3>1. h = Keyed(f, ts[n])
      BY <1>1, <2>2 DEF ForItem
    <3> QED
      BY <2>2, <3>1, KeyedOK
  <2> QED
    BY <2>1, <2>2
<1>3. PICK e : e = Item(ts, f.kind, n, v)
  OBVIOUS
<1>4. e = IF h.kind = "list" THEN v ELSE [key |-> h.key, value |-> v]
  BY <1>2, <1>3 DEF Item
<1>5. Pushed(h, v).kind = f.kind /\ Pushed(h, v).items = Append(f.items, e)
  <2>1. /\ Pushed(h, v).kind = h.kind
        /\ Pushed(h, v).items = Append(h.items, IF h.kind = "list" THEN v ELSE [key |-> h.key, value |-> v])
    BY <1>2, PushedIs
  <2> QED
    BY <1>2, <1>4, <2>1, Zenon
<1>6. IsSeq(f.items)
  BY DEF FrameOK
<1>7. Append(f.items, e) \o t = f.items \o (<<e>> \o t)
  <2>1. IsMoved(f.items, e, t)
    BY <1>6, AppendedIs, Zenon
  <2> QED
    BY <2>1, Zenon DEF IsMoved
<1> QED
  BY <1>1, <1>3, <1>5, <1>7, Zenon DEF HasGone

\* For a list and any other frame alike, an item is a value behind its key.
LEMMA ItemEndsIs ==
  ASSUME NEW ts, Len(ts) \in Nat, NEW f, NEW n \in Nat \ {0}, NEW m, NEW is
  PROVE  ItemEnds(ts, f, n, m, is) <=>
           /\ IsItem(ts, f.kind, n)
           /\ ValueEnds(ts, ForItem(ts, f, n), ItsValue(f.kind, n), m, is)
<1>1. CASE f.kind = "list"
  BY <1>1, Zenon DEF ItemEnds, IsItem, ForItem, ItsValue
<1>2. CASE f.kind # "list"
  <2>1. /\ ForItem(ts, f, n) = Keyed(f, ts[n]) /\ ItsValue(f.kind, n) = n + 2
        /\ (n + 1) + 1 = n + 2
    BY <1>2 DEF ForItem, ItsValue
  <2>2. n < Len(ts) <=> n \in 1..Len(ts) /\ n + 1 \in 1..Len(ts)
    OBVIOUS
  <2>3. ItemEnds(ts, f, n, m, is) <=> KeyEnds(ts, f, n, m, is)
    BY <1>2 DEF ItemEnds
  <2>4. IsItem(ts, f.kind, n) <=> n < Len(ts) /\ IsText(ts[n]) /\ ts[n + 1].type = "colon"
    BY <1>2 DEF IsItem
  <2>5. KeyEnds(ts, f, n, m, is) <=>
          /\ n \in 1..Len(ts) /\ n + 1 \in 1..Len(ts) /\ IsText(ts[n]) /\ ts[n + 1].type = "colon"
          /\ ValueEnds(ts, Keyed(f, ts[n]), n + 2, m, is)
    BY <2>1, Zenon DEF KeyEnds, ColonEnds
  <2> QED
    BY <2>1, <2>2, <2>3, <2>4, <2>5, Zenon
<1> QED
  BY <1>1, <1>2

\* An item and those that follow, in the grammar and in the frame.
LEMMA SomeEnds ==
  ASSUME NEW ts, Len(ts) \in Nat, NEW f, FrameOK(f), NEW n \in Nat \ {0}, NEW m, NEW is
  PROVE  ItemEnds(ts, f, n, m, is) <=> \E t : Some(ts, f.kind, n, m, t) /\ is = f.items \o t
<1>1. PICK g : g = ForItem(ts, f, n)
  OBVIOUS
<1>2. PICK p : p = ItsValue(f.kind, n)
  OBVIOUS
<1>3. ASSUME ItemEnds(ts, f, n, m, is)
      PROVE  \E t : Some(ts, f.kind, n, m, t) /\ is = f.items \o t
  <2>1. IsItem(ts, f.kind, n) /\ ValueEnds(ts, g, p, m, is)
    BY <1>1, <1>2, <1>3, ItemEndsIs
  <2>2. PICK k, v : IsValue(ts, p, k, v) /\ RestEnds(ts, Pushed(g, v), k, m, is)
    BY <2>1, Zenon DEF ValueEnds
  <2>3. PICK t : Rest(ts, Pushed(g, v).kind, k, m, t) /\ is = Pushed(g, v).items \o t
    BY <2>2, Zenon DEF RestEnds
  <2>4. IsSeq(t)
    BY <2>3, RestType
  <2>5. /\ Pushed(g, v).kind = f.kind
        /\ Pushed(g, v).items \o t = f.items \o (<<Item(ts, f.kind, n, v)>> \o t)
    <3>1. HasGone(ts, f, Pushed(g, v), n, v, t)
      BY <1>1, <2>4, ItemGoes
    <3> QED
      BY <3>1, Zenon DEF HasGone
  <2>6. PICK u : u = <<Item(ts, f.kind, n, v)>> \o t
    OBVIOUS
  <2>7. SomeForm(ts, f.kind, n, m, u)
    BY <1>2, <2>1, <2>2, <2>3, <2>5, <2>6, Zenon DEF SomeForm
  <2>8. Some(ts, f.kind, n, m, u)
    BY <2>7, SomeRule
  <2>9. is = f.items \o u
    BY <2>3, <2>5, <2>6, Zenon
  <2> QED
    BY <2>8, <2>9
<1>4. ASSUME NEW u, Some(ts, f.kind, n, m, u), is = f.items \o u
      PROVE  ItemEnds(ts, f, n, m, is)
  <2>1. SomeForm(ts, f.kind, n, m, u)
    BY <1>4, SomeRule
  <2>2. PICK k, v, t : /\ IsValue(ts, p, k, v)
                       /\ Rest(ts, f.kind, k, m, t)
                       /\ u = <<Item(ts, f.kind, n, v)>> \o t
    BY <1>2, <2>1, Zenon DEF SomeForm
  <2>3. IsSeq(t)
    BY <2>2, RestType
  <2>4. /\ Pushed(g, v).kind = f.kind
        /\ Pushed(g, v).items \o t = f.items \o (<<Item(ts, f.kind, n, v)>> \o t)
    <3>1. HasGone(ts, f, Pushed(g, v), n, v, t)
      BY <1>1, <2>3, ItemGoes
    <3> QED
      BY <3>1, Zenon DEF HasGone
  <2>5. is = Pushed(g, v).items \o t
    BY <1>4, <2>2, <2>4, Zenon
  <2>6. Rest(ts, Pushed(g, v).kind, k, m, t)
    BY <2>2, <2>4, Zenon
  <2>7. ValueEnds(ts, g, p, m, is)
    BY <2>2, <2>5, <2>6, Zenon DEF ValueEnds, RestEnds
  <2>8. IsItem(ts, f.kind, n)
    BY <2>1, Zenon DEF SomeForm
  <2> QED
    BY <1>1, <1>2, <2>7, <2>8, ItemEndsIs
<1> QED
  BY <1>3, <1>4

\* An item follows, or none does.
GoesOn(ts, f, n, m, is) ==
  \/ f.kind = "file" /\ ItemEnds(ts, f, n, m, is)
  \/ /\ f.kind # "file" /\ n <= Len(ts) /\ ~IsBracket(ts[n], Closer(f.kind))
     /\ ItemEnds(ts, f, n + 1, m, is)

LEMMA RestSplit ==
  ASSUME NEW ts, Len(ts) \in Nat, NEW f, FrameOK(f), f.kind \in Kinds,
         NEW n \in 1..(Len(ts) + 1), NEW m, NEW is
  PROVE  RestEnds(ts, f, n, m, is) <=> (m = n /\ is = f.items) \/ GoesOn(ts, f, n, m, is)
<1>1. \A t : Rest(ts, f.kind, n, m, t) <=> RestForm(ts, f.kind, n, m, t)
  BY RestRule
<1>2. n \in Nat \ {0} /\ n + 1 \in Nat \ {0}
  OBVIOUS
<1>3. f.items \o <<>> = f.items
  BY NothingMore DEF FrameOK
<1>4. \A k \in {n, n + 1} : ItemEnds(ts, f, k, m, is) <=> \E t : Some(ts, f.kind, k, m, t) /\ is = f.items \o t
  BY <1>2, SomeEnds
<1>5. ASSUME NEW t, RestForm(ts, f.kind, n, m, t), is = f.items \o t
      PROVE  (m = n /\ is = f.items) \/ GoesOn(ts, f, n, m, is)
  BY <1>3, <1>4, <1>5, Zenon DEF RestForm, GoesOn
<1>6. ASSUME m = n, is = f.items
      PROVE  RestEnds(ts, f, n, m, is)
  <2>1. RestForm(ts, f.kind, n, m, <<>>)
    BY <1>6 DEF RestForm
  <2> QED
    BY <1>1, <1>3, <1>6, <2>1, Zenon DEF RestEnds
<1>7. ASSUME GoesOn(ts, f, n, m, is)
      PROVE  RestEnds(ts, f, n, m, is)
  BY <1>1, <1>4, <1>7, Zenon DEF RestForm, RestEnds, GoesOn
<1>8. RestEnds(ts, f, n, m, is) <=> \E t : RestForm(ts, f.kind, n, m, t) /\ is = f.items \o t
  BY <1>1, Zenon DEF RestEnds
<1> QED
  BY <1>5, <1>6, <1>7, <1>8

\* What is between brackets is what a new frame can end with.
LEMMA InsideEnds ==
  ASSUME NEW ts, Len(ts) \in Nat, NEW kind, NEW n \in Nat \ {0}, NEW m, NEW is
  PROVE  Inside(ts, kind, n, m, is) <=> FirstEnds(ts, Open(kind), n, m, is)
<1>1. PICK f : f = Open(kind)
  OBVIOUS
<1>2. FrameOK(f) /\ f.kind = kind
  BY <1>1, OpenOK
<1>3. f.items = <<>>
  BY <1>1 DEF Open
<1>4. ItemEnds(ts, f, n, m, is) <=> \E t : Some(ts, kind, n, m, t) /\ is = <<>> \o t
  <2>1. ItemEnds(ts, f, n, m, is) <=> \E t : Some(ts, f.kind, n, m, t) /\ is = f.items \o t
    BY <1>2, SomeEnds
  <2> QED
    BY <1>2, <1>3, <2>1, Zenon
<1>5. \A t : Some(ts, kind, n, m, t) => <<>> \o t = t
  BY SomeType, NothingMore
<1>6. ItemEnds(ts, f, n, m, is) <=> Some(ts, kind, n, m, is)
  BY <1>4, <1>5
<1> QED
  BY <1>1, <1>3, <1>6, Zenon DEF Inside, FirstEnds

\* A value that is bracketed ends with the bracket that closes what is inside.
BracketsEnd(ts, f, n, m, is) ==
  \E kind \in Bracketed, k \in 1..Len(ts) : \E inner :
    /\ IsBracket(ts[n], Opener(kind)) /\ FirstEnds(ts, Open(kind), n + 1, k, inner)
    /\ IsBracket(ts[k], Closer(kind)) /\ RestEnds(ts, Pushed(f, Compound(kind, inner)), k + 1, m, is)

\* A value is one token or ends with a bracket, and the frame goes on.
LEMMA ValueSplit ==
  ASSUME NEW ts, Len(ts) \in Nat, NEW f, NEW n \in 1..(Len(ts) + 1), NEW m, NEW is
  PROVE  ValueEnds(ts, f, n, m, is) <=>
           /\ n <= Len(ts)
           /\ \/ IsText(ts[n]) /\ RestEnds(ts, Pushed(f, ScalarOf(ts[n])), n + 1, m, is)
              \/ BracketsEnd(ts, f, n, m, is)
<1>1. \A k, v : IsValue(ts, n, k, v) <=> /\ n <= Len(ts)
                                         /\ \/ IsText(ts[n]) /\ k = n + 1 /\ v = ScalarOf(ts[n])
                                            \/ CompoundForm(ts, n, k, v)
  BY ValueRule
<1>2. n + 1 \in Nat \ {0}
  OBVIOUS
<1>3. \A kind, k, inner : Inside(ts, kind, n + 1, k, inner) <=> FirstEnds(ts, Open(kind), n + 1, k, inner)
  BY <1>2, InsideEnds
<1>4. ASSUME NEW k, NEW v, CompoundForm(ts, n, k, v), RestEnds(ts, Pushed(f, v), k, m, is)
      PROVE  BracketsEnd(ts, f, n, m, is)
  <2>1. PICK kind \in Bracketed, l \in 1..Len(ts) : \E inner :
          /\ IsBracket(ts[n], Opener(kind)) /\ Inside(ts, kind, n + 1, l, inner)
          /\ IsBracket(ts[l], Closer(kind)) /\ k = l + 1 /\ v = Compound(kind, inner)
    BY <1>4, Zenon DEF CompoundForm
  <2> QED
    BY <1>3, <1>4, <2>1, Zenon DEF BracketsEnd
<1>5. ASSUME BracketsEnd(ts, f, n, m, is)
      PROVE  \E k, v : CompoundForm(ts, n, k, v) /\ RestEnds(ts, Pushed(f, v), k, m, is)
  BY <1>3, <1>5, Zenon DEF BracketsEnd, CompoundForm
<1>6. ValueEnds(ts, f, n, m, is) <=>
        \E k, v : IsValue(ts, n, k, v) /\ RestEnds(ts, Pushed(f, v), k, m, is)
  BY DEF ValueEnds
<1>7. ASSUME ValueEnds(ts, f, n, m, is)
      PROVE  /\ n <= Len(ts)
             /\ \/ IsText(ts[n]) /\ RestEnds(ts, Pushed(f, ScalarOf(ts[n])), n + 1, m, is)
                \/ BracketsEnd(ts, f, n, m, is)
  BY <1>1, <1>4, <1>6, <1>7, Zenon
<1>8. ASSUME n <= Len(ts),
             \/ IsText(ts[n]) /\ RestEnds(ts, Pushed(f, ScalarOf(ts[n])), n + 1, m, is)
             \/ BracketsEnd(ts, f, n, m, is)
      PROVE  ValueEnds(ts, f, n, m, is)
  BY <1>1, <1>5, <1>6, <1>8, Zenon
<1> QED
  BY <1>7, <1>8

(* -- How the file can end ----------------------------------------------------- *)

(* By what the parser looks for: where its innermost frame can end, and with*)
(* what.                                                                    *)
Ends(ts, f, next, n, m, is) ==
  CASE next = "key" -> IF f.kind = "file" THEN RestEnds(ts, f, n, m, is) ELSE KeyEnds(ts, f, n, m, is)
    [] next = "colon" -> ColonEnds(ts, f, n, m, is)
    [] next = "value" -> ValueEnds(ts, f, n, m, is)
    [] next = "first" -> FirstEnds(ts, f, n, m, is)
    [] next = "separator" -> RestEnds(ts, f, n, m, is)

\* A frame that ends is an item of the one around it, which ends then.
Linked(ts, frames, w, k) ==
  /\ w[k + 1].to \in 1..Len(ts) /\ IsBracket(ts[w[k + 1].to], Closer(frames[k + 1].kind))
  /\ RestEnds(ts, Pushed(frames[k], Compound(frames[k + 1].kind, w[k + 1].is)),
              w[k + 1].to + 1, w[k].to, w[k].is)

\* From where the parser is, the tokens from a place on complete a file.
Completes(ts, frames, next, n, result, w) ==
  /\ Ends(ts, frames[Len(frames)], next, n, w[Len(frames)].to, w[Len(frames)].is)
  /\ \A k \in 1..(Len(frames) - 1) : Linked(ts, frames, w, k)
  /\ w[1].to = Len(ts) + 1 /\ w[1].is = result
Leads(ts, frames, next, n, result) == \E w : Completes(ts, frames, next, n, result, w)

(* The innermost frame ends at its bracket, and the outermost with the      *)
(* tokens.                                                                  *)
CanEnd(ts, frames, m) ==
  IF Len(frames) = 1 THEN m = Len(ts) + 1
  ELSE m \in 1..Len(ts) /\ IsBracket(ts[m], Closer(frames[Len(frames)].kind))

\* It is so in whatever completes a file.
LEMMA EndsWhere ==
  ASSUME NEW ts, NEW frames, Len(frames) \in Nat \ {0}, NEW next, NEW n, NEW result, NEW w,
         Completes(ts, frames, next, n, result, w)
  PROVE  CanEnd(ts, frames, w[Len(frames)].to)
<1>1. PICK K \in Nat \ {0} : K = Len(frames)
  OBVIOUS
<1>2. CASE K = 1
  BY <1>1, <1>2, Zenon DEF CanEnd, Completes
<1>3. CASE K # 1
  <2>1. K - 1 \in 1..(K - 1) /\ (K - 1) + 1 = K
    BY <1>3
  <2>2. Linked(ts, frames, w, K - 1)
    BY <1>1, <2>1, Zenon DEF Completes
  <2> QED
    BY <1>1, <1>3, <2>1, <2>2, Zenon DEF CanEnd, Linked
<1> QED
  BY <1>2, <1>3

\* Two stacks that differ in the last frame, and that not in kind.
SameBelow(frames, all) ==
  /\ Len(all) = Len(frames) /\ all[Len(frames)].kind = frames[Len(frames)].kind
  /\ \A k \in 1..(Len(frames) - 1) : all[k] = frames[k]

\* The same, said with the number of frames.
AlikeBelow(frames, all, K) ==
  Len(all) = K /\ \A k \in 1..(K - 1) : all[k] = frames[k] /\ all[k + 1].kind = frames[k + 1].kind

\* Such stacks have frames of the same kinds.
LEMMA SameKinds ==
  ASSUME NEW frames, NEW K \in Nat \ {0}, K = Len(frames), NEW all, SameBelow(frames, all)
  PROVE  AlikeBelow(frames, all, K)
<1> SUFFICES ASSUME NEW k \in 1..(K - 1)
             PROVE  all[k] = frames[k] /\ all[k + 1].kind = frames[k + 1].kind
  BY DEF SameBelow, AlikeBelow
<1>1. k + 1 = K \/ k + 1 \in 1..(K - 1)
  OBVIOUS
<1> QED
  BY <1>1, Zenon DEF SameBelow

\* The places of a sequence, with and without its last.
LEMMA Places ==
  \A K \in Nat \ {0} :
    /\ K \in 1..K /\ K \in 1..((K + 1) - 1)
    /\ \A k \in 1..(K - 1) : k \in 1..K /\ k + 1 \in 1..K /\ k \in 1..((K + 1) - 1)
    /\ \A k \in 1..((K + 1) - 1) : k = K \/ k \in 1..(K - 1)
OBVIOUS

(* If only the innermost frame changes, what it can end with is all that    *)
(* matters.                                                                 *)
LEMMA TopChanges ==
  ASSUME NEW ts, NEW frames, Len(frames) \in Nat \ {0}, NEW all, SameBelow(frames, all),
         NEW next, NEW n, NEW next2, NEW n2, NEW result,
         \A m, is : CanEnd(ts, frames, m) /\ Ends(ts, frames[Len(frames)], next, n, m, is)
                      => Ends(ts, all[Len(frames)], next2, n2, m, is),
         Leads(ts, frames, next, n, result)
  PROVE  Leads(ts, all, next2, n2, result)
<1>1. PICK K \in Nat \ {0} : K = Len(frames)
  OBVIOUS
<1>2. PICK w : Completes(ts, frames, next, n, result, w)
  BY Zenon DEF Leads
<1>3. CanEnd(ts, frames, w[K].to)
  BY <1>1, <1>2, EndsWhere
<1>4. Ends(ts, all[K], next2, n2, w[K].to, w[K].is)
  BY <1>1, <1>2, <1>3, Zenon DEF Completes
<1>5. Len(all) = K /\ \A k \in 1..(K - 1) : all[k] = frames[k] /\ all[k + 1].kind = frames[k + 1].kind
  <2>1. AlikeBelow(frames, all, K)
    BY <1>1, SameKinds
  <2> QED
    BY <2>1, Zenon DEF AlikeBelow
<1>6. \A k \in 1..(K - 1) : Linked(ts, all, w, k)
  BY <1>1, <1>2, <1>5, Zenon DEF Completes, Linked
<1>7. w[1].to = Len(ts) + 1 /\ w[1].is = result
  BY <1>2, Zenon DEF Completes
<1>8. Completes(ts, all, next2, n2, result, w)
  BY <1>4, <1>5, <1>6, <1>7, Zenon DEF Completes
<1> QED
  BY <1>8, Zenon DEF Leads

\* One frame more, and one less.
OneAbove(frames, all, f) ==
  /\ Len(all) = Len(frames) + 1 /\ all[Len(frames) + 1] = f
  /\ \A k \in 1..Len(frames) : all[k] = frames[k]

\* The value of the frame at the end is one of the frame in front of it.
EndsThrough(ts, f, g, next, n, m, is) ==
  \E k \in 1..Len(ts) : \E inner :
    /\ Ends(ts, g, next, n, k, inner) /\ IsBracket(ts[k], Closer(g.kind))
    /\ RestEnds(ts, Pushed(f, Compound(g.kind, inner)), k + 1, m, is)

\* A new frame for a value that was looked for,
LEMMA FrameMore ==
  ASSUME NEW ts, NEW frames, Len(frames) \in Nat \ {0}, NEW all, NEW g, OneAbove(frames, all, g),
         NEW left, SameBelow(frames, left), NEW next, NEW n, NEW next2, NEW n2, NEW result,
         \A m, is : Ends(ts, left[Len(frames)], next, n, m, is)
                      => EndsThrough(ts, frames[Len(frames)], g, next2, n2, m, is),
         Leads(ts, left, next, n, result)
  PROVE  Leads(ts, all, next2, n2, result)
<1>1. PICK K \in Nat \ {0} : K = Len(frames)
  OBVIOUS
<1>2. PICK w : Completes(ts, left, next, n, result, w)
  BY Zenon DEF Leads
<1>3. Len(left) = K /\ \A k \in 1..(K - 1) : left[k] = frames[k] /\ left[k + 1].kind = frames[k + 1].kind
  <2>1. AlikeBelow(frames, left, K)
    BY <1>1, SameKinds
  <2> QED
    BY <2>1, Zenon DEF AlikeBelow
<1>4. EndsThrough(ts, frames[K], g, next2, n2, w[K].to, w[K].is)
  BY <1>1, <1>2, <1>3, Zenon DEF Completes
<1>5. PICK e \in 1..Len(ts) : \E inner :
        /\ Ends(ts, g, next2, n2, e, inner) /\ IsBracket(ts[e], Closer(g.kind))
        /\ RestEnds(ts, Pushed(frames[K], Compound(g.kind, inner)), e + 1, w[K].to, w[K].is)
  BY <1>4, Zenon DEF EndsThrough
<1>6. PICK inner :
        /\ Ends(ts, g, next2, n2, e, inner) /\ IsBracket(ts[e], Closer(g.kind))
        /\ RestEnds(ts, Pushed(frames[K], Compound(g.kind, inner)), e + 1, w[K].to, w[K].is)
  BY <1>5
<1>7. PICK p : p.to = e /\ p.is = inner
  <2>1. Part(e, inner).to = e /\ Part(e, inner).is = inner
    BY PartIs
  <2> QED
    BY <2>1
<1> DEFINE v == [k \in 1..(K + 1) |-> IF k = K + 1 THEN p ELSE w[k]]
<1>8. v[K + 1] = p /\ v[1] = w[1] /\ \A k \in 1..K : v[k] = w[k]
  OBVIOUS
<1>9. /\ Len(all) = K + 1 /\ all[K + 1] = g
      /\ \A k \in 1..K : all[k] = frames[k]
  BY <1>1, Zenon DEF OneAbove
<1> HIDE DEF v
<1>10. \A k \in 1..(K - 1) : Linked(ts, all, v, k)
  <2>1. \A k \in 1..(K - 1) : k \in 1..K /\ k + 1 \in 1..K
    BY Places, Zenon
  <2> QED
    BY <1>2, <1>3, <1>8, <1>9, <2>1, Zenon DEF Completes, Linked
<1>11. Linked(ts, all, v, K)
  <2>1. K \in 1..K
    BY Places, Zenon
  <2>2. all[K] = frames[K] /\ v[K] = w[K]
    BY <1>8, <1>9, <2>1
  <2> QED
    BY <1>6, <1>7, <1>8, <1>9, <2>2, Zenon DEF Linked
<1>12. \A k \in 1..((K + 1) - 1) : k = K \/ k \in 1..(K - 1)
  BY Places, Zenon
<1>13. Completes(ts, all, next2, n2, result, v)
  <2>1. Ends(ts, all[K + 1], next2, n2, v[K + 1].to, v[K + 1].is)
    BY <1>6, <1>7, <1>8, <1>9, Zenon
  <2>2. v[1].to = Len(ts) + 1 /\ v[1].is = result
    BY <1>2, <1>8, Zenon DEF Completes
  <2> QED
    BY <1>9, <1>10, <1>11, <1>12, <2>1, <2>2, Zenon DEF Completes
<1> QED
  BY <1>13, Zenon DEF Leads

\* and back: a frame that is closed is a value of the one around it.
LEMMA FrameLess ==
  ASSUME NEW ts, NEW frames, Len(frames) \in Nat \ {0}, NEW all, NEW g, OneAbove(frames, all, g),
         NEW left, SameBelow(frames, left), NEW next, NEW n, NEW next2, NEW n2, NEW result,
         \A m, is : EndsThrough(ts, frames[Len(frames)], g, next2, n2, m, is)
                      => Ends(ts, left[Len(frames)], next, n, m, is),
         Leads(ts, all, next2, n2, result)
  PROVE  Leads(ts, left, next, n, result)
<1>1. PICK K \in Nat \ {0} : K = Len(frames)
  OBVIOUS
<1>2. PICK w : Completes(ts, all, next2, n2, result, w)
  BY Zenon DEF Leads
<1>3. /\ Len(all) = K + 1 /\ all[K + 1] = g
      /\ \A k \in 1..K : all[k] = frames[k]
  BY <1>1, Zenon DEF OneAbove
<1>4. /\ K \in 1..K /\ K \in 1..((K + 1) - 1)
      /\ \A k \in 1..(K - 1) : k \in 1..K /\ k + 1 \in 1..K /\ k \in 1..((K + 1) - 1)
  BY Places, Zenon
<1>5. Linked(ts, all, w, K) /\ \A k \in 1..(K - 1) : Linked(ts, all, w, k)
  BY <1>2, <1>3, <1>4, Zenon DEF Completes
<1>6. Ends(ts, g, next2, n2, w[K + 1].to, w[K + 1].is)
  BY <1>2, <1>3, Zenon DEF Completes
<1>7. all[K] = frames[K]
  BY <1>3, <1>4
<1>8. EndsThrough(ts, frames[K], g, next2, n2, w[K].to, w[K].is)
  BY <1>3, <1>5, <1>6, <1>7, Zenon DEF Linked, EndsThrough
<1>9. Ends(ts, left[K], next, n, w[K].to, w[K].is)
  BY <1>1, <1>8, Zenon
<1>10. Len(left) = K /\ \A k \in 1..(K - 1) : left[k] = frames[k] /\ left[k + 1].kind = frames[k + 1].kind
  <2>1. AlikeBelow(frames, left, K)
    BY <1>1, SameKinds
  <2> QED
    BY <2>1, Zenon DEF AlikeBelow
<1>11. \A k \in 1..(K - 1) : Linked(ts, left, w, k)
  BY <1>3, <1>4, <1>5, <1>10, Zenon DEF Linked
<1>12. Completes(ts, left, next, n, result, w)
  BY <1>2, <1>9, <1>10, <1>11, Zenon DEF Completes
<1> QED
  BY <1>12, Zenon DEF Leads

\* The cases of Ends.
LEMMA EndsAs ==
  ASSUME NEW ts, NEW f, NEW n, NEW m, NEW is
  PROVE  /\ f.kind = "file" => (Ends(ts, f, "key", n, m, is) <=> RestEnds(ts, f, n, m, is))
         /\ f.kind # "file" => (Ends(ts, f, "key", n, m, is) <=> KeyEnds(ts, f, n, m, is))
         /\ Ends(ts, f, "colon", n, m, is) <=> ColonEnds(ts, f, n, m, is)
         /\ Ends(ts, f, "value", n, m, is) <=> ValueEnds(ts, f, n, m, is)
         /\ Ends(ts, f, "first", n, m, is) <=> FirstEnds(ts, f, n, m, is)
         /\ Ends(ts, f, "separator", n, m, is) <=> RestEnds(ts, f, n, m, is)
<1>1. f.kind = "file" => (Ends(ts, f, "key", n, m, is) <=> RestEnds(ts, f, n, m, is))
  BY DEF Ends
<1>2. f.kind # "file" => (Ends(ts, f, "key", n, m, is) <=> KeyEnds(ts, f, n, m, is))
  BY DEF Ends
<1>3. Ends(ts, f, "colon", n, m, is) <=> ColonEnds(ts, f, n, m, is)
  BY DEF Ends
<1>4. Ends(ts, f, "value", n, m, is) <=> ValueEnds(ts, f, n, m, is)
  BY DEF Ends
<1>5. Ends(ts, f, "first", n, m, is) <=> FirstEnds(ts, f, n, m, is)
  BY DEF Ends
<1>6. Ends(ts, f, "separator", n, m, is) <=> RestEnds(ts, f, n, m, is)
  BY DEF Ends
<1> QED
  BY <1>1, <1>2, <1>3, <1>4, <1>5, <1>6, Zenon

(* A token is at most one of a word, a bracket that opens and one that      *)
(* closes.                                                                  *)
LEMMA BracketIs ==
  ASSUME NEW token, NEW kind \in Bracketed
  PROVE  /\ IsText(token) => ~IsBracket(token, Opener(kind)) /\ ~IsBracket(token, Closer(kind))
         /\ IsBracket(token, Closer(kind)) => \A other \in Bracketed : ~IsBracket(token, Opener(other))
         /\ IsBracket(token, Opener(kind)) =>
              \A other \in Bracketed : IsBracket(token, Opener(other)) => other = kind
<1>1. \A a, b : <<a>> = <<b>> => a = b
  OBVIOUS
<1>2. Opener(kind) \in {"{", "["} /\ Closer(kind) \in {"}", "]"}
  BY DEF Opener, Closer
<1>3. \A other \in Bracketed : /\ Opener(other) \in {"{", "["}
                               /\ Opener(other) = Opener(kind) => other = kind
  BY DEF Opener, Bracketed
<1>4. IsText(token) => token.type # "bracket"
  BY DEF IsText
<1>5. "{" # "}" /\ "{" # "]" /\ "[" # "}" /\ "[" # "]"
  OBVIOUS
<1> QED
  BY <1>1, <1>2, <1>3, <1>4, <1>5, Zenon DEF IsBracket

\* No item begins with a token that does not.
LEMMA NoItem ==
  ASSUME NEW ts, Len(ts) \in Nat, NEW f, NEW n \in 1..(Len(ts) + 1), NEW m, NEW is
  PROVE  /\ n = Len(ts) + 1 \/ ~IsText(ts[n]) => ~KeyEnds(ts, f, n, m, is)
         /\ n = Len(ts) + 1 \/ ts[n].type # "colon" => ~ColonEnds(ts, f, n, m, is)
         /\ n = Len(ts) + 1 => ~ValueEnds(ts, f, n, m, is)
         /\ ~IsText(ts[n]) /\ (\A kind \in Bracketed : ~IsBracket(ts[n], Opener(kind)))
              => ~ValueEnds(ts, f, n, m, is)
<1>1. n = Len(ts) + 1 => n \notin 1..Len(ts) /\ ~(n <= Len(ts))
  OBVIOUS
<1>2. ~IsText(ts[n]) /\ (\A kind \in Bracketed : ~IsBracket(ts[n], Opener(kind)))
        => ~ValueEnds(ts, f, n, m, is)
  BY ValueSplit, Zenon DEF BracketsEnd
<1>3. n = Len(ts) + 1 => ~ValueEnds(ts, f, n, m, is)
  BY <1>1, ValueSplit, Zenon
<1> QED
  BY <1>1, <1>2, <1>3, Zenon DEF KeyEnds, ColonEnds

\* Taking a token leaves what the frame can end with: a key,
LEMMA KeyGoes ==
  ASSUME NEW ts, Len(ts) \in Nat, NEW f, FrameOK(f), f.kind \in Kinds,
         NEW n \in 1..Len(ts), IsText(ts[n]), NEW m, NEW is
  PROVE  /\ Ends(ts, Keyed(f, ts[n]), "colon", n + 1, m, is) => Ends(ts, f, "key", n, m, is)
         /\ Ends(ts, f, "key", n, m, is) /\ (f.kind = "file" => m = Len(ts) + 1)
              => Ends(ts, Keyed(f, ts[n]), "colon", n + 1, m, is)
<1>1. KeyEnds(ts, f, n, m, is) <=> ColonEnds(ts, Keyed(f, ts[n]), n + 1, m, is)
  BY Zenon DEF KeyEnds
<1>2. Ends(ts, Keyed(f, ts[n]), "colon", n + 1, m, is) <=> ColonEnds(ts, Keyed(f, ts[n]), n + 1, m, is)
  BY EndsAs
<1>3. CASE f.kind # "file"
  <2>1. Ends(ts, f, "key", n, m, is) <=> KeyEnds(ts, f, n, m, is)
    BY <1>3, EndsAs
  <2>2. Ends(ts, f, "key", n, m, is) <=> Ends(ts, Keyed(f, ts[n]), "colon", n + 1, m, is)
    BY <1>1, <1>2, <2>1, Zenon
  <2> QED
    BY <2>2, Zenon
<1>4. CASE f.kind = "file"
  <2>1. n \in 1..(Len(ts) + 1) /\ n # Len(ts) + 1
    OBVIOUS
  <2>2. RestEnds(ts, f, n, m, is) <=> (m = n /\ is = f.items) \/ GoesOn(ts, f, n, m, is)
    BY <2>1, RestSplit
  <2>3. GoesOn(ts, f, n, m, is) <=> KeyEnds(ts, f, n, m, is)
    BY <1>4 DEF GoesOn, ItemEnds
  <2>4. Ends(ts, f, "key", n, m, is) <=> RestEnds(ts, f, n, m, is)
    BY <1>4, EndsAs
  <2> QED
    BY <1>1, <1>2, <1>4, <2>1, <2>2, <2>3, <2>4, Zenon
<1> QED
  BY <1>3, <1>4

\* a colon,
LEMMA ColonGoes ==
  ASSUME NEW ts, NEW f, NEW n \in 1..Len(ts), ts[n].type = "colon", NEW m, NEW is
  PROVE  Ends(ts, f, "colon", n, m, is) <=> Ends(ts, f, "value", n + 1, m, is)
<1>1. Ends(ts, f, "colon", n, m, is) <=> ColonEnds(ts, f, n, m, is)
  BY EndsAs
<1>2. Ends(ts, f, "value", n + 1, m, is) <=> ValueEnds(ts, f, n + 1, m, is)
  BY EndsAs
<1> QED
  BY <1>1, <1>2, Zenon DEF ColonEnds

\* what is looked for behind an item,
LEMMA AfterItem ==
  ASSUME NEW ts, NEW f, FrameOK(f), NEW v, NEW n, NEW m, NEW is
  PROVE  Ends(ts, Pushed(f, v), AfterItemOf(f), n, m, is) <=> RestEnds(ts, Pushed(f, v), n, m, is)
<1>1. PICK g : g = Pushed(f, v)
  OBVIOUS
<1>2. g.kind = f.kind
  BY <1>1, PushedIs
<1>3. CASE f.kind = "file"
  <2>1. AfterItemOf(f) = "key"
    BY <1>3 DEF AfterItemOf
  <2>2. Ends(ts, g, "key", n, m, is) <=> RestEnds(ts, g, n, m, is)
    BY <1>2, <1>3, EndsAs
  <2> QED
    BY <1>1, <2>1, <2>2, Zenon
<1>4. CASE f.kind # "file"
  <2>1. AfterItemOf(f) = "separator"
    BY <1>4 DEF AfterItemOf
  <2>2. Ends(ts, g, "separator", n, m, is) <=> RestEnds(ts, g, n, m, is)
    BY EndsAs
  <2> QED
    BY <1>1, <2>1, <2>2, Zenon
<1> QED
  BY <1>3, <1>4

\* a value of one token,
LEMMA ScalarGoes ==
  ASSUME NEW ts, Len(ts) \in Nat, NEW f, FrameOK(f),
         NEW n \in 1..Len(ts), IsText(ts[n]), NEW m, NEW is
  PROVE  Ends(ts, f, "value", n, m, is)
           <=> Ends(ts, Pushed(f, ScalarOf(ts[n])), AfterItemOf(f), n + 1, m, is)
<1>1. ~BracketsEnd(ts, f, n, m, is)
  BY BracketIs, Zenon DEF BracketsEnd
<1>2. n \in 1..(Len(ts) + 1) /\ n <= Len(ts)
  OBVIOUS
<1>3. ValueEnds(ts, f, n, m, is) <=> RestEnds(ts, Pushed(f, ScalarOf(ts[n])), n + 1, m, is)
  BY <1>1, <1>2, ValueSplit, Zenon
<1>4. Ends(ts, f, "value", n, m, is) <=> ValueEnds(ts, f, n, m, is)
  BY EndsAs
<1> QED
  BY <1>3, <1>4, AfterItem, Zenon

\* a bracket that opens,
LEMMA OpenGoes ==
  ASSUME NEW ts, Len(ts) \in Nat, NEW f, NEW kind \in Bracketed,
         NEW n \in 1..Len(ts), IsBracket(ts[n], Opener(kind)), NEW m, NEW is
  PROVE  Ends(ts, f, "value", n, m, is) <=> EndsThrough(ts, f, Open(kind), "first", n + 1, m, is)
<1>1. n \in 1..(Len(ts) + 1) /\ n <= Len(ts)
  OBVIOUS
<1>2. ~IsText(ts[n])
  BY BracketIs
<1>3. ValueEnds(ts, f, n, m, is) <=> BracketsEnd(ts, f, n, m, is)
  BY <1>1, <1>2, ValueSplit, Zenon
<1>4. Ends(ts, f, "value", n, m, is) <=> ValueEnds(ts, f, n, m, is)
  BY EndsAs
<1>5. Open(kind).kind = kind
  BY OpenOK
<1>6. \A k, inner : Ends(ts, Open(kind), "first", n + 1, k, inner) <=> FirstEnds(ts, Open(kind), n + 1, k, inner)
  BY EndsAs
<1>7. \A other \in Bracketed : IsBracket(ts[n], Opener(other)) => other = kind
  BY BracketIs
<1>8. BracketsEnd(ts, f, n, m, is) => EndsThrough(ts, f, Open(kind), "first", n + 1, m, is)
  BY <1>5, <1>6, <1>7, Zenon DEF BracketsEnd, EndsThrough
<1>9. EndsThrough(ts, f, Open(kind), "first", n + 1, m, is) => BracketsEnd(ts, f, n, m, is)
  BY <1>5, <1>6, Zenon DEF BracketsEnd, EndsThrough
<1> QED
  BY <1>3, <1>4, <1>8, <1>9

\* Nothing but the frame's end is at a bracket that closes it.
LEMMA ClosedThere ==
  ASSUME NEW ts, Len(ts) \in Nat, NEW g, FrameOK(g), g.kind \in Bracketed,
         NEW next \in {"first", "separator"}, NEW n \in 1..Len(ts), IsBracket(ts[n], Closer(g.kind)),
         NEW m, NEW is
  PROVE  Ends(ts, g, next, n, m, is) <=> m = n /\ is = g.items
<1>1. n \in 1..(Len(ts) + 1) /\ g.kind \in Kinds /\ g.kind # "file"
  BY DEF Kinds, Bracketed
<1>2. ~IsText(ts[n]) /\ \A kind \in Bracketed : ~IsBracket(ts[n], Opener(kind))
  BY BracketIs
<1>3. ~ItemEnds(ts, g, n, m, is)
  BY <1>1, <1>2, NoItem, Zenon DEF ItemEnds
<1>4. FirstEnds(ts, g, n, m, is) <=> m = n /\ is = g.items
  BY <1>3, Zenon DEF FirstEnds
<1>5. RestEnds(ts, g, n, m, is) <=> m = n /\ is = g.items
  BY <1>1, RestSplit, Zenon DEF GoesOn
<1>6. CASE next = "first"
  BY <1>4, <1>6, EndsAs
<1>7. CASE next = "separator"
  BY <1>5, <1>7, EndsAs
<1> QED
  BY <1>6, <1>7

\* and one that closes.
LEMMA CloseGoes ==
  ASSUME NEW ts, Len(ts) \in Nat, NEW f, FrameOK(f), NEW g, FrameOK(g), g.kind \in Bracketed,
         NEW next \in {"first", "separator"}, NEW n \in 1..Len(ts), IsBracket(ts[n], Closer(g.kind)),
         NEW m, NEW is
  PROVE  EndsThrough(ts, f, g, next, n, m, is)
           <=> Ends(ts, Pushed(f, Compound(g.kind, g.items)), AfterItemOf(f), n + 1, m, is)
<1>1. \A k, inner : Ends(ts, g, next, n, k, inner) <=> k = n /\ inner = g.items
  BY ClosedThere
<1>2. EndsThrough(ts, f, g, next, n, m, is) <=> RestEnds(ts, Pushed(f, Compound(g.kind, g.items)), n + 1, m, is)
  BY <1>1, Zenon DEF EndsThrough
<1> QED
  BY <1>2, AfterItem, Zenon

\* What an item begins with, by the kind of its frame.
LEMMA ItemNext ==
  ASSUME NEW ts, NEW f, f.kind \in Bracketed, NEW n, NEW m, NEW is
  PROVE  Ends(ts, f, ItemOf(f), n, m, is) <=> ItemEnds(ts, f, n, m, is)
<1>1. CASE f.kind = "list"
  <2>1. ItemOf(f) = "value"
    BY <1>1 DEF ItemOf
  <2>2. ItemEnds(ts, f, n, m, is) <=> ValueEnds(ts, f, n, m, is)
    BY <1>1, Zenon DEF ItemEnds
  <2> QED
    BY <2>1, <2>2, EndsAs
<1>2. CASE f.kind # "list"
  <2>1. ItemOf(f) = "key" /\ f.kind # "file"
    BY <1>2 DEF ItemOf, Bracketed
  <2>2. ItemEnds(ts, f, n, m, is) <=> KeyEnds(ts, f, n, m, is)
    BY <1>2, Zenon DEF ItemEnds
  <2> QED
    BY <2>1, <2>2, EndsAs
<1> QED
  BY <1>1, <1>2

\* Where the first item may be, one is or none.
LEMMA FirstGoes ==
  ASSUME NEW ts, NEW f, f.kind \in Bracketed, NEW n, NEW m, NEW is
  PROVE  /\ Ends(ts, f, ItemOf(f), n, m, is) => Ends(ts, f, "first", n, m, is)
         /\ Ends(ts, f, "first", n, m, is) /\ m # n => Ends(ts, f, ItemOf(f), n, m, is)
<1>1. Ends(ts, f, "first", n, m, is) <=> FirstEnds(ts, f, n, m, is)
  BY EndsAs
<1> QED
  BY <1>1, ItemNext, Zenon DEF FirstEnds

\* Where a separator may be, one item is behind it or there are no more.
LEMMA SeparatorGoes ==
  ASSUME NEW ts, Len(ts) \in Nat, NEW f, FrameOK(f), f.kind \in Bracketed,
         NEW n \in 1..(Len(ts) + 1), NEW m, NEW is
  PROVE  /\ n <= Len(ts) /\ ~IsBracket(ts[n], Closer(f.kind)) /\ Ends(ts, f, ItemOf(f), n + 1, m, is)
              => Ends(ts, f, "separator", n, m, is)
         /\ Ends(ts, f, "separator", n, m, is) /\ m # n
              => n <= Len(ts) /\ Ends(ts, f, ItemOf(f), n + 1, m, is)
<1>1. Ends(ts, f, "separator", n, m, is) <=> RestEnds(ts, f, n, m, is)
  BY EndsAs
<1>2. f.kind \in Kinds /\ f.kind # "file"
  BY DEF Kinds, Bracketed
<1>3. RestEnds(ts, f, n, m, is) <=> (m = n /\ is = f.items) \/ GoesOn(ts, f, n, m, is)
  BY <1>2, RestSplit
<1>4. Ends(ts, f, ItemOf(f), n + 1, m, is) <=> ItemEnds(ts, f, n + 1, m, is)
  BY ItemNext
<1>5. n <= Len(ts) /\ ~IsBracket(ts[n], Closer(f.kind)) /\ ItemEnds(ts, f, n + 1, m, is)
        => GoesOn(ts, f, n, m, is)
  BY <1>2, Zenon DEF GoesOn
<1>6. GoesOn(ts, f, n, m, is) => n <= Len(ts) /\ ItemEnds(ts, f, n + 1, m, is)
  BY <1>2, Zenon DEF GoesOn
<1> QED
  BY <1>1, <1>3, <1>4, <1>5, <1>6, Zenon

\* The innermost frame, and when it is that of the file.
LEMMA TopIs ==
  ASSUME NEW frames, StackOK(frames)
  PROVE  /\ Len(frames) \in Nat \ {0} /\ FrameOK(frames[Len(frames)])
         /\ frames[Len(frames)].kind \in Kinds
         /\ frames[Len(frames)].kind = "file" <=> Len(frames) = 1
         /\ Len(frames) >= 2 <=> frames[Len(frames)].kind \in Bracketed
<1>1. PICK K \in Nat \ {0} : K = Len(frames)
  BY DEF StackOK
<1>2. PICK f : f = frames[K]
  OBVIOUS
<1>3. K \in 1..K /\ (K # 1 => K \in 2..K) /\ (K # 1 <=> K >= 2)
  OBVIOUS
<1>4. FrameOK(f)
  BY <1>1, <1>2, <1>3, Zenon DEF StackOK
<1>5. K = 1 => f.kind = "file"
  BY <1>1, <1>2, Zenon DEF StackOK
<1>6. K # 1 => f.kind \in Bracketed
  BY <1>1, <1>2, <1>3, Zenon DEF StackOK
<1>7. f.kind \in Bracketed => f.kind # "file" /\ f.kind \in Kinds
  BY DEF Bracketed, Kinds
<1>8. f.kind = "file" => f.kind \in Kinds
  BY DEF Kinds
<1>9. /\ K \in Nat \ {0} /\ FrameOK(f) /\ f.kind \in Kinds
      /\ f.kind = "file" <=> K = 1
      /\ K >= 2 <=> f.kind \in Bracketed
  BY <1>3, <1>4, <1>5, <1>6, <1>7, <1>8
<1> QED
  BY <1>1, <1>2, <1>9, Zenon

\* What can be completed at one point of the parser can be at another.
Onward(ts, frames, next, n, frames2, next2, n2) ==
  \A result : Leads(ts, frames, next, n, result) => Leads(ts, frames2, next2, n2, result)
BothWays(ts, frames, next, n, frames2, next2, n2) ==
  /\ Onward(ts, frames, next, n, frames2, next2, n2)
  /\ Onward(ts, frames2, next2, n2, frames, next, n)

\* What the innermost frame can end with, before and after.
TopEnds(ts, frames, f, next, n, g, next2, n2) ==
  \A m, is : CanEnd(ts, frames, m) /\ Ends(ts, f, next, n, m, is) => Ends(ts, g, next2, n2, m, is)

\* Changes of the innermost frame keep what can be completed.
LEMMA TopLeads ==
  ASSUME NEW ts, NEW frames, Len(frames) \in Nat \ {0}, NEW all, SameBelow(frames, all),
         NEW next, NEW n, NEW next2, NEW n2,
         TopEnds(ts, frames, frames[Len(frames)], next, n, all[Len(frames)], next2, n2)
  PROVE  Onward(ts, frames, next, n, all, next2, n2)
BY TopChanges, Zenon DEF TopEnds, Onward

\* Stacks that differ in one frame only do so both ways,
LEMMA BelowBoth ==
  ASSUME NEW frames, NEW all, SameBelow(frames, all)
  PROVE  SameBelow(all, frames)
BY Zenon DEF SameBelow

\* and none differs from itself.
LEMMA SelfBelow ==
  ASSUME NEW frames
  PROVE  SameBelow(frames, frames)
BY Zenon DEF SameBelow

\* A frame can end with what one above it can.
ThroughEnds(ts, f, next, n, top, g, next2, n2) ==
  \A m, is : Ends(ts, f, next, n, m, is) <=> EndsThrough(ts, top, g, next2, n2, m, is)

\* One frame more, in both directions.
LEMMA FrameBoth ==
  ASSUME NEW ts, NEW frames, Len(frames) \in Nat \ {0}, NEW all, NEW g, OneAbove(frames, all, g),
         NEW left, SameBelow(frames, left), NEW next, NEW n, NEW next2, NEW n2,
         ThroughEnds(ts, left[Len(frames)], next, n, frames[Len(frames)], g, next2, n2)
  PROVE  BothWays(ts, left, next, n, all, next2, n2)
<1>1. ASSUME NEW result, Leads(ts, left, next, n, result)
      PROVE  Leads(ts, all, next2, n2, result)
  BY <1>1, FrameMore, Zenon DEF ThroughEnds
<1>2. ASSUME NEW result, Leads(ts, all, next2, n2, result)
      PROVE  Leads(ts, left, next, n, result)
  <2>1. \A m, is : EndsThrough(ts, frames[Len(frames)], g, next2, n2, m, is)
                     => Ends(ts, left[Len(frames)], next, n, m, is)
    BY Zenon DEF ThroughEnds
  <2> QED
    BY <1>2, <2>1, FrameLess
<1> QED
  BY <1>1, <1>2, Zenon DEF BothWays, Onward

(* With each token that is taken what completes the file stays the same: a  *)
(* key,                                                                     *)
LEMMA KeyLeads ==
  ASSUME NEW ts, Len(ts) \in Nat, NEW frames, StackOK(frames), NEW n \in 1..Len(ts), IsText(ts[n]),
         NEW all, SameBelow(frames, all), all[Len(frames)] = Keyed(frames[Len(frames)], ts[n])
  PROVE  BothWays(ts, frames, "key", n, all, "colon", n + 1)
<1>1. PICK K \in Nat \ {0} : K = Len(frames)
  BY TopIs
<1>2. PICK f : f = frames[K] /\ FrameOK(f) /\ f.kind \in Kinds /\ (f.kind = "file" => K = 1)
  BY <1>1, TopIs
<1>3. Len(all) = K
  BY <1>1 DEF SameBelow
<1>4. \A m, is : /\ Ends(ts, Keyed(f, ts[n]), "colon", n + 1, m, is) => Ends(ts, f, "key", n, m, is)
                 /\ Ends(ts, f, "key", n, m, is) /\ (f.kind = "file" => m = Len(ts) + 1)
                      => Ends(ts, Keyed(f, ts[n]), "colon", n + 1, m, is)
  BY <1>2, KeyGoes
<1>5. TopEnds(ts, all, all[K], "colon", n + 1, frames[K], "key", n)
  BY <1>1, <1>2, <1>4, Zenon DEF TopEnds
<1>6. \A m : CanEnd(ts, frames, m) => (f.kind = "file" => m = Len(ts) + 1)
  BY <1>1, <1>2, Zenon DEF CanEnd
<1>7. TopEnds(ts, frames, frames[K], "key", n, all[K], "colon", n + 1)
  BY <1>1, <1>2, <1>4, <1>6, Zenon DEF TopEnds
<1>8. Onward(ts, frames, "key", n, all, "colon", n + 1)
  BY <1>1, <1>7, TopLeads
<1>9. Onward(ts, all, "colon", n + 1, frames, "key", n)
  BY <1>1, <1>3, <1>5, TopLeads, BelowBoth
<1> QED
  BY <1>8, <1>9, Zenon DEF BothWays

\* a colon,
LEMMA ColonLeads ==
  ASSUME NEW ts, NEW frames, StackOK(frames), NEW n \in 1..Len(ts), ts[n].type = "colon"
  PROVE  BothWays(ts, frames, "colon", n, frames, "value", n + 1)
<1>1. Len(frames) \in Nat \ {0} /\ SameBelow(frames, frames)
  BY TopIs, SelfBelow
<1>2. /\ TopEnds(ts, frames, frames[Len(frames)], "colon", n, frames[Len(frames)], "value", n + 1)
      /\ TopEnds(ts, frames, frames[Len(frames)], "value", n + 1, frames[Len(frames)], "colon", n)
  BY ColonGoes, Zenon DEF TopEnds
<1> QED
  BY <1>1, <1>2, TopLeads, Zenon DEF BothWays

\* a value of one token,
LEMMA ScalarLeads ==
  ASSUME NEW ts, Len(ts) \in Nat, NEW frames, StackOK(frames), NEW n \in 1..Len(ts), IsText(ts[n]),
         NEW all, SameBelow(frames, all),
         all[Len(frames)] = Pushed(frames[Len(frames)], ScalarOf(ts[n]))
  PROVE  BothWays(ts, frames, "value", n, all, AfterItemOf(frames[Len(frames)]), n + 1)
<1>1. PICK K \in Nat \ {0} : K = Len(frames)
  BY TopIs
<1>2. PICK f : f = frames[K] /\ FrameOK(f)
  BY <1>1, TopIs
<1>3. Len(all) = K
  BY <1>1 DEF SameBelow
<1>4. PICK g : g = Pushed(f, ScalarOf(ts[n])) /\ all[K] = g
  BY <1>1, <1>2
<1>5. PICK next2 : next2 = AfterItemOf(f)
  OBVIOUS
<1>6. \A m, is : Ends(ts, f, "value", n, m, is) <=> Ends(ts, g, next2, n + 1, m, is)
  BY <1>2, <1>4, <1>5, ScalarGoes, Zenon
<1>7. /\ TopEnds(ts, frames, frames[K], "value", n, all[K], next2, n + 1)
      /\ TopEnds(ts, all, all[K], next2, n + 1, frames[K], "value", n)
  BY <1>2, <1>4, <1>6, Zenon DEF TopEnds
<1>8. Onward(ts, frames, "value", n, all, next2, n + 1)
  BY <1>1, <1>7, TopLeads
<1>9. Onward(ts, all, next2, n + 1, frames, "value", n)
  BY <1>1, <1>3, <1>7, TopLeads, BelowBoth
<1> QED
  BY <1>1, <1>2, <1>5, <1>8, <1>9, Zenon DEF BothWays

\* a bracket that opens,
LEMMA OpenLeads ==
  ASSUME NEW ts, Len(ts) \in Nat, NEW frames, StackOK(frames), NEW kind \in Bracketed,
         NEW n \in 1..Len(ts), IsBracket(ts[n], Opener(kind)), NEW all, OneAbove(frames, all, Open(kind))
  PROVE  BothWays(ts, frames, "value", n, all, "first", n + 1)
<1>1. Len(frames) \in Nat \ {0} /\ SameBelow(frames, frames)
  BY TopIs, SelfBelow
<1>2. ThroughEnds(ts, frames[Len(frames)], "value", n, frames[Len(frames)], Open(kind), "first", n + 1)
  BY OpenGoes, Zenon DEF ThroughEnds
<1> QED
  BY <1>1, <1>2, FrameBoth, Zenon

\* one that closes,
LEMMA CloseLeads ==
  ASSUME NEW ts, Len(ts) \in Nat, NEW frames, StackOK(frames), NEW all, NEW g, OneAbove(frames, all, g),
         FrameOK(g), g.kind \in Bracketed, NEW next \in {"first", "separator"},
         NEW n \in 1..Len(ts), IsBracket(ts[n], Closer(g.kind)), NEW left, SameBelow(frames, left),
         left[Len(frames)] = Pushed(frames[Len(frames)], Compound(g.kind, g.items))
  PROVE  BothWays(ts, left, AfterItemOf(frames[Len(frames)]), n + 1, all, next, n)
<1>1. PICK K \in Nat \ {0} : K = Len(frames)
  BY TopIs
<1>2. PICK f : f = frames[K] /\ FrameOK(f)
  BY <1>1, TopIs
<1>3. PICK h : h = Pushed(f, Compound(g.kind, g.items)) /\ left[K] = h
  BY <1>1, <1>2
<1>4. PICK next2 : next2 = AfterItemOf(f)
  OBVIOUS
<1>5. \A m, is : EndsThrough(ts, f, g, next, n, m, is) <=> Ends(ts, h, next2, n + 1, m, is)
  BY <1>2, <1>3, <1>4, CloseGoes, Zenon
<1>6. ThroughEnds(ts, left[K], next2, n + 1, frames[K], g, next, n)
  BY <1>2, <1>3, <1>5, Zenon DEF ThroughEnds
<1>7. BothWays(ts, left, next2, n + 1, all, next, n)
  BY <1>1, <1>6, FrameBoth, Zenon
<1> QED
  BY <1>1, <1>2, <1>4, <1>7, Zenon

\* the choice between an item and none,
LEMMA FirstLeads ==
  ASSUME NEW ts, NEW frames, StackOK(frames), Len(frames) >= 2, NEW n
  PROVE  /\ Onward(ts, frames, ItemOf(frames[Len(frames)]), n, frames, "first", n)
         /\ ~(n \in 1..Len(ts) /\ IsBracket(ts[n], Closer(frames[Len(frames)].kind)))
              => Onward(ts, frames, "first", n, frames, ItemOf(frames[Len(frames)]), n)
<1>1. PICK K \in Nat \ {0} : K = Len(frames) /\ K # 1
  BY TopIs
<1>2. PICK f : f = frames[K] /\ f.kind \in Bracketed
  BY <1>1, TopIs
<1>3. PICK next : next = ItemOf(f)
  OBVIOUS
<1>4. \A m, is : /\ Ends(ts, f, next, n, m, is) => Ends(ts, f, "first", n, m, is)
                 /\ Ends(ts, f, "first", n, m, is) /\ m # n => Ends(ts, f, next, n, m, is)
  BY <1>2, <1>3, FirstGoes, Zenon
<1>5. TopEnds(ts, frames, f, next, n, f, "first", n)
  BY <1>4, Zenon DEF TopEnds
<1>6. ASSUME ~(n \in 1..Len(ts) /\ IsBracket(ts[n], Closer(f.kind)))
      PROVE  TopEnds(ts, frames, f, "first", n, f, next, n)
  <2>1. \A m : CanEnd(ts, frames, m) => m # n
    BY <1>1, <1>2, <1>6, Zenon DEF CanEnd
  <2> QED
    BY <1>4, <2>1, Zenon DEF TopEnds
<1>7. SameBelow(frames, frames)
  BY SelfBelow
<1>8. Onward(ts, frames, next, n, frames, "first", n)
  BY <1>1, <1>2, <1>5, <1>7, TopLeads, Zenon
<1>9. ASSUME ~(n \in 1..Len(ts) /\ IsBracket(ts[n], Closer(f.kind)))
      PROVE  Onward(ts, frames, "first", n, frames, next, n)
  BY <1>1, <1>2, <1>6, <1>7, <1>9, TopLeads, Zenon
<1> QED
  BY <1>1, <1>2, <1>3, <1>8, <1>9, Zenon

\* and a separator.
LEMMA SeparatorLeads ==
  ASSUME NEW ts, Len(ts) \in Nat, NEW frames, StackOK(frames), Len(frames) >= 2, NEW n \in 1..Len(ts),
         ~IsBracket(ts[n], Closer(frames[Len(frames)].kind))
  PROVE  BothWays(ts, frames, "separator", n, frames, ItemOf(frames[Len(frames)]), n + 1)
<1>1. PICK K \in Nat \ {0} : K = Len(frames) /\ K # 1
  BY TopIs
<1>2. PICK f : f = frames[K] /\ FrameOK(f) /\ f.kind \in Bracketed
  BY <1>1, TopIs
<1>3. PICK next : next = ItemOf(f)
  OBVIOUS
<1>4. n <= Len(ts) /\ n \in 1..(Len(ts) + 1)
  OBVIOUS
<1>5. \A m, is : /\ Ends(ts, f, next, n + 1, m, is) => Ends(ts, f, "separator", n, m, is)
                 /\ Ends(ts, f, "separator", n, m, is) /\ m # n => Ends(ts, f, next, n + 1, m, is)
  BY <1>1, <1>2, <1>3, <1>4, SeparatorGoes, Zenon
<1>6. TopEnds(ts, frames, f, next, n + 1, f, "separator", n)
  BY <1>5, Zenon DEF TopEnds
<1>7. TopEnds(ts, frames, f, "separator", n, f, next, n + 1)
  <2>1. \A m : CanEnd(ts, frames, m) => m # n
    BY <1>1, <1>2, Zenon DEF CanEnd
  <2> QED
    BY <1>5, <2>1, Zenon DEF TopEnds
<1>8. SameBelow(frames, frames)
  BY SelfBelow
<1>9. Onward(ts, frames, next, n + 1, frames, "separator", n)
  BY <1>1, <1>2, <1>6, <1>8, TopLeads, Zenon
<1>10. Onward(ts, frames, "separator", n, frames, next, n + 1)
  BY <1>1, <1>2, <1>7, <1>8, TopLeads, Zenon
<1> QED
  BY <1>1, <1>2, <1>3, <1>9, <1>10, Zenon DEF BothWays

\* The token, or the end, is not what is looked for.
CannotBe(ts, frames, next, n) ==
  \/ /\ next = "key" /\ (n = Len(ts) + 1 \/ ~IsText(ts[n]))
     /\ ~(Len(frames) = 1 /\ n = Len(ts) + 1)
  \/ next = "colon" /\ (n = Len(ts) + 1 \/ ts[n].type # "colon")
  \/ /\ next = "value"
     /\ n = Len(ts) + 1 \/ (~IsText(ts[n]) /\ \A kind \in Bracketed : ~IsBracket(ts[n], Opener(kind)))
  \/ next = "separator" /\ n = Len(ts) + 1 /\ Len(frames) >= 2

\* Where the parser stops, nothing completes the file.
LEMMA NoneLeads ==
  ASSUME NEW ts, Len(ts) \in Nat, NEW frames, StackOK(frames), NEW next, NEW n \in 1..(Len(ts) + 1), NEW result,
         CannotBe(ts, frames, next, n)
  PROVE  ~Leads(ts, frames, next, n, result)
<1> SUFFICES ASSUME NEW w, Completes(ts, frames, next, n, result, w)
             PROVE  FALSE
  BY Zenon DEF Leads
<1>1. PICK K \in Nat \ {0} : K = Len(frames)
  BY TopIs
<1>2. PICK f : /\ f = frames[K] /\ FrameOK(f) /\ f.kind \in Kinds
               /\ (f.kind = "file" <=> K = 1) /\ (K >= 2 <=> f.kind \in Bracketed)
  BY <1>1, TopIs
<1>3. PICK m : m = w[K].to
  OBVIOUS
<1>4. PICK is : is = w[K].is
  OBVIOUS
<1>5. Ends(ts, f, next, n, m, is) /\ CanEnd(ts, frames, m)
  BY <1>1, <1>2, <1>3, <1>4, EndsWhere, Zenon DEF Completes
<1>6. CASE next = "key" /\ (n = Len(ts) + 1 \/ ~IsText(ts[n])) /\ ~(K = 1 /\ n = Len(ts) + 1)
  <2>1. ~KeyEnds(ts, f, n, m, is)
    BY <1>6, NoItem, Zenon
  <2>2. CASE f.kind # "file"
    BY <1>5, <1>6, <2>1, <2>2, EndsAs, Zenon
  <2>3. CASE f.kind = "file"
    <3>1. RestEnds(ts, f, n, m, is)
      BY <1>5, <1>6, <2>3, EndsAs, Zenon
    <3>2. ~GoesOn(ts, f, n, m, is)
      BY <2>1, <2>3 DEF GoesOn, ItemEnds
    <3>3. m = n
      BY <1>2, <3>1, <3>2, RestSplit, Zenon
    <3>4. m = Len(ts) + 1
      BY <1>1, <1>2, <1>5, <2>3, Zenon DEF CanEnd
    <3> QED
      BY <1>2, <1>6, <2>3, <3>3, <3>4, Zenon
  <2> QED
    BY <2>2, <2>3
<1>7. CASE next = "colon" /\ (n = Len(ts) + 1 \/ ts[n].type # "colon")
  <2>1. ~ColonEnds(ts, f, n, m, is)
    BY <1>7, NoItem, Zenon
  <2>2. ColonEnds(ts, f, n, m, is)
    BY <1>5, <1>7, EndsAs
  <2> QED
    BY <2>1, <2>2
<1>8. CASE next = "value" /\ (n = Len(ts) + 1 \/ (~IsText(ts[n]) /\ \A kind \in Bracketed : ~IsBracket(ts[n], Opener(kind))))
  <2>1. ~ValueEnds(ts, f, n, m, is)
    BY <1>8, NoItem, Zenon
  <2>2. ValueEnds(ts, f, n, m, is)
    BY <1>5, <1>8, EndsAs
  <2> QED
    BY <2>1, <2>2
<1>9. CASE next = "separator" /\ n = Len(ts) + 1 /\ K >= 2
  <2>1. RestEnds(ts, f, n, m, is)
    BY <1>5, <1>9, EndsAs, Zenon
  <2>2. ~(n <= Len(ts)) /\ ~(n \in 1..Len(ts)) /\ K # 1
    BY <1>9
  <2>3. ~GoesOn(ts, f, n, m, is)
    BY <1>2, <2>2, Zenon DEF GoesOn
  <2>4. m = n
    BY <1>2, <2>1, <2>3, RestSplit, Zenon
  <2>5. m \in 1..Len(ts)
    BY <1>1, <1>5, <2>2, Zenon DEF CanEnd
  <2> QED
    BY <2>2, <2>4, <2>5, Zenon
<1>10. \/ next = "key" /\ (n = Len(ts) + 1 \/ ~IsText(ts[n])) /\ ~(K = 1 /\ n = Len(ts) + 1)
       \/ next = "colon" /\ (n = Len(ts) + 1 \/ ts[n].type # "colon")
       \/ next = "value" /\ (n = Len(ts) + 1 \/ (~IsText(ts[n]) /\ \A kind \in Bracketed : ~IsBracket(ts[n], Opener(kind))))
       \/ next = "separator" /\ n = Len(ts) + 1 /\ K >= 2
  BY <1>1, Zenon DEF CannotBe
<1> QED
  BY <1>6, <1>7, <1>8, <1>9, <1>10

\* The length of a sequence is a number.
LEMMA SeqLen ==
  ASSUME NEW ts, IsSeq(ts)
  PROVE  Len(ts) \in Nat
BY LenProperties DEF IsSeq

\* A reading of the file is all that follows the first place.
LEMMA FileIs ==
  ASSUME NEW ts, Len(ts) \in Nat, NEW result
  PROVE  result \in File(ts) <=> Rest(ts, "file", 1, Len(ts) + 1, result)
<1>1. PICK end : end = Len(ts) + 1
  OBVIOUS
<1>2. PICK r : r = Readings(ts)
  OBVIOUS
<1>3. PICK x : x = Reading("file", 1, Part(end, result))
  OBVIOUS
<1>4. x.what = "file" /\ x.from = 1 /\ x.to = end /\ x.is = result
  BY <1>3 DEF Reading, Part
<1>5. result \in File(ts) <=> \E y \in r : y.what = "file" /\ y.from = 1 /\ y.to = end /\ y.is = result
  <2>1. PICK S : S = {y \in {z \in r : z.what = "file" /\ z.from = 1} : y.to = end}
    OBVIOUS
  <2>2. File(ts) = {y.is : y \in S}
    BY <1>1, <1>2, <2>1, Zenon DEF File, ReadAt
  <2>3. \A y : y \in S <=> y \in r /\ y.what = "file" /\ y.from = 1 /\ y.to = end
    BY <2>1
  <2> QED
    BY <2>2, <2>3
<1>6. \A y \in r : y.what = "file" /\ y.from = 1 /\ y.to = end /\ y.is = result => y = x
  <2> SUFFICES ASSUME NEW y \in r, y.what = "file" /\ y.from = 1 /\ y.to = end /\ y.is = result
               PROVE  y = x
    OBVIOUS
  <2>1. WellRead(ts, y)
    BY <1>2, ReadingsWell
  <2> QED
    BY <1>3, <2>1, Zenon DEF WellRead
<1>7. result \in File(ts) <=> x \in r
  BY <1>4, <1>5, <1>6, Zenon
<1> QED
  BY <1>1, <1>2, <1>3, <1>7, Zenon DEF Rest

\* At the beginning what completes the file is its readings,
LEMMA StartLeads ==
  ASSUME NEW ts, Len(ts) \in Nat, NEW frames, Len(frames) = 1, frames[1] = Open("file"), NEW result
  PROVE  Leads(ts, frames, "key", 1, result) <=> result \in File(ts)
<1>1. PICK f : f = Open("file") /\ f.kind = "file" /\ f.items = <<>>
  BY DEF Open
<1>2. \A m, is : Ends(ts, f, "key", 1, m, is) <=> RestEnds(ts, f, 1, m, is)
  BY <1>1, EndsAs
<1>3. \A m, is : RestEnds(ts, f, 1, m, is) <=> Rest(ts, "file", 1, m, is)
  <2>1. \A m, t : Rest(ts, "file", 1, m, t) => <<>> \o t = t
    BY RestType, NothingMore
  <2> QED
    BY <1>1, <2>1, Zenon DEF RestEnds
<1>4. ASSUME Leads(ts, frames, "key", 1, result)
      PROVE  result \in File(ts)
  <2>1. PICK w : Completes(ts, frames, "key", 1, result, w)
    BY <1>4, Zenon DEF Leads
  <2>2. Ends(ts, f, "key", 1, w[1].to, w[1].is) /\ w[1].to = Len(ts) + 1 /\ w[1].is = result
    BY <1>1, <2>1, Zenon DEF Completes
  <2>3. Rest(ts, "file", 1, Len(ts) + 1, result)
    BY <1>2, <1>3, <2>2, Zenon
  <2> QED
    BY <2>3, FileIs
<1>5. ASSUME result \in File(ts)
      PROVE  Leads(ts, frames, "key", 1, result)
  <2>1. Ends(ts, f, "key", 1, Len(ts) + 1, result)
    BY <1>2, <1>3, <1>5, FileIs, Zenon
  <2>2. PICK w : w = <<Part(Len(ts) + 1, result)>>
    OBVIOUS
  <2>3. w[1].to = Len(ts) + 1 /\ w[1].is = result
    <3>1. w[1] = Part(Len(ts) + 1, result)
      BY <2>2
    <3> QED
      BY <3>1 DEF Part
  <2>4. \A k \in 1..(1 - 1) : FALSE
    OBVIOUS
  <2>5. Completes(ts, frames, "key", 1, result, w)
    BY <1>1, <2>1, <2>3, <2>4, Zenon DEF Completes
  <2> QED
    BY <2>5, Zenon DEF Leads
<1> QED
  BY <1>4, <1>5

\* and at the end, with nothing open, the items that were read.
LEMMA EndLeads ==
  ASSUME NEW ts, Len(ts) \in Nat, NEW frames, StackOK(frames), Len(frames) = 1, NEW result
  PROVE  Leads(ts, frames, "key", Len(ts) + 1, result) <=> result = frames[1].items
<1>1. PICK n \in 1..(Len(ts) + 1) : n = Len(ts) + 1
  OBVIOUS
<1>2. PICK f : f = frames[1] /\ FrameOK(f) /\ f.kind = "file" /\ f.kind \in Kinds
  BY TopIs
<1>3. \A m, is : Ends(ts, f, "key", n, m, is) <=> RestEnds(ts, f, n, m, is)
  BY <1>2, EndsAs
<1>4. \A m, is : ~GoesOn(ts, f, n, m, is)
  <2>1. \A m, is : ~KeyEnds(ts, f, n, m, is)
    BY <1>1, NoItem
  <2> QED
    BY <1>2, <2>1 DEF GoesOn, ItemEnds
<1>5. \A m, is : RestEnds(ts, f, n, m, is) <=> m = n /\ is = f.items
  BY <1>2, <1>4, RestSplit, Zenon
<1>6. ASSUME Leads(ts, frames, "key", n, result)
      PROVE  result = f.items
  <2>1. PICK w : Completes(ts, frames, "key", n, result, w)
    BY <1>6, Zenon DEF Leads
  <2>2. Ends(ts, f, "key", n, w[1].to, w[1].is) /\ w[1].is = result
    BY <1>2, <2>1, Zenon DEF Completes
  <2> QED
    BY <1>3, <1>5, <2>2, Zenon
<1>7. ASSUME result = f.items
      PROVE  Leads(ts, frames, "key", n, result)
  <2>1. Ends(ts, f, "key", n, n, result)
    BY <1>3, <1>5, <1>7, Zenon
  <2>2. PICK w : w = <<Part(n, result)>>
    OBVIOUS
  <2>3. w[1].to = n /\ w[1].is = result
    <3>1. w[1] = Part(n, result)
      BY <2>2
    <3> QED
      BY <3>1 DEF Part
  <2>4. \A k \in 1..(1 - 1) : FALSE
    OBVIOUS
  <2>5. Completes(ts, frames, "key", n, result, w)
    BY <1>1, <1>2, <2>1, <2>3, <2>4, Zenon DEF Completes
  <2> QED
    BY <2>5, Zenon DEF Leads
<1> QED
  BY <1>1, <1>2, <1>6, <1>7, Zenon

(* -- The parser and the grammar ---------------------------------------------- *)

\* Another sequence of tokens, as long, that begins as one does.
Agrees(ts, all, n) == IsSeq(ts) /\ Len(ts) >= n /\ \A m \in 1..n : ts[m] = all[m]

(* Whatever follows what has been read, what completes it from where the     *)
(* parser is is a reading of the file.                                       *)
Sound(all, n, frames, next) ==
  \A ts : Agrees(ts, all, n - 1) =>
    \A result : Leads(ts, frames, next, n, result) => result \in File(ts)

\* So it is at the end of the file, if a separator were there.
Comma == Mark("comma", ",")
SoundPast(all, n, frames, next) ==
  \A ts : Agrees(ts, all, n - 1) /\ Len(ts) >= n /\ ts[n] = Comma =>
    \A result : Leads(ts, frames, next, n + 1, result) => result \in File(ts)

\* Each reading of the file is what the parser can complete.
Complete(ts, n, frames, next) == \A result \in File(ts) : Leads(ts, frames, next, n, result)

(* The file ends where a separator may be: the parser has put its index back*)
(* and looks for the next item there, which no file has at that place, but  *)
(* behind a separator.                                                      *)
IsStuck == /\ AtEnd /\ Len(stack) >= 2 /\ expect = ItemOf(Top)
           /\ SoundPast(tokens, j, stack, expect)

(* What has been read is sound and misses no reading.  It is an invariant,  *)
(* where what a user relies on is not: that says nothing of a file half     *)
(* read.                                                                    *)
GrammarInv ==
  /\ pc \in {"parse", "syntax error"} => Sound(tokens, j, stack, expect) \/ IsStuck
  /\ pc = "parse" => Complete(Parsed, j, stack, expect)
  /\ pc = "handle" => File(Parsed) = {stack[1].items}
  /\ pc = "syntax error" => File(Parsed) = {}

\* Until the tokens are there, the parser is where it begins.
Untouched == pc \in {"load", "scan"} => j = 1 /\ stack = <<Open("file")>> /\ expect = "key"

\* Only the last token is the end.
LEMMA LastIsEnd ==
  ASSUME ScanInv, IsScanned
  PROVE  /\ IsSeq(tokens) /\ Len(tokens) \in Nat \ {0}
         /\ \A n \in 1..Len(tokens) : tokens[n].type = "end" <=> n = Len(tokens)
<1>1. IsSeq(tokens) /\ Len(tokens) \in Nat
  BY Lengthened DEF ScanInv
<1>2. Len(tokens) \in Nat \ {0} /\ tokens[Len(tokens)].type = "end"
  BY <1>1 DEF IsScanned
<1>3. \A n \in 1..(Len(tokens) - 1) : tokens[n].type # "end"
  <2>1. TextCount = Len(tokens) - 1
    BY DEF TextCount
  <2> QED
    BY <2>1, Zenon DEF ScanInv, IsRead, TokenOK
<1>4. \A n \in 1..Len(tokens) : n = Len(tokens) \/ n \in 1..(Len(tokens) - 1)
  BY <1>2
<1>5. \A n \in 1..(Len(tokens) - 1) : n # Len(tokens)
  BY <1>2
<1> QED
  BY <1>1, <1>2, <1>3, <1>4, <1>5, Zenon

\* The beginning of a sequence,
LEMMA UpToIs ==
  ASSUME NEW ts, IsSeq(ts), NEW n \in 0..Len(ts)
  PROVE  /\ IsSeq(UpTo(ts, n)) /\ Len(UpTo(ts, n)) = n
         /\ \A m \in 1..n : UpTo(ts, n)[m] = ts[m]
<1>1. PICK S : ts \in Seq(S)
  BY DEF IsSeq
<1>2. Len(ts) \in Nat /\ n \in Nat
  BY SeqLen
<1>3. \A m \in 1..n : ts[m] \in S
  BY <1>1, <1>2, ElementOfSeq
<1>4. /\ SubSeq(ts, 1, n) \in Seq(S)
      /\ Len(SubSeq(ts, 1, n)) = IF 1 <= n THEN n - 1 + 1 ELSE 0
      /\ \A m \in 1..(n - 1 + 1) : SubSeq(ts, 1, n)[m] = ts[1 + m - 1]
  BY <1>2, <1>3, SubSeqProperties
<1>5. Len(SubSeq(ts, 1, n)) = n /\ \A m \in 1..n : SubSeq(ts, 1, n)[m] = ts[m]
  BY <1>2, <1>4
<1> QED
  BY <1>4, <1>5, Zenon DEF UpTo, IsSeq

\* one of them less,
LEMMA OneFewer == \A k \in Nat \ {0} : \E n \in Nat : n = k - 1 /\ k = n + 1 /\ n \in 0..k
<1> SUFFICES ASSUME NEW k \in Nat \ {0}
             PROVE  \E n \in Nat : n = k - 1 /\ k = n + 1 /\ n \in 0..k
  OBVIOUS
<1> WITNESS k - 1 \in Nat
<1> QED
  OBVIOUS

\* and the tokens without the end.
LEMMA ParsedIs ==
  ASSUME ScanInv, ParseInv, IsScanned
  PROVE  /\ IsSeq(Parsed) /\ Len(Parsed) \in Nat /\ Len(tokens) = Len(Parsed) + 1
         /\ j \in 1..(Len(Parsed) + 1) /\ (AtEnd <=> j = Len(Parsed) + 1)
         /\ ~AtEnd => Agrees(Parsed, tokens, j) /\ Parsed[j] = Token /\ j \in 1..Len(Parsed)
<1>1. PICK n \in Nat : n = Len(tokens) - 1 /\ Len(tokens) = n + 1 /\ n \in 0..Len(tokens)
  <2>1. Len(tokens) \in Nat \ {0}
    BY LastIsEnd
  <2> QED
    BY <2>1, OneFewer, Zenon
<1>2. /\ IsSeq(Parsed) /\ Len(Parsed) = n
      /\ \A m \in 1..n : Parsed[m] = tokens[m]
  BY <1>1, LastIsEnd, UpToIs, Zenon DEF Parsed
<1>3. j \in 1..(n + 1)
  BY <1>1 DEF ParseInv
<1>4. AtEnd <=> j = n + 1
  BY <1>1, <1>3, LastIsEnd, Zenon DEF AtEnd, Token
<1>5. ASSUME ~AtEnd
      PROVE  Agrees(Parsed, tokens, j) /\ Parsed[j] = Token /\ j \in 1..n
  <2>1. j \in 1..n /\ n >= j /\ \A m \in 1..j : m \in 1..n
    BY <1>3, <1>4, <1>5
  <2> QED
    BY <1>2, <2>1, Zenon DEF Agrees, Token
<1> QED
  BY <1>1, <1>2, <1>3, <1>4, <1>5, Zenon

\* What agrees up to a place does in front of it.
LEMMA AgreesLess ==
  ASSUME NEW ts, NEW all, NEW n \in Nat \ {0}, Agrees(ts, all, n)
  PROVE  /\ Agrees(ts, all, n - 1) /\ Len(ts) \in Nat /\ n \in 1..Len(ts) /\ ts[n] = all[n]
<1>1. Len(ts) \in Nat /\ Len(ts) >= n
  BY SeqLen DEF Agrees
<1>2. n \in 1..n /\ Len(ts) >= n - 1 /\ n \in 1..Len(ts) /\ \A m \in 1..(n - 1) : m \in 1..n
  BY <1>1
<1> QED
  BY <1>1, <1>2, Zenon DEF Agrees

\* Soundness moves on with the place,
LEMMA SoundMoves ==
  ASSUME NEW all, NEW n \in Nat \ {0}, NEW frames, NEW next, NEW frames2, NEW next2,
         Sound(all, n, frames, next),
         \A ts : Agrees(ts, all, n) => Onward(ts, frames2, next2, n + 1, frames, next, n)
  PROVE  Sound(all, n + 1, frames2, next2)
<1> SUFFICES ASSUME NEW ts, Agrees(ts, all, (n + 1) - 1), NEW result, Leads(ts, frames2, next2, n + 1, result)
             PROVE  result \in File(ts)
  BY Zenon DEF Sound
<1>1. Agrees(ts, all, n)
  <2>1. (n + 1) - 1 = n
    OBVIOUS
  <2> QED
    BY <2>1, Zenon
<1>2. Agrees(ts, all, n - 1)
  BY <1>1, AgreesLess
<1> QED
  BY <1>1, <1>2, Zenon DEF Sound, Onward

\* or stays there,
LEMMA SoundStays ==
  ASSUME NEW all, NEW n, NEW frames, NEW next, NEW frames2, NEW next2,
         Sound(all, n, frames, next),
         \A ts : Onward(ts, frames2, next2, n, frames, next, n)
  PROVE  Sound(all, n, frames2, next2)
BY Zenon DEF Sound, Onward

\* and so does completeness.
LEMMA CompleteMoves ==
  ASSUME NEW ts, NEW n, NEW frames, NEW next, NEW frames2, NEW next2, NEW n2,
         Complete(ts, n, frames, next), Onward(ts, frames, next, n, frames2, next2, n2)
  PROVE  Complete(ts, n2, frames2, next2)
BY Zenon DEF Complete, Onward

\* A token is taken, and what completes the file behind it is the same as in
\* front of it.
Taking(frames, next) ==
  \A ts : Agrees(ts, tokens, j) => BothWays(ts, stack, expect, j, frames, next, j + 1)

(* Every step that takes a token keeps the invariant, if it keeps what      *)
(* completes the file.                                                      *)
LEMMA MovesOn ==
  ASSUME ScanInv, ParseInv, IsScanned, GrammarInv, pc = "parse", ~AtEnd,
         UNCHANGED <<pc, tokens>>, j' = NextIndex, Taking(stack', expect')
  PROVE  GrammarInv'
<1>1. /\ Sound(tokens, j, stack, expect) /\ Complete(Parsed, j, stack, expect)
  BY Zenon DEF GrammarInv, IsStuck
<1>2. j \in Nat \ {0} /\ j' = j + 1
  BY IndexType DEF AtEnd
<1>3. Sound(tokens, j + 1, stack', expect')
  BY <1>1, <1>2, SoundMoves DEF Taking, BothWays
<1>4. Complete(Parsed, j + 1, stack', expect')
  <2>1. Agrees(Parsed, tokens, j)
    BY ParsedIs
  <2>2. Onward(Parsed, stack, expect, j, stack', expect', j + 1)
    BY <2>1, Zenon DEF Taking, BothWays
  <2> QED
    BY <1>1, <2>2, CompleteMoves
<1>5. Parsed' = Parsed /\ tokens' = tokens /\ pc' = "parse"
  BY DEF Parsed
<1>6. pc' # "handle" /\ pc' # "syntax error"
  BY <1>5
<1> QED
  BY <1>2, <1>3, <1>4, <1>5, <1>6, Zenon DEF GrammarInv

\* What Key does to the stack,
LEMMA KeyedTop ==
  ASSUME ParseInv, Key
  PROVE  /\ SameBelow(stack, stack') /\ stack'[Len(stack)] = Keyed(Top, Token)
<1>1. PICK k \in Nat \ {0} : k = Len(stack)
  BY DEF ParseInv, StackOK
<1>2. PICK f : f = stack[k] /\ f = Top /\ FrameOK(f)
  BY <1>1, TopIs DEF ParseInv, Top
<1>3. stack' = [stack EXCEPT ![k].key = KeyOf(Token)]
  BY <1>1, Zenon DEF Key
<1>4. PICK g : g = [f EXCEPT !.key = KeyOf(Token)] /\ g = Keyed(f, Token)
  BY DEF Keyed
<1>5. stack' = [stack EXCEPT ![k] = g]
  BY <1>2, <1>3, <1>4, Zenon
<1>6. /\ Len(stack') = k /\ stack'[k] = g
      /\ \A n \in 1..(k - 1) : stack'[n] = stack[n]
  <2>1. PICK S : stack \in Seq(S)
    BY DEF ParseInv, StackOK, IsSeq
  <2>2. PICK T : T = S \cup {g}
    OBVIOUS
  <2>3. stack \in Seq(T) /\ g \in T
    BY <2>1, <2>2, SeqMonotonic
  <2>4. k \in 1..Len(stack)
    BY <1>1
  <2>5. /\ stack' \in Seq(T) /\ Len(stack') = Len(stack)
        /\ \A n \in 1..Len(stack) : stack'[n] = IF n = k THEN g ELSE stack[n]
    BY <1>5, <2>3, <2>4, ExceptSeq
  <2> QED
    BY <1>1, <2>5
<1>7. g.kind = f.kind
  BY <1>2, <1>4, KeyedOK
<1> QED
  BY <1>1, <1>2, <1>4, <1>6, <1>7, Zenon DEF SameBelow

\* Each step of the parser keeps the invariant: a key,
LEMMA KeyGrammar ==
  ASSUME ScanInv, ParseInv, IsScanned, GrammarInv, Key
  PROVE  GrammarInv'
<1>1. /\ pc = "parse" /\ expect = "key" /\ IsText(Token) /\ j' = NextIndex /\ expect' = "colon"
      /\ UNCHANGED <<pc, tokens>>
  BY DEF Key, Expects, Continue, scannerVars
<1>2. ~AtEnd
  BY <1>1 DEF AtEnd, IsText
<1>3. /\ SameBelow(stack, stack') /\ stack'[Len(stack)] = Keyed(stack[Len(stack)], Token)
  BY KeyedTop DEF Top
<1>4. j \in Nat \ {0} /\ StackOK(stack)
  BY IndexType DEF ParseInv
<1>5. Taking(stack', "colon")
  <2> SUFFICES ASSUME NEW ts, Agrees(ts, tokens, j)
               PROVE  BothWays(ts, stack, "key", j, stack', "colon", j + 1)
    BY <1>1, Zenon DEF Taking
  <2>1. Len(ts) \in Nat /\ j \in 1..Len(ts) /\ ts[j] = Token
    BY <1>4, AgreesLess DEF Token
  <2> QED
    BY <1>1, <1>3, <1>4, <2>1, KeyLeads
<1> QED
  BY <1>1, <1>2, <1>5, MovesOn

\* and what a value does to it.
LEMMA GivenIs ==
  ASSUME NEW frames, StackOK(frames), NEW value, NEW all,
         all = Append(Front(frames), Pushed(frames[Len(frames)], value))
  PROVE  SameBelow(frames, all) /\ all[Len(frames)] = Pushed(frames[Len(frames)], value)
<1>1. PICK k \in Nat \ {0} : k = Len(frames)
  BY TopIs
<1>2. PICK f : f = frames[k] /\ FrameOK(f)
  BY <1>1, TopIs
<1>3. PICK g : g = Pushed(f, value) /\ g.kind = f.kind
  BY <1>2, PushedIs
<1>4. /\ IsSeq(Front(frames)) /\ Len(Front(frames)) = k - 1
      /\ \A n \in 1..(k - 1) : Front(frames)[n] = frames[n]
  BY <1>1, FrontIs DEF StackOK
<1>5. all = Append(Front(frames), g)
  BY <1>1, <1>2, <1>3
<1>6. /\ Len(all) = (k - 1) + 1
      /\ \A n \in 1..(k - 1) : all[n] = Front(frames)[n]
      /\ all[(k - 1) + 1] = g
  BY <1>4, <1>5, Lengthened
<1>7. (k - 1) + 1 = k
  OBVIOUS
<1> QED
  BY <1>1, <1>2, <1>3, <1>4, <1>6, <1>7, Zenon DEF SameBelow

\* a value of one token,
LEMMA ScalarGrammar ==
  ASSUME ScanInv, ParseInv, IsScanned, GrammarInv, Scalar
  PROVE  GrammarInv'
<1>1. PICK value : value = ScalarOf(Token)
  OBVIOUS
<1>2. PICK f : f = stack[Len(stack)]
  OBVIOUS
<1>3. /\ pc = "parse" /\ expect = "value" /\ IsText(Token) /\ j' = NextIndex
      /\ Give(stack, value)
  BY <1>1 DEF Scalar, Expects
<1>4. /\ stack' = Append(Front(stack), Pushed(f, value)) /\ expect' = AfterItemOf(f)
      /\ UNCHANGED <<pc, tokens>>
  BY <1>2, <1>3, Zenon DEF Give, Continue, scannerVars
<1>5. ~AtEnd
  BY <1>3 DEF AtEnd, IsText
<1>6. j \in Nat \ {0} /\ StackOK(stack)
  BY IndexType DEF ParseInv
<1>7. SameBelow(stack, stack') /\ stack'[Len(stack)] = Pushed(f, value)
  BY <1>2, <1>4, <1>6, GivenIs, Zenon
<1>8. Taking(stack', expect')
  <2> SUFFICES ASSUME NEW ts, Agrees(ts, tokens, j)
               PROVE  BothWays(ts, stack, "value", j, stack', AfterItemOf(f), j + 1)
    BY <1>3, <1>4, Zenon DEF Taking
  <2>1. Len(ts) \in Nat /\ j \in 1..Len(ts) /\ ts[j] = Token
    BY <1>6, AgreesLess DEF Token
  <2> QED
    BY <1>1, <1>2, <1>3, <1>6, <1>7, <2>1, ScalarLeads, Zenon
<1> QED
  BY <1>3, <1>4, <1>5, <1>8, MovesOn

\* a colon,
LEMMA ColonGrammar ==
  ASSUME ScanInv, ParseInv, IsScanned, GrammarInv, pc = "parse", expect = "colon",
         Token.type = "colon", j' = NextIndex, UNCHANGED stack, Continue("value")
  PROVE  GrammarInv'
<1>1. expect' = "value" /\ UNCHANGED <<pc, tokens>> /\ stack' = stack
  BY DEF Continue, scannerVars
<1>2. ~AtEnd
  BY DEF AtEnd
<1>3. j \in Nat \ {0} /\ StackOK(stack)
  BY IndexType DEF ParseInv
<1>4. Taking(stack', expect')
  <2> SUFFICES ASSUME NEW ts, Agrees(ts, tokens, j)
               PROVE  BothWays(ts, stack, "colon", j, stack, "value", j + 1)
    BY <1>1, Zenon DEF Taking
  <2>1. Len(ts) \in Nat /\ j \in 1..Len(ts) /\ ts[j] = Token
    BY <1>3, AgreesLess DEF Token
  <2> QED
    BY <1>3, <2>1, ColonLeads
<1> QED
  BY <1>1, <1>2, <1>4, MovesOn

\* A frame that is put on the stack is one more.
LEMMA AppendedAbove ==
  ASSUME NEW frames, IsSeq(frames), NEW f
  PROVE  OneAbove(frames, Append(frames, f), f)
BY Lengthened DEF OneAbove

\* a bracket that opens,
LEMMA OpenGrammar ==
  ASSUME ScanInv, ParseInv, IsScanned, GrammarInv, OpenBracket
  PROVE  GrammarInv'
<1>1. PICK kind \in Bracketed :
        /\ IsBracket(Token, Opener(kind))
        /\ stack' = Append(stack, Open(kind))
  BY DEF OpenBracket, Bracketed
<1>2. /\ pc = "parse" /\ expect = "value" /\ j' = NextIndex /\ expect' = "first"
      /\ UNCHANGED <<pc, tokens>>
  BY DEF OpenBracket, Expects, Continue, scannerVars
<1>3. ~AtEnd
  BY <1>1 DEF IsBracket, AtEnd
<1>4. j \in Nat \ {0} /\ StackOK(stack) /\ IsSeq(stack)
  BY IndexType DEF ParseInv, StackOK
<1>5. OneAbove(stack, stack', Open(kind))
  BY <1>1, <1>4, AppendedAbove
<1>6. Taking(stack', expect')
  <2> SUFFICES ASSUME NEW ts, Agrees(ts, tokens, j)
               PROVE  BothWays(ts, stack, "value", j, stack', "first", j + 1)
    BY <1>2, Zenon DEF Taking
  <2>1. Len(ts) \in Nat /\ j \in 1..Len(ts) /\ ts[j] = Token
    BY <1>4, AgreesLess DEF Token
  <2> QED
    BY <1>1, <1>4, <1>5, <2>1, OpenLeads
<1> QED
  BY <1>2, <1>3, <1>6, MovesOn

\* one that closes,
LEMMA CloseGrammar ==
  ASSUME ScanInv, ParseInv, IsScanned, GrammarInv, Close
  PROVE  GrammarInv'
<1>1. PICK g : g = Top
  OBVIOUS
<1>2. PICK value : value = Compound(g.kind, g.items)
  OBVIOUS
<1>3. PICK frames : frames = Front(stack)
  OBVIOUS
<1>4. PICK f : f = frames[Len(frames)]
  OBVIOUS
<1>5. /\ pc = "parse" /\ expect \in {"first", "separator"} /\ IsBracket(Token, Closer(g.kind))
      /\ j' = NextIndex /\ Give(frames, value)
  BY <1>1, <1>2, <1>3 DEF Close, Expects, Closes
<1>6. /\ stack' = Append(Front(frames), Pushed(f, value)) /\ expect' = AfterItemOf(f)
      /\ UNCHANGED <<pc, tokens>>
  BY <1>4, <1>5, Zenon DEF Give, Continue, scannerVars
<1>7. ~AtEnd
  BY <1>5 DEF AtEnd, IsBracket
<1>8. j \in Nat \ {0} /\ StackOK(stack) /\ Len(stack) >= 2 /\ IsSeq(stack) /\ Len(stack) \in Nat \ {0}
  BY <1>5, IndexType DEF ParseInv, StackOK
<1>9. StackOK(frames) /\ Len(frames) = Len(stack) - 1
  BY <1>3, <1>8, StackClosed
<1>10. FrameOK(g) /\ g.kind \in Bracketed
  BY <1>1, <1>8, TopIs DEF Top
<1>11. OneAbove(frames, stack, g)
  <2>1. \A n \in 1..(Len(stack) - 1) : frames[n] = stack[n]
    BY <1>3, <1>8, FrontIs
  <2>2. Len(stack) = Len(frames) + 1
    BY <1>8, <1>9
  <2> QED
    BY <1>1, <1>9, <2>1, <2>2, Zenon DEF OneAbove, Top
<1>12. SameBelow(frames, stack') /\ stack'[Len(frames)] = Pushed(f, value)
  BY <1>4, <1>6, <1>9, GivenIs, Zenon
<1>13. Taking(stack', expect')
  <2> SUFFICES ASSUME NEW ts, Agrees(ts, tokens, j)
               PROVE  BothWays(ts, stack, expect, j, stack', AfterItemOf(f), j + 1)
    BY <1>6, Zenon DEF Taking
  <2>1. Len(ts) \in Nat /\ j \in 1..Len(ts) /\ ts[j] = Token
    BY <1>8, AgreesLess DEF Token
  <2>2. BothWays(ts, stack', AfterItemOf(f), j + 1, stack, expect, j)
    BY <1>2, <1>4, <1>5, <1>9, <1>10, <1>11, <1>12, <2>1, CloseLeads, Zenon
  <2> QED
    BY <2>2, Zenon DEF BothWays
<1> QED
  BY <1>5, <1>6, <1>7, <1>13, MovesOn

\* looking for the first item,
LEMMA FirstGrammar ==
  ASSUME ScanInv, ParseInv, IsScanned, GrammarInv, First
  PROVE  GrammarInv'
<1>1. /\ pc = "parse" /\ expect = "first" /\ ~IsBracket(Token, Closer(stack[Len(stack)].kind))
      /\ expect' = ItemOf(stack[Len(stack)]) /\ UNCHANGED <<pc, tokens, j, stack>>
  BY DEF First, Expects, Continue, scannerVars, Closes, Top
<1>2. /\ StackOK(stack) /\ Len(stack) >= 2
  BY <1>1 DEF ParseInv
<1>3. /\ Sound(tokens, j, stack, "first") /\ Complete(Parsed, j, stack, "first")
  <2>1. expect # ItemOf(Top)
    BY <1>1 DEF ItemOf
  <2> QED
    BY <1>1, <2>1, Zenon DEF GrammarInv, IsStuck
<1>4. Sound(tokens, j, stack, expect')
  BY <1>1, <1>2, <1>3, FirstLeads, SoundStays
<1>5. Complete(Parsed, j, stack, expect')
  <2>1. ~(j \in 1..Len(Parsed) /\ IsBracket(Parsed[j], Closer(stack[Len(stack)].kind)))
    <3>1. ASSUME j \in 1..Len(Parsed)
          PROVE  Parsed[j] = Token
      <4>1. j # Len(Parsed) + 1
        BY <3>1, ParsedIs
      <4> QED
        BY <4>1, ParsedIs, Zenon
    <3> QED
      BY <1>1, <3>1, Zenon
  <2>2. Onward(Parsed, stack, "first", j, stack, expect', j)
    BY <1>1, <1>2, <2>1, FirstLeads, Zenon
  <2> QED
    BY <1>3, <2>2, CompleteMoves
<1>6. Parsed' = Parsed /\ tokens' = tokens /\ pc' = "parse" /\ j' = j /\ stack' = stack
  BY <1>1 DEF Parsed
<1>7. pc' # "handle" /\ pc' # "syntax error"
  BY <1>6
<1> QED
  BY <1>4, <1>5, <1>6, <1>7, Zenon DEF GrammarInv

\* a separator, or the end of the file in its place,
LEMMA SeparatorGrammar ==
  ASSUME ScanInv, ParseInv, IsScanned, GrammarInv, Separator
  PROVE  GrammarInv'
<1>1. PICK next : next = ItemOf(stack[Len(stack)])
  OBVIOUS
<1>2. /\ pc = "parse" /\ expect = "separator" /\ ~IsBracket(Token, Closer(stack[Len(stack)].kind))
      /\ expect' = next /\ UNCHANGED <<pc, tokens, stack>> /\ j' = NextIndex
  BY <1>1 DEF Separator, Expects, Continue, scannerVars, Closes, Top
<1>3. StackOK(stack) /\ Len(stack) >= 2 /\ j \in Nat \ {0}
  BY <1>2, IndexType DEF ParseInv
<1>4. CASE ~AtEnd
  <2>1. Taking(stack', expect')
    <3> SUFFICES ASSUME NEW ts, Agrees(ts, tokens, j)
                 PROVE  BothWays(ts, stack, "separator", j, stack, next, j + 1)
      BY <1>2, Zenon DEF Taking
    <3>1. Len(ts) \in Nat /\ j \in 1..Len(ts) /\ ts[j] = Token
      BY <1>3, AgreesLess DEF Token
    <3> QED
      BY <1>1, <1>2, <1>3, <3>1, SeparatorLeads, Zenon
  <2> QED
    BY <1>2, <1>4, <2>1, MovesOn
<1>5. CASE AtEnd
  <2>1. j' = j
    BY <1>2, <1>5 DEF NextIndex
  <2>2. Sound(tokens, j, stack, "separator") /\ Complete(Parsed, j, stack, "separator")
    <3>1. expect # ItemOf(Top)
      BY <1>2 DEF ItemOf
    <3> QED
      BY <1>2, <3>1, Zenon DEF GrammarInv, IsStuck
  <2>3. SoundPast(tokens, j, stack, next)
    <3> SUFFICES ASSUME NEW ts, Agrees(ts, tokens, j - 1), Len(ts) >= j, ts[j] = Comma,
                        NEW result, Leads(ts, stack, next, j + 1, result)
                 PROVE  result \in File(ts)
      BY Zenon DEF SoundPast
    <3>1. Len(ts) \in Nat /\ j \in 1..Len(ts)
      <4>1. Len(ts) \in Nat
        BY SeqLen DEF Agrees
      <4> QED
        BY <1>3, <4>1
    <3>2. ~IsBracket(ts[j], Closer(stack[Len(stack)].kind))
      <4>1. Comma.type = "comma"
        BY DEF Comma, Mark
      <4> QED
        BY <4>1 DEF IsBracket
    <3>3. BothWays(ts, stack, "separator", j, stack, next, j + 1)
      BY <1>1, <1>3, <3>1, <3>2, SeparatorLeads, Zenon
    <3> QED
      BY <2>2, <3>3, Zenon DEF BothWays, Onward, Sound
  <2>4. \A result : ~Leads(Parsed, stack, "separator", j, result)
    <3>1. Len(Parsed) \in Nat /\ j = Len(Parsed) + 1 /\ j \in 1..(Len(Parsed) + 1)
      BY <1>5, ParsedIs
    <3>2. CannotBe(Parsed, stack, "separator", j)
      BY <1>3, <3>1 DEF CannotBe
    <3> QED
      BY <1>3, <3>1, <3>2, NoneLeads
  <2>5. Complete(Parsed, j, stack, next)
    BY <2>2, <2>4, Zenon DEF Complete
  <2>6. Parsed' = Parsed /\ tokens' = tokens /\ pc' = "parse" /\ stack' = stack /\ expect' = next
        /\ Top' = Top /\ Token' = Token
    BY <1>2, <2>1 DEF Parsed, Top, Token
  <2>7. AtEnd' /\ next = ItemOf(Top)
    BY <1>1, <1>5, <2>6, Zenon DEF AtEnd, Top
  <2>8. IsStuck'
    BY <1>3, <2>1, <2>3, <2>6, <2>7, Zenon DEF IsStuck
  <2>9. pc' # "handle" /\ pc' # "syntax error"
    BY <2>6
  <2> QED
    BY <2>1, <2>5, <2>6, <2>8, <2>9, Zenon DEF GrammarInv
<1> QED
  BY <1>4, <1>5

\* and an error, if nothing completes the file there.
LEMMA FailGrammar ==
  ASSUME ScanInv, ParseInv, IsScanned, GrammarInv, pc = "parse", Fail,
         \A result : ~Leads(Parsed, stack, expect, j, result)
  PROVE  GrammarInv'
<1>1. pc' = "syntax error" /\ UNCHANGED <<tokens, j, stack, expect>>
  BY DEF Fail, scannerVars
<1>2. Parsed' = Parsed /\ Top' = Top /\ Token' = Token
  BY <1>1 DEF Parsed, Top, Token
<1>3. AtEnd' <=> AtEnd
  BY <1>2, Zenon DEF AtEnd
<1>4. IsStuck' <=> IsStuck
  BY <1>1, <1>2, <1>3, Zenon DEF IsStuck
<1>5. Complete(Parsed, j, stack, expect)
  BY Zenon DEF GrammarInv
<1>6. File(Parsed) = {}
  BY <1>5, Zenon DEF Complete
<1>7. pc' # "handle" /\ pc' # "parse"
  BY <1>1
<1>8. Sound(tokens, j, stack, expect) \/ IsStuck
  BY Zenon DEF GrammarInv
<1> QED
  BY <1>1, <1>2, <1>4, <1>6, <1>7, <1>8, Zenon DEF GrammarInv

\* At the token the parser fails at, nothing does.
LEMMA NothingLeads ==
  ASSUME ScanInv, ParseInv, IsScanned,
         \/ expect = "key" /\ ~IsText(Token) /\ ~(Top.kind = "file" /\ AtEnd)
         \/ expect = "colon" /\ Token.type # "colon"
         \/ expect = "value" /\ ~IsText(Token) /\ \A kind \in Bracketed : ~IsBracket(Token, Opener(kind))
  PROVE  \A result : ~Leads(Parsed, stack, expect, j, result)
<1>1. Len(Parsed) \in Nat /\ j \in 1..(Len(Parsed) + 1) /\ StackOK(stack)
  BY ParsedIs DEF ParseInv
<1>2. j = Len(Parsed) + 1 \/ Parsed[j] = Token
  BY ParsedIs, Zenon
<1>3. Top.kind = "file" <=> Len(stack) = 1
  BY <1>1, TopIs DEF Top
<1>4. AtEnd <=> j = Len(Parsed) + 1
  BY ParsedIs
<1>5. CannotBe(Parsed, stack, expect, j)
  BY <1>2, <1>3, <1>4, Zenon DEF CannotBe
<1> QED
  BY <1>1, <1>5, NoneLeads, Zenon

\* The end of the file, where nothing is open.
LEMMA EndGrammar ==
  ASSUME ScanInv, ParseInv, IsScanned, GrammarInv, EndOfFile
  PROVE  GrammarInv'
<1>1. /\ pc = "parse" /\ expect = "key" /\ Top.kind = "file" /\ AtEnd /\ pc' = "handle"
      /\ UNCHANGED <<tokens, stack>>
  BY DEF EndOfFile, Expects, scannerVars
<1>2. Len(stack) = 1 /\ StackOK(stack)
  BY <1>1, TopIs DEF ParseInv, Top
<1>3. IsSeq(Parsed) /\ Len(Parsed) \in Nat /\ j = Len(Parsed) + 1
  BY <1>1, ParsedIs
<1>4. \A result : Leads(Parsed, stack, "key", j, result) <=> result = stack[1].items
  BY <1>2, <1>3, EndLeads, Zenon
<1>5. Sound(tokens, j, stack, "key") /\ Complete(Parsed, j, stack, "key")
  <2>1. ~(Len(stack) >= 2)
    BY <1>2
  <2> QED
    BY <1>1, <2>1, Zenon DEF GrammarInv, IsStuck
<1>6. Agrees(Parsed, tokens, j - 1)
  <2>1. PICK n \in Nat : n = Len(Parsed) /\ j - 1 = n /\ Len(tokens) - 1 = n /\ n \in 0..Len(tokens)
    <3>1. Len(tokens) = Len(Parsed) + 1
      BY ParsedIs
    <3> QED
      BY <1>3, <3>1
  <2>2. \A m \in 1..n : Parsed[m] = tokens[m]
    BY <2>1, LastIsEnd, UpToIs, Zenon DEF Parsed
  <2> QED
    BY <1>3, <2>1, <2>2 DEF Agrees
<1>7. \A result : result \in File(Parsed) <=> result = stack[1].items
  BY <1>4, <1>5, <1>6, Zenon DEF Sound, Complete
<1>8. File(Parsed) = {stack[1].items}
  BY <1>7
<1>9. Parsed' = Parsed /\ stack' = stack /\ pc' # "parse" /\ pc' # "syntax error"
  BY <1>1 DEF Parsed
<1> QED
  BY <1>8, <1>9, Zenon DEF GrammarInv

\* All steps of the parser,
LEMMA ParserGrammar ==
  ASSUME ScanInv, PhaseInv, ParseInv, GrammarInv, ParseStep
  PROVE  GrammarInv'
<1>1. IsScanned
  BY ParseFrame DEF PhaseInv
<1>2. CASE NoKeyThere
  BY <1>1, <1>2, NothingLeads, FailGrammar DEF NoKeyThere, Expects
<1>3. CASE NoValueThere
  <2>1. \A kind \in Bracketed : ~IsBracket(Token, Opener(kind))
    BY <1>3 DEF NoValueThere, Bracketed, Opener
  <2> QED
    BY <1>1, <1>3, <2>1, NothingLeads, FailGrammar DEF NoValueThere, Expects
<1>4. CASE Colon
  <2>1. CASE Token.type = "colon" /\ j' = NextIndex /\ UNCHANGED stack /\ Continue("value")
    BY <1>1, <1>4, <2>1, ColonGrammar DEF Colon, Expects
  <2>2. CASE Token.type # "colon" /\ Fail
    BY <1>1, <1>4, <2>2, NothingLeads, FailGrammar DEF Colon, Expects
  <2> QED
    BY <1>4, <2>1, <2>2 DEF Colon
<1> QED
  BY <1>1, <1>2, <1>3, <1>4, KeyGrammar, ScalarGrammar, OpenGrammar, CloseGrammar, FirstGrammar,
     SeparatorGrammar, EndGrammar DEF ParseStep

\* the beginning,
LEMMA InitGrammar == Init => Untouched /\ GrammarInv
BY DEF Init, Untouched, GrammarInv

\* the last token that is scanned, with which parsing begins,
LEMMA StartGrammar ==
  ASSUME ScanInv, PhaseInv, Untouched, EndScan, UNCHANGED <<j, stack, expect>>
  PROVE  GrammarInv'
<1>1. /\ pc = "scan" /\ pc' = "parse" /\ tokens' = Append(tokens, EofToken)
      /\ j' = 1 /\ stack' = <<Open("file")>> /\ expect' = "key"
  BY DEF EndScan, Untouched
<1>2. Len(stack') = 1 /\ stack'[1] = Open("file")
  BY <1>1
<1>3. Sound(tokens', 1, stack', "key")
  <2> SUFFICES ASSUME NEW ts, Agrees(ts, tokens', 1 - 1), NEW result, Leads(ts, stack', "key", 1, result)
               PROVE  result \in File(ts)
    BY Zenon DEF Sound
  <2>1. Len(ts) \in Nat
    BY SeqLen DEF Agrees
  <2> QED
    BY <1>2, <2>1, StartLeads, Zenon
<1>4. Complete(Parsed', 1, stack', "key")
  <2>1. IsSeq(tokens') /\ Len(tokens') \in Nat \ {0}
    BY <1>1, Lengthened DEF ScanInv
  <2>2. Len(tokens') - 1 \in 0..Len(tokens')
    BY <2>1
  <2>3. Len(Parsed') = Len(tokens') - 1
    BY <2>1, <2>2, UpToIs, Zenon DEF Parsed
  <2>4. Len(Parsed') \in Nat
    BY <2>2, <2>3
  <2> QED
    BY <1>2, <2>4, StartLeads, Zenon DEF Complete
<1>5. pc' # "handle" /\ pc' # "syntax error"
  BY <1>1
<1> QED
  BY <1>1, <1>3, <1>4, <1>5, Zenon DEF GrammarInv

\* and every other step of a load.
LEMMA GrammarStep ==
  ASSUME ScanInv, PhaseInv, ParseInv, Untouched, GrammarInv, [Next]_configVars
  PROVE  Untouched' /\ GrammarInv'
<1>1. CASE Load
  <2>1. pc = "load" /\ pc' \in {"scan", "refused"} /\ UNCHANGED <<j, stack, expect>>
    BY <1>1 DEF Load
  <2> QED
    BY <2>1 DEF Untouched, GrammarInv
<1>2. CASE ScanToken /\ UNCHANGED <<j, stack, expect, error, config, var>>
  <2>1. pc = "scan" /\ pc' = "scan" /\ UNCHANGED <<j, stack, expect>>
    BY <1>2 DEF ScanToken
  <2> QED
    BY <2>1 DEF Untouched, GrammarInv
<1>3. CASE EndScan /\ UNCHANGED <<j, stack, expect, error, config, var>>
  <2>1. GrammarInv'
    BY <1>3, StartGrammar
  <2>2. pc' = "parse"
    BY <1>3 DEF EndScan
  <2> QED
    BY <2>1, <2>2 DEF Untouched
<1>4. CASE ParseStep
  <2>1. GrammarInv'
    BY <1>4, ParserGrammar
  <2>2. pc' \in {"parse", "handle", "syntax error"}
    BY <1>4, ParseFrame
  <2> QED
    BY <2>1, <2>2 DEF Untouched
<1>5. CASE HandleVar \/ Validate
  <2>1. /\ pc = "handle" /\ pc' \in {"handle", "accepted", "refused"} /\ UNCHANGED <<tokens, stack>>
    BY <1>5 DEF HandleVar, Validate, scannerVars
  <2>2. Parsed' = Parsed
    BY <2>1 DEF Parsed
  <2> QED
    BY <2>1, <2>2 DEF Untouched, GrammarInv
<1>6. CASE Again
  <2>1. pc' = "load" /\ j' = 1 /\ stack' = <<Open("file")>> /\ expect' = "key"
    BY <1>6 DEF Again
  <2> QED
    BY <2>1 DEF Untouched, GrammarInv
<1>7. CASE UNCHANGED configVars
  <2>1. UNCHANGED <<pc, tokens, j, stack, expect>>
    BY <1>7 DEF configVars, parserVars, scannerVars
  <2>2. Parsed' = Parsed /\ Top' = Top /\ (AtEnd' <=> AtEnd)
    BY <2>1 DEF Parsed, Top, AtEnd, Token
  <2>3. IsStuck' <=> IsStuck
    BY <2>1, <2>2, Zenon DEF IsStuck
  <2>4. Untouched'
    BY <2>1 DEF Untouched
  <2>5. GrammarInv'
    BY <2>1, <2>2, <2>3, Zenon DEF GrammarInv
  <2> QED
    BY <2>4, <2>5
<1> QED
  BY <1>1, <1>2, <1>3, <1>4, <1>5, <1>6, <1>7 DEF Next, LoadStep

\* What a user relies on follows.
LEMMA ParsesFollows == GrammarInv => ParsesTheGrammar
BY Zenon DEF GrammarInv, ParsesTheGrammar

\* The invariant of the grammar, on top of that of the load.
LEMMA GrammarInvariance == Spec => [](ConfigInv /\ Untouched /\ GrammarInv)
<1>1. Init => Untouched /\ GrammarInv
  BY InitGrammar
<1>2. ConfigInv /\ (Untouched /\ GrammarInv) /\ [Next]_configVars => (Untouched /\ GrammarInv)'
  BY GrammarStep DEF ConfigInv
<1>3. Spec => []ConfigInv
  BY ConfigInvariance
<1> QED
  BY <1>1, <1>2, <1>3, PTL DEF Spec

(* -- A missing item and missing brackets ------------------------------------- *)

\* A frame can end where it is,
LEMMA RestHere ==
  ASSUME NEW ts, Len(ts) \in Nat, NEW f, FrameOK(f), f.kind \in Kinds, NEW n \in 1..(Len(ts) + 1)
  PROVE  RestEnds(ts, f, n, n, f.items)
BY RestSplit, Zenon

\* A frame can end at a place, with some items.
CanEndAt(ts, f, next, n, m) == \E is : Ends(ts, f, next, n, m, is)

\* behind a value of one word,
LEMMA WordThere ==
  ASSUME NEW ts, Len(ts) \in Nat, NEW f, FrameOK(f), f.kind \in Kinds, NEW n \in 1..Len(ts), IsText(ts[n])
  PROVE  CanEndAt(ts, f, "value", n, n + 1)
<1>1. PICK g : g = Pushed(f, ScalarOf(ts[n])) /\ FrameOK(g) /\ g.kind \in Kinds
  BY PushedIs
<1>2. n + 1 \in 1..(Len(ts) + 1)
  OBVIOUS
<1>3. RestEnds(ts, g, n + 1, n + 1, g.items)
  BY <1>1, <1>2, RestHere
<1>4. Ends(ts, g, AfterItemOf(f), n + 1, n + 1, g.items)
  BY <1>1, <1>3, AfterItem, Zenon
<1>5. Ends(ts, f, "value", n, n + 1, g.items)
  BY <1>1, <1>4, ScalarGoes, Zenon
<1> QED
  BY <1>5, Zenon DEF CanEndAt

\* behind a colon with one,
LEMMA ColonThere ==
  ASSUME NEW ts, Len(ts) \in Nat, NEW f, FrameOK(f), f.kind \in Kinds, NEW n \in 1..Len(ts),
         n + 1 \in 1..Len(ts), ts[n].type = "colon", IsText(ts[n + 1])
  PROVE  CanEndAt(ts, f, "colon", n, n + 2)
<1>1. (n + 1) + 1 = n + 2
  OBVIOUS
<1>2. PICK is : Ends(ts, f, "value", n + 1, n + 2, is)
  <2>1. CanEndAt(ts, f, "value", n + 1, (n + 1) + 1)
    BY WordThere
  <2> QED
    BY <1>1, <2>1, Zenon DEF CanEndAt
<1>3. Ends(ts, f, "colon", n, n + 2, is)
  BY <1>2, ColonGoes
<1> QED
  BY <1>3, Zenon DEF CanEndAt

\* behind a variable,
LEMMA VarThere ==
  ASSUME NEW ts, Len(ts) \in Nat, NEW f, FrameOK(f), f.kind \in Kinds, NEW n \in 1..Len(ts),
         n + 1 \in 1..Len(ts), n + 2 \in 1..Len(ts),
         IsText(ts[n]), ts[n + 1].type = "colon", IsText(ts[n + 2])
  PROVE  CanEndAt(ts, f, "key", n, n + 3)
<1>1. (n + 1) + 1 = n + 2 /\ (n + 1) + 2 = n + 3
  OBVIOUS
<1>2. PICK g : g = Keyed(f, ts[n]) /\ FrameOK(g) /\ g.kind \in Kinds
  BY KeyedOK
<1>3. PICK k : k = n + 1
  OBVIOUS
<1>4. /\ k \in 1..Len(ts) /\ k + 1 \in 1..Len(ts) /\ ts[k].type = "colon" /\ IsText(ts[k + 1])
      /\ k + 2 = n + 3
  BY <1>1, <1>3
<1>5. PICK is : Ends(ts, g, "colon", n + 1, n + 3, is)
  <2>1. CanEndAt(ts, g, "colon", k, k + 2)
    BY <1>2, <1>4, ColonThere
  <2> QED
    BY <1>3, <1>4, <2>1, Zenon DEF CanEndAt
<1>6. Ends(ts, f, "key", n, n + 3, is)
  BY <1>2, <1>5, KeyGoes
<1> QED
  BY <1>6, Zenon DEF CanEndAt

\* and where an item need not follow.
LEMMA NothingThere ==
  ASSUME NEW ts, Len(ts) \in Nat, NEW f, FrameOK(f), f.kind \in Kinds, NEW n \in 1..(Len(ts) + 1),
         NEW next \in {"first", "separator"}
  PROVE  CanEndAt(ts, f, next, n, n)
<1>1. CASE next = "first"
  <2>1. FirstEnds(ts, f, n, n, f.items)
    BY Zenon DEF FirstEnds
  <2> QED
    BY <1>1, <2>1, EndsAs, Zenon DEF CanEndAt
<1>2. CASE next = "separator"
  BY <1>2, RestHere, EndsAs, Zenon DEF CanEndAt
<1> QED
  BY <1>1, <1>2

\* What is missing of an item, as the operators of Language have it.
MissingAt(next) == CASE next = "key" -> AnyVar
                     [] next = "colon" -> From(AnyVar, 2)
                     [] next = "value" -> <<AnyWord>>
                     [] OTHER -> <<>>

\* Three tokens without the first.
LEMMA WithoutFirst ==
  ASSUME NEW a, NEW b, NEW c
  PROVE  From(<<a, b, c>>, 2) = <<b, c>>
<1>1. PICK s : s = <<a, b, c>>
  OBVIOUS
<1>2. PICK S : S = {a, b, c}
  OBVIOUS
<1>3. s \in Seq(S) /\ Len(s) = 3 /\ s[2] = b /\ s[3] = c
  BY <1>1, <1>2
<1>4. PICK t : t = SubSeq(s, 2, 3)
  OBVIOUS
<1>5. \A m \in 2..3 : s[m] \in S
  <2>1. \A m \in 2..3 : m = 2 \/ m = 3
    OBVIOUS
  <2> QED
    BY <1>2, <1>3, <2>1
<1>6. /\ t \in Seq(S) /\ Len(t) = IF 2 <= 3 THEN 3 - 2 + 1 ELSE 0
      /\ \A m \in 1..(3 - 2 + 1) : t[m] = s[2 + m - 1]
  BY <1>4, <1>5, SubSeqProperties
<1>7. Len(t) = 2 /\ t[1] = b /\ t[2] = c
  BY <1>3, <1>6
<1>8. <<b, c>> \in Seq(S) /\ Len(<<b, c>>) = 2 /\ <<b, c>>[1] = b /\ <<b, c>>[2] = c
  BY <1>2
<1>9. \A m \in 1..2 : m = 1 \/ m = 2
  OBVIOUS
<1>10. t = <<b, c>>
  <2>1. PICK u : u = <<b, c>>
    OBVIOUS
  <2>2. u \in Seq(S) /\ Len(u) = 2 /\ u[1] = b /\ u[2] = c
    BY <1>8, <2>1, Zenon
  <2>3. \A m \in 1..2 : t[m] = u[m]
    BY <1>7, <1>9, <2>2
  <2>4. t = u
    BY <1>6, <1>7, <2>2, <2>3, SeqEqual
  <2> QED
    BY <2>1, <2>4
<1> QED
  BY <1>1, <1>3, <1>4, <1>10, Zenon DEF From

\* What is missing, token by token.
LEMMA MissingIs ==
  /\ MissingAt("key") = <<AnyWord, Mark("colon", ":"), AnyWord>>
  /\ MissingAt("colon") = <<Mark("colon", ":"), AnyWord>>
  /\ MissingAt("value") = <<AnyWord>>
  /\ MissingAt("first") = <<>> /\ MissingAt("separator") = <<>>
<1>1. MissingAt("key") = AnyVar
  BY DEF MissingAt
<1>2. MissingAt("colon") = From(AnyVar, 2)
  BY DEF MissingAt
<1>3. MissingAt("value") = <<AnyWord>>
  BY DEF MissingAt
<1>4. MissingAt("first") = <<>> /\ MissingAt("separator") = <<>>
  BY DEF MissingAt
<1>5. \A a, b, c : From(<<a, b, c>>, 2) = <<b, c>>
  BY WithoutFirst
<1> QED
  BY <1>1, <1>2, <1>3, <1>4, <1>5, Zenon DEF AnyVar

\* Tokens that are at a place.
StandsAt(ts, n, part) == \A m \in 1..Len(part) : n + m - 1 \in 1..Len(ts) /\ ts[n + m - 1] = part[m]

\* Behind what is missing a frame can end, whatever is looked for.
LEMMA ItemThere ==
  ASSUME NEW ts, Len(ts) \in Nat, NEW f, FrameOK(f), f.kind \in Kinds, NEW n \in 1..(Len(ts) + 1),
         NEW next \in {"key", "colon", "value", "first", "separator"}, StandsAt(ts, n, MissingAt(next))
  PROVE  CanEndAt(ts, f, next, n, n + Len(MissingAt(next)))
<1>1. IsText(AnyWord)
  BY DEF AnyWord, IsText
<1>2. Mark("colon", ":").type = "colon"
  BY DEF Mark
<1>3. PICK colon : colon = Mark("colon", ":")
  OBVIOUS
<1>4. PICK word : word = AnyWord
  OBVIOUS
<1>5. CASE next = "key"
  <2>1. MissingAt(next) = <<word, colon, word>>
    BY <1>3, <1>4, <1>5, MissingIs, Zenon
  <2>2. Len(<<word, colon, word>>) = 3
    OBVIOUS
  <2>3. /\ n \in 1..Len(ts) /\ n + 1 \in 1..Len(ts) /\ n + 2 \in 1..Len(ts)
        /\ ts[n] = word /\ ts[n + 1] = colon /\ ts[n + 2] = word
    <3>1. \A m \in 1..3 : n + m - 1 \in 1..Len(ts) /\ ts[n + m - 1] = <<word, colon, word>>[m]
      BY <2>1, <2>2, Zenon DEF StandsAt
    <3>2. 1 \in 1..3 /\ 2 \in 1..3 /\ 3 \in 1..3 /\ n + 1 - 1 = n /\ n + 2 - 1 = n + 1 /\ n + 3 - 1 = n + 2
      OBVIOUS
    <3>3. <<word, colon, word>>[1] = word /\ <<word, colon, word>>[2] = colon /\ <<word, colon, word>>[3] = word
      OBVIOUS
    <3> QED
      BY <3>1, <3>2, <3>3, Zenon
  <2>4. CanEndAt(ts, f, "key", n, n + 3)
    BY <1>1, <1>2, <1>3, <1>4, <2>3, VarThere
  <2> QED
    BY <1>5, <2>1, <2>2, <2>4, Zenon
<1>6. CASE next = "colon"
  <2>1. MissingAt(next) = <<colon, word>>
    BY <1>3, <1>4, <1>6, MissingIs, Zenon
  <2>2. Len(<<colon, word>>) = 2
    OBVIOUS
  <2>3. n \in 1..Len(ts) /\ n + 1 \in 1..Len(ts) /\ ts[n] = colon /\ ts[n + 1] = word
    <3>1. \A m \in 1..2 : n + m - 1 \in 1..Len(ts) /\ ts[n + m - 1] = <<colon, word>>[m]
      BY <2>1, <2>2, Zenon DEF StandsAt
    <3>2. 1 \in 1..2 /\ 2 \in 1..2 /\ n + 1 - 1 = n /\ n + 2 - 1 = n + 1
      OBVIOUS
    <3>3. <<colon, word>>[1] = colon /\ <<colon, word>>[2] = word
      OBVIOUS
    <3> QED
      BY <3>1, <3>2, <3>3, Zenon
  <2>4. CanEndAt(ts, f, "colon", n, n + 2)
    BY <1>1, <1>2, <1>3, <1>4, <2>3, ColonThere
  <2> QED
    BY <1>6, <2>1, <2>2, <2>4, Zenon
<1>7. CASE next = "value"
  <2>1. MissingAt(next) = <<word>>
    BY <1>4, <1>7, MissingIs, Zenon
  <2>2. Len(<<word>>) = 1 /\ <<word>>[1] = word /\ 1 \in 1..1 /\ n + 1 - 1 = n
    OBVIOUS
  <2>3. n \in 1..Len(ts) /\ ts[n] = word
    BY <2>1, <2>2, Zenon DEF StandsAt
  <2>4. CanEndAt(ts, f, "value", n, n + 1)
    BY <1>1, <1>4, <2>3, WordThere
  <2> QED
    BY <1>7, <2>1, <2>2, <2>4, Zenon
<1>8. CASE next \in {"first", "separator"}
  <2>1. MissingAt(next) = <<>>
    BY <1>8, MissingIs
  <2>2. n + Len(<<>>) = n
    BY EmptyIsSeq
  <2> QED
    BY <1>8, <2>1, <2>2, NothingThere, Zenon
<1> QED
  BY <1>5, <1>6, <1>7, <1>8

(* The brackets that close what is open, from a place on, the innermost      *)
(* first, and then the end.                                                  *)
ClosedBehind(ts, frames, q) ==
  /\ Len(ts) + 1 = q + (Len(frames) - 1)
  /\ \A k \in 1..(Len(frames) - 1) :
       /\ q + (Len(frames) - (k + 1)) \in 1..Len(ts)
       /\ IsBracket(ts[q + (Len(frames) - (k + 1))], Closer(frames[k + 1].kind))

\* The frames from one on end.
EndFrom(ts, frames, next, n, q, k, w) ==
  /\ Ends(ts, frames[Len(frames)], next, n, w[Len(frames)].to, w[Len(frames)].is)
  /\ \A l \in k..Len(frames) : w[l].to = q + (Len(frames) - l)
  /\ \A l \in k..(Len(frames) - 1) : Linked(ts, frames, w, l)

\* If those above it end, a frame does too.
LEMMA OneMoreEnds ==
  ASSUME NEW ts, Len(ts) \in Nat, NEW frames, StackOK(frames), NEW next, NEW n, NEW q \in Nat \ {0},
         ClosedBehind(ts, frames, q), NEW k \in 1..(Len(frames) - 1), NEW w,
         EndFrom(ts, frames, next, n, q, k + 1, w)
  PROVE  \E v : EndFrom(ts, frames, next, n, q, k, v)
<1>1. PICK K \in Nat \ {0} : K = Len(frames)
  BY TopIs
<1>2. PICK f : f = frames[k] /\ FrameOK(f) /\ f.kind \in Kinds
  <2>1. k \in 1..K /\ (k # 1 => k \in 2..K)
    BY <1>1
  <2>2. FrameOK(frames[k]) /\ (k # 1 => frames[k].kind \in Bracketed) /\ (k = 1 => frames[k].kind = "file")
    BY <1>1, <2>1, Zenon DEF StackOK
  <2>3. frames[k].kind \in Kinds
    BY <2>2 DEF Bracketed, Kinds
  <2> QED
    BY <2>2, <2>3
<1>3. PICK g : g = Pushed(f, Compound(frames[k + 1].kind, w[k + 1].is)) /\ FrameOK(g) /\ g.kind \in Kinds
  BY <1>2, PushedIs
<1>4. PICK at \in 1..Len(ts) : at = q + (K - (k + 1)) /\ IsBracket(ts[at], Closer(frames[k + 1].kind))
  BY <1>1, Zenon DEF ClosedBehind
<1>5. at + 1 = q + (K - k) /\ at + 1 \in 1..(Len(ts) + 1) /\ k + 1 \in (k + 1)..K
  BY <1>1, <1>4
<1>6. RestEnds(ts, g, at + 1, at + 1, g.items)
  BY <1>3, <1>5, RestHere
<1>7. PICK p : p.to = at + 1 /\ p.is = g.items
  <2>1. Part(at + 1, g.items).to = at + 1 /\ Part(at + 1, g.items).is = g.items
    BY DEF Part
  <2> QED
    BY <2>1
<1> DEFINE v == [l \in k..K |-> IF l = k THEN p ELSE w[l]]
<1>8. v[k] = p /\ \A l \in (k + 1)..K : v[l] = w[l]
  BY <1>1
<1> HIDE DEF v
<1>9. /\ K \in (k + 1)..K /\ \A l \in k..K : l = k \/ l \in (k + 1)..K
      /\ \A l \in k..(K - 1) : l = k \/ l \in (k + 1)..(K - 1)
      /\ \A l \in (k + 1)..(K - 1) : l \in (k + 1)..K /\ l + 1 \in (k + 1)..K
  BY <1>1
<1>10. /\ Ends(ts, frames[K], next, n, w[K].to, w[K].is)
       /\ \A l \in (k + 1)..K : w[l].to = q + (K - l)
       /\ \A l \in (k + 1)..(K - 1) : Linked(ts, frames, w, l)
  BY <1>1, Zenon DEF EndFrom
<1>11. w[k + 1].to = at
  BY <1>4, <1>5, <1>10, Zenon
<1>12. Linked(ts, frames, v, k)
  <2>1. v[k].to = at + 1 /\ v[k].is = g.items /\ v[k + 1] = w[k + 1]
    BY <1>5, <1>7, <1>8, Zenon
  <2> QED
    BY <1>2, <1>3, <1>4, <1>6, <1>11, <2>1, Zenon DEF Linked
<1>13. \A l \in (k + 1)..(K - 1) : Linked(ts, frames, v, l)
  BY <1>8, <1>9, <1>10, Zenon DEF Linked
<1>14. \A l \in k..K : v[l].to = q + (K - l)
  BY <1>5, <1>7, <1>8, <1>9, <1>10, Zenon
<1>15. Ends(ts, frames[K], next, n, v[K].to, v[K].is)
  BY <1>8, <1>9, <1>10, Zenon
<1>16. \A l \in k..(K - 1) : Linked(ts, frames, v, l)
  BY <1>9, <1>12, <1>13, Zenon
<1>17. EndFrom(ts, frames, next, n, q, k, v)
  BY <1>1, <1>14, <1>15, <1>16, Zenon DEF EndFrom
<1> QED
  BY <1>17

\* With the brackets that are open, the whole file can end.
LEMMA CanLead ==
  ASSUME NEW ts, Len(ts) \in Nat, NEW frames, StackOK(frames), NEW next, NEW n, NEW q \in Nat \ {0},
         ClosedBehind(ts, frames, q), CanEndAt(ts, frames[Len(frames)], next, n, q)
  PROVE  \E result : Leads(ts, frames, next, n, result)
<1>1. PICK K \in Nat \ {0} : K = Len(frames)
  BY TopIs
<1> DEFINE S == {k \in 1..K : \E w : EndFrom(ts, frames, next, n, q, k, w)}
<1>2. K \in S
  <2>1. PICK is : Ends(ts, frames[K], next, n, q, is)
    BY <1>1, Zenon DEF CanEndAt
  <2>2. PICK p : p.to = q /\ p.is = is
    <3>1. Part(q, is).to = q /\ Part(q, is).is = is
      BY DEF Part
    <3> QED
      BY <3>1
  <2>3. PICK w : w = [l \in 1..K |-> p]
    OBVIOUS
  <2>4. w[K] = p /\ q + (K - K) = q /\ (\A l \in K..K : l = K) /\ (\A l \in K..(K - 1) : FALSE)
    BY <2>3
  <2>5. EndFrom(ts, frames, next, n, q, K, w)
    BY <1>1, <2>1, <2>2, <2>4, Zenon DEF EndFrom
  <2> QED
    BY <2>5
<1>3. ASSUME NEW k \in 1..(K - 1), k + 1 \in S
      PROVE  k \in S
  <2>1. PICK w : EndFrom(ts, frames, next, n, q, k + 1, w)
    BY <1>3
  <2>2. \E v : EndFrom(ts, frames, next, n, q, k, v)
    BY <1>1, <2>1, OneMoreEnds
  <2> QED
    BY <2>2
<1> HIDE DEF S
<1>4. \A k \in 1..K : k \in S
  BY <1>2, <1>3, Backwards
<1>5. 1 \in 1..K
  OBVIOUS
<1>6. 1 \in S
  BY <1>4, <1>5
<1>7. PICK w : EndFrom(ts, frames, next, n, q, 1, w)
  BY <1>6 DEF S
<1>8. Len(ts) + 1 = q + (K - 1)
  BY <1>1, Zenon DEF ClosedBehind
<1>9. w[1].to = Len(ts) + 1
  BY <1>1, <1>5, <1>7, <1>8, Zenon DEF EndFrom
<1>10. Completes(ts, frames, next, n, w[1].is, w)
  BY <1>1, <1>7, <1>9, Zenon DEF EndFrom, Completes
<1> QED
  BY <1>10, Zenon DEF Leads

\* One sequence and then another.
AreJoined(x, y, z) ==
  /\ IsSeq(z) /\ Len(z) = Len(x) + Len(y) /\ Len(x) \in Nat /\ Len(y) \in Nat
  /\ \A n \in 1..Len(x) : z[n] = x[n]
  /\ \A n \in 1..Len(y) : z[Len(x) + n] = y[n]

\* Joining gives that.
LEMMA ConcatIs ==
  ASSUME NEW x, NEW y, IsSeq(x), IsSeq(y)
  PROVE  AreJoined(x, y, x \o y)
<1>1. PICK S : x \in Seq(S)
  BY DEF IsSeq
<1>2. PICK T : y \in Seq(T)
  BY DEF IsSeq
<1>3. PICK U : U = S \cup T
  OBVIOUS
<1>4. x \in Seq(U) /\ y \in Seq(U)
  BY <1>1, <1>2, <1>3, SeqMonotonic
<1>5. PICK z : z = x \o y
  OBVIOUS
<1>6. /\ z \in Seq(U) /\ Len(z) = Len(x) + Len(y) /\ Len(x) \in Nat /\ Len(y) \in Nat
      /\ \A n \in 1..(Len(x) + Len(y)) : z[n] = IF n <= Len(x) THEN x[n] ELSE y[n - Len(x)]
  BY <1>4, <1>5, ConcatProperties, LenProperties
<1>7. \A n \in 1..Len(x) : z[n] = x[n]
  BY <1>6
<1>8. \A n \in 1..Len(y) : z[Len(x) + n] = y[n]
  <2> SUFFICES ASSUME NEW n \in 1..Len(y)
               PROVE  z[Len(x) + n] = y[n]
    OBVIOUS
  <2>1. /\ Len(x) + n \in 1..(Len(x) + Len(y)) /\ ~(Len(x) + n <= Len(x))
        /\ (Len(x) + n) - Len(x) = n
    BY <1>6
  <2> QED
    BY <1>6, <2>1
<1> QED
  BY <1>5, <1>6, <1>7, <1>8, Zenon DEF AreJoined, IsSeq

\* What is missing is a sequence,
LEMMA MissingSeq ==
  ASSUME NEW next \in {"key", "colon", "value", "first", "separator"}
  PROVE  IsSeq(MissingAt(next))
<1>1. \A a, b, c : IsSeq(<<a, b, c>>)
  <2> SUFFICES ASSUME NEW a, NEW b, NEW c
               PROVE  IsSeq(<<a, b, c>>)
    OBVIOUS
  <2>1. <<a, b, c>> \in Seq({a, b, c})
    OBVIOUS
  <2> QED
    BY <2>1, Zenon DEF IsSeq
<1>2. \A a, b : IsSeq(<<a, b>>)
  <2> SUFFICES ASSUME NEW a, NEW b
               PROVE  IsSeq(<<a, b>>)
    OBVIOUS
  <2>1. <<a, b>> \in Seq({a, b})
    OBVIOUS
  <2> QED
    BY <2>1, Zenon DEF IsSeq
<1> QED
  BY <1>1, <1>2, OneIsSeq, EmptyIsSeq, MissingIs, Zenon

\* The brackets that close the frames, the innermost first.
BracketsOf(frames) == [n \in 1..(Len(frames) - 1) |-> Mark("bracket", Closer(frames[Len(frames) - n + 1].kind))]

\* and so are the brackets.
LEMMA BracketsAre ==
  ASSUME NEW frames, NEW K \in Nat \ {0}, K = Len(frames)
  PROVE  /\ IsSeq(BracketsOf(frames)) /\ Len(BracketsOf(frames)) = K - 1
         /\ \A n \in 1..(K - 1) : IsBracket(BracketsOf(frames)[n], Closer(frames[K - n + 1].kind))
<1>1. PICK k \in Nat : k = K - 1
  OBVIOUS
<1>2. PICK all : all = [n \in 1..k |-> Mark("bracket", Closer(frames[K - n + 1].kind))]
  OBVIOUS
<1>3. PICK S : S = {Mark("bracket", Closer(frames[K - n + 1].kind)) : n \in 1..k}
  OBVIOUS
<1>4. all \in [1..k -> S]
  BY <1>2, <1>3
<1>5. all \in Seq(S) /\ Len(all) = k
  BY <1>4
<1>6. \A symbol : IsBracket(Mark("bracket", symbol), symbol)
  BY DEF Mark, IsBracket
<1>7. \A n \in 1..k : IsBracket(all[n], Closer(frames[K - n + 1].kind))
  BY <1>2, <1>6
<1>8. BracketsOf(frames) = all
  BY <1>1, <1>2, Zenon DEF BracketsOf
<1> QED
  BY <1>1, <1>5, <1>7, <1>8, Zenon DEF IsSeq

\* What is read, with an item and brackets behind it, is a file.
CompletedBy(ts, read, frames, next) ==
  /\ IsSeq(ts) /\ Len(ts) >= Len(read) /\ \A n \in 1..Len(read) : ts[n] = read[n]
  /\ \E result : Leads(ts, frames, next, Len(read) + 1, result)

\* With what is missing, something completes the file,
LEMMA CanComplete ==
  ASSUME NEW read, IsSeq(read), NEW frames, StackOK(frames),
         NEW next \in {"key", "colon", "value", "first", "separator"},
         NEW ts, ts = (read \o MissingAt(next)) \o BracketsOf(frames)
  PROVE  CompletedBy(ts, read, frames, next)
<1>1. PICK K \in Nat \ {0} : K = Len(frames)
  BY TopIs
<1>2. PICK f : f = frames[K] /\ FrameOK(f) /\ f.kind \in Kinds
  BY <1>1, TopIs
<1>3. PICK item : item = MissingAt(next) /\ IsSeq(item)
  BY MissingSeq
<1>4. PICK front : front = read \o item
  OBVIOUS
<1>5. AreJoined(read, item, front)
  BY <1>3, <1>4, ConcatIs
<1>6. IsSeq(front)
  BY <1>5, Zenon DEF AreJoined
<1>7. PICK ends : /\ ends = BracketsOf(frames) /\ IsSeq(ends) /\ Len(ends) = K - 1
                  /\ \A n \in 1..(K - 1) : IsBracket(ends[n], Closer(frames[K - n + 1].kind))
  BY <1>1, BracketsAre
<1>8. ts = front \o ends
  BY <1>3, <1>4, <1>7, Zenon
<1>9. AreJoined(front, ends, ts)
  BY <1>6, <1>7, <1>8, ConcatIs
<1>10. PICK h \in Nat : h = Len(read)
  BY <1>5 DEF AreJoined
<1>11. PICK l \in Nat : l = Len(item)
  BY <1>5 DEF AreJoined
<1>12. Len(front) = h + l /\ Len(ts) = h + l + (K - 1)
  BY <1>5, <1>7, <1>9, <1>10, <1>11 DEF AreJoined
<1>13. PICK q \in Nat \ {0} : q = h + 1 + l
  OBVIOUS
<1>14. \A n \in 1..(h + l) : ts[n] = front[n]
  BY <1>9, <1>12, Zenon DEF AreJoined
<1>15. \A n \in 1..(K - 1) : ts[h + l + n] = ends[n]
  BY <1>7, <1>9, <1>12, Zenon DEF AreJoined
<1>16. \A n \in 1..h : ts[n] = read[n]
  <2>1. \A n \in 1..h : n \in 1..(h + l)
    OBVIOUS
  <2> QED
    BY <1>5, <1>10, <1>14, <2>1, Zenon DEF AreJoined
<1>17. StandsAt(ts, h + 1, item)
  <2> SUFFICES ASSUME NEW n \in 1..l
               PROVE  (h + 1) + n - 1 \in 1..Len(ts) /\ ts[(h + 1) + n - 1] = item[n]
    BY <1>11, Zenon DEF StandsAt
  <2>1. (h + 1) + n - 1 = h + n /\ h + n \in 1..(h + l) /\ h + n \in 1..Len(ts)
    BY <1>12
  <2>2. front[h + n] = item[n]
    BY <1>5, <1>10, <1>11, Zenon DEF AreJoined
  <2> QED
    BY <1>14, <2>1, <2>2, Zenon
<1>18. CanEndAt(ts, f, next, h + 1, q)
  <2>1. Len(ts) \in Nat /\ h + 1 \in 1..(Len(ts) + 1)
    BY <1>12
  <2>2. (h + 1) + Len(item) = q
    BY <1>11, <1>13
  <2> QED
    BY <1>2, <1>3, <1>17, <2>1, <2>2, ItemThere, Zenon
<1>19. ClosedBehind(ts, frames, q)
  <2>1. Len(ts) + 1 = q + (K - 1)
    BY <1>12, <1>13
  <2>2. ASSUME NEW k \in 1..(K - 1)
        PROVE  /\ q + (K - (k + 1)) \in 1..Len(ts)
               /\ IsBracket(ts[q + (K - (k + 1))], Closer(frames[k + 1].kind))
    <3>1. PICK n \in 1..(K - 1) : n = K - k
      OBVIOUS
    <3>2. q + (K - (k + 1)) = h + l + n /\ h + l + n \in 1..Len(ts) /\ K - n + 1 = k + 1
      BY <1>12, <1>13, <3>1
    <3> QED
      BY <1>7, <1>15, <3>2, Zenon
  <2> QED
    BY <1>1, <2>1, <2>2, Zenon DEF ClosedBehind
<1>20. Len(ts) \in Nat /\ Len(ts) >= h
  BY <1>12
<1>21. \E result : Leads(ts, frames, next, h + 1, result)
  BY <1>1, <1>2, <1>18, <1>19, <1>20, CanLead, Zenon
<1>22. IsSeq(ts)
  BY <1>9, Zenon DEF AreJoined
<1> QED
  BY <1>10, <1>16, <1>20, <1>21, <1>22, Zenon DEF CompletedBy

\* and what completes it is a reading: there is a file that begins so.
LEMMA SomethingCompletes ==
  ASSUME ScanInv, ParseInv, IsScanned, Sound(tokens, j, stack, expect) \/ IsStuck
  PROVE  \E separator \in MissingSeparators :
           File(UpTo(tokens, j - 1) \o separator \o MissingItem \o MissingBrackets) # {}
<1>1. PICK read : read = UpTo(tokens, j - 1)
  OBVIOUS
<1>2. PICK h \in Nat : h = j - 1 /\ j = h + 1 /\ h \in 0..Len(tokens)
  <2>1. j \in 1..Len(tokens) /\ Len(tokens) \in Nat
    BY IndexType, LastIsEnd
  <2>2. j - 1 \in Nat /\ j = (j - 1) + 1 /\ j - 1 \in 0..Len(tokens)
    BY <2>1
  <2> QED
    BY <2>2
<1>3. IsSeq(read) /\ Len(read) = h /\ \A n \in 1..h : read[n] = tokens[n]
  BY <1>1, <1>2, LastIsEnd, UpToIs, Zenon
<1>4. MissingItem = MissingAt(expect)
  BY Zenon DEF MissingItem, MissingAt
<1>5. MissingBrackets = BracketsOf(stack)
  BY Zenon DEF MissingBrackets, BracketsOf
<1>6. StackOK(stack) /\ expect \in {"key", "colon", "value", "first", "separator"}
  BY DEF ParseInv
<1>7. CASE Sound(tokens, j, stack, expect)
  <2>1. <<>> \in MissingSeparators
    BY DEF MissingSeparators
  <2>2. read \o <<>> = read
    BY <1>3, NothingMore
  <2>3. PICK ts : ts = (read \o MissingAt(expect)) \o BracketsOf(stack)
    OBVIOUS
  <2>4. CompletedBy(ts, read, stack, expect)
    BY <1>3, <1>6, <2>3, CanComplete
  <2>5. IsSeq(ts) /\ Len(ts) >= h /\ \A n \in 1..h : ts[n] = read[n]
    BY <1>3, <2>4, Zenon DEF CompletedBy
  <2>6. PICK result : Leads(ts, stack, expect, j, result)
    BY <1>2, <1>3, <2>4, Zenon DEF CompletedBy
  <2>7. Agrees(ts, tokens, j - 1)
    BY <1>2, <1>3, <2>5, Zenon DEF Agrees
  <2>8. result \in File(ts)
    BY <1>7, <2>6, <2>7, Zenon DEF Sound
  <2>9. File(UpTo(tokens, j - 1) \o <<>> \o MissingItem \o MissingBrackets) # {}
    BY <1>1, <1>4, <1>5, <2>2, <2>3, <2>8, Zenon
  <2> QED
    BY <2>1, <2>9, Zenon
<1>8. CASE IsStuck
  <2>1. AtEnd /\ SoundPast(tokens, j, stack, expect)
    BY <1>8, Zenon DEF IsStuck
  <2>2. <<Comma>> \in MissingSeparators
    BY <2>1 DEF MissingSeparators, Comma
  <2>3. PICK past : past = read \o <<Comma>>
    OBVIOUS
  <2>4. AreJoined(read, <<Comma>>, past)
    BY <1>3, <2>3, OneIsSeq, ConcatIs
  <2>5. IsSeq(past) /\ Len(past) = h + 1 /\ past[h + 1] = Comma /\ \A n \in 1..h : past[n] = read[n]
    <3>1. Len(<<Comma>>) = 1 /\ <<Comma>>[1] = Comma /\ 1 \in 1..1
      OBVIOUS
    <3> QED
      BY <1>3, <2>4, <3>1, Zenon DEF AreJoined
  <2>6. PICK ts : ts = (past \o MissingAt(expect)) \o BracketsOf(stack)
    OBVIOUS
  <2>7. CompletedBy(ts, past, stack, expect)
    BY <1>6, <2>5, <2>6, CanComplete
  <2>8. IsSeq(ts) /\ Len(ts) >= h + 1 /\ \A n \in 1..(h + 1) : ts[n] = past[n]
    BY <2>5, <2>7, Zenon DEF CompletedBy
  <2>9. PICK result : Leads(ts, stack, expect, j + 1, result)
    BY <1>2, <2>5, <2>7, Zenon DEF CompletedBy
  <2>10. /\ h + 1 \in 1..(h + 1) /\ \A n \in 1..h : n \in 1..(h + 1)
    OBVIOUS
  <2>11. Len(ts) \in Nat
    BY <2>8, SeqLen
  <2>12. Len(ts) >= h
    BY <2>8, <2>11
  <2>13. Agrees(ts, tokens, j - 1)
    BY <1>2, <1>3, <2>5, <2>8, <2>10, <2>12, Zenon DEF Agrees
  <2>14. Len(ts) >= j /\ ts[j] = Comma
    BY <1>2, <2>5, <2>8, <2>10, Zenon
  <2>15. result \in File(ts)
    BY <2>1, <2>9, <2>13, <2>14, Zenon DEF SoundPast
  <2>16. File(UpTo(tokens, j - 1) \o <<Comma>> \o MissingItem \o MissingBrackets) # {}
    BY <1>1, <1>4, <1>5, <2>3, <2>6, <2>15, Zenon
  <2> QED
    BY <2>2, <2>16, Zenon
<1> QED
  BY <1>7, <1>8

\* That is what the invariant says of the place where the parser stops.
LEMMA StopsFollows == ConfigInv /\ GrammarInv => StopsAtFirstError
<1> SUFFICES ASSUME ConfigInv, GrammarInv, pc \in {"parse", "syntax error"}
             PROVE  \E separator \in MissingSeparators :
                      File(UpTo(tokens, j - 1) \o separator \o MissingItem \o MissingBrackets) # {}
  BY Zenon DEF StopsAtFirstError
<1>1. ScanInv /\ ParseInv /\ IsScanned
  BY DEF ConfigInv, PhaseInv
<1>2. Sound(tokens, j, stack, expect) \/ IsStuck
  BY Zenon DEF GrammarInv
<1> QED
  BY <1>1, <1>2, SomethingCompletes, Zenon

(* -- What a user of the language relies on ----------------------------------- *)

(* What bootable_parser_parse and the functions of var.c below it accept is *)
(* what the grammar reads, in the only way it can be read, and what they    *)
(* refuse cannot be read at all: for every file, of any length, with        *)
(* brackets nested to any depth.                                            *)
THEOREM GrammarAlwaysParsed == Spec => []ParsesTheGrammar
<1>1. ConfigInv /\ Untouched /\ GrammarInv => ParsesTheGrammar
  BY ParsesFollows
<1> QED
  BY <1>1, GrammarInvariance, PTL

(* The place that the parser reports, in bootable_key_parse,                *)
(* bootable_value_parse or the parsing of lists and objects, is the first   *)
(* that cannot be right: what is in front of it is the beginning of some    *)
(* file, for every file and at every point of its parsing.                  *)
THEOREM FirstErrorAlwaysFound == Spec => []StopsAtFirstError
<1>1. ConfigInv /\ Untouched /\ GrammarInv => StopsAtFirstError
  BY StopsFollows
<1> QED
  BY <1>1, GrammarInvariance, PTL
=============================================================================
