---------------------------- MODULE ConfigProofs ----------------------------
(****************************************************************************)
(* What loading a configuration keeps true, for every vocabulary, every set *)
(* of sources over it, however long, and every set of numbers and units.    *)
(****************************************************************************)
EXTENDS Config, FiniteSetTheorems, SequenceTheorems, TLAPS

(* -- Numbers ----------------------------------------------------------------- *)

(* The library's induction theorems are about an operator.  That strict     *)
(* inclusion of finite sets is well-founded says the same about a set.      *)
LEMMA LeastOne ==
  ASSUME NEW S \in SUBSET Nat, S # {}
  PROVE  \E m \in S : \A n \in S : m <= n
<1>1. PICK k \in S : TRUE
  OBVIOUS
<1> DEFINE Below(m) == S \cap (0..m)
           T == {Below(m) : m \in S \cap (0..k)}
<1>2. IsFiniteSet(0..k)
  BY FS_Interval
<1>3. T \subseteq FiniteSubsetsOf(0..k) /\ T # {}
  <2>1. \A m \in S \cap (0..k) : Below(m) \subseteq 0..k
    OBVIOUS
  <2>2. \A m \in S \cap (0..k) : IsFiniteSet(Below(m))
    BY <1>2, <2>1, FS_Subset
  <2>3. k \in S \cap (0..k)
    OBVIOUS
  <2> QED
    BY <2>1, <2>2, <2>3 DEF FiniteSubsetsOf
<1>4. PICK A \in T : \A B \in T : ~(<<B, A>> \in StrictSubsetOrdering(0..k))
  <2> HIDE DEF T
  <2> QED
    BY <1>2, <1>3, FS_StrictSubsetOrderingWellFounded, WFMin, Zenon
<1>5. PICK m \in S \cap (0..k) : A = Below(m)
  OBVIOUS
<1>6. ASSUME NEW n \in S, n < m
      PROVE  FALSE
  <2>1. /\ n \in S \cap (0..k) /\ Below(n) \subseteq Below(m)
        /\ m \in Below(m) /\ m \notin Below(n)
    BY <1>6
  <2>2. <<Below(n), Below(m)>> \in StrictSubsetOrdering(0..k)
    BY <2>1 DEF StrictSubsetOrdering
  <2> QED
    BY <1>4, <1>5, <2>1, <2>2
<1> QED
  BY <1>6

LEMMA GreatestOne ==
  ASSUME NEW N \in Nat, NEW S \in SUBSET (0..N), S # {}
  PROVE  \E m \in S : \A n \in S : n <= m
<1> DEFINE T == {N - n : n \in S}
<1>1. T \in SUBSET Nat /\ T # {}
  <2>1. \A n \in S : N - n \in Nat
    OBVIOUS
  <2>2. PICK k \in S : TRUE
    OBVIOUS
  <2>3. N - k \in T
    BY <2>2
  <2> QED
    BY <2>1, <2>3
<1>2. PICK l \in T : \A n \in T : l <= n
  <2> HIDE DEF T
  <2> QED
    BY <1>1, LeastOne
<1>3. PICK m \in S : l = N - m
  OBVIOUS
<1>4. \A n \in S : N - m <= N - n
  BY <1>2, <1>3
<1> QED
  BY <1>4

(* -- Lines and columns ------------------------------------------------------- *)

(* The operators of Scanner with the source as a parameter.                  *)
NewlinesIn(s, from, to) == {n \in from..to : s[n] = "newline"}
IsLastOf(S, m) == m \in {0} \cup S /\ \A h \in S : h <= m
LastOf(S) == CHOOSE m \in {0} \cup S : \A h \in S : h <= m
GreatestIn(S) == CHOOSE m \in S : \A h \in S : h <= m
LineAt(s, n) == 1 + Cardinality(NewlinesIn(s, 1, n - 1))
ColumnAt(s, n) == n - LastOf(NewlinesIn(s, 1, n - 1))
PlaceAt(s, t) == CHOOSE n \in 1..Len(s) : LineAt(s, n) = t.line /\ ColumnAt(s, n) = t.column
TextIn(s, n, t) == IF t.type = "quote" THEN <<s[n]>> \o t.data \o <<s[n]>> ELSE t.data

LEMMA SameOperators ==
  /\ \A a, b : Newlines(a, b) = NewlinesIn(source, a, b)
  /\ \A n : LineOf(n) = LineAt(source, n)
  /\ \A n : ColumnOf(n) = ColumnAt(source, n)
  /\ \A t : PlaceOf(t) = PlaceAt(source, t)
  /\ \A n, t : TextAt(n, t) = TextIn(source, n, t)
<1>1. \A a, b : Newlines(a, b) = NewlinesIn(source, a, b)
  BY DEF Newlines, NewlinesIn
<1>2. \A n : LineOf(n) = LineAt(source, n)
  BY <1>1 DEF LineOf, LineAt
<1>3. \A n : ColumnOf(n) = ColumnAt(source, n)
  BY <1>1, Zenon DEF ColumnOf, ColumnAt, LastOf
<1>4. \A t : PlaceOf(t) = PlaceAt(source, t)
  BY <1>2, <1>3, Zenon DEF PlaceOf, PlaceAt
<1>5. \A n, t : TextAt(n, t) = TextIn(source, n, t)
  BY Zenon DEF TextAt, TextIn
<1> QED
  BY <1>1, <1>2, <1>3, <1>4, <1>5

LEMMA LastIs ==
  ASSUME NEW N \in Nat, NEW S \in SUBSET (1..N)
  PROVE  IsLastOf(S, LastOf(S))
<1>1. {0} \cup S \in SUBSET (0..N) /\ {0} \cup S # {}
  OBVIOUS
<1>2. \E m \in {0} \cup S : \A n \in {0} \cup S : n <= m
  BY <1>1, GreatestOne
<1>3. \E m \in {0} \cup S : \A h \in S : h <= m
  BY <1>2
<1> QED
  BY <1>3, Zenon DEF IsLastOf, LastOf

LEMMA OnlyLast ==
  ASSUME NEW N \in Nat, NEW S \in SUBSET (1..N), NEW m, IsLastOf(S, m)
  PROVE  LastOf(S) = m
<1>1. IsLastOf(S, LastOf(S))
  BY LastIs
<1>2. /\ m \in {0} \cup S /\ LastOf(S) \in {0} \cup S
      /\ \A h \in S : h <= m /\ h <= LastOf(S)
  BY <1>1 DEF IsLastOf
<1>3. ASSUME NEW l \in {0} \cup S
      PROVE  l \in 0..N
  BY <1>3
<1>4. m \in 0..N /\ LastOf(S) \in 0..N
  BY <1>2, <1>3
<1>5. ASSUME NEW l \in {0} \cup S, NEW k \in {0} \cup S, \A h \in S : h <= l
      PROVE  k <= l
  BY <1>5, <1>3
<1>6. m <= LastOf(S) /\ LastOf(S) <= m
  BY <1>2, <1>5
<1> QED
  BY <1>4, <1>6

LEMMA NewlinesFinite ==
  ASSUME NEW s, NEW a \in Int, NEW b \in Int
  PROVE  /\ IsFiniteSet(NewlinesIn(s, a, b))
         /\ Cardinality(NewlinesIn(s, a, b)) \in Nat
<1>1. NewlinesIn(s, a, b) \in SUBSET (a..b)
  BY DEF NewlinesIn
<1>2. IsFiniteSet(NewlinesIn(s, a, b))
  BY <1>1, FS_Interval, FS_Subset
<1> QED
  BY <1>2, FS_CardinalityType

LEMMA LastNewline ==
  ASSUME NEW s, NEW n \in Nat \ {0}
  PROVE  LastOf(NewlinesIn(s, 1, n - 1)) \in 0..(n - 1)
<1>1. PICK N \in Nat : N = n - 1
  OBVIOUS
<1> DEFINE S == NewlinesIn(s, 1, N)
<1>2. S \in SUBSET (1..N)
  BY DEF NewlinesIn
<1> HIDE DEF S
<1>3. LastOf(S) \in {0} \cup S
  BY <1>2, LastIs DEF IsLastOf
<1>4. ASSUME NEW l \in {0} \cup S
      PROVE  l \in 0..N
  BY <1>2, <1>4
<1>5. LastOf(S) \in 0..N
  BY <1>3, <1>4
<1> QED
  BY <1>1, <1>5 DEF S

LEMMA PlaceType ==
  ASSUME NEW s, NEW n \in Nat \ {0}
  PROVE  /\ LineAt(s, n) \in Nat /\ LineAt(s, n) >= 1
         /\ ColumnAt(s, n) \in 1..n
<1> DEFINE S == NewlinesIn(s, 1, n - 1)
<1>1. Cardinality(S) \in Nat
  BY NewlinesFinite
<1>2. LastOf(S) \in 0..(n - 1)
  BY LastNewline
<1>3. LineAt(s, n) = 1 + Cardinality(S) /\ ColumnAt(s, n) = n - LastOf(S)
  BY Zenon DEF LineAt, ColumnAt
<1> HIDE DEF S
<1> QED
  BY <1>1, <1>2, <1>3

\* What source_pos_update must make of the newlines it passes.
Advanced(s, n, w, passed) ==
  /\ LineAt(s, n + w) = LineAt(s, n) + Cardinality(passed)
  /\ passed = {} => ColumnAt(s, n + w) = ColumnAt(s, n) + w
  /\ passed # {} => ColumnAt(s, n + w) = n + w - GreatestIn(passed)

LEMMA MovedRight ==
  ASSUME NEW s, NEW n \in Nat \ {0}, NEW w \in Nat \ {0}
  PROVE  Advanced(s, n, w, NewlinesIn(s, n, n + w - 1))
<1> DEFINE A == NewlinesIn(s, 1, n - 1)
           B == NewlinesIn(s, n, n + w - 1)
           C == NewlinesIn(s, 1, (n + w) - 1)
<1>1. A \cup B = C /\ A \cap B = {}
  BY DEF NewlinesIn
<1>2. /\ A \in SUBSET (1..(n - 1)) /\ B \in SUBSET (n..(n + w - 1)) /\ C \in SUBSET (1..(n + w - 1))
      /\ n - 1 \in Nat /\ n + w - 1 \in Nat
  BY DEF NewlinesIn
<1>3. Cardinality(C) = Cardinality(A) + Cardinality(B)
  <2> HIDE DEF A, B, C
  <2>1. IsFiniteSet(A) /\ IsFiniteSet(B) /\ Cardinality(A) \in Nat /\ Cardinality(B) \in Nat
    BY NewlinesFinite DEF A, B
  <2>2. Cardinality(A \cup B) = Cardinality(A) + Cardinality(B) - Cardinality(A \cap B)
    BY <2>1, FS_Union
  <2>3. Cardinality(A \cap B) = 0
    BY <1>1, FS_EmptySet
  <2>4. Cardinality(C) = Cardinality(A) + Cardinality(B) - 0
    BY <1>1, <2>2, <2>3, Zenon
  <2> QED
    BY <2>1, <2>4
<1>4. LineAt(s, n + w) = LineAt(s, n) + Cardinality(B)
  <2>1. Cardinality(A) \in Nat /\ Cardinality(B) \in Nat
    BY NewlinesFinite
  <2> QED
    BY <1>3, <2>1 DEF LineAt
<1>5. ASSUME B = {}
      PROVE  ColumnAt(s, n + w) = ColumnAt(s, n) + w
  <2>1. C = A
    <3> HIDE DEF A, B, C
    <3> QED
      BY <1>1, <1>5
  <2>2. LastOf(A) \in 0..(n - 1)
    BY LastNewline
  <2>3. ColumnAt(s, n + w) = (n + w) - LastOf(A)
    <3>1. ColumnAt(s, n + w) = (n + w) - LastOf(C)
      BY DEF ColumnAt
    <3> HIDE DEF A, C
    <3> QED
      BY <2>1, <3>1, Zenon
  <2>4. ColumnAt(s, n) = n - LastOf(A)
    BY Zenon DEF ColumnAt
  <2> HIDE DEF A
  <2> QED
    BY <2>2, <2>3, <2>4
<1>6. ASSUME B # {}
      PROVE  ColumnAt(s, n + w) = n + w - GreatestIn(B)
  <2> DEFINE l == GreatestIn(B)
  <2>1. \E m \in B : \A h \in B : h <= m
    <3> HIDE DEF B
    <3>1. B \in SUBSET (0..(n + w - 1))
      BY <1>2
    <3> QED
      BY <1>2, <1>6, <3>1, GreatestOne
  <2>2. l \in B /\ \A h \in B : h <= l
    BY <2>1, Zenon DEF GreatestIn
  <2>3. IsLastOf(C, l)
    <3> HIDE DEF l, A, B, C
    <3>1. l \in n..(n + w - 1) /\ \A h \in A : h <= n - 1
      BY <1>2, <2>2
    <3>2. \A h \in A : h <= l
      BY <1>2, <3>1
    <3> QED
      BY <1>1, <2>2, <3>2 DEF IsLastOf
  <2>4. LastOf(C) = l
    <3> HIDE DEF l, C
    <3> QED
      BY <1>2, <2>3, OnlyLast
  <2>5. ColumnAt(s, n + w) = (n + w) - LastOf(C)
    BY DEF ColumnAt
  <2> HIDE DEF l, C
  <2>6. ColumnAt(s, n + w) = (n + w) - l
    BY <2>4, <2>5, Zenon
  <2>7. l \in Nat
    BY <1>2, <2>2
  <2>8. ColumnAt(s, n + w) = n + w - l
    BY <2>6, <2>7
  <2> QED
    BY <2>8, Zenon DEF l
<1> QED
  BY <1>4, <1>5, <1>6, Zenon DEF Advanced

\* No two places have the same line and column.
LEMMA PlacesDiffer ==
  ASSUME NEW s, NEW m \in Nat \ {0}, NEW n \in Nat \ {0},
         LineAt(s, m) = LineAt(s, n), ColumnAt(s, m) = ColumnAt(s, n)
  PROVE  m = n
<1>1. ASSUME NEW a \in Nat \ {0}, NEW b \in Nat \ {0}, a <= b,
             LineAt(s, a) = LineAt(s, b), ColumnAt(s, a) = ColumnAt(s, b)
      PROVE  a = b
  <2> DEFINE A == NewlinesIn(s, 1, a - 1)
             B == NewlinesIn(s, 1, b - 1)
  <2>1. A \in SUBSET B
    BY <1>1 DEF NewlinesIn
  <2>2. IsFiniteSet(B) /\ Cardinality(A) \in Nat /\ Cardinality(B) \in Nat
    BY NewlinesFinite
  <2>3. Cardinality(A) = Cardinality(B)
    BY <1>1, <2>2 DEF LineAt
  <2>4. A = B
    <3> HIDE DEF A, B
    <3> QED
      BY <2>1, <2>2, <2>3, FS_Subset
  <2>5. LastOf(A) \in 0..(a - 1)
    BY LastNewline
  <2>6. a - LastOf(A) = b - LastOf(A)
    BY <1>1, <2>4, Zenon DEF ColumnAt
  <2> HIDE DEF A
  <2> QED
    BY <2>5, <2>6
<1> QED
  BY <1>1

(* -- Lexemes ----------------------------------------------------------------- *)

\* Blanks and comments, between two places.
Commented(s, a, n) == \E m \in a..n : s[m] = "#" /\ \A h \in m..n : s[h] # "newline"
Skips(s, a, b) == \A n \in a..b : s[n] \in Blanks \/ Commented(s, a, n)

\* What NextLexeme must be at a place.
IsLexemeText(s, n, l) == LET text == TextIn(s, n, l)
                    IN /\ Len(text) = l.width
                       /\ SubSeq(s, n, n + l.width - 1) = text
LexemeOK(s, n, l) ==
  /\ l.width \in Nat \ {0} /\ n + l.width <= Len(s) + 1
  /\ l.type # "end"
  /\ l.type \in Rejected => Skips(s, n, n + l.width - 1)
  /\ l.type \notin Rejected => IsLexemeText(s, n, l)

InSource == source \in Seq(Words \cup Symbols) /\ i \in 1..Len(source)

LEMMA FirstIs ==
  ASSUME InSource, NEW S, NEW n \in i..(i + 1)
  PROVE  LET m == FirstIn(S, n)
         IN /\ m \in n..(Len(source) + 1)
            /\ m = Len(source) + 1 \/ source[m] \in S
            /\ \A h \in n..(m - 1) : source[h] \notin S
<1> DEFINE Stops(m) == m = Len(source) + 1 \/ source[m] \in S
           T == {m \in n..(Len(source) + 1) : Stops(m)}
<1>1. Len(source) \in Nat /\ n \in Nat /\ n <= Len(source) + 1
  BY DEF InSource
<1>2. T \in SUBSET Nat /\ Len(source) + 1 \in T
  BY <1>1
<1>3. PICK m \in T : \A h \in T : m <= h
  <2> HIDE DEF T
  <2> QED
    BY <1>2, LeastOne
<1>4. ASSUME NEW h \in n..(m - 1)
      PROVE  source[h] \notin S
  <2>1. h \in n..(Len(source) + 1) /\ ~(m <= h)
    BY <1>1, <1>3
  <2>2. h \notin T
    BY <1>3, <2>1
  <2> QED
    BY <2>1, <2>2
<1>5. \E k \in n..(Len(source) + 1) : /\ k = Len(source) + 1 \/ source[k] \in S
                                      /\ \A h \in n..(k - 1) : source[h] \notin S
  <2>1. m \in n..(Len(source) + 1) /\ (m = Len(source) + 1 \/ source[m] \in S)
    OBVIOUS
  <2> QED
    BY <1>4, <2>1
<1> QED
  BY <1>5, Zenon DEF FirstIn

LEMMA WhitespaceOK ==
  ASSUME InSource, source[i] \in Blanks
  PROVE  LexemeOK(source, i, Whitespace)
<1> DEFINE S == (Words \cup Symbols) \ Blanks
           end == FirstIn(S, i)
<1>1. /\ end \in i..(Len(source) + 1)
      /\ end = Len(source) + 1 \/ source[end] \in S
      /\ \A h \in i..(end - 1) : source[h] \notin S
  <2> HIDE DEF S
  <2>1. i \in i..(i + 1)
    BY DEF InSource
  <2> QED
    BY <2>1, FirstIs
<1>2. source[i] \notin S
  OBVIOUS
<1> HIDE DEF end
<1>3. end > i
  <2> HIDE DEF S
  <2> QED
    BY <1>1, <1>2 DEF InSource
<1>4. \A h \in i..(end - 1) : source[h] \in Blanks
  <2>1. \A h \in i..(end - 1) : source[h] \in Words \cup Symbols
    <3>1. i..(end - 1) \subseteq 1..Len(source)
      BY <1>1 DEF InSource
    <3> QED
      BY <3>1, ElementOfSeq DEF InSource
  <2> QED
    BY <1>1, <2>1
<1>5. PICK w \in Nat \ {0} : w = end - i
  BY <1>1, <1>3 DEF InSource
<1>6. i + w - 1 = end - 1 /\ i + w <= Len(source) + 1
  BY <1>1, <1>5 DEF InSource
<1>7. Skips(source, i, i + w - 1)
  BY <1>4, <1>6 DEF Skips
<1>8. /\ Whitespace = [type |-> "whitespace", data |-> SubSeq(source, i, end - 1), width |-> w]
  BY <1>5 DEF Whitespace, Lexeme, end
<1> QED
  BY <1>6, <1>7, <1>8 DEF LexemeOK, Rejected

LEMMA CommentOK ==
  ASSUME InSource, source[i] = "#"
  PROVE  LexemeOK(source, i, Comment)
<1> DEFINE S == {"newline"}
           end == FirstIn(S, i)
<1>1. /\ end \in i..(Len(source) + 1)
      /\ end = Len(source) + 1 \/ source[end] \in S
      /\ \A h \in i..(end - 1) : source[h] \notin S
  <2> HIDE DEF S
  <2>1. i \in i..(i + 1)
    BY DEF InSource
  <2> QED
    BY <2>1, FirstIs
<1>2. source[i] \notin S
  OBVIOUS
<1> HIDE DEF end
<1>3. end > i
  <2> HIDE DEF S
  <2> QED
    BY <1>1, <1>2 DEF InSource
<1>4. \A n \in i..(end - 1) : Commented(source, i, n)
  <2>1. ASSUME NEW n \in i..(end - 1)
        PROVE  \A h \in i..n : h \in i..(end - 1)
    BY <1>1 DEF InSource
  <2>2. ASSUME NEW n \in i..(end - 1)
        PROVE  i \in i..n
    BY <1>1 DEF InSource
  <2> QED
    BY <1>1, <2>1, <2>2 DEF Commented
<1>5. PICK w \in Nat \ {0} : w = end - i
  BY <1>1, <1>3 DEF InSource
<1>6. i + w - 1 = end - 1 /\ i + w <= Len(source) + 1
  BY <1>1, <1>5 DEF InSource
<1>7. Skips(source, i, i + w - 1)
  BY <1>4, <1>6 DEF Skips
<1>8. /\ Comment = [type |-> "comment", data |-> SubSeq(source, i + 1, end - 1), width |-> w]
  BY <1>5 DEF Comment, Lexeme, end
<1> QED
  BY <1>6, <1>7, <1>8 DEF LexemeOK, Rejected

LEMMA SingleOK ==
  ASSUME InSource, NEW type, type \notin {"quote", "end"} \cup Rejected
  PROVE  LexemeOK(source, i, Single(type))
<1> DEFINE l == Single(type)
<1>1. l.type = type /\ l.data = <<source[i]>> /\ l.width = 1
  BY DEF Single, Lexeme
<1>2. TextIn(source, i, l) = <<source[i]>>
  BY <1>1 DEF TextIn
<1>3. SubSeq(source, i, i) = <<source[i]>>
  <2>1. \A n \in i..i : source[n] \in Words \cup Symbols
    BY ElementOfSeq DEF InSource
  <2>2. /\ SubSeq(source, i, i) \in Seq(Words \cup Symbols)
        /\ Len(SubSeq(source, i, i)) = 1
        /\ SubSeq(source, i, i)[1] = source[i]
    BY <2>1, SubSeqProperties DEF InSource
  <2>3. /\ <<source[i]>> \in Seq(Words \cup Symbols)
        /\ Len(<<source[i]>>) = 1
        /\ <<source[i]>>[1] = source[i]
    BY <2>1 DEF InSource
  <2>4. \A n \in 1..1 : SubSeq(source, i, i)[n] = <<source[i]>>[n]
    BY <2>2, <2>3
  <2> QED
    BY <2>2, <2>3, <2>4, SeqEqual
<1>4. i + 1 - 1 = i /\ i + 1 <= Len(source) + 1
  BY DEF InSource
<1>5. IsLexemeText(source, i, l)
  BY <1>1, <1>2, <1>3, <1>4 DEF IsLexemeText
<1> QED
  BY <1>1, <1>4, <1>5 DEF LexemeOK

LEMMA QuotedOK ==
  ASSUME InSource, IsClosed
  PROVE  LexemeOK(source, i, Quoted)
<1> DEFINE W == Words \cup Symbols
           q == source[i]
           end == FirstIn({q}, i + 1)
<1>1. /\ source \in Seq(W) /\ i \in 1..Len(source) /\ Len(source) \in Nat
  BY DEF InSource
<1>2. /\ end \in (i + 1)..(Len(source) + 1)
      /\ end = Len(source) + 1 \/ source[end] \in {q}
      /\ \A h \in (i + 1)..(end - 1) : source[h] \notin {q}
  <2>1. i + 1 \in i..(i + 1)
    BY <1>1
  <2> QED
    BY <2>1, FirstIs
<1>3. PICK n \in (i + 1)..Len(source) : source[n] = q
  BY DEF IsClosed
<1> HIDE DEF end
<1>4. end \in (i + 1)..Len(source) /\ source[end] = q
  <2>1. ASSUME end = Len(source) + 1
        PROVE  FALSE
    <3>1. n \in (i + 1)..(end - 1)
      BY <1>1, <2>1
    <3> QED
      BY <1>2, <1>3, <3>1
  <2>2. end \in (i + 1)..Len(source)
    BY <1>1, <1>2, <2>1
  <2> QED
    BY <1>2, <2>1, <2>2
<1> DEFINE D == SubSeq(source, i + 1, end - 1)
<1>5. D \in Seq(W) /\ <<q>> \in Seq(W)
  <2>1. \A h \in (i + 1)..(end - 1) : source[h] \in W
    <3>1. (i + 1)..(end - 1) \subseteq 1..Len(source)
      BY <1>1, <1>4
    <3> QED
      BY <1>1, <3>1, ElementOfSeq
  <2>2. i + 1 \in Int /\ end - 1 \in Int
    BY <1>1, <1>4
  <2>3. q \in W
    BY <1>1, ElementOfSeq
  <2> HIDE DEF W, q
  <2> QED
    BY <2>1, <2>2, <2>3, SubSeqProperties
<1>6. SubSeq(source, i, end) = <<q>> \o D \o <<q>>
  <2>1. end \in i..Len(source) /\ i + 1 \in 1..Len(source)
    BY <1>1, <1>4
  <2>2. SubSeq(source, i, end) = <<q>> \o SubSeq(source, i + 1, end)
    BY <1>1, <2>1, SubSeqRecursiveFirst
  <2>3. SubSeq(source, i + 1, end) = D \o <<q>>
    BY <1>1, <1>4, <2>1, SubSeqRecursiveSecond
  <2> HIDE DEF D, q, W
  <2>4. (<<q>> \o D) \o <<q>> = <<q>> \o (D \o <<q>>)
    BY <1>5, ConcatAssociative
  <2> QED
    BY <2>2, <2>3, <2>4
<1>7. Len(SubSeq(source, i, end)) = end - i + 1
  <2>1. \A h \in i..end : source[h] \in W
    <3>1. i..end \subseteq 1..Len(source)
      BY <1>1, <1>4
    <3> QED
      BY <1>1, <3>1, ElementOfSeq
  <2>2. i \in Int /\ end \in Int /\ i <= end
    BY <1>1, <1>4
  <2> HIDE DEF W
  <2> QED
    BY <2>1, <2>2, SubSeqProperties
<1>8. PICK w \in Nat \ {0} : w = end - i + 1
  BY <1>1, <1>4
<1>9. i + w - 1 = end /\ i + w <= Len(source) + 1
  BY <1>1, <1>4, <1>8
<1>10. Quoted = [type |-> "quote", data |-> D, width |-> w]
  BY <1>8 DEF Quoted, Lexeme, end
<1>11. TextIn(source, i, Quoted) = SubSeq(source, i, end)
  BY <1>6, <1>10 DEF TextIn
<1>12. IsLexemeText(source, i, Quoted)
  <2>1. Quoted.width = w
    BY <1>10
  <2>2. SubSeq(source, i, i + w - 1) = SubSeq(source, i, end)
    BY <1>9
  <2>3. Len(SubSeq(source, i, end)) = w
    BY <1>7, <1>8
  <2> QED
    BY <1>11, <2>1, <2>2, <2>3, Zenon DEF IsLexemeText
<1> QED
  BY <1>9, <1>10, <1>12 DEF LexemeOK, Rejected

LEMMA NextLexemeOK ==
  ASSUME InSource
  PROVE  LexemeOK(source, i, NextLexeme)
<1> DEFINE here == source[i]
<1>1. \/ here \in Words /\ here \notin Symbols
      \/ here \in Symbols /\ here \notin Words
  BY ElementOfSeq, WordsAssumption DEF InSource
<1>2. CASE here \in Blanks
  <2>1. here \notin Quotes /\ here \notin Brackets /\ here \notin {"#", ":", ","} /\ here \in Symbols
    BY <1>2 DEF Blanks, Quotes, Brackets, Symbols
  <2>2. NextLexeme = Whitespace
    BY <1>1, <1>2, <2>1 DEF NextLexeme
  <2> QED
    BY <1>2, <2>2, WhitespaceOK
<1>3. CASE here = "#"
  <2>1. here \notin Quotes /\ here \notin Brackets /\ here \notin Blanks /\ here \in Symbols
    BY <1>3 DEF Blanks, Quotes, Brackets, Symbols
  <2>2. NextLexeme = Comment
    BY <1>1, <1>3, <2>1 DEF NextLexeme
  <2> QED
    BY <1>3, <2>2, CommentOK
<1>4. CASE here \in Quotes /\ IsClosed
  <2>1. /\ here \notin Blanks /\ here \notin Brackets /\ here \notin {"#", ":", ","}
        /\ here \in Symbols
    BY <1>4 DEF Blanks, Quotes, Brackets, Symbols
  <2>2. NextLexeme = Quoted
    BY <1>1, <1>4, <2>1 DEF NextLexeme
  <2> QED
    BY <1>4, <2>2, QuotedOK
<1>5. CASE here \notin Blanks /\ here # "#" /\ ~(here \in Quotes /\ IsClosed)
  <2>1. \/ NextLexeme = Single("bracket") \/ NextLexeme = Single("colon")
        \/ NextLexeme = Single("comma") \/ NextLexeme = Single("identifier")
        \/ NextLexeme = Single("unknown")
    <3>1. here \notin Blanks /\ here # "#"
      BY <1>5
    <3>2. ~(here \in Quotes /\ IsClosed)
      BY <1>5
    <3>3. CASE here \in Brackets
      BY <3>1, <3>2, <3>3 DEF NextLexeme
    <3>4. CASE here \notin Brackets
      <4>1. CASE here = ":"
        BY <3>1, <3>2, <3>4, <4>1 DEF NextLexeme
      <4>2. CASE here = ","
        <5>1. here \notin Words /\ here # ":"
          BY <1>1, <4>2 DEF Symbols
        <5> QED
          BY <3>1, <3>2, <3>4, <4>2, <5>1 DEF NextLexeme
      <4>3. CASE here # ":" /\ here # "," /\ here \in Words
        BY <3>1, <3>2, <3>4, <4>3 DEF NextLexeme
      <4>4. CASE here # ":" /\ here # "," /\ here \notin Words
        BY <3>1, <3>2, <3>4, <4>4 DEF NextLexeme
      <4> QED
        BY <4>1, <4>2, <4>3, <4>4
    <3> QED
      BY <3>3, <3>4
  <2>2. \E type \in {"bracket", "colon", "comma", "identifier", "unknown"} :
          NextLexeme = Single(type)
    BY <2>1
  <2>3. PICK type \in {"bracket", "colon", "comma", "identifier", "unknown"} :
          NextLexeme = Single(type)
    BY <2>2
  <2>4. type \notin {"quote", "end"} \cup Rejected
    BY DEF Rejected
  <2>5. LexemeOK(source, i, Single(type))
    BY <2>4, SingleOK
  <2> QED
    BY <2>3, <2>5
<1> QED
  BY <1>2, <1>3, <1>4, <1>5

(* -- What has been read ------------------------------------------------------ *)

IsSeq(x) == \E S : x \in Seq(S)

LEMMA Lengthened ==
  ASSUME NEW x, IsSeq(x), NEW e
  PROVE  /\ IsSeq(Append(x, e)) /\ Len(x) \in Nat
         /\ Len(Append(x, e)) = Len(x) + 1
         /\ \A n \in 1..Len(x) : Append(x, e)[n] = x[n]
         /\ Append(x, e)[Len(x) + 1] = e
<1>1. PICK S : x \in Seq(S)
  BY DEF IsSeq
<1>2. PICK T : T = S \cup {e}
  OBVIOUS
<1>3. x \in Seq(T) /\ e \in T
  BY <1>1, <1>2, SeqMonotonic
<1>4. /\ Append(x, e) \in Seq(T) /\ Len(x) \in Nat
      /\ Len(Append(x, e)) = Len(x) + 1
      /\ \A n \in 1..Len(x) : Append(x, e)[n] = x[n]
      /\ Append(x, e)[Len(x) + 1] = e
  BY <1>3, AppendProperties, LenProperties
<1> QED
  BY <1>4 DEF IsSeq

\* A token is at a place, all of it in the source.
At(s, t, p) == LET text == TextIn(s, p, t)
               IN /\ p \in 1..Len(s) /\ LineAt(s, p) = t.line /\ ColumnAt(s, p) = t.column
                  /\ Len(text) \in Nat \ {0} /\ p + Len(text) <= Len(s) + 1
                  /\ SubSeq(s, p, p + Len(text) - 1) = text

EndOf(s, t) == LET p == PlaceAt(s, t) IN p + Len(TextIn(s, p, t)) - 1
EndIn(s, ts, n) == IF n = 0 THEN 0 ELSE EndOf(s, ts[n])

TokenOK(s, ts, n) ==
  /\ At(s, ts[n], PlaceAt(s, ts[n]))
  /\ ts[n].type # "end"
  /\ EndIn(s, ts, n - 1) < PlaceAt(s, ts[n])
  /\ Skips(s, EndIn(s, ts, n - 1) + 1, PlaceAt(s, ts[n]) - 1)

\* What is in front of a place has been read as the first k tokens.
IsRead(s, ts, k, n) ==
  /\ \A m \in 1..k : TokenOK(s, ts, m)
  /\ EndIn(s, ts, k) \in k..(n - 1)
  /\ Skips(s, EndIn(s, ts, k) + 1, n - 1)

LEMMA OnlyPlace ==
  ASSUME NEW s, Len(s) \in Nat, NEW t, NEW p, At(s, t, p)
  PROVE  PlaceAt(s, t) = p
<1> DEFINE Here(n) == LineAt(s, n) = t.line /\ ColumnAt(s, n) = t.column
<1>1. p \in 1..Len(s) /\ Here(p)
  BY DEF At
<1>2. ASSUME NEW n \in 1..Len(s), Here(n)
      PROVE  n = p
  <2>1. n \in Nat \ {0} /\ p \in Nat \ {0}
    BY <1>1
  <2>2. LineAt(s, n) = LineAt(s, p) /\ ColumnAt(s, n) = ColumnAt(s, p)
    BY <1>1, <1>2
  <2> QED
    BY <2>1, <2>2, PlacesDiffer
<1>3. PlaceAt(s, t) \in 1..Len(s) /\ Here(PlaceAt(s, t))
  BY <1>1, Zenon DEF PlaceAt
<1> QED
  BY <1>2, <1>3

LEMMA SkipsMore ==
  ASSUME NEW s, NEW a \in Int, NEW b \in Int, NEW c \in Int, a <= b + 1,
         Skips(s, a, b), Skips(s, b + 1, c)
  PROVE  Skips(s, a, c)
<1>1. ASSUME NEW n \in (b + 1)..c, Commented(s, b + 1, n)
      PROVE  Commented(s, a, n)
  <2>1. PICK m \in (b + 1)..n : s[m] = "#" /\ \A h \in m..n : s[h] # "newline"
    BY <1>1, Zenon DEF Commented
  <2>2. m \in a..n
    BY <2>1
  <2> QED
    BY <2>1, <2>2, Zenon DEF Commented
<1>2. ASSUME NEW n \in a..c
      PROVE  n \in a..b \/ n \in (b + 1)..c
  OBVIOUS
<1> QED
  BY <1>1, <1>2, Zenon DEF Skips

LEMMA ReadSkipped ==
  ASSUME NEW s, NEW ts, NEW k \in Nat, NEW n \in Nat, NEW w \in Nat,
         IsRead(s, ts, k, n), Skips(s, n, n + w - 1)
  PROVE  IsRead(s, ts, k, n + w)
<1>1. PICK e \in k..(n - 1) : e = EndIn(s, ts, k)
  BY DEF IsRead
<1>2. Skips(s, e + 1, n - 1)
  BY <1>1, Zenon DEF IsRead
<1>3. PICK b \in Int : b = n - 1
  OBVIOUS
<1>4. PICK c \in Int : c = (n + w) - 1 /\ c = n + w - 1
  OBVIOUS
<1>5. Skips(s, e + 1, c)
  <2>1. n = b + 1 /\ e + 1 <= b + 1 /\ e + 1 \in Int
    BY <1>1, <1>3
  <2>2. Skips(s, b + 1, c) /\ Skips(s, e + 1, b)
    BY <1>2, <1>3, <1>4, <2>1, Zenon
  <2> QED
    BY <2>1, <2>2, SkipsMore
<1>6. e \in k..c
  BY <1>1, <1>4
<1>7. Skips(s, e + 1, (n + w) - 1) /\ e \in k..((n + w) - 1)
  BY <1>4, <1>5, <1>6, Zenon
<1> QED
  BY <1>1, <1>7, Zenon DEF IsRead

\* A token more, and the first ones are the same.
OneMore(ts, k, t, us) == us[k + 1] = t /\ \A m \in 1..k : us[m] = ts[m]

LEMMA SameEnds ==
  ASSUME NEW s, NEW ts, NEW us, NEW k \in Nat, NEW t, OneMore(ts, k, t, us)
  PROVE  /\ \A m \in 0..k : EndIn(s, us, m) = EndIn(s, ts, m)
         /\ \A m \in 1..k : TokenOK(s, ts, m) => TokenOK(s, us, m)
<1>1. ASSUME NEW m \in 0..k
      PROVE  EndIn(s, us, m) = EndIn(s, ts, m)
  <2>1. m = 0 \/ m \in 1..k
    OBVIOUS
  <2>2. m \in 1..k => us[m] = ts[m]
    BY DEF OneMore
  <2> QED
    BY <2>1, <2>2, Zenon DEF EndIn
<1>2. ASSUME NEW m \in 1..k, TokenOK(s, ts, m)
      PROVE  TokenOK(s, us, m)
  <2>1. us[m] = ts[m]
    BY DEF OneMore
  <2>2. m - 1 \in 0..k
    OBVIOUS
  <2>3. EndIn(s, us, m - 1) = EndIn(s, ts, m - 1)
    BY <1>1, <2>2
  <2> QED
    BY <1>2, <2>1, <2>3, Zenon DEF TokenOK
<1> QED
  BY <1>1, <1>2

LEMMA ReadToken ==
  ASSUME NEW s, Len(s) \in Nat, NEW ts, NEW us, NEW k \in Nat, NEW n \in 1..Len(s), NEW t,
         IsRead(s, ts, k, n), OneMore(ts, k, t, us), At(s, t, n), t.type # "end"
  PROVE  IsRead(s, us, k + 1, n + Len(TextIn(s, n, t)))
<1>1. PlaceAt(s, t) = n
  BY OnlyPlace
<1>2. PICK w \in Nat \ {0} : w = Len(TextIn(s, n, t))
  BY DEF At
<1>3. PICK e \in k..(n - 1) : e = EndIn(s, ts, k)
  BY DEF IsRead
<1>4. EndIn(s, us, k) = e
  <2>1. k \in 0..k
    OBVIOUS
  <2>2. \A m \in 0..k : EndIn(s, us, m) = EndIn(s, ts, m)
    BY SameEnds, Zenon
  <2> QED
    BY <1>3, <2>1, <2>2, Zenon
<1>5. TokenOK(s, us, k + 1)
  <2>1. us[k + 1] = t
    BY DEF OneMore
  <2>2. (k + 1) - 1 = k /\ e < n
    BY <1>3
  <2>3. Skips(s, e + 1, n - 1)
    BY <1>3, Zenon DEF IsRead
  <2> QED
    BY <1>1, <1>4, <2>1, <2>2, <2>3, Zenon DEF TokenOK
<1>6. \A m \in 1..(k + 1) : TokenOK(s, us, m)
  <2>1. \A m \in 1..k : TokenOK(s, us, m)
    BY SameEnds, Zenon DEF IsRead
  <2>2. \A m \in 1..(k + 1) : m \in 1..k \/ m = k + 1
    OBVIOUS
  <2> QED
    BY <1>5, <2>1, <2>2, Zenon
<1>7. EndIn(s, us, k + 1) = n + w - 1
  <2>1. k + 1 # 0 /\ us[k + 1] = t
    BY DEF OneMore
  <2> QED
    BY <1>1, <1>2, <2>1, Zenon DEF EndIn, EndOf
<1>8. n + w - 1 \in (k + 1)..((n + w) - 1) /\ (n + w - 1) + 1 > (n + w) - 1
  BY <1>3
<1>9. Skips(s, (n + w - 1) + 1, (n + w) - 1)
  BY <1>8 DEF Skips
<1> QED
  BY <1>2, <1>6, <1>7, <1>8, <1>9, Zenon DEF IsRead

(* -- The scanner ------------------------------------------------------------- *)

TextCount == IF IsScanned THEN Len(tokens) - 1 ELSE Len(tokens)

ScanInv ==
  /\ source \in Sources
  /\ i \in 1..(Len(source) + 1)
  /\ line = LineAt(source, i) /\ column = ColumnAt(source, i)
  /\ IsSeq(tokens)
  /\ IsScanned => i = Len(source) + 1
  /\ IsRead(source, tokens, TextCount, i)

\* When the source has been scanned.
PhaseInv == /\ pc \in {"load", "scan", "parse", "handle", "accepted", "syntax error", "refused"}
            /\ pc \in {"load", "scan"} => ~IsScanned
            /\ pc \in {"parse", "handle", "accepted", "syntax error"} => IsScanned

LEMMA SourceType ==
  ASSUME NEW s \in Sources
  PROVE  s \in Seq(Words \cup Symbols) /\ Len(s) \in Nat
BY SourcesAssumption, LenProperties

LEMMA NothingRead ==
  ASSUME NEW s \in Sources
  PROVE  /\ LineAt(s, 1) = 1 /\ ColumnAt(s, 1) = 1
         /\ IsRead(s, <<>>, 0, 1)
         /\ IsSeq(<<>>) /\ Len(<<>>) = 0
<1>1. NewlinesIn(s, 1, 1 - 1) = {}
  BY DEF NewlinesIn
<1>2. LineAt(s, 1) = 1
  BY <1>1, FS_EmptySet DEF LineAt
<1>3. ColumnAt(s, 1) = 1
  <2>1. ColumnAt(s, 1) \in 1..1
    BY PlaceType
  <2> QED
    BY <2>1
<1>4. IsRead(s, <<>>, 0, 1)
  BY DEF IsRead, EndIn, Skips
<1>5. <<>> \in Seq({}) /\ Len(<<>>) = 0
  BY EmptySeq
<1> QED
  BY <1>2, <1>3, <1>4, <1>5 DEF IsSeq

LEMMA InitScan == Init => ScanInv /\ PhaseInv
<1> SUFFICES ASSUME Init
             PROVE  ScanInv /\ PhaseInv
  OBVIOUS
<1>1. /\ source \in Sources /\ i = 1 /\ line = 1 /\ column = 1 /\ tokens = <<>> /\ pc = "load"
  BY DEF Init
<1>2. ~IsScanned /\ TextCount = 0
  BY <1>1, EmptySeq DEF IsScanned, TextCount
<1>3. 1 \in 1..(Len(source) + 1)
  BY <1>1, SourceType
<1>4. /\ LineAt(source, 1) = 1 /\ ColumnAt(source, 1) = 1
      /\ IsRead(source, <<>>, 0, 1) /\ IsSeq(<<>>)
  BY <1>1, NothingRead
<1>5. ScanInv
  BY <1>1, <1>2, <1>3, <1>4, Zenon DEF ScanInv
<1> QED
  BY <1>1, <1>2, <1>5 DEF PhaseInv

LEMMA TokenThere ==
  ASSUME ScanInv, InSource, NEW l, l = NextLexeme, l.type \notin Rejected, NEW t,
         t = [type |-> l.type, data |-> l.data, line |-> line, column |-> column]
  PROVE  /\ At(source, t, i) /\ t.type # "end"
         /\ Len(TextIn(source, i, t)) = l.width
<1>1. LexemeOK(source, i, l)
  BY NextLexemeOK
<1>2. /\ t.type = l.type /\ t.data = l.data /\ t.line = line /\ t.column = column
  OBVIOUS
<1>3. TextIn(source, i, t) = TextIn(source, i, l)
  BY <1>2, Zenon DEF TextIn
<1>4. PICK w \in Nat \ {0} : w = l.width
  BY <1>1 DEF LexemeOK
<1>5. PICK text : text = TextIn(source, i, l)
  OBVIOUS
<1>6. IsLexemeText(source, i, l)
  BY <1>1 DEF LexemeOK
<1>7. Len(text) = w /\ SubSeq(source, i, i + w - 1) = text
  BY <1>4, <1>5, <1>6, Zenon DEF IsLexemeText
<1>8. i + w <= Len(source) + 1
  BY <1>1, <1>4 DEF LexemeOK
<1>9. i \in 1..Len(source)
  BY DEF InSource
<1>10. LineAt(source, i) = t.line /\ ColumnAt(source, i) = t.column
  BY <1>2 DEF ScanInv
<1>11. TextIn(source, i, t) = text
  BY <1>3, <1>5, Zenon
<1>12. /\ Len(text) \in Nat \ {0} /\ i + Len(text) <= Len(source) + 1
       /\ SubSeq(source, i, i + Len(text) - 1) = text
  BY <1>7, <1>8, Zenon
<1>13. At(source, t, i)
  BY <1>9, <1>10, <1>11, <1>12, Zenon DEF At
<1>14. l.type # "end"
  BY <1>1 DEF LexemeOK
<1> QED
  BY <1>2, <1>4, <1>7, <1>11, <1>13, <1>14, Zenon

LEMMA PlaceMoves ==
  ASSUME ScanInv, InSource, NEW w \in Nat \ {0}, Moved(w)
  PROVE  line' = LineAt(source, i + w) /\ column' = ColumnAt(source, i + w)
<1> DEFINE passed == NewlinesIn(source, i, i + w - 1)
<1>1. i \in Nat \ {0} /\ line = LineAt(source, i) /\ column = ColumnAt(source, i)
  BY DEF ScanInv, InSource
<1>2. Newlines(i, i + w - 1) = passed
  BY SameOperators
<1>3. /\ line' = line + Cardinality(Newlines(i, i + w - 1))
      /\ column' = IF Newlines(i, i + w - 1) = {} THEN column + w
                   ELSE i + w - GreatestIn(Newlines(i, i + w - 1))
  BY Zenon DEF Moved, GreatestIn
<1>4. Advanced(source, i, w, passed)
  <2>1. \A n, m \in Nat \ {0} : Advanced(source, n, m, NewlinesIn(source, n, n + m - 1))
    BY MovedRight
  <2> QED
    BY <1>1, <2>1, Zenon
<1> HIDE DEF passed
<1> QED
  BY <1>1, <1>2, <1>3, <1>4, Zenon DEF Advanced

LEMMA ScanTokenScan ==
  ASSUME ScanInv, PhaseInv, ScanToken
  PROVE  ScanInv' /\ ~IsScanned'
<1>1. ~IsScanned /\ pc = "scan"
  BY DEF PhaseInv, ScanToken
<1>2. /\ source \in Sources /\ source' = source
      /\ Len(source) \in Nat
  BY SourceType DEF ScanInv, ScanToken
<1>3. InSource
  BY <1>2, SourceType DEF InSource, ScanInv, ScanToken
<1>4. PICK l : l = NextLexeme
  OBVIOUS
<1>5. PICK t : t = [type |-> l.type, data |-> l.data, line |-> line, column |-> column]
  OBVIOUS
<1>6. /\ tokens' = IF l.type \in Rejected THEN tokens ELSE Append(tokens, t)
      /\ i' = i + l.width
      /\ Moved(l.width)
  BY <1>4, <1>5, Zenon DEF ScanToken
<1>7. LexemeOK(source, i, l)
  BY <1>3, <1>4, NextLexemeOK
<1>8. PICK w \in Nat \ {0} : w = l.width
  BY <1>7 DEF LexemeOK
<1>9. i' = i + w /\ i + w <= Len(source) + 1 /\ i \in Nat
  BY <1>3, <1>6, <1>7, <1>8 DEF LexemeOK, InSource
<1>10. line' = LineAt(source, i + w) /\ column' = ColumnAt(source, i + w)
  BY <1>3, <1>6, <1>8, PlaceMoves
<1>11. PICK k \in Nat : k = Len(tokens) /\ TextCount = k
  BY <1>1, Lengthened DEF TextCount, ScanInv
<1>12. IsSeq(tokens) /\ IsRead(source, tokens, k, i)
  BY <1>11 DEF ScanInv
<1>13. /\ IsSeq(tokens') /\ ~IsScanned'
       /\ IsRead(source, tokens', Len(tokens'), i + w)
  <2>1. CASE l.type \in Rejected
    <3>1. tokens' = tokens
      BY <1>6, <2>1
    <3>2. Skips(source, i, i + w - 1)
      BY <1>7, <1>8, <2>1 DEF LexemeOK
    <3>3. IsRead(source, tokens, k, i + w)
      BY <1>9, <1>12, <3>2, ReadSkipped
    <3>4. ~IsScanned'
      BY <1>1, <3>1 DEF IsScanned
    <3> QED
      BY <1>11, <1>12, <3>1, <3>3, <3>4
  <2>2. CASE l.type \notin Rejected
    <3>1. tokens' = Append(tokens, t)
      BY <1>6, <2>2
    <3>2. /\ At(source, t, i) /\ t.type # "end"
          /\ Len(TextIn(source, i, t)) = w
      BY <1>3, <1>4, <1>5, <1>8, <2>2, TokenThere
    <3>3. /\ IsSeq(tokens') /\ Len(tokens') = k + 1
          /\ \A n \in 1..k : tokens'[n] = tokens[n]
          /\ tokens'[k + 1] = t
      BY <1>11, <1>12, <3>1, Lengthened
    <3>4. OneMore(tokens, k, t, tokens')
      BY <3>3 DEF OneMore
    <3>5. IsRead(source, tokens', k + 1, i + Len(TextIn(source, i, t)))
      <4>1. i \in 1..Len(source)
        BY <1>3 DEF InSource
      <4> QED
        BY <1>2, <1>12, <3>2, <3>4, <4>1, ReadToken
    <3>6. ~IsScanned'
      BY <3>2, <3>3 DEF IsScanned
    <3> QED
      BY <3>2, <3>3, <3>5, <3>6
  <2> QED
    BY <2>1, <2>2
<1>14. TextCount' = Len(tokens')
  BY <1>13 DEF TextCount
<1>15. i' \in 1..(Len(source') + 1)
  BY <1>2, <1>9
<1> QED
  BY <1>2, <1>9, <1>10, <1>13, <1>14, <1>15, Zenon DEF ScanInv

LEMMA EndScanScan ==
  ASSUME ScanInv, PhaseInv, EndScan
  PROVE  ScanInv' /\ IsScanned'
<1>1. /\ ~IsScanned /\ i > Len(source) /\ tokens' = Append(tokens, EofToken)
      /\ source' = source /\ i' = i /\ line' = line /\ column' = column
  BY DEF PhaseInv, EndScan
<1>2. source \in Sources /\ Len(source) \in Nat
  BY SourceType DEF ScanInv
<1>3. i = Len(source) + 1
  BY <1>1, <1>2 DEF ScanInv
<1>4. PICK k \in Nat : k = Len(tokens) /\ TextCount = k
  BY <1>1, Lengthened DEF TextCount, ScanInv
<1>5. IsSeq(tokens) /\ IsRead(source, tokens, k, i)
  BY <1>4 DEF ScanInv
<1>6. /\ IsSeq(tokens') /\ Len(tokens') = k + 1
      /\ \A n \in 1..k : tokens'[n] = tokens[n]
      /\ tokens'[k + 1] = EofToken
  BY <1>1, <1>4, <1>5, Lengthened
<1>7. IsScanned'
  <2>1. EofToken.type = "end"
    BY DEF EofToken
  <2> QED
    BY <1>6, <2>1 DEF IsScanned
<1>8. TextCount' = k
  BY <1>6, <1>7 DEF TextCount
<1>9. IsRead(source, tokens', k, i)
  <2>1. OneMore(tokens, k, EofToken, tokens')
    BY <1>6 DEF OneMore
  <2>2. /\ \A m \in 0..k : EndIn(source, tokens', m) = EndIn(source, tokens, m)
        /\ \A m \in 1..k : TokenOK(source, tokens, m) => TokenOK(source, tokens', m)
    BY <2>1, SameEnds, Zenon
  <2>3. k \in 0..k
    OBVIOUS
  <2>4. EndIn(source, tokens', k) = EndIn(source, tokens, k)
    BY <2>2, <2>3, Zenon
  <2> QED
    BY <1>5, <2>2, <2>4, Zenon DEF IsRead
<1>10. /\ source' \in Sources /\ i' \in 1..(Len(source') + 1)
       /\ line' = LineAt(source', i') /\ column' = ColumnAt(source', i')
       /\ IsScanned' => i' = Len(source') + 1
  BY <1>1, <1>3, Zenon DEF ScanInv
<1> QED
  BY <1>1, <1>6, <1>7, <1>8, <1>9, <1>10, Zenon DEF ScanInv

LEMMA ScanSame ==
  ASSUME ScanInv, UNCHANGED scannerVars
  PROVE  ScanInv' /\ (IsScanned' <=> IsScanned)
<1>1. /\ source' = source /\ i' = i /\ line' = line /\ column' = column /\ tokens' = tokens
  BY DEF scannerVars
<1>2. IsScanned' <=> IsScanned
  BY <1>1, Zenon DEF IsScanned
<1>3. TextCount' = TextCount
  BY <1>1, <1>2, Zenon DEF TextCount
<1> QED
  BY <1>1, <1>2, <1>3, Zenon DEF ScanInv

LEMMA ParseFrame ==
  ASSUME ParseStep
  PROVE  /\ pc = "parse" /\ pc' \in {"parse", "handle", "syntax error"}
         /\ UNCHANGED scannerVars
<1>1. CASE Key \/ Colon \/ Scalar
  BY <1>1 DEF Key, Colon, Scalar, Expects, Continue, Fail, Give
<1>2. CASE NoKeyThere \/ NoValueThere \/ EndOfFile
  BY <1>2 DEF NoKeyThere, NoValueThere, EndOfFile, Expects, Fail
<1>3. CASE OpenBracket \/ Close
  BY <1>3 DEF OpenBracket, Close, Expects, Continue, Give
<1>4. CASE First \/ Separator
  BY <1>4 DEF First, Separator, Expects, Continue
<1> QED
  BY <1>1, <1>2, <1>3, <1>4 DEF ParseStep

LEMMA ScanStep ==
  ASSUME ScanInv, PhaseInv, [Next]_configVars
  PROVE  ScanInv' /\ PhaseInv'
<1>1. CASE Load
  <2>1. UNCHANGED scannerVars /\ pc = "load" /\ pc' \in {"scan", "refused"}
    BY <1>1 DEF Load, scannerVars
  <2> QED
    BY <2>1, ScanSame DEF PhaseInv
<1>2. CASE ScanToken
  <2>1. pc' = "scan"
    BY <1>2 DEF ScanToken
  <2> QED
    BY <1>2, <2>1, ScanTokenScan DEF PhaseInv
<1>3. CASE EndScan
  <2>1. pc' = "parse"
    BY <1>3 DEF EndScan
  <2> QED
    BY <1>3, <2>1, EndScanScan DEF PhaseInv
<1>4. CASE ParseStep
  BY <1>4, ParseFrame, ScanSame DEF PhaseInv
<1>5. CASE HandleVar
  <2>1. UNCHANGED scannerVars /\ pc = "handle" /\ pc' \in {"handle", "refused"}
    BY <1>5 DEF HandleVar
  <2> QED
    BY <2>1, ScanSame DEF PhaseInv
<1>6. CASE Validate
  <2>1. UNCHANGED scannerVars /\ pc = "handle" /\ pc' \in {"accepted", "refused"}
    BY <1>6 DEF Validate
  <2> QED
    BY <2>1, ScanSame DEF PhaseInv
<1>7. CASE Again
  <2>1. /\ source' = source /\ i' = 1 /\ line' = 1 /\ column' = 1 /\ tokens' = <<>>
        /\ pc' = "load" /\ source \in Sources
    BY <1>7 DEF Again, ScanInv
  <2>2. ~IsScanned' /\ TextCount' = 0
    BY <2>1, EmptySeq DEF IsScanned, TextCount
  <2>3. 1 \in 1..(Len(source) + 1)
    BY <2>1, SourceType
  <2>4. /\ LineAt(source, 1) = 1 /\ ColumnAt(source, 1) = 1
        /\ IsRead(source, <<>>, 0, 1) /\ IsSeq(<<>>)
    BY <2>1, NothingRead
  <2>5. ScanInv'
    BY <2>1, <2>2, <2>3, <2>4, Zenon DEF ScanInv
  <2> QED
    BY <2>1, <2>2, <2>5 DEF PhaseInv
<1>8. CASE UNCHANGED configVars
  <2>1. UNCHANGED scannerVars /\ pc' = pc
    BY <1>8 DEF configVars, parserVars
  <2> QED
    BY <2>1, ScanSame DEF PhaseInv
<1> QED
  BY <1>1, <1>2, <1>3, <1>4, <1>5, <1>6, <1>7, <1>8 DEF Next, LoadStep

LEMMA PositionsFollow == ScanInv => PositionsRight
<1> SUFFICES ASSUME ScanInv, IsScanned, NEW n \in 1..(Len(tokens) - 1)
             PROVE  \E p \in 1..Len(source) :
                      /\ LineOf(p) = tokens[n].line /\ ColumnOf(p) = tokens[n].column
                      /\ LET text == TextAt(p, tokens[n])
                         IN SubSeq(source, p, p + Len(text) - 1) = text
  BY Zenon DEF PositionsRight
<1>1. PICK p : p = PlaceAt(source, tokens[n])
  OBVIOUS
<1>2. At(source, tokens[n], p)
  <2>1. n \in 1..TextCount
    BY DEF TextCount
  <2>2. TokenOK(source, tokens, n)
    BY <2>1, Zenon DEF ScanInv, IsRead
  <2> QED
    BY <1>1, <2>2, Zenon DEF TokenOK
<1>3. /\ p \in 1..Len(source)
      /\ LineOf(p) = tokens[n].line /\ ColumnOf(p) = tokens[n].column
      /\ LET text == TextAt(p, tokens[n])
         IN SubSeq(source, p, p + Len(text) - 1) = text
  <2>1. /\ LineOf(p) = LineAt(source, p) /\ ColumnOf(p) = ColumnAt(source, p)
        /\ TextAt(p, tokens[n]) = TextIn(source, p, tokens[n])
    BY SameOperators, Zenon
  <2> QED
    BY <1>2, <2>1, Zenon DEF At
<1> QED
  BY <1>3, Zenon

LEMMA SkippedPart ==
  ASSUME NEW s, NEW a \in Nat, NEW b \in Nat, a >= 1, a <= b + 1, b <= Len(s),
         NEW S, s \in Seq(S), Skips(s, a, b)
  PROVE  IsSkippable(SubSeq(s, a, b))
<1>1. \A n \in a..b : s[n] \in S
  <2>1. a..b \subseteq 1..Len(s)
    BY LenProperties
  <2> QED
    BY <2>1, ElementOfSeq
<1>2. PICK q \in Seq(S) : q = SubSeq(s, a, b)
  <2>1. SubSeq(s, a, b) \in Seq(S)
    BY <1>1, SubSeqProperties
  <2> QED
    BY <2>1
<1>3. /\ Len(q) = IF a <= b THEN b - a + 1 ELSE 0
      /\ \A n \in 1..(b - a + 1) : q[n] = s[a + n - 1]
  BY <1>1, <1>2, SubSeqProperties
<1>4. DOMAIN q = 1..(b - a + 1)
  <2>1. DOMAIN q = 1..Len(q)
    BY <1>2, LenProperties
  <2> QED
    BY <1>3, <2>1
<1>5. ASSUME NEW n \in 1..(b - a + 1), q[n] \notin Blanks
      PROVE  \E m \in 1..n : q[m] = "#" /\ \A h \in m..n : q[h] # "newline"
  <2>1. PICK k \in a..b : k = a + n - 1
    OBVIOUS
  <2>2. q[n] = s[k]
    BY <1>3, <2>1
  <2>3. Commented(s, a, k)
    BY <1>5, <2>2, Zenon DEF Skips
  <2>4. PICK m \in a..k : s[m] = "#" /\ \A h \in m..k : s[h] # "newline"
    BY <2>3, Zenon DEF Commented
  <2>5. PICK l \in 1..n : m = a + l - 1
    <3>1. m - a + 1 \in 1..n /\ m = a + (m - a + 1) - 1
      BY <2>1
    <3> QED
      BY <3>1
  <2>6. q[l] = "#"
    <3>1. l \in 1..(b - a + 1)
      BY <2>5
    <3> QED
      BY <1>3, <2>4, <2>5, <3>1
  <2>7. ASSUME NEW h \in l..n
        PROVE  q[h] # "newline"
    <3>1. PICK g \in m..k : g = a + h - 1
      BY <2>1, <2>5
    <3>2. h \in 1..(b - a + 1)
      BY <2>5
    <3>3. q[h] = s[g]
      BY <1>3, <3>1, <3>2
    <3> QED
      BY <2>4, <3>3
  <2> QED
    BY <2>6, <2>7
<1> QED
  BY <1>2, <1>4, <1>5, Zenon DEF IsSkippable

LEMMA NothingFollows == ScanInv => NothingLost
<1> DEFINE End(n) == IF n = 0 THEN 0
                     ELSE PlaceOf(tokens[n]) + Len(TextAt(PlaceOf(tokens[n]), tokens[n])) - 1
           Begin(n) == IF n = Len(tokens) THEN Len(source) + 1 ELSE PlaceOf(tokens[n])
<1> SUFFICES ASSUME ScanInv, IsScanned, NEW n \in 1..Len(tokens)
             PROVE  /\ End(n - 1) < Begin(n)
                    /\ IsSkippable(SubSeq(source, End(n - 1) + 1, Begin(n) - 1))
  BY Zenon DEF NothingLost
<1>1. \A m : End(m) = EndIn(source, tokens, m)
  BY SameOperators, Zenon DEF EndIn, EndOf
<1>2. PICK S : source \in Seq(S) /\ Len(source) \in Nat
  BY SourceType DEF ScanInv
<1>3. PICK k \in Nat : TextCount = k /\ Len(tokens) = k + 1
  <2>1. Len(tokens) \in Nat /\ Len(tokens) > 0
    BY Lengthened DEF ScanInv, IsScanned
  <2>2. TextCount = Len(tokens) - 1
    BY DEF TextCount
  <2> QED
    BY <2>1, <2>2
<1>4. IsRead(source, tokens, k, Len(source) + 1)
  BY <1>3, Zenon DEF ScanInv
<1>5. ASSUME NEW m \in 0..k
      PROVE  EndIn(source, tokens, m) \in Nat
  <2>1. CASE m = 0
    BY <2>1 DEF EndIn
  <2>2. CASE m \in 1..k
    <3>1. At(source, tokens[m], PlaceAt(source, tokens[m]))
      BY <1>4, <2>2, Zenon DEF IsRead, TokenOK
    <3>2. PICK p : p = PlaceAt(source, tokens[m])
      OBVIOUS
    <3>3. PICK w : w = Len(TextIn(source, p, tokens[m]))
      OBVIOUS
    <3>4. p \in 1..Len(source) /\ w \in Nat \ {0}
      BY <3>1, <3>2, <3>3, Zenon DEF At
    <3>5. EndIn(source, tokens, m) = p + w - 1
      <4>1. m # 0
        BY <2>2
      <4> QED
        BY <3>2, <3>3, <4>1, Zenon DEF EndIn, EndOf
    <3> QED
      BY <1>2, <3>4, <3>5
  <2> QED
    BY <2>1, <2>2
<1>6. PICK e \in Nat : e = End(n - 1) /\ e = EndIn(source, tokens, n - 1)
  <2>1. n - 1 \in 0..k
    BY <1>3
  <2>2. EndIn(source, tokens, n - 1) \in Nat
    BY <1>5, <2>1
  <2>3. End(n - 1) = EndIn(source, tokens, n - 1)
    BY <1>1, Zenon
  <2> HIDE DEF End
  <2> QED
    BY <2>2, <2>3
<1>7. PICK b \in Nat \ {0} : /\ b = Begin(n) /\ b <= Len(source) + 1
                             /\ e < b /\ Skips(source, e + 1, b - 1)
  <2>1. CASE n = Len(tokens)
    <3>1. Begin(n) = Len(source) + 1
      BY <2>1
    <3>2. n - 1 = k /\ Len(source) + 1 \in Nat \ {0}
      BY <1>2, <1>3, <2>1
    <3>3. e \in k..((Len(source) + 1) - 1)
      BY <1>4, <1>6, <3>2, Zenon DEF IsRead
    <3>4. Skips(source, e + 1, (Len(source) + 1) - 1)
      BY <1>4, <1>6, <3>2, Zenon DEF IsRead
    <3>5. e < Len(source) + 1
      BY <1>2, <3>3
    <3> QED
      BY <1>2, <3>1, <3>2, <3>4, <3>5
  <2>2. CASE n # Len(tokens)
    <3>1. n \in 1..k
      BY <1>3, <2>2
    <3>2. TokenOK(source, tokens, n)
      BY <1>4, <3>1, Zenon DEF IsRead
    <3>3. PICK p : p = PlaceAt(source, tokens[n])
      OBVIOUS
    <3>4. p \in 1..Len(source) /\ e < p /\ Skips(source, e + 1, p - 1)
      BY <1>6, <3>2, <3>3, Zenon DEF TokenOK, At
    <3>5. Begin(n) = p
      BY <2>2, <3>3, SameOperators, Zenon
    <3>6. p \in Nat \ {0} /\ p <= Len(source) + 1
      BY <1>2, <3>4
    <3> QED
      BY <3>4, <3>5, <3>6
  <2> QED
    BY <2>1, <2>2
<1> HIDE DEF End, Begin
<1>8. PICK c \in Nat : c = b - 1
  OBVIOUS
<1>9. e + 1 \in Nat /\ e + 1 >= 1 /\ e + 1 <= c + 1 /\ c <= Len(source)
  BY <1>2, <1>7, <1>8
<1>10. IsSkippable(SubSeq(source, e + 1, c))
  BY <1>2, <1>7, <1>8, <1>9, SkippedPart
<1> QED
  BY <1>6, <1>7, <1>8, <1>10

(* -- The parser's stack ------------------------------------------------------ *)

Bracketed == {"object", "list"}

FrameOK(f) == /\ f = [kind |-> f.kind, items |-> f.items, key |-> f.key]
              /\ IsSeq(f.items)

\* What the file has so far has, as far as it is a list, a sequence in it.
VarsOK(vars) == \A n \in 1..Len(vars) : IsSeq(vars[n].value.items)

StackOK(frames) ==
  /\ IsSeq(frames) /\ Len(frames) \in Nat \ {0}
  /\ \A n \in 1..Len(frames) : FrameOK(frames[n])
  /\ frames[1].kind = "file" /\ VarsOK(frames[1].items)
  /\ \A n \in 2..Len(frames) : frames[n].kind \in Bracketed

LEMMA EmptyIsSeq == IsSeq(<<>>) /\ Len(<<>>) = 0
<1>1. <<>> \in Seq({}) /\ Len(<<>>) = 0
  BY EmptySeq
<1> QED
  BY <1>1 DEF IsSeq

LEMMA OpenOK ==
  ASSUME NEW kind
  PROVE  /\ FrameOK(Open(kind)) /\ Open(kind).kind = kind
         /\ VarsOK(Open(kind).items)
<1>1. Open(kind).kind = kind /\ Open(kind).items = <<>> /\ Open(kind).key = NoKey
  BY DEF Open
<1>2. Open(kind) = [kind |-> Open(kind).kind, items |-> Open(kind).items, key |-> Open(kind).key]
  BY <1>1, Zenon DEF Open
<1> QED
  BY <1>1, <1>2, EmptyIsSeq DEF FrameOK, VarsOK

LEMMA PushedOK ==
  ASSUME NEW f, FrameOK(f), NEW value
  PROVE  /\ FrameOK(Pushed(f, value)) /\ Pushed(f, value).kind = f.kind
         /\ IsSeq(value.items) /\ f.kind = "file" /\ VarsOK(f.items)
              => VarsOK(Pushed(f, value).items)
<1>1. PICK kind, items, key : f = [kind |-> kind, items |-> items, key |-> key]
  BY DEF FrameOK
<1>2. f.kind = kind /\ f.items = items /\ f.key = key
  BY <1>1
<1>3. PICK item : item = IF f.kind = "list" THEN value ELSE [key |-> f.key, value |-> value]
  OBVIOUS
<1>4. Pushed(f, value) = [kind |-> kind, items |-> Append(items, item), key |-> NoKey]
  <2>1. PICK all : all = Append(f.items, item)
    OBVIOUS
  <2>2. Pushed(f, value) = [f EXCEPT !.items = all, !.key = NoKey]
    BY <1>3, <2>1, Zenon DEF Pushed
  <2>3. PICK g : g = [f EXCEPT !.items = all]
    OBVIOUS
  <2>4. Pushed(f, value) = [g EXCEPT !.key = NoKey]
    BY <2>2, <2>3, Zenon
  <2>5. Pushed(f, value) = [kind |-> kind, items |-> all, key |-> NoKey]
    BY <1>1, <2>3, <2>4
  <2> QED
    BY <1>2, <2>1, <2>5, Zenon
<1>5. /\ Pushed(f, value).kind = kind /\ Pushed(f, value).items = Append(items, item)
      /\ Pushed(f, value).key = NoKey
  BY <1>4
<1>6. /\ IsSeq(Append(items, item)) /\ Len(items) \in Nat
      /\ Len(Append(items, item)) = Len(items) + 1
      /\ \A n \in 1..Len(items) : Append(items, item)[n] = items[n]
      /\ Append(items, item)[Len(items) + 1] = item
  BY <1>2, Lengthened DEF FrameOK
<1>7. FrameOK(Pushed(f, value))
  BY <1>4, <1>5, <1>6, Zenon DEF FrameOK
<1>8. ASSUME IsSeq(value.items), kind = "file", VarsOK(items)
      PROVE  VarsOK(Append(items, item))
  <2>1. item.value = value
    BY <1>2, <1>3, <1>8
  <2>2. PICK all : all = Append(items, item)
    OBVIOUS
  <2>3. PICK k \in Nat : k = Len(items)
    BY <1>6
  <2>4. \A n \in 1..k : IsSeq(items[n].value.items)
    BY <1>8, <2>3 DEF VarsOK
  <2>5. IsSeq(item.value.items)
    BY <1>8, <2>1
  <2>6. ASSUME NEW n \in 1..(k + 1)
        PROVE  IsSeq(all[n].value.items)
    <3>1. CASE n \in 1..k
      <4>1. all[n] = items[n]
        BY <1>6, <2>2, <2>3, <3>1
      <4> QED
        BY <2>4, <3>1, <4>1, Zenon
    <3>2. CASE n = k + 1
      <4>1. all[n] = item
        BY <1>6, <2>2, <2>3, <3>2
      <4> QED
        BY <2>5, <4>1, Zenon
    <3> QED
      BY <3>1, <3>2
  <2>7. Len(all) = k + 1
    BY <1>6, <2>2, <2>3
  <2> QED
    BY <2>2, <2>6, <2>7, Zenon DEF VarsOK
<1> QED
  BY <1>2, <1>5, <1>7, <1>8

LEMMA StackOpened ==
  ASSUME NEW frames, StackOK(frames), NEW kind \in Bracketed
  PROVE  /\ StackOK(Append(frames, Open(kind)))
         /\ Len(Append(frames, Open(kind))) = Len(frames) + 1
<1>1. PICK k \in Nat \ {0} : k = Len(frames)
  BY DEF StackOK
<1>2. PICK all : all = Append(frames, Open(kind))
  OBVIOUS
<1>3. /\ IsSeq(all) /\ Len(all) = k + 1
      /\ \A n \in 1..k : all[n] = frames[n]
      /\ all[k + 1] = Open(kind)
  BY <1>1, <1>2, Lengthened DEF StackOK
<1>4. \A n \in 1..(k + 1) : n \in 1..k \/ n = k + 1
  OBVIOUS
<1>5. \A n \in 2..(k + 1) : n \in 2..k \/ n = k + 1
  OBVIOUS
<1>6. all[1] = frames[1] /\ \A n \in 2..k : all[n] = frames[n]
  BY <1>3
<1>7. \A n \in 1..(k + 1) : FrameOK(all[n])
  BY <1>1, <1>3, <1>4, OpenOK, Zenon DEF StackOK
<1>8. \A n \in 2..(k + 1) : all[n].kind \in Bracketed
  <2>1. \A n \in 2..k : all[n].kind \in Bracketed
    BY <1>1, <1>6, Zenon DEF StackOK
  <2>2. all[k + 1].kind \in Bracketed
    BY <1>3, OpenOK, Zenon
  <2> QED
    BY <1>5, <2>1, <2>2, Zenon
<1>9. all[1].kind = "file" /\ VarsOK(all[1].items)
  BY <1>6, Zenon DEF StackOK
<1>10. k + 1 \in Nat \ {0}
  OBVIOUS
<1> QED
  BY <1>1, <1>2, <1>3, <1>7, <1>8, <1>9, <1>10, Zenon DEF StackOK

LEMMA FrontIs ==
  ASSUME NEW x, IsSeq(x), Len(x) \in Nat \ {0}
  PROVE  /\ IsSeq(Front(x)) /\ Len(Front(x)) = Len(x) - 1
         /\ \A n \in 1..(Len(x) - 1) : Front(x)[n] = x[n]
<1>1. PICK S : x \in Seq(S)
  BY DEF IsSeq
<1>2. PICK k \in Nat : k = Len(x) - 1 /\ Len(x) = k + 1
  OBVIOUS
<1>3. \A n \in 1..k : x[n] \in S
  BY <1>1, <1>2, ElementOfSeq
<1>4. Front(x) = SubSeq(x, 1, k)
  BY <1>2 DEF Front
<1>5. /\ SubSeq(x, 1, k) \in Seq(S)
      /\ Len(SubSeq(x, 1, k)) = IF 1 <= k THEN k - 1 + 1 ELSE 0
      /\ \A n \in 1..(k - 1 + 1) : SubSeq(x, 1, k)[n] = x[1 + n - 1]
  BY <1>3, SubSeqProperties
<1>6. IsSeq(SubSeq(x, 1, k))
  BY <1>5, Zenon DEF IsSeq
<1>7. Len(SubSeq(x, 1, k)) = k /\ \A n \in 1..k : SubSeq(x, 1, k)[n] = x[n]
  BY <1>5
<1> QED
  BY <1>2, <1>4, <1>6, <1>7

LEMMA StackClosed ==
  ASSUME NEW frames, StackOK(frames), Len(frames) >= 2
  PROVE  /\ StackOK(Front(frames)) /\ Len(Front(frames)) = Len(frames) - 1
<1>1. PICK k \in Nat \ {0} : Len(frames) = k + 1 /\ k = Len(frames) - 1
  BY DEF StackOK
<1>2. /\ IsSeq(Front(frames)) /\ Len(Front(frames)) = k
      /\ \A n \in 1..k : Front(frames)[n] = frames[n]
  BY <1>1, FrontIs DEF StackOK
<1>3. \A n \in 1..k : n \in 1..(k + 1)
  OBVIOUS
<1>4. 1 \in 1..k /\ \A n \in 2..k : n \in 1..k /\ n \in 2..(k + 1)
  OBVIOUS
<1>5. Front(frames)[1] = frames[1]
  BY <1>2, <1>4
<1>6. \A n \in 1..k : FrameOK(Front(frames)[n])
  BY <1>1, <1>2, <1>3, Zenon DEF StackOK
<1>7. \A n \in 2..k : Front(frames)[n].kind \in Bracketed
  BY <1>1, <1>2, <1>4, Zenon DEF StackOK
<1> QED
  BY <1>1, <1>2, <1>5, <1>6, <1>7, Zenon DEF StackOK

\* One frame in place of the innermost.
LEMMA StackChanged ==
  ASSUME NEW frames, StackOK(frames), NEW all, NEW f,
         IsSeq(all), Len(all) = Len(frames), all[Len(frames)] = f,
         \A n \in 1..(Len(frames) - 1) : all[n] = frames[n],
         FrameOK(f), f.kind = frames[Len(frames)].kind,
         Len(frames) = 1 => VarsOK(f.items)
  PROVE  StackOK(all)
<1>1. PICK k \in Nat \ {0} : k = Len(frames)
  BY DEF StackOK
<1>2. \A n \in 1..k : n \in 1..(k - 1) \/ n = k
  OBVIOUS
<1>3. \A n \in 2..k : n \in 1..k
  OBVIOUS
<1>4. \A n \in 1..k : FrameOK(all[n]) /\ all[n].kind = frames[n].kind
  BY <1>1, <1>2, Zenon DEF StackOK
<1>5. VarsOK(all[1].items)
  <2>1. CASE k = 1
    BY <1>1, <2>1, Zenon
  <2>2. CASE k # 1
    <3>1. 1 \in 1..(k - 1)
      BY <2>2
    <3> QED
      BY <1>1, <3>1, Zenon DEF StackOK
  <2> QED
    BY <2>1, <2>2
<1>6. 1 \in 1..k
  OBVIOUS
<1> QED
  BY <1>1, <1>3, <1>4, <1>5, <1>6, Zenon DEF StackOK

LEMMA StackGiven ==
  ASSUME NEW frames, StackOK(frames), NEW value, IsSeq(value.items)
  PROVE  LET f == frames[Len(frames)]
             all == Append(Front(frames), Pushed(f, value))
         IN /\ StackOK(all) /\ Len(all) = Len(frames)
            /\ AfterItemOf(f) \in {"key", "separator"}
            /\ AfterItemOf(f) = "separator" => Len(frames) >= 2
<1>1. PICK k \in Nat \ {0} : k = Len(frames)
  BY DEF StackOK
<1>2. PICK f : f = frames[k]
  OBVIOUS
<1>3. PICK all : all = Append(Front(frames), Pushed(f, value))
  OBVIOUS
<1>4. k \in 1..k /\ FrameOK(f)
  <2>1. k \in 1..k
    OBVIOUS
  <2> QED
    BY <1>1, <1>2, <2>1, Zenon DEF StackOK
<1>5. /\ IsSeq(Front(frames)) /\ Len(Front(frames)) = k - 1
      /\ \A n \in 1..(k - 1) : Front(frames)[n] = frames[n]
  BY <1>1, FrontIs DEF StackOK
<1>6. /\ IsSeq(all) /\ Len(all) = k
      /\ \A n \in 1..(k - 1) : all[n] = frames[n]
      /\ all[k] = Pushed(f, value)
  <2>1. /\ IsSeq(all) /\ Len(all) = (k - 1) + 1
        /\ \A n \in 1..(k - 1) : all[n] = Front(frames)[n]
        /\ all[(k - 1) + 1] = Pushed(f, value)
    BY <1>3, <1>5, Lengthened
  <2>2. (k - 1) + 1 = k
    OBVIOUS
  <2> QED
    BY <1>5, <2>1, <2>2
<1>7. /\ FrameOK(Pushed(f, value)) /\ Pushed(f, value).kind = f.kind
      /\ f.kind = "file" /\ VarsOK(f.items) => VarsOK(Pushed(f, value).items)
  BY <1>4, PushedOK
<1>8. k = 1 => f.kind = "file" /\ VarsOK(f.items)
  BY <1>1, <1>2, Zenon DEF StackOK
<1>9. StackOK(all)
  <2>1. PICK g : g = Pushed(f, value)
    OBVIOUS
  <2>2. k = 1 => VarsOK(g.items)
    BY <1>2, <1>7, <1>8, <2>1, Zenon
  <2>3. FrameOK(g) /\ g.kind = frames[k].kind
    BY <1>2, <1>7, <2>1, Zenon
  <2> QED
    BY <1>1, <1>6, <2>1, <2>2, <2>3, StackChanged
<1>10. f.kind # "file" => k >= 2
  BY <1>1, <1>2 DEF StackOK
<1>11. /\ AfterItemOf(f) \in {"key", "separator"}
       /\ AfterItemOf(f) = "separator" => k >= 2
  BY <1>10 DEF AfterItemOf
<1> QED
  BY <1>1, <1>2, <1>3, <1>6, <1>9, <1>11

(* -- The parser -------------------------------------------------------------- *)

ParseInv ==
  /\ StackOK(stack) /\ Len(stack) <= j
  /\ j \in 1..(IF IsScanned THEN Len(tokens) ELSE 1)
  /\ expect \in {"key", "colon", "value", "first", "separator"}
  /\ expect \in {"first", "separator"} => Len(stack) >= 2

\* What each action of the parser leaves.
ParseLeft(frames, n, next) ==
  /\ StackOK(frames) /\ Len(frames) <= n
  /\ n \in 1..Len(tokens)
  /\ next \in {"key", "colon", "value", "first", "separator"}
  /\ next \in {"first", "separator"} => Len(frames) >= 2

LEMMA LeftIsInv ==
  ASSUME ParseLeft(stack', j', expect'), IsScanned, UNCHANGED scannerVars
  PROVE  ParseInv'
<1>1. tokens' = tokens
  BY DEF scannerVars
<1>2. IsScanned'
  BY <1>1, Zenon DEF IsScanned
<1> QED
  BY <1>1, <1>2, Zenon DEF ParseLeft, ParseInv

LEMMA IndexType ==
  ASSUME ScanInv, ParseInv, IsScanned
  PROVE  /\ j \in 1..Len(tokens) /\ NextIndex \in 1..Len(tokens) /\ j <= NextIndex
         /\ Token.type # "end" => NextIndex = j + 1
         /\ Len(stack) \in Nat \ {0} /\ Len(stack) <= j
<1>1. j \in 1..Len(tokens) /\ Len(tokens) \in Nat
  BY Lengthened DEF ScanInv, ParseInv
<1>2. Token.type # "end" => j # Len(tokens)
  BY DEF Token, IsScanned
<1>3. Len(stack) \in Nat \ {0} /\ Len(stack) <= j
  BY DEF ParseInv, StackOK
<1>4. CASE AtEnd
  BY <1>1, <1>3, <1>4 DEF NextIndex, AtEnd
<1>5. CASE ~AtEnd
  <2>1. NextIndex = j + 1 /\ j # Len(tokens)
    BY <1>2, <1>5 DEF NextIndex, AtEnd
  <2> QED
    BY <1>1, <1>3, <2>1
<1> QED
  BY <1>4, <1>5

LEMMA KeyStep ==
  ASSUME ScanInv, ParseInv, IsScanned, Key
  PROVE  ParseLeft(stack', j', expect')
<1>1. PICK k \in Nat \ {0} : k = Len(stack)
  BY DEF ParseInv, StackOK
<1>2. PICK f : f = stack[k]
  OBVIOUS
<1>3. /\ stack' = [stack EXCEPT ![k].key = KeyOf(Token)]
      /\ j' = NextIndex /\ expect' = "colon"
  BY <1>1, Zenon DEF Key, Continue
<1>4. PICK g : g = [f EXCEPT !.key = KeyOf(Token)]
  OBVIOUS
<1>5. FrameOK(f) /\ k \in 1..k
  BY <1>1, <1>2 DEF ParseInv, StackOK
<1>6. PICK kind, items, key : f = [kind |-> kind, items |-> items, key |-> key]
  BY <1>5 DEF FrameOK
<1>7. PICK key2 : key2 = KeyOf(Token)
  OBVIOUS
<1>8. g = [kind |-> kind, items |-> items, key |-> key2]
  BY <1>4, <1>6, <1>7
<1>9. FrameOK(g) /\ g.kind = f.kind /\ g.items = f.items
  <2>1. g.kind = kind /\ g.items = items /\ g.key = key2 /\ f.kind = kind /\ f.items = items
    BY <1>6, <1>8
  <2> QED
    BY <1>5, <1>8, <2>1, Zenon DEF FrameOK
<1>10. /\ IsSeq(stack') /\ Len(stack') = k /\ stack'[k] = g
       /\ \A n \in 1..(k - 1) : stack'[n] = stack[n]
  <2>1. PICK S : stack \in Seq(S)
    BY DEF ParseInv, StackOK, IsSeq
  <2>2. PICK T : T = S \cup {g}
    OBVIOUS
  <2>3. stack \in Seq(T) /\ g \in T
    BY <2>1, <2>2, SeqMonotonic
  <2>4. stack' = [stack EXCEPT ![k] = g]
    BY <1>2, <1>3, <1>4, Zenon
  <2>5. /\ stack' \in Seq(T) /\ Len(stack') = Len(stack)
        /\ \A n \in 1..Len(stack) : stack'[n] = IF n = k THEN g ELSE stack[n]
    BY <1>1, <1>5, <2>3, <2>4, ExceptSeq
  <2>6. IsSeq(stack')
    BY <2>5, Zenon DEF IsSeq
  <2> QED
    BY <1>1, <2>5, <2>6
<1>11. StackOK(stack')
  <2>1. StackOK(stack) /\ (k = 1 => VarsOK(g.items))
    BY <1>2, <1>9, Zenon DEF ParseInv, StackOK
  <2> QED
    BY <1>1, <1>2, <1>9, <1>10, <2>1, StackChanged
<1>12. j' \in 1..Len(tokens) /\ k <= j'
  BY <1>1, <1>3, IndexType
<1> QED
  BY <1>3, <1>10, <1>11, <1>12 DEF ParseLeft

LEMMA NoStep ==
  ASSUME ParseInv, IsScanned, UNCHANGED <<j, stack, expect>>
  PROVE  ParseLeft(stack', j', expect')
BY Zenon DEF ParseInv, ParseLeft

LEMMA ColonStep ==
  ASSUME ScanInv, ParseInv, IsScanned, Colon
  PROVE  ParseLeft(stack', j', expect')
<1>1. CASE Token.type = "colon" /\ j' = NextIndex /\ UNCHANGED stack /\ Continue("value")
  <2>1. j' \in 1..Len(tokens) /\ Len(stack) <= j' /\ Len(stack) \in Nat
    BY <1>1, IndexType
  <2>2. stack' = stack /\ expect' = "value"
    BY <1>1 DEF Continue
  <2> QED
    BY <2>1, <2>2 DEF ParseLeft, ParseInv
<1>2. CASE Fail
  BY <1>2, NoStep DEF Fail
<1> QED
  BY <1>1, <1>2 DEF Colon

LEMMA GiveStep ==
  ASSUME ScanInv, ParseInv, IsScanned, NEW frames, StackOK(frames), Len(frames) <= Len(stack),
         NEW value, IsSeq(value.items), Give(frames, value), j' = NextIndex
  PROVE  ParseLeft(stack', j', expect')
<1>1. PICK f : f = frames[Len(frames)]
  OBVIOUS
<1>2. /\ stack' = Append(Front(frames), Pushed(f, value))
      /\ expect' = AfterItemOf(f)
  BY <1>1, Zenon DEF Give, Continue
<1>3. /\ StackOK(stack') /\ Len(stack') = Len(frames)
      /\ AfterItemOf(f) \in {"key", "separator"}
      /\ AfterItemOf(f) = "separator" => Len(frames) >= 2
  BY <1>1, <1>2, StackGiven, Zenon
<1>4. /\ j' \in 1..Len(tokens) /\ Len(frames) <= j'
  <2>1. Len(frames) \in Nat
    BY DEF StackOK
  <2> QED
    BY <2>1, IndexType
<1> QED
  BY <1>2, <1>3, <1>4 DEF ParseLeft

LEMMA ScalarStep ==
  ASSUME ScanInv, ParseInv, IsScanned, Scalar
  PROVE  ParseLeft(stack', j', expect')
<1>1. PICK value : value = ScalarOf(Token)
  OBVIOUS
<1>2. IsSeq(value.items)
  <2>1. value.items = <<>>
    BY <1>1, Zenon DEF ScalarOf
  <2> QED
    BY <2>1, EmptyIsSeq
<1>3. Give(stack, value) /\ j' = NextIndex
  BY <1>1 DEF Scalar
<1>4. StackOK(stack) /\ Len(stack) <= Len(stack)
  BY DEF ParseInv, StackOK
<1> QED
  BY <1>2, <1>3, <1>4, GiveStep

LEMMA OpenBracketStep ==
  ASSUME ScanInv, ParseInv, IsScanned, OpenBracket
  PROVE  ParseLeft(stack', j', expect')
<1>1. PICK kind \in Bracketed :
        /\ IsBracket(Token, Opener(kind))
        /\ stack' = Append(stack, Open(kind))
  BY DEF OpenBracket, Bracketed
<1>2. j' = NextIndex /\ expect' = "first"
  BY DEF OpenBracket, Continue
<1>3. Token.type # "end"
  BY <1>1 DEF IsBracket
<1>4. /\ StackOK(stack') /\ Len(stack') = Len(stack) + 1
  BY <1>1, StackOpened DEF ParseInv
<1>5. /\ j' \in 1..Len(tokens) /\ Len(stack') <= j' /\ Len(stack') >= 2
  <2>1. /\ NextIndex \in 1..Len(tokens) /\ NextIndex = j + 1 /\ j \in 1..Len(tokens)
        /\ Len(stack) \in Nat \ {0} /\ Len(stack) <= j
    BY <1>3, IndexType
  <2> QED
    BY <1>2, <1>4, <2>1
<1> QED
  BY <1>2, <1>4, <1>5 DEF ParseLeft

LEMMA CloseStep ==
  ASSUME ScanInv, ParseInv, IsScanned, Close
  PROVE  ParseLeft(stack', j', expect')
<1>1. PICK value : value = Compound(Top.kind, Top.items)
  OBVIOUS
<1>2. Give(Front(stack), value) /\ j' = NextIndex
  BY <1>1 DEF Close
<1>3. Len(stack) >= 2 /\ Len(stack) \in Nat \ {0} /\ StackOK(stack)
  BY DEF Close, Expects, ParseInv, StackOK
<1>4. IsSeq(value.items)
  <2>1. Len(stack) \in 1..Len(stack)
    BY <1>3
  <2>2. FrameOK(Top)
    BY <1>3, <2>1, Zenon DEF StackOK, Top
  <2>3. value.items = Top.items
    BY <1>1 DEF Compound
  <2> QED
    BY <2>2, <2>3, Zenon DEF FrameOK
<1>5. StackOK(Front(stack)) /\ Len(Front(stack)) <= Len(stack)
  BY <1>3, StackClosed
<1> QED
  BY <1>2, <1>4, <1>5, GiveStep

LEMMA FirstStep ==
  ASSUME ScanInv, ParseInv, IsScanned, First
  PROVE  ParseLeft(stack', j', expect')
<1>1. stack' = stack /\ j' = j /\ expect' = ItemOf(Top)
  BY DEF First, Continue
<1>2. ItemOf(Top) \in {"value", "key"}
  BY DEF ItemOf
<1> QED
  BY <1>1, <1>2 DEF ParseLeft, ParseInv

LEMMA SeparatorStep ==
  ASSUME ScanInv, ParseInv, IsScanned, Separator
  PROVE  ParseLeft(stack', j', expect')
<1>1. stack' = stack /\ j' = NextIndex /\ expect' = ItemOf(Top)
  BY DEF Separator, Continue
<1>2. ItemOf(Top) \in {"value", "key"}
  BY DEF ItemOf
<1>3. j' \in 1..Len(tokens) /\ Len(stack) <= j' /\ Len(stack) \in Nat
  BY <1>1, IndexType
<1> QED
  BY <1>1, <1>2, <1>3 DEF ParseLeft, ParseInv

LEMMA ParserStep ==
  ASSUME ScanInv, PhaseInv, ParseInv, ParseStep
  PROVE  ParseInv'
<1>1. IsScanned /\ UNCHANGED scannerVars
  BY ParseFrame DEF PhaseInv
<1>2. ASSUME NoKeyThere \/ NoValueThere \/ EndOfFile
      PROVE  UNCHANGED <<j, stack, expect>>
  BY <1>2 DEF NoKeyThere, NoValueThere, EndOfFile, Fail
<1>3. ParseLeft(stack', j', expect')
  BY <1>1, <1>2, NoStep, KeyStep, ColonStep, ScalarStep, OpenBracketStep, CloseStep,
     FirstStep, SeparatorStep DEF ParseStep
<1> QED
  BY <1>1, <1>3, LeftIsInv

LEMMA BeginParse ==
  ASSUME NEW frames, frames = <<Open("file")>>
  PROVE  StackOK(frames) /\ Len(frames) = 1
<1>1. PICK f : f = Open("file")
  OBVIOUS
<1>2. frames \in Seq({f}) /\ Len(frames) = 1 /\ frames[1] = f
  BY <1>1
<1>3. FrameOK(f) /\ f.kind = "file" /\ VarsOK(f.items)
  BY <1>1, OpenOK
<1>4. IsSeq(frames)
  BY <1>2, Zenon DEF IsSeq
<1>5. \A n \in 1..1 : n = 1
  OBVIOUS
<1>6. \A n \in 2..1 : FALSE
  OBVIOUS
<1>7. 1 \in Nat \ {0}
  OBVIOUS
<1> QED
  BY <1>2, <1>3, <1>4, <1>5, <1>6, <1>7, Zenon DEF StackOK

LEMMA ParseInvStep ==
  ASSUME ScanInv, PhaseInv, ParseInv, [Next]_configVars
  PROVE  ParseInv'
<1>1. ASSUME UNCHANGED <<tokens, j, stack, expect>>
      PROVE  ParseInv'
  <2>1. IsScanned' <=> IsScanned
    BY <1>1, Zenon DEF IsScanned
  <2> QED
    BY <1>1, <2>1, Zenon DEF ParseInv
<1>2. CASE Load \/ HandleVar \/ Validate \/ UNCHANGED configVars
  <2>1. UNCHANGED <<tokens, j, stack, expect>>
    BY <1>2 DEF Load, HandleVar, Validate, configVars, parserVars, scannerVars
  <2> QED
    BY <1>1, <2>1
<1>3. CASE (ScanToken \/ EndScan) /\ UNCHANGED <<j, stack, expect, error, config, var>>
  <2>0. j' = j /\ stack' = stack /\ expect' = expect /\ pc = "scan"
    BY <1>3 DEF ScanToken, EndScan
  <2>1. ~IsScanned /\ j = 1 /\ j' = 1 /\ stack' = stack /\ expect' = expect
    <3>1. ~IsScanned
      BY <2>0 DEF PhaseInv
    <3>2. j \in 1..1
      BY <3>1, Zenon DEF ParseInv
    <3> QED
      BY <2>0, <3>1, <3>2
  <2>2. ScanInv' /\ (IsScanned' => Len(tokens') >= 1)
    BY <1>3, ScanTokenScan, EndScanScan DEF IsScanned
  <2>3. Len(tokens') \in Nat
    BY <2>2, Lengthened DEF ScanInv
  <2>4. 1 \in 1..(IF IsScanned' THEN Len(tokens') ELSE 1)
    BY <2>2, <2>3
  <2> QED
    BY <2>1, <2>4, Zenon DEF ParseInv
<1>4. CASE ParseStep
  BY <1>4, ParserStep
<1>5. CASE Again
  <2>1. /\ j' = 1 /\ stack' = <<Open("file")>> /\ expect' = "key" /\ tokens' = <<>>
    BY <1>5 DEF Again
  <2>2. StackOK(stack') /\ Len(stack') = 1
    BY <2>1, BeginParse
  <2>3. ~IsScanned'
    BY <2>1, EmptyIsSeq DEF IsScanned
  <2> QED
    BY <2>1, <2>2, <2>3 DEF ParseInv
<1> QED
  BY <1>2, <1>3, <1>4, <1>5 DEF Next, LoadStep

LEMMA InitParse == Init => ParseInv
<1> SUFFICES ASSUME Init
             PROVE  ParseInv
  OBVIOUS
<1>1. /\ j = 1 /\ stack = <<Open("file")>> /\ expect = "key" /\ tokens = <<>>
  BY DEF Init
<1>2. StackOK(stack) /\ Len(stack) = 1
  BY <1>1, BeginParse
<1>3. ~IsScanned
  BY <1>1, EmptyIsSeq DEF IsScanned
<1> QED
  BY <1>1, <1>2, <1>3 DEF ParseInv

(* -- The handlers ------------------------------------------------------------ *)

ConfigOK(c) ==
  /\ DOMAIN c = Keys
  /\ c.arch \in {NotGiven, <<"x86_64">>}
  /\ c.partition_scheme \in {<<"none">>, <<"gpt">>}
  /\ c.kernel_path \in KernelFiles \cup {NotGiven}
  /\ c.disk_size \in 0..(Word - 1) /\ c.fs_size \in 0..(Word - 1)

LEMMA InitConfigOK == ConfigOK(InitConfig) /\ InitConfig.partitions = <<>>
<1>1. DefaultDiskSize \in 0..(Word - 1) /\ DefaultFsSize \in 0..(Word - 1)
  BY WordAssumption DEF DefaultDiskSize, DefaultFsSize
<1>2. /\ InitConfig.arch = NotGiven /\ InitConfig.partition_scheme = NoScheme
      /\ InitConfig.kernel_path = NotGiven
      /\ InitConfig.disk_size = DefaultDiskSize /\ InitConfig.fs_size = DefaultFsSize
      /\ InitConfig.partitions = <<>>
  BY DEF InitConfig
<1>3. DOMAIN InitConfig = Keys
  BY DEF InitConfig, Keys
<1> QED
  BY <1>1, <1>2, <1>3 DEF ConfigOK, NoScheme

LEMMA MultiplierType == \A word \in DOMAIN Units : Multiplier(Units[word]) \in Nat
<1>1. ASSUME NEW suffix \in KnownUnits
      PROVE  Multiplier(suffix) \in Nat
  BY DEF KnownUnits, Multiplier
<1> QED
  BY <1>1, UnitsAssumption

LEMMA SizeType ==
  ASSUME NEW data, HasSize(data)
  PROVE  SizeOf(data) \in 0..(Word - 1)
<1>1. PICK n : n = Numbers[Leading(data)[1]]
  OBVIOUS
<1>2. n \in Nat
  <2>1. Leading(data)[1] \in DOMAIN Numbers
    BY DEF HasSize
  <2> QED
    BY <1>1, <2>1, NumbersAssumption
<1>3. PICK m : m = IF data[Len(data)] \in DOMAIN Units THEN Multiplier(Units[data[Len(data)]]) ELSE 1
  OBVIOUS
<1>4. m \in Nat
  BY <1>3, MultiplierType
<1>5. SizeOf(data) = (n * m) % Word
  BY <1>1, <1>3, Zenon DEF SizeOf
<1>6. PICK k \in Nat : k = n * m
  BY <1>2, <1>4
<1>7. k % Word \in 0..(Word - 1)
  BY WordAssumption
<1> QED
  BY <1>5, <1>6, <1>7, Zenon

\* A variable with a name of its own, all of Taken that matters.
ScalarKeys == Keys \ {"partitions"}
IsScalar(v, id) == id \in ScalarKeys /\ Is(v, id)

LEMMA NamesDiffer ==
  ASSUME NEW v, NEW a, NEW b, Is(v, a), Is(v, b)
  PROVE  a = b
BY DEF Is

LEMMA TakenIs ==
  ASSUME NEW v, Taken(v)
  PROVE  /\ Is(v, "partitions") \/ \E id \in ScalarKeys : Is(v, id)
         /\ Is(v, "arch") => v.value.data = <<"x86_64">>
         /\ Is(v, "partition_scheme") => v.value.data \in {<<"none">>, <<"gpt">>}
         /\ Is(v, "kernel_path") => v.value.data \in KernelFiles
         /\ Is(v, "disk_size") \/ Is(v, "fs_size") => HasSize(v.value.data)
         /\ Is(v, "partitions") => BadItems(v.value) = {}
<1>1. Is(v, "partitions") \/ \E id \in ScalarKeys : Is(v, id)
  BY DEF Taken, ScalarKeys, Keys
<1>2. ASSUME Is(v, "arch")
      PROVE  v.value.data = <<"x86_64">>
  BY <1>2 DEF Taken, Is
<1>3. ASSUME Is(v, "partition_scheme")
      PROVE  v.value.data \in {<<"none">>, <<"gpt">>}
  BY <1>3 DEF Taken, Is
<1>4. ASSUME Is(v, "kernel_path")
      PROVE  v.value.data \in KernelFiles
  BY <1>4 DEF Taken, Is
<1>5. ASSUME Is(v, "disk_size") \/ Is(v, "fs_size")
      PROVE  HasSize(v.value.data)
  BY <1>5 DEF Taken, Is, IsSize
<1>6. ASSUME Is(v, "partitions")
      PROVE  BadItems(v.value) = {}
  BY <1>6 DEF Taken, Is
<1> QED
  BY <1>1, <1>2, <1>3, <1>4, <1>5, <1>6

\* One field of a configuration is set.
FieldSet(c, id, value, d) ==
  /\ DOMAIN d = DOMAIN c /\ d[id] = value
  /\ \A key \in DOMAIN c \ {id} : d[key] = c[key]

LEMMA ExceptSets ==
  ASSUME NEW c, NEW id \in DOMAIN c, NEW value
  PROVE  FieldSet(c, id, value, [c EXCEPT ![id] = value])
BY DEF FieldSet

LEMMA ScalarSet ==
  ASSUME NEW c, DOMAIN c = Keys, NEW v, NEW id \in ScalarKeys, Is(v, id)
  PROVE  FieldSet(c, id, ValueOf(v), Set(c, v))
<1>1. ~Is(v, "partitions")
  <2>1. id # "partitions"
    BY DEF ScalarKeys
  <2> QED
    BY <2>1, NamesDiffer
<1>2. v.key.id[1] = id
  BY DEF Is
<1>3. Set(c, v) = [c EXCEPT ![id] = ValueOf(v)]
  BY <1>1, <1>2, Zenon DEF Set
<1>4. id \in DOMAIN c
  BY DEF ScalarKeys
<1> QED
  BY <1>3, <1>4, ExceptSets

LEMMA ListSet ==
  ASSUME NEW c, DOMAIN c = Keys, NEW v, Is(v, "partitions")
  PROVE  FieldSet(c, "partitions", c.partitions \o Partitions(v.value), Set(c, v))
<1>1. PICK all : all = c.partitions \o Partitions(v.value)
  OBVIOUS
<1>2. Set(c, v) = [c EXCEPT !.partitions = all]
  BY <1>1, Zenon DEF Set
<1>3. "partitions" \in DOMAIN c
  BY DEF Keys
<1>4. FieldSet(c, "partitions", all, [c EXCEPT !["partitions"] = all])
  BY <1>3, ExceptSets
<1> QED
  BY <1>1, <1>2, <1>4

LEMMA ListSetOK ==
  ASSUME NEW c, ConfigOK(c), NEW v, Is(v, "partitions")
  PROVE  ConfigOK(Set(c, v))
<1>1. PICK d : d = Set(c, v)
  OBVIOUS
<1>2. PICK all : FieldSet(c, "partitions", all, d)
  BY <1>1, ListSet DEF ConfigOK
<1>3. DOMAIN d = Keys /\ \A key \in Keys \ {"partitions"} : d[key] = c[key]
  BY <1>2 DEF FieldSet, ConfigOK
<1>4. /\ d.arch = c.arch /\ d.partition_scheme = c.partition_scheme
      /\ d.kernel_path = c.kernel_path
      /\ d.disk_size = c.disk_size /\ d.fs_size = c.fs_size
  BY <1>3 DEF Keys
<1> QED
  BY <1>1, <1>3, <1>4, Zenon DEF ConfigOK

LEMMA ScalarSetOK ==
  ASSUME NEW c, ConfigOK(c), NEW v, Taken(v), NEW id \in ScalarKeys, Is(v, id)
  PROVE  ConfigOK(Set(c, v))
<1>1. PICK d : d = Set(c, v)
  OBVIOUS
<1>2. FieldSet(c, id, ValueOf(v), d)
  BY <1>1, ScalarSet DEF ConfigOK
<1>3. /\ DOMAIN d = Keys /\ d[id] = ValueOf(v)
      /\ \A key \in Keys \ {id} : d[key] = c[key]
  BY <1>2 DEF FieldSet, ConfigOK
<1>4. \A key : Is(v, key) => key = id
  BY NamesDiffer
<1>5. d.arch \in {NotGiven, <<"x86_64">>}
  <2>1. CASE id = "arch"
    <3>1. ~Is(v, "fs_loader") /\ ~Is(v, "disk_size") /\ ~Is(v, "fs_size")
      BY <1>4, <2>1
    <3>2. ValueOf(v) = <<"x86_64">>
      BY <2>1, <3>1, TakenIs DEF ValueOf
    <3> QED
      BY <1>3, <2>1, <3>2
  <2>2. CASE id # "arch"
    BY <1>3, <2>2 DEF ConfigOK, Keys
  <2> QED
    BY <2>1, <2>2
<1>6. d.partition_scheme \in {<<"none">>, <<"gpt">>}
  <2>1. CASE id = "partition_scheme"
    <3>1. ~Is(v, "fs_loader") /\ ~Is(v, "disk_size") /\ ~Is(v, "fs_size")
      BY <1>4, <2>1
    <3>2. ValueOf(v) \in {<<"none">>, <<"gpt">>}
      BY <2>1, <3>1, TakenIs DEF ValueOf
    <3> QED
      BY <1>3, <2>1, <3>2
  <2>2. CASE id # "partition_scheme"
    BY <1>3, <2>2 DEF ConfigOK, Keys
  <2> QED
    BY <2>1, <2>2
<1>7. d.kernel_path \in KernelFiles \cup {NotGiven}
  <2>1. CASE id = "kernel_path"
    <3>1. ~Is(v, "fs_loader") /\ ~Is(v, "disk_size") /\ ~Is(v, "fs_size")
      BY <1>4, <2>1
    <3>2. ValueOf(v) \in KernelFiles
      BY <2>1, <3>1, TakenIs DEF ValueOf
    <3> QED
      BY <1>3, <2>1, <3>2
  <2>2. CASE id # "kernel_path"
    BY <1>3, <2>2 DEF ConfigOK, Keys
  <2> QED
    BY <2>1, <2>2
<1>8. ASSUME NEW size \in {"disk_size", "fs_size"}
      PROVE  d[size] \in 0..(Word - 1)
  <2>1. CASE id = size
    <3>1. Is(v, "disk_size") \/ Is(v, "fs_size")
      BY <2>1
    <3>2. ~Is(v, "fs_loader")
      BY <1>4, <2>1
    <3>3. HasSize(v.value.data)
      BY <3>1, TakenIs
    <3>4. ValueOf(v) = SizeOf(v.value.data)
      BY <3>1, <3>2, Zenon DEF ValueOf
    <3>5. d[size] = SizeOf(v.value.data)
      BY <1>3, <2>1, <3>4, Zenon
    <3> QED
      BY <3>3, <3>5, SizeType, Zenon
  <2>2. CASE id # size
    <3>1. d[size] = c[size]
      BY <1>3, <2>2 DEF Keys
    <3> QED
      BY <3>1 DEF ConfigOK
  <2> QED
    BY <2>1, <2>2
<1> QED
  BY <1>1, <1>3, <1>5, <1>6, <1>7, <1>8 DEF ConfigOK

(* -- What a configuration says ----------------------------------------------- *)

\* The last of a name among the first k variables, and the partitions that
\* they list.
LastBefore(vars, id, k) == {n \in 1..k : Is(vars[n], id) /\ \A m \in (n + 1)..k : ~Is(vars[m], id)}
ItemsOf(vars, n) == {<<n, m>> : m \in DOMAIN vars[n].value.items}
ListsIn(vars, k) == UNION {ItemsOf(vars, n) : n \in {h \in 1..k : Is(vars[h], "partitions")}}

OneOf(S) == CHOOSE n \in S : TRUE
Said(vars, id, k) == IF LastBefore(vars, id, k) = {} THEN InitConfig[id]
                     ELSE ValueOf(vars[OneOf(LastBefore(vars, id, k))])

Reflects(c, vars, k) ==
  /\ \A id \in ScalarKeys : c[id] = Said(vars, id, k)
  /\ IsSeq(c.partitions) /\ IsFiniteSet(ListsIn(vars, k))
  /\ Len(c.partitions) = Cardinality(ListsIn(vars, k))

LEMMA NothingSaid ==
  ASSUME NEW vars
  PROVE  Reflects(InitConfig, vars, 0)
<1>1. \A id : LastBefore(vars, id, 0) = {}
  BY DEF LastBefore
<1>2. ListsIn(vars, 0) = {}
  BY DEF ListsIn
<1>3. \A id \in ScalarKeys : InitConfig[id] = Said(vars, id, 0)
  BY <1>1, Zenon DEF Said
<1>4. InitConfig.partitions = <<>>
  BY InitConfigOK
<1> QED
  BY <1>2, <1>3, <1>4, EmptyIsSeq, FS_EmptySet DEF Reflects

LEMMA LastGrows ==
  ASSUME NEW vars, NEW k \in Nat, NEW id
  PROVE  /\ Is(vars[k + 1], id) => LastBefore(vars, id, k + 1) = {k + 1}
         /\ ~Is(vars[k + 1], id) => LastBefore(vars, id, k + 1) = LastBefore(vars, id, k)
<1> DEFINE P(n) == Is(vars[n], id)
<1>1. ASSUME P(k + 1)
      PROVE  LastBefore(vars, id, k + 1) = {k + 1}
  <2>1. \A n \in 1..k : k + 1 \in (n + 1)..(k + 1)
    OBVIOUS
  <2>2. \A m \in (k + 1 + 1)..(k + 1) : FALSE
    OBVIOUS
  <2>3. k + 1 \in 1..(k + 1) /\ \A n \in 1..(k + 1) : n \in 1..k \/ n = k + 1
    OBVIOUS
  <2>4. \A n \in LastBefore(vars, id, k + 1) : n = k + 1
    BY <1>1, <2>1, <2>3, Zenon DEF LastBefore
  <2>5. k + 1 \in LastBefore(vars, id, k + 1)
    BY <1>1, <2>2, <2>3 DEF LastBefore
  <2> QED
    BY <2>4, <2>5
<1>2. ASSUME ~P(k + 1)
      PROVE  LastBefore(vars, id, k + 1) = LastBefore(vars, id, k)
  <2>1. \A n \in 1..(k + 1) : n \in 1..k \/ n = k + 1
    OBVIOUS
  <2>2. \A n \in 1..k : n \in 1..(k + 1)
    OBVIOUS
  <2>3. ASSUME NEW n \in 1..k
        PROVE  (\A m \in (n + 1)..(k + 1) : ~P(m)) <=> (\A m \in (n + 1)..k : ~P(m))
    <3>1. \A m \in (n + 1)..(k + 1) : m \in (n + 1)..k \/ m = k + 1
      OBVIOUS
    <3>2. \A m \in (n + 1)..k : m \in (n + 1)..(k + 1)
      OBVIOUS
    <3> HIDE DEF P
    <3> QED
      BY <1>2, <3>1, <3>2, Zenon
  <2>4. ASSUME NEW n
        PROVE  n \in LastBefore(vars, id, k + 1) <=> n \in LastBefore(vars, id, k)
    <3>1. n \in LastBefore(vars, id, k + 1)
            <=> n \in 1..(k + 1) /\ P(n) /\ \A m \in (n + 1)..(k + 1) : ~P(m)
      BY Zenon DEF LastBefore
    <3>2. n \in LastBefore(vars, id, k) <=> n \in 1..k /\ P(n) /\ \A m \in (n + 1)..k : ~P(m)
      BY Zenon DEF LastBefore
    <3> HIDE DEF P
    <3> QED
      BY <1>2, <2>1, <2>2, <2>3, <3>1, <3>2, Zenon
  <2> QED
    BY <2>4
<1> QED
  BY <1>1, <1>2

LEMMA OnlyOne == \A n : OneOf({n}) = n
BY DEF OneOf

LEMMA SaidMore ==
  ASSUME NEW vars, NEW k \in Nat, NEW id
  PROVE  Said(vars, id, k + 1) = IF Is(vars[k + 1], id) THEN ValueOf(vars[k + 1])
                                                       ELSE Said(vars, id, k)
<1>1. CASE Is(vars[k + 1], id)
  <2>1. LastBefore(vars, id, k + 1) = {k + 1}
    BY <1>1, LastGrows
  <2>2. {k + 1} # {}
    OBVIOUS
  <2>3. Said(vars, id, k + 1) = ValueOf(vars[OneOf({k + 1})])
    BY <2>1, <2>2, Zenon DEF Said
  <2> QED
    BY <1>1, <2>3, OnlyOne, Zenon
<1>2. CASE ~Is(vars[k + 1], id)
  <2>1. LastBefore(vars, id, k + 1) = LastBefore(vars, id, k)
    BY <1>2, LastGrows
  <2> QED
    BY <1>2, <2>1, Zenon DEF Said
<1> QED
  BY <1>1, <1>2

LEMMA ListsGrow ==
  ASSUME NEW vars, NEW k \in Nat
  PROVE  /\ Is(vars[k + 1], "partitions")
              => ListsIn(vars, k + 1) = ListsIn(vars, k) \cup ItemsOf(vars, k + 1)
         /\ ~Is(vars[k + 1], "partitions") => ListsIn(vars, k + 1) = ListsIn(vars, k)
         /\ ListsIn(vars, k) \cap ItemsOf(vars, k + 1) = {}
<1> DEFINE P(n) == Is(vars[n], "partitions")
<1>1. \A e, l : e \in ListsIn(vars, l) <=> \E n \in 1..l : P(n) /\ e \in ItemsOf(vars, n)
  BY Zenon DEF ListsIn
<1>2. /\ \A n \in 1..(k + 1) : n \in 1..k \/ n = k + 1
      /\ \A n \in 1..k : n \in 1..(k + 1) /\ n # k + 1
      /\ k + 1 \in 1..(k + 1)
  OBVIOUS
<1>3. \A n : \A e \in ItemsOf(vars, n) : e[1] = n
  BY DEF ItemsOf
<1> HIDE DEF P
<1>4. ASSUME P(k + 1)
      PROVE  ListsIn(vars, k + 1) = ListsIn(vars, k) \cup ItemsOf(vars, k + 1)
  <2>1. \A e : e \in ListsIn(vars, k + 1) <=> e \in ListsIn(vars, k) \/ e \in ItemsOf(vars, k + 1)
    BY <1>1, <1>2, <1>4, Zenon
  <2> QED
    BY <2>1
<1>5. ASSUME ~P(k + 1)
      PROVE  ListsIn(vars, k + 1) = ListsIn(vars, k)
  <2>1. \A e : e \in ListsIn(vars, k + 1) <=> e \in ListsIn(vars, k)
    BY <1>1, <1>2, <1>5, Zenon
  <2> QED
    BY <2>1
<1>6. ASSUME NEW e \in ListsIn(vars, k), e \in ItemsOf(vars, k + 1)
      PROVE  FALSE
  <2>1. PICK n \in 1..k : e \in ItemsOf(vars, n)
    BY <1>1, Zenon
  <2>2. e[1] = n /\ e[1] = k + 1
    BY <1>3, <1>6, <2>1, Zenon
  <2> QED
    BY <1>2, <2>2
<1> QED
  BY <1>4, <1>5, <1>6 DEF P

LEMMA ItemsCounted ==
  ASSUME NEW vars, NEW n, IsSeq(vars[n].value.items)
  PROVE  /\ IsFiniteSet(ItemsOf(vars, n)) /\ Len(vars[n].value.items) \in Nat
         /\ Cardinality(ItemsOf(vars, n)) = Len(vars[n].value.items)
<1>1. PICK S : vars[n].value.items \in Seq(S)
  BY DEF IsSeq
<1>2. PICK l \in Nat : l = Len(vars[n].value.items) /\ DOMAIN vars[n].value.items = 1..l
  BY <1>1, LenProperties
<1>3. ItemsOf(vars, n) = {<<n, m>> : m \in 1..l}
  BY <1>2, Zenon DEF ItemsOf
<1> DEFINE T == {<<n, m>> : m \in 1..l}
           f == [m \in 1..l |-> <<n, m>>]
<1>4. f \in Bijection(1..l, T)
  <2>1. f \in [1..l -> T]
    OBVIOUS
  <2>2. \A a, b \in 1..l : f[a] = f[b] => a = b
    OBVIOUS
  <2>3. \A t \in T : \E m \in 1..l : f[m] = t
    OBVIOUS
  <2> QED
    BY <2>1, <2>2, <2>3 DEF Bijection, Injection, Surjection, IsInjective
<1>5. IsFiniteSet(1..l) /\ Cardinality(1..l) = l
  BY FS_Interval
<1>6. ExistsBijection(1..l, T)
  BY <1>4, Zenon DEF ExistsBijection
<1>7. IsFiniteSet(T) /\ Cardinality(T) = l
  <2> HIDE DEF T
  <2> QED
    BY <1>5, <1>6, FS_Bijection
<1> QED
  BY <1>2, <1>3, <1>7

LEMMA PartitionsCounted ==
  ASSUME NEW value, IsSeq(value.items), BadItems(value) = {}
  PROVE  IsSeq(Partitions(value)) /\ Len(Partitions(value)) = Len(value.items)
<1>1. PICK l \in Nat : l = Len(value.items)
  BY LenProperties DEF IsSeq
<1>2. FirstOf({} \cup {l + 1}) = l + 1
  <2>1. {} \cup {l + 1} = {l + 1}
    OBVIOUS
  <2>2. FirstOf({l + 1}) = l + 1
    BY DEF FirstOf
  <2> QED
    BY <2>1, <2>2
<1>3. (l + 1) - 1 = l
  OBVIOUS
<1>4. Partitions(value) = [n \in 1..l |-> PartitionOf(value.items[n])]
  BY <1>1, <1>2, <1>3, Zenon DEF Partitions
<1>5. PICK all : all = [n \in 1..l |-> PartitionOf(value.items[n])]
  OBVIOUS
<1>6. PICK S : S = {PartitionOf(value.items[n]) : n \in 1..l}
  OBVIOUS
<1>7. all \in [1..l -> S]
  BY <1>5, <1>6
<1>8. all \in Seq(S) /\ Len(all) = l
  BY <1>7
<1> QED
  BY <1>1, <1>4, <1>5, <1>8, Zenon DEF IsSeq

LEMMA Joined ==
  ASSUME NEW x, NEW y, IsSeq(x), IsSeq(y)
  PROVE  IsSeq(x \o y) /\ Len(x \o y) = Len(x) + Len(y) /\ Len(x) \in Nat
<1>1. PICK S : x \in Seq(S)
  BY DEF IsSeq
<1>2. PICK T : y \in Seq(T)
  BY DEF IsSeq
<1>3. PICK U : U = S \cup T
  OBVIOUS
<1>4. x \in Seq(U) /\ y \in Seq(U)
  BY <1>1, <1>2, <1>3, SeqMonotonic
<1>5. x \o y \in Seq(U) /\ Len(x \o y) = Len(x) + Len(y) /\ Len(x) \in Nat
  BY <1>4, ConcatProperties, LenProperties
<1> QED
  BY <1>5, Zenon DEF IsSeq

LEMMA ScalarReflected ==
  ASSUME NEW c, DOMAIN c = Keys, NEW vars, NEW k \in Nat, Reflects(c, vars, k),
         NEW id \in ScalarKeys, Is(vars[k + 1], id)
  PROVE  Reflects(Set(c, vars[k + 1]), vars, k + 1)
<1>1. PICK v : v = vars[k + 1]
  OBVIOUS
<1>2. PICK d : d = Set(c, v)
  OBVIOUS
<1>3. FieldSet(c, id, ValueOf(v), d)
  BY <1>1, <1>2, ScalarSet
<1>4. \A key : Is(v, key) <=> key = id
  BY <1>1, NamesDiffer
<1>5. ASSUME NEW key \in ScalarKeys
      PROVE  d[key] = Said(vars, key, k + 1)
  <2>1. Said(vars, key, k + 1) = IF Is(v, key) THEN ValueOf(v) ELSE Said(vars, key, k)
    BY <1>1, SaidMore
  <2>2. key \in DOMAIN c /\ c[key] = Said(vars, key, k)
    BY DEF Reflects, ScalarKeys
  <2>3. CASE key = id
    BY <1>3, <1>4, <2>1, <2>3, Zenon DEF FieldSet
  <2>4. CASE key # id
    <3>1. key \in DOMAIN c \ {id}
      BY <2>2, <2>4
    <3> QED
      BY <1>3, <1>4, <2>1, <2>2, <2>4, <3>1, Zenon DEF FieldSet
  <2> QED
    BY <2>3, <2>4
<1>6. d.partitions = c.partitions
  <2>1. "partitions" \in DOMAIN c \ {id}
    BY DEF Keys, ScalarKeys
  <2> QED
    BY <1>3, <2>1 DEF FieldSet
<1>7. ListsIn(vars, k + 1) = ListsIn(vars, k)
  <2>1. ~Is(v, "partitions")
    BY <1>4 DEF ScalarKeys
  <2> QED
    BY <1>1, <2>1, ListsGrow
<1> QED
  BY <1>1, <1>2, <1>5, <1>6, <1>7, Zenon DEF Reflects

LEMMA ListReflected ==
  ASSUME NEW c, DOMAIN c = Keys, NEW vars, NEW k \in Nat, Reflects(c, vars, k),
         Is(vars[k + 1], "partitions"), BadItems(vars[k + 1].value) = {},
         IsSeq(vars[k + 1].value.items)
  PROVE  Reflects(Set(c, vars[k + 1]), vars, k + 1)
<1>1. PICK v : v = vars[k + 1]
  OBVIOUS
<1>2. PICK d : d = Set(c, v)
  OBVIOUS
<1>3. PICK new : new = Partitions(v.value)
  OBVIOUS
<1>4. FieldSet(c, "partitions", c.partitions \o new, d)
  BY <1>1, <1>2, <1>3, ListSet
<1>5. ASSUME NEW key \in ScalarKeys
      PROVE  d[key] = Said(vars, key, k + 1)
  <2>1. ~Is(v, key)
    BY <1>1, NamesDiffer DEF ScalarKeys
  <2>2. Said(vars, key, k + 1) = Said(vars, key, k)
    BY <1>1, <2>1, SaidMore
  <2>3. key \in DOMAIN c \ {"partitions"} /\ c[key] = Said(vars, key, k)
    BY DEF Reflects, ScalarKeys
  <2> QED
    BY <1>4, <2>2, <2>3, Zenon DEF FieldSet
<1>6. d.partitions = c.partitions \o new
  BY <1>4 DEF FieldSet
<1>7. /\ IsSeq(new) /\ Len(new) = Len(v.value.items)
  BY <1>1, <1>3, PartitionsCounted
<1>8. /\ IsSeq(d.partitions) /\ Len(d.partitions) = Len(c.partitions) + Len(new)
  BY <1>6, <1>7, Joined DEF Reflects
<1> DEFINE A == ListsIn(vars, k)
           B == ItemsOf(vars, k + 1)
           C == ListsIn(vars, k + 1)
<1>9. C = A \cup B /\ A \cap B = {}
  BY ListsGrow
<1>10. IsFiniteSet(A) /\ IsFiniteSet(B) /\ Cardinality(A) \in Nat /\ Cardinality(B) \in Nat
  <2>1. IsFiniteSet(A) /\ IsFiniteSet(B)
    BY ItemsCounted, Zenon DEF Reflects
  <2> HIDE DEF A, B
  <2> QED
    BY <2>1, FS_CardinalityType
<1>11. Cardinality(A) = Len(c.partitions) /\ Cardinality(B) = Len(new)
  <2>1. Cardinality(B) = Len(v.value.items)
    BY <1>1, ItemsCounted, Zenon
  <2> QED
    BY <1>7, <2>1, Zenon DEF Reflects
<1> HIDE DEF A, B, C
<1>12. IsFiniteSet(C) /\ Cardinality(C) = Cardinality(A) + Cardinality(B)
  <2>1. /\ IsFiniteSet(A \cup B)
        /\ Cardinality(A \cup B) = Cardinality(A) + Cardinality(B) - Cardinality(A \cap B)
    BY <1>10, FS_Union
  <2>2. Cardinality(A \cap B) = 0
    BY <1>9, FS_EmptySet
  <2>3. Cardinality(C) = Cardinality(A) + Cardinality(B) - 0
    BY <1>9, <2>1, <2>2, Zenon
  <2>4. IsFiniteSet(C)
    BY <1>9, <2>1
  <2> QED
    BY <1>10, <2>3, <2>4
<1>13. Len(d.partitions) = Cardinality(C)
  BY <1>8, <1>11, <1>12, Zenon
<1> QED
  BY <1>1, <1>2, <1>5, <1>8, <1>12, <1>13, Zenon DEF Reflects, C

(* -- What is handled --------------------------------------------------------- *)

Accepted(c, vars) ==
  /\ \A id \in ScalarKeys \ {"bootsector", "partition_scheme"} : c[id] = Said(vars, id, Len(vars))
  /\ Len(c.partitions) = Cardinality(ListsIn(vars, Len(vars)))
  /\ c.arch = <<"x86_64">> /\ c.partition_scheme = <<"gpt">>
  /\ c.fs_loader => c.bootsector = <<"mbr">>
  /\ ~c.fs_loader => c.kernel_path \in KernelFiles

HandleInv ==
  /\ var \in 1..(Len(Vars) + 1)
  /\ pc \in {"load", "scan", "parse", "syntax error"} => var = 1
  /\ pc \in {"load", "scan", "parse"} => config = InitConfig
  /\ ConfigOK(config)
  /\ pc = "handle" => Reflects(config, Vars, var - 1)
  /\ pc = "accepted" => Accepted(config, Vars)

LEMMA VarsType ==
  ASSUME StackOK(stack)
  PROVE  IsSeq(Vars) /\ Len(Vars) \in Nat /\ VarsOK(Vars)
<1>1. 1 \in 1..Len(stack)
  BY DEF StackOK
<1>2. FrameOK(stack[1]) /\ VarsOK(stack[1].items)
  BY <1>1, Zenon DEF StackOK
<1>3. IsSeq(Vars) /\ VarsOK(Vars)
  BY <1>2, Zenon DEF FrameOK, Vars
<1> QED
  BY <1>3, Lengthened

LEMMA DefaultsIs ==
  ASSUME NEW c, DOMAIN c = Keys
  PROVE  /\ DOMAIN WithDefaults(c) = Keys
         /\ \A key \in Keys \ {"bootsector", "partition_scheme"} : WithDefaults(c)[key] = c[key]
         /\ WithDefaults(c).partition_scheme =
              IF c.partition_scheme = NoScheme THEN <<"gpt">> ELSE c.partition_scheme
<1>1. PICK b : b = IF c.bootsector = NotGiven THEN <<"mbr">> ELSE c.bootsector
  OBVIOUS
<1>2. PICK p : p = IF c.partition_scheme = NoScheme THEN <<"gpt">> ELSE c.partition_scheme
  OBVIOUS
<1>3. PICK d : d = [c EXCEPT !.bootsector = b]
  OBVIOUS
<1>4. FieldSet(c, "bootsector", b, d)
  <2>1. "bootsector" \in DOMAIN c
    BY DEF Keys
  <2>2. FieldSet(c, "bootsector", b, [c EXCEPT !["bootsector"] = b])
    BY <2>1, ExceptSets
  <2> QED
    BY <1>3, <2>2
<1>5. PICK e : e = [d EXCEPT !.partition_scheme = p]
  OBVIOUS
<1>6. FieldSet(d, "partition_scheme", p, e)
  <2>1. "partition_scheme" \in DOMAIN d
    BY <1>4 DEF FieldSet, Keys
  <2>2. FieldSet(d, "partition_scheme", p, [d EXCEPT !["partition_scheme"] = p])
    BY <2>1, ExceptSets
  <2> QED
    BY <1>5, <2>2
<1>7. WithDefaults(c) = e
  <2>1. d.partition_scheme = c.partition_scheme
    BY <1>4 DEF FieldSet, Keys
  <2>2. WithDefaults(c) = [c EXCEPT !.bootsector = b, !.partition_scheme = p]
    BY <1>1, <1>2, Zenon DEF WithDefaults
  <2> QED
    BY <1>3, <1>5, <2>2, Zenon
<1>8. /\ DOMAIN e = Keys /\ e.partition_scheme = p
      /\ \A key \in Keys \ {"bootsector", "partition_scheme"} : e[key] = c[key]
  BY <1>4, <1>6 DEF FieldSet
<1> QED
  BY <1>2, <1>7, <1>8, Zenon

LEMMA DefaultsOK ==
  ASSUME NEW c, ConfigOK(c)
  PROVE  /\ ConfigOK(WithDefaults(c)) /\ WithDefaults(c).partition_scheme = <<"gpt">>
         /\ \A key \in Keys \ {"bootsector", "partition_scheme"} : WithDefaults(c)[key] = c[key]
<1>1. PICK d : d = WithDefaults(c)
  OBVIOUS
<1>2. /\ DOMAIN d = Keys
      /\ \A key \in Keys \ {"bootsector", "partition_scheme"} : d[key] = c[key]
      /\ d.partition_scheme = IF c.partition_scheme = NoScheme THEN <<"gpt">> ELSE c.partition_scheme
  BY <1>1, DefaultsIs DEF ConfigOK
<1>3. d.partition_scheme = <<"gpt">>
  BY <1>2 DEF ConfigOK, NoScheme
<1>4. /\ d.arch = c.arch /\ d.kernel_path = c.kernel_path
      /\ d.disk_size = c.disk_size /\ d.fs_size = c.fs_size
  BY <1>2 DEF Keys
<1>5. ConfigOK(d)
  BY <1>2, <1>3, <1>4 DEF ConfigOK
<1> QED
  BY <1>1, <1>2, <1>3, <1>5

LEMMA ValidateStep ==
  ASSUME ParseInv, HandleInv, Validate
  PROVE  HandleInv'
<1>1. PICK c : c = config
  OBVIOUS
<1>2. PICK d : d = WithDefaults(c)
  OBVIOUS
<1>3. /\ var > Len(Vars) /\ UNCHANGED <<stack, var>>
      /\ config' = IF c.arch = NotGiven THEN c ELSE d
      /\ pc' = IF c.arch # NotGiven /\ IsBootable(d) THEN "accepted" ELSE "refused"
  BY <1>1, <1>2 DEF Validate
<1>4. Len(Vars) \in Nat /\ var \in 1..(Len(Vars) + 1)
  BY VarsType DEF ParseInv, HandleInv
<1>5. PICK k \in Nat : k = Len(Vars) /\ var = k + 1 /\ var - 1 = k
  BY <1>3, <1>4
<1>6. ConfigOK(c) /\ Reflects(c, Vars, k)
  BY <1>1, <1>5 DEF HandleInv, Validate
<1>7. /\ ConfigOK(d) /\ d.partition_scheme = <<"gpt">>
      /\ \A key \in Keys \ {"bootsector", "partition_scheme"} : d[key] = c[key]
  BY <1>2, <1>6, DefaultsOK
<1>8. Vars' = Vars
  BY <1>3 DEF Vars
<1>9. ASSUME pc' = "accepted"
      PROVE  Accepted(config', Vars)
  <2>1. c.arch # NotGiven /\ IsBootable(d) /\ config' = d
    BY <1>3, <1>9
  <2>2. d.arch = <<"x86_64">>
    <3>1. d.arch = c.arch
      BY <1>7 DEF Keys
    <3> QED
      BY <1>6, <2>1, <3>1 DEF ConfigOK
  <2>3. /\ d.fs_loader => d.bootsector = <<"mbr">>
        /\ ~d.fs_loader => d.kernel_path \in KernelFiles
    BY <1>7, <2>1 DEF IsBootable, ConfigOK
  <2>4. \A id \in ScalarKeys \ {"bootsector", "partition_scheme"} : d[id] = Said(Vars, id, k)
    BY <1>6, <1>7, Zenon DEF Reflects, ScalarKeys
  <2>5. Len(d.partitions) = Cardinality(ListsIn(Vars, k))
    <3>1. d.partitions = c.partitions
      BY <1>7 DEF Keys
    <3> QED
      BY <1>6, <3>1, Zenon DEF Reflects
  <2> QED
    BY <1>5, <1>7, <2>1, <2>2, <2>3, <2>4, <2>5, Zenon DEF Accepted
<1>10. ConfigOK(config')
  BY <1>3, <1>6, <1>7
<1>11. pc' \in {"accepted", "refused"} /\ var' = var
  BY <1>3
<1> QED
  BY <1>4, <1>8, <1>9, <1>10, <1>11 DEF HandleInv

LEMMA HandleVarStep ==
  ASSUME ParseInv, HandleInv, HandleVar
  PROVE  HandleInv'
<1>1. PICK c : c = config
  OBVIOUS
<1>2. Len(Vars) \in Nat /\ var \in 1..(Len(Vars) + 1) /\ VarsOK(Vars)
  BY VarsType DEF ParseInv, HandleInv
<1>3. pc = "handle" /\ var <= Len(Vars) /\ UNCHANGED stack
  BY DEF HandleVar
<1>4. PICK k \in Nat : var = k + 1 /\ k + 1 \in 1..Len(Vars) /\ var - 1 = k
  <2>1. var - 1 \in Nat /\ var = (var - 1) + 1 /\ var \in 1..Len(Vars)
    BY <1>2, <1>3
  <2> QED
    BY <2>1
<1>5. PICK v : v = Vars[k + 1]
  OBVIOUS
<1>6. \/ /\ Taken(v) /\ config' = Set(c, v) /\ var' = k + 2 /\ pc' = "handle"
      \/ /\ ~Taken(v) /\ pc' = "refused" /\ var' = k + 1
         /\ config' = IF Is(v, "partitions") /\ v.value.type = "list" THEN Set(c, v) ELSE c
  <2>1. (k + 1) + 1 = k + 2
    OBVIOUS
  <2>2. Vars[var] = v
    BY <1>4, <1>5
  <2> QED
    BY <1>1, <1>3, <1>4, <2>1, <2>2, Zenon DEF HandleVar
<1>7. ConfigOK(c) /\ Reflects(c, Vars, k)
  BY <1>1, <1>3, <1>4 DEF HandleInv
<1>8. IsSeq(v.value.items)
  BY <1>2, <1>4, <1>5 DEF VarsOK
<1>9. Vars' = Vars
  BY <1>3 DEF Vars
<1>10. ConfigOK(config')
  BY <1>6, <1>7, TakenIs, ListSetOK, ScalarSetOK
<1>11. ASSUME Taken(v)
       PROVE  Reflects(config', Vars, k + 1)
  <2>1. config' = Set(c, v)
    BY <1>6, <1>11
  <2>2. DOMAIN c = Keys
    BY <1>7 DEF ConfigOK
  <2>3. CASE Is(v, "partitions")
    <3>1. BadItems(v.value) = {}
      BY <1>11, <2>3, TakenIs
    <3> QED
      BY <1>5, <1>7, <1>8, <2>1, <2>2, <2>3, <3>1, ListReflected
  <2>4. CASE \E id \in ScalarKeys : Is(v, id)
    <3>1. PICK id \in ScalarKeys : Is(v, id)
      BY <2>4
    <3> QED
      BY <1>5, <1>7, <2>1, <2>2, <3>1, ScalarReflected
  <2> QED
    BY <1>11, <2>3, <2>4, TakenIs
<1>12. /\ pc' \in {"handle", "refused"} /\ var' \in 1..(Len(Vars') + 1)
       /\ pc' = "handle" => Reflects(config', Vars', var' - 1)
  <2>1. k + 2 \in 1..(Len(Vars) + 1) /\ k + 1 \in 1..(Len(Vars) + 1) /\ (k + 2) - 1 = k + 1
    BY <1>2, <1>4
  <2> QED
    BY <1>6, <1>9, <1>11, <2>1
<1> QED
  BY <1>10, <1>12 DEF HandleInv

LEMMA HandleStep ==
  ASSUME ScanInv, PhaseInv, ParseInv, HandleInv, [Next]_configVars
  PROVE  HandleInv'
<1>1. ParseInv'
  BY ParseInvStep
<1>2. Len(Vars') \in Nat
  BY <1>1, VarsType DEF ParseInv, Vars
<1>3. CASE Load
  <2>1. UNCHANGED <<stack, config, var>> /\ pc = "load" /\ pc' \in {"scan", "refused"}
    BY <1>3 DEF Load
  <2>2. Vars' = Vars
    BY <2>1 DEF Vars
  <2> QED
    BY <2>1, <2>2 DEF HandleInv
<1>4. CASE (ScanToken \/ EndScan) /\ UNCHANGED <<j, stack, expect, error, config, var>>
  <2>1. UNCHANGED <<stack, config, var>> /\ pc = "scan" /\ pc' \in {"scan", "parse"}
    BY <1>4 DEF ScanToken, EndScan
  <2>2. Vars' = Vars
    BY <2>1 DEF Vars
  <2> QED
    BY <2>1, <2>2 DEF HandleInv
<1>5. CASE ParseStep /\ UNCHANGED <<config, var>>
  <2>1. pc = "parse" /\ pc' \in {"parse", "handle", "syntax error"}
    BY <1>5, ParseFrame
  <2>2. var' = 1 /\ config' = InitConfig
    BY <1>5, <2>1 DEF HandleInv
  <2>3. Reflects(config', Vars', var' - 1)
    <3>1. var' - 1 = 0
      BY <2>2
    <3> QED
      BY <2>2, <3>1, NothingSaid
  <2>4. 1 \in 1..(Len(Vars') + 1)
    BY <1>2
  <2>5. ConfigOK(config')
    BY <2>2, InitConfigOK
  <2> QED
    BY <2>1, <2>2, <2>3, <2>4, <2>5 DEF HandleInv
<1>6. CASE HandleVar
  BY <1>6, HandleVarStep
<1>7. CASE Validate
  BY <1>7, ValidateStep
<1>8. CASE Again
  <2>1. var' = 1 /\ config' = InitConfig /\ pc' = "load"
    BY <1>8 DEF Again
  <2>2. 1 \in 1..(Len(Vars') + 1)
    BY <1>2
  <2> QED
    BY <2>1, <2>2, InitConfigOK DEF HandleInv
<1>9. CASE UNCHANGED configVars
  <2>1. /\ stack' = stack /\ config' = config /\ var' = var /\ pc' = pc
    BY <1>9 DEF configVars, parserVars
  <2>2. Vars' = Vars
    BY <2>1 DEF Vars
  <2> QED
    BY <2>1, <2>2, Zenon DEF HandleInv
<1> QED
  BY <1>3, <1>4, <1>5, <1>6, <1>7, <1>8, <1>9 DEF Next, LoadStep

LEMMA InitHandle == Init => HandleInv
<1> SUFFICES ASSUME Init
             PROVE  HandleInv
  OBVIOUS
<1>1. /\ pc = "load" /\ var = 1 /\ config = InitConfig
  BY DEF Init
<1>2. 1 \in 1..(Len(Vars) + 1)
  BY InitParse, VarsType DEF ParseInv
<1> QED
  BY <1>1, <1>2, InitConfigOK DEF HandleInv

(* -- The theorems ------------------------------------------------------------ *)

\* The inductive invariant.
ConfigInv == ScanInv /\ PhaseInv /\ ParseInv /\ HandleInv

LEMMA ConfigInvariance == Spec => []ConfigInv
<1>1. Init => ConfigInv
  BY InitScan, InitParse, InitHandle DEF ConfigInv
<1>2. ConfigInv /\ [Next]_configVars => ConfigInv'
  BY ScanStep, ParseInvStep, HandleStep DEF ConfigInv
<1> QED
  BY <1>1, <1>2, PTL DEF Spec

LEMMA TypeFollows == ConfigInv => TypeOK
<1> SUFFICES ASSUME ConfigInv
             PROVE  TypeOK
  OBVIOUS
<1>1. Len(source) \in Nat /\ Len(tokens) \in Nat /\ i \in 1..(Len(source) + 1)
  BY SourceType, Lengthened DEF ConfigInv, ScanInv
<1>2. line >= 1 /\ column >= 1
  <2>1. i \in Nat \ {0} /\ line = LineAt(source, i) /\ column = ColumnAt(source, i)
    BY <1>1 DEF ConfigInv, ScanInv
  <2>2. LineAt(source, i) >= 1 /\ ColumnAt(source, i) \in 1..i
    BY <2>1, PlaceType
  <2> QED
    BY <2>1, <2>2
<1>3. Len(tokens) <= Len(source) + 1
  <2>1. PICK k \in Int : k = TextCount /\ k >= Len(tokens) - 1
    <3>1. TextCount = Len(tokens) \/ TextCount = Len(tokens) - 1
      BY Zenon DEF TextCount
    <3> QED
      BY <1>1, <3>1
  <2>2. EndIn(source, tokens, k) \in k..(i - 1)
    BY <2>1, Zenon DEF ConfigInv, ScanInv, IsRead
  <2>3. k <= i - 1
    BY <1>1, <2>1, <2>2
  <2> QED
    BY <1>1, <2>1, <2>3
<1>4. /\ j \in 1..(IF IsScanned THEN Len(tokens) ELSE 1)
      /\ Len(stack) <= j /\ Len(stack) \in Nat \ {0} /\ stack[1].kind = "file"
      /\ expect \in {"key", "colon", "value", "first", "separator"}
  BY DEF ConfigInv, ParseInv, StackOK
<1>5. Len(stack) \in 1..(Len(tokens) + 1)
  <2>1. j <= Len(tokens) + 1 /\ j \in Nat
    BY <1>1, <1>4
  <2> QED
    BY <1>1, <1>4, <2>1
<1>6. /\ var \in 1..(Len(Vars) + 1)
      /\ config.disk_size \in 0..(Word - 1) /\ config.fs_size \in 0..(Word - 1)
  BY DEF ConfigInv, HandleInv, ConfigOK
<1>7. pc \in {"load", "scan", "parse", "handle", "accepted", "syntax error", "refused"}
  BY DEF ConfigInv, PhaseInv
<1> QED
  BY <1>1, <1>2, <1>3, <1>4, <1>5, <1>6, <1>7, Zenon DEF TypeOK

LEMMA BootFollows == ConfigInv => SomethingToBoot
BY DEF ConfigInv, HandleInv, Accepted, SomethingToBoot

LEMMA LastFollows == ConfigInv => LastOneCounts
<1> SUFFICES ASSUME ConfigInv, pc = "accepted"
             PROVE  /\ \A id \in Keys \ {"partitions", "bootsector", "partition_scheme"} :
                         config[id] = IF LastOfName(id) = {} THEN Default[id]
                                      ELSE ValueOf(Vars[CHOOSE n \in LastOfName(id) : TRUE])
                    /\ Len(config.partitions) =
                         Cardinality(UNION {{<<n, m>> : m \in DOMAIN Vars[n].value.items} :
                                              n \in {h \in DOMAIN Vars : Is(Vars[h], "partitions")}})
  BY Zenon DEF LastOneCounts
<1>1. PICK k \in Nat : k = Len(Vars) /\ DOMAIN Vars = 1..k
  <2>1. IsSeq(Vars)
    BY VarsType DEF ConfigInv, ParseInv
  <2> QED
    BY <2>1, LenProperties DEF IsSeq
<1>2. Accepted(config, Vars)
  BY DEF ConfigInv, HandleInv
<1>3. \A id : LastOfName(id) = LastBefore(Vars, id, k)
  BY <1>1 DEF LastOfName, LastBefore
<1>4. ASSUME NEW id \in Keys \ {"partitions", "bootsector", "partition_scheme"}
      PROVE  config[id] = IF LastOfName(id) = {} THEN Default[id]
                          ELSE ValueOf(Vars[CHOOSE n \in LastOfName(id) : TRUE])
  <2>1. id \in ScalarKeys \ {"bootsector", "partition_scheme"}
        /\ id \in Keys \ {"bootsector", "partition_scheme"}
    BY DEF ScalarKeys
  <2>2. config[id] = Said(Vars, id, k)
    BY <1>1, <1>2, <2>1, Zenon DEF Accepted
  <2>3. Default[id] = InitConfig[id]
    BY <2>1, InitConfigOK, DefaultsOK DEF Default
  <2>4. config[id] = IF LastOfName(id) = {} THEN Default[id]
                     ELSE ValueOf(Vars[OneOf(LastOfName(id))])
    BY <1>3, <2>2, <2>3, Zenon DEF Said
  <2> QED
    BY <2>4, Zenon DEF OneOf
<1>5. ListsIn(Vars, k) = UNION {{<<n, m>> : m \in DOMAIN Vars[n].value.items} :
                                  n \in {h \in DOMAIN Vars : Is(Vars[h], "partitions")}}
  BY <1>1, Zenon DEF ListsIn, ItemsOf
<1>6. Len(config.partitions) = Cardinality(ListsIn(Vars, k))
  BY <1>1, <1>2, Zenon DEF Accepted
<1> QED
  BY <1>4, <1>5, <1>6, Zenon

\* Whatever a file holds, the loops of the scanner, the parser and the handlers
\* (bootable_scanner_next, bootable_var_parse, handle_var) stay inside what
\* they go through, what is open stays a file with objects and lists in it, and
\* the sizes fit the integers that hold them.
THEOREM LoadTypeCorrect == Spec => []TypeOK
BY ConfigInvariance, TypeFollows, PTL

\* A token is where its line and column say, also behind quotes and comments
\* over several lines (source_pos_update): where a message of the parser points
\* to is what the message is about.
THEOREM PositionsAlwaysRight == Spec => []PositionsRight
<1>1. ConfigInv => PositionsRight
  BY PositionsFollow DEF ConfigInv
<1> QED
  BY <1>1, ConfigInvariance, PTL

\* The scanner (bootable_token_parse) leaves nothing of any source out: between
\* the tokens are blanks and comments only.
THEOREM NothingEverLost == Spec => []NothingLost
<1>1. ConfigInv => NothingLost
  BY NothingFollows DEF ConfigInv
<1> QED
  BY <1>1, ConfigInvariance, PTL

\* In a configuration that bootable_config_load accepts, each setting but the
\* two that validate_vars may replace is what the last variable of its name
\* says, however many there are and in whatever order, or the default; and it
\* has the partitions of all lists (push_partition).
THEOREM LastAlwaysCounts == Spec => []LastOneCounts
BY ConfigInvariance, LastFollows, PTL

\* What validate_vars accepts can be booted: there is an architecture, a
\* partition table, and the loader with the boot sector that starts it or a
\* kernel that was there.
THEOREM AlwaysSomethingToBoot == Spec => []SomethingToBoot
BY ConfigInvariance, BootFollows, PTL
=============================================================================
