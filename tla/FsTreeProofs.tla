---------------------------- MODULE FsTreeProofs ----------------------------
(****************************************************************************)
(* What the tree of files and directories keeps true whatever paths are     *)
(* asked for, those that climb out of the root included, for every number   *)
(* of names and nodes; and that, for paths that do not climb out of the     *)
(* root, it is the namespace that it promises to be.                        *)
(****************************************************************************)
EXTENDS FsTree, FiniteSetTheorems, SequenceTheorems, TLAPS

(* -- Induction --------------------------------------------------------------- *)

(* The library's induction theorems are about an operator.  That strict     *)
(* inclusion of finite sets is well-founded says the same about a set.      *)
LEMMA Least ==
  ASSUME NEW S \in SUBSET Nat, S # {}
  PROVE  \E m \in S : \A n \in S : m <= n
<1>1. PICK k \in S : TRUE
  OBVIOUS
<1>2. k \in Nat /\ k \in 0..k
  OBVIOUS
<1> DEFINE Below(m) == S \cap (0..m)
           T == {Below(m) : m \in S \cap (0..k)}
<1>3. IsFiniteSet(0..k)
  BY FS_Interval
<1>4. T \subseteq FiniteSubsetsOf(0..k) /\ T # {}
  <2>1. \A m \in S \cap (0..k) : Below(m) \subseteq 0..k
    OBVIOUS
  <2>2. \A m \in S \cap (0..k) : IsFiniteSet(Below(m))
    BY <1>3, <2>1, FS_Subset
  <2>3. Below(k) \in T
    BY <1>2
  <2> QED
    BY <2>1, <2>2, <2>3 DEF FiniteSubsetsOf
<1>5. PICK A \in T : \A B \in T : ~(<<B, A>> \in StrictSubsetOrdering(0..k))
  <2> HIDE DEF T
  <2> QED
    BY <1>3, <1>4, FS_StrictSubsetOrderingWellFounded, WFMin, Zenon
<1>6. PICK m \in S \cap (0..k) : A = Below(m)
  OBVIOUS
<1>7. ASSUME NEW n \in S, n < m
      PROVE  FALSE
  <2>1. /\ n \in S \cap (0..k) /\ Below(n) \subseteq Below(m)
        /\ m \in Below(m) /\ m \notin Below(n)
    BY <1>7
  <2>2. <<Below(n), Below(m)>> \in StrictSubsetOrdering(0..k)
    BY <2>1 DEF StrictSubsetOrdering
  <2> QED
    BY <1>5, <1>6, <2>1, <2>2
<1> QED
  BY <1>7

\* A set that holds 0, and with a number the next one, holds all up to N.
LEMMA UpTo ==
  ASSUME NEW N \in Nat, NEW P, 0 \in P,
         \A n \in 0..(N - 1) : n \in P => n + 1 \in P
  PROVE  0..N \subseteq P
<1> DEFINE S == (0..N) \ P
<1>1. ASSUME S # {}
      PROVE  FALSE
  <2>1. PICK m \in S : \A n \in S : m <= n
    <3>1. S \in SUBSET Nat
      OBVIOUS
    <3> HIDE DEF S
    <3> QED
      BY <1>1, <3>1, Least
  <2>2. m \in 1..N /\ m \notin P /\ m - 1 \in 0..(N - 1)
    OBVIOUS
  <2>3. m - 1 \in P
    BY <2>1, <2>2
  <2>4. (m - 1) + 1 = m
    BY <2>2
  <2> QED
    BY <2>2, <2>3, <2>4
<1> QED
  BY <1>1

\* A set that holds a number whenever it holds all before it holds all up to N.
LEMMA AllUpTo ==
  ASSUME NEW N \in Nat, NEW P,
         \A n \in 0..N : (\A m \in 0..(n - 1) : m \in P) => n \in P
  PROVE  0..N \subseteq P
<1> DEFINE S == (0..N) \ P
<1>1. ASSUME S # {}
      PROVE  FALSE
  <2>1. PICK m \in S : \A n \in S : m <= n
    <3>1. S \in SUBSET Nat
      OBVIOUS
    <3> HIDE DEF S
    <3> QED
      BY <1>1, <3>1, Least
  <2>2. m \in 0..N /\ m \notin P
    OBVIOUS
  <2>3. \A n \in 0..(m - 1) : n \in P
    BY <2>1, <2>2
  <2> QED
    BY <2>2, <2>3
<1> QED
  BY <1>1

\* A definition by what a function is at 0, and at every other place by what it
\* is at an earlier one; and a function that is as it is defined.
WellFoundedDef(N, T, base, step, back) ==
  /\ N \in Nat /\ base \in T /\ step \in [(1..N) \X T -> T]
  /\ back \in [1..N -> 0..N] /\ \A n \in 1..N : back[n] < n
Satisfies(f, N, base, step, back) == f[0] = base /\ \A n \in 1..N : f[n] = step[<<n, f[back[n]]>>]

\* There is such a function.
LEMMA Recursion ==
  ASSUME NEW N, NEW T, NEW base, NEW step, NEW back, WellFoundedDef(N, T, base, step, back)
  PROVE  \E f \in [0..N -> T] : Satisfies(f, N, base, step, back)
<1> DEFINE Begins(f, k) == f[0] = base /\ \A n \in 1..k : f[n] = step[<<n, f[back[n]]>>]
           P == {k \in 0..N : \E f \in [0..k -> T] : Begins(f, k)}
<1>1. /\ N \in Nat /\ base \in T /\ step \in [(1..N) \X T -> T]
      /\ back \in [1..N -> 0..N]
      /\ \A n \in 1..N : back[n] < n
  BY DEF WellFoundedDef
<1>2. 0 \in P
  <2> DEFINE f == [n \in 0..0 |-> base]
  <2>1. f \in [0..0 -> T] /\ f[0] = base
    BY <1>1
  <2>2. \A n \in 1..0 : f[n] = step[<<n, f[back[n]]>>]
    OBVIOUS
  <2> HIDE DEF f
  <2>3. Begins(f, 0)
    BY <2>1, <2>2
  <2> QED
    BY <1>1, <2>1, <2>3
<1>3. ASSUME NEW k \in 0..(N - 1), k \in P
      PROVE  k + 1 \in P
  <2>1. PICK f \in [0..k -> T] : Begins(f, k)
    BY <1>3
  <2>2. \A n \in 1..(k + 1) : back[n] \in 0..k
    <3> SUFFICES ASSUME NEW n \in 1..(k + 1)
                 PROVE  back[n] \in 0..k
      OBVIOUS
    <3>1. n \in 1..N
      BY <1>1
    <3>2. back[n] \in 0..N /\ back[n] < n
      BY <1>1, <3>1
    <3> QED
      BY <3>2
  <2>3. PICK x \in T : x = step[<<k + 1, f[back[k + 1]]>>]
    <3>1. k + 1 \in 1..N /\ back[k + 1] \in 0..k
      BY <1>1, <2>2
    <3>2. f[back[k + 1]] \in T
      BY <2>1, <3>1
    <3> QED
      BY <1>1, <3>1, <3>2
  <2> DEFINE g == [n \in 0..(k + 1) |-> IF n = k + 1 THEN x ELSE f[n]]
  <2>4. g \in [0..(k + 1) -> T]
    OBVIOUS
  <2>5. g[0] = base
    BY <2>1
  <2>6. ASSUME NEW n \in 1..(k + 1)
        PROVE  g[n] = step[<<n, g[back[n]]>>]
    <3>1. \A m \in 0..k : g[m] = f[m]
      OBVIOUS
    <3> HIDE DEF g
    <3>2. g[back[n]] = f[back[n]]
      BY <2>2, <3>1
    <3>3. CASE n = k + 1
      <4>1. g[n] = x
        BY <3>3 DEF g
      <4> QED
        BY <2>3, <3>2, <3>3, <4>1, Zenon
    <3>4. CASE n # k + 1
      <4>1. n \in 1..k /\ g[n] = f[n]
        BY <3>1, <3>4
      <4>2. f[n] = step[<<n, f[back[n]]>>]
        BY <2>1, <4>1, Zenon
      <4> QED
        BY <3>2, <4>1, <4>2, Zenon
    <3> QED
      BY <3>3, <3>4
  <2> HIDE DEF g
  <2>7. Begins(g, k + 1)
    BY <2>5, <2>6
  <2>8. \E h \in [0..(k + 1) -> T] : Begins(h, k + 1)
    <3> HIDE DEF Begins
    <3> QED
      BY <2>4, <2>7
  <2> QED
    BY <1>1, <2>8
<1>4. N \in P
  <2> HIDE DEF P
  <2>1. 0..N \subseteq P
    BY <1>1, <1>2, <1>3, UpTo
  <2> QED
    BY <1>1, <2>1
<1> QED
  BY <1>4 DEF Satisfies

\* Two functions that agree at a place when they do at all before it.
AgreeInTurn(f, g, N) == \A n \in 0..N : (\A m \in 0..(n - 1) : f[m] = g[m]) => f[n] = g[n]

\* They are the same up to N.
LEMMA SameRecursion ==
  ASSUME NEW N \in Nat, NEW f, NEW g, AgreeInTurn(f, g, N)
  PROVE  \A n \in 0..N : f[n] = g[n]
<1> DEFINE P == {n \in 0..N : f[n] = g[n]}
<1>1. ASSUME NEW n \in 0..N, \A m \in 0..(n - 1) : m \in P
      PROVE  n \in P
  BY <1>1 DEF AgreeInTurn
<1> HIDE DEF P
<1>2. 0..N \subseteq P
  BY <1>1, AllUpTo
<1> QED
  BY <1>2 DEF P

(* -- What a path means -------------------------------------------------------- *)

\* Where each prefix of a path leads to: the function that Meaning defines.
Places(p) == CHOOSE f : f = [n \in 0..Len(p) |-> IF n = 0 THEN <<>>
                                                 ELSE Promise!Follow(f[n - 1], p[n])]

\* The meaning of a path is the place its last prefix leads to.
LEMMA MeaningIsLast == \A p : Promise!Meaning(p) = Places(p)[Len(p)]
  BY DEF Promise!Meaning, Places, Promise!Root

\* A place is a sequence of names, and so is the one that a component leads to.
LEMMA FollowType ==
  ASSUME NEW C, NEW place \in Seq(C), NEW c \in C
  PROVE  Promise!Follow(place, c) \in Seq(C)
<1>1. Append(place, c) \in Seq(C)
  OBVIOUS
<1>2. place # <<>> => Promise!Front(place) \in Seq(C)
  BY DEF Promise!Front
<1>3. Promise!Follow(place, c) = place \/ Promise!Follow(place, c) = Append(place, c)
        \/ (place # <<>> /\ Promise!Follow(place, c) = Promise!Front(place))
  BY Zenon DEF Promise!Follow, Promise!Root
<1> QED
  BY <1>1, <1>2, <1>3

\* Places is what it says: the root first, and then one component after the other.
LEMMA PlacesFollow ==
  ASSUME NEW C, NEW p \in Seq(C)
  PROVE  /\ Places(p) \in [0..Len(p) -> Seq(C)]
         /\ Places(p)[0] = <<>>
         /\ \A n \in 1..Len(p) : Places(p)[n] = Promise!Follow(Places(p)[n - 1], p[n])
<1> DEFINE N == Len(p)
           step == [a \in (1..N) \X Seq(C) |-> Promise!Follow(a[2], p[a[1]])]
           back == [n \in 1..N |-> n - 1]
<1>1. N \in Nat /\ <<>> \in Seq(C) /\ \A n \in 1..N : p[n] \in C
  OBVIOUS
<1>2. step \in [(1..N) \X Seq(C) -> Seq(C)]
  BY <1>1, FollowType
<1>3. /\ back \in [1..N -> 0..N]
      /\ \A n \in 1..N : back[n] < n
      /\ \A n \in 1..N : back[n] = n - 1
  BY <1>1
<1>4. \A n \in 1..N, s \in Seq(C) : step[<<n, s>>] = Promise!Follow(s, p[n])
  OBVIOUS
<1> HIDE DEF N, step, back
<1>5. PICK f \in [0..N -> Seq(C)] : f[0] = <<>> /\ \A n \in 1..N : f[n] = step[<<n, f[back[n]]>>]
  <2>1. WellFoundedDef(N, Seq(C), <<>>, step, back)
    BY <1>1, <1>2, <1>3 DEF WellFoundedDef
  <2>2. PICK f \in [0..N -> Seq(C)] : Satisfies(f, N, <<>>, step, back)
    BY <2>1, Recursion
  <2> QED
    BY <2>2 DEF Satisfies
<1>6. \A n \in 1..N : f[n] = Promise!Follow(f[n - 1], p[n])
  <2> SUFFICES ASSUME NEW n \in 1..N
               PROVE  f[n] = Promise!Follow(f[n - 1], p[n])
    OBVIOUS
  <2>1. back[n] = n - 1 /\ f[n - 1] \in Seq(C)
    BY <1>1, <1>3
  <2> QED
    BY <1>4, <1>5, <2>1
<1> DEFINE Is(g) == g = [n \in 0..N |-> IF n = 0 THEN <<>> ELSE Promise!Follow(g[n - 1], p[n])]
<1>7. Is(f)
  <2>1. \A n \in 0..N : f[n] = IF n = 0 THEN <<>> ELSE Promise!Follow(f[n - 1], p[n])
    BY <1>1, <1>5, <1>6
  <2> QED
    BY <2>1
<1>8. Places(p) = CHOOSE g : Is(g)
  BY DEF Places, N
<1> HIDE DEF Is
<1>9. Is(Places(p))
  BY <1>7, <1>8
<1>10. \A g : Is(g) => \A n \in 0..N : g[n] = f[n]
  <2> SUFFICES ASSUME NEW g, Is(g)
               PROVE  \A n \in 0..N : g[n] = f[n]
    OBVIOUS
  <2>1. ASSUME NEW n \in 0..N, \A m \in 0..(n - 1) : g[m] = f[m]
        PROVE  g[n] = f[n]
    <3>1. g[n] = IF n = 0 THEN <<>> ELSE Promise!Follow(g[n - 1], p[n])
      BY Zenon DEF Is
    <3>2. n # 0 => n \in 1..N /\ g[n - 1] = f[n - 1]
      BY <1>1, <2>1
    <3>3. CASE n = 0
      BY <1>5, <3>1, <3>3
    <3>4. CASE n # 0
      <4>1. f[n] = Promise!Follow(f[n - 1], p[n])
        BY <1>6, <3>2, <3>4, Zenon
      <4> QED
        BY <3>1, <3>2, <3>4, <4>1, Zenon
    <3> QED
      BY <3>3, <3>4
  <2>2. AgreeInTurn(g, f, N)
    BY <2>1 DEF AgreeInTurn
  <2> QED
    BY <1>1, <2>2, SameRecursion
<1>11. Places(p) = f
  <2>1. DOMAIN Places(p) = 0..N /\ Places(p) = [n \in DOMAIN Places(p) |-> Places(p)[n]]
    BY <1>9 DEF Is
  <2>2. f = [n \in 0..N |-> f[n]]
    OBVIOUS
  <2> QED
    BY <1>9, <1>10, <2>1, <2>2
<1> QED
  BY <1>5, <1>6, <1>11 DEF N

\* What is read where no name is, and the two special names, are not names, and
\* differ.
LEMMA SpecialsDiffer ==
  /\ Dot # DotDot /\ Dot # Separator /\ Dot # Freed
  /\ DotDot # Separator /\ DotDot # Freed /\ Separator # Freed
  /\ Dot \notin Names /\ DotDot \notin Names /\ Separator \notin Names /\ Freed \notin Names
<1>1. Cardinality({Dot, DotDot, Separator, Freed}) = 4
  BY NamesAssumption
<1>2. \A a, b, c : Cardinality({a, b, c}) <= 3
  <2> TAKE a, b, c
  <2>1. IsFiniteSet({}) /\ Cardinality({}) = 0
    BY FS_EmptySet
  <2>2. IsFiniteSet({a}) /\ Cardinality({a}) = 1
    BY FS_Singleton
  <2>3. IsFiniteSet({a, b}) /\ Cardinality({a, b}) \in {1, 2}
    <3>1. {a, b} = {a} \cup {b}
      OBVIOUS
    <3> QED
      BY <2>2, <3>1, FS_AddElement
  <2>4. {a, b, c} = {a, b} \cup {c}
    OBVIOUS
  <2> QED
    BY <2>3, <2>4, FS_AddElement
<1>3. /\ Dot = DotDot => {Dot, DotDot, Separator, Freed} = {DotDot, Separator, Freed}
      /\ Dot = Separator => {Dot, DotDot, Separator, Freed} = {DotDot, Separator, Freed}
      /\ Dot = Freed => {Dot, DotDot, Separator, Freed} = {DotDot, Separator, Freed}
      /\ DotDot = Separator => {Dot, DotDot, Separator, Freed} = {Dot, Separator, Freed}
      /\ DotDot = Freed => {Dot, DotDot, Separator, Freed} = {Dot, Separator, Freed}
      /\ Separator = Freed => {Dot, DotDot, Separator, Freed} = {Dot, DotDot, Freed}
  OBVIOUS
<1>4. /\ Cardinality({DotDot, Separator, Freed}) <= 3
      /\ Cardinality({Dot, Separator, Freed}) <= 3
      /\ Cardinality({Dot, DotDot, Freed}) <= 3
  BY <1>2, Zenon
<1>5. \A S : Cardinality(S) <= 3 => S # {Dot, DotDot, Separator, Freed}
  BY <1>1
<1>6. /\ {DotDot, Separator, Freed} # {Dot, DotDot, Separator, Freed}
      /\ {Dot, Separator, Freed} # {Dot, DotDot, Separator, Freed}
      /\ {Dot, DotDot, Freed} # {Dot, DotDot, Separator, Freed}
  BY <1>4, <1>5, Zenon
<1> QED
  BY <1>3, <1>6, NamesAssumption

\* The k components behind a in p are those behind b in q.
SameBehind(p, a, q, b, k) == /\ a \in 0..Len(p) /\ b \in 0..Len(q) /\ k \in Nat
                             /\ a + k <= Len(p) /\ b + k <= Len(q)
                             /\ \A n \in 1..k : p[a + n] = q[b + n]

SamePlaces(p, a, q, b, k) == \A n \in 0..k : Places(p)[a + n] = Places(q)[b + n]

\* What follows the same components from the same place comes to the same places.
LEMMA SameTail ==
  ASSUME NEW C, NEW p \in Seq(C), NEW q \in Seq(C), NEW a, NEW b, NEW k,
         SameBehind(p, a, q, b, k), Places(p)[a] = Places(q)[b]
  PROVE  SamePlaces(p, a, q, b, k)
<1> USE DEF SameBehind, SamePlaces
<1> DEFINE f == [n \in 0..k |-> Places(p)[a + n]]
           g == [n \in 0..k |-> Places(q)[b + n]]
<1>1. ASSUME NEW n \in 1..k
      PROVE  /\ Places(p)[a + n] = Promise!Follow(Places(p)[a + n - 1], p[a + n])
             /\ Places(q)[b + n] = Promise!Follow(Places(q)[b + n - 1], q[b + n])
  <2>1. a + n \in 1..Len(p) /\ b + n \in 1..Len(q)
    OBVIOUS
  <2> QED
    BY <2>1, PlacesFollow
<1>2. ASSUME NEW n \in 1..k, f[n - 1] = g[n - 1]
      PROVE  f[n] = g[n]
  <2>1. n \in 0..k /\ n - 1 \in 0..k /\ a + (n - 1) = a + n - 1 /\ b + (n - 1) = b + n - 1
    OBVIOUS
  <2>2. Places(p)[a + n - 1] = Places(q)[b + n - 1]
    BY <1>2, <2>1
  <2> QED
    BY <1>1, <2>1, <2>2
<1>3. f[0] = g[0]
  OBVIOUS
<1> HIDE DEF f, g
<1>4. AgreeInTurn(f, g, k)
  <2> SUFFICES ASSUME NEW n \in 0..k, \A m \in 0..(n - 1) : f[m] = g[m]
               PROVE  f[n] = g[n]
    BY DEF AgreeInTurn
  <2>1. CASE n = 0
    BY <1>3, <2>1
  <2>2. CASE n # 0
    <3>1. n \in 1..k /\ n - 1 \in 0..(n - 1)
      BY <2>2
    <3> QED
      BY <1>2, <3>1
  <2> QED
    BY <2>1, <2>2
<1>5. \A n \in 0..k : f[n] = g[n]
  BY <1>4, SameRecursion
<1> QED
  BY <1>5 DEF f, g

\* A component that changes the place by its name.
Plain(component) == component \notin {Dot, DotDot, Separator}

\* Plain components mean themselves.
LEMMA PlainPlaces ==
  ASSUME NEW C, NEW p \in Seq(C), NEW k \in 0..Len(p), \A n \in 1..k : Plain(p[n])
  PROVE  \A n \in 0..k : Places(p)[n] = SubSeq(p, 1, n)
<1> DEFINE g == [n \in 0..k |-> SubSeq(p, 1, n)]
<1>1. ASSUME NEW n \in 1..k
      PROVE  SubSeq(p, 1, n) = Append(SubSeq(p, 1, n - 1), p[n])
  OBVIOUS
<1>2. ASSUME NEW n \in 1..k, Places(p)[n - 1] = SubSeq(p, 1, n - 1)
      PROVE  Places(p)[n] = SubSeq(p, 1, n)
  <2>1. n \in 1..Len(p)
    OBVIOUS
  <2>2. Places(p)[n] = Promise!Follow(Places(p)[n - 1], p[n])
    BY <2>1, PlacesFollow
  <2>3. Promise!Follow(Places(p)[n - 1], p[n]) = Append(Places(p)[n - 1], p[n])
    BY Zenon DEF Promise!Follow, Plain
  <2> QED
    BY <1>1, <1>2, <2>2, <2>3, Zenon
<1>3. Places(p)[0] = SubSeq(p, 1, 0)
  <2>1. SubSeq(p, 1, 0) = <<>>
    OBVIOUS
  <2> QED
    BY <2>1, PlacesFollow
<1>4. \A n \in 0..k : g[n] = SubSeq(p, 1, n)
  OBVIOUS
<1> HIDE DEF g
<1>5. AgreeInTurn(Places(p), g, k)
  <2> SUFFICES ASSUME NEW n \in 0..k, \A m \in 0..(n - 1) : Places(p)[m] = g[m]
               PROVE  Places(p)[n] = g[n]
    BY DEF AgreeInTurn
  <2>1. CASE n = 0
    BY <1>3, <1>4, <2>1
  <2>2. CASE n # 0
    <3>1. n \in 1..k /\ n - 1 \in 0..(n - 1) /\ n - 1 \in 0..k
      BY <2>2
    <3>2. Places(p)[n - 1] = SubSeq(p, 1, n - 1)
      BY <1>4, <3>1
    <3> QED
      BY <1>2, <1>4, <3>1, <3>2
  <2> QED
    BY <2>1, <2>2
<1>6. \A n \in 0..k : Places(p)[n] = g[n]
  BY <1>5, SameRecursion
<1> QED
  BY <1>4, <1>6

\* A path of no components means the root.
LEMMA MeaningEmpty == Promise!Meaning(<<>>) = <<>>
<1>1. <<>> \in Seq({}) /\ Len(<<>>) = 0
  OBVIOUS
<1> QED
  BY <1>1, MeaningIsLast, PlacesFollow

\* A prefix of a path means the place that is come to there.
LEMMA PrefixMeaning ==
  ASSUME NEW C, NEW p \in Seq(C), NEW n \in 0..Len(p)
  PROVE  Promise!Meaning(SubSeq(p, 1, n)) = Places(p)[n]
<1> DEFINE q == SubSeq(p, 1, n)
<1>1. q \in Seq(C) /\ Len(q) = n /\ \A m \in 1..n : p[0 + m] = q[0 + m]
  OBVIOUS
<1> HIDE DEF q
<1>2. Places(p)[0] = Places(q)[0]
  BY <1>1, PlacesFollow
<1>3. Places(p)[0 + n] = Places(q)[0 + n]
  <2>1. SameBehind(p, 0, q, 0, n) /\ n \in 0..n
    BY <1>1 DEF SameBehind
  <2> QED
    BY <1>1, <1>2, <2>1, SameTail DEF SamePlaces
<1>4. Promise!Meaning(q) = Places(q)[n] /\ 0 + n = n
  BY <1>1, MeaningIsLast
<1> QED
  BY <1>3, <1>4 DEF q

\* One more component leads on from what the path means.
LEMMA MeaningAppend ==
  ASSUME NEW C, NEW p \in Seq(C), NEW c \in C
  PROVE  Promise!Meaning(Append(p, c)) = Promise!Follow(Promise!Meaning(p), c)
<1> DEFINE q == Append(p, c)
<1>1. /\ q \in Seq(C) /\ Len(q) = Len(p) + 1 /\ Len(p) \in 0..Len(q) /\ Len(q) \in 1..Len(q)
      /\ SubSeq(q, 1, Len(p)) = p /\ q[Len(q)] = c
  OBVIOUS
<1> HIDE DEF q
<1>2. Promise!Meaning(p) = Places(q)[Len(p)]
  BY <1>1, PrefixMeaning
<1>3. Places(q)[Len(q)] = Promise!Follow(Places(q)[Len(q) - 1], q[Len(q)]) /\ Len(q) - 1 = Len(p)
  BY <1>1, PlacesFollow
<1> QED
  BY <1>1, <1>2, <1>3, MeaningIsLast DEF q

\* A path of plain components means itself.
LEMMA PlainMeaning ==
  ASSUME NEW C, NEW p \in Seq(C), \A n \in 1..Len(p) : Plain(p[n])
  PROVE  Promise!Meaning(p) = p
<1>1. Len(p) \in 0..Len(p) /\ SubSeq(p, 1, Len(p)) = p
  OBVIOUS
<1> QED
  BY <1>1, PlainPlaces, MeaningIsLast

(* -- Parsing a path ------------------------------------------------------------ *)

\* The names that each prefix of a path is parsed into: the function that Parsed
\* defines.
NamesOf(p) == CHOOSE f : f = [n \in 0..Len(p) |-> IF n = 0 THEN <<>>
                                                  ELSE IF p[n] = Separator THEN f[n - 1]
                                                  ELSE Append(f[n - 1], p[n])]

\* NamesOf is what it says: every component that is not empty is a name more.
LEMMA NamesFollow ==
  ASSUME NEW C, NEW p \in Seq(C)
  PROVE  /\ NamesOf(p) \in [0..Len(p) -> Seq(C \ {Separator})]
         /\ NamesOf(p)[0] = <<>>
         /\ \A n \in 1..Len(p) : NamesOf(p)[n] = IF p[n] = Separator THEN NamesOf(p)[n - 1]
                                                 ELSE Append(NamesOf(p)[n - 1], p[n])
<1> DEFINE N == Len(p)
           T == Seq(C \ {Separator})
           Then(s, n) == IF p[n] = Separator THEN s ELSE Append(s, p[n])
           step == [a \in (1..N) \X T |-> Then(a[2], a[1])]
           back == [n \in 1..N |-> n - 1]
<1>1. N \in Nat /\ <<>> \in T
  OBVIOUS
<1>2. step \in [(1..N) \X T -> T]
  <2>1. ASSUME NEW n \in 1..N, NEW s \in T
        PROVE  Then(s, n) \in T
    <3>1. p[n] \in C
      OBVIOUS
    <3>2. CASE p[n] = Separator
      BY <3>2
    <3>3. CASE p[n] # Separator
      <4>1. Append(s, p[n]) \in T
        BY <3>1, <3>3
      <4> QED
        BY <3>3, <4>1
    <3> QED
      BY <3>2, <3>3
  <2> HIDE DEF Then, T
  <2> QED
    BY <2>1
<1>3. /\ back \in [1..N -> 0..N]
      /\ \A n \in 1..N : back[n] < n
      /\ \A n \in 1..N : back[n] = n - 1
  BY <1>1
<1>4. \A n \in 1..N, s \in T : step[<<n, s>>] = Then(s, n)
  OBVIOUS
<1> HIDE DEF N, T, step, back, Then
<1>5. PICK f \in [0..N -> T] : f[0] = <<>> /\ \A n \in 1..N : f[n] = step[<<n, f[back[n]]>>]
  <2>1. WellFoundedDef(N, T, <<>>, step, back)
    BY <1>1, <1>2, <1>3 DEF WellFoundedDef
  <2>2. PICK f \in [0..N -> T] : Satisfies(f, N, <<>>, step, back)
    BY <2>1, Recursion
  <2> QED
    BY <2>2 DEF Satisfies
<1>6. \A n \in 1..N : f[n] = Then(f[n - 1], n)
  <2> SUFFICES ASSUME NEW n \in 1..N
               PROVE  f[n] = Then(f[n - 1], n)
    OBVIOUS
  <2>1. back[n] = n - 1 /\ f[n - 1] \in T
    BY <1>1, <1>3
  <2> QED
    BY <1>4, <1>5, <2>1
<1> DEFINE Is(g) == g = [n \in 0..N |-> IF n = 0 THEN <<>> ELSE Then(g[n - 1], n)]
<1>7. Is(f)
  <2>1. \A n \in 0..N : f[n] = IF n = 0 THEN <<>> ELSE Then(f[n - 1], n)
    BY <1>1, <1>5, <1>6
  <2> QED
    BY <2>1
<1>8. NamesOf(p) = CHOOSE g : Is(g)
  BY DEF NamesOf, N, Then
<1> HIDE DEF Is
<1>9. Is(NamesOf(p))
  BY <1>7, <1>8
<1>10. \A g : Is(g) => \A n \in 0..N : g[n] = f[n]
  <2> SUFFICES ASSUME NEW g, Is(g)
               PROVE  \A n \in 0..N : g[n] = f[n]
    OBVIOUS
  <2>1. ASSUME NEW n \in 0..N, \A m \in 0..(n - 1) : g[m] = f[m]
        PROVE  g[n] = f[n]
    <3>1. g[n] = IF n = 0 THEN <<>> ELSE Then(g[n - 1], n)
      BY Zenon DEF Is
    <3>2. n # 0 => n \in 1..N /\ g[n - 1] = f[n - 1]
      BY <1>1, <2>1
    <3>3. CASE n = 0
      BY <1>5, <3>1, <3>3
    <3>4. CASE n # 0
      <4>1. f[n] = Then(f[n - 1], n)
        BY <1>6, <3>2, <3>4, Zenon
      <4> QED
        BY <3>1, <3>2, <3>4, <4>1, Zenon
    <3> QED
      BY <3>3, <3>4
  <2>2. AgreeInTurn(g, f, N)
    BY <2>1 DEF AgreeInTurn
  <2> QED
    BY <1>1, <2>2, SameRecursion
<1>11. NamesOf(p) = f
  <2>1. DOMAIN NamesOf(p) = 0..N /\ NamesOf(p) = [n \in DOMAIN NamesOf(p) |-> NamesOf(p)[n]]
    BY <1>9 DEF Is
  <2>2. f = [n \in 0..N |-> f[n]]
    OBVIOUS
  <2> QED
    BY <1>9, <1>10, <2>1, <2>2
<1> QED
  BY <1>5, <1>6, <1>11 DEF N, T, Then

\* What is parsed has no empty names, and means what was typed.
LEMMA ParsedMeaning ==
  ASSUME NEW C, NEW p \in Seq(C)
  PROVE  /\ Parsed(p) \in Seq(C \ {Separator})
         /\ Promise!Meaning(Parsed(p)) = Promise!Meaning(p)
<1>1. Parsed(p) = NamesOf(p)[Len(p)]
  BY DEF Parsed, NamesOf
<1>2. Len(p) \in Nat /\ Len(p) \in 0..Len(p)
  OBVIOUS
<1> DEFINE f == [n \in 0..Len(p) |-> Promise!Meaning(NamesOf(p)[n])]
<1>3. \A n \in 0..Len(p) : f[n] = Promise!Meaning(NamesOf(p)[n])
  OBVIOUS
<1> HIDE DEF f
<1>4. ASSUME NEW n \in 1..Len(p), f[n - 1] = Places(p)[n - 1]
      PROVE  f[n] = Places(p)[n]
  <2>1. n \in 0..Len(p) /\ n - 1 \in 0..Len(p) /\ p[n] \in C
    OBVIOUS
  <2>2. Places(p)[n] = Promise!Follow(Places(p)[n - 1], p[n])
    BY PlacesFollow
  <2>3. NamesOf(p)[n - 1] \in Seq(C)
    <3>1. NamesOf(p)[n - 1] \in Seq(C \ {Separator})
      BY <2>1, NamesFollow
    <3> QED
      BY <3>1
  <2>4. f[n - 1] = Promise!Meaning(NamesOf(p)[n - 1]) /\ f[n] = Promise!Meaning(NamesOf(p)[n])
    BY <1>3, <2>1
  <2>5. CASE p[n] = Separator
    <3>1. NamesOf(p)[n] = NamesOf(p)[n - 1]
      BY <2>5, NamesFollow
    <3>2. Places(p)[n] = Places(p)[n - 1]
      BY <2>2, <2>5, Zenon DEF Promise!Follow
    <3> QED
      BY <1>4, <2>4, <3>1, <3>2
  <2>6. CASE p[n] # Separator
    <3>1. NamesOf(p)[n] = Append(NamesOf(p)[n - 1], p[n])
      BY <2>6, NamesFollow
    <3>2. f[n] = Promise!Follow(Promise!Meaning(NamesOf(p)[n - 1]), p[n])
      BY <2>1, <2>3, <2>4, <3>1, MeaningAppend
    <3> QED
      BY <1>4, <2>2, <2>4, <3>2
  <2> QED
    BY <2>5, <2>6
<1>5. f[0] = Places(p)[0]
  <2>1. 0 \in 0..Len(p)
    BY <1>2
  <2>2. NamesOf(p)[0] = <<>> /\ Places(p)[0] = <<>>
    BY NamesFollow, PlacesFollow
  <2>3. f[0] = Promise!Meaning(NamesOf(p)[0])
    BY <1>3, <2>1, Zenon
  <2> QED
    BY <2>2, <2>3, MeaningEmpty, Zenon
<1>6. AgreeInTurn(f, Places(p), Len(p))
  <2> SUFFICES ASSUME NEW n \in 0..Len(p), \A m \in 0..(n - 1) : f[m] = Places(p)[m]
               PROVE  f[n] = Places(p)[n]
    BY DEF AgreeInTurn
  <2>1. CASE n = 0
    BY <1>5, <2>1
  <2>2. CASE n # 0
    <3>1. n \in 1..Len(p) /\ n - 1 \in 0..(n - 1)
      BY <1>2, <2>2
    <3> QED
      BY <1>4, <3>1
  <2> QED
    BY <2>1, <2>2
<1>7. f[Len(p)] = Places(p)[Len(p)]
  BY <1>2, <1>6, SameRecursion
<1>8. NamesOf(p)[Len(p)] \in Seq(C \ {Separator})
  BY <1>2, NamesFollow
<1>9. Promise!Meaning(NamesOf(p)[Len(p)]) = Promise!Meaning(p)
  BY <1>2, <1>3, <1>7, MeaningIsLast, Zenon
<1> QED
  BY <1>1, <1>8, <1>9

(* -- Normalizing a path --------------------------------------------------------- *)

\* A sequence with one element taken out: the elements behind it move up.
LEMMA Removed ==
  ASSUME NEW C, NEW p \in Seq(C), NEW k \in 1..Len(p)
  PROVE  /\ RemoveAt(p, k) \in Seq(C)
         /\ Len(RemoveAt(p, k)) = Len(p) - 1
         /\ \A j \in 1..(k - 1) : RemoveAt(p, k)[j] = p[j]
         /\ \A j \in k..(Len(p) - 1) : RemoveAt(p, k)[j] = p[j + 1]
<1> DEFINE a == SubSeq(p, 1, k - 1)
           b == SubSeq(p, k + 1, Len(p))
<1>1. RemoveAt(p, k) = a \o b
  BY DEF RemoveAt
<1>2. /\ a \in Seq(C) /\ b \in Seq(C) /\ Len(a) = k - 1 /\ Len(b) = Len(p) - k
      /\ \A j \in 1..(k - 1) : a[j] = p[j]
      /\ \A j \in 1..(Len(p) - k) : b[j] = p[j + k]
  OBVIOUS
<1> HIDE DEF a, b
<1> DEFINE c == a \o b
<1>3. /\ c \in Seq(C) /\ Len(c) = Len(a) + Len(b)
      /\ \A j \in 1..(Len(a) + Len(b)) : c[j] = IF j <= Len(a) THEN a[j] ELSE b[j - Len(a)]
  <2>1. a \in Seq(C) /\ b \in Seq(C)
    BY <1>2
  <2> QED
    BY <2>1, ConcatProperties
<1> HIDE DEF c
<1>4. Len(p) \in Nat /\ k \in Nat /\ Len(a) + Len(b) = Len(p) - 1
  BY <1>2
<1>5. ASSUME NEW j \in 1..(k - 1)
      PROVE  c[j] = p[j]
  <2>1. j \in 1..(Len(a) + Len(b)) /\ j <= Len(a)
    BY <1>2, <1>4
  <2> QED
    BY <1>2, <1>3, <2>1
<1>6. ASSUME NEW j \in k..(Len(p) - 1)
      PROVE  c[j] = p[j + 1]
  <2>1. j \in 1..(Len(a) + Len(b)) /\ ~(j <= Len(a)) /\ j - Len(a) = j - (k - 1)
    BY <1>2, <1>4
  <2>2. j - (k - 1) \in 1..(Len(p) - k) /\ j - (k - 1) + k = j + 1
    BY <1>4
  <2> QED
    BY <1>2, <1>3, <2>1, <2>2
<1> QED
  BY <1>1, <1>3, <1>4, <1>5, <1>6 DEF c

\* Climbing out, by the places that a path comes to.
LEMMA ClimbingOut ==
  ASSUME NEW C, NEW p \in Seq(C)
  PROVE  ClimbsOut(p) <=> \E j \in 1..(Len(p) - 1) : p[j] = DotDot /\ Places(p)[j - 1] = <<>>
<1>1. \A j \in 1..(Len(p) - 1) : j - 1 \in 0..Len(p)
  OBVIOUS
<1>2. \A j \in 1..(Len(p) - 1) : Promise!Meaning(SubSeq(p, 1, j - 1)) = Places(p)[j - 1]
  BY <1>1, PrefixMeaning
<1> QED
  BY <1>2 DEF ClimbsOut

\* They are all that is behind.
SameRest(p, a, q, b, k) == Len(p) = a + k /\ Len(q) = b + k /\ SameBehind(p, a, q, b, k)

\* A path of which a part was taken out that led nowhere means the same, and
\* climbs out no more than it did.
LEMMA Shorter ==
  ASSUME NEW C, NEW p \in Seq(C), NEW q \in Seq(C), NEW a \in Nat, NEW b \in Nat, NEW k \in Nat,
         SameRest(p, a, q, b, k), Places(p)[a] = Places(q)[b],
         \A j \in 1..b : q[j] # DotDot
  PROVE  Promise!Meaning(q) = Promise!Meaning(p) /\ (ClimbsOut(q) => ClimbsOut(p))
<1>1. \A n \in 0..k : Places(p)[a + n] = Places(q)[b + n]
  <2>1. SameBehind(p, a, q, b, k)
    BY DEF SameRest
  <2>2. SamePlaces(p, a, q, b, k)
    BY <2>1, SameTail
  <2> QED
    BY <2>2 DEF SamePlaces
<1>2. Places(p)[a + k] = Places(q)[b + k]
  <2>1. k \in 0..k
    OBVIOUS
  <2> QED
    BY <1>1, <2>1
<1>3. Promise!Meaning(q) = Promise!Meaning(p)
  BY <1>2, MeaningIsLast DEF SameRest
<1>4. ASSUME ClimbsOut(q)
      PROVE  ClimbsOut(p)
  <2>1. PICK j \in 1..(Len(q) - 1) : q[j] = DotDot /\ Places(q)[j - 1] = <<>>
    BY <1>4, ClimbingOut
  <2>2. j \in (b + 1)..(b + k - 1)
    BY <2>1 DEF SameRest
  <2> DEFINE n == j - b
  <2>3. n \in 1..k /\ n - 1 \in 0..k /\ b + n = j /\ b + (n - 1) = j - 1
        /\ a + n \in 1..(Len(p) - 1) /\ a + (n - 1) = a + n - 1
    BY <2>2 DEF SameRest
  <2> HIDE DEF n
  <2>4. p[a + n] = q[b + n]
    BY <2>3 DEF SameRest, SameBehind
  <2>5. Places(p)[a + (n - 1)] = Places(q)[b + (n - 1)]
    BY <1>1, <2>3
  <2>6. p[a + n] = DotDot /\ Places(p)[(a + n) - 1] = <<>>
    BY <2>1, <2>3, <2>4, <2>5
  <2> QED
    BY <2>3, <2>6, ClimbingOut
<1> QED
  BY <1>3, <1>4

\* "." is taken out.
LEMMA DotDropped ==
  ASSUME NEW C, NEW p \in Seq(C), NEW k \in 1..Len(p),
         p[k] = Dot, \A j \in 1..(k - 1) : Plain(p[j])
  PROVE  /\ Promise!Meaning(RemoveAt(p, k)) = Promise!Meaning(p)
         /\ ClimbsOut(RemoveAt(p, k)) => ClimbsOut(p)
<1> DEFINE q == RemoveAt(p, k)
           rest == Len(p) - k
<1>1. /\ q \in Seq(C) /\ Len(q) = Len(p) - 1
      /\ \A j \in 1..(k - 1) : q[j] = p[j]
      /\ \A j \in k..(Len(p) - 1) : q[j] = p[j + 1]
  BY Removed
<1>2. Len(p) \in Nat /\ rest \in Nat /\ k - 1 \in Nat /\ Len(p) = k + rest
  OBVIOUS
<1> HIDE DEF q
<1>3. Len(q) = (k - 1) + rest
  BY <1>1
<1>4. SameRest(p, k, q, k - 1, rest)
  <2>1. ASSUME NEW n \in 1..rest
        PROVE  p[k + n] = q[(k - 1) + n]
    <3>1. (k - 1) + n \in k..(Len(p) - 1) /\ (k - 1) + n + 1 = k + n
      BY <1>2
    <3> QED
      BY <1>1, <3>1
  <2> QED
    BY <1>1, <1>2, <1>3, <2>1 DEF SameRest, SameBehind
<1>5. Places(p)[k] = Places(q)[k - 1]
  <2>1. Places(p)[k] = Promise!Follow(Places(p)[k - 1], p[k])
    BY PlacesFollow
  <2>2. Promise!Follow(Places(p)[k - 1], p[k]) = Places(p)[k - 1]
    BY Zenon DEF Promise!Follow
  <2>3. SameBehind(p, 0, q, 0, k - 1) /\ k - 1 \in 0..(k - 1) /\ 0 + (k - 1) = k - 1
    BY <1>1, <1>2 DEF SameBehind
  <2>4. Places(p)[0] = Places(q)[0]
    BY <1>1, PlacesFollow
  <2>5. Places(p)[0 + (k - 1)] = Places(q)[0 + (k - 1)]
    BY <1>1, <2>3, <2>4, SameTail DEF SamePlaces
  <2> QED
    BY <2>1, <2>2, <2>3, <2>5
<1>6. \A j \in 1..(k - 1) : q[j] # DotDot
  BY <1>1 DEF Plain
<1> HIDE DEF rest
<1>7. Promise!Meaning(q) = Promise!Meaning(p) /\ (ClimbsOut(q) => ClimbsOut(p))
  <2>1. PICK a \in Nat, b \in Nat : a = k /\ b = k - 1
    BY <1>2
  <2>2. q \in Seq(C) /\ rest \in Nat /\ SameRest(p, a, q, b, rest) /\ Places(p)[a] = Places(q)[b]
    BY <1>1, <1>2, <1>4, <1>5, <2>1
  <2>3. \A j \in 1..b : q[j] # DotDot
    BY <1>6, <2>1
  <2> QED
    BY <2>2, <2>3, Shorter
<1> QED
  BY <1>7 DEF q

\* ".." is taken out with the name before it.
LEMMA Climbed ==
  ASSUME NEW C, NEW p \in Seq(C), NEW k \in 2..Len(p),
         p[k] = DotDot, \A j \in 1..(k - 1) : Plain(p[j])
  PROVE  LET q == RemoveAt(RemoveAt(p, k), k - 1)
         IN /\ q \in Seq(C)
            /\ Len(q) = Len(p) - 2
            /\ \A j \in 1..(k - 2) : q[j] = p[j]
            /\ Promise!Meaning(q) = Promise!Meaning(p)
            /\ ClimbsOut(q) => ClimbsOut(p)
<1> DEFINE o == RemoveAt(p, k)
           q == RemoveAt(o, k - 1)
           rest == Len(p) - k
<1>1. /\ o \in Seq(C) /\ Len(o) = Len(p) - 1
      /\ \A j \in 1..(k - 1) : o[j] = p[j]
      /\ \A j \in k..(Len(p) - 1) : o[j] = p[j + 1]
  <2>1. k \in 1..Len(p)
    OBVIOUS
  <2> QED
    BY <2>1, Removed
<1> HIDE DEF o
<1>2. /\ q \in Seq(C) /\ Len(q) = Len(p) - 2
      /\ \A j \in 1..(k - 2) : q[j] = o[j]
      /\ \A j \in (k - 1)..(Len(p) - 2) : q[j] = o[j + 1]
  <2>1. k - 1 \in 1..Len(o) /\ (k - 1) - 1 = k - 2 /\ Len(o) - 1 = Len(p) - 2
    BY <1>1
  <2> QED
    BY <1>1, <2>1, Removed
<1> HIDE DEF q
<1>3. Len(p) \in Nat /\ rest \in Nat /\ k - 2 \in Nat /\ Len(p) = k + rest
  OBVIOUS
<1>4. Len(q) = (k - 2) + rest
  BY <1>2
<1>5. \A j \in 1..(k - 2) : q[j] = p[j]
  BY <1>1, <1>2
<1>6. SameRest(p, k, q, k - 2, rest)
  <2>1. ASSUME NEW n \in 1..rest
        PROVE  p[k + n] = q[(k - 2) + n]
    <3> DEFINE j == (k - 2) + n
    <3>1. j \in (k - 1)..(Len(p) - 2) /\ j + 1 \in k..(Len(p) - 1) /\ (j + 1) + 1 = k + n
      BY <1>3
    <3> HIDE DEF j
    <3>2. q[j] = o[j + 1] /\ o[j + 1] = p[(j + 1) + 1]
      BY <1>1, <1>2, <3>1
    <3> QED
      BY <3>1, <3>2 DEF j
  <2> QED
    BY <1>3, <1>4, <2>1 DEF SameRest, SameBehind
<1>7. Places(p)[k] = Places(q)[k - 2]
  <2>1. Places(p)[k] = Promise!Follow(Places(p)[k - 1], DotDot)
    BY PlacesFollow
  <2>2. Places(p)[k - 1] = SubSeq(p, 1, k - 1) /\ Places(p)[k - 2] = SubSeq(p, 1, k - 2)
    <3>1. k - 1 \in 0..Len(p) /\ k - 1 \in 0..(k - 1) /\ k - 2 \in 0..(k - 1)
      OBVIOUS
    <3> QED
      BY <3>1, PlainPlaces
  <2>3. Promise!Follow(SubSeq(p, 1, k - 1), DotDot) = SubSeq(p, 1, k - 2)
    <3> DEFINE s == SubSeq(p, 1, k - 1)
    <3>1. s # <<>> /\ Len(s) = k - 1 /\ SubSeq(s, 1, Len(s) - 1) = SubSeq(p, 1, k - 2)
      OBVIOUS
    <3> HIDE DEF s
    <3>2. DotDot \notin {Dot, Separator}
      BY SpecialsDiffer
    <3>3. Promise!Follow(s, DotDot) = Promise!Front(s)
      BY <3>1, <3>2, Zenon DEF Promise!Follow, Promise!Root
    <3> QED
      BY <3>1, <3>3 DEF s, Promise!Front
  <2>4. SameBehind(p, 0, q, 0, k - 2) /\ k - 2 \in 0..(k - 2) /\ 0 + (k - 2) = k - 2
    BY <1>2, <1>3, <1>5 DEF SameBehind
  <2>5. Places(p)[0] = Places(q)[0]
    BY <1>2, PlacesFollow
  <2>6. Places(p)[0 + (k - 2)] = Places(q)[0 + (k - 2)]
    BY <1>2, <2>4, <2>5, SameTail DEF SamePlaces
  <2> QED
    BY <2>1, <2>2, <2>3, <2>4, <2>6
<1>8. \A j \in 1..(k - 2) : q[j] # DotDot
  BY <1>5 DEF Plain
<1> HIDE DEF rest
<1>9. Promise!Meaning(q) = Promise!Meaning(p) /\ (ClimbsOut(q) => ClimbsOut(p))
  <2>1. PICK a \in Nat, b \in Nat : a = k /\ b = k - 2
    BY <1>3
  <2>2. q \in Seq(C) /\ rest \in Nat /\ SameRest(p, a, q, b, rest) /\ Places(p)[a] = Places(q)[b]
    BY <1>2, <1>3, <1>6, <1>7, <2>1
  <2>3. \A j \in 1..b : q[j] # DotDot
    BY <1>8, <2>1
  <2> QED
    BY <2>2, <2>3, Shorter
<1>10. /\ q \in Seq(C)
       /\ Len(q) = Len(p) - 2
       /\ \A j \in 1..(k - 2) : q[j] = p[j]
       /\ Promise!Meaning(q) = Promise!Meaning(p)
       /\ ClimbsOut(q) => ClimbsOut(p)
  BY <1>2, <1>5, <1>9
<1>11. q = RemoveAt(RemoveAt(p, k), k - 1)
  BY DEF q, o
<1> QED
  BY <1>10, <1>11, Zenon

(* -- The tree and the loops: types ----------------------------------------------- *)

\* The nodes there may be, and what TypeOK says of the tree.
NodeSet == [parent : 0..MaxNodes, kind : {"dir", "file"},
            name : Names \cup {Freed}, data : Data \cup {NoData}]
Grown == \A n \in DOMAIN nodes : /\ nodes[n].parent < n
                                 /\ nodes[n].parent # Root => nodes[nodes[n].parent].kind = "dir"
TreeOK == nodes \in Seq(NodeSet) /\ Grown
IsDirNode(n) == n \in {Root} \cup {m \in DOMAIN nodes : nodes[m].kind = "dir"}

\* What it says of the call, of the path and of the answer.
Written == (Components \ {Separator}) \cup {Freed}
Words == {"none", "ok", "EINVAL", "ENOENT", "EEXIST", "not found", "opened"}
CallOK == pc \in {"idle", "normalize", "walk"} /\ call \in [op : Operations, path : Paths] \cup {NoCall}
PathOK == path \in Seq(Written) /\ i \in 1..(Len(path) + 1)
RetOK == ret.says \in Words /\ ret.node \in 0..Len(nodes)

\* There is room for what a call makes, and the walk stops at its last step.
Makes == {"mkdir", "make file"}
Room == /\ Len(nodes) <= MaxNodes
        /\ (pc # "idle" /\ call.op \in Makes) => Len(nodes) < MaxNodes
WalkInside == pc = "walk" => /\ i <= Steps + 1
                             /\ path # <<>> \/ call.op = "open dir"

\* What has been passed holds neither "." nor "..".
Passed == /\ pc = "normalize" => \A j \in 1..(i - 1) : path[j] \notin {Dot, DotDot}
          /\ pc = "walk" => \A j \in 1..Len(path) : path[j] \notin {Dot, DotDot}

\* The type invariant, strengthened until it is inductive.
LoopOK == CallOK /\ PathOK /\ WalkInside /\ Passed
TypeInv == TreeOK /\ Room /\ IsDirNode(dir) /\ RetOK /\ LoopOK

\* The type invariant is part of it.
LEMMA TypeParts == TypeInv => TypeOK
  BY DEF TypeInv, TypeOK, TreeOK, Grown, IsDirNode, LoopOK, CallOK, PathOK, RetOK, NodeSet,
         Written, Words

\* A file system that has just been initialized.
LEMMA InitType == Init => TypeInv
<1> SUFFICES ASSUME Init
             PROVE  TypeInv
  OBVIOUS
<1> USE DEF Init
<1>1. TreeOK /\ IsDirNode(dir)
  BY DEF TreeOK, Grown, IsDirNode
<1>2. Room
  BY BoundAssumption DEF Room
<1>3. RetOK
  BY DEF RetOK, Words, Returned, Root
<1>4. LoopOK
  BY DEF LoopOK, CallOK, PathOK, WalkInside, Passed
<1> QED
  BY <1>1, <1>2, <1>3, <1>4 DEF TypeInv

\* A step that leaves the tree alone leaves its nodes what they were.
LEMMA SameTree ==
  ASSUME TypeInv, UNCHANGED <<nodes, dir, ret>>,
         (pc' # "idle" /\ call'.op \in Makes) => (pc # "idle" /\ call.op \in Makes)
  PROVE  (TreeOK /\ Room /\ IsDirNode(dir) /\ RetOK)'
<1>1. TreeOK' /\ RetOK' /\ IsDirNode(dir)'
  BY DEF TypeInv, TreeOK, Grown, RetOK, IsDirNode
<1>2. Room'
  BY DEF TypeInv, Room
<1> QED
  BY <1>1, <1>2

\* What begins is normalized from its first name on, and has room for what it makes.
LEMMA BeginType ==
  ASSUME TypeInv, NEW op \in Operations, NEW p \in Paths, HasRoom(op), Begin(op, p)
  PROVE  TypeInv'
<1> USE DEF Begin
<1>1. Parsed(p) \in Seq(Written)
  <2>1. Parsed(p) \in Seq(Components \ {Separator})
    BY PathsAssumption, ParsedMeaning
  <2> QED
    BY <2>1 DEF Written
<1>2. TreeOK' /\ IsDirNode(dir)'
  BY DEF TypeInv, TreeOK, Grown, IsDirNode
<1>3. RetOK'
  <2>1. Len(nodes) \in Nat
    BY DEF TypeInv, TreeOK
  <2> QED
    BY <2>1 DEF RetOK, Words, Returned, Root
<1>4. Room'
  BY DEF TypeInv, Room, HasRoom, Makes
<1>5. CallOK'
  BY DEF CallOK
<1>6. PathOK'
  <2>1. 1 \in 1..(Len(Parsed(p)) + 1)
    BY <1>1
  <2> QED
    BY <1>1, <2>1 DEF PathOK
<1>7. WalkInside' /\ Passed'
  BY DEF WalkInside, Passed
<1> QED
  BY <1>2, <1>3, <1>4, <1>5, <1>6, <1>7 DEF TypeInv, LoopOK

\* What returns leaves no call behind.
LEMMA ReturnType ==
  ASSUME NEW result, Return(result), TreeOK', Len(nodes') <= MaxNodes,
         result.says \in Words, result.node \in 0..Len(nodes')
  PROVE  TypeInv'
<1> USE DEF Return
<1>1. IsDirNode(dir)'
  BY DEF IsDirNode
<1>2. RetOK' /\ Room'
  BY DEF RetOK, Room
<1>3. CallOK' /\ WalkInside' /\ Passed'
  BY DEF CallOK, WalkInside, Passed
<1>4. PathOK'
  <2>1. <<>> \in Seq(Written) /\ 1 \in 1..(Len(<<>>) + 1)
    OBVIOUS
  <2> QED
    BY <2>1 DEF PathOK
<1> QED
  BY <1>1, <1>2, <1>3, <1>4 DEF TypeInv, LoopOK

\* The loop is at k of the path q, and what it has passed is plain.
PassedTo(q, k) == /\ q \in Seq(Written) /\ k \in 1..(Len(q) + 1)
                  /\ \A j \in 1..(k - 1) : q[j] \notin {Dot, DotDot}

\* The steps of bootable_path_normalize.
LEMMA NormalizeType ==
  ASSUME TypeInv, PassName \/ DropDot \/ Climb \/ ClimbAtRoot
  PROVE  TypeInv'
<1>1. UNCHANGED <<nodes, call, dir, ret>> /\ pc = "normalize" /\ pc' = "normalize"
  BY DEF PassName, DropDot, Climb, ClimbAtRoot, Normalizing
<1>2. (TreeOK /\ Room /\ IsDirNode(dir) /\ RetOK)'
  BY <1>1, SameTree
<1>3. CallOK' /\ WalkInside'
  BY <1>1 DEF TypeInv, LoopOK, CallOK, WalkInside
<1>4. /\ path \in Seq(Written) /\ i \in 1..(Len(path) + 1)
      /\ \A j \in 1..(i - 1) : path[j] \notin {Dot, DotDot}
  BY <1>1 DEF TypeInv, LoopOK, PathOK, Passed
<1>5. i \in 1..Len(path)
  BY <1>4 DEF PassName, DropDot, Climb, ClimbAtRoot, Normalizing
<1>6. ASSUME PassName
      PROVE  PassedTo(path', i')
  <2>1. path' = path /\ i' = i + 1 /\ path[i] \notin {Dot, DotDot}
    BY <1>6 DEF PassName
  <2>2. i + 1 \in 1..(Len(path) + 1)
    BY <1>5
  <2>3. \A j \in 1..((i + 1) - 1) : j = i \/ j \in 1..(i - 1)
    BY <1>5
  <2>4. \A j \in 1..((i + 1) - 1) : path[j] \notin {Dot, DotDot}
    BY <1>4, <2>1, <2>3
  <2>5. PassedTo(path, i + 1)
    BY <1>4, <2>2, <2>4 DEF PassedTo
  <2> QED
    BY <2>1, <2>5
<1>7. ASSUME DropDot
      PROVE  PassedTo(path', i')
  <2> DEFINE q == RemoveAt(path, i)
  <2>1. path' = q /\ i' = i
    BY <1>7 DEF DropDot
  <2>2. /\ q \in Seq(Written) /\ Len(q) = Len(path) - 1
        /\ \A j \in 1..(i - 1) : q[j] = path[j]
    BY <1>4, <1>5, Removed
  <2> HIDE DEF q
  <2>3. i \in 1..(Len(q) + 1)
    BY <1>5, <2>2
  <2>4. \A j \in 1..(i - 1) : q[j] \notin {Dot, DotDot}
    BY <1>4, <2>2
  <2>5. PassedTo(q, i)
    BY <2>2, <2>3, <2>4 DEF PassedTo
  <2> QED
    BY <2>1, <2>5
<1>8. ASSUME Climb
      PROVE  PassedTo(path', i')
  <2> DEFINE o == RemoveAt(path, i)
             q == RemoveAt(o, i - 1)
  <2>1. path' = q /\ i' = i - 1 /\ i \in 2..Len(path)
    BY <1>5, <1>8 DEF Climb
  <2>2. /\ o \in Seq(Written) /\ Len(o) = Len(path) - 1
        /\ \A j \in 1..(i - 1) : o[j] = path[j]
    BY <1>4, <1>5, Removed
  <2> HIDE DEF o
  <2>3. i - 1 \in 1..Len(o)
    BY <2>1, <2>2
  <2>4. q \in Seq(Written) /\ Len(q) = Len(o) - 1 /\ \A j \in 1..((i - 1) - 1) : q[j] = o[j]
    BY <2>2, <2>3, Removed
  <2> HIDE DEF q
  <2>5. i - 1 \in 1..(Len(q) + 1)
    BY <2>3, <2>4
  <2>6. \A j \in 1..((i - 1) - 1) : j \in 1..(i - 1)
    BY <1>5
  <2>7. \A j \in 1..((i - 1) - 1) : q[j] \notin {Dot, DotDot}
    BY <1>4, <2>2, <2>4, <2>6
  <2>8. PassedTo(q, i - 1)
    BY <2>4, <2>5, <2>7 DEF PassedTo
  <2> QED
    BY <2>1, <2>8
<1>9. ASSUME ClimbAtRoot
      PROVE  PassedTo(path', i')
  <2> DEFINE q == [j \in 1..(Len(path) - 1) |-> IF j = 1 THEN Freed ELSE path[j]]
  <2>1. path' = q /\ i' = 1
    BY <1>9 DEF ClimbAtRoot
  <2>2. q \in Seq(Written)
    <3>1. Len(path) - 1 \in Nat /\ \A j \in 1..(Len(path) - 1) : q[j] \in Written
      BY <1>4, <1>5 DEF Written
    <3>2. q \in [1..(Len(path) - 1) -> Written]
      BY <3>1
    <3> HIDE DEF q
    <3> QED
      BY <3>1, <3>2
  <2> HIDE DEF q
  <2>3. PassedTo(q, 1)
    BY <2>2 DEF PassedTo
  <2> QED
    BY <2>1, <2>3
<1>10. PassedTo(path', i')
  BY <1>6, <1>7, <1>8, <1>9
<1>11. PathOK' /\ Passed'
  BY <1>1, <1>10 DEF PathOK, Passed, PassedTo
<1> QED
  BY <1>2, <1>3, <1>11 DEF TypeInv, LoopOK

\* Where the loops stop.
LEMMA LastStep ==
  /\ call.op = "open dir" => Steps = Len(path)
  /\ call.op # "open dir" => Steps = Len(path) - 1
  BY Zenon DEF Steps

\* Where the loop is.
LEMMA IndexType ==
  ASSUME TypeInv
  PROVE  path \in Seq(Written) /\ Len(path) \in Nat /\ i \in 1..(Len(path) + 1)
<1>1. path \in Seq(Written) /\ i \in 1..(Len(path) + 1)
  BY DEF TypeInv, LoopOK, PathOK
<1>2. Len(path) \in Nat
  BY <1>1
<1> QED
  BY <1>1, <1>2

\* The end of the loop: a path of no names is only followed by open_dir.
LEMMA EndType ==
  ASSUME TypeInv, EndNormalize
  PROVE  TypeInv'
<1>1. pc = "normalize" /\ i > Len(path) /\ UNCHANGED nodes
  BY DEF EndNormalize
<1>2. TreeOK' /\ Len(nodes') <= MaxNodes /\ Root \in 0..Len(nodes')
  BY <1>1 DEF TypeInv, TreeOK, Grown, Room, Root
<1>3. CASE \E word \in Words : Return(Returned(word))
  <2>1. \A word \in Words : Returned(word).says \in Words /\ Returned(word).node = Root
    BY DEF Returned
  <2> QED
    BY <1>2, <1>3, <2>1, ReturnType
<1>4. CASE /\ path # <<>> \/ call.op = "open dir"
           /\ pc' = "walk" /\ i' = 1 /\ UNCHANGED <<call, path, dir, ret>>
  <2>1. (TreeOK /\ Room /\ IsDirNode(dir) /\ RetOK)'
    BY <1>1, <1>4, SameTree
  <2>2. CallOK'
    BY <1>4 DEF TypeInv, LoopOK, CallOK
  <2>3. path \in Seq(Written) /\ Len(path) \in Nat /\ i \in 1..(Len(path) + 1)
    BY IndexType
  <2>4. PathOK'
    <3>1. 1 \in 1..(Len(path) + 1)
      BY <2>3
    <3> QED
      BY <1>4, <2>3, <3>1 DEF PathOK
  <2>5. \A j \in 1..Len(path) : path[j] \notin {Dot, DotDot}
    <3>1. \A j \in 1..Len(path) : j \in 1..(i - 1)
      BY <1>1, <2>3
    <3> QED
      BY <1>1, <3>1 DEF TypeInv, LoopOK, Passed
  <2>6. Passed'
    BY <1>4, <2>5 DEF Passed
  <2>7. 1 <= Steps + 1
    <3>1. CASE call.op = "open dir"
      <4>1. Steps = Len(path)
        BY <3>1, LastStep
      <4> QED
        BY <2>3, <4>1
    <3>2. CASE call.op # "open dir"
      <4>1. Steps = Len(path) - 1
        BY <3>2, LastStep
      <4>2. path # <<>>
        BY <1>4, <3>2
      <4>3. Len(path) # 0
        BY <2>3, <4>2
      <4> QED
        BY <2>3, <4>1, <4>3
    <3> QED
      BY <3>1, <3>2
  <2>8. Steps' = Steps
    BY <1>4 DEF Steps
  <2>9. WalkInside'
    BY <1>4, <2>7, <2>8 DEF WalkInside
  <2> QED
    BY <2>1, <2>2, <2>4, <2>6, <2>9 DEF TypeInv, LoopOK
<1>5. (IF call.op = "open file" THEN "not found" ELSE "EINVAL") \in Words
  BY DEF Words
<1> QED
  BY <1>3, <1>4, <1>5 DEF EndNormalize

\* The first match of a set of nodes is one of them.
LEMMA FirstIsOne ==
  ASSUME NEW S \in SUBSET Nat, S # {}
  PROVE  FirstOf(S) \in S /\ \A m \in S : FirstOf(S) <= m
  BY Least DEF FirstOf

\* Where a walk is: the directory holds the subdirectory of the next name.
LEMMA WalkDownTo ==
  ASSUME TypeInv, WalkDown
  PROVE  /\ dir' \in DOMAIN nodes
         /\ nodes[dir'].parent = dir /\ nodes[dir'].kind = "dir" /\ nodes[dir'].name = path[i]
<1>1. Subdirs # {} /\ dir' = FirstOf(Subdirs)
  BY DEF WalkDown
<1>2. Subdirs \subseteq DOMAIN nodes
  BY DEF Subdirs, Named, Children
<1>3. DOMAIN nodes \subseteq Nat
  BY DEF TypeInv, TreeOK
<1>4. Subdirs \in SUBSET Nat
  BY <1>2, <1>3
<1>5. dir' \in Subdirs
  BY <1>1, <1>4, FirstIsOne
<1> QED
  BY <1>5 DEF Subdirs, Named, Children

\* One step down stays in the tree and in the path.
LEMMA WalkType ==
  ASSUME TypeInv, WalkDown
  PROVE  TypeInv'
<1>1. pc = "walk" /\ i <= Steps /\ i' = i + 1 /\ UNCHANGED <<nodes, pc, call, path, ret>>
  BY DEF WalkDown
<1>2. TreeOK' /\ RetOK' /\ Room'
  BY <1>1 DEF TypeInv, TreeOK, Grown, RetOK, Room
<1>3. IsDirNode(dir)'
  BY <1>1, WalkDownTo DEF IsDirNode
<1>4. CallOK' /\ Passed'
  BY <1>1 DEF TypeInv, LoopOK, CallOK, Passed
<1>5. path \in Seq(Written) /\ Len(path) \in Nat /\ i \in 1..(Len(path) + 1)
  BY IndexType
<1>6. Steps = Len(path) \/ Steps = Len(path) - 1
  BY LastStep
<1>7. PathOK'
  <2>1. i + 1 \in 1..(Len(path) + 1)
    BY <1>1, <1>5, <1>6
  <2> QED
    BY <1>1, <1>5, <2>1 DEF PathOK
<1>8. WalkInside'
  <2>1. i + 1 <= Steps + 1
    BY <1>1, <1>5, <1>6
  <2>2. Steps' = Steps
    BY <1>1 DEF Steps
  <2> QED
    BY <1>1, <2>1, <2>2 DEF TypeInv, LoopOK, WalkInside
<1> QED
  BY <1>2, <1>3, <1>4, <1>7, <1>8 DEF TypeInv, LoopOK

\* The calls that are about a name in a directory.
NamedCalls == Makes \cup {"open file"}

\* All calls but open_dir stop at the last name.
LEMMA LastName ==
  ASSUME TypeInv, NEW op \in NamedCalls, Walked(op)
  PROVE  i = Len(path) /\ i \in 1..Len(path) /\ path[i] \in Names \cup {Freed}
<1>1. path \in Seq(Written) /\ Len(path) \in Nat /\ i \in 1..(Len(path) + 1)
  BY IndexType
<1>2. i <= Steps + 1
  BY DEF TypeInv, LoopOK, WalkInside, Walked
<1>3. i > Steps
  BY DEF Walked
<1>4. Steps = Len(path) - 1
  <2>1. call.op # "open dir"
    BY DEF NamedCalls, Makes, Walked
  <2> QED
    BY <2>1, LastStep
<1>5. i = Len(path) /\ i \in 1..Len(path)
  BY <1>1, <1>2, <1>3, <1>4
<1>6. path[i] \in Written
  BY <1>1, <1>5
<1>7. path[i] \notin {Dot, DotDot}
  BY <1>5 DEF TypeInv, LoopOK, Passed, Walked
<1> QED
  BY <1>5, <1>6, <1>7 DEF Written, Components

\* What a new node is.
LEMMA NewNode ==
  ASSUME TypeInv, NEW op \in Makes, Walked(op), NEW kind \in {"file", "dir"}
  PROVE  Node(dir, kind, path[i]) \in NodeSet
<1>1. path[i] \in Names \cup {Freed}
  BY LastName DEF NamedCalls
<1>2. dir \in 0..MaxNodes
  <2>1. nodes \in Seq(NodeSet) /\ Len(nodes) <= MaxNodes
    BY DEF TypeInv, TreeOK, Room
  <2>2. dir = 0 \/ dir \in DOMAIN nodes
    BY DEF TypeInv, IsDirNode, Root
  <2>3. Len(nodes) \in Nat /\ DOMAIN nodes = 1..Len(nodes)
    BY <2>1
  <2>4. dir = 0 \/ dir \in 1..Len(nodes)
    BY <2>2, <2>3
  <2> QED
    BY <2>1, <2>3, <2>4, BoundAssumption
<1> QED
  BY <1>1, <1>2 DEF Node, NodeSet

\* The tree with one node more.
LEMMA AddedTree ==
  ASSUME TypeInv, NEW new \in NodeSet, new.parent = dir, nodes' = Append(nodes, new)
  PROVE  /\ TreeOK'
         /\ Len(nodes) \in Nat /\ Len(nodes') = Len(nodes) + 1
         /\ \A n \in 1..Len(nodes) : nodes'[n] = nodes[n]
         /\ nodes'[Len(nodes) + 1] = new
<1>1. nodes \in Seq(NodeSet) /\ Len(nodes) \in Nat /\ DOMAIN nodes = 1..Len(nodes)
  BY DEF TypeInv, TreeOK
<1>2. /\ nodes' \in Seq(NodeSet) /\ Len(nodes') = Len(nodes) + 1
      /\ DOMAIN nodes' = 1..(Len(nodes) + 1)
      /\ \A n \in 1..Len(nodes) : nodes'[n] = nodes[n]
      /\ nodes'[Len(nodes) + 1] = new
  BY <1>1
<1>3. dir # Root => dir \in 1..Len(nodes) /\ nodes[dir].kind = "dir"
  BY <1>1 DEF TypeInv, IsDirNode
<1>4. Grown'
  <2> SUFFICES ASSUME NEW n \in DOMAIN nodes'
               PROVE  /\ nodes'[n].parent < n
                      /\ nodes'[n].parent # Root => nodes'[nodes'[n].parent].kind = "dir"
    BY DEF Grown
  <2>1. CASE n \in 1..Len(nodes)
    <3>1. nodes'[n] = nodes[n] /\ nodes[n] \in NodeSet
      BY <1>1, <1>2, <2>1
    <3>2. nodes[n].parent < n /\ nodes[n].parent \in 0..MaxNodes
      BY <1>1, <2>1, <3>1 DEF TypeInv, TreeOK, Grown, NodeSet
    <3>3. nodes[n].parent # Root => nodes[nodes[n].parent].kind = "dir"
      BY <1>1, <2>1 DEF TypeInv, TreeOK, Grown
    <3>4. nodes[n].parent # Root => nodes[n].parent \in 1..Len(nodes)
      BY <2>1, <3>2, BoundAssumption DEF Root
    <3> QED
      BY <1>2, <3>1, <3>2, <3>3, <3>4
  <2>2. CASE n = Len(nodes) + 1
    <3>1. nodes'[n] = new
      BY <1>2, <2>2
    <3>2. dir < n
      BY <1>1, <1>3, <2>2 DEF Root
    <3> QED
      BY <1>2, <1>3, <3>1, <3>2
  <2>3. n \in 1..Len(nodes) \/ n = Len(nodes) + 1
    <3>1. n \in 1..(Len(nodes) + 1)
      BY <1>2
    <3> QED
      BY <1>1, <3>1
  <2> QED
    BY <2>1, <2>2, <2>3, Zenon
<1> QED
  BY <1>1, <1>2, <1>4 DEF TreeOK

\* bootable_dir_add_subdir and bootable_dir_add_file.
LEMMA AddType ==
  ASSUME TypeInv, NEW op \in Makes, NEW kind \in {"file", "dir"}, Add(op, kind)
  PROVE  TypeInv'
<1>1. Walked(op) /\ pc = "walk" /\ call.op = op
  BY DEF Add, Walked
<1>2. Len(nodes) < MaxNodes /\ TreeOK /\ Len(nodes) \in Nat
  <2>1. Len(nodes) \in Nat
    BY DEF TypeInv, TreeOK
  <2>2. pc # "idle" /\ call.op \in Makes
    BY <1>1
  <2>3. Len(nodes) < MaxNodes
    BY <2>2 DEF TypeInv, Room
  <2> QED
    BY <2>1, <2>3 DEF TypeInv
<1>3. \A word \in Words : Returned(word).says \in Words /\ Returned(word).node = Root
  BY DEF Returned
<1>4. "EEXIST" \in Words /\ "ok" \in Words
  BY DEF Words
<1>5. CASE Return(Returned("EEXIST")) /\ UNCHANGED nodes
  <2>1. TreeOK' /\ Len(nodes') <= MaxNodes /\ Root \in 0..Len(nodes')
    BY <1>2, <1>5, BoundAssumption DEF TreeOK, Grown, Root
  <2> QED
    BY <1>3, <1>4, <1>5, <2>1, ReturnType
<1>6. CASE nodes' = Append(nodes, Node(dir, kind, path[i])) /\ Return(Returned("ok"))
  <2> DEFINE new == Node(dir, kind, path[i])
  <2>1. new \in NodeSet /\ new.parent = dir
    BY <1>1, NewNode DEF Node
  <2>2. nodes' = Append(nodes, new)
    BY <1>6
  <2> HIDE DEF new
  <2>3. TreeOK' /\ Len(nodes') = Len(nodes) + 1
    BY <2>1, <2>2, AddedTree
  <2>4. Len(nodes') <= MaxNodes /\ Root \in 0..Len(nodes')
    BY <1>2, <2>3, BoundAssumption DEF Root
  <2> QED
    BY <1>3, <1>4, <1>6, <2>3, <2>4, ReturnType
<1> QED
  BY <1>5, <1>6 DEF Add

\* What has been found is a node.
LEMMA FoundType ==
  ASSUME TypeInv, UNCHANGED nodes,
         \/ \E word \in Words : Return(Returned(word))
         \/ \E n \in 0..Len(nodes) : Return(Found(n))
  PROVE  TypeInv'
<1>1. TreeOK' /\ Len(nodes') <= MaxNodes /\ Root \in 0..Len(nodes')
  BY DEF TypeInv, TreeOK, Grown, Room, Root
<1>2. \A word \in Words : Returned(word).says \in Words /\ Returned(word).node = Root
  BY DEF Returned
<1>3. \A n : Found(n).says \in Words /\ Found(n).node = n
  BY DEF Found, Words
<1> QED
  BY <1>1, <1>2, <1>3, ReturnType

\* The last file of a path, and the directory come to, are nodes.
LEMMA OpenType ==
  ASSUME TypeInv, WalkFails \/ OpenDir \/ OpenFile
  PROVE  TypeInv'
<1>1. DOMAIN nodes = 1..Len(nodes) /\ Len(nodes) \in Nat
  BY DEF TypeInv, TreeOK
<1>2. CASE WalkFails
  <2>1. (IF call.op \in {"mkdir", "make file"} THEN "ENOENT" ELSE "not found") \in Words
    BY DEF Words
  <2> QED
    BY <1>2, <2>1, FoundType DEF WalkFails
<1>3. CASE OpenDir
  <2>1. dir \in 0..Len(nodes)
    BY <1>1 DEF TypeInv, IsDirNode, Root
  <2> QED
    BY <1>3, <2>1, FoundType DEF OpenDir
<1>4. CASE OpenFile
  <2>1. CASE Files = {}
    <3>1. "not found" \in Words /\ Return(Returned("not found")) /\ UNCHANGED nodes
      BY <1>4, <2>1 DEF OpenFile, Words
    <3> QED
      BY <3>1, FoundType
  <2>2. CASE Files # {}
    <3>1. Files \subseteq DOMAIN nodes
      BY DEF Files, Named, Children
    <3>2. Files \in SUBSET Nat
      BY <1>1, <3>1
    <3>3. FirstOf(Files) \in 0..Len(nodes)
      BY <1>1, <2>2, <3>1, <3>2, FirstIsOne
    <3>4. Return(Found(FirstOf(Files))) /\ UNCHANGED nodes
      BY <1>4, <2>2 DEF OpenFile
    <3> QED
      BY <3>3, <3>4, FoundType
  <2> QED
    BY <2>1, <2>2
<1> QED
  BY <1>2, <1>3, <1>4

\* The tree with a file filled.
LEMMA FilledTree ==
  ASSUME TypeInv, NEW d \in Data, FillFile(d)
  PROVE  /\ TreeOK'
         /\ ret.node \in DOMAIN nodes /\ nodes[ret.node].kind = "file"
         /\ Len(nodes) \in Nat /\ DOMAIN nodes = 1..Len(nodes) /\ Len(nodes') = Len(nodes)
         /\ nodes'[ret.node].data = d
         /\ \A n \in DOMAIN nodes : /\ nodes'[n].parent = nodes[n].parent
                                    /\ nodes'[n].kind = nodes[n].kind
                                    /\ nodes'[n].name = nodes[n].name
                                    /\ n # ret.node => nodes'[n] = nodes[n]
<1>1. nodes \in Seq(NodeSet) /\ Len(nodes) \in Nat /\ DOMAIN nodes = 1..Len(nodes)
  BY DEF TypeInv, TreeOK
<1>2. PICK k \in DOMAIN nodes : k = ret.node
  BY <1>1 DEF TypeInv, RetOK, FillFile, Root
<1>3. PICK filled : filled = [nodes[k] EXCEPT !.data = d]
  OBVIOUS
<1>4. nodes[k] \in NodeSet
  BY <1>1
<1>5. /\ filled \in NodeSet
      /\ filled.parent = nodes[k].parent /\ filled.kind = nodes[k].kind
      /\ filled.name = nodes[k].name /\ filled.data = d
  BY <1>3, <1>4 DEF NodeSet
<1>6. nodes' = [nodes EXCEPT ![k] = filled]
  BY <1>2, <1>3, Zenon DEF FillFile
<1>7. /\ nodes' \in Seq(NodeSet) /\ Len(nodes') = Len(nodes) /\ DOMAIN nodes' = DOMAIN nodes
      /\ nodes'[k] = filled /\ \A n \in DOMAIN nodes : n # k => nodes'[n] = nodes[n]
  BY <1>1, <1>5, <1>6
<1>8. ASSUME NEW n \in DOMAIN nodes
      PROVE  /\ nodes'[n].parent = nodes[n].parent
             /\ nodes'[n].kind = nodes[n].kind
             /\ nodes'[n].name = nodes[n].name
  BY <1>5, <1>7
<1>9. Grown'
  <2> SUFFICES ASSUME NEW n \in DOMAIN nodes
               PROVE  /\ nodes'[n].parent < n
                      /\ nodes'[n].parent # Root => nodes'[nodes'[n].parent].kind = "dir"
    BY <1>7 DEF Grown
  <2>1. nodes[n].parent < n /\ nodes[n].parent \in 0..MaxNodes
    <3>1. nodes[n] \in NodeSet
      BY <1>1
    <3>2. nodes[n].parent < n
      BY DEF TypeInv, TreeOK, Grown
    <3> QED
      BY <3>1, <3>2 DEF NodeSet
  <2>2. nodes[n].parent # Root => nodes[nodes[n].parent].kind = "dir"
    BY DEF TypeInv, TreeOK, Grown
  <2>3. nodes[n].parent # Root => nodes[n].parent \in DOMAIN nodes
    BY <1>1, <2>1, BoundAssumption DEF Root
  <2> QED
    BY <1>8, <2>1, <2>2, <2>3
<1>10. nodes[k].kind = "file"
  BY <1>2 DEF FillFile
<1> QED
  BY <1>1, <1>2, <1>5, <1>7, <1>8, <1>9, <1>10 DEF TreeOK

\* What cp puts into a file.
LEMMA FillType ==
  ASSUME TypeInv, NEW d \in Data, FillFile(d)
  PROVE  TypeInv'
<1>1. ret' = Returned("ok") /\ UNCHANGED <<pc, call, path, i, dir>> /\ pc = "idle"
  BY DEF FillFile
<1>2. TreeOK' /\ Len(nodes) \in Nat /\ Len(nodes') = Len(nodes) /\ DOMAIN nodes = 1..Len(nodes)
  BY FilledTree
<1>3. Room'
  BY <1>1, <1>2 DEF TypeInv, Room
<1>4. IsDirNode(dir)'
  <2>1. DOMAIN nodes' = DOMAIN nodes
    BY <1>2 DEF TreeOK
  <2>2. \A n \in DOMAIN nodes : nodes'[n].kind = nodes[n].kind
    BY FilledTree
  <2> QED
    BY <1>1, <2>1, <2>2 DEF TypeInv, IsDirNode
<1>5. RetOK'
  BY <1>1, <1>2 DEF RetOK, Returned, Words, Root
<1>6. LoopOK'
  BY <1>1 DEF TypeInv, LoopOK, CallOK, PathOK, WalkInside, Passed
<1> QED
  BY <1>2, <1>3, <1>4, <1>5, <1>6 DEF TypeInv

\* No call leaves the types.
LEMMA StepType == TypeInv /\ [AnyPathNext]_vars => TypeInv'
<1> SUFFICES ASSUME TypeInv, [AnyPathNext]_vars
             PROVE  TypeInv'
  OBVIOUS
<1>1. CASE \E op \in Operations, p \in Paths : HasRoom(op) /\ Begin(op, p)
  BY <1>1, BeginType
<1>2. CASE CallStep
  <2>1. "mkdir" \in Makes /\ "make file" \in Makes
    BY DEF Makes
  <2> QED
    BY <1>2, <2>1, NormalizeType, EndType, WalkType, AddType, OpenType DEF CallStep
<1>3. CASE \E d \in Data : FillFile(d)
  BY <1>3, FillType
<1>4. CASE UNCHANGED vars
  <2>1. UNCHANGED <<nodes, pc, call, path, i, dir, ret>>
    BY <1>4 DEF vars
  <2>2. (TreeOK /\ Room /\ IsDirNode(dir) /\ RetOK)'
    BY <2>1, SameTree
  <2>3. LoopOK'
    BY <2>1 DEF TypeInv, LoopOK, CallOK, PathOK, WalkInside, Passed, Steps
  <2> QED
    BY <2>2, <2>3 DEF TypeInv
<1> QED
  BY <1>1, <1>2, <1>3, <1>4 DEF AnyPathNext, Next

(* Whatever paths are asked for, those that climb out of the root included,  *)
(* the nodes are a tree whose inner nodes are directories, and the loops     *)
(* over a path stay inside it.                                               *)
THEOREM TreeTypeCorrect == AnyPathSpec => []TypeOK
  BY InitType, StepType, TypeParts, PTL DEF AnyPathSpec

(* -- No name twice ---------------------------------------------------------------- *)

\* The inductive invariant.
NamesInv == TypeInv /\ UniqueNames

\* A step that adds a node, by bootable_dir_add_subdir or bootable_dir_add_file.
Adding == \E op \in Makes, kind \in {"file", "dir"} : Add(op, kind)

\* The only steps that touch the tree.
LEMMA TreeSteps ==
  ASSUME AnyPathNext
  PROVE  UNCHANGED nodes \/ Adding \/ \E d \in Data : FillFile(d)
<1>1. CASE \E op \in Operations, p \in Paths : Begin(op, p)
  BY <1>1 DEF Begin
<1>2. CASE CallStep
  <2>1. CASE PassName \/ DropDot \/ Climb \/ ClimbAtRoot \/ WalkDown
    BY <2>1 DEF PassName, DropDot, Climb, ClimbAtRoot, WalkDown
  <2>2. CASE EndNormalize \/ WalkFails \/ OpenDir \/ OpenFile
    BY <2>2 DEF EndNormalize, WalkFails, OpenDir, OpenFile
  <2>3. CASE Add("mkdir", "dir") \/ Add("make file", "file")
    BY <2>3 DEF Adding, Makes
  <2> QED
    BY <1>2, <2>1, <2>2, <2>3 DEF CallStep
<1> QED
  BY <1>1, <1>2 DEF AnyPathNext, Next

\* A new node has a name that its directory does not hold.
LEMMA NewName ==
  ASSUME TypeInv, NEW op, NEW kind, Add(op, kind), nodes' # nodes
  PROVE  /\ nodes' = Append(nodes, Node(dir, kind, path[i]))
         /\ Return(Returned("ok")) /\ Walked(op)
         /\ \A n \in DOMAIN nodes : nodes[n].parent # dir \/ nodes[n].name # path[i]
<1>1. /\ ~NameExists(dir, path[i]) /\ nodes' = Append(nodes, Node(dir, kind, path[i]))
      /\ Return(Returned("ok")) /\ Walked(op)
  BY DEF Add
<1>2. \A n \in DOMAIN nodes : nodes[n].kind \in {"file", "dir"}
  <2>1. \A n \in DOMAIN nodes : nodes[n] \in NodeSet
    BY DEF TypeInv, TreeOK
  <2> QED
    BY <2>1 DEF NodeSet
<1>3. ASSUME NEW n \in DOMAIN nodes, nodes[n].parent = dir, nodes[n].name = path[i]
      PROVE  FALSE
  <2>1. n \in Named(dir, nodes[n].kind, path[i])
    BY <1>3 DEF Named, Children
  <2> QED
    BY <1>1, <1>2, <2>1 DEF NameExists
<1> QED
  BY <1>1, <1>3

\* The node that an add makes, and the ones that were there.
LEMMA AddedNode ==
  ASSUME TypeInv, NEW op \in Makes, NEW kind \in {"file", "dir"}, Add(op, kind), nodes' # nodes
  PROVE  /\ Len(nodes) \in Nat /\ Len(nodes') = Len(nodes) + 1
         /\ DOMAIN nodes = 1..Len(nodes)
         /\ \A n \in 1..Len(nodes) : nodes'[n] = nodes[n]
         /\ nodes'[Len(nodes) + 1] = Node(dir, kind, path[i])
         /\ Node(dir, kind, path[i]) \in NodeSet
<1> DEFINE new == Node(dir, kind, path[i])
<1>1. nodes' = Append(nodes, new) /\ Walked(op)
  BY NewName
<1>2. new \in NodeSet
  BY <1>1, NewNode
<1>3. new.parent = dir
  BY DEF Node
<1>4. DOMAIN nodes = 1..Len(nodes)
  BY DEF TypeInv, TreeOK
<1> HIDE DEF new
<1>5. /\ Len(nodes) \in Nat /\ Len(nodes') = Len(nodes) + 1
      /\ \A n \in 1..Len(nodes) : nodes'[n] = nodes[n]
      /\ nodes'[Len(nodes) + 1] = new
  BY <1>1, <1>2, <1>3, AddedTree
<1> QED
  BY <1>2, <1>4, <1>5 DEF new

\* An add looks among files and subdirectories, and so among all nodes.
LEMMA AddedNames ==
  ASSUME NamesInv, Adding
  PROVE  UniqueNames'
<1>1. PICK op \in Makes, kind \in {"file", "dir"} : Add(op, kind)
  BY DEF Adding
<1>2. CASE nodes' = nodes
  BY <1>2 DEF NamesInv, UniqueNames
<1>3. CASE nodes' # nodes
  <2> DEFINE N == Len(nodes)
  <2>1. \A n \in DOMAIN nodes : nodes[n].parent # dir \/ nodes[n].name # path[i]
    BY <1>1, <1>3, NewName DEF NamesInv
  <2>2. /\ N \in Nat /\ Len(nodes') = N + 1 /\ DOMAIN nodes = 1..N
        /\ \A n \in 1..N : nodes'[n] = nodes[n]
        /\ nodes'[N + 1].parent = dir /\ nodes'[N + 1].name = path[i]
    BY <1>1, <1>3, AddedNode DEF NamesInv, Node
  <2>3. DOMAIN nodes' = 1..(N + 1)
    <3>1. TypeInv'
      BY <1>1, AddType DEF NamesInv
    <3>2. DOMAIN nodes' = 1..Len(nodes')
      BY <3>1 DEF TypeInv, TreeOK
    <3> QED
      BY <2>2, <3>2
  <2> HIDE DEF N
  <2> SUFFICES ASSUME NEW n \in DOMAIN nodes', NEW m \in DOMAIN nodes', n # m
               PROVE  nodes'[n].parent # nodes'[m].parent \/ nodes'[n].name # nodes'[m].name
    BY DEF UniqueNames
  <2>4. CASE n \in 1..N /\ m \in 1..N
    BY <2>2, <2>4 DEF NamesInv, UniqueNames
  <2>5. CASE n = N + 1 /\ m \in 1..N
    BY <2>1, <2>2, <2>5
  <2>6. CASE m = N + 1 /\ n \in 1..N
    BY <2>1, <2>2, <2>6
  <2> QED
    BY <2>2, <2>3, <2>4, <2>5, <2>6
<1> QED
  BY <1>2, <1>3

\* A file that is filled keeps its directory and its name.
LEMMA FilledNames ==
  ASSUME NamesInv, NEW d \in Data, FillFile(d)
  PROVE  UniqueNames'
<1>1. /\ TreeOK' /\ Len(nodes') = Len(nodes) /\ DOMAIN nodes = 1..Len(nodes)
      /\ \A n \in DOMAIN nodes : /\ nodes'[n].parent = nodes[n].parent
                                 /\ nodes'[n].name = nodes[n].name
  BY FilledTree DEF NamesInv
<1>2. DOMAIN nodes' = DOMAIN nodes
  BY <1>1 DEF TreeOK
<1> QED
  BY <1>1, <1>2 DEF NamesInv, UniqueNames

\* A directory that has just been initialized holds no node, so no two of one name.
LEMMA InitNames == Init => NamesInv
<1>1. Init => UniqueNames
  BY DEF Init, UniqueNames
<1> QED
  BY <1>1, InitType DEF NamesInv

\* No call on the tree makes a second node of a name in one directory.
LEMMA StepNames == NamesInv /\ [AnyPathNext]_vars => NamesInv'
<1> SUFFICES ASSUME NamesInv, [AnyPathNext]_vars
             PROVE  NamesInv'
  OBVIOUS
<1>1. TypeInv'
  BY StepType DEF NamesInv
<1>2. CASE UNCHANGED nodes
  BY <1>1, <1>2 DEF NamesInv, UniqueNames
<1>3. CASE AnyPathNext
  BY <1>1, <1>2, <1>3, TreeSteps, AddedNames, FilledNames DEF NamesInv
<1> QED
  BY <1>2, <1>3 DEF vars

(* bootable_dir_add_subdir, bootable_dir_add_file and cp, in whatever order *)
(* and with whatever paths: no directory ever holds a name twice.           *)
THEOREM NamesStayUnique == AnyPathSpec => []UniqueNames
<1>1. NamesInv => UniqueNames
  BY DEF NamesInv
<1> QED
  BY <1>1, InitNames, StepNames, PTL DEF AnyPathSpec

\* The behaviours with paths that do not climb out of the root are among them.
LEMMA AmongAnyPath == Spec => AnyPathSpec
<1>1. [Next]_vars => [AnyPathNext]_vars
  BY DEF AnyPathNext
<1> QED
  BY <1>1, PTL DEF Spec, AnyPathSpec

\* The calls that fs_tree checks keep the types.
THEOREM CheckedTreeTypeCorrect == Spec => []TypeOK
  BY AmongAnyPath, TreeTypeCorrect, PTL

\* They keep the names unique.
THEOREM CheckedNamesStayUnique == Spec => []UniqueNames
  BY AmongAnyPath, NamesStayUnique, PTL

(* -- Normalizing keeps the meaning --------------------------------------------------- *)

\* A call is under way from its first loop to its return, and what is left of its
\* path means what was asked for.
Whole == Components \ {Separator}
CallIs == IF pc = "idle" THEN call = NoCall ELSE call \in [op : Operations, path : Paths]
MeaningKept == /\ pc # "idle" => /\ path \in Seq(Whole)
                                 /\ Promise!Meaning(path) = Promise!Meaning(call.path)
               /\ pc = "normalize" => ~ClimbsOut(path)
MeaningInv == NamesInv /\ CallIs /\ MeaningKept

\* What it says while the path is normalized.
LEMMA WhileNormalizing ==
  ASSUME MeaningInv, Normalizing
  PROVE  /\ path \in Seq(Whole) /\ i \in 1..Len(path) /\ Len(path) \in Nat
         /\ \A j \in 1..(i - 1) : Plain(path[j])
         /\ ~ClimbsOut(path)
<1>1. path \in Seq(Whole) /\ ~ClimbsOut(path) /\ pc = "normalize" /\ i <= Len(path)
  BY DEF MeaningInv, MeaningKept, Normalizing
<1>2. i \in 1..(Len(path) + 1) /\ Len(path) \in Nat
  BY IndexType DEF MeaningInv, NamesInv
<1>3. i \in 1..Len(path)
  BY <1>1, <1>2
<1>4. \A j \in 1..(i - 1) : path[j] \notin {Dot, DotDot}
  BY <1>1 DEF MeaningInv, NamesInv, TypeInv, LoopOK, Passed
<1>5. \A j \in 1..(i - 1) : path[j] \in Whole
  BY <1>1, <1>3
<1> QED
  BY <1>1, <1>2, <1>3, <1>4, <1>5 DEF Plain, Whole

\* What each step of the loop has to leave behind.
StillMeant == /\ path' \in Seq(Whole)
              /\ Promise!Meaning(path') = Promise!Meaning(path)
              /\ ~ClimbsOut(path')

\* A path of ".." alone means the root, and that is what is left over.
LEMMA LeftAtRoot ==
  ASSUME MeaningInv, ClimbAtRoot
  PROVE  path' = <<>> /\ Promise!Meaning(path) = <<>>
<1>1. /\ path \in Seq(Whole) /\ Len(path) \in Nat /\ i \in 1..Len(path)
      /\ ~ClimbsOut(path)
  BY WhileNormalizing DEF ClimbAtRoot
<1>2. i = 1 /\ path[1] \in {DotDot, Freed}
      /\ path' = [j \in 1..(Len(path) - 1) |-> IF j = 1 THEN Freed ELSE path[j]]
  BY DEF ClimbAtRoot
<1>3. 1 \in 1..Len(path) /\ path[1] \in Whole
  BY <1>1, <1>2
<1>4. path[1] = DotDot
  BY <1>2, <1>3, SpecialsDiffer DEF Whole, Components
<1>5. Places(path)[0] = <<>>
  BY <1>1, PlacesFollow
<1>6. Len(path) = 1
  <2>1. ASSUME Len(path) > 1
        PROVE  FALSE
    <3>1. 1 \in 1..(Len(path) - 1) /\ 1 - 1 = 0
      BY <1>1, <2>1
    <3>2. ClimbsOut(path)
      BY <1>1, <1>4, <1>5, <3>1, ClimbingOut
    <3> QED
      BY <1>1, <3>2
  <2> QED
    BY <1>1, <1>3, <2>1
<1>7. path' = <<>>
  BY <1>2, <1>6
<1>8. Places(path)[1] = Promise!Follow(<<>>, DotDot)
  <2>1. Places(path)[1] = Promise!Follow(Places(path)[1 - 1], path[1])
    BY <1>1, <1>3, PlacesFollow
  <2> QED
    BY <1>4, <1>5, <2>1
<1>9. Promise!Follow(<<>>, DotDot) = <<>>
  BY SpecialsDiffer DEF Promise!Follow, Promise!Root
<1> QED
  BY <1>6, <1>7, <1>8, <1>9, MeaningIsLast

\* The steps of bootable_path_normalize.
LEMMA NormalizeMeaning ==
  ASSUME MeaningInv, PassName \/ DropDot \/ Climb \/ ClimbAtRoot
  PROVE  StillMeant
<1>1. /\ path \in Seq(Whole) /\ i \in 1..Len(path) /\ Len(path) \in Nat
      /\ \A j \in 1..(i - 1) : Plain(path[j])
      /\ ~ClimbsOut(path)
  BY WhileNormalizing DEF PassName, DropDot, Climb, ClimbAtRoot
<1>2. CASE PassName
  <2>1. path' = path
    BY <1>2 DEF PassName
  <2> QED
    BY <1>1, <2>1 DEF StillMeant
<1>3. CASE DropDot
  <2>1. path' = RemoveAt(path, i) /\ path[i] = Dot
    BY <1>3 DEF DropDot
  <2>2. RemoveAt(path, i) \in Seq(Whole)
    BY <1>1, Removed
  <2>3. /\ Promise!Meaning(RemoveAt(path, i)) = Promise!Meaning(path)
        /\ ClimbsOut(RemoveAt(path, i)) => ClimbsOut(path)
    BY <1>1, <2>1, DotDropped
  <2> QED
    BY <1>1, <2>1, <2>2, <2>3 DEF StillMeant
<1>4. CASE Climb
  <2> DEFINE q == RemoveAt(RemoveAt(path, i), i - 1)
  <2>1. path' = q /\ path[i] = DotDot /\ i > 1
    BY <1>4 DEF Climb
  <2>2. i \in 2..Len(path)
    BY <1>1, <2>1
  <2>3. /\ q \in Seq(Whole)
        /\ Promise!Meaning(q) = Promise!Meaning(path)
        /\ ClimbsOut(q) => ClimbsOut(path)
    BY <1>1, <2>1, <2>2, Climbed
  <2> HIDE DEF q
  <2> QED
    BY <1>1, <2>1, <2>3 DEF StillMeant
<1>5. CASE ClimbAtRoot
  <2>1. path' = <<>> /\ Promise!Meaning(path) = <<>>
    BY <1>5, LeftAtRoot
  <2>2. <<>> \in Seq(Whole) /\ Len(<<>>) = 0
    OBVIOUS
  <2>3. ~ClimbsOut(<<>>)
    <3>1. 1..(Len(<<>>) - 1) = {}
      BY <2>2
    <3> QED
      BY <3>1, Zenon DEF ClimbsOut
  <2> QED
    BY <2>1, <2>2, <2>3, MeaningEmpty DEF StillMeant
<1> QED
  BY <1>2, <1>3, <1>4, <1>5

\* What is typed means the same when it has been parsed.
LEMMA BeginMeaning ==
  ASSUME NEW op \in Operations, NEW p \in Paths, ~ClimbsOut(Parsed(p)), Begin(op, p)
  PROVE  (CallIs /\ MeaningKept)'
<1>1. p \in Seq(Components)
  BY PathsAssumption
<1>2. Parsed(p) \in Seq(Whole) /\ Promise!Meaning(Parsed(p)) = Promise!Meaning(p)
  BY <1>1, ParsedMeaning DEF Whole
<1>3. pc' = "normalize" /\ path' = Parsed(p) /\ call' = [op |-> op, path |-> p]
  BY DEF Begin
<1>4. CallIs'
  BY <1>3 DEF CallIs
<1>5. call'.path = p
  BY <1>3
<1>6. MeaningKept'
  <2>1. Promise!Meaning(path') = Promise!Meaning(call'.path)
    BY <1>2, <1>3, <1>5
  <2>2. ~ClimbsOut(path')
    BY <1>3
  <2>3. path' \in Seq(Whole)
    BY <1>2, <1>3
  <2> QED
    BY <2>1, <2>2, <2>3 DEF MeaningKept
<1> QED
  BY <1>4, <1>6

\* A step of a call that does not return leaves the call as it was.
LEMMA ReturnMeaning ==
  ASSUME NEW result, Return(result)
  PROVE  (CallIs /\ MeaningKept)'
  BY DEF Return, CallIs, MeaningKept

\* Every other step returns, or leaves the path alone.
LEMMA WalkMeaning ==
  ASSUME MeaningInv, \/ EndNormalize \/ WalkDown \/ WalkFails \/ Adding \/ OpenDir \/ OpenFile
                     \/ \E d \in Data : FillFile(d)
  PROVE  (CallIs /\ MeaningKept)'
<1>1. CASE \E result : Return(result)
  BY <1>1, ReturnMeaning
<1>2. CASE \/ UNCHANGED <<call, path>> /\ pc' = "walk" /\ pc # "idle"
           \/ UNCHANGED <<pc, call, path>>
  BY <1>2 DEF MeaningInv, CallIs, MeaningKept
<1>3. EndNormalize => pc # "idle"
  BY DEF EndNormalize
<1> QED
  BY <1>1, <1>2, <1>3 DEF EndNormalize, WalkDown, WalkFails, Adding, Add, OpenDir, OpenFile, FillFile

\* No path has been asked for.
LEMMA InitMeaning == Init => MeaningInv
<1>1. Init => CallIs /\ MeaningKept
  BY DEF Init, CallIs, MeaningKept
<1> QED
  BY <1>1, InitNames DEF MeaningInv

\* The calls on paths that do not climb out of the root keep what they mean.
LEMMA StepMeaning == MeaningInv /\ [Next]_vars => MeaningInv'
<1> SUFFICES ASSUME MeaningInv, [Next]_vars
             PROVE  MeaningInv'
  OBVIOUS
<1>1. NamesInv'
  BY StepNames DEF MeaningInv, AnyPathNext
<1>2. CASE \E op \in Operations, p \in Paths : ~ClimbsOut(Parsed(p)) /\ Begin(op, p)
  BY <1>1, <1>2, BeginMeaning DEF MeaningInv
<1>3. CASE PassName \/ DropDot \/ Climb \/ ClimbAtRoot
  <2>1. UNCHANGED call /\ pc = "normalize" /\ pc' = "normalize"
    BY <1>3 DEF PassName, DropDot, Climb, ClimbAtRoot, Normalizing
  <2>2. StillMeant
    BY <1>3, NormalizeMeaning
  <2>3. CallIs'
    BY <2>1 DEF MeaningInv, CallIs
  <2>4. MeaningKept'
    BY <2>1, <2>2 DEF MeaningInv, MeaningKept, StillMeant
  <2> QED
    BY <1>1, <2>3, <2>4 DEF MeaningInv
<1>4. CASE \/ EndNormalize \/ WalkDown \/ WalkFails \/ Adding \/ OpenDir \/ OpenFile
           \/ \E d \in Data : FillFile(d)
  BY <1>1, <1>4, WalkMeaning DEF MeaningInv
<1>5. CASE UNCHANGED vars
  BY <1>1, <1>5 DEF vars, MeaningInv, CallIs, MeaningKept
<1>6. Add("mkdir", "dir") \/ Add("make file", "file") => Adding
  BY DEF Adding, Makes
<1> QED
  BY <1>2, <1>3, <1>4, <1>5, <1>6 DEF Next, CallStep

(* bootable_path_normalize, one name after the other: what is left of the    *)
(* path always leads where what was typed leads, and what the loop has       *)
(* passed is plain.                                                          *)
THEOREM NormalizingKeepsMeaning == Spec => []NormalizeKeepsMeaning
<1>1. MeaningInv => NormalizeKeepsMeaning
  BY DEF MeaningInv, NamesInv, TypeInv, LoopOK, Passed, MeaningKept, NormalizeKeepsMeaning
<1> QED
  BY <1>1, InitMeaning, StepMeaning, PTL DEF Spec

(* -- The paths of the nodes ------------------------------------------------------------ *)

\* A tree of nodes, as TypeOK and UniqueNames say it is.
IsTree(t) == /\ t \in Seq(NodeSet)
             /\ \A n \in DOMAIN t : /\ t[n].parent < n
                                    /\ t[n].parent # Root => t[t[n].parent].kind = "dir"
NoTwo(t) == \A n, m \in DOMAIN t :
              n # m => t[n].parent # t[m].parent \/ t[n].name # t[m].name

\* The path of every node: the function that PathOf defines.
PathsIn(t) == CHOOSE P : P = [n \in 0..Len(t) |-> IF n = Root THEN <<>>
                                                  ELSE Append(P[t[n].parent], t[n].name)]

\* PathOf is the paths of the nodes.
LEMMA PathOfIs == PathOf = PathsIn(nodes)
  BY DEF PathOf, PathsIn

\* The same after a step.
LEMMA PathOfIsNext == PathOf' = PathsIn(nodes')
  BY DEF PathOf, PathsIn

\* What is in a tree.
LEMMA TreeFacts ==
  ASSUME NEW t, IsTree(t)
  PROVE  /\ Len(t) \in Nat /\ DOMAIN t = 1..Len(t)
         /\ \A n \in 1..Len(t) : /\ t[n].parent \in 0..(n - 1) /\ t[n].parent \in 0..Len(t)
                                 /\ t[n].name \in Names \cup {Freed}
                                 /\ t[n].kind \in {"file", "dir"}
                                 /\ t[n].data \in Data \cup {NoData}
<1>1. t \in Seq(NodeSet)
  BY DEF IsTree
<1>2. Len(t) \in Nat /\ DOMAIN t = 1..Len(t)
  BY <1>1
<1>3. ASSUME NEW n \in 1..Len(t)
      PROVE  /\ t[n].parent \in 0..(n - 1) /\ t[n].parent \in 0..Len(t)
             /\ t[n].name \in Names \cup {Freed}
             /\ t[n].kind \in {"file", "dir"}
             /\ t[n].data \in Data \cup {NoData}
  <2>1. t[n] \in NodeSet
    BY <1>1, <1>2
  <2>2. t[n].parent \in 0..MaxNodes /\ t[n].name \in Names \cup {Freed}
        /\ t[n].kind \in {"file", "dir"} /\ t[n].data \in Data \cup {NoData}
    BY <2>1 DEF NodeSet
  <2>3. t[n].parent < n
    BY <1>2 DEF IsTree
  <2>4. t[n].parent \in 0..(n - 1) /\ t[n].parent \in 0..Len(t)
    BY <1>2, <2>2, <2>3, BoundAssumption
  <2> QED
    BY <2>2, <2>4
<1> QED
  BY <1>2, <1>3

\* Every node has a path: that of its directory, and its name.
LEMMA TreePaths ==
  ASSUME NEW t, IsTree(t)
  PROVE  /\ PathsIn(t) \in [0..Len(t) -> Seq(Names \cup {Freed})]
         /\ PathsIn(t)[0] = <<>>
         /\ \A n \in 1..Len(t) : PathsIn(t)[n] = Append(PathsIn(t)[t[n].parent], t[n].name)
<1> DEFINE N == Len(t)
           T == Seq(Names \cup {Freed})
           step == [a \in (1..N) \X T |-> Append(a[2], t[a[1]].name)]
           back == [n \in 1..N |-> t[n].parent]
<1>1. N \in Nat /\ <<>> \in T
  BY TreeFacts
<1>2. \A n \in 1..N : /\ t[n].parent \in 0..N /\ t[n].parent < n
                      /\ t[n].parent \in 0..(n - 1)
                      /\ t[n].name \in Names \cup {Freed}
  BY TreeFacts
<1>3. step \in [(1..N) \X T -> T]
  <2>1. ASSUME NEW n \in 1..N, NEW s \in T
        PROVE  Append(s, t[n].name) \in T
    <3>1. t[n].name \in Names \cup {Freed}
      BY <1>2
    <3> QED
      BY <3>1
  <2> HIDE DEF T
  <2> QED
    BY <2>1
<1>4. /\ back \in [1..N -> 0..N]
      /\ \A n \in 1..N : back[n] < n
      /\ \A n \in 1..N : back[n] = t[n].parent
  BY <1>2
<1>5. \A n \in 1..N, s \in T : step[<<n, s>>] = Append(s, t[n].name)
  OBVIOUS
<1> HIDE DEF N, T, step, back
<1>6. PICK f \in [0..N -> T] : f[0] = <<>> /\ \A n \in 1..N : f[n] = step[<<n, f[back[n]]>>]
  <2>1. WellFoundedDef(N, T, <<>>, step, back)
    BY <1>1, <1>3, <1>4 DEF WellFoundedDef
  <2>2. PICK f \in [0..N -> T] : Satisfies(f, N, <<>>, step, back)
    BY <2>1, Recursion
  <2> QED
    BY <2>2 DEF Satisfies
<1>7. \A n \in 1..N : f[n] = Append(f[t[n].parent], t[n].name)
  <2> SUFFICES ASSUME NEW n \in 1..N
               PROVE  f[n] = Append(f[t[n].parent], t[n].name)
    OBVIOUS
  <2>1. back[n] = t[n].parent /\ f[t[n].parent] \in T
    BY <1>2, <1>4
  <2> QED
    BY <1>5, <1>6, <2>1
<1> DEFINE Then(g, n) == Append(g[t[n].parent], t[n].name)
           Is(g) == g = [n \in 0..N |-> IF n = Root THEN <<>> ELSE Then(g, n)]
<1>8. Is(f)
  <2>1. \A n \in 0..N : f[n] = IF n = Root THEN <<>> ELSE Then(f, n)
    <3> SUFFICES ASSUME NEW n \in 0..N
                 PROVE  f[n] = IF n = Root THEN <<>> ELSE Then(f, n)
      OBVIOUS
    <3>1. CASE n = 0
      BY <1>6, <3>1 DEF Root
    <3>2. CASE n # 0
      <4>1. n \in 1..N
        BY <1>1, <3>2
      <4> QED
        BY <1>7, <3>2, <4>1 DEF Root
    <3> QED
      BY <3>1, <3>2
  <2> HIDE DEF Then
  <2> QED
    BY <2>1
<1>9. PathsIn(t) = CHOOSE g : Is(g)
  BY DEF PathsIn, N
<1> HIDE DEF Is, Then
<1>10. Is(PathsIn(t))
  BY <1>8, <1>9
<1>11. \A g : Is(g) => \A n \in 0..N : g[n] = f[n]
  <2> SUFFICES ASSUME NEW g, Is(g)
               PROVE  \A n \in 0..N : g[n] = f[n]
    OBVIOUS
  <2>1. ASSUME NEW n \in 0..N, \A m \in 0..(n - 1) : g[m] = f[m]
        PROVE  g[n] = f[n]
    <3>1. g[n] = IF n = Root THEN <<>> ELSE Then(g, n)
      BY Zenon DEF Is
    <3>2. CASE n = 0
      BY <1>6, <3>1, <3>2 DEF Root
    <3>3. CASE n # 0
      <4>1. n \in 1..N
        BY <1>1, <3>3
      <4>2. g[t[n].parent] = f[t[n].parent]
        BY <1>2, <2>1, <4>1
      <4>3. f[n] = Append(f[t[n].parent], t[n].name)
        BY <1>7, <4>1
      <4> QED
        BY <3>1, <3>3, <4>2, <4>3, Zenon DEF Root, Then
    <3> QED
      BY <3>2, <3>3
  <2>2. AgreeInTurn(g, f, N)
    BY <2>1 DEF AgreeInTurn
  <2> QED
    BY <1>1, <2>2, SameRecursion
<1>12. PathsIn(t) = f
  <2>1. DOMAIN PathsIn(t) = 0..N /\ PathsIn(t) = [n \in DOMAIN PathsIn(t) |-> PathsIn(t)[n]]
    BY <1>10 DEF Is
  <2>2. f = [n \in 0..N |-> f[n]]
    OBVIOUS
  <2> QED
    BY <1>10, <1>11, <2>1, <2>2
<1> QED
  BY <1>6, <1>7, <1>12 DEF N, T

\* What was appended, and to what.
LEMMA SameAppend ==
  ASSUME NEW C, NEW s \in Seq(C), NEW r \in Seq(C), NEW a, NEW b, Append(s, a) = Append(r, b)
  PROVE  s = r /\ a = b
<1>1. Len(Append(s, a)) = Len(s) + 1 /\ Len(Append(r, b)) = Len(r) + 1
  OBVIOUS
<1>2. Len(s) = Len(r)
  BY <1>1
<1>3. Append(s, a)[Len(s) + 1] = a /\ Append(r, b)[Len(r) + 1] = b
  OBVIOUS
<1>4. \A n \in 1..Len(s) : Append(s, a)[n] = s[n] /\ Append(r, b)[n] = r[n]
  BY <1>2
<1>5. s = r
  BY <1>2, <1>4
<1> QED
  BY <1>2, <1>3, <1>5

\* What has been appended to is not empty.
LEMMA AppendNotEmpty ==
  ASSUME NEW C, NEW s \in Seq(C), NEW a
  PROVE  Append(s, a) # <<>>
<1>1. Len(Append(s, a)) = Len(s) + 1 /\ Len(s) \in Nat
  OBVIOUS
<1>2. Len(Append(s, a)) # 0
  BY <1>1
<1>3. Len(<<>>) = 0
  OBVIOUS
<1> QED
  BY <1>2, <1>3, Zenon

\* The path of a node, of its directory, and its name.
LEMMA NodePath ==
  ASSUME NEW t, IsTree(t), NEW n \in 1..Len(t)
  PROVE  /\ PathsIn(t)[n] = Append(PathsIn(t)[t[n].parent], t[n].name)
         /\ PathsIn(t)[t[n].parent] \in Seq(Names \cup {Freed})
         /\ t[n].parent \in 0..(n - 1)
         /\ PathsIn(t)[n] \in Seq(Names \cup {Freed}) /\ PathsIn(t)[n] # <<>>
<1>1. t[n].parent \in 0..(n - 1) /\ t[n].parent \in 0..Len(t) /\ n \in 0..Len(t)
      /\ t[n].name \in Names \cup {Freed}
  BY TreeFacts
<1>2. PathsIn(t)[n] = Append(PathsIn(t)[t[n].parent], t[n].name)
  BY TreePaths
<1>3. /\ PathsIn(t)[t[n].parent] \in Seq(Names \cup {Freed})
      /\ PathsIn(t)[n] \in Seq(Names \cup {Freed})
  BY <1>1, TreePaths
<1>4. PathsIn(t)[n] # <<>>
  BY <1>2, <1>3, AppendNotEmpty, Zenon
<1> QED
  BY <1>1, <1>2, <1>3, <1>4

\* No two nodes have the same path.
LEMMA PathsDiffer ==
  ASSUME NEW t, IsTree(t), NoTwo(t)
  PROVE  \A n, m \in 0..Len(t) : PathsIn(t)[n] = PathsIn(t)[m] => n = m
<1> DEFINE N == Len(t)
           P == {n \in 0..N : \A m \in 0..N : PathsIn(t)[n] = PathsIn(t)[m] => n = m}
<1>1. N \in Nat
  BY TreeFacts
<1>2. ASSUME NEW n \in 0..N, \A m \in 0..(n - 1) : m \in P
      PROVE  n \in P
  <2> SUFFICES ASSUME NEW m \in 0..N, PathsIn(t)[n] = PathsIn(t)[m]
               PROVE  n = m
    OBVIOUS
  <2>1. CASE n = 0
    <3>1. m \notin 1..N
      BY <2>1, NodePath, TreePaths
    <3> QED
      BY <2>1, <3>1
  <2>2. CASE n # 0 /\ m = 0
    <3>1. n \in 1..N
      BY <2>2
    <3> QED
      BY <2>2, <3>1, NodePath, TreePaths
  <2>3. CASE n # 0 /\ m # 0
    <3>1. n \in 1..N /\ m \in 1..N
      BY <2>3
    <3>2. /\ PathsIn(t)[n] = Append(PathsIn(t)[t[n].parent], t[n].name)
          /\ PathsIn(t)[t[n].parent] \in Seq(Names \cup {Freed})
          /\ t[n].parent \in 0..(n - 1)
      BY <3>1, NodePath
    <3>3. /\ PathsIn(t)[m] = Append(PathsIn(t)[t[m].parent], t[m].name)
          /\ PathsIn(t)[t[m].parent] \in Seq(Names \cup {Freed})
          /\ t[m].parent \in 0..N
      BY <3>1, NodePath, TreeFacts
    <3>4. PathsIn(t)[t[n].parent] = PathsIn(t)[t[m].parent] /\ t[n].name = t[m].name
      <4>1. Append(PathsIn(t)[t[n].parent], t[n].name) = Append(PathsIn(t)[t[m].parent], t[m].name)
        BY <3>2, <3>3, Zenon
      <4>2. PICK s \in Seq(Names \cup {Freed}), r \in Seq(Names \cup {Freed}) :
              s = PathsIn(t)[t[n].parent] /\ r = PathsIn(t)[t[m].parent]
        BY <3>2, <3>3
      <4>3. PICK a, b : a = t[n].name /\ b = t[m].name
        OBVIOUS
      <4>4. Append(s, a) = Append(r, b)
        BY <4>1, <4>2, <4>3, Zenon
      <4>5. s = r /\ a = b
        BY <4>4, SameAppend
      <4> QED
        BY <4>2, <4>3, <4>5
    <3>5. t[n].parent = t[m].parent
      BY <1>2, <3>2, <3>3, <3>4
    <3> QED
      BY <3>1, <3>4, <3>5, TreeFacts DEF NoTwo
  <2> QED
    BY <2>1, <2>2, <2>3
<1> HIDE DEF P
<1>3. 0..N \subseteq P
  BY <1>1, <1>2, AllUpTo
<1> QED
  BY <1>3 DEF P

\* The nodes that stay in their directories under their names keep their paths.
LEMMA PathsKept ==
  ASSUME NEW t, NEW u, IsTree(t), IsTree(u), Len(t) <= Len(u),
         \A n \in 1..Len(t) : u[n].parent = t[n].parent /\ u[n].name = t[n].name
  PROVE  \A n \in 0..Len(t) : PathsIn(u)[n] = PathsIn(t)[n]
<1>1. Len(t) \in Nat /\ Len(u) \in Nat
  BY TreeFacts
<1>2. ASSUME NEW n \in 0..Len(t), \A m \in 0..(n - 1) : PathsIn(u)[m] = PathsIn(t)[m]
      PROVE  PathsIn(u)[n] = PathsIn(t)[n]
  <2>1. CASE n = 0
    BY <2>1, TreePaths
  <2>2. CASE n # 0
    <3>1. n \in 1..Len(t) /\ n \in 1..Len(u)
      BY <1>1, <2>2
    <3>2. /\ PathsIn(t)[n] = Append(PathsIn(t)[t[n].parent], t[n].name)
          /\ PathsIn(u)[n] = Append(PathsIn(u)[u[n].parent], u[n].name)
          /\ t[n].parent \in 0..(n - 1)
      BY <3>1, NodePath
    <3>3. PathsIn(u)[t[n].parent] = PathsIn(t)[t[n].parent]
      BY <1>2, <3>2
    <3>4. u[n].parent = t[n].parent /\ u[n].name = t[n].name
      BY <3>1
    <3> QED
      BY <3>2, <3>3, <3>4, Zenon
  <2> QED
    BY <2>1, <2>2
<1>3. AgreeInTurn(PathsIn(u), PathsIn(t), Len(t))
  BY <1>2 DEF AgreeInTurn
<1> QED
  BY <1>1, <1>3, SameRecursion

\* What leads to a node are directories.
LEMMA PrefixIsDir ==
  ASSUME NEW t, IsTree(t), NEW n \in 0..Len(t), NEW k \in 0..(Len(PathsIn(t)[n]) - 1)
  PROVE  \E m \in 0..Len(t) : /\ m = 0 \/ t[m].kind = "dir"
                              /\ PathsIn(t)[m] = SubSeq(PathsIn(t)[n], 1, k)
<1> DEFINE N == Len(t)
           Leads(a, j) == \E m \in 0..N : /\ m = 0 \/ t[m].kind = "dir"
                                          /\ PathsIn(t)[m] = SubSeq(PathsIn(t)[a], 1, j)
           P == {a \in 0..N : \A j \in 0..(Len(PathsIn(t)[a]) - 1) : Leads(a, j)}
<1>1. N \in Nat
  BY TreeFacts
<1>2. ASSUME NEW a \in 0..N, \A m \in 0..(a - 1) : m \in P
      PROVE  a \in P
  <2> SUFFICES ASSUME NEW j \in 0..(Len(PathsIn(t)[a]) - 1)
               PROVE  Leads(a, j)
    OBVIOUS
  <2>1. a # 0
    <3>1. Len(<<>>) = 0
      OBVIOUS
    <3>2. a = 0 => Len(PathsIn(t)[a]) = 0
      BY <3>1, TreePaths, Zenon
    <3> QED
      BY <3>2
  <2>2. a \in 1..N
    BY <2>1
  <2> DEFINE b == t[a].parent
             s == PathsIn(t)[b]
             x == t[a].name
  <2>3. PathsIn(t)[a] = Append(s, x) /\ s \in Seq(Names \cup {Freed}) /\ b \in 0..(a - 1)
    BY <2>2, NodePath
  <2>4. b \in 0..N /\ x \in Names \cup {Freed} /\ (b = 0 \/ t[b].kind = "dir")
    BY <2>2, TreeFacts DEF IsTree, Root
  <2>5. \A h \in 0..(Len(PathsIn(t)[b]) - 1) : Leads(b, h)
    BY <1>2, <2>3
  <2> HIDE DEF b, x
  <2>6. \A h \in 0..Len(s) : SubSeq(Append(s, x), 1, h) = SubSeq(s, 1, h)
    <3> HIDE DEF s
    <3> QED
      BY <2>3
  <2>7. Len(s) \in Nat /\ SubSeq(s, 1, Len(s)) = s /\ Len(Append(s, x)) = Len(s) + 1
    <3> HIDE DEF s
    <3> QED
      BY <2>3
  <2>8. j \in 0..Len(s)
    <3>1. Len(PathsIn(t)[a]) = Len(s) + 1
      BY <2>3, <2>7, Zenon
    <3> HIDE DEF s
    <3> QED
      BY <2>7, <3>1
  <2>9. SubSeq(PathsIn(t)[a], 1, j) = SubSeq(s, 1, j)
    BY <2>3, <2>6, <2>8, Zenon
  <2>10. CASE j = Len(s)
    <3>1. PathsIn(t)[b] = SubSeq(PathsIn(t)[a], 1, j)
      BY <2>7, <2>9, <2>10, Zenon
    <3> QED
      BY <2>4, <3>1
  <2>11. CASE j # Len(s)
    <3>1. j \in 0..(Len(PathsIn(t)[b]) - 1)
      BY <2>7, <2>8, <2>11
    <3>2. Leads(b, j)
      BY <2>5, <3>1
    <3> QED
      BY <2>9, <3>2
  <2> QED
    BY <2>10, <2>11
<1> HIDE DEF P
<1>3. 0..N \subseteq P
  BY <1>1, <1>2, AllUpTo
<1> QED
  BY <1>3 DEF P

(* -- The walk ---------------------------------------------------------------------------- *)

\* A call starts its walk at the root, and is where the names passed lead to.
WalkInv == MeaningInv /\ (pc # "walk" => dir = Root) /\ WalkedPath

\* The nodes are a tree without two nodes of one path.
LEMMA TreeIs ==
  ASSUME NamesInv
  PROVE  IsTree(nodes) /\ NoTwo(nodes)
  BY DEF NamesInv, UniqueNames, TypeInv, TreeOK, Grown, IsTree, NoTwo

\* Where the walk has come to is the root or a directory.
LEMMA DirIs ==
  ASSUME NamesInv
  PROVE  dir \in 0..Len(nodes) /\ (dir = 0 \/ nodes[dir].kind = "dir")
<1>1. Len(nodes) \in Nat /\ DOMAIN nodes = 1..Len(nodes)
  BY TreeIs, TreeFacts
<1>2. dir = 0 \/ (dir \in DOMAIN nodes /\ nodes[dir].kind = "dir")
  BY DEF NamesInv, TypeInv, IsDirNode, Root
<1> QED
  BY <1>1, <1>2

\* A prefix of a path, with the next name.
LEMMA NextPrefix ==
  ASSUME NEW C, NEW p \in Seq(C), NEW n \in 1..Len(p)
  PROVE  SubSeq(p, 1, n) = Append(SubSeq(p, 1, n - 1), p[n])
  OBVIOUS

\* In a walk the path is what is meant, and the index is in it.
LEMMA WhileWalking ==
  ASSUME MeaningInv, pc = "walk"
  PROVE  /\ path \in Seq(Whole) /\ Len(path) \in Nat /\ i \in 1..(Len(path) + 1)
         /\ Promise!Meaning(call.path) = path
         /\ call \in [op : Operations, path : Paths]
<1>1. path \in Seq(Whole) /\ Promise!Meaning(path) = Promise!Meaning(call.path)
  BY DEF MeaningInv, MeaningKept
<1>2. Len(path) \in Nat /\ i \in 1..(Len(path) + 1)
  BY IndexType DEF MeaningInv, NamesInv
<1>3. \A j \in 1..Len(path) : Plain(path[j])
  <2>1. \A j \in 1..Len(path) : path[j] \notin {Dot, DotDot}
    BY DEF MeaningInv, NamesInv, TypeInv, LoopOK, Passed
  <2>2. \A j \in 1..Len(path) : path[j] \in Whole
    BY <1>1
  <2> QED
    BY <2>1, <2>2 DEF Plain, Whole
<1>4. Promise!Meaning(path) = path
  BY <1>1, <1>3, PlainMeaning
<1>5. call \in [op : Operations, path : Paths]
  BY DEF MeaningInv, CallIs
<1> QED
  BY <1>1, <1>2, <1>4, <1>5

\* One step down is one name further.
LEMMA WalkedDown ==
  ASSUME WalkInv, WalkDown
  PROVE  PathOf[dir'] = SubSeq(path, 1, i) /\ i \in 1..Len(path)
<1>1. pc = "walk" /\ i <= Steps
  BY DEF WalkDown
<1>2. path \in Seq(Whole) /\ Len(path) \in Nat /\ i \in 1..(Len(path) + 1)
  BY <1>1, WhileWalking DEF WalkInv
<1>3. i \in 1..Len(path)
  <2>1. Steps = Len(path) \/ Steps = Len(path) - 1
    BY LastStep
  <2> QED
    BY <1>1, <1>2, <2>1
<1>4. IsTree(nodes)
  BY TreeIs DEF WalkInv, MeaningInv
<1>5. dir' \in DOMAIN nodes /\ nodes[dir'].parent = dir /\ nodes[dir'].name = path[i]
  BY WalkDownTo DEF WalkInv, MeaningInv, NamesInv
<1>6. PathOf[dir'] = Append(PathOf[dir], path[i])
  <2>1. dir' \in 1..Len(nodes)
    BY <1>4, <1>5, TreeFacts
  <2> QED
    BY <1>4, <1>5, <2>1, NodePath, PathOfIs
<1>7. PathOf[dir] = SubSeq(path, 1, i - 1)
  BY <1>1 DEF WalkInv, WalkedPath
<1> QED
  BY <1>2, <1>3, <1>6, <1>7, NextPrefix

\* No walk has begun.
LEMMA InitWalk == Init => WalkInv
<1>1. Init => (pc # "walk" => dir = Root) /\ WalkedPath
  BY DEF Init, WalkedPath
<1> QED
  BY <1>1, InitMeaning DEF WalkInv

\* Every step of a call leaves the walk where the names passed lead to.
LEMMA StepWalk == WalkInv /\ [Next]_vars => WalkInv'
<1> SUFFICES ASSUME WalkInv, [Next]_vars
             PROVE  WalkInv'
  OBVIOUS
<1>1. MeaningInv'
  BY StepMeaning DEF WalkInv
<1>2. CASE pc' # "walk" /\ dir' = Root
  BY <1>1, <1>2 DEF WalkInv, WalkedPath
<1>3. CASE UNCHANGED <<nodes, pc, path, i, dir>>
  <2>1. PathOf' = PathOf
    BY <1>3, PathOfIs, PathOfIsNext
  <2> QED
    BY <1>1, <1>3, <2>1 DEF WalkInv, WalkedPath
<1>4. CASE pc = "normalize" /\ pc' = "walk" /\ i' = 1 /\ UNCHANGED <<nodes, path, dir>>
  <2>1. PathOf'[dir'] = <<>>
    <3>1. PathsIn(nodes)[0] = <<>>
      BY TreeIs, TreePaths DEF WalkInv, MeaningInv
    <3>2. dir' = 0 /\ nodes' = nodes
      BY <1>4 DEF WalkInv, Root
    <3> QED
      BY <3>1, <3>2, PathOfIsNext
  <2>2. SubSeq(path', 1, i' - 1) = <<>>
    <3>1. path \in Seq(Whole)
      BY <1>4 DEF WalkInv, MeaningInv, MeaningKept
    <3>2. SubSeq(path, 1, 1 - 1) = <<>>
      BY <3>1
    <3> QED
      BY <1>4, <3>2
  <2> QED
    BY <1>1, <1>4, <2>1, <2>2 DEF WalkInv, WalkedPath
<1>5. CASE WalkDown
  <2>1. pc = "walk" /\ i' = i + 1 /\ UNCHANGED <<nodes, pc, path>>
    BY <1>5 DEF WalkDown
  <2>2. PathOf[dir'] = SubSeq(path, 1, i) /\ i \in 1..Len(path)
    BY <1>5, WalkedDown
  <2>3. i' - 1 = i
    BY <2>1, <2>2
  <2>4. PathOf' = PathOf
    BY <2>1, PathOfIs, PathOfIsNext
  <2>5. WalkedPath'
    BY <2>1, <2>2, <2>3, <2>4 DEF WalkedPath
  <2> QED
    BY <1>1, <2>1, <2>5 DEF WalkInv
<1>6. CASE \E d \in Data : FillFile(d)
  BY <1>1, <1>6 DEF FillFile, WalkInv, WalkedPath
<1>7. CASE \E result : Return(result)
  BY <1>2, <1>7 DEF Return
<1>8. CASE \E op \in Operations, p \in Paths : Begin(op, p)
  BY <1>2, <1>8 DEF Begin
<1>9. CASE PassName \/ DropDot \/ Climb \/ ClimbAtRoot
  <2>1. pc = "normalize" /\ pc' = "normalize" /\ dir' = dir
    BY <1>9 DEF PassName, DropDot, Climb, ClimbAtRoot, Normalizing
  <2> QED
    BY <1>2, <2>1 DEF WalkInv
<1>10. EndNormalize => pc = "normalize"
  BY DEF EndNormalize
<1> QED
  BY <1>3, <1>4, <1>5, <1>6, <1>7, <1>8, <1>9, <1>10
     DEF Next, CallStep, vars, EndNormalize, WalkFails, Add, OpenDir, OpenFile

(* The loops of fs.c over the names of a path: the directory they have come  *)
(* to is the one that the names passed so far lead to.                       *)
THEOREM WalkLeadsRight == Spec => []WalkedPath
<1>1. WalkInv => WalkedPath
  BY DEF WalkInv
<1> QED
  BY <1>1, InitWalk, StepWalk, PTL DEF Spec

(* -- What the tree stands for --------------------------------------------------------------- *)

\* The contents that the tree stands for, and the answer that a call has given.
ContentIn(t, p) == IF p = <<>> THEN "directory"
                   ELSE LET n == FirstOf({m \in DOMAIN t : PathsIn(t)[m] = p})
                        IN IF t[n].kind = "dir" THEN "directory" ELSE t[n].data
ContentsIn(t) == [p \in {PathsIn(t)[n] : n \in 0..Len(t)} |-> ContentIn(t, p)]
Contents == [p \in {PathOf[n] : n \in 0..Len(nodes)} |-> Content(p)]
AnswerIs == [says |-> ret.says, place |-> PathOf[ret.node]]
AnswerWord(word) == [says |-> word, place |-> <<>>]
Holds(p) == p \in DOMAIN Contents
HoldsDir(p) == Holds(p) /\ Contents[p] = "directory"
HoldsFile(p) == Holds(p) /\ Contents[p] # "directory"

\* What a node is, for the promise.
Value(t, n) == IF n = 0 THEN "directory"
               ELSE IF t[n].kind = "dir" THEN "directory" ELSE t[n].data

\* They are those of the nodes, before a step and after it.
LEMMA ContentsIs == Contents = ContentsIn(nodes)
  BY PathOfIs DEF Contents, ContentsIn, ContentIn, Content

\* The same after a step.
LEMMA ContentsIsNext == Contents' = ContentsIn(nodes')
  BY PathOfIsNext DEF Contents, ContentsIn, ContentIn, Content

\* The contents hold every node at its path, and no more.
LEMMA ContentsAre ==
  ASSUME NEW t, IsTree(t), NoTwo(t)
  PROVE  /\ DOMAIN ContentsIn(t) = {PathsIn(t)[n] : n \in 0..Len(t)}
         /\ \A n \in 0..Len(t) : ContentsIn(t)[PathsIn(t)[n]] = Value(t, n)
<1>1. Len(t) \in Nat /\ DOMAIN t = 1..Len(t)
  BY TreeFacts
<1>2. DOMAIN ContentsIn(t) = {PathsIn(t)[n] : n \in 0..Len(t)}
  BY DEF ContentsIn
<1>3. ASSUME NEW n \in 0..Len(t)
      PROVE  ContentsIn(t)[PathsIn(t)[n]] = Value(t, n)
  <2>1. ContentsIn(t)[PathsIn(t)[n]] = ContentIn(t, PathsIn(t)[n])
    BY DEF ContentsIn
  <2>2. CASE n = 0
    BY <2>1, <2>2, TreePaths DEF ContentIn, Value
  <2>3. CASE n # 0
    <3>1. n \in 1..Len(t)
      BY <1>1, <2>3
    <3>2. PathsIn(t)[n] # <<>>
      BY <3>1, NodePath
    <3> DEFINE S == {m \in DOMAIN t : PathsIn(t)[m] = PathsIn(t)[n]}
    <3>3. S = {n}
      <4>1. \A m \in 1..Len(t) : PathsIn(t)[m] = PathsIn(t)[n] => m = n
        <5>1. \A m \in 1..Len(t) : m \in 0..Len(t)
          OBVIOUS
        <5> QED
          BY <5>1, PathsDiffer
      <4> QED
        BY <1>1, <3>1, <4>1
    <3>4. FirstOf(S) = n
      <4>1. n \in Nat /\ {n} \in SUBSET Nat /\ {n} # {}
        BY <3>1
      <4>2. FirstOf({n}) \in {n}
        BY <4>1, FirstIsOne
      <4> QED
        BY <3>3, <4>2
    <3>5. ContentIn(t, PathsIn(t)[n]) = IF t[n].kind = "dir" THEN "directory" ELSE t[n].data
      BY <3>2, <3>4, Zenon DEF ContentIn
    <3> QED
      BY <2>1, <2>3, <3>5, Zenon DEF Value
  <2> QED
    BY <2>2, <2>3
<1> QED
  BY <1>2, <1>3

\* A path is held as a directory if a directory has it, and as a file if a file has.
LEMMA HeldAs ==
  ASSUME NamesInv, NEW n \in 0..Len(nodes)
  PROVE  /\ Holds(PathsIn(nodes)[n])
         /\ HoldsDir(PathsIn(nodes)[n]) <=> (n = 0 \/ nodes[n].kind = "dir")
         /\ HoldsFile(PathsIn(nodes)[n]) <=> (n # 0 /\ nodes[n].kind = "file")
<1>1. Holds(PathsIn(nodes)[n]) /\ Contents[PathsIn(nodes)[n]] = Value(nodes, n)
  BY TreeIs, ContentsAre, ContentsIs DEF Holds
<1>2. n # 0 => n \in 1..Len(nodes)
  BY TreeIs, TreeFacts
<1>3. n # 0 => nodes[n].kind \in {"file", "dir"} /\ nodes[n].data \in Data \cup {NoData}
  BY <1>2, TreeIs, TreeFacts
<1>4. Value(nodes, n) = "directory" <=> (n = 0 \/ nodes[n].kind = "dir")
  BY <1>3, DataAssumption DEF Value
<1>5. ~(n = 0 \/ nodes[n].kind = "dir") <=> (n # 0 /\ nodes[n].kind = "file")
  BY <1>3
<1> QED
  BY <1>1, <1>4, <1>5 DEF HoldsDir, HoldsFile

\* What is held is the path of a node.
LEMMA HeldBy ==
  ASSUME NamesInv, NEW p, Holds(p)
  PROVE  \E n \in 0..Len(nodes) : p = PathsIn(nodes)[n]
<1>1. DOMAIN Contents = {PathsIn(nodes)[n] : n \in 0..Len(nodes)}
  BY TreeIs, ContentsAre, ContentsIs
<1> QED
  BY <1>1 DEF Holds

(* -- The steps of the promise ------------------------------------------------------------------ *)

\* The promise is about these.
LEMMA PromiseIs ==
  /\ \A p : Promise!IsDir(p) <=> HoldsDir(p)
  /\ \A p : Promise!IsFile(p) <=> HoldsFile(p)
  /\ Promise!Place = Promise!Meaning(call.path)
  BY DEF Promise!IsDir, Promise!IsFile, Promise!Dir, Promise!Place, HoldsDir, HoldsFile, Holds, Contents

\* A request is made of a promise that has none.
LEMMA PromiseAsk ==
  ASSUME NEW op \in Operations, NEW p \in Paths,
         call = NoCall, call' = [op |-> op, path |-> p],
         AnswerIs' = AnswerWord("none"), Contents' = Contents
  PROVE  Promise!NsNext
<1>1. Promise!Ask(op, p)
  BY DEF Promise!Ask, Promise!NoRequest, NoCall, AnswerIs, AnswerWord, Promise!Answer, Promise!Root,
     Contents
<1> QED
  BY <1>1 DEF Promise!NsNext, Operations, Promise!Operations

\* Nothing is made.
Refuses(word) == /\ call' = NoCall /\ AnswerIs' = AnswerWord(word) /\ Contents' = Contents
Meant == Promise!Meaning(call.path)

\* A request to make what cannot be made is refused.
LEMMA PromiseRefuse ==
  ASSUME NEW op, NEW value, call.op = op,
         (op = "mkdir" /\ value = "directory") \/ (op = "make file" /\ value = NoData),
         \/ Meant = <<>> /\ Refuses("EINVAL")
         \/ Meant # <<>> /\ ~HoldsDir(Promise!Front(Meant)) /\ Refuses("ENOENT")
         \/ Meant # <<>> /\ HoldsDir(Promise!Front(Meant)) /\ Holds(Meant) /\ Refuses("EEXIST")
  PROVE  Promise!NsNext
<1>1. Promise!Make(op, value)
  BY PromiseIs
     DEF Promise!Make, Promise!NoRequest, NoCall, AnswerIs, AnswerWord, Promise!Answer, Promise!Root,
     Contents, Refuses, Meant, Holds
<1> QED
  BY <1>1 DEF Promise!NsNext, Promise!Dir

\* Whichever of the two it is.
LEMMA RefusesToMake ==
  ASSUME call.op \in Makes,
         \/ Meant = <<>> /\ Refuses("EINVAL")
         \/ Meant # <<>> /\ ~HoldsDir(Promise!Front(Meant)) /\ Refuses("ENOENT")
         \/ Meant # <<>> /\ HoldsDir(Promise!Front(Meant)) /\ Holds(Meant) /\ Refuses("EEXIST")
  PROVE  Promise!NsNext
<1>1. CASE call.op = "mkdir"
  <2>1. PICK op, value : call.op = op /\ op = "mkdir" /\ value = "directory"
    BY <1>1
  <2> QED
    BY <2>1, PromiseRefuse
<1>2. CASE call.op = "make file"
  <2>1. PICK op, value : call.op = op /\ op = "make file" /\ value = NoData
    BY <1>2
  <2> QED
    BY <2>1, PromiseRefuse
<1> QED
  BY <1>1, <1>2 DEF Makes

\* A request to make what can be made makes it.
LEMMA PromiseMake ==
  ASSUME NEW op, NEW value, call.op = op,
         (op = "mkdir" /\ value = "directory") \/ (op = "make file" /\ value = NoData),
         Meant # <<>>, HoldsDir(Promise!Front(Meant)), ~Holds(Meant),
         call' = NoCall, AnswerIs' = AnswerWord("ok"),
         Contents' = [p \in DOMAIN Contents \cup {Meant} |-> IF p = Meant THEN value ELSE Contents[p]]
  PROVE  Promise!NsNext
<1>1. Promise!Make(op, value)
  BY PromiseIs
     DEF Promise!Make, Promise!NoRequest, NoCall, AnswerIs, AnswerWord, Promise!Answer, Promise!Root,
     Contents, Meant, Holds
<1> QED
  BY <1>1 DEF Promise!NsNext, Promise!Dir

\* A request to open finds what the path means, or nothing.
LEMMA PromiseOpen ==
  ASSUME \/ call.op = "open dir" /\ HoldsDir(Meant) /\ AnswerIs' = [says |-> "opened", place |-> Meant]
         \/ call.op = "open dir" /\ ~HoldsDir(Meant) /\ AnswerIs' = AnswerWord("not found")
         \/ call.op = "open file" /\ HoldsFile(Meant) /\ AnswerIs' = [says |-> "opened", place |-> Meant]
         \/ call.op = "open file" /\ ~HoldsFile(Meant) /\ AnswerIs' = AnswerWord("not found"),
         call' = NoCall, Contents' = Contents
  PROVE  Promise!NsNext
<1>1. \/ Promise!Open("open dir", Promise!IsDir(Promise!Place))
      \/ Promise!Open("open file", Promise!IsFile(Promise!Place))
  BY PromiseIs
     DEF Promise!Open, Promise!NoRequest, NoCall, AnswerIs, AnswerWord, Promise!Answer, Promise!Opened,
     Promise!Root, Contents, Meant
<1> QED
  BY <1>1 DEF Promise!NsNext

\* A file that has been opened is filled.
LEMMA PromiseFill ==
  ASSUME NEW place, NEW d \in Data, HoldsFile(place),
         AnswerIs = [says |-> "opened", place |-> place],
         Contents' = [Contents EXCEPT ![place] = d],
         AnswerIs' = AnswerWord("ok"), call' = call
  PROVE  Promise!NsNext
<1>1. Promise!IsFile(place) /\ place \in DOMAIN Contents
  BY PromiseIs DEF HoldsFile, Holds
<1>2. Promise!Fill
  BY <1>1
     DEF Promise!Fill, AnswerIs, AnswerWord, Promise!Answer, Promise!Opened, Promise!Root, Contents
<1> QED
  BY <1>2 DEF Promise!NsNext

(* -- Every step of the tree is one of the promise ------------------------------------------------ *)

\* After a step the nodes are a tree, too.
LEMMA TreeIsNext ==
  ASSUME NamesInv'
  PROVE  IsTree(nodes') /\ NoTwo(nodes')
  BY DEF NamesInv, UniqueNames, TypeInv, TreeOK, Grown, IsTree, NoTwo

\* The same nodes stand for the same contents.
LEMMA SameContents ==
  ASSUME UNCHANGED nodes
  PROVE  Contents' = Contents /\ PathOf' = PathOf
  BY PathOfIs, PathOfIsNext, ContentsIs, ContentsIsNext

\* What a call that returns a word answers.
LEMMA WordAnswer ==
  ASSUME NamesInv', NEW word, Return(Returned(word))
  PROVE  call' = NoCall /\ AnswerIs' = AnswerWord(word)
<1>1. call' = NoCall /\ ret' = Returned(word)
  BY DEF Return
<1>2. ret'.says = word /\ ret'.node = 0
  BY <1>1 DEF Returned, Root
<1>3. PathOf'[0] = <<>>
  BY TreeIsNext, TreePaths, PathOfIsNext
<1> QED
  BY <1>1, <1>2, <1>3 DEF AnswerIs, AnswerWord

\* What a call that returns a node answers.
LEMMA NodeAnswer ==
  ASSUME UNCHANGED nodes, NEW n, Return(Found(n))
  PROVE  call' = NoCall /\ AnswerIs' = [says |-> "opened", place |-> PathOf[n]]
<1>1. call' = NoCall /\ ret' = Found(n)
  BY DEF Return
<1>2. ret'.says = "opened" /\ ret'.node = n
  BY <1>1 DEF Found
<1> QED
  BY <1>1, <1>2, SameContents DEF AnswerIs

\* A step that does neither is none of the promise.
LEMMA Stutters ==
  ASSUME UNCHANGED <<nodes, call, ret>>
  PROVE  UNCHANGED <<Contents, call, AnswerIs>>
  BY SameContents DEF AnswerIs

\* A prefix of a path of a node that the walk does not find is no directory.
LEMMA NotThere ==
  ASSUME WalkInv, WalkFails
  PROVE  /\ i \in 1..Len(path)
         /\ \A m \in 0..Len(nodes) : (m = 0 \/ nodes[m].kind = "dir")
                                        => PathsIn(nodes)[m] # SubSeq(path, 1, i)
<1>1. pc = "walk" /\ i <= Steps /\ Subdirs = {}
  BY DEF WalkFails
<1>2. path \in Seq(Whole) /\ Len(path) \in Nat /\ i \in 1..(Len(path) + 1)
  BY <1>1, WhileWalking DEF WalkInv
<1>3. i \in 1..Len(path)
  <2>1. Steps = Len(path) \/ Steps = Len(path) - 1
    BY LastStep
  <2> QED
    BY <1>1, <1>2, <2>1
<1> DEFINE s == SubSeq(path, 1, i - 1)
           C == Whole \cup Names \cup {Freed}
<1>4. SubSeq(path, 1, i) = Append(s, path[i]) /\ s \in Seq(C)
  <2>1. s \in Seq(Whole)
    BY <1>2, <1>3
  <2>2. s \in Seq(C)
    <3> HIDE DEF s
    <3> QED
      BY <2>1
  <2> QED
    BY <1>2, <1>3, <2>2, NextPrefix
<1>5. PathsIn(nodes)[dir] = s /\ dir \in 0..Len(nodes)
  BY <1>1, DirIs, PathOfIs DEF WalkInv, WalkedPath, MeaningInv
<1>6. IsTree(nodes) /\ NoTwo(nodes)
  BY TreeIs DEF WalkInv, MeaningInv
<1> HIDE DEF s, C
<1>7. ASSUME NEW m \in 0..Len(nodes), m = 0 \/ nodes[m].kind = "dir",
             PathsIn(nodes)[m] = SubSeq(path, 1, i)
      PROVE  FALSE
  <2>1. CASE m = 0
    <3>1. PathsIn(nodes)[0] = <<>>
      BY <1>6, TreePaths
    <3> QED
      BY <1>4, <1>7, <2>1, <3>1, AppendNotEmpty
  <2>2. CASE m # 0
    <3>1. m \in 1..Len(nodes) /\ nodes[m].parent \in 0..Len(nodes) /\ DOMAIN nodes = 1..Len(nodes)
      <4>1. m \in 1..Len(nodes)
        BY <1>6, <2>2, TreeFacts
      <4> QED
        BY <1>6, <4>1, TreeFacts
    <3> DEFINE r == PathsIn(nodes)[nodes[m].parent]
               x == nodes[m].name
    <3>2. PathsIn(nodes)[m] = Append(r, x) /\ r \in Seq(Names \cup {Freed})
      BY <1>6, <3>1, NodePath
    <3> HIDE DEF r, x
    <3>3. r \in Seq(C)
      BY <3>2 DEF C
    <3>4. Append(r, x) = Append(s, path[i])
      BY <1>4, <1>7, <3>2
    <3>5. r = s /\ x = path[i]
      <4>1. PICK y : y = path[i]
        OBVIOUS
      <4>2. s \in Seq(C) /\ Append(r, x) = Append(s, y)
        BY <1>4, <3>4, <4>1
      <4> QED
        BY <3>3, <4>1, <4>2, SameAppend
    <3>6. nodes[m].parent = dir
      BY <1>5, <1>6, <3>1, <3>5, PathsDiffer DEF r
    <3>7. m \in Subdirs
      BY <1>7, <2>2, <3>1, <3>5, <3>6 DEF x, Subdirs, Named, Children
    <3> QED
      BY <1>1, <3>7
  <2> QED
    BY <2>1, <2>2
<1> QED
  BY <1>3, <1>7

\* What the walk fails to come to is not held.
LEMMA FailedPrefix ==
  ASSUME WalkInv, WalkFails, NEW k \in i..Len(path)
  PROVE  ~HoldsDir(SubSeq(path, 1, k)) /\ (k # i => ~Holds(SubSeq(path, 1, k)))
<1>1. path \in Seq(Whole) /\ Len(path) \in Nat /\ i \in 1..Len(path)
  BY NotThere, WhileWalking DEF WalkInv, WalkFails
<1>2. NamesInv /\ IsTree(nodes)
  BY TreeIs DEF WalkInv, MeaningInv
<1> DEFINE q == SubSeq(path, 1, k)
<1>3. q \in Seq(Whole) /\ Len(q) = k /\ SubSeq(q, 1, i) = SubSeq(path, 1, i) /\ k \in Nat
  BY <1>1
<1> HIDE DEF q
<1>4. ASSUME NEW n \in 0..Len(nodes), q = PathsIn(nodes)[n], k # i
      PROVE  FALSE
  <2>1. i \in 0..(Len(PathsIn(nodes)[n]) - 1)
    <3>1. Len(PathsIn(nodes)[n]) = k
      BY <1>3, <1>4
    <3> QED
      BY <1>1, <1>4, <3>1
  <2>2. \E m \in 0..Len(nodes) : /\ m = 0 \/ nodes[m].kind = "dir"
                                 /\ PathsIn(nodes)[m] = SubSeq(PathsIn(nodes)[n], 1, i)
    BY <1>2, <2>1, PrefixIsDir
  <2>3. SubSeq(PathsIn(nodes)[n], 1, i) = SubSeq(path, 1, i)
    BY <1>3, <1>4, Zenon
  <2> QED
    BY <2>2, <2>3, NotThere
<1>5. k # i => ~Holds(q)
  BY <1>2, <1>4, HeldBy
<1>6. k = i => ~HoldsDir(q)
  <2> SUFFICES ASSUME k = i, HoldsDir(q)
               PROVE  FALSE
    OBVIOUS
  <2>1. PICK n \in 0..Len(nodes) : q = PathsIn(nodes)[n]
    BY <1>2, HeldBy DEF HoldsDir
  <2>2. n = 0 \/ nodes[n].kind = "dir"
    BY <1>2, <2>1, HeldAs
  <2> QED
    BY <2>1, <2>2, NotThere DEF q
<1>7. HoldsDir(q) => Holds(q)
  BY DEF HoldsDir
<1> QED
  BY <1>5, <1>6, <1>7 DEF q

\* What a call says of itself and of what is there, in its walk.
LEMMA WalkingFacts ==
  ASSUME WalkInv, pc = "walk"
  PROVE  /\ path \in Seq(Whole) /\ Len(path) \in Nat /\ i \in 1..(Len(path) + 1)
         /\ Meant = path /\ call.op \in Operations
         /\ NamesInv /\ IsTree(nodes) /\ NoTwo(nodes) /\ DOMAIN nodes = 1..Len(nodes)
         /\ PathsIn(nodes)[dir] = SubSeq(path, 1, i - 1) /\ dir \in 0..Len(nodes)
         /\ dir = 0 \/ nodes[dir].kind = "dir"
<1>1. NamesInv
  BY DEF WalkInv, MeaningInv
<1>2. IsTree(nodes) /\ NoTwo(nodes)
  BY <1>1, TreeIs
<1>3. DOMAIN nodes = 1..Len(nodes)
  BY <1>2, TreeFacts
<1>4. PathsIn(nodes)[dir] = SubSeq(path, 1, i - 1)
  BY PathOfIs DEF WalkInv, WalkedPath
<1>5. dir \in 0..Len(nodes) /\ (dir = 0 \/ nodes[dir].kind = "dir")
  BY <1>1, DirIs
<1>6. path \in Seq(Whole) /\ Len(path) \in Nat /\ i \in 1..(Len(path) + 1)
  BY WhileWalking DEF WalkInv
<1>7. Meant = path
  BY WhileWalking DEF WalkInv, Meant
<1>8. call.op \in Operations
  <2>1. call \in [op : Operations, path : Paths]
    BY WhileWalking DEF WalkInv
  <2> QED
    BY <2>1
<1> QED
  BY <1>1, <1>2, <1>3, <1>4, <1>5, <1>6, <1>7, <1>8

\* The directory of what a path names.
LEMMA FrontIs ==
  ASSUME NEW C, NEW p \in Seq(C), p # <<>>
  PROVE  /\ Promise!Front(p) = SubSeq(p, 1, Len(p) - 1) /\ Len(p) \in 1..Len(p)
         /\ p = SubSeq(p, 1, Len(p)) /\ p = Append(SubSeq(p, 1, Len(p) - 1), p[Len(p)])
<1>1. Promise!Front(p) = SubSeq(p, 1, Len(p) - 1)
  BY DEF Promise!Front
<1>2. Len(p) \in 1..Len(p)
  <2>1. Len(p) \in Nat /\ Len(p) # 0
    OBVIOUS
  <2> QED
    BY <2>1
<1>3. p = SubSeq(p, 1, Len(p))
  OBVIOUS
<1>4. SubSeq(p, 1, Len(p)) = Append(SubSeq(p, 1, Len(p) - 1), p[Len(p)])
  BY <1>2, NextPrefix
<1> QED
  BY <1>1, <1>2, <1>3, <1>4, Zenon

\* Begin is a request.
LEMMA BeginStep ==
  ASSUME WalkInv, NEW op \in Operations, NEW p \in Paths, Begin(op, p)
  PROVE  Promise!NsNext
<1>1. call' = [op |-> op, path |-> p] /\ ret' = Returned("none") /\ UNCHANGED nodes /\ pc = "idle"
  BY DEF Begin
<1>2. call = NoCall
  BY <1>1 DEF WalkInv, MeaningInv, CallIs
<1>3. ret'.says = "none" /\ ret'.node = 0
  BY <1>1 DEF Returned, Root
<1>4. PathOf'[0] = <<>>
  <2>1. PathsIn(nodes)[0] = <<>>
    BY TreeIs, TreePaths DEF WalkInv, MeaningInv
  <2> QED
    BY <1>1, <2>1, SameContents, PathOfIs
<1>5. AnswerIs' = AnswerWord("none")
  BY <1>3, <1>4 DEF AnswerIs, AnswerWord
<1> QED
  BY <1>1, <1>2, <1>5, SameContents, PromiseAsk

\* A path of no names, which only ls can follow.
LEMMA EndStep ==
  ASSUME WalkInv, NamesInv', EndNormalize
  PROVE  Promise!NsNext \/ UNCHANGED <<Contents, call, AnswerIs>>
<1>1. pc = "normalize" /\ UNCHANGED nodes
  BY DEF EndNormalize
<1>2. CASE UNCHANGED <<call, ret>>
  BY <1>1, <1>2, Stutters
<1>3. CASE path = <<>> /\ call.op # "open dir"
           /\ Return(Returned(IF call.op = "open file" THEN "not found" ELSE "EINVAL"))
  <2>1. Meant = <<>>
    BY <1>1, <1>3, MeaningEmpty DEF WalkInv, MeaningInv, MeaningKept, Meant
  <2>2. call.op \in Operations
    <3>1. call \in [op : Operations, path : Paths]
      BY <1>1 DEF WalkInv, MeaningInv, CallIs
    <3> QED
      BY <3>1
  <2>3. Contents' = Contents
    BY <1>1, SameContents
  <2>4. CASE call.op = "open file"
    <3>1. call' = NoCall /\ AnswerIs' = AnswerWord("not found")
      BY <1>3, <2>4, WordAnswer
    <3>2. ~HoldsFile(Meant)
      <4>1. PathsIn(nodes)[0] = <<>> /\ 0 \in 0..Len(nodes)
        BY TreeIs, TreePaths, TreeFacts DEF WalkInv, MeaningInv
      <4> QED
        BY <2>1, <4>1, HeldAs DEF WalkInv, MeaningInv
    <3> QED
      BY <2>3, <2>4, <3>1, <3>2, PromiseOpen
  <2>5. CASE call.op # "open file"
    <3>1. Refuses("EINVAL")
      BY <1>3, <2>3, <2>5, WordAnswer DEF Refuses
    <3>2. call.op \in Makes
      BY <1>3, <2>2, <2>5 DEF Operations, Makes
    <3> QED
      BY <2>1, <3>1, <3>2, RefusesToMake
  <2> QED
    BY <2>4, <2>5
<1> QED
  BY <1>2, <1>3 DEF EndNormalize

\* A walk fails where the promise does not hold what is meant.
LEMMA WalkFailsStep ==
  ASSUME WalkInv, NamesInv', WalkFails
  PROVE  Promise!NsNext
<1>1. /\ pc = "walk" /\ i <= Steps /\ UNCHANGED nodes
      /\ Return(Returned(IF call.op \in {"mkdir", "make file"} THEN "ENOENT" ELSE "not found"))
  BY DEF WalkFails
<1>2. /\ path \in Seq(Whole) /\ Len(path) \in Nat /\ Meant = path
      /\ call.op \in Operations
  BY <1>1, WalkingFacts
<1>3. i \in 1..Len(path)
  BY NotThere
<1>4. path # <<>>
  BY <1>2, <1>3
<1>5. /\ Promise!Front(path) = SubSeq(path, 1, Len(path) - 1)
      /\ path = SubSeq(path, 1, Len(path))
  BY <1>2, <1>4, FrontIs
<1>6. Contents' = Contents
  BY <1>1, SameContents
<1>7. ASSUME call.op # "open dir"
      PROVE  i \in 1..(Len(path) - 1)
  <2>1. Steps = Len(path) - 1
    BY <1>7, LastStep
  <2>2. i <= Steps
    BY <1>1
  <2> QED
    BY <1>3, <2>1, <2>2
<1>8. CASE call.op = "open dir"
  <2>1. call' = NoCall /\ AnswerIs' = AnswerWord("not found")
    BY <1>1, <1>8, WordAnswer
  <2>2. ~HoldsDir(path)
    <3>1. Len(path) \in i..Len(path)
      BY <1>2, <1>3
    <3>2. ~HoldsDir(SubSeq(path, 1, Len(path)))
      BY <3>1, FailedPrefix
    <3> QED
      BY <1>5, <3>2
  <2> QED
    BY <1>2, <1>6, <1>8, <2>1, <2>2, PromiseOpen
<1>9. CASE call.op = "open file"
  <2>1. call' = NoCall /\ AnswerIs' = AnswerWord("not found")
    BY <1>1, <1>9, WordAnswer
  <2>2. ~HoldsFile(path)
    <3>1. i \in 1..(Len(path) - 1)
      BY <1>7, <1>9
    <3>2. Len(path) \in i..Len(path) /\ Len(path) # i
      BY <1>2, <3>1
    <3>3. ~Holds(SubSeq(path, 1, Len(path)))
      BY <3>2, FailedPrefix
    <3> QED
      BY <1>5, <3>3 DEF HoldsFile
  <2> QED
    BY <1>2, <1>6, <1>9, <2>1, <2>2, PromiseOpen
<1>10. CASE call.op \in {"mkdir", "make file"}
  <2>1. Refuses("ENOENT")
    BY <1>1, <1>6, <1>10, WordAnswer DEF Refuses
  <2>2. ~HoldsDir(Promise!Front(path))
    <3>1. i \in 1..(Len(path) - 1)
      BY <1>7, <1>10
    <3>2. Len(path) - 1 \in i..Len(path)
      BY <1>2, <3>1
    <3>3. ~HoldsDir(SubSeq(path, 1, Len(path) - 1))
      BY <3>2, FailedPrefix
    <3> QED
      BY <1>5, <3>3
  <2> QED
    BY <1>2, <1>4, <1>10, <2>1, <2>2, RefusesToMake DEF Makes
<1> QED
  BY <1>2, <1>8, <1>9, <1>10 DEF Operations

\* ls is led to the directory that is meant.
LEMMA OpenDirStep ==
  ASSUME WalkInv, OpenDir
  PROVE  Promise!NsNext
<1>1. pc = "walk" /\ i > Steps /\ call.op = "open dir" /\ Return(Found(dir)) /\ UNCHANGED nodes
  BY DEF OpenDir, Walked
<1>2. /\ path \in Seq(Whole) /\ Len(path) \in Nat /\ i \in 1..(Len(path) + 1)
      /\ Meant = path /\ NamesInv
      /\ PathsIn(nodes)[dir] = SubSeq(path, 1, i - 1) /\ dir \in 0..Len(nodes)
      /\ dir = 0 \/ nodes[dir].kind = "dir"
  BY <1>1, WalkingFacts
<1>3. i - 1 = Len(path)
  <2>1. Steps = Len(path)
    BY <1>1, LastStep
  <2>2. i > Steps
    BY <1>1
  <2> QED
    BY <1>2, <2>1, <2>2
<1>4. PathsIn(nodes)[dir] = path
  <2>1. SubSeq(path, 1, Len(path)) = path
    BY <1>2
  <2> QED
    BY <1>2, <1>3, <2>1
<1>5. HoldsDir(path)
  BY <1>2, <1>4, HeldAs
<1>6. call' = NoCall /\ AnswerIs' = [says |-> "opened", place |-> path]
  BY <1>1, <1>4, NodeAnswer, PathOfIs
<1> QED
  BY <1>1, <1>2, <1>5, <1>6, SameContents, PromiseOpen

\* At the last name of a path, the walk is in the directory that the name is meant
\* to be in, and a node has the path if it is in there under the name.
LEMMA AtLastName ==
  ASSUME WalkInv, NEW op \in NamedCalls, Walked(op)
  PROVE  /\ Meant = path /\ path # <<>> /\ HoldsDir(Promise!Front(path))
         /\ path = Append(PathsIn(nodes)[dir], path[i]) /\ PathsIn(nodes)[0] # path
         /\ \A n \in 1..Len(nodes) : PathsIn(nodes)[n] = path
                                        <=> (nodes[n].parent = dir /\ nodes[n].name = path[i])
<1>1. pc = "walk"
  BY DEF Walked
<1>2. /\ path \in Seq(Whole) /\ Len(path) \in Nat /\ Meant = path
      /\ NamesInv /\ IsTree(nodes) /\ NoTwo(nodes)
      /\ PathsIn(nodes)[dir] = SubSeq(path, 1, i - 1) /\ dir \in 0..Len(nodes)
      /\ dir = 0 \/ nodes[dir].kind = "dir"
  BY <1>1, WalkingFacts
<1>3. i = Len(path) /\ i \in 1..Len(path)
  BY <1>2, LastName DEF NamesInv
<1>4. path # <<>>
  BY <1>2, <1>3
<1>5. /\ Promise!Front(path) = PathsIn(nodes)[dir]
      /\ path = Append(PathsIn(nodes)[dir], path[i])
  BY <1>2, <1>3, <1>4, FrontIs
<1>6. HoldsDir(Promise!Front(path))
  BY <1>2, <1>5, HeldAs
<1>7. PathsIn(nodes)[0] # path
  BY <1>2, <1>4, TreePaths
<1>8. ASSUME NEW n \in 1..Len(nodes)
      PROVE  PathsIn(nodes)[n] = path <=> (nodes[n].parent = dir /\ nodes[n].name = path[i])
  <2> DEFINE C == Names \cup {Freed}
             p == nodes[n].parent
             r == PathsIn(nodes)[p]
             s == PathsIn(nodes)[dir]
             x == nodes[n].name
             y == path[i]
  <2>1. PathsIn(nodes)[n] = Append(r, x) /\ r \in Seq(C) /\ p \in 0..Len(nodes) /\ s \in Seq(C)
    BY <1>2, NodePath, TreeFacts, TreePaths
  <2>2. path = Append(s, y)
    BY <1>5
  <2>3. r = s => p = dir
    BY <1>2, <2>1, PathsDiffer
  <2>4. p = dir => r = s
    OBVIOUS
  <2> HIDE DEF C, p, r, s, x, y
  <2>5. Append(r, x) = Append(s, y) => r = s /\ x = y
    BY <2>1, SameAppend
  <2>6. PathsIn(nodes)[n] = path <=> (p = dir /\ x = y)
    BY <2>1, <2>2, <2>3, <2>4, <2>5, Zenon
  <2> QED
    BY <2>6 DEF p, x, y
<1> QED
  BY <1>2, <1>4, <1>5, <1>6, <1>7, <1>8

\* cat and cp find the file that is meant, or there is none.
LEMMA OpenFileStep ==
  ASSUME WalkInv, NamesInv', OpenFile
  PROVE  Promise!NsNext
<1>1. Walked("open file") /\ call.op = "open file" /\ UNCHANGED nodes /\ pc = "walk"
  BY DEF OpenFile, Walked
<1>2. /\ Meant = path /\ PathsIn(nodes)[0] # path
      /\ \A n \in 1..Len(nodes) : PathsIn(nodes)[n] = path
                                     <=> (nodes[n].parent = dir /\ nodes[n].name = path[i])
  BY <1>1, AtLastName DEF NamedCalls
<1>3. NamesInv /\ IsTree(nodes) /\ DOMAIN nodes = 1..Len(nodes)
  BY <1>1, WalkingFacts
<1>4. Contents' = Contents
  BY <1>1, SameContents
<1>5. CASE Files = {}
  <2>1. Return(Returned("not found"))
    BY <1>5 DEF OpenFile
  <2>2. call' = NoCall /\ AnswerIs' = AnswerWord("not found")
    BY <2>1, WordAnswer
  <2>3. ASSUME HoldsFile(path)
        PROVE  FALSE
    <3>1. PICK n \in 0..Len(nodes) : path = PathsIn(nodes)[n]
      BY <1>3, <2>3, HeldBy DEF HoldsFile
    <3>2. n # 0 /\ nodes[n].kind = "file"
      BY <1>3, <2>3, <3>1, HeldAs
    <3>3. n \in 1..Len(nodes)
      BY <1>3, <3>2, TreeFacts
    <3>4. n \in Files
      BY <1>2, <1>3, <3>1, <3>2, <3>3 DEF Files, Named, Children
    <3> QED
      BY <1>5, <3>4
  <2> QED
    BY <1>1, <1>2, <1>4, <2>2, <2>3, PromiseOpen
<1>6. CASE Files # {}
  <2> DEFINE n == FirstOf(Files)
  <2>1. n \in Files
    <3>1. Files \in SUBSET Nat
      BY <1>3 DEF Files, Named, Children
    <3> QED
      BY <1>6, <3>1, FirstIsOne
  <2>2. Return(Found(n))
    BY <1>6 DEF OpenFile
  <2> HIDE DEF n
  <2>3. /\ n \in 1..Len(nodes) /\ nodes[n].parent = dir /\ nodes[n].name = path[i]
        /\ nodes[n].kind = "file"
    BY <1>3, <2>1 DEF Files, Named, Children
  <2>4. PathsIn(nodes)[n] = path
    BY <1>2, <2>3
  <2>5. n \in 0..Len(nodes) /\ n # 0
    BY <2>3
  <2>6. HoldsFile(path)
    BY <1>3, <2>3, <2>4, <2>5, HeldAs
  <2>7. call' = NoCall /\ AnswerIs' = [says |-> "opened", place |-> path]
    BY <1>1, <2>2, <2>4, NodeAnswer, PathOfIs
  <2> QED
    BY <1>1, <1>2, <1>4, <2>6, <2>7, PromiseOpen
<1> QED
  BY <1>5, <1>6

\* One node is added to a tree, and one path to its contents.
OneMore(t, u) == Len(u) = Len(t) + 1 /\ \A n \in 1..Len(t) : u[n] = t[n]
Gains(old, new, place, value) ==
  new = [q \in DOMAIN old \cup {place} |-> IF q = place THEN value ELSE old[q]]

\* The contents of a tree that one node has been added to.
LEMMA AddedContents ==
  ASSUME NEW t, NEW u, IsTree(t), NoTwo(t), IsTree(u), NoTwo(u), OneMore(t, u)
  PROVE  Gains(ContentsIn(t), ContentsIn(u), PathsIn(u)[Len(t) + 1], Value(u, Len(t) + 1))
<1>0. Len(u) = Len(t) + 1 /\ \A n \in 1..Len(t) : u[n] = t[n]
  BY DEF OneMore
<1> DEFINE N == Len(t)
           p == PathsIn(u)[N + 1]
           Old == ContentsIn(t)
           New == ContentsIn(u)
           G == [q \in DOMAIN Old \cup {p} |-> IF q = p THEN Value(u, N + 1) ELSE Old[q]]
<1>1. N \in Nat
  BY TreeFacts
<1>2. \A n \in 0..N : PathsIn(u)[n] = PathsIn(t)[n]
  <2>1. Len(t) <= Len(u)
    BY <1>0, <1>1
  <2>2. \A n \in 1..Len(t) : u[n].parent = t[n].parent /\ u[n].name = t[n].name
    BY <1>0
  <2> QED
    BY <2>1, <2>2, PathsKept
<1>3. /\ DOMAIN Old = {PathsIn(t)[n] : n \in 0..N}
      /\ \A n \in 0..N : Old[PathsIn(t)[n]] = Value(t, n)
  BY ContentsAre
<1>4. /\ DOMAIN New = {PathsIn(u)[n] : n \in 0..(N + 1)}
      /\ \A n \in 0..(N + 1) : New[PathsIn(u)[n]] = Value(u, n)
  <2>1. /\ DOMAIN New = {PathsIn(u)[n] : n \in 0..Len(u)}
        /\ \A n \in 0..Len(u) : New[PathsIn(u)[n]] = Value(u, n)
    BY ContentsAre
  <2> QED
    BY <1>0, <2>1
<1>5. \A n \in 0..N : Value(u, n) = Value(t, n)
  BY <1>0, <1>1 DEF Value
<1>6. \A n \in 0..N : PathsIn(u)[n] # p
  <2>1. \A n, m \in 0..Len(u) : PathsIn(u)[n] = PathsIn(u)[m] => n = m
    BY PathsDiffer
  <2>2. \A n \in 0..N : n \in 0..Len(u) /\ n # N + 1 /\ N + 1 \in 0..Len(u)
    BY <1>0, <1>1
  <2> QED
    BY <2>1, <2>2
<1>7. \A n \in 0..(N + 1) : n \in 0..N \/ n = N + 1
  BY <1>1
<1>8. \A n \in 0..N : n \in 0..(N + 1)
  BY <1>1
<1>9. N + 1 \in 0..(N + 1)
  BY <1>1
<1>10. New = [q \in DOMAIN New |-> New[q]]
  BY DEF ContentsIn
<1> HIDE DEF N, p, Old, New
<1>11. DOMAIN New = DOMAIN Old \cup {p}
  <2>1. p = PathsIn(u)[N + 1]
    BY DEF p
  <2> QED
    BY <1>2, <1>3, <1>4, <1>7, <1>8, <1>9, <2>1
<1>12. ASSUME NEW q \in DOMAIN New
       PROVE  New[q] = IF q = p THEN Value(u, N + 1) ELSE Old[q]
  <2>1. PICK n \in 0..(N + 1) : q = PathsIn(u)[n]
    BY <1>4
  <2>2. CASE n = N + 1
    BY <1>4, <2>1, <2>2 DEF p
  <2>3. CASE n \in 0..N
    <3>1. q # p /\ q = PathsIn(t)[n]
      BY <1>2, <1>6, <2>1, <2>3
    <3>2. New[q] = Value(u, n)
      BY <1>4, <2>1
    <3>3. Old[q] = Value(t, n)
      BY <1>3, <2>3, <3>1
    <3> QED
      BY <1>5, <2>3, <3>1, <3>2, <3>3
  <2> QED
    BY <1>7, <2>2, <2>3
<1>13. New = G
  BY <1>10, <1>11, <1>12
<1> QED
  BY <1>13 DEF New, Old, p, N, Gains

\* What mkdir makes, and what cp makes.
MadeBy(op, kind) == (op = "mkdir" /\ kind = "dir") \/ (op = "make file" /\ kind = "file")

\* mkdir and cp make what is meant, where it is not there yet.
LEMMA AddStep ==
  ASSUME WalkInv, NamesInv', NEW op, NEW kind, MadeBy(op, kind), Add(op, kind)
  PROVE  Promise!NsNext
<1>1. Walked(op) /\ op \in Makes /\ kind \in {"file", "dir"} /\ call.op = op /\ pc = "walk"
  BY DEF Add, Walked, Makes, MadeBy
<1>2. /\ Meant = path /\ path # <<>> /\ HoldsDir(Promise!Front(path))
      /\ path = Append(PathsIn(nodes)[dir], path[i]) /\ PathsIn(nodes)[0] # path
      /\ \A n \in 1..Len(nodes) : PathsIn(nodes)[n] = path
                                     <=> (nodes[n].parent = dir /\ nodes[n].name = path[i])
  BY <1>1, AtLastName DEF NamedCalls
<1>3. NamesInv /\ IsTree(nodes) /\ NoTwo(nodes) /\ DOMAIN nodes = 1..Len(nodes)
  BY <1>1, WalkingFacts
<1>4. CASE NameExists(dir, path[i]) /\ Return(Returned("EEXIST")) /\ UNCHANGED nodes
  <2>1. PICK n \in DOMAIN nodes : nodes[n].parent = dir /\ nodes[n].name = path[i]
    BY <1>4 DEF NameExists, Named, Children
  <2>2. n \in 1..Len(nodes) /\ n \in 0..Len(nodes)
    BY <1>3
  <2>3. PathsIn(nodes)[n] = path
    BY <1>2, <2>1, <2>2
  <2>4. Holds(path)
    BY <1>3, <2>2, <2>3, HeldAs
  <2>5. Refuses("EEXIST")
    BY <1>4, SameContents, WordAnswer DEF Refuses
  <2> QED
    BY <1>1, <1>2, <2>4, <2>5, RefusesToMake
<1>5. CASE nodes' # nodes
  <2> DEFINE N == Len(nodes)
             new == Node(dir, kind, path[i])
             value == IF kind = "dir" THEN "directory" ELSE NoData
  <2>1. /\ Return(Returned("ok"))
        /\ \A n \in DOMAIN nodes : nodes[n].parent # dir \/ nodes[n].name # path[i]
    BY <1>3, <1>5, NewName DEF NamesInv
  <2>2. /\ N \in Nat /\ Len(nodes') = N + 1
        /\ \A n \in 1..N : nodes'[n] = nodes[n]
        /\ nodes'[N + 1] = new
    BY <1>1, <1>3, <1>5, AddedNode DEF NamesInv
  <2>3. new.parent = dir /\ new.name = path[i] /\ new.kind = kind /\ new.data = NoData
    BY DEF Node
  <2>4. IsTree(nodes') /\ NoTwo(nodes')
    BY TreeIsNext
  <2> HIDE DEF new, N
  <2>5. PathsIn(nodes')[N + 1] = path
    <3>1. N + 1 \in 1..Len(nodes')
      BY <2>2
    <3>2. PathsIn(nodes')[N + 1] = Append(PathsIn(nodes')[dir], path[i])
      BY <2>2, <2>3, <2>4, <3>1, NodePath
    <3>3. PathsIn(nodes')[dir] = PathsIn(nodes)[dir]
      <4>1. dir \in 0..Len(nodes)
        BY <1>1, WalkingFacts
      <4>2. Len(nodes) <= Len(nodes')
        BY <2>2 DEF N
      <4>3. \A n \in 1..Len(nodes) : nodes'[n].parent = nodes[n].parent /\ nodes'[n].name = nodes[n].name
        BY <2>2 DEF N
      <4> QED
        BY <1>3, <2>4, <4>1, <4>2, <4>3, PathsKept
    <3> QED
      BY <1>2, <3>2, <3>3
  <2>6. Value(nodes', N + 1) = value
    <3>1. N + 1 # 0
      BY <2>2
    <3> QED
      BY <2>2, <2>3, <3>1 DEF Value
  <2>7. Contents' = [q \in DOMAIN Contents \cup {path} |-> IF q = path THEN value ELSE Contents[q]]
    <3> HIDE DEF value
    <3>1. OneMore(nodes, nodes')
      BY <2>2 DEF N, OneMore
    <3>2. Gains(ContentsIn(nodes), ContentsIn(nodes'), PathsIn(nodes')[N + 1], Value(nodes', N + 1))
      BY <1>3, <2>4, <3>1, AddedContents DEF N
    <3>3. Gains(Contents, Contents', path, value)
      BY <2>5, <2>6, <3>2, ContentsIs, ContentsIsNext
    <3> QED
      BY <3>3 DEF Gains
  <2>8. ~Holds(path)
    <3>1. ASSUME NEW n \in 0..Len(nodes), path = PathsIn(nodes)[n]
          PROVE  FALSE
      <4>1. n # 0
        BY <1>2, <3>1
      <4>2. n \in 1..Len(nodes)
        BY <1>3, <4>1, TreeFacts
      <4> QED
        BY <1>2, <1>3, <2>1, <3>1, <4>2
    <3> QED
      BY <1>3, <3>1, HeldBy
  <2>9. call' = NoCall /\ AnswerIs' = AnswerWord("ok")
    BY <2>1, WordAnswer
  <2>10. (op = "mkdir" /\ value = "directory") \/ (op = "make file" /\ value = NoData)
    BY DEF MadeBy
  <2> HIDE DEF value
  <2> QED
    BY <1>1, <1>2, <2>7, <2>8, <2>9, <2>10, PromiseMake
<1>6. nodes' = nodes => Return(Returned("EEXIST")) /\ NameExists(dir, path[i])
  <2>1. Append(nodes, Node(dir, kind, path[i])) # nodes
    <3>1. nodes \in Seq(NodeSet) /\ Node(dir, kind, path[i]) \in NodeSet
      BY <1>1, <1>3, NewNode DEF NamesInv, TypeInv, TreeOK
    <3>2. \A x \in NodeSet : Append(nodes, x) # nodes
      BY <3>1
    <3> QED
      BY <3>1, <3>2
  <2> QED
    BY <2>1 DEF Add
<1> QED
  BY <1>4, <1>5, <1>6


\* One file of a tree is given its data, and one path of its contents.
OneFilled(t, u, k, d) ==
  /\ k \in 1..Len(t) /\ t[k].kind = "file"
  /\ Len(u) = Len(t)
  /\ u[k].data = d
  /\ \A n \in 1..Len(t) : /\ u[n].parent = t[n].parent /\ u[n].kind = t[n].kind
                          /\ u[n].name = t[n].name /\ (n # k => u[n] = t[n])
Changes(old, new, place, value) == new = [old EXCEPT ![place] = value]

\* The contents of a tree with a file that has been filled.
LEMMA FilledContents ==
  ASSUME NEW t, NEW u, NEW k, NEW d, IsTree(t), NoTwo(t), IsTree(u), NoTwo(u), OneFilled(t, u, k, d)
  PROVE  Changes(ContentsIn(t), ContentsIn(u), PathsIn(t)[k], d)
<1> DEFINE N == Len(t)
           Old == ContentsIn(t)
           New == ContentsIn(u)
           p == PathsIn(t)[k]
<1>1. N \in Nat /\ k \in 1..N /\ k \in 0..N /\ k # 0 /\ Len(u) = N
  BY TreeFacts DEF OneFilled
<1>2. \A n \in 0..N : PathsIn(u)[n] = PathsIn(t)[n]
  <2>1. Len(t) <= Len(u)
    BY <1>1
  <2>2. \A n \in 1..Len(t) : u[n].parent = t[n].parent /\ u[n].name = t[n].name
    BY DEF OneFilled
  <2> QED
    BY <2>1, <2>2, PathsKept
<1>3. /\ DOMAIN Old = {PathsIn(t)[n] : n \in 0..N}
      /\ \A n \in 0..N : Old[PathsIn(t)[n]] = Value(t, n)
  BY ContentsAre
<1>4. /\ DOMAIN New = {PathsIn(u)[n] : n \in 0..N}
      /\ \A n \in 0..N : New[PathsIn(u)[n]] = Value(u, n)
  <2>1. /\ DOMAIN New = {PathsIn(u)[n] : n \in 0..Len(u)}
        /\ \A n \in 0..Len(u) : New[PathsIn(u)[n]] = Value(u, n)
    BY ContentsAre
  <2> QED
    BY <1>1, <2>1
<1>5. Value(u, k) = d
  <2>1. u[k].kind = "file" /\ u[k].data = d
    BY <1>1 DEF OneFilled
  <2> QED
    BY <1>1, <2>1 DEF Value
<1>6. ASSUME NEW n \in 0..N, n # k
      PROVE  Value(u, n) = Value(t, n)
  <2>1. CASE n = 0
    BY <2>1 DEF Value
  <2>2. CASE n # 0
    <3>1. n \in 1..N
      BY <1>1, <2>2
    <3>2. u[n] = t[n]
      BY <1>6, <3>1 DEF OneFilled
    <3> QED
      BY <2>2, <3>2 DEF Value
  <2> QED
    BY <2>1, <2>2
<1>7. \A n \in 0..N : PathsIn(t)[n] = p => n = k
  BY <1>1, PathsDiffer
<1>8. New = [q \in DOMAIN New |-> New[q]] /\ Old = [q \in DOMAIN Old |-> Old[q]]
  BY DEF ContentsIn
<1>9. p = PathsIn(t)[k]
  OBVIOUS
<1> HIDE DEF N, p, Old, New
<1>10. DOMAIN New = DOMAIN Old
  BY <1>2, <1>3, <1>4
<1>11. ASSUME NEW q \in DOMAIN New
       PROVE  New[q] = IF q = p THEN d ELSE Old[q]
  <2>1. PICK n \in 0..N : q = PathsIn(u)[n]
    BY <1>4
  <2>2. q = PathsIn(t)[n] /\ New[q] = Value(u, n) /\ Old[q] = Value(t, n)
    BY <1>2, <1>3, <1>4, <2>1
  <2>3. CASE n = k
    BY <1>5, <1>9, <2>2, <2>3
  <2>4. CASE n # k
    BY <1>6, <1>7, <2>2, <2>4
  <2> QED
    BY <2>3, <2>4
<1>12. New = [Old EXCEPT ![p] = d]
  BY <1>8, <1>10, <1>11
<1> QED
  BY <1>12 DEF New, Old, p, Changes

\* cp fills the file that has been opened.
LEMMA FillStep ==
  ASSUME WalkInv, NamesInv', NEW d \in Data, FillFile(d)
  PROVE  Promise!NsNext
<1>1. NamesInv /\ TypeInv
  BY DEF WalkInv, MeaningInv, NamesInv
<1>2. IsTree(nodes) /\ NoTwo(nodes) /\ IsTree(nodes') /\ NoTwo(nodes')
  BY <1>1, TreeIs, TreeIsNext
<1>3. ret.says = "opened" /\ ret' = Returned("ok") /\ call' = call
  BY DEF FillFile
<1> DEFINE k == ret.node
           place == PathOf[k]
<1>4. /\ k \in DOMAIN nodes /\ nodes[k].kind = "file" /\ DOMAIN nodes = 1..Len(nodes)
      /\ Len(nodes) \in Nat
  BY <1>1, FilledTree
<1>5. OneFilled(nodes, nodes', k, d)
  BY <1>1, FilledTree DEF OneFilled
<1>6. k \in 0..Len(nodes) /\ k # 0
  BY <1>4
<1>7. place = PathsIn(nodes)[k]
  BY PathOfIs
<1> HIDE DEF k, place
<1>8. HoldsFile(place)
  BY <1>1, <1>4, <1>6, <1>7, HeldAs
<1>9. Changes(Contents, Contents', place, d)
  BY <1>2, <1>5, <1>7, FilledContents, ContentsIs, ContentsIsNext
<1>10. AnswerIs = [says |-> "opened", place |-> place]
  BY <1>3 DEF AnswerIs, place, k
<1>11. AnswerIs' = AnswerWord("ok")
  <2>1. ret'.says = "ok" /\ ret'.node = 0
    BY <1>3 DEF Returned, Root
  <2>2. PathOf'[0] = <<>>
    BY <1>2, TreePaths, PathOfIsNext
  <2> QED
    BY <2>1, <2>2 DEF AnswerIs, AnswerWord
<1>12. Contents' = [Contents EXCEPT ![place] = d]
  BY <1>9 DEF Changes
<1> QED
  BY <1>3, <1>8, <1>10, <1>11, <1>12, PromiseFill

\* A new file system holds its root.
LEMMA InitPromise == Init => Promise!NsInit
<1> SUFFICES ASSUME Init
             PROVE  Promise!NsInit
  OBVIOUS
<1>1. nodes = <<>> /\ call = NoCall /\ ret.says = "none" /\ ret.node = 0
  BY DEF Init, Returned, Root
<1>2. PathOf[0] = <<>> /\ Len(nodes) = 0
  <2>1. IsTree(nodes)
    BY InitWalk, TreeIs DEF WalkInv, MeaningInv
  <2> QED
    BY <1>1, <2>1, TreePaths, PathOfIs
<1>3. {PathOf[n] : n \in 0..Len(nodes)} = {<<>>}
  BY <1>2
<1>4. Content(<<>>) = "directory"
  BY DEF Content
<1>5. Contents = [p \in {<<>>} |-> "directory"]
  BY <1>3, <1>4 DEF Contents
<1>6. AnswerIs = AnswerWord("none")
  BY <1>1, <1>2 DEF AnswerIs, AnswerWord
<1> QED
  BY <1>1, <1>5, <1>6
     DEF Promise!NsInit, Promise!NoRequest, Promise!Answer, Promise!Root, Promise!Dir, NoCall, AnswerWord,
     Contents, AnswerIs

\* Every step of the tree is a step of the promise, or none.
LEMMA StepPromise ==
  ASSUME WalkInv, NamesInv', [Next]_vars
  PROVE  Promise!NsNext \/ UNCHANGED <<Contents, call, AnswerIs>>
<1>1. CASE \E op \in Operations, p \in Paths : HasRoom(op) /\ ~ClimbsOut(Parsed(p)) /\ Begin(op, p)
  BY <1>1, BeginStep
<1>2. CASE PassName
  BY <1>2, Stutters DEF PassName
<1>3. CASE DropDot
  BY <1>3, Stutters DEF DropDot
<1>4. CASE Climb
  BY <1>4, Stutters DEF Climb
<1>5. CASE ClimbAtRoot
  BY <1>5, Stutters DEF ClimbAtRoot
<1>6. CASE EndNormalize
  BY <1>6, EndStep
<1>7. CASE WalkDown
  BY <1>7, Stutters DEF WalkDown
<1>8. CASE WalkFails
  BY <1>8, WalkFailsStep
<1>9. CASE Add("mkdir", "dir")
  <2>1. MadeBy("mkdir", "dir")
    BY DEF MadeBy
  <2>2. PICK op, kind : MadeBy(op, kind) /\ Add(op, kind)
    BY <1>9, <2>1
  <2> QED
    BY <2>2, AddStep
<1>10. CASE Add("make file", "file")
  <2>1. MadeBy("make file", "file")
    BY DEF MadeBy
  <2>2. PICK op, kind : MadeBy(op, kind) /\ Add(op, kind)
    BY <1>10, <2>1
  <2> QED
    BY <2>2, AddStep
<1>11. CASE OpenDir
  BY <1>11, OpenDirStep
<1>12. CASE OpenFile
  BY <1>12, OpenFileStep
<1>13. CASE \E d \in Data : FillFile(d)
  BY <1>13, FillStep
<1>14. CASE UNCHANGED vars
  BY <1>14, Stutters DEF vars
<1> QED
  BY <1>1, <1>2, <1>3, <1>4, <1>5, <1>6, <1>7, <1>8, <1>9, <1>10, <1>11, <1>12, <1>13, <1>14
     DEF Next, CallStep

\* Every answer of mkdir, ls, cat and cp is the one that the promise gives, from whatever
\* was made before: what bootable_path_normalize, the walk and the two ways to add a name
\* do together is one step of a file system that knows paths only by what they mean.
THEOREM FsTreeImplementsNamespace == Spec => ImplementsNamespace
<1>1. WalkInv /\ [Next]_vars => WalkInv'
  BY StepWalk
<1>2. WalkInv /\ WalkInv' /\ [Next]_vars => [Promise!NsNext]_<<Contents, call, AnswerIs>>
  <2> SUFFICES ASSUME WalkInv, WalkInv', [Next]_vars
               PROVE  Promise!NsNext \/ UNCHANGED <<Contents, call, AnswerIs>>
    OBVIOUS
  <2>1. NamesInv'
    BY DEF WalkInv, MeaningInv
  <2> QED
    BY <2>1, StepPromise
<1> QED
  BY <1>1, <1>2, InitWalk, InitPromise, PTL DEF Spec, ImplementsNamespace, Promise!NsSpec, Contents, AnswerIs
=============================================================================
