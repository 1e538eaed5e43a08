------------------------------ MODULE UtilProofs ------------------------------
(****************************************************************************)
(* Which call a command makes at which place of its script, for every       *)
(* configuration and every command line, and that an image stays usable:    *)
(* the inductive invariant of Util holds of every image, configuration and  *)
(* file system, and the properties of Util follow.                          *)
(****************************************************************************)
EXTENDS ImageProofs, WellFoundedInduction

(* -- Sequences that are joined ---------------------------------------------- *)

IsSeq(s) == \E S : s \in Seq(S)

\* What joining two sequences gives.
LEMMA Joined ==
  ASSUME NEW s, NEW t, IsSeq(s), IsSeq(t)
  PROVE  /\ IsSeq(s \o t) /\ Len(s \o t) = Len(s) + Len(t)
         /\ Len(s) \in Nat /\ Len(t) \in Nat
         /\ \A i \in 1..(Len(s) + Len(t)) :
              (s \o t)[i] = IF i <= Len(s) THEN s[i] ELSE t[i - Len(s)]
<1>1. PICK S : s \in Seq(S)
  BY DEF IsSeq
<1>2. PICK T : t \in Seq(T)
  BY DEF IsSeq
<1>3. s \in Seq(S \cup T) /\ t \in Seq(S \cup T)
  BY <1>1, <1>2
<1> QED
  BY <1>3 DEF IsSeq

\* Short sequences, element by element.
LEMMA Pair ==
  ASSUME NEW a, NEW b
  PROVE  IsSeq(<<a, b>>) /\ Len(<<a, b>>) = 2 /\ <<a, b>>[1] = a /\ <<a, b>>[2] = b
<1>1. <<a, b>> \in Seq({a, b})
  OBVIOUS
<1> QED
  BY <1>1 DEF IsSeq

\* The same of three,
LEMMA Triple ==
  ASSUME NEW a, NEW b, NEW c
  PROVE  /\ IsSeq(<<a, b, c>>) /\ Len(<<a, b, c>>) = 3
         /\ <<a, b, c>>[1] = a /\ <<a, b, c>>[2] = b /\ <<a, b, c>>[3] = c
<1>1. <<a, b, c>> \in Seq({a, b, c})
  OBVIOUS
<1> QED
  BY <1>1 DEF IsSeq

\* of four,
LEMMA Quad ==
  ASSUME NEW a, NEW b, NEW c, NEW d
  PROVE  /\ IsSeq(<<a, b, c, d>>) /\ Len(<<a, b, c, d>>) = 4
         /\ <<a, b, c, d>>[1] = a /\ <<a, b, c, d>>[2] = b
         /\ <<a, b, c, d>>[3] = c /\ <<a, b, c, d>>[4] = d
<1>1. <<a, b, c, d>> \in Seq({a, b, c, d})
  OBVIOUS
<1> QED
  BY <1>1 DEF IsSeq

\* and of none or one.
LEMMA NoneOrOne ==
  ASSUME NEW a
  PROVE  /\ IsSeq(<<>>) /\ Len(<<>>) = 0
         /\ IsSeq(<<a>>) /\ Len(<<a>>) = 1 /\ <<a>>[1] = a
<1>1. <<>> \in Seq({a}) /\ <<a>> \in Seq({a})
  OBVIOUS
<1> QED
  BY <1>1 DEF IsSeq

(* -- The script of init ------------------------------------------------------- *)

TypeCall(e, type) == [do |-> "type", entry |-> e, type |-> type]
NameCall(e, names) == [do |-> "name", entry |-> e, names |-> names]
SizeCall(e, bytes) == [do |-> "size", entry |-> e, bytes |-> bytes]
DataCall(e, what, bytes) == [do |-> "data", entry |-> e, what |-> what, bytes |-> bytes]
DoCall(do) == [do |-> do]
MakeCall(node) == [do |-> "make", node |-> node]

\* A partition that is typed, named, sized and filled.
FilledPartitionCalls(s, e, type, names, room, what, bytes) ==
  /\ IsSeq(s) /\ Len(s) = 4
  /\ s[1] = TypeCall(e, type) /\ s[2] = NameCall(e, names)
  /\ s[3] = SizeCall(e, room) /\ s[4] = DataCall(e, what, bytes)

\* What the calls for such a partition are.
LEMMA FilledPartition ==
  ASSUME NEW e, NEW type, NEW names, NEW room, NEW what, NEW bytes
  PROVE  FilledPartitionCalls(TypeAndName(e, type, names) \o SizeAndData(e, room, what, bytes),
                              e, type, names, room, what, bytes)
<1> DEFINE x == TypeAndName(e, type, names)
           y == SizeAndData(e, room, what, bytes)
<1>1. /\ IsSeq(x) /\ Len(x) = 2 
      /\ x[1] = TypeCall(e, type) /\ x[2] = NameCall(e, names)
  BY Pair DEF TypeAndName, TypeCall, NameCall
<1>2. /\ IsSeq(y) /\ Len(y) = 2
      /\ y[1] = SizeCall(e, room) /\ y[2] = DataCall(e, what, bytes)
  BY Pair DEF SizeAndData, SizeCall, DataCall
<1> HIDE DEF x, y
<1>3. /\ IsSeq(x \o y) /\ Len(x \o y) = Len(x) + Len(y)
      /\ \A i \in 1..(Len(x) + Len(y)) :
           (x \o y)[i] = IF i <= Len(x) THEN x[i] ELSE y[i - Len(x)]
  <2>1. IsSeq(x) /\ IsSeq(y)
    BY <1>1, <1>2
  <2> QED
    BY <2>1, Joined
<1>4. /\ IsSeq(x \o y) /\ Len(x \o y) = 4
      /\ (x \o y)[1] = x[1] /\ (x \o y)[2] = x[2]
      /\ (x \o y)[3] = y[1] /\ (x \o y)[4] = y[2]
  BY <1>1, <1>2, <1>3
<1> QED
  BY <1>1, <1>2, <1>4 DEF x, y, FilledPartitionCalls

\* The file system's partition, which is filled by an export of its own.
LEMMA FileSystemCalls ==
  ASSUME NEW c \in Configs
  PROVE  /\ IsSeq(FileSystem(c))
         /\ ~c.fs_loader => Len(FileSystem(c)) = 0
         /\ c.fs_loader =>
              /\ Len(FileSystem(c)) = 5
              /\ FileSystem(c)[1] = TypeCall(2, "file system")
              /\ FileSystem(c)[2] = NameCall(2, {FixedName})
              /\ FileSystem(c)[3] = SizeCall(2, c.fs_size)
              /\ FileSystem(c)[4] = MakeCall(Boot)
              /\ FileSystem(c)[5] = DoCall("fs")
<1>1. CASE ~c.fs_loader
  BY <1>1, NoneOrOne DEF FileSystem
<1>2. CASE c.fs_loader
  <2> DEFINE x == TypeAndName(2, "file system", {FixedName})
             y == <<[do |-> "size", entry |-> 2, bytes |-> c.fs_size],
                    [do |-> "make", node |-> Boot], [do |-> "fs"]>>
  <2>1. /\ IsSeq(x) /\ Len(x) = 2
        /\ x[1] = TypeCall(2, "file system") /\ x[2] = NameCall(2, {FixedName})
    BY Pair DEF TypeAndName, TypeCall, NameCall
  <2>2. /\ IsSeq(y) /\ Len(y) = 3
        /\ y[1] = SizeCall(2, c.fs_size) /\ y[2] = MakeCall(Boot) /\ y[3] = DoCall("fs")
    BY Triple DEF SizeCall, MakeCall, DoCall
  <2>3. FileSystem(c) = x \o y
    BY <1>2 DEF FileSystem, FileSystemIn
  <2> HIDE DEF x, y
  <2>4. /\ IsSeq(x \o y) /\ Len(x \o y) = Len(x) + Len(y)
        /\ \A i \in 1..(Len(x) + Len(y)) :
             (x \o y)[i] = IF i <= Len(x) THEN x[i] ELSE y[i - Len(x)]
    <3>1. IsSeq(x) /\ IsSeq(y)
      BY <2>1, <2>2
    <3> QED
      BY <3>1, Joined
  <2>5. /\ IsSeq(x \o y) /\ Len(x \o y) = 5
        /\ (x \o y)[1] = x[1] /\ (x \o y)[2] = x[2]
        /\ (x \o y)[3] = y[1] /\ (x \o y)[4] = y[2] /\ (x \o y)[5] = y[3]
    <3>1. Len(x) = 2 /\ Len(y) = 3
      BY <2>1, <2>2
    <3> QED
      BY <2>4, <3>1
  <2> QED
    BY <1>2, <2>1, <2>2, <2>3, <2>5
<1> QED
  BY <1>1, <1>2

\* The partitions of the configuration are typed and named.
LEMMA ConfigPartitionCalls ==
  ASSUME NEW c \in Configs
  PROVE  /\ Len(c.partitions) \in Nat
         /\ IsSeq(ConfigPartitions(c)) /\ Len(ConfigPartitions(c)) = 2 * Len(c.partitions)
         /\ \A i \in 1..(2 * Len(c.partitions)) :
              ConfigPartitions(c)[i] \in {TypeCall(AnyUnused, "other"),
                                          NameCall(AnyUnused, Names)}
<1> DEFINE n == 2 * Len(c.partitions)
           s == ConfigPartitions(c)
           S == {TypeCall(AnyUnused, "other"), NameCall(AnyUnused, Names)}
<1>1. Len(c.partitions) \in Nat /\ n \in Nat
  <2>1. c.partitions \in Seq(Names)
    BY ConfigsAssumption
  <2> QED
    BY <2>1
<1>2. s = [j \in 1..n |-> TypeAndName(AnyUnused, "other", Names)[2 - (j % 2)]]
  BY DEF ConfigPartitions
<1>3. ASSUME NEW j \in 1..n
      PROVE  TypeAndName(AnyUnused, "other", Names)[2 - (j % 2)] \in S
  <2>1. 2 - (j % 2) \in {1, 2}
    BY <1>1
  <2>2. /\ TypeAndName(AnyUnused, "other", Names)[1] = TypeCall(AnyUnused, "other")
        /\ TypeAndName(AnyUnused, "other", Names)[2] = NameCall(AnyUnused, Names)
    BY Pair DEF TypeAndName, TypeCall, NameCall
  <2> HIDE DEF n
  <2> QED
    BY <2>1, <2>2
<1>4. s \in [1..n -> S]
  BY <1>2, <1>3
<1> HIDE DEF n, S, s
<1>5. s \in Seq(S) /\ Len(s) = n
  BY <1>1, <1>4
<1> QED
  BY <1>1, <1>4, <1>5 DEF IsSeq, n, S, s

\* How many calls init makes before those for the partitions of the
\* configuration, and with them.
Fixed(c) == IF c.fs_loader THEN 17 ELSE 12
WithPartitions(c) == Fixed(c) + 2 * Len(c.partitions)

\* The calls for the partition of stage two.
LEMMA StageTwoCalls ==
  FilledPartitionCalls(StageTwo, 0, "stage two", {FixedName}, StageTwoRoom,
                       "stage two", StageTwoSize)
BY FilledPartition DEF StageTwo

\* The calls for the partition of stage three.
LEMMA StageThreeCalls ==
  ASSUME NEW c \in Configs
  PROVE  FilledPartitionCalls(StageThree(c), 1, "stage three", {FixedName}, StageThreeSize(c),
                              "stage three", StageThreeSize(c))
BY FilledPartition DEF StageThree

\* How many the fixed ones are.
LEMMA FixedCalls ==
  ASSUME NEW c \in Configs
  PROVE  /\ IsSeq(FileSystem(c)) /\ Fixed(c) \in {12, 17}
         /\ 12 + Len(FileSystem(c)) = Fixed(c)
         /\ c.fs_loader <=> Fixed(c) = 17
<1>1. /\ IsSeq(FileSystem(c))
      /\ ~c.fs_loader => Len(FileSystem(c)) = 0
      /\ c.fs_loader => Len(FileSystem(c)) = 5
  BY FileSystemCalls
<1>2. Fixed(c) \in {12, 17} /\ (c.fs_loader <=> Fixed(c) = 17) /\ (~c.fs_loader <=> Fixed(c) = 12)
  BY ConfigsAssumption DEF Fixed
<1>3. CASE c.fs_loader
  <2>1. Len(FileSystem(c)) = 5 /\ Fixed(c) = 17
    BY <1>1, <1>2, <1>3
  <2> QED
    BY <1>1, <1>2, <2>1
<1>4. CASE ~c.fs_loader
  <2>1. Len(FileSystem(c)) = 0 /\ Fixed(c) = 12
    BY <1>1, <1>2, <1>4
  <2> QED
    BY <1>1, <1>2, <2>1
<1> QED
  BY <1>3, <1>4

\* The script of init, call by call.
LEMMA InitScript ==
  ASSUME NEW c \in Configs
  PROVE  /\ WithPartitions(c) \in Nat /\ Fixed(c) <= WithPartitions(c)
         /\ Len(CreateDisk(c)) = WithPartitions(c) + 2
         /\ CreateDisk(c)[1] = DoCall("open")
         /\ CreateDisk(c)[2] = DoCall("zero")
         /\ CreateDisk(c)[3] = DoCall("bootsector")
         /\ CreateDisk(c)[4] = DoCall("format")
         /\ CreateDisk(c)[5] = TypeCall(0, "stage two")
         /\ CreateDisk(c)[6] = NameCall(0, {FixedName})
         /\ CreateDisk(c)[7] = SizeCall(0, StageTwoRoom)
         /\ CreateDisk(c)[8] = DataCall(0, "stage two", StageTwoSize)
         /\ CreateDisk(c)[9] = TypeCall(1, "stage three")
         /\ CreateDisk(c)[10] = NameCall(1, {FixedName})
         /\ CreateDisk(c)[11] = SizeCall(1, StageThreeSize(c))
         /\ CreateDisk(c)[12] = DataCall(1, "stage three", StageThreeSize(c))
         /\ c.fs_loader => /\ CreateDisk(c)[13] = TypeCall(2, "file system")
                           /\ CreateDisk(c)[14] = NameCall(2, {FixedName})
                           /\ CreateDisk(c)[15] = SizeCall(2, c.fs_size)
                           /\ CreateDisk(c)[16] = MakeCall(Boot)
                           /\ CreateDisk(c)[17] = DoCall("fs")
         /\ \A i \in (Fixed(c) + 1)..WithPartitions(c) :
              CreateDisk(c)[i] \in {TypeCall(AnyUnused, "other"), NameCall(AnyUnused, Names)}
         /\ CreateDisk(c)[WithPartitions(c) + 1] = DoCall("mbr")
         /\ CreateDisk(c)[WithPartitions(c) + 2] = DoCall("export")
<1> DEFINE p0 == <<[do |-> "open"], [do |-> "zero"], [do |-> "bootsector"], [do |-> "format"]>>
           p1 == p0 \o StageTwo
           p2 == p1 \o StageThree(c)
           p3 == p2 \o FileSystem(c)
           p4 == p3 \o ConfigPartitions(c)
           t == <<[do |-> "mbr"], [do |-> "export"]>>
           all == p4 \o t
           f == Fixed(c)
           w == WithPartitions(c)
<1>1. CreateDisk(c) = all
  BY DEF CreateDisk
<1>2. /\ IsSeq(p0) /\ Len(p0) = 4
      /\ p0[1] = DoCall("open") /\ p0[2] = DoCall("zero")
      /\ p0[3] = DoCall("bootsector") /\ p0[4] = DoCall("format")
  BY Quad DEF DoCall
<1>3. /\ IsSeq(StageTwo) /\ Len(StageTwo) = 4
      /\ StageTwo[1] = TypeCall(0, "stage two")
      /\ StageTwo[2] = NameCall(0, {FixedName})
      /\ StageTwo[3] = SizeCall(0, StageTwoRoom)
      /\ StageTwo[4] = DataCall(0, "stage two", StageTwoSize)
  BY StageTwoCalls DEF FilledPartitionCalls
<1>4. /\ IsSeq(StageThree(c)) /\ Len(StageThree(c)) = 4
      /\ StageThree(c)[1] = TypeCall(1, "stage three")
      /\ StageThree(c)[2] = NameCall(1, {FixedName})
      /\ StageThree(c)[3] = SizeCall(1, StageThreeSize(c))
      /\ StageThree(c)[4] = DataCall(1, "stage three", StageThreeSize(c))
  BY StageThreeCalls DEF FilledPartitionCalls
<1>5. IsSeq(t) /\ Len(t) = 2 /\ t[1] = DoCall("mbr") /\ t[2] = DoCall("export")
  BY Pair DEF DoCall
<1> HIDE DEF p0, t
<1>6. /\ IsSeq(p1) /\ Len(p1) = 8
      /\ \A i \in 1..8 : p1[i] = IF i <= 4 THEN p0[i] ELSE StageTwo[i - 4]
  <2>1. IsSeq(p0) /\ IsSeq(StageTwo) /\ Len(p0) = 4 /\ Len(StageTwo) = 4
    BY <1>2, <1>3
  <2>2. /\ IsSeq(p0 \o StageTwo) /\ Len(p0 \o StageTwo) = Len(p0) + Len(StageTwo)
        /\ \A i \in 1..(Len(p0) + Len(StageTwo)) :
             (p0 \o StageTwo)[i] = IF i <= Len(p0) THEN p0[i] ELSE StageTwo[i - Len(p0)]
    <3>1. IsSeq(p0) /\ IsSeq(StageTwo)
      BY <2>1
    <3> QED
      BY <3>1, Joined
  <2> QED
    BY <2>1, <2>2
<1> HIDE DEF p1
<1>7. /\ IsSeq(p2) /\ Len(p2) = 12
      /\ \A i \in 1..12 : p2[i] = IF i <= 8 THEN p1[i] ELSE StageThree(c)[i - 8]
  <2>1. IsSeq(p1) /\ IsSeq(StageThree(c)) /\ Len(p1) = 8 /\ Len(StageThree(c)) = 4
    BY <1>4, <1>6
  <2>2. /\ IsSeq(p1 \o StageThree(c)) /\ Len(p1 \o StageThree(c)) = Len(p1) + Len(StageThree(c))
        /\ \A i \in 1..(Len(p1) + Len(StageThree(c))) :
             (p1 \o StageThree(c))[i] = IF i <= Len(p1) THEN p1[i] ELSE StageThree(c)[i - Len(p1)]
    <3>1. IsSeq(p1) /\ IsSeq(StageThree(c))
      BY <2>1
    <3> QED
      BY <3>1, Joined
  <2>3. Len(p1) = 8 /\ Len(StageThree(c)) = 4
    BY <2>1
  <2> QED
    BY <2>2, <2>3
<1> HIDE DEF p2
<1>8. /\ IsSeq(p3) /\ Len(p3) = f /\ f \in {12, 17} /\ (c.fs_loader <=> f = 17)
      /\ \A i \in 1..f : p3[i] = IF i <= 12 THEN p2[i] ELSE FileSystem(c)[i - 12]
  <2>1. /\ IsSeq(p2) /\ Len(p2) = 12 /\ IsSeq(FileSystem(c)) /\ 12 + Len(FileSystem(c)) = f
        /\ f \in {12, 17} /\ (c.fs_loader <=> f = 17)
    BY <1>7, FixedCalls
  <2>2. /\ IsSeq(p2 \o FileSystem(c)) /\ Len(p2 \o FileSystem(c)) = Len(p2) + Len(FileSystem(c))
        /\ \A i \in 1..(Len(p2) + Len(FileSystem(c))) :
             (p2 \o FileSystem(c))[i] = IF i <= Len(p2) THEN p2[i] ELSE FileSystem(c)[i - Len(p2)]
    <3>1. IsSeq(p2) /\ IsSeq(FileSystem(c))
      BY <2>1
    <3> QED
      BY <3>1, Joined
  <2> HIDE DEF f
  <2> QED
    BY <2>1, <2>2
<1> HIDE DEF p3
<1>9. /\ IsSeq(p4) /\ Len(p4) = w /\ w \in Nat /\ f <= w
      /\ \A i \in 1..w : p4[i] = IF i <= f THEN p3[i] ELSE ConfigPartitions(c)[i - f]
  <2>1. /\ IsSeq(p3) /\ Len(p3) = f /\ IsSeq(ConfigPartitions(c))
        /\ w = f + Len(ConfigPartitions(c)) /\ w \in Nat /\ f <= w
    BY <1>8, ConfigPartitionCalls DEF WithPartitions
  <2>2. /\ IsSeq(p3 \o ConfigPartitions(c)) /\ Len(p3 \o ConfigPartitions(c)) = Len(p3) + Len(ConfigPartitions(c))
        /\ \A i \in 1..(Len(p3) + Len(ConfigPartitions(c))) :
             (p3 \o ConfigPartitions(c))[i] = IF i <= Len(p3) THEN p3[i] ELSE ConfigPartitions(c)[i - Len(p3)]
    <3>1. IsSeq(p3) /\ IsSeq(ConfigPartitions(c))
      BY <2>1
    <3> QED
      BY <3>1, Joined
  <2> HIDE DEF f, w
  <2> QED
    BY <2>1, <2>2
<1> HIDE DEF p4
<1>10. /\ Len(all) = w + 2
       /\ \A i \in 1..(w + 2) : all[i] = IF i <= w THEN p4[i] ELSE t[i - w]
  <2>1. IsSeq(p4) /\ Len(p4) = w /\ IsSeq(t) /\ Len(t) = 2
    BY <1>5, <1>9
  <2>2. /\ IsSeq(p4 \o t) /\ Len(p4 \o t) = Len(p4) + Len(t)
        /\ \A i \in 1..(Len(p4) + Len(t)) :
             (p4 \o t)[i] = IF i <= Len(p4) THEN p4[i] ELSE t[i - Len(p4)]
    <3>1. IsSeq(p4) /\ IsSeq(t)
      BY <2>1
    <3> QED
      BY <3>1, Joined
  <2> HIDE DEF f, w
  <2> QED
    BY <2>1, <2>2
<1> HIDE DEF all
<1>11. \A i \in 1..f : all[i] = p3[i]
  BY <1>8, <1>9, <1>10
<1>12. \A i \in 1..12 : all[i] = p2[i]
  BY <1>8, <1>11
<1>13. \A i \in 1..8 : all[i] = p1[i]
  BY <1>7, <1>12
<1>14. /\ all[1] = DoCall("open") /\ all[2] = DoCall("zero")
       /\ all[3] = DoCall("bootsector") /\ all[4] = DoCall("format")
  <2>1. all[1] = p0[1] /\ all[2] = p0[2] /\ all[3] = p0[3] /\ all[4] = p0[4]
    BY <1>6, <1>13
  <2> QED
    BY <1>2, <2>1
<1>15. /\ all[5] = TypeCall(0, "stage two") /\ all[6] = NameCall(0, {FixedName})
       /\ all[7] = SizeCall(0, StageTwoRoom)
       /\ all[8] = DataCall(0, "stage two", StageTwoSize)
  <2>1. /\ all[5] = StageTwo[1] /\ all[6] = StageTwo[2]
        /\ all[7] = StageTwo[3] /\ all[8] = StageTwo[4]
    BY <1>6, <1>13
  <2> QED
    BY <1>3, <2>1
<1>16. /\ all[9] = TypeCall(1, "stage three") /\ all[10] = NameCall(1, {FixedName})
       /\ all[11] = SizeCall(1, StageThreeSize(c))
       /\ all[12] = DataCall(1, "stage three", StageThreeSize(c))
  <2>1. /\ all[9] = StageThree(c)[1] /\ all[10] = StageThree(c)[2]
        /\ all[11] = StageThree(c)[3] /\ all[12] = StageThree(c)[4]
    BY <1>7, <1>12
  <2> QED
    BY <1>4, <2>1
<1>17. ASSUME c.fs_loader
       PROVE  /\ all[13] = TypeCall(2, "file system") /\ all[14] = NameCall(2, {FixedName})
              /\ all[15] = SizeCall(2, c.fs_size) /\ all[16] = MakeCall(Boot)
              /\ all[17] = DoCall("fs")
  <2>1. f = 17
    BY <1>8, <1>17
  <2> HIDE DEF f
  <2>2. /\ all[13] = FileSystem(c)[1] /\ all[14] = FileSystem(c)[2]
        /\ all[15] = FileSystem(c)[3] /\ all[16] = FileSystem(c)[4]
        /\ all[17] = FileSystem(c)[5]
    BY <1>8, <1>11, <2>1
  <2> QED
    BY <1>17, <2>2, FileSystemCalls
<1>18. \A i \in (f + 1)..w :
         all[i] \in {TypeCall(AnyUnused, "other"), NameCall(AnyUnused, Names)}
  <2> SUFFICES ASSUME NEW i \in (f + 1)..w
               PROVE  all[i] \in {TypeCall(AnyUnused, "other"), NameCall(AnyUnused, Names)}
    OBVIOUS
  <2>1. all[i] = ConfigPartitions(c)[i - f]
    BY <1>8, <1>9, <1>10
  <2>2. w = f + 2 * Len(c.partitions) /\ Len(c.partitions) \in Nat
    BY ConfigPartitionCalls DEF WithPartitions
  <2>3. i - f \in 1..(2 * Len(c.partitions))
    BY <1>8, <2>2
  <2> QED
    BY <2>1, <2>3, ConfigPartitionCalls
<1>19. all[w + 1] = DoCall("mbr") /\ all[w + 2] = DoCall("export")
  <2> HIDE DEF w
  <2>1. all[w + 1] = t[1] /\ all[w + 2] = t[2]
    BY <1>9, <1>10
  <2> QED
    BY <1>5, <2>1
<1> HIDE DEF f, w
<1>20. Len(all) = w + 2 /\ w \in Nat /\ f <= w
  BY <1>9, <1>10
<1> QED
  BY <1>1, <1>14, <1>15, <1>16, <1>17, <1>18, <1>19, <1>20 DEF f, w

(* -- The scripts of the other commands ---------------------------------------- *)

\* What a command does between opening the image and saving it.
LEMMA WorkCalls ==
  ASSUME NEW d \in Commands, d.op # "init"
  PROVE  /\ IsSeq(Work(d)) /\ Len(Work(d)) \in Nat \ {0}
         /\ d.op = "read" => Len(Work(d)) = 1 /\ Work(d)[1] = DoCall("look")
         /\ d.op # "read" =>
              \A i \in 1..Len(Work(d)) : \E node \in Nodes : Work(d)[i] = MakeCall(node)
<1>1. CASE d.op = "read"
  <2>1. Work(d) = <<[do |-> "look"]>>
    BY <1>1 DEF Work
  <2>2. IsSeq(Work(d)) /\ Len(Work(d)) = 1 /\ Work(d)[1] = DoCall("look")
    BY <2>1, NoneOrOne DEF DoCall
  <2> QED
    BY <1>1, <2>2
<1>2. CASE d.op # "read"
  <2>1. PICK n \in 1..MaxArgs : d.args \in [1..n -> Nodes]
    BY <1>2 DEF Commands
  <2>2. n \in Nat \ {0} /\ d.args \in Seq(Nodes) /\ Len(d.args) = n
    BY <2>1, NodesAssumption
  <2>3. Work(d) = [j \in 1..n |-> MakeCall(d.args[j])]
    BY <1>2, <2>2 DEF Work, Make, MakeCall
  <2>4. Work(d) \in [1..n -> {MakeCall(node) : node \in Nodes}]
    BY <2>1, <2>3
  <2> HIDE DEF Work
  <2>5. Work(d) \in Seq({MakeCall(node) : node \in Nodes}) /\ Len(Work(d)) = n
    BY <2>2, <2>4
  <2> QED
    BY <1>2, <2>2, <2>4, <2>5 DEF IsSeq
<1> QED
  BY <1>1, <1>2

\* The script of a command that works on an image, call by call.
UsingScriptCalls(s, n, c, d) ==
  /\ n \in Nat \ {0}
  /\ Len(s) = IF c.fs_loader THEN n + 5 ELSE n + 2
  /\ s[1] = DoCall("import") /\ s[2] = DoCall("import fs")
  /\ \A i \in 3..(n + 2) : s[i] = Work(d)[i - 2]
  /\ c.fs_loader => /\ s[n + 3] = DoCall("import") /\ s[n + 4] = DoCall("fs")
                    /\ s[n + 5] = DoCall("export")

\* It opens the image, works on it and saves it.
LEMMA UsingScript ==
  ASSUME NEW c \in Configs, NEW d \in Commands, d.op # "init"
  PROVE  UsingScriptCalls(OpenDisk \o Work(d) \o SaveDisk(c), Len(Work(d)), c, d)
<1> DEFINE o == OpenDisk
           w == Work(d)
           v == SaveDisk(c)
           p == o \o w
           s == p \o v
           n == Len(w)
<1>1. /\ IsSeq(o) /\ Len(o) = 2 /\ o[1] = DoCall("import") /\ o[2] = DoCall("import fs")
  BY Pair DEF OpenDisk, DoCall
<1>2. IsSeq(w) /\ n \in Nat \ {0} /\ Len(w) = n
  BY WorkCalls
<1> HIDE DEF n
<1>3. CASE c.fs_loader
  <2>1. /\ IsSeq(v) /\ Len(v) = 3 /\ v[1] = DoCall("import") /\ v[2] = DoCall("fs")
        /\ v[3] = DoCall("export")
    BY <1>3, Triple DEF SaveDisk, DoCall
  <2> HIDE DEF o, w, v
  <2>2. /\ IsSeq(p) /\ Len(p) = n + 2
        /\ \A i \in 1..(n + 2) : p[i] = IF i <= 2 THEN o[i] ELSE w[i - 2]
    <3>1. IsSeq(o) /\ IsSeq(w)
      BY <1>1, <1>2
    <3>2. /\ IsSeq(o \o w) /\ Len(o \o w) = Len(o) + Len(w)
          /\ \A i \in 1..(Len(o) + Len(w)) : (o \o w)[i] = IF i <= Len(o) THEN o[i] ELSE w[i - Len(o)]
      BY <3>1, Joined
    <3>3. Len(o) = 2 /\ Len(w) = n /\ n \in Nat
      BY <1>1, <1>2
    <3> QED
      BY <3>2, <3>3
  <2> HIDE DEF p, s
  <2>3. /\ Len(s) = n + 5
        /\ \A i \in 1..(n + 5) : s[i] = IF i <= n + 2 THEN p[i] ELSE v[i - (n + 2)]
    <3>1. IsSeq(p) /\ IsSeq(v)
      BY <2>1, <2>2
    <3>2. /\ Len(s) = Len(p) + Len(v)
          /\ \A i \in 1..(Len(p) + Len(v)) : s[i] = IF i <= Len(p) THEN p[i] ELSE v[i - Len(p)]
      BY <3>1, Joined DEF s
    <3>3. Len(p) = n + 2 /\ Len(v) = 3 /\ n \in Nat
      BY <1>2, <2>1, <2>2
    <3> QED
      BY <3>2, <3>3
  <2>4. s[1] = o[1] /\ s[2] = o[2] /\ \A i \in 3..(n + 2) : s[i] = w[i - 2]
    <3>1. n \in Nat \ {0}
      BY <1>2
    <3>2. \A i \in 1..(n + 2) : s[i] = p[i]
      BY <2>3, <3>1
    <3>3. \A i \in 1..(n + 2) : s[i] = IF i <= 2 THEN o[i] ELSE w[i - 2]
      BY <2>2, <3>2
    <3> QED
      BY <3>1, <3>3
  <2>5. s[n + 3] = v[1] /\ s[n + 4] = v[2] /\ s[n + 5] = v[3]
    <3>1. n \in Nat \ {0}
      BY <1>2
    <3> QED
      BY <2>3, <3>1
  <2> QED
    BY <1>1, <1>2, <1>3, <2>1, <2>3, <2>4, <2>5 DEF w, p, o, v, s, n, UsingScriptCalls
<1>4. CASE ~c.fs_loader
  <2>1. IsSeq(v) /\ Len(v) = 0
    BY <1>4, NoneOrOne DEF SaveDisk
  <2> HIDE DEF o, w, v
  <2>2. /\ IsSeq(p) /\ Len(p) = n + 2
        /\ \A i \in 1..(n + 2) : p[i] = IF i <= 2 THEN o[i] ELSE w[i - 2]
    <3>1. IsSeq(o) /\ IsSeq(w)
      BY <1>1, <1>2
    <3>2. /\ IsSeq(o \o w) /\ Len(o \o w) = Len(o) + Len(w)
          /\ \A i \in 1..(Len(o) + Len(w)) : (o \o w)[i] = IF i <= Len(o) THEN o[i] ELSE w[i - Len(o)]
      BY <3>1, Joined
    <3>3. Len(o) = 2 /\ Len(w) = n /\ n \in Nat
      BY <1>1, <1>2
    <3> QED
      BY <3>2, <3>3
  <2> HIDE DEF p, s
  <2>3. Len(s) = n + 2 /\ \A i \in 1..(n + 2) : s[i] = p[i]
    <3>1. IsSeq(p) /\ IsSeq(v)
      BY <2>1, <2>2
    <3>2. /\ Len(s) = Len(p) + Len(v)
          /\ \A i \in 1..(Len(p) + Len(v)) : s[i] = IF i <= Len(p) THEN p[i] ELSE v[i - Len(p)]
      BY <3>1, Joined DEF s
    <3>3. Len(p) = n + 2 /\ Len(v) = 0 /\ n \in Nat
      BY <1>2, <2>1, <2>2
    <3> QED
      BY <3>2, <3>3
  <2>4. s[1] = o[1] /\ s[2] = o[2] /\ \A i \in 3..(n + 2) : s[i] = w[i - 2]
    <3>1. n \in Nat \ {0}
      BY <1>2
    <3> QED
      BY <2>2, <2>3, <3>1
  <2> QED
    BY <1>1, <1>2, <1>4, <2>3, <2>4 DEF w, p, o, v, s, n, UsingScriptCalls
<1> QED
  BY <1>3, <1>4

(* -- The call that runs -------------------------------------------------------- *)

\* Calls by what they are given.
IsType(call, e, type) == call.do = "type" /\ call.entry = e /\ call.type = type
IsName(call, e, names) == call.do = "name" /\ call.entry = e /\ call.names = names
IsSize(call, e, bytes) == call.do = "size" /\ call.entry = e /\ call.bytes = bytes
IsData(call, e, what, bytes) ==
  call.do = "data" /\ call.entry = e /\ call.what = what /\ call.bytes = bytes
IsMake(call, node) == call.do = "make" /\ call.node = node

\* They are given what they are made of.
LEMMA CallFields ==
  /\ \A e, type : IsType(TypeCall(e, type), e, type)
  /\ \A e, names : IsName(NameCall(e, names), e, names)
  /\ \A e, bytes : IsSize(SizeCall(e, bytes), e, bytes)
  /\ \A e, what, bytes : IsData(DataCall(e, what, bytes), e, what, bytes)
  /\ \A node : IsMake(MakeCall(node), node)
  /\ \A do : DoCall(do).do = do
BY DEF DoCall, IsType, IsName, IsSize, IsData, IsMake, TypeCall, NameCall, SizeCall, DataCall, MakeCall

\* The calls of init, and where it makes them.
CallOfInit(call, p, c) ==
  \/ p = 1 /\ call.do = "open"
  \/ p = 2 /\ call.do = "zero"
  \/ p = 3 /\ call.do = "bootsector"
  \/ p = 4 /\ call.do = "format"
  \/ p = 5 /\ IsType(call, 0, "stage two")
  \/ p = 6 /\ IsName(call, 0, {FixedName})
  \/ p = SizeStageTwo /\ IsSize(call, 0, StageTwoRoom)
  \/ p = FillStageTwo /\ IsData(call, 0, "stage two", StageTwoSize)
  \/ p = 9 /\ IsType(call, 1, "stage three")
  \/ p = 10 /\ IsName(call, 1, {FixedName})
  \/ p = SizeStageThree /\ IsSize(call, 1, StageThreeSize(c))
  \/ p = FillStageThree /\ IsData(call, 1, "stage three", StageThreeSize(c))
  \/ c.fs_loader /\ p = 13 /\ IsType(call, 2, "file system")
  \/ c.fs_loader /\ p = 14 /\ IsName(call, 2, {FixedName})
  \/ c.fs_loader /\ p = SizeFs /\ IsSize(call, 2, c.fs_size)
  \/ c.fs_loader /\ p = 16 /\ IsMake(call, Boot)
  \/ c.fs_loader /\ p = FillFs /\ call.do = "fs"
  \/ /\ p > Fixed(c) /\ p <= WithPartitions(c)
     /\ (IsType(call, AnyUnused, "other") \/ IsName(call, AnyUnused, Names))
  \/ p = WithPartitions(c) + 1 /\ call.do = "mbr"
  \/ p = WithPartitions(c) + 2 /\ call.do = "export"

\* There are no others.
LEMMA InitCalls ==
  ASSUME NEW c \in Configs, NEW p \in Nat, 1 <= p, p <= WithPartitions(c) + 2
  PROVE  CallOfInit(CreateDisk(c)[p], p, c)
<1> DEFINE f == Fixed(c)
           w == WithPartitions(c)
           s == CreateDisk(c)
<1>1. w \in Nat /\ f <= w
  BY InitScript
<1>2. f \in {12, 17} /\ (c.fs_loader <=> f = 17)
  BY FixedCalls
<1> HIDE DEF f, w, s
<1>3. CASE p <= 12
  <2>1. \/ p = 1 \/ p = 2 \/ p = 3 \/ p = 4 \/ p = 5 \/ p = 6 \/ p = 7 \/ p = 8
        \/ p = 9 \/ p = 10 \/ p = 11 \/ p = 12
    BY <1>3
  <2>2. /\ s[1] = DoCall("open") /\ s[2] = DoCall("zero")
        /\ s[3] = DoCall("bootsector") /\ s[4] = DoCall("format")
        /\ s[5] = TypeCall(0, "stage two") /\ s[6] = NameCall(0, {FixedName})
        /\ s[7] = SizeCall(0, StageTwoRoom) /\ s[8] = DataCall(0, "stage two", StageTwoSize)
        /\ s[9] = TypeCall(1, "stage three") /\ s[10] = NameCall(1, {FixedName})
        /\ s[11] = SizeCall(1, StageThreeSize(c))
        /\ s[12] = DataCall(1, "stage three", StageThreeSize(c))
    BY InitScript DEF s
  <2>3. /\ IsType(s[5], 0, "stage two") /\ IsName(s[6], 0, {FixedName})
        /\ IsSize(s[7], 0, StageTwoRoom) /\ IsData(s[8], 0, "stage two", StageTwoSize)
        /\ IsType(s[9], 1, "stage three") /\ IsName(s[10], 1, {FixedName})
        /\ IsSize(s[11], 1, StageThreeSize(c))
        /\ IsData(s[12], 1, "stage three", StageThreeSize(c))
    BY <2>2, CallFields
  <2>4. CallOfInit(s[p], p, c)
    <3>1. /\ CallOfInit(s[1], 1, c) /\ CallOfInit(s[2], 2, c)
          /\ CallOfInit(s[3], 3, c) /\ CallOfInit(s[4], 4, c)
      <4>1. /\ s[1].do = "open" /\ s[2].do = "zero"
            /\ s[3].do = "bootsector" /\ s[4].do = "format"
        BY <2>2, CallFields
      <4> QED
        BY <4>1, Zenon DEF CallOfInit
    <3>2. CallOfInit(s[5], 5, c) /\ CallOfInit(s[6], 6, c)
      BY <2>3 DEF CallOfInit
    <3>3. /\ CallOfInit(s[7], 7, c) /\ CallOfInit(s[8], 8, c)
      BY <2>3 DEF CallOfInit, SizeStageTwo, FillStageTwo
    <3>4. CallOfInit(s[9], 9, c) /\ CallOfInit(s[10], 10, c)
      BY <2>3 DEF CallOfInit
    <3>5. /\ CallOfInit(s[11], 11, c) /\ CallOfInit(s[12], 12, c)
      BY <2>3 DEF CallOfInit, SizeStageThree, FillStageThree
    <3> QED
      BY <2>1, <3>1, <3>2, <3>3, <3>4, <3>5
  <2> QED
    BY <2>4 DEF s
<1>4. CASE p > 12 /\ p <= f
  <2>1. f = 17
    BY <1>2, <1>4
  <2>2. c.fs_loader /\ (p = 13 \/ p = 14 \/ p = 15 \/ p = 16 \/ p = 17)
    BY <1>2, <1>4, <2>1
  <2>3. /\ s[13] = TypeCall(2, "file system") /\ s[14] = NameCall(2, {FixedName})
        /\ s[15] = SizeCall(2, c.fs_size) /\ s[16] = MakeCall(Boot) /\ s[17] = DoCall("fs")
    BY <2>2, InitScript DEF s
  <2>4. /\ IsType(s[13], 2, "file system") /\ IsName(s[14], 2, {FixedName})
        /\ IsSize(s[15], 2, c.fs_size) /\ IsMake(s[16], Boot) /\ s[17].do = "fs"
    <3>1. s[17].do = "fs"
      BY <2>3, CallFields
    <3> QED
      BY <2>3, <3>1, CallFields
  <2>5. CallOfInit(s[p], p, c)
    <3>1. CallOfInit(s[13], 13, c) /\ CallOfInit(s[14], 14, c) /\ CallOfInit(s[16], 16, c)
      BY <2>2, <2>4 DEF CallOfInit
    <3>2. CallOfInit(s[15], 15, c) /\ CallOfInit(s[17], 17, c)
      BY <2>2, <2>4 DEF CallOfInit, SizeFs, FillFs
    <3> QED
      BY <2>2, <3>1, <3>2
  <2> QED
    BY <2>5 DEF s
<1>5. CASE p > f /\ p <= w
  <2>1. p \in (f + 1)..w
    BY <1>1, <1>2, <1>5
  <2>2. s[p] \in {TypeCall(AnyUnused, "other"), NameCall(AnyUnused, Names)}
    BY <2>1, InitScript DEF f, w, s
  <2>3. IsType(s[p], AnyUnused, "other") \/ IsName(s[p], AnyUnused, Names)
    BY <2>2, CallFields
  <2>4. CallOfInit(s[p], p, c)
    BY <1>5, <2>3 DEF CallOfInit, f, w
  <2> QED
    BY <2>4 DEF s
<1>6. CASE p > w
  <2>1. p = w + 1 \/ p = w + 2
    BY <1>1, <1>6 DEF w
  <2>2. s[w + 1].do = "mbr" /\ s[w + 2].do = "export"
    <3>1. s[w + 1] = DoCall("mbr") /\ s[w + 2] = DoCall("export")
      BY InitScript DEF w, s
    <3> QED
      BY <3>1, CallFields
  <2>3. CallOfInit(s[p], p, c)
    <3>1. CallOfInit(s[w + 1], w + 1, c) /\ CallOfInit(s[w + 2], w + 2, c)
      BY <2>2 DEF CallOfInit, w
    <3> QED
      BY <2>1, <3>1
  <2> QED
    BY <2>3 DEF s
<1> QED
  BY <1>1, <1>2, <1>3, <1>4, <1>5, <1>6

\* The length of the script of init.
LEMMA InitLength ==
  ASSUME ControlInv, Making
  PROVE  /\ config \in Configs
         /\ WithPartitions(config) \in Nat /\ Fixed(config) <= WithPartitions(config)
         /\ Fixed(config) \in {12, 17} /\ (config.fs_loader <=> Fixed(config) = 17)
         /\ Len(Script) = WithPartitions(config) + 2
         /\ place \in Nat /\ 1 <= place /\ place <= Len(Script) + 1
<1>1. config \in Configs /\ Script = CreateDisk(config)
  BY DEF ControlInv, Making, Script
<1>2. /\ WithPartitions(config) \in Nat /\ Fixed(config) <= WithPartitions(config)
      /\ Len(Script) = WithPartitions(config) + 2
  BY <1>1, InitScript
<1>3. Fixed(config) \in {12, 17} /\ (config.fs_loader <=> Fixed(config) = 17)
  BY <1>1, FixedCalls
<1>4. place \in 0..(Len(Script) + 1) /\ place > 0
  BY DEF ControlInv, Making, Running, NoCommand
<1> QED
  BY <1>1, <1>2, <1>3, <1>4

\* The call that init makes where it has got to.
LEMMA MakingCall ==
  ASSUME ControlInv, Making, place <= Len(Script)
  PROVE  CallOfInit(Call, place, config)
<1>1. Call = CreateDisk(config)[place]
  BY DEF Making, Script, Call
<1> QED
  BY <1>1, InitLength, InitCalls

\* The calls of the other commands, whose work is n calls.
CallOfOther(call, p, n, c, d) ==
  \/ p = 1 /\ call.do = "import"
  \/ p = 2 /\ call.do = "import fs"
  \/ p = 3 /\ d.op = "read" /\ call.do = "look"
  \/ /\ p > 2 /\ p <= n + 2 /\ d.op # "read"
     /\ \E node \in Nodes : IsMake(call, node)
  \/ c.fs_loader /\ p = n + 3 /\ call.do = "import"
  \/ c.fs_loader /\ p = n + 4 /\ call.do = "fs"
  \/ c.fs_loader /\ p = n + 5 /\ call.do = "export"

\* There are no others.
LEMMA OtherCalls ==
  ASSUME NEW c \in Configs, NEW d \in Commands, d.op # "init", NEW p \in Nat, 1 <= p,
         NEW s, NEW n, UsingScriptCalls(s, n, c, d), n = Len(Work(d)),
         p <= IF c.fs_loader THEN n + 5 ELSE n + 2
  PROVE  CallOfOther(s[p], p, n, c, d)
<1>1. n \in Nat /\ n >= 1
  <2>1. n \in Nat \ {0}
    BY Zenon DEF UsingScriptCalls
  <2> QED
    BY <2>1
<1>2. CASE p <= 2
  <2>1. p = 1 \/ p = 2
    BY <1>2
  <2>2. s[1] = DoCall("import") /\ s[2] = DoCall("import fs")
    BY Zenon DEF UsingScriptCalls
  <2>3. s[1].do = "import" /\ s[2].do = "import fs"
    BY <2>2, CallFields
  <2>4. CallOfOther(s[1], 1, n, c, d) /\ CallOfOther(s[2], 2, n, c, d)
    BY <2>3, Zenon DEF CallOfOther
  <2> QED
    BY <2>1, <2>4
<1>3. CASE p > 2 /\ p <= n + 2
  <2>1. p - 2 \in 1..n /\ p \in 3..(n + 2)
    BY <1>1, <1>3
  <2>2. s[p] = Work(d)[p - 2]
    BY <2>1 DEF UsingScriptCalls
  <2>3. CASE d.op = "read"
    <3>1. n = 1 /\ Work(d)[1] = DoCall("look")
      BY <2>3, WorkCalls
    <3>2. p = 3 /\ p - 2 = 1
      BY <2>1, <3>1
    <3> QED
      BY <2>2, <2>3, <3>1, <3>2, CallFields DEF CallOfOther
  <2>4. CASE d.op # "read"
    <3>1. \E node \in Nodes : IsMake(Work(d)[p - 2], node)
      BY <2>1, <2>4, WorkCalls, CallFields
    <3> QED
      BY <1>3, <2>2, <2>4, <3>1 DEF CallOfOther
  <2> QED
    BY <2>3, <2>4
<1>4. CASE p > n + 2
  <2>1. CASE c.fs_loader
    <3>1. p = n + 3 \/ p = n + 4 \/ p = n + 5
      BY <1>1, <1>4, <2>1
    <3>2. /\ s[n + 3] = DoCall("import") /\ s[n + 4] = DoCall("fs")
          /\ s[n + 5] = DoCall("export")
      BY <2>1, Zenon DEF UsingScriptCalls
    <3>3. s[n + 3].do = "import" /\ s[n + 4].do = "fs" /\ s[n + 5].do = "export"
      BY <3>2, CallFields
    <3>4. /\ CallOfOther(s[n + 3], n + 3, n, c, d) /\ CallOfOther(s[n + 4], n + 4, n, c, d)
          /\ CallOfOther(s[n + 5], n + 5, n, c, d)
      BY <2>1, <3>3, Zenon DEF CallOfOther
    <3> QED
      BY <3>1, <3>4
  <2>2. CASE ~c.fs_loader
    BY <1>1, <1>4, <2>2
  <2> QED
    BY <2>1, <2>2
<1> QED
  BY <1>1, <1>2, <1>3, <1>4

\* The calls of work of the command that runs.
WorkLength == Len(Work(cmd))

\* The length of its script.
LEMMA OtherLength ==
  ASSUME ControlInv, Using
  PROVE  /\ config \in Configs /\ config.fs_loader \in BOOLEAN
         /\ cmd \in Commands /\ cmd.op # "init"
         /\ WorkLength \in Nat /\ 1 <= WorkLength
         /\ config.fs_loader => Len(Script) = WorkLength + 5
         /\ ~config.fs_loader => Len(Script) = WorkLength + 2
         /\ place \in Nat /\ 1 <= place /\ place <= Len(Script) + 1
         /\ UsingScriptCalls(Script, WorkLength, config, cmd)
<1>1. config \in Configs /\ cmd \in Commands /\ cmd.op # "init"
  BY DEF ControlInv, Using, Making, Running
<1>2. Script = OpenDisk \o Work(cmd) \o SaveDisk(config)
  BY DEF Using, Making, Script
<1>3. UsingScriptCalls(Script, WorkLength, config, cmd)
  BY <1>1, <1>2, UsingScript DEF WorkLength
<1>4. config.fs_loader \in BOOLEAN
  BY <1>1, ConfigsAssumption
<1>5. /\ WorkLength \in Nat /\ 1 <= WorkLength
      /\ Len(Script) = IF config.fs_loader THEN WorkLength + 5 ELSE WorkLength + 2
  <2>1. /\ WorkLength \in Nat \ {0}
        /\ Len(Script) = IF config.fs_loader THEN WorkLength + 5 ELSE WorkLength + 2
    BY <1>3, Zenon DEF UsingScriptCalls
  <2> QED
    BY <2>1
<1>6. place \in 0..(Len(Script) + 1) /\ place > 0
  BY DEF ControlInv, Using
<1>7. Len(Script) \in Nat
  BY <1>4, <1>5
<1> QED
  BY <1>1, <1>3, <1>4, <1>5, <1>6, <1>7

\* The call that it makes where it has got to.
LEMMA UsingCall ==
  ASSUME ControlInv, Using, place <= Len(Script)
  PROVE  CallOfOther(Call, place, WorkLength, config, cmd)
<1>1. /\ config \in Configs /\ config.fs_loader \in BOOLEAN
      /\ cmd \in Commands /\ cmd.op # "init"
      /\ place \in Nat /\ 1 <= place
      /\ UsingScriptCalls(Script, WorkLength, config, cmd)
      /\ WorkLength \in Nat
  BY OtherLength
<1>2. place <= IF config.fs_loader THEN WorkLength + 5 ELSE WorkLength + 2
  BY OtherLength
<1>3. WorkLength = Len(Work(cmd)) /\ Call = Script[place]
  BY DEF WorkLength, Call
<1> QED
  BY <1>1, <1>2, <1>3, OtherCalls

(* -- Where each call is made --------------------------------------------------- *)

\* The calls that type or name an entry,
Labels == /\ Call.entry \in {AnyUnused, 0, 1, 2}
          /\ \/ place \in {5, 6, 9, 10}
             \/ config.fs_loader /\ place \in {13, 14}
             \/ place > Fixed(config) /\ place <= WithPartitions(config)

\* those that size one,
Sizing == \/ place = SizeStageTwo /\ Call.entry = 0 /\ Call.bytes = StageTwoRoom
          \/ place = SizeStageThree /\ Call.entry = 1 /\ Call.bytes = StageThreeSize(config)
          \/ /\ config.fs_loader /\ place = SizeFs
             /\ Call.entry = 2 /\ Call.bytes = config.fs_size

\* and those that fill one.
Filling == \/ /\ place = FillStageTwo /\ Call.entry = 0
              /\ Call.what = "stage two" /\ Call.bytes = StageTwoSize
           \/ /\ place = FillStageThree /\ Call.entry = 1
              /\ Call.what = "stage three" /\ Call.bytes = StageThreeSize(config)

\* Where the call "open" is made.
LEMMA OpenPlace ==
  ASSUME ControlInv, Calls("open")
  PROVE  Making /\ place = 1
<1>1. Call.do = "open" /\ (Making \/ Using)
  BY DEF Calls, Using
<1>2. Making => CallOfInit(Call, place, config)
  BY MakingCall DEF Calls
<1>3. Using => CallOfOther(Call, place, WorkLength, config, cmd)
  BY UsingCall DEF Calls
<1>4. ASSUME Making
      PROVE  place = 1
  BY <1>1, <1>2, <1>4
     DEF CallOfInit, IsType, IsName, IsSize, IsData, IsMake
<1>5. ASSUME Using
      PROVE  FALSE
  BY <1>1, <1>3, <1>5 DEF CallOfOther, IsMake
<1> QED
  BY <1>1, <1>4, <1>5

\* Where the call "zero" is made.
LEMMA ZeroPlace ==
  ASSUME ControlInv, Calls("zero")
  PROVE  Making /\ place = 2
<1>1. Call.do = "zero" /\ (Making \/ Using)
  BY DEF Calls, Using
<1>2. Making => CallOfInit(Call, place, config)
  BY MakingCall DEF Calls
<1>3. Using => CallOfOther(Call, place, WorkLength, config, cmd)
  BY UsingCall DEF Calls
<1>4. ASSUME Making
      PROVE  place = 2
  BY <1>1, <1>2, <1>4
     DEF CallOfInit, IsType, IsName, IsSize, IsData, IsMake
<1>5. ASSUME Using
      PROVE  FALSE
  BY <1>1, <1>3, <1>5 DEF CallOfOther, IsMake
<1> QED
  BY <1>1, <1>4, <1>5

\* Where the call "bootsector" is made.
LEMMA BootsectorPlace ==
  ASSUME ControlInv, Calls("bootsector")
  PROVE  Making /\ place = 3
<1>1. Call.do = "bootsector" /\ (Making \/ Using)
  BY DEF Calls, Using
<1>2. Making => CallOfInit(Call, place, config)
  BY MakingCall DEF Calls
<1>3. Using => CallOfOther(Call, place, WorkLength, config, cmd)
  BY UsingCall DEF Calls
<1>4. ASSUME Making
      PROVE  place = 3
  BY <1>1, <1>2, <1>4
     DEF CallOfInit, IsType, IsName, IsSize, IsData, IsMake
<1>5. ASSUME Using
      PROVE  FALSE
  BY <1>1, <1>3, <1>5 DEF CallOfOther, IsMake
<1> QED
  BY <1>1, <1>4, <1>5

\* Where the call "format" is made.
LEMMA FormatPlace ==
  ASSUME ControlInv, Calls("format")
  PROVE  Making /\ place = 4
<1>1. Call.do = "format" /\ (Making \/ Using)
  BY DEF Calls, Using
<1>2. Making => CallOfInit(Call, place, config)
  BY MakingCall DEF Calls
<1>3. Using => CallOfOther(Call, place, WorkLength, config, cmd)
  BY UsingCall DEF Calls
<1>4. ASSUME Making
      PROVE  place = 4
  BY <1>1, <1>2, <1>4
     DEF CallOfInit, IsType, IsName, IsSize, IsData, IsMake
<1>5. ASSUME Using
      PROVE  FALSE
  BY <1>1, <1>3, <1>5 DEF CallOfOther, IsMake
<1> QED
  BY <1>1, <1>4, <1>5

\* Where the call "type" is made.
LEMMA TypePlace ==
  ASSUME ControlInv, Calls("type")
  PROVE  Making /\ Labels /\ Call.type \in Uuids
<1>1. Call.do = "type" /\ (Making \/ Using)
  BY DEF Calls, Using
<1>2. Making => CallOfInit(Call, place, config)
  BY MakingCall DEF Calls
<1>3. Using => CallOfOther(Call, place, WorkLength, config, cmd)
  BY UsingCall DEF Calls
<1>4. ASSUME Making
      PROVE  Labels /\ Call.type \in Uuids
  BY <1>1, <1>2, <1>4, TypesAreUuidsAssumption
     DEF Labels, CallOfInit, IsType, IsName, IsSize, IsData, IsMake
<1>5. ASSUME Using
      PROVE  FALSE
  BY <1>1, <1>3, <1>5 DEF CallOfOther, IsMake
<1> QED
  BY <1>1, <1>4, <1>5

\* Where the call "name" is made.
LEMMA NamePlace ==
  ASSUME ControlInv, Calls("name")
  PROVE  Making /\ Labels /\ Call.names \subseteq Names
<1>1. Call.do = "name" /\ (Making \/ Using)
  BY DEF Calls, Using
<1>2. Making => CallOfInit(Call, place, config)
  BY MakingCall DEF Calls
<1>3. Using => CallOfOther(Call, place, WorkLength, config, cmd)
  BY UsingCall DEF Calls
<1>4. ASSUME Making
      PROVE  Labels /\ Call.names \subseteq Names
  BY <1>1, <1>2, <1>4, FixedNameAssumption
     DEF Labels, CallOfInit, IsType, IsName, IsSize, IsData, IsMake
<1>5. ASSUME Using
      PROVE  FALSE
  BY <1>1, <1>3, <1>5 DEF CallOfOther, IsMake
<1> QED
  BY <1>1, <1>4, <1>5

\* Where the call "size" is made.
LEMMA SizePlace ==
  ASSUME ControlInv, Calls("size")
  PROVE  Making /\ Sizing
<1>1. Call.do = "size" /\ (Making \/ Using)
  BY DEF Calls, Using
<1>2. Making => CallOfInit(Call, place, config)
  BY MakingCall DEF Calls
<1>3. Using => CallOfOther(Call, place, WorkLength, config, cmd)
  BY UsingCall DEF Calls
<1>4. ASSUME Making
      PROVE  Sizing
  BY <1>1, <1>2, <1>4
     DEF Sizing, SizeStageTwo, SizeStageThree, SizeFs, CallOfInit, IsType, IsName, IsSize, IsData, IsMake
<1>5. ASSUME Using
      PROVE  FALSE
  BY <1>1, <1>3, <1>5 DEF CallOfOther, IsMake
<1> QED
  BY <1>1, <1>4, <1>5

\* Where the call "data" is made.
LEMMA DataPlace ==
  ASSUME ControlInv, Calls("data")
  PROVE  Making /\ Filling
<1>1. Call.do = "data" /\ (Making \/ Using)
  BY DEF Calls, Using
<1>2. Making => CallOfInit(Call, place, config)
  BY MakingCall DEF Calls
<1>3. Using => CallOfOther(Call, place, WorkLength, config, cmd)
  BY UsingCall DEF Calls
<1>4. ASSUME Making
      PROVE  Filling
  BY <1>1, <1>2, <1>4
     DEF Filling, FillStageTwo, FillStageThree, CallOfInit, IsType, IsName, IsSize, IsData, IsMake
<1>5. ASSUME Using
      PROVE  FALSE
  BY <1>1, <1>3, <1>5 DEF CallOfOther, IsMake
<1> QED
  BY <1>1, <1>4, <1>5

\* Where the call "mbr" is made.
LEMMA MbrPlace ==
  ASSUME ControlInv, Calls("mbr")
  PROVE  Making /\ place = WithPartitions(config) + 1
<1>1. Call.do = "mbr" /\ (Making \/ Using)
  BY DEF Calls, Using
<1>2. Making => CallOfInit(Call, place, config)
  BY MakingCall DEF Calls
<1>3. Using => CallOfOther(Call, place, WorkLength, config, cmd)
  BY UsingCall DEF Calls
<1>4. ASSUME Making
      PROVE  place = WithPartitions(config) + 1
  BY <1>1, <1>2, <1>4
     DEF CallOfInit, IsType, IsName, IsSize, IsData, IsMake
<1>5. ASSUME Using
      PROVE  FALSE
  BY <1>1, <1>3, <1>5 DEF CallOfOther, IsMake
<1> QED
  BY <1>1, <1>4, <1>5

\* Where the call "make" is made.
LEMMA MakePlace ==
  ASSUME ControlInv, Calls("make")
  PROVE  /\ Call.node \in Nodes
         /\ \/ Making /\ config.fs_loader /\ place = 16
            \/ Using /\ 2 < place /\ place <= WorkLength + 2 /\ cmd.op # "read"
<1>1. Call.do = "make" /\ (Making \/ Using)
  BY DEF Calls, Using
<1>2. Making => CallOfInit(Call, place, config)
  BY MakingCall DEF Calls
<1>3. Using => CallOfOther(Call, place, WorkLength, config, cmd)
  BY UsingCall DEF Calls
<1>4. ASSUME Making
      PROVE  Call.node \in Nodes /\ config.fs_loader /\ place = 16
  BY <1>1, <1>2, <1>4, NodesAssumption
     DEF CallOfInit, IsType, IsName, IsSize, IsData, IsMake
<1>5. ASSUME Using
      PROVE  Call.node \in Nodes /\ 2 < place /\ place <= WorkLength + 2 /\ cmd.op # "read"
  BY <1>1, <1>3, <1>5 DEF CallOfOther, IsMake
<1> QED
  BY <1>1, <1>4, <1>5

\* Where the call "look" is made.
LEMMA LookPlace ==
  ASSUME ControlInv, Calls("look")
  PROVE  Using /\ place = 3
<1>1. Call.do = "look" /\ (Making \/ Using)
  BY DEF Calls, Using
<1>2. Making => CallOfInit(Call, place, config)
  BY MakingCall DEF Calls
<1>3. Using => CallOfOther(Call, place, WorkLength, config, cmd)
  BY UsingCall DEF Calls
<1>4. ASSUME Making
      PROVE  FALSE
  BY <1>1, <1>2, <1>4
     DEF CallOfInit, IsType, IsName, IsSize, IsData, IsMake
<1>5. ASSUME Using
      PROVE  place = 3
  BY <1>1, <1>3, <1>5 DEF CallOfOther, IsMake
<1> QED
  BY <1>1, <1>4, <1>5

\* Where the call "import" is made.
LEMMA ImportPlace ==
  ASSUME ControlInv, Calls("import")
  PROVE  Using /\ (place # 1 => config.fs_loader /\ place = WorkLength + 3)
<1>1. Call.do = "import" /\ (Making \/ Using)
  BY DEF Calls, Using
<1>2. Making => CallOfInit(Call, place, config)
  BY MakingCall DEF Calls
<1>3. Using => CallOfOther(Call, place, WorkLength, config, cmd)
  BY UsingCall DEF Calls
<1>4. ASSUME Making
      PROVE  FALSE
  BY <1>1, <1>2, <1>4
     DEF CallOfInit, IsType, IsName, IsSize, IsData, IsMake
<1>5. ASSUME Using
      PROVE  (place # 1 => config.fs_loader /\ place = WorkLength + 3)
  BY <1>1, <1>3, <1>5 DEF CallOfOther, IsMake
<1> QED
  BY <1>1, <1>4, <1>5

\* Where the call "import fs" is made.
LEMMA ImportFsPlace ==
  ASSUME ControlInv, Calls("import fs")
  PROVE  Using /\ place = 2
<1>1. Call.do = "import fs" /\ (Making \/ Using)
  BY DEF Calls, Using
<1>2. Making => CallOfInit(Call, place, config)
  BY MakingCall DEF Calls
<1>3. Using => CallOfOther(Call, place, WorkLength, config, cmd)
  BY UsingCall DEF Calls
<1>4. ASSUME Making
      PROVE  FALSE
  BY <1>1, <1>2, <1>4
     DEF CallOfInit, IsType, IsName, IsSize, IsData, IsMake
<1>5. ASSUME Using
      PROVE  place = 2
  BY <1>1, <1>3, <1>5 DEF CallOfOther, IsMake
<1> QED
  BY <1>1, <1>4, <1>5

\* Where the call "fs" is made.
LEMMA FsPlace ==
  ASSUME ControlInv, Calls("fs")
  PROVE  /\ config.fs_loader
         /\ (Making /\ place = FillFs) \/ (Using /\ place = WorkLength + 4)
<1>1. Call.do = "fs" /\ (Making \/ Using)
  BY DEF Calls, Using
<1>2. Making => CallOfInit(Call, place, config)
  BY MakingCall DEF Calls
<1>3. Using => CallOfOther(Call, place, WorkLength, config, cmd)
  BY UsingCall DEF Calls
<1>4. ASSUME Making
      PROVE  config.fs_loader /\ place = FillFs
  BY <1>1, <1>2, <1>4
     DEF CallOfInit, IsType, IsName, IsSize, IsData, IsMake
<1>5. ASSUME Using
      PROVE  config.fs_loader /\ place = WorkLength + 4
  BY <1>1, <1>3, <1>5 DEF CallOfOther, IsMake
<1> QED
  BY <1>1, <1>4, <1>5

\* Where the call "export" is made.
LEMMA ExportPlace ==
  ASSUME ControlInv, Calls("export")
  PROVE  \/ Making /\ place = WithPartitions(config) + 2
         \/ Using /\ config.fs_loader /\ place = WorkLength + 5
<1>1. Call.do = "export" /\ (Making \/ Using)
  BY DEF Calls, Using
<1>2. Making => CallOfInit(Call, place, config)
  BY MakingCall DEF Calls
<1>3. Using => CallOfOther(Call, place, WorkLength, config, cmd)
  BY UsingCall DEF Calls
<1>4. ASSUME Making
      PROVE  place = WithPartitions(config) + 2
  BY <1>1, <1>2, <1>4
     DEF CallOfInit, IsType, IsName, IsSize, IsData, IsMake
<1>5. ASSUME Using
      PROVE  config.fs_loader /\ place = WorkLength + 5
  BY <1>1, <1>3, <1>5 DEF CallOfOther, IsMake
<1> QED
  BY <1>1, <1>4, <1>5

(* -- Steps inside a command ---------------------------------------------------- *)

\* The script of a command does not change while it runs.
LEMMA SameScript ==
  ASSUME UNCHANGED <<cmd, config>>
  PROVE  /\ Script' = Script /\ (Making' <=> Making) /\ (Using' <=> Using)
         /\ (Running' <=> Running) /\ WorkLength' = WorkLength
BY DEF Script, Making, Using, Running, WorkLength

\* A command is init or another one, and where it is in its script.
LEMMA WhichCommand ==
  ASSUME ControlInv, Running
  PROVE  /\ Making \/ Using
         /\ Len(Script) \in Nat \ {0} /\ place \in Nat \ {0} /\ place <= Len(Script) + 1
         /\ config \in Configs /\ made \in Configs /\ config.fs_loader \in BOOLEAN
         /\ tree \in SUBSET Nodes /\ saved \in SUBSET Nodes
<1>1. Making \/ Using
  BY DEF Using
<1>2. CASE Making
  BY <1>1, <1>2, InitLength, ConfigsAssumption DEF ControlInv
<1>3. CASE Using
  <2>1. Len(Script) \in Nat \ {0} /\ place \in Nat \ {0} /\ place <= Len(Script) + 1
    BY <1>3, OtherLength
  <2> QED
    BY <1>1, <2>1, ConfigsAssumption DEF ControlInv
<1> QED
  BY <1>1, <1>2, <1>3

\* The call that runs is named by what it does.
LEMMA OneCall ==
  ASSUME NEW this, NEW that, this # that, Calls(this)
  PROVE  ~Calls(that)
BY DEF Calls

\* Only an export writes the table, and only a scan is in the middle of a call.
LEMMA NotExporting ==
  ASSUME ControlInv, ~Calls("export")
  PROVE  io = NoIo /\ At("none")
BY DEF ControlInv, NoIo, At

\* What a step leaves that stays in its command.
LEMMA StepControl ==
  ASSUME ControlInv, Running, place <= Len(Script), SameCommand,
         place' \in {place, place + 1}, k' \in Nat, tree' \in SUBSET Nodes,
         made' \in {made, config}, saved' \in SUBSET Nodes, unsaved' \in BOOLEAN,
         (Calls("export") /\ k # 0)' => io'.step # "none",
         ~(Calls("export") /\ k # 0)' => io' = NoIo,
         pc' = "scan" => Calls("size")'
  PROVE  ControlInv'
<1>1. Script' = Script /\ (Running' <=> Running) /\ cmd' = cmd /\ config' = config /\ exit' = exit
  BY SameScript DEF SameCommand
<1>2. place' \in 0..(Len(Script') + 1) /\ place' > 0
  BY <1>1, WhichCommand
<1> QED
  BY <1>1, <1>2 DEF ControlInv

\* The checksums matter when no command runs.
LEMMA StillRunning ==
  ASSUME Running, SameCommand
  PROVE  ChecksumsComplete'
BY DEF ChecksumsComplete, Running, SameCommand

\* While the image stays, what is said of it stays.
LEMMA ImageSame ==
  ASSUME UNCHANGED disk
  PROVE  /\ ImageInv' <=> ImageInv
         /\ IsWhole' <=> IsWhole
         /\ Holds(1, "header")' <=> Holds(1, "header")
         /\ ImportedPrimary' = ImportedPrimary /\ ImportedBackup' = ImportedBackup
         /\ OnImage' = OnImage /\ ImportedPrimaryEntries' = ImportedPrimaryEntries
         /\ SumsComplete' <=> SumsComplete
<1>1. \A lba, kind : Holds(lba, kind)' <=> Holds(lba, kind)
  BY DEF Holds
<1>2. \A lba : HeaderAt(lba)' = HeaderAt(lba)
  BY <1>1 DEF HeaderAt
<1>3. \A lba : ArrayAt(lba)' = ArrayAt(lba)
  BY DEF ArrayAt, EntriesAt, Holds
<1>4. ImportedPrimary' = ImportedPrimary /\ ImportedPrimaryEntries' = ImportedPrimaryEntries
  BY <1>2, <1>3 DEF ImportedPrimary, ImportedPrimaryEntries
<1>5. ImportedBackup' = ImportedBackup
  BY <1>2, <1>4 DEF ImportedBackup
<1>6. OnImage' = OnImage
  BY <1>3, <1>4, <1>5 DEF OnImage
<1>7. IsWhole' <=> IsWhole
  BY <1>1, <1>4, <1>5 DEF IsWhole
<1>8. Headers' = Headers
  BY <1>4 DEF Headers
<1>9. \A x : /\ EntriesSumRight(x)' <=> EntriesSumRight(x)
             /\ HeaderSumRight(x)' <=> HeaderSumRight(x)
             /\ NoStaleSum(x)' <=> NoStaleSum(x)
  BY <1>3 DEF EntriesSumRight, HeaderSumRight, NoStaleSum, HeaderSum
<1>10. SumsComplete' <=> SumsComplete
  BY <1>8, <1>9 DEF SumsComplete
<1>11. SectorsTyped' /\ WholeImage' <=> SectorsTyped /\ WholeImage
  BY DEF SectorsTyped, WholeImage
<1>12. PrimarySound' <=> PrimarySound
  BY <1>4 DEF PrimarySound
<1>13. NoBackup(ImportedPrimary.backup_lba)' <=> NoBackup(ImportedPrimary.backup_lba)
  BY <1>4 DEF NoBackup, Holds
<1>14. TableSound(OnImage)' <=> TableSound(OnImage)
  BY <1>6
<1>15. (\A lba \in Headers : NoStaleSum(disk[lba]))' <=> \A lba \in Headers : NoStaleSum(disk[lba])
  BY <1>8, <1>9
<1>16. ImageInv' <=> ImageInv
  BY <1>1, <1>7, <1>11, <1>12, <1>13, <1>14, <1>15 DEF ImageInv
<1> QED
  BY <1>1, <1>4, <1>5, <1>6, <1>7, <1>10, <1>16

\* And of what it does not hold yet.
LEMMA NoTableSame ==
  ASSUME UNCHANGED <<disk, config>>
  PROVE  NoTable' <=> NoTable
BY DEF NoTable

\* LayoutInv depends on the image and on what the last init and command promised only.
LEMMA LayoutSame ==
  ASSUME UNCHANGED <<disk, promises>>, LayoutInv
  PROVE  LayoutInv'
<1>1. /\ IsWhole' <=> IsWhole
      /\ OnImage' = OnImage /\ ImportedPrimaryEntries' = ImportedPrimaryEntries
      /\ SumsComplete' <=> SumsComplete
  BY ImageSame
<1>2. layout' = layout /\ made' = made /\ saved' = saved /\ unsaved' = unsaved /\ disk' = disk
  BY DEF promises
<1>3. BootSound(ImportedPrimaryEntries, made)' <=> BootSound(ImportedPrimaryEntries, made)
  BY <1>1, <1>2 DEF BootSound, Filled, HasRoom
<1>4. TreeFilled(ImportedPrimaryEntries[FsEntry], saved, StreamLength(saved))'
      <=> TreeFilled(ImportedPrimaryEntries[FsEntry], saved, StreamLength(saved))
  BY <1>1, <1>2 DEF TreeFilled, StreamLength
<1> QED
  BY <1>1, <1>2, <1>3, <1>4 DEF LayoutInv

(* -- Between two commands ------------------------------------------------------- *)

\* The script of no command has a length too.
LEMMA NoCommandLength ==
  ASSUME NEW c \in Configs
  PROVE  Len(OpenDisk \o Work(NoCommand) \o SaveDisk(c)) \in Nat
<1>1. IsSeq(OpenDisk)
  BY Pair DEF OpenDisk
<1>2. IsSeq(Work(NoCommand))
  <2>1. Work(NoCommand) = [j \in 1..0 |-> MakeCall(<<>>[j])]
    BY NoneOrOne DEF NoCommand, Work, Make, MakeCall
  <2>2. Work(NoCommand) \in Seq({})
    BY <2>1
  <2> QED
    BY <2>2 DEF IsSeq
<1>3. IsSeq(SaveDisk(c))
  <2>1. CASE c.fs_loader
    BY <2>1, Triple DEF SaveDisk
  <2>2. CASE ~c.fs_loader
    BY <2>2, NoneOrOne DEF SaveDisk
  <2> QED
    BY <2>1, <2>2
<1>4. PICK o, w, s : o = OpenDisk /\ w = Work(NoCommand) /\ s = SaveDisk(c)
  OBVIOUS
<1>5. IsSeq(o) /\ IsSeq(w) /\ IsSeq(s)
  BY <1>1, <1>2, <1>3, <1>4
<1>6. IsSeq(o \o w)
  BY <1>5, Joined
<1>7. Len((o \o w) \o s) = Len(o \o w) + Len(s) /\ Len(o \o w) \in Nat /\ Len(s) \in Nat
  BY <1>5, <1>6, Joined
<1>8. Len((o \o w) \o s) \in Nat
  BY <1>7
<1> QED
  BY <1>4, <1>8

\* Whatever runs, its script has a length.
LEMMA AnyScript ==
  ASSUME config \in Configs, cmd \in Commands \cup {NoCommand}
  PROVE  Len(Script) \in Nat
<1>1. CASE cmd.op = "init"
  <2>1. Script = CreateDisk(config)
    BY <1>1 DEF Script
  <2>2. WithPartitions(config) \in Nat /\ Len(CreateDisk(config)) = WithPartitions(config) + 2
    BY InitScript
  <2> QED
    BY <2>1, <2>2
<1>2. CASE cmd.op # "init" /\ cmd \in Commands
  <2>1. UsingScriptCalls(Script, Len(Work(cmd)), config, cmd)
    BY <1>2, UsingScript DEF Script
  <2>2. /\ Len(Work(cmd)) \in Nat \ {0}
        /\ Len(Script) = IF config.fs_loader THEN Len(Work(cmd)) + 5 ELSE Len(Work(cmd)) + 2
    BY <2>1, Zenon DEF UsingScriptCalls
  <2> QED
    BY <2>2
<1>3. CASE cmd = NoCommand
  <2>1. Script = OpenDisk \o Work(NoCommand) \o SaveDisk(config)
    BY <1>3 DEF Script, NoCommand
  <2> QED
    BY <2>1, NoCommandLength
<1> QED
  BY <1>1, <1>2, <1>3

\* No command is none of the commands.
LEMMA NoneRuns ==
  /\ NoCommand.op = "none" /\ NoCommand \notin Commands
  /\ \A c \in Commands : c.op \in {"init", "read", "make"}
<1>1. \A c \in Commands : c.op \in {"init", "read", "make"}
  BY DEF Commands
<1> QED
  BY <1>1 DEF NoCommand

\* At first there is no image.
LEMMA UtilInitInv == UtilInit => UtilInv
<1> SUFFICES ASSUME UtilInit PROVE UtilInv
  OBVIOUS
<1>1. /\ Init /\ disk = [s \in {} |-> Blank] /\ io = NoIo /\ config \in Configs
      /\ cmd = NoCommand /\ place = 0 /\ k = 0 /\ tree = {} /\ exit = "none"
      /\ layout = {} /\ made = config /\ saved = {} /\ unsaved = FALSE
  BY DEF UtilInit
<1>2. ~Running /\ ~Making /\ ~Using /\ ~Saving
  BY <1>1, NoneRuns DEF Running, Making, Using, Saving
<1>3. DOMAIN disk = {} /\ (\A lba, kind : ~Holds(lba, kind)) /\ ~IsWhole
  BY <1>1 DEF IsWhole, Holds
<1>4. ControlInv
  <2>1. place \in 0..(Len(Script) + 1)
    BY <1>1, AnyScript
  <2>2. ~Calls("export") /\ pc = "idle"
    BY <1>1, <1>2 DEF Calls, Init
  <2>3. cmd \in Commands \cup {NoCommand} /\ made \in Configs /\ (Running <=> place > 0)
    BY <1>1, <1>2
  <2> QED
    BY <1>1, <2>1, <2>2, <2>3 DEF ControlInv
<1>5. ImageInv
  BY <1>3 DEF ImageInv, SectorsTyped, WholeImage
<1>6. LayoutInv /\ ChecksumsComplete
  BY <1>1 DEF LayoutInv, ChecksumsComplete
<1>7. MemoryInv
  BY <1>1, <1>2 DEF MemoryInv, ImportedInMemory
<1>8. MakingInv /\ UsingInv
  BY <1>2 DEF MakingInv, UsingInv
<1>9. ExportInv
  BY <1>1, <1>2, InitTypes DEF ExportInv, NoIo, At
<1> QED
  BY <1>4, <1>5, <1>6, <1>7, <1>8, <1>9 DEF UtilInv

\* A command begins with nothing in memory.
LEMMA StartInv ==
  ASSUME UtilInv, Start
  PROVE  UtilInv'
<1>1. /\ ~Running /\ cmd' \in Commands /\ config' \in Configs /\ place' = 1 /\ k' = 0
      /\ changed' = FALSE /\ exit' = "none"
      /\ UNCHANGED <<imageVars, tree, promises>>
  BY DEF Start
<1>2. /\ UNCHANGED <<vars, disk, io>> /\ layout' = layout /\ made' = made /\ saved' = saved
      /\ unsaved' = unsaved /\ tree' = tree
  BY <1>1 DEF imageVars, promises
<1>3. ControlInv /\ ImageInv /\ LayoutInv /\ MemoryInv /\ ExportInv
  BY DEF UtilInv
<1>4. Init /\ io = NoIo
  BY <1>1, <1>3 DEF ControlInv, Calls, MemoryInv, NothingInMemory
<1>5. Running' /\ (Making' \/ Using')
  BY <1>1, NoneRuns DEF Running, Making, Using
<1>6. Len(Script') \in Nat /\ Len(Script') > 2 /\ (Using' /\ config'.fs_loader => Len(Script') > 5)
  <2>1. CASE Making'
    <3>1. Len(Script') = WithPartitions(config') + 2 /\ WithPartitions(config') \in Nat
          /\ Fixed(config') <= WithPartitions(config') /\ Fixed(config') \in {12, 17}
      BY <1>1, <2>1, InitScript, FixedCalls DEF Making, Script
    <3> QED
      BY <2>1, <3>1 DEF Using
  <2>2. CASE Using'
    <3>1. cmd'.op # "init" /\ Script' = OpenDisk \o Work(cmd') \o SaveDisk(config')
      BY <2>2 DEF Using, Making, Script
    <3>2. UsingScriptCalls(Script', Len(Work(cmd')), config', cmd')
      BY <1>1, <3>1, UsingScript
    <3>3. PICK n : n = Len(Work(cmd'))
      OBVIOUS
    <3>4. n \in Nat \ {0} /\ Len(Script') = IF config'.fs_loader THEN n + 5 ELSE n + 2
      BY <3>2, <3>3, Zenon DEF UsingScriptCalls
    <3> QED
      BY <3>4
  <2> QED
    BY <1>5, <2>1, <2>2
<1>7. ~Saving' /\ Init'
  <2>1. Init'
    BY <1>2, <1>4 DEF Init, vars, headers, entries
  <2> QED
    BY <1>1, <1>6, <2>1 DEF Saving
<1>8. ControlInv'
  BY <1>1, <1>2, <1>3, <1>4, <1>5, <1>6, <1>7 DEF ControlInv, Init
<1>9. ImageInv' /\ LayoutInv'
  BY <1>1, <1>2, <1>3, ImageSame, LayoutSame
<1>10. ChecksumsComplete'
  BY <1>5 DEF ChecksumsComplete
<1>11. MemoryInv'
  BY <1>1, <1>7 DEF MemoryInv, ImportedInMemory
<1>12. MakingInv'
  BY <1>1, <1>6 DEF MakingInv, FillStageTwo, FillStageThree, FillFs
<1>13. UsingInv'
  BY <1>1, <1>6 DEF UsingInv
<1>14. ExportInv'
  BY <1>1, <1>2, <1>3, <1>4, <1>6 DEF ExportInv, NoIo, At
<1> QED
  BY <1>8, <1>9, <1>10, <1>11, <1>12, <1>13, <1>14 DEF UtilInv

\* When a command ends, nothing of it is left in memory.
LEMMA EndInv ==
  ASSUME UtilInv, NEW status \in {"success", "failure"}, End(status),
         made' \in Configs, saved' \in SUBSET Nodes, unsaved' \in BOOLEAN,
         LayoutInv', ChecksumsComplete'
  PROVE  UtilInv'
<1>1. /\ cmd' = NoCommand /\ place' = 0 /\ k' = 0 /\ tree' = {} /\ exit' = status
      /\ changed' = FALSE /\ Forget /\ io' = NoIo /\ disk' = disk /\ config' = config
  BY DEF End
<1>2. ~Running' /\ ~Making' /\ ~Using' /\ ~Saving'
  BY <1>1, NoneRuns DEF Running, Making, Using, Saving
<1>3. config' \in Configs
  BY <1>1 DEF UtilInv, ControlInv
<1>4. Init'
  BY <1>1 DEF Forget, Init
<1>5. ControlInv'
  <2>1. Len(Script)' \in Nat
    <3>1. Script' = OpenDisk \o Work(NoCommand) \o SaveDisk(config')
      BY <1>1, NoneRuns DEF Script
    <3> QED
      BY <1>3, <3>1, NoCommandLength
  <2>2. place' \in 0..(Len(Script') + 1)
    BY <1>1, <2>1
  <2>3. ~Calls("export")' /\ pc' = "idle"
    BY <1>2, <1>4 DEF Calls, Init
  <2>4. cmd' \in Commands \cup {NoCommand} /\ (Running' <=> place' > 0)
    BY <1>1, <1>2
  <2> QED
    BY <1>1, <1>3, <2>2, <2>3, <2>4 DEF ControlInv
<1>6. ImageInv'
  BY <1>1, ImageSame DEF UtilInv
<1>7. MemoryInv'
  BY <1>2, <1>4 DEF MemoryInv, ImportedInMemory
<1>8. MakingInv' /\ UsingInv'
  BY <1>2 DEF MakingInv, UsingInv
<1>9. ExportInv'
  BY <1>1, <1>2, InitTypes DEF ExportInv, NoIo, At
<1> QED
  BY <1>5, <1>6, <1>7, <1>8, <1>9 DEF UtilInv

\* A command that is killed, or refused.
LEMMA FailInv ==
  ASSUME UtilInv, End("failure"), UNCHANGED promises
  PROVE  UtilInv'
<1>1. disk' = disk /\ exit' = "failure" /\ LayoutInv /\ ControlInv
  BY DEF End, UtilInv
<1>2. LayoutInv'
  BY <1>1, LayoutSame
<1>3. ChecksumsComplete'
  BY <1>1 DEF ChecksumsComplete
<1>4. made' \in Configs /\ saved' \in SUBSET Nodes /\ unsaved' \in BOOLEAN
  BY <1>1 DEF ControlInv, promises
<1> QED
  BY <1>2, <1>3, <1>4, EndInv

\* At its end init has made an image that leads to both of its stages.
LEMMA MadeLayout ==
  ASSUME UtilInv, Making, place > Len(Script)
  PROVE  /\ IsWhole /\ OnImage = InMemory /\ SumsComplete
         /\ BootSound(primary_entries, config)
         /\ config.fs_loader <=> IsUsed(primary_entries[FsEntry])
         /\ config.fs_loader => TreeFilled(primary_entries[FsEntry], tree, StreamLength(tree))
<1>1. ControlInv /\ MemoryInv /\ MakingInv /\ ExportInv
  BY DEF UtilInv
<1>2. /\ config \in Configs /\ WithPartitions(config) \in Nat
      /\ Fixed(config) <= WithPartitions(config) /\ Fixed(config) \in {12, 17}
      /\ config.fs_loader <=> Fixed(config) = 17
      /\ place \in Nat /\ place > WithPartitions(config) + 2 /\ place > Len(Script)
      /\ Len(Script) = WithPartitions(config) + 2
  BY <1>1, InitLength
<1>3. /\ place > 4 /\ place > 8 /\ place > 12 /\ place >= Len(Script)
      /\ config.fs_loader => place > 17
  BY <1>2
<1>4. IInv /\ backup_entries # NoEntries /\ Granted
  BY <1>1, <1>3 DEF MemoryInv
<1>5. /\ IsWhole /\ OnImage = InMemory /\ disk[0] = UpdatedBootsector
      /\ Filled(primary_entries[0], "stage two", SectorsOf(StageTwoSize))
      /\ Filled(primary_entries[1], "stage three", SectorsOf(StageThreeSize(config)))
      /\ config.fs_loader => TreeFilled(primary_entries[FsEntry], tree, StreamLength(tree))
  <2>1. /\ IsWhole /\ OnImage = InMemory /\ disk[0] = UpdatedBootsector
    BY <1>1, <1>2, <1>3 DEF MakingInv
  <2>2. Filled(primary_entries[0], "stage two", SectorsOf(StageTwoSize))
    BY <1>1, <1>3 DEF MakingInv, FillStageTwo
  <2>3. Filled(primary_entries[1], "stage three", SectorsOf(StageThreeSize(config)))
    BY <1>1, <1>3 DEF MakingInv, FillStageThree
  <2>4. config.fs_loader => TreeFilled(primary_entries[FsEntry], tree, StreamLength(tree))
    BY <1>1, <1>3 DEF MakingInv, FillFs
  <2> QED
    BY <2>1, <2>2, <2>3, <2>4
<1>6. SumsComplete
  <2>1. Running
    BY DEF Running, Making, NoCommand
  <2>2. Running /\ place > Len(Script) /\ (Making \/ config.fs_loader) /\ IsWhole => SumsComplete
    BY <1>1, Zenon DEF ExportInv
  <2> QED
    BY <1>2, <1>5, <2>1, <2>2
<1>7. /\ 0 \in Used /\ 1 \in Used /\ (config.fs_loader <=> 2 \in Used)
      /\ HasRoom(primary_entries[0], SectorsOf(StageTwoSize))
      /\ HasRoom(primary_entries[1], SectorsOf(StageThreeSize(config)))
  BY <1>2, <1>3, <1>4 DEF Granted, SizeStageTwo, SizeStageThree, SizeFs
<1>8. 2 \in Used <=> IsUsed(primary_entries[FsEntry])
  <2>1. DOMAIN primary_entries = Indices
    BY <1>4, ReadyTable DEF IInv, Table
  <2> QED
    BY <2>1, ThreeEntries DEF Used
<1>9. BootSound(primary_entries, config)
  <2>1. U16(SectorsOf(StageTwoSize)) = SectorsOf(StageTwoSize)
    <3>1. PICK n : n = SectorsOf(StageTwoSize)
      OBVIOUS
    <3>2. n \in Nat /\ n < 65536
      BY <3>1, StageSectors, StagesFitAssumption
    <3>3. n % 65536 = n
      BY <3>2
    <3> QED
      BY <3>1, <3>3 DEF U16
  <2>2. /\ disk[0].st2dap = [sector |-> primary_entries[0].first_lba,
                             sector_count |-> SectorsOf(StageTwoSize)]
        /\ disk[0].st3dap.sector = primary_entries[1].first_lba
    <3>1. PICK a, b : a = Dap(0, StageTwoSize) /\ b = Dap(1, LoaderSize)
      OBVIOUS
    <3>2. disk[0] = Bootsector(a, b)
      BY <1>5, <3>1 DEF UpdatedBootsector
    <3>3. disk[0].st2dap = a /\ disk[0].st3dap = b
      BY <3>2 DEF Bootsector
    <3>4. a = [sector |-> primary_entries[0].first_lba,
               sector_count |-> SectorsOf(StageTwoSize)]
      BY <2>1, <3>1 DEF Dap
    <3>5. b.sector = primary_entries[1].first_lba
      BY <3>1 DEF Dap
    <3> QED
      BY <3>3, <3>4, <3>5
  <2> QED
    BY <1>5, <1>7, <2>2 DEF BootSound
<1> QED
  BY <1>5, <1>6, <1>7, <1>8, <1>9

\* A command that ends on its own leaves what it promises.
LEMMA SucceedInv ==
  ASSUME UtilInv, Succeed
  PROVE  UtilInv'
<1>1. /\ Running /\ place > Len(Script) /\ End("success")
      /\ ControlInv /\ LayoutInv /\ UsingInv /\ ExportInv
  BY DEF UtilInv, Succeed
<1>2. disk' = disk /\ ~Running' /\ exit' = "success" /\ config' = config
  BY <1>1 DEF End, Running
<1>3. /\ IsWhole' <=> IsWhole
      /\ OnImage' = OnImage /\ ImportedPrimaryEntries' = ImportedPrimaryEntries
      /\ SumsComplete' <=> SumsComplete
  BY <1>2, ImageSame
<1>4. Making \/ Using
  BY <1>1, WhichCommand
<1>5. CASE Making
  <2>1. /\ layout' = {InMemory} /\ made' = config /\ saved' = tree /\ unsaved' = FALSE
    BY <1>5 DEF Succeed, Making
  <2>2. /\ IsWhole /\ OnImage = InMemory /\ SumsComplete
        /\ BootSound(primary_entries, config)
        /\ config.fs_loader <=> IsUsed(primary_entries[FsEntry])
        /\ config.fs_loader => TreeFilled(primary_entries[FsEntry], tree, StreamLength(tree))
    BY <1>1, <1>5, MadeLayout
  <2>3. ImportedPrimaryEntries' = primary_entries
    BY <1>3, <2>2 DEF OnImage, InMemory
  <2>4. BootSound(ImportedPrimaryEntries, made)'
    BY <1>2, <2>1, <2>2, <2>3 DEF BootSound, Filled, HasRoom
  <2>5. made'.fs_loader =>
          TreeFilled(ImportedPrimaryEntries[FsEntry], saved, StreamLength(saved))'
    BY <1>2, <2>1, <2>2, <2>3 DEF TreeFilled, StreamLength
  <2>6. LayoutInv'
    BY <1>3, <2>1, <2>2, <2>3, <2>4, <2>5 DEF LayoutInv
  <2>7. ChecksumsComplete'
    BY <1>3, <2>2 DEF ChecksumsComplete, SumsComplete
  <2>8. made' \in Configs /\ saved' \in SUBSET Nodes /\ unsaved' \in BOOLEAN
    BY <1>1, <2>1 DEF ControlInv
  <2> QED
    BY <1>1, <2>6, <2>7, <2>8, EndInv
<1>6. CASE Using
  <2>1. layout' = layout /\ made' = made
    BY <1>6 DEF Succeed, Using, Making
  <2>2. CASE config.fs_loader
    <3>1. saved' = tree /\ unsaved' = FALSE
      BY <1>6, <2>2 DEF Succeed, Using, Making
    <3>2. /\ TreeFilled(ImportedPrimaryEntries[FsEntry], tree, StreamLength(tree))
          /\ IsWhole => SumsComplete
      <4>1. Len(Script) \in Nat /\ place \in Nat
        BY <1>1, WhichCommand
      <4>2. place > Len(Script) - 1
        BY <1>1, <4>1
      <4> QED
        BY <1>1, <1>6, <2>2, <4>2 DEF UsingInv, ExportInv
    <3>3. BootSound(ImportedPrimaryEntries, made)' <=> BootSound(ImportedPrimaryEntries, made)
      BY <1>2, <1>3, <2>1 DEF BootSound, Filled, HasRoom
    <3>4. TreeFilled(ImportedPrimaryEntries[FsEntry], saved, StreamLength(saved))'
      BY <1>2, <1>3, <3>1, <3>2 DEF TreeFilled, StreamLength
    <3>5. LayoutInv'
      BY <1>1, <1>3, <2>1, <3>2, <3>3, <3>4 DEF LayoutInv
    <3>6. ChecksumsComplete'
      BY <1>1, <1>3, <2>1, <3>2 DEF ChecksumsComplete, SumsComplete, LayoutInv
    <3>7. made' \in Configs /\ saved' \in SUBSET Nodes /\ unsaved' \in BOOLEAN
      BY <1>1, <2>1, <3>1 DEF ControlInv
    <3> QED
      BY <1>1, <3>5, <3>6, <3>7, EndInv
  <2>3. CASE ~config.fs_loader
    <3>1. UNCHANGED promises
      BY <1>6, <2>1, <2>3 DEF Succeed, Using, Making, promises
    <3>2. LayoutInv'
      BY <1>1, <1>2, <3>1, LayoutSame
    <3>3. ChecksumsComplete'
      BY <1>2, <1>3, <2>3, <3>1, <3>2 DEF ChecksumsComplete, LayoutInv, SumsComplete
    <3>4. made' \in Configs /\ saved' \in SUBSET Nodes /\ unsaved' \in BOOLEAN
      BY <1>1, <3>1 DEF ControlInv, promises
    <3> QED
      BY <1>1, <3>2, <3>3, <3>4, EndInv
  <2> QED
    BY <2>2, <2>3
<1> QED
  BY <1>4, <1>5, <1>6

(* -- Steps that write nothing to the image --------------------------------------- *)

\* A command other than init goes on to its next call.
LEMMA UsingStep ==
  ASSUME UtilInv, Using, place <= Len(Script), ~Calls("export"), SameCommand, NextCall,
         UNCHANGED <<disk, io, promises>>, tree' \in SUBSET Nodes, pc' = "idle", MemoryInv',
         config.fs_loader => place <= Len(Script) - 2,
         config.fs_loader /\ place > 1 =>
           Holds(1, "header") /\ IsUsed(ImportedPrimaryEntries[FsEntry])
  PROVE  UtilInv'
<1>1. ControlInv /\ ImageInv /\ LayoutInv /\ UsingInv /\ ExportInv /\ Running
  BY DEF UtilInv, Using
<1>2. /\ Script' = Script /\ ~Making' /\ Using' /\ Running' /\ config' = config
      /\ place' = place + 1 /\ k' = 0 /\ disk' = disk /\ io' = io
  BY SameScript DEF SameCommand, NextCall, Using
<1>3. io = NoIo /\ At("none")
  BY <1>1, NotExporting
<1>4. Len(Script) \in Nat \ {0} /\ place \in Nat \ {0} /\ config.fs_loader \in BOOLEAN
  BY <1>1, WhichCommand
<1>5. ControlInv'
  <2>1. made' = made /\ saved' \in SUBSET Nodes /\ unsaved' \in BOOLEAN
    BY <1>1 DEF promises, ControlInv
  <2>2. ~(Calls("export") /\ k # 0)' /\ io' = NoIo /\ k' \in Nat
    BY <1>2, <1>3
  <2> QED
    BY <1>1, <1>2, <2>1, <2>2, StepControl
<1>6. ImageInv' /\ LayoutInv'
  BY <1>1, <1>2, ImageSame, LayoutSame
<1>7. ChecksumsComplete'
  BY <1>1, StillRunning
<1>8. MakingInv'
  BY <1>2 DEF MakingInv
<1>9. /\ Holds(1, "header")' <=> Holds(1, "header")
      /\ ImportedPrimaryEntries' = ImportedPrimaryEntries
  BY <1>2, ImageSame
<1>10. StreamLength(tree)' \in Nat \ {0}
  <2>1. Cardinality(tree') \in Nat
    BY NodesAssumption, FS_Subset, FS_CardinalityType
  <2> QED
    BY <2>1 DEF StreamLength
<1>11. UsingInv'
  <2>1. config'.fs_loader /\ place' > 2 =>
          Holds(1, "header")' /\ IsUsed(ImportedPrimaryEntries[FsEntry])'
    <3>1. IsUsed(ImportedPrimaryEntries[FsEntry])' <=> IsUsed(ImportedPrimaryEntries[FsEntry])
      BY <1>2, ImageSame DEF IsUsed
    <3> QED
      BY <1>2, <1>4, <1>9, <3>1
  <2>2. ~Saving' => ~changed'
    <3>1. Saving => Saving'
      BY <1>2, <1>4 DEF Saving
    <3> QED
      BY <1>1, <1>2, <3>1 DEF UsingInv, SameCommand, Using
  <2>3. /\ k' < StreamLength(tree)'
        /\ TreeFilled(ImportedPrimaryEntries[FsEntry], tree, k)'
    BY <1>2, <1>10 DEF TreeFilled
  <2>4. ~(config'.fs_loader /\ place' > Len(Script') - 1)
    BY <1>2, <1>4
  <2> QED
    BY <1>2, <2>1, <2>2, <2>3, <2>4 DEF UsingInv
<1>12. ExportInv'
  <2>1. At("none")' /\ io' \in [step : {"none"} \cup ExportSteps, i : Indices]
    BY <1>1, <1>2, <1>3 DEF At, ExportInv
  <2>2. ~(place' > Len(Script') /\ (Making' \/ config'.fs_loader))
    BY <1>2, <1>4
  <2> QED
    BY <2>1, <2>2 DEF ExportInv, At
<1> QED
  BY <1>5, <1>6, <1>7, <1>8, <1>11, <1>12 DEF UtilInv

\* What a command that has nothing in memory goes on with.
LEMMA NothingStays ==
  ASSUME Using, MemoryInv, SameCommand, NextCall, UNCHANGED vars, place # 2, ~Saving,
         place' # 2, ~Saving'
  PROVE  MemoryInv' /\ pc' = "idle"
<1>1. Init
  BY DEF MemoryInv, NothingInMemory
<1>2. Init' /\ pc' = "idle"
  BY <1>1 DEF Init, vars, headers, entries
<1>3. Using' /\ ~Making'
  BY SameScript DEF SameCommand, Using
<1> QED
  BY <1>2, <1>3 DEF MemoryInv, ImportedInMemory

\* ls and cat look something up.
LEMMA LookInv ==
  ASSUME UtilInv, Look
  PROVE  UtilInv'
<1>1. /\ Calls("look") /\ NextCall /\ UNCHANGED <<imageVars, tree, promises>> /\ SameCommand
      /\ ControlInv /\ MemoryInv /\ UsingInv
  BY DEF Look, UtilInv
<1>2. Using /\ place = 3 /\ place <= Len(Script) /\ place' = 4
  BY <1>1, LookPlace DEF Calls, NextCall
<1>3. /\ config.fs_loader \in BOOLEAN /\ WorkLength \in Nat /\ 1 <= WorkLength
      /\ config.fs_loader => Len(Script) = WorkLength + 5
      /\ Script' = Script /\ config' = config
  BY <1>1, <1>2, OtherLength, SameScript DEF SameCommand
<1>4. ~Saving /\ ~Saving'
  BY <1>2, <1>3 DEF Saving
<1>5. MemoryInv' /\ pc' = "idle"
  BY <1>1, <1>2, <1>4, NothingStays DEF imageVars
<1>6. tree' \in SUBSET Nodes /\ UNCHANGED <<disk, io, promises>> /\ ~Calls("export")
  BY <1>1, OneCall DEF ControlInv, imageVars
<1>7. config.fs_loader => place <= Len(Script) - 2
  BY <1>2, <1>3
<1>8. config.fs_loader => Holds(1, "header") /\ IsUsed(ImportedPrimaryEntries[FsEntry])
  BY <1>1, <1>2 DEF UsingInv
<1> QED
  BY <1>1, <1>2, <1>5, <1>6, <1>7, <1>8, UsingStep

\* mkdir and cp make a node.
LEMMA MakeNodeUsing ==
  ASSUME UtilInv, MakeNode, Using
  PROVE  UtilInv'
<1>1. /\ Calls("make") /\ NextCall /\ UNCHANGED <<imageVars, promises>> /\ SameCommand
      /\ tree' = tree \cup {Call.node}
      /\ ControlInv /\ MemoryInv /\ UsingInv
  BY DEF MakeNode, UtilInv
<1>2. /\ Call.node \in Nodes /\ 2 < place /\ place <= WorkLength + 2 /\ place <= Len(Script)
      /\ place' = place + 1
  BY <1>1, MakePlace DEF Calls, NextCall, Using
<1>3. /\ config.fs_loader \in BOOLEAN /\ WorkLength \in Nat /\ 1 <= WorkLength /\ place \in Nat
      /\ config.fs_loader => Len(Script) = WorkLength + 5
      /\ Script' = Script /\ config' = config
  BY <1>1, <1>2, OtherLength, SameScript DEF SameCommand
<1>4. ~Saving /\ ~Saving'
  BY <1>2, <1>3 DEF Saving
<1>5. MemoryInv' /\ pc' = "idle"
  BY <1>1, <1>2, <1>3, <1>4, NothingStays DEF imageVars
<1>6. tree' \in SUBSET Nodes /\ UNCHANGED <<disk, io, promises>> /\ ~Calls("export")
  BY <1>1, <1>2, OneCall DEF ControlInv, imageVars
<1>7. config.fs_loader => place <= Len(Script) - 2
  BY <1>2, <1>3
<1>8. config.fs_loader => Holds(1, "header") /\ IsUsed(ImportedPrimaryEntries[FsEntry])
  BY <1>1, <1>2 DEF UsingInv
<1> QED
  BY <1>1, <1>2, <1>5, <1>6, <1>7, <1>8, UsingStep

\* An image has room for a table.
LEMMA ImageRoom ==
  ASSUME NEW c \in Configs
  PROVE  /\ c.disk_size \in DiskSizes /\ 0..LastDiskLba(c.disk_size) \subseteq ImageSectors(c)
         /\ 0..(1 + ArraySectors) \subseteq ImageSectors(c)
<1>1. PICK n : n = c.disk_size
  OBVIOUS
<1>2. n \in DiskSizes /\ n \in Nat
  <2>1. n \in DiskSizes
    BY <1>1, ConfigsAssumption
  <2>2. Word \in Nat
    BY WordAssumption
  <2> QED
    BY <2>1, <2>2, DiskSizesAssumption
<1>3. /\ LastDiskLba(n) \in Nat /\ (LastDiskLba(n) + 1) * SectorSize <= n
      /\ 2 * ArraySectors + 2 <= LastDiskLba(n) /\ ArraySectors \in Nat
  BY <1>2, FormatLayout, EntryPlace
<1>4. LastDiskLba(n) <= n \div SectorSize - 1
  BY <1>2, <1>3 DEF SectorSize
<1>5. ImageSectors(c) = 0..(n \div SectorSize - 1) /\ n \div SectorSize \in Nat
  BY <1>1, <1>2 DEF ImageSectors, SectorSize
<1> QED
  BY <1>1, <1>2, <1>3, <1>4, <1>5

\* Of an image without a primary header nothing but zeros is imported, except that
\* sector 0 is what is then taken for a backup header.
LEMMA NoHeaderImport ==
  ASSUME ImageInv, DOMAIN disk # {}, ~Holds(1, "header")
  PROVE  /\ ImportedPrimary = InitHeader /\ ImportedBackup \in {InitHeader, RawHeader}
         /\ \A i \in Indices : ImportedPrimaryEntries[i] = InitEntry
<1>1. PICK c \in Configs : DOMAIN disk = ImageSectors(c)
  BY DEF ImageInv, WholeImage
<1>2. \A x \in 0..(1 + ArraySectors) : x \in DOMAIN disk
  BY <1>1, ImageRoom
<1>3. ArraySectors \in Nat \ {0}
  BY EntryPlace
<1>4. \A x \in 1..(1 + ArraySectors) : x \in DOMAIN disk /\ disk[x] = Blank
  BY <1>2, <1>3 DEF ImageInv
<1>5. ImportedPrimary = InitHeader
  BY <1>3, <1>4 DEF ImportedPrimary, HeaderAt, Holds, Blank
<1>6. ImportedBackup \in {InitHeader, RawHeader}
  <2>1. ImportedBackup = HeaderAt(0)
    BY <1>5 DEF ImportedBackup, InitHeader, InvalidLba
  <2>2. Holds(0, "header") => disk[0].header = InitHeader
    BY BareHeader DEF ImageInv
  <2> QED
    BY <2>1, <2>2 DEF HeaderAt
<1>7. ASSUME NEW i \in Indices
      PROVE  ImportedPrimaryEntries[i] = InitEntry
  <2>1. PICK n \in 0..(ArraySectors - 1) : n = i \div EntriesPerSector
    BY EntryPlace
  <2>2. 2 + n \in DOMAIN disk /\ disk[2 + n] = Blank
    BY <1>3, <1>4
  <2>3. EntriesAt(2 + n) = [m \in Slots |-> InitEntry]
    BY <2>2 DEF EntriesAt, Holds, Blank
  <2> QED
    BY <2>1, <2>3, EntryPlace DEF ImportedPrimaryEntries, ArrayAt
<1> QED
  BY <1>5, <1>6, <1>7

\* Whatever the image is, headers are imported of it.
LEMMA ImportTyped ==
  ASSUME ImageInv, CanImport
  PROVE  ImportedPrimary \in Header /\ ImportedBackup \in Header
<1>1. InitHeader \in Header /\ RawHeader \in Header
  BY InitTypes, RawAssumption
<1>2. CASE ~Holds(1, "header")
  <2>1. DOMAIN disk # {}
    BY DEF CanImport
  <2> QED
    BY <1>1, <1>2, <2>1, NoHeaderImport
<1>3. CASE Holds(1, "header")
  <2>1. PrimarySound
    BY <1>3 DEF ImageInv
  <2>2. ImportedPrimary \in Header
    BY <2>1, FormatTypes DEF PrimarySound
  <2>3. CASE IsWhole
    <3>1. TableSound(OnImage) /\ OnImage.backup = ImportedBackup
      BY <2>3 DEF ImageInv, OnImage
    <3>2. ImportedBackup \in Header
      BY <3>1, FormatTypes DEF TableSound
    <3> QED
      BY <2>2, <3>2
  <2>4. CASE ~IsWhole
    <3>1. PICK l : l = ImportedPrimary.backup_lba
      OBVIOUS
    <3>2. HalfMade(l)
      BY <1>3, <2>4, <3>1 DEF HalfMade
    <3>3. ImportedBackup = InitHeader
      BY <3>2, HalfMadeParts
    <3> QED
      BY <1>1, <2>2, <3>3
  <2> QED
    BY <2>3, <2>4
<1> QED
  BY <1>2, <1>3

\* A command reads the table, to open the image or to save it.
LEMMA CallImportInv ==
  ASSUME UtilInv, CallImport
  PROVE  UtilInv'
<1>1. /\ Calls("import") /\ Import /\ NextCall /\ UNCHANGED <<tree, promises>> /\ SameCommand
      /\ ControlInv /\ ImageInv /\ MemoryInv /\ UsingInv
  BY DEF CallImport, UtilInv
<1>2. /\ Using /\ place <= Len(Script) /\ place' = place + 1
      /\ place # 1 => config.fs_loader /\ place = WorkLength + 3
  BY <1>1, ImportPlace DEF Calls, NextCall
<1>3. /\ config.fs_loader \in BOOLEAN /\ WorkLength \in Nat /\ 1 <= WorkLength /\ place \in Nat
      /\ config.fs_loader => Len(Script) = WorkLength + 5
      /\ Script' = Script /\ config' = config /\ Using' /\ ~Making'
  BY <1>1, <1>2, OtherLength, SameScript DEF SameCommand, Using
<1>4. ~Saving /\ place # 2
  BY <1>2, <1>3 DEF Saving
<1>5. Init
  BY <1>1, <1>2, <1>4 DEF MemoryInv, NothingInMemory
<1>6. /\ CanImport /\ InMemory' = OnImage
      /\ primary_header' = ImportedPrimary /\ primary_entries' = ImportedPrimaryEntries
      /\ backup_header' = ImportedBackup
      /\ backup_entries' = ArrayAt(ImportedBackup.partition_entries_lba)
      /\ disk_size' = Cardinality(DOMAIN disk) * SectorSize
      /\ pc' = "idle" /\ scan' = NoScan /\ ret' = "ok" /\ disk' = disk /\ io' = io
  BY <1>1, <1>5 DEF Import, Init, InMemory, OnImage
<1>7. /\ OnImage' = OnImage /\ ImportedPrimary' = ImportedPrimary
      /\ ImportedPrimaryEntries' = ImportedPrimaryEntries /\ ImportedBackup' = ImportedBackup
      /\ backup_header' \in Header /\ backup_entries' \in Table
  <2>1. UNCHANGED disk
    BY <1>6
  <2>2. ImportedBackup \in Header /\ SectorsTyped
    BY <1>1, <1>6, ImportTyped DEF ImageInv
  <2>3. backup_entries' \in Table
    BY <1>6, <2>2, ArrayTyped
  <2> QED
    BY <1>6, <2>1, <2>2, <2>3, ImageSame
<1>8. ~NothingInMemory'
  <2>1. place' = 2 \/ (config'.fs_loader /\ place' > Len(Script') - 2)
    BY <1>2, <1>3
  <2> QED
    BY <1>1, <1>3, <2>1 DEF NothingInMemory, Saving, Using
<1>9. MemoryInv'
  <2>1. DOMAIN disk' # {}
    BY <1>6 DEF CanImport
  <2> QED
    BY <1>3, <1>6, <1>7, <1>8, <2>1 DEF MemoryInv, Idle
<1>10. tree' \in SUBSET Nodes /\ UNCHANGED <<disk, io, promises>> /\ ~Calls("export")
  BY <1>1, <1>6, OneCall DEF ControlInv
<1>11. config.fs_loader => place <= Len(Script) - 2
  BY <1>2, <1>3
<1>12. config.fs_loader /\ place > 1 =>
         Holds(1, "header") /\ IsUsed(ImportedPrimaryEntries[FsEntry])
  <2>1. place > 1 => place > 2
    BY <1>2, <1>3
  <2> QED
    BY <1>1, <1>2, <2>1 DEF UsingInv
<1> QED
  BY <1>1, <1>2, <1>6, <1>9, <1>10, <1>11, <1>12, UsingStep

\* A command reads the file system of the image it has opened.
LEMMA ImportFsInv ==
  ASSUME UtilInv, ImportFs
  PROVE  UtilInv'
<1>1. /\ Calls("import fs") /\ Forget /\ NextCall /\ UNCHANGED <<disk, io, promises>>
      /\ SameCommand
      /\ ControlInv /\ MemoryInv /\ ImageInv
  BY DEF ImportFs, UtilInv
<1>2. Using /\ place = 2 /\ place <= Len(Script) /\ place' = 3
  <2>1. Using /\ place = 2
    BY <1>1, ImportFsPlace
  <2>2. place <= Len(Script)
    BY <1>1 DEF Calls
  <2>3. place' = place + 1
    BY <1>1 DEF NextCall
  <2> QED
    BY <2>1, <2>2, <2>3
<1>3. /\ config.fs_loader \in BOOLEAN /\ WorkLength \in Nat /\ 1 <= WorkLength
      /\ config.fs_loader => Len(Script) = WorkLength + 5
      /\ Script' = Script /\ config' = config /\ Using' /\ ~Making'
  BY <1>1, <1>2, OtherLength, SameScript DEF SameCommand, Using
<1>4. ~Saving'
  BY <1>2, <1>3 DEF Saving
<1>5. primary_entries = ImportedPrimaryEntries
  BY <1>1, <1>2 DEF MemoryInv, ImportedInMemory
<1>6. PICK lba : lba = primary_entries[FsEntry].first_lba
  OBVIOUS
<1>7. config.fs_loader => /\ HasSignature(lba)
                          /\ tree' = disk[lba].tree \/ tree' \in SUBSET Nodes
  BY <1>6 DEF ImportFs
<1>8. tree' \in SUBSET Nodes
  <2>1. CASE config.fs_loader
    <3>1. disk[lba].tree \in SUBSET Nodes
      BY <1>1, <1>7, <2>1 DEF HasSignature, Holds, ImageInv, SectorsTyped
    <3> QED
      BY <1>7, <2>1, <3>1
  <2>2. CASE ~config.fs_loader
    BY <1>1, <2>2 DEF ImportFs, ControlInv
  <2> QED
    BY <1>3, <2>1, <2>2
<1>9. config.fs_loader => Holds(1, "header") /\ IsUsed(ImportedPrimaryEntries[FsEntry])
  <2> SUFFICES ASSUME config.fs_loader,
                      ~(Holds(1, "header") /\ IsUsed(ImportedPrimaryEntries[FsEntry]))
               PROVE  FALSE
    OBVIOUS
  <2>1. Holds(lba, "fs") /\ ~Holds(0, "fs") /\ DOMAIN disk # {} /\ FsEntry \in Indices
    BY <1>1, <1>7, ThreeEntries DEF HasSignature, Holds, ImageInv
  <2>2. CASE Holds(1, "header")
    <3>1. ExtentsSound(ImportedPrimaryEntries, ImportedPrimary.first_usable_lba,
                       ImportedPrimary.last_usable_lba)
      BY <1>1, <2>2 DEF ImageInv, PrimarySound
    <3>2. ImportedPrimaryEntries[FsEntry].first_lba = InvalidLba
      BY <2>1, <2>2, <3>1 DEF ExtentsSound
    <3> QED
      BY <1>5, <1>6, <2>1, <3>2 DEF InvalidLba
  <2>3. CASE ~Holds(1, "header")
    <3>1. ImportedPrimaryEntries[FsEntry] = InitEntry
      BY <1>1, <2>1, <2>3, NoHeaderImport
    <3> QED
      BY <1>5, <1>6, <2>1, <3>1 DEF InitEntry, InvalidLba
  <2> QED
    BY <2>2, <2>3
<1>10. Init' /\ pc' = "idle"
  BY <1>1 DEF Forget, Init
<1>11. MemoryInv'
  BY <1>2, <1>3, <1>4, <1>10 DEF MemoryInv, ImportedInMemory
<1>12. config.fs_loader => place <= Len(Script) - 2
  BY <1>2, <1>3
<1>13. ~Calls("export")
  BY <1>1, OneCall
<1> QED
  BY <1>1, <1>2, <1>5, <1>8, <1>9, <1>10, <1>11, <1>12, <1>13, UsingStep

(* -- init prepares the table in memory -------------------------------------------- *)

\* init goes on without writing to the image.
LEMMA MakingStep ==
  ASSUME UtilInv, Making, 3 < place, place < Len(Script), SameCommand,
         UNCHANGED <<disk, io, promises>>, NextCall \/ (place' = place /\ k' \in Nat), 4 < place',
         place \notin {FillStageTwo, FillStageThree}, config.fs_loader => place # FillFs,
         place # WithPartitions(config) + 1,
         tree' \in SUBSET Nodes, pc' = "scan" => Calls("size")',
         IInv', backup_entries' # NoEntries, disk_size' = config.disk_size, Granted',
         place > FillStageTwo =>
           primary_entries'[0].first_lba = primary_entries[0].first_lba,
         place > FillStageThree =>
           primary_entries'[1].first_lba = primary_entries[1].first_lba,
         config.fs_loader /\ place > FillFs =>
           /\ primary_entries'[FsEntry].first_lba = primary_entries[FsEntry].first_lba
           /\ tree' = tree
  PROVE  UtilInv'
<1>1. ControlInv /\ ImageInv /\ LayoutInv /\ MakingInv /\ ExportInv /\ Running
  BY DEF UtilInv, Making, Running, NoCommand
<1>2. /\ Script' = Script /\ Making' /\ ~Using' /\ Running' /\ config' = config
      /\ disk' = disk /\ io' = io
  <2>1. UNCHANGED <<cmd, config>>
    BY DEF SameCommand
  <2>2. Making' /\ Running' /\ Script' = Script
    BY <1>1, <2>1, SameScript
  <2> QED
    BY <2>1, <2>2 DEF Using
<1>3. /\ config \in Configs
      /\ WithPartitions(config) \in Nat /\ Fixed(config) <= WithPartitions(config)
      /\ Fixed(config) \in {12, 17} /\ (config.fs_loader <=> Fixed(config) = 17)
      /\ Len(Script) = WithPartitions(config) + 2
      /\ place \in Nat /\ 1 <= place /\ place <= Len(Script) + 1
  BY <1>1, InitLength
<1>4. ~Calls("export")
  BY <1>1, <1>2, <1>3, ExportPlace DEF Using
<1>5. io = NoIo /\ At("none")
  BY <1>1, <1>4, NotExporting
<1>6. /\ place' \in {place, place + 1} /\ k' \in Nat /\ (place' = place + 1 => k' = 0)
      /\ place' <= Len(Script) /\ place' \in Nat
      /\ place' = Len(Script) => FALSE
  BY <1>3 DEF NextCall
<1>7. ~(Calls("export") /\ k # 0)'
  <2>1. CASE place' = place
    <3>1. Calls("export")' <=> Calls("export")
      BY <1>1, <1>2, <2>1 DEF Calls, Call
    <3> QED
      BY <1>4, <3>1
  <2>2. CASE place' = place + 1
    BY <1>6, <2>2
  <2> QED
    BY <1>6, <2>1, <2>2
<1>8. ControlInv'
  <2>1. made' = made /\ saved' \in SUBSET Nodes /\ unsaved' \in BOOLEAN
    BY <1>1 DEF promises, ControlInv
  <2>2. place <= Len(Script)
    BY <1>3
  <2> QED
    BY <1>1, <1>2, <1>5, <1>6, <1>7, <2>1, <2>2, StepControl
<1>9. ImageInv' /\ LayoutInv' /\ ChecksumsComplete' /\ UsingInv'
  BY <1>1, <1>2, ImageSame, LayoutSame, StillRunning DEF UsingInv
<1>10. MemoryInv'
  <2>1. ~NothingInMemory' /\ ~ImportedInMemory'
    BY <1>2, <1>6 DEF NothingInMemory, ImportedInMemory, Saving
  <2>2. disk_size' = config'.disk_size
    BY <1>2
  <2> QED
    BY <2>1, <2>2 DEF MemoryInv
<1>11. ExportInv'
  <2>1. At("none")' /\ io' \in [step : {"none"} \cup ExportSteps, i : Indices]
    BY <1>1, <1>2, <1>5 DEF At, ExportInv
  <2>2. ~(place' > Len(Script'))
    BY <1>2, <1>3, <1>6
  <2> QED
    BY <2>1, <2>2 DEF ExportInv, At
<1>12. MakingInv'
  <2>1. place > 2 /\ place > 1 /\ place > 3 /\ place < Len(Script)
    BY <1>3
  <2>2. /\ DOMAIN disk = ImageSectors(config) /\ layout = {} /\ NoTable /\ Holds(0, "boot")
    BY <1>1, <2>1 DEF MakingInv
  <2>3. /\ DOMAIN disk' = ImageSectors(config') /\ layout' = {} /\ NoTable' /\ Holds(0, "boot")'
    BY <1>2, <2>2, NoTableSame DEF promises, Holds
  <2>4. place' \in {FillStageTwo, FillStageThree} \/ (config.fs_loader /\ place' = FillFs) => k' = 0
    BY <1>3, <1>6
  <2>5. /\ SectorsOf(StageTwoSize) \in Nat \ {0}
        /\ SectorsOf(StageThreeSize(config')) \in Nat \ {0}
    BY StageSectors
  <2>6. k' = 0 => 0..(k' - 1) = {}
    OBVIOUS
  <2>7. /\ k' = 0 => Filled(primary_entries[0], "stage two", k)'
        /\ k' = 0 => Filled(primary_entries[1], "stage three", k)'
    BY <2>6, Zenon DEF Filled
  <2>8. k' = 0 => k' < SectorsOf(StageTwoSize) /\ k' < SectorsOf(StageThreeSize(config'))
    BY <2>5
  <2>9. (place' = FillStageTwo => k' = 0) /\ (place' = FillStageThree => k' = 0)
    BY <2>4
  <2>10. place' = FillStageTwo => /\ k' < SectorsOf(StageTwoSize)
                                  /\ Filled(primary_entries[0], "stage two", k)'
    BY <2>6, <2>7, <2>8, <2>9, Zenon
  <2>11. place' > FillStageTwo => Filled(primary_entries[0], "stage two", SectorsOf(StageTwoSize))'
    <3>1. place' > FillStageTwo => place > FillStageTwo
      BY <1>3, <1>6 DEF FillStageTwo
    <3>2. place > FillStageTwo =>
            Filled(primary_entries[0], "stage two", SectorsOf(StageTwoSize))
      BY <1>1 DEF MakingInv
    <3> QED
      BY <1>2, <3>1, <3>2 DEF Filled
  <2>12. place' = FillStageThree =>
           /\ k' < SectorsOf(StageThreeSize(config'))
           /\ Filled(primary_entries[1], "stage three", k)'
    BY <2>6, <2>7, <2>8, <2>9, Zenon
  <2>13. place' > FillStageThree =>
           Filled(primary_entries[1], "stage three", SectorsOf(StageThreeSize(config)))'
    <3>1. place' > FillStageThree => place > FillStageThree
      BY <1>3, <1>6 DEF FillStageThree
    <3>2. place > FillStageThree =>
            Filled(primary_entries[1], "stage three", SectorsOf(StageThreeSize(config)))
      BY <1>1 DEF MakingInv
    <3> QED
      BY <1>2, <3>1, <3>2 DEF Filled
  <2>14. StreamLength(tree)' \in Nat \ {0}
    <3>1. Cardinality(tree') \in Nat
      BY NodesAssumption, FS_Subset, FS_CardinalityType
    <3> QED
      BY <3>1 DEF StreamLength
  <2>15. config'.fs_loader /\ place' = FillFs =>
           k' < StreamLength(tree)' /\ TreeFilled(primary_entries[FsEntry], tree, k)'
    BY <1>2, <2>4, <2>14 DEF TreeFilled
  <2>16. config'.fs_loader /\ place' > FillFs =>
           TreeFilled(primary_entries[FsEntry], tree, StreamLength(tree))'
    <3>1. config.fs_loader /\ place' > FillFs => place > FillFs
      BY <1>3, <1>6 DEF FillFs
    <3>2. config.fs_loader /\ place > FillFs =>
            TreeFilled(primary_entries[FsEntry], tree, StreamLength(tree))
      BY <1>1 DEF MakingInv
    <3> QED
      BY <1>2, <3>1, <3>2 DEF TreeFilled, StreamLength
  <2>17. place' > 2 /\ place' < Len(Script')
    BY <1>2, <1>3, <1>6
  <2> QED
    <3>1. /\ ~(place' = 2) /\ ~(place' >= Len(Script')) /\ ~(place' > Len(Script'))
          /\ Script' = Script
      BY <1>2, <1>3, <1>6, <2>17
    <3> QED
      BY <2>3, <2>10, <2>11, <2>12, <2>13, <2>15, <2>16, <3>1 DEF MakingInv
<1> QED
  BY <1>8, <1>9, <1>10, <1>11, <1>12 DEF UtilInv

\* What a step of init finds in memory.
LEMMA MakingMemory ==
  ASSUME UtilInv, Making, place > 4
  PROVE  /\ IInv /\ backup_entries # NoEntries /\ disk_size = config.disk_size /\ Granted
         /\ primary_entries \in Table /\ Used \subseteq Indices
         /\ {0, 1, 2} \subseteq Indices /\ FsEntry = 2
<1>1. IInv /\ backup_entries # NoEntries /\ disk_size = config.disk_size /\ Granted
  BY DEF UtilInv, MemoryInv
<1>2. primary_entries \in Table
  BY <1>1, ReadyTable DEF IInv
<1> QED
  BY <1>1, <1>2, ThreeEntries DEF Used, Table

\* The entry that a call is for is one of the table.
LEMMA TargetIndex ==
  ASSUME primary_entries \in Table, Call.entry \in {AnyUnused, 0, 1, 2}, HasEntry
  PROVE  TargetEntry \in Indices
<1>1. Unused \subseteq Indices /\ Indices \subseteq Nat /\ {0, 1, 2} \subseteq Indices
  BY EntryCountAssumption, ThreeEntries DEF Unused, Table, Indices
<1>2. CASE Call.entry = AnyUnused
  <2>1. Unused # {} /\ Unused \subseteq Nat
    BY <1>1, <1>2 DEF HasEntry
  <2>2. PICK i \in Unused : \A j \in Unused : ~(<<j, i>> \in OpToRel(<, Nat))
    BY <2>1, WFMin, NatLessThanWellFounded
  <2>3. \A j \in Unused : i <= j
    <3> SUFFICES ASSUME NEW j \in Unused PROVE i <= j
      OBVIOUS
    <3>1. i \in Nat /\ j \in Nat
      BY <2>1
    <3>2. <<j, i>> \in OpToRel(<, Nat) <=> <<j, i>> \in Nat \X Nat /\ j < i
      BY DEF OpToRel
    <3>3. ~(j < i)
      BY <2>2, <3>1, <3>2, Zenon
    <3> QED
      BY <3>1, <3>3
  <2>4. UnusedEntry \in Unused
    BY <2>3 DEF UnusedEntry
  <2> QED
    BY <1>1, <1>2, <2>4 DEF TargetEntry
<1>3. CASE Call.entry # AnyUnused
  BY <1>1, <1>3 DEF TargetEntry
<1> QED
  BY <1>2, <1>3

\* init types or names an entry: no partition moves.
LEMMA LabelStep ==
  ASSUME UtilInv, Making, Labels, place <= Len(Script), ~Calls("size"), NextCall, Outside,
         IInv', UNCHANGED <<headers, disk_size, pc, scan>>, backup_entries' # NoEntries,
         DOMAIN primary_entries' = DOMAIN primary_entries,
         \A j \in Indices : /\ primary_entries'[j].first_lba = primary_entries[j].first_lba
                            /\ primary_entries'[j].last_lba = primary_entries[j].last_lba
  PROVE  UtilInv'
<1>1. ControlInv /\ UNCHANGED <<disk, io, promises>> /\ SameCommand /\ tree' = tree
  BY DEF UtilInv, Outside
<1>2. /\ WithPartitions(config) \in Nat /\ Fixed(config) <= WithPartitions(config)
      /\ Fixed(config) \in {12, 17} /\ (config.fs_loader <=> Fixed(config) = 17)
      /\ Len(Script) = WithPartitions(config) + 2 /\ place \in Nat
  BY <1>1, InitLength
<1>3. /\ 4 < place /\ place < Len(Script) /\ place # WithPartitions(config) + 1
      /\ place \notin {7, 8, 11, 12}
      /\ config.fs_loader => place \notin {15, 17}
  BY <1>2 DEF Labels
<1>4. place' = place + 1 /\ k' = 0 /\ config' = config
  BY <1>1 DEF NextCall, SameCommand
<1>5. /\ Granted /\ disk_size = config.disk_size
      /\ primary_entries \in Table /\ Used \subseteq Indices
      /\ {0, 1, 2} \subseteq Indices /\ FsEntry = 2
  BY <1>3, MakingMemory
<1>6. pc = "idle" /\ pc' = "idle"
  <2>1. pc # "scan" /\ pc \in {"idle", "scan"}
    BY <1>1, <1>3, MakingMemory DEF ControlInv, IInv, TypeOK
  <2> QED
    BY <2>1
<1>7. Granted'
  <2>1. DOMAIN primary_entries = Indices
    BY <1>5 DEF Table
  <2>2. /\ \A j \in Indices : IsUsed(primary_entries[j])' <=> IsUsed(primary_entries[j])
        /\ \A j \in Indices : \A n : HasRoom(primary_entries'[j], n) <=> HasRoom(primary_entries[j], n)
    BY DEF IsUsed, HasRoom
  <2>3. Used' = Used
    BY <2>1, <2>2 DEF Used
  <2>4. /\ Used' \subseteq {0, 1, 2}
        /\ 0 \in Used' <=> place' > SizeStageTwo
        /\ 1 \in Used' <=> place' > SizeStageThree
    BY <1>2, <1>3, <1>4, <1>5, <2>3 DEF Granted, SizeStageTwo, SizeStageThree
  <2>5. 2 \in Used' <=> config'.fs_loader /\ place' > SizeFs
    <3>1. 2 \in Used <=> config.fs_loader /\ place > SizeFs
      BY <1>5 DEF Granted
    <3>2. config.fs_loader => (place > 15 <=> place + 1 > 15)
      BY <1>2, <1>3
    <3> QED
      BY <1>4, <2>3, <3>1, <3>2 DEF SizeFs
  <2>6. /\ 0 \in Used' => HasRoom(primary_entries'[0], SectorsOf(StageTwoSize))
        /\ 1 \in Used' => HasRoom(primary_entries'[1], SectorsOf(StageThreeSize(config')))
        /\ 2 \in Used' => HasRoom(primary_entries'[2], 1 + Cardinality(Nodes))
    BY <1>4, <1>5, <2>2, <2>3 DEF Granted
  <2>7. \A i \in DOMAIN primary_entries' \ Used' : primary_entries'[i].first_lba = InvalidLba
    BY <1>5, <2>1, <2>3 DEF Granted
  <2> QED
    BY <1>4, <1>6, <2>4, <2>5, <2>6, <2>7 DEF Granted, HasRoom, IsUsed
<1>8. tree' \in SUBSET Nodes
  BY <1>1 DEF ControlInv
<1>9. /\ place \notin {FillStageTwo, FillStageThree} /\ (config.fs_loader => place # FillFs)
      /\ 3 < place /\ 4 < place'
  BY <1>2, <1>3, <1>4 DEF FillStageTwo, FillStageThree, FillFs
<1>10. /\ primary_entries'[0].first_lba = primary_entries[0].first_lba
       /\ primary_entries'[1].first_lba = primary_entries[1].first_lba
       /\ primary_entries'[FsEntry].first_lba = primary_entries[FsEntry].first_lba
  BY <1>5
<1> QED
  BY <1>1, <1>3, <1>5, <1>6, <1>7, <1>8, <1>9, <1>10, MakingStep

\* init gives an entry its type.
LEMMA CallSetTypeInv ==
  ASSUME UtilInv, CallSetType
  PROVE  UtilInv'
<1>1. /\ Calls("type") /\ HasEntry /\ NextCall /\ Outside /\ ControlInv
      /\ place <= Len(Script)
  BY DEF CallSetType, UtilInv, Calls
<1>2. Making /\ Labels /\ Call.type \in Uuids
  BY <1>1, TypePlace
<1>3. PICK i, t : i = TargetEntry /\ t = Call.type /\ SetEntryType(i, t)
  BY DEF CallSetType
<1>4. place > 4
  BY <1>1, <1>2, InitLength DEF Labels
<1>5. IInv /\ primary_entries \in Table /\ backup_entries # NoEntries
  BY <1>2, <1>4, MakingMemory
<1>6. i \in Indices /\ i \in CallIndices /\ t \in TypeStrings
  BY <1>1, <1>2, <1>3, <1>5, TargetIndex, TypesAssumption DEF Labels, CallIndices
<1>7. \/ \E code \in {"EINVAL", "EUUID"} : Return(code)
      \/ IInv' /\ backup_entries' # NoEntries
  BY <1>3, <1>5, <1>6, SetEntryTypeRelabels
<1>8. IInv' /\ backup_entries' # NoEntries
  BY <1>5, <1>7, ReturnIInv DEF Return, entries
<1>9. /\ UNCHANGED <<headers, disk_size, pc, scan>>
      /\ \/ primary_entries' = primary_entries
         \/ primary_entries' = [primary_entries EXCEPT ![i].type = t]
  BY <1>3 DEF SetEntryType, Return, entries
<1>10. /\ DOMAIN primary_entries' = DOMAIN primary_entries
       /\ \A j \in Indices : /\ primary_entries'[j].first_lba = primary_entries[j].first_lba
                             /\ primary_entries'[j].last_lba = primary_entries[j].last_lba
  BY <1>5, <1>6, <1>9 DEF Table, Entry
<1> QED
  BY <1>1, <1>2, <1>8, <1>9, <1>10, LabelStep, OneCall

\* init gives an entry its name.
LEMMA CallSetNameInv ==
  ASSUME UtilInv, CallSetName
  PROVE  UtilInv'
<1>1. /\ Calls("name") /\ HasEntry /\ NextCall /\ Outside /\ ControlInv
      /\ place <= Len(Script)
  BY DEF CallSetName, UtilInv, Calls
<1>2. Making /\ Labels /\ Call.names \subseteq Names
  BY <1>1, NamePlace
<1>3. PICK i, n : i = TargetEntry /\ n \in Call.names /\ SetEntryName(i, n)
  BY DEF CallSetName
<1>4. place > 4
  BY <1>1, <1>2, InitLength DEF Labels
<1>5. IInv /\ primary_entries \in Table /\ backup_entries # NoEntries
  BY <1>2, <1>4, MakingMemory
<1>6. i \in Indices /\ i \in CallIndices /\ n \in Names
  BY <1>1, <1>2, <1>3, <1>5, TargetIndex DEF Labels, CallIndices
<1>7. Return("EINVAL") \/ (IInv' /\ backup_entries' # NoEntries)
  BY <1>3, <1>5, <1>6, SetEntryNameRelabels
<1>8. IInv' /\ backup_entries' # NoEntries
  BY <1>5, <1>7, ReturnIInv DEF Return, entries
<1>9. /\ UNCHANGED <<headers, disk_size, pc, scan>>
      /\ \/ primary_entries' = primary_entries
         \/ primary_entries' = [primary_entries EXCEPT ![i].name = n]
  BY <1>3 DEF SetEntryName, Return, entries
<1>10. /\ DOMAIN primary_entries' = DOMAIN primary_entries
       /\ \A j \in Indices : /\ primary_entries'[j].first_lba = primary_entries[j].first_lba
                             /\ primary_entries'[j].last_lba = primary_entries[j].last_lba
  BY <1>5, <1>6, <1>9 DEF Table, Entry
<1> QED
  BY <1>1, <1>2, <1>8, <1>9, <1>10, LabelStep, OneCall

\* What init has granted stays granted while no entry changes.
LEMMA GrantedStays ==
  ASSUME Granted, UNCHANGED <<primary_entries, config>>, place \in Nat, place' \in Nat,
         \A n \in {SizeStageTwo, SizeStageThree} : place' > n <=> place > n,
         config.fs_loader => (place' > SizeFs <=> place > SizeFs),
         IF pc' = "scan" THEN k' = 1 /\ scan'.index = Call'.entry /\ scan'.size = Call'.bytes
         ELSE Calls("size")' => k' \in {0, 1}
  PROVE  Granted'
<1>1. Used' = Used
  BY DEF Used
<1>2. /\ Used' \subseteq {0, 1, 2}
      /\ 0 \in Used' <=> place' > SizeStageTwo
      /\ 1 \in Used' <=> place' > SizeStageThree
  BY <1>1 DEF Granted
<1>3. 2 \in Used' <=> config'.fs_loader /\ place' > SizeFs
  BY <1>1 DEF Granted
<1>4. /\ 0 \in Used' => HasRoom(primary_entries'[0], SectorsOf(StageTwoSize))
      /\ 1 \in Used' => HasRoom(primary_entries'[1], SectorsOf(StageThreeSize(config')))
      /\ 2 \in Used' => HasRoom(primary_entries'[2], 1 + Cardinality(Nodes))
      /\ \A i \in DOMAIN primary_entries' \ Used' : primary_entries'[i].first_lba = InvalidLba
  BY <1>1 DEF Granted
<1> QED
  BY <1>2, <1>3, <1>4 DEF Granted, HasRoom, IsUsed

\* init makes the directory /boot.
LEMMA MakeNodeMaking ==
  ASSUME UtilInv, MakeNode, Making
  PROVE  UtilInv'
<1>1. /\ Calls("make") /\ NextCall /\ UNCHANGED <<vars, disk, io, promises>> /\ SameCommand
      /\ tree' = tree \cup {Call.node} /\ ControlInv
  BY DEF MakeNode, UtilInv, imageVars
<1>2. Call.node \in Nodes /\ config.fs_loader /\ place = 16
  BY <1>1, MakePlace DEF Using
<1>3. tree' \in SUBSET Nodes
  BY <1>1, <1>2 DEF ControlInv
<1>4. /\ IInv /\ backup_entries # NoEntries /\ disk_size = config.disk_size /\ Granted
  BY <1>2, MakingMemory
<1>5. /\ Len(Script) = WithPartitions(config) + 2 /\ WithPartitions(config) \in Nat
      /\ 17 <= WithPartitions(config)
  BY <1>1, <1>2, InitLength
<1>6. /\ UNCHANGED <<primary_header, backup_header, primary_entries, backup_entries,
                     disk_size, pc, scan, ret, config>>
      /\ place' = 17 /\ k' = 0
  BY <1>1, <1>2 DEF vars, headers, entries, SameCommand, NextCall
<1>7. IInv'
  <2>1. TypeOK' /\ Formatted' /\ Ordered' /\ Packed' /\ ScanCandidate' /\ ScanBehindPassed'
    <3>1. UNCHANGED vars
      BY <1>1
    <3>2. [Next]_vars
      BY <3>1
    <3> QED
      BY <1>4, <3>2, NextIInv DEF IInv
  <2> QED
    BY <2>1 DEF IInv
<1>8. pc = "idle"
  <2>1. pc # "scan" /\ pc \in {"idle", "scan"}
    BY <1>1, <1>4, OneCall DEF ControlInv, IInv, TypeOK
  <2> QED
    BY <2>1
<1>9. Granted'
  BY <1>2, <1>4, <1>6, <1>8, GrantedStays DEF SizeStageTwo, SizeStageThree, SizeFs
<1>10. /\ 3 < place /\ place < Len(Script) /\ 4 < place'
       /\ place \notin {FillStageTwo, FillStageThree} /\ place # FillFs
       /\ place # WithPartitions(config) + 1 /\ ~(place > FillFs)
  BY <1>2, <1>5, <1>6 DEF FillStageTwo, FillStageThree, FillFs
<1> QED
  BY <1>1, <1>3, <1>4, <1>6, <1>7, <1>8, <1>9, <1>10, MakingStep

\* init formats the table.
LEMMA CallFormatInv ==
  ASSUME UtilInv, CallFormat
  PROVE  UtilInv'
<1>1. /\ Calls("format") /\ Format(config.disk_size) /\ ret' = "ok" /\ NextCall /\ Outside
      /\ ControlInv /\ MemoryInv
  BY DEF CallFormat, UtilInv
<1>2. Making /\ place = 4 /\ place' = 5 /\ k' = 0
  BY <1>1, FormatPlace DEF NextCall
<1>3. config \in Configs /\ config.disk_size \in DiskSizes /\ config' = config
  BY <1>1, ConfigsAssumption DEF ControlInv, Outside, SameCommand
<1>4. Init /\ IInv
  BY <1>1, <1>2, InitIInv DEF MemoryInv, NothingInMemory
<1>5. IInv'
  BY <1>1, <1>3, <1>4, FormatIInv
<1>6. /\ primary_entries' = EmptyTable /\ backup_entries' = EmptyTable
      /\ disk_size' = config.disk_size /\ pc' = "idle"
  BY <1>1, <1>4 DEF Format, Init
<1>7. backup_entries' # NoEntries
  BY <1>6, InitTypes
<1>8. Granted'
  <2>1. Used' = {}
    BY <1>6 DEF Used, EmptyTable, IsUsed, InitEntry, InvalidLba
  <2>2. \A i \in DOMAIN primary_entries' : primary_entries'[i].first_lba = InvalidLba
    BY <1>6 DEF EmptyTable, InitEntry
  <2> QED
    BY <1>2, <1>6, <2>1, <2>2 DEF Granted, SizeStageTwo, SizeStageThree, SizeFs
<1>9. /\ Len(Script) = WithPartitions(config) + 2 /\ WithPartitions(config) \in Nat
      /\ 12 <= WithPartitions(config)
  BY <1>1, <1>2, InitLength
<1>10. /\ 3 < place /\ place < Len(Script) /\ 4 < place'
       /\ place \notin {FillStageTwo, FillStageThree} /\ place # FillFs
       /\ place # WithPartitions(config) + 1
       /\ ~(place > FillFs) /\ ~(place > FillStageTwo) /\ ~(place > FillStageThree)
  BY <1>2, <1>9 DEF FillStageTwo, FillStageThree, FillFs
<1>11. /\ UNCHANGED <<disk, io, promises>> /\ SameCommand /\ tree' \in SUBSET Nodes
  BY <1>1 DEF Outside, ControlInv
<1> QED
  BY <1>1, <1>2, <1>5, <1>6, <1>7, <1>8, <1>10, <1>11, MakingStep

(* -- init gives a partition its room ------------------------------------------------ *)

\* A run of sectors that holds the bytes has as many sectors as they need.
LEMMA EnoughSectors ==
  ASSUME NEW bytes \in Nat, NEW n \in Nat, bytes <= n * SectorSize
  PROVE  SectorsOf(bytes) \in Nat /\ SectorsOf(bytes) <= n
BY DEF SectorsOf, SectorSize

\* More bytes do not take fewer sectors.
LEMMA MoreSectors ==
  ASSUME NEW a \in Nat, NEW b \in Nat, a <= b
  PROVE  SectorsOf(a) <= SectorsOf(b)
BY DEF SectorsOf, SectorSize

\* What the partition that is given its room will hold.
Need == IF Call.entry = 0 THEN SectorsOf(StageTwoSize)
        ELSE IF Call.entry = 1 THEN SectorsOf(StageThreeSize(config))
        ELSE 1 + Cardinality(Nodes)

\* What a call to size an entry is for.
LEMMA SizingCall ==
  ASSUME UtilInv, Calls("size")
  PROVE  /\ Making /\ Sizing /\ place < Len(Script) /\ place \in {7, 11, 15}
         /\ Call.entry \in {0, 1, 2} /\ Call.entry \in CallIndices /\ Call.entry \in Indices
         /\ Call.bytes \in Sizes
         /\ place # WithPartitions(config) + 1 /\ place \in Nat
         /\ Need \in Nat /\ Need <= LbaCount(Call.bytes)
         /\ IsFresh(Call.entry)
<1>1. ControlInv /\ Making /\ Sizing
  BY SizePlace DEF UtilInv
<1>2. /\ config \in Configs /\ config.fs_loader \in BOOLEAN
      /\ WithPartitions(config) \in Nat /\ Fixed(config) <= WithPartitions(config)
      /\ Fixed(config) \in {12, 17} /\ (config.fs_loader <=> Fixed(config) = 17)
      /\ Len(Script) = WithPartitions(config) + 2
  BY <1>1, InitLength, ConfigsAssumption
<1>3. /\ place < Len(Script) /\ place \in {7, 11, 15} /\ place # WithPartitions(config) + 1
      /\ Call.entry \in {0, 1, 2}
  BY <1>1, <1>2 DEF Sizing, SizeStageTwo, SizeStageThree, SizeFs
<1>4. /\ Granted /\ primary_entries \in Table /\ {0, 1, 2} \subseteq Indices
  BY <1>1, <1>3, MakingMemory
<1>5. Call.bytes \in Sizes
  <2>1. /\ StageTwoRoom \in Sizes /\ StageThreeSize(config) \in Sizes /\ config.fs_size \in Sizes
    BY <1>2, ConfigsAssumption, StagesAssumption DEF StageThreeSize
  <2> QED
    BY <1>1, <2>1 DEF Sizing
<1>6. Need \in Nat /\ Need <= LbaCount(Call.bytes)
  <2>1. /\ LbaCount(Call.bytes) \in Nat /\ Call.bytes \in Nat
        /\ Call.bytes <= LbaCount(Call.bytes) * SectorSize
    BY <1>5, RunLength
  <2>2. SectorsOf(Call.bytes) \in Nat /\ SectorsOf(Call.bytes) <= LbaCount(Call.bytes)
    BY <2>1, EnoughSectors
  <2>3. CASE Call.entry = 0
    <3>1. Call.bytes = StageTwoRoom
      BY <1>1, <2>3 DEF Sizing
    <3>2. StageTwoSize \in Nat /\ StageTwoRoom \in Nat /\ StageTwoSize <= StageTwoRoom
      <4>1. StageTwoSize \in Sizes /\ StageTwoRoom \in Sizes
        BY StagesAssumption
      <4> QED
        BY <4>1, RunLength, StagesFitAssumption
    <3>3. SectorsOf(StageTwoSize) <= SectorsOf(StageTwoRoom) /\ SectorsOf(StageTwoSize) \in Nat
      BY <3>2, MoreSectors, StageSectors
    <3>4. Need = SectorsOf(StageTwoSize)
      BY <2>3 DEF Need
    <3> QED
      BY <2>1, <2>2, <3>1, <3>3, <3>4
  <2>4. CASE Call.entry = 1
    <3>1. Call.bytes = StageThreeSize(config)
      BY <1>1, <2>4 DEF Sizing
    <3>2. Need = SectorsOf(StageThreeSize(config))
      BY <2>4 DEF Need
    <3> QED
      BY <2>2, <3>1, <3>2
  <2>5. CASE Call.entry = 2
    <3>1. Call.bytes = config.fs_size /\ config.fs_loader
      BY <1>1, <2>5 DEF Sizing
    <3>2. 1 + Cardinality(Nodes) <= SectorsOf(Call.bytes) /\ Cardinality(Nodes) \in Nat
      BY <1>2, <3>1, FsFitsAssumption, NodesAssumption, FS_CardinalityType
    <3>3. Need = 1 + Cardinality(Nodes)
      BY <2>5 DEF Need
    <3> QED
      BY <2>1, <2>2, <3>2, <3>3
  <2> QED
    BY <1>3, <2>3, <2>4, <2>5
<1>7. IsFresh(Call.entry)
  <2>1. \A j \in Indices : IsUsed(primary_entries[j]) => j \in Used
    BY <1>4 DEF Used, Table
  <2>2. \A j \in Used : j < Call.entry
    BY <1>1, <1>2, <1>4 DEF Sizing, Granted, SizeStageTwo, SizeStageThree, SizeFs
  <2> QED
    BY <2>1, <2>2 DEF IsFresh
<1> QED
  BY <1>1, <1>2, <1>3, <1>4, <1>5, <1>6, <1>7 DEF CallIndices

\* The search for room goes on, or ends without any.
LEMMA SizingStep ==
  ASSUME UtilInv, Calls("size"), Outside, place' = place, k' \in {0, 1},
         IInv', UNCHANGED <<headers, entries, disk_size>>,
         pc' = "scan" => k' = 1 /\ scan'.index = Call.entry /\ scan'.size = Call.bytes
  PROVE  UtilInv'
<1>1. /\ Making /\ place < Len(Script) /\ place \in {7, 11, 15} /\ place \in Nat
      /\ place # WithPartitions(config) + 1 /\ ControlInv
  BY SizingCall DEF UtilInv
<1>2. /\ UNCHANGED <<disk, io, promises>> /\ SameCommand /\ tree' = tree
      /\ config' = config /\ UNCHANGED <<cmd, config>>
      /\ primary_entries' = primary_entries /\ backup_entries' = backup_entries
      /\ disk_size' = disk_size
  BY DEF Outside, SameCommand, entries
<1>3. Call' = Call /\ Calls("size")'
  <2>1. Script' = Script /\ Running'
    BY <1>2, SameScript DEF Calls
  <2>2. Call' = Call
    BY <2>1 DEF Call
  <2> QED
    BY <2>1, <2>2 DEF Calls
<1>4. backup_entries # NoEntries /\ disk_size = config.disk_size /\ Granted
  BY <1>1, MakingMemory
<1>5. Granted'
  BY <1>1, <1>2, <1>3, <1>4, GrantedStays
<1>6. k' \in Nat /\ tree' \in SUBSET Nodes
  BY <1>1, <1>2 DEF ControlInv
<1>7. /\ 3 < place /\ 4 < place'
      /\ place \notin {FillStageTwo, FillStageThree} /\ place # FillFs
  BY <1>1 DEF FillStageTwo, FillStageThree, FillFs
<1> QED
  BY <1>1, <1>2, <1>3, <1>4, <1>5, <1>6, <1>7, MakingStep

\* init asks for room for an entry behind the others.
LEMMA CallSetSizeInv ==
  ASSUME UtilInv, CallSetSize
  PROVE  UtilInv'
<1>1. /\ Calls("size") /\ k' = 1 /\ place' = place /\ Outside
      /\ SetEntrySize(Call.entry, Call.bytes)
  BY DEF CallSetSize
<1>2. /\ Making /\ place > 4 /\ Call.entry \in CallIndices /\ Call.entry \in Indices
      /\ Call.bytes \in Sizes /\ IsFresh(Call.entry)
  BY <1>1, SizingCall
<1>3. IInv
  BY <1>2, MakingMemory
<1>4. PICK i, n : i = Call.entry /\ n = Call.bytes
  OBVIOUS
<1>5. SetEntrySize(i, n) /\ Ready /\ IsFresh(i) /\ i \in CallIndices /\ n \in Sizes
  BY <1>1, <1>2, <1>4 DEF SetEntrySize
<1>6. IInv'
  BY <1>3, <1>5, SetEntrySizeIInv
<1>7. UNCHANGED <<headers, entries, disk_size>>
  BY <1>5 DEF SetEntrySize, Return
<1>8. pc' = "scan" => scan'.index = i /\ scan'.size = n
  <2>1. Return("EINVAL") => pc' = "idle"
    BY <1>5 DEF Return, Ready, Idle
  <2> QED
    BY <1>5, <2>1 DEF SetEntrySize
<1> QED
  BY <1>1, <1>4, <1>6, <1>7, <1>8, SizingStep

\* The search for room passes an entry.
LEMMA SetSizeScansInv ==
  ASSUME UtilInv, SetSizeScans
  PROVE  UtilInv'
<1>1. /\ Calls("size") /\ k' = k /\ place' = place /\ Outside
      /\ PassEntry \/ MoveBehindEntry
  BY DEF SetSizeScans
<1>2. Making /\ place > 4
  BY <1>1, SizingCall
<1>3. IInv /\ Granted
  BY <1>2, MakingMemory
<1>4. pc = "scan" /\ k = 1 /\ scan.index = Call.entry /\ scan.size = Call.bytes /\ scan \in Scan
  BY <1>1, <1>3 DEF PassEntry, MoveBehindEntry, Scanning, Granted, IInv, TypeOK
<1>5. IInv'
  BY <1>1, <1>3, PassEntryIInv, MoveBehindEntryIInv
<1>6. UNCHANGED <<headers, entries, disk_size>>
  BY <1>1 DEF PassEntry, MoveBehindEntry
<1>7. scan'.index = scan.index /\ scan'.size = scan.size
  BY <1>1, <1>4 DEF PassEntry, MoveBehindEntry, Scan
<1> QED
  BY <1>1, <1>4, <1>5, <1>6, <1>7, SizingStep

\* The partition that is granted has room for what init puts there.
LEMMA GrantRoom ==
  ASSUME UtilInv, Calls("size"), FinishSetEntrySize,
         scan.last_lba <= primary_header.last_usable_lba
  PROVE  /\ backup_entries' # NoEntries
         /\ Used' = Used \cup {Call.entry} /\ HasRoom(primary_entries'[Call.entry], Need)
         /\ DOMAIN primary_entries' = Indices
         /\ \A j \in Indices : j # Call.entry => primary_entries'[j] = primary_entries[j]
<1>1. /\ Making /\ place > 4 /\ Call.entry \in Indices
      /\ Need \in Nat /\ Need <= LbaCount(Call.bytes)
  BY SizingCall
<1>2. IInv /\ Granted /\ primary_entries \in Table
  BY <1>1, MakingMemory
<1>3. pc = "scan" /\ scan.index = Call.entry /\ scan.size = Call.bytes
  BY <1>2 DEF FinishSetEntrySize, Granted
<1>4. /\ primary_entries' \in Table /\ backup_entries' = primary_entries'
      /\ Used' = Used \cup {scan.index}
      /\ \A j \in Used' : j = scan.index =>
           First(j)' = scan.first_lba /\ Last(j)' = scan.last_lba
  BY <1>2, GrantExtents
<1>5. /\ scan.first_lba \in Nat /\ scan.lba_count \in Nat
      /\ scan.lba_count = LbaCount(scan.size)
      /\ scan.last_lba = scan.first_lba + scan.lba_count - 1
  BY <1>2, <1>3 DEF IInv, TypeOK, ScanCandidate, Scan, U64s
<1>6. \A j \in Indices : j # Call.entry => primary_entries'[j] = primary_entries[j]
  <2>1. \/ primary_entries' = [primary_entries EXCEPT ![scan.index].first_lba = scan.first_lba,
                                                       ![scan.index].last_lba = scan.last_lba]
        \/ primary_entries' = primary_entries
    BY DEF FinishSetEntrySize, entries
  <2> QED
    BY <1>2, <1>3, <2>1 DEF Table
<1>7. HasRoom(primary_entries'[Call.entry], Need)
  <2>1. PICK i, e : i = Call.entry /\ e = primary_entries'[i]
    OBVIOUS
  <2>2. i \in Used' /\ e.first_lba = scan.first_lba /\ e.last_lba = scan.last_lba /\ IsUsed(e)
    BY <1>3, <1>4, <2>1 DEF First, Last, Used, IsUsed
  <2>3. Need <= e.last_lba - e.first_lba + 1
    BY <1>1, <1>3, <1>5, <2>2
  <2> QED
    BY <2>1, <2>2, <2>3 DEF HasRoom
<1>8. backup_entries' # NoEntries /\ DOMAIN primary_entries' = Indices
  BY <1>1, <1>4 DEF Table, NoEntries
<1> QED
  BY <1>3, <1>4, <1>6, <1>7, <1>8

\* The search ends: the entry is granted its room, or there is none.
LEMMA SetSizeReturnsInv ==
  ASSUME UtilInv, SetSizeReturns
  PROVE  UtilInv'
<1>1. /\ Calls("size") /\ FinishSetEntrySize /\ Outside
      /\ IF ret' = "ok" THEN NextCall ELSE UNCHANGED <<place, k>>
      /\ ControlInv
  BY DEF SetSizeReturns, UtilInv
<1>2. /\ Making /\ Sizing /\ place < Len(Script) /\ place \in {7, 11, 15} /\ place > 4
      /\ Call.entry \in {0, 1, 2} /\ Call.entry \in Indices
      /\ place # WithPartitions(config) + 1 /\ place \in Nat
  BY <1>1, SizingCall
<1>3. /\ IInv /\ Granted /\ backup_entries # NoEntries /\ disk_size = config.disk_size
      /\ primary_entries \in Table /\ {0, 1, 2} \subseteq Indices /\ FsEntry = 2
  BY <1>2, MakingMemory
<1>4. pc = "scan" /\ k = 1 /\ pc' = "idle" /\ disk_size' = disk_size
      /\ UNCHANGED headers
  BY <1>1, <1>3 DEF FinishSetEntrySize, Granted
<1>5. IInv'
  BY <1>1, <1>3, FinishSetEntrySizeIInv
<1>6. CASE scan.last_lba > primary_header.last_usable_lba
  <2>1. scan.last_lba \in Nat /\ primary_header.last_usable_lba \in Nat
    BY <1>3, <1>4, ReadyTable DEF IInv, TypeOK, Scan, U64s
  <2>2. ret' = "ENOSPC" /\ UNCHANGED entries
    BY <1>1, <1>6, <2>1 DEF FinishSetEntrySize
  <2> QED
    BY <1>1, <1>4, <1>5, <2>2, SizingStep
<1>7. CASE scan.last_lba <= primary_header.last_usable_lba
  <2>1. ret' = "ok" /\ NextCall
    <3>1. scan.last_lba \in Nat /\ primary_header.last_usable_lba \in Nat
      BY <1>3, <1>4, ReadyTable DEF IInv, TypeOK, Scan, U64s
    <3> QED
      BY <1>1, <1>7, <3>1 DEF FinishSetEntrySize
  <2>2. /\ backup_entries' # NoEntries
        /\ Used' = Used \cup {Call.entry} /\ HasRoom(primary_entries'[Call.entry], Need)
        /\ DOMAIN primary_entries' = Indices
        /\ \A j \in Indices : j # Call.entry => primary_entries'[j] = primary_entries[j]
    BY <1>1, <1>7, GrantRoom
  <2>3. place' = place + 1 /\ k' = 0 /\ config' = config
    BY <1>1, <2>1 DEF NextCall, Outside, SameCommand
  <2>4. /\ Used' \subseteq {0, 1, 2}
        /\ 0 \in Used' <=> place' > SizeStageTwo
        /\ 1 \in Used' <=> place' > SizeStageThree
    <3>1. (Call.entry = 0 <=> place = 7) /\ (Call.entry = 1 <=> place = 11)
      BY <1>2 DEF Sizing, SizeStageTwo, SizeStageThree, SizeFs
    <3>2. /\ Used \subseteq {0, 1, 2}
          /\ 0 \in Used <=> place > SizeStageTwo
          /\ 1 \in Used <=> place > SizeStageThree
      BY <1>3 DEF Granted
    <3>3. (place' > 7 <=> place > 7 \/ place = 7) /\ (place' > 11 <=> place > 11 \/ place = 11)
      BY <1>2, <2>3
    <3>4. Used' \subseteq {0, 1, 2}
      BY <1>2, <2>2, <3>2
    <3>5. (0 \in Used' <=> 0 \in Used \/ Call.entry = 0) /\ (1 \in Used' <=> 1 \in Used \/ Call.entry = 1)
      BY <2>2
    <3> QED
      BY <3>1, <3>2, <3>3, <3>4, <3>5 DEF SizeStageTwo, SizeStageThree
  <2>5. 2 \in Used' <=> config'.fs_loader /\ place' > SizeFs
    <3>1. 2 \in Used <=> config.fs_loader /\ place > SizeFs
      BY <1>3 DEF Granted
    <3>2. Call.entry = 2 <=> place = 15
      BY <1>2 DEF Sizing, SizeStageTwo, SizeStageThree, SizeFs
    <3>3. place = 15 => config.fs_loader
      BY <1>2 DEF Sizing, SizeStageTwo, SizeStageThree, SizeFs
    <3>4. place + 1 > 15 <=> place = 15
      BY <1>2
    <3>5. place > 15 => FALSE
      BY <1>2
    <3> QED
      BY <2>2, <2>3, <3>1, <3>2, <3>3, <3>4, <3>5 DEF SizeFs
  <2>6. 0 \in Used' => HasRoom(primary_entries'[0], SectorsOf(StageTwoSize))
    <3>1. Call.entry = 0 => Need = SectorsOf(StageTwoSize)
      BY DEF Need
    <3> QED
      BY <1>3, <2>2, <3>1 DEF Granted
  <2>7. 1 \in Used' => HasRoom(primary_entries'[1], SectorsOf(StageThreeSize(config')))
    <3>1. Call.entry = 1 => Need = SectorsOf(StageThreeSize(config))
      BY DEF Need
    <3> QED
      BY <1>3, <2>2, <2>3, <3>1 DEF Granted
  <2>8. 2 \in Used' => HasRoom(primary_entries'[2], 1 + Cardinality(Nodes))
    <3>1. Call.entry = 2 => Need = 1 + Cardinality(Nodes)
      BY DEF Need
    <3> QED
      BY <1>3, <2>2, <3>1 DEF Granted
  <2>9. \A i \in DOMAIN primary_entries' \ Used' : primary_entries'[i].first_lba = InvalidLba
    <3>1. DOMAIN primary_entries = Indices
      BY <1>3 DEF Table
    <3> QED
      BY <1>3, <2>2, <3>1 DEF Granted
  <2>10. Granted'
    BY <1>4, <2>3, <2>4, <2>5, <2>6, <2>7, <2>8, <2>9 DEF Granted, HasRoom, IsUsed
  <2>11. /\ place > FillStageTwo =>
              primary_entries'[0].first_lba = primary_entries[0].first_lba
         /\ place > FillStageThree =>
              primary_entries'[1].first_lba = primary_entries[1].first_lba
    BY <1>2, <1>3, <2>2 DEF Sizing, SizeStageTwo, SizeStageThree, SizeFs, FillStageTwo, FillStageThree
  <2>12. /\ 3 < place /\ 4 < place' /\ ~(place > FillFs)
         /\ place \notin {FillStageTwo, FillStageThree} /\ place # FillFs
    BY <1>2, <2>3 DEF FillStageTwo, FillStageThree, FillFs
  <2>13. /\ UNCHANGED <<disk, io, promises>> /\ SameCommand /\ tree' \in SUBSET Nodes
    BY <1>1 DEF Outside, ControlInv
  <2>14. disk_size' = config.disk_size
    BY <1>3, <1>4
  <2> QED
    BY <1>2, <1>4, <1>5, <2>1, <2>2, <2>10, <2>11, <2>12, <2>13, <2>14, MakingStep
<1>8. scan.last_lba \in Nat /\ primary_header.last_usable_lba \in Nat
  BY <1>3, <1>4, ReadyTable DEF IInv, TypeOK, Scan, U64s
<1> QED
  BY <1>6, <1>7, <1>8

(* -- Writing to the image ------------------------------------------------------------ *)

\* A write changes one sector.
LEMMA OneWrite ==
  ASSUME NEW s, NEW x, Write(s, x), x.kind \notin {"header", "entries"},
         x.kind = "fs" => x.tree \subseteq Nodes
  PROVE  /\ Rewrites(s) /\ disk'[s] = x
         /\ SectorsTyped => SectorsTyped'
         /\ s \notin TableSectorsOf(config) /\ UNCHANGED config /\ NoTable => NoTable'
<1>1. Rewrites(s) /\ disk'[s] = x
  BY DEF Write, Rewrites
<1>2. DOMAIN disk' = DOMAIN disk \cup {s} /\ \A y \in DOMAIN disk \ {s} : disk'[y] = disk[y]
  BY <1>1 DEF Rewrites
<1>3. ASSUME SectorsTyped
      PROVE  SectorsTyped'
  <2> SUFFICES ASSUME NEW y \in DOMAIN disk'
               PROVE  /\ disk'[y].kind = "header" => IsHeaderSector(disk'[y])
                      /\ disk'[y].kind = "entries" => disk'[y].entries \in [Slots -> Entry]
                      /\ disk'[y].kind = "fs" => disk'[y].tree \subseteq Nodes
    BY DEF SectorsTyped, IsHeaderSector
  <2>1. CASE y = s
    BY <1>1, <2>1
  <2>2. CASE y # s
    BY <1>2, <1>3, <2>2 DEF SectorsTyped
  <2> QED
    BY <2>1, <2>2
<1>4. ASSUME s \notin TableSectorsOf(config), UNCHANGED config, NoTable
      PROVE  NoTable'
  <2> SUFFICES ASSUME NEW y \in TableSectorsOf(config), y \in DOMAIN disk'
               PROVE  disk'[y] = Blank
    BY <1>4 DEF NoTable, TableSectorsOf, ImageSectors
  <2>1. y # s /\ y \in DOMAIN disk
    BY <1>2, <1>4
  <2> QED
    BY <1>2, <1>4, <2>1 DEF NoTable
<1> QED
  BY <1>1, <1>3, <1>4

\* Sector 0 is none of those of the table.
LEMMA FirstApart == 0 \notin TableSectorsOf(config)
BY DEF TableSectorsOf

\* A write into a partition touches nothing else that is looked at.
LEMMA WriteInside ==
  ASSUME NEW t, TableSound(t), t.primary_entries = primary_entries,
         NEW l, l = EndOf(t), \A x \in 0..l : x \in DOMAIN disk,
         NEW i \in Indices, NEW n \in Nat, HasRoom(primary_entries[i], n),
         NEW m \in 0..(n - 1), NEW s, s = primary_entries[i].first_lba + m, Rewrites(s)
  PROVE  /\ s # 0 /\ s \in DOMAIN disk /\ DOMAIN disk' = DOMAIN disk /\ disk'[0] = disk[0]
         /\ s \notin TablePlaces(l) /\ s \in (2 + ArraySectors)..(l - ArraySectors - 1)
         /\ \A x \in TablePlaces(l) : disk'[x] = disk[x]
         /\ \A j \in Indices : \A o \in Nat :
              j # i /\ HasRoom(primary_entries[j], o) => SectorsKept(primary_entries[j], o)
         /\ SectorsKept(primary_entries[i], m)
<1>1. /\ l \in Nat /\ 2 * ArraySectors + 2 <= l /\ ArraySectors \in Nat \ {0}
  BY SoundTable, EntryPlace
<1>2. ASSUME NEW j \in Indices
      PROVE  /\ primary_entries[j].first_lba \in Nat /\ primary_entries[j].last_lba \in Nat
             /\ IsUsed(primary_entries[j]) =>
                  /\ 2 + ArraySectors <= primary_entries[j].first_lba
                  /\ primary_entries[j].first_lba <= primary_entries[j].last_lba
                  /\ primary_entries[j].last_lba <= l - ArraySectors - 1
  BY <1>1, SoundExtents
<1>3. \A a, b \in Indices :
        IsUsed(primary_entries[a]) /\ IsUsed(primary_entries[b]) /\ a < b =>
          primary_entries[a].last_lba < primary_entries[b].first_lba
  <2>1. ExtentsSound(t.primary_entries, t.primary.first_usable_lba, t.primary.last_usable_lba)
    BY DEF TableSound
  <2> QED
    BY <1>1, <2>1 DEF ExtentsSound
<1>4. /\ IsUsed(primary_entries[i]) /\ n <= primary_entries[i].last_lba - primary_entries[i].first_lba + 1
      /\ primary_entries[i].first_lba \in Nat /\ primary_entries[i].last_lba \in Nat
      /\ 2 + ArraySectors <= primary_entries[i].first_lba
      /\ primary_entries[i].last_lba <= l - ArraySectors - 1
  BY <1>2 DEF HasRoom
<1>5. /\ s \in Nat /\ primary_entries[i].first_lba <= s /\ s <= primary_entries[i].last_lba
      /\ m \in Nat
  BY <1>4
<1>6. /\ s # 0 /\ s \in DOMAIN disk /\ s # 1 /\ s \notin TablePlaces(l) /\ 0 \in DOMAIN disk
      /\ s \in (2 + ArraySectors)..(l - ArraySectors - 1)
  BY <1>1, <1>4, <1>5 DEF TablePlaces
<1>7. DOMAIN disk' = DOMAIN disk /\ \A x \in DOMAIN disk : x # s => disk'[x] = disk[x]
  BY <1>6 DEF Rewrites
<1>8. \A x \in TablePlaces(l) : disk'[x] = disk[x]
  <2>1. \A x \in TablePlaces(l) : x \in 0..l
    BY <1>1 DEF TablePlaces
  <2> QED
    BY <1>6, <1>7, <2>1
<1>9. ASSUME NEW j \in Indices, NEW o \in Nat, j # i, HasRoom(primary_entries[j], o)
      PROVE  SectorsKept(primary_entries[j], o)
  <2> SUFFICES ASSUME NEW q \in 0..(o - 1)
               PROVE  disk'[primary_entries[j].first_lba + q] = disk[primary_entries[j].first_lba + q]
    BY DEF SectorsKept
  <2>1. PICK f, g : f = primary_entries[j].first_lba /\ g = primary_entries[j].last_lba
    OBVIOUS
  <2>2. /\ IsUsed(primary_entries[j]) /\ o <= g - f + 1 /\ f \in Nat /\ g \in Nat
        /\ 2 + ArraySectors <= f /\ g <= l - ArraySectors - 1
    BY <1>2, <1>9, <2>1 DEF HasRoom
  <2>3. f + q \in 0..l /\ f + q <= g /\ f <= f + q
    BY <1>1, <2>2
  <2>4. i \in Nat /\ j \in Nat
    BY EntryCountAssumption DEF Indices
  <2>5. f + q # s
    <3>1. CASE i < j
      BY <1>3, <1>4, <1>5, <2>1, <2>2, <2>3, <3>1
    <3>2. CASE j < i
      BY <1>3, <1>4, <1>5, <2>1, <2>2, <2>3, <3>2
    <3> QED
      BY <1>9, <2>4, <3>1, <3>2
  <2> QED
    BY <1>7, <2>1, <2>3, <2>5
<1>10. SectorsKept(primary_entries[i], m)
  <2> SUFFICES ASSUME NEW q \in 0..(m - 1)
               PROVE  disk'[primary_entries[i].first_lba + q] = disk[primary_entries[i].first_lba + q]
    BY DEF SectorsKept
  <2>1. PICK f : f = primary_entries[i].first_lba
    OBVIOUS
  <2>2. f + q \in 0..l /\ f + q # s
    BY <1>1, <1>4, <1>5, <2>1
  <2> QED
    BY <1>7, <2>1, <2>2
<1> QED
  BY <1>6, <1>7, <1>8, <1>9, <1>10

\* One more sector of a partition is filled.
LEMMA FilledMore ==
  ASSUME NEW e, NEW n \in Nat, SectorsKept(e, n)
  PROVE  /\ \A what : Filled(e, what, n) /\ disk'[e.first_lba + n] = Data(what, n) =>
                        Filled(e, what, n + 1)'
         /\ \A t : TreeFilled(e, t, n) /\ disk'[e.first_lba + n] = Chunk(t, n) =>
                     TreeFilled(e, t, n + 1)'
<1>1. \A m \in 0..((n + 1) - 1) : m \in 0..(n - 1) \/ m = n
  OBVIOUS
<1>2. \A m \in 0..(n - 1) : disk'[e.first_lba + m] = disk[e.first_lba + m]
  BY DEF SectorsKept
<1>3. ASSUME NEW what, Filled(e, what, n), disk'[e.first_lba + n] = Data(what, n),
             NEW m \in 0..((n + 1) - 1)
      PROVE  disk'[e.first_lba + m] = Data(what, m)
  BY <1>1, <1>2, <1>3 DEF Filled
<1>4. ASSUME NEW t, TreeFilled(e, t, n), disk'[e.first_lba + n] = Chunk(t, n),
             NEW m \in 0..((n + 1) - 1)
      PROVE  disk'[e.first_lba + m] = Chunk(t, m)
  BY <1>1, <1>2, <1>4 DEF TreeFilled
<1>5. ASSUME NEW what, Filled(e, what, n), disk'[e.first_lba + n] = Data(what, n)
      PROVE  Filled(e, what, n + 1)'
  BY <1>3, <1>5, Zenon DEF Filled, Data
<1>6. ASSUME NEW t, TreeFilled(e, t, n), disk'[e.first_lba + n] = Chunk(t, n)
      PROVE  TreeFilled(e, t, n + 1)'
  BY <1>4, <1>6, Zenon DEF TreeFilled, Chunk
<1> QED
  BY <1>5, <1>6

(* -- init writes to the image --------------------------------------------------------- *)

\* What the partitions and the boot sector hold by now.
Fills ==
  /\ place = FillStageTwo => /\ k < SectorsOf(StageTwoSize)
                             /\ Filled(primary_entries[0], "stage two", k)
  /\ place > FillStageTwo => Filled(primary_entries[0], "stage two", SectorsOf(StageTwoSize))
  /\ place = FillStageThree =>
       /\ k < SectorsOf(StageThreeSize(config))
       /\ Filled(primary_entries[1], "stage three", k)
  /\ place > FillStageThree => Filled(primary_entries[1], "stage three",
                                      SectorsOf(StageThreeSize(config)))
  /\ config.fs_loader /\ place = FillFs =>
       k < StreamLength(tree) /\ TreeFilled(primary_entries[FsEntry], tree, k)
  /\ config.fs_loader /\ place > FillFs =>
       TreeFilled(primary_entries[FsEntry], tree, StreamLength(tree))
  /\ place >= Len(Script) => disk[0] = UpdatedBootsector

\* init writes anything but the table.
LEMMA MakingWrites ==
  ASSUME UtilInv, Making, place < Len(Script), place \notin {4, 7, 11},
         config.fs_loader => place # 15, ~Calls("size"), SameCommand,
         UNCHANGED <<vars, io, tree>>, made' \in {made, config},
         saved' \in SUBSET Nodes, unsaved' \in BOOLEAN,
         layout' = {}, NextCall \/ (place' = place /\ k' \in Nat),
         SectorsTyped', WholeImage', NoTable', ~Holds(0, "fs")', ~Holds(0, "header")',
         place' = 2 => DOMAIN disk' = {}, place' > 2 => DOMAIN disk' = ImageSectors(config),
         place' > 3 => Holds(0, "boot")', Fills', place' > 1
  PROVE  UtilInv'
<1>1. ControlInv /\ ExportInv /\ MemoryInv /\ Running
  BY DEF UtilInv, Making, Running, NoCommand
<1>2. /\ Script' = Script /\ Making' /\ ~Using' /\ Running' /\ config' = config
  <2>1. UNCHANGED <<cmd, config>>
    BY DEF SameCommand
  <2>2. Making' /\ Running' /\ Script' = Script
    BY <1>1, <2>1, SameScript
  <2> QED
    BY <2>1, <2>2 DEF Using
<1>3. /\ config \in Configs
      /\ WithPartitions(config) \in Nat /\ Fixed(config) <= WithPartitions(config)
      /\ Fixed(config) \in {12, 17} /\ (config.fs_loader <=> Fixed(config) = 17)
      /\ Len(Script) = WithPartitions(config) + 2
      /\ place \in Nat /\ 1 <= place /\ place <= Len(Script) + 1
  BY <1>1, InitLength
<1>4. ~Calls("export")
  BY <1>1, <1>3, ExportPlace DEF Using
<1>5. io = NoIo /\ At("none") /\ io' = NoIo
  BY <1>1, <1>4, NotExporting
<1>6. /\ place' \in {place, place + 1} /\ k' \in Nat /\ (place' = place + 1 => k' = 0)
      /\ place' <= Len(Script) /\ place' \in Nat /\ place <= Len(Script)
      /\ ~(place' > Len(Script))
  BY <1>3 DEF NextCall
<1>7. /\ ~(Calls("export") /\ k # 0)'
      /\ Calls("size")' => k' = 0
  <2>1. CASE place' = place
    <3>1. /\ Calls("export")' <=> Calls("export")
          /\ Calls("size")' <=> Calls("size")
      BY <1>1, <1>2, <2>1 DEF Calls, Call
    <3> QED
      BY <1>4, <3>1
  <2>2. CASE place' = place + 1
    BY <1>6, <2>2
  <2> QED
    BY <1>6, <2>1, <2>2
<1>8. pc # "scan" /\ pc' = pc
  BY <1>1 DEF ControlInv, vars
<1>9. ControlInv'
  <2>1. tree' \in SUBSET Nodes
    BY <1>1 DEF ControlInv
  <2> QED
    BY <1>1, <1>5, <1>6, <1>7, <1>8, <2>1, StepControl
<1>10. ImageInv'
  <2>1. DOMAIN disk' = {} \/ DOMAIN disk' = ImageSectors(config)
    BY <1>6
  <2>2. ArraySectors \in Nat \ {0} /\ FirstUsableLba = 2 + ArraySectors
    BY <1>3, ImageRoom, FormatLayout, EntryPlace
  <2>3. \A s \in 1..(1 + ArraySectors) : s \in DOMAIN disk' => disk'[s] = Blank
    <3> SUFFICES ASSUME NEW s \in 1..(1 + ArraySectors), s \in DOMAIN disk'
                 PROVE  disk'[s] = Blank
      OBVIOUS
    <3>1. s \in TableSectorsOf(config)
      BY <2>1, <2>2 DEF TableSectorsOf
    <3> QED
      BY <1>2, <3>1 DEF NoTable
  <2>4. ~Holds(1, "header")'
    BY <2>2, <2>3 DEF Holds, Blank
  <2>5. ~IsWhole'
    BY <2>4 DEF IsWhole
  <2> QED
    BY <2>3, <2>4, <2>5 DEF ImageInv
<1>11. ImageInv' /\ LayoutInv' /\ ChecksumsComplete' /\ UsingInv'
  BY <1>1, <1>2, <1>10, StillRunning DEF LayoutInv, UsingInv
<1>12. MemoryInv'
  <2>1. CASE place <= 3
    <3>1. Init
      BY <1>1, <2>1, <1>3 DEF MemoryInv, NothingInMemory
    <3>2. Init'
      BY <3>1 DEF Init, vars, headers, entries
    <3>3. place' <= 4
      BY <1>6, <2>1, <1>3
    <3> QED
      BY <1>2, <1>6, <3>2, <3>3 DEF MemoryInv, ImportedInMemory, Saving
  <2>2. CASE place > 4
    <3>1. /\ IInv /\ backup_entries # NoEntries /\ disk_size = config.disk_size /\ Granted
      BY <2>2, MakingMemory
    <3>2. IInv'
      <4>1. [Next]_vars
        OBVIOUS
      <4> QED
        BY <3>1, <4>1, NextIInv
    <3>3. UNCHANGED <<primary_entries, backup_entries, disk_size, config>>
      BY <1>2 DEF vars, entries
    <3>4. /\ \A n \in {SizeStageTwo, SizeStageThree} : place' > n <=> place > n
          /\ config.fs_loader => (place' > SizeFs <=> place > SizeFs)
      BY <1>3, <1>6 DEF SizeStageTwo, SizeStageThree, SizeFs
    <3>5. Granted'
      BY <1>3, <1>6, <1>7, <1>8, <3>1, <3>3, <3>4, GrantedStays
    <3>6. ~NothingInMemory' /\ ~ImportedInMemory'
      BY <1>2, <1>3, <1>6, <2>2 DEF NothingInMemory, ImportedInMemory, Saving
    <3> QED
      BY <3>1, <3>2, <3>3, <3>5, <3>6 DEF MemoryInv
  <2> QED
    BY <1>3, <2>1, <2>2
<1>13. ExportInv'
  <2>1. At("none")' /\ io' \in [step : {"none"} \cup ExportSteps, i : Indices]
    BY <1>1, <1>5 DEF At, ExportInv, NoIo
  <2> QED
    BY <1>2, <1>6, <2>1 DEF ExportInv, At
<1>14. MakingInv'
  <2>1. ~(place' > Len(Script'))
    BY <1>2, <1>6
  <2> QED
    BY <1>2, <2>1 DEF MakingInv, Fills
<1> QED
  BY <1>9, <1>11, <1>12, <1>13, <1>14 DEF UtilInv

\* An image has a first sector.
LEMMA ImageBegins ==
  ASSUME NEW c \in Configs
  PROVE  c.disk_size \in DiskSizes /\ 0 \in ImageSectors(c)
<1>1. 0 \in 0..(1 + ArraySectors)
  BY EntryPlace
<1> QED
  BY <1>1, ImageRoom

\* The first calls fill nothing.
LEMMA NoFills ==
  ASSUME ControlInv, Making, UNCHANGED <<cmd, config>>, place \in {1, 2, 3}, NextCall
  PROVE  /\ Fills' /\ place < Len(Script) /\ place' = place + 1 /\ 12 < Len(Script)
         /\ place \notin {4, 7, 11} /\ place # 15
<1>1. /\ WithPartitions(config) \in Nat /\ 12 <= WithPartitions(config)
      /\ Len(Script) = WithPartitions(config) + 2
  BY InitLength
<1>2. place' = place + 1 /\ Script' = Script
  BY SameScript DEF NextCall
<1>3. /\ place' # 8 /\ ~(place' > 8) /\ place' # 12 /\ ~(place' > 12) /\ place' # 17
      /\ ~(place' > 17) /\ ~(place' >= Len(Script'))
  BY <1>1, <1>2
<1>4. Fills'
  BY <1>3 DEF Fills, FillStageTwo, FillStageThree, FillFs
<1>5. place < Len(Script) /\ 12 < Len(Script) /\ place \notin {4, 7, 11} /\ place # 15
  BY <1>1
<1> QED
  BY <1>2, <1>4, <1>5

\* init empties the image.
LEMMA OpenEmptyInv ==
  ASSUME UtilInv, OpenEmpty
  PROVE  UtilInv'
<1>1. /\ Calls("open") /\ disk' = [s \in {} |-> Blank]
      /\ layout' = {} /\ made' = config /\ saved' = {} /\ unsaved' = FALSE
      /\ NextCall /\ UNCHANGED <<vars, io, tree>> /\ SameCommand /\ ControlInv
  BY DEF OpenEmpty, UtilInv
<1>2. Making /\ place = 1 /\ ~Calls("size") /\ UNCHANGED <<cmd, config>>
  BY <1>1, OpenPlace, OneCall DEF SameCommand
<1>3. Fills' /\ place < Len(Script) /\ place' = 2
  BY <1>1, <1>2, NoFills
<1>4. DOMAIN disk' = {}
  BY <1>1
<1>5. SectorsTyped' /\ WholeImage' /\ NoTable' /\ ~Holds(0, "fs")' /\ ~Holds(0, "header")'
  BY <1>4 DEF SectorsTyped, WholeImage, NoTable, Holds
<1>6. place \notin {4, 7, 11} /\ place # 15 /\ place' = 2 /\ ~(place' > 2) /\ ~(place' > 3) /\ place' > 1
  BY <1>2, <1>3
<1>7. saved' \in SUBSET Nodes /\ unsaved' \in BOOLEAN
  BY <1>1
<1> QED
  BY <1>1, <1>2, <1>3, <1>4, <1>5, <1>6, <1>7, MakingWrites

\* What init finds on the image.
LEMMA MakingDisk ==
  ASSUME UtilInv, Making, place > 2, place < Len(Script)
  PROVE  /\ DOMAIN disk = ImageSectors(config) /\ config \in Configs /\ 0 \in DOMAIN disk
         /\ layout = {} /\ NoTable /\ SectorsTyped /\ WholeImage
         /\ saved \in SUBSET Nodes /\ unsaved \in BOOLEAN
<1>1. ControlInv /\ MakingInv /\ ImageInv
  BY DEF UtilInv
<1>2. place \in Nat /\ place > 1 /\ config \in Configs
  BY <1>1, InitLength
<1>3. DOMAIN disk = ImageSectors(config) /\ layout = {} /\ NoTable
  BY <1>1, <1>2 DEF MakingInv
<1>4. 0 \in DOMAIN disk
  BY <1>2, <1>3, ImageBegins
<1> QED
  BY <1>1, <1>2, <1>3, <1>4 DEF ImageInv, ControlInv

\* init makes the image as long as the configuration says.
LEMMA ZeroInv ==
  ASSUME UtilInv, Zero
  PROVE  UtilInv'
<1>1. /\ Calls("zero")
      /\ disk' = [s \in 0..(config.disk_size \div SectorSize - 1) |-> Blank]
      /\ NextCall /\ UNCHANGED <<vars, io, tree, promises>> /\ SameCommand
      /\ ControlInv /\ MakingInv
  BY DEF Zero, UtilInv
<1>2. Making /\ place = 2 /\ ~Calls("size") /\ UNCHANGED <<cmd, config>>
  BY <1>1, ZeroPlace, OneCall DEF SameCommand
<1>3. Fills' /\ place < Len(Script) /\ place' = 3
  BY <1>1, <1>2, NoFills
<1>4. DOMAIN disk' = ImageSectors(config) /\ \A s \in DOMAIN disk' : disk'[s] = Blank
  BY <1>1 DEF ImageSectors
<1>5. SectorsTyped' /\ NoTable' /\ ~Holds(0, "fs")' /\ ~Holds(0, "header")'
  BY <1>4 DEF SectorsTyped, NoTable, Blank, Holds
<1>6. WholeImage'
  BY <1>1, <1>2, <1>4 DEF WholeImage, ControlInv
<1>7. /\ place \notin {4, 7, 11} /\ place # 15 /\ place' # 2 /\ ~(place' > 3) /\ place' > 1
  BY <1>2, <1>3
<1>8. /\ saved' \in SUBSET Nodes /\ unsaved' \in BOOLEAN /\ layout' = {} /\ made' = made
  <2>1. place > 1
    BY <1>2
  <2>2. layout = {}
    BY <1>1, <1>2, <2>1 DEF MakingInv
  <2>3. saved \in SUBSET Nodes /\ unsaved \in BOOLEAN
    BY <1>1 DEF ControlInv
  <2> QED
    BY <1>1, <2>2, <2>3 DEF promises
<1> QED
  BY <1>1, <1>2, <1>3, <1>4, <1>5, <1>6, <1>7, <1>8, MakingWrites

\* init writes the boot sector.
LEMMA WriteBootsectorInv ==
  ASSUME UtilInv, WriteBootsector
  PROVE  UtilInv'
<1>1. /\ Calls("bootsector") /\ Write(0, Bootsector(NoDap, NoDap))
      /\ NextCall /\ UNCHANGED <<vars, io, tree, promises>> /\ SameCommand
      /\ ControlInv
  BY DEF WriteBootsector, UtilInv
<1>2. Making /\ place = 3 /\ ~Calls("size") /\ UNCHANGED <<cmd, config>>
  BY <1>1, BootsectorPlace, OneCall DEF SameCommand
<1>3. Fills' /\ place < Len(Script) /\ place' = 4
  BY <1>1, <1>2, NoFills
<1>4. /\ DOMAIN disk = ImageSectors(config) /\ config \in Configs /\ 0 \in DOMAIN disk
      /\ layout = {} /\ NoTable /\ SectorsTyped /\ WholeImage
      /\ saved \in SUBSET Nodes /\ unsaved \in BOOLEAN
  BY <1>2, <1>3, MakingDisk
<1>5. PICK x : x = Bootsector(NoDap, NoDap)
  OBVIOUS
<1>6. x.kind = "boot"
  BY <1>5 DEF Bootsector
<1>7. Write(0, x)
  BY <1>1, <1>5
<1>8. Rewrites(0) /\ disk'[0] = x /\ SectorsTyped' /\ NoTable'
  BY <1>2, <1>4, <1>6, <1>7, OneWrite, FirstApart
<1>9. /\ DOMAIN disk' = DOMAIN disk
      /\ Holds(0, "boot")' /\ ~Holds(0, "fs")' /\ ~Holds(0, "header")'
  BY <1>4, <1>6, <1>8 DEF Rewrites, Holds
<1>10. WholeImage'
  BY <1>4, <1>9 DEF WholeImage
<1>11. /\ place \notin {4, 7, 11} /\ place # 15 /\ place' # 2 /\ place' > 1
  BY <1>2, <1>3
<1>12. /\ saved' \in SUBSET Nodes /\ unsaved' \in BOOLEAN /\ layout' = {} /\ made' = made
  BY <1>1, <1>4 DEF promises
<1> QED
  BY <1>1, <1>2, <1>3, <1>4, <1>8, <1>9, <1>10, <1>11, <1>12, MakingWrites

\* The table that init has made lies on the image.
LEMMA MakingTable ==
  ASSUME UtilInv, Making, place > 4
  PROVE  /\ TableSound(InMemory)
         /\ \A x \in 0..EndOf(InMemory) : x \in DOMAIN disk
         /\ TablePlaces(EndOf(InMemory)) \subseteq TableSectorsOf(config)
         /\ \A s \in (2 + ArraySectors)..(EndOf(InMemory) - ArraySectors - 1) :
              s \notin TableSectorsOf(config)
<1>1. ControlInv /\ MakingInv
  BY DEF UtilInv
<1>2. place \in Nat /\ place > 2
  BY <1>1, InitLength
<1>3. DOMAIN disk = ImageSectors(config)
  BY <1>1, <1>2 DEF MakingInv
<1>4. IInv /\ backup_entries # NoEntries /\ disk_size = config.disk_size /\ Granted
  BY MakingMemory
<1> QED
  BY <1>3, <1>4, MadeTable, MadeSectors

\* What init has filled by now.
LEMMA MakingFills ==
  ASSUME UtilInv, Making
  PROVE  Fills
BY DEF UtilInv, MakingInv, Fills

\* init writes a sector of a partition.
LEMMA FillStep ==
  ASSUME UtilInv, Making, place \in {8, 12, 17}, place < WithPartitions(config) + 1,
         ~Calls("size"), SameCommand, UNCHANGED <<vars, io, tree, made>>,
         saved' \in SUBSET Nodes, unsaved' \in BOOLEAN, layout' = layout,
         NEW i \in {0, 1, 2}, i \in Used, NEW n \in Nat, HasRoom(primary_entries[i], n),
         k \in 0..(n - 1), NEW x, Write(primary_entries[i].first_lba + k, x),
         x.kind \in {"data", "fs"}, x.kind = "fs" => x.tree \subseteq Nodes,
         IF k + 1 < n THEN k' = k + 1 /\ UNCHANGED place ELSE NextCall
  PROVE  /\ Fills' => UtilInv'
         /\ disk'[primary_entries[i].first_lba + k] = x
         /\ SectorsKept(primary_entries[i], k)
         /\ \A j \in Indices : \A o \in Nat :
              j # i /\ HasRoom(primary_entries[j], o) => SectorsKept(primary_entries[j], o)
         /\ k \in Nat /\ Script' = Script /\ config' = config /\ place' <= place + 1
         /\ \/ place' = place /\ k' = k + 1 /\ k + 1 < n
            \/ place' = place + 1 /\ k + 1 = n
<1>1. /\ ControlInv /\ config \in Configs
      /\ WithPartitions(config) \in Nat /\ Fixed(config) <= WithPartitions(config)
      /\ Len(Script) = WithPartitions(config) + 2
      /\ place \in Nat
  BY InitLength DEF UtilInv
<1>2. place < Len(Script) /\ place > 4 /\ place > 2 /\ place > 3
  BY <1>1
<1>3. /\ DOMAIN disk = ImageSectors(config) /\ layout = {} /\ NoTable /\ SectorsTyped
      /\ WholeImage /\ 0 \in DOMAIN disk
  BY <1>2, MakingDisk
<1>4. PICK l : l = EndOf(InMemory)
  OBVIOUS
<1>5. /\ TableSound(InMemory) /\ (\A y \in 0..l : y \in DOMAIN disk) /\ i \in Indices
      /\ \A y \in (2 + ArraySectors)..(l - ArraySectors - 1) : y \notin TableSectorsOf(config)
      /\ InMemory.primary_entries = primary_entries
  BY <1>2, <1>4, MakingTable, ThreeEntries DEF InMemory
<1>6. PICK s : s = primary_entries[i].first_lba + k
  OBVIOUS
<1>7. Write(s, x) /\ x.kind \notin {"header", "entries"}
  BY <1>6
<1>8. Rewrites(s) /\ disk'[s] = x /\ SectorsTyped'
  BY <1>3, <1>7, OneWrite
<1>9. PICK m \in 0..(n - 1) : m = k
  OBVIOUS
<1>10. /\ s # 0 /\ s \in DOMAIN disk /\ DOMAIN disk' = DOMAIN disk /\ disk'[0] = disk[0]
       /\ \A j \in Indices : \A o \in Nat :
            j # i /\ HasRoom(primary_entries[j], o) => SectorsKept(primary_entries[j], o)
       /\ SectorsKept(primary_entries[i], m)
       /\ s \in (2 + ArraySectors)..(l - ArraySectors - 1)
  BY <1>4, <1>5, <1>6, <1>8, <1>9, WriteInside
<1>11. Holds(0, "boot")' /\ ~Holds(0, "fs")' /\ ~Holds(0, "header")'
  <2>1. Holds(0, "boot")
    BY <1>2 DEF UtilInv, MakingInv
  <2> QED
    BY <1>10, <2>1 DEF Holds
<1>12. k \in Nat /\ Script' = Script /\ config' = config
  BY SameScript DEF SameCommand
<1>13. \/ place' = place /\ k' = k + 1 /\ k + 1 < n
       \/ place' = place + 1 /\ k + 1 = n /\ NextCall
  BY DEF NextCall
<1>14. ASSUME Fills'
       PROVE  UtilInv'
  <2>1. /\ place \notin {4, 7, 11} /\ place # 15 /\ place' # 2 /\ place' > 1 /\ layout' = {}
    BY <1>1, <1>3, <1>13
  <2>2. WholeImage' /\ DOMAIN disk' = ImageSectors(config) /\ NoTable'
    <3>1. s \notin TableSectorsOf(config)
      BY <1>5, <1>10
    <3> QED
      BY <1>3, <1>7, <1>10, <1>12, <3>1, OneWrite DEF WholeImage
  <2>3. NextCall \/ (place' = place /\ k' \in Nat)
    BY <1>12, <1>13
  <2> QED
    BY <1>2, <1>8, <1>11, <1>14, <2>1, <2>2, <2>3, MakingWrites
<1>15. place' <= place + 1
  BY <1>1, <1>13
<1> QED
  BY <1>6, <1>8, <1>9, <1>10, <1>12, <1>13, <1>14, <1>15

\* What partitions hold is kept with their sectors.
LEMMA FilledStays ==
  ASSUME NEW i, UNCHANGED primary_entries, NEW n, SectorsKept(primary_entries[i], n)
  PROVE  /\ \A what : Filled(primary_entries[i], what, n) =>
                        Filled(primary_entries[i], what, n)'
         /\ \A t : TreeFilled(primary_entries[i], t, n) =>
                     TreeFilled(primary_entries[i], t, n)'
<1>1. PICK e : e = primary_entries[i]
  OBVIOUS
<1>2. /\ \A what : Filled(e, what, n)' <=> Filled(e, what, n)
      /\ \A t : TreeFilled(e, t, n)' <=> TreeFilled(e, t, n)
  BY <1>1, FilledKept
<1> QED
  BY <1>1, <1>2

\* init fills the partitions of the stages.
LEMMA WriteDataInv ==
  ASSUME UtilInv, WriteData
  PROVE  UtilInv'
<1>1. /\ Calls("data") /\ UNCHANGED <<vars, io, tree, promises>> /\ SameCommand
      /\ Write(primary_entries[Call.entry].first_lba + k, Data(Call.what, k))
      /\ IF k + 1 < SectorsOf(Call.bytes) THEN k' = k + 1 /\ UNCHANGED place ELSE NextCall
      /\ ControlInv
  BY DEF WriteData, UtilInv
<1>2. Making /\ Filling /\ ~Calls("size")
  BY <1>1, DataPlace, OneCall
<1>3. /\ place \in {8, 12} /\ WithPartitions(config) \in Nat /\ 12 <= WithPartitions(config)
      /\ Len(Script) = WithPartitions(config) + 2
  <2>1. place \in {8, 12}
    BY <1>2 DEF Filling, FillStageTwo, FillStageThree
  <2> QED
    BY <1>1, <1>2, <2>1, InitLength
<1>4. /\ Granted /\ primary_entries \in Table /\ {0, 1, 2} \subseteq Indices
  BY <1>2, <1>3, MakingMemory
<1>5. Fills
  BY <1>2, MakingFills
<1>6. /\ saved' \in SUBSET Nodes /\ unsaved' \in BOOLEAN /\ layout' = layout /\ made' = made
      /\ primary_entries' = primary_entries
  BY <1>1 DEF promises, ControlInv, vars, entries
<1>7. PICK x : x = Data(Call.what, k)
  OBVIOUS
<1>8. x.kind = "data"
  BY <1>7 DEF Data
<1>9. place < WithPartitions(config) + 1 /\ place \in {8, 12, 17}
  BY <1>3
<1>10. CASE place = 8
  <2>1. Call.entry = 0 /\ Call.what = "stage two" /\ Call.bytes = StageTwoSize
    <3>1. FillStageTwo = 8 /\ FillStageThree = 12 /\ 8 # 12
      BY DEF FillStageTwo, FillStageThree
    <3> QED
      BY <1>2, <1>10, <3>1, Zenon DEF Filling
  <2>2. PICK n : n = SectorsOf(StageTwoSize)
    OBVIOUS
  <2>3. n \in Nat /\ k < n /\ k \in Nat
    BY <1>1, <1>5, <1>10, <2>2, StageSectors DEF Fills, FillStageTwo, ControlInv
  <2>4. Filled(primary_entries[0], "stage two", k)
    BY <1>5, <1>10 DEF Fills, FillStageTwo
  <2>5. 0 \in Used /\ HasRoom(primary_entries[0], n)
    BY <1>4, <1>10, <2>2 DEF Granted, SizeStageTwo
  <2>6. /\ Write(primary_entries[0].first_lba + k, x)
        /\ IF k + 1 < n THEN k' = k + 1 /\ UNCHANGED place ELSE NextCall
        /\ k \in 0..(n - 1)
    <3>1. Write(primary_entries[0].first_lba + k, x)
      BY <1>1, <1>7, <2>1, Zenon
    <3>2. IF k + 1 < n THEN k' = k + 1 /\ UNCHANGED place ELSE NextCall
      BY <1>1, <2>1, <2>2, Zenon
    <3>3. k \in 0..(n - 1)
      BY <2>3
    <3> QED
      BY <3>1, <3>2, <3>3
  <2>7. /\ Fills' => UtilInv'
        /\ disk'[primary_entries[0].first_lba + k] = x
        /\ SectorsKept(primary_entries[0], k)
        /\ Script' = Script /\ config' = config
        /\ \/ place' = place /\ k' = k + 1 /\ k + 1 < n
           \/ place' = place + 1 /\ k + 1 = n
    BY <1>1, <1>2, <1>6, <1>8, <1>9, <2>3, <2>5, <2>6, FillStep
  <2>8. PICK e, q : e = primary_entries[0] /\ q = k
    OBVIOUS
  <2>9. Filled(e, "stage two", q + 1)'
    BY <1>7, <2>1, <2>3, <2>4, <2>7, <2>8, FilledMore
  <2>10. /\ place' = 8 => k' < n /\ k' = q + 1
         /\ place' > 8 => q + 1 = n
         /\ place' # 12 /\ ~(place' > 12) /\ place' # 17 /\ ~(place' > 17)
         /\ ~(place' >= Len(Script'))
    BY <1>3, <1>10, <2>3, <2>7, <2>8
  <2>11. Fills'
    <3>1. place' = 8 => Filled(primary_entries[0], "stage two", k)'
      BY <1>6, <2>8, <2>9, <2>10
    <3>2. place' > 8 => Filled(primary_entries[0], "stage two", SectorsOf(StageTwoSize))'
      BY <1>6, <2>2, <2>8, <2>9, <2>10
    <3> QED
      BY <2>2, <2>10, <3>1, <3>2 DEF Fills, FillStageTwo, FillStageThree, FillFs
  <2> QED
    BY <2>7, <2>11
<1>11. CASE place = 12
  <2>1. Call.entry = 1 /\ Call.what = "stage three" /\ Call.bytes = StageThreeSize(config)
    <3>1. FillStageTwo = 8 /\ FillStageThree = 12 /\ 8 # 12
      BY DEF FillStageTwo, FillStageThree
    <3> QED
      BY <1>2, <1>11, <3>1, Zenon DEF Filling
  <2>2. PICK n, o : n = SectorsOf(StageThreeSize(config)) /\ o = SectorsOf(StageTwoSize)
    OBVIOUS
  <2>3. place = FillStageThree /\ place > FillStageTwo
    BY <1>11 DEF FillStageTwo, FillStageThree
  <2>4. n \in Nat /\ k < n /\ k \in Nat /\ o \in Nat
    BY <1>1, <1>5, <2>2, <2>3, StageSectors DEF ControlInv, Fills
  <2>5. Filled(primary_entries[1], "stage three", k) /\ Filled(primary_entries[0], "stage two", o)
    BY <1>5, <2>2, <2>3 DEF Fills
  <2>6. 1 \in Used /\ HasRoom(primary_entries[1], n) /\ HasRoom(primary_entries[0], o)
    BY <1>4, <1>11, <2>2 DEF Granted, SizeStageTwo, SizeStageThree
  <2>7. /\ Write(primary_entries[1].first_lba + k, x)
        /\ IF k + 1 < n THEN k' = k + 1 /\ UNCHANGED place ELSE NextCall
        /\ k \in 0..(n - 1)
    <3>1. Write(primary_entries[1].first_lba + k, x)
      BY <1>1, <1>7, <2>1, Zenon
    <3>2. IF k + 1 < n THEN k' = k + 1 /\ UNCHANGED place ELSE NextCall
      BY <1>1, <2>1, <2>2, Zenon
    <3>3. k \in 0..(n - 1)
      BY <2>4
    <3> QED
      BY <3>1, <3>2, <3>3
  <2>8. /\ Fills' => UtilInv'
        /\ disk'[primary_entries[1].first_lba + k] = x
        /\ SectorsKept(primary_entries[1], k) /\ SectorsKept(primary_entries[0], o)
        /\ Script' = Script /\ config' = config
        /\ \/ place' = place /\ k' = k + 1 /\ k + 1 < n
           \/ place' = place + 1 /\ k + 1 = n
    <3>1. /\ Fills' => UtilInv'
          /\ disk'[primary_entries[1].first_lba + k] = x
          /\ SectorsKept(primary_entries[1], k)
          /\ \A j \in Indices : \A b \in Nat :
               j # 1 /\ HasRoom(primary_entries[j], b) => SectorsKept(primary_entries[j], b)
          /\ Script' = Script /\ config' = config
          /\ \/ place' = place /\ k' = k + 1 /\ k + 1 < n
             \/ place' = place + 1 /\ k + 1 = n
      BY <1>1, <1>2, <1>6, <1>8, <1>9, <2>4, <2>6, <2>7, FillStep
    <3>2. SectorsKept(primary_entries[0], o)
      BY <1>4, <2>4, <2>6, <3>1
    <3> QED
      BY <3>1, <3>2
  <2>9. PICK e, q : e = primary_entries[1] /\ q = k
    OBVIOUS
  <2>10. Filled(e, "stage three", q + 1)'
    BY <1>7, <2>1, <2>4, <2>5, <2>8, <2>9, FilledMore
  <2>11. /\ place' = 12 => k' < n /\ k' = q + 1
         /\ place' > 12 => q + 1 = n
         /\ place' # 8 /\ place' # 17 /\ ~(place' > 17)
         /\ ~(place' >= Len(Script'))
    BY <1>3, <1>11, <2>4, <2>8, <2>9
  <2>12. Fills'
    <3>1. place' = 12 => Filled(primary_entries[1], "stage three", k)'
      BY <1>6, <2>9, <2>10, <2>11
    <3>2. place' > 12 =>
            Filled(primary_entries[1], "stage three", SectorsOf(StageThreeSize(config)))'
      BY <1>6, <2>2, <2>8, <2>9, <2>10, <2>11
    <3>3. Filled(primary_entries[0], "stage two", SectorsOf(StageTwoSize))'
      BY <1>6, <2>2, <2>5, <2>8, FilledStays
    <3> QED
      BY <2>2, <2>8, <2>11, <3>1, <3>2, <3>3 DEF Fills, FillStageTwo, FillStageThree, FillFs
  <2> QED
    BY <2>8, <2>12
<1> QED
  BY <1>3, <1>10, <1>11

\* A write to sector 0 leaves the partitions alone.
LEMMA WriteFirst ==
  ASSUME NEW l, TableSound(InMemory), l = EndOf(InMemory), \A x \in 0..l : x \in DOMAIN disk,
         Rewrites(0)
  PROVE  /\ DOMAIN disk' = DOMAIN disk
         /\ \A i \in Indices : \A n \in Nat :
              HasRoom(primary_entries[i], n) => SectorsKept(primary_entries[i], n)
<1>1. /\ l \in Nat /\ ArraySectors \in Nat \ {0} /\ InMemory.primary_entries = primary_entries
  BY SoundTable, EntryPlace DEF InMemory
<1>2. DOMAIN disk' = DOMAIN disk
  <2>1. 0 \in DOMAIN disk
    BY <1>1
  <2> QED
    BY <2>1 DEF Rewrites
<1>3. ASSUME NEW i \in Indices, NEW n \in Nat, HasRoom(primary_entries[i], n),
             NEW m \in 0..(n - 1)
      PROVE  disk'[primary_entries[i].first_lba + m] = disk[primary_entries[i].first_lba + m]
  <2>1. PICK f, g : f = primary_entries[i].first_lba /\ g = primary_entries[i].last_lba
    OBVIOUS
  <2>2. /\ f \in Nat /\ g \in Nat
        /\ IsUsed(primary_entries[i]) => 2 + ArraySectors <= f /\ g <= l - ArraySectors - 1
    BY <1>1, <2>1, SoundExtents
  <2>3. n <= g - f + 1 /\ 2 + ArraySectors <= f /\ g <= l - ArraySectors - 1
    BY <1>3, <2>1, <2>2 DEF HasRoom
  <2>4. f + m \in 0..l /\ f + m # 0
    BY <1>1, <2>2, <2>3
  <2>5. disk'[f + m] = disk[f + m]
    BY <2>4 DEF Rewrites
  <2> QED
    BY <2>1, <2>5
<1> QED
  BY <1>2, <1>3 DEF SectorsKept

\* What init has filled by its last two calls stays with the partitions.
LEMMA PartitionsStay ==
  ASSUME UtilInv, Making, place > 12, config.fs_loader => place > 17,
         UNCHANGED <<primary_entries, tree, config>>,
         \A i \in Indices : \A n \in Nat :
           HasRoom(primary_entries[i], n) => SectorsKept(primary_entries[i], n)
  PROVE  /\ Filled(primary_entries[0], "stage two", SectorsOf(StageTwoSize))'
         /\ Filled(primary_entries[1], "stage three", SectorsOf(StageThreeSize(config)))'
         /\ config.fs_loader => TreeFilled(primary_entries[FsEntry], tree, StreamLength(tree))'
<1>1. place \in Nat /\ place > 4 /\ ControlInv
  BY InitLength DEF UtilInv
<1>2. Fills
  BY MakingFills
<1>3. /\ Granted /\ {0, 1, 2} \subseteq Indices /\ FsEntry = 2
  BY <1>1, MakingMemory, ThreeEntries
<1>4. /\ Filled(primary_entries[0], "stage two", SectorsOf(StageTwoSize))'
      /\ Filled(primary_entries[1], "stage three", SectorsOf(StageThreeSize(config)))'
  <2>1. PICK n, o : n = SectorsOf(StageTwoSize) /\ o = SectorsOf(StageThreeSize(config))
    OBVIOUS
  <2>2. n \in Nat /\ o \in Nat
    BY <2>1, StageSectors
  <2>3. place > FillStageTwo /\ place > FillStageThree
    BY <1>1 DEF FillStageTwo, FillStageThree
  <2>4. HasRoom(primary_entries[0], n) /\ HasRoom(primary_entries[1], o)
    BY <1>1, <1>3, <2>1 DEF Granted, SizeStageTwo, SizeStageThree
  <2>5. SectorsKept(primary_entries[0], n) /\ SectorsKept(primary_entries[1], o)
    BY <1>3, <2>2, <2>4
  <2>6. /\ Filled(primary_entries[0], "stage two", n)
        /\ Filled(primary_entries[1], "stage three", o)
    BY <1>2, <2>1, <2>3, Zenon DEF Fills
  <2>7. /\ Filled(primary_entries[0], "stage two", n)'
        /\ Filled(primary_entries[1], "stage three", o)'
    BY <2>5, <2>6, FilledStays
  <2> QED
    BY <2>1, <2>7
<1>5. config.fs_loader => TreeFilled(primary_entries[FsEntry], tree, StreamLength(tree))'
  <2> SUFFICES ASSUME config.fs_loader
               PROVE  TreeFilled(primary_entries[FsEntry], tree, StreamLength(tree))'
    OBVIOUS
  <2>1. PICK n, t : n = StreamLength(tree) /\ t = tree
    OBVIOUS
  <2>2. IsUsed(primary_entries[2])
    BY <1>1, <1>3 DEF Granted, SizeFs, HasRoom
  <2>3. n \in Nat /\ HasRoom(primary_entries[2], n)
    <3>1. tree \in SUBSET Nodes
      BY <1>1 DEF ControlInv
    <3>2. TableSound(InMemory) /\ InMemory.primary_entries = primary_entries
      BY <1>1, MakingTable DEF InMemory
    <3> QED
      BY <1>3, <2>1, <2>2, <3>1, <3>2, TreeFits
  <2>4. TreeFilled(primary_entries[2], t, n)
    BY <1>1, <1>2, <1>3, <2>1 DEF Fills, FillFs
  <2>5. TreeFilled(primary_entries[2], t, n)'
    BY <1>3, <2>3, <2>4, FilledStays
  <2>6. StreamLength(tree)' = n
    BY <2>1 DEF StreamLength
  <2> QED
    BY <1>3, <2>1, <2>5, <2>6
<1> QED
  BY <1>4, <1>5

\* init tells the boot sector where the stages are.
LEMMA UpdateMbrInv ==
  ASSUME UtilInv, UpdateMbr
  PROVE  UtilInv'
<1>1. /\ Calls("mbr") /\ Write(0, UpdatedBootsector)
      /\ NextCall /\ UNCHANGED <<vars, io, tree, promises>> /\ SameCommand
      /\ ControlInv
  BY DEF UpdateMbr, UtilInv
<1>2. Making /\ place = WithPartitions(config) + 1 /\ ~Calls("size") /\ UNCHANGED <<cmd, config>>
  BY <1>1, MbrPlace, OneCall DEF SameCommand
<1>3. /\ WithPartitions(config) \in Nat /\ Fixed(config) <= WithPartitions(config)
      /\ Fixed(config) \in {12, 17} /\ (config.fs_loader <=> Fixed(config) = 17)
      /\ Len(Script) = WithPartitions(config) + 2
  BY <1>1, <1>2, InitLength
<1>4. /\ place \in Nat /\ 12 < place /\ (config.fs_loader => 17 < place)
      /\ place' = place + 1 /\ place' = Len(Script) /\ place < Len(Script)
  BY <1>1, <1>2, <1>3 DEF NextCall
<1>5. /\ DOMAIN disk = ImageSectors(config) /\ config \in Configs /\ 0 \in DOMAIN disk
      /\ layout = {} /\ NoTable /\ SectorsTyped /\ WholeImage
      /\ saved \in SUBSET Nodes /\ unsaved \in BOOLEAN
  BY <1>2, <1>4, MakingDisk
<1>6. PICK x : x = UpdatedBootsector
  OBVIOUS
<1>7. x.kind = "boot"
  BY <1>6 DEF UpdatedBootsector, Bootsector
<1>8. Rewrites(0) /\ disk'[0] = x /\ SectorsTyped' /\ NoTable'
  <2>1. Write(0, x)
    BY <1>1, <1>6
  <2> QED
    BY <1>2, <1>5, <1>7, <2>1, OneWrite, FirstApart
<1>9. PICK l : l = EndOf(InMemory)
  OBVIOUS
<1>10. /\ DOMAIN disk' = DOMAIN disk
       /\ \A i \in Indices : \A n \in Nat :
            HasRoom(primary_entries[i], n) => SectorsKept(primary_entries[i], n)
  <2>1. TableSound(InMemory) /\ \A y \in 0..l : y \in DOMAIN disk
    BY <1>2, <1>4, <1>9, MakingTable
  <2> QED
    BY <1>8, <1>9, <2>1, WriteFirst
<1>11. /\ Holds(0, "boot")' /\ ~Holds(0, "fs")' /\ ~Holds(0, "header")' /\ WholeImage'
  BY <1>5, <1>7, <1>8, <1>10 DEF WholeImage, Holds
<1>12. primary_entries' = primary_entries /\ tree' = tree
  BY <1>1 DEF vars, entries
<1>13. /\ Filled(primary_entries[0], "stage two", SectorsOf(StageTwoSize))'
       /\ Filled(primary_entries[1], "stage three", SectorsOf(StageThreeSize(config)))'
       /\ config.fs_loader => TreeFilled(primary_entries[FsEntry], tree, StreamLength(tree))'
  BY <1>2, <1>4, <1>10, <1>12, PartitionsStay
<1>14. disk'[0] = UpdatedBootsector'
  <2>1. UpdatedBootsector' = UpdatedBootsector
    BY <1>12 DEF UpdatedBootsector, Bootsector, Dap
  <2> QED
    BY <1>6, <1>8, <2>1
<1>15. Fills'
  <2>1. place' # 8 /\ place' # 12 /\ (config.fs_loader => place' # 17)
    BY <1>4
  <2> QED
    BY <1>2, <1>13, <1>14, <2>1 DEF Fills, FillStageTwo, FillStageThree, FillFs
<1>16. /\ place \notin {4, 7, 11} /\ (config.fs_loader => place # 15) /\ place' # 2 /\ place' > 1
  BY <1>4
<1>17. /\ saved' \in SUBSET Nodes /\ unsaved' \in BOOLEAN /\ layout' = {} /\ made' = made
       /\ DOMAIN disk' = ImageSectors(config)
  BY <1>1, <1>5, <1>10 DEF promises
<1> QED
  BY <1>1, <1>2, <1>4, <1>8, <1>11, <1>15, <1>16, <1>17, MakingWrites

\* init writes the file system it has made.
LEMMA ExportFsMaking ==
  ASSUME UtilInv, ExportFs, Making
  PROVE  UtilInv'
<1>1. /\ Calls("fs") /\ WriteChunk(k) /\ unsaved' = (unsaved \/ tree # saved)
      /\ IF k + 1 < StreamLength(tree) THEN k' = k + 1 /\ UNCHANGED place ELSE NextCall
      /\ UNCHANGED <<vars, io, tree, layout, made, saved>> /\ SameCommand /\ ControlInv
  BY DEF ExportFs, UtilInv
<1>2. /\ place = 17 /\ config.fs_loader /\ ~Calls("size")
      /\ WithPartitions(config) \in Nat /\ 17 <= WithPartitions(config)
      /\ Len(Script) = WithPartitions(config) + 2
  <2>1. place = 17 /\ config.fs_loader
    BY <1>1, FsPlace DEF Using, FillFs
  <2>2. ~Calls("size")
    BY <1>1, OneCall
  <2> QED
    BY <1>1, <2>1, <2>2, InitLength
<1>3. /\ Granted /\ primary_entries \in Table /\ {0, 1, 2} \subseteq Indices /\ FsEntry = 2
      /\ TableSound(InMemory)
  BY <1>2, MakingMemory, MakingTable
<1>4. Fills
  BY MakingFills
<1>5. /\ saved' \in SUBSET Nodes /\ unsaved' \in BOOLEAN /\ layout' = layout
      /\ primary_entries' = primary_entries /\ tree' = tree /\ tree \in SUBSET Nodes
  BY <1>1 DEF ControlInv, vars, entries
<1>6. PICK x, t, n, q : x = Chunk(tree, k) /\ t = tree /\ n = StreamLength(tree) /\ q = k
  OBVIOUS
<1>7. x.kind = "fs" /\ x.tree \subseteq Nodes
  BY <1>5, <1>6 DEF Chunk
<1>8. 2 \in Used /\ n \in Nat /\ HasRoom(primary_entries[2], n)
  <2>1. 2 \in Used /\ IsUsed(primary_entries[2])
    BY <1>2, <1>3 DEF Granted, SizeFs, HasRoom
  <2>2. InMemory.primary_entries = primary_entries
    BY DEF InMemory
  <2> QED
    BY <1>3, <1>5, <1>6, <2>1, <2>2, TreeFits
<1>9. q \in Nat /\ q < n /\ k \in 0..(n - 1)
  <2>1. k \in Nat /\ k < n
    BY <1>1, <1>2, <1>4, <1>6 DEF Fills, FillFs, ControlInv
  <2> QED
    BY <1>6, <1>8, <2>1
<1>10. /\ Filled(primary_entries[0], "stage two", SectorsOf(StageTwoSize))
       /\ Filled(primary_entries[1], "stage three", SectorsOf(StageThreeSize(config)))
       /\ TreeFilled(primary_entries[2], t, q)
  <2>1. place > FillStageTwo /\ place > FillStageThree /\ place = FillFs
    BY <1>2 DEF FillStageTwo, FillStageThree, FillFs
  <2> QED
    BY <1>2, <1>3, <1>4, <1>6, <2>1, Zenon DEF Fills
<1>11. /\ Write(primary_entries[2].first_lba + k, x)
       /\ IF k + 1 < n THEN k' = k + 1 /\ UNCHANGED place ELSE NextCall
  <2>1. Write(primary_entries[2].first_lba + k, x)
    BY <1>1, <1>3, <1>6, Zenon DEF WriteChunk
  <2>2. IF k + 1 < n THEN k' = k + 1 /\ UNCHANGED place ELSE NextCall
    BY <1>1, <1>6, Zenon
  <2> QED
    BY <2>1, <2>2
<1>12. /\ Fills' => UtilInv'
       /\ disk'[primary_entries[2].first_lba + k] = x
       /\ SectorsKept(primary_entries[2], k)
       /\ \A j \in Indices : \A o \in Nat :
            j # 2 /\ HasRoom(primary_entries[j], o) => SectorsKept(primary_entries[j], o)
       /\ Script' = Script /\ config' = config
       /\ \/ place' = place /\ k' = k + 1 /\ k + 1 < n
          \/ place' = place + 1 /\ k + 1 = n
  <2>1. place < WithPartitions(config) + 1 /\ place \in {8, 12, 17} /\ 2 \in {0, 1, 2}
    BY <1>2
  <2>2. UNCHANGED <<vars, io, tree, made>>
    BY <1>1
  <2>3. x.kind \in {"data", "fs"} /\ (x.kind = "fs" => x.tree \subseteq Nodes)
    BY <1>7
  <2> QED
    BY <1>1, <1>2, <1>5, <1>8, <1>9, <1>11, <2>1, <2>2, <2>3, FillStep
<1>13. PICK e : e = primary_entries[2]
  OBVIOUS
<1>14. TreeFilled(e, t, q + 1)'
  <2>1. disk'[e.first_lba + q] = Chunk(t, q) /\ SectorsKept(e, q) /\ TreeFilled(e, t, q)
    BY <1>6, <1>10, <1>12, <1>13
  <2> QED
    BY <1>9, <2>1, FilledMore
<1>15. /\ place' = 17 => k' < n /\ k' = q + 1
       /\ place' > 17 => q + 1 = n
       /\ place' # 8 /\ place' # 12 /\ ~(place' >= Len(Script'))
       /\ place' > 8 /\ place' > 12
  BY <1>2, <1>6, <1>9, <1>12
<1>16. /\ Filled(primary_entries[0], "stage two", SectorsOf(StageTwoSize))'
       /\ Filled(primary_entries[1], "stage three", SectorsOf(StageThreeSize(config)))'
  <2>1. PICK a, b : a = SectorsOf(StageTwoSize) /\ b = SectorsOf(StageThreeSize(config))
    OBVIOUS
  <2>2. a \in Nat /\ b \in Nat
    BY <2>1, StageSectors
  <2>3. HasRoom(primary_entries[0], a) /\ HasRoom(primary_entries[1], b)
    BY <1>2, <1>3, <2>1 DEF Granted, SizeStageTwo, SizeStageThree
  <2>4. SectorsKept(primary_entries[0], a) /\ SectorsKept(primary_entries[1], b)
    BY <1>3, <1>12, <2>2, <2>3
  <2>5. Filled(primary_entries[0], "stage two", a)'
    BY <1>5, <1>10, <2>1, <2>4, FilledStays
  <2>6. Filled(primary_entries[1], "stage three", b)'
    BY <1>5, <1>10, <2>1, <2>4, FilledStays
  <2> QED
    BY <1>12, <2>1, <2>5, <2>6
<1>17. /\ place' = 17 => k' < StreamLength(tree)' /\ TreeFilled(primary_entries[FsEntry], tree, k)'
       /\ place' > 17 => TreeFilled(primary_entries[FsEntry], tree, StreamLength(tree))'
  <2>1. StreamLength(tree)' = n /\ tree' = t /\ primary_entries'[FsEntry] = e
    BY <1>3, <1>5, <1>6, <1>13 DEF StreamLength
  <2> QED
    BY <1>14, <1>15, <2>1
<1>18. Fills'
  BY <1>15, <1>16, <1>17 DEF Fills, FillStageTwo, FillStageThree, FillFs
<1> QED
  BY <1>12, <1>18

(* -- Other commands save the tree ------------------------------------------------------- *)

\* What a command saves the tree to: the table on the image, which it has in memory.
LEMMA SavingTable ==
  ASSUME UtilInv, Saving
  PROVE  /\ Holds(1, "header") /\ SectorsTyped /\ WholeImage /\ PrimarySound /\ ImageInv
         /\ primary_header = ImportedPrimary /\ primary_entries = ImportedPrimaryEntries
         /\ backup_header = ImportedBackup
         /\ backup_header \in Header /\ backup_entries \in Table
         /\ IsUsed(primary_entries[FsEntry])
         /\ layout # {} => IsWhole /\ made.fs_loader
         /\ disk_size = Cardinality(DOMAIN disk) * SectorSize
         /\ pc = "idle" /\ scan = NoScan /\ ret = "ok"
         /\ config.fs_loader /\ Using /\ place > 2 /\ Len(Script) \in Nat /\ place \in Nat
         /\ tree \in SUBSET Nodes /\ saved \in SUBSET Nodes /\ unsaved \in BOOLEAN
<1>1. ControlInv /\ ImageInv /\ LayoutInv /\ MemoryInv /\ UsingInv
  BY DEF UtilInv
<1>2. /\ primary_header = ImportedPrimary /\ primary_entries = ImportedPrimaryEntries
      /\ backup_header = ImportedBackup
      /\ backup_header \in Header /\ backup_entries \in Table
      /\ disk_size = Cardinality(DOMAIN disk) * SectorSize
      /\ pc = "idle" /\ scan = NoScan /\ ret = "ok"
  BY <1>1 DEF MemoryInv, ImportedInMemory, Idle
<1>3. /\ config.fs_loader /\ Using /\ place > 2 /\ Len(Script) \in Nat /\ place \in Nat
  BY <1>1, OtherLength DEF Saving
<1>4. Holds(1, "header") /\ IsUsed(primary_entries[FsEntry])
  BY <1>1, <1>2, <1>3 DEF UsingInv
<1>5. SectorsTyped /\ WholeImage /\ PrimarySound
  BY <1>1, <1>4 DEF ImageInv
<1>6. layout # {} => IsWhole /\ made.fs_loader
  BY <1>1, <1>2, <1>4 DEF LayoutInv
<1>7. tree \in SUBSET Nodes /\ saved \in SUBSET Nodes /\ unsaved \in BOOLEAN
  BY <1>1 DEF ControlInv
<1> QED
  BY <1>1, <1>2, <1>3, <1>4, <1>5, <1>6, <1>7

\* An image that init exported to the end is in memory as a whole.
LEMMA SavingWhole ==
  ASSUME UtilInv, Saving, IsWhole
  PROVE  /\ InMemory = OnImage /\ TableSound(OnImage)
         /\ \A x \in 0..EndOf(InMemory) : x \in DOMAIN disk
         /\ EndOf(InMemory) = ImportedPrimary.backup_lba
         /\ Holds(0, "boot") /\ \A lba \in Headers : NoStaleSum(disk[lba])
<1>1. ImageInv /\ MemoryInv /\ PrimarySound
  BY SavingTable DEF UtilInv
<1>2. InMemory = OnImage
  BY <1>1 DEF MemoryInv, ImportedInMemory
<1>3. TableSound(OnImage) /\ Holds(0, "boot") /\ \A lba \in Headers : NoStaleSum(disk[lba])
  BY <1>1 DEF ImageInv
<1>4. EndOf(InMemory) = ImportedPrimary.backup_lba
  BY <1>2, <1>3, Imported
<1>5. \A x \in 0..EndOf(InMemory) : x \in DOMAIN disk
  BY <1>1, <1>4 DEF PrimarySound
<1> QED
  BY <1>2, <1>3, <1>4, <1>5

\* And one that it did not is half made.
LEMMA SavingHalf ==
  ASSUME UtilInv, Saving, ~IsWhole
  PROVE  HalfMade(ImportedPrimary.backup_lba) /\ layout = {}
BY SavingTable DEF HalfMade

\* In both, the partition has room for any tree.
LEMMA SavingRoom ==
  ASSUME UtilInv, Saving
  PROVE  /\ \E t : /\ TableSound(t) /\ t.primary_entries = primary_entries
                   /\ EndOf(t) = ImportedPrimary.backup_lba
         /\ \A x \in 0..ImportedPrimary.backup_lba : x \in DOMAIN disk
         /\ StreamLength(tree) \in Nat \ {0}
         /\ HasRoom(primary_entries[FsEntry], StreamLength(tree)) /\ FsEntry \in Indices
<1>1. /\ SectorsTyped /\ PrimarySound /\ primary_entries = ImportedPrimaryEntries
      /\ IsUsed(primary_entries[FsEntry]) /\ tree \in SUBSET Nodes
  BY SavingTable
<1>2. PICK t : /\ TableSound(t) /\ t.primary_entries = primary_entries
               /\ EndOf(t) = ImportedPrimary.backup_lba
  BY <1>1, PrimaryTable
<1>3. \A x \in 0..ImportedPrimary.backup_lba : x \in DOMAIN disk
  BY <1>1 DEF PrimarySound
<1>4. /\ StreamLength(tree) \in Nat \ {0}
      /\ HasRoom(primary_entries[FsEntry], StreamLength(tree))
  BY <1>1, <1>2, TreeFits
<1> QED
  BY <1>2, <1>3, <1>4, ThreeEntries

\* What lies outside the table leaves the table as it was.
LEMMA TableLeft ==
  ASSUME IsWhole, TableSound(OnImage), NEW l, l = EndOf(OnImage),
         DOMAIN disk' = DOMAIN disk, NEW s, Rewrites(s), s \notin TablePlaces(l),
         \A x \in TablePlaces(l) : disk'[x] = disk[x],
         \A lba \in Headers : NoStaleSum(disk[lba])
  PROVE  /\ IsWhole' /\ OnImage' = OnImage /\ Headers' = Headers
         /\ ImportedPrimary' = ImportedPrimary
         /\ \A lba \in Headers : NoStaleSum(disk[lba])'
<1>1. /\ l \in Nat /\ 2 * ArraySectors + 2 <= l /\ ArraySectors \in Nat \ {0}
      /\ OnImage.primary.partition_entries_lba = 2
      /\ OnImage.backup.partition_entries_lba = l - ArraySectors
  BY SoundTable, EntryPlace
<1>2. /\ disk[1].header = OnImage.primary /\ disk[l].header = OnImage.backup
      /\ disk[1].kind = "header" /\ disk[l].kind = "header" /\ Headers = {1, l}
  BY Imported DEF Holds
<1>3. 1 \in TablePlaces(l) /\ l \in TablePlaces(l) /\ 2 \in Int /\ l - ArraySectors \in Int
  BY <1>1 DEF TablePlaces
<1>4. disk'[1] = disk[1] /\ disk'[l] = disk[l]
  BY <1>3
<1>5. ArrayAt(2)' = ArrayAt(2)
  <2>1. s \notin 2..(2 + ArraySectors - 1)
    BY <1>1 DEF TablePlaces
  <2> QED
    BY <1>3, <2>1, RewriteBeside
<1>6. ArrayAt(l - ArraySectors)' = ArrayAt(l - ArraySectors)
  <2>1. PICK p : p = l - ArraySectors
    OBVIOUS
  <2>2. p \in Int /\ s \notin p..(p + ArraySectors - 1)
    BY <1>1, <2>1 DEF TablePlaces
  <2>3. ArrayAt(p)' = ArrayAt(p)
    BY <2>2, RewriteBeside
  <2> QED
    BY <2>1, <2>3
<1>7. IsWhole' /\ OnImage' = OnImage /\ Headers' = Headers
  BY <1>2, <1>4, <1>5, <1>6, ImportedStays
<1>8. ImportedPrimary' = ImportedPrimary
  BY <1>7 DEF OnImage
<1>9. ASSUME NEW lba \in Headers
      PROVE  NoStaleSum(disk[lba])'
  <2>1. PICK x, p : x = disk[lba] /\ p = x.header.partition_entries_lba
    OBVIOUS
  <2>2. ArrayAt(p)' = ArrayAt(p) /\ disk'[lba] = x
    BY <1>1, <1>2, <1>4, <1>5, <1>6, <1>9, <2>1
  <2>3. NoStaleSum(x)
    BY <1>9, <2>1
  <2>4. NoStaleSum(x)'
    BY <2>1, <2>2, <2>3 DEF NoStaleSum, EntriesSumRight
  <2>5. NoStaleSum(disk[lba])' <=> NoStaleSum(x)'
    BY <2>2 DEF NoStaleSum, EntriesSumRight, HeaderSumRight
  <2> QED
    BY <2>4, <2>5
<1> QED
  BY <1>7, <1>8, <1>9

\* The sectors of a partition are on the image.
LEMMA PartitionOnImage ==
  ASSUME NEW t, TableSound(t), NEW l, l = EndOf(t), \A x \in 0..l : x \in DOMAIN disk,
         NEW es, es = t.primary_entries,
         NEW i \in Indices, NEW n \in Nat, HasRoom(es[i], n), NEW m \in 0..(n - 1)
  PROVE  es[i].first_lba + m \in DOMAIN disk
<1>1. l \in Nat /\ ArraySectors \in Nat \ {0}
  BY SoundTable, EntryPlace
<1>2. PICK f, g : f = es[i].first_lba /\ g = es[i].last_lba
  OBVIOUS
<1>3. /\ f \in Nat /\ g \in Nat
      /\ IsUsed(es[i]) => 2 + ArraySectors <= f /\ g <= l - ArraySectors - 1
  BY <1>1, <1>2, SoundExtents
<1>4. n <= g - f + 1 /\ 2 + ArraySectors <= f /\ g <= l - ArraySectors - 1
  BY <1>2, <1>3 DEF HasRoom
<1>5. f + m \in 0..l
  BY <1>1, <1>3, <1>4
<1> QED
  BY <1>2, <1>5

\* A sector that is written with what it holds already.
LEMMA SameChunk ==
  ASSUME NEW e, NEW n \in Nat, NEW t, TreeFilled(e, t, n), NEW m \in 0..(n - 1),
         NEW s, s = e.first_lba + m, Rewrites(s), disk'[s] = Chunk(t, m),
         \A q \in 0..(n - 1) : e.first_lba + q \in DOMAIN disk
  PROVE  TreeFilled(e, t, n)'
<1>1. ASSUME NEW q \in 0..(n - 1)
      PROVE  disk'[e.first_lba + q] = Chunk(t, q)
  <2>1. PICK f : f = e.first_lba + q
    OBVIOUS
  <2>2. disk[f] = Chunk(t, q) /\ f \in DOMAIN disk
    BY <2>1 DEF TreeFilled
  <2>3. CASE f = s
    <3>1. disk[s] = Chunk(t, m)
      BY DEF TreeFilled
    <3> QED
      BY <2>1, <2>2, <2>3, <3>1
  <2>4. CASE f # s
    BY <2>1, <2>2, <2>4 DEF Rewrites
  <2> QED
    BY <2>3, <2>4
<1> QED
  BY <1>1, Zenon DEF TreeFilled, Chunk

\* A sector of the tree is written into its partition.
LEMMA ChunkWritten ==
  ASSUME UtilInv, Saving, NEW n, n = StreamLength(tree), NEW q \in 0..(n - 1), WriteChunk(q)
  PROVE  /\ ImageInv' /\ Holds(1, "header")' /\ (IsWhole' <=> IsWhole)
         /\ IsWhole => OnImage' = OnImage
         /\ ImportedPrimary' = ImportedPrimary /\ ImportedBackup' = ImportedBackup
         /\ ImportedPrimaryEntries' = ImportedPrimaryEntries
         /\ DOMAIN disk' = DOMAIN disk
         /\ disk'[primary_entries[FsEntry].first_lba + q] = Chunk(tree, q)
         /\ SectorsKept(primary_entries[FsEntry], q) /\ disk'[0] = disk[0]
         /\ \A j \in Indices : \A o \in Nat :
              j # FsEntry /\ HasRoom(primary_entries[j], o) => SectorsKept(primary_entries[j], o)
         /\ n \in Nat
         /\ TreeFilled(primary_entries[FsEntry], tree, n) =>
              \A t, e : t = tree /\ e = primary_entries[FsEntry] => TreeFilled(e, t, n)'
<1>1. /\ SectorsTyped /\ WholeImage /\ PrimarySound /\ ImageInv /\ tree \in SUBSET Nodes
      /\ Holds(1, "header")
  BY SavingTable
<1>2. PICK l, x, s : /\ l = ImportedPrimary.backup_lba /\ x = Chunk(tree, q)
                     /\ s = primary_entries[FsEntry].first_lba + q
  OBVIOUS
<1>3. x.kind = "fs" /\ x.tree \subseteq Nodes
  BY <1>1, <1>2 DEF Chunk
<1>4. Write(s, x)
  BY <1>2, Zenon DEF WriteChunk
<1>5. Rewrites(s) /\ disk'[s] = x /\ SectorsTyped'
  BY <1>1, <1>3, <1>4, OneWrite
<1>6. PICK t : /\ TableSound(t) /\ t.primary_entries = primary_entries /\ EndOf(t) = l
  BY <1>2, SavingRoom
<1>7. /\ n \in Nat /\ HasRoom(primary_entries[FsEntry], n) /\ FsEntry \in Indices
      /\ \A y \in 0..l : y \in DOMAIN disk
  BY <1>2, SavingRoom
<1>8. /\ s # 0 /\ s \in DOMAIN disk /\ DOMAIN disk' = DOMAIN disk /\ disk'[0] = disk[0]
      /\ s \notin TablePlaces(l) /\ s \in (2 + ArraySectors)..(l - ArraySectors - 1)
      /\ \A y \in TablePlaces(l) : disk'[y] = disk[y]
      /\ \A j \in Indices : \A o \in Nat :
           j # FsEntry /\ HasRoom(primary_entries[j], o) => SectorsKept(primary_entries[j], o)
      /\ SectorsKept(primary_entries[FsEntry], q)
  BY <1>2, <1>5, <1>6, <1>7, WriteInside
<1>9. /\ ImageInv' /\ Holds(1, "header")' /\ (IsWhole' <=> IsWhole)
      /\ IsWhole => OnImage' = OnImage
      /\ ImportedPrimary' = ImportedPrimary /\ ImportedBackup' = ImportedBackup
      /\ ImportedPrimaryEntries' = ImportedPrimaryEntries
  <2>1. CASE IsWhole
    <3>1. /\ TableSound(OnImage) /\ l = EndOf(OnImage) /\ Holds(0, "boot")
          /\ \A lba \in Headers : NoStaleSum(disk[lba])
      BY <1>2, <2>1, SavingWhole
    <3>2. /\ IsWhole' /\ OnImage' = OnImage /\ Headers' = Headers
          /\ \A lba \in Headers : NoStaleSum(disk[lba])'
      BY <1>5, <1>8, <2>1, <3>1, TableLeft
    <3>3. /\ ImportedPrimary' = ImportedPrimary /\ ImportedBackup' = ImportedBackup
          /\ ImportedPrimaryEntries' = ImportedPrimaryEntries /\ Holds(1, "header")'
      BY <3>2 DEF OnImage, IsWhole
    <3>4. WholeImage' /\ PrimarySound'
      BY <1>1, <1>8, <3>3 DEF WholeImage, PrimarySound
    <3>5. Holds(0, "boot")' /\ ~Holds(0, "fs")' /\ ~Holds(0, "header")'
      BY <1>8, <3>1 DEF Holds
    <3>6. TableSound(OnImage)' /\ \A lba \in Headers' : NoStaleSum(disk[lba])'
      BY <3>1, <3>2
    <3>7. ImageInv'
      BY <1>5, <3>2, <3>3, <3>4, <3>5, <3>6 DEF ImageInv
    <3> QED
      BY <2>1, <3>2, <3>3, <3>7
  <2>2. CASE ~IsWhole
    <3>1. HalfMade(l)
      BY <1>2, <2>2, SavingHalf
    <3>2. s \notin {0, 1, l} \cup 2..(1 + ArraySectors)
      <4>1. l \in Nat /\ ArraySectors \in Nat \ {0}
        BY <3>1, HalfMadeParts
      <4> QED
        BY <1>8, <4>1
    <3>3. HalfKept(l)
      BY <1>5, <1>8, <3>1, <3>2, HalfMadeElsewhere
    <3>4. /\ ImageInv' /\ HalfMade(l)'
          /\ ImportedPrimary' = ImportedPrimary /\ ImportedBackup' = ImportedBackup
          /\ ImportedPrimaryEntries' = ImportedPrimaryEntries
      BY <3>1, <3>3, HalfMadeStays
    <3>5. Holds(1, "header")' /\ ~IsWhole'
      BY <3>4 DEF HalfMade
    <3> QED
      BY <2>2, <3>4, <3>5
  <2> QED
    BY <2>1, <2>2
<1>10. ASSUME TreeFilled(primary_entries[FsEntry], tree, n),
              NEW tr, NEW e, tr = tree, e = primary_entries[FsEntry]
       PROVE  TreeFilled(e, tr, n)'
  <2>1. TreeFilled(e, tr, n) /\ s = e.first_lba + q /\ disk'[s] = Chunk(tr, q)
    BY <1>2, <1>5, <1>10
  <2>2. \A m \in 0..(n - 1) : e.first_lba + m \in DOMAIN disk
    <3>1. PICK es : es = primary_entries
      OBVIOUS
    <3> QED
      BY <1>6, <1>7, <1>10, <3>1, PartitionOnImage
  <2> QED
    BY <1>5, <1>7, <2>1, <2>2, SameChunk
<1> QED
  BY <1>2, <1>5, <1>7, <1>8, <1>9, <1>10

\* What init has promised outlives a write that leaves the table and the
\* stages, as long as the saved tree is there or given up.
LEMMA LayoutKept ==
  ASSUME LayoutInv, layout # {} => IsWhole' /\ OnImage' = OnImage /\ made.fs_loader,
         disk'[0] = disk[0], layout' = layout, made' = made,
         NEW es, es = ImportedPrimaryEntries,
         \A i \in {0, 1} : \A n \in Nat : HasRoom(es[i], n) => SectorsKept(es[i], n),
         layout # {} /\ (~unsaved)' =>
           \A t, e : t = saved' /\ e = es[FsEntry] => TreeFilled(e, t, StreamLength(t))'
  PROVE  LayoutInv'
<1> SUFFICES ASSUME layout # {}
             PROVE  LayoutInv'
  BY DEF LayoutInv
<1>1. ImportedPrimaryEntries' = es
  BY DEF OnImage
<1>2. PICK c, t, e : c = made /\ t = saved' /\ e = es[FsEntry]
  OBVIOUS
<1>3. layout = {OnImage} /\ BootSound(es, c) /\ c.fs_loader /\ IsUsed(e)
  BY <1>2 DEF LayoutInv
<1>4. BootSound(es, c)'
  BY <1>3, BootKept
<1>5. BootSound(ImportedPrimaryEntries, made)'
  <2>1. BootSound(ImportedPrimaryEntries, made)' <=> BootSound(es, c)'
    BY <1>1, <1>2 DEF BootSound, Filled, HasRoom
  <2> QED
    BY <1>4, <2>1
<1>6. (~unsaved)' => TreeFilled(ImportedPrimaryEntries[FsEntry], saved, StreamLength(saved))'
  <2>1. (~unsaved)' => TreeFilled(e, t, StreamLength(t))'
    BY <1>2
  <2>2. TreeFilled(ImportedPrimaryEntries[FsEntry], saved, StreamLength(saved))'
        <=> TreeFilled(e, t, StreamLength(t))'
    BY <1>1, <1>2 DEF TreeFilled, StreamLength
  <2> QED
    BY <2>1, <2>2
<1> QED
  BY <1>1, <1>2, <1>3, <1>5, <1>6 DEF LayoutInv

\* A command saves the tree, a sector at a time.
LEMMA ExportFsUsing ==
  ASSUME UtilInv, ExportFs, Using
  PROVE  UtilInv'
<1>1. /\ Calls("fs") /\ WriteChunk(k) /\ unsaved' = (unsaved \/ tree # saved)
      /\ IF k + 1 < StreamLength(tree) THEN k' = k + 1 /\ UNCHANGED place ELSE NextCall
      /\ UNCHANGED <<vars, io, tree, layout, made, saved>> /\ SameCommand
      /\ ControlInv /\ LayoutInv /\ UsingInv /\ ExportInv
  BY DEF ExportFs, UtilInv
<1>2. /\ place = WorkLength + 4 /\ config.fs_loader /\ Len(Script) = WorkLength + 5
      /\ WorkLength \in Nat /\ ~Calls("export") /\ Running
  <2>1. place = WorkLength + 4 /\ config.fs_loader
    BY <1>1, FsPlace DEF Using
  <2> QED
    BY <1>1, <2>1, OtherLength, OneCall DEF Using
<1>3. Saving
  BY <1>2 DEF Saving
<1>4. /\ primary_header = ImportedPrimary /\ primary_entries = ImportedPrimaryEntries
      /\ backup_header = ImportedBackup
      /\ backup_header \in Header /\ backup_entries \in Table
      /\ IsUsed(primary_entries[FsEntry])
      /\ layout # {} => IsWhole /\ made.fs_loader
      /\ disk_size = Cardinality(DOMAIN disk) * SectorSize
      /\ pc = "idle" /\ scan = NoScan /\ ret = "ok"
      /\ tree \in SUBSET Nodes /\ saved \in SUBSET Nodes /\ unsaved \in BOOLEAN
  BY <1>3, SavingTable
<1>5. PICK n, q, e, t : /\ n = StreamLength(tree) /\ q = k
                        /\ e = primary_entries[FsEntry] /\ t = tree
  OBVIOUS
<1>6. /\ k \in Nat /\ k < n /\ TreeFilled(e, t, q) /\ n \in Nat
  <2>1. TreeFilled(primary_entries[FsEntry], tree, k) /\ k < StreamLength(tree)
    <3>1. place = Len(Script) - 1
      BY <1>2
    <3> QED
      BY <1>1, <1>2, <1>4, <3>1 DEF UsingInv
  <2>2. StreamLength(tree) \in Nat
    BY <1>3, SavingRoom
  <2> QED
    BY <1>1, <1>5, <2>1, <2>2 DEF ControlInv
<1>7. q \in 0..(n - 1) /\ q \in Nat
  BY <1>5, <1>6
<1>8. WriteChunk(q)
  BY <1>1, <1>5
<1>9. /\ ImageInv' /\ Holds(1, "header")' /\ (IsWhole' <=> IsWhole)
      /\ IsWhole => OnImage' = OnImage
      /\ ImportedPrimary' = ImportedPrimary /\ ImportedBackup' = ImportedBackup
      /\ ImportedPrimaryEntries' = ImportedPrimaryEntries /\ DOMAIN disk' = DOMAIN disk
      /\ disk'[e.first_lba + q] = Chunk(t, q) /\ SectorsKept(e, q) /\ disk'[0] = disk[0]
      /\ \A j \in Indices : \A o \in Nat :
           j # FsEntry /\ HasRoom(primary_entries[j], o) => SectorsKept(primary_entries[j], o)
      /\ TreeFilled(e, t, n) => TreeFilled(e, t, n)'
  BY <1>3, <1>5, <1>7, <1>8, ChunkWritten
<1>10. /\ \/ place' = place /\ k' = q + 1 /\ q + 1 < n
          \/ place' = place + 1 /\ k' = 0 /\ q + 1 = n
  BY <1>1, <1>5, <1>6, <1>7 DEF NextCall
<1>11. /\ Script' = Script /\ ~Making' /\ Using' /\ Running' /\ config' = config
  <2>1. UNCHANGED <<cmd, config>>
    BY <1>1 DEF SameCommand
  <2> QED
    BY <1>2, <2>1, SameScript DEF Using
<1>12. io = NoIo /\ At("none") /\ io' = NoIo
  BY <1>1, <1>2, NotExporting
<1>13. ControlInv'
  <2>1. ~(Calls("export") /\ k # 0)'
    <3>1. CASE place' = place
      <4>1. Calls("export")' <=> Calls("export")
        BY <1>2, <1>11, <3>1 DEF Calls, Call
      <4> QED
        BY <1>2, <4>1
    <3> QED
      BY <1>10, <3>1
  <2>2. place' \in {place, place + 1} /\ k' \in Nat /\ place <= Len(Script)
    BY <1>2, <1>7, <1>10
  <2>3. pc' # "scan"
    BY <1>1, <1>4 DEF vars
  <2>4. tree' \in SUBSET Nodes /\ saved' \in SUBSET Nodes /\ unsaved' \in BOOLEAN /\ made' = made
    BY <1>1, <1>4
  <2> QED
    BY <1>1, <1>2, <1>12, <2>1, <2>2, <2>3, <2>4, StepControl
<1>14. LayoutInv'
  <2>1. \A i \in {0, 1} : \A o \in Nat :
          HasRoom(primary_entries[i], o) => SectorsKept(primary_entries[i], o)
    BY <1>9, ThreeEntries
  <2>2. ASSUME layout # {}, (~unsaved)'
        PROVE  TreeFilled(e, t, n)'
    <3>1. ~unsaved /\ tree = saved
      BY <1>1, <1>4, <2>2
    <3>2. TreeFilled(e, t, n)
      BY <1>1, <1>4, <1>5, <2>2, <3>1 DEF LayoutInv
    <3> QED
      BY <1>9, <3>2
  <2>3. ASSUME layout # {}, (~unsaved)', NEW u, NEW f, u = saved', f = primary_entries[FsEntry]
        PROVE  TreeFilled(f, u, StreamLength(u))'
    <3>1. u = t /\ f = e /\ StreamLength(u)' = n
      <4>1. tree = saved
        BY <1>1, <1>4, <2>3
      <4>2. u = t /\ f = e
        BY <1>1, <1>5, <2>3, <4>1
      <4> QED
        BY <1>5, <4>2 DEF StreamLength
    <3> QED
      BY <2>2, <2>3, <3>1
  <2> QED
    BY <1>1, <1>4, <1>9, <2>1, <2>3, LayoutKept
<1>15. /\ UNCHANGED <<primary_header, primary_entries, backup_header, backup_entries>>
       /\ UNCHANGED <<disk_size, pc, scan, ret>> /\ InMemory' = InMemory
  BY <1>1 DEF InMemory, vars, headers, entries
<1>16. MemoryInv'
  <2>1. Saving'
    BY <1>2, <1>10, <1>11 DEF Saving
  <2>2. ~NothingInMemory'
    BY <1>11, <2>1 DEF NothingInMemory, Using, Saving
  <2>3. disk_size' = Cardinality(DOMAIN disk') * SectorSize /\ Idle'
    BY <1>4, <1>9, <1>15 DEF Idle
  <2>4. IsWhole' => InMemory' = OnImage'
    BY <1>3, <1>9, <1>15, SavingWhole
  <2> QED
    BY <1>4, <1>9, <1>11, <1>15, <2>2, <2>3, <2>4 DEF MemoryInv, Holds
<1>17. UsingInv'
  <2>1. ImportedPrimaryEntries' = primary_entries /\ StreamLength(tree)' = n
    BY <1>1, <1>4, <1>5, <1>9 DEF StreamLength
  <2>2. TreeFilled(e, t, q + 1)'
    BY <1>6, <1>7, <1>9, FilledMore
  <2>3. Saving'
    BY <1>2, <1>10, <1>11 DEF Saving
  <2>4. place' = Len(Script)' - 1 =>
          k' < StreamLength(tree)' /\ TreeFilled(ImportedPrimaryEntries[FsEntry], tree, k)'
    <3>1. place' = Len(Script)' - 1 => k' < n /\ k' = q + 1
      BY <1>2, <1>10, <1>11
    <3>2. ImportedPrimaryEntries'[FsEntry] = e /\ tree' = t
      BY <1>1, <1>5, <2>1
    <3> QED
      BY <2>1, <2>2, <3>1, <3>2
  <2>5. place' > Len(Script)' - 1 =>
          TreeFilled(ImportedPrimaryEntries[FsEntry], tree, StreamLength(tree))'
    <3>1. place' > Len(Script)' - 1 => q + 1 = n
      BY <1>2, <1>10, <1>11
    <3>2. ImportedPrimaryEntries'[FsEntry] = e /\ tree' = t
      BY <1>1, <1>5, <2>1
    <3> QED
      BY <2>1, <2>2, <3>1, <3>2
  <2>6. IsUsed(ImportedPrimaryEntries[FsEntry])'
    BY <1>4, <2>1 DEF IsUsed
  <2> QED
    BY <1>9, <2>3, <2>4, <2>5, <2>6 DEF UsingInv
<1>18. ExportInv'
  <2>1. At("none")' /\ io' \in [step : {"none"} \cup ExportSteps, i : Indices]
    BY <1>1, <1>12 DEF At, ExportInv, NoIo
  <2>2. ~(place' > Len(Script'))
    BY <1>2, <1>10, <1>11
  <2> QED
    BY <2>1, <2>2 DEF ExportInv, At
<1>19. MakingInv' /\ ChecksumsComplete'
  BY <1>1, <1>2, <1>11, StillRunning DEF MakingInv
<1> QED
  BY <1>9, <1>13, <1>14, <1>16, <1>17, <1>18, <1>19 DEF UtilInv

\* Both write the file system.
LEMMA ExportFsInv ==
  ASSUME UtilInv, ExportFs
  PROVE  UtilInv'
<1>1. Making \/ Using
  BY WhichCommand DEF UtilInv, ExportFs, Calls
<1> QED
  BY <1>1, ExportFsMaking, ExportFsUsing

(* -- The table is exported -------------------------------------------------------------- *)

\* Where an export stands in its command.
LEMMA ExportControl ==
  ASSUME UtilInv, Calls("export"), SameCommand, UNCHANGED <<vars, tree, promises>>,
         \/ place' = place /\ k' \in Nat \ {0} /\ io'.step # "none"
         \/ NextCall /\ io' = NoIo
  PROVE  /\ ControlInv' /\ ChecksumsComplete'
         /\ Script' = Script /\ (Making' <=> Making) /\ (Using' <=> Using) /\ config' = config
         /\ place' \in {place, place + 1} /\ (place' = place => k' # 0)
         /\ ~Calls("size")' /\ ~Calls("size") /\ pc # "scan"
<1>1. ControlInv /\ Running /\ place <= Len(Script)
  BY DEF UtilInv, Calls
<1>2. /\ Script' = Script /\ (Making' <=> Making) /\ (Using' <=> Using) /\ config' = config
      /\ cmd' = cmd
  BY SameScript DEF SameCommand
<1>3. Len(Script) \in Nat \ {0} /\ place \in Nat \ {0}
  BY <1>1, WhichCommand
<1>4. place' \in {place, place + 1} /\ k' \in Nat /\ (place' = place => k' # 0)
  BY <1>3 DEF NextCall
<1>5. ~Calls("size") /\ pc # "scan"
  BY <1>1, OneCall DEF ControlInv
<1>6. CASE place' = place
  <2>1. Calls("export")' /\ ~Calls("size")'
    BY <1>2, <1>5, <1>6 DEF Calls, Call, Running
  <2>2. k' # 0 /\ io'.step # "none"
    BY <1>3, <1>6 DEF NextCall
  <2>3. ControlInv'
    <3>1. made' = made /\ saved' \in SUBSET Nodes /\ unsaved' \in BOOLEAN /\ tree' \in SUBSET Nodes
      BY <1>1 DEF ControlInv, promises
    <3>2. pc' # "scan"
      BY <1>5 DEF vars
    <3> QED
      BY <1>1, <1>4, <2>1, <2>2, <3>1, <3>2, StepControl
  <2> QED
    BY <1>1, <1>2, <1>4, <1>5, <2>1, <2>3, StillRunning
<1>7. CASE place' # place
  <2>1. NextCall /\ io' = NoIo
    BY <1>7
  <2>2. k' = 0 /\ place' = place + 1
    BY <2>1 DEF NextCall
  <2>3. ~Calls("size")'
    <3>1. ~(place' <= Len(Script))
      <4>1. Making \/ Using
        BY <1>1, WhichCommand
      <4>2. CASE Making
        <5>1. place = WithPartitions(config) + 2
          BY <1>1, <4>2, ExportPlace DEF Using
        <5> QED
          BY <1>1, <1>3, <2>2, <4>2, <5>1, InitLength
      <4>3. CASE Using
        <5>1. place = WorkLength + 5 /\ config.fs_loader
          BY <1>1, <4>3, ExportPlace DEF Using
        <5> QED
          BY <1>1, <1>3, <2>2, <4>3, <5>1, OtherLength
      <4> QED
        BY <4>1, <4>2, <4>3
    <3> QED
      BY <1>2, <3>1 DEF Calls
  <2>4. ControlInv'
    <3>1. made' = made /\ saved' \in SUBSET Nodes /\ unsaved' \in BOOLEAN /\ tree' \in SUBSET Nodes
      BY <1>1 DEF ControlInv, promises
    <3>2. pc' # "scan" /\ ~(Calls("export") /\ k # 0)'
      BY <1>5, <2>2 DEF vars
    <3> QED
      BY <1>1, <1>4, <2>1, <3>1, <3>2, StepControl
  <2> QED
    BY <1>1, <1>2, <1>4, <1>5, <2>2, <2>3, <2>4, StillRunning
<1> QED
  BY <1>6, <1>7

\* init exports the table it has made.
LEMMA MakingExport ==
  ASSUME UtilInv, Calls("export"), Making, SameCommand, UNCHANGED <<vars, tree, promises>>,
         \/ place' = place /\ k' \in Nat \ {0} /\ io'.step # "none"
         \/ NextCall /\ io' = NoIo,
         DOMAIN disk' = DOMAIN disk, disk'[0] = disk[0],
         \A i \in Indices : \A n \in Nat :
           HasRoom(primary_entries[i], n) => SectorsKept(primary_entries[i], n),
         ImageInv', ExportInv', place' # place => IsWhole' /\ OnImage' = InMemory
  PROVE  UtilInv'
<1>1. /\ ControlInv' /\ ChecksumsComplete'
      /\ Script' = Script /\ Making' /\ ~Using' /\ config' = config
      /\ place' \in {place, place + 1} /\ (place' = place => k' # 0)
      /\ ~Calls("size")' /\ ~Calls("size") /\ pc # "scan"
  BY ExportControl DEF Using
<1>2. ControlInv /\ MakingInv /\ place = WithPartitions(config) + 2
  BY ExportPlace DEF UtilInv, Using
<1>3. /\ WithPartitions(config) \in Nat /\ Fixed(config) <= WithPartitions(config)
      /\ Fixed(config) \in {12, 17} /\ (config.fs_loader <=> Fixed(config) = 17)
      /\ Len(Script) = WithPartitions(config) + 2
  BY <1>2, InitLength
<1>4. /\ place \in Nat /\ place = Len(Script) /\ place > 13 /\ (config.fs_loader => place > 18)
      /\ place' \in Nat /\ place' > 13 /\ (config.fs_loader => place' > 18)
      /\ place' >= Len(Script) /\ (place' = Len(Script) => place' = place)
      /\ place > 1 /\ place > 2 /\ place > 3 /\ place > 4 /\ place > 12
      /\ (config.fs_loader => place > 17)
  BY <1>1, <1>2, <1>3
<1>5. IInv /\ backup_entries # NoEntries /\ disk_size = config.disk_size /\ Granted
  BY <1>4, MakingMemory
<1>6. /\ UNCHANGED <<primary_entries, backup_entries, disk_size, pc, scan, tree>>
      /\ InMemory' = InMemory
  BY DEF vars, headers, entries, InMemory
<1>7. LayoutInv'
  BY <1>2, <1>4 DEF MakingInv, promises, LayoutInv
<1>8. MemoryInv'
  <2>1. IInv'
    <3>1. [Next]_vars
      OBVIOUS
    <3> QED
      BY <1>5, <3>1, NextIInv
  <2>2. Granted'
    <3>1. /\ \A n \in {SizeStageTwo, SizeStageThree} : place' > n <=> place > n
          /\ config.fs_loader => (place' > SizeFs <=> place > SizeFs)
      BY <1>4 DEF SizeStageTwo, SizeStageThree, SizeFs
    <3>2. pc' # "scan"
      BY <1>1, <1>6
    <3> QED
      BY <1>1, <1>4, <1>5, <1>6, <3>1, <3>2, GrantedStays
  <2>3. ~NothingInMemory' /\ ~ImportedInMemory'
    <3>1. Running' /\ ~(place' <= 4)
      BY <1>1, <1>4 DEF Making, Running, NoCommand
    <3> QED
      BY <1>1, <3>1 DEF NothingInMemory, ImportedInMemory, Saving
  <2> QED
    BY <1>1, <1>5, <1>6, <2>1, <2>2, <2>3 DEF MemoryInv
<1>9. /\ Filled(primary_entries[0], "stage two", SectorsOf(StageTwoSize))'
      /\ Filled(primary_entries[1], "stage three", SectorsOf(StageThreeSize(config)))'
      /\ config.fs_loader => TreeFilled(primary_entries[FsEntry], tree, StreamLength(tree))'
  BY <1>1, <1>4, <1>6, PartitionsStay
<1>10. /\ DOMAIN disk' = ImageSectors(config) /\ layout' = {} /\ Holds(0, "boot")'
       /\ disk'[0] = UpdatedBootsector'
  <2>1. DOMAIN disk = ImageSectors(config) /\ layout = {} /\ Holds(0, "boot")
    <3>1. place > 1 /\ place > 2 /\ place > 3
      BY <1>4
    <3> QED
      BY <1>2, <3>1, Zenon DEF MakingInv
  <2>2. disk[0] = UpdatedBootsector
    <3>1. place >= Len(Script)
      BY <1>4
    <3> QED
      BY <1>2, <3>1, Zenon DEF MakingInv
  <2>3. UpdatedBootsector' = UpdatedBootsector
    BY <1>6 DEF UpdatedBootsector, Bootsector, Dap
  <2> QED
    BY <2>1, <2>2, <2>3 DEF promises, Holds
<1>11. place' > Len(Script') => IsWhole' /\ OnImage' = InMemory'
  BY <1>1, <1>4, <1>6
<1>12. MakingInv'
  <2>1. /\ place' # 2 /\ place' # 8 /\ place' # 12 /\ (config.fs_loader => place' # 17)
        /\ ~(place' < Len(Script')) /\ ~(place' = Len(Script') /\ k' = 0)
    BY <1>1, <1>4
  <2> QED
    BY <1>1, <1>9, <1>10, <1>11, <2>1 DEF MakingInv, FillStageTwo, FillStageThree, FillFs
<1>13. UsingInv'
  BY <1>1 DEF UsingInv
<1> QED
  BY <1>1, <1>7, <1>8, <1>12, <1>13 DEF UtilInv

\* Another command exports the table that it has imported.
LEMMA SavingExport ==
  ASSUME UtilInv, Calls("export"), Using, SameCommand, UNCHANGED <<vars, tree, promises>>,
         \/ place' = place /\ k' \in Nat \ {0} /\ io'.step # "none"
         \/ NextCall /\ io' = NoIo,
         DOMAIN disk' = DOMAIN disk, Holds(1, "header")', IsWhole' <=> IsWhole,
         ImportedPrimary' = ImportedPrimary, ImportedBackup' = ImportedBackup,
         ImportedPrimaryEntries' = ImportedPrimaryEntries, IsWhole => OnImage' = OnImage,
         \A i \in Indices : \A n \in Nat :
           HasRoom(primary_entries[i], n) => SectorsKept(primary_entries[i], n),
         ImageInv', LayoutInv', ExportInv'
  PROVE  UtilInv'
<1>1. /\ ControlInv' /\ ChecksumsComplete'
      /\ Script' = Script /\ ~Making' /\ Using' /\ config' = config
      /\ place' \in {place, place + 1}
  BY ExportControl DEF Using
<1>2. ControlInv /\ UsingInv /\ place = WorkLength + 5 /\ config.fs_loader
  BY ExportPlace DEF UtilInv, Using
<1>3. WorkLength \in Nat /\ Len(Script) = WorkLength + 5 /\ place = Len(Script)
      /\ Saving
  BY <1>2, OtherLength DEF Saving
<1>4. /\ primary_header = ImportedPrimary /\ primary_entries = ImportedPrimaryEntries
      /\ backup_header = ImportedBackup
      /\ backup_header \in Header /\ backup_entries \in Table
      /\ IsUsed(primary_entries[FsEntry])
      /\ disk_size = Cardinality(DOMAIN disk) * SectorSize
      /\ pc = "idle" /\ scan = NoScan /\ ret = "ok" /\ tree \in SUBSET Nodes
  BY <1>3, SavingTable
<1>5. /\ InMemory' = InMemory /\ UNCHANGED <<disk_size, pc, scan, ret, tree>>
      /\ UNCHANGED <<primary_header, primary_entries, backup_header, backup_entries>>
  BY DEF vars, headers, entries, InMemory
<1>6. Saving' /\ place' > Len(Script') - 1 /\ place' # Len(Script') - 1 /\ place' > 2
  BY <1>1, <1>2, <1>3 DEF Saving
<1>7. MemoryInv'
  <2>1. ~NothingInMemory'
    BY <1>1, <1>6 DEF NothingInMemory, Using, Saving
  <2>2. disk_size' = Cardinality(DOMAIN disk') * SectorSize /\ Idle'
    BY <1>4, <1>5 DEF Idle
  <2>3. IsWhole' => InMemory' = OnImage'
    BY <1>3, <1>5, SavingWhole
  <2> QED
    BY <1>1, <1>4, <1>5, <2>1, <2>2, <2>3 DEF MemoryInv, Holds
<1>8. UsingInv'
  <2>1. ImportedPrimaryEntries' = primary_entries
    BY <1>4
  <2>2. PICK n, e, t : n = StreamLength(tree) /\ e = primary_entries[FsEntry] /\ t = tree
    OBVIOUS
  <2>3. n \in Nat /\ HasRoom(e, n) /\ FsEntry \in Indices
    BY <1>3, <2>2, SavingRoom
  <2>4. TreeFilled(e, t, n)
    <3>1. place > Len(Script) - 1
      BY <1>2, <1>3
    <3> QED
      BY <1>2, <1>4, <2>2, <3>1 DEF UsingInv
  <2>5. TreeFilled(e, t, n)'
    BY <2>2, <2>3, <2>4, FilledKept
  <2>6. TreeFilled(ImportedPrimaryEntries[FsEntry], tree, StreamLength(tree))'
    BY <1>5, <2>1, <2>2, <2>5 DEF StreamLength
  <2>7. IsUsed(ImportedPrimaryEntries[FsEntry])'
    BY <1>4, <2>1 DEF IsUsed
  <2> QED
    BY <1>6, <2>6, <2>7 DEF UsingInv
<1>9. MakingInv'
  BY <1>1 DEF MakingInv
<1> QED
  BY <1>1, <1>7, <1>8, <1>9 DEF UtilInv

\* An export begins.
LEMMA CallExportInv ==
  ASSUME UtilInv, CallExport
  PROVE  UtilInv'
<1>1. /\ Calls("export") /\ k = 0 /\ k' = 1 /\ UNCHANGED <<place, tree, promises>> /\ SameCommand
      /\ UNCHANGED <<vars, disk>>
      /\ ControlInv /\ ImageInv /\ LayoutInv /\ MakingInv
  BY DEF CallExport, BeginExport, UtilInv
<1>2. io' = [step |-> "primary header", i |-> 0]
  BY DEF CallExport, BeginExport, GoTo
<1>3. Making \/ Using
  BY <1>1, WhichCommand DEF Calls
<1>4. /\ ImageInv' /\ LayoutInv' /\ OnImage' = OnImage
      /\ IsWhole' <=> IsWhole
      /\ Holds(1, "header")' <=> Holds(1, "header")
      /\ ImportedPrimary' = ImportedPrimary /\ ImportedBackup' = ImportedBackup
      /\ ImportedPrimaryEntries' = ImportedPrimaryEntries
      /\ NoTable' <=> NoTable
  <2>1. UNCHANGED disk /\ UNCHANGED <<disk, config>>
    BY <1>1 DEF SameCommand
  <2> QED
    BY <1>1, <2>1, ImageSame, NoTableSame, LayoutSame
<1>5. Script' = Script /\ (Making' <=> Making) /\ config' = config
  BY <1>1, SameScript DEF SameCommand
<1>6. \A i \in Indices : \A n \in Nat :
        HasRoom(primary_entries[i], n) => SectorsKept(primary_entries[i], n)
  BY <1>1 DEF SectorsKept
<1>7. place' = place /\ k' \in Nat \ {0} /\ io'.step = "primary header"
  <2>1. place' = place /\ k' \in Nat \ {0}
    BY <1>1
  <2>2. io'.step = "primary header"
    BY <1>2
  <2> QED
    BY <2>1, <2>2
<1>8. ExportInv'
  <2>1. /\ io' \in [step : {"none"} \cup ExportSteps, i : Indices]
    BY <1>2, InitTypes DEF ExportSteps
  <2>2. SumsSoFar'
    BY <1>7 DEF SumsSoFar, At
  <2>3. Making => FreshExport'
    <3>1. Making => NoTable
      <4>1. ASSUME Making
            PROVE  place = Len(Script) /\ place > 1
        <5>1. place = WithPartitions(config) + 2
          BY <1>1, <4>1, ExportPlace DEF Using
        <5> QED
          BY <1>1, <4>1, <5>1, InitLength
      <4> QED
        BY <1>1, <4>1 DEF MakingInv
    <3> QED
      BY <1>4, <1>7, <3>1 DEF FreshExport, At
  <2>4. ~(place' > Len(Script'))
    <3>1. place <= Len(Script) /\ place \in Nat /\ Len(Script) \in Nat
      BY <1>1, WhichCommand DEF Calls
    <3>2. place' = place
      BY <1>1
    <3> QED
      BY <1>5, <3>1, <3>2
  <2>5. ~At("backup entries")'
    BY <1>7 DEF At
  <2> QED
    BY <1>5, <2>1, <2>2, <2>3, <2>4, <2>5 DEF ExportInv
<1>9. CASE Making
  BY <1>1, <1>4, <1>6, <1>7, <1>8, <1>9, MakingExport
<1>10. CASE Using
  <2>1. Holds(1, "header")
    <3>1. place = WorkLength + 5 /\ config.fs_loader
      BY <1>1, <1>10, ExportPlace DEF Using
    <3>2. Saving
      BY <1>1, <1>10, <3>1, OtherLength DEF Saving
    <3> QED
      BY <3>2, SavingTable
  <2> QED
    BY <1>1, <1>4, <1>6, <1>7, <1>8, <1>10, <2>1, SavingExport
<1> QED
  BY <1>3, <1>9, <1>10

\* A step of an export is a step of one of its parts, and the sums come last.
LEMMA ExportOrder ==
  ASSUME ExportStep
  PROVE  /\ io.step \in ExportSteps /\ io # NoIo /\ io.step # "none"
         /\ io.step \in {"primary entries sum", "backup entries sum",
                        "primary sum", "backup sum"} =>
              io'.step \in {"none", "backup entries sum", "primary sum", "backup sum"}
<1>1. \/ io.step \in {"primary header", "primary entries", "backup entries", "backup header"}
      \/ At("primary entries sum") /\ GoTo("backup entries sum")
      \/ At("backup entries sum") /\ GoTo("primary sum")
      \/ At("primary sum") /\ GoTo("backup sum")
      \/ At("backup sum") /\ io' = NoIo
  <2>1. \/ At("primary header") \/ At("primary entries") \/ At("backup entries")
        \/ At("backup header")
        \/ At("primary entries sum") /\ GoTo("backup entries sum")
        \/ At("backup entries sum") /\ GoTo("primary sum")
        \/ At("primary sum") /\ GoTo("backup sum")
        \/ At("backup sum") /\ io' = NoIo
    BY Zenon DEF ExportStep, WritePrimaryHeader, WritePrimaryEntry, WriteBackupEntry,
                 WriteBackupHeader, WritePrimaryEntriesSum, WriteBackupEntriesSum,
                 WritePrimarySum, WriteBackupSum
  <2> QED
    BY <2>1 DEF At
<1>2. io.step \in ExportSteps
  BY <1>1 DEF At, ExportSteps
<1>3. NoIo.step = "none" /\ \A step : GoTo(step) => io'.step = step
  BY DEF NoIo, GoTo
<1>4. io.step # "none"
  BY <1>2 DEF ExportSteps
<1>5. io # NoIo
  BY <1>3, <1>4
<1>6. io.step \in {"primary entries sum", "backup entries sum", "primary sum", "backup sum"} =>
        io'.step \in {"none", "backup entries sum", "primary sum", "backup sum"}
  BY <1>1, <1>3 DEF At
<1> QED
  BY <1>2, <1>4, <1>5, <1>6

\* init exports the table: first its parts, then their sums.
LEMMA ExportMaking ==
  ASSUME UtilInv, ExportWrites, Making
  PROVE  UtilInv'
<1>1. /\ Calls("export") /\ ExportStep /\ UNCHANGED <<tree, promises>> /\ SameCommand
      /\ IF io' = NoIo THEN NextCall ELSE UNCHANGED <<place, k>>
      /\ ControlInv /\ ImageInv /\ MakingInv /\ ExportInv
  BY DEF ExportWrites, UtilInv
<1>2. io.step \in ExportSteps /\ io # NoIo /\ ~At("none")
  BY <1>1, ExportOrder DEF At
<1>3. k \in Nat \ {0}
  BY <1>1, <1>2 DEF ControlInv
<1>4. /\ place = WithPartitions(config) + 2 /\ place = Len(Script) /\ place \in Nat
      /\ place > 4 /\ place > 3
  <2>1. place = WithPartitions(config) + 2
    BY <1>1, ExportPlace DEF Using
  <2> QED
    BY <1>1, <2>1, InitLength
<1>5. Holds(0, "boot")
  BY <1>1, <1>4 DEF MakingInv
<1>6. PICK l : l = EndOf(InMemory)
  OBVIOUS
<1>7. Exporting(l) /\ SumsSoFar /\ FreshExport /\ WholeImage
  <2>1. TableSound(InMemory) /\ \A x \in 0..l : x \in DOMAIN disk
    BY <1>4, <1>6, MakingTable
  <2>2. SectorsTyped /\ WholeImage
    BY <1>1 DEF ImageInv
  <2>3. SumsSoFar /\ FreshExport /\ io \in [step : {"none"} \cup ExportSteps, i : Indices]
    BY <1>1, <1>2 DEF ExportInv
  <2> QED
    BY <1>6, <2>1, <2>2, <2>3 DEF Exporting
<1>8. Script' = Script /\ (Making' <=> Making)
  BY <1>1, SameScript DEF SameCommand
<1>9. CASE io.step \in {"primary header", "primary entries", "backup entries", "backup header"}
  <2>1. Beginning(l)
    <3>1. At("primary header") => \A s \in TablePlaces(l) : disk[s] = Blank
      <4>1. /\ TablePlaces(l) \subseteq TableSectorsOf(config)
            /\ \A x \in 0..l : x \in DOMAIN disk
        BY <1>4, <1>6, MakingTable
      <4>2. TablePlaces(l) \subseteq 0..l
        <5>1. l \in Nat /\ 2 * ArraySectors + 2 <= l /\ ArraySectors \in Nat \ {0}
          BY <1>7, ExportPlaces
        <5> QED
          BY <5>1 DEF TablePlaces
      <4>3. At("primary header") => NoTable
        BY <1>7 DEF FreshExport
      <4> QED
        BY <4>1, <4>2, <4>3 DEF NoTable
    <3> QED
      BY <1>7, <1>9, <3>1 DEF Beginning
  <2>2. Begun(l) /\ ImageInv'
    <3>1. Begun(l)
      BY <1>1, <2>1, Begin
    <3> QED
      BY <1>5, <2>1, <3>1, BegunImage
  <2>3. /\ UNCHANGED vars /\ DOMAIN disk' = DOMAIN disk
        /\ io' \in [step : ExportSteps, i : Indices] /\ SumsSoFar' /\ FreshExport'
    BY <2>2 DEF Begun
  <2>4. /\ disk'[0] = disk[0]
        /\ \A i \in Indices : \A n \in Nat :
             HasRoom(primary_entries[i], n) => SectorsKept(primary_entries[i], n)
    <3>1. PICK s \in TablePlaces(l) : Rewrites(s)
      BY <2>2 DEF Begun
    <3> QED
      BY <1>7, <3>1, PartitionKept DEF SectorsKept
  <2>5. io'.step # "none" /\ io'.step \in ExportSteps
    BY <2>3 DEF ExportSteps
  <2>6. place' = place /\ k' \in Nat \ {0}
    BY <1>1, <1>3, <2>5 DEF NoIo
  <2>7. ExportInv'
    <3>1. io' \in [step : {"none"} \cup ExportSteps, i : Indices]
      BY <2>3
    <3>2. ~(place' > Len(Script'))
      BY <1>4, <1>8, <2>6
    <3>3. backup_header'.partition_entry_count # 0
      BY <1>7, <2>3, ExportPlaces, EntryCountAssumption DEF vars, headers
    <3> QED
      BY <2>3, <3>1, <3>2, <3>3 DEF ExportInv
  <2> QED
    BY <1>1, <2>2, <2>3, <2>4, <2>5, <2>6, <2>7, MakingExport
<1>10. CASE io.step \in {"primary entries sum", "backup entries sum", "primary sum", "backup sum"}
  <2>1. IsWhole /\ OnImage = InMemory
    BY <1>7, <1>10 DEF FreshExport
  <2>2. Rewriting(l) /\ Resuming(l)
    <3>1. Rewriting(l)
      BY <1>7, <2>1 DEF Rewriting
    <3>2. NoStaleSum(disk[1]) /\ NoStaleSum(disk[l])
      BY <1>1, <2>1, <3>1, RewritingTable DEF ImageInv
    <3> QED
      BY <1>7, <3>1, <3>2 DEF Resuming
  <2>3. Resumed(l) /\ ImageInv'
    BY <1>1, <2>2, Resume, ResumedImage
  <2>4. /\ UNCHANGED vars /\ IsWhole' /\ OnImage' = OnImage /\ disk'[0] = disk[0]
        /\ DOMAIN disk' = DOMAIN disk
        /\ \A i \in Indices : \A n \in Nat :
             HasRoom(primary_entries[i], n) => SectorsKept(primary_entries[i], n)
    BY <2>2, <2>3, ResumedPartitions
  <2>5. InMemory' = InMemory
    BY <2>4 DEF vars, headers, entries, InMemory
  <2>6. /\ io' \in [step : {"none"} \cup ExportSteps, i : Indices]
        /\ io'.step # "none" => SumsSoFar'
        /\ io'.step = "none" => io' = NoIo /\ SumsComplete'
    BY <2>3 DEF Resumed
  <2>7. io'.step \in {"none", "backup entries sum", "primary sum", "backup sum"}
    BY <1>1, <1>10, ExportOrder
  <2>8. FreshExport'
    BY <2>1, <2>4, <2>5, <2>7 DEF FreshExport, At
  <2>9. \/ place' = place /\ k' \in Nat \ {0} /\ io'.step # "none"
        \/ NextCall /\ io' = NoIo
    BY <1>1, <1>3, <2>6
  <2>10. ExportInv'
    <3>1. place' > Len(Script') => io'.step = "none"
      BY <1>4, <1>8, <2>9 DEF NoIo
    <3>2. backup_header'.partition_entry_count # 0
      BY <1>7, <2>4, ExportPlaces, EntryCountAssumption DEF vars, headers
    <3> QED
      BY <2>6, <2>8, <3>1, <3>2 DEF ExportInv, At
  <2> QED
    BY <1>1, <2>1, <2>3, <2>4, <2>9, <2>10, MakingExport
<1> QED
  BY <1>2, <1>9, <1>10 DEF ExportSteps

\* Where another command exports, and what becomes of its call.
LEMMA ExportUsingPlace ==
  ASSUME UtilInv, ExportWrites, Using
  PROVE  /\ Calls("export") /\ ExportStep /\ UNCHANGED <<tree, promises>> /\ SameCommand
         /\ Saving /\ ~At("none") /\ io \in [step : {"none"} \cup ExportSteps, i : Indices]
         /\ (io'.step = "none" => io' = NoIo) =>
              \/ place' = place /\ k' \in Nat \ {0} /\ io'.step # "none"
              \/ NextCall /\ io' = NoIo
         /\ ~Making' /\ (place' > Len(Script') => place' # place)
<1>1. /\ Calls("export") /\ ExportStep /\ UNCHANGED <<tree, promises>> /\ SameCommand
      /\ IF io' = NoIo THEN NextCall ELSE UNCHANGED <<place, k>>
      /\ ControlInv /\ ExportInv
  BY DEF ExportWrites, UtilInv
<1>2. io.step \in ExportSteps /\ io # NoIo /\ ~At("none")
  BY <1>1, ExportOrder DEF At
<1>3. k \in Nat \ {0}
  BY <1>1, <1>2 DEF ControlInv
<1>4. place = Len(Script) /\ place \in Nat /\ Saving
  <2>1. place = WorkLength + 5 /\ config.fs_loader
    BY <1>1, ExportPlace DEF Using
  <2> QED
    BY <1>1, <2>1, OtherLength DEF Saving
<1>5. Script' = Script /\ ~Making'
  BY <1>1, SameScript DEF SameCommand, Using
<1>6. place' > Len(Script') => place' # place
  BY <1>4, <1>5
<1> QED
  BY <1>1, <1>2, <1>3, <1>4, <1>5, <1>6 DEF ExportInv

\* Another command rewrites the table with what it holds.
LEMMA ExportWhole ==
  ASSUME UtilInv, ExportWrites, Using, IsWhole
  PROVE  UtilInv'
<1>1. /\ Calls("export") /\ ExportStep /\ UNCHANGED <<tree, promises>> /\ SameCommand
      /\ Saving /\ ~At("none") /\ io \in [step : {"none"} \cup ExportSteps, i : Indices]
      /\ ~Making' /\ (place' > Len(Script') => place' # place)
      /\ ImageInv /\ LayoutInv /\ ExportInv
  BY ExportUsingPlace DEF UtilInv
<1>2. PICK l : l = EndOf(InMemory)
  OBVIOUS
<1>3. /\ InMemory = OnImage /\ TableSound(OnImage)
      /\ \A x \in 0..l : x \in DOMAIN disk
      /\ \A lba \in Headers : NoStaleSum(disk[lba])
  BY <1>1, <1>2, SavingWhole
<1>4. SectorsTyped /\ saved \in SUBSET Nodes /\ (layout # {} => made.fs_loader)
  BY <1>1, SavingTable
<1>5. SumsSoFar
  BY <1>1 DEF ExportInv
<1>6. Rewriting(l)
  BY <1>1, <1>2, <1>3, <1>4 DEF Rewriting, Exporting
<1>7. Resuming(l)
  BY <1>3, <1>5, <1>6, RewritingTable DEF Resuming
<1>8. Resumed(l) /\ ImageInv' /\ LayoutInv'
  BY <1>1, <1>4, <1>6, <1>7, Resume, ResumedImage, ResumedLayout
<1>9. /\ UNCHANGED vars /\ IsWhole' /\ OnImage' = OnImage
      /\ DOMAIN disk' = DOMAIN disk
      /\ \A i \in Indices : \A n \in Nat :
           HasRoom(primary_entries[i], n) => SectorsKept(primary_entries[i], n)
  BY <1>6, <1>8, ResumedPartitions
<1>10. /\ io' \in [step : {"none"} \cup ExportSteps, i : Indices]
       /\ io'.step # "none" => SumsSoFar'
       /\ io'.step = "none" => io' = NoIo /\ SumsComplete'
  BY <1>8 DEF Resumed
<1>11. \/ place' = place /\ k' \in Nat \ {0} /\ io'.step # "none"
       \/ NextCall /\ io' = NoIo
  BY <1>10, ExportUsingPlace
<1>12. ExportInv'
  <2>1. place' > Len(Script') => io'.step = "none"
    BY <1>1, <1>11 DEF NoIo
  <2>2. backup_header'.partition_entry_count # 0
    BY <1>6, <1>9, ExportPlaces, EntryCountAssumption DEF Rewriting, vars, headers
  <2> QED
    BY <1>1, <1>10, <2>1, <2>2 DEF ExportInv, At
<1>13. /\ ImportedPrimary' = ImportedPrimary /\ ImportedBackup' = ImportedBackup
       /\ ImportedPrimaryEntries' = ImportedPrimaryEntries /\ Holds(1, "header")'
  BY <1>9 DEF OnImage, IsWhole
<1> QED
  BY <1>1, <1>8, <1>9, <1>11, <1>12, <1>13, SavingExport

\* Of a half-made table it rewrites the half that is there; the other half
\* stays as it is.
LEMMA ExportHalf ==
  ASSUME UtilInv, ExportWrites, Using, ~IsWhole
  PROVE  UtilInv'
<1>1. /\ Calls("export") /\ ExportStep /\ UNCHANGED <<tree, promises>> /\ SameCommand
      /\ Saving /\ ~At("none") /\ io \in [step : {"none"} \cup ExportSteps, i : Indices]
      /\ ~Making' /\ ExportInv
  BY ExportUsingPlace DEF UtilInv
<1>2. PICK l : l = ImportedPrimary.backup_lba
  OBVIOUS
<1>3. HalfMade(l) /\ layout = {}
  BY <1>1, <1>2, SavingHalf
<1>4. /\ primary_header = ImportedPrimary /\ primary_entries = ImportedPrimaryEntries
      /\ backup_header = InitHeader
  BY <1>1, <1>3, SavingTable, HalfMadeParts
<1>5. ~At("backup entries")
  BY <1>1, <1>4 DEF ExportInv, InitHeader
<1>6. HalfExported(l)
  BY <1>1, <1>3, <1>4, <1>5, HalfExport DEF HalfExporting
<1>7. /\ UNCHANGED vars /\ HalfKept(l)
      /\ io' \in [step : {"none"} \cup ExportSteps, i : Indices]
      /\ io'.step # "backup entries" /\ (io'.step = "none" => io' = NoIo)
  BY <1>6 DEF HalfExported
<1>8. /\ ImageInv' /\ HalfMade(l)'
      /\ ImportedPrimary' = ImportedPrimary /\ ImportedBackup' = ImportedBackup
      /\ ImportedPrimaryEntries' = ImportedPrimaryEntries
  BY <1>3, <1>7, HalfMadeStays
<1>9. ~IsWhole' /\ Holds(1, "header")' /\ DOMAIN disk' = DOMAIN disk
  BY <1>7, <1>8 DEF HalfMade, HalfKept
<1>10. \A i \in Indices : \A n \in Nat :
         HasRoom(primary_entries[i], n) => SectorsKept(primary_entries[i], n)
  <2>1. PICK s \in {0} \cup TablePlaces(l) : Rewrites(s)
    BY <1>6 DEF HalfExported
  <2> QED
    BY <1>3, <1>4, <2>1, HalfPartitionKept
<1>11. \/ place' = place /\ k' \in Nat \ {0} /\ io'.step # "none"
       \/ NextCall /\ io' = NoIo
  BY <1>7, ExportUsingPlace
<1>12. LayoutInv'
  BY <1>1, <1>3 DEF LayoutInv, promises
<1>13. ExportInv'
  <2>1. ~Making' /\ ~IsWhole' /\ ~At("backup entries")'
    BY <1>1, <1>7, <1>9 DEF At
  <2> QED
    BY <1>7, <2>1 DEF ExportInv
<1>14. (IsWhole' <=> IsWhole) /\ (IsWhole => OnImage' = OnImage)
  BY <1>9
<1>15. UNCHANGED <<vars, tree, promises>>
  BY <1>1, <1>7
<1> QED
  BY <1>1, <1>8, <1>9, <1>10, <1>11, <1>12, <1>13, <1>14, <1>15, SavingExport

\* Both write the table.
LEMMA ExportWritesInv ==
  ASSUME UtilInv, ExportWrites
  PROVE  UtilInv'
<1>1. Making \/ Using
  BY WhichCommand DEF UtilInv, ExportWrites, Calls
<1> QED
  BY <1>1, ExportMaking, ExportWhole, ExportHalf

(* -- The inductive invariant ------------------------------------------------------------- *)

\* A step that changes nothing.
LEMMA StutterInv ==
  ASSUME UtilInv, UNCHANGED utilVars
  PROVE  UtilInv'
<1>1. /\ UNCHANGED <<vars, disk, io, config, cmd, place, k, tree, exit, promises, changed>>
      /\ UNCHANGED <<layout, made, saved, unsaved>>
  BY DEF utilVars, imageVars, promises
<1>2. /\ UNCHANGED <<primary_header, backup_header, primary_entries, backup_entries>>
      /\ UNCHANGED <<disk_size, pc, scan, ret>>
  BY <1>1 DEF vars, headers, entries
<1>3. /\ Script' = Script /\ (Making' <=> Making) /\ (Using' <=> Using)
      /\ (Running' <=> Running) /\ WorkLength' = WorkLength
  BY <1>1, SameScript
<1>4. /\ ImageInv' /\ LayoutInv' /\ OnImage' = OnImage
      /\ IsWhole' <=> IsWhole
      /\ Holds(1, "header")' <=> Holds(1, "header")
      /\ ImportedPrimary' = ImportedPrimary /\ ImportedBackup' = ImportedBackup
      /\ ImportedPrimaryEntries' = ImportedPrimaryEntries
      /\ NoTable' <=> NoTable
      /\ SumsComplete' <=> SumsComplete
  BY <1>1, ImageSame, NoTableSame, LayoutSame DEF UtilInv
<1>5. /\ Call' = Call /\ InMemory' = InMemory
      /\ \A do : Calls(do)' <=> Calls(do)
  BY <1>1, <1>2, <1>3 DEF Call, InMemory, Calls
<1>6. ControlInv'
  BY <1>1, <1>2, <1>3, <1>5 DEF UtilInv, ControlInv
<1>7. (Saving' <=> Saving) /\ (Init' <=> Init)
  BY <1>1, <1>2, <1>3 DEF Saving, Init
<1>8. (Granted' <=> Granted) /\ (IInv => IInv')
  <2>1. IInv => IInv'
    BY <1>1, NextIInv
  <2>2. Granted' <=> Granted
    BY <1>1, <1>2, <1>5 DEF Granted, Used
  <2> QED
    BY <2>1, <2>2
<1>9. MemoryInv'
  BY <1>1, <1>2, <1>3, <1>4, <1>5, <1>7, <1>8
     DEF UtilInv, MemoryInv, NothingInMemory, ImportedInMemory, Idle
<1>10. MakingInv'
  <2>1. /\ Fills' <=> Fills
        /\ Holds(0, "boot")' <=> Holds(0, "boot")
    BY <1>1, <1>2, <1>3
       DEF Fills, Filled, TreeFilled, UpdatedBootsector, Bootsector, Dap, Holds
  <2>2. MakingInv
    BY DEF UtilInv
  <2> QED
    BY <1>1, <1>3, <1>4, <1>5, <2>1, <2>2, Zenon DEF MakingInv, Fills
<1>11. UsingInv'
  <2>1. /\ \A n : TreeFilled(ImportedPrimaryEntries[FsEntry], tree, n)'
                  <=> TreeFilled(ImportedPrimaryEntries[FsEntry], tree, n)
    BY <1>1, <1>4 DEF TreeFilled
  <2> QED
    BY <1>1, <1>3, <1>4, <1>7, <2>1 DEF UtilInv, UsingInv
<1>12. ExportInv'
  <2>1. BackupLba' = BackupLba /\ \A step : At(step)' <=> At(step)
    BY <1>1 DEF BackupLba, At
  <2>2. /\ EntriesSumRight(disk[1])' <=> EntriesSumRight(disk[1])
        /\ EntriesSumRight(disk[BackupLba])' <=> EntriesSumRight(disk[BackupLba])
    BY <1>1, <2>1 DEF EntriesSumRight, ArrayAt, EntriesAt, Holds
  <2>3. HeaderSumRight(disk[1])' <=> HeaderSumRight(disk[1])
    BY <1>1 DEF HeaderSumRight
  <2>4. SumsSoFar' <=> SumsSoFar
    BY <1>1, <1>2, <2>1, <2>2, <2>3 DEF SumsSoFar, At
  <2>5. \A lba, kind : Holds(lba, kind)' <=> Holds(lba, kind)
    BY <1>1 DEF Holds
  <2>6. \A lba, es, n : /\ Written(lba, es, n)' <=> Written(lba, es, n)
                        /\ Unwritten(lba, n)' <=> Unwritten(lba, n)
    BY <1>1 DEF Written, Unwritten, ArrayAt, EntriesAt, Holds
  <2>7. FreshExport' <=> FreshExport
    BY <1>1, <1>2, <1>4, <1>5, <2>1, <2>5, <2>6 DEF FreshExport, At
  <2>8. /\ At("none")' <=> At("none")
        /\ At("backup entries")' <=> At("backup entries")
    BY <1>1 DEF At
  <2>9. ExportInv /\ place' = place /\ config' = config /\ io' = io
    BY <1>1 DEF UtilInv
  <2>10. Making' \/ IsWhole' <=> Making \/ IsWhole
    BY <1>3, <1>4
  <2>11. Running' /\ place' > Len(Script') /\ (Making' \/ config'.fs_loader) /\ IsWhole' =>
           SumsComplete'
    BY <1>3, <1>4, <2>9 DEF ExportInv
  <2>12. At("backup entries")' => backup_header'.partition_entry_count # 0
    BY <1>2, <2>8, <2>9 DEF ExportInv
  <2>13. io' \in [step : {"none"} \cup ExportSteps, i : Indices]
    BY <2>9 DEF ExportInv
  <2>14. /\ ~At("none")' /\ Making' => FreshExport'
         /\ ~At("none")' /\ (Making' \/ IsWhole') => SumsSoFar'
    BY <1>3, <2>4, <2>7, <2>8, <2>9, <2>10 DEF ExportInv
  <2> QED
    BY <2>11, <2>12, <2>13, <2>14 DEF ExportInv
<1>13. ChecksumsComplete'
  BY <1>1, <1>3, <1>4 DEF UtilInv, ChecksumsComplete, SumsComplete
<1> QED
  BY <1>4, <1>6, <1>9, <1>10, <1>11, <1>12, <1>13 DEF UtilInv

\* A command that the program ends.
LEMMA RefuseInv ==
  ASSUME UtilInv, Refuse \/ Interrupt
  PROVE  UtilInv'
BY FailInv DEF Refuse, Interrupt

\* A node is made by init, or by another command.
LEMMA MakeNodeInv ==
  ASSUME UtilInv, MakeNode
  PROVE  UtilInv'
<1>1. Making \/ Using
  BY WhichCommand DEF UtilInv, MakeNode, Calls
<1> QED
  BY <1>1, MakeNodeMaking, MakeNodeUsing

\* Every step keeps the invariant.
LEMMA UtilNextInv == UtilInv /\ [UtilNext]_utilVars => UtilInv'
<1> SUFFICES ASSUME UtilInv, [UtilNext]_utilVars
             PROVE  UtilInv'
  OBVIOUS
<1>1. CASE Start
  BY <1>1, StartInv
<1>2. CASE OpenEmpty \/ Zero \/ WriteBootsector \/ WriteData \/ UpdateMbr
  BY <1>2, OpenEmptyInv, ZeroInv, WriteBootsectorInv, WriteDataInv, UpdateMbrInv
<1>3. CASE ExportFs \/ ImportFs \/ MakeNode \/ Look
  BY <1>3, ExportFsInv, ImportFsInv, MakeNodeInv, LookInv
<1>4. CASE CallFormat \/ CallSetType \/ CallSetName
  BY <1>4, CallFormatInv, CallSetTypeInv, CallSetNameInv
<1>5. CASE CallSetSize \/ SetSizeScans \/ SetSizeReturns
  BY <1>5, CallSetSizeInv, SetSizeScansInv, SetSizeReturnsInv
<1>6. CASE CallImport \/ CallExport \/ ExportWrites
  BY <1>6, CallImportInv, CallExportInv, ExportWritesInv
<1>7. CASE Refuse \/ Interrupt
  BY <1>7, RefuseInv
<1>8. CASE Succeed
  BY <1>8, SucceedInv
<1>9. CASE UNCHANGED utilVars
  BY <1>9, StutterInv
<1> QED
  BY <1>1, <1>2, <1>3, <1>4, <1>5, <1>6, <1>7, <1>8, <1>9 DEF UtilNext, CommandStep

\* The invariant holds throughout, for every image, configuration and tree.
THEOREM UtilInvariance == UtilSpec => []UtilInv
  BY UtilInitInv, UtilNextInv, PTL DEF UtilSpec

(* -- What a user may rely on --------------------------------------------------------------- *)

\* What was exported to the end can be read back.
LEMMA WholeImports ==
  ASSUME ImageInv, IsWhole
  PROVE  CanImport
<1>1. TableSound(OnImage) /\ PrimarySound
  BY DEF ImageInv, IsWhole
<1>2. PICK l : l = EndOf(OnImage)
  OBVIOUS
<1>3. /\ l = ImportedPrimary.backup_lba /\ ImportedBackup = OnImage.backup
      /\ \A x \in 0..l : x \in DOMAIN disk
  BY <1>1, <1>2, Imported DEF PrimarySound
<1>4. /\ l \in Nat /\ ArraySectors \in Nat \ {0} /\ 2 * ArraySectors + 2 <= l
      /\ ImportedBackup.partition_entries_lba = l - ArraySectors
  BY <1>1, <1>2, <1>3, SoundTable, EntryPlace
<1>5. /\ 1 \in 0..l /\ l \in 0..l
      /\ \A s \in 0..(ArraySectors - 1) : 2 + s \in 0..l /\ l - ArraySectors + s \in 0..l
  BY <1>4
<1> QED
  BY <1>3, <1>4, <1>5 DEF CanImport

\* The table that init wrote can be read back, whatever comes after it.
THEOREM LayoutAlwaysSurvives == UtilSpec => []LayoutSurvives
<1>1. UtilInv => LayoutSurvives
  BY WholeImports DEF UtilInv, LayoutInv, LayoutSurvives
<1> QED
  BY <1>1, UtilInvariance, PTL

\* A header is never left with a checksum of something else.
THEOREM ChecksumsNeverStale == UtilSpec => []NoStaleChecksum
<1>1. UtilInv => NoStaleChecksum
  BY DEF UtilInv, LayoutInv, ImageInv, NoStaleSum, NoStaleChecksum
<1> QED
  BY <1>1, UtilInvariance, PTL

\* A command that succeeds leaves both headers with both checksums.
THEOREM ChecksumsStayComplete == UtilSpec => []ChecksumsComplete
<1>1. UtilInv => ChecksumsComplete
  BY DEF UtilInv
<1> QED
  BY <1>1, UtilInvariance, PTL

\* The boot sector leads to both stages, and they are whole.
THEOREM StagesStayIntact == UtilSpec => []StagesIntact
<1>1. UtilInv => StagesIntact
  <2> SUFFICES ASSUME UtilInv, layout # {}
               PROVE  /\ LeadsTo(disk[0].st2dap, "stage two", StageTwoSize)
                      /\ disk[0].st2dap.sector_count = SectorsOf(StageTwoSize)
                      /\ LeadsTo(disk[0].st3dap, "stage three", StageThreeSize(made))
    BY DEF StagesIntact
  <2>1. PICK es : es = ImportedPrimaryEntries
    OBVIOUS
  <2>2. BootSound(es, made)
    BY <2>1 DEF UtilInv, LayoutInv
  <2>3. /\ disk[0].st2dap = [sector |-> es[0].first_lba, sector_count |-> SectorsOf(StageTwoSize)]
        /\ disk[0].st3dap.sector = es[1].first_lba
        /\ Filled(es[0], "stage two", SectorsOf(StageTwoSize))
        /\ Filled(es[1], "stage three", SectorsOf(StageThreeSize(made)))
    BY <2>2 DEF BootSound
  <2>4. disk[0].st2dap.sector = es[0].first_lba
        /\ disk[0].st2dap.sector_count = SectorsOf(StageTwoSize)
    <3>1. PICK d, a, n : d = disk[0].st2dap /\ a = es[0].first_lba /\ n = SectorsOf(StageTwoSize)
      OBVIOUS
    <3>2. d = [sector |-> a, sector_count |-> n]
      BY <2>3, <3>1, Zenon
    <3>3. d.sector = a /\ d.sector_count = n
      BY <3>2
    <3> QED
      BY <3>1, <3>3, Zenon
  <2>5. LeadsTo(disk[0].st2dap, "stage two", StageTwoSize)
    BY <2>3, <2>4, Zenon DEF LeadsTo, Filled
  <2>6. LeadsTo(disk[0].st3dap, "stage three", StageThreeSize(made))
    BY <2>3, Zenon DEF LeadsTo, Filled
  <2> QED
    BY <2>4, <2>5, <2>6
<1> QED
  BY <1>1, UtilInvariance, PTL

\* The tree of the last command that succeeded can be read back, until
\* another one begins to be written.
THEOREM TreeAlwaysSurvives == UtilSpec => []TreeSurvives
<1>1. UtilInv => TreeSurvives
  <2> SUFFICES ASSUME UtilInv, layout # {}, made.fs_loader, ~unsaved
               PROVE  TreeIsAt(FsLba, saved)
    BY DEF TreeSurvives
  <2>1. PICK t, es, l, n : /\ t = OnImage /\ es = ImportedPrimaryEntries /\ l = EndOf(OnImage)
                           /\ n = StreamLength(saved)
    OBVIOUS
  <2>2. /\ IsWhole /\ IsUsed(es[FsEntry]) /\ TreeFilled(es[FsEntry], saved, n)
    BY <2>1 DEF UtilInv, LayoutInv
  <2>3. /\ TableSound(t) /\ 0..ImportedPrimary.backup_lba \subseteq DOMAIN disk
    BY <2>1, <2>2 DEF UtilInv, ImageInv, IsWhole, PrimarySound
  <2>4. l = ImportedPrimary.backup_lba /\ es = t.primary_entries
    BY <2>1, <2>2, <2>3, Imported
  <2>5. saved \in SUBSET Nodes
    BY DEF UtilInv, ControlInv
  <2>6. n \in Nat /\ HasRoom(es[FsEntry], n) /\ FsEntry \in Indices
    BY <2>1, <2>2, <2>3, <2>4, <2>5, TreeFits, ThreeEntries
  <2>7. \A x \in 0..l : x \in DOMAIN disk
    BY <2>3, <2>4
  <2>8. ASSUME NEW m \in 0..(n - 1)
        PROVE  es[FsEntry].first_lba + m \in DOMAIN disk
    BY <2>1, <2>3, <2>4, <2>6, <2>7, PartitionOnImage
  <2>9. FsLba = es[FsEntry].first_lba
    BY <2>1 DEF FsLba
  <2>10. ASSUME NEW m \in 0..(n - 1)
         PROVE  FsLba + m \in DOMAIN disk /\ disk[FsLba + m] = Chunk(saved, m)
    <3>1. disk[es[FsEntry].first_lba + m] = Chunk(saved, m)
      BY <2>2 DEF TreeFilled
    <3> QED
      BY <2>8, <2>9, <3>1
  <2> QED
    BY <2>1, <2>10, Zenon DEF TreeIsAt
<1> QED
  BY <1>1, UtilInvariance, PTL

\* What is in memory has its type.
LEMMA MemoryTyped ==
  ASSUME UtilInv
  PROVE  TypeOK
<1>1. ControlInv /\ MemoryInv /\ ImageInv
  BY DEF UtilInv
<1>2. CASE NothingInMemory
  BY <1>1, <1>2, InitIInv DEF MemoryInv, IInv
<1>3. CASE Making /\ place > 4
  BY <1>3, MakingMemory DEF IInv
<1>4. CASE ImportedInMemory
  <2>1. /\ DOMAIN disk # {}
        /\ primary_header = ImportedPrimary /\ primary_entries = ImportedPrimaryEntries
        /\ backup_header \in Header /\ backup_entries \in Table
        /\ disk_size = Cardinality(DOMAIN disk) * SectorSize
        /\ pc = "idle" /\ scan = NoScan /\ ret = "ok"
    BY <1>1, <1>4 DEF MemoryInv, Idle
  <2>2. primary_entries \in Table
    BY <1>1, <2>1, ArrayTyped DEF ImportedPrimaryEntries, ImageInv
  <2>3. /\ primary_header \in Header
        /\ primary_header.last_usable_lba \in Lbas
        /\ primary_header.current_lba \in Lbas /\ primary_header.backup_lba \in Lbas
    <3>1. CASE Holds(1, "header")
      <4>1. PICK size \in DiskSizes :
              primary_header = FormattedHeader(1, LastDiskLba(size), 2, size)
        BY <1>1, <2>1, <3>1 DEF ImageInv, PrimarySound
      <4> QED
        BY <4>1, FormatTypes
    <3>2. CASE ~Holds(1, "header")
      <4>1. primary_header = InitHeader
        BY <1>1, <2>1, <3>2, NoHeaderImport
      <4>2. 0 \in Lbas
        BY WordAssumption DEF Lbas, SectorSize
      <4> QED
        BY <4>1, <4>2, InitTypes DEF InitHeader, InvalidLba
    <3> QED
      BY <3>1, <3>2
  <2>4. disk_size \in DiskSizes
    <3>1. PICK c \in Configs : DOMAIN disk = ImageSectors(c)
      BY <1>1, <2>1 DEF ImageInv, WholeImage
    <3>2. PICK s, n : s = c.disk_size /\ n = s \div SectorSize
      OBVIOUS
    <3>3. s \in DiskSizes /\ s \in Nat
      <4>1. s \in DiskSizes
        BY <3>2, ConfigsAssumption
      <4>2. Word \in Nat
        BY WordAssumption
      <4> QED
        BY <4>1, <4>2, DiskSizesAssumption
    <3>4. n \in Nat
      BY <3>2, <3>3 DEF SectorSize
    <3>5. Cardinality(0..(n - 1)) = n
      <4>1. Cardinality(0..(n - 1)) = IF 0 > n - 1 THEN 0 ELSE (n - 1) - 0 + 1
        BY <3>4, FS_Interval
      <4> QED
        BY <3>4, <4>1
    <3>6. DOMAIN disk = 0..(n - 1)
      BY <3>1, <3>2 DEF ImageSectors
    <3>7. disk_size = n * SectorSize
      BY <2>1, <3>5, <3>6
    <3> QED
      BY <3>2, <3>7, WholeSectorsAssumption
  <2>5. backup_entries # NoEntries
    <3>1. DOMAIN backup_entries = Indices
      BY <2>1 DEF Table
    <3> QED
      BY <3>1, InitTypes DEF NoEntries
  <2> QED
    BY <2>1, <2>2, <2>3, <2>4, <2>5 DEF TypeOK
<1> QED
  <2>1. Running => Making \/ Using
    BY DEF Using
  <2>2. Making => place \in Nat
    BY <1>1, InitLength
  <2> QED
    BY <1>2, <1>3, <1>4, <2>1, <2>2 DEF NothingInMemory, ImportedInMemory

\* Every variable keeps its type, and only the call that runs has anything in hand.
THEOREM UtilTypeCorrect == UtilSpec => []UtilTypeOK
<1>1. UtilInv => UtilTypeOK
  <2> SUFFICES ASSUME UtilInv PROVE UtilTypeOK
    OBVIOUS
  <2>1. ControlInv /\ ExportInv /\ TypeOK
    BY MemoryTyped DEF UtilInv
  <2>2. io \in [step : {"none", "primary header", "primary entries", "backup entries",
                        "backup header", "primary entries sum", "backup entries sum",
                        "primary sum", "backup sum"}, i : Indices]
    BY <2>1 DEF ExportInv, ExportSteps
  <2>3. ~At("none") => Calls("export")
    BY <2>1, NotExporting
  <2> QED
    BY <2>1, <2>2, <2>3 DEF UtilTypeOK, ControlInv
<1> QED
  BY <1>1, UtilInvariance, PTL

(* -- What a step may never do ------------------------------------------------------------------ *)

\* A command that is refused has written nothing.
LEMMA NothingWritten ==
  ASSUME UtilInv, Refuse, cmd.op # "init"
  PROVE  ~changed
<1>1. ControlInv /\ UsingInv
  BY DEF UtilInv
<1>2. \/ Calls("import") \/ Calls("import fs") \/ Calls("make") \/ Calls("look")
      \/ Calls("size") \/ Calls("type") \/ Calls("name")
  BY Zenon DEF Refuse
<1>3. ~Making /\ Running /\ Using
  BY <1>2 DEF Making, Calls, Using
<1>4. /\ config.fs_loader \in BOOLEAN /\ WorkLength \in Nat /\ place \in Nat
      /\ 1 <= WorkLength
      /\ config.fs_loader => Len(Script) = WorkLength + 5
  BY <1>1, <1>3, OtherLength
<1>5. place <= WorkLength + 3
  <2>1. CASE Calls("import")
    <3>1. place # 1 => place = WorkLength + 3
      BY <1>1, <2>1, ImportPlace
    <3>2. place \in Nat /\ WorkLength \in Nat
      BY <1>4
    <3> QED
      BY <3>1, <3>2
  <2>2. CASE Calls("import fs")
    <3>1. place = 2 /\ WorkLength \in Nat
      BY <1>1, <1>4, <2>2, ImportFsPlace
    <3> QED
      BY <3>1
  <2>3. CASE Calls("make")
    BY <1>1, <1>3, <1>4, <2>3, MakePlace
  <2>4. CASE Calls("look")
    BY <1>1, <1>4, <2>4, LookPlace
  <2>5. CASE Calls("size") \/ Calls("type") \/ Calls("name")
    BY <1>1, <1>3, <2>5, SizePlace, TypePlace, NamePlace
  <2> QED
    BY <1>2, <2>1, <2>2, <2>3, <2>4, <2>5
<1>6. ~Saving
  <2> SUFFICES ASSUME Saving PROVE FALSE
    OBVIOUS
  <2>1. config.fs_loader /\ place > Len(Script) - 2
    BY DEF Saving
  <2>2. Len(Script) = WorkLength + 5
    BY <1>4, <2>1, Zenon
  <2>3. WorkLength \in Nat /\ place \in Nat
    BY <1>4
  <2> QED
    BY <1>5, <2>1, <2>2, <2>3
<1> QED
  BY <1>1, <1>3, <1>6 DEF UsingInv

\* mkdir and cp are all or nothing.
THEOREM RefusedWroteNothing == UtilSpec => AllOrNothing
<1>1. UtilInv => [Refuse /\ cmd.op # "init" => ~changed]_utilVars
  BY NothingWritten
<1> QED
  BY <1>1, UtilInvariance, PTL DEF AllOrNothing

\* A step of an export leaves the table in memory as it is.
LEMMA ExportLeavesMemory ==
  ASSUME ExportStep
  PROVE  UNCHANGED vars
<1>1. \E lba, sector : Put(lba, sector)
  BY Zenon DEF ExportStep, WritePrimaryHeader, WritePrimaryEntry, WriteBackupEntry,
               WriteBackupHeader, WritePrimaryEntriesSum, WriteBackupEntriesSum,
               WritePrimarySum, WriteBackupSum, PutEntry
<1> QED
  BY <1>1, Zenon DEF Put

\* How a step of the utility uses the table in memory.
LEMMA TableUse ==
  ASSUME UtilInv, UtilNext
  PROVE  Next \/ Import \/ Forget \/ UNCHANGED vars
<1>1. CASE \/ OpenEmpty \/ Zero \/ WriteBootsector \/ WriteData \/ UpdateMbr \/ ExportFs
           \/ MakeNode \/ Look \/ CallExport \/ Start
  BY <1>1 DEF OpenEmpty, Zero, WriteBootsector, WriteData, UpdateMbr, ExportFs, MakeNode, Look,
              CallExport, BeginExport, Start, imageVars
<1>2. CASE ExportWrites
  BY <1>2, ExportLeavesMemory DEF ExportWrites
<1>3. CASE ImportFs \/ Refuse \/ Succeed \/ Interrupt
  BY <1>3 DEF ImportFs, Refuse, Succeed, Interrupt, End
<1>4. CASE CallImport
  BY <1>4 DEF CallImport
<1>5. CASE CallFormat
  <2>1. Format(config.disk_size) /\ config.disk_size \in DiskSizes
    BY <1>5, ConfigsAssumption DEF CallFormat, UtilInv, ControlInv
  <2> QED
    BY <2>1 DEF Next, OtherStep
<1>6. CASE CallSetType \/ CallSetName
  <2>1. ControlInv /\ HasEntry /\ (Calls("type") \/ Calls("name"))
    BY <1>6 DEF CallSetType, CallSetName, UtilInv
  <2>2. Making /\ Labels
    BY <2>1, TypePlace, NamePlace
  <2>3. place > 4
    BY <2>1, <2>2, InitLength DEF Labels
  <2>4. TargetEntry \in Indices
    BY <2>1, <2>2, <2>3, MakingMemory, TargetIndex DEF Labels
  <2>5. TargetEntry \in CallIndices
    BY <2>4 DEF CallIndices
  <2>6. CASE CallSetType
    <3>1. Call.type \in TypeStrings
      BY <2>1, <2>6, TypePlace, TypesAssumption DEF CallSetType
    <3>2. SetEntryType(TargetEntry, Call.type)
      BY <2>6 DEF CallSetType
    <3> QED
      BY <2>5, <3>1, <3>2 DEF Next, OtherStep
  <2>7. CASE CallSetName
    <3>1. PICK name \in Call.names : SetEntryName(TargetEntry, name)
      BY <2>7 DEF CallSetName
    <3>2. name \in Names
      BY <2>1, <2>7, <3>1, NamePlace DEF CallSetName
    <3> QED
      BY <2>5, <3>1, <3>2 DEF Next, OtherStep
  <2> QED
    BY <1>6, <2>6, <2>7
<1>7. CASE CallSetSize
  <2>1. Calls("size") /\ SetEntrySize(Call.entry, Call.bytes)
    BY <1>7 DEF CallSetSize
  <2>2. Call.entry \in CallIndices /\ Call.bytes \in Sizes /\ IsFresh(Call.entry)
    BY <2>1, SizingCall
  <2>3. Ready
    BY <2>1 DEF SetEntrySize
  <2> QED
    BY <2>1, <2>2, <2>3 DEF Next
<1>8. CASE SetSizeScans \/ SetSizeReturns
  BY <1>8 DEF SetSizeScans, SetSizeReturns, Next, OtherStep
<1> QED
  BY <1>1, <1>2, <1>3, <1>4, <1>5, <1>6, <1>7, <1>8 DEF UtilNext, CommandStep

\* The utility uses the table as the theorems about Gpt assume.
THEOREM TableUsedRight == UtilSpec => TableUsedAsSpecified
<1>1. UtilInv /\ [UtilNext]_utilVars => [Next \/ Import \/ Forget]_vars
  <2>1. ASSUME UNCHANGED utilVars
        PROVE  UNCHANGED vars
    BY <2>1 DEF utilVars, imageVars
  <2> QED
    BY <2>1, TableUse
<1> QED
  BY <1>1, UtilInvariance, PTL DEF UtilSpec, TableUsedAsSpecified
===============================================================================
