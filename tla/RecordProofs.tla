---------------------------- MODULE RecordProofs ----------------------------
(****************************************************************************)
(* Theorems about Encoding and Records, for bytes of any number of values   *)
(* and code, names and sectors of any length: numbers come back from the    *)
(* disk as they were, the boot sector is kept, what memory holds fits the   *)
(* fields it is for, a header that has been written verifies, a record is a *)
(* structure of named fields, and an entry that has been given a type is    *)
(* found by it.                                                             *)
(****************************************************************************)
EXTENDS Records, FiniteSetTheorems, SequenceTheorems, TLAPS

(* -- Numbers --------------------------------------------------------------- *)

\* A remainder and what is above it come apart again.
LEMMA RestAndAbove ==
  ASSUME NEW d \in Nat, NEW q \in Nat, NEW r \in Nat, r < d
  PROVE  (r + d * q) % d = r /\ (r + d * q) \div d = q
<1> DEFINE n == r + d * q
<1> DEFINE m == n % d
<1> DEFINE k == n \div d
<1>1. d >= 1 /\ n \in Nat
  OBVIOUS
<1>2. m \in 0..(d - 1) /\ k \in Nat /\ n = d * k + m
  BY <1>1
<1>3. d * (k - q) = r - m
  BY <1>1, <1>2
<1> HIDE DEF m, k
<1>4. k = q
  <2>1. CASE k - q >= 1
    <3>1. d * (k - q) >= d
      BY <1>1, <1>2, <2>1
    <3> QED
      BY <1>1, <1>2, <1>3, <3>1
  <2>2. CASE q - k >= 1
    <3>1. d * (q - k) >= d
      BY <1>1, <1>2, <2>2
    <3>2. d * (q - k) = -(d * (k - q))
      BY <1>1, <1>2
    <3> QED
      BY <1>1, <1>2, <1>3, <3>1, <3>2
  <2> QED
    BY <1>2, <2>1, <2>2
<1>5. m = r
  BY <1>1, <1>2, <1>3, <1>4
<1> QED
  BY <1>4, <1>5 DEF m, k

\* What two bytes say is below what 16 bits can hold.
LEMMA Decode16 ==
  ASSUME NEW x \in Byte, NEW y \in Byte
  PROVE  /\ x + Base * y \in Nat /\ x + Base * y < Base * Base
         /\ Base * Base \in Nat
<1>1. Base \in Nat /\ x \in Nat /\ y \in Nat /\ x <= Base - 1 /\ y <= Base - 1
  BY BaseAssumption DEF Byte
<1>2. Base * y <= Base * (Base - 1)
  BY <1>1
<1>3. Base * (Base - 1) = Base * Base - Base
  BY <1>1
<1> QED
  BY <1>1, <1>2, <1>3

\* The two lowest bytes of a number, and what is above them.
LEMMA Low16 ==
  ASSUME NEW x \in Byte, NEW y \in Byte, NEW q \in Nat
  PROVE  /\ encode_uint16(x + Base * y + Base * Base * q) = <<x, y>>
         /\ From16(x + Base * y + Base * Base * q) = q
<1> DEFINE n == x + Base * y + Base * Base * q
<1>1. Base \in Nat /\ x \in Nat /\ y \in Nat /\ x < Base /\ y < Base
  BY BaseAssumption DEF Byte
<1>2. PICK above \in Nat : above = y + Base * q
  BY <1>1
<1>3. n = x + Base * above
  BY <1>1, <1>2
<1>4. n % Base = x /\ n \div Base = above
  BY <1>1, <1>3, RestAndAbove
<1>5. above % Base = y
  BY <1>1, <1>2, RestAndAbove
<1>6. n \div (Base * Base) = q
  BY Decode16, RestAndAbove
<1> QED
  BY <1>4, <1>5, <1>6 DEF encode_uint16, ByteOf, From16

\* The four lowest.
LEMMA Low32 ==
  ASSUME NEW b \in [1..4 -> Byte], NEW q \in Nat
  PROVE  /\ encode_uint32(decode_uint32(b) + Base * Base * Base * Base * q)
              = <<b[1], b[2], b[3], b[4]>>
         /\ From32(decode_uint32(b) + Base * Base * Base * Base * q) = q
         /\ decode_uint32(b) \in Nat
<1> DEFINE low == b[1] + Base * b[2]
<1> DEFINE high == b[3] + Base * b[4]
<1> DEFINE n == decode_uint32(b) + Base * Base * Base * Base * q
<1>1. Base \in Nat /\ b[1] \in Byte /\ b[2] \in Byte /\ b[3] \in Byte /\ b[4] \in Byte
  BY BaseAssumption
<1>2. low \in Nat /\ high \in Nat /\ Base * Base \in Nat
  BY <1>1, Decode16
<1>3. decode_uint32(b) = low + Base * Base * high
  BY DEF decode_uint32, decode_uint16
<1>4. PICK above \in Nat : above = high + Base * Base * q
  BY <1>2
<1>5. Base * Base * Base * Base * q = Base * Base * (Base * Base * q)
  BY <1>1
<1>6. Base * Base * above = Base * Base * high + Base * Base * (Base * Base * q)
  BY <1>2, <1>4
<1>7. n = low + Base * Base * above
  BY <1>2, <1>3, <1>5, <1>6
<1>8. encode_uint16(n) = <<b[1], b[2]>> /\ From16(n) = above
  <2>1. /\ encode_uint16(low + Base * Base * above) = <<b[1], b[2]>>
        /\ From16(low + Base * Base * above) = above
    BY <1>1, Low16
  <2> HIDE DEF n, low
  <2> QED
    BY <1>7, <2>1
<1>9. encode_uint16(above) = <<b[3], b[4]>> /\ From16(above) = q
  <2>1. /\ encode_uint16(high + Base * Base * q) = <<b[3], b[4]>>
        /\ From16(high + Base * Base * q) = q
    BY <1>1, Low16
  <2> QED
    BY <1>4, <2>1
<1>10. encode_uint32(n) = <<b[1], b[2], b[3], b[4]>> /\ From32(n) = q
  <2> HIDE DEF n
  <2>1. encode_uint32(n) = <<b[1], b[2], b[3], b[4]>>
    BY <1>8, <1>9 DEF encode_uint32
  <2>2. From32(n) = q
    BY <1>8, <1>9 DEF From32
  <2> QED
    BY <2>1, <2>2
<1>11. decode_uint32(b) \in Nat
  BY <1>2, <1>3
<1> QED
  BY <1>10, <1>11

\* encode_uint16 of two decoded bytes gives the bytes.
LEMMA TwoBytesComeBack ==
  ASSUME NEW x \in Byte, NEW y \in Byte
  PROVE  encode_uint16(x + Base * y) = <<x, y>>
<1>1. PICK zero \in Nat : zero = 0
  BY 0 \in Nat
<1>2. encode_uint16(x + Base * y + Base * Base * zero) = <<x, y>>
  BY <1>1, Low16
<1>3. x + Base * y + Base * Base * zero = x + Base * y
  BY <1>1, Decode16
<1> QED
  BY <1>2, <1>3

\* Two, four or eight bytes that are read as a number and written again, as
\* the boot sector's and an opened image's are, are the bytes they were.
THEOREM BytesComeBack ==
  ASSUME NEW b \in [1..8 -> Byte]
  PROVE  /\ encode_uint16(decode_uint16(b)) = <<b[1], b[2]>>
         /\ encode_uint32(decode_uint32(b)) = <<b[1], b[2], b[3], b[4]>>
         /\ encode_uint64(decode_uint64(b)) = <<b[1], b[2], b[3], b[4], b[5], b[6], b[7], b[8]>>
<1> DEFINE high == <<b[5], b[6], b[7], b[8]>>
<1>1. Base \in Nat /\ \A i \in 1..8 : b[i] \in Byte /\ b[i] \in Nat
  BY BaseAssumption DEF Byte
<1>2. encode_uint16(decode_uint16(b)) = <<b[1], b[2]>>
  BY <1>1, TwoBytesComeBack DEF decode_uint16
<1>3. PICK four \in [1..4 -> Byte] : \A i \in 1..4 : four[i] = b[i]
  <2>1. [i \in 1..4 |-> b[i]] \in [1..4 -> Byte]
    BY <1>1
  <2> QED
    BY <2>1
<1>4. decode_uint32(four) = decode_uint32(b)
  BY <1>3 DEF decode_uint32, decode_uint16
<1>5. encode_uint32(decode_uint32(b)) = <<b[1], b[2], b[3], b[4]>>
  <2>1. PICK zero \in Nat : zero = 0
    BY 0 \in Nat
  <2>2. encode_uint32(decode_uint32(four) + Base * Base * Base * Base * zero)
          = <<four[1], four[2], four[3], four[4]>>
    BY Low32
  <2>3. decode_uint32(four) + Base * Base * Base * Base * zero = decode_uint32(b)
    BY <1>1, <1>3, <1>4, <2>1, Low32
  <2> QED
    BY <1>3, <2>2, <2>3
<1>6. high \in [1..4 -> Byte] /\ high = <<high[1], high[2], high[3], high[4]>>
  BY <1>1
<1>7. encode_uint64(decode_uint64(b)) = <<b[1], b[2], b[3], b[4], b[5], b[6], b[7], b[8]>>
  <2>1. decode_uint32(high) \in Nat
    BY <1>6, Low32
  <2>2. PICK n : n = decode_uint64(b)
    OBVIOUS
  <2>3. n = decode_uint32(four) + Base * Base * Base * Base * decode_uint32(high)
    BY <1>4, <2>2 DEF decode_uint64
  <2>4. encode_uint32(n) = <<b[1], b[2], b[3], b[4]>> /\ From32(n) = decode_uint32(high)
    BY <1>3, <2>1, <2>3, Low32
  <2>5. PICK zero \in Nat : zero = 0
    BY 0 \in Nat
  <2>6. encode_uint32(decode_uint32(high) + Base * Base * Base * Base * zero) = high
    BY <1>6, Low32
  <2>7. decode_uint32(high) + Base * Base * Base * Base * zero = decode_uint32(high)
    BY <1>1, <2>1, <2>5
  <2>8. encode_uint32(decode_uint32(high)) = <<b[5], b[6], b[7], b[8]>>
    BY <2>6, <2>7
  <2> QED
    BY <2>2, <2>4, <2>8 DEF encode_uint64
<1> QED
  BY <1>2, <1>5, <1>7

(* -- The fields of the boot sector ----------------------------------------- *)

\* Where they lie, the end of the record last, and which of them update_mbr_gpt
\* leaves alone.
MbrAt == <<0, CodeBytes, CodeBytes + 2, CodeBytes + 4, CodeBytes + 6, CodeBytes + 8,
           CodeBytes + 16, CodeBytes + 18, CodeBytes + 20, CodeBytes + 22, CodeBytes + 24,
           CodeBytes + 32, CodeBytes + 34>>
Kept == {1, 2, 4, 5, 7, 9, 10, 12}
SectorAddresses == 0..(CodeBytes + 35)

\* The fields of the boot sector follow each other and end inside the sector.
LEMMA MbrFields ==
  ASSUME NEW i \in 1..12
  PROVE  /\ MbrAt[i] \in Nat /\ MbrReads[i].width \in Nat
         /\ MbrAt[i + 1] = MbrAt[i] + MbrReads[i].width
         /\ MbrAt[i] + MbrReads[i].width <= CodeBytes + 34
BY SizesAssumption DEF MbrAt, MbrReads, Raw, U16, U64

\* mbr_write writes the fields that mbr_read read, none twice and none of its own.
LEMMA MbrNames ==
  /\ MbrWrites = MbrReads /\ Len(MbrReads) = 12
  /\ \A i \in 1..12 : MbrReads[i].name \notin DOMAIN Literals
  /\ \A i, j \in 1..12 : MbrReads[i].name = MbrReads[j].name => i = j
<1>1. MbrWrites = MbrReads /\ Len(MbrReads) = 12
  BY DEF MbrWrites, MbrReads
<1>2. \A i \in 1..12 : MbrReads[i].name \notin DOMAIN Literals
  BY <1>1, LiteralsAssumption
<1>3. \A i, j \in 1..12 : MbrReads[i].name = MbrReads[j].name => i = j
  BY DEF MbrReads, Raw, U16, U64
<1> QED
  BY <1>1, <1>2, <1>3

\* The four others are the stages' places, and the kept ones are not.
LEMMA FieldPlaces ==
  /\ \A i \in (1..12) \ Kept, a \in SectorAddresses :
       MbrAt[i] <= a /\ a < MbrAt[i] + MbrReads[i].width => a \in StagePlaces
  /\ \A i \in Kept, k \in Nat :
       k < MbrReads[i].width => MbrAt[i] + k \in SectorAddresses \ StagePlaces
<1> USE SizesAssumption
    DEF MbrAt, MbrReads, Raw, U16, U64, Kept, SectorAddresses, StagePlaces, PacketPlaces
<1>1. ASSUME NEW i \in (1..12) \ Kept, NEW a \in SectorAddresses,
             MbrAt[i] <= a, a < MbrAt[i] + MbrReads[i].width
      PROVE  a \in StagePlaces
  BY <1>1
<1>2. ASSUME NEW i \in Kept, NEW k \in Nat, k < MbrReads[i].width
      PROVE  MbrAt[i] + k \in SectorAddresses \ StagePlaces
  BY <1>2
<1> QED
  BY <1>1, <1>2

(* -- Transfers ------------------------------------------------------------- *)

\* The encodings of a number are strings of bytes.
LEMMA NumbersAreBytes ==
  ASSUME NEW n \in Nat
  PROVE  /\ encode_uint16(n) \in [1..2 -> Byte]
         /\ encode_uint32(n) \in [1..4 -> Byte]
         /\ encode_uint64(n) \in [1..8 -> Byte]
<1>1. ASSUME NEW m \in Nat
      PROVE  ByteOf(m) \in Byte /\ m \div Base \in Nat /\ From16(m) \in Nat
  <2>1. Base \in Nat /\ Base >= 2 /\ Base * Base \in Nat
    BY BaseAssumption
  <2>2. Base * Base > 0
    BY <2>1
  <2> QED
    BY <2>1, <2>2 DEF ByteOf, From16, Byte
<1>2. \A m \in Nat : encode_uint16(m)[1] \in Byte /\ encode_uint16(m)[2] \in Byte
  BY <1>1 DEF encode_uint16
<1>3. \A m \in Nat : \A i \in 1..4 : encode_uint32(m)[i] \in Byte
  BY <1>1, <1>2 DEF encode_uint32
<1>4. From32(n) \in Nat
  BY <1>1 DEF From32
<1>5. encode_uint64(n) \in [1..8 -> Byte]
  BY <1>3, <1>4 DEF encode_uint64
<1>6. encode_uint32(n) \in [1..4 -> Byte]
  BY <1>3 DEF encode_uint32
<1> QED
  BY <1>1, <1>5, <1>6 DEF encode_uint16

\* Eight bytes written one by one are the array of them.
LEMMA EightBytes ==
  ASSUME NEW b \in [1..8 -> Byte]
  PROVE  <<b[1], b[2], b[3], b[4], b[5], b[6], b[7], b[8]>> = b
<1>1. PICK eight : eight = <<b[1], b[2], b[3], b[4], b[5], b[6], b[7], b[8]>>
  OBVIOUS
<1>2. eight \in Seq(Byte) /\ Len(eight) = 8
  BY <1>1
<1>3. \A k \in 1..8 : eight[k] = b[k]
  BY <1>1
<1>4. eight \in [1..8 -> Byte]
  BY <1>2, <1>3
<1> QED
  BY <1>1, <1>3, <1>4

\* A field of the boot sector that is read and written again is the same bytes.
LEMMA FieldComesBack ==
  ASSUME NEW i \in 1..12, NEW b \in [1..MbrReads[i].width -> Byte]
  PROVE  Encoded(MbrReads[i], Decoded(MbrReads[i], b)) = b
<1>1. CASE i \in {1, 2, 7}
  BY <1>1 DEF Encoded, Decoded, MbrReads, Raw
<1>2. CASE i \in {3, 4, 5, 8, 9, 10, 12}
  <2>1. ~MbrReads[i].array /\ MbrReads[i].width = 2
    BY <1>2 DEF MbrReads, U16
  <2>2. b[1] \in Byte /\ b[2] \in Byte /\ b = <<b[1], b[2]>>
    BY <2>1
  <2>3. encode_uint16(b[1] + Base * b[2]) = b
    BY <2>2, TwoBytesComeBack
  <2> QED
    BY <2>1, <2>3 DEF Encoded, Decoded, decode_uint16
<1>3. CASE i \in {6, 11}
  <2>1. ~MbrReads[i].array /\ MbrReads[i].width = 8
    BY <1>3 DEF MbrReads, U64
  <2>2. b \in [1..8 -> Byte]
    BY <2>1
  <2>3. encode_uint64(decode_uint64(b)) = b
    BY <2>2, BytesComeBack, EightBytes
  <2> QED
    BY <2>1, <2>3 DEF Encoded, Decoded
<1> QED
  BY <1>1, <1>2, <1>3

(* -- The boot sector in memory and on the disk ----------------------------- *)

\* What is in memory of a field is what is on the disk.
Holds(i) == LET f == MbrReads[i]
            IN /\ f.name \in DOMAIN memory
               /\ Encoded(f, memory[f.name]) = Slice(MbrAt[i], f.width)

\* Only the places of the stages are numbers of update_mbr_gpt.
NewPlaces == \A i \in (1..12) \ Kept :
               /\ MbrReads[i].name \in DOMAIN memory
               /\ memory[MbrReads[i].name] \in Nat

BootInv ==
  kind = "mbr" =>
    /\ disk \in [SectorAddresses -> Byte]
    /\ doing \in {"nothing", "read", "change", "write", "done"}
    /\ doing = "read" => /\ next \in 1..12 /\ pos = MbrAt[next]
                         /\ \A i \in 1..(next - 1) : Holds(i)
    /\ doing = "change" => \A i \in 1..12 : Holds(i)
    /\ doing = "write" => /\ next \in 0..12 /\ (next > 0 => pos = MbrAt[next])
                          /\ NewPlaces
                          /\ \A i \in Kept : Holds(i)

\* Writing any part of what is there already changes nothing.
LEMMA SameBytes ==
  ASSUME NEW i \in 1..12, NEW done \in 0..MbrReads[i].width, NEW b,
         b = Slice(MbrAt[i], MbrReads[i].width), disk \in [SectorAddresses -> Byte]
  PROVE  Overwritten(MbrAt[i], b, done) = disk
<1>1. MbrAt[i] \in Nat /\ MbrReads[i].width \in Nat
  BY MbrFields
<1>2. ASSUME NEW a \in SectorAddresses, MbrAt[i] <= a, a < MbrAt[i] + done
      PROVE  b[a - MbrAt[i] + 1] = disk[a]
  <2>1. a \in Nat /\ a - MbrAt[i] + 1 \in 1..MbrReads[i].width
    BY <1>1, <1>2, SizesAssumption DEF SectorAddresses
  <2>2. MbrAt[i] + (a - MbrAt[i] + 1) - 1 = a
    BY <1>1, <2>1
  <2> QED
    BY <2>1, <2>2 DEF Slice
<1> QED
  BY <1>2 DEF Overwritten

\* Writing a field of the stages leaves every other byte.
LEMMA OtherBytes ==
  ASSUME NEW i \in (1..12) \ Kept, NEW done \in 0..MbrReads[i].width,
         NEW b \in [1..MbrReads[i].width -> Byte], disk \in [SectorAddresses -> Byte],
         disk' = Overwritten(MbrAt[i], b, done)
  PROVE  /\ disk' \in [SectorAddresses -> Byte]
         /\ \A a \in SectorAddresses \ StagePlaces : disk'[a] = disk[a]
<1>1. MbrAt[i] \in Nat /\ MbrReads[i].width \in Nat
  BY MbrFields
<1>2. ASSUME NEW a \in SectorAddresses, MbrAt[i] <= a, a < MbrAt[i] + done
      PROVE  b[a - MbrAt[i] + 1] \in Byte /\ a \in StagePlaces
  <2>1. a \in Nat /\ a - MbrAt[i] + 1 \in 1..MbrReads[i].width
    BY <1>1, <1>2, SizesAssumption DEF SectorAddresses
  <2>2. a \in StagePlaces
    <3>1. a < MbrAt[i] + MbrReads[i].width
      BY <1>1, <1>2, <2>1
    <3> QED
      BY <1>2, <3>1, FieldPlaces
  <2> QED
    BY <2>1, <2>2
<1> QED
  BY <1>2 DEF Overwritten

\* So what is kept is still what is in memory.
LEMMA StillHolds ==
  ASSUME NEW i \in Kept, Holds(i), UNCHANGED memory,
         \A a \in SectorAddresses \ StagePlaces : disk'[a] = disk[a]
  PROVE  Holds(i)'
<1>1. i \in 1..12 /\ MbrAt[i] \in Nat /\ MbrReads[i].width \in Nat
  BY MbrFields DEF Kept
<1>2. ASSUME NEW k \in 1..MbrReads[i].width
      PROVE  disk'[MbrAt[i] + k - 1] = disk[MbrAt[i] + k - 1]
  <2>1. k - 1 \in Nat /\ k - 1 < MbrReads[i].width /\ MbrAt[i] + k - 1 = MbrAt[i] + (k - 1)
    BY <1>1
  <2> QED
    BY <2>1, FieldPlaces
<1>3. Slice(MbrAt[i], MbrReads[i].width)' = Slice(MbrAt[i], MbrReads[i].width)
  BY <1>2 DEF Slice, MbrReads, MbrAt
<1> QED
  BY <1>3 DEF Holds, MbrReads, MbrAt, Encoded, Raw, U16, U64

(* -- What each step does to the boot sector -------------------------------- *)

\* Every byte outside of the places of the stages is as it was.
Stays == \A a \in SectorAddresses \ StagePlaces : disk'[a] = disk[a]

\* A field that mbr_read reads is kept where the sector has it.
LEMMA ReadStep ==
  ASSUME BootInv, kind = "mbr", ReadField
  PROVE  BootInv'
<1> DEFINE f == MbrReads[next]
<1>1. /\ next \in 1..12 /\ pos = MbrAt[next] /\ \A i \in 1..(next - 1) : Holds(i)
      /\ disk \in [SectorAddresses -> Byte]
  BY DEF BootInv, ReadField
<1>2. Reads = MbrReads /\ Len(Reads) = 12
  BY MbrNames DEF Reads
<1>3. /\ memory' = With(f, Decoded(f, Slice(pos, f.width)))
      /\ pos' = MbrAt[next + 1] /\ next' = next + 1
      /\ doing' = IF next = 12 THEN "change" ELSE "read"
      /\ UNCHANGED <<kind, disk>>
  BY <1>1, <1>2, MbrFields DEF ReadField
<1>4. Slice(MbrAt[next], f.width) \in [1..f.width -> Byte]
  <2>1. MbrAt[next] \in Nat /\ f.width \in Nat /\ MbrAt[next] + f.width <= CodeBytes + 34
    BY <1>1, MbrFields
  <2>2. \A k \in 1..f.width : MbrAt[next] + k - 1 \in SectorAddresses
    BY <2>1, SizesAssumption DEF SectorAddresses
  <2> QED
    BY <1>1, <2>2 DEF Slice
<1>5. Encoded(f, Decoded(f, Slice(MbrAt[next], f.width))) = Slice(MbrAt[next], f.width)
  BY <1>1, <1>4, FieldComesBack
<1>6. ASSUME NEW i \in 1..next
      PROVE  Holds(i)'
  <2>1. Slice(MbrAt[i], MbrReads[i].width)' = Slice(MbrAt[i], MbrReads[i].width)
    BY <1>3 DEF Slice, MbrAt, MbrReads
  <2>2. CASE i = next
    <3>1. f.name \in DOMAIN memory' /\ memory'[f.name] = Decoded(f, Slice(pos, f.width))
      BY <1>3 DEF With
    <3> QED
      BY <1>1, <1>5, <2>1, <2>2, <3>1 DEF Holds, Encoded, MbrReads, MbrAt
  <2>3. CASE i < next
    <3>1. Holds(i) /\ MbrReads[i].name # f.name
      BY <1>1, <2>3, MbrNames
    <3>2. MbrReads[i].name \in DOMAIN memory' /\ memory'[MbrReads[i].name] = memory[MbrReads[i].name]
      BY <1>3, <3>1 DEF With, Holds
    <3> QED
      BY <2>1, <3>1, <3>2 DEF Holds, Encoded, MbrReads, MbrAt
  <2> QED
    BY <1>1, <2>2, <2>3
<1>7. CASE next = 12
  BY <1>1, <1>3, <1>6, <1>7 DEF BootInv
<1>8. CASE next # 12
  <2>1. next' \in 1..12 /\ pos' = MbrAt'[next'] /\ \A i \in 1..(next' - 1) : Holds(i)'
    BY <1>1, <1>3, <1>6, <1>8 DEF MbrAt
  <2> QED
    BY <1>1, <1>3, <1>8, <2>1 DEF BootInv, MbrAt
<1> QED
  BY <1>7, <1>8

\* bootsector_update changes the two packets and nothing else of what was read.
LEMMA UpdateStep ==
  ASSUME BootInv, UpdateMbr
  PROVE  BootInv' /\ UNCHANGED disk
<1>1. /\ kind = "mbr" /\ kind' = "mbr" /\ UNCHANGED disk /\ doing' = "write" /\ next' = 0
      /\ disk \in [SectorAddresses -> Byte] /\ \A i \in 1..12 : Holds(i)
  BY DEF UpdateMbr, BootInv
<1>2. PICK two \in Stages, three \in Stages :
        memory' = [memory EXCEPT !["st2dap.sector"] = two.first_lba,
                                 !["st2dap.sector_count"] = SectorCount(two.size),
                                 !["st3dap.sector"] = three.first_lba,
                                 !["st3dap.sector_count"] = SectorCount(three.size)]
  BY DEF UpdateMbr
<1>3. DOMAIN memory' = DOMAIN memory
  BY <1>2
<1>4. ASSUME NEW i \in Kept
      PROVE  Holds(i)'
  <2>1. i \in 1..12 /\ MbrReads[i].name \notin {"st2dap.sector", "st2dap.sector_count",
                                               "st3dap.sector", "st3dap.sector_count"}
    BY DEF Kept, MbrReads, Raw, U16, U64
  <2>2. Holds(i)
    BY <1>1, <2>1
  <2>3. memory'[MbrReads[i].name] = memory[MbrReads[i].name]
    BY <1>2, <2>1, <2>2 DEF Holds
  <2>4. Slice(MbrAt[i], MbrReads[i].width)' = Slice(MbrAt[i], MbrReads[i].width)
    BY <1>1 DEF Slice, MbrAt, MbrReads
  <2> QED
    BY <1>3, <2>2, <2>3, <2>4 DEF Holds, Encoded, MbrReads, MbrAt
<1>5. NewPlaces'
  <2>1. \A size \in Nat : SectorCount(size) \in Nat
    <3>1. Base * Base \in Nat /\ Base * Base > 0
      BY BaseAssumption
    <3>2. \A size \in Nat : (size + 511) \div 512 \in Nat
      OBVIOUS
    <3> QED
      BY <3>1, <3>2 DEF SectorCount, Cut16
  <2>2. /\ two.first_lba \in Nat /\ SectorCount(two.size) \in Nat
        /\ three.first_lba \in Nat /\ SectorCount(three.size) \in Nat
    BY <2>1, StagesAssumption
  <2>3. (1..12) \ Kept = {3, 6, 8, 11}
    BY DEF Kept
  <2>4. \A i \in {3, 6, 8, 11} : MbrReads[i].name \in DOMAIN memory
    BY <1>1 DEF Holds
  <2>5. /\ MbrReads[3].name = "st2dap.sector_count" /\ MbrReads[6].name = "st2dap.sector"
        /\ MbrReads[8].name = "st3dap.sector_count" /\ MbrReads[11].name = "st3dap.sector"
    BY DEF MbrReads, U16, U64
  <2>6. /\ memory'["st2dap.sector_count"] \in Nat /\ memory'["st2dap.sector"] \in Nat
        /\ memory'["st3dap.sector_count"] \in Nat /\ memory'["st3dap.sector"] \in Nat
    BY <1>2, <2>2, <2>4, <2>5
  <2>7. MbrReads' = MbrReads
    BY DEF MbrReads
  <2> QED
    BY <1>3, <2>3, <2>4, <2>5, <2>6, <2>7 DEF NewPlaces
<1> QED
  BY <1>1, <1>4, <1>5 DEF BootInv

\* A byte of a field is written where it is already, or into a stage's place.
LEMMA WriteKeeps ==
  ASSUME BootInv, kind = "mbr", doing = "write", next \in 1..12,
         NEW done \in 0..MbrReads[next].width,
         disk' = Overwritten(pos, Encoded(MbrReads[next], memory[MbrReads[next].name]), done)
  PROVE  disk' \in [SectorAddresses -> Byte] /\ Stays
<1> DEFINE f == MbrReads[next]
<1>1. pos = MbrAt[next] /\ disk \in [SectorAddresses -> Byte]
  BY DEF BootInv
<1>2. CASE next \in Kept
  <2>1. Encoded(f, memory[f.name]) = Slice(MbrAt[next], f.width)
    BY <1>2 DEF BootInv, Holds
  <2>2. disk' = disk
    BY <1>1, <2>1, SameBytes
  <2> QED
    BY <1>1, <2>2 DEF Stays
<1>3. CASE next \notin Kept
  <2>1. memory[f.name] \in Nat
    BY <1>3 DEF BootInv, NewPlaces
  <2>2. next \in {3, 6, 8, 11}
    BY <1>3 DEF Kept
  <2>3. Encoded(f, memory[f.name]) \in [1..f.width -> Byte]
    <3>1. CASE next \in {3, 8}
      <4>1. ~f.array /\ f.width = 2
        BY <3>1 DEF MbrReads, U16
      <4> QED
        BY <2>1, <4>1, NumbersAreBytes DEF Encoded
    <3>2. CASE next \in {6, 11}
      <4>1. ~f.array /\ f.width = 8
        BY <3>2 DEF MbrReads, U64
      <4> QED
        BY <2>1, <4>1, NumbersAreBytes DEF Encoded
    <3> QED
      BY <2>2, <3>1, <3>2
  <2> HIDE DEF f
  <2>4. next \in (1..12) \ Kept
    BY <1>3
  <2>5. PICK b : b = Encoded(f, memory[f.name])
    OBVIOUS
  <2>6. b \in [1..MbrReads[next].width -> Byte] /\ disk' = Overwritten(MbrAt[next], b, done)
    BY <1>1, <2>3, <2>5 DEF f
  <2> QED
    BY <1>1, <2>4, <2>6, OtherBytes DEF Stays
<1> QED
  BY <1>2, <1>3

\* A field that mbr_write writes is, outside of the two packets, the bytes that were there.
LEMMA WriteStep ==
  ASSUME BootInv, kind = "mbr", WriteField
  PROVE  BootInv' /\ Stays
<1> DEFINE f == MbrReads[next]
<1>1. next \in 1..12 /\ pos = MbrAt[next] /\ NewPlaces /\ \A i \in Kept : Holds(i)
  BY DEF BootInv, WriteField
<1>2. Writes = MbrReads /\ Len(Writes) = 12 /\ Source(f.name) = memory[f.name]
  BY <1>1, MbrNames DEF Writes, Source
<1>3. /\ disk' = Overwritten(pos, Encoded(f, memory[f.name]), f.width)
      /\ pos' = MbrAt[next + 1] /\ next' = next + 1
      /\ doing' = IF next < 12 THEN "write" ELSE "done"
      /\ UNCHANGED <<kind, memory>>
  BY <1>1, <1>2, MbrFields DEF WriteField
<1>4. disk' \in [SectorAddresses -> Byte] /\ Stays
  <2>1. f.width \in 0..MbrReads[next].width
    BY <1>1, MbrFields
  <2> QED
    BY <1>1, <1>3, <2>1, WriteKeeps DEF WriteField
<1>5. \A i \in Kept : Holds(i)'
  BY <1>1, <1>3, <1>4, StillHolds DEF Stays
<1>6. NewPlaces'
  BY <1>1, <1>3 DEF NewPlaces, MbrReads, Kept
<1>7. next < 12 => next' \in 1..12 /\ pos' = MbrAt'[next']
  BY <1>1, <1>3 DEF MbrAt
<1> QED
  BY <1>1, <1>3, <1>4, <1>5, <1>6, <1>7 DEF BootInv

\* A write that fails part way has written a prefix of those bytes.
LEMMA WriteFailsStep ==
  ASSUME BootInv, kind = "mbr", WriteFieldFails
  PROVE  BootInv' /\ Stays
<1> DEFINE f == MbrReads[next]
<1>1. next \in 1..12 /\ doing = "write" /\ kind' = kind /\ doing' = "nothing"
  BY DEF BootInv, WriteFieldFails, Gone
<1>2. Writes = MbrReads /\ Source(f.name) = memory[f.name]
  BY <1>1, MbrNames DEF Writes, Source
<1>3. PICK done \in 0..(f.width - 1) :
        disk' = Overwritten(pos, Encoded(f, memory[f.name]), done)
  BY <1>2 DEF WriteFieldFails
<1>4. done \in 0..MbrReads[next].width
  BY <1>1, MbrFields
<1>5. disk' \in [SectorAddresses -> Byte] /\ Stays
  BY <1>1, <1>3, <1>4, WriteKeeps
<1> QED
  BY <1>1, <1>5 DEF BootInv

\* No other step writes to a boot sector.
LEMMA BootStep ==
  ASSUME BootInv, kind = "mbr", [Next]_vars
  PROVE  BootInv' /\ Stays
<1> USE DEF Stays
<1>1. CASE Exit
  <2>1. kind' = kind /\ disk' = disk /\ doing' = "nothing"
    BY <1>1 DEF Exit, Gone
  <2> QED
    BY <2>1 DEF BootInv
<1>2. CASE BeginRead
  <2>1. kind' = kind /\ disk' = disk /\ doing' = "read" /\ next' = 1 /\ pos' = 0
    BY <1>2 DEF BeginRead
  <2>2. MbrAt'[1] = 0
    BY DEF MbrAt
  <2> QED
    BY <2>1, <2>2 DEF BootInv
<1>3. CASE ReadField
  BY <1>3, ReadStep DEF ReadField
<1>4. CASE BeginWrite
  <2>1. /\ UNCHANGED <<kind, disk, memory, doing>> /\ doing = "write" /\ pos' = 0 /\ next' = 1
        /\ NewPlaces /\ \A i \in Kept : Holds(i)
    BY <1>4 DEF BeginWrite, BootInv
  <2>2. MbrAt'[1] = 0
    BY DEF MbrAt
  <2>3. \A i \in Kept : Holds(i)'
    BY <2>1, StillHolds
  <2>4. NewPlaces'
    BY <2>1 DEF NewPlaces, MbrReads, Kept
  <2> QED
    BY <2>1, <2>2, <2>3, <2>4 DEF BootInv
<1>5. CASE WriteField
  BY <1>5, WriteStep
<1>6. CASE WriteFieldFails
  BY <1>6, WriteFailsStep
<1>7. CASE UpdateMbr
  BY <1>7, UpdateStep
<1>8. CASE SumEntries \/ SumHeader
  BY <1>8 DEF SumEntries, SumHeader, BootInv
<1>9. CASE UNCHANGED vars
  <2>1. UNCHANGED <<kind, disk, pos, memory, doing, next>>
    BY <1>9 DEF vars
  <2>2. ASSUME NEW i \in 1..12
        PROVE  Holds(i)' <=> Holds(i)
    <3>1. Slice(MbrAt[i], MbrReads[i].width)' = Slice(MbrAt[i], MbrReads[i].width)
      BY <2>1 DEF Slice, MbrAt, MbrReads
    <3> QED
      BY <2>1, <3>1 DEF Holds, MbrAt, MbrReads, Encoded, Raw, U16, U64
  <2>3. NewPlaces' <=> NewPlaces
    BY <2>1 DEF NewPlaces, MbrReads, Kept
  <2>4. MbrAt' = MbrAt /\ Kept' = Kept /\ Kept \subseteq 1..12
    BY DEF MbrAt, Kept
  <2>5. next - 1 \in Nat /\ next \in 1..12 => 1..(next - 1) \subseteq 1..12
    OBVIOUS
  <2> QED
    BY <2>1, <2>2, <2>3, <2>4, <2>5 DEF BootInv
<1>10. ~(FormatHeader \/ SetDiskUuid \/ KeepHeader \/ SetEntryType \/ RefuseType \/ KeepEntry)
  BY Zenon DEF FormatHeader, SetDiskUuid, KeepHeader, SetEntryType, RefuseType, KeepEntry
<1> QED
  BY <1>1, <1>2, <1>3, <1>4, <1>5, <1>6, <1>7, <1>8, <1>9, <1>10 DEF Next

\* A record stays of its kind.
LEMMA KindStays ==
  ASSUME [Next]_vars
  PROVE  kind' = kind
BY DEF Next, vars, Exit, Gone, BeginRead, ReadField, BeginWrite, WriteField, WriteFieldFails,
       FormatHeader, SetDiskUuid, KeepHeader, SumEntries, SumHeader, PutAt, SetEntryType, RefuseType,
       KeepEntry, UpdateMbr

\* update_mbr_gpt, wherever it fails or is killed, leaves the boot code and
\* whatever else the boot sector holds: only the sectors and sector counts of
\* the stages change, with bytes of any number of values and code of any length.
THEOREM BootSectorAlwaysKept == Spec => BootSectorKept
<1>1. Init => BootInv
  BY FoundAssumption DEF Init, BootInv, SectorAddresses
<1>2. BootInv /\ [Next]_vars => BootInv'
  <2>1. CASE kind = "mbr"
    BY <2>1, BootStep
  <2>2. CASE kind # "mbr"
    BY <2>2, KindStays DEF BootInv
  <2> QED
    BY <2>1, <2>2
<1>3. BootInv /\ [Next]_vars =>
        [kind = "mbr" => \A a \in DOMAIN disk \ StagePlaces : disk'[a] = disk[a]]_vars
  <2> SUFFICES ASSUME BootInv, [Next]_vars, kind = "mbr"
               PROVE  \A a \in DOMAIN disk \ StagePlaces : disk'[a] = disk[a]
    OBVIOUS
  <2>1. DOMAIN disk = SectorAddresses
    BY DEF BootInv
  <2> QED
    BY <2>1, BootStep DEF Stays
<1> QED
  BY <1>1, <1>2, <1>3, PTL DEF Spec, BootSectorKept

(* -- Sets of numbers ------------------------------------------------------- *)

(* The library's induction theorems are about an operator.  That strict     *)
(* inclusion of finite sets is well-founded says the same about a set.      *)
LEMMA LeastNumber ==
  ASSUME NEW S \in SUBSET Nat, S # {}
  PROVE  \E m \in S : \A n \in S : m <= n
<1>1. PICK k \in S : TRUE
  OBVIOUS
<1>2. k \in Nat /\ k \in 0..k
  OBVIOUS
<1> DEFINE Below(m) == S \cap (0..m)
           T == {Below(m) : m \in S \cap (0..k)}
<1>3. IsFiniteSet(0..k)
  BY FS_Interval
<1>4. T \subseteq FiniteSubsetsOf(0..k) /\ T # {}
  <2>1. \A m \in S \cap (0..k) : Below(m) \subseteq 0..k
    OBVIOUS
  <2>2. \A m \in S \cap (0..k) : IsFiniteSet(Below(m))
    BY <1>3, <2>1, FS_Subset
  <2>3. Below(k) \in T
    BY <1>2
  <2> QED
    BY <2>1, <2>2, <2>3 DEF FiniteSubsetsOf
<1>5. PICK A \in T : \A B \in T : ~(<<B, A>> \in StrictSubsetOrdering(0..k))
  <2> HIDE DEF T
  <2> QED
    BY <1>3, <1>4, FS_StrictSubsetOrderingWellFounded, WFMin, Zenon
<1>6. PICK m \in S \cap (0..k) : A = Below(m)
  OBVIOUS
<1>7. ASSUME NEW n \in S, n < m
      PROVE  FALSE
  <2>1. /\ n \in S \cap (0..k) /\ Below(n) \subseteq Below(m)
        /\ m \in Below(m) /\ m \notin Below(n)
    BY <1>7
  <2>2. <<Below(n), Below(m)>> \in StrictSubsetOrdering(0..k)
    BY <2>1 DEF StrictSubsetOrdering
  <2> QED
    BY <1>5, <1>6, <2>1, <2>2
<1> QED
  BY <1>7

\* A set that holds 0, and with a number the next one, holds all up to N.
LEMMA NumbersUpTo ==
  ASSUME NEW N \in Nat, NEW P, 0 \in P,
         \A n \in 0..(N - 1) : n \in P => n + 1 \in P
  PROVE  0..N \subseteq P
<1> DEFINE S == (0..N) \ P
<1>1. ASSUME S # {}
      PROVE  FALSE
  <2>1. PICK m \in S : \A n \in S : m <= n
    <3>1. S \in SUBSET Nat
      OBVIOUS
    <3> HIDE DEF S
    <3> QED
      BY <1>1, <3>1, LeastNumber
  <2>2. m \in 1..N /\ m \notin P /\ m - 1 \in 0..(N - 1)
    OBVIOUS
  <2>3. m - 1 \in P
    BY <2>1, <2>2
  <2>4. (m - 1) + 1 = m
    BY <2>2
  <2> QED
    BY <2>2, <2>3, <2>4
<1> QED
  BY <1>1

(* -- Any record ------------------------------------------------------------ *)

\* The records by their kind: the fields that are written, of which those with
\* a name of their own come first, where they lie, and the bytes there are.
Kinds == {"header", "entry", "mbr"}
FieldsOf(k) == CASE k = "header" -> HeaderWrites
                 [] k = "entry"  -> EntryWrites
                 [] OTHER        -> MbrWrites
HeaderAt == <<0, 8, 12, 16, 20, 24, 32, 40, 48, 56, 72, 80, 84, 88, 92, SectorBytes>>
EntryAt == <<0, 16, 32, 40, 48, 56, 56 + NameBytes>>
AtOf(k) == CASE k = "header" -> HeaderAt
             [] k = "entry"  -> EntryAt
             [] OTHER        -> MbrAt
Count(k) == CASE k = "header" -> 15 [] k = "entry" -> 6 [] OTHER -> 12
Named(k) == CASE k = "header" -> 14 [] k = "entry" -> 6 [] OTHER -> 12
SizeOf(k) == CASE k = "header" -> SectorBytes
               [] k = "entry"  -> NameBytes + 56
               [] OTHER        -> CodeBytes + 36
NameOf(k, n) == FieldsOf(k)[n].name
Width(k, n) == FieldsOf(k)[n].width
At(k, n) == AtOf(k)[n]

IsField(f) == f.width \in Nat /\ (f.array \/ f.width \in {2, 4, 8})

\* Each kind by itself.
LEMMA OfKind ==
  /\ AtOf("header") = HeaderAt /\ FieldsOf("header") = HeaderWrites
  /\ AtOf("entry") = EntryAt /\ FieldsOf("entry") = EntryWrites
  /\ AtOf("mbr") = MbrAt /\ FieldsOf("mbr") = MbrWrites
  /\ Count("header") = 15 /\ Count("entry") = 6 /\ Count("mbr") = 12
  /\ Named("header") = 14 /\ Named("entry") = 6 /\ Named("mbr") = 12
  /\ SizeOf("header") = SectorBytes /\ SizeOf("entry") = NameBytes + 56
  /\ SizeOf("mbr") = CodeBytes + 36
<1>1. "header" # "entry" /\ "header" # "mbr" /\ "entry" # "mbr"
  OBVIOUS
<1> QED
  BY <1>1, Zenon DEF AtOf, FieldsOf, Count, Named, SizeOf

\* A field of some layout follows the other and ends in front of the size.
Follows(fields, at, n, size) ==
  /\ IsField(fields[n])
  /\ at[n] \in Nat /\ fields[n].width \in Nat
  /\ at[n + 1] = at[n] + fields[n].width
  /\ at[n] + fields[n].width <= size

LEMMA FieldsFollow ==
  ASSUME NEW k \in Kinds, NEW n \in 1..Count(k)
  PROVE  /\ IsField(FieldsOf(k)[n])
         /\ At(k, n) \in Nat /\ Width(k, n) \in Nat
         /\ At(k, n + 1) = At(k, n) + Width(k, n)
         /\ At(k, n) + Width(k, n) <= SizeOf(k)
<1>1. \A m \in 1..15 : Follows(HeaderWrites, HeaderAt, m, SectorBytes)
  <2>1. \A m \in 1..15 : IsField(HeaderWrites[m])
    BY SizesAssumption DEF IsField, HeaderWrites, Raw, U32, U64
  <2>2. \A m \in 1..15 : /\ HeaderAt[m] \in Nat /\ HeaderWrites[m].width \in Nat
                          /\ HeaderAt[m + 1] = HeaderAt[m] + HeaderWrites[m].width
                          /\ HeaderAt[m] + HeaderWrites[m].width <= SectorBytes
    BY SizesAssumption DEF HeaderAt, HeaderWrites, Raw, U32, U64
  <2> QED
    BY <2>1, <2>2, Zenon DEF Follows
<1>2. \A m \in 1..6 : Follows(EntryWrites, EntryAt, m, NameBytes + 56)
  <2>1. \A m \in 1..6 : IsField(EntryWrites[m])
    BY SizesAssumption DEF IsField, EntryWrites, Raw, U64
  <2>2. \A m \in 1..6 : /\ EntryAt[m] \in Nat /\ EntryWrites[m].width \in Nat
                         /\ EntryAt[m + 1] = EntryAt[m] + EntryWrites[m].width
                         /\ EntryAt[m] + EntryWrites[m].width <= NameBytes + 56
    BY SizesAssumption DEF EntryAt, EntryWrites, Raw, U64
  <2> QED
    BY <2>1, <2>2, Zenon DEF Follows
<1>3. \A m \in 1..12 : Follows(MbrWrites, MbrAt, m, CodeBytes + 36)
  <2>1. \A m \in 1..12 : IsField(MbrWrites[m])
    BY SizesAssumption DEF IsField, MbrWrites, Raw, U16, U64
  <2>2. \A m \in 1..12 : /\ MbrAt[m] \in Nat /\ MbrWrites[m].width \in Nat
                          /\ MbrAt[m + 1] = MbrAt[m] + MbrWrites[m].width
                          /\ MbrAt[m] + MbrWrites[m].width <= CodeBytes + 36
    BY SizesAssumption DEF MbrAt, MbrWrites, Raw, U16, U64
  <2> QED
    BY <2>1, <2>2, Zenon DEF Follows
<1>4. Follows(FieldsOf(k), AtOf(k), n, SizeOf(k))
  BY <1>1, <1>2, <1>3, OfKind, Zenon DEF Kinds
<1> QED
  BY <1>4 DEF Follows, At, Width

\* Two fields lie apart.
LEMMA FieldsApart ==
  ASSUME NEW k \in Kinds, NEW m \in 1..Count(k), NEW n \in 1..Count(k), m < n
  PROVE  At(k, m) + Width(k, m) <= At(k, n)
<1>1. Count(k) \in Nat
  BY DEF Count
<1> DEFINE P == {h \in 0..Count(k) : m < h => At(k, m) + Width(k, m) <= At(k, h)}
<1>2. 0 \in P
  BY <1>1
<1>3. ASSUME NEW h \in 0..(Count(k) - 1), h \in P
      PROVE  h + 1 \in P
  <2>1. CASE m < h
    <3>1. h \in 1..Count(k) /\ At(k, m) + Width(k, m) <= At(k, h)
      BY <1>1, <1>3, <2>1
    <3>2. /\ At(k, h + 1) = At(k, h) + Width(k, h)
          /\ At(k, h) \in Nat /\ Width(k, h) \in Nat /\ At(k, m) \in Nat /\ Width(k, m) \in Nat
      BY <3>1, FieldsFollow
    <3>3. At(k, m) + Width(k, m) <= At(k, h + 1)
      BY <3>1, <3>2
    <3> QED
      BY <1>1, <3>3
  <2>2. CASE m = h
    <3>1. At(k, h + 1) = At(k, m) + Width(k, m) /\ At(k, m) \in Nat /\ Width(k, m) \in Nat
      BY <2>2, FieldsFollow
    <3> QED
      BY <1>1, <3>1
  <2>3. CASE ~(m < h) /\ m # h
    BY <1>1, <2>3
  <2> QED
    BY <2>1, <2>2, <2>3
<1>4. 0..Count(k) \subseteq P
  <2> HIDE DEF P
  <2> QED
    BY <1>1, <1>2, <1>3, NumbersUpTo
<1> QED
  BY <1>1, <1>4

\* And have names of their own.
LEMMA NamesApart ==
  ASSUME NEW k \in Kinds, NEW m \in 1..Count(k), NEW n \in 1..Count(k),
         NameOf(k, m) = NameOf(k, n)
  PROVE  m = n
<1> USE DEF NameOf, FieldsOf, Count
<1>1. CASE k = "header"
  BY <1>1 DEF HeaderWrites, Raw, U32, U64
<1>2. CASE k = "entry"
  BY <1>2 DEF EntryWrites, Raw, U64
<1>3. CASE k = "mbr"
  BY <1>3 DEF MbrWrites, Raw, U16, U64
<1> QED
  BY <1>1, <1>2, <1>3 DEF Kinds

\* What is read are the fields that are written, but for the rest of the sector.
ReadsOf(k) == CASE k = "header" -> HeaderReads
                [] k = "entry"  -> EntryReads
                [] OTHER        -> MbrReads
LEMMA ReadsAreWrites ==
  ASSUME NEW k \in Kinds
  PROVE  /\ Len(ReadsOf(k)) = Named(k) /\ Len(FieldsOf(k)) = Count(k)
         /\ DOMAIN ReadsOf(k) = 1..Named(k) /\ DOMAIN FieldsOf(k) = 1..Count(k)
         /\ Named(k) \in 1..Count(k) /\ Count(k) \in Nat
         /\ \A n \in 1..Named(k) : ReadsOf(k)[n] = FieldsOf(k)[n]
         /\ k # "header" => Named(k) = Count(k)
<1> USE DEF ReadsOf, FieldsOf, Named, Count
<1>1. CASE k = "header"
  BY <1>1 DEF HeaderReads, HeaderWrites
<1>2. CASE k = "entry"
  BY <1>2 DEF EntryReads, EntryWrites
<1>3. CASE k = "mbr"
  BY <1>3 DEF MbrReads, MbrWrites
<1> QED
  BY <1>1, <1>2, <1>3 DEF Kinds

\* A number and one that counts multiples of what is above it.
LEMMA TwoDigits ==
  ASSUME NEW m \in Nat, NEW n \in Nat, NEW a \in 0..(m - 1), NEW b \in 0..(n - 1)
  PROVE  a + m * b \in 0..(m * n - 1) /\ m * n \in Nat
<1>1. m * b <= m * (n - 1)
  OBVIOUS
<1>2. m * (n - 1) = m * n - m
  OBVIOUS
<1>3. m * b \in Nat /\ m * n \in Nat /\ a + m * b \in Nat
  OBVIOUS
<1> QED
  BY <1>1, <1>2, <1>3

\* Bytes, as a number, fit as many bytes.
LEMMA DecodedFits ==
  ASSUME NEW b, \A n \in 1..8 : b[n] \in Byte
  PROVE  /\ decode_uint16(b) \in 0..(Above(2) - 1)
         /\ decode_uint32(b) \in 0..(Above(4) - 1)
         /\ decode_uint64(b) \in 0..(Above(8) - 1)
<1>1. Base \in Nat /\ \A n \in 1..8 : b[n] \in 0..(Base - 1)
  BY BaseAssumption DEF Byte
<1>2. PICK m \in Nat : m = Base * Base
  BY <1>1
<1>3. PICK n \in Nat : n = m * m
  BY <1>2
<1>4. Above(2) = m /\ Above(4) = n /\ Above(8) = n * n
  <2>1. Base * Base * Base * Base = (Base * Base) * (Base * Base)
    BY <1>1
  <2>2. Base * Base * Base * Base * Base * Base * Base * Base
          = ((Base * Base) * (Base * Base)) * ((Base * Base) * (Base * Base))
    BY <1>1
  <2> QED
    BY <1>2, <1>3, <2>1, <2>2 DEF Above
<1>5. ASSUME NEW x \in 0..(Base - 1), NEW y \in 0..(Base - 1)
      PROVE  decode_uint16(<<x, y>>) \in 0..(m - 1) /\ decode_uint16(<<x, y>>) = x + Base * y
  BY <1>1, <1>2, TwoDigits DEF decode_uint16
<1>6. ASSUME NEW x \in 0..(Base - 1), NEW y \in 0..(Base - 1),
             NEW z \in 0..(Base - 1), NEW u \in 0..(Base - 1)
      PROVE  decode_uint32(<<x, y, z, u>>) \in 0..(n - 1)
  <2>1. PICK low \in 0..(m - 1), high \in 0..(m - 1) :
          low = x + Base * y /\ high = decode_uint16(<<z, u>>)
    BY <1>5
  <2>2. decode_uint32(<<x, y, z, u>>) = low + m * high
    BY <1>2, <2>1 DEF decode_uint32, decode_uint16
  <2>3. low + m * high \in 0..(m * m - 1)
    BY TwoDigits
  <2> QED
    BY <1>3, <2>2, <2>3
<1>7. decode_uint16(b) = decode_uint16(<<b[1], b[2]>>)
  BY DEF decode_uint16
<1>8. decode_uint32(b) = decode_uint32(<<b[1], b[2], b[3], b[4]>>)
  BY DEF decode_uint32, decode_uint16
<1>9. decode_uint32(b) \in 0..(n - 1)
  BY <1>1, <1>6, <1>8
<1>10. decode_uint64(b) \in 0..(n * n - 1)
  <2>1. PICK low \in 0..(n - 1), high \in 0..(n - 1) :
          low = decode_uint32(b) /\ high = decode_uint32(<<b[5], b[6], b[7], b[8]>>)
    <3>1. decode_uint32(<<b[5], b[6], b[7], b[8]>>) \in 0..(n - 1)
      BY <1>1, <1>6
    <3> QED
      BY <1>9, <3>1
  <2>2. Base * Base * Base * Base = n
    <3>1. Base * Base * Base * Base = (Base * Base) * (Base * Base)
      BY <1>1
    <3> QED
      BY <1>2, <1>3, <3>1
  <2>3. decode_uint64(b) = low + n * high
    BY <2>1, <2>2 DEF decode_uint64
  <2> QED
    BY <2>3, TwoDigits
<1>11. decode_uint16(b) \in 0..(m - 1)
  BY <1>1, <1>5, <1>7
<1> QED
  BY <1>4, <1>9, <1>10, <1>11

\* A number by its lowest bytes and what is above them.
LEMMA LowestBytes ==
  ASSUME NEW n \in Nat
  PROVE  /\ From16(n) \in Nat /\ From32(n) \in Nat
         /\ n = decode_uint16(encode_uint16(n)) + Base * Base * From16(n)
         /\ n = decode_uint32(encode_uint32(n)) + Base * Base * Base * Base * From32(n)
<1>1. Base \in Nat /\ Base >= 2
  BY BaseAssumption
<1>2. PICK m \in Nat : m = Base * Base /\ m > 0
  BY <1>1
<1>3. ASSUME NEW h \in Nat
      PROVE  /\ From16(h) \in Nat
             /\ h = decode_uint16(encode_uint16(h)) + m * From16(h)
  <2>1. PICK q \in Nat, r \in 0..(m - 1) : h = m * q + r
    <3>1. h \div m \in Nat /\ h % m \in 0..(m - 1) /\ h = m * (h \div m) + (h % m)
      BY <1>2
    <3> QED
      BY <3>1
  <2>2. PICK x \in Byte, y \in Nat : r = x + Base * y
    <3>1. r \div Base \in Nat /\ r % Base \in 0..(Base - 1) /\ r = Base * (r \div Base) + (r % Base)
      BY <1>1, <1>2
    <3>2. r % Base \in Byte
      BY <3>1 DEF Byte
    <3>3. r = (r % Base) + Base * (r \div Base)
      BY <1>1, <3>1
    <3> QED
      BY <3>1, <3>2, <3>3
  <2>3. y \in Byte
    <3>1. CASE y >= Base
      <4>1. Base * y >= Base * Base
        BY <1>1, <3>1
      <4> QED
        BY <1>1, <1>2, <2>2, <4>1 DEF Byte
    <3> QED
      BY <1>1, <3>1 DEF Byte
  <2>4. h = x + Base * y + Base * Base * q
    BY <1>1, <1>2, <2>1, <2>2 DEF Byte
  <2>5. encode_uint16(h) = <<x, y>> /\ From16(h) = q
    BY <2>3, <2>4, Low16
  <2>6. decode_uint16(encode_uint16(h)) = r
    BY <2>2, <2>5 DEF decode_uint16
  <2> QED
    BY <1>2, <2>1, <2>5, <2>6
<1>4. PICK high \in Nat : high = From16(n)
  BY <1>3
<1>5. From32(n) = From16(high) /\ From32(n) \in Nat
  BY <1>3, <1>4 DEF From32
<1>6. decode_uint32(encode_uint32(n))
        = decode_uint16(encode_uint16(n)) + m * decode_uint16(encode_uint16(high))
  <2>1. encode_uint32(n) = <<encode_uint16(n)[1], encode_uint16(n)[2],
                             encode_uint16(high)[1], encode_uint16(high)[2]>>
    BY <1>4 DEF encode_uint32
  <2> QED
    BY <1>2, <2>1 DEF decode_uint32, decode_uint16
<1>7. PICK low \in Int, mid \in Int, top \in Nat :
        /\ low = decode_uint16(encode_uint16(n)) /\ mid = decode_uint16(encode_uint16(high))
        /\ top = From32(n)
  <2>1. \A h \in Nat : decode_uint16(encode_uint16(h)) \in Int
    <3>1. \A h \in Nat : decode_uint16(encode_uint16(h)) = (h % Base) + Base * ((h \div Base) % Base)
      BY DEF decode_uint16, encode_uint16, ByteOf
    <3> QED
      BY <1>1, <3>1
  <2> QED
    BY <1>5, <2>1
<1>8. n = low + m * high /\ high = mid + m * top
  BY <1>3, <1>4, <1>5, <1>7
<1>9. m * high = m * mid + m * (m * top)
  BY <1>8
<1>10. Base * Base * Base * Base * top = m * (m * top)
  BY <1>1, <1>2
<1>11. n = decode_uint32(encode_uint32(n)) + Base * Base * Base * Base * From32(n)
  BY <1>6, <1>7, <1>8, <1>9, <1>10
<1> QED
  BY <1>2, <1>3, <1>5, <1>11

\* A number that fits its bytes comes back from them.
LEMMA NumbersComeBack ==
  ASSUME NEW width \in {2, 4, 8}, NEW n \in 0..(Above(width) - 1)
  PROVE  /\ width = 2 => decode_uint16(encode_uint16(n)) = n
         /\ width = 4 => decode_uint32(encode_uint32(n)) = n
         /\ width = 8 => decode_uint64(encode_uint64(n)) = n
<1>1. ASSUME NEW d \in Nat, NEW q \in Nat, NEW m \in Nat, n = d + m * q, n < m
      PROVE  d = n
  <2>1. CASE q >= 1
    <3>1. m * q >= m
      BY <2>1
    <3>2. m * q \in Nat
      OBVIOUS
    <3> QED
      BY <1>1, <3>1, <3>2
  <2>2. CASE q = 0
    BY <1>1, <2>2
  <2> QED
    BY <2>1, <2>2
<1>2. Base \in Nat /\ n \in Nat /\ Above(width) \in Nat /\ n < Above(width)
  BY BaseAssumption DEF Above
<1>3. /\ From16(n) \in Nat /\ From32(n) \in Nat
      /\ n = decode_uint16(encode_uint16(n)) + Base * Base * From16(n)
      /\ n = decode_uint32(encode_uint32(n)) + Base * Base * Base * Base * From32(n)
  BY <1>2, LowestBytes
<1>4. PICK high \in Nat : high = From32(n)
  BY <1>3
<1>5. /\ From32(high) \in Nat
      /\ high = decode_uint32(encode_uint32(high)) + Base * Base * Base * Base * From32(high)
  BY LowestBytes
<1>6. /\ decode_uint16(encode_uint16(n)) \in Nat
      /\ decode_uint32(encode_uint32(n)) \in Nat
      /\ decode_uint32(encode_uint32(high)) \in Nat
  <2>1. \A h \in Nat : /\ encode_uint32(h) \in [1..4 -> Byte]
                        /\ encode_uint16(h) \in [1..2 -> Byte]
    BY NumbersAreBytes
  <2>2. \A b \in [1..4 -> Byte] : decode_uint32(b) \in Nat
    BY Low32, 0 \in Nat
  <2>3. \A b \in [1..2 -> Byte] : decode_uint16(b) \in Nat
    BY Decode16 DEF decode_uint16
  <2> QED
    BY <1>2, <2>1, <2>2, <2>3
<1>7. CASE width = 2
  BY <1>1, <1>2, <1>3, <1>6, <1>7 DEF Above
<1>8. CASE width = 4
  BY <1>1, <1>2, <1>3, <1>6, <1>8 DEF Above
<1>9. CASE width = 8
  <2>1. PICK low \in Nat, mid \in Nat, top \in Nat :
          /\ low = decode_uint32(encode_uint32(n)) /\ mid = decode_uint32(encode_uint32(high))
          /\ top = From32(high)
    BY <1>5, <1>6
  <2>2. decode_uint64(encode_uint64(n)) = low + Base * Base * Base * Base * mid
    <3>1. encode_uint64(n) = <<encode_uint32(n)[1], encode_uint32(n)[2],
                               encode_uint32(n)[3], encode_uint32(n)[4],
                               encode_uint32(high)[1], encode_uint32(high)[2],
                               encode_uint32(high)[3], encode_uint32(high)[4]>>
      BY <1>4 DEF encode_uint64
    <3>2. decode_uint32(encode_uint64(n)) = decode_uint32(encode_uint32(n))
      BY <3>1 DEF decode_uint32, decode_uint16
    <3>3. decode_uint32(<<encode_uint64(n)[5], encode_uint64(n)[6],
                          encode_uint64(n)[7], encode_uint64(n)[8]>>)
            = decode_uint32(encode_uint32(high))
      BY <3>1 DEF decode_uint32, decode_uint16
    <3> QED
      BY <2>1, <3>2, <3>3, Zenon DEF decode_uint64
  <2>3. PICK m \in Nat : m = Base * Base * Base * Base
    BY <1>2
  <2>4. n = low + m * high /\ high = mid + m * top
    BY <1>3, <1>4, <1>5, <2>1, <2>3
  <2>5. Above(8) = m * m
    <3>1. Base * Base * Base * Base * Base * Base * Base * Base
            = (Base * Base * Base * Base) * (Base * Base * Base * Base)
      BY <1>2
    <3> QED
      BY <2>3, <3>1 DEF Above
  <2>6. m * high = m * mid + (m * m) * top
    BY <2>4
  <2>7. low + m * mid \in Nat /\ m * m \in Nat /\ n = (low + m * mid) + (m * m) * top
    BY <2>4, <2>6
  <2>8. n < m * m
    BY <1>2, <1>9, <2>5
  <2>9. low + m * mid = n
    <3>1. PICK d \in Nat, mm \in Nat : d = low + m * mid /\ mm = m * m
      BY <2>7
    <3>2. n = d + mm * top /\ n < mm
      BY <2>7, <2>8, <3>1
    <3> QED
      BY <1>1, <3>1, <3>2
  <2> QED
    BY <1>9, <2>2, <2>3, <2>9
<1> QED
  BY <1>7, <1>8, <1>9

(* -- Fields as bytes ------------------------------------------------------- *)

\* What fits a field is as many bytes, and comes back from them.
LEMMA FieldEncoded ==
  ASSUME NEW f, IsField(f), NEW v, Fits(f, v)
  PROVE  Encoded(f, v) \in [1..f.width -> Byte] /\ Decoded(f, Encoded(f, v)) = v
<1>1. CASE f.array
  BY <1>1, Zenon DEF Fits, Encoded, Decoded
<1>2. CASE ~f.array
  <2>1. f.width \in {2, 4, 8} /\ v \in 0..(Above(f.width) - 1)
    BY <1>2, Zenon DEF IsField, Fits
  <2>2. v \in Nat
    <3>1. Above(f.width) \in Int
      BY <2>1, BaseAssumption DEF Above
    <3> QED
      BY <2>1, <3>1
  <2>3. /\ encode_uint16(v) \in [1..2 -> Byte]
        /\ encode_uint32(v) \in [1..4 -> Byte]
        /\ encode_uint64(v) \in [1..8 -> Byte]
    BY <2>2, NumbersAreBytes
  <2>4. /\ f.width = 2 => decode_uint16(encode_uint16(v)) = v
        /\ f.width = 4 => decode_uint32(encode_uint32(v)) = v
        /\ f.width = 8 => decode_uint64(encode_uint64(v)) = v
    BY <2>1, NumbersComeBack
  <2>5. /\ f.width = 2 => \A w : Encoded(f, w) = encode_uint16(w) /\ Decoded(f, w) = decode_uint16(w)
        /\ f.width = 4 => \A w : Encoded(f, w) = encode_uint32(w) /\ Decoded(f, w) = decode_uint32(w)
        /\ f.width = 8 => \A w : Encoded(f, w) = encode_uint64(w) /\ Decoded(f, w) = decode_uint64(w)
    <3>1. 2 # 4 /\ 2 # 8 /\ 4 # 8
      OBVIOUS
    <3> QED
      BY <1>2, <3>1, Zenon DEF Encoded, Decoded
  <2> QED
    BY <2>1, <2>3, <2>4, <2>5, Zenon
<1> QED
  BY <1>1, <1>2

\* What is decoded from the bytes of a field fits it.
LEMMA FieldDecoded ==
  ASSUME NEW f, IsField(f), NEW b \in [1..f.width -> Byte]
  PROVE  Fits(f, Decoded(f, b))
<1>1. CASE f.array
  BY <1>1, Zenon DEF Fits, Decoded
<1>2. CASE ~f.array
  <2>1. f.width \in {2, 4, 8}
    BY <1>2 DEF IsField
  <2>2. PICK c : c = [n \in 1..8 |-> IF n <= f.width THEN b[n] ELSE 0]
    OBVIOUS
  <2>3. \A n \in 1..8 : c[n] \in Byte
    <3>1. 0 \in Byte
      BY BaseAssumption DEF Byte
    <3>2. PICK w \in Nat : w = f.width
      BY <2>1
    <3>3. b \in [1..w -> Byte] /\ c = [n \in 1..8 |-> IF n <= w THEN b[n] ELSE 0]
      BY <2>2, <3>2
    <3>4. ASSUME NEW h \in 1..8
          PROVE  c[h] \in Byte
      <4>1. c[h] = IF h <= w THEN b[h] ELSE 0
        BY <3>3
      <4>2. h <= w => h \in 1..w
        OBVIOUS
      <4>3. h \in 1..w => b[h] \in Byte
        BY <3>3
      <4> QED
        BY <3>1, <4>1, <4>2, <4>3, Zenon
    <3> QED
      BY <3>4
  <2>4. \A n \in 1..8 : n <= f.width => c[n] = b[n]
    BY <2>2
  <2>5. /\ f.width = 2 => decode_uint16(b) = decode_uint16(c)
        /\ f.width = 4 => decode_uint32(b) = decode_uint32(c)
        /\ f.width = 8 => decode_uint64(b) = decode_uint64(c)
    BY <2>4 DEF decode_uint16, decode_uint32, decode_uint64
  <2>6. /\ decode_uint16(c) \in 0..(Above(2) - 1)
        /\ decode_uint32(c) \in 0..(Above(4) - 1)
        /\ decode_uint64(c) \in 0..(Above(8) - 1)
    BY <2>3, DecodedFits
  <2>7. /\ f.width = 2 => Decoded(f, b) = decode_uint16(b)
        /\ f.width = 4 => Decoded(f, b) = decode_uint32(b)
        /\ f.width = 8 => Decoded(f, b) = decode_uint64(b)
    <3>1. 2 # 4 /\ 2 # 8 /\ 4 # 8
      OBVIOUS
    <3> QED
      BY <1>2, <3>1, Zenon DEF Decoded
  <2>8. Decoded(f, b) \in 0..(Above(f.width) - 1)
    BY <2>1, <2>5, <2>6, <2>7, Zenon
  <2> QED
    BY <1>2, <2>8, Zenon DEF Fits
<1> QED
  BY <1>1, <1>2

(* -- Bytes of a record ----------------------------------------------------- *)

\* Slice and Overwritten of any bytes.
Part(d, at, n) == [m \in 1..n |-> d[at + m - 1]]
PutIn(d, at, b, done) ==
  [a \in DOMAIN d |-> IF at <= a /\ a < at + done THEN b[a - at + 1] ELSE d[a]]
Bytes(k) == [0..(SizeOf(k) - 1) -> Byte]
FieldIn(k, d, n) == Part(d, At(k, n), Width(k, n))

\* The bytes of a field.
LEMMA FieldBytes ==
  ASSUME NEW k \in Kinds, NEW d \in Bytes(k), NEW n \in 1..Count(k)
  PROVE  FieldIn(k, d, n) \in [1..Width(k, n) -> Byte]
<1>1. /\ At(k, n) \in Nat /\ Width(k, n) \in Nat /\ SizeOf(k) \in Nat
      /\ At(k, n) + Width(k, n) <= SizeOf(k)
  BY FieldsFollow, SizesAssumption DEF SizeOf
<1>2. \A m \in 1..Width(k, n) : At(k, n) + m - 1 \in 0..(SizeOf(k) - 1)
  BY <1>1
<1> QED
  BY <1>1, <1>2 DEF FieldIn, Part, Bytes

\* Writing a field, or the first bytes of it, leaves the bytes of all others.
LEMMA FieldWritten ==
  ASSUME NEW k \in Kinds, NEW d \in Bytes(k), NEW n \in 1..Count(k),
         NEW b \in [1..Width(k, n) -> Byte], NEW done \in 0..Width(k, n),
         NEW e, e = PutIn(d, At(k, n), b, done)
  PROVE  /\ e \in Bytes(k)
         /\ \A m \in 1..Count(k) : m # n => FieldIn(k, e, m) = FieldIn(k, d, m)
         /\ done = Width(k, n) => FieldIn(k, e, n) = b
         /\ \A a \in 0..(SizeOf(k) - 1) :
              ~(At(k, n) <= a /\ a < At(k, n) + Width(k, n)) => e[a] = d[a]
<1>1. /\ At(k, n) \in Nat /\ Width(k, n) \in Nat /\ SizeOf(k) \in Nat
      /\ At(k, n) + Width(k, n) <= SizeOf(k)
  BY FieldsFollow, SizesAssumption DEF SizeOf
<1>2. PICK at \in Nat, width \in Nat, size \in Nat :
        at = At(k, n) /\ width = Width(k, n) /\ size = SizeOf(k)
  BY <1>1
<1>3. d \in [0..(size - 1) -> Byte] /\ b \in [1..width -> Byte] /\ done \in 0..width
  BY <1>2 DEF Bytes
<1>4. e = [a \in 0..(size - 1) |-> IF at <= a /\ a < at + done THEN b[a - at + 1] ELSE d[a]]
  BY <1>2, <1>3 DEF PutIn
<1>5. \A a \in 0..(size - 1) : ~(at <= a /\ a < at + width) => e[a] = d[a]
  BY <1>3, <1>4
<1>6. e \in [0..(size - 1) -> Byte]
  <2>1. ASSUME NEW a \in 0..(size - 1), at <= a, a < at + done
        PROVE  b[a - at + 1] \in Byte
    <3>1. a - at + 1 \in 1..width
      BY <1>3, <2>1
    <3> QED
      BY <1>3, <3>1
  <2> QED
    BY <1>3, <1>4, <2>1
<1>7. ASSUME NEW m \in 1..Count(k), m # n
      PROVE  FieldIn(k, e, m) = FieldIn(k, d, m)
  <2>1. PICK there \in Nat, w \in Nat : /\ there = At(k, m) /\ w = Width(k, m)
                                       /\ there + w <= size
    BY <1>2, FieldsFollow
  <2>2. there + w <= at \/ at + width <= there
    <3>1. Count(k) \in Nat
      BY DEF Count
    <3>2. m < n => At(k, m) + Width(k, m) <= At(k, n)
      BY FieldsApart
    <3>3. n < m => At(k, n) + Width(k, n) <= At(k, m)
      BY FieldsApart
    <3> QED
      BY <1>2, <1>7, <2>1, <3>1, <3>2, <3>3
  <2>3. ASSUME NEW h \in 1..w
        PROVE  e[there + h - 1] = d[there + h - 1]
    <3>1. there + h - 1 \in 0..(size - 1) /\ ~(at <= there + h - 1 /\ there + h - 1 < at + width)
      BY <2>1, <2>2
    <3> QED
      BY <1>5, <3>1
  <2> QED
    BY <2>1, <2>3 DEF FieldIn, Part
<1>8. ASSUME done = width
      PROVE  FieldIn(k, e, n) = b
  <2>1. at + width <= size
    BY <1>1, <1>2
  <2>2. ASSUME NEW h \in 1..width
        PROVE  e[at + h - 1] = b[h]
    <3>1. at + h - 1 \in 0..(size - 1) /\ at <= at + h - 1 /\ at + h - 1 < at + done
          /\ (at + h - 1) - at + 1 = h
      BY <1>8, <2>1
    <3> QED
      BY <1>4, <3>1
  <2>3. FieldIn(k, e, n) = [h \in 1..width |-> e[at + h - 1]]
    BY <1>2 DEF FieldIn, Part
  <2> QED
    BY <1>3, <2>2, <2>3
<1> QED
  BY <1>2, <1>5, <1>6, <1>7, <1>8 DEF Bytes

(* -- Records by the names of their fields ---------------------------------- *)

\* The recursion that adds up widths gives the places.
LEMMA PlacesAre ==
  ASSUME NEW fields, NEW N \in Nat, Len(fields) = N, NEW at, at[1] = 0,
         \A n \in 1..N : at[n + 1] = at[n] + fields[n].width
  PROVE  \A n \in 1..N : PlacesOf(fields)[n] = at[n]
<1> DEFINE IsPlaces(p) ==
             p = [n \in 1..N |-> IF n = 1 THEN 0 ELSE p[n - 1] + fields[n - 1].width]
<1>1. PlacesOf(fields) = CHOOSE p : IsPlaces(p)
  BY DEF PlacesOf
<1>2. IsPlaces([n \in 1..N |-> at[n]])
  <2>1. ASSUME NEW n \in 1..N, n # 1
        PROVE  at[n] = at[n - 1] + fields[n - 1].width
    <3>1. n - 1 \in 1..N /\ (n - 1) + 1 = n
      BY <2>1
    <3> QED
      BY <3>1
  <2> QED
    BY <2>1
<1>3. IsPlaces(PlacesOf(fields))
  <2> HIDE DEF IsPlaces
  <2> QED
    BY <1>1, <1>2
<1>4. PICK p : p = PlacesOf(fields)
  OBVIOUS
<1>5. \A n \in 1..N : p[n] = IF n = 1 THEN 0 ELSE p[n - 1] + fields[n - 1].width
  BY <1>3, <1>4
<1> DEFINE P == {n \in 0..N : n = 0 \/ p[n] = at[n]}
<1>6. 0 \in P
  OBVIOUS
<1>7. ASSUME NEW n \in 0..(N - 1), n \in P
      PROVE  n + 1 \in P
  <2>1. n + 1 \in 1..N /\ (n + 1) - 1 = n
    OBVIOUS
  <2>2. p[n + 1] = IF n + 1 = 1 THEN 0 ELSE p[n] + fields[n].width
    BY <1>5, <2>1
  <2>3. CASE n = 0
    BY <2>1, <2>2, <2>3
  <2>4. CASE n # 0
    <3>1. n \in 1..N /\ n + 1 # 1 /\ p[n] = at[n]
      BY <1>7, <2>4
    <3> QED
      BY <2>1, <2>2, <3>1
  <2> QED
    BY <2>3, <2>4
<1>8. 0..N \subseteq P
  <2> HIDE DEF P
  <2> QED
    BY <1>6, <1>7, NumbersUpTo
<1> QED
  BY <1>4, <1>8

\* A name leads to its field.
LEMMA IndexIs ==
  ASSUME NEW fields, NEW N \in Nat, DOMAIN fields = 1..N,
         \A m, n \in 1..N : fields[m].name = fields[n].name => m = n
  PROVE  /\ DOMAIN IndexOf(fields) = {fields[n].name : n \in 1..N}
         /\ \A n \in 1..N : IndexOf(fields)[fields[n].name] = n
<1>1. {f.name : f \in Range(fields)} = {fields[n].name : n \in 1..N}
  BY DEF Range
<1>2. IndexOf(fields) = [name \in {fields[n].name : n \in 1..N} |->
                           CHOOSE i \in 1..N : fields[i].name = name]
  BY <1>1 DEF IndexOf
<1>3. ASSUME NEW n \in 1..N
      PROVE  IndexOf(fields)[fields[n].name] = n
  <2>1. (CHOOSE i \in 1..N : fields[i].name = fields[n].name) = n
    OBVIOUS
  <2>2. fields[n].name \in {fields[m].name : m \in 1..N}
    OBVIOUS
  <2> QED
    BY <1>2, <2>1, <2>2
<1> QED
  BY <1>2, <1>3

\* Stored, of any record and bytes.
PlacesIn(k) == CASE k = "header" -> HeaderPlaces
                 [] k = "entry"  -> EntryPlaces
                 [] OTHER        -> MbrPlaces
IndexIn(k) == CASE k = "header" -> HeaderIndex
                [] k = "entry"  -> EntryIndex
                [] OTHER        -> MbrIndex
StoredIn(k, d) == [name \in DOMAIN IndexIn(k) |->
                     LET f == ReadsOf(k)[IndexIn(k)[name]]
                     IN Decoded(f, Part(d, PlacesIn(k)[IndexIn(k)[name]], f.width))]

LEMMA StoredIs == /\ Stored = StoredIn(kind, disk) /\ Stored' = StoredIn(kind', disk')
                  /\ DOMAIN Index = DOMAIN IndexIn(kind) /\ (DOMAIN Index)' = DOMAIN IndexIn(kind')
BY Zenon DEF Stored, StoredIn, Index, IndexIn, Places, PlacesIn, Reads, ReadsOf, Slice, Part

NamesOf(k) == {NameOf(k, n) : n \in 1..Named(k)}

\* Each kind's places and index are those of what is read of it.
LEMMA ReadsPlaced ==
  ASSUME NEW k \in Kinds
  PROVE  PlacesIn(k) = PlacesOf(ReadsOf(k)) /\ IndexIn(k) = IndexOf(ReadsOf(k))
BY Zenon DEF Kinds, PlacesIn, IndexIn, ReadsOf, HeaderPlaces, EntryPlaces, MbrPlaces, HeaderIndex,
             EntryIndex, MbrIndex

\* Under the name of a field is what its bytes say.
LEMMA StoredAt ==
  ASSUME NEW k \in Kinds, NEW d
  PROVE  /\ DOMAIN StoredIn(k, d) = NamesOf(k) /\ DOMAIN IndexIn(k) = NamesOf(k)
         /\ \A n \in 1..Named(k) : StoredIn(k, d)[NameOf(k, n)] = Decoded(FieldsOf(k)[n], FieldIn(k, d, n))
<1> DEFINE N == Named(k)
           fields == ReadsOf(k)
<1>1. /\ N \in Nat /\ Len(fields) = N /\ DOMAIN fields = 1..N /\ N \in 1..Count(k) /\ Count(k) \in Nat
      /\ \A n \in 1..N : fields[n] = FieldsOf(k)[n]
  BY ReadsAreWrites
<1>2. \A n \in 1..N : n \in 1..Count(k)
  BY <1>1
<1>3. \A n \in 1..N : /\ fields[n].name = NameOf(k, n) /\ fields[n].width = Width(k, n)
  BY <1>1 DEF NameOf, Width
<1>4. \A m, n \in 1..N : fields[m].name = fields[n].name => m = n
  BY <1>2, <1>3, NamesApart
<1>5. DOMAIN IndexIn(k) = NamesOf(k) /\ \A n \in 1..N : IndexIn(k)[NameOf(k, n)] = n
  <2> HIDE DEF N, fields
  <2>1. /\ DOMAIN IndexOf(fields) = {fields[n].name : n \in 1..N}
        /\ \A n \in 1..N : IndexOf(fields)[fields[n].name] = n
    <3>1. N \in Nat /\ DOMAIN fields = 1..N
      BY <1>1
    <3> QED
      BY <1>4, <3>1, IndexIs, Zenon
  <2>2. {fields[n].name : n \in 1..N} = NamesOf(k)
    BY <1>3 DEF NamesOf, N
  <2>3. IndexIn(k) = IndexOf(fields)
    BY ReadsPlaced DEF fields
  <2> QED
    BY <1>3, <2>1, <2>2, <2>3
<1>6. \A n \in 1..N : PlacesIn(k)[n] = At(k, n)
  <2>1. AtOf(k)[1] = 0
    BY OfKind DEF Kinds, HeaderAt, EntryAt, MbrAt
  <2>2. \A n \in 1..N : AtOf(k)[n + 1] = AtOf(k)[n] + fields[n].width
    BY <1>2, <1>3, FieldsFollow DEF At
  <2>3. PlacesIn(k) = PlacesOf(fields)
    BY ReadsPlaced
  <2> HIDE DEF N, fields
  <2>4. \A n \in 1..N : PlacesOf(fields)[n] = AtOf(k)[n]
    <3>1. N \in Nat /\ Len(fields) = N
      BY <1>1, Zenon
    <3>2. PICK at : at = AtOf(k)
      OBVIOUS
    <3>3. at[1] = 0 /\ \A n \in 1..N : at[n + 1] = at[n] + fields[n].width
      BY <2>1, <2>2, <3>2, Zenon
    <3>4. \A n \in 1..N : PlacesOf(fields)[n] = at[n]
      BY <3>1, <3>3, PlacesAre
    <3> QED
      BY <3>2, <3>4, Zenon
  <2> QED
    BY <2>3, <2>4 DEF At
<1>7. ASSUME NEW n \in 1..N
      PROVE  StoredIn(k, d)[NameOf(k, n)] = Decoded(FieldsOf(k)[n], FieldIn(k, d, n))
  <2>1. NameOf(k, n) \in DOMAIN IndexIn(k) /\ IndexIn(k)[NameOf(k, n)] = n
    BY <1>5 DEF NamesOf
  <2>2. StoredIn(k, d)[NameOf(k, n)]
          = Decoded(ReadsOf(k)[n], Part(d, PlacesIn(k)[n], ReadsOf(k)[n].width))
    BY <2>1, Zenon DEF StoredIn
  <2>3. ReadsOf(k)[n] = FieldsOf(k)[n] /\ ReadsOf(k)[n].width = Width(k, n) /\ PlacesIn(k)[n] = At(k, n)
    BY <1>1, <1>3, <1>6
  <2> QED
    BY <2>2, <2>3, Zenon DEF FieldIn
<1> QED
  BY <1>5, <1>7, Zenon DEF StoredIn

(* -- What a record in memory and on the disk is ---------------------------- *)

\* What is in memory fits, the first n fields are there, and every field is
\* there to be written.
MemoryOK(k, m) == \A n \in 1..Named(k) :
                    NameOf(k, n) \in DOMAIN m => Fits(FieldsOf(k)[n], m[NameOf(k, n)])
HasTo(k, m, n) == \A i \in 1..n : NameOf(k, i) \in DOMAIN m
Wanted(k, m, n) == IF NameOf(k, n) \in DOMAIN Literals THEN Literals[NameOf(k, n)]
                                                       ELSE m[NameOf(k, n)]
CanWrite(k, m) == \A n \in 1..Count(k) : Fits(FieldsOf(k)[n], Wanted(k, m, n))

\* The checksum is field 4 of a header and that of the entries field 14.
HeadOf(d) == [n \in 1..92 |-> IF n \in 17..20 THEN 0 ELSE Part(d, 0, 92)[n]]
SumOfEntries(d) == \E sum \in Sums : FieldIn("header", d, 14) = encode_uint32(sum)

\* What a step of the program finds: the stream at the field that is next, what
\* it needs in memory, and the checksums as far as they are.
DoingOK(k, does, p, n, m) ==
  /\ does \in {"nothing", "read", "change", "write", "sum entries", "sum header", "done"}
  /\ does = "read" => n \in 1..Named(k) /\ p = At(k, n) /\ HasTo(k, m, n - 1)
  /\ does = "change" => HasTo(k, m, Named(k))
  /\ does = "write" => n \in 0..Count(k) /\ (n > 0 => p = At(k, n)) /\ CanWrite(k, m)
  /\ does \in {"sum entries", "sum header"} => k = "header"
SumsOK(k, does, n, d) ==
  k = "header" =>
    /\ (does = "write" /\ n > 4) \/ does \in {"sum entries", "sum header"} =>
         FieldIn(k, d, 4) = encode_uint32(0)
    /\ does \in {"sum header", "done"} => SumOfEntries(d)
    /\ does = "done" => FieldIn(k, d, 4) = encode_uint32(crc32(HeadOf(d)))

RecordInv ==
  /\ kind \in Kinds /\ disk \in Bytes(kind) /\ cuts \in 0..MaxCuts
  /\ pos \in 0..SizeOf(kind) /\ next \in 0..(Count(kind) + 1)
  /\ MemoryOK(kind, memory)
  /\ DoingOK(kind, doing, pos, next, memory)
  /\ SumsOK(kind, doing, next, disk)

\* Nothing is asked of a program that is gone.
LEMMA GoneOK ==
  ASSUME NEW k, NEW p, NEW n, NEW m, NEW d
  PROVE  DoingOK(k, "nothing", p, n, m) /\ SumsOK(k, "nothing", n, d) /\ MemoryOK(k, <<>>)
<1>1. MemoryOK(k, <<>>)
  BY DEF MemoryOK
<1>2. DoingOK(k, "nothing", p, n, m)
  BY DEF DoingOK
<1>3. SumsOK(k, "nothing", n, d)
  BY DEF SumsOK
<1> QED
  BY <1>1, <1>2, <1>3

\* The literals fit, and are of a header only.
LEMMA LiteralsAre ==
  ASSUME NEW k \in Kinds, NEW n \in 1..Count(k)
  PROVE  /\ k # "header" => NameOf(k, n) \notin DOMAIN Literals
         /\ NameOf(k, n) \in DOMAIN Literals => Fits(FieldsOf(k)[n], Literals[NameOf(k, n)])
         /\ n > Named(k) => NameOf(k, n) \in DOMAIN Literals
<1>1. /\ DOMAIN HeaderWrites = 1..15 /\ DOMAIN EntryWrites = 1..6 /\ DOMAIN MbrWrites = 1..12
      /\ HeaderWrites[15].name = "rest"
  BY DEF HeaderWrites, EntryWrites, MbrWrites, Raw
<1>2. CASE k = "header"
  <2>1. FieldsOf(k) = HeaderWrites /\ n \in 1..15 /\ Named(k) = 14
    BY <1>2, OfKind
  <2>2. NameOf(k, n) = HeaderWrites[n].name
    BY <2>1 DEF NameOf
  <2>3. NameOf(k, n) \in DOMAIN Literals => Fits(FieldsOf(k)[n], Literals[NameOf(k, n)])
    BY <1>1, <2>1, <2>2, LiteralsAssumption
  <2>4. n > 14 => n = 15
    BY <2>1
  <2> QED
    BY <1>1, <1>2, <2>1, <2>2, <2>3, <2>4, LiteralsAssumption
<1>3. CASE k = "entry"
  <2>1. FieldsOf(k) = EntryWrites /\ n \in 1..6 /\ Named(k) = 6
    BY <1>3, OfKind
  <2>2. NameOf(k, n) \notin DOMAIN Literals
    BY <1>1, <2>1, LiteralsAssumption DEF NameOf
  <2> QED
    BY <2>1, <2>2
<1>4. CASE k = "mbr"
  <2>1. FieldsOf(k) = MbrWrites /\ n \in 1..12 /\ Named(k) = 12
    BY <1>4, OfKind
  <2>2. NameOf(k, n) \notin DOMAIN Literals
    BY <1>1, <2>1, LiteralsAssumption DEF NameOf
  <2> QED
    BY <2>1, <2>2
<1> QED
  BY <1>2, <1>3, <1>4 DEF Kinds

\* A structure with all its fields can be written.
LEMMA ReadyToWrite ==
  ASSUME NEW k \in Kinds, NEW m, MemoryOK(k, m), HasTo(k, m, Named(k))
  PROVE  CanWrite(k, m)
<1> SUFFICES ASSUME NEW n \in 1..Count(k)
             PROVE  Fits(FieldsOf(k)[n], Wanted(k, m, n))
  BY DEF CanWrite
<1>1. CASE NameOf(k, n) \in DOMAIN Literals
  BY <1>1, LiteralsAre DEF Wanted
<1>2. CASE NameOf(k, n) \notin DOMAIN Literals
  <2>1. n \in 1..Named(k)
    <3>1. ~(n > Named(k)) /\ Named(k) \in Nat /\ Count(k) \in Nat
      BY <1>2, LiteralsAre, ReadsAreWrites
    <3> QED
      BY <3>1
  <2>2. Fits(FieldsOf(k)[n], m[NameOf(k, n)])
    BY <2>1 DEF MemoryOK, HasTo
  <2> QED
    BY <1>2, <2>2 DEF Wanted
<1> QED
  BY <1>1, <1>2

\* m with another value in field n.
FieldSet(k, m, n, v, other) ==
  /\ DOMAIN other = DOMAIN m \cup {NameOf(k, n)}
  /\ other[NameOf(k, n)] = v
  /\ \A name \in DOMAIN m : name # NameOf(k, n) => other[name] = m[name]

\* It fits if the value does, and has the fields that were there and this one.
LEMMA FieldSetOK ==
  ASSUME NEW k \in Kinds, NEW n \in 1..Named(k), NEW m, MemoryOK(k, m),
         NEW v, Fits(FieldsOf(k)[n], v), NEW other, FieldSet(k, m, n, v, other)
  PROVE  /\ MemoryOK(k, other)
         /\ HasTo(k, m, n - 1) => HasTo(k, other, n)
         /\ HasTo(k, m, Named(k)) => HasTo(k, other, Named(k))
<1>1. Named(k) \in 1..Count(k) /\ Count(k) \in Nat
  BY ReadsAreWrites
<1>2. ASSUME NEW i \in 1..Named(k), NameOf(k, i) \in DOMAIN other
      PROVE  Fits(FieldsOf(k)[i], other[NameOf(k, i)])
  <2>1. i \in 1..Count(k) /\ n \in 1..Count(k)
    BY <1>1
  <2>2. CASE i = n
    BY <2>2 DEF FieldSet
  <2>3. CASE i # n
    <3>1. NameOf(k, i) # NameOf(k, n)
      BY <2>1, <2>3, NamesApart
    <3>2. NameOf(k, i) \in DOMAIN m /\ other[NameOf(k, i)] = m[NameOf(k, i)]
      BY <1>2, <3>1 DEF FieldSet
    <3> QED
      BY <3>2 DEF MemoryOK
  <2> QED
    BY <2>2, <2>3
<1>3. MemoryOK(k, other)
  BY <1>2 DEF MemoryOK
<1>4. ASSUME HasTo(k, m, n - 1)
      PROVE  HasTo(k, other, n)
  <2>1. \A i \in 1..n : i = n \/ i \in 1..(n - 1)
    OBVIOUS
  <2> QED
    BY <1>4, <2>1, Zenon DEF HasTo, FieldSet
<1>5. HasTo(k, m, Named(k)) => HasTo(k, other, Named(k))
  BY Zenon DEF HasTo, FieldSet
<1> QED
  BY <1>3, <1>4, <1>5

(* -- What each step does to a record --------------------------------------- *)

\* Where the program is gone, all that has to be right are the bytes.
LEMMA GoneStep ==
  ASSUME RecordInv, Gone, disk' \in Bytes(kind), cuts' \in 0..MaxCuts, pos' \in 0..SizeOf(kind)
  PROVE  RecordInv'
<1>1. kind' = kind /\ next' = next /\ memory' = <<>> /\ doing' = "nothing"
  BY DEF Gone, Nothing
<1> QED
  BY <1>1, GoneOK, Zenon DEF RecordInv

LEMMA CutsStay == MaxCuts \in Nat /\ (RecordInv /\ (MayCut \/ UNCHANGED cuts) => cuts' \in 0..MaxCuts)
  BY BoundAssumption DEF RecordInv, MayCut

LEMMA ExitStep ==
  ASSUME RecordInv, Exit
  PROVE  RecordInv'
<1>1. Gone /\ disk' = disk /\ pos' = pos /\ (MayCut \/ UNCHANGED cuts)
  BY DEF Exit
<1> QED
  BY <1>1, CutsStay, GoneStep, Zenon DEF RecordInv

LEMMA BeginReadStep ==
  ASSUME RecordInv, BeginRead
  PROVE  RecordInv'
<1>1. /\ kind' = kind /\ disk' = disk /\ memory' = memory /\ cuts' = cuts
      /\ doing' = "read" /\ pos' = 0 /\ next' = 1
  BY DEF BeginRead
<1>2. kind \in Kinds /\ 1 \in 1..Named(kind) /\ 1 \in 0..(Count(kind) + 1) /\ 0 \in 0..SizeOf(kind)
  BY ReadsAreWrites, SizesAssumption DEF RecordInv, SizeOf
<1>3. At(kind, 1) = 0
  BY <1>2, OfKind DEF Kinds, At, HeaderAt, EntryAt, MbrAt
<1>4. DoingOK(kind, "read", 0, 1, memory)
  BY <1>2, <1>3 DEF DoingOK, HasTo
<1>5. SumsOK(kind, "read", 1, disk)
  BY DEF SumsOK
<1> QED
  BY <1>1, <1>2, <1>4, <1>5, Zenon DEF RecordInv

LEMMA BeginWriteStep ==
  ASSUME RecordInv, BeginWrite
  PROVE  RecordInv'
<1>1. /\ kind' = kind /\ disk' = disk /\ memory' = memory /\ cuts' = cuts
      /\ doing = "write" /\ doing' = "write" /\ pos' = 0 /\ next' = 1
  BY DEF BeginWrite
<1>2. /\ kind \in Kinds /\ 1 \in 0..Count(kind) /\ 1 \in 0..(Count(kind) + 1)
      /\ 0 \in 0..SizeOf(kind)
  BY ReadsAreWrites, SizesAssumption DEF RecordInv, SizeOf
<1>3. At(kind, 1) = 0
  BY <1>2, OfKind DEF Kinds, At, HeaderAt, EntryAt, MbrAt
<1>4. CanWrite(kind, memory)
  BY <1>1 DEF RecordInv, DoingOK
<1>5. DoingOK(kind, "write", 0, 1, memory)
  BY <1>2, <1>3, <1>4 DEF DoingOK
<1>6. SumsOK(kind, "write", 1, disk)
  BY DEF SumsOK
<1> QED
  BY <1>1, <1>2, <1>5, <1>6, Zenon DEF RecordInv

\* What a read step reads, by its kind.
LEMMA FieldRead ==
  ASSUME RecordInv, ReadField
  PROVE  /\ kind \in Kinds /\ next \in 1..Named(kind) /\ next \in 1..Count(kind)
         /\ FieldSet(kind, memory, next, Decoded(FieldsOf(kind)[next], FieldIn(kind, disk, next)), memory')
         /\ Fits(FieldsOf(kind)[next], Decoded(FieldsOf(kind)[next], FieldIn(kind, disk, next)))
         /\ pos' = At(kind, next + 1) /\ next' = next + 1
         /\ doing' = IF next = Named(kind) THEN "change" ELSE "read"
         /\ UNCHANGED <<kind, disk, cuts>>
<1>1. kind \in Kinds /\ next \in 1..Named(kind) /\ pos = At(kind, next) /\ disk \in Bytes(kind)
  BY DEF RecordInv, DoingOK, ReadField
<1>2. /\ Reads = ReadsOf(kind) /\ Len(ReadsOf(kind)) = Named(kind) /\ Reads[next] = FieldsOf(kind)[next]
      /\ Named(kind) \in 1..Count(kind) /\ Count(kind) \in Nat
  BY <1>1, ReadsAreWrites DEF Reads, ReadsOf
<1>3. next \in 1..Count(kind)
  BY <1>1, <1>2
<1>4. PICK f : f = FieldsOf(kind)[next]
  OBVIOUS
<1>5. f.width = Width(kind, next) /\ f.name = NameOf(kind, next) /\ IsField(f)
  BY <1>1, <1>3, <1>4, FieldsFollow DEF Width, NameOf
<1>6. Slice(pos, f.width) = FieldIn(kind, disk, next)
  BY <1>1, <1>5, Zenon DEF Slice, FieldIn, Part
<1>7. PICK v : v = Decoded(f, FieldIn(kind, disk, next))
  OBVIOUS
<1>8. memory' = With(f, v)
  BY <1>2, <1>4, <1>6, <1>7 DEF ReadField
<1>9. FieldSet(kind, memory, next, v, memory')
  BY <1>5, <1>8 DEF FieldSet, With
<1>10. Fits(f, v)
  <2>1. FieldIn(kind, disk, next) \in [1..f.width -> Byte]
    BY <1>1, <1>3, <1>5, FieldBytes
  <2> QED
    BY <1>5, <1>7, <2>1, FieldDecoded
<1>11. pos' = At(kind, next + 1)
  BY <1>1, <1>2, <1>3, <1>4, <1>5, FieldsFollow DEF ReadField
<1> QED
  BY <1>1, <1>2, <1>3, <1>4, <1>7, <1>9, <1>10, <1>11 DEF ReadField

LEMMA ReadFieldStep ==
  ASSUME RecordInv, ReadField
  PROVE  RecordInv'
<1>1. /\ kind \in Kinds /\ disk \in Bytes(kind) /\ MemoryOK(kind, memory) /\ cuts \in 0..MaxCuts
      /\ HasTo(kind, memory, next - 1)
  BY DEF RecordInv, DoingOK, ReadField
<1>2. /\ next \in 1..Named(kind) /\ next \in 1..Count(kind)
      /\ pos' = At(kind, next + 1) /\ next' = next + 1
      /\ doing' = IF next = Named(kind) THEN "change" ELSE "read"
      /\ kind' = kind /\ disk' = disk /\ cuts' = cuts
  BY FieldRead
<1>3. MemoryOK(kind, memory') /\ HasTo(kind, memory', next)
  BY <1>1, <1>2, FieldRead, FieldSetOK
<1>4. Named(kind) \in 1..Count(kind) /\ Count(kind) \in Nat
  BY <1>1, ReadsAreWrites
<1>5. pos' \in 0..SizeOf(kind) /\ next' \in 0..(Count(kind) + 1)
  BY <1>1, <1>2, <1>4, FieldsFollow, SizesAssumption DEF SizeOf
<1>6. DoingOK(kind, doing', pos', next', memory')
  <2>1. CASE next = Named(kind)
    BY <1>2, <1>3, <2>1 DEF DoingOK
  <2>2. CASE next # Named(kind)
    <3>1. next + 1 \in 1..Named(kind) /\ (next + 1) - 1 = next /\ doing' = "read"
      BY <1>2, <1>4, <2>2
    <3> QED
      BY <1>2, <1>3, <3>1 DEF DoingOK
  <2> QED
    BY <2>1, <2>2
<1>7. SumsOK(kind, doing', next', disk)
  BY <1>2 DEF SumsOK
<1> QED
  BY <1>1, <1>2, <1>3, <1>5, <1>6, <1>7, Zenon DEF RecordInv

\* The stream stays in the record.
LEMMA PlaceAfter ==
  ASSUME NEW k \in Kinds, NEW n \in 1..Count(k)
  PROVE  /\ At(k, n + 1) \in 0..SizeOf(k) /\ n + 1 \in 0..(Count(k) + 1)
         /\ n < Count(k) => n + 1 \in 0..Count(k) /\ n + 1 > 0
<1>1. Count(k) \in Nat /\ SizeOf(k) \in Nat
  BY ReadsAreWrites, SizesAssumption DEF SizeOf
<1>2. At(k, n + 1) = At(k, n) + Width(k, n) /\ At(k, n) \in Nat /\ Width(k, n) \in Nat
      /\ At(k, n) + Width(k, n) <= SizeOf(k)
  BY FieldsFollow
<1> QED
  BY <1>1, <1>2

\* What a write step writes, by its kind.
LEMMA FieldToWrite ==
  ASSUME RecordInv, doing = "write", next > 0
  PROVE  /\ kind \in Kinds /\ next \in 1..Count(kind) /\ pos = At(kind, next)
         /\ disk \in Bytes(kind)
         /\ Writes[next] = FieldsOf(kind)[next] /\ Len(Writes) = Count(kind)
         /\ Source(Writes[next].name) = Wanted(kind, memory, next)
         /\ Fits(FieldsOf(kind)[next], Wanted(kind, memory, next))
         /\ Encoded(FieldsOf(kind)[next], Wanted(kind, memory, next)) \in [1..Width(kind, next) -> Byte]
         /\ \A b, done : Overwritten(pos, b, done) = PutIn(disk, At(kind, next), b, done)
<1>1. /\ kind \in Kinds /\ next \in 0..Count(kind) /\ pos = At(kind, next) /\ disk \in Bytes(kind)
      /\ CanWrite(kind, memory)
  BY DEF RecordInv, DoingOK
<1>2. next \in 1..Count(kind)
  BY <1>1, ReadsAreWrites
<1>3. /\ Writes = FieldsOf(kind) /\ Len(Writes) = Count(kind)
  BY <1>1, ReadsAreWrites DEF Writes, FieldsOf
<1>4. Source(Writes[next].name) = Wanted(kind, memory, next)
  BY <1>3, Zenon DEF Source, Wanted, NameOf
<1>5. Fits(FieldsOf(kind)[next], Wanted(kind, memory, next))
  BY <1>1, <1>2 DEF CanWrite
<1>6. Encoded(FieldsOf(kind)[next], Wanted(kind, memory, next)) \in [1..Width(kind, next) -> Byte]
  BY <1>1, <1>2, <1>5, FieldsFollow, FieldEncoded DEF Width
<1>7. \A b, done : Overwritten(pos, b, done) = PutIn(disk, At(kind, next), b, done)
  BY <1>1, Zenon DEF Overwritten, PutIn
<1> QED
  BY <1>1, <1>2, <1>3, <1>4, <1>5, <1>6, <1>7

\* A field is written, and all others are as they were.
LEMMA FieldWrite ==
  ASSUME RecordInv, WriteField
  PROVE  /\ kind \in Kinds /\ next \in 1..Count(kind)
         /\ disk' \in Bytes(kind)
         /\ \A m \in 1..Count(kind) : m # next => FieldIn(kind, disk', m) = FieldIn(kind, disk, m)
         /\ FieldIn(kind, disk', next) = Encoded(FieldsOf(kind)[next], Wanted(kind, memory, next))
         /\ Fits(FieldsOf(kind)[next], Wanted(kind, memory, next))
         /\ pos' = At(kind, next + 1) /\ next' = next + 1
         /\ doing' = IF next < Count(kind) THEN "write"
                     ELSE IF kind = "header" THEN "sum entries" ELSE "done"
         /\ UNCHANGED <<kind, memory, cuts>>
<1>1. doing = "write" /\ next > 0
  BY DEF WriteField
<1>2. PICK f, b : /\ f = FieldsOf(kind)[next]
                  /\ b = Encoded(f, Wanted(kind, memory, next))
  OBVIOUS
<1>3. /\ kind \in Kinds /\ next \in 1..Count(kind) /\ pos = At(kind, next) /\ disk \in Bytes(kind)
      /\ Writes[next] = f /\ Len(Writes) = Count(kind)
      /\ Source(f.name) = Wanted(kind, memory, next)
      /\ Fits(f, Wanted(kind, memory, next))
      /\ b \in [1..Width(kind, next) -> Byte]
      /\ \A c, done : Overwritten(pos, c, done) = PutIn(disk, At(kind, next), c, done)
  BY <1>1, <1>2, FieldToWrite
<1>4. f.width = Width(kind, next) /\ Width(kind, next) \in Nat
      /\ At(kind, next + 1) = At(kind, next) + Width(kind, next)
  BY <1>2, <1>3, FieldsFollow DEF Width
<1>5. disk' = PutIn(disk, At(kind, next), b, Width(kind, next))
  BY <1>2, <1>3, <1>4 DEF WriteField
<1>6. /\ disk' \in Bytes(kind)
      /\ \A m \in 1..Count(kind) : m # next => FieldIn(kind, disk', m) = FieldIn(kind, disk, m)
      /\ FieldIn(kind, disk', next) = b
  BY <1>3, <1>4, <1>5, FieldWritten
<1>7. pos' = At(kind, next + 1)
  BY <1>3, <1>4 DEF WriteField
<1>8. doing' = IF next < Count(kind) THEN "write"
               ELSE IF kind = "header" THEN "sum entries" ELSE "done"
  BY <1>3 DEF WriteField
<1> QED
  BY <1>2, <1>3, <1>6, <1>7, <1>8 DEF WriteField

\* The literal of a header's checksum.
LEMMA ZeroLiteral ==
  ASSUME NEW m
  PROVE  Encoded(FieldsOf("header")[4], Wanted("header", m, 4)) = encode_uint32(0)
<1>1. FieldsOf("header")[4] = U32("checksum")
  BY OfKind DEF HeaderWrites
<1>2. NameOf("header", 4) = "checksum"
  BY <1>1 DEF NameOf, U32
<1>3. Wanted("header", m, 4) = 0
  BY <1>2, LiteralsAssumption DEF Wanted
<1>4. \A v : Encoded(U32("checksum"), v) = encode_uint32(v)
  BY DEF Encoded, U32
<1> QED
  BY <1>1, <1>3, <1>4, Zenon

LEMMA WriteFieldStep ==
  ASSUME RecordInv, WriteField
  PROVE  RecordInv'
<1>1. /\ MemoryOK(kind, memory) /\ CanWrite(kind, memory) /\ cuts \in 0..MaxCuts
      /\ SumsOK(kind, "write", next, disk)
  BY DEF RecordInv, DoingOK, WriteField
<1>2. /\ kind \in Kinds /\ next \in 1..Count(kind) /\ disk' \in Bytes(kind)
      /\ \A m \in 1..Count(kind) : m # next => FieldIn(kind, disk', m) = FieldIn(kind, disk, m)
      /\ FieldIn(kind, disk', next) = Encoded(FieldsOf(kind)[next], Wanted(kind, memory, next))
      /\ pos' = At(kind, next + 1) /\ next' = next + 1
      /\ doing' = IF next < Count(kind) THEN "write"
                  ELSE IF kind = "header" THEN "sum entries" ELSE "done"
      /\ kind' = kind /\ memory' = memory /\ cuts' = cuts
  BY FieldWrite
<1>3. /\ pos' \in 0..SizeOf(kind) /\ next' \in 0..(Count(kind) + 1)
      /\ next < Count(kind) => next' \in 0..Count(kind) /\ next' > 0
  BY <1>2, PlaceAfter, Zenon
<1>4. /\ doing' \in {"write", "sum entries", "done"}
      /\ doing' = "sum entries" => kind = "header" /\ ~(next < Count(kind))
      /\ doing' = "write" => next < Count(kind)
      /\ doing' = "done" => kind # "header"
  BY <1>2
<1>5. DoingOK(kind, doing', pos', next', memory)
  BY <1>1, <1>2, <1>3, <1>4 DEF DoingOK
<1>6. SumsOK(kind, doing', next', disk')
  <2>1. ASSUME kind = "header", (doing' = "write" /\ next' > 4) \/ doing' = "sum entries"
        PROVE  FieldIn(kind, disk', 4) = encode_uint32(0)
    <3>1. Count(kind) = 15
      BY <2>1, OfKind
    <3>2. next \in 1..15 /\ next' = next + 1 /\ 4 \in 1..Count(kind)
      <4>1. next \in 1..Count(kind) /\ next' = next + 1
        BY <1>2, Zenon
      <4> QED
        BY <3>1, <4>1
    <3>3. CASE next = 4
      BY <1>2, <2>1, <3>3, ZeroLiteral, Zenon
    <3>4. CASE next # 4
      <4>1. ~(next < Count(kind)) => next > 4
        BY <3>1, <3>2
      <4>2. next' > 4 => next > 4
        BY <3>2, <3>4
      <4>3. next > 4
        BY <1>4, <2>1, <4>1, <4>2
      <4>4. FieldIn(kind, disk, 4) = encode_uint32(0)
        BY <1>1, <2>1, <4>3 DEF SumsOK
      <4>5. FieldIn(kind, disk', 4) = FieldIn(kind, disk, 4)
        BY <1>2, <3>2, <3>4, Zenon
      <4> QED
        BY <4>4, <4>5
    <3> QED
      BY <3>3, <3>4
  <2> QED
    BY <1>4, <2>1 DEF SumsOK
<1> QED
  BY <1>1, <1>2, <1>3, <1>5, <1>6, Zenon DEF RecordInv

\* A write that stops in a field has written some of its bytes.
LEMMA FieldCut ==
  ASSUME RecordInv, WriteFieldFails
  PROVE  /\ kind \in Kinds /\ next \in 1..Count(kind) /\ doing = "write"
         /\ disk' \in Bytes(kind) /\ pos' \in 0..SizeOf(kind)
         /\ \A m \in 1..Count(kind) : m # next => FieldIn(kind, disk', m) = FieldIn(kind, disk, m)
<1>1. doing = "write" /\ next > 0
  BY DEF WriteFieldFails
<1>2. PICK f, b : /\ f = FieldsOf(kind)[next]
                  /\ b = Encoded(f, Wanted(kind, memory, next))
  OBVIOUS
<1>3. /\ kind \in Kinds /\ next \in 1..Count(kind) /\ pos = At(kind, next) /\ disk \in Bytes(kind)
      /\ Writes[next] = f /\ Source(f.name) = Wanted(kind, memory, next)
      /\ b \in [1..Width(kind, next) -> Byte]
      /\ \A c, done : Overwritten(pos, c, done) = PutIn(disk, At(kind, next), c, done)
  BY <1>1, <1>2, FieldToWrite
<1>4. f.width = Width(kind, next) /\ Width(kind, next) \in Nat /\ At(kind, next) \in Nat
      /\ At(kind, next) + Width(kind, next) <= SizeOf(kind) /\ SizeOf(kind) \in Nat
  BY <1>2, <1>3, FieldsFollow, SizesAssumption DEF Width, SizeOf
<1>5. PICK done \in 0..(Width(kind, next) - 1) :
        disk' = PutIn(disk, At(kind, next), b, done) /\ pos' = At(kind, next) + done
  BY <1>2, <1>3, <1>4 DEF WriteFieldFails
<1>6. done \in 0..Width(kind, next) /\ pos' \in 0..SizeOf(kind)
  BY <1>4, <1>5
<1>7. /\ disk' \in Bytes(kind)
      /\ \A m \in 1..Count(kind) : m # next => FieldIn(kind, disk', m) = FieldIn(kind, disk, m)
  BY <1>3, <1>5, <1>6, FieldWritten
<1> QED
  BY <1>1, <1>3, <1>6, <1>7

LEMMA WriteFieldFailsStep ==
  ASSUME RecordInv, WriteFieldFails
  PROVE  RecordInv'
<1>1. Gone /\ MayCut
  BY DEF WriteFieldFails
<1> QED
  BY <1>1, CutsStay, FieldCut, GoneStep

\* crc32 is 32 bits wide (gpt.c).
CrcFits == \A b \in [1..92 -> Byte] : crc32(b) \in 0..(Above(4) - 1)

\* The places that are numbers in gpt.c are those of the two checksums.
LEMMA SumPlaces ==
  /\ At("header", 4) = 16 /\ At("header", 14) = 88
  /\ Width("header", 4) = 4 /\ Width("header", 14) = 4
  /\ 4 \in 1..Count("header") /\ 14 \in 1..Count("header") /\ "header" \in Kinds
  /\ SizeOf("header") = SectorBytes
<1>1. HeaderWrites[4].width = 4 /\ HeaderWrites[14].width = 4 /\ HeaderAt[4] = 16 /\ HeaderAt[14] = 88
  BY DEF HeaderWrites, HeaderAt, U32
<1> QED
  BY <1>1, OfKind DEF At, Width, Kinds

LEMMA Reaches ==
  ASSUME NEW at \in Nat, NEW size \in Nat, at + 4 <= size
  PROVE  /\ at + 4 \in 0..size /\ 4 \in 0..4
         /\ \A done \in 0..3 : at + done \in 0..size /\ done \in 0..4
  OBVIOUS

LEMMA FourBytes ==
  ASSUME NEW v \in 0..(Above(4) - 1)
  PROVE  v \in Nat /\ encode_uint32(v) \in [1..4 -> Byte]
<1>1. Base \in Nat
  BY BaseAssumption
<1>2. Base * Base * Base * Base \in Nat
  BY <1>1
<1>3. Above(4) = Base * Base * Base * Base
  BY DEF Above
<1>4. v \in Nat
  BY <1>2, <1>3
<1> QED
  BY <1>4, NumbersAreBytes

WrittenAs(k, d, n, b, done, e) ==
  /\ e \in Bytes(k)
  /\ \A m \in 1..Count(k) : m # n => FieldIn(k, e, m) = FieldIn(k, d, m)
  /\ done = Width(k, n) => FieldIn(k, e, n) = b
  /\ \A a \in 0..(SizeOf(k) - 1) :
       ~(At(k, n) <= a /\ a < At(k, n) + Width(k, n)) => e[a] = d[a]

LEMMA FieldIsWritten ==
  ASSUME NEW k \in Kinds, NEW d \in Bytes(k), NEW n \in 1..Count(k),
         NEW b \in [1..Width(k, n) -> Byte], NEW done \in 0..Width(k, n),
         NEW e, e = PutIn(d, At(k, n), b, done)
  PROVE  WrittenAs(k, d, n, b, done, e)
  BY FieldWritten DEF WrittenAs

\* A checksum is put in, or some of its bytes are.
LEMMA SumPut ==
  ASSUME RecordInv, kind = "header", doing \in {"sum entries", "sum header"},
         NEW n \in {4, 14}, NEW v \in 0..(Above(4) - 1), PutAt(At("header", n), v)
  PROVE  /\ disk' \in Bytes("header") /\ pos' \in 0..SizeOf("header")
         /\ \A m \in 1..Count("header") :
              m # n => FieldIn("header", disk', m) = FieldIn("header", disk, m)
         /\ \/ /\ FieldIn("header", disk', n) = encode_uint32(v)
               /\ \A a \in 0..(SizeOf("header") - 1) :
                    ~(At("header", n) <= a /\ a < At("header", n) + 4) => disk'[a] = disk[a]
               /\ doing' = IF doing = "sum entries" THEN "sum header" ELSE "done"
               /\ UNCHANGED <<kind, memory, next, cuts>>
            \/ Gone /\ MayCut
<1>1. PICK at \in Nat : at = At("header", n) /\ Width("header", n) = 4
                        /\ n \in 1..Count("header") /\ "header" \in Kinds
  <2>1. CASE n = 4
    BY <2>1, SumPlaces, 16 \in Nat, Zenon
  <2>2. CASE n = 14
    BY <2>2, SumPlaces, 88 \in Nat, Zenon
  <2> QED
    BY <2>1, <2>2
<1>2. disk \in Bytes("header")
  BY DEF RecordInv
<1>3. encode_uint32(v) \in [1..4 -> Byte]
  BY FourBytes
<1>4. PICK b \in [1..4 -> Byte] : b = encode_uint32(v)
  BY <1>3
<1>5. PICK size \in Nat : size = SizeOf("header") /\ at + 4 <= size
  <2>1. At("header", n) + Width("header", n) <= SizeOf("header")
    BY <1>1, FieldsFollow
  <2> QED
    BY <1>1, <2>1, SumPlaces, SizesAssumption
<1>6. ASSUME NEW done \in 0..4, disk' = Overwritten(at, b, done)
      PROVE  /\ disk' \in Bytes("header")
             /\ \A m \in 1..Count("header") :
                  m # n => FieldIn("header", disk', m) = FieldIn("header", disk, m)
             /\ done = 4 => FieldIn("header", disk', n) = b
             /\ \A a \in 0..(SizeOf("header") - 1) :
                  ~(At("header", n) <= a /\ a < At("header", n) + 4) => disk'[a] = disk[a]
  <2>1. disk' = PutIn(disk, At("header", n), b, done)
    BY <1>1, <1>6, Zenon DEF Overwritten, PutIn
  <2>2. b \in [1..Width("header", n) -> Byte] /\ done \in 0..Width("header", n)
    BY <1>1, <1>6, Zenon
  <2> QED
    <3>1. /\ disk' \in Bytes("header")
          /\ \A m \in 1..Count("header") :
               m # n => FieldIn("header", disk', m) = FieldIn("header", disk, m)
          /\ done = Width("header", n) => FieldIn("header", disk', n) = b
          /\ \A a \in 0..(SizeOf("header") - 1) :
               ~(At("header", n) <= a /\ a < At("header", n) + Width("header", n))
                 => disk'[a] = disk[a]
      <4>1. PICK e, k, d : e = disk' /\ k = "header" /\ d = disk
        OBVIOUS
      <4>2. /\ k \in Kinds /\ d \in Bytes(k) /\ n \in 1..Count(k)
            /\ b \in [1..Width(k, n) -> Byte] /\ done \in 0..Width(k, n)
            /\ e = PutIn(d, At(k, n), b, done)
        BY <1>1, <1>2, <2>1, <2>2, <4>1, Zenon
      <4>3. WrittenAs(k, d, n, b, done, e)
        BY <4>2, FieldIsWritten, Zenon
      <4> QED
        BY <4>1, <4>3, Zenon DEF WrittenAs
    <3> QED
      BY <1>1, <3>1, Zenon
<1>7. CASE /\ disk' = Overwritten(at, b, 4) /\ pos' = at + 4
           /\ doing' = IF doing = "sum entries" THEN "sum header" ELSE "done"
           /\ UNCHANGED <<kind, memory, next, typed, cuts>>
  <2>1. pos' \in 0..SizeOf("header") /\ 4 \in 0..4
    <3>1. pos' = at + 4
      BY <1>7, Zenon
    <3>2. at + 4 \in 0..size /\ 4 \in 0..4
      BY <1>5, Reaches
    <3> QED
      BY <1>5, <3>1, <3>2, Zenon
  <2>2. /\ disk' \in Bytes("header")
        /\ \A m \in 1..Count("header") :
             m # n => FieldIn("header", disk', m) = FieldIn("header", disk, m)
        /\ FieldIn("header", disk', n) = b
        /\ \A a \in 0..(SizeOf("header") - 1) :
             ~(At("header", n) <= a /\ a < At("header", n) + 4) => disk'[a] = disk[a]
    BY <1>6, <1>7, <2>1, Zenon
  <2> QED
    BY <1>4, <1>7, <2>1, <2>2, Zenon
<1>8. CASE /\ \E done \in 0..3 : disk' = Overwritten(at, b, done) /\ pos' = at + done
           /\ MayCut /\ Gone
  <2>1. PICK done \in 0..3 : disk' = Overwritten(at, b, done) /\ pos' = at + done
    BY <1>8
  <2>2. pos' \in 0..SizeOf("header") /\ done \in 0..4
    <3>1. pos' = at + done
      BY <2>1, Zenon
    <3>2. at + done \in 0..size /\ done \in 0..4
      BY <1>5, Reaches
    <3> QED
      BY <1>5, <3>1, <3>2, Zenon
  <2>3. /\ disk' \in Bytes("header")
        /\ \A m \in 1..Count("header") :
             m # n => FieldIn("header", disk', m) = FieldIn("header", disk, m)
    BY <1>6, <2>1, <2>2, Zenon
  <2> QED
    BY <1>8, <2>2, <2>3, Zenon
<1> QED
  BY <1>1, <1>4, <1>7, <1>8, Zenon DEF PutAt

LEMMA SumEntriesStep ==
  ASSUME RecordInv, SumEntries
  PROVE  RecordInv'
<1>1. /\ kind = "header" /\ doing = "sum entries" /\ MemoryOK(kind, memory)
      /\ next \in 0..(Count(kind) + 1) /\ cuts \in 0..MaxCuts
      /\ FieldIn("header", disk, 4) = encode_uint32(0)
  BY DEF RecordInv, DoingOK, SumsOK, SumEntries
<1>2. PICK sum \in Sums : PutAt(88, sum)
  BY DEF SumEntries
<1>3. /\ disk' \in Bytes("header") /\ pos' \in 0..SizeOf("header")
      /\ \A m \in 1..Count("header") :
           m # 14 => FieldIn("header", disk', m) = FieldIn("header", disk, m)
      /\ \/ /\ FieldIn("header", disk', 14) = encode_uint32(sum)
            /\ doing' = "sum header" /\ UNCHANGED <<kind, memory, next, cuts>>
         \/ Gone /\ MayCut
  <2>1. sum \in 0..(Above(4) - 1) /\ PutAt(At("header", 14), sum) /\ 14 \in {4, 14}
    BY <1>2, SumPlaces, SumsAssumption
  <2> QED
    BY <1>1, <2>1, SumPut
<1>4. CASE Gone /\ MayCut
  BY <1>1, <1>3, <1>4, CutsStay, GoneStep
<1>5. CASE /\ FieldIn("header", disk', 14) = encode_uint32(sum)
           /\ doing' = "sum header" /\ UNCHANGED <<kind, memory, next, cuts>>
  <2>1. FieldIn("header", disk', 4) = encode_uint32(0)
    <3>1. 4 \in 1..Count("header") /\ 4 # 14
      BY SumPlaces
    <3> QED
      BY <1>1, <1>3, <3>1, Zenon
  <2>2. SumOfEntries(disk')
    BY <1>5 DEF SumOfEntries
  <2>3. SumsOK("header", "sum header", next, disk')
    BY <2>1, <2>2 DEF SumsOK
  <2>4. DoingOK("header", "sum header", pos', next, memory)
    BY DEF DoingOK
  <2>5. "header" \in Kinds
    BY DEF Kinds
  <2> QED
    BY <1>1, <1>3, <1>5, <2>3, <2>4, <2>5, Zenon DEF RecordInv
<1> QED
  BY <1>3, <1>4, <1>5

\* The checksum is taken while its own field is zero, which is how it is
\* checked, and putting it in changes nothing else of the header.
LEMMA HeadIs ==
  ASSUME NEW d \in Bytes("header"), FieldIn("header", d, 4) = encode_uint32(0)
  PROVE  HeadOf(d) = Part(d, 0, 92) /\ HeadOf(d) \in [1..92 -> Byte]
<1>1. encode_uint32(0) = <<0, 0, 0, 0>>
  <2>1. PICK b \in [1..4 -> Byte] : \A n \in 1..4 : b[n] = 0
    <3>1. 0 \in Byte
      BY BaseAssumption DEF Byte
    <3>2. [n \in 1..4 |-> 0] \in [1..4 -> Byte]
      BY <3>1
    <3> QED
      BY <3>2
  <2>2. encode_uint32(decode_uint32(b) + Base * Base * Base * Base * 0) = <<b[1], b[2], b[3], b[4]>>
    BY Low32, 0 \in Nat
  <2>3. Base \in Nat
    BY BaseAssumption
  <2>4. decode_uint32(b) + Base * Base * Base * Base * 0 = 0
    BY <2>1, <2>3 DEF decode_uint32, decode_uint16
  <2> QED
    BY <2>1, <2>2, <2>4
<1>2. FieldIn("header", d, 4) = [n \in 1..4 |-> d[16 + n - 1]]
  BY SumPlaces DEF FieldIn, Part
<1>3. \A n \in 1..4 : d[16 + n - 1] = 0
  <2>1. \A n \in 1..4 : FieldIn("header", d, 4)[n] = 0
    BY <1>1
  <2> QED
    BY <1>2, <2>1
<1>4. \A n \in 17..20 : d[0 + n - 1] = 0
  <2> SUFFICES ASSUME NEW n \in 17..20
               PROVE  d[0 + n - 1] = 0
    OBVIOUS
  <2>1. n - 16 \in 1..4 /\ 16 + (n - 16) - 1 = 0 + n - 1
    OBVIOUS
  <2>2. d[16 + (n - 16) - 1] = 0
    BY <1>3, <2>1
  <2> QED
    BY <2>1, <2>2
<1>5. \A n \in 1..92 : Part(d, 0, 92)[n] = d[0 + n - 1] /\ d[0 + n - 1] \in Byte
  <2>1. d \in [0..(SectorBytes - 1) -> Byte]
    BY SumPlaces DEF Bytes
  <2>2. \A n \in 1..92 : 0 + n - 1 \in 0..(SectorBytes - 1)
    BY SizesAssumption
  <2>3. \A n \in 1..92 : Part(d, 0, 92)[n] = d[0 + n - 1]
    BY DEF Part
  <2> QED
    BY <2>1, <2>2, <2>3
<1>6. PICK p : p = Part(d, 0, 92) /\ DOMAIN p = 1..92 /\ p = [n \in 1..92 |-> p[n]]
  BY DEF Part
<1>7. \A n \in 17..20 : p[n] = 0
  <2>1. \A n \in 17..20 : n \in 1..92
    OBVIOUS
  <2> QED
    BY <1>4, <1>5, <1>6, <2>1
<1>8. HeadOf(d) = p
  <2>1. HeadOf(d) = [n \in 1..92 |-> IF n \in 17..20 THEN 0 ELSE p[n]]
    BY <1>6 DEF HeadOf
  <2> QED
    BY <1>6, <1>7, <2>1
<1>9. p \in [1..92 -> Byte]
  BY <1>5, <1>6
<1> QED
  BY <1>6, <1>8, <1>9

LEMMA HeadStays ==
  ASSUME NEW d, NEW e,
         \A a \in 0..(SizeOf("header") - 1) : ~(16 <= a /\ a < 16 + 4) => e[a] = d[a]
  PROVE  HeadOf(e) = HeadOf(d)
<1>1. ASSUME NEW n \in 1..92, n \notin 17..20
      PROVE  Part(e, 0, 92)[n] = Part(d, 0, 92)[n]
  <2>1. 0 + n - 1 \in 0..(SizeOf("header") - 1) /\ ~(16 <= 0 + n - 1 /\ 0 + n - 1 < 16 + 4)
    BY <1>1, SumPlaces, SizesAssumption
  <2>2. e[0 + n - 1] = d[0 + n - 1]
    BY <2>1
  <2> QED
    BY <2>2 DEF Part
<1> QED
  BY <1>1 DEF HeadOf

LEMMA SumHeaderStep ==
  ASSUME RecordInv, SumHeader, CrcFits
  PROVE  RecordInv'
<1>1. /\ kind = "header" /\ doing = "sum header" /\ MemoryOK(kind, memory) /\ disk \in Bytes("header")
      /\ next \in 0..(Count(kind) + 1) /\ cuts \in 0..MaxCuts
      /\ FieldIn("header", disk, 4) = encode_uint32(0) /\ SumOfEntries(disk)
  BY DEF RecordInv, DoingOK, SumsOK, SumHeader
<1>2. PICK crc \in 0..(Above(4) - 1) : crc = crc32(HeadOf(disk))
  BY <1>1, HeadIs DEF CrcFits
<1>3. PutAt(16, crc)
  <2>1. Slice(0, 92) = HeadOf(disk)
    BY <1>1, HeadIs, Zenon DEF Slice, Part
  <2> QED
    BY <1>2, <2>1, Zenon DEF SumHeader
<1>4. /\ disk' \in Bytes("header") /\ pos' \in 0..SizeOf("header")
      /\ \A m \in 1..Count("header") :
           m # 4 => FieldIn("header", disk', m) = FieldIn("header", disk, m)
      /\ \/ /\ FieldIn("header", disk', 4) = encode_uint32(crc)
            /\ \A a \in 0..(SizeOf("header") - 1) :
                 ~(16 <= a /\ a < 16 + 4) => disk'[a] = disk[a]
            /\ doing' = "done" /\ UNCHANGED <<kind, memory, next, cuts>>
         \/ Gone /\ MayCut
  <2>1. PutAt(At("header", 4), crc) /\ 4 \in {4, 14} /\ At("header", 4) = 16
    BY <1>3, SumPlaces
  <2> QED
    BY <1>1, <2>1, SumPut
<1>5. CASE Gone /\ MayCut
  BY <1>1, <1>4, <1>5, CutsStay, GoneStep
<1>6. CASE /\ FieldIn("header", disk', 4) = encode_uint32(crc)
           /\ \A a \in 0..(SizeOf("header") - 1) :
                ~(16 <= a /\ a < 16 + 4) => disk'[a] = disk[a]
           /\ doing' = "done" /\ UNCHANGED <<kind, memory, next, cuts>>
  <2>1. FieldIn("header", disk', 4) = encode_uint32(crc32(HeadOf(disk')))
    <3>1. HeadOf(disk') = HeadOf(disk)
      BY <1>6, HeadStays
    <3> QED
      BY <1>2, <1>6, <3>1, Zenon
  <2>2. SumOfEntries(disk')
    <3>1. 14 \in 1..Count("header") /\ 14 # 4
      BY SumPlaces
    <3>2. FieldIn("header", disk', 14) = FieldIn("header", disk, 14)
      BY <1>4, <3>1, Zenon
    <3> QED
      BY <1>1, <3>2, Zenon DEF SumOfEntries
  <2>3. SumsOK("header", "done", next, disk')
    BY <2>1, <2>2 DEF SumsOK
  <2>4. DoingOK("header", "done", pos', next, memory)
    BY DEF DoingOK
  <2>5. "header" \in Kinds
    BY DEF Kinds
  <2> QED
    BY <1>1, <1>4, <1>6, <2>3, <2>4, <2>5, Zenon DEF RecordInv
<1> QED
  BY <1>4, <1>5, <1>6

(* -- The type of an entry is sixteen bytes --------------------------------- *)

IsFrom(str, from) ==
  from = [j \in 1..(Len(str) + 2) |-> [i \in 0..16 |-> FillsAt(str, from, j, i)]]

LEMMA FillsIs ==
  ASSUME NEW str
  PROVE  FillsFrom(str) = CHOOSE from : IsFrom(str, from)
  BY DEF FillsFrom, IsFrom

AlikeBehind(str, f, g, j) ==
  \A h \in (j + 1)..(Len(str) + 2) : \A i \in 0..16 : f[h][i] = g[h][i]

LEMMA FillsAlike ==
  ASSUME NEW str, NEW f, NEW g, NEW j, NEW i, Len(str) \in Nat, j \in Nat, i \in 0..16,
         AlikeBehind(str, f, g, j)
  PROVE  FillsAt(str, f, j, i) = FillsAt(str, g, j, i)
<1>0. PICK N \in Nat : N = Len(str)
  OBVIOUS
<1>1. j <= N => f[j + 1][i] = g[j + 1][i]
  <2>1. j <= N => j + 1 \in (j + 1)..(N + 2)
    OBVIOUS
  <2> QED
    BY <1>0, <2>1 DEF AlikeBehind
<1>2. j < N /\ i < 16 => f[j + 2][i + 1] = g[j + 2][i + 1]
  <2>1. /\ j < N => j + 2 \in (j + 1)..(N + 2)
        /\ i < 16 => i + 1 \in 0..16
    OBVIOUS
  <2> QED
    BY <1>0, <2>1 DEF AlikeBehind
<1> QED
  BY <1>0, <1>1, <1>2 DEF FillsAt

LEMMA FromExists ==
  ASSUME NEW str, Len(str) \in Nat
  PROVE  \E from : IsFrom(str, from)
<1>1. PICK N \in Nat : N = Len(str) + 2
  OBVIOUS
<1> DEFINE Upto(m, f) == f = [j \in (N - m + 1)..N |-> [i \in 0..16 |-> FillsAt(str, f, j, i)]]
           P == {m \in 0..N : \E f : Upto(m, f)}
<1>2. 0 \in P
  <2>1. \A j \in (N - 0 + 1)..N : FALSE
    OBVIOUS
  <2>2. Upto(0, [j \in (N - 0 + 1)..N |-> <<>>])
    BY <2>1, Zenon
  <2> QED
    BY <2>2
<1>3. ASSUME NEW m \in 0..(N - 1), m \in P
      PROVE  m + 1 \in P
  <2>1. PICK f : Upto(m, f)
    BY <1>3
  <2> DEFINE g == [j \in (N - (m + 1) + 1)..N |-> [i \in 0..16 |-> FillsAt(str, f, j, i)]]
  <2>2. ASSUME NEW j \in (N - m + 1)..N, NEW i \in 0..16
        PROVE  g[j][i] = f[j][i]
    <3>1. j \in (N - (m + 1) + 1)..N
      OBVIOUS
    <3>2. g[j][i] = FillsAt(str, f, j, i)
      BY <3>1
    <3>3. f[j][i] = FillsAt(str, f, j, i)
      <4> HIDE DEF g
      <4>1. f[j] = [l \in 0..16 |-> FillsAt(str, f, j, l)]
        BY <2>1, Zenon
      <4> QED
        BY <4>1
    <3> QED
      BY <3>2, <3>3
  <2>3. ASSUME NEW j \in (N - (m + 1) + 1)..N, NEW i \in 0..16
        PROVE  FillsAt(str, f, j, i) = FillsAt(str, g, j, i)
    <3> HIDE DEF g
    <3>1. \A h \in (j + 1)..N : h \in (N - m + 1)..N
      OBVIOUS
    <3>2. PICK L \in Nat : L = Len(str) /\ L + 2 = N
      BY <1>1
    <3>3. AlikeBehind(str, f, g, j)
      BY <2>2, <3>1, <3>2 DEF AlikeBehind
    <3>4. j \in Nat
      OBVIOUS
    <3> QED
      BY <3>3, <3>4, FillsAlike
  <2>4. Upto(m + 1, g)
    BY <2>3
  <2>5. m + 1 \in 0..N
    BY <1>1
  <2> QED
    BY <2>4, <2>5
<1>4. 0..N \subseteq P
  <2> HIDE DEF P
  <2> QED
    BY <1>2, <1>3, NumbersUpTo
<1>5. PICK f : Upto(N, f)
  BY <1>4
<1>6. N - N + 1 = 1
  BY <1>1
<1> QED
  BY <1>1, <1>5, <1>6 DEF IsFrom

\* What a text denotes is bytes, or the text is refused.
LEMMA FilledBytes ==
  ASSUME NEW str \in Seq(Character)
  PROVE  Fills(str) = Refused \/ Fills(str) \in Seq(Byte)
<1>1. Len(str) \in Nat /\ \A j \in 1..Len(str) : str[j] \in Character
  OBVIOUS
<1>2. PICK from : IsFrom(str, from) /\ Fills(str) = from[1][0]
  <2>1. IsFrom(str, CHOOSE from : IsFrom(str, from))
    BY <1>1, FromExists, Zenon
  <2> QED
    BY <2>1, FillsIs DEF Fills
<1>3. PICK N \in Nat : N = Len(str) + 2
  BY <1>1
<1> DEFINE Good(j, i) == from[j][i] = Refused \/ from[j][i] \in Seq(Byte)
           P == {m \in 0..N : \A j \in (N - m + 1)..N, i \in 0..16 : Good(j, i)}
<1>4. 0 \in P
  OBVIOUS
<1>5. ASSUME NEW m \in 0..(N - 1), m \in P
      PROVE  m + 1 \in P
  <2>1. ASSUME NEW i \in 0..16, NEW j \in 1..N, j = N - m
        PROVE  Good(j, i)
    <3>1. from[j][i] = FillsAt(str, from, j, i)
      <4>1. from[j] = [l \in 0..16 |-> FillsAt(str, from, j, l)]
        BY <1>2, <1>3, Zenon DEF IsFrom
      <4> QED
        BY <4>1
    <3>2. CASE i = 16 \/ j > Len(str)
      BY <3>1, <3>2 DEF FillsAt
    <3>3. CASE i < 16 /\ j <= Len(str) /\ str[j] = Dash
      <4>1. Good(j + 1, i)
        <5>1. j + 1 \in (N - m + 1)..N
          BY <1>3, <2>1, <3>3
        <5> QED
          BY <1>5, <5>1
      <4>2. from[j][i] = IF from[j + 1][i] = <<>> THEN <<0>> ELSE from[j + 1][i]
        <5>1. ~IsDigit(str[j]) /\ ~(j > Len(str))
          BY <1>1, <3>3 DEF Dash, IsDigit
        <5> QED
          BY <3>1, <3>3, <5>1 DEF FillsAt
      <4>3. <<0>> \in Seq(Byte)
        BY BaseAssumption DEF Byte
      <4> QED
        BY <4>1, <4>2, <4>3
    <3>4. CASE i < 16 /\ j < Len(str) /\ str[j] # Dash /\ IsDigit(str[j]) /\ IsDigit(str[j + 1])
      <4>1. Good(j + 2, i + 1)
        <5>1. j + 2 \in (N - m + 1)..N /\ i + 1 \in 0..16
          BY <1>1, <1>3, <2>1, <3>4
        <5> QED
          BY <1>5, <5>1
      <4>2. from[j][i] = IF from[j + 2][i + 1] = Refused THEN Refused
                         ELSE <<ByteOfDigits(str[j], str[j + 1])>> \o from[j + 2][i + 1]
        BY <3>1, <3>4 DEF FillsAt
      <4>3. ByteOfDigits(str[j], str[j + 1]) \in Byte
        <5>1. PICK h \in 0..(Radix - 1), l \in 0..(Radix - 1) :
                ByteOfDigits(str[j], str[j + 1]) = h * Radix + l
          BY <3>4 DEF IsDigit, ByteOfDigits
        <5>2. h * Radix + l \in 0..(Radix * Radix - 1)
          BY RadixAssumption
        <5> QED
          BY <5>1, <5>2, RadixAssumption DEF Byte
      <4>4. <<ByteOfDigits(str[j], str[j + 1])>> \in Seq(Byte)
        BY <4>3
      <4> QED
        BY <4>1, <4>2, <4>4
    <3>5. CASE ~(i = 16 \/ j > Len(str)) /\ str[j] # Dash
                /\ ~(j < Len(str) /\ IsDigit(str[j]) /\ IsDigit(str[j + 1]))
      BY <3>1, <3>5 DEF FillsAt
    <3>6. (i = 16 \/ j > Len(str)) \/ (i < 16 /\ j <= Len(str))
      BY <1>1
    <3> QED
      BY <3>2, <3>3, <3>4, <3>5, <3>6
  <2>2. \A j \in (N - (m + 1) + 1)..N : j \in (N - m + 1)..N \/ (j \in 1..N /\ j = N - m)
    OBVIOUS
  <2>3. m + 1 \in 0..N
    OBVIOUS
  <2> QED
    BY <1>5, <2>1, <2>2, <2>3
<1>6. 0..N \subseteq P
  <2> HIDE DEF P
  <2> QED
    BY <1>4, <1>5, NumbersUpTo
<1>7. Good(1, 0)
  <2>1. N \in P /\ 1 \in (N - N + 1)..N /\ 0 \in 0..16
    BY <1>3, <1>6
  <2> QED
    BY <2>1
<1> QED
  BY <1>2, <1>7

\* Whatever the stack held, bootable_uuid_parse leaves sixteen bytes.
LEMMA ParsedBytes ==
  ASSUME NEW str \in Seq(Character), Parses(str), NEW stack \in [1..16 -> Byte]
  PROVE  Parsed(str, stack) \in [1..16 -> Byte]
<1>1. PICK filled \in Seq(Byte) : filled = Fills(str)
  BY FilledBytes DEF Parses
<1>2. PICK b \in [1..16 -> Byte] : Parsed(str, stack) = Swapped(b)
  <2> DEFINE c == [i \in 1..16 |-> IF i <= Len(filled) THEN filled[i] ELSE stack[i]]
  <2>1. ASSUME NEW i \in 1..16, i <= Len(filled)
        PROVE  filled[i] \in Byte
    <3>1. i \in 1..Len(filled)
      BY <2>1
    <3> QED
      BY <3>1
  <2>2. c \in [1..16 -> Byte]
    BY <2>1
  <2>3. Parsed(str, stack) = Swapped(c)
    BY <1>1 DEF Parsed
  <2> QED
    BY <2>2, <2>3
<1>3. \A i \in 1..16 : b[i] \in Byte
  OBVIOUS
<1>4. Swapped(b) \in [1..16 -> Byte]
  BY <1>3 DEF Swapped
<1> QED
  BY <1>2, <1>4

(* -- What is done with the structures keeps the records right -------------- *)

\* A structure that fits and is complete is about to be written.
LEMMA ToWrite ==
  ASSUME RecordInv, MemoryOK(kind, memory'), CanWrite(kind, memory'),
         doing' = "write", next' = 0, UNCHANGED <<kind, disk, pos, cuts>>
  PROVE  RecordInv'
<1>1. /\ kind \in Kinds /\ disk \in Bytes(kind) /\ cuts \in 0..MaxCuts /\ pos \in 0..SizeOf(kind)
      /\ 0 \in 0..Count(kind) /\ 0 \in 0..(Count(kind) + 1) /\ ~(0 > 0)
  BY ReadsAreWrites DEF RecordInv
<1>2. DoingOK(kind, "write", pos, 0, memory')
  BY <1>1 DEF DoingOK
<1>3. SumsOK(kind, "write", 0, disk)
  BY DEF SumsOK
<1>4. kind' = kind /\ disk' = disk /\ pos' = pos /\ cuts' = cuts
  OBVIOUS
<1> QED
  BY <1>1, <1>2, <1>3, <1>4, Zenon DEF RecordInv

LEMMA FormatHeaderStep ==
  ASSUME RecordInv, FormatHeader
  PROVE  RecordInv'
<1>1. PICK m \in Headers : m = memory'
  BY DEF FormatHeader
<1>2. DOMAIN HeaderWrites = 1..15
  BY DEF HeaderWrites
<1>3. ASSUME NEW n \in 1..15
      PROVE  /\ NameOf("header", n) \in DOMAIN Literals \cup DOMAIN m
             /\ NameOf("header", n) \in DOMAIN m =>
                  Fits(FieldsOf("header")[n], m[NameOf("header", n)])
             /\ NameOf("header", n) \in DOMAIN Literals =>
                  Fits(FieldsOf("header")[n], Literals[NameOf("header", n)])
  <2>1. FieldsOf("header")[n] = HeaderWrites[n] /\ NameOf("header", n) = HeaderWrites[n].name
    BY OfKind DEF NameOf
  <2>2. PICK f : f = HeaderWrites[n]
    OBVIOUS
  <2>3. /\ f.name \in DOMAIN Literals \cup DOMAIN m
        /\ f.name \in DOMAIN m => Fits(f, m[f.name])
        /\ f.name \in DOMAIN Literals => Fits(f, Literals[f.name])
    BY <1>2, <2>2, HeadersAssumption, LiteralsAssumption
  <2> QED
    BY <2>1, <2>2, <2>3, Zenon
<1>4. Count("header") = 15 /\ \A n \in 1..Named("header") : n \in 1..15
  BY OfKind
<1>5. MemoryOK("header", m)
  BY <1>3, <1>4, Zenon DEF MemoryOK
<1>6. CanWrite("header", m)
  <2> SUFFICES ASSUME NEW n \in 1..15
               PROVE  Fits(FieldsOf("header")[n], Wanted("header", m, n))
    BY <1>4, Zenon DEF CanWrite
  <2> QED
    BY <1>3 DEF Wanted
<1>7. /\ kind = "header" /\ doing' = "write" /\ next' = 0
      /\ UNCHANGED <<kind, disk, pos, cuts>>
  BY DEF FormatHeader
<1> QED
  BY <1>1, <1>5, <1>6, <1>7, ToWrite

\* A structure that has been read is written as it is.
LEMMA KeepStep ==
  ASSUME RecordInv, KeepHeader \/ KeepEntry
  PROVE  RecordInv'
<1>1. /\ kind \in Kinds /\ MemoryOK(kind, memory) /\ HasTo(kind, memory, Named(kind))
  BY DEF RecordInv, DoingOK, KeepHeader, KeepEntry
<1>2. CanWrite(kind, memory)
  BY <1>1, ReadyToWrite
<1>3. /\ memory' = memory /\ doing' = "write" /\ next' = 0
      /\ UNCHANGED <<kind, disk, pos, cuts>>
  BY DEF KeepHeader, KeepEntry
<1> QED
  BY <1>1, <1>2, <1>3, ToWrite

\* A structure that has been read is given a value that fits for one field.
LEMMA OneFieldSet ==
  ASSUME NEW k \in Kinds, NEW m, MemoryOK(k, m), HasTo(k, m, Named(k)), NEW n \in 1..Named(k),
         NEW v, Fits(FieldsOf(k)[n], v), NEW name, name = NameOf(k, n),
         NEW other, other = [m EXCEPT ![name] = v]
  PROVE  MemoryOK(k, other) /\ HasTo(k, other, Named(k))
<1>1. name \in DOMAIN m
  BY DEF HasTo
<1>2. FieldSet(k, m, n, v, other)
  BY <1>1 DEF FieldSet
<1> QED
  BY <1>2, FieldSetOK

LEMMA SetDiskUuidStep ==
  ASSUME RecordInv, SetDiskUuid
  PROVE  RecordInv'
<1>1. /\ kind = "header" /\ "header" \in Kinds /\ MemoryOK("header", memory)
      /\ HasTo("header", memory, Named("header"))
  BY DEF RecordInv, DoingOK, SetDiskUuid, Kinds
<1>2. PICK uuid \in DiskUuids : memory' = [memory EXCEPT !["disk_uuid"] = uuid]
  BY DEF SetDiskUuid
<1>3. 10 \in 1..Named("header") /\ NameOf("header", 10) = "disk_uuid"
      /\ Fits(FieldsOf("header")[10], uuid)
  <2>1. Named("header") = 14 /\ FieldsOf("header")[10] = Raw("disk_uuid", 16)
    BY OfKind DEF HeaderWrites
  <2>2. uuid \in [1..16 -> Byte]
    BY UuidsAssumption
  <2> QED
    BY <2>1, <2>2 DEF NameOf, Raw, Fits
<1>4. PICK m : m = memory'
  OBVIOUS
<1>5. MemoryOK("header", m) /\ HasTo("header", m, Named("header"))
  BY <1>1, <1>2, <1>3, <1>4, OneFieldSet
<1>6. CanWrite("header", m)
  BY <1>1, <1>5, ReadyToWrite
<1>7. doing' = "write" /\ next' = 0 /\ UNCHANGED <<kind, disk, pos, cuts>>
  BY DEF SetDiskUuid
<1> QED
  BY <1>1, <1>4, <1>5, <1>6, <1>7, ToWrite

LEMMA SetEntryTypeStep ==
  ASSUME RecordInv, SetEntryType
  PROVE  RecordInv'
<1>1. /\ kind = "entry" /\ "entry" \in Kinds /\ MemoryOK("entry", memory)
      /\ HasTo("entry", memory, Named("entry"))
  BY DEF RecordInv, DoingOK, SetEntryType, Kinds
<1>2. PICK str \in Strings, stack \in Stacks :
        Parses(str) /\ memory' = [memory EXCEPT !["type_uuid"] = Parsed(str, stack)]
  BY DEF SetEntryType
<1>3. PICK uuid \in [1..16 -> Byte] : uuid = Parsed(str, stack)
  <2>1. str \in Seq(Character) /\ stack \in [1..16 -> Byte]
    BY UuidsAssumption
  <2> QED
    BY <1>2, <2>1, ParsedBytes
<1>4. 1 \in 1..Named("entry") /\ NameOf("entry", 1) = "type_uuid"
      /\ Fits(FieldsOf("entry")[1], uuid)
  <2>1. Named("entry") = 6 /\ FieldsOf("entry")[1] = Raw("type_uuid", 16)
    BY OfKind DEF EntryWrites
  <2> QED
    BY <2>1 DEF NameOf, Raw, Fits
<1>5. PICK m : m = memory'
  OBVIOUS
<1>6. MemoryOK("entry", m) /\ HasTo("entry", m, Named("entry"))
  BY <1>1, <1>2, <1>3, <1>4, <1>5, OneFieldSet
<1>7. CanWrite("entry", m)
  BY <1>1, <1>6, ReadyToWrite
<1>8. doing' = "write" /\ next' = 0 /\ UNCHANGED <<kind, disk, pos, cuts>>
  BY DEF SetEntryType
<1> QED
  BY <1>1, <1>5, <1>6, <1>7, <1>8, ToWrite

LEMMA RefuseTypeStep ==
  ASSUME RecordInv, RefuseType
  PROVE  RecordInv'
<1>1. Gone /\ disk' = disk /\ pos' = pos /\ cuts' = cuts
  BY DEF RefuseType
<1> QED
  BY <1>1, GoneStep, Zenon DEF RecordInv

\* The number of sectors is cut to its field.
LEMMA CountFits ==
  ASSUME NEW size \in Nat
  PROVE  SectorCount(size) \in 0..(Above(2) - 1)
<1>1. PICK m \in Nat : m = Base * Base /\ m > 0
  BY BaseAssumption
<1>2. Above(2) = m
  BY <1>1 DEF Above
<1>3. PICK n \in Nat : n = (size + 511) \div 512
  OBVIOUS
<1>4. n % m \in 0..(m - 1)
  BY <1>1
<1> QED
  BY <1>1, <1>2, <1>3, <1>4 DEF SectorCount, Cut16

LEMMA UpdateMbrStep ==
  ASSUME RecordInv, UpdateMbr
  PROVE  RecordInv'
<1>1. /\ kind = "mbr" /\ "mbr" \in Kinds /\ MemoryOK("mbr", memory)
      /\ HasTo("mbr", memory, Named("mbr"))
  BY DEF RecordInv, DoingOK, UpdateMbr, Kinds
<1>2. PICK two \in Stages, three \in Stages :
        memory' = [memory EXCEPT !["st2dap.sector"] = two.first_lba,
                                 !["st2dap.sector_count"] = SectorCount(two.size),
                                 !["st3dap.sector"] = three.first_lba,
                                 !["st3dap.sector_count"] = SectorCount(three.size)]
  BY DEF UpdateMbr
<1>3. /\ Named("mbr") = 12
      /\ FieldsOf("mbr")[6] = U64("st2dap.sector") /\ FieldsOf("mbr")[3] = U16("st2dap.sector_count")
      /\ FieldsOf("mbr")[11] = U64("st3dap.sector") /\ FieldsOf("mbr")[8] = U16("st3dap.sector_count")
  BY OfKind DEF MbrWrites
<1>4. /\ NameOf("mbr", 6) = "st2dap.sector" /\ NameOf("mbr", 3) = "st2dap.sector_count"
      /\ NameOf("mbr", 11) = "st3dap.sector" /\ NameOf("mbr", 8) = "st3dap.sector_count"
  BY <1>3 DEF NameOf, U16, U64
<1>5. 3 \in 1..Named("mbr") /\ 6 \in 1..Named("mbr") /\ 8 \in 1..Named("mbr") /\ 11 \in 1..Named("mbr")
  BY <1>3
<1>6. ASSUME NEW s \in Stages
      PROVE  /\ Fits(FieldsOf("mbr")[6], s.first_lba) /\ Fits(FieldsOf("mbr")[11], s.first_lba)
             /\ Fits(FieldsOf("mbr")[3], SectorCount(s.size))
             /\ Fits(FieldsOf("mbr")[8], SectorCount(s.size))
  <2>1. s.first_lba \in 0..(Above(8) - 1) /\ s.size \in Nat
    BY StagesAssumption
  <2>2. SectorCount(s.size) \in 0..(Above(2) - 1)
    BY <2>1, CountFits
  <2> QED
    BY <1>3, <2>1, <2>2 DEF Fits, U16, U64
<1>7. PICK m1, m2, m3, m4 :
        /\ m1 = [memory EXCEPT !["st2dap.sector"] = two.first_lba]
        /\ m2 = [m1 EXCEPT !["st2dap.sector_count"] = SectorCount(two.size)]
        /\ m3 = [m2 EXCEPT !["st3dap.sector"] = three.first_lba]
        /\ m4 = [m3 EXCEPT !["st3dap.sector_count"] = SectorCount(three.size)]
  OBVIOUS
<1>8. m4 = memory'
  BY <1>2, <1>7
<1>9. MemoryOK("mbr", m1) /\ HasTo("mbr", m1, Named("mbr"))
  BY <1>1, <1>4, <1>5, <1>6, <1>7, OneFieldSet
<1>10. MemoryOK("mbr", m2) /\ HasTo("mbr", m2, Named("mbr"))
  BY <1>1, <1>4, <1>5, <1>6, <1>7, <1>9, OneFieldSet
<1>11. MemoryOK("mbr", m3) /\ HasTo("mbr", m3, Named("mbr"))
  BY <1>1, <1>4, <1>5, <1>6, <1>7, <1>10, OneFieldSet
<1>12. MemoryOK("mbr", m4) /\ HasTo("mbr", m4, Named("mbr"))
  BY <1>1, <1>4, <1>5, <1>6, <1>7, <1>11, OneFieldSet
<1>13. CanWrite("mbr", m4)
  BY <1>1, <1>12, ReadyToWrite
<1>14. doing' = "write" /\ next' = 0 /\ UNCHANGED <<kind, disk, pos, cuts>>
  BY DEF UpdateMbr
<1> QED
  BY <1>1, <1>8, <1>12, <1>13, <1>14, ToWrite

LEMMA RecordInit == Init => RecordInv
<1> SUFFICES ASSUME Init
             PROVE  RecordInv
  OBVIOUS
<1>1. kind \in Kinds /\ doing = "nothing" /\ memory = <<>> /\ pos = 0 /\ next = 0 /\ cuts = 0
  BY DEF Init, Nothing, Kinds
<1>2. /\ 0 \in 0..SizeOf(kind) /\ 0 \in 0..(Count(kind) + 1) /\ 0 \in 0..MaxCuts
  BY <1>1, ReadsAreWrites, SizesAssumption, BoundAssumption DEF SizeOf
<1>3. disk \in Bytes(kind)
  <2>1. SizeOf("header") = SectorBytes /\ SizeOf("entry") = NameBytes + 56
        /\ SizeOf("mbr") = CodeBytes + 36
    BY OfKind
  <2>2. (NameBytes + 56) - 1 = NameBytes + 55 /\ (CodeBytes + 36) - 1 = CodeBytes + 35
    BY SizesAssumption
  <2>3. /\ [0..(SectorBytes - 1) -> Byte] = Bytes("header")
        /\ [0..(NameBytes + 55) -> Byte] = Bytes("entry")
        /\ [0..(CodeBytes + 35) -> Byte] = Bytes("mbr")
    BY <2>1, <2>2, Zenon DEF Bytes
  <2> QED
    BY <1>1, <2>3, FoundAssumption DEF Init, Kinds
<1> QED
  BY <1>1, <1>2, <1>3, GoneOK, Zenon DEF RecordInv

LEMMA RecordStays ==
  ASSUME UNCHANGED vars, RecordInv
  PROVE  RecordInv'
  BY Zenon DEF RecordInv, vars

LEMMA RecordNext ==
  ASSUME RecordInv, Next, CrcFits
  PROVE  RecordInv'
  BY ExitStep, BeginReadStep, ReadFieldStep, BeginWriteStep, WriteFieldStep,
     WriteFieldFailsStep, FormatHeaderStep, SetDiskUuidStep, KeepStep, SumEntriesStep,
     SumHeaderStep, SetEntryTypeStep, RefuseTypeStep, UpdateMbrStep, Zenon DEF Next

(* -- What the invariant says ----------------------------------------------- *)

(* The bytes of a record stay bytes, the stream stays in it where the next  *)
(* field is, memory holds what the fields of the record can, and the sums   *)
(* are in as far as the writing has come; for every header, identifier,     *)
(* type and stage, and wherever commands are cut short.                     *)
THEOREM RecordInvariance == ASSUME CrcFits PROVE Spec => []RecordInv
<1>1. RecordInv /\ [Next]_vars => RecordInv'
  BY CrcFits, RecordNext, RecordStays, Zenon
<1> QED
  BY <1>1, RecordInit, PTL DEF Spec

LEMMA RecordTyped == RecordInv => RecordTypeOK
<1> SUFFICES ASSUME RecordInv
             PROVE  RecordTypeOK
  OBVIOUS
<1>1. kind \in Kinds /\ disk \in Bytes(kind) /\ MemoryOK(kind, memory) /\ pos \in 0..SizeOf(kind)
      /\ next \in 0..(Count(kind) + 1) /\ cuts \in 0..MaxCuts
      /\ doing \in {"nothing", "read", "change", "write", "sum entries", "sum header", "done"}
  BY DEF RecordInv, DoingOK
<1>2. PICK size \in Nat : size = SizeOf(kind)
  <2>1. SizeOf(kind) \in Nat
    BY SizesAssumption DEF SizeOf
  <2> QED
    BY <2>1
<1>3. disk \in [0..(size - 1) -> Byte]
  BY <1>1, <1>2 DEF Bytes
<1>4. Cardinality(DOMAIN disk) = size
  <2>1. DOMAIN disk = 0..(size - 1)
    BY <1>3
  <2>2. Cardinality(0..(size - 1)) = IF 0 > size - 1 THEN 0 ELSE (size - 1) - 0 + 1
    BY 0 \in Int, size - 1 \in Int, FS_Interval
  <2>3. (IF 0 > size - 1 THEN 0 ELSE (size - 1) - 0 + 1) = size
    OBVIOUS
  <2> QED
    BY <2>1, <2>2, <2>3
<1>5. Len(Writes) = Count(kind)
  <2>1. Writes = FieldsOf(kind)
    BY Zenon DEF Writes, FieldsOf
  <2> QED
    BY <1>1, <2>1, ReadsAreWrites
<1>6. ASSUME NEW f \in Range(Reads), f.name \in DOMAIN memory
      PROVE  Decoded(f, Encoded(f, memory[f.name])) = memory[f.name]
  <2>1. Reads = ReadsOf(kind)
    BY Zenon DEF Reads, ReadsOf
  <2>2. PICK n \in 1..Named(kind) : f = FieldsOf(kind)[n]
    <3>1. PICK n \in DOMAIN Reads : f = Reads[n]
      BY <1>6 DEF Range
    <3>2. n \in 1..Named(kind) /\ Reads[n] = FieldsOf(kind)[n]
      BY <1>1, <2>1, <3>1, ReadsAreWrites
    <3> QED
      BY <3>1, <3>2
  <2>3. NameOf(kind, n) = f.name
    BY <2>2 DEF NameOf
  <2>4. Fits(f, memory[f.name])
    BY <1>1, <1>6, <2>2, <2>3, Zenon DEF MemoryOK
  <2>5. IsField(f)
    <3>1. n \in 1..Count(kind)
      <4>1. Named(kind) \in 1..Count(kind) /\ Count(kind) \in Nat /\ n \in 1..Named(kind)
        BY <1>1, ReadsAreWrites
      <4> QED
        BY <4>1
    <3> QED
      BY <1>1, <2>2, <3>1, FieldsFollow
  <2> QED
    BY <2>4, <2>5, FieldEncoded
<1>7. \A a \in DOMAIN disk : disk[a] \in Byte
  BY <1>3
<1>8. kind \in {"header", "entry", "mbr"}
  BY <1>1 DEF Kinds
<1> QED
  BY <1>1, <1>2, <1>4, <1>5, <1>6, <1>7, <1>8, Zenon DEF RecordTypeOK

(* Type correctness: the bytes are bytes, the stream is in the sector, and  *)
(* what is in memory fits the fields it is from: encoding it loses nothing. *)
THEOREM RecordTypeCorrect == ASSUME CrcFits PROVE Spec => []RecordTypeOK
<1>1. Spec => []RecordInv
  BY CrcFits, RecordInvariance
<1> QED
  BY <1>1, RecordTyped, PTL

\* A checksum that has been put in is read again.
LEMMA SumRead ==
  ASSUME NEW d, NEW n \in {4, 14}, NEW v \in 0..(Above(4) - 1),
         FieldIn("header", d, n) = encode_uint32(v)
  PROVE  StoredIn("header", d)[NameOf("header", n)] = v
<1>1. n \in 1..Named("header") /\ "header" \in Kinds
  BY OfKind DEF Kinds
<1>2. StoredIn("header", d)[NameOf("header", n)]
        = Decoded(FieldsOf("header")[n], FieldIn("header", d, n))
  BY <1>1, StoredAt
<1>3. FieldsOf("header")[n].width = 4 /\ ~FieldsOf("header")[n].array
  BY OfKind DEF HeaderWrites, U32
<1>4. \A b : Decoded(FieldsOf("header")[n], b) = decode_uint32(b)
  BY <1>3 DEF Decoded
<1>5. decode_uint32(encode_uint32(v)) = v
  BY 4 \in {2, 4, 8}, 4 = 4, NumbersComeBack
<1> QED
  BY <1>2, <1>4, <1>5

LEMMA HeadBytes ==
  ASSUME NEW d \in Bytes("header")
  PROVE  HeadOf(d) \in [1..92 -> Byte]
<1>1. d \in [0..(SectorBytes - 1) -> Byte]
  BY SumPlaces DEF Bytes
<1>2. \A n \in 1..92 : 0 + n - 1 \in 0..(SectorBytes - 1)
  BY SizesAssumption
<1>3. \A n \in 1..92 : Part(d, 0, 92)[n] \in Byte
  BY <1>1, <1>2 DEF Part
<1>4. 0 \in Byte
  BY BaseAssumption DEF Byte
<1> QED
  BY <1>3, <1>4 DEF HeadOf

(* A header that has been written verifies, gpt.c's checksum over the header *)
(* with its own field zero, and holds the sum of the entries.                *)
THEOREM HeadersVerify == ASSUME CrcFits PROVE Spec => []SumsVerify
<1>1. ASSUME RecordInv, kind = "header", doing = "done"
      PROVE  /\ Stored["checksum"] = crc32(HeadOf(disk))
             /\ Stored["partition_entries_checksum"] \in Sums
  <2>1. /\ disk \in Bytes("header") /\ SumOfEntries(disk)
        /\ FieldIn("header", disk, 4) = encode_uint32(crc32(HeadOf(disk)))
    BY <1>1 DEF RecordInv, SumsOK
  <2>2. NameOf("header", 4) = "checksum" /\ NameOf("header", 14) = "partition_entries_checksum"
    BY OfKind DEF NameOf, HeaderWrites, U32
  <2>3. Stored = StoredIn("header", disk)
    BY <1>1, StoredIs
  <2>4. HeadOf(disk) \in [1..92 -> Byte]
    BY <2>1, HeadBytes
  <2>5. crc32(HeadOf(disk)) \in 0..(Above(4) - 1)
    BY <2>4, CrcFits DEF CrcFits
  <2>6. Stored["checksum"] = crc32(HeadOf(disk))
    BY <2>1, <2>2, <2>3, <2>5, 4 \in {4, 14}, SumRead
  <2>7. PICK sum \in Sums : FieldIn("header", disk, 14) = encode_uint32(sum)
    BY <2>1 DEF SumOfEntries
  <2>8. sum \in 0..(Above(4) - 1)
    BY SumsAssumption
  <2>9. Stored["partition_entries_checksum"] = sum
    BY <2>2, <2>3, <2>7, <2>8, 14 \in {4, 14}, SumRead
  <2> QED
    BY <2>6, <2>9
<1>2. HeadOf(disk) = [k \in 1..92 |-> IF k \in 17..20 THEN 0 ELSE Slice(0, 92)[k]]
  BY Zenon DEF HeadOf, Part, Slice
<1>3. RecordInv => SumsVerify
  BY <1>1, <1>2, Zenon DEF SumsVerify
<1>4. Spec => []RecordInv
  BY CrcFits, RecordInvariance
<1> QED
  BY <1>3, <1>4, PTL

(* -- Records implement named fields ---------------------------------------- *)

\* The mapping, of any state.
PhaseOf(does) == CASE does = "nothing" -> "idle"
                   [] does = "read"    -> "load"
                   [] does = "change"  -> "held"
                   [] does = "write"   -> "store"
                   [] OTHER            -> "stored"
LeftOf(k, does, n) ==
  IF does \in {"read", "write"}
  THEN LET fields == IF does = "read" THEN ReadsOf(k) ELSE FieldsOf(k)
       IN {fields[i].name : i \in {j \in DOMAIN fields : j >= n}} \cap DOMAIN IndexIn(k)
  ELSE {}
LeftNow == IF doing \in {"read", "write"} THEN Left ELSE {}

LEMMA MappingIs ==
  /\ Phase = PhaseOf(doing) /\ Phase' = PhaseOf(doing')
  /\ LeftNow = LeftOf(kind, doing, next) /\ LeftNow' = LeftOf(kind', doing', next')
BY Zenon DEF Phase, PhaseOf, LeftNow, LeftOf, Left, Reads, ReadsOf, Writes, FieldsOf, Index, IndexIn

LEMMA PhasesAre ==
  /\ PhaseOf("nothing") = "idle" /\ PhaseOf("read") = "load" /\ PhaseOf("change") = "held"
  /\ PhaseOf("write") = "store" /\ PhaseOf("sum entries") = "stored"
  /\ PhaseOf("sum header") = "stored" /\ PhaseOf("done") = "stored"
BY DEF PhaseOf

\* The names from field n on; the end of a header's sector has none.
NamesFrom(k, n) == {NameOf(k, i) : i \in {j \in 1..Named(k) : j >= n}}

LEMMA LeftIs ==
  ASSUME NEW k \in Kinds, NEW n \in Nat
  PROVE  /\ LeftOf(k, "read", n) = NamesFrom(k, n) /\ LeftOf(k, "write", n) = NamesFrom(k, n)
         /\ \A does : does \notin {"read", "write"} => LeftOf(k, does, n) = {}
<1>1. /\ DOMAIN ReadsOf(k) = 1..Named(k) /\ DOMAIN FieldsOf(k) = 1..Count(k)
      /\ Named(k) \in 1..Count(k) /\ Count(k) \in Nat
      /\ \A i \in 1..Named(k) : ReadsOf(k)[i].name = NameOf(k, i)
  BY ReadsAreWrites DEF NameOf
<1>2. DOMAIN IndexIn(k) = {NameOf(k, i) : i \in 1..Named(k)}
  BY StoredAt DEF NamesOf
<1>3. \A i \in 1..Named(k) : i \in 1..Count(k)
  BY <1>1
<1>4. ASSUME NEW i \in 1..Count(k), NameOf(k, i) \in DOMAIN IndexIn(k)
      PROVE  i \in 1..Named(k)
  BY <1>2, <1>3, <1>4, NamesApart
<1>5. LeftOf(k, "read", n) = NamesFrom(k, n)
  <2>1. {ReadsOf(k)[i].name : i \in {j \in DOMAIN ReadsOf(k) : j >= n}} \cap DOMAIN IndexIn(k)
          = NamesFrom(k, n)
    BY <1>1, <1>2 DEF NamesFrom
  <2> QED
    BY <2>1 DEF LeftOf
<1>6. LeftOf(k, "write", n) = NamesFrom(k, n)
  <2>1. {FieldsOf(k)[i].name : i \in {j \in DOMAIN FieldsOf(k) : j >= n}} \cap DOMAIN IndexIn(k)
          = NamesFrom(k, n)
    <3>1. \A i : FieldsOf(k)[i].name = NameOf(k, i)
      BY DEF NameOf
    <3> QED
      BY <1>1, <1>2, <1>3, <1>4, <3>1 DEF NamesFrom
  <2> QED
    BY <2>1 DEF LeftOf
<1> QED
  BY <1>5, <1>6 DEF LeftOf

LEMMA NamesGoOn ==
  ASSUME NEW k \in Kinds
  PROVE  /\ NamesFrom(k, 0) = NamesOf(k) /\ NamesFrom(k, 1) = NamesOf(k)
         /\ \A n \in 1..Named(k) : /\ NameOf(k, n) \in NamesFrom(k, n)
                                   /\ NamesFrom(k, n + 1) = NamesFrom(k, n) \ {NameOf(k, n)}
                                   /\ n < Named(k) => NamesFrom(k, n + 1) # {}
                                   /\ n = Named(k) => NamesFrom(k, n + 1) = {}
         /\ \A n \in Nat : n > Named(k) => NamesFrom(k, n) = {}
<1>1. PICK N \in Nat : N = Named(k)
  BY ReadsAreWrites
<1>2. \A i \in 1..N, j \in 1..N : NameOf(k, i) = NameOf(k, j) => i = j
  <2>1. \A i \in 1..N : i \in 1..Count(k)
    BY <1>1, ReadsAreWrites
  <2> QED
    BY <2>1, NamesApart
<1>3. \A n : NamesFrom(k, n) = {NameOf(k, i) : i \in {j \in 1..N : j >= n}}
  BY <1>1 DEF NamesFrom
<1>4. NamesFrom(k, 0) = NamesOf(k) /\ NamesFrom(k, 1) = NamesOf(k)
  <2>1. {j \in 1..N : j >= 0} = 1..N /\ {j \in 1..N : j >= 1} = 1..N
    OBVIOUS
  <2> QED
    BY <1>1, <1>3, <2>1 DEF NamesOf
<1>5. ASSUME NEW n \in 1..N
      PROVE  /\ NameOf(k, n) \in NamesFrom(k, n)
             /\ NamesFrom(k, n + 1) = NamesFrom(k, n) \ {NameOf(k, n)}
  <2>1. \A i \in 1..N : i >= n + 1 <=> i >= n /\ i # n
    OBVIOUS
  <2> QED
    BY <1>2, <1>3, <2>1
<1>6. ASSUME NEW n \in 1..N, n < N
      PROVE  NamesFrom(k, n + 1) # {}
  <2>1. n + 1 \in 1..N /\ n + 1 >= n + 1
    BY <1>6
  <2> QED
    BY <1>3, <2>1
<1>7. ASSUME NEW n \in Nat, n > N
      PROVE  NamesFrom(k, n) = {}
  <2>1. {j \in 1..N : j >= n} = {}
    BY <1>7
  <2> QED
    BY <1>3, <2>1
<1>8. N + 1 \in Nat /\ N + 1 > N
  OBVIOUS
<1> QED
  BY <1>1, <1>4, <1>5, <1>6, <1>7, <1>8

\* If the bytes of all fields but one stay, so does what is under all names but one.
LEMMA OthersStored ==
  ASSUME NEW k \in Kinds, NEW d, NEW e, NEW n \in 1..Count(k),
         \A m \in 1..Count(k) : m # n => FieldIn(k, e, m) = FieldIn(k, d, m)
  PROVE  /\ \A name \in NamesOf(k) : name # NameOf(k, n) => StoredIn(k, e)[name] = StoredIn(k, d)[name]
         /\ n > Named(k) => StoredIn(k, e) = StoredIn(k, d)
<1>1. /\ \A m \in 1..Named(k) : StoredIn(k, d)[NameOf(k, m)] = Decoded(FieldsOf(k)[m], FieldIn(k, d, m))
      /\ \A m \in 1..Named(k) : StoredIn(k, e)[NameOf(k, m)] = Decoded(FieldsOf(k)[m], FieldIn(k, e, m))
      /\ DOMAIN StoredIn(k, d) = NamesOf(k) /\ DOMAIN StoredIn(k, e) = NamesOf(k)
  BY StoredAt
<1>2. /\ \A m \in 1..Named(k) : m \in 1..Count(k)
      /\ n > Named(k) => \A m \in 1..Named(k) : m # n
  BY ReadsAreWrites
<1>3. ASSUME NEW m \in 1..Named(k), m # n
      PROVE  StoredIn(k, e)[NameOf(k, m)] = StoredIn(k, d)[NameOf(k, m)]
  <2>1. FieldIn(k, e, m) = FieldIn(k, d, m)
    BY <1>2, <1>3
  <2> QED
    BY <1>1, <2>1, Zenon
<1>4. ASSUME n > Named(k)
      PROVE  StoredIn(k, e) = StoredIn(k, d)
  <2>1. \A name \in NamesOf(k) : StoredIn(k, e)[name] = StoredIn(k, d)[name]
    BY <1>2, <1>3, <1>4, Zenon DEF NamesOf
  <2>2. /\ StoredIn(k, e) = [name \in NamesOf(k) |-> StoredIn(k, e)[name]]
        /\ StoredIn(k, d) = [name \in NamesOf(k) |-> StoredIn(k, d)[name]]
    BY <1>1 DEF StoredIn
  <2> QED
    BY <2>1, <2>2, Zenon
<1> QED
  BY <1>3, <1>4, Zenon DEF NamesOf

\* A step to which the disk is the same.
LEMMA StoredStays ==
  ASSUME UNCHANGED <<kind, disk>>
  PROVE  Stored' = Stored
BY StoredIs, Zenon

LEMMA NamesStored ==
  ASSUME RecordInv
  PROVE  kind \in Kinds /\ DOMAIN Stored = NamesOf(kind)
BY StoredIs, StoredAt DEF RecordInv

\* A program that ends cuts off what it was doing.
LEMMA GoneCuts ==
  ASSUME RecordInv, Gone, doing # "nothing",
         \/ Stored' = Stored
         \/ /\ doing = "write"
            /\ \E name \in LeftNow : NamedFields!Changed \subseteq {name}
         \/ /\ doing \in {"sum entries", "sum header"}
            /\ \E name \in NamedFields!SumNames : NamedFields!Changed \subseteq {name}
  PROVE  NamedFields!Cut
<1>1. doing' = "nothing"
  BY DEF Gone
<1>2. LeftNow' = {}
  BY <1>1 DEF LeftNow
<1>3. Phase' = "idle" /\ Phase # "idle"
  BY <1>1, MappingIs, PhasesAre DEF RecordInv, DoingOK
<1>4. /\ doing = "write" => Phase = "store"
      /\ doing \in {"sum entries", "sum header"} => Phase = "stored"
  BY MappingIs, PhasesAre
<1> QED
  BY <1>2, <1>3, <1>4, Zenon DEF NamedFields!Cut, LeftNow

LEMMA ExitMaps ==
  ASSUME RecordInv, Exit
  PROVE  NamedFields!Cut
<1>1. Gone /\ doing # "nothing" /\ UNCHANGED <<kind, disk>>
  BY DEF Exit, Gone
<1> QED
  BY <1>1, StoredStays, GoneCuts

LEMMA RefuseMaps ==
  ASSUME RecordInv, RefuseType
  PROVE  NamedFields!Cut
<1>1. Gone /\ doing # "nothing" /\ UNCHANGED <<kind, disk>>
  BY DEF RefuseType, Gone
<1> QED
  BY <1>1, StoredStays, GoneCuts

LEMMA BeginReadMaps ==
  ASSUME RecordInv, BeginRead
  PROVE  NamedFields!Load
<1>1. doing = "nothing" /\ doing' = "read" /\ next' = 1 /\ UNCHANGED <<kind, disk, memory>>
  BY DEF BeginRead
<1>2. Phase = "idle" /\ Phase' = "load"
  BY <1>1, MappingIs, PhasesAre
<1>3. LeftNow' = DOMAIN Stored
  <2>1. LeftNow' = LeftOf(kind, "read", 1)
    BY <1>1, MappingIs, Zenon
  <2>2. LeftOf(kind, "read", 1) = NamesOf(kind)
    BY NamesStored, 1 \in Nat, LeftIs, NamesGoOn
  <2> QED
    BY <2>1, <2>2, NamesStored
<1>4. Stored' = Stored /\ memory' = memory
  BY <1>1, StoredStays
<1> QED
  BY <1>2, <1>3, <1>4, Zenon DEF NamedFields!Load, LeftNow

\* A structure is about to be written, whatever has been done with it.
LEMMA StoreMaps ==
  ASSUME RecordInv, doing \in {"nothing", "change"}, doing' = "write", next' = 0,
         UNCHANGED <<kind, disk>>
  PROVE  NamedFields!Store
<1>1. Phase \in {"idle", "held"} /\ Phase' = "store"
  BY MappingIs, PhasesAre
<1>2. LeftNow' = DOMAIN Stored
  <2>1. LeftNow' = LeftOf(kind, "write", 0)
    BY MappingIs, Zenon
  <2>2. LeftOf(kind, "write", 0) = NamesOf(kind)
    BY NamesStored, 0 \in Nat, LeftIs, NamesGoOn
  <2> QED
    BY <2>1, <2>2, NamesStored
<1>3. Stored' = Stored
  BY StoredStays
<1> QED
  BY <1>1, <1>2, <1>3, Zenon DEF NamedFields!Store, LeftNow

LEMMA ChangeMaps ==
  ASSUME RecordInv, \/ FormatHeader \/ SetDiskUuid \/ KeepHeader
                    \/ SetEntryType \/ KeepEntry \/ UpdateMbr
  PROVE  NamedFields!Store
<1>1. /\ doing \in {"nothing", "change"} /\ doing' = "write" /\ next' = 0
      /\ UNCHANGED <<kind, disk>>
  BY DEF FormatHeader, SetDiskUuid, KeepHeader, SetEntryType, KeepEntry, UpdateMbr
<1> QED
  BY <1>1, StoreMaps

\* All fields are left still, whether the writing has been told to begin or has.
LEMMA BeginWriteMaps ==
  ASSUME RecordInv, BeginWrite
  PROVE  UNCHANGED NamedFields!fieldVars
<1>1. /\ doing = "write" /\ doing' = "write" /\ next = 0 /\ next' = 1
      /\ UNCHANGED <<kind, disk, memory>>
  BY DEF BeginWrite
<1>2. Phase' = Phase
  BY <1>1, MappingIs
<1>3. LeftNow' = LeftNow
  <2>1. LeftNow' = LeftOf(kind, "write", 1) /\ LeftNow = LeftOf(kind, "write", 0)
    BY <1>1, MappingIs, Zenon
  <2> QED
    BY <2>1, NamesStored, 0 \in Nat, 1 \in Nat, LeftIs, NamesGoOn
<1>4. Stored' = Stored /\ memory' = memory
  BY <1>1, StoredStays
<1> QED
  BY <1>2, <1>3, <1>4, Zenon DEF NamedFields!fieldVars, LeftNow

LEMMA ReadFieldMaps ==
  ASSUME RecordInv, ReadField
  PROVE  NamedFields!LoadField
<1>1. /\ kind \in Kinds /\ next \in 1..Named(kind) /\ next' = next + 1 /\ doing = "read"
      /\ FieldSet(kind, memory, next, Decoded(FieldsOf(kind)[next], FieldIn(kind, disk, next)), memory')
      /\ doing' = IF next = Named(kind) THEN "change" ELSE "read"
      /\ UNCHANGED <<kind, disk>>
  BY FieldRead DEF ReadField
<1>2. PICK name : name = NameOf(kind, next)
  OBVIOUS
<1>3. Stored[name] = Decoded(FieldsOf(kind)[next], FieldIn(kind, disk, next))
  BY <1>1, <1>2, StoredIs, StoredAt
<1>4. memory' = [n \in DOMAIN memory \cup {name} |-> IF n = name THEN Stored[n] ELSE memory[n]]
  <2>1. PICK f : f = Reads[next]
    OBVIOUS
  <2>2. memory' = With(f, Decoded(f, Slice(pos, f.width)))
    BY <2>1, Zenon DEF ReadField
  <2>3. PICK v : v = Decoded(f, Slice(pos, f.width))
    OBVIOUS
  <2>4. memory' = [n \in DOMAIN memory \cup {f.name} |-> IF n = f.name THEN v ELSE memory[n]]
    BY <2>2, <2>3, Zenon DEF With
  <2>5. f.name = name
    <3>1. Reads = ReadsOf(kind)
      BY Zenon DEF Reads, ReadsOf
    <3>2. ReadsOf(kind)[next] = FieldsOf(kind)[next]
      BY <1>1, ReadsAreWrites
    <3> QED
      BY <1>2, <2>1, <3>1, <3>2, Zenon DEF NameOf
  <2>6. v = Stored[name]
    <3>1. memory'[name] = v
      BY <2>4, <2>5
    <3>2. memory'[name] = Stored[name]
      BY <1>1, <1>2, <1>3 DEF FieldSet
    <3> QED
      BY <3>1, <3>2
  <2> QED
    BY <2>4, <2>5, <2>6
<1>5. /\ LeftNow = NamesFrom(kind, next)
      /\ LeftNow' = NamesFrom(kind, next + 1)
  <2>1. LeftNow = LeftOf(kind, "read", next) /\ LeftNow' = LeftOf(kind, doing', next + 1)
    BY <1>1, MappingIs, Zenon
  <2>2. next \in Nat /\ next + 1 \in Nat
    BY <1>1
  <2>3. LeftOf(kind, "read", next) = NamesFrom(kind, next)
        /\ LeftOf(kind, "read", next + 1) = NamesFrom(kind, next + 1)
    BY <1>1, <2>2, LeftIs
  <2>4. CASE next = Named(kind)
    <3>1. doing' = "change" /\ LeftOf(kind, "change", next + 1) = {}
      BY <1>1, <2>2, <2>4, LeftIs
    <3>2. NamesFrom(kind, next + 1) = {}
      BY <1>1, <2>4, NamesGoOn
    <3> QED
      BY <2>1, <2>3, <3>1, <3>2
  <2>5. CASE next # Named(kind)
    BY <1>1, <2>1, <2>3, <2>5
  <2> QED
    BY <2>4, <2>5
<1>6. name \in LeftNow /\ LeftNow' = LeftNow \ {name}
  BY <1>1, <1>2, <1>5, NamesGoOn, Zenon
<1>7. Phase = "load" /\ Phase' = IF LeftNow' = {} THEN "held" ELSE "load"
  <2>1. Phase = "load" /\ Phase' = PhaseOf(doing')
    BY <1>1, MappingIs, PhasesAre
  <2>2. next = Named(kind) <=> LeftNow' = {}
    <3>1. Named(kind) \in Nat
      BY <1>1, ReadsAreWrites
    <3>2. next < Named(kind) \/ next = Named(kind)
      BY <1>1, <3>1
    <3> QED
      BY <1>1, <1>5, <3>2, NamesGoOn
  <2> QED
    BY <1>1, <2>1, <2>2, PhasesAre
<1>8. Stored' = Stored
  BY <1>1, StoredStays
<1> QED
  BY <1>4, <1>6, <1>7, <1>8, Zenon DEF NamedFields!LoadField, LeftNow

\* The names whose value is another, if one field has other bytes.
LEMMA ChangedOne ==
  ASSUME RecordInv, kind' = kind, NEW n \in 1..Count(kind),
         \A m \in 1..Count(kind) : m # n => FieldIn(kind, disk', m) = FieldIn(kind, disk, m)
  PROVE  /\ NamedFields!Changed \subseteq {NameOf(kind, n)}
         /\ n > Named(kind) => Stored' = Stored
<1>1. /\ Stored = StoredIn(kind, disk) /\ Stored' = StoredIn(kind, disk')
      /\ kind \in Kinds /\ DOMAIN Stored = NamesOf(kind)
  BY StoredIs, NamesStored
<1>2. PICK k, d, e : k = kind /\ d = disk /\ e = disk'
  OBVIOUS
<1>3. k \in Kinds /\ n \in 1..Count(k)
      /\ \A m \in 1..Count(k) : m # n => FieldIn(k, e, m) = FieldIn(k, d, m)
  BY <1>1, <1>2, Zenon
<1>4. /\ \A name \in NamesOf(k) : name # NameOf(k, n) => StoredIn(k, e)[name] = StoredIn(k, d)[name]
      /\ n > Named(k) => StoredIn(k, e) = StoredIn(k, d)
  BY <1>3, OthersStored
<1>5. \A name \in DOMAIN Stored : name # NameOf(kind, n) => Stored'[name] = Stored[name]
  BY <1>1, <1>2, <1>4, Zenon
<1>6. n > Named(kind) => Stored' = Stored
  BY <1>1, <1>2, <1>4, Zenon
<1> QED
  BY <1>5, <1>6, Zenon DEF NamedFields!Changed

\* One field is stored as its literal, or as what is held of it; the end of a
\* header's sector is no field.
LEMMA WriteFieldMaps ==
  ASSUME RecordInv, WriteField
  PROVE  NamedFields!StoreField \/ NamedFields!EndStore
<1>1. /\ kind \in Kinds /\ next \in 1..Count(kind)
      /\ \A m \in 1..Count(kind) : m # next => FieldIn(kind, disk', m) = FieldIn(kind, disk, m)
      /\ FieldIn(kind, disk', next) = Encoded(FieldsOf(kind)[next], Wanted(kind, memory, next))
      /\ Fits(FieldsOf(kind)[next], Wanted(kind, memory, next))
      /\ next' = next + 1
      /\ doing' = IF next < Count(kind) THEN "write"
                  ELSE IF kind = "header" THEN "sum entries" ELSE "done"
      /\ kind' = kind /\ memory' = memory
  BY FieldWrite
<1>2. doing = "write"
  BY DEF WriteField
<1>3. PICK name : name = NameOf(kind, next)
  OBVIOUS
<1>4. NamedFields!Changed \subseteq {name} /\ (next > Named(kind) => Stored' = Stored)
  BY <1>1, <1>3, ChangedOne
<1>5. Phase = "store" /\ Phase' = IF next < Count(kind) THEN "store" ELSE "stored"
  <2>1. Phase = "store" /\ Phase' = PhaseOf(doing')
    BY <1>2, MappingIs, PhasesAre
  <2>2. doing' \in {"write", "sum entries", "done"} /\ (doing' = "write" <=> next < Count(kind))
    BY <1>1
  <2> QED
    BY <2>1, <2>2, PhasesAre
<1>0. PICK C, N, n : C = Count(kind) /\ N = Named(kind) /\ n = next
  OBVIOUS
<1>6. /\ N \in 1..C /\ C \in Nat /\ n \in 1..C /\ n \in Nat /\ n + 1 \in Nat
      /\ N = C \/ (kind = "header" /\ C = 15 /\ N = 14)
  <2>1. kind \in Kinds /\ n \in 1..C
    BY <1>0, <1>1, Zenon
  <2>2. N \in 1..C /\ C \in Nat /\ (kind # "header" => N = C)
    BY <1>0, <2>1, ReadsAreWrites, Zenon
  <2>3. kind = "header" => C = 15 /\ N = 14
    BY <1>0, OfKind, Zenon
  <2> QED
    BY <2>1, <2>2, <2>3
<1>7. LeftNow = NamesFrom(kind, next) /\ LeftNow' = NamesFrom(kind, next + 1)
  <2>1. LeftNow = LeftOf(kind, "write", next) /\ LeftNow' = LeftOf(kind, doing', next + 1)
    BY <1>1, <1>2, MappingIs, Zenon
  <2>2. /\ LeftOf(kind, "write", next) = NamesFrom(kind, next)
        /\ LeftOf(kind, "write", next + 1) = NamesFrom(kind, next + 1)
        /\ \A does : does \notin {"read", "write"} => LeftOf(kind, does, next + 1) = {}
    <3>1. kind \in Kinds
      BY <1>1, Zenon
    <3> QED
      BY <1>0, <1>6, <3>1, LeftIs, Zenon
  <2>3. CASE next < Count(kind)
    BY <1>1, <2>1, <2>2, <2>3
  <2>4. CASE ~(next < Count(kind))
    <3>1. doing' \notin {"read", "write"}
      BY <1>1, <2>4
    <3>2. NamesFrom(kind, next + 1) = {}
      <4>1. n + 1 > N /\ n + 1 \in Nat
        <5>1. ~(n < C)
          BY <1>0, <2>4, Zenon
        <5> QED
          BY <1>6, <5>1
      <4>2. kind \in Kinds
        BY <1>1, Zenon
      <4> QED
        BY <1>0, <4>1, <4>2, NamesGoOn, Zenon
    <3> QED
      BY <2>1, <2>2, <3>1, <3>2
  <2> QED
    BY <2>3, <2>4
<1>8. CASE next > Named(kind)
  <2>1. LeftNow = {} /\ LeftNow' = {}
    <3>1. n > N
      BY <1>0, <1>8, Zenon
    <3>2. n + 1 > N
      BY <1>6, <3>1
    <3>3. kind \in Kinds
      BY <1>1, Zenon
    <3> QED
      BY <1>0, <1>6, <1>7, <3>1, <3>2, <3>3, NamesGoOn, Zenon
  <2>2. Stored' = Stored
    BY <1>4, <1>8
  <2>3. ~(next < Count(kind))
    <3>1. n > N
      BY <1>0, <1>8, Zenon
    <3>2. ~(n < C)
      BY <1>6, <3>1
    <3> QED
      BY <1>0, <3>2, Zenon
  <2>4. Phase' = "stored"
    BY <1>5, <2>3
  <2> QED
    BY <1>1, <1>5, <2>1, <2>2, <2>4, Zenon DEF NamedFields!EndStore, LeftNow
<1>9. CASE ~(next > Named(kind))
  <2>1. next \in 1..Named(kind)
    <3>1. ~(n > N)
      BY <1>0, <1>9, Zenon
    <3>2. n \in 1..N
      BY <1>6, <3>1
    <3> QED
      BY <1>0, <3>2, Zenon
  <2>2. name \in LeftNow /\ LeftNow' = LeftNow \ {name}
    BY <1>1, <1>3, <1>7, <2>1, NamesGoOn, Zenon
  <2>3. Stored'[name] = IF name \in DOMAIN Literals THEN Literals[name] ELSE memory[name]
    <3>1. PICK f, v : f = FieldsOf(kind)[next] /\ v = Wanted(kind, memory, next)
      OBVIOUS
    <3>2. Stored'[name] = Decoded(f, FieldIn(kind, disk', next))
      <4>1. Stored' = StoredIn(kind, disk')
        BY <1>1, StoredIs, Zenon
      <4>2. PICK e : e = disk'
        OBVIOUS
      <4>3. StoredIn(kind, e)[NameOf(kind, next)] = Decoded(FieldsOf(kind)[next], FieldIn(kind, e, next))
        BY <1>1, <2>1, StoredAt
      <4> QED
        BY <1>3, <3>1, <4>1, <4>2, <4>3, Zenon
    <3>3. Decoded(f, Encoded(f, v)) = v
      <4>1. IsField(f)
        BY <1>1, <3>1, FieldsFollow
      <4> QED
        BY <1>1, <3>1, <4>1, FieldEncoded
    <3>4. Stored'[name] = v
      BY <1>1, <3>1, <3>2, <3>3, Zenon
    <3> QED
      BY <1>3, <3>1, <3>4, Zenon DEF Wanted
  <2>4. Phase' \in {"store", "stored"} /\ (Phase' = "stored" => LeftNow' = {})
    <3>1. CASE next < Count(kind)
      BY <1>5, <3>1
    <3>2. CASE ~(next < Count(kind))
      <4>1. next = Named(kind)
        <5>1. ~(n < C) /\ n \in 1..N
          BY <1>0, <2>1, <3>2, Zenon
        <5>2. n = N
          BY <1>6, <5>1
        <5> QED
          BY <1>0, <5>2, Zenon
      <4>2. LeftNow' = {}
        BY <1>1, <1>7, <2>1, <4>1, NamesGoOn
      <4> QED
        BY <1>5, <3>2, <4>2
    <3> QED
      BY <3>1, <3>2
  <2> QED
    BY <1>1, <1>4, <1>5, <2>2, <2>3, <2>4, Zenon DEF NamedFields!StoreField, LeftNow
<1> QED
  BY <1>8, <1>9

LEMMA WriteFieldFailsMaps ==
  ASSUME RecordInv, WriteFieldFails
  PROVE  NamedFields!Cut
<1>1. /\ kind \in Kinds /\ next \in 1..Count(kind) /\ doing = "write"
      /\ \A m \in 1..Count(kind) : m # next => FieldIn(kind, disk', m) = FieldIn(kind, disk, m)
      /\ Gone /\ kind' = kind
  BY FieldCut DEF WriteFieldFails, Gone
<1>2. /\ NamedFields!Changed \subseteq {NameOf(kind, next)}
      /\ next > Named(kind) => Stored' = Stored
  BY <1>1, ChangedOne
<1>3. CASE next > Named(kind)
  BY <1>1, <1>2, <1>3, GoneCuts
<1>4. CASE ~(next > Named(kind))
  <2>1. next \in 1..Named(kind) /\ next \in Nat
    BY <1>1, <1>4, ReadsAreWrites
  <2>2. LeftNow = NamesFrom(kind, next)
    BY <1>1, <2>1, MappingIs, LeftIs
  <2>3. NameOf(kind, next) \in LeftNow
    BY <1>1, <2>1, <2>2, NamesGoOn
  <2> QED
    BY <1>1, <1>2, <2>3, GoneCuts
<1> QED
  BY <1>3, <1>4

LEMMA SumNamesAre ==
  NameOf("header", 4) = "checksum" /\ NameOf("header", 14) = "partition_entries_checksum"
BY OfKind DEF NameOf, HeaderWrites, U32

\* A checksum that is put in, or cut off in the middle, is the field of its name.
LEMMA SumMaps ==
  ASSUME RecordInv, kind = "header", doing \in {"sum entries", "sum header"},
         NEW n \in {4, 14}, NEW v \in 0..(Above(4) - 1), PutAt(At("header", n), v)
  PROVE  NamedFields!Sum \/ NamedFields!Cut
<1>1. /\ \A m \in 1..Count("header") :
           m # n => FieldIn("header", disk', m) = FieldIn("header", disk, m)
      /\ \/ /\ doing' = IF doing = "sum entries" THEN "sum header" ELSE "done"
            /\ UNCHANGED <<kind, memory>>
         \/ Gone
  BY SumPut
<1>2. n \in 1..Count(kind) /\ kind' = kind
  BY <1>1, SumPlaces DEF Gone
<1>3. NamedFields!Changed \subseteq {NameOf(kind, n)}
  BY <1>1, <1>2, ChangedOne
<1>4. NameOf(kind, n) \in NamedFields!SumNames
  <2>1. NameOf(kind, n) = NameOf("header", n)
    OBVIOUS
  <2> QED
    BY <2>1, SumNamesAre DEF NamedFields!SumNames
<1>5. CASE Gone
  BY <1>3, <1>4, <1>5, GoneCuts
<1>6. CASE /\ doing' = IF doing = "sum entries" THEN "sum header" ELSE "done"
           /\ UNCHANGED <<kind, memory>>
  <2>1. Phase = "stored" /\ Phase' = "stored"
    BY <1>6, MappingIs, PhasesAre
  <2>2. LeftNow' = LeftNow
    BY <1>6 DEF LeftNow
  <2> QED
    BY <1>3, <1>4, <1>6, <2>1, <2>2, Zenon DEF NamedFields!Sum, LeftNow
<1> QED
  BY <1>1, <1>5, <1>6

LEMMA SumEntriesMaps ==
  ASSUME RecordInv, SumEntries
  PROVE  NamedFields!Sum \/ NamedFields!Cut
<1>1. doing = "sum entries" /\ kind = "header"
  BY DEF RecordInv, DoingOK, SumEntries
<1>2. PICK sum \in Sums : PutAt(88, sum)
  BY DEF SumEntries
<1>3. sum \in 0..(Above(4) - 1) /\ PutAt(At("header", 14), sum) /\ 14 \in {4, 14}
  BY <1>2, SumPlaces, SumsAssumption
<1> QED
  BY <1>1, <1>3, SumMaps

LEMMA SumHeaderMaps ==
  ASSUME RecordInv, SumHeader, CrcFits
  PROVE  NamedFields!Sum \/ NamedFields!Cut
<1>1. /\ kind = "header" /\ doing = "sum header" /\ disk \in Bytes("header")
      /\ FieldIn("header", disk, 4) = encode_uint32(0)
  BY DEF RecordInv, DoingOK, SumsOK, SumHeader
<1>2. PICK crc \in 0..(Above(4) - 1) : crc = crc32(HeadOf(disk))
  BY <1>1, HeadIs DEF CrcFits
<1>3. PutAt(At("header", 4), crc) /\ 4 \in {4, 14}
  <2>1. Slice(0, 92) = HeadOf(disk)
    BY <1>1, HeadIs, Zenon DEF Slice, Part
  <2>2. PutAt(16, crc)
    BY <1>2, <2>1, Zenon DEF SumHeader
  <2> QED
    BY <2>2, SumPlaces
<1> QED
  BY <1>1, <1>3, SumMaps

(* A record is a structure of named fields: what is written under a name is *)
(* what is read under it, the checksums, whose places are numbers in gpt.c, *)
(* are the fields of that name, and whatever is cut off where leaves at     *)
(* most one field neither old nor new.                                      *)
THEOREM RecordsImplementFields == ASSUME CrcFits PROVE Spec => ImplementsFields
<1>1. Init => NamedFields!Init
  <2>1. Init => Phase = "idle" /\ LeftNow = {}
    BY MappingIs, PhasesAre DEF Init, LeftNow
  <2> QED
    BY <2>1, Zenon DEF NamedFields!Init, LeftNow
<1>2. ASSUME RecordInv, Next
      PROVE  NamedFields!Next \/ UNCHANGED NamedFields!fieldVars
  BY <1>2, CrcFits, ExitMaps, BeginReadMaps, ReadFieldMaps, BeginWriteMaps, WriteFieldMaps,
     WriteFieldFailsMaps, ChangeMaps, SumEntriesMaps, SumHeaderMaps, RefuseMaps, Zenon
     DEF Next, NamedFields!Next
<1>3. ASSUME UNCHANGED vars
      PROVE  UNCHANGED NamedFields!fieldVars
  <2>1. /\ kind' = kind /\ disk' = disk /\ memory' = memory /\ doing' = doing /\ next' = next
    BY <1>3 DEF vars
  <2>2. Stored' = Stored /\ Phase' = Phase /\ LeftNow' = LeftNow
    BY <2>1, StoredStays, MappingIs, Zenon
  <2> QED
    BY <2>1, <2>2, Zenon DEF NamedFields!fieldVars, LeftNow
<1>4. RecordInv /\ [Next]_vars => [NamedFields!Next]_(NamedFields!fieldVars)
  BY <1>2, <1>3, Zenon
<1>5. Spec => []RecordInv
  BY CrcFits, RecordInvariance
<1> QED
  BY <1>1, <1>4, <1>5, PTL DEF Spec, ImplementsFields, NamedFields!Spec

(* -- What the text of an identifier says ----------------------------------- *)

\* A function that goes on from each number to the next.
Iteration(f, N, base, h) == f[0] = base /\ \A m \in 1..N : f[m] = h[m][f[m - 1]]

LEMMA Iterates ==
  ASSUME NEW N \in Nat, NEW V, NEW base \in V, NEW h \in [1..N -> [V -> V]]
  PROVE  \E f \in [0..N -> V] : Iteration(f, N, base, h)
<1> DEFINE Upto(n, f) == f[0] = base /\ \A m \in 1..n : f[m] = h[m][f[m - 1]]
           P == {n \in 0..N : \E f \in [0..n -> V] : Upto(n, f)}
<1>1. 0 \in P
  <2>1. PICK f : f = [m \in 0..0 |-> base]
    OBVIOUS
  <2>2. f \in [0..0 -> V] /\ Upto(0, f) /\ 0 \in 0..N
    BY <2>1
  <2> HIDE DEF Upto
  <2> QED
    BY <2>2, Zenon
<1>2. ASSUME NEW n \in 0..(N - 1), n \in P
      PROVE  n + 1 \in P
  <2>1. PICK f \in [0..n -> V] : Upto(n, f)
    BY <1>2
  <2>2. PICK v \in V : v = h[n + 1][f[n]]
    <3>1. n + 1 \in 1..N /\ f[n] \in V
      OBVIOUS
    <3> QED
      BY <3>1
  <2> DEFINE g == [m \in 0..(n + 1) |-> IF m = n + 1 THEN v ELSE f[m]]
  <2>3. g \in [0..(n + 1) -> V]
    OBVIOUS
  <2>4. g[0] = base
    BY <2>1
  <2>5. ASSUME NEW m \in 1..(n + 1)
        PROVE  g[m] = h[m][g[m - 1]]
    <3>1. g[m - 1] = f[m - 1]
      OBVIOUS
    <3>2. CASE m = n + 1
      <4>1. g[m] = v /\ m - 1 = n
        BY <3>2
      <4> QED
        BY <2>2, <3>1, <3>2, <4>1
    <3>3. CASE m # n + 1
      <4>1. g[m] = f[m] /\ m \in 1..n
        BY <3>3
      <4> QED
        BY <2>1, <3>1, <4>1
    <3> QED
      BY <3>2, <3>3
  <2>6. Upto(n + 1, g)
    BY <2>4, <2>5
  <2> HIDE DEF g
  <2> QED
    BY <2>3, <2>6
<1>3. 0..N \subseteq P
  <2> HIDE DEF P
  <2> QED
    BY <1>1, <1>2, NumbersUpTo
<1>4. N \in P
  BY <1>3
<1> QED
  BY <1>4 DEF Iteration

DigitValues == 0..(Radix - 1)

LEMMA Reversed ==
  ASSUME NEW L \in Nat
  PROVE  /\ L + 1 - 0 = L + 1 /\ L + 1 - (L + 1) = 0 /\ L + 1 \in 1..(L + 1) /\ L + 1 > L
         /\ \A j \in 1..L : /\ L + 1 - j \in 1..L /\ L + 1 - (L + 1 - j) = j
                           /\ L + 1 - (j + 1) = (L + 1 - j) - 1 /\ ~(j > L)
                           /\ j \in 1..(L + 1) /\ j + 1 \in 1..(L + 1)
         /\ \A j \in 1..(L + 1) : /\ L + 1 - j \in 0..L /\ L + 1 - (L + 1 - j) = j
                                 /\ (j > L => j = L + 1) /\ (~(j > L) => j \in 1..L)
         /\ \A m \in 0..(L - 1) : /\ L - m \in 1..L /\ L + 1 - m = (L - m) + 1
                                 /\ L + 1 - (m + 1) = L - m /\ m + 1 \in 0..L
         /\ \A m \in 1..L : L + 1 - m \in 1..L /\ m - 1 \in 0..L
OBVIOUS

\* The digits from each place on are digits, the first in front.
LEMMA DigitsGoOn ==
  ASSUME NEW str \in Seq(Character), NEW L \in Nat, L = Len(str)
  PROVE  /\ \A j \in 1..(L + 1) : DigitsFrom(str)[j] \in Seq(DigitValues)
         /\ DigitsFrom(str)[L + 1] = <<>>
         /\ \A j \in 1..L :
              DigitsFrom(str)[j] = IF IsDigit(str[j])
                                   THEN <<str[j].digit>> \o DigitsFrom(str)[j + 1]
                                   ELSE DigitsFrom(str)[j + 1]
<1> DEFINE Is(from) ==
             from = [j \in 1..(L + 1) |->
                       IF j > L THEN <<>>
                       ELSE IF IsDigit(str[j]) THEN <<str[j].digit>> \o from[j + 1] ELSE from[j + 1]]
           S == Seq(DigitValues)
           h == [m \in 1..L |-> [v \in S |->
                   IF IsDigit(str[L + 1 - m]) THEN <<str[L + 1 - m].digit>> \o v ELSE v]]
<1>1. DigitsFrom(str) = CHOOSE from : Is(from)
  BY DEF DigitsFrom
<1>2. \A j \in 1..L : IsDigit(str[j]) => str[j].digit \in DigitValues
  BY DEF IsDigit, DigitValues
<1>3. h \in [1..L -> [S -> S]]
  <2>1. ASSUME NEW m \in 1..L, NEW v \in S
        PROVE  (IF IsDigit(str[L + 1 - m]) THEN <<str[L + 1 - m].digit>> \o v ELSE v) \in S
    <3>1. L + 1 - m \in 1..L
      BY Reversed, Zenon
    <3>2. CASE IsDigit(str[L + 1 - m])
      <4>1. PICK d \in DigitValues : d = str[L + 1 - m].digit
        BY <1>2, <3>1, <3>2
      <4>2. <<d>> \o v \in S
        OBVIOUS
      <4> QED
        BY <3>2, <4>1, <4>2
    <3> QED
      BY <3>2
  <2> HIDE DEF S
  <2> QED
    BY <2>1
<1>4. <<>> \in S
  OBVIOUS
<1>5. PICK f \in [0..L -> S] : f[0] = <<>> /\ \A m \in 1..L : f[m] = h[m][f[m - 1]]
  <2>1. PICK T, g : T = S /\ g = h
    OBVIOUS
  <2> HIDE DEF h, S
  <2>2. <<>> \in T /\ g \in [1..L -> [T -> T]]
    BY <1>3, <1>4, <2>1, Zenon
  <2>3. \E f \in [0..L -> T] : Iteration(f, L, <<>>, g)
    BY <2>2, Iterates
  <2> QED
    BY <2>1, <2>3, Zenon DEF Iteration
<1> DEFINE from == [j \in 1..(L + 1) |-> f[L + 1 - j]]
<1>6. Is(from)
  <2> SUFFICES ASSUME NEW j \in 1..(L + 1)
               PROVE  from[j] = IF j > L THEN <<>>
                                ELSE IF IsDigit(str[j]) THEN <<str[j].digit>> \o from[j + 1]
                                ELSE from[j + 1]
    BY Zenon
  <2>1. CASE j > L
    <3>1. L + 1 - j = 0
      BY <2>1, Reversed, Zenon
    <3>2. from[j] = f[L + 1 - j]
      OBVIOUS
    <3> HIDE DEF from
    <3> QED
      BY <1>5, <2>1, <3>1, <3>2, Zenon
  <2>2. CASE ~(j > L)
    <3>1. PICK m \in 1..L : m = L + 1 - j
      BY <2>2, Reversed, Zenon
    <3>2. L + 1 - m = j /\ m - 1 \in 0..L /\ L + 1 - (j + 1) = m - 1 /\ j + 1 \in 1..(L + 1)
      BY <2>2, <3>1, Reversed, Zenon
    <3>3. from[j] = f[m] /\ from[j + 1] = f[m - 1]
      BY <3>1, <3>2, Zenon
    <3>4. PICK v \in S : v = f[m - 1]
      BY <3>2, Zenon
    <3>5. f[m] = h[m][v]
      BY <1>5, <3>4
    <3>6. h[m][v] = IF IsDigit(str[j]) THEN <<str[j].digit>> \o v ELSE v
      BY <3>2, Zenon
    <3> HIDE DEF from, h, S
    <3> QED
      BY <2>2, <3>3, <3>4, <3>5, <3>6
  <2> QED
    BY <2>1, <2>2
<1>7. PICK D : D = DigitsFrom(str) /\ Is(D)
  <2> HIDE DEF Is
  <2> QED
    BY <1>1, <1>6, Zenon
<1>8. /\ D[L + 1] = <<>>
      /\ \A j \in 1..L : D[j] = IF IsDigit(str[j]) THEN <<str[j].digit>> \o D[j + 1] ELSE D[j + 1]
  <2>1. /\ L + 1 \in 1..(L + 1) /\ L + 1 > L
        /\ \A j \in 1..L : j \in 1..(L + 1) /\ ~(j > L)
    BY Reversed, Zenon
  <2> QED
    BY <1>7, <2>1, Zenon
<1> DEFINE P == {m \in 0..L : D[L + 1 - m] \in S}
<1>9. 0..L \subseteq P
  <2>1. 0 \in P
    <3>1. L + 1 - 0 = L + 1 /\ 0 \in 0..L
      BY Reversed
    <3> HIDE DEF S
    <3> QED
      BY <1>4, <1>8, <3>1, Zenon
  <2>2. ASSUME NEW m \in 0..(L - 1), m \in P
        PROVE  m + 1 \in P
    <3>1. PICK j \in 1..L : j = L - m
      BY Reversed, Zenon
    <3>2. L + 1 - m = j + 1 /\ L + 1 - (m + 1) = j /\ m + 1 \in 0..L
      BY <3>1, Reversed
    <3>3. D[j + 1] \in S
      BY <2>2, <3>2, Zenon
    <3>4. D[j] \in S
      <4>1. CASE IsDigit(str[j])
        <5>1. PICK d \in DigitValues : d = str[j].digit
          BY <1>2, <4>1
        <5>2. D[j] = <<d>> \o D[j + 1]
          BY <1>8, <4>1, <5>1
        <5> QED
          BY <3>3, <5>2
      <4>2. CASE ~IsDigit(str[j])
        BY <1>8, <3>3, <4>2
      <4> QED
        BY <4>1, <4>2
    <3> HIDE DEF S
    <3> QED
      BY <3>2, <3>4, Zenon
  <2> HIDE DEF P
  <2> QED
    BY <2>1, <2>2, NumbersUpTo
<1>10. ASSUME NEW j \in 1..(L + 1)
       PROVE  D[j] \in Seq(DigitValues)
  <2>1. L + 1 - j \in 0..L /\ L + 1 - (L + 1 - j) = j
    BY Reversed
  <2>2. L + 1 - j \in P
    BY <1>9, <2>1, Zenon
  <2> QED
    BY <2>1, <2>2, Zenon
<1> QED
  BY <1>7, <1>8, <1>10

\* The byte that digits 2m-1 and 2m are.
PairOf(digits, m) == digits[2 * m - 1] * Radix + digits[2 * m]

\* As many bytes are there as pairs of digits, but for those there is no room for.
PairsFilled(digits, filled, room) ==
  \A m \in 1..room : 2 * m <= Len(digits) => m <= Len(filled) /\ filled[m] = PairOf(digits, m)

LEMMA OnePairMore ==
  ASSUME NEW a \in DigitValues, NEW b \in DigitValues, NEW digits \in Seq(DigitValues),
         NEW filled \in Seq(Byte), NEW byte \in Byte, byte = a * Radix + b,
         NEW room \in Nat, room > 0, PairsFilled(digits, filled, room - 1)
  PROVE  PairsFilled(<<a>> \o (<<b>> \o digits), <<byte>> \o filled, room)
<1> DEFINE ds == <<a>> \o (<<b>> \o digits)
           fs == <<byte>> \o filled
<1>1. /\ Len(ds) = Len(digits) + 2 /\ ds[1] = a /\ ds[2] = b
      /\ \A k \in 3..Len(ds) : ds[k] = digits[k - 2]
  OBVIOUS
<1>2. /\ Len(fs) = Len(filled) + 1 /\ fs[1] = byte
      /\ \A k \in 2..Len(fs) : fs[k] = filled[k - 1]
  OBVIOUS
<1>3. Len(digits) \in Nat /\ Len(filled) \in Nat
  OBVIOUS
<1> SUFFICES ASSUME NEW m \in 1..room, 2 * m <= Len(ds)
             PROVE  m <= Len(fs) /\ fs[m] = PairOf(ds, m)
  BY DEF PairsFilled
<1> HIDE DEF ds, fs
<1>4. CASE m = 1
  <2>1. 2 * m - 1 = 1 /\ 2 * m = 2 /\ m <= Len(fs)
    BY <1>2, <1>3, <1>4
  <2> QED
    BY <1>1, <1>2, <1>4, <2>1 DEF PairOf
<1>5. CASE m # 1
  <2>1. PICK n \in 1..(room - 1) : n = m - 1
    BY <1>5
  <2>2. /\ 2 * n <= Len(digits)
        /\ 2 * m - 1 \in 3..Len(ds) /\ 2 * m \in 3..Len(ds)
        /\ (2 * m - 1) - 2 = 2 * n - 1 /\ (2 * m) - 2 = 2 * n
    BY <1>1, <1>3, <1>5, <2>1
  <2>3. n <= Len(filled) /\ filled[n] = PairOf(digits, n)
    BY <2>2 DEF PairsFilled
  <2>4. ds[2 * m - 1] = digits[2 * n - 1] /\ ds[2 * m] = digits[2 * n]
    <3>1. ds[2 * m - 1] = digits[(2 * m - 1) - 2] /\ ds[2 * m] = digits[(2 * m) - 2]
      BY <1>1, <2>2
    <3> QED
      BY <2>2, <3>1
  <2>5. m <= Len(fs) /\ fs[m] = filled[n]
    BY <1>2, <1>3, <1>5, <2>1, <2>3
  <2> QED
    BY <2>3, <2>4, <2>5 DEF PairOf
<1> QED
  BY <1>4, <1>5

\* Whatever bootable_uuid_parse takes from some character on, it takes the
\* digits in pairs.
LEMMA FillsPairs ==
  ASSUME NEW str \in Seq(Character), Parses(str)
  PROVE  PairsFilled(Digits(str), Fills(str), 16)
<1>1. Len(str) \in Nat /\ \A j \in 1..Len(str) : str[j] \in Character
  OBVIOUS
<1>2. PICK L \in Nat : L = Len(str)
  BY <1>1
<1>3. PICK from : IsFrom(str, from) /\ Fills(str) = from[1][0]
  <2>1. IsFrom(str, CHOOSE from : IsFrom(str, from))
    BY <1>1, FromExists, Zenon
  <2> QED
    BY <2>1, FillsIs DEF Fills
<1>4. PICK D : D = DigitsFrom(str)
  OBVIOUS
<1>5. /\ Digits(str) = D[1]
      /\ \A j \in 1..(L + 1) : D[j] \in Seq(DigitValues)
      /\ D[L + 1] = <<>>
      /\ \A j \in 1..L : D[j] = IF IsDigit(str[j]) THEN <<str[j].digit>> \o D[j + 1]
                                                   ELSE D[j + 1]
  BY <1>2, <1>4, DigitsGoOn DEF Digits
<1>6. \A j \in 1..(L + 2), i \in 0..16 : from[j][i] = FillsAt(str, from, j, i)
  <2>1. from = [j \in 1..(L + 2) |-> [i \in 0..16 |-> FillsAt(str, from, j, i)]]
    BY <1>2, <1>3, Zenon DEF IsFrom
  <2>2. \A j \in 1..(L + 2) : from[j] = [i \in 0..16 |-> FillsAt(str, from, j, i)]
    BY <2>1, Zenon
  <2> QED
    BY <2>2, Zenon
<1> DEFINE Right(j, i) ==
             from[j][i] # Refused =>
               /\ from[j][i] \in Seq(Byte)
               /\ j \in 1..(L + 1) => PairsFilled(D[j], from[j][i], 16 - i)
           P == {m \in 0..(L + 2) : \A j \in (L + 2 - m + 1)..(L + 2), i \in 0..16 : Right(j, i)}
<1>7. <<>> \in Seq(Byte) /\ <<0>> \in Seq(Byte) /\ Len(<<>>) = 0
  BY BaseAssumption DEF Byte
<1>8. ASSUME NEW j \in 1..(L + 2), NEW i \in 0..16,
             j \in 1..L => Right(j + 1, i),
             j \in 1..L /\ i < 16 => Right(j + 2, i + 1)
      PROVE  Right(j, i)
  <2> SUFFICES ASSUME from[j][i] # Refused
               PROVE  /\ from[j][i] \in Seq(Byte)
                      /\ j \in 1..(L + 1) => PairsFilled(D[j], from[j][i], 16 - i)
    OBVIOUS
  <2>1. from[j][i] = FillsAt(str, from, j, i)
    BY <1>6
  <2>2. CASE i = 16
    <3>1. from[j][i] = <<>>
      BY <2>1, <2>2 DEF FillsAt
    <3>2. PairsFilled(D[j], <<>>, 16 - i)
      BY <2>2 DEF PairsFilled
    <3> QED
      BY <1>7, <3>1, <3>2
  <2>3. CASE j > L
    <3>1. from[j][i] = <<>>
      BY <1>2, <2>1, <2>3 DEF FillsAt
    <3>2. ASSUME j \in 1..(L + 1)
          PROVE  PairsFilled(D[j], <<>>, 16 - i)
      <4>1. j = L + 1
        BY <2>3, <3>2
      <4>2. D[j] = <<>>
        BY <1>5, <4>1
      <4>3. \A m \in 1..(16 - i) : ~(2 * m <= 0)
        OBVIOUS
      <4> QED
        BY <1>7, <4>2, <4>3, Zenon DEF PairsFilled
    <3> QED
      BY <1>7, <3>1, <3>2
  <2>4. CASE i < 16 /\ j <= L /\ str[j] = Dash
    <3>1. j \in 1..L /\ j \in 1..(L + 1) /\ j + 1 \in 1..(L + 1) /\ ~(j > L) /\ i # 16
      BY <2>4
    <3>2. ~IsDigit(str[j])
      BY <2>4 DEF Dash, IsDigit
    <3>3. D[j] = D[j + 1]
      BY <1>5, <3>1, <3>2, Zenon
    <3>4. from[j][i] = IF from[j + 1][i] = <<>> THEN <<0>> ELSE from[j + 1][i]
      BY <1>2, <2>1, <2>4, <3>1, <3>2 DEF FillsAt
    <3>5. CASE from[j + 1][i] = <<>>
      <4>1. PairsFilled(D[j + 1], <<>>, 16 - i)
        <5>1. <<>> # Refused
          BY DEF Refused
        <5> QED
          BY <1>8, <3>1, <3>5, <5>1, Zenon
      <4>2. \A m \in 1..(16 - i) : ~(m <= 0)
        OBVIOUS
      <4>3. PairsFilled(D[j], <<0>>, 16 - i)
        BY <1>7, <3>3, <4>1, <4>2, Zenon DEF PairsFilled
      <4> QED
        BY <1>7, <3>4, <3>5, <4>3, Zenon
    <3>6. CASE from[j + 1][i] # <<>>
      <4>1. from[j][i] = from[j + 1][i]
        BY <3>4, <3>6, Zenon
      <4> QED
        BY <1>8, <3>1, <3>3, <4>1, Zenon
    <3> QED
      BY <3>5, <3>6
  <2>5. CASE i < 16 /\ j <= L /\ str[j] # Dash
    <3>1. j \in 1..L /\ j \in 1..(L + 1) /\ j + 1 \in 1..(L + 1) /\ ~(j > L) /\ i # 16
          /\ j <= L /\ i < 16
      BY <2>5
    <3>2. j < L /\ IsDigit(str[j]) /\ IsDigit(str[j + 1])
      BY <1>2, <2>1, <2>5, <3>1, Zenon DEF FillsAt
    <3>3. from[j][i] = IF from[j + 2][i + 1] = Refused THEN Refused
                       ELSE <<ByteOfDigits(str[j], str[j + 1])>> \o from[j + 2][i + 1]
      BY <1>2, <2>1, <2>5, <3>1, <3>2, Zenon DEF FillsAt
    <3>4. PICK rest : rest = from[j + 2][i + 1] /\ rest # Refused
      BY <3>3, Zenon
    <3>5. j + 1 \in 1..L /\ j + 2 \in 1..(L + 1) /\ (j + 1) + 1 = j + 2 /\ 16 - (i + 1) = (16 - i) - 1
          /\ 16 - i \in Nat /\ 16 - i > 0
      BY <3>1, <3>2
    <3>6. rest \in Seq(Byte) /\ PairsFilled(D[j + 2], rest, (16 - i) - 1)
      <4>1. Right(j + 2, i + 1)
        BY <1>8, <3>1, Zenon
      <4> QED
        BY <3>4, <3>5, <4>1, Zenon
    <3>7. PICK a \in DigitValues, b \in DigitValues : a = str[j].digit /\ b = str[j + 1].digit
      BY <3>2, Zenon DEF IsDigit, DigitValues
    <3>8. PICK byte : byte = a * Radix + b
      OBVIOUS
    <3>9. byte = ByteOfDigits(str[j], str[j + 1]) /\ byte \in Byte
      <4>1. byte = ByteOfDigits(str[j], str[j + 1])
        BY <3>7, <3>8, Zenon DEF ByteOfDigits
      <4>2. byte \in 0..(Radix * Radix - 1)
        <5>1. a \in 0..(Radix - 1) /\ b \in 0..(Radix - 1)
          BY <3>7 DEF DigitValues
        <5> QED
          BY <3>8, <5>1, RadixAssumption
      <4> QED
        BY <4>1, <4>2, RadixAssumption DEF Byte
    <3>10. D[j] = <<a>> \o (<<b>> \o D[j + 2])
      <4>1. D[j] = <<a>> \o D[j + 1] /\ D[j + 1] = <<b>> \o D[(j + 1) + 1]
        BY <1>5, <3>1, <3>2, <3>5, <3>7, Zenon
      <4> QED
        BY <3>5, <4>1, Zenon
    <3>11. from[j][i] = <<byte>> \o rest
      BY <3>3, <3>4, <3>9, Zenon
    <3>12. PICK ds \in Seq(DigitValues) : ds = D[j + 2]
      BY <1>5, <3>5, Zenon
    <3>13. PICK room \in Nat : room = 16 - i /\ room > 0
      BY <3>5, Zenon
    <3>14. PairsFilled(<<a>> \o (<<b>> \o ds), <<byte>> \o rest, room)
      BY <3>6, <3>8, <3>9, <3>12, <3>13, OnePairMore
    <3>15. <<byte>> \o rest \in Seq(Byte)
      BY <3>6, <3>9
    <3> QED
      BY <3>10, <3>11, <3>12, <3>13, <3>14, <3>15, Zenon
  <2>6. i = 16 \/ j > L \/ (i < 16 /\ j <= L)
    OBVIOUS
  <2> QED
    BY <2>2, <2>3, <2>4, <2>5, <2>6
<1>9. 0 \in P
  OBVIOUS
<1>10. ASSUME NEW m \in 0..(L + 1), m \in P
      PROVE  m + 1 \in P
  <2>1. ASSUME NEW j \in (L + 2 - (m + 1) + 1)..(L + 2), NEW i \in 0..16
        PROVE  Right(j, i)
    <3> HIDE DEF Right
    <3>1. j \in 1..(L + 2)
      OBVIOUS
    <3>2. CASE j \in (L + 2 - m + 1)..(L + 2)
      BY <1>10, <3>2, Zenon
    <3>3. CASE j \notin (L + 2 - m + 1)..(L + 2)
      <4>1. /\ j \in 1..L => j + 1 \in (L + 2 - m + 1)..(L + 2) /\ j + 2 \in (L + 2 - m + 1)..(L + 2)
            /\ i < 16 => i + 1 \in 0..16
        BY <3>3
      <4>2. j \in 1..L => Right(j + 1, i)
        BY <1>10, <4>1, Zenon
      <4>3. j \in 1..L /\ i < 16 => Right(j + 2, i + 1)
        BY <1>10, <4>1, Zenon
      <4> QED
        BY <1>8, <3>1, <4>2, <4>3, Zenon
    <3> QED
      BY <3>2, <3>3
  <2>2. m + 1 \in 0..(L + 2)
    OBVIOUS
  <2> HIDE DEF Right
  <2> QED
    BY <2>1, <2>2
<1>11. 0..(L + 2) \subseteq P
  <2> HIDE DEF P
  <2>1. PICK N \in Nat : N = L + 2
    OBVIOUS
  <2>2. \A m \in 0..(N - 1) : m \in P => m + 1 \in P
    BY <1>10, <2>1
  <2> QED
    BY <1>9, <2>1, <2>2, NumbersUpTo, Zenon
<1>12. Right(1, 0)
  <2> HIDE DEF Right
  <2>1. L + 2 \in P
    <3>1. L + 2 \in 0..(L + 2)
      OBVIOUS
    <3> HIDE DEF P
    <3> QED
      BY <1>11, <3>1, Zenon
  <2>2. 1 \in (L + 2 - (L + 2) + 1)..(L + 2) /\ 0 \in 0..16
    OBVIOUS
  <2> QED
    BY <2>1, <2>2, Zenon
<1>13. from[1][0] # Refused /\ 1 \in 1..(L + 1) /\ 16 - 0 = 16
  BY <1>3 DEF Parses
<1> QED
  BY <1>3, <1>5, <1>12, <1>13, Zenon

\* Two more digits are one more byte.
LEMMA TwoDigitsMore ==
  ASSUME NEW r \in Nat, NEW x \in Nat, NEW a \in Nat, NEW b \in Nat
  PROVE  (x * r + a) * r + b = x * (r * r) + (a * r + b)
<1>1. (x * r + a) * r = x * r * r + a * r
  OBVIOUS
<1>2. x * r * r = x * (r * r)
  OBVIOUS
<1>3. PICK p \in Nat, q \in Nat, y \in Nat : p = x * r * r /\ q = a * r /\ y = (x * r + a) * r
  OBVIOUS
<1>4. y = p + q /\ p = x * (r * r)
  BY <1>1, <1>2, <1>3, Zenon
<1>5. y + b = p + (q + b)
  BY <1>4
<1> QED
  BY <1>3, <1>4, <1>5, Zenon

LEMMA BytesWritten ==
  ASSUME NEW r \in Nat, NEW p \in Nat, NEW q \in Nat, NEW s \in Nat, NEW t \in Nat
  PROVE  (t + r * s) + r * r * (q + r * p) = (((0 * r + p) * r + q) * r + s) * r + t
         /\ q + r * p = (0 * r + p) * r + q
OBVIOUS

\* The number goes on from digit to digit.
GoesOn(str, digits, k, n) ==
  \E f : /\ Written(str, k, n) = f[n]
         /\ f[0] = 0
         /\ \A m \in 1..n : f[m] = f[m - 1] * Radix + digits[k + m - 1]

LEMMA WrittenGoesOn ==
  ASSUME NEW str, NEW digits \in Seq(DigitValues), digits = Digits(str),
         NEW k \in Nat, NEW n \in Nat, k > 0, k + n <= Len(digits) + 1
  PROVE  GoesOn(str, digits, k, n)
<1> DEFINE Is(number) ==
             number = [m \in 0..n |-> IF m = 0 THEN 0
                                      ELSE number[m - 1] * Radix + Digits(str)[k + m - 1]]
           h == [m \in 1..n |-> [v \in Nat |-> v * Radix + digits[k + m - 1]]]
<1>1. Written(str, k, n) = (CHOOSE number : Is(number))[n]
  BY DEF Written
<1>2. \A m \in 1..n : digits[k + m - 1] \in DigitValues
  OBVIOUS
<1>3. \A m \in 1..n, v \in Nat : v * Radix + digits[k + m - 1] \in Nat
  <2>0. \A d \in DigitValues : d \in Nat
    BY RadixAssumption DEF DigitValues
  <2>1. \A m \in 1..n : digits[k + m - 1] \in Nat
    BY <1>2, <2>0, Zenon
  <2>2. \A v \in Nat, d \in Nat : v * Radix + d \in Nat
    BY RadixAssumption
  <2> QED
    BY <2>1, <2>2, Zenon
<1>4. PICK g : g = h
  OBVIOUS
<1>5. g \in [1..n -> [Nat -> Nat]]
  BY <1>3, <1>4
<1>6. PICK f \in [0..n -> Nat] : Iteration(f, n, 0, g)
  BY <1>5, Iterates
<1>7. Is(f)
  <2>1. f = [m \in 0..n |-> f[m]]
    OBVIOUS
  <2>2. ASSUME NEW m \in 0..n
        PROVE  f[m] = IF m = 0 THEN 0 ELSE f[m - 1] * Radix + Digits(str)[k + m - 1]
    <3>1. CASE m = 0
      BY <1>6, <3>1, Zenon DEF Iteration
    <3>2. CASE m # 0
      <4>1. m \in 1..n /\ m - 1 \in 0..n
        BY <3>2
      <4>2. f[m] = g[m][f[m - 1]]
        BY <1>6, <4>1, Zenon DEF Iteration
      <4>3. PICK v \in Nat : v = f[m - 1]
        BY <4>1, Zenon
      <4>4. g[m][v] = v * Radix + digits[k + m - 1]
        BY <1>4, <4>1, Zenon
      <4> QED
        BY <3>2, <4>2, <4>3, <4>4, Zenon
    <3> QED
      BY <3>1, <3>2
  <2> QED
    BY <2>1, <2>2, Zenon
<1>8. PICK e : Written(str, k, n) = e[n] /\ Is(e)
  <2> HIDE DEF Is
  <2> QED
    BY <1>1, <1>7, Zenon
<1>9. e[0] = 0 /\ \A m \in 1..n : e[m] = e[m - 1] * Radix + digits[k + m - 1]
  <2>1. 0 \in 0..n /\ \A m \in 1..n : m \in 0..n /\ m # 0
    OBVIOUS
  <2> QED
    BY <1>8, <2>1, Zenon
<1> QED
  BY <1>8, <1>9, Zenon DEF GoesOn

\* A complete text has a pair of digits for each byte.
LEMMA CompleteDigits ==
  ASSUME NEW str \in Seq(Character), IsComplete(str), NEW stack
  PROVE  /\ Digits(str) \in Seq(DigitValues) /\ Len(Digits(str)) = 32
         /\ Digits(str) \in [1..32 -> DigitValues]
         /\ Parsed(str, stack) = Swapped([m \in 1..16 |-> PairOf(Digits(str), m)])
<1>1. Parses(str) /\ Len(Digits(str)) = 32
  BY DEF IsComplete
<1>2. PICK L \in Nat : L = Len(str)
  OBVIOUS
<1>3. PICK digits \in Seq(DigitValues) : digits = Digits(str)
  <2>1. 1 \in 1..(L + 1)
    OBVIOUS
  <2>2. DigitsFrom(str)[1] \in Seq(DigitValues)
    BY <1>2, <2>1, DigitsGoOn
  <2> QED
    BY <2>2 DEF Digits
<1>4. PICK filled : filled = Fills(str)
  OBVIOUS
<1>5. PairsFilled(digits, filled, 16)
  BY <1>1, <1>3, <1>4, FillsPairs, Zenon
<1>6. \A m \in 1..16 : m <= Len(filled) /\ filled[m] = PairOf(digits, m)
  <2>1. \A m \in 1..16 : 2 * m <= 32
    OBVIOUS
  <2> QED
    BY <1>1, <1>3, <1>5, <2>1, Zenon DEF PairsFilled
<1>7. [i \in 1..16 |-> IF i <= Len(filled) THEN filled[i] ELSE stack[i]]
        = [m \in 1..16 |-> PairOf(digits, m)]
  BY <1>6, Zenon
<1>8. digits \in [1..32 -> DigitValues]
  <2>1. digits \in [1..Len(digits) -> DigitValues]
    OBVIOUS
  <2>2. Len(digits) = 32
    BY <1>1, <1>3, Zenon
  <2> QED
    BY <2>1, <2>2, Zenon
<1> QED
  BY <1>1, <1>3, <1>4, <1>7, <1>8, Zenon DEF Parsed

\* Of two digits each is what it was.
LEMMA PairsApart ==
  ASSUME NEW a \in DigitValues, NEW b \in DigitValues, NEW c \in DigitValues, NEW d \in DigitValues,
         a * Radix + b = c * Radix + d
  PROVE  a = c /\ b = d
<1> USE DEF DigitValues
<1>1. PICK r \in Nat : r = Radix /\ r > 0
  BY RadixAssumption
<1>2. /\ a \in Nat /\ c \in Nat /\ b \in 0..(r - 1) /\ d \in 0..(r - 1)
      /\ a * r + b = c * r + d
  BY <1>1
<1>3. ASSUME NEW x \in Nat, NEW y \in Nat, x < y, NEW u \in 0..(r - 1), NEW v \in 0..(r - 1),
             x * r + u = y * r + v
      PROVE  FALSE
  <2>1. (x + 1) * r <= y * r
    <3>1. PICK z \in Nat : y = (x + 1) + z
      <4>1. y - (x + 1) \in Nat /\ y = (x + 1) + (y - (x + 1))
        BY <1>3
      <4> QED
        BY <4>1
    <3>2. y * r = (x + 1) * r + z * r /\ z * r \in Nat
      BY <3>1
    <3> QED
      BY <3>2
  <2>2. (x + 1) * r = x * r + r
    OBVIOUS
  <2>3. PICK p \in Nat, q \in Nat : p = x * r /\ q = y * r
    OBVIOUS
  <2>4. p + r <= q /\ p + u = q + v
    BY <1>3, <2>1, <2>2, <2>3
  <2> QED
    BY <1>1, <2>4
<1>4. ~(a < c) /\ ~(c < a)
  BY <1>2, <1>3
<1>5. a = c
  BY <1>2, <1>4
<1>6. PICK p \in Nat : p = a * r
  BY <1>2
<1>7. p + b = p + d
  BY <1>2, <1>5, <1>6, Zenon
<1> QED
  BY <1>2, <1>5, <1>7

LEMMA SwappedApart ==
  ASSUME NEW b, NEW c, Swapped(b) = Swapped(c), NEW m \in 1..16
  PROVE  b[m] = c[m]
<1> DEFINE at == <<4, 3, 2, 1, 6, 5, 8, 7, 9, 10, 11, 12, 13, 14, 15, 16>>
<1>1. \A n \in 1..16 : Swapped(b)[n] = b[at[n]] /\ Swapped(c)[n] = c[at[n]]
  BY DEF Swapped
<1>2. \A n \in 1..16 : at[n] \in 1..16 /\ at[at[n]] = n
  OBVIOUS
<1> HIDE DEF at
<1>3. PICK n \in 1..16 : n = at[m] /\ at[n] = m
  BY <1>2, Zenon
<1>4. b[at[n]] = c[at[n]]
  <2>1. PICK x, y : x = Swapped(b) /\ y = Swapped(c)
    OBVIOUS
  <2>2. x = y
    BY <2>1, Zenon
  <2>3. x[n] = b[at[n]] /\ y[n] = c[at[n]]
    BY <1>1, <2>1, Zenon
  <2> QED
    BY <2>2, <2>3, Zenon
<1> QED
  BY <1>3, <1>4, Zenon

LEMMA OddOrEven ==
  ASSUME NEW n \in 1..32
  PROVE  \E m \in 1..16 : n = 2 * m - 1 \/ n = 2 * m
<1>1. PICK m : m = (n + 1) \div 2
  OBVIOUS
<1>2. m \in 1..16
  BY <1>1
<1>3. n = 2 * m - 1 \/ n = 2 * m
  BY <1>1
<1> QED
  BY <1>2, <1>3, Zenon

\* Two complete texts denote one identifier if and only if their digits agree.
LEMMA SameDigits ==
  ASSUME NEW str \in Seq(Character), NEW other \in Seq(Character),
         IsComplete(str), IsComplete(other), NEW stack, NEW left
  PROVE  Parsed(str, stack) = Parsed(other, left) <=> Digits(str) = Digits(other)
<1>1. PICK ds \in [1..32 -> DigitValues] :
        /\ ds = Digits(str)
        /\ Parsed(str, stack) = Swapped([m \in 1..16 |-> PairOf(ds, m)])
  BY CompleteDigits, Zenon
<1>2. PICK es \in [1..32 -> DigitValues] :
        /\ es = Digits(other)
        /\ Parsed(other, left) = Swapped([m \in 1..16 |-> PairOf(es, m)])
  BY CompleteDigits, Zenon
<1>3. ASSUME Parsed(str, stack) = Parsed(other, left)
      PROVE  ds = es
  <2>1. PICK b, c : b = [m \in 1..16 |-> PairOf(ds, m)] /\ c = [m \in 1..16 |-> PairOf(es, m)]
    OBVIOUS
  <2>2. Swapped(b) = Swapped(c)
    BY <1>1, <1>2, <1>3, <2>1, Zenon
  <2>3. ASSUME NEW m \in 1..16
        PROVE  ds[2 * m - 1] = es[2 * m - 1] /\ ds[2 * m] = es[2 * m]
    <3>1. PICK j \in 1..32, k \in 1..32 : j = 2 * m - 1 /\ k = 2 * m
      OBVIOUS
    <3>2. b[m] = c[m]
      BY <2>2, SwappedApart, Zenon
    <3>3. PairOf(ds, m) = PairOf(es, m)
      BY <2>1, <3>2, Zenon
    <3>4. ds[j] * Radix + ds[k] = es[j] * Radix + es[k]
      BY <3>1, <3>3, Zenon DEF PairOf
    <3>5. ds[j] \in DigitValues /\ ds[k] \in DigitValues /\ es[j] \in DigitValues /\ es[k] \in DigitValues
      BY Zenon
    <3>6. PICK p \in DigitValues, q \in DigitValues, s \in DigitValues, t \in DigitValues :
            p = ds[j] /\ q = ds[k] /\ s = es[j] /\ t = es[k]
      BY <3>5, Zenon
    <3>7. p * Radix + q = s * Radix + t
      BY <3>4, <3>6, Zenon
    <3>8. p = s /\ q = t
      BY <3>7, PairsApart
    <3> QED
      BY <3>1, <3>6, <3>8, Zenon
  <2>4. ASSUME NEW n \in 1..32
        PROVE  ds[n] = es[n]
    <3>1. PICK m \in 1..16 : n = 2 * m - 1 \/ n = 2 * m
      BY OddOrEven, Zenon
    <3> QED
      BY <2>3, <3>1, Zenon
  <2>5. ds = [n \in 1..32 |-> ds[n]] /\ es = [n \in 1..32 |-> es[n]]
    OBVIOUS
  <2> QED
    BY <2>4, <2>5, Zenon
<1> QED
  BY <1>1, <1>2, <1>3, Zenon

\* Two digits after the other, a number goes on from pair to pair.
LEMMA Doubles ==
  ASSUME NEW j \in 1..16, NEW m \in Nat
  PROVE  2 * j - 1 \in Nat /\ 2 * m \in Nat /\ 2 * j - 1 > 0
OBVIOUS

LEMMA InBetween ==
  ASSUME NEW m \in 1..16, NEW n \in 1..16, NEW i \in m..n
  PROVE  i \in 1..16
OBVIOUS

PairsGo(str, digits, j, m) ==
  \E g : /\ Written(str, 2 * j - 1, 2 * m) = g[m] /\ g[0] = 0
         /\ \A i \in 1..m : g[i - 1] \in Nat =>
              /\ g[i] = g[i - 1] * Base + PairOf(digits, j + i - 1)
              /\ g[i] \in Nat

LEMMA PairsGoOn ==
  ASSUME NEW str, NEW digits \in Seq(DigitValues), digits = Digits(str), Len(digits) = 32,
         digits \in [1..32 -> DigitValues],
         NEW j \in 1..16, NEW m \in Nat, j + m <= 17
  PROVE  PairsGo(str, digits, j, m)
<1>1. PICK k \in Nat, n \in Nat : k = 2 * j - 1 /\ n = 2 * m /\ k > 0 /\ k + n <= Len(digits) + 1
  <2>1. PICK k \in Nat, n \in Nat : k = 2 * j - 1 /\ n = 2 * m /\ k > 0
    <3>1. 2 * j - 1 \in Nat /\ 2 * m \in Nat /\ 2 * j - 1 > 0
      BY Doubles, Zenon
    <3> QED
      BY <3>1, Zenon
  <2>3. k + n <= 33
    BY <2>1
  <2>4. Len(digits) + 1 = 33
    OBVIOUS
  <2> QED
    BY <2>1, <2>3, <2>4, Zenon
<1>2. PICK f : /\ Written(str, k, n) = f[n] /\ f[0] = 0
               /\ \A i \in 1..n : f[i] = f[i - 1] * Radix + digits[k + i - 1]
  <2>1. GoesOn(str, digits, k, n)
    BY <1>1, WrittenGoesOn
  <2> QED
    BY <2>1, Zenon DEF GoesOn
<1>3. PICK g : g = [i \in 0..m |-> f[2 * i]]
  OBVIOUS
<1>4. \A i \in 0..m : g[i] = f[2 * i]
  BY <1>3, Zenon
<1>5. g[m] = f[n] /\ g[0] = 0
  <2>1. m \in 0..m /\ 0 \in 0..m /\ 2 * 0 = 0
    OBVIOUS
  <2> QED
    BY <1>1, <1>2, <1>4, <2>1, Zenon
<1>6. ASSUME NEW i \in 1..m, g[i - 1] \in Nat
      PROVE  g[i] = g[i - 1] * Base + PairOf(digits, j + i - 1) /\ g[i] \in Nat
  <2>1. PICK s \in 1..n, t \in 1..n :
          /\ s = 2 * i - 1 /\ t = 2 * i /\ s = t - 1 /\ s - 1 = 2 * (i - 1)
          /\ k + s - 1 = 2 * (j + i - 1) - 1 /\ k + t - 1 = 2 * (j + i - 1)
    BY <1>1
  <2>2. i \in 0..m /\ i - 1 \in 0..m
    OBVIOUS
  <2>3. PICK x \in Nat : x = g[i - 1] /\ x = f[s - 1] /\ g[i] = f[t]
    BY <1>4, <1>6, <2>1, <2>2, Zenon
  <2>4. PICK u \in 1..32, v \in 1..32 : u = 2 * (j + i - 1) - 1 /\ v = 2 * (j + i - 1)
    <3>1. PICK w : w = j + i - 1
      OBVIOUS
    <3>2. w \in 1..16
      <4>1. i <= m /\ i >= 1 /\ j >= 1
        OBVIOUS
      <4> QED
        BY <3>1, <4>1
    <3>3. PICK u \in 1..32, v \in 1..32 : u = 2 * w - 1 /\ v = 2 * w
      BY <3>2
    <3> QED
      BY <3>1, <3>3, Zenon
  <2>5. digits[u] \in Nat /\ digits[v] \in Nat
    <3>1. \A d \in DigitValues : d \in Nat
      BY RadixAssumption DEF DigitValues
    <3>2. digits[u] \in DigitValues /\ digits[v] \in DigitValues
      BY Zenon
    <3> QED
      BY <3>1, <3>2, Zenon
  <2>6. PICK a \in Nat, b \in Nat : a = digits[u] /\ b = digits[v]
    BY <2>5
  <2>7. f[s] = x * Radix + a
    BY <1>2, <2>1, <2>3, <2>4, <2>6, Zenon
  <2>8. f[t] = (x * Radix + a) * Radix + b
    BY <1>2, <2>1, <2>4, <2>6, <2>7, Zenon
  <2>9. PairOf(digits, j + i - 1) = a * Radix + b
    BY <2>4, <2>6, Zenon DEF PairOf
  <2>10. (x * Radix + a) * Radix + b = x * Base + (a * Radix + b)
    <3>1. Radix \in Nat /\ Base = Radix * Radix
      BY RadixAssumption
    <3>2. (x * Radix + a) * Radix + b = x * (Radix * Radix) + (a * Radix + b)
      BY <3>1, TwoDigitsMore
    <3> QED
      BY <3>1, <3>2, Zenon
  <2>11. x * Base + (a * Radix + b) \in Nat
    <3>1. \A y, z \in Nat : y * z \in Nat /\ y + z \in Nat
      OBVIOUS
    <3>2. Radix \in Nat /\ Base \in Nat
      BY RadixAssumption, BaseAssumption
    <3> QED
      BY <3>1, <3>2, Zenon
  <2> QED
    BY <2>3, <2>8, <2>9, <2>10, <2>11, Zenon
<1> QED
  BY <1>1, <1>2, <1>5, <1>6, Zenon DEF PairsGo

LEMMA PortionIs ==
  ASSUME NEW b, NEW m \in Int, NEW n \in Int, \A i \in m..n : b[i] \in Nat
  PROVE  /\ SubSeq(b, m, n) \in Seq(Nat)
         /\ Len(SubSeq(b, m, n)) = IF m <= n THEN n - m + 1 ELSE 0
         /\ \A i \in 1..(n - m + 1) : SubSeq(b, m, n)[i] = b[m + i - 1]
BY SubSeqProperties

LEMMA PartOf ==
  ASSUME NEW b \in Seq(Nat), Len(b) = 16
  PROVE  /\ SubSeq(b, 1, 4) = <<b[1], b[2], b[3], b[4]>>
         /\ SubSeq(b, 5, 6) = <<b[5], b[6]>>
         /\ SubSeq(b, 7, 8) = <<b[7], b[8]>>
<1>1. ASSUME NEW m \in 1..16, NEW n \in 1..16, m <= n
      PROVE  /\ SubSeq(b, m, n) \in Seq(Nat) /\ Len(SubSeq(b, m, n)) = n - m + 1
             /\ \A i \in 1..(n - m + 1) : SubSeq(b, m, n)[i] = b[m + i - 1]
  <2>1. m \in Int /\ n \in Int
    OBVIOUS
  <2>2. \A i \in m..n : b[i] \in Nat
    <3>1. \A i \in 1..Len(b) : b[i] \in Nat
      BY ElementOfSeq, Zenon
    <3>2. \A i \in m..n : i \in 1..16
      BY InBetween, Zenon
    <3> QED
      BY <3>1, <3>2, Zenon
  <2>3. /\ SubSeq(b, m, n) \in Seq(Nat)
        /\ Len(SubSeq(b, m, n)) = IF m <= n THEN n - m + 1 ELSE 0
        /\ \A i \in 1..(n - m + 1) : SubSeq(b, m, n)[i] = b[m + i - 1]
    BY <2>1, <2>2, PortionIs, Zenon
  <2> QED
    BY <1>1, <2>3, Zenon
<1>2. PICK p, q, r : p = SubSeq(b, 1, 4) /\ q = SubSeq(b, 5, 6) /\ r = SubSeq(b, 7, 8)
  OBVIOUS
<1>3. p \in Seq(Nat) /\ Len(p) = 4 /\ \A i \in 1..4 : p[i] = b[1 + i - 1]
  BY <1>1, <1>2
<1>4. q \in Seq(Nat) /\ Len(q) = 2 /\ \A i \in 1..2 : q[i] = b[5 + i - 1]
  BY <1>1, <1>2
<1>5. r \in Seq(Nat) /\ Len(r) = 2 /\ \A i \in 1..2 : r[i] = b[7 + i - 1]
  BY <1>1, <1>2
<1>6. p = <<b[1], b[2], b[3], b[4]>>
  BY <1>3
<1>7. q = <<b[5], b[6]>>
  BY <1>4
<1>8. r = <<b[7], b[8]>>
  BY <1>5
<1> QED
  BY <1>2, <1>6, <1>7, <1>8, Zenon

\* The bytes of a complete text are the numbers that it writes.
LEMMA CompleteDenotes ==
  ASSUME NEW str \in Seq(Character), IsComplete(str), NEW stack
  PROVE  Denotes(str, Parsed(str, stack))
<1>0. PICK b : b = Parsed(str, stack)
  OBVIOUS
<1>1. PICK digits \in Seq(DigitValues) :
        /\ digits = Digits(str) /\ Len(digits) = 32 /\ digits \in [1..32 -> DigitValues]
        /\ b = Swapped([m \in 1..16 |-> PairOf(digits, m)])
  BY <1>0, CompleteDigits, Zenon
<1>2. PICK p : p = [m \in 1..16 |-> PairOf(digits, m)]
  OBVIOUS
<1>3. ASSUME NEW m \in 1..16
      PROVE  p[m] = PairOf(digits, m) /\ p[m] \in Nat
  <2>1. p[m] = PairOf(digits, m)
    BY <1>2, Zenon
  <2>2. PICK u \in 1..32, v \in 1..32 : u = 2 * m - 1 /\ v = 2 * m
    OBVIOUS
  <2>3. digits[u] \in DigitValues /\ digits[v] \in DigitValues
    BY <1>1, Zenon
  <2>4. PairOf(digits, m) = digits[u] * Radix + digits[v]
    BY <2>2, Zenon DEF PairOf
  <2>5. \A x, y \in DigitValues : x * Radix + y \in Nat
    BY RadixAssumption DEF DigitValues
  <2> QED
    BY <2>1, <2>3, <2>4, <2>5, Zenon
<1>4. b = <<p[4], p[3], p[2], p[1], p[6], p[5], p[8], p[7],
            p[9], p[10], p[11], p[12], p[13], p[14], p[15], p[16]>>
  BY <1>1, <1>2, Zenon DEF Swapped
<1>5. /\ b[1] = p[4] /\ b[2] = p[3] /\ b[3] = p[2] /\ b[4] = p[1]
      /\ b[5] = p[6] /\ b[6] = p[5] /\ b[7] = p[8] /\ b[8] = p[7]
      /\ \A k \in 9..16 : b[k] = p[k]
      /\ SubSeq(b, 1, 4) = <<p[4], p[3], p[2], p[1]>>
      /\ SubSeq(b, 5, 6) = <<p[6], p[5]>>
      /\ SubSeq(b, 7, 8) = <<p[8], p[7]>>
  <2>1. b \in Seq(Nat) /\ Len(b) = 16
    <3>1. \A m \in 1..16 : p[m] \in Nat
      BY <1>3, Zenon
    <3> QED
      BY <1>4, <3>1
  <2>2. SubSeq(b, 1, 4) = <<b[1], b[2], b[3], b[4]>>
    BY <2>1, PartOf
  <2>3. SubSeq(b, 5, 6) = <<b[5], b[6]>>
    BY <2>1, PartOf
  <2>4. SubSeq(b, 7, 8) = <<b[7], b[8]>>
    BY <2>1, PartOf
  <2>5. /\ b[1] = p[4] /\ b[2] = p[3] /\ b[3] = p[2] /\ b[4] = p[1]
        /\ b[5] = p[6] /\ b[6] = p[5] /\ b[7] = p[8] /\ b[8] = p[7]
    BY <1>4
  <2>6. \A k \in 9..16 : b[k] = p[k]
    BY <1>4
  <2> QED
    BY <2>2, <2>3, <2>4, <2>5, <2>6, Zenon
<1>6. ASSUME NEW j \in 1..16, NEW m \in 1..4, j + m <= 17
      PROVE  \E g : /\ Written(str, 2 * j - 1, 2 * m) = g[m] /\ g[0] = 0
                    /\ \A i \in 1..m : g[i - 1] \in Nat =>
                         g[i] = g[i - 1] * Base + p[j + i - 1] /\ g[i] \in Nat
  <2>0. m \in Nat /\ j + m <= 17
    BY <1>6
  <2>1. PICK g : /\ Written(str, 2 * j - 1, 2 * m) = g[m] /\ g[0] = 0
                 /\ \A i \in 1..m : g[i - 1] \in Nat =>
                      /\ g[i] = g[i - 1] * Base + PairOf(digits, j + i - 1)
                      /\ g[i] \in Nat
    <3>1. PairsGo(str, digits, j, m)
      BY <1>1, <2>0, PairsGoOn, Zenon
    <3> QED
      BY <3>1, Zenon DEF PairsGo
  <2>2. \A i \in 1..m : j + i - 1 \in 1..16
    BY <1>6
  <2> QED
    BY <1>3, <2>1, <2>2, Zenon
<1>7. decode_uint32(SubSeq(b, 1, 4)) = Written(str, 1, 8)
  <2>1. PICK g : /\ Written(str, 2 * 1 - 1, 2 * 4) = g[4] /\ g[0] = 0
                 /\ \A i \in 1..4 : g[i - 1] \in Nat =>
                      g[i] = g[i - 1] * Base + p[1 + i - 1] /\ g[i] \in Nat
    BY <1>6
  <2>2. g[1] = 0 * Base + p[1] /\ g[1] \in Nat
    BY <2>1
  <2>3. g[2] = g[1] * Base + p[2] /\ g[2] \in Nat
    BY <2>1, <2>2
  <2>4. g[3] = g[2] * Base + p[3] /\ g[3] \in Nat
    BY <2>1, <2>3
  <2>5. g[4] = g[3] * Base + p[4] /\ g[4] \in Nat
    BY <2>1, <2>4
  <2>6. g[4] = (((0 * Base + p[1]) * Base + p[2]) * Base + p[3]) * Base + p[4]
    BY <2>2, <2>3, <2>4, <2>5, Zenon
  <2>7. decode_uint32(SubSeq(b, 1, 4)) = (p[4] + Base * p[3]) + Base * Base * (p[2] + Base * p[1])
    BY <1>5 DEF decode_uint32, decode_uint16
  <2>8. PICK p1 \in Nat, p2 \in Nat, p3 \in Nat, p4 \in Nat :
          p1 = p[1] /\ p2 = p[2] /\ p3 = p[3] /\ p4 = p[4]
    <3>1. 1 \in 1..16 /\ 2 \in 1..16 /\ 3 \in 1..16 /\ 4 \in 1..16
      OBVIOUS
    <3> QED
      BY <1>3, <3>1, Zenon
  <2>9. (p4 + Base * p3) + Base * Base * (p2 + Base * p1)
          = (((0 * Base + p1) * Base + p2) * Base + p3) * Base + p4
    BY BaseAssumption, BytesWritten
  <2>10. 2 * 1 - 1 = 1 /\ 2 * 4 = 8
    OBVIOUS
  <2> QED
    BY <2>1, <2>6, <2>7, <2>8, <2>9, <2>10, Zenon
<1>8. ASSUME NEW j \in {5, 7}
      PROVE  p[j + 1] + Base * p[j] = Written(str, 2 * j - 1, 4)
  <2>1. PICK g : /\ Written(str, 2 * j - 1, 2 * 2) = g[2] /\ g[0] = 0
                 /\ \A i \in 1..2 : g[i - 1] \in Nat =>
                      g[i] = g[i - 1] * Base + p[j + i - 1] /\ g[i] \in Nat
    <3>1. j \in 1..16 /\ 2 \in 1..4 /\ j + 2 <= 17
      OBVIOUS
    <3> QED
      BY <1>6, <3>1, Zenon
  <2>2. j + 1 - 1 = j /\ j + 2 - 1 = j + 1 /\ 2 * 2 = 4 /\ j \in 1..16 /\ j + 1 \in 1..16
    OBVIOUS
  <2>3. g[1] = 0 * Base + p[j] /\ g[1] \in Nat
    BY <2>1, <2>2
  <2>4. g[2] = g[1] * Base + p[j + 1]
    BY <2>1, <2>2, <2>3
  <2>5. g[2] = (0 * Base + p[j]) * Base + p[j + 1]
    BY <2>3, <2>4, Zenon
  <2>6. PICK q \in Nat, s \in Nat : q = p[j] /\ s = p[j + 1]
    BY <1>3, <2>2, Zenon
  <2>7. s + Base * q = (0 * Base + q) * Base + s
    BY BaseAssumption, BytesWritten
  <2> QED
    BY <2>1, <2>2, <2>5, <2>6, <2>7, Zenon
<1>9. ASSUME NEW k \in 9..16
      PROVE  b[k] = Written(str, 2 * k - 1, 2)
  <2>1. PICK g : /\ Written(str, 2 * k - 1, 2 * 1) = g[1] /\ g[0] = 0
                 /\ \A i \in 1..1 : g[i - 1] \in Nat =>
                      g[i] = g[i - 1] * Base + p[k + i - 1] /\ g[i] \in Nat
    <3>1. k \in 1..16 /\ 1 \in 1..4 /\ k + 1 <= 17
      OBVIOUS
    <3> QED
      BY <1>6, <3>1, Zenon
  <2>2. g[1] = 0 * Base + p[k]
    BY <2>1
  <2>3. p[k] \in Nat
    <3>1. k \in 1..16
      OBVIOUS
    <3> QED
      BY <1>3, <3>1, Zenon
  <2>4. g[1] = p[k]
    BY <2>2, <2>3, BaseAssumption
  <2>5. 2 * 1 = 2
    OBVIOUS
  <2> QED
    BY <1>5, <2>1, <2>4, <2>5, Zenon
<1>10. decode_uint16(SubSeq(b, 5, 6)) = Written(str, 9, 4)
  <2>1. 5 + 1 = 6 /\ 2 * 5 - 1 = 9 /\ 5 \in {5, 7}
    OBVIOUS
  <2>2. decode_uint16(SubSeq(b, 5, 6)) = p[6] + Base * p[5]
    BY <1>5 DEF decode_uint16
  <2> QED
    BY <1>8, <2>1, <2>2, Zenon
<1>11. decode_uint16(SubSeq(b, 7, 8)) = Written(str, 13, 4)
  <2>1. 7 + 1 = 8 /\ 2 * 7 - 1 = 13 /\ 7 \in {5, 7}
    OBVIOUS
  <2>2. decode_uint16(SubSeq(b, 7, 8)) = p[8] + Base * p[7]
    BY <1>5 DEF decode_uint16
  <2> QED
    BY <1>8, <2>1, <2>2, Zenon
<1> QED
  BY <1>0, <1>7, <1>9, <1>10, <1>11, Zenon DEF Denotes

(* -- The type that an entry has been given --------------------------------- *)

\* Where the type of an entry is known, it is that of a string that has been
\* parsed over some stack: in memory from when it is set or read until it is
\* written, and on the disk but while it is about to be written.
InMemory(does, n) == does \in {"change", "write"} \/ (does = "read" /\ n > 1)
OnDisk(does, n) == ~(does = "write" /\ n <= 1)
Carries(does, n, m, d, u) ==
  /\ InMemory(does, n) => m["type_uuid"] = u
  /\ OnDisk(does, n) => FieldIn("entry", d, 1) = u
TypedAs(does, n, m, d, str) ==
  \E stack \in Stacks : Carries(does, n, m, d, Parsed(str, stack))
TypedInv ==
  kind = "entry" /\ typed # NoString =>
    typed \in Strings /\ Parses(typed) /\ TypedAs(doing, next, memory, disk, typed)

\* The first field of an entry is its type, and its bytes are what it holds.
LEMMA TypeField ==
  /\ "entry" \in Kinds /\ 1 \in 1..Named("entry") /\ 1 \in 1..Count("entry")
  /\ NameOf("entry", 1) = "type_uuid" /\ "type_uuid" \notin DOMAIN Literals
  /\ \A v : Encoded(FieldsOf("entry")[1], v) = v /\ Decoded(FieldsOf("entry")[1], v) = v
<1>1. Named("entry") = 6 /\ Count("entry") = 6 /\ FieldsOf("entry")[1] = Raw("type_uuid", 16)
  BY OfKind DEF EntryWrites
<1>2. "entry" \in Kinds /\ 1 \in 1..Named("entry") /\ 1 \in 1..Count("entry")
  BY <1>1 DEF Kinds
<1>3. NameOf("entry", 1) = "type_uuid"
  BY <1>1 DEF NameOf, Raw
<1>4. "type_uuid" \notin DOMAIN Literals
  <2>1. "entry" # "header"
    OBVIOUS
  <2> QED
    BY <1>2, <1>3, <2>1, LiteralsAre, Zenon
<1>5. \A v : Encoded(FieldsOf("entry")[1], v) = v /\ Decoded(FieldsOf("entry")[1], v) = v
  BY <1>1 DEF Encoded, Decoded, Raw
<1> QED
  BY <1>2, <1>3, <1>4, <1>5

\* A step of a record that is not an entry, or that leaves it without a type
\* that is known, has nothing to keep.
LEMMA UnknownStep ==
  ASSUME kind' = kind, kind # "entry" \/ typed' = NoString
  PROVE  TypedInv'
BY DEF TypedInv

\* A step that gives no other type keeps it where it carries it.
LEMMA CarriedStep ==
  ASSUME TypedInv, kind' = kind, typed' = typed,
         \A u : Carries(doing, next, memory, disk, u) => Carries(doing', next', memory', disk', u)
  PROVE  TypedInv'
<1>1. ASSUME kind' = "entry", typed' # NoString
      PROVE  typed' \in Strings /\ Parses(typed') /\ TypedAs(doing', next', memory', disk', typed')
  <2>1. typed \in Strings /\ Parses(typed) /\ TypedAs(doing, next, memory, disk, typed)
    BY <1>1 DEF TypedInv
  <2>2. PICK stack \in Stacks : Carries(doing, next, memory, disk, Parsed(typed, stack))
    BY <2>1, Zenon DEF TypedAs
  <2>3. Carries(doing', next', memory', disk', Parsed(typed', stack))
    BY <2>2, Zenon
  <2>4. TypedAs(doing', next', memory', disk', typed')
    BY <2>3, Zenon DEF TypedAs
  <2> QED
    BY <2>1, <2>4, Zenon
<1> QED
  BY <1>1, Zenon DEF TypedInv, NoString

LEMMA GoneCarries ==
  ASSUME TypedInv, Gone, doing # "write", disk' = disk
  PROVE  TypedInv'
<1>1. kind' = kind /\ typed' = typed /\ doing' = "nothing" /\ disk' = disk
  BY DEF Gone
<1>2. ASSUME NEW u, Carries(doing, next, memory, disk, u)
      PROVE  Carries(doing', next', memory', disk', u)
  BY <1>1, <1>2 DEF Carries, InMemory, OnDisk
<1> QED
  BY <1>1, <1>2, CarriedStep, Zenon

LEMMA GoneUnknown ==
  ASSUME Gone, doing = "write"
  PROVE  TypedInv'
BY UnknownStep, Zenon DEF Gone

LEMMA TypedGone ==
  ASSUME RecordInv, TypedInv, Exit \/ RefuseType \/ WriteFieldFails
  PROVE  TypedInv'
<1>1. CASE Exit
  <2>1. Gone /\ disk' = disk
    BY <1>1 DEF Exit
  <2> QED
    BY <2>1, GoneCarries, GoneUnknown, Zenon
<1>2. CASE RefuseType
  <2>1. Gone /\ disk' = disk /\ doing # "write"
    BY <1>2 DEF RefuseType
  <2> QED
    BY <2>1, GoneCarries, Zenon
<1>3. CASE WriteFieldFails
  <2>1. Gone /\ doing = "write"
    BY <1>3 DEF WriteFieldFails
  <2> QED
    BY <2>1, GoneUnknown, Zenon
<1> QED
  BY <1>1, <1>2, <1>3, Zenon

LEMMA TypedOther ==
  ASSUME RecordInv, FormatHeader \/ SetDiskUuid \/ KeepHeader \/ SumEntries \/ SumHeader \/ UpdateMbr
  PROVE  TypedInv'
<1>1. kind # "entry"
  BY DEF RecordInv, DoingOK, FormatHeader, SetDiskUuid, KeepHeader, SumEntries, SumHeader, UpdateMbr
<1>2. kind' = kind
  BY DEF FormatHeader, SetDiskUuid, KeepHeader, SumEntries, SumHeader, PutAt, Gone, UpdateMbr
<1> QED
  BY <1>1, <1>2, UnknownStep, Zenon

LEMMA TypedBegin ==
  ASSUME TypedInv, BeginRead \/ BeginWrite \/ KeepEntry
  PROVE  TypedInv'
<1>1. kind' = kind /\ typed' = typed /\ disk' = disk /\ memory' = memory
  BY DEF BeginRead, BeginWrite, KeepEntry
<1>2. \/ doing = "nothing" /\ doing' = "read" /\ next' = 1
      \/ doing = "write" /\ doing' = "write" /\ next = 0 /\ next' = 1
      \/ doing = "change" /\ doing' = "write" /\ next' = 0
  BY DEF BeginRead, BeginWrite, KeepEntry
<1>3. ASSUME NEW u, Carries(doing, next, memory, disk, u)
      PROVE  Carries(doing', next', memory', disk', u)
  BY <1>1, <1>2, <1>3 DEF Carries, InMemory, OnDisk
<1> QED
  BY <1>1, <1>3, CarriedStep, Zenon

LEMMA TypedReads ==
  ASSUME RecordInv, TypedInv, ReadField
  PROVE  TypedInv'
<1>1. CASE kind # "entry"
  BY <1>1, UnknownStep DEF ReadField
<1>2. CASE kind = "entry"
  <2>1. PICK v : v = Decoded(FieldsOf("entry")[next], FieldIn("entry", disk, next))
    OBVIOUS
  <2>2. /\ next \in 1..Named("entry") /\ next \in 1..Count("entry")
        /\ FieldSet("entry", memory, next, v, memory')
        /\ next' = next + 1 /\ doing' \in {"change", "read"} /\ disk' = disk
        /\ doing = "read" /\ typed' = typed /\ kind' = kind
        /\ HasTo("entry", memory, next - 1)
    BY <1>2, <2>1, FieldRead DEF ReadField, RecordInv, DoingOK
  <2>3. ASSUME NEW u, Carries(doing, next, memory, disk, u)
        PROVE  memory'["type_uuid"] = u
    <3>1. FieldIn("entry", disk, 1) = u
      BY <2>2, <2>3 DEF Carries, OnDisk
    <3>2. CASE next = 1
      BY <2>1, <2>2, <3>1, <3>2, TypeField, Zenon DEF FieldSet
    <3>3. CASE next # 1
      <4>1. next > 1 /\ 1 \in 1..(next - 1)
        BY <2>2, <3>3, OfKind
      <4>2. memory["type_uuid"] = u
        BY <2>2, <2>3, <4>1 DEF Carries, InMemory
      <4>3. "type_uuid" \in DOMAIN memory
        BY <2>2, <4>1, TypeField DEF HasTo
      <4>4. NameOf("entry", next) # "type_uuid"
        BY <2>2, <3>3, TypeField, NamesApart
      <4> QED
        BY <2>2, <4>2, <4>3, <4>4, Zenon DEF FieldSet
    <3> QED
      BY <3>2, <3>3
  <2>4. ASSUME NEW u, Carries(doing, next, memory, disk, u)
        PROVE  Carries(doing', next', memory', disk', u)
    <3>1. FieldIn("entry", disk, 1) = u
      BY <2>2, <2>4 DEF Carries, OnDisk
    <3> QED
      BY <2>2, <2>3, <2>4, <3>1, Zenon DEF Carries
  <2> QED
    BY <2>2, <2>4, CarriedStep, Zenon
<1> QED
  BY <1>1, <1>2

LEMMA TypedWrites ==
  ASSUME RecordInv, TypedInv, WriteField
  PROVE  TypedInv'
<1>1. CASE kind # "entry"
  BY <1>1, UnknownStep DEF WriteField
<1>2. CASE kind = "entry"
  <2>1. /\ next \in 1..Count("entry")
        /\ \A m \in 1..Count("entry") :
             m # next => FieldIn("entry", disk', m) = FieldIn("entry", disk, m)
        /\ FieldIn("entry", disk', next)
             = Encoded(FieldsOf("entry")[next], Wanted("entry", memory, next))
        /\ next' = next + 1 /\ doing' \in {"write", "done"} /\ memory' = memory
        /\ kind' = kind /\ typed' = typed /\ doing = "write"
    BY <1>2, FieldWrite DEF WriteField
  <2>2. ASSUME NEW u, Carries(doing, next, memory, disk, u)
        PROVE  FieldIn("entry", disk', 1) = u /\ memory["type_uuid"] = u
    <3>1. memory["type_uuid"] = u
      BY <2>1, <2>2 DEF Carries, InMemory
    <3>2. CASE next = 1
      <4>1. Wanted("entry", memory, 1) = u
        BY <3>1, TypeField, Zenon DEF Wanted
      <4> QED
        BY <2>1, <3>1, <3>2, <4>1, TypeField, Zenon
    <3>3. CASE next # 1
      <4>1. ~(next <= 1)
        BY <2>1, <3>3, OfKind
      <4>2. FieldIn("entry", disk, 1) = u
        BY <2>2, <4>1 DEF Carries, OnDisk
      <4> QED
        BY <2>1, <3>1, <3>3, <4>2, TypeField, Zenon
    <3> QED
      BY <3>2, <3>3
  <2>3. ASSUME NEW u, Carries(doing, next, memory, disk, u)
        PROVE  Carries(doing', next', memory', disk', u)
    BY <2>1, <2>2, <2>3, Zenon DEF Carries
  <2> QED
    BY <2>1, <2>3, CarriedStep, Zenon
<1> QED
  BY <1>1, <1>2

LEMMA TypedSets ==
  ASSUME RecordInv, SetEntryType
  PROVE  TypedInv'
<1>1. PICK str \in Strings :
        /\ Parses(str)
        /\ \E stack \in Stacks : memory' = [memory EXCEPT !["type_uuid"] = Parsed(str, stack)]
        /\ typed' = str
  BY DEF SetEntryType
<1>2. PICK stack \in Stacks : memory' = [memory EXCEPT !["type_uuid"] = Parsed(str, stack)]
  BY <1>1, Zenon
<1>3. "type_uuid" \in DOMAIN memory
  <2>1. HasTo("entry", memory, Named("entry"))
    BY DEF RecordInv, DoingOK, SetEntryType
  <2> QED
    BY <2>1, TypeField, Zenon DEF HasTo
<1>4. memory'["type_uuid"] = Parsed(str, stack)
  BY <1>2, <1>3
<1>5. doing' = "write" /\ next' = 0
  BY DEF SetEntryType
<1>6. Carries(doing', next', memory', disk', Parsed(str, stack))
  BY <1>4, <1>5 DEF Carries, OnDisk
<1>7. TypedAs(doing', next', memory', disk', typed')
  BY <1>1, <1>6, Zenon DEF TypedAs
<1> QED
  BY <1>1, <1>7, Zenon DEF TypedInv

LEMMA TypedNext ==
  ASSUME RecordInv, TypedInv, [Next]_vars
  PROVE  TypedInv'
<1>1. CASE UNCHANGED vars
  BY <1>1, Zenon DEF TypedInv, vars
<1>2. CASE Next
  BY <1>2, TypedGone, TypedOther, TypedBegin, TypedReads, TypedWrites, TypedSets, Zenon DEF Next
<1> QED
  BY <1>1, <1>2

\* No string at all is complete.
LEMMA NoStringIncomplete == ~IsComplete(NoString)
<1>1. DigitsFrom(NoString)[0 + 1] = <<>>
  <2>1. NoString \in Seq(Character) /\ 0 \in Nat /\ 0 = Len(NoString)
    BY DEF NoString
  <2> QED
    BY <2>1, DigitsGoOn
<1>2. 0 + 1 = 1 /\ Len(<<>>) # 32
  OBVIOUS
<1> QED
  BY <1>1, <1>2, Zenon DEF IsComplete, Digits

LEMMA TypedFound ==
  ASSUME RecordInv, TypedInv
  PROVE  TypeFound
<1> SUFFICES ASSUME kind = "entry", doing = "change", IsComplete(typed)
             PROVE  /\ Denotes(typed, memory["type_uuid"])
                    /\ \A str \in Strings, stack \in Stacks :
                         IsComplete(str) \/ ~Parses(str) =>
                           (IsType(str, stack) <=> IsComplete(str) /\ Digits(str) = Digits(typed))
  BY DEF TypeFound
<1>1. typed \in Strings /\ TypedAs(doing, next, memory, disk, typed)
  BY NoStringIncomplete DEF TypedInv
<1>2. PICK left \in Stacks : Carries(doing, next, memory, disk, Parsed(typed, left))
  BY <1>1, Zenon DEF TypedAs
<1>3. memory["type_uuid"] = Parsed(typed, left)
  BY <1>2 DEF Carries, InMemory
<1>4. \A str \in Strings : str \in Seq(Character)
  BY UuidsAssumption
<1>5. Denotes(typed, memory["type_uuid"])
  BY <1>1, <1>3, <1>4, CompleteDenotes, Zenon
<1>6. ASSUME NEW str \in Strings, NEW stack \in Stacks, IsComplete(str) \/ ~Parses(str)
      PROVE  IsType(str, stack) <=> IsComplete(str) /\ Digits(str) = Digits(typed)
  <2>1. CASE ~Parses(str)
    BY <2>1 DEF IsType, IsComplete
  <2>2. CASE IsComplete(str)
    <3>1. Parsed(str, stack) = Parsed(typed, left) <=> Digits(str) = Digits(typed)
      <4>1. str \in Seq(Character) /\ typed \in Seq(Character)
        BY <1>1, <1>4, Zenon
      <4>2. PICK other : other = typed
        OBVIOUS
      <4>3. other \in Seq(Character) /\ IsComplete(other)
        BY <4>1, <4>2
      <4>4. Parsed(str, stack) = Parsed(other, left) <=> Digits(str) = Digits(other)
        BY <2>2, <4>1, <4>3, SameDigits
      <4> QED
        BY <4>2, <4>4
    <3>2. Parses(str)
      BY <2>2 DEF IsComplete
    <3> QED
      BY <1>3, <2>2, <3>1, <3>2, Zenon DEF IsType
  <2> QED
    BY <1>6, <2>1, <2>2
<1> QED
  BY <1>5, <1>6

(* An entry whose type has been set and saved is read as that type and as   *)
(* no other, however its string is written, and its bytes are the numbers   *)
(* of the string, the first three with the low byte in front: for every     *)
(* string and whatever the stack holds, and whatever is cut short between.  *)
THEOREM TypesAreFound == ASSUME CrcFits PROVE Spec => []TypeFound
<1>1. Init => TypedInv
  BY DEF Init, TypedInv
<1>2. RecordInv /\ TypedInv /\ [Next]_vars => TypedInv'
  BY TypedNext, Zenon
<1>3. Spec => []RecordInv
  BY CrcFits, RecordInvariance, Zenon
<1>4. RecordInv /\ TypedInv => TypeFound
  BY TypedFound, Zenon
<1> QED
  BY <1>1, <1>2, <1>3, <1>4, PTL DEF Spec
=============================================================================
