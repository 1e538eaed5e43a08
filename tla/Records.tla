------------------------------ MODULE Records ------------------------------
(****************************************************************************)
(* The records on the disk, byte by byte: the header and the entries of the *)
(* table (src/core/gpt.c) and the boot sector with its two disk address     *)
(* packets (src/core/mbr.c, src/core/dap.c).                                *)
(*                                                                          *)
(* A record is read into memory and written from it one field after the     *)
(* other, each where the one before has ended; the checksums of a header    *)
(* are put in afterwards, at places given as numbers.  A transfer may fail  *)
(* half way and the program be killed anywhere: the next command finds the  *)
(* bytes as they have been left.                                            *)
(****************************************************************************)
EXTENDS Uuid

CONSTANTS CodeBytes,    \* sizeof(mbr.code): 476
          NameBytes,    \* sizeof(entry.name): 72
          SectorBytes,  \* 512
          Literals,     \* what bootable_gpt_header_export writes of its own
          Headers,      \* the headers that are formatted
          DiskUuids,    \* the identifiers that disks are given
          Strings,      \* the types that entries are given,
          Stacks,       \*   and what the stack may hold then
          Stages,       \* the first sectors and the sizes in bytes of stages
          Sums,         \* the checksums of entries
          crc32(_),     \* the checksum of a sequence of bytes
          Found,        \* the bytes that are there at first, for each record
          MaxCuts       \* bound: writings that are cut short

ASSUME SizesAssumption == /\ CodeBytes \in Nat /\ NameBytes \in Nat
                          /\ SectorBytes \in Nat /\ SectorBytes >= 92

ASSUME FoundAssumption == /\ Found["header"] \subseteq [0..(SectorBytes - 1) -> Byte]
                          /\ Found["entry"] \subseteq [0..(NameBytes + 55) -> Byte]
                          /\ Found["mbr"] \subseteq [0..(CodeBytes + 35) -> Byte]

\* What the program puts in a structure fits its fields.
ASSUME StagesAssumption == \A s \in Stages : s.first_lba \in 0..(Above(8) - 1) /\ s.size \in Nat

ASSUME UuidsAssumption == /\ DiskUuids \cup Stacks \subseteq [1..16 -> Byte]
                          /\ Strings \subseteq Seq(Character)

ASSUME SumsAssumption == Sums \subseteq 0..(Above(4) - 1)

ASSUME BoundAssumption == MaxCuts \in Nat

VARIABLES kind,     \* which record this is about: "header", "entry" or "mbr"
          disk,     \* the bytes of the sector or entry it is in
          pos,      \* the position of the stream, from the start of these
          memory,   \* the structure in memory, Nothing where there is none
          doing,    \* what the program is about to do with it
          next,     \*   and, while it is read or written, the field
          typed,    \* history: the string whose type the entry on the disk has been
                    \*   given, NoString where it is not known
          cuts      \* history: writings that have been cut short

vars == <<kind, disk, pos, memory, doing, next, typed, cuts>>

Nothing == <<>>
NoString == <<>>

(* -- The fields, in the order they are read and written -------------------- *)

\* Mutant: the reserved field is read where the checksum is.
HeaderReadsReservedFirst ==
  <<Raw("signature", 8), U32("version"), U32("header_size"), U32("reserved"),
    U32("checksum"), U64("current_lba"), U64("backup_lba"), U64("first_usable_lba"),
    U64("last_usable_lba"), Raw("disk_uuid", 16), U64("partition_entries_lba"),
    U32("partition_entry_count"), U32("partition_entry_size"),
    U32("partition_entries_checksum")>>
HeaderReads ==
  <<Raw("signature", 8), U32("version"), U32("header_size"), U32("checksum"),
    U32("reserved"), U64("current_lba"), U64("backup_lba"), U64("first_usable_lba"),
    U64("last_usable_lba"), Raw("disk_uuid", 16), U64("partition_entries_lba"),
    U32("partition_entry_count"), U32("partition_entry_size"),
    U32("partition_entries_checksum")>>
HeaderWrites ==
  <<Raw("signature", 8), U32("version"), U32("header_size"), U32("checksum"),
    U32("reserved"), U64("current_lba"), U64("backup_lba"), U64("first_usable_lba"),
    U64("last_usable_lba"), Raw("disk_uuid", 16), U64("partition_entries_lba"),
    U32("partition_entry_count"), U32("partition_entry_size"),
    U32("partition_entries_checksum"), Raw("rest", SectorBytes - 92)>>

EntryReads == <<Raw("type_uuid", 16), Raw("entry_uuid", 16), U64("first_lba"),
                U64("last_lba"), U64("attributes"), Raw("name", NameBytes)>>
EntryWrites == <<Raw("type_uuid", 16), Raw("entry_uuid", 16), U64("first_lba"),
                 U64("last_lba"), U64("attributes"), Raw("name", NameBytes)>>

\* The second and the third stage have a packet each; the names say whose.
MbrReads ==
  <<Raw("code", CodeBytes),
    Raw("st2dap.reserved", 2), U16("st2dap.sector_count"), U16("st2dap.address"),
    U16("st2dap.segment"), U64("st2dap.sector"),
    Raw("st3dap.reserved", 2), U16("st3dap.sector_count"), U16("st3dap.address"),
    U16("st3dap.segment"), U64("st3dap.sector"),
    U16("boot_signature")>>
\* Mutant: address and segment of the third stage are written the other way round.
MbrWritesSegmentFirst ==
  <<Raw("code", CodeBytes),
    Raw("st2dap.reserved", 2), U16("st2dap.sector_count"), U16("st2dap.address"),
    U16("st2dap.segment"), U64("st2dap.sector"),
    Raw("st3dap.reserved", 2), U16("st3dap.sector_count"), U16("st3dap.segment"),
    U16("st3dap.address"), U64("st3dap.sector"),
    U16("boot_signature")>>
MbrWrites ==
  <<Raw("code", CodeBytes),
    Raw("st2dap.reserved", 2), U16("st2dap.sector_count"), U16("st2dap.address"),
    U16("st2dap.segment"), U64("st2dap.sector"),
    Raw("st3dap.reserved", 2), U16("st3dap.sector_count"), U16("st3dap.address"),
    U16("st3dap.segment"), U64("st3dap.sector"),
    U16("boot_signature")>>

\* The literals are for a header: its checksums among them, and the end of the
\* sector.
ASSUME LiteralsAssumption ==
  /\ \A i \in DOMAIN EntryWrites : EntryWrites[i].name \notin DOMAIN Literals
  /\ \A i \in DOMAIN MbrWrites : MbrWrites[i].name \notin DOMAIN Literals
  /\ \A i \in DOMAIN HeaderWrites :
       LET f == HeaderWrites[i]
       IN f.name \in DOMAIN Literals => Fits(f, Literals[f.name])
  /\ {"checksum", "rest"} \subseteq DOMAIN Literals /\ Literals["checksum"] = 0

\* A header that is formatted has the other fields.
ASSUME HeadersAssumption ==
  \A h \in Headers : \A i \in DOMAIN HeaderWrites :
    LET f == HeaderWrites[i]
    IN /\ f.name \in DOMAIN Literals \cup DOMAIN h
       /\ f.name \in DOMAIN h => Fits(f, h[f.name])

Reads == CASE kind = "header" -> HeaderReads
           [] kind = "entry"  -> EntryReads
           [] OTHER           -> MbrReads
Writes == CASE kind = "header" -> HeaderWrites
            [] kind = "entry"  -> EntryWrites
            [] OTHER           -> MbrWrites

(* -- Transfers ------------------------------------------------------------- *)

Slice(at, n) == [k \in 1..n |-> disk[at + k - 1]]

\* The first done bytes of b are written where the stream is.
Overwritten(at, b, done) ==
  [a \in DOMAIN disk |-> IF at <= a /\ a < at + done THEN b[a - at + 1] ELSE disk[a]]

\* The program ends, with or without an error, or is killed.
Gone == /\ doing' = "nothing" /\ memory' = Nothing
        /\ typed' = IF doing = "write" THEN NoString ELSE typed
        /\ UNCHANGED <<kind, next>>

MayCut == cuts < MaxCuts /\ cuts' = cuts + 1

Exit == /\ doing # "nothing" /\ Gone
        /\ IF doing \in {"write", "sum entries", "sum header"} THEN MayCut
                                                              ELSE UNCHANGED cuts
        /\ UNCHANGED <<disk, pos>>

\* bootable_gpt_header_import, bootable_gpt_entry_import, bootable_mbr_read.
BeginRead == /\ doing = "nothing"
             /\ doing' = "read" /\ pos' = 0 /\ next' = 1
             /\ UNCHANGED <<kind, disk, memory, typed, cuts>>

\* The structure with one field more.
With(f, v) == [name \in DOMAIN memory \cup {f.name} |->
                 IF name = f.name THEN v ELSE memory[name]]

ReadField ==
  /\ doing = "read"
  /\ LET f == Reads[next]
     IN /\ memory' = With(f, Decoded(f, Slice(pos, f.width)))
        /\ pos' = pos + f.width
  /\ next' = next + 1
  /\ doing' = IF next = Len(Reads) THEN "change" ELSE "read"
  /\ UNCHANGED <<kind, disk, typed, cuts>>

BeginWrite == /\ doing = "write" /\ next = 0
              /\ pos' = 0 /\ next' = 1
              /\ UNCHANGED <<kind, disk, memory, doing, typed, cuts>>

\* What bootable_gpt_header_export writes whatever the structure holds.
Source(name) == IF name \in DOMAIN Literals THEN Literals[name] ELSE memory[name]

\* bootable_gpt_header_export, bootable_gpt_entry_export, bootable_mbr_write.
WriteField ==
  /\ doing = "write" /\ next > 0
  /\ LET f == Writes[next]
     IN /\ disk' = Overwritten(pos, Encoded(f, Source(f.name)), f.width)
        /\ pos' = pos + f.width
  /\ next' = next + 1
  /\ doing' = IF next < Len(Writes) THEN "write"
              ELSE IF kind = "header" THEN "sum entries" ELSE "done"
  /\ UNCHANGED <<kind, memory, typed, cuts>>

WriteFieldFails ==
  /\ doing = "write" /\ next > 0
  /\ LET f == Writes[next]
     IN \E done \in 0..(f.width - 1) :
          /\ disk' = Overwritten(pos, Encoded(f, Source(f.name)), done)
          /\ pos' = pos + done
  /\ MayCut /\ Gone

\* encode_uint32_at, and its like in calculate_header_checksum.
PutAt(at, n) ==
  LET b == encode_uint32(n)
  IN \/ /\ disk' = Overwritten(at, b, 4) /\ pos' = at + 4
        /\ doing' = IF doing = "sum entries" THEN "sum header" ELSE "done"
        /\ UNCHANGED <<kind, memory, next, typed, cuts>>
     \/ /\ \E done \in 0..3 : disk' = Overwritten(at, b, done) /\ pos' = at + done
        /\ MayCut /\ Gone

(* -- What is done with the structures -------------------------------------- *)

\* A table is formatted for a new disk, which is then written.
FormatHeader == /\ kind = "header" /\ doing = "nothing"
                /\ memory' \in Headers
                /\ doing' = "write" /\ next' = 0
                /\ UNCHANGED <<kind, disk, pos, typed, cuts>>

\* bootable_gpt_set_disk_uuid.
SetDiskUuid == /\ kind = "header" /\ doing = "change"
               /\ \E uuid \in DiskUuids : memory' = [memory EXCEPT !.disk_uuid = uuid]
               /\ doing' = "write" /\ next' = 0
               /\ UNCHANGED <<kind, disk, pos, typed, cuts>>

\* A header that has been read is written as it is.
KeepHeader == /\ kind = "header" /\ doing = "change"
              /\ doing' = "write" /\ next' = 0
              /\ UNCHANGED <<kind, disk, pos, memory, typed, cuts>>

\* calculate_entries_checksum, as far as it is about this header.
SumEntries == /\ doing = "sum entries" /\ \E sum \in Sums : PutAt(88, sum)

\* Mutant: the checksum goes to the field behind its own.
SumHeaderInReserved == /\ doing = "sum header" /\ PutAt(20, crc32(Slice(0, 92)))
\* calculate_header_checksum.
SumHeader == /\ doing = "sum header" /\ PutAt(16, crc32(Slice(0, 92)))

\* An entry is given its type, bootable_gpt_set_entry_type, or kept.
SetEntryType == /\ kind = "entry" /\ doing = "change"
                /\ \E str \in Strings :
                     /\ Parses(str)
                     /\ \E stack \in Stacks :
                          memory' = [memory EXCEPT !.type_uuid = Parsed(str, stack)]
                     /\ typed' = str
                /\ doing' = "write" /\ next' = 0
                /\ UNCHANGED <<kind, disk, pos, cuts>>

RefuseType == /\ kind = "entry" /\ doing = "change"
              /\ \E str \in Strings : ~Parses(str)
              /\ Gone /\ UNCHANGED <<disk, pos, cuts>>

KeepEntry == /\ kind = "entry" /\ doing = "change"
             /\ doing' = "write" /\ next' = 0
             /\ UNCHANGED <<kind, disk, pos, memory, typed, cuts>>

\* Mutant: the number of sectors is as wide as the size it is computed from.
SectorCountUncut(size) == (size + 511) \div 512
\* The number of sectors of a stage, cut to the width of its field.
SectorCount(size) == Cut16((size + 511) \div 512)

\* update_mbr_gpt, between the reading and the writing of the boot sector.
UpdateMbr ==
  /\ kind = "mbr" /\ doing = "change"
  /\ \E two, three \in Stages :
       memory' = [memory EXCEPT !["st2dap.sector"] = two.first_lba,
                                !["st2dap.sector_count"] = SectorCount(two.size),
                                !["st3dap.sector"] = three.first_lba,
                                !["st3dap.sector_count"] = SectorCount(three.size)]
  /\ doing' = "write" /\ next' = 0
  /\ UNCHANGED <<kind, disk, pos, typed, cuts>>

Init == /\ kind \in {"header", "entry", "mbr"}
        /\ disk \in Found[kind]
        /\ pos = 0 /\ next = 0 /\ cuts = 0
        /\ memory = Nothing /\ doing = "nothing" /\ typed = NoString

Next == \/ Exit \/ BeginRead \/ ReadField \/ BeginWrite \/ WriteField \/ WriteFieldFails
        \/ FormatHeader \/ SetDiskUuid \/ KeepHeader \/ SumEntries \/ SumHeader
        \/ SetEntryType \/ RefuseType \/ KeepEntry \/ UpdateMbr

Spec == Init /\ [][Next]_vars

(* -- What the records are -------------------------------------------------- *)

\* Where the fields that are read lie, one behind the other.
PlacesOf(fields) ==
  LET place[i \in 1..Len(fields)] == IF i = 1 THEN 0 ELSE place[i - 1] + fields[i - 1].width
  IN place
HeaderPlaces == PlacesOf(HeaderReads)
EntryPlaces == PlacesOf(EntryReads)
MbrPlaces == PlacesOf(MbrReads)
Places == CASE kind = "header" -> HeaderPlaces
            [] kind = "entry"  -> EntryPlaces
            [] OTHER           -> MbrPlaces

\* Their names, and what is stored under them.
IndexOf(fields) == [name \in {f.name : f \in Range(fields)} |->
                      CHOOSE i \in DOMAIN fields : fields[i].name = name]
HeaderIndex == IndexOf(HeaderReads)
EntryIndex == IndexOf(EntryReads)
MbrIndex == IndexOf(MbrReads)
Index == CASE kind = "header" -> HeaderIndex
           [] kind = "entry"  -> EntryIndex
           [] OTHER           -> MbrIndex

Stored == [name \in DOMAIN Index |->
             LET f == Reads[Index[name]]
             IN Decoded(f, Slice(Places[Index[name]], f.width))]

Left == LET fields == IF doing = "read" THEN Reads ELSE Writes
        IN {fields[i].name : i \in {j \in DOMAIN fields : j >= next}} \cap DOMAIN Index

Phase == CASE doing = "nothing" -> "idle"
           [] doing = "read"    -> "load"
           [] doing = "change"  -> "held"
           [] doing = "write"   -> "store"
           [] OTHER             -> "stored"

NamedFields == INSTANCE Fields WITH
  stored <- Stored, phase <- Phase,
  left <- IF doing \in {"read", "write"} THEN Left ELSE {}

\* Type invariant: the bytes are bytes, the stream is in the sector, and what
\* is in memory fits the fields it is from.
RecordTypeOK ==
  /\ kind \in {"header", "entry", "mbr"}
  /\ \A a \in DOMAIN disk : disk[a] \in Byte
  /\ pos \in 0..Cardinality(DOMAIN disk)
  /\ next \in 0..(Len(Writes) + 1) /\ cuts \in 0..MaxCuts
  /\ doing \in {"nothing", "read", "change", "write", "sum entries", "sum header", "done"}
  /\ \A f \in Range(Reads) :
       f.name \in DOMAIN memory => Decoded(f, Encoded(f, memory[f.name])) = memory[f.name]

\* gpt.h, mbr.h: a record is a structure of named fields.  What is written
\* under a name is what is read under it, and the checksums, whose places are
\* numbers in gpt.c, are the fields of that name, whatever is cut off where.
ImplementsFields == NamedFields!Spec

\* A header that has been written verifies: "crc32 of header (zero during
\* calculation)", and the sum of the entries is in.
SumsVerify ==
  kind = "header" /\ doing = "done" =>
    /\ Stored["checksum"] =
         crc32([k \in 1..92 |-> IF k \in 17..20 THEN 0 ELSE Slice(0, 92)[k]])
    /\ Stored["partition_entries_checksum"] \in Sums

\* Where a packet has the sector and the number of sectors of a stage.
PacketPlaces(at) == ((at + 2)..(at + 3)) \cup ((at + 8)..(at + 15))
StagePlaces == PacketPlaces(CodeBytes) \cup PacketPlaces(CodeBytes + 16)

\* update_mbr_gpt reads the boot sector and writes it again, with the code in
\* it: wherever the writing stops, what boots is the same but for where the
\* stages are.
BootSectorKept ==
  [][kind = "mbr" => \A a \in DOMAIN disk \ StagePlaces : disk'[a] = disk[a]]_vars

\* bootable_gpt_entry_is_type, of an entry that has been read.
IsType(str, stack) == Parses(str) /\ Parsed(str, stack) = memory["type_uuid"]

IsComplete(str) == Parses(str) /\ Len(Digits(str)) = 32

\* An entry whose type has been set, saved and read again is of that type and
\* of no other, whatever the case and the dashes of the strings, and the type
\* on the disk is the one the string denotes.
TypeFound ==
  kind = "entry" /\ doing = "change" /\ IsComplete(typed) =>
    /\ Denotes(typed, memory["type_uuid"])
    /\ \A str \in Strings, stack \in Stacks :
         IsComplete(str) \/ ~Parses(str) =>
           (IsType(str, stack) <=> IsComplete(str) /\ Digits(str) = Digits(typed))
=============================================================================
