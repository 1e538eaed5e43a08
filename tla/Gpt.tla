--------------------------------- MODULE Gpt ---------------------------------
(****************************************************************************)
(* The GUID partition table a program holds in memory (src/core/gpt.c):     *)
(* formatting it for a disk, naming and typing its entries, and finding     *)
(* room for a partition.  The table is kept twice, as the primary and the   *)
(* backup copy that export writes at both ends of the disk.                 *)
(*                                                                          *)
(* bootable_gpt_set_entry_size is the one operation that is not a single    *)
(* step: its scan over the entries is one step per entry, so that what the  *)
(* loop keeps true is an invariant.  No other call runs meanwhile: the      *)
(* program has one thread, and the guard Ready says so.                     *)
(****************************************************************************)
EXTENDS Integers, FiniteSets

CONSTANTS EntryCount,   \* BOOTABLE_GPT_ENTRY_COUNT, 128 in the code
          Word,         \* 2^64: values of bootable_uint64 are 0..Word-1
          DiskSizes,    \* the disk sizes, in bytes, a table is formatted for
          Sizes,        \* the partition sizes, in bytes, that are asked for
          TypeStrings,  \* the strings given as type UUIDs,
          Uuids,        \*   those of them that parse,
          NullUuid,     \*   and the UUID of an entry with no type
          Names,        \* the names given to entries,
          NoName        \*   and the name of an entry with none

SectorSize == 512
EntrySize == 128
InvalidLba == 0

ASSUME EntryCountAssumption == EntryCount \in Nat \ {0} /\ EntryCount % 4 = 0

ASSUME WordAssumption == Word \in Nat /\ Word % SectorSize = 0 /\ Word > 4 * SectorSize

ASSUME SizesAssumption == Sizes \subseteq 0..(Word - 1)

ASSUME DiskSizesAssumption == DiskSizes \subseteq 1..(Word - 1)

ASSUME TypesAssumption == Uuids \subseteq TypeStrings

\* The bytes of one copy of the entries, and of what both copies occupy as
\* gpt.h counts it (BOOTABLE_GPT_MINIMUM_SIZE).
TableBytes == EntryCount * EntrySize
MinimumSize == (SectorSize + EntrySize * EntryCount) * 2

VARIABLES primary_header,   \* the copies of the header,
          backup_header,
          primary_entries,  \*   and of the entries, NoEntries while NULL
          backup_entries,
          disk_size,        \* the disk the table was formatted for, 0 before
          pc,               \* "idle", or "scan" inside bootable_gpt_set_entry_size
          scan,             \* that function's arguments and locals
          ret               \* what the last call returned

headers == <<primary_header, backup_header>>
entries == <<primary_entries, backup_entries>>
vars == <<headers, entries, disk_size, pc, scan, ret>>

Indices == 0..(EntryCount - 1)

\* The range of bootable_uint64, and its wrapping arithmetic.
U64s == 0..(Word - 1)
U64(n) == n % Word

(* -- Headers and entries ------------------------------------------------- *)

Header == [current_lba : U64s, backup_lba : U64s, first_usable_lba : U64s,
           last_usable_lba : U64s, partition_entries_lba : U64s,
           partition_entry_count : U64s]

InitHeader == [current_lba |-> InvalidLba, backup_lba |-> InvalidLba,
               first_usable_lba |-> InvalidLba, last_usable_lba |-> InvalidLba,
               partition_entries_lba |-> InvalidLba, partition_entry_count |-> 0]

Entry == [type : Uuids \cup {NullUuid}, name : Names \cup {NoName},
          first_lba : U64s, last_lba : U64s]

InitEntry == [type |-> NullUuid, name |-> NoName,
              first_lba |-> InvalidLba, last_lba |-> InvalidLba]

Table == [Indices -> Entry]
EmptyTable == [i \in Indices |-> InitEntry]
NoEntries == [i \in {} |-> InitEntry]

IsUsed(e) == e.first_lba # InvalidLba /\ e.last_lba # InvalidLba

(* -- bootable_gpt_format -------------------------------------------------- *)

LastDiskLba(size) == U64(size - SectorSize) \div SectorSize
FirstUsableLba == ((1 + 1) * SectorSize + TableBytes) \div SectorSize
\* Mutants: a limit left in bytes, and one that forgets the backup entries.
LastUsableLbaInBytes(size) == U64(LastDiskLba(size) * SectorSize - TableBytes - SectorSize)
LastUsableLbaWithoutTable(size) ==
  U64(LastDiskLba(size) * SectorSize - SectorSize) \div SectorSize
LastUsableLba(size) ==
  U64(LastDiskLba(size) * SectorSize - TableBytes - SectorSize) \div SectorSize
\* Mutant: the backup entries begin on the last sector, where their header is.
BackupEntriesLbaOfHeader(size) == U64(LastDiskLba(size) * SectorSize) \div SectorSize
BackupEntriesLba(size) == U64(LastDiskLba(size) * SectorSize - TableBytes) \div SectorSize

FormattedHeader(current, backup, entries_lba, size) ==
  [current_lba |-> current, backup_lba |-> backup,
   first_usable_lba |-> FirstUsableLba, last_usable_lba |-> LastUsableLba(size),
   partition_entries_lba |-> entries_lba, partition_entry_count |-> EntryCount]

\* The program is between two calls.
Idle == pc = "idle"

(* Both headers are filled in before either array is allocated, so a failed *)
(* realloc leaves headers that count entries which are not there.           *)
Format(size) ==
  /\ Idle /\ disk_size = 0
  /\ disk_size' = size
  /\ primary_header' = FormattedHeader(1, LastDiskLba(size), 2, size)
  /\ backup_header' = FormattedHeader(LastDiskLba(size), 1, BackupEntriesLba(size), size)
  /\ \/ primary_entries' = EmptyTable /\ backup_entries' = EmptyTable /\ ret' = "ok"
     \/ primary_entries' = EmptyTable /\ UNCHANGED backup_entries /\ ret' = "ENOMEM"
     \/ UNCHANGED entries /\ ret' = "ENOMEM"
  /\ UNCHANGED <<pc, scan>>

\* A caller goes on with a table only after bootable_gpt_format returned zero.
Ready == Idle /\ backup_entries # NoEntries

(* -- Setting the fields of an entry --------------------------------------- *)

(* The check every setter starts with.  It lets the index one past the last *)
(* entry through; no caller in src/ passes that index, and CallIndices      *)
(* leaves it out.                                                           *)
RejectIndex(i) == \/ i > primary_header.partition_entry_count
                  \/ i > backup_header.partition_entry_count

CallIndices == Indices \cup {EntryCount + 1}

\* An early return: nothing but the result changes.
Return(code) == ret' = code /\ UNCHANGED <<headers, entries, disk_size, pc, scan>>

SetEntryType(i, t) ==
  /\ Ready
  /\ \/ RejectIndex(i) /\ Return("EINVAL")
     \/ ~RejectIndex(i) /\ t \notin Uuids /\ Return("EUUID")
     \/ /\ ~RejectIndex(i) /\ t \in Uuids
        /\ primary_entries' = [primary_entries EXCEPT ![i].type = t]
        /\ backup_entries' = [backup_entries EXCEPT ![i].type = t]
        /\ ret' = "ok"
        /\ UNCHANGED <<headers, disk_size, pc, scan>>

\* Mutant: the backup copy is forgotten.
SetPrimaryNameOnly(i, n) ==
  /\ Ready
  /\ \/ RejectIndex(i) /\ Return("EINVAL")
     \/ /\ ~RejectIndex(i)
        /\ primary_entries' = [primary_entries EXCEPT ![i].name = n]
        /\ ret' = "ok"
        /\ UNCHANGED <<headers, backup_entries, disk_size, pc, scan>>

\* Both forms of the name setter, which differ in the characters they copy.
SetEntryName(i, n) ==
  /\ Ready
  /\ \/ RejectIndex(i) /\ Return("EINVAL")
     \/ /\ ~RejectIndex(i)
        /\ primary_entries' = [primary_entries EXCEPT ![i].name = n]
        /\ backup_entries' = [backup_entries EXCEPT ![i].name = n]
        /\ ret' = "ok"
        /\ UNCHANGED <<headers, disk_size, pc, scan>>

(* -- bootable_gpt_set_entry_size ------------------------------------------ *)

\* size + 511 wraps before it is divided, and then counts as one sector.
\* Mutant: the last sector that a size only begins is not counted.
LbaCountRoundedDown(size) == IF size < SectorSize THEN 1 ELSE size \div SectorSize
LbaCount(size) == LET n == U64(size + (SectorSize - 1)) \div SectorSize
                  IN IF n = 0 THEN 1 ELSE n

Scan == [index : Indices, size : Sizes, lba_count : U64s,
         first_lba : U64s, last_lba : U64s, i : 0..EntryCount]
NoScan == [index |-> 0, size |-> 0, lba_count |-> 0,
           first_lba |-> 0, last_lba |-> 0, i |-> 0]

LastLba(first, count) == U64(U64(first + count) - 1)

SetEntrySize(i, size) ==
  /\ Ready
  /\ \/ RejectIndex(i) /\ Return("EINVAL")
     \/ /\ ~RejectIndex(i)
        /\ pc' = "scan"
        /\ scan' = [index |-> i, size |-> size, lba_count |-> LbaCount(size),
                    first_lba |-> primary_header.first_usable_lba,
                    last_lba |-> LastLba(primary_header.first_usable_lba, LbaCount(size)),
                    i |-> 0]
        /\ ret' = "none"
        /\ UNCHANGED <<headers, entries, disk_size>>

Scanning == pc = "scan" /\ scan.i < primary_header.partition_entry_count

\* Mutant: the test that the entry is used is missing.
InTheWayUsedOrNot(e) == scan.first_lba >= e.first_lba \/ scan.last_lba >= e.first_lba

\* The candidate begins behind the start of this used entry, or reaches up to it.
InTheWay(e) == IsUsed(e) /\ (scan.first_lba >= e.first_lba \/ scan.last_lba >= e.first_lba)

\* Mutants: off by one, in either direction.
OnLastSectorOf(e) == e.last_lba
OneSectorBehind(e) == U64(e.last_lba + 2)
Behind(e) == U64(e.last_lba + 1)

\* One round of the loop.
PassEntry ==
  /\ Scanning /\ ~InTheWay(primary_entries[scan.i])
  /\ scan' = [scan EXCEPT !.i = @ + 1]
  /\ UNCHANGED <<headers, entries, disk_size, pc, ret>>

MoveBehindEntry ==
  /\ Scanning /\ InTheWay(primary_entries[scan.i])
  /\ LET first == Behind(primary_entries[scan.i])
     IN scan' = [scan EXCEPT !.i = @ + 1, !.first_lba = first,
                             !.last_lba = LastLba(first, scan.lba_count)]
  /\ UNCHANGED <<headers, entries, disk_size, pc, ret>>

\* The code after the loop.
FinishSetEntrySize ==
  /\ pc = "scan" /\ scan.i = primary_header.partition_entry_count
  /\ pc' = "idle" /\ scan' = NoScan
  /\ \/ /\ scan.last_lba > primary_header.last_usable_lba
        /\ ret' = "ENOSPC" /\ UNCHANGED entries
     \/ /\ scan.last_lba <= primary_header.last_usable_lba
        /\ primary_entries' = [primary_entries EXCEPT ![scan.index].first_lba = scan.first_lba,
                                                      ![scan.index].last_lba = scan.last_lba]
        /\ backup_entries' = [backup_entries EXCEPT ![scan.index].first_lba = scan.first_lba,
                                                    ![scan.index].last_lba = scan.last_lba]
        /\ ret' = "ok"
  /\ UNCHANGED <<headers, disk_size>>

(* -- The behaviours ------------------------------------------------------- *)

Init == /\ primary_header = InitHeader /\ backup_header = InitHeader
        /\ primary_entries = NoEntries /\ backup_entries = NoEntries
        /\ disk_size = 0 /\ pc = "idle" /\ scan = NoScan /\ ret = "none"

\* bootable_gpt_done, and bootable_gpt_init of the next table.
Done == /\ Idle /\ disk_size # 0
        /\ primary_header' = InitHeader /\ backup_header' = InitHeader
        /\ primary_entries' = NoEntries /\ backup_entries' = NoEntries
        /\ disk_size' = 0 /\ ret' = "none"
        /\ UNCHANGED <<pc, scan>>

(* write_gpt_partitions sizes entry 0, then 1, then 2: each lies behind     *)
(* every entry that already has a place.                                    *)
IsFresh(i) == \A j \in Indices : IsUsed(primary_entries[j]) => j < i

OtherStep == \/ \E size \in DiskSizes : Format(size)
             \/ \E i \in CallIndices, t \in TypeStrings : SetEntryType(i, t)
             \/ \E i \in CallIndices, n \in Names : SetEntryName(i, n)
             \/ PassEntry \/ MoveBehindEntry \/ FinishSetEntrySize
             \/ Done

\* The table as the program uses it.
Next == \/ \E i \in CallIndices, size \in Sizes :
             Ready /\ IsFresh(i) /\ SetEntrySize(i, size)
        \/ OtherStep

Spec == Init /\ [][Next]_vars

\* The table as gpt.h offers it: any entry may be sized, and sized again.
ApiNext == \/ \E i \in CallIndices, size \in Sizes : SetEntrySize(i, size)
           \/ OtherStep

ApiSpec == Init /\ [][ApiNext]_vars

(* -- What the table guarantees -------------------------------------------- *)

Lbas == 0..((Word \div SectorSize) - 1)

\* Type invariant: every variable holds what gpt.h declares, and the LBAs
\* format computes are sector numbers of the 64-bit byte range.
TypeOK ==
  /\ primary_header \in Header /\ backup_header \in Header
  /\ primary_header.last_usable_lba \in Lbas
  /\ primary_header.current_lba \in Lbas /\ primary_header.backup_lba \in Lbas
  /\ primary_entries \in Table \cup {NoEntries}
  /\ backup_entries \in Table \cup {NoEntries}
  /\ disk_size \in {0} \cup DiskSizes
  /\ pc \in {"idle", "scan"}
  /\ scan \in Scan \cup {NoScan}
  /\ backup_entries # NoEntries => primary_entries \in Table
  /\ pc = "scan" => scan \in Scan /\ backup_entries # NoEntries
  /\ ret \in {"none", "ok", "EINVAL", "EUUID", "ENOMEM", "ENOSPC"}

Used == {i \in DOMAIN primary_entries : IsUsed(primary_entries[i])}
First(i) == primary_entries[i].first_lba
Last(i) == primary_entries[i].last_lba

\* No sector belongs to two partitions, and none is empty: what one is
\* written with, set_entry_size has given to no other.
PartitionsDisjoint ==
  /\ \A i \in Used : First(i) <= Last(i)
  /\ \A i, j \in Used : i # j => Last(i) < First(j) \/ Last(j) < First(i)

\* The sectors of one copy of the entries.
TableSectors == TableBytes \div SectorSize

\* The two copies of the table that export writes lie apart, behind the boot
\* sector, and on the disk: format of a large enough disk places them so.
TablesApart ==
  disk_size # 0 =>
    /\ 1 + TableSectors < backup_header.partition_entries_lba
    /\ backup_header.partition_entries_lba + TableSectors - 1 < backup_header.current_lba
    /\ (backup_header.current_lba + 1) * SectorSize <= disk_size

\* A partition lies behind the primary copy of the table and before the
\* backup one, so that neither partition data nor an export damages the other.
PartitionsClearOfTables ==
  \A i \in Used : /\ 1 + TableSectors < First(i)
                  /\ Last(i) < backup_header.partition_entries_lba

\* Each partition begins where the ones before it leave off: no room is lost
\* between partitions, so ENOSPC means that the disk is full.
Packed ==
  \A i \in Used : \A s \in primary_header.first_usable_lba..(First(i) - 1) :
    \E j \in Used : First(j) <= s /\ s <= Last(j)

\* Whenever the table can be exported its two copies say the same, so either
\* of them describes the disk.
CopiesAgree ==
  Ready => /\ primary_entries = backup_entries
           /\ primary_header.first_usable_lba = backup_header.first_usable_lba
           /\ primary_header.last_usable_lba = backup_header.last_usable_lba
           /\ primary_header.partition_entry_count = backup_header.partition_entry_count
           /\ backup_header.current_lba = primary_header.backup_lba
           /\ backup_header.backup_lba = primary_header.current_lba

\* The loop of set_entry_size: its candidate lies behind every entry it has
\* passed, and everything before the candidate is taken by one of those.
ScanBehindPassed ==
  pc = "scan" =>
    /\ \A j \in Used : j < scan.i => Last(j) < scan.first_lba
    /\ \A s \in primary_header.first_usable_lba..(scan.first_lba - 1) :
         \E j \in Used : j < scan.i /\ First(j) <= s /\ s <= Last(j)
=============================================================================
