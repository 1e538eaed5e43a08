------------------------------ MODULE GptProofs ------------------------------
(****************************************************************************)
(* Proofs about the partition table, for every number of entries, every     *)
(* width of the integers, and any set of disk and partition sizes.          *)
(****************************************************************************)
EXTENDS GptAllocator, TLAPS

(* -- Arithmetic ----------------------------------------------------------- *)

\* Wrapping leaves what is in range alone.
LEMMA WrapInRange == ASSUME NEW n \in Nat, n < Word PROVE U64(n) = n
  BY WordAssumption DEF U64

\* Wrapped values are in range.
LEMMA WrapType == ASSUME NEW n \in Int PROVE U64(n) \in U64s
  BY WordAssumption DEF U64, U64s, SectorSize

\* The layout format computes for a disk: both tables and the usable area fit
\* on it, one behind the other.
LEMMA FormatLayout ==
  ASSUME NEW size \in DiskSizes
  PROVE  /\ TableSectors \in Nat \ {0}
         /\ FirstUsableLba = 2 + TableSectors
         /\ LastDiskLba(size) \in Nat
         /\ (LastDiskLba(size) + 1) * SectorSize <= size
         /\ LastUsableLba(size) = LastDiskLba(size) - TableSectors - 1
         /\ BackupEntriesLba(size) = LastDiskLba(size) - TableSectors
         /\ 2 * TableSectors + 2 <= LastDiskLba(size)
         /\ LastDiskLba(size) < Word \div SectorSize
<1>1. Word \in Nat /\ size \in Nat /\ size < Word /\ MinimumSize + SectorSize <= size
  BY RoomAssumption, WordAssumption, EntryCountAssumption
     DEF MinimumSize, SectorSize, EntrySize
<1>2. /\ TableBytes = TableSectors * SectorSize
      /\ TableSectors \in Nat \ {0}
      /\ MinimumSize = 2 * SectorSize + 2 * TableBytes
  BY EntryCountAssumption DEF TableSectors, TableBytes, MinimumSize, SectorSize, EntrySize
<1>3. FirstUsableLba = 2 + TableSectors
  BY <1>2 DEF FirstUsableLba, SectorSize
<1>4. U64(size - SectorSize) = size - SectorSize
  BY <1>1, <1>2, WrapInRange DEF SectorSize
<1>5. /\ LastDiskLba(size) \in Nat
      /\ (LastDiskLba(size) + 1) * SectorSize <= size
      /\ 2 * TableSectors + 2 <= LastDiskLba(size)
  BY <1>1, <1>2, <1>4 DEF LastDiskLba, SectorSize
<1>6. LastDiskLba(size) < Word \div SectorSize
  BY <1>1, <1>5, WordAssumption DEF SectorSize
<1>7. LastUsableLba(size) = LastDiskLba(size) - TableSectors - 1
  <2> DEFINE n == LastDiskLba(size) * SectorSize - TableBytes - SectorSize
  <2>1. n = (LastDiskLba(size) - TableSectors - 1) * SectorSize /\ n \in Nat /\ n < Word
    BY <1>1, <1>2, <1>5 DEF SectorSize
  <2>2. U64(n) = n
    BY <2>1, WrapInRange
  <2> QED
    BY <1>2, <1>5, <2>1, <2>2 DEF LastUsableLba, SectorSize
<1>8. BackupEntriesLba(size) = LastDiskLba(size) - TableSectors
  <2> DEFINE n == LastDiskLba(size) * SectorSize - TableBytes
  <2>1. n = (LastDiskLba(size) - TableSectors) * SectorSize /\ n \in Nat /\ n < Word
    BY <1>1, <1>2, <1>5 DEF SectorSize
  <2>2. U64(n) = n
    BY <2>1, WrapInRange
  <2> QED
    BY <1>2, <1>5, <2>1, <2>2 DEF BackupEntriesLba, SectorSize
<1> QED
  BY <1>2, <1>3, <1>5, <1>6, <1>7, <1>8

\* The length of a run is positive and, in bytes, no more than Word, and it is
\* the smallest that fits the size.
LEMMA RunLength ==
  ASSUME NEW size \in Sizes
  PROVE  /\ size \in Nat
         /\ LbaCount(size) \in Nat \ {0}
         /\ LbaCount(size) <= Word \div SectorSize
         /\ size <= LbaCount(size) * SectorSize
         /\ LbaCount(size) # 1 => (LbaCount(size) - 1) * SectorSize < size
<1>1. size \in Nat /\ size + (SectorSize - 1) < Word
  BY NoWrapAssumption, WordAssumption DEF SectorSize
<1>2. U64(size + (SectorSize - 1)) = size + (SectorSize - 1)
  BY <1>1, WrapInRange DEF SectorSize
<1> QED
  BY <1>1, <1>2, WordAssumption DEF LbaCount, SectorSize

\* The last sector of a run that begins at a sector of the disk, or just
\* behind its last one.
LEMMA RunEnd ==
  ASSUME NEW first \in Nat, first < Word \div SectorSize,
         NEW count \in Nat \ {0}, count <= Word \div SectorSize
  PROVE  LastLba(first, count) = first + count - 1
<1>1. first + count < Word
  BY WordAssumption DEF SectorSize
<1> QED
  BY <1>1, WrapInRange, WordAssumption DEF LastLba

(* -- The inductive invariant ----------------------------------------------- *)

\* What Formatted says of a table that has entries: its headers describe a
\* disk large enough for both copies, and its entries lie in both of them.
LEMMA ReadyTable ==
  ASSUME TypeOK, Formatted, backup_entries # NoEntries
  PROVE  /\ disk_size \in DiskSizes
         /\ primary_header = FormattedHeader(1, LastDiskLba(disk_size), 2, disk_size)
         /\ backup_header = FormattedHeader(LastDiskLba(disk_size), 1,
                                            BackupEntriesLba(disk_size), disk_size)
         /\ primary_header.partition_entry_count = EntryCount
         /\ backup_header.partition_entry_count = EntryCount
         /\ primary_header.first_usable_lba \in Nat \ {0, 1}
         /\ primary_header.first_usable_lba < Word \div SectorSize
         /\ primary_header.last_usable_lba \in Nat
         /\ primary_header.last_usable_lba + 1 < Word \div SectorSize
         /\ primary_entries \in Table /\ backup_entries = primary_entries
<1>1. disk_size \in DiskSizes /\ disk_size # 0
  BY DiskSizesAssumption DEF TypeOK, Formatted
<1>2. /\ primary_header = FormattedHeader(1, LastDiskLba(disk_size), 2, disk_size)
      /\ backup_header = FormattedHeader(LastDiskLba(disk_size), 1,
                                         BackupEntriesLba(disk_size), disk_size)
  BY <1>1 DEF Formatted
<1>3. /\ primary_header.partition_entry_count = EntryCount
      /\ backup_header.partition_entry_count = EntryCount
      /\ primary_header.first_usable_lba = FirstUsableLba
      /\ primary_header.last_usable_lba = LastUsableLba(disk_size)
  BY <1>2 DEF FormattedHeader
<1>4. /\ FirstUsableLba \in Nat \ {0, 1}
      /\ FirstUsableLba < Word \div SectorSize
      /\ LastUsableLba(disk_size) \in Nat
      /\ LastUsableLba(disk_size) + 1 < Word \div SectorSize
  BY <1>1, FormatLayout, WordAssumption DEF SectorSize
<1> QED
  BY <1>1, <1>2, <1>3, <1>4 DEF TypeOK, Formatted

\* No entry of a table without its arrays, or just formatted, is used.
LEMMA NoneUsed ==
  ASSUME primary_entries \in {NoEntries, EmptyTable}
  PROVE  Used = {}
  BY DEF Used, IsUsed, NoEntries, EmptyTable, InitEntry, InvalidLba

\* The types of the tables that format and gpt_init write.
LEMMA InitTypes ==
  /\ InitHeader \in Header
  /\ InitEntry \in Entry
  /\ EmptyTable \in Table /\ EmptyTable # NoEntries
  /\ 0 \in Indices
<1>1. 0 \in U64s /\ 0 \in Indices
  BY WordAssumption, EntryCountAssumption DEF U64s, SectorSize, Indices
<1>2. InitHeader \in Header /\ InitEntry \in Entry
  BY <1>1 DEF InitHeader, Header, InitEntry, Entry, InvalidLba
<1>3. DOMAIN EmptyTable = Indices /\ DOMAIN NoEntries = {}
  BY DEF EmptyTable, NoEntries
<1> QED
  BY <1>1, <1>2, <1>3 DEF EmptyTable, Table

\* The headers format writes are headers.
LEMMA FormatTypes ==
  ASSUME NEW size \in DiskSizes
  PROVE  LET p == FormattedHeader(1, LastDiskLba(size), 2, size)
             b == FormattedHeader(LastDiskLba(size), 1, BackupEntriesLba(size), size)
         IN /\ p \in Header /\ b \in Header
            /\ p.last_usable_lba \in Lbas /\ p.current_lba \in Lbas /\ p.backup_lba \in Lbas
<1>1. /\ LastDiskLba(size) \in Lbas /\ LastUsableLba(size) \in Lbas
      /\ BackupEntriesLba(size) \in Lbas /\ FirstUsableLba \in Lbas /\ 1 \in Lbas /\ 2 \in Lbas
  BY FormatLayout, WordAssumption DEF Lbas, SectorSize
<1>2. Lbas \subseteq U64s
  BY WordAssumption DEF Lbas, U64s, SectorSize
<1>3. EntryCount \in U64s
  BY RoomAssumption, EntryCountAssumption, WordAssumption
     DEF MinimumSize, SectorSize, EntrySize, U64s
<1> QED
  BY <1>1, <1>2, <1>3 DEF FormattedHeader, Header

\* The initial state.
LEMMA InitIInv == Init => IInv
<1> SUFFICES ASSUME Init PROVE IInv
  OBVIOUS
<1>1. Used = {}
  BY NoneUsed DEF Init
<1>2. TypeOK
  <2>1. 0 \in Lbas
    BY WordAssumption DEF Lbas, SectorSize
  <2> QED
    BY <2>1, InitTypes DEF Init, TypeOK, InitHeader, InvalidLba
<1>3. Formatted
  BY DEF Init, Formatted
<1> QED
  BY <1>1, <1>2, <1>3 DEF Init, IInv, Ordered, Packed, ScanCandidate, ScanBehindPassed

\* Formatting a disk leaves an empty table, whatever realloc answers.
LEMMA FormatIInv ==
  ASSUME IInv, NEW size \in DiskSizes, Format(size)
  PROVE  IInv'
<1>1. primary_entries \in {NoEntries, EmptyTable} /\ backup_entries = NoEntries
  BY DEF Format, IInv, Formatted
<1>2. /\ primary_entries' \in {NoEntries, EmptyTable}
      /\ backup_entries' \in {NoEntries, EmptyTable}
      /\ backup_entries' # NoEntries => primary_entries' = backup_entries'
  BY <1>1 DEF Format, entries
<1>3. Used' = {}
  BY <1>2, NoneUsed DEF Used, First, Last, IsUsed, NoEntries, EmptyTable, InitEntry, InvalidLba
<1>4. size # 0
  BY DiskSizesAssumption, WordAssumption
<1>5. Formatted'
  BY <1>2, <1>4 DEF Format, Formatted
<1>6. TypeOK'
  BY <1>2, FormatTypes, InitTypes DEF Format, Idle, IInv, TypeOK
<1> QED
  BY <1>3, <1>5, <1>6
     DEF Format, Idle, IInv, Ordered, Packed, ScanCandidate, ScanBehindPassed

\* A step that leaves the extents of the used entries alone leaves the layout
\* alone.
LEMMA ExtentsKept ==
  ASSUME Ordered, Packed, UNCHANGED headers, Used' = Used,
         \A j \in Used : First(j)' = First(j) /\ Last(j)' = Last(j)
  PROVE  Ordered' /\ Packed'
<1>1. Ordered'
  BY DEF Ordered, headers
<1>2. Packed'
  BY DEF Packed, headers
<1> QED
  BY <1>1, <1>2

\* A call that returns at once changes no part of the table.
LEMMA ReturnIInv ==
  ASSUME IInv, NEW code \in {"EINVAL", "EUUID"}, Return(code)
  PROVE  IInv'
<1>1. /\ UNCHANGED <<headers, entries, disk_size, pc, scan>>
      /\ ret' \in {"EINVAL", "EUUID"}
  BY DEF Return
<1>2. Used' = Used /\ \A j \in Used : First(j)' = First(j) /\ Last(j)' = Last(j)
  BY <1>1 DEF entries, Used, First, Last
<1>3. TypeOK'
  BY <1>1 DEF IInv, TypeOK, headers, entries
<1>4. Formatted'
  BY <1>1 DEF IInv, Formatted, headers, entries
<1>5. Ordered' /\ Packed'
  BY <1>1, <1>2, ExtentsKept DEF IInv
<1>6. ScanCandidate' /\ ScanBehindPassed'
  BY <1>1, <1>2 DEF IInv, ScanCandidate, ScanBehindPassed, headers
<1> QED
  BY <1>3, <1>4, <1>5, <1>6 DEF IInv

\* The entries a setter accepts are those of the table.
LEMMA AcceptedIndex ==
  ASSUME IInv, Ready, NEW i \in CallIndices, ~RejectIndex(i)
  PROVE  i \in Indices
<1>1. primary_header.partition_entry_count = EntryCount
  BY ReadyTable DEF IInv, Ready
<1> QED
  BY <1>1, EntryCountAssumption DEF RejectIndex, CallIndices, Indices

\* A setter that changes the label of an entry moves no partition.
LEMMA Relabel ==
  ASSUME IInv, Ready, NEW i \in Indices, NEW e \in Entry,
         e.first_lba = First(i), e.last_lba = Last(i),
         primary_entries' = [primary_entries EXCEPT ![i] = e],
         backup_entries' = [backup_entries EXCEPT ![i] = e],
         ret' = "ok", UNCHANGED <<headers, disk_size, pc, scan>>
  PROVE  /\ IInv'
         /\ Used' = Used /\ \A j \in Used : First(j)' = First(j) /\ Last(j)' = Last(j)
         /\ backup_entries' # NoEntries
<1>1. primary_entries \in Table /\ backup_entries = primary_entries
  BY ReadyTable DEF IInv, Ready
<1>2. /\ primary_entries' \in Table /\ backup_entries' = primary_entries'
      /\ \A j \in Indices : /\ primary_entries'[j].first_lba = primary_entries[j].first_lba
                            /\ primary_entries'[j].last_lba = primary_entries[j].last_lba
  BY <1>1 DEF Table, First, Last
<1>3. Used' = Used /\ \A j \in Used : First(j)' = First(j) /\ Last(j)' = Last(j)
  BY <1>1, <1>2 DEF Used, First, Last, IsUsed, Table
<1>4. Ordered' /\ Packed'
  BY <1>3, ExtentsKept DEF IInv
<1>5. backup_entries' # NoEntries
  BY <1>2, EntryCountAssumption DEF Table, NoEntries, Indices
<1>6. TypeOK'
  BY <1>2 DEF IInv, TypeOK, Ready, Idle, headers
<1>7. Formatted'
  BY <1>2, <1>5 DEF IInv, Formatted, Ready, headers
<1>8. IInv'
  BY <1>4, <1>6, <1>7 DEF IInv, ScanCandidate, ScanBehindPassed, Ready, Idle
<1> QED
  BY <1>3, <1>5, <1>8

\* Setting the type of an entry, when it is not refused, relabels it.
LEMMA SetEntryTypeRelabels ==
  ASSUME IInv, NEW i \in CallIndices, NEW t \in TypeStrings, SetEntryType(i, t)
  PROVE  \/ \E code \in {"EINVAL", "EUUID"} : Return(code)
         \/ /\ IInv'
            /\ Used' = Used /\ \A j \in Used : First(j)' = First(j) /\ Last(j)' = Last(j)
            /\ backup_entries # NoEntries /\ backup_entries' # NoEntries
            /\ UNCHANGED <<headers, pc, scan>>
<1>1. CASE /\ ~RejectIndex(i) /\ t \in Uuids
           /\ primary_entries' = [primary_entries EXCEPT ![i].type = t]
           /\ backup_entries' = [backup_entries EXCEPT ![i].type = t]
           /\ ret' = "ok"
           /\ UNCHANGED <<headers, disk_size, pc, scan>>
  <2>1. Ready /\ i \in Indices
    BY <1>1, AcceptedIndex DEF SetEntryType
  <2>2. primary_entries \in Table /\ backup_entries = primary_entries
    BY <2>1, ReadyTable DEF IInv, Ready
  <2> DEFINE e == [primary_entries[i] EXCEPT !.type = t]
  <2>3. e \in Entry /\ e.first_lba = First(i) /\ e.last_lba = Last(i)
    BY <1>1, <2>1, <2>2 DEF Table, Entry, First, Last
  <2>4. /\ primary_entries' = [primary_entries EXCEPT ![i] = e]
        /\ backup_entries' = [backup_entries EXCEPT ![i] = e]
    BY <1>1, <2>2
  <2> QED
    BY <1>1, <2>1, <2>3, <2>4, Relabel DEF Ready
<1> QED
  BY <1>1 DEF SetEntryType

\* So does naming it.
LEMMA SetEntryNameRelabels ==
  ASSUME IInv, NEW i \in CallIndices, NEW n \in Names, SetEntryName(i, n)
  PROVE  \/ Return("EINVAL")
         \/ /\ IInv'
            /\ Used' = Used /\ \A j \in Used : First(j)' = First(j) /\ Last(j)' = Last(j)
            /\ backup_entries # NoEntries /\ backup_entries' # NoEntries
            /\ UNCHANGED <<headers, pc, scan>>
<1>1. CASE /\ ~RejectIndex(i)
           /\ primary_entries' = [primary_entries EXCEPT ![i].name = n]
           /\ backup_entries' = [backup_entries EXCEPT ![i].name = n]
           /\ ret' = "ok"
           /\ UNCHANGED <<headers, disk_size, pc, scan>>
  <2>1. Ready /\ i \in Indices
    BY <1>1, AcceptedIndex DEF SetEntryName
  <2>2. primary_entries \in Table /\ backup_entries = primary_entries
    BY <2>1, ReadyTable DEF IInv, Ready
  <2> DEFINE e == [primary_entries[i] EXCEPT !.name = n]
  <2>3. e \in Entry /\ e.first_lba = First(i) /\ e.last_lba = Last(i)
    BY <1>1, <2>1, <2>2 DEF Table, Entry, First, Last
  <2>4. /\ primary_entries' = [primary_entries EXCEPT ![i] = e]
        /\ backup_entries' = [backup_entries EXCEPT ![i] = e]
    BY <1>1, <2>2
  <2> QED
    BY <1>1, <2>1, <2>3, <2>4, Relabel DEF Ready
<1> QED
  BY <1>1 DEF SetEntryName

\* Sizing an entry begins with the first run of the usable area: no entry has
\* been passed, and nothing lies before the candidate.
LEMMA SetEntrySizeIInv ==
  ASSUME IInv, NEW i \in CallIndices, NEW size \in Sizes,
         Ready, IsFresh(i), SetEntrySize(i, size)
  PROVE  IInv'
<1>1. CASE Return("EINVAL")
  BY <1>1, ReturnIInv
<1>2. CASE /\ ~RejectIndex(i)
           /\ pc' = "scan"
           /\ scan' = [index |-> i, size |-> size, lba_count |-> LbaCount(size),
                       first_lba |-> primary_header.first_usable_lba,
                       last_lba |-> LastLba(primary_header.first_usable_lba, LbaCount(size)),
                       i |-> 0]
           /\ ret' = "none"
           /\ UNCHANGED <<headers, entries, disk_size>>
  <2>1. i \in Indices
    BY <1>2, AcceptedIndex
  <2> DEFINE first == primary_header.first_usable_lba
  <2>2. /\ first \in Nat /\ first < Word \div SectorSize
        /\ primary_entries \in Table
    BY ReadyTable DEF IInv, Ready
  <2>3. LastLba(first, LbaCount(size)) = first + LbaCount(size) - 1
    BY <2>2, RunEnd, RunLength
  <2>4. scan' \in Scan
    <3>1. size \in U64s /\ first \in U64s /\ LbaCount(size) \in U64s
      BY <2>2, RunLength, SizesAssumption, WordAssumption DEF U64s, SectorSize
    <3>2. LastLba(first, LbaCount(size)) \in U64s
      BY <2>2, RunLength, WrapType, WordAssumption DEF LastLba, U64s, U64, SectorSize
    <3> QED
      BY <1>2, <2>1, <3>1, <3>2, EntryCountAssumption DEF Scan
  <2>5. Used' = Used /\ \A j \in Used : First(j)' = First(j) /\ Last(j)' = Last(j)
    BY <1>2 DEF entries, Used, First, Last
  <2>6. Used \subseteq Nat
    BY <2>2, EntryCountAssumption DEF Used, Table, Indices
  <2>7. TypeOK'
    BY <1>2, <2>4 DEF IInv, TypeOK, headers, entries, Ready
  <2>8. Formatted'
    BY <1>2 DEF IInv, Formatted, headers, entries
  <2>9. Ordered' /\ Packed'
    BY <1>2, <2>5, ExtentsKept DEF IInv
  <2>10. \A j \in Used : j < i
    BY <2>2 DEF IsFresh, Used, Table
  <2>11. ScanCandidate'
    BY <1>2, <2>2, <2>3, <2>5, <2>10 DEF ScanCandidate, headers
  <2>12. ScanBehindPassed'
    BY <1>2, <2>2, <2>5, <2>6 DEF ScanBehindPassed, headers
  <2> QED
    BY <2>7, <2>8, <2>9, <2>11, <2>12 DEF IInv
<1> QED
  BY <1>1, <1>2 DEF SetEntrySize

\* Inside the loop there is a table, and the entry looked at is one of it.
LEMMA ScanningEntry ==
  ASSUME IInv, Scanning
  PROVE  /\ backup_entries # NoEntries
         /\ primary_entries \in Table
         /\ scan \in Scan /\ scan.i \in Indices /\ scan.i < EntryCount
         /\ scan.first_lba \in Nat /\ scan.lba_count \in Nat /\ scan.i \in Nat
         /\ Used \subseteq Indices
         /\ \A j \in Used : /\ First(j) \in Nat /\ Last(j) \in Nat
                            /\ Last(j) + 1 < Word \div SectorSize
<1>1. backup_entries # NoEntries /\ scan \in Scan
  BY DEF Scanning, IInv, TypeOK
<1>2. /\ primary_entries \in Table /\ primary_header.partition_entry_count = EntryCount
      /\ primary_header.last_usable_lba \in Nat
      /\ primary_header.last_usable_lba + 1 < Word \div SectorSize
  BY <1>1, ReadyTable DEF IInv
<1>3. scan.i \in Indices /\ scan.i < EntryCount /\ scan.i \in Nat
  BY <1>1, <1>2, EntryCountAssumption DEF Scanning, Scan, Indices
<1>4. scan.first_lba \in Nat /\ scan.lba_count \in Nat
  BY <1>1, WordAssumption DEF Scan, U64s
<1>5. Used \subseteq Indices /\ \A j \in Used : First(j) \in Nat /\ Last(j) \in Nat
  BY <1>2, WordAssumption DEF Used, First, Last, Table, Entry, U64s
<1>6. \A j \in Used : Last(j) + 1 < Word \div SectorSize
  BY <1>2, <1>5, WordAssumption DEF IInv, Ordered, SectorSize
<1> QED
  BY <1>1, <1>2, <1>3, <1>4, <1>5, <1>6

\* An entry the loop passes without moving is unused: were it used, it would
\* begin behind the candidate, and what lies before it is taken.
LEMMA PassedIsUnused ==
  ASSUME IInv, Scanning, ~InTheWay(primary_entries[scan.i])
  PROVE  scan.i \notin Used
<1> SUFFICES ASSUME scan.i \in Used PROVE FALSE
  OBVIOUS
<1>1. scan.first_lba < First(scan.i)
  BY ScanningEntry DEF InTheWay, Used, First
<1>2. /\ primary_header.first_usable_lba \in Nat
      /\ primary_header.first_usable_lba <= scan.first_lba
  BY ScanningEntry, ReadyTable DEF IInv, ScanCandidate, Scanning
<1>3. scan.first_lba \in primary_header.first_usable_lba..(First(scan.i) - 1)
  BY <1>1, <1>2, ScanningEntry
<1>4. PICK j \in Used : First(j) <= scan.first_lba /\ scan.first_lba <= Last(j)
  BY <1>3 DEF IInv, Packed
<1>5. j < scan.i
  BY <1>1, <1>4, ScanningEntry, EntryCountAssumption DEF IInv, Ordered, Indices
<1>6. Last(j) < scan.first_lba
  BY <1>5 DEF IInv, ScanBehindPassed, Scanning
<1> QED
  BY <1>4, <1>6, ScanningEntry

\* Passing an entry only counts it.
LEMMA PassEntryIInv ==
  ASSUME IInv, PassEntry
  PROVE  IInv'
<1>1. Scanning /\ scan.i \notin Used /\ UNCHANGED <<headers, entries, disk_size, pc, ret>>
  BY PassedIsUnused DEF PassEntry
<1>2. /\ scan' \in Scan /\ scan'.i = scan.i + 1 /\ scan'.first_lba = scan.first_lba
      /\ scan'.last_lba = scan.last_lba /\ scan'.lba_count = scan.lba_count
      /\ scan'.index = scan.index /\ scan'.size = scan.size
  BY <1>1, ScanningEntry, EntryCountAssumption DEF PassEntry, Scan
<1>3. Used' = Used /\ \A j \in Used : First(j)' = First(j) /\ Last(j)' = Last(j)
  BY <1>1 DEF entries, Used, First, Last
<1>4. TypeOK'
  BY <1>1, <1>2 DEF IInv, TypeOK, headers, entries
<1>5. Formatted'
  BY <1>1 DEF IInv, Formatted, headers, entries
<1>6. Ordered' /\ Packed'
  BY <1>1, <1>3, ExtentsKept DEF IInv
<1>7. ScanCandidate'
  BY <1>1, <1>2, <1>3 DEF IInv, ScanCandidate, Scanning, headers
<1>8. ScanBehindPassed'
  <2>1. \A j \in Used : j < scan.i + 1 <=> j < scan.i
    BY <1>1, ScanningEntry, EntryCountAssumption DEF Indices
  <2> QED
    BY <1>1, <1>2, <1>3, <2>1 DEF IInv, ScanBehindPassed, Scanning, headers
<1> QED
  BY <1>4, <1>5, <1>6, <1>7, <1>8 DEF IInv

\* Moving behind an entry leaves that entry, and what lies before it, behind
\* the candidate.
LEMMA MoveBehindEntryIInv ==
  ASSUME IInv, MoveBehindEntry
  PROVE  IInv'
<1> DEFINE k == scan.i
           first == Last(k) + 1
<1>1. Scanning /\ k \in Used /\ UNCHANGED <<headers, entries, disk_size, pc, ret>>
  BY ScanningEntry DEF MoveBehindEntry, InTheWay, Used, Table
<1>2. Behind(primary_entries[k]) = first /\ first \in Nat /\ first < Word \div SectorSize
  BY <1>1, ScanningEntry, WrapInRange, WordAssumption DEF Behind, Last, SectorSize
<1>3. /\ scan.lba_count \in Nat \ {0} /\ scan.lba_count <= Word \div SectorSize
      /\ scan.lba_count = LbaCount(scan.size)
  <2>1. scan.lba_count = LbaCount(scan.size) /\ scan.size \in U64s
    BY <1>1, SizesAssumption DEF IInv, ScanCandidate, TypeOK, Scanning, Scan, U64s
  <2>2. U64(scan.size + (SectorSize - 1)) \in U64s
    BY <2>1, WrapType, WordAssumption DEF U64s, SectorSize
  <2> QED
    BY <2>1, <2>2, WordAssumption DEF LbaCount, U64s, SectorSize
<1>4. LastLba(first, scan.lba_count) = first + scan.lba_count - 1
  BY <1>2, <1>3, RunEnd
<1>5. /\ scan' = [scan EXCEPT !.i = k + 1, !.first_lba = first,
                              !.last_lba = first + scan.lba_count - 1]
  BY <1>2, <1>4 DEF MoveBehindEntry
<1>6. /\ first \in U64s /\ first + scan.lba_count - 1 \in U64s
      /\ k + 1 \in 0..EntryCount /\ scan \in Scan
  <2>1. first \in U64s /\ first + scan.lba_count - 1 \in U64s
    BY <1>2, <1>3, WordAssumption DEF U64s, SectorSize
  <2>2. k + 1 \in 0..EntryCount /\ scan \in Scan
    BY <1>1, ScanningEntry, EntryCountAssumption
  <2> QED
    BY <2>1, <2>2
<1>7. /\ scan' \in Scan /\ scan'.i = k + 1 /\ scan'.first_lba = first
      /\ scan'.last_lba = first + scan.lba_count - 1
      /\ scan'.lba_count = scan.lba_count
      /\ scan'.index = scan.index /\ scan'.size = scan.size
  <2> HIDE DEF k, first
  <2> QED
    BY <1>5, <1>6 DEF Scan
<1>8. Used' = Used /\ \A j \in Used : First(j)' = First(j) /\ Last(j)' = Last(j)
  BY <1>1 DEF entries, Used, First, Last
<1>9. TypeOK'
  BY <1>1, <1>7 DEF IInv, TypeOK, headers, entries
<1>10. Formatted'
  BY <1>1 DEF IInv, Formatted, headers, entries
<1>11. Ordered' /\ Packed'
  BY <1>1, <1>8, ExtentsKept DEF IInv
<1>12. ScanCandidate'
  <2>1. /\ primary_header.first_usable_lba \in Nat /\ primary_header.last_usable_lba \in Nat
        /\ primary_header.first_usable_lba <= First(k) /\ First(k) <= Last(k)
        /\ Last(k) <= primary_header.last_usable_lba
    BY <1>1, ReadyTable, ScanningEntry DEF IInv, Ordered
  <2>2. First(k) \in Nat /\ Last(k) \in Nat
    BY <1>1, ScanningEntry
  <2>3. primary_header.first_usable_lba <= first /\ first <= primary_header.last_usable_lba + 1
    BY <2>1, <2>2
  <2>4. \A j \in Used : j < scan.index
    BY <1>1 DEF IInv, ScanCandidate, Scanning
  <2> QED
    BY <1>1, <1>3, <1>7, <1>8, <2>3, <2>4 DEF ScanCandidate, headers
<1>13. ScanBehindPassed'
  <2>1. \A j \in Used : j < k + 1 => Last(j) < first
    <3> SUFFICES ASSUME NEW j \in Used, j < k + 1 PROVE Last(j) < first
      OBVIOUS
    <3>1. j \in Indices /\ k \in Indices /\ First(k) \in Nat /\ Last(k) \in Nat /\ Last(j) \in Nat
      BY <1>1, ScanningEntry
    <3>2. CASE j = k
      BY <3>1, <3>2
    <3>3. CASE j < k
      BY <1>1, <3>1, <3>3 DEF IInv, Ordered
    <3> QED
      BY <3>1, <3>2, <3>3, EntryCountAssumption DEF Indices
  <2>2. ASSUME NEW s \in primary_header.first_usable_lba..(first - 1)
        PROVE  \E j \in Used : j < k + 1 /\ First(j) <= s /\ s <= Last(j)
    <3>1. s \in Int /\ primary_header.first_usable_lba <= s /\ s <= Last(k)
      BY <1>1, ReadyTable, ScanningEntry DEF IInv
    <3>2. CASE First(k) <= s
      BY <1>1, <3>1, <3>2, ScanningEntry
    <3>3. CASE s < First(k)
      <4>1. s \in primary_header.first_usable_lba..(First(k) - 1)
        BY <1>1, <3>1, <3>3, ReadyTable, ScanningEntry DEF IInv
      <4>2. PICK j \in Used : First(j) <= s /\ s <= Last(j)
        BY <1>1, <4>1 DEF IInv, Packed
      <4>3. j < k
        BY <1>1, <3>1, <3>3, <4>2, ScanningEntry, EntryCountAssumption
           DEF IInv, Ordered, Indices
      <4> QED
        BY <4>2, <4>3, <1>1, ScanningEntry, EntryCountAssumption DEF Indices
    <3> QED
      BY <1>1, <3>1, <3>2, <3>3, ScanningEntry
  <2> QED
    BY <1>1, <1>7, <1>8, <2>1, <2>2 DEF ScanBehindPassed, headers
<1> QED
  BY <1>9, <1>10, <1>11, <1>12, <1>13 DEF IInv

\* At the end of the loop the candidate lies behind every used entry, and the
\* sectors before it are all taken.
LEMMA LoopEnd ==
  ASSUME IInv, pc = "scan", scan.i = primary_header.partition_entry_count
  PROVE  /\ backup_entries # NoEntries /\ primary_entries \in Table
         /\ backup_entries = primary_entries
         /\ scan.index \in Indices /\ scan.index \notin Used
         /\ primary_header.first_usable_lba \in Nat \ {0, 1}
         /\ primary_header.last_usable_lba \in Nat
         /\ primary_header.first_usable_lba <= scan.first_lba
         /\ scan.first_lba \in U64s \ {0} /\ scan.last_lba \in U64s \ {0}
         /\ scan.first_lba <= scan.last_lba
         /\ \A j \in Used : j \in Indices /\ j < scan.index /\ Last(j) < scan.first_lba
         /\ \A s \in primary_header.first_usable_lba..(scan.first_lba - 1) :
              \E j \in Used : First(j) <= s /\ s <= Last(j)
<1>1. backup_entries # NoEntries /\ scan \in Scan
  BY DEF IInv, TypeOK
<1>2. /\ primary_entries \in Table /\ backup_entries = primary_entries
      /\ primary_header.partition_entry_count = EntryCount
      /\ primary_header.first_usable_lba \in Nat \ {0, 1}
      /\ primary_header.last_usable_lba \in Nat
  BY <1>1, ReadyTable DEF IInv
<1>3. \A j \in Used : j \in Indices /\ j < scan.i /\ j < scan.index
  BY <1>2, EntryCountAssumption DEF Used, Table, Indices, IInv, ScanCandidate
<1>4. /\ scan.index \in Indices /\ scan.first_lba \in U64s /\ scan.last_lba \in U64s
      /\ scan.lba_count \in U64s
  BY <1>1 DEF Scan
<1>5. scan.index \notin Used
  BY <1>3, <1>4, EntryCountAssumption DEF Indices
<1>6. /\ scan.lba_count # 0
      /\ primary_header.first_usable_lba <= scan.first_lba
      /\ scan.last_lba = scan.first_lba + scan.lba_count - 1
  BY DEF IInv, ScanCandidate, LbaCount
<1>7. /\ scan.first_lba # 0 /\ scan.last_lba # 0 /\ scan.first_lba <= scan.last_lba
  BY <1>2, <1>4, <1>6, WordAssumption DEF U64s
<1>8. /\ \A j \in Used : Last(j) < scan.first_lba
      /\ \A s \in primary_header.first_usable_lba..(scan.first_lba - 1) :
           \E j \in Used : First(j) <= s /\ s <= Last(j)
  BY <1>3 DEF IInv, ScanBehindPassed
<1> QED
  BY <1>1, <1>2, <1>3, <1>4, <1>5, <1>6, <1>7, <1>8

\* What the grant of a candidate does to the extents: the sized entry takes the
\* candidate, and the others keep theirs.
LEMMA GrantExtents ==
  ASSUME IInv, FinishSetEntrySize, scan.last_lba <= primary_header.last_usable_lba
  PROVE  /\ primary_entries' \in Table /\ backup_entries' = primary_entries'
         /\ Used' = Used \cup {scan.index}
         /\ \A j \in Used' : j = scan.index =>
              First(j)' = scan.first_lba /\ Last(j)' = scan.last_lba
         /\ \A j \in Used : First(j)' = First(j) /\ Last(j)' = Last(j)
<1>1. /\ pc = "scan" /\ scan.i = primary_header.partition_entry_count
      /\ primary_entries' = [primary_entries EXCEPT ![scan.index].first_lba = scan.first_lba,
                                                    ![scan.index].last_lba = scan.last_lba]
      /\ backup_entries' = [backup_entries EXCEPT ![scan.index].first_lba = scan.first_lba,
                                                  ![scan.index].last_lba = scan.last_lba]
  <2>1. primary_header.last_usable_lba \in Nat /\ scan.last_lba \in Nat
    BY LoopEnd, WordAssumption DEF FinishSetEntrySize, U64s
  <2> QED
    BY <2>1 DEF FinishSetEntrySize
<1>2. /\ primary_entries \in Table /\ backup_entries = primary_entries
      /\ scan.index \in Indices /\ scan.index \notin Used
      /\ scan.first_lba \in U64s \ {0} /\ scan.last_lba \in U64s \ {0}
  BY <1>1, LoopEnd
<1>3. /\ primary_entries' \in Table /\ backup_entries' = primary_entries'
      /\ primary_entries'[scan.index].first_lba = scan.first_lba
      /\ primary_entries'[scan.index].last_lba = scan.last_lba
      /\ \A j \in Indices \ {scan.index} : primary_entries'[j] = primary_entries[j]
  BY <1>1, <1>2 DEF Table, Entry
<1> QED
  BY <1>2, <1>3 DEF Used, First, Last, IsUsed, InvalidLba, Table

\* A refused request leaves the table alone; a granted one puts the partition
\* behind all the others, with no room lost before it.
LEMMA FinishSetEntrySizeIInv ==
  ASSUME IInv, FinishSetEntrySize
  PROVE  IInv'
<1>1. /\ pc = "scan" /\ scan.i = primary_header.partition_entry_count
      /\ pc' = "idle" /\ scan' = NoScan /\ UNCHANGED <<headers, disk_size>>
      /\ ret' \in {"ok", "ENOSPC"}
  BY DEF FinishSetEntrySize
<1>2. ScanCandidate' /\ ScanBehindPassed'
  BY <1>1 DEF ScanCandidate, ScanBehindPassed
<1>3. CASE UNCHANGED entries
  <2>1. Used' = Used /\ \A j \in Used : First(j)' = First(j) /\ Last(j)' = Last(j)
    BY <1>3 DEF entries, Used, First, Last
  <2>2. TypeOK'
    BY <1>1, <1>3 DEF IInv, TypeOK, headers, entries
  <2>3. Formatted'
    BY <1>1, <1>3 DEF IInv, Formatted, headers, entries
  <2>4. Ordered' /\ Packed'
    BY <1>1, <2>1, ExtentsKept DEF IInv
  <2> QED
    BY <1>2, <2>2, <2>3, <2>4 DEF IInv
<1>4. CASE scan.last_lba <= primary_header.last_usable_lba
  <2>1. /\ primary_entries' \in Table /\ backup_entries' = primary_entries'
        /\ Used' = Used \cup {scan.index}
        /\ \A j \in Used' : j = scan.index =>
             First(j)' = scan.first_lba /\ Last(j)' = scan.last_lba
        /\ \A j \in Used : First(j)' = First(j) /\ Last(j)' = Last(j)
    BY <1>4, GrantExtents
  <2>2. primary_entries' # NoEntries
    BY <2>1, EntryCountAssumption DEF Table, NoEntries, Indices
  <2>3. TypeOK'
    BY <1>1, <2>1 DEF IInv, TypeOK, headers
  <2>4. Formatted'
    <3>1. disk_size # 0
      BY <1>1, LoopEnd DEF IInv, Formatted
    <3> QED
      BY <1>1, <2>1, <2>2, <3>1 DEF IInv, Formatted, headers
  <2>5. Ordered'
    <3>1. \A i \in Used : /\ primary_header.first_usable_lba <= First(i)
                          /\ First(i) <= Last(i)
                          /\ Last(i) <= primary_header.last_usable_lba
      BY DEF IInv, Ordered
    <3>2. /\ primary_header.first_usable_lba <= scan.first_lba
          /\ scan.first_lba <= scan.last_lba
          /\ \A j \in Used : j \in Indices /\ j < scan.index /\ Last(j) < scan.first_lba
          /\ scan.index \in Indices /\ scan.index \notin Used
      BY <1>1, LoopEnd
    <3>3. \A i \in Used' : /\ primary_header.first_usable_lba <= First(i)'
                           /\ First(i)' <= Last(i)'
                           /\ Last(i)' <= primary_header.last_usable_lba
      BY <1>4, <2>1, <3>1, <3>2
    <3>4. ASSUME NEW i \in Used', NEW j \in Used', i < j PROVE Last(i)' < First(j)'
      <4>1. CASE i \in Used /\ j \in Used
        BY <2>1, <3>4, <4>1 DEF IInv, Ordered
      <4>2. CASE i \in Used /\ j = scan.index
        BY <2>1, <3>2, <4>2
      <4>3. CASE i = scan.index
        BY <2>1, <3>2, <3>4, <4>3, EntryCountAssumption DEF Indices
      <4> QED
        BY <2>1, <4>1, <4>2, <4>3
    <3> QED
      BY <1>1, <3>3, <3>4 DEF Ordered, headers
  <2>6. Packed'
    <3> SUFFICES ASSUME NEW i \in Used',
                        NEW s \in primary_header.first_usable_lba..(First(i)' - 1)
                 PROVE  \E j \in Used' : First(j)' <= s /\ s <= Last(j)'
      BY <1>1 DEF Packed, headers
    <3>1. CASE i \in Used
      <4>1. PICK j \in Used : First(j) <= s /\ s <= Last(j)
        BY <2>1, <3>1 DEF IInv, Packed
      <4> QED
        BY <2>1, <4>1
    <3>2. CASE i = scan.index
      <4>1. PICK j \in Used : First(j) <= s /\ s <= Last(j)
        BY <1>1, <2>1, <3>2, LoopEnd
      <4> QED
        BY <2>1, <4>1
    <3> QED
      BY <2>1, <3>1, <3>2
  <2> QED
    BY <1>2, <2>3, <2>4, <2>5, <2>6 DEF IInv
<1> QED
  BY <1>3, <1>4 DEF FinishSetEntrySize

\* Discarding the table leaves none.
LEMMA DoneIInv ==
  ASSUME IInv, Done
  PROVE  IInv'
<1>1. Used' = {}
  BY DEF Done, Used, NoEntries
<1>2. TypeOK'
  <2>1. 0 \in Lbas
    BY WordAssumption DEF Lbas, SectorSize
  <2> QED
    BY <2>1, InitTypes DEF Done, Idle, IInv, TypeOK, InitHeader, InvalidLba
<1>3. Formatted'
  BY DEF Done, Formatted
<1> QED
  BY <1>1, <1>2, <1>3
     DEF Done, Idle, IInv, Ordered, Packed, ScanCandidate, ScanBehindPassed

\* Every step keeps the invariant.
LEMMA NextIInv == IInv /\ [Next]_vars => IInv'
<1> SUFFICES ASSUME IInv, [Next]_vars PROVE IInv'
  OBVIOUS
<1>1. ASSUME NEW i \in CallIndices, NEW size \in Sizes,
             Ready, IsFresh(i), SetEntrySize(i, size)
      PROVE  IInv'
  BY <1>1, SetEntrySizeIInv
<1>2. ASSUME NEW size \in DiskSizes, Format(size) PROVE IInv'
  BY <1>2, FormatIInv
<1>3. ASSUME NEW i \in CallIndices, NEW t \in TypeStrings, SetEntryType(i, t) PROVE IInv'
  BY <1>3, SetEntryTypeRelabels, ReturnIInv
<1>4. ASSUME NEW i \in CallIndices, NEW n \in Names, SetEntryName(i, n) PROVE IInv'
  BY <1>4, SetEntryNameRelabels, ReturnIInv
<1>5. CASE PassEntry
  BY <1>5, PassEntryIInv
<1>6. CASE MoveBehindEntry
  BY <1>6, MoveBehindEntryIInv
<1>7. CASE FinishSetEntrySize
  BY <1>7, FinishSetEntrySizeIInv
<1>8. CASE Done
  BY <1>8, DoneIInv
<1>9. CASE UNCHANGED vars
  <2>1. Used' = Used /\ \A j \in Used : First(j)' = First(j) /\ Last(j)' = Last(j)
    BY <1>9 DEF vars, entries, Used, First, Last
  <2>2. TypeOK'
    BY <1>9 DEF IInv, TypeOK, vars, headers, entries
  <2>3. Formatted'
    BY <1>9 DEF IInv, Formatted, vars, headers, entries
  <2>4. Ordered' /\ Packed'
    BY <1>9, <2>1, ExtentsKept DEF IInv, vars
  <2>5. ScanCandidate' /\ ScanBehindPassed'
    BY <1>9, <2>1 DEF IInv, ScanCandidate, ScanBehindPassed, vars, headers
  <2> QED
    BY <2>2, <2>3, <2>4, <2>5 DEF IInv
<1> QED
  BY <1>1, <1>2, <1>3, <1>4, <1>5, <1>6, <1>7, <1>8, <1>9 DEF Next, OtherStep

(* -- Safety --------------------------------------------------------------- *)

\* The inductive invariant holds of the table as the program uses it.
THEOREM Invariance == Spec => []IInv
  BY InitIInv, NextIInv, PTL DEF Spec

\* Every variable keeps its type, and the headers hold sector numbers.
THEOREM TypeCorrect == Spec => []TypeOK
<1>1. IInv => TypeOK
  BY DEF IInv
<1> QED
  BY <1>1, Invariance, PTL

\* Partitions sized one behind the other never share a sector
\* (bootable_gpt_set_entry_size, as write_gpt_partitions calls it).
THEOREM NoSectorShared == Spec => []PartitionsDisjoint
<1>1. IInv => PartitionsDisjoint
  <2> SUFFICES ASSUME IInv PROVE PartitionsDisjoint
    OBVIOUS
  <2>1. Used \subseteq Indices
    BY EntryCountAssumption DEF IInv, TypeOK, Used, Table, NoEntries
  <2> QED
    BY <2>1, EntryCountAssumption DEF IInv, Ordered, PartitionsDisjoint, Indices
<1> QED
  BY <1>1, Invariance, PTL

\* The two copies of the table never overlap, and lie on the disk
\* (bootable_gpt_format, for a disk one sector above MinimumSize).
THEOREM TablesLieApart == Spec => []TablesApart
<1>1. IInv => TablesApart
  <2> SUFFICES ASSUME IInv, disk_size # 0 PROVE TablesApart
    BY DEF TablesApart
  <2>1. disk_size \in DiskSizes
    BY DEF IInv, TypeOK
  <2>2. /\ backup_header.partition_entries_lba = BackupEntriesLba(disk_size)
        /\ backup_header.current_lba = LastDiskLba(disk_size)
    BY DEF IInv, Formatted, FormattedHeader
  <2>3. disk_size \in Int
    BY <2>1, DiskSizesAssumption, WordAssumption
  <2> QED
    BY <2>1, <2>2, <2>3, FormatLayout DEF TablesApart, SectorSize
<1> QED
  BY <1>1, Invariance, PTL

\* No partition reaches into either copy of the table.
THEOREM TablesUntouched == Spec => []PartitionsClearOfTables
<1>1. IInv => PartitionsClearOfTables
  <2> SUFFICES ASSUME IInv, NEW i \in Used
               PROVE  /\ 1 + TableSectors < First(i)
                      /\ Last(i) < backup_header.partition_entries_lba
    BY DEF PartitionsClearOfTables
  <2>1. backup_entries # NoEntries
    BY NoneUsed DEF IInv, Formatted
  <2>2. /\ disk_size \in DiskSizes
        /\ primary_header.first_usable_lba = FirstUsableLba
        /\ primary_header.last_usable_lba = LastUsableLba(disk_size)
        /\ backup_header.partition_entries_lba = BackupEntriesLba(disk_size)
    BY <2>1, ReadyTable DEF IInv, FormattedHeader
  <2>3. First(i) \in Nat /\ Last(i) \in Nat
    BY <2>1, ReadyTable, WordAssumption
       DEF IInv, Used, First, Last, Table, Entry, U64s
  <2> QED
    BY <2>2, <2>3, FormatLayout DEF IInv, Ordered
<1> QED
  BY <1>1, Invariance, PTL

\* No room is lost between partitions.
THEOREM NoRoomLost == Spec => []Packed
<1>1. IInv => Packed
  BY DEF IInv
<1> QED
  BY <1>1, Invariance, PTL

\* Both copies of a table that can be exported describe the same disk.
THEOREM CopiesStayEqual == Spec => []CopiesAgree
<1>1. IInv => CopiesAgree
  BY ReadyTable DEF IInv, CopiesAgree, Ready, FormattedHeader
<1> QED
  BY <1>1, Invariance, PTL

(* -- The table implements the allocator ------------------------------------ *)

\* The initial table is an initial allocator.
LEMMA InitAllocator == Init => Abstract!Init
<1> SUFFICES ASSUME Init PROVE Abstract!Init
  OBVIOUS
<1>1. Used = {}
  BY NoneUsed DEF Init
<1> QED
  BY <1>1 DEF Init, Abstract!Init, Abstract!NoRequest, UsableSectors, Held, Asked

\* A step that changes neither the extents nor the request is no step of the
\* allocator.
LEMMA Unseen ==
  ASSUME Used' = Used, \A j \in Used : First(j)' = First(j) /\ Last(j)' = Last(j),
         UNCHANGED headers, backup_entries' = NoEntries <=> backup_entries = NoEntries,
         Asked' = Asked
  PROVE  UNCHANGED Abstract!vars
<1>1. UsableSectors' = UsableSectors
  BY DEF UsableSectors, headers
<1>2. Held' = Held
  BY DEF Held
<1> QED
  BY <1>1, <1>2 DEF Abstract!vars

\* Formatting lays the disk out, unless realloc fails.
LEMMA FormatAllocator ==
  ASSUME IInv, IInv', NEW size \in DiskSizes, Format(size)
  PROVE  Abstract!LayOut \/ UNCHANGED Abstract!vars
<1>1. Used = {} /\ backup_entries = NoEntries
  BY NoneUsed DEF Format, IInv, Formatted
<1>2. primary_entries' \in {NoEntries, EmptyTable}
  BY DEF Format, IInv, Formatted, entries
<1>3. Used' = {}
  BY <1>2 DEF Used, IsUsed, NoEntries, EmptyTable, InitEntry, InvalidLba
<1>4. Held = [i \in Indices |-> {}] /\ Held' = Held
  BY <1>1, <1>3 DEF Held
<1>5. Asked = Abstract!NoRequest /\ Asked' = Asked
  BY DEF Format, Idle, Asked, Abstract!NoRequest
<1>6. UsableSectors = {}
  BY <1>1 DEF UsableSectors
<1>7. UsableSectors' \in SUBSET Nat
  <2>1. primary_header'.first_usable_lba = FirstUsableLba
    BY DEF Format, FormattedHeader
  <2>2. FirstUsableLba \in Nat
    BY FormatLayout
  <2>3. primary_header'.last_usable_lba \in Int
    BY FormatLayout DEF Format, FormattedHeader
  <2> QED
    BY <2>1, <2>2, <2>3 DEF UsableSectors
<1> QED
  BY <1>4, <1>5, <1>6, <1>7 DEF Abstract!LayOut

\* Sizing an entry that lies behind the used ones asks for a run for it.
LEMMA SetEntrySizeAllocator ==
  ASSUME IInv, NEW i \in CallIndices, NEW size \in Sizes,
         Ready, IsFresh(i), SetEntrySize(i, size)
  PROVE  Abstract!Ask \/ UNCHANGED Abstract!vars
<1>1. CASE Return("EINVAL")
  <2>1. /\ Used' = Used /\ \A j \in Used : First(j)' = First(j) /\ Last(j)' = Last(j)
        /\ UNCHANGED headers /\ backup_entries' = backup_entries /\ Asked' = Asked
    BY <1>1 DEF Return, entries, Used, First, Last, Asked
  <2> QED
    BY <2>1, Unseen
<1>2. CASE /\ ~RejectIndex(i)
           /\ pc' = "scan"
           /\ scan'.index = i /\ scan'.size = size
           /\ UNCHANGED <<headers, entries>>
  <2>1. i \in Indices /\ primary_entries \in Table
    BY <1>2, AcceptedIndex, ReadyTable DEF IInv, Ready
  <2>2. i \notin Used
    BY <2>1, EntryCountAssumption DEF IsFresh, Used, Table, Indices
  <2>3. Held[i] = {}
    BY <2>1, <2>2 DEF Held
  <2>4. Asked = Abstract!NoRequest
    BY DEF Ready, Idle, Asked, Abstract!NoRequest
  <2>5. Asked' = [entry |-> i, bytes |-> size]
    BY <1>2 DEF Asked
  <2>6. size \in Nat
    BY SizesAssumption, WordAssumption
  <2>7. UsableSectors' = UsableSectors /\ Held' = Held
    BY <1>2 DEF UsableSectors, Held, Used, First, Last, headers, entries
  <2> QED
    BY <2>1, <2>3, <2>4, <2>5, <2>6, <2>7 DEF Abstract!Ask
<1> QED
  BY <1>1, <1>2 DEF SetEntrySize

\* What the pending request asks for, and how long the candidate is.
LEMMA PendingRequest ==
  ASSUME IInv, pc = "scan"
  PROVE  /\ Asked = [entry |-> scan.index, bytes |-> scan.size]
         /\ Asked # Abstract!NoRequest
         /\ scan.size \in Sizes
         /\ scan.last_lba = scan.first_lba + LbaCount(scan.size) - 1
<1>1. scan \in Scan
  BY DEF IInv, TypeOK
<1>2. scan.index \in Nat /\ scan.size \in Sizes
  BY <1>1, EntryCountAssumption DEF Scan, Indices
<1>3. Asked = [entry |-> scan.index, bytes |-> scan.size]
  BY DEF Asked
<1>4. Asked.entry # -1
  BY <1>2, <1>3
<1>5. Asked # Abstract!NoRequest
  BY <1>4 DEF Abstract!NoRequest
<1> QED
  BY <1>2, <1>3, <1>5 DEF IInv, ScanCandidate

\* A sector is free for the allocator when it is usable and in no partition.
LEMMA FreeSector ==
  ASSUME NEW s \in Int, Used \subseteq Indices
  PROVE  s \in Abstract!Free <=>
           s \in UsableSectors /\ \A j \in Used : s \notin First(j)..Last(j)
<1>1. \A j \in Used : Held[j] = First(j)..Last(j)
  BY DEF Held
<1>2. \A j \in Indices \ Used : Held[j] = {}
  BY DEF Held
<1>3. s \in UNION {Held[j] : j \in Indices} <=> \E j \in Used : s \in First(j)..Last(j)
  BY <1>1, <1>2
<1> QED
  BY <1>3 DEF Abstract!Free

\* At the end of the loop, a granted candidate is a free run that fits, and a
\* refused one means that no free run does.
LEMMA FinishSetEntrySizeAllocator ==
  ASSUME IInv, IInv', FinishSetEntrySize
  PROVE  Abstract!Grant \/ Abstract!Refuse
<1>1. /\ pc = "scan" /\ scan.i = primary_header.partition_entry_count
      /\ pc' = "idle" /\ UNCHANGED headers
  BY DEF FinishSetEntrySize
<1> DEFINE fu == primary_header.first_usable_lba
           lu == primary_header.last_usable_lba
           count == LbaCount(scan.size)
<1>2. /\ backup_entries # NoEntries /\ primary_entries \in Table
      /\ scan.index \in Indices /\ scan.index \notin Used
      /\ fu \in Nat /\ lu \in Nat /\ fu <= scan.first_lba
      /\ scan.first_lba \in Nat /\ scan.last_lba \in Nat
      /\ scan.first_lba <= scan.last_lba
      /\ \A j \in Used : j \in Indices /\ Last(j) < scan.first_lba
      /\ \A s \in fu..(scan.first_lba - 1) : \E j \in Used : First(j) <= s /\ s <= Last(j)
  BY <1>1, LoopEnd, WordAssumption DEF U64s
<1>3. /\ Asked = [entry |-> scan.index, bytes |-> scan.size]
      /\ Asked # Abstract!NoRequest /\ Asked' = Abstract!NoRequest
      /\ scan.last_lba = scan.first_lba + count - 1
  BY <1>1, PendingRequest DEF Asked, Abstract!NoRequest
<1>4. /\ count \in Nat \ {0} /\ scan.size <= count * SectorSize
      /\ count # 1 => (count - 1) * SectorSize < scan.size
      /\ scan.size \in Nat
  <2>1. scan.size \in Sizes
    BY <1>1, PendingRequest
  <2> QED
    BY <2>1, RunLength
<1>5. UsableSectors = fu..lu /\ Used \subseteq Indices
  BY <1>2 DEF UsableSectors
<1>6. \A j \in Used : First(j) \in Nat /\ Last(j) \in Nat
  BY <1>2, WordAssumption DEF Used, First, Last, Table, Entry, U64s
<1>7. CASE scan.last_lba <= lu
  <2>1. /\ backup_entries' # NoEntries /\ UsableSectors' = UsableSectors
        /\ Used' = Used \cup {scan.index}
        /\ \A j \in Used' : j = scan.index =>
             First(j)' = scan.first_lba /\ Last(j)' = scan.last_lba
        /\ \A j \in Used : First(j)' = First(j) /\ Last(j)' = Last(j)
    <3>1. backup_entries' # NoEntries
      BY <1>7, GrantExtents, EntryCountAssumption DEF Table, NoEntries, Indices
    <3> QED
      BY <1>1, <1>2, <1>7, <3>1, GrantExtents DEF UsableSectors, headers
  <2>2. scan.first_lba..scan.last_lba \subseteq Abstract!Free
    <3> SUFFICES ASSUME NEW s \in scan.first_lba..scan.last_lba PROVE s \in Abstract!Free
      OBVIOUS
    <3>1. s \in Int /\ s \in UsableSectors
      BY <1>2, <1>5, <1>7
    <3>2. \A j \in Used : s \notin First(j)..Last(j)
      BY <1>2, <1>6
    <3> QED
      BY <1>5, <3>1, <3>2, FreeSector
  <2>3. Abstract!Fits(scan.first_lba, scan.last_lba, scan.size)
    BY <1>2, <1>3, <1>4 DEF Abstract!Fits, SectorSize
  <2>4. scan.first_lba \in UsableSectors /\ scan.last_lba \in UsableSectors
    BY <1>2, <1>5, <1>7
  <2>5. Held' = [Held EXCEPT ![scan.index] = scan.first_lba..scan.last_lba]
    <3>1. \A j \in Indices : Held'[j] = IF j = scan.index THEN scan.first_lba..scan.last_lba
                                        ELSE Held[j]
      BY <1>2, <2>1 DEF Held
    <3> QED
      BY <1>2, <3>1 DEF Held
  <2>6. Abstract!FreeRun(scan.first_lba, scan.last_lba, Asked.bytes)
    BY <1>3, <2>2, <2>3 DEF Abstract!FreeRun
  <2> QED
    BY <1>3, <2>1, <2>4, <2>5, <2>6 DEF Abstract!Grant
<1>8. CASE ~(scan.last_lba <= lu)
  <2>1. UNCHANGED entries
    BY <1>8 DEF FinishSetEntrySize
  <2>2. UsableSectors' = UsableSectors /\ Held' = Held
    BY <1>1, <2>1 DEF UsableSectors, Held, Used, First, Last, headers, entries
  <2>3. ASSUME NEW first \in UsableSectors, NEW last \in UsableSectors,
               Abstract!FreeRun(first, last, Asked.bytes)
        PROVE  FALSE
    <3>1. first \in Int /\ fu <= first /\ last \in Int /\ last <= lu
      BY <1>2, <1>5, <2>3
    <3>2. first <= last /\ scan.size <= (last - first + 1) * SectorSize /\ first \in Abstract!Free
      BY <1>3, <2>3, <3>1 DEF Abstract!FreeRun, Abstract!Fits
    <3>3. scan.first_lba <= first
      <4> SUFFICES ASSUME first < scan.first_lba PROVE FALSE
        BY <1>2, <3>1
      <4>1. PICK j \in Used : First(j) <= first /\ first <= Last(j)
        BY <1>2, <3>1
      <4>2. first \in First(j)..Last(j)
        BY <1>6, <3>1, <4>1
      <4> QED
        BY <1>5, <3>1, <3>2, <4>2, FreeSector
    <3>4. count <= last - first + 1
      BY <1>4, <3>1, <3>2 DEF SectorSize
    <3> QED
      BY <1>2, <1>3, <1>4, <1>8, <3>1, <3>3, <3>4
  <2> QED
    BY <1>3, <2>2, <2>3 DEF Abstract!Refuse
<1> QED
  BY <1>7, <1>8

\* Discarding the table discards the allocator's.
LEMMA DoneAllocator ==
  ASSUME IInv, IInv', Done
  PROVE  Abstract!Discard
<1>1. Used' = {}
  BY DEF Done, Used, NoEntries
<1>2. Held' = [i \in Indices |-> {}] /\ UsableSectors' = {}
  BY <1>1 DEF Done, Held, UsableSectors
<1>3. Asked = Abstract!NoRequest /\ Asked' = Abstract!NoRequest
  BY DEF Done, Idle, Asked, Abstract!NoRequest
<1> QED
  BY <1>2, <1>3 DEF Abstract!Discard

\* An early return shows nothing to the allocator.
LEMMA ReturnAllocator ==
  ASSUME NEW code, Return(code)
  PROVE  UNCHANGED Abstract!vars
<1>1. /\ Used' = Used /\ \A j \in Used : First(j)' = First(j) /\ Last(j)' = Last(j)
      /\ UNCHANGED headers /\ backup_entries' = backup_entries /\ Asked' = Asked
  BY DEF Return, entries, Used, First, Last, Asked
<1> QED
  BY <1>1, Unseen

\* Every step of the table is a step of the allocator, or shows it nothing.
LEMMA StepAllocator ==
  IInv /\ IInv' /\ [Next]_vars => [Abstract!Next]_Abstract!vars
<1> SUFFICES ASSUME IInv, IInv', [Next]_vars PROVE Abstract!Next \/ UNCHANGED Abstract!vars
  OBVIOUS
<1>1. ASSUME NEW i \in CallIndices, NEW size \in Sizes,
             Ready, IsFresh(i), SetEntrySize(i, size)
      PROVE  Abstract!Next \/ UNCHANGED Abstract!vars
  BY <1>1, SetEntrySizeAllocator DEF Abstract!Next
<1>2. ASSUME NEW size \in DiskSizes, Format(size)
      PROVE  Abstract!Next \/ UNCHANGED Abstract!vars
  BY <1>2, FormatAllocator DEF Abstract!Next
<1>3. ASSUME NEW i \in CallIndices, NEW t \in TypeStrings, SetEntryType(i, t)
      PROVE  UNCHANGED Abstract!vars
  BY <1>3, SetEntryTypeRelabels, ReturnAllocator, Unseen DEF Asked
<1>4. ASSUME NEW i \in CallIndices, NEW n \in Names, SetEntryName(i, n)
      PROVE  UNCHANGED Abstract!vars
  BY <1>4, SetEntryNameRelabels, ReturnAllocator, Unseen DEF Asked
<1>5. CASE PassEntry \/ MoveBehindEntry
  <2>1. UNCHANGED <<headers, entries, pc>>
    BY <1>5 DEF PassEntry, MoveBehindEntry
  <2>2. scan \in Scan
    BY <1>5 DEF PassEntry, MoveBehindEntry, Scanning, IInv, TypeOK
  <2>3. scan'.index = scan.index /\ scan'.size = scan.size
    BY <1>5, <2>2 DEF PassEntry, MoveBehindEntry, Scan
  <2>4. /\ Used' = Used /\ \A j \in Used : First(j)' = First(j) /\ Last(j)' = Last(j)
        /\ UNCHANGED headers /\ backup_entries' = backup_entries /\ Asked' = Asked
    BY <2>1, <2>3 DEF entries, Used, First, Last, Asked
  <2> QED
    BY <2>4, Unseen
<1>6. CASE FinishSetEntrySize
  BY <1>6, FinishSetEntrySizeAllocator DEF Abstract!Next
<1>7. CASE Done
  BY <1>7, DoneAllocator DEF Abstract!Next
<1>8. CASE UNCHANGED vars
  <2>1. /\ Used' = Used /\ \A j \in Used : First(j)' = First(j) /\ Last(j)' = Last(j)
        /\ UNCHANGED headers /\ backup_entries' = backup_entries /\ Asked' = Asked
    BY <1>8 DEF vars, entries, Used, First, Last, Asked
  <2> QED
    BY <2>1, Unseen
<1> QED
  BY <1>1, <1>2, <1>3, <1>4, <1>5, <1>6, <1>7, <1>8 DEF Next, OtherStep

\* The partition table, as the program uses it, is an allocator of runs of
\* sectors: what set_entry_size grants is free and the smallest run that fits,
\* and it answers ENOSPC only when no free run does.
THEOREM GptImplementsAllocator == Spec => ImplementsAllocator
  BY InitAllocator, StepAllocator, Invariance, PTL
     DEF Spec, ImplementsAllocator, Abstract!Spec
=============================================================================
