----------------------------- MODULE ImageProofs -----------------------------
(****************************************************************************)
(* What a write to one sector of an image leaves as it is, and what the     *)
(* steps of bootable_gpt_export do to the table that an import would read.  *)
(****************************************************************************)
EXTENDS UtilInvariant, GptProofs, FiniteSetTheorems

(* -- Arrays of entries ------------------------------------------------------ *)

\* Where on the image an entry of an array is.
LEMMA EntryPlace ==
  /\ ArraySectors \in Nat \ {0} /\ ArraySectors = TableSectors
  /\ \A i \in Indices : /\ i \div EntriesPerSector \in 0..(ArraySectors - 1)
                        /\ i % EntriesPerSector \in Slots
  /\ \A i, j \in Indices :
       i # j => \/ i \div EntriesPerSector # j \div EntriesPerSector
                \/ i % EntriesPerSector # j % EntriesPerSector
<1>1. EntryCount \in Nat \ {0} /\ EntryCount % 4 = 0
  BY EntryCountAssumption
<1>2. EntriesPerSector = 4 /\ Slots = 0..3
  BY DEF EntriesPerSector, Slots, SectorSize, EntrySize
<1>3. ArraySectors = (EntryCount * 128) \div 512 /\ ArraySectors = TableSectors
  BY DEF ArraySectors, TableSectors, TableBytes, SectorSize, EntrySize
<1>4. EntryCount = 4 * (EntryCount \div 4) /\ EntryCount \div 4 \in Nat \ {0}
  BY <1>1
<1>5. ArraySectors = EntryCount \div 4
  BY <1>1, <1>3, <1>4
<1>6. ASSUME NEW i \in Indices
      PROVE  i \div 4 \in 0..((EntryCount \div 4) - 1) /\ i % 4 \in 0..3
  BY <1>1, <1>4 DEF Indices
<1>7. ASSUME NEW i \in Indices, NEW j \in Indices, i # j
      PROVE  i \div 4 # j \div 4 \/ i % 4 # j % 4
  <2>1. i \in Nat /\ j \in Nat
    BY <1>1 DEF Indices
  <2>2. i = 4 * (i \div 4) + (i % 4) /\ j = 4 * (j \div 4) + (j % 4)
    BY <2>1
  <2> QED
    BY <1>7, <2>1, <2>2
<1> QED
  BY <1>2, <1>3, <1>4, <1>5, <1>6, <1>7

\* A write to the image that puts something into one sector.
Rewrites(s) == /\ DOMAIN disk' = DOMAIN disk \cup {s}
               /\ \A x \in DOMAIN disk \ {s} : disk'[x] = disk[x]

\* What other sectors hold of an array is as it was.
LEMMA RewriteElsewhere ==
  ASSUME NEW s, Rewrites(s), NEW x, x # s
  PROVE  EntriesAt(x)' = EntriesAt(x)
BY DEF Rewrites, EntriesAt, Holds

\* Two arrays are the same when their sectors are.
LEMMA SameArray ==
  ASSUME NEW lba \in Int,
         \A n \in 0..(ArraySectors - 1) : EntriesAt(lba + n)' = EntriesAt(lba + n)
  PROVE  ArrayAt(lba)' = ArrayAt(lba)
<1>1. \A i \in Indices : EntriesAt(lba + i \div EntriesPerSector)'
                         = EntriesAt(lba + i \div EntriesPerSector)
  BY EntryPlace
<1> QED
  BY <1>1 DEF ArrayAt

\* A write beside an array leaves it as it is.
LEMMA RewriteBeside ==
  ASSUME NEW s, Rewrites(s), NEW lba \in Int, s \notin lba..(lba + ArraySectors - 1)
  PROVE  ArrayAt(lba)' = ArrayAt(lba)
<1>1. ASSUME NEW n \in 0..(ArraySectors - 1)
      PROVE  EntriesAt(lba + n)' = EntriesAt(lba + n)
  <2>1. lba + n \in lba..(lba + ArraySectors - 1)
    BY EntryPlace
  <2> QED
    BY <2>1, RewriteElsewhere
<1> QED
  BY <1>1, SameArray

\* So does one that puts a header in the place of another one.
LEMMA RewriteOther ==
  ASSUME NEW s, Rewrites(s), NEW x, disk'[s].kind = "header", Holds(s, "header")
  PROVE  EntriesAt(x)' = EntriesAt(x)
BY RewriteElsewhere DEF Rewrites, EntriesAt, Holds

\* Whatever is in a sector, it is read as entries.
LEMMA EntriesTyped ==
  ASSUME SectorsTyped, NEW x
  PROVE  EntriesAt(x) \in [Slots -> Entry]
<1>1. InitEntry \in Entry /\ RawEntry \in Entry
  BY InitTypes, RawAssumption
<1> QED
  BY <1>1 DEF EntriesAt, Holds, SectorsTyped

\* And an array as a table.
LEMMA ArrayTyped ==
  ASSUME SectorsTyped, NEW lba
  PROVE  ArrayAt(lba) \in Table
<1>1. \A i \in Indices : EntriesAt(lba + i \div EntriesPerSector)[i % EntriesPerSector] \in Entry
  BY EntryPlace, EntriesTyped
<1> QED
  BY <1>1 DEF ArrayAt, Table

(* -- A sound table ------------------------------------------------------------ *)

\* The last sector of the image that a table describes.
EndOf(t) == t.primary.backup_lba

\* Where a sound table lies: both copies in front of and behind the sectors
\* that its partitions may have.
LEMMA SoundTable ==
  ASSUME NEW t, TableSound(t)
  PROVE  /\ EndOf(t) \in Nat /\ 2 * ArraySectors + 2 <= EndOf(t)
         /\ t.primary.current_lba = 1 /\ t.primary.partition_entries_lba = 2
         /\ t.primary.first_usable_lba = 2 + ArraySectors
         /\ t.primary.last_usable_lba = EndOf(t) - ArraySectors - 1
         /\ t.primary.partition_entry_count = EntryCount
         /\ t.backup.current_lba = EndOf(t) /\ t.backup.backup_lba = 1
         /\ t.backup.partition_entries_lba = EndOf(t) - ArraySectors
         /\ t.backup.partition_entry_count = EntryCount
         /\ t.primary_entries \in Table /\ t.backup_entries = t.primary_entries
<1>1. PICK size \in DiskSizes :
        /\ t.primary = FormattedHeader(1, LastDiskLba(size), 2, size)
        /\ t.backup = FormattedHeader(LastDiskLba(size), 1, BackupEntriesLba(size), size)
  BY DEF TableSound
<1>2. /\ LastDiskLba(size) \in Nat /\ FirstUsableLba = 2 + TableSectors
      /\ LastUsableLba(size) = LastDiskLba(size) - TableSectors - 1
      /\ BackupEntriesLba(size) = LastDiskLba(size) - TableSectors
      /\ 2 * TableSectors + 2 <= LastDiskLba(size)
  BY FormatLayout
<1>3. EndOf(t) = LastDiskLba(size)
  BY <1>1 DEF EndOf, FormattedHeader
<1>4. t.primary_entries \in Table /\ t.backup_entries = t.primary_entries
  BY DEF TableSound
<1> QED
  BY <1>1, <1>2, <1>3, <1>4, EntryPlace DEF FormattedHeader

\* Where the partitions of a sound table are.
LEMMA SoundExtents ==
  ASSUME NEW t, TableSound(t), NEW i \in Indices
  PROVE  /\ t.primary_entries[i].first_lba \in Nat /\ t.primary_entries[i].last_lba \in Nat
         /\ IsUsed(t.primary_entries[i]) =>
              /\ 2 + ArraySectors <= t.primary_entries[i].first_lba
              /\ t.primary_entries[i].first_lba <= t.primary_entries[i].last_lba
              /\ t.primary_entries[i].last_lba <= EndOf(t) - ArraySectors - 1
         /\ ~IsUsed(t.primary_entries[i]) => t.primary_entries[i].first_lba = 0
<1>1. t.primary_entries[i] \in Entry
  BY SoundTable DEF Table
<1>2. t.primary_entries[i].first_lba \in Nat /\ t.primary_entries[i].last_lba \in Nat
  BY <1>1, WordAssumption DEF Entry, U64s
<1>3. ExtentsSound(t.primary_entries, 2 + ArraySectors, EndOf(t) - ArraySectors - 1)
  BY SoundTable DEF TableSound
<1> QED
  BY <1>2, <1>3 DEF ExtentsSound, InvalidLba

\* The first three entries are there.
LEMMA ThreeEntries == {0, 1, 2} \subseteq Indices /\ FsEntry = 2
<1>1. EntryCount \in Nat /\ EntryCount >= 3
  BY EntryCountAssumption
<1> QED
  BY <1>1 DEF Indices, FsEntry

(* -- The table that an import would read ------------------------------------- *)

\* It is what is in the sectors that it says it is in.
LEMMA Imported ==
  ASSUME IsWhole, TableSound(OnImage)
  PROVE  /\ EndOf(OnImage) = ImportedPrimary.backup_lba
         /\ ImportedPrimary = OnImage.primary /\ ImportedBackup = OnImage.backup
         /\ ImportedPrimaryEntries = OnImage.primary_entries
         /\ ArrayAt(ImportedBackup.partition_entries_lba) = OnImage.backup_entries
         /\ ImportedPrimary = disk[1].header /\ ImportedBackup = disk[EndOf(OnImage)].header
         /\ Holds(1, "header") /\ Holds(EndOf(OnImage), "header")
         /\ ImportedPrimaryEntries = ArrayAt(2)
         /\ ArrayAt(EndOf(OnImage) - ArraySectors) = ArrayAt(2)
         /\ Headers = {1, EndOf(OnImage)}
<1>1. /\ OnImage.primary = ImportedPrimary /\ OnImage.backup = ImportedBackup
      /\ OnImage.primary_entries = ImportedPrimaryEntries
      /\ OnImage.backup_entries = ArrayAt(ImportedBackup.partition_entries_lba)
  BY DEF OnImage
<1>2. EndOf(OnImage) = ImportedPrimary.backup_lba
  BY <1>1 DEF EndOf
<1>3. /\ OnImage.backup.partition_entries_lba = EndOf(OnImage) - ArraySectors
      /\ OnImage.backup_entries = OnImage.primary_entries
  BY SoundTable
<1>4. Holds(1, "header") /\ Holds(EndOf(OnImage), "header")
  BY <1>2 DEF IsWhole
<1>5. ImportedPrimary = disk[1].header /\ ImportedBackup = disk[EndOf(OnImage)].header
  BY <1>2, <1>4 DEF ImportedPrimary, ImportedBackup, HeaderAt
<1> QED
  BY <1>1, <1>2, <1>3, <1>4, <1>5 DEF ImportedPrimaryEntries, Headers

\* It stays when its four parts stay.
LEMMA ImportedStays ==
  ASSUME IsWhole, TableSound(OnImage), DOMAIN disk \subseteq DOMAIN disk',
         NEW l, l = EndOf(OnImage),
         disk'[1].kind = "header", disk'[1].header = disk[1].header,
         disk'[l].kind = "header", disk'[l].header = disk[l].header,
         ArrayAt(2)' = ArrayAt(2),
         ArrayAt(l - ArraySectors)' = ArrayAt(l - ArraySectors)
  PROVE  IsWhole' /\ OnImage' = OnImage /\ Headers' = Headers
<1> DEFINE b == l - ArraySectors
<1>1. /\ l = ImportedPrimary.backup_lba /\ ImportedPrimary = disk[1].header
      /\ ImportedBackup = disk[l].header /\ Holds(1, "header") /\ Holds(l, "header")
      /\ ImportedBackup.partition_entries_lba = b
  BY Imported, SoundTable
<1> HIDE DEF b
<1>2. Holds(1, "header")' /\ Holds(l, "header")'
  BY <1>1 DEF Holds
<1>3. ImportedPrimary' = ImportedPrimary /\ ImportedBackup' = ImportedBackup
  <2>1. ImportedPrimary' = ImportedPrimary
    BY <1>1, <1>2 DEF ImportedPrimary, HeaderAt
  <2>2. HeaderAt(l)' = disk'[l].header
    BY <1>2 DEF HeaderAt
  <2>3. ImportedBackup' = HeaderAt(l)'
    BY <1>1, <2>1 DEF ImportedBackup, HeaderAt, Holds
  <2> QED
    BY <1>1, <2>1, <2>2, <2>3
<1>4. IsWhole'
  <2>1. Holds(ImportedPrimary.backup_lba, "header")'
    BY <1>1, <1>2, <1>3 DEF Holds
  <2> QED
    BY <1>2, <1>3, <2>1 DEF IsWhole
<1>5. ImportedPrimaryEntries' = ImportedPrimaryEntries
  BY DEF ImportedPrimaryEntries
<1>6. ArrayAt(ImportedBackup.partition_entries_lba)' = ArrayAt(ImportedBackup.partition_entries_lba)
  <2>1. /\ ArrayAt(ImportedBackup.partition_entries_lba) = ArrayAt(b)
        /\ ArrayAt(ImportedBackup.partition_entries_lba)' = ArrayAt(b)'
    BY <1>1, <1>3 DEF ArrayAt
  <2> QED
    BY <2>1 DEF b
<1> QED
  BY <1>3, <1>4, <1>5, <1>6 DEF OnImage, Headers

(* -- The table that bootable_gpt_export writes --------------------------------- *)

\* Between format and the end of init the table in memory is sound, and it
\* ends where the image does.
LEMMA MadeTable ==
  ASSUME IInv, backup_entries # NoEntries, Granted, disk_size = config.disk_size
  PROVE  /\ TableSound(InMemory)
         /\ \A x \in 0..EndOf(InMemory) : x \in ImageSectors(config)
<1>1. /\ disk_size \in DiskSizes
      /\ primary_header = FormattedHeader(1, LastDiskLba(disk_size), 2, disk_size)
      /\ backup_header = FormattedHeader(LastDiskLba(disk_size), 1,
                                         BackupEntriesLba(disk_size), disk_size)
      /\ primary_entries \in Table /\ backup_entries = primary_entries
  BY ReadyTable DEF IInv
<1>2. /\ InMemory.primary = primary_header /\ InMemory.backup = backup_header
      /\ InMemory.primary_entries = primary_entries /\ InMemory.backup_entries = backup_entries
  BY DEF InMemory
<1>3. DOMAIN primary_entries = Indices
  BY <1>1 DEF Table
<1>4. /\ \A i \in Indices \ Used : primary_entries[i].first_lba = InvalidLba
      /\ 2 \in Used => HasRoom(primary_entries[2], 1 + Cardinality(Nodes))
  BY <1>3 DEF Granted
<1>5. \A i \in Indices : i \in Used <=> IsUsed(primary_entries[i])
  BY <1>3 DEF Used
<1>6. ExtentsSound(primary_entries, primary_header.first_usable_lba,
                   primary_header.last_usable_lba)
  <2>1. \A i \in Indices : IF IsUsed(primary_entries[i])
                        THEN /\ primary_header.first_usable_lba <= primary_entries[i].first_lba
                             /\ primary_entries[i].first_lba <= primary_entries[i].last_lba
                             /\ primary_entries[i].last_lba <= primary_header.last_usable_lba
                        ELSE primary_entries[i].first_lba = InvalidLba
    BY <1>4, <1>5 DEF IInv, Ordered, First, Last
  <2>2. \A i, j \in Indices :
          IsUsed(primary_entries[i]) /\ IsUsed(primary_entries[j]) /\ i < j =>
            primary_entries[i].last_lba < primary_entries[j].first_lba
    BY <1>5 DEF IInv, Ordered, First, Last
  <2>3. ASSUME IsUsed(primary_entries[2])
        PROVE  Cardinality(Nodes) <= primary_entries[2].last_lba - primary_entries[2].first_lba
    <3>1. Cardinality(Nodes) \in Nat
      BY NodesAssumption, FS_CardinalityType
    <3>2. primary_entries[2].first_lba \in Nat /\ primary_entries[2].last_lba \in Nat
      BY <1>1, ThreeEntries, WordAssumption DEF Table, Entry, U64s
    <3>3. 1 + Cardinality(Nodes) <= primary_entries[2].last_lba - primary_entries[2].first_lba + 1
      BY <1>4, <1>5, <2>3, ThreeEntries DEF HasRoom
    <3> QED
      BY <3>1, <3>2, <3>3
  <2> QED
    BY <2>1, <2>2, <2>3, ThreeEntries DEF ExtentsSound
<1>7. TableSound(InMemory)
  BY <1>1, <1>2, <1>6 DEF TableSound
<1>8. EndOf(InMemory) = LastDiskLba(disk_size)
  BY <1>1, <1>2 DEF EndOf, FormattedHeader
<1>9. /\ LastDiskLba(disk_size) \in Nat /\ (LastDiskLba(disk_size) + 1) * 512 <= disk_size
      /\ disk_size \in Nat
  BY <1>1, FormatLayout, DiskSizesAssumption, WordAssumption DEF SectorSize
<1>10. LastDiskLba(disk_size) <= disk_size \div 512 - 1
  BY <1>9
<1> QED
  BY <1>7, <1>8, <1>9, <1>10 DEF ImageSectors, SectorSize

\* What an export needs: the table in memory is sound and ends in sector l,
\* which the image has.
Exporting(l) ==
  /\ TableSound(InMemory) /\ l = EndOf(InMemory)
  /\ \A x \in 0..l : x \in DOMAIN disk
  /\ SectorsTyped /\ io \in [step : {"none"} \cup ExportSteps, i : Indices]

\* Where the parts of the table go.
LEMMA ExportPlaces ==
  ASSUME NEW l, Exporting(l)
  PROVE  /\ l \in Nat /\ 2 * ArraySectors + 2 <= l /\ ArraySectors \in Nat \ {0}
         /\ primary_header.backup_lba = l /\ primary_header.partition_entries_lba = 2
         /\ primary_header.partition_entry_count = EntryCount
         /\ backup_header.partition_entries_lba = l - ArraySectors
         /\ backup_header.partition_entry_count = EntryCount
         /\ primary_entries \in Table /\ backup_entries = primary_entries
         /\ 1 \in DOMAIN disk /\ l \in DOMAIN disk /\ io.i \in Indices
         /\ \A i \in Indices : /\ 2 + i \div EntriesPerSector \in DOMAIN disk
                               /\ l - ArraySectors + i \div EntriesPerSector \in DOMAIN disk
<1>1. TableSound(InMemory) /\ l = EndOf(InMemory)
  BY DEF Exporting
<1>2. /\ InMemory.primary = primary_header /\ InMemory.backup = backup_header
      /\ InMemory.primary_entries = primary_entries /\ InMemory.backup_entries = backup_entries
  BY DEF InMemory
<1>3. l \in Nat /\ 2 * ArraySectors + 2 <= l /\ ArraySectors \in Nat \ {0}
  BY <1>1, SoundTable, EntryPlace
<1>4. \A x \in 0..l : x \in DOMAIN disk
  BY DEF Exporting
<1>5. \A i \in Indices : i \div EntriesPerSector \in 0..(ArraySectors - 1)
  BY EntryPlace
<1>6. /\ 1 \in DOMAIN disk /\ l \in DOMAIN disk
      /\ \A n \in 0..(ArraySectors - 1) : 2 + n \in DOMAIN disk /\ l - ArraySectors + n \in DOMAIN disk
  BY <1>3, <1>4
<1> QED
  BY <1>1, <1>2, <1>3, <1>5, <1>6, SoundTable DEF EndOf, Exporting

\* Both arrays have entries, so that neither loop is passed over.
LEMMA BothLoops ==
  ASSUME NEW l, Exporting(l)
  PROVE  ToPrimary = "primary entries" /\ ToBackup = "backup entries"
<1>1. /\ primary_header.partition_entry_count = EntryCount
      /\ backup_header.partition_entry_count = EntryCount /\ EntryCount # 0
  BY ExportPlaces, EntryCountAssumption
<1> QED
  BY <1>1 DEF ToPrimary, ToBackup, ToEntries

\* And the backup header is written at the end of the table.
LEMMA BehindEntries ==
  ASSUME NEW l, Exporting(l)
  PROVE  BehindBackupEntries = l
<1>1. /\ l \in Nat /\ backup_header.partition_entries_lba = l - ArraySectors
      /\ backup_header.partition_entry_count = EntryCount /\ ArraySectors \in Nat
  BY ExportPlaces
<1>2. ArraySectors = (EntryCount * EntrySize) \div SectorSize
  BY DEF ArraySectors, TableBytes
<1>3. BehindBackupEntries = l - ArraySectors + ArraySectors
  BY <1>1, <1>2 DEF BehindBackupEntries
<1> QED
  BY <1>1, <1>3

\* A write of one entry of an array: nothing else in its sector changes.
LEMMA EntryPut ==
  ASSUME NEW lba \in Nat, NEW e \in Entry, NEW i \in Indices, i = io.i, NEW s,
         s = lba + i \div EntriesPerSector, s \in DOMAIN disk,
         SectorsTyped, PutEntry(lba, e)
  PROVE  /\ UNCHANGED vars /\ Rewrites(s) /\ DOMAIN disk' = DOMAIN disk
         /\ disk'[s].kind = "entries" /\ SectorsTyped'
         /\ EntriesAt(s) \in [Slots -> Entry]
         /\ EntriesAt(s)' = [EntriesAt(s) EXCEPT ![i % EntriesPerSector] = e]
<1> DEFINE new == [EntriesAt(s) EXCEPT ![i % EntriesPerSector] = e]
<1>1. disk' = [disk EXCEPT ![s] = EntriesSector(new)] /\ UNCHANGED vars
  BY DEF PutEntry, Put
<1>2. EntriesAt(s) \in [Slots -> Entry]
  BY EntriesTyped
<1>3. new \in [Slots -> Entry]
  BY <1>2
<1> HIDE DEF new
<1>4. /\ EntriesSector(new).kind = "entries" /\ EntriesSector(new).entries = new
  BY DEF EntriesSector
<1>5. DOMAIN disk' = DOMAIN disk /\ \A x \in DOMAIN disk : x # s => disk'[x] = disk[x]
  BY <1>1
<1>6. disk'[s] = EntriesSector(new)
  BY <1>1
<1>7. SectorsTyped'
  BY <1>3, <1>4, <1>5, <1>6 DEF SectorsTyped
<1>8. EntriesAt(s)' = new
  BY <1>4, <1>5, <1>6 DEF EntriesAt, Holds
<1>9. EntriesAt(s)' = [EntriesAt(s) EXCEPT ![i % EntriesPerSector] = e]
  BY <1>8 DEF new
<1>10. Rewrites(s)
  BY <1>5 DEF Rewrites
<1>11. disk'[s].kind = "entries"
  BY <1>4, <1>6
<1> QED
  BY <1>1, <1>2, <1>5, <1>7, <1>9, <1>10, <1>11

(* -- An export over the table that it exports ----------------------------------- *)

\* The image holds the table in memory already.
Rewriting(l) == Exporting(l) /\ IsWhole /\ OnImage = InMemory

\* What the image holds is then the table in memory, whose backup is at l.
LEMMA RewritingTable ==
  ASSUME NEW l, Rewriting(l)
  PROVE  /\ TableSound(OnImage) /\ l = EndOf(OnImage)
         /\ ImportedPrimary.backup_lba = l
         /\ disk[1].kind = "header" /\ disk[1].header = primary_header
         /\ disk[l].kind = "header" /\ disk[l].header = backup_header
         /\ ArrayAt(2) = primary_entries /\ ArrayAt(l - ArraySectors) = primary_entries
         /\ Headers = {1, l} /\ BackupLba = l /\ BackupSector = disk[l]
<1>1. TableSound(OnImage) /\ l = EndOf(OnImage) /\ IsWhole /\ OnImage = InMemory
  BY DEF Rewriting, Exporting
<1>2. /\ OnImage.primary = primary_header /\ OnImage.backup = backup_header
      /\ OnImage.primary_entries = primary_entries /\ OnImage.backup_entries = backup_entries
  BY <1>1 DEF InMemory
<1>3. backup_entries = primary_entries /\ primary_header.backup_lba = l
  BY ExportPlaces DEF Rewriting
<1>4. BackupLba = l /\ Holds(l, "header")
  BY <1>1, <1>2, <1>3, Imported DEF BackupLba
<1>5. BackupSector = disk[l]
  BY <1>4 DEF BackupSector, Holds
<1> QED
  BY <1>1, <1>2, <1>3, <1>4, <1>5, Imported DEF Holds

\* A write to the sector s of the table that leaves it as it was.
KeepsTable(l, s) ==
  /\ UNCHANGED vars /\ Rewrites(s) /\ DOMAIN disk' = DOMAIN disk /\ SectorsTyped'
  /\ \A x \in Int : EntriesAt(x)' = EntriesAt(x)
  /\ disk'[1].kind = "header" /\ disk'[1].header = disk[1].header
  /\ disk'[l].kind = "header" /\ disk'[l].header = disk[l].header

\* The sectors of a table that ends in l.
TablePlaces(l) == {1, l} \cup 2..(1 + ArraySectors) \cup (l - ArraySectors)..(l - 1)

\* Between format and the end of init, these are all the sectors outside the
\* partitions that the image has a use for.
LEMMA MadeSectors ==
  ASSUME IInv, backup_entries # NoEntries, Granted, disk_size = config.disk_size, NEW l,
         l = EndOf(InMemory)
  PROVE  /\ TablePlaces(l) \subseteq TableSectorsOf(config)
         /\ \A s \in (2 + ArraySectors)..(l - ArraySectors - 1) : s \notin TableSectorsOf(config)
<1>1. /\ disk_size \in DiskSizes
      /\ primary_header = FormattedHeader(1, LastDiskLba(disk_size), 2, disk_size)
  BY ReadyTable DEF IInv
<1>2. l = LastDiskLba(disk_size)
  BY <1>1 DEF EndOf, InMemory, FormattedHeader
<1>3. /\ l \in Nat /\ ArraySectors \in Nat \ {0} /\ 2 * ArraySectors + 2 <= l
      /\ FirstUsableLba = 2 + ArraySectors
      /\ LastUsableLba(config.disk_size) = l - ArraySectors - 1
  BY <1>1, <1>2, FormatLayout, EntryPlace
<1>4. \A x \in 0..l : x \in ImageSectors(config)
  BY MadeTable
<1> QED
  BY <1>3, <1>4 DEF TableSectorsOf, TablePlaces

\* A header sector is written with another one of the same header.
LEMMA HeaderPut ==
  ASSUME NEW l, Rewriting(l), NEW s \in {1, l}, NEW sector, Put(s, sector),
         sector.kind = "header", sector.header = disk[s].header, IsHeaderSector(sector)
  PROVE  KeepsTable(l, s) /\ disk'[s] = sector
<1>1. /\ disk[1].kind = "header" /\ disk[l].kind = "header"
      /\ 1 \in DOMAIN disk /\ l \in DOMAIN disk
  BY RewritingTable, ExportPlaces DEF Rewriting
<1>2. disk' = [disk EXCEPT ![s] = sector] /\ UNCHANGED vars
  BY DEF Put
<1>3. /\ DOMAIN disk' = DOMAIN disk /\ disk'[s] = sector
      /\ \A x \in DOMAIN disk : x # s => disk'[x] = disk[x]
  BY <1>1, <1>2
<1>4. Rewrites(s)
  BY <1>1, <1>3 DEF Rewrites
<1>5. SectorsTyped'
  BY <1>3 DEF SectorsTyped, Rewriting, Exporting
<1>6. \A x \in Int : EntriesAt(x)' = EntriesAt(x)
  <2>1. disk'[s].kind = "header" /\ Holds(s, "header")
    BY <1>1, <1>3 DEF Holds
  <2> QED
    BY <1>4, <2>1, RewriteOther
<1> QED
  BY <1>1, <1>2, <1>3, <1>4, <1>5, <1>6 DEF KeepsTable

\* An entry is written with what it was.
LEMMA SameEntryPut ==
  ASSUME NEW l, Rewriting(l), NEW lba \in {2, l - ArraySectors},
         NEW e, e = primary_entries[io.i], PutEntry(lba, e)
  PROVE  \E s \in TablePlaces(l) : KeepsTable(l, s) /\ disk'[1] = disk[1] /\ disk'[l] = disk[l]
<1> DEFINE i == io.i
<1>1. /\ l \in Nat /\ 2 * ArraySectors + 2 <= l /\ ArraySectors \in Nat \ {0}
      /\ i \in Indices /\ primary_entries \in Table
      /\ 1 \in DOMAIN disk /\ l \in DOMAIN disk
      /\ lba \in Nat
      /\ lba + i \div EntriesPerSector \in DOMAIN disk
  BY ExportPlaces DEF Rewriting
<1>2. PICK j \in Indices : j = i
  BY <1>1
<1> HIDE DEF i
<1>3. PICK s : s = lba + j \div EntriesPerSector
  OBVIOUS
<1>4. j \div EntriesPerSector \in 0..(ArraySectors - 1) /\ j % EntriesPerSector \in Slots
  BY EntryPlace
<1>5. s \in TablePlaces(l) /\ s # 1 /\ s # l /\ s \in Int
  BY <1>1, <1>3, <1>4 DEF TablePlaces
<1>6. e \in Entry /\ SectorsTyped /\ e = primary_entries[j]
  BY <1>1, <1>2 DEF Table, Rewriting, Exporting, i
<1>7. /\ UNCHANGED vars /\ Rewrites(s) /\ DOMAIN disk' = DOMAIN disk
      /\ disk'[s].kind = "entries" /\ SectorsTyped'
      /\ EntriesAt(s) \in [Slots -> Entry]
      /\ EntriesAt(s)' = [EntriesAt(s) EXCEPT ![j % EntriesPerSector] = e]
  BY <1>1, <1>2, <1>3, <1>6, EntryPut DEF i
<1>8. EntriesAt(s)[j % EntriesPerSector] = e
  <2>1. ArrayAt(lba) = primary_entries
    BY RewritingTable
  <2>2. ArrayAt(lba)[j] = EntriesAt(s)[j % EntriesPerSector]
    BY <1>3 DEF ArrayAt
  <2> QED
    BY <1>6, <2>1, <2>2
<1>9. EntriesAt(s)' = EntriesAt(s)
  BY <1>7, <1>8
<1>10. \A x \in Int : EntriesAt(x)' = EntriesAt(x)
  <2> TAKE x \in Int
  <2>1. CASE x = s
    <3>1. EntriesAt(x) = EntriesAt(s) /\ EntriesAt(x)' = EntriesAt(s)'
      BY <2>1
    <3> QED
      BY <1>9, <3>1
  <2>2. CASE x # s
    BY <1>7, <2>2, RewriteElsewhere
  <2> QED
    BY <2>1, <2>2
<1>11. disk'[1] = disk[1] /\ disk'[l] = disk[l]
  BY <1>1, <1>5, <1>7 DEF Rewrites
<1> QED
  BY <1>5, <1>7, <1>10, <1>11, RewritingTable DEF KeepsTable

\* What an import would read stays what it was.
LEMMA TableKept ==
  ASSUME NEW l, Rewriting(l), NEW s \in TablePlaces(l), KeepsTable(l, s)
  PROVE  /\ IsWhole' /\ OnImage' = OnImage /\ InMemory' = InMemory /\ Headers' = Headers
         /\ \A x \in Int : ArrayAt(x)' = ArrayAt(x)
<1>1. TableSound(OnImage) /\ l = EndOf(OnImage) /\ IsWhole /\ OnImage = InMemory
  BY RewritingTable DEF Rewriting
<1>2. l \in Nat /\ 2 * ArraySectors + 2 <= l /\ ArraySectors \in Nat
  BY ExportPlaces DEF Rewriting
<1>3. \A x \in Int : ArrayAt(x)' = ArrayAt(x)
  BY <1>2, SameArray DEF KeepsTable
<1>4. IsWhole' /\ OnImage' = OnImage /\ Headers' = Headers
  <2>1. ArrayAt(2)' = ArrayAt(2) /\ ArrayAt(l - ArraySectors)' = ArrayAt(l - ArraySectors)
    BY <1>2, <1>3
  <2> QED
    BY <1>1, <2>1, ImportedStays DEF KeepsTable
<1>5. InMemory' = InMemory
  BY DEF KeepsTable, vars, headers, entries, InMemory
<1> QED
  BY <1>3, <1>4, <1>5

\* A write to the table leaves the partitions alone, and sector 0.
LEMMA PartitionKept ==
  ASSUME NEW l, Exporting(l), NEW s \in TablePlaces(l), Rewrites(s)
  PROVE  /\ disk'[0] = disk[0]
         /\ \A i \in Indices : \A n \in Nat :
              HasRoom(primary_entries[i], n) =>
                \A m \in 0..(n - 1) : disk'[primary_entries[i].first_lba + m]
                                      = disk[primary_entries[i].first_lba + m]
<1>1. /\ l \in Nat /\ 2 * ArraySectors + 2 <= l /\ ArraySectors \in Nat \ {0}
      /\ \A x \in 0..l : x \in DOMAIN disk
  BY ExportPlaces DEF Exporting
<1>2. \A x \in 0..l : x \notin TablePlaces(l) => disk'[x] = disk[x]
  BY <1>1 DEF Rewrites
<1>3. 0 \in 0..l /\ 0 \notin TablePlaces(l)
  BY <1>1 DEF TablePlaces
<1>4. ASSUME NEW i \in Indices, NEW n \in Nat, HasRoom(primary_entries[i], n),
             NEW m \in 0..(n - 1)
      PROVE  /\ primary_entries[i].first_lba + m \in 0..l
             /\ primary_entries[i].first_lba + m \notin TablePlaces(l)
  <2>1. TableSound(InMemory) /\ l = EndOf(InMemory) /\ InMemory.primary_entries = primary_entries
    BY DEF Exporting, InMemory
  <2>2. IsUsed(primary_entries[i])
        /\ n <= primary_entries[i].last_lba - primary_entries[i].first_lba + 1
    BY <1>4 DEF HasRoom
  <2>3. /\ primary_entries[i].first_lba \in Nat /\ primary_entries[i].last_lba \in Nat
        /\ 2 + ArraySectors <= primary_entries[i].first_lba
        /\ primary_entries[i].last_lba <= l - ArraySectors - 1
    BY <2>1, <2>2, SoundExtents
  <2> QED
    BY <1>1, <2>2, <2>3 DEF TablePlaces
<1> QED
  BY <1>2, <1>3, <1>4

(* -- The checksums --------------------------------------------------------------- *)

\* A sector with no sums has no stale ones.
LEMMA BareHeader ==
  ASSUME NEW h
  PROVE  /\ IsHeaderSector(HeaderSector(h)) /\ NoStaleSum(HeaderSector(h))
         /\ HeaderSector(h).kind = "header" /\ HeaderSector(h).header = h
         /\ HeaderSector(h).entries_sum = NoSum /\ HeaderSector(h).sum = NoSum
BY DEF HeaderSector, IsHeaderSector, NoStaleSum

EntriesSummed(x, v) == [x EXCEPT !.entries_sum = v]
HeaderSummed(x) == [x EXCEPT !.sum = HeaderSum(x)]

\* The sum of the entries put into a header sector that had no sum of its own.
LEMMA SummedEntries ==
  ASSUME NEW x, IsHeaderSector(x), x.kind = "header", x.sum = NoSum, NEW v, v # NoSum
  PROVE  LET y == EntriesSummed(x, v)
         IN /\ IsHeaderSector(y) /\ y.kind = "header" /\ y.header = x.header
            /\ y.entries_sum = v /\ y.sum = NoSum
<1>1. x = [kind |-> "header", header |-> x.header, entries_sum |-> x.entries_sum, sum |-> NoSum]
  BY DEF IsHeaderSector
<1>2. PICK h, u : x = [kind |-> "header", header |-> h, entries_sum |-> u, sum |-> NoSum]
  BY <1>1
<1>3. [x EXCEPT !.entries_sum = v]
      = [kind |-> "header", header |-> h, entries_sum |-> v, sum |-> NoSum]
  BY <1>2
<1> QED
  BY <1>2, <1>3 DEF IsHeaderSector, EntriesSummed

\* The sum of a header sector put into it.
LEMMA SummedHeader ==
  ASSUME NEW x, IsHeaderSector(x), x.kind = "header", x.sum = NoSum
  PROVE  LET y == HeaderSummed(x)
         IN /\ IsHeaderSector(y) /\ y.kind = "header" /\ y.header = x.header
            /\ y.entries_sum = x.entries_sum /\ HeaderSumRight(y)
<1>1. x = [kind |-> "header", header |-> x.header, entries_sum |-> x.entries_sum, sum |-> NoSum]
  BY DEF IsHeaderSector
<1>2. PICK h, u : x = [kind |-> "header", header |-> h, entries_sum |-> u, sum |-> NoSum]
  BY <1>1
<1> DEFINE v == HeaderSum(x)
<1>3. [x EXCEPT !.sum = v] = [kind |-> "header", header |-> h, entries_sum |-> u, sum |-> v]
  BY <1>2
<1>4. [[kind |-> "header", header |-> h, entries_sum |-> u, sum |-> v] EXCEPT !.sum = NoSum] = x
  BY <1>2
<1>5. HeaderSumRight([kind |-> "header", header |-> h, entries_sum |-> u, sum |-> v])
  <2> HIDE DEF v
  <2>1. [kind |-> "header", header |-> h, entries_sum |-> u, sum |-> v].sum = v
    OBVIOUS
  <2> QED
    BY <1>4, <2>1 DEF HeaderSumRight, v
<1> HIDE DEF v
<1>6. IsHeaderSector([kind |-> "header", header |-> h, entries_sum |-> u, sum |-> v])
  BY DEF IsHeaderSector
<1>7. LET y == [x EXCEPT !.sum = v]
      IN /\ IsHeaderSector(y) /\ y.kind = "header" /\ y.header = x.header
         /\ y.entries_sum = x.entries_sum /\ HeaderSumRight(y)
  BY <1>2, <1>3, <1>5, <1>6
<1> QED
  BY <1>7 DEF v, HeaderSummed

\* What an export must find to leave no stale sum.
Resuming(l) == /\ Rewriting(l) /\ SumsSoFar
               /\ NoStaleSum(disk[1]) /\ NoStaleSum(disk[l])

\* What a step of an export over its own table does.
Resumed(l) ==
  /\ \E s \in TablePlaces(l) : KeepsTable(l, s)
  /\ NoStaleSum(disk[1])' /\ NoStaleSum(disk[l])'
  /\ io' \in [step : {"none"} \cup ExportSteps, i : Indices]
  /\ io'.step # "none" => SumsSoFar'
  /\ io'.step = "none" => io' = NoIo /\ SumsComplete'

\* A sum stays right, or absent, while the sector and the arrays stay.
LEMMA SumKept ==
  ASSUME NEW x, x.header.partition_entries_lba \in Int,
         \A lba \in Int : ArrayAt(lba)' = ArrayAt(lba)
  PROVE  /\ EntriesSumRight(x)' <=> EntriesSumRight(x)
         /\ NoStaleSum(x)' <=> NoStaleSum(x)
<1> DEFINE p == x.header.partition_entries_lba
<1>1. ArrayAt(p)' = ArrayAt(p)
  OBVIOUS
<1>2. EntriesSumRight(x)' <=> EntriesSumRight(x)
  BY <1>1 DEF EntriesSumRight
<1> QED
  BY <1>2 DEF NoStaleSum

\* Where the arrays of both headers are.
LEMMA HeaderArrays ==
  ASSUME NEW l, Rewriting(l)
  PROVE  /\ disk[1].header.partition_entries_lba = 2
         /\ disk[l].header.partition_entries_lba = l - ArraySectors
         /\ l \in Nat /\ l # 1 /\ l - ArraySectors \in Int
         /\ 1 \in TablePlaces(l) /\ l \in TablePlaces(l)
         /\ IsHeaderSector(disk[1]) /\ IsHeaderSector(disk[l])
<1>1. /\ primary_header.partition_entries_lba = 2
      /\ backup_header.partition_entries_lba = l - ArraySectors
      /\ l \in Nat /\ 2 * ArraySectors + 2 <= l /\ ArraySectors \in Nat \ {0}
      /\ 1 \in DOMAIN disk /\ l \in DOMAIN disk
  BY ExportPlaces DEF Rewriting
<1>2. SectorsTyped
  BY DEF Rewriting, Exporting
<1> QED
  BY <1>1, <1>2, RewritingTable DEF TablePlaces, SectorsTyped

\* The step for the primary header.
LEMMA ResumePrimaryHeader ==
  ASSUME NEW l, Resuming(l), WritePrimaryHeader
  PROVE  Resumed(l)
<1> DEFINE sector == HeaderSector(primary_header)
<1>1. Rewriting(l) /\ disk[1].header = primary_header
  BY RewritingTable DEF Resuming
<1>2. Put(1, sector) /\ io' = [step |-> "primary entries", i |-> 0]
  BY <1>1, BothLoops DEF WritePrimaryHeader, GoTo, Rewriting
<1>3. KeepsTable(l, 1) /\ disk'[1] = sector
  BY <1>1, <1>2, BareHeader, HeaderPut
<1>4. l # 1 /\ 1 \in TablePlaces(l) /\ l \in DOMAIN disk
  BY <1>1, HeaderArrays, ExportPlaces DEF Rewriting
<1>5. disk'[l] = disk[l]
  BY <1>3, <1>4 DEF KeepsTable, Rewrites
<1>6. \A x \in Int : ArrayAt(x)' = ArrayAt(x)
  BY <1>1, <1>3, <1>4, TableKept
<1>7. NoStaleSum(disk[l])'
  BY <1>1, <1>5, <1>6, SumKept, HeaderArrays DEF Resuming
<1>8. NoStaleSum(disk[1])'
  BY <1>3, BareHeader DEF NoStaleSum
<1>9. primary_header' = primary_header
  BY <1>3 DEF KeepsTable, vars, headers
<1>10. SumsSoFar'
  BY <1>2, <1>3, <1>9 DEF SumsSoFar, At
<1> QED
  BY <1>2, <1>3, <1>4, <1>7, <1>8, <1>10, InitTypes DEF Resumed, ExportSteps

\* The steps for the entries.
LEMMA ResumeEntries ==
  ASSUME NEW l, Resuming(l), WritePrimaryEntry \/ WriteBackupEntry
  PROVE  Resumed(l)
<1>1. Rewriting(l) /\ NoStaleSum(disk[1]) /\ NoStaleSum(disk[l])
  BY DEF Resuming
<1>2. /\ primary_header.partition_entry_count = EntryCount
      /\ backup_header.partition_entry_count = EntryCount
      /\ backup_header.partition_entries_lba = l - ArraySectors
      /\ backup_entries = primary_entries /\ io.i \in Indices
  BY <1>1, ExportPlaces DEF Rewriting
<1>3. PICK e : e = primary_entries[io.i]
  OBVIOUS
<1>4. \E s \in TablePlaces(l) : KeepsTable(l, s) /\ disk'[1] = disk[1] /\ disk'[l] = disk[l]
  <2>1. CASE WritePrimaryEntry
    <3>1. PutEntry(2, e)
      BY <1>3, <2>1 DEF WritePrimaryEntry
    <3> QED
      BY <1>1, <1>3, <3>1, SameEntryPut
  <2>2. CASE WriteBackupEntry
    <3>1. PutEntry(l - ArraySectors, e)
      BY <1>2, <1>3, <2>2 DEF WriteBackupEntry
    <3> QED
      BY <1>1, <1>3, <3>1, SameEntryPut
  <2> QED
    BY <2>1, <2>2
<1>5. PICK s \in TablePlaces(l) : KeepsTable(l, s) /\ disk'[1] = disk[1] /\ disk'[l] = disk[l]
  BY <1>4
<1>6. \A x \in Int : ArrayAt(x)' = ArrayAt(x)
  BY <1>1, <1>5, TableKept
<1>7. NoStaleSum(disk[1])' /\ NoStaleSum(disk[l])'
  BY <1>1, <1>5, <1>6, SumKept, HeaderArrays
<1>8. /\ io.step \in {"primary entries", "backup entries"}
      /\ io \in [step : {"none"} \cup ExportSteps, i : Indices]
      /\ NextEntryOr(EntryCount, IF io.step = "primary entries" THEN "backup entries"
                                 ELSE "backup header")
  <2>1. ToBackup = "backup entries" /\ io \in [step : {"none"} \cup ExportSteps, i : Indices]
    BY <1>1, BothLoops DEF Rewriting, Exporting
  <2> QED
    BY <1>2, <2>1 DEF WritePrimaryEntry, WriteBackupEntry, At
<1>9. /\ io' \in [step : {"none"} \cup ExportSteps, i : Indices]
      /\ io'.step \in {"primary entries", "backup entries", "backup header"}
  <2>1. EntryCount \in Nat \ {0} /\ io.i \in 0..(EntryCount - 1)
    BY <1>2, EntryCountAssumption DEF Indices
  <2>2. CASE io.i + 1 < EntryCount
    <3>1. io' = [io EXCEPT !.i = @ + 1]
      BY <1>8, <2>2 DEF NextEntryOr
    <3>2. io.i + 1 \in Indices
      BY <2>1, <2>2 DEF Indices
    <3>3. io' = [step |-> io.step, i |-> io.i + 1]
      BY <1>8, <3>1
    <3> QED
      BY <1>8, <3>2, <3>3 DEF ExportSteps
  <2>3. CASE ~(io.i + 1 < EntryCount)
    <3>1. io' = [step |-> IF io.step = "primary entries" THEN "backup entries"
                          ELSE "backup header", i |-> 0]
      BY <1>8, <2>3 DEF NextEntryOr, GoTo
    <3> QED
      BY <1>8, <3>1, InitTypes DEF ExportSteps
  <2> QED
    BY <2>2, <2>3
<1>10. disk[1] = HeaderSector(primary_header)
  BY <1>8 DEF Resuming, SumsSoFar
<1>11. primary_header' = primary_header
  BY <1>5 DEF KeepsTable, vars, headers
<1>12. SumsSoFar'
  BY <1>5, <1>9, <1>10, <1>11 DEF SumsSoFar, At
<1> QED
  BY <1>5, <1>7, <1>9, <1>12 DEF Resumed, ExportSteps

\* The step for the backup header.
LEMMA ResumeBackupHeader ==
  ASSUME NEW l, Resuming(l), WriteBackupHeader
  PROVE  Resumed(l)
<1> DEFINE sector == HeaderSector(backup_header)
<1>1. Rewriting(l) /\ disk[l].header = backup_header
  BY RewritingTable DEF Resuming
<1>2. Put(l, sector) /\ io' = [step |-> "primary entries sum", i |-> 0]
  <2>1. BehindBackupEntries = l
    BY <1>1, BehindEntries DEF Rewriting
  <2> QED
    BY <2>1 DEF WriteBackupHeader, GoTo
<1>3. KeepsTable(l, l) /\ disk'[l] = sector
  BY <1>1, <1>2, BareHeader, HeaderPut
<1>4. l # 1 /\ l \in TablePlaces(l) /\ 1 \in DOMAIN disk
  BY <1>1, HeaderArrays, ExportPlaces DEF Rewriting
<1>5. disk'[1] = disk[1]
  BY <1>3, <1>4 DEF KeepsTable, Rewrites
<1>6. \A x \in Int : ArrayAt(x)' = ArrayAt(x)
  BY <1>1, <1>3, <1>4, TableKept
<1>7. NoStaleSum(disk[1])'
  BY <1>1, <1>5, <1>6, SumKept, HeaderArrays DEF Resuming
<1>8. NoStaleSum(disk[l])'
  BY <1>3, BareHeader DEF NoStaleSum
<1>9. headers' = headers /\ BackupLba = l /\ BackupLba' = l
  BY <1>1, <1>3, <1>5, RewritingTable DEF KeepsTable, vars, BackupLba
<1>10. disk[1] = HeaderSector(primary_header)
  BY DEF WriteBackupHeader, At, Resuming, SumsSoFar
<1>11. SumsSoFar'
  BY <1>2, <1>3, <1>5, <1>9, <1>10 DEF SumsSoFar, At, headers
<1> QED
  BY <1>2, <1>3, <1>4, <1>7, <1>8, <1>11, InitTypes DEF Resumed, ExportSteps

\* The step for the sum of the primary entries.
LEMMA ResumePrimaryEntriesSum ==
  ASSUME NEW l, Resuming(l), WritePrimaryEntriesSum
  PROVE  Resumed(l)
<1> DEFINE v == {ArrayAt(2)}
           sector == EntriesSummed(disk[1], v)
<1>1. Rewriting(l) /\ disk[1].kind = "header"
  BY RewritingTable DEF Resuming
<1>2. Put(1, sector) /\ io' = [step |-> "backup entries sum", i |-> 0]
  BY DEF WritePrimaryEntriesSum, GoTo, EntriesSummed
<1>3. disk[1].sum = NoSum /\ disk[BackupLba] = HeaderSector(backup_header)
  BY BareHeader DEF WritePrimaryEntriesSum, At, Resuming, SumsSoFar
<1>4. /\ IsHeaderSector(sector) /\ sector.kind = "header" /\ sector.header = disk[1].header
      /\ sector.entries_sum = v /\ sector.sum = NoSum
  <2>1. v # NoSum
    BY DEF NoSum
  <2> HIDE DEF v
  <2> QED
    BY <1>1, <1>3, <2>1, HeaderArrays, SummedEntries
<1> HIDE DEF sector
<1>5. KeepsTable(l, 1) /\ disk'[1] = sector
  BY <1>1, <1>2, <1>4, HeaderPut
<1>6. l # 1 /\ 1 \in TablePlaces(l) /\ l \in DOMAIN disk
  BY <1>1, HeaderArrays, ExportPlaces DEF Rewriting
<1>7. disk'[l] = disk[l]
  BY <1>5, <1>6 DEF KeepsTable, Rewrites
<1>8. \A x \in Int : ArrayAt(x)' = ArrayAt(x)
  BY <1>1, <1>5, <1>6, TableKept
<1>9. NoStaleSum(disk[l])'
  BY <1>1, <1>7, <1>8, SumKept, HeaderArrays DEF Resuming
<1>10. EntriesSumRight(disk[1])' /\ NoStaleSum(disk[1])'
  <2>1. disk'[1].header.partition_entries_lba = 2 /\ ArrayAt(2)' = ArrayAt(2)
    BY <1>1, <1>4, <1>5, <1>8, HeaderArrays
  <2>2. EntriesSumRight(disk[1])'
    BY <1>4, <1>5, <2>1 DEF EntriesSumRight
  <2> QED
    BY <1>4, <1>5, <2>2 DEF NoStaleSum
<1>11. BackupLba = l /\ BackupLba' = l /\ headers' = headers
  BY <1>1, <1>4, <1>5, RewritingTable DEF KeepsTable, vars, BackupLba
<1>12. SumsSoFar'
  BY <1>2, <1>3, <1>4, <1>5, <1>7, <1>10, <1>11 DEF SumsSoFar, At, headers
<1> QED
  BY <1>2, <1>5, <1>6, <1>9, <1>10, <1>12, InitTypes DEF Resumed, ExportSteps

\* The step for the sum of the backup entries.
LEMMA ResumeBackupEntriesSum ==
  ASSUME NEW l, Resuming(l), WriteBackupEntriesSum
  PROVE  Resumed(l)
<1> DEFINE v == {ArrayAt(l - ArraySectors)}
           sector == EntriesSummed(disk[l], v)
<1>1. Rewriting(l) /\ disk[l].kind = "header" /\ BackupLba = l /\ BackupSector = disk[l]
  BY RewritingTable DEF Resuming
<1>2. Put(l, sector) /\ io' = [step |-> "primary sum", i |-> 0]
  BY <1>1 DEF WriteBackupEntriesSum, GoTo, EntriesSummed
<1>3. disk[l].sum = NoSum /\ disk[1].sum = NoSum /\ EntriesSumRight(disk[1])
  <2>1. io.step = "backup entries sum" /\ SumsSoFar
    BY DEF WriteBackupEntriesSum, At, Resuming
  <2>2. disk[BackupLba] = HeaderSector(backup_header)
    BY <2>1 DEF SumsSoFar
  <2>3. disk[1].sum = NoSum
    BY <2>1 DEF SumsSoFar
  <2>4. EntriesSumRight(disk[1])
    BY <2>1 DEF SumsSoFar
  <2> QED
    BY <1>1, <2>2, <2>3, <2>4, BareHeader
<1>4. /\ IsHeaderSector(sector) /\ sector.kind = "header" /\ sector.header = disk[l].header
      /\ sector.entries_sum = v /\ sector.sum = NoSum
  <2>1. v # NoSum
    BY DEF NoSum
  <2> HIDE DEF v
  <2> QED
    BY <1>1, <1>3, <2>1, HeaderArrays, SummedEntries
<1> HIDE DEF sector
<1>5. KeepsTable(l, l) /\ disk'[l] = sector
  BY <1>1, <1>2, <1>4, HeaderPut
<1>6. l # 1 /\ l \in TablePlaces(l) /\ 1 \in DOMAIN disk
  BY <1>1, HeaderArrays, ExportPlaces DEF Rewriting
<1>7. disk'[1] = disk[1]
  BY <1>5, <1>6 DEF KeepsTable, Rewrites
<1>8. \A x \in Int : ArrayAt(x)' = ArrayAt(x)
  BY <1>1, <1>5, <1>6, TableKept
<1>9. NoStaleSum(disk[1])' /\ EntriesSumRight(disk[1])'
  BY <1>1, <1>3, <1>7, <1>8, SumKept, HeaderArrays DEF Resuming
<1>10. EntriesSumRight(disk[l])' /\ NoStaleSum(disk[l])'
  <2>1. /\ disk'[l].header.partition_entries_lba = l - ArraySectors
        /\ ArrayAt(l - ArraySectors)' = ArrayAt(l - ArraySectors)
    BY <1>1, <1>4, <1>5, <1>8, HeaderArrays
  <2>2. EntriesSumRight(disk[l])'
    BY <1>4, <1>5, <2>1 DEF EntriesSumRight
  <2> QED
    BY <1>4, <1>5, <2>2 DEF NoStaleSum
<1>11. BackupLba' = l
  BY <1>1, <1>7 DEF BackupLba
<1>12. SumsSoFar'
  BY <1>2, <1>3, <1>4, <1>5, <1>7, <1>9, <1>10, <1>11 DEF SumsSoFar, At
<1> QED
  BY <1>2, <1>5, <1>6, <1>9, <1>10, <1>12, InitTypes DEF Resumed, ExportSteps

\* The step for the sum of the primary header.
LEMMA ResumePrimarySum ==
  ASSUME NEW l, Resuming(l), WritePrimarySum
  PROVE  Resumed(l)
<1> DEFINE sector == HeaderSummed(disk[1])
<1>1. Rewriting(l) /\ disk[1].kind = "header" /\ BackupLba = l
  BY RewritingTable DEF Resuming
<1>2. Put(1, sector) /\ io' = [step |-> "backup sum", i |-> 0]
  BY DEF WritePrimarySum, GoTo, HeaderSummed
<1>3. /\ disk[1].sum = NoSum /\ disk[l].sum = NoSum
      /\ EntriesSumRight(disk[1]) /\ EntriesSumRight(disk[l])
  BY <1>1 DEF WritePrimarySum, At, Resuming, SumsSoFar
<1>4. /\ IsHeaderSector(sector) /\ sector.kind = "header" /\ sector.header = disk[1].header
      /\ sector.entries_sum = disk[1].entries_sum /\ HeaderSumRight(sector)
  BY <1>1, <1>3, HeaderArrays, SummedHeader
<1> HIDE DEF sector
<1>5. KeepsTable(l, 1) /\ disk'[1] = sector
  BY <1>1, <1>2, <1>4, HeaderPut
<1>6. l # 1 /\ 1 \in TablePlaces(l) /\ l \in DOMAIN disk
  BY <1>1, HeaderArrays, ExportPlaces DEF Rewriting
<1>7. disk'[l] = disk[l]
  BY <1>5, <1>6 DEF KeepsTable, Rewrites
<1>8. \A x \in Int : ArrayAt(x)' = ArrayAt(x)
  BY <1>1, <1>5, <1>6, TableKept
<1>9. NoStaleSum(disk[l])' /\ EntriesSumRight(disk[l])'
  BY <1>1, <1>3, <1>7, <1>8, SumKept, HeaderArrays DEF Resuming
<1>10. EntriesSumRight(disk[1])' /\ HeaderSumRight(disk[1])' /\ NoStaleSum(disk[1])'
  <2>1. /\ disk[1].header.partition_entries_lba = 2
        /\ disk'[1].header.partition_entries_lba = 2 /\ ArrayAt(2)' = ArrayAt(2)
    BY <1>1, <1>4, <1>5, <1>8, HeaderArrays
  <2>2. EntriesSumRight(disk[1])'
    BY <1>3, <1>4, <1>5, <2>1 DEF EntriesSumRight
  <2>3. HeaderSumRight(disk[1])'
    BY <1>4, <1>5 DEF HeaderSumRight
  <2> QED
    BY <2>2, <2>3 DEF NoStaleSum
<1>11. BackupLba' = l
  BY <1>1, <1>4, <1>5, RewritingTable DEF BackupLba
<1>12. SumsSoFar'
  BY <1>2, <1>3, <1>7, <1>9, <1>10, <1>11 DEF SumsSoFar, At
<1> QED
  BY <1>2, <1>5, <1>6, <1>9, <1>10, <1>12, InitTypes DEF Resumed, ExportSteps

\* The step for the sum of the backup header, the last one.
LEMMA ResumeBackupSum ==
  ASSUME NEW l, Resuming(l), WriteBackupSum
  PROVE  Resumed(l)
<1> DEFINE sector == HeaderSummed(disk[l])
<1>1. Rewriting(l) /\ disk[l].kind = "header" /\ BackupLba = l /\ BackupSector = disk[l]
  BY RewritingTable DEF Resuming
<1>2. Put(l, sector) /\ io' = NoIo
  BY <1>1 DEF WriteBackupSum, GoTo, HeaderSummed
<1>3. /\ disk[l].sum = NoSum /\ HeaderSumRight(disk[1])
      /\ EntriesSumRight(disk[1]) /\ EntriesSumRight(disk[l])
  BY <1>1 DEF WriteBackupSum, At, Resuming, SumsSoFar
<1>4. /\ IsHeaderSector(sector) /\ sector.kind = "header" /\ sector.header = disk[l].header
      /\ sector.entries_sum = disk[l].entries_sum /\ HeaderSumRight(sector)
  BY <1>1, <1>3, HeaderArrays, SummedHeader
<1> HIDE DEF sector
<1>5. KeepsTable(l, l) /\ disk'[l] = sector
  BY <1>1, <1>2, <1>4, HeaderPut
<1>6. l # 1 /\ l \in TablePlaces(l) /\ 1 \in DOMAIN disk
  BY <1>1, HeaderArrays, ExportPlaces DEF Rewriting
<1>7. disk'[1] = disk[1]
  BY <1>5, <1>6 DEF KeepsTable, Rewrites
<1>8. (\A x \in Int : ArrayAt(x)' = ArrayAt(x)) /\ Headers' = {1, l}
  BY <1>1, <1>5, <1>6, TableKept, RewritingTable
<1>9. NoStaleSum(disk[1])' /\ EntriesSumRight(disk[1])' /\ HeaderSumRight(disk[1])'
  <2>1. HeaderSumRight(disk[1])'
    BY <1>3, <1>7 DEF HeaderSumRight
  <2> QED
    BY <1>1, <1>3, <1>7, <1>8, <2>1, SumKept, HeaderArrays DEF Resuming
<1>10. EntriesSumRight(disk[l])' /\ HeaderSumRight(disk[l])' /\ NoStaleSum(disk[l])'
  <2>1. /\ disk[l].header.partition_entries_lba = l - ArraySectors
        /\ disk'[l].header.partition_entries_lba = l - ArraySectors
        /\ ArrayAt(l - ArraySectors)' = ArrayAt(l - ArraySectors)
    BY <1>1, <1>4, <1>5, <1>8, HeaderArrays
  <2>2. EntriesSumRight(disk[l])'
    BY <1>3, <1>4, <1>5, <2>1 DEF EntriesSumRight
  <2>3. HeaderSumRight(disk[l])'
    BY <1>4, <1>5 DEF HeaderSumRight
  <2> QED
    BY <2>2, <2>3 DEF NoStaleSum
<1>11. SumsComplete'
  BY <1>8, <1>9, <1>10 DEF SumsComplete
<1> QED
  BY <1>2, <1>5, <1>6, <1>9, <1>10, <1>11, InitTypes DEF Resumed, ExportSteps, NoIo

\* Every step of an export over its own table keeps the table, and its sums
\* are never stale.
LEMMA Resume ==
  ASSUME NEW l, Resuming(l), ExportStep
  PROVE  Resumed(l)
BY ResumePrimaryHeader, ResumeEntries, ResumeBackupHeader, ResumePrimaryEntriesSum,
   ResumeBackupEntriesSum, ResumePrimarySum, ResumeBackupSum DEF ExportStep

(* -- What partitions are filled with ---------------------------------------------- *)

\* The lengths of what init fills partitions with.
LEMMA StageSectors ==
  /\ SectorsOf(StageTwoSize) \in Nat \ {0} /\ SectorsOf(StageTwoRoom) \in Nat \ {0}
  /\ SectorsOf(LoaderSize) \in Nat \ {0} /\ SectorsOf(KernelSize) \in Nat \ {0}
  /\ \A c : /\ StageThreeSize(c) \in {LoaderSize, KernelSize}
            /\ SectorsOf(StageThreeSize(c)) \in Nat \ {0}
<1>1. /\ StageTwoSize \in Nat \ {0} /\ StageTwoRoom \in Nat \ {0}
      /\ LoaderSize \in Nat \ {0} /\ KernelSize \in Nat \ {0}
  <2>1. ASSUME NEW n \in Sizes \ {0} PROVE n \in Nat \ {0}
    BY SizesAssumption, WordAssumption
  <2>2. /\ StageTwoSize \in Sizes \ {0} /\ StageTwoRoom \in Sizes \ {0}
        /\ LoaderSize \in Sizes \ {0} /\ KernelSize \in Sizes \ {0}
    BY StagesAssumption
  <2> QED
    BY <2>1, <2>2
<1>2. ASSUME NEW n \in Nat \ {0} PROVE SectorsOf(n) \in Nat \ {0}
  <2>1. (n + 511) \div 512 \in Nat \ {0}
    OBVIOUS
  <2> QED
    BY <2>1 DEF SectorsOf, SectorSize
<1> QED
  BY <1>1, <1>2 DEF StageThreeSize

\* Any tree fits into the partition of a sound table that is there for it.
LEMMA TreeFits ==
  ASSUME NEW t, TableSound(t), IsUsed(t.primary_entries[FsEntry]), NEW tr \in SUBSET Nodes
  PROVE  /\ StreamLength(tr) \in Nat \ {0} /\ HasRoom(t.primary_entries[FsEntry], StreamLength(tr))
<1>1. Cardinality(tr) \in Nat /\ Cardinality(Nodes) \in Nat /\ Cardinality(tr) <= Cardinality(Nodes)
  BY NodesAssumption, FS_Subset, FS_CardinalityType
<1>2. /\ t.primary_entries[FsEntry].first_lba \in Nat /\ t.primary_entries[FsEntry].last_lba \in Nat
  BY SoundExtents, ThreeEntries
<1>3. Cardinality(Nodes) <= t.primary_entries[FsEntry].last_lba - t.primary_entries[FsEntry].first_lba
  BY DEF TableSound, ExtentsSound
<1> QED
  BY <1>1, <1>2, <1>3 DEF StreamLength, HasRoom

\* A write that keeps what is in an entry's first n sectors.
SectorsKept(e, n) == \A m \in 0..(n - 1) : disk'[e.first_lba + m] = disk[e.first_lba + m]

\* A range that keeps its sectors is filled as far as it was.
LEMMA FilledKept ==
  ASSUME NEW e, NEW n, SectorsKept(e, n)
  PROVE  /\ \A what : Filled(e, what, n)' <=> Filled(e, what, n)
         /\ \A t : TreeFilled(e, t, n)' <=> TreeFilled(e, t, n)
BY DEF SectorsKept, Filled, TreeFilled

\* Sector 0 goes on leading to the stages while both stay.
LEMMA BootKept ==
  ASSUME NEW es, NEW c, BootSound(es, c), disk'[0] = disk[0],
         \A n \in Nat : HasRoom(es[0], n) => SectorsKept(es[0], n),
         \A n \in Nat : HasRoom(es[1], n) => SectorsKept(es[1], n)
  PROVE  BootSound(es, c)'
<1> DEFINE n2 == SectorsOf(StageTwoSize)
           n3 == SectorsOf(StageThreeSize(c))
<1>1. n2 \in Nat /\ n3 \in Nat
  BY StageSectors
<1>2. /\ HasRoom(es[0], n2) /\ HasRoom(es[1], n3)
      /\ Filled(es[0], "stage two", n2) /\ Filled(es[1], "stage three", n3)
  BY DEF BootSound
<1>3. Filled(es[0], "stage two", n2)' /\ Filled(es[1], "stage three", n3)'
  BY <1>1, <1>2, FilledKept
<1> QED
  BY <1>2, <1>3 DEF BootSound

(* -- What an export over its own table leaves ------------------------------------- *)

\* The invariant of the image.
LEMMA ResumedImage ==
  ASSUME NEW l, Rewriting(l), Resumed(l), ImageInv
  PROVE  ImageInv'
<1>1. PICK s \in TablePlaces(l) : KeepsTable(l, s)
  BY DEF Resumed
<1>2. IsWhole' /\ OnImage' = OnImage /\ Headers' = Headers /\ Headers = {1, l}
  BY <1>1, TableKept, RewritingTable
<1>3. DOMAIN disk' = DOMAIN disk /\ SectorsTyped' /\ disk'[0] = disk[0]
  BY <1>1, PartitionKept DEF KeepsTable, Rewriting
<1>4. WholeImage'
  BY <1>3 DEF WholeImage, ImageInv
<1>5. TableSound(OnImage)'
  BY <1>2, RewritingTable
<1>6. /\ ImportedPrimary' = ImportedPrimary /\ ImportedPrimaryEntries' = ImportedPrimaryEntries
      /\ Holds(1, "header") /\ Holds(1, "header")'
  BY <1>2 DEF OnImage, IsWhole, Rewriting
<1>7. PrimarySound'
  <2>1. PrimarySound
    BY <1>6 DEF ImageInv
  <2> QED
    BY <1>3, <1>6, <2>1 DEF PrimarySound
<1>8. Holds(0, "boot") /\ Holds(0, "boot")'
  BY <1>3 DEF ImageInv, Holds, Rewriting
<1>9. \A lba \in Headers' : NoStaleSum(disk[lba])'
  BY <1>2 DEF Resumed
<1>10. ~Holds(0, "fs")' /\ ~Holds(0, "header")'
  BY <1>8 DEF Holds
<1> QED
  BY <1>2, <1>3, <1>4, <1>5, <1>6, <1>7, <1>8, <1>9, <1>10 DEF ImageInv

\* The partitions of the table, and the entries that an import would read.
LEMMA ResumedPartitions ==
  ASSUME NEW l, Rewriting(l), Resumed(l)
  PROVE  /\ UNCHANGED vars /\ IsWhole' /\ OnImage' = OnImage /\ disk'[0] = disk[0]
         /\ ImportedPrimaryEntries = primary_entries
         /\ ImportedPrimaryEntries' = ImportedPrimaryEntries
         /\ DOMAIN disk' = DOMAIN disk
         /\ \A i \in Indices : \A n \in Nat :
              HasRoom(primary_entries[i], n) => SectorsKept(primary_entries[i], n)
<1>1. PICK s \in TablePlaces(l) : KeepsTable(l, s)
  BY DEF Resumed
<1>2. IsWhole' /\ OnImage' = OnImage
  BY <1>1, TableKept
<1>3. UNCHANGED vars /\ DOMAIN disk' = DOMAIN disk /\ Rewrites(s)
  BY <1>1 DEF KeepsTable
<1>4. ImportedPrimaryEntries = primary_entries
  BY DEF Rewriting, OnImage, InMemory
<1>5. ImportedPrimaryEntries' = ImportedPrimaryEntries
  BY <1>2 DEF OnImage
<1> QED
  BY <1>2, <1>3, <1>4, <1>5, PartitionKept DEF Rewriting, SectorsKept

\* The invariant of an image whose init has ended.
LEMMA ResumedLayout ==
  ASSUME NEW l, Rewriting(l), Resumed(l), LayoutInv, UNCHANGED promises,
         layout # {} => made.fs_loader, saved \in SUBSET Nodes
  PROVE  LayoutInv'
<1> SUFFICES ASSUME layout # {}
             PROVE  LayoutInv'
  BY DEF LayoutInv, promises
<1>1. /\ UNCHANGED vars /\ IsWhole' /\ OnImage' = OnImage /\ disk'[0] = disk[0]
      /\ ImportedPrimaryEntries = primary_entries
      /\ ImportedPrimaryEntries' = ImportedPrimaryEntries
      /\ \A i \in Indices : \A n \in Nat :
           HasRoom(primary_entries[i], n) => SectorsKept(primary_entries[i], n)
  BY ResumedPartitions
<1>2. PICK es, c, t : es = primary_entries /\ c = made /\ t = saved
  OBVIOUS
<1>3. /\ es = ImportedPrimaryEntries /\ es = ImportedPrimaryEntries' /\ c = made' /\ t = saved'
      /\ unsaved' = unsaved /\ layout' = layout
  BY <1>1, <1>2 DEF promises
<1>4. /\ layout = {OnImage} /\ BootSound(es, c) /\ c.fs_loader /\ IsUsed(es[FsEntry])
      /\ ~unsaved => TreeFilled(es[FsEntry], t, StreamLength(t))
  BY <1>2, <1>3 DEF LayoutInv
<1>5. BootSound(es, c)'
  BY <1>1, <1>2, <1>4, BootKept, ThreeEntries
<1>6. ~unsaved => TreeFilled(es[FsEntry], t, StreamLength(t))'
  <2>1. TableSound(InMemory) /\ InMemory.primary_entries = es /\ t \in SUBSET Nodes
    BY <1>2 DEF Rewriting, Exporting, InMemory
  <2>2. StreamLength(t) \in Nat /\ HasRoom(es[FsEntry], StreamLength(t))
    BY <1>4, <2>1, TreeFits
  <2>3. SectorsKept(es[FsEntry], StreamLength(t))
    BY <1>1, <1>2, <2>2, ThreeEntries
  <2> QED
    BY <1>4, <2>3, FilledKept
<1>7. /\ BootSound(ImportedPrimaryEntries, made)'
      /\ (~unsaved)' => TreeFilled(ImportedPrimaryEntries[FsEntry], saved, StreamLength(saved))'
  <2>1. BootSound(ImportedPrimaryEntries, made)' <=> BootSound(es, c)'
    BY <1>3 DEF BootSound, Filled, HasRoom
  <2>2. TreeFilled(ImportedPrimaryEntries[FsEntry], saved, StreamLength(saved))'
        <=> TreeFilled(es[FsEntry], t, StreamLength(t))'
    BY <1>3 DEF TreeFilled, StreamLength
  <2> QED
    BY <1>3, <1>5, <1>6, <2>1, <2>2
<1> QED
  BY <1>1, <1>2, <1>3, <1>4, <1>7 DEF LayoutInv

(* -- An export of a new table ------------------------------------------------------ *)

\* A write puts an entry into a sector, and thereby into an array.
EntryInto(s, j, e) == EntriesAt(s)' = [EntriesAt(s) EXCEPT ![j % EntriesPerSector] = e]
ArrayGets(lba, j, e) == /\ ArrayAt(lba)'[j] = e
                        /\ \A i \in Indices : i # j => ArrayAt(lba)'[i] = ArrayAt(lba)[i]

\* An entry put into an array leaves the others as they are.
LEMMA PutInArray ==
  ASSUME NEW lba \in Nat, NEW e, NEW j \in Indices, NEW s, s = lba + j \div EntriesPerSector,
         Rewrites(s), EntriesAt(s) \in [Slots -> Entry], EntryInto(s, j, e)
  PROVE  ArrayGets(lba, j, e)
<1> SUFFICES ASSUME NEW i \in Indices
             PROVE  ArrayAt(lba)'[i] = IF i = j THEN e ELSE ArrayAt(lba)[i]
  BY DEF ArrayGets
<1> USE DEF EntryInto
<1>1. i \in Nat /\ j \in Nat
  BY EntryCountAssumption DEF Indices
<1>2. /\ i \div EntriesPerSector \in Nat /\ j \div EntriesPerSector \in Nat
      /\ i % EntriesPerSector \in Slots /\ j % EntriesPerSector \in Slots
      /\ i # j => \/ i \div EntriesPerSector # j \div EntriesPerSector
                  \/ i % EntriesPerSector # j % EntriesPerSector
  BY EntryPlace
<1>3. PICK p : p = lba + i \div EntriesPerSector
  OBVIOUS
<1>4. /\ ArrayAt(lba)'[i] = EntriesAt(p)'[i % EntriesPerSector]
      /\ ArrayAt(lba)[i] = EntriesAt(p)[i % EntriesPerSector]
  BY <1>3 DEF ArrayAt
<1>5. CASE i = j
  <2>1. p = s
    BY <1>3, <1>5
  <2>2. EntriesAt(p)' = EntriesAt(s)'
    BY <2>1
  <2> QED
    BY <1>2, <1>4, <1>5, <2>2
<1>6. CASE i # j
  <2>1. CASE p = s
    <3>1. EntriesAt(p)' = EntriesAt(s)' /\ EntriesAt(p) = EntriesAt(s)
      BY <2>1
    <3>2. i % EntriesPerSector # j % EntriesPerSector
      BY <1>1, <1>2, <1>3, <1>6, <2>1
    <3> QED
      BY <1>2, <1>4, <1>6, <3>1, <3>2
  <2>2. CASE p # s
    <3>1. EntriesAt(p)' = EntriesAt(p)
      BY <2>2, RewriteElsewhere
    <3> QED
      BY <1>4, <1>6, <3>1
  <2> QED
    BY <2>1, <2>2
<1> QED
  BY <1>5, <1>6

\* The entry after the first j is written, and those behind it are not yet.
LEMMA WrittenMore ==
  ASSUME NEW lba \in Nat, NEW es, NEW j \in Indices, NEW s, s = lba + j \div EntriesPerSector,
         Rewrites(s), EntriesAt(s) \in [Slots -> Entry], EntryInto(s, j, es[j]),
         Written(lba, es, j)
  PROVE  /\ Written(lba, es, j + 1)'
         /\ Unwritten(lba, j) => Unwritten(lba, j + 1)'
<1> PICK e : e = es[j]
  OBVIOUS
<1>a. EntryInto(s, j, e)
  OBVIOUS
<1>b. ArrayGets(lba, j, e)
  BY <1>a, PutInArray
<1>1. /\ ArrayAt(lba)'[j] = es[j]
      /\ \A i \in Indices : i # j => ArrayAt(lba)'[i] = ArrayAt(lba)[i]
  BY <1>b, Zenon DEF ArrayGets
<1>2. /\ \A i \in Indices : i < j + 1 => i = j \/ i < j
      /\ \A i \in Indices : i >= j + 1 => i # j /\ i >= j
  BY EntryCountAssumption DEF Indices
<1>3. \A i \in Indices : i < j + 1 => ArrayAt(lba)'[i] = es[i]
  BY <1>1, <1>2, Zenon DEF Written
<1>4. Unwritten(lba, j) => \A i \in Indices : i >= j + 1 => ArrayAt(lba)'[i] = InitEntry
  BY <1>1, <1>2, Zenon DEF Unwritten
<1>5. Written(lba, es, j + 1)' <=> \A i \in Indices : i < j + 1 => ArrayAt(lba)'[i] = es[i]
  BY Zenon DEF Written
<1>6. Unwritten(lba, j + 1)' <=> \A i \in Indices : i >= j + 1 => ArrayAt(lba)'[i] = InitEntry
  BY Zenon DEF Unwritten
<1> QED
  BY <1>3, <1>4, <1>5, <1>6, Zenon

\* Some of the entries of an array are written, and the others empty.
SomeOf(a, es) == \A i \in Indices : a[i] = es[i] \/ a[i] = InitEntry

\* The partitions of such an array are some of those of the whole.
LEMMA SomeSound ==
  ASSUME NEW es, NEW a, SomeOf(a, es), NEW first, NEW last, ExtentsSound(es, first, last)
  PROVE  ExtentsSound(a, first, last)
<1>1. ~IsUsed(InitEntry) /\ InitEntry.first_lba = InvalidLba
  BY DEF IsUsed, InitEntry
<1>2. \A i \in Indices : IsUsed(a[i]) => a[i] = es[i]
  BY <1>1 DEF SomeOf
<1>3. \A i \in Indices : IF IsUsed(a[i])
                        THEN /\ first <= a[i].first_lba
                             /\ a[i].first_lba <= a[i].last_lba
                             /\ a[i].last_lba <= last
                        ELSE a[i].first_lba = InvalidLba
  <2> TAKE i \in Indices
  <2>1. IF IsUsed(es[i]) THEN /\ first <= es[i].first_lba
                              /\ es[i].first_lba <= es[i].last_lba
                              /\ es[i].last_lba <= last
                         ELSE es[i].first_lba = InvalidLba
    BY DEF ExtentsSound
  <2>2. a[i] = es[i] \/ a[i] = InitEntry
    BY DEF SomeOf
  <2>3. CASE a[i] = es[i]
    BY <2>1, <2>3
  <2>4. CASE a[i] = InitEntry
    BY <1>1, <2>4
  <2> QED
    BY <2>2, <2>3, <2>4
<1>4. \A i, j \in Indices : IsUsed(a[i]) /\ IsUsed(a[j]) /\ i < j =>
                             a[i].last_lba < a[j].first_lba
  <2> SUFFICES ASSUME NEW i \in Indices, NEW j \in Indices, IsUsed(a[i]), IsUsed(a[j]), i < j
               PROVE  a[i].last_lba < a[j].first_lba
    OBVIOUS
  <2>1. a[i] = es[i] /\ a[j] = es[j]
    BY <1>2
  <2>2. IsUsed(es[i]) /\ IsUsed(es[j]) /\ i < j => es[i].last_lba < es[j].first_lba
    BY Zenon DEF ExtentsSound
  <2>3. IsUsed(es[i]) /\ IsUsed(es[j])
    BY <2>1, Zenon
  <2>4. es[i].last_lba < es[j].first_lba
    BY <2>2, <2>3
  <2> QED
    BY <2>1, <2>4, Zenon
<1>5. IsUsed(a[FsEntry]) => Cardinality(Nodes) <= a[FsEntry].last_lba - a[FsEntry].first_lba
  BY <1>2, ThreeEntries DEF ExtentsSound
<1> QED
  BY <1>3, <1>4, <1>5 DEF ExtentsSound

\* With nothing in the place of its backup header a table is not whole.
LEMMA OneIsNone ==
  ASSUME NEW l, Holds(l, "blank")', 1 \in DOMAIN disk', disk'[1] = HeaderSector(primary_header),
         primary_header.backup_lba = l
  PROVE  ~IsWhole'
<1>1. Holds(1, "header")' /\ disk'[1].header = primary_header
  BY BareHeader DEF Holds
<1>2. ImportedPrimary'.backup_lba = l
  BY <1>1 DEF ImportedPrimary, HeaderAt
<1>3. ~Holds(ImportedPrimary.backup_lba, "header")'
  BY <1>2 DEF Holds
<1> QED
  BY <1>3 DEF IsWhole

\* What the first steps of an export of a new table must find, and what they leave.
Beginning(l) ==
  /\ Exporting(l) /\ WholeImage /\ SumsSoFar /\ FreshExport
  /\ io.step \in {"primary header", "primary entries", "backup entries", "backup header"}
  /\ At("primary header") => \A s \in TablePlaces(l) : disk[s] = Blank

Begun(l) ==
  /\ UNCHANGED vars /\ DOMAIN disk' = DOMAIN disk /\ \E s \in TablePlaces(l) : Rewrites(s)
  /\ io' \in [step : ExportSteps, i : Indices] /\ SumsSoFar' /\ FreshExport'
  /\ SectorsTyped'
  /\ disk'[1] = HeaderSector(primary_header) /\ SomeOf(ArrayAt(2)', primary_entries)
  /\ \/ Holds(l, "blank")' /\ ~IsWhole'
     \/ IsWhole' /\ OnImage' = InMemory /\ NoStaleSum(disk[1])' /\ NoStaleSum(disk[l])'

\* The first write of an export, of the primary header.
LEMMA BeginPrimaryHeader ==
  ASSUME NEW l, Beginning(l), WritePrimaryHeader
  PROVE  Begun(l)
<1>1. Exporting(l) /\ SectorsTyped /\ \A s \in TablePlaces(l) : disk[s] = Blank
  BY DEF Beginning, WritePrimaryHeader, Exporting
<1>2. /\ l \in Nat /\ l # 1 /\ 1 \in DOMAIN disk /\ l \in DOMAIN disk
      /\ primary_header.backup_lba = l /\ ArraySectors \in Nat
      /\ 1 \in TablePlaces(l) /\ l \in TablePlaces(l)
      /\ \A x \in 0..(ArraySectors - 1) : /\ 2 + x \in TablePlaces(l) /\ 2 + x # 1
                                           /\ 2 + x \in DOMAIN disk
  <2>1. /\ l \in Nat /\ 2 * ArraySectors + 2 <= l /\ ArraySectors \in Nat \ {0}
        /\ 1 \in DOMAIN disk /\ l \in DOMAIN disk /\ primary_header.backup_lba = l
    BY <1>1, ExportPlaces
  <2>2. \A x \in 0..l : x \in DOMAIN disk
    BY <1>1 DEF Exporting
  <2> QED
    BY <2>1, <2>2 DEF TablePlaces
<1>3. /\ disk' = [disk EXCEPT ![1] = HeaderSector(primary_header)] /\ UNCHANGED vars
      /\ io' = [step |-> "primary entries", i |-> 0]
  BY <1>1, BothLoops DEF WritePrimaryHeader, Put, GoTo
<1>4. /\ DOMAIN disk' = DOMAIN disk /\ disk'[1] = HeaderSector(primary_header)
      /\ \A x \in DOMAIN disk : x # 1 => disk'[x] = disk[x]
  BY <1>2, <1>3
<1>5. Rewrites(1)
  BY <1>2, <1>4 DEF Rewrites
<1>6. SectorsTyped'
  BY <1>1, <1>4, BareHeader DEF SectorsTyped
<1>7. Holds(l, "blank")'
  BY <1>1, <1>2, <1>4 DEF Holds, Blank
<1>8. ~IsWhole'
  BY <1>2, <1>4, <1>7, OneIsNone
<1>9. primary_header' = primary_header /\ primary_entries' = primary_entries
  BY <1>3 DEF vars, headers, entries
<1>10. SumsSoFar'
  BY <1>3, <1>4, <1>9 DEF SumsSoFar, At
<1>11. \A i \in Indices : ArrayAt(2)'[i] = InitEntry
  <2> TAKE i \in Indices
  <2>1. PICK x \in 0..(ArraySectors - 1) : x = i \div EntriesPerSector
    BY EntryPlace
  <2>2. disk'[2 + x] = Blank /\ 2 + x \in DOMAIN disk'
    BY <1>1, <1>2, <1>4
  <2>3. EntriesAt(2 + x)' = [n \in Slots |-> InitEntry]
    BY <2>2 DEF EntriesAt, Holds, Blank
  <2> QED
    BY <2>1, <2>3, EntryPlace DEF ArrayAt
<1>12. Written(2, primary_entries, io.i)' /\ Unwritten(2, io.i)'
  <2>1. io'.i = 0
    BY <1>3
  <2>2. \A i \in Indices : ~(i < 0)
    BY EntryCountAssumption DEF Indices
  <2> QED
    BY <1>11, <2>1, <2>2 DEF Written, Unwritten
<1>13. FreshExport'
  <2>1. Holds(primary_header.backup_lba, "blank")'
    BY <1>2, <1>7, <1>9 DEF Holds
  <2> QED
    BY <1>3, <1>12, <2>1 DEF FreshExport, At
<1>14. SomeOf(ArrayAt(2)', primary_entries)
  BY <1>11 DEF SomeOf
<1> QED
  BY <1>2, <1>3, <1>4, <1>5, <1>6, <1>7, <1>8, <1>10, <1>13, <1>14, InitTypes
     DEF Begun, ExportSteps

\* The next entry of an array, or the step that follows.
LEMMA NextEntry ==
  ASSUME NEW n \in Indices, NEW now \in ExportSteps, NEW next \in ExportSteps, next # now,
         io = [step |-> now, i |-> n], NextEntryOr(EntryCount, next)
  PROVE  /\ io' \in [step : ExportSteps, i : Indices]
         /\ n + 1 \in Nat
         /\ io'.step = now => io'.i = n + 1
         /\ io'.step # now => io'.step = next /\ n + 1 = EntryCount /\ io'.i = 0
<1>1. EntryCount \in Nat \ {0} /\ n \in 0..(EntryCount - 1)
  BY EntryCountAssumption DEF Indices
<1>2. io.i = n
  OBVIOUS
<1>3. CASE n + 1 < EntryCount
  <2>1. io' = [step |-> now, i |-> n + 1]
    BY <1>2, <1>3 DEF NextEntryOr
  <2>2. n + 1 \in Indices
    BY <1>1, <1>3 DEF Indices
  <2> QED
    BY <1>1, <2>1, <2>2
<1>4. CASE ~(n + 1 < EntryCount)
  <2>1. io' = [step |-> next, i |-> 0]
    BY <1>2, <1>4 DEF NextEntryOr, GoTo
  <2>2. n + 1 = EntryCount
    BY <1>1, <1>4
  <2> QED
    BY <1>1, <2>1, <2>2, InitTypes
<1> QED
  BY <1>3, <1>4

\* What a step inside an export finds of where it is.
LEMMA WhereIo ==
  ASSUME io \in [step : {"none"} \cup ExportSteps, i : Indices], NEW step, At(step)
  PROVE  \E n \in Indices : io = [step |-> step, i |-> n] /\ io.i = n
BY DEF At

\* A step for an entry of a new table.
LEMMA BeginEntry ==
  ASSUME NEW l, Exporting(l), NEW lba \in {2, l - ArraySectors}, NEW n \in Indices, n = io.i,
         PutEntry(lba, primary_entries[n]), Holds(l, "blank"),
         disk[1] = HeaderSector(primary_header), Written(lba, primary_entries, n)
  PROVE  /\ UNCHANGED vars /\ DOMAIN disk' = DOMAIN disk /\ SectorsTyped'
         /\ \E s \in TablePlaces(l) : Rewrites(s)
         /\ Holds(l, "blank")' /\ ~IsWhole' /\ disk'[1] = disk[1]
         /\ Written(lba, primary_entries, n + 1)'
         /\ Unwritten(lba, n) => Unwritten(lba, n + 1)'
         /\ lba # 2 => ArrayAt(2)' = ArrayAt(2)
<1>1. /\ l \in Nat /\ 2 * ArraySectors + 2 <= l /\ ArraySectors \in Nat \ {0}
      /\ lba \in Nat /\ primary_entries \in Table /\ primary_header.backup_lba = l
      /\ lba + n \div EntriesPerSector \in DOMAIN disk /\ 1 \in DOMAIN disk
  BY ExportPlaces
<1>2. PICK s : s = lba + n \div EntriesPerSector
  OBVIOUS
<1>3. PICK es : es = primary_entries
  OBVIOUS
<1>4. es[n] \in Entry /\ SectorsTyped
  BY <1>1, <1>3 DEF Table, Exporting
<1>5. /\ UNCHANGED vars /\ Rewrites(s) /\ DOMAIN disk' = DOMAIN disk
      /\ disk'[s].kind = "entries" /\ SectorsTyped'
      /\ EntriesAt(s) \in [Slots -> Entry]
      /\ EntriesAt(s)' = [EntriesAt(s) EXCEPT ![n % EntriesPerSector] = es[n]]
  BY <1>1, <1>2, <1>3, <1>4, EntryPut
<1>6. n \div EntriesPerSector \in 0..(ArraySectors - 1)
  BY EntryPlace
<1>7. s \in TablePlaces(l) /\ s # 1 /\ l # 1 /\ s # l
  BY <1>1, <1>2, <1>6 DEF TablePlaces
<1>8. Written(lba, es, n + 1)' /\ (Unwritten(lba, n) => Unwritten(lba, n + 1)')
  <2>1. EntryInto(s, n, es[n])
    BY <1>5 DEF EntryInto
  <2>2. Written(lba, es, n)
    BY <1>3
  <2> QED
    BY <1>1, <1>2, <1>5, <2>1, <2>2, WrittenMore
<1>9. disk'[1] = disk[1]
  BY <1>7, <1>5, ExportPlaces DEF Rewrites
<1>10. Holds(l, "blank")'
  BY <1>5, <1>7 DEF Holds, Rewrites
<1>11. ~IsWhole'
  BY <1>1, <1>5, <1>9, <1>10, OneIsNone
<1>12. lba # 2 => ArrayAt(2)' = ArrayAt(2)
  <2>1. lba # 2 => s \notin 2..(2 + ArraySectors - 1)
    BY <1>1, <1>2, <1>6
  <2> QED
    BY <1>5, <2>1, RewriteBeside
<1>13. primary_entries' = es
  BY <1>3, <1>5 DEF vars, entries
<1> QED
  BY <1>3, <1>5, <1>7, <1>8, <1>9, <1>10, <1>11, <1>12, <1>13

\* The steps for the primary entries.
LEMMA BeginPrimaryEntry ==
  ASSUME NEW l, Beginning(l), WritePrimaryEntry
  PROVE  Begun(l)
<1>1. Exporting(l) /\ At("primary entries") /\ io.step = "primary entries"
  BY DEF Beginning, WritePrimaryEntry, At
<1>2. PICK n \in Indices : io = [step |-> "primary entries", i |-> n] /\ io.i = n
  BY <1>1, WhereIo DEF Exporting
<1>3. /\ PutEntry(2, primary_entries[n])
      /\ NextEntryOr(EntryCount, "backup entries")
  BY <1>1, <1>2, ExportPlaces, BothLoops DEF WritePrimaryEntry
<1>4. Holds(l, "blank") /\ Written(2, primary_entries, n) /\ Unwritten(2, n)
  <2>1. primary_header.backup_lba = l
    BY <1>1, ExportPlaces
  <2> QED
    BY <1>1, <1>2, <2>1 DEF Beginning, FreshExport
<1>5. disk[1] = HeaderSector(primary_header)
  BY <1>1 DEF Beginning, SumsSoFar
<1>6. /\ UNCHANGED vars /\ DOMAIN disk' = DOMAIN disk /\ SectorsTyped'
      /\ \E s \in TablePlaces(l) : Rewrites(s)
      /\ Holds(l, "blank")' /\ ~IsWhole' /\ disk'[1] = disk[1]
      /\ Written(2, primary_entries, n + 1)' /\ Unwritten(2, n + 1)'
  BY <1>1, <1>2, <1>3, <1>4, <1>5, BeginEntry
<1>7. /\ io' \in [step : ExportSteps, i : Indices]
      /\ io'.step = "primary entries" => io'.i = n + 1
      /\ io'.step # "primary entries" => io'.step = "backup entries" /\ n + 1 = EntryCount /\ io'.i = 0
  BY <1>2, <1>3, NextEntry DEF ExportSteps
<1>8. primary_header' = primary_header /\ primary_entries' = primary_entries
  BY <1>6 DEF vars, headers, entries
<1>9. SumsSoFar'
  BY <1>5, <1>6, <1>7, <1>8 DEF SumsSoFar, At
<1>10. FreshExport'
  <2>0. Holds(primary_header.backup_lba, "blank")'
    <3>1. primary_header'.backup_lba = l
      BY <1>1, <1>8, ExportPlaces
    <3> QED
      BY <1>6, <3>1 DEF Holds
  <2>1. CASE io'.step = "primary entries"
    <3>1. Written(2, primary_entries, io.i)' /\ Unwritten(2, io.i)'
      BY <1>6, <1>7, <2>1
    <3> QED
      BY <2>0, <2>1, <3>1 DEF FreshExport, At
  <2>2. CASE io'.step = "backup entries"
    <3>1. Written(2, primary_entries, EntryCount)'
      BY <1>6, <1>7, <2>2
    <3>2. Written(backup_header.partition_entries_lba, backup_entries, io.i)'
      <4>1. io'.i = 0
        BY <1>7, <2>2
      <4>2. \A i \in Indices : ~(i < 0)
        BY EntryCountAssumption DEF Indices
      <4> QED
        BY <4>1, <4>2 DEF Written
    <3> QED
      BY <2>0, <2>2, <3>1, <3>2 DEF FreshExport, At
  <2> QED
    BY <1>7, <2>1, <2>2
<1>11. SomeOf(ArrayAt(2)', primary_entries)
  <2>1. \A i \in Indices : i < n + 1 \/ i >= n + 1
    BY EntryCountAssumption DEF Indices
  <2> QED
    BY <1>6, <1>8, <2>1 DEF SomeOf, Written, Unwritten
<1> QED
  BY <1>5, <1>6, <1>7, <1>9, <1>10, <1>11 DEF Begun

\* The steps for the backup entries.
LEMMA BeginBackupEntry ==
  ASSUME NEW l, Beginning(l), WriteBackupEntry
  PROVE  Begun(l)
<1>1. Exporting(l) /\ At("backup entries") /\ io.step = "backup entries"
  BY DEF Beginning, WriteBackupEntry, At
<1>2. PICK n \in Indices : io = [step |-> "backup entries", i |-> n] /\ io.i = n
  BY <1>1, WhereIo DEF Exporting
<1>3. PICK lba : lba = l - ArraySectors
  OBVIOUS
<1>4. /\ lba # 2 /\ lba \in Int /\ lba = backup_header.partition_entries_lba
      /\ backup_entries = primary_entries
      /\ backup_header.partition_entry_count = EntryCount
  <2>1. /\ l \in Nat /\ 2 * ArraySectors + 2 <= l /\ ArraySectors \in Nat \ {0}
        /\ l - ArraySectors = backup_header.partition_entries_lba
        /\ backup_entries = primary_entries
        /\ backup_header.partition_entry_count = EntryCount
    BY <1>1, ExportPlaces
  <2>2. lba # 2 /\ lba \in Int
    BY <1>3, <2>1
  <2> QED
    BY <1>3, <2>1, <2>2
<1>5. /\ PutEntry(lba, primary_entries[n])
      /\ NextEntryOr(EntryCount, "backup header")
  BY <1>2, <1>4 DEF WriteBackupEntry
<1>6. /\ Holds(l, "blank") /\ Written(lba, primary_entries, n)
      /\ Written(2, primary_entries, EntryCount)
  <2>1. primary_header.backup_lba = l
    BY <1>1, ExportPlaces
  <2> QED
    BY <1>1, <1>2, <1>4, <2>1 DEF Beginning, FreshExport
<1>7. disk[1] = HeaderSector(primary_header)
  BY <1>1 DEF Beginning, SumsSoFar
<1>8. /\ UNCHANGED vars /\ DOMAIN disk' = DOMAIN disk /\ SectorsTyped'
      /\ \E s \in TablePlaces(l) : Rewrites(s)
      /\ Holds(l, "blank")' /\ ~IsWhole' /\ disk'[1] = disk[1]
      /\ Written(lba, primary_entries, n + 1)'
      /\ ArrayAt(2)' = ArrayAt(2)
  BY <1>1, <1>2, <1>3, <1>4, <1>5, <1>6, <1>7, BeginEntry
<1>9. /\ io' \in [step : ExportSteps, i : Indices]
      /\ io'.step = "backup entries" => io'.i = n + 1
      /\ io'.step # "backup entries" => io'.step = "backup header" /\ n + 1 = EntryCount
  BY <1>2, <1>5, NextEntry DEF ExportSteps
<1>10. headers' = headers /\ entries' = entries
  BY <1>8 DEF vars
<1>11. SumsSoFar'
  BY <1>7, <1>8, <1>9, <1>10 DEF SumsSoFar, At, headers
<1>12. Written(2, primary_entries, EntryCount)'
  BY <1>6, <1>8, <1>10 DEF Written, entries
<1>13. FreshExport'
  <2>0. Holds(primary_header.backup_lba, "blank")'
    <3>1. primary_header'.backup_lba = l
      BY <1>1, <1>10, ExportPlaces DEF headers
    <3> QED
      BY <1>8, <3>1 DEF Holds
  <2>1. backup_header'.partition_entries_lba = lba /\ backup_entries' = primary_entries'
    BY <1>4, <1>10 DEF headers, entries
  <2>2. CASE io'.step = "backup entries"
    <3>1. Written(backup_header.partition_entries_lba, backup_entries, io.i)'
      BY <1>8, <1>9, <2>1, <2>2
    <3> QED
      BY <1>12, <2>0, <2>2, <3>1 DEF FreshExport, At
  <2>3. CASE io'.step = "backup header"
    <3>1. Written(backup_header.partition_entries_lba, backup_entries, EntryCount)'
      BY <1>8, <1>9, <2>1, <2>3
    <3> QED
      BY <1>12, <2>0, <2>3, <3>1 DEF FreshExport, At
  <2> QED
    BY <1>9, <2>2, <2>3
<1>14. SomeOf(ArrayAt(2)', primary_entries)
  <2>1. \A i \in Indices : i < EntryCount
    BY EntryCountAssumption DEF Indices
  <2> QED
    BY <1>6, <1>8, <2>1 DEF SomeOf, Written
<1> QED
  BY <1>7, <1>8, <1>9, <1>11, <1>13, <1>14 DEF Begun

\* The step for the backup header, which makes the table one to import.
LEMMA BeginBackupHeader ==
  ASSUME NEW l, Beginning(l), WriteBackupHeader
  PROVE  Begun(l)
<1>1. Exporting(l) /\ io.step = "backup header"
  BY DEF Beginning, WriteBackupHeader, At
<1>2. /\ l \in Nat /\ 2 * ArraySectors + 2 <= l /\ ArraySectors \in Nat \ {0}
      /\ primary_header.backup_lba = l
      /\ backup_header.partition_entries_lba = l - ArraySectors
      /\ primary_entries \in Table /\ backup_entries = primary_entries
      /\ 1 \in DOMAIN disk /\ l \in DOMAIN disk
  BY <1>1, ExportPlaces
<1>3. l # 1 /\ l \in TablePlaces(l)
  BY <1>2 DEF TablePlaces
<1>4. /\ Written(2, primary_entries, EntryCount)
      /\ Written(l - ArraySectors, primary_entries, EntryCount)
  BY <1>1, <1>2 DEF Beginning, FreshExport, At
<1>5. disk[1] = HeaderSector(primary_header)
  BY <1>1 DEF Beginning, SumsSoFar
<1>6. /\ disk' = [disk EXCEPT ![l] = HeaderSector(backup_header)] /\ UNCHANGED vars
      /\ io' = [step |-> "primary entries sum", i |-> 0]
  <2>1. BehindBackupEntries = l
    BY <1>1, BehindEntries
  <2> QED
    BY <2>1 DEF WriteBackupHeader, Put, GoTo
<1>7. /\ DOMAIN disk' = DOMAIN disk /\ disk'[l] = HeaderSector(backup_header)
      /\ \A x \in DOMAIN disk : x # l => disk'[x] = disk[x]
  BY <1>2, <1>6
<1>8. Rewrites(l) /\ disk'[1] = disk[1]
  BY <1>2, <1>3, <1>7 DEF Rewrites
<1>9. SectorsTyped'
  <2>1. SectorsTyped
    BY <1>1 DEF Exporting
  <2> QED
    BY <1>7, <2>1, BareHeader DEF SectorsTyped
<1>10. ArrayAt(2)' = primary_entries /\ ArrayAt(l - ArraySectors)' = primary_entries
  <2>1. /\ l \notin 2..(2 + ArraySectors - 1)
        /\ l \notin (l - ArraySectors)..(l - ArraySectors + ArraySectors - 1)
        /\ l - ArraySectors \in Int
    BY <1>2
  <2>2. ArrayAt(2)' = ArrayAt(2)
    BY <1>8, <2>1, RewriteBeside
  <2>3. ArrayAt(l - ArraySectors)' = ArrayAt(l - ArraySectors)
    <3>1. PICK b \in Int : b = l - ArraySectors
      BY <2>1
    <3>2. ArrayAt(b)' = ArrayAt(b)
      BY <1>8, <2>1, <3>1, RewriteBeside
    <3> QED
      BY <3>1, <3>2
  <2>4. \A i \in Indices : i < EntryCount
    BY EntryCountAssumption DEF Indices
  <2>5. ArrayAt(2) = primary_entries /\ ArrayAt(l - ArraySectors) = primary_entries
    BY <1>2, <1>4, <2>4 DEF Written, ArrayAt, Table
  <2> QED
    BY <2>2, <2>3, <2>5
<1>11. /\ ImportedPrimary' = primary_header /\ ImportedBackup' = backup_header
       /\ ImportedPrimaryEntries' = primary_entries
  <2>0. /\ Holds(1, "header")' /\ Holds(l, "header")'
        /\ disk'[1].header = primary_header /\ disk'[l].header = backup_header
    BY <1>2, <1>5, <1>7, <1>8, BareHeader DEF Holds
  <2>1. ImportedPrimary' = primary_header
    BY <2>0 DEF ImportedPrimary, HeaderAt
  <2>2. ImportedBackup' = backup_header
    <3>1. HeaderAt(l)' = backup_header
      BY <2>0 DEF HeaderAt
    <3>2. ImportedBackup' = HeaderAt(l)'
      BY <1>2, <2>1 DEF ImportedBackup, HeaderAt, Holds
    <3> QED
      BY <3>1, <3>2
  <2> QED
    BY <1>10, <2>1, <2>2 DEF ImportedPrimaryEntries
<1>12. OnImage' = InMemory
  <2>1. ArrayAt(ImportedBackup.partition_entries_lba)' = ArrayAt(l - ArraySectors)'
    BY <1>2, <1>11 DEF ArrayAt
  <2> QED
    BY <1>2, <1>10, <1>11, <2>1 DEF OnImage, InMemory
<1>13. IsWhole'
  <2>1. Holds(1, "header")' /\ Holds(l, "header")'
    BY <1>2, <1>5, <1>7, <1>8, BareHeader DEF Holds
  <2>2. Holds(ImportedPrimary.backup_lba, "header")'
    BY <1>2, <1>11, <2>1 DEF Holds
  <2>3. backup_header # InitHeader
    <3>1. backup_header.partition_entry_count # 0
      BY <1>1, ExportPlaces, EntryCountAssumption
    <3> QED
      BY <3>1 DEF InitHeader
  <2> QED
    BY <1>11, <2>1, <2>2, <2>3 DEF IsWhole
<1>14. NoStaleSum(disk[1])' /\ NoStaleSum(disk[l])'
  BY <1>5, <1>7, <1>8, BareHeader DEF NoStaleSum
<1>15. /\ primary_header' = primary_header /\ backup_header' = backup_header
       /\ InMemory' = InMemory
  BY <1>6 DEF vars, headers, entries, InMemory
<1>16. BackupLba' = l
  BY <1>2, <1>5, <1>8, BareHeader DEF BackupLba
<1>17. SumsSoFar'
  BY <1>5, <1>6, <1>7, <1>8, <1>15, <1>16 DEF SumsSoFar, At
<1>18. FreshExport'
  BY <1>6, <1>12, <1>13, <1>15 DEF FreshExport, At
<1>19. SomeOf(ArrayAt(2)', primary_entries)
  BY <1>10 DEF SomeOf
<1> QED
  BY <1>3, <1>5, <1>6, <1>7, <1>8, <1>9, <1>12, <1>13, <1>14, <1>17, <1>18, <1>19, InitTypes
     DEF Begun, ExportSteps

\* An export of a new table: there is none to import before its last part, and
\* then there is the one in memory.
LEMMA Begin ==
  ASSUME NEW l, Beginning(l), ExportStep
  PROVE  Begun(l)
<1>1. io.step \in {"primary header", "primary entries", "backup entries", "backup header"}
  BY DEF Beginning
<1>2. WritePrimaryHeader \/ WritePrimaryEntry \/ WriteBackupEntry \/ WriteBackupHeader
  BY <1>1 DEF ExportStep, WritePrimaryEntriesSum, WriteBackupEntriesSum, WritePrimarySum,
              WriteBackupSum, At
<1> QED
  BY <1>2, BeginPrimaryHeader, BeginPrimaryEntry, BeginBackupEntry, BeginBackupHeader

\* The invariant of the image after it.
LEMMA BegunImage ==
  ASSUME NEW l, Beginning(l), Begun(l), Holds(0, "boot")
  PROVE  ImageInv'
<1>1. /\ DOMAIN disk' = DOMAIN disk /\ SectorsTyped' /\ disk'[0] = disk[0]
      /\ disk'[1] = HeaderSector(primary_header) /\ SomeOf(ArrayAt(2)', primary_entries)
      /\ \/ Holds(l, "blank")' /\ ~IsWhole'
         \/ IsWhole' /\ OnImage' = InMemory /\ NoStaleSum(disk[1])' /\ NoStaleSum(disk[l])'
  BY PartitionKept DEF Begun, Beginning
<1>2. WholeImage'
  BY <1>1 DEF WholeImage, Beginning
<1>3. Holds(0, "boot")' /\ ~Holds(0, "fs")' /\ ~Holds(0, "header")'
  BY <1>1 DEF Holds
<1>4. TableSound(InMemory) /\ l = EndOf(InMemory) /\ \A x \in 0..l : x \in DOMAIN disk
  BY DEF Beginning, Exporting
<1>5. Holds(1, "header")' /\ ImportedPrimary' = primary_header /\ primary_header.backup_lba = l
  <2>1. 1 \in DOMAIN disk /\ primary_header.backup_lba = l
    BY ExportPlaces DEF Beginning
  <2>2. Holds(1, "header")' /\ disk'[1].header = primary_header
    BY <1>1, <2>1, BareHeader DEF Holds
  <2> QED
    BY <2>1, <2>2 DEF ImportedPrimary, HeaderAt
<1>6. PrimarySound'
  <2>1. /\ InMemory.primary = primary_header /\ InMemory.primary_entries = primary_entries
    BY DEF InMemory
  <2>2. \E size \in DiskSizes : primary_header = FormattedHeader(1, LastDiskLba(size), 2, size)
    BY <1>4, <2>1 DEF TableSound
  <2>3. ExtentsSound(primary_entries, primary_header.first_usable_lba,
                     primary_header.last_usable_lba)
    BY <1>4, <2>1 DEF TableSound
  <2>4. PICK a : a = ImportedPrimaryEntries'
    OBVIOUS
  <2>5. ExtentsSound(a, primary_header.first_usable_lba, primary_header.last_usable_lba)
    BY <1>1, <2>3, <2>4, SomeSound DEF ImportedPrimaryEntries
  <2>6. ExtentsSound(ImportedPrimaryEntries, ImportedPrimary.first_usable_lba,
                     ImportedPrimary.last_usable_lba)'
    BY <1>5, <2>4, <2>5 DEF ExtentsSound
  <2>7. 0..ImportedPrimary'.backup_lba \subseteq DOMAIN disk'
    BY <1>1, <1>4, <1>5
  <2> QED
    BY <1>5, <2>2, <2>6, <2>7 DEF PrimarySound
<1>7. NoBackup(ImportedPrimary.backup_lba)' \/ IsWhole'
  <2>1. ImportedPrimary'.backup_lba = l
    BY <1>5
  <2> QED
    BY <1>1, <2>1 DEF NoBackup, Holds
<1>8. ASSUME IsWhole'
      PROVE  TableSound(OnImage)' /\ \A lba \in Headers' : NoStaleSum(disk[lba])'
  <2>1. OnImage' = InMemory /\ NoStaleSum(disk[1])' /\ NoStaleSum(disk[l])'
    BY <1>1, <1>8
  <2>2. TableSound(OnImage)'
    BY <1>4, <2>1
  <2>3. Headers' = {1, l}
    BY <1>5 DEF Headers
  <2> QED
    BY <2>1, <2>2, <2>3
<1> QED
  BY <1>1, <1>2, <1>3, <1>5, <1>6, <1>7, <1>8 DEF ImageInv

(* -- The image of an init that was killed before it wrote the backup header ------- *)

\* It holds a primary header, whose backup would be in sector l, and what is
\* there is read as a header of zeros.
HalfMade(l) ==
  /\ ImageInv /\ Holds(1, "header") /\ ~IsWhole /\ l = ImportedPrimary.backup_lba

\* What a later command leaves of it.
HalfKept(l) ==
  /\ DOMAIN disk' = DOMAIN disk /\ SectorsTyped'
  /\ Holds(1, "header")' /\ disk'[1].header = disk[1].header
  /\ ArrayAt(2)' = ArrayAt(2) /\ NoBackup(l)'
  /\ ~Holds(0, "fs")' /\ (Holds(0, "header")' => disk'[0] = HeaderSector(InitHeader))

\* Such a header and its entries are part of a sound table.
LEMMA PrimaryTable ==
  ASSUME SectorsTyped, PrimarySound
  PROVE  \E t : /\ TableSound(t) /\ t.primary = ImportedPrimary
                /\ t.primary_entries = ImportedPrimaryEntries
                /\ EndOf(t) = ImportedPrimary.backup_lba
<1>1. PICK size \in DiskSizes : ImportedPrimary = FormattedHeader(1, LastDiskLba(size), 2, size)
  BY DEF PrimarySound
<1>2. PICK t : t = [primary |-> ImportedPrimary,
                    backup |-> FormattedHeader(LastDiskLba(size), 1, BackupEntriesLba(size), size),
                    primary_entries |-> ImportedPrimaryEntries,
                    backup_entries |-> ImportedPrimaryEntries]
  OBVIOUS
<1>3. /\ t.primary = ImportedPrimary /\ t.primary_entries = ImportedPrimaryEntries
      /\ t.backup = FormattedHeader(LastDiskLba(size), 1, BackupEntriesLba(size), size)
      /\ t.backup_entries = ImportedPrimaryEntries
  BY <1>2
<1>4. ImportedPrimaryEntries \in Table
  BY ArrayTyped DEF ImportedPrimaryEntries
<1>5. ExtentsSound(ImportedPrimaryEntries, ImportedPrimary.first_usable_lba,
                   ImportedPrimary.last_usable_lba)
  BY DEF PrimarySound
<1>6. ExtentsSound(t.primary_entries, t.primary.first_usable_lba, t.primary.last_usable_lba)
  BY <1>3, <1>5
<1>7. TableSound(t)
  BY <1>1, <1>3, <1>4, <1>6, Zenon DEF TableSound
<1>8. EndOf(t) = ImportedPrimary.backup_lba
  BY <1>3 DEF EndOf
<1> QED
  BY <1>3, <1>7, <1>8

\* Where the parts of a table are that init began to export.
LEMMA PrimaryPlaces ==
  ASSUME SectorsTyped, PrimarySound
  PROVE  /\ ImportedPrimary.backup_lba \in Nat /\ ArraySectors \in Nat \ {0}
         /\ 2 * ArraySectors + 2 <= ImportedPrimary.backup_lba
         /\ ImportedPrimary.first_usable_lba = 2 + ArraySectors
         /\ ImportedPrimary.last_usable_lba = ImportedPrimary.backup_lba - ArraySectors - 1
         /\ ImportedPrimary.partition_entry_count = EntryCount
         /\ ImportedPrimaryEntries \in Table
         /\ \A x \in 0..ImportedPrimary.backup_lba : x \in DOMAIN disk
         /\ \A i \in Indices :
              /\ ImportedPrimaryEntries[i].first_lba \in Nat
              /\ ImportedPrimaryEntries[i].last_lba \in Nat
              /\ IsUsed(ImportedPrimaryEntries[i]) =>
                   /\ 2 + ArraySectors <= ImportedPrimaryEntries[i].first_lba
                   /\ ImportedPrimaryEntries[i].first_lba <= ImportedPrimaryEntries[i].last_lba
                   /\ ImportedPrimaryEntries[i].last_lba
                        <= ImportedPrimary.backup_lba - ArraySectors - 1
<1>1. PICK t : /\ TableSound(t) /\ t.primary = ImportedPrimary
               /\ t.primary_entries = ImportedPrimaryEntries
               /\ EndOf(t) = ImportedPrimary.backup_lba
  BY PrimaryTable
<1>2. /\ EndOf(t) \in Nat /\ 2 * ArraySectors + 2 <= EndOf(t)
      /\ t.primary.first_usable_lba = 2 + ArraySectors
      /\ t.primary.last_usable_lba = EndOf(t) - ArraySectors - 1
      /\ t.primary.partition_entry_count = EntryCount
  BY <1>1, SoundTable
<1>3. \A i \in Indices :
         /\ t.primary_entries[i].first_lba \in Nat /\ t.primary_entries[i].last_lba \in Nat
         /\ IsUsed(t.primary_entries[i]) =>
              /\ 2 + ArraySectors <= t.primary_entries[i].first_lba
              /\ t.primary_entries[i].first_lba <= t.primary_entries[i].last_lba
              /\ t.primary_entries[i].last_lba <= EndOf(t) - ArraySectors - 1
  BY <1>1, SoundExtents
<1>4. \A x \in 0..ImportedPrimary.backup_lba : x \in DOMAIN disk
  BY DEF PrimarySound
<1>5. ImportedPrimaryEntries \in Table
  BY ArrayTyped DEF ImportedPrimaryEntries
<1> QED
  BY <1>1, <1>2, <1>3, <1>4, <1>5, EntryPlace

\* What import takes for its backup header has no entries.
LEMMA HalfMadeParts ==
  ASSUME NEW l, HalfMade(l)
  PROVE  /\ SectorsTyped /\ PrimarySound /\ NoBackup(l) /\ ImportedBackup = InitHeader
         /\ l \in Nat /\ ArraySectors \in Nat \ {0} /\ 2 * ArraySectors + 2 <= l
         /\ 0 \in DOMAIN disk /\ 1 \in DOMAIN disk /\ l \in DOMAIN disk
         /\ ImportedPrimary = disk[1].header /\ ImportedPrimaryEntries = ArrayAt(2)
         /\ IsHeaderSector(disk[1]) /\ disk[1].kind = "header"
         /\ BackupLba = l /\ IsHeaderSector(BackupSector)
         /\ BackupSector.kind = "header" /\ BackupSector.header = InitHeader
<1>1. /\ SectorsTyped /\ PrimarySound /\ NoBackup(l) /\ l = ImportedPrimary.backup_lba
      /\ Holds(1, "header")
  BY DEF HalfMade, ImageInv
<1>2. /\ l \in Nat /\ ArraySectors \in Nat \ {0} /\ 2 * ArraySectors + 2 <= l
      /\ \A x \in 0..l : x \in DOMAIN disk
  BY <1>1, PrimaryPlaces
<1>3. 0 \in DOMAIN disk /\ 1 \in DOMAIN disk /\ l \in DOMAIN disk
  BY <1>2
<1>4. ImportedPrimary = disk[1].header /\ disk[1].kind = "header"
  BY <1>1 DEF ImportedPrimary, HeaderAt, Holds
<1>5. HeaderAt(l) = InitHeader
  BY <1>1 DEF NoBackup, HeaderAt, Holds
<1>6. ImportedBackup = InitHeader
  BY <1>1, <1>5 DEF ImportedBackup
<1>7. BackupLba = l
  BY <1>1, <1>4 DEF BackupLba
<1>8. IsHeaderSector(BackupSector) /\ BackupSector.kind = "header"
      /\ BackupSector.header = InitHeader
  <2>1. CASE Holds(l, "header")
    <3>1. BackupSector = disk[l] /\ disk[l].kind = "header"
      BY <1>7, <2>1 DEF BackupSector, Holds
    <3>2. IsHeaderSector(disk[l])
      BY <1>1, <1>3, <3>1 DEF SectorsTyped
    <3>3. disk[l].header = InitHeader
      BY <1>5, <2>1 DEF HeaderAt
    <3> QED
      BY <3>1, <3>2, <3>3
  <2>2. CASE ~Holds(l, "header")
    <3>1. BackupSector = HeaderSector(InitHeader)
      BY <1>5, <1>7, <2>2 DEF BackupSector
    <3> QED
      BY <3>1, BareHeader
  <2> QED
    BY <2>1, <2>2
<1>9. IsHeaderSector(disk[1])
  BY <1>1, <1>3, <1>4 DEF SectorsTyped
<1> QED
  BY <1>1, <1>2, <1>3, <1>4, <1>6, <1>7, <1>8, <1>9 DEF ImportedPrimaryEntries

\* It stays what it is.
LEMMA HalfMadeStays ==
  ASSUME NEW l, HalfMade(l), HalfKept(l)
  PROVE  /\ ImageInv' /\ HalfMade(l)'
         /\ ImportedPrimary' = ImportedPrimary /\ ImportedBackup' = ImportedBackup
         /\ ImportedPrimaryEntries' = ImportedPrimaryEntries
<1>1. /\ PrimarySound /\ ImportedPrimary = disk[1].header /\ ImportedBackup = InitHeader
      /\ l = ImportedPrimary.backup_lba /\ ImportedPrimaryEntries = ArrayAt(2)
  BY HalfMadeParts DEF HalfMade
<1>2. /\ DOMAIN disk' = DOMAIN disk /\ SectorsTyped'
      /\ Holds(1, "header")' /\ disk'[1].header = disk[1].header
      /\ ArrayAt(2)' = ArrayAt(2) /\ NoBackup(l)'
      /\ ~Holds(0, "fs")' /\ (Holds(0, "header")' => disk'[0] = HeaderSector(InitHeader))
  BY DEF HalfKept
<1>3. ImportedPrimary' = ImportedPrimary /\ ImportedPrimaryEntries' = ImportedPrimaryEntries
  BY <1>1, <1>2 DEF ImportedPrimary, HeaderAt, ImportedPrimaryEntries
<1>4. ImportedBackup' = InitHeader
  BY <1>1, <1>2, <1>3 DEF ImportedBackup, HeaderAt, NoBackup, Holds
<1>5. ~IsWhole'
  BY <1>4 DEF IsWhole
<1>6. PrimarySound'
  BY <1>1, <1>2, <1>3 DEF PrimarySound
<1>7. WholeImage'
  BY <1>2 DEF WholeImage, HalfMade, ImageInv
<1>8. NoBackup(ImportedPrimary.backup_lba)'
  BY <1>1, <1>2, <1>3
<1>9. ImageInv'
  BY <1>2, <1>5, <1>6, <1>7, <1>8 DEF ImageInv
<1> QED
  BY <1>1, <1>2, <1>3, <1>4, <1>5, <1>9 DEF HalfMade

\* A write elsewhere.
LEMMA HalfMadeElsewhere ==
  ASSUME NEW l, HalfMade(l), NEW s, Rewrites(s), s \in DOMAIN disk, SectorsTyped',
         s \notin {0, 1, l} \cup 2..(1 + ArraySectors)
  PROVE  HalfKept(l)
<1>1. /\ disk[1].kind = "header" /\ NoBackup(l) /\ ArraySectors \in Nat
      /\ 0 \in DOMAIN disk /\ 1 \in DOMAIN disk /\ l \in DOMAIN disk
  BY HalfMadeParts
<1>2. DOMAIN disk' = DOMAIN disk /\ disk'[0] = disk[0] /\ disk'[1] = disk[1] /\ disk'[l] = disk[l]
  BY <1>1 DEF Rewrites
<1>3. s \notin 2..(2 + ArraySectors - 1)
  BY <1>1
<1>4. ArrayAt(2)' = ArrayAt(2)
  BY <1>3, RewriteBeside
<1>5. ~Holds(0, "fs") /\ (Holds(0, "header") => disk[0] = HeaderSector(InitHeader))
  BY DEF HalfMade, ImageInv
<1> QED
  BY <1>1, <1>2, <1>4, <1>5 DEF HalfKept, Holds, NoBackup

\* A header put where there is one already, or none but zeros.
LEMMA HalfMadeHeader ==
  ASSUME NEW l, HalfMade(l), NEW s, NEW sector, Put(s, sector),
         IsHeaderSector(sector), sector.kind = "header",
         \/ s = 1 /\ sector.header = disk[1].header
         \/ s = l /\ sector.header = InitHeader
         \/ s = 0 /\ sector = HeaderSector(InitHeader)
  PROVE  UNCHANGED vars /\ HalfKept(l) /\ Rewrites(s)
<1>1. /\ disk[1].kind = "header" /\ NoBackup(l) /\ ArraySectors \in Nat \ {0} /\ SectorsTyped
      /\ 0 \in DOMAIN disk /\ 1 \in DOMAIN disk /\ l \in DOMAIN disk
      /\ l \in Nat /\ 2 * ArraySectors + 2 <= l
  BY HalfMadeParts
<1>2. s \in {0, 1, l} /\ 0 # l /\ 1 # l /\ s \notin 2..(2 + ArraySectors - 1)
  BY <1>1
<1>3. disk' = [disk EXCEPT ![s] = sector] /\ UNCHANGED vars
  BY DEF Put
<1>4. /\ DOMAIN disk' = DOMAIN disk /\ disk'[s] = sector
      /\ \A x \in DOMAIN disk : x # s => disk'[x] = disk[x]
  BY <1>1, <1>2, <1>3
<1>5. Rewrites(s)
  BY <1>1, <1>2, <1>4 DEF Rewrites
<1>6. SectorsTyped'
  BY <1>1, <1>4 DEF SectorsTyped
<1>7. ArrayAt(2)' = ArrayAt(2)
  BY <1>2, <1>5, RewriteBeside
<1>8. Holds(1, "header")' /\ disk'[1].header = disk[1].header
  BY <1>1, <1>2, <1>4 DEF Holds
<1>9. NoBackup(l)'
  BY <1>1, <1>2, <1>4 DEF NoBackup, Holds
<1>10. ~Holds(0, "fs")' /\ (Holds(0, "header")' => disk'[0] = HeaderSector(InitHeader))
  <2>1. ~Holds(0, "fs") /\ (Holds(0, "header") => disk[0] = HeaderSector(InitHeader))
    BY DEF HalfMade, ImageInv
  <2> QED
    BY <1>1, <1>2, <1>4, <2>1 DEF Holds
<1> QED
  BY <1>3, <1>4, <1>5, <1>6, <1>7, <1>8, <1>9, <1>10 DEF HalfKept

\* An entry of the primary array written with what it was.
LEMMA HalfMadeEntry ==
  ASSUME NEW l, HalfMade(l), io.i \in Indices, NEW e, e = ArrayAt(2)[io.i], PutEntry(2, e)
  PROVE  /\ UNCHANGED vars /\ HalfKept(l)
         /\ \E s \in 2..(1 + ArraySectors) : Rewrites(s)
<1> PICK i \in Indices : i = io.i
  OBVIOUS
<1> PICK s : s = 2 + i \div EntriesPerSector
  OBVIOUS
<1>1. /\ SectorsTyped /\ disk[1].kind = "header" /\ NoBackup(l) /\ PrimarySound
      /\ l \in Nat /\ ArraySectors \in Nat \ {0} /\ 2 * ArraySectors + 2 <= l
      /\ 0 \in DOMAIN disk /\ 1 \in DOMAIN disk /\ l \in DOMAIN disk
  BY HalfMadeParts
<1>2. i \div EntriesPerSector \in 0..(ArraySectors - 1) /\ i % EntriesPerSector \in Slots
  BY EntryPlace
<1>3. \A x \in 0..l : x \in DOMAIN disk
  BY <1>1, PrimaryPlaces DEF HalfMade
<1>4. s \in 2..(1 + ArraySectors) /\ s \in DOMAIN disk /\ s # 0 /\ s # 1 /\ s # l /\ s \in Int
  BY <1>1, <1>2, <1>3
<1>5. e \in Entry
  BY <1>1, ArrayTyped DEF Table
<1>6. /\ UNCHANGED vars /\ Rewrites(s) /\ DOMAIN disk' = DOMAIN disk /\ SectorsTyped'
      /\ EntriesAt(s) \in [Slots -> Entry]
      /\ EntriesAt(s)' = [EntriesAt(s) EXCEPT ![i % EntriesPerSector] = e]
  BY <1>1, <1>4, <1>5, EntryPut
<1>7. e = EntriesAt(s)[i % EntriesPerSector]
  BY DEF ArrayAt
<1>8. EntriesAt(s)' = EntriesAt(s)
  BY <1>2, <1>6, <1>7
<1>9. ArrayAt(2)' = ArrayAt(2)
  <2>1. ASSUME NEW n \in 0..(ArraySectors - 1)
        PROVE  EntriesAt(2 + n)' = EntriesAt(2 + n)
    <3>1. CASE 2 + n = s
      BY <1>8, <3>1
    <3>2. CASE 2 + n # s
      BY <1>6, <3>2, RewriteElsewhere
    <3> QED
      BY <3>1, <3>2
  <2> QED
    BY <2>1, SameArray
<1>10. disk'[0] = disk[0] /\ disk'[1] = disk[1] /\ disk'[l] = disk[l]
  BY <1>1, <1>4, <1>6 DEF Rewrites
<1>11. ~Holds(0, "fs") /\ (Holds(0, "header") => disk[0] = HeaderSector(InitHeader))
  BY DEF HalfMade, ImageInv
<1>12. HalfKept(l)
  BY <1>1, <1>6, <1>9, <1>10, <1>11 DEF HalfKept, Holds, NoBackup
<1> QED
  BY <1>4, <1>6, <1>12

\* What an export finds after an import of it, and what each step leaves.
HalfExporting(l) ==
  /\ HalfMade(l) /\ io \in [step : {"none"} \cup ExportSteps, i : Indices]
  /\ primary_header = ImportedPrimary /\ primary_entries = ImportedPrimaryEntries
  /\ backup_header = InitHeader /\ ~At("backup entries")

HalfExported(l) ==
  /\ UNCHANGED vars /\ HalfKept(l) /\ \E s \in {0} \cup TablePlaces(l) : Rewrites(s)
  /\ io' \in [step : {"none"} \cup ExportSteps, i : Indices]
  /\ io'.step # "backup entries" /\ (io'.step = "none" => io' = NoIo)

\* The backup header, which has no entries, goes to sector 0.
LEMMA HalfExport ==
  ASSUME NEW l, HalfExporting(l), ExportStep
  PROVE  HalfExported(l)
<1>1. /\ HalfMade(l) /\ io \in [step : {"none"} \cup ExportSteps, i : Indices]
      /\ primary_header = ImportedPrimary /\ primary_entries = ImportedPrimaryEntries
      /\ backup_header = InitHeader /\ io.step # "backup entries"
  BY DEF HalfExporting, At
<1>2. /\ primary_header = disk[1].header /\ primary_entries = ArrayAt(2)
      /\ IsHeaderSector(disk[1]) /\ disk[1].kind = "header"
      /\ BackupLba = l /\ IsHeaderSector(BackupSector)
      /\ BackupSector.kind = "header" /\ BackupSector.header = InitHeader
      /\ primary_header.partition_entry_count = EntryCount /\ EntryCount \in Nat \ {0}
  BY <1>1, HalfMadeParts, PrimaryPlaces, EntryCountAssumption
<1>3. ToBackup = "backup header" /\ ToPrimary = "primary entries" /\ BehindBackupEntries = 0
  <2>1. backup_header.partition_entry_count = 0 /\ backup_header.partition_entries_lba = 0
    BY <1>1 DEF InitHeader, InvalidLba
  <2>2. EntrySize = 128 /\ SectorSize = 512
    BY DEF EntrySize, SectorSize
  <2> QED
    BY <1>2, <2>1, <2>2 DEF ToBackup, ToPrimary, ToEntries, BehindBackupEntries
<1> DEFINE Step(next) == io' = [step |-> next, i |-> 0]
<1>4. ASSUME NEW s \in {0, 1, l}, UNCHANGED vars /\ HalfKept(l) /\ Rewrites(s),
             NEW next \in ExportSteps \ {"backup entries"}, Step(next)
      PROVE  HalfExported(l)
  <2>1. s \in {0} \cup TablePlaces(l)
    BY DEF TablePlaces
  <2>2. io' \in [step : {"none"} \cup ExportSteps, i : Indices]
    BY <1>4, InitTypes
  <2>3. io'.step = next /\ next # "none" /\ next # "backup entries"
    BY <1>4 DEF ExportSteps
  <2> QED
    BY <1>4, <2>1, <2>2, <2>3 DEF HalfExported
<1>5. CASE WritePrimaryHeader
  <2>1. Put(1, HeaderSector(primary_header)) /\ Step("primary entries")
    BY <1>3, <1>5 DEF WritePrimaryHeader, GoTo
  <2>2. UNCHANGED vars /\ HalfKept(l) /\ Rewrites(1)
    <3>1. PICK y : y = HeaderSector(primary_header)
      OBVIOUS
    <3>2. /\ IsHeaderSector(y) /\ y.kind = "header" /\ y.header = disk[1].header
          /\ Put(1, y)
      BY <1>2, <2>1, <3>1, BareHeader
    <3> QED
      BY <1>1, <3>2, HalfMadeHeader
  <2> QED
    BY <1>4, <2>1, <2>2 DEF ExportSteps
<1>6. CASE WritePrimaryEntry
  <2>1. PICK e : e = ArrayAt(2)[io.i]
    OBVIOUS
  <2>2. PutEntry(2, e) /\ NextEntryOr(EntryCount, "backup header") /\ io.step = "primary entries"
    BY <1>2, <1>3, <1>6, <2>1 DEF WritePrimaryEntry, At
  <2>3. UNCHANGED vars /\ HalfKept(l) /\ \E s \in 2..(1 + ArraySectors) : Rewrites(s)
    BY <1>1, <2>1, <2>2, HalfMadeEntry
  <2>4. \E s \in {0} \cup TablePlaces(l) : Rewrites(s)
    BY <2>3 DEF TablePlaces
  <2>5. PICK n \in Indices : io = [step |-> "primary entries", i |-> n]
    BY <1>1, <2>2
  <2>6. /\ io' \in [step : {"none"} \cup ExportSteps, i : Indices]
        /\ io'.step \in {"primary entries", "backup header"}
    <3>1. n \in 0..(EntryCount - 1)
      BY <2>5 DEF Indices
    <3>2. CASE n + 1 < EntryCount
      <4>1. io' = [step |-> "primary entries", i |-> n + 1]
        BY <2>2, <2>5, <3>2 DEF NextEntryOr
      <4>2. n + 1 \in Indices
        BY <1>2, <3>1, <3>2 DEF Indices
      <4> QED
        BY <4>1, <4>2 DEF ExportSteps
    <3>3. CASE ~(n + 1 < EntryCount)
      <4>1. io' = [step |-> "backup header", i |-> 0]
        BY <2>2, <2>5, <3>3 DEF NextEntryOr, GoTo
      <4> QED
        BY <4>1, InitTypes DEF ExportSteps
    <3> QED
      BY <3>2, <3>3
  <2> QED
    BY <2>3, <2>4, <2>6 DEF HalfExported
<1>7. CASE WriteBackupHeader
  <2>1. Put(0, HeaderSector(InitHeader)) /\ Step("primary entries sum")
    BY <1>1, <1>3, <1>7 DEF WriteBackupHeader, GoTo
  <2>2. UNCHANGED vars /\ HalfKept(l) /\ Rewrites(0)
    BY <1>1, <2>1, BareHeader, HalfMadeHeader
  <2> QED
    BY <1>4, <2>1, <2>2 DEF ExportSteps
<1>8. ASSUME NEW x, IsHeaderSector(x), x.kind = "header", NEW v
      PROVE  /\ IsHeaderSector([x EXCEPT !.entries_sum = v])
             /\ [x EXCEPT !.entries_sum = v].kind = "header"
             /\ [x EXCEPT !.entries_sum = v].header = x.header
             /\ IsHeaderSector([x EXCEPT !.sum = v])
             /\ [x EXCEPT !.sum = v].kind = "header"
             /\ [x EXCEPT !.sum = v].header = x.header
  <2>1. x = [kind |-> "header", header |-> x.header, entries_sum |-> x.entries_sum, sum |-> x.sum]
    BY <1>8 DEF IsHeaderSector
  <2> QED
    BY <2>1 DEF IsHeaderSector
<1>9. CASE WritePrimaryEntriesSum
  <2>1. PICK v : v = {ArrayAt(2)}
    OBVIOUS
  <2>2. Put(1, [disk[1] EXCEPT !.entries_sum = v]) /\ Step("backup entries sum")
    BY <1>9, <2>1 DEF WritePrimaryEntriesSum, GoTo
  <2>3. UNCHANGED vars /\ HalfKept(l) /\ Rewrites(1)
    <3>1. PICK y : y = [disk[1] EXCEPT !.entries_sum = v]
      OBVIOUS
    <3>2. /\ IsHeaderSector(y) /\ y.kind = "header" /\ y.header = disk[1].header
          /\ Put(1, y)
      BY <1>2, <1>8, <2>2, <3>1
    <3> QED
      BY <1>1, <3>2, HalfMadeHeader
  <2> QED
    BY <1>4, <2>2, <2>3 DEF ExportSteps
<1>10. CASE WriteBackupEntriesSum
  <2>1. PICK v : v = {ArrayAt(BackupLba - ArraySectors)}
    OBVIOUS
  <2>2. PICK x : x = BackupSector
    OBVIOUS
  <2>3. Put(l, [x EXCEPT !.entries_sum = v]) /\ Step("primary sum")
    BY <1>2, <1>10, <2>1, <2>2 DEF WriteBackupEntriesSum, GoTo
  <2>4. UNCHANGED vars /\ HalfKept(l) /\ Rewrites(l)
    BY <1>1, <1>2, <1>8, <2>2, <2>3, HalfMadeHeader
  <2> QED
    BY <1>4, <2>3, <2>4 DEF ExportSteps
<1>11. CASE WritePrimarySum
  <2>1. PICK v : v = HeaderSum(disk[1])
    OBVIOUS
  <2>2. Put(1, [disk[1] EXCEPT !.sum = v]) /\ Step("backup sum")
    BY <1>11, <2>1 DEF WritePrimarySum, GoTo
  <2>3. UNCHANGED vars /\ HalfKept(l) /\ Rewrites(1)
    <3>1. PICK y : y = [disk[1] EXCEPT !.sum = v]
      OBVIOUS
    <3>2. /\ IsHeaderSector(y) /\ y.kind = "header" /\ y.header = disk[1].header
          /\ Put(1, y)
      BY <1>2, <1>8, <2>2, <3>1
    <3> QED
      BY <1>1, <3>2, HalfMadeHeader
  <2> QED
    BY <1>4, <2>2, <2>3 DEF ExportSteps
<1>12. CASE WriteBackupSum
  <2>1. PICK x : x = BackupSector
    OBVIOUS
  <2>2. PICK v : v = HeaderSum(x)
    OBVIOUS
  <2>3. Put(l, [x EXCEPT !.sum = v]) /\ io' = NoIo
    BY <1>2, <1>12, <2>1, <2>2 DEF WriteBackupSum
  <2>4. UNCHANGED vars /\ HalfKept(l) /\ Rewrites(l)
    BY <1>1, <1>2, <1>8, <2>1, <2>3, HalfMadeHeader
  <2>5. io' \in [step : {"none"} \cup ExportSteps, i : Indices] /\ io'.step = "none"
    BY <2>3, InitTypes DEF NoIo
  <2>6. l \in {0} \cup TablePlaces(l)
    BY DEF TablePlaces
  <2> QED
    BY <2>3, <2>4, <2>5, <2>6 DEF HalfExported
<1>13. ~WriteBackupEntry
  BY <1>1 DEF WriteBackupEntry, At
<1> QED
  BY <1>5, <1>6, <1>7, <1>9, <1>10, <1>11, <1>12, <1>13 DEF ExportStep

\* It leaves the partitions alone.
LEMMA HalfPartitionKept ==
  ASSUME NEW l, HalfMade(l), NEW s \in {0} \cup TablePlaces(l), Rewrites(s),
         NEW i \in Indices, NEW n \in Nat, HasRoom(ImportedPrimaryEntries[i], n)
  PROVE  SectorsKept(ImportedPrimaryEntries[i], n)
<1>1. PICK e : e = ImportedPrimaryEntries[i]
  OBVIOUS
<1>2. /\ l \in Nat /\ 2 * ArraySectors + 2 <= l /\ ArraySectors \in Nat \ {0}
      /\ \A x \in 0..l : x \in DOMAIN disk
      /\ e.first_lba \in Nat /\ e.last_lba \in Nat
      /\ IsUsed(e) => /\ 2 + ArraySectors <= e.first_lba
                      /\ e.last_lba <= l - ArraySectors - 1
  BY <1>1, HalfMadeParts, PrimaryPlaces DEF HalfMade
<1>3. IsUsed(e) /\ n <= e.last_lba - e.first_lba + 1
  BY <1>1 DEF HasRoom
<1>4. ASSUME NEW m \in 0..(n - 1)
      PROVE  disk'[e.first_lba + m] = disk[e.first_lba + m]
  <2>1. e.first_lba + m \in 0..l /\ e.first_lba + m \notin {0} \cup TablePlaces(l)
    BY <1>2, <1>3 DEF TablePlaces
  <2> QED
    BY <1>2, <2>1 DEF Rewrites
<1> QED
  BY <1>1, <1>4 DEF SectorsKept
=============================================================================
