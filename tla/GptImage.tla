------------------------------ MODULE GptImage ------------------------------
(****************************************************************************)
(* The table of Gpt on a disk image: bootable_gpt_export as the writes it   *)
(* makes, one step each, so that it can be torn between any two of them,    *)
(* and bootable_gpt_import as what it reads back.                           *)
(*                                                                          *)
(* A CRC is the set that holds what was summed, or the empty set where the  *)
(* field is zero: two different contents never have the same sum.           *)
(*                                                                          *)
(* Nothing looks at the signature of a header, which therefore is no part   *)
(* of one: import reads whatever the sectors hold.                          *)
(****************************************************************************)
EXTENDS Gpt

CONSTANTS RawHeader,    \* what the bytes of something else are as a header,
          RawEntry      \*   and as an entry

\* Any bytes are some header and some entry.
ASSUME RawAssumption == RawHeader \in Header /\ RawEntry \in Entry

VARIABLES disk,   \* what each sector of the image holds
          io      \* where bootable_gpt_export has got to

imageVars == <<vars, disk, io>>

EntriesPerSector == SectorSize \div EntrySize
Slots == 0..(EntriesPerSector - 1)
ArraySectors == TableBytes \div SectorSize

(* -- Sectors --------------------------------------------------------------- *)

Blank == [kind |-> "blank"]
NoSum == {}
HeaderSector(h) == [kind |-> "header", header |-> h, entries_sum |-> NoSum, sum |-> NoSum]
EntriesSector(es) == [kind |-> "entries", entries |-> es]
Holds(lba, kind) == lba \in DOMAIN disk /\ disk[lba].kind = kind

\* A sector read as a header.  Zeros are what bootable_gpt_header_init fills
\* one in with.
HeaderAt(lba) == IF Holds(lba, "header") THEN disk[lba].header
                 ELSE IF Holds(lba, "blank") THEN InitHeader ELSE RawHeader

\* And read as entries, where zeros are those of bootable_gpt_entry_init.
EntriesAt(lba) == IF Holds(lba, "entries") THEN disk[lba].entries
                  ELSE [s \in Slots |-> IF Holds(lba, "blank") THEN InitEntry ELSE RawEntry]

\* The array of entries that begins in a sector.
ArrayAt(lba) == [i \in Indices |->
                   EntriesAt(lba + i \div EntriesPerSector)[i % EntriesPerSector]]

(* -- bootable_gpt_export --------------------------------------------------- *)

NoIo == [step |-> "none", i |-> 0]
At(step) == io.step = step
GoTo(step) == io' = [step |-> step, i |-> 0]

\* A write leaves the table in memory as it is.
Put(lba, sector) == /\ disk' = [disk EXCEPT ![lba] = sector]
                    /\ UNCHANGED vars

\* A loop over no entries writes none.
ToEntries(count, step, next) == IF count = 0 THEN next ELSE step
ToBackup == ToEntries(backup_header.partition_entry_count, "backup entries", "backup header")
ToPrimary == ToEntries(primary_header.partition_entry_count, "primary entries", ToBackup)

BeginExport == /\ Ready /\ At("none")
               /\ GoTo("primary header")
               /\ UNCHANGED <<vars, disk>>

\* Mutant: the sums of the last export are left in the sector.
WritePrimaryHeaderKeepSums ==
  /\ At("primary header")
  /\ Put(1, IF Holds(1, "header") THEN [disk[1] EXCEPT !.header = primary_header]
            ELSE HeaderSector(primary_header))
  /\ GoTo(ToPrimary)
\* Both sums are written as zero, and so is the rest of the sector.
WritePrimaryHeader == /\ At("primary header")
                      /\ Put(1, HeaderSector(primary_header))
                      /\ GoTo(ToPrimary)

\* The next entry of an array, whose first sector is lba.
PutEntry(lba, e) ==
  LET sector == lba + io.i \div EntriesPerSector
  IN Put(sector, EntriesSector([EntriesAt(sector) EXCEPT ![io.i % EntriesPerSector] = e]))

\* Mutants: one entry too many, and a loop that does not advance.
NextEntryToCount(count, step) == IF io.i < count THEN io' = [io EXCEPT !.i = @ + 1]
                                 ELSE GoTo(step)
SameEntryOr(count, step) == IF io.i + 1 < count THEN UNCHANGED io ELSE GoTo(step)
NextEntryOr(count, step) == IF io.i + 1 < count THEN io' = [io EXCEPT !.i = @ + 1]
                            ELSE GoTo(step)

\* The entries follow the header: the position is not set again.
\* Mutant: the last entry is not written.
WritePrimaryEntryButLast ==
  /\ At("primary entries")
  /\ PutEntry(2, primary_entries[io.i])
  /\ NextEntryOr(primary_header.partition_entry_count - 1, ToBackup)
WritePrimaryEntry ==
  /\ At("primary entries")
  /\ PutEntry(2, primary_entries[io.i])
  /\ NextEntryOr(primary_header.partition_entry_count, ToBackup)

WriteBackupEntry ==
  /\ At("backup entries")
  /\ PutEntry(backup_header.partition_entries_lba, backup_entries[io.i])
  /\ NextEntryOr(backup_header.partition_entry_count, "backup header")

\* The backup header follows the entries in front of it, however many.
BehindBackupEntries == backup_header.partition_entries_lba
                         + (backup_header.partition_entry_count * EntrySize) \div SectorSize

WriteBackupHeader ==
  /\ At("backup header")
  /\ Put(BehindBackupEntries, HeaderSector(backup_header))
  /\ GoTo("primary entries sum")

\* The sums are taken of what the image holds, which the code reads again.
WritePrimaryEntriesSum ==
  /\ At("primary entries sum")
  /\ Put(1, [disk[1] EXCEPT !.entries_sum = {ArrayAt(2)}])
  /\ GoTo("backup entries sum")

\* Where the backup header is, the primary header on the image says.
BackupLba == disk[1].header.backup_lba

\* The sector there, even a blank one, is summed as a header.
BackupSector == IF Holds(BackupLba, "header") THEN disk[BackupLba]
                ELSE HeaderSector(HeaderAt(BackupLba))

WriteBackupEntriesSum ==
  /\ At("backup entries sum")
  /\ Put(BackupLba, [BackupSector EXCEPT
                       !.entries_sum = {ArrayAt(BackupLba - ArraySectors)}])
  /\ GoTo("primary sum")

\* A header is summed with the sum it holds already.  What is then summed is
\* the content of no header, unless that sum is zero.
SumOverSum == {[over |-> "a sum"]}
HeaderSum(sector) ==
  IF sector.sum = NoSum THEN {[header |-> sector.header, entries_sum |-> sector.entries_sum]}
  ELSE SumOverSum

WritePrimarySum == /\ At("primary sum")
                   /\ Put(1, [disk[1] EXCEPT !.sum = HeaderSum(disk[1])])
                   /\ GoTo("backup sum")

\* Mutant: the backup header gets the sum of the primary one.
WritePrimarySumTwice ==
  /\ At("backup sum")
  /\ Put(BackupLba, [BackupSector EXCEPT !.sum = disk[1].sum])
  /\ io' = NoIo
WriteBackupSum ==
  /\ At("backup sum")
  /\ Put(BackupLba, [BackupSector EXCEPT !.sum = HeaderSum(BackupSector)])
  /\ io' = NoIo

ExportStep == \/ WritePrimaryHeader \/ WritePrimaryEntry
              \/ WriteBackupEntry \/ WriteBackupHeader
              \/ WritePrimaryEntriesSum \/ WriteBackupEntriesSum
              \/ WritePrimarySum \/ WriteBackupSum

(* -- bootable_gpt_import --------------------------------------------------- *)

\* The four parts, each found by the one before it.
ImportedPrimary == HeaderAt(1)
ImportedPrimaryEntries == ArrayAt(2)
ImportedBackup == HeaderAt(ImportedPrimary.backup_lba)

\* A read fails behind the end of the image, and nowhere else.
CanImport == {1, ImportedPrimary.backup_lba}
               \cup UNION {{2 + s, ImportedBackup.partition_entries_lba + s} :
                             s \in 0..(ArraySectors - 1)} \subseteq DOMAIN disk

\* Neither signatures nor checksums are looked at.
Import == /\ Idle /\ CanImport
          /\ primary_header' = ImportedPrimary
          /\ primary_entries' = ImportedPrimaryEntries
          /\ backup_header' = ImportedBackup
          /\ backup_entries' = ArrayAt(ImportedBackup.partition_entries_lba)
          /\ disk_size' = Cardinality(DOMAIN disk) * SectorSize
          /\ ret' = "ok"
          /\ UNCHANGED <<pc, scan, disk, io>>

(* -- What the image holds -------------------------------------------------- *)

\* What an import would read of the image, and what is in memory.
OnImage == [primary |-> ImportedPrimary, backup |-> ImportedBackup,
            primary_entries |-> ImportedPrimaryEntries,
            backup_entries |-> ArrayAt(ImportedBackup.partition_entries_lba)]

InMemory == [primary |-> primary_header, backup |-> backup_header,
             primary_entries |-> primary_entries, backup_entries |-> backup_entries]

\* The sums a header holds are those of the header and of its array.
EntriesSumRight(sector) ==
  sector.entries_sum = {ArrayAt(sector.header.partition_entries_lba)}
HeaderSumRight(sector) == sector.sum = HeaderSum([sector EXCEPT !.sum = NoSum])
=============================================================================
