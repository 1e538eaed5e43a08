---------------------------- MODULE UtilInvariant ----------------------------
(****************************************************************************)
(* Why an image stays usable: the inductive invariant of Util, from which   *)
(* its properties follow.  It says, for each place of a script, what is in  *)
(* memory and how far the image has been written.                           *)
(****************************************************************************)
EXTENDS Util, GptAllocator

\* The stages fit: bootable.sys into the room the utility is built with, and
\* the count of its sectors into the 16 bits it has.
ASSUME StagesFitAssumption == StageTwoSize <= StageTwoRoom /\ SectorsOf(StageTwoSize) < 65536

\* The UUIDs that the utility writes down are UUIDs.
ASSUME TypesAreUuidsAssumption == {"stage two", "stage three", "file system", "other"} \subseteq Uuids

ASSUME NodesAssumption == IsFiniteSet(Nodes) /\ Boot \in Nodes /\ MaxArgs \in Nat

\* The file system does not outgrow its partition, which nothing in the code
\* sees to.
ASSUME FsFitsAssumption ==
  \A c \in Configs : c.fs_loader => 1 + Cardinality(Nodes) <= SectorsOf(c.fs_size)

\* An image ends with its last whole sector.
ASSUME WholeSectorsAssumption ==
  \A c \in Configs : (c.disk_size \div SectorSize) * SectorSize \in DiskSizes

(* -- Places of a script ---------------------------------------------------- *)

\* Where init sizes and fills what.
SizeStageTwo == 7
FillStageTwo == 8
SizeStageThree == 11
FillStageThree == 12
SizeFs == 15
FillFs == 17

Making == cmd.op = "init"
Using == Running /\ ~Making
\* The part of ls, cat, mkdir and cp that writes.
Saving == Using /\ config.fs_loader /\ place > Len(Script) - 2

(* -- A table ---------------------------------------------------------------- *)

\* A table that init may have made: format computed its headers, its
\* partitions are in the usable area and ascend, and any tree fits.
ExtentsSound(es, first, last) ==
  /\ \A i \in Indices : IF IsUsed(es[i])
                        THEN /\ first <= es[i].first_lba
                             /\ es[i].first_lba <= es[i].last_lba
                             /\ es[i].last_lba <= last
                        ELSE es[i].first_lba = InvalidLba
  /\ \A i, j \in Indices : IsUsed(es[i]) /\ IsUsed(es[j]) /\ i < j =>
                             es[i].last_lba < es[j].first_lba
  /\ IsUsed(es[FsEntry]) => Cardinality(Nodes) <= es[FsEntry].last_lba - es[FsEntry].first_lba

TableSound(t) ==
  /\ \E size \in DiskSizes :
       /\ t.primary = FormattedHeader(1, LastDiskLba(size), 2, size)
       /\ t.backup = FormattedHeader(LastDiskLba(size), 1, BackupEntriesLba(size), size)
  /\ t.primary_entries \in Table /\ t.backup_entries = t.primary_entries
  /\ ExtentsSound(t.primary_entries, t.primary.first_usable_lba, t.primary.last_usable_lba)

(* -- The image --------------------------------------------------------------- *)

\* The fields of a sector that holds a header.
IsHeaderSector(x) == x = [kind |-> "header", header |-> x.header,
                          entries_sum |-> x.entries_sum, sum |-> x.sum]

SectorsTyped ==
  \A s \in DOMAIN disk :
    /\ disk[s].kind = "header" => IsHeaderSector(disk[s])
    /\ disk[s].kind = "entries" => disk[s].entries \in [Slots -> Entry]
    /\ disk[s].kind = "fs" => disk[s].tree \subseteq Nodes

ImageSectors(c) == 0..(c.disk_size \div SectorSize - 1)
WholeImage == DOMAIN disk = {} \/ \E c \in Configs : DOMAIN disk = ImageSectors(c)

\* The sectors of an image with a place in its table, but for the partitions.
TableSectorsOf(c) == {s \in ImageSectors(c) \ {0} : \/ s < FirstUsableLba
                                                   \/ s > LastUsableLba(c.disk_size)}

\* A table was exported to the end: its last part, the backup header, is one.
IsWhole == /\ Holds(1, "header") /\ Holds(ImportedPrimary.backup_lba, "header")
           /\ ImportedBackup # InitHeader

\* What init left in the place of a backup header that it did not come to:
\* zeros, or zeros that later commands have summed.
NoBackup(lba) == Holds(lba, "blank") \/ (Holds(lba, "header") /\ disk[lba].header = InitHeader)

\* A table that init began to export, which is sound as far as it goes.
PrimarySound ==
  /\ \E size \in DiskSizes : ImportedPrimary = FormattedHeader(1, LastDiskLba(size), 2, size)
  /\ ExtentsSound(ImportedPrimaryEntries, ImportedPrimary.first_usable_lba,
                  ImportedPrimary.last_usable_lba)
  /\ 0..ImportedPrimary.backup_lba \subseteq DOMAIN disk

NoStaleSum(sector) == /\ sector.entries_sum # NoSum => EntriesSumRight(sector)
                      /\ sector.sum # NoSum => HeaderSumRight(sector)
SumsComplete == \A lba \in Headers : EntriesSumRight(disk[lba]) /\ HeaderSumRight(disk[lba])

(* What can be imported, which is any image with its sectors: without a     *)
(* primary header its table is empty, with one and no backup header it is   *)
(* sound as far as it goes, and with both it is sound.                      *)
ImageInv ==
  /\ SectorsTyped /\ WholeImage
  /\ ~Holds(0, "fs") /\ (Holds(0, "header") => disk[0] = HeaderSector(InitHeader))
  /\ ~Holds(1, "header") =>
       \A s \in 1..(1 + ArraySectors) : s \in DOMAIN disk => disk[s] = Blank
  /\ Holds(1, "header") =>
       PrimarySound /\ (NoBackup(ImportedPrimary.backup_lba) \/ IsWhole)
  /\ IsWhole => /\ TableSound(OnImage)
                /\ Holds(0, "boot")
                /\ \A lba \in Headers : NoStaleSum(disk[lba])

\* The first n sectors of a partition hold what belongs there.
Filled(e, what, n) == \A m \in 0..(n - 1) : disk[e.first_lba + m] = Data(what, m)
TreeFilled(e, t, n) == \A m \in 0..(n - 1) : disk[e.first_lba + m] = Chunk(t, m)
\* A used entry has so many sectors.
HasRoom(e, n) == IsUsed(e) /\ n <= e.last_lba - e.first_lba + 1

\* Sector 0 leads to partitions that hold the stages.
BootSound(es, c) ==
  /\ disk[0].st2dap = [sector |-> es[0].first_lba, sector_count |-> SectorsOf(StageTwoSize)]
  /\ disk[0].st3dap.sector = es[1].first_lba
  /\ HasRoom(es[0], SectorsOf(StageTwoSize)) /\ HasRoom(es[1], SectorsOf(StageThreeSize(c)))
  /\ Filled(es[0], "stage two", SectorsOf(StageTwoSize))
  /\ Filled(es[1], "stage three", SectorsOf(StageThreeSize(c)))

LayoutInv ==
  layout # {} =>
    /\ IsWhole /\ layout = {OnImage}
    /\ BootSound(ImportedPrimaryEntries, made)
    /\ made.fs_loader <=> IsUsed(ImportedPrimaryEntries[FsEntry])
    /\ made.fs_loader /\ ~unsaved => TreeFilled(ImportedPrimaryEntries[FsEntry], saved, StreamLength(saved))
    /\ ~made.fs_loader => SumsComplete

(* -- What is in memory -------------------------------------------------------- *)

ControlInv ==
  /\ config \in Configs /\ made \in Configs /\ cmd \in Commands \cup {NoCommand}
  /\ place \in 0..(Len(Script) + 1) /\ (Running <=> place > 0) /\ k \in Nat
  /\ tree \subseteq Nodes /\ saved \subseteq Nodes /\ unsaved \in BOOLEAN
  /\ exit \in {"none", "success", "failure"}
  /\ IF Calls("export") /\ k # 0 THEN io.step # "none" ELSE io = NoIo
  /\ pc = "scan" => Calls("size")

NothingInMemory == ~Running \/ (Making /\ place <= 4) \/ (Using /\ place # 2 /\ ~Saving)
ImportedInMemory == (Using /\ place = 2) \/ Saving

\* The partitions that init has made so far.
Granted ==
  /\ Used \subseteq {0, 1, 2}
  /\ 0 \in Used <=> place > SizeStageTwo
  /\ 1 \in Used <=> place > SizeStageThree
  /\ 2 \in Used <=> config.fs_loader /\ place > SizeFs
  /\ 0 \in Used => HasRoom(primary_entries[0], SectorsOf(StageTwoSize))
  /\ 1 \in Used => HasRoom(primary_entries[1], SectorsOf(StageThreeSize(config)))
  /\ 2 \in Used => HasRoom(primary_entries[2], 1 + Cardinality(Nodes))
  /\ \A i \in DOMAIN primary_entries \ Used : primary_entries[i].first_lba = InvalidLba
  /\ IF pc = "scan" THEN k = 1 /\ scan.index = Call.entry /\ scan.size = Call.bytes
     ELSE Calls("size") => k \in {0, 1}

MemoryInv ==
  /\ NothingInMemory => Init
  /\ ImportedInMemory => /\ DOMAIN disk # {}
                         /\ primary_header = ImportedPrimary
                         /\ primary_entries = ImportedPrimaryEntries
                         /\ backup_header = ImportedBackup /\ backup_header \in Header
                         /\ backup_entries \in Table
                         /\ IsWhole => InMemory = OnImage
                         /\ disk_size = Cardinality(DOMAIN disk) * SectorSize
                         /\ Idle /\ scan = NoScan /\ ret = "ok"
  /\ Making /\ place > 4 => /\ IInv /\ backup_entries # NoEntries
                            /\ disk_size = config.disk_size
                            /\ Granted

(* -- How far a command has come ------------------------------------------------ *)

\* Nothing has been written where the table goes.
NoTable == \A s \in TableSectorsOf(config) : s \in DOMAIN disk => disk[s] = Blank

MakingInv ==
  Making =>
    /\ place = 2 => DOMAIN disk = {}
    /\ place > 2 => DOMAIN disk = ImageSectors(config)
    /\ place > 1 => layout = {}
    /\ place > 1 /\ (place < Len(Script) \/ (place = Len(Script) /\ k = 0)) => NoTable
    /\ place > 3 => Holds(0, "boot")
    /\ place = FillStageTwo => /\ k < SectorsOf(StageTwoSize)
                               /\ Filled(primary_entries[0], "stage two", k)
    /\ place > FillStageTwo => Filled(primary_entries[0], "stage two", SectorsOf(StageTwoSize))
    /\ place = FillStageThree =>
         /\ k < SectorsOf(StageThreeSize(config))
         /\ Filled(primary_entries[1], "stage three", k)
    /\ place > FillStageThree => Filled(primary_entries[1], "stage three",
                                        SectorsOf(StageThreeSize(config)))
    /\ config.fs_loader /\ place = FillFs =>
         k < StreamLength(tree) /\ TreeFilled(primary_entries[FsEntry], tree, k)
    /\ config.fs_loader /\ place > FillFs =>
         TreeFilled(primary_entries[FsEntry], tree, StreamLength(tree))
    /\ place >= Len(Script) => disk[0] = UpdatedBootsector
    /\ place > Len(Script) => IsWhole /\ OnImage = InMemory

UsingInv ==
  Using =>
    /\ config.fs_loader /\ place > 2 =>
         Holds(1, "header") /\ IsUsed(ImportedPrimaryEntries[FsEntry])
    /\ ~Saving => ~changed
    /\ config.fs_loader /\ place = Len(Script) - 1 =>
         k < StreamLength(tree) /\ TreeFilled(ImportedPrimaryEntries[FsEntry], tree, k)
    /\ config.fs_loader /\ place > Len(Script) - 1 =>
         TreeFilled(ImportedPrimaryEntries[FsEntry], tree, StreamLength(tree))

\* The arrays have been written, the last one up to an entry.
Written(lba, es, n) == \A i \in Indices : i < n => ArrayAt(lba)[i] = es[i]
Unwritten(lba, n) == \A i \in Indices : i >= n => ArrayAt(lba)[i] = InitEntry

\* A new table is complete when its last part, the backup header, is there.
FreshExport ==
  /\ At("primary header") => NoTable
  /\ io.step \in {"primary entries", "backup entries", "backup header"} =>
       Holds(primary_header.backup_lba, "blank")
  /\ At("primary entries") => Written(2, primary_entries, io.i) /\ Unwritten(2, io.i)
  /\ io.step \in {"backup entries", "backup header"} => Written(2, primary_entries, EntryCount)
  /\ At("backup entries") => Written(backup_header.partition_entries_lba, backup_entries, io.i)
  /\ At("backup header") =>
       Written(backup_header.partition_entries_lba, backup_entries, EntryCount)
  /\ io.step \in {"primary entries sum", "backup entries sum", "primary sum", "backup sum"} =>
       IsWhole /\ OnImage = InMemory

\* The sums follow one another.
SumsSoFar ==
  /\ io.step \in {"primary entries", "backup entries", "backup header", "primary entries sum"} =>
       disk[1] = HeaderSector(primary_header)
  /\ io.step \in {"primary entries sum", "backup entries sum"} =>
       disk[BackupLba] = HeaderSector(backup_header)
  /\ io.step \in {"backup entries sum", "primary sum", "backup sum"} => EntriesSumRight(disk[1])
  /\ io.step \in {"primary sum", "backup sum"} => EntriesSumRight(disk[BackupLba])
  /\ io.step \in {"backup entries sum", "primary sum"} => disk[1].sum = NoSum
  /\ At("backup sum") => HeaderSumRight(disk[1])
  /\ io.step \in {"primary sum", "backup sum"} => disk[BackupLba].sum = NoSum

ExportSteps == {"primary header", "primary entries", "backup entries", "backup header",
                "primary entries sum", "backup entries sum", "primary sum", "backup sum"}

ExportInv ==
  /\ io \in [step : {"none"} \cup ExportSteps, i : Indices]
  /\ ~At("none") /\ Making => FreshExport
  /\ ~At("none") /\ (Making \/ IsWhole) => SumsSoFar
  /\ At("backup entries") => backup_header.partition_entry_count # 0
  /\ Running /\ place > Len(Script) /\ (Making \/ config.fs_loader) /\ IsWhole => SumsComplete

UtilInv == /\ ControlInv /\ ImageInv /\ LayoutInv /\ MemoryInv
           /\ MakingInv /\ UsingInv /\ ExportInv /\ ChecksumsComplete
=============================================================================
