-------------------------------- MODULE Util --------------------------------
(****************************************************************************)
(* The utility (src/util/util.c, src/util/pure64.c): one process at a time  *)
(* runs one command on the image.  init makes the image; ls, cat, mkdir and *)
(* cp open it, work on the file system in memory and save it again, all of  *)
(* it, whether anything changed or not.                                     *)
(*                                                                          *)
(* A command is a script of the calls it makes.  Every write it makes is a  *)
(* step, and between any two steps the process may be killed, or a call may *)
(* fail for a reason outside the program: Interrupt.  The writes of one     *)
(* process reach the image in their order.                                  *)
(****************************************************************************)
EXTENDS GptImage, Sequences

CONSTANTS Configs,        \* the configuration files: see ConfigsAssumption
          FixedName,      \* the names that the program gives to its own entries
          StageTwoRoom,   \* BOOTABLE_SIZE
          StageTwoSize,   \* the bytes of bootable.sys,
          LoaderSize,     \*   of fs-loader.sys,
          KernelSize,     \*   and of the kernel
          Nodes,          \* the files and directories there may be
          Boot,           \* the directory /boot
          MaxArgs         \* bound: the arguments of one mkdir

ASSUME ConfigsAssumption ==
  \A c \in Configs : /\ c.disk_size \in DiskSizes /\ c.fs_size \in Sizes
                     /\ c.fs_loader \in BOOLEAN
                     /\ c.partitions \in Seq(Names)

ASSUME FixedNameAssumption == FixedName \in Names

ASSUME StagesAssumption == {StageTwoRoom, StageTwoSize, LoaderSize, KernelSize} \subseteq Sizes \ {0}

VARIABLES config,   \* the configuration file, another one with each command
          cmd,      \* the command that runs
          place,    \* its place in its script
          k,        \* how far the call there has come
          tree,     \* util.fs: what the file system in memory holds
          exit,     \* how the last command ended, while none runs
          layout,   \* history: the table of the image, once init has ended,
          made,     \*   the configuration it was made with,
          saved,    \*   the tree of the last command that succeeded,
          unsaved,  \*   whether another tree has begun to be written since,
          changed   \*   and whether this process has changed the image

promises == <<layout, made, saved, unsaved>>
utilVars == <<imageVars, config, cmd, place, k, tree, exit, promises, changed>>

SectorsOf(bytes) == (bytes + (SectorSize - 1)) \div SectorSize

(* -- The scripts ----------------------------------------------------------- *)

\* Stands for the entry that bootable_gpt_find_unused_entry finds.
AnyUnused == -1

TypeAndName(entry, type, names) == <<[do |-> "type", entry |-> entry, type |-> type],
                                     [do |-> "name", entry |-> entry, names |-> names]>>
SizeAndData(entry, bytes, what, length) ==
  <<[do |-> "size", entry |-> entry, bytes |-> bytes],
    [do |-> "data", entry |-> entry, what |-> what, bytes |-> length]>>

\* The room for stage two is fixed when the utility is built.
StageTwo == TypeAndName(0, "stage two", {FixedName})
              \o SizeAndData(0, StageTwoRoom, "stage two", StageTwoSize)

StageThreeSize(c) == IF c.fs_loader THEN LoaderSize ELSE KernelSize

StageThree(c) == TypeAndName(1, "stage three", {FixedName})
                   \o SizeAndData(1, StageThreeSize(c), "stage three", StageThreeSize(c))

FileSystemIn(entry, c) ==
  TypeAndName(entry, "file system", {FixedName})
    \o <<[do |-> "size", entry |-> entry, bytes |-> c.fs_size],
         [do |-> "make", node |-> Boot], [do |-> "fs"]>>
\* Mutant: the entry of stage three is taken once more.
FileSystemInEntryOne(c) == IF c.fs_loader THEN FileSystemIn(1, c) ELSE <<>>
FileSystem(c) == IF c.fs_loader THEN FileSystemIn(2, c) ELSE <<>>

(* A partition of the configuration is given a type and a name, but no      *)
(* size.  The name is read where the text of the configuration was, which   *)
(* bootable_config_load has freed, so it may be any.                        *)
ConfigPartitions(c) ==
  [j \in 1..(2 * Len(c.partitions)) |-> TypeAndName(AnyUnused, "other", Names)[2 - (j % 2)]]

CreateDisk(c) ==
  <<[do |-> "open"], [do |-> "zero"], [do |-> "bootsector"], [do |-> "format"]>>
    \o StageTwo \o StageThree(c) \o FileSystem(c) \o ConfigPartitions(c)
    \o <<[do |-> "mbr"], [do |-> "export"]>>

OpenDisk == <<[do |-> "import"], [do |-> "import fs"]>>

SaveDisk(c) == IF c.fs_loader
               THEN <<[do |-> "import"], [do |-> "fs"], [do |-> "export"]>> ELSE <<>>

\* Mutant: what has been made so far is saved before the next is made.
MakeAndSaveEach(args) ==
  [j \in 1..(3 * Len(args)) |-> <<[do |-> "make", node |-> args[(j + 2) \div 3]],
                                 [do |-> "import"], [do |-> "fs"]>>[1 + ((j + 2) % 3)]]
\* mkdir makes each of its arguments, cp its second one.
Make(args) == [j \in 1..Len(args) |-> [do |-> "make", node |-> args[j]]]

\* ls and cat look for their arguments and change nothing.
Work(c) == IF c.op = "read" THEN <<[do |-> "look"]>> ELSE Make(c.args)

Script == IF cmd.op = "init" THEN CreateDisk(config)
          ELSE OpenDisk \o Work(cmd) \o SaveDisk(config)

(* -- Processes ------------------------------------------------------------- *)

NoCommand == [op |-> "none", args |-> <<>>]
Commands == {[op |-> op, args |-> <<>>] : op \in {"init", "read"}}
              \cup {[op |-> "make", args |-> a] : a \in UNION {[1..n -> Nodes] : n \in 1..MaxArgs}}

Running == cmd # NoCommand
Call == Script[place]
Calls(call) == Running /\ place <= Len(Script) /\ Call.do = call

NextCall == place' = place + 1 /\ k' = 0
SameCommand == UNCHANGED <<config, cmd, exit>> /\ changed' = (changed \/ disk' # disk)

\* bootable_gpt_done, and bootable_gpt_init of the next table.
Forget == /\ primary_header' = InitHeader /\ backup_header' = InitHeader
          /\ primary_entries' = NoEntries /\ backup_entries' = NoEntries
          /\ disk_size' = 0 /\ pc' = "idle" /\ scan' = NoScan /\ ret' = "none"

Start == /\ ~Running
         /\ cmd' \in Commands /\ config' \in Configs
         /\ place' = 1 /\ k' = 0 /\ changed' = FALSE /\ exit' = "none"
         /\ UNCHANGED <<imageVars, tree, promises>>

\* The process ends, and what it had in memory is gone.
End(status) == /\ cmd' = NoCommand /\ place' = 0 /\ k' = 0
               /\ tree' = {} /\ exit' = status /\ changed' = FALSE
               /\ Forget /\ io' = NoIo
               /\ UNCHANGED <<disk, config>>

Succeed == /\ Running /\ place > Len(Script)
           /\ IF cmd.op = "init" THEN layout' = {InMemory} /\ made' = config
                                 ELSE UNCHANGED <<layout, made>>
           /\ IF cmd.op = "init" \/ config.fs_loader THEN saved' = tree /\ unsaved' = FALSE
                                                     ELSE UNCHANGED <<saved, unsaved>>
           /\ End("success")

Interrupt == Running /\ End("failure") /\ UNCHANGED promises

(* -- Writing to the image -------------------------------------------------- *)

\* A write behind the end of the file makes the file longer.
Write(lba, sector) ==
  disk' = [s \in DOMAIN disk \cup {lba} |-> IF s = lba THEN sector ELSE disk[s]]

NoDap == [sector |-> 0, sector_count |-> 0]
Bootsector(st2, st3) == [kind |-> "boot", st2dap |-> st2, st3dap |-> st3]
Data(what, n) == [kind |-> "data", what |-> what, n |-> n]

\* An image that is made again is emptied first.
OpenEmpty == /\ Calls("open")
             /\ disk' = [s \in {} |-> Blank]
             /\ layout' = {} /\ made' = config /\ saved' = {} /\ unsaved' = FALSE
             /\ NextCall
             /\ UNCHANGED <<vars, io, tree>>
             /\ SameCommand

Zero == /\ Calls("zero")
        /\ disk' = [s \in 0..(config.disk_size \div SectorSize - 1) |-> Blank]
        /\ NextCall
        /\ UNCHANGED <<vars, io, tree, promises>>
        /\ SameCommand

WriteBootsector == /\ Calls("bootsector")
                   /\ Write(0, Bootsector(NoDap, NoDap))
                   /\ NextCall
                   /\ UNCHANGED <<vars, io, tree, promises>>
                   /\ SameCommand

\* One sector of what a partition is filled with.
WriteData == /\ Calls("data")
             /\ Write(primary_entries[Call.entry].first_lba + k, Data(Call.what, k))
             /\ IF k + 1 < SectorsOf(Call.bytes) THEN k' = k + 1 /\ UNCHANGED place
                                                 ELSE NextCall
             /\ UNCHANGED <<vars, io, tree, promises>>
             /\ SameCommand

\* The count of a disk address packet has 16 bits.
U16(n) == n % 65536
Dap(entry, bytes) == [sector |-> primary_entries[entry].first_lba,
                      sector_count |-> U16(SectorsOf(bytes))]

\* Mutant: stage three is looked for in the entry of the file system.
UpdatedBootsectorFs == Bootsector(Dap(0, StageTwoSize), Dap(2, LoaderSize))
\* Stage three is taken to be the file system loader, whatever was written.
UpdatedBootsector == Bootsector(Dap(0, StageTwoSize), Dap(1, LoaderSize))

UpdateMbr == /\ Calls("mbr")
             /\ Write(0, UpdatedBootsector)
             /\ NextCall
             /\ UNCHANGED <<vars, io, tree, promises>>
             /\ SameCommand

(* -- The file system on the image ------------------------------------------ *)

FsEntry == 2

(* A tree is exported as one stream: each of its nodes makes it longer, and *)
(* two different trees have no part of the stream in common.                *)
StreamLength(t) == 1 + Cardinality(t)
Chunk(t, n) == [kind |-> "fs", tree |-> t, n |-> n]

\* partition_write moves on by what it wrote; the size of the partition
\* plays no part in it.
\* Mutant: the stream begins one sector into the partition.
WriteChunkBehindStart(n) == Write(primary_entries[FsEntry].first_lba + n + 1, Chunk(tree, n))
WriteChunk(n) == Write(primary_entries[FsEntry].first_lba + n, Chunk(tree, n))

ExportFs == /\ Calls("fs")
            /\ WriteChunk(k)
            /\ unsaved' = (unsaved \/ tree # saved)
            /\ IF k + 1 < StreamLength(tree) THEN k' = k + 1 /\ UNCHANGED place
                                             ELSE NextCall
            /\ UNCHANGED <<vars, io, tree, layout, made, saved>>
            /\ SameCommand

\* The stream of a tree is there, whole, from this sector on.
TreeIsAt(lba, t) == \A n \in 0..(StreamLength(t) - 1) :
                      lba + n \in DOMAIN disk /\ disk[lba + n] = Chunk(t, n)

HasSignature(lba) == Holds(lba, "fs") /\ disk[lba].n = 0
FsIsAt(lba) == HasSignature(lba) /\ TreeIsAt(lba, disk[lba].tree)

(* What is read of a stream that was torn is some tree, or an error.  An    *)
(* image with no file system loader has no file system to read.             *)
ImportFs == /\ Calls("import fs")
            /\ LET lba == primary_entries[FsEntry].first_lba
               IN \/ ~config.fs_loader /\ UNCHANGED tree
                  \/ /\ config.fs_loader /\ HasSignature(lba)
                     /\ IF FsIsAt(lba) THEN tree' = disk[lba].tree
                                       ELSE tree' \in SUBSET Nodes
            /\ Forget
            /\ NextCall
            /\ UNCHANGED <<disk, io, promises>>
            /\ SameCommand

\* bootable_fs_make_dir, or bootable_fs_make_file and reading the host's file.
MakeNode == /\ Calls("make") /\ Call.node \notin tree
            /\ tree' = tree \cup {Call.node}
            /\ NextCall
            /\ UNCHANGED <<imageVars, promises>>
            /\ SameCommand

Look == /\ Calls("look")
        /\ NextCall
        /\ UNCHANGED <<imageVars, tree, promises>>
        /\ SameCommand

(* -- The table, in memory and on the image --------------------------------- *)

Unused == {i \in DOMAIN primary_entries : ~IsUsed(primary_entries[i])}
UnusedEntry == CHOOSE i \in Unused : \A j \in Unused : i <= j
TargetEntry == IF Call.entry = AnyUnused THEN UnusedEntry ELSE Call.entry
HasEntry == Call.entry = AnyUnused => Unused # {}

Outside == UNCHANGED <<disk, io, tree, promises>> /\ SameCommand

CallFormat == Calls("format") /\ Format(config.disk_size) /\ ret' = "ok" /\ NextCall /\ Outside

CallSetType == /\ Calls("type") /\ HasEntry
               /\ SetEntryType(TargetEntry, Call.type) /\ NextCall /\ Outside

CallSetName == /\ Calls("name") /\ HasEntry
               /\ \E name \in Call.names : SetEntryName(TargetEntry, name)
               /\ NextCall /\ Outside

\* bootable_gpt_set_entry_size, from its first line to its last.
CallSetSize == /\ Calls("size") /\ k = 0
               /\ SetEntrySize(Call.entry, Call.bytes)
               /\ k' = 1 /\ UNCHANGED place /\ Outside

SetSizeScans == /\ Calls("size") /\ (PassEntry \/ MoveBehindEntry)
                /\ UNCHANGED <<place, k>> /\ Outside

SetSizeReturns == /\ Calls("size") /\ FinishSetEntrySize
                  /\ IF ret' = "ok" THEN NextCall ELSE UNCHANGED <<place, k>>
                  /\ Outside

CallImport == /\ Calls("import") /\ Import
              /\ NextCall
              /\ UNCHANGED <<tree, promises>>
              /\ SameCommand

CallExport == /\ Calls("export") /\ k = 0 /\ BeginExport
              /\ k' = 1 /\ UNCHANGED <<place, tree, promises>> /\ SameCommand

ExportWrites == /\ Calls("export") /\ ExportStep
                /\ IF io' = NoIo THEN NextCall ELSE UNCHANGED <<place, k>>
                /\ UNCHANGED <<tree, promises>>
                /\ SameCommand

(* -- Errors the program finds ---------------------------------------------- *)

\* The returns of an error to main, which ends the process with nothing more
\* written.
Refuse ==
  /\ \/ Calls("import") /\ ~CanImport
     \/ Calls("import fs") /\ config.fs_loader /\ ~FsIsAt(primary_entries[FsEntry].first_lba)
     \/ Calls("make") /\ Call.node \in tree
     \/ Calls("look")
     \/ Calls("size") /\ Idle /\ ret = "ENOSPC"
     \/ (Calls("type") \/ Calls("name")) /\ ~HasEntry
  /\ End("failure")
  /\ UNCHANGED promises

(* -- The behaviours -------------------------------------------------------- *)

UtilInit == /\ Init
            /\ disk = [s \in {} |-> Blank] /\ io = NoIo
            /\ config \in Configs
            /\ cmd = NoCommand /\ place = 0 /\ k = 0
            /\ tree = {} /\ exit = "none"
            /\ layout = {} /\ made = config
            /\ saved = {} /\ unsaved = FALSE /\ changed = FALSE

CommandStep == \/ OpenEmpty \/ Zero \/ WriteBootsector \/ WriteData \/ UpdateMbr
               \/ ExportFs \/ ImportFs \/ MakeNode \/ Look
               \/ CallFormat \/ CallSetType \/ CallSetName
               \/ CallSetSize \/ SetSizeScans \/ SetSizeReturns
               \/ CallImport \/ CallExport \/ ExportWrites
               \/ Refuse \/ Succeed

UtilNext == Start \/ CommandStep \/ Interrupt

\* A process that is not killed goes on to its end.
UtilSpec == UtilInit /\ [][UtilNext]_utilVars /\ WF_utilVars(CommandStep)

(* -- What a user may rely on ----------------------------------------------- *)

\* Type invariant: a call is inside its script and its loops inside their
\* bounds, and only the call that runs has anything in hand.
UtilTypeOK ==
  /\ TypeOK
  /\ io \in [step : {"none", "primary header", "primary entries", "backup entries",
                     "backup header", "primary entries sum", "backup entries sum",
                     "primary sum", "backup sum"}, i : Indices]
  /\ config \in Configs /\ made \in Configs /\ cmd \in Commands \cup {NoCommand}
  /\ place \in 0..(Len(Script) + 1) /\ (Running <=> place > 0)
  /\ tree \subseteq Nodes /\ saved \subseteq Nodes /\ unsaved \in BOOLEAN
  /\ exit \in {"none", "success", "failure"}
  /\ ~At("none") => Calls("export")
  /\ pc = "scan" => Calls("size")

\* Once init has made an image its partition table can be read back as it was
\* exported, whatever the commands after it do and wherever they are killed:
\* the table is only ever rewritten with what it holds.
LayoutSurvives == layout # {} => CanImport /\ layout = {OnImage}

Headers == {1, ImportedPrimary.backup_lba}

\* After a command that succeeded both headers carry both of their checksums,
\* unless it is one that saves nothing on an image that others save to: it
\* succeeds on what a killed one has left.
ChecksumsComplete ==
  layout # {} /\ ~Running /\ exit = "success" /\ (made.fs_loader => config.fs_loader) =>
    \A lba \in Headers : EntriesSumRight(disk[lba]) /\ HeaderSumRight(disk[lba])

\* A table whose export was cut short has checksums that are zero or right,
\* never wrong ones that would pass for those of another table.
NoStaleChecksum ==
  layout # {} =>
    \A lba \in Headers : /\ disk[lba].entries_sum # NoSum => EntriesSumRight(disk[lba])
                         /\ disk[lba].sum # NoSum => HeaderSumRight(disk[lba])

\* The first sectors of an image lead to the code the machine goes on with.
LeadsTo(dap, what, bytes) ==
  \A n \in 0..(SectorsOf(bytes) - 1) : disk[dap.sector + n] = Data(what, n)

\* Both stages stay where the boot sector says they are, and stage two is as
\* long as it says: nothing a later command writes touches either, whatever
\* configuration it runs with.
StagesIntact ==
  layout # {} => /\ LeadsTo(disk[0].st2dap, "stage two", StageTwoSize)
                 /\ disk[0].st2dap.sector_count = SectorsOf(StageTwoSize)
                 /\ LeadsTo(disk[0].st3dap, "stage three", StageThreeSize(made))

FsLba == ImportedPrimaryEntries[FsEntry].first_lba

\* As long as no other tree has begun to be written, the tree of the last
\* command that succeeded can be read back: ls and cat may be killed while
\* they save, and mkdir and cp may fail before they do, and nothing is lost;
\* nor by commands whose configuration knows of no file system.
TreeSurvives ==
  layout # {} /\ made.fs_loader /\ ~unsaved => TreeIsAt(FsLba, saved)

\* mkdir and cp are all or nothing: one that the program refuses, at its first
\* argument or at a later one, has written nothing to the image.
AllOrNothing == [][Refuse /\ cmd.op # "init" => ~changed]_utilVars

\* The utility uses the table the way the theorems about Gpt assume: entries
\* are sized in ascending order and each once, between an import or a format
\* and the end of the table.
TableUsedAsSpecified == [][Next \/ Import \/ Forget]_vars

\* No command goes on for ever.
CommandsEnd == Running ~> ~Running
=============================================================================
