----------------------------- MODULE MCUtilDocs -----------------------------
(****************************************************************************)
(* What the comments of the utility say of an image, where the code does    *)
(* something else: one configuration and one property for each.             *)
(****************************************************************************)
EXTENDS Util

\* Stage two takes sectors 3-4, stage three one sector behind it, or two for
\* a kernel, and a file system follows.
Base == [disk_size |-> 12 * SectorSize, fs_size |-> 3 * SectorSize,
         fs_loader |-> TRUE, partitions |-> <<>>]

SmallFs == [Base EXCEPT !.fs_size = 2 * SectorSize]
MCSmallFs == {SmallFs}
MCKernel == {[Base EXCEPT !.fs_loader = FALSE]}

MCDiskSizes == {Base.disk_size}
MCSizes == {512, 600, 1024, 1536}

\* Boot code read as a header that leads out of the image, and bytes read as
\* an entry.
MCRawHeader == [InitHeader EXCEPT !.partition_entries_lba = 40]
MCRawEntry == [InitEntry EXCEPT !.first_lba = 40]

\* partition.h: with its start and size set, "the read and write functions
\* function within the bounds of the partition".  The file system is written
\* through a partition of the size of its entry.
FsInBounds ==
  layout # {} =>
    \A s \in DOMAIN disk :
      disk[s].kind = "fs" => /\ FsLba <= s
                             /\ s <= ImportedPrimaryEntries[FsEntry].last_lba

\* dap.h: the count of a disk address packet is "the number of sectors
\* occupied by the boot loader" it leads to.
StageThreeCounted ==
  layout # {} => disk[0].st3dap.sector_count = SectorsOf(StageThreeSize(made))

\* util.h: bootable_util_save_disk "saves information in memory onto the
\* disk", so what a mkdir or cp that succeeds has made is on the image.
SuccessIsSaved == [][Succeed /\ cmd.op = "make" => TreeIsAt(FsLba, tree)]_utilVars
=============================================================================
