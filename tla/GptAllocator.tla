----------------------------- MODULE GptAllocator -----------------------------
(****************************************************************************)
(* The table of Gpt, used as the program uses it, is an Allocator: what a   *)
(* call of bootable_gpt_set_entry_size leaves behind is a grant of the      *)
(* smallest run that fits, or a refusal because no free run fits.           *)
(****************************************************************************)
EXTENDS Gpt

\* Above this, size + 511 wraps and the partition is one sector long.
ASSUME NoWrapAssumption == Sizes \subseteq 0..(Word - SectorSize)

\* One sector more than gpt.h asks for: its MinimumSize leaves the boot sector out.
ASSUME RoomAssumption == DiskSizes \subseteq (MinimumSize + SectorSize)..(Word - 1)

(* -- The inductive invariant ----------------------------------------------- *)

\* The headers are as gpt_init left them or as format computes them for the
\* disk, and the arrays are both there, with the same entries, or hold nothing.
Formatted ==
  /\ disk_size = 0 => /\ primary_header = InitHeader /\ backup_header = InitHeader
                      /\ backup_entries = NoEntries
  /\ disk_size # 0 =>
       /\ primary_header = FormattedHeader(1, LastDiskLba(disk_size), 2, disk_size)
       /\ backup_header = FormattedHeader(LastDiskLba(disk_size), 1,
                                          BackupEntriesLba(disk_size), disk_size)
  /\ backup_entries = NoEntries => primary_entries \in {NoEntries, EmptyTable}
  /\ backup_entries # NoEntries => primary_entries = backup_entries

\* Partitions lie in the usable area, in the order of their entries.
Ordered ==
  /\ \A i \in Used : /\ primary_header.first_usable_lba <= First(i)
                     /\ First(i) <= Last(i)
                     /\ Last(i) <= primary_header.last_usable_lba
  /\ \A i, j \in Used : i < j => Last(i) < First(j)

\* The locals of set_entry_size: the entry is behind the used ones, and the
\* candidate is a run of the length asked for that begins in the usable area
\* or just behind it.
ScanCandidate ==
  pc = "scan" =>
    /\ \A j \in Used : j < scan.index
    /\ scan.lba_count = LbaCount(scan.size)
    /\ primary_header.first_usable_lba <= scan.first_lba
    /\ \/ scan.first_lba = primary_header.first_usable_lba
       \/ scan.first_lba <= primary_header.last_usable_lba + 1
    /\ scan.last_lba = scan.first_lba + scan.lba_count - 1

IInv == TypeOK /\ Formatted /\ Ordered /\ Packed /\ ScanCandidate /\ ScanBehindPassed

(* -- The refinement -------------------------------------------------------- *)

UsableSectors == IF backup_entries = NoEntries THEN {}
                 ELSE primary_header.first_usable_lba..primary_header.last_usable_lba

Held == [i \in Indices |-> IF i \in Used THEN First(i)..Last(i) ELSE {}]

Asked == IF pc = "scan" THEN [entry |-> scan.index, bytes |-> scan.size]
         ELSE [entry |-> -1, bytes |-> 0]

Abstract == INSTANCE Allocator WITH
  Entries <- Indices, usable <- UsableSectors, held <- Held, asked <- Asked

\* The steps of the table's calls are steps of the allocator: a request is
\* granted the smallest run that fits it out of what is free, or refused only
\* when no free run of the usable area would fit it.
ImplementsAllocator == Abstract!Spec
=============================================================================
