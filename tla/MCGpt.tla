-------------------------------- MODULE MCGpt --------------------------------
(****************************************************************************)
(* Gpt on a disk of a few sectors.  Four entries fill one sector, so the    *)
(* tables take sectors 1-2 and the last two of the disk.                    *)
(****************************************************************************)
EXTENDS GptAllocator

\* The smallest disk with room for both tables, which leaves no room for a
\* partition, and one with four sectors for partitions and a ragged end.
MCDiskSizes == {MinimumSize + SectorSize, 9 * SectorSize + 100}

\* The empty partition, a sector and a byte, whole sectors, and the largest
\* size that does not wrap.
MCSizes == {0, 513, 1536, Word - SectorSize}
=============================================================================
