------------------------------ MODULE MCGptApi ------------------------------
(****************************************************************************)
(* The interface of Gpt as gpt.h states it, beyond the way the program uses *)
(* it: entries sized in any order.                                          *)
(****************************************************************************)
EXTENDS Gpt

\* Four sectors for partitions.
MCDisk == {9 * SectorSize}

MCSizes == {512, 1024}
=============================================================================
