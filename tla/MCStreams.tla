------------------------------ MODULE MCStreams ------------------------------
(****************************************************************************)
(* Two partitions of one and of two bytes that touch, behind a byte that is *)
(* in neither.                                                              *)
(****************************************************************************)
EXTENDS PartitionVolume

MCOffset == [s \in Streams |-> IF s = "a" THEN 1 ELSE 2]
MCExtent == [s \in Streams |-> IF s = "a" THEN 1 ELSE 2]
=============================================================================
