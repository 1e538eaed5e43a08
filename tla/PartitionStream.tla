-------------------------- MODULE PartitionStream --------------------------
(****************************************************************************)
(* Streams on parts of a disk (src/core/partition.c), several of them open  *)
(* at once on one HostFile, which has one position for all and is used      *)
(* directly as well.                                                        *)
(*                                                                          *)
(* The code lets a stream run past its end.  Here the callers stay inside,  *)
(* and the direct user keeps off the partitions that are open: what each    *)
(* stream is worth then is Volume.                                          *)
(****************************************************************************)
EXTENDS HostFile

CONSTANTS Streams,   \* the partition streams
          Offset,    \* what each is given by bootable_partition_set_offset
          Extent,    \*   and by bootable_partition_set_size, in bytes
          Word,      \* 2^64: values of bootable_uint64 are 0..Word-1
          Counts     \* bound: the lengths and positions the host asks for

ASSUME StreamsAssumption == Host \notin Streams

ASSUME ExtentAssumption ==
  /\ Offset \in [Streams -> Nat] /\ Extent \in [Streams -> Nat]
  /\ \A s \in Streams : Offset[s] + Extent[s] <= LongMax

\* The entries of a table have no sector in common: see PartitionsDisjoint in Gpt.
ASSUME ApartAssumption ==
  \A s, t \in Streams : s # t => \/ Offset[s] + Extent[s] <= Offset[t]
                                 \/ Offset[t] + Extent[t] <= Offset[s]

ASSUME WordAssumption == Word \in Nat /\ Word > 2 * LongMax

ASSUME CountsAssumption == Counts \subseteq Nat

VARIABLES attached,   \* whether the stream has been given its disk
          position    \* where in its part the stream is

partVars == <<attached, position>>
streamVars == <<fileVars, partVars>>

U64(n) == n % Word

Buffers(n) == UNION {[1..m -> Bytes] : m \in 0..n}

(* -- The calls on a stream ------------------------------------------------- *)

\* bootable_partition_set_offset, set_size and set_disk, and, at the end,
\* bootable_partition_done and the bootable_partition_init of the next one.
Attach(s) == /\ Ready /\ ~attached[s]
             /\ attached' = [attached EXCEPT ![s] = TRUE]
             /\ UNCHANGED <<fileVars, position>>

Detach(s) == /\ Ready /\ attached[s]
             /\ attached' = [attached EXCEPT ![s] = FALSE]
             /\ position' = [position EXCEPT ![s] = 0]
             /\ UNCHANGED fileVars

\* Mutant: the position within the partition is taken for one on the disk.
PlaceWithoutOffset(s) == U64(position[s])
Place(s) == U64(Offset[s] + position[s])

\* Before it is given a disk every transfer, and set_pos, is refused.
NoDisk(s) == /\ Ready /\ ~attached[s] /\ Fails(s, "EFAULT")
             /\ UNCHANGED <<open, bytes, size, pos, zeroing, partVars>>

\* The disk is not moved to the place of the stream.
SeekFails(s) == /\ Ready /\ attached[s]
                /\ Fails(s, IF Place(s) > LongMax THEN "EINVAL" ELSE "EIO")
                /\ UNCHANGED <<open, bytes, size, pos, zeroing, partVars>>

CanSeek(s) == Ready /\ attached[s] /\ Place(s) <= LongMax

\* The position moves on before the transfer, and by all of it, even where
\* the transfer then fails.
MoveOn(s, n) == position' = [position EXCEPT ![s] = U64(@ + n)]

StaysInside(s, n) == position[s] + n <= Extent[s]

PartRead(s, n) ==
  /\ CanSeek(s) /\ StaysInside(s, n)
  /\ MoveOn(s, n)
  /\ ReadAt(s, Place(s), n)
  /\ UNCHANGED <<open, zeroing, attached>>

\* Mutant: where the disk stands is written to, whoever has left it there.
PartWriteWhereDiskIs(s, buf) ==
  /\ CanSeek(s) /\ StaysInside(s, Len(buf))
  /\ MoveOn(s, Len(buf))
  /\ WriteAt(s, pos, buf)
  /\ UNCHANGED <<open, zeroing, attached>>
PartWrite(s, buf) ==
  /\ CanSeek(s) /\ StaysInside(s, Len(buf))
  /\ MoveOn(s, Len(buf))
  /\ WriteAt(s, Place(s), buf)
  /\ UNCHANGED <<open, zeroing, attached>>

\* Mutant: the place behind the last one a transfer can start at is let through.
PartSetPosOneBehind(s, p) ==
  /\ Ready /\ attached[s] /\ p <= Extent[s] + 1 /\ Answer(s, "ok", <<>>)
  /\ position' = [position EXCEPT ![s] = p]
  /\ UNCHANGED <<open, bytes, size, pos, zeroing, attached>>
PartSetPos(s, p) ==
  /\ Ready /\ attached[s]
  /\ \/ p > Extent[s] /\ Fails(s, "EINVAL") /\ UNCHANGED position
     \/ /\ p <= Extent[s] /\ Answer(s, "ok", <<>>)
        /\ position' = [position EXCEPT ![s] = p]
  /\ UNCHANGED <<open, bytes, size, pos, zeroing, attached>>

\* Neither asks whether there is a disk.
PartGetPos(s) == /\ Ready /\ Answer(s, "ok", <<position[s]>>)
                 /\ UNCHANGED <<open, bytes, size, pos, zeroing, partVars>>

PartGetSize(s) == /\ Ready
                  /\ Answer(s, "ok", <<IF attached[s] THEN Extent[s] ELSE 0>>)
                  /\ UNCHANGED <<open, bytes, size, pos, zeroing, partVars>>

(* -- The disk, used directly ----------------------------------------------- *)

\* The n bytes behind a place are in no partition that is open.
KeepsOff(at, n) ==
  \A s \in Streams : attached[s] => at + n <= Offset[s] \/ Offset[s] + Extent[s] <= at

\* The streams are gone when the file is closed.
OpenDisk == /\ \E mode \in {"wb+", "rb+"} : Open(mode)
            /\ UNCHANGED partVars
CloseDisk == Done /\ (\A s \in Streams : ~attached[s]) /\ UNCHANGED partVars

HostCall == /\ \/ \E p \in Counts : SetPos(p)
               \/ GetSize
               \/ GetPos
               \/ \E n \in Counts : Read(n)
               \/ \E buf \in Buffers(1) : KeepsOff(pos, Len(buf)) /\ Write(buf)
               \/ \E n \in Counts : KeepsOff(n - 1, 1) /\ Resize(n)
               \/ \E n \in Counts : KeepsOff(pos, n) /\ BeginZero(n)
            /\ UNCHANGED partVars

ZeroGoesOn == ZeroStep /\ UNCHANGED partVars

StreamCall(s) == \/ Attach(s) \/ Detach(s) \/ NoDisk(s) \/ SeekFails(s)
                 \/ PartGetPos(s) \/ PartGetSize(s)
                 \/ \E n \in 0..Extent[s] : PartRead(s, n)
                 \/ \E buf \in Buffers(Extent[s]) : PartWrite(s, buf)
                 \/ \E p \in Counts : PartSetPos(s, p)

(* -- The behaviours -------------------------------------------------------- *)

StreamInit == /\ open = FALSE /\ pos = 0 /\ zeroing = NoZeroing
              /\ size \in Positions
              /\ bytes \in [Addresses -> Bytes]
              /\ \A a \in Addresses : a >= size => bytes[a] = ZeroByte
              /\ reply = [by |-> Host, err |-> "ok", data |-> <<>>]
              /\ attached = [s \in Streams |-> FALSE]
              /\ position = [s \in Streams |-> 0]

StreamNext == \/ OpenDisk \/ CloseDisk \/ HostCall \/ ZeroGoesOn
              \/ \E s \in Streams : StreamCall(s)

StreamSpec == StreamInit /\ [][StreamNext]_streamVars

(* -- What a caller may rely on --------------------------------------------- *)

\* Type invariant: a stream is never behind its end, and is on an open file.
StreamTypeOK ==
  /\ FileTypeOK
  /\ attached \in [Streams -> BOOLEAN]
  /\ position \in [Streams -> Nat]
  /\ \A s \in Streams : position[s] <= Extent[s] /\ (attached[s] => open)

=============================================================================
