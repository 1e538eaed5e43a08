------------------------------ MODULE HostFile ------------------------------
(****************************************************************************)
(* A stream on a file of the host (src/util/fstream.c), called through the  *)
(* functions of src/core/stream.c.  A call may fail half way for a reason   *)
(* outside the program: what a transfer has moved by then stays moved.      *)
(*                                                                          *)
(* bootable_fstream_zero is a loop over buffers, one step each; no other    *)
(* call is made meanwhile.                                                  *)
(****************************************************************************)
EXTENDS Integers, Sequences

CONSTANTS Bytes,      \* what a byte may be,
          ZeroByte,   \*   and the one that calloc and holes are made of
          LongMax,    \* LONG_MAX: no position lies behind it
          BufSize,    \* buf_size of bootable_fstream_zero, 4096 in the code
          Host        \* the caller who uses the file itself

ASSUME BytesAssumption == ZeroByte \in Bytes

ASSUME LongMaxAssumption == LongMax \in Nat \ {0}

ASSUME BufSizeAssumption == BufSize \in Nat \ {0}

VARIABLES open,     \* whether there is a FILE,
          bytes,    \*   what it holds, zeros where nothing has been written,
          size,     \*   its length
          pos,      \*   and its position, which all of its users share
          zeroing,  \* the locals of bootable_fstream_zero
          reply     \* what the last call returned, and to whom

fileVars == <<open, bytes, size, pos, zeroing, reply>>

Addresses == 0..(LongMax - 1)
Positions == 0..LongMax
EmptyFile == [a \in Addresses |-> ZeroByte]

NoZeroing == [count |-> -1]
Ready == open /\ zeroing = NoZeroing

Answer(by, err, data) == reply' = [by |-> by, err |-> err, data |-> data]
Fails(by, err) == Answer(by, err, <<>>)

(* -- Transfers ------------------------------------------------------------- *)

Slice(at, n) == [i \in 1..n |-> bytes[at + i - 1]]

\* The first done bytes of a buffer get into the file.
Moved(at, buf, done) ==
  /\ at + done <= LongMax
  /\ bytes' = [a \in Addresses |->
                 IF at <= a /\ a < at + done THEN buf[a - at + 1] ELSE bytes[a]]
  /\ size' = IF done > 0 /\ at + done > size THEN at + done ELSE size
  /\ pos' = at + done

\* fwrite.
WriteAt(by, at, buf) ==
  \E done \in 0..Len(buf) :
    /\ Moved(at, buf, done)
    /\ Answer(by, IF done = Len(buf) THEN "ok" ELSE "EIO", <<>>)

\* fread, which reads nothing behind the end.
ReadAt(by, at, n) ==
  \E done \in 0..n :
    /\ done > 0 => at + done <= size
    /\ pos' = at + done
    /\ IF done = n THEN Answer(by, "ok", Slice(at, n)) ELSE Fails(by, "EIO")
    /\ UNCHANGED <<bytes, size>>

(* -- The calls ------------------------------------------------------------- *)

\* bootable_fstream_open: "wb+" makes the file anew, "rb+" takes what is there.
Open(mode) ==
  /\ ~open
  /\ \/ Fails(Host, "ENOENT") /\ UNCHANGED <<open, bytes, size, pos>>
     \/ /\ mode = "wb+"
        /\ open' = TRUE /\ pos' = 0 /\ size' = 0 /\ bytes' = EmptyFile
        /\ Answer(Host, "ok", <<>>)
     \/ /\ mode = "rb+"
        /\ open' = TRUE /\ pos' = 0
        /\ Answer(Host, "ok", <<>>)
        /\ UNCHANGED <<bytes, size>>
  /\ UNCHANGED zeroing

Done == /\ Ready
        /\ open' = FALSE
        /\ Answer(Host, "ok", <<>>)
        /\ UNCHANGED <<bytes, size, pos, zeroing>>

SetPos(p) ==
  /\ Ready
  /\ \/ p > LongMax /\ Fails(Host, "EINVAL") /\ UNCHANGED pos
     \/ p <= LongMax /\ Fails(Host, "EIO") /\ UNCHANGED pos
     \/ p <= LongMax /\ pos' = p /\ Answer(Host, "ok", <<>>)
  /\ UNCHANGED <<open, bytes, size, zeroing>>

\* The position is set to the end to learn the size, and back again.
GetSize ==
  /\ Ready
  /\ \/ pos' = pos /\ Answer(Host, "ok", <<size>>)
     \/ pos' \in {pos, size} /\ Fails(Host, "EINVAL")
  /\ UNCHANGED <<open, bytes, size, zeroing>>

GetPos == /\ Ready
          /\ Answer(Host, "ok", <<pos>>)
          /\ UNCHANGED <<open, bytes, size, pos, zeroing>>

Read(n) == Ready /\ ReadAt(Host, pos, n) /\ UNCHANGED <<open, zeroing>>

Write(buf) == Ready /\ WriteAt(Host, pos, buf) /\ UNCHANGED <<open, zeroing>>

\* One zero is written where the last byte is to be.
Resize(n) ==
  /\ Ready
  /\ \/ n < 1 /\ Fails(Host, "EINVAL") /\ UNCHANGED <<bytes, size, pos>>
     \/ n >= 1 /\ n - 1 > LongMax /\ Fails(Host, "EINVAL") /\ UNCHANGED <<bytes, size, pos>>
     \/ n >= 1 /\ n - 1 <= LongMax /\ Fails(Host, "EIO") /\ UNCHANGED <<bytes, size, pos>>
     \/ n >= 1 /\ n - 1 <= LongMax /\ WriteAt(Host, n - 1, <<ZeroByte>>)
  /\ UNCHANGED <<open, zeroing>>

(* -- bootable_fstream_zero ------------------------------------------------- *)

Zeros(n) == [i \in 1..n |-> ZeroByte]

\* from and before are history: where it began, and on what.
BeginZero(count) ==
  /\ Ready
  /\ zeroing' = [count |-> count, read_count |-> 0, from |-> pos, before |-> bytes]
  /\ Answer(Host, "running", <<>>)
  /\ UNCHANGED <<open, bytes, size, pos>>

Zeroing == open /\ zeroing # NoZeroing
MoreThanABuffer == zeroing.read_count + BufSize < zeroing.count

ZeroBuffer ==
  /\ Zeroing /\ MoreThanABuffer
  /\ Moved(pos, Zeros(BufSize), BufSize)
  /\ zeroing' = [zeroing EXCEPT !.read_count = @ + BufSize]
  /\ UNCHANGED <<open, reply>>

ZeroBufferFails ==
  /\ Zeroing /\ MoreThanABuffer
  /\ \E done \in 0..(BufSize - 1) : Moved(pos, Zeros(BufSize), done)
  /\ Fails(Host, "EIO")
  /\ zeroing' = NoZeroing
  /\ UNCHANGED open

\* Mutant: the last buffer is written whole.
ZeroLastBuffer ==
  /\ Zeroing /\ ~MoreThanABuffer
  /\ WriteAt(Host, pos, Zeros(BufSize))
  /\ zeroing' = NoZeroing
  /\ UNCHANGED open
\* What is left is no more than a buffer, and may be nothing.
ZeroRest ==
  /\ Zeroing /\ ~MoreThanABuffer
  /\ WriteAt(Host, pos, Zeros(zeroing.count - zeroing.read_count))
  /\ zeroing' = NoZeroing
  /\ UNCHANGED open

ZeroStep == ZeroBuffer \/ ZeroBufferFails \/ ZeroRest

(* -- What a caller may rely on --------------------------------------------- *)

Results == {"ok", "running", "EIO", "EINVAL", "EFAULT", "ENOENT"}

FileTypeOK ==
  /\ open \in BOOLEAN
  /\ bytes \in [Addresses -> Bytes]
  /\ size \in Positions /\ pos \in Positions
  /\ reply.err \in Results
  /\ \/ zeroing = NoZeroing
     \/ /\ zeroing \in [count : Nat, read_count : Nat, from : Positions,
                        before : [Addresses -> Bytes]]
        /\ zeroing.read_count <= zeroing.count

ZeroReturns == zeroing # NoZeroing /\ zeroing' = NoZeroing /\ reply'.err = "ok"

\* However its length divides into buffers, zeroing that succeeds has zeroed
\* as many bytes as it was asked to, from where the position was, and no other
\* byte, and the position is behind them.
ZeroExact ==
  [][ZeroReturns =>
       /\ pos' = zeroing.from + zeroing.count
       /\ \A a \in Addresses :
            bytes'[a] = IF zeroing.from <= a /\ a < zeroing.from + zeroing.count
                        THEN ZeroByte ELSE zeroing.before[a]]_fileVars
=============================================================================
