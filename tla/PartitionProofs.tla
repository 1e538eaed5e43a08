-------------------------- MODULE PartitionProofs --------------------------
(****************************************************************************)
(* Theorems about PartitionStream: for any number of streams on a disk of   *)
(* any length, each is a Volume, and zeroing by buffers of any size zeroes  *)
(* what it was asked to.                                                    *)
(****************************************************************************)
EXTENDS PartitionVolume, TLAPS

(* -- Transfers ------------------------------------------------------------- *)

\* A buffer is a sequence of bytes.
LEMMA BufferIsSeq ==
  ASSUME NEW n \in Nat, NEW buf \in Buffers(n)
  PROVE  /\ buf \in [1..Len(buf) -> Bytes]
         /\ Len(buf) \in 0..n
<1>1. PICK m \in 0..n : buf \in [1..m -> Bytes]
  BY DEF Buffers
<1>2. buf \in Seq(Bytes) /\ Len(buf) = m
  BY <1>1
<1> QED
  BY <1>1, <1>2

\* A transfer to the file leaves a file, with its position in it.
LEMMA MovedType ==
  ASSUME FileTypeOK, NEW at \in Nat, NEW n \in Nat, NEW buf \in [1..n -> Bytes],
         NEW done \in 0..n, Moved(at, buf, done)
  PROVE  bytes' \in [Addresses -> Bytes] /\ size' \in Positions /\ pos' \in Positions
<1> USE LongMaxAssumption DEF FileTypeOK, Moved, Addresses, Positions
<1>1. \A a \in Addresses : at <= a /\ a < at + done => a - at + 1 \in 1..n
  OBVIOUS
<1>2. bytes' \in [Addresses -> Bytes]
  BY <1>1
<1> QED
  BY <1>2

\* write and write_at, whole or cut short, leave a file of the right type.
LEMMA WriteAtType ==
  ASSUME FileTypeOK, NEW by, NEW at \in Nat, NEW buf \in Seq(Bytes),
         WriteAt(by, at, buf), UNCHANGED <<open, zeroing>>
  PROVE  FileTypeOK'
<1>1. Len(buf) \in Nat /\ buf \in [1..Len(buf) -> Bytes]
  OBVIOUS
<1>2. PICK done \in 0..Len(buf) :
        Moved(at, buf, done) /\ Answer(by, IF done = Len(buf) THEN "ok" ELSE "EIO", <<>>)
  BY DEF WriteAt
<1>3. bytes' \in [Addresses -> Bytes] /\ size' \in Positions /\ pos' \in Positions
  BY <1>1, <1>2, MovedType
<1> QED
  BY <1>2, <1>3 DEF FileTypeOK, Answer, Results

\* read and read_at move the position only, and to a place the file can be at.
LEMMA ReadAtType ==
  ASSUME FileTypeOK, NEW by, NEW at \in Positions, NEW n \in Nat,
         ReadAt(by, at, n), UNCHANGED <<open, zeroing>>
  PROVE  FileTypeOK'
BY LongMaxAssumption DEF FileTypeOK, ReadAt, Answer, Fails, Results, Positions

(* -- The type invariant ---------------------------------------------------- *)

\* The streams start with their types.
LEMMA TypeInit ==
  ASSUME StreamInit
  PROVE  StreamTypeOK
<1>1. FileTypeOK
  <2> SUFFICES /\ open \in BOOLEAN /\ bytes \in [Addresses -> Bytes]
                /\ size \in Positions /\ pos \in Positions
                /\ reply.err \in Results /\ zeroing = NoZeroing
    BY DEF FileTypeOK
  <2>1. pos \in Positions
    BY LongMaxAssumption DEF StreamInit, Positions
  <2>2. reply.err \in Results
    BY DEF StreamInit, Results
  <2>3. open \in BOOLEAN
    BY DEF StreamInit
  <2> QED
    BY <2>1, <2>2, <2>3 DEF StreamInit
<1> QED
  BY <1>1, ExtentAssumption DEF StreamInit, StreamTypeOK

\* One buffer of zeroes leaves a file of the right type and a count still to go.
LEMMA ZeroBufferType ==
  ASSUME StreamTypeOK, ZeroBuffer
  PROVE  FileTypeOK'
<1> USE BufSizeAssumption DEF StreamTypeOK
<1>1. Zeros(BufSize) \in [1..BufSize -> Bytes]
  BY BytesAssumption DEF Zeros
<1>2. bytes' \in [Addresses -> Bytes] /\ size' \in Positions /\ pos' \in Positions
  BY <1>1, MovedType DEF ZeroBuffer, FileTypeOK, Positions
<1>3. /\ zeroing \in [count : Nat, read_count : Nat, from : Positions,
                      before : [Addresses -> Bytes]]
      /\ zeroing.read_count + BufSize < zeroing.count
  BY DEF ZeroBuffer, Zeroing, MoreThanABuffer, FileTypeOK
<1>4. /\ zeroing' \in [count : Nat, read_count : Nat, from : Positions,
                       before : [Addresses -> Bytes]]
      /\ zeroing'.read_count <= zeroing'.count
  BY <1>3 DEF ZeroBuffer
<1> QED
  BY <1>2, <1>4 DEF ZeroBuffer, FileTypeOK

\* So does every step of bootable_fstream_zero: a buffer, the rest, or a failure.
LEMMA ZeroStepType ==
  ASSUME StreamTypeOK, ZeroStep
  PROVE  FileTypeOK'
<1> USE BufSizeAssumption DEF StreamTypeOK
<1>1. CASE ZeroBuffer
  BY <1>1, ZeroBufferType
<1>2. CASE ZeroBufferFails
  <2>1. Zeros(BufSize) \in [1..BufSize -> Bytes]
    BY BytesAssumption DEF Zeros
  <2>2. bytes' \in [Addresses -> Bytes] /\ size' \in Positions /\ pos' \in Positions
    BY <1>2, <2>1, MovedType DEF ZeroBufferFails, FileTypeOK, Positions
  <2> QED
    BY <1>2, <2>2 DEF ZeroBufferFails, FileTypeOK, Fails, Answer, Results
<1>3. CASE ZeroRest
  <2>1. zeroing.count - zeroing.read_count \in Nat
    BY <1>3 DEF ZeroRest, Zeroing, FileTypeOK
  <2>2. PICK n \in Nat : n = zeroing.count - zeroing.read_count
    BY <2>1
  <2>3. Zeros(n) \in [1..n -> Bytes] /\ Len(Zeros(n)) = n
    BY BytesAssumption DEF Zeros
  <2>4. PICK done \in 0..n : Moved(pos, Zeros(n), done)
    BY <1>3, <2>2, <2>3 DEF ZeroRest, WriteAt
  <2>5. bytes' \in [Addresses -> Bytes] /\ size' \in Positions /\ pos' \in Positions
    BY <2>3, <2>4, MovedType DEF FileTypeOK, Positions
  <2>6. reply'.err \in Results
    BY <1>3 DEF ZeroRest, WriteAt, Answer, Results
  <2> QED
    BY <1>3, <2>5, <2>6 DEF ZeroRest, FileTypeOK
<1> QED
  BY <1>1, <1>2, <1>3 DEF ZeroStep

\* The host position of a partition stream is computed without wrapping.
LEMMA PlaceIs ==
  ASSUME StreamTypeOK, NEW s \in Streams
  PROVE  /\ Place(s) = Offset[s] + position[s]
         /\ Place(s) \in Positions
         /\ \A n \in Nat : StaysInside(s, n) => U64(position[s] + n) = position[s] + n
<1>1. \A x \in 0..LongMax : x % Word = x
  BY LongMaxAssumption, WordAssumption
<1>2. /\ position[s] \in Nat /\ Offset[s] \in Nat /\ Extent[s] \in Nat
      /\ position[s] <= Extent[s] /\ Offset[s] + Extent[s] <= LongMax
  BY ExtentAssumption DEF StreamTypeOK
<1>3. /\ Offset[s] + position[s] \in 0..LongMax
      /\ \A n \in Nat : StaysInside(s, n) => position[s] + n \in 0..LongMax
  BY <1>2, LongMaxAssumption DEF StaysInside
<1> QED
  BY <1>1, <1>3 DEF Place, U64, Positions

\* The direct user and the file.
LEMMA HostCallType ==
  ASSUME StreamTypeOK, HostCall
  PROVE  FileTypeOK'
<1> USE DEF StreamTypeOK
<1>1. CASE \E p \in Counts : SetPos(p)
  BY <1>1, CountsAssumption, LongMaxAssumption
  DEF SetPos, Fails, Answer, FileTypeOK, Results, Positions
<1>2. CASE GetSize
  BY <1>2 DEF GetSize, Fails, Answer, FileTypeOK, Results, Positions
<1>3. CASE GetPos
  BY <1>3 DEF GetPos, Answer, FileTypeOK, Results
<1>4. CASE \E n \in Counts : Read(n)
  BY <1>4, CountsAssumption, ReadAtType DEF Read, FileTypeOK
<1>5. CASE \E buf \in Buffers(1) : KeepsOff(pos, Len(buf)) /\ Write(buf)
  <2>1. PICK buf \in Buffers(1) : Write(buf)
    BY <1>5
  <2>2. buf \in Seq(Bytes)
    BY BufferIsSeq
  <2>3. pos \in Nat
    BY LongMaxAssumption DEF FileTypeOK, Positions
  <2> QED
    BY <2>1, <2>2, <2>3, WriteAtType DEF Write
<1>6. CASE \E n \in Counts : KeepsOff(n - 1, 1) /\ Resize(n)
  <2>1. PICK n \in Counts : Resize(n)
    BY <1>6
  <2>2. CASE WriteAt(Host, n - 1, <<ZeroByte>>) /\ n >= 1
    <3>1. <<ZeroByte>> \in Seq(Bytes) /\ n - 1 \in Nat
      BY <2>2, BytesAssumption, CountsAssumption
    <3> QED
      BY <2>1, <2>2, <3>1, WriteAtType DEF Resize
  <2>3. CASE Fails(Host, "EINVAL") /\ UNCHANGED <<bytes, size, pos>>
    BY <2>1, <2>3 DEF Resize, Fails, Answer, FileTypeOK, Results
  <2>4. CASE Fails(Host, "EIO") /\ UNCHANGED <<bytes, size, pos>>
    BY <2>1, <2>4 DEF Resize, Fails, Answer, FileTypeOK, Results
  <2> QED
    BY <2>1, <2>2, <2>3, <2>4 DEF Resize
<1>7. CASE \E n \in Counts : KeepsOff(pos, n) /\ BeginZero(n)
  BY <1>7, CountsAssumption DEF BeginZero, Answer, FileTypeOK, Results
<1> QED
  BY <1>1, <1>2, <1>3, <1>4, <1>5, <1>6, <1>7 DEF HostCall

\* Opening the image leaves a file of the right type, and never closes it.
LEMMA OpenDiskType ==
  ASSUME StreamTypeOK, OpenDisk
  PROVE  FileTypeOK' /\ (open => open')
<1>1. PICK mode \in {"wb+", "rb+"} : Open(mode)
  BY DEF OpenDisk
<1>2. EmptyFile \in [Addresses -> Bytes]
  BY BytesAssumption DEF EmptyFile
<1>3. reply'.err \in Results
  BY <1>1 DEF Open, Fails, Answer, Results
<1>4. bytes' \in [Addresses -> Bytes] /\ size' \in Positions /\ pos' \in Positions
  BY <1>1, <1>2, LongMaxAssumption DEF Open, StreamTypeOK, FileTypeOK, Positions
<1>5. open' \in BOOLEAN /\ (open => open') /\ zeroing' = zeroing
  BY <1>1 DEF Open, StreamTypeOK, FileTypeOK
<1> QED
  BY <1>3, <1>4, <1>5 DEF StreamTypeOK, FileTypeOK

\* Every call on a partition stream keeps the types.
LEMMA StreamCallType ==
  ASSUME StreamTypeOK, NEW s \in Streams, StreamCall(s)
  PROVE  StreamTypeOK'
<1> DEFINE Quiet == UNCHANGED <<open, bytes, size, pos, zeroing>>
<1>1. ASSUME Quiet, reply'.err \in Results PROVE FileTypeOK'
  BY <1>1 DEF StreamTypeOK, FileTypeOK
<1>2. /\ Place(s) \in Positions
      /\ \A n \in Nat : StaysInside(s, n) => U64(position[s] + n) = position[s] + n
  BY PlaceIs
<1>3. Extent[s] \in Nat /\ position[s] \in Nat
  BY ExtentAssumption DEF StreamTypeOK
<1>4. ASSUME NEW n \in Nat, StaysInside(s, n), MoveOn(s, n), UNCHANGED <<open, attached>>,
             FileTypeOK'
      PROVE  StreamTypeOK'
  BY <1>4, <1>2, <1>3 DEF StreamTypeOK, MoveOn, StaysInside
<1>5. CASE Attach(s)
  <2>1. /\ open /\ UNCHANGED <<open, bytes, size, pos, zeroing, reply, position>>
        /\ attached' = [attached EXCEPT ![s] = TRUE]
    BY <1>5 DEF Attach, Ready, fileVars
  <2>2. FileTypeOK'
    BY <2>1 DEF StreamTypeOK, FileTypeOK
  <2> QED
    BY <2>1, <2>2 DEF StreamTypeOK
<1>6. CASE Detach(s)
  <2>1. /\ UNCHANGED <<open, bytes, size, pos, zeroing, reply>>
        /\ attached' = [attached EXCEPT ![s] = FALSE]
        /\ position' = [position EXCEPT ![s] = 0]
    BY <1>6 DEF Detach, fileVars
  <2>2. FileTypeOK'
    BY <2>1 DEF StreamTypeOK, FileTypeOK
  <2>3. /\ position \in [Streams -> Nat] /\ Extent \in [Streams -> Nat]
        /\ \A t \in Streams : position[t] <= Extent[t]
    BY ExtentAssumption DEF StreamTypeOK
  <2>4. position' \in [Streams -> Nat]
    BY <2>1, <2>3
  <2>5. \A t \in Streams : position'[t] <= Extent[t]
    <3> SUFFICES ASSUME NEW t \in Streams PROVE position'[t] <= Extent[t]
      OBVIOUS
    <3>1. CASE t = s
      BY <2>1, <2>3, <3>1
    <3>2. CASE t # s
      BY <2>1, <2>3, <3>2
    <3> QED
      BY <3>1, <3>2
  <2>6. attached' \in [Streams -> BOOLEAN] /\ \A t \in Streams : attached'[t] => open'
    BY <2>1 DEF StreamTypeOK
  <2> QED
    BY <2>2, <2>6, <2>4, <2>5 DEF StreamTypeOK
<1>7. CASE NoDisk(s)
  BY <1>7, <1>1 DEF NoDisk, Fails, Answer, Results, StreamTypeOK, partVars
<1>8. CASE SeekFails(s)
  BY <1>8, <1>1 DEF SeekFails, Fails, Answer, Results, StreamTypeOK, partVars
<1>9. CASE PartGetPos(s)
  BY <1>9, <1>1 DEF PartGetPos, Answer, Results, StreamTypeOK, partVars
<1>10. CASE PartGetSize(s)
  BY <1>10, <1>1 DEF PartGetSize, Answer, Results, StreamTypeOK, partVars
<1>11. ASSUME NEW n \in 0..Extent[s], PartRead(s, n) PROVE StreamTypeOK'
  <2>1. n \in Nat
    BY <1>3
  <2>2. FileTypeOK'
    BY <1>11, <1>2, <2>1, ReadAtType DEF PartRead, StreamTypeOK
  <2> QED
    BY <1>11, <1>4, <2>1, <2>2 DEF PartRead
<1>12. ASSUME NEW buf \in Buffers(Extent[s]), PartWrite(s, buf) PROVE StreamTypeOK'
  <2>1. Len(buf) \in Nat /\ buf \in Seq(Bytes)
    BY <1>3, BufferIsSeq
  <2>2. Place(s) \in Nat
    BY <1>2, LongMaxAssumption DEF Positions
  <2>3. FileTypeOK'
    BY <1>12, <2>1, <2>2, WriteAtType DEF PartWrite, StreamTypeOK
  <2> QED
    BY <1>12, <1>4, <2>1, <2>3 DEF PartWrite
<1>13. ASSUME NEW p \in Counts, PartSetPos(s, p) PROVE StreamTypeOK'
  <2>1. reply'.err \in Results
    BY <1>13 DEF PartSetPos, Fails, Answer, Results
  <2>2. FileTypeOK'
    BY <1>13, <1>1, <2>1 DEF PartSetPos
  <2>3. p \in Nat
    BY CountsAssumption
  <2> QED
    BY <1>13, <2>2, <2>3 DEF PartSetPos, StreamTypeOK
<1> QED
  BY <1>5, <1>6, <1>7, <1>8, <1>9, <1>10, <1>11, <1>12, <1>13 DEF StreamCall

\* Every step keeps the types, of the file and of the partition streams.
LEMMA TypeStep ==
  ASSUME StreamTypeOK, [StreamNext]_streamVars
  PROVE  StreamTypeOK'
<1>1. CASE OpenDisk
  BY <1>1, OpenDiskType DEF OpenDisk, partVars, StreamTypeOK
<1>2. CASE CloseDisk
  BY <1>2 DEF CloseDisk, Done, Answer, Results, partVars, StreamTypeOK, FileTypeOK
<1>3. CASE HostCall
  <2>1. open' = open
    BY <1>3 DEF HostCall, SetPos, GetSize, GetPos, Read, Write, Resize, BeginZero
  <2> QED
    BY <1>3, <2>1, HostCallType DEF HostCall, partVars, StreamTypeOK
<1>4. CASE ZeroGoesOn
  <2>1. open' = open
    BY <1>4 DEF ZeroGoesOn, ZeroStep, ZeroBuffer, ZeroBufferFails, ZeroRest
  <2> QED
    BY <1>4, <2>1, ZeroStepType DEF ZeroGoesOn, partVars, StreamTypeOK
<1>5. CASE \E s \in Streams : StreamCall(s)
  BY <1>5, StreamCallType
<1>6. CASE UNCHANGED streamVars
  BY <1>6 DEF streamVars, fileVars, partVars, StreamTypeOK, FileTypeOK
<1> QED
  BY <1>1, <1>2, <1>3, <1>4, <1>5, <1>6 DEF StreamNext

\* A stream is never behind the end of its part, and open only on an open
\* disk; and what the disk holds, and its one position, are in the file.
THEOREM StreamTypeCorrect == StreamSpec => []StreamTypeOK
BY TypeInit, TypeStep, PTL DEF StreamSpec

(* -- Each stream is a Volume ----------------------------------------------- *)

\* A transfer that keeps off a part of the disk leaves it as it is.
LEMMA MovedElsewhere ==
  ASSUME StreamTypeOK, NEW s \in Streams, NEW at \in Nat, NEW n \in Nat,
         NEW buf, NEW done \in 0..n, Moved(at, buf, done),
         at + n <= Offset[s] \/ Offset[s] + Extent[s] <= at
  PROVE  Part(s)' = Part(s)
<1>1. /\ Offset[s] \in Nat /\ Extent[s] \in Nat /\ Offset[s] + Extent[s] <= LongMax
  BY ExtentAssumption
<1>2. ASSUME NEW o \in 0..(Extent[s] - 1) PROVE bytes'[Offset[s] + o] = bytes[Offset[s] + o]
  <2>1. Offset[s] + o \in Addresses
    BY <1>1, LongMaxAssumption DEF Addresses
  <2>2. ~(at <= Offset[s] + o /\ Offset[s] + o < at + done)
    BY <1>1
  <2> QED
    BY <2>1, <2>2 DEF Moved
<1> QED
  BY <1>2 DEF Part

\* What is somebody else's call for s.
LEMMA ElsewhereStep ==
  ASSUME StreamTypeOK, StreamTypeOK', NEW s \in Streams,
         reply'.by # s, attached[s] => Part(s)' = Part(s),
         attached'[s] = attached[s], position'[s] = position[s]
  PROVE  Private(s)!Next
<1>1. Part(s)' \in [0..(Extent[s] - 1) -> Bytes]
  BY ExtentAssumption, LongMaxAssumption DEF Part, Addresses, StreamTypeOK, FileTypeOK
<1>2. AnswerTo(s)' = [err |-> "none", data |-> <<>>]
  BY DEF AnswerTo
<1>3. Private(s)!Elsewhere
  BY <1>1, <1>2 DEF Private!Elsewhere, Private!NoAnswer, Private!Offsets
<1> QED
  BY <1>3 DEF Private!Next

\* While bootable_fstream_zero runs it is the host who waits for the answer, and
\* what is left to be zeroed is in no partition that is open.
ZeroKeepsOff ==
  zeroing # NoZeroing => /\ open /\ reply.by = Host
                         /\ pos = zeroing.from + zeroing.read_count
                         /\ KeepsOff(zeroing.from, zeroing.count)

StreamInv == StreamTypeOK /\ ZeroKeepsOff

\* What a bootable_fstream_zero that is under way has in hand.
LEMMA ZeroingType ==
  ASSUME StreamTypeOK, zeroing # NoZeroing
  PROVE  /\ zeroing.count \in Nat /\ zeroing.read_count \in Nat /\ zeroing.from \in Nat
         /\ zeroing.read_count <= zeroing.count
BY LongMaxAssumption DEF StreamTypeOK, FileTypeOK, Positions

\* bootable_fstream_zero goes on clear of the partition it was begun clear of.
LEMMA ZeroKeepsOffStep ==
  ASSUME StreamInv, [StreamNext]_streamVars
  PROVE  ZeroKeepsOff'
<1> USE DEF StreamInv
<1>1. CASE UNCHANGED <<open, zeroing, pos, reply, attached>>
  BY <1>1 DEF ZeroKeepsOff, KeepsOff
<1>2. CASE zeroing' = NoZeroing
  BY <1>2 DEF ZeroKeepsOff
<1>3. ASSUME NEW n \in Counts, KeepsOff(pos, n), BeginZero(n), UNCHANGED partVars
      PROVE  ZeroKeepsOff'
  <2>1. pos \in Nat
    BY LongMaxAssumption DEF StreamTypeOK, FileTypeOK, Positions
  <2>2. /\ zeroing'.count = n /\ zeroing'.read_count = 0 /\ zeroing'.from = pos
        /\ pos' = pos /\ reply'.by = Host /\ attached' = attached /\ open'
    BY <1>3 DEF BeginZero, Ready, Answer, partVars
  <2> QED
    BY <1>3, <2>1, <2>2 DEF ZeroKeepsOff, KeepsOff
<1>4. CASE ZeroBuffer /\ UNCHANGED partVars
  <2>1. zeroing # NoZeroing
    BY <1>4 DEF ZeroBuffer, Zeroing
  <2>2. zeroing \in [count : Nat, read_count : Nat, from : Positions,
                      before : [Addresses -> Bytes]]
    BY <2>1 DEF StreamTypeOK, FileTypeOK
  <2>3. /\ zeroing'.count = zeroing.count /\ zeroing'.from = zeroing.from
        /\ zeroing'.read_count = zeroing.read_count + BufSize
        /\ pos' = pos + BufSize /\ UNCHANGED <<reply, attached, open>>
    BY <1>4, <2>2 DEF ZeroBuffer, Moved, partVars
  <2> QED
    BY <2>1, <2>3, ZeroingType, BufSizeAssumption DEF ZeroKeepsOff, KeepsOff
<1>5. CASE OpenDisk
  BY <1>5 DEF OpenDisk, Open, ZeroKeepsOff
<1>6. CASE CloseDisk
  BY <1>6, <1>2 DEF CloseDisk, Done, Ready
<1>7. CASE HostCall
  <2>1. CASE \E n \in Counts : KeepsOff(pos, n) /\ BeginZero(n)
    BY <1>3, <1>7, <2>1 DEF HostCall
  <2>2. CASE ~\E n \in Counts : KeepsOff(pos, n) /\ BeginZero(n)
    BY <1>2, <1>7, <2>2 DEF HostCall, SetPos, GetSize, GetPos, Read, Write, Resize, Ready
  <2> QED
    BY <2>1, <2>2
<1>8. CASE ZeroGoesOn
  BY <1>2, <1>4, <1>8 DEF ZeroGoesOn, ZeroStep, ZeroBufferFails, ZeroRest
<1>9. ASSUME NEW s \in Streams, StreamCall(s) PROVE ZeroKeepsOff'
  BY <1>9, <1>2 DEF StreamCall, Attach, Detach, NoDisk, SeekFails, PartGetPos, PartGetSize,
                    PartRead, PartWrite, PartSetPos, CanSeek, Ready, fileVars
<1>10. CASE UNCHANGED streamVars
  BY <1>10, <1>1 DEF streamVars, fileVars, partVars
<1> QED
  BY <1>5, <1>6, <1>7, <1>8, <1>9, <1>10 DEF StreamNext

\* What a write through a stream puts into the file is in its part.
LEMMA MovedInside ==
  ASSUME StreamTypeOK, NEW s \in Streams, NEW n \in Nat, StaysInside(s, n),
         NEW buf, NEW done \in 0..n, Moved(Offset[s] + position[s], buf, done)
  PROVE  Part(s)' = [o \in 0..(Extent[s] - 1) |->
                       IF position[s] <= o /\ o < position[s] + done
                       THEN buf[o - position[s] + 1] ELSE Part(s)[o]]
<1>1. /\ Offset[s] \in Nat /\ Extent[s] \in Nat /\ Offset[s] + Extent[s] <= LongMax
      /\ position[s] \in Nat
  BY ExtentAssumption DEF StreamTypeOK
<1> DEFINE at == Offset[s] + position[s]
<1>2. \A a \in Addresses :
        bytes'[a] = IF at <= a /\ a < at + done THEN buf[a - at + 1] ELSE bytes[a]
  BY DEF Moved
<1> HIDE DEF at
<1>3. ASSUME NEW o \in 0..(Extent[s] - 1)
      PROVE  bytes'[Offset[s] + o] =
               IF position[s] <= o /\ o < position[s] + done
               THEN buf[o - position[s] + 1] ELSE Part(s)[o]
  <2>1. PICK a \in Addresses : a = Offset[s] + o
    BY <1>1, LongMaxAssumption DEF Addresses
  <2>2. Part(s)[o] = bytes[a]
    BY <2>1 DEF Part
  <2>3. /\ (at <= a) <=> position[s] <= o
        /\ (a < at + done) <=> o < position[s] + done
        /\ a - at + 1 = o - position[s] + 1
    BY <1>1, <2>1 DEF at
  <2>4. bytes'[a] = IF at <= a /\ a < at + done THEN buf[a - at + 1] ELSE bytes[a]
    BY <1>2
  <2>5. CASE position[s] <= o /\ o < position[s] + done
    BY <2>1, <2>3, <2>4, <2>5
  <2>6. CASE ~(position[s] <= o /\ o < position[s] + done)
    BY <2>1, <2>2, <2>3, <2>4, <2>6
  <2> QED
    BY <2>5, <2>6
<1> QED
  BY <1>3 DEF Part

\* A call on a stream is a call on its volume.
LEMMA OwnStep ==
  ASSUME StreamTypeOK, StreamTypeOK', NEW s \in Streams, StreamCall(s)
  PROVE  Private(s)!Next
<1> DEFINE Same == UNCHANGED <<Part(s), attached[s]>>
<1>1. /\ Extent[s] \in Nat /\ position[s] \in Nat /\ position'[s] \in 0..Extent[s]
      /\ position[s] \in 0..Extent[s]
  BY ExtentAssumption DEF StreamTypeOK
<1>2. /\ Place(s) = Offset[s] + position[s]
      /\ \A n \in Nat : StaysInside(s, n) => U64(position[s] + n) = position[s] + n
  BY PlaceIs
<1>3. ASSUME NEW n \in Nat, StaysInside(s, n), MoveOn(s, n)
      PROVE  position'[s] = position[s] + n /\ position[s] + n <= Extent[s]
  BY <1>3, <1>2 DEF MoveOn, StaysInside, StreamTypeOK
<1>4. ASSUME NEW err, NEW data, Answer(s, err, data)
      PROVE  AnswerTo(s)' = [err |-> err, data |-> data]
  BY <1>4 DEF Answer, AnswerTo
<1>5. ASSUME NEW err \in {"EIO", "EINVAL", "EFAULT"}, Fails(s, err), Same
      PROVE  Private(s)!Next
  <2>1. AnswerTo(s)' = [err |-> err, data |-> <<>>]
    BY <1>4, <1>5 DEF Fails
  <2>2. Private(s)!Failed
    BY <1>1, <1>5, <2>1 DEF Private!Failed, Private!Is
  <2> QED
    BY <2>2 DEF Private!Next
<1>6. ASSUME UNCHANGED bytes PROVE Part(s)' = Part(s)
  BY <1>6 DEF Part
<1>7. CASE Attach(s)
  <2>1. Private(s)!Attach
    BY <1>7, <1>6 DEF Attach, fileVars, Private!Attach, AnswerTo, StreamTypeOK
  <2> QED
    BY <2>1 DEF Private!Next
<1>8. CASE Detach(s)
  <2>1. Private(s)!Detach
    BY <1>8, <1>6 DEF Detach, fileVars, Private!Detach, AnswerTo, StreamTypeOK
  <2> QED
    BY <2>1 DEF Private!Next
<1>9. CASE NoDisk(s)
  BY <1>9, <1>5, <1>6 DEF NoDisk, partVars
<1>10. CASE SeekFails(s)
  BY <1>10, <1>5, <1>6 DEF SeekFails, partVars
<1>11. CASE PartGetPos(s)
  <2>1. AnswerTo(s)' = [err |-> "ok", data |-> <<position[s]>>]
    BY <1>11, <1>4 DEF PartGetPos
  <2>2. Private(s)!Ask(position[s])
    BY <1>11, <1>6, <2>1 DEF PartGetPos, partVars, Private!Ask, Private!Is
  <2> QED
    BY <2>2 DEF Private!Next
<1>12. CASE PartGetSize(s)
  <2> DEFINE Told == IF attached[s] THEN Extent[s] ELSE 0
  <2>1. AnswerTo(s)' = [err |-> "ok", data |-> <<Told>>]
    BY <1>12, <1>4 DEF PartGetSize
  <2>2. Private(s)!Ask(Told)
    BY <1>12, <1>6, <2>1 DEF PartGetSize, partVars, Private!Ask, Private!Is
  <2> QED
    BY <2>2 DEF Private!Next
<1>13. ASSUME NEW n \in 0..Extent[s], PartRead(s, n) PROVE Private(s)!Next
  <2>1. n \in Nat /\ n \in 0..Extent[s] /\ Same
    BY <1>13, <1>1, <1>6 DEF PartRead, ReadAt
  <2>2. CASE Fails(s, "EIO")
    BY <1>5, <2>1, <2>2
  <2>3. CASE Answer(s, "ok", Slice(Place(s), n))
    <3>1. position'[s] = position[s] + n /\ position[s] + n <= Extent[s]
      BY <1>13, <1>3, <2>1 DEF PartRead
    <3>2. Slice(Place(s), n) = [i \in 1..n |-> Part(s)[position[s] + i - 1]]
      <4>1. \A i \in 1..n : /\ position[s] + i - 1 \in 0..(Extent[s] - 1)
                            /\ Place(s) + i - 1 = Offset[s] + (position[s] + i - 1)
        BY <1>1, <1>2, <3>1, ExtentAssumption
      <4> QED
        BY <4>1 DEF Slice, Part
    <3>3. AnswerTo(s)' = [err |-> "ok", data |-> [i \in 1..n |-> Part(s)[position[s] + i - 1]]]
      BY <1>4, <2>3, <3>2
    <3>4. Private(s)!Read(n)
      BY <1>13, <2>1, <3>1, <3>3 DEF PartRead, CanSeek, Private!Read, Private!Is
    <3> QED
      BY <2>1, <3>4 DEF Private!Next
  <2> QED
    BY <1>13, <2>2, <2>3 DEF PartRead, ReadAt
<1>14. ASSUME NEW buf \in Buffers(Extent[s]), PartWrite(s, buf) PROVE Private(s)!Next
  <2>1. Len(buf) \in 0..Extent[s] /\ Len(buf) \in Nat
    BY <1>1, BufferIsSeq
  <2>2. PICK done \in 0..Len(buf) :
          /\ Moved(Offset[s] + position[s], buf, done)
          /\ Answer(s, IF done = Len(buf) THEN "ok" ELSE "EIO", <<>>)
    BY <1>14, <1>2 DEF PartWrite, WriteAt
  <2>3. /\ position'[s] = position[s] + Len(buf) /\ position[s] + Len(buf) <= Extent[s]
        /\ attached[s] /\ attached'[s]
    BY <1>14, <1>3, <2>1 DEF PartWrite, CanSeek
  <2>4. Private(s)!Put(buf, done)
    <3>1. StaysInside(s, Len(buf))
      BY <1>14 DEF PartWrite
    <3>2. Part(s)' = [o \in 0..(Extent[s] - 1) |->
                        IF position[s] <= o /\ o < position[s] + done
                        THEN buf[o - position[s] + 1] ELSE Part(s)[o]]
      BY <2>1, <2>2, <3>1, MovedInside
    <3> QED
      BY <3>2 DEF Private!Put, Private!Offsets
  <2>5. buf \in Private(s)!Buffers
    BY DEF Buffers, Private!Buffers
  <2>6. CASE done = Len(buf)
    <3>1. AnswerTo(s)' = [err |-> "ok", data |-> <<>>]
      BY <1>4, <2>2, <2>6
    <3>2. Private(s)!Write(buf)
      BY <2>3, <2>4, <2>6, <3>1 DEF Private!Write, Private!Is
    <3> QED
      BY <2>5, <3>2 DEF Private!Next
  <2>7. CASE done # Len(buf)
    <3>1. AnswerTo(s)' = [err |-> "EIO", data |-> <<>>]
      BY <1>4, <2>2, <2>7
    <3>2. Private(s)!FailedWrite(buf)
      BY <1>1, <2>3, <2>4, <3>1 DEF Private!FailedWrite, Private!Is
    <3> QED
      BY <2>5, <3>2 DEF Private!Next
  <2> QED
    BY <2>6, <2>7
<1>15. ASSUME NEW p \in Counts, PartSetPos(s, p) PROVE Private(s)!Next
  <2>1. Same /\ attached[s]
    BY <1>15, <1>6 DEF PartSetPos
  <2>2. CASE p > Extent[s]
    <3>1. Fails(s, "EINVAL")
      BY <1>15, <1>1, <2>2, CountsAssumption DEF PartSetPos
    <3> QED
      BY <1>5, <2>1, <3>1
  <2>3. CASE ~(p > Extent[s])
    <3>1. /\ p \in 0..Extent[s] /\ Answer(s, "ok", <<>>) /\ position'[s] = p
      BY <1>15, <1>1, <2>3, CountsAssumption DEF PartSetPos, StreamTypeOK
    <3>2. AnswerTo(s)' = [err |-> "ok", data |-> <<>>]
      BY <1>4, <3>1
    <3>3. Private(s)!SetPosition(p)
      BY <2>1, <3>1, <3>2 DEF Private!SetPosition, Private!Is
    <3> QED
      BY <3>1, <3>3 DEF Private!Next
  <2> QED
    BY <2>2, <2>3
<1> QED
  BY <1>7, <1>8, <1>9, <1>10, <1>11, <1>12, <1>13, <1>14, <1>15 DEF StreamCall

\* A call on another stream is somebody else's, or nothing.
LEMMA OtherStep ==
  ASSUME StreamTypeOK, StreamTypeOK', NEW s \in Streams, NEW t \in Streams, t # s,
         StreamCall(t)
  PROVE  \/ Private(s)!Next
         \/ UNCHANGED <<Part(s), attached[s], position[s], AnswerTo(s)>>
<1> DEFINE Mine == attached'[s] = attached[s] /\ position'[s] = position[s]
<1>1. ASSUME UNCHANGED attached, \/ UNCHANGED position
                                 \/ \E p : position' = [position EXCEPT ![t] = p]
      PROVE  Mine
  BY <1>1 DEF StreamTypeOK
<1>2. CASE Attach(t) \/ Detach(t)
  BY <1>2 DEF Attach, Detach, fileVars, Part, AnswerTo, StreamTypeOK
<1>3. ASSUME UNCHANGED bytes, Mine, reply'.by = t PROVE Private(s)!Next
  BY <1>3, ElsewhereStep DEF Part
<1>4. CASE NoDisk(t) \/ SeekFails(t) \/ PartGetPos(t) \/ PartGetSize(t)
  BY <1>3, <1>4 DEF NoDisk, SeekFails, PartGetPos, PartGetSize, Fails, Answer, partVars
<1>5. ASSUME NEW n \in 0..Extent[t], PartRead(t, n) PROVE Private(s)!Next
  BY <1>3, <1>5, <1>1 DEF PartRead, MoveOn, ReadAt, Fails, Answer
<1>6. ASSUME NEW p \in Counts, PartSetPos(t, p) PROVE Private(s)!Next
  BY <1>3, <1>6, <1>1 DEF PartSetPos, Fails, Answer
<1>7. ASSUME NEW buf \in Buffers(Extent[t]), PartWrite(t, buf) PROVE Private(s)!Next
  <2>1. /\ Extent[t] \in Nat /\ Extent[s] \in Nat /\ Offset[s] \in Nat /\ Offset[t] \in Nat
        /\ position[t] \in Nat
    BY ExtentAssumption DEF StreamTypeOK
  <2>2. Len(buf) \in Nat
    BY <2>1, BufferIsSeq
  <2>3. Place(t) = Offset[t] + position[t] /\ position[t] + Len(buf) <= Extent[t]
    BY <1>7, PlaceIs DEF PartWrite, StaysInside
  <2>4. PICK done \in 0..Len(buf) : Moved(Place(t), buf, done)
    BY <1>7 DEF PartWrite, WriteAt
  <2>5. Place(t) + Len(buf) <= Offset[s] \/ Offset[s] + Extent[s] <= Place(t)
    <3>1. \/ Offset[t] + Extent[t] <= Offset[s]
          \/ Offset[s] + Extent[s] <= Offset[t]
      BY <1>1, ApartAssumption
    <3>2. CASE Offset[t] + Extent[t] <= Offset[s]
      BY <2>1, <2>2, <2>3, <3>2
    <3>3. CASE Offset[s] + Extent[s] <= Offset[t]
      BY <2>1, <2>3, <3>3
    <3> QED
      BY <3>1, <3>2, <3>3
  <2>6. Part(s)' = Part(s)
    BY <2>1, <2>2, <2>3, <2>4, <2>5, MovedElsewhere
  <2>7. Mine /\ reply'.by = t
    BY <1>7, <1>1 DEF PartWrite, MoveOn, WriteAt, Answer
  <2> QED
    BY <2>6, <2>7, ElsewhereStep
<1> QED
  BY <1>2, <1>4, <1>5, <1>6, <1>7 DEF StreamCall

\* So is a call of the host on the file itself.
LEMMA HostStep ==
  ASSUME StreamInv, StreamTypeOK', NEW s \in Streams,
         OpenDisk \/ CloseDisk \/ HostCall \/ ZeroGoesOn
  PROVE  Private(s)!Next
<1> USE DEF StreamInv
<1>1. UNCHANGED partVars /\ Host # s
  BY StreamsAssumption DEF OpenDisk, CloseDisk, HostCall, ZeroGoesOn
<1>2. ASSUME UNCHANGED bytes \/ ~attached[s], reply'.by = Host PROVE Private(s)!Next
  BY <1>1, <1>2, ElsewhereStep DEF Part, partVars
<1>3. ASSUME NEW at \in Nat, NEW n \in Nat, NEW buf, NEW done \in 0..n,
             KeepsOff(at, n), Moved(at, buf, done), reply'.by = Host
      PROVE  Private(s)!Next
  <2>1. attached[s] => Part(s)' = Part(s)
    BY <1>3, MovedElsewhere DEF KeepsOff
  <2> QED
    BY <1>1, <1>3, <2>1, ElsewhereStep DEF partVars
<1>4. pos \in Nat
  BY LongMaxAssumption DEF StreamTypeOK, FileTypeOK, Positions
<1>5. CASE OpenDisk
  <2>1. ~attached[s]
    BY <1>5 DEF OpenDisk, Open, StreamTypeOK
  <2>2. reply'.by = Host
    BY <1>5 DEF OpenDisk, Open, Fails, Answer
  <2> QED
    BY <1>2, <2>1, <2>2
<1>6. CASE CloseDisk
  BY <1>2, <1>6 DEF CloseDisk, Done, Answer
<1>7. CASE HostCall
  <2>1. CASE \/ (\E p \in Counts : SetPos(p)) \/ GetSize \/ GetPos
             \/ (\E n \in Counts : Read(n)) \/ (\E n \in Counts : BeginZero(n))
    BY <1>2, <2>1 DEF SetPos, GetSize, GetPos, Read, ReadAt, BeginZero, Fails, Answer
  <2>2. ASSUME NEW buf \in Buffers(1), KeepsOff(pos, Len(buf)), Write(buf)
        PROVE  Private(s)!Next
    <3>1. Len(buf) \in Nat
      BY BufferIsSeq
    <3>2. PICK done \in 0..Len(buf) : Moved(pos, buf, done)
      BY <2>2 DEF Write, WriteAt
    <3>3. reply'.by = Host
      BY <2>2 DEF Write, WriteAt, Answer
    <3> QED
      BY <1>3, <1>4, <2>2, <3>1, <3>2, <3>3
  <2>3. ASSUME NEW n \in Counts, KeepsOff(n - 1, 1), Resize(n) PROVE Private(s)!Next
    <3>1. reply'.by = Host
      BY <2>3 DEF Resize, WriteAt, Fails, Answer
    <3>2. CASE UNCHANGED bytes
      BY <1>2, <3>1, <3>2
    <3>3. CASE n >= 1 /\ WriteAt(Host, n - 1, <<ZeroByte>>)
      <4>1. PICK done \in 0..1 : Moved(n - 1, <<ZeroByte>>, done)
        BY <3>3 DEF WriteAt
      <4>2. n - 1 \in Nat
        BY <3>3, CountsAssumption
      <4> QED
        BY <1>3, <2>3, <3>1, <4>1, <4>2
    <3> QED
      BY <2>3, <3>2, <3>3 DEF Resize
  <2> QED
    BY <1>7, <2>1, <2>2, <2>3 DEF HostCall
<1>8. CASE ZeroGoesOn
  <2>1. zeroing # NoZeroing
    BY <1>8 DEF ZeroGoesOn, ZeroStep, ZeroBuffer, ZeroBufferFails, ZeroRest, Zeroing
  <2>2. PICK rest \in Nat : rest = zeroing.count - zeroing.read_count
    BY <2>1, ZeroingType
  <2>3. reply'.by = Host
    <3>1. CASE ZeroBuffer
      BY <2>1, <3>1 DEF ZeroBuffer, ZeroKeepsOff
    <3>2. CASE ZeroBufferFails
      BY <3>2 DEF ZeroBufferFails, Fails, Answer
    <3>3. CASE ZeroRest
      BY <3>3 DEF ZeroRest, WriteAt, Answer
    <3> QED
      BY <1>8, <3>1, <3>2, <3>3 DEF ZeroGoesOn, ZeroStep
  <2>4. KeepsOff(pos, rest)
    BY <2>1, <2>2, ZeroingType, ExtentAssumption DEF ZeroKeepsOff, KeepsOff
  <2>5. \E buf : \E done \in 0..rest : Moved(pos, buf, done)
    <3>1. CASE ZeroBuffer \/ ZeroBufferFails
      <4>1. BufSize < rest
        BY <2>1, <2>2, <3>1, ZeroingType, BufSizeAssumption
        DEF ZeroBuffer, ZeroBufferFails, MoreThanABuffer
      <4>2. \E done \in 0..BufSize : Moved(pos, Zeros(BufSize), done)
        BY <3>1, BufSizeAssumption DEF ZeroBuffer, ZeroBufferFails
      <4> QED
        BY <4>1, <4>2, BufSizeAssumption
    <3>2. CASE ZeroRest
      <4>1. Len(Zeros(rest)) = rest
        BY DEF Zeros
      <4> QED
        BY <2>2, <3>2, <4>1 DEF ZeroRest, WriteAt
    <3> QED
      BY <1>8, <3>1, <3>2 DEF ZeroGoesOn, ZeroStep
  <2> QED
    BY <1>3, <1>4, <2>3, <2>4, <2>5
<1> QED
  BY <1>5, <1>6, <1>7, <1>8

\* Every step, the host file's too, is a step of the private store or changes nothing in it.
LEMMA StepIsPrivate ==
  ASSUME StreamInv, StreamInv', [StreamNext]_streamVars, NEW s \in Streams
  PROVE  [Private(s)!Next]_<<Part(s), attached[s], position[s], AnswerTo(s)>>
<1> USE DEF StreamInv
<1>1. CASE \E t \in Streams : StreamCall(t)
  BY <1>1, OwnStep, OtherStep
<1>2. CASE OpenDisk \/ CloseDisk \/ HostCall \/ ZeroGoesOn
  BY <1>2, HostStep
<1>3. CASE UNCHANGED streamVars
  BY <1>3 DEF streamVars, fileVars, partVars, Part, AnswerTo
<1> QED
  BY <1>1, <1>2, <1>3 DEF StreamNext

\* The streams start as stores that nobody else writes to.
LEMMA InitIsPrivate ==
  ASSUME StreamInit
  PROVE  /\ \A s \in Streams : Private(s)!Init
         /\ StreamInv
<1>1. ASSUME NEW s \in Streams PROVE Private(s)!Init
  <2>1. Part(s) \in [0..(Extent[s] - 1) -> Bytes]
    BY ExtentAssumption, LongMaxAssumption DEF StreamInit, Part, Addresses
  <2> QED
    BY <2>1, StreamsAssumption
    DEF StreamInit, Private!Init, Private!Offsets, Private!NoAnswer, AnswerTo
<1>2. zeroing = NoZeroing
  BY DEF StreamInit
<1> QED
  BY <1>1, <1>2, TypeInit DEF StreamInv, ZeroKeepsOff

\* Whichever other streams are open on the disk, and whatever is done with the
\* disk itself, a stream whose caller stays inside its part is a medium of its
\* own: what it reads is what was last written through it.
THEOREM EachStreamIsPrivate == StreamSpec => EachIsPrivate
<1>1. StreamInv /\ [StreamNext]_streamVars => StreamInv'
  BY TypeStep, ZeroKeepsOffStep DEF StreamInv
<1>2. StreamInv /\ StreamInv' /\ [StreamNext]_streamVars =>
        \A s \in Streams :
          [Private(s)!Next]_<<Part(s), attached[s], position[s], AnswerTo(s)>>
  BY StepIsPrivate
<1> QED
  BY InitIsPrivate, <1>1, <1>2, PTL DEF StreamSpec, EachIsPrivate

(* -- Zeroing --------------------------------------------------------------- *)

\* The bytes that are left of those before when n from some place on are zeroed.
Zeroed(after, from, n, before) ==
  \A a \in Addresses :
    after[a] = IF from <= a /\ a < from + n THEN ZeroByte ELSE before[a]

\* The buffers that have been written so far have zeroed so many bytes of what
\* was there when the loop began, and no other.
ZeroedSoFar ==
  zeroing # NoZeroing =>
    Zeroed(bytes, zeroing.from, zeroing.read_count, zeroing.before)

ZeroInv == StreamInv /\ ZeroedSoFar

\* Zeros written behind those that are there make the range longer.
LEMMA MoreZeros ==
  ASSUME NEW from \in Nat, NEW n \in Nat, NEW before, NEW m \in Nat, NEW done \in 0..m,
         Zeroed(bytes, from, n, before),
         NEW at, at = from + n, Moved(at, Zeros(m), done), NEW more, more = n + done
  PROVE  Zeroed(bytes', from, more, before) /\ pos' = from + more
<1>1. ASSUME NEW a \in Addresses
      PROVE  bytes'[a] = IF from <= a /\ a < from + (n + done) THEN ZeroByte ELSE before[a]
  <2>1. a \in Nat
    BY LongMaxAssumption DEF Addresses
  <2>2. bytes'[a] = IF from + n <= a /\ a < (from + n) + done
                    THEN Zeros(m)[a - (from + n) + 1] ELSE bytes[a]
    BY DEF Moved
  <2>5. bytes[a] = IF from <= a /\ a < from + n THEN ZeroByte ELSE before[a]
    BY DEF Zeroed
  <2>3. CASE from + n <= a /\ a < (from + n) + done
    <3>1. a - (from + n) + 1 \in 1..m /\ from <= a /\ a < from + (n + done)
      BY <2>1, <2>3
    <3>2. Zeros(m)[a - (from + n) + 1] = ZeroByte
      BY <3>1 DEF Zeros
    <3> QED
      BY <2>2, <2>3, <3>1, <3>2
  <2>4. CASE ~(from + n <= a /\ a < (from + n) + done)
    <3>1. (from <= a /\ a < from + n) <=> (from <= a /\ a < from + (n + done))
      BY <2>1, <2>4
    <3> QED
      BY <2>2, <2>4, <2>5, <3>1
  <2> QED
    BY <2>3, <2>4
<1>2. pos' = from + (n + done)
  BY DEF Moved
<1> QED
  BY <1>1, <1>2 DEF Zeroed

\* Only the loop itself touches the file while it runs.
LEMMA ZeroedSoFarStep ==
  ASSUME ZeroInv, [StreamNext]_streamVars
  PROVE  ZeroedSoFar'
<1> USE DEF ZeroInv, StreamInv
<1>1. CASE zeroing' = NoZeroing
  BY <1>1 DEF ZeroedSoFar
<1>2. CASE UNCHANGED <<zeroing, bytes>>
  BY <1>2 DEF ZeroedSoFar
<1>3. ASSUME NEW n \in Counts, BeginZero(n)
      PROVE  ZeroedSoFar'
  <2>1. /\ zeroing'.read_count = 0 /\ zeroing'.from = pos /\ zeroing'.before = bytes
        /\ bytes' = bytes
    BY <1>3 DEF BeginZero
  <2>2. \A a : ~(pos <= a /\ a < pos + 0) \/ a \notin Addresses
    BY LongMaxAssumption DEF StreamTypeOK, FileTypeOK, Positions, Addresses
  <2> QED
    BY <2>1, <2>2 DEF ZeroedSoFar, Zeroed
<1>4. CASE ZeroBuffer
  <2>1. zeroing # NoZeroing
    BY <1>4 DEF ZeroBuffer, Zeroing
  <2>2. zeroing \in [count : Nat, read_count : Nat, from : Positions,
                     before : [Addresses -> Bytes]]
    BY <2>1 DEF StreamTypeOK, FileTypeOK
  <2>3. PICK from \in Nat, n \in Nat, before \in {zeroing.before} :
          from = zeroing.from /\ n = zeroing.read_count /\ before = zeroing.before
    BY <2>1, ZeroingType
  <2>4. /\ zeroing'.from = from /\ zeroing'.before = before
        /\ zeroing'.read_count = n + BufSize
    BY <1>4, <2>2, <2>3 DEF ZeroBuffer
  <2>5. pos = from + n /\ Moved(pos, Zeros(BufSize), BufSize)
    BY <1>4, <2>1, <2>3 DEF ZeroBuffer, ZeroKeepsOff
  <2>6. Zeroed(bytes, from, n, before)
    BY <2>1, <2>3 DEF ZeroedSoFar
  <2>7. BufSize \in Nat /\ BufSize \in 0..BufSize
    BY BufSizeAssumption
  <2>8. PICK more : more = n + BufSize
    OBVIOUS
  <2>9. Zeroed(bytes', from, more, before)
    BY <2>5, <2>6, <2>7, <2>8, MoreZeros, Zenon
  <2> QED
    BY <2>4, <2>8, <2>9 DEF ZeroedSoFar, Zeroed, Addresses
<1>5. CASE OpenDisk
  <2>1. ~open /\ zeroing' = zeroing
    BY <1>5 DEF OpenDisk, Open
  <2> QED
    BY <1>1, <2>1 DEF ZeroKeepsOff
<1>6. CASE CloseDisk
  BY <1>2, <1>6 DEF CloseDisk, Done
<1>7. CASE HostCall
  <2>1. CASE \E n \in Counts : BeginZero(n)
    BY <1>3, <2>1
  <2>2. CASE ~\E n \in Counts : BeginZero(n)
    BY <1>1, <1>7, <2>2 DEF HostCall, SetPos, GetSize, GetPos, Read, Write, Resize, Ready
  <2> QED
    BY <2>1, <2>2
<1>8. CASE ZeroGoesOn
  BY <1>1, <1>4, <1>8 DEF ZeroGoesOn, ZeroStep, ZeroBufferFails, ZeroRest
<1>9. ASSUME NEW s \in Streams, StreamCall(s) PROVE ZeroedSoFar'
  BY <1>9, <1>1 DEF StreamCall, Attach, Detach, NoDisk, SeekFails, PartGetPos, PartGetSize,
                    PartRead, PartWrite, PartSetPos, CanSeek, Ready, fileVars
<1>10. CASE UNCHANGED streamVars
  BY <1>10, <1>2 DEF streamVars, fileVars
<1> QED
  BY <1>5, <1>6, <1>7, <1>8, <1>9, <1>10 DEF StreamNext

\* Nothing but its last buffer lets the loop return without an error.
LEMMA OnlyTheRestReturns ==
  ASSUME ZeroInv, [StreamNext]_streamVars, ZeroReturns
  PROVE  ZeroRest
<1> USE DEF ZeroInv, StreamInv, ZeroReturns
<1>1. /\ open /\ zeroing.count \in Nat
      /\ zeroing \in [count : Nat, read_count : Nat, from : Positions,
                      before : [Addresses -> Bytes]]
  BY DEF ZeroKeepsOff, StreamTypeOK, FileTypeOK
<1>2. CASE ZeroGoesOn
  <2>1. ~ZeroBuffer
    <3> SUFFICES ASSUME ZeroBuffer
                 PROVE  FALSE
      OBVIOUS
    <3>1. zeroing'.count = zeroing.count
      BY <1>1 DEF ZeroBuffer
    <3>2. NoZeroing.count = -1
      BY DEF NoZeroing
    <3> QED
      BY <1>1, <3>1, <3>2
  <2>2. ~ZeroBufferFails
    BY DEF ZeroBufferFails, Fails, Answer
  <2> QED
    BY <1>2, <2>1, <2>2 DEF ZeroGoesOn, ZeroStep
<1>3. CASE OpenDisk \/ CloseDisk \/ HostCall
  BY <1>1, <1>3 DEF OpenDisk, CloseDisk, HostCall, Open, Done, SetPos, GetSize, GetPos, Read,
                    Write, Resize, BeginZero, Ready
<1>4. ASSUME NEW s \in Streams, StreamCall(s) PROVE FALSE
  BY <1>4 DEF StreamCall, Attach, Detach, NoDisk, SeekFails, PartGetPos, PartGetSize,
              PartRead, PartWrite, PartSetPos, CanSeek, Ready, fileVars
<1>5. CASE UNCHANGED streamVars
  BY <1>5 DEF streamVars, fileVars
<1> QED
  BY <1>2, <1>3, <1>4, <1>5 DEF StreamNext

LEMMA RestIsExact ==
  ASSUME ZeroInv, [StreamNext]_streamVars, ZeroReturns
  PROVE  /\ pos' = zeroing.from + zeroing.count
         /\ Zeroed(bytes', zeroing.from, zeroing.count, zeroing.before)
<1> USE DEF ZeroInv, StreamInv
<1>1. ZeroRest /\ zeroing # NoZeroing
  BY OnlyTheRestReturns DEF ZeroReturns
<1>2. PICK from \in Nat, n \in Nat, count \in Nat, before \in {zeroing.before} :
        /\ from = zeroing.from /\ n = zeroing.read_count
        /\ count = zeroing.count /\ before = zeroing.before /\ n <= count
  BY <1>1, ZeroingType
<1>3. PICK m \in Nat : m = count - n
  BY <1>2
<1>4. Len(Zeros(m)) = m
  BY DEF Zeros
<1>5. pos = from + n /\ Moved(pos, Zeros(m), m)
  <2>1. pos = from + n /\ WriteAt(Host, pos, Zeros(m))
    BY <1>1, <1>2, <1>3 DEF ZeroRest, ZeroKeepsOff
  <2>2. PICK done \in 0..m :
          /\ Moved(pos, Zeros(m), done)
          /\ Answer(Host, IF done = m THEN "ok" ELSE "EIO", <<>>)
    BY <1>4, <2>1 DEF WriteAt
  <2>3. done = m
    BY <2>2 DEF ZeroReturns, Answer
  <2> QED
    BY <2>1, <2>2, <2>3
<1>6. Zeroed(bytes, from, n, before)
  BY <1>1, <1>2 DEF ZeroedSoFar
<1>7. m \in 0..m /\ count = n + m
  BY <1>2, <1>3
<1>8. Zeroed(bytes', from, count, before) /\ pos' = from + count
  <2>1. PICK at : at = pos
    OBVIOUS
  <2>2. at = from + n /\ Moved(at, Zeros(m), m)
    BY <1>5, <2>1, Zenon
  <2>3. Zeroed(bytes', from, count, before) /\ pos' = from + count
    BY <1>6, <1>7, <2>2, MoreZeros
  <2> QED
    BY <2>3
<1> QED
  BY <1>2, <1>8

\* bootable_fstream_zero that succeeds has zeroed as many bytes as it was asked
\* to, from where the position was, and no other, for buffers of any size.
THEOREM ZeroingIsExact == StreamSpec => ZeroExact
<1>1. StreamInit => ZeroInv
  BY InitIsPrivate DEF ZeroInv, ZeroedSoFar, StreamInit
<1>2. ZeroInv /\ [StreamNext]_streamVars => ZeroInv'
  BY TypeStep, ZeroKeepsOffStep, ZeroedSoFarStep DEF ZeroInv, StreamInv
<1>3. ZeroInv /\ [StreamNext]_streamVars =>
        [ZeroReturns =>
           /\ pos' = zeroing.from + zeroing.count
           /\ \A a \in Addresses :
                bytes'[a] = IF zeroing.from <= a /\ a < zeroing.from + zeroing.count
                            THEN ZeroByte ELSE zeroing.before[a]]_fileVars
  BY RestIsExact DEF Zeroed
<1> QED
  BY <1>1, <1>2, <1>3, PTL DEF StreamSpec, ZeroExact
=============================================================================
