------------------------------- MODULE Volume -------------------------------
(****************************************************************************)
(* What a partition stream promises: a medium of its own of Size bytes, as  *)
(* if nobody else used the disk.  A call may fail, and then a part of what  *)
(* was to be written has been, and the position may have moved.             *)
(*                                                                          *)
(* While no stream is open on it the bytes may change: the disk is made     *)
(* anew, or written to directly.                                            *)
(****************************************************************************)
EXTENDS Integers, Sequences

CONSTANTS Bytes,    \* what a byte may be
          Size,     \* the number of them
          Errors    \* the errors a call may return

VARIABLES contents,   \* the bytes
          attached,   \* whether a stream is open on them
          position,   \* its position
          answer      \* what the last call returned, NoAnswer when another's did

volumeVars == <<contents, attached, position, answer>>

NoAnswer == [err |-> "none", data |-> <<>>]
Is(err, data) == answer' = [err |-> err, data |-> data]

Offsets == 0..(Size - 1)
Buffers == UNION {[1..n -> Bytes] : n \in 0..Size}

Init == /\ contents \in [Offsets -> Bytes]
        /\ attached = FALSE /\ position = 0 /\ answer = NoAnswer

Attach == attached' = TRUE /\ UNCHANGED <<contents, position, answer>>

Detach == attached' = FALSE /\ position' = 0 /\ UNCHANGED <<contents, answer>>

SetPosition(p) == /\ attached /\ p \in 0..Size
                  /\ position' = p /\ Is("ok", <<>>)
                  /\ UNCHANGED <<contents, attached>>

Ask(what) == Is("ok", <<what>>) /\ UNCHANGED <<contents, attached, position>>

Read(n) ==
  /\ attached /\ position + n <= Size
  /\ Is("ok", [i \in 1..n |-> contents[position + i - 1]])
  /\ position' = position + n
  /\ UNCHANGED <<contents, attached>>

\* The first done bytes of a buffer are there.
Put(buf, done) ==
  contents' = [o \in Offsets |-> IF position <= o /\ o < position + done
                                 THEN buf[o - position + 1] ELSE contents[o]]

Write(buf) ==
  /\ attached /\ position + Len(buf) <= Size
  /\ Put(buf, Len(buf))
  /\ position' = position + Len(buf) /\ Is("ok", <<>>)
  /\ UNCHANGED attached

FailedWrite(buf) ==
  /\ attached /\ position + Len(buf) <= Size
  /\ \E done \in 0..Len(buf) : Put(buf, done)
  /\ \E e \in Errors : Is(e, <<>>)
  /\ position' \in 0..Size
  /\ UNCHANGED attached

Failed == /\ \E e \in Errors : Is(e, <<>>)
          /\ position' \in 0..Size
          /\ UNCHANGED <<contents, attached>>

\* Somebody else's call.
Elsewhere == /\ answer' = NoAnswer
             /\ attached => UNCHANGED contents
             /\ contents' \in [Offsets -> Bytes]
             /\ UNCHANGED <<attached, position>>

Next == \/ Attach \/ Detach \/ Elsewhere \/ Failed
        \/ \E p \in 0..Size : SetPosition(p) \/ Read(p)
        \/ Ask(position) \/ Ask(IF attached THEN Size ELSE 0)
        \/ \E buf \in Buffers : Write(buf) \/ FailedWrite(buf)

Spec == Init /\ [][Next]_volumeVars
=============================================================================
