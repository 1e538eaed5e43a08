-------------------------- MODULE PartitionVolume --------------------------
(****************************************************************************)
(* Each partition stream is a Volume: what the others do with the disk they *)
(* share, and with its one position, does not show.                         *)
(****************************************************************************)
EXTENDS PartitionStream

\* The part of the disk, and the answers that were given to the stream.
Part(s) == [o \in 0..(Extent[s] - 1) |-> bytes[Offset[s] + o]]
AnswerTo(s) == IF reply.by = s THEN [err |-> reply.err, data |-> reply.data]
                               ELSE [err |-> "none", data |-> <<>>]

Private(s) == INSTANCE Volume WITH
  Size <- Extent[s], Errors <- {"EIO", "EINVAL", "EFAULT"},
  contents <- Part(s), attached <- attached[s], position <- position[s],
  answer <- AnswerTo(s)

\* partition.h: with its start and size set the stream functions "within the
\* bounds of the partition".  For callers that stay inside it is a medium of
\* its own, whichever other stream, or the table's reader and writer, has
\* moved the disk in between, and whatever fails half way.
\* This is Private(s)!Spec for every stream.
EachIsPrivate ==
  /\ \A s \in Streams : Private(s)!Init
  /\ [][\A s \in Streams :
          [Private(s)!Next]_<<Part(s), attached[s], position[s], AnswerTo(s)>>]_streamVars
=============================================================================
