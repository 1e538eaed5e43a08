------------------------------ MODULE Encoding ------------------------------
(****************************************************************************)
(* Numbers in records on the disk, least significant byte first             *)
(* (src/core/misc.c).                                                       *)
(****************************************************************************)
EXTENDS Integers, Sequences

CONSTANT Base   \* the values of a byte: 256

ASSUME BaseAssumption == Base \in Nat /\ Base >= 2

Byte == 0..(Base - 1)

\* What a shift and a mask of the code leave of a number.
ByteOf(n) == n % Base
From16(n) == n \div (Base * Base)
From32(n) == From16(From16(n))

encode_uint16(n) == <<ByteOf(n), ByteOf(n \div Base)>>
encode_uint32(n) == LET low == encode_uint16(n)
                        high == encode_uint16(From16(n))
                    IN <<low[1], low[2], high[1], high[2]>>
encode_uint64(n) == LET low == encode_uint32(n)
                        high == encode_uint32(From32(n))
                    IN <<low[1], low[2], low[3], low[4], high[1], high[2], high[3], high[4]>>

decode_uint16(b) == b[1] + Base * b[2]
decode_uint32(b) == decode_uint16(b) + Base * Base * decode_uint16(<<b[3], b[4]>>)
decode_uint64(b) ==
  decode_uint32(b) + Base * Base * Base * Base * decode_uint32(<<b[5], b[6], b[7], b[8]>>)

\* What fits into the narrow fields.
Cut16(n) == n % (Base * Base)

(* -- Fields of records ----------------------------------------------------- *)

U16(name) == [name |-> name, width |-> 2, array |-> FALSE]
U32(name) == [name |-> name, width |-> 4, array |-> FALSE]
U64(name) == [name |-> name, width |-> 8, array |-> FALSE]
Raw(name, width) == [name |-> name, width |-> width, array |-> TRUE]

\* The bytes of a field that holds v, and what it holds by its bytes.
Encoded(f, v) == IF f.array THEN v
                 ELSE CASE f.width = 2 -> encode_uint16(v)
                        [] f.width = 4 -> encode_uint32(v)
                        [] f.width = 8 -> encode_uint64(v)

Decoded(f, b) == IF f.array THEN b
                 ELSE CASE f.width = 2 -> decode_uint16(b)
                        [] f.width = 4 -> decode_uint32(b)
                        [] f.width = 8 -> decode_uint64(b)

\* The first number a field is too narrow for, and what a field can hold.
Above(width) == CASE width = 2 -> Base * Base
                  [] width = 4 -> Base * Base * Base * Base
                  [] width = 8 -> Base * Base * Base * Base * Base * Base * Base * Base

Fits(f, v) == IF f.array THEN v \in [1..f.width -> Byte] ELSE v \in 0..(Above(f.width) - 1)
=============================================================================
