-------------------------------- MODULE Uuid --------------------------------
(****************************************************************************)
(* The text form of identifiers (src/core/uuid.c).  A character is a digit, *)
(* in upper or lower case, a dash, or something else.                       *)
(****************************************************************************)
EXTENDS Encoding, SequencesExt

CONSTANT Radix   \* the digits: 16

ASSUME RadixAssumption == Radix \in Nat \ {0} /\ Base = Radix * Radix

Digit(d, upper) == [digit |-> d, upper |-> upper]
Dash == [digit |-> -1, upper |-> FALSE]
Junk == [digit |-> -2, upper |-> FALSE]

Character == [digit : -2..(Radix - 1), upper : BOOLEAN]

IsDigit(c) == c.digit \in 0..(Radix - 1)

\* bootable_tolower makes the case of no account.
ByteOfDigits(high, low) == high.digit * Radix + low.digit

Refused == <<-1>>

\* The loop of bootable_uuid_parse, at character j and with i bytes filled: the
\* bytes it fills from there on, given those from the next characters on.  A
\* dash has cleared the byte that is to come, which shows where the string ends
\* behind it.
FillsAt(str, from, j, i) ==
  CASE i = 16 \/ j > Len(str) -> <<>>
    [] i < 16 /\ j <= Len(str) /\ str[j] = Dash ->
         LET rest == from[j + 1][i] IN IF rest = <<>> THEN <<0>> ELSE rest
    [] i < 16 /\ j < Len(str) /\ IsDigit(str[j]) /\ IsDigit(str[j + 1]) ->
         LET rest == from[j + 2][i + 1]
         IN IF rest = Refused THEN Refused
            ELSE <<ByteOfDigits(str[j], str[j + 1])>> \o rest
    [] OTHER -> Refused

\* All that it fills.
FillsFrom(str) ==
  LET from[j \in 1..(Len(str) + 2)] == [i \in 0..16 |-> FillsAt(str, from, j, i)]
  IN from
Fills(str) == FillsFrom(str)[1][0]

\* Mutant: the second and the third number are not turned round.
SwappedFirstOnly(b) == <<b[4], b[3], b[2], b[1], b[5], b[6], b[7], b[8],
                         b[9], b[10], b[11], b[12], b[13], b[14], b[15], b[16]>>
Swapped(b) == <<b[4], b[3], b[2], b[1], b[6], b[5], b[8], b[7],
                b[9], b[10], b[11], b[12], b[13], b[14], b[15], b[16]>>

\* bootable_uuid_parse into a structure that holds stack: bytes a short string
\* does not reach are what was there.
Parses(str) == Fills(str) # Refused
Parsed(str, stack) ==
  LET filled == Fills(str)
  IN Swapped([i \in 1..16 |-> IF i <= Len(filled) THEN filled[i] ELSE stack[i]])

(* -- What the text means --------------------------------------------------- *)

\* The digits of a text from each place on, without case and dashes.
DigitsFrom(str) ==
  LET from[j \in 1..(Len(str) + 1)] ==
        IF j > Len(str) THEN <<>>
        ELSE IF IsDigit(str[j]) THEN <<str[j].digit>> \o from[j + 1] ELSE from[j + 1]
  IN from
Digits(str) == DigitsFrom(str)[1]

\* The number that n digits from k on are, taken as it is written.
Written(str, k, n) ==
  LET number[m \in 0..n] == IF m = 0 THEN 0 ELSE number[m - 1] * Radix + Digits(str)[k + m - 1]
  IN number[n]

\* uuid.h: "The first three numbers should be little endian and the last two
\* should be big endian."
Denotes(str, b) ==
  /\ decode_uint32(SubSeq(b, 1, 4)) = Written(str, 1, 8)
  /\ decode_uint16(SubSeq(b, 5, 6)) = Written(str, 9, 4)
  /\ decode_uint16(SubSeq(b, 7, 8)) = Written(str, 13, 4)
  /\ \A k \in 9..16 : b[k] = Written(str, 2 * k - 1, 2)
=============================================================================
