------------------------------- MODULE Grammar -------------------------------
(****************************************************************************)
(* The configuration language as a grammar: what a sequence of tokens,      *)
(* without the end token, can be read as.                                   *)
(*                                                                          *)
(*   file    ::=  var*                                                      *)
(*   var     ::=  key ":" value                                             *)
(*   value   ::=  word | quote | "{" [var (any var)*] "}"                   *)
(*                             | "[" [value (any value)*] "]"               *)
(*                                                                          *)
(* where "any" is one token, whichever, but for the bracket that closes.    *)
(*                                                                          *)
(* A reading is that of a value, or of the items that follow at a place in  *)
(* an object, a list or the file, if any do: "object" is (any var)*, "list" *)
(* (any value)* and "file" var*.  It takes the tokens from its place up to  *)
(* another.  What begins at a place is made of what begins behind it.       *)
(****************************************************************************)
EXTENDS Syntax

From(ts, n) == SubSeq(ts, n, Len(ts))
UpTo(ts, n) == SubSeq(ts, 1, n)

Part(to, is) == [to |-> to, is |-> is]
Reading(what, from, part) == [what |-> what, from |-> from, to |-> part.to, is |-> part.is]
ReadAt(readings, what, n) == {x \in readings : x.what = what /\ x.from = n}

\* An item of a list is a value; any other is a variable, with a key and a
\* colon in front of its value.
IsItem(ts, kind, n) == kind = "list" \/ (n < Len(ts) /\ IsText(ts[n]) /\ ts[n + 1].type = "colon")
ItsValue(kind, n) == IF kind = "list" THEN n ELSE n + 2
Item(ts, kind, n, value) == IF kind = "list" THEN value ELSE [key |-> KeyOf(ts[n]), value |-> value]

\* One item and those that follow it.
Items(ts, kind, n, behind) ==
  UNION {{Part(rest.to, <<Item(ts, kind, n, value.is[1])>> \o rest.is) : rest \in ReadAt(behind, kind, value.to)} :
           value \in IF IsItem(ts, kind, n) THEN ReadAt(behind, "value", ItsValue(kind, n)) ELSE {}}

Nothing(n) == Part(n, <<>>)

\* The next item is behind the token that parts it from the last, but for the
\* variables of the file.
Following(ts, kind, n, behind) ==
  {Nothing(n)} \cup IF kind = "file" THEN Items(ts, kind, n, behind)
                    ELSE IF n <= Len(ts) /\ ~IsBracket(ts[n], Closer(kind))
                    THEN Items(ts, kind, n + 1, behind) ELSE {}

Enclosed(ts, kind, n, behind) ==
  {part \in {Nothing(n + 1)} \cup Items(ts, kind, n + 1, behind) :
     /\ IsBracket(ts[n], Opener(kind))
     /\ part.to <= Len(ts) /\ IsBracket(ts[part.to], Closer(kind))}

Values(ts, n, behind) ==
  (IF IsText(ts[n]) THEN {Part(n + 1, <<ScalarOf(ts[n])>>)} ELSE {})
    \cup UNION {{Part(part.to + 1, <<Compound(kind, part.is)>>) : part \in Enclosed(ts, kind, n, behind)} :
                  kind \in {"object", "list"}}

Beginning(ts, n, behind) ==
  {Reading("value", n, part) : part \in IF n <= Len(ts) THEN Values(ts, n, behind) ELSE {}}
    \cup UNION {{Reading(kind, n, part) : part \in Following(ts, kind, n, behind)} :
                  kind \in {"object", "list", "file"}}

Readings(ts) ==
  LET from[n \in 1..(Len(ts) + 1)] ==
        LET behind == IF n > Len(ts) THEN {} ELSE from[n + 1]
        IN behind \cup Beginning(ts, n, behind)
  IN from[1]

\* What all the tokens can be read as.
File(ts) == {x.is : x \in {y \in ReadAt(Readings(ts), "file", 1) : y.to = Len(ts) + 1}}
=============================================================================
