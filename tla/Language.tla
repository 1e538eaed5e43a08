------------------------------ MODULE Language ------------------------------
(****************************************************************************)
(* What the parser makes of a configuration, held against the grammar of    *)
(* the language.                                                            *)
(****************************************************************************)
EXTENDS Config, Grammar

(* -- What a user of the language relies on --------------------------------- *)

Parsed == UpTo(tokens, Len(tokens) - 1)

\* What the parser accepts is what the grammar reads, in its only reading, and
\* what it refuses the grammar does not read at all.
ParsesTheGrammar == /\ pc = "handle" => File(Parsed) = {stack[1].items}
                    /\ pc = "syntax error" => File(Parsed) = {}

\* What would make the file complete from here on: an item where one must
\* follow, and the brackets that are open.
AnyWord == [type |-> "identifier", data |-> <<"word">>, line |-> 1, column |-> 1]
Mark(type, symbol) == [type |-> type, data |-> <<symbol>>, line |-> 1, column |-> 1]
AnyVar == <<AnyWord, Mark("colon", ":"), AnyWord>>

MissingItem == CASE expect = "key" -> AnyVar
                 [] expect = "colon" -> From(AnyVar, 2)
                 [] expect = "value" -> <<AnyWord>>
                 [] OTHER -> <<>>
MissingBrackets == [n \in 1..(Len(stack) - 1) |->
                      Mark("bracket", Closer(stack[Len(stack) - n + 1].kind))]

\* The end of the file may stand where a separator does.
MissingSeparators == {<<>>} \cup (IF AtEnd THEN {<<Mark("comma", ",")>>} ELSE {})

\* However far the parser has come, what it has read is the beginning of a
\* file: it stops, and points, at the first token that cannot be right.
StopsAtFirstError ==
  pc \in {"parse", "syntax error"} =>
    \E separator \in MissingSeparators :
      File(UpTo(tokens, j - 1) \o separator \o MissingItem \o MissingBrackets) # {}
=============================================================================
