------------------------------- MODULE Syntax -------------------------------
(****************************************************************************)
(* The tokens and values of the configuration language that the parser and  *)
(* the grammar speak of.                                                    *)
(****************************************************************************)
EXTENDS Integers, Sequences

\* bootable_key_parse and bootable_value_parse take the same tokens.
IsText(token) == token.type \in {"identifier", "quote"}
IsBracket(token, bracket) == token.type = "bracket" /\ token.data = <<bracket>>

Opener(kind) == IF kind = "object" THEN "{" ELSE "["
Closer(kind) == IF kind = "object" THEN "}" ELSE "]"

KeyOf(token) == [id |-> token.data, line |-> token.line, column |-> token.column]

\* A value has its text, or what is in it.
Compound(type, items) == [type |-> type, data |-> <<>>, items |-> items]
ScalarOf(token) ==
  [type |-> IF token.type = "quote" THEN "string"
            ELSE CASE token.data \in {<<"true">>, <<"false">>} -> "boolean"
                   [] token.data = <<"null">> -> "null"
                   [] OTHER -> "string",
   data |-> token.data, items |-> <<>>]
=============================================================================
