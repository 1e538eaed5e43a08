------------------------------- MODULE Parser -------------------------------
(****************************************************************************)
(* The parser of the configuration language (src/lang/parser.c, var.c).     *)
(* The functions call each other down into objects and lists; here what is  *)
(* open is a stack, and each token that a function takes is a step.         *)
(*                                                                          *)
(* Failed allocations and the wording of errors are left out.               *)
(****************************************************************************)
EXTENDS Scanner, Syntax, SequencesExt

VARIABLES j,        \* scanner->index, from 1
          stack,    \* the file, objects and lists that are open, innermost last
          expect,   \* what the innermost function looks for
          error     \* error->line and error->column

parserVars == <<scannerVars, pc, j, stack, expect, error>>

\* What has been read of an object, a list or the file, and the key whose
\* value is being read.
NoKey == [id |-> <<>>, line |-> 1, column |-> 1]
Open(kind) == [kind |-> kind, items |-> <<>>, key |-> NoKey]

Place(n, m) == [line |-> n, column |-> m]
NoPlace == Place(0, 0)

(* -- The tokens ------------------------------------------------------------ *)

\* bootable_scanner_next does not go past the end.
Token == tokens[j]
AtEnd == Token.type = "end"
\* Mutant: it does.
NextIndexAlways == j + 1
NextIndex == IF AtEnd THEN j ELSE j + 1

Top == stack[Len(stack)]
\* Mutant: any closing bracket closes.
ClosesAny == Token.type = "bracket" /\ Token.data \in {<<"}">>, <<"]">>}
Closes == IsBracket(Token, Closer(Top.kind))

Expects(what) == pc = "parse" /\ expect = what

Continue(next) == /\ expect' = next
                  /\ UNCHANGED <<scannerVars, pc, error>>

Fail == /\ pc' = "syntax error"
        /\ error' = Place(Token.line, Token.column)
        /\ UNCHANGED <<scannerVars, j, stack, expect>>

(* -- Values ---------------------------------------------------------------- *)

ItemOf(frame) == IF frame.kind = "list" THEN "value" ELSE "key"
AfterItemOf(frame) == IF frame.kind = "file" THEN "key" ELSE "separator"

\* bootable_list_push, bootable_object_push and push_var.
Pushed(frame, value) ==
  [frame EXCEPT !.items = Append(@, IF frame.kind = "list" THEN value
                                    ELSE [key |-> frame.key, value |-> value]),
                !.key = NoKey]

Give(frames, value) ==
  LET frame == frames[Len(frames)]
  IN /\ stack' = Append(Front(frames), Pushed(frame, value))
     /\ Continue(AfterItemOf(frame))

\* bootable_key_parse.  At the end of the file no further variable is read.
Key == /\ Expects("key") /\ IsText(Token)
       /\ stack' = [stack EXCEPT ![Len(stack)].key = KeyOf(Token)]
       /\ j' = NextIndex
       /\ Continue("colon")

NoKeyThere == /\ Expects("key") /\ ~IsText(Token) /\ ~(Top.kind = "file" /\ AtEnd)
              /\ Fail

Colon == /\ Expects("colon")
         /\ \/ Token.type = "colon" /\ j' = NextIndex /\ UNCHANGED stack /\ Continue("value")
            \/ Token.type # "colon" /\ Fail

Scalar == /\ Expects("value") /\ IsText(Token)
          /\ Give(stack, ScalarOf(Token))
          /\ j' = NextIndex

OpenBracket == /\ Expects("value")
               /\ \E kind \in {"object", "list"} :
                    /\ IsBracket(Token, Opener(kind))
                    /\ stack' = Append(stack, Open(kind))
               /\ j' = NextIndex
               /\ Continue("first")

NoValueThere == /\ Expects("value") /\ ~IsText(Token)
                /\ ~IsBracket(Token, "{") /\ ~IsBracket(Token, "[")
                /\ Fail

(* -- What is between brackets ---------------------------------------------- *)

\* The value that is complete is one of the frame around it.
Close == /\ Expects("first") \/ Expects("separator")
         /\ Closes
         /\ Give(Front(stack), Compound(Top.kind, Top.items))
         /\ j' = NextIndex

\* The token that does not close is looked at again.
\* Mutant: it is not.
FirstTaken == /\ Expects("first") /\ ~Closes
              /\ j' = NextIndex
              /\ Continue(ItemOf(Top)) /\ UNCHANGED stack
First == /\ Expects("first") /\ ~Closes
         /\ Continue(ItemOf(Top)) /\ UNCHANGED <<j, stack>>

\* A comma is passed, and so is any other token.
Separator == /\ Expects("separator") /\ ~Closes
             /\ j' = NextIndex
             /\ Continue(ItemOf(Top)) /\ UNCHANGED stack

EndOfFile == /\ Expects("key") /\ Top.kind = "file" /\ AtEnd
             /\ pc' = "handle"
             /\ UNCHANGED <<scannerVars, j, stack, expect, error>>

ParseStep == \/ Key \/ NoKeyThere \/ Colon \/ Scalar \/ OpenBracket \/ NoValueThere
             \/ Close \/ First \/ Separator \/ EndOfFile
=============================================================================
