------------------------------- MODULE Scanner -------------------------------
(****************************************************************************)
(* The scanner of the configuration language (src/lang/token.c,             *)
(* scanner.c), with white space and comments rejected as the parser has it. *)
(*                                                                          *)
(* A source is a sequence of symbols: a word stands for a longest run of    *)
(* letters, digits and "_", any other symbol for one character.  A word     *)
(* counts as one column.                                                    *)
(****************************************************************************)
EXTENDS Integers, Sequences, FiniteSets

CONSTANTS Words,    \* the words that a source may hold
          Sources   \* the sources that are scanned

Blanks == {"space", "newline"}
Quotes == {"'", "double quote"}
Brackets == {"{", "}", "[", "]"}
Symbols == Blanks \cup Quotes \cup Brackets \cup {"#", ":", ",", "?"}

ASSUME WordsAssumption == Words \cap Symbols = {}

\* Two words that touch would be one.
ASSUME SourcesAssumption ==
  \A s \in Sources : /\ s \in Seq(Words \cup Symbols)
                     /\ \A n \in 1..(Len(s) - 1) : ~({s[n], s[n + 1]} \subseteq Words)

VARIABLES source,   \* the text of the configuration
          pc,       \* the phase of the load
          i,        \* the scanner's place in the source, from 1
          line,     \* pos.line
          column,   \* pos.column
          tokens    \* the token buffer

scannerVars == <<source, i, line, column, tokens>>

(* -- Tokens ---------------------------------------------------------------- *)

EofToken == [type |-> "end", data |-> <<>>, line |-> 0, column |-> 0]

Lexeme(type, data, width) == [type |-> type, data |-> data, width |-> width]

\* The first place from n on that holds one of the symbols, or the end.
FirstIn(S, n) == CHOOSE m \in n..(Len(source) + 1) :
                   /\ m = Len(source) + 1 \/ source[m] \in S
                   /\ \A h \in n..(m - 1) : source[h] \notin S

Whitespace == LET end == FirstIn((Words \cup Symbols) \ Blanks, i)
              IN Lexeme("whitespace", SubSeq(source, i, end - 1), end - i)

\* The newline is not part of the comment.
\* Mutant: the "#" is not counted.
CommentKeepingMark == LET end == FirstIn({"newline"}, i)
                      IN Lexeme("comment", SubSeq(source, i + 1, end - 1), end - i - 1)
Comment == LET end == FirstIn({"newline"}, i)
           IN Lexeme("comment", SubSeq(source, i + 1, end - 1), end - i)

\* Mutant: the width counts one of the two quotes.
QuotedOnce == LET end == FirstIn({source[i]}, i + 1)
              IN Lexeme("quote", SubSeq(source, i + 1, end - 1), end - i)
Quoted == LET end == FirstIn({source[i]}, i + 1)
          IN Lexeme("quote", SubSeq(source, i + 1, end - 1), end - i + 1)

IsClosed == \E n \in (i + 1)..Len(source) : source[n] = source[i]

Single(type) == Lexeme(type, <<source[i]>>, 1)

\* bootable_token_parse.  A quote that nothing closes is a character of its own.
NextLexeme ==
  LET here == source[i]
  IN CASE here \in Blanks -> Whitespace
       [] here = "#" -> Comment
       [] here \in Quotes /\ IsClosed -> Quoted
       [] here \in Brackets -> Single("bracket")
       [] here = ":" -> Single("colon")
       [] here = "," -> Single("comma")
       [] here \in Words -> Single("identifier")
       [] OTHER -> Single("unknown")

(* -- Scanning -------------------------------------------------------------- *)

Rejected == {"whitespace", "comment"}

Newlines(from, to) == {n \in from..to : source[n] = "newline"}

\* source_pos_update.
\* Mutant: a newline is looked for in front of the token only.
MovedByFirst(width) ==
  /\ line' = line + Cardinality(Newlines(i, i))
  /\ column' = IF source[i] = "newline" THEN width ELSE column + width
Moved(width) ==
  LET passed == Newlines(i, i + width - 1)
  IN /\ line' = line + Cardinality(passed)
     /\ column' = IF passed = {} THEN column + width
                  ELSE i + width - CHOOSE n \in passed : \A m \in passed : m <= n

ScanToken ==
  /\ pc = "scan" /\ i <= Len(source)
  /\ LET lexeme == NextLexeme
         token == [type |-> lexeme.type, data |-> lexeme.data, line |-> line, column |-> column]
     IN /\ tokens' = IF lexeme.type \in Rejected THEN tokens ELSE Append(tokens, token)
        /\ i' = i + lexeme.width
        /\ Moved(lexeme.width)
  /\ UNCHANGED <<source, pc>>

EndScan == /\ pc = "scan" /\ i > Len(source)
           /\ tokens' = Append(tokens, EofToken)
           /\ pc' = "parse"
           /\ UNCHANGED <<source, i, line, column>>

(* -- What the parser and its messages rely on ------------------------------ *)

IsScanned == Len(tokens) > 0 /\ tokens[Len(tokens)].type = "end"

\* The line and the column of a place, by what is in front of it.
LineOf(n) == 1 + Cardinality(Newlines(1, n - 1))
ColumnOf(n) == n - (CHOOSE m \in {0} \cup Newlines(1, n - 1) : \A h \in Newlines(1, n - 1) : h <= m)

PlaceOf(token) ==
  CHOOSE n \in 1..Len(source) : LineOf(n) = token.line /\ ColumnOf(n) = token.column

\* What a token takes of the source, from its place on.
TextAt(n, token) == IF token.type = "quote" THEN <<source[n]>> \o token.data \o <<source[n]>>
                                            ELSE token.data

\* A token is where its line and column say: where a message points to, there
\* is what the message is about, also behind quotes over several lines.
PositionsRight ==
  IsScanned =>
    \A n \in 1..(Len(tokens) - 1) :
      \E p \in 1..Len(source) :
        /\ LineOf(p) = tokens[n].line /\ ColumnOf(p) = tokens[n].column
        /\ LET text == TextAt(p, tokens[n])
           IN SubSeq(source, p, p + Len(text) - 1) = text

\* Blanks and what is behind a "#" on its line.
IsSkippable(s) == \A n \in DOMAIN s :
                    \/ s[n] \in Blanks
                    \/ \E m \in 1..n : s[m] = "#" /\ \A h \in m..n : s[h] # "newline"

\* Nothing of the source is lost: between two tokens that follow each other,
\* and in front of the first and behind the last, are blanks and comments only.
NothingLost ==
  IsScanned =>
    LET End(n) == IF n = 0 THEN 0
                  ELSE PlaceOf(tokens[n]) + Len(TextAt(PlaceOf(tokens[n]), tokens[n])) - 1
        Begin(n) == IF n = Len(tokens) THEN Len(source) + 1 ELSE PlaceOf(tokens[n])
    IN \A n \in 1..Len(tokens) :
         /\ End(n - 1) < Begin(n)
         /\ IsSkippable(SubSeq(source, End(n - 1) + 1, Begin(n) - 1))
=============================================================================
