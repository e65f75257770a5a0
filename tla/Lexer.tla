------------------------------- MODULE Lexer -------------------------------
(***************************************************************************)
(* A lexer of src/src/lexer.cpp that is asked for one token after the      *)
(* other, until it has said FIN.                                           *)
(***************************************************************************)
EXTENDS Scanner

CONSTANTS
  Texts,       \* the texts that may be scanned, in a sequence
  FirstInterps \* what interp_count and interps, which nothing sets, may hold at first

ASSUME TextsAssumption      == \A i \in DOMAIN Texts : Texts[i] \in Seq(STRING)
ASSUME FirstInterpsAssumption == FirstInterps \subseteq Seq(Int)

VARIABLES
  src,     \* the index of the text in Texts
  lexer,   \* the lexer
  tokens   \* what it has returned

lexerVars == <<src, lexer, tokens>>

LexerInit ==
  /\ src \in DOMAIN Texts
  /\ \E interps \in FirstInterps : lexer = NewLexer(Texts[src], interps)
  /\ tokens = <<>>

LexerNext ==
  /\ lexer.sound
  /\ lexer.token.type # "FIN"
  /\ lexer' = Scan(lexer)
  /\ tokens' = IF lexer'.sound THEN Append(tokens, lexer'.token) ELSE tokens
  /\ UNCHANGED src

LexerSpec == LexerInit /\ [][LexerNext]_lexerVars /\ WF_lexerVars(LexerNext)

(***************************************************************************)
(* Properties.                                                             *)
(***************************************************************************)
\* The open interpolations and their counts of braces: as many as the array
\* holds, and each count at least one, for its interpolation ends at zero
\* (scan's case '}').
InterpsCount ==
  /\ lexer.interps \in Seq(Nat \ {0})
  /\ Len(lexer.interps) <= MaxInterps

\* The line is that of the next character, whatever strings, escapes and
\* comments are before it (new_line).
LineCounted == lexer.line = 1 + NewLines(lexer.text, 1, lexer.curr)

\* Every call of scan moves on, but for one at the end of the text.
MovesOn == [][lexer'.curr > lexer.curr \/ lexer'.token.type = "FIN" \/ ~lexer'.sound]_lexerVars
=============================================================================
