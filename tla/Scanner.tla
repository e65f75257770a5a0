------------------------------ MODULE Scanner ------------------------------
(***************************************************************************)
(* The scanner of src/src/lexer.cpp.  A text is a sequence of characters,  *)
(* its terminating NUL is behind the last one.  Scan is Lexer::scan as a   *)
(* function from the lexer's state to the state with the token it returns. *)
(*                                                                         *)
(* A token's type is its name without TOKEN_, its text the characters from *)
(* start to curr.  Token.col and Lexer.lang, which nothing reads, and the  *)
(* value of a REAL are left out.  Texts are ASCII: what mbrtowc makes of   *)
(* other bytes depends on the C library.                                   *)
(***************************************************************************)
EXTENDS Bytecode, SequencesExt

CONSTANTS
  Letters,     \* the characters iswalpha holds for
  MaxInterps   \* the size of Lexer.interps (16)

Nul == "NUL"   \* the terminator, and what an unknown escape stands for

ASSUME LettersAssumption == Letters \subseteq STRING \ {Nul, "\n"}
ASSUME InterpsAssumption == MaxInterps \in Nat

(***************************************************************************)
(* Characters.  Positions count from 1.                                    *)
(***************************************************************************)
Digits == <<"0", "1", "2", "3", "4", "5", "6", "7", "8", "9">>
DigitChars == Range(Digits)
WordStart  == Letters \cup {"_"}
WordChars  == WordStart \cup DigitChars

CharAt(text, p) == IF p <= Len(text) THEN text[p] ELSE Nul

\* The first position from p on whose character is not one of chars, and the
\* first whose character is one of them; the terminator ends both.
Past(text, p, chars) ==
  CHOOSE q \in p .. Len(text) + 1 : /\ CharAt(text, q) \notin chars
                                    /\ \A r \in p .. q - 1 : CharAt(text, r) \in chars
UpTo(text, p, chars) ==
  CHOOSE q \in p .. Len(text) + 1 : /\ CharAt(text, q) \in chars \cup {Nul}
                                    /\ \A r \in p .. q - 1 : CharAt(text, r) \notin chars \cup {Nul}

\* skip_useless: blanks, and comments up to the end of their line.
Useful(text, from) ==
  LET skip[p \in 1 .. Len(text) + 1] ==
        CASE CharAt(text, p) \in {" ", "\t"} -> skip[p + 1]
          [] CharAt(text, p) = ";"           -> skip[UpTo(text, p, {"\n"})]
          [] OTHER                           -> p
  IN  skip[from]

\* strtol(start, NULL, 10)
Number(digits) ==
  FoldLeft(LAMBDA n, d : 10 * n + (CHOOSE i \in 1 .. 10 : Digits[i] = d) - 1, 0, digits)

(***************************************************************************)
(* Tokens.                                                                 *)
(***************************************************************************)
Keywords ==
  { <<<<"i", "f">>, "IF">>,                   <<<<"l", "e", "t">>, "LET">>,
    <<<<"d", "e", "c">>, "DEC">>,             <<<<"e", "l", "s", "e">>, "ELSE">>,
    <<<<"t", "h", "i", "s">>, "THIS">>,       <<<<"t", "r", "u", "e">>, "TRUE">>,
    <<<<"f", "a", "l", "s", "e">>, "FALSE">>, <<<<"n", "u", "l", "l">>, "NULL">>,
    <<<<"f", "o", "r">>, "FOR">>,             <<<<"c", "a", "l", "l">>, "CALL">>,
    <<<<"j", "u", "m", "p">>, "JUMP">>,       <<<<"b", "r", "e", "a", "k">>, "BREAK">>,
    <<<<"w", "h", "i", "l", "e">>, "WHILE">>, <<<<"m", "a", "t", "c", "h">>, "MATCH">>,
    <<<<"r", "e", "t", "u", "r", "n">>, "RETURN">> }

\* resolve_ident: the keyword the word begins with, if any.
WordType(word) ==
  LET begins == {k \in Keywords : IsPrefix(k[1], word)}
  IN  IF begins = {} THEN "ID" ELSE (CHOOSE k \in begins : TRUE)[2]

\* The cases of scan that end in a type alone; scan returns the longest that
\* matches.
Operators ==
  { <<<<"+">>, "ADD">>,     <<<<"+", "=">>, "ADD_SET">>,  <<<<"+", "+">>, "PLUS_PLUS">>,
    <<<<"-">>, "SUB">>,     <<<<"-", "=">>, "SUB_SET">>,  <<<<"-", "-">>, "SUB_SUB">>,
    <<<<"-", ">">>, "ARROW">>,
    <<<<"*">>, "MUL">>,     <<<<"*", "=">>, "MUL_SET">>,
    <<<<"/">>, "DIV">>,     <<<<"/", "=">>, "DIV_SET">>,
    <<<<"^">>, "EXP">>,     <<<<"^", "=">>, "EXP_SET">>,
    <<<<"%">>, "MOD">>,     <<<<"%", "=">>, "MOD_SET">>,
    <<<<"=">>, "SET">>,     <<<<"=", "=">>, "EQUIV">>,    <<<<"=", ">">>, "FAT_ARROW">>,
    <<<<"<">>, "LT">>,      <<<<"<", "=">>, "LE">>,
    <<<<"<", "<">>, "LSHIFT">>,  <<<<"<", "<", "=">>, "LSHIFT_SET">>,
    <<<<">">>, "GT">>,      <<<<">", "=">>, "GE">>,
    <<<<">", ">">>, "RSHIFT">>,  <<<<">", ">", "=">>, "RSHIFT_SET">>,
    <<<<"&">>, "BAND">>,    <<<<"&", "&">>, "AMP_AMP">>,  <<<<"&", "=">>, "BAND_SET">>,
    <<<<"|">>, "BOR">>,     <<<<"|", "|">>, "PIP_PIP">>,  <<<<"|", "=">>, "BOR_SET">>,
    <<<<"?">>, "QUESTION">>, <<<<"?", "!">>, "COAL">>,
    <<<<"~">>, "TIL">>,     <<<<"~", "=">>, "TIL_SET">>,
    <<<<"(">>, "LPAREN">>,  <<<<")">>, "RPAREN">>,
    <<<<"[">>, "LBRACE">>,  <<<<"]">>, "RBRACK">>,
    <<<<":">>, "COLON">>,   <<<<",">>, "COMMA">> }

LongestOperator(text, p) ==
  LET matching == {o \in Operators : p + Len(o[1]) <= Len(text) + 1
                                     /\ SubSeq(text, p, p + Len(o[1]) - 1) = o[1]}
  IN  CHOOSE o \in matching : \A other \in matching : Len(o[1]) >= Len(other[1])
OperatorStart == {o[1][1] : o \in Operators}

Token(type, text, value) == [type |-> type, text |-> text, value |-> value]

(***************************************************************************)
(* The lexer.                                                              *)
(***************************************************************************)
\* interps holds the interp_count counts that are in use.
NewLexer(text, interps) ==
  [text |-> text, curr |-> 1, line |-> 1, interps |-> interps, sound |-> TRUE,
   token |-> Token("NONE", <<>>, NullVal)]

\* Memory that is not the lexer's was read or written: nothing is known of what
\* comes next.
Overrun(lx) == [lx EXCEPT !.sound = FALSE, !.token = Token("NONE", <<>>, NullVal)]

\* new_token with curr at position q.
Found(lx, type, q, value) ==
  [lx EXCEPT !.curr = q, !.token = Token(type, SubSeq(lx.text, lx.curr, q - 1), value)]

NewLines(text, p, q) == Cardinality({r \in p .. q - 1 : text[r] = "\n"})

\* What \ and c stand for in a string that quote ends.
Escaped(quote, c) ==
  CASE c = "n" -> <<"\n">>
    [] c = "t" -> <<"\t">>
    [] c = "r" -> <<"\r">>
    [] c = "f" -> <<"\f">>
    [] c \in {"v", "a", "b"} -> <<"\\" \o c>>
    [] c \in {quote, "\\"} \/ (c = "#" /\ quote = "'") -> <<c>>
    [] c = "\n" -> <<>>
    [] OTHER -> <<Nul>>

\* A slip in StringFrom: the text has ended when its last character is reached.
EarlyStringFrom(text, from, quote) ==
  LET Part(value, end, by) == [value |-> value, end |-> end, by |-> by]
      Behind(chars, part)  == [part EXCEPT !.value = chars \o @]
      loop[p \in 1 .. Len(text) + 2] ==
        CASE p >= Len(text)     -> Part(<<>>, p, "OVERRUN")
          [] CharAt(text, p) = quote -> Part(<<>>, p + 1, "STRING")
          [] CharAt(text, p) = "\\"  -> Behind(Escaped(quote, CharAt(text, p + 1)), loop[p + 2])
          [] CharAt(text, p) = "#" /\ CharAt(text, p + 1) = "{" /\ quote = "'"
                                -> Part(<<>>, p + 2, "INTERP")
          [] OTHER              -> Behind(<<CharAt(text, p)>>, loop[p + 1])
  IN  loop[from]

\* The loop of double_str and single_str from position from: the text of the
\* string, the position behind it and whether an interpolation ended it.
\* Nothing but a terminator stops it: past the text there is no telling.
StringFrom(text, from, quote) ==
  LET Part(value, end, by) == [value |-> value, end |-> end, by |-> by]
      Behind(chars, part)  == [part EXCEPT !.value = chars \o @]
      loop[p \in 1 .. Len(text) + 2] ==
        CASE p > Len(text)      -> Part(<<>>, p, "OVERRUN")
          [] CharAt(text, p) = quote -> Part(<<>>, p + 1, "STRING")
          [] CharAt(text, p) = "\\"  -> Behind(Escaped(quote, CharAt(text, p + 1)), loop[p + 2])
          [] CharAt(text, p) = "#" /\ CharAt(text, p + 1) = "{" /\ quote = "'"
                                -> Part(<<>>, p + 2, "INTERP")
          [] OTHER              -> Behind(<<CharAt(text, p)>>, loop[p + 1])
  IN  loop[from]

\* A slip in String: the line ends inside a string are not counted.
OneLineString(lx, quote) ==
  LET str == StringFrom(lx.text, lx.curr + 1, quote)
      new == IF str.by = "INTERP" THEN Append(lx.interps, 1) ELSE lx.interps
  IN  IF str.by = "OVERRUN" \/ Len(new) > MaxInterps THEN Overrun(lx)
      ELSE [Found(lx, str.by, str.end, StrVal(str.value)) EXCEPT !.interps = new]

\* double_str and single_str behind the character at curr.
String(lx, quote) ==
  LET str == StringFrom(lx.text, lx.curr + 1, quote)
      new == IF str.by = "INTERP" THEN Append(lx.interps, 1) ELSE lx.interps
  IN  IF str.by = "OVERRUN" \/ Len(new) > MaxInterps THEN Overrun(lx)
      ELSE [Found(lx, str.by, str.end, StrVal(str.value)) EXCEPT
              !.line    = @ + NewLines(lx.text, lx.curr, str.end),
              !.interps = new]

\* The count of the innermost interpolation, if there is one.
Count(lx, n) ==
  IF lx.interps = <<>> THEN lx ELSE [lx EXCEPT !.interps[Len(lx.interps)] = @ + n]

\* A slip in CloseBrace: an interpolation ends at its first closing brace.
FirstCloseBrace(lx) ==
  IF lx.interps # <<>> THEN String([lx EXCEPT !.interps = Front(@)], "'")
  ELSE Found(lx, "RBRACE", lx.curr + 1, NullVal)

\* A slip in CloseBrace: the count is compared before it is lowered.
LateCloseBrace(lx) ==
  IF lx.interps # <<>> /\ Last(lx.interps) = 0
  THEN String([lx EXCEPT !.interps = Front(@)], "'")
  ELSE Found(Count(lx, -1), "RBRACE", lx.curr + 1, NullVal)

OpenBrace(lx) == Found(Count(lx, 1), "LBRACE", lx.curr + 1, NullVal)
CloseBrace(lx) ==
  IF lx.interps # <<>> /\ Last(lx.interps) = 1
  THEN String([lx EXCEPT !.interps = Front(@)], "'")
  ELSE Found(Count(lx, -1), "RBRACE", lx.curr + 1, NullVal)

Word(lx) ==
  LET q == Past(lx.text, lx.curr, WordChars)
  IN  Found(lx, WordType(SubSeq(lx.text, lx.curr, q - 1)), q, NullVal)

Numeral(lx) ==
  LET q == Past(lx.text, lx.curr, DigitChars)
  IN  IF CharAt(lx.text, q) = "." THEN Found(lx, "REAL", Past(lx.text, q + 1, DigitChars), NullVal)
      ELSE Found(lx, "INT", q, IntVal(Number(SubSeq(lx.text, lx.curr, q - 1))))

\* A slip in Operator: it is looked at and not taken.
PeekOperator(lx) ==
  LET o == LongestOperator(lx.text, lx.curr) IN Found(lx, o[2], lx.curr, NullVal)

Operator(lx) ==
  LET o == LongestOperator(lx.text, lx.curr) IN Found(lx, o[2], lx.curr + Len(o[1]), NullVal)

\* scan's switch, with the character that starts the token at curr.
TokenAt(lx) ==
  LET c == CharAt(lx.text, lx.curr) IN
  CASE c = Nul            -> Found(lx, "FIN", lx.curr, NullVal)
    [] c = "\n"           -> [Found(lx, "ENDL", lx.curr + 1, NullVal) EXCEPT !.line = @ + 1]
    [] c = "{"            -> OpenBrace(lx)
    [] c = "}"            -> CloseBrace(lx)
    [] c \in {"\"", "'"}  -> String(lx, c)
    [] c \in WordStart    -> Word(lx)
    [] c \in DigitChars   -> Numeral(lx)
    [] c \in OperatorStart -> Operator(lx)
    [] OTHER              -> Found(lx, "ERROR", lx.curr + 1, NullVal)

Scan(lx) == TokenAt([lx EXCEPT !.curr = Useful(lx.text, lx.curr)])
=============================================================================
