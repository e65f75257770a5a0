------------------------------ MODULE MCLexer ------------------------------
(***************************************************************************)
(* The texts the lexer is checked on.  Each is put together from written   *)
(* tokens, a pair of characters and of what they mean by the comments of   *)
(* lexer.hpp; Written gives a text's tokens.                               *)
(***************************************************************************)
EXTENDS Lexer, Families

CONSTANT Writings   \* the written texts, in a sequence

W(chars, type)          == [chars |-> chars, means |-> <<<<type, NullVal>>>>]
Val(chars, type, value) == [chars |-> chars, means |-> <<<<type, value>>>>]
Quiet(chars)            == [chars |-> chars, means |-> <<>>]
All(ws) == [chars |-> AllIn(Each(ws, LAMBDA w : w.chars)), means |-> AllIn(Each(ws, LAMBDA w : w.means))]

Blank   == Quiet(<<" ">>)
Newline == W(<<"\n">>, "ENDL")
Id(cs)  == Val(cs, "ID", StrVal(cs))
A       == Id(<<"a">>)
Twelve  == Val(<<"1", "2">>, "INT", IntVal(12))
Text(q, cs, s) == Val(<<q>> \o cs \o <<q>>, "STRING", StrVal(s))

\* 'head#{ hole }mid#{ hole }last'
Hole(head, hole)  == All(<<Val(<<"'">> \o head \o <<"#", "{">>, "INTERP", StrVal(head)), hole>>)
Mid(mid, hole)    == All(<<Val(<<"}">> \o mid \o <<"#", "{">>, "INTERP", StrVal(mid)), hole>>)
Cap(last)         == Val(<<"}">> \o last \o <<"'">>, "STRING", StrVal(last))
Braces(w)         == All(<<W(<<"{">>, "LBRACE"), w, W(<<"}">>, "RBRACE")>>)

\* The operators as lexer.hpp lists them, but [ which scan takes for {.
Signs ==
  LET Sign(chars, type) == W(chars, type) IN
  << Sign(<<"+">>, "ADD"), Sign(<<"+", "=">>, "ADD_SET"), Sign(<<"+", "+">>, "PLUS_PLUS"),
     Sign(<<"-">>, "SUB"), Sign(<<"-", "=">>, "SUB_SET"), Sign(<<"-", "-">>, "SUB_SUB"),
     Sign(<<"-", ">">>, "ARROW"), Sign(<<"*">>, "MUL"), Sign(<<"*", "=">>, "MUL_SET"),
     Sign(<<"/">>, "DIV"), Sign(<<"/", "=">>, "DIV_SET"),
     Sign(<<"<">>, "LT"), Sign(<<"<", "=">>, "LE"), Sign(<<"<", "<">>, "LSHIFT"),
     Sign(<<"<", "<", "=">>, "LSHIFT_SET"), Sign(<<">">>, "GT"), Sign(<<">", "=">>, "GE"),
     Sign(<<">", ">">>, "RSHIFT"), Sign(<<">", ">", "=">>, "RSHIFT_SET"),
     Sign(<<"|">>, "BOR"), Sign(<<"|", "=">>, "BOR_SET"), Sign(<<"|", "|">>, "PIP_PIP"),
     Sign(<<"^">>, "EXP"), Sign(<<"^", "=">>, "EXP_SET"),
     Sign(<<"&">>, "BAND"), Sign(<<"&", "=">>, "BAND_SET"), Sign(<<"&", "&">>, "AMP_AMP"),
     Sign(<<"~">>, "TIL"), Sign(<<"~", "=">>, "TIL_SET"),
     Sign(<<"?">>, "QUESTION"), Sign(<<"?", "!">>, "COAL"),
     Sign(<<"=">>, "SET"), Sign(<<"=", "=">>, "EQUIV"), Sign(<<"=", ">">>, "FAT_ARROW"),
     Sign(<<"(">>, "LPAREN"), Sign(<<")">>, "RPAREN"), Sign(<<"]">>, "RBRACK"),
     Sign(<<":">>, "COLON"), Sign(<<",">>, "COMMA") >>

\* Two signs with a blank between them, a sign right behind a name or a value,
\* two of these with a comment between them.
Atoms == <<A, Id(<<"_", "b", "1">>), Twelve, Val(<<"1", ".", "2">>, "REAL", NullVal), Newline,
           W(<<"w", "h", "i", "l", "e">>, "WHILE"), W(<<"r", "e", "t", "u", "r", "n">>, "RETURN"),
           W(<<"i", "f">>, "IF"), W(<<"f", "o", "r">>, "FOR"), W(<<"d", "e", "c">>, "DEC"),
           Text("\"", <<"a", "'">>, <<"a", "'">>), Text("'", <<"\"">>, <<"\"">>)>>
Remark == Quiet(<<";", "'", "{", "x">>)
Rows ==
  Both(Signs, Signs, LAMBDA v, w : All(<<v, Blank, w>>))
  \o Both(Atoms, Signs, LAMBDA v, w : All(<<v, w, Quiet(<<"\t">>), A>>))
  \o Both(Atoms, Atoms, LAMBDA v, w : All(<<v, Remark, Newline, w>>))

\* Each keyword as lexer.hpp lists it, and the name it is without its last letter.
Reserved ==
  << <<<<"i", "f">>, "IF">>, <<<<"l", "e", "t">>, "LET">>, <<<<"d", "e", "c">>, "DEC">>,
     <<<<"e", "l", "s", "e">>, "ELSE">>, <<<<"t", "h", "i", "s">>, "THIS">>,
     <<<<"t", "r", "u", "e">>, "TRUE">>, <<<<"f", "a", "l", "s", "e">>, "FALSE">>,
     <<<<"n", "u", "l", "l">>, "NULL">>, <<<<"f", "o", "r">>, "FOR">>,
     <<<<"c", "a", "l", "l">>, "CALL">>, <<<<"j", "u", "m", "p">>, "JUMP">>,
     <<<<"b", "r", "e", "a", "k">>, "BREAK">>, <<<<"w", "h", "i", "l", "e">>, "WHILE">>,
     <<<<"m", "a", "t", "c", "h">>, "MATCH">>, <<<<"r", "e", "t", "u", "r", "n">>, "RETURN">> >>
Words ==
  Both(Each(Reserved, LAMBDA k : W(k[1], k[2])) \o Each(Reserved, LAMBDA k : Id(Front(k[1]))),
       <<Blank, Newline, W(<<"(">>, "LPAREN")>>, LAMBDA v, w : All(<<v, w, A>>))

\* Strings with escapes, line ends and signs of interpolation that is none.
Escapes == <<<<<<"\\", "n">>, <<"\n">>>>, <<<<"\\", "\\">>, <<"\\">>>>, <<<<"\\", "\n">>, <<>>>>,
             <<<<"\n">>, <<"\n">>>>, <<<<"}">>, <<"}">>>>, <<<<"#">>, <<"#">>>>>>
Only(q) == IF q = "'" THEN <<<<<<"\\", "#">>, <<"#">>>>, <<<<"\\", "'">>, <<"'">>>>>>
           ELSE <<<<<<"#", "{">>, <<"#", "{">>>>, <<<<"\\", "\"">>, <<"\"">>>>>>
Strings(q) ==
  Each(Pairs(Escapes \o Only(q)), LAMBDA ef :
    All(<<A, Text(q, ef[1][1] \o ef[2][1], ef[1][2] \o ef[2][2]), Newline, A>>))

\* What is inside an interpolation, n deep.
Inside[n \in Nat] ==
  <<A, Braces(A), Text("'", <<"}">>, <<"}">>), Text("\"", <<"{", "}">>, <<"{", "}">>)>>
  \o (IF n = 0 THEN <<>>
      ELSE Each(Inside[n - 1], LAMBDA i : All(<<Hole(<<"x">>, i), Cap(<<"\n">>), Newline>>))
           \o Each(Inside[n - 1], LAMBDA i :
                Braces(All(<<Braces(i), Newline, Hole(<<>>, A), Mid(<<"}", "y">>, i), Cap(<<"{">>)>>))))
Nested == Both(ForEach(Inside[2], LAMBDA i : i), ForEach(Inside[1], LAMBDA j : j), LAMBDA i, j :
            Braces(All(<<Hole(<<"a">>, i), Mid(<<>>, j), Cap(<<"b">>), A>>)))

\* A string that is not closed, behind other tokens, with an escape at the end
\* or in an interpolation; an interpolation that is not closed.
Unclosed == <<"UNCLOSED", NullVal>>
Open(q)  == Each(<<<<q>>, <<q, "a", "\\">>, <<q, "a", "\\", q>>, <<q, "}", "\n">>>>,
                 LAMBDA cs : [chars |-> cs, means |-> <<Unclosed>>])
Opened   == Both(Inside[1], Open("'") \o Open("\""), LAMBDA w, o : All(<<w, Blank, o>>))
            \o Both(Inside[1], Open("'") \o Open("\""), LAMBDA w, o : Hole(<<"b">>, All(<<w, o>>)))
            \o Each(Inside[1], LAMBDA w : Hole(<<"b">>, w))

\* As deep as interps has room for behind the count that is left in it.
Deep == LET deep[n \in 0 .. MaxInterps] ==
              IF n = 0 THEN A ELSE All(<<Hole(<<>>, deep[n - 1]), Cap(<<>>)>>)
        IN  <<deep[MaxInterps - 1]>>

AllWritings == ForEach(Rows \o Words \o Strings("'") \o Strings("\"") \o Nested \o Opened \o Deep, LAMBDA w : w)
MCWritings  == AllWritings
CharsOf     == ForEach(Writings, LAMBDA w : w.chars)
MCTexts     == CharsOf
MCLetters   == {"a", "b", "c", "d", "e", "f", "h", "i", "j", "k", "l", "m", "n", "o", "p",
                "r", "s", "t", "u", "w", "x", "y"}

\* interp_count is zero at first, or one, with a count of two left in interps:
\* as every text closes what it opens, that count is never brought to zero.
MCFirst     == {<<>>, <<2>>}

\* What a token says, names with their text.
Said(token) == <<token.type, IF token.type = "ID" THEN StrVal(token.text) ELSE token.value>>

\* The tokens of a written text are those it was written with, then FIN:
\* quotes, escapes, braces, interpolations and comments nest as they are
\* written (scan, double_str, single_str).
ScansAsWritten ==
  IsPrefix([i \in DOMAIN tokens |-> Said(tokens[i])],
           Append(Writings[src].means, <<"FIN", NullVal>>))

\* The scan of a text ends with FIN, unless a string is not closed: from it the
\* scanner runs past the text, and from nothing else (double_str, single_str).
Finishes ==
  <>(\/ lexer.token.type = "FIN"
     \/ ~lexer.sound /\ Writings[src].means[Len(tokens) + 1] = Unclosed)
=============================================================================
