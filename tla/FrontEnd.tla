------------------------------ MODULE FrontEnd ------------------------------
(***************************************************************************)
(* The parser reading from the scanner, as main makes them: Parser::advance *)
(* calls Lexer::scan, one token at a time.                                 *)
(***************************************************************************)
EXTENDS Parser, Scanner

\* The characters of a name or of a string in one piece.
Glued(chars) == FoldLeft(LAMBDA s, c : s \o c, "", chars)
InPieces(t) ==
  [t EXCEPT !.text  = IF t.type = "ID" THEN Glued(@) ELSE @,
            !.value = IF IsStr(@) THEN StrVal(IF @[2] = <<>> THEN <<>> ELSE <<Glued(@[2])>>) ELSE @]

\* Lexer::Lexer and Lexer::scan.
OnText(text) == NewLexer(text, <<>>)
ScanText(lx) == LET scanned == Scan(lx) IN [scanned EXCEPT !.token = InPieces(@)]
=============================================================================
