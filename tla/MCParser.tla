------------------------------ MODULE MCParser ------------------------------
(***************************************************************************)
(* The parser behind the scanner, on the text of the programs of Programs, *)
(* of expressions that combine every operator with every other and of the  *)
(* repository's program; and the parser alone, on sequences of tokens that *)
(* no program has.                                                         *)
(***************************************************************************)
EXTENDS FrontEnd, Nodes, Programs, Printing

CONSTANTS
  Written,   \* programs
  Sloppy     \* sequences of tokens

\* The programs of the other checks.
Ops == <<"EXP", "MUL", "MOD", "DIV", "ADD", "SUB", "BAND", "LSHIFT", "RSHIFT", "TIL", "BOR">>
Exprs(x, y, z) ==
  Both(Ops, Ops, LAMBDA o, p : Bin(o, Bin(p, x, y), z)) \o Both(Ops, Ops, LAMBDA o, p : Bin(o, x, Bin(p, y, z)))
Makers2(x, y) ==
  <<Neg1(x), Less(x, y), <<"Comp", x, <<<<"GE", y>>, <<"EQUIV", x>>>>>>, Cond("AMP_AMP", x, y),
    Cond("PIP_PIP", x, y), If(x, y, x), To("a", x), <<"Set", "LSHIFT_SET", "b", x>>, Fn(<<>>, x),
    Fn(<<"p">>, x), Fn(<<"p", "q">>, y), <<"Call", x, <<>>>>, <<"Call", x, <<y, x>>>>,
    <<"Interp", <<<<<<"s">>, x>>, <<<<>>, y>>>>, <<"t">>>>, <<"Group", x>>,
    <<"Match", x, <<<<<<x, y>>, x>>, <<<<y>>, y>>>>, x>>, Bin("ADD", x, y), Bin("EXP", x, y)>>
Leaf == V("d")
Combined ==
  AllIn(Each(Makers2(V("c"), I(1)), LAMBDA x : Makers2(x, Leaf) \o Makers2(Leaf, x)))

AllWritten ==
  ForEach(Each(Exprs(V("a"), I(2), S("s")), LAMBDA e : <<Let("a", e)>>) \o Each(Combined, LAMBDA e : <<Just(e)>>)
          \o Shared \o Factories \o Loops \o Branches \o Expressions \o Scoped \o Mixed
          \o Recursive \o Stops \o VectorParts,
          GroupedAll)

\* Every sequence of up to four tokens of a kind, and a program and a block
\* from which a token is missing, in which one is there twice, or in which two
\* have changed places.
Some   == <<Name("a"), Tok("SUB"), Tok("SET"), Tok("LPAREN"), Tok("RPAREN"), Tok("LBRACE"),
            Tok("RBRACE"), Tok("ENDL"), Tok("COMMA"), Tok("IF"), Tok("ELSE"), Tok("LET"),
            Tok("MATCH"), Tok("ARROW"), Literal("STRING", StrVal(<<"s">>)), Literal("INTERP", StrVal(<<"s">>))>>
Singles == Each(Some, LAMBDA x : <<x>>)
Twos    == Pairs(Some)
Threes  == Both(Twos, Singles, LAMBDA p, x : p \o x)
Fours   == Both(Twos, Twos, LAMBDA p, q : p \o q)
Samples == <<
  <<Let("a", Fn(<<"p", "q">>, <<"Match", V("p"), <<<<<<I(1), V("q")>>, Neg1(V("q"))>>>>, I(0)>>)),
    Show(<<"Interp", <<<<<<"x">>, V("a")>>>>, <<"y">>>>)>>,
  <<Blk(<<While(Less(V("a"), I(2)), Blk(<<Just(Inc("a"))>>), Blk(<<Show(V("a"))>>)),
          If(V("a"), Blk(<<Let("b", Proc(<<>>, <<Just(I(1))>>))>>), Just(I(2)))>>)>> >>
Without(ts, i) == SubSeq(ts, 1, i - 1) \o SubSeq(ts, i + 1, Len(ts))
Twice(ts, i)   == SubSeq(ts, 1, i) \o SubSeq(ts, i, Len(ts))
Swapped(ts, i) == IF i = Len(ts) THEN ts ELSE [ts EXCEPT ![i] = ts[i + 1], ![i + 1] = ts[i]]
Broken(ts)     == AllIn([i \in DOMAIN ts |-> <<Without(ts, i), Twice(ts, i), Swapped(ts, i)>>])

AllSloppy ==
  ForEach(Singles \o Twos \o Threes \o Fours
          \o AllIn(Each(Samples, LAMBDA p : Broken(ProgramTokens(GroupedAll(p))))), LAMBDA ts : ts)

MCWritten == AllWritten
MCSloppy  == AllSloppy

\* The text of a sequence of tokens, a blank between two.  A string behind the
\* end of an operand goes on behind the interpolation the operand is in.
Chars(s) == [i \in 1 .. Len(s) |-> SubSeq(s, i, i)]
Fixed    == Keywords \cup Operators
            \cup {<<<<"{">>, "LBRACE">>, <<<<"}">>, "RBRACE">>, <<<<"\n">>, "ENDL">>}
Sign     == [type \in {f[2] : f \in Fixed} |-> (CHOOSE f \in Fixed : f[2] = type /\ f[1] # <<"[">>)[1]]
Closing  == {"ID", "INT", "STRING", "TRUE", "FALSE", "RPAREN", "RBRACE"}
Quoted(value, open, close) == open \o AllIn(Each(value[2], Chars)) \o close
Spelled(ts, i) ==
  LET t     == ts[i]
      quote == IF i > 1 /\ ts[i - 1].type \in Closing THEN <<"}">> ELSE <<"'">>
  IN  <<" ">> \o CASE t.type = "ID"     -> Chars(t.text)
                   [] t.type = "INT"    -> Chars(ToString(t.value[2]))
                   [] t.type = "STRING" -> Quoted(t.value, quote, <<"'">>)
                   [] t.type = "INTERP" -> Quoted(t.value, quote, <<"#", "{">>)
                   [] OTHER             -> Sign[t.type]
TextOf(ts) == AllIn([i \in DOMAIN ts |-> Spelled(ts, i)])

Tokens    == ForEach(Each(Written, ProgramTokens) \o Sloppy, LAMBDA ts : Append(ts, Tok("FIN")))
MCLetters == Range(Chars("abcdefghijklmnopqrstuvwxyzV"))

\* The lexer of a written text, or of tokens that no text gives: it has read at
\* of them; FIN is behind the last, as often as asked.
Listed(ts) == [tokens |-> ts, at |-> 0, token |-> Tok("NONE")]
Starts ==
  ForEach(Written, LAMBDA ss : OnText(TextOf(ProgramTokens(ss))))
    \o ForEach(Sloppy, LAMBDA ts : Listed(Append(ts, Tok("FIN"))))
MCLexers  == Starts
MCNext(lx) ==
  IF "text" \in DOMAIN lx THEN ScanText(lx)
  ELSE LET at == IF lx.at < Len(lx.tokens) THEN lx.at + 1 ELSE lx.at
       IN  [lx EXCEPT !.at = at, !.token = lx.tokens[at]]

\* What is written comes back as the trees it was written from: operators bind
\* and associate, and lists, cases, bodies and branches end, as they should.
ParsesAsWritten ==
  src \in DOMAIN Written => /\ IsPrefix(trees, Append(Written[src], Fin))
                            /\ parser.said = <<>> /\ ~Halted(parser)

\* As long as nothing was complained of, every token taken is in the trees, in
\* its place, but line breaks and an else that nothing follows: no error goes by
\* without a word.
Unbroken(ts) == SelectSeq(ts, LAMBDA t : t.type # "ENDL")
BareElse(ts, i) == ts[i].type = "ELSE" /\ (i = Len(ts) \/ ts[i + 1].type = "RBRACE")
Gist(toks) ==
  LET ts == Unbroken(toks)
  IN  SelectSeq([i \in DOMAIN ts |-> IF BareElse(ts, i) THEN <<>> ELSE <<ts[i].type, ts[i].text, ts[i].value>>],
                LAMBDA t : t # <<>>)
KeepsTokens ==
  parser.said = <<>> /\ ~Halted(parser) /\ ~Finished =>
    Gist(ProgramTokens(trees)) = Gist(SubSeq(Tokens[src], 1, parser.taken - 1))

\* What the parser has made is what compile, which destroys each tree it has
\* compiled, deletes, but for the node FIN: nothing is forgotten or deleted
\* twice, whatever is wrong with the text (Compiler::compile, node.cpp).
NodesFreed ==
  LET compiled == IF Finished THEN Front(trees) ELSE trees
  IN  ~Halted(parser) => parser.made = DestroyedAll(compiled) + (IF Finished THEN 1 ELSE 0)
=============================================================================
