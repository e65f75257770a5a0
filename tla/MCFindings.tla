----------------------------- MODULE MCFindings -----------------------------
(***************************************************************************)
(* Programs outside the part of the language that means what it says, and  *)
(* for each what the repository says of it that does not hold.             *)
(***************************************************************************)
EXTENDS Engel, Programs

MCPrograms == Compiled

\* print(f), print('#{f}') and print(print).
PrintsFunction == <<
  <<Let("f", Fn(<<"x">>, V("x"))), Show(V("f"))>>,
  <<Show(<<"Interp", <<<<<<"f = ">>, Fn(<<>>, I(1))>>>>, <<"!">>>>)>>,
  <<Show(V("print"))>> >>
MCPrintsFunction == PrintsFunction

\* A name declared twice in one block, in one let or in two.
DeclaresTwice == <<
  <<Blk(<<Let("a", I(1)), Let("b", I(2)), Let("a", I(3)), Show(V("a"))>>)>>,
  <<Blk(<<<<"Dec", <<<<"a", I(1)>>, <<"a", I(2)>>>>>>, Show(V("a"))>>)>>,
  <<Let("f", Proc(<<>>, <<Let("a", I(1)), Let("a", I(2)), Show(V("a"))>>)), Just(Run("f"))>> >>
MCDeclaresTwice == DeclaresTwice

\* A variable declared behind a block that had one of its own.
DeclaresBehindBlock == <<
  <<Blk(<<Let("a", I(1)), Blk(<<Let("b", I(2)), Show(V("b"))>>),
          Let("c", I(3)), Show(V("c"))>>)>>,
  <<Let("f", Proc(<<"n">>, <<While(Less(V("n"), I(2)),
                                   Blk(<<Let("m", Inc("n")), Show(V("m"))>>), None),
                             Let("r", V("n")), Show(V("r"))>>)),
    Just(Run1(V("f"), I(0)))>> >>
MCDeclaresBehindBlock == DeclaresBehindBlock

\* vector.eng
Vectors   == <<VectorEng>>
MCVectors == Vectors

\* An if around more code than a byte counts, skipped and run.
Long      == [i \in 1 .. 48 |-> Show(I(1))]
FarJump   == <<
  <<Let("a", I(1)), If(Less(V("a"), I(1)), Blk(Long), Blk(<<Show(I(2))>>)), Show(I(3))>>,
  <<Let("a", I(1)), If(Less(V("a"), I(2)), Blk(Long), Blk(<<Show(I(2))>>)), Show(I(3))>> >>
MCFarJump == FarJump

\* A value of a type that to_string has a case for is never printed as one of
\* an unknown type (VM::to_string's cases for closures, functions and natives,
\* which run into its default).
KnownTypesPrinted == \A i \in DOMAIN out : out[i] # <<ScrewedUp>>

\* The names a sequence of statements declares in its own block.
NamesDeclared(ss) ==
  FoldLeft(LAMBDA names, s : IF s[1] = "Dec" THEN names \o [i \in DOMAIN s[2] |-> s[2][i][1]]
                             ELSE names, <<>>, ss)
BlockIn(stmt) == IF stmt[1] = "Dec" THEN stmt[2][1][2][3][2] ELSE stmt[2]

\* Compiling a block that declares a name twice prints "Already declared in
\* scope." (NODE_DEC's scan of the locals).
RedeclarationReported ==
  ~IsInjective(NamesDeclared(BlockIn(Sources[src][1]))) => AlreadyDeclared \in Objects[src].puts

\* run() says "Undefined variable access", or "Undefined", and ends the process
\* only when the program does use a variable nobody defined.
OnlyUndefinedIsUndefined == status = "exited" => Meanings[src].status = "exited"

\* A jump leads to the end that emit_uint has written and that the listing
\* prints for it, from all its four bytes (main.cpp's cases JMP, AND and OR).
WrittenAt(code, p) == 2^24 * code[p + 1] + 2^16 * code[p + 2] + 2^8 * code[p + 3] + code[p + 4]
EndWritten == ip + 5 + WrittenAt(Func.code, ip + 1)
LandsAsListed ==
  [][(\E i \in At({"JMP", "OR", "AND"}) : TRUE) /\ status' = "running"
        => ip' \in (IF OpAt(Func.code, ip) = "JMP" THEN {} ELSE {ip + 5}) \cup {EndWritten}]_vars
=============================================================================
