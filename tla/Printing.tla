------------------------------ MODULE Printing ------------------------------
(***************************************************************************)
(* How trees are written: the tokens of a tree and the parentheses it      *)
(* needs.  Independent of Parser, which must read back what is written.    *)
(***************************************************************************)
EXTENDS Trees, Families

Tok(type)        == [type |-> type, text |-> <<>>, value |-> NullVal]
Name(x)          == [Tok("ID") EXCEPT !.text = x]
Literal(type, v) == [Tok(type) EXCEPT !.value = v]
Break            == <<Tok("ENDL")>>
In(open, ts, close) == <<Tok(open)>> \o ts \o <<Tok(close)>>

RECURSIVE TokensOf(_), ListTokens(_, _)
\* The trees of a sequence, with separator between them.
ListTokens(list, separator) ==
  IF list = <<>> THEN <<>>
  ELSE TokensOf(Head(list)) \o (IF Tail(list) = <<>> THEN <<>>
                             ELSE <<Tok(separator)>> \o ListTokens(Tail(list), separator))

ConstTokens(v) ==
  CASE IsInt(v)  -> <<Literal("INT", v)>>
    [] IsStr(v)  -> <<Literal("STRING", v)>>
    [] IsBool(v) -> <<Tok(IF v[2] THEN "TRUE" ELSE "FALSE")>>

ElseTokens(other) == IF other = None THEN <<>> ELSE <<Tok("ELSE")>> \o TokensOf(other)

\* One declaration after the other, each on a line of its own.
ProgramTokens(ss) == AllIn([i \in DOMAIN ss |-> TokensOf(ss[i]) \o Break])

TokensOf(t) ==
  CASE t[1] = "None"   -> <<>>
    [] t[1] = "Const"  -> ConstTokens(t[2])
    [] t[1] = "Get"    -> <<Name(t[2])>>
    [] t[1] = "Expr"   -> TokensOf(t[2])
    [] t[1] = "Return" -> TokensOf(t[2])
    [] t[1] = "Group"  -> In("LPAREN", TokensOf(t[2]), "RPAREN")
    [] t[1] = "Unary"  -> <<Tok(t[2])>> \o TokensOf(t[3])
    [] t[1] \in {"Binary", "Cond"} -> TokensOf(t[3]) \o <<Tok(t[2])>> \o TokensOf(t[4])
    [] t[1] = "Set"    -> <<Name(t[3])>> \o <<Tok(t[2])>> \o TokensOf(t[4])
    [] t[1] = "Call"   -> TokensOf(t[2]) \o In("LPAREN", ListTokens(t[3], "COMMA"), "RPAREN")
    [] t[1] = "Func"   -> In("LPAREN", ListTokens(t[2], "COMMA"), "RPAREN") \o <<Tok("ARROW")>> \o TokensOf(t[3])
    [] t[1] = "Block"  -> In("LBRACE", Break \o ProgramTokens(t[2]), "RBRACE")
    [] t[1] = "While"  -> <<Tok("WHILE")>> \o TokensOf(t[2]) \o TokensOf(t[3]) \o ElseTokens(t[4])
    [] t[1] = "If"     -> IF t[3][1] = "Block"
                          THEN <<Tok("IF")>> \o TokensOf(t[2]) \o TokensOf(t[3]) \o ElseTokens(t[4])
                          ELSE TokensOf(t[3]) \o <<Tok("IF")>> \o TokensOf(t[2]) \o <<Tok("ELSE")>> \o TokensOf(t[4])
    [] t[1] = "Comp"   -> TokensOf(t[2]) \o AllIn([i \in DOMAIN t[3] |-> <<Tok(t[3][i][1])>> \o TokensOf(t[3][i][2])])
    [] t[1] = "Interp" -> AllIn([i \in DOMAIN t[2] |->
                            <<Literal("INTERP", StrVal(t[2][i][1]))>> \o TokensOf(t[2][i][2])])
                          \o <<Literal("STRING", StrVal(t[3]))>>
    [] t[1] = "Match"  -> <<Tok("MATCH")>> \o TokensOf(t[2])
                          \o In("LBRACE", Break \o AllIn([i \in DOMAIN t[3] |->
                               ListTokens(t[3][i][1], "COMMA") \o <<Tok("FAT_ARROW")>> \o TokensOf(t[3][i][2]) \o Break]),
                             "RBRACE")
                          \o <<Tok("ELSE")>> \o TokensOf(t[4])
    [] t[1] = "Dec"    -> <<Tok("LET")>> \o Tail(AllIn([i \in DOMAIN t[2] |->
                            <<Tok("COMMA"), Name(t[2][i][1]), Tok("SET")>> \o TokensOf(t[2][i][2])]))

(***************************************************************************)
(* How tightly an expression holds together, and the parentheses an        *)
(* operand needs.                                                          *)
(***************************************************************************)
Binding ==
  [EXP |-> 11, MUL |-> 10, MOD |-> 10, DIV |-> 10, ADD |-> 9, SUB |-> 9, BAND |-> 8,
   LSHIFT |-> 7, RSHIFT |-> 7, TIL |-> 6, BOR |-> 5, AMP_AMP |-> 3, PIP_PIP |-> 2]
Tightness(t) ==
  CASE t[1] \in {"Set", "Match", "Func"} -> 0
    [] t[1] = "If"                 -> 1
    [] t[1] \in {"Binary", "Cond"} -> Binding[t[2]]
    [] t[1] = "Comp"               -> 4
    [] t[1] = "Unary"              -> 12
    [] t[1] = "Const" /\ IsBool(t[2]) -> 12
    [] OTHER                       -> 13

RECURSIVE Grouped(_)
\* t with parentheses if it is looser than least.
AtLeast(t, least) == IF Tightness(t) < least THEN <<"Group", Grouped(t)>> ELSE Grouped(t)
GroupedAll(ts) == [i \in DOMAIN ts |-> Grouped(ts[i])]

\* Every operator is left associative but ^.
Grouped(t) ==
  CASE t[1] \in {"None", "Const", "Get"} -> t
    [] t[1] \in {"Expr", "Return", "Group"} -> <<t[1], Grouped(t[2])>>
    [] t[1] = "Unary" -> <<"Unary", t[2], AtLeast(t[3], 12)>>
    [] t[1] \in {"Binary", "Cond"} ->
         <<t[1], t[2], AtLeast(t[3], Binding[t[2]] + (IF t[2] = "EXP" THEN 1 ELSE 0)),
                       AtLeast(t[4], Binding[t[2]] + (IF t[2] = "EXP" THEN 0 ELSE 1))>>
    [] t[1] = "Set"    -> <<"Set", t[2], t[3], Grouped(t[4])>>
    [] t[1] = "Call"   -> <<"Call", AtLeast(t[2], 13), GroupedAll(t[3])>>
    [] t[1] = "Func"   -> <<"Func", t[2], Grouped(t[3])>>
    [] t[1] = "Block"  -> <<"Block", GroupedAll(t[2])>>
    [] t[1] = "While"  -> <<"While", Grouped(t[2]), Grouped(t[3]), Grouped(t[4])>>
    [] t[1] = "If"     -> IF t[3][1] = "Block" THEN <<"If", Grouped(t[2]), Grouped(t[3]), Grouped(t[4])>>
                          ELSE <<"If", AtLeast(t[2], 1), AtLeast(t[3], 2), AtLeast(t[4], 1)>>
    [] t[1] = "Comp"   -> <<"Comp", AtLeast(t[2], 5), [i \in DOMAIN t[3] |-> <<t[3][i][1], AtLeast(t[3][i][2], 5)>>]>>
    [] t[1] = "Interp" -> <<"Interp", [i \in DOMAIN t[2] |-> <<t[2][i][1], Grouped(t[2][i][2])>>], t[3]>>
    [] t[1] = "Match"  -> <<"Match", Grouped(t[2]),
                            [i \in DOMAIN t[3] |-> <<GroupedAll(t[3][i][1]), Grouped(t[3][i][2])>>], Grouped(t[4])>>
    [] t[1] = "Dec"    -> <<"Dec", [i \in DOMAIN t[2] |-> <<t[2][i][1], Grouped(t[2][i][2])>>]>>
=============================================================================
