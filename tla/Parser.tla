------------------------------- MODULE Parser -------------------------------
(***************************************************************************)
(* The recursive descent parser of src/src/parser.cpp.  Each method is an  *)
(* operator from the parser's state s to the state and the tree it returns *)
(* (see Trees).  ParserSpec is a parser that is asked for one declaration  *)
(* after the other, as Compiler::compile asks, until it returns the node   *)
(* FIN.                                                                    *)
(*                                                                         *)
(* NULL is the tree None.  A parser that repeats the same step for ever,   *)
(* or follows a NULL pointer, has halted: its current token is then of the *)
(* type ENDLESS or CRASH, which nothing takes.                             *)
(***************************************************************************)
EXTENDS Trees, SequencesExt

CONSTANTS
  Lexers,        \* the lexers a parser is made with, in a sequence
  NextToken(_),  \* Lexer::scan: the lexer after it, with the token as .token
  OperatorFirst  \* whether the build reads prev before it parses the operand in
                 \*   new Binary(this->prev.type, result, this->mul())

ASSUME OperatorAssumption == OperatorFirst \in BOOLEAN

(***************************************************************************)
(* The cursor.                                                             *)
(***************************************************************************)
Result(s, node) == [s |-> s, node |-> node]

\* An object of node.hpp is made; Made returns the node it is.
Make(s)       == [s EXCEPT !.made = @ + 1]
Made(s, node) == Result(Make(s), node)

Halt(s, why)    == [s EXCEPT !.prev = s.curr, !.curr = [type |-> why, text |-> <<>>, value |-> NullVal]]
Halted(s)       == s.curr.type \in {"ENDLESS", "CRASH", "NONE"}

\* sniff
At(s, types) == s.curr.type \in types

\* The methods by name, defined behind the last of them: a rule may be tried
\* inside every other.
RECURSIVE Rule(_, _)
Advance(s) == Rule("advance", s)

\* taken counts the calls.
AdvanceRule(s) ==
  IF Halted(s) THEN s
  ELSE LET lx == NextToken(s.lx) IN
       [s EXCEPT !.prev = s.curr, !.lx = lx, !.curr = lx.token, !.taken = @ + 1]

\* A slip in Eat: nothing is said of a token that is not the one expected.
QuietEat(s, type, complaint) == Advance(s)

\* What is there instead of the token is consumed, too.
Eat(s, type, complaint) ==
  IF At(s, {type}) \/ Halted(s) THEN Advance(s)
  ELSE [Advance(s) EXCEPT !.said = Append(@, complaint)]

RECURSIVE SkipBreaks(_)
SkipBreaks(s) == IF At(s, {"ENDL"}) THEN SkipBreaks(Advance(s)) ELSE s

NewParser(lx) ==
  LET first == NextToken(lx)
  IN  [lx |-> first, prev |-> first.token, curr |-> first.token, taken |-> 1, said |-> <<>>,
      made |-> 0]

\* The operator of the node a parser builds that had tasted it at before and
\* has parsed the operand at after.
TakenOperator(before, after) ==
  IF OperatorFirst THEN before.prev.type ELSE after.prev.type

(***************************************************************************)
(* Expressions, from the loosest.                                          *)
(***************************************************************************)
\* The methods that call each other in circles, see Rule.
RECURSIVE BinaryAt(_, _)
Expr(s)   == Rule("expr", s)
IfElse(s) == Rule("ifelse", s)
Exp(s)    == Rule("exp", s)
Factor(s) == Rule("factor", s)
Block(s)  == Rule("block", s)
Stmt(s)   == Rule("stmt", s)
Dec(s)    == Rule("dec", s)

SetOps == {"SET", "ADD_SET", "SUB_SET", "MUL_SET", "DIV_SET", "EXP_SET",
           "LSHIFT_SET", "RSHIFT_SET", "BAND_SET", "BOR_SET", "TIL_SET"}
InvalidTarget == "Invalid target for assignment."

\* ass: an assignment to what is no name is a node, too.
Ass(s) ==
  LET left  == IfElse(s)
      value == Expr(SkipBreaks(Advance(left.s)))
      op    == left.s.curr.type
  IN  CASE ~At(left.s, SetOps)   -> left
        [] left.node = None      -> Result(Halt(value.s, "CRASH"), None)
        [] left.node[1] = "Get"  -> Made(value.s, <<"Set", op, left.node[2], value.node>>)
        [] OTHER -> Made([value.s EXCEPT !.said = Append(@, InvalidTarget)], <<"SetNode", op, left.node, value.node>>)

IfElseRule(s) ==
  LET then  == BinaryAt(s, 9)
      cond  == IfElse(Advance(then.s))
      other == IfElse(Eat(cond.s, "ELSE", "Expected else clause."))
  IN  IF At(then.s, {"IF"}) THEN Made(other.s, <<"If", cond.node, then.node, other.node>>)
      ELSE then

Compares == {"LT", "GT", "LE", "GE", "EQUIV", "BANG_EQ"}

\* A slip in Levels: && and || bind alike.
FlatLevels == <<{"MUL", "MOD", "DIV", "PER"}, {"ADD", "SUB"}, {"BAND"}, {"LSHIFT", "RSHIFT"},
                {"TIL"}, {"BOR"}, Compares, {"AMP_AMP", "PIP_PIP"}, {}>>

\* The operators of mul, add, band, shift, xor_, bor, comp, and_ and or_.
Levels == <<{"MUL", "MOD", "DIV", "PER"}, {"ADD", "SUB"}, {"BAND"}, {"LSHIFT", "RSHIFT"},
            {"TIL"}, {"BOR"}, Compares, {"AMP_AMP"}, {"PIP_PIP"}>>

\* comp, behind its first operand: one node for the whole chain.
RECURSIVE Links(_, _, _)
Links(s, primer, list) ==
  LET next == BinaryAt(SkipBreaks(Advance(s)), 6)
  IN  IF At(s, Levels[7]) THEN Links(Make(next.s), primer, Append(list, <<s.curr.type, next.node>>))
      ELSE Made(s, <<"Comp", primer, list>>)

\* A method parses an operand by the method of the level below it, then the
\* chain of its own operators: from an operand of level j to one of level k.
RECURSIVE Chained(_, _, _)
Chained(left, j, k) ==
  LET operator == Advance(left.s)
      right    == BinaryAt(operator, j - 1)
      kind     == IF j <= 6 THEN "Binary" ELSE "Cond"
  IN  CASE j > k                    -> left
        [] ~At(left.s, Levels[j])   -> Chained(left, j + 1, k)
        [] j = 7                    -> Chained(Links(left.s, left.node, <<>>), 8, k)
        [] OTHER ->
             Chained(Made(right.s, <<kind, TakenOperator(operator, right.s), left.node, right.node>>), j, k)
BinaryAt(s, k) == Chained(Exp(s), 1, k)

ExpRule(s) ==
  LET left     == Factor(s)
      operator == Advance(left.s)
      right    == Exp(operator)
  IN  IF At(left.s, {"EXP"})
      THEN Made(right.s, <<"Binary", TakenOperator(operator, right.s), left.node, right.node>>)
      ELSE left

\* The loops "expr, expr, ..." of calls, cases and parameters.
RECURSIVE ExprList(_, _)
ExprList(s, list) ==
  LET expr == Expr(SkipBreaks(s))
      next == SkipBreaks(expr.s)
      all  == Append(list, expr.node)
  IN  IF At(next, {"COMMA"}) THEN ExprList(Advance(next), all) ELSE [s |-> next, list |-> all]

\* call_to, finish_call
RECURSIVE CallTo(_, _)
CallTo(s, node) ==
  LET open == Advance(s)
      args == ExprList(open, <<>>)
  IN  CASE ~At(s, {"LPAREN"})    -> Result(s, node)
        [] At(open, {"RPAREN"})  -> CallTo(Make(Advance(open)), <<"Call", node, <<>>>>)
        [] OTHER -> CallTo(Make(Eat(args.s, "RPAREN", "Expected )")), <<"Call", node, args.list>>)

FuncBody(s) ==
  LET n == SkipBreaks(s)
      e == Expr(n)
  IN  IF At(n, {"LBRACE"}) THEN Block(n) ELSE Made(e.s, <<"Return", e.node>>)

(***************************************************************************)
(* The cases of factor, behind their first token.                          *)
(***************************************************************************)
RECURSIVE Pieces1(_, _)
Pieces1(s, list) ==
  LET value == Expr(s)
      all   == Append(list, <<s.prev.value[2], value.node>>)
      next  == Make(value.s)
      cap   == Eat(next, "STRING", "Unclosed string")
  IN  IF At(next, {"INTERP"}) THEN Pieces1(Advance(next), all)
      ELSE Made(cap, <<"Interp", all, cap.prev.value[2]>>)

RECURSIVE Cases(_, _)
Cases(s, list) ==
  LET n      == SkipBreaks(s)
      checks == ExprList(n, <<>>)
      then   == Expr(Eat(checks.s, "FAT_ARROW", "Expected =>"))
  IN  CASE At(n, {"FIN"}) \/ Halted(n) -> [s |-> n, list |-> list]
        [] At(n, {"RBRACE"})           -> [s |-> Advance(n), list |-> list]
        [] OTHER -> Cases(Make(then.s), Append(list, <<checks.list, then.node>>))

Match(s) ==
  LET comp  == Expr(SkipBreaks(s))
      cases == Cases(Eat(SkipBreaks(comp.s), "LBRACE", "Expected {"), <<>>)
      other == Expr(SkipBreaks(Eat(SkipBreaks(cases.s), "ELSE", "Expected else clause")))
  IN  Made(other.s, <<"Match", comp.node, cases.list, other.node>>)

\* A function's parameters or a group: which, only the tokens behind the
\* first expression tell.
Paren(s) ==
  LET open   == SkipBreaks(s)
      expr   == Expr(open)
      next   == SkipBreaks(expr.s)
      args   == CASE At(open, {"RPAREN"}) -> [s |-> open, list |-> <<>>]
                  [] At(next, {"COMMA"})  -> ExprList(Advance(next), <<expr.node>>)
                  [] OTHER                -> [s |-> next, list |-> <<expr.node>>]
      isFunc == At(open, {"RPAREN"}) \/ At(next, {"COMMA"})
      close  == SkipBreaks(Eat(args.s, "RPAREN", "Expected )"))
      body   == FuncBody(SkipBreaks(Eat(close, "ARROW", "Expected ->")))
  IN  IF isFunc \/ At(close, {"ARROW"}) THEN Made(body.s, <<"Func", args.list, body.node>>)
      ELSE Made(close, <<"Group", expr.node>>)

Negated(s) == LET f == Factor(s) IN Made(f.s, <<"Unary", TakenOperator(s, f.s), f.node>>)

\* true and false are not called, and what starts no factor is not consumed.
FactorRule(s) ==
  LET n == Advance(s)
      made == Make(n)
      Called(result) == CallTo(result.s, result.node)
  IN  CASE At(s, {"INT", "STRING"}) -> CallTo(made, <<"Const", n.prev.value>>)
        [] At(s, {"INTERP"})        -> Called(Pieces1(n, <<>>))
        [] At(s, {"ID"})            -> CallTo(made, <<"Get", n.prev.text>>)
        [] At(s, {"TRUE", "FALSE"}) -> Made(n, <<"Const", BoolVal(At(s, {"TRUE"}))>>)
        [] At(s, {"MATCH"})         -> Called(Match(n))
        [] At(s, {"SUB"})           -> Called(Negated(n))
        [] At(s, {"LPAREN"})        -> Called(Paren(n))
        [] OTHER                    -> Result(s, None)

(***************************************************************************)
(* Statements and declarations.                                            *)
(***************************************************************************)
\* block's loop: a NULL for which nothing was consumed comes back for ever.
RECURSIVE Stmts(_, _)
Stmts(s, list) ==
  LET dec == Dec(SkipBreaks(s))
  IN  CASE At(s, {"RBRACE", "FIN"}) \/ Halted(s)          -> [s |-> s, list |-> list]
        [] dec.node # None                                -> Stmts(dec.s, Append(list, dec.node))
        [] dec.node = None /\ dec.s.taken > s.taken       -> Stmts(dec.s, list)
        [] dec.node = None /\ dec.s.taken = s.taken       -> [s |-> Halt(dec.s, "ENDLESS"), list |-> list]

BlockRule(s) ==
  LET stmts == Stmts(Eat(s, "LBRACE", "Expected {"), <<>>)
  IN  Made(Eat(stmts.s, "RBRACE", "Expected }"), <<"Block", stmts.list>>)

\* if and while, behind the keyword.
Conditional(s, kind) ==
  LET cond  == Expr(s)
      then  == Block(SkipBreaks(cond.s))
      next  == SkipBreaks(then.s)
      other == IF At(next, {"ELSE"}) THEN Stmt(SkipBreaks(Advance(next))) ELSE Result(next, None)
  IN  Made(other.s, <<kind, cond.node, then.node, other.node>>)

\* A slip in StmtRule: a line break is seen but not taken.
SniffStmt(s) ==
  LET expr == Expr(s)
  IN  CASE At(s, {"ENDL"})   -> Result(s, None)
        [] At(s, {"LBRACE"}) -> Block(s)
        [] At(s, {"IF"})     -> Conditional(Advance(s), "If")
        [] At(s, {"WHILE"})  -> Conditional(Advance(s), "While")
        [] OTHER -> IF expr.node = None THEN expr ELSE Made(expr.s, <<"Expr", expr.node>>)

StmtRule(s) ==
  LET n    == Advance(s)
      expr == Expr(s)
  IN  CASE At(s, {"ENDL"})   -> Result(n, None)
        [] At(s, {"LBRACE"}) -> Block(s)
        [] At(s, {"IF"})     -> Conditional(n, "If")
        [] At(s, {"WHILE"})  -> Conditional(n, "While")
        [] OTHER -> IF expr.node = None THEN expr ELSE Made(expr.s, <<"Expr", expr.node>>)

RECURSIVE Lets(_, _)
Lets(s, list) ==
  LET name  == Eat(SkipBreaks(s), "ID", "Expected identifier")
      value == Expr(Eat(name, "SET", "Expected ="))
      next  == SkipBreaks(Make(value.s))
      all   == Append(list, <<name.prev.text, value.node>>)
  IN  IF At(next, {"COMMA"}) THEN Lets(Advance(next), all) ELSE Made(next, <<"Dec", all>>)

DecRule(s) == IF At(s, {"LET"}) THEN Lets(Advance(s), <<>>) ELSE Stmt(s)

Rule(name, s) ==
  CASE name = "advance" -> AdvanceRule(s)
    [] name = "expr"    -> Ass(s)
    [] name = "ifelse"  -> IfElseRule(s)
    [] name = "exp"     -> ExpRule(s)
    [] name = "factor"  -> FactorRule(s)
    [] name = "block"   -> BlockRule(s)
    [] name = "stmt"    -> StmtRule(s)
    [] name = "dec"     -> DecRule(s)

\* A slip in Parse: it returns the NULL for which nothing was consumed.
RECURSIVE GivingParse(_)
GivingParse(s) ==
  LET dec == Dec(s)
  IN  CASE At(s, {"FIN"})                           -> Made(s, Fin)
        [] dec.node = None /\ dec.s.taken > s.taken -> GivingParse(dec.s)
        [] OTHER                                    -> dec

\* parse, and the loop of its own.
RECURSIVE Parse(_)
Parse(s) ==
  LET dec == Dec(s)
  IN  CASE At(s, {"FIN"})                             -> Made(s, Fin)
        [] dec.node # None                            -> dec
        [] Halted(dec.s)                              -> dec
        [] dec.node = None /\ dec.s.taken > s.taken   -> Parse(dec.s)
        [] dec.node = None /\ dec.s.taken = s.taken   -> Result(Halt(dec.s, "ENDLESS"), None)

(***************************************************************************)
(* A parser that is asked for declarations.                                *)
(***************************************************************************)
VARIABLES
  src,     \* the index of its lexer in Lexers
  parser,  \* its state
  trees    \* what parse has returned

parserVars == <<src, parser, trees>>

Finished == trees # <<>> /\ Last(trees) = Fin

ParserInit ==
  /\ src \in DOMAIN Lexers
  /\ parser = NewParser(Lexers[src])
  /\ trees = <<>>

ParserNext ==
  /\ ~Halted(parser) /\ ~Finished
  /\ \E dec \in {Parse(parser)} :
       /\ parser' = dec.s
       /\ trees' = IF Halted(dec.s) THEN trees ELSE Append(trees, dec.node)
  /\ UNCHANGED src

ParserSpec == ParserInit /\ [][ParserNext]_parserVars

(***************************************************************************)
(* Properties.                                                             *)
(***************************************************************************)
\* Every tree parse returns has cost a token: the compiler, which asks until
\* it gets FIN, is not given trees for ever (Parser::parse, Compiler::compile).
TreesCostTokens == ~Finished => Len(trees) < parser.taken

\* The tokens that neither start a declaration nor follow a NULL expression.
Strays == {"RPAREN", "RBRACE", "RBRACK", "COMMA", "COLON", "ARROW", "FAT_ARROW", "ELSE", "REAL",
           "NULL", "RETURN", "FOR", "THIS", "CALL", "JUMP", "BREAK", "DEC", "QUESTION", "COAL",
           "PLUS_PLUS", "SUB_SUB", "MOD_SET", "ERROR"}

\* No call stays in the parser for ever, whatever is wrong with the text, but
\* for a stray token where block or parse expects a declaration (their loops
\* on a NULL for which nothing was consumed).
EndlessAtStrays == parser.curr.type = "ENDLESS" => parser.prev.type \in Strays
=============================================================================
