------------------------------ MODULE CodeGen ------------------------------
(***************************************************************************)
(* The compiler of src/src/compiler.cpp: Compiler::visit as a function     *)
(* from the compiler's state and a syntax tree to the compiler's state.    *)
(*                                                                         *)
(* Trees describes the syntax trees.                                       *)
(*                                                                         *)
(* The state also keeps three things the code does not: where instructions *)
(* start, where statements start and how many locals are on the stack      *)
(* there, and which diagnostics were printed.                              *)
(***************************************************************************)
EXTENDS Trees, SequencesExt

(***************************************************************************)
(* The state of the compiler.                                              *)
(***************************************************************************)
CallLocal == [name |-> "call", depth |-> 0, captured |-> FALSE]

EmptyFunction == [code |-> <<>>, consts |-> <<>>, nup |-> 0, arity |-> 0]

\* init_scope: slot 0 of every function is the function itself.
InitScope(cs) ==
  [cs EXCEPT
     !.funcs  = Append(@, EmptyFunction),
     !.scopes = Append(@, [fn |-> Len(cs.funcs) + 1, locals |-> <<CallLocal>>,
                           numLocals |-> 1, upvals |-> <<>>, depth |-> 0])]

NewCompiler == InitScope([funcs |-> <<>>, scopes |-> <<>>, curr |-> 0, max |-> 0,
                          starts |-> {}, stmts |-> {}, puts |-> {}])

Cur(cs)  == Last(cs.scopes)
Here(cs) == Len(cs.funcs[Cur(cs).fn].code)      \* save_spot

\* curr_scope with one field replaced.
WithDepth(cs, d)  == [cs EXCEPT !.scopes[Len(cs.scopes)].depth = d]
WithLocals(cs, n) == [cs EXCEPT !.scopes[Len(cs.scopes)].numLocals = n]

(***************************************************************************)
(* Emitting code.                                                          *)
(***************************************************************************)
Emit(cs, bytes) == [cs EXCEPT !.funcs[Cur(cs).fn].code = @ \o bytes]

\* emit(OP_...): an instruction the stack's height is not counted for.
EmitBare(cs, op) ==
  Emit([cs EXCEPT !.starts = @ \cup {<<Cur(cs).fn, Here(cs)>>}], <<OpByte[op]>>)

\* emit_op and mod_stack
EmitOp(cs, op) ==
  LET height == cs.curr + StackEffect[op]
  IN  [EmitBare(cs, op) EXCEPT !.curr = height,
                               !.max = IF height > @ THEN height ELSE @]

EmitUleb(cs, n) == Emit(cs, UlebBytes(n))

AddConst(cs, v) ==
  LET consts == cs.funcs[Cur(cs).fn].consts
  IN  EmitUleb([cs EXCEPT !.funcs[Cur(cs).fn].consts = Append(@, v)], Len(consts))

\* emit_const; add_const after emit_op writes the same.
EmitConst(cs, v) == AddConst(EmitOp(cs, "CONST"), v)

\* prep_jump leaves four bytes at the spot that is Here before them ...
PrepJump(cs, op) == Emit(EmitOp(cs, op), UintBytes(0))
Spot(cs) == Here(cs) - 4

PatchUint(cs, spot, n) ==
  [cs EXCEPT !.funcs[Cur(cs).fn].code =
     [i \in DOMAIN @ |-> IF i \in spot + 1 .. spot + 4 THEN UintBytes(n)[i - spot] ELSE @[i]]]

\* Slips in Land and GoTo: the distance counts the operand; the loop jumps to
\* its own jump.
LandLong(cs, spot)  == PatchUint(cs, spot, Here(cs) - spot)
GoToItself(cs, to)  == LET c == PrepJump(cs, "GOTO") IN PatchUint(c, Spot(c), Here(cs))

\* ... and jump makes it lead here, as a distance; go_to takes an offset.
Land(cs, spot)     == PatchUint(cs, spot, Here(cs) - spot - 4)
GoTo(cs, to)       == LET c == PrepJump(cs, "GOTO") IN PatchUint(c, Spot(c), to)
LandAll(cs, spots) == FoldLeft(Land, cs, spots)

(***************************************************************************)
(* Scopes and variables.                                                   *)
(***************************************************************************)
\* add_local appends to the vector and counts one more local.
AddLocal(cs, name) ==
  LET sc == Cur(cs)
  IN  [cs EXCEPT !.scopes[Len(cs.scopes)] =
         [sc EXCEPT !.locals = Append(@, [name |-> name, depth |-> sc.depth, captured |-> FALSE]),
                    !.numLocals = @ + 1]]

BeginBlock(cs) == WithDepth(cs, Cur(cs).depth + 1)

\* A slip in EndBlock: a captured local is popped like any other.
EndBlockPops(cs) ==
  LET c    == WithDepth(cs, Cur(cs).depth - 1)
      sc   == Cur(c)
      left == CHOOSE n \in 0 .. sc.numLocals :
                /\ n = 0 \/ sc.locals[n].depth <= sc.depth
                /\ \A m \in n + 1 .. sc.numLocals : m # 0 /\ sc.locals[m].depth > sc.depth
  IN  WithLocals(FoldLeft(LAMBDA c2, i : EmitOp(c2, "POP"), c, [i \in 1 .. sc.numLocals - left |-> i]), left)

\* end_block's loop: the counted locals deeper than the block around it, last
\* first.  The vector keeps them.
EndBlock(cs) ==
  LET c    == WithDepth(cs, Cur(cs).depth - 1)
      sc   == Cur(c)
      Stay(n) == n = 0 \/ sc.locals[n].depth <= sc.depth
      left == CHOOSE n \in 0 .. sc.numLocals :
                Stay(n) /\ \A m \in n + 1 .. sc.numLocals : ~Stay(m)
      Leave(c2, i) ==
        EmitOp(c2, IF sc.locals[sc.numLocals - i + 1].captured THEN "CLOSE" ELSE "POP")
  IN  WithLocals(FoldLeft(Leave, c, [i \in 1 .. sc.numLocals - left |-> i]), left)

\* resolve_local looks at the counted locals only; the index, or -1.
ResolveLocal(scope, name) ==
  LET found == {i \in 1 .. scope.numLocals : scope.locals[i].name = name}
  IN  IF found = {} THEN -1 ELSE Max(found) - 1

\* A slip in AddUpval: a local and an upvalue of one index are taken for the same.
UpvalByIndex(cs, s, index, isLocal) ==
  LET ups  == cs.scopes[s].upvals
      same == {i \in DOMAIN ups : ups[i].index = index}
  IN  IF same # {}
      THEN [cs |-> cs, index |-> Min(same) - 1]
      ELSE [cs |-> [cs EXCEPT !.scopes[s].upvals = Append(@, [index |-> index, isLocal |-> isLocal]),
                              !.funcs[cs.scopes[s].fn].nup = @ + 1],
            index |-> Len(ups)]

\* add_upval: scope number s gets an upvalue, at most one for each variable.
AddUpval(cs, s, index, isLocal) ==
  LET ups  == cs.scopes[s].upvals
      u    == [index |-> index, isLocal |-> isLocal]
      same == {i \in DOMAIN ups : ups[i] = u}
  IN  IF same # {}
      THEN [cs |-> cs, index |-> Min(same) - 1]
      ELSE [cs |-> [cs EXCEPT !.scopes[s].upvals = Append(@, u),
                              !.funcs[cs.scopes[s].fn].nup = @ + 1],
            index |-> Len(ups)]

RECURSIVE ResolveUpval(_, _, _)
ResolveUpval(cs, s, name) ==
  IF s = 1 THEN [cs |-> cs, index |-> -1]
  ELSE LET local == ResolveLocal(cs.scopes[s - 1], name)
           outer == ResolveUpval(cs, s - 1, name)
       IN  IF local # -1
           THEN AddUpval([cs EXCEPT !.scopes[s - 1].locals[local + 1].captured = TRUE],
                         s, local, TRUE)
           ELSE IF outer.index # -1
                THEN AddUpval(outer.cs, s, outer.index, FALSE)
                ELSE outer

\* The end of NODE_GET and NODE_SET: op is "GET" or "SET".
Access(cs, op, name) ==
  LET local == ResolveLocal(Cur(cs), name)
      up    == ResolveUpval(cs, Len(cs.scopes), name)
  IN  IF local # -1 THEN EmitUleb(EmitOp(cs, op \o "_LOCAL"), local)
      ELSE IF up.index # -1 THEN EmitUleb(EmitOp(up.cs, op \o "_UPVAL"), up.index)
      ELSE AddConst(EmitOp(up.cs, op \o "_VAR"), StrVal(<<name>>))

(***************************************************************************)
(* Operators.                                                              *)
(***************************************************************************)
SameName == {"ADD", "SUB", "MUL", "DIV", "EXP", "MOD", "LSHIFT", "RSHIFT", "BOR", "BAND",
             "LT", "GT", "LE", "GE", "EQUIV", "COAL"}
Renamed  == [TIL |-> "XOR", BANG_EQ |-> "NOT_EQUIV", AMP_AMP |-> "AND", PIP_PIP |-> "OR",
             QUESTION |-> "OPTIONAL", ADD_SET |-> "I_ADD", SUB_SET |-> "I_SUB",
             MUL_SET |-> "I_MUL", DIV_SET |-> "I_DIV", MOD_SET |-> "I_MOD",
             EXP_SET |-> "I_EXP", LSHIFT_SET |-> "I_LSHIFT", RSHIFT_SET |-> "I_RSHIFT",
             BOR_SET |-> "I_BOR", BAND_SET |-> "I_BAND", TIL_SET |-> "I_XOR"]

\* get_bin_op; any other token adds.
BinOp(token) == IF token \in SameName THEN token
                ELSE IF token \in DOMAIN Renamed THEN Renamed[token]
                ELSE "ADD"
\* get_un_op; any other token negates.
UnOp(token) == CASE token = "TIL" -> "BNOT" [] token = "BANG" -> "NOT" [] OTHER -> "NEG"

(***************************************************************************)
(* Compiler::visit, one definition for each kind of node.                  *)
(***************************************************************************)
RECURSIVE Visit(_, _)

VisitAll(cs, nodes) == FoldLeft(Visit, cs, nodes)

\* A statement starts where the stack holds the counted locals.
Statement(cs, node) ==
  Visit([cs EXCEPT !.stmts = @ \cup {<<Cur(cs).fn, Here(cs), Cur(cs).numLocals>>}], node)

VisitExpr(cs, node)   == EmitOp(Visit(cs, node[2]), "POP")
VisitUnary(cs, node)  == EmitOp(Visit(cs, node[3]), UnOp(node[2]))
VisitBinary(cs, node) == EmitOp(VisitAll(cs, <<node[3], node[4]>>), BinOp(node[2]))

VisitCond(cs, node) ==
  LET c == PrepJump(Visit(cs, node[3]), BinOp(node[2]))
  IN  Land(Visit(c, node[4]), Spot(c))

VisitInterp(cs, node) ==
  LET Part(c, i) ==
        LET p == EmitBare(EmitBare(Visit(EmitConst(c, StrVal(node[2][i][1])), node[2][i][2]),
                                   "TO_STR"), "CONCAT")
        IN  IF i = 1 THEN p ELSE EmitBare(p, "CONCAT")
  IN  EmitBare(EmitConst(FoldLeft(Part, cs, [i \in DOMAIN node[2] |-> i]), StrVal(node[3])),
               "CONCAT")

\* a < b < c: each operand but the last is kept below its comparison.
Link(c, cmp) ==
  LET v == EmitBare(EmitBare(Visit(c.cs, cmp[2]), "DUP"), "ROT3")
      j == PrepJump(EmitBare(v, BinOp(cmp[1])), "AND")
  IN  [cs |-> j, jumps |-> Append(c.jumps, Spot(j))]
LastLink(cs, cmp) == EmitBare(Visit(cs, cmp[2]), BinOp(cmp[1]))
EndChain(exit, jumps) ==
  Land(EmitBare(EmitBare(LandAll(exit, jumps), "ROT2"), "POP"), Spot(exit))
VisitLinks(c, cmp) == EndChain(PrepJump(LastLink(c.cs, cmp), "JMP"), c.jumps)
VisitComp(cs, node) ==
  LET first == Visit(cs, node[2])
      list  == node[3]
  IN  IF Len(list) > 1
      THEN VisitLinks(FoldLeft(Link, [cs |-> first, jumps |-> <<>>], Front(list)), Last(list))
      ELSE LastLink(first, Last(list))

\* One case: a test for each check, then the result.
Check(c, check) ==
  LET j == PrepJump(EmitBare(Visit(EmitBare(c.cs, "DUP"), check), "EQUIV"), "OR")
  IN  [cs |-> j, jumps |-> Append(c.jumps, Spot(j))]
Checks(cs, checks) == FoldLeft(Check, [cs |-> cs, jumps |-> <<>>], checks)

\* A slip in EnterCase: the checked value or the answer is left on the stack.
EnterCaseOnePop(c) ==
  LET nomatch == PrepJump(c.cs, "JMP")
  IN  [cs |-> EmitBare(LandAll(nomatch, c.jumps), "POP"), nomatch |-> Spot(nomatch)]

EnterCase(c) ==
  LET nomatch == PrepJump(c.cs, "JMP")
  IN  [cs |-> EmitBare(EmitBare(LandAll(nomatch, c.jumps), "POP"), "POP"),
       nomatch |-> Spot(nomatch)]
LeaveCase(c, exits, last) ==
  LET exit == PrepJump(c.cs, "JMP")
  IN  IF last
      THEN [cs |-> Land(exit, c.nomatch), exits |-> Append(exits, Spot(exit))]
      ELSE [cs |-> Land(c.cs, c.nomatch), exits |-> exits]
VisitThen(c, then) == [c EXCEPT !.cs = Visit(@, then)]
VisitCase(acc, case, last) ==
  LeaveCase(VisitThen(EnterCase(Checks(acc.cs, case[1])), case[2]), acc.exits, last)

VisitCases(cs, cases, hasElse) ==
  LET Case(acc, i) == VisitCase(acc, cases[i], hasElse \/ i = Len(cases))
  IN  FoldLeft(Case, [cs |-> cs, exits |-> <<>>], [i \in DOMAIN cases |-> i])
VisitElse(cs, other) == IF other = None THEN cs ELSE Visit(cs, other)
EndMatch(c, other) == LandAll(VisitElse(EmitBare(c.cs, "POP"), other), c.exits)
VisitMatch(cs, node) ==
  EndMatch(VisitCases(Visit(cs, node[2]), node[3], node[4] # None), node[4])

\* The scan for a declaration of the same name stops at the first local of a
\* block further out.
Redeclared(scope, name) ==
  \E i \in DOMAIN scope.locals :
    /\ scope.locals[i].name = name
    /\ \A j \in 1 .. i : scope.locals[j].depth >= scope.depth

AlreadyDeclared == "Already declared in scope."

Declare(cs, dec) ==
  LET c     == Visit(cs, dec[2])
      heard == IF Redeclared(Cur(c), dec[1]) THEN [c EXCEPT !.puts = @ \cup {AlreadyDeclared}] ELSE c
  IN  IF Cur(c).depth = 0
      THEN AddConst(EmitOp(c, "DEF_VAR"), StrVal(<<dec[1]>>))
      ELSE AddLocal(heard, dec[1])

VisitDec(cs, node) == FoldLeft(Declare, cs, node[2])
VisitSet(cs, node) == Access(Visit(cs, node[4]), "SET", node[3])
VisitBlock(cs, node) == EndBlock(FoldLeft(Statement, BeginBlock(cs), node[2]))

\* end_scope
EndScope(cs) ==
  LET c == EmitOp(EmitOp(cs, "NULL"), "RET") IN [c EXCEPT !.scopes = Front(@)]

InvalidArgument == "Invalid argument type."

Argument(cs, arg) ==
  IF arg[1] = "Get" THEN AddLocal(cs, arg[2])
  ELSE [cs EXCEPT !.puts = @ \cup {InvalidArgument}]

VisitFunc(cs, node) ==
  LET body  == Visit(FoldLeft(Argument, BeginBlock(InitScope(cs)), node[2]), node[3])
      scope == Cur(body)
      made  == [EndScope(body) EXCEPT !.funcs[scope.fn].arity = Len(node[2])]
      Capture(c, up) == EmitUleb(Emit(c, <<IF up.isLocal THEN 1 ELSE 0>>), up.index)
  IN  FoldLeft(Capture, AddConst(EmitOp(made, "CLOSURE"), FuncVal(scope.fn)), scope.upvals)

VisitReturn(cs, node) == EmitBare(Visit(cs, node[2]), "RET")

VisitCall(cs, node) ==
  EmitUleb(EmitOp(VisitAll(Visit(cs, node[2]), node[3]), "CALL"), Len(node[3]))

\* ifFalse and ifTrue are the states behind the jumps of these names.
IfElse(ifFalse, ifTrue, other) ==
  Land(Visit(EmitOp(Land(ifTrue, Spot(ifFalse)), "POP"), other), Spot(ifTrue))
VisitIf2(ifFalse, then, other) ==
  IF other # None
  THEN IfElse(ifFalse, PrepJump(Visit(ifFalse, then), "JMP"), other)
  ELSE EmitOp(Land(Visit(ifFalse, then), Spot(ifFalse)), "POP")
VisitIf(cs, node) == VisitIf2(PrepJump(Visit(cs, node[2]), "AND"), node[3], node[4])

\* Without else, the test is before the loop; with else, once before it and
\* once behind the body.  initial, bigBreak and exitElse are the states behind
\* the jumps of these names.
Loop1(bigBreak, then, start) ==
  EmitOp(Land(GoTo(Visit(bigBreak, then), start), Spot(bigBreak)), "POP")
EndLoop(bigBreak, exitElse) ==
  Land(EmitOp(Land(exitElse, Spot(bigBreak)), "POP"), Spot(exitElse))
LoopElse(initial, bigBreak, other) ==
  EndLoop(bigBreak,
          PrepJump(Visit(EmitOp(Land(GoTo(bigBreak, Here(initial)), Spot(initial)), "POP"), other),
                   "JMP"))
Loop2(initial, node) ==
  LoopElse(initial, PrepJump(VisitAll(initial, <<node[3], node[2]>>), "AND"), node[4])
VisitWhile(cs, node) ==
  LET test == PrepJump(Visit(cs, node[2]), "AND")
  IN  IF node[4] = None THEN Loop1(test, node[3], Here(cs)) ELSE Loop2(test, node)

VisitNode(cs, node) ==
  CASE node[1] = "Expr"   -> VisitExpr(cs, node)
    [] node[1] = "Group"  -> Visit(cs, node[2])
    [] node[1] = "Unary"  -> VisitUnary(cs, node)
    [] node[1] = "Cond"   -> VisitCond(cs, node)
    [] node[1] = "Binary" -> VisitBinary(cs, node)
    [] node[1] = "Const"  -> EmitConst(cs, node[2])
    [] node[1] = "Interp" -> VisitInterp(cs, node)
    [] node[1] = "Comp"   -> VisitComp(cs, node)
    [] node[1] = "Match"  -> VisitMatch(cs, node)
    [] node[1] = "Dec"    -> VisitDec(cs, node)
    [] node[1] = "Get"    -> Access(cs, "GET", node[2])
    [] node[1] = "Set"    -> VisitSet(cs, node)
    [] node[1] = "Block"  -> VisitBlock(cs, node)
    [] node[1] = "Func"   -> VisitFunc(cs, node)
    [] node[1] = "Return" -> VisitReturn(cs, node)
    [] node[1] = "Call"   -> VisitCall(cs, node)
    [] node[1] = "If"     -> VisitIf(cs, node)
    [] node[1] = "While"  -> VisitWhile(cs, node)

\* The set makes TLC work the state out before it goes into the node: the depth
\* of its recursion is that of the tree, not the length of the program.
Visit(cs, node) == CHOOSE after \in {VisitNode(c, node) : c \in {cs}} : TRUE

\* Compiler::compile on the statements the parser hands it; function 1 is the
\* script.
Compile(stmts) == EndScope(FoldLeft(Statement, NewCompiler, stmts))
=============================================================================
