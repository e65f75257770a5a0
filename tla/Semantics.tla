----------------------------- MODULE Semantics -----------------------------
(***************************************************************************)
(* What a program means, said over the syntax trees of CodeGen with no     *)
(* stack, code or upvalue: variables are locations of a store, an          *)
(* environment maps the names in scope to locations, and a function keeps  *)
(* the environment it was made in.  The compiler and the virtual machine   *)
(* together are to print what Meaning prints.                              *)
(*                                                                         *)
(* Meaning is said for the programs the machine is meant to run: a value   *)
(* of the wrong type, a wrong number of arguments or an instruction the    *)
(* machine lacks make the state "wrong".                                   *)
(***************************************************************************)
EXTENDS Bytecode, SequencesExt, TLC

LOCAL INSTANCE Bitwise

NoNode == <<"None">>

\* A state: the store, the globals, the functions made so far, the output.
Start == [store |-> <<CloVal(1)>>, globals |-> [n \in {"print"} |-> NativeVal],
          funs |-> <<[params |-> <<>>, body |-> NoNode, env |-> [n \in {} |-> 0]]>>,
          out |-> <<>>, status |-> "done"]

Fail(st, status) == [st EXCEPT !.status = status]
Result(v, st)    == [v |-> v, st |-> st]

Extend(f, x, y)  == [n \in DOMAIN f \cup {x} |-> IF n = x THEN y ELSE f[n]]

\* A new variable in env.
Bind(env, st, name, v) ==
  [env |-> Extend(env, name, Len(st.store) + 1), st |-> [st EXCEPT !.store = Append(@, v)]]

Read(env, st, name) ==
  IF name \in DOMAIN env THEN Result(st.store[env[name]], st)
  ELSE IF name \in DOMAIN st.globals THEN Result(st.globals[name], st)
  ELSE Result(NullVal, Fail(st, "exited"))

Write(env, st, name, v) ==
  IF name \in DOMAIN env THEN Result(v, [st EXCEPT !.store[env[name]] = v])
  ELSE IF name \in DOMAIN st.globals THEN Result(v, [st EXCEPT !.globals[name] = v])
  ELSE Result(NullVal, Fail(st, "exited"))

Printed(v) ==
  CASE IsInt(v)    -> <<ToString(v[2])>>
    [] IsBool(v)   -> <<IF v[2] THEN "true" ELSE "false">>
    [] v = NullVal -> <<"null">>
    [] IsStr(v)    -> v[2]
    [] IsClo(v)    -> <<"<function>">>
    [] OTHER       -> <<"<native>">>

\* Division rounds toward zero.
Divide(a, b) ==
  CHOOSE q \in -1000 .. 1000 :
    LET r == a - b * q IN /\ r * r < b * b
                          /\ r = 0 \/ (r < 0) = (a < 0)

\* Binary operators and comparisons on two values.
Operate(op, a, b, st) ==
  IF op = "EQUIV" THEN Result(BoolVal(a = b), st)
  ELSE IF op = "ADD" /\ IsStr(a) /\ IsStr(b) THEN Result(StrVal(a[2] \o b[2]), st)
  ELSE IF ~(IsInt(a) /\ IsInt(b)) THEN Result(NullVal, Fail(st, "wrong"))
  ELSE IF op \in {"DIV", "MOD"} /\ b[2] = 0 THEN Result(NullVal, Fail(st, "crashed"))
  ELSE LET x == a[2]
           y == b[2]
       IN  CASE op = "ADD" -> Result(IntVal(x + y), st)
             [] op = "SUB" -> Result(IntVal(x - y), st)
             [] op = "MUL" -> Result(IntVal(x * y), st)
             [] op = "DIV" -> Result(IntVal(Divide(x, y)), st)
             [] op = "MOD" -> Result(IntVal(x - y * Divide(x, y)), st)
             [] op = "BAND" -> Result(IntVal(x & y), st)
             [] op = "BOR" -> Result(IntVal(x | y), st)
             [] op = "TIL" -> Result(IntVal(x ^^ y), st)
             [] op = "LT"  -> Result(BoolVal(x < y), st)
             [] op = "GT"  -> Result(BoolVal(x > y), st)
             [] op = "LE"  -> Result(BoolVal(x <= y), st)
             [] op = "GE"  -> Result(BoolVal(x >= y), st)
             [] OTHER      -> Result(NullVal, Fail(st, "wrong"))

(***************************************************************************)
(* Expressions: Value(node, env, st) is a value and the state after it.    *)
(***************************************************************************)
RECURSIVE Value(_, _, _), Values2(_, _, _), Chain(_, _, _, _, _), Cases(_, _, _, _, _),
          Apply(_, _, _), Parts(_, _, _), Do(_, _, _, _), Loop(_, _, _)

Ok(st) == st.status = "done"
\* Continue with r unless it failed.
Then(r, Cont(_, _)) == IF Ok(r.st) THEN Cont(r.v, r.st) ELSE Result(NullVal, r.st)

\* The values of several nodes, left to right.
Values2(nodes, env, st) ==
  IF nodes = <<>> THEN Result(<<>>, st)
  ELSE Then(Value(Head(nodes), env, st),
            LAMBDA v, s1 : Then(Values2(Tail(nodes), env, s1),
                                LAMBDA vs, s2 : Result(<<v>> \o vs, s2)))

\* a op b op c: true when every link holds; a link that fails ends it.
Chain(left, list, env, st, holds) ==
  IF list = <<>> \/ holds = BoolVal(FALSE) THEN Result(holds, st)
  ELSE Then(Value(Head(list)[2], env, st),
            LAMBDA right, s1 :
              Then(Operate(Head(list)[1], left, right, s1),
                   LAMBDA h, s2 : Chain(right, Tail(list), env, s2, h)))

\* The first case one of whose checks equals the value.
Cases(v, cases, other, env, st) ==
  IF cases = <<>> THEN Value(other, env, st)
  ELSE IF Head(cases)[1] = <<>> THEN Cases(v, Tail(cases), other, env, st)
  ELSE Then(Value(Head(Head(cases)[1]), env, st),
            LAMBDA check, s1 :
              IF check = v THEN Value(Head(cases)[2], env, s1)
              ELSE Cases(v, <<<<Tail(Head(cases)[1]), Head(cases)[2]>>>> \o Tail(cases),
                         other, env, s1))

Parts(list, env, st) ==
  IF list = <<>> THEN Result(<<>>, st)
  ELSE Then(Value(Head(list)[2], env, st),
            LAMBDA v, s1 : Then(Parts(Tail(list), env, s1),
                                LAMBDA text, s2 : Result(Head(list)[1] \o Printed(v) \o text, s2)))

\* A call: print, or a function with its parameters and itself in scope.
Apply(f, args, st) ==
  IF f = NativeVal
  THEN Result(NullVal, [st EXCEPT !.out = @ \o [i \in DOMAIN args |-> Printed(args[i])]])
  ELSE IF ~IsClo(f) \/ Len(st.funs[f[2]].params) # Len(args)
  THEN Result(NullVal, Fail(st, "wrong"))
  ELSE LET fun   == st.funs[f[2]]
           self  == Bind(fun.env, st, "call", f)
           bound == FoldLeft(LAMBDA b, i : Bind(b.env, b.st, fun.params[i], args[i]),
                             self, [i \in DOMAIN args |-> i])
       IN  IF fun.body[1] = "Return" THEN Value(fun.body[2], bound.env, bound.st)
           ELSE Result(NullVal, Do(fun.body, bound.env, bound.st, FALSE).st)

Value(node, env, st) ==
  CASE node[1] = "Const"  -> Result(node[2], st)
    [] node[1] = "Group"  -> Value(node[2], env, st)
    [] node[1] = "Get"    -> Read(env, st, node[2])
    [] node[1] = "Set"    -> Then(Value(node[4], env, st),
                                  LAMBDA v, s : Write(env, s, node[3], v))
    [] node[1] = "Unary"  -> Then(Value(node[3], env, st),
                                  LAMBDA v, s : Operate("SUB", IntVal(0), v, s))
    [] node[1] = "Binary" -> Then(Values2(<<node[3], node[4]>>, env, st),
                                  LAMBDA vs, s : Operate(node[2], vs[1], vs[2], s))
    [] node[1] = "Cond"   -> Then(Value(node[3], env, st),
                                  LAMBDA v, s : IF IsTrue(v) = (node[2] = "PIP_PIP")
                                                THEN Result(v, s) ELSE Value(node[4], env, s))
    [] node[1] = "Comp"   -> Then(Value(node[2], env, st),
                                  LAMBDA v, s : Chain(v, node[3], env, s, BoolVal(TRUE)))
    [] node[1] = "Match"  -> Then(Value(node[2], env, st),
                                  LAMBDA v, s : Cases(v, node[3], node[4], env, s))
    [] node[1] = "Interp" -> Then(Parts(node[2], env, st),
                                  LAMBDA text, s : Result(StrVal(text \o node[3]), s))
    [] node[1] = "If"     -> Then(Value(node[2], env, st),
                                  LAMBDA v, s : Value(IF IsTrue(v) THEN node[3] ELSE node[4], env, s))
    [] node[1] = "Func"   ->
         Result(CloVal(Len(st.funs) + 1),
                [st EXCEPT !.funs = Append(@, [params |-> [i \in DOMAIN node[2] |-> node[2][i][2]],
                                               body |-> node[3], env |-> env])])
    [] node[1] = "Call"   -> Then(Values2(<<node[2]>> \o node[3], env, st),
                                  LAMBDA vs, s : Apply(Head(vs), Tail(vs), s))

(***************************************************************************)
(* Statements: Do(node, env, st, global) is the environment and the state  *)
(* after it; the declarations of the script itself are global.             *)
(***************************************************************************)
Loop(node, env, st) ==
  LET test == Value(node[2], env, st)
  IN  IF ~(Ok(test.st) /\ IsTrue(test.v)) THEN test.st
      ELSE Loop(node, env, Do(node[3], env, test.st, FALSE).st)

DoAll(nodes, env, st, global) ==
  FoldLeft(LAMBDA e, node : Do(node, e.env, e.st, global), [env |-> env, st |-> st], nodes)

Do(node, env, st, global) ==
  IF ~Ok(st) THEN [env |-> env, st |-> st]
  ELSE CASE node[1] = "Expr"  -> [env |-> env, st |-> Value(node[2], env, st).st]
         [] node[1] = "Block" -> [env |-> env, st |-> DoAll(node[2], env, st, FALSE).st]
         [] node[1] = "Dec"   ->
              FoldLeft(LAMBDA e, dec :
                         LET r == Value(dec[2], e.env, e.st)
                         IN  IF ~Ok(e.st) THEN e
                             ELSE IF ~Ok(r.st) THEN [e EXCEPT !.st = r.st]
                             ELSE IF global
                             THEN [e EXCEPT !.st = [r.st EXCEPT !.globals = Extend(@, dec[1], r.v)]]
                             ELSE Bind(e.env, r.st, dec[1], r.v),
                       [env |-> env, st |-> st], node[2])
         [] node[1] = "If"    ->
              LET test == Value(node[2], env, st)
              IN  IF ~Ok(test.st) THEN [env |-> env, st |-> test.st]
                  ELSE IF IsTrue(test.v) THEN Do(node[3], env, test.st, FALSE)
                  ELSE IF node[4] = NoNode THEN [env |-> env, st |-> test.st]
                  ELSE Do(node[4], env, test.st, FALSE)
         [] node[1] = "While" ->
              LET test == Value(node[2], env, st)
              IN  [env |-> env,
                   st |-> IF ~Ok(test.st) THEN test.st
                          ELSE IF IsTrue(test.v) THEN Loop(node, env, Do(node[3], env, test.st, FALSE).st)
                          ELSE IF node[4] = NoNode THEN test.st
                          ELSE Do(node[4], env, test.st, FALSE).st]

Meaning(stmts) == DoAll(stmts, [n \in {"call"} |-> 1], Start, TRUE).st
=============================================================================
