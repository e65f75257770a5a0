------------------------------ MODULE Programs ------------------------------
(***************************************************************************)
(* The programs of the checks, as trees: families that vary what a program *)
(* does in every way that matters to the part of the machine they are      *)
(* about.  All of them keep to the part of the language that means what it *)
(* says, see README.  There is no literal for null; print() is null and    *)
(* prints nothing.                                                         *)
(***************************************************************************)
EXTENDS Trees, Families

I(n)          == <<"Const", IntVal(n)>>
S(s)          == <<"Const", StrVal(<<s>>)>>
B(b)          == <<"Const", BoolVal(b)>>
V(x)          == <<"Get", x>>
To(x, e)      == <<"Set", "SET", x, e>>
Bin(op, l, r) == <<"Binary", op, l, r>>
Inc(x)        == To(x, Bin("ADD", V(x), I(1)))
Neg1(e)       == <<"Unary", "SUB", e>>
Cond(op, l, r) == <<"Cond", op, l, r>>
Fn(ps, e)     == <<"Func", [i \in DOMAIN ps |-> V(ps[i])], <<"Return", e>>>>
Proc(ps, ss)  == <<"Func", [i \in DOMAIN ps |-> V(ps[i])], <<"Block", ss>>>>
Run(f)        == <<"Call", V(f), <<>>>>
Null          == Run("print")
Run1(f, e)    == <<"Call", f, <<e>>>>
Just(e)       == <<"Expr", e>>
Let(x, e)     == <<"Dec", <<<<x, e>>>>>>
Blk(ss)       == <<"Block", ss>>
Show(e)       == Just(Run1(V("print"), e))
If(c, a, b)   == <<"If", c, a, b>>
While(c, a, b) == <<"While", c, a, b>>
Less(l, r)    == <<"Comp", l, <<<<"LT", r>>>>>>

\* Two closures over one variable of a block, used in any order; z puts the
\* variable away from slot 1.
Bodies == <<Fn(<<>>, V("a")), Fn(<<>>, Inc("a")), Proc(<<>>, <<Just(To("a", I(7)))>>),
            Fn(<<>>, <<"Call", Fn(<<>>, Inc("a")), <<>>>>)>>
Uses   == <<Just(Run("f")), Show(Run("g")), Just(To("a", I(5)))>>
Shared ==
  Both(Pairs(Bodies), Pairs(Uses), LAMBDA fg, use :
    <<Blk(<<Let("z", I(0)), Let("a", I(1)), Let("f", fg[1]), Let("g", fg[2]),
            use[1], use[2], Show(V("a"))>>)>>)

\* Functions that outlive the call that made them: each has a variable of its
\* own, which nobody else writes.  made is global or a local.
Makers == <<Fn(<<"x">>, Fn(<<>>, Inc("x"))),
            Fn(<<"x">>, Fn(<<>>, <<"Call", Fn(<<>>, Inc("x")), <<>>>>)),
            Fn(<<"x">>, <<"Call", Fn(<<"y">>, Fn(<<>>, To("y", Bin("ADD", Inc("x"), V("y"))))), <<I(20)>>>>)>>
Factory(maker, uses) ==
  <<Let("make", maker), Let("f", Run1(V("make"), I(1))), Let("g", Run1(V("make"), I(10)))>>
    \o uses
Factories ==
  Both(Makers, Both(Pairs(<<"f", "g">>), <<"f", "g">>, LAMBDA p, h : p \o <<h>>),
       LAMBDA maker, fs : Factory(maker, Each(fs, LAMBDA f : Show(Run(f)))))
  \o Each(Makers, LAMBDA maker :
       <<Blk(Factory(maker, <<Show(Run("g")), Show(Run("f")), Show(Run("f"))>>))>>)

\* A variable of a loop's body is a new one each time round.  The loop runs n
\* times, with or without an else, in a block or not.
Body(k)  == Blk(<<Let("k", k), Let("l", V("i")),
                  Just(To("f", If(Less(V("i"), I(2)), Fn(<<>>, Inc("k")), V("f")))),
                  Just(Inc("i")), Just(Inc("k")), Show(Run("f"))>>)
Loops ==
  Both(<<0, 1, 3>>, <<None, Blk(<<Show(S("none"))>>), Just(Inc("i"))>>, LAMBDA n, other :
    <<Let("i", I(0)), Let("f", Fn(<<>>, V("i"))),
      While(Less(V("i"), I(n)), Body(Bin("MUL", V("i"), I(10))), other),
      Show(Run("f")), Show(V("i"))>>)
  \o Both(<<0, 2>>, <<None, Blk(<<Show(S("none"))>>)>>, LAMBDA n, other :
    <<Blk(<<Let("i", I(0)), Let("f", Fn(<<>>, V("i"))),
            While(Less(V("i"), I(n)), Body(V("i")), other),
            Show(Run("f")), Show(V("i"))>>)>>)

\* A branch with variables of its own, which a function takes along.
Branches ==
  Both(<<B(TRUE), B(FALSE), Null, I(0)>>, <<Fn(<<>>, Inc("b")), Fn(<<>>, Inc("a"))>>, LAMBDA c, f :
    <<Let("f", Null),
      Blk(<<Let("a", I(1)),
            If(c, Blk(<<Let("b", Inc("a")), Let("d", V("b")), Just(To("f", f)), Just(Inc("d"))>>),
                  Blk(<<Just(To("f", f)), Let("e", I(3)), Just(Inc("a"))>>)),
            Show(V("a"))>>),
      Show(If(c, Run("f"), I(4)))>>)

\* Expressions whose operands change a variable the others read.
Leaves  == <<I(0), I(2), V("a"), Inc("a")>>
Calcs   == Both(<<"ADD", "SUB", "MUL", "DIV", "MOD", "BAND", "BOR", "TIL">>, Pairs(Leaves),
                LAMBDA op, p : Bin(op, p[1], p[2]))
Chains  == Both(Pairs(<<"LT", "EQUIV">>), Both(Pairs(Leaves), Leaves, LAMBDA p, e : p \o <<e>>),
                LAMBDA op, e : <<"Comp", e[1], <<<<op[1], e[2]>>, <<op[2], e[3]>>>>>>)
Tests   == Both(<<"LE", "GT", "GE", "EQUIV">>, Pairs(Leaves), LAMBDA op, p : <<"Comp", p[1], <<<<op, p[2]>>>>>>)
Conds   == Both(<<"AMP_AMP", "PIP_PIP">>, Pairs(<<B(FALSE), Null, Inc("a")>>), LAMBDA op, p :
             Cond(op, p[1], Cond(op, p[2], Inc("a"))))
Matches == Both(Pairs(Leaves), Leaves, LAMBDA p, e :
             <<"Match", p[1], <<<<<<p[2], I(1)>>, S("one")>>, <<<<e>>, Neg1(V("a"))>>>>, Inc("a")>>)
Texts   == Both(Leaves, <<V("a"), Inc("a"), S("t"), B(TRUE), Null>>, LAMBDA x, y :
             <<"Interp", <<<<<<"x">>, x>>, <<<<"y">>, y>>>>, <<"z">>>>)
Nested  == Each(Leaves, LAMBDA x : Bin("ADD", <<"Group", If(Less(x, I(2)), Inc("a"), I(5))>>,
                                       <<"Match", x, <<<<<<I(2)>>, Inc("a")>>>>, V("a")>>))
Expressions ==
  Each(Calcs \o Chains \o Tests \o Conds \o Matches \o Texts \o Nested, LAMBDA e :
    <<Let("a", I(1)), Show(<<"Call", Fn(<<"p", "q">>, V("q")), <<I(9), e>>>>), Show(V("a"))>>)

\* The same expressions, over a local and an upvalue.
Scoped ==
  Each(Conds \o Nested \o Texts, LAMBDA e :
    <<Blk(<<Let("a", I(1)), Let("f", Fn(<<"p">>, e)), Show(e), Show(Run1(V("f"), I(9))), Show(V("a"))>>)>>)

\* A function uses locals of the function around it, upvalues of that function
\* and its own parameter, in every order.
Sum3(x, y, z) == Bin("ADD", Bin("ADD", Bin("MUL", V(x), I(100)), Bin("MUL", V(y), I(10))), V(z))
Mixed ==
  Both(Pairs(<<"a", "b", "p", "q">>), <<"a", "b", "p", "q", "r">>, LAMBDA xy, z :
    <<Blk(<<Let("a", I(1)), Let("b", I(2)),
            Let("f", Fn(<<"p", "q">>, Fn(<<"r">>, Sum3(xy[1], xy[2], z)))),
            Just(Inc("b")),
            Show(Run1(<<"Call", V("f"), <<I(4), I(5)>>>>, I(6)))>>)>>)

\* A function calls itself by the name it was given, which is global.
Fib ==
  Fn(<<"n">>, If(Less(V("n"), I(2)), V("n"),
                 Bin("ADD", Run1(V("fib"), Bin("SUB", V("n"), I(1))),
                            Run1(V("fib"), Bin("SUB", V("n"), I(2))))))
Down ==
  Proc(<<"n">>,
    <<Let("m", Bin("SUB", V("n"), I(1))), Just(Inc("c")),
      If(Less(I(0), V("m")), Blk(<<Just(Run1(V("down"), V("m")))>>), Blk(<<Just(Inc("c"))>>)),
      Show(V("m"))>>)
Recursive ==
  Each(<<0, 1, 4>>, LAMBDA n : <<Let("fib", Fib), Show(Run1(V("fib"), I(n)))>>)
  \o Each(<<1, 3>>, LAMBDA n : <<Let("c", I(0)), Let("down", Down),
                                 Just(Run1(V("down"), I(n))), Show(V("c"))>>)

\* The program stops in the middle of things.
Faults == <<V("x"), To("x", I(1)), Bin("DIV", I(1), I(0)), Bin("MOD", V("a"), I(0))>>
Stops ==
  Each(Faults, LAMBDA e : <<Let("a", I(1)), Show(V("a")), Show(Bin("ADD", Inc("a"), e)), Show(V("a"))>>)
  \o Each(Faults, LAMBDA e :
       <<Let("f", Fn(<<"a">>, Fn(<<>>, Bin("ADD", Inc("a"), e)))), Show(I(3)),
         Show(<<"Call", Run1(V("f"), I(4)), <<>>>>), Show(I(5))>>)

\* vector.eng: objects as functions.
Field(v, f)  == Run1(Run1(v, S("get")), S(f))
Case1(s, e)  == <<<<S(s)>>, e>>
New(x, y)    == <<"Call", Run1(V("Vector"), S("new")), <<x, y>>>>
Print2(label, v) ==
  Show(<<"Interp", <<<<<<label>>, Field(V(v), "x")>>, <<<<", ">>, Field(V(v), "y")>>>>, <<"}">>>>)
Fields ==
  Fn(<<"prop">>, <<"Match", V("prop"),
    <<Case1("get", Fn(<<"field">>, <<"Match", V("field"),
        <<Case1("x", V("x")), Case1("y", V("y"))>>, I(0)>>))>>, I(0)>>)
Sum2 == New(Bin("ADD", Field(V("a"), "x"), Field(V("b"), "x")),
            Bin("ADD", Field(V("a"), "y"), Field(V("b"), "y")))
Vector(fields, sum) ==
  Fn(<<"stat">>, <<"Match", V("stat"),
    <<Case1("new", Fn(<<"x", "y">>, fields)), Case1("add", Fn(<<"a", "b">>, sum))>>, I(0)>>)
VectorEng ==
  <<Let("Vector", Vector(Fields, Sum2)),
    <<"Dec", <<<<"pos", New(I(24), I(57))>>, <<"vel", New(I(85), I(36))>>>>>>,
    Print2("pos = {", "pos"), Print2("vel = {", "vel"),
    Let("add", <<"Call", Run1(V("Vector"), S("add")), <<V("pos"), V("vel")>>>>),
    Print2("pos + vel = {", "add")>>

\* The same in parts, none of them deep.
VectorParts ==
  <<<<Let("Vector", Vector(V("fields"), V("sum")))>>, <<Just(Fields)>>, <<Just(Sum2)>>, Tail(VectorEng)>>
=============================================================================
