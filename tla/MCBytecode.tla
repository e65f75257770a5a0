----------------------------- MODULE MCBytecode -----------------------------
(***************************************************************************)
(* The machine on bytecode no compiler made: every script of Length of the *)
(* Chunks behind a capture, with two functions that use and pass on what   *)
(* they are given.                                                         *)
(***************************************************************************)
EXTENDS VM

CONSTANTS Length

Op(name) == <<OpByte[name]>>

\* Constants 0 and 1 are functions with one upvalue and with two, 2 an INT and
\* 3 a name.
Consts   == <<FuncVal(2), FuncVal(3), IntVal(1), StrVal(<<"g">>)>>
Capture1 == Op("CLOSURE") \o <<0, 1, 1>>
Capture2 == Op("CLOSURE") \o <<1, 1, 2, 1, 0>>

Chunks == <<
  Op("NULL"), Op("CONST") \o <<2>>, Op("GET_LOCAL") \o <<1>>, Op("SET_LOCAL") \o <<1>>,
  Op("CALL") \o <<0>>, Op("CALL") \o <<1>>, Op("CLOSE"), Op("POP"), Op("ROT2"),
  Op("EQUIV"), Op("RET"), Capture1, Capture2,
  Op("DUP") \o Op("ROT3"), Op("GOTO") \o <<0, 0, 0, 2>>,
  Op("DEF_VAR") \o <<3>> \o Op("GET_VAR") \o <<3>> \o Op("LSHIFT"),
  Op("OR") \o <<0, 0, 0, 2>>, Op("ADD") \o Op("ROT4"), Op("SET_VAR") \o <<3>>, <<200>> >>

Script(i) == Op("NULL") \o Capture1
  \o FlattenSeq([k \in 1 .. Length |-> Chunks[((i \div Len(Chunks)^(k - 1)) % Len(Chunks)) + 1]])

\* A function that sets its upvalue and passes it on, and one that calls itself.
Second == Op("GET_LOCAL") \o <<0>> \o Op("SET_UPVAL") \o <<0>> \o Op("CLOSURE") \o <<1, 0, 0, 1, 0>> \o Op("RET")
Third  == Op("GET_UPVAL") \o <<0>> \o Op("SET_UPVAL") \o <<1>> \o Op("GET_LOCAL") \o <<0>>
            \o Op("CALL") \o <<0>> \o Op("RET")

Function(code, nup) == [code |-> code, consts |-> Consts, nup |-> nup, arity |-> 0]
Made ==
  LET n == Len(Chunks)^Length
      Program(i) == <<Function(Script(i), 0), Function(Second, 1), Function(Third, 2)>>
  IN  SubSeq([i \in 1 .. n |-> Program(i)], 1, n)

\* TLC works out a definition once, but not the one a .cfg names.
MCPrograms == Made
=============================================================================
