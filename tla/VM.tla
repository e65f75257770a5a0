--------------------------------- MODULE VM ---------------------------------
(***************************************************************************)
(* The virtual machine of src/src/vm.cpp: a value stack, call frames that  *)
(* are windows of it, closures whose upvalues point into it while the      *)
(* variable is alive and hold the value afterwards, and a table of         *)
(* globals.  One action is one instruction of run(); the captures of       *)
(* CLOSURE are one step each.                                              *)
(*                                                                         *)
(* The machine runs one of Programs, chosen at the start.  Where C++ gives *)
(* an instruction no meaning (the stack, the frames or the code overrun, a *)
(* value of the wrong type) the machine enters "undefined" and nothing     *)
(* more is said about it.  Where the language leaves the result to the     *)
(* compiler (EQUIV) the build is a choice made at the start: "leftFirst"   *)
(* is the clang that built engel.out, "rightFirst" makefile's g++, and     *)
(* "slotLast" a g++ that keeps to the order C++17 gives an assignment.     *)
(***************************************************************************)
EXTENDS Bytecode, SequencesExt, TLC

CONSTANTS
  Programs,    \* each program: a sequence of functions, the script first
  StackSize,   \* values the stack holds (256 in VM::VM)
  MaxFrames,   \* MAX_FRAMES
  Builds       \* orders in which the compiler evaluates EQUIV

\* A function as the compiler leaves it; Chunk and Function in value.hpp.
FuncType ==
  [code   : Seq(0 .. 255),
   consts : Seq({v \in Values : ~IsClo(v) /\ v # Junk}),
   nup : Nat, arity : Nat]

ASSUME ProgramsAssumption ==
  /\ Programs \in Seq(Seq(FuncType))
  /\ \A p \in 1 .. Len(Programs) : Len(Programs[p]) > 0
ASSUME SizesAssumption == StackSize \in Nat /\ StackSize >= 2 /\ MaxFrames \in Nat \ {0}
ASSUME BuildsAssumption == Builds \subseteq {"leftFirst", "rightFirst", "slotLast"}

VARIABLES
  src,        \* which of the programs runs
  funcs,      \* its Function objects
  build,      \* the order its compiler chose for EQUIV
  stack,      \* VM.stack
  top,        \* VM.top
  frames,     \* VM.frames, the first num_frames of them
  ip,         \* run()'s ip, an offset into the current function's code
  closures,   \* the Closure objects: the function and the upvalues
  upvals,     \* the Upvalue objects
  open,       \* VM.open_upvalues, as a sequence of upvalues
  pend,       \* captures CLOSURE still has to do for the newest closure
  globals,    \* VM.globals
  out,        \* what print has printed
  status      \* "running", or why run() or the process ended

heap == <<closures, upvals, open, pend>>
vars == <<src, funcs, build, stack, top, frames, ip, heap, globals, out, status>>

OnStack == 0 .. StackSize - 1
Closed  == -1                   \* Upvalue.loc points at the upvalue itself

(***************************************************************************)
(* The current frame and its instruction: the operation, its operand as    *)
(* ULEB reads it and the offset behind that, and as UINT reads it.         *)
(***************************************************************************)
Frame   == Last(frames)
Closure == closures[Frame.clo]
Func    == funcs[Closure.func]
Fetch   == OpAt(Func.code, ip)
Absent  == -1                   \* the code ends before the operand does

ArgAt(code, p) ==
  IF UlebEnds(code, p) = {} THEN [arg |-> Absent, end |-> p]
  ELSE [arg |-> UlebAt(code, p), end |-> UlebEnd(code, p)]

Decode(code, p) ==
  LET a == ArgAt(code, p + 1)
  IN  [op |-> OpAt(code, p), arg |-> a.arg, end |-> a.end,
       uint |-> IF p + 5 <= Len(code) THEN UintAt(code, p + 1) ELSE Absent]

Peek(level) == stack[top - 1 - level]
Operands(n) == top >= n
Ints(n)     == Operands(n) /\ \A i \in 0 .. n - 1 : IsInt(Peek(i))
Strs(n)     == Operands(n) /\ \A i \in 0 .. n - 1 : IsStr(Peek(i))
Known(n)    == Operands(n) /\ \A i \in 0 .. n - 1 : Peek(i) # Junk
Room        == top < StackSize

Const(i)    == Func.consts[i.arg + 1]
HasConst(i) == i.arg \in 0 .. Len(Func.consts) - 1
HasName(i)  == HasConst(i) /\ IsStr(Const(i))
HasFunc(i)  == HasConst(i) /\ IsFunc(Const(i)) /\ Const(i)[2] \in DOMAIN funcs
HasLocal(i) == i.arg # Absent /\ Frame.slots + i.arg \in OnStack
HasUpval(i) == i.arg \in 0 .. Len(Closure.ups) - 1

Arithmetic == {"ADD", "SUB", "MUL", "DIV", "EXP"}
Integral   == {"MOD", "XOR", "BOR", "BAND"}
Comparing  == {"LT", "GT", "LE", "GE"}
Jumps      == {"GOTO", "JMP", "OR", "AND"}
Rotations  == [ROT2 |-> 2, ROT3 |-> 3, ROT4 |-> 4]
Handled    == Arithmetic \cup Integral \cup Comparing \cup Jumps \cup DOMAIN Rotations \cup
              {"CALL", "POP", "CONST", "NULL", "CONCAT", "TO_STR", "NEG", "DEF_VAR",
               "SET_VAR", "GET_VAR", "GET_LOCAL", "SET_LOCAL", "GET_UPVAL",
               "SET_UPVAL", "EQUIV", "DUP", "CLOSURE", "CLOSE", "RET"}

\* Both operands are strings: ADD concatenates.
Concatenates(i) == i.op = "CONCAT" \/ (i.op = "ADD" /\ Strs(2))

\* C++ gives the instruction a meaning in this state.
Meaningful(i) ==
  /\ i.op # "end"
  /\ i.op = "CONCAT"                 => Strs(2)
  /\ i.op \in Arithmetic             => Ints(2) \/ Concatenates(i)
  /\ i.op \in Integral \cup Comparing => Ints(2)
  /\ i.op = "NEG"                    => Ints(1)
  /\ i.op \in {"TO_STR", "OR", "AND"} => Known(1)
  /\ i.op = "EQUIV"                  => Known(2)
  /\ i.op \in {"POP", "CLOSE"}       => Operands(1)
  /\ i.op = "NULL"                   => Room
  /\ i.op = "DUP"                    => Operands(1) /\ Room
  /\ i.op \in DOMAIN Rotations       => Operands(Rotations[i.op])
  /\ i.op = "CONST"                  => HasConst(i) /\ Room
  /\ i.op = "GET_VAR"                => HasName(i) /\ Room
  /\ i.op \in {"DEF_VAR", "SET_VAR"} => HasName(i) /\ Operands(1)
  /\ i.op = "GET_LOCAL"              => HasLocal(i) /\ Room
  /\ i.op = "SET_LOCAL"              => HasLocal(i) /\ Operands(1)
  /\ i.op = "GET_UPVAL"              => HasUpval(i) /\ Room
  /\ i.op = "SET_UPVAL"              => HasUpval(i) /\ Operands(1)
  /\ i.op = "CLOSURE"                => HasFunc(i) /\ Room
  /\ i.op \in Jumps                  => i.uint # Absent
  /\ i.op = "RET"                    => Operands(IF Len(frames) = 1 THEN 2 ELSE 1)
  /\ i.op = "CALL"                   =>
       /\ i.arg \in 0 .. top - 1 /\ Peek(i.arg) # Junk
       /\ IsClo(Peek(i.arg)) => Len(frames) < MaxFrames
       /\ Peek(i.arg) = NativeVal => Known(i.arg)

\* The instruction run() is about to execute, if it is one of ops.
At(ops) ==
  IF status = "running" /\ pend = 0 /\ Fetch \in ops
  THEN {i \in {Decode(Func.code, ip)} : Meaningful(i)}
  ELSE {}

(***************************************************************************)
(* The stack.                                                              *)
(***************************************************************************)
\* Pop n operands and push v: the cells above the new top keep their values.
Replace(n, v) ==
  /\ stack' = [stack EXCEPT ![top - n] = v]
  /\ top' = top - n + 1

Drop(n) == top' = top - n /\ UNCHANGED stack

\* An instruction of one byte, or of one byte and its operand, that only
\* works on the stack.
Plain   == UNCHANGED <<src, funcs, build, frames, heap, globals, out, status>>
Plain1  == ip' = ip + 1 /\ Plain

NullOp   == \E i \in At({"NULL"})  : Replace(0, NullVal) /\ Plain1
Dup      == \E i \in At({"DUP"})   : Replace(0, Peek(0)) /\ Plain1
Pop      == \E i \in At({"POP"})   : Drop(1) /\ Plain1
ConstOp  == \E i \in At({"CONST"}) : Replace(0, Const(i)) /\ ip' = i.end /\ Plain
GetLocal == \E i \in At({"GET_LOCAL"}) :
              Replace(0, stack[Frame.slots + i.arg]) /\ ip' = i.end /\ Plain

SetLocal ==
  \E i \in At({"SET_LOCAL"}) :
    /\ stack' = [stack EXCEPT ![Frame.slots + i.arg] = Peek(0)]
    /\ ip' = i.end /\ Plain /\ UNCHANGED top

\* ROT2, ROT3 and ROT4: the top moves below the next n - 1 values.
Rotate ==
  \E i \in At(DOMAIN Rotations) :
    LET low == top - Rotations[i.op]
    IN  /\ stack' = [x \in OnStack |->
                       IF x = low THEN Peek(0)
                       ELSE IF x \in low + 1 .. top - 1 THEN stack[x - 1]
                       ELSE stack[x]]
        /\ Plain1 /\ UNCHANGED top

(***************************************************************************)
(* Arithmetic on INTs.  The operands of programs stay far below 2^63; the  *)
(* bit operations are exact on six bits and a sign.                        *)
(***************************************************************************)
\* C's division truncates toward zero.
Magnitude(a) == IF a < 0 THEN -a ELSE a
Quotient(a, b) ==
  LET q == Magnitude(a) \div Magnitude(b) IN IF (a < 0) = (b < 0) THEN q ELSE -q

Bit(a, i) == (a \div 2^i) % 2
FromBits(set) ==
  LET w(i, weight) == IF i \in set THEN weight ELSE 0
  IN  w(0, 1) + w(1, 2) + w(2, 4) + w(3, 8) + w(4, 16) + w(5, 32) - w(6, 64)

\* BINARY and BINARY_INT on two INTs; EXP subtracts.
Calc(op, a, b) ==
  CASE op = "ADD"  -> a + b
    [] op \in {"SUB", "EXP"} -> a - b
    [] op = "MUL"  -> a * b
    [] op = "DIV"  -> Quotient(a, b)
    [] op = "MOD"  -> a - b * Quotient(a, b)
    [] op = "BAND" -> FromBits({i \in 0 .. 6 : Bit(a, i) = 1 /\ Bit(b, i) = 1})
    [] op = "BOR"  -> FromBits({i \in 0 .. 6 : Bit(a, i) = 1 \/ Bit(b, i) = 1})
    [] op = "XOR"  -> FromBits({i \in 0 .. 6 : Bit(a, i) # Bit(b, i)})

Holds(op, a, b) ==
  \/ op = "LT" /\ a < b
  \/ op = "GT" /\ a > b
  \/ op = "LE" /\ a <= b
  \/ op = "GE" /\ a >= b

DividesByZero(i) == i.op \in {"DIV", "MOD"} /\ Peek(0) = IntVal(0)

Calculate ==
  \E i \in At(Arithmetic \cup Integral) :
    /\ ~Concatenates(i) /\ ~DividesByZero(i)
    /\ Replace(2, IntVal(Calc(i.op, Peek(1)[2], Peek(0)[2])))
    /\ Plain1

Compare ==
  \E i \in At(Comparing) :
    Replace(2, BoolVal(Holds(i.op, Peek(1)[2], Peek(0)[2]))) /\ Plain1

Neg == \E i \in At({"NEG"}) : Replace(1, IntVal(-Peek(0)[2])) /\ Plain1

\* The processor's trap on a division by zero.
DivideByZero ==
  \E i \in At({"DIV", "MOD"}) :
    /\ DividesByZero(i)
    /\ status' = "crashed"
    /\ UNCHANGED <<src, funcs, build, stack, top, frames, ip, heap, globals, out>>

(***************************************************************************)
(* Strings, equality.                                                      *)
(***************************************************************************)
\* The provers do not know that ToString makes a string.
Digits(n) == IF ToString(n) \in STRING THEN ToString(n) ELSE NullText

\* VM::to_string: the case of an object has no break and falls into default.
Text(v) ==
  CASE IsInt(v)    -> <<Digits(v[2])>>
    [] IsBool(v)   -> <<IF v[2] THEN TrueText ELSE FalseText>>
    [] v = NullVal -> <<NullText>>
    [] IsStr(v)    -> v[2]
    [] OTHER       -> <<ScrewedUp>>

ToStr == \E i \in At({"TO_STR"}) : Replace(1, StrVal(Text(Peek(0)))) /\ Plain1

Joined ==
  \E i \in At({"CONCAT", "ADD"}) :
    /\ Concatenates(i)
    /\ Replace(2, StrVal(Peek(1)[2] \o Peek(0)[2]))
    /\ Plain1

\* PUT(0, BOOL_VAL(equiv(POP(), PEEK(0)))), with POP first; or with PEEK
\* first, so that the top is compared with itself, and PUT's slot computed
\* before POP, so that the answer goes to the slot that is popped; or with
\* PEEK first and PUT's slot last.
Equiv ==
  \E i \in At({"EQUIV"}) :
    /\ LET answer == build = "leftFirst" => Peek(0) = Peek(1)
           slot   == IF build = "rightFirst" THEN top - 1 ELSE top - 2
       IN  stack' = [stack EXCEPT ![slot] = BoolVal(answer)]
    /\ top' = top - 1
    /\ Plain1

(***************************************************************************)
(* Jumps.                                                                  *)
(***************************************************************************)
Goto == \E i \in At({"GOTO"}) : ip' = i.uint /\ Plain /\ UNCHANGED <<stack, top>>
Jmp  == \E i \in At({"JMP"}) : ip' = ip + 5 + i.uint /\ Plain /\ UNCHANGED <<stack, top>>

\* OR jumps on true, AND on false, keeping the value; else they pop it.
Branch ==
  \E i \in At({"OR", "AND"}) :
    /\ IF IsTrue(Peek(0)) = (i.op = "OR")
       THEN ip' = ip + 5 + i.uint /\ UNCHANGED <<stack, top>>
       ELSE ip' = ip + 5 /\ Drop(1)
    /\ Plain

(***************************************************************************)
(* Globals.                                                                *)
(***************************************************************************)
Name(i) == Const(i)[2]
PutGlobal(name, v) ==
  globals' = [n \in DOMAIN globals \cup {name} |-> IF n = name THEN v ELSE globals[n]]

DefVar ==
  \E i \in At({"DEF_VAR"}) :
    /\ PutGlobal(Name(i), Peek(0)) /\ Drop(1) /\ ip' = i.end
    /\ UNCHANGED <<src, funcs, build, frames, heap, out, status>>

SetVar ==
  \E i \in At({"SET_VAR"}) :
    /\ Name(i) \in DOMAIN globals
    /\ PutGlobal(Name(i), Peek(0)) /\ ip' = i.end
    /\ UNCHANGED <<src, funcs, build, stack, top, frames, heap, out, status>>

GetVar ==
  \E i \in At({"GET_VAR"}) :
    /\ Name(i) \in DOMAIN globals
    /\ Replace(0, globals[Name(i)]) /\ ip' = i.end /\ Plain

\* A name that is not defined ends the process; SET_VAR takes the entry that
\* put_map made out again first.
Undefined ==
  \E i \in At({"GET_VAR", "SET_VAR"}) :
    /\ Name(i) \notin DOMAIN globals
    /\ status' = "exited"
    /\ UNCHANGED <<src, funcs, build, stack, top, frames, ip, heap, globals, out>>

(***************************************************************************)
(* Upvalues.                                                               *)
(***************************************************************************)
Loc(i)  == upvals[open[i]].loc

\* A slip in Above: > for >=.
AboveStrict(x) ==
  CHOOSE n \in 0 .. Len(open) :
    /\ \A i \in 1 .. n : Loc(i) > x
    /\ n = Len(open) \/ Loc(n + 1) <= x

\* How many open upvalues, from the head of the list, point at x or above:
\* where the loops of capture_upvalue and close_upvalues stop.
Above(x) ==
  CHOOSE n \in 0 .. Len(open) :
    /\ \A i \in 1 .. n : Loc(i) >= x
    /\ n = Len(open) \/ Loc(n + 1) < x

\* What an upvalue refers to, *upvalue->loc, and the running closure's.
ValueOf(u) == IF upvals[u].loc = Closed THEN upvals[u].closed ELSE stack[upvals[u].loc]
Upval(i)   == Closure.ups[i.arg + 1]

GetUpval ==
  \E i \in At({"GET_UPVAL"}) : Replace(0, ValueOf(Upval(i))) /\ ip' = i.end /\ Plain

SetUpval ==
  \E i \in At({"SET_UPVAL"}) :
    /\ LET u == Upval(i)
       IN  IF upvals[u].loc = Closed
           THEN upvals' = [upvals EXCEPT ![u].closed = Peek(0)] /\ UNCHANGED stack
           ELSE stack' = [stack EXCEPT ![upvals[u].loc] = Peek(0)] /\ UNCHANGED upvals
    /\ ip' = i.end
    /\ UNCHANGED <<src, funcs, build, top, frames, closures, open, pend, globals, out, status>>

\* CLOSURE allocates the closure; its captures follow.
NewClosure ==
  \E i \in At({"CLOSURE"}) :
    /\ LET f == Const(i)[2]
       IN  /\ closures' = Append(closures, [func |-> f, ups |-> <<>>])
           /\ pend' = funcs[f].nup
    /\ Replace(0, CloVal(Len(closures) + 1))
    /\ ip' = i.end
    /\ UNCHANGED <<src, funcs, build, frames, upvals, open, globals, out, status>>

\* The operands of one capture: a byte, local or not, and an index.
CaptureAt(code, p) ==
  LET a == ArgAt(code, p + 1)
  IN  [local |-> p < Len(code) /\ code[p + 1] # 0, arg |-> a.arg, end |-> a.end]
Captured == CaptureAt(Func.code, ip)
Captures(c) == IF c.local THEN HasLocal(c) ELSE HasUpval(c)
ToCapture(local) ==
  IF status = "running" /\ pend > 0
  THEN {c \in {Captured} : c.local = local /\ Captures(c)}
  ELSE {}

\* The next upvalue of the newest closure is u.
Capture(c, u) ==
  /\ closures' = [closures EXCEPT ![Len(closures)].ups = Append(@, u)]
  /\ pend' = pend - 1
  /\ ip' = c.end
  /\ UNCHANGED <<src, funcs, build, stack, top, frames, globals, out, status>>

\* capture_upvalue: the upvalues above the variable x, and whether the next
\* one is the variable's.
Passed(x)  == Above(x + 1)
IsThere(x) == Passed(x) < Len(open) /\ Loc(Passed(x) + 1) = x

ShareUpvalue ==
  \E c \in ToCapture(TRUE) :
    LET x == Frame.slots + c.arg
    IN  /\ IsThere(x)
        /\ Capture(c, open[Passed(x) + 1])
        /\ UNCHANGED <<upvals, open>>

NewUpvalue ==
  \E c \in ToCapture(TRUE) :
    LET x == Frame.slots + c.arg
        u == Len(upvals) + 1
    IN  /\ ~IsThere(x)
        /\ upvals' = Append(upvals, [loc |-> x, closed |-> NullVal])
        /\ open' = InsertAt(open, Passed(x) + 1, u)
        /\ Capture(c, u)

\* The variable is already an upvalue of the running function.
InheritUpvalue ==
  \E c \in ToCapture(FALSE) : Capture(c, Upval(c)) /\ UNCHANGED <<upvals, open>>

\* Slips in CloseFrom: the value is not copied; the location is not the
\* upvalue's own.
CloseForgets(x) ==
  LET n == Above(x)
  IN  /\ upvals' = [u \in DOMAIN upvals |->
                      IF \E i \in 1 .. n : open[i] = u
                      THEN [upvals[u] EXCEPT !.loc = Closed] ELSE upvals[u]]
      /\ open' = SubSeq(open, n + 1, Len(open))
      /\ UNCHANGED <<closures, pend>>
CloseAtLast(x) ==
  LET n == Above(x)
  IN  /\ upvals' = [u \in DOMAIN upvals |->
                      IF \E i \in 1 .. n : open[i] = u
                      THEN [loc |-> x, closed |-> stack[upvals[u].loc]] ELSE upvals[u]]
      /\ open' = SubSeq(open, n + 1, Len(open))
      /\ UNCHANGED <<closures, pend>>

\* close_upvalues: the upvalues at or above x take their values with them.
CloseFrom(x) ==
  LET n == Above(x)
  IN  /\ upvals' = [u \in DOMAIN upvals |->
                      IF \E i \in 1 .. n : open[i] = u
                      THEN [loc |-> Closed, closed |-> stack[upvals[u].loc]]
                      ELSE upvals[u]]
      /\ open' = SubSeq(open, n + 1, Len(open))
      /\ UNCHANGED <<closures, pend>>

Close ==
  \E i \in At({"CLOSE"}) :
    /\ CloseFrom(top - 1)
    /\ Drop(1) /\ ip' = ip + 1
    /\ UNCHANGED <<src, funcs, build, frames, globals, out, status>>

(***************************************************************************)
(* Calls.                                                                  *)
(***************************************************************************)
Callee(i) == Peek(i.arg)

\* A slip in CallClosure: the window starts at the first argument.
CallAtArgument ==
  \E i \in At({"CALL"}) :
    /\ IsClo(Callee(i))
    /\ frames' = Append([frames EXCEPT ![Len(frames)].ip = i.end],
                        [clo |-> Callee(i)[2], ip |-> 0, slots |-> top - i.arg])
    /\ ip' = 0
    /\ UNCHANGED <<src, funcs, build, stack, top, heap, globals, out, status>>

\* VM::call; the number of arguments is not compared with the arity.
CallClosure ==
  \E i \in At({"CALL"}) :
    /\ IsClo(Callee(i))
    /\ frames' = Append([frames EXCEPT ![Len(frames)].ip = i.end],
                        [clo |-> Callee(i)[2], ip |-> 0, slots |-> top - i.arg - 1])
    /\ ip' = 0
    /\ UNCHANGED <<src, funcs, build, stack, top, heap, globals, out, status>>

\* IO::print, the only native function.
CallNative ==
  \E i \in At({"CALL"}) :
    /\ Callee(i) = NativeVal
    /\ out' = out \o [n \in 1 .. i.arg |-> Text(Peek(i.arg - n))]
    /\ Replace(i.arg + 1, NullVal)
    /\ ip' = i.end
    /\ UNCHANGED <<src, funcs, build, frames, heap, globals, status>>

\* call_val answers false, and run() goes on as if nothing had been called.
CallOther ==
  \E i \in At({"CALL"}) :
    /\ ~IsClo(Callee(i)) /\ Callee(i) # NativeVal
    /\ ip' = i.end /\ Plain /\ UNCHANGED <<stack, top>>

\* A slip in Return: the result goes below the callee.
ReturnBelow ==
  \E i \in At({"RET"}) :
    /\ Len(frames) > 1
    /\ CloseFrom(Frame.slots)
    /\ stack' = [stack EXCEPT ![Frame.slots - 1] = Peek(0)]
    /\ top' = Frame.slots
    /\ frames' = Front(frames)
    /\ ip' = frames[Len(frames) - 1].ip
    /\ UNCHANGED <<src, funcs, build, globals, out, status>>

Return ==
  \E i \in At({"RET"}) :
    /\ Len(frames) > 1
    /\ CloseFrom(Frame.slots)
    /\ stack' = [stack EXCEPT ![Frame.slots] = Peek(0)]
    /\ top' = Frame.slots + 1
    /\ frames' = Front(frames)
    /\ ip' = frames[Len(frames) - 1].ip
    /\ UNCHANGED <<src, funcs, build, globals, out, status>>

\* A slip in Finish: run() does not return.
FinishGoesOn ==
  \E i \in At({"RET"}) :
    /\ Len(frames) = 1
    /\ CloseFrom(Frame.slots)
    /\ Drop(2)
    /\ frames' = <<>>
    /\ UNCHANGED <<src, funcs, build, ip, globals, out, status>>

\* The script's RET ends run().
Finish ==
  \E i \in At({"RET"}) :
    /\ Len(frames) = 1
    /\ CloseFrom(Frame.slots)
    /\ Drop(2)
    /\ frames' = <<>>
    /\ status' = "done"
    /\ UNCHANGED <<src, funcs, build, ip, globals, out>>

\* run() returns at an instruction its switch has no case for.
NoCase ==
  \E i \in At((Opcodes \ Handled) \cup {"none"}) :
    /\ status' = "stopped"
    /\ UNCHANGED <<src, funcs, build, stack, top, frames, ip, heap, globals, out>>

Misbehave ==
  /\ status = "running"
  /\ IF pend = 0 THEN ~Meaningful(Decode(Func.code, ip)) ELSE ~Captures(Captured)
  /\ status' = "undefined"
  /\ UNCHANGED <<src, funcs, build, stack, top, frames, ip, heap, globals, out>>

(***************************************************************************)
(* VM::VM and main: print is defined, the script's closure is called.      *)
(***************************************************************************)
PrintName == <<"print">>

Init ==
  /\ src \in DOMAIN Programs
  /\ funcs = Programs[src]
  /\ build \in Builds
  /\ stack = [i \in OnStack |-> CASE i = 0 -> CloVal(1) [] i = 1 -> NativeVal [] OTHER -> Junk]
  /\ top = 1
  /\ frames = <<[clo |-> 1, ip |-> 0, slots |-> 0]>>
  /\ ip = 0
  /\ closures = <<[func |-> 1, ups |-> <<>>]>>
  /\ upvals = <<>>
  /\ open = <<>>
  /\ pend = 0
  /\ globals = [n \in {PrintName} |-> NativeVal]
  /\ out = <<>>
  /\ status = "running"

Next ==
  \/ NullOp \/ ConstOp \/ Dup \/ Pop \/ Rotate
  \/ GetLocal \/ SetLocal \/ GetUpval \/ SetUpval
  \/ DefVar \/ SetVar \/ GetVar \/ Undefined
  \/ Calculate \/ Compare \/ Neg \/ DivideByZero
  \/ ToStr \/ Joined \/ Equiv
  \/ Goto \/ Jmp \/ Branch
  \/ NewClosure \/ ShareUpvalue \/ NewUpvalue \/ InheritUpvalue \/ Close
  \/ CallClosure \/ CallNative \/ CallOther \/ Return \/ Finish
  \/ NoCase \/ Misbehave

\* run() is a loop: it never rests at an instruction it can execute.
Spec == Init /\ [][Next]_vars /\ WF_vars(Next)

(***************************************************************************)
(* Properties that hold for whatever bytecode the machine is given.        *)
(***************************************************************************)
\* Every reference leads somewhere: a value to its closure, a closure to its
\* function and its upvalues, a frame to its closure and its window of the
\* stack; and the machine is always in one of its frames.
LiveValue == {v \in Values : IsClo(v) => v[2] \in DOMAIN closures}
TypeOK ==
  /\ src \in DOMAIN Programs /\ funcs = Programs[src] /\ build \in Builds
  /\ stack \in [OnStack -> LiveValue] /\ top \in 0 .. StackSize
  /\ frames \in Seq([clo : DOMAIN closures, ip : Nat, slots : OnStack])
  /\ Len(frames) <= MaxFrames
  /\ status = "running" => frames # <<>>
  /\ ip \in Nat /\ pend \in Nat
  /\ closures \in Seq([func : DOMAIN funcs, ups : Seq(DOMAIN upvals)])
  /\ upvals \in Seq([loc : OnStack \cup {Closed}, closed : LiveValue])
  /\ open \in Seq(DOMAIN upvals)
  /\ \A n \in DOMAIN globals : globals[n] \in LiveValue
  /\ out \in Seq(Seq(Pieces))
  /\ status \in {"running", "done", "exited", "crashed", "stopped", "undefined"}

\* capture_upvalue and close_upvalues walk a list they take to be sorted by
\* location.  It is, strictly: a variable has at most one upvalue.  And it
\* holds every upvalue that is not closed: none can be missed by a close.
UpvaluesOK ==
  /\ \A i \in DOMAIN open : Loc(i) # Closed
  /\ \A i, j \in DOMAIN open : i < j => Loc(j) < Loc(i)
  /\ \A u \in DOMAIN upvals : upvals[u].loc # Closed => \E i \in DOMAIN open : open[i] = u

\* An upvalue that is closed stays closed, and one that is open stays at its
\* variable until it is closed.
ClosedForGood ==
  [][\A u \in DOMAIN upvals :
       upvals'[u].loc # upvals[u].loc => upvals[u].loc # Closed /\ upvals'[u].loc = Closed]_vars

(***************************************************************************)
(* Properties of the code the compiler makes.                              *)
(***************************************************************************)
\* How many values an instruction takes off the stack, or, a rotation, moves.
Takes(i) ==
  CASE i.op \in Arithmetic \cup Integral \cup Comparing \cup {"CONCAT", "EQUIV"} -> 2
    [] i.op \in {"NEG", "TO_STR", "POP", "CLOSE", "DEF_VAR", "OR", "AND"} -> 1
    [] i.op \in DOMAIN Rotations -> Rotations[i.op]
    [] i.op = "CALL" -> i.arg + 1
    [] OTHER -> 0

\* An instruction finds its operands above the callee of its frame, a local
\* it names is on the stack, and what it assigns to is never the slot of a
\* callee.  run() relies on it and does not look.
KeepsToFrame ==
  status = "running" /\ pend = 0 =>
    LET i == Decode(Func.code, ip)
    IN  /\ i.op # "RET" => top - Takes(i) > Frame.slots
        /\ i.op = "GET_LOCAL" => Frame.slots + i.arg \in Frame.slots .. top - 1
        /\ i.op = "SET_LOCAL" => Frame.slots + i.arg \in Frame.slots + 1 .. top - 1
        /\ i.op = "SET_UPVAL" /\ HasUpval(i) =>
             \A n \in DOMAIN frames : upvals[Upval(i)].loc # frames[n].slots

\* A variable that a closure has captured is taken off the stack by CLOSE or
\* RET only, and only a variable that is on it is captured.
LeavesCaptured ==
  status = "running" =>
    IF pend > 0 THEN Captured.local => Frame.slots + Captured.arg \in Frame.slots .. top - 1
    ELSE LET i == Decode(Func.code, ip)
         IN  i.op \notin {"CLOSE", "RET"} =>
               \A n \in DOMAIN open, k \in 1 .. Takes(i) : Loc(n) # top - k

HasOperands(i) ==
  /\ i.op # "end"
  /\ i.op = "CONST" => HasConst(i)
  /\ i.op \in {"GET_VAR", "DEF_VAR", "SET_VAR"} => HasName(i)
  /\ i.op = "CLOSURE" => HasFunc(i)
  /\ i.op \in {"GET_LOCAL", "SET_LOCAL"} => HasLocal(i)
  /\ i.op \in {"GET_UPVAL", "SET_UPVAL"} => HasUpval(i)
  /\ i.op \in Jumps => i.uint # Absent

\* What the operand of an instruction names is there: the constant, and it is
\* a name or a function where it has to be one, the local, the upvalue, the
\* distance, and for a capture the variable.  run() looks at none of it.
FindsOperands ==
  status = "running" =>
    IF pend > 0 THEN Captures(Captured) ELSE HasOperands(Decode(Func.code, ip))

\* What is called is print or a closure, and a closure gets as many arguments
\* as it has parameters: neither call_val nor call sees to it that the stack is
\* as high behind a call as the compiler counts.
CallsMatch ==
  status = "running" /\ pend = 0 /\ Fetch = "CALL" =>
    LET i == Decode(Func.code, ip)
    IN  i.arg \in 0 .. top - 1 =>
          \/ Callee(i) = NativeVal
          \/ IsClo(Callee(i)) /\ funcs[closures[Callee(i)[2]].func].arity = i.arg

\* An open upvalue points at a value that is still on the stack.
NoDanglingUpvalue ==
  status = "running" => \A i \in DOMAIN open : upvals[open[i]].loc < top

\* What a closure has captured changes when the variable is assigned to and at
\* no other time: neither closing the upvalue nor reusing the stack below it
\* is noticed.
CapturedKept ==
  [][\A u \in DOMAIN upvals :
       ValueOf(u)' # ValueOf(u) => pend = 0 /\ Fetch \in {"SET_LOCAL", "SET_UPVAL"}]_vars

\* A function touches its caller's part of the stack through upvalues only.
CallerKept ==
  [][\A i \in 0 .. Frame.slots - 1 : stack'[i] # stack[i] => Fetch = "SET_UPVAL"]_vars

\* Slot 0 of every frame holds the function the frame runs, below which the
\* caller's values stay.
FramesNest ==
  /\ \A i \in DOMAIN frames : stack[frames[i].slots] = CloVal(frames[i].clo)
  /\ \A i \in 1 .. Len(frames) - 1 : frames[i].slots < frames[i + 1].slots

\* A program ends.
Ends == <>(status # "running")
=============================================================================
