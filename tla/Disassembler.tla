---------------------------- MODULE Disassembler ----------------------------
(***************************************************************************)
(* The disassembler of src/src/main.cpp: dis walks the code of a function, *)
(* and of the functions its closures are made of, one line an instruction. *)
(* main calls it on the script before it runs it.  The text of a line is   *)
(* left out but for what it says of offsets.                               *)
(*                                                                         *)
(* dis decodes the code again, with a switch and readers of its own.  An   *)
(* instruction that has an operand and no case leaves it in the operand.   *)
(***************************************************************************)
EXTENDS Bytecode, SequencesExt

CONSTANTS
  Programs,   \* the programs, as sequences of functions; function 1 is the script
  Starts,     \* for each program: where the compiler starts instructions, <<function, offset>>
  FlagFirsts  \* whether printf("{ %s, %lu }", code[i++], readULEB(...)) reads the flag first

ASSUME DisassemblerAssumption ==
  /\ \A p \in DOMAIN Programs :
       /\ 1 \in DOMAIN Programs[p] /\ DOMAIN Programs[p] \subseteq Nat \ {0}
       /\ \A f \in DOMAIN Programs[p] : /\ Programs[p][f].code \in Seq(0 .. 255)
                                       /\ Programs[p][f].nup \in Nat
  /\ FlagFirsts \subseteq BOOLEAN

(***************************************************************************)
(* The readers: what follows the operand at offset i.                      *)
(***************************************************************************)
\* readULEB, which reads as ULEB in vm.cpp does.
AfterUleb(code, i) == UlebEnd(code, i)

\* readUint32, highest byte first.
Uint32At(code, i) == code[i + 1] * 2^24 + code[i + 2] * 2^16 + code[i + 3] * 2^8 + code[i + 4]

\* The two bytes of a capture.
AfterCapture(code, i, flagFirst) == IF flagFirst THEN AfterUleb(code, i + 1) ELSE AfterUleb(code, i) + 1

(***************************************************************************)
(* The cases of dis.                                                       *)
(***************************************************************************)
BareOps == {"POP", "DUP", "ROT2", "ROT3", "ROT4", "TRUE", "FALSE", "NULL", "NEG", "BNOT", "NOT",
            "TO_STR", "CONCAT", "ADD", "SUB", "DIV", "MUL", "MOD", "LSHIFT", "RSHIFT", "BOR",
            "BAND", "XOR", "LT", "GT", "LE", "GE", "EQUIV", "NOT_EQUIV", "CLOSE", "RET"}
ConstOps == {"CONST", "DEF_VAR", "GET_VAR"}
SlotOps  == {"GET_LOCAL", "SET_LOCAL", "GET_UPVAL", "SET_UPVAL", "CALL"}
JumpOps  == {"JMP", "AND", "OR"}
Cases    == BareOps \cup ConstOps \cup SlotOps \cup JumpOps \cup {"CLOSURE"}

VARIABLES
  src,        \* the index of the program in Programs
  funcs,      \* its functions
  flagFirst,  \* the build
  calls,      \* the calls of dis: function, offset i, and the function whose captures are due
  listed,     \* the offsets a line was printed for: <<function, offset>>
  targets,    \* the ends of the jumps in the lines: <<function, offset>>
  state       \* "listing", "done", or "lost": memory that is no code or no constant was read

disVars == <<src, funcs, flagFirst, calls, listed, targets, state>>

NoFunction == 0

This     == Last(calls)
Function == funcs[This.fn]
Code     == Function.code
i0       == This.i
Op       == OpAt(Code, i0)

\* The call of dis with its i moved on.
MovedTo(i) == [calls EXCEPT ![Len(calls)].i = i]

Line == listed' = listed \cup {<<This.fn, i0>>}

Lost ==
  /\ state' = "lost"
  /\ UNCHANGED <<src, funcs, flagFirst, calls, listed, targets>>

Listing(ops) == state = "listing" /\ This.due = NoFunction /\ i0 < Len(Code) /\ Op \in ops
HasUleb(i)   == UlebEnds(Code, i) # {}
Index        == UlebAt(Code, i0 + 1)
HasConst     == HasUleb(i0 + 1) /\ Index < Len(Function.consts)

Bare ==
  /\ Listing(BareOps)
  /\ calls' = MovedTo(i0 + 1) /\ Line
  /\ UNCHANGED <<src, funcs, flagFirst, targets, state>>

\* The default, for what has no case.
Unrecognized ==
  /\ state = "listing" /\ This.due = NoFunction /\ i0 < Len(Code) /\ Op \notin Cases
  /\ calls' = MovedTo(i0 + 1) /\ Line
  /\ UNCHANGED <<src, funcs, flagFirst, targets, state>>

\* A function among the constants is listed in its turn (dis_obj).
Const ==
  /\ Listing(ConstOps)
  /\ IF ~HasConst THEN Lost
     ELSE LET val  == Function.consts[Index + 1]
              next == MovedTo(AfterUleb(Code, i0 + 1))
          IN  /\ calls' = IF IsFunc(val) THEN Append(next, [fn |-> val[2], i |-> 0, due |-> NoFunction])
                          ELSE next
              /\ Line
              /\ UNCHANGED <<src, funcs, flagFirst, targets, state>>

Slot ==
  /\ Listing(SlotOps)
  /\ IF ~HasUleb(i0 + 1) THEN Lost
     ELSE /\ calls' = MovedTo(AfterUleb(Code, i0 + 1)) /\ Line
          /\ UNCHANGED <<src, funcs, flagFirst, targets, state>>

Jump ==
  /\ Listing(JumpOps)
  /\ IF i0 + 5 > Len(Code) THEN Lost
     ELSE /\ calls' = MovedTo(i0 + 5) /\ Line
          /\ targets' = targets \cup {<<This.fn, i0 + 5 + Uint32At(Code, i0 + 1)>>}
          /\ UNCHANGED <<src, funcs, flagFirst, state>>

\* A slip in Closure: the function is not listed.
ClosureAlone ==
  /\ Listing({"CLOSURE"})
  /\ calls' = [MovedTo(AfterUleb(Code, i0 + 1)) EXCEPT ![Len(calls)].due = Function.consts[Index + 1][2]]
  /\ Line
  /\ UNCHANGED <<src, funcs, flagFirst, targets, state>>

\* The function of a closure is listed before its captures.
Closure ==
  /\ Listing({"CLOSURE"})
  /\ IF ~HasConst \/ ~IsFunc(Function.consts[Index + 1]) THEN Lost
     ELSE LET f == Function.consts[Index + 1][2]
          IN  /\ calls' = Append([MovedTo(AfterUleb(Code, i0 + 1)) EXCEPT ![Len(calls)].due = f],
                                 [fn |-> f, i |-> 0, due |-> NoFunction])
              /\ Line
              /\ UNCHANGED <<src, funcs, flagFirst, targets, state>>

\* A slip in Captures: one less than there are.
CapturesShort ==
  /\ state = "listing" /\ This.due # NoFunction
  /\ LET after[n \in 0 .. funcs[This.due].nup] ==
           IF n = 0 THEN i0 ELSE AfterCapture(Code, after[n - 1], flagFirst)
         nup == funcs[This.due].nup
     IN  calls' = [MovedTo(after[IF nup = 0 THEN 0 ELSE nup - 1]) EXCEPT ![Len(calls)].due = NoFunction]
  /\ UNCHANGED <<src, funcs, flagFirst, listed, targets, state>>

Captures ==
  /\ state = "listing" /\ This.due # NoFunction
  /\ LET after[n \in 0 .. funcs[This.due].nup] ==
           IF n = 0 THEN i0 ELSE AfterCapture(Code, after[n - 1], flagFirst)
     IN  calls' = [MovedTo(after[funcs[This.due].nup]) EXCEPT ![Len(calls)].due = NoFunction]
  /\ UNCHANGED <<src, funcs, flagFirst, listed, targets, state>>

\* i >= chunk->len
Return ==
  /\ state = "listing" /\ This.due = NoFunction /\ i0 >= Len(Code)
  /\ calls' = Front(calls)
  /\ state' = IF Len(calls) = 1 THEN "done" ELSE state
  /\ UNCHANGED <<src, funcs, flagFirst, listed, targets>>

Init ==
  /\ src \in DOMAIN Programs /\ funcs = Programs[src] /\ flagFirst \in FlagFirsts
  /\ calls = <<[fn |-> 1, i |-> 0, due |-> NoFunction]>>
  /\ listed = {} /\ targets = {} /\ state = "listing"

Next == Bare \/ Unrecognized \/ Const \/ Slot \/ Jump \/ Closure \/ Captures \/ Return

\* dis is a loop without a wait in it.
Spec == Init /\ [][Next]_disVars /\ WF_disVars(Next)

(***************************************************************************)
(* What dis relies on, said of the code alone: where the compiler starts   *)
(* an instruction that dis has a case for, another starts behind it, and   *)
(* what its operand names is there.                                        *)
(***************************************************************************)
\* Instructions that have an operand and no case in dis.
Operands == {"SET_VAR", "GOTO"}

GoesOn(fns, starts, f, p) == p = Len(fns[f].code) \/ <<f, p>> \in starts

\* The flags and indices of n captures, a byte each: with a longer index the
\* order in which printf's arguments are evaluated would show.
CapturesAt(code, p, n) == \A q \in p .. p + 2 * n - 1 : q < Len(code) /\ code[q + 1] < 128

FindsConstant(fns, fn, p) ==
  LET index == UlebAt(fn.code, p + 1)
      val   == fn.consts[index + 1]
  IN  /\ index < Len(fn.consts)
      /\ OpAt(fn.code, p) = "CLOSURE" => IsFunc(val)
      /\ IsFunc(val) => val[2] \in DOMAIN fns

OperandRead(fns, starts, f, p) ==
  LET fn   == fns[f]
      code == fn.code
      op   == OpAt(code, p)
      end  == UlebEnd(code, p + 1)
      nup  == fns[fn.consts[UlebAt(code, p + 1) + 1][2]].nup
  IN  /\ UlebEnds(code, p + 1) # {}
      /\ op \in ConstOps \cup {"CLOSURE"} => FindsConstant(fns, fn, p)
      /\ op # "CLOSURE" => GoesOn(fns, starts, f, end)
      /\ op = "CLOSURE" => CapturesAt(code, end, nup) /\ GoesOn(fns, starts, f, end + 2 * nup)

JumpRead(fns, starts, f, p) ==
  LET code == fns[f].code
  IN  /\ p + 5 <= Len(code) /\ GoesOn(fns, starts, f, p + 5)
      /\ <<f, p + 5 + Uint32At(code, p + 1)>> \in starts

\* The instruction at p, unless dis has no case for it.
Listed(fns, starts, f, p) ==
  LET op == OpAt(fns[f].code, p)
  IN  /\ p \in 0 .. Len(fns[f].code) - 1
      /\ op \in ConstOps \cup SlotOps \cup {"CLOSURE"} => OperandRead(fns, starts, f, p)
      /\ op \in JumpOps => JumpRead(fns, starts, f, p)
      /\ op \in BareOps \/ op \notin Cases \cup Operands => GoesOn(fns, starts, f, p + 1)

ListablePrograms ==
  LET fns == Programs starts == Starts
  IN  {p \in DOMAIN Programs :
         /\ \A f \in DOMAIN fns[p] : GoesOn(fns[p], starts[p], f, 0)
         /\ \A s \in starts[p] :
              s[1] \in DOMAIN fns[p] /\ Listed(fns[p], starts[p], s[1], s[2])}

(***************************************************************************)
(* Properties.                                                             *)
(***************************************************************************)
Misread == {line \in listed : OpAt(funcs[line[1]].code, line[2]) \in Operands}

\* The code the compiler makes is a chain of instructions in each function,
\* with operands that dis's readers read as they were written and jumps that
\* end at instructions.
Listable == src \in ListablePrograms

\* Every line of a listing is an instruction the compiler emitted and every end
\* of a jump in it the start of one: dis stays in step with the code, through
\* operands, closures and captures, up to the first instruction whose operand
\* it does not know of.
InStep == (state = "lost" \/ ~(listed \cup targets \subseteq Starts[src])) => Misread # {}

\* A listing ends, and has a line for each instruction of each function by then.
ListsAll == <>((state = "done" /\ listed = Starts[src]) \/ Misread # {})
=============================================================================
