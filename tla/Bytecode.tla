------------------------------ MODULE Bytecode ------------------------------
(***************************************************************************)
(* The instruction set of opcode.txt, the encodings of an instruction's    *)
(* operand, and the values of value.hpp, shared by the code generator and  *)
(* the virtual machine.                                                    *)
(***************************************************************************)
EXTENDS Integers, Sequences, FiniteSetsExt

(***************************************************************************)
(* opcode.txt, in order: the name and the effect on the stack's height     *)
(* that the compiler's curr_slots counts.                                  *)
(***************************************************************************)
OpcodeTable == <<
  <<"CONST", 1>>, <<"NULL", 1>>, <<"TRUE", 1>>, <<"FALSE", 1>>,
  <<"ADD", -1>>, <<"SUB", -1>>, <<"MUL", -1>>, <<"MOD", -1>>, <<"DIV", -1>>,
  <<"EXP", -1>>, <<"LSHIFT", -1>>, <<"RSHIFT", -1>>, <<"BOR", -1>>,
  <<"BAND", -1>>, <<"XOR", -1>>, <<"BNOT", 0>>, <<"NOT", 0>>, <<"NEG", 0>>,
  <<"I_ADD", -1>>, <<"I_SUB", -1>>, <<"I_MUL", -1>>, <<"I_MOD", -1>>,
  <<"I_DIV", -1>>, <<"I_EXP", -1>>, <<"I_LSHIFT", -1>>, <<"I_RSHIFT", -1>>,
  <<"I_BOR", -1>>, <<"I_BAND", -1>>, <<"I_XOR", -1>>,
  <<"LT", -1>>, <<"GT", -1>>, <<"LE", -1>>, <<"GE", -1>>,
  <<"NOT_EQUIV", -1>>, <<"EQUIV", -1>>, <<"POP", -1>>, <<"DEF_VAR", -1>>,
  <<"SET_VAR", 0>>, <<"GET_VAR", 1>>, <<"ROT2", 0>>, <<"ROT3", 0>>,
  <<"ROT4", 0>>, <<"DUP", 1>>, <<"GOTO", 0>>, <<"JMP", 0>>, <<"OR", 0>>,
  <<"AND", 0>>, <<"COAL", 0>>, <<"OPTIONAL", 0>>, <<"RET", 0>>,
  <<"TO_STR", 0>>, <<"CONCAT", -1>>, <<"GET_LOCAL", 1>>, <<"SET_LOCAL", 0>>,
  <<"GET_UPVAL", 1>>, <<"SET_UPVAL", 0>>, <<"CLOSURE", 0>>, <<"CLOSE", 0>>,
  <<"CALL", 0>> >>

Opcodes     == {OpcodeTable[i][1] : i \in 1 .. Len(OpcodeTable)}
OpByte      == [op \in Opcodes |->
                  (CHOOSE i \in 1 .. Len(OpcodeTable) : OpcodeTable[i][1] = op) - 1]
StackEffect == [op \in Opcodes |-> OpcodeTable[OpByte[op] + 1][2]]

\* The instruction a byte stands for; run()'s switch has no default case.
OpName(byte) == IF byte < Len(OpcodeTable) THEN OpcodeTable[byte + 1][1] ELSE "none"
\* The instruction at an offset.
OpAt(code, p) == IF p < Len(code) THEN OpName(code[p + 1]) ELSE "end"

(***************************************************************************)
(* Operands.  Code is a sequence of bytes; an offset counts from 0, so the *)
(* byte at offset p is code[p + 1].                                        *)
(***************************************************************************)
\* emit_uleb: seven bits to a byte, the lowest first, 0x80 on all but the last.
\* rest[i] is what is left of n at byte i; 64 bits are ten bytes at most.
UlebBytes(n) ==
  LET rest[i \in 1 .. 10] == IF i = 1 THEN n ELSE rest[i - 1] \div 128
      last == CHOOSE i \in 1 .. 10 : rest[i] < 128 /\ \A j \in 1 .. i - 1 : rest[j] >= 128
  IN  [i \in 1 .. last |-> (rest[i] % 128) + IF i < last THEN 128 ELSE 0]

\* The offset after the number that starts at offset p (ULEB in vm.cpp).
UlebEnds(code, p) == {q \in p + 1 .. Len(code) : code[q] < 128}
UlebEnd(code, p)  == Min(UlebEnds(code, p))

\* The number, each byte seven bits above the one before it.
UlebAt(code, p) ==
  LET end == UlebEnd(code, p)
      value[q \in p + 1 .. end] == (code[q] % 128) + IF q = end THEN 0 ELSE 128 * value[q + 1]
  IN  value[p + 1]

\* emit_uint: four bytes, the highest first.
UintBytes(n) == <<(n \div 2^24) % 256, (n \div 2^16) % 256, (n \div 2^8) % 256, n % 256>>

\* UINT in vm.cpp masks with 0xFF after shifting, which leaves only the byte
\* that is not shifted.
UintAt(code, p) == code[p + 4]

(***************************************************************************)
(* Values: a type and what the union holds.  A string is the sequence of   *)
(* its pieces (equal strings are one object, see the string table), an     *)
(* object is known by its number.                                          *)
(***************************************************************************)
IntVal(n)    == <<"int", n>>
BoolVal(b)   == <<"bool", b>>
StrVal(s)    == <<"str", s>>
FuncVal(f)   == <<"func", f>>
CloVal(c)    == <<"clo", c>>
NullVal      == <<"null", 0>>
NativeVal    == <<"native", 0>>
Junk         == <<"junk", 0>>    \* memory nothing was written to

IsInt(v)  == v[1] = "int"
IsBool(v) == v[1] = "bool"
IsStr(v)  == v[1] = "str"
IsFunc(v) == v[1] = "func"
IsClo(v)  == v[1] = "clo"

\* The pieces of text; that the machine's own are strings the provers do not
\* know.
TrueText  == "true"
FalseText == "false"
NullText  == "null"
ScrewedUp == "UNKOWN TYPE (LANGUAGE IMPLEMENTOR SCREWED UP!)"
Pieces    == STRING \cup {TrueText, FalseText, NullText, ScrewedUp}

Values ==
  ({"int"} \X Int) \cup ({"bool"} \X BOOLEAN) \cup ({"str"} \X Seq(Pieces))
  \cup ({"func", "clo"} \X (Nat \ {0})) \cup {NullVal, NativeVal, Junk}

\* VM::is_true: everything but null and false.
IsTrue(v) == v \notin {NullVal, BoolVal(FALSE)}
=============================================================================
