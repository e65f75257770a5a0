---------------------------- MODULE FrameProofs ----------------------------
(***************************************************************************)
(* Proofs of what the virtual machine promises to the code it runs, for    *)
(* every program, stack and number of frames.  run() does not look whether *)
(* an instruction stays within its frame: that is up to the compiler.  The *)
(* theorems say what follows when it does, instruction by instruction:     *)
(* from KeepsToFrame that frames nest and callers are left alone, from     *)
(* LeavesCaptured that upvalues do not dangle and keep what they captured. *)
(* The run of MCEngel checks the two, and what follows from them, on       *)
(* compiled programs.                                                      *)
(*                                                                         *)
(* The argument.  Most instructions take some values off the stack, at     *)
(* most Takes of them, and leave what is below as it was (Works); the      *)
(* others are eight (StepKinds), and each proof goes through them.         *)
(***************************************************************************)
EXTENDS VMProofs

(***************************************************************************)
(* What an instruction takes.                                              *)
(***************************************************************************)
\* Instructions that take nothing: those that push, those that assign and
\* keep the value, the jumps.
LEMMA TakesNone ==
  ASSUME NEW i, i.op \in {"NULL", "CONST", "DUP", "GET_LOCAL", "SET_LOCAL", "GET_UPVAL",
                          "SET_UPVAL", "GET_VAR", "SET_VAR", "GOTO", "JMP", "CLOSURE"}
  PROVE  Takes(i) = 0
  BY DEF Takes, Arithmetic, Integral, Comparing, Rotations

\* Instructions with one operand.
LEMMA TakesOne ==
  ASSUME NEW i, i.op \in {"NEG", "TO_STR", "POP", "CLOSE", "DEF_VAR", "OR", "AND"}
  PROVE  Takes(i) = 1
  BY DEF Takes, Arithmetic, Integral, Comparing, Rotations

\* Instructions with two operands.
LEMMA TakesTwo ==
  ASSUME NEW i, i.op \in Arithmetic \cup Integral \cup Comparing \cup {"CONCAT", "EQUIV"}
  PROVE  Takes(i) = 2
  BY DEF Takes, Arithmetic, Integral, Comparing, Rotations

\* A call takes the callee and its arguments.
LEMMA TakesArgs ==
  ASSUME NEW i, i.op = "CALL"
  PROVE  Takes(i) = i.arg + 1
  BY DEF Takes, Arithmetic, Integral, Comparing, Rotations

\* A rotation moves the values it is named for.
LEMMA TakesRotated ==
  ASSUME NEW i, i.op \in DOMAIN Rotations
  PROVE  Takes(i) = Rotations[i.op]
  BY DEF Takes, Arithmetic, Integral, Comparing, Rotations

(***************************************************************************)
(* Instructions that work on the operands they take and leave the rest.    *)
(***************************************************************************)
\* The current instruction.
Now == Decode(Func.code, ip)

\* Nothing below the n values on top of the stack changes, and no more of
\* them go.
Works(n) ==
  /\ n \in Nat
  /\ UNCHANGED <<frames, upvals, open>>
  /\ top' \in Int /\ top' >= top - n
  /\ \A x \in OnStack : x < top - n => stack'[x] = stack[x]

\* The current instruction does no more than take its operands.
Worked ==
  /\ status = "running" /\ pend = 0
  /\ Now.op \notin {"RET", "CLOSE", "SET_LOCAL", "SET_UPVAL"}
  /\ Works(Takes(Now))

\* An action's instruction is the current one.
LEMMA AtNow ==
  ASSUME NEW ops, NEW i \in At(ops)
  PROVE  i = Now /\ status = "running" /\ pend = 0
  BY DEF At, Now

\* Instructions on the stack alone.
LEMMA PlainKeeps ==
  ASSUME Plain \/ Plain1
  PROVE  UNCHANGED <<frames, upvals, open>>
  BY DEF Plain, Plain1, heap

\* Popping n values and pushing one.
LEMMA ReplaceWorks ==
  ASSUME TypeOK, NEW n \in 0 .. top, NEW v, Replace(n, v), UNCHANGED <<frames, upvals, open>>
  PROVE  Works(n)
<1>1. stack' = [stack EXCEPT ![top - n] = v] /\ top' = top - n + 1
  BY DEF Replace
<1>2. n \in Nat /\ top' \in Int /\ top' >= top - n
  BY <1>1, StackType
<1>3. ASSUME NEW x \in OnStack, x < top - n PROVE stack'[x] = stack[x]
  <2>1. x # top - n
    BY <1>3, StackType DEF OnStack
  <2> QED BY <1>1, <2>1, StackType
<1> QED BY <1>2, <1>3 DEF Works

\* Popping n values.
LEMMA DropWorks ==
  ASSUME TypeOK, NEW n \in 0 .. top, Drop(n), UNCHANGED <<frames, upvals, open>>
  PROVE  Works(n)
  BY StackType DEF Drop, Works

\* Leaving everything.
LEMMA RestWorks ==
  ASSUME TypeOK, NEW n \in Nat, UNCHANGED <<stack, top, frames, upvals, open>>
  PROVE  Works(n)
  BY StackType DEF Works

\* NULL, DUP, POP, CONST, GET_LOCAL.
LEMMA MovesWork ==
  ASSUME IInv, NullOp \/ Dup \/ Pop \/ ConstOp \/ GetLocal \/ GetVar \/ GetUpval
  PROVE  Worked
<1> USE DEF IInv
<1>1. CASE NullOp
  <2>1. PICK i \in At({"NULL"}) : Replace(0, NullVal) /\ Plain1
    BY <1>1 DEF NullOp
  <2> QED BY <2>1, AtNow, AtOK, TakesNone, StackType, PlainKeeps, ReplaceWorks DEF Worked
<1>2. CASE Dup
  <2>1. PICK i \in At({"DUP"}) : Replace(0, Peek(0)) /\ Plain1
    BY <1>2 DEF Dup
  <2> QED BY <2>1, AtNow, AtOK, TakesNone, StackType, PlainKeeps, ReplaceWorks DEF Worked
<1>3. CASE Pop
  <2>1. PICK i \in At({"POP"}) : Drop(1) /\ Plain1
    BY <1>3 DEF Pop
  <2>2. 1 \in 0 .. top
    BY <2>1, AtOK, StackType DEF Meaningful, Operands
  <2> QED BY <2>1, <2>2, AtNow, AtOK, TakesOne, PlainKeeps, DropWorks DEF Worked
<1>4. CASE ConstOp
  <2>1. PICK i \in At({"CONST"}) : Replace(0, Const(i)) /\ Plain
    BY <1>4 DEF ConstOp
  <2> QED BY <2>1, AtNow, AtOK, TakesNone, StackType, PlainKeeps, ReplaceWorks DEF Worked
<1>5. CASE GetLocal
  <2>1. PICK i \in At({"GET_LOCAL"}) : Replace(0, stack[Frame.slots + i.arg]) /\ Plain
    BY <1>5 DEF GetLocal
  <2> QED BY <2>1, AtNow, AtOK, TakesNone, StackType, PlainKeeps, ReplaceWorks DEF Worked
<1>6. CASE GetVar
  <2>1. PICK i \in At({"GET_VAR"}) : Replace(0, globals[Name(i)]) /\ Plain
    BY <1>6 DEF GetVar
  <2> QED BY <2>1, AtNow, AtOK, TakesNone, StackType, PlainKeeps, ReplaceWorks DEF Worked
<1>7. CASE GetUpval
  <2>1. PICK i \in At({"GET_UPVAL"}) : Replace(0, ValueOf(Upval(i))) /\ Plain
    BY <1>7 DEF GetUpval
  <2> QED BY <2>1, AtNow, AtOK, TakesNone, StackType, PlainKeeps, ReplaceWorks DEF Worked
<1> QED BY <1>1, <1>2, <1>3, <1>4, <1>5, <1>6, <1>7

\* The instructions that compute.
LEMMA ComputingWorks ==
  ASSUME IInv, Calculate \/ Compare \/ Neg \/ ToStr \/ Joined \/ Equiv
  PROVE  Worked
<1> USE DEF IInv
<1>1. CASE Calculate
  <2>1. PICK i \in At(Arithmetic \cup Integral) :
          /\ ~Concatenates(i)
          /\ Replace(2, IntVal(Calc(i.op, Peek(1)[2], Peek(0)[2])))
          /\ Plain1
    BY <1>1 DEF Calculate
  <2>2. i.op \in Arithmetic \cup Integral /\ Ints(2)
    BY <2>1, AtOK DEF Meaningful
  <2>3. 2 \in 0 .. top
    BY <2>2, StackType DEF Ints, Operands
  <2>4. Takes(i) = 2 /\ i.op \notin {"RET", "CLOSE", "SET_LOCAL", "SET_UPVAL"}
    BY <2>2, TakesTwo DEF Arithmetic, Integral
  <2> QED BY <2>1, <2>3, <2>4, AtNow, PlainKeeps, ReplaceWorks DEF Worked
<1>2. CASE Compare
  <2>1. PICK i \in At(Comparing) :
          Replace(2, BoolVal(Holds(i.op, Peek(1)[2], Peek(0)[2]))) /\ Plain1
    BY <1>2 DEF Compare
  <2>2. i.op \in Comparing /\ Ints(2)
    BY <2>1, AtOK DEF Meaningful
  <2>3. 2 \in 0 .. top
    BY <2>2, StackType DEF Ints, Operands
  <2>4. Takes(i) = 2 /\ i.op \notin {"RET", "CLOSE", "SET_LOCAL", "SET_UPVAL"}
    BY <2>2, TakesTwo DEF Comparing
  <2> QED BY <2>1, <2>3, <2>4, AtNow, PlainKeeps, ReplaceWorks DEF Worked
<1>3. CASE Neg
  <2>1. PICK i \in At({"NEG"}) : Replace(1, IntVal(-Peek(0)[2])) /\ Plain1
    BY <1>3 DEF Neg
  <2>2. i.op = "NEG" /\ 1 \in 0 .. top
    BY <2>1, AtOK, StackType DEF Meaningful, Ints, Operands
  <2> QED BY <2>1, <2>2, AtNow, TakesOne, PlainKeeps, ReplaceWorks DEF Worked
<1>4. CASE ToStr
  <2>1. PICK i \in At({"TO_STR"}) : Replace(1, StrVal(Text(Peek(0)))) /\ Plain1
    BY <1>4 DEF ToStr
  <2>2. i.op = "TO_STR" /\ 1 \in 0 .. top
    BY <2>1, AtOK, StackType DEF Meaningful, Known, Operands
  <2> QED BY <2>1, <2>2, AtNow, TakesOne, PlainKeeps, ReplaceWorks DEF Worked
<1>5. CASE Joined
  <2>1. PICK i \in At({"CONCAT", "ADD"}) :
          Concatenates(i) /\ Replace(2, StrVal(Peek(1)[2] \o Peek(0)[2])) /\ Plain1
    BY <1>5 DEF Joined
  <2>2. i.op \in {"CONCAT", "ADD"} /\ Strs(2)
    BY <2>1, AtOK DEF Meaningful, Concatenates
  <2>3. 2 \in 0 .. top
    BY <2>2, StackType DEF Strs, Operands
  <2>4. Takes(i) = 2
    BY <2>2, TakesTwo DEF Arithmetic
  <2> QED BY <2>1, <2>2, <2>3, <2>4, AtNow, PlainKeeps, ReplaceWorks DEF Worked
<1>6. CASE Equiv
  <2>1. PICK i \in At({"EQUIV"}), answer \in BOOLEAN, slot \in {top - 1, top - 2} :
          /\ stack' = [stack EXCEPT ![slot] = BoolVal(answer)]
          /\ top' = top - 1
          /\ Plain1
    BY <1>6, EquivIs
  <2>2. i.op = "EQUIV" /\ 2 \in 0 .. top /\ Takes(i) = 2
    BY <2>1, AtOK, StackType, TakesTwo DEF Meaningful, Known, Operands
  <2>3. ASSUME NEW x \in OnStack, x < top - 2 PROVE stack'[x] = stack[x]
    <3>1. x # slot
      BY <2>3, StackType DEF OnStack
    <3> QED BY <2>1, <3>1, StackType
  <2>4. UNCHANGED <<frames, upvals, open>>
    BY <2>1, PlainKeeps
  <2>5. top' \in Int /\ top' >= top - 2
    BY <2>1, StackType
  <2>6. Works(2)
    BY <2>3, <2>4, <2>5 DEF Works
  <2> QED BY <2>1, <2>2, <2>6, AtNow DEF Worked
<1> QED BY <1>1, <1>2, <1>3, <1>4, <1>5, <1>6

\* The jumps, the globals, the rotations.
LEMMA OthersWork ==
  ASSUME IInv, Goto \/ Jmp \/ Branch \/ DefVar \/ SetVar \/ Rotate
  PROVE  Worked
<1> USE DEF IInv
<1>1. CASE Goto
  <2>1. PICK i \in At({"GOTO"}) : Plain /\ UNCHANGED <<stack, top>>
    BY <1>1 DEF Goto
  <2> QED BY <2>1, AtNow, AtOK, TakesNone, PlainKeeps, RestWorks DEF Worked
<1>2. CASE Jmp
  <2>1. PICK i \in At({"JMP"}) : Plain /\ UNCHANGED <<stack, top>>
    BY <1>2 DEF Jmp
  <2> QED BY <2>1, AtNow, AtOK, TakesNone, PlainKeeps, RestWorks DEF Worked
<1>3. CASE Branch
  <2>1. PICK i \in At({"OR", "AND"}) : Plain /\ (UNCHANGED <<stack, top>> \/ Drop(1))
    BY <1>3 DEF Branch
  <2>2. i.op \in {"OR", "AND"} /\ 1 \in 0 .. top /\ Takes(i) = 1
    BY <2>1, AtOK, StackType, TakesOne DEF Meaningful, Known, Operands
  <2> QED BY <2>1, <2>2, AtNow, PlainKeeps, RestWorks, DropWorks DEF Worked
<1>4. CASE DefVar
  <2>1. PICK i \in At({"DEF_VAR"}) : Drop(1) /\ UNCHANGED <<frames, heap>>
    BY <1>4 DEF DefVar
  <2>2. 1 \in 0 .. top
    BY <2>1, AtOK, StackType DEF Meaningful, Operands
  <2> QED BY <2>1, <2>2, AtNow, AtOK, TakesOne, DropWorks DEF Worked, heap
<1>5. CASE SetVar
  <2>1. PICK i \in At({"SET_VAR"}) : UNCHANGED <<stack, top, frames, heap>>
    BY <1>5 DEF SetVar
  <2> QED BY <2>1, AtNow, AtOK, TakesNone, RestWorks DEF Worked, heap
<1>6. CASE Rotate
  <2>1. PICK i \in At(DOMAIN Rotations) :
          /\ stack' = [x \in OnStack |->
                         IF x = top - Rotations[i.op] THEN Peek(0)
                         ELSE IF x \in top - Rotations[i.op] + 1 .. top - 1 THEN stack[x - 1]
                         ELSE stack[x]]
          /\ Plain1 /\ UNCHANGED top
    BY <1>6 DEF Rotate
  <2>2. i.op \in DOMAIN Rotations /\ Takes(i) = Rotations[i.op]
    BY <2>1, AtOK, TakesRotated
  <2>3. /\ Rotations[i.op] \in Nat
        /\ i.op \notin {"RET", "CLOSE", "SET_LOCAL", "SET_UPVAL"}
    BY <2>2 DEF Rotations
  <2>4. \A x \in OnStack : x < top - Rotations[i.op] => stack'[x] = stack[x]
    <3> DEFINE r == Rotations[i.op]
    <3>1. r \in Nat /\ top \in Int
      BY <2>3, StackType
    <3>2. \A x \in OnStack : x < top - r => x # top - r /\ x \notin top - r + 1 .. top - 1
      BY <3>1 DEF OnStack
    <3> QED BY <2>1, <3>2
  <2>5. Works(Rotations[i.op])
    BY <2>1, <2>3, <2>4, StackType, PlainKeeps DEF Works
  <2> QED BY <2>1, <2>2, <2>3, <2>5, AtNow DEF Worked
<1> QED BY <1>1, <1>2, <1>3, <1>4, <1>5, <1>6

\* CLOSURE and the calls that open no frame.
LEMMA CallsWork ==
  ASSUME IInv, NewClosure \/ CallNative \/ CallOther
  PROVE  Worked
<1> USE DEF IInv
<1>1. CASE NewClosure
  <2>1. PICK i \in At({"CLOSURE"}) :
          Replace(0, CloVal(Len(closures) + 1)) /\ UNCHANGED <<frames, upvals, open>>
    BY <1>1 DEF NewClosure
  <2> QED BY <2>1, AtNow, AtOK, TakesNone, StackType, ReplaceWorks DEF Worked
<1>2. CASE CallNative
  <2>1. PICK i \in At({"CALL"}) : Replace(i.arg + 1, NullVal) /\ UNCHANGED <<frames, heap>>
    BY <1>2 DEF CallNative
  <2>2. i.op = "CALL" /\ i.arg \in 0 .. top - 1
    BY <2>1, AtOK DEF Meaningful
  <2>3. i.arg + 1 \in 0 .. top
    BY <2>2, StackType
  <2> QED BY <2>1, <2>2, <2>3, AtNow, TakesArgs, ReplaceWorks DEF Worked, heap
<1>3. CASE CallOther
  <2>1. PICK i \in At({"CALL"}) : Plain /\ UNCHANGED <<stack, top>>
    BY <1>3 DEF CallOther
  <2>2. i.op = "CALL" /\ i.arg \in 0 .. top - 1
    BY <2>1, AtOK DEF Meaningful
  <2>3. i.arg + 1 \in Nat
    BY <2>2, StackType
  <2> QED BY <2>1, <2>2, <2>3, AtNow, TakesArgs, PlainKeeps, RestWorks DEF Worked
<1> QED BY <1>1, <1>2, <1>3

(***************************************************************************)
(* The other steps.                                                        *)
(***************************************************************************)
\* Steps that leave the stack, the frames and the upvalues as they were.
Rests ==
  UNCHANGED <<stack, top, frames, upvals, open>> /\ (status' = "running" => status = "running")

\* The steps that end the run, and captures of what is an upvalue already.
LEMMA StopsRest ==
  ASSUME DivideByZero \/ Undefined \/ NoCase \/ Misbehave \/ ShareUpvalue \/ InheritUpvalue
  PROVE  Rests
  BY DEF DivideByZero, Undefined, NoCase, Misbehave, ShareUpvalue, InheritUpvalue, Capture,
         heap, Rests

\* What a step is to the frames: the instructions that take their operands and
\* leave the rest, and those that do more.
LEMMA StepKinds ==
  ASSUME IInv, [Next]_vars
  PROVE  \/ Worked \/ Rests
         \/ SetLocal \/ SetUpval \/ NewUpvalue \/ Close \/ CallClosure \/ Return \/ Finish
<1>1. CASE NullOp \/ Dup \/ Pop \/ ConstOp \/ GetLocal \/ GetVar \/ GetUpval
  BY <1>1, MovesWork
<1>2. CASE Calculate \/ Compare \/ Neg \/ ToStr \/ Joined \/ Equiv
  BY <1>2, ComputingWorks
<1>3. CASE Goto \/ Jmp \/ Branch \/ DefVar \/ SetVar \/ Rotate
  BY <1>3, OthersWork
<1>4. CASE NewClosure \/ CallNative \/ CallOther
  BY <1>4, CallsWork
<1>5. CASE DivideByZero \/ Undefined \/ NoCase \/ Misbehave \/ ShareUpvalue \/ InheritUpvalue
  BY <1>5, StopsRest
<1>6. CASE UNCHANGED vars
  BY <1>6 DEF vars, heap, Rests
<1> QED BY <1>1, <1>2, <1>3, <1>4, <1>5, <1>6 DEF Next

(***************************************************************************)
(* The frames.                                                             *)
(***************************************************************************)
\* The frames are numbered from 1.
LEMMA FramesNumbered ==
  ASSUME TypeOK
  PROVE  DOMAIN frames = 1 .. Len(frames) /\ Len(frames) \in Nat
<1> DEFINE F == [clo : DOMAIN closures, ip : Nat, slots : OnStack]
<1>1. frames \in Seq(F)
  BY DEF TypeOK
<1> HIDE DEF F
<1> QED BY <1>1

\* Slot 0 of a frame, and that of the frames around it below it.
LEMMA FramesBelow ==
  ASSUME TypeOK, frames # <<>>, FramesNest
  PROVE  /\ \A n \in 1 .. Len(frames) : frames[n].slots \in OnStack
         /\ \A n \in 1 .. Len(frames) - 1 : frames[n].slots < Frame.slots
<1> DEFINE m == Len(frames)
           S(n) == frames[n].slots
           F == [clo : DOMAIN closures, ip : Nat, slots : OnStack]
<1>1. m \in Nat \ {0} /\ Frame = frames[m]
  BY CurrentOK DEF Frame, Last
<1>2. \A n \in 1 .. m : S(n) \in OnStack /\ S(n) \in Int
  <2>1. frames \in Seq(F)
    BY DEF TypeOK
  <2>2. ASSUME NEW n \in 1 .. m PROVE frames[n] \in F
    <3> HIDE DEF F
    <3> QED BY <2>1, <2>2, ElementOfSeq
  <2> QED BY <2>2, StackType DEF OnStack
<1>3. \A n \in 1 .. m - 1 : S(n) < S(n + 1)
  BY DEF FramesNest
<1> DEFINE Bad == {d \in Nat : d < m - 1 /\ ~ (S(m - 1 - d) < S(m))}
<1>4. Bad = {}
  <2>1. SUFFICES ASSUME Bad # {} PROVE FALSE
    OBVIOUS
  <2>2. PICK d \in Bad : \A e \in Bad : d <= e
    <3>1. Bad \subseteq Nat
      OBVIOUS
    <3> HIDE DEF Bad
    <3> QED BY <2>1, <3>1, MinExists
  <2>3. d \in Nat /\ d < m - 1 /\ ~ (S(m - 1 - d) < S(m))
    BY <2>2
  <2>4. d - 1 \notin Bad
    <3> HIDE DEF Bad
    <3> QED BY <2>2, <2>3
  <2> HIDE DEF S, m
  <2>5. m - 1 - d \in 1 .. m - 1 /\ (m - 1 - d) + 1 = m - d /\ m - d \in 1 .. m
    BY <1>1, <2>3
  <2>6. S(m - 1 - d) < S(m - d)
    BY <1>3, <2>5
  <2>7. CASE d = 0
    BY <1>1, <2>3, <2>6, <2>7
  <2>8. CASE d # 0
    <3>1. d - 1 \in Nat /\ d - 1 < m - 1 /\ m - 1 - (d - 1) = m - d
      BY <1>1, <2>3, <2>8
    <3>2. S(m - d) < S(m)
      BY <2>4, <3>1
    <3>3. S(m - 1 - d) \in Int /\ S(m - d) \in Int /\ S(m) \in Int
      <4>1. m \in 1 .. m /\ m - 1 - d \in 1 .. m
        BY <1>1, <2>5
      <4> QED BY <1>2, <2>5, <4>1
    <3> QED BY <2>3, <2>6, <3>2, <3>3
  <2> QED BY <2>7, <2>8
<1>5. ASSUME NEW n \in 1 .. m - 1 PROVE S(n) < S(m)
  <2> HIDE DEF S, m
  <2>1. m - 1 - n \in Nat /\ m - 1 - n < m - 1 /\ m - 1 - (m - 1 - n) = n
    BY <1>1
  <2> QED BY <1>4, <2>1
<1> QED BY <1>1, <1>2, <1>5

\* A step that keeps the frames and their slots 0.
LEMMA NestStays ==
  ASSUME FramesNest, UNCHANGED frames,
         \A n \in DOMAIN frames : stack'[frames[n].slots] = stack[frames[n].slots]
  PROVE  FramesNest'
  BY DEF FramesNest

\* A call puts a frame on the others and leaves the caller at what follows it.
LEMMA CallPushes ==
  ASSUME IInv, CallClosure
  PROVE  /\ status = "running" /\ pend = 0 /\ frames # <<>> /\ Len(frames) \in Nat \ {0}
         /\ Now.op = "CALL" /\ Now.arg \in 0 .. top - 1 /\ IsClo(Callee(Now))
         /\ Len(frames') = Len(frames) + 1 /\ DOMAIN frames' = 1 .. Len(frames) + 1
         /\ frames'[Len(frames) + 1]
              = [clo |-> Callee(Now)[2], ip |-> 0, slots |-> top - Now.arg - 1]
         /\ frames'[Len(frames)].slots = Frame.slots /\ frames'[Len(frames)].clo = Frame.clo
         /\ frames'[Len(frames)].ip = Now.end
         /\ \A n \in 1 .. Len(frames) - 1 : frames'[n] = frames[n]
<1> USE DEF IInv
<1>1. PICK i \in At({"CALL"}) :
        /\ IsClo(Callee(i))
        /\ frames' = Append([frames EXCEPT ![Len(frames)].ip = i.end],
                            [clo |-> Callee(i)[2], ip |-> 0, slots |-> top - i.arg - 1])
  BY DEF CallClosure
<1>2. /\ i = Now /\ status = "running" /\ pend = 0 /\ i.op = "CALL" /\ frames # <<>>
      /\ i.arg \in 0 .. top - 1
  BY <1>1, AtNow, AtOK DEF Meaningful
<1> DEFINE F == [clo : DOMAIN closures, ip : Nat, slots : OnStack]
           m == Len(frames)
           g == [frames[m] EXCEPT !.ip = i.end]
           f == [clo |-> Callee(i)[2], ip |-> 0, slots |-> top - i.arg - 1]
<1>3. frames \in Seq(F) /\ m \in Nat \ {0} /\ Frame = frames[m] /\ frames[m] \in F
  BY <1>2, CurrentOK DEF TypeOK, Frame, Last
<1>4. g.slots = frames[m].slots /\ g.clo = frames[m].clo /\ g.ip = i.end
  BY <1>3
<1>5. frames' = Append([frames EXCEPT ![m] = g], f)
  BY <1>1
<1>6. /\ Len(frames') = m + 1 /\ DOMAIN frames' = 1 .. m + 1
      /\ frames'[m + 1] = f
      /\ \A n \in 1 .. m : frames'[n] = IF n = m THEN g ELSE frames[n]
  <2> DEFINE S == F \cup {f, g}
             fs == [frames EXCEPT ![m] = g]
  <2>1. frames \in Seq(S)
    <3> HIDE DEF f, g, F
    <3> QED BY <1>3, SeqMonotonic
  <2>2. f \in S /\ g \in S /\ m \in 1 .. Len(frames)
    BY <1>3
  <2> HIDE DEF f, g, S
  <2>3. /\ fs \in Seq(S) /\ Len(fs) = m
        /\ \A n \in 1 .. m : fs[n] = IF n = m THEN g ELSE frames[n]
    BY <2>1, <2>2, ExceptSeq
  <2> HIDE DEF fs, m
  <2>4. frames' = Append(fs, f)
    BY <1>5 DEF fs, m
  <2>5. /\ frames' \in Seq(S) /\ Len(frames') = m + 1 /\ frames'[m + 1] = f
        /\ \A n \in 1 .. m : frames'[n] = fs[n]
    BY <2>2, <2>3, <2>4, AppendProperties
  <2>6. DOMAIN frames' = 1 .. m + 1
    BY <2>5
  <2> QED BY <2>3, <2>5, <2>6
<1>7. frames'[m] = g /\ \A n \in 1 .. m - 1 : frames'[n] = frames[n]
  <2> HIDE DEF m, g, f
  <2>1. m \in 1 .. m /\ \A n \in 1 .. m - 1 : n \in 1 .. m /\ n # m
    BY <1>3
  <2> QED BY <1>6, <2>1
<1> QED BY <1>1, <1>2, <1>3, <1>4, <1>6, <1>7

\* A frame that is opened.
LEMMA NestGrows ==
  ASSUME IInv, FramesNest, KeepsToFrame, CallClosure
  PROVE  FramesNest'
<1> USE DEF IInv
<1>1. UNCHANGED stack
  BY DEF CallClosure
<1> DEFINE m == Len(frames)
           i == Now
<1>2. /\ status = "running" /\ pend = 0 /\ i.op = "CALL" /\ i.arg \in 0 .. top - 1
      /\ IsClo(Callee(i)) /\ m \in Nat \ {0} /\ Frame = frames[m]
  BY CallPushes DEF Frame, Last
<1>3. Takes(i) = i.arg + 1 /\ top - Takes(i) > Frame.slots
  BY <1>2, TakesArgs DEF KeepsToFrame, Now
<1>4. top - i.arg - 1 > Frame.slots
  <2>1. top \in Int /\ i.arg \in Int
    BY <1>2, StackType
  <2> QED BY <1>3, <2>1
<1>5. /\ Len(frames') = m + 1 /\ DOMAIN frames' = 1 .. m + 1
      /\ frames'[m + 1].clo = Callee(i)[2] /\ frames'[m + 1].slots = top - i.arg - 1
      /\ \A n \in 1 .. m : frames'[n].slots = frames[n].slots /\ frames'[n].clo = frames[n].clo
  <2>1. \A n \in 1 .. m : n = m \/ n \in 1 .. m - 1
    <3> HIDE DEF m
    <3> QED BY <1>2
  <2> QED BY <1>2, <2>1, CallPushes
<1>6. stack[top - i.arg - 1] = CloVal(Callee(i)[2])
  <2>1. i.arg \in Nat /\ i.arg < top /\ top - 1 - i.arg = top - i.arg - 1
    BY <1>2, StackType
  <2>2. Callee(i) = stack[top - i.arg - 1] /\ Callee(i) \in Values
    BY <2>1, PeekOK DEF Callee, Peek
  <2>3. Callee(i) = CloVal(Callee(i)[2])
    BY <1>2, <2>2 DEF IsClo, CloVal, Values, NullVal, NativeVal, Junk
  <2> QED BY <2>2, <2>3
<1>7. ASSUME NEW n \in DOMAIN frames'
      PROVE  stack'[frames'[n].slots] = CloVal(frames'[n].clo)
  <2>1. CASE n = m + 1
    BY <1>1, <1>5, <1>6, <2>1
  <2>2. CASE n \in 1 .. m
    <3>1. frames'[n].slots = frames[n].slots /\ frames'[n].clo = frames[n].clo
      BY <1>5, <2>2
    <3>2. n \in DOMAIN frames
      BY <2>2, FramesNumbered
    <3> QED BY <1>1, <3>1, <3>2 DEF FramesNest
  <2> QED BY <1>2, <1>5, <2>1, <2>2
<1>8. ASSUME NEW n \in 1 .. Len(frames') - 1
      PROVE  frames'[n].slots < frames'[n + 1].slots
  <2>1. n \in 1 .. m
    BY <1>2, <1>5
  <2>2. CASE n = m
    <3>1. frames'[n].slots = Frame.slots
      BY <1>2, <1>5, <2>1, <2>2
    <3>2. frames'[n + 1].slots = top - i.arg - 1
      BY <1>5, <2>2
    <3> QED BY <1>4, <3>1, <3>2
  <2>3. CASE n # m
    <3>1. n + 1 \in 1 .. m /\ n \in 1 .. m - 1
      BY <1>2, <2>1, <2>3
    <3>2. frames'[n].slots = frames[n].slots /\ frames'[n + 1].slots = frames[n + 1].slots
      BY <1>5, <2>1, <3>1
    <3> QED BY <3>1, <3>2 DEF FramesNest
  <2> QED BY <2>2, <2>3
<1> QED BY <1>7, <1>8 DEF FramesNest

\* A return takes the last frame and leaves the others.
LEMMA ReturnPops ==
  ASSUME IInv, Return
  PROVE  /\ frames # <<>> /\ Len(frames) \in Nat \ {0} /\ Len(frames) > 1
         /\ Len(frames') = Len(frames) - 1 /\ DOMAIN frames' = 1 .. Len(frames) - 1
         /\ \A n \in 1 .. Len(frames) - 1 : frames'[n] = frames[n]
<1> USE DEF IInv
<1>1. PICK i \in At({"RET"}) : Len(frames) > 1 /\ frames' = Front(frames)
  BY DEF Return
<1>2. frames # <<>>
  BY <1>1, AtOK
<1> DEFINE F == [clo : DOMAIN closures, ip : Nat, slots : OnStack]
           m == Len(frames)
<1>3. frames \in Seq(F) /\ m \in Nat \ {0} /\ m > 1
  BY <1>1, <1>2, CurrentOK DEF TypeOK
<1>4. /\ Len(frames') = m - 1 /\ DOMAIN frames' = 1 .. m - 1
      /\ \A n \in 1 .. m - 1 : frames'[n] = frames[n]
  <2> HIDE DEF F
  <2>1. frames' = SubSeq(frames, 1, m - 1)
    BY <1>1 DEF Front
  <2>2. \A n \in 1 .. m - 1 : frames[n] \in F
    BY <1>3, ElementOfSeq
  <2>3. frames' \in Seq(F) /\ Len(frames') = m - 1 /\ \A n \in 1 .. m - 1 : frames'[n] = frames[n]
    BY <1>3, <2>1, <2>2, SubSeqProperties
  <2> QED BY <2>3
<1> QED BY <1>2, <1>3, <1>4

\* A frame that is left.
LEMMA NestShrinks ==
  ASSUME IInv, FramesNest, Return
  PROVE  FramesNest'
<1> USE DEF IInv
<1> DEFINE m == Len(frames)
<1>1. stack' = [stack EXCEPT ![Frame.slots] = Peek(0)]
  BY DEF Return
<1>2. /\ frames # <<>> /\ m \in Nat \ {0} /\ m > 1
      /\ Len(frames') = m - 1 /\ DOMAIN frames' = 1 .. m - 1
      /\ \A n \in 1 .. m - 1 : frames'[n] = frames[n]
  BY ReturnPops
<1>3. ASSUME NEW n \in 1 .. m - 1
      PROVE  stack'[frames[n].slots] = CloVal(frames[n].clo)
  <2>1. frames[n].slots \in OnStack /\ frames[n].slots < Frame.slots
    BY <1>2, FramesBelow
  <2>2. frames[n].slots # Frame.slots
    BY <2>1, StackType DEF OnStack
  <2>3. stack'[frames[n].slots] = stack[frames[n].slots]
    BY <1>1, <2>1, <2>2, StackType
  <2>4. n \in DOMAIN frames
    BY <1>2, FramesNumbered
  <2> QED BY <2>3, <2>4 DEF FramesNest
<1>4. \A n \in 1 .. Len(frames') - 1 : frames'[n].slots < frames'[n + 1].slots
  <2>1. \A n \in 1 .. (m - 1) - 1 : n \in 1 .. m - 1 /\ n + 1 \in 1 .. m - 1
    BY <1>2
  <2> QED BY <1>2, <2>1 DEF FramesNest
<1> QED BY <1>2, <1>3, <1>4 DEF FramesNest

\* Code that keeps to its frame keeps the frames nested.
LEMMA NestKept ==
  ASSUME IInv, FramesNest, KeepsToFrame, [Next]_vars
  PROVE  FramesNest'
<1> USE DEF IInv
<1>1. CASE Worked
  <2>1. /\ status = "running" /\ pend = 0 /\ Works(Takes(Now)) /\ frames # <<>>
        /\ top - Takes(Now) > Frame.slots
    BY <1>1 DEF Worked, KeepsToFrame, Now, TypeOK
  <2>2. ASSUME NEW n \in DOMAIN frames
        PROVE  stack'[frames[n].slots] = stack[frames[n].slots]
    <3> DEFINE T == Takes(Now)
               s == frames[n].slots
    <3>1. n \in 1 .. Len(frames) /\ Len(frames) \in Nat
      BY FramesNumbered
    <3>2. s \in OnStack /\ s \in Int
      BY <2>1, <3>1, FramesBelow, StackType DEF OnStack
    <3>3. s = Frame.slots \/ s < Frame.slots
      BY <2>1, <3>1, FramesBelow DEF Frame, Last
    <3>4. Frame.slots \in Int /\ top \in Int /\ T \in Nat
      BY <2>1, CurrentOK, StackType DEF OnStack, Works
    <3>5. top - T > Frame.slots /\ \A x \in OnStack : x < top - T => stack'[x] = stack[x]
      BY <2>1 DEF Works
    <3> HIDE DEF T, s
    <3>6. s < top - T
      BY <3>2, <3>3, <3>4, <3>5
    <3>7. stack'[s] = stack[s]
      BY <3>2, <3>5, <3>6
    <3> QED BY <3>7 DEF s
  <2> QED BY <2>1, <2>2, NestStays DEF Works
<1>2. CASE Rests \/ NewUpvalue \/ Close
  BY <1>2, NestStays DEF Rests, NewUpvalue, Capture, Close, Drop
<1>3. CASE SetLocal
  <2>1. PICK i \in At({"SET_LOCAL"}) :
          stack' = [stack EXCEPT ![Frame.slots + i.arg] = Peek(0)] /\ UNCHANGED frames
    BY <1>3 DEF SetLocal, Plain
  <2>2. /\ i = Now /\ status = "running" /\ pend = 0 /\ i.op = "SET_LOCAL"
        /\ frames # <<>>
    BY <2>1, AtNow, AtOK
  <2>3. Frame.slots + i.arg \in Frame.slots + 1 .. top - 1
    BY <2>2 DEF KeepsToFrame, Now
  <2>4. ASSUME NEW n \in DOMAIN frames
        PROVE  stack'[frames[n].slots] = stack[frames[n].slots]
    <3>1. n \in 1 .. Len(frames) /\ Len(frames) \in Nat
      BY FramesNumbered
    <3>2. frames[n].slots \in OnStack /\ frames[n].slots \in Int
      BY <2>2, <3>1, FramesBelow, StackType DEF OnStack
    <3>3. frames[n].slots = Frame.slots \/ frames[n].slots < Frame.slots
      BY <2>2, <3>1, FramesBelow DEF Frame, Last
    <3>4. Frame.slots \in Int /\ top \in Int
      BY <2>2, CurrentOK, StackType DEF OnStack
    <3>5. frames[n].slots # Frame.slots + i.arg
      BY <2>3, <3>2, <3>3, <3>4
    <3> QED BY <2>1, <3>2, <3>5, StackType
  <2> QED BY <2>1, <2>4, NestStays
<1>4. CASE SetUpval
  <2>1. PICK i \in At({"SET_UPVAL"}) :
          /\ UNCHANGED stack \/ stack' = [stack EXCEPT ![upvals[Upval(i)].loc] = Peek(0)]
          /\ UNCHANGED frames
    BY <1>4 DEF SetUpval
  <2>2. /\ i = Now /\ status = "running" /\ pend = 0 /\ i.op = "SET_UPVAL"
        /\ HasUpval(i) /\ frames # <<>>
    BY <2>1, AtNow, AtOK DEF Meaningful
  <2>3. \A n \in DOMAIN frames : upvals[Upval(i)].loc # frames[n].slots
    BY <2>2 DEF KeepsToFrame, Now
  <2>4. \A n \in DOMAIN frames : frames[n].slots \in OnStack
    <3> QED BY <2>2, FramesNumbered, FramesBelow
  <2>5. \A n \in DOMAIN frames : stack'[frames[n].slots] = stack[frames[n].slots]
    BY <2>1, <2>3, <2>4, StackType
  <2> QED BY <2>1, <2>5, NestStays
<1>5. CASE CallClosure
  BY <1>5, NestGrows
<1>6. CASE Return
  BY <1>6, NestShrinks
<1>7. CASE Finish
  <2>1. frames' = <<>>
    BY <1>7 DEF Finish
  <2> QED BY <2>1 DEF FramesNest
<1> QED BY <1>1, <1>2, <1>3, <1>4, <1>5, <1>6, <1>7, StepKinds

\* The machine starts in the script's frame.
LEMMA InitNest == Init => FramesNest
<1> SUFFICES ASSUME Init PROVE FramesNest
  OBVIOUS
<1>1. 0 \in OnStack
  BY SizesAssumption DEF OnStack
<1>2. stack[0] = CloVal(1) /\ frames = <<[clo |-> 1, ip |-> 0, slots |-> 0]>>
  BY <1>1 DEF Init
<1> QED BY <1>2 DEF FramesNest

\* Frames stay nested as long as the code keeps to its frame.
THEOREM FramesStayNested == Spec /\ []KeepsToFrame => []FramesNest
  BY InitNest, NestKept, Invariance, PTL DEF Spec

(***************************************************************************)
(* The caller's part of the stack.                                         *)
(***************************************************************************)
\* What CallerKept says of a step.
CallerLeft == \A i \in 0 .. Frame.slots - 1 : stack'[i] # stack[i] => Fetch = "SET_UPVAL"

\* Every step leaves the caller's values alone, SET_UPVAL excepted.
LEMMA CallerLeftAlone ==
  ASSUME IInv, KeepsToFrame, [Next]_vars
  PROVE  [CallerLeft]_vars
<1> USE DEF IInv
<1>1. CASE Rests \/ NewUpvalue \/ Close \/ CallClosure \/ Finish
  <2>1. UNCHANGED stack
    BY <1>1 DEF Rests, NewUpvalue, Capture, Close, CallClosure, Finish, Drop
  <2> QED BY <2>1 DEF CallerLeft
<1>2. CASE SetUpval
  BY <1>2, AtOK DEF SetUpval, CallerLeft
<1>3. ASSUME frames # <<>>
      PROVE  /\ Frame.slots \in Nat /\ top \in Int
             /\ \A i \in 0 .. Frame.slots - 1 : i \in OnStack
  BY <1>3, CurrentOK, StackType DEF OnStack
<1>4. CASE Worked
  <2>1. /\ status = "running" /\ pend = 0 /\ Works(Takes(Now)) /\ frames # <<>>
        /\ top - Takes(Now) > Frame.slots
    BY <1>4 DEF Worked, KeepsToFrame, Now, TypeOK
  <2>2. ASSUME NEW i \in 0 .. Frame.slots - 1 PROVE stack'[i] = stack[i]
    <3> DEFINE T == Takes(Now)
    <3>1. T \in Nat /\ \A x \in OnStack : x < top - T => stack'[x] = stack[x]
      BY <2>1 DEF Works
    <3>2. top - T > Frame.slots
      BY <2>1
    <3> HIDE DEF T
    <3>3. i \in OnStack /\ i < top - T
      BY <1>3, <2>1, <2>2, <3>1, <3>2
    <3> QED BY <3>1, <3>3
  <2> QED BY <2>2 DEF CallerLeft
<1>5. CASE SetLocal
  <2>1. PICK i \in At({"SET_LOCAL"}) : stack' = [stack EXCEPT ![Frame.slots + i.arg] = Peek(0)]
    BY <1>5 DEF SetLocal
  <2>2. /\ i = Now /\ status = "running" /\ pend = 0 /\ i.op = "SET_LOCAL"
        /\ frames # <<>>
    BY <2>1, AtNow, AtOK
  <2>3. Frame.slots + i.arg \in Frame.slots + 1 .. top - 1
    BY <2>2 DEF KeepsToFrame, Now
  <2>4. ASSUME NEW x \in 0 .. Frame.slots - 1 PROVE stack'[x] = stack[x]
    <3>1. x # Frame.slots + i.arg /\ x \in OnStack
      BY <1>3, <2>2, <2>3
    <3> QED BY <2>1, <3>1, StackType
  <2> QED BY <2>4 DEF CallerLeft
<1>6. CASE Return
  <2>1. stack' = [stack EXCEPT ![Frame.slots] = Peek(0)] /\ frames # <<>>
    BY <1>6, AtOK DEF Return
  <2>2. ASSUME NEW x \in 0 .. Frame.slots - 1 PROVE stack'[x] = stack[x]
    <3>1. x # Frame.slots /\ x \in OnStack
      BY <1>3, <2>1
    <3> QED BY <2>1, <3>1, StackType
  <2> QED BY <2>2 DEF CallerLeft
<1> QED BY <1>1, <1>2, <1>4, <1>5, <1>6, StepKinds

\* Code that keeps to its frame touches its caller's values through upvalues
\* only.
THEOREM CallersKept == Spec /\ []KeepsToFrame => CallerKept
<1>1. IInv /\ KeepsToFrame /\ [Next]_vars
        => [\A i \in 0 .. Frame.slots - 1 : stack'[i] # stack[i] => Fetch = "SET_UPVAL"]_vars
  BY CallerLeftAlone DEF CallerLeft
<1> QED BY <1>1, Invariance, PTL DEF Spec, CallerKept

(***************************************************************************)
(* Captured variables.                                                     *)
(***************************************************************************)
\* No upvalue points above the stack; one that is closed points below it.
Below == \A u \in 1 .. Len(upvals) : upvals[u].loc < top

\* Where upvalues point.
LEMMA LocsOK ==
  ASSUME IInv
  PROVE  /\ DOMAIN upvals = 1 .. Len(upvals) /\ Len(upvals) \in Nat
         /\ \A u \in 1 .. Len(upvals) :
              upvals[u].loc = Closed \/ (upvals[u].loc \in OnStack /\ upvals[u].loc # Closed)
         /\ Closed < 0
<1>1. \A u \in 1 .. Len(upvals) : upvals[u] \in [loc : OnStack \cup {Closed}, closed : LiveValue]
  BY HeapType, ElementOfSeq DEF IInv
<1>2. Closed < 0 /\ Closed \notin OnStack
  BY StackType DEF OnStack, Closed, IInv
<1> QED BY <1>1, <1>2, HeapType DEF IInv

\* The list of open upvalues holds every one that is not closed.
LEMMA DanglingBelow ==
  ASSUME IInv
  PROVE  NoDanglingUpvalue <=> (status = "running" => Below)
<1>1. ASSUME NoDanglingUpvalue, status = "running", NEW u \in 1 .. Len(upvals)
      PROVE  upvals[u].loc < top
  <2>1. CASE upvals[u].loc = Closed
    BY <2>1, LocsOK, StackType DEF IInv, Closed
  <2>2. CASE upvals[u].loc # Closed
    <3>1. PICK i \in 1 .. Len(open) : open[i] = u
      BY <2>2, ListOK
    <3> QED BY <1>1, <3>1, HeapType DEF NoDanglingUpvalue, IInv
  <2> QED BY <2>1, <2>2
<1>2. ASSUME Below, NEW i \in DOMAIN open
      PROVE  upvals[open[i]].loc < top
  BY <1>2, HeapType DEF Below, IInv
<1> QED BY <1>1, <1>2 DEF Below, NoDanglingUpvalue

\* What close_upvalues does to an upvalue.
LEMMA CloseEach ==
  ASSUME IInv, NEW x \in Int, CloseFrom(x), NEW u \in 1 .. Len(upvals)
  PROVE  \/ upvals'[u] = upvals[u] /\ (upvals[u].loc = Closed \/ upvals[u].loc < x)
         \/ /\ upvals'[u] = [loc |-> Closed, closed |-> stack[upvals[u].loc]]
            /\ upvals[u].loc # Closed
<1> DEFINE n == Above(x)
<1>1. n \in 0 .. Len(open) /\ Len(open) \in Nat
  BY AboveOK, HeapType DEF IInv
<1>2. upvals'[u] = IF \E i \in 1 .. n : open[i] = u
                   THEN [loc |-> Closed, closed |-> stack[upvals[u].loc]] ELSE upvals[u]
  BY HeapType DEF CloseFrom, IInv
<1> HIDE DEF n
<1>3. CASE \E i \in 1 .. n : open[i] = u
  <2>1. PICK i \in 1 .. Len(open) : open[i] = u
    BY <1>1, <1>3
  <2>2. upvals[u].loc \in OnStack
    BY <2>1, LocType DEF Loc
  <2>3. upvals[u].loc # Closed
    BY <2>2, StackType DEF OnStack, Closed, IInv
  <2> QED BY <1>2, <1>3, <2>3
<1>4. CASE ~ \E i \in 1 .. n : open[i] = u
  <2>1. CASE upvals[u].loc = Closed
    BY <1>2, <1>4, <2>1
  <2>2. CASE upvals[u].loc # Closed
    <3>1. PICK i \in 1 .. Len(open) : open[i] = u
      BY <2>2, ListOK
    <3>2. ~ (i <= n)
      BY <1>1, <1>4, <3>1
    <3>3. ~ (Loc(i) >= x)
      BY <3>2, AboveOK DEF n
    <3>4. Loc(i) \in Int /\ Loc(i) = upvals[u].loc
      BY <3>1, LocType, StackType DEF OnStack, Loc, IInv
    <3>5. upvals[u].loc < x
      BY <3>3, <3>4
    <3> QED BY <1>2, <1>4, <3>5
  <2> QED BY <2>1, <2>2
<1> QED BY <1>3, <1>4

\* An instruction that takes its operands takes no captured variable.
LEMMA TakesNoCaptured ==
  ASSUME IInv, Below, LeavesCaptured, Worked, NEW u \in 1 .. Len(upvals)
  PROVE  upvals[u].loc = Closed \/ upvals[u].loc < top - Takes(Now)
<1> SUFFICES ASSUME upvals[u].loc # Closed PROVE upvals[u].loc < top - Takes(Now)
  OBVIOUS
<1> DEFINE T == Takes(Now)
           l == upvals[u].loc
<1>1. /\ status = "running" /\ pend = 0 /\ Now.op \notin {"CLOSE", "RET"} /\ T \in Nat
  BY DEF Worked, Works
<1>2. PICK n \in 1 .. Len(open) : open[n] = u
  BY ListOK
<1>3. n \in DOMAIN open /\ Loc(n) = l
  BY <1>2, HeapType DEF Loc, IInv
<1>4. \A k \in 1 .. T : l # top - k
  BY <1>1, <1>3 DEF LeavesCaptured, Now
<1>5. l \in Int /\ top \in Int /\ l < top
  BY LocsOK, StackType DEF OnStack, Below, IInv
<1> HIDE DEF T, l
<1>6. ASSUME ~ (l < top - T) PROVE FALSE
  <2>1. top - l \in 1 .. T /\ top - (top - l) = l
    BY <1>1, <1>5, <1>6
  <2> QED BY <1>4, <2>1
<1>7. l < top - T
  BY <1>6
<1> QED BY <1>7 DEF l, T

\* The step of a capture, as far as it matters here.
LEMMA CaptureStep ==
  ASSUME IInv, NewUpvalue
  PROVE  /\ status = "running" /\ pend > 0
         /\ Captured.local /\ Frame.slots + Captured.arg \in OnStack
         /\ UNCHANGED <<stack, top, frames, status>>
         /\ Len(upvals') = Len(upvals) + 1
         /\ upvals'[Len(upvals) + 1].loc = Frame.slots + Captured.arg
         /\ \A u \in 1 .. Len(upvals) : upvals'[u] = upvals[u]
<1>1. PICK c \in ToCapture(TRUE) :
        /\ upvals' = Append(upvals, [loc |-> Frame.slots + c.arg, closed |-> NullVal])
        /\ UNCHANGED <<stack, top, frames, status>>
  BY DEF NewUpvalue, Capture
<1>2. /\ c = Captured /\ c.local /\ status = "running" /\ pend > 0
      /\ Frame.slots + c.arg \in OnStack
  BY <1>1, ToCaptureOK DEF ToCapture
<1> DEFINE T == [loc : OnStack \cup {Closed}, closed : LiveValue]
           e == [loc |-> Frame.slots + c.arg, closed |-> NullVal]
<1>3. upvals \in Seq(T) /\ e \in T
  BY <1>2, ValuesMade, HeapType DEF IInv
<1>4. e.loc = Frame.slots + c.arg
  OBVIOUS
<1> HIDE DEF T, e
<1>5. upvals' = Append(upvals, e)
  BY <1>1 DEF e
<1>6. /\ Len(upvals') = Len(upvals) + 1 /\ upvals'[Len(upvals) + 1] = e
      /\ \A u \in 1 .. Len(upvals) : upvals'[u] = upvals[u]
  BY <1>3, <1>5, AppendProperties
<1> QED BY <1>1, <1>2, <1>4, <1>6

\* The top of the stack after a return.
LEMMA ReturnStep ==
  ASSUME IInv, Return
  PROVE  /\ status = "running" /\ frames # <<>> /\ Frame.slots \in OnStack /\ Frame.slots \in Nat
         /\ CloseFrom(Frame.slots)
         /\ stack' = [stack EXCEPT ![Frame.slots] = Peek(0)]
         /\ top' = Frame.slots + 1
<1>1. PICK i \in At({"RET"}) :
        /\ CloseFrom(Frame.slots)
        /\ stack' = [stack EXCEPT ![Frame.slots] = Peek(0)]
        /\ top' = Frame.slots + 1
  BY DEF Return
<1>2. status = "running" /\ frames # <<>>
  BY <1>1, AtOK DEF IInv
<1> QED BY <1>1, <1>2, CurrentOK, StackType DEF IInv, OnStack

\* Every step keeps the upvalues from dangling.
LEMMA DanglingKept ==
  ASSUME IInv, NoDanglingUpvalue, LeavesCaptured, [Next]_vars
  PROVE  NoDanglingUpvalue'
<1>1. IInv'
  BY NextIInv
<1>2. Below' => NoDanglingUpvalue'
  <2> DEFINE N == Len(upvals')
             T == [loc : OnStack \cup {Closed}, closed : LiveValue']
  <2>1. upvals' \in Seq(T) /\ open' \in Seq(DOMAIN upvals')
    BY <1>1 DEF IInv, TypeOK
  <2>2. DOMAIN upvals' = 1 .. N
    <3> HIDE DEF T
    <3> QED BY <2>1
  <2>3. \A i \in DOMAIN open' : open'[i] \in 1 .. N
    <3>1. open' \in Seq(1 .. N)
      BY <2>1, <2>2
    <3> HIDE DEF N
    <3>2. DOMAIN open' = 1 .. Len(open')
      BY <3>1
    <3> QED BY <3>1, <3>2, ElementOfSeq
  <2> QED BY <2>3 DEF Below, NoDanglingUpvalue
<1>3. SUFFICES ASSUME status' = "running" PROVE Below'
  BY <1>2 DEF NoDanglingUpvalue
<1>4. status = "running" => Below
  BY DanglingBelow
<1>5. CASE Worked
  <2>1. Below /\ Works(Takes(Now)) /\ top \in Int
    BY <1>4, <1>5, StackType DEF Worked, IInv
  <2>2. ASSUME NEW u \in 1 .. Len(upvals) PROVE upvals[u].loc < top'
    <3> DEFINE T == Takes(Now)
               l == upvals[u].loc
    <3>1. T \in Nat /\ top' \in Int /\ top' >= top - T
      BY <2>1 DEF Works
    <3>2. l = Closed \/ l < top - T
      BY <1>5, <2>1, TakesNoCaptured
    <3>3. l \in Int /\ Closed < 0 /\ Closed \in Int
      BY LocsOK, StackType DEF OnStack, Closed, IInv
    <3>4. top' >= 0
      BY <1>1, StackType DEF IInv, TypeOK
    <3> HIDE DEF T, l
    <3>5. l < top'
      BY <2>1, <3>1, <3>2, <3>3, <3>4
    <3> QED BY <3>5 DEF l
  <2> QED BY <2>1, <2>2 DEF Below, Works
<1>6. CASE Rests \/ SetLocal \/ CallClosure
  <2>1. UNCHANGED <<top, upvals>> /\ status = "running"
    BY <1>3, <1>6 DEF Rests, SetLocal, Plain, CallClosure, heap
  <2> QED BY <1>4, <2>1 DEF Below
<1>7. CASE SetUpval
  <2>1. PICK i \in At({"SET_UPVAL"}) :
          /\ \/ upvals' = [upvals EXCEPT ![Upval(i)].closed = Peek(0)]
             \/ UNCHANGED upvals
          /\ UNCHANGED top
    BY <1>7 DEF SetUpval
  <2>2. Below
    BY <1>4, <2>1, AtNow
  <2>3. /\ Len(upvals) \in Nat /\ DOMAIN upvals = 1 .. Len(upvals)
        /\ \A u \in 1 .. Len(upvals) : upvals[u] \in [loc : OnStack \cup {Closed}, closed : LiveValue]
    BY HeapType, ElementOfSeq DEF IInv
  <2>4. Len(upvals') = Len(upvals) /\ \A u \in 1 .. Len(upvals) : upvals'[u].loc = upvals[u].loc
    BY <2>1, <2>3
  <2> QED BY <2>1, <2>2, <2>4 DEF Below
<1>8. CASE NewUpvalue
  <2>1. Below
    BY <1>4, <1>8, CaptureStep
  <2>2. Frame.slots + Captured.arg \in Frame.slots .. top - 1
    BY <1>8, CaptureStep DEF LeavesCaptured
  <2>3. Frame.slots + Captured.arg < top
    <3>1. Frame.slots + Captured.arg \in Int /\ top \in Int
      BY <1>8, CaptureStep, StackType DEF OnStack, IInv
    <3> DEFINE x == Frame.slots + Captured.arg
    <3>2. x \in Frame.slots .. top - 1 /\ x \in Int
      BY <2>2, <3>1
    <3> HIDE DEF x
    <3>3. x < top
      BY <3>1, <3>2
    <3> QED BY <3>3 DEF x
  <2>4. ASSUME NEW u \in 1 .. Len(upvals') PROVE upvals'[u].loc < top'
    <3>1. u \in 1 .. Len(upvals) \/ u = Len(upvals) + 1
      BY <1>8, CaptureStep, LocsOK
    <3> QED BY <1>8, <2>1, <2>3, <3>1, CaptureStep DEF Below
  <2> QED BY <2>4 DEF Below
<1>9. CASE Close
  <2>1. CloseFrom(top - 1) /\ top' = top - 1 /\ top - 1 \in Int
    BY <1>9, StackType DEF Close, Drop, IInv
  <2>2. ASSUME NEW u \in 1 .. Len(upvals) PROVE upvals'[u].loc < top'
    <3>1. top' >= 0 /\ top' \in Int
      BY <1>1, <2>1, StackType DEF IInv, TypeOK
    <3>2. CASE upvals'[u] = upvals[u] /\ upvals[u].loc = Closed
      BY <3>1, <3>2 DEF Closed
    <3>3. CASE upvals'[u] = upvals[u] /\ upvals[u].loc < top - 1
      BY <2>1, <3>3
    <3>4. CASE upvals'[u] = [loc |-> Closed, closed |-> stack[upvals[u].loc]]
      BY <3>1, <3>4 DEF Closed
    <3> QED BY <2>1, <3>2, <3>3, <3>4, CloseEach
  <2>3. Len(upvals') = Len(upvals)
    BY <1>1, <2>1, CloseOK, LocsOK, HeapType DEF IInv
  <2> QED BY <2>2, <2>3 DEF Below
<1>10. CASE Return
  <2>1. CloseFrom(Frame.slots) /\ top' = Frame.slots + 1 /\ Frame.slots \in Nat
    BY <1>10, ReturnStep
  <2>2. ASSUME NEW u \in 1 .. Len(upvals) PROVE upvals'[u].loc < top'
    <3>1. Frame.slots \in Int
      BY <2>1
    <3>2. CASE upvals'[u] = upvals[u] /\ upvals[u].loc = Closed
      BY <2>1, <3>2 DEF Closed
    <3>3. CASE upvals'[u] = upvals[u] /\ upvals[u].loc < Frame.slots
      <4>1. upvals[u].loc \in Int
        BY LocsOK, StackType DEF OnStack, Closed, IInv
      <4> QED BY <2>1, <3>3, <4>1
    <3>4. CASE upvals'[u] = [loc |-> Closed, closed |-> stack[upvals[u].loc]]
      BY <2>1, <3>4 DEF Closed
    <3> QED BY <2>1, <3>1, <3>2, <3>3, <3>4, CloseEach
  <2>3. Len(upvals') = Len(upvals)
    BY <1>1, <2>1, CloseOK, LocsOK, HeapType DEF IInv
  <2> QED BY <2>2, <2>3 DEF Below
<1>11. CASE Finish
  <2>1. status' = "done"
    BY <1>11 DEF Finish
  <2> QED BY <1>3, <2>1
<1> QED BY <1>5, <1>6, <1>7, <1>8, <1>9, <1>10, <1>11, StepKinds

\* No variable is captured before the first instruction.
LEMMA InitDangling == Init => NoDanglingUpvalue
  BY DEF Init, NoDanglingUpvalue

\* No upvalue dangles as long as captured variables are left to CLOSE and RET.
THEOREM NoneDangles == Spec /\ []LeavesCaptured => []NoDanglingUpvalue
  BY InitDangling, DanglingKept, Invariance, PTL DEF Spec

(***************************************************************************)
(* The values captured.                                                    *)
(***************************************************************************)
\* What CapturedKept says of a step.
CapturedLeft ==
  \A u \in DOMAIN upvals :
    ValueOf(u)' # ValueOf(u) => pend = 0 /\ Fetch \in {"SET_LOCAL", "SET_UPVAL"}

\* An upvalue that stays as it is keeps its value if it is closed or its
\* variable is left alone.
LEMMA ValueStays ==
  ASSUME NEW u, upvals'[u] = upvals[u],
         upvals[u].loc = Closed \/ stack'[upvals[u].loc] = stack[upvals[u].loc]
  PROVE  ValueOf(u)' = ValueOf(u)
  BY DEF ValueOf

\* close_upvalues copies the values before the stack is used for others.
LEMMA ClosedKeeps ==
  ASSUME IInv, NEW x \in Int, CloseFrom(x), NEW u \in 1 .. Len(upvals),
         \A y \in OnStack : y < x => stack'[y] = stack[y]
  PROVE  ValueOf(u)' = ValueOf(u)
<1>1. CASE upvals'[u] = upvals[u] /\ upvals[u].loc = Closed
  BY <1>1, ValueStays
<1>2. CASE upvals'[u] = upvals[u] /\ upvals[u].loc # Closed /\ upvals[u].loc < x
  <2>1. upvals[u].loc \in OnStack
    BY <1>2, LocsOK
  <2> QED BY <1>2, <2>1, ValueStays
<1>3. CASE /\ upvals'[u] = [loc |-> Closed, closed |-> stack[upvals[u].loc]]
           /\ upvals[u].loc # Closed
  BY <1>3 DEF ValueOf
<1> QED BY <1>1, <1>2, <1>3, CloseEach

\* Every step keeps what is captured, assignments excepted.
LEMMA CapturedLeftAlone ==
  ASSUME IInv, NoDanglingUpvalue, LeavesCaptured, [Next]_vars
  PROVE  CapturedLeft
<1> SUFFICES ASSUME NEW u \in 1 .. Len(upvals),
                    ~ (pend = 0 /\ Fetch \in {"SET_LOCAL", "SET_UPVAL"})
             PROVE  ValueOf(u)' = ValueOf(u)
  BY LocsOK DEF CapturedLeft
<1>1. CASE Worked
  <2>1. Below /\ Works(Takes(Now)) /\ top \in Int
    BY <1>1, DanglingBelow, StackType DEF Worked, IInv
  <2>2. upvals[u].loc = Closed \/ upvals[u].loc < top - Takes(Now)
    BY <1>1, <2>1, TakesNoCaptured
  <2>3. upvals[u].loc = Closed \/ upvals[u].loc \in OnStack
    BY LocsOK
  <2>4. upvals' = upvals
    BY <2>1 DEF Works
  <2>5. upvals[u].loc = Closed \/ stack'[upvals[u].loc] = stack[upvals[u].loc]
    BY <2>1, <2>2, <2>3 DEF Works
  <2> QED BY <2>4, <2>5, ValueStays
<1>2. CASE Rests \/ CallClosure
  <2>1. UNCHANGED <<stack, upvals>>
    BY <1>2 DEF Rests, CallClosure, heap
  <2> QED BY <2>1, ValueStays
<1>3. CASE SetLocal \/ SetUpval
  <2>1. pend = 0 /\ Fetch \in {"SET_LOCAL", "SET_UPVAL"}
    BY <1>3, AtOK DEF SetLocal, SetUpval, IInv
  <2> QED BY <2>1
<1>4. CASE NewUpvalue
  BY <1>4, CaptureStep, ValueStays
<1>5. CASE Close
  <2>1. CloseFrom(top - 1) /\ UNCHANGED stack /\ top - 1 \in Int
    BY <1>5, StackType DEF Close, Drop, IInv
  <2> QED BY <2>1, ClosedKeeps
<1>6. CASE Return
  <2>1. /\ CloseFrom(Frame.slots) /\ Frame.slots \in Int
        /\ stack' = [stack EXCEPT ![Frame.slots] = Peek(0)]
    BY <1>6, ReturnStep
  <2>2. \A y \in OnStack : y < Frame.slots => stack'[y] = stack[y]
    <3>1. \A y \in OnStack : y < Frame.slots => y # Frame.slots
      BY <2>1, StackType DEF OnStack, IInv
    <3> QED BY <2>1, <3>1, StackType DEF IInv
  <2> QED BY <2>1, <2>2, ClosedKeeps
<1>7. CASE Finish
  <2>1. CloseFrom(Frame.slots) /\ UNCHANGED stack /\ frames # <<>>
    BY <1>7, AtOK DEF Finish, Drop, IInv
  <2>2. Frame.slots \in Int
    BY <2>1, CurrentOK, StackType DEF OnStack, IInv
  <2> QED BY <2>1, <2>2, ClosedKeeps
<1> QED BY <1>1, <1>2, <1>3, <1>4, <1>5, <1>6, <1>7, StepKinds

\* What is captured changes by assignment only, as long as captured variables
\* are left to CLOSE and RET.
THEOREM CapturedStays == Spec /\ []LeavesCaptured => CapturedKept
<1>1. IInv /\ NoDanglingUpvalue /\ LeavesCaptured /\ [Next]_vars
        => [\A u \in DOMAIN upvals :
              ValueOf(u)' # ValueOf(u) => pend = 0 /\ Fetch \in {"SET_LOCAL", "SET_UPVAL"}]_vars
  BY CapturedLeftAlone DEF CapturedLeft
<1> QED BY <1>1, Invariance, NoneDangles, PTL DEF Spec, CapturedKept
=============================================================================
