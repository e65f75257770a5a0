------------------------- MODULE DisassemblerProofs -------------------------
(***************************************************************************)
(* Proofs about the disassembler, for every program and either order of    *)
(* evaluation in printf: dis decodes with a switch and readers of its own, *)
(* and of code that is a chain of instructions (Listable) it lists         *)
(* instructions only, up to the first whose operand it does not know of.   *)
(*                                                                         *)
(* The argument.  Every call of dis, those that wait for the listing of an *)
(* inner function among them, is where an instruction starts or at the end *)
(* of its function, or at the captures of a closure, with such a place     *)
(* behind them (CallOK).  The two orders agree on the captures because     *)
(* flag and index have a byte each (AfterCaptures).                        *)
(*                                                                         *)
(* Last, how the distance of a jump is read, here and by run()             *)
(* (DistancesRead).                                                        *)
(***************************************************************************)
EXTENDS Disassembler, NaturalMinimum, SequenceTheorems, TLAPS

CallOK(fns, starts, c) ==
  /\ c \in [fn : DOMAIN fns, i : Nat, due : DOMAIN fns \cup {NoFunction}]
  /\ IF c.due = NoFunction THEN GoesOn(fns, starts, c.fn, c.i)
     ELSE /\ CapturesAt(fns[c.fn].code, c.i, fns[c.due].nup)
          /\ GoesOn(fns, starts, c.fn, c.i + 2 * fns[c.due].nup)

CallsOK ==
  /\ calls \in Seq([fn : DOMAIN funcs, i : Nat, due : DOMAIN funcs \cup {NoFunction}])
  /\ \A n \in 1 .. Len(calls) : CallOK(funcs, Starts[src], calls[n])
  /\ state = "listing" => Len(calls) > 0

\* Nothing is said once an operand has been taken for an instruction.
DInv ==
  /\ src \in ListablePrograms /\ funcs = Programs[src] /\ flagFirst \in BOOLEAN
  /\ Misread = {} => CallsOK /\ state # "lost" /\ listed \cup targets \subseteq Starts[src]

(***************************************************************************)
(* Code.                                                                   *)
(***************************************************************************)
\* What a program that can be listed gives.
LEMMA ListableGives ==
  ASSUME DInv
  PROVE  /\ \A f \in DOMAIN funcs : GoesOn(funcs, Starts[src], f, 0)
         /\ \A s \in Starts[src] :
              s[1] \in DOMAIN funcs /\ Listed(funcs, Starts[src], s[1], s[2])
         /\ 1 \in DOMAIN funcs /\ NoFunction \notin DOMAIN funcs
         /\ \A f \in DOMAIN funcs : /\ funcs[f].code \in Seq(0 .. 255)
                                    /\ funcs[f].nup \in Nat
<1>1. src \in DOMAIN Programs /\ funcs = Programs[src]
  BY DEF DInv, ListablePrograms
<1>2. /\ \A f \in DOMAIN funcs : GoesOn(funcs, Starts[src], f, 0)
      /\ \A s \in Starts[src] :
           s[1] \in DOMAIN funcs /\ Listed(funcs, Starts[src], s[1], s[2])
  BY DEF DInv, ListablePrograms
<1>3. /\ 1 \in DOMAIN funcs /\ DOMAIN funcs \subseteq Nat \ {0}
      /\ \A f \in DOMAIN funcs : /\ funcs[f].code \in Seq(0 .. 255)
                                 /\ funcs[f].nup \in Nat
  BY <1>1, DisassemblerAssumption
<1> QED BY <1>2, <1>3 DEF NoFunction

\* Where dis can go on is an offset.
LEMMA GoesOnAtOffset ==
  ASSUME DInv, NEW f \in DOMAIN funcs, NEW p, GoesOn(funcs, Starts[src], f, p)
  PROVE  p \in Nat
<1>1. Len(funcs[f].code) \in Nat
  BY ListableGives
<1>2. CASE p = Len(funcs[f].code)
  BY <1>1, <1>2
<1>3. CASE <<f, p>> \in Starts[src]
  <2>1. Listed(funcs, Starts[src], f, p)
    BY <1>3, ListableGives
  <2> QED BY <2>1, <1>1 DEF Listed
<1> QED BY <1>2, <1>3 DEF GoesOn

\* The end of a number lies behind its first byte, within the code.
LEMMA NumberEnds ==
  ASSUME NEW code \in Seq(0 .. 255), NEW p \in Nat, UlebEnds(code, p) # {}
  PROVE  UlebEnd(code, p) \in p + 1 .. Len(code)
<1>1. UlebEnds(code, p) \subseteq Nat /\ UlebEnds(code, p) \subseteq p + 1 .. Len(code)
  BY DEF UlebEnds
<1>2. \E m \in UlebEnds(code, p) : \A n \in UlebEnds(code, p) : m <= n
  BY <1>1, MinExists
<1>3. UlebEnd(code, p) \in UlebEnds(code, p)
  BY <1>2 DEF UlebEnd, Min
<1> QED BY <1>1, <1>3

\* A number that has one byte ends behind it.
LEMMA OneByte ==
  ASSUME NEW code \in Seq(0 .. 255), NEW p \in Nat, p < Len(code), code[p + 1] < 128
  PROVE  UlebEnd(code, p) = p + 1
<1>1. p + 1 \in UlebEnds(code, p) /\ \A q \in UlebEnds(code, p) : q \in Nat /\ p + 1 <= q
  BY DEF UlebEnds
<1>2. \A m \in UlebEnds(code, p) : (\A n \in UlebEnds(code, p) : m <= n) => m = p + 1
  BY <1>1
<1> QED BY <1>1, <1>2 DEF UlebEnd, Min

\* In either order a capture of two bytes is passed.
LEMMA CapturePassed ==
  ASSUME NEW code \in Seq(0 .. 255), NEW p \in Nat, NEW flag \in BOOLEAN,
         \A q \in p .. p + 1 : q < Len(code) /\ code[q + 1] < 128
  PROVE  AfterCapture(code, p, flag) = p + 2
<1>1. UlebEnd(code, p) = p + 1
  BY OneByte
<1>2. UlebEnd(code, p + 1) = p + 2
  BY OneByte
<1> QED BY <1>1, <1>2 DEF AfterCapture, AfterUleb

\* The loop over the captures ends behind the last.
LEMMA AfterCaptures ==
  ASSUME NEW code \in Seq(0 .. 255), NEW p \in Nat, NEW num \in Nat, NEW flag \in BOOLEAN,
         CapturesAt(code, p, num),
         NEW after, after = CHOOSE g : g = [n \in 0 .. num |->
                              IF n = 0 THEN p ELSE AfterCapture(code, g[n - 1], flag)]
  PROVE  after[num] = p + 2 * num
<1> DEFINE step(g) == [n \in 0 .. num |-> IF n = 0 THEN p ELSE AfterCapture(code, g[n - 1], flag)]
           behind  == [n \in 0 .. num |-> p + 2 * n]
<1>1. \A n \in 1 .. num : AfterCapture(code, p + 2 * (n - 1), flag) = p + 2 * n
  <2> TAKE n \in 1 .. num
  <2>1. p + 2 * (n - 1) \in Nat /\ \A q \in p + 2 * (n - 1) .. p + 2 * (n - 1) + 1 :
                                     q \in p .. p + 2 * num - 1
    OBVIOUS
  <2>2. AfterCapture(code, p + 2 * (n - 1), flag) = p + 2 * (n - 1) + 2
    BY <2>1, CapturePassed DEF CapturesAt
  <2> QED BY <2>2
<1>2. behind = step(behind)
  <2>1. \A n \in 0 .. num : n # 0 => n \in 1 .. num /\ behind[n - 1] = p + 2 * (n - 1)
    OBVIOUS
  <2>2. \A n \in 0 .. num : behind[n] = IF n = 0 THEN p ELSE AfterCapture(code, behind[n - 1], flag)
    BY <1>1, <2>1
  <2> QED BY <2>2
<1>3. after = step(after)
  <2> HIDE DEF behind
  <2> QED BY <1>2
<1>4. \A n \in 0 .. num : after[n] = IF n = 0 THEN p ELSE AfterCapture(code, after[n - 1], flag)
  BY <1>3
<1> DEFINE others == {n \in 0 .. num : after[n] # p + 2 * n}
<1>5. ASSUME others # {}
      PROVE  FALSE
  <2>1. PICK m \in others : \A n \in others : m <= n
    <3>1. others \subseteq Nat
      OBVIOUS
    <3> HIDE DEF others
    <3> QED BY <1>5, <3>1, MinExists
  <2>2. m # 0
    BY <1>4, <2>1
  <2>3. m - 1 \in 0 .. num /\ m \in 1 .. num
    BY <2>2
  <2>4. after[m - 1] = p + 2 * (m - 1)
    BY <2>1, <2>3
  <2>5. after[m] = AfterCapture(code, p + 2 * (m - 1), flag)
    BY <1>4, <2>2, <2>4
  <2> QED BY <1>1, <2>1, <2>3, <2>5
<1>6. num \notin others
  <2> HIDE DEF others
  <2> QED BY <1>5
<1>7. num \in 0 .. num
  OBVIOUS
<1> QED BY <1>6, <1>7

(***************************************************************************)
(* The calls of dis.                                                       *)
(***************************************************************************)
\* What DInv says as long as nothing has been misread.
LEMMA InStepNow ==
  ASSUME DInv, Misread = {}, state = "listing"
  PROVE  /\ CallsOK /\ Len(calls) \in Nat \ {0}
         /\ This = calls[Len(calls)] /\ CallOK(funcs, Starts[src], This)
         /\ This.fn \in DOMAIN funcs /\ Code \in Seq(0 .. 255) /\ i0 \in Nat
         /\ This.due = NoFunction => GoesOn(funcs, Starts[src], This.fn, i0)
         /\ This.due = NoFunction /\ i0 < Len(Code) =>
              <<This.fn, i0>> \in Starts[src] /\ Listed(funcs, Starts[src], This.fn, i0)
<1>1. CallsOK /\ Len(calls) \in Nat \ {0}
  BY DEF DInv, CallsOK
<1>2. This = calls[Len(calls)] /\ CallOK(funcs, Starts[src], This)
  BY <1>1 DEF This, Last, CallsOK
<1>3. This.fn \in DOMAIN funcs /\ i0 \in Nat
  BY <1>2 DEF CallOK, i0
<1>4. Code \in Seq(0 .. 255)
  BY <1>3, ListableGives DEF Code, Function
<1>5. This.due = NoFunction => GoesOn(funcs, Starts[src], This.fn, i0)
  BY <1>2 DEF CallOK, i0
<1>6. ASSUME This.due = NoFunction, i0 < Len(Code)
      PROVE  <<This.fn, i0>> \in Starts[src]
  BY <1>5, <1>6, <1>3, <1>4 DEF GoesOn, Code, Function
<1>7. ASSUME <<This.fn, i0>> \in Starts[src] PROVE Listed(funcs, Starts[src], This.fn, i0)
  BY <1>7, ListableGives
<1> QED BY <1>1, <1>2, <1>3, <1>4, <1>5, <1>6, <1>7

\* A misread stays one.
LEMMA MisreadStays ==
  ASSUME funcs' = funcs, listed \subseteq listed', Misread' = {}
  PROVE  Misread = {}
BY DEF Misread

\* The call of dis goes on where it can.
LEMMA MovedCalls ==
  ASSUME DInv, Misread = {}, state = "listing",
         NEW i, GoesOn(funcs, Starts[src], This.fn, i), NEW at \in 1 .. Len(calls), at = Len(calls),
         NEW next, next = [calls EXCEPT ![at].i = i, ![at].due = NoFunction]
  PROVE  /\ next \in Seq([fn : DOMAIN funcs, i : Nat, due : DOMAIN funcs \cup {NoFunction}])
         /\ Len(next) = Len(calls)
         /\ \A n \in 1 .. Len(next) : CallOK(funcs, Starts[src], next[n])
<1> DEFINE C     == [fn : DOMAIN funcs, i : Nat, due : DOMAIN funcs \cup {NoFunction}]
           moved == [This EXCEPT !.i = i, !.due = NoFunction]
<1>1. i \in Nat
  BY InStepNow, GoesOnAtOffset
<1>2. calls \in Seq(C) /\ This \in C /\ This = calls[at]
  BY InStepNow DEF CallsOK, CallOK
<1>3. next = [calls EXCEPT ![at] = moved]
  BY <1>2
<1>4. moved \in C /\ CallOK(funcs, Starts[src], moved)
  BY <1>1, <1>2 DEF CallOK
<1>5. \A n \in 1 .. Len(calls) : CallOK(funcs, Starts[src], calls[n])
  BY InStepNow DEF CallsOK
<1> HIDE DEF C, moved
<1>6. next \in Seq(C) /\ Len(next) = Len(calls)
  BY <1>2, <1>3, <1>4
<1>7. ASSUME NEW n \in 1 .. Len(calls) PROVE CallOK(funcs, Starts[src], next[n])
  <2>1. CASE n = at
    <3>1. at \in DOMAIN calls
      BY <1>2
    <3>2. next[at] = moved
      BY <1>3, <3>1, Zenon
    <3> QED BY <1>4, <2>1, <3>2
  <2>2. CASE n # at
    BY <1>2, <1>3, <1>5, <2>2
  <2> QED BY <2>1, <2>2
<1> QED BY <1>6, <1>7 DEF C

LEMMA MovedToCalls ==
  ASSUME DInv, Misread = {}, state = "listing", This.due = NoFunction,
         NEW i, GoesOn(funcs, Starts[src], This.fn, i)
  PROVE  /\ MovedTo(i) \in Seq([fn : DOMAIN funcs, i : Nat, due : DOMAIN funcs \cup {NoFunction}])
         /\ Len(MovedTo(i)) = Len(calls)
         /\ \A n \in 1 .. Len(MovedTo(i)) : CallOK(funcs, Starts[src], MovedTo(i)[n])
<1> DEFINE at == Len(calls)
           C  == [fn : DOMAIN funcs, i : Nat, due : DOMAIN funcs \cup {NoFunction}]
<1>1. at \in 1 .. Len(calls) /\ calls \in Seq(C) /\ This \in C /\ This = calls[at]
  BY InStepNow DEF CallsOK, CallOK
<1>2. MovedTo(i) = [calls EXCEPT ![at].i = i, ![at].due = NoFunction]
  BY <1>1 DEF MovedTo
<1> HIDE DEF C
<1> QED BY <1>1, <1>2, MovedCalls

LEMMA Moved ==
  ASSUME DInv, Misread = {}, state = "listing", This.due = NoFunction,
         NEW i, GoesOn(funcs, Starts[src], This.fn, i),
         calls' = MovedTo(i), UNCHANGED <<src, funcs, state>>
  PROVE  CallsOK'
BY MovedToCalls, InStepNow DEF CallsOK

\* A line for an instruction, no misread behind it, and the calls in order.
LEMMA LineAdded ==
  ASSUME DInv, Misread = {}, state = "listing", This.due = NoFunction, i0 < Len(Code),
         Line, UNCHANGED <<src, funcs, flagFirst, state>>,
         targets' \subseteq Starts[src], CallsOK'
  PROVE  DInv'
<1>1. <<This.fn, i0>> \in Starts[src]
  BY InStepNow
<1>2. listed' \subseteq Starts[src]
  BY <1>1 DEF Line, DInv
<1> QED BY <1>2 DEF DInv

\* A function is listed from its beginning.
LEMMA ListsInner ==
  ASSUME DInv, UNCHANGED <<src, funcs>>, NEW f \in DOMAIN funcs,
         NEW outer \in Seq([fn : DOMAIN funcs, i : Nat, due : DOMAIN funcs \cup {NoFunction}]),
         \A n \in 1 .. Len(outer) : CallOK(funcs, Starts[src], outer[n]),
         calls' = Append(outer, [fn |-> f, i |-> 0, due |-> NoFunction])
  PROVE  CallsOK'
<1> DEFINE inner == [fn |-> f, i |-> 0, due |-> NoFunction]
           C == [fn : DOMAIN funcs, i : Nat, due : DOMAIN funcs \cup {NoFunction}]
<1>1. inner \in C /\ CallOK(funcs, Starts[src], inner)
  BY ListableGives DEF CallOK
<1>2. calls' \in Seq(C) /\ Len(calls') = Len(outer) + 1 /\ Len(calls') > 0
  <2> HIDE DEF inner, C
  <2>1. calls' = Append(outer, inner)
    BY DEF inner
  <2>2. outer \in Seq(C) 
    BY DEF C
  <2> QED BY <1>1, <2>1, <2>2
<1>3. ASSUME NEW n \in 1 .. Len(calls') PROVE CallOK(funcs, Starts[src], calls'[n])
  <2> HIDE DEF inner
  <2>1. calls' = Append(outer, inner)
    BY DEF inner
  <2>2. CASE n = Len(outer) + 1
    BY <1>1, <2>1, <2>2
  <2>3. CASE n \in 1 .. Len(outer) /\ n # Len(outer) + 1
    BY <2>1, <2>3
  <2> QED BY <1>2, <2>2, <2>3
<1> QED BY <1>2, <1>3 DEF CallsOK

(***************************************************************************)
(* The steps.                                                              *)
(***************************************************************************)
LEMMA BareStep ==
  ASSUME DInv, Misread = {}, Misread' = {}, Bare \/ Unrecognized
  PROVE  DInv'
<1>1. /\ state = "listing" /\ This.due = NoFunction /\ i0 < Len(Code)
      /\ Op \in BareOps \/ Op \notin Cases
      /\ calls' = MovedTo(i0 + 1) /\ Line
      /\ UNCHANGED <<src, funcs, flagFirst, targets, state>>
  BY DEF Bare, Unrecognized, Listing
<1>2. Op \notin Operands
  <2>1. <<This.fn, i0>> \in listed'
    BY <1>1 DEF Line
  <2>2. \A line \in listed' : OpAt(funcs[line[1]].code, line[2]) \notin Operands
    BY <1>1 DEF Misread
  <2> QED BY <2>1, <2>2 DEF Op, Code, Function
<1>3. GoesOn(funcs, Starts[src], This.fn, i0 + 1)
  BY <1>1, <1>2, InStepNow DEF Listed, Op, Code, Function
<1>4. CallsOK'
  BY <1>1, <1>3, Moved
<1> QED BY <1>1, <1>4, LineAdded DEF DInv

\* An operand of one number, and what is behind it.
LEMMA OperandFound ==
  ASSUME DInv, Misread = {}, Listing(ConstOps \cup SlotOps \cup {"CLOSURE"})
  PROVE  /\ OperandRead(funcs, Starts[src], This.fn, i0) /\ HasUleb(i0 + 1)
         /\ UlebEnd(Code, i0 + 1) \in Nat
<1>1. /\ state = "listing" /\ This.due = NoFunction /\ i0 < Len(Code)
      /\ Op \in ConstOps \cup SlotOps \cup {"CLOSURE"}
  BY DEF Listing
<1>2. OperandRead(funcs, Starts[src], This.fn, i0)
  BY <1>1, InStepNow DEF Listed, Op, Code, Function
<1>3. HasUleb(i0 + 1)
  BY <1>2 DEF OperandRead, HasUleb, Code, Function
<1>4. UlebEnd(Code, i0 + 1) \in i0 + 1 + 1 .. Len(Code)
  <2>1. i0 + 1 \in Nat /\ Code \in Seq(0 .. 255)
    BY <1>1, InStepNow
  <2> QED BY <1>3, <2>1, NumberEnds DEF HasUleb
<1>5. i0 \in Nat /\ Len(Code) \in Nat
  BY <1>1, InStepNow
<1> QED BY <1>2, <1>3, <1>4, <1>5

LEMMA SlotStep ==
  ASSUME DInv, Misread = {}, Slot
  PROVE  DInv'
<1>1. Op \in SlotOps /\ Listing(ConstOps \cup SlotOps \cup {"CLOSURE"})
  BY DEF Slot, Listing
<1>2. /\ OperandRead(funcs, Starts[src], This.fn, i0) /\ HasUleb(i0 + 1)
  BY <1>1, OperandFound
<1>3. /\ state = "listing" /\ This.due = NoFunction /\ i0 < Len(Code)
      /\ calls' = MovedTo(AfterUleb(Code, i0 + 1)) /\ Line
      /\ UNCHANGED <<src, funcs, flagFirst, targets, state>>
  BY <1>2 DEF Slot, Listing
<1>4. GoesOn(funcs, Starts[src], This.fn, AfterUleb(Code, i0 + 1))
  <2>1. Op # "CLOSURE"
    BY <1>1 DEF SlotOps
  <2> QED BY <1>2, <2>1 DEF OperandRead, AfterUleb, Op, Code, Function
<1>5. CallsOK'
  BY <1>3, <1>4, Moved
<1> QED BY <1>3, <1>5, LineAdded DEF DInv

LEMMA ConstStep ==
  ASSUME DInv, Misread = {}, Const
  PROVE  DInv'
<1> DEFINE val  == Function.consts[Index + 1]
           next == MovedTo(AfterUleb(Code, i0 + 1))
<1>1. Op \in ConstOps /\ Op # "CLOSURE" /\ Listing(ConstOps \cup SlotOps \cup {"CLOSURE"})
  BY DEF Const, Listing, ConstOps
<1>2. /\ OperandRead(funcs, Starts[src], This.fn, i0) /\ HasUleb(i0 + 1)
  BY <1>1, OperandFound
<1>3. FindsConstant(funcs, Function, i0)
  BY <1>1, <1>2 DEF OperandRead, Op, Code, Function
<1>4. HasConst /\ (IsFunc(val) => val[2] \in DOMAIN funcs)
  BY <1>2, <1>3 DEF FindsConstant, HasConst, Index, Code
<1>5. /\ state = "listing" /\ This.due = NoFunction /\ i0 < Len(Code) /\ Line
      /\ calls' = IF IsFunc(val) THEN Append(next, [fn |-> val[2], i |-> 0, due |-> NoFunction])
                  ELSE next
      /\ UNCHANGED <<src, funcs, flagFirst, targets, state>>
  BY <1>4 DEF Const, Listing
<1>6. GoesOn(funcs, Starts[src], This.fn, AfterUleb(Code, i0 + 1))
  BY <1>1, <1>2 DEF OperandRead, AfterUleb, Op, Code, Function
<1>7. /\ next \in Seq([fn : DOMAIN funcs, i : Nat, due : DOMAIN funcs \cup {NoFunction}])
      /\ \A n \in 1 .. Len(next) : CallOK(funcs, Starts[src], next[n])
  BY <1>5, <1>6, MovedToCalls
<1>8. CallsOK'
  <2>1. CASE IsFunc(val)
    BY <1>4, <1>5, <1>7, <2>1, ListsInner
  <2>2. CASE ~IsFunc(val)
    BY <1>5, <1>6, <2>2, Moved
  <2> QED BY <2>1, <2>2
<1> QED BY <1>5, <1>8, LineAdded DEF DInv

LEMMA JumpStep ==
  ASSUME DInv, Misread = {}, Jump
  PROVE  DInv'
<1>1. /\ state = "listing" /\ This.due = NoFunction /\ i0 < Len(Code) /\ Op \in JumpOps
  BY DEF Jump, Listing
<1>2. JumpRead(funcs, Starts[src], This.fn, i0)
  BY <1>1, InStepNow DEF Listed, Op, Code, Function
<1>3. /\ ~(i0 + 5 > Len(Code)) /\ GoesOn(funcs, Starts[src], This.fn, i0 + 5)
      /\ <<This.fn, i0 + 5 + Uint32At(Code, i0 + 1)>> \in Starts[src]
  BY <1>1, <1>2, InStepNow DEF JumpRead, Code, Function
<1>4. /\ calls' = MovedTo(i0 + 5) /\ Line
      /\ targets' = targets \cup {<<This.fn, i0 + 5 + Uint32At(Code, i0 + 1)>>}
      /\ UNCHANGED <<src, funcs, flagFirst, state>>
  BY <1>3 DEF Jump
<1>5. CallsOK'
  BY <1>1, <1>3, <1>4, Moved
<1>6. targets' \subseteq Starts[src]
  BY <1>3, <1>4 DEF DInv
<1> QED BY <1>1, <1>4, <1>5, <1>6, LineAdded

\* The call waits at the captures while the closure's function is listed.
LEMMA ClosureStep ==
  ASSUME DInv, Misread = {}, Closure
  PROVE  DInv'
<1> DEFINE val   == Function.consts[Index + 1]
           f     == val[2]
           end   == AfterUleb(Code, i0 + 1)
           outer == [MovedTo(end) EXCEPT ![Len(calls)].due = f]
           C     == [fn : DOMAIN funcs, i : Nat, due : DOMAIN funcs \cup {NoFunction}]
<1>1. Op = "CLOSURE" /\ Listing(ConstOps \cup SlotOps \cup {"CLOSURE"})
  BY DEF Closure, Listing
<1>2. /\ OperandRead(funcs, Starts[src], This.fn, i0) /\ HasUleb(i0 + 1) /\ end \in Nat
  BY <1>1, OperandFound DEF AfterUleb
<1>3. FindsConstant(funcs, Function, i0)
  BY <1>1, <1>2 DEF OperandRead, Op, Code, Function
<1>4. HasConst /\ IsFunc(val) /\ f \in DOMAIN funcs
  BY <1>1, <1>2, <1>3 DEF FindsConstant, HasConst, Index, Op, Code
<1>5. /\ state = "listing" /\ This.due = NoFunction /\ i0 < Len(Code) /\ Line
      /\ calls' = Append(outer, [fn |-> f, i |-> 0, due |-> NoFunction])
      /\ UNCHANGED <<src, funcs, flagFirst, targets, state>>
  BY <1>4 DEF Closure, Listing
<1>6. /\ CapturesAt(Code, end, funcs[f].nup)
      /\ GoesOn(funcs, Starts[src], This.fn, end + 2 * funcs[f].nup)
  BY <1>1, <1>2 DEF OperandRead, AfterUleb, Index, Op, Code, Function
<1>7. /\ calls \in Seq(C) /\ This \in C /\ This = calls[Len(calls)]
      /\ Len(calls) \in 1 .. Len(calls) /\ NoFunction \notin DOMAIN funcs
  BY <1>5, InStepNow, ListableGives DEF CallsOK, CallOK
<1> DEFINE waiting == [This EXCEPT !.i = end, !.due = f]
<1>8. waiting \in C /\ CallOK(funcs, Starts[src], waiting)
  BY <1>2, <1>4, <1>6, <1>7 DEF CallOK, Code, Function
<1>9. outer = [calls EXCEPT ![Len(calls)] = waiting]
  BY <1>7 DEF MovedTo
<1>10. outer \in Seq(C) /\ \A n \in 1 .. Len(outer) : CallOK(funcs, Starts[src], outer[n])
  <2>1. \A n \in 1 .. Len(calls) : CallOK(funcs, Starts[src], calls[n])
    BY <1>5, InStepNow DEF CallsOK
  <2> HIDE DEF outer, waiting, C
  <2>2. outer \in Seq(C) /\ Len(outer) = Len(calls)
    BY <1>7, <1>8, <1>9
  <2>3. ASSUME NEW n \in 1 .. Len(calls) PROVE CallOK(funcs, Starts[src], outer[n])
    <3>1. CASE n = Len(calls)
      BY <1>7, <1>8, <1>9, <3>1
    <3>2. CASE n # Len(calls)
      BY <1>7, <1>9, <2>1, <3>2
    <3> QED BY <3>1, <3>2
  <2> QED BY <2>2, <2>3
<1>11. CallsOK'
  BY <1>4, <1>5, <1>10, ListsInner
<1> QED BY <1>5, <1>11, LineAdded DEF DInv

LEMMA CapturesStep ==
  ASSUME DInv, Misread = {}, Captures
  PROVE  DInv'
<1> DEFINE num  == funcs[This.due].nup
           goal == i0 + 2 * num
<1>1. /\ state = "listing" /\ This.due # NoFunction
      /\ UNCHANGED <<src, funcs, flagFirst, listed, targets, state>>
  BY DEF Captures
<1>2. /\ CallOK(funcs, Starts[src], This) /\ This.fn \in DOMAIN funcs /\ This.due \in DOMAIN funcs
      /\ Code \in Seq(0 .. 255) /\ i0 \in Nat /\ num \in Nat /\ flagFirst \in BOOLEAN
  BY <1>1, InStepNow, ListableGives DEF CallOK, DInv
<1>3. CapturesAt(Code, i0, num) /\ GoesOn(funcs, Starts[src], This.fn, goal)
  BY <1>1, <1>2 DEF CallOK, Code, Function, i0
<1> DEFINE after == CHOOSE g : g = [n \in 0 .. num |->
                       IF n = 0 THEN i0 ELSE AfterCapture(Code, g[n - 1], flagFirst)]
<1>4. after[num] = goal
  <2> HIDE DEF num
  <2> QED BY <1>2, <1>3, AfterCaptures
<1>5. calls' = [MovedTo(after[num]) EXCEPT ![Len(calls)].due = NoFunction]
  BY DEF Captures
<1> DEFINE at == Len(calls)
           C  == [fn : DOMAIN funcs, i : Nat, due : DOMAIN funcs \cup {NoFunction}]
<1>6. at \in 1 .. Len(calls) /\ calls \in Seq(C)
  BY <1>1, InStepNow DEF CallsOK
<1>7. calls' = [calls EXCEPT ![at].i = goal, ![at].due = NoFunction]
  <2> HIDE DEF after, goal
  <2> QED BY <1>4, <1>5, <1>6 DEF MovedTo
<1>8. /\ calls' \in Seq(C) /\ Len(calls') = Len(calls)
      /\ \A n \in 1 .. Len(calls') : CallOK(funcs, Starts[src], calls'[n])
  <2> HIDE DEF goal, C
  <2>1. calls' \in Seq([fn : DOMAIN funcs, i : Nat, due : DOMAIN funcs \cup {NoFunction}])
    BY <1>1, <1>3, <1>6, <1>7, MovedCalls
  <2> QED BY <1>1, <1>3, <1>6, <1>7, <2>1, MovedCalls DEF C
<1>9. CallsOK'
  BY <1>1, <1>8, InStepNow DEF CallsOK
<1> QED BY <1>1, <1>9 DEF DInv

LEMMA FrontGives ==
  ASSUME NEW C, NEW s \in Seq(C), NEW len \in Nat \ {0}, Len(s) = len
  PROVE  /\ Front(s) \in Seq(C) /\ Len(Front(s)) = len - 1
         /\ \A n \in 1 .. len - 1 : Front(s)[n] = s[n]
<1>1. Front(s) = SubSeq(s, 1, len - 1)
  BY DEF Front
<1>2. \A n \in 1 .. len - 1 : s[n] \in C
  OBVIOUS
<1>3. /\ Front(s) \in Seq(C)
      /\ Len(Front(s)) = IF 1 <= len - 1 THEN len - 1 - 1 + 1 ELSE 0
      /\ \A n \in 1 .. len - 1 - 1 + 1 : Front(s)[n] = s[1 + n - 1]
  BY <1>1, <1>2, SubSeqProperties
<1>4. ASSUME NEW n \in 1 .. len - 1 PROVE Front(s)[n] = s[n]
  <2>1. n \in 1 .. len - 1 - 1 + 1 /\ 1 + n - 1 = n
    OBVIOUS
  <2> QED BY <1>3, <2>1
<1> QED BY <1>3, <1>4

\* The call that waits goes on where it was.
LEMMA ReturnStep ==
  ASSUME DInv, Misread = {}, Return
  PROVE  DInv'
<1> DEFINE C == [fn : DOMAIN funcs, i : Nat, due : DOMAIN funcs \cup {NoFunction}]
<1>1. /\ state = "listing" /\ calls' = Front(calls)
      /\ state' = IF Len(calls) = 1 THEN "done" ELSE state
      /\ UNCHANGED <<src, funcs, flagFirst, listed, targets>>
  BY DEF Return
<1>2. calls \in Seq(C) /\ Len(calls) \in Nat \ {0}
  BY <1>1, InStepNow DEF CallsOK
<1>3. /\ calls' \in Seq(C) /\ Len(calls') = Len(calls) - 1
      /\ \A n \in 1 .. Len(calls') : n \in 1 .. Len(calls) /\ calls'[n] = calls[n]
  <2> HIDE DEF C
  <2> QED BY <1>1, <1>2, FrontGives
<1>4. CallsOK'
  BY <1>1, <1>2, <1>3, InStepNow DEF CallsOK
<1> QED BY <1>1, <1>4 DEF DInv

LEMMA InitDInv == Init /\ Listable => DInv
<1> SUFFICES ASSUME Init, Listable PROVE DInv
  OBVIOUS
<1>1. /\ src \in ListablePrograms /\ src \in DOMAIN Programs /\ funcs = Programs[src]
      /\ flagFirst \in BOOLEAN
  BY DisassemblerAssumption DEF Init, Listable
<1>2. 1 \in DOMAIN funcs /\ GoesOn(funcs, Starts[src], 1, 0)
  BY <1>1, DisassemblerAssumption DEF ListablePrograms
<1> DEFINE first == [fn |-> 1, i |-> 0, due |-> NoFunction]
           C     == [fn : DOMAIN funcs, i : Nat, due : DOMAIN funcs \cup {NoFunction}]
<1>3. first \in C /\ CallOK(funcs, Starts[src], first)
  BY <1>2 DEF CallOK
<1>4. calls = <<first>>
  BY DEF Init
<1>5. CallsOK
  <2> HIDE DEF first
  <2>1. calls \in Seq(C) /\ Len(calls) = 1 /\ calls[1] = first
    BY <1>3, <1>4
  <2> QED BY <1>3, <2>1 DEF CallsOK
<1>6. state # "lost" /\ listed \cup targets \subseteq Starts[src]
  BY DEF Init
<1> QED BY <1>1, <1>5, <1>6 DEF DInv

LEMMA NextDInv == DInv /\ [Next]_disVars => DInv'
<1> SUFFICES ASSUME DInv, [Next]_disVars PROVE DInv'
  OBVIOUS
<1>1. CASE UNCHANGED disVars
  BY <1>1 DEF disVars, DInv, CallsOK, Misread
<1>2. CASE Next
  <2>1. UNCHANGED <<src, funcs, flagFirst>> /\ listed \subseteq listed'
    BY <1>2 DEF Next, Bare, Unrecognized, Const, Slot, Jump, Closure, Captures, Return, Line, Lost
  <2>2. CASE Misread' # {}
    BY <2>1, <2>2 DEF DInv
  <2>3. CASE Misread' = {}
    <3>1. Misread = {}
      BY <2>1, <2>3, MisreadStays
    <3> QED BY <1>2, <2>3, <3>1, BareStep, SlotStep, ConstStep, JumpStep, ClosureStep,
               CapturesStep, ReturnStep DEF Next
  <2> QED BY <2>2, <2>3
<1> QED BY <1>1, <1>2

(***************************************************************************)
(* Theorems.                                                               *)
(***************************************************************************)
\* Whether a program can be listed is seen by looking at its code.
LEMMA ListableForGood == Spec /\ Listable => []DInv
<1>1. Init /\ Listable => DInv
  BY InitDInv
<1>2. DInv /\ [Next]_disVars => DInv'
  BY NextDInv
<1> QED BY <1>1, <1>2, PTL DEF Spec

\* Of code that can be listed, every line is an instruction the compiler
\* emitted and every end of a jump the start of one, through closures within
\* closures and in both orders of evaluation, until an operand is misread.
THEOREM StaysInStep == Spec /\ Listable => []InStep
<1>1. DInv => InStep
  BY DEF DInv, InStep
<1> QED BY <1>1, ListableForGood, PTL

(***************************************************************************)
(* The distances of jumps.                                                 *)
(***************************************************************************)
\* A number without its lowest eight bits.
LEMMA EightBits ==
  ASSUME NEW m \in Nat
  PROVE  /\ m % 256 \in 0 .. 255 /\ m \div 256 \in Nat
         /\ m = 256 * (m \div 256) + (m % 256)
         /\ m < 256 => m % 256 = m
<1>1. m % 256 \in 0 .. 255 /\ m \div 256 \in Nat
  OBVIOUS
<1>2. m = 256 * (m \div 256) + (m % 256)
  OBVIOUS
<1>3. m < 256 => m % 256 = m
  OBVIOUS
<1> QED BY <1>1, <1>2, <1>3

\* Shifts by two and three bytes are shifts by one byte, repeated.
LEMMA Shifts ==
  ASSUME NEW m \in Nat
  PROVE  /\ m \div 2^16 = (m \div 256) \div 256
         /\ m \div 2^24 = ((m \div 256) \div 256) \div 256
<1>1. m \div 2^16 = (m \div 256) \div 256
  BY SMT
<1>2. m \div 2^24 = ((m \div 256) \div 256) \div 256
  BY SMT
<1> QED BY <1>1, <1>2, Zenon

\* readUint32, with which the listing is made, reads a distance of 32 bits as
\* emit_uint wrote it.  run()'s UINT reads its lowest eight bits: the jump the
\* listing shows is the one that is made if and only if it is shorter than 256.
THEOREM DistancesRead ==
  ASSUME NEW n \in Nat, n < 256 * 256 * 256 * 256,
         NEW code \in Seq(0 .. 255), NEW i \in Nat,
         i + 4 <= Len(code), \A k \in 1 .. 4 : code[i + k] = UintBytes(n)[k]
  PROVE  /\ Uint32At(code, i) = n
         /\ UintAt(code, i) = Uint32At(code, i) <=> n < 256
<1>1. PICK q1 \in Nat, q2 \in Nat, q3 \in Nat :
        q1 = n \div 256 /\ q2 = q1 \div 256 /\ q3 = q2 \div 256
  BY EightBits
<1>2. PICK b0 \in 0 .. 255, b1 \in 0 .. 255, b2 \in 0 .. 255 :
        b0 = n % 256 /\ b1 = q1 % 256 /\ b2 = q2 % 256
  BY EightBits
<1>3. n = 256 * q1 + b0 /\ q1 = 256 * q2 + b1 /\ q2 = 256 * q3 + b2
  BY <1>1, <1>2, EightBits
<1>4. q3 < 256
  BY <1>3
<1>5. q3 % 256 = q3
  BY <1>4, EightBits
<1>6. n \div 2^24 = q3 /\ n \div 2^16 = q2 /\ n \div 2^8 = q1
  <2>1. n \div 2^8 = n \div 256
    BY SMT
  <2>2. n \div 2^16 = (n \div 256) \div 256 /\ n \div 2^24 = ((n \div 256) \div 256) \div 256
    BY Shifts, Zenon
  <2> QED BY <1>1, <2>1, <2>2, Zenon
<1>7. UintBytes(n) = <<q3, b2, b1, b0>>
  <2>1. UintBytes(n) = <<q3 % 256, q2 % 256, q1 % 256, n % 256>>
    BY <1>6, Zenon DEF UintBytes
  <2> QED BY <2>1, <1>2, <1>5
<1>8. code[i + 1] = q3 /\ code[i + 2] = b2 /\ code[i + 3] = b1 /\ code[i + 4] = b0
  BY <1>7
<1>9. Uint32At(code, i) = q3 * 2^24 + b2 * 2^16 + b1 * 2^8 + b0
  BY <1>8, Zenon DEF Uint32At
<1>10. Uint32At(code, i) = n
  BY <1>3, <1>9, SMT
<1>11. UintAt(code, i) = b0 /\ (b0 = n <=> n < 256)
  <2>1. UintAt(code, i) = b0
    BY <1>8 DEF UintAt
  <2>2. n < 256 => b0 = n
    BY <1>2, EightBits
  <2>3. b0 = n => n < 256
    OBVIOUS
  <2> QED BY <2>1, <2>2, <2>3, Zenon
<1> QED BY <1>10, <1>11
=============================================================================
