------------------------------- MODULE Layout -------------------------------
(***************************************************************************)
(* What the compiler counts on, said of the code alone: a layout gives     *)
(* each offset of a function at which control can be the height of the     *)
(* stack above the frame's slot 0, the locals that closures may have       *)
(* captured, and how many captures of a CLOSURE are still to come.         *)
(*                                                                         *)
(* Code is well laid when every instruction leads from its own place to    *)
(* places of its function that agree with it.  run() checks none of this   *)
(* (it has no verifier): it is why the compiler's count of locals can be   *)
(* used for slots, and a jump for what is behind it.                       *)
(***************************************************************************)
EXTENDS VM

CONSTANTS
  Layouts,     \* for each program and function: offsets to places
  Starts,      \* for each program: where the compiler starts instructions
  Statements   \* and statements, with the locals counted there

Place == [height : Nat, caught : SUBSET Nat, due : Nat]

(***************************************************************************)
(* What an instruction does to the height and where it leads.              *)
(***************************************************************************)
WithOperand == {"CONST", "GET_VAR", "DEF_VAR", "SET_VAR", "GET_LOCAL", "SET_LOCAL",
                "GET_UPVAL", "SET_UPVAL", "CALL", "CLOSURE"}

\* How many values an instruction leaves of those it Takes, and new ones.
Gives(i) ==
  CASE i.op \in DOMAIN Rotations -> Rotations[i.op]
    [] i.op \in {"POP", "CLOSE", "DEF_VAR", "SET_VAR", "SET_LOCAL", "SET_UPVAL"} -> 0
    [] OTHER -> 1

Behind(i, p) == IF i.op \in WithOperand THEN i.end ELSE p + 1

\* The offsets an instruction at p leads to, and the height there.
Exits(i, p, height) ==
  CASE i.op = "RET" \/ i.op \notin Handled -> {}
    [] i.op = "GOTO"         -> {<<i.uint, height>>}
    [] i.op = "JMP"          -> {<<p + 5 + i.uint, height>>}
    [] i.op \in {"OR", "AND"} -> {<<p + 5 + i.uint, height>>, <<p + 5, height - 1>>}
    [] OTHER                 -> {<<Behind(i, p), height - Takes(i) + Gives(i)>>}

\* The places that follow place at offset p of function fn: behind a capture c,
\* and where instruction i leads.
BehindCapture(c, place) ==
  {<<c.end, [height |-> place.height, due |-> place.due - 1,
             caught |-> place.caught \cup IF c.local THEN {c.arg} ELSE {}]>>}

LedTo(fns, fn, i, p, place) ==
  {<<exit[1], [height |-> exit[2],
               due    |-> IF i.op = "CLOSURE" THEN fns[fn.consts[i.arg + 1][2]].nup ELSE 0,
               caught |-> place.caught \ IF i.op = "CLOSE" THEN {place.height - 1} ELSE {}]>> :
     exit \in Exits(i, p, place.height)}

Following(fns, fn, p, place) ==
  IF place.due > 0 THEN BehindCapture(CaptureAt(fn.code, p), place)
  ELSE LedTo(fns, fn, Decode(fn.code, p), p, place)

(***************************************************************************)
(* Code that is well laid.                                                 *)
(***************************************************************************)
\* What is captured is on the stack or an upvalue of the function.
FindsVariable(fn, c, place) ==
  c.arg \in IF c.local THEN 1 .. place.height - 1 ELSE 0 .. fn.nup - 1

\* The operands of an instruction are above the callee and in the code, they
\* name what is there, and a captured local leaves the stack by CLOSE or RET.
FindsAll(fns, fn, i, place) ==
  /\ i.op # "end"
  /\ i.op = "CALL" => i.arg \in Nat
  /\ (IF i.op = "RET" THEN 1 ELSE Takes(i)) < place.height
  /\ i.op \notin {"CLOSE", "RET"} => \A x \in place.caught : x < place.height - Takes(i)
  /\ i.op \in {"CONST", "GET_VAR", "DEF_VAR", "SET_VAR", "CLOSURE"} =>
       i.arg \in 0 .. Len(fn.consts) - 1
  /\ i.op \in {"GET_VAR", "DEF_VAR", "SET_VAR"} => IsStr(fn.consts[i.arg + 1])
  /\ i.op = "CLOSURE" => IsFunc(fn.consts[i.arg + 1]) /\ fn.consts[i.arg + 1][2] \in DOMAIN fns
  /\ i.op = "GET_LOCAL" => i.arg \in 0 .. place.height - 1
  /\ i.op = "SET_LOCAL" => i.arg \in 1 .. place.height - 1
  /\ i.op \in {"GET_UPVAL", "SET_UPVAL"} => i.arg \in 0 .. fn.nup - 1
  /\ i.op \in Jumps => i.uint # Absent

Finds(fns, fn, p, place) ==
  IF place.due > 0 THEN FindsVariable(fn, CaptureAt(fn.code, p), place)
  ELSE FindsAll(fns, fn, Decode(fn.code, p), place)

Agree(place, other) ==
  /\ place.height = other.height /\ place.due = other.due
  /\ place.caught \subseteq other.caught

\* A function, from its entry, where the frame holds the callee and the arguments.
Fits(fns, fn, layout) ==
  /\ layout \in [DOMAIN layout -> Place]
  /\ \A p \in DOMAIN layout :
       /\ p \in Nat
       /\ \A x \in layout[p].caught : x \in 1 .. layout[p].height - 1
       /\ Finds(fns, fn, p, layout[p])
       /\ \A next \in Following(fns, fn, p, layout[p]) :
            next[1] \in DOMAIN layout /\ Agree(next[2], layout[next[1]])
  /\ 0 \in DOMAIN layout
  /\ Agree([height |-> fn.arity + 1, due |-> 0, caught |-> {}], layout[0])

\* A layout knows nothing the compiler does not: its instructions start where
\* the compiler starts one, and its height at a statement is the count of locals.
Counted(layout, f, starts, statements) ==
  /\ \A p \in DOMAIN layout : layout[p].due = 0 => <<f, p>> \in starts
  /\ \A s \in statements : s[1] = f /\ s[2] \in DOMAIN layout => layout[s[2]].height = s[3]

LaidOut(fns, layouts, starts, statements) ==
  /\ fns[1].nup = 0 /\ fns[1].arity = 0
  /\ \A f \in DOMAIN fns :
       Fits(fns, fns[f], layouts[f]) /\ Counted(layouts[f], f, starts, statements)

WellLaidPrograms ==
  LET layouts == Layouts starts == Starts statements == Statements
  IN  {p \in DOMAIN Programs : LaidOut(Programs[p], layouts[p], starts[p], statements[p])}

(***************************************************************************)
(* Properties.                                                             *)
(***************************************************************************)
\* The code the compiler makes of the programs of a check is well laid, whatever
\* way control takes through jumps, loops and branches.  That of an if without
\* else is not (compiler.cpp:615), and no program of MCEngel has one.
WellLaid == src \in WellLaidPrograms

\* The locations of the upvalues that are not closed.
Locs == {upvals[u].loc : u \in DOMAIN upvals} \ {Closed}

\* A frame whose window is base up to the ceiling is at spot as its layout has
\* it: that high, with that many captures due, and no other local captured.
Sits(layout, spot, base, ceiling, due, locs) ==
  /\ spot \in DOMAIN layout
  /\ layout[spot].height = ceiling - base
  /\ layout[spot].due = due
  /\ \A x \in locs : x \in base .. ceiling - 1 => x - base \in layout[spot].caught

CurrentSits == Sits(Layouts[src][Closure.func], ip, Frame.slots, top, pend, Locs)

\* A frame that has called another waits behind its call, and the result will be
\* in the place of the callee.
CallersSit ==
  \A n \in 1 .. Len(frames) - 1 :
    Sits(Layouts[src][closures[frames[n].clo].func], frames[n].ip,
         frames[n].slots, frames[n + 1].slots + 1, 0, Locs)

\* Every closure has the upvalues its function counts, but for the newest one
\* while it is being made, which does not run yet.
ClosuresFilled ==
  /\ \A c \in DOMAIN closures :
       Len(closures[c].ups) + (IF c = Len(closures) THEN pend ELSE 0) = funcs[closures[c].func].nup
  /\ pend > 0 => Frame.clo # Len(closures)

\* Every frame, those that wait for a result among them, is where the layout
\* of its function says, with the stack as high as it says: what one frame does
\* to the stack is never visible in another.
FollowsLayout == status = "running" => CurrentSits /\ CallersSit /\ ClosuresFilled

\* Where a statement starts, the frame holds exactly the locals the compiler
\* has counted: no instruction sequence before it leaves a value or takes one.
StatementsBalance ==
  \A h \in 1 .. StackSize :
    status = "running" /\ pend = 0 /\ <<Closure.func, ip, h>> \in Statements[src]
      => top - Frame.slots = h

\* Every jump, call and return leads to the start of an instruction.
AtInstruction ==
  status = "running" /\ pend = 0 => <<Closure.func, ip>> \in Starts[src]

\* There is room for what an instruction pushes, or for a frame more.
Pushing == {"NULL", "DUP", "CONST", "GET_VAR", "GET_LOCAL", "GET_UPVAL", "CLOSURE"}

WithinLimits(i) ==
  /\ i.op \in Pushing => Room
  /\ i.op = "CALL" /\ i.arg \in 0 .. top - 1 /\ IsClo(Callee(i)) => Len(frames) < MaxFrames

\* Operands, if there are any, are INTs or strings where an instruction works
\* on these only.
OfTypes(i) ==
  /\ i.op = "CONCAT" /\ Operands(2) => Strs(2)
  /\ i.op \in Arithmetic /\ Operands(2) => Ints(2) \/ Concatenates(i)
  /\ i.op \in Integral \cup Comparing /\ Operands(2) => Ints(2)
  /\ i.op = "NEG" /\ Operands(1) => Ints(1)

\* What run() does has no meaning in C++ for one of two reasons: the program
\* needs more of the stack or more frames than there are, which nothing is
\* compared with, or an operand has a type the instruction is not for.  It never
\* lacks an operand, reads past the code, names what is not there or takes a
\* value that nothing was written to.
DefinedWithin ==
  status = "running" =>
    IF pend > 0 THEN Captures(Captured)
    ELSE \A i \in {Decode(Func.code, ip)} : WithinLimits(i) /\ OfTypes(i) => Meaningful(i)
=============================================================================
