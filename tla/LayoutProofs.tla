---------------------------- MODULE LayoutProofs ----------------------------
(***************************************************************************)
(* Proofs of what the compiler's counting is good for, for every program,  *)
(* stack and number of frames: code that is well laid (Layout) runs as it  *)
(* is laid out.  Whether code is well laid is seen by looking at it, one   *)
(* instruction at a time; what follows is about every run of it, whatever  *)
(* way control takes and however deep the calls are, as long as what is    *)
(* called gets as many arguments as it has parameters (CallsMatch).        *)
(*                                                                         *)
(* The argument.  Every frame is at a place of its layout (CurrentSits,    *)
(* CallersSit).  An instruction leads the running one to a place that      *)
(* follows and leaves the others, since what it takes, assigns and         *)
(* captures is above its own slot 0 (Finds); a call starts at the entry of *)
(* the callee's layout, with the caller behind the call, and a return      *)
(* meets the caller where it waits.  What the machine relies on and does   *)
(* not look at is then read off the layout, and the theorems of            *)
(* FrameProofs turn it into nested frames and captured variables that stay *)
(* what they are.                                                          *)
(*                                                                         *)
(* Last, values that are read have been written (Written), and so nothing  *)
(* but a limit or an operand's type can leave run() without a meaning      *)
(* (OnlyLimitsAndTypes).                                                   *)
(***************************************************************************)
EXTENDS Layout, FrameProofs

(***************************************************************************)
(* What a layout says of the place control is at.                          *)
(***************************************************************************)
\* The layout of the running function, and how high its frame is.
Here == Layouts[src][Closure.func]
High == top - Frame.slots

\* Each function of a well-laid program fits its layout.
LEMMA FunctionsFit ==
  ASSUME IInv, WellLaid, NEW f \in DOMAIN funcs
  PROVE  /\ Fits(funcs, funcs[f], Layouts[src][f])
         /\ Counted(Layouts[src][f], f, Starts[src], Statements[src])
  BY DEF WellLaid, WellLaidPrograms, LaidOut, IInv, TypeOK

\* The parts of a fitting layout.
LEMMA PlaceOK ==
  ASSUME NEW fns, NEW fn, NEW layout, Fits(fns, fn, layout), NEW p \in DOMAIN layout
  PROVE  /\ p \in Nat /\ layout[p].height \in Nat /\ layout[p].due \in Nat
         /\ \A x \in layout[p].caught : x \in 1 .. layout[p].height - 1
         /\ Finds(fns, fn, p, layout[p])
         /\ \A next \in Following(fns, fn, p, layout[p]) :
              next[1] \in DOMAIN layout /\ Agree(next[2], layout[next[1]])
<1>1. layout[p] \in Place
  BY DEF Fits
<1>2. layout[p].height \in Nat /\ layout[p].due \in Nat
  BY <1>1 DEF Place
<1> QED BY <1>2 DEF Fits

\* The numbers of the current frame.
LEMMA HighOK ==
  ASSUME IInv, status = "running"
  PROVE  /\ frames # <<>> /\ Frame.slots \in Nat /\ Frame.slots \in OnStack
         /\ top \in Nat /\ top <= StackSize /\ StackSize \in Nat
         /\ High \in Int /\ top = Frame.slots + High
         /\ ip \in Nat /\ pend \in Nat
         /\ Closure.func \in DOMAIN funcs /\ Func = funcs[Closure.func]
<1>1. frames # <<>>
  BY DEF IInv, TypeOK
<1>2. Frame.slots \in OnStack /\ Closure.func \in DOMAIN funcs
  BY <1>1, CurrentOK DEF IInv
<1>3. Frame.slots \in Nat /\ top \in Nat /\ top <= StackSize /\ StackSize \in Nat
  BY <1>2, StackType DEF OnStack, IInv
<1>4. ip \in Nat /\ pend \in Nat
  BY DEF IInv, TypeOK
<1> QED BY <1>1, <1>2, <1>3, <1>4 DEF High, Func

\* The place of the running function, and what is found there.
LEMMA NowFits ==
  ASSUME IInv, WellLaid, status = "running", CurrentSits
  PROVE  /\ ip \in DOMAIN Here
         /\ Here[ip].height = High /\ High \in Nat /\ Here[ip].due = pend
         /\ \A x \in Here[ip].caught : x \in 1 .. High - 1
         /\ \A x \in Locs : x \in Frame.slots .. top - 1 => x - Frame.slots \in Here[ip].caught
         /\ pend = 0 => FindsAll(funcs, Func, Now, Here[ip])
         /\ pend > 0 => FindsVariable(Func, Captured, Here[ip])
<1>1. /\ ip \in DOMAIN Here /\ Here[ip].height = High /\ Here[ip].due = pend
      /\ \A x \in Locs : x \in Frame.slots .. top - 1 => x - Frame.slots \in Here[ip].caught
  BY DEF CurrentSits, Sits, Here, High
<1>2. Fits(funcs, Func, Here)
  BY HighOK, FunctionsFit DEF Here
<1>3. /\ Here[ip].height \in Nat /\ \A x \in Here[ip].caught : x \in 1 .. Here[ip].height - 1
      /\ Finds(funcs, Func, ip, Here[ip])
  BY <1>1, <1>2, PlaceOK
<1>4. pend = 0 => FindsAll(funcs, Func, Now, Here[ip])
  BY <1>1, <1>3 DEF Finds, Now
<1>5. pend > 0 => FindsVariable(Func, Captured, Here[ip])
  BY <1>1, <1>3 DEF Finds, Captured
<1> QED BY <1>1, <1>3, <1>4, <1>5

\* Where the current instruction leads.
LEMMA ExitFits ==
  ASSUME IInv, WellLaid, status = "running", pend = 0, CurrentSits,
         NEW exit \in Exits(Now, ip, High)
  PROVE  /\ exit[1] \in DOMAIN Here /\ Here[exit[1]].height = exit[2]
         /\ Here[exit[1]].due = IF Now.op = "CLOSURE" THEN funcs[Const(Now)[2]].nup ELSE 0
         /\ \A x \in Here[ip].caught :
              (Now.op = "CLOSE" => x # High - 1) => x \in Here[exit[1]].caught
<1>1. /\ ip \in DOMAIN Here /\ Here[ip].height = High /\ Here[ip].due = 0
  BY NowFits
<1> DEFINE place == [height |-> exit[2],
                     due    |-> IF Now.op = "CLOSURE" THEN funcs[Func.consts[Now.arg + 1][2]].nup ELSE 0,
                     caught |-> Here[ip].caught \ IF Now.op = "CLOSE" THEN {High - 1} ELSE {}]
<1>2. Fits(funcs, Func, Here)
  BY HighOK, FunctionsFit DEF Here
<1>3. <<exit[1], place>> \in Following(funcs, Func, ip, Here[ip])
  <2>1. Following(funcs, Func, ip, Here[ip]) = LedTo(funcs, Func, Now, ip, Here[ip])
    BY <1>1 DEF Following, Now
  <2>2. <<exit[1], place>> \in LedTo(funcs, Func, Now, ip, Here[ip])
    BY <1>1 DEF LedTo
  <2> QED BY <2>1, <2>2
<1>4. exit[1] \in DOMAIN Here /\ Agree(place, Here[exit[1]])
  <2> HIDE DEF place
  <2>1. \A next \in Following(funcs, Func, ip, Here[ip]) :
          next[1] \in DOMAIN Here /\ Agree(next[2], Here[next[1]])
    BY <1>1, <1>2, PlaceOK
  <2>2. <<exit[1], place>>[1] \in DOMAIN Here /\ Agree(<<exit[1], place>>[2], Here[<<exit[1], place>>[1]])
    BY <1>3, <2>1
  <2> QED BY <2>2
<1> QED BY <1>4 DEF Agree, Const

\* Where a capture leads.
LEMMA CaptureFits ==
  ASSUME IInv, WellLaid, status = "running", pend > 0, CurrentSits
  PROVE  /\ Captured.end \in DOMAIN Here
         /\ Here[Captured.end].height = High /\ Here[Captured.end].due = pend - 1
         /\ Here[ip].caught \subseteq Here[Captured.end].caught
         /\ Captured.local => Captured.arg \in Here[Captured.end].caught
<1>1. /\ ip \in DOMAIN Here /\ Here[ip].height = High /\ Here[ip].due = pend
  BY NowFits
<1> DEFINE place == [height |-> Here[ip].height, due |-> Here[ip].due - 1,
                     caught |-> Here[ip].caught
                                  \cup IF Captured.local THEN {Captured.arg} ELSE {}]
<1>2. Fits(funcs, Func, Here)
  BY HighOK, FunctionsFit DEF Here
<1>3. <<Captured.end, place>> \in Following(funcs, Func, ip, Here[ip])
  <2>1. Following(funcs, Func, ip, Here[ip]) = BehindCapture(Captured, Here[ip])
    BY <1>1 DEF Following, Captured
  <2> QED BY <2>1 DEF BehindCapture
<1>4. Captured.end \in DOMAIN Here /\ Agree(place, Here[Captured.end])
  <2> HIDE DEF place
  <2>1. \A next \in Following(funcs, Func, ip, Here[ip]) :
          next[1] \in DOMAIN Here /\ Agree(next[2], Here[next[1]])
    BY <1>1, <1>2, PlaceOK
  <2>2. <<Captured.end, place>>[1] \in DOMAIN Here
        /\ Agree(<<Captured.end, place>>[2], Here[<<Captured.end, place>>[1]])
    BY <1>3, <2>1
  <2> QED BY <2>2
<1> QED BY <1>1, <1>4 DEF Agree

(***************************************************************************)
(* The inductive invariant, and what the machine relies on.                *)
(***************************************************************************)
LInv == IInv /\ WellLaid /\ FramesNest /\ NoDanglingUpvalue /\ FollowsLayout

\* The locations of open upvalues are on the stack.
LEMMA LocsAre ==
  ASSUME IInv
  PROVE  /\ \A x \in Locs : x \in OnStack /\ x \in Int
         /\ \A u \in 1 .. Len(upvals) : upvals[u].loc = Closed \/ upvals[u].loc \in Locs
         /\ \A x \in Locs : \E u \in 1 .. Len(upvals) : upvals[u].loc = x /\ x # Closed
         /\ NoDanglingUpvalue /\ status = "running" => \A x \in Locs : x < top
<1>1. DOMAIN upvals = 1 .. Len(upvals)
  BY LocsOK
<1>2. \A x \in Locs : \E u \in 1 .. Len(upvals) : upvals[u].loc = x /\ x # Closed
  BY <1>1 DEF Locs
<1>3. \A x \in Locs : x \in OnStack
  BY <1>2, LocsOK
<1>4. \A u \in 1 .. Len(upvals) : upvals[u].loc = Closed \/ upvals[u].loc \in Locs
  BY <1>1 DEF Locs
<1>5. NoDanglingUpvalue /\ status = "running" => \A x \in Locs : x < top
  BY <1>2, DanglingBelow DEF Below
<1> QED BY <1>2, <1>3, <1>4, <1>5, StackType DEF OnStack, IInv

\* The place where a frame waits for a result.
LEMMA CallerFits ==
  ASSUME LInv, status = "running", NEW n \in 1 .. Len(frames) - 1
  PROVE  /\ frames[n].slots \in Nat /\ frames[n + 1].slots \in Nat
         /\ frames[n].slots < frames[n + 1].slots
         /\ \A x \in Locs : x \in frames[n].slots .. frames[n + 1].slots => x > frames[n].slots
<1> DEFINE f == closures[frames[n].clo].func
           layout == Layouts[src][f]
           spot == frames[n].ip
<1>1. frames # <<>> /\ Len(frames) \in Nat
  BY FramesNumbered DEF LInv, IInv, TypeOK
<1>2. n \in 1 .. Len(frames) /\ n + 1 \in 1 .. Len(frames)
  BY <1>1
<1>3. frames[n].slots \in Nat /\ frames[n + 1].slots \in Nat
  BY <1>1, <1>2, FramesBelow, StackType DEF LInv, IInv, OnStack
<1>4. frames[n].slots < frames[n + 1].slots
  BY DEF LInv, FramesNest
<1>5. Fits(funcs, funcs[f], layout)
  <2> DEFINE F == [clo : DOMAIN closures, ip : Nat, slots : OnStack]
             C == [func : DOMAIN funcs, ups : Seq(DOMAIN upvals)]
  <2>1. frames \in Seq(F) /\ closures \in Seq(C)
    BY DEF LInv, IInv, TypeOK
  <2>2. frames[n] \in F
    <3> HIDE DEF F
    <3> QED BY <1>2, <2>1, ElementOfSeq
  <2>3. frames[n].clo \in 1 .. Len(closures)
    <3> HIDE DEF C
    <3>1. DOMAIN closures = 1 .. Len(closures)
      BY <2>1
    <3> QED BY <2>2, <3>1
  <2>4. closures[frames[n].clo] \in C
    <3> HIDE DEF C
    <3> QED BY <2>1, <2>3, ElementOfSeq
  <2>5. f \in DOMAIN funcs
    BY <2>4
  <2> HIDE DEF f
  <2> QED BY <2>5, FunctionsFit DEF LInv
<1>6. /\ spot \in DOMAIN layout
      /\ \A x \in Locs : x \in frames[n].slots .. (frames[n + 1].slots + 1) - 1
                           => x - frames[n].slots \in layout[spot].caught
  BY DEF LInv, FollowsLayout, CallersSit, Sits
<1>7. \A x \in layout[spot].caught : x \in 1 .. layout[spot].height - 1 /\ layout[spot].height \in Nat
  BY <1>5, <1>6, PlaceOK
<1> HIDE DEF layout, spot, f
<1>8. ASSUME NEW x \in Locs, x \in frames[n].slots .. frames[n + 1].slots
      PROVE  x > frames[n].slots
  <2>1. x \in Int /\ x \in frames[n].slots .. (frames[n + 1].slots + 1) - 1
    BY <1>3, <1>8, LocsAre DEF LInv
  <2>2. x - frames[n].slots \in 1 .. layout[spot].height - 1
    BY <1>6, <1>7, <2>1
  <2> QED BY <1>3, <1>6, <1>7, <2>1, <2>2
<1> QED BY <1>3, <1>4, <1>8

\* Slot 0 of a frame, where its closure is, is never captured.
LEMMA CalleesUncaptured ==
  ASSUME LInv, status = "running", NEW x \in Locs, NEW n \in 1 .. Len(frames)
  PROVE  x # frames[n].slots
<1>1. frames # <<>> /\ Len(frames) \in Nat /\ Frame = frames[Len(frames)]
  BY FramesNumbered DEF LInv, IInv, TypeOK, Frame, Last
<1>2. CASE n = Len(frames)
  <2>1. /\ High \in Nat /\ top = Frame.slots + High /\ Frame.slots \in Nat
        /\ x < top /\ x \in Int
    BY HighOK, NowFits, LocsAre DEF LInv, FollowsLayout
  <2>2. SUFFICES ASSUME x = Frame.slots PROVE FALSE
    BY <1>1, <1>2
  <2>3. x \in Frame.slots .. top - 1 /\ x - Frame.slots = 0
    BY <2>1, <2>2
  <2>4. 0 \in 1 .. High - 1
    BY <2>3, NowFits DEF LInv, FollowsLayout
  <2> QED BY <2>1, <2>4
<1>3. CASE n # Len(frames)
  <2>1. n \in 1 .. Len(frames) - 1
    BY <1>1, <1>3
  <2> DEFINE a == frames[n].slots
             b == frames[n + 1].slots
  <2>2. a \in Nat /\ b \in Nat /\ a < b /\ (x \in a .. b => x > a)
    BY <2>1, CallerFits
  <2> HIDE DEF a, b
  <2>3. x # a
    BY <2>2
  <2> QED BY <2>3 DEF a
<1> QED BY <1>2, <1>3

\* What an instruction of well-laid code takes is its own.
LEMMA TakesOwn ==
  ASSUME LInv, status = "running", pend = 0
  PROVE  /\ Now.op # "RET" => Takes(Now) \in Nat /\ Takes(Now) < High
         /\ High \in Nat /\ High > 0 /\ top = Frame.slots + High
         /\ Frame.slots \in Nat /\ top \in Nat
<1>1. /\ High \in Nat /\ top = Frame.slots + High /\ Frame.slots \in Nat /\ top \in Nat
      /\ FindsAll(funcs, Func, Now, Here[ip]) /\ Here[ip].height = High
  BY HighOK, NowFits DEF LInv, FollowsLayout
<1>2. Takes(Now) \in Nat
  <2>1. Now.op = "CALL" => Now.arg \in Nat
    BY <1>1 DEF FindsAll
  <2> QED BY <2>1 DEF Takes, Rotations
<1>3. (IF Now.op = "RET" THEN 1 ELSE Takes(Now)) < High
  BY <1>1 DEF FindsAll
<1> QED BY <1>1, <1>2, <1>3

\* Well-laid code keeps to its frame.
LEMMA LaidKeeps ==
  ASSUME LInv
  PROVE  KeepsToFrame
<1> SUFFICES ASSUME status = "running", pend = 0
             PROVE  /\ Now.op # "RET" => top - Takes(Now) > Frame.slots
                    /\ Now.op = "GET_LOCAL" => Frame.slots + Now.arg \in Frame.slots .. top - 1
                    /\ Now.op = "SET_LOCAL" => Frame.slots + Now.arg \in Frame.slots + 1 .. top - 1
                    /\ Now.op = "SET_UPVAL" /\ HasUpval(Now) =>
                         \A n \in DOMAIN frames : upvals[Upval(Now)].loc # frames[n].slots
  BY DEF KeepsToFrame, Now
<1>1. /\ Now.op # "RET" => Takes(Now) \in Nat /\ Takes(Now) < High
      /\ High \in Nat /\ High > 0 /\ top = Frame.slots + High
      /\ Frame.slots \in Nat
  BY TakesOwn
<1>2. FindsAll(funcs, Func, Now, Here[ip]) /\ Here[ip].height = High
  BY NowFits DEF LInv, FollowsLayout
<1>3. Now.op # "RET" => top - Takes(Now) > Frame.slots
  BY <1>1
<1>4. Now.op = "GET_LOCAL" => Frame.slots + Now.arg \in Frame.slots .. top - 1
  <2>1. Now.op = "GET_LOCAL" => Now.arg \in 0 .. High - 1
    BY <1>2 DEF FindsAll
  <2> QED BY <1>1, <2>1
<1>5. Now.op = "SET_LOCAL" => Frame.slots + Now.arg \in Frame.slots + 1 .. top - 1
  <2>1. Now.op = "SET_LOCAL" => Now.arg \in 1 .. High - 1
    BY <1>2 DEF FindsAll
  <2> QED BY <1>1, <2>1
<1>6. ASSUME HasUpval(Now), NEW n \in DOMAIN frames
      PROVE  upvals[Upval(Now)].loc # frames[n].slots
  <2>1. /\ n \in 1 .. Len(frames) /\ frames # <<>>
    BY <1>6, FramesNumbered DEF LInv, IInv, TypeOK
  <2>2. Upval(Now) \in 1 .. Len(upvals)
    BY <1>6, <2>1, UpvalOK DEF LInv
  <2>3. upvals[Upval(Now)].loc = Closed \/ upvals[Upval(Now)].loc \in Locs
    BY <2>2, LocsAre DEF LInv
  <2>4. frames[n].slots # Closed
    BY <2>1, FramesBelow, StackType DEF LInv, IInv, OnStack, Closed
  <2> QED BY <2>1, <2>3, <2>4, CalleesUncaptured
<1> QED BY <1>3, <1>4, <1>5, <1>6

\* Well-laid code leaves captured variables on the stack.
LEMMA LaidLeaves ==
  ASSUME LInv
  PROVE  LeavesCaptured
<1>1. CASE status = "running" /\ pend > 0
  <2>1. /\ Frame.slots \in Nat /\ High \in Nat /\ top = Frame.slots + High
        /\ FindsVariable(Func, Captured, Here[ip]) /\ Here[ip].height = High
    BY <1>1, HighOK, NowFits DEF LInv, FollowsLayout
  <2>2. Captured.local => Captured.arg \in 1 .. High - 1
    BY <2>1 DEF FindsVariable
  <2>3. Captured.local => Frame.slots + Captured.arg \in Frame.slots .. top - 1
    BY <2>1, <2>2
  <2> QED BY <1>1, <2>3 DEF LeavesCaptured
<1>2. CASE status = "running" /\ ~ (pend > 0)
  <2>1. pend = 0
    BY <1>2, HighOK DEF LInv
  <2>2. SUFFICES ASSUME Now.op \notin {"CLOSE", "RET"}, NEW n \in DOMAIN open,
                        NEW k \in 1 .. Takes(Now)
                 PROVE  Loc(n) # top - k
    BY <1>2 DEF LeavesCaptured, Now
  <2> DEFINE T == Takes(Now)
             l == Loc(n)
  <2>3. T \in Nat /\ T < High /\ High \in Nat /\ top = Frame.slots + High /\ Frame.slots \in Nat
    BY <1>2, <2>1, <2>2, TakesOwn
  <2>4. l \in Locs
    <3>1. open[n] \in 1 .. Len(upvals) /\ DOMAIN upvals = 1 .. Len(upvals)
      BY HeapType DEF LInv, IInv
    <3>2. Loc(n) # Closed
      BY DEF LInv, IInv, UpvaluesOK
    <3> QED BY <3>1, <3>2 DEF Locs, Loc
  <2>5. /\ l \in Frame.slots .. top - 1 => l - Frame.slots \in Here[ip].caught
        /\ \A x \in Here[ip].caught : x < High - T /\ x \in 1 .. High - 1
    <3>1. FindsAll(funcs, Func, Now, Here[ip]) /\ Here[ip].height = High
      BY <1>2, <2>1, NowFits DEF LInv, FollowsLayout
    <3> QED BY <1>2, <2>1, <2>2, <2>4, <3>1, NowFits DEF LInv, FollowsLayout, FindsAll
  <2>6. k \in 1 .. T
    OBVIOUS
  <2> HIDE DEF T, l
  <2>7. l # top - k
    <3>1. SUFFICES ASSUME l = top - k PROVE FALSE
      OBVIOUS
    <3>2. l \in Frame.slots .. top - 1 /\ l - Frame.slots = High - k
      BY <2>3, <2>6, <3>1
    <3>3. High - k < High - T
      BY <2>5, <3>2
    <3> QED BY <2>3, <2>6, <3>3
  <2> QED BY <2>7 DEF l
<1>3. CASE status # "running"
  BY <1>3 DEF LeavesCaptured
<1> QED BY <1>1, <1>2, <1>3

\* Well-laid code is at the start of an instruction when it executes one.
LEMMA LaidAtInstruction ==
  ASSUME LInv
  PROVE  AtInstruction
<1> SUFFICES ASSUME status = "running", pend = 0
             PROVE  <<Closure.func, ip>> \in Starts[src]
  BY DEF AtInstruction
<1>1. ip \in DOMAIN Here /\ Here[ip].due = 0
  BY NowFits DEF LInv, FollowsLayout
<1>2. Counted(Here, Closure.func, Starts[src], Statements[src])
  BY HighOK, FunctionsFit DEF Here, LInv
<1> QED BY <1>1, <1>2 DEF Counted

\* Well-laid code has as many values on the stack as the compiler has counted
\* locals when a statement starts.
LEMMA LaidBalances ==
  ASSUME LInv
  PROVE  StatementsBalance
<1> SUFFICES ASSUME NEW h \in 1 .. StackSize, status = "running", pend = 0,
                    <<Closure.func, ip, h>> \in Statements[src]
             PROVE  top - Frame.slots = h
  BY DEF StatementsBalance
<1>1. ip \in DOMAIN Here /\ Here[ip].height = High
  BY NowFits DEF LInv, FollowsLayout
<1>2. Counted(Here, Closure.func, Starts[src], Statements[src])
  BY HighOK, FunctionsFit DEF Here, LInv
<1> DEFINE s == <<Closure.func, ip, h>>
<1>3. s[1] = Closure.func /\ s[2] = ip /\ s[3] = h /\ s \in Statements[src]
  OBVIOUS
<1> HIDE DEF s
<1>4. Here[ip].height = h
  BY <1>1, <1>2, <1>3 DEF Counted
<1> QED BY <1>1, <1>4 DEF High

\* The running closure has all its upvalues.
LEMMA ClosureFull ==
  ASSUME LInv, status = "running"
  PROVE  Len(Closure.ups) = Func.nup
<1>1. /\ Frame.clo \in DOMAIN closures /\ Len(Closure.ups) \in Nat
      /\ Closure = closures[Frame.clo] /\ Func = funcs[Closure.func]
  BY HighOK, CurrentOK DEF LInv, IInv, Closure, Func
<1>2. pend > 0 => Frame.clo # Len(closures)
  BY DEF LInv, FollowsLayout, ClosuresFilled
<1>3. Len(Closure.ups) + (IF Frame.clo = Len(closures) THEN pend ELSE 0) = Func.nup
  BY <1>1 DEF LInv, FollowsLayout, ClosuresFilled
<1>4. Frame.clo = Len(closures) => pend = 0
  BY <1>2, HighOK DEF LInv
<1> QED BY <1>1, <1>3, <1>4

\* A local below the top is on the stack.
LEMMA LocalThere ==
  ASSUME LInv, status = "running", NEW i, i.arg \in 0 .. High - 1
  PROVE  HasLocal(i)
<1>1. Frame.slots \in Nat /\ top <= StackSize /\ StackSize \in Nat /\ top = Frame.slots + High
      /\ High \in Int
  BY HighOK DEF LInv
<1>2. Frame.slots + i.arg \in 0 .. StackSize - 1
  BY <1>1
<1>3. i.arg # Absent
  BY DEF Absent
<1> QED BY <1>2, <1>3 DEF HasLocal, OnStack

\* Well-laid code finds what its operands name.
LEMMA LaidFinds ==
  ASSUME LInv
  PROVE  FindsOperands
<1> SUFFICES ASSUME status = "running"
             PROVE  IF pend > 0 THEN Captures(Captured) ELSE HasOperands(Now)
  BY DEF FindsOperands, Now
<1>1. Here[ip].height = High /\ High \in Nat /\ pend \in Nat
  BY HighOK, NowFits DEF LInv, FollowsLayout
<1>2. Len(Closure.ups) = Func.nup
  BY ClosureFull
<1>3. CASE pend > 0
  <2>1. FindsVariable(Func, Captured, Here[ip])
    BY <1>3, NowFits DEF LInv, FollowsLayout
  <2>2. CASE Captured.local
    <3>1. Captured.arg \in 0 .. High - 1
      BY <1>1, <2>1, <2>2 DEF FindsVariable
    <3> QED BY <1>3, <2>2, <3>1, LocalThere DEF Captures
  <2>3. CASE ~ Captured.local
    BY <1>2, <1>3, <2>1, <2>3 DEF FindsVariable, Captures, HasUpval
  <2> QED BY <2>2, <2>3
<1>4. CASE pend = 0
  <2>1. FindsAll(funcs, Func, Now, Here[ip])
    BY <1>4, NowFits DEF LInv, FollowsLayout
  <2>2. Now.op \in {"GET_LOCAL", "SET_LOCAL"} => HasLocal(Now)
    <3>1. Now.op \in {"GET_LOCAL", "SET_LOCAL"} => Now.arg \in 0 .. High - 1
      <4>1. Now.op = "GET_LOCAL" => Now.arg \in 0 .. High - 1
        BY <1>1, <2>1 DEF FindsAll
      <4>2. Now.op = "SET_LOCAL" => Now.arg \in 1 .. High - 1
        BY <1>1, <2>1 DEF FindsAll
      <4> QED BY <1>1, <4>1, <4>2
    <3> QED BY <3>1, LocalThere
  <2>3. Now.op \in {"GET_UPVAL", "SET_UPVAL"} => HasUpval(Now)
    BY <1>2, <2>1 DEF FindsAll, HasUpval
  <2>4. Now.op \in {"CONST", "GET_VAR", "DEF_VAR", "SET_VAR", "CLOSURE"} => HasConst(Now)
    BY <2>1 DEF FindsAll, HasConst
  <2>5. Now.op \in {"GET_VAR", "DEF_VAR", "SET_VAR"} => HasName(Now)
    BY <2>1, <2>4 DEF FindsAll, HasName, Const
  <2>6. Now.op = "CLOSURE" => HasFunc(Now)
    BY <2>1, <2>4 DEF FindsAll, HasFunc, Const
  <2>7. Now.op # "end" /\ (Now.op \in Jumps => Now.uint # Absent)
    BY <2>1 DEF FindsAll
  <2> QED BY <1>4, <2>2, <2>3, <2>4, <2>5, <2>6, <2>7 DEF HasOperands
<1> QED BY <1>1, <1>3, <1>4

(***************************************************************************)
(* Where the instructions lead.                                            *)
(***************************************************************************)
\* Instructions that leave nothing on the stack of what they take.
LEMMA GivesNone ==
  ASSUME NEW i, i.op \in {"POP", "CLOSE", "DEF_VAR", "SET_VAR", "SET_LOCAL", "SET_UPVAL"}
  PROVE  Gives(i) = 0
  BY DEF Gives, Rotations

\* Instructions that leave one value.
LEMMA GivesOne ==
  ASSUME NEW i, i.op \in Arithmetic \cup Integral \cup Comparing \cup
                         {"CONCAT", "EQUIV", "NEG", "TO_STR", "NULL", "CONST", "DUP", "GET_LOCAL",
                          "GET_UPVAL", "GET_VAR", "CLOSURE", "CALL"}
  PROVE  Gives(i) = 1
  BY DEF Gives, Arithmetic, Integral, Comparing, Rotations

\* A rotation leaves what it moves.
LEMMA GivesRotated ==
  ASSUME NEW i, i.op \in DOMAIN Rotations
  PROVE  Gives(i) = Rotations[i.op]
  BY DEF Gives, Rotations

\* What a step of the current instruction is if it leads where Exits says.
Leads ==
  /\ status = "running" /\ pend = 0
  /\ UNCHANGED <<src, funcs, frames>>
  /\ <<ip', top' - Frame.slots>> \in Exits(Now, ip, High)

\* It touches neither closures nor upvalues.
Ordinary == Leads /\ UNCHANGED heap /\ Now.op \notin {"CLOSE", "CLOSURE"}

\* Instructions that go on behind themselves.
OnStackOps ==
  Arithmetic \cup Integral \cup Comparing \cup DOMAIN Rotations \cup
  {"CONCAT", "EQUIV", "NEG", "TO_STR", "NULL", "DUP", "POP", "CLOSE"}

LEMMA GoesOn ==
  ASSUME IInv, status = "running", pend = 0, UNCHANGED <<src, funcs, frames>>,
         \/ Now.op \in OnStackOps /\ ip' = ip + 1
         \/ Now.op \in WithOperand /\ ip' = Now.end,
         Takes(Now) \in Nat, Gives(Now) \in Nat, top' = top - Takes(Now) + Gives(Now)
  PROVE  Leads
<1>1. Now.op \in Handled /\ Now.op \notin Jumps \cup {"RET"}
  BY DEF OnStackOps, WithOperand, Handled, Jumps, Arithmetic, Integral, Comparing, Rotations
<1>2. Now.op \notin {"GOTO", "JMP", "OR", "AND", "RET"}
  BY <1>1 DEF Jumps
<1>3. Exits(Now, ip, High) = {<<Behind(Now, ip), High - Takes(Now) + Gives(Now)>>}
  BY <1>1, <1>2 DEF Exits
<1>4. ip' = Behind(Now, ip)
  BY DEF Behind, OnStackOps, WithOperand, Arithmetic, Integral, Comparing, Rotations
<1>5. top' - Frame.slots = High - Takes(Now) + Gives(Now)
  <2>1. Frame.slots \in Nat /\ top = Frame.slots + High /\ High \in Int
    BY HighOK
  <2> QED BY <2>1
<1> QED BY <1>3, <1>4, <1>5 DEF Leads

\* Pushing, popping, reading.
LEMMA MovesLead ==
  ASSUME IInv, NullOp \/ Dup \/ Pop \/ ConstOp \/ GetLocal \/ GetVar \/ GetUpval
  PROVE  Ordinary
<1> USE DEF IInv
<1>1. top \in Int
  BY StackType
<1>2. ASSUME NEW ops, NEW i \in At(ops), NEW v, Replace(0, v), Plain,
             \/ i.op \in {"NULL", "DUP"} /\ ip' = ip + 1
             \/ i.op \in {"CONST", "GET_LOCAL", "GET_VAR", "GET_UPVAL"} /\ ip' = i.end
      PROVE  Ordinary
  <2>1. i = Now /\ status = "running" /\ pend = 0
    BY <1>2, AtNow
  <2>2. Takes(Now) = 0 /\ Gives(Now) = 1
    BY <1>2, <2>1, TakesNone, GivesOne
  <2>3. top' = top - 0 + 1
    BY <1>1, <1>2 DEF Replace
  <2>4. UNCHANGED <<src, funcs, frames, heap>>
    BY <1>2 DEF Plain
  <2>5. Leads
    BY <1>2, <2>1, <2>2, <2>3, <2>4, GoesOn DEF OnStackOps, WithOperand
  <2> QED BY <1>2, <2>1, <2>4, <2>5 DEF Ordinary
<1>3. CASE NullOp
  <2>1. PICK i \in At({"NULL"}) : Replace(0, NullVal) /\ Plain1
    BY <1>3 DEF NullOp
  <2> QED BY <1>2, <2>1, AtOK DEF Plain1
<1>4. CASE Dup
  <2>1. PICK i \in At({"DUP"}) : Replace(0, Peek(0)) /\ Plain1
    BY <1>4 DEF Dup
  <2> QED BY <1>2, <2>1, AtOK DEF Plain1
<1>5. CASE ConstOp
  BY <1>2, <1>5, AtOK DEF ConstOp
<1>6. CASE GetLocal
  BY <1>2, <1>6, AtOK DEF GetLocal
<1>7. CASE GetVar
  BY <1>2, <1>7, AtOK DEF GetVar
<1>8. CASE GetUpval
  BY <1>2, <1>8, AtOK DEF GetUpval
<1>9. CASE Pop
  <2>1. PICK i \in At({"POP"}) : Drop(1) /\ Plain1
    BY <1>9 DEF Pop
  <2>2. i = Now /\ status = "running" /\ pend = 0 /\ Now.op = "POP"
    BY <2>1, AtNow, AtOK
  <2>3. Takes(Now) = 1 /\ Gives(Now) = 0 /\ top' = top - 1 + 0
    BY <1>1, <2>1, <2>2, TakesOne, GivesNone DEF Drop
  <2>4. UNCHANGED <<src, funcs, frames, heap>> /\ ip' = ip + 1
    BY <2>1 DEF Plain, Plain1
  <2> QED BY <2>2, <2>3, <2>4, GoesOn DEF OnStackOps, Ordinary
<1> QED BY <1>3, <1>4, <1>5, <1>6, <1>7, <1>8, <1>9

\* The instructions that compute.
LEMMA ComputingLeads ==
  ASSUME IInv, Calculate \/ Compare \/ Neg \/ ToStr \/ Joined \/ Equiv
  PROVE  Ordinary
<1> USE DEF IInv
<1>1. top \in Int
  BY StackType
<1>2. ASSUME NEW ops, NEW i \in At(ops), NEW n \in 1 .. 2, top' = top - n + 1, Plain1,
             \/ n = 2 /\ i.op \in Arithmetic \cup Integral \cup Comparing \cup {"CONCAT", "EQUIV"}
             \/ n = 1 /\ i.op \in {"NEG", "TO_STR"}
      PROVE  Ordinary
  <2>1. i = Now /\ status = "running" /\ pend = 0
    BY <1>2, AtNow
  <2>2. Takes(Now) = n /\ Gives(Now) = 1
    BY <1>2, <2>1, TakesOne, TakesTwo, GivesOne
  <2>3. UNCHANGED <<src, funcs, frames, heap>> /\ ip' = ip + 1
    BY <1>2 DEF Plain, Plain1
  <2>4. Now.op \in OnStackOps
    BY <1>2, <2>1 DEF OnStackOps
  <2>5. Leads
    BY <1>2, <2>1, <2>2, <2>3, <2>4, GoesOn
  <2>6. Now.op \notin {"CLOSE", "CLOSURE"}
    BY <1>2, <2>1 DEF Arithmetic, Integral, Comparing
  <2> QED BY <2>3, <2>5, <2>6 DEF Ordinary
<1>3. CASE Calculate
  BY <1>2, <1>3, AtOK DEF Calculate, Replace
<1>4. CASE Compare
  BY <1>2, <1>4, AtOK DEF Compare, Replace
<1>5. CASE Neg
  BY <1>2, <1>5, AtOK DEF Neg, Replace
<1>6. CASE ToStr
  BY <1>2, <1>6, AtOK DEF ToStr, Replace
<1>7. CASE Joined
  <2>1. PICK i \in At({"CONCAT", "ADD"}) : top' = top - 2 + 1 /\ Plain1
    BY <1>7 DEF Joined, Replace
  <2>2. i.op \in Arithmetic \cup Integral \cup Comparing \cup {"CONCAT", "EQUIV"}
    BY <2>1, AtOK DEF Arithmetic
  <2> QED BY <1>2, <2>1, <2>2
<1>8. CASE Equiv
  <2>1. PICK i \in At({"EQUIV"}) : top' = top - 1 /\ Plain1
    BY <1>8 DEF Equiv
  <2>2. i.op = "EQUIV"
    BY <2>1, AtOK
  <2>3. top' = top - 2 + 1
    BY <1>1, <2>1
  <2> QED BY <1>2, <2>1, <2>2, <2>3
<1> QED BY <1>3, <1>4, <1>5, <1>6, <1>7, <1>8

\* The jumps.
LEMMA JumpsLead ==
  ASSUME IInv, Goto \/ Jmp \/ Branch
  PROVE  Ordinary
<1> USE DEF IInv
<1>1. ASSUME NEW ops, NEW i \in At(ops), i.op \in Jumps
      PROVE  /\ i = Now /\ status = "running" /\ pend = 0
             /\ top \in Int /\ Frame.slots \in Int /\ High = top - Frame.slots
  BY <1>1, AtNow, HighOK DEF High
<1>2. CASE Goto
  <2>1. PICK i \in At({"GOTO"}) : ip' = i.uint /\ Plain /\ UNCHANGED top
    BY <1>2 DEF Goto
  <2>2. i.op = "GOTO"
    BY <2>1, AtOK
  <2>3. Exits(i, ip, High) = {<<i.uint, High>>}
    BY <2>2 DEF Exits, Handled, Jumps
  <2> QED BY <1>1, <2>1, <2>2, <2>3 DEF Ordinary, Leads, Plain, Jumps
<1>3. CASE Jmp
  <2>1. PICK i \in At({"JMP"}) : ip' = ip + 5 + i.uint /\ Plain /\ UNCHANGED top
    BY <1>3 DEF Jmp
  <2>2. i.op = "JMP"
    BY <2>1, AtOK
  <2>3. Exits(i, ip, High) = {<<ip + 5 + i.uint, High>>}
    BY <2>2 DEF Exits, Handled, Jumps
  <2> QED BY <1>1, <2>1, <2>2, <2>3 DEF Ordinary, Leads, Plain, Jumps
<1>4. CASE Branch
  <2>1. PICK i \in At({"OR", "AND"}) :
          /\ \/ ip' = ip + 5 + i.uint /\ top' = top
             \/ ip' = ip + 5 /\ top' = top - 1
          /\ Plain
    BY <1>4 DEF Branch, Drop
  <2>2. i.op \in {"OR", "AND"}
    BY <2>1, AtOK
  <2>3. Exits(i, ip, High) = {<<ip + 5 + i.uint, High>>, <<ip + 5, High - 1>>}
    BY <2>2 DEF Exits, Handled, Jumps
  <2>4. i = Now /\ status = "running" /\ pend = 0
    BY <1>1, <2>1, <2>2 DEF Jumps
  <2>5. top' = top => top' - Frame.slots = High
    BY <1>1, <2>1, <2>2 DEF Jumps
  <2>6. top' = top - 1 => top' - Frame.slots = High - 1
    BY <1>1, <2>1, <2>2 DEF Jumps
  <2>7. <<ip', top' - Frame.slots>> \in Exits(i, ip, High)
    BY <2>1, <2>3, <2>5, <2>6
  <2> QED BY <2>1, <2>2, <2>4, <2>7 DEF Ordinary, Leads, Plain
<1> QED BY <1>2, <1>3, <1>4

\* The globals, the rotations, assignment to a local, print.
LEMMA OthersLead ==
  ASSUME IInv, DefVar \/ SetVar \/ Rotate \/ SetLocal \/ CallNative
  PROVE  Ordinary
<1> USE DEF IInv
<1>1. top \in Int
  BY StackType
<1>2. CASE DefVar
  <2>1. PICK i \in At({"DEF_VAR"}) :
          Drop(1) /\ ip' = i.end /\ UNCHANGED <<src, funcs, frames, heap>>
    BY <1>2 DEF DefVar
  <2>2. i = Now /\ status = "running" /\ pend = 0 /\ Now.op = "DEF_VAR"
    BY <2>1, AtNow, AtOK
  <2>3. Takes(Now) = 1 /\ Gives(Now) = 0 /\ top' = top - 1 + 0
    BY <1>1, <2>1, <2>2, TakesOne, GivesNone DEF Drop
  <2> QED BY <2>1, <2>2, <2>3, GoesOn DEF WithOperand, Ordinary
<1>3. CASE SetVar
  <2>1. PICK i \in At({"SET_VAR"}) :
          ip' = i.end /\ UNCHANGED <<src, funcs, top, frames, heap>>
    BY <1>3 DEF SetVar
  <2>2. i = Now /\ status = "running" /\ pend = 0 /\ Now.op = "SET_VAR"
    BY <2>1, AtNow, AtOK
  <2>3. Takes(Now) = 0 /\ Gives(Now) = 0 /\ top' = top - 0 + 0
    BY <1>1, <2>1, <2>2, TakesNone, GivesNone
  <2> QED BY <2>1, <2>2, <2>3, GoesOn DEF WithOperand, Ordinary
<1>4. CASE SetLocal
  <2>1. PICK i \in At({"SET_LOCAL"}) : ip' = i.end /\ Plain /\ UNCHANGED top
    BY <1>4 DEF SetLocal
  <2>2. i = Now /\ status = "running" /\ pend = 0 /\ Now.op = "SET_LOCAL"
    BY <2>1, AtNow, AtOK
  <2>3. Takes(Now) = 0 /\ Gives(Now) = 0 /\ top' = top - 0 + 0
    BY <1>1, <2>1, <2>2, TakesNone, GivesNone
  <2>4. UNCHANGED <<src, funcs, frames, heap>>
    BY <2>1 DEF Plain
  <2> QED BY <2>1, <2>2, <2>3, <2>4, GoesOn DEF WithOperand, Ordinary
<1>5. CASE Rotate
  <2>1. PICK i \in At(DOMAIN Rotations) : Plain1 /\ UNCHANGED top
    BY <1>5 DEF Rotate
  <2>2. i = Now /\ status = "running" /\ pend = 0 /\ Now.op \in DOMAIN Rotations
    BY <2>1, AtNow, AtOK
  <2>3. /\ Takes(Now) = Rotations[Now.op] /\ Gives(Now) = Rotations[Now.op]
        /\ Rotations[Now.op] \in Nat /\ Now.op \notin {"CLOSE", "CLOSURE"}
    BY <2>2, TakesRotated, GivesRotated DEF Rotations
  <2>4. top' = top - Takes(Now) + Gives(Now)
    BY <1>1, <2>1, <2>3
  <2>5. UNCHANGED <<src, funcs, frames, heap>> /\ ip' = ip + 1
    BY <2>1 DEF Plain, Plain1
  <2> QED BY <2>2, <2>3, <2>4, <2>5, GoesOn DEF OnStackOps, Ordinary
<1>6. CASE CallNative
  <2>1. PICK i \in At({"CALL"}) :
          /\ Replace(i.arg + 1, NullVal) /\ ip' = i.end
          /\ UNCHANGED <<src, funcs, frames, heap>>
    BY <1>6 DEF CallNative
  <2>2. i = Now /\ status = "running" /\ pend = 0 /\ Now.op = "CALL" /\ Now.arg \in 0 .. top - 1
    BY <2>1, AtNow, AtOK DEF Meaningful
  <2>3. Takes(Now) = Now.arg + 1 /\ Gives(Now) = 1 /\ Now.arg + 1 \in Nat
    BY <1>1, <2>2, TakesArgs, GivesOne
  <2>4. top' = top - Takes(Now) + Gives(Now)
    BY <2>1, <2>2, <2>3 DEF Replace
  <2> QED BY <2>1, <2>2, <2>3, <2>4, GoesOn DEF WithOperand, Ordinary
<1> QED BY <1>2, <1>3, <1>4, <1>5, <1>6

\* CLOSURE, CLOSE and assignment to an upvalue lead on as well.
LEMMA HeapOpsLead ==
  ASSUME IInv, NewClosure \/ SetUpval \/ Close
  PROVE  Leads
<1> USE DEF IInv
<1>1. top \in Int
  BY StackType
<1>2. CASE NewClosure
  <2>1. PICK i \in At({"CLOSURE"}) :
          Replace(0, CloVal(Len(closures) + 1)) /\ ip' = i.end /\ UNCHANGED <<src, funcs, frames>>
    BY <1>2 DEF NewClosure
  <2>2. i = Now /\ status = "running" /\ pend = 0 /\ Now.op = "CLOSURE"
    BY <2>1, AtNow, AtOK
  <2>3. Takes(Now) = 0 /\ Gives(Now) = 1 /\ top' = top - 0 + 1
    BY <1>1, <2>1, <2>2, TakesNone, GivesOne DEF Replace
  <2> QED BY <2>1, <2>2, <2>3, GoesOn DEF WithOperand
<1>3. CASE SetUpval
  <2>1. PICK i \in At({"SET_UPVAL"}) : ip' = i.end /\ UNCHANGED <<src, funcs, top, frames>>
    BY <1>3 DEF SetUpval
  <2>2. i = Now /\ status = "running" /\ pend = 0 /\ Now.op = "SET_UPVAL"
    BY <2>1, AtNow, AtOK
  <2>3. Takes(Now) = 0 /\ Gives(Now) = 0 /\ top' = top - 0 + 0
    BY <1>1, <2>1, <2>2, TakesNone, GivesNone
  <2> QED BY <2>1, <2>2, <2>3, GoesOn DEF WithOperand
<1>4. CASE Close
  <2>1. PICK i \in At({"CLOSE"}) : Drop(1) /\ ip' = ip + 1 /\ UNCHANGED <<src, funcs, frames>>
    BY <1>4 DEF Close
  <2>2. i = Now /\ status = "running" /\ pend = 0 /\ Now.op = "CLOSE"
    BY <2>1, AtNow, AtOK
  <2>3. Takes(Now) = 1 /\ Gives(Now) = 0 /\ top' = top - 1 + 0
    BY <1>1, <2>1, <2>2, TakesOne, GivesNone DEF Drop
  <2> QED BY <2>1, <2>2, <2>3, GoesOn DEF OnStackOps
<1> QED BY <1>2, <1>3, <1>4

\* What a step is to the layout.
LEMMA LaidSteps ==
  ASSUME LInv, CallsMatch, [Next]_vars, status' = "running"
  PROVE  \/ Ordinary \/ NewClosure \/ SetUpval \/ Close
         \/ ShareUpvalue \/ NewUpvalue \/ InheritUpvalue
         \/ CallClosure \/ Return \/ UNCHANGED vars
<1>1. CASE NullOp \/ Dup \/ Pop \/ ConstOp \/ GetLocal \/ GetVar \/ GetUpval
  BY <1>1, MovesLead DEF LInv
<1>2. CASE Calculate \/ Compare \/ Neg \/ ToStr \/ Joined \/ Equiv
  BY <1>2, ComputingLeads DEF LInv
<1>3. CASE Goto \/ Jmp \/ Branch
  BY <1>3, JumpsLead DEF LInv
<1>4. CASE DefVar \/ SetVar \/ Rotate \/ SetLocal \/ CallNative
  BY <1>4, OthersLead DEF LInv
<1>5. ~ (DivideByZero \/ Undefined \/ NoCase \/ Misbehave \/ Finish)
  BY DEF DivideByZero, Undefined, NoCase, Misbehave, Finish
<1>6. ~ CallOther
  <2>1. SUFFICES ASSUME CallOther PROVE FALSE
    OBVIOUS
  <2>2. PICK i \in At({"CALL"}) : ~IsClo(Callee(i)) /\ Callee(i) # NativeVal
    BY <2>1 DEF CallOther
  <2>3. /\ i = Now /\ status = "running" /\ pend = 0 /\ Fetch = "CALL" /\ i.arg \in 0 .. top - 1
    BY <2>2, AtNow, AtOK DEF Meaningful, LInv, IInv
  <2> QED BY <2>2, <2>3 DEF CallsMatch, Now
<1> QED BY <1>1, <1>2, <1>3, <1>4, <1>5, <1>6 DEF Next

(***************************************************************************)
(* Steps within a frame.                                                   *)
(***************************************************************************)
\* The closures there were still run the functions they ran.
FuncsStay == \A c \in DOMAIN closures : closures'[c].func = closures[c].func

\* The closures of the frames exist.
LEMMA FrameClosures ==
  ASSUME IInv, NEW n \in 1 .. Len(frames)
  PROVE  frames[n].clo \in DOMAIN closures
<1> DEFINE F == [clo : DOMAIN closures, ip : Nat, slots : OnStack]
<1>1. frames \in Seq(F)
  BY DEF IInv, TypeOK
<1>2. frames[n] \in F
  <2> HIDE DEF F
  <2> QED BY <1>1, ElementOfSeq
<1> QED BY <1>2

\* A step to a place of the layout that captures nothing of the callers'.
LEMMA SameFrame ==
  ASSUME LInv, status = "running", UNCHANGED <<src, frames>>, FuncsStay,
         ip' \in DOMAIN Here, Here[ip'].height = top' - Frame.slots, Here[ip'].due = pend',
         \A x \in Locs' : x \in Int /\ IF x <= Frame.slots THEN x \in Locs
                                       ELSE x - Frame.slots \in Here[ip'].caught
  PROVE  CurrentSits' /\ CallersSit'
<1>1. /\ Frame.slots \in Nat /\ frames # <<>>
      /\ Frame.clo \in DOMAIN closures /\ Closure = closures[Frame.clo]
  BY HighOK, CurrentOK DEF LInv, IInv, Closure
<1>2. Frame' = Frame /\ Closure'.func = Closure.func
  BY <1>1 DEF Frame, Closure, Last, FuncsStay
<1>3. ASSUME NEW x \in Locs PROVE x # Frame.slots
  <2>1. Len(frames) \in 1 .. Len(frames) /\ Frame = frames[Len(frames)]
    BY <1>1, CurrentOK DEF LInv, IInv, Frame, Last
  <2> QED BY <2>1, CalleesUncaptured
<1>4. CurrentSits'
  <2>1. \A x \in Locs' : x \in Frame.slots .. top' - 1 => x - Frame.slots \in Here[ip'].caught
    BY <1>1, <1>3
  <2>2. Sits(Here, ip', Frame.slots, top', pend', Locs')
    BY <2>1 DEF Sits
  <2> QED BY <1>2, <2>2 DEF CurrentSits, Here
<1>5. ASSUME NEW n \in 1 .. Len(frames) - 1
      PROVE  Sits(Layouts[src][closures'[frames[n].clo].func], frames[n].ip, frames[n].slots,
                  frames[n + 1].slots + 1, 0, Locs')
  <2> DEFINE a == frames[n].slots
             b == frames[n + 1].slots
  <2>1. a \in Nat /\ b \in Nat
    BY CallerFits
  <2>2. n \in 1 .. Len(frames) /\ Len(frames) \in Nat
    BY FramesNumbered DEF LInv, IInv
  <2>3. b <= Frame.slots
    <3>1. n + 1 = Len(frames) \/ n + 1 \in 1 .. Len(frames) - 1
      BY <2>2
    <3>2. n + 1 = Len(frames) => b = Frame.slots
      BY DEF Frame, Last
    <3>3. n + 1 \in 1 .. Len(frames) - 1 => b < Frame.slots
      BY <1>1, FramesBelow DEF LInv, IInv
    <3> HIDE DEF b
    <3> QED BY <1>1, <2>1, <3>1, <3>2, <3>3
  <2>4. closures'[frames[n].clo].func = closures[frames[n].clo].func
    BY <2>2, FrameClosures DEF FuncsStay, LInv
  <2>5. Sits(Layouts[src][closures[frames[n].clo].func], frames[n].ip, a, b + 1, 0, Locs)
    BY DEF LInv, FollowsLayout, CallersSit
  <2>6. ASSUME NEW x \in Locs', x \in a .. (b + 1) - 1 PROVE x \in Locs
    <3> HIDE DEF a, b
    <3>1. x \in Int /\ x <= Frame.slots
      BY <1>1, <2>1, <2>3, <2>6
    <3> QED BY <3>1
  <2> QED BY <2>4, <2>5, <2>6 DEF Sits
<1>6. CallersSit'
  BY <1>5 DEF CallersSit
<1> QED BY <1>4, <1>6

\* A step of an instruction to where it leads, which captures nothing.
LEMMA LeadsOn ==
  ASSUME LInv, Leads, FuncsStay, Locs' \subseteq Locs,
         pend' = IF Now.op = "CLOSURE" THEN funcs[Const(Now)[2]].nup ELSE 0,
         Now.op = "CLOSE" => \A x \in Locs' : x # top - 1
  PROVE  CurrentSits' /\ CallersSit'
<1>1. status = "running" /\ pend = 0 /\ UNCHANGED <<src, funcs, frames>> /\ CurrentSits
  BY DEF Leads, LInv, FollowsLayout
<1> DEFINE exit == <<ip', top' - Frame.slots>>
<1>2. exit \in Exits(Now, ip, High) /\ exit[1] = ip' /\ exit[2] = top' - Frame.slots
  BY DEF Leads
<1>3. /\ ip' \in DOMAIN Here /\ Here[ip'].height = top' - Frame.slots
      /\ Here[ip'].due = pend'
      /\ \A x \in Here[ip].caught :
           (Now.op = "CLOSE" => x # High - 1) => x \in Here[ip'].caught
  <2> HIDE DEF exit
  <2>1. /\ exit[1] \in DOMAIN Here /\ Here[exit[1]].height = exit[2]
        /\ Here[exit[1]].due = IF Now.op = "CLOSURE" THEN funcs[Const(Now)[2]].nup ELSE 0
        /\ \A x \in Here[ip].caught :
             (Now.op = "CLOSE" => x # High - 1) => x \in Here[exit[1]].caught
    BY <1>1, <1>2, ExitFits DEF LInv
  <2> QED BY <1>2, <2>1
<1>4. ASSUME NEW x \in Locs', ~ (x <= Frame.slots)
      PROVE  x - Frame.slots \in Here[ip'].caught
  <2>1. x \in Locs /\ x \in Int /\ x < top
    BY <1>1, LocsAre DEF LInv
  <2>2. Frame.slots \in Nat /\ top \in Nat /\ High \in Int /\ top = Frame.slots + High
    BY <1>1, HighOK DEF LInv
  <2>3. x \in Frame.slots .. top - 1
    BY <1>4, <2>1, <2>2
  <2>4. x - Frame.slots \in Here[ip].caught
    BY <1>1, <2>1, <2>3, NowFits DEF LInv
  <2>5. Now.op = "CLOSE" => x - Frame.slots # High - 1
    BY <2>1, <2>2
  <2> QED BY <1>3, <2>4, <2>5
<1>5. \A x \in Locs' : x \in Int /\ x \in Locs
  BY LocsAre DEF LInv
<1> HIDE DEF exit
<1> QED BY <1>1, <1>3, <1>4, <1>5, SameFrame

\* Ordinary instructions.
LEMMA OrdinaryStays ==
  ASSUME LInv, Ordinary
  PROVE  CurrentSits' /\ CallersSit' /\ ClosuresFilled'
<1>1. Leads /\ UNCHANGED <<closures, upvals, pend>> /\ Now.op \notin {"CLOSE", "CLOSURE"}
  BY DEF Ordinary, heap
<1>2. status = "running" /\ pend = 0 /\ UNCHANGED <<src, funcs, frames>>
  BY <1>1 DEF Leads
<1>3. Locs' = Locs /\ FuncsStay
  BY <1>1 DEF Locs, FuncsStay
<1>4. ClosuresFilled'
  BY <1>1, <1>2 DEF LInv, FollowsLayout, ClosuresFilled, Frame, Last
<1> QED BY <1>1, <1>2, <1>3, <1>4, LeadsOn

\* Assignment to an upvalue moves none.
LEMMA SetUpvalStays ==
  ASSUME LInv, SetUpval
  PROVE  CurrentSits' /\ CallersSit' /\ ClosuresFilled'
<1>1. PICK i \in At({"SET_UPVAL"}) :
        /\ \/ upvals' = [upvals EXCEPT ![Upval(i)].closed = Peek(0)]
           \/ UNCHANGED upvals
        /\ UNCHANGED <<src, funcs, frames, closures, pend>>
  BY DEF SetUpval
<1>2. i = Now /\ status = "running" /\ pend = 0 /\ Now.op = "SET_UPVAL"
  BY <1>1, AtNow, AtOK DEF LInv, IInv
<1>3. Leads
  BY HeapOpsLead DEF LInv
<1>4. Locs' = Locs
  <2>1. \A u \in 1 .. Len(upvals) : upvals[u] \in [loc : OnStack \cup {Closed}, closed : LiveValue]
    BY HeapType, ElementOfSeq DEF LInv, IInv
  <2>2. DOMAIN upvals' = DOMAIN upvals /\ DOMAIN upvals = 1 .. Len(upvals)
    BY <1>1, HeapType DEF LInv, IInv
  <2>3. \A u \in DOMAIN upvals : upvals'[u].loc = upvals[u].loc
    BY <1>1, <2>1, <2>2
  <2> QED BY <2>2, <2>3 DEF Locs
<1>5. FuncsStay /\ ClosuresFilled'
  BY <1>1, <1>2 DEF FuncsStay, LInv, FollowsLayout, ClosuresFilled, Frame, Last
<1> QED BY <1>1, <1>2, <1>3, <1>4, <1>5, LeadsOn

\* Closing upvalues leaves the locations below, and all of the closures.
LEMMA CloseLocs ==
  ASSUME IInv, NEW x \in Int, CloseFrom(x)
  PROVE  /\ Locs' \subseteq Locs /\ \A y \in Locs' : y < x
         /\ UNCHANGED <<closures, pend>>
<1>1. UNCHANGED <<closures, pend>> /\ DOMAIN upvals' = 1 .. Len(upvals)
  BY CloseOK, HeapType DEF IInv
<1>2. ASSUME NEW y \in Locs'
      PROVE  y \in Locs /\ y < x
  <2>1. PICK u \in 1 .. Len(upvals) : upvals'[u].loc = y /\ y # Closed
    BY <1>1, <1>2 DEF Locs
  <2>2. CASE upvals'[u] = [loc |-> Closed, closed |-> stack[upvals[u].loc]]
    BY <2>1, <2>2
  <2>3. CASE upvals'[u] = upvals[u] /\ (upvals[u].loc = Closed \/ upvals[u].loc < x)
    BY <2>1, <2>3, LocsAre
  <2> QED BY <2>2, <2>3, CloseEach
<1> QED BY <1>1, <1>2

\* CLOSE takes the upvalues of the value it pops with it.
LEMMA CloseStays ==
  ASSUME LInv, Close
  PROVE  CurrentSits' /\ CallersSit' /\ ClosuresFilled'
<1>1. PICK i \in At({"CLOSE"}) :
        CloseFrom(top - 1) /\ UNCHANGED <<src, funcs, frames>>
  BY DEF Close
<1>2. i = Now /\ status = "running" /\ pend = 0 /\ Now.op = "CLOSE" /\ top - 1 \in Int
  BY <1>1, AtNow, AtOK, StackType DEF LInv, IInv
<1>3. Leads
  BY HeapOpsLead DEF LInv
<1> DEFINE x == top - 1
<1>4. CloseFrom(x) /\ x \in Int
  BY <1>1, <1>2
<1>5. Locs' \subseteq Locs /\ (\A y \in Locs' : y < x) /\ UNCHANGED <<closures, pend>>
  <2> HIDE DEF x
  <2> QED BY <1>4, CloseLocs DEF LInv
<1>6. \A y \in Locs' : y # x
  <2> HIDE DEF x
  <2>1. \A y \in Locs' : y \in Int /\ y < x
    BY <1>5, LocsAre DEF LInv
  <2> QED BY <1>4, <2>1
<1>7. FuncsStay
  BY <1>5 DEF FuncsStay
<1>8. ClosuresFilled'
  BY <1>1, <1>2, <1>5 DEF LInv, FollowsLayout, ClosuresFilled, Frame, Last
<1> QED BY <1>2, <1>3, <1>5, <1>6, <1>7, <1>8, LeadsOn

\* The new closure of CLOSURE is the only one that is not full.
LEMMA NewClosureStays ==
  ASSUME LInv, NewClosure
  PROVE  CurrentSits' /\ CallersSit' /\ ClosuresFilled'
<1>1. PICK i \in At({"CLOSURE"}) :
        /\ closures' = Append(closures, [func |-> Const(i)[2], ups |-> <<>>])
        /\ pend' = funcs[Const(i)[2]].nup
        /\ UNCHANGED <<src, funcs, frames, upvals>>
  BY DEF NewClosure
<1>2. /\ i = Now /\ status = "running" /\ pend = 0 /\ Now.op = "CLOSURE"
      /\ frames # <<>>
  BY <1>1, AtNow, AtOK DEF LInv, IInv
<1>3. Leads
  BY HeapOpsLead DEF LInv
<1>4. Locs' = Locs
  BY <1>1 DEF Locs
<1> DEFINE C == [func : DOMAIN funcs, ups : Seq(DOMAIN upvals)]
           f == Const(Now)[2]
           new == [func |-> f, ups |-> <<>>]
           N == Len(closures)
<1>5. closures \in Seq(C) /\ new \in C
  <2>1. HasFunc(i)
    BY <1>1, <1>2, AtOK DEF Meaningful, LInv, IInv
  <2>2. f \in DOMAIN funcs
    BY <1>2, <2>1 DEF HasFunc
  <2> QED BY <2>2 DEF LInv, IInv, TypeOK
<1>6. /\ N \in Nat /\ DOMAIN closures = 1 .. N
      /\ Len(closures') = N + 1 /\ DOMAIN closures' = 1 .. N + 1
      /\ closures'[N + 1] = new
      /\ \A c \in 1 .. N : closures'[c] = closures[c]
  <2>1. closures' = Append(closures, new)
    BY <1>1, <1>2
  <2> HIDE DEF C, new
  <2>2. N \in Nat /\ DOMAIN closures = 1 .. N
    BY <1>5
  <2> QED BY <1>5, <2>1, <2>2, AppendProperties
<1>7. FuncsStay
  BY <1>6 DEF FuncsStay
<1>8. ClosuresFilled'
  <2>1. Frame.clo \in 1 .. N /\ Frame' = Frame
    BY <1>1, <1>2, <1>6, CurrentOK DEF LInv, IInv, Frame, Last
  <2>2. Frame'.clo # Len(closures')
    BY <1>6, <2>1
  <2>3. ASSUME NEW c \in 1 .. N
        PROVE  Len(closures'[c].ups) + (IF c = Len(closures') THEN pend' ELSE 0)
                 = funcs'[closures'[c].func].nup
    <3>1. Len(closures[c].ups) + (IF c = N THEN pend ELSE 0) = funcs[closures[c].func].nup
      BY <1>2, <1>6 DEF LInv, FollowsLayout, ClosuresFilled
    <3> QED BY <1>1, <1>2, <1>6, <3>1
  <2>4. Len(closures'[N + 1].ups) + pend' = funcs'[closures'[N + 1].func].nup
    <3>1. Len(new.ups) = 0 /\ pend' \in Nat
      BY NextIInv DEF LInv, IInv, TypeOK, Next
    <3>2. pend' = funcs'[f].nup
      BY <1>1, <1>2
    <3> QED BY <1>6, <3>1, <3>2
  <2> QED BY <1>6, <2>2, <2>3, <2>4 DEF ClosuresFilled
<1>9. pend' = funcs[f].nup
  BY <1>1, <1>2
<1> QED BY <1>2, <1>3, <1>4, <1>7, <1>8, <1>9, LeadsOn

(***************************************************************************)
(* The captures of CLOSURE.                                                *)
(***************************************************************************)
\* A capture gives the newest closure one upvalue of those it still needs.
LEMMA CaptureFills ==
  ASSUME LInv, status = "running", pend > 0, NEW c, NEW u, Capture(c, u)
  PROVE  FuncsStay /\ ClosuresFilled'
<1> DEFINE S == DOMAIN upvals \cup {u}
           C == [func : DOMAIN funcs, ups : Seq(S)]
           N == Len(closures)
           ups == closures[N].ups
<1>1. /\ closures' = [closures EXCEPT ![N].ups = Append(ups, u)]
      /\ pend' = pend - 1 /\ UNCHANGED <<funcs, frames>>
  BY DEF Capture
<1>2. closures \in Seq(C)
  <2> DEFINE D == [func : DOMAIN funcs, ups : Seq(DOMAIN upvals)]
  <2>1. closures \in Seq(D)
    BY DEF LInv, IInv, TypeOK
  <2>2. D \subseteq C
    <3>1. Seq(DOMAIN upvals) \subseteq Seq(S)
      BY SeqMonotonic
    <3> QED BY <3>1
  <2> HIDE DEF C, D
  <2> QED BY <2>1, <2>2, SeqMonotonic
<1>3. N \in Nat /\ DOMAIN closures = 1 .. N /\ \A k \in 1 .. N : closures[k] \in C
  <2> HIDE DEF C
  <2>1. N \in Nat /\ DOMAIN closures = 1 .. N
    BY <1>2
  <2> QED BY <1>2, <2>1, ElementOfSeq
<1>4. Frame.clo \in 1 .. N /\ Frame' = Frame /\ Frame.clo # N
  BY <1>1, <1>3, HighOK, CurrentOK DEF LInv, IInv, Frame, Last, FollowsLayout, ClosuresFilled
<1>5. N \in 1 .. N /\ ups \in Seq(S)
  <2>1. N \in 1 .. N
    BY <1>3, <1>4
  <2>2. closures[N] \in C
    <3> HIDE DEF C
    <3> QED BY <1>3, <2>1
  <2> QED BY <2>1, <2>2
<1>6. Len(Append(ups, u)) = Len(ups) + 1 /\ Len(ups) \in Nat
  <2> HIDE DEF S, ups
  <2>1. u \in S
    BY DEF S
  <2> QED BY <1>5, <2>1, AppendProperties
<1>7. /\ DOMAIN closures' = 1 .. N /\ Len(closures') = N
      /\ \A k \in 1 .. N : closures'[k].func = closures[k].func
      /\ \A k \in 1 .. N : k # N => closures'[k].ups = closures[k].ups
      /\ closures'[N].ups = Append(ups, u)
  <2> DEFINE next == [closures[N] EXCEPT !.ups = Append(ups, u)]
  <2>1. closures' = [closures EXCEPT ![N] = next]
    BY <1>1
  <2>2. next.func = closures[N].func /\ next.ups = Append(ups, u)
    BY <1>3, <1>5
  <2> HIDE DEF next, C, ups
  <2>3. DOMAIN closures' = 1 .. N /\ Len(closures') = N
    BY <1>2, <1>3, <1>5, <2>1
  <2>4. /\ \A k \in 1 .. N : k # N => closures'[k] = closures[k]
        /\ closures'[N] = next
    BY <1>2, <1>3, <1>5, <2>1
  <2> QED BY <2>2, <2>3, <2>4
<1>8. FuncsStay
  BY <1>3, <1>7 DEF FuncsStay
<1>9. ASSUME NEW k \in 1 .. N
      PROVE  Len(closures'[k].ups) + (IF k = Len(closures') THEN pend' ELSE 0)
               = funcs'[closures'[k].func].nup
  <2>1. Len(closures[k].ups) + (IF k = N THEN pend ELSE 0) = funcs[closures[k].func].nup
    BY <1>3 DEF LInv, FollowsLayout, ClosuresFilled
  <2>2. CASE k # N
    BY <1>1, <1>7, <2>1, <2>2
  <2>3. CASE k = N
    <3>1. Len(closures'[N].ups) = Len(ups) + 1
      BY <1>6, <1>7
    <3>2. pend \in Nat
      BY HighOK DEF LInv
    <3>3. Len(ups) + pend = funcs[closures[N].func].nup
      BY <2>1, <2>3
    <3> HIDE DEF ups
    <3>4. Len(closures'[N].ups) + pend' = funcs[closures[N].func].nup
      BY <1>1, <1>6, <3>1, <3>2, <3>3
    <3> QED BY <1>1, <1>5, <1>7, <2>3, <3>4
  <2> QED BY <2>2, <2>3
<1>10. Frame'.clo # Len(closures')
  BY <1>4, <1>7
<1> QED BY <1>7, <1>8, <1>9, <1>10 DEF ClosuresFilled

\* A capture leads to what follows it.
LEMMA CaptureLeads ==
  ASSUME LInv, status = "running", pend > 0, NEW u, Capture(Captured, u),
         \A x \in Locs' : x \in Locs \/ (Captured.local /\ x = Frame.slots + Captured.arg)
  PROVE  CurrentSits' /\ CallersSit' /\ ClosuresFilled'
<1>1. /\ UNCHANGED <<src, funcs, top, frames>> /\ ip' = Captured.end /\ pend' = pend - 1
      /\ FuncsStay /\ ClosuresFilled'
  BY CaptureFills DEF Capture
<1>2. /\ Here[ip].height = High /\ High \in Nat /\ top = Frame.slots + High
      /\ Frame.slots \in Nat /\ top \in Nat /\ FindsVariable(Func, Captured, Here[ip])
      /\ \A x \in Locs : x \in Frame.slots .. top - 1 => x - Frame.slots \in Here[ip].caught
  BY HighOK, NowFits DEF LInv, FollowsLayout
<1>3. /\ Captured.end \in DOMAIN Here
      /\ Here[Captured.end].height = High /\ Here[Captured.end].due = pend - 1
      /\ Here[ip].caught \subseteq Here[Captured.end].caught
      /\ Captured.local => Captured.arg \in Here[Captured.end].caught
  BY CaptureFits DEF LInv, FollowsLayout
<1>4. Captured.local => Captured.arg \in 1 .. High - 1
  BY <1>2 DEF FindsVariable
<1>5. ASSUME NEW x \in Locs'
      PROVE  x \in Int /\ IF x <= Frame.slots THEN x \in Locs
                          ELSE x - Frame.slots \in Here[ip'].caught
  <2>1. CASE x \in Locs
    <3>1. x \in Int /\ x < top
      BY <2>1, LocsAre DEF LInv
    <3>2. CASE ~ (x <= Frame.slots)
      <4>1. x \in Frame.slots .. top - 1
        BY <1>2, <3>1, <3>2
      <4> QED BY <1>1, <1>2, <1>3, <2>1, <3>1, <3>2, <4>1
    <3> QED BY <2>1, <3>1, <3>2
  <2>2. CASE Captured.local /\ x = Frame.slots + Captured.arg
    <3>1. x \in Int /\ ~ (x <= Frame.slots) /\ x - Frame.slots = Captured.arg
      BY <1>2, <1>4, <2>2
    <3> QED BY <1>1, <1>3, <2>2, <3>1
  <2> QED BY <2>1, <2>2
<1>6. top' - Frame.slots = High
  BY <1>1 DEF High
<1> QED BY <1>1, <1>3, <1>5, <1>6, SameFrame

\* Whether the variable is new, shared or inherited.
LEMMA CapturesStay ==
  ASSUME LInv, ShareUpvalue \/ NewUpvalue \/ InheritUpvalue
  PROVE  CurrentSits' /\ CallersSit' /\ ClosuresFilled'
<1>1. CASE ShareUpvalue
  <2>1. PICK c \in ToCapture(TRUE) : (\E u : Capture(c, u)) /\ UNCHANGED upvals
    BY <1>1 DEF ShareUpvalue
  <2>2. c = Captured /\ status = "running" /\ pend > 0 /\ Locs' = Locs
    BY <2>1 DEF ToCapture, Locs
  <2>3. PICK u : Capture(Captured, u)
    BY <2>1, <2>2
  <2>4. \A x \in Locs' : x \in Locs \/ (Captured.local /\ x = Frame.slots + Captured.arg)
    BY <2>2
  <2> QED BY <2>2, <2>3, <2>4, CaptureLeads
<1>2. CASE InheritUpvalue
  <2>1. PICK c \in ToCapture(FALSE) : (\E u : Capture(c, u)) /\ UNCHANGED upvals
    BY <1>2 DEF InheritUpvalue
  <2>2. c = Captured /\ status = "running" /\ pend > 0 /\ Locs' = Locs
    BY <2>1 DEF ToCapture, Locs
  <2>3. PICK u : Capture(Captured, u)
    BY <2>1, <2>2
  <2>4. \A x \in Locs' : x \in Locs \/ (Captured.local /\ x = Frame.slots + Captured.arg)
    BY <2>2
  <2> QED BY <2>2, <2>3, <2>4, CaptureLeads
<1>3. CASE NewUpvalue
  <2>1. PICK c \in ToCapture(TRUE) : \E u : Capture(c, u)
    BY <1>3 DEF NewUpvalue
  <2>2. c = Captured /\ status = "running" /\ pend > 0 /\ Captured.local
    BY <1>3, <2>1, CaptureStep DEF ToCapture, LInv
  <2>3. ASSUME NEW x \in Locs' PROVE x \in Locs \/ x = Frame.slots + Captured.arg
    <3>1. /\ Len(upvals') = Len(upvals) + 1 /\ Len(upvals) \in Nat
          /\ upvals'[Len(upvals) + 1].loc = Frame.slots + Captured.arg
          /\ \A u \in 1 .. Len(upvals) : upvals'[u] = upvals[u]
      BY <1>3, CaptureStep, LocsOK DEF LInv
    <3>2. DOMAIN upvals' = 1 .. Len(upvals')
      <4> DEFINE T == [loc : OnStack \cup {Closed}, closed : LiveValue']
      <4>1. upvals' \in Seq(T)
        BY <1>3, NextIInv DEF LInv, IInv, TypeOK, Next
      <4> HIDE DEF T
      <4> QED BY <4>1
    <3>3. PICK u \in 1 .. Len(upvals) + 1 : upvals'[u].loc = x /\ x # Closed
      BY <2>3, <3>1, <3>2 DEF Locs
    <3>4. CASE u \in 1 .. Len(upvals)
      BY <3>1, <3>3, <3>4, LocsAre DEF LInv
    <3>5. CASE u = Len(upvals) + 1
      BY <3>1, <3>3, <3>5
    <3> QED BY <3>1, <3>3, <3>4, <3>5
  <2>4. PICK u : Capture(Captured, u)
    BY <2>1, <2>2
  <2>5. \A x \in Locs' : x \in Locs \/ (Captured.local /\ x = Frame.slots + Captured.arg)
    BY <2>2, <2>3
  <2> QED BY <2>2, <2>4, <2>5, CaptureLeads
<1> QED BY <1>1, <1>2, <1>3

(***************************************************************************)
(* Calls and returns.                                                      *)
(***************************************************************************)
\* A callee is at the entry of its function, over its arguments.
LEMMA EntrySits ==
  ASSUME LInv, CallsMatch, CallClosure
  PROVE  /\ Callee(Now)[2] \in DOMAIN closures
         /\ Sits(Layouts[src][closures[Callee(Now)[2]].func], 0, top - Now.arg - 1, top, 0, Locs)
<1> DEFINE arg == Now.arg
           clo == Callee(Now)[2]
           f == closures[clo].func
           layout == Layouts[src][f]
<1>1. /\ status = "running" /\ pend = 0 /\ frames # <<>>
      /\ Now.op = "CALL" /\ arg \in 0 .. top - 1 /\ IsClo(Callee(Now))
  BY CallPushes DEF LInv
<1>2. Callee(Now) # NativeVal
  BY <1>1 DEF IsClo, NativeVal
<1>3. funcs[f].arity = arg
  <2>1. Fetch = "CALL"
    BY <1>1 DEF Now, Decode, Fetch
  <2> QED BY <1>1, <1>2, <2>1 DEF CallsMatch, Now
<1>4. top \in Nat /\ arg \in Nat /\ arg < top
  BY <1>1, StackType DEF LInv, IInv
<1>5. clo \in DOMAIN closures
  BY <1>1, <1>4, PeekOK DEF Callee, LiveValue, LInv, IInv
<1>6. f \in DOMAIN funcs
  <2> DEFINE C == [func : DOMAIN funcs, ups : Seq(DOMAIN upvals)]
  <2>1. closures \in Seq(C)
    BY DEF LInv, IInv, TypeOK
  <2>2. closures[clo] \in C
    <3> HIDE DEF C
    <3>1. DOMAIN closures = 1 .. Len(closures)
      BY <2>1
    <3> QED BY <1>5, <2>1, <3>1, ElementOfSeq
  <2> QED BY <2>2
<1>7. /\ 0 \in DOMAIN layout
      /\ layout[0].height = funcs[f].arity + 1 /\ layout[0].due = 0
  <2>1. Fits(funcs, funcs[f], layout)
    BY <1>6, FunctionsFit DEF LInv
  <2> HIDE DEF layout, f
  <2> QED BY <2>1 DEF Fits, Agree
<1>8. ASSUME NEW x \in Locs PROVE x < top - arg - 1
  <2>1. x \in Int /\ x < top
    BY <1>1, LocsAre DEF LInv
  <2>2. /\ High \in Nat /\ top = Frame.slots + High /\ Frame.slots \in Nat
        /\ x \in Frame.slots .. top - 1 => x - Frame.slots \in Here[ip].caught
        /\ FindsAll(funcs, Func, Now, Here[ip]) /\ Here[ip].height = High
    BY <1>1, HighOK, NowFits DEF LInv, FollowsLayout
  <2>3. \A y \in Here[ip].caught : y < High - (arg + 1) /\ y \in 1 .. High - 1
    <3>1. Takes(Now) = arg + 1
      BY <1>1, TakesArgs
    <3> QED BY <1>1, <2>2, <3>1, NowFits DEF FindsAll, LInv, FollowsLayout
  <2>4. arg + 1 < High
    BY <1>1, <2>2, TakesArgs DEF FindsAll
  <2> HIDE DEF arg
  <2>5. CASE x \in Frame.slots .. top - 1
    BY <1>4, <2>1, <2>2, <2>3, <2>5
  <2>6. CASE x < Frame.slots
    BY <1>4, <2>1, <2>2, <2>4, <2>6
  <2> QED BY <2>1, <2>2, <2>5, <2>6
<1>9. layout[0].height = top - (top - arg - 1)
  <2> HIDE DEF layout, f, arg
  <2> QED BY <1>3, <1>4, <1>7
<1>10. \A x \in Locs : ~ (x \in top - arg - 1 .. top - 1)
  <2> HIDE DEF arg
  <2>1. \A x \in Locs : x \in Int
    BY LocsAre DEF LInv
  <2> QED BY <1>4, <1>8, <2>1
<1>11. Sits(layout, 0, top - arg - 1, top, 0, Locs)
  <2> HIDE DEF layout, arg
  <2> QED BY <1>7, <1>9, <1>10 DEF Sits
<1> QED BY <1>5, <1>11

\* The caller waits behind its call for a value in the callee's place.
LEMMA CallerSits ==
  ASSUME LInv, CallClosure
  PROVE  Sits(Here, Now.end, Frame.slots, top - Now.arg - 1 + 1, 0, Locs)
<1> DEFINE arg == Now.arg
<1>1. /\ status = "running" /\ pend = 0 /\ Now.op = "CALL" /\ arg \in 0 .. top - 1
  BY CallPushes DEF LInv
<1>2. /\ top \in Nat /\ arg \in Nat /\ High \in Nat /\ top = Frame.slots + High
      /\ Frame.slots \in Nat
  BY <1>1, HighOK, NowFits DEF LInv, FollowsLayout
<1>3. <<Now.end, High - (arg + 1) + 1>> \in Exits(Now, ip, High)
  <2>1. Takes(Now) = arg + 1 /\ Gives(Now) = 1 /\ Behind(Now, ip) = Now.end
    BY <1>1, TakesArgs, GivesOne DEF Behind, WithOperand
  <2> QED BY <1>1, <2>1 DEF Exits, Handled
<1>4. /\ Now.end \in DOMAIN Here /\ Here[Now.end].height = High - (arg + 1) + 1
      /\ Here[Now.end].due = 0
      /\ \A x \in Here[ip].caught : x \in Here[Now.end].caught
  <2> DEFINE exit == <<Now.end, High - (arg + 1) + 1>>
  <2>1. exit[1] = Now.end /\ exit[2] = High - (arg + 1) + 1 /\ exit \in Exits(Now, ip, High)
    BY <1>3
  <2> HIDE DEF exit
  <2> QED BY <1>1, <2>1, ExitFits DEF LInv, FollowsLayout
<1>5. Here[Now.end].height = (top - arg - 1 + 1) - Frame.slots
  <2> HIDE DEF arg
  <2> QED BY <1>2, <1>4
<1>6. ASSUME NEW x \in Locs, x \in Frame.slots .. (top - arg - 1 + 1) - 1
      PROVE  x - Frame.slots \in Here[Now.end].caught
  <2> HIDE DEF arg
  <2>1. x \in Int
    BY LocsAre DEF LInv
  <2>2. x \in Frame.slots .. top - 1
    BY <1>2, <1>6, <2>1
  <2> QED BY <1>1, <1>4, <2>2, NowFits DEF LInv, FollowsLayout
<1> QED BY <1>4, <1>5, <1>6 DEF Sits

\* A call leaves every frame where its layout has it.
LEMMA CallStays ==
  ASSUME LInv, CallsMatch, CallClosure
  PROVE  CurrentSits' /\ CallersSit' /\ ClosuresFilled'
<1> DEFINE m == Len(frames)
           base == top - Now.arg - 1
           clo == Callee(Now)[2]
<1>1. /\ status = "running" /\ pend = 0 /\ frames # <<>> /\ m \in Nat \ {0}
      /\ Len(frames') = m + 1 /\ DOMAIN frames' = 1 .. m + 1
      /\ frames'[m + 1] = [clo |-> clo, ip |-> 0, slots |-> base]
      /\ frames'[m].slots = Frame.slots /\ frames'[m].clo = Frame.clo
      /\ frames'[m].ip = Now.end
      /\ \A n \in 1 .. m - 1 : frames'[n] = frames[n]
  BY CallPushes DEF LInv
<1>2. UNCHANGED <<src, funcs, top, closures, upvals, pend>> /\ ip' = 0
  BY DEF CallClosure, heap
<1>3. Locs' = Locs
  BY <1>2 DEF Locs
<1>4. Frame = frames[m] /\ Frame'.clo = clo /\ Frame'.slots = base
  BY <1>1 DEF Frame, Last
<1>5. CurrentSits'
  <2>1. Closure' = closures[clo]
    BY <1>2, <1>4 DEF Closure
  <2> HIDE DEF m
  <2> QED BY <1>1, <1>2, <1>3, <1>4, <2>1, EntrySits DEF CurrentSits
<1>6. ASSUME NEW n \in 1 .. m
      PROVE  Sits(Layouts[src][closures[frames'[n].clo].func], frames'[n].ip,
                  frames'[n].slots, frames'[n + 1].slots + 1, 0, Locs)
  <2>1. CASE n = m
    <3>1. Here = Layouts[src][closures[frames'[m].clo].func]
      BY <1>1 DEF Here, Closure
    <3> HIDE DEF m
    <3> QED BY <1>1, <2>1, <3>1, CallerSits
  <2>2. CASE n \in 1 .. m - 1
    <3>1. frames'[n] = frames[n]
      BY <1>1, <2>2
    <3>2. frames'[n + 1].slots = frames[n + 1].slots
      <4>1. n + 1 = m \/ n + 1 \in 1 .. m - 1
        BY <1>1, <2>2
      <4> QED BY <1>1, <1>4, <4>1
    <3> QED BY <1>1, <2>2, <3>1, <3>2 DEF LInv, FollowsLayout, CallersSit
  <2> QED BY <1>1, <2>1, <2>2
<1>7. CallersSit'
  BY <1>1, <1>2, <1>3, <1>6 DEF CallersSit
<1>8. ClosuresFilled'
  BY <1>1, <1>2 DEF LInv, FollowsLayout, ClosuresFilled
<1> QED BY <1>5, <1>7, <1>8

\* The caller goes on where it has waited, with the result where it expects it.
LEMMA ReturnStays ==
  ASSUME LInv, Return
  PROVE  CurrentSits' /\ CallersSit' /\ ClosuresFilled'
<1> DEFINE m == Len(frames)
<1>1. /\ m \in Nat /\ m > 1
      /\ Len(frames') = m - 1 /\ \A n \in 1 .. m - 1 : frames'[n] = frames[n]
  BY ReturnPops DEF LInv
<1>2. PICK i \in At({"RET"}) : ip' = frames[m - 1].ip /\ UNCHANGED <<src, funcs>>
  BY DEF Return
<1>3. status = "running" /\ pend = 0
  BY <1>2, AtNow
<1>4. CloseFrom(Frame.slots) /\ top' = Frame.slots + 1 /\ Frame.slots \in Int
  BY ReturnStep DEF LInv
<1>5. Locs' \subseteq Locs /\ UNCHANGED <<closures, pend>>
  BY <1>4, CloseLocs DEF LInv
<1>6. ASSUME NEW n \in 1 .. m - 1
      PROVE  Sits(Layouts[src][closures[frames[n].clo].func], frames[n].ip,
                  frames[n].slots, frames[n + 1].slots + 1, 0, Locs')
  BY <1>3, <1>5 DEF LInv, FollowsLayout, CallersSit, Sits
<1>7. CurrentSits'
  <2>1. Frame' = frames[m - 1] /\ m - 1 \in 1 .. m - 1 /\ frames[m] = Frame /\ (m - 1) + 1 = m
    BY <1>1 DEF Frame, Last
  <2>2. Sits(Layouts[src][closures[frames[m - 1].clo].func], frames[m - 1].ip,
             frames[m - 1].slots, Frame.slots + 1, 0, Locs')
    <3> HIDE DEF m
    <3> QED BY <1>6, <2>1
  <2> HIDE DEF m
  <2> QED BY <1>2, <1>3, <1>4, <1>5, <2>1, <2>2 DEF CurrentSits, Closure
<1>8. CallersSit'
  <2>1. ASSUME NEW n \in 1 .. Len(frames') - 1
        PROVE  Sits(Layouts[src][closures[frames'[n].clo].func], frames'[n].ip,
                    frames'[n].slots, frames'[n + 1].slots + 1, 0, Locs')
    <3>1. n \in 1 .. m - 1 /\ n + 1 \in 1 .. m - 1
      BY <1>1
    <3> HIDE DEF m
    <3>2. frames'[n] = frames[n] /\ frames'[n + 1] = frames[n + 1]
      BY <1>1, <3>1
    <3> QED BY <1>6, <3>1, <3>2
  <2> QED BY <1>2, <1>5, <2>1 DEF CallersSit
<1>9. ClosuresFilled'
  BY <1>2, <1>3, <1>5 DEF LInv, FollowsLayout, ClosuresFilled
<1> QED BY <1>7, <1>8, <1>9

(***************************************************************************)
(* The invariant.                                                          *)
(***************************************************************************)
\* No step leaves the layout.
LEMMA LayoutFollowed ==
  ASSUME LInv, CallsMatch, [Next]_vars
  PROVE  FollowsLayout'
<1> SUFFICES ASSUME status' = "running"
             PROVE  CurrentSits' /\ CallersSit' /\ ClosuresFilled'
  BY DEF FollowsLayout
<1>1. CASE Ordinary
  BY <1>1, OrdinaryStays
<1>2. CASE NewClosure
  BY <1>2, NewClosureStays
<1>3. CASE SetUpval
  BY <1>3, SetUpvalStays
<1>4. CASE Close
  BY <1>4, CloseStays
<1>5. CASE ShareUpvalue \/ NewUpvalue \/ InheritUpvalue
  BY <1>5, CapturesStay
<1>6. CASE CallClosure
  BY <1>6, CallStays
<1>7. CASE Return
  BY <1>7, ReturnStays
<1>8. CASE UNCHANGED vars
  <2>1. UNCHANGED <<src, funcs, top, frames, ip, closures, upvals, pend, status>>
    BY <1>8 DEF vars, heap
  <2>2. CurrentSits /\ CallersSit /\ ClosuresFilled
    BY <2>1 DEF LInv, FollowsLayout
  <2>3. Locs' = Locs /\ Frame' = Frame
    BY <2>1 DEF Locs, Frame, Last
  <2>4. CurrentSits'
    BY <2>1, <2>2, <2>3 DEF CurrentSits, Closure
  <2>5. CallersSit'
    BY <2>1, <2>2, <2>3 DEF CallersSit
  <2>6. ClosuresFilled'
    BY <2>1, <2>2, <2>3 DEF ClosuresFilled
  <2> QED BY <2>4, <2>5, <2>6
<1> QED BY <1>1, <1>2, <1>3, <1>4, <1>5, <1>6, <1>7, <1>8, LaidSteps

\* The program is the one chosen at the start.
LEMMA SourceStays ==
  ASSUME [Next]_vars
  PROVE  src' = src
  BY DEF Next, vars, heap, Plain, Plain1, Capture, NullOp, ConstOp, Dup, Pop, Rotate, GetLocal,
         SetLocal, GetUpval, SetUpval, DefVar, SetVar, GetVar, Undefined, Calculate, Compare,
         Neg, DivideByZero, ToStr, Joined, Equiv, Goto, Jmp, Branch, NewClosure, ShareUpvalue,
         NewUpvalue, InheritUpvalue, Close, CallClosure, CallNative, CallOther, Return,
         Finish, NoCase, Misbehave

\* The invariant is inductive as long as calls match.
LEMMA NextLInv == LInv /\ CallsMatch /\ [Next]_vars => LInv'
<1> SUFFICES ASSUME LInv, CallsMatch, [Next]_vars PROVE LInv'
  OBVIOUS
<1>1. IInv'
  BY NextIInv DEF LInv
<1>2. WellLaid'
  BY SourceStays DEF LInv, WellLaid
<1>3. FramesNest'
  BY NestKept, LaidKeeps DEF LInv
<1>4. NoDanglingUpvalue'
  BY DanglingKept, LaidLeaves DEF LInv
<1>5. FollowsLayout'
  BY LayoutFollowed
<1> QED BY <1>1, <1>2, <1>3, <1>4, <1>5 DEF LInv

\* It holds at the entry of the script.
LEMMA InitLInv == Init /\ WellLaid => LInv
<1> SUFFICES ASSUME Init, WellLaid PROVE LInv
  OBVIOUS
<1>1. IInv /\ FramesNest /\ NoDanglingUpvalue
  BY InitIInv, InitNest, InitDangling
<1>2. /\ frames = <<[clo |-> 1, ip |-> 0, slots |-> 0]>> /\ top = 1 /\ ip = 0 /\ pend = 0
      /\ closures = <<[func |-> 1, ups |-> <<>>]>> /\ upvals = <<>> /\ status = "running"
  BY DEF Init
<1>3. Frame = [clo |-> 1, ip |-> 0, slots |-> 0] /\ Closure = [func |-> 1, ups |-> <<>>]
  BY <1>2 DEF Frame, Closure, Last
<1>4. 1 \in DOMAIN funcs /\ funcs[1].nup = 0 /\ funcs[1].arity = 0
  BY <1>1, <1>2, <1>3, HighOK DEF WellLaid, WellLaidPrograms, LaidOut, IInv, TypeOK
<1>5. Locs = {}
  BY <1>2 DEF Locs
<1> DEFINE layout == Layouts[src][1]
<1>6. 0 \in DOMAIN layout /\ layout[0].height = 0 + 1 /\ layout[0].due = 0
  <2>1. Fits(funcs, funcs[1], layout)
    BY <1>1, <1>4, FunctionsFit
  <2> HIDE DEF layout
  <2> QED BY <1>4, <2>1 DEF Fits, Agree
<1>7. CurrentSits
  BY <1>2, <1>3, <1>5, <1>6 DEF CurrentSits, Sits
<1>8. CallersSit
  BY <1>2 DEF CallersSit
<1>9. ClosuresFilled
  <2>1. DOMAIN closures = {1} /\ Len(closures) = 1
    BY <1>2
  <2> QED BY <1>2, <1>4, <2>1 DEF ClosuresFilled
<1> QED BY <1>1, <1>7, <1>8, <1>9 DEF LInv, FollowsLayout

\* Well-laid code keeps it for good.
LEMMA LaidForGood == Spec /\ WellLaid /\ []CallsMatch => []LInv
  BY InitLInv, NextLInv, PTL DEF Spec

(***************************************************************************)
(* Nothing is read that was never written.                                 *)
(***************************************************************************)
\* The stack up to the top, the closed upvalues and the globals hold values.
Written ==
  /\ \A x \in OnStack : x < top => stack[x] # Junk
  /\ \A u \in 1 .. Len(upvals) : upvals[u].closed # Junk
  /\ \A n \in DOMAIN globals : globals[n] # Junk

LEMMA MadeWritten ==
  /\ \A n : IntVal(n) # Junk /\ BoolVal(n) # Junk /\ StrVal(n) # Junk /\ CloVal(n) # Junk
  /\ NullVal # Junk /\ NativeVal # Junk
  BY DEF IntVal, BoolVal, StrVal, CloVal, NullVal, NativeVal, Junk

LEMMA PeekWritten ==
  ASSUME IInv, Written, NEW n \in Nat, n < top
  PROVE  Peek(n) # Junk
<1>1. top - 1 - n \in OnStack /\ top - 1 - n < top
  BY StackType DEF IInv, OnStack
<1> QED BY <1>1 DEF Peek, Written

\* What an upvalue refers to has been written.
LEMMA UpvalWritten ==
  ASSUME IInv, Written, Below, NEW u \in 1 .. Len(upvals)
  PROVE  ValueOf(u) # Junk
<1>1. upvals[u].loc = Closed \/ (upvals[u].loc \in OnStack /\ upvals[u].loc # Closed)
  BY LocsOK
<1> QED BY <1>1 DEF ValueOf, Written, Below

LEMMA PushWritten ==
  ASSUME IInv, Written, NEW n \in 0 .. top, NEW v, v # Junk, Replace(n, v),
         UNCHANGED <<upvals, globals>>
  PROVE  Written'
<1>1. stack' = [stack EXCEPT ![top - n] = v] /\ top' = top - n + 1
  BY DEF Replace
<1>2. ASSUME NEW x \in OnStack, x < top' PROVE stack'[x] # Junk
  <2>1. x = top - n \/ x < top
    BY <1>1, <1>2, StackType DEF OnStack, IInv
  <2> QED BY <1>1, <1>2, <2>1, StackType DEF Written, IInv
<1> QED BY <1>2 DEF Written

LEMMA DropWritten ==
  ASSUME IInv, Written, top' \in Int, top' <= top, UNCHANGED <<stack, upvals, globals>>
  PROVE  Written'
  BY StackType DEF Written, IInv, OnStack

LEMMA AssignWritten ==
  ASSUME IInv, Written, NEW y, NEW v, v # Junk, stack' = [stack EXCEPT ![y] = v],
         top' \in Int, top' <= top, UNCHANGED <<upvals, globals>>
  PROVE  Written'
<1>1. ASSUME NEW x \in OnStack, x < top' PROVE stack'[x] # Junk
  <2>1. x < top
    BY <1>1, StackType DEF OnStack, IInv
  <2> QED BY <2>1, StackType DEF Written, IInv
<1> QED BY <1>1 DEF Written

\* Closed upvalues take what has been written.
LEMMA CloseWritten ==
  ASSUME IInv, Written, Below, NEW x \in Int, CloseFrom(x)
  PROVE  \A u \in 1 .. Len(upvals') : upvals'[u].closed # Junk
<1>1. Len(upvals') = Len(upvals)
  BY CloseOK, HeapType DEF IInv
<1>2. ASSUME NEW u \in 1 .. Len(upvals) PROVE upvals'[u].closed # Junk
  <2>1. CASE upvals'[u] = upvals[u]
    BY <2>1 DEF Written
  <2>2. CASE /\ upvals'[u] = [loc |-> Closed, closed |-> stack[upvals[u].loc]]
             /\ upvals[u].loc # Closed
    <3>1. upvals[u].loc \in OnStack /\ upvals[u].loc < top
      BY <2>2, LocsOK DEF Below
    <3> QED BY <2>2, <3>1 DEF Written
  <2> QED BY <2>1, <2>2, CloseEach
<1> QED BY <1>1, <1>2

\* Values of constants.
LEMMA ConstWritten ==
  ASSUME IInv, frames # <<>>, NEW i, HasConst(i)
  PROVE  Const(i) # Junk
<1>1. Func.consts \in Seq({v \in Values : ~IsClo(v) /\ v # Junk})
  BY CurrentOK DEF FuncType, IInv
<1>2. i.arg + 1 \in 1 .. Len(Func.consts)
  BY <1>1 DEF HasConst
<1> QED BY <1>1, <1>2, ElementOfSeq DEF Const

LEMMA MovesWritten ==
  ASSUME LInv, Written, Below, NullOp \/ Dup \/ Pop \/ ConstOp \/ GetLocal \/ GetVar \/ GetUpval
  PROVE  Written'
<1> USE DEF LInv
<1>0. IInv /\ TypeOK /\ top \in Nat /\ 0 \in 0 .. top
  BY StackType DEF IInv
<1>1. CASE NullOp
  <2>1. PICK i \in At({"NULL"}) : Replace(0, NullVal) /\ Plain1
    BY <1>1 DEF NullOp
  <2> QED BY <1>0, <2>1, MadeWritten, PushWritten DEF Plain1, Plain, heap
<1>2. CASE Dup
  <2>1. PICK i \in At({"DUP"}) : Replace(0, Peek(0)) /\ Plain1
    BY <1>2 DEF Dup
  <2>2. 0 < top
    BY <1>0, <2>1, AtOK DEF Meaningful, Operands
  <2> QED BY <1>0, <2>1, <2>2, PeekWritten, PushWritten DEF Plain1, Plain, heap
<1>3. CASE Pop
  <2>1. PICK i \in At({"POP"}) : Drop(1) /\ Plain1
    BY <1>3 DEF Pop
  <2> QED BY <1>0, <2>1, DropWritten DEF Plain1, Plain, heap, Drop
<1>4. CASE ConstOp
  <2>1. PICK i \in At({"CONST"}) : Replace(0, Const(i)) /\ Plain
    BY <1>4 DEF ConstOp
  <2>2. Const(i) # Junk
    BY <1>0, <2>1, AtOK, ConstWritten DEF Meaningful
  <2> QED BY <1>0, <2>1, <2>2, PushWritten DEF Plain, heap
<1>5. CASE GetLocal
  <2>1. PICK i \in At({"GET_LOCAL"}) : Replace(0, stack[Frame.slots + i.arg]) /\ Plain
    BY <1>5 DEF GetLocal
  <2>2. i = Now /\ Now.op = "GET_LOCAL" /\ status = "running" /\ pend = 0 /\ HasLocal(Now)
    BY <1>0, <2>1, AtNow, AtOK DEF Meaningful
  <2>3. Frame.slots + Now.arg \in Frame.slots .. top - 1
    BY <2>2, LaidKeeps DEF KeepsToFrame, Now
  <2>4. Frame.slots + Now.arg \in OnStack /\ Frame.slots + Now.arg < top
    BY <1>0, <2>2, <2>3, HighOK DEF HasLocal
  <2>5. stack[Frame.slots + i.arg] # Junk
    BY <2>2, <2>4 DEF Written
  <2> QED BY <1>0, <2>1, <2>5, PushWritten DEF Plain, heap
<1>6. CASE GetVar
  <2>1. PICK i \in At({"GET_VAR"}) :
          Name(i) \in DOMAIN globals /\ Replace(0, globals[Name(i)]) /\ Plain
    BY <1>6 DEF GetVar
  <2>2. globals[Name(i)] # Junk
    BY <2>1 DEF Written
  <2> QED BY <1>0, <2>1, <2>2, PushWritten DEF Plain, heap
<1>7. CASE GetUpval
  <2>1. PICK i \in At({"GET_UPVAL"}) : Replace(0, ValueOf(Upval(i))) /\ Plain
    BY <1>7 DEF GetUpval
  <2>2. ValueOf(Upval(i)) # Junk
    BY <1>0, <2>1, AtOK, UpvalOK, UpvalWritten DEF Meaningful
  <2> QED BY <1>0, <2>1, <2>2, PushWritten DEF Plain, heap
<1> QED BY <1>1, <1>2, <1>3, <1>4, <1>5, <1>6, <1>7

LEMMA ComputingWritten ==
  ASSUME IInv, Written, Calculate \/ Compare \/ Neg \/ ToStr \/ Joined \/ Equiv
  PROVE  Written'
<1>0. TypeOK /\ top \in Nat
  BY StackType DEF IInv
<1>1. CASE Calculate
  <2>1. PICK i \in At(Arithmetic \cup Integral) :
          /\ ~Concatenates(i)
          /\ Replace(2, IntVal(Calc(i.op, Peek(1)[2], Peek(0)[2])))
          /\ Plain1
    BY <1>1 DEF Calculate
  <2>2. 2 \in 0 .. top
    BY <1>0, <2>1, AtOK DEF Meaningful, Ints, Operands
  <2>3. IntVal(Calc(i.op, Peek(1)[2], Peek(0)[2])) # Junk
    BY MadeWritten
  <2> QED BY <2>1, <2>2, <2>3, PushWritten DEF Plain1, Plain, heap
<1>2. CASE Compare
  <2>1. PICK i \in At(Comparing) :
          Replace(2, BoolVal(Holds(i.op, Peek(1)[2], Peek(0)[2]))) /\ Plain1
    BY <1>2 DEF Compare
  <2>2. 2 \in 0 .. top
    BY <1>0, <2>1, AtOK DEF Meaningful, Ints, Operands
  <2>3. BoolVal(Holds(i.op, Peek(1)[2], Peek(0)[2])) # Junk
    BY DEF BoolVal, Junk
  <2> QED BY <2>1, <2>2, <2>3, PushWritten DEF Plain1, Plain, heap
<1>3. CASE Neg
  <2>1. PICK i \in At({"NEG"}) : Replace(1, IntVal(-Peek(0)[2])) /\ Plain1
    BY <1>3 DEF Neg
  <2>2. 1 \in 0 .. top
    BY <1>0, <2>1, AtOK DEF Meaningful, Ints, Operands
  <2>3. IntVal(-Peek(0)[2]) # Junk
    BY MadeWritten
  <2> QED BY <2>1, <2>2, <2>3, PushWritten DEF Plain1, Plain, heap
<1>4. CASE ToStr
  <2>1. PICK i \in At({"TO_STR"}) : Replace(1, StrVal(Text(Peek(0)))) /\ Plain1
    BY <1>4 DEF ToStr
  <2>2. 1 \in 0 .. top
    BY <1>0, <2>1, AtOK DEF Meaningful, Known, Operands
  <2>3. StrVal(Text(Peek(0))) # Junk
    BY MadeWritten
  <2> QED BY <2>1, <2>2, <2>3, PushWritten DEF Plain1, Plain, heap
<1>5. CASE Joined
  <2>1. PICK i \in At({"CONCAT", "ADD"}) :
          Concatenates(i) /\ Replace(2, StrVal(Peek(1)[2] \o Peek(0)[2])) /\ Plain1
    BY <1>5 DEF Joined
  <2>2. 2 \in 0 .. top
    BY <1>0, <2>1, AtOK DEF Meaningful, Concatenates, Strs, Operands
  <2>3. StrVal(Peek(1)[2] \o Peek(0)[2]) # Junk
    BY MadeWritten
  <2> QED BY <2>1, <2>2, <2>3, PushWritten DEF Plain1, Plain, heap
<1>6. CASE Equiv
  <2>1. PICK i \in At({"EQUIV"}), answer \in BOOLEAN, slot \in {top - 1, top - 2} :
          /\ stack' = [stack EXCEPT ![slot] = BoolVal(answer)]
          /\ top' = top - 1
          /\ Plain1
    BY <1>6, EquivIs
  <2>2. BoolVal(answer) # Junk
    BY DEF BoolVal, Junk
  <2>3. UNCHANGED <<upvals, globals>>
    BY <2>1 DEF Plain1, Plain, heap
  <2>4. top' \in Int /\ top' <= top
    BY <1>0, <2>1
  <2> DEFINE v == BoolVal(answer)
  <2>5. v # Junk /\ stack' = [stack EXCEPT ![slot] = v]
    BY <2>1, <2>2
  <2> HIDE DEF v
  <2> QED BY <2>3, <2>4, <2>5, AssignWritten
<1> QED BY <1>1, <1>2, <1>3, <1>4, <1>5, <1>6

LEMMA OthersWritten ==
  ASSUME IInv, Written, Goto \/ Jmp \/ Branch \/ DefVar \/ SetVar \/ Rotate \/ SetLocal
  PROVE  Written'
<1>0. TypeOK /\ top \in Nat
  BY StackType DEF IInv
<1>1. CASE Goto \/ Jmp \/ Branch
  <2>1. UNCHANGED <<stack, upvals, globals>> /\ top' \in Int /\ top' <= top
    BY <1>0, <1>1 DEF Goto, Jmp, Branch, Drop, Plain, heap
  <2> QED BY <2>1, DropWritten
<1>2. ASSUME NEW i, 0 < top, PutGlobal(Name(i), Peek(0)), UNCHANGED <<stack, heap>>,
             top' \in Int, top' <= top
      PROVE  Written'
  <2>1. Peek(0) # Junk
    BY <1>2, PeekWritten
  <2>2. \A n \in DOMAIN globals' : globals'[n] # Junk
    BY <1>2, <2>1 DEF PutGlobal, Written
  <2> QED BY <1>0, <1>2, <2>2 DEF Written, heap, OnStack
<1>3. CASE DefVar
  <2>1. PICK i \in At({"DEF_VAR"}) :
          PutGlobal(Name(i), Peek(0)) /\ Drop(1) /\ UNCHANGED heap
    BY <1>3 DEF DefVar
  <2>2. 0 < top
    BY <1>0, <2>1, AtOK DEF Meaningful, Operands
  <2> QED BY <1>0, <1>2, <2>1, <2>2 DEF Drop
<1>4. CASE SetVar
  <2>1. PICK i \in At({"SET_VAR"}) :
          PutGlobal(Name(i), Peek(0)) /\ UNCHANGED <<stack, top, heap>>
    BY <1>4 DEF SetVar
  <2>2. 0 < top
    BY <1>0, <2>1, AtOK DEF Meaningful, Operands
  <2> QED BY <1>0, <1>2, <2>1, <2>2
<1>5. CASE SetLocal
  <2>1. PICK i \in At({"SET_LOCAL"}) :
          stack' = [stack EXCEPT ![Frame.slots + i.arg] = Peek(0)] /\ Plain /\ UNCHANGED top
    BY <1>5 DEF SetLocal
  <2>2. 0 < top
    BY <1>0, <2>1, AtOK DEF Meaningful, Operands
  <2>3. Peek(0) # Junk
    BY <2>2, PeekWritten
  <2>4. top' \in Int /\ top' <= top /\ UNCHANGED <<upvals, globals>>
    BY <1>0, <2>1 DEF Plain, heap
  <2> QED BY <2>1, <2>3, <2>4, AssignWritten
<1>6. CASE Rotate
  <2>1. PICK i \in At(DOMAIN Rotations) :
          /\ stack' = [x \in OnStack |->
                         IF x = top - Rotations[i.op] THEN Peek(0)
                         ELSE IF x \in top - Rotations[i.op] + 1 .. top - 1 THEN stack[x - 1]
                         ELSE stack[x]]
          /\ Plain1 /\ UNCHANGED top
    BY <1>6 DEF Rotate
  <2>2. Rotations[i.op] \in 2 .. 4 /\ Rotations[i.op] <= top
    BY <2>1, <1>0, AtOK DEF Meaningful, Operands, Rotations
  <2>3. Peek(0) # Junk
    BY <1>0, <2>2, PeekWritten
  <2>4. ASSUME NEW x \in OnStack, x < top PROVE stack'[x] # Junk
    <3>1. CASE x \in top - Rotations[i.op] + 1 .. top - 1
      <4>1. x - 1 \in OnStack /\ x - 1 < top /\ x # top - Rotations[i.op]
        BY <1>0, <2>2, <2>4, <3>1, StackType DEF OnStack
      <4> QED BY <2>1, <3>1, <4>1 DEF Written
    <3>2. CASE x \notin top - Rotations[i.op] + 1 .. top - 1
      BY <2>1, <2>3, <2>4, <3>2 DEF Written
    <3> QED BY <3>1, <3>2
  <2> QED BY <2>1, <2>4 DEF Written, Plain1, Plain, heap
<1> QED BY <1>1, <1>3, <1>4, <1>5, <1>6

LEMMA HeapOpsWritten ==
  ASSUME IInv, Written, Below,
         SetUpval \/ NewClosure \/ ShareUpvalue \/ NewUpvalue \/ InheritUpvalue \/ Close
  PROVE  Written'
<1>0. TypeOK /\ top \in Nat /\ Len(upvals) \in Nat
  BY StackType, HeapType DEF IInv
<1>1. CASE SetUpval
  <2>1. PICK i \in At({"SET_UPVAL"}) :
          /\ \/ stack' = [stack EXCEPT ![upvals[Upval(i)].loc] = Peek(0)] /\ UNCHANGED upvals
             \/ upvals' = [upvals EXCEPT ![Upval(i)].closed = Peek(0)] /\ UNCHANGED stack
          /\ UNCHANGED <<top, globals>>
    BY <1>1 DEF SetUpval
  <2>2. 0 < top
    BY <1>0, <2>1, AtOK DEF Meaningful, Operands
  <2>3. Peek(0) # Junk /\ top' \in Int /\ top' <= top
    BY <1>0, <2>1, <2>2, PeekWritten
  <2>4. CASE stack' = [stack EXCEPT ![upvals[Upval(i)].loc] = Peek(0)] /\ UNCHANGED upvals
    BY <2>1, <2>3, <2>4, AssignWritten
  <2>5. CASE upvals' = [upvals EXCEPT ![Upval(i)].closed = Peek(0)] /\ UNCHANGED stack
    <3>1. DOMAIN upvals = 1 .. Len(upvals) /\ Len(upvals') = Len(upvals)
      BY <2>5, HeapType DEF IInv
    <3>2. \A u \in 1 .. Len(upvals) : upvals[u] \in [loc : OnStack \cup {Closed}, closed : LiveValue]
      BY HeapType, ElementOfSeq DEF IInv
    <3>3. ASSUME NEW u \in 1 .. Len(upvals) PROVE upvals'[u].closed # Junk
      BY <2>3, <2>5, <3>1, <3>2 DEF Written
    <3> QED BY <2>1, <2>5, <3>1, <3>3 DEF Written
  <2> QED BY <2>1, <2>4, <2>5
<1>2. CASE NewClosure
  <2>1. PICK i \in At({"CLOSURE"}) :
          Replace(0, CloVal(Len(closures) + 1)) /\ UNCHANGED <<upvals, globals>>
    BY <1>2 DEF NewClosure
  <2>2. CloVal(Len(closures) + 1) # Junk /\ 0 \in 0 .. top
    BY <1>0, MadeWritten
  <2> QED BY <2>1, <2>2, PushWritten
<1>3. CASE ShareUpvalue \/ InheritUpvalue
  <2>1. UNCHANGED <<stack, top, upvals, globals>>
    BY <1>3 DEF ShareUpvalue, InheritUpvalue, Capture
  <2> QED BY <2>1 DEF Written
<1>4. CASE NewUpvalue
  <2>1. PICK x : /\ upvals' = Append(upvals, [loc |-> x, closed |-> NullVal])
                 /\ UNCHANGED <<stack, top, globals>>
    BY <1>4 DEF NewUpvalue, Capture
  <2>2. upvals \in Seq([loc : OnStack \cup {Closed}, closed : LiveValue])
    BY HeapType DEF IInv
  <2> DEFINE new == [loc |-> x, closed |-> NullVal]
  <2>3. new.closed # Junk
    BY MadeWritten
  <2>4. \A u \in 1 .. Len(upvals') : upvals'[u] = new \/ (u \in 1 .. Len(upvals) /\ upvals'[u] = upvals[u])
    <3> HIDE DEF new
    <3>1. upvals' = Append(upvals, new)
      BY <2>1 DEF new
    <3> QED BY <1>0, <2>2, <3>1
  <2>5. \A u \in 1 .. Len(upvals') : upvals'[u].closed # Junk
    <3> HIDE DEF new
    <3> QED BY <2>3, <2>4 DEF Written
  <2> QED BY <2>1, <2>5 DEF Written
<1>5. CASE Close
  <2>1. PICK i \in At({"CLOSE"}) : CloseFrom(top - 1) /\ Drop(1) /\ UNCHANGED globals
    BY <1>5 DEF Close
  <2>2. \A u \in 1 .. Len(upvals') : upvals'[u].closed # Junk
    BY <1>0, <2>1, CloseWritten
  <2> QED BY <1>0, <2>1, <2>2 DEF Written, Drop, OnStack
<1> QED BY <1>1, <1>2, <1>3, <1>4, <1>5

LEMMA CallsWritten ==
  ASSUME LInv, Written, Below, CallClosure \/ CallNative \/ CallOther \/ Return \/ Finish
  PROVE  Written'
<1>0. IInv /\ TypeOK /\ top \in Nat
  BY StackType DEF LInv, IInv
<1>1. CASE CallClosure \/ CallOther
  <2>1. UNCHANGED <<stack, top, upvals, globals>>
    BY <1>1 DEF CallClosure, CallOther, Plain, heap
  <2> QED BY <2>1 DEF Written
<1>2. CASE CallNative
  <2>1. PICK i \in At({"CALL"}) : Replace(i.arg + 1, NullVal) /\ UNCHANGED <<heap, globals>>
    BY <1>2 DEF CallNative
  <2>2. i.arg + 1 \in 0 .. top
    BY <1>0, <2>1, AtOK DEF Meaningful
  <2> QED BY <1>0, <2>1, <2>2, MadeWritten, PushWritten DEF heap
<1>3. CASE Return
  <2>1. /\ status = "running" /\ CloseFrom(Frame.slots) /\ Frame.slots \in Nat
        /\ stack' = [stack EXCEPT ![Frame.slots] = Peek(0)] /\ top' = Frame.slots + 1
        /\ UNCHANGED globals /\ pend = 0
    BY <1>0, <1>3, ReturnStep, AtOK DEF Return
  <2>2. High > 0 /\ top = Frame.slots + High /\ High \in Nat
    BY <2>1, TakesOwn
  <2>3. Peek(0) # Junk
    BY <1>0, <2>1, <2>2, PeekWritten
  <2>4. \A u \in 1 .. Len(upvals') : upvals'[u].closed # Junk
    BY <1>0, <2>1, CloseWritten
  <2>5. ASSUME NEW x \in OnStack, x < top' PROVE stack'[x] # Junk
    <3>1. x < top
      BY <1>0, <2>1, <2>2, <2>5 DEF OnStack
    <3> QED BY <1>0, <2>1, <2>3, <3>1, StackType DEF Written
  <2> QED BY <2>1, <2>4, <2>5 DEF Written
<1>4. CASE Finish
  <2>1. PICK i \in At({"RET"}) : CloseFrom(Frame.slots) /\ Drop(2) /\ UNCHANGED globals
    BY <1>4 DEF Finish
  <2>2. Frame.slots \in Int
    BY <1>0, <2>1, AtOK, HighOK
  <2>3. \A u \in 1 .. Len(upvals') : upvals'[u].closed # Junk
    BY <1>0, <2>1, <2>2, CloseWritten
  <2> QED BY <1>0, <2>1, <2>3 DEF Written, Drop, OnStack
<1> QED BY <1>1, <1>2, <1>3, <1>4

\* Only a machine that runs takes a step.
LEMMA StepRuns ==
  ASSUME Next
  PROVE  status = "running"
<1>1. \A ops : \A i \in At(ops) : status = "running"
  BY DEF At
<1>2. \A local : \A c \in ToCapture(local) : status = "running"
  BY DEF ToCapture
<1> QED BY <1>1, <1>2 DEF Next, NullOp, ConstOp, Dup, Pop, Rotate, GetLocal, SetLocal, GetUpval,
        SetUpval, DefVar, SetVar, GetVar, Undefined, Calculate, Compare, Neg, DivideByZero,
        ToStr, Joined, Equiv, Goto, Jmp, Branch, NewClosure, ShareUpvalue, NewUpvalue,
        InheritUpvalue, Close, CallClosure, CallNative, CallOther, Return, Finish, NoCase,
        Misbehave

\* No step makes a value of what was never written.
LEMMA WrittenKept == LInv /\ Written /\ [Next]_vars => Written'
<1> SUFFICES ASSUME LInv, Written, [Next]_vars PROVE Written'
  OBVIOUS
<1>1. CASE UNCHANGED vars
  BY <1>1 DEF vars, heap, Written
<1>2. CASE DivideByZero \/ Undefined \/ NoCase \/ Misbehave
  BY <1>2 DEF DivideByZero, Undefined, NoCase, Misbehave, heap, Written
<1>3. CASE Next /\ ~ (DivideByZero \/ Undefined \/ NoCase \/ Misbehave)
  <2>1. status = "running"
    BY <1>3, StepRuns
  <2>2. IInv /\ Below
    BY <2>1, DanglingBelow DEF LInv
  <2> QED BY <1>3, <2>2, MovesWritten, ComputingWritten, OthersWritten, HeapOpsWritten,
             CallsWritten DEF Next
<1> QED BY <1>1, <1>2, <1>3

LEMMA InitWritten == Init => Written
<1> SUFFICES ASSUME Init PROVE Written
  OBVIOUS
<1>1. stack = [i \in OnStack |-> CASE i = 0 -> CloVal(1) [] i = 1 -> NativeVal [] OTHER -> Junk]
      /\ top = 1 /\ upvals = <<>> /\ globals = [n \in {PrintName} |-> NativeVal]
  BY DEF Init
<1>2. \A x \in OnStack : x < 1 => x = 0
  BY DEF OnStack
<1> QED BY <1>1, <1>2, MadeWritten DEF Written

\* Where nothing is unwritten and operands are found, an instruction within the
\* limits and with operands of its types has a meaning.
LEMMA LaidDefined ==
  ASSUME LInv, Written
  PROVE  DefinedWithin
<1> SUFFICES ASSUME status = "running"
             PROVE  IF pend > 0 THEN Captures(Captured)
                    ELSE WithinLimits(Now) /\ OfTypes(Now) => Meaningful(Now)
  BY DEF DefinedWithin, Now
<1>1. pend \in Nat /\ Frame.slots \in Nat /\ top \in Nat /\ frames # <<>> /\ IInv
  BY HighOK DEF LInv
<1>2. CASE pend > 0
  BY <1>2, LaidFinds DEF FindsOperands
<1>3. CASE pend = 0
  <2> SUFFICES ASSUME WithinLimits(Now), OfTypes(Now)
               PROVE  Meaningful(Now)
    BY <1>3
  <2>1. HasOperands(Now)
    BY <1>3, LaidFinds DEF FindsOperands, Now
  <2>2. /\ Now.op # "RET" => Takes(Now) \in Nat /\ Takes(Now) < top
        /\ top > 0
    BY <1>1, <1>3, TakesOwn
  <2>3. \A n \in Nat : Operands(n) => Known(n)
    BY <1>1, PeekWritten DEF Operands, Known
  <2>4. Now.op \in Arithmetic \cup Integral \cup Comparing \cup {"CONCAT", "EQUIV"} => Operands(2)
    <3>1. Now.op \in Arithmetic \cup Integral \cup Comparing \cup {"CONCAT", "EQUIV"} => Now.op # "RET"
      BY DEF Arithmetic, Integral, Comparing
    <3> QED BY <1>1, <2>2, <3>1, TakesTwo DEF Operands
  <2>5. Operands(1)
    BY <1>1, <2>2 DEF Operands
  <2>6. Now.op \in DOMAIN Rotations => Operands(Rotations[Now.op])
    <3>1. Now.op \in DOMAIN Rotations => Now.op # "RET" /\ Takes(Now) = Rotations[Now.op]
      BY TakesRotated DEF Rotations
    <3> QED BY <1>1, <2>2, <3>1 DEF Operands
  <2>7. Now.op = "RET" => Operands(IF Len(frames) = 1 THEN 2 ELSE 1)
    <3>1. Now.op = "RET" => 1 < High
      BY <1>3, NowFits DEF LInv, FollowsLayout, FindsAll
    <3> QED BY <1>1, <2>5, <3>1, HighOK DEF Operands, LInv
  <2>8. Now.op = "CALL" => Now.arg \in 0 .. top - 1
    <3>1. Now.op = "CALL" => Now.arg \in Nat
      BY <1>3, NowFits DEF LInv, FollowsLayout, FindsAll
    <3> QED BY <1>1, <2>2, <3>1, TakesArgs
  <2>9. Now.op = "CALL" => /\ IsClo(Peek(Now.arg)) => Len(frames) < MaxFrames
                           /\ Known(Now.arg)
                           /\ Peek(Now.arg) # Junk
    <3>1. Now.op = "CALL" => Now.arg \in Nat /\ Now.arg < top
      BY <1>1, <2>8
    <3>2. Now.op = "CALL" => Peek(Now.arg) # Junk
      BY <1>1, <3>1, PeekWritten
    <3> QED BY <1>1, <2>3, <2>8, <3>2 DEF WithinLimits, Callee, Operands
  <2>10. /\ Now.op \in Pushing => Room
         /\ Now.op = "CONCAT" => Strs(2)
         /\ Now.op \in Arithmetic => Ints(2) \/ Concatenates(Now)
         /\ Now.op \in Integral \cup Comparing => Ints(2)
         /\ Now.op = "NEG" => Ints(1)
    BY <2>4, <2>5 DEF WithinLimits, OfTypes
  <2>11. /\ Now.op \in {"TO_STR", "OR", "AND"} => Known(1)
         /\ Now.op = "EQUIV" => Known(2)
    BY <2>3, <2>4, <2>5
  <2> QED BY <2>1, <2>4, <2>5, <2>6, <2>7, <2>8, <2>9, <2>10, <2>11
          DEF Meaningful, HasOperands, Pushing
<1> QED BY <1>1, <1>2, <1>3

LEMMA WrittenForGood == Spec /\ WellLaid /\ []CallsMatch => []Written
<1>1. Init => Written
  BY InitWritten
<1>2. LInv /\ Written /\ [Next]_vars => Written'
  BY WrittenKept
<1> QED BY <1>1, <1>2, LaidForGood, PTL DEF Spec

(***************************************************************************)
(* What well-laid code may count on.                                       *)
(***************************************************************************)
\* Each frame stays where the layout of its function has it, through jumps,
\* calls, captures and returns.
THEOREM LayoutIsFollowed == Spec /\ WellLaid /\ []CallsMatch => []FollowsLayout
<1>1. LInv => FollowsLayout
  BY DEF LInv
<1> QED BY <1>1, LaidForGood, PTL

\* run() only ever decodes where the compiler has started an instruction: no
\* jump, call, capture or return lands inside one.
THEOREM InstructionsAreMet == Spec /\ WellLaid /\ []CallsMatch => []AtInstruction
  BY LaidAtInstruction, LaidForGood, PTL

\* Every statement starts with as many values in its frame as the compiler has
\* counted locals, in every frame and however it was reached.
THEOREM StatementsStayBalanced == Spec /\ WellLaid /\ []CallsMatch => []StatementsBalance
  BY LaidBalances, LaidForGood, PTL

\* Instructions find their operands in their own frame and never assign to the
\* slot of a callee.
THEOREM FramesAreKeptTo == Spec /\ WellLaid /\ []CallsMatch => []KeepsToFrame
  BY LaidKeeps, LaidForGood, PTL

\* A captured variable leaves the stack by CLOSE or RET only.
THEOREM CapturedAreLeft == Spec /\ WellLaid /\ []CallsMatch => []LeavesCaptured
  BY LaidLeaves, LaidForGood, PTL

\* Constants, names, functions, locals, upvalues and distances are there when
\* an instruction or a capture names them.
THEOREM OperandsAreFound == Spec /\ WellLaid /\ []CallsMatch => []FindsOperands
  BY LaidFinds, LaidForGood, PTL

\* And so, frames nest, and no upvalue dangles.
THEOREM WellLaidNests == Spec /\ WellLaid /\ []CallsMatch => [](FramesNest /\ NoDanglingUpvalue)
<1>1. LInv => FramesNest /\ NoDanglingUpvalue
  BY DEF LInv
<1> QED BY <1>1, LaidForGood, PTL

\* A function leaves its caller's values alone.
THEOREM WellLaidSparesCallers == Spec /\ WellLaid /\ []CallsMatch => CallerKept
  BY FramesAreKeptTo, CallersKept, PTL

\* What a closure has captured changes only when the variable is assigned to.
THEOREM WellLaidKeepsCaptured == Spec /\ WellLaid /\ []CallsMatch => CapturedKept
  BY CapturedAreLeft, CapturedStays, PTL

\* What well-laid code does has a meaning, but for a stack or frames that are
\* too small and operands of other types: nothing is read past the code, below
\* the frame, beyond the constants or before it is written.
THEOREM OnlyLimitsAndTypes == Spec /\ WellLaid /\ []CallsMatch => []DefinedWithin
  BY LaidDefined, LaidForGood, WrittenForGood, PTL
=============================================================================
