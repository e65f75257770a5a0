------------------------------- MODULE Memory -------------------------------
(***************************************************************************)
(* The memory of the machine: the objects that memory.cpp, value.cpp and   *)
(* chunk.cpp allocate and grow, who owns what, and ~VM, which frees it.    *)
(* Strings go through the table of StringTable.                            *)
(*                                                                         *)
(* A block is a piece of memory reallocate has given; only its owner and   *)
(* its part tell it from others.  collect, which nothing can call, is left *)
(* out; so is a failing realloc, which ends the process.                   *)
(***************************************************************************)
EXTENDS StringTable, FiniteSetsExt

CONSTANTS
  MaxOthers,   \* a bound on the objects that are no strings
  MaxCells,    \* a bound on the bytes and constants of all functions together
  MaxLost      \* a bound on the buffers nobody owns

ASSUME BoundsAssumption == MaxOthers \in Nat /\ MaxCells \in Nat /\ MaxLost \in Nat

\* An object that is no string: its type, and a number in place of its address.
Others == [kind : {"function", "closure", "upvalue", "native"}, num : 1 .. MaxOthers]

ASSUME OthersAssumption == NoKey \notin Others

VARIABLES
  others,   \* the objects that are no strings, in a function to their arrays
  head,     \* vm->objects
  next,     \* Obj.next of each object
  live,     \* the blocks allocated and not freed
  lost,     \* how many of them, buffers of text, nobody owns any more
  fault,    \* whether a block was freed or read that is not live, or written past
            \* its end
  phase,    \* "running"; in free_objects "at" an object and "behind" the read
            \* of its next; "done"
  cursor,   \* free_objects' object
  after     \* free_objects' next

ownVars    == <<others, head, next, live, lost, fault, phase, cursor, after>>
memoryVars == <<stringVars, ownVars>>

NoObject == NoKey
NoArray  == [len |-> 0, cap |-> 0]    \* init_Chunk, init_ValueArray

(***************************************************************************)
(* Blocks.                                                                 *)
(***************************************************************************)
Block(owner, part, size) == <<owner, part, size>>
Itself(o)        == Block(o, "itself", 0)
ArrayOf(o, part) == Block(o, part, others[o][part].cap)
Stack            == Block(NoObject, "stack", 0)
TableOf(c)       == Block(NoObject, "strings", c)
Buffer(n)        == Block(NoObject, "buffer", n)

\* A slip in ChunkParts: the constants are forgotten.
CodeOnly == {"code"}
\* What free_Chunk frees.
ChunkParts == {"code", "consts"}

\* The blocks free_obj frees with an object; a NULL array has none.
IsString(o) == o \in objects
Freed(o) ==
  {Itself(o)}
  \cup (IF IsString(o) THEN {Block(o, "chars", 0)}
        ELSE CASE o.kind = "function" -> {ArrayOf(o, p) : p \in {q \in ChunkParts : others[o][q].cap # 0}}
               [] o.kind = "closure"  -> IF others[o].upvalues = 0 THEN {} ELSE {Block(o, "upvalues", 0)}
               [] OTHER               -> {})

\* free() of the blocks bs, of which each should be live.
Free(bs) == live' = live \ bs /\ fault' = (fault \/ ~(bs \subseteq live))

\* n more buffers that nobody owns.
Buffers(n) == {Buffer(k) : k \in lost + 1 .. lost + n}
Lose(n)    == lost + n <= MaxLost /\ lost' = lost + n

(***************************************************************************)
(* Allocation.                                                             *)
(***************************************************************************)
Running == phase = "running" /\ pc = "idle"

\* A slip in Link: the object is the list before it has the old one behind it.
LinkItself(o) == head' = o /\ next' = [p \in DOMAIN next \cup {o} |-> IF p = o THEN o ELSE next[p]]
\* allocate_object puts the object in front of the list.
Link(o) == head' = o /\ next' = [p \in DOMAIN next \cup {o} |-> IF p = o THEN head ELSE next[p]]

\* The string's own blocks, and the table's new array if it has to grow; n
\* buffers are lost on the way.
StringMade(t, n) ==
  /\ phase = "running" /\ NewString(t) /\ Lose(n)
  /\ Link(NewObject(t))
  /\ live' = live \cup {Itself(NewObject(t)), Block(NewObject(t), "chars", 0)}
                  \cup (IF pc' = "idle" THEN {} ELSE {TableOf(Table!Grow(cap))})
                  \cup Buffers(n)
  /\ UNCHANGED <<others, fault, phase, cursor, after>>

\* The string is there already.
StringKept(t, n) ==
  /\ Running /\ Found(t) /\ Lose(n)
  /\ live' = live \cup Buffers(n)
  /\ UNCHANGED <<others, head, next, fault, phase, cursor, after>>

CopyString(t) == StringMade(t, 0) \/ StringKept(t, 0)

\* take_string of a buffer that concat or to_string has made: it becomes the
\* new string's, or nobody's.
TakeString(t) == StringMade(t, 0) \/ StringKept(t, 1)

\* TO_STR, or print, of an object that is no string: to_string's case OBJ makes
\* a buffer, has no break, and default makes another in its place.
TextOfObject(t) ==
  /\ \E o \in DOMAIN others : o.kind \in {"closure", "native"}
  /\ StringMade(t, 1) \/ StringKept(t, 2)

GrowTable ==
  \/ GrowOn /\ UNCHANGED ownVars
  \/ /\ GrownString
     /\ Free(IF cap = 0 THEN {} ELSE {TableOf(cap)})
     /\ UNCHANGED <<others, head, next, lost, phase, cursor, after>>

\* new_function, new_native, new_upvalue, and new_closure, whose array for no
\* upvalues is NULL: reallocate takes a size of 0 for a free.
NewOther(kind, upvalues) ==
  /\ Running /\ Cardinality(DOMAIN others) < MaxOthers
  /\ LET o == [kind |-> kind, num |-> Cardinality(DOMAIN others) + 1]
     IN  /\ others' = [p \in DOMAIN others \cup {o} |->
                         IF p = o THEN [code |-> NoArray, consts |-> NoArray, upvalues |-> upvalues]
                         ELSE others[p]]
         /\ Link(o)
         /\ live' = live \cup {Itself(o)} \cup (IF upvalues = 0 THEN {} ELSE {Block(o, "upvalues", 0)})
  /\ UNCHANGED <<stringVars, lost, fault, phase, cursor, after>>

\* A slip in Full: the array grows behind the last cell.
FullLate(a) == a.len > a.cap
Full(a) == a.len >= a.cap

Cells == MapThenSumSet(LAMBDA o : others[o].code.len + others[o].consts.len, DOMAIN others)

\* write_Chunk and push_ValueArray (ProtoString::write grows in the same way).
Push(f, part) ==
  /\ Running /\ f.kind = "function" /\ Cells < MaxCells
  /\ LET a == others[f][part]
         c == IF Full(a) THEN Table!Grow(a.cap) ELSE a.cap
         old == IF a.cap = 0 THEN {} ELSE {ArrayOf(f, part)}
     IN  /\ others' = [others EXCEPT ![f][part] = [len |-> a.len + 1, cap |-> c]]
         /\ live' = IF c = a.cap THEN live ELSE (live \ old) \cup {Block(f, part, c)}
         /\ fault' = (fault \/ a.len >= c)
  /\ UNCHANGED <<stringVars, head, next, lost, phase, cursor, after>>

(***************************************************************************)
(* ~VM.                                                                    *)
(***************************************************************************)
\* The stack and the table's array (the globals' table is one of the same
\* kind), then the objects.
Destroy ==
  /\ Running
  /\ phase' = "at" /\ cursor' = head
  /\ Free({Stack} \cup (IF cap = 0 THEN {} ELSE {TableOf(cap)}))
  /\ len' = 0 /\ cap' = 0 /\ entries' = Table!EmptyTable(0)
  /\ UNCHANGED <<pc, fresh, pos, pending, ret, objects, result, others, head, next, lost, after>>

\* free_objects: next is read from the object, then the object is freed.
ReadNext ==
  /\ phase = "at" /\ cursor # NoObject
  /\ after' = next[cursor] /\ phase' = "behind"
  /\ fault' = (fault \/ Itself(cursor) \notin live)
  /\ UNCHANGED <<stringVars, others, head, next, live, lost, cursor>>

\* Slips in FreeObject: the object is freed without what it owns; next is read
\* again, from the object that is no more.
FreeObjectAlone ==
  /\ phase = "behind"
  /\ cursor' = after /\ phase' = "at"
  /\ Free({Itself(cursor)})
  /\ UNCHANGED <<stringVars, others, head, next, lost, after>>
FreeThenRead ==
  /\ phase = "behind"
  /\ cursor' = next[cursor] /\ phase' = "at"
  /\ live' = live \ Freed(cursor)
  /\ fault' = (fault \/ ~(Freed(cursor) \subseteq live) \/ Itself(cursor) \notin live')
  /\ UNCHANGED <<stringVars, others, head, next, lost, after>>

FreeObject ==
  /\ phase = "behind"
  /\ cursor' = after /\ phase' = "at"
  /\ Free(Freed(cursor))
  /\ UNCHANGED <<stringVars, others, head, next, lost, after>>

FreedAll ==
  /\ phase = "at" /\ cursor = NoObject
  /\ phase' = "done"
  /\ UNCHANGED <<stringVars, others, head, next, live, lost, fault, cursor, after>>

MemoryInit ==
  /\ StringInit
  /\ others = [o \in {} |-> NoArray] /\ head = NoObject /\ next = [o \in {} |-> NoObject]
  /\ live = {Stack} /\ lost = 0 /\ fault = FALSE
  /\ phase = "running" /\ cursor = NoObject /\ after = NoObject

Work ==
  \/ \E t \in Texts : CopyString(t) \/ TakeString(t) \/ TextOfObject(t)
  \/ \E kind \in {"function", "closure", "upvalue", "native"} : NewOther(kind, 0)
  \/ NewOther("closure", 1)
  \/ \E f \in DOMAIN others, part \in {"code", "consts"} : Push(f, part)

MemoryNext == Work \/ GrowTable \/ Destroy \/ ReadNext \/ FreeObject \/ FreedAll

\* Calls and the destructor run to their end.
MemorySpec ==
  /\ MemoryInit /\ [][MemoryNext]_memoryVars
  /\ WF_memoryVars(GrowTable \/ ReadNext \/ FreeObject \/ FreedAll)

(***************************************************************************)
(* Properties.                                                             *)
(***************************************************************************)
\* Nothing is freed twice, read when it is freed or written past its end,
\* however arrays grow and whatever order objects were made in.
NoFault == ~fault

\* The list from vm->objects reaches every object, and every live block is an
\* object's on it, the stack, the table's or a buffer that take_string or
\* to_string has lost.
ReachedIn[n \in 0 .. Cardinality(DOMAIN next)] ==
  IF n = 0 THEN {head}
  ELSE ReachedIn[n - 1] \cup {next[o] : o \in ReachedIn[n - 1] \ {NoObject}}
Reached == ReachedIn[Cardinality(DOMAIN next)] \ {NoObject}
EachOwned ==
  phase = "running" =>
    live = (UNION {Freed(o) : o \in Reached})
           \cup {Stack} \cup {Buffer(n) : n \in 1 .. lost}
           \cup {TableOf(c) : c \in ({cap} \cup (IF pc = "idle" THEN {} ELSE {Table!Grow(cap)})) \ {0}}

\* ~VM ends, and leaves nothing but the buffers that were lost.
FreesAll == phase = "at" ~> phase = "done" /\ live = {Buffer(n) : n \in 1 .. lost}
=============================================================================
