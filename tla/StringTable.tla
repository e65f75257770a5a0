---------------------------- MODULE StringTable ----------------------------
(***************************************************************************)
(* The interned strings of src/src/value.cpp: copy_string, take_string and *)
(* map_find_str on the table vm->strings, which is a hash table of the     *)
(* module HashMap.  The table's keys are the objects themselves, found by  *)
(* address; map_find_str finds one by its text, with a loop of its own.    *)
(*                                                                         *)
(* copy_string copies the characters it is given and take_string keeps     *)
(* them; what they do with the table is the same.                          *)
(***************************************************************************)
EXTENDS Integers, FiniteSets

CONSTANTS
  Texts,        \* sequences of characters
  HashString,   \* hash_string of each text
  MaxCopies,    \* a bound on the objects of one text
  Null, TrueVal, NoKey, NoAnswer, MinCap   \* as in HashMap

ASSUME TextsAssumption  == IsFiniteSet(Texts) /\ HashString \in [Texts -> Nat]
ASSUME CopiesAssumption == MaxCopies \in Nat

\* An ObjString: its text, and a number in place of its address.
Objects == [text : Texts, copy : 1 .. MaxCopies]

ASSUME TableAssumption ==
  NoKey \notin Objects /\ Null # TrueVal /\ MinCap \in Nat /\ MinCap >= 2

VARIABLES
  len, cap, entries, pc, fresh, pos, pending, ret,   \* vm->strings, see HashMap
  objects,   \* the objects made
  result     \* what the last call asked for and returned

Table == INSTANCE HashMap
           WITH Keys <- Objects, Values <- {Null, TrueVal},
                HashOf <- [o \in Objects |-> HashString[o.text]]

stringVars == <<len, cap, entries, pc, fresh, pos, pending, ret, objects, result>>

(***************************************************************************)
(* map_find_str.                                                           *)
(***************************************************************************)
Home(t)       == HashString[t] % cap
EntryAt(t, d) == entries[Table!Wrap(Home(t) + d, cap)]
Holds(t, d)   == EntryAt(t, d).key # NoKey /\ EntryAt(t, d).key.text = t

\* The loop ends at distance d: the text, or a slot never used.
FindStops(t, d) == Holds(t, d) \/ EntryAt(t, d) = Table!Empty

\* A slip in FindStr: only the hash is compared.
FindHash(t) ==
  LET Ends(d) == \/ EntryAt(t, d) = Table!Empty
                 \/ EntryAt(t, d).key # NoKey /\ HashString[EntryAt(t, d).key.text] = HashString[t]
  IN  IF len = 0 THEN NoKey
      ELSE EntryAt(t, CHOOSE d \in Table!Slots(cap) : Ends(d) /\ \A e \in 0 .. d - 1 : ~Ends(e)).key

\* A slip in FindStr: only the first slot is looked at.
FindHome(t) == IF len # 0 /\ Holds(t, 0) THEN EntryAt(t, 0).key ELSE NoKey

FindStr(t) ==
  IF len = 0 THEN NoKey
  ELSE EntryAt(t, CHOOSE d \in Table!Slots(cap) :
                    FindStops(t, d) /\ \A e \in 0 .. d - 1 : ~FindStops(t, e)).key

(***************************************************************************)
(* Calls.                                                                  *)
(***************************************************************************)
Answer(t, o) == [asked |-> t, object |-> o]

StringInit == Table!Init /\ objects = {} /\ result = NoKey

\* copy_string and take_string on a text that has an object.
Found(t) ==
  /\ pc = "idle" /\ FindStr(t) # NoKey
  /\ result' = Answer(t, FindStr(t))
  /\ UNCHANGED <<len, cap, entries, pc, fresh, pos, pending, ret, objects>>

\* The next object made for a text, at an address no object has.
NewObject(t) == [text |-> t, copy |-> 1 + Cardinality({o \in objects : o.text = t})]

\* A slip in NewString: the text is not looked for.
NewStringUnasked(t) ==
  /\ pc = "idle" /\ NewObject(t) \in Objects
  /\ objects' = objects \cup {NewObject(t)}
  /\ \/ Table!Put(NewObject(t), Null) /\ result' = Answer(t, NewObject(t))
     \/ Table!PutGrow(NewObject(t), Null) /\ UNCHANGED result

\* new_string: the object is made and put into the table, which may have to
\* grow first.
NewString(t) ==
  /\ pc = "idle" /\ FindStr(t) = NoKey /\ NewObject(t) \in Objects
  /\ objects' = objects \cup {NewObject(t)}
  /\ \/ Table!Put(NewObject(t), Null) /\ result' = Answer(t, NewObject(t))
     \/ Table!PutGrow(NewObject(t), Null) /\ UNCHANGED result

GrowOn == Table!Rehash /\ UNCHANGED <<objects, result>>

\* new_string returns behind the put that has grown the table.
GrownString == Table!PutEnd /\ result' = Answer(pending.key.text, pending.key) /\ UNCHANGED objects

(***************************************************************************)
(* Properties.                                                             *)
(***************************************************************************)
\* No text has two objects: strings that are equal have one address, on which
\* find_map_entry, VM::equiv and every global's name rely.
OneObject == \A o, p \in objects : o.text = p.text => o = p

\* map_find_str, which loops until a hit, meets the text or a slot never used,
\* and finds every object made by its text, wherever growth has moved it.
FindsAll ==
  pc = "idle" /\ cap # 0 =>
    /\ \A t \in Texts : \E d \in Table!Slots(cap) : FindStops(t, d)
    /\ \A o \in objects : FindStr(o.text) = o

\* The table is the function from texts to objects of Interner; a growth is
\* invisible.
Interned == {o \in objects : pc = "idle" \/ o # pending.key}
ObjectOf == [t \in {o.text : o \in Interned} |-> CHOOSE o \in Interned : o.text = t]
Abstract == INSTANCE Interner WITH objectOf <- ObjectOf, NoObject <- NoKey

ImplementsInterner == Abstract!Spec

\* Every call that has to grow the table returns.
CallsReturn == pc = "rehash" ~> pc = "idle"
=============================================================================
