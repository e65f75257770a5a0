---------------------------- MODULE MemoryProofs ----------------------------
(***************************************************************************)
(* Proofs about the memory of the machine: the interned strings of         *)
(* value.cpp, for every finite set of texts and every hash function, and   *)
(* the blocks of memory the machine owns, for every number of objects,     *)
(* bytes and constants.                                                    *)
(*                                                                         *)
(* The argument about the strings, which rests on the proofs of the hash   *)
(* table.  Seen as a partial function, the table stores the objects made,  *)
(* but for the one whose put_map is still growing it (SInv).  Two objects  *)
(* of one text have one probe path, so where no text has two objects       *)
(* map_find_str meets the text's object on the path put_map took, or the   *)
(* slot never used that ends it (FindStrOK); so new_string makes an object *)
(* only for a text that has none.                                          *)
(***************************************************************************)
EXTENDS Memory, NaturalMinimum, FiniteSetTheorems, TLAPS

\* The table with its proofs.
Proved == INSTANCE HashMapProofs
            WITH Keys <- Objects, Values <- {Null, TrueVal},
                 HashOf <- [o \in Objects |-> HashString[o.text]]

(***************************************************************************)
(* The instance.                                                           *)
(***************************************************************************)
LEMMA ObjectsFinite == IsFiniteSet(Objects)
<1> DEFINE pairs == Texts \X (1 .. MaxCopies)
           f == [p \in pairs |-> [text |-> p[1], copy |-> p[2]]]
<1>1. IsFiniteSet(1 .. MaxCopies)
  BY CopiesAssumption, FS_Interval
<1>2. IsFiniteSet(pairs)
  BY <1>1, TextsAssumption, FS_Product
<1>3. f \in Surjection(pairs, Objects)
  <2>1. f \in [pairs -> Objects]
    BY DEF Objects
  <2>2. ASSUME NEW o \in Objects PROVE \E p \in pairs : f[p] = o
    <3>1. <<o.text, o.copy>> \in pairs /\ o = [text |-> o.text, copy |-> o.copy]
      BY DEF Objects
    <3> QED BY <3>1
  <2> QED BY <2>1, <2>2 DEF Surjection
<1> QED BY <1>2, <1>3, FS_Surjection

\* What the hash table assumes is so of the string table.
LEMMA Assumptions == /\ Proved!KeysAssumption /\ Proved!ValuesAssumption
                     /\ Proved!HashAssumption /\ Proved!CapAssumption
<1>1. Proved!KeysAssumption
  BY TableAssumption, ObjectsFinite
     DEF Proved!KeysAssumption, Proved!IsFiniteSet, IsFiniteSet
<1>2. Proved!ValuesAssumption
  BY TableAssumption DEF Proved!ValuesAssumption
<1>3. Proved!HashAssumption
  BY TextsAssumption DEF Proved!HashAssumption, Objects
<1>4. Proved!CapAssumption
  BY TableAssumption DEF Proved!CapAssumption
<1> QED BY <1>1, <1>2, <1>3, <1>4

\* The table of StringTable is that table.
LEMMA SameTable ==
  /\ Table!Empty = Proved!Empty
  /\ \A c : Table!Slots(c) = Proved!Slots(c) /\ Table!Grow(c) = Proved!Grow(c)
  /\ \A i, c : Table!Wrap(i, c) = Proved!Wrap(i, c)
  BY DEF Table!Empty, Proved!Empty, Table!Entry, Proved!Entry, Table!Slots, Proved!Slots,
         Table!Grow, Proved!Grow, Table!Wrap, Proved!Wrap

\* The instance of the machine and the one the hash map's theorems are about are one.
LEMMA SameFind ==
  ASSUME NEW es, NEW c, NEW k
  PROVE  Table!FindEntry(es, c, k) = Proved!FindEntry(es, c, k)
  BY DEF Table!FindEntry, Proved!FindEntry, Table!FirstStop, Proved!FirstStop,
         Table!TombsBefore, Proved!TombsBefore, Table!Stops, Proved!Stops,
         Table!Probe, Proved!Probe, Table!Slots, Proved!Slots, Table!Wrap, Proved!Wrap,
         Table!Empty, Proved!Empty, Table!Entry, Proved!Entry

\* Nor do their steps differ.
LEMMA SameSteps ==
  /\ Table!Init => Proved!Init
  /\ \A k, v : Table!Put(k, v) => Proved!Put(k, v)
  /\ \A k, v : Table!PutGrow(k, v) => Proved!PutGrow(k, v)
  /\ Table!Rehash => Proved!Rehash
  /\ Table!PutEnd => Proved!PutEnd
<1>1. Table!Init => Proved!Init
  BY DEF Table!Init, Proved!Init, Table!EmptyTable, Proved!EmptyTable, Table!Slots,
         Proved!Slots, Table!Empty, Proved!Empty, Table!Entry, Proved!Entry
<1>2. ASSUME NEW es, NEW c, NEW n, NEW k, NEW v, Table!Store(es, c, n, k, v)
      PROVE  Proved!Store(es, c, n, k, v)
  BY <1>2, SameFind
     DEF Table!Store, Proved!Store, Table!Entry, Proved!Entry, Table!Empty, Proved!Empty,
         Table!Answer, Proved!Answer
<1>3. ASSUME NEW k, NEW v, Table!Put(k, v) PROVE Proved!Put(k, v)
  BY <1>2, <1>3 DEF Table!Put, Proved!Put, Table!Overloaded, Proved!Overloaded
<1>4. ASSUME NEW k, NEW v, Table!PutGrow(k, v) PROVE Proved!PutGrow(k, v)
  BY <1>4 DEF Table!PutGrow, Proved!PutGrow, Table!Overloaded, Proved!Overloaded,
              Table!EmptyTable, Proved!EmptyTable, Table!Slots, Proved!Slots,
              Table!Grow, Proved!Grow, Table!Empty, Proved!Empty, Table!Entry, Proved!Entry
<1>5. ASSUME Table!Rehash PROVE Proved!Rehash
  BY <1>5, SameFind DEF Table!Rehash, Proved!Rehash, Table!Grow, Proved!Grow
<1>6. ASSUME Table!PutEnd PROVE Proved!PutEnd
  BY <1>2, <1>6 DEF Table!PutEnd, Proved!PutEnd, Table!Grow, Proved!Grow, Table!EmptyTable,
              Proved!EmptyTable, Table!Slots, Proved!Slots, Table!Empty, Proved!Empty,
              Table!Entry, Proved!Entry
<1> QED BY <1>1, <1>3, <1>4, <1>5, <1>6

(***************************************************************************)
(* map_find_str.                                                           *)
(***************************************************************************)
\* What map_find_str relies on: no text is stored twice.
OneStored == \A i, j \in Proved!Slots(cap) :
               /\ entries[i].key # NoKey /\ entries[j].key # NoKey
               /\ entries[i].key.text = entries[j].key.text
               => entries[i].key = entries[j].key

\* Its probe goes round the table once...
LEMMA EntryAtForm ==
  ASSUME cap \in Nat, cap # 0, NEW t \in Texts
  PROVE  /\ \A d \in Proved!Slots(cap) : \E i \in Proved!Slots(cap) : EntryAt(t, d) = entries[i]
         /\ \A i \in Proved!Slots(cap) : \E d \in Proved!Slots(cap) : EntryAt(t, d) = entries[i]
<1>1. Home(t) \in 0 .. cap - 1
  <2>1. HashString[t] \in Nat
    BY TextsAssumption
  <2> QED BY <2>1 DEF Home
<1>2. \A d : EntryAt(t, d) = entries[Proved!Wrap(Home(t) + d, cap)]
  BY SameTable, Zenon DEF EntryAt
<1> HIDE DEF Home
<1>3. \A d \in Proved!Slots(cap) : Proved!Wrap(Home(t) + d, cap) \in Proved!Slots(cap)
  BY <1>1 DEF Proved!Wrap, Proved!Slots
<1>4. ASSUME NEW i \in Proved!Slots(cap)
      PROVE  \E d \in Proved!Slots(cap) : EntryAt(t, d) = entries[i]
  <2> DEFINE d == IF i >= Home(t) THEN i - Home(t) ELSE i - Home(t) + cap
  <2>1. d \in Proved!Slots(cap) /\ Proved!Wrap(Home(t) + d, cap) = i
    BY <1>1 DEF Proved!Wrap, Proved!Slots
  <2> HIDE DEF d
  <2> QED BY <2>1, <1>2
<1> QED BY <1>2, <1>3, <1>4

\* ... along the path of every object of the text.
LEMMA SamePath ==
  ASSUME NEW o \in Objects, NEW d
  PROVE  EntryAt(o.text, d) = entries[Proved!Probe(o, d, cap)]
  BY SameTable DEF EntryAt, Home, Proved!Probe

\* The loop ends, with the text's object if there is one, and otherwise with none.
LEMMA FindStrOK ==
  ASSUME Proved!IInv, pc = "idle", OneStored, NEW t \in Texts
  PROVE  /\ cap # 0 => \E d \in Table!Slots(cap) : FindStops(t, d)
         /\ \A i \in Proved!Slots(cap) :
              entries[i].key # NoKey /\ entries[i].key.text = t => FindStr(t) = entries[i].key
         /\ FindStr(t) # NoKey =>
              \E i \in Proved!Slots(cap) : FindStr(t) = entries[i].key /\ entries[i].key.text = t
<1>1. /\ cap \in Nat /\ Proved!Table(entries, cap)
      /\ len = Proved!Cardinality(Proved!Used(entries, cap))
      /\ 4 * Proved!Cardinality(Proved!Used(entries, cap)) <= 3 * cap
      /\ len \in Nat
  BY DEF Proved!IInv, Proved!TypeOK
<1>2. Proved!Empty.key = NoKey /\ \A c : Table!Slots(c) = Proved!Slots(c)
  BY SameTable, Assumptions, Proved!EmptyKey
<1>3. ASSUME cap # 0
      PROVE  \E d \in Proved!Slots(cap) :
               /\ FindStops(t, d)
               /\ \A e \in 0 .. d - 1 : ~FindStops(t, e)
  <2>1. Proved!HasHole(entries, cap)
    BY <1>3, Assumptions, Proved!Holes
  <2>2. PICK i \in Proved!Slots(cap) : entries[i] = Proved!Empty
    BY <2>1 DEF Proved!HasHole
  <2>3. PICK d \in Proved!Slots(cap) : EntryAt(t, d) = entries[i]
    BY <1>1, <1>3, EntryAtForm
  <2>4. FindStops(t, d)
    BY <2>2, <2>3, SameTable DEF FindStops
  <2> DEFINE S == {e \in Proved!Slots(cap) : FindStops(t, e)}
  <2>5. d \in S /\ S \subseteq Nat
    BY <2>4 DEF Proved!Slots
  <2>6. PICK m \in S : \A n \in S : m <= n
    <3> HIDE DEF S
    <3> QED BY <2>5, MinExists
  <2>7. \A e \in 0 .. m - 1 : ~FindStops(t, e)
    BY <1>1, <2>6 DEF Proved!Slots
  <2> QED BY <2>6, <2>7
<1> DEFINE first == CHOOSE d \in Table!Slots(cap) :
                      FindStops(t, d) /\ \A e \in 0 .. d - 1 : ~FindStops(t, e)
<1>4. ASSUME cap # 0
      PROVE  first \in Proved!Slots(cap) /\ FindStops(t, first)
             /\ \A e \in 0 .. first - 1 : ~FindStops(t, e)
  <2>1. \E d \in Table!Slots(cap) : FindStops(t, d) /\ \A e \in 0 .. d - 1 : ~FindStops(t, e)
    BY <1>2, <1>3, <1>4
  <2> QED BY <2>1, <1>2
<1>5. len # 0 => cap # 0 /\ FindStr(t) = EntryAt(t, first).key
  BY <1>1 DEF FindStr
<1>6. len = 0 => FindStr(t) = NoKey
  BY DEF FindStr
<1> HIDE DEF first
<1>7. ASSUME NEW i \in Proved!Slots(cap), entries[i].key # NoKey, entries[i].key.text = t
      PROVE  FindStr(t) = entries[i].key
  <2> DEFINE o == entries[i].key
  <2>1. o \in Objects
    BY <1>1, <1>7 DEF Proved!Table, Proved!EntryType
  <2>2. len # 0
    <3>1. Proved!Used(entries, cap) # {}
      BY <1>2, <1>7 DEF Proved!Used
    <3>2. /\ Proved!IsFiniteSet(Proved!Used(entries, cap))
      BY <1>1, Assumptions, Proved!UsedFinite
    <3>3. IsFiniteSet(Proved!Used(entries, cap))
      BY <3>2 DEF Proved!IsFiniteSet, IsFiniteSet
    <3>4. Cardinality(Proved!Used(entries, cap)) # 0
      BY <3>1, <3>3, FS_EmptySet
    <3> QED BY <3>4, <1>1 DEF Proved!Cardinality, Cardinality
  <2>3. /\ first \in Proved!Slots(cap) /\ FindStops(t, first)
        /\ \A e \in 0 .. first - 1 : ~FindStops(t, e)
        /\ FindStr(t) = EntryAt(t, first).key /\ cap # 0
    BY <2>2, <1>4, <1>5
  <2>4. PICK x \in Proved!Slots(cap) : Proved!Probe(o, x, cap) = i
    BY <1>1, <2>1, Assumptions, Proved!ProbeOnto
  <2>5. EntryAt(t, x) = entries[i]
    BY <2>1, <2>4, <1>7, SamePath
  <2>6. FindStops(t, x)
    BY <2>5, <1>7 DEF FindStops, Holds
  <2>7. ~(x < first)
    BY <2>3, <2>6 DEF Proved!Slots
  <2>8. EntryAt(t, first) # Proved!Empty
    <3>1. CASE first = x
      BY <3>1, <2>5, <1>2, <1>7
    <3>2. CASE first # x
      <4>1. first \in 0 .. x - 1
        BY <3>2, <2>3, <2>7 DEF Proved!Slots
      <4>2. entries[Proved!Probe(o, first, cap)] # Proved!Empty
        BY <1>1, <2>1, <2>4, <4>1 DEF Proved!Table, Proved!Unbroken
      <4> QED BY <4>2, <2>1, <1>7, SamePath
    <3> QED BY <3>1, <3>2
  <2>9. Holds(t, first)
    BY <2>3, <2>8, SameTable DEF FindStops
  <2>10. PICK j \in Proved!Slots(cap) : EntryAt(t, first) = entries[j]
    BY <1>1, <2>3, EntryAtForm
  <2> QED BY <2>3, <2>9, <2>10, <1>7 DEF Holds, OneStored
<1>8. ASSUME FindStr(t) # NoKey
      PROVE  \E i \in Proved!Slots(cap) : FindStr(t) = entries[i].key /\ entries[i].key.text = t
  <2>1. /\ first \in Proved!Slots(cap) /\ FindStops(t, first)
        /\ FindStr(t) = EntryAt(t, first).key /\ cap # 0
    BY <1>4, <1>5, <1>6, <1>8
  <2>2. Holds(t, first)
    BY <2>1, <1>2, <1>8, SameTable DEF FindStops
  <2>3. PICK j \in Proved!Slots(cap) : EntryAt(t, first) = entries[j]
    BY <1>1, <2>1, EntryAtForm
  <2> QED BY <2>1, <2>2, <2>3 DEF Holds
<1> QED BY <1>2, <1>3, <1>7, <1>8

(***************************************************************************)
(* The invariant.                                                          *)
(***************************************************************************)
\* The table stores the objects made, but for the one it is growing for, and no
\* text has two.
SInv ==
  /\ Proved!CInv
  /\ objects \subseteq Objects
  /\ OneObject
  /\ pc = "rehash" => pending.key \in objects
  /\ Proved!StoredIn(entries, cap) = Interned

\* What a put adds to what is stored; a growth that goes on adds nothing.
LEMMA StoredPut ==
  ASSUME Proved!IInv, NEW k \in Objects, Proved!Put(k, Null)
  PROVE  Proved!StoredIn(entries', cap') = Proved!StoredIn(entries, cap) \cup {k}
<1>1. Proved!Abstract!Put(k, Null)
  BY Assumptions, Proved!PutMaps
<1>2. /\ Proved!Contents = Proved!ContentsOf(entries, cap)
      /\ Proved!Contents' = Proved!ContentsOf(entries', cap')
  BY Assumptions, Proved!ContentsIs
<1>3. DOMAIN Proved!Contents' = DOMAIN Proved!Contents \cup {k}
  BY <1>1 DEF Proved!Abstract!Put
<1> QED BY <1>2, <1>3 DEF Proved!ContentsOf

\* Ending a put stores its key and no other.
LEMMA StoredPutEnd ==
  ASSUME Proved!CInv, Proved!PutEnd
  PROVE  Proved!StoredIn(entries', cap') = Proved!StoredIn(entries, cap) \cup {pending.key}
<1>1. Proved!Abstract!Put(pending.key, pending.value)
  BY Assumptions, Proved!PutEndMaps
<1>2. /\ Proved!Contents = Proved!ContentsOf(entries, cap)
      /\ Proved!Contents' = Proved!ContentsOf(entries', cap')
  BY Assumptions, Proved!ContentsIs
<1>3. DOMAIN Proved!Contents' = DOMAIN Proved!Contents \cup {pending.key}
  BY <1>1 DEF Proved!Abstract!Put
<1> QED BY <1>2, <1>3 DEF Proved!ContentsOf

\* Outside of a growth map_find_str answers with the object of a text, if it has one.
LEMMA FindsObjects ==
  ASSUME SInv, pc = "idle"
  PROVE  /\ cap # 0 => \A t \in Texts : \E d \in Table!Slots(cap) : FindStops(t, d)
         /\ \A o \in objects : o.text \in Texts /\ FindStr(o.text) = o
         /\ \A t \in Texts : FindStr(t) # NoKey => FindStr(t) \in objects /\ FindStr(t).text = t
<1>1. Proved!IInv /\ objects \subseteq Objects /\ OneObject
  BY DEF SInv, Proved!CInv
<1>2. Proved!StoredIn(entries, cap) = objects
  BY DEF SInv, Interned
<1>3. /\ \A i \in Proved!Slots(cap) : entries[i].key # NoKey => entries[i].key \in objects
      /\ \A o \in objects : \E i \in Proved!Slots(cap) : entries[i].key = o /\ o # NoKey
  BY <1>2 DEF Proved!StoredIn, Proved!Keyed, Proved!Slots
<1>4. OneStored
  BY <1>1, <1>3 DEF OneStored, OneObject
<1>5. \A o \in objects : o.text \in Texts
  BY <1>1 DEF Objects
<1>6. ASSUME NEW o \in objects PROVE FindStr(o.text) = o
  BY <1>1, <1>3, <1>4, <1>5, FindStrOK
<1>7. ASSUME NEW t \in Texts, FindStr(t) # NoKey
      PROVE  FindStr(t) \in objects /\ FindStr(t).text = t
  BY <1>1, <1>3, <1>4, <1>7, FindStrOK
<1>8. ASSUME NEW t \in Texts, cap # 0
      PROVE  \E d \in Table!Slots(cap) : FindStops(t, d)
  BY <1>1, <1>4, <1>8, FindStrOK
<1> QED BY <1>5, <1>6, <1>7, <1>8

\* A text that is not found has no object, and new_string's is its first.
LEMMA NewIsNew ==
  ASSUME SInv, NEW t \in Texts, NewString(t)
  PROVE  /\ NewObject(t) \in Objects /\ NewObject(t).text = t
         /\ \A o \in objects : o.text # t
         /\ NewObject(t) \notin objects
<1>1. pc = "idle" /\ FindStr(t) = NoKey /\ NewObject(t) \in Objects
  BY DEF NewString
<1>2. NewObject(t).text = t
  BY DEF NewObject
<1>3. objects \subseteq Objects /\ NoKey \notin Objects
  BY TableAssumption DEF SInv
<1>4. \A o \in objects : o.text # t
  BY <1>1, <1>3, FindsObjects
<1> QED BY <1>1, <1>2, <1>4

(***************************************************************************)
(* Every step keeps it.                                                    *)
(***************************************************************************)
\* The calls of copy_string and take_string, and what becomes of one that has to
\* grow the table.
StringNext ==
  \/ \E t \in Texts : Found(t) \/ NewString(t)
  \/ GrowOn
  \/ GrownString

\* The table starts in the invariant.
LEMMA InitSInv == StringInit => SInv
<1> SUFFICES ASSUME StringInit PROVE SInv
  OBVIOUS
<1>1. Proved!Init /\ objects = {} /\ pc = "idle"
  BY SameSteps DEF StringInit, Proved!Init
<1>2. Proved!CInv
  BY <1>1, Assumptions, Proved!InitIInv DEF Proved!CInv, Proved!Copied
<1>3. Proved!StoredIn(entries, cap) = {}
  BY <1>1 DEF Proved!Init, Proved!StoredIn, Proved!Keyed
<1> QED BY <1>1, <1>2, <1>3 DEF SInv, OneObject, Interned

\* What a step of the table itself keeps.
LEMMA TableCInv ==
  ASSUME Proved!CInv, Proved!Next \/ UNCHANGED Proved!vars
  PROVE  Proved!CInv'
<1>1. [Proved!Next]_Proved!vars
  OBVIOUS
<1> QED BY <1>1, Assumptions, Proved!NextCInv

\* new_string adds the first object of a text.
LEMMA NewStringSInv ==
  ASSUME SInv, NEW t \in Texts, NewString(t)
  PROVE  SInv'
<1> DEFINE o == NewObject(t)
<1>1. /\ o \in Objects /\ o.text = t /\ o \notin objects
      /\ \A p \in objects : p.text # t
  BY NewIsNew
<1>2. /\ pc = "idle" /\ objects' = objects \cup {o}
      /\ Table!Put(o, Null) \/ Table!PutGrow(o, Null)
  BY DEF NewString
<1> HIDE DEF o
<1>3. Proved!CInv /\ Proved!IInv /\ objects \subseteq Objects /\ OneObject
      /\ Proved!StoredIn(entries, cap) = objects
  BY <1>2 DEF SInv, Proved!CInv, Interned
<1>4. objects' \subseteq Objects /\ OneObject'
  BY <1>1, <1>2, <1>3 DEF OneObject
<1>5. CASE Table!Put(o, Null)
  <2>1. Proved!Put(o, Null) /\ pc' = "idle"
    BY <1>5, SameSteps DEF Proved!Put
  <2>2. Proved!CInv'
    BY <1>1, <1>3, <2>1, TableCInv DEF Proved!Next
  <2>3. Proved!StoredIn(entries, cap)' = objects'
    BY <1>1, <1>2, <1>3, <2>1, StoredPut
  <2> QED BY <1>4, <2>1, <2>2, <2>3 DEF SInv, Interned
<1>6. CASE Table!PutGrow(o, Null)
  <2>1. Proved!PutGrow(o, Null)
    BY <1>6, SameSteps
  <2>2. /\ pc' = "rehash" /\ pending'.key = o
        /\ Proved!StoredIn(entries, cap)' = objects
    BY <2>1, <1>3 DEF Proved!PutGrow, Proved!Entry
  <2>3. Proved!CInv'
    BY <1>1, <1>3, <2>1, TableCInv DEF Proved!Next
  <2>4. Interned' = objects
    BY <1>1, <1>2, <2>2 DEF Interned
  <2> QED BY <1>2, <1>4, <2>2, <2>3, <2>4 DEF SInv
<1> QED BY <1>2, <1>5, <1>6

\* One step of a growth, which no caller sees.
LEMMA GrowOnSInv ==
  ASSUME SInv, GrowOn
  PROVE  SInv' /\ Interned' = Interned
<1>1. Proved!Rehash /\ UNCHANGED objects
  BY SameSteps DEF GrowOn
<1>2. UNCHANGED <<cap, entries, pc, pending, objects>>
  BY <1>1 DEF Proved!Rehash
<1>3. Proved!CInv'
  BY <1>1, TableCInv DEF SInv, Proved!Next
<1>4. Interned' = Interned /\ OneObject'
  BY <1>2 DEF SInv, Interned, OneObject
<1> QED BY <1>2, <1>3, <1>4 DEF SInv

\* The end of a growth stores the object it was for.
LEMMA GrownStringSInv ==
  ASSUME SInv, GrownString
  PROVE  /\ SInv'
         /\ pending.key \in objects /\ Interned = objects \ {pending.key}
         /\ pc' = "idle" /\ Interned' = objects
<1>1. Proved!PutEnd /\ UNCHANGED objects
  BY SameSteps DEF GrownString
<1>2. pc = "rehash" /\ pc' = "idle"
  BY <1>1 DEF Proved!PutEnd
<1>3. Proved!CInv'
  BY <1>1, TableCInv DEF SInv, Proved!Next
<1>4. pending.key \in objects /\ Interned = objects \ {pending.key}
  BY <1>2 DEF SInv, Interned
<1>5. Proved!StoredIn(entries, cap)' = Interned \cup {pending.key}
  BY <1>1, StoredPutEnd DEF SInv
<1>6. Interned' = objects /\ OneObject'
  BY <1>1, <1>2 DEF SInv, Interned, OneObject
<1> QED BY <1>1, <1>2, <1>3, <1>4, <1>5, <1>6 DEF SInv

\* A step that leaves the table and the objects alone.
LEMMA UnchangedSInv ==
  ASSUME SInv, UNCHANGED <<len, cap, entries, pc, fresh, pos, pending, ret, objects>>
  PROVE  SInv' /\ Interned' = Interned
<1>1. Proved!CInv'
  BY TableCInv DEF SInv, Proved!vars
<1>2. Interned' = Interned /\ OneObject'
  BY DEF SInv, Interned, OneObject
<1> QED BY <1>1, <1>2 DEF SInv

\* Every step of the table keeps it.
LEMMA NextSInv == SInv /\ [StringNext]_stringVars => SInv'
<1> SUFFICES ASSUME SInv, [StringNext]_stringVars PROVE SInv'
  OBVIOUS
<1>1. ASSUME NEW t \in Texts, Found(t) PROVE SInv'
  BY <1>1, UnchangedSInv DEF Found
<1>2. ASSUME NEW t \in Texts, NewString(t) PROVE SInv'
  BY <1>2, NewStringSInv
<1>3. CASE GrowOn
  BY <1>3, GrowOnSInv
<1>4. CASE GrownString
  BY <1>4, GrownStringSInv
<1>5. CASE UNCHANGED stringVars
  BY <1>5, UnchangedSInv DEF stringVars
<1> QED BY <1>1, <1>2, <1>3, <1>4, <1>5 DEF StringNext

\* What the properties of the table of strings need of it.
LEMMA SInvFindsAll == SInv => OneObject /\ FindsAll
  BY FindsObjects DEF SInv, FindsAll

(***************************************************************************)
(* Every step is one of the interner, or none.                             *)
(***************************************************************************)
\* The mapping: with one object for each text the CHOOSE has no choice.
LEMMA OneChoice ==
  ASSUME NEW S, \A o, p \in S : o.text = p.text => o = p
  PROVE  \A o \in S : (CHOOSE p \in S : p.text = o.text) = o
  OBVIOUS

\* ObjectOf finds each text's object.
LEMMA ObjectOfAt ==
  /\ SInv  => \A o \in Interned : o.text \in DOMAIN ObjectOf /\ ObjectOf[o.text] = o
  /\ SInv' => \A o \in Interned' : o.text \in DOMAIN ObjectOf' /\ ObjectOf'[o.text] = o
<1>1. ASSUME SInv, NEW o \in Interned
      PROVE  o.text \in DOMAIN ObjectOf /\ ObjectOf[o.text] = o
  <2>1. \A p, q \in Interned : p.text = q.text => p = q
    BY <1>1 DEF SInv, Interned, OneObject
  <2> QED BY <2>1, OneChoice DEF ObjectOf
<1>2. ASSUME SInv', NEW o \in Interned'
      PROVE  o.text \in DOMAIN ObjectOf' /\ ObjectOf'[o.text] = o
  <2>1. \A p, q \in Interned' : p.text = q.text => p = q
    BY <1>2 DEF SInv, Interned, OneObject
  <2> QED BY <2>1, OneChoice DEF ObjectOf
<1> QED BY <1>1, <1>2

\* It changes only with the strings.
LEMMA SameObjectOf == UNCHANGED Interned => UNCHANGED ObjectOf
  BY DEF ObjectOf

\* A call that gives a text its object is the interner's.
LEMMA AddsObject ==
  ASSUME SInv, SInv', NEW o \in Objects, \A p \in Interned : p.text # o.text,
         Interned' = Interned \cup {o}, result' = Answer(o.text, o)
  PROVE  \E t \in Texts : Abstract!Intern(t)
<1> DEFINE t == o.text
<1>1. DOMAIN ObjectOf = {p.text : p \in Interned} /\ DOMAIN ObjectOf' = {p.text : p \in Interned'}
  BY DEF ObjectOf
<1>2. t \notin DOMAIN ObjectOf /\ DOMAIN ObjectOf' = DOMAIN ObjectOf \cup {t}
  BY <1>1
<1>3. \A p \in Interned : ObjectOf[p.text] = p
  BY ObjectOfAt
<1>4. \A p \in Interned' : ObjectOf'[p.text] = p
  BY ObjectOfAt
<1>5. \A u \in DOMAIN ObjectOf' : ObjectOf'[u] = IF u = t THEN o ELSE ObjectOf[u]
  BY <1>1, <1>2, <1>3, <1>4
<1>6. ObjectOf' = [u \in DOMAIN ObjectOf \cup {t} |-> IF u = t THEN o ELSE ObjectOf[u]]
  <2>1. ObjectOf' = [u \in DOMAIN ObjectOf' |-> ObjectOf'[u]]
    BY DEF ObjectOf
  <2> QED BY <2>1, <1>2, <1>5
<1>7. result' = Abstract!Answer(t, ObjectOf'[t])
  BY <1>2, <1>5 DEF Answer, Abstract!Answer
<1>8. t \in Texts
  BY DEF Objects
<1>9. Abstract!Intern(t)
  BY <1>2, <1>6, <1>7 DEF Abstract!Intern
<1> QED BY <1>8, <1>9

\* The table starts without strings, like the abstract one.
LEMMA InitInterns == StringInit => Abstract!Init
<1> SUFFICES ASSUME StringInit PROVE Abstract!Init
  OBVIOUS
<1>1. objects = {} /\ result = NoKey
  BY DEF StringInit
<1>2. Interned = {}
  BY <1>1 DEF Interned
<1>3. ObjectOf = [t \in {} |-> NoKey]
  BY <1>2 DEF ObjectOf
<1> QED BY <1>1, <1>3 DEF Abstract!Init

\* A text that has an object is answered with it, and nothing changes.
LEMMA FoundInterns ==
  ASSUME SInv, NEW t \in Texts, Found(t)
  PROVE  Abstract!Intern(t)
<1> DEFINE o == FindStr(t)
<1>1. /\ pc = "idle" /\ o # NoKey /\ result' = Answer(t, o)
      /\ UNCHANGED <<len, cap, entries, pc, fresh, pos, pending, ret, objects>>
  BY DEF Found
<1>2. o \in objects /\ o.text = t
  BY <1>1, FindsObjects
<1>3. o \in Interned
  BY <1>1, <1>2 DEF Interned
<1> HIDE DEF o
<1>4. t \in DOMAIN ObjectOf /\ ObjectOf[t] = o
  BY <1>2, <1>3, ObjectOfAt
<1>5. UNCHANGED ObjectOf
  BY <1>1, UnchangedSInv, SameObjectOf
<1>6. result' = Abstract!Answer(t, ObjectOf'[t])
  BY <1>1, <1>4, <1>5 DEF Answer, Abstract!Answer
<1> QED BY <1>4, <1>5, <1>6 DEF Abstract!Intern

\* Every step is one of the abstract table's or none.
LEMMA NextInterns == SInv /\ [StringNext]_stringVars => [Abstract!Next]_Abstract!internerVars
<1> SUFFICES ASSUME SInv, [StringNext]_stringVars
             PROVE  Abstract!Next \/ UNCHANGED Abstract!internerVars
  OBVIOUS
<1>0. SInv'
  BY NextSInv
<1>1. ASSUME NEW t \in Texts, Found(t) PROVE Abstract!Next
  BY <1>1, FoundInterns DEF Abstract!Next
<1>2. ASSUME NEW t \in Texts, NewString(t)
      PROVE  Abstract!Next \/ UNCHANGED Abstract!internerVars
  <2> DEFINE o == NewObject(t)
  <2>1. /\ o \in Objects /\ o.text = t /\ o \notin objects
        /\ \A p \in objects : p.text # t
    BY <1>2, NewIsNew
  <2>2. /\ pc = "idle" /\ objects' = objects \cup {o}
        /\ \/ Table!Put(o, Null) /\ result' = Answer(t, o)
           \/ Table!PutGrow(o, Null) /\ UNCHANGED result
    BY <1>2 DEF NewString
  <2> HIDE DEF o
  <2>3. Interned = objects
    BY <2>2 DEF Interned
  <2>4. CASE Table!Put(o, Null) /\ result' = Answer(t, o)
    <3>1. pc' = "idle"
      BY <2>4, SameSteps DEF Proved!Put
    <3>2. Interned' = Interned \cup {o}
      BY <3>1, <2>2, <2>3 DEF Interned
    <3>3. \E u \in Texts : Abstract!Intern(u)
      BY <3>2, <2>1, <2>3, <2>4, <1>0, AddsObject
    <3> QED BY <3>3 DEF Abstract!Next
  <2>5. CASE Table!PutGrow(o, Null) /\ UNCHANGED result
    <3>1. pc' = "rehash" /\ pending'.key = o
      BY <2>5, SameSteps DEF Proved!PutGrow, Proved!Entry
    <3>2. Interned' = Interned
      BY <3>1, <2>1, <2>2, <2>3 DEF Interned
    <3> QED BY <3>2, <2>5, SameObjectOf DEF Abstract!internerVars
  <2> QED BY <2>2, <2>4, <2>5
<1>3. CASE GrowOn
  BY <1>3, GrowOnSInv, SameObjectOf DEF GrowOn, Abstract!internerVars
<1>4. CASE GrownString
  <2> DEFINE o == pending.key
  <2>1. /\ o \in objects /\ Interned = objects \ {o} /\ Interned' = objects
    BY <1>4, GrownStringSInv
  <2>2. result' = Answer(o.text, o)
    BY <1>4 DEF GrownString
  <2>3. o \in Objects /\ \A p \in Interned : p.text # o.text
    BY <2>1 DEF SInv, OneObject
  <2> HIDE DEF o
  <2>4. Interned' = Interned \cup {o}
    BY <2>1
  <2>5. \E u \in Texts : Abstract!Intern(u)
    BY <2>2, <2>3, <2>4, <1>0, AddsObject
  <2> QED BY <2>5 DEF Abstract!Next
<1>5. CASE UNCHANGED stringVars
  <2>1. UNCHANGED <<len, cap, entries, pc, fresh, pos, pending, ret, objects>> /\ UNCHANGED result
    BY <1>5 DEF stringVars
  <2> QED BY <2>1, UnchangedSInv, SameObjectOf DEF Abstract!internerVars
<1> QED BY <1>1, <1>2, <1>3, <1>4, <1>5 DEF StringNext

(***************************************************************************)
(* The strings.                                                            *)
(***************************************************************************)
\* Until ~VM empties the table it is as SInv has it; after that nothing asks it
\* any more.
StringsOK ==
  IF phase = "running" THEN SInv
  ELSE cap = 0 /\ pc = "idle" /\ OneObject

\* What the steps of the memory are to the strings.
LEMMA StringSteps ==
  ASSUME StringsOK, [MemoryNext]_memoryVars
  PROVE  \/ phase = "running" /\ phase' = "running" /\ [StringNext]_stringVars
         \/ /\ pc = "idle" /\ pc' = "idle" /\ cap' = 0 /\ phase' # "running"
            /\ UNCHANGED <<objects, result>>
<1>1. ASSUME NEW t \in Texts, CopyString(t) \/ TakeString(t) \/ TextOfObject(t)
      PROVE  phase = "running" /\ phase' = "running" /\ StringNext
  BY <1>1 DEF CopyString, TakeString, TextOfObject, StringMade, StringKept, Running, StringNext
<1>2. ASSUME NEW kind, NEW n, NewOther(kind, n)
      PROVE  phase = "running" /\ phase' = "running" /\ UNCHANGED stringVars
  BY <1>2 DEF NewOther, Running
<1>3. ASSUME NEW f, NEW part, Push(f, part)
      PROVE  phase = "running" /\ phase' = "running" /\ UNCHANGED stringVars
  BY <1>3 DEF Push, Running
<1>4. ASSUME GrowTable
      PROVE  phase = "running" /\ phase' = "running" /\ StringNext
  <2>1. (GrowOn \/ GrownString) /\ phase' = phase
    BY <1>4 DEF GrowTable, ownVars
  <2>2. pc = "rehash"
    BY <2>1 DEF GrowOn, GrownString, Table!Rehash, Table!PutEnd
  <2> QED BY <2>1, <2>2 DEF StringsOK, StringNext
<1>5. ASSUME Destroy
      PROVE  /\ pc = "idle" /\ pc' = "idle" /\ cap' = 0 /\ phase' # "running"
             /\ UNCHANGED <<objects, result>>
  BY <1>5 DEF Destroy, Running
<1>6. ASSUME ReadNext \/ FreeObject \/ FreedAll
      PROVE  /\ pc = "idle" /\ pc' = "idle" /\ cap' = 0 /\ phase' # "running"
             /\ UNCHANGED <<objects, result>>
  BY <1>6 DEF ReadNext, FreeObject, FreedAll, StringsOK, stringVars
<1>7. ASSUME UNCHANGED memoryVars
      PROVE  \/ phase = "running" /\ phase' = "running" /\ UNCHANGED stringVars
             \/ /\ pc = "idle" /\ pc' = "idle" /\ cap' = 0 /\ phase' # "running"
                /\ UNCHANGED <<objects, result>>
  BY <1>7 DEF memoryVars, stringVars, ownVars, StringsOK
<1> QED BY <1>1, <1>2, <1>3, <1>4, <1>5, <1>6, <1>7 DEF MemoryNext, Work

\* Every step of the memory is a step of the string table or leaves it alone.
LEMMA NextStringsOK == StringsOK /\ [MemoryNext]_memoryVars => StringsOK'
<1> SUFFICES ASSUME StringsOK, [MemoryNext]_memoryVars PROVE StringsOK'
  OBVIOUS
<1>1. OneObject
  BY DEF StringsOK, SInv
<1>2. CASE phase = "running" /\ phase' = "running" /\ [StringNext]_stringVars
  BY <1>2, NextSInv DEF StringsOK
<1>3. CASE /\ pc = "idle" /\ pc' = "idle" /\ cap' = 0 /\ phase' # "running"
           /\ UNCHANGED <<objects, result>>
  BY <1>1, <1>3 DEF StringsOK, OneObject
<1> QED BY <1>2, <1>3, StringSteps

\* The memory starts with an empty table.
LEMMA InitStringsOK == MemoryInit => StringsOK
  BY InitSInv DEF MemoryInit, StringsOK

\* What is proved of the string table holds of it within the memory.
THEOREM StringsInvariance == MemorySpec => []StringsOK
<1> QED BY InitStringsOK, NextStringsOK, PTL DEF MemorySpec

\* No text ever has two objects, whatever copy_string and take_string are asked and
\* however the table grows in between (new_string puts what it makes).
THEOREM OneObjectEach == MemorySpec => []OneObject
<1>1. StringsOK => OneObject
  BY DEF StringsOK, SInv
<1> QED BY <1>1, StringsInvariance, PTL

\* map_find_str's endless loop ends, and finds every object by its text.
THEOREM AllFound == MemorySpec => []FindsAll
<1>1. StringsOK => FindsAll
  BY SInvFindsAll DEF StringsOK, FindsAll
<1> QED BY <1>1, StringsInvariance, PTL

\* copy_string and take_string answer as the interner does: with the one object a
\* text has for ever; a growth of the table, and ~VM, are not seen.
THEOREM Interns == MemorySpec => ImplementsInterner
<1>1. MemoryInit => Abstract!Init
  BY InitInterns DEF MemoryInit
<1>2. StringsOK /\ [MemoryNext]_memoryVars => [Abstract!Next]_Abstract!internerVars
  <2> SUFFICES ASSUME StringsOK, [MemoryNext]_memoryVars
               PROVE  [Abstract!Next]_Abstract!internerVars
    OBVIOUS
  <2>1. CASE phase = "running" /\ phase' = "running" /\ [StringNext]_stringVars
    BY <2>1, NextInterns DEF StringsOK
  <2>2. CASE /\ pc = "idle" /\ pc' = "idle" /\ cap' = 0 /\ phase' # "running"
             /\ UNCHANGED <<objects, result>>
    <3>1. Interned' = Interned
      BY <2>2 DEF Interned
    <3> QED BY <3>1, <2>2, SameObjectOf DEF Abstract!internerVars
  <2> QED BY <2>1, <2>2, StringSteps
<1>3. MemorySpec => Abstract!Spec
  BY <1>1, <1>2, StringsInvariance, PTL DEF MemorySpec, Abstract!Spec
<1> QED BY <1>3 DEF ImplementsInterner

(***************************************************************************)
(* The blocks.                                                             *)
(*                                                                         *)
(* The objects are the members of a sequence, the oldest first, whose last *)
(* is vm->objects and in which each one's next is the one before it        *)
(* (Linked).  The blocks of an object bear its address, so those of two    *)
(* objects are different; the live ones are those of the objects that      *)
(* free_objects has not reached yet, with the stack, the table's arrays    *)
(* and the buffers that were lost; between the two steps of free_objects'  *)
(* loop, next is that of the object at hand (HeapOK).                      *)
(***************************************************************************)
Array == {a \in [len : Nat, cap : Nat] : a.len <= a.cap}

\* The objects that are no strings: a number for each, and arrays that are never
\* over their capacity; only a closure has an array of upvalues.
OthersOK ==
  /\ IsFiniteSet(DOMAIN others)
  /\ DOMAIN others \subseteq Others
  /\ others \in [DOMAIN others -> [code : Array, consts : Array, upvalues : {0, 1}]]
  /\ \A o \in DOMAIN others : o.num <= Cardinality(DOMAIN others)
  /\ \A o \in DOMAIN others : /\ o.kind # "closure"  => others[o].upvalues = 0
                              /\ o.kind # "function" => others[o].code.cap = 0 /\ others[o].consts.cap = 0

Linked(seq, n) ==
  /\ n \in Nat /\ seq \in [1 .. n -> DOMAIN next]
  /\ \A i, j \in 1 .. n : seq[i] = seq[j] => i = j
  /\ \A o \in DOMAIN next : \E i \in 1 .. n : seq[i] = o
  /\ head = IF n = 0 THEN NoObject ELSE seq[n]
  /\ \A i \in 1 .. n : next[seq[i]] = IF i = 1 THEN NoObject ELSE seq[i - 1]

Lost == {Buffer(n) : n \in 1 .. lost}
OwnedBy(os) == UNION {Freed(o) : o \in os}
TablesLive == {TableOf(c) : c \in ({cap} \cup (IF pc = "idle" THEN {} ELSE {Table!Grow(cap)})) \ {0}}

\* free_objects has freed what comes behind number m.
FreeingOK(seq, n) ==
  \E m \in 0 .. n :
    /\ cursor = IF m = 0 THEN NoObject ELSE seq[m]
    /\ live = OwnedBy({seq[i] : i \in 1 .. m}) \cup Lost

HeapOK ==
  /\ phase \in {"running", "at", "behind", "done"}
  /\ lost \in Nat
  /\ objects \subseteq Objects
  /\ OthersOK
  /\ DOMAIN next = objects \cup DOMAIN others
  /\ ~fault
  /\ phase = "running" => live = OwnedBy(DOMAIN next) \cup {Stack} \cup Lost \cup TablesLive
  /\ phase = "done" => live = Lost
  /\ phase = "behind" => cursor # NoObject /\ after = next[cursor]
  /\ \E seq, n : Linked(seq, n) /\ (phase \in {"at", "behind"} => FreeingOK(seq, n))

MemoryInv == StringsOK /\ HeapOK

(***************************************************************************)
(* Facts about them.                                                       *)
(***************************************************************************)
\* A string is none of the others, and the NULL pointer is no object.
LEMMA ObjectKinds ==
  /\ \A o \in Objects : o \notin Others
  /\ NoObject \notin Objects /\ NoObject \notin Others
<1>1. ASSUME NEW o \in Objects, o \in Others PROVE FALSE
  <2>1. DOMAIN o = {"text", "copy"}
    BY DEF Objects
  <2>2. DOMAIN o = {"kind", "num"}
    BY <1>1 DEF Others
  <2> QED BY <2>1, <2>2
<1> QED BY <1>1, TableAssumption, OthersAssumption DEF NoObject

\* A block tells whose it is.
LEMMA FreedOwner ==
  ASSUME NEW o, NEW b \in Freed(o)
  PROVE  b[1] = o
  BY DEF Freed, Itself, Block, ArrayOf

\* The blocks without an object.
LEMMA FreeBlocks ==
  /\ Stack[1] = NoObject
  /\ \A c : TableOf(c)[1] = NoObject /\ Buffer(c)[1] = NoObject
  /\ \A c, d : /\ TableOf(c) # Stack /\ Buffer(c) # Stack /\ TableOf(c) # Buffer(d)
               /\ TableOf(c) = TableOf(d) => c = d
  BY DEF Stack, TableOf, Buffer, Block

\* Growing gives more room than there was (GROW).
LEMMA Grows ==
  ASSUME NEW c \in Nat
  PROVE  Table!Grow(c) \in Nat /\ Table!Grow(c) > c
  BY TableAssumption DEF Table!Grow

\* What free_obj frees is a matter of the object and its own arrays.
FreedOf(o, string, arrays) ==
  {Itself(o)}
  \cup (IF string THEN {Block(o, "chars", 0)}
        ELSE CASE o.kind = "function" -> {Block(o, p, arrays[p].cap) : p \in {q \in ChunkParts : arrays[q].cap # 0}}
               [] o.kind = "closure"  -> IF arrays.upvalues = 0 THEN {} ELSE {Block(o, "upvalues", 0)}
               [] OTHER               -> {})

\* What free_obj frees, before and after a step.
LEMMA FreedIs ==
  ASSUME NEW o
  PROVE  /\ Freed(o) = FreedOf(o, o \in objects, others[o])
         /\ Freed(o)' = FreedOf(o, o \in objects', others'[o])
<1>1. Freed(o) = FreedOf(o, o \in objects, others[o])
  BY DEF Freed, FreedOf, IsString, ArrayOf
<1>2. Freed(o)' = FreedOf(o, o \in objects', others'[o])
  BY DEF Freed, FreedOf, IsString, ArrayOf, Itself, Block
<1> QED BY <1>1, <1>2

\* Type by type.
LEMMA FreedOfString ==
  ASSUME NEW o, NEW arrays
  PROVE  FreedOf(o, TRUE, arrays) = {Itself(o), Block(o, "chars", 0)}
  BY Zenon DEF FreedOf

\* What it frees of an object that is no string.
LEMMA FreedOfOther ==
  ASSUME NEW o, NEW arrays
  PROVE  /\ o.kind = "function" =>
              FreedOf(o, FALSE, arrays) =
                {Itself(o)} \cup {Block(o, p, arrays[p].cap) : p \in {q \in ChunkParts : arrays[q].cap # 0}}
         /\ o.kind = "closure" =>
              FreedOf(o, FALSE, arrays) =
                {Itself(o)} \cup (IF arrays.upvalues = 0 THEN {} ELSE {Block(o, "upvalues", 0)})
         /\ o.kind # "function" /\ o.kind # "closure" => FreedOf(o, FALSE, arrays) = {Itself(o)}
<1> DEFINE A == {Block(o, p, arrays[p].cap) : p \in {q \in ChunkParts : arrays[q].cap # 0}}
           B == IF arrays.upvalues = 0 THEN {} ELSE {Block(o, "upvalues", 0)}
           C == CASE o.kind = "function" -> A [] o.kind = "closure" -> B [] OTHER -> {}
<1>1. FreedOf(o, FALSE, arrays) = {Itself(o)} \cup C
  BY DEF FreedOf
<1> HIDE DEF A, B
<1>2. o.kind = "function" => C = A
  <2>1. o.kind = "function" => o.kind # "closure"
    OBVIOUS
  <2> QED BY <2>1
<1>3. o.kind = "closure" => C = B
  <2>1. o.kind = "closure" => o.kind # "function"
    OBVIOUS
  <2> QED BY <2>1
<1>4. o.kind # "function" /\ o.kind # "closure" => C = {}
  OBVIOUS
<1> HIDE DEF C
<1> QED BY <1>1, <1>2, <1>3, <1>4 DEF A, B

\* A string, and an object whose arrays are left alone, own what they owned.
LEMMA FreedSame ==
  ASSUME NEW o, o \in objects' <=> o \in objects, o \in objects \/ others'[o] = others[o]
  PROVE  Freed(o)' = Freed(o)
<1>1. CASE o \in objects
  <2>1. (o \in objects) = TRUE /\ (o \in objects') = TRUE
    BY <1>1
  <2> QED BY <2>1, FreedIs, FreedOfString
<1>2. CASE o \notin objects
  <2>1. (o \in objects) = FALSE /\ (o \in objects') = FALSE
    BY <1>2
  <2> QED BY <2>1, <1>2, FreedIs
<1> QED BY <1>1, <1>2

\* Objects that stay as they are own what they owned.
LEMMA OwnedSame ==
  ASSUME NEW os, \A o \in os : /\ o \in objects' <=> o \in objects
                               /\ o \in objects \/ others'[o] = others[o]
  PROVE  OwnedBy(os)' = OwnedBy(os)
<1>1. \A o \in os : Freed(o)' = Freed(o)
  BY FreedSame
<1> QED BY <1>1, Zenon DEF OwnedBy

\* The blocks of other objects are not touched with an object's.
LEMMA OwnedWithout ==
  ASSUME NEW os, NEW o, o \notin os
  PROVE  OwnedBy(os) \cap Freed(o) = {}
  BY FreedOwner DEF OwnedBy

\* One object more owns its own blocks.
LEMMA OwnedMore ==
  ASSUME NEW os, NEW o
  PROVE  OwnedBy(os \cup {o}) = OwnedBy(os) \cup Freed(o)
  BY DEF OwnedBy

\* Nor are those that have no object.
LEMMA OwnedAreObjects ==
  ASSUME NEW os, NoObject \notin os, NEW b \in OwnedBy(os)
  PROVE  b \notin Lost /\ b # Stack /\ b \notin TablesLive /\ \A c : b # TableOf(c)
<1>1. PICK o \in os : b \in Freed(o)
  BY DEF OwnedBy
<1>2. b[1] # NoObject
  BY <1>1, FreedOwner
<1> QED BY <1>2, FreeBlocks DEF Lost, TablesLive

\* allocate_object makes the sequence one longer.
LEMMA LinkLinked ==
  ASSUME NEW seq, NEW n, Linked(seq, n), NEW o, o \notin DOMAIN next, Link(o)
  PROVE  /\ DOMAIN next' = DOMAIN next \cup {o}
         /\ \E s, m : Linked(s, m)'
<1> DEFINE s == [i \in 1 .. n + 1 |-> IF i = n + 1 THEN o ELSE seq[i]]
<1>1. /\ n \in Nat /\ seq \in [1 .. n -> DOMAIN next]
      /\ \A i, j \in 1 .. n : seq[i] = seq[j] => i = j
      /\ \A p \in DOMAIN next : \E i \in 1 .. n : seq[i] = p
      /\ head = IF n = 0 THEN NoObject ELSE seq[n]
      /\ \A i \in 1 .. n : next[seq[i]] = IF i = 1 THEN NoObject ELSE seq[i - 1]
  BY DEF Linked
<1>2. /\ head' = o /\ DOMAIN next' = DOMAIN next \cup {o}
      /\ next'[o] = head /\ \A p \in DOMAIN next : next'[p] = next[p]
  BY DEF Link
<1>3. n + 1 \in Nat /\ s \in [1 .. n + 1 -> DOMAIN next']
  BY <1>1, <1>2
<1>4. /\ s[n + 1] = o
      /\ \A i \in 1 .. n : i # n + 1 /\ i \in 1 .. n + 1 /\ s[i] = seq[i] /\ seq[i] \in DOMAIN next
      /\ \A i \in 1 .. n + 1 : i = n + 1 \/ i \in 1 .. n
  BY <1>1
<1> HIDE DEF s
<1>5. \A i, j \in 1 .. n + 1 : s[i] = s[j] => i = j
  BY <1>1, <1>4
<1>6. \A p \in DOMAIN next' : \E i \in 1 .. n + 1 : s[i] = p
  BY <1>1, <1>2, <1>4
<1>7. ASSUME NEW i \in 1 .. n + 1
      PROVE  next'[s[i]] = IF i = 1 THEN NoObject ELSE s[i - 1]
  <2>1. CASE i = n + 1
    <3>1. CASE n = 0
      BY <2>1, <3>1, <1>1, <1>2, <1>4
    <3>2. CASE n # 0
      <4>1. n \in 1 .. n /\ i - 1 = n /\ i # 1
        BY <2>1, <3>2, <1>1
      <4> QED BY <2>1, <3>2, <4>1, <1>1, <1>2, <1>4
    <3> QED BY <3>1, <3>2
  <2>2. CASE i \in 1 .. n
    <3>1. next'[s[i]] = next[seq[i]]
      BY <2>2, <1>2, <1>4
    <3>2. CASE i = 1
      BY <2>2, <3>1, <3>2, <1>1
    <3>3. CASE i # 1
      <4>1. i - 1 \in 1 .. n
        BY <2>2, <3>3, <1>1
      <4> QED BY <2>2, <3>1, <3>3, <4>1, <1>1, <1>4
    <3> QED BY <3>2, <3>3
  <2> QED BY <2>1, <2>2, <1>4
<1>8. head' = IF n + 1 = 0 THEN NoObject ELSE s[n + 1]
  BY <1>1, <1>2, <1>4
<1>9. Linked(s, n + 1)'
  BY <1>3, <1>5, <1>6, <1>7, <1>8 DEF Linked
<1> QED BY <1>2, <1>9

\* A list nobody touches.
LEMMA SameLinked ==
  ASSUME NEW seq, NEW n, Linked(seq, n), UNCHANGED <<head, next>>
  PROVE  Linked(seq, n)'
  BY DEF Linked

(***************************************************************************)
(* Every step keeps the heap in order.                                     *)
(***************************************************************************)
\* A new object comes with the blocks that free_obj will free.
LEMMA AddObjectHeap ==
  ASSUME HeapOK, phase = "running", phase' = "running",
         NEW o, o \notin DOMAIN next, Link(o),
         objects' \subseteq Objects, OthersOK', objects' \cup DOMAIN others' = DOMAIN next \cup {o},
         \A p \in DOMAIN next : /\ p \in objects' <=> p \in objects
                                /\ p \in objects \/ others'[p] = others[p],
         TablesLive \subseteq TablesLive',
         NEW more, lost' \in Nat, Lost' = Lost \cup more,
         live' = live \cup Freed(o)' \cup TablesLive' \cup more,
         UNCHANGED fault
  PROVE  HeapOK'
<1>1. DOMAIN next' = DOMAIN next \cup {o} /\ \E s, m : Linked(s, m)'
  BY LinkLinked DEF HeapOK
<1>2. OwnedBy(DOMAIN next)' = OwnedBy(DOMAIN next) \cup Freed(o)'
  <2>1. \A p \in DOMAIN next : Freed(p)' = Freed(p)
    BY FreedSame
  <2>2. OwnedBy(DOMAIN next)' = UNION {Freed(p)' : p \in DOMAIN next \cup {o}}
    BY <1>1, Zenon DEF OwnedBy
  <2>3. UNION {Freed(p)' : p \in DOMAIN next \cup {o}} = (UNION {Freed(p)' : p \in DOMAIN next}) \cup Freed(o)'
    OBVIOUS
  <2>4. UNION {Freed(p)' : p \in DOMAIN next} = OwnedBy(DOMAIN next)
    BY <2>1, Zenon DEF OwnedBy
  <2> QED BY <2>2, <2>3, <2>4
<1>4. live = OwnedBy(DOMAIN next) \cup {Stack} \cup Lost \cup TablesLive
  BY DEF HeapOK
<1>5. live' = OwnedBy(DOMAIN next)' \cup {Stack} \cup Lost' \cup TablesLive'
  BY <1>2, <1>4
<1>6. lost' \in Nat /\ ~fault
  BY DEF HeapOK
<1>7. Stack' = Stack
  BY DEF Stack, Block
<1> QED BY <1>1, <1>5, <1>6, <1>7 DEF HeapOK

\* Buffers that are lost are so now and later.
LEMMA MoreLost ==
  ASSUME lost \in Nat, NEW n \in Nat, Lose(n)
  PROVE  lost' \in Nat /\ Lost' = Lost \cup Buffers(n)
<1>1. lost' = lost + n
  BY DEF Lose
<1>2. 1 .. lost' = (1 .. lost) \cup (lost + 1 .. lost + n)
  BY <1>1
<1>3. Lost' = {Buffer(k) : k \in 1 .. lost'}
  BY DEF Lost, Buffer, Block
<1> QED BY <1>1, <1>2, <1>3 DEF Lost, Buffers

\* new_string, with the table's new array if it has to grow.
LEMMA StringMadeHeap ==
  ASSUME MemoryInv, NEW t \in Texts, NEW n \in Nat, StringMade(t, n)
  PROVE  HeapOK'
<1>0. PICK o : o = NewObject(t)
  OBVIOUS
<1>1. /\ phase = "running" /\ phase' = "running" /\ NewString(t) /\ Link(o)
      /\ live' = live \cup {Itself(o), Block(o, "chars", 0)}
                      \cup (IF pc' = "idle" THEN {} ELSE {TableOf(Table!Grow(cap))})
                      \cup Buffers(n)
      /\ Lose(n) /\ UNCHANGED <<others, fault>>
  BY <1>0 DEF StringMade
<1>2. SInv /\ HeapOK
  BY <1>1 DEF MemoryInv, StringsOK
<1>3. o \in Objects /\ o \notin objects
  BY <1>0, <1>1, <1>2, NewIsNew
<1>4. /\ pc = "idle" /\ objects' = objects \cup {o}
      /\ Table!Put(o, Null) \/ Table!PutGrow(o, Null)
  BY <1>0, <1>1 DEF NewString
<1>5. cap' = cap
  BY <1>4 DEF Table!Put, Table!PutGrow
<1>6. cap \in Nat /\ Table!Grow(cap) # 0
  <2>1. cap \in Nat
    BY <1>2 DEF SInv, Proved!CInv, Proved!IInv, Proved!TypeOK
  <2> QED BY <2>1, Grows
<1>7. o \notin DOMAIN next
  BY <1>2, <1>3, ObjectKinds DEF HeapOK, OthersOK
<1>8. Freed(o)' = {Itself(o), Block(o, "chars", 0)}
  <2>1. o \in objects'
    BY <1>4
  <2>2. (o \in objects') = TRUE
    BY <2>1
  <2> QED BY <2>2, FreedIs, FreedOfString
<1>9. /\ TablesLive \subseteq TablesLive'
      /\ TablesLive' = TablesLive \cup (IF pc' = "idle" THEN {} ELSE {TableOf(Table!Grow(cap))})
  <2>1. TablesLive = IF cap = 0 THEN {} ELSE {TableOf(cap)}
    BY <1>4 DEF TablesLive
  <2>2. TablesLive' = {TableOf(c) : c \in ({cap} \cup (IF pc' = "idle" THEN {} ELSE {Table!Grow(cap)})) \ {0}}
    BY <1>5 DEF TablesLive, TableOf, Table!Grow
  <2> QED BY <2>1, <2>2, <1>6
<1>10. live' = live \cup Freed(o)' \cup TablesLive' \cup Buffers(n)
  <2>1. TablesLive \subseteq live
    BY <1>1, <1>2 DEF HeapOK
  <2> QED BY <2>1, <1>1, <1>8, <1>9
<1>11. OthersOK'
  BY <1>1, <1>2 DEF HeapOK, OthersOK
<1>12. objects' \subseteq Objects /\ objects' \cup DOMAIN others' = DOMAIN next \cup {o}
  BY <1>1, <1>2, <1>3, <1>4 DEF HeapOK
<1>13. \A p \in DOMAIN next : /\ p \in objects' <=> p \in objects
                              /\ p \in objects \/ others'[p] = others[p]
  BY <1>1, <1>4, <1>7
<1>14. lost' \in Nat /\ Lost' = Lost \cup Buffers(n)
  BY <1>1, <1>2, MoreLost DEF HeapOK
<1> QED BY <1>1, <1>2, <1>7, <1>9, <1>10, <1>11, <1>12, <1>13, <1>14, AddObjectHeap

\* While the machine runs, a step that makes and frees no object changes the heap by
\* what it says of the live blocks.
LEMMA SameObjectsHeap ==
  ASSUME HeapOK, phase = "running", phase' = "running",
         UNCHANGED <<objects, head, next>>, OthersOK', DOMAIN others' = DOMAIN others,
         lost' \in Nat, ~fault',
         live' = OwnedBy(DOMAIN next)' \cup {Stack} \cup Lost' \cup TablesLive'
  PROVE  HeapOK'
<1>1. \E s, m : Linked(s, m)'
  BY SameLinked DEF HeapOK
<1>2. Stack' = Stack
  BY DEF Stack, Block
<1>3. objects' \subseteq Objects /\ DOMAIN next' = objects' \cup DOMAIN others'
  BY DEF HeapOK
<1> QED BY <1>1, <1>2, <1>3 DEF HeapOK

\* Nothing changes hands if no object changes.
LEMMA SameOwned ==
  ASSUME UNCHANGED <<objects, others, next>>
  PROVE  OwnedBy(DOMAIN next)' = OwnedBy(DOMAIN next)
<1>1. \A o \in DOMAIN next : Freed(o)' = Freed(o)
  BY FreedSame
<1>2. OwnedBy(DOMAIN next)' = UNION {Freed(o)' : o \in DOMAIN next}
  BY Zenon DEF OwnedBy
<1>3. UNION {Freed(o)' : o \in DOMAIN next} = UNION {Freed(o) : o \in DOMAIN next}
  BY <1>1
<1> QED BY <1>2, <1>3 DEF OwnedBy

\* A string that is there takes no block; the buffers that were made for its text
\* belong to nobody.
LEMMA StringKeptHeap ==
  ASSUME HeapOK, NEW t \in Texts, NEW n \in Nat, StringKept(t, n)
  PROVE  HeapOK'
<1>1. /\ phase = "running" /\ phase' = "running" /\ UNCHANGED <<objects, head, next, others, cap, pc, fault>>
      /\ Lose(n) /\ live' = live \cup Buffers(n)
  BY DEF StringKept, Running, Found
<1>2. /\ lost \in Nat /\ OthersOK /\ ~fault
      /\ live = OwnedBy(DOMAIN next) \cup {Stack} \cup Lost \cup TablesLive
  BY <1>1 DEF HeapOK
<1>3. OwnedBy(DOMAIN next)' = OwnedBy(DOMAIN next)
  BY <1>1, SameOwned
<1>4. lost' \in Nat /\ Lost' = Lost \cup Buffers(n)
  BY <1>1, <1>2, MoreLost
<1>5. TablesLive' = TablesLive
  BY <1>1 DEF TablesLive, TableOf, Table!Grow
<1>6. OthersOK'
  BY <1>1, <1>2 DEF OthersOK
<1>7. live' = OwnedBy(DOMAIN next)' \cup {Stack} \cup Lost' \cup TablesLive'
  BY <1>1, <1>2, <1>3, <1>4, <1>5
<1> QED BY <1>1, <1>2, <1>4, <1>6, <1>7, SameObjectsHeap

\* The table's old array is freed when the new one takes its place.
LEMMA GrowTableHeap ==
  ASSUME MemoryInv, GrowTable
  PROVE  HeapOK'
<1>1. (GrowOn \/ GrownString) /\ phase' = phase /\ UNCHANGED <<others, head, next, lost>>
  BY DEF GrowTable, ownVars
<1>2. pc = "rehash" /\ UNCHANGED objects
  BY <1>1 DEF GrowOn, GrownString, Table!Rehash, Table!PutEnd
<1>3. phase = "running" /\ SInv /\ HeapOK
  BY <1>2 DEF MemoryInv, StringsOK
<1>4. /\ cap \in Nat /\ Table!Grow(cap) # 0 /\ Table!Grow(cap) # cap
  <2>1. cap \in Nat
    BY <1>3 DEF SInv, Proved!CInv, Proved!IInv, Proved!TypeOK
  <2> QED BY <2>1, Grows
<1>5. /\ lost \in Nat /\ OthersOK /\ ~fault
      /\ live = OwnedBy(DOMAIN next) \cup {Stack} \cup Lost \cup TablesLive
  BY <1>3 DEF HeapOK
<1>6. OwnedBy(DOMAIN next)' = OwnedBy(DOMAIN next) /\ Lost' = Lost /\ OthersOK'
  BY <1>1, <1>2, <1>5, SameOwned DEF Lost, OthersOK
<1>7. CASE GrowOn
  <2>1. UNCHANGED <<cap, pc, live, fault>>
    BY <1>7 DEF GrowTable, GrowOn, GrownString, Table!Rehash, Table!PutEnd, ownVars
  <2>2. TablesLive' = TablesLive
    BY <2>1 DEF TablesLive, TableOf, Table!Grow
  <2> QED BY <2>1, <2>2, <1>1, <1>2, <1>3, <1>5, <1>6, SameObjectsHeap
<1>8. CASE GrownString /\ ~GrowOn
  <2>1. /\ cap' = Table!Grow(cap) /\ pc' = "idle"
        /\ Free(IF cap = 0 THEN {} ELSE {TableOf(cap)})
    BY <1>8 DEF GrowTable, GrownString, Table!PutEnd
  <2>2. TablesLive = (IF cap = 0 THEN {} ELSE {TableOf(cap)}) \cup {TableOf(Table!Grow(cap))}
    BY <1>2, <1>4 DEF TablesLive
  <2>3. TablesLive' = {TableOf(Table!Grow(cap))}
    BY <2>1, <1>4 DEF TablesLive
  <2>4. ~fault' /\ live' = live \ (IF cap = 0 THEN {} ELSE {TableOf(cap)})
    <3> DEFINE old == IF cap = 0 THEN {} ELSE {TableOf(cap)}
    <3>1. old \subseteq live
      BY <2>2, <1>5
    <3>2. live' = live \ old /\ fault' = (fault \/ ~(old \subseteq live))
      BY <2>1 DEF Free
    <3> HIDE DEF old
    <3>3. ~fault'
      BY <3>1, <3>2, <1>5
    <3> QED BY <3>2, <3>3 DEF old
  <2>5. TableOf(cap) \notin OwnedBy(DOMAIN next)
    <3>1. NoObject \notin DOMAIN next
      BY <1>3, <1>5, ObjectKinds DEF HeapOK, OthersOK
    <3> QED BY <3>1, OwnedAreObjects
  <2>6. TableOf(cap) \notin Lost /\ TableOf(cap) # Stack /\ TableOf(cap) # TableOf(Table!Grow(cap))
    BY <1>4, FreeBlocks DEF Lost
  <2>7. live' = OwnedBy(DOMAIN next)' \cup {Stack} \cup Lost' \cup TablesLive'
    BY <2>2, <2>3, <2>4, <2>5, <2>6, <1>5, <1>6
  <2> QED BY <2>4, <2>7, <1>1, <1>2, <1>3, <1>5, <1>6, SameObjectsHeap
<1> QED BY <1>1, <1>7, <1>8

\* The other constructors, which allocate no more than the object itself and a
\* closure's upvalues.
LEMMA NewOtherHeap ==
  ASSUME HeapOK, NEW kind \in {"function", "closure", "upvalue", "native"}, NEW n \in {0, 1},
         n # 0 => kind = "closure", NewOther(kind, n)
  PROVE  HeapOK'
<1> DEFINE arrays == [code |-> NoArray, consts |-> NoArray, upvalues |-> n]
<1>1. PICK o : o = [kind |-> kind, num |-> Cardinality(DOMAIN others) + 1]
  OBVIOUS
<1>2. /\ phase = "running" /\ pc = "idle" /\ phase' = "running"
      /\ Cardinality(DOMAIN others) < MaxOthers
      /\ others' = [p \in DOMAIN others \cup {o} |-> IF p = o THEN arrays ELSE others[p]]
      /\ Link(o)
      /\ live' = live \cup {Itself(o)} \cup (IF n = 0 THEN {} ELSE {Block(o, "upvalues", 0)})
      /\ UNCHANGED <<objects, cap, pc, lost, fault>>
  BY <1>1 DEF NewOther, Running, stringVars
<1>3. OthersOK /\ objects \subseteq Objects /\ DOMAIN next = objects \cup DOMAIN others
  BY DEF HeapOK
<1>4. Cardinality(DOMAIN others) \in Nat /\ IsFiniteSet(DOMAIN others)
  BY <1>3, FS_CardinalityType DEF OthersOK
<1>5. o \in Others /\ o.kind = kind /\ o.num = Cardinality(DOMAIN others) + 1
  BY <1>1, <1>2, <1>4, BoundsAssumption DEF Others
<1>6. o \notin DOMAIN others /\ o \notin Objects
  BY <1>3, <1>4, <1>5, ObjectKinds DEF OthersOK
<1>7. DOMAIN others' = DOMAIN others \cup {o} /\ others'[o] = arrays
      /\ \A p \in DOMAIN others : others'[p] = others[p]
  BY <1>2, <1>6
<1>8. /\ IsFiniteSet(DOMAIN others')
      /\ Cardinality(DOMAIN others') = Cardinality(DOMAIN others) + 1
  BY <1>4, <1>6, <1>7, FS_AddElement
<1>9. arrays \in [code : Array, consts : Array, upvalues : {0, 1}]
  BY DEF NoArray, Array
<1>10. /\ arrays.code.cap = 0 /\ arrays.consts.cap = 0 /\ arrays.upvalues = n
       /\ \A q \in ChunkParts : arrays[q].cap = 0
  BY DEF NoArray, ChunkParts
<1> HIDE DEF arrays
<1>11. OthersOK'
  <2>1. others' \in [DOMAIN others' -> [code : Array, consts : Array, upvalues : {0, 1}]]
    BY <1>2, <1>3, <1>7, <1>9 DEF OthersOK
  <2>2. DOMAIN others' \subseteq Others
    BY <1>3, <1>5, <1>7 DEF OthersOK
  <2>3. \A p \in DOMAIN others' : p.num <= Cardinality(DOMAIN others')
    BY <1>3, <1>4, <1>5, <1>7, <1>8 DEF OthersOK, Others
  <2>4. \A p \in DOMAIN others' :
          /\ p.kind # "closure"  => others'[p].upvalues = 0
          /\ p.kind # "function" => others'[p].code.cap = 0 /\ others'[p].consts.cap = 0
    BY <1>3, <1>5, <1>7, <1>10 DEF OthersOK
  <2> QED BY <1>8, <2>1, <2>2, <2>3, <2>4 DEF OthersOK
<1>12. Freed(o)' = {Itself(o)} \cup (IF n = 0 THEN {} ELSE {Block(o, "upvalues", 0)})
  <2>1. (o \in objects') = FALSE
    BY <1>2, <1>3, <1>6
  <2>2. Freed(o)' = FreedOf(o, FALSE, arrays)
    BY <2>1, <1>7, FreedIs
  <2>3. CASE kind = "function"
    <3>1. FreedOf(o, FALSE, arrays)
            = {Itself(o)} \cup {Block(o, p, arrays[p].cap) : p \in {q \in ChunkParts : arrays[q].cap # 0}}
      <4>1. o.kind = "function"
        BY <2>3, <1>5
      <4> QED BY <4>1, FreedOfOther, Zenon
    <3>2. {q \in ChunkParts : arrays[q].cap # 0} = {}
      BY <1>10
    <3> QED BY <3>1, <3>2, <2>2, <2>3
  <2>4. CASE kind = "closure"
    BY <2>2, <2>4, <1>5, <1>10, FreedOfOther
  <2>5. CASE kind # "function" /\ kind # "closure"
    BY <2>2, <2>5, <1>5, FreedOfOther
  <2> QED BY <2>3, <2>4, <2>5
<1>13. TablesLive' = TablesLive /\ TablesLive \subseteq live
  <2>1. TablesLive' = TablesLive
    BY <1>2 DEF TablesLive, TableOf, Table!Grow
  <2> QED BY <2>1, <1>2 DEF HeapOK
<1>14. o \notin DOMAIN next
  BY <1>3, <1>6
<1>15. objects' \subseteq Objects /\ objects' \cup DOMAIN others' = DOMAIN next \cup {o}
  BY <1>2, <1>3, <1>7
<1>16. \A p \in DOMAIN next : /\ p \in objects' <=> p \in objects
                              /\ p \in objects \/ others'[p] = others[p]
  BY <1>2, <1>3, <1>7
<1>17. live' = live \cup Freed(o)' \cup TablesLive' \cup {}
  BY <1>2, <1>12, <1>13
<1>18. lost' \in Nat /\ Lost' = Lost \cup {}
  BY <1>2 DEF HeapOK, Lost
<1> QED BY <1>2, <1>11, <1>13, <1>14, <1>15, <1>16, <1>17, <1>18, AddObjectHeap

\* write_Chunk and push_ValueArray: a byte or a constant behind the others, in an
\* array that has grown if it was full.
LEMMA PushHeap ==
  ASSUME HeapOK, NEW f \in DOMAIN others, NEW part \in {"code", "consts"}, Push(f, part)
  PROVE  HeapOK'
<1>1. PICK a, c : a = others[f][part] /\ c = IF Full(a) THEN Table!Grow(a.cap) ELSE a.cap
  OBVIOUS
<1>2. /\ phase = "running" /\ pc = "idle" /\ phase' = "running" /\ f.kind = "function"
      /\ others' = [others EXCEPT ![f][part] = [len |-> a.len + 1, cap |-> c]]
      /\ live' = IF c = a.cap THEN live
                 ELSE (live \ (IF a.cap = 0 THEN {} ELSE {Block(f, part, a.cap)})) \cup {Block(f, part, c)}
      /\ fault' = (fault \/ a.len >= c)
      /\ UNCHANGED <<objects, cap, pc, head, next, lost>>
  BY <1>1 DEF Push, Running, stringVars, ArrayOf
<1>3. /\ OthersOK /\ objects \subseteq Objects /\ DOMAIN next = objects \cup DOMAIN others
      /\ ~fault /\ lost \in Nat
      /\ live = OwnedBy(DOMAIN next) \cup {Stack} \cup Lost \cup TablesLive
  BY <1>2 DEF HeapOK
<1>4. others[f] \in [code : Array, consts : Array, upvalues : {0, 1}]
  BY <1>3 DEF OthersOK
<1>5. a \in Array
  BY <1>1, <1>4
<1>6. a.len \in Nat /\ a.cap \in Nat /\ c \in Nat /\ a.len < c /\ a.cap <= c
  BY <1>1, <1>5, Grows DEF Array, Full
<1> DEFINE new == [len |-> a.len + 1, cap |-> c]
<1>7. new \in Array
  BY <1>6 DEF Array
<1>8. /\ DOMAIN others' = DOMAIN others
      /\ \A p \in DOMAIN others : p # f => others'[p] = others[p]
      /\ others'[f] = [others[f] EXCEPT ![part] = new]
  BY <1>2, <1>3 DEF OthersOK
<1>9. /\ others'[f] \in [code : Array, consts : Array, upvalues : {0, 1}]
      /\ others'[f].upvalues = others[f].upvalues
      /\ others'[f][part].cap = c
      /\ \A q \in ChunkParts : q # part => others'[f][q].cap = others[f][q].cap
  BY <1>4, <1>7, <1>8 DEF ChunkParts
<1> HIDE DEF new
<1>10. OthersOK'
  <2>1. others' \in [DOMAIN others' -> [code : Array, consts : Array, upvalues : {0, 1}]]
    BY <1>2, <1>3, <1>8, <1>9 DEF OthersOK
  <2>2. \A p \in DOMAIN others' :
          /\ p.kind # "closure"  => others'[p].upvalues = 0
          /\ p.kind # "function" => others'[p].code.cap = 0 /\ others'[p].consts.cap = 0
    BY <1>2, <1>3, <1>8, <1>9 DEF OthersOK
  <2> QED BY <1>3, <1>8, <2>1, <2>2 DEF OthersOK
<1>11. f \notin objects /\ f \in DOMAIN next /\ NoObject \notin DOMAIN next
  BY <1>3, ObjectKinds DEF OthersOK
<1> DEFINE rest == DOMAIN next \ {f}
           Of(arrays) == {Itself(f)} \cup {Block(f, p, arrays[p].cap) : p \in {q \in ChunkParts : arrays[q].cap # 0}}
           old == IF a.cap = 0 THEN {} ELSE {Block(f, part, a.cap)}
<1>12. Freed(f) = Of(others[f]) /\ Freed(f)' = Of(others'[f])
  <2>1. (f \in objects) = FALSE /\ (f \in objects') = FALSE
    BY <1>2, <1>11
  <2>2. Freed(f) = FreedOf(f, FALSE, others[f]) /\ Freed(f)' = FreedOf(f, FALSE, others'[f])
    BY <2>1, FreedIs
  <2>3. f.kind = "function"
    BY <1>2
  <2>4. \A arrays : FreedOf(f, FALSE, arrays) = Of(arrays)
    BY <2>3, FreedOfOther, Zenon
  <2> HIDE DEF Of
  <2> QED BY <2>2, <2>4
<1>13. c = a.cap => Freed(f)' = Freed(f)
  <2> SUFFICES ASSUME c = a.cap PROVE \A q \in ChunkParts : others'[f][q].cap = others[f][q].cap
    BY <1>12
  <2> QED BY <1>1, <1>9
<1>14. c # a.cap => Freed(f)' = (Freed(f) \ old) \cup {Block(f, part, c)}
  <2> SUFFICES ASSUME c # a.cap PROVE Of(others'[f]) = (Of(others[f]) \ old) \cup {Block(f, part, c)}
    BY <1>12
  <2>1. part \in ChunkParts /\ c # 0 /\ others[f][part].cap = a.cap
    BY <1>1, <1>6 DEF ChunkParts
  <2>2. \A b : b \in Of(others[f]) <=>
                 b = Itself(f) \/ \E q \in ChunkParts : others[f][q].cap # 0 /\ b = Block(f, q, others[f][q].cap)
    OBVIOUS
  <2>3. \A b : b \in Of(others'[f]) <=>
                 b = Itself(f) \/ \E q \in ChunkParts : others'[f][q].cap # 0 /\ b = Block(f, q, others'[f][q].cap)
    OBVIOUS
  <2>4. \A q \in ChunkParts : \A x, y : /\ Block(f, q, x) # Itself(f)
                                        /\ \A p : Block(f, q, x) = Block(f, p, y) => q = p /\ x = y
    BY DEF Block, Itself, ChunkParts
  <2>5. \A b : b \in old <=> a.cap # 0 /\ b = Block(f, part, a.cap)
    OBVIOUS
  <2> HIDE DEF Of, old
  <2>6. ASSUME NEW b
        PROVE  b \in Of(others'[f]) <=> (b \in Of(others[f]) /\ b \notin old) \/ b = Block(f, part, c)
    <3>1. CASE b = Itself(f)
      BY <3>1, <2>1, <2>2, <2>3, <2>4, <2>5
    <3>2. CASE b # Itself(f)
      BY <3>2, <2>1, <2>2, <2>3, <2>4, <2>5, <1>9
    <3> QED BY <3>1, <3>2
  <2> QED BY <2>6
<1> HIDE DEF Of
<1>15. /\ DOMAIN next = rest \cup {f} /\ f \notin rest
       /\ OwnedBy(DOMAIN next) = OwnedBy(rest) \cup Freed(f)
       /\ OwnedBy(rest) \cap Freed(f) = {}
  <2>1. DOMAIN next = rest \cup {f} /\ f \notin rest
    BY <1>11
  <2> HIDE DEF rest
  <2> QED BY <2>1, OwnedMore, OwnedWithout
<1>16. OwnedBy(DOMAIN next)' = OwnedBy(rest) \cup Freed(f)'
  <2>1. \A p \in rest : Freed(p)' = Freed(p)
    BY <1>2, <1>3, <1>8, FreedSame
  <2>2. OwnedBy(DOMAIN next)' = UNION {Freed(p)' : p \in rest \cup {f}}
    BY <1>2, <1>15, Zenon DEF OwnedBy
  <2>3. UNION {Freed(p)' : p \in rest \cup {f}} = (UNION {Freed(p)' : p \in rest}) \cup Freed(f)'
    OBVIOUS
  <2>4. UNION {Freed(p)' : p \in rest} = OwnedBy(rest)
    BY <2>1, Zenon DEF OwnedBy
  <2> QED BY <2>2, <2>3, <2>4
<1>17. a.cap # 0 => Block(f, part, a.cap) \in Freed(f)
  BY <1>1, <1>12 DEF Of, ChunkParts
<1>18. old \subseteq Freed(f)
  BY <1>17
<1>19. old \cap ({Stack} \cup Lost \cup TablesLive) = {}
  <2>1. \A b \in Freed(f) : b \in OwnedBy(DOMAIN next)
    BY <1>15
  <2> HIDE DEF old
  <2> QED BY <2>1, <1>11, <1>18, OwnedAreObjects
<1>20. Lost' = Lost /\ TablesLive' = TablesLive
  BY <1>2 DEF Lost, TablesLive, TableOf, Table!Grow, Buffer, Block
<1> HIDE DEF rest
<1>21. live' = IF c = a.cap THEN live ELSE (live \ old) \cup {Block(f, part, c)}
  BY <1>2
<1> HIDE DEF old
<1>22. live' = OwnedBy(DOMAIN next)' \cup {Stack} \cup Lost' \cup TablesLive'
  <2>1. CASE c = a.cap
    BY <2>1, <1>3, <1>13, <1>15, <1>16, <1>20, <1>21
  <2>2. CASE c # a.cap
    BY <2>2, <1>3, <1>14, <1>15, <1>16, <1>18, <1>19, <1>20, <1>21
  <2> QED BY <2>1, <2>2
<1>23. ~fault'
  <2>1. ~(a.len >= c)
    BY <1>6
  <2> QED BY <2>1, <1>2, <1>3, Zenon
<1> QED BY <1>2, <1>3, <1>8, <1>10, <1>22, <1>23, SameObjectsHeap

\* ~VM frees the stack and the table, which are nobody else's.
LEMMA DestroyHeap ==
  ASSUME HeapOK, Destroy
  PROVE  HeapOK'
<1> DEFINE free == {Stack} \cup (IF cap = 0 THEN {} ELSE {TableOf(cap)})
<1>1. /\ phase = "running" /\ pc = "idle" /\ phase' = "at" /\ cursor' = head
      /\ Free(free)
      /\ UNCHANGED <<objects, others, head, next, lost>>
  BY DEF Destroy, Running
<1>2. /\ OthersOK /\ objects \subseteq Objects /\ DOMAIN next = objects \cup DOMAIN others
      /\ ~fault /\ lost \in Nat
      /\ live = OwnedBy(DOMAIN next) \cup {Stack} \cup Lost \cup TablesLive
  BY <1>1 DEF HeapOK
<1>3. TablesLive = IF cap = 0 THEN {} ELSE {TableOf(cap)}
  BY <1>1 DEF TablesLive
<1>4. free = {Stack} \cup TablesLive
  BY <1>3
<1> HIDE DEF free
<1>5. ~fault' /\ live' = live \ free
  <2>1. free \subseteq live
    BY <1>2, <1>4
  <2>2. live' = live \ free /\ fault' = (fault \/ ~(free \subseteq live))
    BY <1>1 DEF Free
  <2>3. ~fault'
    BY <2>1, <2>2, <1>2
  <2> QED BY <2>2, <2>3
<1>6. NoObject \notin DOMAIN next
  BY <1>2, ObjectKinds DEF OthersOK
<1>7. OwnedBy(DOMAIN next) \cap free = {} /\ Lost \cap free = {}
  <2>1. OwnedBy(DOMAIN next) \cap free = {}
    BY <1>4, <1>6, OwnedAreObjects
  <2>2. Lost \cap free = {}
    BY <1>3, <1>4, FreeBlocks DEF Lost
  <2> QED BY <2>1, <2>2
<1>8. live' = OwnedBy(DOMAIN next) \cup Lost
  BY <1>2, <1>4, <1>5, <1>7
<1>9. PICK seq, n : Linked(seq, n)
  BY DEF HeapOK
<1>10. {seq[i] : i \in 1 .. n} = DOMAIN next
  <2>1. /\ \A i \in 1 .. n : seq[i] \in DOMAIN next
        /\ \A o \in DOMAIN next : \E i \in 1 .. n : seq[i] = o
    BY <1>9 DEF Linked
  <2> QED BY <2>1
<1>11. OwnedBy(DOMAIN next)' = OwnedBy(DOMAIN next) /\ Lost' = Lost /\ OthersOK'
  BY <1>1, <1>2, SameOwned DEF Lost, OthersOK
<1>12. \A os : os = DOMAIN next => OwnedBy(os)' = OwnedBy(DOMAIN next)
  BY <1>1, <1>11 DEF OwnedBy
<1>13. FreeingOK(seq, n)'
  <2>1. n \in 0 .. n /\ cursor' = IF n = 0 THEN NoObject ELSE seq[n]
    BY <1>1, <1>9 DEF Linked
  <2>2. live' = OwnedBy({seq[i] : i \in 1 .. n})' \cup Lost'
    BY <1>8, <1>10, <1>11, <1>12
  <2> QED BY <2>1, <2>2 DEF FreeingOK
<1>14. Linked(seq, n)'
  BY <1>1, <1>9, SameLinked
<1>15. objects' \subseteq Objects /\ DOMAIN next' = objects' \cup DOMAIN others' /\ lost' \in Nat
  BY <1>1, <1>2
<1> QED BY <1>1, <1>5, <1>11, <1>13, <1>14, <1>15 DEF HeapOK

\* The object that free_objects reads is live: it is the last not freed yet.
LEMMA ReadNextHeap ==
  ASSUME HeapOK, ReadNext
  PROVE  HeapOK'
<1>1. /\ phase = "at" /\ phase' = "behind" /\ cursor # NoObject /\ after' = next[cursor]
      /\ fault' = (fault \/ Itself(cursor) \notin live)
      /\ UNCHANGED <<objects, others, head, next, live, lost, cursor>>
  BY DEF ReadNext, stringVars
<1>2. /\ OthersOK /\ objects \subseteq Objects /\ DOMAIN next = objects \cup DOMAIN others
      /\ ~fault /\ lost \in Nat
  BY DEF HeapOK
<1>3. PICK seq, n : Linked(seq, n) /\ FreeingOK(seq, n)
  BY <1>1 DEF HeapOK
<1>4. PICK m \in 0 .. n : /\ cursor = IF m = 0 THEN NoObject ELSE seq[m]
                          /\ live = OwnedBy({seq[i] : i \in 1 .. m}) \cup Lost
  BY <1>3 DEF FreeingOK
<1>5. m \in 1 .. m /\ cursor = seq[m]
  BY <1>1, <1>3, <1>4 DEF Linked
<1>6. Itself(cursor) \in live
  <2>1. cursor \in {seq[i] : i \in 1 .. m}
    BY <1>5
  <2>2. Itself(cursor) \in Freed(cursor)
    BY DEF Freed
  <2>3. Itself(cursor) \in OwnedBy({seq[i] : i \in 1 .. m})
    BY <2>1, <2>2 DEF OwnedBy
  <2> QED BY <2>3, <1>4
<1>7. ~fault'
  BY <1>1, <1>2, <1>6
<1>8. Lost' = Lost /\ OthersOK'
  BY <1>1, <1>2 DEF Lost, OthersOK
<1>9. FreeingOK(seq, n)'
  <2>1. OwnedBy({seq[i] : i \in 1 .. m})' = OwnedBy({seq[i] : i \in 1 .. m})
    BY <1>1, OwnedSame
  <2>2. cursor' = (IF m = 0 THEN NoObject ELSE seq[m]) /\ live' = OwnedBy({seq[i] : i \in 1 .. m})' \cup Lost'
    BY <1>1, <1>4, <1>8, <2>1
  <2> QED BY <2>2 DEF FreeingOK
<1>10. Linked(seq, n)'
  BY <1>1, <1>3, SameLinked
<1>11. objects' \subseteq Objects /\ DOMAIN next' = objects' \cup DOMAIN others' /\ lost' \in Nat
  BY <1>1, <1>2
<1>12. cursor' # NoObject /\ after' = next'[cursor']
  BY <1>1
<1> QED BY <1>1, <1>7, <1>8, <1>9, <1>10, <1>11, <1>12 DEF HeapOK

\* free_objects frees what it has reached, once: the objects before it are other ones.
LEMMA FreeObjectHeap ==
  ASSUME HeapOK, FreeObject
  PROVE  HeapOK'
<1>1. /\ phase = "behind" /\ phase' = "at" /\ cursor # NoObject
      /\ cursor' = next[cursor] /\ Free(Freed(cursor))
      /\ UNCHANGED <<objects, others, head, next, lost>>
  BY DEF FreeObject, HeapOK, stringVars
<1>2. /\ OthersOK /\ objects \subseteq Objects /\ DOMAIN next = objects \cup DOMAIN others
      /\ ~fault /\ lost \in Nat
  BY DEF HeapOK
<1>3. PICK seq, n : Linked(seq, n) /\ FreeingOK(seq, n)
  BY <1>1 DEF HeapOK
<1>4. PICK m \in 0 .. n : /\ cursor = IF m = 0 THEN NoObject ELSE seq[m]
                          /\ live = OwnedBy({seq[i] : i \in 1 .. m}) \cup Lost
  BY <1>3 DEF FreeingOK
<1>5. /\ n \in Nat /\ m \in 1 .. n /\ m \in Nat /\ m # 0 /\ cursor = seq[m]
      /\ seq \in [1 .. n -> DOMAIN next]
      /\ \A i, j \in 1 .. n : seq[i] = seq[j] => i = j
      /\ next[seq[m]] = IF m = 1 THEN NoObject ELSE seq[m - 1]
  BY <1>1, <1>3, <1>4 DEF Linked
<1> DEFINE rest == {seq[i] : i \in 1 .. m - 1}
<1>6. {seq[i] : i \in 1 .. m} = rest \cup {seq[m]} /\ seq[m] \notin rest
  <2>1. \A i : i \in 1 .. m <=> i \in 1 .. m - 1 \/ i = m
    BY <1>5
  <2>2. \A i \in 1 .. m - 1 : i \in 1 .. n /\ i # m
    BY <1>5
  <2> QED BY <2>1, <2>2, <1>5
<1> HIDE DEF rest
<1>7. live = OwnedBy(rest) \cup Freed(seq[m]) \cup Lost /\ OwnedBy(rest) \cap Freed(seq[m]) = {}
  BY <1>4, <1>6, OwnedMore, OwnedWithout
<1>8. Lost \cap Freed(seq[m]) = {}
  <2>1. seq[m] # NoObject
    BY <1>1, <1>5
  <2>2. \A b \in Freed(seq[m]) : b[1] # NoObject
    BY <2>1, FreedOwner
  <2> QED BY <2>2, FreeBlocks DEF Lost
<1>9. ~fault' /\ live' = OwnedBy(rest) \cup Lost
  <2> DEFINE free == Freed(seq[m])
  <2>1. live' = live \ free /\ fault' = (fault \/ ~(free \subseteq live))
    BY <1>1, <1>5 DEF Free
  <2>2. free \subseteq live
    BY <1>7
  <2> HIDE DEF free
  <2>3. ~fault'
    BY <2>1, <2>2, <1>2
  <2> QED BY <2>1, <2>3, <1>7, <1>8 DEF free
<1>10. OwnedBy(rest)' = OwnedBy(rest)
  BY <1>1, OwnedSame
<1>11. Lost' = Lost /\ OthersOK'
  BY <1>1, <1>2 DEF Lost, OthersOK
<1>12. FreeingOK(seq, n)'
  <2>1. m - 1 \in 0 .. n /\ cursor' = IF m - 1 = 0 THEN NoObject ELSE seq[m - 1]
    BY <1>1, <1>5
  <2>2. live' = OwnedBy({seq[i] : i \in 1 .. m - 1})' \cup Lost'
    BY <1>9, <1>10, <1>11 DEF rest
  <2> QED BY <2>1, <2>2 DEF FreeingOK
<1>13. Linked(seq, n)'
  BY <1>1, <1>3, SameLinked
<1>14. objects' \subseteq Objects /\ DOMAIN next' = objects' \cup DOMAIN others' /\ lost' \in Nat
  BY <1>1, <1>2
<1> QED BY <1>1, <1>9, <1>11, <1>12, <1>13, <1>14 DEF HeapOK

\* At the end of the list nothing is left but what was lost.
LEMMA FreedAllHeap ==
  ASSUME HeapOK, FreedAll
  PROVE  HeapOK'
<1>1. /\ phase = "at" /\ phase' = "done" /\ cursor = NoObject
      /\ UNCHANGED <<objects, others, head, next, lost, live, fault>>
  BY DEF FreedAll, stringVars
<1>2. /\ OthersOK /\ objects \subseteq Objects /\ DOMAIN next = objects \cup DOMAIN others
      /\ ~fault /\ lost \in Nat
  BY DEF HeapOK
<1>3. PICK seq, n : Linked(seq, n) /\ FreeingOK(seq, n)
  BY <1>1 DEF HeapOK
<1>4. PICK m \in 0 .. n : /\ cursor = IF m = 0 THEN NoObject ELSE seq[m]
                          /\ live = OwnedBy({seq[i] : i \in 1 .. m}) \cup Lost
  BY <1>3 DEF FreeingOK
<1>5. m = 0
  <2>1. NoObject \notin DOMAIN next
    BY <1>2, ObjectKinds DEF OthersOK
  <2> SUFFICES ASSUME m # 0 PROVE FALSE
    OBVIOUS
  <2>2. m \in 1 .. n
    BY <1>3 DEF Linked
  <2>3. seq[m] \in DOMAIN next
    BY <2>2, <1>3 DEF Linked
  <2> QED BY <2>1, <2>3, <1>1, <1>4
<1>6. live = Lost
  <2>1. {seq[i] : i \in 1 .. m} = {}
    BY <1>5
  <2> QED BY <2>1, <1>4 DEF OwnedBy
<1>7. live' = Lost' /\ OthersOK'
  BY <1>1, <1>2, <1>6 DEF Lost, OthersOK
<1>8. Linked(seq, n)'
  BY <1>1, <1>3, SameLinked
<1>9. objects' \subseteq Objects /\ DOMAIN next' = objects' \cup DOMAIN others' /\ lost' \in Nat /\ ~fault'
  BY <1>1, <1>2
<1> QED BY <1>1, <1>7, <1>8, <1>9 DEF HeapOK

\* A step that changes nothing of the heap.
LEMMA UnchangedHeap ==
  ASSUME HeapOK, UNCHANGED <<objects, cap, pc, ownVars>>
  PROVE  HeapOK'
<1>1. UNCHANGED <<objects, cap, pc, others, head, next, live, lost, fault, phase, cursor, after>>
  BY DEF ownVars
<1>2. OwnedBy(DOMAIN next)' = OwnedBy(DOMAIN next)
  BY <1>1, SameOwned
<1>3. Lost' = Lost /\ TablesLive' = TablesLive /\ Stack' = Stack /\ OthersOK'
  BY <1>1 DEF HeapOK, OthersOK, Lost, TablesLive, TableOf, Table!Grow, Buffer, Block, Stack
<1>4. PICK seq, n : Linked(seq, n) /\ (phase \in {"at", "behind"} => FreeingOK(seq, n))
  BY DEF HeapOK
<1>5. Linked(seq, n)'
  BY <1>1, <1>4, SameLinked
<1>6. ASSUME phase \in {"at", "behind"} PROVE FreeingOK(seq, n)'
  <2>1. PICK m \in 0 .. n : /\ cursor = IF m = 0 THEN NoObject ELSE seq[m]
                            /\ live = OwnedBy({seq[i] : i \in 1 .. m}) \cup Lost
    BY <1>4, <1>6 DEF FreeingOK
  <2>2. OwnedBy({seq[i] : i \in 1 .. m})' = OwnedBy({seq[i] : i \in 1 .. m})
    BY <1>1, OwnedSame
  <2>3. cursor' = (IF m = 0 THEN NoObject ELSE seq[m]) /\ live' = OwnedBy({seq[i] : i \in 1 .. m})' \cup Lost'
    BY <2>1, <2>2, <1>1, <1>3
  <2> QED BY <2>3 DEF FreeingOK
<1> QED BY <1>1, <1>2, <1>3, <1>5, <1>6 DEF HeapOK

\* Every step keeps the invariant.
LEMMA NextMemoryInv == MemoryInv /\ [MemoryNext]_memoryVars => MemoryInv'
<1> SUFFICES ASSUME MemoryInv, [MemoryNext]_memoryVars PROVE HeapOK'
  BY NextStringsOK DEF MemoryInv
<1>0. HeapOK
  BY DEF MemoryInv
<1>1. ASSUME NEW t \in Texts, NEW n \in Nat, StringMade(t, n) \/ StringKept(t, n) PROVE HeapOK'
  BY <1>0, <1>1, StringMadeHeap, StringKeptHeap
<1>2. ASSUME NEW t \in Texts, CopyString(t) \/ TakeString(t) PROVE HeapOK'
  BY <1>1, <1>2 DEF CopyString, TakeString
<1>3. ASSUME NEW t \in Texts, TextOfObject(t) PROVE HeapOK'
  BY <1>1, <1>3 DEF TextOfObject
<1>4. ASSUME NEW kind \in {"function", "closure", "upvalue", "native"}, NewOther(kind, 0)
      PROVE  HeapOK'
  BY <1>0, <1>4, NewOtherHeap
<1>5. CASE NewOther("closure", 1)
  BY <1>0, <1>5, NewOtherHeap
<1>6. ASSUME NEW f \in DOMAIN others, NEW part \in {"code", "consts"}, Push(f, part)
      PROVE  HeapOK'
  BY <1>0, <1>6, PushHeap
<1>7. CASE GrowTable
  BY <1>7, GrowTableHeap
<1>8. CASE Destroy
  BY <1>0, <1>8, DestroyHeap
<1>9. CASE ReadNext \/ FreeObject
  BY <1>0, <1>9, ReadNextHeap, FreeObjectHeap
<1>10. CASE FreedAll
  BY <1>0, <1>10, FreedAllHeap
<1>11. CASE UNCHANGED memoryVars
  BY <1>0, <1>11, UnchangedHeap DEF memoryVars, stringVars
<1> QED BY <1>2, <1>3, <1>4, <1>5, <1>6, <1>7, <1>8, <1>9, <1>10, <1>11 DEF MemoryNext, Work

\* The memory starts in it.
LEMMA InitMemoryInv == MemoryInit => MemoryInv
<1> SUFFICES ASSUME MemoryInit PROVE HeapOK
  BY InitStringsOK DEF MemoryInv
<1>1. /\ objects = {} /\ cap = 0 /\ pc = "idle"
      /\ others = [o \in {} |-> NoArray] /\ head = NoObject /\ next = [o \in {} |-> NoObject]
      /\ live = {Stack} /\ lost = 0 /\ fault = FALSE /\ phase = "running"
  BY DEF MemoryInit, StringInit, Table!Init
<1>2. DOMAIN others = {} /\ DOMAIN next = {}
  BY <1>1
<1>3. OthersOK
  BY <1>1, <1>2, FS_EmptySet DEF OthersOK
<1>4. Lost = {} /\ TablesLive = {} /\ OwnedBy({}) = {}
  BY <1>1 DEF Lost, TablesLive, OwnedBy
<1> DEFINE seq == [i \in 1 .. 0 |-> NoObject]
<1>5. Linked(seq, 0)
  BY <1>1, <1>2 DEF Linked
<1> HIDE DEF seq
<1> QED BY <1>1, <1>2, <1>3, <1>4, <1>5 DEF HeapOK

(***************************************************************************)
(* Theorems.                                                               *)
(***************************************************************************)
\* The inductive invariant: the list vm->objects walks, what every object owns
\* and what is allocated, through allocations, growth and ~VM.
THEOREM MemoryInvariance == MemorySpec => []MemoryInv
<1> QED BY InitMemoryInv, NextMemoryInv, PTL DEF MemorySpec

\* Nothing is freed twice or read when it is freed, and no array is written past its
\* end, in whatever order objects and arrays were made and grown (reallocate,
\* free_obj, free_objects).
THEOREM FaultFree == MemorySpec => []NoFault
<1>1. MemoryInv => NoFault
  BY DEF MemoryInv, HeapOK, NoFault
<1> QED BY <1>1, MemoryInvariance, PTL

\* When ~VM is done, nothing is live but the buffers that were lost.
NothingLeft == phase = "done" => live = {Buffer(n) : n \in 1 .. lost}

\* When ~VM is done, nothing is allocated but the buffers that take_string and
\* to_string have lost: the safety half of FreesAll.
THEOREM AllFreed == MemorySpec => []NothingLeft
<1>1. MemoryInv => NothingLeft
  BY DEF MemoryInv, HeapOK, NothingLeft, Lost
<1> QED BY <1>1, MemoryInvariance, PTL

(***************************************************************************)
(* What vm->objects reaches.                                               *)
(***************************************************************************)
\* After k steps down the list its last k + 1 members have been met.
LEMMA ReachedAll ==
  ASSUME NEW seq, NEW n, Linked(seq, n), NoObject \notin DOMAIN next
  PROVE  Reached = DOMAIN next
<1> DEFINE At(i) == IF i = 0 THEN NoObject ELSE seq[i]
           Met(k) == {At(i) : i \in n - k .. n}
           More(S) == S \cup {next[o] : o \in S \ {NoObject}}
           N == Cardinality(DOMAIN next)
           F(f) == [k \in 0 .. N |-> IF k = 0 THEN {head} ELSE More(f[k - 1])]
           met == [k \in 0 .. N |-> Met(k)]
<1>1. /\ n \in Nat /\ seq \in [1 .. n -> DOMAIN next]
      /\ \A i, j \in 1 .. n : seq[i] = seq[j] => i = j
      /\ \A o \in DOMAIN next : \E i \in 1 .. n : seq[i] = o
      /\ head = At(n)
      /\ \A i \in 1 .. n : next[At(i)] = At(i - 1) /\ At(i) \in DOMAIN next
  BY DEF Linked
<1>2. N = n
  <2>1. IsFiniteSet(1 .. n) /\ Cardinality(1 .. n) = n
    BY <1>1, FS_Interval
  <2>2. seq \in Bijection(1 .. n, DOMAIN next)
    BY <1>1 DEF Bijection, Injection, IsInjective, Surjection
  <2>3. ExistsBijection(1 .. n, DOMAIN next)
    BY <2>2 DEF ExistsBijection
  <2> QED BY <2>1, <2>3, FS_Bijection
<1>3. Met(0) = {head}
  BY <1>1
<1>4. \A k \in 1 .. n : Met(k) = More(Met(k - 1))
  <2> SUFFICES ASSUME NEW k \in 1 .. n PROVE Met(k) = More(Met(k - 1))
    OBVIOUS
  <2>1. {next[o] : o \in Met(k - 1) \ {NoObject}} = {At(i) : i \in n - k .. n - 1}
    <3>1. \A i \in n - (k - 1) .. n : i \in 1 .. n /\ At(i) # NoObject /\ next[At(i)] = At(i - 1)
      BY <1>1
    <3>2. Met(k - 1) \ {NoObject} = {At(i) : i \in n - (k - 1) .. n}
      BY <3>1
    <3> HIDE DEF At
    <3>3. {next[o] : o \in {At(i) : i \in n - (k - 1) .. n}} = {At(i - 1) : i \in n - (k - 1) .. n}
      BY <3>1
    <3>4. {At(i - 1) : i \in n - (k - 1) .. n} = {At(i) : i \in n - k .. n - 1}
      <4>1. ASSUME NEW i \in n - k .. n - 1 PROVE i + 1 \in n - (k - 1) .. n /\ (i + 1) - 1 = i
        BY <1>1
      <4>2. ASSUME NEW i \in n - (k - 1) .. n PROVE i - 1 \in n - k .. n - 1
        BY <1>1
      <4> QED BY <4>1, <4>2
    <3> QED BY <3>2, <3>3, <3>4
  <2>2. n - k .. n = (n - (k - 1) .. n) \cup (n - k .. n - 1)
    BY <1>1
  <2> HIDE DEF At
  <2> QED BY <2>1, <2>2
<1> HIDE DEF Met, More, N
<1>5. met = F(met)
  BY <1>1, <1>2, <1>3, <1>4
<1>6. ReachedIn = CHOOSE f : f = F(f)
  BY DEF ReachedIn, F, More, N
<1>7. ReachedIn = F(ReachedIn)
  <2> HIDE DEF F
  <2> QED BY <1>5, <1>6
<1>8. \A k \in 0 .. n : ReachedIn[k] = Met(k)
  <2> DEFINE S == {k \in 0 .. n : ReachedIn[k] # Met(k)}
  <2> SUFFICES ASSUME S # {} PROVE FALSE
    OBVIOUS
  <2>1. S \subseteq Nat
    OBVIOUS
  <2>2. PICK k \in S : \A j \in S : k <= j
    <3> HIDE DEF S
    <3> QED BY <2>1, MinExists
  <2>3. k \in 0 .. n /\ ReachedIn[k] # Met(k) /\ \A j \in 0 .. n : j < k => ReachedIn[j] = Met(j)
    BY <1>1, <2>2
  <2>4. CASE k = 0
    BY <2>3, <2>4, <1>1, <1>2, <1>3, <1>7
  <2>5. CASE k # 0
    <3>1. k \in 1 .. n /\ k - 1 \in 0 .. n /\ ReachedIn[k - 1] = Met(k - 1)
      BY <2>3, <2>5, <1>1
    <3>2. ReachedIn[k] = More(ReachedIn[k - 1])
      BY <3>1, <2>3, <2>5, <1>2, <1>7
    <3> QED BY <3>1, <3>2, <2>3, <1>4
  <2> QED BY <2>4, <2>5
<1>9. Reached = Met(n) \ {NoObject}
  BY <1>1, <1>2, <1>8 DEF Reached, N
<1>10. Met(n) \ {NoObject} = DOMAIN next
  <2>1. Met(n) = {At(i) : i \in 0 .. n}
    BY <1>1 DEF Met
  <2>2. \A i \in 1 .. n : At(i) = seq[i] /\ At(i) \in DOMAIN next /\ i \in 0 .. n
    BY <1>1
  <2>3. \A i \in 0 .. n : i = 0 \/ i \in 1 .. n
    BY <1>1
  <2>4. \A o \in DOMAIN next : \E i \in 1 .. n : At(i) = o
    BY <1>1
  <2>5. At(0) = NoObject
    OBVIOUS
  <2> HIDE DEF At
  <2> QED BY <2>1, <2>2, <2>3, <2>4, <2>5
<1> QED BY <1>9, <1>10

\* While the machine runs every live block has its owner: an object that the list
\* from vm->objects reaches, the stack, the table, or it is a buffer that
\* take_string or to_string has lost; so free_objects misses none (allocate_object,
\* reallocate).
THEOREM LiveIsOwned == MemorySpec => []EachOwned
<1>1. MemoryInv => EachOwned
  <2> SUFFICES ASSUME MemoryInv, phase = "running"
               PROVE  live = (UNION {Freed(o) : o \in Reached})
                             \cup {Stack} \cup {Buffer(n) : n \in 1 .. lost}
                             \cup {TableOf(c) : c \in ({cap} \cup (IF pc = "idle" THEN {} ELSE {Table!Grow(cap)})) \ {0}}
    BY DEF EachOwned
  <2>1. HeapOK /\ NoObject \notin DOMAIN next
    BY ObjectKinds DEF MemoryInv, HeapOK, OthersOK
  <2>2. PICK seq, n : Linked(seq, n)
    BY <2>1 DEF HeapOK
  <2>3. Reached = DOMAIN next
    BY <2>1, <2>2, ReachedAll
  <2>4. live = OwnedBy(Reached) \cup {Stack} \cup Lost \cup TablesLive
    BY <2>1, <2>3 DEF HeapOK
  <2> QED BY <2>4 DEF OwnedBy, Lost, TablesLive
<1> QED BY <1>1, MemoryInvariance, PTL
=============================================================================
