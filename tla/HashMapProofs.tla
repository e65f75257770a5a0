--------------------------- MODULE HashMapProofs ---------------------------
(***************************************************************************)
(* Proofs about the hash table of value.cpp, for every set of keys, every  *)
(* hash function and every first capacity of at least two slots.           *)
(*                                                                         *)
(* The argument.  A table is well formed (Table) when no key is stored     *)
(* twice and the probe from a key's home slot to the key meets no slot     *)
(* that was never used.  On such a table a search that can end returns     *)
(* the key's slot or a slot on the key's probe path with no never-used     *)
(* slot before it (FindEntryOK), so storing there keeps the table well     *)
(* formed (StoreTable), and so does turning a stored key into a tombstone  *)
(* (TombstoneTable).  Every search can end because the load limit leaves a *)
(* slot never used (HasHole).  During adjust_cap the same holds of the     *)
(* array being filled, which has no tombstones and exactly the keys of the *)
(* old slots the loop has passed.                                          *)
(***************************************************************************)
EXTENDS HashMap, NaturalMinimum, FiniteSetTheorems, TLAPS

(***************************************************************************)
(* The inductive invariant.                                                *)
(***************************************************************************)
\* No key is stored twice.
Unique(es, c) ==
  \A i, j \in Slots(c) : es[i].key # NoKey /\ es[i].key = es[j].key => i = j

\* Nothing before a key on its probe path was never used.
Unbroken(es, c) ==
  \A k \in Keys, d \in Slots(c) :
    es[Probe(k, d, c)].key = k =>
      \A e \in 0 .. d - 1 : es[Probe(k, e, c)] # Empty

Table(es, c) ==
  /\ es \in [Slots(c) -> EntryType]
  /\ Unique(es, c)
  /\ Unbroken(es, c)

\* A slot was never used.
HasHole(es, c) == \E i \in Slots(c) : es[i] = Empty

CapOK == cap = 0 \/ cap >= MinCap

\* What adjust_cap has done before old slot number pos.
RehashOK ==
  /\ Table(fresh, Grow(cap))
  /\ \A i \in Slots(Grow(cap)) : fresh[i].key = NoKey => fresh[i] = Empty
  /\ \A i \in Slots(Grow(cap)) :
       fresh[i].key # NoKey => \E j \in 0 .. pos - 1 : entries[j].key = fresh[i].key
  /\ len = Cardinality(Used(fresh, Grow(cap)))
  /\ len = Cardinality(Keyed(entries, pos))

IInv ==
  /\ TypeOK
  /\ CapOK
  /\ Table(entries, cap)
  /\ 4 * Cardinality(Used(entries, cap)) <= 3 * cap
  /\ pc = "idle" => len = Cardinality(Used(entries, cap))
  /\ pc = "rehash" => RehashOK

(***************************************************************************)
(* Numbers and probing.                                                    *)
(***************************************************************************)
LEMMA GrowType ==
  ASSUME NEW c \in Nat
  PROVE  Grow(c) \in Nat /\ Grow(c) >= 2 /\ Grow(c) >= c /\ Grow(c) >= MinCap
  BY CapAssumption DEF Grow

\* The home slot of a key is a slot.
LEMMA HomeType ==
  ASSUME NEW k \in Keys, NEW c \in Nat, c > 0
  PROVE  HashOf[k] % c \in 0 .. c - 1
<1>1. HashOf[k] \in Nat
  BY HashAssumption
<1> QED BY <1>1

\* A probe starts at a slot of the table and goes up from there, once round
\* (find_map_entry's index).
LEMMA ProbeForm ==
  ASSUME NEW k \in Keys, NEW c \in Nat, c > 0
  PROVE  \E h \in 0 .. c - 1 : \A d : Probe(k, d, c) = Wrap(h + d, c)
<1>1. \A d : Probe(k, d, c) = Wrap((HashOf[k] % c) + d, c)
  BY Zenon DEF Probe
<1> QED BY <1>1, HomeType, Zenon

\* Every slot find_map_entry looks at is in the table.
LEMMA ProbeType ==
  ASSUME NEW k \in Keys, NEW c \in Nat, NEW d \in Slots(c)
  PROVE  Probe(k, d, c) \in Slots(c)
<1>1. c > 0
  BY DEF Slots
<1>2. PICK h \in 0 .. c - 1 : \A x : Probe(k, x, c) = Wrap(h + x, c)
  BY <1>1, ProbeForm
<1> QED BY <1>2 DEF Slots, Wrap

\* The probe sequence of a key visits every slot...
LEMMA ProbeOnto ==
  ASSUME NEW k \in Keys, NEW c \in Nat, NEW i \in Slots(c)
  PROVE  \E d \in Slots(c) : Probe(k, d, c) = i
<1>1. c > 0
  BY DEF Slots
<1>2. PICK h \in 0 .. c - 1 : \A x : Probe(k, x, c) = Wrap(h + x, c)
  BY <1>1, ProbeForm
<1> DEFINE d == IF i >= h THEN i - h ELSE i - h + c
<1>3. d \in 0 .. c - 1 /\ Wrap(h + d, c) = i
  BY <1>2 DEF Slots, Wrap
<1> QED BY <1>2, <1>3 DEF Slots

\* ... and none of them twice.
LEMMA ProbeInjective ==
  ASSUME NEW k \in Keys, NEW c \in Nat, NEW d \in Slots(c), NEW e \in Slots(c),
         Probe(k, d, c) = Probe(k, e, c)
  PROVE  d = e
<1>1. c > 0
  BY DEF Slots
<1>2. PICK h \in 0 .. c - 1 : \A x : Probe(k, x, c) = Wrap(h + x, c)
  BY <1>1, ProbeForm
<1> QED BY <1>2 DEF Slots, Wrap

(***************************************************************************)
(* Searching.                                                              *)
(***************************************************************************)
\* Which keys a table stores.
Has(es, c, k) == \E i \in Slots(c) : es[i].key = k

\* Neither a slot never used nor a tombstone has a key, and they differ.
LEMMA EmptyKey == Empty.key = NoKey /\ Tombstone.key = NoKey /\ Tombstone # Empty
  BY ValuesAssumption DEF Empty, Tombstone, Entry

\* adjust_cap's cleared entries and rm_map's tombstones are entries.
LEMMA EmptyType == Empty \in EntryType /\ Tombstone \in EntryType
  BY ValuesAssumption DEF Empty, Tombstone, Entry, EntryType

\* A table with a slot never used stops every search.
LEMMA SearchStops ==
  ASSUME NEW c \in Nat, NEW es, NEW k \in Keys, HasHole(es, c)
  PROVE  \E d \in Slots(c) : Stops(es, c, k, d)
<1>1. PICK i \in Slots(c) : es[i] = Empty
  BY DEF HasHole
<1>2. PICK d \in Slots(c) : Probe(k, d, c) = i
  BY ProbeOnto
<1> QED BY <1>1, <1>2 DEF Stops

\* FirstStop is the first distance at which the search can stop.
LEMMA FirstStopOK ==
  ASSUME NEW c \in Nat, NEW es, NEW k \in Keys, HasHole(es, c)
  PROVE  LET d == FirstStop(es, c, k)
         IN  /\ d \in Slots(c)
             /\ Stops(es, c, k, d)
             /\ \A e \in 0 .. d - 1 : ~Stops(es, c, k, e)
<1> DEFINE S == {d \in Slots(c) : Stops(es, c, k, d)}
<1>1. S # {} /\ S \subseteq Nat
  BY SearchStops DEF Slots
<1>2. PICK m \in S : \A n \in S : m <= n
  <2> HIDE DEF S
  <2> QED BY <1>1, MinExists
<1>3. \A e \in 0 .. m - 1 : ~Stops(es, c, k, e)
  BY <1>2 DEF Slots
<1>4. \E d \in Slots(c) : /\ Stops(es, c, k, d)
                          /\ \A e \in 0 .. d - 1 : ~Stops(es, c, k, e)
  BY <1>2, <1>3
<1> QED BY <1>4 DEF FirstStop

\* The distance at which find_map_entry answers, and what it found there.
LEMMA FindEntryOK ==
  ASSUME NEW c \in Nat, NEW es, NEW k \in Keys, HasHole(es, c), Table(es, c)
  PROVE  \E d \in Slots(c) :
           /\ FindEntry(es, c, k) = Probe(k, d, c)
           /\ es[Probe(k, d, c)].key \in {k, NoKey}
           /\ es[Probe(k, d, c)].key = NoKey => ~Has(es, c, k)
           /\ \A e \in 0 .. d - 1 : es[Probe(k, e, c)] # Empty
<1> DEFINE s == FirstStop(es, c, k)
           tombs == TombsBefore(es, c, k, s)
<1>1. /\ s \in Slots(c)
      /\ Stops(es, c, k, s)
      /\ \A e \in 0 .. s - 1 : ~Stops(es, c, k, e)
  BY FirstStopOK
<1>2. NoKey # k
  BY KeysAssumption
<1>3. es[Probe(k, s, c)].key # k => ~Has(es, c, k)
  <2> SUFFICES ASSUME es[Probe(k, s, c)].key # k, Has(es, c, k)
               PROVE  FALSE
    OBVIOUS
  <2>1. PICK i \in Slots(c) : es[i].key = k
    BY DEF Has
  <2>2. PICK d \in Slots(c) : Probe(k, d, c) = i
    BY ProbeOnto
  <2>3. es[Probe(k, s, c)] = Empty
    BY <1>1 DEF Stops
  <2>4. ~(s < d)
    BY <1>1, <2>1, <2>2, <2>3 DEF Table, Unbroken, Slots
  <2>5. ~(d < s)
    BY <1>1, <2>1, <2>2 DEF Stops, Slots
  <2>6. d = s
    BY <1>1, <2>4, <2>5 DEF Slots
  <2> QED BY <2>1, <2>2, <2>6
<1>4. \A e \in 0 .. s - 1 : es[Probe(k, e, c)] # Empty
  BY <1>1 DEF Stops
<1>5. CASE es[Probe(k, s, c)].key = k \/ tombs = {}
  <2>1. FindEntry(es, c, k) = Probe(k, s, c)
    BY <1>5 DEF FindEntry
  <2>2. es[Probe(k, s, c)].key \in {k, NoKey}
    BY <1>1, EmptyKey DEF Stops
  <2> QED BY <1>1, <1>2, <1>3, <1>4, <2>1, <2>2
<1>6. CASE ~(es[Probe(k, s, c)].key = k \/ tombs = {})
  <2>1. tombs # {} /\ tombs \subseteq Nat
    BY <1>1, <1>6 DEF TombsBefore, Slots
  <2> DEFINE t == CHOOSE e \in tombs : \A f \in tombs : e <= f
  <2>2. t \in tombs
    <3> HIDE DEF tombs
    <3>1. \E e \in tombs : \A f \in tombs : e <= f
      BY <2>1, MinExists
    <3> QED BY <3>1
  <2>3. t \in Slots(c) /\ t < s /\ t >= 0 /\ es[Probe(k, t, c)].key = NoKey
    BY <1>1, <2>2 DEF TombsBefore, Slots
  <2>4. FindEntry(es, c, k) = Probe(k, t, c)
    BY <1>6 DEF FindEntry
  <2>5. \A e \in 0 .. t - 1 : es[Probe(k, e, c)] # Empty
    BY <1>1, <1>4, <2>3 DEF Slots
  <2> QED BY <1>3, <1>6, <2>3, <2>4, <2>5
<1> QED BY <1>5, <1>6

(***************************************************************************)
(* Storing and removing keep a table well formed.                          *)
(***************************************************************************)
\* Storing a key in the slot a search for it returned.
LEMMA StoreTable ==
  ASSUME NEW c \in Nat, NEW es, Table(es, c), NEW k \in Keys, NEW v \in Values,
         HasHole(es, c)
  PROVE  LET s == FindEntry(es, c, k)
             T == [es EXCEPT ![s] = Entry(k, v)]
         IN  /\ s \in Slots(c)
             /\ Table(T, c)
             /\ T[s] = Entry(k, v)
             /\ es[s].key \in {k, NoKey}
             /\ es[s].key = NoKey => ~Has(es, c, k)
             /\ Used(T, c) = Used(es, c) \cup {s}
<1> DEFINE s == FindEntry(es, c, k)
           T == [es EXCEPT ![s] = Entry(k, v)]
<1>1. PICK d \in Slots(c) :
        /\ s = Probe(k, d, c)
        /\ es[Probe(k, d, c)].key \in {k, NoKey}
        /\ es[Probe(k, d, c)].key = NoKey => ~Has(es, c, k)
        /\ \A e \in 0 .. d - 1 : es[Probe(k, e, c)] # Empty
  BY FindEntryOK
<1>2. s \in Slots(c)
  BY <1>1, ProbeType
<1>3. k # NoKey /\ Entry(k, v).key = k /\ Entry(k, v) # Empty
  BY KeysAssumption DEF Entry, Empty
<1>4. /\ es \in [Slots(c) -> EntryType]
      /\ Unique(es, c)
      /\ Unbroken(es, c)
  BY DEF Table
<1> HIDE DEF s
<1>5. T \in [Slots(c) -> EntryType]
  BY <1>4 DEF EntryType, Entry
<1>6. /\ T[s] = Entry(k, v)
      /\ \A i \in Slots(c) : i # s => T[i] = es[i]
  BY <1>2, <1>4
<1> HIDE DEF T
<1>7. es[s].key = k \/ ~Has(es, c, k)
  BY <1>1
<1>8. Unique(T, c)
  <2> SUFFICES ASSUME NEW i \in Slots(c), NEW j \in Slots(c),
                      T[i].key # NoKey, T[i].key = T[j].key
               PROVE  i = j
    BY DEF Unique
  <2>1. CASE i = s /\ j # s
    <3>1. es[j].key = k
      BY <2>1, <1>3, <1>6
    <3>2. es[s].key = k
      BY <3>1, <1>7 DEF Has
    <3> QED BY <3>1, <3>2, <2>1, <1>2, <1>3, <1>4 DEF Unique
  <2>2. CASE i # s /\ j = s
    <3>1. es[i].key = k
      BY <2>2, <1>3, <1>6
    <3>2. es[s].key = k
      BY <3>1, <1>7 DEF Has
    <3> QED BY <3>1, <3>2, <2>2, <1>2, <1>3, <1>4 DEF Unique
  <2>3. CASE i # s /\ j # s
    BY <2>3, <1>4, <1>6 DEF Unique
  <2> QED BY <2>1, <2>2, <2>3
<1>9. \A i \in Slots(c) : es[i] # Empty => T[i] # Empty
  BY <1>3, <1>6
<1>10. Unbroken(T, c)
  <2> SUFFICES ASSUME NEW q \in Keys, NEW f \in Slots(c),
                      T[Probe(q, f, c)].key = q, NEW e \in 0 .. f - 1
               PROVE  T[Probe(q, e, c)] # Empty
    BY DEF Unbroken
  <2>1. e \in Slots(c) /\ Probe(q, e, c) \in Slots(c) /\ Probe(q, f, c) \in Slots(c)
    <3>1. e \in Slots(c)
      BY DEF Slots
    <3> QED BY <3>1, ProbeType
  <2>2. CASE Probe(q, f, c) # s
    <3>1. es[Probe(q, f, c)].key = q
      BY <2>1, <2>2, <1>6
    <3>2. es[Probe(q, e, c)] # Empty
      BY <3>1, <1>4 DEF Unbroken
    <3> QED BY <3>2, <2>1, <1>9
  <2>3. CASE Probe(q, f, c) = s
    <3>1. q = k
      BY <2>3, <1>3, <1>6
    <3>2. f = d
      BY <2>3, <3>1, <1>1, ProbeInjective
    <3>3. es[Probe(q, e, c)] # Empty
      BY <3>1, <3>2, <1>1
    <3> QED BY <3>3, <2>1, <1>9
  <2> QED BY <2>2, <2>3
<1>11. Used(T, c) = Used(es, c) \cup {s}
  BY <1>2, <1>3, <1>6 DEF Used
<1> QED BY <1>1, <1>2, <1>5, <1>6, <1>8, <1>10, <1>11 DEF Table, s, T

\* Turning a stored key into a tombstone.
LEMMA TombstoneTable ==
  ASSUME NEW c \in Nat, NEW es, Table(es, c), NEW s \in Slots(c),
         es[s].key # NoKey
  PROVE  LET T == [es EXCEPT ![s] = Tombstone]
         IN  Table(T, c) /\ Used(T, c) = Used(es, c)
<1> DEFINE T == [es EXCEPT ![s] = Tombstone]
<1>1. /\ es \in [Slots(c) -> EntryType]
      /\ Unique(es, c)
      /\ Unbroken(es, c)
  BY DEF Table
<1>2. /\ T \in [Slots(c) -> EntryType]
      /\ T[s] = Tombstone
      /\ \A i \in Slots(c) : i # s => T[i] = es[i]
  BY <1>1, EmptyType
<1> HIDE DEF T
<1>3. es[s] # Empty
  BY EmptyKey
<1>4. Unique(T, c)
  BY <1>1, <1>2, EmptyKey DEF Unique
<1>5. Unbroken(T, c)
  <2> SUFFICES ASSUME NEW q \in Keys, NEW f \in Slots(c),
                      T[Probe(q, f, c)].key = q, NEW e \in 0 .. f - 1
               PROVE  T[Probe(q, e, c)] # Empty
    BY DEF Unbroken
  <2>1. e \in Slots(c) /\ Probe(q, e, c) \in Slots(c) /\ Probe(q, f, c) \in Slots(c)
    <3>1. e \in Slots(c)
      BY DEF Slots
    <3> QED BY <3>1, ProbeType
  <2>2. Probe(q, f, c) # s
    BY <1>2, EmptyKey, KeysAssumption
  <2>3. es[Probe(q, f, c)].key = q
    BY <2>1, <2>2, <1>2
  <2>4. es[Probe(q, e, c)] # Empty
    BY <2>3, <1>1 DEF Unbroken
  <2> QED BY <2>1, <2>4, <1>2, EmptyKey
<1>6. Used(T, c) = Used(es, c)
  BY <1>2, <1>3, EmptyKey DEF Used
<1> QED BY <1>2, <1>4, <1>5, <1>6 DEF Table, T

(***************************************************************************)
(* Counting slots.                                                         *)
(***************************************************************************)
LEMMA UsedFinite ==
  ASSUME NEW c \in Nat, NEW es
  PROVE  /\ IsFiniteSet(Used(es, c))
         /\ Cardinality(Used(es, c)) \in Nat
<1>1. IsFiniteSet(Slots(c))
  BY FS_Interval DEF Slots
<1>2. Used(es, c) \in SUBSET Slots(c)
  BY DEF Used
<1> QED BY <1>1, <1>2, FS_Subset, FS_CardinalityType

\* The slots with a key are finitely many.
LEMMA KeyedFinite ==
  ASSUME NEW n \in Nat, NEW es
  PROVE  /\ IsFiniteSet(Keyed(es, n))
         /\ Cardinality(Keyed(es, n)) \in Nat
<1>1. IsFiniteSet(0 .. n - 1)
  BY FS_Interval
<1>2. Keyed(es, n) \in SUBSET (0 .. n - 1)
  BY DEF Keyed
<1> QED BY <1>1, <1>2, FS_Subset, FS_CardinalityType

\* Fewer used slots than slots leave one that was never used.
LEMMA HoleExists ==
  ASSUME NEW c \in Nat, NEW es, Cardinality(Used(es, c)) < c
  PROVE  HasHole(es, c)
<1>1. Cardinality(Slots(c)) = c
  BY FS_Interval DEF Slots
<1>2. Used(es, c) # Slots(c)
  BY <1>1, UsedFinite
<1> QED BY <1>2 DEF Used, HasHole

\* Keys before slot n are among the used slots.
LEMMA KeyedUsed ==
  ASSUME NEW c \in Nat, NEW es, NEW n \in 0 .. c
  PROVE  Cardinality(Keyed(es, n)) <= Cardinality(Used(es, c))
<1>1. Keyed(es, n) \in SUBSET Used(es, c)
  BY EmptyKey DEF Keyed, Used, Slots
<1> QED BY <1>1, UsedFinite, FS_Subset

\* The loop of adjust_cap counts the keys one slot at a time.
LEMMA KeyedStep ==
  ASSUME NEW n \in Nat, NEW es
  PROVE  /\ es[n].key = NoKey => Keyed(es, n + 1) = Keyed(es, n)
         /\ es[n].key # NoKey =>
              Cardinality(Keyed(es, n + 1)) = Cardinality(Keyed(es, n)) + 1
<1>1. ASSUME es[n].key = NoKey
      PROVE  Keyed(es, n + 1) = Keyed(es, n)
  BY <1>1 DEF Keyed
<1>2. ASSUME es[n].key # NoKey
      PROVE  Cardinality(Keyed(es, n + 1)) = Cardinality(Keyed(es, n)) + 1
  <2>1. Keyed(es, n + 1) = Keyed(es, n) \cup {n} /\ n \notin Keyed(es, n)
    BY <1>2 DEF Keyed
  <2> QED BY <2>1, KeyedFinite, FS_AddElement
<1> QED BY <1>1, <1>2

\* What storing does to the number of used slots.
LEMMA StoreCount ==
  ASSUME NEW c \in Nat, NEW es, Table(es, c), NEW k \in Keys, NEW v \in Values,
         HasHole(es, c)
  PROVE  LET s == FindEntry(es, c, k)
             n == Cardinality(Used(es, c))
         IN  Cardinality(Used([es EXCEPT ![s] = Entry(k, v)], c))
               = IF es[s] = Empty THEN n + 1 ELSE n
<1> DEFINE s == FindEntry(es, c, k)
           T == [es EXCEPT ![s] = Entry(k, v)]
<1>1. s \in Slots(c) /\ Used(T, c) = Used(es, c) \cup {s}
  BY StoreTable
<1>2. s \in Used(es, c) <=> es[s] # Empty
  BY <1>1 DEF Used
<1> HIDE DEF s, T
<1>3. Cardinality(Used(T, c))
        = IF s \in Used(es, c) THEN Cardinality(Used(es, c))
          ELSE Cardinality(Used(es, c)) + 1
  BY <1>1, UsedFinite, FS_AddElement
<1> QED BY <1>2, <1>3 DEF s, T

\* An array whose slots were never used is a well-formed table.
LEMMA EmptyTableOK ==
  ASSUME NEW c \in Nat
  PROVE  /\ Table(EmptyTable(c), c)
         /\ Used(EmptyTable(c), c) = {}
         /\ Cardinality(Used(EmptyTable(c), c)) = 0
<1>1. \A i \in Slots(c) : EmptyTable(c)[i] = Empty
  BY DEF EmptyTable
<1>2. EmptyTable(c) \in [Slots(c) -> EntryType]
  BY EmptyType DEF EmptyTable
<1>3. Unique(EmptyTable(c), c)
  BY <1>1, EmptyKey DEF Unique
<1>4. Unbroken(EmptyTable(c), c)
  BY <1>1, EmptyKey, KeysAssumption, ProbeType DEF Unbroken
<1>5. Used(EmptyTable(c), c) = {}
  BY <1>1 DEF Used
<1> QED BY <1>2, <1>3, <1>4, <1>5, FS_EmptySet DEF Table

(***************************************************************************)
(* The invariant is inductive.                                             *)
(***************************************************************************)
\* The load limit leaves a slot never used, in both arrays.
LEMMA Holes ==
  ASSUME IInv
  PROVE  /\ cap # 0 => HasHole(entries, cap)
         /\ pc = "rehash" => HasHole(fresh, Grow(cap))
<1>1. cap \in Nat /\ pos \in 0 .. cap
  BY DEF IInv, TypeOK
<1>2. Cardinality(Used(entries, cap)) \in Nat
  BY <1>1, UsedFinite
<1>3. 4 * Cardinality(Used(entries, cap)) <= 3 * cap
  BY DEF IInv
<1>4. ASSUME cap # 0 PROVE HasHole(entries, cap)
  BY <1>1, <1>2, <1>3, <1>4, HoleExists
<1>5. ASSUME pc = "rehash" PROVE HasHole(fresh, Grow(cap))
  <2>1. /\ len = Cardinality(Used(fresh, Grow(cap)))
        /\ len = Cardinality(Keyed(entries, pos))
    BY <1>5 DEF IInv, RehashOK
  <2>2. len <= Cardinality(Used(entries, cap)) /\ len \in Nat
    BY <1>1, <2>1, KeyedUsed DEF IInv, TypeOK
  <2>3. Grow(cap) \in Nat /\ Grow(cap) >= 2 /\ Grow(cap) >= cap
    BY <1>1, GrowType
  <2>4. len < Grow(cap)
    BY <1>1, <1>2, <1>3, <2>2, <2>3
  <2> QED BY <2>1, <2>3, <2>4, HoleExists
<1> QED BY <1>4, <1>5

\* init_map sets the invariant up.
LEMMA InitIInv == Init => IInv
<1> SUFFICES ASSUME Init PROVE IInv
  OBVIOUS
<1>1. TypeOK
  BY EmptyType, ValuesAssumption
     DEF Init, TypeOK, EmptyTable, Slots, Empty, Entry, EntryType
<1>2. Table(entries, cap) /\ Cardinality(Used(entries, cap)) = 0
  BY EmptyTableOK DEF Init
<1> QED BY <1>1, <1>2 DEF Init, IInv, CapOK

\* A put_map that does not grow keeps the invariant.
LEMMA PutIInv ==
  ASSUME IInv, NEW k \in Keys, NEW v \in Values, Put(k, v)
  PROVE  IInv'
<1> DEFINE s == FindEntry(entries, cap, k)
           T == [entries EXCEPT ![s] = Entry(k, v)]
<1>1. /\ pc = "idle" /\ pc' = "idle" /\ cap' = cap
      /\ fresh' = fresh /\ pos' = pos /\ pending' = pending
      /\ entries' = T
      /\ len' = IF entries[s] = Empty THEN len + 1 ELSE len
      /\ 4 * (len + 1) <= 3 * cap
  <2>1. Put(k, v)
    OBVIOUS
  <2>2. len \in Nat /\ cap \in Nat
    BY DEF IInv, TypeOK
  <2> QED BY <2>1, <2>2 DEF Put, Store, Overloaded
<1>2. /\ len \in Nat /\ cap \in Nat
      /\ Table(entries, cap)
      /\ len = Cardinality(Used(entries, cap))
  BY <1>1 DEF IInv, TypeOK
<1>3. cap # 0
  BY <1>1, <1>2
<1>4. HasHole(entries, cap)
  BY <1>3, Holes
<1>5. Table(T, cap)
  BY <1>2, <1>4, StoreTable
<1>6. Cardinality(Used(T, cap)) = len'
  BY <1>1, <1>2, <1>4, StoreCount
<1> HIDE DEF T
<1>7. len' \in Nat /\ 4 * len' <= 3 * cap
  BY <1>1, <1>2
<1>8. TypeOK'
  <2>1. T \in [Slots(cap) -> EntryType]
    BY <1>5 DEF Table
  <2> QED BY <2>1, <1>1, <1>2, <1>7 DEF IInv, TypeOK
<1> QED BY <1>1, <1>5, <1>6, <1>7, <1>8 DEF IInv, CapOK

\* Entering adjust_cap keeps the invariant: the cleared array is a table.
LEMMA PutGrowIInv ==
  ASSUME IInv, NEW k \in Keys, NEW v \in Values, PutGrow(k, v)
  PROVE  IInv'
<1>1. /\ pc = "idle" /\ pc' = "rehash" /\ cap' = cap /\ entries' = entries
      /\ fresh' = EmptyTable(Grow(cap)) /\ pos' = 0 /\ len' = 0
      /\ pending' = Entry(k, v)
  BY DEF PutGrow
<1>2. /\ cap \in Nat /\ entries \in [Slots(cap) -> EntryType]
      /\ Grow(cap) \in Nat
  BY GrowType DEF IInv, TypeOK
<1>3. /\ Table(fresh', Grow(cap))
      /\ Cardinality(Used(fresh', Grow(cap))) = 0
      /\ \A i \in Slots(Grow(cap)) : fresh'[i] = Empty
  BY <1>1, <1>2, EmptyTableOK DEF EmptyTable
<1>4. Cardinality(Keyed(entries, 0)) = 0
  <2>1. Keyed(entries, 0) = {}
    BY DEF Keyed
  <2> QED BY <2>1, FS_EmptySet
<1>5. RehashOK'
  BY <1>1, <1>3, <1>4, EmptyKey DEF RehashOK
<1>6. TypeOK'
  BY <1>1, <1>2, <1>3 DEF TypeOK, Table, Entry, EntryType
<1> QED BY <1>1, <1>5, <1>6 DEF IInv, CapOK

\* One iteration of adjust_cap's loop keeps the invariant: the array being
\* filled stays a table, and the counted entries are its used slots.
LEMMA RehashIInv ==
  ASSUME IInv, Rehash
  PROVE  IInv'
<1> DEFINE c == Grow(cap)
           key == entries[pos].key
           s == FindEntry(fresh, c, key)
           T == [fresh EXCEPT ![s] = entries[pos]]
<1>1. /\ pc = "rehash" /\ pc' = "rehash" /\ cap' = cap /\ entries' = entries
      /\ pending' = pending /\ pos < cap /\ pos' = pos + 1
      /\ key = NoKey => fresh' = fresh /\ len' = len
      /\ key # NoKey => fresh' = T /\ len' = len + 1
  BY DEF Rehash
<1>2. /\ cap \in Nat /\ len \in Nat /\ pos \in 0 .. cap
      /\ entries \in [Slots(cap) -> EntryType]
      /\ fresh \in [Slots(c) -> EntryType]
      /\ pending.key \in Keys /\ pending \in EntryType
      /\ Table(entries, cap) /\ CapOK
      /\ 4 * Cardinality(Used(entries, cap)) <= 3 * cap
  BY <1>1 DEF IInv, TypeOK
<1>3. pos \in Nat /\ pos \in Slots(cap) /\ pos' \in 0 .. cap
  BY <1>1, <1>2 DEF Slots
<1>4. /\ c \in Nat
      /\ HasHole(fresh, c)
  BY <1>1, <1>2, GrowType, Holes
<1>5. RehashOK
  BY <1>1 DEF IInv
<1> HIDE DEF c
<1>6. RehashOK'
  <2>1. CASE key = NoKey
    <3>1. Keyed(entries, pos + 1) = Keyed(entries, pos)
      BY <2>1, <1>3, KeyedStep
    <3>2. 0 .. pos - 1 \subseteq 0 .. pos' - 1
      BY <1>1, <1>3
    <3>3. \A i \in Slots(c) : fresh[i].key # NoKey =>
             \E j \in 0 .. pos - 1 : entries[j].key = fresh[i].key
      BY <1>5 DEF RehashOK, c
    <3>4. \A i \in Slots(c) : fresh[i].key # NoKey =>
             \E j \in 0 .. pos' - 1 : entries[j].key = fresh[i].key
      BY <3>2, <3>3
    <3>5. fresh' = fresh /\ len' = len /\ cap' = cap /\ entries' = entries
      BY <2>1, <1>1
    <3>6. /\ Table(fresh, c)
          /\ \A i \in Slots(c) : fresh[i].key = NoKey => fresh[i] = Empty
          /\ len = Cardinality(Used(fresh, c))
          /\ len = Cardinality(Keyed(entries, pos + 1))
      BY <3>1, <1>5 DEF RehashOK, c
    <3> HIDE DEF key, s, T
    <3> QED BY <3>4, <3>5, <3>6, <1>1 DEF RehashOK, c
  <2>2. CASE key # NoKey
    <3>1. /\ key \in Keys /\ entries[pos].value \in Values
          /\ entries[pos] = Entry(key, entries[pos].value)
      BY <2>2, <1>2, <1>3 DEF EntryType, Entry
    <3>2. Table(fresh, c)
      BY <1>5 DEF RehashOK, c
    <3>3. /\ s \in Slots(c)
          /\ Table(T, c)
          /\ T[s] = entries[pos]
          /\ fresh[s].key \in {key, NoKey}
      BY <3>1, <3>2, <1>4, StoreTable
    <3>4. fresh[s].key = NoKey
      <4> SUFFICES ASSUME fresh[s].key # NoKey PROVE FALSE
        OBVIOUS
      <4>1. PICK j \in 0 .. pos - 1 : entries[j].key = fresh[s].key
        BY <3>3, <1>5 DEF RehashOK, c
      <4>2. j \in Slots(cap) /\ j # pos /\ entries[j].key = key
        BY <4>1, <3>3, <1>2, <1>3 DEF Slots
      <4> QED BY <4>2, <2>2, <1>2, <1>3 DEF Table, Unique
    <3>5. fresh[s] = Empty
      BY <3>3, <3>4, <1>5 DEF RehashOK, c
    <3>6. Cardinality(Used(T, c)) = Cardinality(Used(fresh, c)) + 1
      BY <3>1, <3>2, <3>5, <1>4, StoreCount
    <3>7. Cardinality(Keyed(entries, pos + 1)) = Cardinality(Keyed(entries, pos)) + 1
      BY <2>2, <1>3, KeyedStep
    <3>8. /\ len = Cardinality(Used(fresh, c))
          /\ len = Cardinality(Keyed(entries, pos))
      BY <1>5 DEF RehashOK, c
    <3>9. \A i \in Slots(c) : i # s => T[i] = fresh[i]
      BY <1>2
    <3>10. \A i \in Slots(c) : T[i].key = NoKey => T[i] = Empty
      BY <3>3, <3>9, <2>2, <1>5 DEF RehashOK, c
    <3>11. \A i \in Slots(c) : T[i].key # NoKey =>
             \E j \in 0 .. pos : entries[j].key = T[i].key
      <4> SUFFICES ASSUME NEW i \in Slots(c), T[i].key # NoKey
                   PROVE  \E j \in 0 .. pos : entries[j].key = T[i].key
        OBVIOUS
      <4>1. CASE i = s
        BY <4>1, <3>3, <1>3
      <4>2. CASE i # s
        <5>1. PICK j \in 0 .. pos - 1 : entries[j].key = fresh[i].key
          BY <4>2, <3>9, <1>5 DEF RehashOK, c
        <5> QED BY <5>1, <4>2, <3>9, <1>3
      <4> QED BY <4>1, <4>2
    <3>12. pos' - 1 = pos /\ fresh' = T /\ len' = len + 1
      BY <2>2, <1>1, <1>3
    <3> HIDE DEF T, s, key
    <3> QED
      BY <3>3, <3>6, <3>7, <3>8, <3>10, <3>11, <3>12, <1>1 DEF RehashOK, c
  <2> QED BY <2>1, <2>2
<1>7. fresh' \in [Slots(c) -> EntryType]
  BY <1>1, <1>6 DEF RehashOK, Table, c
<1>8. TypeOK'
  BY <1>1, <1>2, <1>3, <1>7 DEF TypeOK, c
<1> QED BY <1>1, <1>2, <1>6, <1>8 DEF IInv, CapOK

\* Swapping the arrays and storing the pair keeps the invariant.
LEMMA PutEndIInv ==
  ASSUME IInv, PutEnd
  PROVE  IInv'
<1> DEFINE c == Grow(cap)
           k == pending.key
           v == pending.value
           s == FindEntry(fresh, c, k)
           T == [fresh EXCEPT ![s] = Entry(k, v)]
<1>1. /\ pc = "rehash" /\ pc' = "idle" /\ cap' = c /\ pos = cap
      /\ entries' = T /\ fresh' = EmptyTable(0) /\ pos' = 0 /\ pending' = Empty
      /\ len' = IF fresh[s] = Empty THEN len + 1 ELSE len
  BY DEF PutEnd, Store
<1>2. /\ cap \in Nat /\ len \in Nat /\ k \in Keys /\ v \in Values
      /\ CapOK /\ RehashOK
      /\ 4 * Cardinality(Used(entries, cap)) <= 3 * cap
  BY <1>1 DEF IInv, TypeOK, EntryType
<1>3. c \in Nat /\ HasHole(fresh, c) /\ Table(fresh, c)
  BY <1>1, <1>2, GrowType, Holes DEF RehashOK
<1>4. Table(T, c)
  BY <1>2, <1>3, StoreTable
<1>5. len = Cardinality(Used(fresh, c)) /\ len = Cardinality(Keyed(entries, cap))
  BY <1>1, <1>2 DEF RehashOK
<1>6. Cardinality(Used(T, c)) = len'
  BY <1>1, <1>2, <1>3, <1>5, StoreCount
<1>7. len <= Cardinality(Used(entries, cap)) /\ Cardinality(Used(entries, cap)) \in Nat
  BY <1>2, <1>5, KeyedUsed, UsedFinite
<1>8. 4 * len <= 3 * cap
  BY <1>2, <1>7
<1> HIDE DEF T, s
<1>9. len' \in Nat /\ 4 * len' <= 3 * c /\ (c = 0 \/ c >= MinCap)
  BY <1>1, <1>2, <1>8, CapAssumption DEF c, Grow, CapOK
<1>10. TypeOK'
  <2>1. T \in [Slots(c) -> EntryType]
    BY <1>4 DEF Table
  <2> HIDE DEF c
  <2> QED BY <2>1, <1>1, <1>3, <1>9, EmptyType DEF TypeOK
<1> HIDE DEF c
<1> QED BY <1>1, <1>4, <1>6, <1>9, <1>10 DEF IInv, CapOK

\* rm_map keeps the invariant: a tombstone does not break a search.
LEMMA RmIInv ==
  ASSUME IInv, NEW k \in Keys, Rm(k)
  PROVE  IInv'
<1> DEFINE s == FindEntry(entries, cap, k)
           found == len # 0 /\ entries[s].key # NoKey
           T == [entries EXCEPT ![s] = Tombstone]
<1>1. /\ pc = "idle" /\ pc' = pc /\ cap' = cap /\ len' = len
      /\ fresh' = fresh /\ pos' = pos /\ pending' = pending
      /\ entries' = IF found THEN T ELSE entries
  BY DEF Rm
<1>2. /\ len \in Nat /\ cap \in Nat
      /\ Table(entries, cap)
      /\ len = Cardinality(Used(entries, cap))
      /\ 4 * len <= 3 * cap
  BY <1>1 DEF IInv, TypeOK
<1>3. Table(entries', cap) /\ Used(entries', cap) = Used(entries, cap)
  <2>1. CASE found
    <3>1. cap # 0
      BY <2>1, <1>2
    <3>2. s \in Slots(cap)
      BY <3>1, <1>2, Holes, FindEntryOK, ProbeType
    <3> HIDE DEF s
    <3> QED BY <2>1, <3>2, <1>1, <1>2, TombstoneTable
  <2>2. CASE ~found
    BY <2>2, <1>1, <1>2
  <2> QED BY <2>1, <2>2
<1>4. entries' \in [Slots(cap) -> EntryType]
  BY <1>3 DEF Table
<1> HIDE DEF T, s, found
<1>5. TypeOK'
  BY <1>1, <1>4 DEF IInv, TypeOK
<1> QED BY <1>1, <1>2, <1>3, <1>5 DEF IInv, CapOK

\* Steps that leave the table alone: get_map, and stuttering.
LEMMA UnchangedIInv ==
  ASSUME IInv, UNCHANGED <<len, cap, entries, pc, fresh, pos, pending>>
  PROVE  IInv'
  BY DEF IInv, TypeOK, CapOK, Table, Unique, Unbroken, RehashOK, Used, Keyed

\* Every step of the table keeps the invariant.
LEMMA NextIInv == IInv /\ [Next]_vars => IInv'
<1> SUFFICES ASSUME IInv, [Next]_vars PROVE IInv'
  OBVIOUS
<1>1. ASSUME NEW k \in Keys, NEW v \in Values, Put(k, v) PROVE IInv'
  BY <1>1, PutIInv
<1>2. ASSUME NEW k \in Keys, NEW v \in Values, PutGrow(k, v) PROVE IInv'
  BY <1>2, PutGrowIInv
<1>3. ASSUME NEW k \in Keys, Get(k) PROVE IInv'
  BY <1>3, UnchangedIInv DEF Get
<1>4. ASSUME NEW k \in Keys, Rm(k) PROVE IInv'
  BY <1>4, RmIInv
<1>5. CASE Rehash
  BY <1>5, RehashIInv
<1>6. CASE PutEnd
  BY <1>6, PutEndIInv
<1>7. CASE UNCHANGED vars
  BY <1>7, UnchangedIInv DEF vars
<1> QED BY <1>1, <1>2, <1>3, <1>4, <1>5, <1>6, <1>7 DEF Next

(***************************************************************************)
(* Theorems.                                                               *)
(***************************************************************************)
THEOREM Invariance == Spec => []IInv
<1> QED BY InitIInv, NextIInv, PTL DEF Spec

\* Types: the entries array always has cap slots, and adjust_cap's array the
\* grown capacity (Map in value.hpp, adjust_cap in value.cpp).
THEOREM TypeCorrect == Spec => []TypeOK
<1>1. IInv => TypeOK
  BY DEF IInv
<1> QED BY <1>1, Invariance, PTL

\* find_map_entry's endless loop always ends, in the table and in the array
\* adjust_cap is filling.
THEOREM SearchesEnd == Spec => []ProbeTerminates
<1>1. IInv => ProbeTerminates
  <2> SUFFICES ASSUME IInv, NEW k \in Keys
               PROVE  /\ cap # 0 => \E d \in Slots(cap) : Stops(entries, cap, k, d)
                      /\ pc = "rehash" =>
                           \E d \in Slots(Grow(cap)) : Stops(fresh, Grow(cap), k, d)
    BY DEF ProbeTerminates
  <2>1. cap \in Nat /\ Grow(cap) \in Nat
    BY GrowType DEF IInv, TypeOK
  <2> QED BY <2>1, Holes, SearchStops
<1> QED BY <1>1, Invariance, PTL

\* In a well-formed table a stored key is found where it is stored.
LEMMA StoredIsFound ==
  ASSUME NEW c \in Nat, NEW es, Table(es, c), HasHole(es, c),
         NEW i \in Slots(c), es[i].key # NoKey
  PROVE  FindEntry(es, c, es[i].key) = i
<1> DEFINE k == es[i].key
<1>1. k \in Keys
  BY DEF Table, EntryType
<1>2. PICK d \in Slots(c) :
        /\ FindEntry(es, c, k) = Probe(k, d, c)
        /\ es[Probe(k, d, c)].key \in {k, NoKey}
        /\ es[Probe(k, d, c)].key = NoKey => ~Has(es, c, k)
  BY <1>1, FindEntryOK
<1>3. es[Probe(k, d, c)].key = k
  BY <1>2 DEF Has
<1>4. Probe(k, d, c) \in Slots(c)
  BY <1>1, ProbeType
<1> QED BY <1>2, <1>3, <1>4 DEF Table, Unique

\* Every stored key is found where it is stored, whatever was stored, removed
\* or rehashed before (put_map, rm_map, adjust_cap).
THEOREM KeysAreFound == Spec => []KeysReachable
<1>1. IInv => KeysReachable
  <2> SUFFICES ASSUME IInv PROVE KeysReachable
    OBVIOUS
  <2>1. cap \in Nat /\ Grow(cap) \in Nat /\ Table(entries, cap)
    BY GrowType DEF IInv, TypeOK
  <2>2. ASSUME NEW i \in Slots(cap), entries[i].key # NoKey
        PROVE  FindEntry(entries, cap, entries[i].key) = i
    <3>1. cap # 0
      BY <2>1 DEF Slots
    <3> QED BY <3>1, <2>1, <2>2, Holes, StoredIsFound
  <2>3. ASSUME pc = "rehash", NEW i \in Slots(Grow(cap)), fresh[i].key # NoKey
        PROVE  FindEntry(fresh, Grow(cap), fresh[i].key) = i
    <3>1. Table(fresh, Grow(cap))
      BY <2>3 DEF IInv, RehashOK
    <3> QED BY <3>1, <2>1, <2>3, Holes, StoredIsFound
  <2> QED BY <2>2, <2>3 DEF KeysReachable
<1> QED BY <1>1, Invariance, PTL

\* Map.len is the number of used slots and respects the load limit.
THEOREM LenIsUsed == Spec => []LenCountsUsed
<1>1. IInv => LenCountsUsed
  BY DEF IInv, RehashOK, LenCountsUsed
<1> QED BY <1>1, Invariance, PTL

(***************************************************************************)
(* Tombstones.                                                             *)
(*                                                                         *)
(* Used slots can be given owners: keys, a different one for each, where   *)
(* the slot of a stored key is owned by it and a tombstone by a key that   *)
(* would find it, for no slot before it on the key's probe path was never  *)
(* used.  A put of a key that owns a tombstone finds one, at the latest    *)
(* this one, and then the two owners change places; a put of a key that    *)
(* owns nothing takes a tombstone from its owner, or uses a new slot and   *)
(* owns it.  So there are never more used slots than keys.                 *)
(***************************************************************************)
Owners(own, es, c) ==
  /\ own \in [Used(es, c) -> Keys]
  /\ \A i, j \in Used(es, c) : own[i] = own[j] => i = j
  /\ \A i \in Used(es, c) : es[i].key # NoKey => own[i] = es[i].key
  /\ \A k \in Keys, d \in Slots(c) :
       Probe(k, d, c) \in Used(es, c) /\ own[Probe(k, d, c)] = k =>
         \A e \in 0 .. d - 1 : es[Probe(k, e, c)] # Empty

Owned(es, c) == \E own : Owners(own, es, c)

\* Owners bound the used slots.
LEMMA OwnedBound ==
  ASSUME NEW c \in Nat, NEW es, Owned(es, c)
  PROVE  Cardinality(Used(es, c)) <= Cardinality(Keys)
<1>1. PICK own : Owners(own, es, c)
  BY DEF Owned
<1>2. IsFiniteSet(Used(es, c)) /\ Cardinality(Used(es, c)) \in Nat
  BY UsedFinite
<1>3. IsFiniteSet(Keys) /\ Cardinality(Keys) \in Nat
  BY KeysAssumption, FS_CardinalityType
<1>4. ASSUME Cardinality(Keys) < Cardinality(Used(es, c))
      PROVE  FALSE
  <2>1. own \in [Used(es, c) -> Keys]
    BY <1>1 DEF Owners
  <2>2. \E x, y \in Used(es, c) : x # y /\ own[x] = own[y]
    BY <1>2, <1>3, <1>4, <2>1, FS_PigeonHole
  <2> QED BY <1>1, <2>2 DEF Owners
<1> QED BY <1>2, <1>3, <1>4

\* A search ends no later than at the first slot that has the key, or a tombstone,
\* with nothing before it that was never used.
LEMMA FindEntryFirst ==
  ASSUME NEW c \in Nat, NEW es, NEW k \in Keys, HasHole(es, c), ~Has(es, c, k),
         NEW t \in Slots(c), es[Probe(k, t, c)].key = NoKey, es[Probe(k, t, c)] # Empty,
         \A e \in 0 .. t - 1 : es[Probe(k, e, c)] # Empty
  PROVE  \E d \in Slots(c) : d <= t /\ FindEntry(es, c, k) = Probe(k, d, c)
<1> DEFINE s == FirstStop(es, c, k)
           tombs == TombsBefore(es, c, k, s)
<1>1. s \in Slots(c) /\ Stops(es, c, k, s)
  BY FirstStopOK
<1>2. es[Probe(k, s, c)].key # k
  BY <1>1, ProbeType DEF Has
<1>3. es[Probe(k, s, c)] = Empty
  BY <1>1, <1>2 DEF Stops
<1>4. t < s
  BY <1>1, <1>3 DEF Slots
<1>5. t \in tombs /\ tombs \subseteq Nat
  BY <1>1, <1>4 DEF TombsBefore, Slots
<1> DEFINE m == CHOOSE e \in tombs : \A f \in tombs : e <= f
<1>6. FindEntry(es, c, k) = Probe(k, m, c)
  BY <1>2, <1>5 DEF FindEntry
<1>7. m \in tombs /\ \A f \in tombs : m <= f
  <2> HIDE DEF tombs
  <2>1. \E e \in tombs : \A f \in tombs : e <= f
    BY <1>5, MinExists
  <2> QED BY <2>1
<1>8. m <= t /\ m \in Slots(c)
  BY <1>1, <1>5, <1>7 DEF TombsBefore, Slots
<1> QED BY <1>6, <1>8

\* From a slot on, the probe paths of two keys are one.
LEMMA ProbesMeet ==
  ASSUME NEW c \in Nat, NEW k \in Keys, NEW q \in Keys,
         NEW d \in Slots(c), NEW t \in Slots(c), d <= t,
         NEW x \in Slots(c), NEW y \in Slots(c),
         Probe(q, x, c) = Probe(k, d, c), Probe(q, y, c) = Probe(k, t, c),
         NEW e \in 0 .. y - 1, ~(e < x)
  PROVE  \E f \in 0 .. t - 1 : Probe(q, e, c) = Probe(k, f, c)
<1>1. c > 0
  BY DEF Slots
<1>2. PICK h \in 0 .. c - 1 : \A z : Probe(k, z, c) = Wrap(h + z, c)
  BY <1>1, ProbeForm
<1>3. PICK g \in 0 .. c - 1 : \A z : Probe(q, z, c) = Wrap(g + z, c)
  BY <1>1, ProbeForm
<1> DEFINE f == d + (e - x)
<1>4. Wrap(g + x, c) = Wrap(h + d, c) /\ Wrap(g + y, c) = Wrap(h + t, c)
  BY <1>2, <1>3
<1>5. f \in 0 .. t - 1 /\ Wrap(g + e, c) = Wrap(h + f, c)
  BY <1>4 DEF Slots, Wrap
<1> QED BY <1>2, <1>3, <1>5

\* Storing a key gives its slot an owner (the end of put_map).
LEMMA StoreOwned ==
  ASSUME NEW c \in Nat, NEW es, Table(es, c), NEW k \in Keys, NEW v \in Values,
         HasHole(es, c), Owned(es, c)
  PROVE  Owned([es EXCEPT ![FindEntry(es, c, k)] = Entry(k, v)], c)
<1> DEFINE s == FindEntry(es, c, k)
           T == [es EXCEPT ![s] = Entry(k, v)]
<1>1. PICK own : Owners(own, es, c)
  BY DEF Owned
<1>2. PICK d \in Slots(c) :
        /\ s = Probe(k, d, c)
        /\ es[s].key \in {k, NoKey}
        /\ es[s].key = NoKey => ~Has(es, c, k)
        /\ \A e \in 0 .. d - 1 : es[Probe(k, e, c)] # Empty
  BY FindEntryOK
<1>3. /\ s \in Slots(c)
      /\ T[s] = Entry(k, v)
      /\ Used(T, c) = Used(es, c) \cup {s}
      /\ \A i \in Slots(c) : i # s => T[i] = es[i]
  BY StoreTable DEF Table
<1>4. k # NoKey /\ Entry(k, v).key = k /\ Entry(k, v) # Empty
  BY KeysAssumption DEF Entry, Empty
<1> HIDE DEF s, T
<1> SUFFICES Owned(T, c)
  BY DEF T, s
<1>5. \A i \in Slots(c) : es[i] # Empty => T[i] # Empty
  BY <1>3, <1>4
<1>6. \A q \in Keys, x \in Slots(c) :
        (\A e \in 0 .. x - 1 : es[Probe(q, e, c)] # Empty) =>
          \A e \in 0 .. x - 1 : T[Probe(q, e, c)] # Empty
  <2> SUFFICES ASSUME NEW q \in Keys, NEW x \in Slots(c), NEW e \in 0 .. x - 1,
                      es[Probe(q, e, c)] # Empty
               PROVE  T[Probe(q, e, c)] # Empty
    OBVIOUS
  <2>1. e \in Slots(c)
    BY DEF Slots
  <2>2. Probe(q, e, c) \in Slots(c)
    BY <2>1, ProbeType
  <2> QED BY <2>2, <1>5
<1>7. /\ own \in [Used(es, c) -> Keys]
      /\ \A i, j \in Used(es, c) : own[i] = own[j] => i = j
      /\ \A i \in Used(es, c) : es[i].key # NoKey => own[i] = es[i].key
      /\ \A q \in Keys, x \in Slots(c) :
           Probe(q, x, c) \in Used(es, c) /\ own[Probe(q, x, c)] = q =>
             \A e \in 0 .. x - 1 : es[Probe(q, e, c)] # Empty
  BY <1>1 DEF Owners
<1>8. CASE s \in Used(es, c) /\ own[s] = k
  <2>1. Used(T, c) = Used(es, c)
    BY <1>3, <1>8
  <2>2. \A i \in Used(T, c) : T[i].key # NoKey => own[i] = T[i].key
    BY <2>1, <1>3, <1>4, <1>7, <1>8 DEF Used
  <2>3. Owners(own, T, c)
    BY <2>1, <2>2, <1>6, <1>7 DEF Owners
  <2> QED BY <2>3 DEF Owned
<1>9. CASE \A i \in Used(es, c) : own[i] # k
  <2> DEFINE new == [i \in Used(T, c) |-> IF i = s THEN k ELSE own[i]]
  <2>1. new \in [Used(T, c) -> Keys]
    BY <1>3, <1>7
  <2>2. \A i, j \in Used(T, c) : new[i] = new[j] => i = j
    BY <1>3, <1>7, <1>9
  <2>3. \A i \in Used(T, c) : T[i].key # NoKey => new[i] = T[i].key
    BY <1>3, <1>4, <1>7 DEF Used
  <2>4. ASSUME NEW q \in Keys, NEW x \in Slots(c),
               Probe(q, x, c) \in Used(T, c), new[Probe(q, x, c)] = q
        PROVE  \A e \in 0 .. x - 1 : T[Probe(q, e, c)] # Empty
    <3>1. CASE Probe(q, x, c) = s
      <4>1. q = k
        BY <2>4, <3>1
      <4>2. x = d
        BY <4>1, <3>1, <1>2, ProbeInjective
      <4> QED BY <4>1, <4>2, <1>2, <1>6
    <3>2. CASE Probe(q, x, c) # s
      BY <2>4, <3>2, <1>3, <1>6, <1>7
    <3> QED BY <3>1, <3>2
  <2> HIDE DEF new
  <2>5. Owners(new, T, c)
    BY <2>1, <2>2, <2>3, <2>4 DEF Owners
  <2> QED BY <2>5 DEF Owned
<1>10. CASE \E t \in Used(es, c) : t # s /\ own[t] = k
  <2>1. PICK t \in Used(es, c) : t # s /\ own[t] = k
    BY <1>10
  <2>2. t \in Slots(c) /\ es[t] # Empty
    BY DEF Used
  <2>3. PICK y \in Slots(c) : Probe(k, y, c) = t
    BY <2>2, ProbeOnto
  <2>4. \A e \in 0 .. y - 1 : es[Probe(k, e, c)] # Empty
    BY <2>1, <2>3, <1>7
  <2>5. es[s].key = NoKey /\ ~Has(es, c, k)
    <3> SUFFICES ASSUME es[s].key # NoKey PROVE FALSE
      BY <1>2
    <3>1. s \in Used(es, c) /\ es[s].key = k
      BY <1>2, <1>3, EmptyKey DEF Used
    <3> QED BY <3>1, <2>1, <1>4, <1>7
  <2>6. es[t].key = NoKey
    BY <2>1, <2>2, <2>5, <1>7 DEF Has
  <2>7. d <= y
    <3>1. PICK z \in Slots(c) : z <= y /\ s = Probe(k, z, c)
      BY <2>2, <2>3, <2>4, <2>5, <2>6, FindEntryFirst DEF s
    <3>2. z = d
      BY <3>1, <1>2, ProbeInjective
    <3> QED BY <3>1, <3>2
  <2>8. d # y
    BY <2>1, <2>3, <1>2
  <2>9. s \in Used(es, c)
    <3>1. d \in 0 .. y - 1
      BY <2>7, <2>8 DEF Slots
    <3> QED BY <3>1, <2>4, <1>2, <1>3 DEF Used
  <2>10. Used(T, c) = Used(es, c)
    BY <2>9, <1>3
  <2> DEFINE other == own[s]
             new == [i \in Used(es, c) |-> IF i = s THEN k ELSE IF i = t THEN other ELSE own[i]]
  <2>11. other \in Keys /\ other # k
    BY <2>1, <2>9, <1>7
  <2>12. new \in [Used(es, c) -> Keys]
    BY <2>11, <1>7
  <2>13. \A i, j \in Used(es, c) : new[i] = new[j] => i = j
    BY <2>1, <2>9, <2>11, <1>7
  <2>14. \A i \in Used(es, c) : T[i].key # NoKey => new[i] = T[i].key
    BY <2>1, <2>6, <2>10, <1>3, <1>4, <1>7 DEF Used
  <2>15. ASSUME NEW q \in Keys, NEW x \in Slots(c),
                Probe(q, x, c) \in Used(es, c), new[Probe(q, x, c)] = q
         PROVE  \A e \in 0 .. x - 1 : es[Probe(q, e, c)] # Empty
    <3>1. CASE Probe(q, x, c) = s
      <4>1. q = k
        BY <2>15, <3>1
      <4>2. x = d
        BY <4>1, <3>1, <1>2, ProbeInjective
      <4> QED BY <4>1, <4>2, <1>2
    <3>2. CASE Probe(q, x, c) = t
      <4>1. q = other
        BY <2>1, <2>15, <3>2
      <4>2. PICK w \in Slots(c) : Probe(q, w, c) = s
        BY <1>3, ProbeOnto
      <4>3. \A e \in 0 .. w - 1 : es[Probe(q, e, c)] # Empty
        BY <4>1, <4>2, <2>9, <1>7
      <4> SUFFICES ASSUME NEW e \in 0 .. x - 1
                   PROVE  es[Probe(q, e, c)] # Empty
        OBVIOUS
      <4>4. CASE e < w
        <5>1. e \in 0 .. w - 1
          BY <4>4 DEF Slots
        <5> QED BY <5>1, <4>3
      <4>5. CASE ~(e < w)
        <5>1. PICK f \in 0 .. y - 1 : Probe(q, e, c) = Probe(k, f, c)
          BY <4>2, <4>5, <3>2, <2>3, <2>7, <1>2, ProbesMeet
        <5> QED BY <5>1, <2>4
      <4> QED BY <4>4, <4>5
    <3>3. CASE Probe(q, x, c) # s /\ Probe(q, x, c) # t
      BY <2>15, <3>3, <1>7
    <3> QED BY <3>1, <3>2, <3>3
  <2> HIDE DEF new, other
  <2>16. Owners(new, T, c)
    BY <2>10, <2>12, <2>13, <2>14, <2>15, <1>6 DEF Owners
  <2> QED BY <2>16 DEF Owned
<1> QED BY <1>7, <1>8, <1>9, <1>10

\* A tombstone is owned by the key it was (rm_map).
LEMMA TombstoneOwned ==
  ASSUME NEW c \in Nat, NEW es, Table(es, c), NEW s \in Slots(c), es[s].key # NoKey,
         Owned(es, c)
  PROVE  Owned([es EXCEPT ![s] = Tombstone], c)
<1> DEFINE T == [es EXCEPT ![s] = Tombstone]
<1>1. PICK own : Owners(own, es, c)
  BY DEF Owned
<1>2. /\ Used(T, c) = Used(es, c)
      /\ T[s] = Tombstone
      /\ \A i \in Slots(c) : i # s => T[i] = es[i]
  BY TombstoneTable DEF Table
<1> HIDE DEF T
<1>3. \A i \in Slots(c) : es[i] # Empty => T[i] # Empty
  BY <1>2, EmptyKey
<1>4. \A q \in Keys, x \in Slots(c) :
        (\A e \in 0 .. x - 1 : es[Probe(q, e, c)] # Empty) =>
          \A e \in 0 .. x - 1 : T[Probe(q, e, c)] # Empty
  <2> SUFFICES ASSUME NEW q \in Keys, NEW x \in Slots(c), NEW e \in 0 .. x - 1,
                      es[Probe(q, e, c)] # Empty
               PROVE  T[Probe(q, e, c)] # Empty
    OBVIOUS
  <2>1. e \in Slots(c)
    BY DEF Slots
  <2>2. Probe(q, e, c) \in Slots(c)
    BY <2>1, ProbeType
  <2> QED BY <2>2, <1>3
<1>5. \A i \in Used(T, c) : T[i].key # NoKey => own[i] = T[i].key
  BY <1>1, <1>2, EmptyKey DEF Owners, Used
<1>6. Owners(own, T, c)
  BY <1>1, <1>2, <1>4, <1>5 DEF Owners
<1>7. Owned(T, c)
  BY <1>6 DEF Owned
<1> QED BY <1>7 DEF T

\* Without tombstones the keys own their slots.
LEMMA NoTombstonesOwned ==
  ASSUME NEW c \in Nat, NEW es, Table(es, c),
         \A i \in Slots(c) : es[i].key = NoKey => es[i] = Empty
  PROVE  Owned(es, c)
<1> DEFINE own == [i \in Used(es, c) |-> es[i].key]
<1>1. own \in [Used(es, c) -> Keys]
  BY DEF Used, Table, EntryType
<1>2. \A i, j \in Used(es, c) : own[i] = own[j] => i = j
  BY DEF Used, Table, Unique
<1>3. Owners(own, es, c)
  BY <1>1, <1>2 DEF Owners, Table, Unbroken
<1> QED BY <1>3 DEF Owned

OInv == IInv /\ Owned(entries, cap)

\* Every step leaves the used slots owned.
LEMMA NextOInv == OInv /\ [Next]_vars => OInv'
<1> SUFFICES ASSUME OInv, [Next]_vars PROVE Owned(entries, cap)'
  BY NextIInv DEF OInv
<1>1. IInv /\ Owned(entries, cap) /\ cap \in Nat /\ Table(entries, cap)
  BY DEF OInv, IInv, TypeOK
<1>2. UNCHANGED <<entries, cap>> => Owned(entries, cap)'
  BY <1>1
<1>3. ASSUME NEW k \in Keys, NEW v \in Values, Put(k, v)
      PROVE  Owned(entries, cap)'
  <2> DEFINE T == [entries EXCEPT ![FindEntry(entries, cap, k)] = Entry(k, v)]
  <2>1. cap' = cap /\ entries' = T /\ ~Overloaded(len, cap)
    BY <1>3 DEF Put, Store
  <2>2. cap # 0
    BY <2>1, <1>1 DEF IInv, TypeOK, Overloaded
  <2>3. Owned(T, cap)
    BY <2>2, <1>1, Holes, StoreOwned
  <2> HIDE DEF T
  <2> QED BY <2>1, <2>3
<1>4. ASSUME NEW k \in Keys, NEW v \in Values, PutGrow(k, v)
      PROVE  Owned(entries, cap)'
  BY <1>2, <1>4 DEF PutGrow
<1>5. ASSUME NEW k \in Keys, Get(k)
      PROVE  Owned(entries, cap)'
  BY <1>2, <1>5 DEF Get
<1>6. ASSUME NEW k \in Keys, Rm(k)
      PROVE  Owned(entries, cap)'
  <2> DEFINE s == FindEntry(entries, cap, k)
             found == len # 0 /\ entries[s].key # NoKey
             T == [entries EXCEPT ![s] = Tombstone]
  <2>1. pc = "idle" /\ cap' = cap /\ entries' = IF found THEN T ELSE entries
    BY <1>6 DEF Rm
  <2>2. CASE found
    <3>1. cap # 0
      BY <2>1, <2>2, <1>1 DEF IInv, TypeOK
    <3>2. s \in Slots(cap)
      BY <3>1, <1>1, Holes, FindEntryOK, ProbeType
    <3> HIDE DEF s
    <3>3. Owned(T, cap)
      BY <3>2, <2>2, <1>1, TombstoneOwned
    <3> HIDE DEF T
    <3> QED BY <3>3, <2>1, <2>2
  <2>3. CASE ~found
    BY <2>1, <2>3, <1>2
  <2> QED BY <2>2, <2>3
<1>7. CASE Rehash
  BY <1>2, <1>7 DEF Rehash
<1>8. CASE PutEnd
  <2> DEFINE c == Grow(cap)
             T == [fresh EXCEPT ![FindEntry(fresh, c, pending.key)]
                                  = Entry(pending.key, pending.value)]
  <2>1. pc = "rehash" /\ cap' = c /\ entries' = T
    BY <1>8 DEF PutEnd, Store
  <2>2. pending.key \in Keys /\ pending.value \in Values /\ RehashOK
    BY <2>1, <1>1 DEF IInv, TypeOK, EntryType
  <2>3. c \in Nat /\ HasHole(fresh, c) /\ Table(fresh, c)
    BY <2>1, <2>2, <1>1, GrowType, Holes DEF RehashOK
  <2>4. Owned(fresh, c)
    BY <2>2, <2>3, NoTombstonesOwned DEF RehashOK
  <2>5. Owned(T, c)
    BY <2>2, <2>3, <2>4, StoreOwned
  <2> HIDE DEF T, c
  <2> QED BY <2>1, <2>5
<1>9. CASE UNCHANGED vars
  BY <1>2, <1>9 DEF vars
<1> QED BY <1>3, <1>4, <1>5, <1>6, <1>7, <1>8, <1>9 DEF Next

\* However long the sequence of puts and removals, it never uses more slots than
\* there are keys (find_map_entry reuses tombstones).
THEOREM TombstonesAreReused == Spec => []TombstonesBounded
<1>1. Init => OInv
  <2> SUFFICES ASSUME Init PROVE Owned(entries, cap)
    BY InitIInv DEF OInv
  <2>1. cap = 0 /\ entries = EmptyTable(0) /\ Table(entries, cap)
    BY EmptyTableOK DEF Init
  <2> QED BY <2>1, NoTombstonesOwned DEF Slots
<1>2. OInv => TombstonesBounded
  BY OwnedBound DEF OInv, IInv, TypeOK, TombstonesBounded
<1> QED BY <1>1, <1>2, NextOInv, PTL DEF Spec

(***************************************************************************)
(* The table implements the partial function of AbstractMap.               *)
(*                                                                         *)
(* The abstract map is what the array says (ContentsOf).  Each call does   *)
(* to it what AbstractMap's does, and the steps of a growth leave it       *)
(* alone, since they write another array.  When put_map goes on with that  *)
(* array it says the same as the old one: adjust_cap has moved every entry *)
(* and no others (Copied), which the invariant above does not say, for it  *)
(* speaks of keys only.                                                    *)
(***************************************************************************)

(***************************************************************************)
(* What an array says.                                                     *)
(***************************************************************************)
StoredIn(es, c) == {es[i].key : i \in Keyed(es, c)}
ContentsOf(es, c) ==
  [k \in StoredIn(es, c) |-> es[CHOOSE i \in Slots(c) : es[i].key = k].value]

\* The mapping of HashMap, in these terms.
LEMMA ContentsIs == /\ Contents = ContentsOf(entries, cap)
                    /\ Contents' = ContentsOf(entries', cap')
  BY DEF Contents, Stored, ContentsOf, StoredIn

\* A key is in the map if some slot holds it.
LEMMA StoredHas ==
  ASSUME NEW c, NEW es, NEW k
  PROVE  k \in StoredIn(es, c) <=> k # NoKey /\ Has(es, c, k)
  BY DEF StoredIn, Keyed, Has, Slots

\* The map has the value of the slot that holds the key, for no other does.
LEMMA ContentsAt ==
  ASSUME NEW c, NEW es, Unique(es, c), NEW i \in Slots(c), es[i].key # NoKey
  PROVE  /\ es[i].key \in StoredIn(es, c)
         /\ ContentsOf(es, c)[es[i].key] = es[i].value
<1>1. es[i].key \in StoredIn(es, c)
  BY StoredHas DEF Has
<1> DEFINE j == CHOOSE j \in Slots(c) : es[j].key = es[i].key
<1>2. j \in Slots(c) /\ es[j].key = es[i].key
  OBVIOUS
<1>3. j = i
  BY <1>2 DEF Unique
<1>4. ContentsOf(es, c)[es[i].key] = es[j].value
  BY <1>1 DEF ContentsOf
<1> QED BY <1>1, <1>3, <1>4

\* Two tables with the same pairs say the same.
LEMMA SamePairs ==
  ASSUME NEW c, NEW es, Unique(es, c), NEW d, NEW fs, Unique(fs, d),
         \A i \in Slots(c) : es[i].key # NoKey =>
            \E j \in Slots(d) : fs[j].key = es[i].key /\ fs[j].value = es[i].value,
         \A j \in Slots(d) : fs[j].key # NoKey =>
            \E i \in Slots(c) : es[i].key = fs[j].key /\ es[i].value = fs[j].value
  PROVE  ContentsOf(es, c) = ContentsOf(fs, d)
<1>1. StoredIn(es, c) = StoredIn(fs, d)
  BY DEF StoredIn, Keyed, Slots
<1>2. ASSUME NEW k \in StoredIn(es, c)
      PROVE  ContentsOf(es, c)[k] = ContentsOf(fs, d)[k]
  <2>1. PICK i \in Slots(c) : es[i].key = k /\ k # NoKey
    BY StoredHas DEF Has
  <2>2. PICK j \in Slots(d) : fs[j].key = k /\ fs[j].value = es[i].value
    BY <2>1
  <2> QED BY <2>1, <2>2, ContentsAt
<1>3. /\ ContentsOf(es, c) = [k \in StoredIn(es, c) |-> ContentsOf(es, c)[k]]
      /\ ContentsOf(fs, d) = [k \in StoredIn(fs, d) |-> ContentsOf(fs, d)[k]]
  BY DEF ContentsOf
<1> HIDE DEF ContentsOf
<1> QED BY <1>1, <1>2, <1>3

(***************************************************************************)
(* The calls on what the array says.                                       *)
(***************************************************************************)
\* What a search finds: the pair of the key, if it is stored.
LEMMA FindContents ==
  ASSUME NEW c \in Nat, NEW es, Table(es, c), NEW k \in Keys, HasHole(es, c)
  PROVE  LET s == FindEntry(es, c, k)
         IN  /\ s \in Slots(c)
             /\ es[s].key # NoKey <=> k \in StoredIn(es, c)
             /\ es[s].key # NoKey => es[s].key = k /\ es[s].value = ContentsOf(es, c)[k]
<1> DEFINE s == FindEntry(es, c, k)
<1>1. PICK d \in Slots(c) :
        /\ s = Probe(k, d, c)
        /\ es[s].key \in {k, NoKey}
        /\ es[s].key = NoKey => ~Has(es, c, k)
  BY FindEntryOK
<1>2. s \in Slots(c)
  BY <1>1, ProbeType
<1> HIDE DEF s
<1>3. k # NoKey
  BY KeysAssumption
<1>4. es[s].key # NoKey <=> k \in StoredIn(es, c)
  BY <1>1, <1>2, <1>3, StoredHas DEF Has
<1>5. es[s].key # NoKey => es[s].key = k /\ es[s].value = ContentsOf(es, c)[k]
  BY <1>1, <1>2, ContentsAt DEF Table
<1> QED BY <1>2, <1>4, <1>5 DEF s

\* Storing a pair where the search for its key ended (the end of put_map).
LEMMA StoreContents ==
  ASSUME NEW c \in Nat, NEW es, Table(es, c), NEW k \in Keys, NEW v \in Values,
         HasHole(es, c)
  PROVE  LET T == [es EXCEPT ![FindEntry(es, c, k)] = Entry(k, v)]
         IN  ContentsOf(T, c) = [x \in StoredIn(es, c) \cup {k} |->
                                   IF x = k THEN v ELSE ContentsOf(es, c)[x]]
<1> DEFINE s == FindEntry(es, c, k)
           T == [es EXCEPT ![s] = Entry(k, v)]
<1>1. /\ s \in Slots(c)
      /\ Table(T, c)
      /\ T[s] = Entry(k, v)
      /\ es[s].key \in {k, NoKey}
  BY StoreTable
<1>2. \A i \in Slots(c) : i # s => T[i] = es[i]
  BY <1>1 DEF Table
<1>3. k # NoKey /\ Entry(k, v).key = k /\ Entry(k, v).value = v
  BY KeysAssumption DEF Entry
<1>4. Unique(es, c) /\ Unique(T, c)
  BY <1>1 DEF Table
<1> HIDE DEF T, s
<1>5. \A x : x # k => (Has(T, c, x) /\ x # NoKey <=> Has(es, c, x) /\ x # NoKey)
  BY <1>1, <1>2, <1>3 DEF Has
<1>6. StoredIn(T, c) = StoredIn(es, c) \cup {k}
  <2>1. k \in StoredIn(T, c)
    BY <1>1, <1>3, StoredHas DEF Has
  <2>2. \A x : x # k => (x \in StoredIn(T, c) <=> x \in StoredIn(es, c))
    BY <1>5, StoredHas
  <2> QED BY <2>1, <2>2
<1>7. ASSUME NEW x \in StoredIn(T, c)
      PROVE  ContentsOf(T, c)[x] = IF x = k THEN v ELSE ContentsOf(es, c)[x]
  <2>1. PICK i \in Slots(c) : T[i].key = x /\ x # NoKey
    BY StoredHas DEF Has
  <2>2. ContentsOf(T, c)[x] = T[i].value
    BY <2>1, <1>4, ContentsAt
  <2>3. CASE x = k
    <3>1. i = s
      BY <2>1, <2>3, <1>1, <1>3, <1>4 DEF Unique
    <3> QED BY <3>1, <2>2, <2>3, <1>1, <1>3
  <2>4. CASE x # k
    <3>1. T[i] = es[i]
      BY <2>1, <2>4, <1>1, <1>2, <1>3
    <3> QED BY <3>1, <2>1, <2>2, <2>4, <1>4, ContentsAt
  <2> QED BY <2>3, <2>4
<1>8. ContentsOf(T, c) = [x \in StoredIn(T, c) |-> ContentsOf(T, c)[x]]
  BY DEF ContentsOf
<1>9. ContentsOf(T, c) = [x \in StoredIn(es, c) \cup {k} |->
                            IF x = k THEN v ELSE ContentsOf(es, c)[x]]
  <2> HIDE DEF ContentsOf
  <2> QED BY <1>6, <1>7, <1>8
<1> QED BY <1>9 DEF T, s

\* Turning a stored key into a tombstone (rm_map).
LEMMA TombstoneContents ==
  ASSUME NEW c \in Nat, NEW es, Table(es, c), NEW s \in Slots(c), es[s].key # NoKey
  PROVE  ContentsOf([es EXCEPT ![s] = Tombstone], c)
           = [x \in StoredIn(es, c) \ {es[s].key} |-> ContentsOf(es, c)[x]]
<1> DEFINE T == [es EXCEPT ![s] = Tombstone]
           k == es[s].key
<1>1. Table(T, c) /\ Unique(T, c) /\ Unique(es, c)
  BY TombstoneTable DEF Table
<1>2. T[s] = Tombstone /\ \A i \in Slots(c) : i # s => T[i] = es[i]
  BY DEF Table
<1> HIDE DEF T
<1>3. \A x : x # NoKey => (Has(T, c, x) <=> Has(es, c, x) /\ x # k)
  BY <1>1, <1>2, EmptyKey DEF Has, Unique
<1>4. StoredIn(T, c) = StoredIn(es, c) \ {k}
  BY <1>3, StoredHas
<1>5. ASSUME NEW x \in StoredIn(T, c)
      PROVE  ContentsOf(T, c)[x] = ContentsOf(es, c)[x]
  <2>1. PICK i \in Slots(c) : T[i].key = x /\ x # NoKey
    BY StoredHas DEF Has
  <2>2. T[i] = es[i]
    BY <2>1, <1>2, EmptyKey
  <2> QED BY <2>1, <2>2, <1>1, ContentsAt
<1>6. ContentsOf(T, c) = [x \in StoredIn(T, c) |-> ContentsOf(T, c)[x]]
  BY DEF ContentsOf
<1>7. ContentsOf(T, c) = [x \in StoredIn(es, c) \ {k} |-> ContentsOf(es, c)[x]]
  <2> HIDE DEF ContentsOf
  <2> QED BY <1>4, <1>5, <1>6
<1> QED BY <1>7 DEF T

(***************************************************************************)
(* The invariant: adjust_cap moves what it passes, and nothing else.       *)
(***************************************************************************)
Copied ==
  pc = "rehash" =>
    /\ \A i \in Slots(Grow(cap)) :
         fresh[i].key # NoKey => \E j \in 0 .. pos - 1 : entries[j] = fresh[i]
    /\ \A j \in 0 .. pos - 1 :
         entries[j].key # NoKey => \E i \in Slots(Grow(cap)) : fresh[i] = entries[j]

CInv == IInv /\ Copied

\* One iteration of adjust_cap's loop moves one entry more.
LEMMA RehashCopied ==
  ASSUME CInv, Rehash
  PROVE  Copied'
<1> DEFINE c == Grow(cap)
           key == entries[pos].key
           s == FindEntry(fresh, c, key)
<1>1. /\ pc = "rehash" /\ cap' = cap /\ entries' = entries
      /\ pos < cap /\ pos' = pos + 1
      /\ key = NoKey => fresh' = fresh
      /\ key # NoKey => fresh' = [fresh EXCEPT ![s] = entries[pos]]
  BY DEF Rehash
<1>2. /\ cap \in Nat /\ pos \in Nat /\ pos \in Slots(cap)
      /\ c \in Nat /\ HasHole(fresh, c) /\ Table(fresh, c)
      /\ Unique(entries, cap) /\ entries \in [Slots(cap) -> EntryType]
  <2>1. cap \in Nat /\ pos \in 0 .. cap /\ IInv
    BY DEF CInv, IInv, TypeOK
  <2>2. c \in Nat /\ HasHole(fresh, c)
    BY <2>1, <1>1, GrowType, Holes
  <2>3. Table(fresh, c) /\ Table(entries, cap)
    BY <2>1, <1>1 DEF IInv, RehashOK
  <2>4. pos \in Nat /\ pos \in Slots(cap)
    BY <2>1, <1>1 DEF Slots
  <2> QED BY <2>1, <2>2, <2>3, <2>4 DEF Table
<1>3. /\ \A i \in Slots(c) :
           fresh[i].key # NoKey => \E j \in 0 .. pos - 1 : entries[j] = fresh[i]
      /\ \A j \in 0 .. pos - 1 :
           entries[j].key # NoKey => \E i \in Slots(c) : fresh[i] = entries[j]
  BY <1>1 DEF CInv, Copied
<1>4. 0 .. pos' - 1 = (0 .. pos - 1) \cup {pos} /\ pos \notin 0 .. pos - 1
  BY <1>1, <1>2
<1>5. CASE key = NoKey
  BY <1>5, <1>1, <1>3, <1>4 DEF Copied
<1>6. CASE key # NoKey
  <2>1. key \in Keys
    BY <1>2, <1>6 DEF EntryType
  <2>2. s \in Slots(c) /\ fresh[s].key \in {key, NoKey}
    <3>1. PICK d \in Slots(c) : s = Probe(key, d, c) /\ fresh[s].key \in {key, NoKey}
      BY <2>1, <1>2, FindEntryOK
    <3> QED BY <3>1, <2>1, <1>2, ProbeType
  <2>3. fresh[s].key = NoKey
    <3> SUFFICES ASSUME fresh[s].key # NoKey PROVE FALSE
      OBVIOUS
    <3>1. PICK j \in 0 .. pos - 1 : entries[j] = fresh[s]
      BY <2>2, <1>3
    <3>2. j \in Slots(cap) /\ j # pos
      BY <3>1, <1>1, <1>2 DEF Slots
    <3> QED BY <3>1, <3>2, <2>2, <1>2 DEF Unique
  <2>4. /\ fresh'[s] = entries[pos]
        /\ \A i \in Slots(c) : i # s => fresh'[i] = fresh[i]
    BY <2>2, <1>1, <1>2, <1>6 DEF Table
  <2>5. ASSUME NEW i \in Slots(c), fresh'[i].key # NoKey
        PROVE  \E j \in 0 .. pos' - 1 : entries[j] = fresh'[i]
    BY <2>4, <2>5, <1>3, <1>4
  <2>6. ASSUME NEW j \in 0 .. pos' - 1, entries[j].key # NoKey
        PROVE  \E i \in Slots(c) : fresh'[i] = entries[j]
    <3>1. CASE j = pos
      BY <3>1, <2>2, <2>4
    <3>2. CASE j # pos
      <4>1. PICK i \in Slots(c) : fresh[i] = entries[j]
        BY <3>2, <2>6, <1>3, <1>4
      <4>2. i # s
        BY <4>1, <2>3, <2>6
      <4> QED BY <4>1, <4>2, <2>4
    <3> QED BY <3>1, <3>2
  <2> QED BY <2>5, <2>6, <1>1 DEF Copied
<1> QED BY <1>5, <1>6

\* The other steps are outside of adjust_cap's loop, or at its beginning.
LEMMA NextCInv == CInv /\ [Next]_vars => CInv'
<1> SUFFICES ASSUME CInv, [Next]_vars PROVE Copied'
  BY NextIInv DEF CInv
<1>1. ASSUME NEW k \in Keys, NEW v \in Values, Put(k, v) PROVE Copied'
  BY <1>1 DEF Put, Copied
<1>2. ASSUME NEW k \in Keys, NEW v \in Values, PutGrow(k, v) PROVE Copied'
  <2>1. cap' = cap /\ fresh' = EmptyTable(Grow(cap)) /\ pos' = 0
    BY <1>2 DEF PutGrow
  <2>2. \A i \in Slots(Grow(cap)) : fresh'[i].key = NoKey
    BY <2>1, EmptyKey DEF EmptyTable
  <2> QED BY <2>1, <2>2 DEF Copied
<1>3. ASSUME NEW k \in Keys, Get(k) PROVE Copied'
  BY <1>3 DEF Get, Copied
<1>4. ASSUME NEW k \in Keys, Rm(k) PROVE Copied'
  BY <1>4 DEF Rm, Copied
<1>5. CASE Rehash
  BY <1>5, RehashCopied
<1>6. CASE PutEnd
  BY <1>6 DEF PutEnd, Copied
<1>7. CASE UNCHANGED vars
  BY <1>7 DEF vars, CInv, Copied
<1> QED BY <1>1, <1>2, <1>3, <1>4, <1>5, <1>6, <1>7 DEF Next

(***************************************************************************)
(* Every step of the table is a step of the abstract map, or none.         *)
(***************************************************************************)
LEMMA InitMaps == Init => Abstract!Init
<1> SUFFICES ASSUME Init PROVE Abstract!Init
  OBVIOUS
<1>1. Keyed(entries, cap) = {} /\ ret = NoAnswer
  BY DEF Init, Keyed
<1>2. Contents = [k \in {} |-> NoAnswer]
  BY <1>1 DEF Contents, Stored
<1> QED BY <1>1, <1>2 DEF Abstract!Init

\* A put without growth is a put of the partial function.
LEMMA PutMaps ==
  ASSUME IInv, NEW k \in Keys, NEW v \in Values, Put(k, v)
  PROVE  Abstract!Put(k, v)
<1> DEFINE s == FindEntry(entries, cap, k)
<1>1. /\ pc = "idle" /\ cap' = cap /\ ~Overloaded(len, cap)
      /\ entries' = [entries EXCEPT ![s] = Entry(k, v)]
      /\ ret' = Answer("put", k, entries[s].key = NoKey, v)
  BY DEF Put, Store
<1>2. cap \in Nat /\ len \in Nat /\ Table(entries, cap) /\ cap # 0
  BY <1>1 DEF IInv, TypeOK, Overloaded
<1>3. HasHole(entries, cap)
  BY <1>2, Holes
<1>4. ContentsOf(entries', cap') = [x \in StoredIn(entries, cap) \cup {k} |->
                                      IF x = k THEN v ELSE ContentsOf(entries, cap)[x]]
  <2> DEFINE T == [entries EXCEPT ![s] = Entry(k, v)]
  <2>1. ContentsOf(T, cap) = [x \in StoredIn(entries, cap) \cup {k} |->
                                IF x = k THEN v ELSE ContentsOf(entries, cap)[x]]
    BY <1>2, <1>3, StoreContents
  <2>2. entries' = T /\ cap' = cap
    BY <1>1
  <2> HIDE DEF T
  <2> QED BY <2>1, <2>2
<1>5. entries[s].key # NoKey <=> k \in StoredIn(entries, cap)
  BY <1>2, <1>3, FindContents
<1>6. DOMAIN Contents = StoredIn(entries, cap)
  BY DEF Contents, Stored, StoredIn
<1> HIDE DEF s
<1>7. ret' = Abstract!Answer("put", k, k \notin DOMAIN Contents, v)
  BY <1>1, <1>5, <1>6 DEF Answer, Abstract!Answer
<1> QED BY <1>4, <1>6, <1>7, ContentsIs DEF Abstract!Put

\* A search in a table that may have no slots at all: get_map and rm_map look at
\* len first.
LEMMA LookMaps ==
  ASSUME IInv, pc = "idle", NEW k \in Keys
  PROVE  LET s     == FindEntry(entries, cap, k)
             found == len # 0 /\ entries[s].key # NoKey
         IN  /\ found <=> k \in DOMAIN Contents
             /\ found => /\ s \in Slots(cap) /\ entries[s].key = k
                         /\ entries[s].value = Contents[k]
<1> DEFINE s == FindEntry(entries, cap, k)
           found == len # 0 /\ entries[s].key # NoKey
<1>1. /\ cap \in Nat /\ Table(entries, cap) /\ len = Cardinality(Used(entries, cap))
      /\ len \in Nat /\ 4 * len <= 3 * cap
  BY DEF IInv, TypeOK
<1>2. DOMAIN Contents = StoredIn(entries, cap)
  BY ContentsIs DEF ContentsOf
<1>3. CASE len = 0
  <2>1. Used(entries, cap) = {}
    BY <1>1, <1>3, UsedFinite, FS_EmptySet
  <2>2. StoredIn(entries, cap) = {}
    BY <2>1, EmptyKey DEF Used, StoredIn, Keyed, Slots
  <2>3. k \notin DOMAIN Contents
    BY <2>2, <1>2
  <2> QED BY <2>3, <1>3
<1>4. CASE len # 0
  <2>1. cap # 0
    BY <1>1, <1>4
  <2>2. HasHole(entries, cap)
    BY <2>1, Holes
  <2>3. /\ s \in Slots(cap)
        /\ entries[s].key # NoKey <=> k \in StoredIn(entries, cap)
        /\ entries[s].key # NoKey => entries[s].key = k
                                     /\ entries[s].value = ContentsOf(entries, cap)[k]
    BY <2>2, <1>1, FindContents
  <2>4. ContentsOf(entries, cap)[k] = Contents[k]
    BY ContentsIs
  <2> QED BY <2>3, <2>4, <1>2, <1>4
<1> QED BY <1>3, <1>4

\* get_map answers with what the abstract map holds.
LEMMA GetMaps ==
  ASSUME IInv, NEW k \in Keys, Get(k)
  PROVE  Abstract!Get(k)
<1> DEFINE s     == FindEntry(entries, cap, k)
           found == len # 0 /\ entries[s].key # NoKey
<1>1. /\ pc = "idle" /\ UNCHANGED <<entries, cap>>
      /\ ret' = Answer("get", k, found, IF found THEN entries[s].value ELSE NoAnswer)
  BY DEF Get
<1>2. /\ found <=> k \in DOMAIN Contents
      /\ found => entries[s].value = Contents[k]
  BY <1>1, LookMaps
<1> HIDE DEF found, s
<1>3. Contents' = Contents
  BY <1>1, ContentsIs
<1>4. ret' = IF k \in DOMAIN Contents
             THEN Abstract!Answer("get", k, TRUE, Contents[k])
             ELSE Abstract!Answer("get", k, FALSE, NoAnswer)
  <2>1. CASE found
    BY <2>1, <1>1, <1>2 DEF Answer, Abstract!Answer
  <2>2. CASE ~found
    BY <2>2, <1>1, <1>2 DEF Answer, Abstract!Answer, found
  <2> QED BY <2>1, <2>2
<1> QED BY <1>3, <1>4 DEF Abstract!Get

\* rm_map takes the key out of the abstract map.
LEMMA RmMaps ==
  ASSUME IInv, NEW k \in Keys, Rm(k)
  PROVE  Abstract!Rm(k)
<1> DEFINE s     == FindEntry(entries, cap, k)
           found == len # 0 /\ entries[s].key # NoKey
           T     == [entries EXCEPT ![s] = Tombstone]
<1>1. /\ pc = "idle" /\ cap' = cap
      /\ ret' = Answer("rm", k, found, NoAnswer)
      /\ entries' = IF found THEN T ELSE entries
  BY DEF Rm
<1>2. /\ found <=> k \in DOMAIN Contents
      /\ found => s \in Slots(cap) /\ entries[s].key = k
  BY <1>1, LookMaps
<1>3. cap \in Nat /\ Table(entries, cap) /\ k # NoKey
  BY KeysAssumption DEF IInv, TypeOK
<1>4. DOMAIN Contents = StoredIn(entries, cap)
  BY ContentsIs DEF ContentsOf
<1> HIDE DEF found, s
<1>5. Contents' = [x \in DOMAIN Contents \ {k} |-> Contents[x]]
  <2>1. CASE found
    <3>1. ContentsOf(T, cap) = [x \in StoredIn(entries, cap) \ {k} |-> ContentsOf(entries, cap)[x]]
      BY <2>1, <1>2, <1>3, TombstoneContents
    <3> HIDE DEF T
    <3> QED BY <3>1, <2>1, <1>1, <1>4, ContentsIs
  <2>2. CASE ~found
    <3>1. DOMAIN Contents \ {k} = DOMAIN Contents
      BY <2>2, <1>2
    <3>2. Contents' = Contents
      BY <2>2, <1>1, ContentsIs
    <3>3. Contents = [x \in DOMAIN Contents |-> Contents[x]]
      BY DEF Contents
    <3> QED BY <3>1, <3>2, <3>3
  <2> QED BY <2>1, <2>2
<1>6. ret' = Abstract!Answer("rm", k, k \in DOMAIN Contents, NoAnswer)
  BY <1>1, <1>2 DEF Answer, Abstract!Answer, found
<1> QED BY <1>5, <1>6 DEF Abstract!Rm

\* put_map goes on with an array that says what the old one said.
LEMMA PutEndMaps ==
  ASSUME CInv, PutEnd
  PROVE  Abstract!Put(pending.key, pending.value)
<1> DEFINE c == Grow(cap)
           k == pending.key
           v == pending.value
           s == FindEntry(fresh, c, k)
           T == [fresh EXCEPT ![s] = Entry(k, v)]
<1>1. /\ pc = "rehash" /\ pos = cap /\ cap' = c /\ entries' = T
      /\ ret' = Answer("put", k, fresh[s].key = NoKey, v)
  BY DEF PutEnd, Store
<1>2. /\ cap \in Nat /\ k \in Keys /\ v \in Values
      /\ IInv /\ Table(entries, cap) /\ Table(fresh, c)
  BY <1>1 DEF CInv, IInv, TypeOK, RehashOK, EntryType
<1>3. c \in Nat /\ HasHole(fresh, c)
  BY <1>1, <1>2, GrowType, Holes
<1>4. ContentsOf(fresh, c) = ContentsOf(entries, cap)
  <2>1. /\ \A i \in Slots(c) :
             fresh[i].key # NoKey => \E j \in Slots(cap) : entries[j] = fresh[i]
        /\ \A j \in Slots(cap) :
             entries[j].key # NoKey => \E i \in Slots(c) : fresh[i] = entries[j]
    BY <1>1 DEF CInv, Copied, Slots
  <2>2. Unique(entries, cap) /\ Unique(fresh, c)
    BY <1>2 DEF Table
  <2> HIDE DEF c
  <2> QED BY <2>1, <2>2, SamePairs
<1>5. StoredIn(fresh, c) = StoredIn(entries, cap)
  <2>1. DOMAIN ContentsOf(fresh, c) = DOMAIN ContentsOf(entries, cap)
    BY <1>4
  <2> QED BY <2>1 DEF ContentsOf
<1>6. DOMAIN Contents = StoredIn(entries, cap)
  BY ContentsIs DEF ContentsOf
<1>7. ContentsOf(T, c) = [x \in StoredIn(fresh, c) \cup {k} |->
                            IF x = k THEN v ELSE ContentsOf(fresh, c)[x]]
  BY <1>2, <1>3, StoreContents
<1>8. fresh[s].key # NoKey <=> k \in StoredIn(fresh, c)
  BY <1>2, <1>3, FindContents
<1> HIDE DEF T, s, c
<1>9. Contents' = [x \in DOMAIN Contents \cup {k} |-> IF x = k THEN v ELSE Contents[x]]
  BY <1>1, <1>4, <1>5, <1>6, <1>7, ContentsIs
<1>10. ret' = Abstract!Answer("put", k, k \notin DOMAIN Contents, v)
  BY <1>1, <1>5, <1>6, <1>8 DEF Answer, Abstract!Answer
<1> QED BY <1>9, <1>10 DEF Abstract!Put

\* Entering adjust_cap and its loop are invisible: the array in use and the last
\* answer stay.
LEMMA NextMaps == CInv /\ [Next]_vars => [Abstract!Next]_Abstract!vars
<1> SUFFICES ASSUME CInv, [Next]_vars
             PROVE  Abstract!Next \/ UNCHANGED Abstract!vars
  OBVIOUS
<1>0. IInv
  BY DEF CInv
<1>1. UNCHANGED <<entries, cap, ret>> => UNCHANGED Abstract!vars
  BY ContentsIs DEF Abstract!vars
<1>2. ASSUME NEW k \in Keys, NEW v \in Values, Put(k, v) PROVE Abstract!Next
  BY <1>0, <1>2, PutMaps DEF Abstract!Next
<1>3. ASSUME NEW k \in Keys, NEW v \in Values, PutGrow(k, v)
      PROVE  UNCHANGED Abstract!vars
  BY <1>1, <1>3 DEF PutGrow
<1>4. ASSUME NEW k \in Keys, Get(k) PROVE Abstract!Next
  BY <1>0, <1>4, GetMaps DEF Abstract!Next
<1>5. ASSUME NEW k \in Keys, Rm(k) PROVE Abstract!Next
  BY <1>0, <1>5, RmMaps DEF Abstract!Next
<1>6. CASE Rehash
  BY <1>1, <1>6 DEF Rehash
<1>7. CASE PutEnd
  <2>1. pending.key \in Keys /\ pending.value \in Values
    BY <1>0, <1>7 DEF PutEnd, IInv, TypeOK, EntryType
  <2> QED BY <2>1, <1>7, PutEndMaps DEF Abstract!Next
<1>8. CASE UNCHANGED vars
  BY <1>1, <1>8 DEF vars
<1> QED BY <1>2, <1>3, <1>4, <1>5, <1>6, <1>7, <1>8 DEF Next

(***************************************************************************)
(* Theorem.                                                                *)
(***************************************************************************)
\* put_map, get_map and rm_map do to the table, and answer, what the calls of a
\* partial function do; adjust_cap is never seen.
THEOREM Implements == Spec => ImplementsMap
<1>1. Init => CInv
  <2>1. Init => Copied
    BY DEF Init, Copied
  <2> QED BY <2>1, InitIInv DEF CInv
<1>2. Spec => []CInv
  BY <1>1, NextCInv, PTL DEF Spec
<1>3. Spec => Abstract!Spec
  BY <1>2, InitMaps, NextMaps, PTL DEF Spec, Abstract!Spec
<1> QED BY <1>3 DEF ImplementsMap
=============================================================================
