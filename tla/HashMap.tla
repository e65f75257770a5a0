------------------------------ MODULE HashMap ------------------------------
(***************************************************************************)
(* The open-addressing hash table of src/src/value.cpp (Map, MapEntry):    *)
(* linear probing, tombstones, growth at three quarters full.  The VM uses *)
(* one for its interned strings and one for the program's globals.         *)
(*                                                                         *)
(* get_map, rm_map and a put_map that does not grow are one step each.     *)
(* A put_map that grows runs adjust_cap, whose loop over the old entries   *)
(* is one step per entry: the half-filled new array is a state of its own, *)
(* and the caller sees the old entries until the last step swaps them.     *)
(***************************************************************************)
EXTENDS Integers, FiniteSets

CONSTANTS
  Keys,       \* interned strings, compared by address
  Values,     \* what an entry can hold
  Null,       \* NULL_VAL, the value of an entry never used
  TrueVal,    \* BOOL_VAL(true), the value of a tombstone
  NoKey,      \* the NULL key pointer
  NoAnswer,   \* before the first call returns, and the value of a failed get
  HashOf,     \* ObjString.hash of each key
  MinCap      \* the capacity of the first allocation (8 in the GROW macro)

ASSUME KeysAssumption   == NoKey \notin Keys /\ IsFiniteSet(Keys)
ASSUME ValuesAssumption == Null \in Values /\ TrueVal \in Values /\ Null # TrueVal
ASSUME HashAssumption   == HashOf \in [Keys -> Nat]
ASSUME CapAssumption    == MinCap \in Nat /\ MinCap >= 2

VARIABLES
  len,        \* Map.len: used slots, tombstones included
  cap,        \* Map.cap
  entries,    \* Map.entries: slot -> [key, value]
  pc,         \* "idle", or "rehash" inside adjust_cap
  fresh,      \* adjust_cap's new array
  pos,        \* adjust_cap's loop index
  pending,    \* the key and value put_map will store after adjust_cap
  ret         \* answer of the last call that returned

vars == <<len, cap, entries, pc, fresh, pos, pending, ret>>

(***************************************************************************)
(* Entries and probing.                                                    *)
(***************************************************************************)
Entry(k, v) == [key |-> k, value |-> v]
Empty       == Entry(NoKey, Null)
Tombstone   == Entry(NoKey, TrueVal)

Slots(c)       == 0 .. c - 1
EmptyTable(c)  == [i \in Slots(c) |-> Empty]
Used(es, c)    == {i \in Slots(c) : es[i] # Empty}
Keyed(es, n)   == {i \in 0 .. n - 1 : es[i].key # NoKey}
Grow(x)        == IF x < MinCap THEN MinCap ELSE x * 2

\* A slip in Overloaded: growing only when the table is completely full.
FullOnlyOverloaded(n, c) == n + 1 > c
\* map->len + 1 > map->cap * 0.75
Overloaded(n, c) == 4 * (n + 1) > 3 * c

\* find_map_entry's next index: ++index, or 0 at the end of the array.
Wrap(i, c) == IF i < c THEN i ELSE i - c

\* The slot at distance d of the key's home slot, hash % cap.
Probe(k, d, c) == Wrap((HashOf[k] % c) + d, c)

\* find_map_entry's loop ends at distance d: the key, or a slot never used.
Stops(es, c, k, d) == es[Probe(k, d, c)].key = k \/ es[Probe(k, d, c)] = Empty

FirstStop(es, c, k) ==
  CHOOSE d \in Slots(c) : /\ Stops(es, c, k, d)
                          /\ \A e \in 0 .. d - 1 : ~Stops(es, c, k, e)

\* The distances below d of the tombstones the probe walks over.
TombsBefore(es, c, k, d) == {e \in 0 .. d - 1 : es[Probe(k, e, c)].key = NoKey}

\* A slip in FindEntry: a search that takes the first slot without a key, used before or not.
FirstHole(es, c, k) ==
  Probe(k, CHOOSE d \in Slots(c) :
             /\ es[Probe(k, d, c)].key \in {k, NoKey}
             /\ \A e \in 0 .. d - 1 : es[Probe(k, e, c)].key \notin {k, NoKey}, c)

\* A slip in FindEntry: a search that never reuses a tombstone.
NoReuse(es, c, k) == Probe(k, FirstStop(es, c, k), c)

\* find_map_entry: the key's slot, else the first tombstone on the way, else
\* the never used slot that ended the search.
FindEntry(es, c, k) ==
  LET d     == FirstStop(es, c, k)
      tombs == TombsBefore(es, c, k, d)
  IN  IF es[Probe(k, d, c)].key = k \/ tombs = {}
      THEN Probe(k, d, c)
      ELSE Probe(k, CHOOSE e \in tombs : \A f \in tombs : e <= f, c)

Answer(op, key, ok, value) ==
  [op |-> op, key |-> key, ok |-> ok, value |-> value]

(***************************************************************************)
(* Operations.                                                             *)
(***************************************************************************)
Init ==
  /\ len = 0 /\ cap = 0
  /\ entries = EmptyTable(0)
  /\ pc = "idle"
  /\ fresh = EmptyTable(0)
  /\ pos = 0
  /\ pending = Empty
  /\ ret = NoAnswer

\* The end of put_map: store the pair in table es of capacity c holding n
\* used slots.
Store(es, c, n, k, v) ==
  LET slot == FindEntry(es, c, k)
  IN  /\ entries' = [es EXCEPT ![slot] = Entry(k, v)]
      /\ len' = IF es[slot] = Empty THEN n + 1 ELSE n
      /\ ret' = Answer("put", k, es[slot].key = NoKey, v)

Put(k, v) ==
  /\ pc = "idle"
  /\ ~Overloaded(len, cap)
  /\ Store(entries, cap, len, k, v)
  /\ UNCHANGED <<cap, pc, fresh, pos, pending>>

\* put_map enters adjust_cap: the new array is cleared, map->len restarts.
PutGrow(k, v) ==
  /\ pc = "idle"
  /\ Overloaded(len, cap)
  /\ pc' = "rehash"
  /\ fresh' = EmptyTable(Grow(cap))
  /\ pos' = 0
  /\ len' = 0
  /\ pending' = Entry(k, v)
  /\ UNCHANGED <<cap, entries, ret>>

\* A slip in Rehash: the loop does not move on over a slot without a key.
RehashStays ==
  /\ pc = "rehash"
  /\ pos < cap
  /\ IF entries[pos].key = NoKey
     THEN UNCHANGED <<fresh, len, pos>>
     ELSE /\ fresh' = [fresh EXCEPT ![FindEntry(fresh, Grow(cap), entries[pos].key)]
                                      = entries[pos]]
          /\ len' = len + 1
          /\ pos' = pos + 1
  /\ UNCHANGED <<cap, entries, pc, pending, ret>>

\* One iteration of adjust_cap's loop; slots without a key are dropped.
Rehash ==
  /\ pc = "rehash"
  /\ pos < cap
  /\ pos' = pos + 1
  /\ IF entries[pos].key = NoKey
     THEN UNCHANGED <<fresh, len>>
     ELSE /\ fresh' = [fresh EXCEPT ![FindEntry(fresh, Grow(cap), entries[pos].key)]
                                      = entries[pos]]
          /\ len' = len + 1
  /\ UNCHANGED <<cap, entries, pc, pending, ret>>

\* A slip in PutEnd: the new array is used, the capacity kept.
PutEndOldCap ==
  /\ pc = "rehash"
  /\ pos = cap
  /\ Store(fresh, Grow(cap), len, pending.key, pending.value)
  /\ pc' = "idle"
  /\ fresh' = EmptyTable(0)
  /\ pos' = 0
  /\ pending' = Empty
  /\ UNCHANGED cap

\* adjust_cap swaps the arrays and put_map stores the pair.
PutEnd ==
  /\ pc = "rehash"
  /\ pos = cap
  /\ cap' = Grow(cap)
  /\ Store(fresh, Grow(cap), len, pending.key, pending.value)
  /\ pc' = "idle"
  /\ fresh' = EmptyTable(0)
  /\ pos' = 0
  /\ pending' = Empty

Get(k) ==
  /\ pc = "idle"
  /\ LET slot  == FindEntry(entries, cap, k)
         found == len # 0 /\ entries[slot].key # NoKey
     IN  ret' = Answer("get", k, found, IF found THEN entries[slot].value ELSE NoAnswer)
  /\ UNCHANGED <<len, cap, entries, pc, fresh, pos, pending>>

\* A slip in Rm: a removal that frees the slot instead of leaving a tombstone.
RmToEmpty(k) ==
  /\ pc = "idle"
  /\ LET slot  == FindEntry(entries, cap, k)
         found == len # 0 /\ entries[slot].key # NoKey
     IN  /\ ret' = Answer("rm", k, found, NoAnswer)
         /\ entries' = IF found THEN [entries EXCEPT ![slot] = Empty] ELSE entries
         /\ len' = IF found THEN len - 1 ELSE len
  /\ UNCHANGED <<cap, pc, fresh, pos, pending>>

Rm(k) ==
  /\ pc = "idle"
  /\ LET slot  == FindEntry(entries, cap, k)
         found == len # 0 /\ entries[slot].key # NoKey
     IN  /\ ret' = Answer("rm", k, found, NoAnswer)
         /\ entries' = IF found THEN [entries EXCEPT ![slot] = Tombstone] ELSE entries
  /\ UNCHANGED <<len, cap, pc, fresh, pos, pending>>

Next ==
  \/ \E k \in Keys :
       \/ \E v \in Values : Put(k, v) \/ PutGrow(k, v)
       \/ Get(k)
       \/ Rm(k)
  \/ Rehash
  \/ PutEnd

Spec == Init /\ [][Next]_vars

(***************************************************************************)
(* Properties.                                                             *)
(***************************************************************************)
EntryType == [key : Keys \cup {NoKey}, value : Values]

\* Types of the table and of adjust_cap's working state.
TypeOK ==
  /\ len \in Nat /\ cap \in Nat
  /\ entries \in [Slots(cap) -> EntryType]
  /\ pc \in {"idle", "rehash"}
  /\ pending \in EntryType
  /\ pos \in 0 .. cap
  /\ pc = "idle" => fresh = EmptyTable(0) /\ pos = 0
  /\ pc = "rehash" => /\ fresh \in [Slots(Grow(cap)) -> EntryType]
                      /\ pending.key \in Keys

\* find_map_entry has no exit but a hit: every search, in the table and in
\* the array adjust_cap is filling, must meet the key or a slot never used.
ProbeTerminates ==
  \A k \in Keys :
    /\ cap # 0 => \E d \in Slots(cap) : Stops(entries, cap, k, d)
    /\ pc = "rehash" =>
         \E d \in Slots(Grow(cap)) : Stops(fresh, Grow(cap), k, d)

\* Every stored key is found where it is stored, whatever was removed or
\* rehashed before; in particular no key is stored twice.
KeysReachable ==
  /\ \A i \in Slots(cap) :
       entries[i].key # NoKey => FindEntry(entries, cap, entries[i].key) = i
  /\ pc = "rehash" =>
       \A i \in Slots(Grow(cap)) :
         fresh[i].key # NoKey => FindEntry(fresh, Grow(cap), fresh[i].key) = i

\* Map.len, which only put_map and adjust_cap change, is the number of used
\* slots of the array being filled, and stays under the load limit.
LenCountsUsed ==
  /\ pc = "idle"   => /\ len = Cardinality(Used(entries, cap))
                      /\ 4 * len <= 3 * cap
  /\ pc = "rehash" => len = Cardinality(Used(fresh, Grow(cap)))

\* Removals never free a slot, yet tombstones are reused: however long the
\* sequence of puts and removals, it never uses more slots than there are
\* keys, so the capacity stays bounded.
TombstonesBounded == Cardinality(Used(entries, cap)) <= Cardinality(Keys)

\* The partial function the table stands for.
Stored == {entries[i].key : i \in Keyed(entries, cap)}
Contents ==
  [k \in Stored |-> entries[CHOOSE i \in Slots(cap) : entries[i].key = k].value]

Abstract == INSTANCE AbstractMap WITH map <- Contents

\* The table implements the abstract map; the steps of a growth are invisible.
ImplementsMap == Abstract!Spec
=============================================================================
