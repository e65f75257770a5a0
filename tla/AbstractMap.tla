---------------------------- MODULE AbstractMap ----------------------------
(***************************************************************************)
(* What the hash table of value.cpp promises its callers (the string       *)
(* table and the globals of the VM): a partial function from keys to       *)
(* values.  put_map says whether the key was new, get_map and rm_map say   *)
(* whether it was there.                                                   *)
(***************************************************************************)
CONSTANTS Keys, Values,
          NoAnswer      \* what the caller has before the first call returns

VARIABLES map,          \* the partial function the table stands for
          ret           \* the answer of the last call that returned

vars == <<map, ret>>

Answer(op, key, ok, value) ==
  [op |-> op, key |-> key, ok |-> ok, value |-> value]

Init ==
  /\ map = [k \in {} |-> NoAnswer]
  /\ ret = NoAnswer

Put(k, v) ==
  /\ map' = [x \in DOMAIN map \cup {k} |-> IF x = k THEN v ELSE map[x]]
  /\ ret' = Answer("put", k, k \notin DOMAIN map, v)

Get(k) ==
  /\ ret' = IF k \in DOMAIN map
            THEN Answer("get", k, TRUE, map[k])
            ELSE Answer("get", k, FALSE, NoAnswer)
  /\ UNCHANGED map

Rm(k) ==
  /\ map' = [x \in DOMAIN map \ {k} |-> map[x]]
  /\ ret' = Answer("rm", k, k \in DOMAIN map, NoAnswer)

Next ==
  \E k \in Keys :
    \/ \E v \in Values : Put(k, v)
    \/ Get(k)
    \/ Rm(k)

Spec == Init /\ [][Next]_vars
=============================================================================
