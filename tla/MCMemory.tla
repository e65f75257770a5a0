------------------------------ MODULE MCMemory ------------------------------
(***************************************************************************)
(* Three texts, which grow the table from nothing to two and four slots    *)
(* (GROW starts at 8 in the code).  Two share a hash whose home is the     *)
(* last slot, so that probes wrap around.                                  *)
(***************************************************************************)
EXTENDS Memory

CONSTANTS ta, tb, tc

MCHash == [t \in Texts |-> IF t = tc THEN 8 ELSE 7]
=============================================================================
