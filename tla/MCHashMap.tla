----------------------------- MODULE MCHashMap -----------------------------
(***************************************************************************)
(* A small table: the first allocation has 4 slots instead of 8, so that   *)
(* five keys grow it twice.  k1, k2 and k3 share a home slot near the end  *)
(* of the array (their probes wrap around), k4 lives in the slots they     *)
(* overflow into, k5 changes its home with the capacity.                   *)
(***************************************************************************)
EXTENDS HashMap

CONSTANTS k1, k2, k3, k4, k5

MCHash == [k \in {k1, k2, k3, k4, k5} |->
             CASE k = k1 -> 3 [] k = k2 -> 3 [] k = k3 -> 7 [] k = k4 -> 8 [] k = k5 -> 13]
=============================================================================
