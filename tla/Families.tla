------------------------------ MODULE Families ------------------------------
(***************************************************************************)
(* Sequences of inputs for the checks: one for each member of a sequence,  *)
(* each pair, each pair of pairs.                                          *)
(***************************************************************************)
EXTENDS Integers, SequencesExt

Each(seq, Op(_)) == [i \in DOMAIN seq |-> Op(seq[i])]
Both(s, t, Op(_, _)) ==
  [i \in 1 .. Len(s) * Len(t) |-> Op(s[(i - 1) \div Len(t) + 1], t[((i - 1) % Len(t)) + 1])]
Pairs(s) == Both(s, s, LAMBDA x, y : <<x, y>>)

\* Each, worked out once: SubSeq and LET make TLC do so.
ForEach(seq, Op(_)) == LET s == seq IN SubSeq([i \in DOMAIN s |-> Op(s[i])], 1, Len(s))

\* FlattenSeq, by halves: the definition of the library is slow to evaluate.
RECURSIVE AllOf(_, _, _)
AllOf(seqs, i, j) ==
  LET mid == (i + j) \div 2 IN
  CASE i > j -> <<>>
    [] i = j -> seqs[i]
    [] OTHER -> AllOf(seqs, i, mid) \o AllOf(seqs, mid + 1, j)
AllIn(seqs) == AllOf(ForEach(seqs, LAMBDA s : s), 1, Len(seqs))
=============================================================================
