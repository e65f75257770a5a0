--------------------------- MODULE NaturalMinimum ---------------------------
(***************************************************************************)
(* The fact about natural numbers behind every "first" of the models: the  *)
(* first stop of a probe, the first byte that ends a number, the first     *)
(* upvalue below a location.                                               *)
(***************************************************************************)
EXTENDS Integers, FiniteSetTheorems, WellFoundedInduction, TLAPS

\* A nonempty set of naturals has a least element.
LEMMA MinExists ==
  ASSUME NEW S, S \subseteq Nat, S # {}
  PROVE  \E m \in S : \A n \in S : m <= n
<1>1. PICK s \in S : TRUE
  OBVIOUS
<1> DEFINE N == 0 .. s
           T == {0 .. y : y \in {x \in S : x <= s}}
           R == StrictSubsetOrdering(N)
<1>2. T # {} /\ T \subseteq FiniteSubsetsOf(N)
  <2>1. \A y \in S : y <= s => (0 .. y) \subseteq N /\ IsFiniteSet(0 .. y)
    BY FS_Interval
  <2> QED BY <1>1, <2>1 DEF FiniteSubsetsOf
<1>3. IsWellFoundedOn(R, FiniteSubsetsOf(N))
  BY FS_StrictSubsetOrderingWellFounded
<1>4. PICK U \in T : \A V \in T : ~ (<<V, U>> \in R)
  <2> HIDE DEF T, R
  <2> QED BY <1>2, <1>3, WFMin, Zenon
<1>5. PICK m \in S : m <= s /\ U = 0 .. m
  BY <1>4
<1>6. ASSUME NEW n \in S, n < m
      PROVE  FALSE
  <2>1. 0 .. n \in T /\ (0 .. n) \subseteq N /\ (0 .. m) \subseteq N
    BY <1>5, <1>6
  <2>2. 0 .. n # 0 .. m /\ (0 .. n) \subseteq (0 .. m)
    BY <1>6
  <2>3. <<0 .. n, 0 .. m>> \in R
    BY <2>1, <2>2 DEF StrictSubsetOrdering
  <2> QED BY <1>4, <1>5, <2>1, <2>3
<1> QED BY <1>6
=============================================================================
