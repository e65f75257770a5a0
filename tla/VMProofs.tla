------------------------------ MODULE VMProofs ------------------------------
(***************************************************************************)
(* Proofs about the virtual machine of vm.cpp, for every program, whether  *)
(* the compiler could have made it or not, every stack and every number of *)
(* frames.                                                                 *)
(*                                                                         *)
(* The argument.  The types and the shape of the list of open upvalues     *)
(* are inductive together (IInv).  The list is walked from its head:       *)
(* Above(x) is where a walk to location x stops (AboveOK), a new upvalue   *)
(* put there keeps the list in order, and a close that drops that many     *)
(* upvalues drops all those at x or above and no other.                    *)
(*                                                                         *)
(* Beside that, the encoding of operands: what emit_uleb writes is what    *)
(* ULEB reads (ReadAsWritten).                                             *)
(***************************************************************************)
EXTENDS VM, NaturalMinimum, SequenceTheorems, TLAPS

\* The inductive invariant.
IInv == TypeOK /\ UpvaluesOK

(***************************************************************************)
(* Values.                                                                 *)
(***************************************************************************)
\* What the machine makes are values that lead somewhere.
LEMMA ValuesMade ==
  /\ \A n \in Int : IntVal(n) \in LiveValue
  /\ \A b \in BOOLEAN : BoolVal(b) \in LiveValue
  /\ \A s \in Seq(Pieces) : StrVal(s) \in LiveValue
  /\ NullVal \in LiveValue /\ NativeVal \in LiveValue /\ Junk \in LiveValue
  BY DEF LiveValue, Values, IsClo, IntVal, BoolVal, StrVal, NullVal, NativeVal, Junk

\* What a value holds, by its type.
LEMMA ValuesRead ==
  ASSUME NEW v \in Values
  PROVE  /\ IsInt(v) => v[2] \in Int
         /\ IsBool(v) => v[2] \in BOOLEAN
         /\ IsStr(v) => v[2] \in Seq(Pieces)
         /\ IsFunc(v) \/ IsClo(v) => v[2] \in Nat \ {0}
  BY DEF Values, IsInt, IsBool, IsStr, IsFunc, IsClo, NullVal, NativeVal, Junk

\* A value that is no closure leads nowhere it could go wrong.
LEMMA LiveIsValue ==
  /\ LiveValue \subseteq Values
  /\ \A v \in Values : ~IsClo(v) => v \in LiveValue
  BY DEF LiveValue

\* to_string makes a string of every value.
LEMMA TextOK ==
  ASSUME NEW v \in Values
  PROVE  Text(v) \in Seq(Pieces)
<1>1. \A s \in Pieces : <<s>> \in Seq(Pieces)
  OBVIOUS
<1>2. \A n : Digits(n) \in Pieces
  BY DEF Digits, Pieces
<1>3. CASE IsInt(v)
  <2>1. Text(v) = <<Digits(v[2])>>
    BY <1>3 DEF Text, IsInt, IsBool, IsStr, NullVal
  <2> QED BY <1>1, <1>2, <2>1
<1>4. CASE IsBool(v)
  <2>1. Text(v) = <<IF v[2] THEN TrueText ELSE FalseText>>
    BY <1>4 DEF Text, IsInt, IsBool, IsStr, NullVal
  <2>2. (IF v[2] THEN TrueText ELSE FalseText) \in {TrueText, FalseText}
    BY Zenon
  <2> QED BY <1>1, <2>1, <2>2 DEF Pieces
<1>5. CASE IsStr(v)
  BY <1>5, ValuesRead DEF Text, IsInt, IsBool, IsStr, NullVal
<1>6. CASE ~IsInt(v) /\ ~IsBool(v) /\ ~IsStr(v)
  <2>1. Text(v) \in {<<NullText>>, <<ScrewedUp>>}
    BY <1>6 DEF Text
  <2> QED BY <1>1, <2>1 DEF Pieces
<1> QED BY <1>3, <1>4, <1>5, <1>6

(***************************************************************************)
(* Arithmetic.                                                             *)
(***************************************************************************)
\* Division by a number other than zero.
LEMMA QuotientType ==
  ASSUME NEW a \in Int, NEW b \in Int, b # 0
  PROVE  Quotient(a, b) \in Int
<1>1. Magnitude(a) \in Nat /\ Magnitude(b) \in Nat /\ Magnitude(b) > 0
  BY DEF Magnitude
<1>2. Magnitude(a) \div Magnitude(b) \in Int
  BY <1>1
<1> QED BY <1>2 DEF Quotient

\* INTs make INTs.
LEMMA CalcType ==
  ASSUME NEW op \in Arithmetic \cup Integral, NEW a \in Int, NEW b \in Int,
         op \in {"DIV", "MOD"} => b # 0
  PROVE  Calc(op, a, b) \in Int
<1>1. CASE op \in {"ADD", "SUB", "EXP", "MUL"}
  BY <1>1 DEF Calc
<1>2. CASE op \in {"DIV", "MOD"}
  <2>1. Quotient(a, b) \in Int
    BY <1>2, QuotientType
  <2> QED BY <1>2, <2>1 DEF Calc
<1>3. CASE op \in {"BAND", "BOR", "XOR"}
  BY <1>3 DEF Calc, FromBits
<1> QED BY <1>1, <1>2, <1>3 DEF Arithmetic, Integral

(***************************************************************************)
(* Operands: what is left of a number as its bytes are written, and what   *)
(* of it has been read, from its last byte backwards, are the same.        *)
(***************************************************************************)
RestStep(n, f, i) == IF i = 1 THEN n ELSE f[i - 1] \div 128
Rest(n) == CHOOSE f : f = [i \in 1 .. 10 |-> RestStep(n, f, i)]

\* The numbers of 64 bits: nine bytes of seven, and one bit.
Septet == 128 * 128 * 128
Words  == 0 .. 2 * Septet * Septet * Septet - 1

\* What is left of such a number at each byte: a bit at the tenth.
LEMMA RestIs ==
  ASSUME NEW n \in Words
  PROVE  /\ Rest(n)[1] = n
         /\ \A i \in 1 .. 10 : Rest(n)[i] \in Nat
         /\ \A i \in 1 .. 9 : Rest(n)[i + 1] = Rest(n)[i] \div 128
         /\ Rest(n)[10] < 128
<1> DEFINE F(f) == [i \in 1 .. 10 |-> RestStep(n, f, i)]
           r2 == n \div 128   r3 == r2 \div 128  r4 == r3 \div 128
           r5 == r4 \div 128  r6 == r5 \div 128  r7 == r6 \div 128
           r8 == r7 \div 128  r9 == r8 \div 128  r10 == r9 \div 128
           g == [i \in 1 .. 10 |-> CASE i = 1 -> n  [] i = 2 -> r2 [] i = 3 -> r3 [] i = 4 -> r4
                                     [] i = 5 -> r5 [] i = 6 -> r6 [] i = 7 -> r7 [] i = 8 -> r8
                                     [] i = 9 -> r9 [] i = 10 -> r10]
<1>1. \E f : f = F(f)
  <2>1. \A i \in 1 .. 10 : g[i] = RestStep(n, g, i)
    <3> SUFFICES ASSUME NEW i \in 1 .. 10 PROVE g[i] = RestStep(n, g, i)
      OBVIOUS
    <3>1. /\ g[1] = n  /\ g[2] = r2 /\ g[3] = r3 /\ g[4] = r4 /\ g[5] = r5
          /\ g[6] = r6 /\ g[7] = r7 /\ g[8] = r8 /\ g[9] = r9 /\ g[10] = r10
      <4> HIDE DEF r2, r3, r4, r5, r6, r7, r8, r9, r10
      <4> QED OBVIOUS
    <3> HIDE DEF g
    <3>2. \/ i = 1 \/ i = 2 \/ i = 3 \/ i = 4 \/ i = 5
          \/ i = 6 \/ i = 7 \/ i = 8 \/ i = 9 \/ i = 10
      OBVIOUS
    <3> QED BY <3>1, <3>2 DEF RestStep
  <2>2. g = F(g)
    <3>1. g = [i \in 1 .. 10 |-> g[i]]
      OBVIOUS
    <3> HIDE DEF g
    <3> QED BY <2>1, <3>1
  <2> QED BY <2>2
<1>2. Rest(n) = F(Rest(n))
  <2>1. Rest(n) = CHOOSE f : f = F(f)
    BY DEF Rest
  <2> HIDE DEF F
  <2> QED BY <1>1, <2>1
<1> DEFINE rest == Rest(n)
<1>3. rest[1] = n /\ \A i \in 1 .. 9 : rest[i + 1] = rest[i] \div 128
  <2> HIDE DEF rest
  <2>1. rest = F(rest)
    BY <1>2 DEF rest
  <2>2. \A i \in 1 .. 10 : rest[i] = RestStep(n, rest, i)
    BY <2>1
  <2> QED BY <2>2 DEF RestStep
<1> HIDE DEF rest
<1> DEFINE B(i, bound) == rest[i] \in 0 .. bound - 1
           b9 == 128 * 2   b8 == 128 * b9  b7 == 128 * b8  b6 == 128 * b7
           b5 == 128 * b6  b4 == 128 * b5  b3 == 128 * b4  b2 == 128 * b3
<1>4. \A i \in 1 .. 9, bound \in Nat : B(i, 128 * bound) => B(i + 1, bound)
  BY <1>3
<1>5. B(1, 128 * b2)
  BY <1>3 DEF Words, Septet
<1>6. /\ b9 \in Nat /\ b8 \in Nat /\ b7 \in Nat /\ b6 \in Nat
      /\ b5 \in Nat /\ b4 \in Nat /\ b3 \in Nat /\ b2 \in Nat
  OBVIOUS
<1>7. B(2, b2) /\ B(3, b3) /\ B(4, b4)
  <2> HIDE DEF B, b4
  <2>1. B(2, b2)
    BY <1>4, <1>5, <1>6
  <2>2. B(3, b3)
    BY <1>4, <1>6, <2>1
  <2> QED BY <1>4, <1>6, <2>1, <2>2
<1>8. B(5, b5) /\ B(6, b6) /\ B(7, b7)
  <2> HIDE DEF B, b7
  <2>1. B(5, b5)
    BY <1>4, <1>6, <1>7
  <2>2. B(6, b6)
    BY <1>4, <1>6, <2>1
  <2> QED BY <1>4, <1>6, <2>1, <2>2
<1>9. B(8, b8) /\ B(9, b9) /\ B(10, 2)
  <2> HIDE DEF B
  <2>1. B(8, b8)
    BY <1>4, <1>6, <1>8
  <2>2. B(9, b9)
    BY <1>4, <1>6, <2>1
  <2> QED BY <1>4, <1>6, <2>1, <2>2
<1>10. \A i \in 1 .. 10 : rest[i] \in Nat
  <2> SUFFICES ASSUME NEW i \in 1 .. 10 PROVE rest[i] \in Nat
    OBVIOUS
  <2> HIDE DEF b2, b3, b4, b5, b6, b7, b8, b9
  <2>1. \/ i = 1 \/ i = 2 \/ i = 3 \/ i = 4 \/ i = 5
        \/ i = 6 \/ i = 7 \/ i = 8 \/ i = 9 \/ i = 10
    OBVIOUS
  <2> QED BY <1>3, <1>7, <1>8, <1>9, <2>1 DEF Words
<1>11. rest[10] < 128
  BY <1>9
<1> QED BY <1>3, <1>10, <1>11 DEF rest

\* The bytes of a number: what is left at each, seven bits of it, and a mark on
\* all but the last.
LEMMA BytesAre ==
  ASSUME NEW n \in Words
  PROVE  \E last \in 1 .. 10 :
           /\ Rest(n)[last] < 128
           /\ UlebBytes(n) = [i \in 1 .. last |-> (Rest(n)[i] % 128) + IF i < last THEN 128 ELSE 0]
<1> DEFINE rest == Rest(n)
           Finals == {i \in 1 .. 10 : rest[i] < 128}
           IsLast(i) == rest[i] < 128 /\ \A j \in 1 .. i - 1 : rest[j] >= 128
           last == CHOOSE i \in 1 .. 10 : IsLast(i)
<1>1. UlebBytes(n) = [i \in 1 .. last |-> (rest[i] % 128) + IF i < last THEN 128 ELSE 0]
  BY SMT DEF UlebBytes, Rest, RestStep
<1>2. \A i \in 1 .. 10 : rest[i] \in Nat
  BY RestIs
<1>3. 10 \in Finals
  BY RestIs
<1> HIDE DEF rest
<1>4. PICK i \in Finals : \A j \in Finals : i <= j
  <2>1. Finals \subseteq Nat /\ Finals # {}
    BY <1>3
  <2> HIDE DEF Finals
  <2> QED BY <2>1, MinExists
<1>5. IsLast(i) /\ i \in 1 .. 10
  <2> SUFFICES ASSUME NEW j \in 1 .. i - 1, ~ (rest[j] >= 128) PROVE FALSE
    BY <1>4
  <2>1. j \in 1 .. 10 /\ j < i
    BY <1>4
  <2>2. j \in Finals
    BY <1>2, <2>1
  <2> QED BY <1>4, <2>1, <2>2
<1>6. last \in 1 .. 10 /\ IsLast(last)
  <2> HIDE DEF IsLast
  <2> QED BY <1>5
<1> HIDE DEF last
<1> QED BY <1>1, <1>6 DEF rest

\* ULEB's value, from the last byte backwards.
ValueStep(code, end, f, q) == (code[q] % 128) + IF q = end THEN 0 ELSE 128 * f[q + 1]
Value(code, p, end) == CHOOSE f : f = [q \in p + 1 .. end |-> ValueStep(code, end, f, q)]

\* There is a function with that recursion: else from a last byte there were none.
LEMMA ValueExists ==
  ASSUME NEW code, NEW p \in Nat, NEW end \in Nat, p < end
  PROVE  \E f : f = [q \in p + 1 .. end |-> ValueStep(code, end, f, q)]
<1> DEFINE Is(f, n) == f = [q \in n .. end |-> ValueStep(code, end, f, q)]
           S == {k \in 0 .. end - 1 : ~ \E f : Is(f, end - k)}
<1>1. S = {}
  <2> SUFFICES ASSUME S # {} PROVE FALSE
    OBVIOUS
  <2>1. PICK k \in S : \A j \in S : k <= j
    <3>1. S \subseteq Nat
      OBVIOUS
    <3> HIDE DEF S
    <3> QED BY <3>1, MinExists
  <2>2. k \in 0 .. end - 1 /\ ~ \E f : Is(f, end - k)
    BY <2>1
  <2> DEFINE n == end - k
  <2>3. n \in 1 .. end
    BY <2>2
  <2>4. \E g : \A q \in n + 1 .. end : g[q] = ValueStep(code, end, g, q)
    <3>1. CASE k = 0
      BY <3>1
    <3>2. CASE k # 0
      <4>1. k - 1 \in 0 .. end - 1 /\ k - 1 < k /\ end - (k - 1) = n + 1
        BY <3>2, <2>2
      <4>2. k - 1 \notin S
        <5> HIDE DEF S
        <5>1. k \in Int
          BY <2>2
        <5> QED BY <2>1, <4>1, <5>1
      <4>3. PICK g : Is(g, n + 1)
        BY <4>1, <4>2
      <4> HIDE DEF n
      <4> QED BY <4>3
    <3> QED BY <3>1, <3>2
  <2>5. PICK g : \A q \in n + 1 .. end : g[q] = ValueStep(code, end, g, q)
    BY <2>4
  <2> DEFINE h == [q \in n .. end |-> IF q = n THEN ValueStep(code, end, g, n) ELSE g[q]]
  <2> HIDE DEF n
  <2>6. \A q \in n .. end : ValueStep(code, end, h, q) = ValueStep(code, end, g, q)
    <3> SUFFICES ASSUME NEW q \in n .. end
                 PROVE  ValueStep(code, end, h, q) = ValueStep(code, end, g, q)
      OBVIOUS
    <3>1. q # end => h[q + 1] = g[q + 1]
      BY <2>3
    <3> HIDE DEF h
    <3> QED BY <3>1 DEF ValueStep
  <2>7. \A q \in n .. end : h[q] = ValueStep(code, end, g, q)
    BY <2>3, <2>5
  <2>8. h = [q \in n .. end |-> h[q]]
    OBVIOUS
  <2>9. Is(h, n)
    <3> HIDE DEF h
    <3> QED BY <2>6, <2>7, <2>8
  <2> QED BY <2>2, <2>9 DEF n
<1>2. end - (p + 1) \in 0 .. end - 1 /\ end - (end - (p + 1)) = p + 1
  OBVIOUS
<1>3. end - (p + 1) \notin S
  BY <1>1
<1> QED BY <1>2, <1>3

\* And so UlebAt satisfies it.
LEMMA ValueIs ==
  ASSUME NEW code, NEW p \in Nat, NEW end \in Nat, p < end
  PROVE  \A q \in p + 1 .. end :
           Value(code, p, end)[q] = ValueStep(code, end, Value(code, p, end), q)
<1> DEFINE F(f) == [q \in p + 1 .. end |-> ValueStep(code, end, f, q)]
<1>1. \E f : f = F(f)
  BY ValueExists
<1>2. Value(code, p, end) = CHOOSE f : f = F(f)
  BY DEF Value
<1> HIDE DEF F
<1>3. Value(code, p, end) = F(Value(code, p, end))
  BY <1>1, <1>2
<1> QED BY <1>3 DEF F

\* Seven bits of a number, and the mark above them.
LEMMA SevenBits ==
  ASSUME NEW m \in Nat
  PROVE  /\ m % 128 \in 0 .. 127 /\ m = (m % 128) + 128 * (m \div 128)
         /\ m < 128 => m % 128 = m /\ (m + 128) % 128 = m
<1>1. m % 128 \in 0 .. 127 /\ m = (m % 128) + 128 * (m \div 128)
  OBVIOUS
<1>2. m < 128 => m % 128 = m
  OBVIOUS
<1>3. m < 128 => (m + 128) % 128 = m
  OBVIOUS
<1> QED BY <1>1, <1>2, <1>3

\* run() reads an operand of 64 bits as emit_uleb wrote it, wherever in the code
\* it is, and goes on behind it.
THEOREM ReadAsWritten ==
  ASSUME NEW n \in Words, NEW code \in Seq(0 .. 255), NEW p \in Nat,
         p + Len(UlebBytes(n)) <= Len(code),
         \A i \in 1 .. Len(UlebBytes(n)) : code[p + i] = UlebBytes(n)[i]
  PROVE  ArgAt(code, p) = [arg |-> n, end |-> p + Len(UlebBytes(n))]
<1> DEFINE rest == Rest(n)
<1>1. PICK last \in 1 .. 10 :
        /\ rest[last] < 128
        /\ UlebBytes(n) = [i \in 1 .. last |-> (rest[i] % 128) + IF i < last THEN 128 ELSE 0]
  BY BytesAre
<1>2. Len(UlebBytes(n)) = last
  BY <1>1
<1>3. \A i \in 1 .. last : code[p + i] = (rest[i] % 128) + IF i < last THEN 128 ELSE 0
  BY <1>1, <1>2
<1>4. /\ rest[1] = n /\ \A i \in 1 .. 10 : rest[i] \in Nat
      /\ \A i \in 1 .. 9 : rest[i + 1] = rest[i] \div 128
  BY RestIs
<1> HIDE DEF rest
<1> DEFINE end == p + last
<1>5. \A i \in 1 .. last : code[p + i] % 128 = rest[i] % 128 /\ (code[p + i] < 128 <=> i = last)
  <2> SUFFICES ASSUME NEW i \in 1 .. last
               PROVE  code[p + i] % 128 = rest[i] % 128 /\ (code[p + i] < 128 <=> i = last)
    OBVIOUS
  <2>1. i \in 1 .. 10
    OBVIOUS
  <2>2. rest[i] \in Nat
    BY <1>4, <2>1
  <2> DEFINE low == rest[i] % 128
  <2>3. low \in 0 .. 127 /\ low % 128 = low /\ (low + 128) % 128 = low
    <3>1. low \in 0 .. 127
      BY <2>2, SevenBits
    <3> HIDE DEF low
    <3> QED BY <3>1, SevenBits
  <2>4. code[p + i] = low + IF i < last THEN 128 ELSE 0
    BY <1>3
  <2> HIDE DEF low
  <2>5. code[p + i] % 128 = low /\ (code[p + i] < 128 <=> i = last)
    BY <2>3, <2>4
  <2> QED BY <2>5 DEF low
<1>6. UlebEnd(code, p) = end
  <2>1. end \in UlebEnds(code, p)
    BY <1>2, <1>5 DEF UlebEnds
  <2>2. \A q \in UlebEnds(code, p) : end <= q
    <3> SUFFICES ASSUME NEW q \in UlebEnds(code, p), q < end PROVE FALSE
      BY DEF UlebEnds
    <3>1. q \in p + 1 .. Len(code) /\ code[q] < 128
      BY DEF UlebEnds
    <3>2. q - p \in 1 .. last /\ q - p # last /\ p + (q - p) = q
      BY <3>1
    <3> QED BY <3>1, <3>2, <1>5
  <2>3. \A q \in UlebEnds(code, p) : q \in Int
    BY DEF UlebEnds
  <2>4. \A m \in UlebEnds(code, p) : (\A q \in UlebEnds(code, p) : m <= q) => m = end
    BY <2>1, <2>2, <2>3
  <2> HIDE DEF end
  <2> QED BY <2>1, <2>2, <2>4 DEF UlebEnd, Min
<1> DEFINE value == Value(code, p, end)
<1>7. UlebAt(code, p) = value[p + 1]
  BY <1>6, SMT DEF UlebAt, Value, ValueStep
<1>8. \A i \in 1 .. last : value[p + i] = (rest[i] % 128) + IF i = last THEN 0 ELSE 128 * value[p + (i + 1)]
  <2> SUFFICES ASSUME NEW i \in 1 .. last
               PROVE  value[p + i] = (rest[i] % 128) + IF i = last THEN 0 ELSE 128 * value[p + (i + 1)]
    OBVIOUS
  <2>1. p + i \in p + 1 .. end /\ (p + i = end <=> i = last) /\ (p + i) + 1 = p + (i + 1)
    OBVIOUS
  <2>2. end \in Nat /\ p < end
    OBVIOUS
  <2> HIDE DEF end, value
  <2>3. value[p + i] = ValueStep(code, end, value, p + i)
    BY <2>1, <2>2, ValueIs DEF value
  <2> QED BY <2>1, <2>3, <1>5 DEF ValueStep
<1> HIDE DEF value, end
<1> DEFINE Wrong == {k \in 0 .. last - 1 : value[p + (last - k)] # rest[last - k]}
<1>9. Wrong = {}
  <2> SUFFICES ASSUME Wrong # {} PROVE FALSE
    OBVIOUS
  <2>1. PICK k \in Wrong : \A j \in Wrong : k <= j
    <3>1. Wrong \subseteq Nat
      OBVIOUS
    <3> HIDE DEF Wrong
    <3> QED BY <3>1, MinExists
  <2> DEFINE i == last - k
  <2>2. i \in 1 .. last /\ i \in 1 .. 10 /\ value[p + i] # rest[i] /\ k \in Nat
    BY <2>1
  <2>3. i # last => value[p + (i + 1)] = rest[i + 1]
    <3> SUFFICES ASSUME i # last PROVE value[p + (i + 1)] = rest[i + 1]
      OBVIOUS
    <3>1. k - 1 \in 0 .. last - 1 /\ last - (k - 1) = i + 1 /\ k - 1 < k
      BY <2>2
    <3>2. k - 1 \notin Wrong
      <4> HIDE DEF Wrong
      <4> QED BY <2>1, <2>2, <3>1
    <3> QED BY <3>1, <3>2
  <2> HIDE DEF i
  <2>4. rest[i] \in Nat
    BY <1>4, <2>2
  <2>5. CASE i = last
    <3>1. value[p + i] = rest[i] % 128
      <4>1. value[p + i] = (rest[i] % 128) + 0
        BY <1>8, <2>2, <2>5
      <4> QED BY <4>1, <2>4, SevenBits
    <3>2. rest[i] < 128
      BY <1>1, <2>5
    <3> QED BY <2>2, <2>4, <3>1, <3>2, SevenBits
  <2>6. CASE i # last
    <3>1. rest[i + 1] = rest[i] \div 128
      <4>1. i \in 1 .. 9
        BY <2>2, <2>6
      <4> QED BY <1>4, <4>1
    <3>2. value[p + i] = (rest[i] % 128) + 128 * (rest[i] \div 128)
      BY <1>8, <2>2, <2>3, <2>6, <3>1
    <3> QED BY <2>2, <2>4, <3>2, SevenBits
  <2> QED BY <2>5, <2>6
<1>10. value[p + 1] = rest[1]
  <2>1. last - 1 \in 0 .. last - 1 /\ last - (last - 1) = 1
    OBVIOUS
  <2> QED BY <1>9, <2>1
<1>11. UlebAt(code, p) = n
  BY <1>4, <1>7, <1>10
<1>12. UlebEnds(code, p) # {}
  BY <1>2, <1>5 DEF UlebEnds, end
<1> QED BY <1>2, <1>6, <1>11, <1>12 DEF ArgAt, end

(***************************************************************************)
(* The current frame, the instruction and the stack.                       *)
(***************************************************************************)
\* The types of the stack, apart from the rest.
LEMMA StackType ==
  ASSUME TypeOK
  PROVE  /\ stack \in [OnStack -> LiveValue] /\ top \in 0 .. StackSize
         /\ StackSize \in Nat /\ StackSize >= 2
  BY SizesAssumption DEF TypeOK

\* A frame leads to its closure and the closure to its function.
LEMMA CurrentOK ==
  ASSUME TypeOK, frames # <<>>
  PROVE  /\ Frame \in [clo : DOMAIN closures, ip : Nat, slots : OnStack]
         /\ Closure \in [func : DOMAIN funcs, ups : Seq(DOMAIN upvals)]
         /\ Func \in FuncType
         /\ Len(frames) \in Nat \ {0}
<1> DEFINE F == [clo : DOMAIN closures, ip : Nat, slots : OnStack]
           C == [func : DOMAIN funcs, ups : Seq(DOMAIN upvals)]
<1>1. frames \in Seq(F) /\ closures \in Seq(C) /\ funcs \in Seq(FuncType)
  BY ProgramsAssumption DEF TypeOK
<1>2. Len(frames) \in Nat \ {0}
  BY <1>1, EmptySeq
<1>3. Frame \in F
  <2> HIDE DEF F
  <2> QED BY <1>1, <1>2, ElementOfSeq DEF Frame, Last
<1>4. Closure \in C
  <2>1. Frame.clo \in 1 .. Len(closures)
    BY <1>1, <1>3
  <2> HIDE DEF C
  <2> QED BY <1>1, <2>1, ElementOfSeq DEF Closure
<1>5. Func \in FuncType
  <2>1. Closure.func \in 1 .. Len(funcs)
    BY <1>1, <1>4
  <2> QED BY <1>1, <2>1, ElementOfSeq DEF Func
<1> QED BY <1>2, <1>3, <1>4, <1>5

\* Where the operand of an instruction ends.
LEMMA ArgEndType ==
  ASSUME NEW code \in Seq(0 .. 255), NEW p \in Nat
  PROVE  ArgAt(code, p).end \in Nat
<1>1. CASE UlebEnds(code, p) = {}
  BY <1>1 DEF ArgAt
<1>2. CASE UlebEnds(code, p) # {}
  <2>1. UlebEnds(code, p) \subseteq Nat
    BY DEF UlebEnds
  <2>2. \E m \in UlebEnds(code, p) : \A n \in UlebEnds(code, p) : m <= n
    BY <1>2, <2>1, MinExists
  <2>3. UlebEnd(code, p) \in UlebEnds(code, p)
    BY <2>2 DEF UlebEnd, Min
  <2> QED BY <1>2, <2>1, <2>3 DEF ArgAt
<1> QED BY <1>1, <1>2

\* What an action may rely on about its instruction.
LEMMA AtOK ==
  ASSUME TypeOK, NEW ops, NEW i \in At(ops)
  PROVE  /\ status = "running" /\ pend = 0 /\ frames # <<>> /\ ip \in Nat
         /\ i.op \in ops /\ i.op = Fetch
         /\ Meaningful(i)
         /\ i.end \in Nat
         /\ i.uint # Absent => i.uint \in Nat
<1>1. /\ status = "running" /\ pend = 0 /\ Fetch \in ops
      /\ i = Decode(Func.code, ip) /\ Meaningful(i)
  BY DEF At
<1>2. frames # <<>> /\ ip \in Nat
  BY <1>1 DEF TypeOK
<1>3. Func.code \in Seq(0 .. 255)
  BY <1>2, CurrentOK DEF FuncType
<1>4. i.op = Fetch
  BY <1>1 DEF Decode, Fetch
<1>5. i.end \in Nat
  BY <1>1, <1>2, <1>3, ArgEndType DEF Decode
<1>6. i.uint # Absent => i.uint \in Nat
  <2>1. ip + 5 <= Len(Func.code) => Func.code[ip + 5] \in Nat
    <3>1. Len(Func.code) \in Nat
      BY <1>3
    <3>2. SUFFICES ASSUME ip + 5 <= Len(Func.code) PROVE Func.code[ip + 5] \in Nat
      OBVIOUS
    <3>3. ip + 5 \in 1 .. Len(Func.code)
      BY <1>2, <3>1, <3>2
    <3>4. Func.code[ip + 5] \in 0 .. 255
      BY <1>3, <3>3, ElementOfSeq
    <3> QED BY <3>4
  <2>2. ip + 1 + 4 = ip + 5
    BY <1>2
  <2> QED BY <1>1, <2>1, <2>2 DEF Decode, UintAt
<1> QED BY <1>1, <1>2, <1>4, <1>5, <1>6

\* PEEK of a value the stack holds.
LEMMA PeekOK ==
  ASSUME TypeOK, NEW n \in Nat, n < top
  PROVE  Peek(n) \in LiveValue /\ Peek(n) \in Values
<1>1. top - 1 - n \in OnStack
  BY StackType DEF OnStack
<1> QED BY <1>1, StackType, LiveIsValue DEF Peek

\* Popping n values and pushing one.
LEMMA ReplaceOK ==
  ASSUME TypeOK, NEW n \in 0 .. top, top - n < StackSize, NEW v \in LiveValue, Replace(n, v)
  PROVE  stack' \in [OnStack -> LiveValue] /\ top' \in 0 .. StackSize
  BY StackType DEF Replace, OnStack

\* Popping n values.
LEMMA DropOK ==
  ASSUME TypeOK, NEW n \in 0 .. top, Drop(n)
  PROVE  stack' \in [OnStack -> LiveValue] /\ top' \in 0 .. StackSize
  BY StackType DEF Drop, OnStack

\* An instruction that only works on the stack.
LEMMA PlainOK ==
  ASSUME IInv, Plain, stack' \in [OnStack -> LiveValue], top' \in 0 .. StackSize, ip' \in Nat
  PROVE  IInv'
<1>1. TypeOK'
  BY DEF IInv, Plain, heap, TypeOK, LiveValue
<1>2. UpvaluesOK'
  BY DEF IInv, Plain, heap, UpvaluesOK, Loc
<1> QED BY <1>1, <1>2 DEF IInv

(***************************************************************************)
(* Instructions that only work on the stack.                               *)
(***************************************************************************)
\* NULL, DUP and POP.
LEMMA SimpleIInv ==
  ASSUME IInv, NullOp \/ Dup \/ Pop
  PROVE  IInv'
<1> USE DEF IInv
<1>1. CASE NullOp
  <2>1. PICK i \in At({"NULL"}) : Replace(0, NullVal) /\ Plain1
    BY <1>1 DEF NullOp
  <2>2. ip \in Nat /\ top \in 0 .. StackSize /\ top < StackSize
    BY <2>1, AtOK, StackType DEF Meaningful, Room
  <2> QED BY <2>1, <2>2, ReplaceOK, ValuesMade, PlainOK DEF Plain1
<1>2. CASE Dup
  <2>1. PICK i \in At({"DUP"}) : Replace(0, Peek(0)) /\ Plain1
    BY <1>2 DEF Dup
  <2>2. ip \in Nat /\ top \in 0 .. StackSize /\ top < StackSize /\ top >= 1
    BY <2>1, AtOK, StackType DEF Meaningful, Room, Operands
  <2>3. Peek(0) \in LiveValue
    BY <2>2, PeekOK
  <2> QED BY <2>1, <2>2, <2>3, ReplaceOK, PlainOK DEF Plain1
<1>3. CASE Pop
  <2>1. PICK i \in At({"POP"}) : Drop(1) /\ Plain1
    BY <1>3 DEF Pop
  <2>2. ip \in Nat /\ top \in 0 .. StackSize /\ top >= 1
    BY <2>1, AtOK, StackType DEF Meaningful, Operands
  <2> QED BY <2>1, <2>2, DropOK, PlainOK DEF Plain1
<1> QED BY <1>1, <1>2, <1>3

\* CONST, GET_LOCAL, SET_LOCAL and the rotations.
LEMMA MoveIInv ==
  ASSUME IInv, ConstOp \/ GetLocal \/ SetLocal \/ Rotate
  PROVE  IInv'
<1> USE DEF IInv
<1>1. CASE ConstOp
  <2>1. PICK i \in At({"CONST"}) : Replace(0, Const(i)) /\ ip' = i.end /\ Plain
    BY <1>1 DEF ConstOp
  <2>2. /\ i.end \in Nat /\ frames # <<>> /\ HasConst(i)
        /\ top \in 0 .. StackSize /\ top < StackSize
    BY <2>1, AtOK, StackType DEF Meaningful, Room
  <2>3. Const(i) \in Values /\ ~IsClo(Const(i))
    BY <2>2, CurrentOK DEF FuncType, Const, HasConst
  <2> QED BY <2>1, <2>2, <2>3, LiveIsValue, ReplaceOK, PlainOK
<1>2. CASE GetLocal
  <2>1. PICK i \in At({"GET_LOCAL"}) :
          Replace(0, stack[Frame.slots + i.arg]) /\ ip' = i.end /\ Plain
    BY <1>2 DEF GetLocal
  <2>2. /\ i.end \in Nat /\ HasLocal(i)
        /\ top \in 0 .. StackSize /\ top < StackSize
    BY <2>1, AtOK, StackType DEF Meaningful, Room
  <2>3. stack[Frame.slots + i.arg] \in LiveValue
    BY <2>2 DEF HasLocal, TypeOK
  <2> QED BY <2>1, <2>2, <2>3, ReplaceOK, PlainOK
<1>3. CASE SetLocal
  <2>1. PICK i \in At({"SET_LOCAL"}) :
          /\ stack' = [stack EXCEPT ![Frame.slots + i.arg] = Peek(0)]
          /\ ip' = i.end /\ Plain /\ UNCHANGED top
    BY <1>3 DEF SetLocal
  <2>2. i.end \in Nat /\ HasLocal(i) /\ top \in 0 .. StackSize /\ top >= 1
    BY <2>1, AtOK, StackType DEF Meaningful, Operands
  <2>3. Peek(0) \in LiveValue
    BY <2>2, PeekOK
  <2>4. stack' \in [OnStack -> LiveValue]
    BY <2>1, <2>3 DEF TypeOK
  <2> QED BY <2>1, <2>2, <2>4, PlainOK
<1>4. CASE Rotate
  <2>1. PICK i \in At(DOMAIN Rotations) :
          /\ stack' = [x \in OnStack |->
                         IF x = top - Rotations[i.op] THEN Peek(0)
                         ELSE IF x \in top - Rotations[i.op] + 1 .. top - 1 THEN stack[x - 1]
                         ELSE stack[x]]
          /\ Plain1 /\ UNCHANGED top
    BY <1>4 DEF Rotate
  <2>2. /\ ip \in Nat /\ i.op \in {"ROT2", "ROT3", "ROT4"}
        /\ top \in 0 .. StackSize /\ top >= Rotations[i.op]
    BY <2>1, AtOK, StackType DEF Meaningful, Operands, Rotations
  <2>3. Rotations[i.op] \in {2, 3, 4}
    BY <2>2 DEF Rotations
  <2>4. Peek(0) \in LiveValue
    BY <2>2, <2>3, PeekOK
  <2>5. \A x \in OnStack : x \in top - Rotations[i.op] + 1 .. top - 1 => x - 1 \in OnStack
    BY <2>2, <2>3, SizesAssumption DEF OnStack
  <2>6. stack' \in [OnStack -> LiveValue]
    <3>1. stack \in [OnStack -> LiveValue]
      BY DEF TypeOK
    <3> QED BY <2>1, <2>4, <2>5, <3>1
  <2> QED BY <2>1, <2>2, <2>6, PlainOK DEF Plain1
<1> QED BY <1>1, <1>2, <1>3, <1>4

(***************************************************************************)
(* Instructions that compute, and the jumps.                               *)
(***************************************************************************)
\* Arithmetic, comparison and negation.
LEMMA NumbersIInv ==
  ASSUME IInv, Calculate \/ Compare \/ Neg
  PROVE  IInv'
<1> USE DEF IInv
<1>1. CASE Calculate
  <2>1. PICK i \in At(Arithmetic \cup Integral) :
          /\ ~Concatenates(i) /\ ~DividesByZero(i)
          /\ Replace(2, IntVal(Calc(i.op, Peek(1)[2], Peek(0)[2])))
          /\ Plain1
    BY <1>1 DEF Calculate
  <2>2. ip \in Nat /\ i.op \in Arithmetic \cup Integral /\ Meaningful(i)
    BY <2>1, AtOK
  <2>3. Ints(2)
    BY <2>1, <2>2 DEF Meaningful
  <2>4. top \in 0 .. StackSize /\ top >= 2 /\ IsInt(Peek(0)) /\ IsInt(Peek(1))
    BY <2>3, StackType DEF Ints, Operands
  <2>5. Peek(0) \in Values /\ Peek(1) \in Values
    BY <2>4, PeekOK
  <2>6. Peek(0)[2] \in Int /\ Peek(1)[2] \in Int
    BY <2>4, <2>5, ValuesRead
  <2>7. i.op \in {"DIV", "MOD"} => Peek(0)[2] # 0
    <3>1. SUFFICES ASSUME i.op \in {"DIV", "MOD"}, Peek(0)[2] = 0 PROVE FALSE
      OBVIOUS
    <3>2. Peek(0) = IntVal(0)
      BY <2>4, <2>5, <3>1 DEF IsInt, IntVal, Values, NullVal, NativeVal, Junk
    <3> QED BY <2>1, <3>1, <3>2 DEF DividesByZero
  <2>8. Calc(i.op, Peek(1)[2], Peek(0)[2]) \in Int
    BY <2>2, <2>6, <2>7, CalcType
  <2> QED BY <2>1, <2>2, <2>4, <2>8, ValuesMade, StackType, ReplaceOK, PlainOK DEF Plain1
<1>2. CASE Compare
  <2>1. PICK i \in At(Comparing) :
          Replace(2, BoolVal(Holds(i.op, Peek(1)[2], Peek(0)[2]))) /\ Plain1
    BY <1>2 DEF Compare
  <2>2. ip \in Nat /\ i.op \in Comparing /\ Meaningful(i)
    BY <2>1, AtOK
  <2>3. Ints(2)
    BY <2>2 DEF Meaningful
  <2>4. top \in 0 .. StackSize /\ top >= 2
    BY <2>3, StackType DEF Ints, Operands
  <2>5. Holds(i.op, Peek(1)[2], Peek(0)[2]) \in BOOLEAN
    BY DEF Holds
  <2> QED BY <2>1, <2>2, <2>4, <2>5, ValuesMade, StackType, ReplaceOK, PlainOK DEF Plain1
<1>3. CASE Neg
  <2>1. PICK i \in At({"NEG"}) : Replace(1, IntVal(-Peek(0)[2])) /\ Plain1
    BY <1>3 DEF Neg
  <2>2. ip \in Nat /\ i.op = "NEG" /\ Meaningful(i)
    BY <2>1, AtOK
  <2>3. Ints(1)
    BY <2>2 DEF Meaningful
  <2>4. top \in 0 .. StackSize /\ top >= 1 /\ IsInt(Peek(0))
    BY <2>3, StackType DEF Ints, Operands
  <2>5. Peek(0)[2] \in Int
    BY <2>4, PeekOK, ValuesRead
  <2>6. -Peek(0)[2] \in Int
    BY <2>5
  <2> QED BY <2>1, <2>2, <2>4, <2>6, ValuesMade, StackType, ReplaceOK, PlainOK DEF Plain1
<1> QED BY <1>1, <1>2, <1>3

\* EQUIV, in every order: an answer in one of the top two slots, and the top is
\* one lower.
LEMMA EquivIs ==
  ASSUME Equiv
  PROVE  \E i \in At({"EQUIV"}), answer \in BOOLEAN, slot \in {top - 1, top - 2} :
           /\ stack' = [stack EXCEPT ![slot] = BoolVal(answer)]
           /\ top' = top - 1
           /\ Plain1
<1> DEFINE same == build = "leftFirst" => Peek(0) = Peek(1)
           at   == IF build = "rightFirst" THEN top - 1 ELSE top - 2
<1>1. PICK i \in At({"EQUIV"}) :
        stack' = [stack EXCEPT ![at] = BoolVal(same)] /\ top' = top - 1 /\ Plain1
  BY DEF Equiv
<1>2. same \in BOOLEAN /\ at \in {top - 1, top - 2}
  OBVIOUS
<1> HIDE DEF same, at
<1> QED BY <1>1, <1>2

\* TO_STR, CONCAT and EQUIV.
LEMMA StringsIInv ==
  ASSUME IInv, ToStr \/ Joined \/ Equiv
  PROVE  IInv'
<1> USE DEF IInv
<1>1. CASE ToStr
  <2>1. PICK i \in At({"TO_STR"}) : Replace(1, StrVal(Text(Peek(0)))) /\ Plain1
    BY <1>1 DEF ToStr
  <2>2. ip \in Nat /\ i.op = "TO_STR" /\ Meaningful(i)
    BY <2>1, AtOK
  <2>3. top \in 0 .. StackSize /\ top >= 1
    BY <2>2, StackType DEF Meaningful, Known, Operands
  <2>4. Text(Peek(0)) \in Seq(Pieces)
    BY <2>3, PeekOK, TextOK
  <2> QED BY <2>1, <2>2, <2>3, <2>4, ValuesMade, StackType, ReplaceOK, PlainOK DEF Plain1
<1>2. CASE Joined
  <2>1. PICK i \in At({"CONCAT", "ADD"}) :
          /\ Concatenates(i)
          /\ Replace(2, StrVal(Peek(1)[2] \o Peek(0)[2]))
          /\ Plain1
    BY <1>2 DEF Joined
  <2>2. ip \in Nat /\ Meaningful(i)
    BY <2>1, AtOK
  <2>3. Strs(2)
    BY <2>1, <2>2 DEF Meaningful, Concatenates
  <2>4. top \in 0 .. StackSize /\ top >= 2 /\ IsStr(Peek(0)) /\ IsStr(Peek(1))
    BY <2>3, StackType DEF Strs, Operands
  <2>5. Peek(0)[2] \in Seq(Pieces) /\ Peek(1)[2] \in Seq(Pieces)
    BY <2>4, PeekOK, ValuesRead
  <2>6. Peek(1)[2] \o Peek(0)[2] \in Seq(Pieces)
    BY <2>5, ConcatProperties
  <2>7. StrVal(Peek(1)[2] \o Peek(0)[2]) \in LiveValue
    BY <2>6, ValuesMade
  <2> QED BY <2>1, <2>2, <2>4, <2>7, StackType, ReplaceOK, PlainOK DEF Plain1
<1>3. CASE Equiv
  <2>1. PICK i \in At({"EQUIV"}), answer \in BOOLEAN, slot \in {top - 1, top - 2} :
          /\ stack' = [stack EXCEPT ![slot] = BoolVal(answer)]
          /\ top' = top - 1
          /\ Plain1
    BY <1>3, EquivIs
  <2>2. ip \in Nat /\ i.op = "EQUIV" /\ Meaningful(i)
    BY <2>1, AtOK
  <2>3. top \in 0 .. StackSize /\ top >= 2
    BY <2>2, StackType DEF Meaningful, Known, Operands
  <2>4. BoolVal(answer) \in LiveValue
    BY ValuesMade
  <2>5. top' \in 0 .. StackSize
    BY <2>1, <2>3, StackType
  <2> DEFINE v == BoolVal(answer)
  <2>6. v \in LiveValue /\ stack' = [stack EXCEPT ![slot] = v]
    BY <2>1, <2>4
  <2> HIDE DEF v
  <2>7. stack' \in [OnStack -> LiveValue]
    BY <2>6, StackType
  <2> QED BY <2>1, <2>2, <2>5, <2>7, PlainOK DEF Plain1
<1> QED BY <1>1, <1>2, <1>3

\* GOTO, JMP, OR and AND.
LEMMA JumpsIInv ==
  ASSUME IInv, Goto \/ Jmp \/ Branch
  PROVE  IInv'
<1> USE DEF IInv
<1>1. CASE Goto
  <2>1. PICK i \in At({"GOTO"}) : ip' = i.uint /\ Plain /\ UNCHANGED <<stack, top>>
    BY <1>1 DEF Goto
  <2>2. i.op = "GOTO" /\ Meaningful(i) /\ (i.uint # Absent => i.uint \in Nat)
    BY <2>1, AtOK
  <2>3. i.uint \in Nat
    BY <2>2 DEF Meaningful, Jumps
  <2> QED BY <2>1, <2>3, StackType, PlainOK
<1>2. CASE Jmp
  <2>1. PICK i \in At({"JMP"}) : ip' = ip + 5 + i.uint /\ Plain /\ UNCHANGED <<stack, top>>
    BY <1>2 DEF Jmp
  <2>2. ip \in Nat /\ i.op = "JMP" /\ Meaningful(i) /\ (i.uint # Absent => i.uint \in Nat)
    BY <2>1, AtOK
  <2>3. i.uint \in Nat
    BY <2>2 DEF Meaningful, Jumps
  <2> QED BY <2>1, <2>2, <2>3, StackType, PlainOK
<1>3. CASE Branch
  <2>1. PICK i \in At({"OR", "AND"}) :
          /\ IF IsTrue(Peek(0)) = (i.op = "OR")
             THEN ip' = ip + 5 + i.uint /\ UNCHANGED <<stack, top>>
             ELSE ip' = ip + 5 /\ Drop(1)
          /\ Plain
    BY <1>3 DEF Branch
  <2>2. /\ ip \in Nat /\ i.op \in {"OR", "AND"} /\ Meaningful(i)
        /\ i.uint # Absent => i.uint \in Nat
    BY <2>1, AtOK
  <2>3. i.uint \in Nat /\ top \in 0 .. StackSize /\ top >= 1
    BY <2>2, StackType DEF Meaningful, Jumps, Known, Operands
  <2>4. CASE ip' = ip + 5 + i.uint /\ UNCHANGED <<stack, top>>
    BY <2>1, <2>2, <2>3, <2>4, StackType, PlainOK
  <2>5. CASE ip' = ip + 5 /\ Drop(1)
    BY <2>1, <2>2, <2>3, <2>5, StackType, DropOK, PlainOK
  <2> QED BY <2>1, <2>4, <2>5
<1> QED BY <1>1, <1>2, <1>3

(***************************************************************************)
(* Globals, and the ways a program stops.                                  *)
(***************************************************************************)
\* DEF_VAR, SET_VAR and GET_VAR of a name that is there.
LEMMA GlobalsIInv ==
  ASSUME IInv, DefVar \/ SetVar \/ GetVar
  PROVE  IInv'
<1> USE DEF IInv
<1>1. ASSUME NEW name, NEW v \in LiveValue, PutGlobal(name, v),
             UNCHANGED <<src, funcs, build, frames, heap, out, status>>,
             stack' \in [OnStack -> LiveValue], top' \in 0 .. StackSize, ip' \in Nat
      PROVE  IInv'
  <2>1. LiveValue' = LiveValue
    BY <1>1 DEF heap, LiveValue
  <2>2. \A n \in DOMAIN globals' : globals'[n] \in LiveValue
    BY <1>1 DEF PutGlobal, TypeOK
  <2>3. TypeOK'
    BY <1>1, <2>1, <2>2 DEF TypeOK, heap
  <2>4. UpvaluesOK'
    BY <1>1 DEF heap, UpvaluesOK, Loc
  <2> QED BY <2>3, <2>4
<1>2. CASE DefVar
  <2>1. PICK i \in At({"DEF_VAR"}) :
          /\ PutGlobal(Name(i), Peek(0)) /\ Drop(1) /\ ip' = i.end
          /\ UNCHANGED <<src, funcs, build, frames, heap, out, status>>
    BY <1>2 DEF DefVar
  <2>2. i.end \in Nat /\ top \in 0 .. StackSize /\ top >= 1
    BY <2>1, AtOK, StackType DEF Meaningful, Operands
  <2> QED BY <1>1, <2>1, <2>2, PeekOK, DropOK
<1>3. CASE SetVar
  <2>1. PICK i \in At({"SET_VAR"}) :
          /\ PutGlobal(Name(i), Peek(0)) /\ ip' = i.end
          /\ UNCHANGED <<src, funcs, build, stack, top, frames, heap, out, status>>
    BY <1>3 DEF SetVar
  <2>2. i.end \in Nat /\ top \in 0 .. StackSize /\ top >= 1
    BY <2>1, AtOK, StackType DEF Meaningful, Operands
  <2> QED BY <1>1, <2>1, <2>2, PeekOK, StackType
<1>4. CASE GetVar
  <2>1. PICK i \in At({"GET_VAR"}) :
          /\ Name(i) \in DOMAIN globals
          /\ Replace(0, globals[Name(i)]) /\ ip' = i.end /\ Plain
    BY <1>4 DEF GetVar
  <2>2. i.end \in Nat /\ top \in 0 .. StackSize /\ top < StackSize
    BY <2>1, AtOK, StackType DEF Meaningful, Room
  <2>3. globals[Name(i)] \in LiveValue
    BY <2>1 DEF TypeOK
  <2> QED BY <2>1, <2>2, <2>3, ReplaceOK, PlainOK
<1> QED BY <1>2, <1>3, <1>4

\* Nothing changes but the status.
LEMMA StopsIInv ==
  ASSUME IInv, DivideByZero \/ Undefined \/ NoCase \/ Misbehave
  PROVE  IInv'
<1>1. /\ status' \in {"exited", "crashed", "stopped", "undefined"}
      /\ UNCHANGED <<src, funcs, build, stack, top, frames, ip, heap, globals, out>>
  BY DEF DivideByZero, Undefined, NoCase, Misbehave
<1>2. TypeOK'
  BY <1>1 DEF IInv, TypeOK, heap, LiveValue
<1>3. UpvaluesOK'
  BY <1>1 DEF IInv, UpvaluesOK, heap, Loc
<1> QED BY <1>2, <1>3 DEF IInv

(***************************************************************************)
(* The list of open upvalues.                                              *)
(***************************************************************************)
\* The types of the upvalues and of the list.
LEMMA HeapType ==
  ASSUME TypeOK
  PROVE  /\ upvals \in Seq([loc : OnStack \cup {Closed}, closed : LiveValue])
         /\ Len(upvals) \in Nat /\ DOMAIN upvals = 1 .. Len(upvals)
         /\ \A u \in 1 .. Len(upvals) : /\ upvals[u].loc \in OnStack \cup {Closed}
                                        /\ upvals[u].closed \in LiveValue
         /\ open \in Seq(1 .. Len(upvals))
         /\ Len(open) \in Nat /\ DOMAIN open = 1 .. Len(open)
         /\ \A i \in 1 .. Len(open) : open[i] \in 1 .. Len(upvals)
<1>1. /\ upvals \in Seq([loc : OnStack \cup {Closed}, closed : LiveValue])
      /\ open \in Seq(DOMAIN upvals)
  BY DEF TypeOK
<1>2. DOMAIN upvals = 1 .. Len(upvals)
  BY <1>1
<1>3. open \in Seq(1 .. Len(upvals))
  BY <1>1, <1>2
<1>4. ASSUME NEW u \in 1 .. Len(upvals)
      PROVE  upvals[u] \in [loc : OnStack \cup {Closed}, closed : LiveValue]
  BY <1>1, <1>4, ElementOfSeq
<1>5. \A i \in 1 .. Len(open) : open[i] \in 1 .. Len(upvals)
  BY <1>3, ElementOfSeq
<1> QED BY <1>1, <1>2, <1>3, <1>4, <1>5

\* An upvalue on the list points into the stack.
LEMMA LocType ==
  ASSUME IInv, NEW i \in 1 .. Len(open)
  PROVE  Loc(i) \in OnStack
  BY HeapType DEF IInv, UpvaluesOK, Loc

\* The list is in order, and every upvalue is on it but once.
LEMMA ListOK ==
  ASSUME IInv
  PROVE  /\ \A i, j \in 1 .. Len(open) : i < j => Loc(j) < Loc(i)
         /\ \A i, j \in 1 .. Len(open) : open[i] = open[j] => i = j
         /\ \A u \in 1 .. Len(upvals) :
              upvals[u].loc # Closed => \E i \in 1 .. Len(open) : open[i] = u
<1>1. \A i, j \in 1 .. Len(open) : i < j => Loc(j) < Loc(i)
  BY HeapType DEF IInv, UpvaluesOK
<1>2. \A u \in 1 .. Len(upvals) :
        upvals[u].loc # Closed => \E i \in 1 .. Len(open) : open[i] = u
  BY HeapType DEF IInv, UpvaluesOK
<1>3. Len(open) \in Nat /\ \A i \in 1 .. Len(open) : Loc(i) \in Int
  BY HeapType, LocType, SizesAssumption DEF IInv, OnStack
<1>4. ASSUME NEW i \in 1 .. Len(open), NEW j \in 1 .. Len(open), open[i] = open[j]
      PROVE  i = j
  <2>1. Loc(i) = Loc(j)
    BY <1>4 DEF Loc
  <2>2. ~(i < j) /\ ~(j < i)
    BY <1>1, <1>3, <2>1
  <2> QED BY <1>3, <2>2
<1> QED BY <1>1, <1>2, <1>4

\* Where a walk of the list to location x stops: before the first upvalue
\* below x, behind all the others.
LEMMA AboveOK ==
  ASSUME IInv, NEW x \in Int
  PROVE  /\ Above(x) \in 0 .. Len(open)
         /\ \A i \in 1 .. Len(open) : i <= Above(x) <=> Loc(i) >= x
<1> DEFINE P(n) == /\ \A i \in 1 .. n : Loc(i) >= x
                   /\ n = Len(open) \/ Loc(n + 1) < x
           Below == {n \in 0 .. Len(open) : n = Len(open) \/ Loc(n + 1) < x}
<1>1. Len(open) \in Nat /\ \A i \in 1 .. Len(open) : Loc(i) \in Int
  BY HeapType, LocType, SizesAssumption DEF IInv, OnStack
<1>2. PICK m \in Below : \A n \in Below : m <= n
  <2>1. Below \subseteq Nat /\ Len(open) \in Below
    BY <1>1
  <2> HIDE DEF Below
  <2> QED BY <2>1, MinExists
<1>3. P(m)
  <2>1. ASSUME NEW i \in 1 .. m, Loc(i) < x PROVE FALSE
    <3>1. i - 1 \in 0 .. Len(open) /\ (i - 1) + 1 = i
      BY <1>1, <1>2
    <3>2. i - 1 \in Below
      BY <2>1, <3>1
    <3> QED BY <1>2, <3>2
  <2> QED BY <1>1, <1>2, <2>1
<1>4. Above(x) \in 0 .. Len(open) /\ P(Above(x))
  <2>1. Above(x) = CHOOSE n \in 0 .. Len(open) : P(n)
    BY DEF Above
  <2>2. \E n \in 0 .. Len(open) : P(n)
    BY <1>2, <1>3
  <2> HIDE DEF P
  <2> QED BY <2>1, <2>2
<1>5. ASSUME NEW i \in 1 .. Len(open), i > Above(x), Loc(i) >= x PROVE FALSE
  <2>1. Above(x) + 1 \in 1 .. Len(open) /\ Loc(Above(x) + 1) < x
    BY <1>1, <1>4, <1>5
  <2>2. i = Above(x) + 1 \/ Loc(i) < Loc(Above(x) + 1)
    BY <1>1, <1>4, <1>5, <2>1, ListOK
  <2> QED BY <1>1, <1>5, <2>1, <2>2
<1> QED BY <1>1, <1>4, <1>5

\* close_upvalues keeps the list in order; the upvalues it takes off the list
\* are exactly those at x or above, and they keep values that lead somewhere.
LEMMA CloseOK ==
  ASSUME IInv, NEW x \in Int, CloseFrom(x)
  PROVE  /\ closures' = closures /\ pend' = pend
         /\ upvals' \in Seq([loc : OnStack \cup {Closed}, closed : LiveValue])
         /\ DOMAIN upvals' = DOMAIN upvals
         /\ open' \in Seq(DOMAIN upvals)
         /\ UpvaluesOK'
<1> DEFINE n == Above(x)
           Gone(u) == \E i \in 1 .. n : open[i] = u
<1>1. /\ n \in 0 .. Len(open)
      /\ Len(open) \in Nat /\ Len(upvals) \in Nat
      /\ \A i \in 1 .. Len(open) : open[i] \in 1 .. Len(upvals)
  BY AboveOK, HeapType DEF IInv
<1>2. /\ upvals' = [u \in 1 .. Len(upvals) |->
                      IF Gone(u) THEN [loc |-> Closed, closed |-> stack[upvals[u].loc]]
                      ELSE upvals[u]]
      /\ open' = SubSeq(open, n + 1, Len(open))
      /\ closures' = closures /\ pend' = pend
  BY HeapType DEF CloseFrom, IInv
<1> HIDE DEF n
<1>3. ASSUME NEW u \in 1 .. Len(upvals), Gone(u)
      PROVE  upvals[u].loc \in OnStack /\ stack[upvals[u].loc] \in LiveValue
  <2>1. PICK i \in 1 .. Len(open) : open[i] = u
    BY <1>1, <1>3
  <2>2. upvals[u].loc \in OnStack
    BY <2>1, LocType DEF Loc
  <2> QED BY <2>2, StackType DEF IInv
<1>4. upvals' \in [1 .. Len(upvals) -> [loc : OnStack \cup {Closed}, closed : LiveValue]]
  <2>1. \A u \in 1 .. Len(upvals) : upvals[u] \in [loc : OnStack \cup {Closed}, closed : LiveValue]
    BY HeapType, ElementOfSeq DEF IInv
  <2> HIDE DEF Gone
  <2> QED BY <1>2, <1>3, <2>1
<1>5. /\ upvals' \in Seq([loc : OnStack \cup {Closed}, closed : LiveValue])
      /\ DOMAIN upvals' = DOMAIN upvals
      /\ DOMAIN upvals = 1 .. Len(upvals)
  <2> DEFINE T == [loc : OnStack \cup {Closed}, closed : LiveValue]
  <2>1. upvals' \in [1 .. Len(upvals) -> T] /\ Len(upvals) \in Nat
    BY <1>1, <1>4
  <2> HIDE DEF T
  <2>2. upvals' \in Seq(T) /\ DOMAIN upvals' = 1 .. Len(upvals)
    BY <2>1
  <2> QED BY <2>2, HeapType DEF IInv, T
<1>6. /\ open' \in Seq(1 .. Len(upvals))
      /\ Len(open') = Len(open) - n
      /\ \A i \in 1 .. Len(open) - n : open'[i] = open[n + i]
  <2>1. \A i \in n + 1 .. Len(open) : open[i] \in 1 .. Len(upvals)
    BY <1>1
  <2>2. open' \in Seq(1 .. Len(upvals))
    BY <1>1, <1>2, <2>1, SubSeqProperties
  <2>3. Len(open') = Len(open) - n
    BY <1>1, <1>2, <2>1, SubSeqProperties
  <2>4. \A i \in 1 .. Len(open) - n : open'[i] = open[n + i]
    BY <1>1, <1>2, <2>1, SubSeqProperties
  <2> QED BY <2>2, <2>3, <2>4
<1>7. ASSUME NEW i \in 1 .. Len(open) - n
      PROVE  Loc(i)' = Loc(n + i) /\ n + i \in 1 .. Len(open)
  <2>1. n + i \in 1 .. Len(open) /\ open'[i] = open[n + i]
    BY <1>1, <1>6
  <2>2. ~Gone(open[n + i])
    BY <1>1, <2>1, ListOK
  <2>3. upvals'[open[n + i]] = upvals[open[n + i]]
    BY <1>1, <1>2, <2>1, <2>2
  <2> QED BY <2>1, <2>3 DEF Loc
<1>8. UpvaluesOK'
  <2>1. DOMAIN open' = 1 .. Len(open) - n
    BY <1>1, <1>6
  <2>2. \A i \in DOMAIN open' : Loc(i)' # Closed
    <3>1. Closed \notin OnStack
      BY StackType DEF Closed, OnStack, IInv
    <3> QED BY <1>7, <2>1, <3>1, LocType
  <2>3. \A i, j \in DOMAIN open' : i < j => Loc(j)' < Loc(i)'
    BY <1>1, <1>7, <2>1, ListOK
  <2>4. ASSUME NEW u \in 1 .. Len(upvals), upvals'[u].loc # Closed
        PROVE  \E i \in DOMAIN open' : open'[i] = u
    <3>1. ~Gone(u) /\ upvals'[u] = upvals[u]
      BY <1>2, <2>4
    <3>2. PICK j \in 1 .. Len(open) : open[j] = u
      BY <2>4, <3>1, ListOK
    <3>3. j > n
      BY <1>1, <3>1, <3>2
    <3>4. j - n \in 1 .. Len(open) - n /\ n + (j - n) = j
      BY <1>1, <3>3
    <3> QED BY <1>6, <2>1, <3>2, <3>4
  <2> QED BY <1>5, <2>2, <2>3, <2>4 DEF UpvaluesOK
<1> QED BY <1>2, <1>5, <1>6, <1>8

(***************************************************************************)
(* Instructions on upvalues.                                               *)
(***************************************************************************)
\* What led somewhere leads there when there are more closures.
LEMMA MoreClosures ==
  ASSUME TypeOK, DOMAIN closures \subseteq DOMAIN closures', UNCHANGED frames
  PROVE  /\ LiveValue \subseteq LiveValue'
         /\ frames' \in Seq([clo : DOMAIN closures', ip : Nat, slots : OnStack])
<1> DEFINE F == [clo : DOMAIN closures, ip : Nat, slots : OnStack]
           G == [clo : DOMAIN closures', ip : Nat, slots : OnStack]
<1>1. frames \in Seq(F) /\ F \subseteq G
  BY DEF TypeOK
<1>2. frames \in Seq(G)
  <2> HIDE DEF F, G
  <2> QED BY <1>1, SeqMonotonic
<1> QED BY <1>2 DEF LiveValue

\* An upvalue of the running closure, and what it refers to.
LEMMA UpvalOK ==
  ASSUME IInv, frames # <<>>, NEW i, HasUpval(i)
  PROVE  /\ Upval(i) \in 1 .. Len(upvals)
         /\ ValueOf(Upval(i)) \in LiveValue
<1>1. Closure.ups \in Seq(1 .. Len(upvals))
  BY CurrentOK, HeapType DEF IInv
<1>2. i.arg + 1 \in 1 .. Len(Closure.ups)
  BY <1>1 DEF HasUpval
<1>3. Upval(i) \in 1 .. Len(upvals)
  BY <1>1, <1>2, ElementOfSeq DEF Upval
<1>4. ASSUME NEW u \in 1 .. Len(upvals)
      PROVE  ValueOf(u) \in LiveValue
  <2>1. upvals[u].closed \in LiveValue /\ upvals[u].loc \in OnStack \cup {Closed}
    BY HeapType DEF IInv
  <2>2. upvals[u].loc \in OnStack => stack[upvals[u].loc] \in LiveValue
    BY StackType DEF IInv
  <2> QED BY <2>1, <2>2 DEF ValueOf
<1> QED BY <1>3, <1>4

\* GET_UPVAL and SET_UPVAL.
LEMMA UpvalIInv ==
  ASSUME IInv, GetUpval \/ SetUpval
  PROVE  IInv'
<1> USE DEF IInv
<1>1. CASE GetUpval
  <2>1. PICK i \in At({"GET_UPVAL"}) : Replace(0, ValueOf(Upval(i))) /\ ip' = i.end /\ Plain
    BY <1>1 DEF GetUpval
  <2>2. i.end \in Nat /\ frames # <<>> /\ HasUpval(i) /\ Room
    BY <2>1, AtOK DEF Meaningful
  <2>3. top \in 0 .. StackSize /\ top < StackSize
    BY <2>2, StackType DEF Room
  <2>4. ValueOf(Upval(i)) \in LiveValue
    BY <2>2, UpvalOK
  <2> QED BY <2>1, <2>2, <2>3, <2>4, ReplaceOK, PlainOK
<1>2. CASE SetUpval
  <2>1. PICK i \in At({"SET_UPVAL"}) :
          /\ LET u == Upval(i)
             IN  IF upvals[u].loc = Closed
                 THEN upvals' = [upvals EXCEPT ![u].closed = Peek(0)] /\ UNCHANGED stack
                 ELSE stack' = [stack EXCEPT ![upvals[u].loc] = Peek(0)] /\ UNCHANGED upvals
          /\ ip' = i.end
          /\ UNCHANGED <<src, funcs, build, top, frames, closures, open, pend, globals, out, status>>
    BY <1>2 DEF SetUpval
  <2>2. i.end \in Nat /\ frames # <<>> /\ HasUpval(i) /\ Operands(1)
    BY <2>1, AtOK DEF Meaningful
  <2>3. Peek(0) \in LiveValue
    BY <2>2, StackType, PeekOK DEF Operands
  <2>4. LiveValue' = LiveValue
    BY <2>1 DEF LiveValue
  <2>5. CASE upvals[Upval(i)].loc = Closed
    <3> DEFINE u == Upval(i)
               v == Peek(0)
               T == [loc : OnStack \cup {Closed}, closed : LiveValue]
    <3>1. u \in 1 .. Len(upvals) /\ v \in LiveValue
      BY <2>2, <2>3, UpvalOK
    <3>2. upvals' = [upvals EXCEPT ![u].closed = v] /\ UNCHANGED stack
      BY <2>1, <2>5
    <3>3. upvals \in Seq(T) /\ upvals[u] \in T
      BY <3>1, HeapType, ElementOfSeq
    <3>4. upvals' = [upvals EXCEPT ![u] = [upvals[u] EXCEPT !.closed = v]]
      BY <3>2
    <3> HIDE DEF u, v
    <3>5. [upvals[u] EXCEPT !.closed = v] \in T
      BY <3>1, <3>3
    <3>6. upvals' \in Seq(T) /\ DOMAIN upvals' = DOMAIN upvals
      <4> HIDE DEF T
      <4>1. [upvals EXCEPT ![u] = [upvals[u] EXCEPT !.closed = v]] \in Seq(T)
        BY <3>1, <3>3, <3>5, ExceptSeq
      <4> QED BY <3>4, <4>1
    <3>7. \A w \in DOMAIN upvals : upvals'[w].loc = upvals[w].loc
      BY <3>1, <3>3, <3>4
    <3>8. TypeOK'
      BY <2>1, <2>2, <2>4, <3>2, <3>6 DEF TypeOK
    <3>9. UpvaluesOK'
      <4>1. \A k \in DOMAIN open : Loc(k)' = Loc(k)
        BY <2>1, <3>7, HeapType DEF Loc
      <4> QED BY <2>1, <3>6, <3>7, <4>1 DEF UpvaluesOK
    <3> QED BY <3>8, <3>9
  <2>6. CASE upvals[Upval(i)].loc # Closed
    <3>1. /\ stack' = [stack EXCEPT ![upvals[Upval(i)].loc] = Peek(0)]
          /\ UNCHANGED upvals
      BY <2>1, <2>6
    <3>2. stack' \in [OnStack -> LiveValue]
      BY <2>3, <3>1, StackType
    <3> QED BY <2>1, <2>2, <3>1, <3>2, StackType, PlainOK DEF Plain, heap
  <2> QED BY <2>5, <2>6
<1> QED BY <1>1, <1>2

\* CLOSE.
LEMMA CloseIInv ==
  ASSUME IInv, Close
  PROVE  IInv'
<1> USE DEF IInv
<1>1. PICK i \in At({"CLOSE"}) :
        /\ CloseFrom(top - 1)
        /\ Drop(1) /\ ip' = ip + 1
        /\ UNCHANGED <<src, funcs, build, frames, globals, out, status>>
  BY DEF Close
<1>2. ip \in Nat /\ top \in 0 .. StackSize /\ top >= 1
  BY <1>1, AtOK, StackType DEF Meaningful, Operands
<1>3. stack' \in [OnStack -> LiveValue] /\ top' \in 0 .. StackSize
  BY <1>1, <1>2, DropOK
<1>4. /\ closures' = closures /\ pend' = pend
      /\ upvals' \in Seq([loc : OnStack \cup {Closed}, closed : LiveValue])
      /\ DOMAIN upvals' = DOMAIN upvals
      /\ open' \in Seq(DOMAIN upvals)
      /\ UpvaluesOK'
  <2>1. top - 1 \in Int
    BY <1>2
  <2> QED BY <1>1, <2>1, CloseOK
<1>5. LiveValue' = LiveValue
  BY <1>4 DEF LiveValue
<1>6. TypeOK'
  BY <1>1, <1>2, <1>3, <1>4, <1>5 DEF TypeOK
<1> QED BY <1>4, <1>6

\* CLOSURE makes a closure that leads to a function of the program.
LEMMA NewClosureIInv ==
  ASSUME IInv, NewClosure
  PROVE  IInv'
<1> USE DEF IInv
<1>1. PICK i \in At({"CLOSURE"}) :
        /\ closures' = Append(closures, [func |-> Const(i)[2], ups |-> <<>>])
        /\ pend' = funcs[Const(i)[2]].nup
        /\ Replace(0, CloVal(Len(closures) + 1))
        /\ ip' = i.end
        /\ UNCHANGED <<src, funcs, build, frames, upvals, open, globals, out, status>>
  BY DEF NewClosure
<1>2. /\ i.end \in Nat /\ frames # <<>> /\ HasFunc(i) /\ Room
      /\ status = "running"
  BY <1>1, AtOK DEF Meaningful
<1>3. /\ Const(i)[2] \in DOMAIN funcs
      /\ funcs[Const(i)[2]].nup \in Nat
  <2>1. funcs \in Seq(FuncType) /\ Const(i)[2] \in DOMAIN funcs
    BY <1>2, ProgramsAssumption DEF TypeOK, HasFunc
  <2>2. funcs[Const(i)[2]] \in FuncType
    BY <2>1, ElementOfSeq
  <2> QED BY <2>1, <2>2 DEF FuncType
<1> DEFINE C == [func : DOMAIN funcs, ups : Seq(DOMAIN upvals)]
           c == [func |-> Const(i)[2], ups |-> <<>>]
           n == Len(closures) + 1
<1>4. closures \in Seq(C) /\ c \in C
  BY <1>3 DEF TypeOK
<1>5. /\ closures' \in Seq(C)
      /\ DOMAIN closures \subseteq DOMAIN closures'
      /\ n \in DOMAIN closures' /\ n \in Nat \ {0}
  <2> HIDE DEF C, c
  <2>1. closures' = Append(closures, c)
    BY <1>1 DEF c
  <2> QED BY <1>4, <2>1, AppendProperties
<1>6. /\ LiveValue \subseteq LiveValue'
      /\ frames' \in Seq([clo : DOMAIN closures', ip : Nat, slots : OnStack])
  BY <1>1, <1>5, MoreClosures
<1>7. CloVal(n) \in LiveValue'
  <2>1. CloVal(n) \in Values /\ CloVal(n)[2] = n
    BY <1>5 DEF CloVal, Values
  <2> QED BY <1>5, <2>1 DEF LiveValue
<1>8. stack' \in [OnStack -> LiveValue'] /\ top' \in 0 .. StackSize
  <2> HIDE DEF n
  <2>1. /\ stack' = [stack EXCEPT ![top - 0] = CloVal(n)]
        /\ top' = top - 0 + 1
    BY <1>1 DEF Replace, n
  <2>2. /\ stack \in [OnStack -> LiveValue] /\ top \in 0 .. StackSize
        /\ top < StackSize /\ StackSize \in Nat
    BY <1>2, StackType DEF Room
  <2>3. stack \in [OnStack -> LiveValue']
    BY <1>6, <2>2
  <2> DEFINE L == LiveValue'
             v == CloVal(n)
  <2>4. stack \in [OnStack -> L] /\ v \in L /\ stack' = [stack EXCEPT ![top] = v]
    BY <1>7, <2>1, <2>2, <2>3
  <2> HIDE DEF L, v
  <2>5. stack' \in [OnStack -> L]
    BY <2>4
  <2> QED BY <2>1, <2>2, <2>5 DEF L
<1>9. upvals' \in Seq([loc : OnStack \cup {Closed}, closed : LiveValue'])
  <2> DEFINE T == [loc : OnStack \cup {Closed}, closed : LiveValue]
             U == [loc : OnStack \cup {Closed}, closed : LiveValue']
  <2>1. upvals' \in Seq(T) /\ T \subseteq U
    BY <1>1, <1>6, HeapType
  <2> HIDE DEF T, U
  <2>2. upvals' \in Seq(U)
    BY <2>1, SeqMonotonic
  <2> QED BY <2>2 DEF U
<1>10. \A m \in DOMAIN globals' : globals'[m] \in LiveValue'
  BY <1>1, <1>6 DEF TypeOK
<1>11. TypeOK'
  BY <1>1, <1>2, <1>3, <1>5, <1>6, <1>8, <1>9, <1>10 DEF TypeOK
<1>12. UpvaluesOK'
  BY <1>1 DEF UpvaluesOK, Loc
<1> QED BY <1>11, <1>12

\* What a capture may rely on.
LEMMA ToCaptureOK ==
  ASSUME IInv, NEW local \in BOOLEAN, NEW c \in ToCapture(local)
  PROVE  /\ status = "running" /\ pend > 0 /\ frames # <<>> /\ pend \in Nat
         /\ c.end \in Nat
         /\ local => c.arg # Absent /\ Frame.slots + c.arg \in OnStack
         /\ ~local => HasUpval(c)
<1>1. /\ status = "running" /\ pend > 0 /\ c = Captured
      /\ c.local = local /\ Captures(c)
  BY DEF ToCapture
<1>2. frames # <<>> /\ ip \in Nat /\ pend \in Nat
  BY <1>1 DEF IInv, TypeOK
<1>3. Func.code \in Seq(0 .. 255)
  BY <1>2, CurrentOK DEF FuncType, IInv
<1>4. c.end = ArgAt(Func.code, ip + 1).end
  BY <1>1 DEF Captured, CaptureAt
<1>5. c.end \in Nat
  BY <1>2, <1>3, <1>4, ArgEndType
<1> QED BY <1>1, <1>2, <1>5 DEF Captures, HasLocal

\* A capture adds an upvalue to the newest closure and nothing else.
LEMMA CaptureOK ==
  ASSUME IInv, frames # <<>>, pend > 0,
         NEW c, c.end \in Nat, NEW u \in DOMAIN upvals', Capture(c, u),
         upvals' \in Seq([loc : OnStack \cup {Closed}, closed : LiveValue]),
         DOMAIN upvals \subseteq DOMAIN upvals',
         open' \in Seq(DOMAIN upvals')
  PROVE  TypeOK'
<1> USE DEF IInv
<1> DEFINE n == Len(closures)
           C == [func : DOMAIN funcs, ups : Seq(DOMAIN upvals)]
           D == [func : DOMAIN funcs, ups : Seq(DOMAIN upvals')]
<1>1. closures \in Seq(C) /\ n \in 1 .. Len(closures)
  <2>1. closures \in Seq(C)
    BY DEF TypeOK
  <2>2. Frame.clo \in DOMAIN closures
    BY CurrentOK
  <2> QED BY <2>1, <2>2
<1>2. closures \in Seq(D)
  <2>1. Seq(DOMAIN upvals) \subseteq Seq(DOMAIN upvals')
    BY SeqMonotonic
  <2>2. C \subseteq D
    BY <2>1
  <2> HIDE DEF C, D
  <2> QED BY <1>1, <2>2, SeqMonotonic
<1>3. closures[n] \in D
  <2> HIDE DEF D
  <2> QED BY <1>1, <1>2, ElementOfSeq
<1>4. closures' = [closures EXCEPT ![n] = [closures[n] EXCEPT !.ups = Append(closures[n].ups, u)]]
  BY DEF Capture
<1>5. [closures[n] EXCEPT !.ups = Append(closures[n].ups, u)] \in D
  <2>1. Append(closures[n].ups, u) \in Seq(DOMAIN upvals')
    BY <1>3, AppendProperties
  <2> QED BY <1>3, <2>1
<1>6. closures' \in Seq(D) /\ DOMAIN closures' = DOMAIN closures
  <2> HIDE DEF D, n
  <2>1. [closures EXCEPT ![n] = [closures[n] EXCEPT !.ups = Append(closures[n].ups, u)]] \in Seq(D)
    BY <1>1, <1>2, <1>5, ExceptSeq
  <2> QED BY <1>4, <2>1
<1>7. LiveValue' = LiveValue
  BY <1>6 DEF LiveValue
<1>8. /\ pend' \in Nat /\ ip' \in Nat
      /\ UNCHANGED <<src, funcs, build, stack, top, frames, globals, out, status>>
  <2>1. pend \in Nat
    BY DEF TypeOK
  <2>2. /\ pend' = pend - 1 /\ ip' = c.end
        /\ UNCHANGED <<src, funcs, build, stack, top, frames, globals, out, status>>
    BY DEF Capture
  <2> QED BY <2>1, <2>2
<1> QED BY <1>6, <1>7, <1>8 DEF TypeOK

\* A captured variable that has an upvalue shares it.
LEMMA ShareIInv ==
  ASSUME IInv, ShareUpvalue \/ InheritUpvalue
  PROVE  IInv'
<1> USE DEF IInv
<1>1. CASE ShareUpvalue
  <2>1. PICK c \in ToCapture(TRUE) :
          /\ IsThere(Frame.slots + c.arg)
          /\ Capture(c, open[Passed(Frame.slots + c.arg) + 1])
          /\ UNCHANGED <<upvals, open>>
    BY <1>1 DEF ShareUpvalue
  <2>2. /\ frames # <<>> /\ pend > 0 /\ c.end \in Nat
        /\ Frame.slots + c.arg \in OnStack
    BY <2>1, ToCaptureOK
  <2> DEFINE x == Frame.slots + c.arg
  <2>3. x \in Int /\ x + 1 \in Int
    BY <2>2, SizesAssumption DEF OnStack
  <2> HIDE DEF x
  <2>4. Passed(x) \in 0 .. Len(open) /\ Passed(x) < Len(open)
    BY <2>1, <2>3, AboveOK DEF x, Passed, IsThere
  <2>5. open[Passed(x) + 1] \in DOMAIN upvals
    BY <2>4, HeapType
  <2>6. TypeOK'
    BY <2>1, <2>2, <2>5, HeapType, CaptureOK DEF x
  <2>7. UpvaluesOK'
    BY <2>1 DEF UpvaluesOK, Loc
  <2> QED BY <2>6, <2>7
<1>2. CASE InheritUpvalue
  <2>1. PICK c \in ToCapture(FALSE) : Capture(c, Upval(c)) /\ UNCHANGED <<upvals, open>>
    BY <1>2 DEF InheritUpvalue
  <2>2. /\ frames # <<>> /\ pend > 0 /\ c.end \in Nat /\ HasUpval(c)
    BY <2>1, ToCaptureOK
  <2>3. Upval(c) \in DOMAIN upvals
    BY <2>2, UpvalOK, HeapType
  <2>4. TypeOK'
    BY <2>1, <2>2, <2>3, HeapType, CaptureOK
  <2>5. UpvaluesOK'
    BY <2>1 DEF UpvaluesOK, Loc
  <2> QED BY <2>4, <2>5
<1> QED BY <1>1, <1>2

\* An element put into a sequence: what is before it, it, and what follows.
LEMMA InsertAtOK ==
  ASSUME NEW S, NEW s \in Seq(S), NEW q \in 1 .. Len(s) + 1, NEW e \in S
  PROVE  /\ InsertAt(s, q, e) \in Seq(S)
         /\ Len(InsertAt(s, q, e)) = Len(s) + 1
         /\ \A i \in 1 .. Len(s) + 1 :
              InsertAt(s, q, e)[i] = IF i < q THEN s[i] ELSE IF i = q THEN e ELSE s[i - 1]
<1> DEFINE a == SubSeq(s, 1, q - 1)
           b == SubSeq(s, q, Len(s))
           ae == a \o <<e>>
           w == ae \o b
<1>1. Len(s) \in Nat /\ \A i \in 1 .. Len(s) : s[i] \in S
  BY ElementOfSeq
<1>2. /\ a \in Seq(S) /\ Len(a) = q - 1
      /\ \A i \in 1 .. q - 1 : a[i] = s[i]
  BY <1>1, SubSeqProperties
<1>3. /\ b \in Seq(S) /\ Len(b) = Len(s) - q + 1
      /\ \A i \in 1 .. Len(s) - q + 1 : b[i] = s[q + i - 1]
  BY <1>1, SubSeqProperties
<1>4. InsertAt(s, q, e) = w
  BY DEF InsertAt
<1> HIDE DEF a, b
<1>5. /\ ae \in Seq(S) /\ Len(ae) = q
      /\ \A i \in 1 .. q : ae[i] = IF i < q THEN a[i] ELSE e
  <2>1. <<e>> \in Seq(S) /\ Len(<<e>>) = 1 /\ <<e>>[1] = e
    OBVIOUS
  <2> QED BY <1>2, <2>1, ConcatProperties
<1> HIDE DEF ae
<1>6. /\ w \in Seq(S) /\ Len(w) = Len(s) + 1
      /\ \A i \in 1 .. Len(s) + 1 : w[i] = IF i <= q THEN ae[i] ELSE b[i - q]
  <2>1. /\ w \in Seq(S) /\ Len(w) = Len(ae) + Len(b)
        /\ \A i \in 1 .. Len(ae) + Len(b) :
             w[i] = IF i <= Len(ae) THEN ae[i] ELSE b[i - Len(ae)]
    BY <1>3, <1>5, ConcatProperties
  <2>2. Len(ae) = q /\ Len(ae) + Len(b) = Len(s) + 1
    BY <1>1, <1>3, <1>5
  <2> HIDE DEF w
  <2> QED BY <2>1, <2>2
<1> HIDE DEF w
<1>7. ASSUME NEW i \in 1 .. Len(s) + 1
      PROVE  w[i] = IF i < q THEN s[i] ELSE IF i = q THEN e ELSE s[i - 1]
  <2>1. CASE i < q
    BY <1>2, <1>5, <1>6, <2>1
  <2>2. CASE i = q
    BY <1>5, <1>6, <2>2
  <2>3. CASE i > q
    <3>1. i - q \in 1 .. Len(s) - q + 1 /\ q + (i - q) - 1 = i - 1
      BY <1>1, <2>3
    <3>2. w[i] = b[i - q]
      BY <1>6, <2>3
    <3>3. b[i - q] = s[q + (i - q) - 1]
      BY <1>3, <3>1
    <3> QED BY <2>3, <3>1, <3>2, <3>3
  <2> QED BY <1>1, <2>1, <2>2, <2>3
<1> QED BY <1>4, <1>6, <1>7

\* A new upvalue goes where the walk stopped, and the list stays in order.
LEMMA NewUpvalueIInv ==
  ASSUME IInv, NewUpvalue
  PROVE  IInv'
<1> USE DEF IInv
<1>1. PICK c \in ToCapture(TRUE) :
        /\ ~IsThere(Frame.slots + c.arg)
        /\ upvals' = Append(upvals, [loc |-> Frame.slots + c.arg, closed |-> NullVal])
        /\ open' = InsertAt(open, Passed(Frame.slots + c.arg) + 1, Len(upvals) + 1)
        /\ Capture(c, Len(upvals) + 1)
  BY DEF NewUpvalue
<1>2. /\ frames # <<>> /\ pend > 0 /\ c.end \in Nat
      /\ Frame.slots + c.arg \in OnStack
  BY <1>1, ToCaptureOK
<1> DEFINE x == Frame.slots + c.arg
           p == Passed(x)
           new == Len(upvals) + 1
           n == Len(open)
           T == [loc : OnStack \cup {Closed}, closed : LiveValue]
<1>3. x \in Int /\ x + 1 \in Int /\ x \in OnStack
  BY <1>2, SizesAssumption DEF OnStack
<1> HIDE DEF x
<1>4. /\ p \in 0 .. n
      /\ \A i \in 1 .. n : i <= p <=> Loc(i) >= x + 1
  BY <1>3, AboveOK DEF Passed
<1>5. n \in Nat /\ Len(upvals) \in Nat /\ \A i \in 1 .. n : Loc(i) \in Int
  BY HeapType, LocType, SizesAssumption DEF OnStack
<1>6. \A i \in 1 .. n : i > p => Loc(i) < x
  <2>1. ~(p < n /\ Loc(p + 1) = x)
    BY <1>1 DEF IsThere, x
  <2>2. ASSUME NEW i \in 1 .. n, i > p PROVE Loc(i) <= x /\ Loc(i) <= Loc(p + 1) /\ p < n
    <3>1. p + 1 \in 1 .. n /\ p < n /\ (i = p + 1 \/ p + 1 < i)
      BY <1>4, <1>5, <2>2
    <3>2. Loc(i) <= Loc(p + 1)
      BY <1>5, <3>1, ListOK
    <3>3. Loc(i) <= x
      BY <1>3, <1>4, <1>5, <2>2
    <3> QED BY <3>1, <3>2, <3>3
  <2>3. p < n => Loc(p + 1) <= x
    <3>1. p < n => p + 1 \in 1 .. n /\ p + 1 > p
      BY <1>4, <1>5
    <3> QED BY <2>2, <3>1
  <2>4. p < n => Loc(p + 1) \in Int
    <3>1. p < n => p + 1 \in 1 .. n
      BY <1>4, <1>5
    <3> QED BY <1>5, <3>1
  <2> QED BY <1>3, <1>5, <2>1, <2>2, <2>3, <2>4
<1> HIDE DEF p
<1>7. /\ upvals' \in Seq(T) /\ Len(upvals') = new
      /\ \A u \in 1 .. Len(upvals) : upvals'[u] = upvals[u]
      /\ upvals'[new] = [loc |-> x, closed |-> NullVal]
  <2> DEFINE e == [loc |-> x, closed |-> NullVal]
  <2>1. upvals \in Seq(T) /\ e \in T
    BY <1>3, HeapType, ValuesMade
  <2>2. upvals' = Append(upvals, e)
    BY <1>1 DEF x
  <2> HIDE DEF T, e
  <2>3. /\ upvals' \in Seq(T) /\ Len(upvals') = Len(upvals) + 1
        /\ \A u \in 1 .. Len(upvals) : upvals'[u] = upvals[u]
        /\ upvals'[Len(upvals) + 1] = e
    BY <2>1, <2>2, AppendProperties
  <2> QED BY <2>3 DEF e
<1>8. DOMAIN upvals = 1 .. Len(upvals) /\ DOMAIN upvals' = 1 .. new
  BY <1>7, HeapType
<1>9. /\ open' \in Seq(1 .. new)
      /\ Len(open') = n + 1
      /\ \A i \in 1 .. n + 1 :
           open'[i] = IF i <= p THEN open[i] ELSE IF i = p + 1 THEN new ELSE open[i - 1]
  <2>1. open \in Seq(1 .. new)
    <3>1. open \in Seq(1 .. Len(upvals)) /\ 1 .. Len(upvals) \subseteq 1 .. new
      BY <1>5, HeapType
    <3> QED BY <3>1, SeqMonotonic
  <2>2. new \in 1 .. new /\ p \in 0 .. Len(open)
    BY <1>4, <1>5
  <2>3. open' = InsertAt(open, p + 1, new)
    BY <1>1 DEF x, p
  <2> DEFINE S == 1 .. new
  <2> HIDE DEF new, S
  <2>4. open \in Seq(S) /\ new \in S
    BY <2>1, <2>2 DEF S
  <2>5. /\ open' \in Seq(S)
        /\ Len(open') = Len(open) + 1
        /\ \A i \in 1 .. Len(open) + 1 :
             open'[i] = IF i < p + 1 THEN open[i] ELSE IF i = p + 1 THEN new ELSE open[i - 1]
    <3> DEFINE q == p + 1
    <3>1. q \in 1 .. Len(open) + 1 /\ open' = InsertAt(open, q, new)
      BY <1>5, <2>2, <2>3
    <3> HIDE DEF q
    <3>2. /\ open' \in Seq(S)
          /\ Len(open') = Len(open) + 1
          /\ \A i \in 1 .. Len(open) + 1 :
               open'[i] = IF i < q THEN open[i] ELSE IF i = q THEN new ELSE open[i - 1]
      BY <2>4, <3>1, InsertAtOK
    <3> QED BY <3>2 DEF q
  <2> QED BY <1>4, <1>5, <2>5 DEF S
<1>10. TypeOK'
  <2>1. new \in DOMAIN upvals' /\ DOMAIN upvals \subseteq DOMAIN upvals'
    BY <1>5, <1>8
  <2> QED BY <1>1, <1>2, <1>7, <1>8, <1>9, <2>1, CaptureOK
<1>11. ASSUME NEW i \in 1 .. n + 1
       PROVE  Loc(i)' = IF i <= p THEN Loc(i) ELSE IF i = p + 1 THEN x ELSE Loc(i - 1)
  <2>1. CASE i <= p
    BY <1>4, <1>5, <1>7, <1>9, <2>1, HeapType DEF Loc
  <2>2. CASE i = p + 1
    BY <1>4, <1>5, <1>7, <1>9, <2>2 DEF Loc
  <2>3. CASE i > p + 1
    <3>1. i - 1 \in 1 .. n /\ open'[i] = open[i - 1]
      BY <1>4, <1>5, <1>9, <2>3
    <3>2. upvals'[open[i - 1]] = upvals[open[i - 1]]
      BY <1>7, <3>1, HeapType
    <3> QED BY <1>4, <1>5, <2>3, <3>1, <3>2 DEF Loc
  <2> QED BY <1>4, <1>5, <2>1, <2>2, <2>3
<1>12. UpvaluesOK'
  <2>1. DOMAIN open' = 1 .. n + 1
    BY <1>5, <1>9
  <2>2. \A i \in DOMAIN open' : Loc(i)' # Closed
    <3>1. Closed \notin OnStack
      BY SizesAssumption DEF Closed, OnStack
    <3>2. ASSUME NEW i \in 1 .. n + 1 PROVE Loc(i)' \in OnStack
      <4>1. i > p + 1 => i - 1 \in 1 .. n
        BY <1>4, <1>5
      <4>2. i <= p => i \in 1 .. n
        BY <1>4, <1>5
      <4> QED BY <1>3, <1>4, <1>5, <1>11, <4>1, <4>2, LocType
    <3> QED BY <2>1, <3>1, <3>2
  <2>3. ASSUME NEW i \in 1 .. n + 1, NEW j \in 1 .. n + 1, i < j
        PROVE  Loc(j)' < Loc(i)'
    <3>1. CASE j <= p
      BY <1>4, <1>5, <1>11, <2>3, <3>1, ListOK
    <3>2. CASE j = p + 1
      BY <1>3, <1>4, <1>5, <1>11, <2>3, <3>2
    <3>3. CASE j > p + 1 /\ i <= p
      <4>1. j - 1 \in 1 .. n /\ i \in 1 .. n /\ i < j - 1
        BY <1>4, <1>5, <2>3, <3>3
      <4> QED BY <1>4, <1>5, <1>11, <3>3, <4>1, ListOK
    <3>4. CASE j > p + 1 /\ i = p + 1
      <4>1. j - 1 \in 1 .. n /\ j - 1 > p
        BY <1>4, <1>5, <3>4
      <4> QED BY <1>4, <1>5, <1>6, <1>11, <3>4, <4>1
    <3>5. CASE j > p + 1 /\ i > p + 1
      <4>1. j - 1 \in 1 .. n /\ i - 1 \in 1 .. n /\ i - 1 < j - 1
        BY <1>4, <1>5, <2>3, <3>5
      <4> QED BY <1>4, <1>5, <1>11, <3>5, <4>1, ListOK
    <3> QED BY <1>4, <1>5, <3>1, <3>2, <3>3, <3>4, <3>5
  <2>4. ASSUME NEW u \in 1 .. new, upvals'[u].loc # Closed
        PROVE  \E i \in 1 .. n + 1 : open'[i] = u
    <3>1. CASE u = new
      <4>1. p + 1 \in 1 .. n + 1 /\ open'[p + 1] = u
        BY <1>4, <1>5, <1>9, <3>1
      <4> QED BY <4>1
    <3>2. CASE u # new
      <4>1. u \in 1 .. Len(upvals) /\ upvals[u].loc # Closed
        BY <1>5, <1>7, <2>4, <3>2
      <4>2. PICK i \in 1 .. n : open[i] = u
        BY <4>1, ListOK
      <4>3. CASE i <= p
        <5>1. i \in 1 .. n + 1 /\ open'[i] = u
          BY <1>5, <1>9, <4>2, <4>3
        <5> QED BY <5>1
      <4>4. CASE i > p
        <5>1. i + 1 \in 1 .. n + 1 /\ open'[i + 1] = u
          BY <1>4, <1>5, <1>9, <4>2, <4>4
        <5> QED BY <5>1
      <4> QED BY <1>4, <1>5, <4>3, <4>4
    <3> QED BY <3>1, <3>2
  <2> QED BY <1>8, <2>1, <2>2, <2>3, <2>4 DEF UpvaluesOK
<1> QED BY <1>10, <1>12

(***************************************************************************)
(* Calls and returns.                                                      *)
(***************************************************************************)
\* A call of a closure opens a window that ends at the top of the stack.
LEMMA CallIInv ==
  ASSUME IInv, CallClosure \/ CallNative \/ CallOther
  PROVE  IInv'
<1> USE DEF IInv
<1>1. CASE CallClosure
  <2>1. PICK i \in At({"CALL"}) :
          /\ IsClo(Callee(i))
          /\ frames' = Append([frames EXCEPT ![Len(frames)].ip = i.end],
                              [clo |-> Callee(i)[2], ip |-> 0, slots |-> top - i.arg - 1])
          /\ ip' = 0
          /\ UNCHANGED <<src, funcs, build, stack, top, heap, globals, out, status>>
    BY <1>1 DEF CallClosure
  <2>2. /\ frames # <<>> /\ i.end \in Nat
        /\ i.arg \in 0 .. top - 1
        /\ IsClo(Peek(i.arg)) => Len(frames) < MaxFrames
    BY <2>1, AtOK DEF Meaningful
  <2>3. top \in 0 .. StackSize /\ StackSize \in Nat
    BY StackType
  <2>4. Callee(i) \in LiveValue /\ Callee(i)[2] \in DOMAIN closures
    <3>1. i.arg \in Nat /\ i.arg < top
      BY <2>2, <2>3
    <3>2. Peek(i.arg) \in LiveValue
      BY <3>1, PeekOK
    <3> QED BY <2>1, <3>2 DEF Callee, LiveValue
  <2> DEFINE F == [clo : DOMAIN closures, ip : Nat, slots : OnStack]
             f == [clo |-> Callee(i)[2], ip |-> 0, slots |-> top - i.arg - 1]
             n == Len(frames)
             g == [frames[n] EXCEPT !.ip = i.end]
  <2>5. f \in F
    <3>1. top - i.arg - 1 \in OnStack
      BY <2>2, <2>3 DEF OnStack
    <3> QED BY <2>4, <3>1
  <2>6. frames \in Seq(F) /\ n \in 1 .. Len(frames) /\ frames[n] \in F
    BY <2>2, CurrentOK DEF TypeOK, Frame, Last
  <2>7. g \in F
    BY <2>2, <2>6
  <2>8. frames' = Append([frames EXCEPT ![n] = g], f)
    BY <2>1
  <2> HIDE DEF F, f, g
  <2>9. frames' \in Seq(F) /\ Len(frames') = n + 1 /\ frames' # <<>>
    <3>1. /\ [frames EXCEPT ![n] = g] \in Seq(F)
          /\ Len([frames EXCEPT ![n] = g]) = n
      BY <2>6, <2>7, ExceptSeq
    <3> DEFINE fs == [frames EXCEPT ![n] = g]
    <3> HIDE DEF fs
    <3>2. frames' = Append(fs, f) /\ fs \in Seq(F) /\ Len(fs) = n
      BY <2>8, <3>1 DEF fs
    <3> QED BY <2>5, <3>2, AppendProperties
  <2>10. Len(frames') <= MaxFrames
    BY <2>1, <2>2, <2>6, <2>9, SizesAssumption DEF Callee
  <2>11. LiveValue' = LiveValue
    BY <2>1 DEF LiveValue, heap
  <2>12. TypeOK'
    BY <2>1, <2>9, <2>10, <2>11 DEF TypeOK, heap, F
  <2>13. UpvaluesOK'
    BY <2>1 DEF UpvaluesOK, Loc, heap
  <2> QED BY <2>12, <2>13
<1>2. CASE CallNative
  <2>1. PICK i \in At({"CALL"}) :
          /\ Callee(i) = NativeVal
          /\ out' = out \o [n \in 1 .. i.arg |-> Text(Peek(i.arg - n))]
          /\ Replace(i.arg + 1, NullVal)
          /\ ip' = i.end
          /\ UNCHANGED <<src, funcs, build, frames, heap, globals, status>>
    BY <1>2 DEF CallNative
  <2>2. i.end \in Nat /\ i.arg \in 0 .. top - 1
    BY <2>1, AtOK DEF Meaningful
  <2>3. top \in 0 .. StackSize /\ StackSize \in Nat
    BY StackType
  <2>4. stack' \in [OnStack -> LiveValue] /\ top' \in 0 .. StackSize
    <3>1. i.arg + 1 \in 0 .. top /\ top - (i.arg + 1) < StackSize
      BY <2>2, <2>3
    <3> QED BY <2>1, <3>1, ValuesMade, ReplaceOK
  <2>5. out' \in Seq(Seq(Pieces))
    <3> DEFINE e(n) == Text(Peek(i.arg - n))
               S == Seq(Pieces)
               printed == [n \in 1 .. i.arg |-> e(n)]
    <3>1. ASSUME NEW n \in 1 .. i.arg PROVE e(n) \in S
      <4>1. i.arg - n \in Nat /\ i.arg - n < top
        BY <2>2, <2>3
      <4> QED BY <4>1, PeekOK, TextOK
    <3>2. i.arg \in Nat
      BY <2>2, <2>3
    <3>3. out \in Seq(S) /\ out' = out \o printed
      BY <2>1 DEF TypeOK
    <3> HIDE DEF e, S
    <3>4. printed \in Seq(S)
      BY <3>1, <3>2, IsASeq
    <3> HIDE DEF printed
    <3>5. out' \in Seq(S)
      BY <3>3, <3>4, ConcatProperties
    <3> QED BY <3>5 DEF S
  <2>6. LiveValue' = LiveValue
    BY <2>1 DEF LiveValue, heap
  <2>7. TypeOK'
    BY <2>1, <2>2, <2>4, <2>5, <2>6 DEF TypeOK, heap
  <2>8. UpvaluesOK'
    BY <2>1 DEF UpvaluesOK, Loc, heap
  <2> QED BY <2>7, <2>8
<1>3. CASE CallOther
  <2>1. PICK i \in At({"CALL"}) : ip' = i.end /\ Plain /\ UNCHANGED <<stack, top>>
    BY <1>3 DEF CallOther
  <2> QED BY <2>1, AtOK, StackType, PlainOK
<1> QED BY <1>1, <1>2, <1>3

\* A return hands the caller its frame back, the end of the script nobody.
LEMMA ReturnIInv ==
  ASSUME IInv, Return \/ Finish
  PROVE  IInv'
<1> USE DEF IInv
<1>1. CASE Return
  <2>1. PICK i \in At({"RET"}) :
          /\ Len(frames) > 1
          /\ CloseFrom(Frame.slots)
          /\ stack' = [stack EXCEPT ![Frame.slots] = Peek(0)]
          /\ top' = Frame.slots + 1
          /\ frames' = Front(frames)
          /\ ip' = frames[Len(frames) - 1].ip
          /\ UNCHANGED <<src, funcs, build, globals, out, status>>
    BY <1>1 DEF Return
  <2>2. i.op = "RET" /\ Meaningful(i) /\ frames # <<>>
    BY <2>1, AtOK
  <2>3. Operands(1)
    <3> DEFINE m == Len(frames)
    <3>1. m # 1
      <4>1. m > 1 /\ m \in Nat
        BY <2>1 DEF TypeOK
      <4> HIDE DEF m, IInv
      <4> QED BY <4>1
    <3>2. Operands(IF Len(frames) = 1 THEN 2 ELSE 1)
      BY <2>2 DEF Meaningful
    <3> QED BY <3>1, <3>2
  <2>4. Frame.slots \in OnStack /\ Frame.slots \in Int
    BY <2>2, CurrentOK, SizesAssumption DEF OnStack
  <2>5. /\ closures' = closures /\ pend' = pend
        /\ upvals' \in Seq([loc : OnStack \cup {Closed}, closed : LiveValue])
        /\ DOMAIN upvals' = DOMAIN upvals
        /\ open' \in Seq(DOMAIN upvals)
        /\ UpvaluesOK'
    BY <2>1, <2>4, CloseOK
  <2>6. stack' \in [OnStack -> LiveValue] /\ top' \in 0 .. StackSize
    <3>1. Peek(0) \in LiveValue
      BY <2>3, StackType, PeekOK DEF Operands
    <3>2. stack' \in [OnStack -> LiveValue]
      BY <2>1, <2>4, <3>1, StackType
    <3>3. top' \in 0 .. StackSize
      BY <2>1, <2>4, StackType DEF OnStack
    <3> QED BY <3>2, <3>3
  <2> DEFINE F == [clo : DOMAIN closures, ip : Nat, slots : OnStack]
             n == Len(frames)
  <2>7. /\ frames' \in Seq(F) /\ Len(frames') = n - 1 /\ frames' # <<>>
        /\ Len(frames') <= MaxFrames
        /\ ip' \in Nat
    <3>1. frames \in Seq(F) /\ n \in Nat /\ n > 1 /\ n <= MaxFrames
      BY <2>1, <2>2, CurrentOK DEF TypeOK
    <3>2. frames[n - 1] \in F
      <4>1. n - 1 \in 1 .. Len(frames)
        BY <3>1
      <4> HIDE DEF F
      <4> QED BY <3>1, <4>1, ElementOfSeq
    <3>3. frames' \in Seq(F) /\ Len(frames') = n - 1
      <4> HIDE DEF F
      <4>1. \A k \in 1 .. n - 1 : frames[k] \in F
        BY <3>1, ElementOfSeq
      <4>2. frames' = SubSeq(frames, 1, n - 1)
        BY <2>1 DEF Front
      <4> QED BY <3>1, <4>1, <4>2, SubSeqProperties
    <3>4. frames' # <<>> /\ Len(frames') <= MaxFrames
      BY <3>1, <3>3, SizesAssumption
    <3> QED BY <2>1, <3>2, <3>3, <3>4
  <2>8. LiveValue' = LiveValue
    BY <2>5 DEF LiveValue
  <2>9. TypeOK'
    BY <2>1, <2>5, <2>6, <2>7, <2>8 DEF TypeOK
  <2> QED BY <2>5, <2>9
<1>2. CASE Finish
  <2>1. PICK i \in At({"RET"}) :
          /\ Len(frames) = 1
          /\ CloseFrom(Frame.slots)
          /\ Drop(2)
          /\ frames' = <<>>
          /\ status' = "done"
          /\ UNCHANGED <<src, funcs, build, ip, globals, out>>
    BY <1>2 DEF Finish
  <2>2. i.op = "RET" /\ Meaningful(i) /\ frames # <<>>
    BY <2>1, AtOK
  <2>3. Operands(2)
    BY <2>1, <2>2 DEF Meaningful
  <2>4. Frame.slots \in Int
    BY <2>2, CurrentOK, SizesAssumption DEF OnStack
  <2>5. /\ closures' = closures /\ pend' = pend
        /\ upvals' \in Seq([loc : OnStack \cup {Closed}, closed : LiveValue])
        /\ DOMAIN upvals' = DOMAIN upvals
        /\ open' \in Seq(DOMAIN upvals)
        /\ UpvaluesOK'
    BY <2>1, <2>4, CloseOK
  <2>6. stack' \in [OnStack -> LiveValue] /\ top' \in 0 .. StackSize
    <3>1. 2 \in 0 .. top
      BY <2>3, StackType DEF Operands
    <3> QED BY <2>1, <3>1, DropOK
  <2>7. LiveValue' = LiveValue
    BY <2>5 DEF LiveValue
  <2>8. /\ frames' \in Seq([clo : DOMAIN closures', ip : Nat, slots : OnStack])
        /\ Len(frames') <= MaxFrames
    BY <2>1, SizesAssumption
  <2>9. TypeOK'
    BY <2>1, <2>5, <2>6, <2>7, <2>8 DEF TypeOK
  <2> QED BY <2>5, <2>9
<1> QED BY <1>1, <1>2

(***************************************************************************)
(* The invariant.                                                          *)
(***************************************************************************)
\* The machine starts in it.
LEMMA InitIInv == Init => IInv
<1> SUFFICES ASSUME Init PROVE IInv
  OBVIOUS
<1>1. src \in 1 .. Len(Programs) /\ funcs = Programs[src] /\ Len(funcs) > 0
  BY ProgramsAssumption DEF Init
<1>2. funcs \in Seq(FuncType) /\ 1 \in DOMAIN funcs
  <2>1. funcs \in Seq(FuncType)
    BY <1>1, ProgramsAssumption, ElementOfSeq
  <2>2. Len(funcs) \in Nat /\ DOMAIN funcs = 1 .. Len(funcs)
    BY <2>1
  <2> QED BY <1>1, <2>1, <2>2
<1>3. closures \in Seq([func : DOMAIN funcs, ups : Seq(DOMAIN upvals)]) /\ DOMAIN closures = {1}
  BY <1>2 DEF Init
<1>4. CloVal(1) \in LiveValue
  BY <1>3 DEF LiveValue, Values, CloVal
<1>5. stack \in [OnStack -> LiveValue]
  BY <1>4, ValuesMade DEF Init
<1>6. frames \in Seq([clo : DOMAIN closures, ip : Nat, slots : OnStack]) /\ Len(frames) = 1
  <2>1. 0 \in OnStack
    BY SizesAssumption DEF OnStack
  <2> QED BY <1>3, <2>1 DEF Init
<1>7. /\ upvals \in Seq([loc : OnStack \cup {Closed}, closed : LiveValue])
      /\ open \in Seq(DOMAIN upvals)
      /\ out \in Seq(Seq(Pieces))
  BY DEF Init
<1>8. \A n \in DOMAIN globals : globals[n] \in LiveValue
  BY ValuesMade DEF Init
<1>9. TypeOK
  BY <1>1, <1>3, <1>5, <1>6, <1>7, <1>8, SizesAssumption DEF Init, TypeOK
<1>10. UpvaluesOK
  BY DEF Init, UpvaluesOK
<1> QED BY <1>9, <1>10 DEF IInv

\* A step that changes nothing.
LEMMA StutterIInv ==
  ASSUME IInv, UNCHANGED vars
  PROVE  IInv'
  BY DEF IInv, TypeOK, UpvaluesOK, Loc, LiveValue, vars, heap

\* Every step keeps it.
LEMMA NextIInv == IInv /\ [Next]_vars => IInv'
<1> SUFFICES ASSUME IInv, [Next]_vars PROVE IInv'
  OBVIOUS
<1>1. CASE NullOp \/ Dup \/ Pop
  BY <1>1, SimpleIInv
<1>2. CASE ConstOp \/ GetLocal \/ SetLocal \/ Rotate
  BY <1>2, MoveIInv
<1>3. CASE Calculate \/ Compare \/ Neg
  BY <1>3, NumbersIInv
<1>4. CASE ToStr \/ Joined \/ Equiv
  BY <1>4, StringsIInv
<1>5. CASE Goto \/ Jmp \/ Branch
  BY <1>5, JumpsIInv
<1>6. CASE DefVar \/ SetVar \/ GetVar
  BY <1>6, GlobalsIInv
<1>7. CASE DivideByZero \/ Undefined \/ NoCase \/ Misbehave
  BY <1>7, StopsIInv
<1>8. CASE GetUpval \/ SetUpval
  BY <1>8, UpvalIInv
<1>9. CASE Close
  BY <1>9, CloseIInv
<1>10. CASE NewClosure
  BY <1>10, NewClosureIInv
<1>11. CASE ShareUpvalue \/ InheritUpvalue
  BY <1>11, ShareIInv
<1>12. CASE NewUpvalue
  BY <1>12, NewUpvalueIInv
<1>13. CASE CallClosure \/ CallNative \/ CallOther
  BY <1>13, CallIInv
<1>14. CASE Return \/ Finish
  BY <1>14, ReturnIInv
<1>15. CASE UNCHANGED vars
  BY <1>15, StutterIInv
<1> QED BY <1>1, <1>2, <1>3, <1>4, <1>5, <1>6, <1>7, <1>8, <1>9, <1>10, <1>11,
          <1>12, <1>13, <1>14, <1>15 DEF Next

\* The types and the list of open upvalues hold together.
THEOREM Invariance == Spec => []IInv
  BY InitIInv, NextIInv, PTL DEF Spec

\* Every reference of the machine leads somewhere, whatever bytecode it runs:
\* TypeOK, checked by the run of MCBytecode.
THEOREM TypeCorrect == Spec => []TypeOK
<1>1. IInv => TypeOK
  BY DEF IInv
<1> QED BY <1>1, Invariance, PTL

\* The list capture_upvalue and close_upvalues walk is sorted, without two
\* upvalues of one variable, and holds every upvalue that is not closed.
THEOREM OpenListSorted == Spec => []UpvaluesOK
<1>1. IInv => UpvaluesOK
  BY DEF IInv
<1> QED BY <1>1, Invariance, PTL

(***************************************************************************)
(* Upvalues over time.                                                     *)
(***************************************************************************)
\* What ClosedForGood says of a step.
LocsKept ==
  \A u \in DOMAIN upvals :
    upvals'[u].loc # upvals[u].loc => upvals[u].loc # Closed /\ upvals'[u].loc = Closed

\* close_upvalues moves nothing but open upvalues, and closes them.
LEMMA CloseKeepsLocs ==
  ASSUME IInv, NEW x \in Int, CloseFrom(x)
  PROVE  LocsKept
<1> SUFFICES ASSUME NEW u \in DOMAIN upvals, upvals'[u].loc # upvals[u].loc
             PROVE  upvals[u].loc # Closed /\ upvals'[u].loc = Closed
  BY DEF LocsKept
<1>1. /\ \E i \in 1 .. Above(x) : open[i] = u
      /\ upvals'[u] = [loc |-> Closed, closed |-> stack[upvals[u].loc]]
  BY DEF CloseFrom
<1>2. PICK i \in 1 .. Len(open) : open[i] = u
  <2>1. Above(x) \in 0 .. Len(open) /\ Len(open) \in Nat
    BY AboveOK, HeapType DEF IInv
  <2> QED BY <1>1, <2>1
<1>3. upvals[u].loc \in OnStack
  BY <1>2, LocType DEF Loc
<1> QED BY <1>1, <1>3, SizesAssumption DEF OnStack, Closed

\* Every step keeps the locations.
LEMMA NextKeepsLocs == IInv /\ [Next]_vars => LocsKept
<1> SUFFICES ASSUME IInv, [Next]_vars PROVE LocsKept
  OBVIOUS
<1>1. CASE UNCHANGED upvals
  BY <1>1 DEF LocsKept
<1>2. CASE SetUpval
  <2>1. PICK u : \/ \E v : upvals' = [upvals EXCEPT ![u].closed = v]
                 \/ UNCHANGED upvals
    BY <1>2 DEF SetUpval
  <2>2. \A w \in DOMAIN upvals : upvals'[w].loc = upvals[w].loc
    <3>1. \A w \in DOMAIN upvals : upvals[w] \in [loc : OnStack \cup {Closed}, closed : LiveValue]
      BY HeapType, ElementOfSeq DEF IInv
    <3> QED BY <2>1, <3>1
  <2> QED BY <2>2 DEF LocsKept
<1>3. CASE NewUpvalue
  <2>1. PICK e : upvals' = Append(upvals, e)
    BY <1>3 DEF NewUpvalue
  <2>2. \A w \in DOMAIN upvals : upvals'[w] = upvals[w]
    BY <2>1, HeapType DEF IInv
  <2> QED BY <2>2 DEF LocsKept
<1>4. CASE Close
  <2>1. CloseFrom(top - 1) /\ top - 1 \in Int
    BY <1>4, StackType DEF Close, IInv
  <2> QED BY <2>1, CloseKeepsLocs
<1>5. CASE Return \/ Finish
  <2>1. CloseFrom(Frame.slots) /\ frames # <<>>
    BY <1>5, AtOK DEF Return, Finish, IInv
  <2>2. Frame.slots \in Int
    BY <2>1, CurrentOK, SizesAssumption DEF OnStack, IInv
  <2> QED BY <2>1, <2>2, CloseKeepsLocs
<1>6. CASE Next
  BY <1>1, <1>2, <1>3, <1>4, <1>5, <1>6
     DEF Next, NullOp, ConstOp, Dup, Pop, Rotate, GetLocal, SetLocal, GetUpval, DefVar, SetVar,
         GetVar, Undefined, Calculate, Compare, Neg, DivideByZero, ToStr, Joined, Equiv, Goto,
         Jmp, Branch, NewClosure, ShareUpvalue, InheritUpvalue, CallClosure, CallNative,
         CallOther, NoCase, Misbehave, Plain, Plain1, heap
<1> QED BY <1>1, <1>6 DEF vars, heap

\* An upvalue closes once, and until then stays with its variable.
THEOREM UpvaluesCloseOnce == Spec => ClosedForGood
<1>1. IInv /\ [Next]_vars => [LocsKept]_vars
  BY NextKeepsLocs
<1>2. IInv /\ [Next]_vars
        => [\A u \in DOMAIN upvals :
              upvals'[u].loc # upvals[u].loc => upvals[u].loc # Closed /\ upvals'[u].loc = Closed]_vars
  BY <1>1 DEF LocsKept
<1> QED BY <1>2, Invariance, PTL DEF Spec, ClosedForGood
=============================================================================
