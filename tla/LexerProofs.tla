---------------------------- MODULE LexerProofs ----------------------------
(***************************************************************************)
(* Proofs about the lexer: the count of lines, and that it moves on, for   *)
(* every text, every size of interps and whatever interps holds at first.  *)
(***************************************************************************)
EXTENDS Lexer, NaturalMinimum

\* A record with a lexer's fields.
IsLexer(lx) ==
  lx = [text |-> lx.text, curr |-> lx.curr, line |-> lx.line, interps |-> lx.interps,
        sound |-> lx.sound, token |-> lx.token]

\* Changing several fields of a lexer at once.
LEMMA Fields ==
  ASSUME NEW lx, IsLexer(lx), NEW curr, NEW sound, NEW token
  PROVE  /\ [lx EXCEPT !.sound = sound, !.token = token]
            = [text |-> lx.text, curr |-> lx.curr, line |-> lx.line, interps |-> lx.interps,
               sound |-> sound, token |-> token]
         /\ [lx EXCEPT !.curr = curr, !.token = token]
            = [text |-> lx.text, curr |-> curr, line |-> lx.line, interps |-> lx.interps,
               sound |-> lx.sound, token |-> token]
<1> PICK t, c, l, i, s, k :
      lx = [text |-> t, curr |-> c, line |-> l, interps |-> i, sound |-> s, token |-> k]
  BY DEF IsLexer
<1> DEFINE a == [lx EXCEPT !.sound = sound]
           b == [lx EXCEPT !.curr = curr]
<1>1. /\ [lx EXCEPT !.sound = sound, !.token = token] = [a EXCEPT !.token = token]
      /\ [lx EXCEPT !.curr = curr, !.token = token] = [b EXCEPT !.token = token]
  OBVIOUS
<1>2. /\ a = [text |-> t, curr |-> c, line |-> l, interps |-> i, sound |-> sound, token |-> k]
      /\ b = [text |-> t, curr |-> curr, line |-> l, interps |-> i, sound |-> s, token |-> k]
  OBVIOUS
<1> HIDE DEF a, b
<1>3. /\ [a EXCEPT !.token = token]
         = [text |-> t, curr |-> c, line |-> l, interps |-> i, sound |-> sound, token |-> token]
      /\ [b EXCEPT !.token = token]
         = [text |-> t, curr |-> curr, line |-> l, interps |-> i, sound |-> s, token |-> token]
  BY <1>2
<1>4. lx.text = t /\ lx.curr = c /\ lx.line = l /\ lx.interps = i /\ lx.sound = s
  OBVIOUS
<1> QED BY <1>1, <1>3, <1>4, Zenon

\* What Overrun changes.
LEMMA OverrunIs ==
  ASSUME NEW lx, IsLexer(lx)
  PROVE  LET n == Overrun(lx) IN
         /\ IsLexer(n) /\ ~n.sound
         /\ n.text = lx.text /\ n.curr = lx.curr /\ n.line = lx.line /\ n.interps = lx.interps
<1> DEFINE none == Token("NONE", <<>>, NullVal)
<1>1. Overrun(lx) = [lx EXCEPT !.sound = FALSE, !.token = none]
  BY DEF Overrun
<1> HIDE DEF none
<1>2. [lx EXCEPT !.sound = FALSE, !.token = none]
      = [text |-> lx.text, curr |-> lx.curr, line |-> lx.line, interps |-> lx.interps,
         sound |-> FALSE, token |-> none]
  BY Fields
<1> QED BY <1>1, <1>2 DEF IsLexer

\* What Found changes.
LEMMA FoundIs ==
  ASSUME NEW lx, IsLexer(lx), NEW type, NEW q, NEW value
  PROVE  LET n == Found(lx, type, q, value) IN
         /\ IsLexer(n) /\ n.token.type = type /\ n.curr = q
         /\ n.text = lx.text /\ n.line = lx.line /\ n.interps = lx.interps
<1> DEFINE made == Token(type, SubSeq(lx.text, lx.curr, q - 1), value)
<1>1. Found(lx, type, q, value) = [lx EXCEPT !.curr = q, !.token = made]
  BY DEF Found
<1>2. made.type = type
  BY DEF Token
<1> HIDE DEF made
<1>3. [lx EXCEPT !.curr = q, !.token = made]
      = [text |-> lx.text, curr |-> q, line |-> lx.line, interps |-> lx.interps,
         sound |-> lx.sound, token |-> made]
  BY Fields
<1> QED BY <1>1, <1>2, <1>3 DEF IsLexer

\* What Count changes.
LEMMA CountIs ==
  ASSUME NEW lx, IsLexer(lx), NEW k
  PROVE  LET n == Count(lx, k) IN
         /\ IsLexer(n)
         /\ n.text = lx.text /\ n.line = lx.line /\ n.curr = lx.curr
         /\ n.interps = IF lx.interps = <<>> THEN lx.interps
                        ELSE [lx.interps EXCEPT ![Len(lx.interps)] = @ + k]
BY DEF Count, IsLexer

\* The interpolation that a closing brace ends.
Ended(lx) == [lx EXCEPT !.interps = Front(@)]

\* What Ended changes.
LEMMA EndedIs ==
  ASSUME NEW lx, IsLexer(lx)
  PROVE  LET n == Ended(lx) IN
         /\ IsLexer(n) /\ n.interps = Front(lx.interps)
         /\ n.text = lx.text /\ n.line = lx.line /\ n.curr = lx.curr
BY DEF Ended, IsLexer

\* What String makes of the string it has found.
LEMMA StringIs ==
  ASSUME NEW lx, IsLexer(lx), NEW quote
  PROVE  LET n == String(lx, quote)
             str == StringFrom(lx.text, lx.curr + 1, quote)
         IN  /\ IsLexer(n) /\ n.text = lx.text
             /\ \/ /\ ~n.sound /\ n.curr = lx.curr
                   /\ n.line = lx.line /\ n.interps = lx.interps
                \/ /\ str.by # "OVERRUN" /\ n.curr = str.end
                   /\ n.line = lx.line + NewLines(lx.text, lx.curr, str.end)
                   /\ n.interps = IF str.by = "INTERP" THEN Append(lx.interps, 1)
                                  ELSE lx.interps
                   /\ ~(Len(n.interps) > MaxInterps)
<1> DEFINE str == StringFrom(lx.text, lx.curr + 1, quote)
           new == IF str.by = "INTERP" THEN Append(lx.interps, 1) ELSE lx.interps
           found == Found(lx, str.by, str.end, StrVal(str.value))
<1>1. String(lx, quote) = IF str.by = "OVERRUN" \/ Len(new) > MaxInterps THEN Overrun(lx)
                          ELSE [found EXCEPT
                                  !.line    = @ + NewLines(lx.text, lx.curr, str.end),
                                  !.interps = new]
  BY DEF String
<1>2. IsLexer(found) /\ found.text = lx.text /\ found.line = lx.line /\ found.curr = str.end
  BY FoundIs
<1> HIDE DEF str, found, new
<1>3. CASE str.by = "OVERRUN" \/ Len(new) > MaxInterps
  BY <1>1, <1>3, OverrunIs DEF str
<1>4. CASE ~(str.by = "OVERRUN" \/ Len(new) > MaxInterps)
  BY <1>1, <1>2, <1>4 DEF str, new, IsLexer
<1> QED BY <1>3, <1>4

\* Scan skips what is no token, then takes one.
LEMMA ScanIs ==
  ASSUME NEW lx, IsLexer(lx)
  PROVE  LET at == [lx EXCEPT !.curr = Useful(lx.text, lx.curr)]
         IN  /\ Scan(lx) = TokenAt(at) /\ IsLexer(at) /\ at.curr = Useful(lx.text, lx.curr)
             /\ at.text = lx.text /\ at.line = lx.line /\ at.interps = lx.interps
BY DEF Scan, IsLexer

(***************************************************************************)
(* Line ends.                                                              *)
(***************************************************************************)
Clear(text, p, q) == \A r \in p .. q - 1 : text[r] # "\n"

\* Line ends are counted.
LEMMA NewLinesNat ==
  ASSUME NEW text, NEW p \in Nat, NEW q \in Nat
  PROVE  NewLines(text, p, q) \in Nat
<1> DEFINE L == {r \in p .. q - 1 : text[r] = "\n"}
<1>1. IsFiniteSet(p .. q - 1) /\ L \in SUBSET (p .. q - 1)
  BY FS_Interval
<1> HIDE DEF L
<1>2. IsFiniteSet(L)
  BY <1>1, FS_Subset
<1> QED BY <1>2, FS_CardinalityType DEF NewLines, L

\* The line ends of two stretches add up.
LEMMA NewLinesAdd ==
  ASSUME NEW text, NEW p \in Nat, NEW q \in Nat, NEW r \in Nat, p <= q, q <= r
  PROVE  /\ NewLines(text, p, q) \in Nat
         /\ NewLines(text, p, r) = NewLines(text, p, q) + NewLines(text, q, r)
<1> DEFINE L(a, b) == {x \in a .. b - 1 : text[x] = "\n"}
<1>1. \A a, b \in Nat : IsFiniteSet(L(a, b))
  <2> SUFFICES ASSUME NEW a \in Nat, NEW b \in Nat PROVE IsFiniteSet(L(a, b))
    OBVIOUS
  <2>1. IsFiniteSet(a .. b - 1) /\ L(a, b) \in SUBSET (a .. b - 1)
    BY FS_Interval
  <2> QED BY <2>1, FS_Subset
<1>2. L(p, r) = L(p, q) \cup L(q, r) /\ L(p, q) \cap L(q, r) = {}
  OBVIOUS
<1>3. \A a, b \in Nat : NewLines(text, a, b) = Cardinality(L(a, b))
  BY DEF NewLines
<1> HIDE DEF L
<1>4. Cardinality(L(p, q)) \in Nat /\ Cardinality(L(q, r)) \in Nat
  BY <1>1, FS_CardinalityType
<1>5. Cardinality(L(p, r)) = Cardinality(L(p, q)) + Cardinality(L(q, r))
  <2>1. Cardinality(L(p, q) \cap L(q, r)) = 0
    BY <1>2, FS_EmptySet
  <2>2. IsFiniteSet(L(p, q)) /\ IsFiniteSet(L(q, r))
    BY <1>1
  <2>3. Cardinality(L(p, q) \cup L(q, r))
        = Cardinality(L(p, q)) + Cardinality(L(q, r)) - Cardinality(L(p, q) \cap L(q, r))
    BY <2>2, FS_Union
  <2> QED BY <1>2, <1>4, <2>1, <2>3
<1> QED BY <1>3, <1>4, <1>5

\* A stretch without line ends.
LEMMA NewLinesClear ==
  ASSUME NEW text, NEW p \in Nat, NEW q \in Nat, Clear(text, p, q)
  PROVE  NewLines(text, p, q) = 0
<1>1. {r \in p .. q - 1 : text[r] = "\n"} = {}
  BY DEF Clear
<1> QED BY <1>1, FS_EmptySet DEF NewLines

\* A line end is one.
LEMMA NewLinesOne ==
  ASSUME NEW text, NEW p \in Nat, text[p] = "\n"
  PROVE  NewLines(text, p, p + 1) = 1
<1>1. {r \in p .. (p + 1) - 1 : text[r] = "\n"} = {p}
  OBVIOUS
<1> QED BY <1>1, FS_Singleton DEF NewLines

(***************************************************************************)
(* Where the scanner's loops stop.                                         *)
(***************************************************************************)
\* The first position from p on at which the text ends or P, a set of
\* positions, begins.
LEMMA FirstStop ==
  ASSUME NEW text \in Seq(STRING), NEW p \in 1 .. Len(text) + 1,
         NEW P, Len(text) + 1 \in P
  PROVE  \E q \in p .. Len(text) + 1 : q \in P /\ \A r \in p .. q - 1 : r \notin P
<1> DEFINE S == {q \in p .. Len(text) + 1 : q \in P}
<1>1. Len(text) + 1 \in S /\ S \subseteq Nat
  OBVIOUS
<1>2. PICK q \in S : \A r \in S : q <= r
  BY <1>1, MinExists, Zenon
<1>3. ASSUME NEW r \in p .. q - 1 PROVE r \notin P
  BY <1>2, <1>3
<1> QED BY <1>2, <1>3

\* Past stops at the first character that is not in chars.
LEMMA PastStops ==
  ASSUME NEW text \in Seq(STRING), NEW p \in 1 .. Len(text) + 1,
         NEW chars, Nul \notin chars
  PROVE  LET q == Past(text, p, chars) IN
         /\ q \in p .. Len(text) + 1
         /\ CharAt(text, q) \notin chars
         /\ \A r \in p .. q - 1 : CharAt(text, r) \in chars
<1> DEFINE P == {q \in 1 .. Len(text) + 1 : CharAt(text, q) \notin chars}
<1>1. Len(text) + 1 \in P
  BY DEF CharAt
<1>2. PICK q \in p .. Len(text) + 1 : q \in P /\ \A r \in p .. q - 1 : r \notin P
  <2> HIDE DEF P
  <2> QED BY <1>1, FirstStop
<1>3. \A r \in p .. q - 1 : CharAt(text, r) \in chars
  BY <1>2
<1> QED BY <1>2, <1>3 DEF Past

\* UpTo stops at the first character that is in chars, or where the text ends.
LEMMA UpToStops ==
  ASSUME NEW text \in Seq(STRING), NEW p \in 1 .. Len(text) + 1, NEW chars
  PROVE  LET q == UpTo(text, p, chars) IN
         /\ q \in p .. Len(text) + 1
         /\ CharAt(text, q) \in chars \cup {Nul}
         /\ \A r \in p .. q - 1 : CharAt(text, r) \notin chars \cup {Nul}
<1> DEFINE P == {q \in 1 .. Len(text) + 1 : CharAt(text, q) \in chars \cup {Nul}}
<1>1. Len(text) + 1 \in P
  BY DEF CharAt
<1>2. PICK q \in p .. Len(text) + 1 : q \in P /\ \A r \in p .. q - 1 : r \notin P
  <2> HIDE DEF P
  <2> QED BY <1>1, FirstStop
<1>3. \A r \in p .. q - 1 : CharAt(text, r) \notin chars \cup {Nul}
  BY <1>2
<1> QED BY <1>2, <1>3 DEF UpTo

(***************************************************************************)
(* skip_useless, a recursion from the end of the text: there is a function *)
(* as it is defined, and what it gives comes from behind.                  *)
(***************************************************************************)
SkipStep(text, f, p) ==
  CASE CharAt(text, p) \in {" ", "\t"} -> f[p + 1]
    [] CharAt(text, p) = ";"           -> f[UpTo(text, p, {"\n"})]
    [] OTHER                           -> p

\* A step of skip_useless ends or goes on further behind, and passes no line end.
LEMMA SkipStepIs ==
  ASSUME NEW text \in Seq(STRING), NEW p \in 1 .. Len(text) + 1
  PROVE  \/ \A f : SkipStep(text, f, p) = p
         \/ \E q \in p + 1 .. Len(text) + 1 :
              Clear(text, p, q) /\ \A f : SkipStep(text, f, p) = f[q]
<1> DEFINE c == CharAt(text, p)
<1>1. CASE c \in {" ", "\t"}
  <2>1. p \in 1 .. Len(text) /\ text[p] # "\n"
    <3>1. c # Nul /\ c # "\n"
      BY <1>1 DEF Nul
    <3> QED BY <3>1 DEF CharAt
  <2>2. p + 1 \in p + 1 .. Len(text) + 1 /\ Clear(text, p, p + 1)
    BY <2>1 DEF Clear
  <2>3. c # ";"
    BY <1>1
  <2>4. \A f : SkipStep(text, f, p) = f[p + 1]
    BY <1>1, <2>3, Zenon DEF SkipStep
  <2> QED BY <2>2, <2>4
<1>2. CASE c = ";"
  <2> DEFINE q == UpTo(text, p, {"\n"})
  <2>1. /\ q \in p .. Len(text) + 1
        /\ CharAt(text, q) \in {"\n", Nul}
        /\ \A r \in p .. q - 1 : CharAt(text, r) \notin {"\n", Nul}
    BY UpToStops
  <2>2. q # p
    BY <1>2, <2>1 DEF Nul
  <2>3. Clear(text, p, q)
    BY <2>1 DEF Clear, CharAt
  <2>4. c \notin {" ", "\t"}
    BY <1>2
  <2>5. \A f : SkipStep(text, f, p) = f[q]
    BY <1>2, <2>4, Zenon DEF SkipStep
  <2>6. q \in p + 1 .. Len(text) + 1
    BY <2>1, <2>2
  <2> HIDE DEF q
  <2> QED BY <2>3, <2>5, <2>6
<1>3. CASE c \notin {" ", "\t"} /\ c # ";"
  BY <1>3, Zenon DEF SkipStep
<1> QED BY <1>1, <1>2, <1>3

\* So its recursion defines a function.
LEMMA SkipExists ==
  ASSUME NEW text \in Seq(STRING)
  PROVE  \E f : f = [p \in 1 .. Len(text) + 1 |-> SkipStep(text, f, p)]
<1> DEFINE N == Len(text) + 1
           Is(f, n) == f = [p \in n .. N |-> SkipStep(text, f, p)]
           S == {k \in 0 .. N - 1 : ~ \E f : Is(f, N - k)}
<1>1. N \in Nat \ {0}
  OBVIOUS
<1>2. S = {}
  <2> SUFFICES ASSUME S # {} PROVE FALSE
    OBVIOUS
  <2>1. PICK k \in S : \A j \in S : k <= j
    <3>1. S \subseteq Nat
      BY <1>1
    <3> HIDE DEF S
    <3> QED BY <3>1, MinExists
  <2>2. k \in 0 .. N - 1 /\ ~ \E f : Is(f, N - k)
    BY <2>1
  <2> DEFINE n == N - k
  <2>3. n \in 1 .. N
    BY <1>1, <2>2
  <2>4. \E g : \A p \in n + 1 .. N : g[p] = SkipStep(text, g, p)
    <3>1. CASE k = 0
      BY <3>1, <1>1
    <3>2. CASE k # 0
      <4>1. k - 1 \in 0 .. N - 1 /\ k - 1 < k /\ N - (k - 1) = n + 1
        BY <3>2, <2>2, <1>1
      <4>2. k - 1 \notin S
        <5> HIDE DEF S
        <5>1. k \in Int
          BY <2>2
        <5> QED BY <2>1, <4>1, <5>1
      <4>3. PICK g : Is(g, n + 1)
        BY <4>1, <4>2
      <4> HIDE DEF n
      <4> QED BY <4>3
    <3> QED BY <3>1, <3>2
  <2>5. PICK g : \A p \in n + 1 .. N : g[p] = SkipStep(text, g, p)
    BY <2>4
  <2> DEFINE h == [p \in n .. N |-> IF p = n THEN SkipStep(text, g, n) ELSE g[p]]
  <2>6. \A p \in n .. N : SkipStep(text, h, p) = SkipStep(text, g, p)
    <3> SUFFICES ASSUME NEW p \in n .. N PROVE SkipStep(text, h, p) = SkipStep(text, g, p)
      OBVIOUS
    <3>1. p \in 1 .. Len(text) + 1
      BY <2>3, <1>1
    <3>2. \A q \in p + 1 .. N : h[q] = g[q]
      BY <2>3, <1>1
    <3> HIDE DEF h, n
    <3> QED BY <3>1, <3>2, SkipStepIs
  <2>7. \A p \in n .. N : h[p] = SkipStep(text, g, p)
    <3> HIDE DEF N
    <3> QED BY <2>5, <2>3, <1>1
  <2>8. Is(h, n)
    <3>1. h = [p \in n .. N |-> h[p]]
      OBVIOUS
    <3> HIDE DEF h, n, N
    <3> QED BY <3>1, <2>6, <2>7
  <2> QED BY <2>8, <2>2
<1>3. \E f : Is(f, 1)
  <2>1. N - 1 \in 0 .. N - 1 /\ N - (N - 1) = 1
    BY <1>1
  <2>2. N - 1 \notin S
    BY <1>2
  <2> HIDE DEF N
  <2> QED BY <2>1, <2>2
<1> QED BY <1>3

\* skip_useless stays in the text and passes no line end.
LEMMA UsefulIs ==
  ASSUME NEW text \in Seq(STRING), NEW p \in 1 .. Len(text) + 1
  PROVE  Useful(text, p) \in p .. Len(text) + 1 /\ Clear(text, p, Useful(text, p))
<1> DEFINE N == Len(text) + 1
           skip == CHOOSE f : f = [q \in 1 .. N |-> SkipStep(text, f, q)]
           Good(q) == skip[q] \in q .. N /\ Clear(text, q, skip[q])
           S == {k \in 0 .. N - 1 : ~Good(N - k)}
<1>1. Useful(text, p) = skip[p]
  BY DEF Useful, SkipStep
<1>2. skip = [q \in 1 .. N |-> SkipStep(text, skip, q)]
  <2> DEFINE F(f) == [q \in 1 .. N |-> SkipStep(text, f, q)]
  <2>1. \E f : f = F(f)
    BY SkipExists
  <2>2. skip = CHOOSE f : f = F(f)
    OBVIOUS
  <2> HIDE DEF F, skip
  <2>3. skip = F(skip)
    BY <2>1, <2>2
  <2> QED BY <2>3 DEF F
<1> HIDE DEF skip
<1>3. S = {}
  <2> SUFFICES ASSUME S # {} PROVE FALSE
    OBVIOUS
  <2>1. PICK k \in S : \A j \in S : k <= j
    <3>1. S \subseteq Nat
      OBVIOUS
    <3> HIDE DEF S
    <3> QED BY <3>1, MinExists
  <2> DEFINE n == N - k
  <2>2. n \in 1 .. N /\ ~Good(n)
    BY <2>1
  <2>3. \A q \in n + 1 .. N : Good(q)
    <3> SUFFICES ASSUME NEW q \in n + 1 .. N PROVE Good(q)
      OBVIOUS
    <3>1. N - q \in 0 .. N - 1 /\ N - q < k /\ N - (N - q) = q
      BY <2>1
    <3>2. N - q \notin S
      BY <3>1, <2>1
    <3> HIDE DEF Good
    <3> QED BY <3>1, <3>2
  <2>4. skip[n] = SkipStep(text, skip, n)
    BY <1>2, <2>2
  <2>5. CASE \A f : SkipStep(text, f, n) = n
    BY <2>2, <2>4, <2>5 DEF Clear
  <2>6. CASE \E q \in n + 1 .. N : Clear(text, n, q) /\ \A f : SkipStep(text, f, n) = f[q]
    <3>1. PICK q \in n + 1 .. N : Clear(text, n, q) /\ skip[n] = skip[q]
      BY <2>4, <2>6
    <3>2. Good(q)
      BY <2>3
    <3> HIDE DEF n
    <3>3. skip[n] \in n .. N /\ Clear(text, n, skip[n])
      BY <2>2, <3>1, <3>2 DEF Clear
    <3> QED BY <2>2, <3>3
  <2> QED BY <2>2, <2>5, <2>6, SkipStepIs
<1>4. Good(p)
  <2>1. N - p \in 0 .. N - 1 /\ N - (N - p) = p
    OBVIOUS
  <2>2. N - p \notin S
    BY <1>3
  <2> HIDE DEF Good
  <2> QED BY <2>1, <2>2
<1> QED BY <1>1, <1>4

(***************************************************************************)
(* double_str and single_str, in the same way.                             *)
(***************************************************************************)
Quotes == {"\"", "'"}
PartOf(value, end, by) == [value |-> value, end |-> end, by |-> by]
PartBehind(chars, part) == [part EXCEPT !.value = chars \o @]
IsPart(part) == part = [value |-> part.value, end |-> part.end, by |-> part.by]

StringStep(text, quote, f, p) ==
  CASE p > Len(text)      -> PartOf(<<>>, p, "OVERRUN")
    [] CharAt(text, p) = quote -> PartOf(<<>>, p + 1, "STRING")
    [] CharAt(text, p) = "\\"  -> PartBehind(Escaped(quote, CharAt(text, p + 1)), f[p + 2])
    [] CharAt(text, p) = "#" /\ CharAt(text, p + 1) = "{" /\ quote = "'"
                          -> PartOf(<<>>, p + 2, "INTERP")
    [] OTHER              -> PartBehind(<<CharAt(text, p)>>, f[p + 1])

\* No quote is a sign the loop over a string looks for.
LEMMA QuotesAre == \A quote \in Quotes : quote # Nul /\ quote # "\\" /\ quote # "#"
BY Zenon DEF Quotes, Nul

\* A step of the loop over a string ends it or goes on further behind.
LEMMA StringStepIs ==
  ASSUME NEW text \in Seq(STRING), NEW quote \in Quotes, NEW p \in 1 .. Len(text) + 2
  PROVE  \/ \A f : StringStep(text, quote, f, p) = PartOf(<<>>, p, "OVERRUN")
         \/ \E e \in p + 1 .. Len(text) + 1, by \in {"STRING", "INTERP"} :
              \A f : StringStep(text, quote, f, p) = PartOf(<<>>, e, by)
         \/ \E q \in p + 1 .. Len(text) + 2 : \E chars :
              \A f : StringStep(text, quote, f, p) = PartBehind(chars, f[q])
<1>1. CASE p > Len(text)
  <2>1. \A f : StringStep(text, quote, f, p) = PartOf(<<>>, p, "OVERRUN")
    <3>1. CharAt(text, p) = Nul
      BY <1>1 DEF CharAt
    <3>2. CharAt(text, p) # quote /\ CharAt(text, p) # "\\" /\ CharAt(text, p) # "#"
      BY <3>1, QuotesAre, Zenon DEF Nul
    <3> QED BY <1>1, <3>2, Zenon DEF StringStep
  <2> QED BY <2>1
<1>2. CASE ~(p > Len(text)) /\ CharAt(text, p) = quote
  <2>1. \A f : StringStep(text, quote, f, p) = PartOf(<<>>, p + 1, "STRING")
    <3>1. CharAt(text, p) # "\\" /\ CharAt(text, p) # "#"
      BY <1>2, QuotesAre, Zenon
    <3> QED BY <1>2, <3>1, Zenon DEF StringStep
  <2>2. p + 1 \in p + 1 .. Len(text) + 1
    BY <1>2
  <2> QED BY <2>1, <2>2
<1>3. CASE ~(p > Len(text)) /\ CharAt(text, p) = "\\"
  <2> DEFINE chars == Escaped(quote, CharAt(text, p + 1))
  <2>1. \A f : StringStep(text, quote, f, p) = PartBehind(chars, f[p + 2])
    <3>1. CharAt(text, p) # quote /\ CharAt(text, p) # "#"
      BY <1>3, QuotesAre, Zenon
    <3> QED BY <1>3, <3>1, Zenon DEF StringStep
  <2>2. p + 2 \in p + 1 .. Len(text) + 2
    BY <1>3
  <2> HIDE DEF chars
  <2> QED BY <2>1, <2>2
<1>4. CASE /\ ~(p > Len(text)) /\ CharAt(text, p) # quote /\ CharAt(text, p) # "\\"
           /\ CharAt(text, p) = "#" /\ CharAt(text, p + 1) = "{" /\ quote = "'"
  <2>1. \A f : StringStep(text, quote, f, p) = PartOf(<<>>, p + 2, "INTERP")
    BY <1>4, Zenon DEF StringStep
  <2>2. p + 2 \in p + 1 .. Len(text) + 1
    <3>1. CharAt(text, p + 1) # Nul
      BY <1>4 DEF Nul
    <3> QED BY <3>1 DEF CharAt
  <2> QED BY <2>1, <2>2
<1>5. CASE /\ ~(p > Len(text)) /\ CharAt(text, p) # quote /\ CharAt(text, p) # "\\"
           /\ ~(CharAt(text, p) = "#" /\ CharAt(text, p + 1) = "{" /\ quote = "'")
  <2>1. \A f : StringStep(text, quote, f, p) = PartBehind(<<CharAt(text, p)>>, f[p + 1])
    BY <1>5, Zenon DEF StringStep
  <2>2. p + 1 \in p + 1 .. Len(text) + 2
    <3>1. ~(p > Len(text))
      BY <1>5, Zenon
    <3> QED BY <3>1
  <2> QED BY <2>1, <2>2
<1> QED BY <1>1, <1>2, <1>3, <1>4, <1>5

\* So its recursion defines a function.
LEMMA StringExists ==
  ASSUME NEW text \in Seq(STRING), NEW quote \in Quotes
  PROVE  \E f : f = [p \in 1 .. Len(text) + 2 |-> StringStep(text, quote, f, p)]
<1> DEFINE N == Len(text) + 2
           Is(f, n) == f = [p \in n .. N |-> StringStep(text, quote, f, p)]
           S == {k \in 0 .. N - 1 : ~ \E f : Is(f, N - k)}
<1>1. N \in Nat \ {0}
  OBVIOUS
<1>2. S = {}
  <2> SUFFICES ASSUME S # {} PROVE FALSE
    OBVIOUS
  <2>1. PICK k \in S : \A j \in S : k <= j
    <3>1. S \subseteq Nat
      BY <1>1
    <3> HIDE DEF S
    <3> QED BY <3>1, MinExists
  <2>2. k \in 0 .. N - 1 /\ ~ \E f : Is(f, N - k)
    BY <2>1
  <2> DEFINE n == N - k
  <2>3. n \in 1 .. N
    BY <1>1, <2>2
  <2>4. \E g : \A p \in n + 1 .. N : g[p] = StringStep(text, quote, g, p)
    <3>1. CASE k = 0
      BY <3>1, <1>1
    <3>2. CASE k # 0
      <4>1. k - 1 \in 0 .. N - 1 /\ k - 1 < k /\ N - (k - 1) = n + 1
        BY <3>2, <2>2, <1>1
      <4>2. k - 1 \notin S
        <5> HIDE DEF S
        <5>1. k \in Int
          BY <2>2
        <5> QED BY <2>1, <4>1, <5>1
      <4>3. PICK g : Is(g, n + 1)
        BY <4>1, <4>2
      <4> HIDE DEF n
      <4> QED BY <4>3
    <3> QED BY <3>1, <3>2
  <2>5. PICK g : \A p \in n + 1 .. N : g[p] = StringStep(text, quote, g, p)
    BY <2>4
  <2> DEFINE h == [p \in n .. N |-> IF p = n THEN StringStep(text, quote, g, n) ELSE g[p]]
  <2>6. \A p \in n .. N : StringStep(text, quote, h, p) = StringStep(text, quote, g, p)
    <3> SUFFICES ASSUME NEW p \in n .. N
                 PROVE  StringStep(text, quote, h, p) = StringStep(text, quote, g, p)
      OBVIOUS
    <3>1. p \in 1 .. Len(text) + 2
      BY <2>3, <1>1
    <3>2. \A q \in p + 1 .. N : h[q] = g[q]
      BY <2>3, <1>1
    <3> HIDE DEF h, n
    <3> QED BY <3>1, <3>2, StringStepIs
  <2>7. \A p \in n .. N : h[p] = StringStep(text, quote, g, p)
    <3> HIDE DEF N
    <3> QED BY <2>5, <2>3, <1>1
  <2>8. Is(h, n)
    <3>1. h = [p \in n .. N |-> h[p]]
      OBVIOUS
    <3> HIDE DEF h, n, N
    <3> QED BY <3>1, <2>6, <2>7
  <2> QED BY <2>8, <2>2
<1>3. \E f : Is(f, 1)
  <2>1. N - 1 \in 0 .. N - 1 /\ N - (N - 1) = 1
    BY <1>1
  <2>2. N - 1 \notin S
    BY <1>2
  <2> HIDE DEF N
  <2> QED BY <2>1, <2>2
<1> QED BY <1>3

\* A string that is closed ends in the text.
LEMMA StringFromIs ==
  ASSUME NEW text \in Seq(STRING), NEW quote \in Quotes, NEW p \in 1 .. Len(text) + 2
  PROVE  LET str == StringFrom(text, p, quote)
         IN  str.by = "OVERRUN" \/ str.end \in p + 1 .. Len(text) + 1
<1> DEFINE N == Len(text) + 2
           loop == CHOOSE f : f = [q \in 1 .. N |-> StringStep(text, quote, f, q)]
           Good(q) == IsPart(loop[q]) /\ (loop[q].by = "OVERRUN" \/ loop[q].end \in q + 1 .. N - 1)
           S == {k \in 0 .. N - 1 : ~Good(N - k)}
<1>1. StringFrom(text, p, quote) = loop[p]
  BY DEF StringFrom, StringStep, PartOf, PartBehind
<1>2. loop = [q \in 1 .. N |-> StringStep(text, quote, loop, q)]
  <2> DEFINE F(f) == [q \in 1 .. N |-> StringStep(text, quote, f, q)]
  <2>1. \E f : f = F(f)
    BY StringExists
  <2>2. loop = CHOOSE f : f = F(f)
    OBVIOUS
  <2> HIDE DEF F, loop
  <2>3. loop = F(loop)
    BY <2>1, <2>2
  <2> QED BY <2>3 DEF F
<1> HIDE DEF loop
<1>3. S = {}
  <2> SUFFICES ASSUME S # {} PROVE FALSE
    OBVIOUS
  <2>1. PICK k \in S : \A j \in S : k <= j
    <3>1. S \subseteq Nat
      OBVIOUS
    <3> HIDE DEF S
    <3> QED BY <3>1, MinExists
  <2> DEFINE n == N - k
  <2>2. n \in 1 .. N /\ ~Good(n)
    BY <2>1
  <2>3. \A q \in n + 1 .. N : Good(q)
    <3> SUFFICES ASSUME NEW q \in n + 1 .. N PROVE Good(q)
      OBVIOUS
    <3>1. N - q \in 0 .. N - 1 /\ N - q < k /\ N - (N - q) = q
      BY <2>1
    <3>2. N - q \notin S
      BY <3>1, <2>1
    <3> HIDE DEF Good
    <3> QED BY <3>1, <3>2
  <2>4. loop[n] = StringStep(text, quote, loop, n)
    BY <1>2, <2>2
  <2>5. CASE loop[n] = PartOf(<<>>, n, "OVERRUN")
    BY <2>2, <2>5 DEF PartOf, IsPart
  <2>6. ASSUME NEW e \in n + 1 .. N - 1, NEW by, loop[n] = PartOf(<<>>, e, by)
        PROVE  FALSE
    BY <2>2, <2>6 DEF PartOf, IsPart
  <2>7. ASSUME NEW q \in n + 1 .. N, NEW chars, loop[n] = PartBehind(chars, loop[q])
        PROVE  FALSE
    <3>1. Good(q)
      BY <2>3
    <3>2. /\ IsPart(loop[n])
          /\ loop[n].by = loop[q].by /\ loop[n].end = loop[q].end
      BY <2>7, <3>1 DEF PartBehind, IsPart
    <3> QED BY <2>2, <3>1, <3>2
  <2>8. \/ loop[n] = PartOf(<<>>, n, "OVERRUN")
        \/ \E e \in n + 1 .. N - 1 : \E by : loop[n] = PartOf(<<>>, e, by)
        \/ \E q \in n + 1 .. N : \E chars : loop[n] = PartBehind(chars, loop[q])
    <3>1. Len(text) + 1 = N - 1 /\ n \in 1 .. Len(text) + 2
      BY <2>2
    <3> HIDE DEF n
    <3>2. \/ \A f : StringStep(text, quote, f, n) = PartOf(<<>>, n, "OVERRUN")
          \/ \E e \in n + 1 .. Len(text) + 1, by \in {"STRING", "INTERP"} :
               \A f : StringStep(text, quote, f, n) = PartOf(<<>>, e, by)
          \/ \E q \in n + 1 .. Len(text) + 2 : \E chars :
               \A f : StringStep(text, quote, f, n) = PartBehind(chars, f[q])
      BY <3>1, StringStepIs
    <3> QED BY <3>1, <3>2, <2>4
  <2> QED BY <2>5, <2>6, <2>7, <2>8
<1>4. Good(p)
  <2>1. N - p \in 0 .. N - 1 /\ N - (N - p) = p
    OBVIOUS
  <2>2. N - p \notin S
    BY <1>3
  <2> HIDE DEF Good
  <2> QED BY <2>1, <2>2
<1> QED BY <1>1, <1>4

(***************************************************************************)
(* The operators.                                                          *)
(***************************************************************************)
\* The characters an operator begins with, each of them an operator by itself.
Starts == {"+", "=", "-", ">", "*", "/", "^", "%", "<", "&", "|", "?", "~", "(", ")", "[", "]",
           ":", ","}
Begun(o)  == o[1][1] \in Starts
Plain(c)  == c # "\n" /\ c # Nul
Signed(o) == Len(o[1]) \in 1 .. 3 /\ \A i \in 1 .. Len(o[1]) : Plain(o[1][i])

\* An operator has one to three characters, none of them a line end.
LEMMA OperatorsAre == \A o \in Operators : Signed(o)
<1>1. \A a, t : Plain(a) => Signed(<<<<a>>, t>>)
  BY DEF Signed
<1>2. \A a, b, t : Plain(a) /\ Plain(b) => Signed(<<<<a, b>>, t>>)
  BY DEF Signed
<1>3. \A a, b, c, t : Plain(a) /\ Plain(b) /\ Plain(c) => Signed(<<<<a, b, c>>, t>>)
  BY DEF Signed
<1> QED BY <1>1, <1>2, <1>3, ZenonT(60) DEF Operators, Plain, Nul

\* It begins with one of the characters operators start with.
LEMMA OperatorsBegin == \A o \in Operators : Begun(o)
<1>1. \A a, t : a \in Starts => Begun(<<<<a>>, t>>)
  BY DEF Begun
<1>2. \A a, b, t : a \in Starts => Begun(<<<<a, b>>, t>>)
  BY DEF Begun
<1>3. \A a, b, c, t : a \in Starts => Begun(<<<<a, b, c>>, t>>)
  BY DEF Begun
<1>4. /\ "+" \in Starts /\ "=" \in Starts /\ "-" \in Starts /\ ">" \in Starts
      /\ "*" \in Starts /\ "/" \in Starts /\ "^" \in Starts /\ "%" \in Starts
      /\ "<" \in Starts /\ "&" \in Starts /\ "|" \in Starts /\ "?" \in Starts
      /\ "~" \in Starts /\ "(" \in Starts /\ ")" \in Starts /\ "[" \in Starts
      /\ "]" \in Starts /\ ":" \in Starts /\ "," \in Starts
  BY DEF Starts
<1> QED BY <1>1, <1>2, <1>3, <1>4, ZenonT(60) DEF Operators

\* Each of these characters is an operator.
LEMMA StartsAreOperators == \A c \in Starts : \E t : <<<<c>>, t>> \in Operators
<1>1. /\ <<<<"+">>, "ADD">> \in Operators /\ <<<<"=">>, "SET">> \in Operators
      /\ <<<<"-">>, "SUB">> \in Operators /\ <<<<">">>, "GT">> \in Operators
      /\ <<<<"*">>, "MUL">> \in Operators /\ <<<<"/">>, "DIV">> \in Operators
      /\ <<<<"^">>, "EXP">> \in Operators /\ <<<<"%">>, "MOD">> \in Operators
      /\ <<<<"<">>, "LT">> \in Operators /\ <<<<"&">>, "BAND">> \in Operators
      /\ <<<<"|">>, "BOR">> \in Operators /\ <<<<"?">>, "QUESTION">> \in Operators
      /\ <<<<"~">>, "TIL">> \in Operators /\ <<<<"(">>, "LPAREN">> \in Operators
      /\ <<<<")">>, "RPAREN">> \in Operators /\ <<<<"[">>, "LBRACE">> \in Operators
      /\ <<<<"]">>, "RBRACK">> \in Operators /\ <<<<":">>, "COLON">> \in Operators
      /\ <<<<",">>, "COMMA">> \in Operators
  BY ZenonT(60) DEF Operators
<1> QED BY <1>1, ZenonT(60) DEF Starts

\* A stretch of one character.
LEMMA SubSeqOne ==
  ASSUME NEW text \in Seq(STRING), NEW p \in 1 .. Len(text)
  PROVE  SubSeq(text, p, p) = <<text[p]>>
<1>1. SubSeq(text, p, p) \in Seq(STRING) /\ Len(SubSeq(text, p, p)) = 1
  OBVIOUS
<1>2. SubSeq(text, p, p)[1] = text[p]
  OBVIOUS
<1> DEFINE s == SubSeq(text, p, p)
<1>3. s = [i \in 1 .. 1 |-> s[i]]
  <2> HIDE DEF s
  <2> QED BY <1>1 DEF s
<1>4. s = [i \in 1 .. 1 |-> text[p]]
  BY <1>2, <1>3
<1>5. <<text[p]>> = [i \in 1 .. 1 |-> text[p]]
  OBVIOUS
<1> QED BY <1>4, <1>5

\* The operator taken is in the text and holds no line end.
LEMMA OperatorIs ==
  ASSUME NEW text \in Seq(STRING), NEW p \in 1 .. Len(text) + 1,
         CharAt(text, p) \in OperatorStart
  PROVE  LET o == LongestOperator(text, p)
         IN  p + Len(o[1]) \in p + 1 .. Len(text) + 1 /\ Clear(text, p, p + Len(o[1]))
<1> DEFINE matching == {o \in Operators : p + Len(o[1]) <= Len(text) + 1
                                          /\ SubSeq(text, p, p + Len(o[1]) - 1) = o[1]}
<1>1. PICK o \in Operators : CharAt(text, p) = o[1][1]
  BY DEF OperatorStart
<1>2. CharAt(text, p) # Nul /\ CharAt(text, p) \in Starts
  BY <1>1, OperatorsAre, OperatorsBegin DEF Signed, Plain, Begun
<1>3. p \in 1 .. Len(text) /\ CharAt(text, p) = text[p]
  BY <1>2 DEF CharAt
<1>4. PICK single \in Operators : single[1] = <<text[p]>>
  <2>1. PICK t : <<<<text[p]>>, t>> \in Operators
    BY <1>2, <1>3, StartsAreOperators
  <2>2. <<<<text[p]>>, t>>[1] = <<text[p]>>
    OBVIOUS
  <2> QED BY <2>1, <2>2
<1>5. single \in matching
  <2>1. SubSeq(text, p, p) = <<text[p]>>
    BY <1>3, SubSeqOne
  <2>2. Len(single[1]) = 1
    BY <1>4
  <2>3. p + Len(single[1]) <= Len(text) + 1 /\ p + Len(single[1]) - 1 = p
    <3> HIDE DEF matching
    <3> QED BY <1>3, <2>2
  <2> QED BY <1>4, <2>1, <2>3
<1> DEFINE size(m) == Len(m[1])
<1>6. \A m \in matching : size(m) \in 1 .. 3
  BY OperatorsAre DEF Signed
<1>7. \E m \in matching : \A other \in matching : size(m) >= size(other)
  <2> HIDE DEF matching, size
  <2>1. CASE \E m \in matching : size(m) = 3
    BY <1>6, <2>1
  <2>2. CASE (~ \E m \in matching : size(m) = 3) /\ \E m \in matching : size(m) = 2
    BY <1>6, <2>2
  <2>3. CASE ~ \E m \in matching : size(m) \in {2, 3}
    BY <1>5, <1>6, <2>3
  <2> QED BY <2>1, <2>2, <2>3
<1> DEFINE l == LongestOperator(text, p)
<1>8. l \in matching
  <2>1. l = CHOOSE m \in matching : \A other \in matching : Len(m[1]) >= Len(other[1])
    BY DEF LongestOperator
  <2> HIDE DEF matching, l
  <2> QED BY <1>7, <2>1
<1> HIDE DEF l
<1>9. l \in Operators /\ SubSeq(text, p, p + Len(l[1]) - 1) = l[1]
  BY <1>8
<1>10. Len(l[1]) \in 1 .. 3 /\ p + Len(l[1]) <= Len(text) + 1
  BY <1>6, <1>8
<1>11. \A i \in 1 .. Len(l[1]) : l[1][i] = text[p + i - 1]
  <2> DEFINE n == Len(l[1])
  <2>1. n \in 1 .. 3 /\ p + n <= Len(text) + 1
    BY <1>10
  <2> HIDE DEF n
  <2>2. p + n - 1 \in 1 .. Len(text) /\ (p + n - 1) - p + 1 = n
    BY <2>1
  <2>3. \A i \in 1 .. n : SubSeq(text, p, p + n - 1)[i] = text[p + i - 1]
    BY <2>1, <2>2
  <2> QED BY <1>9, <2>3 DEF n
<1>12. ASSUME NEW r \in p .. p + Len(l[1]) - 1 PROVE text[r] # "\n"
  <2>1. r - p + 1 \in 1 .. Len(l[1]) /\ p + (r - p + 1) - 1 = r
    BY <1>10
  <2> QED BY <1>9, <1>11, <2>1, OperatorsAre DEF Signed, Plain
<1>13. p + Len(l[1]) \in p + 1 .. Len(text) + 1
  <2> DEFINE n == Len(l[1])
  <2>1. n \in 1 .. 3 /\ p + n <= Len(text) + 1
    BY <1>10
  <2> HIDE DEF n
  <2>2. p + n \in p + 1 .. Len(text) + 1
    BY <2>1
  <2> QED BY <2>2 DEF n
<1> QED BY <1>12, <1>13 DEF Clear, l

(***************************************************************************)
(* scan.                                                                   *)
(***************************************************************************)
\* A lexer that is in its text and has counted the lines up to where it is,
\* and what becomes of it when a token is taken.
Placed(lx) ==
  /\ IsLexer(lx)
  /\ lx.text \in Seq(STRING)
  /\ lx.curr \in 1 .. Len(lx.text) + 1
  /\ lx.line = 1 + NewLines(lx.text, 1, lx.curr)
Taken(lx, n) ==
  /\ Placed(n)
  /\ n.text = lx.text
  /\ n.curr > lx.curr \/ n.token.type = "FIN" \/ ~n.sound

\* A lexer whose position and line were moved over the same part of the text.
LEMMA MovedPlaced ==
  ASSUME NEW lx, Placed(lx), NEW n, IsLexer(n), n.text = lx.text,
         n.curr \in lx.curr .. Len(lx.text) + 1,
         n.line = lx.line + NewLines(lx.text, lx.curr, n.curr)
  PROVE  Placed(n)
<1> DEFINE a == NewLines(lx.text, 1, lx.curr)
           b == NewLines(lx.text, lx.curr, n.curr)
<1>1. /\ lx.curr \in Nat /\ 1 <= lx.curr /\ n.curr \in Nat /\ lx.curr <= n.curr
      /\ n.curr \in 1 .. Len(lx.text) + 1 /\ lx.text \in Seq(STRING)
  BY DEF Placed
<1>2. a \in Nat /\ NewLines(lx.text, 1, n.curr) = a + b
  BY <1>1, NewLinesAdd
<1>3. b \in Nat
  BY <1>1, NewLinesNat
<1>4. lx.line = 1 + a /\ n.line = lx.line + b
  BY DEF Placed
<1> HIDE DEF a, b
<1>5. n.line = 1 + NewLines(n.text, 1, n.curr)
  BY <1>2, <1>3, <1>4
<1> QED BY <1>1, <1>5 DEF Placed

\* Passing characters that are no line ends.
LEMMA ClearPlaced ==
  ASSUME NEW lx, Placed(lx), NEW n, IsLexer(n), n.text = lx.text, n.line = lx.line,
         n.curr \in lx.curr .. Len(lx.text) + 1, Clear(lx.text, lx.curr, n.curr)
  PROVE  Placed(n)
<1>1. lx.curr \in Nat /\ n.curr \in Nat
  BY DEF Placed
<1>2. NewLines(lx.text, lx.curr, n.curr) = 0
  BY <1>1, NewLinesClear
<1>3. lx.line \in Nat
  <2>1. NewLines(lx.text, 1, lx.curr) \in Nat
    BY <1>1, NewLinesNat
  <2> QED BY <2>1 DEF Placed
<1> QED BY <1>2, <1>3, MovedPlaced

\* A token of characters that are no line ends.
LEMMA FoundTaken ==
  ASSUME NEW lx, Placed(lx), NEW type, NEW value,
         NEW q \in lx.curr .. Len(lx.text) + 1, Clear(lx.text, lx.curr, q),
         q > lx.curr \/ type = "FIN"
  PROVE  Taken(lx, Found(lx, type, q, value))
<1> DEFINE n == Found(lx, type, q, value)
<1>1. /\ IsLexer(n) /\ n.token.type = type /\ n.curr = q
      /\ n.text = lx.text /\ n.line = lx.line
  BY FoundIs DEF Placed
<1> HIDE DEF n
<1>2. Placed(n)
  BY <1>1, ClearPlaced
<1> QED BY <1>1, <1>2 DEF Taken, n

\* A string is taken with its line ends counted.
LEMMA StringTaken ==
  ASSUME NEW lx, Placed(lx), lx.curr <= Len(lx.text), NEW quote \in Quotes
  PROVE  Taken(lx, String(lx, quote))
<1> DEFINE n == String(lx, quote)
           str == StringFrom(lx.text, lx.curr + 1, quote)
<1>1. /\ IsLexer(n) /\ n.text = lx.text
      /\ \/ ~n.sound /\ n.curr = lx.curr /\ n.line = lx.line
         \/ /\ str.by # "OVERRUN" /\ n.curr = str.end
            /\ n.line = lx.line + NewLines(lx.text, lx.curr, str.end)
  BY StringIs DEF Placed
<1>2. lx.text \in Seq(STRING) /\ lx.curr + 1 \in 1 .. Len(lx.text) + 2 /\ lx.curr \in Nat
  BY DEF Placed
<1>3. str.by = "OVERRUN" \/ str.end \in (lx.curr + 1) + 1 .. Len(lx.text) + 1
  BY <1>2, StringFromIs
<1> HIDE DEF n, str
<1>4. CASE ~n.sound /\ n.curr = lx.curr /\ n.line = lx.line
  <2>1. Clear(lx.text, lx.curr, n.curr) /\ n.curr \in lx.curr .. Len(lx.text) + 1
    BY <1>2, <1>4 DEF Clear
  <2>2. Placed(n)
    BY <1>1, <1>4, <2>1, ClearPlaced
  <2> QED BY <1>1, <1>4, <2>2 DEF Taken, n
<1>5. CASE /\ str.by # "OVERRUN" /\ n.curr = str.end
           /\ n.line = lx.line + NewLines(lx.text, lx.curr, str.end)
  <2>1. n.curr \in lx.curr .. Len(lx.text) + 1 /\ n.curr > lx.curr
    BY <1>2, <1>3, <1>5
  <2>2. Placed(n)
    BY <1>1, <1>5, <2>1, MovedPlaced
  <2> QED BY <1>1, <2>1, <2>2 DEF Taken, n
<1> QED BY <1>1, <1>4, <1>5

Braces == {"{", "}"}

\* A brace is neither a line end nor the end of the text.
LEMMA BracesAre == \A c \in Braces : c # Nul /\ c # "\n"
BY Zenon DEF Braces, Nul

\* One character that is no line end, with the counts of braces changed.
LEMMA BraceTaken ==
  ASSUME NEW lx, Placed(lx), CharAt(lx.text, lx.curr) \in Braces
  PROVE  Taken(lx, OpenBrace(lx)) /\ Taken(lx, CloseBrace(lx))
<1>1. lx.text \in Seq(STRING) /\ lx.curr \in 1 .. Len(lx.text) + 1 /\ IsLexer(lx)
  BY DEF Placed
<1>2. CharAt(lx.text, lx.curr) # Nul /\ CharAt(lx.text, lx.curr) # "\n"
  BY BracesAre
<1>3. lx.curr \in 1 .. Len(lx.text) /\ lx.text[lx.curr] # "\n"
  <2>1. lx.curr <= Len(lx.text)
    BY <1>2 DEF CharAt
  <2>2. CharAt(lx.text, lx.curr) = lx.text[lx.curr]
    BY <2>1 DEF CharAt
  <2>3. lx.curr \in Nat /\ 1 <= lx.curr /\ Len(lx.text) \in Nat
    BY <1>1
  <2>4. lx.curr \in 1 .. Len(lx.text)
    BY <2>1, <2>3
  <2> QED BY <1>2, <2>2, <2>4
<1>4. ASSUME NEW at, Placed(at), at.text = lx.text, at.curr = lx.curr, NEW type
      PROVE  Taken(lx, Found(at, type, lx.curr + 1, NullVal))
  <2>1. /\ lx.curr + 1 \in at.curr .. Len(at.text) + 1 /\ lx.curr + 1 > at.curr
        /\ Clear(at.text, at.curr, lx.curr + 1)
    <3>1. at.curr \in 1 .. Len(at.text) /\ at.text[at.curr] # "\n" /\ lx.curr = at.curr
      BY <1>3, <1>4
    <3>2. Clear(at.text, at.curr, at.curr + 1)
      BY <3>1 DEF Clear
    <3>3. Len(at.text) \in Nat
      BY <1>1, <1>4
    <3>4. at.curr + 1 \in at.curr .. Len(at.text) + 1
      BY <3>1, <3>3
    <3> QED BY <3>1, <3>2, <3>4
  <2>2. Taken(at, Found(at, type, lx.curr + 1, NullVal))
    BY <1>4, <2>1, FoundTaken
  <2> QED BY <1>4, <2>2 DEF Taken
<1>5. ASSUME NEW k PROVE Taken(lx, Found(Count(lx, k), "LBRACE", lx.curr + 1, NullVal))
                         /\ Taken(lx, Found(Count(lx, k), "RBRACE", lx.curr + 1, NullVal))
  <2> DEFINE at == Count(lx, k)
  <2>1. IsLexer(at) /\ at.text = lx.text /\ at.line = lx.line /\ at.curr = lx.curr
    BY <1>1, CountIs
  <2> HIDE DEF at
  <2>2. Placed(at)
    BY <2>1 DEF Placed
  <2> QED BY <1>4, <2>1, <2>2 DEF at
<1>6. Taken(lx, OpenBrace(lx))
  BY <1>5 DEF OpenBrace
<1>7. Taken(lx, CloseBrace(lx))
  <2>1. CASE lx.interps # <<>> /\ Last(lx.interps) = 1
    <3> DEFINE at == Ended(lx)
    <3>1. IsLexer(at) /\ at.text = lx.text /\ at.line = lx.line /\ at.curr = lx.curr
      BY <1>1, EndedIs
    <3>2. CloseBrace(lx) = String(at, "'")
      BY <2>1 DEF CloseBrace, Ended
    <3> HIDE DEF at
    <3>3. Placed(at)
      BY <3>1 DEF Placed
    <3>4. at.curr <= Len(at.text)
      <4>1. lx.curr <= Len(lx.text)
        BY <1>1, <1>3
      <4> QED BY <3>1, <4>1
    <3>5. "'" \in Quotes
      BY Zenon DEF Quotes
    <3>6. Taken(at, String(at, "'"))
      BY <3>3, <3>4, <3>5, StringTaken
    <3> QED BY <3>1, <3>2, <3>6 DEF Taken
  <2>2. CASE ~(lx.interps # <<>> /\ Last(lx.interps) = 1)
    <3>1. CloseBrace(lx) = Found(Count(lx, -1), "RBRACE", lx.curr + 1, NullVal)
      BY <2>2 DEF CloseBrace
    <3> QED BY <3>1, <1>5
  <2> QED BY <2>1, <2>2
<1> QED BY <1>6, <1>7

\* Word characters and digits are neither line ends nor the terminator.
LEMMA CharsAre ==
  /\ \A c \in DigitChars : c # Nul /\ c # "\n"
  /\ \A c \in WordChars : c # Nul /\ c # "\n"
<1>1. \A c \in DigitChars : c \in {"0", "1", "2", "3", "4", "5", "6", "7", "8", "9"}
  BY DEF DigitChars, Digits, Range
<1>2. \A c \in {"0", "1", "2", "3", "4", "5", "6", "7", "8", "9"} : c # Nul /\ c # "\n"
  BY DEF Nul
<1>3. \A c \in WordStart : c # Nul /\ c # "\n"
  BY LettersAssumption DEF WordStart, Nul
<1> QED BY <1>1, <1>2, <1>3 DEF WordChars

\* A run of characters that are no line ends, from p to the first other one.
LEMMA RunIs ==
  ASSUME NEW text \in Seq(STRING), NEW p \in 1 .. Len(text) + 1,
         NEW chars, \A c \in chars : c # Nul /\ c # "\n"
  PROVE  LET q == Past(text, p, chars)
         IN  /\ q \in p .. Len(text) + 1 /\ Clear(text, p, q)
             /\ CharAt(text, p) \in chars => q > p
<1> DEFINE q == Past(text, p, chars)
<1>1. /\ q \in p .. Len(text) + 1
      /\ CharAt(text, q) \notin chars
      /\ \A r \in p .. q - 1 : CharAt(text, r) \in chars
  BY PastStops
<1> HIDE DEF q
<1>2. Clear(text, p, q)
  BY <1>1 DEF Clear, CharAt
<1>3. CharAt(text, p) \in chars => q > p
  BY <1>1
<1> QED BY <1>1, <1>2, <1>3 DEF q

\* A word holds no line end.
LEMMA WordTaken ==
  ASSUME NEW lx, Placed(lx), CharAt(lx.text, lx.curr) \in WordStart
  PROVE  Taken(lx, Word(lx))
<1> DEFINE q == Past(lx.text, lx.curr, WordChars)
<1>1. lx.text \in Seq(STRING) /\ lx.curr \in 1 .. Len(lx.text) + 1
  BY DEF Placed
<1>2. q \in lx.curr .. Len(lx.text) + 1 /\ Clear(lx.text, lx.curr, q) /\ q > lx.curr
  <2>1. CharAt(lx.text, lx.curr) \in WordChars
    BY DEF WordChars
  <2> QED BY <1>1, <2>1, RunIs, CharsAre
<1>3. Word(lx) = Found(lx, WordType(SubSeq(lx.text, lx.curr, q - 1)), q, NullVal)
  BY DEF Word
<1> HIDE DEF q
<1> QED BY <1>2, <1>3, FoundTaken

\* Nor does a number,
LEMMA NumeralTaken ==
  ASSUME NEW lx, Placed(lx), CharAt(lx.text, lx.curr) \in DigitChars
  PROVE  Taken(lx, Numeral(lx))
<1> DEFINE q == Past(lx.text, lx.curr, DigitChars)
           r == Past(lx.text, q + 1, DigitChars)
<1>1. lx.text \in Seq(STRING) /\ lx.curr \in 1 .. Len(lx.text) + 1
  BY DEF Placed
<1>2. q \in lx.curr .. Len(lx.text) + 1 /\ Clear(lx.text, lx.curr, q) /\ q > lx.curr
  BY <1>1, RunIs, CharsAre
<1>3. Numeral(lx) = IF CharAt(lx.text, q) = "." THEN Found(lx, "REAL", r, NullVal)
                    ELSE Found(lx, "INT", q, IntVal(Number(SubSeq(lx.text, lx.curr, q - 1))))
  BY DEF Numeral
<1> HIDE DEF q
<1>4. CASE CharAt(lx.text, q) = "."
  <2>1. q <= Len(lx.text) /\ lx.text[q] # "\n"
    <3>1. CharAt(lx.text, q) # Nul /\ CharAt(lx.text, q) # "\n"
      BY <1>4 DEF Nul
    <3> QED BY <3>1 DEF CharAt
  <2>2. q + 1 \in 1 .. Len(lx.text) + 1
    BY <1>1, <1>2, <2>1
  <2>3. r \in q + 1 .. Len(lx.text) + 1 /\ Clear(lx.text, q + 1, r)
    BY <1>1, <2>2, RunIs, CharsAre
  <2> HIDE DEF r
  <2>4. r \in lx.curr .. Len(lx.text) + 1 /\ r > lx.curr /\ Clear(lx.text, lx.curr, r)
    BY <1>1, <1>2, <2>1, <2>3 DEF Clear
  <2> QED BY <1>3, <1>4, <2>4, FoundTaken
<1>5. CASE CharAt(lx.text, q) # "."
  BY <1>2, <1>3, <1>5, FoundTaken
<1> QED BY <1>4, <1>5

\* nor an operator.
LEMMA OperatorTaken ==
  ASSUME NEW lx, Placed(lx), CharAt(lx.text, lx.curr) \in OperatorStart
  PROVE  Taken(lx, Operator(lx))
<1> DEFINE o == LongestOperator(lx.text, lx.curr)
           q == lx.curr + Len(o[1])
<1>1. lx.text \in Seq(STRING) /\ lx.curr \in 1 .. Len(lx.text) + 1
  BY DEF Placed
<1>2. q \in lx.curr + 1 .. Len(lx.text) + 1 /\ Clear(lx.text, lx.curr, q)
  BY <1>1, OperatorIs
<1>3. Operator(lx) = Found(lx, o[2], q, NullVal)
  BY DEF Operator
<1> HIDE DEF o, q
<1>4. q \in lx.curr .. Len(lx.text) + 1 /\ q > lx.curr
  BY <1>1, <1>2
<1> QED BY <1>2, <1>3, <1>4, FoundTaken

\* The end of a line, and a character that begins no token.
LEMMA OneTaken ==
  ASSUME NEW lx, Placed(lx), CharAt(lx.text, lx.curr) # Nul
  PROVE  /\ CharAt(lx.text, lx.curr) = "\n" =>
              Taken(lx, [Found(lx, "ENDL", lx.curr + 1, NullVal) EXCEPT !.line = @ + 1])
         /\ CharAt(lx.text, lx.curr) # "\n" =>
              Taken(lx, Found(lx, "ERROR", lx.curr + 1, NullVal))
<1>1. lx.text \in Seq(STRING) /\ lx.curr \in 1 .. Len(lx.text) + 1 /\ IsLexer(lx)
  BY DEF Placed
<1>2. lx.curr \in 1 .. Len(lx.text) /\ CharAt(lx.text, lx.curr) = lx.text[lx.curr]
  BY <1>1 DEF CharAt
<1>3. lx.curr + 1 \in lx.curr .. Len(lx.text) + 1 /\ lx.curr + 1 > lx.curr /\ lx.curr \in Nat
  BY <1>2
<1>4. CASE CharAt(lx.text, lx.curr) = "\n"
  <2> DEFINE found == Found(lx, "ENDL", lx.curr + 1, NullVal)
             n == [found EXCEPT !.line = @ + 1]
  <2>1. /\ IsLexer(found) /\ found.curr = lx.curr + 1
        /\ found.text = lx.text /\ found.line = lx.line
    BY <1>1, FoundIs
  <2> HIDE DEF found
  <2>2. IsLexer(n) /\ n.curr = lx.curr + 1 /\ n.text = lx.text /\ n.line = lx.line + 1
    BY <2>1 DEF IsLexer
  <2> HIDE DEF n
  <2>3. NewLines(lx.text, lx.curr, lx.curr + 1) = 1
    BY <1>2, <1>3, <1>4, NewLinesOne
  <2>4. Placed(n)
    BY <1>3, <2>2, <2>3, MovedPlaced
  <2> QED BY <1>3, <1>4, <2>2, <2>4 DEF Taken, n, found
<1>5. CASE CharAt(lx.text, lx.curr) # "\n"
  <2>1. Clear(lx.text, lx.curr, lx.curr + 1)
    BY <1>2, <1>5 DEF Clear
  <2> QED BY <1>3, <1>5, <2>1, FoundTaken
<1> QED BY <1>4, <1>5

\* Every token is taken with its line ends counted.
LEMMA TokenTaken ==
  ASSUME NEW lx, Placed(lx)
  PROVE  Taken(lx, TokenAt(lx))
<1> DEFINE c == CharAt(lx.text, lx.curr)
<1>1. c = Nul => Taken(lx, Found(lx, "FIN", lx.curr, NullVal))
  <2>1. lx.curr \in lx.curr .. Len(lx.text) + 1 /\ Clear(lx.text, lx.curr, lx.curr)
    BY DEF Placed, Clear
  <2> QED BY <2>1, FoundTaken
<1>2. c = "\n" => Taken(lx, [Found(lx, "ENDL", lx.curr + 1, NullVal) EXCEPT !.line = @ + 1])
  BY OneTaken DEF Nul
<1>3. c \in Braces => Taken(lx, OpenBrace(lx)) /\ Taken(lx, CloseBrace(lx))
  BY BraceTaken
<1>4. c \in Quotes => Taken(lx, String(lx, c))
  <2> SUFFICES ASSUME c \in Quotes PROVE Taken(lx, String(lx, c))
    OBVIOUS
  <2>1. c # Nul
    BY QuotesAre
  <2>2. lx.curr <= Len(lx.text)
    BY <2>1 DEF CharAt, Placed
  <2> QED BY <2>2, StringTaken
<1>5. c \in WordStart => Taken(lx, Word(lx))
  BY WordTaken
<1>6. c \in DigitChars => Taken(lx, Numeral(lx))
  BY NumeralTaken
<1>7. c \in OperatorStart => Taken(lx, Operator(lx))
  BY OperatorTaken
<1>8. c # Nul /\ c # "\n" => Taken(lx, Found(lx, "ERROR", lx.curr + 1, NullVal))
  BY OneTaken
<1> QED BY <1>1, <1>2, <1>3, <1>4, <1>5, <1>6, <1>7, <1>8, ZenonT(60) DEF TokenAt, Braces, Quotes

\* And so is what is skipped before it.
LEMMA ScanTaken ==
  ASSUME NEW lx, Placed(lx)
  PROVE  Taken(lx, Scan(lx))
<1> DEFINE at == [lx EXCEPT !.curr = Useful(lx.text, lx.curr)]
<1>1. /\ lx.text \in Seq(STRING) /\ lx.curr \in 1 .. Len(lx.text) + 1 /\ lx.curr \in Nat
      /\ IsLexer(lx)
  BY DEF Placed
<1>2. /\ Scan(lx) = TokenAt(at) /\ IsLexer(at) /\ at.curr = Useful(lx.text, lx.curr)
      /\ at.text = lx.text /\ at.line = lx.line
  BY <1>1, ScanIs
<1> HIDE DEF at
<1>3. at.curr \in lx.curr .. Len(lx.text) + 1 /\ Clear(lx.text, lx.curr, at.curr)
  BY <1>1, <1>2, UsefulIs
<1>4. Placed(at)
  BY <1>2, <1>3, ClearPlaced
<1>5. Taken(at, TokenAt(at))
  BY <1>4, TokenTaken
<1>6. TokenAt(at).curr > at.curr => TokenAt(at).curr > lx.curr
  BY <1>1, <1>3, <1>5 DEF Taken, Placed
<1> QED BY <1>2, <1>5, <1>6 DEF Taken

\* The scan starts at the first line.
LEMMA InitPlaced == LexerInit => Placed(lexer)
<1> SUFFICES ASSUME NEW i \in DOMAIN Texts, NEW interps, lexer = NewLexer(Texts[i], interps)
             PROVE  Placed(lexer)
  BY DEF LexerInit
<1>1. /\ IsLexer(lexer) /\ lexer.text \in Seq(STRING) /\ lexer.curr = 1 /\ lexer.line = 1
  BY TextsAssumption DEF NewLexer, IsLexer
<1>2. NewLines(lexer.text, 1, 1) = 0
  BY NewLinesClear DEF Clear
<1> QED BY <1>1, <1>2 DEF Placed

\* Every scan keeps the lines counted.
LEMMA NextPlaced == Placed(lexer) /\ [LexerNext]_lexerVars => Placed(lexer)'
<1> SUFFICES ASSUME Placed(lexer), [LexerNext]_lexerVars PROVE Placed(lexer)'
  OBVIOUS
<1>1. CASE LexerNext
  BY <1>1, ScanTaken DEF LexerNext, Taken
<1>2. CASE UNCHANGED lexerVars
  BY <1>2 DEF lexerVars
<1> QED BY <1>1, <1>2

\* The line that the lexer is at is one more than the line ends before its
\* next character: those between tokens, at the ends of comments, and in
\* strings, escaped ones too (new_line).
THEOREM LinesCounted == LexerSpec => []LineCounted
<1>1. Placed(lexer) => LineCounted
  BY DEF Placed, LineCounted
<1> QED BY <1>1, InitPlaced, NextPlaced, PTL DEF LexerSpec

\* Every call of scan takes at least one character, if it does not find the
\* end of the text: no loop over its tokens is endless.
THEOREM ScanMovesOn == LexerSpec => MovesOn
<1>1. Placed(lexer) /\ [LexerNext]_lexerVars =>
        [lexer'.curr > lexer.curr \/ lexer'.token.type = "FIN" \/ ~lexer'.sound]_lexerVars
  <2> SUFFICES ASSUME Placed(lexer), LexerNext
               PROVE  lexer'.curr > lexer.curr \/ lexer'.token.type = "FIN" \/ ~lexer'.sound
    OBVIOUS
  <2> QED BY ScanTaken DEF LexerNext, Taken
<1> QED BY <1>1, InitPlaced, NextPlaced, PTL DEF LexerSpec, MovesOn
=============================================================================
