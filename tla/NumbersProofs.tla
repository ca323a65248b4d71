---------------------------- MODULE NumbersProofs ----------------------------
(***************************************************************************)
(* That the parsers of numbers stop at the NUL, never wrap, refuse at the  *)
(* first character or digit they must and nowhere else, and accept the     *)
(* number that the digits denote, for every SIZE_MAX, every text and every *)
(* length of the digest.                                                   *)
(***************************************************************************)
EXTENDS Numbers, Counting, TLAPS

\* A number below the divisor is its own remainder.
LEMMA SmallRemainder ==
  ASSUME NEW a \in Nat, NEW n \in Nat, a < n
  PROVE  a % n = a
  OBVIOUS

\* A text ends with its NUL, and a parser of hexadecimal digits keeps the cursor
\* where it was until it has them all.
TextIsTerminated ==
  /\ text \in Seq(Nat) /\ text # <<>>
  /\ text[Len(text)] = NUL

\* No number that fits is ever reduced modulo the word: the test before the
\* multiplication sees every number that would pass SIZE_MAX.
NothingWraps == parser = "size" => parsed = exact /\ exact <= SizeMax

NumbersInv ==
  /\ TextIsTerminated
  /\ TypeOK
  /\ NothingWraps
  /\ parser = "hex" /\ result = 1 => cursor = 1

LEMMA InitNumbers == Init => NumbersInv
<1>1. SUFFICES ASSUME Init PROVE NumbersInv
  OBVIOUS
<1>2. PICK n \in 0..MaxLength : \E t \in [1..n -> Characters] : text = t \o <<NUL>>
  BY <1>1 DEF Init
<1>3. PICK t \in [1..n -> Characters] : text = t \o <<NUL>>
  BY <1>2
<1>4. t \in Seq(Nat) /\ Len(t) = n /\ n \in Nat
  <2>1. t \in [1..n -> Nat] /\ n \in Nat
    <3>1. Characters \subseteq Nat /\ MaxLength \in Nat
      BY WordAssumption
    <3>2. n \in Nat
      BY <3>1, <1>2
    <3>3. t \in [1..n -> Characters]
      BY <1>3
    <3>4. \A i \in 1..n : t[i] \in Nat
      BY <3>1, <3>3
    <3> QED BY <3>2, <3>3, <3>4
  <2> QED BY <2>1, SeqDef
<1>5. text \in Seq(Nat) /\ Len(text) = n + 1 /\ text[n + 1] = NUL
  BY <1>3, <1>4 DEF NUL
<1>6. TextIsTerminated
  BY <1>5 DEF TextIsTerminated
<1> QED BY <1>1, <1>4, <1>5, <1>6, WordAssumption DEF Init, NumbersInv, TypeOK, NothingWraps

LEMMA StepNumbers == NumbersInv /\ [Next]_vars => NumbersInv'
<1>1. SUFFICES ASSUME NumbersInv, [Next]_vars PROVE NumbersInv'
  OBVIOUS
<1> USE DEF NumbersInv, TypeOK, TextIsTerminated
<1>2. Len(text) \in Nat \ {0} /\ SizeMax \in Nat /\ SizeMax >= 10 /\ HexLength \in Nat
  BY <1>1, WordAssumption DEF DECIMAL_BASE
<1>3. \A i \in 1..Len(text) : text[i] \in Nat /\ (text[i] # NUL => i < Len(text))
  BY <1>1, <1>2
<1>4. CASE SizeDigit
  <2> DEFINE digit == text[cursor] - 48
  <2>1. digit \in 0..9 /\ cursor < Len(text)
    <3>1. 48 <= text[cursor] /\ text[cursor] <= 57 /\ cursor \in 1..Len(text)
      BY <1>1, <1>4 DEF SizeDigit, IsDigit
    <3>2. text[cursor] \in Nat /\ (text[cursor] # NUL => cursor < Len(text))
      BY <1>3, <3>1
    <3> QED BY <3>1, <3>2 DEF NUL
  <2> HIDE DEF digit
  <2>2. CASE Passes(digit)
    BY <1>1, <1>4, <2>2 DEF SizeDigit, Fail, NothingWraps, digit
  <2>3. CASE ~Passes(digit)
    <3>1. /\ parsed' = (parsed * 10 + digit) % (SizeMax + 1) /\ exact' = exact * 10 + digit
          /\ cursor' = cursor + 1 /\ UNCHANGED <<parser, text, index, result>>
          /\ parser = "size"
      BY <1>4, <2>3 DEF SizeDigit, Running, DECIMAL_BASE, digit
    <3>2. parsed <= (SizeMax - digit) \div 10
      BY <1>1, <1>2, <2>1, <2>3 DEF Passes, DECIMAL_BASE
    <3>3. parsed * 10 + digit <= SizeMax
      BY <1>1, <1>2, <2>1, <3>2
    <3>4. parsed' = parsed * 10 + digit
      <4>1. parsed * 10 + digit \in Nat /\ SizeMax + 1 \in Nat
        BY <1>1, <1>2, <2>1
      <4> QED BY <4>1, <1>2, <3>1, <3>3, SmallRemainder
    <3> QED BY <1>1, <1>2, <2>1, <3>1, <3>3, <3>4 DEF NothingWraps
  <2> QED BY <2>2, <2>3
<1>5. CASE SizeEnds
  BY <1>1, <1>5 DEF SizeEnds, Running, NothingWraps
<1>6. CASE HexTurn
  <2> DEFINE c == text[cursor + index]
  <2>1. cursor = 1 /\ parser = "hex" /\ index < HexLength /\ index <= Len(text) - 1
    BY <1>1, <1>6 DEF HexTurn, Running
  <2>2. CASE IsDigit(c) \/ IsLetter(c)
    <3>1. /\ parsed' = (parsed * 16 + HexDigit(c)) % HexWord
          /\ exact' = exact * 16 + HexDigit(c)
          /\ index' = index + 1 /\ UNCHANGED <<parser, text, cursor, result>>
      BY <1>6, <2>2 DEF HexTurn, HEX_BASE
    <3>2. c \in Nat /\ 1 + index < Len(text) /\ index + 1 \in 1..Len(text)
      BY <1>1, <1>2, <1>3, <2>1, <2>2 DEF IsDigit, IsLetter, NUL
    <3>3. HexDigit(c) \in 0..15
      <4> HIDE DEF c
      <4> QED BY <3>2, <2>2 DEF HexDigit, IsDigit, IsLetter, DECIMAL_BASE
    <3>4. HexWord \in Nat \ {0}
      BY WordAssumption
    <3>5. parsed' \in Nat /\ exact' \in Nat
      <4>1. parsed * 16 + HexDigit(c) \in Nat /\ exact * 16 + HexDigit(c) \in Nat
        <5> HIDE DEF c
        <5>1. parsed \in Nat /\ exact \in Nat
          BY <1>1
        <5> QED BY <5>1, <3>3
      <4> QED BY <4>1, <3>1, <3>4
    <3> QED BY <1>1, <1>2, <2>1, <3>1, <3>2, <3>5 DEF NothingWraps
  <2>3. CASE ~(IsDigit(c) \/ IsLetter(c))
    BY <1>1, <1>6, <2>3 DEF HexTurn, Fail, NothingWraps
  <2> QED BY <2>2, <2>3
<1>7. CASE HexEnds
  BY <1>1, <1>2, <1>7 DEF HexEnds, Running, NothingWraps
<1>8. CASE UNCHANGED vars
  BY <1>1, <1>8 DEF vars, NothingWraps
<1> QED BY <1>1, <1>4, <1>5, <1>6, <1>7, <1>8 DEF Next

LEMMA NumbersInvariant == Spec => []NumbersInv
  BY InitNumbers, StepNumbers, PTL DEF Spec

\* The parsers look at no character behind the NUL, whatever the text.
THEOREM StopsAtTheNul == Spec => []TypeOK
<1>1. NumbersInv => TypeOK
  BY DEF NumbersInv
<1> QED BY <1>1, NumbersInvariant, PTL

\* A number is refused before it wraps, for every SIZE_MAX.
THEOREM SizeNeverWraps == Spec => []NothingWraps
<1>1. NumbersInv => NothingWraps
  BY DEF NumbersInv
<1> QED BY <1>1, NumbersInvariant, PTL

-----------------------------------------------------------------------------
(* What a verdict says of the text, for every word.                        *)

IsHex(c) == IsDigit(c) \/ IsLetter(c)

\* A size stops at a character that is no digit or at the digit that would pass
\* SIZE_MAX, and nowhere else; a hexadecimal number is refused for its characters only.
Verdicts ==
  /\ parser = "size" =>
       /\ \A j \in 1..(cursor - 1) : IsDigit(text[j])
       /\ result = 0 => cursor > 1 /\ ~IsDigit(text[cursor])
       /\ result = -1 => IF IsDigit(text[cursor])
                           THEN parsed * DECIMAL_BASE + (text[cursor] - 48) > SizeMax
                           ELSE cursor = 1
  /\ parser = "hex" =>
       /\ \A j \in 1..index : IsHex(text[j])
       /\ result = 0 => cursor = HexLength + 1 /\ index = HexLength
       /\ result = -1 => index < HexLength /\ ~IsHex(text[index + 1])

\* The test of receipt_parse_size, made without leaving the word, is the one it means.
LEMMA PassesIsPassing ==
  ASSUME NumbersInv, NEW digit \in 0..9
  PROVE  Passes(digit) <=> parsed * DECIMAL_BASE + digit > SizeMax
<1>1. parsed \in Nat /\ SizeMax \in Nat /\ SizeMax >= 10
  BY WordAssumption DEF NumbersInv, TypeOK, DECIMAL_BASE
<1>2. parsed > (SizeMax - digit) \div 10 <=> parsed * 10 + digit > SizeMax
  BY <1>1
<1> QED BY <1>2 DEF Passes, DECIMAL_BASE

LEMMA InitVerdicts == Init => Verdicts
  BY DEF Init, Verdicts

LEMMA StepVerdicts == NumbersInv /\ Verdicts /\ [Next]_vars => Verdicts'
<1>1. SUFFICES ASSUME NumbersInv, Verdicts, [Next]_vars PROVE Verdicts'
  OBVIOUS
<1>2. cursor \in Nat /\ index \in Nat /\ HexLength \in Nat
  BY <1>1, WordAssumption DEF NumbersInv, TypeOK
<1>3. CASE SizeDigit
  <2> DEFINE digit == text[cursor] - 48
  <2>1. Running("size") /\ IsDigit(text[cursor]) /\ digit \in 0..9
    <3>1. Running("size") /\ IsDigit(text[cursor])
      BY <1>3 DEF SizeDigit
    <3>2. text[cursor] \in Nat
      BY <1>1 DEF NumbersInv, TypeOK, TextIsTerminated
    <3> QED BY <3>1, <3>2 DEF IsDigit
  <2>2. CASE Passes(digit)
    <3>1. parsed * DECIMAL_BASE + digit > SizeMax
      <4> HIDE DEF digit
      <4> QED BY <1>1, <2>1, <2>2, PassesIsPassing
    <3>2. Fail
      BY <1>3, <2>2 DEF SizeDigit
    <3> QED BY <1>1, <2>1, <3>1, <3>2 DEF Fail, Verdicts, Running
  <2>3. CASE ~Passes(digit)
    <3>1. cursor' = cursor + 1 /\ UNCHANGED <<parser, text, index, result>>
      BY <1>3, <2>3 DEF SizeDigit
    <3> QED BY <1>1, <1>2, <2>1, <3>1 DEF Verdicts, Running
  <2> QED BY <2>2, <2>3
<1>4. CASE SizeEnds
  <2>1. cursor \in 1..Len(text) /\ Len(text) \in Nat
    BY <1>1 DEF NumbersInv, TypeOK, TextIsTerminated
  <2> QED BY <1>1, <1>4, <2>1 DEF SizeEnds, Verdicts, Running
<1>5. CASE HexTurn
  <2>1. Running("hex") /\ index < HexLength /\ cursor + index = index + 1
    BY <1>1, <1>2, <1>5 DEF HexTurn, NumbersInv, Running
  <2>2. CASE IsHex(text[cursor + index])
    <3>1. index' = index + 1 /\ UNCHANGED <<parser, text, cursor, result>>
      BY <1>5, <2>2 DEF HexTurn, IsHex
    <3> QED BY <1>1, <1>2, <2>1, <2>2, <3>1 DEF Verdicts, Running
  <2>3. CASE ~IsHex(text[cursor + index])
    <3>1. Fail
      BY <1>5, <2>3 DEF HexTurn, IsHex
    <3> QED BY <1>1, <1>2, <2>1, <2>3, <3>1 DEF Verdicts, Running, Fail
  <2> QED BY <2>2, <2>3
<1>6. CASE HexEnds
  BY <1>1, <1>2, <1>6 DEF HexEnds, Verdicts, Running, NumbersInv
<1>7. CASE UNCHANGED vars
  BY <1>1, <1>7 DEF vars, Verdicts
<1> QED BY <1>1, <1>3, <1>4, <1>5, <1>6, <1>7 DEF Next

\* For every SIZE_MAX, receipt_parse_size takes each digit while the number fits and
\* refuses exactly the first one with which it would not, SIZE_MAX itself included
\* among those that fit; receipt_parse_hex refuses a character that is no digit, and
\* nothing else.
THEOREM RefusedAtTheEdge == Spec => []Verdicts
  BY InitVerdicts, StepVerdicts, NumbersInvariant, PTL DEF Spec

-----------------------------------------------------------------------------
(* The reference: powers, and the sum of digits with their weights.        *)

\* A power has one factor more than the one before, and is a number.
LEMMA PowerGrows ==
  ASSUME NEW b \in Nat
  PROVE  /\ Power(b, 0) = 1
         /\ \A n \in Nat : Power(b, n) \in Nat /\ Power(b, n + 1) = b * Power(b, n)
<1> DEFINE body(g) == [k \in Nat |-> IF k = 0 THEN 1 ELSE b * g[k - 1]]
           p == CHOOSE g : g = body(g)
           t == [x \in Nat \X Nat |-> b * x[2]]
<1>1. t \in [Nat \X Nat -> Nat]
  <2>1. \A x \in Nat \X Nat : b * x[2] \in Nat
    OBVIOUS
  <2> QED BY <2>1
<1>2. \A k \in Nat, v \in Nat : t[<<k, v>>] = b * v
  OBVIOUS
<1> HIDE DEF t
<1>3. PICK f : Recurs(Nat, 1, t, f)
  BY <1>1, RecursionExists
<1>4. f \in [Nat -> Nat] /\ f[0] = 1 /\ \A k \in Nat : f[k + 1] = b * f[k]
  BY <1>2, <1>3 DEF Recurs
<1>5. f = body(f)
  <2>1. ASSUME NEW k \in Nat PROVE f[k] = IF k = 0 THEN 1 ELSE b * f[k - 1]
    <3>1. CASE k = 0
      BY <1>4, <3>1
    <3>2. CASE k # 0
      <4>1. k - 1 \in Nat /\ (k - 1) + 1 = k
        BY <3>2
      <4>2. f[(k - 1) + 1] = b * f[k - 1]
        BY <1>4, <4>1
      <4> QED BY <3>2, <4>1, <4>2
    <3> QED BY <3>1, <3>2
  <2> QED BY <1>4, <2>1
<1>6. p = body(p)
  <2> HIDE DEF body
  <2> QED BY <1>5
<1>7. \A n : Power(b, n) = p[n]
  BY Zenon DEF Power
<1> HIDE DEF p
<1>8. p[0] = 1 /\ \A n \in Nat : p[n + 1] = b * p[n]
  <2>1. \A k \in Nat : p[k] = IF k = 0 THEN 1 ELSE b * p[k - 1]
    BY <1>6
  <2>2. ASSUME NEW n \in Nat PROVE p[n + 1] = b * p[n]
    <3>1. n + 1 \in Nat /\ n + 1 # 0 /\ (n + 1) - 1 = n
      OBVIOUS
    <3> QED BY <2>1, <3>1
  <2> QED BY <2>1, <2>2
<1>9. \A n \in Nat : p[n] \in Nat
  <2> DEFINE N == {n \in Nat : p[n] \in Nat}
  <2>1. 0 \in N
    BY <1>8
  <2>2. ASSUME NEW n \in Nat, n \in N PROVE n + 1 \in N
    BY <1>8, <2>2
  <2> HIDE DEF N
  <2>3. \A n \in Nat : n \in N
    BY <2>1, <2>2, NumbersOneByOne
  <2> QED BY <2>3 DEF N
<1> QED BY <1>7, <1>8, <1>9

\* A power of the base is not smaller than a lower one.
LEMMA PowerIsMonotone ==
  ASSUME NEW b \in Nat \ {0}, NEW m \in Nat, NEW n \in Nat, m <= n
  PROVE  Power(b, m) <= Power(b, n)
<1> DEFINE N == {k \in Nat : m <= k => Power(b, m) <= Power(b, k)}
<1>1. 0 \in N
  BY PowerGrows
<1>2. ASSUME NEW k \in Nat, k \in N PROVE k + 1 \in N
  <2>1. SUFFICES ASSUME m <= k + 1, m # k + 1 PROVE Power(b, m) <= Power(b, k + 1)
    BY PowerGrows
  <2>2. Power(b, m) <= Power(b, k) /\ Power(b, m) \in Nat /\ Power(b, k) \in Nat
    BY <1>2, <2>1, PowerGrows
  <2>3. Power(b, k + 1) = b * Power(b, k)
    BY PowerGrows
  <2>4. ASSUME NEW x \in Nat PROVE b * x >= x
    BY SMT
  <2>5. b * Power(b, k) >= Power(b, k) /\ b * Power(b, k) \in Nat
    BY <2>2, <2>4
  <2> QED BY <2>2, <2>3, <2>5
<1> HIDE DEF N
<1>3. n \in N
  BY <1>1, <1>2, NumbersOneByOne
<1> QED BY <1>3 DEF N

\* The partial sums of Denotes, as the function that makes them.
SumUpTo(s, n, base, f) ==
  f = [k \in 0..n |-> IF k = 0 THEN 0 ELSE f[k - 1] + DigitOf(s[k]) * Power(base, n - k)]

IsSum(s, n, base, f) ==
  /\ f \in [0..n -> Nat] /\ f[0] = 0
  /\ \A k \in 1..n : f[k] = f[k - 1] + DigitOf(s[k]) * Power(base, n - k)

\* There is a sum of the first n digits: the recursive function of Denotes has values.
LEMMA SumExists ==
  ASSUME NEW s, NEW n \in Nat, NEW base \in Nat, \A k \in 1..n : DigitOf(s[k]) \in Nat
  PROVE  \E f : SumUpTo(s, n, base, f) /\ IsSum(s, n, base, f)
<1> DEFINE w(k) == DigitOf(s[k]) * Power(base, n - k)
           t == [x \in Nat \X Nat |-> IF x[1] < n THEN x[2] + w(x[1] + 1) ELSE 0]
<1>1. \A k \in 1..n : w(k) \in Nat
  <2>1. ASSUME NEW k \in 1..n PROVE w(k) \in Nat
    <3>1. n - k \in Nat
      OBVIOUS
    <3>2. Power(base, n - k) \in Nat
      BY <3>1, PowerGrows
    <3>3. \A x \in Nat, y \in Nat : x * y \in Nat
      OBVIOUS
    <3> QED BY <3>2, <3>3
  <2> QED BY <2>1
<1> HIDE DEF w
<1>2. t \in [Nat \X Nat -> Nat]
  <2>1. ASSUME NEW x \in Nat \X Nat PROVE (IF x[1] < n THEN x[2] + w(x[1] + 1) ELSE 0) \in Nat
    <3>1. x[1] \in Nat /\ x[2] \in Nat /\ (x[1] < n => x[1] + 1 \in 1..n)
      OBVIOUS
    <3> QED BY <1>1, <3>1
  <2> QED BY <2>1
<1>3. \A k \in Nat, v \in Nat : k < n => t[<<k, v>>] = v + w(k + 1)
  OBVIOUS
<1> HIDE DEF t
<1>4. PICK g : Recurs(Nat, 0, t, g)
  BY <1>2, RecursionExists
<1>5. g \in [Nat -> Nat] /\ g[0] = 0 /\ \A k \in Nat : k < n => g[k + 1] = g[k] + w(k + 1)
  BY <1>3, <1>4 DEF Recurs
<1> DEFINE f == [k \in 0..n |-> g[k]]
<1>6. f \in [0..n -> Nat] /\ f[0] = 0
  BY <1>5
<1>7. \A k \in 1..n : f[k] = f[k - 1] + w(k)
  <2>1. ASSUME NEW k \in 1..n PROVE g[k] = g[k - 1] + w(k)
    <3>1. k - 1 \in Nat /\ k - 1 < n /\ (k - 1) + 1 = k
      OBVIOUS
    <3>2. g[(k - 1) + 1] = g[k - 1] + w((k - 1) + 1)
      BY <1>5, <3>1
    <3> QED BY <3>1, <3>2
  <2> QED BY <2>1
<1> HIDE DEF f
<1>8. IsSum(s, n, base, f)
  BY <1>6, <1>7 DEF IsSum, w
<1>9. SumUpTo(s, n, base, f)
  <2>1. \A k \in 0..n : f[k] = IF k = 0 THEN 0 ELSE f[k - 1] + w(k)
    BY <1>6, <1>7
  <2>2. f = [k \in 0..n |-> IF k = 0 THEN 0 ELSE f[k - 1] + w(k)]
    BY <1>6, <2>1
  <2> QED BY <2>2, Zenon DEF SumUpTo, w
<1> QED BY <1>8, <1>9

\* A function that makes the partial sums has them as its values.
LEMMA SumValues ==
  ASSUME NEW s, NEW n \in Nat, NEW base \in Nat, NEW f, SumUpTo(s, n, base, f),
         \A k \in 1..n : DigitOf(s[k]) \in Nat
  PROVE  f[0] = 0 /\ \A k \in 1..n : f[k] = f[k - 1] + DigitOf(s[k]) * Power(base, n - k)
<1> DEFINE w(k) == DigitOf(s[k]) * Power(base, n - k)
<1>1. f = [k \in 0..n |-> IF k = 0 THEN 0 ELSE f[k - 1] + w(k)]
  BY Zenon DEF SumUpTo
<1> HIDE DEF w
<1>2. \A k \in 0..n : f[k] = IF k = 0 THEN 0 ELSE f[k - 1] + w(k)
  BY <1>1
<1>3. f[0] = 0 /\ \A k \in 1..n : f[k] = f[k - 1] + w(k)
  BY <1>2
<1> QED BY <1>3 DEF w

\* One more digit: the sum so far counts once more the base, and the digit for itself.
LEMMA OneMoreDigit ==
  ASSUME NEW s, NEW n \in Nat, NEW base \in Nat, \A k \in 1..(n + 1) : DigitOf(s[k]) \in Nat
  PROVE  /\ Denotes(s, n, base) \in Nat
         /\ Denotes(s, n + 1, base) = Denotes(s, n, base) * base + DigitOf(s[n + 1])
<1> DEFINE p == CHOOSE f : SumUpTo(s, n, base, f)
           q == CHOOSE f : SumUpTo(s, n + 1, base, f)
<1>1. n + 1 \in Nat /\ n + 1 \in 1..(n + 1) /\ \A k \in 1..n : k \in 1..(n + 1)
  OBVIOUS
<1>2. SumUpTo(s, n, base, p) /\ SumUpTo(s, n + 1, base, q)
  BY <1>1, SumExists
<1>3. Denotes(s, n, base) = p[n] /\ Denotes(s, n + 1, base) = q[n + 1]
  BY Zenon DEF Denotes, SumUpTo
<1> HIDE DEF p, q
<1>4. /\ p[0] = 0
      /\ \A k \in 1..n : p[k] = p[k - 1] + DigitOf(s[k]) * Power(base, n - k)
  BY <1>1, <1>2, SumValues
<1>5. /\ q[0] = 0
      /\ \A k \in 1..(n + 1) : q[k] = q[k - 1] + DigitOf(s[k]) * Power(base, (n + 1) - k)
  BY <1>1, <1>2, SumValues
<1> DEFINE N == {k \in Nat : k <= n => p[k] \in Nat /\ q[k] = p[k] * base}
<1>6. 0 \in N
  BY <1>4, <1>5
<1>7. ASSUME NEW k \in Nat, k \in N PROVE k + 1 \in N
  <2>1. SUFFICES ASSUME k + 1 <= n PROVE p[k + 1] \in Nat /\ q[k + 1] = p[k + 1] * base
    OBVIOUS
  <2> DEFINE d == DigitOf(s[k + 1])
             w == Power(base, n - (k + 1))
  <2>2. /\ k + 1 \in 1..n /\ k + 1 \in 1..(n + 1) /\ (k + 1) - 1 = k
        /\ n - (k + 1) \in Nat /\ (n + 1) - (k + 1) = (n - (k + 1)) + 1
    BY <2>1
  <2>3. d \in Nat /\ w \in Nat /\ Power(base, (n + 1) - (k + 1)) = base * w
    BY <2>2, PowerGrows
  <2>4. p[k + 1] = p[k] + d * w
    BY <1>4, <2>2
  <2>5. q[k + 1] = q[k] + d * (base * w)
    BY <1>5, <2>2, <2>3
  <2>6. p[k] \in Nat /\ q[k] = p[k] * base
    BY <1>7, <2>1
  <2> HIDE DEF d, w
  <2>7. \A x \in Nat, y \in Nat, z \in Nat :
          x * base + y * (base * z) = (x + y * z) * base /\ x + y * z \in Nat
    BY SMTT(30)
  <2> QED BY <2>3, <2>4, <2>5, <2>6, <2>7
<1>8. n \in N
  <2> HIDE DEF N
  <2> QED BY <1>6, <1>7, NumbersOneByOne
<1>9. q[n + 1] = q[n] + DigitOf(s[n + 1]) * Power(base, 0)
  <2>1. (n + 1) - (n + 1) = 0 /\ (n + 1) - 1 = n
    OBVIOUS
  <2> QED BY <1>1, <1>5, <2>1
<1>10. DigitOf(s[n + 1]) * Power(base, 0) = DigitOf(s[n + 1])
  BY PowerGrows
<1> QED BY <1>3, <1>8, <1>9, <1>10

\* No digits denote nothing.
LEMMA NoDigits ==
  ASSUME NEW s, NEW base \in Nat
  PROVE  Denotes(s, 0, base) = 0
<1> DEFINE p == CHOOSE f : SumUpTo(s, 0, base, f)
<1>1. 0 \in Nat /\ \A k \in 1..0 : DigitOf(s[k]) \in Nat
  OBVIOUS
<1>2. SumUpTo(s, 0, base, p)
  BY <1>1, SumExists
<1>3. Denotes(s, 0, base) = p[0]
  BY Zenon DEF Denotes, SumUpTo
<1> HIDE DEF p
<1> QED BY <1>1, <1>2, <1>3, SumValues

-----------------------------------------------------------------------------
(* The parsers against the reference.                                      *)

\* The digit a character stands for is the one the loops take it for.
LEMMA DigitsDenote ==
  ASSUME NEW c \in Nat
  PROVE  /\ IsDigit(c) => DigitOf(c) = c - 48 /\ DigitOf(c) \in 0..9
         /\ IsHex(c) => DigitOf(c) = HexDigit(c) /\ DigitOf(c) \in 0..15
<1> DEFINE D(d) == c \in {48 + d, 87 + d} /\ (c < 97 <=> d < 10)
<1>1. ASSUME NEW e \in 0..15, D(e), \A d \in 0..15 : D(d) => d = e
      PROVE  DigitOf(c) = e
  <2>1. DigitOf(c) \in 0..15 /\ D(DigitOf(c))
    BY <1>1 DEF DigitOf
  <2> QED BY <1>1, <2>1
<1>2. ASSUME IsDigit(c) PROVE DigitOf(c) = c - 48 /\ c - 48 \in 0..9
  <2>1. c - 48 \in 0..9 /\ c - 48 \in 0..15 /\ D(c - 48)
    BY <1>2 DEF IsDigit
  <2>2. ASSUME NEW d \in 0..15, D(d) PROVE d = c - 48
    BY <1>2, <2>2 DEF IsDigit
  <2> HIDE DEF D
  <2> QED BY <1>1, <2>1, <2>2
<1>3. ASSUME IsLetter(c) PROVE DigitOf(c) = c - 87 /\ c - 87 \in 10..15
  <2>1. c - 87 \in 10..15 /\ c - 87 \in 0..15 /\ D(c - 87)
    BY <1>3 DEF IsLetter
  <2>2. ASSUME NEW d \in 0..15, D(d) PROVE d = c - 87
    BY <1>3, <2>2 DEF IsLetter
  <2> HIDE DEF D
  <2> QED BY <1>1, <2>1, <2>2
<1>4. IsLetter(c) => ~IsDigit(c) /\ c - 97 + 10 = c - 87
  BY DEF IsLetter, IsDigit
<1> QED BY <1>2, <1>3, <1>4 DEF IsHex, HexDigit, DECIMAL_BASE

\* The number so far is the one the characters before the cursor denote, and the one
\* receipt_parse_hex has is below the power of its digits: neither is ever reduced.
DenotesSoFar ==
  /\ parsed = exact
  /\ parser = "size" => exact = Denotes(text, cursor - 1, 10)
  /\ parser = "hex" => exact = Denotes(text, index, 16) /\ exact < Power(16, index)

LEMMA InitDenotes == Init => DenotesSoFar
<1>1. Denotes(text, 0, 10) = 0 /\ Denotes(text, 0, 16) = 0 /\ Power(16, 0) = 1
  BY NoDigits, PowerGrows
<1> QED BY <1>1 DEF Init, DenotesSoFar

LEMMA StepDenotes == NumbersInv /\ NumbersInv' /\ Verdicts /\ DenotesSoFar /\ [Next]_vars => DenotesSoFar'
<1>1. SUFFICES ASSUME NumbersInv, NumbersInv', Verdicts, DenotesSoFar, [Next]_vars
               PROVE  DenotesSoFar'
  OBVIOUS
<1>2. /\ cursor \in 1..Len(text) /\ index \in 0..HexLength /\ parsed \in Nat /\ exact \in Nat
      /\ Len(text) \in Nat \ {0} /\ HexLength \in Nat /\ index <= Len(text) - 1
      /\ \A i \in 1..Len(text) : text[i] \in Nat
  <2>1. text \in Seq(Nat) /\ text # <<>>
    BY <1>1 DEF NumbersInv, TextIsTerminated
  <2>2. Len(text) \in Nat \ {0} /\ \A i \in 1..Len(text) : text[i] \in Nat
    BY <2>1
  <2> QED BY <1>1, <2>2, WordAssumption DEF NumbersInv, TypeOK
<1>4. CASE SizeDigit
  <2> DEFINE digit == text[cursor] - 48
  <2>1. CASE Passes(digit)
    <3>1. UNCHANGED <<parser, text, cursor, index, parsed, exact>>
      BY <1>4, <2>1 DEF SizeDigit, Fail
    <3> QED BY <1>1, <3>1 DEF DenotesSoFar
  <2>2. CASE ~Passes(digit)
    <3>1. /\ parser = "size" /\ parser' = parser /\ text' = text /\ cursor' = cursor + 1
          /\ exact' = exact * 10 + digit /\ IsDigit(text[cursor])
      BY <1>4, <2>2 DEF SizeDigit, Running, DECIMAL_BASE
    <3>2. parsed' = exact'
      BY <1>1, <3>1 DEF NumbersInv, NothingWraps
    <3>3. cursor - 1 \in Nat /\ (cursor - 1) + 1 = cursor /\ text[cursor] \in Nat
      BY <1>2
    <3>4. \A k \in 1..cursor : DigitOf(text[k]) \in Nat
      <4>1. ASSUME NEW k \in 1..cursor PROVE IsDigit(text[k]) /\ text[k] \in Nat
        BY <1>1, <1>2, <3>1 DEF Verdicts
      <4>2. ASSUME NEW k \in 1..cursor PROVE DigitOf(text[k]) \in Nat
        <5>1. DigitOf(text[k]) \in 0..9
          BY <4>1, DigitsDenote
        <5> QED BY <5>1
      <4> QED BY <4>2
    <3>5. Denotes(text, cursor, 10) = Denotes(text, cursor - 1, 10) * 10 + DigitOf(text[cursor])
      BY <3>3, <3>4, OneMoreDigit
    <3>6. DigitOf(text[cursor]) = digit
      BY <3>1, <3>3, DigitsDenote
    <3>7. exact' = Denotes(text, cursor, 10)
      BY <1>1, <3>1, <3>5, <3>6 DEF DenotesSoFar
    <3>8. cursor' - 1 = cursor
      BY <1>2, <3>1
    <3> QED BY <3>1, <3>2, <3>7, <3>8 DEF DenotesSoFar
  <2> QED BY <2>1, <2>2
<1>5. CASE SizeEnds
  BY <1>1, <1>5 DEF SizeEnds, Running, DenotesSoFar
<1>6. CASE HexTurn
  <2> DEFINE c == text[cursor + index]
  <2>1. cursor = 1 /\ parser = "hex" /\ index < HexLength /\ cursor + index = index + 1
    BY <1>1, <1>2, <1>6 DEF HexTurn, Running, NumbersInv
  <2>2. CASE ~(IsDigit(c) \/ IsLetter(c))
    <3>1. UNCHANGED <<parser, text, cursor, index, parsed, exact>>
      BY <1>6, <2>2 DEF HexTurn, Fail
    <3> QED BY <1>1, <3>1 DEF DenotesSoFar
  <2>3. CASE IsDigit(c) \/ IsLetter(c)
    <3>1. /\ parser' = parser /\ text' = text /\ index' = index + 1
          /\ parsed' = (parsed * 16 + HexDigit(c)) % HexWord
          /\ exact' = exact * 16 + HexDigit(c)
      BY <1>6, <2>3 DEF HexTurn, HEX_BASE
    <3>2. c \in Nat /\ IsHex(c) /\ c = text[index + 1] /\ index \in Nat
      BY <1>2, <2>1, <2>3 DEF IsHex
    <3>3. DigitOf(c) = HexDigit(c) /\ HexDigit(c) \in 0..15
      <4> HIDE DEF c
      <4> QED BY <3>2, DigitsDenote
    <3>4. \A k \in 1..(index + 1) : DigitOf(text[k]) \in Nat
      <4>1. ASSUME NEW k \in 1..(index + 1) PROVE IsHex(text[k]) /\ text[k] \in Nat
        <5>1. k \in 1..index \/ k = index + 1
          BY <3>2
        <5> QED BY <1>1, <1>2, <2>1, <3>2, <5>1 DEF Verdicts
      <4>2. ASSUME NEW k \in 1..(index + 1) PROVE DigitOf(text[k]) \in Nat
        <5>1. DigitOf(text[k]) \in 0..15
          BY <4>1, DigitsDenote
        <5> QED BY <5>1
      <4> QED BY <4>2
    <3> HIDE DEF c
    <3>5. Denotes(text, index + 1, 16) = Denotes(text, index, 16) * 16 + DigitOf(c)
      BY <3>2, <3>4, OneMoreDigit
    <3>6. exact' = Denotes(text, index + 1, 16)
      BY <1>1, <2>1, <3>1, <3>3, <3>5 DEF DenotesSoFar
    <3>7. exact' < Power(16, index + 1)
      <4>1. exact < Power(16, index) /\ Power(16, index) \in Nat
            /\ Power(16, index + 1) = 16 * Power(16, index)
        BY <1>1, <2>1, <3>2, PowerGrows DEF DenotesSoFar
      <4>2. exact' = exact * 16 + HexDigit(c) /\ exact \in Nat
        BY <1>2, <3>1
      <4>3. \A x \in Nat, y \in Nat, d \in 0..15 : x < y => x * 16 + d < 16 * y
        OBVIOUS
      <4> HIDE DEF c
      <4>4. exact * 16 + HexDigit(c) < 16 * Power(16, index)
        BY <3>3, <4>1, <4>2, <4>3
      <4> QED BY <4>1, <4>2, <4>4
    <3>8. Power(16, index + 1) <= HexWord
      <4>1. HexWord = Power(16, HexLength) /\ index + 1 \in Nat /\ index + 1 <= HexLength
        BY <1>2, <2>1, <3>2, WordAssumption DEF HEX_BASE
      <4> QED BY <1>2, <4>1, PowerIsMonotone
    <3>9. parsed' = exact'
      <4>1. exact' \in Nat /\ HexWord \in Nat /\ Power(16, index + 1) \in Nat
        <5>1. exact * 16 + HexDigit(c) \in Nat
          BY <1>2, <3>3
        <5>2. index + 1 \in Nat
          BY <3>2
        <5> QED BY <3>1, <5>1, <5>2, PowerGrows, WordAssumption
      <4>2. exact' < HexWord
        BY <3>7, <3>8, <4>1
      <4>3. parsed' = exact' % HexWord
        BY <1>1, <3>1 DEF DenotesSoFar
      <4> QED BY <4>1, <4>2, <4>3, SmallRemainder
    <3> QED BY <2>1, <3>1, <3>6, <3>7, <3>9 DEF DenotesSoFar
  <2> QED BY <2>2, <2>3
<1>7. CASE HexEnds
  BY <1>1, <1>7 DEF HexEnds, Running, DenotesSoFar
<1>8. CASE UNCHANGED vars
  BY <1>1, <1>8 DEF vars, DenotesSoFar
<1> QED BY <1>1, <1>4, <1>5, <1>6, <1>7, <1>8 DEF Next

\* More digits do not denote less.
LEMMA MoreDigitsDenoteMore ==
  ASSUME NEW s, NEW m \in Nat, NEW n \in Nat, m <= n,
         \A k \in 1..n : s[k] \in Nat /\ IsDigit(s[k])
  PROVE  Denotes(s, m, 10) \in Nat /\ Denotes(s, n, 10) \in Nat
         /\ Denotes(s, m, 10) <= Denotes(s, n, 10)
<1>1. \A k \in 1..n : DigitOf(s[k]) \in Nat
  <2>1. ASSUME NEW k \in 1..n PROVE DigitOf(s[k]) \in Nat
    <3>1. DigitOf(s[k]) \in 0..9
      BY DigitsDenote
    <3> QED BY <3>1
  <2> QED BY <2>1
<1>2. ASSUME NEW k \in Nat, k + 1 <= n
      PROVE  /\ Denotes(s, k, 10) \in Nat /\ Denotes(s, k + 1, 10) \in Nat
             /\ Denotes(s, k, 10) <= Denotes(s, k + 1, 10)
  <2>1. \A i \in 1..(k + 1) : DigitOf(s[i]) \in Nat
    BY <1>1, <1>2
  <2>2. DigitOf(s[k + 1]) \in Nat
    BY <1>1, <1>2
  <2>3. /\ Denotes(s, k, 10) \in Nat
        /\ Denotes(s, k + 1, 10) = Denotes(s, k, 10) * 10 + DigitOf(s[k + 1])
    BY <2>1, OneMoreDigit
  <2> QED BY <2>2, <2>3
<1> DEFINE N == {k \in Nat : k <= n =>
                   /\ Denotes(s, k, 10) \in Nat
                   /\ m <= k => Denotes(s, m, 10) \in Nat /\ Denotes(s, m, 10) <= Denotes(s, k, 10)}
<1>3. 0 \in N
  BY NoDigits
<1>4. ASSUME NEW k \in Nat, k \in N PROVE k + 1 \in N
  <2>1. SUFFICES ASSUME k + 1 <= n
                 PROVE  /\ Denotes(s, k + 1, 10) \in Nat
                        /\ m <= k + 1 => /\ Denotes(s, m, 10) \in Nat
                                         /\ Denotes(s, m, 10) <= Denotes(s, k + 1, 10)
    OBVIOUS
  <2>2. /\ Denotes(s, k, 10) \in Nat /\ Denotes(s, k + 1, 10) \in Nat
        /\ Denotes(s, k, 10) <= Denotes(s, k + 1, 10)
    BY <1>2, <2>1
  <2>3. m <= k => Denotes(s, m, 10) \in Nat /\ Denotes(s, m, 10) <= Denotes(s, k, 10)
    BY <1>4, <2>1
  <2>4. CASE m <= k
    BY <2>2, <2>3, <2>4
  <2>5. CASE m = k + 1
    BY <2>2, <2>5
  <2> QED BY <2>2, <2>4, <2>5
<1> HIDE DEF N
<1>5. n \in N
  BY <1>3, <1>4, NumbersOneByOne
<1> QED BY <1>5 DEF N

\* The digits end at the first character that is none, and nowhere else.
LEMMA DigitsEnd ==
  ASSUME TextIsTerminated
  PROVE  /\ EndOfDigits \in 1..Len(text) /\ ~IsDigit(text[EndOfDigits])
         /\ \A j \in 1..(EndOfDigits - 1) : IsDigit(text[j])
         /\ \A i \in 1..Len(text) :
              ~IsDigit(text[i]) /\ (\A j \in 1..(i - 1) : IsDigit(text[j])) => EndOfDigits = i
<1>1. Len(text) \in Nat \ {0} /\ \A i \in 1..Len(text) : text[i] \in Nat
  BY DEF TextIsTerminated
<1> DEFINE E(i) == text[i] \notin 48..57 /\ \A j \in 1..(i - 1) : text[j] \in 48..57
           T == {i \in 1..Len(text) : text[i] \notin 48..57}
<1>2. \A i \in 1..Len(text) : IsDigit(text[i]) <=> text[i] \in 48..57
  BY <1>1 DEF IsDigit
<1>3. Len(text) \in T /\ T \subseteq Nat
  BY <1>1 DEF TextIsTerminated, NUL
<1>4. PICK x \in T : \A y \in T : x <= y
  BY <1>3, LeastNatural
<1>5. x \in 1..Len(text) /\ E(x)
  <2>1. ASSUME NEW j \in 1..(x - 1) PROVE text[j] \in 48..57
    <3>1. j \in 1..Len(text) /\ ~(x <= j)
      BY <1>1, <1>4
    <3> QED BY <1>4, <3>1
  <2> QED BY <1>4, <2>1
<1>6. EndOfDigits \in 1..Len(text) /\ E(EndOfDigits)
  BY <1>5 DEF EndOfDigits
<1>7. ASSUME NEW a \in 1..Len(text), NEW b \in 1..Len(text), E(a), E(b) PROVE a = b
  <2>1. ~(a < b)
    BY <1>7
  <2>2. ~(b < a)
    BY <1>7
  <2> QED BY <1>1, <2>1, <2>2
<1>8. \A j \in 1..(EndOfDigits - 1) : j \in 1..Len(text)
  BY <1>1, <1>6
<1>9. ASSUME NEW i \in 1..Len(text), ~IsDigit(text[i]), \A j \in 1..(i - 1) : IsDigit(text[j])
      PROVE  EndOfDigits = i
  <2>1. \A j \in 1..(i - 1) : j \in 1..Len(text)
    BY <1>1
  <2>2. E(i)
    BY <1>2, <1>9, <2>1
  <2> HIDE DEF E
  <2> QED BY <1>6, <1>7, <2>2
<1> QED BY <1>2, <1>6, <1>8, <1>9

LEMMA Accepted == NumbersInv /\ Verdicts /\ DenotesSoFar => AcceptedIsDenoted
<1>1. SUFFICES ASSUME NumbersInv, Verdicts, DenotesSoFar, result = 0
               PROVE  AcceptedIsDenoted
  BY DEF AcceptedIsDenoted
<1>2. TextIsTerminated /\ cursor \in 1..Len(text) /\ HexLength \in Nat
  BY <1>1, WordAssumption DEF NumbersInv, TypeOK
<1>3. CASE parser = "size"
  <2>1. cursor = EndOfDigits
    BY <1>1, <1>2, <1>3, DigitsEnd DEF Verdicts
  <2> QED BY <1>1, <1>3, <2>1 DEF DenotesSoFar, AcceptedIsDenoted
<1>4. CASE parser = "hex"
  <2>1. cursor = HexLength + 1 /\ index = cursor - 1
    BY <1>1, <1>2, <1>4 DEF Verdicts
  <2> QED BY <1>1, <1>4, <2>1 DEF DenotesSoFar, AcceptedIsDenoted
<1> QED BY <1>1, <1>3, <1>4 DEF AcceptedIsDenoted

LEMMA Refused == NumbersInv /\ Verdicts /\ DenotesSoFar => RefusedIsDeserved
<1>1. SUFFICES ASSUME NumbersInv, Verdicts, DenotesSoFar, result = -1
               PROVE  RefusedIsDeserved
  BY DEF RefusedIsDeserved
<1>2. /\ TextIsTerminated /\ cursor \in 1..Len(text) /\ index \in Nat /\ index <= Len(text) - 1
      /\ HexLength \in Nat /\ SizeMax \in Nat /\ parsed \in Nat
  BY <1>1, WordAssumption DEF NumbersInv, TypeOK
<1>3. Len(text) \in Nat /\ \A i \in 1..Len(text) : text[i] \in Nat
  BY <1>2 DEF TextIsTerminated
<1> DEFINE E == EndOfDigits
<1>4. /\ E \in 1..Len(text) /\ ~IsDigit(text[E]) /\ \A j \in 1..(E - 1) : IsDigit(text[j])
      /\ \A i \in 1..Len(text) :
           ~IsDigit(text[i]) /\ (\A j \in 1..(i - 1) : IsDigit(text[j])) => E = i
  BY <1>2, DigitsEnd
<1> HIDE DEF E
<1>5. CASE parser = "size" /\ ~IsDigit(text[cursor])
  <2>1. cursor = 1 /\ \A j \in 1..(1 - 1) : IsDigit(text[j])
    BY <1>1, <1>5 DEF Verdicts
  <2>2. E = 1
    BY <1>2, <1>4, <1>5, <2>1
  <2> QED BY <1>5, <2>2 DEF RefusedIsDeserved, E
<1>6. CASE parser = "size" /\ IsDigit(text[cursor])
  <2>1. /\ parsed * 10 + (text[cursor] - 48) > SizeMax
        /\ \A j \in 1..(cursor - 1) : IsDigit(text[j])
    BY <1>1, <1>6 DEF Verdicts, DECIMAL_BASE
  <2>2. \A j \in 1..cursor : IsDigit(text[j])
    <3>1. \A j \in 1..cursor : j = cursor \/ j \in 1..(cursor - 1)
      BY <1>2
    <3> QED BY <1>6, <2>1, <3>1
  <2>3. cursor <= E - 1 /\ cursor \in Nat /\ E - 1 \in Nat
    BY <1>2, <1>3, <1>4, <2>2
  <2>4. \A k \in 1..(E - 1) : text[k] \in Nat /\ IsDigit(text[k])
    BY <1>3, <1>4
  <2>5. /\ Denotes(text, cursor, 10) \in Nat /\ Denotes(text, E - 1, 10) \in Nat
        /\ Denotes(text, cursor, 10) <= Denotes(text, E - 1, 10)
    BY <2>3, <2>4, MoreDigitsDenoteMore
  <2>6. Denotes(text, cursor, 10) = parsed * 10 + (text[cursor] - 48)
    <3>1. \A k \in 1..cursor : DigitOf(text[k]) \in Nat
      <4>1. ASSUME NEW k \in 1..cursor PROVE DigitOf(text[k]) \in Nat
        <5>1. text[k] \in Nat /\ IsDigit(text[k])
          BY <1>2, <1>3, <2>2
        <5>2. DigitOf(text[k]) \in 0..9
          BY <5>1, DigitsDenote
        <5> QED BY <5>2
      <4> QED BY <4>1
    <3>2. cursor - 1 \in Nat /\ (cursor - 1) + 1 = cursor /\ text[cursor] \in Nat
      BY <1>2, <1>3
    <3>3. Denotes(text, cursor, 10) = Denotes(text, cursor - 1, 10) * 10 + DigitOf(text[cursor])
      BY <3>1, <3>2, OneMoreDigit
    <3>4. DigitOf(text[cursor]) = text[cursor] - 48
      BY <1>6, <3>2, DigitsDenote
    <3> QED BY <1>1, <1>6, <3>3, <3>4 DEF DenotesSoFar
  <2>7. Denotes(text, E - 1, 10) > SizeMax
    BY <1>2, <2>1, <2>5, <2>6
  <2> QED BY <1>6, <2>7 DEF RefusedIsDeserved, E
<1>7. CASE parser = "hex"
  <2>1. index < HexLength /\ ~IsHex(text[index + 1])
    BY <1>1, <1>7 DEF Verdicts
  <2>2. index + 1 \in 1..HexLength /\ text[index + 1] \in Nat
    BY <1>2, <1>3, <2>1
  <2>3. text[index + 1] \notin (48..57) \cup (97..102)
    BY <2>1, <2>2 DEF IsHex, IsDigit, IsLetter
  <2> QED BY <1>7, <2>2, <2>3 DEF RefusedIsDeserved
<1>8. parser \in {"size", "hex"}
  BY <1>1 DEF NumbersInv, TypeOK
<1> QED BY <1>5, <1>6, <1>7, <1>8

LEMMA DenotesInvariant == Spec => [](NumbersInv /\ Verdicts /\ DenotesSoFar)
<1>1. Init => NumbersInv /\ Verdicts /\ DenotesSoFar
  BY InitNumbers, InitVerdicts, InitDenotes
<1>2. NumbersInv /\ Verdicts /\ DenotesSoFar /\ [Next]_vars
        => (NumbersInv /\ Verdicts /\ DenotesSoFar)'
  BY StepNumbers, StepVerdicts, StepDenotes
<1> QED BY <1>1, <1>2, PTL DEF Spec

\* A number that is accepted is the one its digits denote, each with the weight of its
\* place: receipt_parse_size takes all the digits there are and receipt_parse_hex as
\* many as a digest has, and no multiplication on the way wraps, for every word.
THEOREM AcceptedIsTheNumber == Spec => []AcceptedIsDenoted
  BY DenotesInvariant, Accepted, PTL

\* A number is refused only when there are no digits, when the ones there are denote
\* more than SIZE_MAX, or when one of a digest's is none, for every word.
THEOREM NoNumberIsRefused == Spec => []RefusedIsDeserved
  BY DenotesInvariant, Refused, PTL
=============================================================================
