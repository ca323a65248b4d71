---------------------------- MODULE DigestProofs -----------------------------
(***************************************************************************)
(* The digest of a receipt, for every word, every odd prime with small     *)
(* halves, every alphabet and all texts.  First, that fnv1a64_multiply is  *)
(* the product modulo the word, that nothing overflows on the way and that *)
(* one damaged byte always shows in the hash.  Then, that the bytes hashed *)
(* for a receipt belong to no other receipt: each field can be read back   *)
(* off the front of what follows it, as a text ends at its NUL, a number   *)
(* has a fixed size, and whether there is a fingerprint is known before    *)
(* its fields come.                                                        *)
(***************************************************************************)
EXTENDS Fnv1a, DigestBytes, Counting, TLAPS

\* Division with remainder.
LEMMA DivMod ==
  ASSUME NEW a \in Nat, NEW n \in Nat \ {0}
  PROVE  /\ a \div n \in Nat /\ a % n \in 0..(n - 1)
         /\ a = (a \div n) * n + (a % n)
  OBVIOUS

\* A remainder is known by the number it comes from.
LEMMA RemainderIsUnique ==
  ASSUME NEW q \in Nat, NEW n \in Nat \ {0}, NEW r \in 0..(n - 1)
  PROVE  (q * n + r) % n = r
<1> DEFINE a == q * n + r
           d == a \div n
           e == a % n
<1>1. a \in Nat
  OBVIOUS
<1>2. d \in Nat /\ e \in 0..(n - 1) /\ a = d * n + e
  BY <1>1, DivMod
<1>3. (q - d) * n = e - r
  BY <1>2
<1>4. ~ (q - d >= 1)
  <2>1. SUFFICES ASSUME q - d >= 1 PROVE FALSE
    OBVIOUS
  <2>2. (q - d) * n >= n
    BY <2>1, <1>2
  <2> QED BY <2>2, <1>2, <1>3
<1>5. ~ (d - q >= 1)
  <2>1. SUFFICES ASSUME d - q >= 1 PROVE FALSE
    OBVIOUS
  <2>2. (d - q) * n >= n
    BY <2>1, <1>2
  <2>3. (d - q) * n = r - e
    BY <1>2
  <2> QED BY <2>2, <2>3, <1>2
<1>6. d = q
  BY <1>2, <1>4, <1>5
<1> QED BY <1>3, <1>6, <1>2

\* A number below the divisor is its own remainder.
LEMMA SmallRemainder ==
  ASSUME NEW a \in Nat, NEW n \in Nat, a < n
  PROVE  a % n = a
  OBVIOUS

LEMMA TimesMonotone ==
  ASSUME NEW a \in Nat, NEW b \in Nat, NEW n \in Nat, a <= b
  PROVE  a * n <= b * n /\ a * n \in Nat /\ b * n \in Nat
  OBVIOUS

\* The halves of a word.
LEMMA Halves ==
  ASSUME NEW v \in Hashes
  PROVE  /\ HalfWord \in Nat \ {0}
         /\ value_low(v) \in 0..(HalfWord - 1)
         /\ value_high(v) \in 0..(HalfWord - 1)
         /\ v = value_high(v) * HalfWord + value_low(v)
<1>1. HalfWord \in Nat \ {0} /\ v \in Nat /\ v < HalfWord * HalfWord
  BY PrimeAssumption DEF Hashes, Word
<1>2. /\ v \div HalfWord \in Nat /\ v % HalfWord \in 0..(HalfWord - 1)
      /\ v = (v \div HalfWord) * HalfWord + (v % HalfWord)
  BY <1>1, DivMod
<1>3. v \div HalfWord < HalfWord
  <2>1. SUFFICES ASSUME v \div HalfWord >= HalfWord PROVE FALSE
    BY <1>1, <1>2
  <2>2. (v \div HalfWord) * HalfWord >= HalfWord * HalfWord
    BY <2>1, <1>1, <1>2
  <2> QED BY <2>2, <1>1, <1>2
<1> QED BY <1>1, <1>2, <1>3 DEF value_low, value_high

\* The products and sums of fnv1a64_multiply stay below the word.
LEMMA IntermediatesFit ==
  ASSUME NEW v \in Hashes
  PROVE  /\ low_product(v) \in Nat /\ low_product(v) < Word
         /\ HighSum(v) \in Nat /\ HighSum(v) < Word
<1> DEFINE M == HalfWord
           l == value_low(v)
           h == value_high(v)
           c == low_product(v) \div M
<1>1. M \in Nat \ {0} /\ l \in 0..(M - 1) /\ h \in 0..(M - 1)
  BY Halves
<1>2. PrimeHigh \in Nat /\ PrimeLow \in Nat /\ PrimeHigh + PrimeLow + 1 <= M
  BY PrimeAssumption
<1> HIDE DEF M, l, h
<1>3. low_product(v) = l * PrimeLow
  BY DEF low_product, l
<1>4. l * PrimeLow \in Nat /\ l * PrimeLow <= (M - 1) * PrimeLow
  BY <1>1, <1>2
<1>5. h * PrimeLow \in Nat /\ h * PrimeLow <= (M - 1) * PrimeLow
  BY <1>1, <1>2
<1>6. l * PrimeHigh \in Nat /\ l * PrimeHigh <= (M - 1) * PrimeHigh
  BY <1>1, <1>2
<1>7. (M - 1) * PrimeLow + (M - 1) * PrimeHigh <= (M - 1) * (M - 1)
  <2>1. (M - 1) * PrimeLow + (M - 1) * PrimeHigh = (M - 1) * (PrimeLow + PrimeHigh)
    BY <1>1, <1>2
  <2>2. (M - 1) * (PrimeLow + PrimeHigh) <= (M - 1) * (M - 1)
    BY <1>1, <1>2
  <2> QED BY <2>1, <2>2
<1>8. (M - 1) * PrimeLow < (M - 1) * M + 1
  BY <1>1, <1>2
<1>9. c \in Nat /\ c <= M - 1
  <2>1. c \in Nat /\ low_product(v) = c * M + (low_product(v) % M)
        /\ low_product(v) % M \in 0..(M - 1)
    BY <1>1, <1>3, <1>4, DivMod
  <2> HIDE DEF c
  <2>2. SUFFICES ASSUME M <= c PROVE FALSE
    BY <2>1, <1>1
  <2>3. M * M <= c * M /\ c * M \in Nat /\ M * M \in Nat
    BY <2>2, <2>1, <1>1, TimesMonotone
  <2>4. M * M = (M - 1) * M + M
    BY <1>1
  <2>5. c * M <= low_product(v)
    BY <2>1, <2>3, <1>1, <1>3, <1>4
  <2>6. low_product(v) <= (M - 1) * PrimeLow
    BY <1>3, <1>4
  <2>7. (M - 1) * M \in Nat /\ (M - 1) * PrimeLow \in Nat /\ low_product(v) \in Nat
    BY <1>1, <1>2, <1>3, <1>4
  <2>8. low_product(v) < (M - 1) * M + M
    BY <2>6, <2>7, <1>8, <1>1
  <2>9. (M - 1) * M + M <= low_product(v)
    BY <2>3, <2>4, <2>5, <2>7, <1>1
  <2> QED BY <2>7, <2>8, <2>9, <1>1
<1>10. HighSum(v) = c + l * PrimeHigh + h * PrimeLow
  BY DEF HighSum, M, l, h
<1>11. M * M = (M - 1) * (M - 1) + 2 * M - 1 /\ M * M = (M - 1) * M + M
  BY <1>1
<1>12. Word = M * M
  BY DEF Word, M
<1>13. (M - 1) * PrimeHigh \in Nat /\ (M - 1) * PrimeLow \in Nat /\ (M - 1) * (M - 1) \in Nat
       /\ (M - 1) * M \in Nat
  BY <1>1, <1>2
<1> QED BY <1>1, <1>3, <1>4, <1>5, <1>6, <1>7, <1>8, <1>9, <1>10, <1>11, <1>12, <1>13

\* The two halves and their carry make the product modulo the word.
LEMMA ProductOfHalves ==
  ASSUME NEW v \in Hashes
  PROVE  /\ fnv1a64_multiply(v) = (v * Prime) % Word
         /\ fnv1a64_multiply(v) \in Hashes
<1> DEFINE M == HalfWord
           A == PrimeHigh
           B == PrimeLow
           l == value_low(v)
           h == value_high(v)
           c == low_product(v) \div M
           r == low_product(v) % M
           S == HighSum(v)
           t == S \div M
           s == S % M
<1>1. /\ M \in Nat \ {0} /\ l \in 0..(M - 1) /\ h \in 0..(M - 1)
      /\ v = h * M + l /\ A \in Nat /\ B \in Nat
  BY Halves, PrimeAssumption
<1>2. low_product(v) \in Nat /\ low_product(v) < Word /\ S \in Nat /\ S < Word
  BY IntermediatesFit
<1>3. low_product(v) = l * B /\ S = c + l * A + h * B /\ Word = M * M
      /\ Prime = A * M + B
  BY DEF low_product, HighSum, Word, Prime
<1>4. c \in Nat /\ r \in 0..(M - 1) /\ l * B = c * M + r
  BY <1>1, <1>2, <1>3, DivMod
<1>5. t \in Nat /\ s \in 0..(M - 1) /\ S = t * M + s
  BY <1>1, <1>2, DivMod
<1>6. fnv1a64_multiply(v) = s * M + r
  <2>1. Word \in Nat
    BY <1>1, <1>3
  <2>2. S % Word = S
    BY <1>2, <2>1, SmallRemainder
  <2>3. low_product(v) % Word = low_product(v)
    BY <1>2, <2>1, SmallRemainder
  <2> QED BY <2>2, <2>3 DEF fnv1a64_multiply, high_word
<1> HIDE DEF M, A, B, l, h, c, r, S, t, s
<1>7. v * Prime = (h * A + t) * Word + (s * M + r)
  <2>1. v * Prime = (h * M + l) * (A * M + B)
    BY <1>1, <1>3
  <2>2. (h * M + l) * (A * M + B) = (h * A) * (M * M) + (l * A + h * B) * M + l * B
    BY <1>1
  <2>3. (l * A + h * B) * M + l * B = (c + l * A + h * B) * M + r
    BY <1>1, <1>4
  <2>4. (c + l * A + h * B) * M = (t * M + s) * M
    BY <1>3, <1>5
  <2>5. (t * M + s) * M = t * (M * M) + s * M
    BY <1>1, <1>5
  <2>6. (h * A) * (M * M) + t * (M * M) = (h * A + t) * (M * M)
    BY <1>1, <1>5
  <2> QED BY <2>1, <2>2, <2>3, <2>4, <2>5, <2>6, <1>1, <1>3, <1>4, <1>5
<1>8. s * M + r \in 0..(Word - 1)
  <2>1. s * M <= (M - 1) * M /\ s * M \in Nat
    BY <1>1, <1>5
  <2>2. (M - 1) * M = M * M - M
    BY <1>1
  <2> QED BY <2>1, <2>2, <1>1, <1>3, <1>4
<1>9. h * A + t \in Nat /\ Word \in Nat \ {0}
  BY <1>1, <1>3, <1>5
<1>10. (v * Prime) % Word = s * M + r
  BY <1>7, <1>8, <1>9, RemainderIsUnique
<1> QED BY <1>6, <1>8, <1>10 DEF Hashes

\* A factor that has an inverse can be cancelled.
LEMMA MultiplyIsInjective ==
  ASSUME NEW v \in Hashes, NEW w \in Hashes,
         fnv1a64_multiply(v) = fnv1a64_multiply(w)
  PROVE  v = w
<1> DEFINE W == Word
           a == v * Prime
           b == w * Prime
<1>1. PICK p \in Hashes, q \in Hashes : p * Prime = q * Word + 1
  BY InverseAssumption
<1>2. W \in Nat \ {0} /\ v \in 0..(W - 1) /\ w \in 0..(W - 1) /\ p \in Nat /\ q \in Nat
  BY PrimeAssumption DEF Hashes, Word
<1>3. Prime \in Nat
  BY PrimeAssumption DEF Prime
<1>4. a \in Nat /\ b \in Nat /\ a % W = b % W
  BY <1>2, <1>3, ProductOfHalves
<1> HIDE DEF W, a, b
<1> DEFINE d == a \div W
           e == b \div W
           r == a % W
<1>5. d \in Nat /\ r \in 0..(W - 1) /\ a = d * W + r
  BY <1>2, <1>4, DivMod
<1>6. e \in Nat /\ b = e * W + r
  BY <1>2, <1>4, DivMod
<1> HIDE DEF d, e, r
<1>7. v + (q * v) * W = (p * d) * W + p * r
  <2>1. p * a = v * (q * W + 1)
    BY <1>1, <1>2, <1>3 DEF a, W
  <2>2. v * (q * W + 1) = v + (q * v) * W
    BY <1>2
  <2>3. p * (d * W + r) = (p * d) * W + p * r
    BY <1>2, <1>5
  <2> QED BY <2>1, <2>2, <2>3, <1>5
<1>8. w + (q * w) * W = (p * e) * W + p * r
  <2>1. p * b = w * (q * W + 1)
    BY <1>1, <1>2, <1>3 DEF b, W
  <2>2. w * (q * W + 1) = w + (q * w) * W
    BY <1>2
  <2>3. p * (e * W + r) = (p * e) * W + p * r
    BY <1>2, <1>5, <1>6
  <2> QED BY <2>1, <2>2, <2>3, <1>6
<1> DEFINE j == q * v + p * e
           k == q * w + p * d
<1>9. v + j * W = w + k * W
  <2>1. j * W = (q * v) * W + (p * e) * W
    BY <1>2, <1>6
  <2>2. k * W = (q * w) * W + (p * d) * W
    BY <1>2, <1>5
  <2>3. /\ (q * v) * W \in Nat /\ (p * e) * W \in Nat /\ (q * w) * W \in Nat
        /\ (p * d) * W \in Nat /\ p * r \in Nat
    BY <1>2, <1>5, <1>6
  <2> QED BY <2>1, <2>2, <2>3, <1>7, <1>8, <1>2
<1>10. j \in Nat /\ k \in Nat
  BY <1>2, <1>5, <1>6
<1> HIDE DEF j, k
<1>11. (j * W + v) % W = v /\ (k * W + w) % W = w
  BY <1>2, <1>10, RemainderIsUnique
<1>12. j * W + v = k * W + w
  BY <1>9, <1>10, <1>2
<1> QED BY <1>11, <1>12

\* What is hashed next is a word.
LEMMA HashByteIsInjective ==
  ASSUME NEW g \in Hashes, NEW h \in Hashes, NEW b \in Bytes, NEW c \in Bytes
  PROVE  /\ HashByte(g, b) \in Hashes
         /\ HashByte(g, b) = HashByte(h, b) => g = h
         /\ HashByte(g, b) = HashByte(g, c) => b = c
<1>1. BitXor(g, b) \in Hashes /\ BitXor(h, b) \in Hashes /\ BitXor(g, c) \in Hashes
  BY XorAssumption
<1>2. HashByte(g, b) \in Hashes
  BY <1>1, ProductOfHalves DEF HashByte
<1>3. ASSUME HashByte(g, b) = HashByte(h, b) PROVE g = h
  <2>1. BitXor(g, b) = BitXor(h, b)
    BY <1>1, <1>3, MultiplyIsInjective DEF HashByte
  <2> QED BY <2>1, XorAssumption
<1>4. ASSUME HashByte(g, b) = HashByte(g, c) PROVE b = c
  <2>1. BitXor(g, b) = BitXor(g, c)
    BY <1>1, <1>4, MultiplyIsInjective DEF HashByte
  <2> QED BY <2>1, XorAssumption
<1> QED BY <1>2, <1>3, <1>4

\* Until the damaged byte the hashes agree, and from then on they differ.
OneByteInv == HashTypeOK /\ (damaged <=> hash # damaged_hash)

LEMMA OneByteInvariant == HashSpec => []OneByteInv
<1>1. HashInit => OneByteInv
  BY HashAssumption DEF HashInit, OneByteInv, HashTypeOK
<1>2. OneByteInv /\ [HashNext]_hashVars => OneByteInv'
  <2>1. SUFFICES ASSUME OneByteInv, [HashNext]_hashVars PROVE OneByteInv'
    OBVIOUS
  <2>2. CASE SameByte
    <3>1. PICK b \in Bytes : /\ hash' = HashByte(hash, b)
                             /\ damaged_hash' = HashByte(damaged_hash, b)
      BY <2>2 DEF SameByte
    <3>2. hash' \in Hashes /\ damaged_hash' \in Hashes
      BY <2>1, <3>1, HashByteIsInjective DEF OneByteInv, HashTypeOK
    <3>3. hash' = damaged_hash' <=> hash = damaged_hash
      BY <2>1, <3>1, HashByteIsInjective DEF OneByteInv, HashTypeOK
    <3> QED BY <2>1, <2>2, <3>2, <3>3 DEF SameByte, OneByteInv, HashTypeOK
  <2>3. CASE DamagedByte
    <3>1. PICK b \in Bytes, c \in Bytes :
            b # c /\ hash' = HashByte(hash, b) /\ damaged_hash' = HashByte(damaged_hash, c)
      BY <2>3 DEF DamagedByte
    <3>2. hash = damaged_hash /\ hash \in Hashes
      BY <2>1, <2>3 DEF DamagedByte, OneByteInv, HashTypeOK
    <3>3. hash' \in Hashes /\ damaged_hash' \in Hashes /\ hash' # damaged_hash'
      BY <3>1, <3>2, HashByteIsInjective
    <3> QED BY <2>3, <3>3 DEF DamagedByte, OneByteInv, HashTypeOK
  <2>4. CASE UNCHANGED hashVars
    BY <2>1, <2>4 DEF hashVars, OneByteInv, HashTypeOK
  <2> QED BY <2>1, <2>2, <2>3, <2>4 DEF HashNext
<1> QED BY <1>1, <1>2, PTL DEF HashSpec

\* The hashes are words: no half of a product spills out of its place.
THEOREM HashesAreWords == HashSpec => []HashTypeOK
<1>1. OneByteInv => HashTypeOK
  BY DEF OneByteInv
<1> QED BY <1>1, OneByteInvariant, PTL

\* fnv1a64_multiply is the product modulo the word (`FNV-1a is defined modulo 2^64',
\* receipt.c:447) for every hash the loop ever multiplies.
THEOREM ProductIsRight == HashSpec => []MultiplyIsProduct
<1>1. OneByteInv => MultiplyIsProduct
  BY ProductOfHalves DEF OneByteInv, HashTypeOK, MultiplyIsProduct
<1> QED BY <1>1, OneByteInvariant, PTL

\* A build that `instruments unsigned overflow' (receipt.c:449) has nothing to report.
THEOREM NothingOverflows == HashSpec => []NoIntermediateWrap
<1>1. OneByteInv => NoIntermediateWrap
  BY IntermediatesFit DEF OneByteInv, HashTypeOK, NoIntermediateWrap
<1> QED BY <1>1, OneByteInvariant, PTL

\* A text in which one byte was damaged never has the hash of the text it was, for
\* every length of the text and every place of the byte.
THEOREM DamageShows == HashSpec => []OneByteShows
<1>1. OneByteInv => OneByteShows
  BY DEF OneByteInv, OneByteShows
<1> QED BY <1>1, OneByteInvariant, PTL

-----------------------------------------------------------------------------
(* The bytes that are hashed: numbers.                                     *)

\* The quotient is the one number with a remainder below the divisor.
LEMMA QuotientIsUnique ==
  ASSUME NEW n \in Nat \ {0}, NEW q \in Nat, NEW r \in 0..(n - 1)
  PROVE  (q * n + r) \div n = q
<1> DEFINE d == (q * n + r) \div n
           e == (q * n + r) % n
<1>1. q * n + r \in Nat
  OBVIOUS
<1>2. d \in Nat /\ e \in 0..(n - 1) /\ q * n + r = d * n + e
  BY <1>1, DivMod
<1> HIDE DEF d, e
<1>3. (q - d) * n = e - r /\ (d - q) * n = r - e
  BY <1>2
<1>4. ~ (q - d >= 1)
  <2>1. SUFFICES ASSUME q - d >= 1 PROVE FALSE
    OBVIOUS
  <2>2. (q - d) * n >= n
    BY <2>1, <1>2
  <2> QED BY <2>2, <1>2, <1>3
<1>5. ~ (d - q >= 1)
  <2>1. SUFFICES ASSUME d - q >= 1 PROVE FALSE
    OBVIOUS
  <2>2. (d - q) * n >= n
    BY <2>1, <1>2
  <2> QED BY <2>2, <1>2, <1>3
<1>6. d = q
  BY <1>2, <1>4, <1>5
<1> QED BY <1>6 DEF d

\* Dividing twice is dividing by the product.
LEMMA DivDiv ==
  ASSUME NEW a \in Nat, NEW m \in Nat \ {0}, NEW n \in Nat \ {0}
  PROVE  a \div (n * m) = (a \div m) \div n
<1> DEFINE q == a \div m
           r == a % m
           s == q \div n
           t == q % n
<1>1. q \in Nat /\ r \in 0..(m - 1) /\ a = q * m + r
  BY DivMod
<1>2. s \in Nat /\ t \in 0..(n - 1) /\ q = s * n + t
  BY <1>1, DivMod
<1> HIDE DEF q, r, s, t
<1>3. a = s * (n * m) + (t * m + r)
  <2>1. (s * n + t) * m = s * (n * m) + t * m
    BY <1>2
  <2> QED BY <2>1, <1>1, <1>2
<1>4. t * m + r \in 0..((n * m) - 1)
  <2>1. t * m <= (n - 1) * m /\ t * m \in Nat
    BY <1>2
  <2>2. (n - 1) * m = n * m - m
    OBVIOUS
  <2> QED BY <2>1, <2>2, <1>1
<1>5. n * m \in Nat \ {0}
  OBVIOUS
<1>6. a \div (n * m) = s
  BY <1>2, <1>3, <1>4, <1>5, QuotientIsUnique
<1> QED BY <1>6 DEF s, q

\* The bytes of a word belong to no other word.
LEMMA BigEndianIsInjective ==
  ASSUME NEW u \in Words, NEW v \in Words, BigEndian(u) = BigEndian(v)
  PROVE  u = v
<1> DEFINE Same(k) == u \div Weight[k] = v \div Weight[k]
           T == {j \in 0..WordBytes : Same(WordBytes - j) = FALSE}
<1>1. WordBytes \in Nat /\ ByteBase \in Nat \ {0}
  BY ByteAssumption
<1>2. \A k \in 0..WordBytes : Weight[k] \in Nat \ {0}
  BY <1>1, WeightAssumption
<1>3. u \in Nat /\ v \in Nat /\ u < Weight[WordBytes] /\ v < Weight[WordBytes]
  BY <1>1, <1>2 DEF Words
<1>4. \A k \in 0..(WordBytes - 1) :
        (u \div Weight[k]) % ByteBase = (v \div Weight[k]) % ByteBase
  <2>1. SUFFICES ASSUME NEW k \in 0..(WordBytes - 1)
                 PROVE  (u \div Weight[k]) % ByteBase = (v \div Weight[k]) % ByteBase
    OBVIOUS
  <2>2. WordBytes - k \in 1..WordBytes /\ WordBytes - (WordBytes - k) = k
    BY <1>1
  <2>3. BigEndian(u)[WordBytes - k] = BigEndian(v)[WordBytes - k]
    OBVIOUS
  <2> QED BY <2>2, <2>3 DEF BigEndian
<1>5. Same(WordBytes)
  BY <1>2, <1>3, <1>1
<1>6. ASSUME NEW k \in 0..(WordBytes - 1), Same(k + 1) PROVE Same(k)
  <2> DEFINE p == u \div Weight[k]
             q == v \div Weight[k]
  <2>1. Weight[k] \in Nat \ {0} /\ Weight[k + 1] = ByteBase * Weight[k]
    <3>1. k + 1 \in 1..WordBytes /\ k \in 0..WordBytes /\ (k + 1) - 1 = k
      BY <1>1
    <3> QED BY <3>1, <1>2, WeightAssumption
  <2>2. u \div Weight[k + 1] = p \div ByteBase /\ v \div Weight[k + 1] = q \div ByteBase
    BY <2>1, <1>1, <1>3, DivDiv
  <2>3. p \in Nat /\ q \in Nat
    BY <2>1, <1>3, DivMod
  <2>4. p % ByteBase = q % ByteBase
    BY <1>4
  <2> HIDE DEF p, q
  <2>5. p \div ByteBase = q \div ByteBase
    BY <2>2, <1>6
  <2>6. p = (p \div ByteBase) * ByteBase + (p % ByteBase)
    BY <2>3, <1>1, DivMod
  <2>7. q = (q \div ByteBase) * ByteBase + (q % ByteBase)
    BY <2>3, <1>1, DivMod
  <2>8. p = q
    BY <2>4, <2>5, <2>6, <2>7
  <2> QED BY <2>8 DEF p, q
<1> HIDE DEF Same
<1>7. T = {}
  <2>1. SUFFICES ASSUME T # {} PROVE FALSE
    OBVIOUS
  <2>2. T \subseteq Nat
    BY <1>1
  <2>3. PICK j \in T : \A i \in T : j <= i
    BY <2>1, <2>2, LeastNatural
  <2>4. j \in 0..WordBytes /\ ~Same(WordBytes - j)
    BY <2>3
  <2>5. j # 0
    BY <2>4, <1>5, <1>1
  <2>6. j - 1 \in 0..WordBytes /\ j - 1 \notin T
    BY <2>3, <2>4, <2>5, <1>1
  <2>7. Same(WordBytes - (j - 1))
    BY <2>6
  <2>8. WordBytes - j \in 0..(WordBytes - 1) /\ (WordBytes - j) + 1 = WordBytes - (j - 1)
    BY <2>4, <2>5, <1>1
  <2>9. Same(WordBytes - j)
    BY <2>7, <2>8, <1>6
  <2> QED BY <2>9, <2>4
<1>8. Same(0)
  <2>1. WordBytes \in 0..WordBytes /\ WordBytes - WordBytes = 0
    BY <1>1
  <2> QED BY <2>1, <1>7
<1>9. u \div 1 = v \div 1
  BY <1>8, WeightAssumption DEF Same
<1> QED BY <1>9, <1>3

-----------------------------------------------------------------------------
(* Reading a field back.                                                   *)

LEMMA Associative ==
  ASSUME NEW p \in Seq(Byte), NEW q \in Seq(Byte), NEW r \in Seq(Byte)
  PROVE  (p \o q) \o r = p \o (q \o r)
  BY ConcatAssociative

\* Fronts of one length are known by the whole.
LEMMA FrontDecodes ==
  ASSUME NEW p \in Seq(Byte), NEW q \in Seq(Byte), NEW x \in Seq(Byte), NEW y \in Seq(Byte),
         Len(p) = Len(q), p \o x = q \o y
  PROVE  p = q /\ x = y
<1>1. \A i \in 1..Len(p) : p[i] = (p \o x)[i] /\ q[i] = (q \o y)[i]
  BY ConcatProperties, LenProperties
<1>2. p = q
  BY <1>1, SeqEqual
<1>3. x = y
  BY <1>2, ConcatSimplifications
<1> QED BY <1>2, <1>3

Terminated(s) == s \o <<NUL>>

\* A front and what follows it, with the concatenation out of sight.
Front(p, x) == p \o x

\* A text in front of its NUL is known by the whole.
LEMMA TextDecodes ==
  ASSUME NEW s \in Seq(Char), NEW t \in Seq(Char), NEW x \in Seq(Byte), NEW y \in Seq(Byte),
         Front(Terminated(s), x) = Front(Terminated(t), y)
  PROVE  s = t /\ x = y
<1> DEFINE p == Terminated(s)
           q == Terminated(t)
           w == p \o x
<1>1. NUL \in Byte /\ <<NUL>> \in Seq(Byte) /\ Char \subseteq Byte /\ NUL \notin Char
  BY ByteAssumption DEF Byte, NUL
<1>2. s \in Seq(Byte) /\ t \in Seq(Byte)
  BY <1>1, SeqMonotonic
<1>3. p \in Seq(Byte) /\ Len(p) = Len(s) + 1 /\ p[Len(s) + 1] = NUL
      /\ \A i \in 1..Len(s) : p[i] = s[i]
  BY <1>1, <1>2, ConcatProperties, LenProperties DEF Terminated
<1>4. q \in Seq(Byte) /\ Len(q) = Len(t) + 1 /\ q[Len(t) + 1] = NUL
      /\ \A i \in 1..Len(t) : q[i] = t[i]
  BY <1>1, <1>2, ConcatProperties, LenProperties DEF Terminated
<1>5. \A i \in 1..Len(s) : s[i] # NUL
  BY <1>1, ElementOfSeq
<1>6. \A i \in 1..Len(t) : t[i] # NUL
  BY <1>1, ElementOfSeq
<1> HIDE DEF p, q
<1>7. w = q \o y
  BY DEF p, q, w, Front
<1>8. \A i \in 1..Len(p) : w[i] = p[i]
  BY <1>3, ConcatProperties, LenProperties
<1>9. \A i \in 1..Len(q) : w[i] = q[i]
  BY <1>4, <1>7, ConcatProperties, LenProperties
<1> HIDE DEF w
<1>10. Len(s) \in Nat /\ Len(t) \in Nat
  BY LenProperties
<1>11. ASSUME Len(s) < Len(t) PROVE FALSE
  <2> DEFINE k == Len(s) + 1
  <2>1. k \in 1..Len(t) /\ k \in 1..Len(p) /\ k \in 1..Len(q)
    BY <1>3, <1>4, <1>10, <1>11
  <2>2. w[k] = NUL /\ w[k] = t[k]
    BY <2>1, <1>3, <1>4, <1>8, <1>9
  <2> QED BY <2>1, <2>2, <1>6
<1>12. ASSUME Len(t) < Len(s) PROVE FALSE
  <2> DEFINE k == Len(t) + 1
  <2>1. k \in 1..Len(s) /\ k \in 1..Len(p) /\ k \in 1..Len(q)
    BY <1>3, <1>4, <1>10, <1>12
  <2>2. w[k] = NUL /\ w[k] = s[k]
    BY <2>1, <1>3, <1>4, <1>8, <1>9
  <2> QED BY <2>1, <2>2, <1>5
<1>13. Len(s) = Len(t)
  BY <1>10, <1>11, <1>12
<1>14. p = q /\ x = y
  <2>1. p \o x = q \o y /\ Len(p) = Len(q)
    BY <1>3, <1>4, <1>7, <1>13 DEF w
  <2>2. p \in Seq(Byte) /\ q \in Seq(Byte)
    BY <1>3, <1>4
  <2> QED BY <2>1, <2>2, FrontDecodes
<1>15. \A i \in 1..Len(s) : s[i] = t[i]
  BY <1>3, <1>4, <1>13, <1>14
<1> QED BY <1>2, <1>13, <1>14, <1>15, SeqEqual

LEMMA Types ==
  /\ NUL \in Byte /\ <<NUL>> \in Seq(Byte) /\ Char \subseteq Byte
  /\ \A s \in Seq(Char) : s \in Seq(Byte)
  /\ \A s \in Labels : LabelOf(s) \in Seq(Char) /\ LabelOf(s) \in Seq(Byte)
<1>1. NUL \in Byte /\ <<NUL>> \in Seq(Byte) /\ Char \subseteq Byte
  BY ByteAssumption DEF Byte, NUL
<1>2. \A s \in Seq(Char) : s \in Seq(Byte)
  BY <1>1, SeqMonotonic
<1> QED BY <1>1, <1>2, LabelAssumption

LEMMA DigestTextType ==
  ASSUME NEW l \in Labels, NEW s \in Seq(Char)
  PROVE  digest_text(l, s) \in Seq(Byte)
<1>1. LabelOf(l) \in Seq(Byte) /\ s \in Seq(Byte) /\ <<NUL>> \in Seq(Byte)
  BY Types
<1>2. LabelOf(l) \o <<NUL>> \in Seq(Byte)
  BY <1>1, ConcatProperties
<1>3. (LabelOf(l) \o <<NUL>>) \o s \in Seq(Byte)
  BY <1>1, <1>2, ConcatProperties
<1> QED BY <1>1, <1>3, ConcatProperties DEF digest_text

LEMMA DigestTextDecodes ==
  ASSUME NEW l \in Labels, NEW s \in Seq(Char), NEW t \in Seq(Char),
         NEW x \in Seq(Byte), NEW y \in Seq(Byte),
         Front(digest_text(l, s), x) = Front(digest_text(l, t), y)
  PROVE  s = t /\ x = y
<1> DEFINE p == LabelOf(l) \o <<NUL>>
           a == Terminated(s) \o x
           b == Terminated(t) \o y
<1>1. LabelOf(l) \in Seq(Byte) /\ <<NUL>> \in Seq(Byte) /\ s \in Seq(Byte) /\ t \in Seq(Byte)
  BY Types
<1>2. p \in Seq(Byte)
  BY <1>1, ConcatProperties
<1> HIDE DEF p
<1>3. Terminated(s) \in Seq(Byte) /\ Terminated(t) \in Seq(Byte)
  BY <1>1, ConcatProperties DEF Terminated
<1>4. a \in Seq(Byte) /\ b \in Seq(Byte)
  BY <1>3, ConcatProperties
<1>5. digest_text(l, s) = p \o Terminated(s) /\ digest_text(l, t) = p \o Terminated(t)
  <2>1. (p \o s) \o <<NUL>> = p \o Terminated(s)
    BY <1>1, <1>2, Associative DEF Terminated
  <2>2. (p \o t) \o <<NUL>> = p \o Terminated(t)
    BY <1>1, <1>2, Associative DEF Terminated
  <2> QED BY <2>1, <2>2 DEF digest_text, p, Terminated
<1>6. digest_text(l, s) \o x = p \o a
  <2>1. (p \o Terminated(s)) \o x = p \o (Terminated(s) \o x)
    BY <1>2, <1>3, Associative
  <2> QED BY <2>1, <1>5
<1>7. digest_text(l, t) \o y = p \o b
  <2>1. (p \o Terminated(t)) \o y = p \o (Terminated(t) \o y)
    BY <1>2, <1>3, Associative
  <2> QED BY <2>1, <1>5
<1>8. p \o a = p \o b
  BY <1>6, <1>7 DEF Front
<1> HIDE DEF a, b
<1>9. a = b
  BY <1>2, <1>4, <1>8, FrontDecodes
<1>10. Front(Terminated(s), x) = Front(Terminated(t), y)
  BY <1>9 DEF a, b, Front
<1> QED BY <1>10, TextDecodes

LEMMA BigEndianType ==
  ASSUME NEW v \in Words
  PROVE  BigEndian(v) \in Seq(Byte) /\ Len(BigEndian(v)) = WordBytes
<1>1. WordBytes \in Nat /\ ByteBase \in Nat \ {0} /\ v \in Nat
  BY ByteAssumption DEF Words
<1>2. ASSUME NEW i \in 1..WordBytes
      PROVE  (v \div Weight[WordBytes - i]) % ByteBase \in Byte
  <2>1. Weight[WordBytes - i] \in Nat \ {0}
    BY <1>1, WeightAssumption
  <2>2. v \div Weight[WordBytes - i] \in Nat
    BY <1>1, <2>1, DivMod
  <2> QED BY <1>1, <2>2, DivMod DEF Byte
<1>3. BigEndian(v) \in [1..WordBytes -> Byte]
  BY <1>2 DEF BigEndian
<1> QED BY <1>1, <1>3, SeqDef

LEMMA DigestNumberType ==
  ASSUME NEW l \in Labels, NEW v \in Words
  PROVE  digest_u64(l, v) \in Seq(Byte)
<1>1. "field" \in Labels
  BY DEF Labels
<1>2. digest_text("field", LabelOf(l)) \in Seq(Byte)
  BY <1>1, Types, DigestTextType
<1> QED BY <1>2, BigEndianType, ConcatProperties DEF digest_u64

LEMMA DigestNumberDecodes ==
  ASSUME NEW l \in Labels, NEW u \in Words, NEW v \in Words,
         NEW x \in Seq(Byte), NEW y \in Seq(Byte),
         Front(digest_u64(l, u), x) = Front(digest_u64(l, v), y)
  PROVE  u = v /\ x = y
<1> DEFINE p == digest_text("field", LabelOf(l))
           a == BigEndian(u) \o x
           b == BigEndian(v) \o y
<1>1. "field" \in Labels
  BY DEF Labels
<1>2. p \in Seq(Byte)
  BY <1>1, Types, DigestTextType
<1> HIDE DEF p
<1>3. BigEndian(u) \in Seq(Byte) /\ BigEndian(v) \in Seq(Byte)
      /\ Len(BigEndian(u)) = Len(BigEndian(v))
  BY BigEndianType
<1>4. a \in Seq(Byte) /\ b \in Seq(Byte)
  BY <1>3, ConcatProperties
<1>5. p \o a = p \o b
  <2>1. (p \o BigEndian(u)) \o x = p \o a
    BY <1>2, <1>3, Associative
  <2>2. (p \o BigEndian(v)) \o y = p \o b
    BY <1>2, <1>3, Associative
  <2> QED BY <2>1, <2>2 DEF digest_u64, p, Front
<1>6. a = b
  <2> HIDE DEF a, b
  <2> QED BY <1>2, <1>4, <1>5, FrontDecodes
<1>7. BigEndian(u) = BigEndian(v) /\ x = y
  BY <1>3, <1>6, FrontDecodes
<1> QED BY <1>7, BigEndianIsInjective

-----------------------------------------------------------------------------
(* Receipts.                                                               *)

LEMMA FieldFacts ==
  /\ Len(Fields) = 19
  /\ \A i \in 1..19 :
       /\ Fields[i].name \in Labels
       /\ Fields[i].kind \in {"text", "number", "fingerprint"}
       /\ Fields[i].kind = "fingerprint" => PresentField < i
       /\ Fields[i].kind # "fingerprint" => i # NewLineField
<1>1. Len(Fields) = 19
  BY DEF Fields
<1>2. \A i \in 1..19 : Fields[i].name \in Labels
  BY <1>1 DEF Labels
<1>3. \A i \in 1..19 :
        /\ Fields[i].kind \in {"text", "number", "fingerprint"}
        /\ Fields[i].kind = "fingerprint" => PresentField < i
        /\ Fields[i].kind # "fingerprint" => i # NewLineField
  BY DEF Fields, Text, Number, Part, PresentField, NewLineField
<1> QED BY <1>1, <1>2, <1>3

LEMMA NineteenFields == Len(Fields) = 19
  BY FieldFacts

\* It is known before field i whether there is a fingerprint.
Known(r, s, i) == Fields[i].kind = "fingerprint" => r[PresentField] = s[PresentField]

\* Field i and what follows it can be read back.
ReadsBack(r, s, i, x, y) ==
  Front(FieldBytes(r, i), x) = Front(FieldBytes(s, i), y) => Hashed(r, i) = Hashed(s, i) /\ x = y

LEMMA HashedIsWord ==
  ASSUME NEW r, NEW i, r[i] \in Words
  PROVE  Hashed(r, i) \in Words
<1>1. Weight[WordBytes] \in Nat
  BY ByteAssumption, WeightAssumption
<1> QED BY <1>1 DEF Words, Hashed

\* What one field adds, when it is known whether there is a fingerprint.
LEMMA FieldDecodes ==
  ASSUME NEW r \in Receipts, NEW s \in Receipts, NEW i \in 1..19,
         NEW x \in Seq(Byte), NEW y \in Seq(Byte),
         Known(r, s, i)
  PROVE  FieldBytes(r, i) \in Seq(Byte) /\ ReadsBack(r, s, i, x, y)
<1> DEFINE name == Fields[i].name
<1>1. name \in Labels /\ Fields[i].kind \in {"text", "number", "fingerprint"}
  BY FieldFacts
<1>2. CASE Fields[i].kind = "text"
  <2>1. Hashed(r, i) \in Seq(Char) /\ Hashed(s, i) \in Seq(Char)
    BY <1>2, FieldFacts, ReceiptsAssumption DEF IsReceipt, Hashed
  <2>2. FieldBytes(r, i) = digest_text(name, Hashed(r, i)) /\ FieldBytes(s, i) = digest_text(name, Hashed(s, i))
    BY <1>2 DEF FieldBytes
  <2> DEFINE u == Hashed(r, i)
             v == Hashed(s, i)
  <2> HIDE DEF name, u, v
  <2>3. digest_text(name, u) \in Seq(Byte)
    BY <1>1, <2>1, DigestTextType DEF u
  <2>4. ASSUME Front(digest_text(name, u), x) = Front(digest_text(name, v), y)
        PROVE  u = v /\ x = y
    <3>1. u \in Seq(Char) /\ v \in Seq(Char)
      BY <2>1 DEF u, v
    <3> QED BY <1>1, <2>4, <3>1, DigestTextDecodes
  <2>5. Front(FieldBytes(r, i), x) = Front(FieldBytes(s, i), y) => u = v /\ x = y
    BY <2>2, <2>4 DEF u, v
  <2> QED BY <2>2, <2>3, <2>5 DEF u, v, ReadsBack
<1>3. CASE Fields[i].kind = "number"
  <2>1. Hashed(r, i) \in Words /\ Hashed(s, i) \in Words
    BY <1>3, FieldFacts, ReceiptsAssumption DEF IsReceipt, Hashed
  <2>2. FieldBytes(r, i) = digest_u64(name, Hashed(r, i)) /\ FieldBytes(s, i) = digest_u64(name, Hashed(s, i))
    BY <1>3 DEF FieldBytes
  <2> DEFINE u == Hashed(r, i)
             v == Hashed(s, i)
  <2> HIDE DEF name, u, v
  <2>3. digest_u64(name, u) \in Seq(Byte)
    BY <1>1, <2>1, DigestNumberType DEF u
  <2>4. ASSUME Front(digest_u64(name, u), x) = Front(digest_u64(name, v), y)
        PROVE  u = v /\ x = y
    <3>1. u \in Words /\ v \in Words
      BY <2>1 DEF u, v
    <3> QED BY <1>1, <2>4, <3>1, DigestNumberDecodes
  <2>5. Front(FieldBytes(r, i), x) = Front(FieldBytes(s, i), y) => u = v /\ x = y
    BY <2>2, <2>4 DEF u, v
  <2> QED BY <2>2, <2>3, <2>5 DEF u, v, ReadsBack
<1>4. CASE Fields[i].kind = "fingerprint" /\ r[PresentField] = 0
  <2>1. Hashed(r, i) = 0 /\ Hashed(s, i) = 0
    BY <1>4, FieldFacts, ReceiptsAssumption DEF IsReceipt, Known, Hashed
  <2>2. FieldBytes(r, i) = <<>> /\ FieldBytes(s, i) = <<>>
    BY <1>4 DEF FieldBytes, Known
  <2>3. <<>> \in Seq(Byte) /\ <<>> \o x = x /\ <<>> \o y = y
    BY EmptySeq, ConcatEmptySeq
  <2> QED BY <2>1, <2>2, <2>3 DEF Front, ReadsBack
<1>5. CASE Fields[i].kind = "fingerprint" /\ r[PresentField] # 0
  <2>1. Hashed(r, i) \in Words /\ Hashed(s, i) \in Words
    <3>1. r[i] \in Words /\ s[i] \in Words
      BY <1>5, FieldFacts, ReceiptsAssumption DEF IsReceipt
    <3> QED BY <3>1, HashedIsWord
  <2>2. FieldBytes(r, i) = digest_u64(name, Hashed(r, i)) /\ FieldBytes(s, i) = digest_u64(name, Hashed(s, i))
    BY <1>5 DEF FieldBytes, Known
  <2> DEFINE u == Hashed(r, i)
             v == Hashed(s, i)
  <2> HIDE DEF name, u, v
  <2>3. digest_u64(name, u) \in Seq(Byte)
    BY <1>1, <2>1, DigestNumberType DEF u
  <2>4. ASSUME Front(digest_u64(name, u), x) = Front(digest_u64(name, v), y)
        PROVE  u = v /\ x = y
    <3>1. u \in Words /\ v \in Words
      BY <2>1 DEF u, v
    <3> QED BY <1>1, <2>4, <3>1, DigestNumberDecodes
  <2>5. Front(FieldBytes(r, i), x) = Front(FieldBytes(s, i), y) => u = v /\ x = y
    BY <2>2, <2>4 DEF u, v
  <2> QED BY <2>2, <2>3, <2>5 DEF u, v, ReadsBack
<1> QED BY <1>1, <1>2, <1>3, <1>4, <1>5

\* Whatever follows, the bytes so far give back every field hashed so far.
Agree == \A i \in 1..(next - 1) : Hashed(left, i) = Hashed(right, i)

Decodes ==
  \A x \in Seq(Byte), y \in Seq(Byte) :
    left_bytes \o x = right_bytes \o y => x = y /\ Agree

BytesInv == TypeOK /\ Decodes

LEMMA BytesInit == Init => BytesInv
<1>1. SUFFICES ASSUME Init PROVE BytesInv
  OBVIOUS
<1>2. "schema" \in Labels /\ SchemaName \in Labels
  BY DEF Labels
<1>3. left_bytes \in Seq(Byte) /\ right_bytes = left_bytes
  BY <1>1, <1>2, Types, DigestTextType DEF Init
<1>4. ASSUME NEW x \in Seq(Byte), NEW y \in Seq(Byte), left_bytes \o x = right_bytes \o y
      PROVE  x = y
  BY <1>3, <1>4, FrontDecodes
<1>5. next = 1 /\ left \in Receipts /\ right \in Receipts
  BY <1>1 DEF Init
<1>6. Agree
  BY <1>5 DEF Agree
<1>7. TypeOK
  BY <1>3, <1>5, NineteenFields DEF TypeOK
<1>8. Decodes
  BY <1>4, <1>6 DEF Decodes
<1> QED BY <1>7, <1>8 DEF BytesInv

LEMMA BytesStep == BytesInv /\ [HashField]_vars => BytesInv'
<1>1. SUFFICES ASSUME BytesInv, [HashField]_vars PROVE BytesInv'
  OBVIOUS
<1>2. CASE UNCHANGED vars
  BY <1>1, <1>2 DEF vars, BytesInv, TypeOK, Decodes, Agree
<1>3. CASE HashField
  <2> DEFINE d == FieldBytes(left, next)
             e == FieldBytes(right, next)
  <2>1. /\ next \in 1..19 /\ next' = next + 1 /\ left' = left /\ right' = right
        /\ left_bytes' = left_bytes \o d /\ right_bytes' = right_bytes \o e
    BY <1>1, <1>3, FieldFacts DEF HashField, BytesInv, TypeOK
  <2>2. /\ left \in Receipts /\ right \in Receipts /\ IsReceipt(left) /\ IsReceipt(right)
        /\ left_bytes \in Seq(Byte) /\ right_bytes \in Seq(Byte)
    BY <1>1, ReceiptsAssumption DEF BytesInv, TypeOK
  <2>3. <<>> \in Seq(Byte)
    BY EmptySeq
  <2>4. d \in Seq(Byte) /\ e \in Seq(Byte)
    <3>1. Known(left, left, next) /\ Known(right, right, next)
      BY DEF Known
    <3> QED BY <2>1, <2>2, <2>3, <3>1, FieldDecodes
  <2>5. left_bytes' \in Seq(Byte) /\ right_bytes' \in Seq(Byte)
    <3> HIDE DEF d, e
    <3> QED BY <2>1, <2>2, <2>4, ConcatProperties
  <2>6. TypeOK'
    BY <2>1, <2>2, <2>5, FieldFacts DEF TypeOK
  <2>7. ASSUME NEW x \in Seq(Byte), NEW y \in Seq(Byte), left_bytes' \o x = right_bytes' \o y
        PROVE  x = y /\ Agree'
    <3> HIDE DEF d, e
    <3>1. d \o x \in Seq(Byte) /\ e \o y \in Seq(Byte)
      BY <2>4, ConcatProperties
    <3>2. (left_bytes \o d) \o x = left_bytes \o (d \o x)
      <4>1. left_bytes \in Seq(Byte) /\ d \in Seq(Byte) /\ x \in Seq(Byte)
        BY <2>2, <2>4
      <4> QED BY <4>1, Associative, Zenon
    <3>3. (right_bytes \o e) \o y = right_bytes \o (e \o y)
      <4>1. right_bytes \in Seq(Byte) /\ e \in Seq(Byte) /\ y \in Seq(Byte)
        BY <2>2, <2>4
      <4> QED BY <4>1, Associative, Zenon
    <3>4. left_bytes \o (d \o x) = right_bytes \o (e \o y)
      BY <2>1, <2>7, <3>2, <3>3
    <3>5. d \o x = e \o y /\ Agree
      BY <1>1, <3>1, <3>4 DEF BytesInv, Decodes
    <3>6. Known(left, right, next)
      <4>1. \A j \in 1..(next - 1) : Hashed(left, j) = Hashed(right, j)
        BY <3>5 DEF Agree
      <4>2. Fields[next].kind = "fingerprint" => PresentField \in 1..(next - 1)
        <5>1. Fields[next].kind = "fingerprint" => PresentField < next
          BY <2>1, FieldFacts
        <5> QED BY <2>1, <5>1 DEF PresentField
      <4>3. Hashed(left, PresentField) = left[PresentField] /\ Hashed(right, PresentField) = right[PresentField]
        BY DEF Hashed, PresentField, NewLineField
      <4> QED BY <4>1, <4>2, <4>3 DEF Known
    <3>7. Hashed(left, next) = Hashed(right, next) /\ x = y
      <4>1. Front(FieldBytes(left, next), x) = Front(FieldBytes(right, next), y)
        BY <3>5 DEF d, e, Front
      <4>2. next \in 1..19 /\ left \in Receipts /\ right \in Receipts
        BY <2>1, <2>2
      <4>4. x \in Seq(Byte) /\ y \in Seq(Byte)
        BY <2>7
      <4>3. ReadsBack(left, right, next, x, y)
        BY <3>6, <4>2, <4>4, FieldDecodes
      <4> QED BY <4>1, <4>3 DEF ReadsBack
    <3>8. \A j \in 1..(next + 1 - 1) : Hashed(left, j) = Hashed(right, j)
      BY <2>1, <3>5, <3>7 DEF Agree
    <3>9. Agree'
      <4>1. left' = left /\ right' = right /\ next' = next + 1 /\ next \in Nat /\ next' \in Nat
        BY <2>1
      <4>2. \A j \in 1..(next' - 1) : Hashed(left', j) = Hashed(right', j)
        BY <3>8, <4>1
      <4> QED BY <4>2 DEF Agree
    <3> QED BY <3>7, <3>9
  <2>8. Decodes'
    BY <2>7 DEF Decodes
  <2> QED BY <2>6, <2>8 DEF BytesInv
<1> QED BY <1>1, <1>2, <1>3

LEMMA BytesInvariant == Spec => []BytesInv
  BY BytesInit, BytesStep, PTL DEF Spec

\* What is hashed is a sequence of bytes, for every receipt.
THEOREM BytesAreBytes == Spec => []TypeOK
<1>1. BytesInv => TypeOK
  BY DEF BytesInv
<1> QED BY <1>1, BytesInvariant, PTL

\* Two receipts that differ, in a field or in their fingerprints, are never hashed
\* from the same bytes, whatever their texts hold and however long they are; a
\* fingerprint's final_newline counts as the truth value p101_tool_run_receipt_digest
\* takes it for.
THEOREM DifferentBytes == Spec => []DigestBinds
<1>1. BytesInv => DigestBinds
  <2>1. SUFFICES ASSUME BytesInv, next > Len(Fields), left_bytes = right_bytes
                 PROVE  \A i \in 1..19 : Hashed(left, i) = Hashed(right, i)
    BY NineteenFields DEF DigestBinds
  <2>2. next = 20
    <3>1. next \in 1..(Len(Fields) + 1) /\ next > Len(Fields)
      BY <2>1 DEF BytesInv, TypeOK
    <3> QED BY <3>1, NineteenFields
  <2>3. Agree
    <3>1. <<>> \in Seq(Byte) /\ left_bytes \o <<>> = right_bytes \o <<>>
      BY <2>1, EmptySeq
    <3> QED BY <2>1, <3>1 DEF BytesInv, Decodes
  <2> QED BY <2>2, <2>3 DEF Agree
<1> QED BY <1>1, BytesInvariant, PTL
=============================================================================
