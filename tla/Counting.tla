------------------------------ MODULE Counting ------------------------------
(***************************************************************************)
(* What the proofs need of numbers and sequences: that a function may be   *)
(* defined by recursion on the numbers, that sequences are sequences at    *)
(* all, what stands where, and how many of their elements belong to a set, *)
(* as the newlines of a chunk or the findings of a stream do.              *)
(***************************************************************************)
EXTENDS Integers, Sequences, FiniteSets, FiniteSetTheorems, SequenceTheorems,
        WellFoundedInduction, TLAPS

\* A set of numbers that is not empty has a least one.
LEMMA LeastNatural ==
  ASSUME NEW T, T \subseteq Nat, T # {}
  PROVE  \E x \in T : \A y \in T : x <= y
<1> DEFINE R == OpToRel(<, Nat)
<1>1. IsWellFoundedOn(R, Nat)
  BY NatLessThanWellFounded
<1>2. \A p \in Nat, q \in Nat : p < q => <<p, q>> \in R
  BY DEF OpToRel
<1> HIDE DEF R
<1>3. PICK x \in T : \A y \in T : ~ (<<y, x>> \in R)
  BY <1>1, WFMin
<1>4. \A y \in T : x <= y
  <2>1. ASSUME NEW y \in T PROVE ~ (y < x)
    BY <1>2, <1>3
  <2> QED BY <2>1
<1> QED BY <1>4

\* A set that holds 0, and with each number the next one, holds them all.
LEMMA NumbersOneByOne ==
  ASSUME NEW S, 0 \in S, \A n \in Nat : n \in S => n + 1 \in S
  PROVE  \A n \in Nat : n \in S
<1> DEFINE T == Nat \ S
<1>1. SUFFICES ASSUME T # {} PROVE FALSE
  OBVIOUS
<1>2. PICK x \in T : \A y \in T : x <= y
  BY <1>1, LeastNatural
<1>3. x # 0 /\ x \in Nat
  OBVIOUS
<1>4. x - 1 \in Nat /\ x - 1 \notin T
  BY <1>2, <1>3
<1> QED BY <1>2, <1>3, <1>4

\* The function that is a at 0, and at each number what t makes of its value before.
Recurs(S, a, t, f) ==
  f \in [Nat -> S] /\ f[0] = a /\ \A k \in Nat : f[k + 1] = t[<<k, f[k]>>]

\* There is one, for every a and t: a function may be defined by recursion.
LEMMA RecursionExists ==
  ASSUME NEW S, NEW a \in S, NEW t \in [Nat \X S -> S]
  PROVE  \E f : Recurs(S, a, t, f)
<1> DEFINE UpTo(n, f) == /\ f \in [0..n -> S] /\ f[0] = a
                         /\ \A k \in Nat : k < n => f[k + 1] = t[<<k, f[k]>>]
           T == {n \in Nat : \E f : UpTo(n, f)}
<1>1. 0 \in T
  <2>1. UpTo(0, [i \in 0..0 |-> a])
    OBVIOUS
  <2> HIDE DEF UpTo
  <2> QED BY <2>1
<1>2. ASSUME NEW n \in Nat, n \in T PROVE n + 1 \in T
  <2>1. PICK f : UpTo(n, f)
    BY <1>2
  <2> DEFINE last == t[<<n, f[n]>>]
             g == [i \in 0..(n + 1) |-> IF i = n + 1 THEN last ELSE f[i]]
  <2>2. last \in S
    <3>1. n \in 0..n /\ f[n] \in S
      BY <2>1
    <3> QED BY <3>1
  <2>3. g \in [0..(n + 1) -> S] /\ g[0] = a
    <3>1. \A i \in 0..(n + 1) : i = n + 1 \/ i \in 0..n
      OBVIOUS
    <3> HIDE DEF last
    <3> QED BY <2>1, <2>2, <3>1
  <2>4. ASSUME NEW k \in Nat, k < n + 1 PROVE g[k + 1] = t[<<k, g[k]>>]
    <3>1. k \in 0..(n + 1) /\ k # n + 1 /\ g[k] = f[k] /\ k + 1 \in 0..(n + 1)
      BY <2>4
    <3>2. CASE k = n
      BY <3>1, <3>2
    <3>3. CASE k # n
      <4>1. k < n /\ g[k + 1] = f[k + 1]
        BY <2>4, <3>1, <3>3
      <4> QED BY <2>1, <3>1, <4>1
    <3> QED BY <3>2, <3>3
  <2>5. UpTo(n + 1, g)
    <3> HIDE DEF g
    <3> QED BY <2>3, <2>4
  <2> HIDE DEF UpTo
  <2> QED BY <2>5
<1>3. \A n \in Nat : n \in T
  <2> HIDE DEF T
  <2> QED BY <1>1, <1>2, NumbersOneByOne
<1> DEFINE h == [n \in Nat |-> CHOOSE f : UpTo(n, f)]
<1>4. \A n \in Nat : UpTo(n, h[n])
  <2> HIDE DEF UpTo
  <2> QED BY <1>3
<1> HIDE DEF h, T
<1>5. ASSUME NEW m \in Nat PROVE \A k \in Nat : k <= m => h[m][k] = h[m + 1][k]
  <2> DEFINE E == {k \in Nat : k <= m => h[m][k] = h[m + 1][k]}
  <2>1. 0 \in E
    BY <1>4
  <2>2. ASSUME NEW k \in Nat, k \in E PROVE k + 1 \in E
    <3>1. k + 1 <= m => h[m][k + 1] = t[<<k, h[m][k]>>] /\ h[m + 1][k + 1] = t[<<k, h[m + 1][k]>>]
      BY <1>4
    <3> QED BY <2>2, <3>1
  <2> HIDE DEF E
  <2>3. \A k \in Nat : k \in E
    BY <2>1, <2>2, NumbersOneByOne
  <2> QED BY <2>3 DEF E
<1> DEFINE f == [n \in Nat |-> h[n][n]]
<1>6. \A n \in Nat : h[n][n] \in S
  BY <1>4
<1>7. f \in [Nat -> S] /\ f[0] = a
  BY <1>4, <1>6
<1>8. ASSUME NEW k \in Nat PROVE f[k + 1] = t[<<k, f[k]>>]
  <2>1. h[k + 1][k + 1] = t[<<k, h[k + 1][k]>>]
    BY <1>4
  <2>2. h[k + 1][k] = h[k][k]
    BY <1>5
  <2> QED BY <2>1, <2>2
<1> HIDE DEF f
<1> QED BY <1>7, <1>8 DEF Recurs

\* A sequence of anything.
IsSeq(s) == \E S : s \in Seq(S)

\* Two sequences make one.
LEMMA ConcatIsSeq ==
  ASSUME NEW s, NEW t, IsSeq(s), IsSeq(t)
  PROVE  IsSeq(s \o t) /\ Len(s \o t) = Len(s) + Len(t)
<1>1. PICK S : s \in Seq(S)  BY DEF IsSeq
<1>2. PICK T : t \in Seq(T)  BY DEF IsSeq
<1>3. s \in Seq(S \cup T) /\ t \in Seq(S \cup T)  BY <1>1, <1>2
<1>4. s \o t \in Seq(S \cup T)  BY <1>3
<1> QED  BY <1>3, <1>4 DEF IsSeq

\* A part of a sequence, from its start, is a sequence.
LEMMA PrefixIsSeq ==
  ASSUME NEW s, IsSeq(s), NEW n \in 0..Len(s)
  PROVE  IsSeq(SubSeq(s, 1, n)) /\ Len(SubSeq(s, 1, n)) = n
<1>1. PICK S : s \in Seq(S)  BY DEF IsSeq
<1>2. SubSeq(s, 1, n) \in Seq(S) /\ Len(SubSeq(s, 1, n)) = n  BY <1>1
<1> QED  BY <1>2 DEF IsSeq

\* So is what lies between two places of it.
LEMMA MiddleIsSeq ==
  ASSUME NEW s, IsSeq(s), NEW m \in Nat, NEW n \in m..Len(s)
  PROVE  IsSeq(SubSeq(s, m + 1, n)) /\ Len(SubSeq(s, m + 1, n)) = n - m
<1>1. PICK S : s \in Seq(S)  BY DEF IsSeq
<1>2. SubSeq(s, m + 1, n) \in Seq(S) /\ Len(SubSeq(s, m + 1, n)) = n - m  BY <1>1
<1> QED  BY <1>2 DEF IsSeq

LEMMA WholeIsPrefix ==
  ASSUME NEW s, IsSeq(s)
  PROVE  Len(s) \in Nat /\ SubSeq(s, 1, Len(s)) = s
<1>1. PICK S : s \in Seq(S)  BY DEF IsSeq
<1> QED  BY <1>1

LEMMA EmptyIsSeq == IsSeq(<<>>)
<1>1. <<>> \in Seq({})  OBVIOUS
<1> QED  BY <1>1 DEF IsSeq

\* A function on the numbers up to n is one.
LEMMA FunctionIsSeq ==
  ASSUME NEW S, NEW n \in Nat, NEW f \in [1..n -> S]
  PROVE  f \in Seq(S) /\ IsSeq(f) /\ Len(f) = n
<1>1. f \in Seq(S) /\ Len(f) = n  OBVIOUS
<1> QED  BY <1>1 DEF IsSeq

\* What stands where in two sequences put together.
LEMMA ConcatAt ==
  ASSUME NEW s, NEW t, IsSeq(s), IsSeq(t)
  PROVE  /\ IsSeq(s \o t) /\ Len(s) \in Nat /\ Len(t) \in Nat
         /\ Len(s \o t) = Len(s) + Len(t)
         /\ DOMAIN (s \o t) = 1..(Len(s) + Len(t))
         /\ \A i \in 1..Len(s) : (s \o t)[i] = s[i]
         /\ \A i \in 1..Len(t) : (s \o t)[Len(s) + i] = t[i]
         /\ \A i \in (Len(s) + 1)..(Len(s) + Len(t)) : (s \o t)[i] = t[i - Len(s)]
<1>1. PICK S : s \in Seq(S)  BY DEF IsSeq
<1>2. PICK T : t \in Seq(T)  BY DEF IsSeq
<1>3. s \in Seq(S \cup T) /\ t \in Seq(S \cup T)  BY <1>1, <1>2
<1>4. s \o t \in Seq(S \cup T) /\ IsSeq(s \o t)  BY <1>3 DEF IsSeq
<1> QED  BY <1>3, <1>4

\* Moving a set of numbers along the line does not change how many there are.
LEMMA Shifted ==
  ASSUME NEW S, NEW T, NEW k \in Int, IsFiniteSet(S), S \subseteq Int, T \subseteq Int,
         \A i \in S : i + k \in T, \A j \in T : j - k \in S
  PROVE  IsFiniteSet(T) /\ Cardinality(T) = Cardinality(S)
<1> DEFINE f == [i \in S |-> i + k]
<1>1. f \in [S -> T]
  OBVIOUS
<1>2. IsInjective(f)
  BY DEF IsInjective
<1>3. \A j \in T : \E i \in S : f[i] = j
  <2>1. ASSUME NEW j \in T PROVE \E i \in S : f[i] = j
    <3>1. j - k \in S /\ f[j - k] = j
      OBVIOUS
    <3> QED BY <3>1
  <2> QED BY <2>1
<1>4. f \in Bijection(S, T)
  BY <1>1, <1>2, <1>3 DEF Bijection, Injection, Surjection
<1>5. ExistsBijection(S, T)
  BY <1>4 DEF ExistsBijection
<1> QED BY <1>5, FS_Bijection

\* Where the elements of S are in s, between a and b.
At(s, S, a, b) == {i \in a..b : s[i] \in S}

HowMany(s, S) == Cardinality(At(s, S, 1, Len(s)))

LEMMA AtFinite ==
  ASSUME NEW s, NEW S, NEW a \in Int, NEW b \in Int
  PROVE  IsFiniteSet(At(s, S, a, b)) /\ Cardinality(At(s, S, a, b)) \in Nat
<1>1. IsFiniteSet(a..b)
  BY FS_Interval
<1>2. IsFiniteSet(At(s, S, a, b))
  BY <1>1, FS_Subset DEF At
<1> QED BY <1>2, FS_CardinalityType

LEMMA HowManyIsNat ==
  ASSUME NEW T, NEW S, NEW s \in Seq(T)
  PROVE  HowMany(s, S) \in Nat
  BY AtFinite, LenProperties DEF HowMany

\* Two sequences have the elements of one and those of the other.
LEMMA HowManyConcat ==
  ASSUME NEW T, NEW S, NEW s \in Seq(T), NEW t \in Seq(T)
  PROVE  HowMany(s \o t, S) = HowMany(s, S) + HowMany(t, S)
<1> DEFINE u == s \o t
           m == Len(s)
           n == Len(t)
<1>1. /\ u \in Seq(T) /\ m \in Nat /\ n \in Nat /\ Len(u) = m + n
      /\ \A i \in 1..(m + n) : u[i] = IF i <= m THEN s[i] ELSE t[i - m]
  BY ConcatProperties, LenProperties
<1> HIDE DEF u, m, n
<1>2. At(u, S, 1, m + n) = At(s, S, 1, m) \cup At(u, S, m + 1, m + n)
  BY <1>1 DEF At
<1>3. At(s, S, 1, m) \cap At(u, S, m + 1, m + n) = {}
  BY <1>1 DEF At
<1>4. Cardinality(At(u, S, m + 1, m + n)) = Cardinality(At(t, S, 1, n))
  <2>1. \A i \in At(t, S, 1, n) : i + m \in At(u, S, m + 1, m + n)
    BY <1>1 DEF At
  <2>2. \A j \in At(u, S, m + 1, m + n) : j - m \in At(t, S, 1, n)
    BY <1>1 DEF At
  <2>3. At(t, S, 1, n) \subseteq Int /\ At(u, S, m + 1, m + n) \subseteq Int
    BY DEF At
  <2>4. IsFiniteSet(At(t, S, 1, n))
    BY <1>1, AtFinite
  <2>5. m \in Int
    BY <1>1
  <2> QED BY <2>1, <2>2, <2>3, <2>4, <2>5, Shifted, Zenon
<1>5. /\ IsFiniteSet(At(s, S, 1, m)) /\ IsFiniteSet(At(u, S, m + 1, m + n))
      /\ Cardinality(At(s, S, 1, m)) \in Nat
      /\ Cardinality(At(u, S, m + 1, m + n)) \in Nat
  BY <1>1, AtFinite
<1>6. Cardinality(At(u, S, 1, m + n)) =
        Cardinality(At(s, S, 1, m)) + Cardinality(At(u, S, m + 1, m + n)) - Cardinality({})
  BY <1>2, <1>3, <1>5, FS_Union
<1>7. Cardinality(At(u, S, 1, m + n)) = Cardinality(At(s, S, 1, m)) + Cardinality(At(t, S, 1, n))
  BY <1>4, <1>5, <1>6, FS_EmptySet
<1>8. HowMany(u, S) = Cardinality(At(u, S, 1, m + n))
  BY <1>1 DEF HowMany
<1>9. /\ HowMany(s, S) = Cardinality(At(s, S, 1, m))
      /\ HowMany(t, S) = Cardinality(At(t, S, 1, n))
  BY DEF m, n, HowMany
<1> QED BY <1>7, <1>8, <1>9 DEF u

LEMMA HowManyFew ==
  ASSUME NEW S
  PROVE  /\ HowMany(<<>>, S) = 0
         /\ \A e : HowMany(<<e>>, S) = IF e \in S THEN 1 ELSE 0
<1>1. HowMany(<<>>, S) = 0
  <2>1. At(<<>>, S, 1, Len(<<>>)) = {}
    BY EmptySeq DEF At
  <2> QED BY <2>1, FS_EmptySet DEF HowMany
<1>2. ASSUME NEW e PROVE HowMany(<<e>>, S) = IF e \in S THEN 1 ELSE 0
  <2>1. At(<<e>>, S, 1, Len(<<e>>)) = IF e \in S THEN {1} ELSE {}
    BY DEF At
  <2> QED BY <2>1, FS_EmptySet, FS_Singleton DEF HowMany
<1> QED BY <1>1, <1>2
=============================================================================
