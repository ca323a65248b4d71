-------------------------- MODULE FingerprintProofs --------------------------
(***************************************************************************)
(* That a fingerprint describes the bytes that were read and is refused    *)
(* only to bytes over a limit, for every file, every way of cutting it     *)
(* into chunks and all limits.  The numbers the call keeps are counts of   *)
(* newlines; those of the promise are counts of lines, so the counting     *)
(* lemmas come first.                                                      *)
(***************************************************************************)
EXTENDS Fingerprint, Counting, FiniteSetTheorems, SequenceTheorems, TLAPS

-----------------------------------------------------------------------------
(* Counting.                                                               *)

LEMMA NewlinesAt ==
  ASSUME NEW s \in Seq(Byte)
  PROVE  /\ Newlines(s) = HowMany(s, {Newline})
         /\ Newlines(s) = Cardinality(At(s, {Newline}, 1, Len(s)))
         /\ Newlines(s) \in Nat
<1>1. Newlines(s) = HowMany(s, {Newline})
  BY DEF Newlines, HowMany, At
<1> QED BY <1>1, HowManyIsNat DEF HowMany

\* The newlines of two sequences are those of one and those of the other.
LEMMA NewlinesConcat ==
  ASSUME NEW s \in Seq(Byte), NEW t \in Seq(Byte)
  PROVE  Newlines(s \o t) = Newlines(s) + Newlines(t)
<1>1. s \o t \in Seq(Byte)
  BY ConcatProperties
<1>2. HowMany(s \o t, {Newline}) = HowMany(s, {Newline}) + HowMany(t, {Newline})
  BY HowManyConcat
<1>3. Newlines(s \o t) = HowMany(s \o t, {Newline})
  BY <1>1, NewlinesAt
<1> QED BY <1>2, <1>3, NewlinesAt

LEMMA NewlinesFew ==
  /\ Newlines(<<>>) = 0
  /\ \A b \in Byte : Newlines(<<b>>) \in {0, 1}
<1>1. Newlines(<<>>) = 0
  BY EmptySeq, NewlinesAt, HowManyFew
<1>2. ASSUME NEW b \in Byte PROVE Newlines(<<b>>) \in {0, 1}
  <2>1. <<b>> \in Seq(Byte)
    OBVIOUS
  <2> QED BY <2>1, NewlinesAt, HowManyFew
<1> QED BY <1>1, <1>2

\* The lines of s: as many as newlines, and one more if the last one has none.
LEMMA LinesCount ==
  ASSUME NEW s \in Seq(Byte)
  PROVE  Promise!Lines(s) = Newlines(s) + (IF s # <<>> /\ ~EndsLine(s) THEN 1 ELSE 0)
<1> DEFINE L == {i \in 1..Len(s) : i = 1 \/ s[i - 1] = Newline}
           n == Len(s)
           B == {i \in 2..n : s[i - 1] = Newline}
           A == At(s, {Newline}, 1, n - 1)
<1>1. n \in Nat
  BY LenProperties
<1>4. Promise!Lines(s) = Cardinality(L)
  BY Zenon DEF Promise!Lines, Promise!Cardinality, Cardinality
<1>2. CASE s = <<>>
  <2>1. L = {} /\ Newlines(s) = 0
    BY <1>2, NewlinesFew, EmptySeq
  <2> QED BY <1>2, <1>4, <2>1, FS_EmptySet
<1>3. CASE s # <<>>
  <2>1. n \in Nat \ {0}
    BY <1>3, EmptySeq
  <2>2. L = B \cup {1} /\ 1 \notin B
    BY <2>1
  <2>3. At(s, {Newline}, 1, n) = IF s[n] = Newline THEN A \cup {n} ELSE A
    BY <2>1 DEF At
  <2>4. n \notin A
    BY <2>1 DEF At
  <2>5. IsFiniteSet(A) /\ Cardinality(A) \in Nat
    BY <2>1, AtFinite
  <2>6. IsFiniteSet(B) /\ Cardinality(B) = Cardinality(A)
    <3>1. \A i \in A : i + 1 \in B
      BY <2>1 DEF At
    <3>2. \A j \in B : j - 1 \in A
      BY <2>1 DEF At
    <3>3. A \subseteq Int /\ B \subseteq Int
      BY DEF At
    <3>4. 1 \in Int
      OBVIOUS
    <3> HIDE DEF A, B
    <3> QED BY <2>5, <3>1, <3>2, <3>3, <3>4, Shifted, Zenon
  <2> HIDE DEF A, B, L, n
  <2>7. Cardinality(L) = Cardinality(A) + 1
    BY <2>2, <2>6, FS_AddElement
  <2>8. Cardinality(At(s, {Newline}, 1, n)) = Cardinality(A) + (IF s[n] = Newline THEN 1 ELSE 0)
    <3>1. Cardinality(A \cup {n}) = Cardinality(A) + 1
      BY <2>4, <2>5, FS_AddElement
    <3> QED BY <2>3, <2>5, <3>1
  <2>9. Newlines(s) = Cardinality(At(s, {Newline}, 1, n))
    BY NewlinesAt DEF n
  <2>10. EndsLine(s) <=> s[n] = Newline
    BY <1>3 DEF EndsLine, n
  <2> QED BY <1>3, <1>4, <2>5, <2>7, <2>8, <2>9, <2>10
<1> QED BY <1>2, <1>3

-----------------------------------------------------------------------------
(* Chunks.                                                                 *)

LEMMA Prefixes ==
  ASSUME NEW s \in Seq(Byte), NEW i \in 0..Len(s)
  PROVE  /\ SubSeq(s, 1, i) \in Seq(Byte)
         /\ Newlines(SubSeq(s, 1, i)) \in Nat
         /\ Newlines(SubSeq(s, 1, i)) <= Newlines(s)
         /\ i > 0 => Newlines(SubSeq(s, 1, i)) <= Newlines(SubSeq(s, 1, i - 1)) + 1
<1>1. /\ Len(s) \in Nat /\ i \in Int /\ i + 1 \in Int
      /\ \A j \in 1..Len(s) : s[j] \in Byte
  BY LenProperties, ElementOfSeq
<1>2. SubSeq(s, 1, i) \in Seq(Byte) /\ SubSeq(s, i + 1, Len(s)) \in Seq(Byte)
  BY <1>1, SubSeqProperties
<1>3. SubSeq(s, 1, i) \o SubSeq(s, i + 1, Len(s)) = s
  <2>1. 1 \in 1..(Len(s) + 1) /\ i \in (1 - 1)..Len(s) /\ Len(s) \in i..Len(s)
    BY <1>1
  <2>2. SubSeq(s, 1, i) \o SubSeq(s, i + 1, Len(s)) = SubSeq(s, 1, Len(s))
    BY <2>1, ConcatAdjacentSubSeq
  <2> QED BY <2>2, SubSeqFull
<1>4. Newlines(s) = Newlines(SubSeq(s, 1, i)) + Newlines(SubSeq(s, i + 1, Len(s)))
  BY <1>2, <1>3, NewlinesConcat
<1>5. Newlines(SubSeq(s, 1, i)) \in Nat /\ Newlines(SubSeq(s, i + 1, Len(s))) \in Nat
  BY <1>2, NewlinesAt
<1>6. ASSUME i > 0
      PROVE  Newlines(SubSeq(s, 1, i)) <= Newlines(SubSeq(s, 1, i - 1)) + 1
  <2>1. 1 \in 1..Len(s) /\ i \in 1..Len(s)
    BY <1>1, <1>6
  <2>2. SubSeq(s, 1, i) = SubSeq(s, 1, i - 1) \o <<s[i]>>
    BY <2>1, SubSeqRecursiveSecond
  <2>3. SubSeq(s, 1, i - 1) \in Seq(Byte)
    BY <1>1, <1>6, SubSeqProperties
  <2>4. s[i] \in Byte /\ <<s[i]>> \in Seq(Byte)
    BY <1>1, <2>1
  <2>5. Newlines(SubSeq(s, 1, i)) = Newlines(SubSeq(s, 1, i - 1)) + Newlines(<<s[i]>>)
    BY <2>2, <2>3, <2>4, NewlinesConcat
  <2>6. Newlines(SubSeq(s, 1, i - 1)) \in Nat /\ Newlines(<<s[i]>>) \in {0, 1}
    BY <2>3, <2>4, NewlinesAt, NewlinesFew
  <2> QED BY <2>5, <2>6
<1> QED BY <1>2, <1>4, <1>5, <1>6

\* What the loop hashes of a chunk: all of it, or what reaches the first newline that
\* passes maximum_records.
LEMMA TakenFacts ==
  ASSUME NEW chunk \in Seq(Byte), newline_count \in 0..MaxRecords
  PROVE  LET taken == SubSeq(chunk, 1, Taken(chunk))
             count == newline_count + Newlines(taken)
         IN  /\ taken \in Seq(Byte)
             /\ count \in 0..(MaxRecords + 1)
             /\ count <= newline_count + Newlines(chunk)
             /\ count <= MaxRecords => taken = chunk
<1> DEFINE N(i) == newline_count + Newlines(SubSeq(chunk, 1, i))
           Over == {i \in 1..Len(chunk) : N(i) > MaxRecords}
           k == Taken(chunk)
<1>1. /\ MaxRecords \in Nat /\ newline_count \in Nat /\ newline_count <= MaxRecords
      /\ Len(chunk) \in Nat
  BY LimitsAssumption, LenProperties
<1>2. k = IF Over = {} THEN Len(chunk) ELSE CHOOSE i \in Over : \A j \in Over : i <= j
  BY DEF Taken
<1>3. CASE Over = {}
  <2>1. SubSeq(chunk, 1, k) = chunk
    BY <1>2, <1>3, SubSeqFull
  <2>2. newline_count + Newlines(chunk) <= MaxRecords
    <3>1. CASE Len(chunk) = 0
      <4>1. chunk = <<>>
        BY <3>1, EmptySeq
      <4> QED BY <1>1, <4>1, NewlinesFew
    <3>2. CASE Len(chunk) # 0
      <4>1. Len(chunk) \in 1..Len(chunk)
        BY <1>1, <3>2
      <4>2. ~ (N(Len(chunk)) > MaxRecords)
        BY <1>3, <4>1
      <4>3. N(Len(chunk)) = newline_count + Newlines(chunk)
        BY SubSeqFull
      <4>4. Newlines(chunk) \in Nat
        BY NewlinesAt
      <4> QED BY <1>1, <4>2, <4>3, <4>4
    <3> QED BY <3>1, <3>2
  <2>3. Newlines(chunk) \in Nat
    BY NewlinesAt
  <2> DEFINE taken == SubSeq(chunk, 1, Taken(chunk))
  <2>4. taken = chunk
    BY <2>1
  <2> HIDE DEF taken
  <2>5. /\ taken \in Seq(Byte)
        /\ newline_count + Newlines(taken) \in 0..(MaxRecords + 1)
        /\ newline_count + Newlines(taken) <= newline_count + Newlines(chunk)
    BY <1>1, <2>2, <2>3, <2>4
  <2> QED BY <2>4, <2>5 DEF taken
<1>4. CASE Over # {}
  <2>1. Over \subseteq Nat
    OBVIOUS
  <2>2. \E i \in Over : \A j \in Over : i <= j
    <3> HIDE DEF Over
    <3> QED BY <1>4, <2>1, LeastNatural
  <2>3. k \in Over /\ \A j \in Over : k <= j
    <3> HIDE DEF Over, k
    <3> QED BY <1>2, <1>4, <2>2
  <2>4. k \in 1..Len(chunk) /\ N(k) > MaxRecords
    BY <2>3
  <2>5. /\ SubSeq(chunk, 1, k) \in Seq(Byte)
        /\ Newlines(SubSeq(chunk, 1, k)) \in Nat
        /\ Newlines(SubSeq(chunk, 1, k)) <= Newlines(chunk)
        /\ Newlines(SubSeq(chunk, 1, k)) <= Newlines(SubSeq(chunk, 1, k - 1)) + 1
    BY <1>1, <2>4, Prefixes
  <2>6. k - 1 \in 0..Len(chunk) /\ Newlines(SubSeq(chunk, 1, k - 1)) \in Nat
    BY <1>1, <2>4, Prefixes
  <2>7. N(k - 1) <= MaxRecords
    <3>1. CASE k = 1
      <4>1. SubSeq(chunk, 1, k - 1) = <<>>
        BY <3>1, SubSeqEmpty
      <4>2. Newlines(SubSeq(chunk, 1, k - 1)) = 0
        BY <4>1, NewlinesFew, Zenon
      <4> QED BY <1>1, <4>2
    <3>2. CASE k # 1
      <4>1. k - 1 \in 1..Len(chunk) /\ k - 1 \notin Over
        BY <1>1, <2>3, <2>4, <3>2
      <4>2. ~ (N(k - 1) > MaxRecords)
        BY <4>1
      <4> QED BY <1>1, <2>6, <4>2
    <3> QED BY <3>1, <3>2
  <2> HIDE DEF k
  <2>8. N(k) \in 0..(MaxRecords + 1) /\ N(k) <= newline_count + Newlines(chunk)
    BY <1>1, <2>5, <2>6, <2>7, NewlinesAt
  <2>9. ~ (N(k) <= MaxRecords)
    BY <1>1, <2>4, <2>8
  <2> QED BY <2>5, <2>8, <2>9 DEF k
<1> QED BY <1>3, <1>4

-----------------------------------------------------------------------------
(* The invariant.                                                          *)

Counted(n) == [bytes |-> n, records |-> 0, fnv1a64 |-> <<>>, final_newline |-> FALSE]

\* What the locals say of the bytes read, while no error has been raised.
Sound ==
  /\ hash = consumed
  /\ fingerprint = Counted(Len(consumed)) /\ Len(consumed) <= MaxBytes
  /\ final_newline = EndsLine(consumed)

Called ==
  pc = "call" =>
    /\ result = 0 /\ error = Null /\ fingerprint = Null
    /\ hash = <<>> /\ consumed = <<>> /\ newline_count = 0 /\ final_newline = FALSE

Reading ==
  pc \in {"read", "tail"} =>
    /\ result = 0 /\ error = Null /\ Sound
    /\ newline_count = Newlines(consumed) /\ newline_count <= MaxRecords

Closing ==
  /\ pc = "close" =>
       /\ \E n \in 0..MaxBytes : fingerprint = Counted(n)
       /\ error # "check"
  /\ pc = "close" /\ result = 0 =>
       /\ Sound
       /\ newline_count = Promise!Lines(consumed) /\ newline_count <= MaxRecords

\* An error and a result of -1 come together.
Results == result \in {0, -1} /\ (result = 0 <=> error = Null)

Typed ==
  /\ file \in Seq(Byte)
  /\ pc \in {"call", "read", "tail", "close", "returned"}
  /\ hash \in Seq(Byte) /\ consumed \in Seq(Byte)
  /\ newline_count \in 0..(MaxRecords + 1)
  /\ final_newline \in BOOLEAN /\ atEnd \in BOOLEAN
  /\ error \in {Null, "check", "errno", "EFBIG"}

FingerprintInv ==
  /\ Typed /\ Called /\ Reading /\ Closing /\ Results
  /\ SuccessDescribes /\ RefusalIsDeserved /\ FailureIsBlank /\ ReadingIsBounded

LEMMA FingerprintInit == Init => FingerprintInv
<1>1. SUFFICES ASSUME Init PROVE FingerprintInv
  OBVIOUS
<1>2. file \in Seq(Byte)
  <2>1. PICK n \in 0..MaxLength : file \in [1..n -> Byte]
    BY <1>1 DEF Init, Contents
  <2> QED BY <2>1
<1>3. consumed = <<>> /\ hash = <<>> /\ <<>> \in Seq(Byte) /\ Len(consumed) = 0
  BY <1>1, EmptySeq DEF Init
<1>4. Typed
  <2>1. hash \in Seq(Byte) /\ consumed \in Seq(Byte)
    BY <1>3
  <2>2. /\ pc = "call" /\ newline_count = 0 /\ final_newline = FALSE /\ atEnd = FALSE
        /\ error = Null
    BY <1>1 DEF Init
  <2>3. newline_count \in 0..(MaxRecords + 1)
    BY <2>2, LimitsAssumption
  <2> QED BY <1>2, <2>1, <2>2, <2>3 DEF Typed
<1>5. Called /\ Reading /\ Closing /\ Results
  BY <1>1 DEF Init, Called, Reading, Closing, Results
<1>6. SuccessDescribes /\ RefusalIsDeserved /\ FailureIsBlank
  BY <1>1, NullAssumption DEF Init, SuccessDescribes, RefusalIsDeserved, FailureIsBlank
<1>7. ReadingIsBounded
  BY <1>3, LimitsAssumption DEF ReadingIsBounded
<1> QED BY <1>4, <1>5, <1>6, <1>7 DEF FingerprintInv

\* A step that reads nothing keeps what is said of the bytes read.
LEMMA OthersStep ==
  ASSUME FingerprintInv, Extend \/ Rewrite
  PROVE  FingerprintInv'
<1>1. /\ UNCHANGED <<pc, fingerprint, hash, newline_count, final_newline, result, error,
                      consumed, atEnd>>
      /\ file' \in Seq(Byte)
  <2>1. CASE Extend
    <3>1. PICK b \in Byte : file' = file \o <<b>>
      BY <2>1 DEF Extend
    <3>2. file \in Seq(Byte) /\ <<b>> \in Seq(Byte)
      BY DEF FingerprintInv, Typed
    <3>3. file' \in Seq(Byte)
      BY <3>1, <3>2, ConcatProperties
    <3> QED BY <2>1, <3>3 DEF Extend, locals
  <2>2. CASE Rewrite
    <3>1. PICK n \in 0..MaxLength : file' \in [1..n -> Byte]
      BY <2>2 DEF Rewrite, Contents
    <3> QED BY <2>2, <3>1 DEF Rewrite, locals
  <2> QED BY <2>1, <2>2
<1>2. Typed'
  BY <1>1 DEF FingerprintInv, Typed
<1>3. Called' /\ Reading' /\ Closing' /\ Results'
  BY <1>1 DEF FingerprintInv, Called, Reading, Sound, Closing, Results
<1>4. SuccessDescribes' /\ RefusalIsDeserved' /\ FailureIsBlank' /\ ReadingIsBounded'
  BY <1>1 DEF FingerprintInv, SuccessDescribes, RefusalIsDeserved, FailureIsBlank,
              ReadingIsBounded
<1> QED BY <1>2, <1>3, <1>4 DEF FingerprintInv

LEMMA BadArgumentsStep == FingerprintInv /\ BadArguments => FingerprintInv'
<1>1. SUFFICES ASSUME FingerprintInv, BadArguments PROVE FingerprintInv'
  OBVIOUS
<1>2. /\ pc = "call" /\ pc' = "returned" /\ result' = -1 /\ error' = "check"
      /\ UNCHANGED <<file, fingerprint, hash, newline_count, final_newline, consumed, atEnd>>
  BY <1>1 DEF BadArguments, Raise, locals
<1>3. Typed'
  BY <1>1, <1>2 DEF FingerprintInv, Typed
<1>4. Called' /\ Reading' /\ Closing' /\ Results'
  BY <1>2, NullAssumption DEF Called, Reading, Closing, Results
<1>5. SuccessDescribes' /\ RefusalIsDeserved'
  BY <1>2 DEF SuccessDescribes, RefusalIsDeserved
<1>6. FailureIsBlank' /\ ReadingIsBounded'
  BY <1>1, <1>2 DEF FingerprintInv, Called, FailureIsBlank, ReadingIsBounded
<1> QED BY <1>3, <1>4, <1>5, <1>6 DEF FingerprintInv

LEMMA OpenStep == FingerprintInv /\ (Open \/ OpenFails) => FingerprintInv'
<1>1. SUFFICES ASSUME FingerprintInv, Open \/ OpenFails PROVE FingerprintInv'
  OBVIOUS
<1>2. /\ pc = "call" /\ fingerprint' = Counted(0)
      /\ UNCHANGED <<file, hash, newline_count, final_newline, consumed, atEnd>>
  BY <1>1 DEF Open, OpenFails, Raise, locals, Zero, Counted
<1>3. \/ pc' = "read" /\ UNCHANGED <<result, error>>
      \/ pc' = "returned" /\ result' = -1 /\ error' = "errno"
  BY <1>1 DEF Open, OpenFails, Raise
<1>4. /\ result = 0 /\ error = Null /\ hash = <<>> /\ consumed = <<>>
      /\ newline_count = 0 /\ final_newline = FALSE
  BY <1>1, <1>2 DEF FingerprintInv, Called
<1>5. /\ Len(consumed') = 0 /\ ~EndsLine(consumed')
      /\ Newlines(consumed') = 0
  <2>1. consumed' = <<>>
    BY <1>2, <1>4
  <2> QED BY <2>1, EmptySeq, NewlinesFew DEF EndsLine
<1>6. Typed'
  BY <1>1, <1>2, <1>3 DEF FingerprintInv, Typed
<1>7. Called' /\ Closing' /\ Results'
  BY <1>2, <1>3, <1>4, NullAssumption DEF Called, Closing, Results
<1>8. Reading'
  <2>1. Sound'
    <3>1. hash' = consumed' /\ fingerprint' = Counted(Len(consumed')) /\ Len(consumed') <= MaxBytes
      BY <1>2, <1>4, <1>5, LimitsAssumption
    <3>2. final_newline' = EndsLine(consumed')
      BY <1>2, <1>4, <1>5 DEF EndsLine
    <3> QED BY <3>1, <3>2 DEF Sound
  <2>2. newline_count' = Newlines(consumed') /\ newline_count' <= MaxRecords
    BY <1>2, <1>4, <1>5, LimitsAssumption
  <2>3. pc' = "read" => result' = 0 /\ error' = Null
    BY <1>3, <1>4
  <2> QED BY <1>3, <2>1, <2>2, <2>3 DEF Reading
<1>9. SuccessDescribes' /\ RefusalIsDeserved'
  BY <1>3, <1>4, NullAssumption DEF SuccessDescribes, RefusalIsDeserved
<1>10. FailureIsBlank' /\ ReadingIsBounded'
  BY <1>1, <1>2, <1>3, <1>4, NullAssumption
  DEF FingerprintInv, FailureIsBlank, ReadingIsBounded, Zero, Counted
<1> QED BY <1>6, <1>7, <1>8, <1>9, <1>10 DEF FingerprintInv

\* An error in the loop: what was hashed and counted no longer matters.
LEMMA GivesUp ==
  ASSUME FingerprintInv, pc \in {"read", "tail"}, pc' = "close", result' = -1,
         error' \in {"errno", "EFBIG"},
         hash' \in Seq(Byte), consumed' \in Seq(Byte),
         newline_count' \in 0..(MaxRecords + 1), final_newline' \in BOOLEAN,
         \E n \in 0..MaxBytes : fingerprint' = Counted(n),
         Len(consumed') <= MaxBytes + BufferSize,
         error' = "EFBIG" => ~Promise!Within(consumed'),
         UNCHANGED file, atEnd' \in BOOLEAN
  PROVE  FingerprintInv'
<1>1. Typed'
  BY DEF FingerprintInv, Typed
<1>2. Called' /\ Reading' /\ Closing' /\ Results'
  BY NullAssumption DEF Called, Reading, Closing, Results
<1>3. RefusalIsDeserved'
  BY DEF RefusalIsDeserved, Promise!Within
<1>4. SuccessDescribes' /\ FailureIsBlank' /\ ReadingIsBounded'
  BY DEF SuccessDescribes, FailureIsBlank, ReadingIsBounded
<1> QED BY <1>1, <1>2, <1>3, <1>4 DEF FingerprintInv

LEMMA Limits ==
  MaxBytes \in Nat \ {0} /\ MaxRecords \in Nat \ {0} /\ BufferSize \in Nat \ {0}
  BY LimitsAssumption

\* The facts of the loop.
LEMMA InLoop ==
  ASSUME FingerprintInv, pc \in {"read", "tail"}
  PROVE  /\ result = 0 /\ error = Null /\ hash = consumed /\ consumed \in Seq(Byte)
         /\ Len(consumed) \in 0..MaxBytes /\ fingerprint = Counted(Len(consumed))
         /\ final_newline = EndsLine(consumed) /\ final_newline \in BOOLEAN
         /\ newline_count = Newlines(consumed) /\ newline_count \in 0..MaxRecords
         /\ atEnd \in BOOLEAN
<1>1. /\ Reading /\ consumed \in Seq(Byte) /\ final_newline \in BOOLEAN /\ atEnd \in BOOLEAN
      /\ newline_count \in 0..(MaxRecords + 1)
  BY DEF FingerprintInv, Typed
<1>2. Len(consumed) \in Nat
  BY <1>1, LenProperties
<1> QED BY <1>1, <1>2, Limits DEF Reading, Sound

LEMMA ReadFailsStep == FingerprintInv /\ ReadFails => FingerprintInv'
<1>1. SUFFICES ASSUME FingerprintInv, ReadFails PROVE FingerprintInv'
  OBVIOUS
<1>2. /\ pc = "read" /\ pc' = "close" /\ result' = -1 /\ error' = "errno"
      /\ UNCHANGED <<file, fingerprint, hash, newline_count, final_newline, consumed, atEnd>>
  BY <1>1 DEF ReadFails, Raise, locals
<1>3. /\ hash = consumed /\ consumed \in Seq(Byte) /\ Len(consumed) \in 0..MaxBytes
      /\ fingerprint = Counted(Len(consumed)) /\ final_newline \in BOOLEAN
      /\ newline_count \in 0..MaxRecords /\ atEnd \in BOOLEAN
  BY <1>1, <1>2, InLoop
<1>4. /\ hash' \in Seq(Byte) /\ consumed' \in Seq(Byte) /\ final_newline' \in BOOLEAN
      /\ atEnd' \in BOOLEAN /\ file' = file
  BY <1>2, <1>3
<1>5. newline_count' \in 0..(MaxRecords + 1) /\ Len(consumed') <= MaxBytes + BufferSize
  BY <1>2, <1>3, Limits
<1>6. \E n \in 0..MaxBytes : fingerprint' = Counted(n)
  BY <1>2, <1>3
<1> QED BY <1>1, <1>2, <1>4, <1>5, <1>6, GivesUp

\* One chunk.
LEMMA ReadStep == FingerprintInv /\ Read => FingerprintInv'
<1>1. SUFFICES ASSUME FingerprintInv, Read PROVE FingerprintInv'
  OBVIOUS
<1>2. pc = "read" /\ file' = file /\ atEnd' = atEnd /\ file \in Seq(Byte)
  BY <1>1 DEF Read, FingerprintInv, Typed
<1>3. /\ result = 0 /\ error = Null /\ hash = consumed /\ consumed \in Seq(Byte)
      /\ Len(consumed) \in 0..MaxBytes /\ fingerprint = Counted(Len(consumed))
      /\ newline_count = Newlines(consumed) /\ newline_count \in 0..MaxRecords
      /\ final_newline \in BOOLEAN /\ atEnd \in BOOLEAN
  BY <1>1, <1>2, InLoop
<1>4. PICK n \in 1..BufferSize :
        /\ Len(consumed) + n <= Len(file)
        /\ Take(SubSeq(file, Len(consumed) + 1, Len(consumed) + n))
        /\ consumed' = consumed \o SubSeq(file, Len(consumed) + 1, Len(consumed) + n)
  BY <1>1 DEF Read
<1> DEFINE chunk == SubSeq(file, Len(consumed) + 1, Len(consumed) + n)
<1>5. n \in Nat \ {0} /\ n <= BufferSize /\ Len(consumed) \in Nat
  BY <1>3, <1>4, Limits
<1>6. chunk \in Seq(Byte) /\ Len(chunk) = n
  <2>1. Len(file) \in Nat /\ \A i \in 1..Len(file) : file[i] \in Byte
    BY <1>2, LenProperties, ElementOfSeq
  <2>2. \A i \in (Len(consumed) + 1)..(Len(consumed) + n) : file[i] \in Byte
    BY <1>4, <1>5, <2>1
  <2> QED BY <1>5, <2>2, SubSeqProperties
<1>7. Take(chunk) /\ consumed' = consumed \o chunk
  BY <1>4
<1> HIDE DEF chunk
<1>8. /\ consumed' \in Seq(Byte) /\ Len(consumed') = Len(consumed) + n
      /\ consumed'[Len(consumed) + n] = chunk[n]
      /\ Newlines(consumed') = newline_count + Newlines(chunk)
  <2>1. /\ consumed \o chunk \in Seq(Byte) /\ Len(consumed \o chunk) = Len(consumed) + Len(chunk)
        /\ \A i \in 1..(Len(consumed) + Len(chunk)) :
             (consumed \o chunk)[i] = IF i <= Len(consumed) THEN consumed[i]
                                                         ELSE chunk[i - Len(consumed)]
    BY <1>3, <1>6, ConcatProperties
  <2>2. Newlines(consumed \o chunk) = Newlines(consumed) + Newlines(chunk)
    BY <1>3, <1>6, NewlinesConcat
  <2> DEFINE u == consumed \o chunk
             m == Len(consumed)
  <2>3. consumed' = u
    BY <1>7
  <2>4. /\ u \in Seq(Byte) /\ Len(u) = m + n
        /\ \A i \in 1..(m + n) : u[i] = IF i <= m THEN consumed[i] ELSE chunk[i - m]
    BY <1>6, <2>1
  <2>5. m \in Nat
    BY <1>5
  <2> HIDE DEF u, m
  <2>6. u[m + n] = chunk[n]
    <3>1. m + n \in 1..(m + n) /\ ~(m + n <= m) /\ (m + n) - m = n
      BY <1>5, <2>5
    <3>2. u[m + n] = chunk[(m + n) - m]
      BY <2>4, <3>1
    <3> QED BY <3>1, <3>2
  <2>7. consumed' \in Seq(Byte) /\ Len(consumed') = m + n /\ consumed'[m + n] = chunk[n]
    BY <2>3, <2>4, <2>6
  <2>8. Newlines(consumed') = newline_count + Newlines(chunk)
    <3>1. Newlines(u) = newline_count + Newlines(chunk)
      BY <1>3, <2>2 DEF u
    <3>2. Newlines(consumed') = Newlines(u)
      BY <2>3 DEF Newlines
    <3> QED BY <3>1, <3>2
  <2> QED BY <2>7, <2>8 DEF m
<1>9. Len(consumed') <= MaxBytes + BufferSize
  BY <1>3, <1>5, <1>8, Limits
<1> DEFINE taken == SubSeq(chunk, 1, Taken(chunk))
           count == newline_count + Newlines(taken)
<1>10. /\ taken \in Seq(Byte) /\ count \in 0..(MaxRecords + 1)
       /\ count <= newline_count + Newlines(chunk)
       /\ count <= MaxRecords => taken = chunk
  BY <1>3, <1>6, TakenFacts
<1>11. CASE TooManyBytes(Len(chunk))
  <2>1. /\ pc' = "close" /\ result' = -1 /\ error' = "EFBIG"
        /\ UNCHANGED <<fingerprint, hash, newline_count, final_newline>>
    BY <1>7, <1>11 DEF Take, Raise, locals
  <2>2. Len(consumed') > MaxBytes
    <3>1. n > MaxBytes \/ fingerprint.bytes > MaxBytes - n
      BY <1>6, <1>11 DEF TooManyBytes
    <3>2. fingerprint.bytes = Len(consumed)
      BY <1>3 DEF Counted
    <3> QED BY <1>3, <1>5, <1>8, <3>1, <3>2, Limits
  <2>3. ~Promise!Within(consumed')
    BY <1>8, <2>2, <1>5, Limits DEF Promise!Within
  <2>4. hash' \in Seq(Byte) /\ final_newline' \in BOOLEAN /\ atEnd' \in BOOLEAN
    BY <1>2, <1>3, <2>1
  <2>5. newline_count' \in 0..(MaxRecords + 1) /\ \E i \in 0..MaxBytes : fingerprint' = Counted(i)
    BY <1>3, <2>1, Limits
  <2> QED BY <1>1, <1>2, <1>8, <1>9, <2>1, <2>3, <2>4, <2>5, GivesUp
<1>12. CASE ~TooManyBytes(Len(chunk))
  <2>1. /\ hash' = hash \o taken /\ newline_count' = count
        /\ fingerprint' = [fingerprint EXCEPT !.bytes = @ + n]
        /\ final_newline' = (chunk[n] = Newline)
        /\ IF count > MaxRecords THEN Raise("EFBIG", "close") ELSE UNCHANGED <<pc, result, error>>
    BY <1>6, <1>7, <1>12 DEF Take
  <2>2. Len(consumed') <= MaxBytes /\ fingerprint' = Counted(Len(consumed'))
    <3>1. ~ (n > MaxBytes) /\ ~ (fingerprint.bytes > MaxBytes - n)
      BY <1>6, <1>12 DEF TooManyBytes
    <3>2. fingerprint.bytes = Len(consumed)
      BY <1>3 DEF Counted
    <3>3. fingerprint' = Counted(Len(consumed) + n)
      BY <1>3, <2>1 DEF Counted
    <3> QED BY <1>3, <1>5, <1>8, <3>1, <3>2, <3>3, Limits
  <2>3. hash' \in Seq(Byte)
    BY <1>3, <1>10, <2>1, ConcatProperties
  <2>4. newline_count' \in 0..(MaxRecords + 1) /\ final_newline' \in BOOLEAN /\ atEnd' \in BOOLEAN
    BY <1>2, <1>3, <1>10, <2>1
  <2>5. Len(consumed') \in 0..MaxBytes
    BY <1>5, <1>8, <2>2, Limits
  <2>6. CASE count > MaxRecords
    <3>1. pc' = "close" /\ result' = -1 /\ error' = "EFBIG"
      BY <2>1, <2>6 DEF Raise
    <3>2. Promise!Lines(consumed') >= Newlines(consumed') /\ Newlines(consumed') \in Nat
      BY <1>8, LinesCount, NewlinesAt
    <3>3. Promise!Lines(consumed') > MaxRecords
      <4>1. Promise!Lines(consumed') \in Nat
        BY <1>8, LinesCount, NewlinesAt
      <4>2. Newlines(consumed') >= count /\ count \in Nat
        BY <1>8, <1>10, NewlinesAt, Limits
      <4> HIDE DEF count
      <4> QED BY <2>6, <3>2, <4>1, <4>2, Limits
    <3>4. ~Promise!Within(consumed')
      BY <1>8, <3>3, LinesCount, NewlinesAt, Limits DEF Promise!Within
    <3>5. \E i \in 0..MaxBytes : fingerprint' = Counted(i)
      BY <2>2, <2>5
    <3> QED BY <1>1, <1>2, <1>8, <1>9, <2>3, <2>4, <3>1, <3>4, <3>5, GivesUp
  <2>7. CASE ~(count > MaxRecords)
    <3>1. taken = chunk /\ UNCHANGED <<pc, result, error>> /\ count <= MaxRecords
      BY <1>10, <2>1, <2>7, Limits
    <3>2. hash' = consumed' /\ newline_count' = Newlines(consumed') /\ newline_count' <= MaxRecords
      BY <1>3, <1>7, <1>8, <2>1, <3>1
    <3>3. final_newline' = EndsLine(consumed')
      <4>1. consumed' # <<>>
        BY <1>5, <1>8, EmptySeq
      <4> QED BY <1>8, <2>1, <4>1 DEF EndsLine
    <3>4. Sound'
      BY <2>2, <3>2, <3>3 DEF Sound, EndsLine
    <3>5. Typed'
      BY <1>1, <1>2, <1>8, <2>3, <2>4, <3>1 DEF FingerprintInv, Typed
    <3>6. Called' /\ Reading' /\ Closing' /\ Results'
      BY <1>2, <1>3, <3>1, <3>2, <3>4, NullAssumption
      DEF Called, Reading, Closing, Results, Newlines
    <3>7. SuccessDescribes' /\ RefusalIsDeserved' /\ FailureIsBlank' /\ ReadingIsBounded'
      BY <1>2, <1>3, <1>9, <3>1, NullAssumption
      DEF SuccessDescribes, RefusalIsDeserved, FailureIsBlank, ReadingIsBounded
    <3> QED BY <3>5, <3>6, <3>7 DEF FingerprintInv
  <2> QED BY <2>6, <2>7
<1> QED BY <1>11, <1>12

LEMMA ReadEndStep == FingerprintInv /\ ReadEnd => FingerprintInv'
<1>1. SUFFICES ASSUME FingerprintInv, ReadEnd PROVE FingerprintInv'
  OBVIOUS
<1>2. /\ pc = "read" /\ pc' = "tail" /\ atEnd' = TRUE
      /\ UNCHANGED <<file, fingerprint, hash, newline_count, final_newline, result, error,
                     consumed>>
  BY <1>1 DEF ReadEnd, locals
<1>3. Typed'
  BY <1>1, <1>2 DEF FingerprintInv, Typed
<1>4. Called' /\ Reading' /\ Closing' /\ Results'
  BY <1>1, <1>2 DEF FingerprintInv, Called, Reading, Sound, Closing, Results
<1>5. SuccessDescribes' /\ RefusalIsDeserved' /\ FailureIsBlank' /\ ReadingIsBounded'
  BY <1>1, <1>2 DEF FingerprintInv, SuccessDescribes, RefusalIsDeserved, FailureIsBlank,
                    ReadingIsBounded
<1> QED BY <1>3, <1>4, <1>5 DEF FingerprintInv

\* The end of the file: from here on newline_count is the number of lines.
LEMMA CountLastLineStep == FingerprintInv /\ CountLastLine => FingerprintInv'
<1>1. SUFFICES ASSUME FingerprintInv, CountLastLine PROVE FingerprintInv'
  OBVIOUS
<1>2. /\ pc = "tail" /\ pc' = "close"
      /\ UNCHANGED <<file, fingerprint, hash, final_newline, consumed, atEnd>>
  BY <1>1 DEF CountLastLine, Raise
<1>3. /\ result = 0 /\ error = Null /\ hash = consumed /\ consumed \in Seq(Byte)
      /\ Len(consumed) \in 0..MaxBytes /\ fingerprint = Counted(Len(consumed))
      /\ final_newline = EndsLine(consumed) /\ final_newline \in BOOLEAN
      /\ newline_count = Newlines(consumed) /\ newline_count \in 0..MaxRecords
      /\ atEnd \in BOOLEAN
  BY <1>1, <1>2, InLoop
<1>4. fingerprint.bytes > 0 <=> consumed # <<>>
  <2>1. fingerprint.bytes = Len(consumed)
    BY <1>3 DEF Counted
  <2> QED BY <1>3, <2>1, EmptySeq
<1>5. Promise!Lines(consumed) =
        newline_count + (IF fingerprint.bytes > 0 /\ ~final_newline THEN 1 ELSE 0)
  BY <1>3, <1>4, LinesCount
<1>6. newline_count' = Promise!Lines(consumed) /\ newline_count' \in 0..(MaxRecords + 1)
  BY <1>1, <1>3, <1>5, Limits DEF CountLastLine
<1>7. IF newline_count' > MaxRecords
        THEN result' = -1 /\ error' = "EFBIG"
        ELSE UNCHANGED <<result, error>>
  <2>1. ~(newline_count > MaxRecords)
    BY <1>3, Limits
  <2> QED BY <1>1, <2>1 DEF CountLastLine, Raise
<1>8. Len(consumed') <= MaxBytes + BufferSize
  BY <1>2, <1>3, Limits
<1>9. CASE newline_count' > MaxRecords
  <2>1. ~Promise!Within(consumed')
    BY <1>2, <1>6, <1>9, Limits DEF Promise!Within
  <2>2. result' = -1 /\ error' = "EFBIG"
    BY <1>7, <1>9
  <2>3. \E n \in 0..MaxBytes : fingerprint' = Counted(n)
    BY <1>2, <1>3
  <2>4. /\ hash' \in Seq(Byte) /\ consumed' \in Seq(Byte) /\ final_newline' \in BOOLEAN
        /\ atEnd' \in BOOLEAN
    BY <1>2, <1>3
  <2> QED BY <1>1, <1>2, <1>6, <1>8, <2>1, <2>2, <2>3, <2>4, GivesUp
<1>10. CASE ~(newline_count' > MaxRecords)
  <2>1. UNCHANGED <<result, error>> /\ newline_count' <= MaxRecords
    BY <1>6, <1>7, <1>10, Limits
  <2>2. Sound'
    BY <1>2, <1>3 DEF Sound, EndsLine
  <2>3. newline_count' = Promise!Lines(consumed')
    <3>1. consumed' = consumed
      BY <1>2
    <3> QED BY <1>6, <3>1, Zenon DEF Promise!Lines, Promise!Cardinality, Cardinality
  <2>4. Closing'
    <3>1. \E n \in 0..MaxBytes : fingerprint' = Counted(n)
      BY <1>2, <1>3
    <3>2. error' # "check"
      BY <1>3, <2>1, NullAssumption
    <3> QED BY <2>1, <2>2, <2>3, <3>1, <3>2 DEF Closing
  <2>5. Typed'
    BY <1>1, <1>2, <1>6, <2>1 DEF FingerprintInv, Typed
  <2>6. Called' /\ Reading' /\ Results'
    BY <1>2, <1>3, <2>1 DEF Called, Reading, Results
  <2>7. SuccessDescribes' /\ RefusalIsDeserved' /\ FailureIsBlank' /\ ReadingIsBounded'
    BY <1>2, <1>3, <1>8, <2>1, NullAssumption
    DEF SuccessDescribes, RefusalIsDeserved, FailureIsBlank, ReadingIsBounded
  <2> QED BY <2>4, <2>5, <2>6, <2>7 DEF FingerprintInv
<1> QED BY <1>9, <1>10

\* What the call leaves in *fingerprint, once the file is closed.
LEMMA CloseStep == FingerprintInv /\ (Close \/ CloseFails) => FingerprintInv'
<1>1. SUFFICES ASSUME FingerprintInv, Close \/ CloseFails PROVE FingerprintInv'
  OBVIOUS
<1>2. /\ pc = "close" /\ pc' = "returned"
      /\ UNCHANGED <<file, hash, newline_count, final_newline, consumed, atEnd>>
  BY <1>1 DEF Close, CloseFails, Raise, locals
<1>3. Typed'
  <2>1. error' \in {error, "errno"}
    BY <1>1 DEF Close, CloseFails, Raise
  <2> QED BY <1>1, <1>2, <2>1 DEF FingerprintInv, Typed
<1>4. Called' /\ Reading' /\ Closing'
  BY <1>2 DEF Called, Reading, Closing
<1>5. Results'
  BY <1>1, NullAssumption DEF FingerprintInv, Results, Close, CloseFails, Raise
<1>6. ReadingIsBounded'
  BY <1>1, <1>2 DEF FingerprintInv, ReadingIsBounded
<1>7. error' = "EFBIG" => error = "EFBIG"
  BY <1>1 DEF Close, CloseFails, Raise
<1>8. RefusalIsDeserved'
  BY <1>1, <1>2, <1>7
  DEF FingerprintInv, RefusalIsDeserved, Promise!Within, Promise!Lines
<1>9. SuccessDescribes'
  <2>1. SUFFICES ASSUME result' = 0
                 PROVE  fingerprint' = Promise!Describe(consumed') /\ Promise!Within(consumed')
    BY DEF SuccessDescribes
  <2>2. Close /\ result = 0
    BY <1>1, <2>1 DEF Close, CloseFails, Raise
  <2>3. /\ hash = consumed /\ fingerprint = Counted(Len(consumed)) /\ Len(consumed) <= MaxBytes
        /\ final_newline = EndsLine(consumed)
        /\ newline_count = Promise!Lines(consumed) /\ newline_count <= MaxRecords
    BY <1>1, <1>2, <2>2 DEF FingerprintInv, Closing, Sound
  <2>4. fingerprint' = [bytes |-> Len(consumed), records |-> Promise!Lines(consumed),
                        fnv1a64 |-> consumed, final_newline |-> EndsLine(consumed)]
    BY <2>2, <2>3 DEF Close, Store, Counted
  <2>5. Promise!EndsLine(consumed) = EndsLine(consumed)
    BY DEF EndsLine, Promise!EndsLine
  <2>6. fingerprint' = Promise!Describe(consumed) /\ Promise!Within(consumed)
    BY <2>3, <2>4, <2>5 DEF Promise!Describe, Promise!Within
  <2>7. consumed' = consumed
    BY <1>2
  <2> QED BY <2>6, <2>7
<1>10. FailureIsBlank'
  <2>1. SUFFICES ASSUME error' # Null
                 PROVE  result' = -1 /\ error' # "check" /\ fingerprint' = Zero
    BY DEF FailureIsBlank, Zero
  <2>2. error # "check"
    BY <1>1, <1>2 DEF FingerprintInv, Closing
  <2>3. error' # "check"
    BY <1>1, <2>2 DEF Close, CloseFails, Raise
  <2>4. result' = -1
    BY <1>5, <2>1 DEF Results
  <2>5. fingerprint' = Zero
    BY <1>1, <2>4 DEF Close, CloseFails, Store, Raise
  <2> QED BY <2>3, <2>4, <2>5
<1> QED BY <1>3, <1>4, <1>5, <1>6, <1>8, <1>9, <1>10 DEF FingerprintInv

LEMMA FingerprintStep == FingerprintInv /\ [Next]_vars => FingerprintInv'
<1>1. SUFFICES ASSUME FingerprintInv, [Next]_vars PROVE FingerprintInv'
  OBVIOUS
<1>2. CASE Extend \/ Rewrite
  BY <1>1, <1>2, OthersStep
<1>3. CASE Proceed
  BY <1>1, <1>3, OpenStep, ReadStep, ReadEndStep, CountLastLineStep, CloseStep DEF Proceed
<1>4. CASE Fail
  BY <1>1, <1>4, BadArgumentsStep, OpenStep, ReadFailsStep, CloseStep DEF Fail
<1>5. CASE UNCHANGED vars
  <2>1. UNCHANGED <<file, pc, fingerprint, hash, newline_count, final_newline, result, error,
                    consumed, atEnd>>
    BY <1>5 DEF vars, locals
  <2>2. Typed' /\ Called' /\ Reading' /\ Closing' /\ Results'
    BY <1>1, <2>1
    DEF FingerprintInv, Typed, Called, Reading, Sound, Closing, Results
  <2>3. SuccessDescribes' /\ RefusalIsDeserved' /\ FailureIsBlank' /\ ReadingIsBounded'
    BY <1>1, <2>1 DEF FingerprintInv, SuccessDescribes, RefusalIsDeserved, FailureIsBlank,
                      ReadingIsBounded
  <2> QED BY <2>2, <2>3 DEF FingerprintInv
<1> QED BY <1>1, <1>2, <1>3, <1>4, <1>5 DEF Next

LEMMA FingerprintInvariance == Spec => []FingerprintInv
  BY FingerprintInit, FingerprintStep, PTL DEF Spec

LEMMA FingerprintTypes == FingerprintInv => TypeOK
<1>1. SUFFICES ASSUME FingerprintInv PROVE TypeOK
  OBVIOUS
<1>2. ASSUME pc \in {"read", "tail", "close"}
      PROVE  \E n \in 0..MaxBytes : fingerprint = Counted(n)
  <2>1. CASE pc \in {"read", "tail"}
    BY <1>1, <2>1, InLoop
  <2>2. CASE pc = "close"
    BY <1>1, <2>2 DEF FingerprintInv, Closing
  <2> QED BY <1>2, <2>1, <2>2
<1>3. ASSUME pc \in {"read", "tail", "close"}
      PROVE  /\ fingerprint.bytes \in 0..MaxBytes
             /\ fingerprint.records = 0 /\ fingerprint.fnv1a64 = <<>>
  BY <1>2, <1>3 DEF Counted
<1> QED BY <1>1, <1>3 DEF FingerprintInv, Typed, Results, TypeOK

-----------------------------------------------------------------------------
(* The snapshot.                                                           *)

\* s is how t begins.
Begins(s, t) == Len(s) <= Len(t) /\ s = SubSeq(t, 1, Len(s))

\* As long as the others only append, what was read is how the file begins; and no call
\* succeeds before it has seen the end.
SnapshotInv ==
  /\ AppendOnly => Begins(consumed, file)
  /\ pc \in {"call", "read"} => ~atEnd
  /\ pc = "tail" \/ (pc = "close" /\ result = 0) => atEnd

LEMMA BeginsAppend ==
  ASSUME NEW s \in Seq(Byte), NEW t \in Seq(Byte), NEW u \in Seq(Byte), Begins(s, t)
  PROVE  Begins(s, t \o u)
<1>1. /\ Len(s) \in Nat /\ Len(t) \in Nat /\ Len(u) \in Nat
      /\ t \o u \in Seq(Byte) /\ Len(t \o u) = Len(t) + Len(u)
  BY ConcatProperties, LenProperties
<1>2. Len(s) <= Len(t) /\ s = SubSeq(t, 1, Len(s))
  BY DEF Begins
<1>3. Len(s) <= Len(t \o u)
  BY <1>1, <1>2
<1>4. SubSeq(t \o u, 1, Len(s)) = SubSeq(t, 1, Len(s))
  <2>1. CASE Len(s) = 0
    <3>1. SubSeq(t \o u, 1, 0) = <<>> /\ SubSeq(t, 1, 0) = <<>>
      BY SubSeqEmpty
    <3> QED BY <2>1, <3>1, Zenon
  <2>2. CASE Len(s) # 0
    <3>1. 1 \in 1..Len(t) /\ Len(s) \in 1..Len(t)
      BY <1>1, <1>2, <2>2
    <3> QED BY <3>1, SubSeqOfConcat1
  <2> QED BY <2>1, <2>2
<1> QED BY <1>2, <1>3, <1>4, Zenon DEF Begins

\* The next chunk of the file, behind what was read of it.
LEMMA BeginsChunk ==
  ASSUME NEW s \in Seq(Byte), NEW t \in Seq(Byte), NEW n \in Nat \ {0}, Begins(s, t),
         Len(s) + n <= Len(t)
  PROVE  Begins(s \o SubSeq(t, Len(s) + 1, Len(s) + n), t)
<1> DEFINE m == Len(s)
           u == s \o SubSeq(t, m + 1, m + n)
<1>1. m \in Nat /\ Len(t) \in Nat /\ m + n \in Nat /\ m + n <= Len(t)
  BY LenProperties
<1>2. s = SubSeq(t, 1, m)
  BY DEF Begins
<1> HIDE DEF m
<1>3. u = SubSeq(t, 1, m + n)
  <2>1. 1 \in 1..(Len(t) + 1) /\ m \in (1 - 1)..Len(t) /\ m + n \in m..Len(t)
    BY <1>1
  <2>2. SubSeq(t, 1, m) \o SubSeq(t, m + 1, m + n) = SubSeq(t, 1, m + n)
    BY <2>1, ConcatAdjacentSubSeq
  <2> QED BY <1>2, <2>2, Zenon
<1>4. Len(SubSeq(t, 1, m + n)) = m + n
  <2>1. \A i \in 1..(m + n) : t[i] \in Byte
    BY <1>1, ElementOfSeq
  <2> QED BY <1>1, <2>1, SubSeqProperties
<1> HIDE DEF u
<1>5. Len(u) = m + n
  BY <1>3, <1>4, Zenon
<1>6. Begins(u, t)
  BY <1>1, <1>3, <1>5 DEF Begins
<1> QED BY <1>6 DEF u, m

\* A file that begins with a content over a limit is over it too.
LEMMA LinesOfLonger ==
  ASSUME NEW s \in Seq(Byte), NEW t \in Seq(Byte), Begins(s, t), Promise!Within(t)
  PROVE  Promise!Within(s)
<1> DEFINE L(r) == {i \in 1..Len(r) : i = 1 \/ r[i - 1] = Newline}
<1>1. /\ Len(s) \in Nat /\ Len(t) \in Nat /\ Len(s) <= Len(t)
      /\ \A i \in 1..Len(t) : t[i] \in Byte
  BY LenProperties, ElementOfSeq DEF Begins
<1>2. \A i \in 1..Len(s) : s[i] = t[i]
  <2>1. \A i \in 1..Len(s) : SubSeq(t, 1, Len(s))[i] = t[i]
    BY <1>1, SubSeqProperties
  <2>2. s = SubSeq(t, 1, Len(s))
    BY DEF Begins
  <2> QED BY <2>1, <2>2, Zenon
<1>3. L(s) \subseteq L(t)
  BY <1>1, <1>2
<1>4. IsFiniteSet(L(t)) /\ L(t) \subseteq 1..Len(t)
  <2>1. IsFiniteSet(1..Len(t))
    BY <1>1, FS_Interval
  <2> QED BY <2>1, FS_Subset
<1>5. Promise!Lines(s) = Cardinality(L(s)) /\ Promise!Lines(t) = Cardinality(L(t))
  BY Zenon DEF Promise!Lines, Promise!Cardinality, Cardinality
<1> HIDE DEF L
<1>6. /\ Cardinality(L(s)) <= Cardinality(L(t))
      /\ Cardinality(L(s)) \in Nat /\ Cardinality(L(t)) \in Nat
  BY <1>3, <1>4, FS_Subset, FS_CardinalityType
<1>7. Len(t) <= MaxBytes /\ Promise!Lines(t) <= MaxRecords
  BY DEF Promise!Within
<1> QED BY <1>1, <1>5, <1>6, <1>7, Limits DEF Promise!Within

LEMMA SnapshotInit == Init => SnapshotInv
<1>1. SUFFICES ASSUME Init PROVE SnapshotInv
  OBVIOUS
<1>2. PICK n \in 0..MaxLength : file \in [1..n -> Byte]
  BY <1>1 DEF Init, Contents
<1>3. consumed = <<>> /\ Len(consumed) = 0 /\ Len(file) \in Nat
  BY <1>1, <1>2 DEF Init
<1>4. Begins(consumed, file)
  <2>1. SubSeq(file, 1, 0) = <<>>
    BY SubSeqEmpty
  <2>2. Len(consumed) <= Len(file)
    BY <1>3
  <2> QED BY <1>3, <2>1, <2>2, Zenon DEF Begins
<1> QED BY <1>1, <1>4 DEF Init, SnapshotInv

LEMMA SnapshotStep == FingerprintInv /\ SnapshotInv /\ [Next]_vars => SnapshotInv'
<1>1. SUFFICES ASSUME FingerprintInv, SnapshotInv, [Next]_vars PROVE SnapshotInv'
  OBVIOUS
<1>2. file \in Seq(Byte) /\ consumed \in Seq(Byte)
  BY <1>1 DEF FingerprintInv, Typed
<1>3. CASE Extend
  <2>1. PICK b \in Byte : file' = file \o <<b>>
    BY <1>3 DEF Extend
  <2>2. <<b>> \in Seq(Byte) /\ UNCHANGED <<pc, result, consumed, atEnd>>
    BY <1>3 DEF Extend
  <2>3. AppendOnly => Begins(consumed', file')
    BY <1>1, <1>2, <2>1, <2>2, BeginsAppend DEF SnapshotInv
  <2> QED BY <1>1, <2>2, <2>3 DEF SnapshotInv
<1>4. CASE Rewrite
  BY <1>1, <1>4 DEF Rewrite, SnapshotInv
<1>5. CASE Read
  <2>1. PICK n \in 1..BufferSize :
          LET chunk == SubSeq(file, Len(consumed) + 1, Len(consumed) + n)
          IN  /\ Len(consumed) + n <= Len(file)
              /\ Take(chunk) /\ consumed' = consumed \o chunk
    BY <1>5 DEF Read
  <2>2. n \in Nat \ {0}
    BY Limits
  <2>3. AppendOnly => Begins(consumed', file)
    BY <1>1, <1>2, <2>1, <2>2, BeginsChunk DEF SnapshotInv
  <2>4. file' = file /\ atEnd' = atEnd /\ pc = "read"
    BY <1>5 DEF Read
  <2>5. pc' = "read" \/ (pc' = "close" /\ result' = -1)
    BY <2>1, <2>4 DEF Take, Raise
  <2> QED BY <1>1, <2>3, <2>4, <2>5 DEF SnapshotInv
<1>6. CASE ReadEnd
  BY <1>1, <1>6 DEF ReadEnd, SnapshotInv, Begins, locals
<1>7. CASE CountLastLine \/ Open \/ Close \/ Fail
  <2>1. UNCHANGED <<file, consumed, atEnd>>
    BY <1>7 DEF CountLastLine, Open, Close, Fail, BadArguments, OpenFails, ReadFails, CloseFails
  <2>2. \/ pc' = "returned"
        \/ pc = "call" /\ pc' = "read"
        \/ pc = "tail" /\ pc' = "close"
        \/ pc' = "close" /\ result' = -1
    BY <1>7 DEF CountLastLine, Open, Close, Fail, BadArguments, OpenFails, ReadFails, CloseFails,
                Raise
  <2> QED BY <1>1, <2>1, <2>2 DEF SnapshotInv, Begins
<1>8. CASE UNCHANGED vars
  BY <1>1, <1>8 DEF vars, locals, SnapshotInv, Begins
<1> QED BY <1>1, <1>3, <1>4, <1>5, <1>6, <1>7, <1>8 DEF Next, Proceed

LEMMA SnapshotInvariance == Spec => []SnapshotInv
  BY SnapshotInit, SnapshotStep, FingerprintInvariance, PTL DEF Spec

-----------------------------------------------------------------------------
(* The refinement.                                                         *)

\* A call that returns with an error has failed, or refuses what the promise refuses.
LEMMA FailureRefines ==
  ASSUME AppendOnly, FingerprintInv, FingerprintInv', SnapshotInv,
         pc # "returned", pc' = "returned", result' = -1,
         UNCHANGED <<file, consumed, atEnd>>
  PROVE  Promise!Refuse \/ Promise!Fail
<1>1. Answer = Null /\ Answer' = <<error', Null>> /\ Seen' = Seen
  BY DEF Answer, Seen
<1>2. error' \in {"check", "errno", "EFBIG"}
  BY NullAssumption DEF FingerprintInv, Results, Typed
<1>3. CASE error' \in {"check", "errno"}
  BY <1>1, <1>3 DEF Promise!Fail, Promise!Failure
<1>4. CASE error' = "EFBIG"
  <2>1. consumed \in Seq(Byte) /\ file \in Seq(Byte)
    BY DEF FingerprintInv, Typed
  <2>2. ~Promise!Within(consumed)
    <3>1. ~Promise!Within(consumed')
      BY <1>4 DEF FingerprintInv, RefusalIsDeserved
    <3> QED BY <3>1 DEF Promise!Within, Promise!Lines
  <2>3. ~Promise!Within(file)
    BY <2>1, <2>2, LinesOfLonger DEF SnapshotInv
  <2>4. (IF Seen = Null THEN file ELSE Seen) \in {file, consumed}
    BY DEF Seen
  <2>5. ~Promise!Within(IF Seen = Null THEN file ELSE Seen)
    BY <2>2, <2>3, <2>4, Zenon
  <2> QED BY <1>1, <1>4, <2>5 DEF Promise!Refuse, Promise!Failure
<1> QED BY <1>2, <1>3, <1>4

\* A call that returns 0 describes the content it saw the end of.
LEMMA SuccessRefines ==
  ASSUME FingerprintInv, FingerprintInv', SnapshotInv, Close, result = 0
  PROVE  Promise!Describes
<1>1. /\ pc = "close" /\ pc' = "returned" /\ result' = 0
      /\ UNCHANGED <<file, consumed, atEnd>>
  BY DEF Close
<1>2. Seen = consumed /\ Seen # Null /\ Seen' = Seen
  BY <1>1, NullAssumption DEF SnapshotInv, Seen, FingerprintInv, Typed
<1>3. Answer = Null /\ Answer' = <<"success", fingerprint'>>
  BY <1>1 DEF Answer
<1>4. fingerprint' = Promise!Describe(consumed) /\ Promise!Within(consumed)
  <2>1. fingerprint' = Promise!Describe(consumed') /\ Promise!Within(consumed')
    BY <1>1 DEF FingerprintInv, SuccessDescribes
  <2> QED BY <1>1, <2>1
     DEF Promise!Describe, Promise!Within, Promise!Lines, Promise!EndsLine
<1> QED BY <1>1, <1>2, <1>3, <1>4 DEF Promise!Describes, Promise!Success

\* The end of the file is the moment: what was read is what the file holds.
LEMMA ReadEndRefines ==
  ASSUME AppendOnly, FingerprintInv, SnapshotInv, ReadEnd
  PROVE  Promise!Look
<1>1. /\ pc = "read" /\ pc' = "tail" /\ atEnd' = TRUE /\ Len(file) <= Len(consumed)
      /\ UNCHANGED <<file, consumed>>
  BY DEF ReadEnd
<1>2. file \in Seq(Byte) /\ consumed \in Seq(Byte)
  BY DEF FingerprintInv, Typed
<1>3. Len(consumed) = Len(file) /\ consumed = SubSeq(file, 1, Len(consumed))
  BY <1>1, <1>2, LenProperties DEF SnapshotInv, Begins
<1>4. consumed = file
  <2>1. SubSeq(file, 1, Len(file)) = file
    BY <1>2, SubSeqFull
  <2> QED BY <1>3, <2>1, Zenon
<1>5. Seen = Null /\ Seen' = file /\ Answer = Null /\ Answer' = Null
  BY <1>1, <1>4 DEF SnapshotInv, Seen, Answer
<1> QED BY <1>1, <1>5 DEF Promise!Look

-----------------------------------------------------------------------------
(* The steps that are left.                                                *)

\* One read takes at least a byte off what the limit leaves, or ends the loop.
LEMMA ReadRunsOut ==
  ASSUME FingerprintInv, FingerprintInv', Read
  PROVE  StepsLeft \in Nat /\ StepsLeft' \in Nat /\ StepsLeft' < StepsLeft
<1>1. pc = "read" /\ file \in Seq(Byte)
  BY DEF Read, FingerprintInv, Typed
<1>2. /\ consumed \in Seq(Byte) /\ Len(consumed) \in 0..MaxBytes
      /\ fingerprint.bytes = Len(consumed)
  BY <1>1, InLoop DEF Counted
<1>3. StepsLeft = MaxBytes - Len(consumed) + 3 /\ StepsLeft \in Nat /\ StepsLeft >= 3
  BY <1>1, <1>2, Limits DEF StepsLeft
<1>4. CASE pc' = "close"
  <2>1. StepsLeft' = 1
    BY <1>4 DEF StepsLeft
  <2> QED BY <1>3, <2>1
<1>5. CASE pc' = "read"
  <2>1. PICK n \in 1..BufferSize :
          /\ Len(consumed) + n <= Len(file)
          /\ consumed' = consumed \o SubSeq(file, Len(consumed) + 1, Len(consumed) + n)
    BY DEF Read
  <2> DEFINE chunk == SubSeq(file, Len(consumed) + 1, Len(consumed) + n)
  <2>2. n \in Nat \ {0} /\ Len(consumed) \in Nat
    BY <1>2, <2>1, Limits
  <2>3. chunk \in Seq(Byte) /\ Len(chunk) = n
    <3>1. Len(file) \in Nat /\ \A i \in 1..Len(file) : file[i] \in Byte
      BY <1>1, LenProperties, ElementOfSeq
    <3>2. \A i \in (Len(consumed) + 1)..(Len(consumed) + n) : file[i] \in Byte
      BY <2>1, <2>2, <3>1
    <3> QED BY <2>2, <3>2, SubSeqProperties
  <2>4. consumed' = consumed \o chunk
    BY <2>1
  <2> HIDE DEF chunk
  <2>5. Len(consumed') = Len(consumed) + n
    BY <1>2, <2>3, <2>4, ConcatProperties
  <2>6. fingerprint'.bytes = Len(consumed') /\ Len(consumed') <= MaxBytes
    BY <1>5 DEF FingerprintInv, Reading, Sound, Counted
  <2>7. StepsLeft' = MaxBytes - Len(consumed') + 3
    BY <1>5, <2>6 DEF StepsLeft
  <2> QED BY <1>2, <1>3, <2>2, <2>5, <2>6, <2>7, Limits
<1>6. pc' \in {"close", "read"}
  BY <1>1 DEF Read, Take, Raise
<1> QED BY <1>4, <1>5, <1>6

LEMMA CallRunsOut ==
  ASSUME FingerprintInv, FingerprintInv', Proceed \/ Fail
  PROVE  StepsLeft \in Nat /\ StepsLeft' \in Nat /\ StepsLeft' < StepsLeft
<1>1. CASE Open
  <2>1. pc = "call" /\ pc' = "read" /\ fingerprint'.bytes = 0
    BY <1>1 DEF Open, Zero
  <2> QED BY <2>1, Limits DEF StepsLeft
<1>2. CASE Read
  BY <1>2, ReadRunsOut
<1>3. CASE ReadEnd \/ ReadFails
  <2>1. pc = "read" /\ pc' \in {"tail", "close"}
    BY <1>3 DEF ReadEnd, ReadFails, Raise
  <2>2. Len(consumed) \in 0..MaxBytes /\ fingerprint.bytes = Len(consumed)
    BY <2>1, InLoop DEF Counted
  <2>3. StepsLeft = MaxBytes - Len(consumed) + 3
    BY <2>1, <2>2 DEF StepsLeft
  <2>4. StepsLeft' \in {1, 2}
    BY <2>1 DEF StepsLeft
  <2> QED BY <2>2, <2>3, <2>4, Limits
<1>4. CASE CountLastLine
  <2>1. pc = "tail" /\ pc' = "close"
    BY <1>4 DEF CountLastLine, Raise
  <2> QED BY <2>1 DEF StepsLeft
<1>5. CASE Close \/ CloseFails
  <2>1. pc = "close" /\ pc' = "returned"
    BY <1>5 DEF Close, CloseFails, Raise
  <2> QED BY <2>1 DEF StepsLeft
<1>6. CASE BadArguments \/ OpenFails
  <2>1. pc = "call" /\ pc' = "returned"
    BY <1>6 DEF BadArguments, OpenFails, Raise
  <2> QED BY <2>1, Limits DEF StepsLeft
<1> QED BY <1>1, <1>2, <1>3, <1>4, <1>5, <1>6 DEF Proceed, Fail

-----------------------------------------------------------------------------
(* The theorems.                                                           *)

\* Every variable of the fingerprint call keeps its type, and its counts stay within
\* the limits that protect them from overflow.
THEOREM CountsAreBounded == Spec => []TypeOK
  BY FingerprintInvariance, FingerprintTypes, PTL

\* A successful call describes the bytes it read, whatever the chunks were, and they
\* are within both limits.
THEOREM DescriptionIsExact == Spec => []SuccessDescribes
  BY FingerprintInvariance, PTL DEF FingerprintInv

\* A call refuses with EFBIG only bytes that are over a limit.
THEOREM RefusesOnlyTooMuch == Spec => []RefusalIsDeserved
  BY FingerprintInvariance, PTL DEF FingerprintInv

\* A failed call leaves no partial count behind.
THEOREM FailureLeavesNothing == Spec => []FailureIsBlank
  BY FingerprintInvariance, PTL DEF FingerprintInv

\* A call makes no more than MaxBytes + 4 steps and reads at most one buffer past
\* maximum_bytes, whatever others do to the file while it reads: it cannot be kept in its
\* loop by a file that is made longer for ever.
THEOREM CallStepsAreBounded == Spec => StepsRunOut
<1>1. /\ FingerprintInv /\ FingerprintInv' /\ [Next]_vars
      => [ \/ UNCHANGED <<pc, fingerprint, locals, result, error, consumed, atEnd>>
           \/ /\ StepsLeft \in Nat /\ StepsLeft' \in Nat /\ StepsLeft' < StepsLeft
              /\ ReadingIsBounded' ]_vars
  <2>1. CASE Extend \/ Rewrite
    BY <2>1 DEF Extend, Rewrite
  <2>2. CASE UNCHANGED vars
    BY <2>2
  <2>3. FingerprintInv' => ReadingIsBounded'
    BY DEF FingerprintInv
  <2> QED BY <2>1, <2>2, <2>3, CallRunsOut DEF Next
<1> QED BY <1>1, FingerprintInvariance, PTL DEF Spec, StepsRunOut

\* If other processes only append, a call answers for the content the file had at one
\* moment, whole, although it was read in several chunks: it describes that content, or it
\* is refused because a limit is passed.
THEOREM FingerprintIsSnapshot ==
  ASSUME AppendOnly
  PROVE  Spec => IsSnapshot
<1>1. FingerprintInv /\ Init => Promise!Init
  BY DEF FingerprintInv, Typed, Init, Promise!Init, Seen, Answer
<1>2. /\ FingerprintInv /\ FingerprintInv' /\ SnapshotInv /\ [Next]_vars
      => [Promise!Next]_<<file, Seen, Answer>>
  <2>1. SUFFICES ASSUME FingerprintInv, FingerprintInv', SnapshotInv, [Next]_vars,
                        ~UNCHANGED <<file, Seen, Answer>>
                 PROVE  Promise!Next
    OBVIOUS
  <2>2. CASE Extend
    <3>1. UNCHANGED <<Seen, Answer>>
      BY <2>2 DEF Extend, Seen, Answer
    <3>2. Promise!Extend
      BY <2>2, <3>1 DEF Extend, Promise!Extend
    <3> QED BY <3>2 DEF Promise!Next
  <2>3. CASE Rewrite
    BY <2>3 DEF Rewrite
  <2>4. CASE Open \/ Read \/ CountLastLine \/ ReadFails
    <3>1. pc # "returned" /\ pc' # "returned" /\ UNCHANGED <<file, atEnd>>
      BY <2>4 DEF Open, Read, Take, CountLastLine, ReadFails, Raise
    <3>2. UNCHANGED Answer
      BY <3>1 DEF Answer
    <3>3. UNCHANGED Seen
      <4>1. CASE Read
        BY <2>1, <3>1, <4>1 DEF Read, SnapshotInv, Seen
      <4>2. CASE Open \/ CountLastLine \/ ReadFails
        BY <3>1, <4>2 DEF Open, CountLastLine, ReadFails, Seen
      <4> QED BY <2>4, <4>1, <4>2
    <3> QED BY <2>1, <3>1, <3>2, <3>3
  <2>5. CASE ReadEnd
    BY <2>1, <2>5, ReadEndRefines DEF Promise!Next
  <2>6. CASE Close /\ result = 0
    BY <2>1, <2>6, SuccessRefines DEF Promise!Next
  <2>7. CASE (Close /\ result # 0) \/ CloseFails \/ BadArguments \/ OpenFails
    <3>1. /\ pc # "returned" /\ pc' = "returned" /\ result' = -1
          /\ UNCHANGED <<file, consumed, atEnd>>
      BY <2>1, <2>7
      DEF Close, CloseFails, BadArguments, OpenFails, Raise, FingerprintInv, Results
    <3> QED BY <2>1, <3>1, FailureRefines DEF Promise!Next
  <2>8. CASE UNCHANGED vars
    BY <2>1, <2>8 DEF vars, locals, Seen, Answer
  <2> QED BY <2>1, <2>2, <2>3, <2>4, <2>5, <2>6, <2>7, <2>8 DEF Next, Proceed, Fail
<1> QED
  BY <1>1, <1>2, FingerprintInvariance, SnapshotInvariance, PTL
  DEF Spec, IsSnapshot, Promise!Spec
=============================================================================
