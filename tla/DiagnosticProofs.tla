-------------------------- MODULE DiagnosticProofs ---------------------------
(***************************************************************************)
(* That a diagnostic is written as whole records, the same finding to both *)
(* streams and each with its own lesson, for any arguments, any structs a  *)
(* producer fills by hand, and any number of calls and failures.           *)
(***************************************************************************)
EXTENDS Diagnostic, Counting

-----------------------------------------------------------------------------
(* The catalog: each finding is at home in one lesson, and every row is    *)
(* the row of a finding in its home.                                       *)

Home(finding) ==
  LET family == finding[1]
      number == finding[2]
  IN  CASE family = "WRAP" -> "WRAPPER-BOUNDARIES"
        [] family = "ERR" -> "ERROR-CONTRACTS"
        [] family = "MOD" /\ number # 28 -> "MODULE-BOUNDARIES"
        [] family \in {"ALLOC", "FD"} -> "GENERIC-RESOURCES"
        [] family = "RESOURCE" /\ number # 6 -> "GENERIC-RESOURCES"
        [] family = "PROC" /\ number # 2 -> "GENERIC-RESOURCES"
        [] family = "SYNC" /\ number # 6 -> "SYNCHRONIZATION"
        [] family = "TRACE" -> "TRACE-INTEGRITY"
        [] family = "SAN" -> "SANITIZERS"
        [] family = "MUTATION" -> "MUTATION-STRENGTH"
        [] family = "API" -> "API-COMPATIBILITY"
        [] family \in {"EXPECT", "POLICY-RESOURCE", "POLICY-SYNC", "POLICY-SECURE"} ->
             "POLICY-EXPECTATIONS"
        [] family \in {"TEST-CONFORMANCE", "TEST-RECEIPT"} -> "TEST-EVIDENCE"
        [] family \in {"TEST-DETERMINISM", "DATA", "TIME", "TEST-RECOVERY", "SCHEMA",
                       "TEST-SIDE-EFFECT"} -> "COMMAND-CONTRACTS"
        [] family = "RESOURCE" /\ number = 6 -> "COMMAND-CONTRACTS"
        [] family \in {"IO", "RETRY"} -> "OPERATIONAL-SEMANTICS"
        [] family = "SYNC" /\ number = 6 -> "OPERATIONAL-SEMANTICS"
        [] family = "PROC" /\ number = 2 -> "OPERATIONAL-SEMANTICS"
        [] OTHER -> "SECURE-SEMANTICS"

\* A sequence of n findings of one lesson.
AtHome(ids, lesson, n) ==
  IsSeq(ids) /\ Len(ids) = n /\ \A i \in 1..n : Home(ids[i]) = lesson

\* The row of a finding in its home.
IsRow(row) == row.lesson_id = Home(row.id) /\ row.lesson_url = <<row.lesson_id, row.id>>

\* A sequence of n such rows.
AllRows(rows, n) ==
  /\ IsSeq(rows) /\ Len(rows) = n
  /\ \A i \in 1..n : IsRow(rows[i])

LEMMA BothAtHome ==
  ASSUME NEW s, NEW t, NEW lesson, NEW m \in Nat, NEW n \in Nat, NEW k, k = m + n,
         AtHome(s, lesson, m), AtHome(t, lesson, n)
  PROVE  AtHome(s \o t, lesson, k)
BY ConcatAt DEF AtHome

LEMMA BothRows ==
  ASSUME NEW s, NEW t, NEW m \in Nat, NEW n \in Nat, NEW k, k = m + n, AllRows(s, m), AllRows(t, n)
  PROVE  AllRows(s \o t, k)
BY ConcatAt DEF AllRows

LEMMA FamilyAtHome ==
  ASSUME NEW family, NEW numbers, NEW n \in Nat, IsSeq(numbers), Len(numbers) = n, NEW lesson,
         \A i \in 1..n : Home(<<family, numbers[i]>>) = lesson
  PROVE  AtHome(Of(family, numbers), lesson, n)
<1> DEFINE f == [i \in 1..n |-> <<family, numbers[i]>>]
           S == {<<family, numbers[i]>> : i \in 1..n}
<1>1. DOMAIN numbers = 1..n
  BY DEF IsSeq
<1>2. Of(family, numbers) = f
  BY <1>1 DEF Of
<1>3. f \in [1..n -> S]
  OBVIOUS
<1>4. IsSeq(f) /\ Len(f) = n
  <2> HIDE DEF f, S
  <2> QED BY <1>3, FunctionIsSeq
<1>5. \A i \in 1..n : Home(f[i]) = lesson
  OBVIOUS
<1> QED BY <1>2, <1>4, <1>5 DEF AtHome

\* A run of numbers.
LEMMA FromToIsSeq ==
  ASSUME NEW a \in Nat, NEW b \in Nat, a <= b
  PROVE  /\ IsSeq(FromTo(a, b)) /\ Len(FromTo(a, b)) = b - a + 1 /\ b - a + 1 \in Nat
         /\ \A i \in 1..(b - a + 1) : FromTo(a, b)[i] \in a..b
<1>1. FromTo(a, b) \in [1..(b - a + 1) -> a..b] /\ b - a + 1 \in Nat
  BY DEF FromTo
<1>2. IsSeq(FromTo(a, b)) /\ Len(FromTo(a, b)) = b - a + 1
  BY <1>1, FunctionIsSeq
<1> QED BY <1>1, <1>2

\* A family that is all in one lesson.
IsWhole(family, lesson) == \A n : Home(<<family, n>>) = lesson

LEMMA ListAtHome ==
  ASSUME NEW family, NEW numbers, NEW n \in Nat, IsSeq(numbers), Len(numbers) = n, NEW lesson,
         IsWhole(family, lesson)
  PROVE  AtHome(Of(family, numbers), lesson, n)
BY FamilyAtHome DEF IsWhole

\* A run of a family that is all in one lesson.
LEMMA RunAtHome ==
  ASSUME NEW family, NEW a \in Nat, NEW b \in Nat, a <= b, NEW k, k = b - a + 1, NEW lesson,
         IsWhole(family, lesson)
  PROVE  AtHome(Of(family, FromTo(a, b)), lesson, k)
<1>1. IsSeq(FromTo(a, b)) /\ Len(FromTo(a, b)) = k /\ k \in Nat
  BY FromToIsSeq
<1> QED BY <1>1, FamilyAtHome DEF IsWhole

\* A finding by itself.
LEMMA OneAtHome ==
  ASSUME NEW family, NEW n, NEW lesson, Home(<<family, n>>) = lesson
  PROVE  AtHome(Of(family, <<n>>), lesson, 1)
<1>1. <<n>> \in Seq({n}) /\ Len(<<n>>) = 1 /\ \A i \in 1..1 : <<n>>[i] = n
  OBVIOUS
<1>2. IsSeq(<<n>>)
  BY <1>1 DEF IsSeq
<1>3. \A i \in 1..1 : Home(<<family, <<n>>[i]>>) = lesson
  BY <1>1
<1>4. 1 \in Nat
  OBVIOUS
<1> QED BY <1>1, <1>2, <1>3, <1>4, FamilyAtHome

LEMMA RowsAtHome ==
  ASSUME NEW lesson, NEW ids, NEW n \in Nat, AtHome(ids, lesson, n)
  PROVE  AllRows(Rows(lesson, ids), n)
<1> DEFINE row(i) == [ id |-> ids[i], lesson_id |-> lesson, lesson_path |-> lesson,
                       lesson_url |-> <<lesson, ids[i]>> ]
           f == [i \in 1..n |-> row(i)]
           S == {row(i) : i \in 1..n}
<1>1. DOMAIN ids = 1..n /\ \A i \in 1..n : Home(ids[i]) = lesson
  BY DEF AtHome, IsSeq
<1>2. Rows(lesson, ids) = f
  BY <1>1 DEF Rows
<1>3. f \in [1..n -> S]
  OBVIOUS
<1>4. IsSeq(f) /\ Len(f) = n
  <2> HIDE DEF f, S
  <2> QED BY <1>3, FunctionIsSeq
<1>5. \A i \in 1..n : IsRow(f[i])
  BY <1>1 DEF IsRow
<1> HIDE DEF f
<1> QED BY <1>2, <1>4, <1>5 DEF AllRows

\* Numbers of which one is left out.
Skips(numbers, k, n) ==
  IsSeq(numbers) /\ Len(numbers) = n /\ \A i \in 1..n : numbers[i] # k

LEMMA BothSkip ==
  ASSUME NEW s, NEW t, NEW p, NEW m \in Nat, NEW n \in Nat, NEW k, k = m + n,
         Skips(s, p, m), Skips(t, p, n)
  PROVE  Skips(s \o t, p, k)
BY ConcatAt DEF Skips

LEMMA RunSkips ==
  ASSUME NEW a \in Nat, NEW b \in Nat, a <= b, NEW p \in Nat, p < a \/ b < p, NEW k, k = b - a + 1
  PROVE  Skips(FromTo(a, b), p, k)
<1>1. ASSUME NEW i \in 1..k PROVE FromTo(a, b)[i] # p
  <2>1. FromTo(a, b)[i] \in a..b
    BY FromToIsSeq
  <2> QED BY <2>1
<1> QED BY <1>1, FromToIsSeq DEF Skips

LEMMA OneSkips ==
  ASSUME NEW a \in Nat, NEW p \in Nat, a # p
  PROVE  Skips(<<a>>, p, 1)
<1>1. <<a>> \in Seq({a}) /\ Len(<<a>>) = 1 /\ \A i \in 1..1 : <<a>>[i] # p
  OBVIOUS
<1>2. IsSeq(<<a>>)
  BY <1>1 DEF IsSeq
<1> QED BY <1>1, <1>2 DEF Skips

\* The three families that are spread over two lessons.
LEMMA SplitFamilies ==
  /\ AtHome(Of("MOD", FromTo(2, 4) \o FromTo(6, 22) \o <<27>>), "MODULE-BOUNDARIES", 21)
  /\ AtHome(Of("RESOURCE", FromTo(0, 5) \o <<7>>), "GENERIC-RESOURCES", 7)
  /\ AtHome(Of("SYNC", FromTo(1, 5) \o FromTo(7, 10)), "SYNCHRONIZATION", 9)
<1>1. Skips(FromTo(2, 4) \o FromTo(6, 22) \o <<27>>, 28, 21)
  <2>1. Skips(FromTo(2, 4), 28, 3)
    BY RunSkips
  <2>2. Skips(FromTo(6, 22), 28, 17)
    BY RunSkips
  <2>3. Skips(FromTo(2, 4) \o FromTo(6, 22), 28, 20)
    BY <2>1, <2>2, BothSkip
  <2>4. Skips(<<27>>, 28, 1)
    BY OneSkips
  <2> QED BY <2>3, <2>4, BothSkip
<1>2. Skips(FromTo(0, 5) \o <<7>>, 6, 7)
  <2>1. Skips(FromTo(0, 5), 6, 6)
    BY RunSkips
  <2>2. Skips(<<7>>, 6, 1)
    BY OneSkips
  <2> QED BY <2>1, <2>2, BothSkip
<1>3. Skips(FromTo(1, 5) \o FromTo(7, 10), 6, 9)
  <2>1. Skips(FromTo(1, 5), 6, 5)
    BY RunSkips
  <2>2. Skips(FromTo(7, 10), 6, 4)
    BY RunSkips
  <2> QED BY <2>1, <2>2, BothSkip
<1>4. \A n : n # 28 => Home(<<"MOD", n>>) = "MODULE-BOUNDARIES"
  BY DEF Home
<1>5. \A n : n # 6 => Home(<<"RESOURCE", n>>) = "GENERIC-RESOURCES"
  BY DEF Home
<1>6. \A n : n # 6 => Home(<<"SYNC", n>>) = "SYNCHRONIZATION"
  BY DEF Home
<1>7. AtHome(Of("MOD", FromTo(2, 4) \o FromTo(6, 22) \o <<27>>), "MODULE-BOUNDARIES", 21)
  BY <1>1, <1>4, FamilyAtHome DEF Skips
<1>8. AtHome(Of("RESOURCE", FromTo(0, 5) \o <<7>>), "GENERIC-RESOURCES", 7)
  BY <1>2, <1>5, FamilyAtHome DEF Skips
<1>9. AtHome(Of("SYNC", FromTo(1, 5) \o FromTo(7, 10)), "SYNCHRONIZATION", 9)
  BY <1>3, <1>6, FamilyAtHome DEF Skips
<1> QED BY <1>7, <1>8, <1>9

\* The families that are all in one lesson.
LEMMA WholeFamilies ==
  /\ IsWhole("WRAP", "WRAPPER-BOUNDARIES")
  /\ IsWhole("ERR", "ERROR-CONTRACTS")
  /\ IsWhole("ALLOC", "GENERIC-RESOURCES")
  /\ IsWhole("FD", "GENERIC-RESOURCES")
  /\ IsWhole("TRACE", "TRACE-INTEGRITY")
  /\ IsWhole("SAN", "SANITIZERS")
  /\ IsWhole("MUTATION", "MUTATION-STRENGTH")
  /\ IsWhole("API", "API-COMPATIBILITY")
  /\ IsWhole("EXPECT", "POLICY-EXPECTATIONS")
  /\ IsWhole("POLICY-RESOURCE", "POLICY-EXPECTATIONS")
  /\ IsWhole("POLICY-SYNC", "POLICY-EXPECTATIONS")
  /\ IsWhole("POLICY-SECURE", "POLICY-EXPECTATIONS")
  /\ IsWhole("TEST-CONFORMANCE", "TEST-EVIDENCE")
  /\ IsWhole("TEST-RECEIPT", "TEST-EVIDENCE")
BY DEF IsWhole, Home

\* The table.
LEMMA CatalogIsSound == AllRows(rules, P101_TOOL_FINDING_COUNT)
<1> DEFINE ids1 == Of("WRAP", <<1, 2, 3, 4, 900>>)
           ids2 == Of("ERR", FromTo(1, 12))
           ids3 == Of("MOD", FromTo(2, 4) \o FromTo(6, 22) \o <<27>>)
           ids4 == Of("ALLOC", FromTo(1, 4)) \o Of("FD", FromTo(1, 4)) \o Of("RESOURCE", FromTo(0, 5) \o <<7>>) \o Of("PROC", <<1>>)
           ids5 == Of("SYNC", FromTo(1, 5) \o FromTo(7, 10))
           ids6 == Of("TRACE", FromTo(1, 3))
           ids7 == Of("SAN", FromTo(1, 4))
           ids8 == Of("MUTATION", <<1>>)
           ids9 == Of("API", FromTo(1, 9))
           ids10 == Of("EXPECT", <<1>>) \o Of("POLICY-RESOURCE", FromTo(1, 3)) \o Of("POLICY-SYNC", <<1>>) \o Of("POLICY-SECURE", FromTo(1, 4))
           ids11 == Of("TEST-CONFORMANCE", <<1, 2>>) \o Of("TEST-RECEIPT", <<1>>)
           ids12 == << <<"TEST-DETERMINISM", 1>>, <<"DATA", 1>>, <<"RESOURCE", 6>>, <<"TIME", 1>>, <<"TEST-RECOVERY", 1>>, <<"SCHEMA", 1>>, <<"TEST-SIDE-EFFECT", 1>> >>
           ids13 == << <<"IO", 1>>, <<"RETRY", 1>>, <<"SYNC", 6>>, <<"PROC", 2>> >>
           ids14 == << <<"THREAD", 1>>, <<"SIGNAL", 1>>, <<"SIGNAL", 2>>, <<"ENV", 1>>, <<"FILE", 1>>, <<"MEM", 1>>, <<"MEM", 2>>, <<"MOD", 28>> >>
<1>1. AtHome(ids1, "WRAPPER-BOUNDARIES", 5)
  <2> DEFINE numbers == <<1, 2, 3, 4, 900>>
  <2>1. numbers \in Seq(Nat) /\ Len(numbers) = 5 /\ 5 \in Nat
    OBVIOUS
  <2> HIDE DEF numbers
  <2>2. IsSeq(numbers)
    BY <2>1 DEF IsSeq
  <2>3. IsWhole("WRAP", "WRAPPER-BOUNDARIES")
    BY WholeFamilies
  <2>4. AtHome(Of("WRAP", numbers), "WRAPPER-BOUNDARIES", 5)
    BY <2>1, <2>2, <2>3, ListAtHome
  <2> QED BY <2>4 DEF numbers
<1>2. AtHome(ids2, "ERROR-CONTRACTS", 12)
  <2>1. IsWhole("ERR", "ERROR-CONTRACTS")
    BY WholeFamilies
  <2>2. 1 \in Nat /\ 12 \in Nat /\ 1 <= 12 /\ 12 = 12 - 1 + 1
    OBVIOUS
  <2> QED BY <2>1, <2>2, RunAtHome, Zenon
<1>3. AtHome(ids3, "MODULE-BOUNDARIES", 21)
  BY SplitFamilies
<1>4. AtHome(ids4, "GENERIC-RESOURCES", 16)
  <2>1. AtHome(Of("ALLOC", FromTo(1, 4)), "GENERIC-RESOURCES", 4)
    <3>1. IsWhole("ALLOC", "GENERIC-RESOURCES")
      BY WholeFamilies
    <3>2. 1 \in Nat /\ 4 \in Nat /\ 1 <= 4 /\ 4 = 4 - 1 + 1
      OBVIOUS
    <3> QED BY <3>1, <3>2, RunAtHome, Zenon
  <2>2. AtHome(Of("FD", FromTo(1, 4)), "GENERIC-RESOURCES", 4)
    <3>1. IsWhole("FD", "GENERIC-RESOURCES")
      BY WholeFamilies
    <3>2. 1 \in Nat /\ 4 \in Nat /\ 1 <= 4 /\ 4 = 4 - 1 + 1
      OBVIOUS
    <3> QED BY <3>1, <3>2, RunAtHome, Zenon
  <2>3. AtHome(Of("RESOURCE", FromTo(0, 5) \o <<7>>), "GENERIC-RESOURCES", 7)
    BY SplitFamilies
  <2>4. AtHome(Of("PROC", <<1>>), "GENERIC-RESOURCES", 1)
    <3>1. Home(<<"PROC", 1>>) = "GENERIC-RESOURCES"
      BY DEF Home
    <3> QED BY <3>1, OneAtHome
  <2>5. AtHome(Of("ALLOC", FromTo(1, 4)) \o Of("FD", FromTo(1, 4)), "GENERIC-RESOURCES", 8)
    BY <2>1, <2>2, BothAtHome
  <2>6. AtHome(Of("ALLOC", FromTo(1, 4)) \o Of("FD", FromTo(1, 4)) \o Of("RESOURCE", FromTo(0, 5) \o <<7>>), "GENERIC-RESOURCES", 15)
    BY <2>5, <2>3, BothAtHome
  <2> QED BY <2>6, <2>4, BothAtHome
<1>5. AtHome(ids5, "SYNCHRONIZATION", 9)
  BY SplitFamilies
<1>6. AtHome(ids6, "TRACE-INTEGRITY", 3)
  <2>1. IsWhole("TRACE", "TRACE-INTEGRITY")
    BY WholeFamilies
  <2>2. 1 \in Nat /\ 3 \in Nat /\ 1 <= 3 /\ 3 = 3 - 1 + 1
    OBVIOUS
  <2> QED BY <2>1, <2>2, RunAtHome, Zenon
<1>7. AtHome(ids7, "SANITIZERS", 4)
  <2>1. IsWhole("SAN", "SANITIZERS")
    BY WholeFamilies
  <2>2. 1 \in Nat /\ 4 \in Nat /\ 1 <= 4 /\ 4 = 4 - 1 + 1
    OBVIOUS
  <2> QED BY <2>1, <2>2, RunAtHome, Zenon
<1>8. AtHome(ids8, "MUTATION-STRENGTH", 1)
  <2>1. Home(<<"MUTATION", 1>>) = "MUTATION-STRENGTH"
    BY DEF Home
  <2> QED BY <2>1, OneAtHome
<1>9. AtHome(ids9, "API-COMPATIBILITY", 9)
  <2>1. IsWhole("API", "API-COMPATIBILITY")
    BY WholeFamilies
  <2>2. 1 \in Nat /\ 9 \in Nat /\ 1 <= 9 /\ 9 = 9 - 1 + 1
    OBVIOUS
  <2> QED BY <2>1, <2>2, RunAtHome, Zenon
<1>10. AtHome(ids10, "POLICY-EXPECTATIONS", 9)
  <2>1. AtHome(Of("EXPECT", <<1>>), "POLICY-EXPECTATIONS", 1)
    <3>1. Home(<<"EXPECT", 1>>) = "POLICY-EXPECTATIONS"
      BY DEF Home
    <3> QED BY <3>1, OneAtHome
  <2>2. AtHome(Of("POLICY-RESOURCE", FromTo(1, 3)), "POLICY-EXPECTATIONS", 3)
    <3>1. IsWhole("POLICY-RESOURCE", "POLICY-EXPECTATIONS")
      BY WholeFamilies
    <3>2. 1 \in Nat /\ 3 \in Nat /\ 1 <= 3 /\ 3 = 3 - 1 + 1
      OBVIOUS
    <3> QED BY <3>1, <3>2, RunAtHome, Zenon
  <2>3. AtHome(Of("POLICY-SYNC", <<1>>), "POLICY-EXPECTATIONS", 1)
    <3>1. Home(<<"POLICY-SYNC", 1>>) = "POLICY-EXPECTATIONS"
      BY DEF Home
    <3> QED BY <3>1, OneAtHome
  <2>4. AtHome(Of("POLICY-SECURE", FromTo(1, 4)), "POLICY-EXPECTATIONS", 4)
    <3>1. IsWhole("POLICY-SECURE", "POLICY-EXPECTATIONS")
      BY WholeFamilies
    <3>2. 1 \in Nat /\ 4 \in Nat /\ 1 <= 4 /\ 4 = 4 - 1 + 1
      OBVIOUS
    <3> QED BY <3>1, <3>2, RunAtHome, Zenon
  <2>5. AtHome(Of("EXPECT", <<1>>) \o Of("POLICY-RESOURCE", FromTo(1, 3)), "POLICY-EXPECTATIONS", 4)
    BY <2>1, <2>2, BothAtHome
  <2>6. AtHome(Of("EXPECT", <<1>>) \o Of("POLICY-RESOURCE", FromTo(1, 3)) \o Of("POLICY-SYNC", <<1>>), "POLICY-EXPECTATIONS", 5)
    BY <2>5, <2>3, BothAtHome
  <2> QED BY <2>6, <2>4, BothAtHome
<1>11. AtHome(ids11, "TEST-EVIDENCE", 3)
  <2>1. AtHome(Of("TEST-CONFORMANCE", <<1, 2>>), "TEST-EVIDENCE", 2)
    <3> DEFINE numbers == <<1, 2>>
    <3>1. numbers \in Seq(Nat) /\ Len(numbers) = 2 /\ 2 \in Nat
      OBVIOUS
    <3> HIDE DEF numbers
    <3>2. IsSeq(numbers)
      BY <3>1 DEF IsSeq
    <3>3. IsWhole("TEST-CONFORMANCE", "TEST-EVIDENCE")
      BY WholeFamilies
    <3>4. AtHome(Of("TEST-CONFORMANCE", numbers), "TEST-EVIDENCE", 2)
      BY <3>1, <3>2, <3>3, ListAtHome
    <3> QED BY <3>4 DEF numbers
  <2>2. AtHome(Of("TEST-RECEIPT", <<1>>), "TEST-EVIDENCE", 1)
    <3>1. Home(<<"TEST-RECEIPT", 1>>) = "TEST-EVIDENCE"
      BY DEF Home
    <3> QED BY <3>1, OneAtHome
  <2> QED BY <2>1, <2>2, BothAtHome
<1>12. AtHome(ids12, "COMMAND-CONTRACTS", 7)
  <2> DEFINE S == {<<"TEST-DETERMINISM", 1>>, <<"DATA", 1>>, <<"RESOURCE", 6>>, <<"TIME", 1>>, <<"TEST-RECOVERY", 1>>, <<"SCHEMA", 1>>, <<"TEST-SIDE-EFFECT", 1>>}
  <2>1. << <<"TEST-DETERMINISM", 1>>, <<"DATA", 1>>, <<"RESOURCE", 6>>, <<"TIME", 1>>, <<"TEST-RECOVERY", 1>>, <<"SCHEMA", 1>>, <<"TEST-SIDE-EFFECT", 1>> >> \in Seq(S) /\ Len(<< <<"TEST-DETERMINISM", 1>>, <<"DATA", 1>>, <<"RESOURCE", 6>>, <<"TIME", 1>>, <<"TEST-RECOVERY", 1>>, <<"SCHEMA", 1>>, <<"TEST-SIDE-EFFECT", 1>> >>) = 7
    OBVIOUS
  <2>2. \A id \in S : Home(id) = "COMMAND-CONTRACTS"
    BY DEF Home
  <2> HIDE DEF S
  <2> QED BY <2>1, <2>2, ElementOfSeq DEF AtHome, IsSeq
<1>13. AtHome(ids13, "OPERATIONAL-SEMANTICS", 4)
  <2> DEFINE S == {<<"IO", 1>>, <<"RETRY", 1>>, <<"SYNC", 6>>, <<"PROC", 2>>}
  <2>1. << <<"IO", 1>>, <<"RETRY", 1>>, <<"SYNC", 6>>, <<"PROC", 2>> >> \in Seq(S) /\ Len(<< <<"IO", 1>>, <<"RETRY", 1>>, <<"SYNC", 6>>, <<"PROC", 2>> >>) = 4
    OBVIOUS
  <2>2. \A id \in S : Home(id) = "OPERATIONAL-SEMANTICS"
    BY DEF Home
  <2> HIDE DEF S
  <2> QED BY <2>1, <2>2, ElementOfSeq DEF AtHome, IsSeq
<1>14. AtHome(ids14, "SECURE-SEMANTICS", 8)
  <2> DEFINE S == {<<"THREAD", 1>>, <<"SIGNAL", 1>>, <<"SIGNAL", 2>>, <<"ENV", 1>>, <<"FILE", 1>>, <<"MEM", 1>>, <<"MEM", 2>>, <<"MOD", 28>>}
  <2>1. << <<"THREAD", 1>>, <<"SIGNAL", 1>>, <<"SIGNAL", 2>>, <<"ENV", 1>>, <<"FILE", 1>>, <<"MEM", 1>>, <<"MEM", 2>>, <<"MOD", 28>> >> \in Seq(S) /\ Len(<< <<"THREAD", 1>>, <<"SIGNAL", 1>>, <<"SIGNAL", 2>>, <<"ENV", 1>>, <<"FILE", 1>>, <<"MEM", 1>>, <<"MEM", 2>>, <<"MOD", 28>> >>) = 8
    OBVIOUS
  <2>2. \A id \in S : Home(id) = "SECURE-SEMANTICS"
    BY DEF Home
  <2> HIDE DEF S
  <2> QED BY <2>1, <2>2, ElementOfSeq DEF AtHome, IsSeq
<1> HIDE DEF ids1, ids2, ids3, ids4, ids5, ids6, ids7, ids8, ids9, ids10, ids11, ids12, ids13, ids14
<1> DEFINE rows1 == Rows("WRAPPER-BOUNDARIES", ids1)
           rows2 == Rows("ERROR-CONTRACTS", ids2)
           rows3 == Rows("MODULE-BOUNDARIES", ids3)
           rows4 == Rows("GENERIC-RESOURCES", ids4)
           rows5 == Rows("SYNCHRONIZATION", ids5)
           rows6 == Rows("TRACE-INTEGRITY", ids6)
           rows7 == Rows("SANITIZERS", ids7)
           rows8 == Rows("MUTATION-STRENGTH", ids8)
           rows9 == Rows("API-COMPATIBILITY", ids9)
           rows10 == Rows("POLICY-EXPECTATIONS", ids10)
           rows11 == Rows("TEST-EVIDENCE", ids11)
           rows12 == Rows("COMMAND-CONTRACTS", ids12)
           rows13 == Rows("OPERATIONAL-SEMANTICS", ids13)
           rows14 == Rows("SECURE-SEMANTICS", ids14)
<1>15. /\ AllRows(rows1, 5)
      /\ AllRows(rows2, 12)
      /\ AllRows(rows3, 21)
      /\ AllRows(rows4, 16)
      /\ AllRows(rows5, 9)
      /\ AllRows(rows6, 3)
      /\ AllRows(rows7, 4)
      /\ AllRows(rows8, 1)
      /\ AllRows(rows9, 9)
      /\ AllRows(rows10, 9)
      /\ AllRows(rows11, 3)
      /\ AllRows(rows12, 7)
      /\ AllRows(rows13, 4)
      /\ AllRows(rows14, 8)
  BY <1>1, <1>2, <1>3, <1>4, <1>5, <1>6, <1>7, <1>8, <1>9, <1>10, <1>11, <1>12, <1>13, <1>14, RowsAtHome
<1> HIDE DEF rows1, rows2, rows3, rows4, rows5, rows6, rows7, rows8, rows9, rows10, rows11, rows12, rows13, rows14
<1>16. AllRows(rows1 \o rows2, 17)
  BY <1>15, <1>15, BothRows
<1>17. AllRows(rows1 \o rows2 \o rows3, 38)
  BY <1>15, <1>16, BothRows
<1>18. AllRows(rows1 \o rows2 \o rows3 \o rows4, 54)
  BY <1>15, <1>17, BothRows
<1>19. AllRows(rows1 \o rows2 \o rows3 \o rows4 \o rows5, 63)
  BY <1>15, <1>18, BothRows
<1>20. AllRows(rows1 \o rows2 \o rows3 \o rows4 \o rows5 \o rows6, 66)
  BY <1>15, <1>19, BothRows
<1>21. AllRows(rows1 \o rows2 \o rows3 \o rows4 \o rows5 \o rows6 \o rows7, 70)
  BY <1>15, <1>20, BothRows
<1>22. AllRows(rows1 \o rows2 \o rows3 \o rows4 \o rows5 \o rows6 \o rows7 \o rows8, 71)
  BY <1>15, <1>21, BothRows
<1>23. AllRows(rows1 \o rows2 \o rows3 \o rows4 \o rows5 \o rows6 \o rows7 \o rows8 \o rows9, 80)
  BY <1>15, <1>22, BothRows
<1>24. AllRows(rows1 \o rows2 \o rows3 \o rows4 \o rows5 \o rows6 \o rows7 \o rows8 \o rows9 \o rows10, 89)
  BY <1>15, <1>23, BothRows
<1>25. AllRows(rows1 \o rows2 \o rows3 \o rows4 \o rows5 \o rows6 \o rows7 \o rows8 \o rows9 \o rows10 \o rows11, 92)
  BY <1>15, <1>24, BothRows
<1>26. AllRows(rows1 \o rows2 \o rows3 \o rows4 \o rows5 \o rows6 \o rows7 \o rows8 \o rows9 \o rows10 \o rows11 \o rows12, 99)
  BY <1>15, <1>25, BothRows
<1>27. AllRows(rows1 \o rows2 \o rows3 \o rows4 \o rows5 \o rows6 \o rows7 \o rows8 \o rows9 \o rows10 \o rows11 \o rows12 \o rows13, 103)
  BY <1>15, <1>26, BothRows
<1>28. AllRows(rows1 \o rows2 \o rows3 \o rows4 \o rows5 \o rows6 \o rows7 \o rows8 \o rows9 \o rows10 \o rows11 \o rows12 \o rows13 \o rows14, 111)
  BY <1>15, <1>27, BothRows
<1> QED BY <1>28 DEF rules, P101_TOOL_FINDING_COUNT, rows1, rows2, rows3, rows4, rows5, rows6, rows7, rows8, rows9, rows10, rows11, rows12, rows13, rows14, ids1, ids2, ids3, ids4, ids5, ids6, ids7, ids8, ids9, ids10, ids11, ids12, ids13, ids14

-----------------------------------------------------------------------------
(* The enumeration: each finding has a place of its own, which is that of  *)
(* its row in the table.                                                   *)

Place(id) ==
  LET f == id[1]
      n == id[2]
  IN  CASE f = "WRAP" -> IF n = 900 THEN 5 ELSE n
        [] f = "ERR" -> 5 + n
        [] f = "MOD" -> IF n = 28 THEN 111 ELSE IF n = 27 THEN 38
          ELSE IF n <= 4 THEN 16 + n ELSE 15 + n
        [] f = "ALLOC" -> 38 + n
        [] f = "FD" -> 42 + n
        [] f = "RESOURCE" -> IF n = 6 THEN 95 ELSE IF n = 7 THEN 53 ELSE 47 + n
        [] f = "PROC" -> IF n = 1 THEN 54 ELSE 103
        [] f = "SYNC" -> IF n = 6 THEN 102 ELSE IF n <= 5 THEN 54 + n ELSE 53 + n
        [] f = "TRACE" -> 63 + n
        [] f = "SAN" -> 66 + n
        [] f = "MUTATION" -> 71
        [] f = "API" -> 71 + n
        [] f = "EXPECT" -> 81
        [] f = "POLICY-RESOURCE" -> 81 + n
        [] f = "POLICY-SYNC" -> 85
        [] f = "POLICY-SECURE" -> 85 + n
        [] f = "TEST-CONFORMANCE" -> 89 + n
        [] f = "TEST-RECEIPT" -> 92
        [] f = "TEST-DETERMINISM" -> 93
        [] f = "DATA" -> 94
        [] f = "TIME" -> 96
        [] f = "TEST-RECOVERY" -> 97
        [] f = "SCHEMA" -> 98
        [] f = "TEST-SIDE-EFFECT" -> 99
        [] f = "IO" -> 100
        [] f = "RETRY" -> 101
        [] f = "THREAD" -> 104
        [] f = "SIGNAL" -> 104 + n
        [] f = "ENV" -> 107
        [] f = "FILE" -> 108
        [] f = "MEM" -> 108 + n

LEMMA PlaceOfFamily ==
  /\ \A n : Place(<<"WRAP", n>>) = (IF n = 900 THEN 5 ELSE n)
  /\ \A n : Place(<<"ERR", n>>) = (5 + n)
  /\ \A n : Place(<<"MOD", n>>) = (IF n = 28 THEN 111 ELSE IF n = 27 THEN 38
       ELSE IF n <= 4 THEN 16 + n ELSE 15 + n)
  /\ \A n : Place(<<"ALLOC", n>>) = (38 + n)
  /\ \A n : Place(<<"FD", n>>) = (42 + n)
  /\ \A n : Place(<<"RESOURCE", n>>) = (IF n = 6 THEN 95 ELSE IF n = 7 THEN 53 ELSE 47 + n)
  /\ \A n : Place(<<"PROC", n>>) = (IF n = 1 THEN 54 ELSE 103)
  /\ \A n : Place(<<"SYNC", n>>) = (IF n = 6 THEN 102 ELSE IF n <= 5 THEN 54 + n ELSE 53 + n)
  /\ \A n : Place(<<"TRACE", n>>) = (63 + n)
  /\ \A n : Place(<<"SAN", n>>) = (66 + n)
  /\ \A n : Place(<<"MUTATION", n>>) = (71)
  /\ \A n : Place(<<"API", n>>) = (71 + n)
  /\ \A n : Place(<<"EXPECT", n>>) = (81)
  /\ \A n : Place(<<"POLICY-RESOURCE", n>>) = (81 + n)
  /\ \A n : Place(<<"POLICY-SYNC", n>>) = (85)
  /\ \A n : Place(<<"POLICY-SECURE", n>>) = (85 + n)
  /\ \A n : Place(<<"TEST-CONFORMANCE", n>>) = (89 + n)
  /\ \A n : Place(<<"TEST-RECEIPT", n>>) = (92)
  /\ \A n : Place(<<"TEST-DETERMINISM", n>>) = (93)
  /\ \A n : Place(<<"DATA", n>>) = (94)
  /\ \A n : Place(<<"TIME", n>>) = (96)
  /\ \A n : Place(<<"TEST-RECOVERY", n>>) = (97)
  /\ \A n : Place(<<"SCHEMA", n>>) = (98)
  /\ \A n : Place(<<"TEST-SIDE-EFFECT", n>>) = (99)
  /\ \A n : Place(<<"IO", n>>) = (100)
  /\ \A n : Place(<<"RETRY", n>>) = (101)
  /\ \A n : Place(<<"THREAD", n>>) = (104)
  /\ \A n : Place(<<"SIGNAL", n>>) = (104 + n)
  /\ \A n : Place(<<"ENV", n>>) = (107)
  /\ \A n : Place(<<"FILE", n>>) = (108)
  /\ \A n : Place(<<"MEM", n>>) = (108 + n)
BY DEF Place

\* The numbers of a family that are at the places behind k.
NumbersPlaced(family, numbers, k, n) ==
  IsSeq(numbers) /\ Len(numbers) = n /\ \A i \in 1..n : Place(<<family, numbers[i]>>) = k + i

\* The findings that are at those places.
Placed(ids, k, n) == IsSeq(ids) /\ Len(ids) = n /\ \A i \in 1..n : Place(ids[i]) = k + i

LEMMA BothNumbersPlaced ==
  ASSUME NEW family, NEW s, NEW t, NEW j \in Nat, NEW k \in Nat, NEW m \in Nat, NEW n \in Nat,
         NEW l, k = j + m, l = m + n,
         NumbersPlaced(family, s, j, m), NumbersPlaced(family, t, k, n)
  PROVE  NumbersPlaced(family, s \o t, j, l)
<1>1. /\ IsSeq(s \o t) /\ Len(s \o t) = l
      /\ \A i \in 1..m : (s \o t)[i] = s[i]
      /\ \A i \in (m + 1)..(m + n) : (s \o t)[i] = t[i - m]
  BY ConcatAt DEF NumbersPlaced
<1>2. ASSUME NEW i \in 1..l PROVE Place(<<family, (s \o t)[i]>>) = j + i
  <2>1. CASE i \in 1..m
    BY <1>1, <2>1 DEF NumbersPlaced
  <2>2. CASE i \in (m + 1)..(m + n)
    <3>1. i - m \in 1..n /\ (s \o t)[i] = t[i - m] /\ k + (i - m) = j + i
      BY <1>1, <2>2
    <3> QED BY <3>1 DEF NumbersPlaced
  <2>3. i \in 1..m \/ i \in (m + 1)..(m + n)
    OBVIOUS
  <2> QED BY <2>1, <2>2, <2>3
<1> QED BY <1>1, <1>2 DEF NumbersPlaced

LEMMA BothPlaced ==
  ASSUME NEW s, NEW t, NEW j \in Nat, NEW k \in Nat, NEW m \in Nat, NEW n \in Nat,
         NEW l, k = j + m, l = m + n, Placed(s, j, m), Placed(t, k, n)
  PROVE  Placed(s \o t, j, l)
<1>1. /\ IsSeq(s \o t) /\ Len(s \o t) = l
      /\ \A i \in 1..m : (s \o t)[i] = s[i]
      /\ \A i \in (m + 1)..(m + n) : (s \o t)[i] = t[i - m]
  BY ConcatAt DEF Placed
<1>2. ASSUME NEW i \in 1..l PROVE Place((s \o t)[i]) = j + i
  <2>1. CASE i \in 1..m
    BY <1>1, <2>1 DEF Placed
  <2>2. CASE i \in (m + 1)..(m + n)
    <3>1. i - m \in 1..n /\ (s \o t)[i] = t[i - m] /\ k + (i - m) = j + i
      BY <1>1, <2>2
    <3> QED BY <3>1 DEF Placed
  <2>3. i \in 1..m \/ i \in (m + 1)..(m + n)
    OBVIOUS
  <2> QED BY <2>1, <2>2, <2>3
<1> QED BY <1>1, <1>2 DEF Placed

LEMMA FamilyPlaced ==
  ASSUME NEW family, NEW numbers, NEW k, NEW n \in Nat, NumbersPlaced(family, numbers, k, n)
  PROVE  Placed(Of(family, numbers), k, n)
<1> DEFINE f == [i \in 1..n |-> <<family, numbers[i]>>]
           S == {<<family, numbers[i]>> : i \in 1..n}
<1>1. DOMAIN numbers = 1..n
  BY DEF NumbersPlaced, IsSeq
<1>2. Of(family, numbers) = f
  BY <1>1 DEF Of
<1>3. f \in [1..n -> S]
  OBVIOUS
<1>4. IsSeq(f) /\ Len(f) = n
  <2> HIDE DEF f, S
  <2> QED BY <1>3, FunctionIsSeq
<1>5. \A i \in 1..n : Place(f[i]) = k + i
  BY DEF NumbersPlaced
<1> HIDE DEF f
<1> QED BY <1>2, <1>4, <1>5 DEF Placed

\* A run of a family.
LEMMA RunPlaced ==
  ASSUME NEW family, NEW a \in Nat, NEW b \in Nat, a <= b, NEW k \in Nat, NEW n, n = b - a + 1,
         \A m \in a..b : Place(<<family, m>>) = k + (m - a) + 1
  PROVE  NumbersPlaced(family, FromTo(a, b), k, n)
<1>1. IsSeq(FromTo(a, b)) /\ Len(FromTo(a, b)) = n /\ n \in Nat
  BY FromToIsSeq
<1>2. ASSUME NEW i \in 1..n PROVE Place(<<family, FromTo(a, b)[i]>>) = k + i
  <2>1. FromTo(a, b)[i] = a + i - 1
    BY DEF FromTo
  <2>2. a + i - 1 \in a..b /\ k + ((a + i - 1) - a) + 1 = k + i
    BY <1>1
  <2> QED BY <2>1, <2>2
<1> QED BY <1>1, <1>2 DEF NumbersPlaced

\* One number of a family.
LEMMA OnePlaced ==
  ASSUME NEW family, NEW a, NEW k, Place(<<family, a>>) = k + 1
  PROVE  NumbersPlaced(family, <<a>>, k, 1)
<1>1. <<a>> \in Seq({a}) /\ Len(<<a>>) = 1 /\ \A i \in 1..1 : <<a>>[i] = a /\ i = 1
  OBVIOUS
<1>2. IsSeq(<<a>>)
  BY <1>1 DEF IsSeq
<1> HIDE DEF IsSeq
<1>3. \A i \in 1..1 : Place(<<family, <<a>>[i]>>) = k + i
  BY <1>1
<1> QED BY <1>1, <1>2, <1>3 DEF NumbersPlaced

\* Rows and findings, one for one, at the places behind k.
Agree(rows, ids, k, n) ==
  IsSeq(rows) /\ Len(rows) = n /\ Placed(ids, k, n) /\ \A i \in 1..n : rows[i].id = ids[i]

LEMMA RowsAgree ==
  ASSUME NEW lesson, NEW ids, NEW k, NEW n \in Nat, Placed(ids, k, n)
  PROVE  Agree(Rows(lesson, ids), ids, k, n)
<1> DEFINE row(i) == [ id |-> ids[i], lesson_id |-> lesson, lesson_path |-> lesson,
                       lesson_url |-> <<lesson, ids[i]>> ]
           f == [i \in 1..n |-> row(i)]
           S == {row(i) : i \in 1..n}
<1>1. DOMAIN ids = 1..n
  BY DEF Placed, IsSeq
<1>2. Rows(lesson, ids) = f
  BY <1>1 DEF Rows
<1>3. f \in [1..n -> S]
  OBVIOUS
<1>4. IsSeq(f) /\ Len(f) = n
  <2> HIDE DEF f, S
  <2> QED BY <1>3, FunctionIsSeq
<1>5. \A i \in 1..n : f[i].id = ids[i]
  OBVIOUS
<1> HIDE DEF f
<1> QED BY <1>2, <1>4, <1>5 DEF Agree

LEMMA BothAgree ==
  ASSUME NEW q, NEW r, NEW s, NEW t, NEW k \in Nat, NEW n \in Nat, NEW l, l = k + n,
         Agree(q, s, 0, k), Agree(r, t, k, n)
  PROVE  Agree(q \o r, s \o t, 0, l)
<1>1. Placed(s \o t, 0, l)
  <2>1. 0 \in Nat /\ k = 0 + k
    OBVIOUS
  <2> QED BY <2>1, BothPlaced DEF Agree
<1>2. /\ IsSeq(q \o r) /\ Len(q \o r) = l
      /\ \A i \in 1..k : (q \o r)[i] = q[i]
      /\ \A i \in (k + 1)..(k + n) : (q \o r)[i] = r[i - k]
  <2>1. IsSeq(q) /\ IsSeq(r) /\ Len(q) = k /\ Len(r) = n
    BY DEF Agree
  <2> QED BY <2>1, ConcatAt
<1>3. /\ \A i \in 1..k : (s \o t)[i] = s[i]
      /\ \A i \in (k + 1)..(k + n) : (s \o t)[i] = t[i - k]
  BY ConcatAt DEF Agree, Placed
<1>4. ASSUME NEW i \in 1..l PROVE (q \o r)[i].id = (s \o t)[i]
  <2>1. CASE i \in 1..k
    BY <1>2, <1>3, <2>1 DEF Agree
  <2>2. CASE i \in (k + 1)..(k + n)
    <3>1. i - k \in 1..n
      BY <2>2
    <3> QED BY <1>2, <1>3, <2>2, <3>1 DEF Agree
  <2>3. i \in 1..k \/ i \in (k + 1)..(k + n)
    OBVIOUS
  <2> QED BY <2>1, <2>2, <2>3
<1> QED BY <1>1, <1>2, <1>4 DEF Agree

\* The table and the enumeration hold the same findings at the same places, lesson by
\* lesson: each is put together from its families, and each family from its runs.
LEMMA CatalogAgrees == Agree(rules, Enumeration, 0, P101_TOOL_FINDING_COUNT)
<1> DEFINE ids1 == Of("WRAP", <<1, 2, 3, 4, 900>>)
           ids2 == Of("ERR", FromTo(1, 12))
           ids3 == Of("MOD", FromTo(2, 4) \o FromTo(6, 22) \o <<27>>)
           ids4 == Of("ALLOC", FromTo(1, 4)) \o Of("FD", FromTo(1, 4))
             \o Of("RESOURCE", FromTo(0, 5) \o <<7>>) \o Of("PROC", <<1>>)
           ids5 == Of("SYNC", FromTo(1, 5) \o FromTo(7, 10))
           ids6 == Of("TRACE", FromTo(1, 3))
           ids7 == Of("SAN", FromTo(1, 4))
           ids8 == Of("MUTATION", <<1>>)
           ids9 == Of("API", FromTo(1, 9))
           ids10 == Of("EXPECT", <<1>>) \o Of("POLICY-RESOURCE", FromTo(1, 3))
             \o Of("POLICY-SYNC", <<1>>) \o Of("POLICY-SECURE", FromTo(1, 4))
           ids11 == Of("TEST-CONFORMANCE", <<1, 2>>) \o Of("TEST-RECEIPT", <<1>>)
           ids12 == << <<"TEST-DETERMINISM", 1>>, <<"DATA", 1>>, <<"RESOURCE", 6>>,
             <<"TIME", 1>>, <<"TEST-RECOVERY", 1>>, <<"SCHEMA", 1>>, <<"TEST-SIDE-EFFECT", 1>> >>
           ids13 == << <<"IO", 1>>, <<"RETRY", 1>>, <<"SYNC", 6>>, <<"PROC", 2>> >>
           ids14 == << <<"THREAD", 1>>, <<"SIGNAL", 1>>, <<"SIGNAL", 2>>, <<"ENV", 1>>,
             <<"FILE", 1>>, <<"MEM", 1>>, <<"MEM", 2>>, <<"MOD", 28>> >>
<1>1. Placed(ids1, 0, 5)
  <2>1. NumbersPlaced("WRAP", <<1, 2, 3, 4, 900>>, 0, 5)
    <3> DEFINE numbers == <<1, 2, 3, 4, 900>>
    <3>1. /\ numbers \in Seq(Nat)
          /\ Len(numbers) = 5
          /\ numbers[1] = 1
          /\ numbers[2] = 2
          /\ numbers[3] = 3
          /\ numbers[4] = 4
          /\ numbers[5] = 900
      OBVIOUS
    <3> HIDE DEF numbers
    <3>2. /\ Place(<<"WRAP", 1>>) = 1
          /\ Place(<<"WRAP", 2>>) = 2
          /\ Place(<<"WRAP", 3>>) = 3
          /\ Place(<<"WRAP", 4>>) = 4
          /\ Place(<<"WRAP", 900>>) = 5
      BY PlaceOfFamily
    <3>3. \A i \in 1..5 : i = 1 \/ i = 2 \/ i = 3 \/ i = 4 \/ i = 5
      OBVIOUS
    <3>4. \A i \in 1..5 : Place(<<"WRAP", numbers[i]>>) = 0 + i
      <4>1. /\ Place(<<"WRAP", numbers[1]>>) = 0 + 1
            /\ Place(<<"WRAP", numbers[2]>>) = 0 + 2
            /\ Place(<<"WRAP", numbers[3]>>) = 0 + 3
            /\ Place(<<"WRAP", numbers[4]>>) = 0 + 4
            /\ Place(<<"WRAP", numbers[5]>>) = 0 + 5
        BY <3>1, <3>2
      <4> QED BY <4>1, <3>3
    <3>5. IsSeq(numbers)
      BY <3>1 DEF IsSeq
    <3>6. NumbersPlaced("WRAP", numbers, 0, 5)
      BY <3>1, <3>4, <3>5 DEF NumbersPlaced
    <3> QED BY <3>6 DEF numbers
  <2>2. Placed(Of("WRAP", <<1, 2, 3, 4, 900>>), 0, 5)
    BY <2>1, FamilyPlaced
  <2> QED BY <2>2
<1>2. Placed(ids2, 5, 12)
  <2>1. NumbersPlaced("ERR", FromTo(1, 12), 5, 12)
    <3>1. \A m \in 1..12 : Place(<<"ERR", m>>) = 5 + (m - 1) + 1
      <4> DEFINE P(m) == Place(<<"ERR", m>>)
      <4>1. \A m : P(m) = (5 + m)
        BY PlaceOfFamily, Zenon
      <4> HIDE DEF P
      <4>2. \A m \in 1..12 : P(m) = 5 + (m - 1) + 1
        BY <4>1
      <4> QED BY <4>2 DEF P
    <3>2. 1 \in Nat /\ 12 \in Nat /\ 1 <= 12 /\ 5 \in Nat /\ 12 = 12 - 1 + 1
      OBVIOUS
    <3> QED BY <3>1, <3>2, RunPlaced, Zenon
  <2>2. Placed(Of("ERR", FromTo(1, 12)), 5, 12)
    BY <2>1, FamilyPlaced
  <2> QED BY <2>2
<1>3. Placed(ids3, 17, 21)
  <2>1. NumbersPlaced("MOD", FromTo(2, 4), 17, 3)
    <3>1. \A m \in 2..4 : Place(<<"MOD", m>>) = 17 + (m - 2) + 1
      <4> DEFINE P(m) == Place(<<"MOD", m>>)
      <4>1. \A m : P(m) = (IF m = 28 THEN 111 ELSE IF m = 27 THEN 38
              ELSE IF m <= 4 THEN 16 + m ELSE 15 + m)
        BY PlaceOfFamily, Zenon
      <4> HIDE DEF P
      <4>2. \A m \in 2..4 : P(m) = 17 + (m - 2) + 1
        BY <4>1
      <4> QED BY <4>2 DEF P
    <3>2. 2 \in Nat /\ 4 \in Nat /\ 2 <= 4 /\ 17 \in Nat /\ 3 = 4 - 2 + 1
      OBVIOUS
    <3> QED BY <3>1, <3>2, RunPlaced, Zenon
  <2>2. NumbersPlaced("MOD", FromTo(6, 22), 20, 17)
    <3>1. \A m \in 6..22 : Place(<<"MOD", m>>) = 20 + (m - 6) + 1
      <4> DEFINE P(m) == Place(<<"MOD", m>>)
      <4>1. \A m : P(m) = (IF m = 28 THEN 111 ELSE IF m = 27 THEN 38
              ELSE IF m <= 4 THEN 16 + m ELSE 15 + m)
        BY PlaceOfFamily, Zenon
      <4> HIDE DEF P
      <4>2. \A m \in 6..22 : P(m) = 20 + (m - 6) + 1
        BY <4>1
      <4> QED BY <4>2 DEF P
    <3>2. 6 \in Nat /\ 22 \in Nat /\ 6 <= 22 /\ 20 \in Nat /\ 17 = 22 - 6 + 1
      OBVIOUS
    <3> QED BY <3>1, <3>2, RunPlaced, Zenon
  <2>3. NumbersPlaced("MOD", FromTo(2, 4) \o FromTo(6, 22), 17, 20)
    BY <2>1, <2>2, BothNumbersPlaced
  <2>4. NumbersPlaced("MOD", <<27>>, 37, 1)
    <3>1. Place(<<"MOD", 27>>) = 37 + 1
      BY PlaceOfFamily
    <3> QED BY <3>1, OnePlaced
  <2>5. NumbersPlaced("MOD", FromTo(2, 4) \o FromTo(6, 22) \o <<27>>, 17, 21)
    BY <2>3, <2>4, BothNumbersPlaced
  <2>6. Placed(Of("MOD", FromTo(2, 4) \o FromTo(6, 22) \o <<27>>), 17, 21)
    BY <2>5, FamilyPlaced
  <2> QED BY <2>6
<1>4. Placed(ids4, 38, 16)
  <2>1. NumbersPlaced("ALLOC", FromTo(1, 4), 38, 4)
    <3>1. \A m \in 1..4 : Place(<<"ALLOC", m>>) = 38 + (m - 1) + 1
      <4> DEFINE P(m) == Place(<<"ALLOC", m>>)
      <4>1. \A m : P(m) = (38 + m)
        BY PlaceOfFamily, Zenon
      <4> HIDE DEF P
      <4>2. \A m \in 1..4 : P(m) = 38 + (m - 1) + 1
        BY <4>1
      <4> QED BY <4>2 DEF P
    <3>2. 1 \in Nat /\ 4 \in Nat /\ 1 <= 4 /\ 38 \in Nat /\ 4 = 4 - 1 + 1
      OBVIOUS
    <3> QED BY <3>1, <3>2, RunPlaced, Zenon
  <2>2. Placed(Of("ALLOC", FromTo(1, 4)), 38, 4)
    BY <2>1, FamilyPlaced
  <2>3. NumbersPlaced("FD", FromTo(1, 4), 42, 4)
    <3>1. \A m \in 1..4 : Place(<<"FD", m>>) = 42 + (m - 1) + 1
      <4> DEFINE P(m) == Place(<<"FD", m>>)
      <4>1. \A m : P(m) = (42 + m)
        BY PlaceOfFamily, Zenon
      <4> HIDE DEF P
      <4>2. \A m \in 1..4 : P(m) = 42 + (m - 1) + 1
        BY <4>1
      <4> QED BY <4>2 DEF P
    <3>2. 1 \in Nat /\ 4 \in Nat /\ 1 <= 4 /\ 42 \in Nat /\ 4 = 4 - 1 + 1
      OBVIOUS
    <3> QED BY <3>1, <3>2, RunPlaced, Zenon
  <2>4. Placed(Of("FD", FromTo(1, 4)), 42, 4)
    BY <2>3, FamilyPlaced
  <2>5. Placed(Of("ALLOC", FromTo(1, 4)) \o Of("FD", FromTo(1, 4)), 38, 8)
    BY <2>2, <2>4, BothPlaced
  <2>6. NumbersPlaced("RESOURCE", FromTo(0, 5), 46, 6)
    <3>1. \A m \in 0..5 : Place(<<"RESOURCE", m>>) = 46 + (m - 0) + 1
      <4> DEFINE P(m) == Place(<<"RESOURCE", m>>)
      <4>1. \A m : P(m) = (IF m = 6 THEN 95 ELSE IF m = 7 THEN 53 ELSE 47 + m)
        BY PlaceOfFamily, Zenon
      <4> HIDE DEF P
      <4>2. \A m \in 0..5 : P(m) = 46 + (m - 0) + 1
        BY <4>1
      <4> QED BY <4>2 DEF P
    <3>2. 0 \in Nat /\ 5 \in Nat /\ 0 <= 5 /\ 46 \in Nat /\ 6 = 5 - 0 + 1
      OBVIOUS
    <3> QED BY <3>1, <3>2, RunPlaced, Zenon
  <2>7. NumbersPlaced("RESOURCE", <<7>>, 52, 1)
    <3>1. Place(<<"RESOURCE", 7>>) = 52 + 1
      BY PlaceOfFamily
    <3> QED BY <3>1, OnePlaced
  <2>8. NumbersPlaced("RESOURCE", FromTo(0, 5) \o <<7>>, 46, 7)
    BY <2>6, <2>7, BothNumbersPlaced
  <2>9. Placed(Of("RESOURCE", FromTo(0, 5) \o <<7>>), 46, 7)
    BY <2>8, FamilyPlaced
  <2>10. Placed(Of("ALLOC", FromTo(1, 4)) \o Of("FD", FromTo(1, 4)) \o Of("RESOURCE", FromTo(0,
           5) \o <<7>>), 38, 15)
    BY <2>5, <2>9, BothPlaced
  <2>11. NumbersPlaced("PROC", <<1>>, 53, 1)
    <3>1. Place(<<"PROC", 1>>) = 53 + 1
      BY PlaceOfFamily
    <3> QED BY <3>1, OnePlaced
  <2>12. Placed(Of("PROC", <<1>>), 53, 1)
    BY <2>11, FamilyPlaced
  <2>13. Placed(Of("ALLOC", FromTo(1, 4)) \o Of("FD", FromTo(1, 4)) \o Of("RESOURCE", FromTo(0,
           5) \o <<7>>) \o Of("PROC", <<1>>), 38, 16)
    BY <2>10, <2>12, BothPlaced
  <2> QED BY <2>13
<1>5. Placed(ids5, 54, 9)
  <2>1. NumbersPlaced("SYNC", FromTo(1, 5), 54, 5)
    <3>1. \A m \in 1..5 : Place(<<"SYNC", m>>) = 54 + (m - 1) + 1
      <4> DEFINE P(m) == Place(<<"SYNC", m>>)
      <4>1. \A m : P(m) = (IF m = 6 THEN 102 ELSE IF m <= 5 THEN 54 + m ELSE 53 + m)
        BY PlaceOfFamily, Zenon
      <4> HIDE DEF P
      <4>2. \A m \in 1..5 : P(m) = 54 + (m - 1) + 1
        BY <4>1
      <4> QED BY <4>2 DEF P
    <3>2. 1 \in Nat /\ 5 \in Nat /\ 1 <= 5 /\ 54 \in Nat /\ 5 = 5 - 1 + 1
      OBVIOUS
    <3> QED BY <3>1, <3>2, RunPlaced, Zenon
  <2>2. NumbersPlaced("SYNC", FromTo(7, 10), 59, 4)
    <3>1. \A m \in 7..10 : Place(<<"SYNC", m>>) = 59 + (m - 7) + 1
      <4> DEFINE P(m) == Place(<<"SYNC", m>>)
      <4>1. \A m : P(m) = (IF m = 6 THEN 102 ELSE IF m <= 5 THEN 54 + m ELSE 53 + m)
        BY PlaceOfFamily, Zenon
      <4> HIDE DEF P
      <4>2. \A m \in 7..10 : P(m) = 59 + (m - 7) + 1
        BY <4>1
      <4> QED BY <4>2 DEF P
    <3>2. 7 \in Nat /\ 10 \in Nat /\ 7 <= 10 /\ 59 \in Nat /\ 4 = 10 - 7 + 1
      OBVIOUS
    <3> QED BY <3>1, <3>2, RunPlaced, Zenon
  <2>3. NumbersPlaced("SYNC", FromTo(1, 5) \o FromTo(7, 10), 54, 9)
    BY <2>1, <2>2, BothNumbersPlaced
  <2>4. Placed(Of("SYNC", FromTo(1, 5) \o FromTo(7, 10)), 54, 9)
    BY <2>3, FamilyPlaced
  <2> QED BY <2>4
<1>6. Placed(ids6, 63, 3)
  <2>1. NumbersPlaced("TRACE", FromTo(1, 3), 63, 3)
    <3>1. \A m \in 1..3 : Place(<<"TRACE", m>>) = 63 + (m - 1) + 1
      <4> DEFINE P(m) == Place(<<"TRACE", m>>)
      <4>1. \A m : P(m) = (63 + m)
        BY PlaceOfFamily, Zenon
      <4> HIDE DEF P
      <4>2. \A m \in 1..3 : P(m) = 63 + (m - 1) + 1
        BY <4>1
      <4> QED BY <4>2 DEF P
    <3>2. 1 \in Nat /\ 3 \in Nat /\ 1 <= 3 /\ 63 \in Nat /\ 3 = 3 - 1 + 1
      OBVIOUS
    <3> QED BY <3>1, <3>2, RunPlaced, Zenon
  <2>2. Placed(Of("TRACE", FromTo(1, 3)), 63, 3)
    BY <2>1, FamilyPlaced
  <2> QED BY <2>2
<1>7. Placed(ids7, 66, 4)
  <2>1. NumbersPlaced("SAN", FromTo(1, 4), 66, 4)
    <3>1. \A m \in 1..4 : Place(<<"SAN", m>>) = 66 + (m - 1) + 1
      <4> DEFINE P(m) == Place(<<"SAN", m>>)
      <4>1. \A m : P(m) = (66 + m)
        BY PlaceOfFamily, Zenon
      <4> HIDE DEF P
      <4>2. \A m \in 1..4 : P(m) = 66 + (m - 1) + 1
        BY <4>1
      <4> QED BY <4>2 DEF P
    <3>2. 1 \in Nat /\ 4 \in Nat /\ 1 <= 4 /\ 66 \in Nat /\ 4 = 4 - 1 + 1
      OBVIOUS
    <3> QED BY <3>1, <3>2, RunPlaced, Zenon
  <2>2. Placed(Of("SAN", FromTo(1, 4)), 66, 4)
    BY <2>1, FamilyPlaced
  <2> QED BY <2>2
<1>8. Placed(ids8, 70, 1)
  <2>1. NumbersPlaced("MUTATION", <<1>>, 70, 1)
    <3>1. Place(<<"MUTATION", 1>>) = 70 + 1
      BY PlaceOfFamily
    <3> QED BY <3>1, OnePlaced
  <2>2. Placed(Of("MUTATION", <<1>>), 70, 1)
    BY <2>1, FamilyPlaced
  <2> QED BY <2>2
<1>9. Placed(ids9, 71, 9)
  <2>1. NumbersPlaced("API", FromTo(1, 9), 71, 9)
    <3>1. \A m \in 1..9 : Place(<<"API", m>>) = 71 + (m - 1) + 1
      <4> DEFINE P(m) == Place(<<"API", m>>)
      <4>1. \A m : P(m) = (71 + m)
        BY PlaceOfFamily, Zenon
      <4> HIDE DEF P
      <4>2. \A m \in 1..9 : P(m) = 71 + (m - 1) + 1
        BY <4>1
      <4> QED BY <4>2 DEF P
    <3>2. 1 \in Nat /\ 9 \in Nat /\ 1 <= 9 /\ 71 \in Nat /\ 9 = 9 - 1 + 1
      OBVIOUS
    <3> QED BY <3>1, <3>2, RunPlaced, Zenon
  <2>2. Placed(Of("API", FromTo(1, 9)), 71, 9)
    BY <2>1, FamilyPlaced
  <2> QED BY <2>2
<1>10. Placed(ids10, 80, 9)
  <2>1. NumbersPlaced("EXPECT", <<1>>, 80, 1)
    <3>1. Place(<<"EXPECT", 1>>) = 80 + 1
      BY PlaceOfFamily
    <3> QED BY <3>1, OnePlaced
  <2>2. Placed(Of("EXPECT", <<1>>), 80, 1)
    BY <2>1, FamilyPlaced
  <2>3. NumbersPlaced("POLICY-RESOURCE", FromTo(1, 3), 81, 3)
    <3>1. \A m \in 1..3 : Place(<<"POLICY-RESOURCE", m>>) = 81 + (m - 1) + 1
      <4> DEFINE P(m) == Place(<<"POLICY-RESOURCE", m>>)
      <4>1. \A m : P(m) = (81 + m)
        BY PlaceOfFamily, Zenon
      <4> HIDE DEF P
      <4>2. \A m \in 1..3 : P(m) = 81 + (m - 1) + 1
        BY <4>1
      <4> QED BY <4>2 DEF P
    <3>2. 1 \in Nat /\ 3 \in Nat /\ 1 <= 3 /\ 81 \in Nat /\ 3 = 3 - 1 + 1
      OBVIOUS
    <3> QED BY <3>1, <3>2, RunPlaced, Zenon
  <2>4. Placed(Of("POLICY-RESOURCE", FromTo(1, 3)), 81, 3)
    BY <2>3, FamilyPlaced
  <2>5. Placed(Of("EXPECT", <<1>>) \o Of("POLICY-RESOURCE", FromTo(1, 3)), 80, 4)
    BY <2>2, <2>4, BothPlaced
  <2>6. NumbersPlaced("POLICY-SYNC", <<1>>, 84, 1)
    <3>1. Place(<<"POLICY-SYNC", 1>>) = 84 + 1
      BY PlaceOfFamily
    <3> QED BY <3>1, OnePlaced
  <2>7. Placed(Of("POLICY-SYNC", <<1>>), 84, 1)
    BY <2>6, FamilyPlaced
  <2>8. Placed(Of("EXPECT", <<1>>) \o Of("POLICY-RESOURCE", FromTo(1, 3)) \o Of("POLICY-SYNC",
          <<1>>), 80, 5)
    BY <2>5, <2>7, BothPlaced
  <2>9. NumbersPlaced("POLICY-SECURE", FromTo(1, 4), 85, 4)
    <3>1. \A m \in 1..4 : Place(<<"POLICY-SECURE", m>>) = 85 + (m - 1) + 1
      <4> DEFINE P(m) == Place(<<"POLICY-SECURE", m>>)
      <4>1. \A m : P(m) = (85 + m)
        BY PlaceOfFamily, Zenon
      <4> HIDE DEF P
      <4>2. \A m \in 1..4 : P(m) = 85 + (m - 1) + 1
        BY <4>1
      <4> QED BY <4>2 DEF P
    <3>2. 1 \in Nat /\ 4 \in Nat /\ 1 <= 4 /\ 85 \in Nat /\ 4 = 4 - 1 + 1
      OBVIOUS
    <3> QED BY <3>1, <3>2, RunPlaced, Zenon
  <2>10. Placed(Of("POLICY-SECURE", FromTo(1, 4)), 85, 4)
    BY <2>9, FamilyPlaced
  <2>11. Placed(Of("EXPECT", <<1>>) \o Of("POLICY-RESOURCE", FromTo(1, 3)) \o Of("POLICY-SYNC",
           <<1>>) \o Of("POLICY-SECURE", FromTo(1, 4)), 80, 9)
    BY <2>8, <2>10, BothPlaced
  <2> QED BY <2>11
<1>11. Placed(ids11, 89, 3)
  <2>1. NumbersPlaced("TEST-CONFORMANCE", <<1, 2>>, 89, 2)
    <3> DEFINE numbers == <<1, 2>>
    <3>1. numbers \in Seq(Nat) /\ Len(numbers) = 2 /\ numbers[1] = 1 /\ numbers[2] = 2
      OBVIOUS
    <3> HIDE DEF numbers
    <3>2. Place(<<"TEST-CONFORMANCE", 1>>) = 90 /\ Place(<<"TEST-CONFORMANCE", 2>>) = 91
      BY PlaceOfFamily
    <3>3. \A i \in 1..2 : i = 1 \/ i = 2
      OBVIOUS
    <3>4. \A i \in 1..2 : Place(<<"TEST-CONFORMANCE", numbers[i]>>) = 89 + i
      <4>1. /\ Place(<<"TEST-CONFORMANCE", numbers[1]>>) = 89 + 1
            /\ Place(<<"TEST-CONFORMANCE", numbers[2]>>) = 89 + 2
        BY <3>1, <3>2
      <4> QED BY <4>1, <3>3
    <3>5. IsSeq(numbers)
      BY <3>1 DEF IsSeq
    <3>6. NumbersPlaced("TEST-CONFORMANCE", numbers, 89, 2)
      BY <3>1, <3>4, <3>5 DEF NumbersPlaced
    <3> QED BY <3>6 DEF numbers
  <2>2. Placed(Of("TEST-CONFORMANCE", <<1, 2>>), 89, 2)
    BY <2>1, FamilyPlaced
  <2>3. NumbersPlaced("TEST-RECEIPT", <<1>>, 91, 1)
    <3>1. Place(<<"TEST-RECEIPT", 1>>) = 91 + 1
      BY PlaceOfFamily
    <3> QED BY <3>1, OnePlaced
  <2>4. Placed(Of("TEST-RECEIPT", <<1>>), 91, 1)
    BY <2>3, FamilyPlaced
  <2>5. Placed(Of("TEST-CONFORMANCE", <<1, 2>>) \o Of("TEST-RECEIPT", <<1>>), 89, 3)
    BY <2>2, <2>4, BothPlaced
  <2> QED BY <2>5
<1>12. Placed(ids12, 92, 7)
  <2>1. /\ IsSeq(ids12) /\ Len(ids12) = 7
        /\ ids12[1] = <<"TEST-DETERMINISM", 1>>
        /\ ids12[2] = <<"DATA", 1>>
        /\ ids12[3] = <<"RESOURCE", 6>>
        /\ ids12[4] = <<"TIME", 1>>
        /\ ids12[5] = <<"TEST-RECOVERY", 1>>
        /\ ids12[6] = <<"SCHEMA", 1>>
        /\ ids12[7] = <<"TEST-SIDE-EFFECT", 1>>
    <3>1. ids12 \in Seq({<<"TEST-DETERMINISM", 1>>, <<"DATA", 1>>, <<"RESOURCE", 6>>, <<"TIME",
            1>>, <<"TEST-RECOVERY", 1>>, <<"SCHEMA", 1>>, <<"TEST-SIDE-EFFECT", 1>>})
      OBVIOUS
    <3> QED BY <3>1 DEF IsSeq
  <2>2. /\ Place(<<"TEST-DETERMINISM", 1>>) = 93
        /\ Place(<<"DATA", 1>>) = 94
        /\ Place(<<"RESOURCE", 6>>) = 95
        /\ Place(<<"TIME", 1>>) = 96
        /\ Place(<<"TEST-RECOVERY", 1>>) = 97
        /\ Place(<<"SCHEMA", 1>>) = 98
        /\ Place(<<"TEST-SIDE-EFFECT", 1>>) = 99
    BY PlaceOfFamily
  <2> HIDE DEF ids12
  <2>3. /\ Place(ids12[1]) = 92 + 1
        /\ Place(ids12[2]) = 92 + 2
        /\ Place(ids12[3]) = 92 + 3
        /\ Place(ids12[4]) = 92 + 4
        /\ Place(ids12[5]) = 92 + 5
        /\ Place(ids12[6]) = 92 + 6
        /\ Place(ids12[7]) = 92 + 7
    BY <2>1, <2>2
  <2>4. \A i \in 1..7 : Place(ids12[i]) = 92 + i
    <3>1. \A i \in 1..7 : i = 1 \/ i = 2 \/ i = 3 \/ i = 4 \/ i = 5 \/ i = 6 \/ i = 7
      OBVIOUS
    <3> QED BY <2>3, <3>1
  <2> QED BY <2>1, <2>4 DEF Placed
<1>13. Placed(ids13, 99, 4)
  <2>1. /\ IsSeq(ids13) /\ Len(ids13) = 4
        /\ ids13[1] = <<"IO", 1>>
        /\ ids13[2] = <<"RETRY", 1>>
        /\ ids13[3] = <<"SYNC", 6>>
        /\ ids13[4] = <<"PROC", 2>>
    <3>1. ids13 \in Seq({<<"IO", 1>>, <<"RETRY", 1>>, <<"SYNC", 6>>, <<"PROC", 2>>})
      OBVIOUS
    <3> QED BY <3>1 DEF IsSeq
  <2>2. /\ Place(<<"IO", 1>>) = 100
        /\ Place(<<"RETRY", 1>>) = 101
        /\ Place(<<"SYNC", 6>>) = 102
        /\ Place(<<"PROC", 2>>) = 103
    BY PlaceOfFamily
  <2> HIDE DEF ids13
  <2>3. /\ Place(ids13[1]) = 99 + 1
        /\ Place(ids13[2]) = 99 + 2
        /\ Place(ids13[3]) = 99 + 3
        /\ Place(ids13[4]) = 99 + 4
    BY <2>1, <2>2
  <2>4. \A i \in 1..4 : Place(ids13[i]) = 99 + i
    <3>1. \A i \in 1..4 : i = 1 \/ i = 2 \/ i = 3 \/ i = 4
      OBVIOUS
    <3> QED BY <2>3, <3>1
  <2> QED BY <2>1, <2>4 DEF Placed
<1>14. Placed(ids14, 103, 8)
  <2>1. /\ IsSeq(ids14) /\ Len(ids14) = 8
        /\ ids14[1] = <<"THREAD", 1>>
        /\ ids14[2] = <<"SIGNAL", 1>>
        /\ ids14[3] = <<"SIGNAL", 2>>
        /\ ids14[4] = <<"ENV", 1>>
        /\ ids14[5] = <<"FILE", 1>>
        /\ ids14[6] = <<"MEM", 1>>
        /\ ids14[7] = <<"MEM", 2>>
        /\ ids14[8] = <<"MOD", 28>>
    <3>1. ids14 \in Seq({<<"THREAD", 1>>, <<"SIGNAL", 1>>, <<"SIGNAL", 2>>, <<"ENV", 1>>,
            <<"FILE", 1>>, <<"MEM", 1>>, <<"MEM", 2>>, <<"MOD", 28>>})
      OBVIOUS
    <3> QED BY <3>1 DEF IsSeq
  <2>2. /\ Place(<<"THREAD", 1>>) = 104
        /\ Place(<<"SIGNAL", 1>>) = 105
        /\ Place(<<"SIGNAL", 2>>) = 106
        /\ Place(<<"ENV", 1>>) = 107
        /\ Place(<<"FILE", 1>>) = 108
        /\ Place(<<"MEM", 1>>) = 109
        /\ Place(<<"MEM", 2>>) = 110
        /\ Place(<<"MOD", 28>>) = 111
    BY PlaceOfFamily
  <2> HIDE DEF ids14
  <2>3. /\ Place(ids14[1]) = 103 + 1
        /\ Place(ids14[2]) = 103 + 2
        /\ Place(ids14[3]) = 103 + 3
        /\ Place(ids14[4]) = 103 + 4
        /\ Place(ids14[5]) = 103 + 5
        /\ Place(ids14[6]) = 103 + 6
        /\ Place(ids14[7]) = 103 + 7
        /\ Place(ids14[8]) = 103 + 8
    BY <2>1, <2>2
  <2>4. \A i \in 1..8 : Place(ids14[i]) = 103 + i
    <3>1. \A i \in 1..8 : i = 1 \/ i = 2 \/ i = 3 \/ i = 4 \/ i = 5 \/ i = 6 \/ i = 7 \/ i = 8
      OBVIOUS
    <3> QED BY <2>3, <3>1
  <2> QED BY <2>1, <2>4 DEF Placed
<1> HIDE DEF ids1, ids2, ids3, ids4, ids5, ids6, ids7, ids8, ids9, ids10, ids11, ids12, ids13,
      ids14
<1> DEFINE rows1 == Rows("WRAPPER-BOUNDARIES", ids1)
           rows2 == Rows("ERROR-CONTRACTS", ids2)
           rows3 == Rows("MODULE-BOUNDARIES", ids3)
           rows4 == Rows("GENERIC-RESOURCES", ids4)
           rows5 == Rows("SYNCHRONIZATION", ids5)
           rows6 == Rows("TRACE-INTEGRITY", ids6)
           rows7 == Rows("SANITIZERS", ids7)
           rows8 == Rows("MUTATION-STRENGTH", ids8)
           rows9 == Rows("API-COMPATIBILITY", ids9)
           rows10 == Rows("POLICY-EXPECTATIONS", ids10)
           rows11 == Rows("TEST-EVIDENCE", ids11)
           rows12 == Rows("COMMAND-CONTRACTS", ids12)
           rows13 == Rows("OPERATIONAL-SEMANTICS", ids13)
           rows14 == Rows("SECURE-SEMANTICS", ids14)
<1>15. /\ Agree(rows1, ids1, 0, 5)
       /\ Agree(rows2, ids2, 5, 12)
       /\ Agree(rows3, ids3, 17, 21)
       /\ Agree(rows4, ids4, 38, 16)
       /\ Agree(rows5, ids5, 54, 9)
       /\ Agree(rows6, ids6, 63, 3)
       /\ Agree(rows7, ids7, 66, 4)
       /\ Agree(rows8, ids8, 70, 1)
       /\ Agree(rows9, ids9, 71, 9)
       /\ Agree(rows10, ids10, 80, 9)
       /\ Agree(rows11, ids11, 89, 3)
       /\ Agree(rows12, ids12, 92, 7)
       /\ Agree(rows13, ids13, 99, 4)
       /\ Agree(rows14, ids14, 103, 8)
  BY <1>1, <1>2, <1>3, <1>4, <1>5, <1>6, <1>7, <1>8, <1>9, <1>10, <1>11, <1>12, <1>13, <1>14,
    RowsAgree
<1> HIDE DEF rows1, rows2, rows3, rows4, rows5, rows6, rows7, rows8, rows9, rows10, rows11,
      rows12, rows13, rows14
<1>16. Agree(rows1 \o rows2,
           ids1 \o ids2, 0, 17)
  BY <1>15, BothAgree
<1>17. Agree(rows1 \o rows2 \o rows3,
           ids1 \o ids2 \o ids3, 0, 38)
  BY <1>15, <1>16, BothAgree
<1>18. Agree(rows1 \o rows2 \o rows3 \o rows4,
           ids1 \o ids2 \o ids3 \o ids4, 0, 54)
  BY <1>15, <1>17, BothAgree
<1>19. Agree(rows1 \o rows2 \o rows3 \o rows4 \o rows5,
           ids1 \o ids2 \o ids3 \o ids4 \o ids5, 0, 63)
  BY <1>15, <1>18, BothAgree
<1>20. Agree(rows1 \o rows2 \o rows3 \o rows4 \o rows5 \o rows6,
           ids1 \o ids2 \o ids3 \o ids4 \o ids5 \o ids6, 0, 66)
  BY <1>15, <1>19, BothAgree
<1>21. Agree(rows1 \o rows2 \o rows3 \o rows4 \o rows5 \o rows6 \o rows7,
           ids1 \o ids2 \o ids3 \o ids4 \o ids5 \o ids6 \o ids7, 0, 70)
  BY <1>15, <1>20, BothAgree
<1>22. Agree(rows1 \o rows2 \o rows3 \o rows4 \o rows5 \o rows6 \o rows7 \o rows8,
           ids1 \o ids2 \o ids3 \o ids4 \o ids5 \o ids6 \o ids7 \o ids8, 0, 71)
  BY <1>15, <1>21, BothAgree
<1>23. Agree(rows1 \o rows2 \o rows3 \o rows4 \o rows5 \o rows6 \o rows7 \o rows8 \o rows9,
           ids1 \o ids2 \o ids3 \o ids4 \o ids5 \o ids6 \o ids7 \o ids8 \o ids9, 0, 80)
  BY <1>15, <1>22, BothAgree
<1>24. Agree(rows1 \o rows2 \o rows3 \o rows4 \o rows5 \o rows6 \o rows7 \o rows8 \o rows9
         \o rows10,
           ids1 \o ids2 \o ids3 \o ids4 \o ids5 \o ids6 \o ids7 \o ids8 \o ids9 \o ids10, 0, 89)
  BY <1>15, <1>23, BothAgree
<1>25. Agree(rows1 \o rows2 \o rows3 \o rows4 \o rows5 \o rows6 \o rows7 \o rows8 \o rows9
         \o rows10 \o rows11,
           ids1 \o ids2 \o ids3 \o ids4 \o ids5 \o ids6 \o ids7 \o ids8 \o ids9 \o ids10
             \o ids11, 0, 92)
  BY <1>15, <1>24, BothAgree
<1>26. Agree(rows1 \o rows2 \o rows3 \o rows4 \o rows5 \o rows6 \o rows7 \o rows8 \o rows9
         \o rows10 \o rows11 \o rows12,
           ids1 \o ids2 \o ids3 \o ids4 \o ids5 \o ids6 \o ids7 \o ids8 \o ids9 \o ids10
             \o ids11 \o ids12, 0, 99)
  BY <1>15, <1>25, BothAgree
<1>27. Agree(rows1 \o rows2 \o rows3 \o rows4 \o rows5 \o rows6 \o rows7 \o rows8 \o rows9
         \o rows10 \o rows11 \o rows12 \o rows13,
           ids1 \o ids2 \o ids3 \o ids4 \o ids5 \o ids6 \o ids7 \o ids8 \o ids9 \o ids10
             \o ids11 \o ids12 \o ids13, 0, 103)
  BY <1>15, <1>26, BothAgree
<1>28. Agree(rows1 \o rows2 \o rows3 \o rows4 \o rows5 \o rows6 \o rows7 \o rows8 \o rows9
         \o rows10 \o rows11 \o rows12 \o rows13 \o rows14,
           ids1 \o ids2 \o ids3 \o ids4 \o ids5 \o ids6 \o ids7 \o ids8 \o ids9 \o ids10
             \o ids11 \o ids12 \o ids13 \o ids14, 0, 111)
  BY <1>15, <1>27, BothAgree
<1> QED BY <1>28 DEF rules, Enumeration, P101_TOOL_FINDING_COUNT, rows1, rows2, rows3, rows4,
      rows5, rows6, rows7, rows8, rows9, rows10, rows11, rows12, rows13, rows14, ids1, ids2,
        ids3, ids4, ids5, ids6, ids7, ids8, ids9, ids10, ids11, ids12, ids13, ids14

\* The search for a name ends at its own row: no other has the same name.
LEMMA NameHasOneRow ==
  ASSUME NEW k \in 1..P101_TOOL_FINDING_COUNT
  PROVE  /\ rules[k].id = Enumeration[k]
         /\ lookup_id(Enumeration[k]) = rules[k]
<1> DEFINE name == Enumeration[k]
           n == P101_TOOL_FINDING_COUNT
<1>1. /\ IsSeq(rules) /\ Len(rules) = n /\ Len(Enumeration) = n /\ n \in Nat
      /\ DOMAIN Enumeration = 1..n
      /\ \A i \in 1..n : rules[i].id = Enumeration[i] /\ Place(Enumeration[i]) = 0 + i
  BY CatalogAgrees DEF Agree, Placed, IsSeq, P101_TOOL_FINDING_COUNT
<1> HIDE DEF n
<1>2. ASSUME NEW i \in 1..n PROVE rules[i].id = name <=> i = k
  <2>1. Place(rules[i].id) = i /\ Place(name) = k /\ rules[k].id = name
    BY <1>1 DEF n
  <2> QED BY <2>1
<1> DEFINE I == {i \in 1..Len(rules) : rules[i].id = name}
           j == SelectInSeq(rules, LAMBDA r : r.id = name)
<1>3. j = IF I # {} THEN Min(I) ELSE 0
  BY DEF SelectInSeq
<1>4. I = {k}
  BY <1>1, <1>2 DEF n
<1>5. j = k
  <2> HIDE DEF I, j
  <2>1. Min({k}) = k
    BY DEF Min
  <2> QED BY <1>3, <1>4, <2>1
<1>6. k # 0 /\ name # Null
  BY <1>1, NullAssumption DEF n
<1>7. lookup_id(name) = rules[k]
  BY <1>5, <1>6, Zenon DEF lookup_id
<1> QED BY <1>1, <1>7 DEF n

-----------------------------------------------------------------------------
(* Looking a rule up, and the struct that is filled with it.               *)

LEMMA LookupFindsRows ==
  ASSUME NEW finding \in Nat, lookup(finding) # Null
  PROVE  IsRow(lookup(finding))
<1>1. finding + 1 \in 1..P101_TOOL_FINDING_COUNT /\ lookup(finding) = rules[finding + 1]
  BY DEF lookup, P101_TOOL_FINDING_COUNT
<1> QED BY <1>1, CatalogIsSound DEF AllRows

LEMMA LookupIdFindsRows ==
  ASSUME NEW id, lookup_id(id) # Null
  PROVE  IsRow(lookup_id(id)) /\ lookup_id(id).id = id
<1> DEFINE I == {i \in 1..Len(rules) : rules[i].id = id}
           k == SelectInSeq(rules, LAMBDA r : r.id = id)
<1>1. k = IF I # {} THEN Min(I) ELSE 0
  BY DEF SelectInSeq
<1>2. k # 0 /\ lookup_id(id) = rules[k]
  BY DEF lookup_id
<1> HIDE DEF k
<1>3. Len(rules) = P101_TOOL_FINDING_COUNT
  BY CatalogIsSound DEF AllRows
<1>4. PICK x \in I : \A y \in I : x <= y
  <2>1. I \subseteq Nat /\ I # {}
    BY <1>1, <1>2
  <2> HIDE DEF I
  <2> QED BY <2>1, LeastNatural
<1>5. k \in I
  <2> HIDE DEF I
  <2> QED BY <1>1, <1>2, <1>4 DEF Min
<1>6. k \in 1..P101_TOOL_FINDING_COUNT /\ rules[k].id = id
  BY <1>3, <1>5
<1> QED BY <1>2, <1>6, CatalogIsSound DEF AllRows

\* A struct whose id is in the catalog has that rule's lesson.
Catalogued(d) ==
  LET rule == lookup_id(d.id)
  IN  rule # Null => d.lesson_id = rule.lesson_id /\ d.lesson_url = rule.lesson_url

LEMMA RowIsCatalogued ==
  ASSUME NEW d, IsRow(d)
  PROVE  Catalogued(d)
<1>1. SUFFICES ASSUME lookup_id(d.id) # Null
               PROVE  d.lesson_id = lookup_id(d.id).lesson_id /\ d.lesson_url = lookup_id(d.id).lesson_url
  BY DEF Catalogued
<1>2. IsRow(lookup_id(d.id)) /\ lookup_id(d.id).id = d.id
  BY <1>1, LookupIdFindsRows
<1> QED BY <1>2 DEF IsRow

IsText(text) == text # Null => IsSeq(text)

\* A struct the writers may be given.
IsDiagnostic(d) ==
  /\ d.severity \in {"note", "warning", "error"}
  /\ IsText(d.path) /\ IsText(d.function_name) /\ IsText(d.message)

LEMMA TextsAreTexts ==
  ASSUME NEW text \in Texts
  PROVE  IsText(text)
BY TextsAssumption DEF IsText, IsSeq

LEMMA FilledIsDiagnostic ==
  ASSUME NEW d \in Filled
  PROVE  IsDiagnostic(d)
<1>1. d.path \in Texts /\ d.function_name \in Texts /\ d.message \in Texts
  BY DEF Texts
<1> QED BY <1>1, TextsAreTexts, FilledAssumption DEF IsDiagnostic

\* What initialize_from_rule does with the rule it is given.
LEMMA InitializedIsDiagnostic ==
  ASSUME NEW rule, rule # Null => IsRow(rule),
         NEW severity \in Severities, NEW path \in Paths, NEW function \in Functions,
         NEW message \in Messages, initialize_from_rule(rule, severity, path, function, message),
         diagnostic' # diagnostic
  PROVE  IsDiagnostic(diagnostic') /\ Catalogued(diagnostic')
<1>1. /\ ~ initialize_fails(rule, severity, message)
      /\ diagnostic' = [ id |-> rule.id, severity |-> severity, path |-> path,
                         function_name |-> function, message |-> message,
                         lesson_id |-> rule.lesson_id, lesson_path |-> rule.lesson_path,
                         lesson_url |-> rule.lesson_url ]
  BY DEF initialize_from_rule, StoreNothing
<1>2. rule # Null /\ severity \in {"note", "warning", "error"}
  BY <1>1 DEF initialize_fails, severity_name
<1>3. path \in Texts /\ function \in Texts /\ message \in Texts
  BY DEF Texts
<1>4. IsText(path) /\ IsText(function) /\ IsText(message)
  BY <1>3, TextsAreTexts
<1>5. IsDiagnostic(diagnostic')
  BY <1>1, <1>2, <1>4 DEF IsDiagnostic
<1>6. IsRow(diagnostic')
  BY <1>1, <1>2 DEF IsRow
<1> QED BY <1>5, <1>6, RowIsCatalogued

-----------------------------------------------------------------------------
(* What the writers write.                                                 *)

LEMMA OneIsSeq ==
  ASSUME NEW a
  PROVE  IsSeq(<<a>>) /\ Len(<<a>>) = 1 /\ <<a>>[1] = a
<1>1. <<a>> \in Seq({a}) /\ Len(<<a>>) = 1 /\ <<a>>[1] = a
  OBVIOUS
<1> QED BY <1>1 DEF IsSeq

LEMMA TwoIsSeq ==
  ASSUME NEW a, NEW b
  PROVE  IsSeq(<<a, b>>) /\ Len(<<a, b>>) = 2 /\ <<a, b>>[1] = a /\ <<a, b>>[2] = b
<1>1. <<a, b>> \in Seq({a, b}) /\ Len(<<a, b>>) = 2
  OBVIOUS
<1> QED BY <1>1 DEF IsSeq

LEMMA ThreeIsSeq ==
  ASSUME NEW a, NEW b, NEW c
  PROVE  /\ IsSeq(<<a, b, c>>) /\ Len(<<a, b, c>>) = 3
         /\ <<a, b, c>>[1] = a /\ <<a, b, c>>[2] = b /\ <<a, b, c>>[3] = c
<1>1. <<a, b, c>> \in Seq({a, b, c}) /\ Len(<<a, b, c>>) = 3
  OBVIOUS
<1> QED BY <1>1 DEF IsSeq

LEMMA FourIsSeq ==
  ASSUME NEW a, NEW b, NEW c, NEW d
  PROVE  /\ IsSeq(<<a, b, c, d>>) /\ Len(<<a, b, c, d>>) = 4
         /\ <<a, b, c, d>>[1] = a /\ <<a, b, c, d>>[2] = b
         /\ <<a, b, c, d>>[3] = c /\ <<a, b, c, d>>[4] = d
<1>1. <<a, b, c, d>> \in Seq({a, b, c, d}) /\ Len(<<a, b, c, d>>) = 4
  OBVIOUS
<1> QED BY <1>1 DEF IsSeq

IsPiece(piece) == IsSeq(piece.atoms) /\ piece.leaves \in {0, 1}

\* An atom behind the line feed of an id or of a lesson's text.
Ragged(atom) == atom[1] \in {"id", "note"} /\ HoldsLineFeed(atom)

\* A piece that ends no line, except inside an id, and is no note.
IsPlain(piece) ==
  /\ IsPiece(piece)
  /\ \A i \in 1..Len(piece.atoms) :
       /\ piece.atoms[i] = EndOfLine => i < Len(piece.atoms) /\ Ragged(piece.atoms[i + 1])
       /\ piece.atoms[i][1] # "note"

\* The atoms of a note, which is the last but one and has its line's end behind it.
IsNote(atoms, note) ==
  /\ IsSeq(atoms) /\ Len(atoms) \in {2, 3}
  /\ atoms[Len(atoms)] = EndOfLine /\ atoms[Len(atoms) - 1] = note
  /\ Len(atoms) = 3 => atoms[1] = EndOfLine /\ HoldsLineFeed(note)

LEMMA RawIsSeq ==
  ASSUME NEW atom
  PROVE  /\ IsSeq(Raw(atom)) /\ Len(Raw(atom)) \in {1, 2} /\ Raw(atom)[Len(Raw(atom))] = atom
         /\ Len(Raw(atom)) = 2 => Raw(atom)[1] = EndOfLine /\ HoldsLineFeed(atom)
<1> DEFINE one == <<atom>>
           line == <<EndOfLine>>
<1>1. IsSeq(one) /\ Len(one) = 1 /\ one[1] = atom
  BY OneIsSeq
<1>2. IsSeq(line) /\ Len(line) = 1 /\ line[1] = EndOfLine
  BY OneIsSeq
<1>3. Raw(atom) = (IF HoldsLineFeed(atom) THEN line ELSE <<>>) \o one
  BY DEF Raw
<1> HIDE DEF one, line
<1>4. CASE HoldsLineFeed(atom)
  <2>1. Raw(atom) = line \o one
    BY <1>3, <1>4
  <2>2. IsSeq(line \o one) /\ Len(line \o one) = Len(line) + Len(one)
    BY <1>1, <1>2, ConcatAt
  <2>3. (line \o one)[1] = line[1] /\ (line \o one)[Len(line) + 1] = one[1]
    <3>1. /\ \A i \in 1..Len(line) : (line \o one)[i] = line[i]
          /\ \A i \in 1..Len(one) : (line \o one)[Len(line) + i] = one[i]
      <4>1. IsSeq(line) /\ IsSeq(one)
        BY <1>1, <1>2
      <4>2. \A i \in 1..Len(line) : (line \o one)[i] = line[i]
        BY <4>1, ConcatAt
      <4>3. \A i \in 1..Len(one) : (line \o one)[Len(line) + i] = one[i]
        BY <4>1, ConcatAt
      <4> QED BY <4>2, <4>3
    <3>2. 1 \in 1..Len(line) /\ 1 \in 1..Len(one)
      BY <1>1, <1>2
    <3> QED BY <3>1, <3>2
  <2>4. Len(Raw(atom)) = 2 /\ Raw(atom)[1] = EndOfLine /\ Raw(atom)[2] = atom
    BY <2>1, <2>2, <2>3, <1>1, <1>2
  <2> QED BY <2>1, <2>2, <2>4, <1>4
<1>5. CASE ~HoldsLineFeed(atom)
  <2>1. Raw(atom) = <<>> \o one
    BY <1>3, <1>5
  <2>2. IsSeq(<<>>) /\ Len(<<>>) = 0
    BY EmptyIsSeq
  <2>3. IsSeq(<<>> \o one) /\ Len(<<>> \o one) = 0 + Len(one)
    BY <1>1, <2>2, ConcatAt
  <2>4. (<<>> \o one)[0 + 1] = one[1]
    BY <1>1, <2>2, ConcatAt
  <2>5. Len(Raw(atom)) = 1 /\ Raw(atom)[1] = atom
    BY <2>1, <2>3, <2>4, <1>1
  <2>6. IsSeq(Raw(atom))
    BY <2>1, <2>3
  <2> QED BY <2>5, <2>6
<1> QED BY <1>4, <1>5

LEMMA RawNoteIsNote ==
  ASSUME NEW note
  PROVE  IsNote(Raw(note) \o <<EndOfLine>>, note)
<1> DEFINE line == <<EndOfLine>>
           raw == Raw(note)
           atoms == raw \o line
<1>1. IsSeq(line) /\ Len(line) = 1 /\ line[1] = EndOfLine
  BY OneIsSeq
<1>2. /\ IsSeq(raw) /\ Len(raw) \in {1, 2} /\ raw[Len(raw)] = note
      /\ Len(raw) = 2 => raw[1] = EndOfLine /\ HoldsLineFeed(note)
  BY RawIsSeq
<1> HIDE DEF line, raw
<1>3. IsSeq(atoms) /\ Len(atoms) = Len(raw) + Len(line)
  BY <1>1, <1>2, ConcatAt
<1>4. /\ \A i \in 1..Len(raw) : atoms[i] = raw[i]
      /\ \A i \in 1..Len(line) : atoms[Len(raw) + i] = line[i]
  <2>1. IsSeq(raw) /\ IsSeq(line)
    BY <1>1, <1>2
  <2>2. \A i \in 1..Len(raw) : atoms[i] = raw[i]
    BY <2>1, ConcatAt
  <2>3. \A i \in 1..Len(line) : atoms[Len(raw) + i] = line[i]
    BY <2>1, ConcatAt
  <2> QED BY <2>2, <2>3
<1> HIDE DEF atoms
<1>6. atoms[Len(raw) + 1] = EndOfLine /\ Len(atoms) = Len(raw) + 1
  BY <1>1, <1>3, <1>4
<1>7. Len(raw) = 2 => atoms[1] = EndOfLine
  BY <1>2, <1>4
<1>8. atoms[Len(raw)] = note
  BY <1>2, <1>4
<1>9. Len(atoms) - 1 = Len(raw) /\ Len(atoms) \in {2, 3} /\ (Len(atoms) = 3 => Len(raw) = 2)
  BY <1>2, <1>6
<1>10. IsNote(atoms, note)
  BY <1>2, <1>3, <1>6, <1>7, <1>8, <1>9 DEF IsNote
<1> QED BY <1>10 DEF atoms, raw, line

LEMMA FieldIsPlain ==
  ASSUME NEW text, IsSeq(text)
  PROVE  IsPlain(write_text_field(text))
<1> DEFINE atom(i) == IF text[i] = NewLine THEN Mark("\\n") ELSE Char(text[i])
           atoms == [i \in 1..Len(text) |-> atom(i)]
           S == {atom(i) : i \in 1..Len(text)}
<1>1. DOMAIN text = 1..Len(text) /\ Len(text) \in Nat
  BY DEF IsSeq
<1>2. write_text_field(text) = Zeroed(atoms)
  BY <1>1 DEF write_text_field
<1>3. atoms \in [1..Len(text) -> S]
  OBVIOUS
<1>4. IsSeq(atoms) /\ Len(atoms) = Len(text)
  <2> HIDE DEF atoms, S
  <2> QED BY <1>1, <1>3, FunctionIsSeq
<1>5. ASSUME NEW i \in 1..Len(text) PROVE atoms[i] # EndOfLine /\ atoms[i][1] # "note"
  <2>1. CASE text[i] = NewLine
    <3>1. atoms[i] = Mark("\\n")
      BY <2>1
    <3> QED BY <3>1 DEF Mark, Char, EndOfLine
  <2>2. CASE text[i] # NewLine
    <3>1. atoms[i] = Char(text[i])
      BY <2>2
    <3> QED BY <2>2, <3>1 DEF Char, EndOfLine
  <2> QED BY <2>1, <2>2
<1> HIDE DEF atoms
<1> QED BY <1>2, <1>4, <1>5 DEF IsPlain, IsPiece, Zeroed

LEMMA AtomIsPlain ==
  ASSUME NEW atom, atom # EndOfLine, atom[1] # "note"
  PROVE  IsPlain(Counted(<<atom>>)) /\ IsPlain(Zeroed(<<atom>>))
<1>1. IsSeq(<<atom>>) /\ Len(<<atom>>) = 1 /\ <<atom>>[1] = atom
  BY OneIsSeq
<1> QED BY <1>1 DEF IsPlain, IsPiece, Counted, Zeroed

LEMMA RawIsPlain ==
  ASSUME NEW id
  PROVE  IsPlain(Counted(Raw(<<"id", id>>)))
<1> DEFINE atom == <<"id", id>>
           raw == Raw(atom)
<1>1. atom # EndOfLine /\ atom[1] = "id" /\ EndOfLine[1] # "note"
  BY DEF Char, EndOfLine
<1> HIDE DEF atom
<1>2. /\ IsSeq(raw) /\ Len(raw) \in {1, 2} /\ raw[Len(raw)] = atom
      /\ Len(raw) = 2 => raw[1] = EndOfLine /\ HoldsLineFeed(atom)
  BY RawIsSeq
<1> HIDE DEF raw
<1>3. ASSUME NEW i \in 1..Len(raw)
      PROVE  /\ raw[i] = EndOfLine => i < Len(raw) /\ Ragged(raw[i + 1])
             /\ raw[i][1] # "note"
  <2>1. CASE i = Len(raw)
    BY <2>1, <1>1, <1>2
  <2>2. CASE i # Len(raw)
    <3>1. i = 1 /\ Len(raw) = 2 /\ i + 1 = Len(raw)
      BY <2>2, <1>2
    <3> QED BY <3>1, <1>1, <1>2 DEF Ragged
  <2> QED BY <2>1, <2>2
<1>4. IsPlain(Counted(raw))
  BY <1>2, <1>3 DEF IsPlain, IsPiece, Counted
<1> QED BY <1>4 DEF raw, atom

\* The last atom is that of an id or of a function.
EndsWell(atoms) ==
  Len(atoms) > 0 /\ (atoms[Len(atoms)] = Mark(")") \/ atoms[Len(atoms)][1] = "id")

\* The pieces of a text record: the e-th ends its line, and the note is behind it.
IsTextRecord(d, pieces, e) ==
  /\ IsSeq(pieces) /\ e \in Nat /\ e > 1
  /\ Len(pieces) = IF HasLesson(d) THEN e + 2 ELSE e
  /\ \A j \in 1..Len(pieces) : IsPiece(pieces[j]) /\ (j \notin {e, e + 2} => IsPlain(pieces[j]))
  /\ EndsWell(pieces[e - 1].atoms)
  /\ pieces[e].atoms = <<EndOfLine>>
  /\ HasLesson(d) =>
       IsNote(pieces[e + 2].atoms, <<"note", d.id, d.lesson_id, d.lesson_url>>)

LEMMA TextIsRecord ==
  ASSUME NEW d, IsDiagnostic(d), d.message # Null
  PROVE  \E e \in 5..8 : IsTextRecord(d, write_text(d), e)
<1> DEFINE path == write_text_field(IF Empty(d.path) THEN <<"<unknown>">> ELSE d.path)
           severity == Counted(<<Mark(severity_name(d.severity))>>)
           message == write_text_field(d.message)
           id == Counted(Raw(<<"id", d.id>>))
           open == Zeroed(<<Mark("(function")>>)
           name == write_text_field(d.function_name)
           close == Counted(<<Mark(")")>>)
           line == Counted(<<EndOfLine>>)
           note == Counted(Raw(<<"note", d.id, d.lesson_id, d.lesson_url>>) \o <<EndOfLine>>)
           start == <<path, severity, message, id>>
           function == IF Empty(d.function_name) THEN <<>> ELSE <<open, name, close>>
           lesson == IF LessonInText(d) THEN <<path, note>> ELSE <<>>
<1>1. write_text(d) = ((start \o function) \o <<line>>) \o lesson
  BY Zenon DEF write_text
<1>2. IsPlain(path)
  <2>1. IsSeq(<<"<unknown>">>)
    BY OneIsSeq
  <2>2. ~Empty(d.path) => IsSeq(d.path)
    BY DEF Empty, IsDiagnostic, IsText
  <2> QED BY <2>1, <2>2, FieldIsPlain
<1>3. IsPlain(severity) /\ IsPlain(open) /\ IsPlain(close)
  <2>1. \A m : Mark(m) # EndOfLine /\ Mark(m)[1] # "note"
    BY DEF Mark, Char, EndOfLine
  <2> QED BY <2>1, AtomIsPlain
<1>4. IsPlain(message)
  BY FieldIsPlain DEF IsDiagnostic, IsText
<1>5. IsPlain(id)
  BY RawIsPlain
<1>6. ~Empty(d.function_name) => IsPlain(name)
  BY FieldIsPlain DEF IsDiagnostic, IsText, Empty
<1>7. IsPiece(line) /\ line.atoms = <<EndOfLine>>
  BY OneIsSeq DEF IsPiece, Counted
<1>8. IsPiece(note) /\ IsNote(note.atoms, <<"note", d.id, d.lesson_id, d.lesson_url>>)
  <2> DEFINE atom == <<"note", d.id, d.lesson_id, d.lesson_url>>
             atoms == Raw(atom) \o <<EndOfLine>>
  <2>1. IsNote(atoms, atom)
    <3> HIDE DEF atom
    <3> QED BY RawNoteIsNote
  <2>2. note = Counted(atoms)
    OBVIOUS
  <2> HIDE DEF atom, atoms, note
  <2>3. IsSeq(atoms) /\ note.atoms = atoms /\ note.leaves = 1
    BY <2>1, <2>2 DEF IsNote, Counted
  <2> QED BY <2>1, <2>3 DEF IsPiece, atom
<1>9. EndsWell(close.atoms) /\ EndsWell(id.atoms)
  <2>1. EndsWell(close.atoms)
    <3> DEFINE mark == Mark(")")
               atoms == <<mark>>
    <3>1. close.atoms = atoms
      BY DEF Counted
    <3> HIDE DEF close, mark
    <3>2. Len(atoms) = 1 /\ atoms[1] = mark
      BY OneIsSeq
    <3> HIDE DEF atoms
    <3> QED BY <3>1, <3>2 DEF EndsWell, mark
  <2>2. EndsWell(id.atoms)
    <3> DEFINE atom == <<"id", d.id>>
               raw == Raw(atom)
    <3>1. id.atoms = raw /\ atom[1] = "id"
      BY DEF Counted
    <3> HIDE DEF id, atom
    <3>2. Len(raw) \in {1, 2} /\ raw[Len(raw)] = atom
      BY RawIsSeq
    <3> HIDE DEF raw
    <3> QED BY <3>1, <3>2 DEF EndsWell
  <2> QED BY <2>1, <2>2
<1> HIDE DEF path, severity, message, id, open, name, close, line, note
<1>10. IsSeq(start) /\ Len(start) = 4 /\ start[1] = path /\ start[2] = severity /\ start[3] = message /\ start[4] = id
  BY FourIsSeq
<1>11. /\ IsSeq(function) /\ Len(function) = IF Empty(d.function_name) THEN 0 ELSE 3
       /\ ~Empty(d.function_name) => function[1] = open /\ function[2] = name /\ function[3] = close
  BY ThreeIsSeq, EmptyIsSeq
<1>12. IsSeq(<<line>>) /\ Len(<<line>>) = 1 /\ <<line>>[1] = line
  BY OneIsSeq
<1>13. /\ IsSeq(lesson) /\ Len(lesson) = IF HasLesson(d) THEN 2 ELSE 0
       /\ HasLesson(d) => lesson[1] = path /\ lesson[2] = note
  BY TwoIsSeq, EmptyIsSeq DEF LessonInText
<1> DEFINE s1 == start \o function
           s2 == s1 \o <<line>>
           pieces == s2 \o lesson
           m == Len(start) + Len(function)
<1> HIDE DEF start, function, lesson
<1>14. /\ IsSeq(s1) /\ Len(s1) = m /\ m \in {4, 7} /\ \A i \in 1..4 : s1[i] = start[i]
       /\ \A i \in 1..Len(function) : s1[4 + i] = function[i]
  <2>1. Len(start) = 4 /\ Len(function) \in {0, 3}
    BY <1>10, <1>11
  <2>2. /\ IsSeq(s1) /\ Len(s1) = Len(start) + Len(function)
        /\ \A i \in 1..Len(start) : s1[i] = start[i]
        /\ \A i \in 1..Len(function) : s1[Len(start) + i] = function[i]
    <3>1. IsSeq(start) /\ IsSeq(function)
      BY <1>10, <1>11
    <3> QED BY <3>1, ConcatAt
  <2> HIDE DEF s1
  <2>3. m \in {4, 7} /\ Len(s1) = m
    <3>1. CASE Len(function) = 0
      BY <2>1, <2>2, <3>1
    <3>2. CASE Len(function) = 3
      BY <2>1, <2>2, <3>2
    <3> QED BY <2>1, <3>1, <3>2
  <2>4. \A i \in 1..4 : s1[i] = start[i]
    BY <2>1, <2>2
  <2>5. \A i \in 1..Len(function) : s1[4 + i] = function[i]
    BY <2>1, <2>2
  <2> QED BY <2>2, <2>3, <2>4, <2>5
<1> HIDE DEF s1, m
<1>15. IsSeq(s2) /\ Len(s2) = m + 1 /\ (\A i \in 1..m : s2[i] = s1[i]) /\ s2[m + 1] = line
  BY <1>12, <1>14, ConcatAt
<1> HIDE DEF s2
<1>16. /\ IsSeq(pieces) /\ Len(pieces) = m + 1 + Len(lesson)
       /\ \A i \in 1..(m + 1) : pieces[i] = s2[i]
       /\ \A i \in 1..Len(lesson) : pieces[m + 1 + i] = lesson[i]
  <2>1. /\ IsSeq(pieces) /\ Len(pieces) = Len(s2) + Len(lesson)
        /\ \A i \in 1..Len(s2) : pieces[i] = s2[i]
        /\ \A i \in 1..Len(lesson) : pieces[Len(s2) + i] = lesson[i]
    <3>1. IsSeq(s2) /\ IsSeq(lesson)
      BY <1>13, <1>15
    <3> QED BY <3>1, ConcatAt
  <2> HIDE DEF pieces
  <2> QED BY <2>1, <1>15
<1> HIDE DEF pieces
<1>17. \A j \in 1..m : IsPlain(pieces[j])
  <2>1. \A i \in 1..4 : IsPlain(start[i])
    BY <1>2, <1>3, <1>4, <1>5, <1>10
  <2>2. \A i \in 1..Len(function) : IsPlain(function[i])
    BY <1>3, <1>6, <1>11
  <2>3. ASSUME NEW j \in 1..m PROVE IsPlain(pieces[j])
    <3>1. pieces[j] = s1[j]
      BY <1>14, <1>15, <1>16
    <3>2. CASE j \in 1..4
      BY <2>1, <3>1, <3>2, <1>14
    <3>3. CASE j \notin 1..4
      <4>1. j - 4 \in 1..Len(function) /\ 4 + (j - 4) = j
        BY <3>3, <1>10, <1>11 DEF m
      <4> QED BY <4>1, <2>2, <3>1, <1>14
    <3> QED BY <3>2, <3>3
  <2> QED BY <2>3
<1>18. pieces[m + 1] = line
  BY <1>14, <1>15, <1>16
<1>19. HasLesson(d) => pieces[m + 2] = path /\ pieces[m + 3] = note
  BY <1>13, <1>14, <1>16
<1>20. pieces[m] = id \/ pieces[m] = close
  <2>1. pieces[m] = s1[m]
    BY <1>14, <1>15, <1>16
  <2>2. CASE Empty(d.function_name)
    BY <2>1, <2>2, <1>10, <1>11, <1>14 DEF m
  <2>3. CASE ~Empty(d.function_name)
    BY <2>1, <2>3, <1>10, <1>11, <1>14 DEF m
  <2> QED BY <2>2, <2>3
<1>21. Len(pieces) = IF HasLesson(d) THEN (m + 1) + 2 ELSE m + 1
  BY <1>13, <1>14, <1>16
<1>22. ASSUME NEW j \in 1..Len(pieces)
       PROVE  IsPiece(pieces[j]) /\ (j \notin {m + 1, (m + 1) + 2} => IsPlain(pieces[j]))
  <2>1. CASE j \in 1..m
    BY <2>1, <1>17 DEF IsPlain
  <2>2. CASE j = m + 1
    BY <2>2, <1>18, <1>7
  <2>3. CASE j = m + 2 /\ HasLesson(d)
    BY <2>3, <1>19, <1>2 DEF IsPlain
  <2>4. CASE j = m + 3 /\ HasLesson(d)
    BY <2>4, <1>19, <1>8, <1>14
  <2> QED BY <2>1, <2>2, <2>3, <2>4, <1>21, <1>14
<1>23. EndsWell(pieces[(m + 1) - 1].atoms)
  <2>1. (m + 1) - 1 = m
    BY <1>14
  <2> QED BY <2>1, <1>20, <1>9
<1>24. HasLesson(d) =>
         IsNote(pieces[(m + 1) + 2].atoms, <<"note", d.id, d.lesson_id, d.lesson_url>>)
  <2>1. (m + 1) + 2 = m + 3
    BY <1>14
  <2> QED BY <2>1, <1>19, <1>8
<1>25. m + 1 \in 5..8 /\ m + 1 \in Nat /\ m + 1 > 1
  BY <1>14
<1>26. pieces[m + 1].atoms = <<EndOfLine>>
  BY <1>18, <1>7
<1>27. IsTextRecord(d, pieces, m + 1)
  BY <1>16, <1>21, <1>22, <1>23, <1>24, <1>25, <1>26, Zenon DEF IsTextRecord
<1>28. write_text(d) = pieces
  BY <1>1 DEF pieces, s2, s1
<1> QED BY <1>25, <1>27, <1>28

\* A piece that names no severity but the three.
IsMember(piece) ==
  IsPiece(piece) /\ \A i \in 1..Len(piece.atoms) :
                      piece.atoms[i][1] = "severity" => piece.atoms[i][2] # "unknown"

\* The pieces of a JSON object: the lesson, if there is one, is the last but one.
IsJsonRecord(d, pieces) ==
  /\ IsSeq(pieces) /\ Len(pieces) \in Nat /\ Len(pieces) > 1
  /\ \A j \in 1..Len(pieces) : IsMember(pieces[j])
  /\ pieces[Len(pieces)].atoms = <<Mark("}")>>
  /\ \E atom : /\ pieces[Len(pieces) - 1].atoms = <<atom>>
               /\ IF HasLesson(d)
                    THEN atom = <<"lesson", d.lesson_id, d.lesson_path, d.lesson_url>>
                    ELSE atom[1] # "lesson"

LEMMA SixIsSeq ==
  ASSUME NEW a, NEW b, NEW c, NEW d, NEW e, NEW f
  PROVE  LET s == <<a, b, c, d, e, f>>
         IN  /\ IsSeq(s) /\ Len(s) = 6
             /\ s[1] = a /\ s[2] = b /\ s[3] = c /\ s[4] = d /\ s[5] = e /\ s[6] = f
<1>1. <<a, b, c, d, e, f>> \in Seq({a, b, c, d, e, f}) /\ Len(<<a, b, c, d, e, f>>) = 6
  OBVIOUS
<1> QED BY <1>1 DEF IsSeq

LEMMA AtomIsMember ==
  ASSUME NEW atom, atom[1] # "severity" \/ atom[2] # "unknown"
  PROVE  IsMember(Counted(<<atom>>)) /\ IsMember(Zeroed(<<atom>>))
<1>1. IsSeq(<<atom>>) /\ Len(<<atom>>) = 1 /\ <<atom>>[1] = atom
  BY OneIsSeq
<1> QED BY <1>1 DEF IsMember, IsPiece, Counted, Zeroed

LEMMA JsonIsRecord ==
  ASSUME NEW d, IsDiagnostic(d)
  PROVE  IsJsonRecord(d, write_json(d))
<1> DEFINE OrEmpty(text) == IF text = Null THEN <<>> ELSE text
           open == Zeroed(<<Mark("{"), Member("id", d.id)>>)
           severity == Zeroed(<<Member("severity", severity_name(d.severity))>>)
           path == Zeroed(<<Member("path", OrEmpty(d.path))>>)
           line == Counted(<<Mark("line, column")>>)
           function == Zeroed(<<Member("function", OrEmpty(d.function_name))>>)
           message == Zeroed(<<Member("message", d.message)>>)
           note == Counted(<< <<"lesson", d.lesson_id, d.lesson_path, d.lesson_url>> >>)
           close == Counted(<<Mark("}")>>)
           start == <<open, severity, path, line, function, message>>
           lesson == IF LessonInJson(d) THEN <<note>> ELSE <<>>
<1>1. write_json(d) = (start \o lesson) \o <<close>>
  BY Zenon DEF write_json
<1>2. IsMember(open)
  <2>1. Mark("{")[1] # "severity" /\ Member("id", d.id)[1] # "severity"
    BY DEF Mark, Member
  <2> DEFINE atoms == <<Mark("{"), Member("id", d.id)>>
  <2>2. IsSeq(atoms) /\ Len(atoms) = 2 /\ atoms[1] = Mark("{") /\ atoms[2] = Member("id", d.id)
    BY TwoIsSeq
  <2>5. Len(atoms) = 2
    BY <2>2
  <2> HIDE DEF atoms
  <2>3. ASSUME NEW i \in 1..Len(atoms) PROVE atoms[i][1] # "severity"
    <3>1. i = 1 \/ i = 2
      BY <2>5
    <3> QED BY <2>1, <2>2, <3>1, Zenon
  <2>4. IsMember(Zeroed(atoms))
    BY <2>2, <2>3 DEF IsMember, IsPiece, Zeroed
  <2> QED BY <2>4 DEF atoms
<1>3. IsMember(severity)
  <2>1. severity_name(d.severity) # "unknown"
    BY DEF IsDiagnostic, severity_name
  <2>2. Member("severity", severity_name(d.severity))[2] # "unknown"
    BY <2>1 DEF Member
  <2> QED BY <2>2, AtomIsMember
<1>4. IsMember(path) /\ IsMember(function) /\ IsMember(message)
  <2>1. \A t : /\ Member("path", t)[1] # "severity" /\ Member("function", t)[1] # "severity"
               /\ Member("message", t)[1] # "severity"
    BY DEF Member
  <2> QED BY <2>1, AtomIsMember
<1>5. IsMember(line) /\ IsMember(close)
  <2>1. \A m : Mark(m)[1] # "severity"
    BY DEF Mark
  <2> QED BY <2>1, AtomIsMember
<1>6. IsMember(note)
  <2> DEFINE atom == <<"lesson", d.lesson_id, d.lesson_path, d.lesson_url>>
  <2>1. atom[1] # "severity"
    OBVIOUS
  <2> HIDE DEF atom
  <2>2. IsMember(Counted(<<atom>>))
    BY <2>1, AtomIsMember
  <2> QED BY <2>2 DEF atom
<1>7. /\ close.atoms = <<Mark("}")>> /\ message.atoms = <<Member("message", d.message)>>
      /\ note.atoms = << <<"lesson", d.lesson_id, d.lesson_path, d.lesson_url>> >>
      /\ Member("message", d.message)[1] # "lesson"
  BY DEF Counted, Zeroed, Member
<1> HIDE DEF open, severity, path, line, function, message, note, close
<1>8. /\ IsSeq(start) /\ Len(start) = 6
      /\ start[1] = open /\ start[2] = severity /\ start[3] = path
      /\ start[4] = line /\ start[5] = function /\ start[6] = message
  BY SixIsSeq
<1>9. /\ IsSeq(lesson) /\ Len(lesson) = IF HasLesson(d) THEN 1 ELSE 0
      /\ HasLesson(d) => lesson[1] = note
  BY OneIsSeq, EmptyIsSeq DEF LessonInJson
<1>10. IsSeq(<<close>>) /\ Len(<<close>>) = 1 /\ <<close>>[1] = close
  BY OneIsSeq
<1> DEFINE m == 6 + Len(lesson)
           s1 == start \o lesson
           pieces == s1 \o <<close>>
<1> HIDE DEF start, lesson
<1>11. (m = 6 /\ ~HasLesson(d)) \/ (m = 7 /\ HasLesson(d))
  BY <1>9
<1>12. /\ IsSeq(s1) /\ Len(s1) = m /\ \A i \in 1..6 : s1[i] = start[i]
       /\ HasLesson(d) => s1[7] = note
  <2>1. /\ IsSeq(s1) /\ Len(s1) = Len(start) + Len(lesson)
        /\ \A i \in 1..Len(start) : s1[i] = start[i]
        /\ \A i \in 1..Len(lesson) : s1[Len(start) + i] = lesson[i]
    <3>1. IsSeq(start) /\ IsSeq(lesson)
      BY <1>8, <1>9
    <3> QED BY <3>1, ConcatAt
  <2> HIDE DEF s1
  <2>2. HasLesson(d) => s1[7] = note
    BY <2>1, <1>8, <1>9
  <2> QED BY <2>1, <2>2, <1>8
<1> HIDE DEF s1, m
<1>13. IsSeq(pieces) /\ Len(pieces) = m + 1 /\ (\A i \in 1..m : pieces[i] = s1[i]) /\ pieces[m + 1] = close
  BY <1>10, <1>12, <1>11, ConcatAt
<1> HIDE DEF pieces
<1>14. ASSUME NEW j \in 1..Len(pieces) PROVE IsMember(pieces[j])
  <2>1. CASE j = m + 1
    BY <2>1, <1>13, <1>5
  <2>2. CASE j \in 1..6
    <3>1. pieces[j] = start[j]
      BY <2>2, <1>11, <1>12, <1>13
    <3> QED BY <3>1, <2>2, <1>2, <1>3, <1>4, <1>5, <1>8
  <2>3. CASE j = 7 /\ HasLesson(d) /\ m = 7
    BY <2>3, <1>6, <1>12, <1>13
  <2> QED BY <2>1, <2>2, <2>3, <1>11, <1>13
<1>15. pieces[m] = IF HasLesson(d) THEN note ELSE message
  BY <1>8, <1>11, <1>12, <1>13
<1>16. (m + 1) - 1 = m /\ m + 1 \in Nat /\ m + 1 > 1
  BY <1>11
<1>17. \E atom : /\ pieces[(m + 1) - 1].atoms = <<atom>>
                 /\ IF HasLesson(d)
                      THEN atom = <<"lesson", d.lesson_id, d.lesson_path, d.lesson_url>>
                      ELSE atom[1] # "lesson"
  <2>1. CASE HasLesson(d)
    BY <2>1, <1>7, <1>15, <1>16
  <2>2. CASE ~HasLesson(d)
    BY <2>2, <1>7, <1>15, <1>16
  <2> QED BY <2>1, <2>2
<1>18. pieces[m + 1].atoms = <<Mark("}")>>
  BY <1>7, <1>13
<1>19. IsJsonRecord(d, pieces)
  BY <1>13, <1>14, <1>16, <1>17, <1>18, Zenon DEF IsJsonRecord
<1>20. write_json(d) = pieces
  BY <1>1 DEF pieces, s1
<1> QED BY <1>19, <1>20

-----------------------------------------------------------------------------
(* A record on its way into a stream.                                      *)

\* text ends in s.
EndsIn(text, s) ==
  /\ Len(s) <= Len(text)
  /\ \A i \in 1..Len(s) : text[Len(text) - Len(s) + i] = s[i]

\* rest is what is left of all, and the text ends in the pieces before it.
InRecord(all, text, rest) ==
  LET j == Len(all) - Len(rest)
  IN  /\ IsSeq(rest) /\ j \in 0..Len(all)
      /\ \A i \in 1..Len(rest) : rest[i] = all[j + i]
      /\ j > 0 => EndsIn(text, all[j].atoms)
      /\ j > 1 => EndsIn(text, all[j - 1].atoms \o all[j].atoms)

\* The last two pieces of a record.
Final(all) == all[Len(all) - 1].atoms \o all[Len(all)].atoms

\* A line that ends at i ends behind a record, or inside an id or a lesson's text.
LineIsRight(text, i) ==
  \/ i > 1 /\ (text[i - 1] = Mark(")") \/ text[i - 1][1] \in {"id", "note"})
  \/ i < Len(text) /\ Ragged(text[i + 1])

LinesAreRight(text) ==
  \A i \in 1..Len(text) : text[i] = EndOfLine => LineIsRight(text, i)

SeveritiesAreRight(text) ==
  \A i \in 1..Len(text) : text[i][1] = "severity" => text[i][2] # "unknown"

PiecesAre(all) == IsSeq(all) /\ \A j \in 1..Len(all) : IsPiece(all[j])

LEMMA EndsInWhatIsAdded ==
  ASSUME NEW f, NEW s, IsSeq(f), IsSeq(s)
  PROVE  EndsIn(f \o s, s)
BY ConcatAt DEF EndsIn

LEMMA EndsInMore ==
  ASSUME NEW f, NEW t, NEW s, IsSeq(f), IsSeq(t), IsSeq(s), EndsIn(f, t)
  PROVE  EndsIn(f \o s, t \o s)
<1>1. /\ Len(f) \in Nat /\ Len(t) \in Nat /\ Len(s) \in Nat
      /\ Len(f \o s) = Len(f) + Len(s) /\ Len(t \o s) = Len(t) + Len(s)
      /\ Len(t) <= Len(f)
  BY ConcatAt DEF EndsIn
<1>2. ASSUME NEW i \in 1..(Len(t) + Len(s))
      PROVE  (f \o s)[Len(f) - Len(t) + i] = (t \o s)[i]
  <2>1. CASE i \in 1..Len(t)
    <3>1. (t \o s)[i] = t[i]
      BY <2>1, ConcatAt
    <3>2. Len(f) - Len(t) + i \in 1..Len(f)
      BY <2>1, <1>1
    <3>3. (f \o s)[Len(f) - Len(t) + i] = f[Len(f) - Len(t) + i]
      BY <3>2, ConcatAt
    <3> QED BY <2>1, <3>1, <3>3 DEF EndsIn
  <2>2. CASE i \notin 1..Len(t)
    <3>1. i \in (Len(t) + 1)..(Len(t) + Len(s))
      BY <2>2, <1>1
    <3>2. (t \o s)[i] = s[i - Len(t)]
      BY <3>1, ConcatAt
    <3>3. Len(f) - Len(t) + i \in (Len(f) + 1)..(Len(f) + Len(s))
      BY <3>1, <1>1
    <3>4. (f \o s)[Len(f) - Len(t) + i] = s[(Len(f) - Len(t) + i) - Len(f)]
      BY <3>3, ConcatAt
    <3>5. (Len(f) - Len(t) + i) - Len(f) = i - Len(t)
      BY <3>1, <1>1
    <3> QED BY <3>2, <3>4, <3>5
  <2> QED BY <2>1, <2>2
<1>3. Len(f \o s) - Len(t \o s) = Len(f) - Len(t)
  BY <1>1
<1> QED BY <1>1, <1>2, <1>3 DEF EndsIn

\* The last two elements of what a text ends in are its own.
LEMMA EndsAlike ==
  ASSUME NEW f, NEW s, IsSeq(f), IsSeq(s), EndsIn(f, s), Len(s) > 0
  PROVE  /\ Len(f) > 0 /\ f[Len(f)] = s[Len(s)]
         /\ Len(s) > 1 => Len(f) > 1 /\ f[Len(f) - 1] = s[Len(s) - 1]
<1>1. Len(f) \in Nat /\ Len(s) \in Nat /\ Len(s) <= Len(f)
  BY DEF IsSeq, EndsIn
<1>2. \A i \in 1..Len(s) : f[Len(f) - Len(s) + i] = s[i]
  BY DEF EndsIn
<1>3. f[Len(f)] = s[Len(s)]
  <2>1. f[Len(f) - Len(s) + Len(s)] = s[Len(s)]
    BY <1>1, <1>2
  <2>2. Len(f) - Len(s) + Len(s) = Len(f)
    BY <1>1
  <2> QED BY <2>1, <2>2
<1>4. Len(s) > 1 => f[Len(f) - 1] = s[Len(s) - 1]
  <2>1. Len(s) > 1 => f[Len(f) - Len(s) + (Len(s) - 1)] = s[Len(s) - 1]
    BY <1>1, <1>2
  <2>2. Len(f) - Len(s) + (Len(s) - 1) = Len(f) - 1
    BY <1>1
  <2> QED BY <2>1, <2>2
<1> QED BY <1>1, <1>3, <1>4

\* A piece goes out.
LEMMA RecordGrows ==
  ASSUME NEW all, PiecesAre(all), NEW text, IsSeq(text), NEW rest, InRecord(all, text, rest),
         rest # <<>>
  PROVE  /\ rest[1] = all[Len(all) - Len(rest) + 1] /\ Len(all) - Len(rest) \in 0..(Len(all) - 1)
         /\ IsPiece(rest[1]) /\ Head(rest) = rest[1]
         /\ InRecord(all, text \o rest[1].atoms, Tail(rest))
<1> DEFINE j == Len(all) - Len(rest)
           atoms == rest[1].atoms
<1>1. /\ IsSeq(rest) /\ Len(rest) \in Nat /\ Len(all) \in Nat /\ j \in 0..Len(all)
      /\ \A i \in 1..Len(rest) : rest[i] = all[j + i]
      /\ j > 0 => EndsIn(text, all[j].atoms)
  BY DEF InRecord, PiecesAre, IsSeq
<1>2. Len(rest) > 0
  BY <1>1 DEF IsSeq
<1>3. /\ IsSeq(Tail(rest)) /\ Len(Tail(rest)) = Len(rest) - 1 /\ Head(rest) = rest[1]
      /\ \A i \in 1..(Len(rest) - 1) : Tail(rest)[i] = rest[i + 1]
  <2>1. PICK S : rest \in Seq(S)
    BY <1>1 DEF IsSeq
  <2>2. Tail(rest) \in Seq(S) /\ Len(Tail(rest)) = Len(rest) - 1 /\ Head(rest) = rest[1]
    BY <2>1, <1>2
  <2>3. \A i \in 1..(Len(rest) - 1) : Tail(rest)[i] = rest[i + 1]
    BY <2>1, <1>2
  <2> QED BY <2>2, <2>3 DEF IsSeq
<1>4. j + 1 \in 1..Len(all) /\ rest[1] = all[j + 1]
  BY <1>1, <1>2
<1>5. IsPiece(rest[1]) /\ IsSeq(atoms)
  BY <1>4 DEF PiecesAre, IsPiece
<1>6. j > 0 => IsSeq(all[j].atoms)
  BY <1>1 DEF PiecesAre, IsPiece
<1>7. EndsIn(text \o atoms, atoms)
  BY <1>5, EndsInWhatIsAdded
<1>8. j > 0 => EndsIn(text \o atoms, all[j].atoms \o atoms)
  BY <1>1, <1>5, <1>6, EndsInMore
<1> HIDE DEF atoms
<1>9. Len(all) - Len(Tail(rest)) = j + 1
  BY <1>1, <1>3
<1>10. \A i \in 1..Len(Tail(rest)) : Tail(rest)[i] = all[(j + 1) + i]
  <2>1. ASSUME NEW i \in 1..Len(Tail(rest)) PROVE Tail(rest)[i] = all[(j + 1) + i]
    <3>1. i + 1 \in 1..Len(rest) /\ i \in 1..(Len(rest) - 1)
      BY <1>1, <1>3
    <3>2. Tail(rest)[i] = rest[i + 1] /\ rest[i + 1] = all[j + (i + 1)]
      BY <3>1, <1>1, <1>3
    <3>3. j + (i + 1) = (j + 1) + i
      BY <1>1
    <3> QED BY <3>2, <3>3
  <2> QED BY <2>1
<1>11. EndsIn(text \o atoms, all[j + 1].atoms)
  BY <1>4, <1>7 DEF atoms
<1>12. j + 1 > 1 => EndsIn(text \o atoms, all[(j + 1) - 1].atoms \o all[j + 1].atoms)
  <2>1. (j + 1) - 1 = j /\ (j + 1 > 1 => j > 0)
    BY <1>1
  <2> QED BY <2>1, <1>4, <1>8 DEF atoms
<1> HIDE DEF j
<1>13. InRecord(all, text \o atoms, Tail(rest))
  BY <1>3, <1>4, <1>9, <1>10, <1>11, <1>12 DEF InRecord
<1> QED BY <1>1, <1>3, <1>4, <1>5, <1>13 DEF j, atoms

LEMMA RecordStarts ==
  ASSUME NEW all, IsSeq(all), NEW text
  PROVE  InRecord(all, text, all)
<1>1. Len(all) \in Nat /\ Len(all) - Len(all) = 0
  BY DEF IsSeq
<1>2. \A i \in 1..Len(all) : all[i] = all[0 + i]
  BY <1>1
<1> QED BY <1>1, <1>2 DEF InRecord

LEMMA RecordIsOut ==
  ASSUME NEW all, Len(all) \in Nat, Len(all) > 1, NEW text, InRecord(all, text, <<>>)
  PROVE  EndsIn(text, Final(all))
<1>1. Len(all) - Len(<<>>) = Len(all)
  OBVIOUS
<1> QED BY <1>1 DEF InRecord, Final

\* A part of a piece, from its start.
LEMMA PartOfPiece ==
  ASSUME NEW atoms, IsSeq(atoms), NEW n \in 0..Len(atoms), NEW text, IsSeq(text),
         NEW longer, longer = text \o SubSeq(atoms, 1, n)
  PROVE  /\ IsSeq(longer) /\ Len(longer) = Len(text) + n /\ Len(text) \in Nat /\ n \in Nat
         /\ \A i \in 1..Len(text) : longer[i] = text[i]
         /\ \A i \in 1..n : longer[Len(text) + i] = atoms[i]
<1> DEFINE part == SubSeq(atoms, 1, n)
<1>1. IsSeq(part) /\ Len(part) = n
  BY PrefixIsSeq
<1>2. \A i \in 1..n : part[i] = atoms[i]
  <2>1. PICK S : atoms \in Seq(S)
    BY DEF IsSeq
  <2> QED BY <2>1
<1>3. n \in Nat
  BY DEF IsSeq
<1> HIDE DEF part
<1>4. longer = text \o part
  BY DEF part
<1>5. /\ IsSeq(longer) /\ Len(longer) = Len(text) + n /\ Len(text) \in Nat
      /\ \A i \in 1..Len(text) : longer[i] = text[i]
      /\ \A i \in 1..n : longer[Len(text) + i] = part[i]
  <2>1. /\ IsSeq(text \o part) /\ Len(text \o part) = Len(text) + Len(part) /\ Len(text) \in Nat
        /\ \A i \in 1..Len(text) : (text \o part)[i] = text[i]
        /\ \A i \in 1..Len(part) : (text \o part)[Len(text) + i] = part[i]
    <3>1. IsSeq(part)
      BY <1>1
    <3>2. IsSeq(text \o part) /\ Len(text \o part) = Len(text) + Len(part) /\ Len(text) \in Nat
      BY <3>1, ConcatAt
    <3>3. \A i \in 1..Len(text) : (text \o part)[i] = text[i]
      BY <3>1, ConcatAt
    <3>4. \A i \in 1..Len(part) : (text \o part)[Len(text) + i] = part[i]
      BY <3>1, ConcatAt
    <3> QED BY <3>2, <3>3, <3>4
  <2> QED BY <2>1, <1>1, <1>4, Zenon
<1>6. \A i \in 1..n : longer[Len(text) + i] = atoms[i]
  BY <1>2, <1>5
<1> QED BY <1>3, <1>5, <1>6

\* A whole piece keeps the lines right; part of one may leave the line feed of an id at
\* the end of the stream.
LEMMA LinesGrow ==
  ASSUME NEW d, NEW all, NEW e, IsTextRecord(d, all, e), NEW text, IsSeq(text),
         LinesAreRight(text), NEW rest, InRecord(all, text, rest), rest # <<>>
  PROVE  LinesAreRight(text \o rest[1].atoms)
<1> DEFINE j == Len(all) - Len(rest)
           piece == rest[1]
           atoms == piece.atoms
           longer == text \o atoms
           Right(i) == longer[i] = EndOfLine => LineIsRight(longer, i)
<1>1. PiecesAre(all)
  BY DEF IsTextRecord, PiecesAre
<1>2. piece = all[j + 1] /\ j \in 0..(Len(all) - 1) /\ IsPiece(piece) /\ Len(all) \in Nat
  BY <1>1, RecordGrows DEF PiecesAre, IsSeq
<1>3. /\ Len(longer) = Len(text) + Len(atoms) /\ Len(text) \in Nat /\ Len(atoms) \in Nat
      /\ \A i \in 1..Len(text) : longer[i] = text[i]
      /\ \A i \in 1..Len(atoms) : longer[Len(text) + i] = atoms[i]
  <2>1. IsSeq(atoms)
    BY <1>2 DEF IsPiece
  <2> HIDE DEF atoms
  <2>2. Len(longer) = Len(text) + Len(atoms) /\ Len(text) \in Nat /\ Len(atoms) \in Nat
    BY <2>1, ConcatAt
  <2>3. \A i \in 1..Len(text) : longer[i] = text[i]
    BY <2>1, ConcatAt
  <2>4. \A i \in 1..Len(atoms) : longer[Len(text) + i] = atoms[i]
    BY <2>1, ConcatAt
  <2> QED BY <2>2, <2>3, <2>4
<1> HIDE DEF longer
<1>4. ASSUME NEW i \in 1..Len(text) PROVE Right(i)
  <2>1. longer[i] = text[i] /\ (i > 1 => longer[i - 1] = text[i - 1])
    <3>1. i > 1 => i - 1 \in 1..Len(text)
      BY <1>3
    <3> QED BY <3>1, <1>3
  <2>2. i < Len(text) => i < Len(longer) /\ longer[i + 1] = text[i + 1]
    BY <1>3
  <2>3. text[i] = EndOfLine => LineIsRight(text, i)
    BY DEF LinesAreRight
  <2> QED BY <2>1, <2>2, <2>3 DEF LineIsRight
<1>5. ASSUME NEW i \in 1..Len(atoms) PROVE Right(Len(text) + i)
  <2>1. longer[Len(text) + i] = atoms[i]
    BY <1>3
  <2>2. CASE j + 1 = e
    <3>1. atoms = <<EndOfLine>> /\ Len(atoms) = 1
      BY <2>2, <1>2, OneIsSeq DEF IsTextRecord
    <3>2. i = 1
      BY <3>1
    <3> DEFINE s == all[j].atoms
    <3>3. EndsWell(s)
      <4>1. e - 1 = j
        BY <2>2, <1>2
      <4> QED BY <4>1 DEF IsTextRecord
    <3>4. j > 0 /\ j \in 1..Len(all)
      BY <2>2, <1>2 DEF IsTextRecord
    <3>5. EndsIn(text, s) /\ IsSeq(s)
      BY <1>1, <3>4 DEF InRecord, PiecesAre, IsPiece
    <3> HIDE DEF s
    <3>6. Len(text) > 0 /\ text[Len(text)] = s[Len(s)]
      BY <3>3, <3>5, EndsAlike DEF EndsWell
    <3>7. /\ longer[Len(text)] = s[Len(s)] /\ Len(text) + i > 1
          /\ (Len(text) + i) - 1 = Len(text)
      BY <3>2, <3>6, <1>3
    <3> QED BY <3>3, <3>7 DEF EndsWell, LineIsRight
  <2>3. CASE j + 1 = e + 2
    <3> DEFINE note == <<"note", d.id, d.lesson_id, d.lesson_url>>
    <3>1. HasLesson(d)
      BY <2>3, <1>2 DEF IsTextRecord
    <3>2. IsNote(atoms, note)
      BY <2>3, <3>1, <1>2 DEF IsTextRecord
    <3>3. note[1] = "note" /\ note # EndOfLine
      BY DEF EndOfLine, Char
    <3> HIDE DEF note, atoms
    <3>4. /\ Len(atoms) \in {2, 3} /\ atoms[Len(atoms) - 1] = note
          /\ Len(atoms) = 3 => HoldsLineFeed(note)
      BY <3>2 DEF IsNote
    <3>5. CASE i = Len(atoms)
      <4>1. /\ (Len(text) + i) - 1 = Len(text) + (Len(atoms) - 1)
            /\ Len(atoms) - 1 \in 1..Len(atoms) /\ Len(text) + i > 1
        BY <3>4, <3>5, <1>3
      <4>2. longer[Len(text) + (Len(atoms) - 1)] = note
        BY <4>1, <3>4, <1>3
      <4> QED BY <4>1, <4>2, <3>3 DEF LineIsRight
    <3>6. CASE i = Len(atoms) - 1
      BY <3>3, <3>4, <3>6, <2>1
    <3>7. CASE i \notin {Len(atoms) - 1, Len(atoms)}
      <4>1. Len(atoms) = 3 /\ i = 1
        <5>1. i \in 1..Len(atoms) /\ i # Len(atoms) /\ i # Len(atoms) - 1
          BY <3>7
        <5>2. CASE Len(atoms) = 2
          BY <5>1, <5>2
        <5>3. CASE Len(atoms) = 3
          BY <5>1, <5>3
        <5> QED BY <5>2, <5>3, <3>4
      <4>2. atoms[2] = note /\ Ragged(note)
        BY <4>1, <3>3, <3>4 DEF Ragged
      <4>3. (Len(text) + i) + 1 = Len(text) + 2 /\ 2 \in 1..Len(atoms) /\ Len(text) + i < Len(longer)
        BY <4>1, <1>3
      <4>4. longer[Len(text) + 2] = note
        BY <4>2, <4>3, <1>3
      <4> QED BY <4>2, <4>3, <4>4 DEF LineIsRight
    <3> QED BY <3>5, <3>6, <3>7
  <2>4. CASE j + 1 \notin {e, e + 2}
    <3>1. IsPlain(piece)
      <4>1. j + 1 \in 1..Len(all)
        BY <1>2
      <4>2. IsPlain(all[j + 1])
        BY <4>1, <2>4 DEF IsTextRecord
      <4> QED BY <4>2, <1>2
    <3>2. atoms[i] = EndOfLine => i < Len(atoms) /\ Ragged(atoms[i + 1])
      BY <3>1 DEF IsPlain
    <3> HIDE DEF atoms
    <3>3. i < Len(atoms) =>
            /\ (Len(text) + i) + 1 = Len(text) + (i + 1) /\ i + 1 \in 1..Len(atoms)
            /\ Len(text) + i < Len(longer)
      BY <1>3
    <3>4. i < Len(atoms) => longer[(Len(text) + i) + 1] = atoms[i + 1]
      BY <3>3, <1>3
    <3> QED BY <3>2, <3>3, <3>4, <2>1 DEF LineIsRight
  <2> QED BY <2>2, <2>3, <2>4
<1>6. ASSUME NEW i \in 1..Len(longer) PROVE Right(i)
  <2>1. CASE i \in 1..Len(text)
    BY <2>1, <1>4
  <2>2. CASE i \notin 1..Len(text)
    <3> HIDE DEF atoms
    <3>1. i - Len(text) \in 1..Len(atoms) /\ Len(text) + (i - Len(text)) = i
      BY <2>2, <1>3
    <3> HIDE DEF Right
    <3> QED BY <3>1, <1>5
  <2> QED BY <2>1, <2>2
<1> QED BY <1>6 DEF LinesAreRight, longer

LEMMA SeveritiesGrow ==
  ASSUME NEW piece, IsMember(piece), NEW text, IsSeq(text), SeveritiesAreRight(text),
         NEW n \in 0..Len(piece.atoms)
  PROVE  SeveritiesAreRight(text \o SubSeq(piece.atoms, 1, n))
<1> DEFINE longer == text \o SubSeq(piece.atoms, 1, n)
           Right(a) == a[1] = "severity" => a[2] # "unknown"
<1>1. /\ Len(longer) = Len(text) + n /\ Len(text) \in Nat /\ n \in Nat
      /\ \A i \in 1..Len(text) : longer[i] = text[i]
      /\ \A i \in 1..n : longer[Len(text) + i] = piece.atoms[i]
  <2>1. IsSeq(piece.atoms)
    BY DEF IsMember, IsPiece
  <2>2. longer = text \o SubSeq(piece.atoms, 1, n)
    OBVIOUS
  <2> HIDE DEF longer
  <2> QED BY <2>1, <2>2, PartOfPiece
<1>2. \A i \in 1..Len(text) : Right(text[i])
  BY DEF SeveritiesAreRight
<1>3. \A i \in 1..n : Right(piece.atoms[i])
  BY DEF IsMember, IsPiece, IsSeq
<1> HIDE DEF longer, Right
<1>4. ASSUME NEW i \in 1..Len(longer) PROVE Right(longer[i])
  <2>1. CASE i \in 1..Len(text)
    BY <2>1, <1>1, <1>2
  <2>2. CASE i \notin 1..Len(text)
    <3>1. i - Len(text) \in 1..n /\ Len(text) + (i - Len(text)) = i
      BY <2>2, <1>1
    <3>2. longer[i] = piece.atoms[i - Len(text)]
      BY <3>1, <1>1
    <3> QED BY <3>1, <3>2, <1>3
  <2> QED BY <2>1, <2>2
<1> QED BY <1>4 DEF SeveritiesAreRight, longer, Right

LEMMA EndsInPieces ==
  ASSUME NEW f, NEW s, NEW t, IsSeq(f), IsSeq(s), IsSeq(t), EndsIn(f, s \o t), Len(t) > 0
  PROVE  /\ f[Len(f)] = t[Len(t)]
         /\ Len(t) > 1 => Len(f) > 1 /\ f[Len(f) - 1] = t[Len(t) - 1]
         /\ Len(t) = 1 /\ Len(s) > 0 => Len(f) > 1 /\ f[Len(f) - 1] = s[Len(s)]
<1> DEFINE u == s \o t
<1>1. /\ IsSeq(u) /\ Len(u) = Len(s) + Len(t) /\ Len(s) \in Nat /\ Len(t) \in Nat
      /\ \A i \in 1..Len(s) : u[i] = s[i]
  BY ConcatAt
<1>2. \A i \in 1..Len(t) : u[Len(s) + i] = t[i]
  BY ConcatAt
<1>3. EndsIn(f, u)
  OBVIOUS
<1> HIDE DEF u
<1>4. Len(u) > 0
  BY <1>1
<1>5. /\ f[Len(f)] = u[Len(u)]
      /\ Len(u) > 1 => Len(f) > 1 /\ f[Len(f) - 1] = u[Len(u) - 1]
  BY <1>1, <1>3, <1>4, EndsAlike
<1>6. u[Len(u)] = t[Len(t)]
  BY <1>1, <1>2
<1>7. Len(t) > 1 => Len(u) > 1 /\ u[Len(u) - 1] = t[Len(t) - 1]
  <2>1. Len(t) > 1 => Len(u) - 1 = Len(s) + (Len(t) - 1) /\ Len(t) - 1 \in 1..Len(t)
    BY <1>1
  <2> QED BY <2>1, <1>1, <1>2
<1>8. Len(t) = 1 /\ Len(s) > 0 => Len(u) > 1 /\ u[Len(u) - 1] = s[Len(s)]
  <2>1. Len(t) = 1 /\ Len(s) > 0 => Len(u) - 1 = Len(s) /\ Len(s) \in 1..Len(s)
    BY <1>1
  <2> QED BY <2>1, <1>1
<1> QED BY <1>5, <1>6, <1>7, <1>8

NoteIsRight(atom) ==
  LET rule == lookup_id(atom[2])
  IN  rule # Null => atom[3] = rule.lesson_id /\ atom[4] = rule.lesson_url

NotesAreRight(text) == \A i \in 1..Len(text) : text[i][1] = "note" => NoteIsRight(text[i])

LEMMA NotesGrow ==
  ASSUME NEW d, HasLesson(d) => Catalogued(d), NEW all, NEW e, IsTextRecord(d, all, e),
         NEW k \in 1..Len(all), NEW n \in 0..Len(all[k].atoms),
         NEW text, IsSeq(text), NotesAreRight(text)
  PROVE  NotesAreRight(text \o SubSeq(all[k].atoms, 1, n))
<1> DEFINE atoms == all[k].atoms
           longer == text \o SubSeq(atoms, 1, n)
           Right(a) == a[1] = "note" => NoteIsRight(a)
<1>1. /\ Len(longer) = Len(text) + n /\ Len(text) \in Nat /\ n \in Nat
      /\ \A i \in 1..Len(text) : longer[i] = text[i]
      /\ \A i \in 1..n : longer[Len(text) + i] = atoms[i]
  <2>1. IsSeq(atoms) /\ n \in 0..Len(atoms)
    BY DEF IsTextRecord, IsPiece
  <2>2. longer = text \o SubSeq(atoms, 1, n)
    OBVIOUS
  <2> HIDE DEF longer, atoms
  <2> QED BY <2>1, <2>2, PartOfPiece
<1>2. \A i \in 1..Len(text) : Right(text[i])
  BY DEF NotesAreRight
<1>3. ASSUME NEW i \in 1..n PROVE Right(atoms[i])
  <2>1. CASE k = e
    <3>1. atoms = <<EndOfLine>>
      BY <2>1 DEF IsTextRecord
    <3>2. Len(atoms) = 1 /\ atoms[1] = EndOfLine
      BY <3>1, OneIsSeq
    <3>3. EndOfLine[1] # "note"
      BY DEF EndOfLine, Char
    <3>4. i = 1
      BY <3>2, <1>1
    <3> QED BY <3>2, <3>3, <3>4
  <2>2. CASE k = e + 2
    <3> DEFINE note == <<"note", d.id, d.lesson_id, d.lesson_url>>
    <3>1. HasLesson(d)
      BY <2>2 DEF IsTextRecord, IsSeq
    <3>2. IsNote(atoms, note)
      BY <2>2, <3>1 DEF IsTextRecord
    <3>3. NoteIsRight(note)
      BY <3>1 DEF NoteIsRight, Catalogued
    <3>4. EndOfLine[1] # "note"
      BY DEF EndOfLine, Char
    <3>5. n \in 0..Len(atoms)
      OBVIOUS
    <3> HIDE DEF note, atoms
    <3>6. /\ Len(atoms) \in {2, 3} /\ atoms[Len(atoms)] = EndOfLine /\ atoms[Len(atoms) - 1] = note
          /\ Len(atoms) = 3 => atoms[1] = EndOfLine
      BY <3>2 DEF IsNote
    <3>7. i = Len(atoms) \/ i = Len(atoms) - 1 \/ (i = 1 /\ Len(atoms) = 3)
      <4>1. i \in 1..Len(atoms)
        BY <3>6, <3>5
      <4>2. CASE Len(atoms) = 2
        BY <4>1, <4>2
      <4>3. CASE Len(atoms) = 3
        BY <4>1, <4>3
      <4> QED BY <4>2, <4>3, <3>6
    <3>8. atoms[i] = EndOfLine \/ atoms[i] = note
      BY <3>6, <3>7
    <3> QED BY <3>3, <3>4, <3>8
  <2>3. CASE k \notin {e, e + 2}
    <3>1. IsPlain(all[k])
      BY <2>3 DEF IsTextRecord
    <3> QED BY <3>1 DEF IsPlain, IsPiece, IsSeq
  <2> QED BY <2>1, <2>2, <2>3
<1> HIDE DEF longer, Right
<1>4. ASSUME NEW i \in 1..Len(longer) PROVE Right(longer[i])
  <2>1. CASE i \in 1..Len(text)
    BY <2>1, <1>1, <1>2
  <2>2. CASE i \notin 1..Len(text)
    <3>1. i - Len(text) \in 1..n /\ Len(text) + (i - Len(text)) = i
      BY <2>2, <1>1
    <3>2. longer[i] = atoms[i - Len(text)]
      BY <3>1, <1>1
    <3> QED BY <3>1, <3>2, <1>3
  <2> QED BY <2>1, <2>2
<1> QED BY <1>4 DEF NotesAreRight, longer, Right

\* What stands at the end of the human stream when its record is done.
LEMMA TextIsOut ==
  ASSUME NEW d, NEW all, NEW e, IsTextRecord(d, all, e), NEW text, IsSeq(text),
         EndsIn(text, Final(all))
  PROVE  /\ Len(text) > 1 /\ text[Len(text)] = EndOfLine
         /\ HasLesson(d) =>
              Before(text) = <<"note", d.id, d.lesson_id, d.lesson_url>>
         /\ ~HasLesson(d) => Before(text)[1] # "note"
<1> DEFINE s == all[Len(all) - 1].atoms
           t == all[Len(all)].atoms
<1>1. Len(all) \in Nat /\ Len(all) > 1
  BY DEF IsTextRecord
<1>2. IsSeq(s) /\ IsSeq(t)
  BY <1>1 DEF IsTextRecord, IsPiece
<1>3. CASE HasLesson(d)
  <2> DEFINE note == <<"note", d.id, d.lesson_id, d.lesson_url>>
  <2>1. IsNote(t, note)
    BY <1>3 DEF IsTextRecord
  <2> HIDE DEF note, s, t
  <2>2. Len(t) \in {2, 3} /\ t[Len(t)] = EndOfLine /\ t[Len(t) - 1] = note
    BY <2>1 DEF IsNote
  <2>3. EndsIn(text, s \o t) /\ Len(t) > 0 /\ Len(t) > 1
    BY <2>2 DEF Final, s, t
  <2>4. Len(text) > 1 /\ text[Len(text)] = t[Len(t)] /\ text[Len(text) - 1] = t[Len(t) - 1]
    BY <1>2, <2>3, EndsInPieces
  <2> QED BY <1>3, <2>2, <2>4 DEF Before, note
<1>4. CASE ~HasLesson(d)
  <2>1. t = <<EndOfLine>> /\ Len(all) = e
    BY <1>4 DEF IsTextRecord
  <2>2. EndsWell(s)
    BY <2>1 DEF IsTextRecord
  <2> HIDE DEF s, t
  <2>3. s[Len(s)][1] # "note" /\ Len(s) > 0
    <3>1. Mark(")")[1] # "note"
      BY DEF Mark
    <3> QED BY <3>1, <2>2 DEF EndsWell
  <2>4. Len(t) = 1 /\ t[1] = EndOfLine
    BY <2>1, OneIsSeq
  <2>5. EndsIn(text, s \o t) /\ Len(t) > 0
    BY <2>4 DEF Final, s, t
  <2>6. Len(text) > 1 /\ text[Len(text)] = t[1] /\ text[Len(text) - 1] = s[Len(s)]
    <3>1. /\ text[Len(text)] = t[Len(t)]
          /\ Len(t) = 1 /\ Len(s) > 0 => Len(text) > 1 /\ text[Len(text) - 1] = s[Len(s)]
      BY <1>2, <2>5, EndsInPieces
    <3>2. Len(t) = 1 /\ Len(s) > 0
      BY <2>3, <2>4
    <3> QED BY <3>1, <3>2, Zenon
  <2> QED BY <1>4, <2>3, <2>4, <2>6 DEF Before
<1> QED BY <1>3, <1>4

\* And at the end of the JSON stream.
LEMMA JsonIsOut ==
  ASSUME NEW d, NEW all, IsJsonRecord(d, all), NEW text, IsSeq(text), EndsIn(text, Final(all))
  PROVE  /\ Len(text) > 1 /\ text[Len(text)] = Mark("}")
         /\ HasLesson(d) =>
              Before(text) = <<"lesson", d.lesson_id, d.lesson_path, d.lesson_url>>
         /\ ~HasLesson(d) => Before(text)[1] # "lesson"
<1> DEFINE s == all[Len(all) - 1].atoms
           t == all[Len(all)].atoms
<1>1. Len(all) \in Nat /\ Len(all) > 1
  BY DEF IsJsonRecord
<1>2. IsSeq(s) /\ IsSeq(t)
  <2>1. \A j \in 1..Len(all) : IsSeq(all[j].atoms)
    BY DEF IsJsonRecord, IsMember, IsPiece
  <2>2. Len(all) - 1 \in 1..Len(all) /\ Len(all) \in 1..Len(all)
    BY <1>1
  <2> QED BY <2>1, <2>2
<1>3. t = <<Mark("}")>>
  BY DEF IsJsonRecord
<1>4. PICK atom : /\ s = <<atom>>
                  /\ IF HasLesson(d)
                       THEN atom = <<"lesson", d.lesson_id, d.lesson_path, d.lesson_url>>
                       ELSE atom[1] # "lesson"
  BY DEF IsJsonRecord
<1> DEFINE close == Mark("}")
<1> HIDE DEF s, t, close
<1>5. t = <<close>>
  BY <1>3 DEF close
<1>6. Len(t) = 1 /\ t[1] = close /\ Len(s) = 1 /\ s[1] = atom
  BY <1>4, <1>5, OneIsSeq
<1>8. EndsIn(text, s \o t) /\ Len(t) > 0 /\ Len(s) > 0
  BY <1>6 DEF Final, s, t
<1>9. Len(text) > 1 /\ text[Len(text)] = close /\ text[Len(text) - 1] = atom
  <2>1. Len(text) > 1 /\ text[Len(text)] = t[1] /\ text[Len(text) - 1] = s[1]
    BY <1>2, <1>6, <1>8, EndsInPieces
  <2> QED BY <2>1, <1>6
<1> QED BY <1>4, <1>9 DEF Before, close

-----------------------------------------------------------------------------
(* The inductive invariant: while a call writes, each stream ends in the   *)
(* pieces written last, so that what stands at its end is known when the   *)
(* last record is done; and the struct has not changed since.              *)

Accepted(stream)    == IF stream = "human" THEN human ELSE json
PiecesOf(d, stream) == IF stream = "human" THEN write_text(d) ELSE write_json(d)
Both                == {"human", "json"}

TypeInv ==
  /\ result \in {-1, 0, 1} /\ outputs \subseteq Both
  /\ calls \in 0..MaxCalls /\ failures \in 0..MaxFailures /\ whole \in BOOLEAN
  /\ IsSeq(human) /\ IsSeq(json) /\ IsSeq(todo)
  /\ diagnostic # Null => IsDiagnostic(diagnostic)

\* A record is being written, alone or as the first or second of two.
Writing ==
  /\ Writable
  /\ todo[1] = [to |-> todo[1].to, pieces |-> todo[1].pieces]
  /\ InRecord(PiecesOf(diagnostic, todo[1].to), Accepted(todo[1].to), todo[1].pieces)
  /\ \/ Len(todo) = 1 /\ todo[1].to \in Both /\ outputs = {todo[1].to}
     \/ /\ Len(todo) = 1 /\ todo[1].to = "json" /\ outputs = Both
        /\ EndsIn(human, Final(write_text(diagnostic)))
     \/ Len(todo) = 2 /\ todo[1].to = "human" /\ outputs = Both /\ todo[2] = Record("json")

TodoInv ==
  /\ todo = <<>> => result # 1
  /\ ~whole => todo = <<>> /\ result = -1
  /\ todo # <<>> => Writing

LinesInv ==
  /\ failures = 0 => LinesAreRight(human)
  /\ failures = 0 /\ human # <<>> =>
       human[Len(human)] = EndOfLine \/ (todo # <<>> /\ todo[1].to = "human")

DiagnosticInv ==
  TypeInv /\ TodoInv /\ LinesInv /\ SeveritiesAreRight(json) /\ ZeroIsWhole /\ SameLesson

LEMMA ConcatEmpty ==
  ASSUME NEW s, IsSeq(s)
  PROVE  s \o <<>> = s
<1>1. PICK S : s \in Seq(S)
  BY DEF IsSeq
<1> QED BY <1>1, ConcatEmptySeq

LEMMA EmptyOrNot ==
  ASSUME NEW s, IsSeq(s)
  PROVE  Len(s) \in Nat /\ (s = <<>> <=> Len(s) = 0)
BY DEF IsSeq

LEMMA RecordsAreRecords ==
  ASSUME NEW d, IsDiagnostic(d), d.message # Null
  PROVE  /\ \E e : IsTextRecord(d, write_text(d), e)
         /\ IsJsonRecord(d, write_json(d))
         /\ \A s : /\ PiecesAre(PiecesOf(d, s)) /\ IsSeq(PiecesOf(d, s))
                   /\ Len(PiecesOf(d, s)) \in Nat /\ Len(PiecesOf(d, s)) > 1
<1>1. PICK e : IsTextRecord(d, write_text(d), e)
  BY TextIsRecord
<1>2. IsJsonRecord(d, write_json(d))
  BY JsonIsRecord
<1>3. /\ PiecesAre(write_text(d)) /\ IsSeq(write_text(d))
      /\ Len(write_text(d)) \in Nat /\ Len(write_text(d)) > 1
  BY <1>1 DEF IsTextRecord, PiecesAre
<1>4. /\ PiecesAre(write_json(d)) /\ IsSeq(write_json(d))
      /\ Len(write_json(d)) \in Nat /\ Len(write_json(d)) > 1
  BY <1>2 DEF IsJsonRecord, PiecesAre, IsMember
<1> QED BY <1>1, <1>2, <1>3, <1>4 DEF PiecesOf

LEMMA DiagnosticInit == Init => DiagnosticInv
<1> SUFFICES ASSUME Init PROVE DiagnosticInv
  OBVIOUS
<1>1. TypeInv
  BY BoundsAssumption, EmptyIsSeq DEF Init, TypeInv, Both
<1>2. TodoInv
  BY DEF Init, TodoInv
<1>3. LinesInv /\ SeveritiesAreRight(json)
  BY DEF Init, LinesInv, LinesAreRight, SeveritiesAreRight
<1>4. ZeroIsWhole /\ SameLesson
  BY DEF Init, ZeroIsWhole, SameLesson
<1> QED BY <1>1, <1>2, <1>3, <1>4 DEF DiagnosticInv

\* Filling the struct, by either of the library's functions.
LEMMA RuleStep ==
  ASSUME DiagnosticInv, NEW rule, rule # Null => IsRow(rule),
         NEW severity \in Severities, NEW path \in Paths, NEW function \in Functions,
         NEW message \in Messages, initialize_from_rule(rule, severity, path, function, message)
  PROVE  DiagnosticInv'
<1>1. /\ todo = <<>> /\ todo' = todo /\ result' \in {-1, 0} /\ outputs' = {} /\ whole' = TRUE
      /\ human' = human /\ json' = json /\ calls' = calls /\ failures' = failures
  BY DEF initialize_from_rule
<1>2. TypeInv'
  <2>1. diagnostic' # diagnostic => IsDiagnostic(diagnostic')
    BY InitializedIsDiagnostic
  <2> QED BY <1>1, <2>1 DEF DiagnosticInv, TypeInv, Both
<1>3. TodoInv'
  BY <1>1 DEF TodoInv
<1>4. LinesInv'
  BY <1>1 DEF DiagnosticInv, LinesInv
<1>5. SeveritiesAreRight(json)'
  BY <1>1 DEF DiagnosticInv
<1>6. ZeroIsWhole' /\ SameLesson'
  BY <1>1 DEF ZeroIsWhole, SameLesson
<1> QED BY <1>2, <1>3, <1>4, <1>5, <1>6 DEF DiagnosticInv

LEMMA InitializeStep ==
  ASSUME DiagnosticInv, Initialize
  PROVE  DiagnosticInv'
<1>1. PICK severity \in Severities, path \in Paths, function \in Functions, message \in Messages :
        \/ \E finding \in Findings :
             initialize_from_rule(lookup(finding), severity, path, function, message)
        \/ \E id \in Ids :
             initialize_from_rule(lookup_id(id), severity, path, function, message)
  BY DEF Initialize
<1>2. ASSUME NEW finding \in Findings,
             initialize_from_rule(lookup(finding), severity, path, function, message)
      PROVE  DiagnosticInv'
  <2>1. lookup(finding) # Null => IsRow(lookup(finding))
    BY FindingsAssumption, LookupFindsRows
  <2> QED BY <1>2, <2>1, RuleStep
<1>3. ASSUME NEW id \in Ids,
             initialize_from_rule(lookup_id(id), severity, path, function, message)
      PROVE  DiagnosticInv'
  <2>1. lookup_id(id) # Null => IsRow(lookup_id(id))
    BY LookupIdFindsRows
  <2> QED BY <1>3, <2>1, RuleStep
<1> QED BY <1>1, <1>2, <1>3

LEMMA FillStep ==
  ASSUME DiagnosticInv, Fill
  PROVE  DiagnosticInv'
<1>1. /\ todo = <<>> /\ todo' = todo /\ result' = result /\ outputs' = outputs /\ whole' = whole
      /\ human' = human /\ json' = json /\ calls' = calls /\ failures' = failures
      /\ diagnostic' \in Filled
  BY DEF Fill
<1>2. TypeInv'
  BY <1>1, FilledIsDiagnostic DEF DiagnosticInv, TypeInv
<1>3. TodoInv'
  BY <1>1 DEF DiagnosticInv, TodoInv
<1>4. LinesInv' /\ SeveritiesAreRight(json)'
  BY <1>1 DEF DiagnosticInv, LinesInv
<1>5. ZeroIsWhole'
  BY <1>1 DEF DiagnosticInv, ZeroIsWhole, Returned
<1>6. SameLesson'
  BY <1>1 DEF DiagnosticInv, SameLesson, Returned, Before
<1> QED BY <1>2, <1>3, <1>4, <1>5, <1>6 DEF DiagnosticInv

\* A call begins, or is refused.
LEMMA WriteStep ==
  ASSUME DiagnosticInv, Write
  PROVE  DiagnosticInv'
<1>1. /\ todo = <<>> /\ whole' = TRUE /\ outputs' \in SUBSET {"human", "json"}
      /\ diagnostic' = diagnostic /\ human' = human /\ json' = json /\ failures' = failures
      /\ calls < MaxCalls /\ calls' = calls + 1
  BY DEF Write
<1>2. /\ IsSeq(human) /\ IsSeq(json) /\ calls' \in 0..MaxCalls /\ failures' \in 0..MaxFailures
      /\ outputs' \subseteq Both /\ (diagnostic' # Null => IsDiagnostic(diagnostic'))
  BY <1>1, BoundsAssumption DEF DiagnosticInv, TypeInv, Both
<1>3. SeveritiesAreRight(json)'
  BY <1>1 DEF DiagnosticInv
<1>4. LinesInv'
  BY <1>1 DEF DiagnosticInv, LinesInv
<1>5. CASE outputs' = {} \/ ~Writable
  <2>1. todo' = todo /\ result' = -1
    BY <1>5 DEF Write
  <2>2. TypeInv'
    BY <1>1, <1>2, <2>1, EmptyIsSeq DEF TypeInv
  <2>3. TodoInv'
    BY <1>1, <2>1 DEF TodoInv
  <2>4. ZeroIsWhole' /\ SameLesson'
    BY <2>1 DEF ZeroIsWhole, SameLesson
  <2> QED BY <1>3, <1>4, <2>2, <2>3, <2>4 DEF DiagnosticInv
<1>6. CASE ~ (outputs' = {} \/ ~Writable)
  <2> DEFINE first == IF "human" \in outputs' THEN <<Record("human")>> ELSE <<>>
             second == IF "json" \in outputs' THEN <<Record("json")>> ELSE <<>>
  <2>1. todo' = first \o second /\ result' = 0 /\ Writable
    BY <1>6 DEF Write
  <2>2. IsSeq(<<Record("human")>>) /\ Len(<<Record("human")>>) = 1 /\ <<Record("human")>>[1] = Record("human")
    BY OneIsSeq
  <2>3. IsSeq(<<Record("json")>>) /\ Len(<<Record("json")>>) = 1 /\ <<Record("json")>>[1] = Record("json")
    BY OneIsSeq
  <2>4. IsSeq(<<>>) /\ Len(<<>>) = 0
    BY EmptyIsSeq
  <2>5. IsSeq(first) /\ IsSeq(second)
    BY <2>2, <2>3, <2>4
  <2>6. IsSeq(todo') /\ Len(todo') = Len(first) + Len(second)
    <3> HIDE DEF first, second
    <3> QED BY <2>1, <2>5, ConcatAt
  <2>7. /\ \A i \in 1..Len(first) : todo'[i] = first[i]
        /\ \A i \in 1..Len(second) : todo'[Len(first) + i] = second[i]
    <3> HIDE DEF first, second
    <3>1. \A i \in 1..Len(first) : todo'[i] = first[i]
      BY <2>1, <2>5, ConcatAt
    <3>2. \A i \in 1..Len(second) : todo'[Len(first) + i] = second[i]
      BY <2>1, <2>5, ConcatAt
    <3> QED BY <3>1, <3>2
  <2>8. outputs' = {"human"} \/ outputs' = {"json"} \/ outputs' = Both
    BY <1>1, <1>6 DEF Both
  <2>10. \/ outputs' = {"human"} /\ Len(todo') = 1 /\ todo'[1] = Record("human")
         \/ outputs' = {"json"} /\ Len(todo') = 1 /\ todo'[1] = Record("json")
         \/ outputs' = Both /\ Len(todo') = 2 /\ todo'[1] = Record("human") /\ todo'[2] = Record("json")
    <3>1. CASE outputs' = {"human"}
      <4>1. first = <<Record("human")>> /\ second = <<>>
        BY <3>1
      <4> HIDE DEF first, second
      <4>2. Len(first) = 1 /\ Len(second) = 0 /\ first[1] = Record("human")
        BY <4>1, <2>2, <2>4
      <4> QED BY <3>1, <4>2, <2>6, <2>7
    <3>2. CASE outputs' = {"json"}
      <4>1. first = <<>> /\ second = <<Record("json")>>
        BY <3>2
      <4> HIDE DEF first, second
      <4>2. Len(first) = 0 /\ Len(second) = 1 /\ second[1] = Record("json")
        BY <4>1, <2>3, <2>4
      <4>3. todo'[0 + 1] = second[1]
        BY <4>2, <2>7
      <4> QED BY <3>2, <4>2, <4>3, <2>6
    <3>3. CASE outputs' = Both
      <4>1. first = <<Record("human")>> /\ second = <<Record("json")>>
        BY <3>3 DEF Both
      <4> HIDE DEF first, second
      <4>2. Len(first) = 1 /\ Len(second) = 1 /\ first[1] = Record("human") /\ second[1] = Record("json")
        BY <4>1, <2>2, <2>3
      <4>3. todo'[1] = first[1] /\ todo'[1 + 1] = second[1]
        BY <4>2, <2>7
      <4> QED BY <3>3, <4>2, <4>3, <2>6
    <3> QED BY <2>8, <3>1, <3>2, <3>3
  <2>11. todo' # <<>>
    BY <2>10, <2>4
  <2>12. \A s \in Both : Record(s) = [to |-> s, pieces |-> PiecesOf(diagnostic, s)]
    BY DEF Record, PiecesOf, Both
  <2>13. PICK s \in Both : todo'[1] = [to |-> s, pieces |-> PiecesOf(diagnostic, s)]
    BY <2>10, <2>12 DEF Both
  <2>14. todo'[1].to = s /\ todo'[1].pieces = PiecesOf(diagnostic, s)
    BY <2>13
  <2>15. InRecord(PiecesOf(diagnostic, s), Accepted(s)', PiecesOf(diagnostic, s))
    <3>1. IsSeq(PiecesOf(diagnostic, s))
      BY <1>1, <1>2, <2>1, RecordsAreRecords DEF Writable
    <3> QED BY <3>1, RecordStarts
  <2>16. Record("json")' = Record("json") /\ Record("human").to = "human" /\ Record("json").to = "json"
    BY <1>1 DEF Record
  <2>17. \/ Len(todo') = 1 /\ todo'[1].to \in Both /\ outputs' = {todo'[1].to}
         \/ Len(todo') = 2 /\ todo'[1].to = "human" /\ outputs' = Both /\ todo'[2] = Record("json")'
    BY <2>10, <2>16 DEF Both
  <2>18. InRecord(PiecesOf(diagnostic', todo'[1].to), Accepted(todo[1].to)', todo'[1].pieces)
    BY <1>1, <2>14, <2>15 DEF Accepted
  <2>19. todo'[1] = [to |-> todo'[1].to, pieces |-> todo'[1].pieces]
    BY <2>13, <2>14
  <2>20. Writable'
    BY <1>1, <2>1 DEF Writable
  <2>21. Writing'
    BY <2>17, <2>18, <2>19, <2>20 DEF Writing
  <2>22. TypeInv'
    BY <1>1, <1>2, <2>1, <2>6 DEF TypeInv
  <2>23. TodoInv'
    BY <1>1, <2>11, <2>21 DEF TodoInv
  <2>24. ZeroIsWhole' /\ SameLesson'
    BY <2>11 DEF ZeroIsWhole, SameLesson, Returned
  <2> QED BY <1>3, <1>4, <2>22, <2>23, <2>24 DEF DiagnosticInv
<1> QED BY <1>5, <1>6

LEMMA HeadIsFirst ==
  ASSUME NEW s, IsSeq(s), s # <<>>
  PROVE  /\ Head(s) = s[1] /\ Len(s) \in Nat /\ Len(s) > 0
         /\ IsSeq(Tail(s)) /\ Len(Tail(s)) = Len(s) - 1
         /\ Len(s) > 1 => Tail(s)[1] = s[2]
<1>1. PICK S : s \in Seq(S)
  BY DEF IsSeq
<1>2. Head(s) = s[1] /\ Len(s) \in Nat /\ Len(s) > 0
  BY <1>1
<1>3. Tail(s) \in Seq(S) /\ Len(Tail(s)) = Len(s) - 1
  BY <1>1
<1>4. Len(s) > 1 => Tail(s)[1] = s[2]
  BY <1>1
<1> QED BY <1>2, <1>3, <1>4 DEF IsSeq

\* What is known of the record that is being written.
LEMMA RecordInProgress ==
  ASSUME DiagnosticInv, todo # <<>>
  PROVE  /\ Writing /\ IsSeq(todo) /\ Head(todo) = todo[1] /\ whole
         /\ todo[1].to \in Both
         /\ IsDiagnostic(diagnostic) /\ diagnostic.message # Null
         /\ InRecord(PiecesOf(diagnostic, todo[1].to), Accepted(todo[1].to), todo[1].pieces)
<1>1. Writing /\ IsSeq(todo) /\ whole
  BY DEF DiagnosticInv, TodoInv, TypeInv
<1>2. Head(todo) = todo[1]
  BY <1>1, HeadIsFirst
<1>3. todo[1].to \in Both
  BY <1>1 DEF Writing, Both
<1>4. IsDiagnostic(diagnostic) /\ diagnostic.message # Null
  BY <1>1 DEF Writing, Writable, DiagnosticInv, TypeInv
<1> QED BY <1>1, <1>2, <1>3, <1>4 DEF Writing

\* A piece keeps the lines right, and what gets out of it the severities.
LEMMA OutStep ==
  ASSUME DiagnosticInv, todo # <<>>, todo[1].pieces # <<>>,
         NEW n \in 0..Len(todo[1].pieces[1].atoms), Out(SubSeq(todo[1].pieces[1].atoms, 1, n))
  PROVE  /\ IsSeq(human') /\ IsSeq(json') /\ SeveritiesAreRight(json')
         /\ LinesAreRight(human) /\ SubSeq(todo[1].pieces[1].atoms, 1, n) = todo[1].pieces[1].atoms =>
              LinesAreRight(human')
         /\ todo[1].to = "human" =>
              human' = human \o SubSeq(todo[1].pieces[1].atoms, 1, n) /\ json' = json
         /\ todo[1].to = "json" =>
              json' = json \o SubSeq(todo[1].pieces[1].atoms, 1, n) /\ human' = human
<1> DEFINE s == todo[1].to
           rest == todo[1].pieces
           piece == rest[1]
           part == SubSeq(piece.atoms, 1, n)
           all == PiecesOf(diagnostic, s)
<1>1. /\ IsSeq(human) /\ IsSeq(json) /\ SeveritiesAreRight(json)
  BY DEF DiagnosticInv, TypeInv
<1>2. /\ Head(todo) = todo[1] /\ s \in Both /\ IsDiagnostic(diagnostic) /\ diagnostic.message # Null
      /\ InRecord(all, Accepted(s), rest)
  BY RecordInProgress
<1>3. /\ human' = human \o (IF s = "human" THEN part ELSE <<>>)
      /\ json' = json \o (IF s = "json" THEN part ELSE <<>>)
  BY <1>2 DEF Out
<1>4. PiecesAre(all) /\ IsSeq(Accepted(s))
  BY <1>1, <1>2, RecordsAreRecords DEF Accepted
<1>5. /\ piece = all[Len(all) - Len(rest) + 1] /\ Len(all) - Len(rest) \in 0..(Len(all) - 1)
      /\ IsPiece(piece)
  <2> HIDE DEF s, rest, all
  <2> QED BY <1>2, <1>4, RecordGrows DEF piece, rest
<1>6. n \in 0..Len(piece.atoms) /\ IsSeq(part)
  BY <1>5, PrefixIsSeq DEF IsPiece
<1>7. CASE s = "human"
  <2>1. human' = human \o part /\ json' = json
    <3>1. json \o <<>> = json
      BY <1>1, ConcatEmpty
    <3> HIDE DEF part
    <3> QED BY <1>3, <1>7, <3>1
  <2>2. IsSeq(human')
    <3> HIDE DEF part
    <3> QED BY <2>1, <1>1, <1>6, ConcatIsSeq
  <2>3. PICK e : IsTextRecord(diagnostic, write_text(diagnostic), e)
    BY <1>2, RecordsAreRecords
  <2>4. all = write_text(diagnostic) /\ Accepted(s) = human
    BY <1>7 DEF PiecesOf, Accepted
  <2>5. InRecord(all, human, rest) /\ IsTextRecord(diagnostic, all, e) /\ rest # <<>>
    BY <1>2, <2>3, <2>4
  <2>6. LinesAreRight(human) /\ part = piece.atoms => LinesAreRight(human \o part)
    <3>1. ASSUME LinesAreRight(human) PROVE LinesAreRight(human \o piece.atoms)
      <4> HIDE DEF all, rest, s
      <4> QED BY <1>1, <2>5, <3>1, LinesGrow DEF piece
    <3> HIDE DEF part, piece
    <3> QED BY <3>1
  <2>7. s # "json"
    BY <1>7
  <2> HIDE DEF part, s, piece
  <2> QED BY <1>1, <2>1, <2>2, <2>6, <2>7 DEF s, part, piece
<1>8. CASE s = "json"
  <2>1. json' = json \o part /\ human' = human
    <3>1. human \o <<>> = human
      BY <1>1, ConcatEmpty
    <3> HIDE DEF part
    <3> QED BY <1>3, <1>8, <3>1
  <2>2. IsSeq(json')
    <3> HIDE DEF part
    <3> QED BY <2>1, <1>1, <1>6, ConcatIsSeq
  <2>3. IsJsonRecord(diagnostic, all)
    BY <1>2, <1>8, RecordsAreRecords DEF PiecesOf
  <2>4. IsMember(piece)
    <3>1. Len(all) - Len(rest) + 1 \in 1..Len(all)
      <4>1. Len(all) \in Nat
        BY <2>3 DEF IsJsonRecord
      <4> QED BY <4>1, <1>5
    <3> HIDE DEF all, rest, piece
    <3> QED BY <3>1, <2>3, <1>5 DEF IsJsonRecord
  <2>5. SeveritiesAreRight(json \o part)
    <3> HIDE DEF piece
    <3> QED BY <1>1, <1>6, <2>4, SeveritiesGrow
  <2>6. s # "human"
    BY <1>8
  <2> HIDE DEF part, s
  <2> QED BY <1>1, <2>1, <2>2, <2>5, <2>6 DEF s, part
<1> QED BY <1>2, <1>7, <1>8 DEF Both

LEMMA FirstChanged ==
  ASSUME NEW s, IsSeq(s), s # <<>>, NEW x
  PROVE  LET t == [s EXCEPT ![1] = x]
         IN  IsSeq(t) /\ Len(t) = Len(s) /\ t # <<>> /\ t[1] = x /\ (Len(s) > 1 => t[2] = s[2])
<1> DEFINE t == [s EXCEPT ![1] = x]
<1>1. PICK S : s \in Seq(S)
  BY DEF IsSeq
<1>2. s \in Seq(S \cup {x}) /\ Len(s) \in Nat /\ Len(s) > 0
  BY <1>1
<1>3. t \in Seq(S \cup {x}) /\ Len(t) = Len(s) /\ t[1] = x
  BY <1>2
<1>4. Len(s) > 1 => t[2] = s[2]
  BY <1>2
<1> QED BY <1>2, <1>3, <1>4 DEF IsSeq

LEMMA PiecesChanged ==
  ASSUME NEW r, NEW to, NEW old, r = [to |-> to, pieces |-> old], NEW new
  PROVE  [r EXCEPT !.pieces = new] = [to |-> to, pieces |-> new]
OBVIOUS

\* A piece gets out.
LEMMA PutStep ==
  ASSUME DiagnosticInv, Put
  PROVE  DiagnosticInv'
<1>0. PICK s : s = todo[1].to
  OBVIOUS
<1> DEFINE rest == todo[1].pieces
           piece == rest[1]
           all == PiecesOf(diagnostic, s)
<1>1. /\ todo # <<>> /\ whole' = whole
      /\ diagnostic' = diagnostic /\ outputs' = outputs /\ calls' = calls /\ failures' = failures
  BY DEF Put
<1>2. /\ Writing /\ IsSeq(todo) /\ Head(todo) = todo[1] /\ whole
      /\ s \in Both /\ IsDiagnostic(diagnostic) /\ diagnostic.message # Null
      /\ InRecord(all, Accepted(s), rest)
  BY <1>0, <1>1, RecordInProgress
<1>3. /\ rest # <<>> /\ result' = Head(rest).leaves /\ Out(Head(rest).atoms)
      /\ todo' = [todo EXCEPT ![1].pieces = Tail(@)]
  BY <1>2 DEF Put
<1>4. IsSeq(human) /\ IsSeq(json) /\ PiecesAre(all) /\ IsSeq(Accepted(s))
  BY <1>2, RecordsAreRecords DEF DiagnosticInv, TypeInv, Accepted
<1>5. /\ IsPiece(piece) /\ Head(rest) = piece
      /\ InRecord(all, Accepted(s) \o piece.atoms, Tail(rest))
  <2> HIDE DEF rest, all
  <2> QED BY <1>2, <1>3, <1>4, RecordGrows DEF piece
<1>6. /\ IsSeq(piece.atoms) /\ Len(piece.atoms) \in 0..Len(piece.atoms)
      /\ SubSeq(piece.atoms, 1, Len(piece.atoms)) = piece.atoms
  <2>1. IsSeq(piece.atoms)
    BY <1>5 DEF IsPiece
  <2>2. Len(piece.atoms) \in Nat /\ SubSeq(piece.atoms, 1, Len(piece.atoms)) = piece.atoms
    BY <2>1, WholeIsPrefix
  <2> QED BY <2>1, <2>2
<1>7. Out(SubSeq(piece.atoms, 1, Len(piece.atoms)))
  BY <1>3, <1>5, <1>6
<1>8. /\ IsSeq(human') /\ IsSeq(json') /\ SeveritiesAreRight(json')
      /\ LinesAreRight(human) => LinesAreRight(human')
      /\ s = "human" => human' = human \o piece.atoms /\ json' = json
      /\ s = "json" => json' = json \o piece.atoms /\ human' = human
  BY <1>0, <1>1, <1>3, <1>6, <1>7, OutStep
<1> DEFINE new == [to |-> s, pieces |-> Tail(rest)]
<1>9. todo' = [todo EXCEPT ![1] = new]
  <2>1. todo[1] = [to |-> s, pieces |-> rest]
    BY <1>0, <1>2 DEF Writing
  <2>2. [todo[1] EXCEPT !.pieces = Tail(rest)] = new
    <3> HIDE DEF rest
    <3>1. \A r : r = [to |-> s, pieces |-> rest] => [r EXCEPT !.pieces = Tail(rest)] = new
      BY PiecesChanged
    <3> HIDE DEF new
    <3> QED BY <2>1, <3>1
  <2>3. todo' = [todo EXCEPT ![1] = [todo[1] EXCEPT !.pieces = Tail(rest)]]
    BY <1>3
  <2> QED BY <2>2, <2>3
<1>10. /\ IsSeq(todo') /\ Len(todo') = Len(todo) /\ todo' # <<>> /\ todo'[1] = new
       /\ Len(todo) > 1 => todo'[2] = todo[2]
  <2> HIDE DEF new
  <2> QED BY <1>1, <1>2, <1>9, FirstChanged
<1>11. todo'[1].to = s /\ todo'[1].pieces = Tail(rest)
  BY <1>10
<1>12. Accepted(s)' = Accepted(s) \o piece.atoms
  <2> HIDE DEF piece
  <2> QED BY <1>2, <1>8 DEF Accepted, Both
<1>13. InRecord(PiecesOf(diagnostic', s), Accepted(s)', Tail(rest))
  BY <1>1, <1>5, <1>12
<1>14. Writable' /\ Record("json")' = Record("json")
  BY <1>1, <1>2 DEF Writing, Writable, Record
<1>15. \/ Len(todo') = 1 /\ s \in Both /\ outputs' = {s}
       \/ /\ Len(todo') = 1 /\ s = "json" /\ outputs' = Both
          /\ EndsIn(human', Final(write_text(diagnostic')))
       \/ Len(todo') = 2 /\ s = "human" /\ outputs' = Both /\ todo'[2] = Record("json")'
  <2> HIDE DEF rest, piece, all, new
  <2> QED BY <1>0, <1>1, <1>2, <1>8, <1>10, <1>14 DEF Writing
<1> HIDE DEF rest, piece, all, new
<1>17. Writing'
  <2>1. todo'[1] = [to |-> todo'[1].to, pieces |-> todo'[1].pieces]
    BY <1>10, <1>11 DEF new
  <2>2. InRecord(PiecesOf(diagnostic, todo[1].to), Accepted(todo[1].to), todo[1].pieces)'
    <3>1. Accepted(todo[1].to)' = Accepted(s)'
      BY <1>11 DEF Accepted
    <3> QED BY <3>1, <1>11, <1>13
  <2> QED BY <2>1, <2>2, <1>11, <1>14, <1>15 DEF Writing
<1>18. TodoInv'
  BY <1>1, <1>2, <1>10, <1>17 DEF TodoInv
<1>19. LinesInv'
  <2>1. CASE s = "human"
    BY <2>1, <1>1, <1>8, <1>10, <1>11 DEF LinesInv, DiagnosticInv
  <2>2. CASE s = "json"
    BY <2>2, <1>0, <1>1, <1>8, <1>10, <1>11 DEF LinesInv, DiagnosticInv
  <2> QED BY <2>1, <2>2, <1>2 DEF Both
<1>20. TypeInv'
  <2>1. result' \in {-1, 0, 1}
    BY <1>3, <1>5 DEF IsPiece
  <2> QED BY <2>1, <1>1, <1>8, <1>10 DEF TypeInv, DiagnosticInv
<1>21. ZeroIsWhole' /\ SameLesson'
  BY <1>10 DEF ZeroIsWhole, SameLesson, Returned
<1> QED BY <1>8, <1>18, <1>19, <1>20, <1>21 DEF DiagnosticInv

\* A piece fails: part of it may be out, and the call gives up.
LEMMA PutFailsStep ==
  ASSUME DiagnosticInv, PutFails
  PROVE  DiagnosticInv'
<1>0. PICK s : s = todo[1].to
  OBVIOUS
<1> DEFINE rest == todo[1].pieces
           piece == rest[1]
           all == PiecesOf(diagnostic, s)
<1>1. /\ todo # <<>> /\ todo' = <<>> /\ whole' = FALSE /\ result' = -1
      /\ failures < MaxFailures /\ failures' = failures + 1
      /\ diagnostic' = diagnostic /\ outputs' = outputs /\ calls' = calls
  BY DEF PutFails, GiveUp
<1>2. /\ Head(todo) = todo[1] /\ s \in Both /\ IsDiagnostic(diagnostic) /\ diagnostic.message # Null
      /\ InRecord(all, Accepted(s), rest)
  BY <1>0, <1>1, RecordInProgress
<1>3. rest # <<>>
  BY <1>2 DEF PutFails
<1>4. IsSeq(human) /\ IsSeq(json) /\ PiecesAre(all) /\ IsSeq(Accepted(s))
  BY <1>2, RecordsAreRecords DEF DiagnosticInv, TypeInv, Accepted
<1>5. IsPiece(piece) /\ Head(rest) = piece
  <2> HIDE DEF rest, all
  <2> QED BY <1>2, <1>3, <1>4, RecordGrows DEF piece
<1>6. Len(piece.atoms) \in Nat /\ (piece.atoms = <<>> <=> Len(piece.atoms) = 0)
  BY <1>5, EmptyOrNot DEF IsPiece
<1>7. PICK n \in 0..(IF piece.atoms = <<>> THEN 0 ELSE Len(piece.atoms) - 1) :
        Out(SubSeq(piece.atoms, 1, n))
  BY <1>2, <1>5 DEF PutFails
<1>8. n \in 0..Len(piece.atoms)
  BY <1>6, <1>7
<1>9. IsSeq(human') /\ IsSeq(json') /\ SeveritiesAreRight(json')
  BY <1>1, <1>3, <1>7, <1>8, OutStep
<1>10. failures \in Nat /\ failures' \in 0..MaxFailures /\ failures' # 0
  BY <1>1, BoundsAssumption DEF DiagnosticInv, TypeInv
<1> HIDE DEF rest, piece, all
<1>11. TypeInv'
  BY <1>1, <1>9, <1>10, EmptyIsSeq DEF DiagnosticInv, TypeInv
<1>12. TodoInv'
  BY <1>1 DEF TodoInv
<1>13. LinesInv'
  BY <1>10 DEF LinesInv
<1>14. ZeroIsWhole' /\ SameLesson'
  BY <1>1 DEF ZeroIsWhole, SameLesson
<1> QED BY <1>9, <1>11, <1>12, <1>13, <1>14 DEF DiagnosticInv

\* A record is done: the last one of the call, or the human record of two.
LEMMA RecordDoneStep ==
  ASSUME DiagnosticInv, RecordDone
  PROVE  DiagnosticInv'
<1>0. PICK s : s = todo[1].to
  OBVIOUS
<1>1. /\ todo # <<>> /\ result' = 0 /\ todo' = Tail(todo)
      /\ diagnostic' = diagnostic /\ human' = human /\ json' = json /\ outputs' = outputs
      /\ calls' = calls /\ failures' = failures /\ whole' = whole
  BY DEF RecordDone, Success
<1>2. /\ Writing /\ IsSeq(todo) /\ Head(todo) = todo[1] /\ whole
      /\ s \in Both /\ IsDiagnostic(diagnostic) /\ diagnostic.message # Null
      /\ InRecord(PiecesOf(diagnostic, s), Accepted(s), todo[1].pieces)
  BY <1>0, <1>1, RecordInProgress
<1>3. todo[1].pieces = <<>>
  BY <1>2 DEF RecordDone
<1>4. EndsIn(Accepted(s), Final(PiecesOf(diagnostic, s)))
  <2>1. Len(PiecesOf(diagnostic, s)) \in Nat /\ Len(PiecesOf(diagnostic, s)) > 1
    BY <1>2, RecordsAreRecords
  <2>2. InRecord(PiecesOf(diagnostic, s), Accepted(s), <<>>)
    BY <1>2, <1>3
  <2> QED BY <2>1, <2>2, RecordIsOut
<1>5. IsSeq(human) /\ IsSeq(json)
  BY DEF DiagnosticInv, TypeInv
<1>6. /\ IsSeq(todo') /\ Len(todo') = Len(todo) - 1 /\ Len(todo) \in Nat
      /\ Len(todo) > 1 => todo'[1] = todo[2]
      /\ todo' = <<>> <=> Len(todo') = 0
  <2>1. /\ IsSeq(Tail(todo)) /\ Len(Tail(todo)) = Len(todo) - 1 /\ Len(todo) \in Nat
        /\ Len(todo) > 1 => Tail(todo)[1] = todo[2]
    BY <1>1, <1>2, HeadIsFirst
  <2>2. Tail(todo) = <<>> <=> Len(Tail(todo)) = 0
    BY <2>1, EmptyOrNot
  <2> QED BY <1>1, <2>1, <2>2
<1>7. TypeInv'
  BY <1>1, <1>6 DEF DiagnosticInv, TypeInv
<1>8. SeveritiesAreRight(json)' /\ (failures = 0 => LinesAreRight(human))'
  BY <1>1 DEF DiagnosticInv, LinesInv
\* The human stream ends its record with a line feed.
<1>9. EndsIn(human, Final(write_text(diagnostic))) =>
        /\ Len(human) > 1 /\ human[Len(human)] = EndOfLine
        /\ HasLesson(diagnostic) =>
             Before(human) = <<"note", diagnostic.id, diagnostic.lesson_id, diagnostic.lesson_url>>
        /\ ~HasLesson(diagnostic) => Before(human)[1] # "note"
  <2>1. PICK e : IsTextRecord(diagnostic, write_text(diagnostic), e)
    BY <1>2, RecordsAreRecords
  <2> QED BY <2>1, <1>5, TextIsOut
<1>10. EndsIn(json, Final(write_json(diagnostic))) =>
        /\ Len(json) > 1 /\ json[Len(json)] = Mark("}")
        /\ HasLesson(diagnostic) =>
             Before(json) = <<"lesson", diagnostic.lesson_id, diagnostic.lesson_path,
                              diagnostic.lesson_url>>
        /\ ~HasLesson(diagnostic) => Before(json)[1] # "lesson"
  <2>1. IsJsonRecord(diagnostic, write_json(diagnostic))
    BY <1>2, RecordsAreRecords
  <2> QED BY <2>1, <1>5, JsonIsOut
<1>11. s = "human" => EndsIn(human, Final(write_text(diagnostic)))
  BY <1>4 DEF Accepted, PiecesOf
<1>12. s = "json" => EndsIn(json, Final(write_json(diagnostic)))
  BY <1>4 DEF Accepted, PiecesOf
<1>13. LinesInv'
  <2>1. CASE s = "human"
    BY <2>1, <1>1, <1>8, <1>9, <1>11 DEF LinesInv
  <2>2. CASE s = "json"
    BY <2>2, <1>0, <1>1, <1>8 DEF LinesInv, DiagnosticInv
  <2> QED BY <2>1, <2>2, <1>2 DEF Both
<1>14. CASE Len(todo) = 2
  <2>1. s = "human" /\ outputs = Both /\ todo[2] = Record("json")
    BY <1>0, <1>2, <1>14 DEF Writing
  <2>2. Len(todo') = 1 /\ todo' # <<>> /\ todo'[1] = Record("json")
    BY <2>1, <1>6, <1>14
  <2>3. /\ Record("json") = [to |-> "json", pieces |-> write_json(diagnostic)]
        /\ Record("json").to = "json" /\ Record("json").pieces = write_json(diagnostic)
    BY DEF Record
  <2>4. IsSeq(write_json(diagnostic))
    BY <1>2, RecordsAreRecords DEF IsJsonRecord
  <2>5. InRecord(write_json(diagnostic), json, write_json(diagnostic))
    BY <2>4, RecordStarts
  <2>6. InRecord(PiecesOf(diagnostic, todo[1].to), Accepted(todo[1].to), todo[1].pieces)'
    BY <2>2, <2>3, <2>5, <1>1 DEF PiecesOf, Accepted
  <2>7. EndsIn(human, Final(write_text(diagnostic)))'
    BY <2>1, <1>1, <1>11
  <2>8. Writable'
    BY <1>1, <1>2 DEF Writing, Writable
  <2>9. todo'[1] = [to |-> todo'[1].to, pieces |-> todo'[1].pieces]
    BY <2>2, <2>3
  <2>10. Writing'
    BY <2>1, <2>2, <2>3, <2>6, <2>7, <2>8, <2>9, <1>1 DEF Writing
  <2>11. TodoInv'
    BY <2>2, <2>10, <1>1, <1>2 DEF TodoInv
  <2>12. ZeroIsWhole' /\ SameLesson'
    BY <2>2 DEF ZeroIsWhole, SameLesson, Returned
  <2> QED BY <2>11, <2>12, <1>7, <1>8, <1>13 DEF DiagnosticInv
<1>15. CASE Len(todo) = 1
  <2>1. todo' = <<>>
    BY <1>6, <1>15
  <2>2. TodoInv'
    BY <2>1, <1>1, <1>2 DEF TodoInv
  <2>3. /\ "human" \in outputs => EndsIn(human, Final(write_text(diagnostic)))
        /\ "json" \in outputs => EndsIn(json, Final(write_json(diagnostic)))
    BY <1>0, <1>2, <1>11, <1>12, <1>15 DEF Writing, Both
  <2>4. ZeroIsWhole'
    BY <2>3, <1>1, <1>2, <1>9, <1>10 DEF ZeroIsWhole
  <2>5. SameLesson'
    <3>1. SUFFICES ASSUME outputs = Both
                   PROVE  /\ (Before(human)[1] = "note") = (Before(json)[1] = "lesson")
                          /\ Before(human)[1] = "note" =>
                               /\ Before(human)[3] = Before(json)[2]
                               /\ Before(human)[4] = Before(json)[4]
      BY <1>1 DEF SameLesson, Before, Both
    <3>2. CASE HasLesson(diagnostic)
      <4> DEFINE note == <<"note", diagnostic.id, diagnostic.lesson_id, diagnostic.lesson_url>>
                 lesson == <<"lesson", diagnostic.lesson_id, diagnostic.lesson_path,
                             diagnostic.lesson_url>>
      <4>1. Before(human) = note /\ Before(json) = lesson
        BY <3>1, <3>2, <2>3, <1>9, <1>10 DEF Both
      <4>2. /\ note[1] = "note" /\ lesson[1] = "lesson"
            /\ note[3] = lesson[2] /\ note[4] = lesson[4]
        OBVIOUS
      <4> HIDE DEF note, lesson
      <4> QED BY <4>1, <4>2, Zenon
    <3>3. CASE ~HasLesson(diagnostic)
      BY <3>1, <3>3, <2>3, <1>9, <1>10 DEF Both
    <3> QED BY <3>2, <3>3
  <2> QED BY <2>2, <2>4, <2>5, <1>7, <1>8, <1>13 DEF DiagnosticInv
<1> QED BY <1>14, <1>15, <1>2 DEF Writing

LEMMA DiagnosticStep == DiagnosticInv /\ [Next]_vars => DiagnosticInv'
<1> SUFFICES ASSUME DiagnosticInv, [Next]_vars PROVE DiagnosticInv'
  OBVIOUS
<1>1. CASE Initialize  BY <1>1, InitializeStep
<1>2. CASE Fill  BY <1>2, FillStep
<1>3. CASE Write  BY <1>3, WriteStep
<1>4. CASE Put  BY <1>4, PutStep
<1>5. CASE PutFails  BY <1>5, PutFailsStep
<1>6. CASE RecordDone  BY <1>6, RecordDoneStep
<1>7. CASE UNCHANGED vars
  <2>1. /\ diagnostic' = diagnostic /\ human' = human /\ json' = json /\ outputs' = outputs
        /\ todo' = todo /\ result' = result /\ calls' = calls /\ failures' = failures
        /\ whole' = whole
    BY <1>7 DEF vars
  <2>2. TypeInv' /\ LinesInv' /\ SeveritiesAreRight(json)'
    BY <2>1 DEF DiagnosticInv, TypeInv, LinesInv
  <2>3. TodoInv'
    <3>1. Writing => Writing'
      <4>1. /\ Writable' = Writable /\ Record("json")' = Record("json")
            /\ Accepted(todo[1].to)' = Accepted(todo[1].to)
        BY <2>1 DEF Writable, Record, Accepted
      <4> QED BY <2>1, <4>1 DEF Writing
    <3> QED BY <2>1, <3>1 DEF DiagnosticInv, TodoInv
  <2>4. ZeroIsWhole'
    BY <2>1 DEF DiagnosticInv, ZeroIsWhole, Returned
  <2>5. SameLesson'
    BY <2>1 DEF DiagnosticInv, SameLesson, Returned, Before
  <2> QED BY <2>2, <2>3, <2>4, <2>5 DEF DiagnosticInv
<1> QED BY <1>1, <1>2, <1>3, <1>4, <1>5, <1>6, <1>7 DEF Next

LEMMA DiagnosticInvariant == Spec => []DiagnosticInv
BY DiagnosticInit, DiagnosticStep, PTL DEF Spec

-----------------------------------------------------------------------------
(* The properties of the runs, for every set of arguments.                 *)

\* In every state a call in progress has a struct it may write to the streams it was
\* given, and no JSON object carries the severity "unknown" that severity_name answers
\* for a value that is no enumerator, whatever initialize_from_rule was called with.
THEOREM DiagnosticIsTyped == Spec => []TypeOK
<1>1. DiagnosticInv => TypeOK
  <2> SUFFICES ASSUME DiagnosticInv PROVE TypeOK
    OBVIOUS
  <2>1. /\ result \in {-1, 0, 1} /\ outputs \subseteq {"human", "json"}
        /\ calls \in 0..MaxCalls /\ failures \in 0..MaxFailures /\ whole \in BOOLEAN
        /\ IsSeq(json) /\ IsSeq(todo)
    BY DEF DiagnosticInv, TypeInv, Both
  <2>2. todo # <<>> => Writable
    BY DEF DiagnosticInv, TodoInv, Writing
  <2>3. \A i \in DOMAIN todo : todo[i].to \in outputs
    <3>1. DOMAIN todo = 1..Len(todo) /\ (todo = <<>> => Len(todo) = 0)
      BY <2>1, EmptyIsSeq DEF IsSeq
    <3>2. CASE todo = <<>>
      BY <3>1, <3>2
    <3>3. CASE todo # <<>>
      <4>1. Writing
        BY <3>3 DEF DiagnosticInv, TodoInv
      <4>2. CASE Len(todo) = 1
        BY <3>1, <4>1, <4>2 DEF Writing, Both
      <4>3. CASE Len(todo) = 2
        <5>1. todo[1].to = "human" /\ outputs = Both /\ todo[2] = Record("json")
          BY <4>1, <4>3 DEF Writing
        <5>2. Record("json").to = "json"
          BY DEF Record
        <5> QED BY <3>1, <4>3, <5>1, <5>2 DEF Both
      <4> QED BY <4>1, <4>2, <4>3 DEF Writing
    <3> QED BY <3>2, <3>3
  <2>4. \A i \in DOMAIN json : json[i][1] = "severity" => json[i][2] # "unknown"
    BY <2>1 DEF DiagnosticInv, SeveritiesAreRight, IsSeq
  <2> QED BY <2>1, <2>2, <2>3, <2>4 DEF TypeOK
<1> QED BY <1>1, DiagnosticInvariant, PTL

\* p101_tool_diagnostic_write_outputs returns 0 only when every piece of every record
\* has gone out and each stream ends in a whole record, and otherwise -1: a count that
\* fprintf or fputc left behind is never returned.
THEOREM DiagnosticZeroIsWhole == Spec => []ZeroIsWhole
<1>1. DiagnosticInv => ZeroIsWhole
  BY DEF DiagnosticInv
<1> QED BY <1>1, DiagnosticInvariant, PTL

\* Until a write fails, write_text has put one record in each line of the human stream,
\* whatever line feeds the path, the function's name and the message contain; a line
\* that is not a record is broken by the line feed of an id, of a lesson's id or of its
\* address, which a tool has filled in and write_text prints as it stands.
THEOREM DiagnosticLinesAreRecords == Spec => []LinesAreRecords
<1>1. DiagnosticInv => LinesAreRecords
  <2> SUFFICES ASSUME DiagnosticInv, failures = 0 PROVE LinesAreRecords
    BY DEF LinesAreRecords
  <2>1. /\ IsSeq(human) /\ LinesAreRight(human)
        /\ human # <<>> => human[Len(human)] = EndOfLine \/ (todo # <<>> /\ todo[1].to = "human")
    BY DEF DiagnosticInv, TypeInv, LinesInv
  <2>2. Len(human) \in Nat /\ DOMAIN human = 1..Len(human) /\ (human # <<>> => Len(human) > 0)
    BY <2>1, EmptyOrNot DEF IsSeq
  <2>3. \A i \in LineEnds : EndsRecord(i) \/ EndsInName(i)
    BY <2>1, <2>2 DEF LineEnds, LinesAreRight, LineIsRight, Ragged, EndsRecord, EndsInName
  <2>4. Returned /\ human # <<>> => Len(human) \in LineEnds
    BY <2>1, <2>2 DEF LineEnds, Returned
  <2> QED BY <2>3, <2>4 DEF LinesAreRecords
<1> QED BY <1>1, DiagnosticInvariant, PTL

\* The two writers agree on the lesson: what stands last in the human stream is a note
\* exactly if the object has a lesson, with the same id and address.
THEOREM DiagnosticSameLesson == Spec => []SameLesson
<1>1. DiagnosticInv => SameLesson
  BY DEF DiagnosticInv
<1> QED BY <1>1, DiagnosticInvariant, PTL

-----------------------------------------------------------------------------
(* Notes.  Their ids and pages come from the catalog if those of the       *)
(* structs do, and a struct that is filled by hand may say anything.       *)

\* A struct filled by hand that has a lesson has that of its rule.
OwnLessons == \A d \in Filled : HasLesson(d) => Catalogued(d)

NotesInv ==
  NotesAreRight(human) /\ (diagnostic # Null => (HasLesson(diagnostic) => Catalogued(diagnostic)))

\* What Put and PutFails let out of the record that is being written.
LEMMA NoteStep ==
  ASSUME DiagnosticInv, NotesInv, todo # <<>>, todo[1].pieces # <<>>,
         NEW n \in 0..Len(todo[1].pieces[1].atoms), Out(SubSeq(todo[1].pieces[1].atoms, 1, n))
  PROVE  NotesAreRight(human')
<1>0. PICK s : s = todo[1].to
  OBVIOUS
<1> DEFINE rest == todo[1].pieces
           piece == rest[1]
           part == SubSeq(piece.atoms, 1, n)
           all == PiecesOf(diagnostic, s)
<1>1. /\ s \in Both /\ IsDiagnostic(diagnostic) /\ diagnostic.message # Null
      /\ InRecord(all, Accepted(s), rest) /\ Writable
  BY <1>0, RecordInProgress DEF Writing
<1>2. IsSeq(human) /\ NotesAreRight(human) /\ (HasLesson(diagnostic) => Catalogued(diagnostic))
  BY <1>1 DEF DiagnosticInv, TypeInv, NotesInv, Writable
<1>3. CASE s = "json"
  BY <1>0, <1>2, <1>3, OutStep
<1>4. CASE s = "human"
  <2>1. human' = human \o part
    BY <1>0, <1>4, OutStep
  <2>2. PICK e : IsTextRecord(diagnostic, write_text(diagnostic), e)
    BY <1>1, RecordsAreRecords
  <2>3. all = write_text(diagnostic) /\ Accepted(s) = human
    BY <1>4 DEF PiecesOf, Accepted
  <2>4. PiecesAre(all) /\ Len(all) \in Nat
    BY <1>1, RecordsAreRecords
  <2>5. /\ piece = all[Len(all) - Len(rest) + 1]
        /\ Len(all) - Len(rest) \in 0..(Len(all) - 1)
    <3>1. InRecord(all, human, rest)
      BY <1>1, <2>3
    <3> HIDE DEF rest, all
    <3> QED BY <3>1, <1>2, <2>4, RecordGrows DEF piece, rest
  <2> DEFINE k == Len(all) - Len(rest) + 1
  <2>6. k \in 1..Len(all) /\ piece = all[k]
    BY <2>4, <2>5
  <2> HIDE DEF k
  <2>7. IsTextRecord(diagnostic, all, e) /\ n \in 0..Len(all[k].atoms)
    BY <2>2, <2>3, <2>6
  <2>8. NotesAreRight(human \o SubSeq(all[k].atoms, 1, n))
    <3> HIDE DEF all
    <3> QED BY <1>2, <2>6, <2>7, NotesGrow
  <2>9. part = SubSeq(all[k].atoms, 1, n)
    BY <2>6
  <2> QED BY <2>1, <2>8, <2>9
<1> QED BY <1>1, <1>3, <1>4 DEF Both

\* What is known of the piece that Put or PutFails writes.
LEMMA PieceInProgress ==
  ASSUME DiagnosticInv, todo # <<>>, Head(todo).pieces # <<>>
  PROVE  /\ Head(todo) = todo[1] /\ todo[1].pieces # <<>>
         /\ Head(todo[1].pieces) = todo[1].pieces[1] /\ IsSeq(todo[1].pieces[1].atoms)
<1>1. PICK s : s = todo[1].to
  OBVIOUS
<1> DEFINE rest == todo[1].pieces
           all == PiecesOf(diagnostic, s)
<1>2. /\ Head(todo) = todo[1] /\ IsSeq(Accepted(s)) /\ PiecesAre(all)
      /\ InRecord(all, Accepted(s), rest)
  BY <1>1, RecordInProgress, RecordsAreRecords DEF DiagnosticInv, TypeInv, Accepted
<1>3. rest # <<>>
  BY <1>2
<1> HIDE DEF rest, all
<1>4. IsPiece(rest[1]) /\ Head(rest) = rest[1]
  BY <1>2, <1>3, RecordGrows
<1> QED BY <1>2, <1>3, <1>4 DEF IsPiece, rest

LEMMA NotesInit == Init => NotesInv
BY DEF Init, NotesInv, NotesAreRight

LEMMA NotesStep ==
  ASSUME OwnLessons, DiagnosticInv, NotesInv, [Next]_vars
  PROVE  NotesInv'
<1>1. ASSUME human' = human, diagnostic' = diagnostic
      PROVE  NotesInv'
  BY <1>1 DEF NotesInv
<1>2. ASSUME NEW rule, rule # Null => IsRow(rule),
             NEW severity \in Severities, NEW path \in Paths, NEW function \in Functions,
             NEW message \in Messages,
             initialize_from_rule(rule, severity, path, function, message)
      PROVE  NotesInv'
  <2>1. human' = human
    BY <1>2 DEF initialize_from_rule
  <2>2. diagnostic' # diagnostic => Catalogued(diagnostic')
    BY <1>2, InitializedIsDiagnostic
  <2> QED BY <2>1, <2>2 DEF NotesInv
<1>3. CASE Initialize
  <2>1. PICK severity \in Severities, path \in Paths, function \in Functions, message \in Messages :
          \/ \E finding \in Findings :
               initialize_from_rule(lookup(finding), severity, path, function, message)
          \/ \E id \in Ids :
               initialize_from_rule(lookup_id(id), severity, path, function, message)
    BY <1>3 DEF Initialize
  <2>2. ASSUME NEW finding \in Findings,
               initialize_from_rule(lookup(finding), severity, path, function, message)
        PROVE  NotesInv'
    <3>1. lookup(finding) # Null => IsRow(lookup(finding))
      BY FindingsAssumption, LookupFindsRows
    <3> QED BY <2>2, <3>1, <1>2
  <2>3. ASSUME NEW id \in Ids,
               initialize_from_rule(lookup_id(id), severity, path, function, message)
        PROVE  NotesInv'
    <3>1. lookup_id(id) # Null => IsRow(lookup_id(id))
      BY LookupIdFindsRows
    <3> QED BY <2>3, <3>1, <1>2
  <2> QED BY <2>1, <2>2, <2>3
<1>4. CASE Fill
  BY <1>4 DEF Fill, NotesInv, OwnLessons
<1>5. CASE Write
  BY <1>5, <1>1 DEF Write
<1>6. CASE Put
  <2> DEFINE atoms == todo[1].pieces[1].atoms
  <2>1. todo # <<>> /\ diagnostic' = diagnostic
    BY <1>6 DEF Put
  <2>2. /\ Head(todo) = todo[1] /\ todo[1].pieces # <<>>
        /\ Head(todo[1].pieces) = todo[1].pieces[1] /\ IsSeq(atoms)
    BY <1>6, <2>1, PieceInProgress DEF Put
  <2>3. Out(atoms)
    BY <1>6, <2>2 DEF Put
  <2>4. PICK n \in 0..Len(atoms) : SubSeq(atoms, 1, n) = atoms
    BY <2>2, WholeIsPrefix
  <2>5. Out(SubSeq(atoms, 1, n))
    BY <2>3, <2>4, Zenon
  <2>6. NotesAreRight(human')
    BY <2>1, <2>2, <2>5, NoteStep
  <2> QED BY <2>1, <2>6 DEF NotesInv
<1>7. CASE PutFails
  <2> DEFINE atoms == todo[1].pieces[1].atoms
  <2>1. todo # <<>> /\ diagnostic' = diagnostic
    BY <1>7 DEF PutFails
  <2>2. /\ Head(todo) = todo[1] /\ todo[1].pieces # <<>>
        /\ Head(todo[1].pieces) = todo[1].pieces[1] /\ IsSeq(atoms)
    BY <1>7, <2>1, PieceInProgress DEF PutFails
  <2>4. PICK n \in 0..(IF atoms = <<>> THEN 0 ELSE Len(atoms) - 1) : Out(SubSeq(atoms, 1, n))
    BY <1>7, <2>2 DEF PutFails
  <2>6. n \in 0..Len(atoms)
    BY <2>2, <2>4, EmptyOrNot
  <2>7. NotesAreRight(human')
    BY <2>1, <2>2, <2>4, <2>6, NoteStep
  <2> QED BY <2>1, <2>7 DEF NotesInv
<1>8. CASE RecordDone
  BY <1>8, <1>1 DEF RecordDone
<1>9. CASE UNCHANGED vars
  BY <1>9, <1>1 DEF vars
<1> QED BY <1>3, <1>4, <1>5, <1>6, <1>7, <1>8, <1>9 DEF Next

\* A note never sends the reader of one rule of the catalog to the page of another, if
\* the structs that tools fill themselves do not: p101_tool_diagnostic_initialize and
\* initialize_id store an id and its lesson together, or refuse and store neither.
THEOREM DiagnosticNotesAreCatalogued ==
  ASSUME OwnLessons
  PROVE  Spec => []NotesAreCatalogued
<1>1. DiagnosticInv /\ NotesInv /\ [Next]_vars => NotesInv'
  BY NotesStep
<1>2. DiagnosticInv /\ NotesInv => NotesAreCatalogued
  <2> SUFFICES ASSUME DiagnosticInv, NotesInv PROVE NotesAreCatalogued
    OBVIOUS
  <2>1. DOMAIN human = 1..Len(human) /\ NotesAreRight(human)
    BY DEF DiagnosticInv, TypeInv, NotesInv, IsSeq
  <2> QED BY <2>1 DEF NotesAreCatalogued, NotesAreRight, NoteIsRight
<1> QED BY <1>1, <1>2, NotesInit, DiagnosticInvariant, PTL DEF Spec

-----------------------------------------------------------------------------
(* The numbers and the names.                                              *)

\* Every finding of the enumeration has one row, whether it is looked up by number or
\* by name: p101_lesson_catalog_lookup takes the row at the finding's own index, and
\* the search of lookup_id ends at that row, as no row before it has the same name.
THEOREM DiagnosticNameIsNumber == Spec => []NameIsNumber
<1>1. NameIsNumber
  <2>1. ASSUME NEW k \in DOMAIN p101_tool_finding
        PROVE  LET name == p101_tool_finding[k]
                   rule == lookup(k - 1)
               IN  rule = lookup_id(name) /\ rule.id = name /\ rule.lesson_url[2] = name
    <3>1. k \in 1..P101_TOOL_FINDING_COUNT /\ P101_TOOL_FINDING_COUNT \in Nat
      BY <2>1, CatalogAgrees DEF Agree, Placed, IsSeq, p101_tool_finding, P101_TOOL_FINDING_COUNT
    <3>2. lookup(k - 1) = rules[k]
      <4>1. ~(k - 1 >= P101_TOOL_FINDING_COUNT) /\ (k - 1) + 1 = k
        BY <3>1
      <4> QED BY <4>1 DEF lookup
    <3>3. rules[k].id = p101_tool_finding[k] /\ lookup_id(p101_tool_finding[k]) = rules[k]
      BY <3>1, NameHasOneRow DEF p101_tool_finding
    <3>4. rules[k].lesson_url[2] = rules[k].id
      BY <3>1, CatalogIsSound DEF AllRows, IsRow
    <3> QED BY <3>2, <3>3, <3>4
  <2> QED BY <2>1 DEF NameIsNumber
<1> QED BY <1>1, PTL
=============================================================================
