---------------------------- MODULE LessonCatalog ----------------------------
(***************************************************************************)
(* The lesson catalog: the enumeration of the findings (lesson_catalog.h)  *)
(* and the table their lessons stand in (lesson_catalog.c), two generated  *)
(* files that have to agree.  A finding is a family and a number, as       *)
(* <<"WRAP", 1>> for P101-WRAP-001.                                        *)
(***************************************************************************)
EXTENDS Integers, Sequences, SequencesExt

CONSTANT Null   \* a NULL pointer

FromTo(a, b) == [i \in 1..(b - a + 1) |-> a + i - 1]

\* The findings of one family, in a row.
Of(family, numbers) == [i \in DOMAIN numbers |-> <<family, numbers[i]>>]

\* The enumerators, in the order of their values from 0.
Enumeration ==
  Of("WRAP", <<1, 2, 3, 4, 900>>) \o
  Of("ERR", FromTo(1, 12)) \o
  Of("MOD", FromTo(2, 4) \o FromTo(6, 22) \o <<27>>) \o
  ( Of("ALLOC", FromTo(1, 4)) \o Of("FD", FromTo(1, 4)) \o
    Of("RESOURCE", FromTo(0, 5) \o <<7>>) \o Of("PROC", <<1>>) ) \o
  Of("SYNC", FromTo(1, 5) \o FromTo(7, 10)) \o
  Of("TRACE", FromTo(1, 3)) \o
  Of("SAN", FromTo(1, 4)) \o
  Of("MUTATION", <<1>>) \o
  Of("API", FromTo(1, 9)) \o
  ( Of("EXPECT", <<1>>) \o Of("POLICY-RESOURCE", FromTo(1, 3)) \o
    Of("POLICY-SYNC", <<1>>) \o Of("POLICY-SECURE", FromTo(1, 4)) ) \o
  ( Of("TEST-CONFORMANCE", <<1, 2>>) \o Of("TEST-RECEIPT", <<1>>) ) \o
  << <<"TEST-DETERMINISM", 1>>, <<"DATA", 1>>, <<"RESOURCE", 6>>, <<"TIME", 1>>,
     <<"TEST-RECOVERY", 1>>, <<"SCHEMA", 1>>, <<"TEST-SIDE-EFFECT", 1>> >> \o
  << <<"IO", 1>>, <<"RETRY", 1>>, <<"SYNC", 6>>, <<"PROC", 2>> >> \o
  << <<"THREAD", 1>>, <<"SIGNAL", 1>>, <<"SIGNAL", 2>>, <<"ENV", 1>>, <<"FILE", 1>>,
     <<"MEM", 1>>, <<"MEM", 2>>, <<"MOD", 28>> >>

\* A NULL pointer is the name of no finding.
ASSUME NullAssumption == \A k \in DOMAIN Enumeration : Enumeration[k] # Null

\* Mutant: a finding was withdrawn from the header alone.
EnumerationShort == RemoveAt(Enumeration, 5)

p101_tool_finding == Enumeration

P101_TOOL_FINDING_COUNT == 111

\* Rows of the table: each lesson has one path, and the URL is that path with the
\* finding as its fragment.
Rows(lesson, ids) ==
  [ i \in DOMAIN ids |->
      [ id |-> ids[i], lesson_id |-> lesson, lesson_path |-> lesson,
        lesson_url |-> <<lesson, ids[i]>> ] ]

rules ==
  Rows("WRAPPER-BOUNDARIES", Of("WRAP", <<1, 2, 3, 4, 900>>)) \o
  Rows("ERROR-CONTRACTS", Of("ERR", FromTo(1, 12))) \o
  Rows("MODULE-BOUNDARIES", Of("MOD", FromTo(2, 4) \o FromTo(6, 22) \o <<27>>)) \o
  Rows("GENERIC-RESOURCES",
       Of("ALLOC", FromTo(1, 4)) \o Of("FD", FromTo(1, 4)) \o
       Of("RESOURCE", FromTo(0, 5) \o <<7>>) \o Of("PROC", <<1>>)) \o
  Rows("SYNCHRONIZATION", Of("SYNC", FromTo(1, 5) \o FromTo(7, 10))) \o
  Rows("TRACE-INTEGRITY", Of("TRACE", FromTo(1, 3))) \o
  Rows("SANITIZERS", Of("SAN", FromTo(1, 4))) \o
  Rows("MUTATION-STRENGTH", Of("MUTATION", <<1>>)) \o
  Rows("API-COMPATIBILITY", Of("API", FromTo(1, 9))) \o
  Rows("POLICY-EXPECTATIONS",
       Of("EXPECT", <<1>>) \o Of("POLICY-RESOURCE", FromTo(1, 3)) \o
       Of("POLICY-SYNC", <<1>>) \o Of("POLICY-SECURE", FromTo(1, 4))) \o
  Rows("TEST-EVIDENCE", Of("TEST-CONFORMANCE", <<1, 2>>) \o Of("TEST-RECEIPT", <<1>>)) \o
  Rows("COMMAND-CONTRACTS",
       << <<"TEST-DETERMINISM", 1>>, <<"DATA", 1>>, <<"RESOURCE", 6>>, <<"TIME", 1>>,
          <<"TEST-RECOVERY", 1>>, <<"SCHEMA", 1>>, <<"TEST-SIDE-EFFECT", 1>> >>) \o
  Rows("OPERATIONAL-SEMANTICS",
       << <<"IO", 1>>, <<"RETRY", 1>>, <<"SYNC", 6>>, <<"PROC", 2>> >>) \o
  Rows("SECURE-SEMANTICS",
       << <<"THREAD", 1>>, <<"SIGNAL", 1>>, <<"SIGNAL", 2>>, <<"ENV", 1>>, <<"FILE", 1>>,
          <<"MEM", 1>>, <<"MEM", 2>>, <<"MOD", 28>> >>)

\* p101_tool_rule_definition_lookup, of an unsigned number.
lookup(finding) ==
  IF finding >= P101_TOOL_FINDING_COUNT THEN Null ELSE rules[finding + 1]

\* What p101_tool_rule_definition_lookup_id finds: the first row of that id.
lookup_id(id) ==
  LET k == SelectInSeq(rules, LAMBDA r : r.id = id)
  IN  IF id = Null \/ k = 0 THEN Null ELSE rules[k]
=============================================================================
