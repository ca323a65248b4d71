------------------------------ MODULE Diagnostic ------------------------------
(***************************************************************************)
(* One struct p101_tool_diagnostic (src/diagnostic.c), which a tool fills  *)
(* again and again and writes to a human and a JSON stream.  A call writes *)
(* piece by piece, and any piece may fail.                                 *)
(***************************************************************************)
EXTENDS LessonCatalog

CONSTANTS
  NewLine,      \* '\n', a character of the texts
  Broken,       \* the ids and texts of lessons that have a line feed in them
  NoText,       \* the empty text of a lesson
  Findings,     \* finding arguments of p101_tool_diagnostic_initialize
  Ids,          \* diagnostic_id arguments of p101_tool_diagnostic_initialize_id
  Severities, Paths, Functions, Messages,   \* the other arguments
  Filled,       \* structs a producer fills without a rule
  MaxCalls,     \* bound: writing calls
  MaxFailures   \* bound: failing writes

ASSUME BoundsAssumption == MaxCalls \in Nat /\ MaxFailures \in Nat

\* What C's types say of the arguments: a finding is unsigned, a text is NULL or a
\* sequence of characters, and the severity of a struct that is filled by hand is an
\* enumerator.
ASSUME FindingsAssumption == Findings \subseteq Nat

Texts == Paths \cup Functions \cup Messages
         \cup UNION {{d.path, d.function_name, d.message} : d \in Filled}

ASSUME TextsAssumption == \A text \in Texts \ {Null} : text \in Seq({text[i] : i \in DOMAIN text})

ASSUME FilledAssumption == \A d \in Filled : d.severity \in {"note", "warning", "error"}

VARIABLES
  diagnostic,   \* the struct; Null until it has been filled once
  human, json,  \* what stdio has accepted for the streams
  outputs,      \* the streams the current or last call was given
  todo,         \* what that call has still to write: its records, each in pieces
  result,       \* the variable `result', returned when todo is empty
  calls, failures,
  whole         \* history: no piece of that call has failed

vars == <<diagnostic, human, json, outputs, todo, result, calls, failures, whole>>

Init ==
  /\ diagnostic = Null
  /\ human = <<>> /\ json = <<>>
  /\ outputs = {} /\ todo = <<>> /\ result = 0
  /\ calls = 0 /\ failures = 0 /\ whole = TRUE

-----------------------------------------------------------------------------
(* Filling the struct.                                                     *)

severity_name(severity) ==
  IF severity \in {"note", "warning", "error"} THEN severity ELSE "unknown"

\* Mutant: the severity is not looked at.
initialize_fails_lax(rule, severity, message) == message = Null \/ rule = Null

initialize_fails(rule, severity, message) ==
  message = Null \/ rule = Null \/ severity_name(severity) = "unknown"

\* Mutant: the id is stored before the severity is looked at.
StoreIdFirst(rule, severity, message) ==
  diagnostic' = IF rule # Null /\ message # Null /\ diagnostic # Null
                  THEN [diagnostic EXCEPT !.id = rule.id]
                  ELSE diagnostic

\* A call that fails leaves the struct as it was.
StoreNothing(rule, severity, message) == diagnostic' = diagnostic

\* initialize_from_rule, with the rule that either lookup has returned.
initialize_from_rule(rule, severity, path, function, message) ==
  /\ todo = <<>>
  /\ IF initialize_fails(rule, severity, message)
       THEN result' = -1 /\ StoreNothing(rule, severity, message)
       ELSE /\ diagnostic' =
                 [ id |-> rule.id, severity |-> severity, path |-> path,
                   function_name |-> function, message |-> message,
                   lesson_id |-> rule.lesson_id, lesson_path |-> rule.lesson_path,
                   lesson_url |-> rule.lesson_url ]
            /\ result' = 0
  /\ outputs' = {} /\ whole' = TRUE
  /\ UNCHANGED <<human, json, todo, calls, failures>>

Initialize ==
  \E severity \in Severities, path \in Paths, function \in Functions, message \in Messages :
    \/ \E finding \in Findings :
         initialize_from_rule(lookup(finding), severity, path, function, message)
    \/ \E id \in Ids :
         initialize_from_rule(lookup_id(id), severity, path, function, message)

Fill ==
  /\ todo = <<>>
  /\ diagnostic' \in Filled
  /\ UNCHANGED <<human, json, outputs, todo, result, calls, failures, whole>>

-----------------------------------------------------------------------------
(* What the writers write: pieces of atoms, with what the writing call     *)
(* leaves in `result' -- a count for fprintf and fputc, and 0 for the      *)
(* library's own functions.                                                *)

Counted(atoms) == [atoms |-> atoms, leaves |-> 1]
Zeroed(atoms)  == [atoms |-> atoms, leaves |-> 0]

Mark(m)    == <<"mark", m>>
Char(c)    == <<"char", c>>
EndOfLine  == Char(NewLine)
Text(text) == [i \in DOMAIN text |-> Char(text[i])]

Empty(text) == text \in {Null, <<>>}

HoldsLineFeed(atom) == \E i \in 2..Len(atom) : atom[i] \in Broken

\* An id and the texts of a lesson go through fprintf as they stand.  A line feed in one
\* of them is an atom of its own, in front of the others.
Raw(atom) == (IF HoldsLineFeed(atom) THEN <<EndOfLine>> ELSE <<>>) \o <<atom>>

\* Mutant: the text is written as it stands.
write_text_field_raw(text) == Zeroed(Text(text))

\* The escape of a line feed is one atom; the other escapes are left out.
write_text_field(text) ==
  Zeroed([i \in DOMAIN text |-> IF text[i] = NewLine THEN Mark("\\n") ELSE Char(text[i])])

\* Mutant: the object asks for the texts, and not whether they are empty.
HasLessonTexts(d) == d.lesson_id # Null /\ d.lesson_path # Null /\ d.lesson_url # Null

HasLesson(d) ==
  LET Given(text) == text # Null /\ text # NoText
  IN  Given(d.lesson_id) /\ Given(d.lesson_path) /\ Given(d.lesson_url)

LessonInText(d) == HasLesson(d)
LessonInJson(d) == HasLesson(d)

write_text(d) ==
  LET path == write_text_field(IF Empty(d.path) THEN <<"<unknown>">> ELSE d.path)
  IN  << path, Counted(<<Mark(severity_name(d.severity))>>), write_text_field(d.message),
         Counted(Raw(<<"id", d.id>>)) >>
      \o (IF Empty(d.function_name) THEN <<>>
          ELSE << Zeroed(<<Mark("(function")>>), write_text_field(d.function_name),
                  Counted(<<Mark(")")>>) >>)
      \o << Counted(<<EndOfLine>>) >>
      \o (IF LessonInText(d)
          THEN << path,
                  Counted(Raw(<<"note", d.id, d.lesson_id, d.lesson_url>>) \o <<EndOfLine>>) >>
          ELSE <<>>)

Member(name, value) == <<name, value>>

write_json(d) ==
  LET OrEmpty(text) == IF text = Null THEN <<>> ELSE text
  IN  << Zeroed(<<Mark("{"), Member("id", d.id)>>),
         Zeroed(<<Member("severity", severity_name(d.severity))>>),
         Zeroed(<<Member("path", OrEmpty(d.path))>>),
         Counted(<<Mark("line, column")>>),
         Zeroed(<<Member("function", OrEmpty(d.function_name))>>),
         Zeroed(<<Member("message", d.message)>>) >>
      \o (IF LessonInJson(d)
          THEN << Counted(<<<<"lesson", d.lesson_id, d.lesson_path, d.lesson_url>>>>) >>
          ELSE <<>>)
      \o << Counted(<<Mark("}")>>) >>

-----------------------------------------------------------------------------
(* The calls.                                                              *)

Record(stream) == [to |-> stream,
                   pieces |-> IF stream = "human" THEN write_text(diagnostic)
                                                  ELSE write_json(diagnostic)]

Writable == diagnostic # Null /\ diagnostic.id # Null /\ diagnostic.message # Null

\* p101_tool_diagnostic_write_outputs; with one stream, p101_tool_diagnostic_write too.
Write ==
  /\ todo = <<>> /\ calls < MaxCalls
  /\ calls' = calls + 1
  /\ outputs' \in SUBSET {"human", "json"}
  /\ whole' = TRUE
  /\ IF outputs' = {} \/ ~Writable
       THEN result' = -1 /\ UNCHANGED todo
       ELSE /\ todo' = (IF "human" \in outputs' THEN <<Record("human")>> ELSE <<>>)
                       \o (IF "json" \in outputs' THEN <<Record("json")>> ELSE <<>>)
            /\ result' = 0
  /\ UNCHANGED <<diagnostic, human, json, failures>>

\* atoms go to the stream of the record that is being written.
Out(atoms) ==
  /\ human' = human \o (IF Head(todo).to = "human" THEN atoms ELSE <<>>)
  /\ json' = json \o (IF Head(todo).to = "json" THEN atoms ELSE <<>>)

Put ==
  /\ todo # <<>> /\ Head(todo).pieces # <<>>
  /\ LET piece == Head(Head(todo).pieces)
     IN  Out(piece.atoms) /\ result' = piece.leaves
  /\ todo' = [todo EXCEPT ![1].pieces = Tail(@)]
  /\ UNCHANGED <<diagnostic, outputs, calls, failures, whole>>

GiveUp == todo' = <<>>

\* Part of a piece, or nothing of it, gets out.
PutFails ==
  /\ todo # <<>> /\ Head(todo).pieces # <<>>
  /\ failures < MaxFailures /\ failures' = failures + 1
  /\ LET atoms == Head(Head(todo).pieces).atoms
     IN  \E n \in 0..(IF atoms = <<>> THEN 0 ELSE Len(atoms) - 1) : Out(SubSeq(atoms, 1, n))
  /\ result' = -1
  /\ GiveUp
  /\ whole' = FALSE
  /\ UNCHANGED <<diagnostic, outputs, calls>>

\* Mutant: the count left by the last piece is returned.
LastCount == result

\* Every piece is out: a writer returns 0, whatever count was left.
Success == 0

\* One record is done.  write_outputs goes on only if its writer returned 0.
RecordDone ==
  /\ todo # <<>> /\ Head(todo).pieces = <<>>
  /\ result' = Success
  /\ todo' = IF Success = 0 THEN Tail(todo) ELSE <<>>
  /\ UNCHANGED <<diagnostic, human, json, outputs, calls, failures, whole>>

Next == Initialize \/ Fill \/ Write \/ Put \/ PutFails \/ RecordDone

Spec == Init /\ [][Next]_vars

-----------------------------------------------------------------------------
(* Properties.                                                             *)

Returned == todo = <<>>

\* The streams grow by atoms, a call in progress has a struct it may write, and a
\* struct that has been filled has an id that can be printed with its severity.
TypeOK ==
  /\ result \in {-1, 0, 1}
  /\ outputs \subseteq {"human", "json"}
  /\ calls \in 0..MaxCalls /\ failures \in 0..MaxFailures /\ whole \in BOOLEAN
  /\ \A i \in DOMAIN todo : todo[i].to \in outputs
  /\ todo # <<>> => Writable
  /\ \A i \in DOMAIN json : json[i][1] = "severity" => json[i][2] # "unknown"

\* A call returns 0 or -1, never one of the counts stdio left behind, which
\* p101_tool_report_emit would take for a failure; and 0 only if every piece of
\* every record has gone out: the last record of each stream is then complete.
ZeroIsWhole ==
  Returned =>
    /\ result \in {0, -1}
    /\ result = 0 =>
         /\ whole
         /\ "human" \in outputs => human[Len(human)] = EndOfLine
         /\ "json" \in outputs => json[Len(json)] = Mark("}")

LineEnds == {i \in DOMAIN human : human[i] = EndOfLine}

\* The line that ends at i is a record: it ends behind an id, a function or a note.
EndsRecord(i) == i > 1 /\ (human[i - 1] = Mark(")") \/ human[i - 1][1] \in {"id", "note"})

\* It ends inside an id or a text of a lesson that has a line feed in it.
EndsInName(i) ==
  i < Len(human) /\ human[i + 1][1] \in {"id", "note"} /\ HoldsLineFeed(human[i + 1])

\* Whatever line feeds the path, the function and the message contain, each line of the
\* human stream is one record.  Only a struct that its tool has filled with a line feed
\* in the id, the lesson's id or its address breaks one: write_text does not escape
\* these three, and the catalog has no such text.
LinesAreRecords ==
  failures = 0 =>
    /\ \A i \in LineEnds : EndsRecord(i) \/ EndsInName(i)
    /\ Returned /\ human # <<>> => Len(human) \in LineEnds

Before(stream) == stream[Len(stream) - 1]

\* A finding written to both streams has its lesson in both or in neither, and it
\* is the same one: the two writers test for it separately.
SameLesson ==
  Returned /\ result = 0 /\ outputs = {"human", "json"} =>
    /\ (Before(human)[1] = "note") = (Before(json)[1] = "lesson")
    /\ Before(human)[1] = "note" =>
         Before(human)[3] = Before(json)[2] /\ Before(human)[4] = Before(json)[4]

\* A note never sends the reader of one rule to the page of another, even if the
\* tool goes on using a struct whose last initialisation was refused, as
\* test/test_diagnostic.c does.
NotesAreCatalogued ==
  \A i \in DOMAIN human : human[i][1] = "note" =>
    LET rule == lookup_id(human[i][2])
    IN  rule # Null => human[i][3] = rule.lesson_id /\ human[i][4] = rule.lesson_url

\* A finding has one row of the catalog, whether it is asked for by its number, as
\* initialize does, or by its name, as initialize_id does; the row is its own, with
\* its own page of a lesson: the header and the table, two generated files of which
\* one is indexed by the other, agree as a producer starts.
NameIsNumber ==
  diagnostic = Null =>
    \A k \in DOMAIN p101_tool_finding :
      LET name == p101_tool_finding[k]
          rule == lookup(k - 1)
      IN  rule = lookup_id(name) /\ rule.id = name /\ rule.lesson_url[2] = name
=============================================================================
