-------------------------------- MODULE Report --------------------------------
(***************************************************************************)
(* A report of findings (src/report.c): begin, any number of emits, end.   *)
(*                                                                         *)
(* A stream is the sequence of tokens stdio has accepted for it.  Any      *)
(* write may fail, once part of it has gone out or none of it; the caller  *)
(* may then go on, call again, or give up.                                 *)
(***************************************************************************)
EXTENDS Integers, Sequences, FiniteSets

CONSTANTS
  Null,             \* a NULL pointer
  Diagnostics,      \* diagnostic arguments: [message, lesson] or Null
  CounterLists,     \* counters arguments: sequences of names, or Null with a count
  WellFormedNames,  \* the names made of a-z, 0-9 and _
  OutcomeNames,     \* what p101_tool_outcome_name returns: a name, or Null
  ExitStatuses,     \* exit_status arguments
  MaxCalls,         \* bound: calls of emit and end
  MaxFailures       \* bound: failing writes

ASSUME BoundsAssumption == MaxCalls \in Nat /\ MaxFailures \in Nat

ASSUME CountersAssumption ==
  \A c \in CounterLists \ {Null} : c \in Seq({c[i] : i \in DOMAIN c})

VARIABLES
  phase,               \* "none" before begin has stored anything, "begun", "crashed"
  active, finding_count, first_json_finding,  \* fields of struct p101_tool_report
  human_summary,       \* options.human_summary
  outputs,             \* the streams that are not NULL
  human, json,         \* the streams
  result,              \* what the last call returned, or Null
  calls, failures,     \* calls made and writes failed so far
  refused              \* history: an emit was refused although a finding was out

fields  == <<active, finding_count, first_json_finding>>
options == <<human_summary, outputs>>
streams == <<human, json>>
vars == <<phase, fields, options, streams, result, calls, failures, refused>>

Init ==
  /\ phase = "none"
  /\ active = FALSE /\ finding_count = 0 /\ first_json_finding = FALSE
  /\ human_summary = FALSE /\ outputs = {}
  /\ human = <<>> /\ json = <<>>
  /\ result = Null /\ calls = 0 /\ failures = 0 /\ refused = FALSE

-----------------------------------------------------------------------------
(* Tokens and writes.                                                      *)

Torn        == <<"torn">>
Contract    == <<"contract">>     \* the two "report:" lines
Header      == <<"header">>       \* {"schema": ... "findings":[
Comma       == <<"comma">>
Finding(d)  == <<"finding", d.message>>
Note(d)     == <<"note", d.message>>   \* the lesson line of a text record
Summary(count, names, name, status) == <<"summary", count, names, name, status>>

\* What stdio accepts of a sequence of tokens when a write of them fails.
Cuts(tokens) ==
  {SubSeq(tokens, 1, k) : k \in 0..(Len(tokens) - 1)} \cup
  {SubSeq(tokens, 1, k) \o <<Torn>> : k \in 0..(Len(tokens) - 1)}

\* A call writes all of h to the human stream and all of j to the JSON stream, or
\* returns at a cut of one of them.
Whole(h, j)    == {[h |-> h, j |-> j, ok |-> TRUE]}
Failing(h, j)  == {[h |-> h, j |-> j, ok |-> FALSE]}
MayFail(cases) == IF failures < MaxFailures THEN cases ELSE {}

HumanThenJson(h, j) ==
  Whole(h, j) \cup MayFail( (UNION {Failing(c, <<>>) : c \in Cuts(h)}) \cup
                            (UNION {Failing(h, c) : c \in Cuts(j)}) )

JsonThenHuman(h, j) ==
  Whole(h, j) \cup MayFail( (UNION {Failing(<<>>, c) : c \in Cuts(j)}) \cup
                            (UNION {Failing(c, j) : c \in Cuts(h)}) )

Accept(w) ==
  /\ human' = human \o w.h
  /\ json' = json \o w.j
  /\ failures' = failures + (IF w.ok THEN 0 ELSE 1)

\* Mutant: a stream that was not asked for is written to as well.
ToEither(stream, tokens) == tokens

To(stream, tokens) == IF stream \in outputs THEN tokens ELSE <<>>

-----------------------------------------------------------------------------
(* The calls.                                                              *)

\* EINVAL: options, streams or text missing.  The report is left as it was.
BeginRefused ==
  /\ phase = "none"
  /\ result' = -1
  /\ UNCHANGED <<phase, fields, options, streams, calls, failures, refused>>

\* p101_tool_report_begin.  The report is active even if its frame is torn.
Begin ==
  /\ phase = "none"
  /\ phase' = "begun"
  /\ outputs' \in {{"human"}, {"json"}, {"human", "json"}}
  /\ human_summary' \in BOOLEAN
  /\ active' = TRUE /\ finding_count' = 0 /\ first_json_finding' = TRUE
  /\ \E w \in HumanThenJson(IF "human" \in outputs' THEN <<Contract>> ELSE <<>>,
                     IF "json" \in outputs' THEN <<Header>> ELSE <<>>) :
       /\ Accept(w)
       /\ result' = IF w.ok THEN 0 ELSE -1
  /\ UNCHANGED <<calls, refused>>

\* Mutant: a report that has ended is still taken for an active one.
StillActive == phase = "begun"

IsActive == phase = "begun" /\ active

Call == phase = "begun" /\ calls < MaxCalls /\ calls' = calls + 1

\* EINVAL from the tests a call makes before it writes.
Refuse ==
  /\ result' = -1
  /\ UNCHANGED <<phase, fields, options, streams, failures>>

EmitRefused(d) ==
  /\ Call
  /\ ~IsActive \/ d = Null
  /\ Refuse /\ UNCHANGED refused

\* The comma before every finding but the first one.
Separator == IF first_json_finding THEN <<>> ELSE To("json", <<Comma>>)

\* fputc fails to write the comma.
CommaFails(d) ==
  /\ Call
  /\ IsActive /\ d # Null
  /\ Separator # <<>> /\ failures < MaxFailures
  /\ failures' = failures + 1
  /\ result' = -1
  /\ UNCHANGED <<phase, fields, options, streams, refused>>

\* p101_tool_diagnostic_write refuses a diagnostic without id or message; the
\* comma is already out.
EmitInvalid(d) ==
  /\ Call
  /\ IsActive /\ d # Null
  /\ d.message = Null
  /\ json' = json \o Separator
  /\ result' = -1
  /\ refused' = (refused \/ Separator # <<>>)
  /\ UNCHANGED <<phase, fields, options, human, failures>>

\* What a diagnostic is written as: a text record, with a line for its lesson ...
TextRecord(d) == To("human", <<Finding(d)>> \o (IF d.lesson THEN <<Note(d)>> ELSE <<>>))

\* ... and one object.
JsonObject(d) == To("json", <<Finding(d)>>)

\* Mutant: the object is written before the text record.
OutputsJsonFirst(d) == JsonThenHuman(TextRecord(d), JsonObject(d))

\* p101_tool_diagnostic_write_outputs.
Outputs(d) == HumanThenJson(TextRecord(d), JsonObject(d))

\* Mutant: the separator is not armed by the first finding.
CountUnseparated(ok) ==
  /\ finding_count' = finding_count + (IF ok THEN 1 ELSE 0)
  /\ UNCHANGED first_json_finding

\* Mutant: a finding that could not be written counts too.
CountAlways(ok) ==
  /\ finding_count' = finding_count + 1
  /\ first_json_finding' = FALSE

\* Only a finding that was written whole counts.
Count(ok) ==
  /\ finding_count' = finding_count + (IF ok THEN 1 ELSE 0)
  /\ first_json_finding' = (first_json_finding /\ ~ok)

\* p101_tool_report_emit, its tests passed.
Emit(d) ==
  /\ Call
  /\ IsActive /\ d # Null
  /\ d.message # Null
  /\ \E w \in Outputs(d) :
       /\ Accept([w EXCEPT !.j = Separator \o @])
       /\ result' = IF w.ok THEN 0 ELSE -1
       /\ Count(w.ok)
  /\ UNCHANGED <<phase, active, options, refused>>

validate_counter_name(name) == name # Null /\ name # "" /\ name \in WellFormedNames

\* Mutant: a name is compared with the one before it only.
validate_counters_adjacent(counters) ==
  counters # Null /\ \A i \in 1..Len(counters) :
    /\ validate_counter_name(counters[i])
    /\ counters[i] # "findings"
    /\ i > 1 => counters[i] # counters[i - 1]

validate_counters(counters) ==
  counters # Null /\ \A i \in 1..Len(counters) :
    /\ validate_counter_name(counters[i])
    /\ counters[i] # "findings"
    /\ \A j \in 1..(i - 1) : counters[i] # counters[j]

\* exit_status > MAXIMUM_EXIT_STATUS, or negative.
BadStatus(status) == status < 0 \/ status > 255

\* strcmp(NULL, "unknown"): the outcome has no name.
EndCrashes(counters, name) ==
  /\ Call
  /\ IsActive /\ validate_counters(counters)
  /\ name = Null
  /\ phase' = "crashed"
  /\ result' = Null
  /\ UNCHANGED <<fields, options, streams, failures, refused>>

EndRefused(counters, name, status) ==
  /\ Call
  /\ \/ ~IsActive
     \/ ~validate_counters(counters)
     \/ name # Null /\ (name = "unknown" \/ BadStatus(status))
  /\ Refuse /\ UNCHANGED refused

\* Mutant: end clears `active' before it looks at what it could write.
EndsAlways(ok) == active' = FALSE

\* The report ends only when both summaries are out.
Ends(ok) == active' = (active /\ ~ok)

\* p101_tool_report_end, its tests passed.
End(counters, name, status) ==
  /\ Call
  /\ IsActive /\ validate_counters(counters)
  /\ name # Null /\ name # "unknown" /\ ~BadStatus(status)
  /\ LET summary == <<Summary(finding_count, counters, name, status)>>
     IN  \E w \in JsonThenHuman(IF human_summary THEN To("human", summary) ELSE <<>>,
                         To("json", summary)) :
           /\ Accept(w)
           /\ result' = IF w.ok THEN 0 ELSE -1
           /\ Ends(w.ok)
  /\ UNCHANGED <<phase, finding_count, first_json_finding, options, refused>>

Next ==
  \/ BeginRefused \/ Begin
  \/ \E d \in Diagnostics : EmitRefused(d) \/ CommaFails(d) \/ EmitInvalid(d) \/ Emit(d)
  \/ \E c \in CounterLists, name \in OutcomeNames :
       \/ EndCrashes(c, name)
       \/ \E status \in ExitStatuses : EndRefused(c, name, status) \/ End(c, name, status)

Spec == Init /\ [][Next]_vars

-----------------------------------------------------------------------------
(* Properties.                                                             *)

IsFinding(token) == token[1] = "finding"
IsSummary(token) == token[1] = "summary"

\* How many findings are whole in the first n tokens of a stream.
FindingsIn(stream, n) == Cardinality({i \in 1..n : IsFinding(stream[i])})

\* How many summaries are whole in a stream.
SummariesIn(stream) == Cardinality({i \in 1..Len(stream) : IsSummary(stream[i])})

\* Every variable has its type, and only the streams of the report are written to.
TypeOK ==
  /\ phase \in {"none", "begun", "crashed"}
  /\ active \in BOOLEAN /\ first_json_finding \in BOOLEAN /\ human_summary \in BOOLEAN
  /\ finding_count \in 0..calls /\ calls \in 0..MaxCalls /\ failures \in 0..MaxFailures
  /\ outputs \subseteq {"human", "json"}
  /\ human # <<>> => "human" \in outputs
  /\ json # <<>> => "json" \in outputs
  /\ result \in {0, -1, Null}
  /\ refused \in BOOLEAN

\* finding_count is the number of findings that are whole in the JSON stream,
\* whichever write failed, and however often the caller went on after that;
\* first_json_finding says whether there is one.  The human stream holds as many, or
\* more: at most one for each write that failed behind the line of its finding.
CountIsWritten ==
  phase # "none" =>
    /\ first_json_finding = (finding_count = 0)
    /\ "json" \in outputs => finding_count = FindingsIn(json, Len(json))
    /\ "human" \in outputs =>
         FindingsIn(human, Len(human)) \in finding_count..(finding_count + failures)

\* The JSON text of a report that has been written without a failing write.
Framed(stream) ==
  LET n == FindingsIn(stream, Len(stream))
      m == IF n = 0 THEN 0 ELSE 2 * n - 1
  IN  /\ Len(stream) = m + 2
      /\ stream[1] = Header
      /\ \A i \in 1..m : IF i % 2 = 1 THEN IsFinding(stream[i + 1]) ELSE stream[i + 1] = Comma
      /\ IsSummary(stream[m + 2]) /\ stream[m + 2][2] = n

Ended == phase = "begun" /\ ~active

\* When end has said 0 and no write failed, the JSON stream holds one object: the
\* header, the findings with a comma between any two, and one summary, even if
\* calls of end were refused before (as test/test_report.c does).
EndedIsFramed ==
  Ended /\ failures = 0 /\ ~refused /\ "json" \in outputs => Framed(json)

\* The same without the exception for an emit that was refused.
EndedIsAlwaysFramed ==
  Ended /\ failures = 0 /\ "json" \in outputs => Framed(json)

\* The last thing in the stream is a summary.
Closed(stream) == stream # <<>> /\ IsSummary(stream[Len(stream)])

HumanSummaryAsked == "human" \in outputs /\ human_summary

\* When end has said 0, each stream that gets a summary ends with it, whole, and both
\* say the same.  That of the JSON stream counts the findings above it, whatever failed
\* before.  That of the human stream may leave out findings above it: those whose lesson
\* line or JSON object could not be written, at most one for each failed write.  An
\* earlier summary stands in the JSON stream only if a human summary failed behind it
\* and end was called again; in the human stream there is one.
EndIsHonest ==
  Ended =>
    /\ "json" \in outputs =>
         /\ Closed(json) /\ json[Len(json)][2] = FindingsIn(json, Len(json))
         /\ SummariesIn(json) <= 1 + failures
         /\ ~HumanSummaryAsked => SummariesIn(json) = 1
    /\ HumanSummaryAsked =>
         /\ Closed(human) /\ SummariesIn(human) = 1
         /\ FindingsIn(human, Len(human)) - human[Len(human)][2] \in 0..failures
    /\ outputs = {"human", "json"} /\ human_summary => human[Len(human)] = json[Len(json)]

\* No two members of a summary object have the same key; "findings" is one.
SummaryKeysDiffer ==
  \A i \in 1..Len(json) : IsSummary(json[i]) =>
    LET keys == <<"findings">> \o json[i][3]
    IN  \A j, k \in 1..Len(keys) : j # k => keys[j] # keys[k]

\* A report that has ended is never written to again: a late emit or a second end
\* leaves the summary the last thing in each stream.
EndedStaysAsItIs ==
  [][ Ended => UNCHANGED <<fields, streams>> ]_vars

HasJson == "json" \in outputs

\* The messages of the findings in a stream, in their order.
Found(stream) ==
  LET found[n \in 0..Len(stream)] ==
        IF n = 0 THEN <<>>
        ELSE IF IsFinding(stream[n]) THEN Append(found[n - 1], stream[n][2])
        ELSE found[n - 1]
  IN  found[Len(stream)]

Messages == {d.message : d \in Diagnostics \ {Null}}

\* What the reader of the JSON stream sees: whether there is one, the number its
\* findings are closed with, and what the last call has said of it.
Begun   == phase # "none" /\ HasJson
Closing == IF Ended /\ HasJson THEN json[Len(json)][2] ELSE Null
Answer  == IF phase = "none" \/ HasJson THEN result ELSE Null

Log == INSTANCE ReportLog
  WITH begun <- Begun, found <- Found(json), closing <- Closing, answer <- Answer

\* Whatever fails, and whatever the caller does then, the JSON stream is a log: its
\* findings are those of the calls of emit that returned 0, in their order, and the
\* end that returned 0 closed it with their number.
IsLog == Log!Spec

\* end refuses an outcome that is not one, as it refuses any other bad argument.
EndNeverCrashes == phase # "crashed"
=============================================================================
