------------------------------- MODULE Receipt -------------------------------
(***************************************************************************)
(* Run receipts: which receipts the library accepts, the document it       *)
(* writes for one, and the verdict it gives on a text (src/receipt.c).     *)
(*                                                                         *)
(* A document is a sequence of cells.  A cell is a punctuation literal     *)
(* with the scalar that follows it, or one character of a text field, so   *)
(* a document can be cut or spliced between any two of them.  `identity'   *)
(* stands for the seven identifying texts (tool_name .. run_identity):     *)
(* the code treats them alike.  A receipt carries the fingerprint passed   *)
(* beside it, or Null.  Hashing is taken to be free of collisions.         *)
(***************************************************************************)
EXTENDS Integers, Sequences

CONSTANTS TextMax,   \* P101_TOOL_EVENT_RECEIPT_TEXT_MAX_BYTES
          Null       \* a NULL pointer

ASSUME TextMaxAssumption == TextMax \in Nat \ {0}

Clean      == 0
Findings   == 1
ToolError  == 5
NoFailure  == 0

OutcomeNames ==
  <<"clean", "findings", "refused", "incomplete", "unsupported", "tool-error">>

FailureNames ==
  <<"none", "findings-present", "input-refused", "evidence-incomplete",
    "unsupported-input", "tool-error">>

outcome_name(outcome) ==
  IF outcome > ToolError THEN Null ELSE OutcomeNames[outcome + 1]

failure_reason_name(reason) ==
  IF reason > ToolError THEN Null ELSE FailureNames[reason + 1]

outcome_exit_status(outcome) ==
  CASE outcome = Clean    -> 0
    [] outcome = Findings -> 1
    [] OTHER              -> 2

TextFields == {"identity", "failed_stage", "first_diagnostic", "does_not_prove"}

\* p101_tool_run_receipt's rules, in the order receipt_is_valid tests them.
receipt_is_valid(r) ==
  /\ \A f \in TextFields : r[f] # Null
  /\ r.checks_completed <= r.checks_attempted
  /\ outcome_name(r.outcome) # Null
  /\ failure_reason_name(r.failure_reason) # Null
  /\ r.failure_reason = r.outcome
  /\ IF r.outcome = Clean
       THEN r.failed_stage = <<>> /\ r.first_diagnostic = <<>>
       ELSE r.failed_stage # <<>> /\ r.first_diagnostic # <<>>

\* Mutant: the digest leaves out the identity of the run.
digest_without_identity(r) ==
  IF ~receipt_is_valid(r) THEN Null ELSE
    << outcome_name(r.outcome), failure_reason_name(r.failure_reason),
       r.failed_stage, r.first_diagnostic, r.checks_attempted, r.checks_completed,
       r.fingerprint, r.does_not_prove >>

\* p101_tool_run_receipt_digest: every field, in order; 0 for an invalid receipt.
receipt_digest(r) ==
  IF ~receipt_is_valid(r) THEN Null ELSE
    << r.identity, outcome_name(r.outcome), failure_reason_name(r.failure_reason),
       r.failed_stage, r.first_diagnostic, r.checks_attempted, r.checks_completed,
       r.fingerprint, r.does_not_prove >>

-----------------------------------------------------------------------------
(* The document, in the order p101_tool_run_receipt_write_json writes it.  *)

SchemaName == "v4"

\* Where receipt_put_json_string refuses a text: nothing follows it.
TooLong == <<"too long", Null>>

\* Mutant: a text over the limit is cut instead of refused.
TextCellsCut(t) ==
  [i \in 1..(IF Len(t) > TextMax THEN TextMax ELSE Len(t)) |-> <<"char", t[i]>>]

TextCells(t) ==
  IF Len(t) > TextMax THEN <<TooLong>>
                      ELSE [i \in 1..Len(t) |-> <<"char", t[i]>>]

\* Where in its document the digest of a receipt stands.
DigestCell(r) ==
  7 + Len(r.identity) + Len(r.failed_stage) + Len(r.first_diagnostic)
    + (IF r.fingerprint = Null THEN 0 ELSE 1) + 1

Document(r) ==
     << <<"schema", SchemaName>>, <<"identity", Null>> >>
  \o TextCells(r.identity)
  \o << <<"outcome", outcome_name(r.outcome)>>,
        <<"reason", failure_reason_name(r.failure_reason)>>,
        <<"stage", Null>> >>
  \o TextCells(r.failed_stage)
  \o << <<"first_diagnostic", Null>> >>
  \o TextCells(r.first_diagnostic)
  \o << <<"checks", <<r.checks_attempted, r.checks_completed>> >> >>
  \o (IF r.fingerprint = Null THEN <<>> ELSE << <<"fingerprint", r.fingerprint>> >>)
  \o << <<"digest", receipt_digest(r)>>, <<"does_not_prove", Null>> >>
  \o TextCells(r.does_not_prove)
  \o << <<"end", Null>> >>

-----------------------------------------------------------------------------
(* Reading a document back.                                                *)

\* The kind of cell i.  The text is a C string: it ends at a NUL byte.
Tag(text, i) == IF i \in 1..Len(text) THEN text[i][1] ELSE "nul"

\* p101_json_read_string: the characters from cell i up to the closing quote.
Run(text, i) ==
  CHOOSE n \in 0..Len(text) :
    /\ Tag(text, i + n) # "char"
    /\ \A j \in i..(i + n - 1) : Tag(text, j) = "char"

TextAt(text, i) == [j \in 1..Run(text, i) |-> text[i + j - 1][2]]

\* Mutant: no room for a text of the greatest length.
FitsLess(text, i) == Run(text, i) < TextMax

\* The buffers of struct parsed_receipt hold TextMax bytes and a terminator.
Fits(text, i) == Run(text, i) <= TextMax

\* The enumerator a name stands for, when the table has the name.
Named(names, name) == \E v \in 0..ToolError : names[v + 1] = name
ValueOf(names, name) == CHOOSE v \in 0..ToolError : names[v + 1] = name

\* Mutant: whatever does not start like this version is another version.
schema_result_lax(text) ==
  IF Tag(text, 1) = "schema" /\ text[1][2] = SchemaName THEN 0 ELSE 1

\* The first thing parsed: the text is malformed, of another version, or neither.
schema_result(text) ==
  CASE Tag(text, 1) # "schema"    -> -1
    [] Tag(text, 1) = "schema" /\ text[1][2] # SchemaName -> 1
    [] OTHER                      -> 0

\* receipt_parse_document: a result (0, -1, or 1 for another version) with
\* the receipt and the digest that the text claims.
receipt_parse_document(text) ==
  LET outcome  == 3 + Run(text, 3)
      stage    == outcome + 3
      first    == stage + Run(text, stage) + 1
      checks   == first + Run(text, first)
      present  == Tag(text, checks + 1) = "fingerprint"
      digest   == checks + 1 + (IF present THEN 1 ELSE 0)
      limits   == digest + 2
      end      == limits + Run(text, limits)
      WellFormed ==
        /\ Tag(text, 2) = "identity"           /\ Fits(text, 3)
        /\ Tag(text, outcome) = "outcome"
        /\ Tag(text, outcome + 1) = "reason"
        /\ Tag(text, outcome + 2) = "stage"    /\ Fits(text, stage)
        /\ Tag(text, first - 1) = "first_diagnostic" /\ Fits(text, first)
        /\ Tag(text, checks) = "checks"
        /\ Tag(text, digest) = "digest"
        /\ Tag(text, digest + 1) = "does_not_prove"  /\ Fits(text, limits)
        /\ Tag(text, end) = "end"
        /\ Tag(text, end + 1) = "nul"
        /\ Named(OutcomeNames, text[outcome][2])
        /\ Named(FailureNames, text[outcome + 1][2])
  IN  IF schema_result(text) # 0 THEN [result |-> schema_result(text)]
      ELSE IF ~WellFormed THEN [result |-> -1]
      ELSE   [ result  |-> 0,
               claimed |-> text[digest][2],
               receipt |->
                 [ identity         |-> TextAt(text, 3),
                   outcome          |-> ValueOf(OutcomeNames, text[outcome][2]),
                   failure_reason   |-> ValueOf(FailureNames, text[outcome + 1][2]),
                   failed_stage     |-> TextAt(text, stage),
                   first_diagnostic |-> TextAt(text, first),
                   checks_attempted |-> text[checks][2][1],
                   checks_completed |-> text[checks][2][2],
                   fingerprint      |-> IF present THEN text[checks + 1][2] ELSE Null,
                   does_not_prove   |-> TextAt(text, limits) ] ]

\* struct p101_tool_run_receipt_validation: all zero but the status ...
Unvalidated(status) ==
  [ status |-> status, outcome |-> Clean, failure_reason |-> NoFailure,
    checks_attempted |-> 0, checks_completed |-> 0,
    fingerprint |-> Null, digest |-> Null ]

\* ... until the receipt r is found valid.
Validated(r) ==
  [ status |-> "valid", outcome |-> r.outcome, failure_reason |-> r.failure_reason,
    checks_attempted |-> r.checks_attempted, checks_completed |-> r.checks_completed,
    fingerprint |-> r.fingerprint, digest |-> receipt_digest(r) ]

\* p101_tool_run_receipt_validate_json, its allocation having succeeded.
validate_json(text) ==
  LET parsed == receipt_parse_document(text)
  IN  CASE parsed.result = 1  -> Unvalidated("bad-version")
        [] parsed.result = -1 -> Unvalidated("invalid")
        [] OTHER ->
             IF ~receipt_is_valid(parsed.receipt)
               THEN Unvalidated("invalid")
               ELSE IF receipt_digest(parsed.receipt) # parsed.claimed
                      THEN Unvalidated("bad-digest")
                      ELSE Validated(parsed.receipt)
=============================================================================
