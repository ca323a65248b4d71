# Verification of p101_tool_support

`p101_tool_support` is the library that the p101 command-line tools share. It writes the
findings of a tool as a report, writes a *run receipt* that says what a run did, and reads
such a receipt back; the command `p101-tool-receipt` is a thin main around the reader. The
library starts no thread and keeps no state between calls. What makes it hard is what is
around it: files that other processes write while they are read, streams that fail half-way,
and callers that go on after a failed call.

This directory holds TLA+ models of that code, TLC configurations that check them on small
instances, and proofs, checked by TLAPS, of all their properties but the two that say that a
call returns, for every instance.

## 1. Inventory

| component | source | state | operations | modelled by |
|---|---|---|---|---|
| run receipts | `src/receipt.c` 108-200, 287-429, 507-620, 821-1023 | none: functions of a receipt or a text | `receipt_is_valid`, `..._digest`, `..._write_json`, `..._validate_json` | `Receipt` |
| receipt files | `src/receipt.c` 622-705, `src/receipt_cli.c`, `test/receipt_fixture.c` | the file, the stdio buffer of the writer, the locals of `validate_file` and of both mains | a writing tool, `..._validate_file`, the command | `ReceiptFile` |
| event fingerprints | `src/receipt.c` 707-819 | the file, `*fingerprint`, the locals of the call | `p101_tool_event_fingerprint_file` | `Fingerprint`, `FingerprintSpec` |
| reports | `src/report.c` | `struct p101_tool_report` (options, streams, `finding_count`, `first_json_finding`, `active`) and two streams | `begin`, `emit`, `end` | `Report`, `ReportLog` |
| output option | `src/report.c` 19-84, `src/diagnostic.c` 122-164 | the caller's `outputs`, the report's streams | `parse_output_option`, `parse_outputs`, `begin`'s choice of streams | `OutputOption` |
| diagnostics | `src/diagnostic.c` | `struct p101_tool_diagnostic`, two streams, `result` | `initialize`, `initialize_id`, `write`, `write_outputs` | `Diagnostic` |
| lesson catalog | `lesson_catalog.h`, `src/lesson_catalog.c` | a constant table, indexed by an enumeration | two lookups | `LessonCatalog` |
| bytes of a digest | `src/receipt.c` 472-549 | the bytes hashed so far | labelled, separated fields | `DigestBytes` |
| FNV-1a | `src/receipt.c` 444-470 | the hash | product in two 32-bit halves, hashing of a byte | `FnvMultiply`, `Fnv1a` |
| number parsing | `src/receipt.c` 202-285 | cursor and number | decimal, 16 hexadecimal digits | `Numbers` |
| build, tests | `CMakeLists.txt`, `test/` | - | - | not modelled |
| `p101_error`, `p101_json`, `p101_record` | not in the repository | - | an error context, quoted strings | from their use |

How they interact. A tool begins a report, emits diagnostics (initialised from the catalog)
and ends it with counters, an outcome and an exit status; it fingerprints its event file and
writes a receipt that binds the same outcome, the counts and the fingerprint with a digest.
Another process reads the receipt with `validate_file`, through `validate_json`, and turns the
verdict into an exit status. The components share no memory: what they share is the file, and
the streams the caller passes.

What is hard, and the properties that would show it going wrong, component by component:

- *Receipt files.* The size of the buffer comes from `fstat`, the content from later reads, so
  the file may shrink, grow or be rewritten in between; the writer may die or fail in the
  middle of a document; stdio may accept what the file never gets; `close` may fail after the
  verdict has been stored. A "valid" verdict has to be about a document the file held
  (`ValidWasHeld`), the exit status has to be earned (`ExitZeroIsEarned`), a torn document is
  malformed rather than altered or of another version (`BadDigestMeansRewritten`,
  `BadVersionWasOld`), a whole one is accepted (`CompleteIsAccepted`), failures are reported
  once and the descriptor is closed (`OneErrorPerFailure`), and the call ends (`CallReturns`), in a
  number of steps that is fixed once the size is known (`StepsRunOut`).
- *Fingerprints.* Limits at their boundary, chunks that end in the middle of a line, a file
  that grows while it is read, a failure after some bytes are counted.
- *Reports.* Any write may fail, the caller may go on, `end` may be refused and called again:
  the count must be that of the whole findings in the JSON stream (`CountIsWritten`); a report that
  has ended, and in which nothing has failed, must be one object (`EndedIsFramed`), and whatever has
  failed, its last summary must be true (`EndIsHonest`); for those who read the list, each call
  grows it by one finding, closes it or leaves it alone (`IsLog`). The human stream promises less:
  a finding whose object, or whose note, has failed stands in it and is not counted.
- *Diagnostics.* A struct is filled again and again, and refused half-way; texts hold line
  feeds, and only some of them are escaped; `result` also takes the counts of stdio; two writers decide separately whether a
  lesson is shown; the enumeration and the table are two files.
- *Option.* The variable of the outputs is the caller's, and a refused option leaves it; all
  outputs together decide which stream is which.
- *Digests and numbers.* Arithmetic at the edge of a word, an encoding without lengths, loops
  without a length.

## 2. Modules

`Receipt` (pure) is extended by `ReceiptFile` (two processes and a file), which `MCReceiptFile`
instantiates for TLC and about which `ReceiptFileProofs` proves. `Fingerprint` instantiates the
abstract `FingerprintSpec` under a refinement mapping; `MCFingerprint` is its instance for TLC.
`Report` implements the abstract `ReportLog`, with `MCReport`. `Diagnostic` extends
`LessonCatalog`; `Fnv1a` extends `FnvMultiply`; `MCDigest` is an instance of `Fnv1a` and of
`DigestBytes`. `Numbers` and `OutputOption` stand by themselves, with `MCNumbers` and
`MCOutputOption`. A module `XProofs` proves about the module `X`, and `DigestProofs` about
`Fnv1a` and `DigestBytes`. Definitions commented "Mutant" are plausible mistakes:
put in the place of the definition below them, each makes one property fail. They are used by nothing else and show that the property depends on the code.

### Receipt

A document is a sequence of *cells*, each a punctuation literal with the scalar that follows
it, or one character of a text; so a document can be cut between any two. The seven
identifying texts (`tool_name` to `run_identity`) are written, read and hashed alike and
one after the other: one text, `identity`, stands for them. A fingerprint, which the code
passes beside the receipt, is a field that may be `Null`. Hashing is free of collisions: the
digest is the tuple of what is hashed (see section 6). `Document` is
what `write_json` writes, `TextCells` includes its refusal of an overlong text, and
`receipt_parse_document` finds each cell where the parser does: the characters of a text run
up to its closing quote, and what does not match makes the text malformed. As in the code,
the schema is looked at first, trailing cells are refused, a text is a C string (a "nul" cell
ends it), and names of outcomes that are in no table make the text malformed. `validate_json`
gives the verdict in the order of the code: version, grammar, rules, digest.

### ReceiptFile

The *tool* is the program of `test/receipt_fixture.c`, with any receipt: `ToolOpen` is its
`fopen(path, "w")`, which truncates; `ToolWrite` the call of `write_json`, which
succeeds when stdio has accepted every cell, and stops earlier at any cell or at an overlong
text; `Flush` hands some of what stdio holds to the file; `ToolClose` and `ToolCloseFails`
are `fclose` and the test of its result; `ToolKilled` is a crash, after which the file keeps
what was flushed. A flush during `write_json` is not an action of its own: it leaves the same
file as one right after the call, and nothing else can see where in the call the writer is.
The *command* is `receipt_cli.c` with `validate_file` inlined, one action per system call, as
another process can write between any two: `Open`, `Stat`, `Read` (any number of bytes up to
the size seen by `fstat`, of what the file holds *now*), `ReadInterrupted` (EINTR, repeated),
`ReadFails` (an error, or 0 bytes before the end), `Validate`, `Close`, and the failing
variants. `validation` starts `Indeterminate`, as the automatic variable of `main` does, and
is read as any value the stack may hold. `held` and `openedAt` are history variables.

### Fingerprint, FingerprintSpec

`Fingerprint` is one call of `p101_tool_event_fingerprint_file`: `Read` takes a chunk (`Take`:
refused by `maximum_bytes`, or hashed byte by byte up to the newline that passes
`maximum_records`), `ReadEnd` sees the end, `CountLastLine` counts an unterminated last line,
`Close` and `CloseFails` store the result or clear the struct. The hash is the sequence
of bytes hashed. Other processes `Extend` the file or, unless `AppendOnly`, `Rewrite` it.
`FingerprintSpec` says what a caller wants: the file is looked at once, and the answer describes
what was seen then, or refuses it because it, or the file at the moment of the refusal, is over a limit. The mapping takes
"seen" to be the bytes read once `read` has returned 0.

### Report

A stream is the sequence of tokens stdio has accepted: `Contract` (the two lines of a human
report), `Header`, `Comma`, `Finding`, `Note` (the lesson line of a text record), `Summary`. A
write of several tokens may fail at any token, leaving a whole prefix or one with a `Torn`
token (`Cuts`). `Emit` is the whole of `p101_tool_report_emit` with `diagnostic_write_outputs`:
the comma, the text record, the object, the count; `CommaFails` and `EmitInvalid` are its
early ends, after which the comma may be out. `End` validates its counters, writes the JSON
summary, then the human one, and clears `active` only if both are written. The caller may
call in any order, with any argument, after any failure. A second `begin` on the same struct
clears all of it, so it is another report, and is left out.

`ReportLog` is what the reader of the JSON stream is promised: a list that each call returning
0 grows by one finding, until a call closes it with its length; a call that fails adds nothing.
The refinement mapping of `Report` takes the list to be the whole findings in the stream, and
the closing number to be that of the summary `end` has accepted. It speaks of reports that write JSON,
and not of what stands beside the list: a summary that `end` wrote and then gave up, because the
human one failed, is still in the stream when a second `end` writes another.

`EndIsHonest` says how far the summaries can be believed after any failures. The last JSON summary
counts the whole findings above it; the human one says the same number, so it leaves out the
findings of its own stream whose call then failed, at most one for each failed write. A JSON
stream has one summary, or, if a human one was asked for too, one more for each failed write at most.

### Diagnostic, LessonCatalog

`Diagnostic` is one struct and its two streams. `Initialize` is either entry point: the rule
comes from `lookup` (a number, the enumeration) or `lookup_id` (a name, the search), and
`initialize_from_rule` stores all of it or nothing. `Fill` is a producer that fills the struct
by hand. `Write` is `write_outputs` (with one stream, `write`): it lists the pieces of the
records in their order; `Put` writes one piece and leaves in `result` what the call of stdio
leaves there, `PutFails` writes a part of it and gives up, `RecordDone` sets `result` back.
The texts have two kinds of characters: a line feed, and any other. A path, a function and a message
go through `write_text_field`, which escapes a line feed; an id and the texts of a lesson are names
here, and those of `Broken` have a line feed, which `Raw` puts into the stream as `fprintf` does. A text
of a lesson may also be NULL or empty (`NoText`), the two things both writers test for. Every column of the
catalog is in `LessonCatalog`, its 111 findings as families and numbers; titles are left out.

### OutputOption

From `-d:human,json` to the streams of the report: the prefix is compared character by
character, what follows by words; `Begin` and `BeginRefused` are `begin`'s tests of the
outputs it is given. The caller's variable starts with 0, the outputs of an earlier option or a value that is none,
and `before` remembers it: a refused option leaves the caller free to go on to `begin`. An argument is any sequence of the
characters and words of the option, or NULL.

### Numbers

`receipt_parse_size` and `receipt_parse_hex`, a turn of the loop a step, on any text of
character codes that ends with a NUL. `parsed` is reduced modulo the word; `exact` is a history variable, the same number
in integers. Neither loop knows the length of its text.

### DigestBytes, FnvMultiply, Fnv1a

`DigestBytes` hashes two receipts side by side, one field a step, keeping the bytes instead
of a hash. `final_newline` is an `int` of which the code hashes the truth value (`Hashed`); two receipts that
differ in no more than that are one receipt to `DigestBinds`. `FnvMultiply` is the multiplication, with the masks and shifts as remainders and
quotients; `Fnv1a` hashes two texts of which one byte differs. The operator `^` is a constant of
`Fnv1a` with the three facts that matter (it gives words, and can be undone on either side); `MCDigest`
gives it its value, the bitwise one, and TLC checks those facts.

## 3. Runs

| run | instance | states | shows |
|---|---|---|---|
| `receipt_one_run` | five receipts, four foreign files, one run of the tool, both modes | 593 000 | types and buffer bounds, `ExitZeroIsEarned`, `CompleteIsAccepted`, `BadDigestMeansRewritten`, `BadVersionWasOld`, `OneErrorPerFailure`, `ExitZeroIsDurable` |
| `receipt_splice` | three receipts, two runs of the tool, `require-clean` | 954 000 | `ValidWasHeld` when a call reads cells of two documents |
| `receipt_returns` | three receipts, the foreign files, one signal, weak fairness | 446 000 | `CallReturns`, and `StepsRunOut`: each step of the command brings its exit nearer |
| `fingerprint` | files up to 6 bytes, chunks of 1 or 2, limits 3 bytes and 2 records, weak fairness | 28 000 | the four invariants of `Fingerprint`, `CallReturns`, and `StepsRunOut` (with the bound on what is read) |
| `fingerprint_snapshot` | files that only grow, up to 6 bytes, limits 4 and 2 | 4 600 | `IsSnapshot`: `Fingerprint` implements `FingerprintSpec` |
| `report` | four diagnostics, eight counter lists, five calls, two failing writes | 239 000 | the six properties of `Report`, and `IsLog`: it implements `ReportLog` |
| `report_comma` | as above, no failing write | violation | finding 1 |
| `report_crash` | as above, two calls | violation | finding 2 |
| `diagnostic` | one path, two messages, seven structs by hand, two writing calls, one failing write | 266 000 | `ZeroIsWhole`, `LinesAreRecords`, `SameLesson`, `NotesAreCatalogued`; `NameIsNumber` on the whole catalog |
| `output_option` | arguments of up to six characters and words, one or two streams | 1 790 000 | the prefix stops at the NUL, `StreamsAreApart`, `BegunAsAsked` |
| `numbers` | texts of up to four characters out of twelve, words of eight bits, two hexadecimal digits | 134 000 | no character behind the NUL, `AcceptedIsDenoted`, `RefusedIsDeserved` |
| `digests` | 120 receipts pairwise; words of eight bits, bytes of two, an odd prime | 337 000 | `DigestBinds`; `MultiplyIsProduct`, `NoIntermediateWrap`, `OneByteShows` |

**The bounds.** `TextMax` = 1 makes the empty text, the longest text and one over the limit
three different texts. The two documents a splice needs have the same
length, with equal cells in front, behind or in between, so that every cut falls between
cells that differ and between cells that agree; two runs of the tool suffice for cells of two
documents in one call, and a foreign file gives a third. `MaxBytes` lies between the longest
document and an oversized foreign one. One interruption suffices: the loop keeps no record of
it. For fingerprints two chunks and a rest fit into six bytes, each limit can be met exactly
and passed by one, and a newline falls on both sides of a chunk boundary; the mutant that
compares only the chunk with the limit is told apart because files may be longer than a limit
and one buffer. For reports five calls are two findings, a refused call, an end and a late
call, and two failing writes hit the same call twice or two calls. A diagnostic is written twice to
find the first record in front of the second; one failing write hits every piece of it. The structs
filled by hand have each way a lesson can be missing, and a line feed in an id and in an address. The
argument of an option is three characters of prefix and up to three words, the longest that
is accepted. The characters of numbers lie on both sides of every comparison, and 255, 256
and 999 are among the texts. The 120 receipts have texts that hold the label of the next field
and numbers whose bytes are characters; words of two four-bit halves are as small as the
prime's halves allow, and every value of the word is reached. What these bounds leave open is
proved for the arithmetic (section 5).

**Deadlock** is not checked: a call that has returned stops, which is where every behaviour
of these models ends when its bounds are used up.

**Fairness.** Two runs assume any: `receipt_returns` `WF_vars(CliStep)`, that the command keeps
being scheduled, and `fingerprint` `WF_vars(Proceed)`, the same of the call. The loops
in `validate_file` and `fingerprint_file` contain no wait for another process: each `read` of a
regular file returns, with bytes, with 0, or with EINTR. Nothing is assumed of the tool, nor of
those who append to the fingerprinted file; they may write for ever, and it is the limits that
end the loop. `StepsRunOut` says so without fairness: no step of the others gives a call back a step
it has made, so that all fairness has to add is that the process runs. The number of interruptions is
bounded by `MaxInterrupts`; a process interrupted for ever would indeed never return.

**What the runs taught.** A first form of `ValidWasHeld` asked that the file held the whole
document that was found valid at one moment. TLC refuted it: the reads can take everything up to the digest from
one document and the rest from a later one of the same length. The digest
covers `does_not_prove`, which comes after it, so the splice passes only when what follows is
what the first document would have had; but the file need not have held it *at that moment*.
The property now says what holds: the file held everything up to the digest.

## 4. Findings

1. `report_comma` (`src/report.c:135`): `emit` writes its comma before the diagnostic is
   looked at, so an emit that is refused for a missing id or message leaves a comma behind; after the next emit, or
   `end`, the findings are no JSON array, though `end` returns 0. `diagnostic.h:43-44` says that an object is
   written so that "a caller can place it in an array". `EndedIsFramed` holds with
   that case excepted.
2. `report_crash` (`src/report.c:173`): `end` means to refuse an outcome outside the
   enumeration by comparing its name with "unknown", but the name is a NULL pointer then.

Four remarks that are no defects of the code. The text record of a finding in a function ends with
`(function f)` behind the id, which the grammar in `diagnostic.h:41` does not mention;
`-d:json,human` is accepted beside the three forms `report.h:42` calls the exact ones; a producer that fills
a struct itself has to keep line feeds out of its id, its lesson's id and the address, which go out as they
stand (`src/diagnostic.c:319` and `:364`; the catalog has none); and after a failed write the human summary may count fewer
findings than stand above it, as `emit` counts a finding when all of it is out (`src/report.c:144-149`).

## 5. Proofs

Each theorem holds for every value of the constants that meets the assumptions of the module
it is about; TLC evaluates those assumptions in the runs. `Counting` holds the lemmas the proofs
share: where the elements of a concatenation are, how many elements of a sequence are in a set,
that a set of numbers has a least one, and from it `NumbersOneByOne`: a *set* that holds 0, and with each
number the next, holds all of them. That is induction for a property that can be
written as a set; the library's own theorem takes an operator. `RecursionExists` is obtained
from it: of a start and a step there is a function on the natural numbers that follows them, which
is what a recursive definition needs before anything can be said of its values.

**`ReceiptFileProofs`**: every invariant that the runs check of `ReceiptFile`, for any
receipts, texts, limits, foreign files and numbers of runs.

- `ExitZeroDurable` (`ExitZeroIsDurable`). The property alone is not inductive: it says
  nothing of the steps before the exit. `WriterInv` adds that while the tool is at `close` the
  file is a prefix of the document, no longer than what stdio has accepted, and that a result
  of 0 means that all of it was accepted; so `ToolClose`, which needs everything flushed, finds
  the whole document.
- `OneError` (`OneErrorPerFailure`). `ErrorInv` adds that nothing has failed before `close` is
  reached, that the descriptor is open from `open` to `close`, and that the number
  of errors is 1 exactly when the result is -1: what `CloseFails` needs in order to raise only
  when nothing was raised.
- `TypeCorrect` (`TypeOK`). `BufferInv` adds that files and texts are sequences, and that the
  buffer is empty until `Stat`: from that each read stays within the size of the buffer. It
  rests on `WriterInv` for the length of the file.
- `CompleteAccepted`, `VersionWasOld`, `DigestMeansRewritten` (`CompleteIsAccepted`,
  `BadVersionWasOld`, `BadDigestMeansRewritten`). The argument has two halves. The first is
  about texts alone. `DocumentLayout` says where each cell of a document is, `CellTells` what
  the kind of a cell tells of its place; from these come `ReadsBack` (a text that is the whole
  document of a receipt is parsed into that receipt, with `Run` at the end of each text) and
  `PartIsRead` (the beginning of a document is "invalid", or is all of it). The second half is
  about the steps: `FileInv` (what the file holds is the beginning of one document; what of it
  reaches the digest while the descriptor is open is in `held`) and, on it, `TextInv` (every cell read of a
  file of this library is the cell at that place of *some* document, `Drawn`; if nothing has
  truncated the file, what was read is how the file begins).
- `CommandStepsAreBounded` (`StepsRunOut`), the safety half of `CallReturns`: a read that is not
  interrupted makes the text longer, and by `BufferInv` no longer than the size `fstat` saw, which
  bounds the loop whatever the file does meanwhile.
- `ValidHeld`, `ZeroEarned` (`ValidWasHeld`, `ExitZeroIsEarned`), if `Foreign` is empty: of a file
  from elsewhere nothing says who held it. `SpliceIsHeld` is the heart of it: a text
  whose cells come from any number of documents, and which is found valid, is the whole document of
  one receipt. The digest cell is of one receipt; as the digest is taken over all
  fields, the parsed receipt has that receipt's fields (`DigestIsOfOne`); as every text fits its buffer,
  each cell is where that receipt's document has it, and what it must be (`LaidTwice`). `OwnInv` adds
  that a file that exists has been written here, and that status 0 comes of a verdict
  that is set, not of what the stack held.

**`NumbersProofs`**, for any word and any text that ends with a NUL: `StopsAtTheNul` (`TypeOK`)
by `NumbersInv`, and `SizeNeverWraps`: no number that fits is reduced modulo the word on the way. `RefusedAtTheEdge` says where the loops
stop: at the end of the digits, or at exactly the first digit with which the number would pass
`SIZE_MAX` (`PassesIsPassing`: the division in the test loses nothing).

- `AcceptedIsTheNumber`, `NoNumberIsRefused` (`AcceptedIsDenoted`, `RefusedIsDeserved`). The
  reference, `Denotes`, adds up the digits from the left with the powers of the base as weights; the
  loops multiply and add. `SumExists` gives the reference its values (its definition is
  recursive, by `Power` and a partial sum), `OneMoreDigit` the law the two have in common:
  a digit more is the number times the base, plus the digit. `DenotesSoFar` then says of every moment
  that `exact` is what the characters passed denote. For a refusal one more thing is needed:
  the loop stops in the middle of the number, and it is `MoreDigitsDenoteMore` that makes the whole run of
  digits denote no less than the part that was already too much.

**`DigestProofs`**, of `Fnv1a`, for any half word, and so for 32 bits: `ProductIsRight` (`MultiplyIsProduct`)
and `NothingOverflows` (`NoIntermediateWrap`) of the split multiplication; `HashesAreWords`;
`DamageShows` (`OneByteShows`), by `OneByteInv`: the two hashes differ from the damaged
byte on, as each step can be undone. `InverseAssumption` gives the prime its inverse and `XorAssumption` is what is used of `^`.

**`DigestProofs`**, of `DigestBytes`, for any labels and any number of receipts: `BytesAreBytes` (`TypeOK`) and
`DifferentBytes` (`DigestBinds`), by `Decodes`: two byte sequences that begin alike come from
equal fields so far, as every text ends in a separator it does not hold and every number has a fixed width.

**`FingerprintProofs`**, for any buffer and limits: `CountsAreBounded`, `DescriptionIsExact`,
`RefusesOnlyTooMuch`, `FailureLeavesNothing`, all four by `FingerprintInv`: the
counts are those of the bytes hashed so far, as they are after every byte, whatever the chunks were.
`FingerprintIsSnapshot` (`IsSnapshot`), if others only append: each step of `Fingerprint` is one of
`FingerprintSpec` or leaves what it speaks of alone. `SnapshotInv` adds that what was read is how
the file begins, so that the bytes seen when `read` returns 0 are the whole file of that moment, and that
nothing but that `read` leads to a result of 0. A file that is rewritten meanwhile has no such
moment, hence the hypothesis. `NullAssumption` says that no answer is taken for another.
`CallStepsAreBounded` (`StepsRunOut`) needs of `FingerprintInv` that no more bytes than the limit
are ever counted: a file that grows for ever is read `MaxBytes` + 1 times at most, and never more
than one buffer past the limit (`ReadingIsBounded`).

**`ReportProofs`**, for any diagnostics, counters and numbers of calls and failures: `StreamsAreTyped`,
`CountIsTrue`, `SummaryIsHonest`, `KeysDiffer` by `ReportInv`; `EndIsFinal` is the action property.

- What `CountIsTrue` and `SummaryIsHonest` say of the human stream needs two facts more in
  `ReportInv`. The findings of that stream are never fewer than the count, and exceed it by no more than
  the failures so far: a finding that is out and not counted is one whose call has failed (`WritingFacts`).
  And `SummariesSoFar`: an open report has a summary for each failed `end` at most, and none in the human
  stream, where a whole summary is the last thing `end` writes.
- `ReportIsLog` (`IsLog`): every step is a step of `ReportLog` or a stutter. The list of the
  mapping, `Found(json)`, is the subsequence of whole findings; what it is after a piece is added
  (unchanged by a comma or a torn token, one longer by a finding) is proved along the stream with
  `NumbersOneByOne`. `ReportInv` gives the number of the summary.
- `ReportIsFramed` (`EndedIsFramed`). The property speaks of ended reports only. `FrameInv`
  says it of every moment: as long as nothing has failed or been refused behind its comma, the stream is
  a header and `finding_count` findings with a comma in front of all but the first, and
  once it has ended, one summary.

**`DiagnosticProofs`**, for any arguments, texts, structs filled by hand, calls and failures:
`DiagnosticIsTyped`, `DiagnosticZeroIsWhole`, `DiagnosticLinesAreRecords`, `DiagnosticSameLesson`
(`TypeOK`, `ZeroIsWhole`, `LinesAreRecords`, `SameLesson`), by `DiagnosticInv`, and
`DiagnosticNotesAreCatalogued` (`NotesAreCatalogued`), by `NotesInv` on top of it.

- None of the four is inductive: what a stream ends in when a call returns was written steps before,
  while `todo` got shorter. `Writing` keeps it: what is left in `todo` is the end of the record of
  the struct as it is now, the stream ends in the last two pieces written (`InRecord`), and in a call with
  two streams the human one already ends in the last two pieces of its record. When a
  record has no piece left, `TextIsOut` and `JsonIsOut` say what stands there.
- `TextIsRecord` and `JsonIsRecord` say, once for all structs, what the writers' pieces are:
  which of them hold a line feed, and that it is behind an id, a bracket or a note, or in front of the
  id or the note it belongs to (`RawIsPlain`, `RawNoteIsNote`); no other piece can hold
  one, since `write_text_field` escapes it (`FieldIsPlain`). `LinesGrow` then carries a stream over a piece,
  `SeveritiesGrow` and `NotesGrow` over a piece or a *part* of one, which is what a failing write leaves.
- The catalog. `CatalogIsSound` proves of the table, row by row, that each row has the lesson
  its finding is at home in (`Home`) and an address with its own id; so two rows with one id cannot have
  two lessons, whatever the lookup finds first. `DiagnosticNameIsNumber` (`NameIsNumber`) says more: the
  row at an enumerator's index is its own, and the search by name ends there. `Place` gives each finding a number;
  `CatalogAgrees` shows, run by run of the families, that both the enumeration and the table have
  it at that number, so that no two of the 111 findings are the same (`NameHasOneRow`). Of the arguments it assumes
  that NULL is the name of no finding (`NullAssumption` of `LessonCatalog`).
- Assumed of the arguments is what C's types say (`FindingsAssumption`, `TextsAssumption`,
  `FilledAssumption`). A struct filled by hand may pair an id of the catalog with any page, which is
  then printed: `DiagnosticNotesAreCatalogued` has the hypothesis `OwnLessons`, that it does not. It holds of the
  structs in the run, one of which has a lesson of its own.

**`OutputOptionProofs`**, for arguments of any length: `StopsInTheArgument`, `NeverOneStream`,
`BegunRight`, by `OptionInv`: how far the prefix has matched, that the outputs are those of `before`
as long as no option is accepted and those the words name afterwards, and which streams `begin` saw.

**What stays with TLC.** The two `CallReturns` are liveness under fairness, which this prover does not
reach; their safety half, `StepsRunOut`, is proved for both calls, and what remains is that a call that has not
returned can make a step, which is `ENABLED`. The two findings are runs that end in a violation.

## 6. What is assumed, and what is left out

- In `Receipt` the digest is free of collisions. The header says that it is "a lightweight
  change detector, not a cryptographic authenticity proof": the properties about splices and
  altered files hold up to a collision. What is shown of the real one: different receipts are
  hashed from different bytes (`DigestBinds`), and one damaged byte changes the hash
  (`OneByteShows`). Of two damaged bytes nothing can be said.
- `p101_json_write_string` and `p101_json_read_string` are external; a text is assumed to
  be read back as it was written. Escapes are one character each here. The parser of `true` and
  `false`, like every literal, is a cell that matches or does not.
- Allocation failures are the failing variants of `Stat` and `Validate`; `p101_error` keeps
  the last error raised, so the models count them.
- The functions under `P101_TOOL_SUPPORT_TESTING` that force failures are left out: the
  failures they force can happen in the models anyway.
- A cut or a splice in the middle of a cell. A string that is cut is unterminated and a
  literal that is cut does not match, so both are malformed, as a missing cell is; a number or
  a digest put together from two documents is another value in its cell, which the digest
  covers as it covers any altered one.
- NULL for the struct or the stream of a report or a diagnostic, and a format that is
  neither text nor JSON: tests at the head of a function that lead to nothing else.
- Wording, the titles of lessons, paths and line numbers, exact escapes, the usage messages.
- The exit status 1 of `require-clean` stands both for an invalid receipt and for findings
  (`receipt_cli.c:102` and `:115`); `ExitZeroIsEarned` is about status 0 only.
- CMake and the unit tests. The build has no state at run time; the tests were read as
  statements about the code, and their fixture is the tool of `ReceiptFile`.

## 7. Plan

Every component with state at run time is modelled. One hazard has no property: of a file that others rewrite
while it is fingerprinted, the code describes the bytes it has read, which the file may never have held at
once, and neither the code nor its documents claim more. Every safety property, action property and refinement
the passing runs check is proved; the two `CallReturns` stay with TLC. What could be added:

1. `FingerprintIsSnapshot` for files that are also truncated, with a promise weaker than a snapshot.
2. `ReportIsFramed` for reports in which a write has failed: a prefix of a frame, followed by
   whatever the caller added after the failure.
