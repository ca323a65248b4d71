----------------------------- MODULE ReceiptFile -----------------------------
(***************************************************************************)
(* A receipt on its way through a file.                                    *)
(*                                                                         *)
(* A tool opens the file for writing, writes one receipt through stdio and *)
(* closes it, as test/receipt_fixture.c does; it may be run again, and it  *)
(* may be killed.  Meanwhile the p101-tool-receipt command reads the file  *)
(* with p101_tool_run_receipt_validate_file and exits with a status.  The  *)
(* two are separate processes; stdio decides when written cells reach the  *)
(* file.                                                                   *)
(***************************************************************************)
EXTENDS Receipt, FiniteSets, SequencesExt

CONSTANTS Char,          \* the bytes of texts
          Receipts,      \* what tools ask to be written
          Foreign,       \* documents the library did not write
          NoFile,        \* the file does not exist
          Modes,         \* the first argument of the command
          MaxBytes,      \* maximum_bytes of validate_file
          MaxRuns,       \* bound: runs of the tool
          MaxInterrupts  \* bound: signals that interrupt one read loop

\* Null is neither an argument nor an exit status.
ASSUME ModesAssumption ==
  Modes \subseteq {"verify", "require-clean"} /\ Null \notin Modes /\ Null # 0

\* A text is a C string, or a NULL pointer; an enumerator is a number.
ASSUME ReceiptsAssumption ==
  /\ Receipts # {}
  /\ \A r \in Receipts :
       /\ \A f \in TextFields : r[f] = Null \/ r[f] \in Seq(Char)
       /\ r.outcome \in Nat /\ r.failure_reason \in Nat

\* A file is a sequence of cells; TooLong is none, it marks where writing stops.
ASSUME ForeignAssumption ==
  \A c \in Foreign : c \in Seq({c[i] : i \in 1..Len(c)} \ {TooLong})

ASSUME BoundsAssumption == MaxBytes \in Nat \ {0} /\ MaxRuns \in Nat /\ MaxInterrupts \in Nat

VARIABLES
  file,        \* content of the path, or NoFile
  generation,  \* how often the file has been truncated for writing
  tool,        \* where the tool is
  receipt,     \* what it writes
  written,     \* how many cells of the document stdio has accepted
  toolResult,  \* result of p101_tool_run_receipt_write_json
  toolExit,    \* the tool's exit status, or Null
  cli,         \* where the command is
  mode,        \* its first argument
  size,        \* st_size seen by fstat
  text,        \* the bytes read
  interrupts,  \* reads interrupted so far
  validation,  \* struct p101_tool_run_receipt_validation of main
  result,      \* result of validate_file
  raised,      \* errors raised on err
  fdOpen,      \* whether the descriptor is open
  cliExit,     \* the command's exit status, or Null
  openedAt,    \* history: generation at open
  held         \* history: the receipts the file has held since open, to the digest

toolVars == <<tool, receipt, written, toolResult, toolExit>>
fileVars == <<file, generation>>
cliVars  == <<cli, mode, size, text, interrupts, validation, result, raised,
              fdOpen, cliExit, openedAt>>
vars     == <<fileVars, toolVars, cliVars, held>>

\* The receipts of which the content c holds the whole document, as a C string.
Holding(c) ==
  {r \in Receipts : receipt_is_valid(r) /\ IsPrefix(Document(r), c)
                    /\ Tag(c, Len(Document(r)) + 1) = "nul"}

\* The receipts of which c holds the document up to the digest, at least.
HoldingDigest(c) ==
  {r \in Receipts : receipt_is_valid(r)
                    /\ IsPrefix(SubSeq(Document(r), 1, DigestCell(r)), c)}

\* `validation' is an automatic variable of main: what it holds until
\* validate_json clears it is whatever the stack held.
Indeterminate == Null
StackValues == {Unvalidated("invalid")} \cup {Validated(r) : r \in {s \in Receipts : receipt_is_valid(s)}}

ASSUME IndeterminateAssumption ==
  Indeterminate \notin {Validated(r) : r \in Receipts} \cup
    {Unvalidated(s) : s \in {"invalid", "bad-version", "bad-digest"}}

Reading(v)  == IF v = Indeterminate THEN StackValues ELSE {v}

Init ==
  /\ file \in {NoFile} \cup Foreign
  /\ generation = 0
  /\ tool = "idle" /\ written = 0 /\ toolResult = 0 /\ toolExit = Null
  /\ receipt = CHOOSE r \in Receipts : TRUE
  /\ cli = "start" /\ mode = Null /\ size = 0 /\ text = <<>> /\ interrupts = 0
  /\ validation = Indeterminate
  /\ result = 0 /\ raised = 0 /\ fdOpen = FALSE /\ cliExit = Null
  /\ openedAt = 0 /\ held = {}

-----------------------------------------------------------------------------
(* The tool.                                                               *)

\* fopen(path, "w") truncates the file, or fails.
ToolOpen(r) ==
  /\ tool \in {"idle", "exited", "killed"}
  /\ generation < MaxRuns
  /\ tool' = "write"
  /\ receipt' = r
  /\ file' = <<>>
  /\ generation' = generation + 1
  /\ written' = 0 /\ toolResult' = 0 /\ toolExit' = Null
  /\ UNCHANGED <<cliVars, held>>

\* p101_tool_run_receipt_write_json.  It refuses an invalid receipt before it
\* writes; else stdio accepts a number of cells, and the call succeeds if that
\* is the whole document.  It stops where a write fails, or a text is too long.
ToolWrite ==
  /\ tool = "write"
  /\ IF receipt_is_valid(receipt)
       THEN \E n \in 0..Len(Document(receipt)) :
              /\ \A i \in 1..n : Document(receipt)[i] # TooLong
              /\ written' = n
              /\ toolResult' = IF n = Len(Document(receipt)) THEN 0 ELSE -1
       ELSE written' = 0 /\ toolResult' = -1
  /\ tool' = "close"
  /\ UNCHANGED <<fileVars, receipt, toolExit, cliVars, held>>

\* stdio hands some of what it has accepted to the file.  A flush during
\* write_json has the same effect on the file as one right after it.
Flush ==
  /\ tool = "close"
  /\ \E n \in (Len(file) + 1)..written : file' = SubSeq(Document(receipt), 1, n)
  /\ held' = IF fdOpen THEN held \cup HoldingDigest(file') ELSE held
  /\ UNCHANGED <<generation, toolVars, cliVars>>

\* main's exit, with which its stream and its locals are gone.
ToolExits(status) ==
  /\ tool' = "exited"
  /\ toolExit' = status
  /\ written' = 0 /\ toolResult' = 0
  /\ UNCHANGED <<fileVars, receipt, cliVars, held>>

\* fclose, once all is flushed.
ToolClose ==
  /\ tool = "close"
  /\ Len(file) = written
  /\ ToolExits(IF toolResult = 0 THEN 0 ELSE 2)

\* Mutant: main takes no notice of what fclose returns.
ToolCloseUnchecked ==
  /\ tool = "close"
  /\ ToolExits(IF toolResult = 0 THEN 0 ELSE 2)

\* fclose cannot flush the rest: main turns that into a failure.
ToolCloseFails ==
  /\ tool = "close"
  /\ ToolExits(2)

\* The process dies, with what stdio still buffers.
ToolKilled ==
  /\ tool \in {"write", "close"}
  /\ tool' = "killed"
  /\ written' = 0 /\ toolResult' = 0
  /\ UNCHANGED <<fileVars, receipt, toolExit, cliVars, held>>

ToolStep ==
  \/ \E r \in Receipts : ToolOpen(r)
  \/ ToolWrite \/ Flush \/ ToolClose \/ ToolCloseFails \/ ToolKilled

-----------------------------------------------------------------------------
(* The command.                                                            *)

Exit(status) == cli' = "exited" /\ cliExit' = status

\* Help, wrong usage, or no error context: main ends without a receipt.
CliNoReceipt ==
  /\ cli = "start"
  /\ \E status \in {0, 2} : Exit(status)
  /\ UNCHANGED <<fileVars, toolVars, held, mode, size, text, interrupts,
                 validation, result, raised, fdOpen, openedAt>>

CliStart ==
  /\ cli = "start"
  /\ mode' \in Modes
  /\ cli' = "open"
  /\ UNCHANGED <<fileVars, toolVars, held, size, text, interrupts, validation,
                 result, raised, fdOpen, cliExit, openedAt>>

\* validate_file raises an error and leaves by `done' (or at once, before
\* there is a descriptor to close) with result -1.
Fail(next) ==
  /\ cli' = next
  /\ result' = -1
  /\ raised' = raised + 1

OpenFails ==
  /\ cli = "open"
  /\ Fail("returned")
  /\ UNCHANGED <<fileVars, toolVars, held, mode, size, text, interrupts,
                 validation, fdOpen, cliExit, openedAt>>

Open ==
  /\ cli = "open"
  /\ file # NoFile
  /\ cli' = "stat"
  /\ fdOpen' = TRUE
  /\ openedAt' = generation
  /\ held' = HoldingDigest(file)
  /\ UNCHANGED <<fileVars, toolVars, mode, size, text, interrupts, validation,
                 result, raised, cliExit>>

\* fstat or calloc fails, or the file is longer than maximum_bytes.
StatFails ==
  /\ cli = "stat"
  /\ Fail("close")
  /\ UNCHANGED <<fileVars, toolVars, held, mode, size, text, interrupts,
                 validation, fdOpen, cliExit, openedAt>>

Stat ==
  /\ cli = "stat"
  /\ Len(file) <= MaxBytes
  /\ size' = Len(file)
  /\ cli' = IF size' = 0 THEN "validate" ELSE "read"
  /\ UNCHANGED <<fileVars, toolVars, held, mode, text, interrupts, validation,
                 result, raised, fdOpen, cliExit, openedAt>>

\* Mutant: read() is given the limit, not what is left of the buffer.
ReadOverrun ==
  /\ cli = "read"
  /\ \E n \in (Len(text) + 1)..MaxBytes :
       /\ n <= Len(file)
       /\ text' = text \o SubSeq(file, Len(text) + 1, n)
  /\ cli' = IF Len(text') >= size THEN "validate" ELSE "read"
  /\ UNCHANGED <<fileVars, toolVars, held, mode, size, interrupts, validation,
                 result, raised, fdOpen, cliExit, openedAt>>

\* read() returns some of what the file holds now beyond what was read.
Read ==
  /\ cli = "read"
  /\ \E n \in (Len(text) + 1)..size :
       /\ n <= Len(file)
       /\ text' = text \o SubSeq(file, Len(text) + 1, n)
  /\ cli' = IF Len(text') = size THEN "validate" ELSE "read"
  /\ UNCHANGED <<fileVars, toolVars, held, mode, size, interrupts, validation,
                 result, raised, fdOpen, cliExit, openedAt>>

ReadInterrupted ==
  /\ cli = "read"
  /\ interrupts < MaxInterrupts
  /\ interrupts' = interrupts + 1
  /\ UNCHANGED <<fileVars, toolVars, held, cli, mode, size, text, validation,
                 result, raised, fdOpen, cliExit, openedAt>>

\* Mutant: a read() of nothing is taken for an interrupted one.
ReadFailsNotAtEnd ==
  /\ cli = "read"
  /\ Len(file) > Len(text)
  /\ Fail("close")
  /\ UNCHANGED <<fileVars, toolVars, held, mode, size, text, interrupts,
                 validation, fdOpen, cliExit, openedAt>>

\* read() fails, or finds the file shorter than fstat said.
ReadFails ==
  /\ cli = "read"
  /\ Fail("close")
  /\ UNCHANGED <<fileVars, toolVars, held, mode, size, text, interrupts,
                 validation, fdOpen, cliExit, openedAt>>

\* validate_json clears the verdict; then its allocation fails, or it decides.
ValidateFails ==
  /\ cli = "validate"
  /\ validation' = Unvalidated("invalid")
  /\ Fail("close")
  /\ UNCHANGED <<fileVars, toolVars, held, mode, size, text, interrupts,
                 fdOpen, cliExit, openedAt>>

Validate ==
  /\ cli = "validate"
  /\ validation' = validate_json(text)
  /\ result' = 0
  /\ cli' = "close"
  /\ UNCHANGED <<fileVars, toolVars, held, mode, size, text, interrupts,
                 raised, fdOpen, cliExit, openedAt>>

Close ==
  /\ cli = "close"
  /\ fdOpen' = FALSE
  /\ cli' = "returned"
  /\ UNCHANGED <<fileVars, toolVars, held, mode, size, text, interrupts,
                 validation, result, raised, cliExit, openedAt>>

\* Mutant: a failing close() is always an error.
CloseFailsAlways ==
  /\ cli = "close"
  /\ fdOpen' = FALSE
  /\ Fail("returned")
  /\ UNCHANGED <<fileVars, toolVars, held, mode, size, text, interrupts,
                 validation, cliExit, openedAt>>

\* Mutant: a failing close() is tried again.
CloseFailsAgain ==
  /\ cli = "close"
  /\ IF result = 0 THEN Fail("close") ELSE UNCHANGED <<cli, result, raised>>
  /\ UNCHANGED <<fileVars, toolVars, held, mode, size, text, interrupts,
                 validation, fdOpen, cliExit, openedAt>>

\* A failing close() is an error only if nothing failed before.
CloseFails ==
  /\ cli = "close"
  /\ fdOpen' = FALSE
  /\ IF result = 0 THEN Fail("returned")
                   ELSE cli' = "returned" /\ UNCHANGED <<result, raised>>
  /\ UNCHANGED <<fileVars, toolVars, held, mode, size, text, interrupts,
                 validation, cliExit, openedAt>>

\* Mutant: main looks at the verdict before it looks at the result.
ExitStatusOfVerdict(res, v, m) ==
  IF v.status # "valid" THEN (IF res # 0 THEN 2 ELSE 1)
  ELSE IF m = "require-clean" /\ v.outcome # Clean THEN outcome_exit_status(v.outcome)
  ELSE 0

\* The exit status main derives from a result, a verdict and a mode.
ExitStatus(res, v, m) ==
  IF res # 0 THEN 2
  ELSE IF v.status # "valid" THEN 1
  ELSE IF m = "require-clean" /\ v.outcome # Clean THEN outcome_exit_status(v.outcome)
  ELSE 0

CliReport ==
  /\ cli = "returned"
  /\ \E v \in Reading(validation) : Exit(ExitStatus(result, v, mode))
  /\ UNCHANGED <<fileVars, toolVars, held, mode, size, text, interrupts,
                 validation, result, raised, fdOpen, openedAt>>

CliStep ==
  \/ CliNoReceipt \/ CliStart \/ OpenFails \/ Open \/ StatFails \/ Stat
  \/ Read \/ ReadInterrupted \/ ReadFails \/ ValidateFails \/ Validate
  \/ Close \/ CloseFails \/ CliReport

Next == ToolStep \/ CliStep

Spec == Init /\ [][Next]_vars

\* The command keeps being scheduled; the tool need not be.
FairSpec == Spec /\ WF_vars(CliStep)

-----------------------------------------------------------------------------
(* Properties.                                                             *)

Statuses == {"valid", "invalid", "bad-version", "bad-digest"}

\* Every variable has its type; what is in the file has been written to it, and
\* the read loop stays within the buffer that fstat's size was allocated for.
TypeOK ==
  /\ generation \in 0..MaxRuns /\ openedAt \in 0..generation
  /\ tool \in {"idle", "write", "close", "exited", "killed"}
  /\ receipt \in Receipts
  /\ written \in Nat
  /\ toolResult \in {0, -1} /\ toolExit \in {Null, 0, 2}
  /\ tool \in {"write", "close"} => Len(file) <= written
  /\ cli \in {"start", "open", "stat", "read", "validate", "close", "returned", "exited"}
  /\ mode \in Modes \cup {Null}
  /\ size \in 0..MaxBytes /\ Len(text) \in 0..size
  /\ interrupts \in 0..MaxInterrupts
  /\ validation = Indeterminate \/ validation.status \in Statuses
  /\ result \in {0, -1} /\ raised \in Nat
  /\ fdOpen \in BOOLEAN /\ cliExit \in {Null, 0, 1, 2}
  /\ held \subseteq Receipts

\* A call of validate_file has returned.
Returned == cli \in {"returned", "exited"} /\ mode \in Modes

\* A "valid" verdict is about one receipt, whole, of which the file held
\* everything up to the digest at some moment of the call, whatever was
\* written, rewritten or cut meanwhile: the reads of one call may come from
\* several writes of the file, and the digest and the exact grammar are what
\* stops the splice from passing.  (What follows the digest may come from
\* another write: the digest vouches for it.)
ValidWasHeld ==
  Returned /\ result = 0 /\ validation.status = "valid" =>
    \E r \in held : r \in Holding(text) /\ validation = Validated(r)

\* The command exits with 0 only for a receipt that the file held, as above,
\* during the call and, for require-clean, only for a clean one; whatever was
\* on main's stack where validate_file left the verdict unset, and although
\* validate_file can fail after it has set the verdict to "valid".
ExitZeroIsEarned ==
  cliExit = 0 /\ mode \in Modes =>
    /\ result = 0
    /\ \E r \in held : r \in Holding(text) /\ (mode = "require-clean" => r.outcome = Clean)

\* A complete document that was not rewritten during the call is never
\* refused: what the writer can write, up to its limit on texts, the reader reads.
CompleteIsAccepted ==
  Returned /\ result = 0 /\ generation = openedAt /\ size = Len(file) =>
    \A r \in Holding(file) : validation = Validated(r)

\* A bad digest in a file that only this library writes means that the file
\* was rewritten while it was read: a document cut short by a crash, a full
\* disk or a refused text is reported as invalid, never as altered.
BadDigestMeansRewritten ==
  Returned /\ result = 0 /\ validation.status = "bad-digest" =>
    openedAt < generation \/ openedAt = 0

\* "bad-version" is said only of a file that was of another version when
\* opened: a document of this version is never taken for another's, however
\* little of it has reached the file.
BadVersionWasOld ==
  Returned /\ result = 0 /\ validation.status = "bad-version" => openedAt = 0

\* validate_file fails exactly when it raises an error, and raises only one,
\* although two of its steps may fail; and it has closed its descriptor.
OneErrorPerFailure ==
  Returned => raised = (IF result = 0 THEN 0 ELSE 1) /\ ~fdOpen

\* When the tool's exit status says that the receipt is written, all of it is
\* in the file, and stays there until the file is opened for writing again.
ExitZeroIsDurable ==
  tool = "exited" /\ toolExit = 0 => receipt_is_valid(receipt) /\ file = Document(receipt)

\* The steps the command can still make, at most: every read that is not interrupted
\* fills some of the buffer.
StepsLeft ==
  CASE cli = "start"    -> MaxBytes + MaxInterrupts + 6
    [] cli = "open"     -> MaxBytes + MaxInterrupts + 5
    [] cli = "stat"     -> MaxBytes + MaxInterrupts + 4
    [] cli = "read"     -> (size - Len(text)) + (MaxInterrupts - interrupts) + 3
    [] cli = "validate" -> 3
    [] cli = "close"    -> 2
    [] cli = "returned" -> 1
    [] cli = "exited"   -> 0

\* Each step of the command takes it nearer to its exit, and no step of the tool takes
\* it back: the loop does not start again when the file shrinks or is rewritten under
\* it, and what fails is not tried a second time.
StepsRunOut ==
  [][ \/ UNCHANGED cliVars
      \/ StepsLeft \in Nat /\ StepsLeft' \in Nat /\ StepsLeft' < StepsLeft ]_vars

\* A call of validate_file ends, and the command exits, even if the file is
\* truncated under the read loop.
CallReturns == (cli = "open") ~> (cli = "exited")
=============================================================================
