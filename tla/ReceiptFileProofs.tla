-------------------------- MODULE ReceiptFileProofs --------------------------
(***************************************************************************)
(* Theorems about ReceiptFile, for any receipts, files and bounds.         *)
(***************************************************************************)
EXTENDS ReceiptFile, Counting, SequenceTheorems, TLAPS

\* A text is written as a sequence of cells.
LEMMA TextCellsIsSeq ==
  ASSUME NEW t \in Seq(Char)
  PROVE  IsSeq(TextCells(t))
<1>1. CASE Len(t) > TextMax
  <2>1. TextCells(t) \in Seq({TooLong})  BY <1>1 DEF TextCells
  <2> QED  BY <2>1 DEF IsSeq
<1>2. CASE ~(Len(t) > TextMax)
  <2> DEFINE S == {<<"char", c>> : c \in Char}
  <2>1. TextCells(t) \in Seq(S)  BY <1>2 DEF TextCells
  <2> QED  BY <2>1 DEF IsSeq
<1> QED  BY <1>1, <1>2

\* The document of a receipt that the library accepts is a sequence of cells.
LEMMA DocumentIsSeq ==
  ASSUME NEW r \in Receipts, receipt_is_valid(r)
  PROVE  IsSeq(Document(r))
<1> DEFINE opening == << <<"schema", SchemaName>>, <<"identity", Null>> >>
           failure == << <<"outcome", outcome_name(r.outcome)>>,
                         <<"reason", failure_reason_name(r.failure_reason)>>,
                         <<"stage", Null>> >>
           first   == << <<"first_diagnostic", Null>> >>
           checks  == << <<"checks", <<r.checks_attempted, r.checks_completed>> >> >>
           prints  == IF r.fingerprint = Null THEN <<>> ELSE << <<"fingerprint", r.fingerprint>> >>
           digest  == << <<"digest", receipt_digest(r)>>, <<"does_not_prove", Null>> >>
           end     == << <<"end", Null>> >>
           t1 == opening \o TextCells(r.identity)
           t2 == t1 \o failure
           t3 == t2 \o TextCells(r.failed_stage)
           t4 == t3 \o first
           t5 == t4 \o TextCells(r.first_diagnostic)
           t6 == t5 \o checks
           t7 == t6 \o prints
           t8 == t7 \o digest
           t9 == t8 \o TextCells(r.does_not_prove)
<1>1. /\ IsSeq(opening) /\ IsSeq(failure) /\ IsSeq(first) /\ IsSeq(checks)
      /\ IsSeq(prints) /\ IsSeq(digest) /\ IsSeq(end)
  <2>1. opening \in Seq({<<"schema", SchemaName>>, <<"identity", Null>>})  OBVIOUS
  <2>2. failure \in Seq({<<"outcome", outcome_name(r.outcome)>>,
                         <<"reason", failure_reason_name(r.failure_reason)>>,
                         <<"stage", Null>>})  OBVIOUS
  <2>3. first \in Seq({<<"first_diagnostic", Null>>})  OBVIOUS
  <2>4. checks \in Seq({<<"checks", <<r.checks_attempted, r.checks_completed>> >>})  OBVIOUS
  <2>5. prints \in Seq({<<"fingerprint", r.fingerprint>>})
    <3>1. <<>> \in Seq({<<"fingerprint", r.fingerprint>>})  OBVIOUS
    <3>2. << <<"fingerprint", r.fingerprint>> >> \in Seq({<<"fingerprint", r.fingerprint>>})  OBVIOUS
    <3> QED  BY <3>1, <3>2
  <2>6. digest \in Seq({<<"digest", receipt_digest(r)>>, <<"does_not_prove", Null>>})  OBVIOUS
  <2>7. end \in Seq({<<"end", Null>>})  OBVIOUS
  <2> HIDE DEF opening, failure, first, checks, prints, digest, end
  <2> QED  BY <2>1, <2>2, <2>3, <2>4, <2>5, <2>6, <2>7 DEF IsSeq
<1>2. \A f \in TextFields : r[f] \in Seq(Char)
  BY ReceiptsAssumption DEF receipt_is_valid
<1>3. /\ IsSeq(TextCells(r.identity)) /\ IsSeq(TextCells(r.failed_stage))
      /\ IsSeq(TextCells(r.first_diagnostic)) /\ IsSeq(TextCells(r.does_not_prove))
  BY <1>2, TextCellsIsSeq DEF TextFields
<1>4. Document(r) = t9 \o end  BY DEF Document
<1> HIDE DEF opening, failure, first, checks, prints, digest, end
<1>5. IsSeq(t1) /\ IsSeq(t2)  BY <1>1, <1>3, ConcatIsSeq
<1>6. IsSeq(t3) /\ IsSeq(t4)  BY <1>1, <1>3, <1>5, ConcatIsSeq
<1>7. IsSeq(t5) /\ IsSeq(t6)  BY <1>1, <1>3, <1>6, ConcatIsSeq
<1>8. IsSeq(t7) /\ IsSeq(t8)  BY <1>1, <1>7, ConcatIsSeq
<1>9. IsSeq(t9)  BY <1>3, <1>8, ConcatIsSeq
<1> HIDE DEF t9
<1> QED  BY <1>1, <1>4, <1>9, ConcatIsSeq

-----------------------------------------------------------------------------
(* What the tool has put into the file.                                    *)

\* While the tool has the file open, the file holds a part of the document that
\* stdio has accepted, from its start; write_json has said 0 only if stdio has
\* accepted all of it.
WriterInv ==
  /\ tool = "write" => file = <<>> /\ written = 0
  /\ tool = "close" =>
       /\ written \in Nat
       /\ Len(file) \in 0..written
       /\ file = <<>> \/ file = SubSeq(Document(receipt), 1, Len(file))
       /\ written # 0 => receipt_is_valid(receipt) /\ written <= Len(Document(receipt))
       /\ toolResult = 0 => receipt_is_valid(receipt) /\ written = Len(Document(receipt))
  /\ receipt \in Receipts
  /\ ExitZeroIsDurable

LEMMA WriterInit == Init => WriterInv
  BY ReceiptsAssumption DEF Init, WriterInv, ExitZeroIsDurable

LEMMA WriterStep == WriterInv /\ [Next]_vars => WriterInv'
<1> SUFFICES ASSUME WriterInv, [Next]_vars PROVE WriterInv'  OBVIOUS
<1>1. ASSUME NEW r \in Receipts, ToolOpen(r) PROVE WriterInv'
  BY <1>1 DEF ToolOpen, WriterInv, ExitZeroIsDurable
<1>2. CASE ToolWrite
  <2>1. file = <<>> /\ file' = <<>> /\ receipt' = receipt /\ tool' = "close"
    BY <1>2 DEF ToolWrite, WriterInv, fileVars
  <2>2. CASE receipt_is_valid(receipt)
    <3>1. Len(Document(receipt)) \in Nat  BY <2>2, DocumentIsSeq, WholeIsPrefix DEF WriterInv
    <3> QED  BY <1>2, <2>1, <2>2, <3>1 DEF ToolWrite, WriterInv, ExitZeroIsDurable
  <2>3. CASE ~receipt_is_valid(receipt)
    BY <1>2, <2>1, <2>3 DEF ToolWrite, WriterInv, ExitZeroIsDurable
  <2> QED  BY <2>2, <2>3
<1>3. CASE Flush
  <2>1. PICK n \in (Len(file) + 1)..written : file' = SubSeq(Document(receipt), 1, n)
    BY <1>3 DEF Flush
  <2>2. tool = "close" /\ UNCHANGED <<tool, receipt, written, toolResult, toolExit>>
    BY <1>3 DEF Flush, toolVars
  <2>3. n \in 1..written /\ receipt_is_valid(receipt) /\ written <= Len(Document(receipt))
    BY <2>1, <2>2 DEF WriterInv
  <2>4. IsSeq(Document(receipt)) /\ Len(Document(receipt)) \in Nat
    BY <2>3, DocumentIsSeq, WholeIsPrefix DEF WriterInv
  <2>5. Len(file') = n
    BY <2>1, <2>2, <2>3, <2>4, PrefixIsSeq DEF WriterInv
  <2> QED  BY <2>1, <2>2, <2>3, <2>5 DEF WriterInv, ExitZeroIsDurable
<1>4. CASE ToolClose
  <2>1. tool = "close" /\ Len(file) = written /\ file' = file /\ receipt' = receipt /\ tool' = "exited"
    BY <1>4 DEF ToolClose, ToolExits, fileVars
  <2>2. toolExit' = 0 => toolResult = 0  BY <1>4 DEF ToolClose, ToolExits
  <2>3. ASSUME toolResult = 0 PROVE receipt_is_valid(receipt) /\ file = Document(receipt)
    <3>1. receipt_is_valid(receipt) /\ Len(file) = Len(Document(receipt))
      BY <2>1, <2>3 DEF WriterInv
    <3>2. Len(Document(receipt)) \in Nat /\ SubSeq(Document(receipt), 1, Len(Document(receipt))) = Document(receipt)
      BY <3>1, DocumentIsSeq, WholeIsPrefix DEF WriterInv
    <3>3. CASE file = <<>>
      <4>1. PICK S : Document(receipt) \in Seq(S)  BY <3>1, DocumentIsSeq DEF IsSeq, WriterInv
      <4> QED  BY <3>1, <3>3, <4>1
    <3>4. CASE file = SubSeq(Document(receipt), 1, Len(file))
      BY <3>1, <3>2, <3>4
    <3> QED  BY <2>1, <3>3, <3>4 DEF WriterInv
  <2> QED  BY <2>1, <2>2, <2>3 DEF WriterInv, ExitZeroIsDurable
<1>5. CASE ToolCloseFails
  BY <1>5 DEF ToolCloseFails, ToolExits, fileVars, WriterInv, ExitZeroIsDurable
<1>6. CASE ToolKilled
  BY <1>6 DEF ToolKilled, fileVars, WriterInv, ExitZeroIsDurable
<1>7. ASSUME UNCHANGED <<fileVars, toolVars>> PROVE WriterInv'
  BY <1>7 DEF fileVars, toolVars, WriterInv, ExitZeroIsDurable
<1>8. CASE CliStep
  BY <1>7, <1>8 DEF CliStep, CliNoReceipt, CliStart, OpenFails, Open, StatFails, Stat,
     Read, ReadInterrupted, ReadFails, ValidateFails, Validate, Close, CloseFails, CliReport
<1>9. CASE UNCHANGED vars  BY <1>7, <1>9 DEF vars
<1> QED  BY <1>1, <1>2, <1>3, <1>4, <1>5, <1>6, <1>8, <1>9 DEF Next, ToolStep

\* If the tool's exit status is 0, the file is the document of a receipt the
\* library accepts, until the next fopen: ToolClose needs all of it flushed,
\* and main's test of fclose turns every other end into 2.
THEOREM ExitZeroDurable == Spec => []ExitZeroIsDurable
<1>1. WriterInv => ExitZeroIsDurable  BY DEF WriterInv
<1> QED  BY WriterInit, WriterStep, <1>1, PTL DEF Spec
-----------------------------------------------------------------------------
(* The errors and the descriptor of validate_file.                         *)

\* Nothing has failed before `close' is reached, the descriptor is open from
\* open to close, and the result is -1 exactly when one error has been raised.
ErrorInv ==
  /\ result \in {0, -1}
  /\ raised = (IF result = 0 THEN 0 ELSE 1)
  /\ cli \in {"start", "open", "stat", "read", "validate"} => result = 0
  /\ cli \in {"start", "open", "stat", "read", "validate", "close", "returned", "exited"}
  /\ fdOpen \in BOOLEAN
  /\ fdOpen <=> cli \in {"stat", "read", "validate", "close"}

LEMMA ErrorInit == Init => ErrorInv
  BY DEF Init, ErrorInv

LEMMA ErrorStep == ErrorInv /\ [Next]_vars => ErrorInv'
<1> SUFFICES ASSUME ErrorInv, [Next]_vars PROVE ErrorInv'  OBVIOUS
<1>1. CASE UNCHANGED cliVars  BY <1>1 DEF cliVars, ErrorInv
<1>2. CASE ToolStep
  BY <1>1, <1>2 DEF ToolStep, ToolOpen, ToolWrite, Flush, ToolClose, ToolCloseFails,
                    ToolKilled, ToolExits
<1>3. CASE CliNoReceipt \/ CliStart
  BY <1>3 DEF CliNoReceipt, CliStart, Exit, ErrorInv
<1>4. CASE OpenFails \/ Open
  <2>1. CASE OpenFails  BY <2>1 DEF OpenFails, Fail, ErrorInv
  <2>2. CASE Open  BY <2>2 DEF Open, ErrorInv
  <2> QED  BY <1>4, <2>1, <2>2
<1>5. CASE StatFails \/ Stat
  BY <1>5 DEF StatFails, Stat, Fail, ErrorInv
<1>6. CASE Read \/ ReadInterrupted \/ ReadFails
  BY <1>6 DEF Read, ReadInterrupted, ReadFails, Fail, ErrorInv
<1>7. CASE ValidateFails \/ Validate
  BY <1>7 DEF ValidateFails, Validate, Fail, ErrorInv
<1>8. CASE Close \/ CloseFails
  <2>1. CASE Close  BY <2>1 DEF Close, ErrorInv
  <2>2. CASE CloseFails /\ result = 0
    <3>1. cli' = "returned" /\ result' = -1 /\ raised' = 1
      BY <2>2 DEF CloseFails, Fail, ErrorInv
    <3>2. ~fdOpen' /\ fdOpen' \in BOOLEAN
      BY <2>2 DEF CloseFails
    <3>3. fdOpen' <=> cli' \in {"stat", "read", "validate", "close"}
      BY <3>1, <3>2
    <3> QED  BY <3>1, <3>2, <3>3 DEF ErrorInv
  <2>3. CASE CloseFails /\ result # 0  BY <2>3 DEF CloseFails, ErrorInv
  <2> QED  BY <1>8, <2>1, <2>2, <2>3
<1>9. CASE CliReport
  BY <1>9 DEF CliReport, Exit, ErrorInv
<1>10. CASE UNCHANGED vars  BY <1>1, <1>10 DEF vars
<1> QED
  BY <1>2, <1>3, <1>4, <1>5, <1>6, <1>7, <1>8, <1>9, <1>10 DEF Next, CliStep

\* A call of validate_file that has failed has raised one error, one that has
\* succeeded none, and either has closed the descriptor: CloseFails raises
\* only when nothing was raised before.
THEOREM OneError == Spec => []OneErrorPerFailure
<1>1. ErrorInv => OneErrorPerFailure  BY DEF ErrorInv, OneErrorPerFailure, Returned
<1> QED  BY ErrorInit, ErrorStep, <1>1, PTL DEF Spec

-----------------------------------------------------------------------------
(* Types, and the bounds of the buffer.                                    *)

\* What the types rest on: files and texts are sequences, and the buffer is
\* empty until the file's size has been taken.
BufferInv ==
  /\ TypeOK
  /\ WriterInv
  /\ file # NoFile => IsSeq(file)
  /\ cli \in {"stat", "read"} => IsSeq(file)
  /\ IsSeq(text)
  /\ cli \in {"start", "open", "stat"} => text = <<>>

LEMMA BufferInit == Init => BufferInv
<1> SUFFICES ASSUME Init PROVE BufferInv  OBVIOUS
<1>1. file # NoFile => IsSeq(file)
  BY ForeignAssumption DEF Init, IsSeq
<1>2. TypeOK
  <2>1. receipt \in Receipts  BY ReceiptsAssumption DEF Init
  <2>2. size \in 0..MaxBytes /\ Len(text) \in 0..size /\ interrupts \in 0..MaxInterrupts
    BY BoundsAssumption DEF Init
  <2>3. generation \in 0..MaxRuns /\ openedAt \in 0..generation
    BY BoundsAssumption DEF Init
  <2>4. fdOpen \in BOOLEAN  BY DEF Init
  <2> QED  BY <2>1, <2>2, <2>3, <2>4 DEF Init, TypeOK, Indeterminate
<1> QED  BY <1>1, <1>2, WriterInit, EmptyIsSeq DEF Init, BufferInv

\* validate_json gives one of the four statuses.
LEMMA VerdictHasStatus ==
  ASSUME NEW t
  PROVE  validate_json(t).status \in Statuses
<1> DEFINE parsed == receipt_parse_document(t)
<1>1. \A s : Unvalidated(s).status = s  BY DEF Unvalidated
<1>2. \A r : Validated(r).status = "valid"  BY DEF Validated
<1>3. validate_json(t) =
        CASE parsed.result = 1  -> Unvalidated("bad-version")
          [] parsed.result = -1 -> Unvalidated("invalid")
          [] OTHER ->
               IF ~receipt_is_valid(parsed.receipt)
                 THEN Unvalidated("invalid")
                 ELSE IF receipt_digest(parsed.receipt) # parsed.claimed
                        THEN Unvalidated("bad-digest")
                        ELSE Validated(parsed.receipt)
  BY DEF validate_json
<1> HIDE DEF parsed
<1>4. \/ validate_json(t) = Unvalidated("bad-version")
      \/ validate_json(t) = Unvalidated("invalid")
      \/ validate_json(t) = Unvalidated("bad-digest")
      \/ validate_json(t) = Validated(parsed.receipt)
  BY <1>3
<1> QED  BY <1>1, <1>2, <1>4 DEF Statuses

LEMMA ExitStatusIsSmall ==
  ASSUME NEW res, NEW v, NEW m
  PROVE  ExitStatus(res, v, m) \in {0, 1, 2}
  BY DEF ExitStatus, outcome_exit_status, Clean, Findings

LEMMA BufferStep == BufferInv /\ [Next]_vars => BufferInv'
<1> SUFFICES ASSUME BufferInv, [Next]_vars PROVE BufferInv'  OBVIOUS
<1> USE BoundsAssumption
<1>0. WriterInv'  BY WriterStep DEF BufferInv
<1>1. ASSUME UNCHANGED cliVars, IsSeq(file'),
             generation' \in generation..MaxRuns, held' \subseteq Receipts,
             tool' \in {"idle", "write", "close", "exited", "killed"},
             written' \in Nat, toolResult' \in {0, -1}, toolExit' \in {Null, 0, 2},
             tool' \in {"write", "close"} => Len(file') <= written'
      PROVE  BufferInv'
  <2>1. receipt' \in Receipts  BY <1>0 DEF WriterInv
  <2>2. TypeOK'  BY <1>1, <2>1 DEF cliVars, BufferInv, TypeOK
  <2> QED  BY <1>0, <1>1, <2>2 DEF cliVars, BufferInv
<1>2. CASE \E r \in Receipts : ToolOpen(r)
  <2>1. PICK r \in Receipts : ToolOpen(r)  BY <1>2
  <2> QED  BY <1>1, <2>1, EmptyIsSeq DEF ToolOpen, BufferInv, TypeOK
<1>3. CASE ToolWrite
  <2>1. /\ UNCHANGED <<cliVars, fileVars, held, toolExit>> /\ tool = "write" /\ tool' = "close"
        /\ written' \in Nat /\ toolResult' \in {0, -1}
    <3>1. receipt_is_valid(receipt) => Len(Document(receipt)) \in Nat
      BY DocumentIsSeq, WholeIsPrefix DEF BufferInv, WriterInv
    <3> QED  BY <1>3, <3>1 DEF ToolWrite
  <2>2. file' = <<>>  BY <2>1 DEF fileVars, BufferInv, WriterInv
  <2> QED
    BY <1>1, <2>1, <2>2, EmptyIsSeq DEF fileVars, BufferInv, TypeOK
<1>4. CASE Flush
  <2>1. PICK n \in (Len(file) + 1)..written : file' = SubSeq(Document(receipt), 1, n)
    BY <1>4 DEF Flush
  <2>2. tool = "close" /\ UNCHANGED <<generation, toolVars, cliVars>>
    BY <1>4 DEF Flush
  <2>3. n \in 1..written /\ receipt_is_valid(receipt) /\ written <= Len(Document(receipt))
    BY <2>1, <2>2 DEF BufferInv, WriterInv
  <2>4. IsSeq(Document(receipt)) /\ Len(Document(receipt)) \in Nat
    BY <2>3, DocumentIsSeq, WholeIsPrefix DEF BufferInv, WriterInv
  <2>5. IsSeq(file') /\ Len(file') = n
    BY <2>1, <2>2, <2>3, <2>4, PrefixIsSeq DEF BufferInv, WriterInv
  <2>6. held' \subseteq Receipts
    BY <1>4 DEF Flush, HoldingDigest, BufferInv, TypeOK
  <2> QED  BY <1>1, <2>2, <2>3, <2>5, <2>6 DEF toolVars, BufferInv, TypeOK
<1>5. CASE ToolClose \/ ToolCloseFails \/ ToolKilled
  <2>1. /\ UNCHANGED <<cliVars, fileVars, held>> /\ tool' \in {"exited", "killed"}
        /\ written' = 0 /\ toolResult' = 0 /\ toolExit' \in {Null, 0, 2}
        /\ tool \in {"write", "close"}
    BY <1>5 DEF ToolClose, ToolCloseFails, ToolKilled, ToolExits, BufferInv, TypeOK
  <2>2. CASE IsSeq(file)  BY <1>1, <2>1, <2>2 DEF fileVars, BufferInv, TypeOK
  <2>3. IsSeq(file)
    <3>1. CASE tool = "write"  BY <2>1, <3>1, EmptyIsSeq DEF BufferInv, WriterInv
    <3>2. CASE tool = "close" /\ file = <<>>  BY <3>2, EmptyIsSeq
    <3>3. CASE tool = "close" /\ file # <<>>
      <4>1. /\ Len(file) \in 0..written /\ written \in Nat
            /\ file = SubSeq(Document(receipt), 1, Len(file))
            /\ written # 0 => receipt_is_valid(receipt) /\ written <= Len(Document(receipt))
        BY <3>3 DEF BufferInv, WriterInv
      <4>2. CASE written # 0
        <5>1. IsSeq(Document(receipt)) /\ Len(Document(receipt)) \in Nat
          BY <4>1, <4>2, DocumentIsSeq, WholeIsPrefix DEF BufferInv, WriterInv
        <5>2. Len(file) \in 0..Len(Document(receipt))  BY <4>1, <4>2, <5>1
        <5>3. IsSeq(SubSeq(Document(receipt), 1, Len(file)))  BY <5>1, <5>2, PrefixIsSeq
        <5> QED  BY <4>1, <5>3
      <4>3. CASE written = 0
        <5>1. Len(file) = 0 /\ file = SubSeq(Document(receipt), 1, 0)  BY <4>1, <4>3
        <5>2. SubSeq(Document(receipt), 1, 0) \in Seq({})  OBVIOUS
        <5> QED  BY <5>1, <5>2 DEF IsSeq
      <4> QED  BY <4>2, <4>3
    <3> QED  BY <2>1, <3>1, <3>2, <3>3
  <2> QED  BY <2>2, <2>3
<1>6. ASSUME UNCHANGED <<fileVars, toolVars>>, held' \subseteq Receipts,
             cli' \in {"start", "open", "stat", "read", "validate", "close", "returned", "exited"},
             cli' \in {"start", "open", "stat"} => text' = <<>>,
             cli' \in {"stat", "read"} => IsSeq(file),
             mode' \in Modes \cup {Null}, size' \in 0..MaxBytes,
             IsSeq(text'), Len(text') \in 0..size', interrupts' \in 0..MaxInterrupts,
             validation' = Indeterminate \/ validation'.status \in Statuses,
             result' \in {0, -1}, raised' \in Nat, fdOpen' \in BOOLEAN,
             cliExit' \in {Null, 0, 1, 2}, openedAt' \in 0..generation
      PROVE  BufferInv'
  <2>1. TypeOK'  BY <1>6 DEF fileVars, toolVars, BufferInv, TypeOK
  <2> QED  BY <1>0, <1>6, <2>1 DEF fileVars, BufferInv
<1>7. CASE CliNoReceipt \/ CliStart
  BY <1>6, <1>7 DEF CliNoReceipt, CliStart, Exit, BufferInv, TypeOK
<1>8. CASE OpenFails \/ StatFails \/ ReadFails
  BY <1>6, <1>8 DEF OpenFails, StatFails, ReadFails, Fail, BufferInv, TypeOK
<1>9. CASE Open
  <2>1. held' \subseteq Receipts  BY <1>9 DEF Open, HoldingDigest
  <2>2. generation \in 0..generation  BY DEF BufferInv, TypeOK
  <2> QED  BY <1>6, <1>9, <2>1, <2>2 DEF Open, BufferInv, TypeOK
<1>10. CASE Stat
  <2>1. IsSeq(file) /\ Len(file) \in Nat  BY <1>10, WholeIsPrefix DEF Stat, BufferInv
  <2>2. text' = <<>> /\ Len(text') = 0 /\ size' \in 0..MaxBytes
    BY <1>10, <2>1 DEF Stat, BufferInv
  <2> QED  BY <1>6, <1>10, <2>1, <2>2 DEF Stat, BufferInv, TypeOK
<1>11. CASE Read
  <2>1. PICK n \in (Len(text) + 1)..size :
          n <= Len(file) /\ text' = text \o SubSeq(file, Len(text) + 1, n)
    BY <1>11 DEF Read
  <2>2. IsSeq(file) /\ IsSeq(text) /\ Len(file) \in Nat /\ Len(text) \in 0..size /\ size \in 0..MaxBytes
    BY <1>11, WholeIsPrefix DEF Read, BufferInv, TypeOK
  <2>3. Len(text) \in Nat /\ n \in Len(text)..Len(file) /\ n \in 0..size  BY <2>1, <2>2
  <2>4. IsSeq(SubSeq(file, Len(text) + 1, n)) /\ Len(SubSeq(file, Len(text) + 1, n)) = n - Len(text)
    BY <2>2, <2>3, MiddleIsSeq
  <2>5. IsSeq(text') /\ Len(text') = n
    BY <2>1, <2>2, <2>3, <2>4, ConcatIsSeq
  <2> QED  BY <1>6, <1>11, <2>2, <2>3, <2>5 DEF Read, BufferInv, TypeOK
<1>12. CASE ReadInterrupted
  BY <1>6, <1>12 DEF ReadInterrupted, BufferInv, TypeOK
<1>13. CASE ValidateFails
  BY <1>6, <1>13 DEF ValidateFails, Fail, Unvalidated, Statuses, BufferInv, TypeOK
<1>14. CASE Validate
  <2>1. validation'.status \in Statuses  BY <1>14, VerdictHasStatus DEF Validate
  <2> QED  BY <1>6, <1>14, <2>1 DEF Validate, BufferInv, TypeOK
<1>15. CASE Close \/ CloseFails
  <2>1. CASE Close  BY <1>6, <2>1 DEF Close, BufferInv, TypeOK
  <2>2. CASE CloseFails
    <3>1. /\ cli' = "returned" /\ fdOpen' = FALSE /\ result' \in {0, -1} /\ raised' \in Nat
          /\ UNCHANGED <<fileVars, toolVars, held, mode, size, text, interrupts,
                         validation, cliExit, openedAt>>
      BY <2>2 DEF CloseFails, Fail, BufferInv, TypeOK
    <3> QED  BY <1>6, <3>1 DEF BufferInv, TypeOK
  <2> QED  BY <1>15, <2>1, <2>2
<1>16. CASE CliReport
  BY <1>6, <1>16, ExitStatusIsSmall DEF CliReport, Exit, BufferInv, TypeOK
<1>17. CASE UNCHANGED vars
  BY <1>6, <1>17 DEF vars, cliVars, BufferInv, TypeOK
<1> QED
  BY <1>2, <1>3, <1>4, <1>5, <1>7, <1>8, <1>9, <1>10, <1>11, <1>12, <1>13, <1>14, <1>15,
     <1>16, <1>17 DEF Next, ToolStep, CliStep

\* Every variable keeps its type; in particular the read loop stays within the
\* buffer, and what is in the file has been written.
THEOREM TypeCorrect == Spec => []TypeOK
<1>1. BufferInv => TypeOK  BY DEF BufferInv
<1> QED  BY BufferInit, BufferStep, <1>1, PTL DEF Spec

-----------------------------------------------------------------------------
(* The steps that are left.                                                *)

LEMMA LoopRunsOut ==
  ASSUME BufferInv, Stat \/ Read \/ ReadInterrupted \/ ReadFails
  PROVE  StepsLeft \in Nat /\ StepsLeft' \in Nat /\ StepsLeft' < StepsLeft
<1>1. /\ size \in 0..MaxBytes /\ Len(text) \in 0..size /\ interrupts \in 0..MaxInterrupts
      /\ MaxBytes \in Nat /\ MaxInterrupts \in Nat
  BY BoundsAssumption DEF BufferInv, TypeOK
<1>2. CASE Stat
  <2>1. /\ cli = "stat" /\ cli' \in {"read", "validate"} /\ size' = Len(file)
        /\ Len(file) <= MaxBytes /\ text' = text /\ interrupts' = interrupts
    BY <1>2 DEF Stat
  <2>2. IsSeq(file) /\ Len(file) \in Nat /\ Len(text) = 0
    BY <2>1, WholeIsPrefix DEF BufferInv
  <2>3. StepsLeft = MaxBytes + MaxInterrupts + 4
    BY <2>1 DEF StepsLeft
  <2>4. CASE cli' = "read"
    <3>1. StepsLeft' = (Len(file) - 0) + (MaxInterrupts - interrupts) + 3
      BY <2>1, <2>2, <2>4 DEF StepsLeft
    <3> QED BY <1>1, <2>1, <2>2, <2>3, <3>1
  <2>5. CASE cli' = "validate"
    <3>1. StepsLeft' = 3
      BY <2>5 DEF StepsLeft
    <3> QED BY <1>1, <2>3, <3>1
  <2> QED BY <2>1, <2>4, <2>5
<1>3. ASSUME cli = "read"
      PROVE  StepsLeft = (size - Len(text)) + (MaxInterrupts - interrupts) + 3
  BY <1>3 DEF StepsLeft
<1>4. CASE Read
  <2>1. PICK n \in (Len(text) + 1)..size :
          n <= Len(file) /\ text' = text \o SubSeq(file, Len(text) + 1, n)
    BY <1>4 DEF Read
  <2>2. IsSeq(file) /\ IsSeq(text) /\ Len(file) \in Nat
    BY <1>4, WholeIsPrefix DEF Read, BufferInv
  <2>3. Len(text) \in Nat /\ n \in Len(text)..Len(file) /\ n \in 0..size /\ Len(text) < n
    BY <1>1, <2>1, <2>2
  <2>4. IsSeq(SubSeq(file, Len(text) + 1, n)) /\ Len(SubSeq(file, Len(text) + 1, n)) = n - Len(text)
    BY <2>2, <2>3, MiddleIsSeq
  <2>5. Len(text') = n
    BY <2>1, <2>2, <2>3, <2>4, ConcatIsSeq
  <2>6. /\ cli = "read" /\ cli' \in {"read", "validate"}
        /\ size' = size /\ interrupts' = interrupts
    BY <1>4 DEF Read
  <2>7. CASE cli' = "read"
    <3>1. StepsLeft' = (size - n) + (MaxInterrupts - interrupts) + 3
      BY <2>5, <2>6, <2>7 DEF StepsLeft
    <3> QED BY <1>1, <1>3, <2>3, <2>6, <3>1
  <2>8. CASE cli' = "validate"
    <3>1. StepsLeft' = 3
      BY <2>8 DEF StepsLeft
    <3> QED BY <1>1, <1>3, <2>3, <2>6, <3>1
  <2> QED BY <2>6, <2>7, <2>8
<1>5. CASE ReadInterrupted
  <2>1. /\ cli = "read" /\ cli' = "read" /\ interrupts < MaxInterrupts
        /\ interrupts' = interrupts + 1 /\ size' = size /\ text' = text
    BY <1>5 DEF ReadInterrupted
  <2>2. StepsLeft' = (size - Len(text)) + (MaxInterrupts - (interrupts + 1)) + 3
    BY <2>1 DEF StepsLeft
  <2> QED BY <1>1, <1>3, <2>1, <2>2
<1>6. CASE ReadFails
  <2>1. cli = "read" /\ cli' = "close"
    BY <1>6 DEF ReadFails, Fail
  <2>2. StepsLeft' = 2
    BY <2>1 DEF StepsLeft
  <2> QED BY <1>1, <1>3, <2>1, <2>2
<1> QED BY <1>2, <1>4, <1>5, <1>6

LEMMA CommandRunsOut ==
  ASSUME BufferInv, CliStep
  PROVE  StepsLeft \in Nat /\ StepsLeft' \in Nat /\ StepsLeft' < StepsLeft
<1>1. MaxBytes \in Nat /\ MaxInterrupts \in Nat
  BY BoundsAssumption
<1>2. CASE CliNoReceipt \/ CliStart
  <2>1. cli = "start" /\ cli' \in {"exited", "open"}
    BY <1>2 DEF CliNoReceipt, CliStart, Exit
  <2> QED BY <1>1, <2>1 DEF StepsLeft
<1>3. CASE OpenFails \/ Open
  <2>1. cli = "open" /\ cli' \in {"returned", "stat"}
    BY <1>3 DEF OpenFails, Open, Fail
  <2> QED BY <1>1, <2>1 DEF StepsLeft
<1>4. CASE StatFails
  <2>1. cli = "stat" /\ cli' = "close"
    BY <1>4 DEF StatFails, Fail
  <2> QED BY <1>1, <2>1 DEF StepsLeft
<1>5. CASE Stat \/ Read \/ ReadInterrupted \/ ReadFails
  BY <1>5, LoopRunsOut
<1>6. CASE ValidateFails \/ Validate
  <2>1. cli = "validate" /\ cli' = "close"
    BY <1>6 DEF ValidateFails, Validate, Fail
  <2> QED BY <2>1 DEF StepsLeft
<1>7. CASE Close \/ CloseFails
  <2>1. cli = "close" /\ cli' = "returned"
    BY <1>7 DEF Close, CloseFails, Fail
  <2> QED BY <2>1 DEF StepsLeft
<1>8. CASE CliReport
  <2>1. cli = "returned" /\ cli' = "exited"
    BY <1>8 DEF CliReport, Exit
  <2> QED BY <2>1 DEF StepsLeft
<1> QED BY <1>2, <1>3, <1>4, <1>5, <1>6, <1>7, <1>8 DEF CliStep

\* The command makes a bounded number of steps, whatever is written to the file, or cut
\* from it, while it reads.
THEOREM CommandStepsAreBounded == Spec => StepsRunOut
<1>1. /\ BufferInv /\ [Next]_vars
      => [ \/ UNCHANGED cliVars
           \/ StepsLeft \in Nat /\ StepsLeft' \in Nat /\ StepsLeft' < StepsLeft ]_vars
  <2>1. CASE ToolStep
    <3>1. UNCHANGED cliVars
      BY <2>1
      DEF ToolStep, ToolOpen, ToolWrite, Flush, ToolClose, ToolCloseFails, ToolKilled, ToolExits
    <3> QED BY <3>1
  <2>2. CASE UNCHANGED vars
    BY <2>2
  <2> QED BY <2>1, <2>2, CommandRunsOut DEF Next
<1> QED BY <1>1, BufferInit, BufferStep, PTL DEF Spec, StepsRunOut

-----------------------------------------------------------------------------
(* Where the cells of a document are.                                      *)

\* The sequence u goes on behind s.
Extends(u, s) == IsSeq(u) /\ IsSeq(s) /\ Len(s) <= Len(u) /\ \A i \in 1..Len(s) : u[i] = s[i]

\* In u, x follows s.
Follows(u, s, x) ==
  /\ Extends(u, s)
  /\ Len(s) \in Nat /\ Len(x) \in Nat
  /\ \A j \in 1..Len(x) : u[Len(s) + j] = x[j]

\* What lies where, when x follows s in u.
LEMMA Chunk ==
  ASSUME NEW u, NEW s, NEW x, IsSeq(s), IsSeq(x), Extends(u, s \o x)
  PROVE  Follows(u, s, x) /\ Len(s \o x) = Len(s) + Len(x)
<1>1. PICK S : s \in Seq(S)  BY DEF IsSeq
<1>2. PICK X : x \in Seq(X)  BY DEF IsSeq
<1>3. s \in Seq(S \cup X) /\ x \in Seq(S \cup X)  BY <1>1, <1>2
<1>4. Len(s) \in Nat /\ Len(x) \in Nat  BY <1>3
<1>5. /\ Len(s \o x) = Len(s) + Len(x)
      /\ \A i \in 1..(Len(s) + Len(x)) :
           (s \o x)[i] = IF i <= Len(s) THEN s[i] ELSE x[i - Len(s)]
  BY <1>3, ConcatProperties
<1>6. /\ IsSeq(u) /\ Len(s) + Len(x) <= Len(u)
      /\ \A i \in 1..(Len(s) + Len(x)) : u[i] = (s \o x)[i]
  BY <1>5 DEF Extends
<1>7. Len(u) \in Nat
  <2>1. PICK U : u \in Seq(U)  BY <1>6 DEF IsSeq
  <2> QED  BY <2>1
<1>8. ASSUME NEW i \in 1..Len(s) PROVE u[i] = s[i]
  <2>1. i \in 1..(Len(s) + Len(x)) /\ i <= Len(s)  BY <1>4
  <2> QED  BY <2>1, <1>5, <1>6
<1>9. ASSUME NEW j \in 1..Len(x) PROVE u[Len(s) + j] = x[j]
  <2>1. /\ Len(s) + j \in 1..(Len(s) + Len(x)) /\ ~(Len(s) + j <= Len(s))
        /\ (Len(s) + j) - Len(s) = j
    BY <1>4
  <2> QED  BY <2>1, <1>5, <1>6
<1> QED  BY <1>4, <1>5, <1>6, <1>7, <1>8, <1>9 DEF Extends, Follows

\* The places of the literals in the document of r.
AtOutcome(r) == Len(TextCells(r.identity)) + 3
AtFirst(r)   == AtOutcome(r) + 3 + Len(TextCells(r.failed_stage))
AtChecks(r)  == AtFirst(r) + 1 + Len(TextCells(r.first_diagnostic))
AtDigest(r)  == AtChecks(r) + 1 + (IF r.fingerprint = Null THEN 0 ELSE 1)
AtEnd(r)     == AtDigest(r) + 2 + Len(TextCells(r.does_not_prove))

\* The cells of text t stand behind cell k of d.
TextFrom(d, k, t) == \A j \in 1..Len(TextCells(t)) : d[k + j] = TextCells(t)[j]

\* The cells of the document of r are in d, each at its place.
Laid(d, r) ==
  /\ d[1] = <<"schema", SchemaName>> /\ d[2] = <<"identity", Null>>
  /\ TextFrom(d, 2, r.identity)
  /\ d[AtOutcome(r)] = <<"outcome", outcome_name(r.outcome)>>
  /\ d[AtOutcome(r) + 1] = <<"reason", failure_reason_name(r.failure_reason)>>
  /\ d[AtOutcome(r) + 2] = <<"stage", Null>>
  /\ TextFrom(d, AtOutcome(r) + 2, r.failed_stage)
  /\ d[AtFirst(r)] = <<"first_diagnostic", Null>>
  /\ TextFrom(d, AtFirst(r), r.first_diagnostic)
  /\ d[AtChecks(r)] = <<"checks", <<r.checks_attempted, r.checks_completed>> >>
  /\ r.fingerprint # Null => d[AtChecks(r) + 1] = <<"fingerprint", r.fingerprint>>
  /\ d[AtDigest(r)] = <<"digest", receipt_digest(r)>>
  /\ d[AtDigest(r) + 1] = <<"does_not_prove", Null>>
  /\ TextFrom(d, AtDigest(r) + 1, r.does_not_prove)
  /\ d[AtEnd(r)] = <<"end", Null>>

Layout(d, r) == Len(d) = AtEnd(r) /\ Laid(d, r)

LEMMA One ==
  ASSUME NEW x
  PROVE  IsSeq(<<x>>) /\ Len(<<x>>) = 1 /\ <<x>>[1] = x
<1>1. <<x>> \in Seq({x})  OBVIOUS
<1> QED  BY <1>1 DEF IsSeq

LEMMA Two ==
  ASSUME NEW x, NEW y
  PROVE  IsSeq(<<x, y>>) /\ Len(<<x, y>>) = 2 /\ <<x, y>>[1] = x /\ <<x, y>>[2] = y
<1>1. <<x, y>> \in Seq({x, y})  OBVIOUS
<1> QED  BY <1>1 DEF IsSeq

LEMMA Three ==
  ASSUME NEW x, NEW y, NEW z
  PROVE  /\ IsSeq(<<x, y, z>>) /\ Len(<<x, y, z>>) = 3
         /\ <<x, y, z>>[1] = x /\ <<x, y, z>>[2] = y /\ <<x, y, z>>[3] = z
<1>1. <<x, y, z>> \in Seq({x, y, z})  OBVIOUS
<1> QED  BY <1>1 DEF IsSeq

LEMMA DocumentLayout ==
  ASSUME NEW r \in Receipts, receipt_is_valid(r)
  PROVE  IsSeq(Document(r)) /\ Layout(Document(r), r)
<1> DEFINE opening == << <<"schema", SchemaName>>, <<"identity", Null>> >>
           c1      == TextCells(r.identity)
           failure == << <<"outcome", outcome_name(r.outcome)>>,
                         <<"reason", failure_reason_name(r.failure_reason)>>,
                         <<"stage", Null>> >>
           c2      == TextCells(r.failed_stage)
           first   == << <<"first_diagnostic", Null>> >>
           c3      == TextCells(r.first_diagnostic)
           checks  == << <<"checks", <<r.checks_attempted, r.checks_completed>> >> >>
           prints  == IF r.fingerprint = Null THEN <<>> ELSE << <<"fingerprint", r.fingerprint>> >>
           digest  == << <<"digest", receipt_digest(r)>>, <<"does_not_prove", Null>> >>
           c4      == TextCells(r.does_not_prove)
           end     == << <<"end", Null>> >>
           t1 == opening \o c1
           t2 == t1 \o failure
           t3 == t2 \o c2
           t4 == t3 \o first
           t5 == t4 \o c3
           t6 == t5 \o checks
           t7 == t6 \o prints
           t8 == t7 \o digest
           t9 == t8 \o c4
           d  == t9 \o end
<1>1. /\ IsSeq(opening) /\ Len(opening) = 2
      /\ opening[1] = <<"schema", SchemaName>> /\ opening[2] = <<"identity", Null>>
  BY Two, Zenon
<1>2. /\ IsSeq(failure) /\ Len(failure) = 3
      /\ failure[1] = <<"outcome", outcome_name(r.outcome)>>
      /\ failure[2] = <<"reason", failure_reason_name(r.failure_reason)>>
      /\ failure[3] = <<"stage", Null>>
  BY Three, Zenon
<1>3. IsSeq(first) /\ Len(first) = 1 /\ first[1] = <<"first_diagnostic", Null>>
  BY One, Zenon
<1>4. /\ IsSeq(checks) /\ Len(checks) = 1
      /\ checks[1] = <<"checks", <<r.checks_attempted, r.checks_completed>> >>
  BY One, Zenon
<1>5. /\ IsSeq(prints)
      /\ Len(prints) = (IF r.fingerprint = Null THEN 0 ELSE 1)
      /\ r.fingerprint # Null => prints[1] = <<"fingerprint", r.fingerprint>>
  <2>1. CASE r.fingerprint = Null
    <3>1. prints = <<>>  BY <2>1
    <3>2. IsSeq(<<>>) /\ Len(<<>>) = 0  BY EmptyIsSeq
    <3> QED  BY <3>1, <3>2, <2>1
  <2>2. CASE r.fingerprint # Null
    <3>1. prints = << <<"fingerprint", r.fingerprint>> >>  BY <2>2
    <3> HIDE DEF prints
    <3> QED  BY <3>1, <2>2, One
  <2> QED  BY <2>1, <2>2
<1>6. /\ IsSeq(digest) /\ Len(digest) = 2
      /\ digest[1] = <<"digest", receipt_digest(r)>> /\ digest[2] = <<"does_not_prove", Null>>
  BY Two, Zenon
<1>7. IsSeq(end) /\ Len(end) = 1 /\ end[1] = <<"end", Null>>
  BY One, Zenon
<1>8. IsSeq(c1) /\ IsSeq(c2) /\ IsSeq(c3) /\ IsSeq(c4)
  <2>1. \A f \in TextFields : r[f] \in Seq(Char)
    BY ReceiptsAssumption DEF receipt_is_valid
  <2> QED  BY <2>1, TextCellsIsSeq DEF TextFields
<1>9. Document(r) = d  BY DEF Document
<1>10. /\ AtOutcome(r) = Len(c1) + 3
       /\ AtFirst(r) = AtOutcome(r) + 3 + Len(c2)
       /\ AtChecks(r) = AtFirst(r) + 1 + Len(c3)
       /\ AtDigest(r) = AtChecks(r) + 1 + (IF r.fingerprint = Null THEN 0 ELSE 1)
       /\ AtEnd(r) = AtDigest(r) + 2 + Len(c4)
  BY DEF AtOutcome, AtFirst, AtChecks, AtDigest, AtEnd
<1>11. /\ TextFrom(d, 2, r.identity) <=> \A j \in 1..Len(c1) : d[2 + j] = c1[j]
       /\ TextFrom(d, AtOutcome(r) + 2, r.failed_stage)
            <=> \A j \in 1..Len(c2) : d[(AtOutcome(r) + 2) + j] = c2[j]
       /\ TextFrom(d, AtFirst(r), r.first_diagnostic)
            <=> \A j \in 1..Len(c3) : d[AtFirst(r) + j] = c3[j]
       /\ TextFrom(d, AtDigest(r) + 1, r.does_not_prove)
            <=> \A j \in 1..Len(c4) : d[(AtDigest(r) + 1) + j] = c4[j]
  BY DEF TextFrom
<1> HIDE DEF opening, failure, first, checks, prints, digest, end, c1, c2, c3, c4
<1>12. IsSeq(t1) /\ IsSeq(t2)  BY <1>1, <1>2, <1>8, ConcatIsSeq
<1>13. IsSeq(t3) /\ IsSeq(t4)  BY <1>12, <1>3, <1>8, ConcatIsSeq
<1>14. IsSeq(t5) /\ IsSeq(t6)  BY <1>13, <1>4, <1>8, ConcatIsSeq
<1>15. IsSeq(t7) /\ IsSeq(t8)  BY <1>14, <1>5, <1>6, ConcatIsSeq
<1>16. IsSeq(t9)  BY <1>15, <1>8, ConcatIsSeq
<1> HIDE DEF t1, t2, t3, t4, t5, t6, t7, t8, t9
<1>17. IsSeq(d)  BY <1>16, <1>7, ConcatIsSeq
<1>18. Extends(d, t9 \o end)
  <2>1. Len(d) \in Nat  BY <1>17, WholeIsPrefix
  <2> QED  BY <1>17, <2>1 DEF Extends
<1>19. Extends(d, t9) /\ Len(d) = Len(t9) + 1 /\ d[Len(t9) + 1] = end[1] /\ Len(t9) \in Nat
  <2>1. Follows(d, t9, end)  BY <1>18, <1>16, <1>7, Chunk
  <2> QED  BY <2>1, <1>7 DEF Follows
<1> HIDE DEF d
<1>20. Extends(d, t8) /\ Len(t9) = Len(t8) + Len(c4) /\ Len(t8) \in Nat /\ Len(c4) \in Nat
       /\ \A j \in 1..Len(c4) : d[Len(t8) + j] = c4[j]
  BY <1>19, <1>15, <1>8, Chunk DEF t9, Follows
<1>21. Extends(d, t7) /\ Len(t8) = Len(t7) + 2 /\ Len(t7) \in Nat
       /\ d[Len(t7) + 1] = digest[1] /\ d[Len(t7) + 2] = digest[2]
  <2>1. Follows(d, t7, digest) /\ Len(t8) = Len(t7) + Len(digest)
    <3>1. IsSeq(t7) /\ IsSeq(digest)  BY <1>15, <1>6
    <3>2. Extends(d, t7 \o digest) /\ t8 = t7 \o digest  BY <1>20 DEF t8
    <3> QED  BY <3>1, <3>2, Chunk
  <2> QED  BY <2>1, <1>6 DEF Follows
<1>22. Extends(d, t6) /\ Len(t7) = Len(t6) + Len(prints) /\ Len(t6) \in Nat
       /\ \A j \in 1..Len(prints) : d[Len(t6) + j] = prints[j]
  BY <1>21, <1>14, <1>5, Chunk DEF t7, Follows
<1>23. Extends(d, t5) /\ Len(t6) = Len(t5) + 1 /\ Len(t5) \in Nat
       /\ d[Len(t5) + 1] = checks[1]
  BY <1>22, <1>14, <1>4, Chunk DEF t6, Follows
<1>24. Extends(d, t4) /\ Len(t5) = Len(t4) + Len(c3) /\ Len(t4) \in Nat /\ Len(c3) \in Nat
       /\ \A j \in 1..Len(c3) : d[Len(t4) + j] = c3[j]
  BY <1>23, <1>13, <1>8, Chunk DEF t5, Follows
<1>25. Extends(d, t3) /\ Len(t4) = Len(t3) + 1 /\ Len(t3) \in Nat
       /\ d[Len(t3) + 1] = first[1]
  <2>1. Follows(d, t3, first) /\ Len(t4) = Len(t3) + Len(first)
    <3>1. IsSeq(t3) /\ IsSeq(first)  BY <1>13, <1>3
    <3>2. Extends(d, t3 \o first) /\ t4 = t3 \o first  BY <1>24 DEF t4
    <3> QED  BY <3>1, <3>2, Chunk
  <2> QED  BY <2>1, <1>3 DEF Follows
<1>26. Extends(d, t2) /\ Len(t3) = Len(t2) + Len(c2) /\ Len(t2) \in Nat /\ Len(c2) \in Nat
       /\ \A j \in 1..Len(c2) : d[Len(t2) + j] = c2[j]
  BY <1>25, <1>12, <1>8, Chunk DEF t3, Follows
<1>27. Extends(d, t1) /\ Len(t2) = Len(t1) + 3 /\ Len(t1) \in Nat
       /\ d[Len(t1) + 1] = failure[1] /\ d[Len(t1) + 2] = failure[2] /\ d[Len(t1) + 3] = failure[3]
  <2>1. Follows(d, t1, failure) /\ Len(t2) = Len(t1) + Len(failure)
    <3>1. IsSeq(t1) /\ IsSeq(failure)  BY <1>12, <1>2
    <3>2. Extends(d, t1 \o failure) /\ t2 = t1 \o failure  BY <1>26 DEF t2
    <3> QED  BY <3>1, <3>2, Chunk
  <2> QED  BY <2>1, <1>2 DEF Follows
<1>28. Extends(d, opening) /\ Len(t1) = 2 + Len(c1) /\ Len(c1) \in Nat
       /\ \A j \in 1..Len(c1) : d[2 + j] = c1[j]
  <2>1. Follows(d, opening, c1) /\ Len(t1) = Len(opening) + Len(c1)
    BY <1>27, <1>1, <1>8, Chunk DEF t1
  <2> QED  BY <2>1, <1>1 DEF Follows
<1>29. d[1] = opening[1] /\ d[2] = opening[2]
  BY <1>28, <1>1 DEF Extends
<1>30. /\ Len(t1) + 1 = AtOutcome(r) /\ Len(t1) + 2 = AtOutcome(r) + 1
       /\ Len(t1) + 3 = AtOutcome(r) + 2
       /\ Len(t2) = AtOutcome(r) + 2 /\ Len(t3) + 1 = AtFirst(r) /\ Len(t4) = AtFirst(r)
  BY <1>10, <1>28, <1>27, <1>26, <1>25
<1>31. /\ Len(t5) + 1 = AtChecks(r) /\ Len(t6) = AtChecks(r)
       /\ Len(t7) + 1 = AtDigest(r) /\ Len(t7) + 2 = AtDigest(r) + 1
       /\ Len(t8) = AtDigest(r) + 1 /\ Len(t9) + 1 = AtEnd(r)
  BY <1>10, <1>30, <1>24, <1>23, <1>22, <1>21, <1>20, <1>5
<1>32. r.fingerprint # Null => d[AtChecks(r) + 1] = prints[1]
  BY <1>5, <1>22, <1>31
<1>33. Len(d) = AtEnd(r) /\ d[AtEnd(r)] = end[1]
  BY <1>19, <1>31
<1>34. Layout(d, r)
  <2>1. /\ TextFrom(d, 2, r.identity) /\ TextFrom(d, AtOutcome(r) + 2, r.failed_stage)
    BY <1>11, <1>28, <1>26, <1>30
  <2>2. TextFrom(d, AtFirst(r), r.first_diagnostic) /\ TextFrom(d, AtDigest(r) + 1, r.does_not_prove)
    BY <1>11, <1>24, <1>30, <1>20, <1>31
  <2>3. d[1] = <<"schema", SchemaName>> /\ d[2] = <<"identity", Null>>
    BY <1>1, <1>29
  <2>4. /\ d[AtOutcome(r)] = <<"outcome", outcome_name(r.outcome)>>
        /\ d[AtOutcome(r) + 1] = <<"reason", failure_reason_name(r.failure_reason)>>
        /\ d[AtOutcome(r) + 2] = <<"stage", Null>>
    BY <1>2, <1>27, <1>30
  <2>5. /\ d[AtFirst(r)] = <<"first_diagnostic", Null>>
        /\ d[AtChecks(r)] = <<"checks", <<r.checks_attempted, r.checks_completed>> >>
    BY <1>3, <1>25, <1>30, <1>4, <1>23, <1>31
  <2>6. /\ d[AtDigest(r)] = <<"digest", receipt_digest(r)>>
        /\ d[AtDigest(r) + 1] = <<"does_not_prove", Null>>
    BY <1>6, <1>21, <1>31
  <2>7. /\ d[AtEnd(r)] = <<"end", Null>>
        /\ r.fingerprint # Null => d[AtChecks(r) + 1] = <<"fingerprint", r.fingerprint>>
    BY <1>7, <1>33, <1>5, <1>32
  <2> QED  BY <2>1, <2>2, <2>3, <2>4, <2>5, <2>6, <2>7, <1>33, Zenon DEF Layout, Laid
<1> QED  BY <1>9, <1>17, <1>34

\* A receipt that can be written.
Good(r) == r \in Receipts /\ receipt_is_valid(r)

LEMMA GoodTexts ==
  ASSUME NEW r, Good(r)
  PROVE  /\ r.identity \in Seq(Char) /\ r.failed_stage \in Seq(Char)
         /\ r.first_diagnostic \in Seq(Char) /\ r.does_not_prove \in Seq(Char)
<1>1. \A f \in TextFields : r[f] \in Seq(Char)
  BY ReceiptsAssumption DEF Good, receipt_is_valid
<1> QED  BY <1>1 DEF TextFields

\* A text is written as its characters, or not at all.
LEMMA TextCellsAre ==
  ASSUME NEW t \in Seq(Char)
  PROVE  /\ Len(t) \in Nat /\ Len(TextCells(t)) \in Nat
         /\ Len(t) <= TextMax =>
              /\ Len(TextCells(t)) = Len(t)
              /\ \A j \in 1..Len(t) : TextCells(t)[j] = <<"char", t[j]>>
         /\ ~(Len(t) <= TextMax) => Len(TextCells(t)) = 1 /\ TextCells(t)[1] = TooLong
<1>0. Len(t) \in Nat /\ TextMax \in Nat  BY TextMaxAssumption
<1>1. CASE Len(t) > TextMax
  <2>1. TextCells(t) = <<TooLong>>  BY <1>1 DEF TextCells
  <2> QED  BY <1>0, <1>1, <2>1, One
<1>2. CASE ~(Len(t) > TextMax)
  <2>1. TextCells(t) = [j \in 1..Len(t) |-> <<"char", t[j]>>]  BY <1>2 DEF TextCells
  <2>2. TextCells(t) \in Seq({<<"char", c>> : c \in Char})  BY <2>1
  <2>3. Len(TextCells(t)) = Len(t)
    <3>1. DOMAIN TextCells(t) = 1..Len(t)  BY <2>1
    <3> QED  BY <1>0, <2>2, <3>1, LenProperties
  <2> QED  BY <1>0, <1>2, <2>1, <2>3
<1> QED  BY <1>1, <1>2

LEMMA Places ==
  ASSUME NEW r, Good(r)
  PROVE  /\ AtOutcome(r) \in Nat /\ AtFirst(r) \in Nat /\ AtChecks(r) \in Nat
         /\ AtDigest(r) \in Nat /\ AtEnd(r) \in Nat
         /\ 3 <= AtOutcome(r) /\ AtOutcome(r) + 3 <= AtFirst(r) /\ AtFirst(r) + 1 <= AtChecks(r)
         /\ AtChecks(r) + 1 <= AtDigest(r) /\ AtDigest(r) + 2 <= AtEnd(r)
         /\ AtDigest(r) <= AtChecks(r) + 2
<1>1. /\ Len(TextCells(r.identity)) \in Nat /\ Len(TextCells(r.failed_stage)) \in Nat
      /\ Len(TextCells(r.first_diagnostic)) \in Nat /\ Len(TextCells(r.does_not_prove)) \in Nat
  BY GoodTexts, TextCellsAre
<1> QED  BY <1>1 DEF AtOutcome, AtFirst, AtChecks, AtDigest, AtEnd

\* A cell of a document is a literal of it, or one of the cells of a text.
LEMMA Regions ==
  ASSUME NEW r, Good(r), NEW i \in 1..AtEnd(r)
  PROVE  \/ i \in {1, 2, AtOutcome(r), AtOutcome(r) + 1, AtOutcome(r) + 2, AtFirst(r), AtChecks(r)}
         \/ i \in {AtDigest(r), AtDigest(r) + 1, AtEnd(r)}
         \/ r.fingerprint # Null /\ i = AtChecks(r) + 1
         \/ \E j \in 1..Len(TextCells(r.identity)) : i = 2 + j
         \/ \E j \in 1..Len(TextCells(r.failed_stage)) : i = (AtOutcome(r) + 2) + j
         \/ \E j \in 1..Len(TextCells(r.first_diagnostic)) : i = AtFirst(r) + j
         \/ \E j \in 1..Len(TextCells(r.does_not_prove)) : i = (AtDigest(r) + 1) + j
<1> DEFINE o == AtOutcome(r)
           f == AtFirst(r)
           c == AtChecks(r)
           g == AtDigest(r)
           e == AtEnd(r)
           n1 == Len(TextCells(r.identity))
           n2 == Len(TextCells(r.failed_stage))
           n3 == Len(TextCells(r.first_diagnostic))
           n4 == Len(TextCells(r.does_not_prove))
<1>1. n1 \in Nat /\ n2 \in Nat /\ n3 \in Nat /\ n4 \in Nat  BY GoodTexts, TextCellsAre
<1>2. /\ o = n1 + 3 /\ f = o + 3 + n2 /\ c = f + 1 + n3
      /\ g = c + 1 + (IF r.fingerprint = Null THEN 0 ELSE 1)
      /\ e = g + 2 + n4
  BY DEF AtOutcome, AtFirst, AtChecks, AtDigest, AtEnd
<1>3. o \in Nat /\ f \in Nat /\ c \in Nat /\ g \in Nat /\ e \in Nat  BY Places
<1>4. i \in 1..e  OBVIOUS
<1> HIDE DEF o, f, c, g, e, n1, n2, n3, n4
<1>5. CASE i < o
  <2>1. i = 1 \/ i = 2 \/ (i - 2 \in 1..n1 /\ i = 2 + (i - 2))  BY <1>1, <1>2, <1>3, <1>4, <1>5
  <2> QED  BY <2>1 DEF n1
<1>6. CASE o <= i /\ i < f
  <2>1. \/ i = o \/ i = o + 1 \/ i = o + 2
        \/ (i - (o + 2) \in 1..n2 /\ i = (o + 2) + (i - (o + 2)))
    BY <1>1, <1>2, <1>3, <1>4, <1>6
  <2> QED  BY <2>1 DEF o, n2
<1>7. CASE f <= i /\ i < c
  <2>1. i = f \/ (i - f \in 1..n3 /\ i = f + (i - f))  BY <1>1, <1>2, <1>3, <1>4, <1>7
  <2> QED  BY <2>1 DEF f, n3
<1>8. CASE c <= i /\ i < g
  <2>1. i = c \/ (r.fingerprint # Null /\ i = c + 1)  BY <1>2, <1>3, <1>4, <1>8
  <2> QED  BY <2>1 DEF c
<1>9. CASE g <= i
  <2>1. \/ i = g \/ i = g + 1 \/ i = e
        \/ (i - (g + 1) \in 1..n4 /\ i = (g + 1) + (i - (g + 1)))
    BY <1>1, <1>2, <1>3, <1>4, <1>9
  <2> QED  BY <2>1 DEF g, e, n4
<1>10. i < o \/ (o <= i /\ i < f) \/ (f <= i /\ i < c) \/ (c <= i /\ i < g) \/ g <= i
  BY <1>3, <1>4
<1> QED  BY <1>5, <1>6, <1>7, <1>8, <1>9, <1>10

Tags == {"schema", "identity", "char", "outcome", "reason", "stage", "first_diagnostic", "checks",
         "fingerprint", "digest", "does_not_prove", "end"}

\* What the kind of cell i of r's document says of the place and the cell.
Tells(cell, r, i) ==
  /\ cell[1] \in Tags
  /\ cell[1] = "schema"   => i = 1 /\ cell = <<"schema", SchemaName>>
  /\ cell[1] = "identity" => i = 2 /\ cell = <<"identity", Null>>
  /\ cell[1] = "char"     => cell = <<"char", cell[2]>>
  /\ cell[1] = "outcome"  => i = AtOutcome(r) /\ cell = <<"outcome", outcome_name(r.outcome)>>
  /\ cell[1] = "reason"   => i = AtOutcome(r) + 1
                             /\ cell = <<"reason", failure_reason_name(r.failure_reason)>>
  /\ cell[1] = "stage"    => i = AtOutcome(r) + 2 /\ cell = <<"stage", Null>>
  /\ cell[1] = "first_diagnostic" => i = AtFirst(r) /\ cell = <<"first_diagnostic", Null>>
  /\ cell[1] = "checks"   => i = AtChecks(r)
                             /\ cell = <<"checks", <<r.checks_attempted, r.checks_completed>> >>
  /\ cell[1] = "fingerprint" => /\ r.fingerprint # Null
                                /\ i = AtChecks(r) + 1 /\ cell = <<"fingerprint", r.fingerprint>>
  /\ cell[1] = "digest"   => i = AtDigest(r) /\ cell = <<"digest", receipt_digest(r)>>
  /\ cell[1] = "does_not_prove" => i = AtDigest(r) + 1 /\ cell = <<"does_not_prove", Null>>
  /\ cell[1] = "end"      => i = AtEnd(r) /\ cell = <<"end", Null>>

LEMMA CharTells ==
  ASSUME NEW r, NEW i, NEW c
  PROVE  Tells(<<"char", c>>, r, i)
  BY DEF Tells, Tags

LEMMA CellTells ==
  ASSUME NEW r, Good(r), NEW i \in 1..Len(Document(r)), Document(r)[i] # TooLong
  PROVE  Tells(Document(r)[i], r, i)
<1> DEFINE d == Document(r)
<1>1. Layout(d, r)  BY DocumentLayout DEF Good
<1>2. d[i] # TooLong /\ i \in 1..AtEnd(r)  BY <1>1 DEF Layout
<1> SUFFICES Tells(d[i], r, i)  OBVIOUS
<1> HIDE DEF d
<1>3. Laid(d, r)  BY <1>1 DEF Layout
<1>4. ASSUME NEW t \in Seq(Char), NEW k, TextFrom(d, k, t),
             \E j \in 1..Len(TextCells(t)) : i = k + j
      PROVE  Tells(d[i], r, i)
  <2>1. PICK j \in 1..Len(TextCells(t)) : i = k + j  BY <1>4
  <2>2. d[i] = TextCells(t)[j]  BY <1>4, <2>1 DEF TextFrom
  <2>3. Len(t) <= TextMax
    <3>1. ASSUME ~(Len(t) <= TextMax) PROVE FALSE
      <4>1. Len(TextCells(t)) = 1 /\ TextCells(t)[1] = TooLong  BY <3>1, TextCellsAre
      <4> QED  BY <4>1, <2>1, <2>2, <1>2
    <3> QED  BY <3>1
  <2>4. j \in 1..Len(t)  BY <2>1, <2>3, TextCellsAre
  <2>5. d[i] = <<"char", t[j]>>  BY <2>2, <2>3, <2>4, TextCellsAre
  <2> QED  BY <2>5, CharTells
<1>5. CASE i \in {1, 2}
  BY <1>3, <1>5 DEF Laid, Tells, Tags
<1>6. CASE i \in {AtOutcome(r), AtOutcome(r) + 1, AtOutcome(r) + 2}
  BY <1>3, <1>6 DEF Laid, Tells, Tags
<1>7. CASE i \in {AtFirst(r), AtChecks(r)}
  BY <1>3, <1>7 DEF Laid, Tells, Tags
<1>8. CASE i \in {AtDigest(r), AtDigest(r) + 1, AtEnd(r)}
  BY <1>3, <1>8 DEF Laid, Tells, Tags
<1>9. CASE r.fingerprint # Null /\ i = AtChecks(r) + 1
  BY <1>3, <1>9 DEF Laid, Tells, Tags
<1>10. /\ TextFrom(d, 2, r.identity) /\ TextFrom(d, AtOutcome(r) + 2, r.failed_stage)
       /\ TextFrom(d, AtFirst(r), r.first_diagnostic)
       /\ TextFrom(d, AtDigest(r) + 1, r.does_not_prove)
  BY <1>3 DEF Laid
<1> QED
  BY <1>2, <1>4, <1>5, <1>6, <1>7, <1>8, <1>9, <1>10, Regions, GoodTexts

-----------------------------------------------------------------------------
(* What the parser finds.                                                  *)

\* The characters from cell i end somewhere, and are all that lies between.
LEMMA RunFacts ==
  ASSUME NEW t, IsSeq(t), NEW i \in Nat \ {0}
  PROVE  /\ Run(t, i) \in 0..Len(t)
         /\ Tag(t, i + Run(t, i)) # "char"
         /\ \A j \in i..(i + Run(t, i) - 1) : Tag(t, j) = "char"
<1> DEFINE T == {n \in 0..Len(t) : Tag(t, i + n) # "char"}
<1>1. Len(t) \in Nat  BY WholeIsPrefix
<1>2. Len(t) \in T  BY <1>1 DEF Tag
<1>3. PICK n \in T : \A m \in T : n <= m
  <2>1. T \subseteq Nat /\ T # {}  BY <1>1, <1>2
  <2> HIDE DEF T
  <2> QED  BY <2>1, LeastNatural
<1>4. ASSUME NEW j \in i..(i + n - 1) PROVE Tag(t, j) = "char"
  <2>1. j - i \in 0..Len(t) /\ i + (j - i) = j /\ ~(n <= j - i)  BY <1>1, <1>3
  <2>2. j - i \notin T  BY <2>1, <1>3
  <2> QED  BY <2>1, <2>2
<1>5. \E m \in 0..Len(t) : /\ Tag(t, i + m) # "char"
                           /\ \A j \in i..(i + m - 1) : Tag(t, j) = "char"
  BY <1>3, <1>4
<1> QED  BY <1>5 DEF Run

\* Where the first cell that is no character is, the run ends.
LEMMA RunIs ==
  ASSUME NEW t, IsSeq(t), NEW i \in Nat \ {0}, NEW n \in Nat,
         Tag(t, i + n) # "char", \A j \in i..(i + n - 1) : Tag(t, j) = "char"
  PROVE  Run(t, i) = n
<1> DEFINE m == Run(t, i)
<1>1. Len(t) \in Nat  BY WholeIsPrefix
<1>2. /\ m \in Nat /\ Tag(t, i + m) # "char"
      /\ \A j \in i..(i + m - 1) : Tag(t, j) = "char"
  BY <1>1, RunFacts
<1> HIDE DEF m
<1>3. ~(m < n)
  <2>1. ASSUME m < n PROVE i + m \in i..(i + n - 1)  BY <1>2, <2>1
  <2> QED  BY <1>2, <2>1
<1>4. ~(n < m)
  <2>1. ASSUME n < m PROVE i + n \in i..(i + m - 1)  BY <1>2, <2>1
  <2> QED  BY <1>2, <2>1
<1>5. m = n  BY <1>2, <1>3, <1>4
<1> QED  BY <1>5 DEF m

\* The places receipt_parse_document comes to.
outcomeOf(t) == 3 + Run(t, 3)
stageOf(t)   == outcomeOf(t) + 3
firstOf(t)   == stageOf(t) + Run(t, stageOf(t)) + 1
checksOf(t)  == firstOf(t) + Run(t, firstOf(t))
presentIn(t) == Tag(t, checksOf(t) + 1) = "fingerprint"
digestOf(t)  == checksOf(t) + 1 + (IF presentIn(t) THEN 1 ELSE 0)
limitsOf(t)  == digestOf(t) + 2
endOf(t)     == limitsOf(t) + Run(t, limitsOf(t))

Parses(t) ==
  /\ Tag(t, 2) = "identity"              /\ Fits(t, 3)
  /\ Tag(t, outcomeOf(t)) = "outcome"
  /\ Tag(t, outcomeOf(t) + 1) = "reason"
  /\ Tag(t, outcomeOf(t) + 2) = "stage"  /\ Fits(t, stageOf(t))
  /\ Tag(t, firstOf(t) - 1) = "first_diagnostic" /\ Fits(t, firstOf(t))
  /\ Tag(t, checksOf(t)) = "checks"
  /\ Tag(t, digestOf(t)) = "digest"
  /\ Tag(t, digestOf(t) + 1) = "does_not_prove"  /\ Fits(t, limitsOf(t))
  /\ Tag(t, endOf(t)) = "end"
  /\ Tag(t, endOf(t) + 1) = "nul"
  /\ Named(OutcomeNames, t[outcomeOf(t)][2])
  /\ Named(FailureNames, t[outcomeOf(t) + 1][2])

\* The receipt it finds.
Parsed(t) ==
  [ identity         |-> TextAt(t, 3),
    outcome          |-> ValueOf(OutcomeNames, t[outcomeOf(t)][2]),
    failure_reason   |-> ValueOf(FailureNames, t[outcomeOf(t) + 1][2]),
    failed_stage     |-> TextAt(t, stageOf(t)),
    first_diagnostic |-> TextAt(t, firstOf(t)),
    checks_attempted |-> t[checksOf(t)][2][1],
    checks_completed |-> t[checksOf(t)][2][2],
    fingerprint      |-> IF presentIn(t) THEN t[checksOf(t) + 1][2] ELSE Null,
    does_not_prove   |-> TextAt(t, limitsOf(t)) ]

LEMMA ParseIs ==
  ASSUME NEW t
  PROVE  receipt_parse_document(t) =
           IF schema_result(t) # 0 THEN [result |-> schema_result(t)]
           ELSE IF ~Parses(t) THEN [result |-> -1]
           ELSE [ result |-> 0, claimed |-> t[digestOf(t)][2], receipt |-> Parsed(t) ]
  BY Zenon DEF receipt_parse_document, outcomeOf, stageOf, firstOf, checksOf, presentIn, digestOf,
         limitsOf, endOf, Parses, Parsed

LEMMA VerdictIs ==
  ASSUME NEW t
  PROVE  validate_json(t) =
           IF schema_result(t) = 1 THEN Unvalidated("bad-version")
           ELSE IF schema_result(t) = -1 \/ ~Parses(t) \/ ~receipt_is_valid(Parsed(t))
             THEN Unvalidated("invalid")
           ELSE IF receipt_digest(Parsed(t)) # t[digestOf(t)][2]
             THEN Unvalidated("bad-digest")
           ELSE Validated(Parsed(t))
<1> DEFINE parsed == receipt_parse_document(t)
           p == Parsed(t)
           claim == t[digestOf(t)][2]
<1>1. validate_json(t) =
        CASE parsed.result = 1  -> Unvalidated("bad-version")
          [] parsed.result = -1 -> Unvalidated("invalid")
          [] OTHER ->
               IF ~receipt_is_valid(parsed.receipt)
                 THEN Unvalidated("invalid")
                 ELSE IF receipt_digest(parsed.receipt) # parsed.claimed
                        THEN Unvalidated("bad-digest")
                        ELSE Validated(parsed.receipt)
  BY DEF validate_json
<1>2. parsed = IF schema_result(t) # 0 THEN [result |-> schema_result(t)]
               ELSE IF ~Parses(t) THEN [result |-> -1]
               ELSE [ result |-> 0, claimed |-> claim, receipt |-> p ]
  BY ParseIs
<1>3. schema_result(t) \in {-1, 0, 1}  BY DEF schema_result
<1> HIDE DEF parsed, p, claim
<1>4. CASE schema_result(t) # 0
  <2>1. parsed.result = schema_result(t)  BY <1>2, <1>4
  <2> QED  BY <1>1, <1>3, <1>4, <2>1
<1>5. CASE schema_result(t) = 0 /\ ~Parses(t)
  <2>1. parsed.result = -1  BY <1>2, <1>5
  <2> QED  BY <1>1, <1>5, <2>1
<1>6. CASE schema_result(t) = 0 /\ Parses(t)
  <2>1. parsed.result = 0 /\ parsed.claimed = claim /\ parsed.receipt = p  BY <1>2, <1>6
  <2>2. p = Parsed(t) /\ claim = t[digestOf(t)][2]  BY DEF p, claim
  <2> QED  BY <1>1, <1>6, <2>1, <2>2
<1> QED  BY <1>4, <1>5, <1>6

\* A name is the name of one enumerator.
LEMMA NameIsRead ==
  ASSUME NEW v \in Nat
  PROVE  /\ outcome_name(v) # Null =>
              /\ v \in 0..ToolError /\ Named(OutcomeNames, outcome_name(v))
              /\ ValueOf(OutcomeNames, outcome_name(v)) = v
         /\ failure_reason_name(v) # Null =>
              /\ v \in 0..ToolError /\ Named(FailureNames, failure_reason_name(v))
              /\ ValueOf(FailureNames, failure_reason_name(v)) = v
<1>1. ASSUME outcome_name(v) # Null
      PROVE  /\ v \in 0..ToolError /\ Named(OutcomeNames, outcome_name(v))
             /\ ValueOf(OutcomeNames, outcome_name(v)) = v
  <2>1. v \in {0, 1, 2, 3, 4, 5} /\ outcome_name(v) = OutcomeNames[v + 1]
    BY <1>1 DEF outcome_name, ToolError
  <2>2. \A u \in 0..5 : OutcomeNames[u + 1] = OutcomeNames[v + 1] => u = v
    BY <2>1 DEF OutcomeNames
  <2>3. 0..ToolError = 0..5 /\ v \in 0..5  BY <2>1 DEF ToolError
  <2> QED  BY <2>1, <2>2, <2>3 DEF Named, ValueOf
<1>2. ASSUME failure_reason_name(v) # Null
      PROVE  /\ v \in 0..ToolError /\ Named(FailureNames, failure_reason_name(v))
             /\ ValueOf(FailureNames, failure_reason_name(v)) = v
  <2>1. v \in {0, 1, 2, 3, 4, 5} /\ failure_reason_name(v) = FailureNames[v + 1]
    BY <1>2 DEF failure_reason_name, ToolError
  <2>2. \A u \in 0..5 : FailureNames[u + 1] = FailureNames[v + 1] => u = v
    BY <2>1 DEF FailureNames
  <2>3. 0..ToolError = 0..5 /\ v \in 0..5  BY <2>1 DEF ToolError
  <2> QED  BY <2>1, <2>2, <2>3 DEF Named, ValueOf
<1> QED  BY <1>1, <1>2

\* A text that has been written whole is read back, if no character follows it.
LEMMA TextIsRead ==
  ASSUME NEW t, IsSeq(t), NEW x \in Seq(Char), NEW k \in Nat, TextFrom(t, k, x),
         k + Len(TextCells(x)) <= Len(t),
         \A j \in 1..Len(TextCells(x)) : t[k + j] # TooLong,
         Tag(t, k + Len(TextCells(x)) + 1) # "char"
  PROVE  /\ Len(TextCells(x)) = Len(x) /\ Len(x) \in Nat
         /\ Run(t, k + 1) = Len(x) /\ Fits(t, k + 1)
         /\ TextAt(t, k + 1) = x
<1>0. Len(t) \in Nat /\ Len(x) \in Nat /\ TextMax \in Nat  BY WholeIsPrefix, TextMaxAssumption
<1>1. Len(x) <= TextMax
  <2>1. ASSUME ~(Len(x) <= TextMax) PROVE FALSE
    <3>1. Len(TextCells(x)) = 1 /\ TextCells(x)[1] = TooLong  BY <2>1, TextCellsAre
    <3>2. 1 \in 1..Len(TextCells(x))  BY <3>1
    <3> QED  BY <3>1, <3>2 DEF TextFrom
  <2> QED  BY <2>1
<1>2. Len(TextCells(x)) = Len(x)  BY <1>1, TextCellsAre
<1>3. \A j \in 1..Len(x) : t[k + j] = <<"char", x[j]>>
  BY <1>1, <1>2, TextCellsAre DEF TextFrom
<1>4. ASSUME NEW i \in (k + 1)..((k + 1) + Len(x) - 1) PROVE Tag(t, i) = "char"
  <2>1. i - k \in 1..Len(x) /\ k + (i - k) = i /\ i \in 1..Len(t)  BY <1>0, <1>2
  <2>2. t[i] = <<"char", x[i - k]>>  BY <1>3, <2>1
  <2> QED  BY <2>1, <2>2 DEF Tag
<1>5. Tag(t, (k + 1) + Len(x)) # "char"
  <2>1. (k + 1) + Len(x) = k + Len(TextCells(x)) + 1  BY <1>0, <1>2
  <2> QED  BY <2>1
<1>6. Run(t, k + 1) = Len(x)
  <2>1. k + 1 \in Nat \ {0}  OBVIOUS
  <2> QED  BY <2>1, <1>0, <1>4, <1>5, RunIs
<1>7. TextAt(t, k + 1) = x
  <2>1. TextAt(t, k + 1) = [j \in 1..Len(x) |-> t[(k + 1) + j - 1][2]]
    BY <1>6 DEF TextAt
  <2>2. \A j \in 1..Len(x) : t[(k + 1) + j - 1][2] = x[j]
    <3>1. ASSUME NEW j \in 1..Len(x) PROVE t[(k + 1) + j - 1][2] = x[j]
      <4>1. (k + 1) + j - 1 = k + j  BY <1>0
      <4> QED  BY <4>1, <1>3
    <3> QED  BY <3>1
  <2>3. x = [j \in 1..Len(x) |-> x[j]]
    OBVIOUS
  <2> QED  BY <2>1, <2>2, <2>3
<1> QED  BY <1>0, <1>1, <1>2, <1>6, <1>7 DEF Fits

\* The receipts p and r have the same fields.
Same(p, r) ==
  /\ p.identity = r.identity /\ p.outcome = r.outcome /\ p.failure_reason = r.failure_reason
  /\ p.failed_stage = r.failed_stage /\ p.first_diagnostic = r.first_diagnostic
  /\ p.checks_attempted = r.checks_attempted /\ p.checks_completed = r.checks_completed
  /\ p.fingerprint = r.fingerprint /\ p.does_not_prove = r.does_not_prove

LEMMA SameIsSame ==
  ASSUME NEW p, NEW r, Same(p, r)
  PROVE  /\ receipt_is_valid(p) = receipt_is_valid(r)
         /\ receipt_digest(p) = receipt_digest(r)
         /\ Validated(p) = Validated(r)
<1>1. receipt_is_valid(p) = receipt_is_valid(r)
  <2>1. \A f \in TextFields : p[f] = r[f]  BY DEF Same, TextFields
  <2> QED  BY <2>1 DEF Same, receipt_is_valid
<1>2. receipt_digest(p) = receipt_digest(r)  BY <1>1 DEF Same, receipt_digest
<1> QED  BY <1>1, <1>2 DEF Same, Validated

\* t begins with the whole of d, of which nothing was refused, and ends there for C.
Covers(t, d) ==
  /\ IsSeq(t) /\ Len(d) <= Len(t)
  /\ \A i \in 1..Len(d) : t[i] = d[i] /\ d[i] # TooLong
  /\ Tag(t, Len(d) + 1) = "nul"

\* What is written is read back: a text that is the whole document of a receipt
\* the library writes is valid, and says what the receipt said.
LEMMA ReadsBack ==
  ASSUME NEW r, Good(r), NEW t, Covers(t, Document(r))
  PROVE  validate_json(t) = Validated(r)
<1> DEFINE d == Document(r)
           o == AtOutcome(r)
           f == AtFirst(r)
           c == AtChecks(r)
           g == AtDigest(r)
           e == AtEnd(r)
<1>1. Layout(d, r) /\ Covers(t, d)  BY DocumentLayout DEF Good
<1>2. Len(d) = e  BY <1>1 DEF Layout, Laid
<1> HIDE DEF d
<1>3. /\ IsSeq(t) /\ e <= Len(t) /\ Len(t) \in Nat /\ Tag(t, e + 1) = "nul"
      /\ \A i \in 1..e : t[i] = d[i] /\ t[i] # TooLong /\ Tag(t, i) = d[i][1]
  <2>1. IsSeq(t) /\ e <= Len(t) /\ Tag(t, e + 1) = "nul"  BY <1>1, <1>2 DEF Covers
  <2>2. Len(t) \in Nat  BY <2>1, WholeIsPrefix
  <2>3. \A i \in 1..e : i \in 1..Len(t) /\ t[i] = d[i] /\ t[i] # TooLong
    BY <1>1, <1>2, <2>1, <2>2, Places DEF Covers
  <2> QED  BY <2>1, <2>2, <2>3 DEF Tag
<1>4. /\ o \in Nat /\ f \in Nat /\ c \in Nat /\ g \in Nat /\ e \in Nat
      /\ 3 <= o /\ o + 3 <= f /\ f + 1 <= c /\ c + 1 <= g /\ g + 2 <= e /\ g <= c + 2
  BY Places
<1>5. /\ o = Len(TextCells(r.identity)) + 3
      /\ f = o + 3 + Len(TextCells(r.failed_stage))
      /\ c = f + 1 + Len(TextCells(r.first_diagnostic))
      /\ g = c + 1 + (IF r.fingerprint = Null THEN 0 ELSE 1)
      /\ e = g + 2 + Len(TextCells(r.does_not_prove))
  BY DEF AtOutcome, AtFirst, AtChecks, AtDigest, AtEnd
<1>6. /\ d[1] = <<"schema", SchemaName>> /\ d[2] = <<"identity", Null>>
      /\ d[o] = <<"outcome", outcome_name(r.outcome)>>
      /\ d[o + 1] = <<"reason", failure_reason_name(r.failure_reason)>>
      /\ d[o + 2] = <<"stage", Null>>
      /\ d[f] = <<"first_diagnostic", Null>>
      /\ d[c] = <<"checks", <<r.checks_attempted, r.checks_completed>> >>
      /\ r.fingerprint # Null => d[c + 1] = <<"fingerprint", r.fingerprint>>
      /\ d[g] = <<"digest", receipt_digest(r)>>
      /\ d[g + 1] = <<"does_not_prove", Null>>
      /\ d[e] = <<"end", Null>>
  BY <1>1 DEF Layout, Laid
<1>7. /\ TextFrom(d, 2, r.identity) /\ TextFrom(d, o + 2, r.failed_stage)
      /\ TextFrom(d, f, r.first_diagnostic) /\ TextFrom(d, g + 1, r.does_not_prove)
  BY <1>1 DEF Layout, Laid
<1> HIDE DEF o, f, c, g, e
<1>8. ASSUME NEW x \in Seq(Char), NEW k \in Nat, TextFrom(d, k, x),
             k + Len(TextCells(x)) + 1 <= e, d[k + Len(TextCells(x)) + 1][1] # "char"
      PROVE  /\ Len(TextCells(x)) = Len(x) /\ Len(x) \in Nat
             /\ Run(t, k + 1) = Len(x) /\ Fits(t, k + 1)
             /\ TextAt(t, k + 1) = x
  <2>1. Len(TextCells(x)) \in Nat  BY TextCellsAre
  <2>2. \A j \in 1..Len(TextCells(x)) : k + j \in 1..e  BY <1>4, <1>8, <2>1
  <2>3. TextFrom(t, k, x)  BY <1>3, <1>8, <2>2 DEF TextFrom
  <2>4. \A j \in 1..Len(TextCells(x)) : t[k + j] # TooLong  BY <1>3, <2>2
  <2>5. k + Len(TextCells(x)) <= Len(t)  BY <1>3, <1>4, <1>8, <2>1
  <2>6. k + Len(TextCells(x)) + 1 \in 1..e  BY <1>4, <1>8, <2>1
  <2>7. Tag(t, k + Len(TextCells(x)) + 1) # "char"  BY <1>3, <1>8, <2>6
  <2> QED  BY <1>3, <2>3, <2>4, <2>5, <2>7, TextIsRead
<1>9. /\ r.identity \in Seq(Char) /\ r.failed_stage \in Seq(Char)
      /\ r.first_diagnostic \in Seq(Char) /\ r.does_not_prove \in Seq(Char)
  BY GoodTexts
<1>10. /\ Len(TextCells(r.identity)) \in Nat /\ Len(TextCells(r.failed_stage)) \in Nat
       /\ Len(TextCells(r.first_diagnostic)) \in Nat /\ Len(TextCells(r.does_not_prove)) \in Nat
  BY <1>9, TextCellsAre
<1>11. Run(t, 3) = Len(TextCells(r.identity)) /\ Fits(t, 3) /\ TextAt(t, 3) = r.identity
  <2>1. 2 + Len(TextCells(r.identity)) + 1 = o  BY <1>5, <1>10
  <2>2. d[o][1] # "char" /\ o <= e  BY <1>4, <1>6
  <2>3. 2 + 1 = 3  OBVIOUS
  <2> QED  BY <1>7, <1>8, <1>9, <2>1, <2>2, <2>3
<1>12. outcomeOf(t) = o /\ stageOf(t) = o + 3
  <2>1. outcomeOf(t) = o  BY <1>5, <1>10, <1>11 DEF outcomeOf
  <2> QED  BY <2>1 DEF stageOf
<1>13. /\ Run(t, stageOf(t)) = Len(TextCells(r.failed_stage)) /\ Fits(t, stageOf(t))
       /\ TextAt(t, stageOf(t)) = r.failed_stage
  <2>1. (o + 2) + Len(TextCells(r.failed_stage)) + 1 = f /\ o + 2 \in Nat  BY <1>4, <1>5, <1>10
  <2>2. d[f][1] # "char" /\ f <= e  BY <1>4, <1>6
  <2>3. (o + 2) + 1 = stageOf(t)  BY <1>12, <1>4
  <2> QED  BY <1>7, <1>8, <1>9, <2>1, <2>2, <2>3
<1>14. firstOf(t) = f + 1 /\ firstOf(t) - 1 = f
  <2>1. firstOf(t) = (o + 3) + Len(TextCells(r.failed_stage)) + 1  BY <1>12, <1>13 DEF firstOf
  <2>2. f = o + 3 + Len(TextCells(r.failed_stage)) /\ f \in Nat  BY <1>4, <1>5
  <2>3. firstOf(t) = f + 1  BY <2>1, <2>2
  <2> QED  BY <2>2, <2>3
<1>15. /\ Run(t, firstOf(t)) = Len(TextCells(r.first_diagnostic)) /\ Fits(t, firstOf(t))
       /\ TextAt(t, firstOf(t)) = r.first_diagnostic
  <2>1. f + Len(TextCells(r.first_diagnostic)) + 1 = c  BY <1>4, <1>5, <1>10
  <2>2. d[c][1] # "char" /\ c <= e  BY <1>4, <1>6
  <2> QED  BY <1>4, <1>7, <1>8, <1>9, <2>1, <2>2, <1>14
<1>16. checksOf(t) = c
  BY <1>4, <1>5, <1>10, <1>14, <1>15 DEF checksOf
<1>17. presentIn(t) <=> r.fingerprint # Null
  <2>1. c + 1 \in 1..e  BY <1>4
  <2>2. Tag(t, c + 1) = d[c + 1][1]  BY <1>3, <2>1
  <2>3. CASE r.fingerprint # Null
    BY <1>6, <1>16, <2>2, <2>3 DEF presentIn
  <2>4. CASE r.fingerprint = Null
    <3>1. g = c + 1  BY <1>4, <1>5, <2>4
    <3> QED  BY <1>6, <1>16, <2>2, <2>4, <3>1 DEF presentIn
  <2> QED  BY <2>3, <2>4
<1>18. digestOf(t) = g /\ limitsOf(t) = g + 2
  BY <1>4, <1>5, <1>16, <1>17 DEF digestOf, limitsOf
<1>19. /\ Run(t, limitsOf(t)) = Len(TextCells(r.does_not_prove)) /\ Fits(t, limitsOf(t))
       /\ TextAt(t, limitsOf(t)) = r.does_not_prove
  <2>1. (g + 1) + Len(TextCells(r.does_not_prove)) + 1 = e /\ g + 1 \in Nat  BY <1>4, <1>5, <1>10
  <2>2. d[e][1] # "char" /\ e <= e  BY <1>4, <1>6
  <2>3. (g + 1) + 1 = limitsOf(t)  BY <1>18, <1>4
  <2> QED  BY <1>7, <1>8, <1>9, <2>1, <2>2, <2>3
<1>20. endOf(t) = e
  BY <1>4, <1>5, <1>10, <1>18, <1>19 DEF endOf
<1>21. /\ 1 \in 1..e /\ 2 \in 1..e /\ o \in 1..e /\ o + 1 \in 1..e /\ o + 2 \in 1..e
       /\ f \in 1..e /\ c \in 1..e /\ g \in 1..e /\ g + 1 \in 1..e /\ e \in 1..e
  BY <1>4
<1>22. schema_result(t) = 0
  <2>1. Tag(t, 1) = "schema" /\ t[1] = <<"schema", SchemaName>>  BY <1>3, <1>6, <1>21
  <2> QED  BY <2>1 DEF schema_result
<1>23. /\ r.outcome \in Nat /\ r.failure_reason \in Nat
       /\ outcome_name(r.outcome) # Null /\ failure_reason_name(r.failure_reason) # Null
  BY ReceiptsAssumption DEF Good, receipt_is_valid
<1>24. t[o][2] = outcome_name(r.outcome) /\ t[o + 1][2] = failure_reason_name(r.failure_reason)
  BY <1>3, <1>6, <1>21
<1>25. Parses(t)
  <2>1. Tag(t, 2) = "identity" /\ Tag(t, o) = "outcome" /\ Tag(t, o + 1) = "reason" /\ Tag(t, o + 2) = "stage"
    BY <1>3, <1>6, <1>21
  <2>2. /\ Tag(t, f) = "first_diagnostic" /\ Tag(t, c) = "checks" /\ Tag(t, g) = "digest"
        /\ Tag(t, g + 1) = "does_not_prove" /\ Tag(t, e) = "end"
    BY <1>3, <1>6, <1>21
  <2>3. Named(OutcomeNames, t[o][2]) /\ Named(FailureNames, t[o + 1][2])
    BY <1>23, <1>24, NameIsRead
  <2> QED  BY <1>3, <1>11, <1>12, <1>13, <1>14, <1>15, <1>16, <1>18, <1>19, <1>20, <2>1, <2>2, <2>3
           DEF Parses
<1>26. Same(Parsed(t), r)
  <2>1. t[c][2][1] = r.checks_attempted /\ t[c][2][2] = r.checks_completed
    BY <1>3, <1>6, <1>21
  <2>2. (IF presentIn(t) THEN t[c + 1][2] ELSE Null) = r.fingerprint
    <3>1. c + 1 \in 1..e  BY <1>4
    <3> QED  BY <1>3, <1>6, <1>17, <3>1
  <2>3. /\ ValueOf(OutcomeNames, t[o][2]) = r.outcome
        /\ ValueOf(FailureNames, t[o + 1][2]) = r.failure_reason
    BY <1>23, <1>24, NameIsRead
  <2> QED  BY <1>11, <1>12, <1>13, <1>15, <1>16, <1>19, <2>1, <2>2, <2>3 DEF Same, Parsed
<1>27. t[digestOf(t)][2] = receipt_digest(r)
  BY <1>3, <1>6, <1>18, <1>21
<1> QED  BY <1>22, <1>25, <1>26, <1>27, SameIsSame, VerdictIs DEF Good

LEMMA ParsePlaces ==
  ASSUME NEW t, IsSeq(t)
  PROVE  /\ outcomeOf(t) \in Nat /\ stageOf(t) \in Nat /\ firstOf(t) \in Nat /\ checksOf(t) \in Nat
         /\ digestOf(t) \in Nat /\ limitsOf(t) \in Nat /\ endOf(t) \in Nat
         /\ Run(t, 3) \in Nat /\ Run(t, stageOf(t)) \in Nat /\ Run(t, firstOf(t)) \in Nat
         /\ Run(t, limitsOf(t)) \in Nat
         /\ 3 <= outcomeOf(t) /\ 6 <= stageOf(t) /\ 7 <= firstOf(t) /\ 7 <= checksOf(t)
         /\ 8 <= digestOf(t) /\ 10 <= limitsOf(t) /\ 10 <= endOf(t)
<1>0. \A i \in Nat \ {0} : Run(t, i) \in Nat
  <2>1. Len(t) \in Nat  BY WholeIsPrefix
  <2> QED  BY <2>1, RunFacts
<1>1. Run(t, 3) \in Nat /\ outcomeOf(t) \in Nat /\ 3 <= outcomeOf(t)
  <2>1. Run(t, 3) \in Nat  BY <1>0
  <2> QED  BY <2>1 DEF outcomeOf
<1>2. stageOf(t) \in Nat /\ 6 <= stageOf(t)  BY <1>1 DEF stageOf
<1>3. Run(t, stageOf(t)) \in Nat  BY <1>0, <1>2
<1>4. firstOf(t) \in Nat /\ 7 <= firstOf(t)  BY <1>2, <1>3 DEF firstOf
<1>5. Run(t, firstOf(t)) \in Nat  BY <1>0, <1>4
<1>6. checksOf(t) \in Nat /\ 7 <= checksOf(t)  BY <1>4, <1>5 DEF checksOf
<1>7. digestOf(t) \in Nat /\ 8 <= digestOf(t)  BY <1>6 DEF digestOf
<1>8. limitsOf(t) \in Nat /\ 10 <= limitsOf(t)  BY <1>7 DEF limitsOf
<1>9. Run(t, limitsOf(t)) \in Nat  BY <1>0, <1>8
<1>10. endOf(t) \in Nat /\ 10 <= endOf(t)  BY <1>8, <1>9 DEF endOf
<1> QED  BY <1>1, <1>2, <1>3, <1>4, <1>5, <1>6, <1>7, <1>8, <1>9, <1>10

\* c is the beginning of the document of r, as far as writing went.
PartOf(c, r) ==
  /\ IsSeq(c) /\ Good(r) /\ Len(c) <= Len(Document(r))
  /\ \A i \in 1..Len(c) : c[i] = Document(r)[i] /\ c[i] # TooLong

\* Verdicts on a document that is not whole: it is invalid, neither of another
\* version nor altered; and if it is valid it is whole.
LEMMA PartIsRead ==
  ASSUME NEW r, NEW t, PartOf(t, r)
  PROVE  validate_json(t).status \in {"valid", "invalid"}
<1> DEFINE d == Document(r)
<1>1. IsSeq(t) /\ Good(r) /\ Layout(d, r) /\ Len(t) \in Nat
  BY DocumentLayout, WholeIsPrefix DEF PartOf, Good
<1>2. Unvalidated("invalid").status = "invalid" /\ Validated(r).status = "valid"
  BY DEF Unvalidated, Validated
<1>3. schema_result(t) \in {-1, 0}
  <2>1. CASE Tag(t, 1) # "schema"  BY <2>1 DEF schema_result
  <2>2. CASE Tag(t, 1) = "schema"
    <3>1. 1 \in 1..Len(t)  BY <2>2 DEF Tag
    <3>2. t[1] = <<"schema", SchemaName>>  BY <1>1, <3>1 DEF PartOf, Layout, Laid
    <3> QED  BY <2>2, <3>2 DEF schema_result
  <2> QED  BY <2>1, <2>2
<1>4. CASE schema_result(t) = 0 /\ Parses(t)
  <2>1. Tag(t, endOf(t)) = "end"  BY <1>4 DEF Parses
  <2>2. endOf(t) \in 1..Len(t) /\ t[endOf(t)][1] = "end"
    BY <2>1 DEF Tag
  <2>3. endOf(t) \in 1..Len(d) /\ d[endOf(t)] = t[endOf(t)] /\ d[endOf(t)] # TooLong
    <3>1. Len(t) <= Len(d) /\ Len(d) \in Nat  BY <1>1, WholeIsPrefix, DocumentLayout DEF PartOf, Good
    <3> QED  BY <2>2, <3>1, <1>1 DEF PartOf
  <2>4. Tells(d[endOf(t)], r, endOf(t))  BY <1>1, <2>3, CellTells
  <2>5. endOf(t) = AtEnd(r) /\ Len(d) = AtEnd(r)  BY <1>1, <2>2, <2>3, <2>4 DEF Tells, Layout, Laid
  <2>6. Len(t) = Len(d)  BY <1>1, <2>2, <2>5, Places DEF PartOf
  <2>7. Covers(t, d)
    <3>1. Tag(t, Len(d) + 1) = "nul"  BY <1>1, <2>6 DEF Tag
    <3>2. \A i \in 1..Len(d) : t[i] = d[i] /\ d[i] # TooLong  BY <2>6 DEF PartOf
    <3> QED  BY <1>1, <2>6, <3>1, <3>2 DEF Covers
  <2> QED  BY <1>1, <1>2, <2>7, ReadsBack
<1>5. CASE ~(schema_result(t) = 0 /\ Parses(t))
  <2>1. validate_json(t) = Unvalidated("invalid")  BY <1>3, <1>5, VerdictIs
  <2> QED  BY <1>2, <2>1
<1> QED  BY <1>4, <1>5

\* Every cell of t is one of the document of some receipt, and the digest is of
\* a receipt in H.
Drawn(t, H) ==
  /\ IsSeq(t)
  /\ \A i \in 1..Len(t) : \E s :
       /\ Good(s) /\ i <= Len(Document(s))
       /\ t[i] = Document(s)[i] /\ t[i] # TooLong
       /\ DigestCell(s) <= i => s \in H

LEMMA Draw ==
  ASSUME NEW t, NEW H, Drawn(t, H), NEW i, Tag(t, i) # "nul"
  PROVE  /\ i \in 1..Len(t) /\ Tag(t, i) = t[i][1] /\ t[i] # TooLong
         /\ \E s : Good(s) /\ Tells(t[i], s, i) /\ (DigestCell(s) <= i => s \in H)
<1>1. i \in 1..Len(t) /\ Tag(t, i) = t[i][1]  BY DEF Tag
<1>2. PICK s : /\ Good(s) /\ i <= Len(Document(s))
               /\ t[i] = Document(s)[i] /\ t[i] # TooLong
               /\ DigestCell(s) <= i => s \in H
  BY <1>1 DEF Drawn
<1>3. i \in 1..Len(Document(s))
  <2>1. Len(Document(s)) \in Nat /\ Len(t) \in Nat
    BY <1>2, DocumentLayout, WholeIsPrefix DEF Good, Drawn
  <2> QED  BY <1>1, <1>2, <2>1
<1>4. Tells(t[i], s, i)  BY <1>2, <1>3, CellTells
<1> QED  BY <1>1, <1>2, <1>4

\* Such a text is never taken for another version.
LEMMA DrawnIsOfThisVersion ==
  ASSUME NEW t, NEW H, Drawn(t, H)
  PROVE  schema_result(t) \in {-1, 0}
<1>1. CASE Tag(t, 1) # "schema"  BY <1>1 DEF schema_result
<1>2. CASE Tag(t, 1) = "schema"
  <2>1. PICK s : Tells(t[1], s, 1)  BY <1>2, Draw
  <2>2. t[1][1] = "schema"  BY <1>2, Draw
  <2>3. t[1] = <<"schema", SchemaName>>  BY <2>1, <2>2 DEF Tells
  <2> QED  BY <1>2, <2>3 DEF schema_result
<1> QED  BY <1>1, <1>2

\* The kind of a cell says what is in it, except for the names, the counts, the
\* fingerprint and the digest.
LEMMA DrawnCell ==
  ASSUME NEW t, NEW H, Drawn(t, H), NEW i
  PROVE  /\ Tag(t, i) = "schema"   => t[i] = <<"schema", SchemaName>>
         /\ Tag(t, i) = "identity" => t[i] = <<"identity", Null>>
         /\ Tag(t, i) = "char"     => t[i] = <<"char", t[i][2]>>
         /\ Tag(t, i) = "outcome"  => t[i] = <<"outcome", t[i][2]>>
         /\ Tag(t, i) = "reason"   => t[i] = <<"reason", t[i][2]>>
         /\ Tag(t, i) = "stage"    => t[i] = <<"stage", Null>>
         /\ Tag(t, i) = "first_diagnostic" => t[i] = <<"first_diagnostic", Null>>
         /\ Tag(t, i) = "checks"   => t[i] = <<"checks", <<t[i][2][1], t[i][2][2]>> >>
         /\ Tag(t, i) = "fingerprint" => t[i] = <<"fingerprint", t[i][2]>> /\ t[i][2] # Null
         /\ Tag(t, i) = "digest"   => t[i] = <<"digest", t[i][2]>>
         /\ Tag(t, i) = "does_not_prove" => t[i] = <<"does_not_prove", Null>>
         /\ Tag(t, i) = "end"      => t[i] = <<"end", Null>>
<1>1. CASE Tag(t, i) = "nul"  BY <1>1
<1>2. CASE Tag(t, i) # "nul"
  <2>1. Tag(t, i) = t[i][1]  BY <1>2, Draw
  <2>2. PICK s : Tells(t[i], s, i)  BY <1>2, Draw
  <2>3. /\ t[i][1] = "schema"   => t[i] = <<"schema", SchemaName>>
        /\ t[i][1] = "identity" => t[i] = <<"identity", Null>>
        /\ t[i][1] = "char"     => t[i] = <<"char", t[i][2]>>
        /\ t[i][1] = "outcome"  => t[i] = <<"outcome", t[i][2]>>
        /\ t[i][1] = "reason"   => t[i] = <<"reason", t[i][2]>>
        /\ t[i][1] = "stage"    => t[i] = <<"stage", Null>>
    BY <2>2 DEF Tells
  <2>4. /\ t[i][1] = "first_diagnostic" => t[i] = <<"first_diagnostic", Null>>
        /\ t[i][1] = "checks"   => t[i] = <<"checks", <<t[i][2][1], t[i][2][2]>> >>
        /\ t[i][1] = "fingerprint" => t[i] = <<"fingerprint", t[i][2]>> /\ t[i][2] # Null
        /\ t[i][1] = "digest"   => t[i] = <<"digest", t[i][2]>>
        /\ t[i][1] = "does_not_prove" => t[i] = <<"does_not_prove", Null>>
        /\ t[i][1] = "end"      => t[i] = <<"end", Null>>
    BY <2>2 DEF Tells
  <2> QED  BY <2>1, <2>3, <2>4
<1> QED  BY <1>1, <1>2

\* Two sequences in which the document of r is laid out have the same cells.
LEMMA LaidTwice ==
  ASSUME NEW r, Good(r), NEW d, Laid(d, r), NEW t, Laid(t, r), NEW i \in 1..AtEnd(r)
  PROVE  t[i] = d[i]
<1>1. ASSUME NEW k, NEW x, TextFrom(d, k, x), TextFrom(t, k, x),
             \E j \in 1..Len(TextCells(x)) : i = k + j
      PROVE  t[i] = d[i]
  BY <1>1 DEF TextFrom
<1>2. CASE i \in {1, 2, AtOutcome(r), AtOutcome(r) + 1, AtOutcome(r) + 2, AtFirst(r), AtChecks(r)}
  BY <1>2 DEF Laid
<1>3. CASE i \in {AtDigest(r), AtDigest(r) + 1, AtEnd(r)}
  BY <1>3 DEF Laid
<1>4. CASE r.fingerprint # Null /\ i = AtChecks(r) + 1
  BY <1>4 DEF Laid
<1>5. /\ TextFrom(d, 2, r.identity) /\ TextFrom(t, 2, r.identity)
      /\ TextFrom(d, AtOutcome(r) + 2, r.failed_stage) /\ TextFrom(t, AtOutcome(r) + 2, r.failed_stage)
      /\ TextFrom(d, AtFirst(r), r.first_diagnostic) /\ TextFrom(t, AtFirst(r), r.first_diagnostic)
      /\ TextFrom(d, AtDigest(r) + 1, r.does_not_prove) /\ TextFrom(t, AtDigest(r) + 1, r.does_not_prove)
  BY DEF Laid
<1> QED  BY <1>1, <1>2, <1>3, <1>4, <1>5, Regions

\* The characters from cell i are the text found there, written out.
LEMMA TextWasWritten ==
  ASSUME NEW t, NEW H, Drawn(t, H), NEW k \in Nat, NEW x \in Seq(Char),
         TextAt(t, k + 1) = x, Fits(t, k + 1)
  PROVE  /\ Run(t, k + 1) = Len(x) /\ Len(TextCells(x)) = Len(x) /\ Len(x) \in Nat
         /\ TextFrom(t, k, x)
<1>1. IsSeq(t) /\ Len(t) \in Nat  BY WholeIsPrefix DEF Drawn
<1>2. k + 1 \in Nat \ {0}  OBVIOUS
<1>3. /\ Run(t, k + 1) \in Nat
      /\ \A j \in (k + 1)..((k + 1) + Run(t, k + 1) - 1) : Tag(t, j) = "char"
  BY <1>1, <1>2, RunFacts
<1>4. x = [j \in 1..Run(t, k + 1) |-> t[(k + 1) + j - 1][2]]  BY DEF TextAt
<1>5. Len(x) = Run(t, k + 1) /\ Len(x) \in Nat
  <2>1. DOMAIN x = 1..Run(t, k + 1)  BY <1>4
  <2>2. DOMAIN x = 1..Len(x) /\ Len(x) \in Nat  OBVIOUS
  <2> QED  BY <2>1, <2>2, <1>3
<1>6. Len(x) <= TextMax  BY <1>5 DEF Fits
<1>7. Len(TextCells(x)) = Len(x) /\ \A j \in 1..Len(x) : TextCells(x)[j] = <<"char", x[j]>>
  BY <1>6, TextCellsAre
<1>8. ASSUME NEW j \in 1..Len(x) PROVE t[k + j] = TextCells(x)[j]
  <2>1. k + j \in (k + 1)..((k + 1) + Run(t, k + 1) - 1) /\ (k + 1) + j - 1 = k + j
    BY <1>3, <1>5
  <2>2. Tag(t, k + j) = "char"  BY <1>3, <2>1
  <2>3. t[k + j] = <<"char", t[k + j][2]>>  BY <2>2, DrawnCell
  <2>4. x[j] = t[k + j][2]  BY <1>4, <1>5, <2>1
  <2> QED  BY <1>7, <2>3, <2>4
<1> QED  BY <1>5, <1>7, <1>8 DEF TextFrom

\* A name that is in the table stands for an enumerator with that name.
LEMMA ValueHasName ==
  ASSUME NEW name
  PROVE  /\ Named(OutcomeNames, name) =>
              /\ ValueOf(OutcomeNames, name) \in Nat
              /\ outcome_name(ValueOf(OutcomeNames, name)) = name
         /\ Named(FailureNames, name) =>
              /\ ValueOf(FailureNames, name) \in Nat
              /\ failure_reason_name(ValueOf(FailureNames, name)) = name
<1>1. ASSUME Named(OutcomeNames, name)
      PROVE  /\ ValueOf(OutcomeNames, name) \in Nat
             /\ outcome_name(ValueOf(OutcomeNames, name)) = name
  <2> DEFINE v == ValueOf(OutcomeNames, name)
  <2>1. v \in 0..ToolError /\ OutcomeNames[v + 1] = name  BY <1>1 DEF Named, ValueOf
  <2> HIDE DEF v
  <2>2. v \in Nat /\ outcome_name(v) = name  BY <2>1 DEF outcome_name, ToolError
  <2> QED  BY <2>2 DEF v
<1>2. ASSUME Named(FailureNames, name)
      PROVE  /\ ValueOf(FailureNames, name) \in Nat
             /\ failure_reason_name(ValueOf(FailureNames, name)) = name
  <2> DEFINE v == ValueOf(FailureNames, name)
  <2>1. v \in 0..ToolError /\ FailureNames[v + 1] = name  BY <1>2 DEF Named, ValueOf
  <2> HIDE DEF v
  <2>2. v \in Nat /\ failure_reason_name(v) = name  BY <2>1 DEF failure_reason_name, ToolError
  <2> QED  BY <2>2 DEF v
<1> QED  BY <1>1, <1>2

\* Receipts of one digest are one: it is taken over every field.
LEMMA DigestIsOfOne ==
  ASSUME NEW p, NEW r, receipt_is_valid(p), receipt_is_valid(r),
         p.outcome \in Nat, r.outcome \in Nat, p.failure_reason \in Nat, r.failure_reason \in Nat,
         receipt_digest(p) = receipt_digest(r)
  PROVE  Same(p, r)
<1>1. << p.identity, outcome_name(p.outcome), failure_reason_name(p.failure_reason),
         p.failed_stage, p.first_diagnostic, p.checks_attempted, p.checks_completed,
         p.fingerprint, p.does_not_prove >> =
      << r.identity, outcome_name(r.outcome), failure_reason_name(r.failure_reason),
         r.failed_stage, r.first_diagnostic, r.checks_attempted, r.checks_completed,
         r.fingerprint, r.does_not_prove >>
  BY DEF receipt_digest
<1>2. /\ p.identity = r.identity /\ outcome_name(p.outcome) = outcome_name(r.outcome)
      /\ failure_reason_name(p.failure_reason) = failure_reason_name(r.failure_reason)
      /\ p.failed_stage = r.failed_stage /\ p.first_diagnostic = r.first_diagnostic
      /\ p.checks_attempted = r.checks_attempted /\ p.checks_completed = r.checks_completed
      /\ p.fingerprint = r.fingerprint /\ p.does_not_prove = r.does_not_prove
  BY <1>1
<1>3. /\ outcome_name(p.outcome) # Null /\ outcome_name(r.outcome) # Null
      /\ failure_reason_name(p.failure_reason) # Null /\ failure_reason_name(r.failure_reason) # Null
  BY DEF receipt_is_valid
<1>4. p.outcome = r.outcome /\ p.failure_reason = r.failure_reason
  BY <1>2, <1>3, NameIsRead
<1> QED  BY <1>2, <1>4 DEF Same

\* Where the digest stands, when no text was refused.
LEMMA DigestPlace ==
  ASSUME NEW r, Good(r),
         Len(TextCells(r.identity)) = Len(r.identity),
         Len(TextCells(r.failed_stage)) = Len(r.failed_stage),
         Len(TextCells(r.first_diagnostic)) = Len(r.first_diagnostic)
  PROVE  DigestCell(r) = AtDigest(r)
<1>1. Len(r.identity) \in Nat /\ Len(r.failed_stage) \in Nat /\ Len(r.first_diagnostic) \in Nat
  BY GoodTexts, TextCellsAre
<1>2. AtChecks(r) = Len(r.identity) + 3 + 3 + Len(r.failed_stage) + 1 + Len(r.first_diagnostic)
  BY DEF AtChecks, AtFirst, AtOutcome
<1>3. AtDigest(r) = AtChecks(r) + 1 + (IF r.fingerprint = Null THEN 0 ELSE 1)
  BY DEF AtDigest
<1>4. DigestCell(r) = 7 + Len(r.identity) + Len(r.failed_stage) + Len(r.first_diagnostic)
                        + (IF r.fingerprint = Null THEN 0 ELSE 1) + 1
  BY DEF DigestCell
<1> DEFINE x == IF r.fingerprint = Null THEN 0 ELSE 1
           n1 == Len(r.identity)
           n2 == Len(r.failed_stage)
           n3 == Len(r.first_diagnostic)
<1>5. AtChecks(r) = n1 + 3 + 3 + n2 + 1 + n3 /\ AtDigest(r) = AtChecks(r) + 1 + x
  BY <1>2, <1>3
<1>6. DigestCell(r) = 7 + n1 + n2 + n3 + x + 1  BY <1>4
<1>7. n1 \in Nat /\ n2 \in Nat /\ n3 \in Nat /\ x \in Nat  BY <1>1
<1> HIDE DEF x, n1, n2, n3
<1> QED  BY <1>5, <1>6, <1>7

\* Splices: a text that is drawn from several documents and is found valid is the
\* whole document of one receipt, the one its digest is of.
LEMMA SpliceIsHeld ==
  ASSUME NEW t, NEW H, Drawn(t, H), validate_json(t).status = "valid"
  PROVE  \E r \in H : /\ Good(r) /\ Covers(t, Document(r))
                      /\ validate_json(t) = Validated(r)
<1> DEFINE p == Parsed(t)
           g == digestOf(t)
<1>1. /\ schema_result(t) = 0 /\ Parses(t) /\ receipt_is_valid(p)
      /\ receipt_digest(p) = t[g][2] /\ validate_json(t) = Validated(p)
  <2>1. \A s \in {"invalid", "bad-version", "bad-digest"} : Unvalidated(s).status # "valid"
    BY DEF Unvalidated
  <2>2. schema_result(t) \in {-1, 0}  BY DrawnIsOfThisVersion
  <2> QED  BY <2>1, <2>2, VerdictIs
<1>2. Tag(t, g) = "digest" /\ Tag(t, g) = t[g][1]
  <2>1. Tag(t, g) = "digest"  BY <1>1 DEF Parses
  <2> QED  BY <2>1, Draw
<1>3. PICK r : Good(r) /\ Tells(t[g], r, g) /\ (DigestCell(r) <= g => r \in H)
  BY <1>2, Draw
<1>4. g = AtDigest(r) /\ t[g] = <<"digest", receipt_digest(r)>>
  BY <1>2, <1>3 DEF Tells
<1>5. receipt_digest(p) = receipt_digest(r)  BY <1>1, <1>4
<1>6. Same(p, r)
  <2>1. p.outcome \in Nat /\ p.failure_reason \in Nat
    BY <1>1, ValueHasName DEF Parses, Parsed
  <2>2. receipt_is_valid(r) /\ r.outcome \in Nat /\ r.failure_reason \in Nat
    BY <1>3, ReceiptsAssumption DEF Good
  <2> HIDE DEF p
  <2> QED  BY <1>1, <1>5, <2>1, <2>2, DigestIsOfOne
<1>7. /\ TextAt(t, 3) = r.identity /\ TextAt(t, stageOf(t)) = r.failed_stage
      /\ TextAt(t, firstOf(t)) = r.first_diagnostic /\ TextAt(t, limitsOf(t)) = r.does_not_prove
      /\ t[checksOf(t)][2][1] = r.checks_attempted /\ t[checksOf(t)][2][2] = r.checks_completed
      /\ (IF presentIn(t) THEN t[checksOf(t) + 1][2] ELSE Null) = r.fingerprint
      /\ ValueOf(OutcomeNames, t[outcomeOf(t)][2]) = r.outcome
      /\ ValueOf(FailureNames, t[outcomeOf(t) + 1][2]) = r.failure_reason
  BY <1>6 DEF Same, Parsed
<1> HIDE DEF p, g
<1>8. /\ r.identity \in Seq(Char) /\ r.failed_stage \in Seq(Char)
      /\ r.first_diagnostic \in Seq(Char) /\ r.does_not_prove \in Seq(Char)
  BY <1>3, GoodTexts
<1>9. /\ Fits(t, 3) /\ Fits(t, stageOf(t)) /\ Fits(t, firstOf(t)) /\ Fits(t, limitsOf(t))
  BY <1>1 DEF Parses
<1>10. IsSeq(t) /\ Len(t) \in Nat  BY WholeIsPrefix DEF Drawn
<1>11. /\ outcomeOf(t) \in Nat /\ stageOf(t) \in Nat /\ firstOf(t) \in Nat /\ checksOf(t) \in Nat
       /\ digestOf(t) \in Nat /\ limitsOf(t) \in Nat /\ endOf(t) \in Nat
       /\ 7 <= firstOf(t)
  BY <1>10, ParsePlaces
<1>12. /\ Run(t, 3) = Len(TextCells(r.identity)) /\ Len(TextCells(r.identity)) = Len(r.identity)
       /\ Len(r.identity) \in Nat /\ TextFrom(t, 2, r.identity)
  <2>1. 2 + 1 = 3  OBVIOUS
  <2> QED  BY <1>7, <1>8, <1>9, <2>1, TextWasWritten
<1>13. outcomeOf(t) = AtOutcome(r)  BY <1>12 DEF outcomeOf, AtOutcome
<1>14. /\ Run(t, stageOf(t)) = Len(TextCells(r.failed_stage))
       /\ Len(TextCells(r.failed_stage)) = Len(r.failed_stage)
       /\ Len(r.failed_stage) \in Nat /\ TextFrom(t, AtOutcome(r) + 2, r.failed_stage)
  <2>1. (AtOutcome(r) + 2) + 1 = stageOf(t) /\ AtOutcome(r) + 2 \in Nat
    BY <1>11, <1>13 DEF stageOf
  <2> QED  BY <1>7, <1>8, <1>9, <2>1, TextWasWritten
<1>15. firstOf(t) = AtFirst(r) + 1 /\ firstOf(t) - 1 = AtFirst(r) /\ AtFirst(r) \in Nat
  <2>1. stageOf(t) = AtOutcome(r) + 3 /\ AtOutcome(r) \in Nat  BY <1>11, <1>13 DEF stageOf
  <2>2. firstOf(t) = AtOutcome(r) + 3 + Len(TextCells(r.failed_stage)) + 1
    BY <1>14, <2>1 DEF firstOf
  <2>3. AtFirst(r) = AtOutcome(r) + 3 + Len(TextCells(r.failed_stage))  BY DEF AtFirst
  <2>4. Len(TextCells(r.failed_stage)) \in Nat  BY <1>14
  <2> QED  BY <2>1, <2>2, <2>3, <2>4
<1>16. /\ Run(t, firstOf(t)) = Len(TextCells(r.first_diagnostic))
       /\ Len(TextCells(r.first_diagnostic)) = Len(r.first_diagnostic)
       /\ Len(r.first_diagnostic) \in Nat /\ TextFrom(t, AtFirst(r), r.first_diagnostic)
  BY <1>7, <1>8, <1>9, <1>15, TextWasWritten
<1>17. checksOf(t) = AtChecks(r)
  <2>1. checksOf(t) = firstOf(t) + Len(TextCells(r.first_diagnostic))  BY <1>16 DEF checksOf
  <2>2. Len(TextCells(r.first_diagnostic)) \in Nat  BY <1>16
  <2> QED  BY <1>15, <2>1, <2>2 DEF AtChecks
<1>18. presentIn(t) <=> r.fingerprint # Null
  <2>1. CASE presentIn(t)
    <3>1. t[checksOf(t) + 1][2] # Null  BY <2>1, DrawnCell DEF presentIn
    <3> QED  BY <1>7, <2>1, <3>1
  <2>2. CASE ~presentIn(t)  BY <1>7, <2>2
  <2> QED  BY <2>1, <2>2
<1>19. limitsOf(t) = AtDigest(r) + 2 /\ digestOf(t) = AtDigest(r) /\ AtDigest(r) \in Nat
  BY <1>4, <1>11 DEF limitsOf, g
<1>20. /\ Run(t, limitsOf(t)) = Len(TextCells(r.does_not_prove))
       /\ Len(TextCells(r.does_not_prove)) = Len(r.does_not_prove)
       /\ Len(r.does_not_prove) \in Nat /\ TextFrom(t, AtDigest(r) + 1, r.does_not_prove)
  <2>1. (AtDigest(r) + 1) + 1 = limitsOf(t) /\ AtDigest(r) + 1 \in Nat  BY <1>19
  <2> QED  BY <1>7, <1>8, <1>9, <2>1, TextWasWritten
<1>21. endOf(t) = AtEnd(r)
  <2>1. endOf(t) = AtDigest(r) + 2 + Len(TextCells(r.does_not_prove))  BY <1>19, <1>20 DEF endOf
  <2> QED  BY <2>1 DEF AtEnd
<1>22. Laid(t, r)
  <2>1. /\ Tag(t, 1) = "schema" /\ t[1][2] = SchemaName
    BY <1>1 DEF schema_result
  <2>2. t[1] = <<"schema", SchemaName>> /\ t[2] = <<"identity", Null>>
    BY <1>1, <2>1, DrawnCell DEF Parses
  <2>3. /\ t[AtOutcome(r)] = <<"outcome", outcome_name(r.outcome)>>
        /\ t[AtOutcome(r) + 1] = <<"reason", failure_reason_name(r.failure_reason)>>
        /\ t[AtOutcome(r) + 2] = <<"stage", Null>>
    <3>1. /\ Tag(t, AtOutcome(r)) = "outcome" /\ Tag(t, AtOutcome(r) + 1) = "reason"
          /\ Tag(t, AtOutcome(r) + 2) = "stage"
          /\ Named(OutcomeNames, t[AtOutcome(r)][2]) /\ Named(FailureNames, t[AtOutcome(r) + 1][2])
      BY <1>1, <1>13 DEF Parses
    <3>2. /\ t[AtOutcome(r)][2] = outcome_name(r.outcome)
          /\ t[AtOutcome(r) + 1][2] = failure_reason_name(r.failure_reason)
      BY <1>7, <1>13, <3>1, ValueHasName
    <3>3. /\ t[AtOutcome(r)] = <<"outcome", t[AtOutcome(r)][2]>>
          /\ t[AtOutcome(r) + 1] = <<"reason", t[AtOutcome(r) + 1][2]>>
          /\ t[AtOutcome(r) + 2] = <<"stage", Null>>
      BY <3>1, DrawnCell
    <3> QED  BY <3>2, <3>3
  <2>4. t[AtFirst(r)] = <<"first_diagnostic", Null>>
    <3>1. Tag(t, AtFirst(r)) = "first_diagnostic"  BY <1>1, <1>15 DEF Parses
    <3> QED  BY <3>1, DrawnCell
  <2>5. t[AtChecks(r)] = <<"checks", <<r.checks_attempted, r.checks_completed>> >>
    <3>1. Tag(t, AtChecks(r)) = "checks"  BY <1>1, <1>17 DEF Parses
    <3>2. t[AtChecks(r)] = <<"checks", <<t[AtChecks(r)][2][1], t[AtChecks(r)][2][2]>> >>
      BY <3>1, DrawnCell
    <3> QED  BY <1>7, <1>17, <3>2
  <2>6. r.fingerprint # Null => t[AtChecks(r) + 1] = <<"fingerprint", r.fingerprint>>
    <3>1. SUFFICES ASSUME r.fingerprint # Null
                   PROVE  t[AtChecks(r) + 1] = <<"fingerprint", r.fingerprint>>
      OBVIOUS
    <3>2. Tag(t, AtChecks(r) + 1) = "fingerprint" /\ t[AtChecks(r) + 1][2] = r.fingerprint
      BY <1>7, <1>17, <1>18, <3>1 DEF presentIn
    <3> QED  BY <3>2, DrawnCell
  <2>7. t[AtDigest(r)] = <<"digest", receipt_digest(r)>>  BY <1>4
  <2>8. t[AtDigest(r) + 1] = <<"does_not_prove", Null>>
    <3>1. Tag(t, AtDigest(r) + 1) = "does_not_prove"  BY <1>1, <1>19 DEF Parses
    <3> QED  BY <3>1, DrawnCell
  <2>9. t[AtEnd(r)] = <<"end", Null>>
    <3>1. Tag(t, AtEnd(r)) = "end"  BY <1>1, <1>21 DEF Parses
    <3> QED  BY <3>1, DrawnCell
  <2> QED  BY <1>12, <1>14, <1>16, <1>20, <2>2, <2>3, <2>4, <2>5, <2>6, <2>7, <2>8, <2>9 DEF Laid
<1>23. Covers(t, Document(r))
  <2>1. Layout(Document(r), r)  BY <1>3, DocumentLayout DEF Good
  <2>2. Len(Document(r)) = AtEnd(r) /\ Laid(Document(r), r)  BY <2>1 DEF Layout
  <2>3. AtEnd(r) \in 1..Len(t) /\ Tag(t, AtEnd(r) + 1) = "nul"
    <3>1. Tag(t, AtEnd(r)) = "end" /\ Tag(t, AtEnd(r) + 1) = "nul"  BY <1>1, <1>21 DEF Parses
    <3> QED  BY <3>1 DEF Tag
  <2>4. ASSUME NEW i \in 1..AtEnd(r) PROVE t[i] = Document(r)[i] /\ Document(r)[i] # TooLong
    <3>1. t[i] = Document(r)[i]  BY <1>3, <1>22, <2>2, LaidTwice
    <3>2. i \in 1..Len(t)  BY <1>10, <2>3
    <3>3. t[i] # TooLong  BY <3>2 DEF Drawn
    <3> QED  BY <3>1, <3>3
  <2> QED  BY <1>10, <2>2, <2>3, <2>4 DEF Covers
<1>24. r \in H
  <2>1. DigestCell(r) = AtDigest(r)  BY <1>3, <1>12, <1>14, <1>16, DigestPlace
  <2> QED  BY <1>3, <1>4, <1>19, <2>1
<1> QED  BY <1>3, <1>23, <1>24, ReadsBack

-----------------------------------------------------------------------------
(* What the file holds, and what has been read of it.                      *)

\* No cell of c is where writing stopped.
NothingRefused(c) == \A i \in 1..Len(c) : c[i] # TooLong

\* The sequence s is the beginning of t.
Begins(s, t) ==
  IsSeq(s) /\ IsSeq(t) /\ Len(s) <= Len(t) /\ \A i \in 1..Len(s) : s[i] = t[i]

LEMMA PrefixBegins ==
  ASSUME NEW s, NEW t, IsSeq(s), IsSeq(t)
  PROVE  IsPrefix(s, t) <=> Begins(s, t)
<1>1. Len(s) \in Nat /\ Len(t) \in Nat /\ SubSeq(s, 1, Len(s)) = s  BY WholeIsPrefix
<1>2. CASE ~(Len(s) <= Len(t))  BY <1>2 DEF IsPrefix, Begins
<1>3. CASE Len(s) <= Len(t)
  <2>1. PICK T : t \in Seq(T)  BY DEF IsSeq
  <2>2. PICK S : s \in Seq(S)  BY DEF IsSeq
  <2> DEFINE u == SubSeq(t, 1, Len(s))
  <2>3. u \in Seq(T) /\ Len(u) = Len(s) /\ \A i \in 1..Len(s) : u[i] = t[i]
    BY <1>1, <1>3, <2>1
  <2>4. s \in Seq(S \cup T) /\ u \in Seq(S \cup T)  BY <2>2, <2>3
  <2> HIDE DEF u
  <2>5. ASSUME \A i \in 1..Len(s) : s[i] = t[i] PROVE s = u
    <3>1. \A i \in 1..Len(s) : s[i] = u[i]  BY <2>3, <2>5
    <3> QED  BY <2>3, <2>4, <3>1, SeqEqual
  <2>6. (s = u) <=> \A i \in 1..Len(s) : s[i] = t[i]  BY <2>3, <2>5
  <2> QED  BY <1>1, <1>3, <2>6 DEF IsPrefix, Begins, u
<1> QED  BY <1>2, <1>3

\* A text that covers a document holds it.
LEMMA CoveringHolds ==
  ASSUME NEW r, Good(r), NEW t, Covers(t, Document(r))
  PROVE  r \in Holding(t)
<1>1. IsSeq(Document(r)) /\ IsSeq(t)  BY DocumentIsSeq DEF Good, Covers
<1>2. Begins(Document(r), t)  BY <1>1 DEF Covers, Begins
<1> QED  BY <1>1, <1>2, PrefixBegins DEF Covers, Good, Holding

LEMMA DigestCellIsNat ==
  ASSUME NEW r, Good(r)
  PROVE  DigestCell(r) \in Nat
<1>1. Len(r.identity) \in Nat /\ Len(r.failed_stage) \in Nat /\ Len(r.first_diagnostic) \in Nat
  BY GoodTexts, TextCellsAre
<1> DEFINE x == IF r.fingerprint = Null THEN 0 ELSE 1
           n1 == Len(r.identity)
           n2 == Len(r.failed_stage)
           n3 == Len(r.first_diagnostic)
<1>2. DigestCell(r) = 7 + n1 + n2 + n3 + x + 1  BY DEF DigestCell
<1>3. n1 \in Nat /\ n2 \in Nat /\ n3 \in Nat /\ x \in Nat  BY <1>1
<1> HIDE DEF x, n1, n2, n3
<1> QED  BY <1>2, <1>3

\* What has come up to the digest is held to the digest.
LEMMA PartHoldsDigest ==
  ASSUME NEW r, NEW c, PartOf(c, r), DigestCell(r) <= Len(c)
  PROVE  r \in HoldingDigest(c)
<1> DEFINE d == Document(r)
           n == DigestCell(r)
           u == SubSeq(d, 1, n)
<1>1. IsSeq(c) /\ Good(r) /\ IsSeq(d) /\ Len(c) \in Nat /\ Len(d) \in Nat /\ Len(c) <= Len(d)
  BY DocumentIsSeq, WholeIsPrefix DEF PartOf, Good
<1>2. n \in Nat  BY <1>1, DigestCellIsNat
<1>3. n <= Len(c)  OBVIOUS
<1>4. \A i \in 1..Len(c) : c[i] = d[i]  BY DEF PartOf
<1> HIDE DEF d, n
<1>5. PICK D : d \in Seq(D)  BY <1>1 DEF IsSeq
<1>6. u \in Seq(D) /\ Len(u) = n /\ \A i \in 1..n : u[i] = d[i]
  BY <1>1, <1>2, <1>3, <1>5
<1>7. IsSeq(u)  BY <1>6 DEF IsSeq
<1>8. \A i \in 1..n : u[i] = c[i]  BY <1>1, <1>2, <1>3, <1>4, <1>6
<1>9. IsPrefix(u, c)
  <2>1. Begins(u, c)  BY <1>1, <1>3, <1>6, <1>7, <1>8 DEF Begins
  <2> QED  BY <1>1, <1>7, <2>1, PrefixBegins
<1> QED  BY <1>1, <1>9 DEF HoldingDigest, Good, d, n

\* What the file holds comes from one document; what of it reaches the digest
\* while the command has the file open is held.
FileInv ==
  /\ BufferInv /\ ErrorInv
  /\ tool \in {"write", "close"} => generation > 0
  /\ tool = "close" => \A i \in 1..written : Document(receipt)[i] # TooLong
  /\ generation > 0 => file = <<>> \/ PartOf(file, receipt)
  /\ file # NoFile \/ fdOpen => IsSeq(file) /\ NothingRefused(file)
  /\ fdOpen /\ generation > 0 /\ file # <<>> /\ PartOf(file, receipt)
       /\ DigestCell(receipt) <= Len(file) => receipt \in held

LEMMA FileInit == Init => FileInv
<1> SUFFICES ASSUME Init PROVE FileInv  OBVIOUS
<1>1. ASSUME file # NoFile PROVE NothingRefused(file)
  <2>1. file \in Foreign  BY <1>1 DEF Init
  <2>2. file \in Seq({file[i] : i \in 1..Len(file)} \ {TooLong})  BY <2>1, ForeignAssumption
  <2>3. \A i \in 1..Len(file) : file[i] \in {file[j] : j \in 1..Len(file)} \ {TooLong}
    BY <2>2
  <2> QED  BY <2>3 DEF NothingRefused
<1>2. BufferInv /\ ErrorInv  BY BufferInit, ErrorInit
<1> QED  BY <1>1, <1>2 DEF Init, FileInv, BufferInv

LEMMA FileStep == FileInv /\ [Next]_vars => FileInv'
<1> SUFFICES ASSUME FileInv, [Next]_vars PROVE FileInv'  OBVIOUS
<1>0. BufferInv' /\ ErrorInv'  BY BufferStep, ErrorStep DEF FileInv
<1>1. ASSUME NEW r \in Receipts, ToolOpen(r) PROVE FileInv'
  <2>1. file' = <<>> /\ generation' = generation + 1 /\ tool' = "write"  BY <1>1 DEF ToolOpen
  <2>2. generation \in Nat  BY DEF FileInv, BufferInv, TypeOK
  <2>3. IsSeq(<<>>) /\ NothingRefused(<<>>)  BY EmptyIsSeq DEF NothingRefused
  <2> QED  BY <1>0, <2>1, <2>2, <2>3 DEF FileInv
<1>2. CASE ToolWrite
  <2>1. /\ tool = "write" /\ tool' = "close" /\ receipt' = receipt
        /\ UNCHANGED <<file, generation, fdOpen, held>>
    BY <1>2 DEF ToolWrite, fileVars, cliVars
  <2>2. \A i \in 1..written' : Document(receipt)[i] # TooLong  BY <1>2 DEF ToolWrite
  <2> QED  BY <1>0, <2>1, <2>2 DEF FileInv
<1>3. CASE Flush
  <2>1. PICK n \in (Len(file) + 1)..written : file' = SubSeq(Document(receipt), 1, n)
    BY <1>3 DEF Flush
  <2>2. /\ tool = "close" /\ UNCHANGED <<tool, receipt, written, generation, fdOpen>>
        /\ held' = IF fdOpen THEN held \cup HoldingDigest(file') ELSE held
    BY <1>3 DEF Flush, toolVars, cliVars
  <2>3. n \in 1..written /\ written \in Nat /\ Good(receipt) /\ written <= Len(Document(receipt))
    BY <2>1, <2>2 DEF FileInv, BufferInv, WriterInv, Good
  <2>4. IsSeq(Document(receipt)) /\ Len(Document(receipt)) \in Nat
    BY <2>3, DocumentIsSeq, WholeIsPrefix DEF Good
  <2>5. n \in 0..Len(Document(receipt)) /\ n \in Nat  BY <2>3, <2>4
  <2>6. IsSeq(file') /\ Len(file') = n  BY <2>1, <2>4, <2>5, PrefixIsSeq
  <2>7. \A i \in 1..n : file'[i] = Document(receipt)[i]
    <3>1. PICK D : Document(receipt) \in Seq(D)  BY <2>4 DEF IsSeq
    <3> QED  BY <2>1, <2>5, <3>1
  <2>8. \A i \in 1..n : Document(receipt)[i] # TooLong
    <3>1. \A i \in 1..n : i \in 1..written  BY <2>3
    <3> QED  BY <2>2, <3>1 DEF FileInv
  <2>9. PartOf(file', receipt) /\ NothingRefused(file')
    BY <2>3, <2>5, <2>4, <2>6, <2>7, <2>8 DEF PartOf, NothingRefused
  <2>10. fdOpen /\ DigestCell(receipt) <= Len(file') => receipt \in held'
    BY <2>2, <2>9, PartHoldsDigest
  <2> QED  BY <1>0, <2>2, <2>6, <2>9, <2>10 DEF FileInv
<1>4. CASE ToolClose \/ ToolCloseFails \/ ToolKilled
  <2>1. tool' \in {"exited", "killed"} /\ UNCHANGED <<file, generation, receipt, fdOpen, held>>
    BY <1>4 DEF ToolClose, ToolCloseFails, ToolKilled, ToolExits, fileVars, cliVars
  <2> QED  BY <1>0, <2>1 DEF FileInv
<1>5. CASE Open
  <2>1. /\ UNCHANGED <<fileVars, toolVars>> /\ file # NoFile /\ held' = HoldingDigest(file)
    BY <1>5 DEF Open
  <2>2. PartOf(file, receipt) /\ DigestCell(receipt) <= Len(file) => receipt \in held'
    BY <2>1, PartHoldsDigest
  <2> QED  BY <1>0, <2>1, <2>2 DEF FileInv, fileVars, toolVars
<1>6. ASSUME UNCHANGED <<fileVars, toolVars, held>>, fdOpen' => fdOpen PROVE FileInv'
  BY <1>0, <1>6 DEF FileInv, fileVars, toolVars
<1>7. CASE CliNoReceipt \/ CliStart \/ OpenFails \/ StatFails \/ Stat \/ Read \/ ReadInterrupted
           \/ ReadFails \/ ValidateFails \/ Validate \/ Close \/ CloseFails \/ CliReport
  BY <1>6, <1>7 DEF CliNoReceipt, CliStart, OpenFails, StatFails, Stat, Read, ReadInterrupted,
     ReadFails, ValidateFails, Validate, Close, CloseFails, CliReport
<1>8. CASE UNCHANGED vars  BY <1>6, <1>8 DEF vars, cliVars
<1> QED  BY <1>1, <1>2, <1>3, <1>4, <1>5, <1>7, <1>8 DEF Next, ToolStep, CliStep

\* A call of validate_file has set the verdict and does not fail any more.
Answered ==
  /\ result = 0 /\ mode # Null
  /\ cli \in {"close", "returned", "exited"}

\* It has opened the file, and has not failed.
Opened == cli \in {"stat", "read", "validate"} \/ Answered

\* What was read, when the file is of this library: cells of documents, the
\* digests of receipts that were held.  When nothing has truncated the file since,
\* it is what the file begins with.
TextInv ==
  /\ FileInv
  /\ cli = "start" => mode = Null
  /\ cli \in {"open", "stat", "read", "validate", "close", "returned"} => mode # Null
  /\ NothingRefused(text)
  /\ Opened /\ openedAt > 0 => Drawn(text, held)
  /\ Opened /\ generation = openedAt => Begins(text, file)
  /\ cli = "validate" \/ Answered => Len(text) = size
  /\ Answered => validation = validate_json(text)

LEMMA EmptyBegins ==
  ASSUME NEW c, IsSeq(c), NEW H
  PROVE  Begins(<<>>, c) /\ Drawn(<<>>, H) /\ NothingRefused(<<>>) /\ Len(<<>>) = 0
<1>1. Len(c) \in Nat  BY WholeIsPrefix
<1>2. IsSeq(<<>>) /\ Len(<<>>) = 0 /\ 1..0 = {}  BY EmptyIsSeq
<1> QED  BY <1>1, <1>2 DEF Begins, Drawn, NothingRefused

LEMMA TextInit == Init => TextInv
<1> SUFFICES ASSUME Init PROVE TextInv  OBVIOUS
<1>1. FileInv  BY FileInit
<1>2. NothingRefused(text)  BY EmptyBegins, EmptyIsSeq DEF Init
<1> QED  BY <1>1, <1>2 DEF Init, TextInv, Opened, Answered

\* A sequence that goes on still begins as it did.
LEMMA StillBegins ==
  ASSUME NEW s, NEW t, NEW u, Begins(s, t), Begins(t, u)
  PROVE  Begins(s, u)
<1>1. Len(s) \in Nat /\ Len(t) \in Nat /\ Len(u) \in Nat  BY WholeIsPrefix DEF Begins
<1>2. \A i \in 1..Len(s) : i \in 1..Len(t)  BY <1>1 DEF Begins
<1> QED  BY <1>1, <1>2 DEF Begins

\* More is held later.
LEMMA DrawnFromMore ==
  ASSUME NEW t, NEW H, NEW K, Drawn(t, H), H \subseteq K
  PROVE  Drawn(t, K)
  BY DEF Drawn

\* The tool's steps that leave the file be, and the command's that read nothing.
LEMMA TextStays ==
  ASSUME TextInv, FileInv', UNCHANGED <<generation, mode, openedAt, text, size>>,
         held \subseteq held',
         cli' \in {"start", "open", "stat", "read", "validate", "close", "returned", "exited"},
         cli' = "start" => cli = "start",
         cli' \in {"open", "stat", "read", "validate", "close", "returned"} => mode # Null,
         Opened' => Opened, Opened' => Begins(file, file'),
         cli' = "validate" \/ Answered' => cli = "validate" \/ Answered,
         Answered' => validation' = validate_json(text)
  PROVE  TextInv'
<1>1. Opened' /\ openedAt' > 0 => Drawn(text', held')  BY DrawnFromMore DEF TextInv
<1>2. Opened' /\ generation' = openedAt' => Begins(text', file')
  BY StillBegins DEF TextInv
<1> QED  BY <1>1, <1>2 DEF TextInv

LEMMA TextStep == TextInv /\ [Next]_vars => TextInv'
<1> SUFFICES ASSUME TextInv, [Next]_vars PROVE TextInv'  OBVIOUS
<1>0. FileInv'  BY FileStep DEF TextInv
<1>1. /\ openedAt \in 0..generation /\ generation \in Nat /\ IsSeq(text) /\ Len(text) \in Nat
      /\ cli \in {"start", "open", "stat", "read", "validate", "close", "returned", "exited"}
      /\ cli \in {"start", "open", "stat"} => text = <<>>
      /\ cli \in {"start", "open", "stat", "read", "validate"} => result = 0
      /\ fdOpen <=> cli \in {"stat", "read", "validate", "close"}
      /\ fdOpen => IsSeq(file) /\ NothingRefused(file)
  <2>1. BufferInv /\ ErrorInv  BY DEF TextInv, FileInv
  <2>2. Len(text) \in Nat  BY <2>1, WholeIsPrefix DEF BufferInv
  <2> QED  BY <2>1, <2>2 DEF BufferInv, TypeOK, ErrorInv, TextInv, FileInv
<1>2. ASSUME NEW r \in Receipts, ToolOpen(r) PROVE TextInv'
  <2>1. generation' = generation + 1 /\ UNCHANGED <<cliVars, held>>  BY <1>2 DEF ToolOpen
  <2>2. generation' # openedAt'  BY <1>1, <2>1 DEF cliVars
  <2> QED  BY <1>0, <2>1, <2>2 DEF TextInv, Opened, Answered, cliVars
<1>3. CASE Flush
  <2>1. PICK n \in (Len(file) + 1)..written : file' = SubSeq(Document(receipt), 1, n)
    BY <1>3 DEF Flush
  <2>2. tool = "close" /\ UNCHANGED <<generation, toolVars, cliVars>> /\ held \subseteq held'
    BY <1>3 DEF Flush
  <2>3. /\ n \in 1..written /\ written \in Nat /\ Good(receipt) /\ written <= Len(Document(receipt))
        /\ file = <<>> \/ file = SubSeq(Document(receipt), 1, Len(file))
        /\ Len(file) \in 0..written
    BY <2>1, <2>2 DEF TextInv, FileInv, BufferInv, WriterInv, Good
  <2>4. IsSeq(Document(receipt)) /\ Len(Document(receipt)) \in Nat
    BY <2>3, DocumentIsSeq, WholeIsPrefix DEF Good
  <2>5. Begins(file, file')
    <3>1. n \in 0..Len(Document(receipt)) /\ Len(file) \in 0..Len(Document(receipt)) /\ Len(file) <= n
      BY <2>1, <2>3, <2>4
    <3>2. IsSeq(file') /\ Len(file') = n  BY <2>1, <2>4, <3>1, PrefixIsSeq
    <3>3. CASE file = <<>>  BY <3>2, <3>3, EmptyBegins
    <3>4. CASE file = SubSeq(Document(receipt), 1, Len(file))
      <4>1. IsSeq(file)  BY <2>4, <3>1, <3>4, PrefixIsSeq
      <4>2. PICK D : Document(receipt) \in Seq(D)  BY <2>4 DEF IsSeq
      <4>3. \A i \in 1..n : file'[i] = Document(receipt)[i]  BY <2>1, <2>4, <3>1, <4>2
      <4>4. \A i \in 1..Len(file) : file[i] = Document(receipt)[i]  BY <2>4, <3>1, <3>4, <4>2
      <4>5. \A i \in 1..Len(file) : i \in 1..n  BY <3>1
      <4> QED  BY <3>1, <3>2, <4>1, <4>3, <4>4, <4>5 DEF Begins
    <3> QED  BY <2>3, <3>3, <3>4
  <2>6. (Opened' <=> Opened) /\ (Answered' <=> Answered)  BY <2>2 DEF cliVars, Opened, Answered
  <2> QED  BY <1>0, <1>1, <2>2, <2>5, <2>6, TextStays DEF cliVars, TextInv
<1>4. ASSUME UNCHANGED <<fileVars, held, cliVars>> PROVE TextInv'
  BY <1>0, <1>4 DEF TextInv, Opened, Answered, fileVars, cliVars
<1>5. CASE ToolWrite \/ ToolClose \/ ToolCloseFails \/ ToolKilled
  BY <1>4, <1>5 DEF ToolWrite, ToolClose, ToolCloseFails, ToolKilled, ToolExits
<1>6. CASE CliNoReceipt \/ CliStart
  <2>1. CASE CliNoReceipt
    <3>1. cli' = "exited" /\ mode' = Null /\ text' = text
      BY <2>1 DEF CliNoReceipt, Exit, TextInv
    <3> QED  BY <1>0, <3>1 DEF TextInv, Opened, Answered
  <2>2. CASE CliStart
    <3>1. cli' = "open" /\ mode' # Null /\ text' = text
      BY <2>2, ModesAssumption DEF CliStart
    <3> QED  BY <1>0, <3>1 DEF TextInv, Opened, Answered
  <2> QED  BY <1>6, <2>1, <2>2
<1>7. CASE OpenFails \/ StatFails \/ ReadFails \/ ValidateFails
  <2>1. /\ cli' \in {"close", "returned"} /\ result' = -1 /\ UNCHANGED <<text, mode>>
        /\ cli \in {"open", "stat", "read", "validate"}
    BY <1>7 DEF OpenFails, StatFails, ReadFails, ValidateFails, Fail
  <2>2. ~Opened' /\ ~Answered'  BY <2>1 DEF Opened, Answered
  <2> QED  BY <1>0, <2>1, <2>2 DEF TextInv
<1>8. CASE Open
  <2>1. /\ cli = "open" /\ cli' = "stat" /\ UNCHANGED <<text, mode, file>> /\ file # NoFile
    BY <1>8 DEF Open, fileVars
  <2>2. text' = <<>> /\ IsSeq(file) /\ mode # Null  BY <1>1, <2>1 DEF TextInv, FileInv
  <2>3. Drawn(text', held') /\ Begins(text', file')  BY <2>1, <2>2, EmptyBegins
  <2> QED  BY <1>0, <2>1, <2>2, <2>3 DEF TextInv, Opened, Answered
<1>9. CASE Stat
  <2>1. /\ cli = "stat" /\ cli' \in {"validate", "read"} /\ (cli' = "validate" => size' = 0)
        /\ UNCHANGED <<text, mode, fileVars, held, openedAt>> /\ text = <<>> /\ mode # Null
    BY <1>1, <1>9 DEF Stat, TextInv
  <2>2. Len(text) = 0 /\ text' = text /\ file' = file /\ generation' = generation
    BY <2>1 DEF fileVars
  <2>3. /\ openedAt > 0 => Drawn(text, held)
        /\ generation = openedAt => Begins(text, file)
    BY <2>1 DEF TextInv, Opened
  <2>4. ~Answered' /\ (cli' = "validate" => Len(text') = size')
    BY <2>1, <2>2 DEF Answered
  <2>5. NothingRefused(text) /\ mode' # Null /\ held' = held /\ openedAt' = openedAt
    BY <2>1 DEF TextInv
  <2> QED  BY <1>0, <2>1, <2>2, <2>3, <2>4, <2>5 DEF TextInv
<1>10. CASE Read
  <2>1. /\ cli = "read" /\ UNCHANGED <<fileVars, mode, size, held, openedAt>>
        /\ cli' = IF Len(text') = size THEN "validate" ELSE "read"
    BY <1>10 DEF Read
  <2>2. PICK n \in (Len(text) + 1)..size :
          n <= Len(file) /\ text' = text \o SubSeq(file, Len(text) + 1, n)
    BY <1>10 DEF Read
  <2>3. IsSeq(file) /\ NothingRefused(file) /\ Len(file) \in Nat /\ mode # Null /\ size \in Nat
    BY <1>1, <2>1, WholeIsPrefix, BoundsAssumption DEF TextInv, FileInv, BufferInv, TypeOK
  <2>4. /\ IsSeq(text') /\ Len(text') = n /\ n \in Nat
        /\ \A i \in 1..n : text'[i] = IF i <= Len(text) THEN text[i] ELSE file[i]
    <3>1. PICK S : text \in Seq(S)  BY <1>1 DEF IsSeq
    <3>2. PICK T : file \in Seq(T)  BY <2>3 DEF IsSeq
    <3> DEFINE m == Len(text)
               x == SubSeq(file, m + 1, n)
    <3>3. m \in Nat /\ n \in Nat /\ m < n /\ n <= Len(file)  BY <1>1, <2>2, <2>3
    <3>4. x \in Seq(T) /\ Len(x) = n - m /\ \A j \in 1..(n - m) : x[j] = file[m + j]
      <4>1. \A j \in 1..(n - m) : (m + 1) + j - 1 = m + j  BY <3>3
      <4> HIDE DEF m
      <4> QED  BY <2>3, <3>2, <3>3, <4>1
    <3>5. text \in Seq(S \cup T) /\ x \in Seq(S \cup T)  BY <3>1, <3>4
    <3>6. text' = text \o x /\ Len(text) = m  BY <2>2
    <3> HIDE DEF x, m
    <3>7. /\ text \o x \in Seq(S \cup T) /\ Len(text \o x) = m + (n - m)
          /\ \A i \in 1..(m + (n - m)) :
               (text \o x)[i] = IF i <= m THEN text[i] ELSE x[i - m]
      <4>1. /\ text \o x \in Seq(S \cup T) /\ Len(text \o x) = Len(text) + Len(x)
            /\ \A i \in 1..(Len(text) + Len(x)) :
                 (text \o x)[i] = IF i <= Len(text) THEN text[i] ELSE x[i - Len(text)]
        BY <3>5, ConcatProperties
      <4>2. Len(text) = m /\ Len(x) = n - m  BY <3>4, <3>6
      <4> QED  BY <4>1, <4>2
    <3>8. m + (n - m) = n  BY <3>3
    <3>9. ASSUME NEW i \in 1..n, ~(i <= m) PROVE x[i - m] = file[i]
      <4>1. i - m \in 1..(n - m) /\ m + (i - m) = i  BY <3>3, <3>9
      <4> QED  BY <3>4, <4>1
    <3> QED  BY <3>3, <3>6, <3>7, <3>8, <3>9 DEF IsSeq
  <2>5. ASSUME NEW i \in 1..n, ~(i <= Len(text)) PROVE i \in 1..Len(file)
    BY <2>2, <2>3, <2>4
  <2>6. ASSUME NEW i \in 1..n, i <= Len(text) PROVE i \in 1..Len(text)
    BY <1>1, <2>4, <2>6
  <2>7. NothingRefused(text')
    BY <2>3, <2>4, <2>5, <2>6 DEF NothingRefused, TextInv
  <2>8. ASSUME openedAt > 0 PROVE Drawn(text', held)
    <3>1. Drawn(text, held)  BY <2>1, <2>8 DEF TextInv, Opened
    <3>2. generation > 0  BY <1>1, <2>8
    <3>3. file # <<>>
      <4>1. n \in 1..Len(file)  BY <1>1, <2>2, <2>3
      <4> QED  BY <4>1
    <3>4. /\ PartOf(file, receipt) /\ fdOpen
          /\ DigestCell(receipt) <= Len(file) => receipt \in held
      BY <1>1, <2>1, <3>2, <3>3 DEF TextInv, FileInv
    <3>5. Good(receipt) /\ Len(file) <= Len(Document(receipt)) /\ Len(Document(receipt)) \in Nat
      BY <3>4, DocumentIsSeq, WholeIsPrefix DEF PartOf, Good
    <3>6. ASSUME NEW i \in 1..n
          PROVE  \E s : /\ Good(s) /\ i <= Len(Document(s))
                        /\ text'[i] = Document(s)[i] /\ text'[i] # TooLong
                        /\ DigestCell(s) <= i => s \in held
      <4>1. CASE i <= Len(text)
        <5>1. i \in 1..Len(text) /\ text'[i] = text[i]  BY <2>4, <2>6, <4>1
        <5> QED  BY <3>1, <5>1 DEF Drawn
      <4>2. CASE ~(i <= Len(text))
        <5>1. i \in 1..Len(file) /\ text'[i] = file[i]  BY <2>4, <2>5, <4>2
        <5>2. file[i] = Document(receipt)[i] /\ file[i] # TooLong  BY <3>4, <5>1 DEF PartOf
        <5>3. i <= Len(file) /\ i \in Nat /\ i <= Len(Document(receipt))  BY <2>3, <3>5, <5>1
        <5>4. ASSUME DigestCell(receipt) <= i PROVE receipt \in held
          <6>1. DigestCell(receipt) \in Nat  BY <3>5, DigestCellIsNat
          <6>2. DigestCell(receipt) <= Len(file)  BY <2>3, <5>3, <5>4, <6>1
          <6> QED  BY <3>4, <6>2
        <5> QED  BY <3>5, <5>1, <5>2, <5>3, <5>4
      <4> QED  BY <4>1, <4>2
    <3> QED  BY <2>4, <3>6 DEF Drawn
  <2>9. ASSUME generation = openedAt PROVE Begins(text', file)
    <3>1. Begins(text, file)  BY <2>1, <2>9 DEF TextInv, Opened
    <3>2. \A i \in 1..n : text'[i] = file[i]  BY <2>4, <2>6, <3>1 DEF Begins
    <3> QED  BY <2>2, <2>3, <2>4, <3>2 DEF Begins
  <2>10. cli' = "validate" => Len(text') = size  BY <2>1
  <2> QED  BY <1>0, <2>1, <2>3, <2>7, <2>8, <2>9, <2>10 DEF TextInv, Opened, Answered, fileVars
<1>11. CASE ReadInterrupted
  <2>1. UNCHANGED <<fileVars, held, cli, mode, size, text, validation, result, openedAt>>
    BY <1>11 DEF ReadInterrupted
  <2> QED  BY <1>0, <2>1 DEF TextInv, Opened, Answered, fileVars
<1>12. CASE Validate
  <2>1. /\ cli = "validate" /\ cli' = "close" /\ validation' = validate_json(text)
        /\ UNCHANGED <<fileVars, held, mode, size, text, openedAt>>
    BY <1>12 DEF Validate
  <2> QED  BY <1>0, <2>1 DEF TextInv, Opened, Answered, fileVars
<1>13. CASE Close \/ CloseFails
  <2>1. /\ cli = "close" /\ cli' = "returned" /\ UNCHANGED <<fileVars, held, mode, size, text, validation, openedAt>>
        /\ result' = 0 => result = 0
    BY <1>13 DEF Close, CloseFails, Fail
  <2> QED  BY <1>0, <2>1 DEF TextInv, Opened, Answered, fileVars
<1>14. CASE CliReport
  <2>1. /\ cli = "returned" /\ cli' = "exited"
        /\ UNCHANGED <<fileVars, held, mode, size, text, validation, openedAt, result>>
    BY <1>14 DEF CliReport, Exit
  <2> QED  BY <1>0, <2>1 DEF TextInv, Opened, Answered, fileVars
<1>15. CASE UNCHANGED vars  BY <1>4, <1>15 DEF vars
<1> QED
  BY <1>2, <1>3, <1>5, <1>6, <1>7, <1>8, <1>9, <1>10, <1>11, <1>12, <1>13, <1>14, <1>15
     DEF Next, ToolStep, CliStep

-----------------------------------------------------------------------------
(* Verdicts.                                                               *)

LEMMA ReturnedAnswers ==
  ASSUME TextInv, Returned, result = 0
  PROVE  /\ Answered /\ Opened /\ validation = validate_json(text) /\ Len(text) = size
         /\ openedAt \in Nat /\ generation \in Nat /\ openedAt <= generation
<1>1. mode # Null  BY ModesAssumption DEF Returned
<1>2. openedAt \in 0..generation /\ generation \in Nat
  BY DEF TextInv, FileInv, BufferInv, TypeOK
<1> QED  BY <1>1, <1>2 DEF TextInv, Returned, Answered, Opened

\* "bad-version" is said only of a file that was not of this library when it was
\* opened: what has been read is cells of documents, of which the first is
\* always the same.
THEOREM VersionWasOld == Spec => []BadVersionWasOld
<1>1. ASSUME TextInv PROVE BadVersionWasOld
  <2>1. SUFFICES ASSUME Returned, result = 0, validation.status = "bad-version", openedAt # 0
                 PROVE  FALSE
    BY DEF BadVersionWasOld
  <2>2. Opened /\ validation = validate_json(text) /\ openedAt > 0
    BY <1>1, <2>1, ReturnedAnswers
  <2>3. Drawn(text, held)  BY <1>1, <2>2 DEF TextInv
  <2>4. schema_result(text) \in {-1, 0}  BY <2>3, DrawnIsOfThisVersion
  <2>5. /\ Unvalidated("invalid").status = "invalid" /\ Unvalidated("bad-digest").status = "bad-digest"
        /\ Validated(Parsed(text)).status = "valid"
    BY DEF Unvalidated, Validated
  <2> QED  BY <2>1, <2>2, <2>4, <2>5, VerdictIs
<1> QED  BY TextInit, TextStep, <1>1, PTL DEF Spec

\* "bad-digest" is said only when the file was opened for writing again during
\* the call: without that, what has been read is the beginning of one document,
\* and whether it is whole is told before its digest is looked at.
THEOREM DigestMeansRewritten == Spec => []BadDigestMeansRewritten
<1>1. ASSUME TextInv PROVE BadDigestMeansRewritten
  <2>1. SUFFICES ASSUME Returned, result = 0, validation.status = "bad-digest",
                        ~(openedAt < generation), openedAt # 0
                 PROVE  FALSE
    BY DEF BadDigestMeansRewritten
  <2>2. Opened /\ validation = validate_json(text) /\ generation = openedAt /\ generation > 0
    BY <1>1, <2>1, ReturnedAnswers
  <2>3. Begins(text, file)  BY <1>1, <2>2 DEF TextInv
  <2>4. CASE file = <<>>
    <3>1. Tag(text, 1) # "schema"
      <4>1. Len(text) \in Nat /\ Len(text) <= 0  BY <2>3, <2>4, WholeIsPrefix DEF Begins
      <4> QED  BY <4>1 DEF Tag
    <3>2. validate_json(text) = Unvalidated("invalid")  BY <3>1, VerdictIs DEF schema_result
    <3> QED  BY <2>1, <2>2, <3>2 DEF Unvalidated
  <2>5. CASE PartOf(file, receipt)
    <3>1. Len(text) \in Nat /\ Len(file) \in Nat /\ Len(Document(receipt)) \in Nat
      BY <2>3, <2>5, WholeIsPrefix, DocumentIsSeq DEF Begins, PartOf, Good
    <3>2. \A i \in 1..Len(text) : i \in 1..Len(file)  BY <2>3, <3>1 DEF Begins
    <3>3. PartOf(text, receipt)  BY <2>3, <2>5, <3>1, <3>2 DEF Begins, PartOf
    <3> QED  BY <2>1, <2>2, <3>3, PartIsRead
  <2> QED  BY <1>1, <2>2, <2>4, <2>5 DEF TextInv, FileInv
<1> QED  BY TextInit, TextStep, <1>1, PTL DEF Spec

\* A complete document, of any origin, that nothing has truncated since it was
\* opened is found valid, and the verdict says what its receipt says: all of it
\* has been read, and what is written is read back.
THEOREM CompleteAccepted == Spec => []CompleteIsAccepted
<1>1. ASSUME TextInv PROVE CompleteIsAccepted
  <2>1. SUFFICES ASSUME Returned, result = 0, generation = openedAt, size = Len(file),
                        NEW r \in Holding(file)
                 PROVE  validation = Validated(r)
    BY DEF CompleteIsAccepted
  <2>2. Opened /\ validation = validate_json(text) /\ Len(text) = Len(file)
    BY <1>1, <2>1, ReturnedAnswers
  <2>3. Begins(text, file) /\ NothingRefused(text)  BY <1>1, <2>1, <2>2 DEF TextInv
  <2>4. Good(r) /\ IsPrefix(Document(r), file) /\ Tag(file, Len(Document(r)) + 1) = "nul"
    BY DEF Holding, Good
  <2>5. /\ IsSeq(Document(r)) /\ IsSeq(file) /\ IsSeq(text) /\ Len(text) \in Nat
        /\ Len(Document(r)) \in Nat
    BY <2>3, <2>4, DocumentIsSeq, WholeIsPrefix DEF Begins, Good
  <2>6. Begins(Document(r), file)  BY <2>4, <2>5, PrefixBegins
  <2>7. \A i \in 1..Len(Document(r)) : i \in 1..Len(text)  BY <2>2, <2>5, <2>6 DEF Begins
  <2>8. \A i \in 1..Len(text) : text[i] = file[i] /\ text[i] # TooLong
    BY <2>3 DEF Begins, NothingRefused
  <2>9. Tag(text, Len(Document(r)) + 1) = "nul"  BY <2>2, <2>4, <2>8 DEF Tag
  <2>10. Covers(text, Document(r))
    BY <2>2, <2>5, <2>6, <2>7, <2>8, <2>9 DEF Covers, Begins
  <2> QED  BY <2>2, <2>4, <2>10, ReadsBack
<1> QED  BY TextInit, TextStep, <1>1, PTL DEF Spec

-----------------------------------------------------------------------------
(* Files that only this library writes.                                    *)

\* A file that exists has been written here, and 0 says that a valid verdict
\* was given.
OwnInv ==
  /\ TextInv
  /\ generation = 0 => file = NoFile
  /\ Opened => openedAt > 0
  /\ cli # "exited" => cliExit = Null
  /\ cliExit = 0 /\ mode # Null =>
       /\ cli = "exited" /\ result = 0 /\ validation.status = "valid"
       /\ mode = "require-clean" => validation.outcome = Clean

LEMMA OwnInit ==
  ASSUME Foreign = {}
  PROVE  Init => OwnInv
  BY TextInit, ModesAssumption DEF Init, OwnInv, Opened, Answered

\* The exit status 0 comes of a result and a verdict only.
LEMMA ZeroSays ==
  ASSUME NEW res, NEW v, NEW m, ExitStatus(res, v, m) = 0
  PROVE  res = 0 /\ v.status = "valid" /\ (m = "require-clean" => v.outcome = Clean)
  BY DEF ExitStatus, outcome_exit_status, Clean, Findings

LEMMA OwnStep ==
  ASSUME Foreign = {}
  PROVE  OwnInv /\ [Next]_vars => OwnInv'
<1> SUFFICES ASSUME OwnInv, [Next]_vars PROVE OwnInv'  OBVIOUS
<1>0. TextInv'  BY TextStep DEF OwnInv
<1>1. /\ generation \in Nat /\ (cli = "start" => mode = Null)
      /\ cli \in {"start", "open", "stat", "read", "validate"} => result = 0
  BY DEF OwnInv, TextInv, FileInv, BufferInv, TypeOK, ErrorInv
<1>2. ASSUME NEW r \in Receipts, ToolOpen(r) PROVE OwnInv'
  <2>1. generation' = generation + 1 /\ UNCHANGED cliVars  BY <1>2 DEF ToolOpen
  <2>2. generation' # 0  BY <1>1, <2>1
  <2> QED  BY <1>0, <2>1, <2>2 DEF OwnInv, Opened, Answered, cliVars
<1>3. CASE Flush
  <2>1. tool = "close" /\ generation' = generation /\ UNCHANGED cliVars  BY <1>3 DEF Flush
  <2>2. generation' # 0  BY <1>1, <2>1 DEF OwnInv, TextInv, FileInv
  <2> QED  BY <1>0, <2>1, <2>2 DEF OwnInv, Opened, Answered, cliVars
<1>4. ASSUME UNCHANGED <<fileVars, cliVars>> PROVE OwnInv'
  BY <1>0, <1>4 DEF OwnInv, Opened, Answered, fileVars, cliVars
<1>5. CASE ToolWrite \/ ToolClose \/ ToolCloseFails \/ ToolKilled
  BY <1>4, <1>5 DEF ToolWrite, ToolClose, ToolCloseFails, ToolKilled, ToolExits
<1>6. CASE CliNoReceipt
  <2>1. cli' = "exited" /\ mode' = Null /\ UNCHANGED fileVars
    BY <1>1, <1>6 DEF CliNoReceipt, Exit
  <2> QED  BY <1>0, <2>1 DEF OwnInv, Opened, Answered, fileVars
<1>7. ASSUME UNCHANGED <<fileVars, cliExit>>, cli # "exited", cli' # "exited", Opened' => openedAt' > 0
      PROVE  OwnInv'
  <2>1. cliExit' = Null /\ Null # 0  BY <1>7, ModesAssumption DEF OwnInv
  <2> QED  BY <1>0, <1>7, <2>1 DEF OwnInv, fileVars
<1>8. CASE Open
  <2>1. file # NoFile /\ openedAt' = generation /\ cli' = "stat" /\ cli = "open" /\ UNCHANGED <<fileVars, cliExit>>
    BY <1>8 DEF Open
  <2>2. openedAt' > 0  BY <1>1, <2>1 DEF OwnInv
  <2> QED  BY <1>7, <2>1, <2>2
<1>9. CASE CliStart \/ OpenFails \/ StatFails \/ ReadFails \/ ValidateFails
  <2>1. /\ cli # "exited" /\ cli' \in {"open", "close", "returned"}
        /\ (cli' = "open" \/ result' = -1) /\ UNCHANGED <<fileVars, cliExit>>
    BY <1>9 DEF CliStart, OpenFails, StatFails, ReadFails, ValidateFails, Fail
  <2>2. ~Opened' /\ UNCHANGED <<fileVars, cliExit>>
    BY <1>9, <2>1 DEF Opened, Answered, CliStart, OpenFails, StatFails, ReadFails, ValidateFails
  <2> QED  BY <1>7, <2>1, <2>2
<1>10. CASE Stat \/ Read \/ ReadInterrupted \/ Validate
  <2>1. /\ cli \in {"stat", "read", "validate"} /\ UNCHANGED <<fileVars, cliExit, openedAt>>
        /\ cli' \in {"stat", "read", "validate", "close"}
    BY <1>10 DEF Stat, Read, ReadInterrupted, Validate
  <2>2. openedAt > 0  BY <2>1 DEF OwnInv, Opened
  <2> QED  BY <1>7, <2>1, <2>2
<1>11. CASE Close \/ CloseFails
  <2>1. /\ cli = "close" /\ cli' = "returned" /\ UNCHANGED <<fileVars, cliExit, openedAt, mode>>
        /\ result' = 0 => result = 0
    BY <1>11 DEF Close, CloseFails, Fail
  <2>2. Opened' => openedAt' > 0  BY <2>1 DEF OwnInv, Opened, Answered
  <2> QED  BY <1>7, <2>1, <2>2
<1>12. CASE CliReport
  <2>1. /\ cli = "returned" /\ cli' = "exited"
        /\ UNCHANGED <<fileVars, held, mode, text, validation, openedAt, result>>
    BY <1>12 DEF CliReport, Exit
  <2>2. PICK v \in Reading(validation) : cliExit' = ExitStatus(result, v, mode)
    BY <1>12 DEF CliReport, Exit
  <2>3. ASSUME cliExit' = 0, mode # Null
        PROVE  /\ result = 0 /\ validation.status = "valid"
               /\ mode = "require-clean" => validation.outcome = Clean
    <3>1. result = 0 /\ v.status = "valid" /\ (mode = "require-clean" => v.outcome = Clean)
      BY <2>2, <2>3, ZeroSays
    <3>2. Answered /\ Opened /\ openedAt > 0  BY <2>1, <2>3, <3>1 DEF Answered, Opened, OwnInv
    <3>3. validation = validate_json(text) /\ Drawn(text, held)  BY <3>2 DEF OwnInv, TextInv
    <3>4. validation # Indeterminate
      <4>1. CASE validation.status = "valid"
        <5>1. \E r \in held : Good(r) /\ validation = Validated(r)  BY <3>3, <4>1, SpliceIsHeld
        <5> QED  BY <5>1, IndeterminateAssumption DEF Good
      <4>2. CASE validation.status # "valid"
        <5>1. Validated(Parsed(text)).status = "valid"  BY DEF Validated
        <5>2. validation \in {Unvalidated(s) : s \in {"invalid", "bad-version", "bad-digest"}}
          BY <3>3, <4>2, <5>1, VerdictIs
        <5> QED  BY <5>2, IndeterminateAssumption
      <4> QED  BY <4>1, <4>2
    <3>5. v = validation  BY <2>2, <3>4 DEF Reading
    <3> QED  BY <3>1, <3>5
  <2>4. Opened' => openedAt' > 0  BY <2>1 DEF OwnInv, Opened, Answered
  <2> QED  BY <1>0, <2>1, <2>3, <2>4 DEF OwnInv, fileVars
<1>13. CASE UNCHANGED vars  BY <1>4, <1>13 DEF vars
<1> QED
  BY <1>2, <1>3, <1>5, <1>6, <1>8, <1>9, <1>10, <1>11, <1>12, <1>13 DEF Next, ToolStep, CliStep

\* Of a file that only this library writes, a "valid" verdict is about one
\* receipt that is in the text whole and that the file held, to its digest, while
\* it was open: the cell in which the digest stood is of one write, and the
\* digest makes every other cell that receipt's.
THEOREM ValidHeld ==
  ASSUME Foreign = {}
  PROVE  Spec => []ValidWasHeld
<1>1. ASSUME OwnInv PROVE ValidWasHeld
  <2>1. SUFFICES ASSUME Returned, result = 0, validation.status = "valid"
                 PROVE  \E r \in held : r \in Holding(text) /\ validation = Validated(r)
    BY DEF ValidWasHeld
  <2>2. TextInv  BY <1>1 DEF OwnInv
  <2>3. Opened /\ validation = validate_json(text)  BY <2>1, <2>2, ReturnedAnswers
  <2>4. Drawn(text, held)  BY <1>1, <2>2, <2>3 DEF OwnInv, TextInv
  <2>5. PICK r \in held : Good(r) /\ Covers(text, Document(r)) /\ validation = Validated(r)
    BY <2>1, <2>3, <2>4, SpliceIsHeld
  <2> QED  BY <2>5, CoveringHolds
<1> QED  BY OwnInit, OwnStep, <1>1, PTL DEF Spec

\* And the command exits with 0 only for such a receipt, which for require-clean
\* is clean, whatever was on main's stack before the verdict was given.
THEOREM ZeroEarned ==
  ASSUME Foreign = {}
  PROVE  Spec => []ExitZeroIsEarned
<1>1. ASSUME OwnInv PROVE ExitZeroIsEarned
  <2>1. SUFFICES ASSUME cliExit = 0, mode \in Modes
                 PROVE  /\ result = 0
                        /\ \E r \in held : /\ r \in Holding(text)
                                           /\ mode = "require-clean" => r.outcome = Clean
    BY DEF ExitZeroIsEarned
  <2>2. mode # Null  BY <2>1, ModesAssumption
  <2>3. /\ cli = "exited" /\ result = 0 /\ validation.status = "valid"
        /\ mode = "require-clean" => validation.outcome = Clean
    BY <1>1, <2>1, <2>2 DEF OwnInv
  <2>4. Opened /\ validation = validate_json(text)
    BY <1>1, <2>2, <2>3 DEF OwnInv, TextInv, Opened, Answered
  <2>5. Drawn(text, held)  BY <1>1, <2>4 DEF OwnInv, TextInv
  <2>6. PICK r \in held : Good(r) /\ Covers(text, Document(r)) /\ validation = Validated(r)
    BY <2>3, <2>4, <2>5, SpliceIsHeld
  <2>7. validation.outcome = r.outcome  BY <2>6 DEF Validated
  <2> QED  BY <2>3, <2>6, <2>7, CoveringHolds
<1> QED  BY OwnInit, OwnStep, <1>1, PTL DEF Spec
=============================================================================
