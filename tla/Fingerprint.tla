----------------------------- MODULE Fingerprint -----------------------------
(***************************************************************************)
(* p101_tool_event_fingerprint_file (src/receipt.c): one call, reading a   *)
(* file chunk by chunk while other processes write to it.                  *)
(***************************************************************************)
EXTENDS Integers, Sequences, FiniteSets

CONSTANTS Byte, Newline,
          MaxBytes, MaxRecords,   \* maximum_bytes and maximum_records
          BufferSize,             \* READ_BUFFER_SIZE
          Null,
          AppendOnly,             \* other processes only append
          MaxLength               \* bound: how long they make the file

ASSUME NewlineAssumption == Newline \in Byte

ASSUME NullAssumption == Null \notin {"check", "errno", "EFBIG"} \cup Seq(Byte)

ASSUME LimitsAssumption ==
  /\ MaxBytes \in Nat \ {0} /\ MaxRecords \in Nat \ {0}
  /\ BufferSize \in Nat \ {0} /\ MaxLength \in Nat
  /\ AppendOnly \in BOOLEAN

VARIABLES
  file,           \* the content of the path
  pc,             \* where the call is
  fingerprint,    \* *fingerprint; Null until it is cleared
  hash,           \* the bytes hashed so far, which stand for the hash
  newline_count,
  final_newline,
  result,
  error,          \* the error raised on err, or Null
  consumed,       \* history: every byte read() has returned
  atEnd           \* history: read() has returned 0

locals == <<hash, newline_count, final_newline>>
vars   == <<file, pc, fingerprint, locals, result, error, consumed, atEnd>>

Zero == [bytes |-> 0, records |-> 0, fnv1a64 |-> <<>>, final_newline |-> FALSE]

Newlines(s) == Cardinality({i \in 1..Len(s) : s[i] = Newline})

EndsLine(s) == s # <<>> /\ s[Len(s)] = Newline

Contents == UNION {[1..n -> Byte] : n \in 0..MaxLength}

Init ==
  /\ file \in Contents
  /\ pc = "call" /\ fingerprint = Null
  /\ hash = <<>> /\ newline_count = 0 /\ final_newline = FALSE
  /\ result = 0 /\ error = Null
  /\ consumed = <<>> /\ atEnd = FALSE

-----------------------------------------------------------------------------
(* The other processes.                                                    *)

Extend ==
  /\ Len(file) < MaxLength
  /\ \E b \in Byte : file' = file \o <<b>>
  /\ UNCHANGED <<pc, fingerprint, locals, result, error, consumed, atEnd>>

Rewrite ==
  /\ ~AppendOnly
  /\ file' \in Contents
  /\ UNCHANGED <<pc, fingerprint, locals, result, error, consumed, atEnd>>

-----------------------------------------------------------------------------
(* The call.                                                               *)

Raise(e, next) ==
  /\ pc' = next
  /\ result' = -1
  /\ error' = e

\* A NULL argument, or a limit of 0: nothing is cleared.
BadArguments ==
  /\ pc = "call"
  /\ Raise("check", "returned")
  /\ UNCHANGED <<file, fingerprint, locals, consumed, atEnd>>

OpenFails ==
  /\ pc = "call"
  /\ fingerprint' = Zero
  /\ Raise("errno", "returned")
  /\ UNCHANGED <<file, locals, consumed, atEnd>>

Open ==
  /\ pc = "call"
  /\ fingerprint' = Zero
  /\ pc' = "read"
  /\ UNCHANGED <<file, locals, result, error, consumed, atEnd>>

\* read() fails; unlike validate_file, an interrupted one is not repeated.
ReadFails ==
  /\ pc = "read"
  /\ Raise("errno", "close")
  /\ UNCHANGED <<file, fingerprint, locals, consumed, atEnd>>

\* Mutant: only the chunk is compared with the limit.
ChunkTooLarge(count) == count > MaxBytes

\* Mutant: the limit itself is refused.
TooManyBytesEarly(count) ==
  count >= MaxBytes \/ fingerprint.bytes >= MaxBytes - count

\* Adding count bytes would pass maximum_bytes.
TooManyBytes(count) ==
  count > MaxBytes \/ fingerprint.bytes > MaxBytes - count

\* How many bytes of the chunk the loop hashes: it stops at the newline that
\* passes maximum_records.
Taken(chunk) ==
  LET Over == {i \in 1..Len(chunk) :
                 newline_count + Newlines(SubSeq(chunk, 1, i)) > MaxRecords}
  IN  IF Over = {} THEN Len(chunk)
                   ELSE CHOOSE i \in Over : \A j \in Over : i <= j

\* The chunk is refused, or hashed and counted.
Take(chunk) ==
  LET taken == SubSeq(chunk, 1, Taken(chunk))
      count == newline_count + Newlines(taken)
  IN  IF TooManyBytes(Len(chunk))
        THEN Raise("EFBIG", "close") /\ UNCHANGED <<fingerprint, locals>>
        ELSE
          /\ hash' = hash \o taken
          /\ newline_count' = count
          /\ fingerprint' = [fingerprint EXCEPT !.bytes = @ + Len(chunk)]
          /\ final_newline' = (chunk[Len(chunk)] = Newline)
          /\ IF count > MaxRecords
               THEN Raise("EFBIG", "close")
               ELSE UNCHANGED <<pc, result, error>>

\* read() returns some of what the file holds beyond what was read.
Read ==
  /\ pc = "read"
  /\ \E n \in 1..BufferSize :
       /\ Len(consumed) + n <= Len(file)
       /\ LET chunk == SubSeq(file, Len(consumed) + 1, Len(consumed) + n)
          IN  Take(chunk) /\ consumed' = consumed \o chunk
  /\ UNCHANGED <<file, atEnd>>

\* Mutant: a read that did not fill the buffer is taken for the last one.
ReadEndShort ==
  /\ pc = "read"
  /\ Len(file) <= Len(consumed) \/ Len(consumed) % BufferSize # 0
  /\ pc' = "tail"
  /\ atEnd' = TRUE
  /\ UNCHANGED <<file, fingerprint, locals, result, error, consumed>>

\* Mutant: the file is taken to end where it did when it was read.
ReadEndExact ==
  /\ pc = "read"
  /\ Len(file) = Len(consumed)
  /\ pc' = "tail"
  /\ atEnd' = TRUE
  /\ UNCHANGED <<file, fingerprint, locals, result, error, consumed>>

\* read() returns 0: the file is not longer than what was read.
ReadEnd ==
  /\ pc = "read"
  /\ Len(file) <= Len(consumed)
  /\ pc' = "tail"
  /\ atEnd' = TRUE
  /\ UNCHANGED <<file, fingerprint, locals, result, error, consumed>>

\* Mutant: a last line without a newline is not counted.
LastLineUncounted ==
  /\ pc = "tail"
  /\ pc' = "close"
  /\ UNCHANGED <<file, fingerprint, locals, result, error, consumed, atEnd>>

\* A last line without a newline is a record too.
CountLastLine ==
  /\ pc = "tail"
  /\ IF fingerprint.bytes > 0 /\ ~final_newline
       THEN /\ newline_count' = newline_count + 1
            /\ IF newline_count' > MaxRecords
                 THEN Raise("EFBIG", "close")
                 ELSE pc' = "close" /\ UNCHANGED <<result, error>>
       ELSE pc' = "close" /\ UNCHANGED <<newline_count, result, error>>
  /\ UNCHANGED <<file, fingerprint, hash, final_newline, consumed, atEnd>>

\* Mutant: a failed call leaves the bytes it counted.
StoreDirty(res) ==
  fingerprint' = IF res = 0
    THEN [ fingerprint EXCEPT !.records = newline_count, !.fnv1a64 = hash,
                              !.final_newline = final_newline ]
    ELSE fingerprint

\* What the call leaves in *fingerprint.
Store(res) ==
  fingerprint' = IF res = 0
    THEN [ fingerprint EXCEPT !.records = newline_count, !.fnv1a64 = hash,
                              !.final_newline = final_newline ]
    ELSE Zero

Close ==
  /\ pc = "close"
  /\ pc' = "returned"
  /\ Store(result)
  /\ UNCHANGED <<file, locals, result, error, consumed, atEnd>>

\* A failing close() is an error only if nothing failed before.
CloseFails ==
  /\ pc = "close"
  /\ IF result = 0 THEN Raise("errno", "returned")
                   ELSE pc' = "returned" /\ UNCHANGED <<result, error>>
  /\ Store(-1)
  /\ UNCHANGED <<file, locals, consumed, atEnd>>

Proceed == Open \/ Read \/ ReadEnd \/ CountLastLine \/ Close

Fail == BadArguments \/ OpenFails \/ ReadFails \/ CloseFails

Next == Extend \/ Rewrite \/ Proceed \/ Fail

Spec == Init /\ [][Next]_vars

\* The calling thread runs and its system calls return; none of them has to fail.
FairSpec == Spec /\ WF_vars(Proceed)

-----------------------------------------------------------------------------
(* Properties.                                                             *)

\* What a successful or refused call says, and to which contents it says it.
Seen   == IF atEnd THEN consumed ELSE Null
Answer == IF pc # "returned" THEN Null
          ELSE IF result = 0 THEN <<"success", fingerprint>>
          ELSE <<error, Null>>

Promise == INSTANCE FingerprintSpec WITH seen <- Seen, answer <- Answer

\* Every variable has its type, and the counts stay within the limits that
\* protect them from overflow (one newline past the limit ends the call).
TypeOK ==
  /\ file \in Seq(Byte)
  /\ pc \in {"call", "read", "tail", "close", "returned"}
  /\ pc \in {"read", "tail", "close"} =>
       /\ fingerprint.bytes \in 0..MaxBytes
       /\ fingerprint.records = 0 /\ fingerprint.fnv1a64 = <<>>
  /\ hash \in Seq(Byte) /\ consumed \in Seq(Byte)
  /\ newline_count \in 0..(MaxRecords + 1)
  /\ final_newline \in BOOLEAN /\ atEnd \in BOOLEAN
  /\ result \in {0, -1} /\ error \in {Null, "check", "errno", "EFBIG"}

\* A successful call describes exactly the bytes it read, however they were
\* cut into chunks: `records counts physical lines, including an unterminated
\* final line'; and they are within both limits.
SuccessDescribes ==
  pc = "returned" /\ result = 0 =>
    /\ fingerprint = Promise!Describe(consumed)
    /\ Promise!Within(consumed)

\* EFBIG is said only of bytes that are over a limit: neither a chunk boundary
\* nor a count that equals a limit makes the call refuse.
RefusalIsDeserved == error = "EFBIG" => ~Promise!Within(consumed)

\* A failed call leaves no partial count behind, at whatever step it failed;
\* only bad arguments leave the struct as it was.
FailureIsBlank ==
  pc = "returned" /\ error # Null =>
    result = -1 /\ fingerprint = (IF error = "check" THEN Null ELSE Zero)

\* The call returns, whatever others do to the file meanwhile: a file that is made
\* longer faster than it is read runs into the limit, and one that is made shorter
\* is read to its new end.
CallReturns == <>(pc = "returned")

\* The steps a call can still make, at most: every read but the last takes a byte off
\* what the limit leaves.
StepsLeft ==
  CASE pc = "call"     -> MaxBytes + 4
    [] pc = "read"     -> MaxBytes - fingerprint.bytes + 3
    [] pc = "tail"     -> 2
    [] pc = "close"    -> 1
    [] pc = "returned" -> 0

\* A call has read at most one buffer past the limit.
ReadingIsBounded == Len(consumed) <= MaxBytes + BufferSize

\* Each step of the call takes it nearer to its return, and nothing that others do to
\* the file takes it back: however it is cut short, made longer or rewritten, a call
\* makes no more than MaxBytes + 4 steps, none of which reads more than it should.
StepsRunOut ==
  [][ \/ UNCHANGED <<pc, fingerprint, locals, result, error, consumed, atEnd>>
      \/ /\ StepsLeft \in Nat /\ StepsLeft' \in Nat /\ StepsLeft' < StepsLeft
         /\ ReadingIsBounded' ]_vars

\* If other processes only append, the call answers for the content the file
\* had at one moment, whole, although it was read in several chunks.
IsSnapshot == Promise!Spec
=============================================================================
