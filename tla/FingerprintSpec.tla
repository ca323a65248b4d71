--------------------------- MODULE FingerprintSpec ---------------------------
(***************************************************************************)
(* What a fingerprint promises of a file that others may be appending to:  *)
(* it describes the content the file had at one moment of the call, and it *)
(* is refused only to a file that is over a limit.                         *)
(***************************************************************************)
EXTENDS Integers, Sequences, FiniteSets

CONSTANTS Byte, Newline,
          MaxBytes, MaxRecords,   \* the limits of a call
          Null,
          MaxLength               \* bound: how long the file grows

VARIABLES file,    \* the content of the file
          seen,    \* the content the answer is about, once it is chosen
          answer   \* the answer, or Null before there is one

\* A line starts at the first byte and after every newline but a last one.
Lines(s) == Cardinality({i \in 1..Len(s) : i = 1 \/ s[i - 1] = Newline})

EndsLine(s) == s # <<>> /\ s[Len(s)] = Newline

\* The fingerprint of a content; the content itself stands for its hash.
Describe(s) ==
  [bytes |-> Len(s), records |-> Lines(s), fnv1a64 |-> s, final_newline |-> EndsLine(s)]

Success(fingerprint) == <<"success", fingerprint>>
Failure(error)       == <<error, Null>>

Within(s) == Len(s) <= MaxBytes /\ Lines(s) <= MaxRecords

Init == file \in Seq(Byte) /\ seen = Null /\ answer = Null

Extend ==
  /\ \E b \in Byte : file' = file \o <<b>>
  /\ Len(file) < MaxLength
  /\ UNCHANGED <<seen, answer>>

Look ==
  /\ seen = Null /\ answer = Null
  /\ seen' = file
  /\ UNCHANGED <<file, answer>>

Describes ==
  /\ seen # Null /\ answer = Null
  /\ Within(seen)
  /\ answer' = Success(Describe(seen))
  /\ UNCHANGED <<file, seen>>

Refuse ==
  /\ answer = Null
  /\ ~Within(IF seen = Null THEN file ELSE seen)
  /\ answer' = Failure("EFBIG")
  /\ UNCHANGED <<file, seen>>

Fail ==
  /\ answer = Null
  /\ answer' \in {Failure("errno"), Failure("check")}
  /\ UNCHANGED <<file, seen>>

Next == Extend \/ Look \/ Describes \/ Refuse \/ Fail

Spec == Init /\ [][Next]_<<file, seen, answer>>
=============================================================================
