---------------------------- MODULE OutputOption -----------------------------
(***************************************************************************)
(* From the option of a command to the streams of its report: the option   *)
(* is read by p101_tool_report_parse_output_option (src/report.c) and      *)
(* p101_tool_diagnostic_parse_outputs (src/diagnostic.c), and the outputs  *)
(* it leaves are given to p101_tool_report_begin.                          *)
(*                                                                         *)
(* An argument is a sequence of characters and words that ends with a NUL. *)
(***************************************************************************)
EXTENDS Integers, Sequences, SequencesExt

CONSTANTS
  Null,        \* a NULL pointer
  MaxLength    \* bound: characters and words of an argument

ASSUME NullAssumption == Null \notin {1, 2, 3, "stdout", "stderr"}

NUL        == "NUL"
Characters == {"-", "d", ":", ",", "human", "json"}

HUMAN == 1   \* P101_TOOL_DIAGNOSTIC_OUTPUT_HUMAN
JSON  == 2   \* P101_TOOL_DIAGNOSTIC_OUTPUT_JSON
Both  == 3   \* valid_outputs of begin

VARIABLES
  argument,        \* the option, or Null
  at,              \* the character of it that is looked at
  outputs,         \* the caller's variable
  standard_error,  \* "stderr" or Null; standard output is always given
  human_stream, json_stream,   \* of the report
  pc,              \* "prefix", "words", "begin", "begun" or "refused"
  accepted,        \* history: the option was accepted
  before           \* history: the caller's variable before the option was read

vars ==
  <<argument, at, outputs, standard_error, human_stream, json_stream, pc, accepted, before>>

Arguments == {a \o <<NUL>> : a \in UNION {[1..n -> Characters] : n \in 0..MaxLength}}

\* The caller has set `outputs' to 0, to the outputs of an earlier option, or to
\* something that is none (4).
Init ==
  /\ argument \in Arguments \cup {Null}
  /\ at = 1
  /\ outputs \in 0..4 /\ before = outputs
  /\ standard_error \in {"stderr", Null}
  /\ human_stream = Null /\ json_stream = Null
  /\ pc = "prefix" /\ accepted = FALSE

-----------------------------------------------------------------------------
(* The option.                                                             *)

Prefix == <<"-", "d", ":">>

\* EINVAL, here as wherever an option is refused; the caller may go on to begin with the
\* outputs it has then.
NoArgument ==
  /\ pc = "prefix" /\ argument = Null
  /\ pc' = "begin"
  /\ UNCHANGED <<argument, at, outputs, standard_error, human_stream, json_stream, accepted,
                 before>>

\* Mutant: the three characters are read before any is compared.
AfterCharacterEager == IF at < 3 THEN "prefix" ELSE "words"

\* One character of -d: is compared; the first that differs is the last one read.
AfterCharacter ==
  IF argument[at] # Prefix[at] THEN "begin" ELSE IF at < 3 THEN "prefix" ELSE "words"

PrefixCharacter ==
  /\ pc = "prefix" /\ argument # Null
  /\ pc' = AfterCharacter
  /\ at' = IF pc' = "begin" THEN at ELSE at + 1
  /\ UNCHANGED <<argument, outputs, standard_error, human_stream, json_stream, accepted, before>>

\* The outputs that the words name, or Null: then p101_tool_diagnostic_parse_outputs
\* refuses them.
NamedOutputs(words) ==
  CASE words = <<"human", NUL>> -> HUMAN
    [] words = <<"json", NUL>>  -> JSON
    [] words \in {<<"human", ",", "json", NUL>>, <<"json", ",", "human", NUL>>} -> Both
    [] OTHER -> Null

\* Mutant: the first word is stored before what follows it is looked at.
StoredWordByWord(words) ==
  IF NamedOutputs(words) # Null THEN NamedOutputs(words)
  ELSE IF words[1] = "human" THEN HUMAN
  ELSE IF words[1] = "json" THEN JSON
  ELSE outputs

\* What the caller's variable holds when the words have been read.
Stored(words) == IF NamedOutputs(words) # Null THEN NamedOutputs(words) ELSE outputs

Words ==
  /\ pc = "words"
  /\ pc' = "begin"
  /\ LET words == SubSeq(argument, at, Len(argument))
     IN  /\ outputs' = Stored(words)
         /\ accepted' = (NamedOutputs(words) # Null)
  /\ UNCHANGED <<argument, at, standard_error, human_stream, json_stream, before>>

-----------------------------------------------------------------------------
(* The streams of the report that is begun with the outputs.               *)

\* None, or one that does not exist, or both with a single stream to write to.
BadOutputs == outputs = 0 \/ outputs > Both \/ (outputs = Both /\ standard_error = Null)

BeginRefused ==
  /\ pc = "begin" /\ BadOutputs
  /\ pc' = "refused"
  /\ UNCHANGED <<argument, at, outputs, standard_error, human_stream, json_stream, accepted,
                 before>>

\* Mutant: the human stream is standard output whenever there is one.
HumanStreamShared == IF outputs \in {HUMAN, Both} THEN "stdout" ELSE Null

HumanStream ==
  CASE outputs = Both  -> standard_error
    [] outputs = HUMAN -> "stdout"
    [] OTHER -> Null

Begin ==
  /\ pc = "begin" /\ ~BadOutputs
  /\ pc' = "begun"
  /\ json_stream' = IF outputs \in {JSON, Both} THEN "stdout" ELSE Null
  /\ human_stream' = HumanStream
  /\ UNCHANGED <<argument, at, outputs, standard_error, accepted, before>>

Next == NoArgument \/ PrefixCharacter \/ Words \/ BeginRefused \/ Begin

Spec == Init /\ [][Next]_vars

-----------------------------------------------------------------------------
(* Properties.                                                             *)

\* Every variable has its type, and no character behind the NUL is looked at,
\* however short the argument is.
TypeOK ==
  /\ pc \in {"prefix", "words", "begin", "begun", "refused"}
  /\ argument # Null => at \in DOMAIN argument
  /\ outputs \in 0..4 /\ accepted \in BOOLEAN /\ before \in 0..4
  /\ human_stream \in {"stdout", "stderr", Null} /\ json_stream \in {"stdout", Null}

\* A report that is begun writes to at least one stream, and never findings for
\* people and the JSON object to the same one: what a program reads from standard
\* output is the object alone.
StreamsAreApart ==
  pc = "begun" => human_stream # json_stream

\* An accepted option is one that begin accepts, if there are two streams, and each
\* output is written exactly if its word was given.  A refused option leaves the caller's
\* variable as it was, wherever the reading of it stopped, so that begin decides as if
\* there had been no option: it refuses what it would have refused, and starts a report
\* with the outputs asked for before, and no others.
BegunAsAsked ==
  /\ accepted =>
       /\ pc = "refused" => outputs = Both /\ standard_error = Null
       /\ pc = "begun" =>
            \A w \in {<<"human", human_stream>>, <<"json", json_stream>>} :
              w[2] # Null <=> w[1] \in ToSet(argument)
  /\ ~accepted =>
       /\ outputs = before
       /\ pc = "refused" => before \in {0, 4} \/ (before = Both /\ standard_error = Null)
       /\ pc = "begun" => /\ human_stream # Null <=> before \in {HUMAN, Both}
                          /\ json_stream # Null <=> before \in {JSON, Both}
=============================================================================
