------------------------- MODULE OutputOptionProofs -------------------------
(***************************************************************************)
(* Theorems about OutputOption, for arguments of any length.               *)
(***************************************************************************)
EXTENDS OutputOption, SequenceTheorems, TLAPS

Atoms == Characters \cup {NUL}

\* What has been compared is the prefix, and the NUL is still ahead.
ArgumentInv ==
  argument # Null =>
    /\ argument \in Seq(Atoms) /\ at \in 1..Len(argument) /\ at <= 4
    /\ argument[Len(argument)] = NUL
    /\ \A i \in 1..(at - 1) : argument[i] = Prefix[i]
    /\ pc = "prefix" => at <= 3
    /\ pc = "words" => at = 4

\* What the outputs are, before and after an option is accepted.
OutputsInv ==
  /\ before \in {0, HUMAN, JSON, Both, 4}
  /\ ~accepted => outputs = before
  /\ accepted =>
       /\ argument # Null /\ pc \in {"begin", "begun", "refused"}
       /\ outputs \in {HUMAN, JSON, Both}
       /\ outputs \in {HUMAN, Both} <=> (\E i \in DOMAIN argument : argument[i] = "human")
       /\ outputs \in {JSON, Both} <=> (\E i \in DOMAIN argument : argument[i] = "json")
  /\ pc = "words" => argument # Null /\ ~accepted
  /\ pc = "prefix" => ~accepted

\* The streams are those of the outputs.
StreamsInv ==
  /\ standard_error \in {"stderr", Null}
  /\ pc \notin {"begun"} => human_stream = Null /\ json_stream = Null
  /\ pc = "begun" =>
       /\ outputs \in {HUMAN, JSON, Both}
       /\ json_stream = IF outputs \in {JSON, Both} THEN "stdout" ELSE Null
       /\ human_stream = CASE outputs = Both -> "stderr"
                           [] outputs = HUMAN -> "stdout"
                           [] OTHER -> Null
  /\ pc = "refused" => outputs \notin {HUMAN, JSON} /\ (outputs = Both => standard_error = Null)

Typed == pc \in {"prefix", "words", "begin", "begun", "refused"} /\ accepted \in BOOLEAN

OptionInv == Typed /\ ArgumentInv /\ OutputsInv /\ StreamsInv

LEMMA OptionInit == Init => OptionInv
<1>1. SUFFICES ASSUME Init PROVE OptionInv
  OBVIOUS
<1>2. ASSUME argument # Null
      PROVE  /\ argument \in Seq(Atoms) /\ 1 \in 1..Len(argument)
             /\ argument[Len(argument)] = NUL
  <2>1. PICK a \in UNION {[1..n -> Characters] : n \in 0..MaxLength} : argument = a \o <<NUL>>
    BY <1>1, <1>2 DEF Init, Arguments
  <2>2. a \in Seq(Atoms) /\ NUL \in Atoms
    BY DEF Atoms
  <2>3. a \o <<NUL>> = Append(a, NUL)
    BY <2>2
  <2>4. Append(a, NUL) \in Seq(Atoms) /\ Len(Append(a, NUL)) = Len(a) + 1
        /\ Append(a, NUL)[Len(a) + 1] = NUL /\ Len(a) \in Nat
    BY <2>2, AppendProperties, LenProperties
  <2> QED BY <2>1, <2>3, <2>4
<1>3. ArgumentInv
  BY <1>1, <1>2 DEF Init, ArgumentInv
<1>4. outputs \in {0, HUMAN, JSON, Both, 4}
  BY <1>1 DEF Init, HUMAN, JSON, Both
<1> QED BY <1>1, <1>3, <1>4 DEF Init, OptionInv, Typed, OutputsInv, StreamsInv

LEMMA NoArgumentStep == OptionInv /\ NoArgument => OptionInv'
  BY DEF OptionInv, Typed, NoArgument, ArgumentInv, OutputsInv, StreamsInv

LEMMA PrefixCharacterStep == OptionInv /\ PrefixCharacter => OptionInv'
<1>1. SUFFICES ASSUME OptionInv, PrefixCharacter PROVE OptionInv'
  OBVIOUS
<1>2. /\ pc = "prefix" /\ argument # Null
      /\ pc' = IF argument[at] # Prefix[at] THEN "begin" ELSE IF at < 3 THEN "prefix" ELSE "words"
      /\ at' = IF pc' = "begin" THEN at ELSE at + 1
      /\ UNCHANGED <<argument, outputs, standard_error, human_stream, json_stream, accepted, before>>
  BY <1>1 DEF PrefixCharacter, AfterCharacter
<1>3. /\ argument \in Seq(Atoms) /\ at \in 1..Len(argument) /\ at <= 3
      /\ argument[Len(argument)] = NUL /\ Len(argument) \in Nat
      /\ \A i \in 1..(at - 1) : argument[i] = Prefix[i]
  BY <1>1, <1>2, LenProperties DEF OptionInv, ArgumentInv
<1>4. Prefix[1] # NUL /\ Prefix[2] # NUL /\ Prefix[3] # NUL
  BY DEF Prefix, NUL
<1>5. ArgumentInv'
  <2>1. CASE argument[at] # Prefix[at]
    BY <1>2, <1>3, <2>1 DEF ArgumentInv
  <2>2. CASE argument[at] = Prefix[at]
    <3>1. at \in {1, 2, 3} /\ at # Len(argument)
      BY <1>3, <1>4, <2>2
    <3>2. at + 1 \in 1..Len(argument) /\ at + 1 <= 4
      BY <1>3, <3>1
    <3>3. \A i \in 1..at : argument[i] = Prefix[i]
      BY <1>3, <2>2
    <3>4. at' = at + 1
      BY <1>2, <2>2
    <3>5. (pc' = "prefix" => at' <= 3) /\ (pc' = "words" => at' = 4)
      BY <1>2, <1>3, <2>2, <3>4
    <3>6. \A i \in 1..(at' - 1) : argument'[i] = Prefix[i]
      BY <1>2, <1>3, <3>3, <3>4
    <3> QED BY <1>2, <1>3, <3>2, <3>4, <3>5, <3>6 DEF ArgumentInv
  <2> QED BY <2>1, <2>2
<1>6. Typed' /\ OutputsInv' /\ StreamsInv'
  BY <1>1, <1>2 DEF OptionInv, Typed, OutputsInv, StreamsInv
<1> QED BY <1>5, <1>6 DEF OptionInv

\* The words that an accepted option names are the ones its argument contains.
LEMMA WordsStep == OptionInv /\ Words => OptionInv'
<1>1. SUFFICES ASSUME OptionInv, Words PROVE OptionInv'
  OBVIOUS
<1> DEFINE words == SubSeq(argument, at, Len(argument))
           named == NamedOutputs(words)
<1>2. /\ pc = "words" /\ pc' = "begin" /\ argument # Null /\ ~accepted
      /\ UNCHANGED <<argument, at, standard_error, human_stream, json_stream, before>>
      /\ IF named = Null THEN UNCHANGED <<outputs, accepted>>
                         ELSE outputs' = named /\ accepted' = TRUE
  <2>1. pc = "words" /\ argument # Null /\ accepted = FALSE
    BY <1>1 DEF Words, OptionInv, OutputsInv, Typed
  <2>2. /\ pc' = "begin" /\ outputs' = Stored(words) /\ accepted' = (named # Null)
        /\ UNCHANGED <<argument, at, standard_error, human_stream, json_stream, before>>
    BY <1>1 DEF Words
  <2>3. Stored(words) = IF named # Null THEN named ELSE outputs
    BY DEF Stored
  <2> HIDE DEF named, words
  <2> QED BY <2>1, <2>2, <2>3
<1>3. /\ argument \in Seq(Atoms) /\ at = 4 /\ at \in 1..Len(argument) /\ Len(argument) \in Nat
      /\ argument[1] = "-" /\ argument[2] = "d" /\ argument[3] = ":"
  <2>1. /\ argument \in Seq(Atoms) /\ at = 4 /\ at \in 1..Len(argument)
        /\ \A i \in 1..(at - 1) : argument[i] = Prefix[i]
    BY <1>1, <1>2 DEF OptionInv, ArgumentInv
  <2>2. 1 \in 1..(at - 1) /\ 2 \in 1..(at - 1) /\ 3 \in 1..(at - 1)
    BY <2>1
  <2> QED BY <2>1, <2>2, LenProperties DEF Prefix
<1>4. /\ Len(words) = Len(argument) - 3
      /\ \A i \in 1..Len(words) : words[i] = argument[i + 3]
  <2>1. \A i \in 4..Len(argument) : argument[i] \in Atoms
    BY <1>3, ElementOfSeq
  <2>2. /\ Len(SubSeq(argument, 4, Len(argument))) = Len(argument) - 4 + 1
        /\ \A i \in 1..(Len(argument) - 4 + 1) :
             SubSeq(argument, 4, Len(argument))[i] = argument[4 + i - 1]
    BY <1>3, <2>1, SubSeqProperties
  <2>3. words = SubSeq(argument, 4, Len(argument))
    BY <1>3
  <2> HIDE DEF words
  <2> QED BY <1>3, <2>2, <2>3
<1> HIDE DEF words
<1>5. ArgumentInv'
  BY <1>1, <1>2 DEF OptionInv, ArgumentInv
<1>6. Typed' /\ StreamsInv'
  BY <1>1, <1>2 DEF OptionInv, Typed, StreamsInv
<1>7. OutputsInv'
  <2>1. CASE named = Null
    BY <1>1, <1>2, <2>1 DEF OptionInv, OutputsInv
  <2>2. CASE named # Null
    <3>1. outputs' = named /\ accepted' = TRUE /\ before' \in {0, HUMAN, JSON, Both, 4}
      BY <1>1, <1>2, <2>2 DEF OptionInv, OutputsInv
    <3>2. \/ words = <<"human", NUL>> /\ named = HUMAN
          \/ words = <<"json", NUL>> /\ named = JSON
          \/ words = <<"human", ",", "json", NUL>> /\ named = Both
          \/ words = <<"json", ",", "human", NUL>> /\ named = Both
      <4>1. CASE words = <<"human", NUL>>
        BY <4>1 DEF NamedOutputs
      <4>2. CASE words = <<"json", NUL>>
        BY <4>2 DEF NamedOutputs
      <4>3. CASE words \in {<<"human", ",", "json", NUL>>, <<"json", ",", "human", NUL>>}
        <5>1. words # <<"human", NUL>> /\ words # <<"json", NUL>>
          <6>1. Len(words) = 4
            <7>1. CASE words = <<"human", ",", "json", NUL>>
              BY <7>1
            <7>2. CASE words = <<"json", ",", "human", NUL>>
              BY <7>2
            <7> QED BY <4>3, <7>1, <7>2
          <6>2. Len(<<"human", NUL>>) = 2 /\ Len(<<"json", NUL>>) = 2
            OBVIOUS
          <6>3. 4 # 2
            OBVIOUS
          <6> QED BY <6>1, <6>2, <6>3, Zenon
        <5> QED BY <4>3, <5>1 DEF NamedOutputs
      <4> QED BY <2>2, <4>1, <4>2, <4>3 DEF NamedOutputs
    <3> HIDE DEF named
    <3>3. DOMAIN argument = 1..Len(argument)
      BY <1>3, LenProperties
    <3>4. CASE words = <<"human", NUL>> /\ named = HUMAN
      <4>1. Len(argument) = 5 /\ argument[4] = "human" /\ argument[5] = NUL
        <5>1. Len(words) = 2 /\ words[1] = "human" /\ words[2] = NUL
          BY <3>4
        <5>2. 1 \in 1..Len(words) /\ 2 \in 1..Len(words)
          BY <5>1
        <5>3. argument[1 + 3] = words[1] /\ argument[2 + 3] = words[2]
          BY <1>4, <5>2
        <5>4. 1 + 3 = 4 /\ 2 + 3 = 5
          OBVIOUS
        <5>5. argument[4] = words[1] /\ argument[5] = words[2]
          BY <5>3, <5>4
        <5>6. Len(argument) = 5
          <6>1. Len(argument) - 3 = 2 /\ Len(argument) \in Nat
            BY <1>3, <1>4, <5>1
          <6> QED BY <6>1
        <5> QED BY <5>1, <5>5, <5>6
      <4>2. /\ \E i \in DOMAIN argument : argument[i] = "human"
            /\ ~ \E i \in DOMAIN argument : argument[i] = "json"
        BY <1>3, <3>3, <4>1 DEF NUL
      <4> QED BY <1>2, <3>1, <3>4, <4>2 DEF OutputsInv, HUMAN, JSON, Both
    <3>5. CASE words = <<"json", NUL>> /\ named = JSON
      <4>1. Len(argument) = 5 /\ argument[4] = "json" /\ argument[5] = NUL
        <5>1. Len(words) = 2 /\ words[1] = "json" /\ words[2] = NUL
          BY <3>5
        <5>2. 1 \in 1..Len(words) /\ 2 \in 1..Len(words)
          BY <5>1
        <5>3. argument[1 + 3] = words[1] /\ argument[2 + 3] = words[2]
          BY <1>4, <5>2
        <5>4. 1 + 3 = 4 /\ 2 + 3 = 5
          OBVIOUS
        <5>5. argument[4] = words[1] /\ argument[5] = words[2]
          BY <5>3, <5>4
        <5>6. Len(argument) = 5
          <6>1. Len(argument) - 3 = 2 /\ Len(argument) \in Nat
            BY <1>3, <1>4, <5>1
          <6> QED BY <6>1
        <5> QED BY <5>1, <5>5, <5>6
      <4>2. /\ ~ \E i \in DOMAIN argument : argument[i] = "human"
            /\ \E i \in DOMAIN argument : argument[i] = "json"
        BY <1>3, <3>3, <4>1 DEF NUL
      <4> QED BY <1>2, <3>1, <3>5, <4>2 DEF OutputsInv, HUMAN, JSON, Both
    <3>6. CASE /\ named = Both
               /\ words \in {<<"human", ",", "json", NUL>>, <<"json", ",", "human", NUL>>}
      <4>1. Len(argument) = 7 /\ {argument[4], argument[6]} = {"human", "json"}
        <5>1. Len(words) = 4 /\ {words[1], words[3]} = {"human", "json"}
          <6>1. CASE words = <<"human", ",", "json", NUL>>
            BY <6>1
          <6>2. CASE words = <<"json", ",", "human", NUL>>
            BY <6>2
          <6> QED BY <3>6, <6>1, <6>2
        <5>2. 1 \in 1..Len(words) /\ 3 \in 1..Len(words)
          BY <5>1
        <5>3. argument[1 + 3] = words[1] /\ argument[3 + 3] = words[3]
          BY <1>4, <5>2
        <5>4. 1 + 3 = 4 /\ 3 + 3 = 6
          OBVIOUS
        <5>5. argument[4] = words[1] /\ argument[6] = words[3]
          BY <5>3, <5>4
        <5>6. Len(argument) = 7
          <6>1. Len(argument) - 3 = 4 /\ Len(argument) \in Nat
            BY <1>3, <1>4, <5>1
          <6> QED BY <6>1
        <5> QED BY <5>1, <5>5, <5>6
      <4>2. 4 \in DOMAIN argument /\ 6 \in DOMAIN argument
        BY <3>3, <4>1
      <4>3. /\ \E i \in DOMAIN argument : argument[i] = "human"
            /\ \E i \in DOMAIN argument : argument[i] = "json"
        BY <4>1, <4>2
      <4> QED BY <1>2, <3>1, <3>6, <4>3 DEF OutputsInv, HUMAN, JSON, Both
    <3> QED BY <3>2, <3>4, <3>5, <3>6
  <2> QED BY <2>1, <2>2
<1> QED BY <1>5, <1>6, <1>7 DEF OptionInv

LEMMA BeginStep == OptionInv /\ (Begin \/ BeginRefused) => OptionInv'
<1>1. SUFFICES ASSUME OptionInv, Begin \/ BeginRefused PROVE OptionInv'
  OBVIOUS
<1>2. /\ pc = "begin" /\ pc' \in {"begun", "refused"}
      /\ UNCHANGED <<argument, at, outputs, standard_error, accepted, before>>
  BY <1>1 DEF Begin, BeginRefused
<1>3. Typed' /\ ArgumentInv' /\ OutputsInv'
  BY <1>1, <1>2 DEF OptionInv, Typed, ArgumentInv, OutputsInv
<1>4. outputs \in {0, HUMAN, JSON, Both, 4} /\ standard_error \in {"stderr", Null}
      /\ human_stream = Null /\ json_stream = Null
  BY <1>1, <1>2 DEF OptionInv, Typed, OutputsInv, StreamsInv
<1>5. StreamsInv'
  <2>1. CASE Begin
    <3>1. outputs \in {HUMAN, JSON, Both} /\ (outputs = Both => standard_error = "stderr")
      BY <1>4, <2>1 DEF Begin, BadOutputs, HUMAN, JSON, Both
    <3>2. /\ pc' = "begun"
          /\ json_stream' = IF outputs \in {JSON, Both} THEN "stdout" ELSE Null
          /\ human_stream' = CASE outputs = Both  -> standard_error
                                [] outputs = HUMAN -> "stdout"
                                [] OTHER -> Null
      BY <2>1 DEF Begin, HumanStream
    <3> QED BY <1>2, <1>4, <3>1, <3>2 DEF StreamsInv, HUMAN, JSON, Both
  <2>2. CASE BeginRefused
    <3>1. /\ pc' = "refused" /\ UNCHANGED <<human_stream, json_stream>>
          /\ outputs \notin {HUMAN, JSON} /\ (outputs = Both => standard_error = Null)
      BY <1>4, <2>2 DEF BeginRefused, BadOutputs, HUMAN, JSON, Both
    <3> QED BY <1>2, <1>4, <3>1 DEF StreamsInv
  <2> QED BY <1>1, <2>1, <2>2
<1> QED BY <1>3, <1>5 DEF OptionInv

LEMMA OptionInvariance == Spec => []OptionInv
<1>1. OptionInv /\ UNCHANGED vars => OptionInv'
  BY DEF OptionInv, vars, Typed, ArgumentInv, OutputsInv, StreamsInv
<1>2. OptionInv /\ [Next]_vars => OptionInv'
  BY <1>1, NoArgumentStep, PrefixCharacterStep, WordsStep, BeginStep DEF Next
<1> QED BY <1>2, OptionInit, PTL DEF Spec

-----------------------------------------------------------------------------
(* The theorems.                                                           *)

\* No character behind the NUL of an option is looked at, however short it is.
THEOREM StopsInTheArgument == Spec => []TypeOK
<1>1. OptionInv => TypeOK
  <2>1. SUFFICES ASSUME OptionInv PROVE TypeOK
    OBVIOUS
  <2>2. argument # Null => at \in DOMAIN argument
    BY <2>1, LenProperties DEF OptionInv, ArgumentInv
  <2>3. outputs \in 0..4 /\ accepted \in BOOLEAN /\ before \in 0..4
    BY <2>1 DEF OptionInv, Typed, OutputsInv, HUMAN, JSON, Both
  <2>4. human_stream \in {"stdout", "stderr", Null} /\ json_stream \in {"stdout", Null}
    BY <2>1 DEF OptionInv, Typed, StreamsInv, HUMAN, JSON, Both
  <2> QED BY <2>1, <2>2, <2>3, <2>4 DEF OptionInv, Typed, TypeOK
<1> QED BY <1>1, OptionInvariance, PTL

\* The findings for people and the JSON object never go to the same stream.
THEOREM NeverOneStream == Spec => []StreamsAreApart
<1>1. OptionInv => StreamsAreApart
  BY NullAssumption DEF OptionInv, StreamsInv, StreamsAreApart, HUMAN, JSON, Both
<1> QED BY <1>1, OptionInvariance, PTL

\* A report that is begun has exactly the streams that an accepted option names.  A refused
\* option leaves the caller's variable as it was, and begin does what that asks for.
THEOREM BegunRight == Spec => []BegunAsAsked
<1>1. OptionInv /\ accepted =>
        /\ pc = "refused" => outputs = Both /\ standard_error = Null
        /\ pc = "begun" =>
             \A w \in {<<"human", human_stream>>, <<"json", json_stream>>} :
               w[2] # Null <=> w[1] \in ToSet(argument)
  <2>1. SUFFICES ASSUME OptionInv, accepted
                 PROVE  /\ pc = "refused" => outputs = Both /\ standard_error = Null
                        /\ pc = "begun" =>
                             /\ human_stream # Null <=> ("human" \in ToSet(argument))
                             /\ json_stream # Null <=> ("json" \in ToSet(argument))
    OBVIOUS
  <2>2. /\ outputs \in {HUMAN, Both} <=> ("human" \in ToSet(argument))
        /\ outputs \in {JSON, Both} <=> ("json" \in ToSet(argument))
        /\ outputs \in {HUMAN, JSON, Both}
    BY <2>1, Zenon DEF OptionInv, OutputsInv, ToSet
  <2> QED BY <2>1, <2>2, NullAssumption DEF OptionInv, StreamsInv, HUMAN, JSON, Both
<1>2. OptionInv /\ ~accepted =>
        /\ outputs = before
        /\ pc = "refused" => before \in {0, 4} \/ (before = Both /\ standard_error = Null)
        /\ pc = "begun" => /\ human_stream # Null <=> before \in {HUMAN, Both}
                           /\ json_stream # Null <=> before \in {JSON, Both}
  BY NullAssumption DEF OptionInv, OutputsInv, StreamsInv, HUMAN, JSON, Both
<1>3. OptionInv => BegunAsAsked
  BY <1>1, <1>2, Zenon DEF BegunAsAsked
<1> QED BY <1>3, OptionInvariance, PTL
=============================================================================
