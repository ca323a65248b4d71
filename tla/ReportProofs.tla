---------------------------- MODULE ReportProofs ----------------------------
(***************************************************************************)
(* That a report counts what it has written and closes its stream with     *)
(* that count, for any diagnostics, any counters, any number of calls and  *)
(* any number of writes that fail.                                         *)
(***************************************************************************)
EXTENDS Report, Counting

Real == Diagnostics \ {Null}

\* What a stream is made of.  A summary carries counters that end has accepted.
Token ==
  {Torn, Contract, Header, Comma} \cup {Finding(d) : d \in Real} \cup {Note(d) : d \in Real}
  \cup {Summary(n, c, name, status) : n \in Nat,
                                      c \in {c \in CounterLists : validate_counters(c)},
                                      name \in OutcomeNames, status \in ExitStatuses}

Findings(s) == FindingsIn(s, Len(s))

FindingTokens == {t \in Token : IsFinding(t)}
SummaryTokens == {t \in Token : IsSummary(t)}

Text == Seq(Token)

LEMMA TokenFacts ==
  /\ {Torn, Contract, Header, Comma} \subseteq Token
  /\ ~IsFinding(Torn) /\ ~IsFinding(Contract) /\ ~IsFinding(Header) /\ ~IsFinding(Comma)
  /\ ~IsSummary(Torn) /\ ~IsSummary(Contract) /\ ~IsSummary(Header) /\ ~IsSummary(Comma)
  /\ \A d \in Real : /\ Finding(d) \in Token /\ IsFinding(Finding(d)) /\ ~IsSummary(Finding(d))
                     /\ Note(d) \in Token /\ ~IsFinding(Note(d)) /\ ~IsSummary(Note(d))
  /\ \A n \in Nat, c \in CounterLists, name \in OutcomeNames, status \in ExitStatuses :
       /\ validate_counters(c) => Summary(n, c, name, status) \in Token
       /\ IsSummary(Summary(n, c, name, status)) /\ ~IsFinding(Summary(n, c, name, status))
       /\ Summary(n, c, name, status)[2] = n
<1>1. /\ {Torn, Contract, Header, Comma} \subseteq Token
      /\ ~IsFinding(Torn) /\ ~IsFinding(Contract) /\ ~IsFinding(Header) /\ ~IsFinding(Comma)
      /\ ~IsSummary(Torn) /\ ~IsSummary(Contract) /\ ~IsSummary(Header) /\ ~IsSummary(Comma)
  BY DEF Token, Torn, Contract, Header, Comma, IsFinding, IsSummary
<1>2. ASSUME NEW d \in Real
      PROVE  /\ Finding(d) \in Token /\ IsFinding(Finding(d)) /\ ~IsSummary(Finding(d))
             /\ Note(d) \in Token /\ ~IsFinding(Note(d)) /\ ~IsSummary(Note(d))
  BY DEF Token, Finding, Note, IsFinding, IsSummary
<1>3. ASSUME NEW n \in Nat, NEW c \in CounterLists, NEW name \in OutcomeNames,
             NEW status \in ExitStatuses
      PROVE  /\ validate_counters(c) => Summary(n, c, name, status) \in Token
             /\ IsSummary(Summary(n, c, name, status)) /\ ~IsFinding(Summary(n, c, name, status))
             /\ Summary(n, c, name, status)[2] = n
  <2>1. validate_counters(c) => Summary(n, c, name, status) \in Token
    BY DEF Token
  <2>2. /\ Summary(n, c, name, status)[1] = "summary"
        /\ Summary(n, c, name, status)[2] = n
    BY DEF Summary
  <2> QED BY <2>1, <2>2 DEF IsSummary, IsFinding
<1> QED BY <1>1, <1>2, <1>3

-----------------------------------------------------------------------------
(* Streams.                                                                *)

LEMMA FindingsHowMany ==
  ASSUME NEW s \in Text
  PROVE  /\ Findings(s) = HowMany(s, FindingTokens) /\ Findings(s) \in Nat
         /\ SummariesIn(s) = HowMany(s, SummaryTokens) /\ SummariesIn(s) \in Nat
<1>1. \A i \in 1..Len(s) : s[i] \in Token
  BY ElementOfSeq DEF Text
<1>2. /\ {i \in 1..Len(s) : IsFinding(s[i])} = At(s, FindingTokens, 1, Len(s))
      /\ {i \in 1..Len(s) : IsSummary(s[i])} = At(s, SummaryTokens, 1, Len(s))
  BY <1>1 DEF At, FindingTokens, SummaryTokens
<1>3. Findings(s) = HowMany(s, FindingTokens) /\ SummariesIn(s) = HowMany(s, SummaryTokens)
  BY <1>2 DEF Findings, FindingsIn, SummariesIn, HowMany
<1> QED BY <1>3, HowManyIsNat DEF Text

LEMMA FindingsConcat ==
  ASSUME NEW s \in Text, NEW t \in Text
  PROVE  /\ s \o t \in Text
         /\ Findings(s \o t) = Findings(s) + Findings(t)
         /\ SummariesIn(s \o t) = SummariesIn(s) + SummariesIn(t)
<1>1. s \o t \in Text
  BY ConcatProperties DEF Text
<1>2. \A S : HowMany(s \o t, S) = HowMany(s, S) + HowMany(t, S)
  BY HowManyConcat DEF Text
<1>3. /\ Findings(s \o t) = HowMany(s \o t, FindingTokens)
      /\ SummariesIn(s \o t) = HowMany(s \o t, SummaryTokens)
  BY <1>1, FindingsHowMany
<1>4. /\ Findings(s) = HowMany(s, FindingTokens) /\ Findings(t) = HowMany(t, FindingTokens)
      /\ SummariesIn(s) = HowMany(s, SummaryTokens)
      /\ SummariesIn(t) = HowMany(t, SummaryTokens)
  BY FindingsHowMany
<1> QED BY <1>1, <1>2, <1>3, <1>4

LEMMA FindingsFew ==
  /\ <<>> \in Text /\ Findings(<<>>) = 0 /\ SummariesIn(<<>>) = 0
  /\ \A e \in Token : /\ <<e>> \in Text
                      /\ Findings(<<e>>) = IF IsFinding(e) THEN 1 ELSE 0
                      /\ SummariesIn(<<e>>) = IF IsSummary(e) THEN 1 ELSE 0
<1>1. <<>> \in Text
  BY EmptySeq DEF Text
<1>2. Findings(<<>>) = 0 /\ SummariesIn(<<>>) = 0
  BY <1>1, FindingsHowMany, HowManyFew
<1>3. ASSUME NEW e \in Token
      PROVE  /\ <<e>> \in Text
             /\ Findings(<<e>>) = IF IsFinding(e) THEN 1 ELSE 0
             /\ SummariesIn(<<e>>) = IF IsSummary(e) THEN 1 ELSE 0
  <2>1. <<e>> \in Text
    BY DEF Text
  <2> QED BY <2>1, FindingsHowMany, HowManyFew DEF FindingTokens, SummaryTokens
<1> QED BY <1>1, <1>2, <1>3

\* A text is what stands before a place of it, and what stands behind.
LEMMA HeadAndTail ==
  ASSUME NEW t \in Text, NEW k \in Nat, k < Len(t)
  PROVE  /\ SubSeq(t, 1, k) \in Text /\ Len(SubSeq(t, 1, k)) = k
         /\ SubSeq(t, k + 1, Len(t)) \in Text
         /\ t = SubSeq(t, 1, k) \o SubSeq(t, k + 1, Len(t))
<1> DEFINE u == SubSeq(t, 1, k)
           v == SubSeq(t, k + 1, Len(t))
<1>1. Len(t) \in Nat /\ t \in Seq(Token) /\ \A i \in 1..Len(t) : t[i] \in Token
  BY ElementOfSeq, LenProperties DEF Text
<1>2. /\ u \in Seq(Token) /\ Len(u) = k /\ \A i \in 1..k : u[i] = t[i]
      /\ v \in Seq(Token) /\ Len(v) = Len(t) - k
      /\ \A i \in 1..(Len(t) - k) : v[i] = t[k + i]
  <2>1. u \in Seq(Token) /\ Len(u) = k /\ \A i \in 1..k : u[i] = t[i]
    <3>1. \A i \in 1..k : t[i] \in Token
      BY <1>1
    <3> QED BY <1>1, <3>1, SubSeqProperties
  <2>2. /\ v \in Seq(Token) /\ Len(v) = Len(t) - k
        /\ \A i \in 1..(Len(t) - k) : v[i] = t[k + i]
    <3>1. \A i \in (k + 1)..Len(t) : t[i] \in Token
      BY <1>1
    <3>2. k + 1 \in Nat /\ Len(t) \in Nat /\ k + 1 <= Len(t) + 1
      BY <1>1
    <3>3. /\ v \in Seq(Token) /\ Len(v) = Len(t) - (k + 1) + 1
          /\ \A i \in 1..(Len(t) - (k + 1) + 1) : v[i] = t[(k + 1) + i - 1]
      BY <1>1, <3>1, <3>2, SubSeqProperties
    <3>4. Len(t) - (k + 1) + 1 = Len(t) - k
      BY <1>1
    <3>5. \A i \in 1..(Len(t) - k) : (k + 1) + i - 1 = k + i
      BY <1>1
    <3> HIDE DEF v
    <3> QED BY <3>3, <3>4, <3>5
  <2> QED BY <2>1, <2>2
<1> HIDE DEF u, v
<1>3. /\ u \o v \in Seq(Token) /\ Len(u \o v) = Len(t)
      /\ \A i \in 1..Len(t) : (u \o v)[i] = IF i <= k THEN u[i] ELSE v[i - k]
  <2>1. /\ u \o v \in Seq(Token) /\ Len(u \o v) = Len(u) + Len(v)
        /\ \A i \in 1..(Len(u) + Len(v)) :
             (u \o v)[i] = IF i <= Len(u) THEN u[i] ELSE v[i - Len(u)]
    BY <1>2, ConcatProperties
  <2>2. Len(u) = k /\ Len(u) + Len(v) = Len(t)
    BY <1>1, <1>2
  <2> QED BY <2>1, <2>2
<1>4. ASSUME NEW i \in 1..Len(t) PROVE (u \o v)[i] = t[i]
  <2>1. CASE i <= k
    BY <1>2, <1>3, <2>1
  <2>2. CASE ~(i <= k)
    <3>1. i - k \in 1..(Len(t) - k) /\ k + (i - k) = i
      BY <1>1, <2>2
    <3> QED BY <1>2, <1>3, <2>2, <3>1
  <2> QED BY <2>1, <2>2
<1>5. t = u \o v
  BY <1>1, <1>3, <1>4, SeqEqual
<1> QED BY <1>2, <1>5 DEF u, v, Text

\* A cut of a text is a text with no more findings or summaries, and a cut of a single
\* token has neither.
LEMMA CutFacts ==
  ASSUME NEW t \in Text, NEW c \in Cuts(t)
  PROVE  /\ c \in Text /\ Findings(c) <= Findings(t) /\ SummariesIn(c) <= SummariesIn(t)
         /\ Len(t) <= 1 => Findings(c) = 0 /\ SummariesIn(c) = 0 /\ Len(c) <= 1
<1>1. PICK k \in 0..(Len(t) - 1) : c = SubSeq(t, 1, k) \/ c = SubSeq(t, 1, k) \o <<Torn>>
  BY DEF Cuts
<1> DEFINE head == SubSeq(t, 1, k)
           tail == SubSeq(t, k + 1, Len(t))
<1>2. Len(t) \in Nat /\ k \in Nat /\ k < Len(t)
  BY <1>1, LenProperties DEF Text
<1>3. head \in Text /\ tail \in Text /\ Len(head) = k /\ t = head \o tail
  BY <1>2, HeadAndTail
<1>4. <<Torn>> \in Text /\ Findings(<<Torn>>) = 0 /\ SummariesIn(<<Torn>>) = 0
  BY FindingsFew, TokenFacts
<1> HIDE DEF head, tail
<1>5. c = head \/ c = head \o <<Torn>>
  BY <1>1 DEF head
<1>6. c \in Text /\ Findings(c) = Findings(head) /\ SummariesIn(c) = SummariesIn(head)
  <2>1. /\ head \o <<Torn>> \in Text
        /\ Findings(head \o <<Torn>>) = Findings(head) + 0
        /\ SummariesIn(head \o <<Torn>>) = SummariesIn(head) + 0
    BY <1>3, <1>4, FindingsConcat
  <2>2. Findings(head) \in Nat /\ SummariesIn(head) \in Nat
    BY <1>3, FindingsHowMany
  <2>3. CASE c = head
    BY <1>3, <2>3
  <2>4. CASE c = head \o <<Torn>>
    BY <2>1, <2>2, <2>4
  <2> QED BY <1>5, <2>3, <2>4
<1>7. Findings(c) <= Findings(t) /\ SummariesIn(c) <= SummariesIn(t)
  <2>1. /\ Findings(t) = Findings(head) + Findings(tail)
        /\ SummariesIn(t) = SummariesIn(head) + SummariesIn(tail)
    BY <1>3, FindingsConcat
  <2>2. /\ Findings(head) \in Nat /\ Findings(tail) \in Nat
        /\ SummariesIn(head) \in Nat /\ SummariesIn(tail) \in Nat
    BY <1>3, FindingsHowMany
  <2> QED BY <1>6, <2>1, <2>2
<1>8. ASSUME Len(t) <= 1 PROVE Findings(c) = 0 /\ SummariesIn(c) = 0 /\ Len(c) <= 1
  <2>1. k = 0 /\ head = <<>>
    BY <1>2, <1>8, SubSeqEmpty DEF head
  <2>2. Findings(c) = 0 /\ SummariesIn(c) = 0
    BY <1>6, <2>1, FindingsFew, Zenon
  <2>3. Len(head \o <<Torn>>) = 1
    <3>1. Len(<<Torn>>) = 1 /\ Len(head) = 0
      BY <1>3, <2>1
    <3> QED BY <1>3, <1>4, <3>1, ConcatProperties DEF Text
  <2>4. Len(c) = 0 \/ Len(c) = 1
    BY <1>3, <1>5, <2>1, <2>3, Zenon
  <2>5. \A n : n = 0 \/ n = 1 => n <= 1
    OBVIOUS
  <2> QED BY <2>2, <2>4, <2>5, Zenon
<1> QED BY <1>6, <1>7, <1>8

Writing == [h : Text, j : Text, ok : BOOLEAN]

LEMMA MayFailFacts ==
  ASSUME NEW S, NEW T, NEW w \in MayFail(S \cup T)
  PROVE  failures < MaxFailures /\ (w \in S \/ w \in T)
  BY DEF MayFail

\* A call that succeeds has written both texts; one that fails has torn a write, and
\* if it fails in a JSON text of a single token it has put no finding there, nor a summary
\* unless it failed in the other text.
LEMMA WritingFacts ==
  ASSUME NEW h \in Text, NEW j \in Text,
         NEW w \in HumanThenJson(h, j) \cup JsonThenHuman(h, j)
  PROVE  /\ w \in Writing
         /\ w.ok => w.h = h /\ w.j = j
         /\ ~w.ok => failures < MaxFailures
         /\ h = <<>> => w.h = <<>>
         /\ j = <<>> => w.j = <<>>
         /\ (w \in HumanThenJson(h, j) \/ Findings(j) = 0) /\ ~w.ok /\ Len(j) <= 1
              => Findings(w.j) = 0
         /\ Len(j) <= 1 => Len(w.j) <= 1
         /\ Findings(w.h) <= Findings(h) /\ SummariesIn(w.h) <= SummariesIn(h)
         /\ SummariesIn(w.j) <= SummariesIn(j)
         /\ ~w.ok /\ Len(h) <= 1 /\ w \in JsonThenHuman(h, j) => SummariesIn(w.h) = 0
         /\ ~w.ok /\ Len(j) <= 1 /\ h = <<>> => SummariesIn(w.j) = 0
<1>1. <<>> \in Text /\ Findings(<<>>) = 0 /\ SummariesIn(<<>>) = 0
  BY FindingsFew
<1>0. /\ Findings(h) \in Nat /\ SummariesIn(h) \in Nat /\ SummariesIn(j) \in Nat
      /\ Findings(h) <= Findings(h) /\ SummariesIn(h) <= SummariesIn(h)
      /\ SummariesIn(j) <= SummariesIn(j)
      /\ 0 <= Findings(h) /\ 0 <= SummariesIn(h) /\ 0 <= SummariesIn(j)
  BY FindingsHowMany
<1>2. Cuts(<<>>) = {}
  <2>1. Len(<<>>) = 0 /\ 0..(0 - 1) = {}
    BY EmptySeq
  <2> QED BY <2>1 DEF Cuts
<1>3. CASE w = [h |-> h, j |-> j, ok |-> TRUE]
  BY <1>0, <1>3 DEF Writing
<1>4. ASSUME failures < MaxFailures, NEW c \in Cuts(h), w = [h |-> c, j |-> <<>>, ok |-> FALSE]
      PROVE  /\ w \in Writing /\ ~w.ok /\ h # <<>> /\ w.j = <<>>
             /\ Findings(w.h) <= Findings(h) /\ SummariesIn(w.h) <= SummariesIn(h)
  BY <1>1, <1>2, <1>4, CutFacts DEF Writing
<1>5. ASSUME failures < MaxFailures, NEW c \in Cuts(j), w = [h |-> h, j |-> c, ok |-> FALSE]
      PROVE  /\ w \in Writing /\ ~w.ok /\ j # <<>> /\ w.h = h
             /\ SummariesIn(w.j) <= SummariesIn(j)
             /\ Len(j) <= 1 => Findings(w.j) = 0 /\ SummariesIn(w.j) = 0 /\ Len(w.j) <= 1
  BY <1>2, <1>5, CutFacts DEF Writing
<1>6. ASSUME failures < MaxFailures, NEW c \in Cuts(j), w = [h |-> <<>>, j |-> c, ok |-> FALSE]
      PROVE  /\ w \in Writing /\ ~w.ok /\ j # <<>> /\ w.h = <<>>
             /\ SummariesIn(w.j) <= SummariesIn(j)
             /\ Len(j) <= 1 => Findings(w.j) = 0 /\ SummariesIn(w.j) = 0 /\ Len(w.j) <= 1
  BY <1>1, <1>2, <1>6, CutFacts DEF Writing
<1>7. ASSUME failures < MaxFailures, NEW c \in Cuts(h), w = [h |-> c, j |-> j, ok |-> FALSE]
      PROVE  /\ w \in Writing /\ ~w.ok /\ h # <<>> /\ w.j = j
             /\ Findings(w.h) <= Findings(h) /\ SummariesIn(w.h) <= SummariesIn(h)
             /\ Len(h) <= 1 => SummariesIn(w.h) = 0
  BY <1>2, <1>7, CutFacts DEF Writing
<1>8. ASSUME w \in HumanThenJson(h, j), w # [h |-> h, j |-> j, ok |-> TRUE]
      PROVE  /\ w \in Writing /\ ~w.ok /\ failures < MaxFailures
             /\ h = <<>> => w.h = <<>>
             /\ j = <<>> => w.j = <<>>
             /\ Len(j) <= 1 => Findings(w.j) = 0 /\ SummariesIn(w.j) = 0 /\ Len(w.j) <= 1
             /\ Findings(w.h) <= Findings(h) /\ SummariesIn(w.h) <= SummariesIn(h)
             /\ SummariesIn(w.j) <= SummariesIn(j)
  <2> DEFINE First  == UNION {Failing(c, <<>>) : c \in Cuts(h)}
             Second == UNION {Failing(h, c) : c \in Cuts(j)}
  <2>1. w \in MayFail(First \cup Second)
    BY <1>8, Zenon DEF HumanThenJson, Whole, First, Second
  <2>2. failures < MaxFailures /\ (w \in First \/ w \in Second)
    <3> HIDE DEF First, Second
    <3> QED BY <2>1, MayFailFacts
  <2>3. \/ \E c \in Cuts(h) : w \in Failing(c, <<>>)
        \/ \E c \in Cuts(j) : w \in Failing(h, c)
    BY <2>2, Zenon
  <2>4. \/ \E c \in Cuts(h) : w = [h |-> c, j |-> <<>>, ok |-> FALSE]
        \/ \E c \in Cuts(j) : w = [h |-> h, j |-> c, ok |-> FALSE]
    BY <2>3, Zenon DEF Failing
  <2> QED BY <1>0, <1>1, <1>4, <1>5, <2>2, <2>4
<1>9. ASSUME w \in JsonThenHuman(h, j), w # [h |-> h, j |-> j, ok |-> TRUE]
      PROVE  /\ w \in Writing /\ ~w.ok /\ failures < MaxFailures
             /\ h = <<>> => w.h = <<>>
             /\ j = <<>> => w.j = <<>>
             /\ Findings(j) = 0 /\ Len(j) <= 1 => Findings(w.j) = 0
             /\ Len(j) <= 1 => Len(w.j) <= 1
             /\ Findings(w.h) <= Findings(h) /\ SummariesIn(w.h) <= SummariesIn(h)
             /\ SummariesIn(w.j) <= SummariesIn(j)
             /\ Len(h) <= 1 => SummariesIn(w.h) = 0
             /\ Len(j) <= 1 /\ h = <<>> => SummariesIn(w.j) = 0
  <2> DEFINE First  == UNION {Failing(<<>>, c) : c \in Cuts(j)}
             Second == UNION {Failing(c, j) : c \in Cuts(h)}
  <2>1. w \in MayFail(First \cup Second)
    BY <1>9, Zenon DEF JsonThenHuman, Whole, First, Second
  <2>2. failures < MaxFailures /\ (w \in First \/ w \in Second)
    <3> HIDE DEF First, Second
    <3> QED BY <2>1, MayFailFacts
  <2>3. \/ \E c \in Cuts(j) : w \in Failing(<<>>, c)
        \/ \E c \in Cuts(h) : w \in Failing(c, j)
    BY <2>2, Zenon
  <2>4. \/ \E c \in Cuts(j) : w = [h |-> <<>>, j |-> c, ok |-> FALSE]
        \/ \E c \in Cuts(h) : w = [h |-> c, j |-> j, ok |-> FALSE]
    BY <2>3, Zenon DEF Failing
  <2> QED BY <1>0, <1>1, <1>6, <1>7, <1>9, <2>2, <2>4
<1>10. CASE w \in HumanThenJson(h, j) /\ w # [h |-> h, j |-> j, ok |-> TRUE]
  <2>1. w \in JsonThenHuman(h, j) => (Len(h) <= 1 => SummariesIn(w.h) = 0)
    BY <1>9, <1>10
  <2> QED BY <1>8, <1>10, <2>1
<1>11. CASE w \notin HumanThenJson(h, j) /\ w # [h |-> h, j |-> j, ok |-> TRUE]
  BY <1>9, <1>11
<1> QED BY <1>3, <1>10, <1>11

-----------------------------------------------------------------------------
(* The invariant.                                                          *)

\* The summaries that are out: none in a human stream before the end; one in the JSON
\* stream, before the end, for each human summary that failed behind it.
SummariesSoFar ==
  phase = "begun" =>
    /\ SummariesIn(human) = IF active \/ ~HumanSummaryAsked THEN 0 ELSE 1
    /\ active => SummariesIn(json) <= IF HumanSummaryAsked THEN failures ELSE 0

ReportInv ==
  /\ TypeOK
  /\ human \in Text /\ json \in Text
  /\ phase = "none" => human = <<>> /\ json = <<>>
  /\ CountIsWritten
  /\ SummariesSoFar
  /\ EndIsHonest

LEMMA ReportInit == Init => ReportInv
<1>1. SUFFICES ASSUME Init PROVE ReportInv
  OBVIOUS
<1>2. TypeOK
  <2>1. /\ finding_count \in 0..calls /\ calls \in 0..MaxCalls /\ failures \in 0..MaxFailures
    BY <1>1, BoundsAssumption DEF Init
  <2>2. human = <<>> /\ json = <<>>
    BY <1>1 DEF Init
  <2>3. outputs \subseteq {"human", "json"} /\ result \in {0, -1, Null}
    BY <1>1 DEF Init
  <2>4. /\ phase \in {"none", "begun", "crashed"} /\ active \in BOOLEAN
        /\ first_json_finding \in BOOLEAN /\ human_summary \in BOOLEAN /\ refused \in BOOLEAN
    BY <1>1 DEF Init
  <2> QED BY <2>1, <2>2, <2>3, <2>4 DEF TypeOK
<1>3. human \in Text /\ json \in Text
  BY <1>1, FindingsFew DEF Init
<1> QED BY <1>1, <1>2, <1>3 DEF Init, ReportInv, CountIsWritten, SummariesSoFar, EndIsHonest, Ended

LEMMA Between ==
  ASSUME NEW n \in Nat, NEW low \in Nat, NEW more \in Nat
  PROVE  /\ n \in low..(low + more) <=> low <= n /\ n <= low + more
         /\ \A most \in Nat : n \in low..(low + more) /\ most >= more => n \in low..(low + most)
  OBVIOUS

\* A call that writes nothing, and keeps the fields, keeps the invariant.
LEMMA QuietStep ==
  ASSUME ReportInv, UNCHANGED <<fields, options, streams>>,
         phase' = phase \/ (phase = "begun" /\ phase' = "crashed"),
         calls' \in 0..MaxCalls, calls' >= calls,
         failures' \in 0..MaxFailures, failures' >= failures,
         result' \in {0, -1, Null}, refused' \in BOOLEAN
  PROVE  ReportInv'
<1>1. UNCHANGED <<active, finding_count, first_json_finding, human_summary, outputs, human, json>>
  BY DEF fields, options, streams
<1>2. finding_count' \in 0..calls'
  BY <1>1 DEF ReportInv, TypeOK
<1>3. TypeOK'
  BY <1>1, <1>2 DEF ReportInv, TypeOK
<1>4. human \in Text /\ json \in Text /\ failures \in Nat /\ failures' \in Nat
  BY BoundsAssumption DEF ReportInv, TypeOK
<1>5. CountIsWritten'
  <2>1. phase' # "none" => phase # "none"
    OBVIOUS
  <2>2. /\ Findings(human) \in Nat /\ finding_count \in Nat
        /\ \A n \in Nat : n \in finding_count..(finding_count + failures)
             => n \in finding_count..(finding_count + failures')
    <3>1. finding_count \in Nat
      BY BoundsAssumption DEF ReportInv, TypeOK
    <3>2. Findings(human) \in Nat
      BY <1>4, FindingsHowMany
    <3>3. failures' >= failures
      OBVIOUS
    <3> QED BY <1>4, <3>1, <3>2, <3>3, Between, Zenon
  <2>3. phase # "none" =>
          /\ first_json_finding = (finding_count = 0)
          /\ "json" \in outputs => finding_count = Findings(json)
          /\ "human" \in outputs => Findings(human) \in finding_count..(finding_count + failures')
    BY <2>2 DEF ReportInv, CountIsWritten, Findings
  <2> QED BY <1>1, <2>1, <2>3 DEF CountIsWritten, Findings, FindingsIn
<1>6. SummariesSoFar'
  <2>1. SummariesIn(json) \in Nat
    BY <1>4, FindingsHowMany
  <2>2. phase' = "begun" =>
          /\ SummariesIn(human) = IF active \/ ~HumanSummaryAsked THEN 0 ELSE 1
          /\ active => SummariesIn(json) <= IF HumanSummaryAsked THEN failures' ELSE 0
    BY <1>4, <2>1 DEF ReportInv, SummariesSoFar
  <2> QED BY <1>1, <2>2 DEF SummariesSoFar, SummariesIn, HumanSummaryAsked
<1>7. EndIsHonest'
  <2>1. SUFFICES ASSUME Ended' PROVE EndIsHonest'
    BY DEF EndIsHonest
  <2>2. Ended
    BY <1>1, <2>1 DEF Ended
  <2>3. "json" \in outputs =>
          /\ Closed(json) /\ json[Len(json)][2] = FindingsIn(json, Len(json))
          /\ SummariesIn(json) <= 1 + failures'
          /\ ~HumanSummaryAsked => SummariesIn(json) = 1
    <3>1. SummariesIn(json) \in Nat
      BY <1>4, FindingsHowMany
    <3> QED BY <1>4, <2>2, <3>1 DEF ReportInv, EndIsHonest
  <2>4. HumanSummaryAsked =>
          /\ Closed(human) /\ SummariesIn(human) = 1
          /\ FindingsIn(human, Len(human)) - human[Len(human)][2] \in 0..failures'
    BY <1>4, <2>2 DEF ReportInv, EndIsHonest
  <2>5. outputs = {"human", "json"} /\ human_summary => human[Len(human)] = json[Len(json)]
    BY <2>2 DEF ReportInv, EndIsHonest
  <2> QED BY <1>1, <2>3, <2>4, <2>5
       DEF EndIsHonest, Closed, FindingsIn, SummariesIn, HumanSummaryAsked
<1> QED BY <1>1, <1>3, <1>5, <1>6, <1>7 DEF ReportInv

LEMMA CallFacts ==
  ASSUME ReportInv, Call
  PROVE  /\ phase = "begun" /\ calls \in Nat /\ calls' = calls + 1 /\ calls' \in 0..MaxCalls
         /\ failures \in Nat /\ finding_count \in Nat /\ finding_count <= calls
  BY BoundsAssumption DEF Call, ReportInv, TypeOK

LEMMA RefusedSteps ==
  ASSUME ReportInv,
         \/ BeginRefused
         \/ \E d \in Diagnostics : EmitRefused(d) \/ CommaFails(d)
         \/ \E c \in CounterLists, name \in OutcomeNames :
              EndCrashes(c, name) \/ \E status \in ExitStatuses : EndRefused(c, name, status)
  PROVE  ReportInv'
<1>1. /\ calls \in 0..MaxCalls /\ failures \in 0..MaxFailures /\ refused \in BOOLEAN
      /\ calls >= calls /\ failures >= failures
  BY BoundsAssumption DEF ReportInv, TypeOK
<1>2. CASE BeginRefused
  BY <1>1, <1>2, QuietStep DEF BeginRefused
<1>3. ASSUME NEW d \in Diagnostics, EmitRefused(d) PROVE ReportInv'
  BY <1>1, <1>3, CallFacts, QuietStep DEF EmitRefused, Refuse
<1>4. ASSUME NEW d \in Diagnostics, CommaFails(d) PROVE ReportInv'
  <2>1. failures' \in 0..MaxFailures /\ failures' >= failures
    BY <1>1, <1>4, BoundsAssumption DEF CommaFails
  <2> QED BY <1>1, <1>4, <2>1, CallFacts, QuietStep DEF CommaFails
<1>5. ASSUME NEW c \in CounterLists, NEW name \in OutcomeNames, EndCrashes(c, name)
      PROVE  ReportInv'
  BY <1>1, <1>5, CallFacts, QuietStep DEF EndCrashes
<1>6. ASSUME NEW c \in CounterLists, NEW name \in OutcomeNames, NEW status \in ExitStatuses,
             EndRefused(c, name, status)
      PROVE  ReportInv'
  BY <1>1, <1>6, CallFacts, QuietStep DEF EndRefused, Refuse
<1> QED BY <1>2, <1>3, <1>4, <1>5, <1>6

LEMMA ToFacts ==
  ASSUME NEW s \in Text, NEW name
  PROVE  /\ To(name, s) \in Text
         /\ name \notin outputs => To(name, s) = <<>>
         /\ name \in outputs => To(name, s) = s
  BY FindingsFew DEF To

LEMMA SeparatorFacts ==
  /\ Separator \in Text /\ Findings(Separator) = 0 /\ SummariesIn(Separator) = 0
  /\ Len(Separator) <= 1
  /\ "json" \notin outputs => Separator = <<>>
<1>1. /\ <<Comma>> \in Text /\ Findings(<<Comma>>) = 0 /\ SummariesIn(<<Comma>>) = 0
      /\ <<>> \in Text /\ Findings(<<>>) = 0 /\ SummariesIn(<<>>) = 0
  BY FindingsFew, TokenFacts
<1>2. Separator \in {<<>>, <<Comma>>}
  BY DEF Separator, To
<1>3. "json" \notin outputs => Separator = <<>>
  BY DEF Separator, To
<1>4. Len(<<Comma>>) <= 1 /\ Len(<<>>) <= 1
  OBVIOUS
<1> QED BY <1>1, <1>2, <1>3, <1>4

\* What the streams hold after a call that wrote w.
LEMMA AcceptFacts ==
  ASSUME ReportInv, NEW w \in Writing, Accept(w), ~w.ok => failures < MaxFailures
  PROVE  /\ human' \in Text /\ json' \in Text
         /\ Findings(human') = Findings(human) + Findings(w.h)
         /\ Findings(json') = Findings(json) + Findings(w.j)
         /\ SummariesIn(human') = SummariesIn(human) + SummariesIn(w.h)
         /\ SummariesIn(json') = SummariesIn(json) + SummariesIn(w.j)
         /\ failures' = failures + (IF w.ok THEN 0 ELSE 1)
         /\ failures' \in 0..MaxFailures
         /\ failures' = 0 => failures = 0 /\ w.ok
         /\ w.h = <<>> => human' = human
         /\ w.j = <<>> => json' = json
<1>1. w.h \in Text /\ w.j \in Text /\ w.ok \in BOOLEAN
  BY DEF Writing
<1>2. human \in Text /\ json \in Text /\ failures \in 0..MaxFailures
  BY DEF ReportInv, TypeOK
<1>3. human' = human \o w.h /\ json' = json \o w.j
  BY DEF Accept
<1>4. /\ human \o w.h \in Text /\ Findings(human \o w.h) = Findings(human) + Findings(w.h)
      /\ json \o w.j \in Text /\ Findings(json \o w.j) = Findings(json) + Findings(w.j)
      /\ SummariesIn(human \o w.h) = SummariesIn(human) + SummariesIn(w.h)
      /\ SummariesIn(json \o w.j) = SummariesIn(json) + SummariesIn(w.j)
  BY <1>1, <1>2, FindingsConcat
<1>5. failures' = failures + (IF w.ok THEN 0 ELSE 1)
  BY DEF Accept
<1>6. failures' \in 0..MaxFailures /\ (failures' = 0 => failures = 0 /\ w.ok)
  BY <1>1, <1>2, <1>5, BoundsAssumption
<1>7. human \o <<>> = human /\ json \o <<>> = json
  BY <1>2, ConcatEmptySeq DEF Text
<1>8. (w.h = <<>> => human' = human) /\ (w.j = <<>> => json' = json)
  BY <1>3, <1>7
<1>9. /\ Findings(human') = Findings(human) + Findings(w.h)
      /\ Findings(json') = Findings(json) + Findings(w.j)
      /\ SummariesIn(human') = SummariesIn(human) + SummariesIn(w.h)
      /\ SummariesIn(json') = SummariesIn(json) + SummariesIn(w.j)
  BY <1>3, <1>4, Zenon
<1> QED BY <1>3, <1>4, <1>5, <1>6, <1>8, <1>9

LEMMA BeginStep == ReportInv /\ Begin => ReportInv'
<1>1. SUFFICES ASSUME ReportInv, Begin PROVE ReportInv'
  OBVIOUS
<1> DEFINE h == IF "human" \in outputs' THEN <<Contract>> ELSE <<>>
           j == IF "json" \in outputs' THEN <<Header>> ELSE <<>>
<1>2. /\ phase = "none" /\ phase' = "begun"
      /\ outputs' \subseteq {"human", "json"} /\ human_summary' \in BOOLEAN
      /\ active' = TRUE /\ finding_count' = 0 /\ first_json_finding' = TRUE
      /\ calls' = calls /\ refused' = refused
  BY <1>1 DEF Begin
<1>3. PICK w \in HumanThenJson(h, j) : Accept(w) /\ result' = IF w.ok THEN 0 ELSE -1
  BY <1>1 DEF Begin
<1>4. /\ <<>> \in Text /\ Findings(<<>>) = 0 /\ SummariesIn(<<>>) = 0
      /\ <<Contract>> \in Text /\ Findings(<<Contract>>) = 0 /\ SummariesIn(<<Contract>>) = 0
      /\ <<Header>> \in Text /\ Findings(<<Header>>) = 0 /\ SummariesIn(<<Header>>) = 0
  BY FindingsFew, TokenFacts
<1>5. /\ h \in Text /\ Findings(h) = 0 /\ SummariesIn(h) = 0 /\ Len(h) <= 1
      /\ j \in Text /\ Findings(j) = 0 /\ SummariesIn(j) = 0 /\ Len(j) <= 1
  BY <1>4
<1>6. ("human" \notin outputs' => h = <<>>) /\ ("json" \notin outputs' => j = <<>>)
  OBVIOUS
<1> HIDE DEF h, j
<1>7. /\ w \in Writing
      /\ w.ok => w.h = h /\ w.j = j
      /\ ~w.ok => failures < MaxFailures
      /\ h = <<>> => w.h = <<>>
      /\ j = <<>> => w.j = <<>>
      /\ ~w.ok => Findings(w.j) = 0
      /\ Findings(w.h) <= 0 /\ SummariesIn(w.h) <= 0 /\ SummariesIn(w.j) <= 0
  BY <1>3, <1>5, WritingFacts
<1>8. /\ human = <<>> /\ json = <<>> /\ Findings(human) = 0 /\ Findings(json) = 0
      /\ SummariesIn(human) = 0 /\ SummariesIn(json) = 0
  BY <1>1, <1>2, <1>4 DEF ReportInv
<1>9. /\ human' \in Text /\ json' \in Text
      /\ Findings(human') = Findings(human) + Findings(w.h)
      /\ Findings(json') = Findings(json) + Findings(w.j)
      /\ SummariesIn(human') = SummariesIn(human) + SummariesIn(w.h)
      /\ SummariesIn(json') = SummariesIn(json) + SummariesIn(w.j)
      /\ failures' \in 0..MaxFailures
      /\ failures' = 0 => failures = 0 /\ w.ok
      /\ w.h = <<>> => human' = human
      /\ w.j = <<>> => json' = json
  BY <1>1, <1>3, <1>7, AcceptFacts
<1>10. /\ Findings(json') = 0 /\ Findings(human') = 0
       /\ SummariesIn(json') = 0 /\ SummariesIn(human') = 0
  <2>1. /\ Findings(w.h) \in Nat /\ SummariesIn(w.h) \in Nat /\ SummariesIn(w.j) \in Nat
    BY <1>7, FindingsHowMany DEF Writing
  <2>2. Findings(w.j) = 0
    BY <1>5, <1>7
  <2>3. Findings(w.h) = 0 /\ SummariesIn(w.h) = 0 /\ SummariesIn(w.j) = 0
    BY <1>7, <2>1
  <2> QED BY <1>8, <1>9, <2>2, <2>3
<1>11. failures' \in Nat
  BY <1>9, BoundsAssumption
<1>12. /\ human' # <<>> => "human" \in outputs'
       /\ json' # <<>> => "json" \in outputs'
  BY <1>6, <1>7, <1>8, <1>9
<1>13. calls' \in 0..MaxCalls /\ finding_count' \in 0..calls' /\ refused' \in BOOLEAN
  BY <1>1, <1>2, BoundsAssumption DEF ReportInv, TypeOK
<1>14. result' \in {0, -1, Null}
  BY <1>3
<1>15. TypeOK'
  BY <1>2, <1>9, <1>12, <1>13, <1>14 DEF TypeOK
<1>16. CountIsWritten'
  <2>1. first_json_finding' = (finding_count' = 0)
    BY <1>2
  <2>2. finding_count' = Findings(json')
    BY <1>2, <1>10
  <2>3. Findings(human') \in finding_count'..(finding_count' + failures')
    <3>1. \A n, low, more : n = 0 /\ low = 0 /\ more \in Nat => n \in low..(low + more)
      BY Between
    <3> QED BY <1>2, <1>10, <1>11, <3>1, Zenon
  <2> QED BY <2>1, <2>2, <2>3, Zenon DEF CountIsWritten, Findings, FindingsIn
<1>17. SummariesSoFar'
  <2>1. SummariesIn(human') = IF active' \/ ~HumanSummaryAsked' THEN 0 ELSE 1
    BY <1>2, <1>10
  <2>2. SummariesIn(json') <= IF HumanSummaryAsked' THEN failures' ELSE 0
    BY <1>10, <1>11
  <2> QED BY <2>1, <2>2, Zenon DEF SummariesSoFar, SummariesIn
<1>18. EndIsHonest'
  BY <1>2 DEF EndIsHonest, Ended
<1> QED BY <1>2, <1>9, <1>15, <1>16, <1>17, <1>18 DEF ReportInv

LEMMA EmitInvalidStep ==
  ASSUME ReportInv, NEW d \in Diagnostics, EmitInvalid(d)
  PROVE  ReportInv'
<1>1. /\ phase' = phase /\ active /\ json' = json \o Separator /\ result' = -1
      /\ refused' = (refused \/ Separator # <<>>)
      /\ UNCHANGED <<active, finding_count, first_json_finding, human_summary, outputs, human,
                     failures>>
  BY DEF EmitInvalid, IsActive, fields, options
<1>2. /\ calls \in Nat /\ calls' = calls + 1 /\ calls' \in 0..MaxCalls
      /\ finding_count \in Nat /\ finding_count <= calls /\ phase = "begun"
  BY CallFacts DEF EmitInvalid
<1>3. human \in Text /\ json \in Text
  BY DEF ReportInv
<1>4. /\ json \o Separator \in Text /\ Findings(json \o Separator) = Findings(json)
      /\ SummariesIn(json \o Separator) = SummariesIn(json)
  <2>1. /\ json \o Separator \in Text
        /\ Findings(json \o Separator) = Findings(json) + Findings(Separator)
        /\ SummariesIn(json \o Separator) = SummariesIn(json) + SummariesIn(Separator)
    BY <1>3, SeparatorFacts, FindingsConcat
  <2>2. /\ Findings(json) \in Nat /\ Findings(Separator) = 0
        /\ SummariesIn(json) \in Nat /\ SummariesIn(Separator) = 0
    BY <1>3, SeparatorFacts, FindingsHowMany
  <2> QED BY <2>1, <2>2
<1>5. /\ json' \in Text /\ Findings(json') = Findings(json)
      /\ SummariesIn(json') = SummariesIn(json)
  BY <1>1, <1>4, Zenon
<1>6. json' # <<>> => "json" \in outputs'
  <2>1. Separator = <<>> => json' = json
    BY <1>1, <1>3, ConcatEmptySeq DEF Text
  <2> QED BY <1>1, <2>1, SeparatorFacts DEF ReportInv, TypeOK
<1>7. finding_count' \in 0..calls' /\ refused' \in BOOLEAN
  BY <1>1, <1>2 DEF ReportInv, TypeOK
<1>8. TypeOK'
  BY <1>1, <1>2, <1>6, <1>7 DEF ReportInv, TypeOK
<1>9. CountIsWritten'
  BY <1>1, <1>5 DEF ReportInv, CountIsWritten, Findings, FindingsIn
<1>10. SummariesSoFar'
  BY <1>1, <1>5 DEF ReportInv, SummariesSoFar, HumanSummaryAsked, SummariesIn
<1>11. EndIsHonest'
  BY <1>1 DEF EndIsHonest, Ended
<1> QED BY <1>1, <1>2, <1>3, <1>5, <1>8, <1>9, <1>10, <1>11 DEF ReportInv

LEMMA EmitTexts ==
  ASSUME NEW d \in Real
  PROVE  /\ TextRecord(d) \in Text /\ JsonObject(d) \in Text /\ Len(JsonObject(d)) <= 1
         /\ SummariesIn(TextRecord(d)) = 0 /\ SummariesIn(JsonObject(d)) = 0
         /\ Findings(TextRecord(d)) = (IF "human" \in outputs THEN 1 ELSE 0)
         /\ Findings(JsonObject(d)) = (IF "json" \in outputs THEN 1 ELSE 0)
         /\ "human" \notin outputs => TextRecord(d) = <<>>
         /\ "json" \notin outputs => JsonObject(d) = <<>>
<1>1. /\ <<Finding(d)>> \in Text /\ Findings(<<Finding(d)>>) = 1
      /\ <<Note(d)>> \in Text /\ Findings(<<Note(d)>>) = 0
      /\ <<>> \in Text /\ Findings(<<>>) = 0
      /\ SummariesIn(<<Finding(d)>>) = 0 /\ SummariesIn(<<Note(d)>>) = 0
      /\ SummariesIn(<<>>) = 0
  BY TokenFacts, FindingsFew
<1> DEFINE note   == IF d.lesson THEN <<Note(d)>> ELSE <<>>
           record == <<Finding(d)>> \o note
<1>2. note \in Text /\ Findings(note) = 0 /\ SummariesIn(note) = 0
  BY <1>1
<1>3. /\ record \in Text /\ Findings(record) = Findings(<<Finding(d)>>) + Findings(note)
      /\ SummariesIn(record) = SummariesIn(<<Finding(d)>>) + SummariesIn(note)
  <2> HIDE DEF note
  <2> QED BY <1>1, <1>2, FindingsConcat
<1>4. Findings(record) = 1 /\ SummariesIn(record) = 0
  BY <1>1, <1>2, <1>3
<1>5. TextRecord(d) = To("human", record)
  BY DEF TextRecord
<1> HIDE DEF record, note
<1>6. /\ TextRecord(d) \in Text /\ SummariesIn(TextRecord(d)) = 0
      /\ Findings(TextRecord(d)) = (IF "human" \in outputs THEN 1 ELSE 0)
      /\ "human" \notin outputs => TextRecord(d) = <<>>
  BY <1>1, <1>3, <1>4, <1>5, ToFacts
<1>7. /\ JsonObject(d) \in Text /\ Len(JsonObject(d)) <= 1 /\ SummariesIn(JsonObject(d)) = 0
      /\ Findings(JsonObject(d)) = (IF "json" \in outputs THEN 1 ELSE 0)
      /\ "json" \notin outputs => JsonObject(d) = <<>>
  <2>1. JsonObject(d) = IF "json" \in outputs THEN <<Finding(d)>> ELSE <<>>
    BY DEF JsonObject, To
  <2>2. Len(<<Finding(d)>>) <= 1 /\ Len(<<>>) <= 1
    OBVIOUS
  <2>3. JsonObject(d) \in Text /\ Len(JsonObject(d)) <= 1
    BY <1>1, <2>1, <2>2
  <2> QED BY <1>1, <2>1, <2>3
<1> QED BY <1>6, <1>7

LEMMA EmitStep ==
  ASSUME ReportInv, NEW d \in Diagnostics, Emit(d)
  PROVE  ReportInv'
<1>1. /\ phase = "begun" /\ phase' = "begun" /\ active /\ d \in Real
      /\ UNCHANGED <<active, human_summary, outputs, refused>>
  BY DEF Emit, Call, IsActive, options, Real
<1>2. /\ calls \in Nat /\ calls' = calls + 1 /\ calls' \in 0..MaxCalls
      /\ finding_count \in Nat /\ finding_count <= calls
  BY CallFacts DEF Emit
<1>3. PICK w \in HumanThenJson(TextRecord(d), JsonObject(d)) :
        /\ Accept([w EXCEPT !.j = Separator \o @])
        /\ result' = IF w.ok THEN 0 ELSE -1
        /\ Count(w.ok)
  BY DEF Emit, Outputs
<1>4. /\ TextRecord(d) \in Text /\ JsonObject(d) \in Text /\ Len(JsonObject(d)) <= 1
      /\ SummariesIn(TextRecord(d)) = 0 /\ SummariesIn(JsonObject(d)) = 0
      /\ Findings(TextRecord(d)) = (IF "human" \in outputs THEN 1 ELSE 0)
      /\ Findings(JsonObject(d)) = (IF "json" \in outputs THEN 1 ELSE 0)
      /\ "human" \notin outputs => TextRecord(d) = <<>>
      /\ "json" \notin outputs => JsonObject(d) = <<>>
  BY <1>1, EmitTexts
<1>5. /\ w \in Writing
      /\ w.ok => w.h = TextRecord(d) /\ w.j = JsonObject(d)
      /\ ~w.ok => failures < MaxFailures
      /\ TextRecord(d) = <<>> => w.h = <<>>
      /\ JsonObject(d) = <<>> => w.j = <<>>
      /\ ~w.ok => Findings(w.j) = 0
      /\ Findings(w.h) <= (IF "human" \in outputs THEN 1 ELSE 0)
      /\ SummariesIn(w.h) <= 0 /\ SummariesIn(w.j) <= 0
  BY <1>3, <1>4, WritingFacts
<1>6. /\ w.h \in Text /\ w.j \in Text /\ w.ok \in BOOLEAN
      /\ Separator \in Text /\ Findings(Separator) = 0 /\ SummariesIn(Separator) = 0
      /\ "json" \notin outputs => Separator = <<>>
  BY <1>5, SeparatorFacts DEF Writing
<1> DEFINE text == Separator \o w.j
           v    == [w EXCEPT !.j = Separator \o @]
<1>7. text \in Text /\ Findings(text) = Findings(w.j) /\ SummariesIn(text) = 0
  <2>1. /\ text \in Text /\ Findings(text) = Findings(Separator) + Findings(w.j)
        /\ SummariesIn(text) = SummariesIn(Separator) + SummariesIn(w.j)
    BY <1>6, FindingsConcat
  <2>2. Findings(w.j) \in Nat /\ SummariesIn(w.j) \in Nat
    BY <1>6, FindingsHowMany
  <2> QED BY <1>5, <1>6, <2>1, <2>2
<1>8. "json" \notin outputs => text = <<>>
  <2>1. <<>> \o <<>> = <<>>
    BY ConcatEmptySeq, FindingsFew DEF Text
  <2> QED BY <1>4, <1>5, <1>6, <2>1
<1>9. v.h = w.h /\ v.j = text /\ v.ok = w.ok /\ v \in Writing
  <2>1. \A x : [w EXCEPT !.j = x] = [h |-> w.h, j |-> x, ok |-> w.ok]
    BY <1>5 DEF Writing
  <2>2. v = [h |-> w.h, j |-> text, ok |-> w.ok]
    BY <2>1, Zenon
  <2> HIDE DEF v, text
  <2> QED BY <1>6, <1>7, <2>2 DEF Writing
<1>10. Accept(v)
  BY <1>3
<1> HIDE DEF text, v
<1>11. /\ human' \in Text /\ json' \in Text
       /\ Findings(human') = Findings(human) + Findings(v.h)
       /\ Findings(json') = Findings(json) + Findings(v.j)
       /\ SummariesIn(human') = SummariesIn(human) + SummariesIn(v.h)
       /\ SummariesIn(json') = SummariesIn(json) + SummariesIn(v.j)
       /\ failures' = failures + (IF v.ok THEN 0 ELSE 1)
       /\ failures' \in 0..MaxFailures
       /\ failures' = 0 => failures = 0 /\ v.ok
       /\ v.h = <<>> => human' = human
       /\ v.j = <<>> => json' = json
  BY <1>5, <1>9, <1>10, AcceptFacts
<1>12. /\ human \in Text /\ json \in Text
       /\ Findings(human) \in Nat /\ Findings(json) \in Nat /\ Findings(w.h) \in Nat
       /\ SummariesIn(human) \in Nat /\ SummariesIn(json) \in Nat /\ SummariesIn(w.h) \in Nat
       /\ failures \in Nat /\ failures' \in Nat
  <2>1. human \in Text /\ json \in Text /\ failures \in 0..MaxFailures
    BY DEF ReportInv, TypeOK
  <2>2. failures \in Nat /\ failures' \in Nat
    BY <1>11, <2>1, BoundsAssumption
  <2>3. /\ Findings(human) \in Nat /\ Findings(json) \in Nat
        /\ SummariesIn(human) \in Nat /\ SummariesIn(json) \in Nat
    BY <2>1, FindingsHowMany
  <2>4. Findings(w.h) \in Nat /\ SummariesIn(w.h) \in Nat
    BY <1>6, FindingsHowMany
  <2> QED BY <2>1, <2>2, <2>3, <2>4
<1>13. /\ human' # <<>> => "human" \in outputs'
       /\ json' # <<>> => "json" \in outputs'
  BY <1>1, <1>4, <1>5, <1>8, <1>9, <1>11 DEF ReportInv, TypeOK
<1>14. /\ finding_count' = finding_count + (IF w.ok THEN 1 ELSE 0)
       /\ first_json_finding' = (first_json_finding /\ ~w.ok)
  BY <1>3 DEF Count
<1>15. finding_count' \in 0..calls' /\ finding_count' \in Nat
  BY <1>2, <1>14
<1>16. TypeOK'
  <2>1. first_json_finding' \in BOOLEAN /\ result' \in {0, -1, Null}
    BY <1>3, <1>14
  <2> QED BY <1>1, <1>2, <1>11, <1>13, <1>15, <2>1 DEF ReportInv, TypeOK
<1>17. /\ first_json_finding = (finding_count = 0)
       /\ "json" \in outputs => finding_count = Findings(json)
       /\ "human" \in outputs => Findings(human) \in finding_count..(finding_count + failures)
  BY <1>1, Zenon DEF ReportInv, CountIsWritten, Findings
<1>18. CountIsWritten'
  <2>1. first_json_finding' = (finding_count' = 0)
    <3>1. w.ok => finding_count' # 0
      BY <1>2, <1>14
    <3>2. ~w.ok => finding_count' = finding_count
      BY <1>2, <1>14
    <3> QED BY <1>14, <1>17, <3>1, <3>2
  <2>2. "json" \in outputs' => finding_count' = Findings(json')
    <3>1. "json" \in outputs => Findings(w.j) = IF w.ok THEN 1 ELSE 0
      BY <1>4, <1>5
    <3> QED BY <1>1, <1>2, <1>7, <1>9, <1>11, <1>14, <1>17, <3>1
  <2>3. ASSUME "human" \in outputs
        PROVE  Findings(human') \in finding_count'..(finding_count' + failures')
    <3>1. finding_count <= Findings(human) /\ Findings(human) <= finding_count + failures
      BY <1>2, <1>12, <1>17, <2>3, Between
    <3>2. Findings(human') = Findings(human) + Findings(w.h) /\ Findings(human') \in Nat
      BY <1>9, <1>11, <1>12
    <3>3. CASE w.ok
      <4>1. Findings(w.h) = 1 /\ failures' = failures /\ finding_count' = finding_count + 1
        BY <1>4, <1>5, <1>9, <1>11, <1>12, <1>14, <2>3, <3>3
      <4> QED BY <1>2, <1>12, <1>15, <3>1, <3>2, <4>1, Between
    <3>4. CASE ~w.ok
      <4>1. Findings(w.h) <= 1 /\ failures' = failures + 1 /\ finding_count' = finding_count
        BY <1>2, <1>5, <1>9, <1>11, <1>12, <1>14, <2>3, <3>4
      <4> QED BY <1>2, <1>12, <1>15, <3>1, <3>2, <4>1, Between
    <3> QED BY <3>3, <3>4
  <2> QED BY <1>1, <2>1, <2>2, <2>3, Zenon DEF CountIsWritten, Findings, FindingsIn
<1>19. SummariesSoFar'
  <2>1. SummariesIn(human') = SummariesIn(human) /\ SummariesIn(json') = SummariesIn(json)
    BY <1>5, <1>7, <1>9, <1>11, <1>12
  <2>2. failures' >= failures
    BY <1>11, <1>12
  <2>3. /\ SummariesIn(human) = IF active \/ ~HumanSummaryAsked THEN 0 ELSE 1
        /\ SummariesIn(json) <= IF HumanSummaryAsked THEN failures ELSE 0
    BY <1>1 DEF ReportInv, SummariesSoFar
  <2>4. SummariesIn(json) <= IF HumanSummaryAsked THEN failures' ELSE 0
    BY <1>12, <2>2, <2>3
  <2> QED BY <1>1, <2>1, <2>3, <2>4 DEF SummariesSoFar, HumanSummaryAsked, SummariesIn
<1>20. EndIsHonest'
  BY <1>1 DEF EndIsHonest, Ended
<1> QED BY <1>1, <1>11, <1>16, <1>18, <1>19, <1>20 DEF ReportInv

LEMMA LastToken ==
  ASSUME NEW s \in Text, NEW e \in Token
  PROVE  LET t == s \o <<e>> IN t # <<>> /\ t[Len(t)] = e
<1>1. Len(s) \in Nat
  BY LenProperties DEF Text
<1>2. s \o <<e>> = Append(s, e)
  BY DEF Text
<1>3. Append(s, e)[Len(s) + 1] = e /\ Len(Append(s, e)) = Len(s) + 1 /\ Append(s, e) # <<>>
  BY AppendProperties DEF Text
<1> QED BY <1>1, <1>2, <1>3

LEMMA EndStep ==
  ASSUME ReportInv, NEW counters \in CounterLists, NEW name \in OutcomeNames,
         NEW status \in ExitStatuses, End(counters, name, status)
  PROVE  ReportInv'
<1> DEFINE last    == Summary(finding_count, counters, name, status)
           h       == IF human_summary THEN To("human", <<last>>) ELSE <<>>
           j       == To("json", <<last>>)
<1>1. /\ phase = "begun" /\ phase' = "begun" /\ active /\ validate_counters(counters)
      /\ UNCHANGED <<finding_count, first_json_finding, human_summary, outputs, refused>>
  BY DEF End, Call, IsActive, options
<1>2. /\ calls \in Nat /\ calls' = calls + 1 /\ calls' \in 0..MaxCalls
      /\ finding_count \in Nat /\ finding_count <= calls
  BY CallFacts DEF End
<1>3. PICK w \in JsonThenHuman(h, j) :
        /\ Accept(w)
        /\ result' = IF w.ok THEN 0 ELSE -1
        /\ Ends(w.ok)
  BY DEF End
<1>4. last \in Token /\ ~IsFinding(last) /\ IsSummary(last) /\ last[2] = finding_count
  BY <1>1, <1>2, TokenFacts
<1> HIDE DEF last
<1>5. /\ <<last>> \in Text /\ Findings(<<last>>) = 0 /\ SummariesIn(<<last>>) = 1
      /\ <<>> \in Text /\ Findings(<<>>) = 0 /\ SummariesIn(<<>>) = 0
  BY <1>4, FindingsFew
<1>6. /\ h \in Text /\ Findings(h) = 0 /\ h \in {<<>>, <<last>>} /\ Len(h) <= 1
      /\ j \in Text /\ Findings(j) = 0 /\ Len(j) <= 1 /\ SummariesIn(j) <= 1
      /\ SummariesIn(h) = IF HumanSummaryAsked THEN 1 ELSE 0
      /\ ~HumanSummaryAsked => h = <<>>
      /\ "human" \notin outputs => h = <<>>
      /\ "json" \notin outputs => j = <<>>
      /\ "human" \in outputs /\ human_summary => h = <<last>>
      /\ "json" \in outputs => j = <<last>>
  <2>1. h \in {<<>>, <<last>>} /\ j \in {<<>>, <<last>>}
    BY DEF To
  <2>2. Len(<<last>>) <= 1 /\ Len(<<>>) <= 1
    OBVIOUS
  <2>3. /\ "human" \notin outputs => h = <<>>
        /\ h = IF HumanSummaryAsked THEN <<last>> ELSE <<>>
        /\ "json" \notin outputs => j = <<>>
        /\ "human" \in outputs /\ human_summary => h = <<last>>
        /\ "json" \in outputs => j = <<last>>
    BY DEF To, HumanSummaryAsked
  <2> HIDE DEF h, j
  <2> QED BY <1>5, <2>1, <2>2, <2>3
<1> HIDE DEF h, j
<1>7. /\ w \in Writing
      /\ w.ok => w.h = h /\ w.j = j
      /\ ~w.ok => failures < MaxFailures
      /\ h = <<>> => w.h = <<>>
      /\ j = <<>> => w.j = <<>>
      /\ ~w.ok => Findings(w.j) = 0
      /\ Findings(w.h) <= 0 /\ SummariesIn(w.j) <= SummariesIn(j)
      /\ ~w.ok => SummariesIn(w.h) = 0
      /\ ~w.ok /\ h = <<>> => SummariesIn(w.j) = 0
  BY <1>3, <1>6, WritingFacts
<1>8. w.h \in Text /\ w.j \in Text /\ w.ok \in BOOLEAN
  BY <1>7 DEF Writing
<1>9. /\ human' \in Text /\ json' \in Text
      /\ Findings(human') = Findings(human) + Findings(w.h)
      /\ Findings(json') = Findings(json) + Findings(w.j)
      /\ SummariesIn(human') = SummariesIn(human) + SummariesIn(w.h)
      /\ SummariesIn(json') = SummariesIn(json) + SummariesIn(w.j)
      /\ failures' = failures + (IF w.ok THEN 0 ELSE 1)
      /\ failures' \in 0..MaxFailures
      /\ failures' = 0 => failures = 0 /\ w.ok
      /\ w.h = <<>> => human' = human
      /\ w.j = <<>> => json' = json
  BY <1>3, <1>7, AcceptFacts
<1>10. /\ human \in Text /\ json \in Text
       /\ Findings(human) \in Nat /\ Findings(json) \in Nat /\ Findings(w.h) \in Nat
       /\ SummariesIn(human) \in Nat /\ SummariesIn(json) \in Nat /\ SummariesIn(w.h) \in Nat
       /\ SummariesIn(w.j) \in Nat /\ SummariesIn(j) \in Nat
       /\ failures \in Nat /\ failures' \in Nat /\ failures <= failures'
  <2>1. human \in Text /\ json \in Text /\ failures \in 0..MaxFailures
    BY DEF ReportInv, TypeOK
  <2>2. failures \in Nat /\ failures' \in Nat /\ failures <= failures'
    BY <1>9, <2>1, BoundsAssumption
  <2>3. /\ Findings(human) \in Nat /\ Findings(json) \in Nat
        /\ SummariesIn(human) \in Nat /\ SummariesIn(json) \in Nat
    BY <2>1, FindingsHowMany
  <2>4. Findings(w.h) \in Nat /\ SummariesIn(w.h) \in Nat /\ SummariesIn(w.j) \in Nat
    BY <1>6, <1>8, FindingsHowMany
  <2>5. SummariesIn(j) \in Nat
    BY <1>6, <1>8, FindingsHowMany
  <2> QED BY <2>1, <2>2, <2>3, <2>4, <2>5
<1>11. Findings(json') = Findings(json)
  <2>1. Findings(w.j) = 0
    BY <1>6, <1>7, <1>8
  <2> QED BY <1>9, <1>10, <2>1
<1>12. Findings(human') = Findings(human)
  <2>1. Findings(w.h) <= 0 /\ Findings(w.h) \in Nat /\ Findings(human) \in Nat
    BY <1>7, <1>10
  <2>2. Findings(human') = Findings(human) + Findings(w.h)
    BY <1>9
  <2> QED BY <2>1, <2>2
<1>13. /\ SummariesIn(human) = 0
       /\ SummariesIn(json) <= IF HumanSummaryAsked THEN failures ELSE 0
  BY <1>1 DEF ReportInv, SummariesSoFar
<1>14. active' = ~w.ok
  BY <1>1, <1>3, <1>8 DEF Ends
<1>15. TypeOK'
  <2>1. finding_count' \in 0..calls'
    BY <1>1, <1>2
  <2>2. /\ human' # <<>> => "human" \in outputs'
        /\ json' # <<>> => "json" \in outputs'
    BY <1>1, <1>6, <1>7, <1>9 DEF ReportInv, TypeOK
  <2>3. active' \in BOOLEAN /\ result' \in {0, -1, Null}
    BY <1>3, <1>8, <1>14
  <2> QED BY <1>1, <1>2, <1>9, <2>1, <2>2, <2>3 DEF ReportInv, TypeOK
<1>16. /\ first_json_finding = (finding_count = 0)
       /\ "json" \in outputs => finding_count = Findings(json)
       /\ "human" \in outputs => Findings(human) \in finding_count..(finding_count + failures)
  BY <1>1, Zenon DEF ReportInv, CountIsWritten, Findings
<1>17. CountIsWritten'
  <2>1. first_json_finding' = (finding_count' = 0)
    BY <1>1, <1>16
  <2>2. "json" \in outputs' => finding_count' = Findings(json')
    BY <1>1, <1>11, <1>16
  <2>3. "human" \in outputs' => Findings(human') \in finding_count'..(finding_count' + failures')
    <3>1. failures' >= failures
      BY <1>10
    <3> QED BY <1>1, <1>2, <1>10, <1>12, <1>16, <3>1, Between, Zenon
  <2> QED BY <2>1, <2>2, <2>3, Zenon DEF CountIsWritten, Findings, FindingsIn
<1>18. HumanSummaryAsked' = HumanSummaryAsked
  BY <1>1 DEF HumanSummaryAsked
<1>19. SummariesSoFar'
  <2>1. SummariesIn(human') = IF active' \/ ~HumanSummaryAsked THEN 0 ELSE 1
    <3>1. w.ok => SummariesIn(w.h) = IF HumanSummaryAsked THEN 1 ELSE 0
      BY <1>6, <1>7
    <3>2. SummariesIn(human') = 0 + SummariesIn(w.h)
      BY <1>9, <1>13
    <3>3. ~w.ok => SummariesIn(w.h) = 0
      BY <1>7
    <3>4. SummariesIn(human') = SummariesIn(w.h)
      <4>1. SummariesIn(w.h) \in Nat
        BY <1>10
      <4> QED BY <3>2, <4>1
    <3>5. CASE w.ok
      BY <1>14, <3>1, <3>4, <3>5
    <3>6. CASE ~w.ok
      BY <1>14, <3>3, <3>4, <3>6
    <3> QED BY <3>5, <3>6
  <2>2. active' => SummariesIn(json') <= IF HumanSummaryAsked THEN failures' ELSE 0
    <3>1. ASSUME ~w.ok, HumanSummaryAsked
          PROVE  SummariesIn(json') <= failures'
      <4>1. SummariesIn(w.j) <= 1 /\ failures' = failures + 1 /\ SummariesIn(json) <= failures
        BY <1>6, <1>7, <1>9, <1>10, <1>13, <3>1
      <4>2. SummariesIn(json') = SummariesIn(json) + SummariesIn(w.j)
        BY <1>9
      <4>3. /\ SummariesIn(json) \in Nat /\ SummariesIn(w.j) \in Nat
            /\ failures \in Nat /\ failures' \in Nat
        BY <1>10
      <4> QED BY <4>1, <4>2, <4>3
    <3>2. ASSUME ~w.ok, ~HumanSummaryAsked
          PROVE  SummariesIn(json') <= 0
      <4>1. SummariesIn(w.j) = 0 /\ SummariesIn(json) <= 0
        BY <1>6, <1>7, <1>13, <3>2
      <4> QED BY <1>9, <1>10, <4>1
    <3> QED BY <1>14, <3>1, <3>2
  <2> QED BY <1>18, <2>1, <2>2, Zenon DEF SummariesSoFar, SummariesIn
<1>20. EndIsHonest'
  <2>1. SUFFICES ASSUME w.ok PROVE EndIsHonest'
    BY <1>14 DEF EndIsHonest, Ended
  <2>2. ASSUME "json" \in outputs
        PROVE  json' # <<>> /\ json'[Len(json')] = last
    <3>1. json' = json \o <<last>>
      BY <1>3, <1>6, <1>7, <2>1, <2>2 DEF Accept
    <3> QED BY <1>4, <1>10, <3>1, LastToken
  <2>3. ASSUME "human" \in outputs, human_summary
        PROVE  human' # <<>> /\ human'[Len(human')] = last
    <3>1. human' = human \o <<last>>
      BY <1>3, <1>6, <1>7, <2>1, <2>3 DEF Accept
    <3> QED BY <1>4, <1>10, <3>1, LastToken
  <2>4. "json" \in outputs' =>
          Closed(json') /\ json'[Len(json')][2] = Findings(json')
    BY <1>1, <1>4, <1>11, <1>16, <2>2 DEF Closed
  <2>5. HumanSummaryAsked' =>
          /\ Closed(human') /\ SummariesIn(human') = 1
          /\ Findings(human') - human'[Len(human')][2] \in 0..failures'
    <3>1. SUFFICES ASSUME HumanSummaryAsked, "human" \in outputs, human_summary
                   PROVE  /\ Closed(human') /\ SummariesIn(human') = 1
                          /\ Findings(human') - human'[Len(human')][2] \in 0..failures'
      BY <1>18 DEF HumanSummaryAsked
    <3>2. Closed(human') /\ human'[Len(human')][2] = finding_count
      BY <1>4, <2>3, <3>1 DEF Closed
    <3>3. SummariesIn(human') = 1
      BY <1>6, <1>7, <1>9, <1>13, <2>1, <3>1
    <3>4. finding_count <= Findings(human) /\ Findings(human) <= finding_count + failures
      BY <1>2, <1>10, <1>16, <3>1, Between
    <3>5. Findings(human) - finding_count \in 0..failures'
      BY <1>2, <1>10, <3>4
    <3> QED BY <1>12, <3>2, <3>3, <3>5
  <2>7. "json" \in outputs' =>
          /\ SummariesIn(json') <= 1 + failures'
          /\ ~HumanSummaryAsked' => SummariesIn(json') = 1
    <3>1. SUFFICES ASSUME "json" \in outputs
                   PROVE  /\ SummariesIn(json') <= 1 + failures'
                          /\ ~HumanSummaryAsked => SummariesIn(json') = 1
      BY <1>1, <1>18
    <3>2. SummariesIn(w.j) = 1
      BY <1>5, <1>6, <1>7, <2>1, <3>1
    <3>3. /\ SummariesIn(json') = SummariesIn(json) + SummariesIn(w.j)
          /\ SummariesIn(json) \in Nat /\ failures \in Nat /\ failures' \in Nat
          /\ failures <= failures'
      BY <1>9, <1>10
    <3> QED BY <1>13, <3>2, <3>3
  <2>6. outputs' = {"human", "json"} /\ human_summary' =>
          human'[Len(human')] = json'[Len(json')]
    BY <1>1, <2>2, <2>3
  <2> QED BY <2>4, <2>5, <2>6, <2>7, Zenon
          DEF EndIsHonest, Closed, Findings, FindingsIn, SummariesIn
<1> QED BY <1>1, <1>9, <1>15, <1>17, <1>19, <1>20 DEF ReportInv

-----------------------------------------------------------------------------
(* The findings of a stream, as their reader sees them.                    *)

\* The findings in each of the first n tokens of s, as Found counts them up.
FoundUpTo(s, n, f) ==
  f = [i \in 0..n |-> IF i = 0 THEN <<>>
                      ELSE IF IsFinding(s[i]) THEN Append(f[i - 1], s[i][2]) ELSE f[i - 1]]

LEMMA FoundStepByStep ==
  ASSUME NEW s, NEW n \in Nat, NEW f, FoundUpTo(s, n, f)
  PROVE  /\ f[0] = <<>>
         /\ \A i \in 1..n :
              f[i] = IF IsFinding(s[i]) THEN Append(f[i - 1], s[i][2]) ELSE f[i - 1]
<1> DEFINE h(i) == IF i = 0 THEN <<>>
                   ELSE IF IsFinding(s[i]) THEN Append(f[i - 1], s[i][2]) ELSE f[i - 1]
<1>1. f = [i \in 0..n |-> h(i)]
  BY DEF FoundUpTo
<1>2. \A i \in 1..n : h(i) = IF IsFinding(s[i]) THEN Append(f[i - 1], s[i][2]) ELSE f[i - 1]
  OBVIOUS
<1>3. h(0) = <<>>
  OBVIOUS
<1> HIDE DEF h
<1>4. \A i \in 0..n : f[i] = h(i)
  BY <1>1
<1>5. f[0] = <<>>
  BY <1>3, <1>4
<1>6. \A i \in 1..n : f[i] = h(i)
  BY <1>4
<1> QED BY <1>2, <1>5, <1>6, Zenon

LEMMA FoundExists ==
  ASSUME NEW s
  PROVE  \A n \in Nat : \E f : FoundUpTo(s, n, f)
<1> DEFINE S == {n \in Nat : \E f : FoundUpTo(s, n, f)}
<1>1. 0 \in S
  <2>1. FoundUpTo(s, 0, [i \in 0..0 |-> <<>>])
    BY DEF FoundUpTo
  <2> QED BY <2>1
<1>2. ASSUME NEW n \in Nat, n \in S PROVE n + 1 \in S
  <2>1. PICK f : FoundUpTo(s, n, f)
    BY <1>2
  <2> DEFINE last == IF IsFinding(s[n + 1]) THEN Append(f[n], s[n + 1][2]) ELSE f[n]
             g    == [i \in 0..(n + 1) |-> IF i = n + 1 THEN last ELSE f[i]]
  <2>2. FoundUpTo(s, n + 1, g)
    <3> DEFINE h == [i \in 0..(n + 1) |->
                       IF i = 0 THEN <<>>
                       ELSE IF IsFinding(s[i]) THEN Append(g[i - 1], s[i][2]) ELSE g[i - 1]]
    <3>1. ASSUME NEW i \in 0..(n + 1) PROVE g[i] = h[i]
      <4>1. CASE i = 0
        <5>1. f[0] = <<>>
          BY <2>1, FoundStepByStep
        <5> QED BY <4>1, <5>1
      <4>2. CASE i \in 1..n
        <5>1. g[i] = f[i] /\ g[i - 1] = f[i - 1]
          BY <4>2
        <5>2. h[i] = IF IsFinding(s[i]) THEN Append(g[i - 1], s[i][2]) ELSE g[i - 1]
          BY <4>2
        <5> HIDE DEF g, h
        <5> QED BY <2>1, <4>2, <5>1, <5>2, FoundStepByStep
      <4>3. CASE i = n + 1
        <5>1. g[i] = last /\ g[i - 1] = f[n]
          BY <4>3
        <5>2. h[i] = IF IsFinding(s[i]) THEN Append(g[i - 1], s[i][2]) ELSE g[i - 1]
          BY <4>3
        <5> QED BY <4>3, <5>1, <5>2
      <4> QED BY <4>1, <4>2, <4>3
    <3>2. g = h
      BY <3>1
    <3> QED BY <3>2 DEF FoundUpTo
  <2> QED BY <2>2
<1> HIDE DEF S
<1>3. \A n \in Nat : n \in S
  BY <1>1, <1>2, NumbersOneByOne
<1> QED BY <1>3 DEF S

\* What is found in a text does not depend on what follows it.
LEMMA FoundIsUnique ==
  ASSUME NEW s, NEW t, NEW m \in Nat, NEW n \in Nat, m <= n, NEW f, NEW g,
         FoundUpTo(s, m, f), FoundUpTo(t, n, g), \A i \in 1..m : s[i] = t[i]
  PROVE  f[m] = g[m]
<1> DEFINE S == {i \in Nat : i <= m => f[i] = g[i]}
<1>1. 0 \in S
  BY FoundStepByStep
<1>2. ASSUME NEW i \in Nat, i \in S PROVE i + 1 \in S
  <2>1. SUFFICES ASSUME i + 1 <= m PROVE f[i + 1] = g[i + 1]
    OBVIOUS
  <2>2. i + 1 \in 1..m /\ i + 1 \in 1..n /\ (i + 1) - 1 = i /\ f[i] = g[i]
    BY <1>2, <2>1
  <2>3. /\ f[i + 1] = IF IsFinding(s[i + 1]) THEN Append(f[i], s[i + 1][2]) ELSE f[i]
        /\ g[i + 1] = IF IsFinding(t[i + 1]) THEN Append(g[i], t[i + 1][2]) ELSE g[i]
    BY <2>2, FoundStepByStep
  <2> QED BY <2>2, <2>3
<1> HIDE DEF S
<1>3. m \in S
  BY <1>1, <1>2, NumbersOneByOne
<1> QED BY <1>3 DEF S

LEMMA FoundValue ==
  ASSUME NEW s \in Text
  PROVE  \E f : FoundUpTo(s, Len(s), f) /\ Found(s) = f[Len(s)]
<1> DEFINE f == CHOOSE f : FoundUpTo(s, Len(s), f)
<1>1. Len(s) \in Nat
  BY LenProperties DEF Text
<1>2. FoundUpTo(s, Len(s), f)
  BY <1>1, FoundExists
<1>3. Found(s) = f[Len(s)]
  BY Zenon DEF Found, FoundUpTo
<1> QED BY <1>2, <1>3

LEMMA FoundEmpty == Found(<<>>) = <<>>
<1>1. <<>> \in Text /\ Len(<<>>) = 0
  BY FindingsFew
<1>2. PICK f : FoundUpTo(<<>>, 0, f) /\ Found(<<>>) = f[0]
  BY <1>1, FoundValue
<1> QED BY <1>2 DEF FoundUpTo

\* A token that is added to a stream adds its finding, if it is one.
LEMMA FoundGrows ==
  ASSUME NEW s \in Text, NEW e \in Token
  PROVE  Found(s \o <<e>>) = IF IsFinding(e) THEN Append(Found(s), e[2]) ELSE Found(s)
<1> DEFINE t == s \o <<e>>
           n == Len(s)
<1>1. n \in Nat /\ <<e>> \in Text
  BY LenProperties, FindingsFew DEF Text
<1>2. /\ t \in Text /\ Len(t) = n + 1 /\ t[n + 1] = e
      /\ \A i \in 1..n : s[i] = t[i]
  <2>1. t = Append(s, e)
    BY DEF Text
  <2>2. t \in Text
    BY <1>1, FindingsConcat
  <2> HIDE DEF t
  <2> QED BY <2>1, <2>2, AppendProperties DEF Text
<1>3. PICK f : FoundUpTo(s, n, f) /\ Found(s) = f[n]
  BY FoundValue
<1> HIDE DEF t, n
<1>4. PICK g : FoundUpTo(t, n + 1, g) /\ Found(t) = g[n + 1]
  BY <1>2, FoundValue
<1>5. f[n] = g[n]
  <2>1. n + 1 \in Nat /\ n <= n + 1
    BY <1>1
  <2> QED BY <1>1, <1>2, <1>3, <1>4, <2>1, FoundIsUnique
<1>6. g[n + 1] = IF IsFinding(t[n + 1]) THEN Append(g[n], t[n + 1][2]) ELSE g[n]
  <2>1. n + 1 \in Nat /\ n + 1 \in 1..(n + 1) /\ (n + 1) - 1 = n
    BY <1>1
  <2> QED BY <1>4, <2>1, FoundStepByStep
<1> QED BY <1>2, <1>3, <1>4, <1>5, <1>6, Zenon DEF t

\* There are as many messages in what is found as there are findings.
LEMMA FoundIsCounted ==
  ASSUME NEW s \in Text
  PROVE  Found(s) \in Seq(Messages) /\ Len(Found(s)) = Findings(s)
<1> DEFINE Good(t) == Found(t) \in Seq(Messages) /\ Len(Found(t)) = Findings(t)
           S       == {n \in Nat : \A t \in Text : Len(t) = n => Good(t)}
<1>1. ASSUME NEW t \in Text, t = <<>> PROVE Good(t)
  <2>1. Found(t) = <<>> /\ Findings(t) = 0
    BY <1>1, FoundEmpty, FindingsFew
  <2> QED BY <2>1
<1>2. ASSUME NEW t \in Text, NEW e \in Token, Good(t) PROVE Good(t \o <<e>>)
  <2>1. /\ <<e>> \in Text /\ Findings(<<e>>) = IF IsFinding(e) THEN 1 ELSE 0
        /\ Findings(t \o <<e>>) = Findings(t) + Findings(<<e>>) /\ Findings(t) \in Nat
    BY FindingsFew, FindingsConcat, FindingsHowMany
  <2>2. CASE IsFinding(e)
    <3>1. e[2] \in Messages
      <4>1. PICK d \in Real : e = Finding(d)
        BY <2>2 DEF Token, IsFinding, Torn, Contract, Header, Comma, Note, Summary
      <4> QED BY <4>1 DEF Finding, Messages, Real
    <3>2. Found(t \o <<e>>) = Append(Found(t), e[2])
      BY <2>2, FoundGrows
    <3>3. /\ Append(Found(t), e[2]) \in Seq(Messages)
          /\ Len(Append(Found(t), e[2])) = Len(Found(t)) + 1
      BY <1>2, <3>1, AppendProperties
    <3> QED BY <1>2, <2>1, <2>2, <3>2, <3>3
  <2>3. CASE ~IsFinding(e)
    <3>1. Found(t \o <<e>>) = Found(t)
      BY <2>3, FoundGrows
    <3> QED BY <1>2, <2>1, <2>3, <3>1
  <2> QED BY <2>2, <2>3
<1> HIDE DEF Good
<1>3. 0 \in S
  BY <1>1, EmptySeq DEF Text
<1>4. ASSUME NEW n \in Nat, n \in S PROVE n + 1 \in S
  <2>1. SUFFICES ASSUME NEW t \in Text, Len(t) = n + 1 PROVE Good(t)
    OBVIOUS
  <2>2. t # <<>>
    BY <2>1, EmptySeq
  <2>3. PICK u \in Seq(Token), e \in Token : t = Append(u, e)
    BY <2>2, SequenceEmptyOrAppend DEF Text
  <2>4. t = u \o <<e>> /\ u \in Text /\ Len(t) = Len(u) + 1 /\ Len(u) \in Nat
    BY <2>3, AppendProperties, LenProperties DEF Text
  <2>5. Good(u)
    BY <1>4, <2>1, <2>4
  <2> QED BY <1>2, <2>4, <2>5
<1> HIDE DEF S
<1>5. Len(s) \in Nat /\ Len(s) \in S
  BY <1>3, <1>4, NumbersOneByOne, LenProperties DEF Text
<1> QED BY <1>5 DEF S, Good

\* At most one token that is no finding adds nothing.
LEMMA FoundStays ==
  ASSUME NEW s \in Text, NEW t \in Text, Len(t) <= 1, Findings(t) = 0
  PROVE  Found(s \o t) = Found(s)
<1>1. CASE t = <<>>
  BY <1>1, ConcatEmptySeq DEF Text
<1>2. CASE t # <<>>
  <2>1. PICK u \in Seq(Token), e \in Token : t = Append(u, e)
    BY <1>2, SequenceEmptyOrAppend DEF Text
  <2>2. Len(u) = 0
    BY <2>1, AppendProperties, LenProperties
  <2>3. u = <<>>
    BY <2>2, EmptySeq
  <2>4. t = <<e>>
    BY <2>1, <2>3
  <2>5. ~IsFinding(e)
    BY <2>4, FindingsFew
  <2> QED BY <2>4, <2>5, FoundGrows
<1> QED BY <1>1, <1>2

-----------------------------------------------------------------------------
(* The refinement.                                                         *)

\* A step that adds no finding, closes nothing and does not answer 0 is one of the
\* log's refusals.
LEMMA RefusesLog ==
  ASSUME phase' = "none" <=> phase = "none", outputs' = outputs,
         Found(json') = Found(json), Closing' = Closing,
         result' \in {-1, Null} \/ (phase # "none" /\ "json" \notin outputs)
  PROVE  Log!Refuse
<1>1. Begun' = Begun
  BY DEF Begun, HasJson
<1>2. Answer' \in {-1, Null}
  BY DEF Answer, HasJson
<1> QED BY <1>1, <1>2 DEF Log!Refuse

\* A call of a report that does not end with it closes nothing.
LEMMA ClosingStaysOpen ==
  ASSUME ~Ended \/ "json" \notin outputs, ~Ended' \/ "json" \notin outputs'
  PROVE  Closing = Null /\ Closing' = Null
  BY DEF Closing, HasJson

LEMMA QuietRefines ==
  ASSUME \/ BeginRefused
         \/ \E d \in Diagnostics : EmitRefused(d) \/ CommaFails(d)
         \/ \E c \in CounterLists, name \in OutcomeNames :
              \/ EndCrashes(c, name)
              \/ \E status \in ExitStatuses : EndRefused(c, name, status)
  PROVE  Log!Refuse
<1>1. ASSUME phase' = phase, UNCHANGED <<fields, options, streams>>, result' = -1
      PROVE  Log!Refuse
  <2>1. Closing' = Closing /\ json' = json /\ outputs' = outputs
    BY <1>1 DEF Closing, Ended, HasJson, fields, options, streams
  <2> QED BY <1>1, <2>1, RefusesLog
<1>2. ASSUME NEW c \in CounterLists, NEW name \in OutcomeNames, EndCrashes(c, name)
      PROVE  Log!Refuse
  <2>1. /\ phase = "begun" /\ active /\ phase' = "crashed" /\ result' = Null
        /\ json' = json /\ outputs' = outputs
    BY <1>2 DEF EndCrashes, Call, IsActive, options, streams
  <2>2. Closing' = Closing
    BY <2>1, ClosingStaysOpen DEF Ended
  <2> QED BY <2>1, <2>2, RefusesLog
<1>3. CASE BeginRefused
  BY <1>1, <1>3 DEF BeginRefused
<1>4. ASSUME NEW d \in Diagnostics, EmitRefused(d) \/ CommaFails(d) PROVE Log!Refuse
  BY <1>1, <1>4 DEF EmitRefused, CommaFails, Refuse
<1>5. ASSUME NEW c \in CounterLists, NEW name \in OutcomeNames, NEW status \in ExitStatuses,
             EndRefused(c, name, status)
      PROVE  Log!Refuse
  BY <1>1, <1>5 DEF EndRefused, Refuse
<1> QED BY <1>2, <1>3, <1>4, <1>5

LEMMA BeginRefines ==
  ASSUME ReportInv, Begin
  PROVE  Log!Begin \/ Log!Refuse
<1> DEFINE h == IF "human" \in outputs' THEN <<Contract>> ELSE <<>>
           j == IF "json" \in outputs' THEN <<Header>> ELSE <<>>
<1>1. phase = "none" /\ phase' = "begun" /\ active' = TRUE
  BY DEF Begin
<1>2. PICK w \in HumanThenJson(h, j) : Accept(w) /\ result' = IF w.ok THEN 0 ELSE -1
  BY DEF Begin
<1>3. h \in Text /\ j \in Text /\ Findings(j) = 0 /\ Len(j) <= 1
  <2>1. /\ <<>> \in Text /\ Findings(<<>>) = 0 /\ <<Contract>> \in Text
        /\ <<Header>> \in Text /\ Findings(<<Header>>) = 0
    BY FindingsFew, TokenFacts
  <2> QED BY <2>1
<1>4. "json" \notin outputs' => j = <<>>
  OBVIOUS
<1> HIDE DEF h, j
<1>5. /\ w.j \in Text /\ Len(w.j) <= 1 /\ Findings(w.j) = 0
      /\ j = <<>> => w.j = <<>>
  BY <1>2, <1>3, WritingFacts DEF Writing
<1>6. json = <<>> /\ json' = json \o w.j /\ json \in Text
  BY <1>1, <1>2 DEF ReportInv, Accept
<1>7. Found(json') = Found(json)
  BY <1>5, <1>6, FoundStays
<1>8. Closing = Null /\ Closing' = Null
  BY <1>1, ClosingStaysOpen DEF Ended
<1>9. ~Begun
  BY <1>1 DEF Begun
<1>10. CASE "json" \in outputs'
  <2>1. Begun' = TRUE /\ Begun = FALSE /\ Answer' \in {0, -1}
    BY <1>1, <1>2, <1>9, <1>10 DEF Begun, HasJson, Answer
  <2> QED BY <1>7, <1>8, <2>1 DEF Log!Begin
<1>11. CASE "json" \notin outputs'
  <2>1. Begun' = FALSE /\ Begun = FALSE /\ Answer' = Null
    BY <1>1, <1>9, <1>11 DEF Begun, HasJson, Answer
  <2> QED BY <1>7, <1>8, <2>1 DEF Log!Refuse
<1> QED BY <1>10, <1>11

LEMMA EmitInvalidRefines ==
  ASSUME ReportInv, NEW d \in Diagnostics, EmitInvalid(d)
  PROVE  Log!Refuse
<1>1. /\ phase = "begun" /\ phase' = "begun" /\ active /\ active' = active
      /\ outputs' = outputs /\ json' = json \o Separator /\ result' = -1
  BY DEF EmitInvalid, IsActive, fields, options
<1>2. json \in Text /\ Separator \in Text /\ Findings(Separator) = 0 /\ Len(Separator) <= 1
  BY SeparatorFacts DEF ReportInv
<1>3. Found(json') = Found(json)
  BY <1>1, <1>2, FoundStays
<1>4. Closing' = Closing
  BY <1>1, ClosingStaysOpen DEF Ended
<1> QED BY <1>1, <1>3, <1>4, RefusesLog

LEMMA EmitRefines ==
  ASSUME ReportInv, NEW d \in Diagnostics, Emit(d)
  PROVE  Log!Add \/ Log!Refuse
<1>1. /\ phase = "begun" /\ phase' = "begun" /\ active /\ active' = active /\ d \in Real
      /\ outputs' = outputs
  BY DEF Emit, Call, IsActive, options, Real
<1>2. PICK w \in HumanThenJson(TextRecord(d), JsonObject(d)) :
        /\ Accept([w EXCEPT !.j = Separator \o @])
        /\ result' = IF w.ok THEN 0 ELSE -1
  BY DEF Emit, Outputs
<1>3. /\ TextRecord(d) \in Text /\ JsonObject(d) \in Text /\ Len(JsonObject(d)) <= 1
      /\ "json" \notin outputs => JsonObject(d) = <<>>
  BY <1>1, EmitTexts
<1>4. /\ w.h \in Text /\ w.j \in Text /\ w.ok \in BOOLEAN /\ Len(w.j) <= 1
      /\ w.ok => w.j = JsonObject(d)
      /\ ~w.ok => Findings(w.j) = 0
      /\ JsonObject(d) = <<>> => w.j = <<>>
      /\ w \in Writing
  BY <1>2, <1>3, WritingFacts DEF Writing
<1>5. /\ json \in Text /\ Separator \in Text /\ Findings(Separator) = 0 /\ Len(Separator) <= 1
      /\ "json" \notin outputs => Separator = <<>>
  BY SeparatorFacts DEF ReportInv
<1>6. json' = (json \o Separator) \o w.j
  <2>1. \A x : [w EXCEPT !.j = x].j = x
    BY <1>4 DEF Writing
  <2>2. [w EXCEPT !.j = Separator \o @].j = Separator \o w.j
    BY <2>1, Zenon
  <2>3. json' = json \o (Separator \o w.j)
    BY <1>2, <2>2 DEF Accept
  <2>4. \A t, u, v \in Text : (t \o u) \o v = t \o (u \o v)
    BY ConcatAssociative DEF Text
  <2> QED BY <1>4, <1>5, <2>3, <2>4, Zenon
<1>7. json \o Separator \in Text /\ Found(json \o Separator) = Found(json)
  BY <1>5, FoundStays, FindingsConcat
<1>8. Closing = Null /\ Closing' = Null
  BY <1>1, ClosingStaysOpen DEF Ended
<1>9. CASE ~w.ok
  <2>1. Found(json') = Found(json)
    BY <1>4, <1>6, <1>7, <1>9, FoundStays
  <2> QED BY <1>1, <1>2, <1>8, <1>9, <2>1, RefusesLog
<1>10. CASE "json" \notin outputs
  <2>1. Findings(w.j) = 0
    BY <1>3, <1>4, <1>10, FindingsFew
  <2>2. Found(json') = Found(json)
    BY <1>4, <1>6, <1>7, <2>1, FoundStays
  <2> QED BY <1>1, <1>8, <1>10, <2>2, RefusesLog
<1>11. CASE w.ok /\ "json" \in outputs
  <2>1. w.j = <<Finding(d)>>
    BY <1>4, <1>11 DEF JsonObject, To
  <2>2. Finding(d) \in Token /\ IsFinding(Finding(d)) /\ Finding(d)[2] = d.message
    BY <1>1, TokenFacts DEF Finding
  <2>3. Found(json') = Append(Found(json), d.message)
    BY <1>6, <1>7, <2>1, <2>2, FoundGrows
  <2>4. d.message \in Messages
    BY <1>1 DEF Messages, Real
  <2>5. Begun /\ Begun' = Begun /\ Answer' = 0
    BY <1>1, <1>2, <1>11 DEF Begun, HasJson, Answer
  <2> QED BY <1>8, <2>3, <2>4, <2>5 DEF Log!Add, Log!Open
<1> QED BY <1>4, <1>9, <1>10, <1>11

LEMMA EndRefines ==
  ASSUME ReportInv, NEW c \in CounterLists, NEW name \in OutcomeNames,
         NEW status \in ExitStatuses, End(c, name, status)
  PROVE  Log!Close \/ Log!Refuse
<1> DEFINE last == Summary(finding_count, c, name, status)
           h    == IF human_summary THEN To("human", <<last>>) ELSE <<>>
           j    == To("json", <<last>>)
<1>1. /\ phase = "begun" /\ phase' = "begun" /\ active /\ validate_counters(c)
      /\ outputs' = outputs
  BY DEF End, Call, IsActive, options
<1>2. finding_count \in Nat
  BY CallFacts DEF End
<1>3. PICK w \in JsonThenHuman(h, j) :
        Accept(w) /\ (result' = IF w.ok THEN 0 ELSE -1) /\ Ends(w.ok)
  BY DEF End
<1>4. last \in Token /\ ~IsFinding(last) /\ last[2] = finding_count
  BY <1>1, <1>2, TokenFacts
<1> HIDE DEF last
<1>5. /\ <<last>> \in Text /\ Findings(<<last>>) = 0 /\ Len(<<last>>) = 1
      /\ <<>> \in Text /\ Findings(<<>>) = 0 /\ Len(<<>>) = 0
  BY <1>4, FindingsFew
<1>6. h \in {<<>>, <<last>>} /\ j \in {<<>>, <<last>>}
  BY DEF To
<1>7. IF "json" \in outputs THEN j = <<last>> ELSE j = <<>>
  BY DEF To
<1> HIDE DEF h, j
<1>8. h \in Text /\ j \in Text /\ Findings(j) = 0 /\ Len(j) <= 1
  <2>1. h \in Text /\ j \in Text /\ Findings(j) = 0 /\ Len(j) \in {0, 1}
    BY <1>5, <1>6, Zenon
  <2>2. \A n : n \in {0, 1} => n <= 1
    OBVIOUS
  <2> QED BY <2>1, <2>2, Zenon
<1>9. /\ w.j \in Text /\ w.ok \in BOOLEAN /\ Len(w.j) <= 1
      /\ w.ok => w.j = j
      /\ ~w.ok => Findings(w.j) = 0
  BY <1>3, <1>8, WritingFacts DEF Writing
<1>10. Findings(w.j) = 0
  BY <1>8, <1>9
<1>11. json \in Text /\ json' = json \o w.j
  BY <1>3 DEF ReportInv, Accept
<1>12. Found(json') = Found(json)
  BY <1>9, <1>10, <1>11, FoundStays
<1>13. ~Ended /\ Ended' = w.ok
  BY <1>1, <1>3, <1>9 DEF Ended, Ends
<1>14. CASE ~w.ok \/ "json" \notin outputs
  <2>1. Closing' = Closing
    BY <1>1, <1>13, <1>14, ClosingStaysOpen
  <2> QED BY <1>1, <1>3, <1>12, <1>14, <2>1, RefusesLog
<1>15. CASE w.ok /\ "json" \in outputs
  <2>1. json' = json \o <<last>>
    BY <1>7, <1>9, <1>11, <1>15
  <2>2. json'[Len(json')] = last
    BY <1>4, <1>11, <2>1, LastToken
  <2>3. Closing = Null /\ Closing' = finding_count
    BY <1>1, <1>4, <1>13, <1>15, <2>2 DEF Closing, HasJson
  <2>4. finding_count = Len(Found(json))
    <3>1. finding_count = Findings(json)
      BY <1>1, <1>15 DEF ReportInv, CountIsWritten, Findings
    <3> QED BY <1>11, <3>1, FoundIsCounted
  <2>5. Begun /\ Begun' = Begun /\ Answer' = 0
    BY <1>1, <1>3, <1>15 DEF Begun, HasJson, Answer
  <2> QED BY <1>12, <2>3, <2>4, <2>5 DEF Log!Close, Log!Open
<1> QED BY <1>9, <1>14, <1>15

-----------------------------------------------------------------------------
(* The frame of the JSON text, while no write has failed.                  *)

\* How many tokens a list of n findings with their commas takes.
ListLength(n) == IF n = 0 THEN 0 ELSE 2 * n - 1

\* A stream begins with the header and a list of n findings.
Listed(stream, n) ==
  /\ stream[1] = Header
  /\ \A i \in 1..ListLength(n) :
       IF i % 2 = 1 THEN IsFinding(stream[i + 1]) ELSE stream[i + 1] = Comma

FrameInv ==
  phase # "none" /\ failures = 0 /\ ~refused /\ "json" \in outputs =>
    /\ Listed(json, finding_count)
    /\ active => Len(json) = ListLength(finding_count) + 1
    /\ ~active =>
         /\ Len(json) = ListLength(finding_count) + 2
         /\ IsSummary(json[Len(json)]) /\ json[Len(json)][2] = finding_count

\* A stream, and a token behind it.
Then(s, e) == s \o <<e>>

LEMMA OneMoreToken ==
  ASSUME NEW s \in Text, NEW e \in Token
  PROVE  /\ Then(s, e) \in Text /\ Len(s) \in Nat /\ Len(Then(s, e)) = Len(s) + 1
         /\ Then(s, e)[Len(s) + 1] = e
         /\ \A i \in 1..Len(s) : Then(s, e)[i] = s[i]
<1>1. Then(s, e) = Append(s, e)
  BY DEF Text, Then
<1>2. Then(s, e) \in Text /\ Len(s) \in Nat
  BY FindingsFew, FindingsConcat, LenProperties DEF Text, Then
<1>3. /\ Len(Append(s, e)) = Len(s) + 1 /\ Append(s, e)[Len(s) + 1] = e
      /\ \A i \in 1..Len(s) : Append(s, e)[i] = s[i]
  BY AppendProperties DEF Text
<1> QED BY <1>1, <1>2, <1>3, Zenon

\* What is added behind a list leaves it as it is.
LEMMA ListedStays ==
  ASSUME NEW s \in Text, NEW n \in Nat, NEW e \in Token,
         Listed(s, n), Len(s) > ListLength(n)
  PROVE  Listed(Then(s, e), n)
<1> DEFINE t == Then(s, e)
<1>1. Len(s) \in Nat /\ \A i \in 1..Len(s) : t[i] = s[i]
  BY OneMoreToken
<1>2. ListLength(n) \in Nat
  BY DEF ListLength
<1> HIDE DEF t
<1>3. /\ 1 \in 1..Len(s)
      /\ \A i \in 1..ListLength(n) : i + 1 \in 1..Len(s)
  BY <1>1, <1>2
<1>4. t[1] = Header
  BY <1>1, <1>3 DEF Listed
<1>5. ASSUME NEW i \in 1..ListLength(n)
      PROVE  IF i % 2 = 1 THEN IsFinding(t[i + 1]) ELSE t[i + 1] = Comma
  <2>1. t[i + 1] = s[i + 1]
    BY <1>1, <1>3
  <2> QED BY <2>1 DEF Listed
<1> QED BY <1>4, <1>5 DEF Listed, t

\* A finding, behind a comma unless it is the first, makes the list longer by one.
LEMMA ListedGrows ==
  ASSUME NEW s \in Text, NEW n \in Nat, NEW d \in Real,
         Listed(s, n), Len(s) = ListLength(n) + 1,
         NEW u, u = IF n = 0 THEN s ELSE Then(s, Comma)
  PROVE  LET t == Then(u, Finding(d))
         IN  Listed(t, n + 1) /\ Len(t) = ListLength(n + 1) + 1
<1> DEFINE e == Finding(d)
           t == Then(u, e)
<1>1. e \in Token /\ IsFinding(e) /\ Comma \in Token
  BY TokenFacts
<1> HIDE DEF e
<1>2. CASE n = 0
  <2>1. u = s /\ Len(s) = 1 /\ ListLength(n) = 0 /\ ListLength(n + 1) = 1
    BY <1>2 DEF ListLength
  <2>2. Len(t) = 2 /\ t[2] = e /\ t[1] = s[1]
    <3>1. /\ Len(Then(s, e)) = Len(s) + 1 /\ Then(s, e)[Len(s) + 1] = e
          /\ \A i \in 1..Len(s) : Then(s, e)[i] = s[i]
      BY <1>1, OneMoreToken
    <3>2. 1 \in 1..Len(s) /\ Len(s) + 1 = 2
      BY <2>1
    <3> QED BY <2>1, <3>1, <3>2, Zenon
  <2> HIDE DEF t
  <2>3. t[1] = Header /\ \A i \in 1..1 : i % 2 = 1 /\ IsFinding(t[i + 1])
    BY <1>1, <2>2 DEF Listed
  <2>4. Listed(t, n + 1)
    BY <2>1, <2>3 DEF Listed
  <2>5. Len(t) = ListLength(n + 1) + 1
    BY <2>1, <2>2
  <2> QED BY <2>4, <2>5, Zenon DEF t, e
<1>3. CASE n > 0
  <2>1. /\ u = Then(s, Comma) /\ Len(s) = 2 * n /\ n + 1 # 0
        /\ ListLength(n) = 2 * n - 1 /\ ListLength(n + 1) = 2 * n + 1
    BY <1>3 DEF ListLength
  <2>2. u \in Text /\ Len(u) = 2 * n + 1 /\ u[2 * n + 1] = Comma /\ Listed(u, n)
    <3>1. /\ Then(s, Comma) \in Text /\ Len(Then(s, Comma)) = Len(s) + 1
          /\ Then(s, Comma)[Len(s) + 1] = Comma
      BY <1>1, OneMoreToken
    <3>2. Len(s) > ListLength(n)
      BY <2>1
    <3>3. Listed(Then(s, Comma), n)
      BY <1>1, <3>2, ListedStays
    <3>4. Len(s) + 1 = 2 * n + 1
      BY <2>1
    <3> QED BY <2>1, <3>1, <3>3, <3>4, Zenon
  <2>3. /\ Len(t) = 2 * n + 2 /\ t[2 * n + 2] = e /\ t[2 * n + 1] = Comma
        /\ Listed(t, n)
    <3>1. /\ Len(t) = Len(u) + 1 /\ t[Len(u) + 1] = e
          /\ \A i \in 1..Len(u) : t[i] = u[i]
      BY <1>1, <2>2, OneMoreToken DEF e
    <3>2. Listed(t, n)
      <4>1. Len(u) > ListLength(n)
        BY <2>1, <2>2
      <4>2. Listed(Then(u, e), n)
        BY <1>1, <2>2, <4>1, ListedStays
      <4> QED BY <4>2 DEF e
    <3> HIDE DEF t
    <3>3. 2 * n + 1 \in 1..Len(u) /\ Len(u) + 1 = 2 * n + 2
      <4>1. Len(u) = 2 * n + 1
        BY <2>2
      <4> HIDE DEF e
      <4> QED BY <4>1
    <3> QED BY <2>2, <3>1, <3>2, <3>3
  <2> HIDE DEF t
  <2>4. ASSUME NEW i \in 1..(2 * n + 1)
        PROVE  IF i % 2 = 1 THEN IsFinding(t[i + 1]) ELSE t[i + 1] = Comma
    <3>1. CASE i <= 2 * n - 1
      BY <2>1, <2>3, <3>1 DEF Listed
    <3>2. CASE i = 2 * n
      <4>1. i % 2 = 0 /\ i + 1 = 2 * n + 1
        BY <3>2
      <4> QED BY <2>3, <4>1
    <3>3. CASE i = 2 * n + 1
      <4>1. i % 2 = 1 /\ i + 1 = 2 * n + 2
        BY <3>3
      <4> QED BY <1>1, <2>3, <4>1
    <3> QED BY <3>1, <3>2, <3>3
  <2>5. Listed(t, n + 1)
    BY <2>1, <2>3, <2>4 DEF Listed
  <2>6. Len(t) = ListLength(n + 1) + 1
    BY <2>1, <2>3
  <2> QED BY <2>5, <2>6, Zenon DEF t, e
<1> QED BY <1>2, <1>3

LEMMA FrameInit == Init => FrameInv
  BY DEF Init, FrameInv

LEMMA FrameBegin == ReportInv /\ Begin => FrameInv'
<1>1. SUFFICES ASSUME ReportInv, Begin, failures' = 0, "json" \in outputs' PROVE FrameInv'
  BY DEF FrameInv
<1> DEFINE h == IF "human" \in outputs' THEN <<Contract>> ELSE <<>>
           j == IF "json" \in outputs' THEN <<Header>> ELSE <<>>
<1>2. PICK w \in HumanThenJson(h, j) : Accept(w)
  BY <1>1 DEF Begin
<1>3. h \in Text /\ j \in Text
  BY FindingsFew, TokenFacts
<1> HIDE DEF h
<1>4. w \in Writing /\ (w.ok => w.j = j)
  BY <1>2, <1>3, WritingFacts
<1>5. w.ok
  BY <1>1, <1>2, <1>4, AcceptFacts, WritingFacts, <1>3
<1>6. json = <<>> /\ phase' = "begun" /\ active' = TRUE /\ finding_count' = 0
  BY <1>1 DEF Begin, ReportInv
<1>7. json' = <<Header>>
  <2>1. json' = <<>> \o <<Header>>
    BY <1>1, <1>2, <1>4, <1>5, <1>6 DEF Accept
  <2>2. <<Header>> \in Text
    BY FindingsFew, TokenFacts
  <2> QED BY <2>1, <2>2, ConcatEmptySeq DEF Text
<1>8. Listed(json', 0) /\ Len(json') = 1 /\ ListLength(0) = 0
  BY <1>7 DEF Listed, ListLength
<1> QED BY <1>6, <1>8 DEF FrameInv

LEMMA FrameQuiet ==
  ASSUME FrameInv, phase # "none" \/ phase' = "none",
         UNCHANGED <<active, finding_count, outputs, json>>,
         failures' = 0 => failures = 0, refused' = FALSE => refused = FALSE,
         refused \in BOOLEAN, refused' \in BOOLEAN
  PROVE  FrameInv'
  BY DEF FrameInv, Listed

LEMMA FrameEmitInvalid ==
  ASSUME ReportInv, FrameInv, NEW d \in Diagnostics, EmitInvalid(d)
  PROVE  FrameInv'
<1>1. /\ phase = "begun" /\ phase' = phase /\ json' = json \o Separator
      /\ refused' = (refused \/ Separator # <<>>)
      /\ UNCHANGED <<active, finding_count, outputs, failures>>
  BY DEF EmitInvalid, IsActive, fields, options
<1>2. json \in Text /\ refused \in BOOLEAN
  BY DEF ReportInv, TypeOK
<1>3. CASE Separator = <<>>
  <2>1. json' = json
    BY <1>1, <1>2, <1>3, ConcatEmptySeq DEF Text
  <2> QED BY <1>1, <1>2, <1>3, <2>1, FrameQuiet
<1>4. CASE Separator # <<>>
  BY <1>1, <1>4 DEF FrameInv
<1> QED BY <1>3, <1>4

LEMMA FrameEmit ==
  ASSUME ReportInv, FrameInv, NEW d \in Diagnostics, Emit(d)
  PROVE  FrameInv'
<1>1. SUFFICES ASSUME failures' = 0, ~refused', "json" \in outputs' PROVE FrameInv'
  BY DEF FrameInv
<1>2. /\ phase = "begun" /\ phase' = "begun" /\ active /\ active' = active /\ d \in Real
      /\ outputs' = outputs /\ refused' = refused
  BY DEF Emit, Call, IsActive, options, Real
<1>3. PICK w \in HumanThenJson(TextRecord(d), JsonObject(d)) :
        Accept([w EXCEPT !.j = Separator \o @]) /\ Count(w.ok)
  BY DEF Emit, Outputs
<1>4. TextRecord(d) \in Text /\ JsonObject(d) \in Text
  BY <1>2, EmitTexts
<1>5. w \in Writing /\ w.j \in Text /\ w.ok \in BOOLEAN /\ (w.ok => w.j = JsonObject(d))
  BY <1>3, <1>4, WritingFacts DEF Writing
<1>6. /\ json' = json \o (Separator \o w.j)
      /\ failures' = failures + (IF w.ok THEN 0 ELSE 1)
  <2>1. \A x : [w EXCEPT !.j = x].j = x /\ [w EXCEPT !.j = x].ok = w.ok
    BY <1>5 DEF Writing
  <2>2. /\ [w EXCEPT !.j = Separator \o @].j = Separator \o w.j
        /\ [w EXCEPT !.j = Separator \o @].ok = w.ok
    BY <2>1, Zenon
  <2> QED BY <1>3, <2>2 DEF Accept
<1>7. w.ok /\ failures = 0
  <2>1. failures \in Nat
    BY BoundsAssumption DEF ReportInv, TypeOK
  <2> QED BY <1>1, <1>5, <1>6, <2>1
<1>8. finding_count \in Nat /\ finding_count' = finding_count + 1
  <2>1. finding_count \in Nat
    BY CallFacts DEF Emit
  <2> QED BY <1>3, <1>7, <2>1 DEF Count
<1>9. /\ json \in Text /\ Listed(json, finding_count)
      /\ Len(json) = ListLength(finding_count) + 1
  BY <1>1, <1>2, <1>7 DEF FrameInv, ReportInv
<1>10. w.j = <<Finding(d)>>
  BY <1>1, <1>2, <1>5, <1>7 DEF JsonObject, To
<1>11. json' = (json \o Separator) \o <<Finding(d)>>
  <2>1. \A t, u, v \in Text : (t \o u) \o v = t \o (u \o v)
    BY ConcatAssociative DEF Text
  <2>2. w.j \in Text /\ json \in Text /\ Separator \in Text
    BY <1>5, <1>9, SeparatorFacts
  <2>3. (json \o Separator) \o w.j = json \o (Separator \o w.j)
    BY <2>1, <2>2, Zenon
  <2> QED BY <1>6, <1>10, <2>3, Zenon
<1>12. json \o Separator = IF finding_count = 0 THEN json ELSE json \o <<Comma>>
  <2>1. first_json_finding = (finding_count = 0)
    BY <1>2 DEF ReportInv, CountIsWritten
  <2>2. Separator = IF finding_count = 0 THEN <<>> ELSE <<Comma>>
    BY <1>1, <1>2, <2>1 DEF Separator, To
  <2>3. json \o <<>> = json
    BY <1>9, ConcatEmptySeq DEF Text
  <2> QED BY <2>2, <2>3, Zenon
<1>13. Listed(json', finding_count') /\ Len(json') = ListLength(finding_count') + 1
  <2> DEFINE u == json \o Separator
  <2>1. u = IF finding_count = 0 THEN json ELSE Then(json, Comma)
    BY <1>12 DEF Then
  <2>2. json' = Then(u, Finding(d))
    BY <1>11 DEF Then
  <2> HIDE DEF u
  <2> QED BY <1>2, <1>8, <1>9, <2>1, <2>2, ListedGrows
<1> QED BY <1>2, <1>13 DEF FrameInv

LEMMA FrameEnd ==
  ASSUME ReportInv, FrameInv, NEW c \in CounterLists, NEW name \in OutcomeNames,
         NEW status \in ExitStatuses, End(c, name, status)
  PROVE  FrameInv'
<1>1. SUFFICES ASSUME failures' = 0, ~refused', "json" \in outputs' PROVE FrameInv'
  BY DEF FrameInv
<1> DEFINE last == Summary(finding_count, c, name, status)
           h    == IF human_summary THEN To("human", <<last>>) ELSE <<>>
           j    == To("json", <<last>>)
<1>2. /\ phase = "begun" /\ phase' = "begun" /\ active /\ validate_counters(c)
      /\ outputs' = outputs /\ refused' = refused /\ finding_count' = finding_count
  BY DEF End, Call, IsActive, options
<1>3. PICK w \in JsonThenHuman(h, j) : Accept(w) /\ Ends(w.ok)
  BY DEF End
<1>4. finding_count \in Nat
  BY CallFacts DEF End
<1>5. last \in Token /\ IsSummary(last) /\ last[2] = finding_count
  BY <1>2, <1>4, TokenFacts
<1> HIDE DEF last
<1>6. h \in {<<>>, <<last>>} /\ j = <<last>>
  BY <1>1, <1>2 DEF To
<1> HIDE DEF h, j
<1>7. h \in Text /\ j \in Text
  BY <1>5, <1>6, FindingsFew, Zenon
<1>8. w.ok \in BOOLEAN /\ (w.ok => w.j = j)
  BY <1>3, <1>7, WritingFacts DEF Writing
<1>9. w.ok /\ failures = 0
  <2>1. failures \in Nat /\ failures' = failures + (IF w.ok THEN 0 ELSE 1)
    BY <1>3, BoundsAssumption DEF ReportInv, TypeOK, Accept
  <2> QED BY <1>1, <1>8, <2>1
<1>10. json' = Then(json, last) /\ ~active'
  BY <1>3, <1>6, <1>8, <1>9 DEF Accept, Ends, Then
<1>11. /\ json \in Text /\ Listed(json, finding_count) /\ Len(json) \in Nat
       /\ Len(json) = ListLength(finding_count) + 1 /\ ListLength(finding_count) \in Nat
  <2>1. json \in Text /\ Listed(json, finding_count)
        /\ Len(json) = ListLength(finding_count) + 1
    BY <1>1, <1>2, <1>9 DEF FrameInv, ReportInv
  <2>2. Len(json) \in Nat
    BY <2>1, LenProperties DEF Text
  <2> QED BY <1>4, <2>1, <2>2 DEF ListLength
<1>12. Listed(json', finding_count')
  BY <1>2, <1>4, <1>5, <1>10, <1>11, ListedStays
<1>13. Len(json') = ListLength(finding_count) + 2 /\ json'[Len(json')] = last
  BY <1>5, <1>10, <1>11, OneMoreToken
<1> QED BY <1>2, <1>5, <1>10, <1>12, <1>13 DEF FrameInv

LEMMA FrameStep == ReportInv /\ FrameInv /\ [Next]_vars => FrameInv'
<1>1. SUFFICES ASSUME ReportInv, FrameInv, [Next]_vars PROVE FrameInv'
  OBVIOUS
<1>2. refused \in BOOLEAN /\ failures \in Nat
  BY <1>1, BoundsAssumption DEF ReportInv, TypeOK
<1>3. CASE UNCHANGED vars
  BY <1>1, <1>2, <1>3, FrameQuiet DEF vars, fields, options, streams
<1>4. CASE BeginRefused
  BY <1>1, <1>2, <1>4, FrameQuiet DEF BeginRefused, fields, options, streams
<1>5. ASSUME NEW d \in Diagnostics, EmitRefused(d) PROVE FrameInv'
  BY <1>1, <1>2, <1>5, FrameQuiet DEF EmitRefused, Refuse, Call, fields, options, streams
<1>6. ASSUME NEW d \in Diagnostics, CommaFails(d) PROVE FrameInv'
  <2>1. failures' # 0
    BY <1>2, <1>6 DEF CommaFails
  <2> QED BY <1>1, <1>2, <1>6, <2>1, FrameQuiet
           DEF CommaFails, Call, fields, options, streams
<1>7. ASSUME NEW c \in CounterLists, NEW name \in OutcomeNames, EndCrashes(c, name)
      PROVE  FrameInv'
  BY <1>1, <1>2, <1>7, FrameQuiet DEF EndCrashes, Call, fields, options, streams
<1>8. ASSUME NEW c \in CounterLists, NEW name \in OutcomeNames, NEW status \in ExitStatuses,
             EndRefused(c, name, status)
      PROVE  FrameInv'
  BY <1>1, <1>2, <1>8, FrameQuiet DEF EndRefused, Refuse, Call, fields, options, streams
<1> QED
  BY <1>1, <1>3, <1>4, <1>5, <1>6, <1>7, <1>8, FrameBegin, FrameEmitInvalid, FrameEmit, FrameEnd
  DEF Next

-----------------------------------------------------------------------------
(* The theorems.                                                           *)

LEMMA ReportStep == ReportInv /\ [Next]_vars => ReportInv'
<1>1. SUFFICES ASSUME ReportInv, [Next]_vars PROVE ReportInv'
  OBVIOUS
<1>2. CASE UNCHANGED vars
  <2>1. UNCHANGED <<fields, options, streams, phase, calls, failures, result, refused>>
    BY <1>2 DEF vars
  <2>2. /\ calls \in 0..MaxCalls /\ failures \in 0..MaxFailures
        /\ result \in {0, -1, Null} /\ refused \in BOOLEAN
    BY <1>1 DEF ReportInv, TypeOK
  <2>3. calls' >= calls
    BY <2>1, <2>2, BoundsAssumption
  <2> QED BY <1>1, <2>1, <2>2, <2>3, QuietStep
<1>3. CASE Begin
  BY <1>1, <1>3, BeginStep
<1>4. ASSUME NEW d \in Diagnostics, EmitInvalid(d) \/ Emit(d) PROVE ReportInv'
  BY <1>1, <1>4, EmitInvalidStep, EmitStep
<1>5. ASSUME NEW c \in CounterLists, NEW name \in OutcomeNames, NEW status \in ExitStatuses,
             End(c, name, status)
      PROVE  ReportInv'
  BY <1>1, <1>5, EndStep
<1> QED BY <1>1, <1>2, <1>3, <1>4, <1>5, RefusedSteps DEF Next

LEMMA ReportInvariance == Spec => []ReportInv
  BY ReportInit, ReportStep, PTL DEF Spec

\* Every variable of a report has its type, and only the streams it was begun with are
\* written to.
THEOREM StreamsAreTyped == Spec => []TypeOK
  BY ReportInvariance, PTL DEF ReportInv

\* finding_count is the number of findings that are whole in the JSON stream, whichever
\* write failed and whatever the caller did then; the human stream holds as many, or one
\* more for each failed write at most.
THEOREM CountIsTrue == Spec => []CountIsWritten
  BY ReportInvariance, PTL DEF ReportInv

\* Once end has said 0, each stream that gets a summary ends with it, and both say the same.
\* The one in JSON counts the findings above it; the one for people leaves out at most one
\* finding for each failed write.  Only a human summary that failed leaves an earlier summary
\* in the JSON stream.
THEOREM SummaryIsHonest == Spec => []EndIsHonest
  BY ReportInvariance, PTL DEF ReportInv

\* Without a failing write, and without an emit that was refused behind its comma, a report
\* that has ended is one JSON text: the header, the findings with a comma between any two,
\* and one summary that counts them.
THEOREM ReportIsFramed == Spec => []EndedIsFramed
<1>1. Spec => []FrameInv
  BY FrameInit, FrameStep, ReportInvariance, PTL DEF Spec
<1>2. ReportInv /\ FrameInv => EndedIsFramed
  <2>1. SUFFICES ASSUME ReportInv, FrameInv, Ended, failures = 0, ~refused, "json" \in outputs
                 PROVE  Framed(json)
    BY DEF EndedIsFramed
  <2> DEFINE n == finding_count
  <2>2. n \in Nat /\ FindingsIn(json, Len(json)) = n
    <3>1. n \in 0..calls /\ calls \in Nat
      BY <2>1, BoundsAssumption DEF ReportInv, TypeOK
    <3> QED BY <2>1, <3>1 DEF ReportInv, CountIsWritten, Ended
  <2>3. /\ Listed(json, n) /\ Len(json) = ListLength(n) + 2
        /\ IsSummary(json[ListLength(n) + 2]) /\ json[ListLength(n) + 2][2] = n
    BY <2>1 DEF FrameInv, Ended
  <2> HIDE DEF n
  <2>4. ListLength(n) = IF n = 0 THEN 0 ELSE 2 * n - 1
    BY DEF ListLength
  <2> QED BY <2>2, <2>3, <2>4, Zenon DEF Framed, Listed
<1> QED BY <1>1, <1>2, ReportInvariance, PTL

\* No two members of a summary object have the same key.
THEOREM KeysDiffer == Spec => []SummaryKeysDiffer
<1>1. ReportInv => SummaryKeysDiffer
  <2>1. SUFFICES ASSUME ReportInv, NEW i \in 1..Len(json), IsSummary(json[i])
                 PROVE  LET keys == <<"findings">> \o json[i][3]
                        IN  \A j, k \in 1..Len(keys) : j # k => keys[j] # keys[k]
    BY DEF SummaryKeysDiffer
  <2>2. json[i] \in Token
    BY <2>1, ElementOfSeq DEF ReportInv, Text
  <2>3. PICK n \in Nat, c \in {c \in CounterLists : validate_counters(c)},
             name \in OutcomeNames, status \in ExitStatuses :
               json[i] = Summary(n, c, name, status)
    BY <2>1, <2>2
    DEF Token, IsSummary, Torn, Contract, Header, Comma, Finding, Note
  <2>4. json[i][3] = c /\ c \in CounterLists \ {Null} /\ validate_counters(c)
    <3>1. c \in CounterLists /\ validate_counters(c)
      BY <2>3, Zenon
    <3>2. c # Null
      BY <3>1 DEF validate_counters
    <3>3. Summary(n, c, name, status)[3] = c
      BY DEF Summary
    <3> QED BY <3>1, <3>2, <3>3, <2>3
  <2>5. PICK S : c \in Seq(S)
    BY <2>4, CountersAssumption
  <2>6. Len(c) \in Nat
    BY <2>5
  <2>7. /\ \A j \in 1..Len(c) : c[j] # "findings"
        /\ \A j, k \in 1..Len(c) : j < k => c[j] # c[k]
    BY <2>4, <2>6 DEF validate_counters
  <2> DEFINE keys == <<"findings">> \o c
  <2>8. /\ Len(keys) = Len(c) + 1
        /\ keys[1] = "findings"
        /\ \A j \in 2..Len(keys) : keys[j] = c[j - 1]
    <3>1. <<"findings">> \in Seq(S \cup {"findings"}) /\ c \in Seq(S \cup {"findings"})
      BY <2>5
    <3>2. /\ Len(keys) = 1 + Len(c)
          /\ \A j \in 1..(1 + Len(c)) :
               keys[j] = IF j <= 1 THEN <<"findings">>[j] ELSE c[j - 1]
      BY <3>1, ConcatProperties
    <3> HIDE DEF keys
    <3> QED BY <2>6, <3>2
  <2> HIDE DEF keys
  <2>9. \A j, k \in 1..Len(keys) : j < k => keys[j] # keys[k]
    <3>1. SUFFICES ASSUME NEW j \in 1..Len(keys), NEW k \in 1..Len(keys), j < k
                   PROVE  keys[j] # keys[k]
      OBVIOUS
    <3>2. k \in 2..Len(keys) /\ k - 1 \in 1..Len(c) /\ keys[k] = c[k - 1]
      BY <2>6, <2>8, <3>1
    <3>3. CASE j = 1
      BY <2>7, <2>8, <3>2, <3>3
    <3>4. CASE j # 1
      <4>1. j - 1 \in 1..Len(c) /\ j - 1 < k - 1 /\ keys[j] = c[j - 1]
        BY <2>6, <2>8, <3>1, <3>4
      <4> QED BY <2>7, <3>2, <4>1
    <3> QED BY <3>3, <3>4
  <2>10. \A j, k \in 1..Len(keys) : j # k => keys[j] # keys[k]
    <3>1. Len(keys) \in Nat
      BY <2>6, <2>8
    <3> QED BY <2>9, <3>1
  <2> QED BY <2>4, <2>10 DEF keys
<1> QED BY <1>1, ReportInvariance, PTL

\* A report that has ended is never written to again.
THEOREM EndIsFinal == Spec => EndedStaysAsItIs
<1>1. [Next]_vars => [Ended => UNCHANGED <<fields, streams>>]_vars
  <2>1. SUFFICES ASSUME Next, Ended PROVE UNCHANGED <<fields, streams>>
    OBVIOUS
  <2>2. phase = "begun" /\ ~active
    BY <2>1 DEF Ended
  <2>3. ~Begin /\ ~BeginRefused
    BY <2>2 DEF Begin, BeginRefused
  <2>4. ASSUME NEW d \in Diagnostics
        PROVE  /\ ~CommaFails(d) /\ ~EmitInvalid(d) /\ ~Emit(d)
               /\ EmitRefused(d) => UNCHANGED <<fields, streams>>
    BY <2>2 DEF CommaFails, EmitInvalid, Emit, EmitRefused, Refuse, IsActive
  <2>5. ASSUME NEW c \in CounterLists, NEW name \in OutcomeNames, NEW status \in ExitStatuses
        PROVE  /\ ~End(c, name, status)
               /\ EndRefused(c, name, status) => UNCHANGED <<fields, streams>>
    BY <2>2 DEF End, EndRefused, Refuse, IsActive
  <2>6. ASSUME NEW c \in CounterLists, NEW name \in OutcomeNames
        PROVE  ~EndCrashes(c, name)
    BY <2>2 DEF EndCrashes, IsActive
  <2> QED BY <2>1, <2>3, <2>4, <2>5, <2>6 DEF Next
<1> QED BY <1>1, PTL DEF Spec, EndedStaysAsItIs

\* Whatever fails, and whatever the caller does then, the JSON stream is a log: each call
\* adds the one finding it was asked to write, closes the list with its length, or leaves
\* it as it is; and it answers 0 only if it has done so.
THEOREM ReportIsLog == Spec => IsLog
<1>1. Init => Log!Init
  <2>1. SUFFICES ASSUME Init PROVE Log!Init
    OBVIOUS
  <2>2. phase = "none" /\ json = <<>> /\ result = Null /\ ~Ended
    BY <2>1 DEF Init, Ended
  <2>3. Begun = FALSE /\ Closing = Null /\ Answer = Null
    BY <2>2 DEF Begun, Closing, Answer
  <2> QED BY <2>2, <2>3, FoundEmpty DEF Log!Init
<1>2. ReportInv /\ [Next]_vars => [Log!Next]_Log!vars
  <2>1. SUFFICES ASSUME ReportInv, [Next]_vars PROVE [Log!Next]_Log!vars
    OBVIOUS
  <2>2. CASE UNCHANGED vars
    <3>1. UNCHANGED <<phase, active, outputs, json, result>>
      BY <2>2 DEF vars, fields, options, streams
    <3>2. UNCHANGED <<Begun, Closing, Answer>> /\ Found(json') = Found(json)
      BY <3>1 DEF Begun, Closing, Answer, HasJson, Ended
    <3> QED BY <3>2 DEF Log!vars
  <2>3. CASE Begin
    BY <2>1, <2>3, BeginRefines DEF Log!Next
  <2>4. ASSUME NEW d \in Diagnostics, EmitInvalid(d) \/ Emit(d) PROVE Log!Next
    BY <2>1, <2>4, EmitInvalidRefines, EmitRefines DEF Log!Next
  <2>5. ASSUME NEW c \in CounterLists, NEW name \in OutcomeNames, NEW status \in ExitStatuses,
               End(c, name, status)
        PROVE  Log!Next
    BY <2>1, <2>5, EndRefines DEF Log!Next
  <2>6. \/ Begin
        \/ \E d \in Diagnostics : EmitInvalid(d) \/ Emit(d)
        \/ \E c \in CounterLists, name \in OutcomeNames, status \in ExitStatuses :
             End(c, name, status)
        \/ Log!Refuse
        \/ UNCHANGED vars
    BY <2>1, QuietRefines DEF Next
  <2>7. Log!Refuse => Log!Next
    BY DEF Log!Next
  <2> QED BY <2>2, <2>3, <2>4, <2>5, <2>6, <2>7
<1> QED BY <1>1, <1>2, ReportInvariance, PTL DEF Spec, IsLog, Log!Spec
=============================================================================
