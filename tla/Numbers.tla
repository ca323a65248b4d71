------------------------------- MODULE Numbers -------------------------------
(***************************************************************************)
(* The loops that read a number from a receipt, receipt_parse_size and     *)
(* receipt_parse_hex (src/receipt.c), on a text of character codes that    *)
(* ends with a NUL.  The arithmetic is that of a word of the machine.      *)
(***************************************************************************)
EXTENDS Integers, Sequences

CONSTANTS
  SizeMax,     \* SIZE_MAX
  HexLength,   \* DIGEST_HEX_LEN
  HexWord,     \* 2^64: how many numbers that many hexadecimal digits make
  Characters,  \* character codes, NUL not among them
  MaxLength    \* bound: characters before the NUL

DECIMAL_BASE == 10
HEX_BASE     == 16   \* a shift by JSON_UNICODE_HEX_DIGITS

Power(b, n) == LET p[k \in Nat] == IF k = 0 THEN 1 ELSE b * p[k - 1] IN p[n]

ASSUME WordAssumption ==
  /\ SizeMax \in Nat /\ SizeMax >= DECIMAL_BASE
  /\ HexLength \in Nat /\ HexWord \in Nat \ {0} /\ HexWord = Power(HEX_BASE, HexLength)
  /\ MaxLength \in Nat
  /\ Characters \subseteq 1..255

VARIABLES
  parser,   \* the function: "size" or "hex"
  text,     \* the characters from the one *cursor points to when it is called
  cursor,   \* *cursor, as an index of text
  index,    \* the loop counter of receipt_parse_hex
  parsed,   \* the number so far
  result,   \* 1 while the loop runs, then 0 or -1
  exact     \* history: the number so far, in integers without a bound

vars == <<parser, text, cursor, index, parsed, result, exact>>

NUL == 0

\* Mutant: every code up to '9' is taken for a digit.
IsDigitOrBelow(c) == c <= 57

IsDigit(c) == 48 <= c /\ c <= 57
IsLetter(c) == 97 <= c /\ c <= 102   \* 'a' to 'f'

Init ==
  /\ parser \in {"size", "hex"}
  /\ text \in {t \o <<NUL>> : t \in UNION {[1..n -> Characters] : n \in 0..MaxLength}}
  /\ cursor = 1 /\ index = 0
  /\ parsed = 0 /\ exact = 0
  /\ result = 1

-----------------------------------------------------------------------------
Running(p) == parser = p /\ result = 1

Fail ==
  /\ result' = -1
  /\ UNCHANGED <<parser, text, cursor, index, parsed, exact>>

\* Mutant: the digit to be added is left out of the test.
PassesByTen(digit) == parsed > SizeMax \div DECIMAL_BASE

\* Mutant: SIZE_MAX itself is refused.
PassesEarly(digit) == parsed >= (SizeMax - digit) \div DECIMAL_BASE

\* Ten times the number and the digit would pass SIZE_MAX.
Passes(digit) == parsed > (SizeMax - digit) \div DECIMAL_BASE

\* One turn of the loop of receipt_parse_size.
SizeDigit ==
  /\ Running("size")
  /\ IsDigit(text[cursor])
  /\ LET digit == text[cursor] - 48
     IN  IF Passes(digit)
           THEN Fail
           ELSE /\ parsed' = (parsed * DECIMAL_BASE + digit) % (SizeMax + 1)
                /\ exact' = exact * DECIMAL_BASE + digit
                /\ cursor' = cursor + 1
                /\ UNCHANGED <<parser, text, index, result>>

\* The loop ends at the first character that is no digit; there has to be one.
SizeEnds ==
  /\ Running("size")
  /\ ~IsDigit(text[cursor])
  /\ result' = IF cursor = 1 THEN -1 ELSE 0
  /\ UNCHANGED <<parser, text, cursor, index, parsed, exact>>

HexDigit(c) == IF IsDigit(c) THEN c - 48 ELSE c - 97 + DECIMAL_BASE

\* One turn of the loop of receipt_parse_hex.
HexTurn ==
  /\ Running("hex") /\ index < HexLength
  /\ LET c == text[cursor + index]
     IN  IF IsDigit(c) \/ IsLetter(c)
           THEN /\ parsed' = (parsed * HEX_BASE + HexDigit(c)) % HexWord
                /\ exact' = exact * HEX_BASE + HexDigit(c)
                /\ index' = index + 1
                /\ UNCHANGED <<parser, text, cursor, result>>
           ELSE Fail

\* The loop has seen all its digits; what follows them is not looked at.
HexEnds ==
  /\ Running("hex") /\ index = HexLength
  /\ cursor' = cursor + HexLength
  /\ result' = 0
  /\ UNCHANGED <<parser, text, index, parsed, exact>>

Next == SizeDigit \/ SizeEnds \/ HexTurn \/ HexEnds

Spec == Init /\ [][Next]_vars

-----------------------------------------------------------------------------
(* Properties.                                                             *)

DigitOf(c) == CHOOSE d \in 0..15 : c \in {48 + d, 87 + d} /\ (c < 97 <=> d < 10)

\* What the first n characters of s denote: each digit times the weight of its place.
Denotes(s, n, base) ==
  LET sum[k \in 0..n] ==
        IF k = 0 THEN 0 ELSE sum[k - 1] + DigitOf(s[k]) * Power(base, n - k)
  IN  sum[n]

\* The first character of the text that is no decimal digit.
EndOfDigits == CHOOSE i \in 1..Len(text) :
  /\ text[i] \notin 48..57
  /\ \A j \in 1..(i - 1) : text[j] \in 48..57

\* Every variable has its type, and no character past the NUL is looked at: the
\* loops have no length and rely on NUL being neither a digit nor a letter.
TypeOK ==
  /\ parser \in {"size", "hex"}
  /\ result \in {-1, 0, 1}
  /\ cursor \in 1..Len(text)
  /\ index \in 0..HexLength /\ index <= Len(text) - 1
  /\ parsed \in Nat /\ exact \in Nat

\* An accepted number is the one its digits denote, all of them, and the cursor
\* stands behind the last.
AcceptedIsDenoted ==
  result = 0 =>
    /\ parser = "size" => cursor = EndOfDigits /\ parsed = Denotes(text, cursor - 1, 10)
    /\ parser = "hex" => cursor = HexLength + 1 /\ parsed = Denotes(text, cursor - 1, 16)

\* A refused number has no digits, a character that is none, or passes SIZE_MAX:
\* SIZE_MAX itself is never refused.
RefusedIsDeserved ==
  result = -1 =>
    /\ parser = "size" =>
         EndOfDigits = 1 \/ Denotes(text, EndOfDigits - 1, 10) > SizeMax
    /\ parser = "hex" =>
         \E i \in 1..HexLength : i > Len(text) \/ text[i] \notin (48..57) \cup (97..102)
=============================================================================
