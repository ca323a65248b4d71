----------------------------- MODULE FnvMultiply -----------------------------
(***************************************************************************)
(* fnv1a64_multiply (src/receipt.c): the product of a word with the FNV    *)
(* prime, computed on the two halves of the word.                          *)
(***************************************************************************)
EXTENDS Integers

CONSTANTS
  HalfWord,   \* 2^FNV_WORD_BITS
  PrimeHigh,  \* the prime is PrimeHigh * 2^FNV_WORD_BITS + PrimeLow:
  PrimeLow    \* 256 and 435

\* The halves of the prime are small against a half word.
ASSUME PrimeAssumption ==
  /\ HalfWord \in Nat /\ PrimeHigh \in Nat /\ PrimeLow \in Nat
  /\ PrimeHigh + PrimeLow + 1 <= HalfWord

Word  == HalfWord * HalfWord
Prime == PrimeHigh * HalfWord + PrimeLow

Hashes == 0..(Word - 1)

value_low(value)  == value % HalfWord
value_high(value) == value \div HalfWord

\* Mutant: the whole value is multiplied where its low half is meant.
WholeProduct(value) == value * PrimeLow

low_product(value) == value_low(value) * PrimeLow

\* Mutant: the carry of the low product is dropped.
HighSumNoCarry(value) == value_low(value) * PrimeHigh + value_high(value) * PrimeLow

\* What is masked to make high_word.
HighSum(value) ==
  low_product(value) \div HalfWord + value_low(value) * PrimeHigh
                                   + value_high(value) * PrimeLow

high_word(value) == (HighSum(value) % Word) % HalfWord

\* Mutant: the prime is mistyped, by one.
EvenMultiply(value) == (value * (Prime + 1)) % Word

\* The masks are remainders, the shifts products and quotients, and the `or' joins
\* two halves that do not overlap.
fnv1a64_multiply(value) ==
  high_word(value) * HalfWord + ((low_product(value) % Word) % HalfWord)
=============================================================================
