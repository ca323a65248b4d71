-------------------------------- MODULE Fnv1a --------------------------------
(***************************************************************************)
(* fnv1a64_bytes (src/receipt.c), as it hashes two texts of one length     *)
(* that differ in one byte at most: a text, and the text after one of its  *)
(* bytes was damaged.                                                      *)
(***************************************************************************)
EXTENDS FnvMultiply

CONSTANTS
  Bytes,     \* the values of a byte
  BitXor(_, _), \* the operator ^ of C
  Offset     \* FNV1A64_OFFSET

ASSUME HashAssumption == Bytes \subseteq Nat /\ Offset \in Hashes

ASSUME XorAssumption ==
  \A h \in Hashes, b \in Bytes :
    /\ BitXor(h, b) \in Hashes
    /\ \A g \in Hashes : BitXor(g, b) = BitXor(h, b) => g = h
    /\ \A c \in Bytes : BitXor(h, c) = BitXor(h, b) => c = b

\* The prime is odd, which is to say that it has an inverse modulo the word.
ASSUME InverseAssumption == \E p \in Hashes : \E q \in Hashes : p * Prime = q * Word + 1

VARIABLES
  hash, damaged_hash,  \* the hashes of the two texts so far
  damaged              \* history: the damaged byte has been hashed

hashVars == <<hash, damaged_hash, damaged>>

HashInit == hash = Offset /\ damaged_hash = Offset /\ damaged = FALSE

\* One turn of the loop.
HashByte(h, byte) == fnv1a64_multiply(BitXor(h, byte))

SameByte ==
  /\ \E byte \in Bytes :
       /\ hash' = HashByte(hash, byte)
       /\ damaged_hash' = HashByte(damaged_hash, byte)
  /\ UNCHANGED damaged

DamagedByte ==
  /\ ~damaged /\ damaged' = TRUE
  /\ \E byte, other \in Bytes :
       /\ byte # other
       /\ hash' = HashByte(hash, byte)
       /\ damaged_hash' = HashByte(damaged_hash, other)

HashNext == SameByte \/ DamagedByte

HashSpec == HashInit /\ [][HashNext]_hashVars

-----------------------------------------------------------------------------
(* Properties.                                                             *)

\* The hashes are words.
HashTypeOK == hash \in Hashes /\ damaged_hash \in Hashes /\ damaged \in BOOLEAN

\* The two halves and their carry make the product modulo the word, `the
\* intentional wrap' of the comment in fnv1a64_multiply.
MultiplyIsProduct == fnv1a64_multiply(hash) = (hash * Prime) % Word

\* No operation on the way passes the word: a build that `instruments unsigned
\* overflow' has nothing to report.
NoIntermediateWrap == low_product(hash) < Word /\ HighSum(hash) < Word

\* A text and the same text with one byte damaged never have the same hash,
\* whatever comes before the byte and however much comes after it.
OneByteShows == damaged => hash # damaged_hash
=============================================================================
