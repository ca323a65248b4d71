------------------------------- MODULE MCDigest -------------------------------
(***************************************************************************)
(* Small instances of DigestBytes and Fnv1a: what a receipt's digest is    *)
(* computed from, and how.                                                 *)
(*                                                                         *)
(* For DigestBytes: bytes of four values, words of two bytes, and receipts *)
(* that differ in texts which hold the label of the next field, in         *)
(* numbers, and in their fingerprint.  For Fnv1a: words of two four-bit    *)
(* halves, bytes of two bits, and an odd prime.                            *)
(***************************************************************************)
EXTENDS DigestBytes, Fnv1a, Bitwise

MCXor(h, b) == h ^^ b

MCWeight == [k \in 0..2 |-> 4^k]

MCLabelOf(s) ==
  CASE s \in {"first_diagnostic", "fingerprint_bytes"} -> <<2>>
    [] s \in {"field", "does_not_prove"}               -> <<1>>
    [] OTHER                                           -> <<3>>

\* failed_stage and first_diagnostic.
Failures == { << <<>>, <<>> >>, << <<1>>, <<2, 2>> >>, << <<1, 2>>, <<2>> >> }

\* fingerprint_present and the fingerprint's fields.
Fingerprints == { <<0, 0, 0, 0, 0>>, <<1, 0, 0, 0, 0>>, <<1, 0, 1, 0, 0>>, <<1, 0, 0, 0, 1>>,
                  <<1, 0, 0, 0, 2>> }

MCReceipts ==
  { << name, <<1>>, <<1>>, <<1>>, <<1>>, <<1>>, <<1>>, <<3>>, <<3>>, failure[1], failure[2],
       12, completed, print[1], print[2], print[3], print[4], print[5], limits >> :
    name \in {<<1>>, <<1, 3, 1>>}, failure \in Failures, completed \in {4, 12},
    print \in Fingerprints, limits \in {<<>>, <<1>>} }

\* The machines run one at a time: the hash while the first pair of receipts waits.
Hashing == next = 1 /\ left = right /\ left = CHOOSE r \in MCReceipts : TRUE

Next == \/ ~Hashing /\ HashField /\ UNCHANGED hashVars
        \/ Hashing /\ HashNext /\ UNCHANGED vars

Start == Init /\ HashInit

DigestSpec == Start /\ [][Next]_<<vars, hashVars>>
=============================================================================
