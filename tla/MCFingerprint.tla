---------------------------- MODULE MCFingerprint ----------------------------
(***************************************************************************)
(* Small instances of Fingerprint: files of up to six bytes, two of which  *)
(* fill the buffer, under limits of four bytes and two records.            *)
(***************************************************************************)
EXTENDS Fingerprint
=============================================================================
