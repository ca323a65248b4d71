------------------------------ MODULE MCNumbers ------------------------------
(***************************************************************************)
(* Small instances of Numbers: words of eight bits, texts of up to four    *)
(* characters, the codes at both edges of each range among them.           *)
(***************************************************************************)
EXTENDS Numbers

\* '/', '0', '1', '2', '5', '6', '9', ':', '`', 'a', 'f', 'g'
MCCharacters == {47, 48, 49, 50, 53, 54, 57, 58, 96, 97, 102, 103}
=============================================================================
