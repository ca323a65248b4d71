--------------------------- MODULE MCOutputOption ----------------------------
(***************************************************************************)
(* Every argument of up to six characters and words, which the longest     *)
(* form of the option needs.                                               *)
(***************************************************************************)
EXTENDS OutputOption
=============================================================================
