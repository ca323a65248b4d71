------------------------------ MODULE MCReport ------------------------------
(***************************************************************************)
(* Small instances of Report: diagnostics with and without a lesson, one   *)
(* without a message and a NULL one; counters that pass every test and     *)
(* counters that fail each.                                                *)
(***************************************************************************)
EXTENDS Report

MCDiagnostics ==
  { Null, [message |-> "a", lesson |-> TRUE], [message |-> "b", lesson |-> FALSE],
    [message |-> Null, lesson |-> FALSE] }

MCNames == {"checks", "files", "findings"}

MCCounterLists ==
  { Null, <<>>, <<"checks", "files">>, <<"checks", "files", "checks">>, <<"findings">>,
    <<"No">>, <<"">>, <<"files", Null>> }

MCOutcomeNames == {"findings", Null}
MCExitStatuses == {-1, 255, 256}
=============================================================================
