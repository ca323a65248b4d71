--------------------------- MODULE MCReceiptFile ---------------------------
(***************************************************************************)
(* Small instances of ReceiptFile: five receipts, of which one is refused  *)
(* before and one during its writing, and four files from elsewhere.       *)
(***************************************************************************)
EXTENDS ReceiptFile

\* A clean receipt with a fingerprint; its text is as long as a text may be.
CleanReceipt ==
  [ identity |-> <<"a">>, outcome |-> Clean, failure_reason |-> NoFailure,
    failed_stage |-> <<>>, first_diagnostic |-> <<>>,
    checks_attempted |-> 1, checks_completed |-> 1,
    fingerprint |-> "fp", does_not_prove |-> <<>> ]

\* The same cells as the clean one's, with other values.
OtherRun == [ CleanReceipt EXCEPT !.identity = <<"b">>, !.checks_completed = 0 ]

\* A document as long as the clean one's, its cells elsewhere.
FindingsReceipt ==
  [ CleanReceipt EXCEPT !.identity = <<>>, !.fingerprint = Null,
                        !.outcome = Findings, !.failure_reason = Findings,
                        !.failed_stage = <<"a">>, !.first_diagnostic = <<"b">> ]

\* As long as the clean one's, with a text after the digest.
OtherLimits  == [ CleanReceipt EXCEPT !.identity = <<>>, !.does_not_prove = <<"b">> ]
OverlongText == [ FindingsReceipt EXCEPT !.first_diagnostic = <<"a", "b">> ]
NoStage      == [ FindingsReceipt EXCEPT !.failed_stage = Null ]

AllReceipts    == {CleanReceipt, FindingsReceipt, OtherLimits, OverlongText, NoStage}
SpliceReceipts == {CleanReceipt, OtherRun, FindingsReceipt}

OldVersion == [ Document(CleanReceipt) EXCEPT ![1] = <<"schema", "v3">> ]
Tampered   == [ Document(CleanReceipt) EXCEPT ![3] = <<"char", "b">> ]
Oversized  == Document(CleanReceipt) \o Document(CleanReceipt)
Padded     == Document(OtherLimits) \o << <<"nul", Null>>, <<"schema", SchemaName>> >>
AllForeign == {OldVersion, Tampered, Oversized, Padded}
=============================================================================
