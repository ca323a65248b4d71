------------------------------ MODULE ReportLog ------------------------------
(***************************************************************************)
(* What a report promises the reader of its JSON stream: a list that grows *)
(* by one finding for each call that returns 0, until a call closes it     *)
(* with its length; from then on it stays as it is.                        *)
(***************************************************************************)
EXTENDS Integers, Sequences

CONSTANTS Messages,   \* of the findings
          Null        \* no answer

VARIABLES begun,     \* the list may be added to
          found,     \* the findings
          closing,   \* the number they are closed with, or Null
          answer     \* what the last call returned, or Null

vars == <<begun, found, closing, answer>>

Open == begun /\ closing = Null

Init == begun = FALSE /\ found = <<>> /\ closing = Null /\ answer = Null

Begin ==
  /\ ~begun /\ begun' = TRUE
  /\ answer' \in {0, -1}
  /\ UNCHANGED <<found, closing>>

Add ==
  /\ Open
  /\ \E message \in Messages : found' = Append(found, message)
  /\ answer' = 0
  /\ UNCHANGED <<begun, closing>>

Close ==
  /\ Open
  /\ closing' = Len(found)
  /\ answer' = 0
  /\ UNCHANGED <<begun, found>>

\* A call that is refused, fails or crashes adds nothing and closes nothing.
Refuse ==
  /\ answer' \in {-1, Null}
  /\ UNCHANGED <<begun, found, closing>>

Next == Begin \/ Add \/ Close \/ Refuse

Spec == Init /\ [][Next]_vars
=============================================================================
