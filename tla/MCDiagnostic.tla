---------------------------- MODULE MCDiagnostic -----------------------------
(***************************************************************************)
(* Small instances of Diagnostic: two rules of different lessons, the      *)
(* first number and the first id that are none, texts with a line feed,    *)
(* NULL, and structs filled without a rule: with a lesson of the tool's    *)
(* own, with half a lesson, with a lesson that has an empty or a broken    *)
(* address, with a broken id, without a message.                           *)
(***************************************************************************)
EXTENDS Diagnostic

MCFindings   == {0, P101_TOOL_FINDING_COUNT}
MCIds        == {<<"MOD", 28>>, <<"XML", 1>>, Null}
MCSeverities == {"error", "99"}
MCPaths      == {<<NewLine>>}
MCFunctions  == {Null, <<NewLine>>}
MCMessages   == {Null, <<"m", NewLine>>}

Plain == [ id |-> <<"OWN", 1>>, severity |-> "note", path |-> Null, function_name |-> Null,
           message |-> <<"m">>, lesson_id |-> Null, lesson_path |-> Null, lesson_url |-> Null ]

ABrokenName == CHOOSE name \in Broken : TRUE

HalfALesson == [Plain EXCEPT !.lesson_id = "OWN-LESSON"]
ALesson(url) == [HalfALesson EXCEPT !.lesson_path = "OWN-LESSON", !.lesson_url = url]

MCFilled ==
  { Plain, HalfALesson, ALesson(<<"OWN-LESSON", Plain.id>>), ALesson(NoText), ALesson(ABrokenName),
    [Plain EXCEPT !.message = Null], [Plain EXCEPT !.id = ABrokenName] }
=============================================================================
