--------------------------- MODULE MCScriptProcess ---------------------------
(***************************************************************************)
(* A script for ScriptProcess, for TLC: the kind, the parent, the if and   *)
(* the repetition count of each of its statements.                         *)
(***************************************************************************)
EXTENDS ScriptProcess

\* if (...) { ReactOn(..., 2) { Schedule(..., 1) { Alert(...)  ReactOn(..., 1) {} }
\*                             if (...) { ReactOn(..., 1) { Alert(...) } } } }
\* Schedule(..., 2) { Schedule(..., 1) { if (...) { Alert(...) } } }
NestedKind == <<"reacton", "schedule", "alert", "reacton", "reacton", "alert",
                "schedule", "schedule", "alert">>
NestedParent == <<0, 1, 2, 2, 1, 5, 0, 7, 8>>
NestedIf == <<1, 0, 0, 0, 5, 0, 0, 0, 9>>
NestedIterations == <<2, 1, 1, 1, 1, 1, 2, 1, 1>>
=============================================================================
