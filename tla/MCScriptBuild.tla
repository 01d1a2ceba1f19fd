--------------------------- MODULE MCScriptBuild ---------------------------
(***************************************************************************)
(* ScriptBuildAlone for TLC.  All submits may run at once, so a submit     *)
(* that is alone finds what the races before it have left behind.          *)
(***************************************************************************)
EXTENDS ScriptBuildAlone, TLC

CONSTANTS s1, s2, s3, a, b

\* A script that is submitted again, and another one.
TwiceAndOther == s1 :> a @@ s2 :> a @@ s3 :> b
=============================================================================
