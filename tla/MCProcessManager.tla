-------------------------- MODULE MCProcessManager --------------------------
(***************************************************************************)
(* Instances of ProcessManager for TLC.                                    *)
(***************************************************************************)
EXTENDS ProcessManager, TLC

CONSTANTS r1, r2, r3, k1, k2

\* Two threads toggle one script, and the third one another.
RaceAndOwn == r1 :> {k1} @@ r2 :> {k1} @@ r3 :> {k2}
=============================================================================
