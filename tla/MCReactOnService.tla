-------------------------- MODULE MCReactOnService --------------------------
(***************************************************************************)
(* Instances of ReactOnService for TLC.                                    *)
(***************************************************************************)
EXTENDS ReactOnService

\* Repetition counts: once, twice and for ever.
OnceTwiceForever == {Forever, 1, 2}
=============================================================================
