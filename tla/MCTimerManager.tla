--------------------------- MODULE MCTimerManager ---------------------------
(***************************************************************************)
(* Instances of TimerManager for TLC.                                      *)
(***************************************************************************)
EXTENDS TimerManager

\* The repeat counts FiScript and the tests use: once, several times, for ever.
OnceTwiceForever == {Forever, 1, 2}
=============================================================================
