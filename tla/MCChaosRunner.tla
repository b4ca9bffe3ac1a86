--------------------------- MODULE MCChaosRunner ---------------------------
(***************************************************************************)
(* ChaosRunner for TLC: at most two pauses, enough for a pause before the  *)
(* child exits and one that races its exit and the reuse of its pid.      *)
(***************************************************************************)
EXTENDS ChaosRunner

MCMaxStops == 2

=============================================================================
