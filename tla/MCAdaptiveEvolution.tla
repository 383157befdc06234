------------------------ MODULE MCAdaptiveEvolution ------------------------
(***************************************************************************)
(* Two targets for TLC: one the generator changes, one it leaves as it is. *)
(***************************************************************************)
EXTENDS AdaptiveEvolution

CONSTANTS weights, routing
=============================================================================
