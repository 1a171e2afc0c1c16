------------------------ MODULE MCDynamicProjection ------------------------
(* A small chat for the Dynamic Story projection: turn 1 has a canonical   *)
(* concept that commitTurn writes itself, turn 2 one of the projector.     *)
EXTENDS DynamicProjection
=============================================================================
