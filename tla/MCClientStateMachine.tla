----------------------- MODULE MCClientStateMachine -------------------------
(* Two builds, two remote instances besides the zero id.                   *)
EXTENDS ClientStateMachine

MCIds == 0..2
=============================================================================
