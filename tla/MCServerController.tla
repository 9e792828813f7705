------------------------- MODULE MCServerController -------------------------
(* One remote instance besides the zero id. *)
EXTENDS ServerController

MCIds == 0..1
=============================================================================
