------------------------------ MODULE MCSession ------------------------------
(* The bounds are in the .cfg files: one client and one server, of which   *)
(* one reconnects, by itself or because its process is started again; the  *)
(* other connects once, at any time.  A second connect meets what the      *)
(* first one has left on the strands, on the channel and in the peer.      *)
EXTENDS Session
=============================================================================
