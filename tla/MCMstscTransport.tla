-------------------------- MODULE MCMstscTransport --------------------------
(* Instances of MstscTransport for TLC *)
EXTENDS MstscTransport

CONSTANTS h1, h2, b1, b2
MCHandles == {h1, h2}
MCBuffers == {b1, b2}
=============================================================================
