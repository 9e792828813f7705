--------------------------- MODULE MCWtsTransport ---------------------------
(* Instances of WtsTransport for TLC *)
EXTENDS WtsTransport, TLC

CONSTANTS h1, h2, b1
MCHandles == {h1, h2}
MCBytes == {b1}
=============================================================================
