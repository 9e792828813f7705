--------------------------- MODULE HandshakeState ---------------------------
(***************************************************************************)
(* The class HandshakeState of src/logic/common/states.h: what one side    *)
(* remembers of the Hello exchange.  Each method is an operator from the   *)
(* object's value before the call to its value after it.                   *)
(*                                                                         *)
(* A side counts its handshake as completed when the same remote instance  *)
(* has greeted it twice in a row; it owes the remote side a Hello after    *)
(* the first greeting and after the one that completes the handshake.      *)
(***************************************************************************)
EXTENDS Integers

(* An instance id is a timestamp and a random number drawn whenever the    *)
(* transport connects.  Only equality is ever used, so it is a number; 0   *)
(* is the default-constructed InstanceId{}.                                *)
InstanceId == Nat
ZeroInstance == 0

(* std::nullopt, the value of remote_instance_id_ before any Hello *)
NoInstance == -1

HandshakeStates ==
    [remote_instance_id  : InstanceId \cup {NoInstance},
     local_hello_needed  : BOOLEAN,
     handshake_completed : BOOLEAN]

(* reset(), which also leaves the value of the default member initialisers *)
Reset ==
    [remote_instance_id  |-> NoInstance,
     local_hello_needed  |-> TRUE,
     handshake_completed |-> FALSE]

LocalHelloSent(h) == [h EXCEPT !.local_hello_needed = FALSE]

(* Variants of RemoteHelloReceived with one slip each, for the mutation    *)
(* runs: always answer, never answer the completing Hello, complete on the *)
(* first Hello, forget which instance greeted.                             *)
RemoteHelloAlwaysAnswered(h, id) ==
    [remote_instance_id  |-> id,
     local_hello_needed  |-> TRUE,
     handshake_completed |-> h.remote_instance_id = id]
RemoteHelloAnsweredOnce(h, id) ==
    [remote_instance_id  |-> id,
     local_hello_needed  |-> h.remote_instance_id # id,
     handshake_completed |-> h.remote_instance_id = id]
RemoteHelloCompletesAtOnce(h, id) ==
    [remote_instance_id  |-> id,
     local_hello_needed  |-> ~h.handshake_completed,
     handshake_completed |-> TRUE]

(* remoteHelloReceived(): a Hello of instance id has arrived *)
RemoteHelloReceived(h, id) ==
    LET known == h.remote_instance_id = id
    IN  [remote_instance_id  |-> id,
         local_hello_needed  |-> ~(known /\ h.handshake_completed),
         handshake_completed |-> known]
=============================================================================
