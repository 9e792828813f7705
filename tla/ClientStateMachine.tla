------------------------ MODULE ClientStateMachine --------------------------
(***************************************************************************)
(* ClientStateMachine (src/logic/client/state_machine.cpp): the client's   *)
(* answer to every event.  The state is state_, and effects is the vector  *)
(* that doStep returned last.  An action is one call of doStep; which      *)
(* events occur, and in which order, is not restricted here.               *)
(***************************************************************************)
EXTENDS Messages, Sequences

CONSTANTS PROTOCOL_VERSION,   (* the version this build carries            *)
          Ids                 (* the instance ids that can occur           *)

ASSUME ClientAssumption ==
    /\ PROTOCOL_VERSION \in Versions
    /\ Ids \subseteq InstanceId

VARIABLES client,   (* state_ : ClientState                                *)
          effects   (* ClientEffects, the result of the last doStep        *)

clientVars == <<client, effects>>

ConnectionStates == {"Disconnected", "AwaitingHandshake"}

ClientStates ==
    [connection_state    : ConnectionStates,
     handshake           : HandshakeStates,
     instance_id         : InstanceId,
     telemetry_requested : BOOLEAN]

StopPing == [effect |-> "StopPing"]
SendMessage(m) == [effect |-> "SendMessage", message |-> m]

ClientEffect == {StopPing} \cup [effect : {"SendMessage"}, message : Message]

InitialClient ==
    [connection_state    |-> "Disconnected",
     handshake           |-> Reset,
     instance_id         |-> ZeroInstance,
     telemetry_requested |-> FALSE]

Init ==
    /\ client = InitialClient
    /\ effects = <<>>

-----------------------------------------------------------------------------
(* handleEvent(TransportConnectedEvent); id is the result of               *)
(* generateRandomInstanceId()                                              *)
TransportConnected(id) ==
    /\ client' = [connection_state    |-> "AwaitingHandshake",
                  handshake           |-> LocalHelloSent(Reset),
                  instance_id         |-> id,
                  telemetry_requested |-> FALSE]
    /\ effects' = <<StopPing, SendMessage(MakeHello(PROTOCOL_VERSION, id))>>

(* A disconnect that ends in the unused state Closed, for the mutation runs *)
TransportDisconnectedClosed ==
    /\ client' = [client EXCEPT !.connection_state    = "Closed",
                                !.handshake           = Reset,
                                !.telemetry_requested = FALSE]
    /\ effects' = <<StopPing>>

(* handleEvent(TransportDisconnectedEvent) *)
TransportDisconnected ==
    /\ client' = [client EXCEPT !.connection_state    = "Disconnected",
                                !.handshake           = Reset,
                                !.telemetry_requested = FALSE]
    /\ effects' = <<StopPing>>

(* handleEvent(PingRequestEvent) *)
PingRequest ==
    /\ effects' = IF client.handshake.handshake_completed
                  THEN <<SendMessage(MakePing)>>
                  ELSE <<>>
    /\ UNCHANGED client

-----------------------------------------------------------------------------
(* A foreign server that is asked for telemetry all the same, for the      *)
(* mutation runs                                                           *)
HandleForeignHelloRequestsTelemetry(m) ==
    /\ m.type = "Hello"
    /\ m.protocol_version # PROTOCOL_VERSION
    /\ client' = [client EXCEPT !.handshake = Reset]
    /\ effects' = <<SendMessage(MakeWrongProtocolVersionError),
                    SendMessage(MakeTelemetryStart)>>

(* handleMessage(HelloMessage), a Hello of another protocol version: the   *)
(* handshake starts over, telemetry_requested keeps its value              *)
HandleForeignHello(m) ==
    /\ m.type = "Hello"
    /\ m.protocol_version # PROTOCOL_VERSION
    /\ client' = [client EXCEPT !.handshake = Reset]
    /\ effects' = <<SendMessage(MakeWrongProtocolVersionError)>>

(* A completed handshake without a telemetry request, and one whose        *)
(* request outlives the handshake that made it, for the mutation runs      *)
HandleHelloForgetsRequest(m) ==
    /\ m.type = "Hello"
    /\ m.protocol_version = PROTOCOL_VERSION
    /\ LET h == RemoteHelloReceived(client.handshake, m.instance_id)
       IN  /\ client' = [client EXCEPT
                            !.handshake = LocalHelloSent(h),
                            !.telemetry_requested = @ \/ h.handshake_completed]
           /\ effects' =
                (IF h.local_hello_needed
                 THEN <<SendMessage(MakeHello(PROTOCOL_VERSION, client.instance_id))>>
                 ELSE <<>>)
                \o (IF h.handshake_completed /\ ~client.telemetry_requested
                    THEN <<SendMessage(MakeTelemetryStart)>>
                    ELSE <<>>)

(* handleMessage(HelloMessage), the version matches.  localHelloSent() is  *)
(* called only when a Hello is due, and changes nothing otherwise.         *)
HandleHello(m) ==
    /\ m.type = "Hello"
    /\ m.protocol_version = PROTOCOL_VERSION
    /\ LET h == RemoteHelloReceived(client.handshake, m.instance_id)
           hello == IF h.local_hello_needed
                    THEN <<SendMessage(MakeHello(PROTOCOL_VERSION, client.instance_id))>>
                    ELSE <<>>
           request == IF h.handshake_completed /\ ~client.telemetry_requested
                      THEN <<SendMessage(MakeTelemetryStart)>>
                      ELSE <<>>
       IN  /\ client' = [client EXCEPT !.handshake = LocalHelloSent(h),
                                       !.telemetry_requested = h.handshake_completed]
           /\ effects' = hello \o request

(* handleMessage(CapabilitySetMessage | TelemetryStartMessage |            *)
(* PingMessage): messages the client does not serve                        *)
HandleUnsupported(m) ==
    /\ m.type \in {"CapabilitySet", "TelemetryStart", "Ping"}
    /\ effects' = <<SendMessage(MakeUnsupportedMessageTypeError)>>
    /\ UNCHANGED client

(* handleMessage(ErrorMessage): logged *)
HandleError(m) ==
    /\ m.type = "Error"
    /\ effects' = <<>>
    /\ UNCHANGED client

(* handleMessage(CpuSampleMessage | PongMessage): logged, or not even that *)
HandleLogged(m) ==
    /\ m.type \in {"CpuSample", "Pong"}
    /\ effects' = <<>>
    /\ UNCHANGED client

(* handleEvent(MessageReceivedEvent) *)
MessageReceived(m) ==
    \/ HandleForeignHello(m)
    \/ HandleHello(m)
    \/ HandleUnsupported(m)
    \/ HandleError(m)
    \/ HandleLogged(m)

Next ==
    \/ \E id \in Ids : TransportConnected(id)
    \/ TransportDisconnected
    \/ PingRequest
    \/ \E m \in MessagesWith(Ids) : MessageReceived(m)

Spec == Init /\ [][Next]_clientVars

-----------------------------------------------------------------------------
TypeOK ==
    /\ client \in ClientStates
    /\ effects \in Seq(ClientEffect)

(* A client that has greeted a remote instance and not completed its       *)
(* handshake has no telemetry request outstanding: whatever a Hello that   *)
(* fails, a disconnect or a restarted server left behind, the next         *)
(* completion finds telemetry_requested clear.                             *)
NoStaleRequest ==
    client.handshake.remote_instance_id # NoInstance
        /\ ~client.handshake.handshake_completed
    => ~client.telemetry_requested

(* Every step that completes the handshake also asks for telemetry, for    *)
(* any sequence of events, a Hello of another version in between included: *)
(* the server has forgotten the previous request, and there is no retry.   *)
CompletionRequestsTelemetry ==
    [][~client.handshake.handshake_completed /\ client'.handshake.handshake_completed
       => \E i \in DOMAIN effects' : effects'[i] = SendMessage(MakeTelemetryStart)]_clientVars
=============================================================================
