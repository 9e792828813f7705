------------------------ MODULE ServerStateMachine --------------------------
(***************************************************************************)
(* ServerStateMachine (src/logic/server/state_machine.cpp).  As for the    *)
(* client, an action is one call of doStep and effects is its result.      *)
(* The module only has the actions: ServerController, which runs them on   *)
(* the strand next to the telemetry timer, is the specification to check.  *)
(***************************************************************************)
EXTENDS Messages, Sequences

CONSTANT PROTOCOL_VERSION     (* the version this build carries            *)

ASSUME ServerAssumption == PROTOCOL_VERSION \in Versions

VARIABLES server,   (* state_ : ServerState                                *)
          effects   (* ServerEffects still to be handled                   *)

ConnectionStates == {"Disconnected", "AwaitingHandshake"}

ServerStates ==
    [connection_state  : ConnectionStates,
     handshake         : HandshakeStates,
     instance_id       : InstanceId,
     telemetry_enabled : BOOLEAN]

SendMessage(m) == [effect |-> "SendMessage", message |-> m]
StartTelemetryTimer == [effect |-> "StartTelemetryTimer"]
StopTelemetryTimer == [effect |-> "StopTelemetryTimer"]

ServerEffect ==
    {StartTelemetryTimer, StopTelemetryTimer}
        \cup [effect : {"SendMessage"}, message : Message]

InitialServer ==
    [connection_state  |-> "Disconnected",
     handshake         |-> Reset,
     instance_id       |-> ZeroInstance,
     telemetry_enabled |-> FALSE]

-----------------------------------------------------------------------------
(* handleEvent(TransportConnectedEvent); id is the result of               *)
(* generateRandomInstanceId()                                              *)
TransportConnected(id) ==
    /\ server' = [connection_state  |-> "AwaitingHandshake",
                  handshake         |-> LocalHelloSent(Reset),
                  instance_id       |-> id,
                  telemetry_enabled |-> FALSE]
    /\ effects' = <<StopTelemetryTimer,
                    SendMessage(MakeHello(PROTOCOL_VERSION, id))>>

(* A disconnect that leaves the timer alone, and one that ends in the      *)
(* unused state Closed, for the mutation runs                              *)
TransportDisconnectedKeepsTimer ==
    /\ server' = [server EXCEPT !.connection_state  = "Disconnected",
                                !.handshake         = Reset,
                                !.telemetry_enabled = FALSE]
    /\ effects' = <<>>
TransportDisconnectedClosed ==
    /\ server' = [server EXCEPT !.connection_state  = "Closed",
                                !.handshake         = Reset,
                                !.telemetry_enabled = FALSE]
    /\ effects' = <<StopTelemetryTimer>>

(* handleEvent(TransportDisconnectedEvent) *)
TransportDisconnected ==
    /\ server' = [server EXCEPT !.connection_state  = "Disconnected",
                                !.handshake         = Reset,
                                !.telemetry_enabled = FALSE]
    /\ effects' = <<StopTelemetryTimer>>

(* The condition inverted, for the mutation runs *)
CpuSampleReadyUngreeted ==
    /\ effects' = IF server.telemetry_enabled /\ ~server.handshake.handshake_completed
                  THEN <<SendMessage(MakeCpuSample)>>
                  ELSE <<>>
    /\ UNCHANGED server

(* handleEvent(CpuSampleReadyEvent) *)
CpuSampleReady ==
    /\ effects' = IF server.telemetry_enabled /\ server.handshake.handshake_completed
                  THEN <<SendMessage(MakeCpuSample)>>
                  ELSE <<>>
    /\ UNCHANGED server

-----------------------------------------------------------------------------
(* handleMessage(HelloMessage), a Hello of another protocol version: the   *)
(* handshake starts over, telemetry and its timer stay as they are         *)
HandleForeignHello(m) ==
    /\ m.type = "Hello"
    /\ m.protocol_version # PROTOCOL_VERSION
    /\ server' = [server EXCEPT !.handshake = Reset]
    /\ effects' = <<SendMessage(MakeWrongProtocolVersionError)>>

(* handleMessage(HelloMessage), the version matches *)
HandleHello(m) ==
    /\ m.type = "Hello"
    /\ m.protocol_version = PROTOCOL_VERSION
    /\ LET h == RemoteHelloReceived(server.handshake, m.instance_id)
           hello == IF h.local_hello_needed
                    THEN <<SendMessage(MakeHello(PROTOCOL_VERSION, server.instance_id))>>
                    ELSE <<>>
           stop == IF h.handshake_completed THEN <<>> ELSE <<StopTelemetryTimer>>
       IN  /\ server' = [server EXCEPT !.handshake = LocalHelloSent(h),
                                       !.telemetry_enabled = @ /\ h.handshake_completed]
           /\ effects' = hello \o stop

(* handleMessage(TelemetryStartMessage): no check of the handshake *)
HandleTelemetryStart(m) ==
    /\ m.type = "TelemetryStart"
    /\ server' = [server EXCEPT !.telemetry_enabled = TRUE]
    /\ effects' = <<StartTelemetryTimer>>

(* handleMessage(PingMessage) *)
HandlePing(m) ==
    /\ m.type = "Ping"
    /\ effects' = <<SendMessage(MakePong)>>
    /\ UNCHANGED server

(* handleMessage(CpuSampleMessage | PongMessage) *)
HandleUnsupported(m) ==
    /\ m.type \in {"CpuSample", "Pong"}
    /\ effects' = <<SendMessage(MakeUnsupportedMessageTypeError)>>
    /\ UNCHANGED server

(* An error that is answered with another try, for the mutation runs *)
HandleErrorGreetsAgain(m) ==
    /\ m.type = "Error"
    /\ effects' = <<SendMessage(MakeHello(PROTOCOL_VERSION, server.instance_id))>>
    /\ UNCHANGED server

(* handleMessage(ErrorMessage): logged *)
HandleError(m) ==
    /\ m.type = "Error"
    /\ effects' = <<>>
    /\ UNCHANGED server

(* handleMessage(CapabilitySetMessage) *)
HandleCapabilitySet(m) ==
    /\ m.type = "CapabilitySet"
    /\ effects' = <<>>
    /\ UNCHANGED server

(* handleEvent(MessageReceivedEvent) *)
MessageReceived(m) ==
    \/ HandleForeignHello(m)
    \/ HandleHello(m)
    \/ HandleTelemetryStart(m)
    \/ HandlePing(m)
    \/ HandleUnsupported(m)
    \/ HandleError(m)
    \/ HandleCapabilitySet(m)
=============================================================================
