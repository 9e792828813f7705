------------------------------ MODULE Messages ------------------------------
(***************************************************************************)
(* The messages of the micro-protocol (src/core/protocol/message.h) and    *)
(* the factory functions the state machines call (message_factory.cpp).    *)
(* A CPU load, the id of a ping, the flags of a capability set and the     *)
(* text of an error change no state and are left out.                      *)
(***************************************************************************)
EXTENDS HandshakeState

(* The protocol versions that builds of the two programs may carry; the    *)
(* source at this commit is one build and has the single value 0x0103.     *)
CONSTANT Versions

MakeHello(version, id) ==
    [type |-> "Hello", protocol_version |-> version, instance_id |-> id]
MakeTelemetryStart == [type |-> "TelemetryStart"]
MakeCpuSample == [type |-> "CpuSample"]
MakeCapabilitySet == [type |-> "CapabilitySet"]
MakePing == [type |-> "Ping"]
MakePong == [type |-> "Pong"]
MakeError(code) == [type |-> "Error", code |-> code]
MakeWrongProtocolVersionError == MakeError("WrongProtocolVersion")
MakeUnsupportedMessageTypeError == MakeError("UnsupportedMessageType")

ErrorMessages == {MakeWrongProtocolVersionError, MakeUnsupportedMessageTypeError}

(* The Hello messages that carry an id of Ids *)
HelloMessages(Ids) ==
    [type : {"Hello"}, protocol_version : Versions, instance_id : Ids]

(* The variant Message, with the Hellos restricted to Ids *)
MessagesWith(Ids) ==
    HelloMessages(Ids) \cup ErrorMessages
        \cup {MakeTelemetryStart, MakeCpuSample, MakeCapabilitySet, MakePing, MakePong}

Message == MessagesWith(InstanceId)
=============================================================================
