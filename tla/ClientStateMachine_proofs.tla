---------------------- MODULE ClientStateMachine_proofs ----------------------
(***************************************************************************)
(* What holds of the client's state machine for every set of versions and  *)
(* of instance ids, and for every sequence of events.                      *)
(***************************************************************************)
EXTENDS ClientStateMachine, SequenceTheorems, TLAPS

(* The methods of HandshakeState keep its type. *)
LEMMA HandshakeType ==
    /\ Reset \in HandshakeStates
    /\ \A h \in HandshakeStates : LocalHelloSent(h) \in HandshakeStates
    /\ \A h \in HandshakeStates, id \in InstanceId :
          RemoteHelloReceived(h, id) \in HandshakeStates
BY DEF Reset, LocalHelloSent, RemoteHelloReceived, HandshakeStates, InstanceId, NoInstance

(* The messages that the client sends are messages. *)
LEMMA MessageType ==
    /\ ClientAssumption => \A id \in InstanceId : MakeHello(PROTOCOL_VERSION, id) \in Message
    /\ MakeTelemetryStart \in Message
    /\ MakePing \in Message
    /\ MakeWrongProtocolVersionError \in Message
    /\ MakeUnsupportedMessageTypeError \in Message
BY DEF ClientAssumption, Message, MessagesWith, HelloMessages, ErrorMessages, MakeHello,
       MakeTelemetryStart, MakePing, MakeWrongProtocolVersionError,
       MakeUnsupportedMessageTypeError

(* A Hello carries an instance id. *)
LEMMA HelloId ==
    ASSUME NEW m \in Message, m.type = "Hello"
    PROVE  m.instance_id \in InstanceId
BY DEF Message, MessagesWith, HelloMessages, ErrorMessages, MakeTelemetryStart, MakeCpuSample,
       MakeCapabilitySet, MakePing, MakePong, MakeError,
       MakeWrongProtocolVersionError, MakeUnsupportedMessageTypeError

(* Messages whose id is of Ids are messages. *)
LEMMA MessagesOfIds == Ids \subseteq InstanceId => MessagesWith(Ids) \subseteq Message
BY DEF Message, MessagesWith, HelloMessages

(* What a doStep returns is a sequence of at most two effects. *)
LEMMA EffectsType ==
    /\ <<>> \in Seq(ClientEffect)
    /\ \A e \in ClientEffect : <<e>> \in Seq(ClientEffect)
    /\ \A s, t \in Seq(ClientEffect) : s \o t \in Seq(ClientEffect)
    /\ StopPing \in ClientEffect
    /\ \A m \in Message : SendMessage(m) \in ClientEffect
BY DEF ClientEffect, SendMessage, StopPing

-----------------------------------------------------------------------------
(* The typing of one step, action by action *)

LEMMA TypeOfConnected ==
    ASSUME ClientAssumption, TypeOK, NEW id \in Ids, TransportConnected(id)
    PROVE  TypeOK'
<1>1. id \in InstanceId
  BY DEF ClientAssumption
<1>2. client' \in ClientStates
  BY <1>1, HandshakeType DEF TransportConnected, ClientStates, ConnectionStates
<1>3. SendMessage(MakeHello(PROTOCOL_VERSION, id)) \in ClientEffect
  BY <1>1, MessageType, EffectsType
<1>4. effects' \in Seq(ClientEffect)
  BY <1>3, EffectsType DEF TransportConnected
<1> QED
  BY <1>2, <1>4 DEF TypeOK

LEMMA TypeOfHello ==
    ASSUME ClientAssumption, TypeOK, NEW m \in Message, HandleHello(m)
    PROVE  TypeOK'
<1> DEFINE h == RemoteHelloReceived(client.handshake, m.instance_id)
           hello == IF h.local_hello_needed
                    THEN <<SendMessage(MakeHello(PROTOCOL_VERSION, client.instance_id))>>
                    ELSE <<>>
           request == IF h.handshake_completed /\ ~client.telemetry_requested
                      THEN <<SendMessage(MakeTelemetryStart)>>
                      ELSE <<>>
<1>1. m.instance_id \in InstanceId
  BY HelloId DEF HandleHello
<1>2. client.handshake \in HandshakeStates /\ client.instance_id \in InstanceId
  BY DEF TypeOK, ClientStates
<1>3. h \in HandshakeStates /\ LocalHelloSent(h) \in HandshakeStates
  BY <1>1, <1>2, HandshakeType
<1>4. client' = [client EXCEPT !.handshake = LocalHelloSent(h),
                               !.telemetry_requested = h.handshake_completed]
  BY DEF HandleHello
<1>5. h.handshake_completed \in BOOLEAN
  BY <1>3 DEF HandshakeStates
<1> HIDE DEF h
<1>6. client' \in ClientStates
  BY <1>3, <1>4, <1>5 DEF TypeOK, ClientStates
<1>7. hello \in Seq(ClientEffect) /\ request \in Seq(ClientEffect)
  BY <1>2, MessageType, EffectsType
<1>8. effects' = hello \o request
  BY DEF HandleHello, h
<1> HIDE DEF hello, request
<1>9. effects' \in Seq(ClientEffect)
  BY <1>7, <1>8, EffectsType
<1> QED
  BY <1>6, <1>9 DEF TypeOK

LEMMA TypeOfMessage ==
    ASSUME ClientAssumption, TypeOK, NEW m \in Message, MessageReceived(m)
    PROVE  TypeOK'
<1>1. CASE HandleForeignHello(m)
  BY <1>1, HandshakeType, MessageType, EffectsType
  DEF HandleForeignHello, TypeOK, ClientStates
<1>2. CASE HandleHello(m)
  BY <1>2, TypeOfHello
<1>3. CASE HandleUnsupported(m)
  BY <1>3, MessageType, EffectsType DEF HandleUnsupported, TypeOK
<1>4. CASE HandleError(m) \/ HandleLogged(m)
  BY <1>4, EffectsType DEF HandleError, HandleLogged, TypeOK
<1> QED
  BY <1>1, <1>2, <1>3, <1>4 DEF MessageReceived

LEMMA TypeOfStep ==
    ASSUME ClientAssumption, TypeOK, [Next]_clientVars
    PROVE  TypeOK'
<1>1. CASE \E id \in Ids : TransportConnected(id)
  BY <1>1, TypeOfConnected
<1>2. CASE TransportDisconnected
  BY <1>2, HandshakeType, EffectsType
  DEF TransportDisconnected, TypeOK, ClientStates, ConnectionStates
<1>3. CASE PingRequest
  BY <1>3, MessageType, EffectsType DEF PingRequest, TypeOK
<1>4. CASE \E m \in MessagesWith(Ids) : MessageReceived(m)
  <2>1. PICK m \in MessagesWith(Ids) : MessageReceived(m)
    BY <1>4
  <2>2. m \in Message
    BY MessagesOfIds DEF ClientAssumption
  <2> QED
    BY <2>1, <2>2, TypeOfMessage
<1>5. CASE UNCHANGED clientVars
  BY <1>5 DEF clientVars, TypeOK
<1> QED
  BY <1>1, <1>2, <1>3, <1>4, <1>5 DEF Next

(* The state and the effects of the client have their types. *)
THEOREM ClientTypeCorrect == Spec => []TypeOK
<1>1. Init => TypeOK
  BY HandshakeType, EffectsType
  DEF Init, InitialClient, TypeOK, ClientStates, ConnectionStates, InstanceId, ZeroInstance
<1>2. TypeOK /\ [Next]_clientVars => TypeOK'
  BY ClientAssumption, TypeOfStep
<1> QED
  BY <1>1, <1>2, PTL DEF Spec

-----------------------------------------------------------------------------
(* NoStaleRequest is inductive by itself: a Hello that does not complete   *)
(* the handshake withdraws the request, and whatever keeps the request     *)
(* forgets the remote instance.                                            *)
LEMMA NoStaleRequestOfStep ==
    ASSUME TypeOK, NoStaleRequest, [Next]_clientVars
    PROVE  NoStaleRequest'
<1> USE DEF NoStaleRequest
<1>1. ASSUME NEW id \in Ids, TransportConnected(id) PROVE NoStaleRequest'
  BY <1>1 DEF TransportConnected
<1>2. CASE TransportDisconnected
  BY <1>2 DEF TransportDisconnected, TypeOK, ClientStates
<1>3. CASE PingRequest \/ UNCHANGED clientVars
  BY <1>3 DEF PingRequest, clientVars
<1>4. ASSUME NEW m \in MessagesWith(Ids), MessageReceived(m) PROVE NoStaleRequest'
  <2>1. CASE HandleForeignHello(m)
    BY <2>1 DEF HandleForeignHello, Reset, TypeOK, ClientStates
  <2>2. CASE HandleHello(m)
    BY <2>2 DEF HandleHello, LocalHelloSent, RemoteHelloReceived, TypeOK, ClientStates
  <2>3. CASE HandleUnsupported(m) \/ HandleError(m) \/ HandleLogged(m)
    BY <2>3 DEF HandleUnsupported, HandleError, HandleLogged
  <2> QED
    BY <1>4, <2>1, <2>2, <2>3 DEF MessageReceived
<1> QED
  BY <1>1, <1>2, <1>3, <1>4 DEF Next

(* No request for telemetry outlives the handshake that made it. *)
THEOREM ClientNoStaleRequest == Spec => []NoStaleRequest
<1>1. Init => NoStaleRequest
  BY DEF Init, InitialClient, Reset, NoStaleRequest
<1>2. TypeOK /\ NoStaleRequest /\ [Next]_clientVars => NoStaleRequest'
  BY NoStaleRequestOfStep
<1> QED
  BY <1>1, <1>2, ClientTypeCorrect, PTL DEF Spec

(* What is appended to a sequence is in the result. *)
LEMMA LastOfConcat ==
    ASSUME NEW a, NEW b, NEW s \in {<<>>, <<a>>}
    PROVE  \E i \in DOMAIN (s \o <<b>>) : (s \o <<b>>)[i] = b
<1>1. s \in Seq({a, b}) /\ <<b>> \in Seq({a, b})
  <2>1. CASE s = <<>>
    BY <2>1
  <2>2. CASE s = <<a>>
    BY <2>2
  <2> QED
    BY <2>1, <2>2
<1>2. /\ s \o <<b>> \in Seq({a, b})
      /\ Len(s \o <<b>>) = Len(s) + 1
      /\ \A i \in 1..Len(s) + 1 :
            (s \o <<b>>)[i] = IF i <= Len(s) THEN s[i] ELSE <<b>>[i - Len(s)]
  BY <1>1, ConcatProperties, Len(<<b>>) = 1
<1>3. Len(s) \in Nat
  BY <1>1
<1>4. (s \o <<b>>)[Len(s) + 1] = b
  BY <1>2, <1>3
<1> QED
  BY <1>2, <1>3, <1>4

(* A step that completes the handshake is a Hello from the instance that   *)
(* is known already, so there is no request outstanding and one is made.   *)
LEMMA CompletingStep ==
    ASSUME TypeOK, NoStaleRequest, ClientAssumption, Next,
           ~client.handshake.handshake_completed, client'.handshake.handshake_completed
    PROVE  \E i \in DOMAIN effects' : effects'[i] = SendMessage(MakeTelemetryStart)
<1>1. \A id \in Ids : ~TransportConnected(id)
  BY DEF TransportConnected, Reset, LocalHelloSent
<1>2. ~TransportDisconnected
  <2>1. TransportDisconnected => client'.handshake = Reset
    BY DEF TransportDisconnected, TypeOK, ClientStates
  <2> QED
    BY <2>1 DEF Reset
<1>3. ~PingRequest
  BY DEF PingRequest
<1>4. PICK m \in MessagesWith(Ids) : MessageReceived(m)
  BY <1>1, <1>2, <1>3 DEF Next
<1>5. HandleHello(m)
  <2>1. ~HandleForeignHello(m)
    BY DEF HandleForeignHello, Reset, TypeOK, ClientStates
  <2>2. ~HandleUnsupported(m) /\ ~HandleError(m) /\ ~HandleLogged(m)
    BY DEF HandleUnsupported, HandleError, HandleLogged
  <2> QED
    BY <1>4, <2>1, <2>2 DEF MessageReceived
<1> DEFINE h == RemoteHelloReceived(client.handshake, m.instance_id)
<1>6. m.instance_id \in InstanceId
  BY <1>5, MessagesOfIds, HelloId DEF ClientAssumption, HandleHello
<1>7. h.handshake_completed /\ client.handshake.remote_instance_id = m.instance_id
  BY <1>5 DEF HandleHello, LocalHelloSent, RemoteHelloReceived, TypeOK, ClientStates
<1>8. ~client.telemetry_requested
  BY <1>6, <1>7 DEF NoStaleRequest, InstanceId, NoInstance
<1> DEFINE greeting == SendMessage(MakeHello(PROTOCOL_VERSION, client.instance_id))
           hello == IF h.local_hello_needed THEN <<greeting>> ELSE <<>>
<1>9. effects' = hello \o <<SendMessage(MakeTelemetryStart)>>
  BY <1>5, <1>7, <1>8 DEF HandleHello
<1>10. hello \in {<<>>, <<greeting>>}
  OBVIOUS
<1> HIDE DEF hello, greeting
<1> QED
  BY <1>9, <1>10, LastOfConcat

(* Every completed handshake asks for telemetry. *)
THEOREM ClientCompletionRequestsTelemetry == Spec => CompletionRequestsTelemetry
<1>1. TypeOK /\ NoStaleRequest /\ [Next]_clientVars
      => [~client.handshake.handshake_completed /\ client'.handshake.handshake_completed
          => \E i \in DOMAIN effects' :
                effects'[i] = SendMessage(MakeTelemetryStart)]_clientVars
  BY ClientAssumption, CompletingStep DEF clientVars
<1> QED
  BY <1>1, ClientTypeCorrect, ClientNoStaleRequest, PTL DEF Spec, CompletionRequestsTelemetry
=============================================================================
