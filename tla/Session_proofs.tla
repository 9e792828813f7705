---------------------------- MODULE Session_proofs ----------------------------
(***************************************************************************)
(* What holds of a client and a server on one channel for all versions,    *)
(* any number of connects and crashes, and any number of messages on their *)
(* way.                                                                    *)
(***************************************************************************)
EXTENDS Session, SequenceTheorems, TLAPS

(* What a client and a server of these versions send.  A client asks for   *)
(* telemetry only if the versions agree, and a server greets only in the   *)
(* name of a connection.                                                   *)
FromClient ==
    {m \in C!Message :
        /\ m.type = "Hello" => m.protocol_version = ClientVersion
        /\ m.type = "TelemetryStart" => ClientVersion = ServerVersion}
FromServer ==
    {m \in C!Message :
        m.type = "Hello" =>
            m.protocol_version = ServerVersion /\ m.instance_id # C!ZeroInstance}

ClientEffects == {C!StopPing} \cup [effect : {"SendMessage"}, message : FromClient]
ServerEffects ==
    {S!StartTelemetryTimer, S!StopTelemetryTimer}
        \cup [effect : {"SendMessage"}, message : FromServer]

ClientTasks ==
    {C!Connected, C!Disconnected}
        \cup [task : {"Received"}, bytes : FromServer]
        \cup [task : {"Send"}, bytes : FromClient]
ServerTasks ==
    {S!Connected, S!Disconnected, S!SampleReady}
        \cup [task : {"Received"}, bytes : FromClient]
        \cup [task : {"Send"}, bytes : FromServer]

-----------------------------------------------------------------------------
(* The inductive invariant.  ClientState and ServerState are what a call   *)
(* of doStep changes.                                                      *)

ClientState ==
    /\ client \in C!ClientStates
    /\ clientEffects \in Seq(ClientEffects)
    /\ client.handshake.handshake_completed \/ client.telemetry_requested
       => ClientVersion = ServerVersion

ClientInv ==
    /\ ClientState
    /\ clientStrand \in Seq(ClientTasks)
    /\ clientLink \in CL!LinkStates
    /\ clientClock \in Nat

ServerState ==
    /\ server \in S!ServerStates
    /\ serverEffects \in Seq(ServerEffects)
    /\ server.handshake.handshake_completed \/ server.telemetry_enabled
       => ClientVersion = ServerVersion
    /\ server.handshake.handshake_completed => server.instance_id # C!ZeroInstance

(* The server has been connected when it has run the first n tasks. *)
Contacted(n) ==
    \/ server.instance_id # C!ZeroInstance
    \/ \E j \in 1..n : serverStrand[j] = S!Connected

(* A message is behind the Connected of some channel, and a reader that    *)
(* may deliver one has posted it.                                          *)
StrandInOrder ==
    \A i \in 1..Len(serverStrand) :
        serverStrand[i].task = "Received" => Contacted(i - 1)
ReaderInOrder == reader \in {"reading", "deliver"} => Contacted(Len(serverStrand))

LinkInv ==
    /\ channelValid \in BOOLEAN
    /\ reader \in SL!ReaderPlaces
    /\ inHand \in FromClient \cup {SL!Nothing}
    /\ reader = "deliver" => inHand \in FromClient
    /\ reporting \in BOOLEAN

ServerInv ==
    /\ ServerState
    /\ serverStrand \in Seq(ServerTasks)
    /\ S!TimerTypeOK
    /\ serverClock \in Nat
    /\ LinkInv
    /\ StrandInOrder
    /\ ReaderInOrder

WireInv == toServer \in Seq(FromClient) /\ toClient \in Seq(FromServer)

SessionInv == ClientInv /\ ServerInv /\ WireInv

-----------------------------------------------------------------------------
(* Messages, effects and tasks *)

(* The methods of HandshakeState keep its type. *)
LEMMA HandshakeType ==
    /\ C!Reset \in C!HandshakeStates
    /\ \A h \in C!HandshakeStates : C!LocalHelloSent(h) \in C!HandshakeStates
    /\ \A h \in C!HandshakeStates, id \in Nat :
          C!RemoteHelloReceived(h, id) \in C!HandshakeStates
BY DEF C!Reset, C!LocalHelloSent, C!RemoteHelloReceived, C!HandshakeStates, C!InstanceId,
       C!NoInstance

(* Both sides have the same HandshakeState. *)
LEMMA SameHandshake ==
    /\ S!Reset = C!Reset
    /\ S!HandshakeStates = C!HandshakeStates
    /\ \A h : S!LocalHelloSent(h) = C!LocalHelloSent(h)
    /\ \A h, id : S!RemoteHelloReceived(h, id) = C!RemoteHelloReceived(h, id)
BY DEF C!Reset, C!LocalHelloSent, C!RemoteHelloReceived, C!HandshakeStates, C!InstanceId,
       C!NoInstance, S!Reset, S!LocalHelloSent, S!RemoteHelloReceived, S!HandshakeStates,
       S!InstanceId, S!NoInstance

LEMMA ClientMessages ==
    /\ \A id \in Nat : C!MakeHello(ClientVersion, id) \in FromClient
    /\ C!MakeWrongProtocolVersionError \in FromClient
    /\ C!MakeUnsupportedMessageTypeError \in FromClient
    /\ ClientVersion = ServerVersion => C!MakeTelemetryStart \in FromClient
BY SessionAssumption
DEF SessionAssumption, FromClient, C!Message, C!MessagesWith, C!HelloMessages, C!ErrorMessages,
    C!InstanceId, C!MakeHello, C!MakeTelemetryStart, C!MakeError,
    C!MakeWrongProtocolVersionError, C!MakeUnsupportedMessageTypeError

LEMMA ServerMessages ==
    /\ \A id \in Nat : id # C!ZeroInstance => S!MakeHello(ServerVersion, id) \in FromServer
    /\ S!MakeWrongProtocolVersionError \in FromServer
    /\ S!MakeUnsupportedMessageTypeError \in FromServer
    /\ S!MakeCpuSample \in FromServer
    /\ S!MakePong \in FromServer
BY SessionAssumption
DEF SessionAssumption, FromServer, C!Message, C!MessagesWith, C!HelloMessages, C!ErrorMessages,
    C!InstanceId, C!MakeError, C!MakeWrongProtocolVersionError,
    C!MakeUnsupportedMessageTypeError, C!MakeCpuSample, C!MakePong,
    S!MakeHello, S!MakeCpuSample, S!MakePong, S!MakeError,
    S!MakeWrongProtocolVersionError, S!MakeUnsupportedMessageTypeError

(* A Hello carries an instance id. *)
LEMMA HelloId ==
    ASSUME NEW m \in C!Message, m.type = "Hello"
    PROVE  m.instance_id \in Nat
BY DEF C!Message, C!MessagesWith, C!HelloMessages, C!ErrorMessages, C!InstanceId,
       C!MakeTelemetryStart, C!MakeCpuSample, C!MakeCapabilitySet, C!MakePing, C!MakePong,
       C!MakeError, C!MakeWrongProtocolVersionError, C!MakeUnsupportedMessageTypeError

(* What doStep returns are sequences of effects. *)
LEMMA EffectsType ==
    /\ <<>> \in Seq(ClientEffects)
    /\ \A e \in ClientEffects : <<e>> \in Seq(ClientEffects)
    /\ \A d, e \in ClientEffects : <<d, e>> \in Seq(ClientEffects)
    /\ \A s, t \in Seq(ClientEffects) : s \o t \in Seq(ClientEffects)
    /\ C!StopPing \in ClientEffects
    /\ \A m \in FromClient : C!SendMessage(m) \in ClientEffects
    /\ <<>> \in Seq(ServerEffects)
    /\ \A e \in ServerEffects : <<e>> \in Seq(ServerEffects)
    /\ \A d, e \in ServerEffects : <<d, e>> \in Seq(ServerEffects)
    /\ \A s, t \in Seq(ServerEffects) : s \o t \in Seq(ServerEffects)
    /\ {S!StartTelemetryTimer, S!StopTelemetryTimer} \subseteq ServerEffects
    /\ \A m \in FromServer : S!SendMessage(m) \in ServerEffects
BY DEF ClientEffects, C!SendMessage, C!StopPing, ServerEffects, S!SendMessage,
       S!StartTelemetryTimer, S!StopTelemetryTimer

(* What the transports and the effects post are tasks. *)
LEMMA TasksType ==
    /\ {CL!Connected, CL!Disconnected} \subseteq ClientTasks
    /\ \A m \in FromServer : CL!Received(m) \in ClientTasks
    /\ \A m \in FromClient : C!Send(m) \in ClientTasks
    /\ {SL!Connected, SL!Disconnected, S!SampleReady} \subseteq ServerTasks
    /\ \A m \in FromClient : SL!Received(m) \in ServerTasks
    /\ \A m \in FromServer : S!Send(m) \in ServerTasks
BY DEF ClientTasks, ServerTasks, CL!Connected, CL!Disconnected, CL!Received, C!Connected,
       C!Disconnected, C!Send, SL!Connected, SL!Disconnected, SL!Received, S!Connected,
       S!Disconnected, S!SampleReady, S!Send

(* What tasks and effects carry *)
LEMMA Contents ==
    /\ \A t \in ClientTasks : t.task = "Received" => t.bytes \in FromServer
    /\ \A t \in ClientTasks : t.task = "Send" => t.bytes \in FromClient
    /\ \A e \in ClientEffects : e.effect = "SendMessage" => e.message \in FromClient
    /\ \A t \in ServerTasks : t.task = "Received" => t.bytes \in FromClient
    /\ \A t \in ServerTasks : t.task = "Send" => t.bytes \in FromServer
    /\ \A e \in ServerEffects : e.effect = "SendMessage" => e.message \in FromServer
BY DEF ClientTasks, ServerTasks, ClientEffects, ServerEffects, C!Connected, C!Disconnected,
       C!StopPing, S!Connected, S!Disconnected, S!SampleReady, S!StartTelemetryTimer,
       S!StopTelemetryTimer

(* Head and tail of a sequence that is not empty *)
LEMMA HeadAndTail ==
    ASSUME NEW T, NEW s \in Seq(T), s # <<>>
    PROVE  Head(s) \in T /\ Tail(s) \in Seq(T)
BY HeadTailProperties

-----------------------------------------------------------------------------
(* The client *)

LEMMA ClientHello ==
    ASSUME ClientState, NEW m \in FromServer, C!HandleHello(m)
    PROVE  ClientState'
<1> DEFINE h == C!RemoteHelloReceived(client.handshake, m.instance_id)
           hello == IF h.local_hello_needed
                    THEN <<C!SendMessage(C!MakeHello(ClientVersion, client.instance_id))>>
                    ELSE <<>>
           request == IF h.handshake_completed /\ ~client.telemetry_requested
                      THEN <<C!SendMessage(C!MakeTelemetryStart)>>
                      ELSE <<>>
<1>1. ClientVersion = ServerVersion
  BY DEF C!HandleHello, FromServer
<1>2. m.instance_id \in Nat
  BY HelloId DEF FromServer, C!HandleHello
<1>3. client.handshake \in C!HandshakeStates /\ client.instance_id \in Nat
  BY DEF ClientState, C!ClientStates, C!InstanceId
<1>4. h \in C!HandshakeStates /\ C!LocalHelloSent(h) \in C!HandshakeStates
  BY <1>2, <1>3, HandshakeType
<1>5. /\ client' = [client EXCEPT !.handshake = C!LocalHelloSent(h),
                                  !.telemetry_requested = h.handshake_completed]
      /\ clientEffects' = hello \o request
  BY DEF C!HandleHello
<1>6. h.handshake_completed \in BOOLEAN
  BY <1>4 DEF C!HandshakeStates
<1>7. hello \in Seq(ClientEffects) /\ request \in Seq(ClientEffects)
  BY <1>1, <1>3, ClientMessages, EffectsType
<1> HIDE DEF h, hello, request
<1>8. client' \in C!ClientStates
  BY <1>4, <1>5, <1>6 DEF ClientState, C!ClientStates
<1>9. clientEffects' \in Seq(ClientEffects)
  BY <1>5, <1>7, EffectsType
<1> QED
  BY <1>1, <1>8, <1>9 DEF ClientState

LEMMA ClientMessage ==
    ASSUME ClientState, NEW m \in FromServer, C!MessageReceived(m)
    PROVE  ClientState'
<1>1. CASE C!HandleForeignHello(m)
  BY <1>1, HandshakeType, ClientMessages, EffectsType
  DEF C!HandleForeignHello, ClientState, C!ClientStates, C!Reset
<1>2. CASE C!HandleHello(m)
  BY <1>2, ClientHello
<1>3. CASE C!HandleUnsupported(m)
  BY <1>3, ClientMessages, EffectsType DEF C!HandleUnsupported, ClientState
<1>4. CASE C!HandleError(m) \/ C!HandleLogged(m)
  BY <1>4, EffectsType DEF C!HandleError, C!HandleLogged, ClientState
<1> QED
  BY <1>1, <1>2, <1>3, <1>4 DEF C!MessageReceived

LEMMA ClientConnects ==
    ASSUME ClientState, NEW id \in Nat, C!TransportConnected(id)
    PROVE  ClientState'
<1>1. client' \in C!ClientStates
  BY HandshakeType DEF C!TransportConnected, C!ClientStates, C!ConnectionStates, C!InstanceId
<1>2. C!SendMessage(C!MakeHello(ClientVersion, id)) \in ClientEffects
  BY ClientMessages, EffectsType
<1>3. clientEffects' \in Seq(ClientEffects)
  BY <1>2, EffectsType DEF C!TransportConnected
<1> QED
  BY <1>1, <1>3 DEF C!TransportConnected, C!LocalHelloSent, C!Reset, ClientState

LEMMA ClientDisconnects ==
    ASSUME ClientState, C!TransportDisconnected
    PROVE  ClientState'
BY HandshakeType, EffectsType
DEF C!TransportDisconnected, ClientState, C!ClientStates, C!ConnectionStates, C!Reset

(* The host's callbacks *)
LEMMA ClientHostStep ==
    ASSUME SessionInv, ClientOpen \/ ClientRegister \/ ClientNotify \/ ClientDisconnect \/ ClientReceive
    PROVE  ClientInv' /\ WireInv'
<1>1. ClientInv /\ WireInv
  BY DEF SessionInv
<1>2. UNCHANGED <<client, clientEffects, clientClock, toServer>>
  BY DEF ClientOpen, ClientRegister, ClientNotify, ClientDisconnect, ClientReceive, wires
<1>3. ClientState' /\ clientClock' \in Nat /\ toServer' \in Seq(FromClient)
  BY <1>1, <1>2 DEF ClientInv, ClientState, WireInv
<1>4. CASE ClientOpen \/ ClientRegister \/ ClientNotify \/ ClientDisconnect
  <2>1. clientLink' \in CL!LinkStates /\ toClient' = toClient
    BY <1>4 DEF ClientOpen, ClientRegister, ClientNotify, ClientDisconnect, CL!Open, CL!Register, CL!Notify,
                CL!Disconnect, CL!LinkStates, wires
  <2>2. \/ clientStrand' = clientStrand
        \/ \E t \in ClientTasks : clientStrand' = Append(clientStrand, t)
    BY <1>4, TasksType
    DEF ClientOpen, ClientRegister, ClientNotify, ClientDisconnect,
        CL!Open, CL!Register, CL!Notify, CL!Disconnect, CL!Post
  <2>3. clientStrand' \in Seq(ClientTasks)
    BY <1>1, <2>2 DEF ClientInv
  <2> QED
    BY <1>1, <1>3, <2>1, <2>3 DEF ClientInv, WireInv
<1>5. CASE ClientReceive
  <2>1. Head(toClient) \in FromServer /\ Tail(toClient) \in Seq(FromServer)
    BY <1>1, <1>5, HeadAndTail DEF ClientReceive, WireInv
  <2> QED
    BY <1>1, <1>3, <1>5, <2>1, TasksType
    DEF ClientInv, WireInv, ClientReceive, CL!Receive, CL!Post
<1> QED
  BY <1>4, <1>5

(* The worker *)
LEMMA ClientWorkerStep ==
    ASSUME SessionInv, ClientWorker
    PROVE  ClientInv' /\ WireInv'
<1>1. ClientInv /\ WireInv /\ ClientState
  BY DEF SessionInv, ClientInv
<1> DEFINE taken == Head(clientStrand) \in ClientTasks /\ Tail(clientStrand) \in Seq(ClientTasks)
           effect == Head(clientEffects) \in ClientEffects
                     /\ Tail(clientEffects) \in Seq(ClientEffects)
<1>2. clientStrand # <<>> => taken
  BY <1>1, HeadAndTail DEF ClientInv
<1>3. clientEffects # <<>> => effect
  BY <1>1, HeadAndTail DEF ClientState
<1>4. CASE ClientRunConnected
  <2>1. clientClock + 1 \in Nat /\ C!TransportConnected(clientClock + 1) /\ taken
    BY <1>1, <1>2, <1>4 DEF ClientInv, ClientRunConnected, C!RunConnected, C!TakeTask
  <2>2. ClientState'
    BY <1>1, <2>1, ClientConnects
  <2> QED
    BY <1>1, <1>4, <2>1, <2>2 DEF ClientInv, WireInv, ClientRunConnected, C!RunConnected, wires
<1>5. CASE ClientStep
  <2>1. UNCHANGED <<clientLink, clientClock, toServer, toClient>>
    BY <1>5 DEF ClientStep, wires
  <2>2. ClientState' /\ clientStrand' \in Seq(ClientTasks)
    <3>1. CASE C!RunDisconnected
      BY <1>1, <1>2, <3>1, ClientDisconnects DEF C!RunDisconnected, C!TakeTask
    <3>2. CASE C!RunReceived
      <4>1. taken /\ Head(clientStrand).bytes \in FromServer
        BY <1>2, <3>2, Contents DEF C!RunReceived, C!TakeTask
      <4> QED
        BY <1>1, <3>2, <4>1, ClientMessage DEF C!RunReceived
    <3>3. CASE C!HandleSendMessage
      <4>1. effect /\ Head(clientEffects).message \in FromClient
        BY <1>3, <3>3, Contents DEF C!HandleSendMessage
      <4>2. C!Send(Head(clientEffects).message) \in ClientTasks
        BY <4>1, TasksType
      <4> QED
        BY <1>1, <3>3, <4>1, <4>2 DEF C!HandleSendMessage, C!Post, ClientInv, ClientState
    <3>4. CASE C!HandleStopPing
      BY <1>1, <1>3, <3>4 DEF C!HandleStopPing, ClientInv, ClientState
    <3> QED
      BY <1>5, <3>1, <3>2, <3>3, <3>4 DEF ClientStep
  <2> QED
    BY <1>1, <2>1, <2>2 DEF ClientInv, WireInv
<1>6. CASE ClientSend
  <2>1. taken /\ Head(clientStrand).bytes \in FromClient
    BY <1>2, <1>6, Contents DEF ClientSend, C!RunSend, C!TakeTask
  <2> QED
    BY <1>1, <1>6, <2>1
    DEF ClientSend, C!RunSend, C!clientVars, ClientInv, ClientState, WireInv
<1>7. CASE ClientSendFails
  BY <1>1, <1>2, <1>7
  DEF ClientSendFails, C!RunSend, C!TakeTask, C!clientVars, ClientInv, ClientState, WireInv, wires
<1> QED
  BY <1>4, <1>5, <1>6, <1>7 DEF ClientWorker

-----------------------------------------------------------------------------
(* The server: calls of doStep *)

LEMMA ServerHello ==
    ASSUME ServerState, server.instance_id # C!ZeroInstance,
           NEW m \in FromClient, S!HandleHello(m)
    PROVE  ServerState' /\ server'.instance_id = server.instance_id
<1> DEFINE h == S!RemoteHelloReceived(server.handshake, m.instance_id)
           hello == IF h.local_hello_needed
                    THEN <<S!SendMessage(S!MakeHello(ServerVersion, server.instance_id))>>
                    ELSE <<>>
           stop == IF h.handshake_completed THEN <<>> ELSE <<S!StopTelemetryTimer>>
<1>1. ClientVersion = ServerVersion
  BY DEF S!HandleHello, FromClient
<1>2. m.instance_id \in Nat
  BY HelloId DEF FromClient, S!HandleHello
<1>3. server.handshake \in S!HandshakeStates /\ server.instance_id \in Nat
  BY DEF ServerState, S!ServerStates, S!InstanceId
<1>4. h \in S!HandshakeStates /\ S!LocalHelloSent(h) \in S!HandshakeStates
  BY <1>2, <1>3, HandshakeType, SameHandshake
<1>5. /\ server' = [server EXCEPT
                       !.handshake = S!LocalHelloSent(h),
                       !.telemetry_enabled =
                          server.telemetry_enabled /\ h.handshake_completed]
      /\ serverEffects' = hello \o stop
  BY DEF S!HandleHello
<1>6. hello \in Seq(ServerEffects) /\ stop \in Seq(ServerEffects)
  BY <1>3, ServerMessages, EffectsType
<1> HIDE DEF h, hello, stop
<1>7. server' \in S!ServerStates /\ server'.instance_id = server.instance_id
  BY <1>4, <1>5 DEF ServerState, S!ServerStates
<1>8. serverEffects' \in Seq(ServerEffects)
  BY <1>5, <1>6, EffectsType
<1> QED
  BY <1>1, <1>7, <1>8 DEF ServerState

LEMMA ServerMessage ==
    ASSUME ServerState, server.instance_id # C!ZeroInstance,
           NEW m \in FromClient, S!MessageReceived(m)
    PROVE  ServerState' /\ server'.instance_id = server.instance_id
<1>1. CASE S!HandleForeignHello(m)
  BY <1>1, HandshakeType, SameHandshake, ServerMessages, EffectsType
  DEF S!HandleForeignHello, ServerState, S!ServerStates, S!Reset
<1>2. CASE S!HandleHello(m)
  BY <1>2, ServerHello
<1>3. CASE S!HandleTelemetryStart(m)
  <2>1. ClientVersion = ServerVersion
    BY <1>3 DEF S!HandleTelemetryStart, FromClient
  <2> QED
    BY <1>3, <2>1, EffectsType DEF S!HandleTelemetryStart, ServerState, S!ServerStates
<1>4. CASE S!HandlePing(m) \/ S!HandleUnsupported(m)
  BY <1>4, ServerMessages, EffectsType DEF S!HandlePing, S!HandleUnsupported, ServerState
<1>5. CASE S!HandleError(m) \/ S!HandleCapabilitySet(m)
  BY <1>5, EffectsType DEF S!HandleError, S!HandleCapabilitySet, ServerState
<1> QED
  BY <1>1, <1>2, <1>3, <1>4, <1>5 DEF S!MessageReceived

LEMMA ServerConnects ==
    ASSUME ServerState, NEW id \in Nat, id # C!ZeroInstance, S!TransportConnected(id)
    PROVE  ServerState' /\ server'.instance_id # C!ZeroInstance
<1>1. server' \in S!ServerStates
  BY HandshakeType, SameHandshake
  DEF S!TransportConnected, S!ServerStates, S!ConnectionStates, S!InstanceId
<1>2. S!SendMessage(S!MakeHello(ServerVersion, id)) \in ServerEffects
  BY ServerMessages, EffectsType
<1>3. serverEffects' \in Seq(ServerEffects)
  BY <1>2, EffectsType DEF S!TransportConnected
<1> QED
  BY <1>1, <1>3 DEF S!TransportConnected, S!LocalHelloSent, S!Reset, ServerState

LEMMA ServerDisconnects ==
    ASSUME ServerState, S!TransportDisconnected
    PROVE  ServerState' /\ server'.instance_id = server.instance_id
BY HandshakeType, SameHandshake, EffectsType
DEF S!TransportDisconnected, ServerState, S!ServerStates, S!ConnectionStates, S!Reset

LEMMA ServerSamples ==
    ASSUME ServerState, S!CpuSampleReady
    PROVE  ServerState' /\ server'.instance_id = server.instance_id
BY ServerMessages, EffectsType DEF S!CpuSampleReady, ServerState

-----------------------------------------------------------------------------
(* The server: what becomes of the order on the strand *)

(* A task is appended that is no message, or one that the reader may       *)
(* deliver.                                                                *)
LEMMA OrderOfAppend ==
    ASSUME ServerInv, NEW t \in ServerTasks, serverStrand' = Append(serverStrand, t),
           server'.instance_id = server.instance_id,
           t.task = "Received" => Contacted(Len(serverStrand)),
           \/ reader' \notin {"reading", "deliver"}
           \/ reader \in {"reading", "deliver"}
           \/ t = S!Connected
    PROVE  serverStrand' \in Seq(ServerTasks) /\ StrandInOrder' /\ ReaderInOrder'
<1>1. /\ serverStrand \in Seq(ServerTasks) /\ Len(serverStrand) \in Nat
      /\ StrandInOrder /\ ReaderInOrder
  BY DEF ServerInv
<1>2. /\ serverStrand' \in Seq(ServerTasks)
      /\ Len(serverStrand') = Len(serverStrand) + 1
      /\ \A i \in 1..Len(serverStrand) : serverStrand'[i] = serverStrand[i]
      /\ serverStrand'[Len(serverStrand) + 1] = t
  BY <1>1, AppendProperties
<1>3. ASSUME NEW n \in 0..Len(serverStrand), Contacted(n) PROVE Contacted(n)'
  BY <1>1, <1>2, <1>3 DEF Contacted
<1>4. StrandInOrder'
  <2> SUFFICES ASSUME NEW i \in 1..(Len(serverStrand) + 1), serverStrand'[i].task = "Received"
               PROVE  Contacted(i - 1)'
    BY <1>2 DEF StrandInOrder
  <2>1. i - 1 \in 0..Len(serverStrand)
    BY <1>1
  <2>2. Contacted(i - 1)
    <3>1. CASE i \in 1..Len(serverStrand)
      BY <1>1, <1>2, <3>1 DEF StrandInOrder
    <3>2. CASE i = Len(serverStrand) + 1
      BY <1>1, <1>2, <3>2
    <3> QED
      BY <1>1, <3>1, <3>2
  <2> QED
    BY <1>3, <2>1, <2>2
<1>5. ReaderInOrder'
  <2>0. PICK n \in Nat : n = Len(serverStrand)
    BY <1>1
  <2> SUFFICES ASSUME reader' \in {"reading", "deliver"}
               PROVE  Contacted(n + 1)'
    BY <1>2, <2>0 DEF ReaderInOrder
  <2>1. CASE t = S!Connected
    BY <1>2, <2>0, <2>1 DEF Contacted
  <2>2. CASE reader \in {"reading", "deliver"}
    <3>1. Contacted(n)
      BY <1>1, <2>0, <2>2 DEF ReaderInOrder
    <3>2. Contacted(n)'
      BY <1>3, <2>0, <3>1
    <3> QED
      BY <2>0, <3>2 DEF Contacted
  <2> QED
    BY <2>1, <2>2
<1> QED
  BY <1>2, <1>4, <1>5

(* The head is taken: a Connected names the server, and what was behind    *)
(* another task still is.                                                  *)
LEMMA OrderOfTail ==
    ASSUME ServerInv, serverStrand # <<>>, serverStrand' = Tail(serverStrand), reader' = reader,
           \/ server'.instance_id # C!ZeroInstance
           \/ Head(serverStrand) # S!Connected /\ server'.instance_id = server.instance_id
    PROVE  serverStrand' \in Seq(ServerTasks) /\ StrandInOrder' /\ ReaderInOrder'
<1>1. /\ serverStrand \in Seq(ServerTasks) /\ Len(serverStrand) \in Nat
      /\ Len(serverStrand) > 0 /\ StrandInOrder /\ ReaderInOrder
  BY EmptySeq, LenProperties DEF ServerInv
<1>2. /\ serverStrand' \in Seq(ServerTasks)
      /\ Len(serverStrand') = Len(serverStrand) - 1
      /\ \A i \in 1..(Len(serverStrand) - 1) : serverStrand'[i] = serverStrand[i + 1]
      /\ Head(serverStrand) = serverStrand[1]
  BY <1>1, HeadTailProperties
<1>3. CASE server'.instance_id # C!ZeroInstance
  BY <1>2, <1>3 DEF StrandInOrder, ReaderInOrder, Contacted
<1>4. CASE Head(serverStrand) # S!Connected /\ server'.instance_id = server.instance_id
  <2>1. ASSUME NEW n \in 1..Len(serverStrand), Contacted(n) PROVE Contacted(n - 1)'
    <3>1. CASE server.instance_id # C!ZeroInstance
      BY <1>4, <3>1 DEF Contacted
    <3>2. CASE \E j \in 1..n : serverStrand[j] = S!Connected
      <4>1. PICK j \in 1..n : serverStrand[j] = S!Connected
        BY <3>2
      <4>2. j # 1
        BY <1>2, <1>4, <4>1
      <4>3. j - 1 \in 1..(n - 1) /\ j - 1 \in 1..(Len(serverStrand) - 1)
        BY <1>1, <4>2
      <4>4. serverStrand'[j - 1] = S!Connected
        BY <1>2, <4>1, <4>3
      <4> QED
        BY <4>3, <4>4 DEF Contacted
    <3> QED
      BY <2>1, <3>1, <3>2 DEF Contacted
  <2>2. StrandInOrder'
    <3> SUFFICES ASSUME NEW i \in 1..(Len(serverStrand) - 1), serverStrand'[i].task = "Received"
                 PROVE  Contacted(i - 1)'
      BY <1>2 DEF StrandInOrder
    <3>1. i + 1 \in 1..Len(serverStrand) /\ i \in 1..Len(serverStrand)
      BY <1>1
    <3>2. Contacted((i + 1) - 1)
      BY <1>1, <1>2, <3>1 DEF StrandInOrder
    <3>3. Contacted(i)
      BY <3>2
    <3> QED
      BY <2>1, <3>1, <3>3
  <2>3. ReaderInOrder'
    <3>1. PICK n \in 1..Len(serverStrand) : n = Len(serverStrand)
      BY <1>1
    <3> SUFFICES ASSUME reader \in {"reading", "deliver"}
                 PROVE  Contacted(n - 1)'
      BY <1>2, <3>1 DEF ReaderInOrder
    <3>2. Contacted(n)
      BY <1>1, <3>1 DEF ReaderInOrder
    <3> QED
      BY <2>1, <3>1, <3>2
  <2> QED
    BY <1>2, <2>2, <2>3
<1> QED
  BY <1>3, <1>4

(* The strand is left alone, and no reader begins to read. *)
LEMMA OrderOfRest ==
    ASSUME ServerInv, serverStrand' = serverStrand, server'.instance_id = server.instance_id,
           \/ reader' \notin {"reading", "deliver"}
           \/ reader \in {"reading", "deliver"}
    PROVE  serverStrand' \in Seq(ServerTasks) /\ StrandInOrder' /\ ReaderInOrder'
BY DEF ServerInv, StrandInOrder, ReaderInOrder, Contacted

-----------------------------------------------------------------------------
(* The server's reader *)

LEMMA ServerReaderStep ==
    ASSUME SessionInv, ServerOpenChannel \/ ServerReader \/ ServerReadFails
    PROVE  ServerInv' /\ WireInv'
<1>1. /\ ServerInv /\ WireInv /\ ServerState /\ LinkInv /\ ReaderInOrder
      /\ serverStrand \in Seq(ServerTasks) /\ Len(serverStrand) \in Nat
  BY DEF SessionInv, ServerInv
<1>2. UNCHANGED <<server, serverEffects, running, armed, serverClock, toClient>>
  BY DEF ServerOpenChannel, ServerReader, ServerRead, ServerReadsSeveral, ServerReaderGoesOn,
         ServerReadFails, controlOfServer, wires
<1>3. ServerState' /\ S!TimerTypeOK' /\ serverClock' \in Nat
  BY <1>1, <1>2 DEF ServerInv, ServerState, S!TimerTypeOK
<1>4. server'.instance_id = server.instance_id
  BY <1>2
<1>5. SUFFICES /\ LinkInv' /\ toServer' \in Seq(FromClient)
               /\ serverStrand' \in Seq(ServerTasks) /\ StrandInOrder' /\ ReaderInOrder'
  BY <1>1, <1>2, <1>3 DEF ServerInv, WireInv
<1>6. CASE ServerOpenChannel
  <2>1. LinkInv' /\ serverStrand' = serverStrand /\ reader' = "notify" /\ toServer' = toServer
    BY <1>1, <1>6
    DEF ServerOpenChannel, SL!Open, controlOfServer, wires, LinkInv, SL!ReaderPlaces
  <2> QED
    BY <1>1, <1>4, <2>1, OrderOfRest DEF WireInv
<1>7. CASE ServerRead \/ ServerReadsSeveral
  <2>1. toServer # <<>> /\ SL!Read(Head(toServer)) /\ serverStrand' = serverStrand
    <3>1. CASE ServerRead
      BY <3>1 DEF ServerRead, controlOfServer
    <3>2. CASE ServerReadsSeveral
      <4>1. PICK n \in 2..Len(toServer) : TRUE
        BY <3>2 DEF ServerReadsSeveral
      <4>2. toServer # <<>>
        BY <1>1, <4>1, EmptySeq DEF WireInv
      <4> QED
        BY <3>2, <4>2 DEF ServerReadsSeveral, controlOfServer
    <3> QED
      BY <1>7, <3>1, <3>2
  <2>2. Head(toServer) \in FromClient /\ Tail(toServer) \in Seq(FromClient)
    BY <1>1, <2>1, HeadAndTail DEF WireInv
  <2>3. LinkInv' /\ reader = "reading"
    BY <1>1, <2>1, <2>2 DEF SL!Read, LinkInv, SL!ReaderPlaces
  <2>4. toServer' \in Seq(FromClient)
    <3>1. CASE ServerRead
      BY <2>2, <3>1 DEF ServerRead
    <3>2. CASE ServerReadsSeveral
      <4>1. PICK n \in 2..Len(toServer) : toServer' = SubSeq(toServer, n + 1, Len(toServer))
        BY <3>2 DEF ServerReadsSeveral
      <4>2. \A i \in (n + 1)..Len(toServer) : toServer[i] \in FromClient
        BY <1>1, <4>1 DEF WireInv
      <4> QED
        BY <1>1, <4>1, <4>2, SubSeqProperties DEF WireInv
    <3> QED
      BY <1>7, <3>1, <3>2
  <2> QED
    BY <1>1, <1>4, <2>1, <2>3, <2>4, OrderOfRest
<1>8. CASE ServerReaderGoesOn
  <2>1. toServer' = toServer
    BY <1>8 DEF ServerReaderGoesOn, wires
  <2>2. CASE SL!Notify
    <3>1. LinkInv' /\ serverStrand' = Append(serverStrand, SL!Connected)
      BY <1>1, <2>2 DEF SL!Notify, SL!Post, LinkInv, SL!ReaderPlaces
    <3>2. SL!Connected = S!Connected /\ SL!Connected.task # "Received"
      BY DEF SL!Connected, S!Connected
    <3> QED
      BY <1>1, <1>4, <2>1, <3>1, <3>2, TasksType, OrderOfAppend DEF WireInv
  <2>3. CASE SL!Deliver
    <3>1. /\ LinkInv' /\ reader = "deliver" /\ inHand \in FromClient
          /\ serverStrand' = Append(serverStrand, SL!Received(inHand))
      BY <1>1, <2>3 DEF SL!Deliver, SL!Post, LinkInv, SL!ReaderPlaces
    <3>2. Contacted(Len(serverStrand))
      BY <1>1, <3>1 DEF ReaderInOrder
    <3> QED
      BY <1>1, <1>4, <2>1, <3>1, <3>2, TasksType, OrderOfAppend DEF WireInv
  <2>4. CASE SL!ReaderReports
    <3>1. /\ LinkInv' /\ reader' = "opening"
          /\ serverStrand' = Append(serverStrand, SL!Disconnected)
      BY <1>1, <2>4 DEF SL!ReaderReports, SL!Post, LinkInv, SL!ReaderPlaces
    <3>2. SL!Disconnected.task # "Received"
      BY DEF SL!Disconnected
    <3> QED
      BY <1>1, <1>4, <2>1, <3>1, <3>2, TasksType, OrderOfAppend DEF WireInv
  <2>5. CASE SL!ReadFindsClosed
    <3>1. LinkInv' /\ reader' = "opening" /\ serverStrand' = serverStrand
      BY <1>1, <2>5 DEF SL!ReadFindsClosed, LinkInv, SL!ReaderPlaces
    <3> QED
      BY <1>1, <1>4, <2>1, <3>1, OrderOfRest DEF WireInv
  <2> QED
    BY <1>8, <2>2, <2>3, <2>4, <2>5 DEF ServerReaderGoesOn
<1>9. CASE ServerReadFails
  <2>1. LinkInv' /\ reader' = "report" /\ serverStrand' = serverStrand /\ toServer' = toServer
    BY <1>1, <1>9 DEF ServerReadFails, SL!ReadFails, wires, LinkInv, SL!ReaderPlaces
  <2> QED
    BY <1>1, <1>4, <2>1, OrderOfRest DEF WireInv
<1> QED
  BY <1>6, <1>7, <1>8, <1>9 DEF ServerReader

-----------------------------------------------------------------------------
(* The server's worker and its timers *)

(* What a step of the worker that is no send has to show *)
LEMMA ServerTaskOrEffect ==
    ASSUME SessionInv, ServerState', S!TimerTypeOK', UNCHANGED <<linkOfServer, wires>>,
           serverClock' \in Nat,
           serverStrand' \in Seq(ServerTasks) /\ StrandInOrder' /\ ReaderInOrder'
    PROVE  ServerInv' /\ WireInv'
BY DEF SessionInv, ServerInv, WireInv, LinkInv, linkOfServer, wires

(* The worker takes a task that is no Connected. *)
LEMMA ServerTakes ==
    ASSUME ServerInv, NEW kind, kind # "Connected", S!TakeTask(kind)
    PROVE  /\ serverStrand # <<>> /\ Head(serverStrand) \in ServerTasks
           /\ Head(serverStrand).task = kind
           /\ Head(serverStrand) # S!Connected
BY HeadAndTail DEF ServerInv, S!TakeTask, S!Connected

LEMMA ServerRuns ==
    ASSUME SessionInv, ServerRunConnected \/ ServerStep
    PROVE  ServerInv' /\ WireInv'
<1>1. /\ ServerInv /\ ServerState /\ serverClock \in Nat /\ S!TimerTypeOK
      /\ serverStrand \in Seq(ServerTasks) /\ StrandInOrder /\ ReaderInOrder
  BY DEF SessionInv, ServerInv
<1>2. UNCHANGED <<linkOfServer, wires>> /\ reader' = reader
  BY DEF ServerRunConnected, ServerStep, linkOfServer
<1>3. CASE ServerRunConnected
  <2>1. /\ serverClock + 1 \in Nat /\ serverClock + 1 # C!ZeroInstance
        /\ S!TransportConnected(serverClock + 1)
        /\ serverStrand # <<>> /\ serverStrand' = Tail(serverStrand)
        /\ serverClock' = serverClock + 1 /\ UNCHANGED <<running, armed>>
    BY <1>1, <1>3
    DEF ServerRunConnected, S!RunConnected, S!TakeTask, S!timerVars, C!ZeroInstance
  <2>2. ServerState' /\ server'.instance_id # C!ZeroInstance
    BY <1>1, <2>1, ServerConnects
  <2>3. serverStrand' \in Seq(ServerTasks) /\ StrandInOrder' /\ ReaderInOrder'
    BY <1>1, <1>2, <2>1, <2>2, OrderOfTail
  <2> QED
    BY <1>1, <1>2, <2>1, <2>2, <2>3, ServerTaskOrEffect DEF S!TimerTypeOK
<1>4. CASE ServerStep
  <2>1. serverClock' = serverClock
    BY <1>4 DEF ServerStep
  <2>2. SUFFICES /\ ServerState' /\ S!TimerTypeOK'
                 /\ serverStrand' \in Seq(ServerTasks) /\ StrandInOrder' /\ ReaderInOrder'
    BY <1>1, <1>2, <2>1, ServerTaskOrEffect
  <2>3. CASE S!RunDisconnected \/ S!RunReceived \/ S!RunSampleReady
    <3>1. serverStrand' = Tail(serverStrand) /\ S!TimerTypeOK'
      BY <1>1, <2>3
      DEF S!RunDisconnected, S!RunReceived, S!RunSampleReady, S!timerVars, S!TimerTypeOK
    <3>2. /\ ServerState' /\ server'.instance_id = server.instance_id
          /\ serverStrand # <<>> /\ Head(serverStrand) # S!Connected
      <4>1. CASE S!RunDisconnected
        BY <1>1, <4>1, ServerTakes, ServerDisconnects DEF S!RunDisconnected
      <4>2. CASE S!RunReceived
        <5>1. /\ serverStrand # <<>> /\ Head(serverStrand) \in ServerTasks
              /\ Head(serverStrand).task = "Received" /\ Head(serverStrand) # S!Connected
          BY <1>1, <4>2, ServerTakes DEF S!RunReceived
        <5>2. Head(serverStrand).bytes \in FromClient
          BY <5>1, Contents
        <5>3. 1 \in 1..Len(serverStrand) /\ Head(serverStrand) = serverStrand[1]
          BY <1>1, <5>1, EmptySeq, LenProperties
        <5>4. server.instance_id # C!ZeroInstance
          <6>1. Contacted(1 - 1)
            BY <1>1, <5>1, <5>3 DEF StrandInOrder
          <6> QED
            BY <6>1 DEF Contacted
        <5> QED
          BY <1>1, <4>2, <5>1, <5>2, <5>4, ServerMessage DEF S!RunReceived
      <4>3. CASE S!RunSampleReady
        BY <1>1, <4>3, ServerTakes, ServerSamples DEF S!RunSampleReady
      <4> QED
        BY <2>3, <4>1, <4>2, <4>3
    <3> QED
      BY <1>1, <1>2, <3>1, <3>2, OrderOfTail
  <2>4. CASE S!HandleSendMessage
    <3>1. /\ Head(serverEffects).message \in FromServer
          /\ serverEffects' = Tail(serverEffects) /\ Tail(serverEffects) \in Seq(ServerEffects)
      BY <1>1, <2>4, HeadAndTail, Contents DEF S!HandleSendMessage, ServerState
    <3>2. /\ serverStrand' = Append(serverStrand, S!Send(Head(serverEffects).message))
          /\ UNCHANGED <<server, running, armed>>
      BY <2>4 DEF S!HandleSendMessage, S!Post
    <3>3. ServerState' /\ S!TimerTypeOK'
      BY <1>1, <3>1, <3>2 DEF ServerState, S!TimerTypeOK
    <3>4. /\ S!Send(Head(serverEffects).message) \in ServerTasks
          /\ S!Send(Head(serverEffects).message).task # "Received"
      BY <3>1, TasksType DEF S!Send
    <3> QED
      BY <1>1, <1>2, <3>2, <3>3, <3>4, OrderOfAppend, OrderOfRest
  <2>5. CASE \/ S!HandleStartTelemetryTimer \/ S!HandleStartTelemetryTimerThrows
             \/ S!HandleStopTelemetryTimer
    <3>1. serverEffects' \in Seq(ServerEffects)
      BY <1>1, <2>5, HeadAndTail, EffectsType
      DEF S!HandleStartTelemetryTimer, S!HandleStartTelemetryTimerThrows,
          S!HandleStopTelemetryTimer, ServerState
    <3>2. UNCHANGED <<server, serverStrand>>
      BY <2>5 DEF S!HandleStartTelemetryTimer, S!HandleStartTelemetryTimerThrows,
                  S!HandleStopTelemetryTimer
    <3>3. ServerState'
      BY <1>1, <3>1, <3>2 DEF ServerState
    <3>4. S!TimerTypeOK'
      <4>1. CASE S!HandleStartTelemetryTimer
        <5>1. running' = TRUE /\ (armed' = armed \/ armed' = armed + 1)
          BY <4>1 DEF S!HandleStartTelemetryTimer, S!Start
        <5> QED
          BY <1>1, <5>1 DEF S!TimerTypeOK
      <4>2. CASE S!HandleStartTelemetryTimerThrows \/ S!HandleStopTelemetryTimer
        BY <1>1, <4>2
        DEF S!HandleStartTelemetryTimerThrows, S!StartThrows, S!HandleStopTelemetryTimer,
            S!Stop, S!timerVars, S!TimerTypeOK
      <4> QED
        BY <2>5, <4>1, <4>2
    <3> QED
      BY <1>1, <1>2, <3>2, <3>3, <3>4, OrderOfRest DEF ReaderInOrder
  <2> QED
    BY <1>4, <2>3, <2>4, <2>5 DEF ServerStep
<1> QED
  BY <1>3, <1>4

LEMMA ServerTimerStep ==
    ASSUME SessionInv, TimerFires
    PROVE  ServerInv' /\ WireInv'
<1>1. /\ ServerInv /\ ServerState /\ serverClock \in Nat /\ S!TimerTypeOK
      /\ serverStrand \in Seq(ServerTasks) /\ StrandInOrder /\ ReaderInOrder
  BY DEF SessionInv, ServerInv
<1>2. /\ UNCHANGED <<linkOfServer, wires>> /\ reader' = reader /\ serverClock' = serverClock
      /\ UNCHANGED <<server, serverEffects, running>>
  BY DEF TimerFires, linkOfServer, S!TimerExpires, S!TimerExpiresStopped, S!TimerExpiresThrows,
         S!PostSample, S!ExpireStopped, S!PostSampleThrows, S!timerVars
<1>3. ServerState'
  BY <1>1, <1>2 DEF ServerState
<1>4. S!TimerTypeOK'
  <2>1. armed' = armed \/ (armed > 0 /\ armed' = armed - 1)
    BY DEF TimerFires, S!TimerExpires, S!TimerExpiresStopped, S!TimerExpiresThrows,
           S!PostSample, S!ExpireStopped, S!PostSampleThrows, S!timerVars
  <2> QED
    BY <1>1, <1>2, <2>1 DEF S!TimerTypeOK
<1>5. serverStrand' \in Seq(ServerTasks) /\ StrandInOrder' /\ ReaderInOrder'
  <2>1. serverStrand' = serverStrand \/ serverStrand' = Append(serverStrand, S!SampleReady)
    BY DEF TimerFires, S!TimerExpires, S!TimerExpiresStopped, S!TimerExpiresThrows, S!Post
  <2>2. S!SampleReady.task # "Received" /\ S!SampleReady \in ServerTasks
    BY TasksType DEF S!SampleReady
  <2> QED
    BY <1>1, <1>2, <2>1, <2>2, OrderOfAppend, OrderOfRest
<1> QED
  BY <1>1, <1>2, <1>3, <1>4, <1>5, ServerTaskOrEffect

(* WtsTransport::send *)
LEMMA ServerSendStep ==
    ASSUME SessionInv,
           \/ ServerSend \/ ServerSendFindsClosed \/ ServerSendFails \/ ServerWorkerReports
    PROVE  ServerInv' /\ WireInv'
<1>1. /\ ServerInv /\ WireInv /\ ServerState /\ LinkInv /\ S!TimerTypeOK
      /\ serverClock \in Nat /\ serverStrand \in Seq(ServerTasks)
  BY DEF SessionInv, ServerInv
<1>2. UNCHANGED <<server, serverEffects, running, armed, serverClock, reader, inHand, toServer>>
  BY DEF ServerSend, ServerSendFindsClosed, ServerSendFails, ServerWorkerReports, S!RunSend,
         SL!SendFails, SL!WorkerReports, linkOfServer, wires
<1>3. ServerState' /\ S!TimerTypeOK' /\ serverClock' \in Nat /\ server'.instance_id = server.instance_id
  BY <1>1, <1>2 DEF ServerState, S!TimerTypeOK
<1>4. LinkInv'
  <2>1. channelValid' \in BOOLEAN /\ reporting' \in BOOLEAN
    BY <1>1 DEF ServerSend, ServerSendFindsClosed, ServerSendFails, ServerWorkerReports,
                SL!SendFails, SL!WorkerReports, linkOfServer, LinkInv
  <2> QED
    BY <1>1, <1>2, <2>1 DEF LinkInv
<1>5. toClient' \in Seq(FromServer) /\ serverStrand' \in Seq(ServerTasks)
      /\ StrandInOrder' /\ ReaderInOrder'
  <2>1. CASE ServerWorkerReports
    <3>1. serverStrand' = Append(serverStrand, SL!Disconnected) /\ toClient' = toClient
      BY <2>1 DEF ServerWorkerReports, SL!WorkerReports, SL!Post, wires
    <3>2. SL!Disconnected.task # "Received"
      BY DEF SL!Disconnected
    <3> QED
      BY <1>1, <1>2, <1>3, <3>1, <3>2, TasksType, OrderOfAppend DEF WireInv
  <2>2. CASE ServerSend \/ ServerSendFindsClosed \/ ServerSendFails
    <3>1. S!TakeTask("Send") /\ serverStrand' = Tail(serverStrand) \o <<>>
      BY <2>2 DEF ServerSend, ServerSendFindsClosed, ServerSendFails, S!RunSend
    <3>2. /\ serverStrand # <<>> /\ Head(serverStrand) \in ServerTasks
          /\ Head(serverStrand).task = "Send" /\ Head(serverStrand) # S!Connected
      BY <1>1, <3>1, ServerTakes
    <3>3. Tail(serverStrand) \in Seq(ServerTasks)
      BY <1>1, <3>2, HeadAndTail
    <3>4. serverStrand' = Tail(serverStrand)
      BY <3>1, <3>3
    <3>5. toClient' \in Seq(FromServer)
      <4>1. Head(serverStrand).bytes \in FromServer
        BY <3>2, Contents
      <4>2. toClient' = toClient \/ toClient' = Append(toClient, Head(serverStrand).bytes)
        BY <2>2 DEF ServerSend, ServerSendFindsClosed, ServerSendFails, wires
      <4> QED
        BY <1>1, <4>1, <4>2 DEF WireInv
    <3> QED
      BY <1>1, <1>2, <1>3, <3>2, <3>4, <3>5, OrderOfTail
  <2> QED
    BY <2>1, <2>2
<1> QED
  BY <1>1, <1>2, <1>3, <1>4, <1>5 DEF ServerInv, WireInv

-----------------------------------------------------------------------------
(* All together *)

LEMMA ClientAlone ==
    ASSUME SessionInv, ClientUnchanged
    PROVE  ClientInv'
BY DEF SessionInv, ClientUnchanged, clientProcess, ClientInv, ClientState

LEMMA ServerAlone ==
    ASSUME SessionInv, ServerUnchanged
    PROVE  ServerInv'
BY DEF SessionInv, ServerUnchanged, controlOfServer, linkOfServer, ServerInv, ServerState,
       S!TimerTypeOK, LinkInv, StrandInOrder, ReaderInOrder, Contacted

LEMMA InitialStates ==
    /\ C!InitialClient \in C!ClientStates
    /\ S!InitialServer \in S!ServerStates
    /\ ~C!Reset.handshake_completed
    /\ C!InitialClient.handshake = C!Reset /\ ~C!InitialClient.telemetry_requested
    /\ S!InitialServer.handshake = C!Reset /\ ~S!InitialServer.telemetry_enabled
<1>1. C!InitialClient \in C!ClientStates
  BY HandshakeType
  DEF C!InitialClient, C!ClientStates, C!ConnectionStates, C!InstanceId, C!ZeroInstance
<1>2. S!InitialServer \in S!ServerStates
  BY HandshakeType, SameHandshake
  DEF S!InitialServer, S!ServerStates, S!ConnectionStates, S!InstanceId, S!ZeroInstance
<1> QED
  BY <1>1, <1>2, SameHandshake DEF C!InitialClient, S!InitialServer, C!Reset

LEMMA ServerStarts ==
    ASSUME server = S!InitialServer, serverEffects = <<>>, serverStrand = <<>>,
           running = FALSE, armed = 0, channelValid = FALSE, reader = "opening",
           inHand = SL!Nothing, reporting = FALSE, serverClock \in Nat
    PROVE  ServerInv
<1>1. ServerState
  BY InitialStates, EffectsType DEF ServerState
<1>2. LinkInv
  BY DEF LinkInv, SL!ReaderPlaces
<1>3. serverStrand \in Seq(ServerTasks) /\ StrandInOrder /\ ReaderInOrder
  BY DEF StrandInOrder, ReaderInOrder
<1> QED
  BY <1>1, <1>2, <1>3 DEF ServerInv, S!TimerTypeOK

LEMMA SessionInvInitially == Init => SessionInv
<1> SUFFICES ASSUME Init PROVE SessionInv
  OBVIOUS
<1>1. ClientState
  BY InitialStates, EffectsType
  DEF Init, C!ControllerInit, C!Init, ClientState
<1>2. ClientInv
  BY <1>1 DEF Init, C!ControllerInit, ClientInv, CL!LinkStates
<1>3. ServerInv
  BY ServerStarts DEF Init, S!Init, S!TimerInit, SL!LinkInit
<1>4. WireInv
  BY DEF Init, WireInv
<1> QED
  BY <1>2, <1>3, <1>4 DEF SessionInv

LEMMA FaultStep ==
    ASSUME SessionInv, ClientCrash \/ ServerCrash \/ DropToClient \/ DropToServer
    PROVE  SessionInv'
<1>1. ClientInv /\ ServerInv /\ WireInv
  BY DEF SessionInv
<1>2. CASE ClientCrash
  <2>1. ClientState'
    BY <1>2, InitialStates, EffectsType DEF ClientCrash, ClientState
  <2>2. ClientInv'
    BY <1>1, <1>2, <2>1 DEF ClientCrash, ClientInv, CL!LinkStates
  <2>3. WireInv'
    BY <1>1, <1>2 DEF ClientCrash, WireInv, wires
  <2> QED
    BY <1>2, <2>2, <2>3, ServerAlone DEF ClientCrash, SessionInv
<1>3. CASE ServerCrash
  <2>1. ServerState'
    BY <1>3, InitialStates, EffectsType DEF ServerCrash, ServerState
  <2>2. LinkInv'
    BY <1>3 DEF ServerCrash, LinkInv, SL!ReaderPlaces
  <2>3. serverStrand' \in Seq(ServerTasks) /\ StrandInOrder' /\ ReaderInOrder'
    BY <1>3 DEF ServerCrash, StrandInOrder, ReaderInOrder
  <2>4. ServerInv'
    BY <1>1, <1>3, <2>1, <2>2, <2>3 DEF ServerCrash, ServerInv, S!TimerTypeOK
  <2>5. WireInv'
    BY <1>1, <1>3 DEF ServerCrash, WireInv, wires
  <2> QED
    BY <1>3, <2>4, <2>5, ClientAlone DEF ServerCrash, SessionInv
<1>4. CASE DropToClient \/ DropToServer
  <2>1. /\ toClient # <<>> => Tail(toClient) \in Seq(FromServer)
        /\ toServer # <<>> => Tail(toServer) \in Seq(FromClient)
    BY <1>1, HeadAndTail DEF WireInv
  <2>2. WireInv'
    BY <1>1, <1>4, <2>1 DEF DropToClient, DropToServer, WireInv
  <2> QED
    BY <1>4, <2>2, ClientAlone, ServerAlone DEF DropToClient, DropToServer, SessionInv
<1> QED
  BY <1>2, <1>3, <1>4

LEMMA SessionInvStep == SessionInv /\ [Next]_vars => SessionInv'
<1> SUFFICES ASSUME SessionInv, [Next]_vars PROVE SessionInv'
  OBVIOUS
<1>1. CASE ClientOpen \/ ClientRegister \/ ClientNotify \/ ClientReceive \/ ClientDisconnect
  <2>1. ServerUnchanged
    BY <1>1 DEF ClientOpen, ClientRegister, ClientNotify, ClientReceive, ClientDisconnect
  <2> QED
    BY <1>1, <2>1, ClientHostStep, ServerAlone DEF SessionInv
<1>2. CASE ClientWorker
  <2>1. ServerUnchanged
    BY <1>2 DEF ClientWorker, ClientRunConnected, ClientStep, ClientSend, ClientSendFails
  <2> QED
    BY <1>2, <2>1, ClientWorkerStep, ServerAlone DEF SessionInv
<1>3. CASE ServerOpenChannel \/ ServerReader \/ ServerReadFails
  <2>1. ClientUnchanged
    BY <1>3 DEF ServerOpenChannel, ServerReader, ServerRead, ServerReadsSeveral,
                ServerReaderGoesOn, ServerReadFails
  <2> QED
    BY <1>3, <2>1, ServerReaderStep, ClientAlone DEF SessionInv
<1>4. CASE ServerWorker \/ ServerSendFails
  <2>1. ClientUnchanged
    BY <1>4 DEF ServerWorker, ServerRunConnected, ServerStep, ServerSend,
                ServerSendFindsClosed, ServerSendFails, ServerWorkerReports
  <2> QED
    BY <1>4, <2>1, ServerRuns, ServerSendStep, ClientAlone DEF SessionInv, ServerWorker
<1>5. CASE TimerFires
  <2>1. ClientUnchanged
    BY <1>5 DEF TimerFires
  <2> QED
    BY <1>5, <2>1, ServerTimerStep, ClientAlone DEF SessionInv
<1>6. CASE ClientCrash \/ ServerCrash \/ DropToClient \/ DropToServer
  BY <1>6, FaultStep
<1>7. CASE UNCHANGED vars
  <2>1. ClientUnchanged /\ ServerUnchanged /\ UNCHANGED wires
    BY <1>7 DEF vars, ClientUnchanged, ServerUnchanged
  <2> QED
    BY <2>1, ClientAlone, ServerAlone DEF SessionInv, WireInv, wires
<1> QED
  BY <1>1, <1>2, <1>3, <1>4, <1>5, <1>6, <1>7 DEF Next, Faults

LEMMA SessionInvAlways == Spec => []SessionInv
BY SessionInvInitially, SessionInvStep, PTL DEF Spec

-----------------------------------------------------------------------------
(* The sequences of the invariant are those of the type invariant. *)
LEMMA TypeOfSession == SessionInv => TypeOK
<1>1. FromClient \subseteq C!Message /\ FromServer \subseteq C!Message /\ S!Message = C!Message
  BY DEF FromClient, FromServer, C!Message, S!Message, C!MessagesWith, S!MessagesWith,
         C!HelloMessages, S!HelloMessages, C!ErrorMessages, S!ErrorMessages, C!InstanceId,
         S!InstanceId, C!MakeTelemetryStart, S!MakeTelemetryStart, C!MakeCpuSample,
         S!MakeCpuSample, C!MakeCapabilitySet, S!MakeCapabilitySet, C!MakePing, S!MakePing,
         C!MakePong, S!MakePong, C!MakeError, S!MakeError,
         C!MakeWrongProtocolVersionError, S!MakeWrongProtocolVersionError,
         C!MakeUnsupportedMessageTypeError, S!MakeUnsupportedMessageTypeError
<1>2. /\ ClientEffects \subseteq C!ClientEffect
      /\ ServerEffects \subseteq S!ServerEffect
      /\ ClientTasks \subseteq C!Tasks
      /\ ServerTasks \subseteq S!Tasks
  BY <1>1 DEF ClientEffects, C!ClientEffect, ServerEffects, S!ServerEffect, ClientTasks, C!Tasks,
              ServerTasks, S!Tasks, C!Bytes, S!Bytes
<1>3. \A A, B : A \subseteq B => Seq(A) \subseteq Seq(B)
  OBVIOUS
<1> SUFFICES ASSUME SessionInv PROVE TypeOK
  OBVIOUS
<1>4. C!ControllerTypeOK /\ clientLink \in CL!LinkStates /\ clientClock \in Nat
  BY <1>2, <1>3
  DEF SessionInv, ClientInv, ClientState, C!ControllerTypeOK, C!TypeOK
<1>5. S!TypeOK /\ serverClock \in Nat
  BY <1>2, <1>3 DEF SessionInv, ServerInv, ServerState, S!TypeOK
<1>6. SL!LinkTypeOK
  BY <1>1 DEF SessionInv, ServerInv, LinkInv, SL!LinkTypeOK
<1>7. toServer \in Seq(C!Message) /\ toClient \in Seq(C!Message)
  BY <1>1, <1>3 DEF SessionInv, WireInv
<1> QED
  BY <1>4, <1>5, <1>6, <1>7 DEF TypeOK

(* Both processes and the channel between them keep their types. *)
THEOREM SessionTypeCorrect == Spec => []TypeOK
BY SessionInvAlways, TypeOfSession, PTL

(* Builds of different versions never complete a handshake and never start *)
(* telemetry.                                                              *)
THEOREM SessionVersionAgreement == Spec => []VersionAgreement
<1>1. SessionInv => VersionAgreement
  BY DEF SessionInv, ClientInv, ClientState, ServerInv, ServerState, VersionAgreement
<1> QED
  BY <1>1, SessionInvAlways, PTL

(* The server never greets and never completes a handshake in the name of  *)
(* no connection.                                                          *)
THEOREM SessionServerGreetsByName == Spec => []ServerGreetsByName
<1>1. SessionInv => ServerGreetsByName
  <2> SUFFICES ASSUME SessionInv PROVE ServerGreetsByName
    OBVIOUS
  <2>1. ASSUME NEW i \in DOMAIN toClient, toClient[i].type = "Hello"
        PROVE  toClient[i].instance_id # C!ZeroInstance
    <3>1. toClient[i] \in FromServer
      BY DEF SessionInv, WireInv
    <3> QED
      BY <2>1, <3>1 DEF FromServer
  <2> QED
    BY <2>1 DEF SessionInv, ServerInv, ServerState, ServerGreetsByName
<1> QED
  BY <1>1, SessionInvAlways, PTL

-----------------------------------------------------------------------------
(* That neither side goes back to an earlier instance of its peer: the     *)
(* Hellos of a side are in the order in which their ids were drawn, from   *)
(* its effects through its strand, the channel and the reader's hand to    *)
(* the other side's strand.                                                *)

(* The instance id that a message, a task or an effect carries; 0 if it    *)
(* carries none, or the zero id                                            *)
MessageId(m) == IF m.type = "Hello" THEN m.instance_id ELSE 0
IdIn(kind, x) ==
    IF kind = "Message" THEN MessageId(x)
    ELSE IF kind = "SendMessage"
           THEN IF x.effect = "SendMessage" THEN MessageId(x.message) ELSE 0
    ELSE IF x.task = kind THEN MessageId(x.bytes) ELSE 0

(* The ids in a sequence, those of its elements of the given kind, are in  *)
(* order and between two others.                                           *)
Between(lo, id, hi) == id = 0 \/ (lo <= id /\ id <= hi)
Within(kind, s, lo, hi) ==
    /\ \A i \in 1..Len(s) : Between(lo, IdIn(kind, s[i]), hi)
    /\ \A i, j \in 1..Len(s) :
           i < j => \/ IdIn(kind, s[i]) = 0
                    \/ IdIn(kind, s[j]) = 0
                    \/ IdIn(kind, s[i]) <= IdIn(kind, s[j])

(* What a side has still to say: on its strand, in the effects of its      *)
(* running task, and later in its own name                                 *)
Says(strand, effects, own, clock, lo, hi) ==
    /\ Within("Send", strand, lo, hi)
    /\ Within("SendMessage", effects, hi, own)
    /\ own = 0 \/ hi <= own
    /\ hi <= clock
    /\ own <= clock

(* What it has heard, and what its strand is about to tell it              *)
Hears(remote, strand, lo, hi) ==
    /\ remote <= lo
    /\ Within("Received", strand, lo, hi)

(* From the client to the server *)
ServerHears(a, b, c) ==
    /\ Hears(server.handshake.remote_instance_id, serverStrand, a, b)
    /\ Between(b, MessageId(inHand), c)
ClientSays(d, e) == Says(clientStrand, clientEffects, client.instance_id, clientClock, d, e)
ToServerInOrder ==
    \E a, b, c, d, e \in Nat :
        /\ a <= b /\ b <= c /\ c <= d /\ d <= e
        /\ ServerHears(a, b, c)
        /\ Within("Message", toServer, c, d)
        /\ ClientSays(d, e)

(* From the server to the client *)
ClientHears(a, b) == Hears(client.handshake.remote_instance_id, clientStrand, a, b)
ServerSays(d, e) == Says(serverStrand, serverEffects, server.instance_id, serverClock, d, e)
ToClientInOrder ==
    \E a, b, d, e \in Nat :
        /\ a <= b /\ b <= d /\ d <= e
        /\ ClientHears(a, b)
        /\ Within("Message", toClient, b, d)
        /\ ServerSays(d, e)

OrderInv == SessionInv /\ ToServerInOrder /\ ToClientInOrder

-----------------------------------------------------------------------------
(* Sequences whose ids are within bounds *)

HaveIds(kind, T) == \A x \in T : IdIn(kind, x) \in Nat

LEMMA WithinEmpty ==
    ASSUME NEW kind, NEW lo, NEW hi
    PROVE  Within(kind, <<>>, lo, hi)
BY DEF Within

LEMMA WithinWider ==
    ASSUME NEW kind, NEW T, HaveIds(kind, T), NEW s \in Seq(T),
           NEW lo \in Nat, NEW hi \in Nat, NEW l \in Nat, NEW h \in Nat,
           l <= lo, hi <= h, Within(kind, s, lo, hi)
    PROVE  Within(kind, s, l, h)
<1>1. ASSUME NEW i \in 1..Len(s) PROVE Between(l, IdIn(kind, s[i]), h)
  <2>1. IdIn(kind, s[i]) \in Nat /\ Between(lo, IdIn(kind, s[i]), hi)
    BY DEF HaveIds, Within
  <2> QED
    BY <2>1 DEF Between
<1> QED
  BY <1>1 DEF Within

(* What is left of a sequence when its first n elements are taken: no      *)
(* smaller than the id of the first                                        *)
LEMMA WithinRest ==
    ASSUME NEW kind, NEW T, HaveIds(kind, T), NEW s \in Seq(T), NEW t \in Seq(T),
           NEW n \in Nat, n >= 1, Len(s) = Len(t) + n,
           \A i \in 1..Len(t) : t[i] = s[i + n],
           NEW lo \in Nat, NEW hi \in Nat, Within(kind, s, lo, hi)
    PROVE  \E m \in Nat :
               /\ lo <= m /\ (m <= hi \/ m = lo)
               /\ IdIn(kind, s[1]) \in {0, m}
               /\ Within(kind, t, m, hi)
<1>1. Len(t) \in Nat /\ Len(s) \in Nat /\ 1 \in 1..Len(s)
  BY LenProperties
<1>2. IdIn(kind, s[1]) \in Nat /\ Between(lo, IdIn(kind, s[1]), hi)
  BY <1>1 DEF HaveIds, Within
<1> DEFINE m == IF IdIn(kind, s[1]) = 0 THEN lo ELSE IdIn(kind, s[1])
<1>3. m \in Nat /\ lo <= m /\ (m <= hi \/ m = lo) /\ IdIn(kind, s[1]) \in {0, m}
  BY <1>2 DEF Between
<1>4. ASSUME NEW i \in 1..Len(t)
      PROVE  i + n \in 1..Len(s) /\ 1 < i + n /\ IdIn(kind, t[i]) = IdIn(kind, s[i + n])
             /\ IdIn(kind, t[i]) \in Nat
  BY <1>1 DEF HaveIds
<1>5. ASSUME NEW i \in 1..Len(t) PROVE Between(m, IdIn(kind, t[i]), hi)
  <2>1. Between(lo, IdIn(kind, s[i + n]), hi)
    BY <1>4 DEF Within
  <2>2. \/ IdIn(kind, s[1]) = 0 \/ IdIn(kind, s[i + n]) = 0
        \/ IdIn(kind, s[1]) <= IdIn(kind, s[i + n])
    BY <1>1, <1>4 DEF Within
  <2> QED
    BY <1>2, <1>4, <2>1, <2>2 DEF Between
<1>6. ASSUME NEW i \in 1..Len(t), NEW j \in 1..Len(t), i < j
      PROVE  \/ IdIn(kind, t[i]) = 0 \/ IdIn(kind, t[j]) = 0
             \/ IdIn(kind, t[i]) <= IdIn(kind, t[j])
  <2>1. i + n < j + n
    BY <1>1, <1>6
  <2> QED
    BY <1>4, <2>1 DEF Within
<1> HIDE DEF m
<1> QED
  BY <1>3, <1>5, <1>6 DEF Within

LEMMA WithinTail ==
    ASSUME NEW kind, NEW T, HaveIds(kind, T), NEW s \in Seq(T), s # <<>>,
           NEW lo \in Nat, NEW hi \in Nat, Within(kind, s, lo, hi)
    PROVE  /\ \E m \in Nat :
                  /\ lo <= m /\ (m <= hi \/ m = lo)
                  /\ IdIn(kind, Head(s)) \in {0, m}
                  /\ Within(kind, Tail(s), m, hi)
           /\ Within(kind, Tail(s), lo, hi)
<1> DEFINE t == Tail(s)
<1>1. /\ t \in Seq(T) /\ Head(s) = s[1]
      /\ Len(s) = Len(t) + 1
      /\ \A i \in 1..Len(t) : t[i] = s[i + 1]
  BY HeadTailProperties, LenProperties
<1> HIDE DEF t
<1>2. PICK m \in Nat :
          /\ lo <= m /\ (m <= hi \/ m = lo)
          /\ IdIn(kind, s[1]) \in {0, m}
          /\ Within(kind, t, m, hi)
  <2>1. 1 \in Nat /\ 1 >= 1
    OBVIOUS
  <2> QED
    BY <1>1, <2>1, WithinRest
<1>3. Within(kind, t, lo, hi)
  <2>1. hi <= hi
    OBVIOUS
  <2> QED
    BY <1>1, <1>2, <2>1, WithinWider
<1> QED
  BY <1>1, <1>2, <1>3 DEF t

LEMMA WithinAppend ==
    ASSUME NEW kind, NEW T, HaveIds(kind, T), NEW s \in Seq(T), NEW x \in T,
           NEW lo \in Nat, NEW mid \in Nat, NEW hi \in Nat, lo <= mid, mid <= hi,
           Within(kind, s, lo, mid), Between(mid, IdIn(kind, x), hi)
    PROVE  Within(kind, Append(s, x), lo, hi)
<1> DEFINE t == Append(s, x)
<1>1. /\ Len(s) \in Nat /\ Len(t) = Len(s) + 1 /\ t[Len(s) + 1] = x
      /\ \A i \in 1..Len(s) : t[i] = s[i]
  BY AppendProperties, LenProperties
<1> HIDE DEF t
<1>2. IdIn(kind, x) \in Nat /\ \A i \in 1..Len(s) : IdIn(kind, s[i]) \in Nat
  BY DEF HaveIds
<1>3. \A i \in 1..Len(t) : i \in 1..Len(s) \/ i = Len(s) + 1
  BY <1>1
<1>4. ASSUME NEW i \in 1..Len(s) PROVE Between(lo, IdIn(kind, s[i]), mid)
  BY DEF Within
<1>5. ASSUME NEW i \in 1..Len(t) PROVE Between(lo, IdIn(kind, t[i]), hi)
  <2>1. CASE i \in 1..Len(s)
    BY <1>1, <1>2, <1>4, <2>1 DEF Between
  <2>2. CASE i = Len(s) + 1
    BY <1>1, <1>2, <2>2 DEF Between
  <2> QED
    BY <1>3, <2>1, <2>2
<1>6. ASSUME NEW i \in 1..Len(t), NEW j \in 1..Len(t), i < j
      PROVE  \/ IdIn(kind, t[i]) = 0 \/ IdIn(kind, t[j]) = 0
             \/ IdIn(kind, t[i]) <= IdIn(kind, t[j])
  <2>1. i \in 1..Len(s)
    BY <1>1, <1>6
  <2>2. CASE j \in 1..Len(s)
    BY <1>1, <1>6, <2>1, <2>2 DEF Within
  <2>3. CASE j = Len(s) + 1
    BY <1>1, <1>2, <1>4, <2>1, <2>3 DEF Between
  <2> QED
    BY <1>3, <2>2, <2>3
<1>7. Within(kind, t, lo, hi)
  BY <1>5, <1>6 DEF Within
<1> QED
  BY <1>7 DEF t

(* What a side says in its own name *)
Own(E, own) == {x \in E : IdIn("SendMessage", x) \in {0, own}}

LEMMA WithinOwn ==
    ASSUME NEW E, NEW own \in Nat, NEW s \in Seq(Own(E, own)),
           NEW lo \in Nat, own = 0 \/ lo <= own
    PROVE  Within("SendMessage", s, lo, own)
<1>1. ASSUME NEW i \in 1..Len(s) PROVE IdIn("SendMessage", s[i]) \in {0, own}
  BY DEF Own
<1>2. ASSUME NEW i \in 1..Len(s) PROVE Between(lo, IdIn("SendMessage", s[i]), own)
  BY <1>1 DEF Between
<1> QED
  BY <1>1, <1>2 DEF Within

-----------------------------------------------------------------------------
(* What the steps of a side do to what it says and hears *)

(* A task is run that is no send: new effects, in the present name or in   *)
(* that of a new connection. *)
LEMMA TaskSays ==
    ASSUME NEW T, HaveIds("Send", T), NEW strand \in Seq(T), strand # <<>>,
           NEW E, NEW effects, NEW own \in Nat, NEW clock \in Nat,
           NEW lo \in Nat, NEW hi \in Nat, Says(strand, effects, own, clock, lo, hi),
           NEW o \in Nat, NEW c \in Nat,
           (o = own /\ c = clock) \/ (o = clock + 1 /\ c = clock + 1),
           NEW new \in Seq(Own(E, o))
    PROVE  Says(Tail(strand), new, o, c, lo, hi)
<1>1. Within("Send", Tail(strand), lo, hi)
  BY WithinTail DEF Says
<1>2. (o = 0 \/ hi <= o) /\ hi <= c /\ o <= c
  BY DEF Says
<1>3. Within("SendMessage", new, hi, o)
  BY <1>2, WithinOwn
<1> QED
  BY <1>1, <1>2, <1>3 DEF Says

LEMMA TaskHears ==
    ASSUME NEW T, HaveIds("Received", T), NEW strand \in Seq(T), strand # <<>>,
           NEW remote \in Int, NEW lo \in Nat, NEW hi \in Nat, lo <= hi,
           Hears(remote, strand, lo, hi),
           NEW r \in {remote, -1, IdIn("Received", Head(strand))}
    PROVE  /\ \E m \in Nat : lo <= m /\ m <= hi /\ Hears(r, Tail(strand), m, hi)
           /\ ~(0 < r /\ r < remote)
<1>1. PICK m \in Nat : /\ lo <= m /\ (m <= hi \/ m = lo)
                       /\ IdIn("Received", Head(strand)) \in {0, m}
                       /\ Within("Received", Tail(strand), m, hi)
  BY WithinTail DEF Hears
<1>2. remote <= lo
  BY DEF Hears
<1>3. m <= hi /\ r \in {remote, -1, 0, m}
  BY <1>1
<1> QED
  BY <1>1, <1>2, <1>3 DEF Hears

(* A message is passed from the effects to the strand, *)
LEMMA EffectSays ==
    ASSUME NEW T, HaveIds("Send", T), NEW strand \in Seq(T), NEW x \in T,
           NEW E, HaveIds("SendMessage", E), NEW effects \in Seq(E), effects # <<>>,
           IdIn("Send", x) = IdIn("SendMessage", Head(effects)),
           NEW own \in Nat, NEW clock \in Nat, NEW lo \in Nat, NEW hi \in Nat, lo <= hi,
           Says(strand, effects, own, clock, lo, hi)
    PROVE  \E m \in Nat : hi <= m /\ Says(Append(strand, x), Tail(effects), own, clock, lo, m)
<1>1. PICK m \in Nat : /\ hi <= m /\ (m <= own \/ m = hi)
                       /\ IdIn("SendMessage", Head(effects)) \in {0, m}
                       /\ Within("SendMessage", Tail(effects), m, own)
  BY WithinTail DEF Says
<1>2. Between(hi, IdIn("Send", x), m)
  BY <1>1 DEF Between
<1>3. Within("Send", Append(strand, x), lo, m)
  BY <1>1, <1>2, WithinAppend DEF Says
<1>4. (own = 0 \/ m <= own) /\ m <= clock /\ own <= clock
  BY <1>1 DEF Says
<1> QED
  BY <1>1, <1>3, <1>4 DEF Says

(* an effect is handled that says nothing, *)
LEMMA OtherEffectSays ==
    ASSUME NEW E, HaveIds("SendMessage", E), NEW effects \in Seq(E),
           NEW rest, rest = <<>> \/ (effects # <<>> /\ rest = Tail(effects)),
           NEW strand, NEW own \in Nat, NEW clock \in Nat, NEW lo \in Nat, NEW hi \in Nat,
           Says(strand, effects, own, clock, lo, hi)
    PROVE  Says(strand, rest, own, clock, lo, hi)
<1>1. Within("SendMessage", effects, hi, own)
  BY DEF Says
<1>2. Within("SendMessage", rest, hi, own)
  <2>1. CASE rest = <<>>
    BY <2>1, WithinEmpty
  <2>2. CASE effects # <<>> /\ rest = Tail(effects)
    BY <1>1, <2>2, WithinTail
  <2> QED
    BY <2>1, <2>2
<1> QED
  BY <1>2 DEF Says

(* a send is run, *)
LEMMA SendSays ==
    ASSUME NEW T, HaveIds("Send", T), NEW strand \in Seq(T), strand # <<>>,
           NEW effects, NEW own \in Nat, NEW clock \in Nat,
           NEW lo \in Nat, NEW hi \in Nat, lo <= hi,
           Says(strand, effects, own, clock, lo, hi)
    PROVE  /\ \E m \in Nat :
                  /\ lo <= m /\ m <= hi
                  /\ IdIn("Send", Head(strand)) \in {0, m}
                  /\ Says(Tail(strand), effects, own, clock, m, hi)
           /\ Says(Tail(strand), effects, own, clock, lo, hi)
<1>1. /\ Within("Send", Tail(strand), lo, hi)
      /\ \E m \in Nat :
             /\ lo <= m /\ (m <= hi \/ m = lo)
             /\ IdIn("Send", Head(strand)) \in {0, m}
             /\ Within("Send", Tail(strand), m, hi)
  BY WithinTail DEF Says
<1> QED
  BY <1>1 DEF Says

(* a task is posted that is no send, *)
LEMMA PostSays ==
    ASSUME NEW T, HaveIds("Send", T), NEW strand \in Seq(T), NEW x \in T,
           IdIn("Send", x) = 0,
           NEW effects, NEW own \in Nat, NEW clock \in Nat,
           NEW lo \in Nat, NEW hi \in Nat, lo <= hi,
           Says(strand, effects, own, clock, lo, hi)
    PROVE  Says(Append(strand, x), effects, own, clock, lo, hi)
<1>1. Within("Send", Append(strand, x), lo, hi)
  BY WithinAppend DEF Says, Between
<1> QED
  BY <1>1 DEF Says

(* and a task is posted that may be a message. *)
LEMMA PostHears ==
    ASSUME NEW T, HaveIds("Received", T), NEW strand \in Seq(T), NEW x \in T,
           NEW remote, NEW lo \in Nat, NEW mid \in Nat, NEW hi \in Nat,
           lo <= mid, mid <= hi, Between(mid, IdIn("Received", x), hi),
           Hears(remote, strand, lo, mid)
    PROVE  Hears(remote, Append(strand, x), lo, hi)
BY WithinAppend DEF Hears

-----------------------------------------------------------------------------
(* The ids of messages, tasks and effects *)

LEMMA MessageIds ==
    /\ \A m \in FromClient \cup FromServer : MessageId(m) \in Nat
    /\ MessageId(SL!Nothing) = 0
<1>1. ASSUME NEW m \in FromClient \cup FromServer PROVE MessageId(m) \in Nat
  BY HelloId DEF FromClient, FromServer, MessageId
<1> QED
  BY <1>1 DEF MessageId, SL!Nothing

(* What they are made of *)
LEMMA IdsOf ==
    /\ \A m : IdIn("Message", m) = MessageId(m)
    /\ \A m : IdIn("SendMessage", C!SendMessage(m)) = MessageId(m)
    /\ \A m : IdIn("SendMessage", S!SendMessage(m)) = MessageId(m)
    /\ \A m : IdIn("Send", C!Send(m)) = MessageId(m)
    /\ \A m : IdIn("Send", S!Send(m)) = MessageId(m)
    /\ \A m : IdIn("Received", CL!Received(m)) = MessageId(m)
    /\ \A m : IdIn("Received", SL!Received(m)) = MessageId(m)
    /\ \A t : t.task # "Send" => IdIn("Send", t) = 0
    /\ \A t : t.task # "Received" => IdIn("Received", t) = 0
    /\ \A t : t.task = "Send" => IdIn("Send", t) = MessageId(t.bytes)
    /\ \A t : t.task = "Received" => IdIn("Received", t) = MessageId(t.bytes)
    /\ \A e : e.effect # "SendMessage" => IdIn("SendMessage", e) = 0
    /\ \A e : e.effect = "SendMessage" => IdIn("SendMessage", e) = MessageId(e.message)
BY DEF IdIn, C!SendMessage, S!SendMessage, C!Send, S!Send, CL!Received, SL!Received

LEMMA AllHaveIds ==
    /\ HaveIds("Send", ClientTasks) /\ HaveIds("Received", ClientTasks)
    /\ HaveIds("Send", ServerTasks) /\ HaveIds("Received", ServerTasks)
    /\ HaveIds("SendMessage", ClientEffects)
    /\ HaveIds("SendMessage", ServerEffects)
    /\ HaveIds("Message", FromClient) /\ HaveIds("Message", FromServer)
<1>1. ASSUME NEW t \in ClientTasks
      PROVE  IdIn("Send", t) \in Nat /\ IdIn("Received", t) \in Nat
  BY Contents, MessageIds, IdsOf
<1>2. ASSUME NEW t \in ServerTasks
      PROVE  IdIn("Send", t) \in Nat /\ IdIn("Received", t) \in Nat
  BY Contents, MessageIds, IdsOf
<1>3. ASSUME NEW e \in ClientEffects PROVE IdIn("SendMessage", e) \in Nat
  BY Contents, MessageIds, IdsOf
<1>4. ASSUME NEW e \in ServerEffects PROVE IdIn("SendMessage", e) \in Nat
  BY Contents, MessageIds, IdsOf
<1>5. ASSUME NEW m \in FromClient \cup FromServer PROVE IdIn("Message", m) \in Nat
  BY MessageIds, IdsOf
<1> QED
  BY <1>1, <1>2, <1>3, <1>4, <1>5 DEF HaveIds

(* Sequences of at most two *)
LEMMA ShortSequences ==
    ASSUME NEW T
    PROVE  /\ <<>> \in Seq(T)
           /\ \A x \in T : <<x>> \in Seq(T)
           /\ \A x, y \in T : <<x, y>> \in Seq(T)
           /\ \A s, t \in Seq(T) : s \o t \in Seq(T)
OBVIOUS

-----------------------------------------------------------------------------
(* What doStep returns is in the present name. *)

LEMMA ClientOwnEffects ==
    ASSUME NEW own \in Nat
    PROVE  /\ C!StopPing \in Own(ClientEffects, own)
           /\ C!SendMessage(C!MakeHello(ClientVersion, own)) \in Own(ClientEffects, own)
           /\ C!SendMessage(C!MakeWrongProtocolVersionError) \in Own(ClientEffects, own)
           /\ C!SendMessage(C!MakeUnsupportedMessageTypeError) \in Own(ClientEffects, own)
           /\ ClientVersion = ServerVersion
              => C!SendMessage(C!MakeTelemetryStart) \in Own(ClientEffects, own)
<1>1. /\ MessageId(C!MakeHello(ClientVersion, own)) = own
      /\ MessageId(C!MakeWrongProtocolVersionError) = 0
      /\ MessageId(C!MakeUnsupportedMessageTypeError) = 0
      /\ MessageId(C!MakeTelemetryStart) = 0
      /\ C!StopPing.effect # "SendMessage"
  BY DEF MessageId, C!MakeHello, C!MakeError, C!MakeWrongProtocolVersionError,
         C!MakeUnsupportedMessageTypeError, C!MakeTelemetryStart, C!StopPing
<1> QED
  BY <1>1, ClientMessages, EffectsType, IdsOf DEF Own

LEMMA ServerOwnEffects ==
    ASSUME NEW own \in Nat
    PROVE  /\ {S!StartTelemetryTimer, S!StopTelemetryTimer} \subseteq Own(ServerEffects, own)
           /\ own # C!ZeroInstance
              => S!SendMessage(S!MakeHello(ServerVersion, own)) \in Own(ServerEffects, own)
           /\ S!SendMessage(S!MakeWrongProtocolVersionError) \in Own(ServerEffects, own)
           /\ S!SendMessage(S!MakeUnsupportedMessageTypeError) \in Own(ServerEffects, own)
           /\ S!SendMessage(S!MakeCpuSample) \in Own(ServerEffects, own)
           /\ S!SendMessage(S!MakePong) \in Own(ServerEffects, own)
<1>1. /\ MessageId(S!MakeHello(ServerVersion, own)) = own
      /\ MessageId(S!MakeWrongProtocolVersionError) = 0
      /\ MessageId(S!MakeUnsupportedMessageTypeError) = 0
      /\ MessageId(S!MakeCpuSample) = 0
      /\ MessageId(S!MakePong) = 0
      /\ S!StartTelemetryTimer.effect # "SendMessage"
      /\ S!StopTelemetryTimer.effect # "SendMessage"
  BY DEF MessageId, S!MakeHello, S!MakeError, S!MakeWrongProtocolVersionError,
         S!MakeUnsupportedMessageTypeError, S!MakeCpuSample, S!MakePong,
         S!StartTelemetryTimer, S!StopTelemetryTimer
<1> QED
  BY <1>1, ServerMessages, EffectsType, IdsOf DEF Own

(* A Hello is taken for what it says, or the handshake starts over. *)
LEMMA ClientMessageOrder ==
    ASSUME ClientState, NEW m \in FromServer, C!MessageReceived(m)
    PROVE  /\ client'.instance_id = client.instance_id
           /\ clientEffects' \in Seq(Own(ClientEffects, client.instance_id))
           /\ client'.handshake.remote_instance_id
                \in {client.handshake.remote_instance_id, -1, MessageId(m)}
<1> DEFINE own == Own(ClientEffects, client.instance_id)
<1>1. /\ client.instance_id \in Nat /\ client \in C!ClientStates
      /\ client.handshake \in C!HandshakeStates
  BY DEF ClientState, C!ClientStates, C!InstanceId
<1>2. CASE C!HandleForeignHello(m)
  <2>1. clientEffects' \in Seq(own)
    BY <1>1, <1>2, ClientOwnEffects, ShortSequences DEF C!HandleForeignHello
  <2> QED
    BY <1>1, <1>2, <2>1 DEF C!HandleForeignHello, C!ClientStates, C!Reset, C!NoInstance
<1>3. CASE C!HandleHello(m)
  <2> DEFINE h == C!RemoteHelloReceived(client.handshake, m.instance_id)
             hello == IF h.local_hello_needed
                      THEN <<C!SendMessage(C!MakeHello(ClientVersion, client.instance_id))>>
                      ELSE <<>>
             request == IF h.handshake_completed /\ ~client.telemetry_requested
                        THEN <<C!SendMessage(C!MakeTelemetryStart)>>
                        ELSE <<>>
  <2>1. ClientVersion = ServerVersion
    BY <1>3 DEF C!HandleHello, FromServer
  <2>2. MessageId(m) = m.instance_id
    BY <1>3 DEF C!HandleHello, MessageId
  <2>3. h.remote_instance_id = m.instance_id
        /\ C!LocalHelloSent(h).remote_instance_id = m.instance_id
    BY DEF C!RemoteHelloReceived, C!LocalHelloSent
  <2>4. hello \in Seq(own) /\ request \in Seq(own)
    BY <1>1, <2>1, ClientOwnEffects, ShortSequences
  <2>5. /\ client' = [client EXCEPT !.handshake = C!LocalHelloSent(h),
                                    !.telemetry_requested = h.handshake_completed]
        /\ clientEffects' = hello \o request
    BY <1>3 DEF C!HandleHello
  <2> HIDE DEF h, hello, request, own
  <2>6. clientEffects' \in Seq(own)
    BY <2>4, <2>5, ShortSequences
  <2>7. client'.instance_id = client.instance_id
        /\ client'.handshake = C!LocalHelloSent(h)
    BY <1>1, <2>5 DEF C!ClientStates
  <2> QED
    BY <2>2, <2>3, <2>6, <2>7 DEF own
<1>4. CASE C!HandleUnsupported(m)
  BY <1>1, <1>4, ClientOwnEffects, ShortSequences DEF C!HandleUnsupported
<1>5. CASE C!HandleError(m) \/ C!HandleLogged(m)
  BY <1>5, ShortSequences DEF C!HandleError, C!HandleLogged
<1> QED
  BY <1>2, <1>3, <1>4, <1>5 DEF C!MessageReceived

LEMMA ServerMessageOrder ==
    ASSUME ServerState, server.instance_id # C!ZeroInstance,
           NEW m \in FromClient, S!MessageReceived(m)
    PROVE  /\ server'.instance_id = server.instance_id
           /\ serverEffects' \in Seq(Own(ServerEffects, server.instance_id))
           /\ server'.handshake.remote_instance_id
                \in {server.handshake.remote_instance_id, -1, MessageId(m)}
<1> DEFINE own == Own(ServerEffects, server.instance_id)
<1>1. /\ server.instance_id \in Nat /\ server \in S!ServerStates
      /\ server.handshake \in S!HandshakeStates
  BY DEF ServerState, S!ServerStates, S!InstanceId
<1>2. CASE S!HandleForeignHello(m)
  <2>1. serverEffects' \in Seq(own)
    BY <1>1, <1>2, ServerOwnEffects, ShortSequences DEF S!HandleForeignHello
  <2> QED
    BY <1>1, <1>2, <2>1 DEF S!HandleForeignHello, S!ServerStates, S!Reset, S!NoInstance
<1>3. CASE S!HandleHello(m)
  <2> DEFINE h == S!RemoteHelloReceived(server.handshake, m.instance_id)
             hello == IF h.local_hello_needed
                      THEN <<S!SendMessage(S!MakeHello(ServerVersion, server.instance_id))>>
                      ELSE <<>>
             stop == IF h.handshake_completed THEN <<>> ELSE <<S!StopTelemetryTimer>>
  <2>1. MessageId(m) = m.instance_id
    BY <1>3 DEF S!HandleHello, MessageId
  <2>2. h.remote_instance_id = m.instance_id
        /\ S!LocalHelloSent(h).remote_instance_id = m.instance_id
    BY DEF S!RemoteHelloReceived, S!LocalHelloSent
  <2>3. hello \in Seq(own) /\ stop \in Seq(own)
    BY <1>1, ServerOwnEffects, ShortSequences
  <2>4. /\ server' = [server EXCEPT
                         !.handshake = S!LocalHelloSent(h),
                         !.telemetry_enabled =
                            server.telemetry_enabled /\ h.handshake_completed]
        /\ serverEffects' = hello \o stop
    BY <1>3 DEF S!HandleHello
  <2> HIDE DEF h, hello, stop, own
  <2>5. serverEffects' \in Seq(own)
    BY <2>3, <2>4, ShortSequences
  <2>6. server'.instance_id = server.instance_id
        /\ server'.handshake = S!LocalHelloSent(h)
    BY <1>1, <2>4 DEF S!ServerStates
  <2> QED
    BY <2>1, <2>2, <2>5, <2>6 DEF own
<1>4. CASE S!HandleTelemetryStart(m)
  <2>1. serverEffects' \in Seq(own)
    BY <1>1, <1>4, ServerOwnEffects, ShortSequences DEF S!HandleTelemetryStart
  <2> QED
    BY <1>1, <1>4, <2>1 DEF S!HandleTelemetryStart, S!ServerStates
<1>5. CASE S!HandlePing(m) \/ S!HandleUnsupported(m)
  BY <1>1, <1>5, ServerOwnEffects, ShortSequences DEF S!HandlePing, S!HandleUnsupported
<1>6. CASE S!HandleError(m) \/ S!HandleCapabilitySet(m)
  BY <1>6, ShortSequences DEF S!HandleError, S!HandleCapabilitySet
<1> QED
  BY <1>2, <1>3, <1>4, <1>5, <1>6 DEF S!MessageReceived

-----------------------------------------------------------------------------
(* The steps of the client *)

(* The client runs a task that is no send. *)
ClientTask == ClientRunConnected \/ (ClientStep /\ (C!RunDisconnected \/ C!RunReceived))

LEMMA ClientTaskOrder ==
    ASSUME ClientInv, ClientTask
    PROVE  /\ clientStrand # <<>> /\ clientStrand' = Tail(clientStrand)
           /\ IdIn("Send", Head(clientStrand)) = 0
           /\ \/ client'.instance_id = client.instance_id /\ clientClock' = clientClock
              \/ client'.instance_id = clientClock + 1 /\ clientClock' = clientClock + 1
           /\ client'.instance_id \in Nat /\ clientClock' \in Nat
           /\ clientEffects' \in Seq(Own(ClientEffects, client'.instance_id))
           /\ client'.handshake.remote_instance_id
                \in {client.handshake.remote_instance_id, -1,
                     IdIn("Received", Head(clientStrand))}
<1>1. /\ ClientState /\ clientStrand \in Seq(ClientTasks) /\ clientClock \in Nat
      /\ client \in C!ClientStates /\ client.instance_id \in Nat
  BY DEF ClientInv, ClientState, C!ClientStates, C!InstanceId
<1>2. clientStrand # <<>> => Head(clientStrand) \in ClientTasks
  BY <1>1, HeadAndTail
<1>3. CASE ClientRunConnected
  <2>1. /\ C!TakeTask("Connected") /\ clientStrand' = Tail(clientStrand)
        /\ C!TransportConnected(clientClock + 1) /\ clientClock' = clientClock + 1
    BY <1>3 DEF ClientRunConnected, C!RunConnected
  <2>2. clientStrand # <<>> /\ Head(clientStrand).task = "Connected"
    BY <2>1 DEF C!TakeTask
  <2>3. /\ client'.instance_id = clientClock + 1
        /\ client'.handshake.remote_instance_id = -1
        /\ clientEffects' = <<C!StopPing,
                              C!SendMessage(C!MakeHello(ClientVersion, clientClock + 1))>>
    BY <2>1 DEF C!TransportConnected, C!LocalHelloSent, C!Reset, C!NoInstance
  <2>4. clientEffects' \in Seq(Own(ClientEffects, clientClock + 1))
    BY <1>1, <2>3, ClientOwnEffects, ShortSequences
  <2> QED
    BY <1>1, <2>1, <2>2, <2>3, <2>4, IdsOf
<1>4. CASE ClientStep /\ C!RunDisconnected
  <2>1. /\ C!TakeTask("Disconnected") /\ clientStrand' = Tail(clientStrand)
        /\ C!TransportDisconnected /\ clientClock' = clientClock
    BY <1>4 DEF ClientStep, C!RunDisconnected
  <2>2. clientStrand # <<>> /\ Head(clientStrand).task = "Disconnected"
    BY <2>1 DEF C!TakeTask
  <2>3. /\ client'.instance_id = client.instance_id
        /\ client'.handshake.remote_instance_id = -1
        /\ clientEffects' = <<C!StopPing>>
    BY <1>1, <2>1 DEF C!TransportDisconnected, C!ClientStates, C!Reset, C!NoInstance
  <2>4. clientEffects' \in Seq(Own(ClientEffects, client.instance_id))
    BY <1>1, <2>3, ClientOwnEffects, ShortSequences
  <2> QED
    BY <1>1, <2>1, <2>2, <2>3, <2>4, IdsOf
<1>5. CASE ClientStep /\ C!RunReceived
  <2>1. /\ C!TakeTask("Received") /\ clientStrand' = Tail(clientStrand)
        /\ C!MessageReceived(Head(clientStrand).bytes) /\ clientClock' = clientClock
    BY <1>5 DEF ClientStep, C!RunReceived
  <2>2. clientStrand # <<>> /\ Head(clientStrand).task = "Received"
    BY <2>1 DEF C!TakeTask
  <2>3. Head(clientStrand).bytes \in FromServer
    BY <1>2, <2>2, Contents
  <2>4. /\ client'.instance_id = client.instance_id
        /\ clientEffects' \in Seq(Own(ClientEffects, client.instance_id))
        /\ client'.handshake.remote_instance_id
             \in {client.handshake.remote_instance_id, -1,
                  MessageId(Head(clientStrand).bytes)}
    BY <1>1, <2>1, <2>3, ClientMessageOrder
  <2> QED
    BY <1>1, <2>1, <2>2, <2>4, IdsOf
<1> QED
  BY <1>3, <1>4, <1>5 DEF ClientTask

(* A step of the client's worker other than a send that reaches the        *)
(* channel                                                                 *)
LEMMA ClientWorkerSays ==
    ASSUME SessionInv, ClientTask \/ (ClientStep /\ (C!HandleSendMessage \/ C!HandleStopPing))
                         \/ ClientSendFails,
           NEW d \in Nat, NEW e \in Nat, d <= e, ClientSays(d, e)
    PROVE  \E m \in Nat : e <= m /\ ClientSays(d, m)'
<1>1. /\ ClientInv /\ clientStrand \in Seq(ClientTasks) /\ clientEffects \in Seq(ClientEffects)
      /\ clientClock \in Nat /\ client.instance_id \in Nat
  BY DEF SessionInv, ClientInv, ClientState, C!ClientStates, C!InstanceId
<1>2. Says(clientStrand, clientEffects, client.instance_id, clientClock, d, e)
  BY DEF ClientSays
<1>3. SUFFICES \E m \in Nat :
          e <= m /\ Says(clientStrand', clientEffects', client'.instance_id, clientClock', d, m)
  BY DEF ClientSays
<1>4. CASE ClientTask
  <2>1. /\ clientStrand # <<>> /\ clientStrand' = Tail(clientStrand)
        /\ \/ client'.instance_id = client.instance_id /\ clientClock' = clientClock
           \/ client'.instance_id = clientClock + 1 /\ clientClock' = clientClock + 1
        /\ client'.instance_id \in Nat /\ clientClock' \in Nat
        /\ clientEffects' \in Seq(Own(ClientEffects, client'.instance_id))
    BY <1>1, <1>4, ClientTaskOrder
  <2>2. Says(Tail(clientStrand), clientEffects', client'.instance_id, clientClock', d, e)
    BY <1>1, <1>2, <2>1, TaskSays, AllHaveIds
  <2> QED
    BY <2>1, <2>2
<1>5. CASE ClientStep /\ C!HandleSendMessage
  <2> DEFINE x == C!Send(Head(clientEffects).message)
  <2>1. /\ clientEffects # <<>> /\ Head(clientEffects).effect = "SendMessage"
        /\ clientStrand' = Append(clientStrand, x) /\ clientEffects' = Tail(clientEffects)
        /\ UNCHANGED <<client, clientClock>>
    BY <1>5 DEF ClientStep, C!HandleSendMessage, C!Post
  <2>2. Head(clientEffects) \in ClientEffects /\ Head(clientEffects).message \in FromClient
    BY <1>1, <2>1, HeadAndTail, Contents
  <2>3. x \in ClientTasks /\ IdIn("Send", x) = IdIn("SendMessage", Head(clientEffects))
    BY <2>1, <2>2, TasksType, IdsOf
  <2> HIDE DEF x
  <2> QED
    BY <1>1, <1>2, <2>1, <2>3, EffectSays, AllHaveIds
<1>6. CASE ClientStep /\ C!HandleStopPing
  <2>1. clientEffects # <<>> /\ clientEffects' = Tail(clientEffects)
        /\ UNCHANGED <<client, clientStrand, clientClock>>
    BY <1>6 DEF ClientStep, C!HandleStopPing
  <2>2. Says(clientStrand, Tail(clientEffects), client.instance_id, clientClock, d, e)
    BY <1>1, <1>2, <2>1, OtherEffectSays, AllHaveIds
  <2> QED
    BY <2>1, <2>2
<1>7. CASE ClientSendFails
  <2>1. clientStrand # <<>> /\ clientStrand' = Tail(clientStrand)
        /\ UNCHANGED <<client, clientEffects, clientClock>>
    BY <1>7 DEF ClientSendFails, C!RunSend, C!TakeTask, C!clientVars
  <2>2. Says(Tail(clientStrand), clientEffects, client.instance_id, clientClock, d, e)
    BY <1>1, <1>2, <2>1, SendSays, AllHaveIds
  <2> QED
    BY <2>1, <2>2
<1> QED
  BY <1>4, <1>5, <1>6, <1>7

LEMMA ClientWorkerHears ==
    ASSUME SessionInv, ClientWorker, NEW a \in Nat, NEW b \in Nat, a <= b, ClientHears(a, b)
    PROVE  /\ \E m \in Nat : a <= m /\ m <= b /\ ClientHears(m, b)'
           /\ ~Earlier(client'.handshake, client.handshake)
<1>1. /\ ClientInv /\ clientStrand \in Seq(ClientTasks) /\ clientEffects \in Seq(ClientEffects)
      /\ client.handshake.remote_instance_id \in Int
  BY DEF SessionInv, ClientInv, ClientState, C!ClientStates, C!HandshakeStates, C!InstanceId,
         C!NoInstance
<1> DEFINE remote == client.handshake.remote_instance_id
<1>2. Hears(remote, clientStrand, a, b)
  BY DEF ClientHears
<1>3. SUFFICES /\ \E m \in Nat : a <= m /\ m <= b /\ Hears(remote', clientStrand', m, b)
               /\ ~(0 < remote' /\ remote' < remote)
  BY DEF ClientHears, Earlier
<1>4. CASE ClientTask
  <2>1. /\ clientStrand # <<>> /\ clientStrand' = Tail(clientStrand)
        /\ remote' \in {remote, -1, IdIn("Received", Head(clientStrand))}
    BY <1>1, <1>4, ClientTaskOrder
  <2> HIDE DEF remote
  <2>2. PICK r : r = remote' /\ r \in {remote, -1, IdIn("Received", Head(clientStrand))}
    BY <2>1
  <2>3. /\ \E m \in Nat : a <= m /\ m <= b /\ Hears(r, Tail(clientStrand), m, b)
        /\ ~(0 < r /\ r < remote)
    BY <1>1, <1>2, <2>1, <2>2, TaskHears, AllHaveIds DEF remote
  <2> QED
    BY <2>1, <2>2, <2>3
<1>5. CASE ClientStep /\ C!HandleSendMessage
  <2> DEFINE x == C!Send(Head(clientEffects).message)
  <2>1. /\ clientEffects # <<>> /\ Head(clientEffects).effect = "SendMessage"
        /\ clientStrand' = Append(clientStrand, x) /\ UNCHANGED client
    BY <1>5 DEF ClientStep, C!HandleSendMessage, C!Post
  <2>2. Head(clientEffects) \in ClientEffects /\ Head(clientEffects).message \in FromClient
    BY <1>1, <2>1, HeadAndTail, Contents
  <2>3. x \in ClientTasks /\ x.task = "Send"
    BY <2>2, TasksType DEF C!Send
  <2> HIDE DEF x
  <2>4. IdIn("Received", x) = 0
    BY <2>3, IdsOf
  <2>5. Hears(remote, Append(clientStrand, x), a, b)
    BY <1>1, <1>2, <2>3, <2>4, PostHears, AllHaveIds DEF Between
  <2> QED
    BY <1>1, <2>1, <2>5
<1>6. CASE ClientStep /\ C!HandleStopPing
  <2>1. UNCHANGED <<client, clientStrand>>
    BY <1>6 DEF ClientStep, C!HandleStopPing
  <2> QED
    BY <1>1, <1>2, <2>1
<1>7. CASE ClientSend \/ ClientSendFails
  <2>1. /\ clientStrand # <<>> /\ clientStrand' = Tail(clientStrand) /\ UNCHANGED client
    BY <1>7 DEF ClientSend, ClientSendFails, C!RunSend, C!TakeTask, C!clientVars
  <2>2. /\ \E m \in Nat : a <= m /\ m <= b /\ Hears(remote, Tail(clientStrand), m, b)
    BY <1>1, <1>2, <2>1, TaskHears, AllHaveIds
  <2> QED
    BY <1>1, <2>1, <2>2
<1> QED
  BY <1>4, <1>5, <1>6, <1>7 DEF ClientWorker, ClientStep, ClientTask

LEMMA ClientWorkerOrder ==
    ASSUME OrderInv, ClientWorker
    PROVE  /\ ToServerInOrder' /\ ToClientInOrder'
           /\ ~Earlier(client'.handshake, client.handshake)
<1>1. PICK a, b, c, d, e \in Nat :
          /\ a <= b /\ b <= c /\ c <= d /\ d <= e
          /\ ServerHears(a, b, c)
          /\ Within("Message", toServer, c, d)
          /\ ClientSays(d, e)
  BY DEF OrderInv, ToServerInOrder
<1>2. PICK f, g, h, i \in Nat :
          /\ f <= g /\ g <= h /\ h <= i
          /\ ClientHears(f, g)
          /\ Within("Message", toClient, g, h)
          /\ ServerSays(h, i)
  BY DEF OrderInv, ToClientInOrder
<1>3. SessionInv /\ ServerUnchanged /\ toClient' = toClient
  BY DEF OrderInv, ClientWorker, ClientRunConnected, ClientStep, ClientSend, ClientSendFails,
         wires
<1>4. ServerHears(a, b, c)' /\ ServerSays(h, i)'
  BY <1>1, <1>2, <1>3 DEF ServerHears, ServerSays, ServerUnchanged, controlOfServer, linkOfServer
<1>5. PICK m \in Nat : f <= m /\ m <= g /\ ClientHears(m, g)'
  BY <1>2, <1>3, ClientWorkerHears
<1>6. ~Earlier(client'.handshake, client.handshake)
  BY <1>2, <1>3, ClientWorkerHears
<1>7. ToClientInOrder'
  BY <1>2, <1>3, <1>4, <1>5 DEF ToClientInOrder
<1>8. ToServerInOrder'
  <2>1. CASE ClientSend
    <3>1. /\ clientStrand # <<>> /\ clientStrand' = Tail(clientStrand)
          /\ Head(clientStrand).task = "Send"
          /\ toServer' = Append(toServer, Head(clientStrand).bytes)
          /\ UNCHANGED <<client, clientEffects, clientClock>>
      BY <2>1 DEF ClientSend, C!RunSend, C!TakeTask, C!clientVars
    <3>2. /\ clientStrand \in Seq(ClientTasks) /\ toServer \in Seq(FromClient)
          /\ clientClock \in Nat /\ client.instance_id \in Nat
      BY <1>3 DEF SessionInv, ClientInv, ClientState, WireInv, C!ClientStates, C!InstanceId
    <3>3. Head(clientStrand).bytes \in FromClient
      BY <3>1, <3>2, HeadAndTail, Contents
    <3>4. PICK k \in Nat :
              /\ d <= k /\ k <= e
              /\ IdIn("Send", Head(clientStrand)) \in {0, k}
              /\ Says(Tail(clientStrand), clientEffects, client.instance_id, clientClock, k, e)
      BY <1>1, <3>1, <3>2, SendSays, AllHaveIds DEF ClientSays
    <3>5. Between(d, IdIn("Message", Head(clientStrand).bytes), k)
      BY <3>1, <3>4, IdsOf DEF Between
    <3>6. Within("Message", toServer', c, k)
      BY <1>1, <3>1, <3>2, <3>3, <3>4, <3>5, WithinAppend, AllHaveIds
    <3>7. ClientSays(k, e)'
      BY <3>1, <3>4 DEF ClientSays
    <3> QED
      BY <1>1, <1>4, <3>4, <3>6, <3>7 DEF ToServerInOrder
  <2>2. CASE ~ClientSend
    <3>1. toServer' = toServer
      BY <2>2 DEF ClientWorker, ClientRunConnected, ClientStep, ClientSendFails, wires
    <3>2. PICK k \in Nat : e <= k /\ ClientSays(d, k)'
      BY <1>1, <1>3, <2>2, ClientWorkerSays DEF ClientWorker, ClientStep, ClientTask
    <3> QED
      BY <1>1, <1>4, <3>1, <3>2 DEF ToServerInOrder
  <2> QED
    BY <2>1, <2>2
<1> QED
  BY <1>6, <1>7, <1>8

LEMMA ClientHostOrder ==
    ASSUME OrderInv, ClientOpen \/ ClientRegister \/ ClientNotify \/ ClientDisconnect \/ ClientReceive
    PROVE  ToServerInOrder' /\ ToClientInOrder' /\ UNCHANGED <<client, server>>
<1>1. PICK a, b, c, d, e \in Nat :
          /\ a <= b /\ b <= c /\ c <= d /\ d <= e
          /\ ServerHears(a, b, c)
          /\ Within("Message", toServer, c, d)
          /\ ClientSays(d, e)
  BY DEF OrderInv, ToServerInOrder
<1>2. PICK f, g, h, i \in Nat :
          /\ f <= g /\ g <= h /\ h <= i
          /\ ClientHears(f, g)
          /\ Within("Message", toClient, g, h)
          /\ ServerSays(h, i)
  BY DEF OrderInv, ToClientInOrder
<1>3. /\ ServerUnchanged /\ toServer' = toServer
      /\ UNCHANGED <<client, clientEffects, clientClock>>
  BY DEF ClientOpen, ClientRegister, ClientNotify, ClientDisconnect, ClientReceive, wires
<1>4. ServerHears(a, b, c)' /\ ServerSays(h, i)' /\ server' = server
  BY <1>1, <1>2, <1>3 DEF ServerHears, ServerSays, ServerUnchanged, controlOfServer, linkOfServer
<1>5. /\ clientStrand \in Seq(ClientTasks) /\ toClient \in Seq(FromServer)
      /\ clientClock \in Nat /\ client.instance_id \in Nat
  BY DEF OrderInv, SessionInv, ClientInv, ClientState, WireInv, C!ClientStates, C!InstanceId
<1>6. CASE clientStrand' = clientStrand /\ toClient' = toClient
  <2>1. ClientSays(d, e)' /\ ClientHears(f, g)'
    BY <1>1, <1>2, <1>3, <1>6 DEF ClientSays, ClientHears
  <2> QED
    BY <1>1, <1>2, <1>3, <1>4, <1>6, <2>1 DEF ToServerInOrder, ToClientInOrder
<1>7. ASSUME NEW t \in ClientTasks, IdIn("Send", t) = 0, IdIn("Received", t) = 0,
             clientStrand' = Append(clientStrand, t), toClient' = toClient
      PROVE  ToServerInOrder' /\ ToClientInOrder'
  <2>1. ClientSays(d, e)'
    BY <1>1, <1>3, <1>5, <1>7, PostSays, AllHaveIds DEF ClientSays
  <2>2. Between(g, IdIn("Received", t), g)
    BY <1>7 DEF Between
  <2>3. ClientHears(f, g)'
    BY <1>2, <1>3, <1>5, <1>7, <2>2, PostHears, AllHaveIds DEF ClientHears
  <2> QED
    BY <1>1, <1>2, <1>3, <1>4, <1>7, <2>1, <2>3 DEF ToServerInOrder, ToClientInOrder
<1>8. CASE ClientOpen \/ ClientRegister \/ ClientNotify \/ ClientDisconnect
  <2>1. /\ toClient' = toClient
        /\ \/ clientStrand' = clientStrand
           \/ clientStrand' = Append(clientStrand, CL!Connected)
           \/ clientStrand' = Append(clientStrand, CL!Disconnected)
    BY <1>8 DEF ClientOpen, ClientRegister, ClientNotify, ClientDisconnect,
                CL!Open, CL!Register, CL!Notify, CL!Disconnect, CL!Post, wires
  <2>2. \A t \in {CL!Connected, CL!Disconnected} :
            t \in ClientTasks /\ IdIn("Send", t) = 0 /\ IdIn("Received", t) = 0
    BY TasksType, IdsOf DEF CL!Connected, CL!Disconnected
  <2> QED
    BY <1>3, <1>4, <1>6, <1>7, <2>1, <2>2
<1>9. CASE ClientReceive
  <2> DEFINE x == CL!Received(Head(toClient))
  <2>1. /\ toClient # <<>> /\ toClient' = Tail(toClient)
        /\ clientStrand' = Append(clientStrand, x)
    BY <1>9 DEF ClientReceive, CL!Receive, CL!Post
  <2>2. Head(toClient) \in FromServer
    BY <1>5, <2>1, HeadAndTail
  <2>3. x \in ClientTasks /\ IdIn("Send", x) = 0
        /\ IdIn("Received", x) = IdIn("Message", Head(toClient))
    BY <2>2, TasksType, IdsOf DEF CL!Received
  <2> HIDE DEF x
  <2>4. PICK k \in Nat : /\ g <= k /\ (k <= h \/ k = g)
                         /\ IdIn("Message", Head(toClient)) \in {0, k}
                         /\ Within("Message", Tail(toClient), k, h)
    BY <1>2, <1>5, <2>1, WithinTail, AllHaveIds
  <2>5. Between(g, IdIn("Received", x), k)
    BY <2>3, <2>4 DEF Between
  <2>6. ClientHears(f, k)'
    BY <1>2, <1>3, <1>5, <2>1, <2>3, <2>4, <2>5, PostHears, AllHaveIds DEF ClientHears
  <2>7. ClientSays(d, e)'
    BY <1>1, <1>3, <1>5, <2>1, <2>3, PostSays, AllHaveIds DEF ClientSays
  <2>8. f <= k /\ k <= h
    BY <1>2, <2>4
  <2> QED
    BY <1>1, <1>2, <1>3, <1>4, <2>1, <2>4, <2>6, <2>7, <2>8
    DEF ToServerInOrder, ToClientInOrder
<1> QED
  BY <1>8, <1>9


-----------------------------------------------------------------------------
(* The steps of the server's worker *)

(* The server runs a task that is no send. *)
ServerTask ==
    \/ ServerRunConnected
    \/ ServerStep /\ (S!RunDisconnected \/ S!RunReceived \/ S!RunSampleReady)

LEMMA ServerTaskOrder ==
    ASSUME ServerInv, ServerTask
    PROVE  /\ serverStrand # <<>> /\ serverStrand' = Tail(serverStrand)
           /\ \/ server'.instance_id = server.instance_id /\ serverClock' = serverClock
              \/ server'.instance_id = serverClock + 1 /\ serverClock' = serverClock + 1
           /\ server'.instance_id \in Nat /\ serverClock' \in Nat
           /\ serverEffects' \in Seq(Own(ServerEffects, server'.instance_id))
           /\ server'.handshake.remote_instance_id
                \in {server.handshake.remote_instance_id, -1,
                     IdIn("Received", Head(serverStrand))}
<1>1. /\ ServerState /\ serverStrand \in Seq(ServerTasks) /\ serverClock \in Nat
      /\ server \in S!ServerStates /\ server.instance_id \in Nat /\ StrandInOrder
  BY DEF ServerInv, ServerState, S!ServerStates, S!InstanceId
<1>2. serverStrand # <<>> => Head(serverStrand) \in ServerTasks
  BY <1>1, HeadAndTail
<1>3. CASE ServerRunConnected
  <2>1. /\ S!TakeTask("Connected") /\ serverStrand' = Tail(serverStrand)
        /\ S!TransportConnected(serverClock + 1) /\ serverClock' = serverClock + 1
    BY <1>3 DEF ServerRunConnected, S!RunConnected
  <2>2. serverStrand # <<>> /\ Head(serverStrand).task = "Connected"
    BY <2>1 DEF S!TakeTask
  <2>3. /\ server'.instance_id = serverClock + 1
        /\ server'.handshake.remote_instance_id = -1
        /\ serverEffects' = <<S!StopTelemetryTimer,
                              S!SendMessage(S!MakeHello(ServerVersion, serverClock + 1))>>
    BY <2>1 DEF S!TransportConnected, S!LocalHelloSent, S!Reset, S!NoInstance
  <2>4. serverClock + 1 \in Nat /\ serverClock + 1 # C!ZeroInstance
    BY <1>1 DEF C!ZeroInstance
  <2>5. serverEffects' \in Seq(Own(ServerEffects, serverClock + 1))
    BY <2>3, <2>4, ServerOwnEffects, ShortSequences
  <2> QED
    BY <1>1, <2>1, <2>2, <2>3, <2>4, <2>5, IdsOf
<1>4. CASE ServerStep /\ S!RunDisconnected
  <2>1. /\ S!TakeTask("Disconnected") /\ serverStrand' = Tail(serverStrand)
        /\ S!TransportDisconnected /\ serverClock' = serverClock
    BY <1>4 DEF ServerStep, S!RunDisconnected
  <2>2. serverStrand # <<>> /\ Head(serverStrand).task = "Disconnected"
    BY <2>1 DEF S!TakeTask
  <2>3. /\ server'.instance_id = server.instance_id
        /\ server'.handshake.remote_instance_id = -1
        /\ serverEffects' = <<S!StopTelemetryTimer>>
    BY <1>1, <2>1 DEF S!TransportDisconnected, S!ServerStates, S!Reset, S!NoInstance
  <2>4. serverEffects' \in Seq(Own(ServerEffects, server.instance_id))
    BY <1>1, <2>3, ServerOwnEffects, ShortSequences
  <2> QED
    BY <1>1, <2>1, <2>2, <2>3, <2>4, IdsOf
<1>5. CASE ServerStep /\ S!RunReceived
  <2>1. /\ S!TakeTask("Received") /\ serverStrand' = Tail(serverStrand)
        /\ S!MessageReceived(Head(serverStrand).bytes) /\ serverClock' = serverClock
    BY <1>5 DEF ServerStep, S!RunReceived
  <2>2. serverStrand # <<>> /\ Head(serverStrand).task = "Received"
    BY <2>1 DEF S!TakeTask
  <2>3. Head(serverStrand).bytes \in FromClient
    BY <1>2, <2>2, Contents
  <2>4. server.instance_id # C!ZeroInstance
    <3>1. 1 \in 1..Len(serverStrand) /\ Head(serverStrand) = serverStrand[1]
      BY <1>1, <2>2, EmptySeq, LenProperties
    <3>2. Contacted(1 - 1)
      BY <1>1, <2>2, <3>1 DEF StrandInOrder
    <3> QED
      BY <3>2 DEF Contacted
  <2>5. /\ server'.instance_id = server.instance_id
        /\ serverEffects' \in Seq(Own(ServerEffects, server.instance_id))
        /\ server'.handshake.remote_instance_id
             \in {server.handshake.remote_instance_id, -1,
                  MessageId(Head(serverStrand).bytes)}
    BY <1>1, <2>1, <2>3, <2>4, ServerMessageOrder
  <2> QED
    BY <1>1, <2>1, <2>2, <2>5, IdsOf
<1>6. CASE ServerStep /\ S!RunSampleReady
  <2>1. /\ serverStrand # <<>> /\ serverStrand' = Tail(serverStrand)
        /\ S!CpuSampleReady /\ serverClock' = serverClock
    BY <1>6 DEF ServerStep, S!RunSampleReady, S!TakeTask
  <2>2. server' = server
        /\ serverEffects' \in {<<>>, <<S!SendMessage(S!MakeCpuSample)>>}
    BY <2>1 DEF S!CpuSampleReady
  <2>3. serverEffects' \in Seq(Own(ServerEffects, server.instance_id))
    BY <1>1, <2>2, ServerOwnEffects, ShortSequences
  <2> QED
    BY <1>1, <2>1, <2>2, <2>3
<1> QED
  BY <1>3, <1>4, <1>5, <1>6 DEF ServerTask

(* A step of the server's worker other than a send that reaches the        *)
(* channel, or of a timer                                                  *)
ServerInside ==
    \/ ServerRunConnected \/ ServerStep \/ TimerFires
    \/ ServerSendFindsClosed \/ ServerSendFails \/ ServerWorkerReports

(* What it is apart from a task *)
ServerPasses ==
    /\ serverEffects # <<>> /\ Head(serverEffects).effect = "SendMessage"
    /\ serverStrand' = Append(serverStrand, S!Send(Head(serverEffects).message))
    /\ serverEffects' = Tail(serverEffects)
    /\ UNCHANGED <<server, serverClock>>
ServerControls ==
    /\ serverEffects' = <<>> \/ (serverEffects # <<>> /\ serverEffects' = Tail(serverEffects))
    /\ UNCHANGED <<server, serverStrand, serverClock>>
ServerDropsSend ==
    /\ serverStrand # <<>> /\ serverStrand' = Tail(serverStrand)
    /\ UNCHANGED <<server, serverEffects, serverClock>>
ServerPosts ==
    /\ \/ serverStrand' = serverStrand
       \/ \E t \in {SL!Disconnected, S!SampleReady} : serverStrand' = Append(serverStrand, t)
    /\ UNCHANGED <<server, serverEffects, serverClock>>

(* A send task is taken from the strand. *)
LEMMA TailOfSend ==
    ASSUME ServerInv, S!RunSend(<<>>)
    PROVE  /\ serverStrand # <<>> /\ Head(serverStrand).task = "Send"
           /\ serverStrand' = Tail(serverStrand)
           /\ UNCHANGED <<server, serverEffects>>
<1>1. serverStrand # <<>> /\ serverStrand \in Seq(ServerTasks)
  BY DEF ServerInv, S!RunSend, S!TakeTask
<1>2. Tail(serverStrand) \in Seq(ServerTasks)
  BY <1>1, HeadAndTail
<1> QED
  BY <1>1, <1>2 DEF S!RunSend, S!TakeTask

LEMMA ServerInsideIs ==
    ASSUME ServerInv, ServerInside
    PROVE  \/ ServerTask \/ ServerPasses \/ ServerControls \/ ServerDropsSend \/ ServerPosts
<1>1. CASE ServerRunConnected
  BY <1>1 DEF ServerTask
<1>2. CASE ServerStep
  <2>1. CASE S!RunDisconnected \/ S!RunReceived \/ S!RunSampleReady
    BY <1>2, <2>1 DEF ServerTask
  <2>2. CASE S!HandleSendMessage
    BY <1>2, <2>2 DEF ServerStep, S!HandleSendMessage, S!Post, ServerPasses
  <2>3. CASE \/ S!HandleStartTelemetryTimer \/ S!HandleStartTelemetryTimerThrows
             \/ S!HandleStopTelemetryTimer
    BY <1>2, <2>3
    DEF ServerStep, S!HandleStartTelemetryTimer, S!HandleStartTelemetryTimerThrows,
        S!HandleStopTelemetryTimer, ServerControls
  <2> QED
    BY <1>2, <2>1, <2>2, <2>3 DEF ServerStep
<1>3. CASE TimerFires
  <2>1. /\ UNCHANGED <<server, serverEffects, serverClock>>
        /\ serverStrand' = serverStrand \/ serverStrand' = Append(serverStrand, S!SampleReady)
    BY <1>3 DEF TimerFires, S!TimerExpires, S!TimerExpiresStopped, S!TimerExpiresThrows, S!Post
  <2> QED
    BY <2>1 DEF ServerPosts
<1>4. CASE ServerSendFindsClosed \/ ServerSendFails
  <2>1. S!RunSend(<<>>) /\ serverClock' = serverClock
    BY <1>4 DEF ServerSendFindsClosed, ServerSendFails
  <2> QED
    BY <2>1, TailOfSend DEF ServerDropsSend
<1>5. CASE ServerWorkerReports
  BY <1>5 DEF ServerWorkerReports, SL!WorkerReports, SL!Post, ServerPosts
<1> QED
  BY <1>1, <1>2, <1>3, <1>4, <1>5 DEF ServerInside

LEMMA PassedIs ==
    ASSUME ServerInv, ServerPasses
    PROVE  LET x == S!Send(Head(serverEffects).message)
           IN  /\ x \in ServerTasks /\ IdIn("Received", x) = 0
               /\ IdIn("Send", x) = IdIn("SendMessage", Head(serverEffects))
<1>1. serverEffects # <<>> /\ serverEffects \in Seq(ServerEffects)
      /\ Head(serverEffects).effect = "SendMessage"
  BY DEF ServerPasses, ServerInv, ServerState
<1>2. Head(serverEffects) \in ServerEffects /\ Head(serverEffects).message \in FromServer
  BY <1>1, HeadAndTail, Contents
<1>3. S!Send(Head(serverEffects).message) \in ServerTasks
  BY <1>2, TasksType
<1>4. S!Send(Head(serverEffects).message).task = "Send"
  BY DEF S!Send
<1>5. IdIn("Received", S!Send(Head(serverEffects).message)) = 0
  BY <1>4, IdsOf
<1>6. IdIn("Send", S!Send(Head(serverEffects).message)) = IdIn("SendMessage", Head(serverEffects))
  BY <1>1, IdsOf
<1> QED
  BY <1>3, <1>5, <1>6

LEMMA PostedIs ==
    ASSUME NEW t \in {SL!Disconnected, S!SampleReady}
    PROVE  t \in ServerTasks /\ IdIn("Send", t) = 0 /\ IdIn("Received", t) = 0
BY TasksType, IdsOf DEF SL!Disconnected, S!SampleReady

LEMMA ServerInsideSays ==
    ASSUME SessionInv, ServerInside,
           NEW d \in Nat, NEW e \in Nat, d <= e, ServerSays(d, e)
    PROVE  \E m \in Nat : e <= m /\ ServerSays(d, m)'
<1>1. /\ ServerInv /\ serverStrand \in Seq(ServerTasks) /\ serverEffects \in Seq(ServerEffects)
      /\ serverClock \in Nat /\ server.instance_id \in Nat
  BY DEF SessionInv, ServerInv, ServerState, S!ServerStates, S!InstanceId
<1>2. Says(serverStrand, serverEffects, server.instance_id, serverClock, d, e)
  BY DEF ServerSays
<1>3. SUFFICES \E m \in Nat :
          e <= m /\ Says(serverStrand', serverEffects', server'.instance_id, serverClock', d, m)
  BY DEF ServerSays
<1>4. CASE ServerTask
  <2>1. /\ serverStrand # <<>> /\ serverStrand' = Tail(serverStrand)
        /\ \/ server'.instance_id = server.instance_id /\ serverClock' = serverClock
           \/ server'.instance_id = serverClock + 1 /\ serverClock' = serverClock + 1
        /\ server'.instance_id \in Nat /\ serverClock' \in Nat
        /\ serverEffects' \in Seq(Own(ServerEffects, server'.instance_id))
    BY <1>1, <1>4, ServerTaskOrder
  <2>2. Says(Tail(serverStrand), serverEffects', server'.instance_id, serverClock', d, e)
    BY <1>1, <1>2, <2>1, TaskSays, AllHaveIds
  <2> QED
    BY <2>1, <2>2
<1>5. CASE ServerPasses
  <2> DEFINE x == S!Send(Head(serverEffects).message)
  <2>1. x \in ServerTasks /\ IdIn("Send", x) = IdIn("SendMessage", Head(serverEffects))
    BY <1>1, <1>5, PassedIs
  <2>2. /\ serverEffects # <<>> /\ serverEffects' = Tail(serverEffects)
        /\ serverStrand' = Append(serverStrand, x) /\ UNCHANGED <<server, serverClock>>
    BY <1>5 DEF ServerPasses
  <2> HIDE DEF x
  <2> QED
    BY <1>1, <1>2, <2>1, <2>2, EffectSays, AllHaveIds
<1>6. CASE ServerControls
  <2>1. PICK rest : /\ serverEffects' = rest
                    /\ rest = <<>> \/ (serverEffects # <<>> /\ rest = Tail(serverEffects))
    BY <1>6 DEF ServerControls
  <2>2. Says(serverStrand, rest, server.instance_id, serverClock, d, e)
    BY <1>1, <1>2, <2>1, OtherEffectSays, AllHaveIds
  <2> QED
    BY <1>6, <2>1, <2>2 DEF ServerControls
<1>7. CASE ServerDropsSend
  <2>1. serverStrand # <<>>
    BY <1>7 DEF ServerDropsSend
  <2>2. Says(Tail(serverStrand), serverEffects, server.instance_id, serverClock, d, e)
    BY <1>1, <1>2, <2>1, SendSays, AllHaveIds
  <2> QED
    BY <1>7, <2>2 DEF ServerDropsSend
<1>8. CASE ServerPosts
  <2>1. ASSUME NEW t \in {SL!Disconnected, S!SampleReady}
        PROVE  Says(Append(serverStrand, t), serverEffects, server.instance_id, serverClock, d, e)
    BY <1>1, <1>2, PostedIs, PostSays, AllHaveIds
  <2>2. UNCHANGED <<server, serverEffects, serverClock>>
    BY <1>8 DEF ServerPosts
  <2>3. Says(serverStrand', serverEffects, server.instance_id, serverClock, d, e)
    BY <1>2, <1>8, <2>1 DEF ServerPosts
  <2> QED
    BY <2>2, <2>3
<1> QED
  BY <1>1, <1>4, <1>5, <1>6, <1>7, <1>8, ServerInsideIs

LEMMA ServerInsideHears ==
    ASSUME SessionInv, ServerInside \/ ServerSend,
           NEW a \in Nat, NEW b \in Nat, a <= b,
           Hears(server.handshake.remote_instance_id, serverStrand, a, b)
    PROVE  /\ \E m \in Nat :
                  /\ a <= m /\ m <= b
                  /\ Hears(server'.handshake.remote_instance_id, serverStrand', m, b)
           /\ ~Earlier(server'.handshake, server.handshake)
<1>1. /\ ServerInv /\ serverStrand \in Seq(ServerTasks)
      /\ server.handshake.remote_instance_id \in Int
  BY DEF SessionInv, ServerInv, ServerState, S!ServerStates, S!HandshakeStates, S!InstanceId,
         S!NoInstance
<1> DEFINE remote == server.handshake.remote_instance_id
<1>2. SUFFICES /\ \E m \in Nat : a <= m /\ m <= b /\ Hears(remote', serverStrand', m, b)
               /\ ~(0 < remote' /\ remote' < remote)
  BY DEF Earlier
<1>3. CASE ServerTask
  <2>1. /\ serverStrand # <<>> /\ serverStrand' = Tail(serverStrand)
        /\ remote' \in {remote, -1, IdIn("Received", Head(serverStrand))}
    BY <1>1, <1>3, ServerTaskOrder
  <2> HIDE DEF remote
  <2>2. PICK r : r = remote' /\ r \in {remote, -1, IdIn("Received", Head(serverStrand))}
    BY <2>1
  <2>3. /\ \E m \in Nat : a <= m /\ m <= b /\ Hears(r, Tail(serverStrand), m, b)
        /\ ~(0 < r /\ r < remote)
    BY <1>1, <2>1, <2>2, TaskHears, AllHaveIds DEF remote
  <2> QED
    BY <2>1, <2>2, <2>3
<1>4. CASE ServerPasses
  <2> DEFINE x == S!Send(Head(serverEffects).message)
  <2>1. x \in ServerTasks /\ IdIn("Received", x) = 0
    BY <1>1, <1>4, PassedIs
  <2>2. serverStrand' = Append(serverStrand, x) /\ server' = server
    BY <1>4 DEF ServerPasses
  <2> HIDE DEF x
  <2>3. Hears(remote, Append(serverStrand, x), a, b)
    BY <1>1, <2>1, PostHears, AllHaveIds DEF Between
  <2> QED
    BY <1>1, <2>2, <2>3
<1>5. CASE ServerControls
  BY <1>1, <1>5 DEF ServerControls
<1>6. CASE ServerDropsSend
  <2>1. serverStrand # <<>> /\ serverStrand' = Tail(serverStrand) /\ server' = server
    BY <1>6 DEF ServerDropsSend
  <2>2. \E m \in Nat : a <= m /\ m <= b /\ Hears(remote, Tail(serverStrand), m, b)
    BY <1>1, <2>1, TaskHears, AllHaveIds
  <2> QED
    BY <1>1, <2>1, <2>2
<1>7. CASE ServerPosts
  <2>1. ASSUME NEW t \in {SL!Disconnected, S!SampleReady}
        PROVE  Hears(remote, Append(serverStrand, t), a, b)
    BY <1>1, PostedIs, PostHears, AllHaveIds DEF Between
  <2>2. server' = server
    BY <1>7 DEF ServerPosts
  <2>3. Hears(remote, serverStrand', a, b)
    BY <1>7, <2>1 DEF ServerPosts
  <2> QED
    BY <1>1, <2>2, <2>3
<1>8. CASE ServerSend
  <2>1. S!RunSend(<<>>) /\ serverClock' = serverClock
    BY <1>8 DEF ServerSend
  <2> QED
    BY <1>1, <1>6, <2>1, TailOfSend DEF ServerDropsSend
<1> QED
  BY <1>1, <1>3, <1>4, <1>5, <1>6, <1>7, <1>8, ServerInsideIs

LEMMA ServerInsideOrder ==
    ASSUME OrderInv, ServerInside
    PROVE  /\ ToServerInOrder' /\ ToClientInOrder'
           /\ ~Earlier(server'.handshake, server.handshake) /\ client' = client
<1>1. PICK a, b, c, d, e \in Nat :
          /\ a <= b /\ b <= c /\ c <= d /\ d <= e
          /\ ServerHears(a, b, c)
          /\ Within("Message", toServer, c, d)
          /\ ClientSays(d, e)
  BY DEF OrderInv, ToServerInOrder
<1>2. PICK f, g, h, i \in Nat :
          /\ f <= g /\ g <= h /\ h <= i
          /\ ClientHears(f, g)
          /\ Within("Message", toClient, g, h)
          /\ ServerSays(h, i)
  BY DEF OrderInv, ToClientInOrder
<1>3. /\ SessionInv /\ ClientUnchanged /\ toServer' = toServer /\ toClient' = toClient
      /\ inHand' = inHand
  BY DEF OrderInv, ServerInside, ServerRunConnected, ServerStep, TimerFires,
         ServerSendFindsClosed, ServerSendFails, ServerWorkerReports, SL!SendFails,
         SL!WorkerReports, linkOfServer, wires
<1>4. ClientSays(d, e)' /\ ClientHears(f, g)' /\ client' = client
  BY <1>1, <1>2, <1>3 DEF ClientSays, ClientHears, ClientUnchanged, clientProcess
<1>5. Hears(server.handshake.remote_instance_id, serverStrand, a, b)
      /\ Between(b, MessageId(inHand), c)
  BY <1>1 DEF ServerHears
<1>6. PICK m \in Nat : /\ a <= m /\ m <= b
                       /\ Hears(server'.handshake.remote_instance_id, serverStrand', m, b)
  BY <1>1, <1>3, <1>5, ServerInsideHears
<1>7. ServerHears(m, b, c)'
  BY <1>3, <1>5, <1>6 DEF ServerHears
<1>8. PICK n \in Nat : i <= n /\ ServerSays(h, n)'
  BY <1>2, <1>3, ServerInsideSays
<1>9. h <= n
  BY <1>2, <1>8
<1>10. ToServerInOrder'
  BY <1>1, <1>3, <1>4, <1>6, <1>7 DEF ToServerInOrder
<1>11. ToClientInOrder'
  BY <1>2, <1>3, <1>4, <1>8, <1>9 DEF ToClientInOrder
<1>12. ~Earlier(server'.handshake, server.handshake)
  BY <1>1, <1>3, <1>5, ServerInsideHears
<1> QED
  BY <1>4, <1>10, <1>11, <1>12

LEMMA ServerSendOrder ==
    ASSUME OrderInv, ServerSend
    PROVE  /\ ToServerInOrder' /\ ToClientInOrder'
           /\ ~Earlier(server'.handshake, server.handshake) /\ client' = client
<1>1. PICK a, b, c, d, e \in Nat :
          /\ a <= b /\ b <= c /\ c <= d /\ d <= e
          /\ ServerHears(a, b, c)
          /\ Within("Message", toServer, c, d)
          /\ ClientSays(d, e)
  BY DEF OrderInv, ToServerInOrder
<1>2. PICK f, g, h, i \in Nat :
          /\ f <= g /\ g <= h /\ h <= i
          /\ ClientHears(f, g)
          /\ Within("Message", toClient, g, h)
          /\ ServerSays(h, i)
  BY DEF OrderInv, ToClientInOrder
<1>3. /\ SessionInv /\ ServerInv /\ ClientUnchanged /\ toServer' = toServer /\ inHand' = inHand
      /\ serverClock' = serverClock /\ S!RunSend(<<>>)
      /\ toClient' = Append(toClient, Head(serverStrand).bytes)
  BY DEF OrderInv, SessionInv, ServerSend, linkOfServer
<1>4. ClientSays(d, e)' /\ ClientHears(f, g)' /\ client' = client
  BY <1>1, <1>2, <1>3 DEF ClientSays, ClientHears, ClientUnchanged, clientProcess
<1>5. /\ serverStrand # <<>> /\ serverStrand' = Tail(serverStrand)
      /\ Head(serverStrand).task = "Send" /\ UNCHANGED <<server, serverEffects>>
  BY <1>3, TailOfSend
<1>6. /\ serverStrand \in Seq(ServerTasks) /\ toClient \in Seq(FromServer)
      /\ serverClock \in Nat /\ server.instance_id \in Nat
  BY <1>3 DEF SessionInv, ServerInv, ServerState, WireInv, S!ServerStates, S!InstanceId
<1>7. Hears(server.handshake.remote_instance_id, serverStrand, a, b)
      /\ Between(b, MessageId(inHand), c)
  BY <1>1 DEF ServerHears
<1>8. PICK m \in Nat : /\ a <= m /\ m <= b
                       /\ Hears(server'.handshake.remote_instance_id, serverStrand', m, b)
  BY <1>1, <1>3, <1>7, ServerInsideHears
<1>9. ServerHears(m, b, c)' /\ ~Earlier(server'.handshake, server.handshake)
  BY <1>1, <1>3, <1>7, <1>8, ServerInsideHears DEF ServerHears
<1>10. Head(serverStrand).bytes \in FromServer
  BY <1>5, <1>6, HeadAndTail, Contents
<1>11. PICK k \in Nat :
          /\ h <= k /\ k <= i
          /\ IdIn("Send", Head(serverStrand)) \in {0, k}
          /\ Says(Tail(serverStrand), serverEffects, server.instance_id, serverClock, k, i)
  BY <1>2, <1>5, <1>6, SendSays, AllHaveIds DEF ServerSays
<1>12. Between(h, IdIn("Message", Head(serverStrand).bytes), k)
  BY <1>5, <1>11, IdsOf DEF Between
<1>13. Within("Message", toClient', g, k)
  BY <1>2, <1>3, <1>6, <1>10, <1>11, <1>12, WithinAppend, AllHaveIds
<1>14. ServerSays(k, i)'
  BY <1>3, <1>5, <1>11 DEF ServerSays
<1>15. g <= k
  BY <1>2, <1>11
<1>16. ToClientInOrder'
  BY <1>2, <1>4, <1>11, <1>13, <1>14, <1>15 DEF ToClientInOrder
<1>17. ToServerInOrder'
  BY <1>1, <1>3, <1>4, <1>8, <1>9 DEF ToServerInOrder
<1> QED
  BY <1>4, <1>9, <1>16, <1>17

-----------------------------------------------------------------------------
(* The steps of the server's reader *)

LEMMA ServerReaderOrder ==
    ASSUME OrderInv, ServerOpenChannel \/ ServerReader \/ ServerReadFails
    PROVE  ToServerInOrder' /\ ToClientInOrder' /\ UNCHANGED <<client, server>>
<1>1. PICK a, b, c, d, e \in Nat :
          /\ a <= b /\ b <= c /\ c <= d /\ d <= e
          /\ ServerHears(a, b, c)
          /\ Within("Message", toServer, c, d)
          /\ ClientSays(d, e)
  BY DEF OrderInv, ToServerInOrder
<1>2. PICK f, g, h, i \in Nat :
          /\ f <= g /\ g <= h /\ h <= i
          /\ ClientHears(f, g)
          /\ Within("Message", toClient, g, h)
          /\ ServerSays(h, i)
  BY DEF OrderInv, ToClientInOrder
<1>3. /\ ClientUnchanged /\ toClient' = toClient
      /\ UNCHANGED <<server, serverEffects, serverClock>>
  BY DEF ServerOpenChannel, ServerReader, ServerRead, ServerReadsSeveral, ServerReaderGoesOn,
         ServerReadFails, controlOfServer, wires
<1>4. ClientSays(d, e)' /\ ClientHears(f, g)' /\ client' = client
  BY <1>1, <1>2, <1>3 DEF ClientSays, ClientHears, ClientUnchanged, clientProcess
<1>5. /\ serverStrand \in Seq(ServerTasks) /\ toServer \in Seq(FromClient)
      /\ serverClock \in Nat /\ server.instance_id \in Nat /\ LinkInv
  BY DEF OrderInv, SessionInv, ServerInv, ServerState, WireInv, S!ServerStates, S!InstanceId
<1>6. Hears(server.handshake.remote_instance_id, serverStrand, a, b)
      /\ Between(b, MessageId(inHand), c)
  BY <1>1 DEF ServerHears
(* What has been read is in hand. *)
<1>7. ASSUME serverStrand' = serverStrand,
             NEW k \in Nat, c <= k, k <= d \/ k = c,
             MessageId(inHand') \in {0, k},
             Within("Message", toServer', k, d)
      PROVE  ToServerInOrder' /\ ToClientInOrder'
  <2>1. Between(b, MessageId(inHand'), k) /\ b <= k /\ k <= d
    BY <1>1, <1>7 DEF Between
  <2>2. ServerHears(a, b, k)'
    BY <1>3, <1>6, <1>7, <2>1 DEF ServerHears
  <2>3. ServerSays(h, i)'
    BY <1>2, <1>3, <1>7 DEF ServerSays
  <2> QED
    BY <1>1, <1>2, <1>3, <1>4, <1>7, <2>1, <2>2, <2>3 DEF ToServerInOrder, ToClientInOrder
(* A task is posted. *)
<1>8. ASSUME NEW t \in ServerTasks, IdIn("Send", t) = 0,
             serverStrand' = Append(serverStrand, t), toServer' = toServer,
             \/ IdIn("Received", t) = 0 /\ inHand' = inHand
             \/ IdIn("Received", t) = MessageId(inHand) /\ MessageId(inHand') = 0
      PROVE  ToServerInOrder' /\ ToClientInOrder'
  <2>1. Says(Append(serverStrand, t), serverEffects, server.instance_id, serverClock, h, i)
    BY <1>2, <1>5, <1>8, PostSays, AllHaveIds DEF ServerSays
  <2>2. ServerSays(h, i)'
    BY <1>3, <1>8, <2>1 DEF ServerSays
  <2>3. PICK k \in Nat : /\ b <= k /\ k <= c
                         /\ Between(b, IdIn("Received", t), k)
                         /\ Between(k, MessageId(inHand'), c)
    <3>1. CASE IdIn("Received", t) = 0 /\ inHand' = inHand
      <4>1. /\ b <= b /\ b <= c /\ Between(b, IdIn("Received", t), b)
            /\ Between(b, MessageId(inHand'), c)
        BY <1>1, <1>6, <3>1 DEF Between
      <4> QED
        BY <4>1
    <3>2. CASE IdIn("Received", t) = MessageId(inHand) /\ MessageId(inHand') = 0
      <4>1. /\ b <= c /\ c <= c /\ Between(b, IdIn("Received", t), c)
            /\ Between(c, MessageId(inHand'), c)
        BY <1>1, <1>6, <3>2 DEF Between
      <4> QED
        BY <4>1
    <3> QED
      BY <1>8, <3>1, <3>2
  <2>4. Hears(server.handshake.remote_instance_id, Append(serverStrand, t), a, k)
    BY <1>1, <1>5, <1>6, <2>3, PostHears, AllHaveIds
  <2>5. ServerHears(a, k, c)'
    BY <1>3, <1>8, <2>3, <2>4 DEF ServerHears
  <2>6. a <= k
    BY <1>1, <2>3
  <2> QED
    BY <1>1, <1>2, <1>3, <1>4, <1>8, <2>2, <2>3, <2>5, <2>6
    DEF ToServerInOrder, ToClientInOrder
(* Nothing is said or heard. *)
<1>9. ASSUME UNCHANGED <<serverStrand, inHand, toServer>>
      PROVE  ToServerInOrder' /\ ToClientInOrder'
  <2>1. ServerHears(a, b, c)' /\ ServerSays(h, i)'
    BY <1>1, <1>2, <1>3, <1>9 DEF ServerHears, ServerSays
  <2> QED
    BY <1>1, <1>2, <1>3, <1>4, <1>9, <2>1 DEF ToServerInOrder, ToClientInOrder
<1>10. CASE ServerOpenChannel \/ ServerReadFails
  BY <1>3, <1>4, <1>9, <1>10
  DEF ServerOpenChannel, ServerReadFails, SL!Open, SL!ReadFails, wires
<1>11. CASE ServerRead
  <2>1. /\ toServer # <<>> /\ toServer' = Tail(toServer) /\ inHand' = Head(toServer)
        /\ serverStrand' = serverStrand
    BY <1>11 DEF ServerRead, SL!Read, controlOfServer
  <2>2. PICK k \in Nat : /\ c <= k /\ (k <= d \/ k = c)
                         /\ IdIn("Message", Head(toServer)) \in {0, k}
                         /\ Within("Message", Tail(toServer), k, d)
    BY <1>1, <1>5, <2>1, WithinTail, AllHaveIds
  <2>3. MessageId(inHand') \in {0, k}
    BY <2>1, <2>2, IdsOf
  <2> QED
    BY <1>3, <1>4, <1>7, <2>1, <2>2, <2>3
<1>12. CASE ServerReadsSeveral
  <2>1. PICK n \in 2..Len(toServer) : toServer' = SubSeq(toServer, n + 1, Len(toServer))
    BY <1>12 DEF ServerReadsSeveral
  <2>2. inHand' = Head(toServer) /\ serverStrand' = serverStrand
    BY <1>12 DEF ServerReadsSeveral, SL!Read, controlOfServer
  <2> DEFINE rest == SubSeq(toServer, n + 1, Len(toServer))
  <2>3. Len(toServer) \in Nat /\ n \in Nat /\ n >= 1 /\ n <= Len(toServer)
    BY <1>5, LenProperties
  <2>4. \A j \in (n + 1)..Len(toServer) : toServer[j] \in FromClient
    BY <1>5, <2>3
  <2>5. /\ rest \in Seq(FromClient) /\ Len(toServer) = Len(rest) + n
        /\ \A j \in 1..Len(rest) : rest[j] = toServer[j + n]
    <3>1. /\ rest \in Seq(FromClient)
          /\ Len(rest) = IF n + 1 <= Len(toServer) THEN Len(toServer) - (n + 1) + 1 ELSE 0
          /\ \A j \in 1..(Len(toServer) - (n + 1) + 1) : rest[j] = toServer[(n + 1) + j - 1]
      BY <1>5, <2>3, <2>4, SubSeqProperties
    <3>2. Len(toServer) = Len(rest) + n
      BY <2>3, <3>1
    <3>3. ASSUME NEW j \in 1..Len(rest) PROVE rest[j] = toServer[j + n]
      <4>1. j \in 1..(Len(toServer) - (n + 1) + 1) /\ (n + 1) + j - 1 = j + n
        BY <2>3, <3>2
      <4> QED
        BY <3>1, <4>1
    <3> QED
      BY <3>1, <3>2, <3>3
  <2> HIDE DEF rest
  <2>6. PICK k \in Nat : /\ c <= k /\ (k <= d \/ k = c)
                         /\ IdIn("Message", toServer[1]) \in {0, k}
                         /\ Within("Message", rest, k, d)
    BY <1>1, <1>5, <2>3, <2>5, WithinRest, AllHaveIds
  <2>7. Head(toServer) = toServer[1]
    OBVIOUS
  <2>8. MessageId(inHand') \in {0, k} /\ Within("Message", toServer', k, d)
    BY <2>1, <2>2, <2>6, <2>7, IdsOf DEF rest
  <2> QED
    BY <1>3, <1>4, <1>7, <2>2, <2>6, <2>8
<1>13. CASE ServerReaderGoesOn
  <2>1. toServer' = toServer
    BY <1>13 DEF ServerReaderGoesOn, wires
  <2>2. CASE SL!Notify \/ SL!ReaderReports
    <3>1. /\ inHand' = inHand
          /\ \/ serverStrand' = Append(serverStrand, SL!Connected)
             \/ serverStrand' = Append(serverStrand, SL!Disconnected)
      BY <2>2 DEF SL!Notify, SL!ReaderReports, SL!Post
    <3>2. \A t \in {SL!Connected, SL!Disconnected} :
              t \in ServerTasks /\ IdIn("Send", t) = 0 /\ IdIn("Received", t) = 0
      BY TasksType, IdsOf DEF SL!Connected, SL!Disconnected
    <3> QED
      BY <1>3, <1>4, <1>8, <2>1, <3>1, <3>2
  <2>3. CASE SL!Deliver
    <3> DEFINE x == SL!Received(inHand)
    <3>1. /\ inHand \in FromClient /\ inHand' = SL!Nothing
          /\ serverStrand' = Append(serverStrand, x)
      BY <1>5, <2>3 DEF SL!Deliver, SL!Post, LinkInv
    <3>2. x.task = "Received" /\ x \in ServerTasks
      BY <3>1, TasksType DEF SL!Received
    <3>3. IdIn("Send", x) = 0 /\ IdIn("Received", x) = MessageId(inHand)
      BY <3>2, IdsOf
    <3> HIDE DEF x
    <3>4. MessageId(inHand') = 0
      BY <3>1, MessageIds
    <3> QED
      BY <1>3, <1>4, <1>8, <2>1, <3>1, <3>2, <3>3, <3>4
  <2>4. CASE SL!ReadFindsClosed
    BY <1>3, <1>4, <1>9, <2>1, <2>4 DEF SL!ReadFindsClosed
  <2> QED
    BY <1>13, <2>2, <2>3, <2>4 DEF ServerReaderGoesOn
<1> QED
  BY <1>10, <1>11, <1>12, <1>13 DEF ServerReader

-----------------------------------------------------------------------------
(* What is lost *)

LEMMA FaultOrder ==
    ASSUME OrderInv, ClientCrash \/ ServerCrash \/ DropToClient \/ DropToServer
    PROVE  /\ ToServerInOrder' /\ ToClientInOrder'
           /\ ~Earlier(server'.handshake, server.handshake)
           /\ ~Earlier(client'.handshake, client.handshake)
<1>1. PICK a, b, c, d, e \in Nat :
          /\ a <= b /\ b <= c /\ c <= d /\ d <= e
          /\ ServerHears(a, b, c)
          /\ Within("Message", toServer, c, d)
          /\ ClientSays(d, e)
  BY DEF OrderInv, ToServerInOrder
<1>2. PICK f, g, h, i \in Nat :
          /\ f <= g /\ g <= h /\ h <= i
          /\ ClientHears(f, g)
          /\ Within("Message", toClient, g, h)
          /\ ServerSays(h, i)
  BY DEF OrderInv, ToClientInOrder
<1>3. /\ toServer \in Seq(FromClient) /\ toClient \in Seq(FromServer)
      /\ clientClock \in Nat /\ serverClock \in Nat
      /\ client.handshake.remote_instance_id \in Int
      /\ server.handshake.remote_instance_id \in Int
  BY DEF OrderInv, SessionInv, ClientInv, ClientState, ServerInv, ServerState, WireInv,
         C!ClientStates, C!HandshakeStates, C!InstanceId, C!NoInstance,
         S!ServerStates, S!HandshakeStates, S!InstanceId, S!NoInstance
(* A side that stays as it is *)
<1>4. ClientUnchanged => ClientSays(d, e)' /\ ClientHears(f, g)' /\ client' = client
  BY <1>1, <1>2 DEF ClientSays, ClientHears, ClientUnchanged, clientProcess
<1>5. ServerUnchanged => ServerHears(a, b, c)' /\ ServerSays(h, i)' /\ server' = server
  BY <1>1, <1>2 DEF ServerHears, ServerSays, ServerUnchanged, controlOfServer, linkOfServer
<1>6. client' = client => ~Earlier(client'.handshake, client.handshake)
  BY <1>3 DEF Earlier
<1>7. server' = server => ~Earlier(server'.handshake, server.handshake)
  BY <1>3 DEF Earlier
(* A side that starts anew *)
<1>8. CASE ClientCrash
  <2>1. /\ client'.instance_id = 0 /\ client'.handshake.remote_instance_id = -1
        /\ clientEffects' = <<>> /\ clientStrand' = <<>> /\ clientClock' = clientClock
        /\ toServer' = toServer /\ toClient' = toClient /\ ServerUnchanged
    BY <1>8 DEF ClientCrash, C!InitialClient, C!Reset, C!NoInstance, C!ZeroInstance, wires
  <2>2. e <= clientClock
    BY <1>1 DEF ClientSays, Says
  <2>3. ClientSays(d, e)'
    BY <1>3, <2>1, <2>2, WithinEmpty DEF ClientSays, Says
  <2>4. ClientHears(f, g)'
    BY <2>1, WithinEmpty DEF ClientHears, Hears
  <2>5. ~Earlier(client'.handshake, client.handshake)
    BY <2>1 DEF Earlier
  <2> QED
    BY <1>1, <1>2, <1>5, <1>7, <2>1, <2>3, <2>4, <2>5 DEF ToServerInOrder, ToClientInOrder
<1>9. CASE ServerCrash
  <2>1. /\ server'.instance_id = 0 /\ server'.handshake.remote_instance_id = -1
        /\ serverEffects' = <<>> /\ serverStrand' = <<>> /\ serverClock' = serverClock
        /\ inHand' = SL!Nothing
        /\ toServer' = toServer /\ toClient' = toClient /\ ClientUnchanged
    BY <1>9 DEF ServerCrash, S!InitialServer, S!Reset, S!NoInstance, S!ZeroInstance, wires
  <2>2. i <= serverClock
    BY <1>2 DEF ServerSays, Says
  <2>3. ServerSays(h, i)'
    BY <1>3, <2>1, <2>2, WithinEmpty DEF ServerSays, Says
  <2>4. MessageId(inHand') = 0
    BY <2>1, MessageIds
  <2>5. ServerHears(a, b, c)'
    BY <2>1, <2>4, WithinEmpty DEF ServerHears, Hears, Between
  <2>6. ~Earlier(server'.handshake, server.handshake)
    BY <2>1 DEF Earlier
  <2> QED
    BY <1>1, <1>2, <1>4, <1>6, <2>1, <2>3, <2>5, <2>6 DEF ToServerInOrder, ToClientInOrder
<1>10. CASE DropToClient
  <2>1. /\ toClient # <<>> /\ toClient' = Tail(toClient) /\ toServer' = toServer
        /\ ClientUnchanged /\ ServerUnchanged
    BY <1>10 DEF DropToClient
  <2>2. Within("Message", toClient', g, h)
    BY <1>2, <1>3, <2>1, WithinTail, AllHaveIds
  <2> QED
    BY <1>1, <1>2, <1>4, <1>5, <1>6, <1>7, <2>1, <2>2 DEF ToServerInOrder, ToClientInOrder
<1>11. CASE DropToServer
  <2>1. /\ toServer # <<>> /\ toServer' = Tail(toServer) /\ toClient' = toClient
        /\ ClientUnchanged /\ ServerUnchanged
    BY <1>11 DEF DropToServer
  <2>2. Within("Message", toServer', c, d)
    BY <1>1, <1>3, <2>1, WithinTail, AllHaveIds
  <2> QED
    BY <1>1, <1>2, <1>4, <1>5, <1>6, <1>7, <2>1, <2>2 DEF ToServerInOrder, ToClientInOrder
<1> QED
  BY <1>8, <1>9, <1>10, <1>11

-----------------------------------------------------------------------------
(* All together *)

LEMMA OrderInitially == Init => OrderInv
<1> SUFFICES ASSUME Init PROVE OrderInv
  OBVIOUS
<1>1. /\ client.instance_id = 0 /\ client.handshake.remote_instance_id = -1
      /\ clientEffects = <<>> /\ clientStrand = <<>> /\ clientClock = 0
  BY DEF Init, C!ControllerInit, C!Init, C!InitialClient, C!Reset, C!NoInstance, C!ZeroInstance
<1>2. /\ server.instance_id = 0 /\ server.handshake.remote_instance_id = -1
      /\ serverEffects = <<>> /\ serverStrand = <<>> /\ serverClock = 0
      /\ inHand = SL!Nothing
  BY DEF Init, S!Init, S!InitialServer, S!Reset, S!NoInstance, S!ZeroInstance, SL!LinkInit
<1>3. toServer = <<>> /\ toClient = <<>>
  BY DEF Init
<1>4. MessageId(inHand) = 0
  BY <1>2, MessageIds
<1>5. ClientSays(0, 0) /\ ClientHears(0, 0)
  BY <1>1, WithinEmpty DEF ClientSays, Says, ClientHears, Hears
<1>6. ServerSays(0, 0) /\ ServerHears(0, 0, 0)
  BY <1>2, <1>4, WithinEmpty DEF ServerSays, Says, ServerHears, Hears, Between
<1>7. /\ Within("Message", toServer, 0, 0)
      /\ Within("Message", toClient, 0, 0)
  BY <1>3, WithinEmpty
<1>8. ToServerInOrder /\ ToClientInOrder
  BY <1>5, <1>6, <1>7 DEF ToServerInOrder, ToClientInOrder
<1> QED
  BY <1>8, SessionInvInitially DEF OrderInv

LEMMA OrderStep ==
    ASSUME OrderInv, [Next]_vars
    PROVE  /\ OrderInv'
           /\ ~Earlier(server'.handshake, server.handshake)
           /\ ~Earlier(client'.handshake, client.handshake)
<1>1. SessionInv /\ SessionInv'
  BY SessionInvStep DEF OrderInv
<1>2. /\ client.handshake.remote_instance_id \in Int
      /\ server.handshake.remote_instance_id \in Int
  BY <1>1
  DEF SessionInv, ClientInv, ClientState, ServerInv, ServerState,
      C!ClientStates, C!HandshakeStates, C!InstanceId, C!NoInstance,
      S!ServerStates, S!HandshakeStates, S!InstanceId, S!NoInstance
<1>3. client' = client => ~Earlier(client'.handshake, client.handshake)
  BY <1>2 DEF Earlier
<1>4. server' = server => ~Earlier(server'.handshake, server.handshake)
  BY <1>2 DEF Earlier
<1> SUFFICES /\ ToServerInOrder' /\ ToClientInOrder'
             /\ ~Earlier(server'.handshake, server.handshake)
             /\ ~Earlier(client'.handshake, client.handshake)
  BY <1>1 DEF OrderInv
<1>5. CASE ClientOpen \/ ClientRegister \/ ClientNotify \/ ClientReceive \/ ClientDisconnect
  BY <1>3, <1>4, <1>5, ClientHostOrder
<1>6. CASE ClientWorker
  <2>1. server' = server
    BY <1>6 DEF ClientWorker, ClientRunConnected, ClientStep, ClientSend, ClientSendFails,
                ServerUnchanged, controlOfServer
  <2> QED
    BY <1>4, <1>6, <2>1, ClientWorkerOrder
<1>7. CASE ServerOpenChannel \/ ServerReader \/ ServerReadFails
  BY <1>3, <1>4, <1>7, ServerReaderOrder
<1>8. CASE ServerWorker \/ ServerSendFails \/ TimerFires
  <2>1. ServerInside \/ ServerSend
    BY <1>8 DEF ServerWorker, ServerInside
  <2> QED
    BY <1>3, <2>1, ServerInsideOrder, ServerSendOrder
<1>9. CASE ClientCrash \/ ServerCrash \/ DropToClient \/ DropToServer
  BY <1>9, FaultOrder
<1>10. CASE UNCHANGED vars
  <2>1. /\ UNCHANGED <<client, clientEffects, clientStrand, clientClock, toServer, toClient>>
        /\ UNCHANGED <<server, serverEffects, serverStrand, serverClock, inHand>>
    BY <1>10 DEF vars, clientProcess, controlOfServer, linkOfServer, wires
  <2>2. ToServerInOrder'
    BY <2>1 DEF OrderInv, ToServerInOrder, ServerHears, ClientSays
  <2>3. ToClientInOrder'
    BY <2>1 DEF OrderInv, ToClientInOrder, ClientHears, ServerSays
  <2> QED
    BY <1>3, <1>4, <2>1, <2>2, <2>3
<1> QED
  BY <1>5, <1>6, <1>7, <1>8, <1>9, <1>10 DEF Next, Faults

(* What a former connection left on the strands and on the channel may     *)
(* delay the handshake, and never undoes it: whatever reconnects, crashes  *)
(* and losses come, neither side goes back to an earlier instance of its   *)
(* peer.                                                                   *)
THEOREM SessionNeverAnEarlierInstance == Spec => NeverAnEarlierInstance
<1>1. Init => OrderInv
  BY OrderInitially
<1>2. OrderInv /\ [Next]_vars => OrderInv'
  BY OrderStep
<1>3. OrderInv /\ [Next]_vars
      => [/\ ~Earlier(server'.handshake, server.handshake)
          /\ ~Earlier(client'.handshake, client.handshake)]_vars
  BY OrderStep
<1> QED
  BY <1>1, <1>2, <1>3, PTL DEF Spec, NeverAnEarlierInstance

-----------------------------------------------------------------------------
(* The server's controller in the session.  ServerController is checked    *)
(* and proved with an environment that posts at will; here the transport   *)
(* posts, and the process may be restarted.                                *)

(* What a step of the session is to the server's controller *)
TransportPosts ==
    /\ \E t \in ServerTasks : t.task # "Send" /\ serverStrand' = Append(serverStrand, t)
    /\ UNCHANGED <<server, serverEffects, running, armed>>
ServerRestarts ==
    /\ server' = S!InitialServer
    /\ serverEffects' = <<>>
    /\ serverStrand' = <<>>
    /\ running' = FALSE
    /\ armed' = 0
ServerControllerStep ==
    \/ S!Worker
    \/ S!TimerExpires \/ S!TimerExpiresStopped \/ S!TimerExpiresThrows
    \/ TransportPosts
    \/ ServerRestarts

LEMMA SessionRunsServer ==
    ASSUME SessionInv, [Next]_vars
    PROVE  [ServerControllerStep]_(S!controllerVars)
<1>1. /\ TypeOK /\ serverStrand \in Seq(ServerTasks) /\ toServer \in Seq(FromClient)
      /\ reader = "deliver" => inHand \in FromClient /\ serverClock \in Nat
      /\ serverClock \in Nat
  BY TypeOfSession DEF SessionInv, ServerInv, LinkInv, WireInv
<1>2. CASE \/ ClientOpen \/ ClientRegister \/ ClientNotify \/ ClientReceive \/ ClientDisconnect
           \/ ClientWorker \/ ClientCrash \/ DropToClient \/ DropToServer \/ UNCHANGED vars
  BY <1>2 DEF ClientOpen, ClientRegister, ClientNotify, ClientReceive, ClientDisconnect, ClientWorker,
              ClientRunConnected, ClientStep, ClientSend, ClientSendFails, ClientCrash,
              DropToClient, DropToServer, vars, ServerUnchanged, controlOfServer,
              S!controllerVars
<1>3. CASE \/ ServerOpenChannel \/ ServerRead \/ ServerReadsSeveral \/ ServerReadFails
           \/ ServerReaderGoesOn /\ SL!ReadFindsClosed
  BY <1>3 DEF ServerOpenChannel, ServerRead, ServerReadsSeveral, ServerReadFails,
              ServerReaderGoesOn, SL!Open, SL!Read, SL!ReadFails, SL!ReadFindsClosed,
              controlOfServer, S!controllerVars
<1>4. CASE \/ ServerReaderGoesOn /\ (SL!Notify \/ SL!Deliver \/ SL!ReaderReports)
           \/ ServerWorkerReports
  <2>1. \E t \in ServerTasks : t.task # "Send" /\ serverStrand' = Append(serverStrand, t)
    <3>1. /\ SL!Connected \in ServerTasks /\ SL!Connected.task # "Send"
          /\ SL!Disconnected \in ServerTasks /\ SL!Disconnected.task # "Send"
          /\ \A b \in FromClient : SL!Received(b) \in ServerTasks /\ SL!Received(b).task # "Send"
      BY TasksType DEF SL!Connected, SL!Disconnected, SL!Received
    <3>2. \/ serverStrand' = Append(serverStrand, SL!Connected)
          \/ serverStrand' = Append(serverStrand, SL!Disconnected)
          \/ reader = "deliver" /\ serverStrand' = Append(serverStrand, SL!Received(inHand))
      BY <1>4 DEF ServerWorkerReports, SL!Notify, SL!Deliver, SL!ReaderReports,
                  SL!WorkerReports, SL!Post
    <3> QED
      BY <1>1, <3>1, <3>2
  <2>2. UNCHANGED <<server, serverEffects, running, armed>>
    BY <1>4 DEF ServerReaderGoesOn, ServerWorkerReports
  <2> QED
    BY <2>1, <2>2 DEF TransportPosts, ServerControllerStep
<1>5. CASE ServerRunConnected
  <2>1. S!RunConnected(serverClock + 1) /\ serverClock + 1 \in Nat
    BY <1>1, <1>5 DEF ServerRunConnected
  <2> QED
    BY <2>1 DEF S!Worker, ServerControllerStep
<1>6. CASE ServerStep
  BY <1>6 DEF ServerStep, S!Worker, ServerControllerStep
<1>7. CASE ServerSend \/ ServerSendFindsClosed \/ ServerSendFails
  <2>1. S!RunSend(<<>>)
    BY <1>7 DEF ServerSend, ServerSendFindsClosed, ServerSendFails
  <2>2. \E posted \in {<<>>, <<S!Disconnected>>} : S!RunSend(posted)
    BY <2>1
  <2> QED
    BY <2>2 DEF S!Worker, ServerControllerStep
<1>8. CASE TimerFires
  BY <1>8 DEF TimerFires, ServerControllerStep
<1>9. CASE ServerCrash
  BY <1>9 DEF ServerCrash, ServerRestarts, ServerControllerStep
<1> QED
  BY <1>2, <1>3, <1>4, <1>5, <1>6, <1>7, <1>8, <1>9
  DEF Next, Faults, ServerReader, ServerReaderGoesOn, ServerWorker

(* Every step of the session leaves the server's controller alone, or is a *)
(* step of its worker or of a timer as in ServerController, a post of its  *)
(* transport, or a restart of the process.                                 *)
THEOREM SessionRunsServerController ==
    Spec => [][ServerControllerStep]_(S!controllerVars)
<1>1. SessionInv /\ [Next]_vars => [ServerControllerStep]_(S!controllerVars)
  BY SessionRunsServer
<1> QED
  BY <1>1, SessionInvAlways, PTL DEF Spec

-----------------------------------------------------------------------------
(* The telemetry of the server in the session *)

SamplingInSession ==
    /\ S!StartIsAlone
    /\ S!StopMeansDisabled
    /\ S!RunningIsArmed
    /\ S!NoOrphanSampling
    /\ S!EnabledMeansSampling

(* What every call of doStep does to the telemetry *)
TelemetryStep ==
    /\ S!Pending(S!StartTelemetryTimer)'
       => serverEffects' = <<S!StartTelemetryTimer>> /\ server'.telemetry_enabled
    /\ S!Pending(S!StopTelemetryTimer)' => ~server'.telemetry_enabled
    /\ server.telemetry_enabled
       => server'.telemetry_enabled \/ S!Pending(S!StopTelemetryTimer)'
    /\ server'.telemetry_enabled
       => server.telemetry_enabled \/ S!Pending(S!StartTelemetryTimer)'

(* No two kinds of effects are the same. *)
LEMMA EffectsDiffer ==
    /\ S!StartTelemetryTimer # S!StopTelemetryTimer
    /\ \A m : S!SendMessage(m) \notin {S!StartTelemetryTimer, S!StopTelemetryTimer}
BY DEF S!StartTelemetryTimer, S!StopTelemetryTimer, S!SendMessage

(* What is in short sequences, in a sequence that lost its head and in two *)
(* that are joined                                                         *)
LEMMA RangeOfShort ==
    /\ S!Range(<<>>) = {}
    /\ \A a : S!Range(<<a>>) = {a}
    /\ \A a, b : S!Range(<<a, b>>) = {a, b}
<1>1. S!Range(<<>>) = {}
  BY DEF S!Range
<1>2. ASSUME NEW a PROVE S!Range(<<a>>) = {a}
  BY DEF S!Range
<1>3. ASSUME NEW a, NEW b PROVE S!Range(<<a, b>>) = {a, b}
  BY DEF S!Range
<1> QED
  BY <1>1, <1>2, <1>3

LEMMA RangeOfTail ==
    ASSUME NEW T, NEW s \in Seq(T), s # <<>>
    PROVE  S!Range(s) = {Head(s)} \cup S!Range(Tail(s))
<1>1. /\ Tail(s) \in Seq(T) /\ Len(Tail(s)) = Len(s) - 1
      /\ \A i \in 1..Len(Tail(s)) : Tail(s)[i] = s[i + 1]
  BY HeadTailProperties
<1>2. Len(s) \in Nat /\ Len(s) > 0 /\ Head(s) = s[1]
  BY EmptySeq, LenProperties
<1>3. /\ S!Range(s) = {s[i] : i \in 1..Len(s)}
      /\ S!Range(Tail(s)) = {Tail(s)[i] : i \in 1..Len(s) - 1}
  BY <1>1, <1>2, LenProperties DEF S!Range
<1>4. ASSUME NEW i \in 1..Len(s), i # 1 PROVE s[i] = Tail(s)[i - 1] /\ i - 1 \in 1..Len(s) - 1
  <2>1. i - 1 \in 1..Len(s) - 1
    BY <1>2, <1>4
  <2> QED
    BY <1>1, <2>1
<1>5. ASSUME NEW i \in 1..Len(s) - 1 PROVE Tail(s)[i] = s[i + 1] /\ i + 1 \in 1..Len(s)
  BY <1>1, <1>2
<1>6. S!Range(Tail(s)) \subseteq S!Range(s) /\ Head(s) \in S!Range(s)
  BY <1>2, <1>3, <1>5
<1>7. ASSUME NEW i \in 1..Len(s) PROVE s[i] \in {Head(s)} \cup S!Range(Tail(s))
  BY <1>2, <1>3, <1>4
<1> QED
  BY <1>3, <1>6, <1>7

LEMMA RangeOfJoined ==
    ASSUME NEW T, NEW s \in Seq(T), NEW t \in Seq(T)
    PROVE  S!Range(s \o t) = S!Range(s) \cup S!Range(t)
<1>1. /\ s \o t \in Seq(T) /\ Len(s \o t) = Len(s) + Len(t)
      /\ \A i \in 1..Len(s) + Len(t) :
            (s \o t)[i] = IF i <= Len(s) THEN s[i] ELSE t[i - Len(s)]
  BY ConcatProperties
<1>2. Len(s) \in Nat /\ Len(t) \in Nat
  BY LenProperties
<1>3. /\ S!Range(s) = {s[i] : i \in 1..Len(s)}
      /\ S!Range(t) = {t[i] : i \in 1..Len(t)}
      /\ S!Range(s \o t) = {(s \o t)[i] : i \in 1..Len(s) + Len(t)}
  BY <1>1, LenProperties DEF S!Range
<1>4. ASSUME NEW i \in 1..Len(s) PROVE (s \o t)[i] = s[i] /\ i \in 1..Len(s) + Len(t)
  BY <1>1, <1>2
<1>5. ASSUME NEW i \in 1..Len(t)
      PROVE  (s \o t)[i + Len(s)] = t[i] /\ i + Len(s) \in 1..Len(s) + Len(t)
  BY <1>1, <1>2
<1>6. ASSUME NEW i \in 1..Len(s) + Len(t), i > Len(s)
      PROVE  (s \o t)[i] = t[i - Len(s)] /\ i - Len(s) \in 1..Len(t)
  BY <1>1, <1>2, <1>6
<1>7. ASSUME NEW i \in 1..Len(s) + Len(t), i <= Len(s)
      PROVE  (s \o t)[i] = s[i] /\ i \in 1..Len(s)
  BY <1>1, <1>2, <1>7
<1>8. S!Range(s \o t) \subseteq S!Range(s) \cup S!Range(t)
  <2> SUFFICES ASSUME NEW i \in 1..Len(s) + Len(t)
               PROVE  (s \o t)[i] \in S!Range(s) \cup S!Range(t)
    BY <1>3
  <2>1. CASE i <= Len(s)
    BY <1>3, <1>7, <2>1
  <2>2. CASE i > Len(s)
    BY <1>3, <1>6, <2>2
  <2> QED
    BY <1>2, <2>1, <2>2
<1>9. S!Range(s) \subseteq S!Range(s \o t) /\ S!Range(t) \subseteq S!Range(s \o t)
  BY <1>3, <1>4, <1>5
<1> QED
  BY <1>8, <1>9

(* What a Hello does to the telemetry                                      *)
LEMMA TelemetryOfHello ==
    ASSUME ServerState, NEW m \in FromClient, S!HandleHello(m)
    PROVE  TelemetryStep
<1> DEFINE h == S!RemoteHelloReceived(server.handshake, m.instance_id)
           greeting == S!SendMessage(S!MakeHello(ServerVersion, server.instance_id))
           hello == IF h.local_hello_needed THEN <<greeting>> ELSE <<>>
           stop == IF h.handshake_completed THEN <<>> ELSE <<S!StopTelemetryTimer>>
           E == {greeting, S!StopTelemetryTimer}
<1>1. /\ server' = [server EXCEPT
                       !.handshake = S!LocalHelloSent(h),
                       !.telemetry_enabled =
                          server.telemetry_enabled /\ h.handshake_completed]
      /\ serverEffects' = hello \o stop
  BY DEF S!HandleHello
<1>2. hello \in Seq(E) /\ stop \in Seq(E)
  <2>1. \A A : <<>> \in Seq(A) /\ \A a \in A : <<a>> \in Seq(A)
    OBVIOUS
  <2> QED
    BY <2>1
<1>3. S!StartTelemetryTimer \notin S!Range(hello) /\ S!StopTelemetryTimer \notin S!Range(hello)
  BY RangeOfShort, EffectsDiffer
<1>4. S!StartTelemetryTimer \notin S!Range(stop)
  BY RangeOfShort, EffectsDiffer
<1>5. S!StopTelemetryTimer \in S!Range(stop) <=> ~h.handshake_completed
  BY RangeOfShort
<1> HIDE DEF h, greeting, hello, stop, E
<1>6. S!Range(hello \o stop) = S!Range(hello) \cup S!Range(stop)
  BY <1>2, RangeOfJoined
<1>7. server'.telemetry_enabled <=> server.telemetry_enabled /\ h.handshake_completed
  BY <1>1 DEF ServerState, S!ServerStates
<1>8. \A e : S!Pending(e)' <=> e \in S!Range(hello \o stop)
  BY <1>1 DEF S!Pending, S!Range
<1> QED
  BY <1>3, <1>4, <1>5, <1>6, <1>7, <1>8 DEF TelemetryStep

(* and what every other task of the strand does                            *)
LEMMA TelemetryOfTask ==
    ASSUME SessionInv,
           \/ \E id \in Nat : S!RunConnected(id)
           \/ S!RunDisconnected \/ S!RunReceived \/ S!RunSampleReady
    PROVE  TelemetryStep
<1>1. ServerInv /\ ServerState /\ server \in S!ServerStates
  BY DEF SessionInv, ServerInv, ServerState
<1>2. ASSUME NEW s, serverEffects' = s PROVE \A e : S!Pending(e)' <=> e \in S!Range(s)
  BY <1>2 DEF S!Pending, S!Range
<1>3. ASSUME NEW id \in Nat, S!RunConnected(id) PROVE TelemetryStep
  BY <1>2, <1>3, RangeOfShort, EffectsDiffer
  DEF S!RunConnected, S!TransportConnected, TelemetryStep
<1>4. CASE S!RunDisconnected
  BY <1>1, <1>2, <1>4, RangeOfShort, EffectsDiffer
  DEF S!RunDisconnected, S!TransportDisconnected, TelemetryStep, S!ServerStates
<1>5. CASE S!RunSampleReady
  BY <1>2, <1>5, RangeOfShort, EffectsDiffer
  DEF S!RunSampleReady, S!CpuSampleReady, TelemetryStep
<1>6. CASE S!RunReceived
  <2>1. /\ Head(serverStrand) \in ServerTasks /\ Head(serverStrand).task = "Received"
    BY <1>1, <1>6, ServerTakes DEF S!RunReceived
  <2>2. PICK m \in FromClient : S!MessageReceived(m)
    BY <1>6, <2>1, Contents DEF S!RunReceived
  <2>3. CASE S!HandleHello(m)
    BY <1>1, <2>3, TelemetryOfHello
  <2>4. CASE S!HandleForeignHello(m)
    BY <1>1, <1>2, <2>4, RangeOfShort, EffectsDiffer
    DEF S!HandleForeignHello, TelemetryStep, S!ServerStates
  <2>5. CASE S!HandleTelemetryStart(m)
    BY <1>1, <1>2, <2>5, RangeOfShort, EffectsDiffer
    DEF S!HandleTelemetryStart, TelemetryStep, S!ServerStates
  <2>6. CASE S!HandlePing(m) \/ S!HandleUnsupported(m)
    BY <1>2, <2>6, RangeOfShort, EffectsDiffer
    DEF S!HandlePing, S!HandleUnsupported, TelemetryStep
  <2>7. CASE S!HandleError(m) \/ S!HandleCapabilitySet(m)
    BY <1>2, <2>7, RangeOfShort DEF S!HandleError, S!HandleCapabilitySet, TelemetryStep
  <2> QED
    BY <2>2, <2>3, <2>4, <2>5, <2>6, <2>7 DEF S!MessageReceived
<1> QED
  BY <1>3, <1>4, <1>5, <1>6

(* A call of doStep keeps the invariant, and what is served.               *)
LEMMA TaskKeepsSampling ==
    ASSUME SamplingInSession, serverEffects = <<>>, UNCHANGED <<running, armed>>, TelemetryStep
    PROVE  SamplingInSession' /\ (S!Served => S!Served')
<1>1. ~S!Pending(S!StartTelemetryTimer) /\ ~S!Pending(S!StopTelemetryTimer)
  BY RangeOfShort DEF S!Pending
<1>2. S!StartIsAlone' /\ S!StopMeansDisabled'
  BY DEF TelemetryStep, S!StartIsAlone, S!StopMeansDisabled
<1>3. S!RunningIsArmed'
  BY DEF SamplingInSession, S!RunningIsArmed
<1>4. S!NoOrphanSampling'
  BY <1>1 DEF SamplingInSession, S!NoOrphanSampling, TelemetryStep
<1>5. S!EnabledMeansSampling'
  BY <1>1 DEF SamplingInSession, S!EnabledMeansSampling, TelemetryStep
<1>6. S!Served => S!Served'
  BY <1>1 DEF S!Served, TelemetryStep
<1> QED
  BY <1>2, <1>3, <1>4, <1>5, <1>6 DEF SamplingInSession

(* So does a step that leaves the state machine, the effects and the flag  *)
(* alone: of a control that runs it lets no timer go, unless the sampler   *)
(* may throw.                                                              *)
LEMMA OtherKeepsSampling ==
    ASSUME SamplingInSession, UNCHANGED <<server, serverEffects, running>>,
           ~SamplerMayFail /\ running /\ armed > 0 => armed' > 0
    PROVE  /\ SamplingInSession'
           /\ (running => armed' = armed) => (S!Served => S!Served')
<1>1. \A e : S!Pending(e)' <=> S!Pending(e)
  BY DEF S!Pending, S!Range
<1>2. S!StartIsAlone' /\ S!StopMeansDisabled' /\ S!NoOrphanSampling'
  BY <1>1 DEF SamplingInSession, S!StartIsAlone, S!StopMeansDisabled, S!NoOrphanSampling
<1>3. S!RunningIsArmed' /\ S!EnabledMeansSampling'
  BY <1>1 DEF SamplingInSession, S!RunningIsArmed, S!EnabledMeansSampling
<1>4. (running => armed' = armed) => (S!Served => S!Served')
  BY <1>1 DEF S!Served
<1> QED
  BY <1>2, <1>3, <1>4 DEF SamplingInSession

(* The effects that concern the timer, and the others                      *)
LEMMA EffectKeepsSampling ==
    ASSUME SessionInv, SamplingInSession,
           \/ S!HandleSendMessage \/ S!HandleStartTelemetryTimer
           \/ S!HandleStartTelemetryTimerThrows \/ S!HandleStopTelemetryTimer
    PROVE  /\ SamplingInSession'
           /\ S!Served => S!Served' \/ S!HandleStartTelemetryTimerThrows
<1>1. /\ serverEffects \in Seq(ServerEffects) /\ armed \in Nat
      /\ server \in S!ServerStates
  BY DEF SessionInv, ServerInv, ServerState, S!TimerTypeOK
<1>2. serverEffects # <<>> /\ server' = server
  BY DEF S!HandleSendMessage, S!HandleStartTelemetryTimer, S!HandleStartTelemetryTimerThrows,
         S!HandleStopTelemetryTimer
<1>3. /\ Head(serverEffects) \in ServerEffects
      /\ S!Range(serverEffects) = {Head(serverEffects)} \cup S!Range(Tail(serverEffects))
  BY <1>1, <1>2, HeadAndTail, RangeOfTail
<1>4. ASSUME serverEffects' = Tail(serverEffects)
      PROVE  \A e : S!Pending(e) <=> e = Head(serverEffects) \/ S!Pending(e)'
  BY <1>3, <1>4 DEF S!Pending, S!Range
<1>5. CASE S!HandleSendMessage
  <2>1. /\ Head(serverEffects) \notin {S!StartTelemetryTimer, S!StopTelemetryTimer}
        /\ serverEffects' = Tail(serverEffects) /\ UNCHANGED <<running, armed>>
    BY <1>5 DEF S!HandleSendMessage, S!StartTelemetryTimer, S!StopTelemetryTimer
  <2>2. \A e \in {S!StartTelemetryTimer, S!StopTelemetryTimer} : S!Pending(e)' <=> S!Pending(e)
    BY <1>4, <2>1
  <2>3. ~S!Pending(S!StartTelemetryTimer)
    BY <2>1 DEF SamplingInSession, S!StartIsAlone
  <2>4. S!StartIsAlone' /\ S!StopMeansDisabled' /\ S!NoOrphanSampling'
    BY <1>2, <2>1, <2>2, <2>3
    DEF SamplingInSession, S!StartIsAlone, S!StopMeansDisabled, S!NoOrphanSampling
  <2>5. S!RunningIsArmed' /\ S!EnabledMeansSampling' /\ (S!Served => S!Served')
    BY <1>2, <2>1, <2>2
    DEF SamplingInSession, S!RunningIsArmed, S!EnabledMeansSampling, S!Served
  <2> QED
    BY <2>4, <2>5 DEF SamplingInSession
<1>6. CASE S!HandleStartTelemetryTimer \/ S!HandleStartTelemetryTimerThrows
  <2>1. Head(serverEffects) = S!StartTelemetryTimer
    <3>1. Head(serverEffects).effect = "StartTelemetryTimer"
      BY <1>6 DEF S!HandleStartTelemetryTimer, S!HandleStartTelemetryTimerThrows
    <3> QED
      BY <1>3, <3>1 DEF ServerEffects, S!StartTelemetryTimer, S!StopTelemetryTimer
  <2>2. S!Pending(S!StartTelemetryTimer)
    BY <1>3, <2>1 DEF S!Pending
  <2>3. serverEffects = <<S!StartTelemetryTimer>> /\ server.telemetry_enabled
    BY <2>2 DEF SamplingInSession, S!StartIsAlone
  <2>4. serverEffects' = <<>>
    BY <1>6, <2>3 DEF S!HandleStartTelemetryTimer, S!HandleStartTelemetryTimerThrows
  <2>5. ~S!Pending(S!StartTelemetryTimer)' /\ ~S!Pending(S!StopTelemetryTimer)'
    BY <2>4, RangeOfShort DEF S!Pending, S!Range
  <2>6. S!StartIsAlone' /\ S!StopMeansDisabled' /\ S!NoOrphanSampling'
    BY <1>2, <2>3, <2>5 DEF S!StartIsAlone, S!StopMeansDisabled, S!NoOrphanSampling
  <2>7. CASE S!HandleStartTelemetryTimer
    <3>1. /\ running' = TRUE /\ armed' = IF running THEN armed ELSE armed + 1
      BY <2>7 DEF S!HandleStartTelemetryTimer, S!Start
    <3>2. S!RunningIsArmed' /\ S!EnabledMeansSampling' /\ (S!Served => S!Served')
      BY <1>1, <3>1
      DEF SamplingInSession, S!RunningIsArmed, S!EnabledMeansSampling, S!Served
    <3> QED
      BY <2>6, <3>2 DEF SamplingInSession
  <2>8. CASE S!HandleStartTelemetryTimerThrows
    <3>1. SamplerMayFail /\ UNCHANGED <<running, armed>>
      BY <2>8 DEF S!HandleStartTelemetryTimerThrows, S!StartThrows, S!timerVars
    <3> QED
      BY <2>6, <2>8, <3>1 DEF SamplingInSession, S!RunningIsArmed, S!EnabledMeansSampling
  <2> QED
    BY <1>6, <2>7, <2>8
<1>7. CASE S!HandleStopTelemetryTimer
  <2>1. /\ serverEffects' = Tail(serverEffects) /\ running' = FALSE
        /\ Head(serverEffects).effect = "StopTelemetryTimer"
    BY <1>7 DEF S!HandleStopTelemetryTimer, S!Stop
  <2>2. Head(serverEffects) = S!StopTelemetryTimer
    BY <1>3, <2>1 DEF ServerEffects, S!StartTelemetryTimer, S!StopTelemetryTimer
  <2>3. ~server.telemetry_enabled
    BY <1>3, <2>2 DEF SamplingInSession, S!StopMeansDisabled, S!Pending
  <2>4. ~S!Pending(S!StartTelemetryTimer)'
    BY <1>4, <2>1, <2>3 DEF SamplingInSession, S!StartIsAlone
  <2> QED
    BY <1>2, <2>1, <2>3, <2>4
    DEF SamplingInSession, S!StartIsAlone, S!StopMeansDisabled, S!NoOrphanSampling,
        S!RunningIsArmed, S!EnabledMeansSampling, S!Served
<1> QED
  BY <1>5, <1>6, <1>7

LEMMA StepKeepsSampling ==
    ASSUME SessionInv, SamplingInSession, [Next]_vars
    PROVE  /\ SamplingInSession'
           /\ [S!Served => \/ S!Served'
                           \/ S!TimerExpiresThrows
                           \/ S!HandleStartTelemetryTimerThrows]_(S!controllerVars)
<1>1. [ServerControllerStep]_(S!controllerVars)
  BY SessionRunsServer
<1>2. S!TimerTypeOK
  BY DEF SessionInv, ServerInv
<1>3. CASE UNCHANGED S!controllerVars
  BY <1>3, OtherKeepsSampling DEF S!controllerVars
<1>4. CASE \/ \E id \in Nat : S!RunConnected(id)
           \/ S!RunDisconnected \/ S!RunReceived \/ S!RunSampleReady
  <2>1. serverEffects = <<>> /\ UNCHANGED <<running, armed>>
    BY <1>4 DEF S!RunConnected, S!RunDisconnected, S!RunReceived, S!RunSampleReady,
                S!TakeTask, S!timerVars
  <2> QED
    BY <1>4, <2>1, TelemetryOfTask, TaskKeepsSampling
<1>5. CASE \/ S!HandleSendMessage \/ S!HandleStartTelemetryTimer
           \/ S!HandleStartTelemetryTimerThrows \/ S!HandleStopTelemetryTimer
  BY <1>5, EffectKeepsSampling
<1>6. CASE \/ S!RunUndecodable \/ TransportPosts
           \/ \E posted \in {<<>>, <<S!Disconnected>>} : S!RunSend(posted)
  <2>1. UNCHANGED <<server, serverEffects, running, armed>>
    BY <1>6 DEF S!RunUndecodable, TransportPosts, S!RunSend
  <2> QED
    BY <2>1, OtherKeepsSampling
<1>7. CASE S!TimerExpires \/ S!TimerExpiresStopped
  <2>1. UNCHANGED <<server, serverEffects, running>> /\ (running => armed' = armed)
    BY <1>7 DEF S!TimerExpires, S!TimerExpiresStopped, S!PostSample, S!ExpireStopped,
                S!timerVars
  <2> QED
    BY <2>1, OtherKeepsSampling
<1>8. CASE S!TimerExpiresThrows
  <2>1. UNCHANGED <<server, serverEffects, running>> /\ SamplerMayFail
    BY <1>8 DEF S!TimerExpiresThrows, S!PostSampleThrows
  <2> QED
    BY <1>8, <2>1, OtherKeepsSampling
<1>9. CASE ServerRestarts
  <2>1. /\ \A e : ~S!Pending(e)'
        /\ ~server'.telemetry_enabled /\ ~running'
    BY <1>9, RangeOfShort, InitialStates DEF ServerRestarts, S!Pending, S!Range
  <2> QED
    BY <2>1
    DEF SamplingInSession, S!StartIsAlone, S!StopMeansDisabled, S!RunningIsArmed,
        S!NoOrphanSampling, S!EnabledMeansSampling, S!Served
<1> QED
  BY <1>1, <1>3, <1>4, <1>5, <1>6, <1>7, <1>8, <1>9 DEF ServerControllerStep, S!Worker

LEMMA SamplingAlways == Spec => []SamplingInSession
<1>1. Init => SamplingInSession
  <2> SUFFICES ASSUME Init PROVE SamplingInSession
    OBVIOUS
  <2>1. (\A e : ~S!Pending(e)) /\ ~server.telemetry_enabled /\ ~running
    BY RangeOfShort, InitialStates DEF Init, S!Init, S!TimerInit, S!Pending
  <2> QED
    BY <2>1
    DEF SamplingInSession, S!StartIsAlone, S!StopMeansDisabled, S!RunningIsArmed,
        S!NoOrphanSampling, S!EnabledMeansSampling
<1>2. SessionInv /\ SamplingInSession /\ [Next]_vars => SamplingInSession'
  BY StepKeepsSampling
<1> QED
  BY <1>1, <1>2, SessionInvAlways, PTL DEF Spec

(* In the session, too, the sampling does not outlive the wish for it, and *)
(* an accepted request for telemetry is served, whatever the transports do *)
(* and whichever process crashes.                                          *)
THEOREM SessionSampling == Spec => [](S!NoOrphanSampling /\ S!EnabledMeansSampling)
<1>1. SamplingInSession => S!NoOrphanSampling /\ S!EnabledMeansSampling
  BY DEF SamplingInSession
<1> QED
  BY <1>1, SamplingAlways, PTL

(* Nothing but an exception of the sampler makes an enabled telemetry of   *)
(* the session idle.                                                       *)
THEOREM SessionOnlyThrowsStopSampling == Spec => S!OnlyThrowsStopSampling
<1>1. SessionInv /\ SamplingInSession /\ [Next]_vars
      => [S!Served => \/ S!Served'
                      \/ S!TimerExpiresThrows
                      \/ S!HandleStartTelemetryTimerThrows]_(S!controllerVars)
  BY StepKeepsSampling
<1> QED
  BY <1>1, SamplingAlways, SessionInvAlways, PTL DEF Spec, S!OnlyThrowsStopSampling

-----------------------------------------------------------------------------
(* The client's controller in the session.  ClientStateMachine is checked  *)
(* and proved for any sequence of events; here a task is one call of       *)
(* doStep, and the effects are handled before the next.                    *)

(* What a step of the session is to the client's state machine: a call of  *)
(* doStep, an effect that is handled, or a restart of the process          *)
DoStep ==
    \/ \E id \in Nat : C!TransportConnected(id)
    \/ C!TransportDisconnected
    \/ \E m \in FromServer : C!MessageReceived(m)
ClientStateStep ==
    \/ clientEffects = <<>> /\ DoStep
    \/ clientEffects # <<>> /\ clientEffects' = Tail(clientEffects) /\ UNCHANGED client
    \/ client' = C!InitialClient /\ clientEffects' = <<>>

LEMMA SessionStepsClient ==
    ASSUME SessionInv, [Next]_vars
    PROVE  [ClientStateStep]_(C!clientVars)
<1>1. clientStrand \in Seq(ClientTasks) /\ clientClock \in Nat
  BY DEF SessionInv, ClientInv
<1>2. CASE \/ ServerOpenChannel \/ ServerReader \/ ServerWorker \/ TimerFires
           \/ ServerReadFails \/ ServerSendFails \/ ServerCrash
           \/ DropToClient \/ DropToServer \/ UNCHANGED vars
  <2>1. UNCHANGED <<client, clientEffects>>
    BY <1>2 DEF ServerOpenChannel, ServerReader, ServerRead, ServerReadsSeveral,
                ServerReaderGoesOn, ServerWorker, ServerRunConnected, ServerStep, ServerSend,
                ServerSendFindsClosed, ServerWorkerReports, TimerFires, ServerReadFails,
                ServerSendFails, ServerCrash, DropToClient, DropToServer, vars,
                ClientUnchanged, clientProcess
  <2> QED
    BY <2>1 DEF C!clientVars
<1>3. CASE \/ ClientOpen \/ ClientRegister \/ ClientNotify \/ ClientReceive \/ ClientDisconnect
           \/ ClientSend \/ ClientSendFails
  BY <1>3 DEF ClientOpen, ClientRegister, ClientNotify, ClientReceive, ClientDisconnect, ClientSend,
              ClientSendFails, C!RunSend, C!clientVars
<1>4. CASE ClientRunConnected
  <2>1. /\ clientEffects = <<>> /\ C!TransportConnected(clientClock + 1)
        /\ clientClock + 1 \in Nat
    BY <1>1, <1>4 DEF ClientRunConnected, C!RunConnected, C!TakeTask
  <2> QED
    BY <2>1 DEF DoStep, ClientStateStep
<1>5. CASE ClientStep
  <2>1. CASE C!RunDisconnected
    BY <2>1 DEF C!RunDisconnected, C!TakeTask, DoStep, ClientStateStep
  <2>2. CASE C!RunReceived
    <3>1. /\ clientEffects = <<>> /\ clientStrand # <<>>
          /\ Head(clientStrand).task = "Received"
          /\ C!MessageReceived(Head(clientStrand).bytes)
      BY <2>2 DEF C!RunReceived, C!TakeTask
    <3>2. Head(clientStrand).bytes \in FromServer
      BY <1>1, <3>1, HeadAndTail, Contents
    <3> QED
      BY <3>1, <3>2 DEF DoStep, ClientStateStep
  <2>3. CASE C!HandleSendMessage \/ C!HandleStopPing
    BY <2>3 DEF C!HandleSendMessage, C!HandleStopPing, ClientStateStep
  <2> QED
    BY <1>5, <2>1, <2>2, <2>3 DEF ClientStep
<1>6. CASE ClientCrash
  BY <1>6 DEF ClientCrash, ClientStateStep
<1> QED
  BY <1>2, <1>3, <1>4, <1>5, <1>6 DEF Next, Faults, ClientWorker

(* Every step of the session leaves the client's state machine alone, or   *)
(* is a call of its doStep once the effects of the call before are         *)
(* handled, the handling of an effect, or a restart of the process.        *)
THEOREM SessionRunsClientStateMachine ==
    Spec => [][ClientStateStep]_(C!clientVars)
<1>1. SessionInv /\ [Next]_vars => [ClientStateStep]_(C!clientVars)
  BY SessionStepsClient
<1> QED
  BY <1>1, SessionInvAlways, PTL DEF Spec

LEMMA StepKeepsRequest ==
    ASSUME SessionInv, C!NoStaleRequest, [ClientStateStep]_(C!clientVars)
    PROVE  C!NoStaleRequest'
<1> USE DEF C!NoStaleRequest
<1>1. client \in C!ClientStates
  BY DEF SessionInv, ClientInv, ClientState
<1>2. ASSUME NEW id \in Nat, C!TransportConnected(id) PROVE C!NoStaleRequest'
  BY <1>2 DEF C!TransportConnected
<1>3. CASE C!TransportDisconnected
  BY <1>1, <1>3 DEF C!TransportDisconnected, C!ClientStates
<1>4. ASSUME NEW m \in FromServer, C!MessageReceived(m) PROVE C!NoStaleRequest'
  <2>1. CASE C!HandleForeignHello(m)
    BY <1>1, <2>1 DEF C!HandleForeignHello, C!Reset, C!ClientStates
  <2>2. CASE C!HandleHello(m)
    BY <1>1, <2>2 DEF C!HandleHello, C!LocalHelloSent, C!RemoteHelloReceived, C!ClientStates
  <2>3. CASE C!HandleUnsupported(m) \/ C!HandleError(m) \/ C!HandleLogged(m)
    BY <2>3 DEF C!HandleUnsupported, C!HandleError, C!HandleLogged
  <2> QED
    BY <1>4, <2>1, <2>2, <2>3 DEF C!MessageReceived
<1>5. CASE client' = C!InitialClient
  BY <1>5 DEF C!InitialClient, C!Reset
<1>6. CASE client' = client
  BY <1>6
<1> QED
  BY <1>2, <1>3, <1>4, <1>5, <1>6 DEF ClientStateStep, DoStep, C!clientVars

(* No request for telemetry outlives the handshake that made it, in the    *)
(* session.                                                                *)
THEOREM SessionNoStaleRequest == Spec => []C!NoStaleRequest
<1>1. Init => C!NoStaleRequest
  BY DEF Init, C!ControllerInit, C!Init, C!InitialClient, C!Reset, C!NoStaleRequest
<1>2. SessionInv /\ C!NoStaleRequest /\ [Next]_vars => C!NoStaleRequest'
  BY SessionStepsClient, StepKeepsRequest
<1> QED
  BY <1>1, <1>2, SessionInvAlways, PTL DEF Spec

(* A step that completes the client's handshake is a Hello from the        *)
(* instance that is known already, so no request is outstanding.           *)
LEMMA CompletingAsks ==
    ASSUME SessionInv, C!NoStaleRequest, ClientStateStep,
           ~client.handshake.handshake_completed, client'.handshake.handshake_completed
    PROVE  \E i \in DOMAIN clientEffects' :
              clientEffects'[i] = C!SendMessage(C!MakeTelemetryStart)
<1>1. client \in C!ClientStates
  BY DEF SessionInv, ClientInv, ClientState
<1>2. client' # client /\ client' # C!InitialClient
  BY DEF C!InitialClient, C!Reset
<1>3. \A id : ~C!TransportConnected(id)
  BY DEF C!TransportConnected, C!Reset, C!LocalHelloSent
<1>4. ~C!TransportDisconnected
  <2>1. C!TransportDisconnected => client'.handshake = C!Reset
    BY <1>1 DEF C!TransportDisconnected, C!ClientStates
  <2> QED
    BY <2>1 DEF C!Reset
<1>5. PICK m \in FromServer : C!MessageReceived(m)
  BY <1>2, <1>3, <1>4 DEF ClientStateStep, DoStep
<1>6. C!HandleHello(m)
  <2>1. ~C!HandleForeignHello(m)
    BY <1>1 DEF C!HandleForeignHello, C!Reset, C!ClientStates
  <2>2. ~C!HandleUnsupported(m) /\ ~C!HandleError(m) /\ ~C!HandleLogged(m)
    BY DEF C!HandleUnsupported, C!HandleError, C!HandleLogged
  <2> QED
    BY <1>5, <2>1, <2>2 DEF C!MessageReceived
<1> DEFINE h == C!RemoteHelloReceived(client.handshake, m.instance_id)
           greeting == C!SendMessage(C!MakeHello(ClientVersion, client.instance_id))
           hello == IF h.local_hello_needed THEN <<greeting>> ELSE <<>>
           ask == C!SendMessage(C!MakeTelemetryStart)
<1>7. m.instance_id \in Nat
  BY <1>6, HelloId DEF C!HandleHello, FromServer
<1>8. h.handshake_completed /\ client.handshake.remote_instance_id = m.instance_id
  BY <1>1, <1>6 DEF C!HandleHello, C!LocalHelloSent, C!RemoteHelloReceived, C!ClientStates
<1>9. ~client.telemetry_requested
  BY <1>7, <1>8 DEF C!NoStaleRequest, C!NoInstance
<1>10. clientEffects' = hello \o <<ask>>
  BY <1>6, <1>8, <1>9 DEF C!HandleHello
<1>11. hello \in Seq({greeting, ask}) /\ <<ask>> \in Seq({greeting, ask})
  <2>1. \A A : <<>> \in Seq(A) /\ \A a \in A : <<a>> \in Seq(A)
    OBVIOUS
  <2> QED
    BY <2>1
<1>12. S!Range(<<ask>>) = {ask}
  BY RangeOfShort
<1> HIDE DEF hello, greeting, ask
<1>13. S!Range(hello \o <<ask>>) = S!Range(hello) \cup S!Range(<<ask>>)
  BY <1>11, RangeOfJoined
<1>14. \E i \in DOMAIN (hello \o <<ask>>) : (hello \o <<ask>>)[i] = ask
  BY <1>12, <1>13 DEF S!Range
<1> QED
  BY <1>10, <1>14 DEF ask

(* Every completed handshake of the session asks for telemetry.            *)
THEOREM SessionCompletionRequestsTelemetry == Spec => C!CompletionRequestsTelemetry
<1>1. SessionInv /\ C!NoStaleRequest /\ [Next]_vars
      => [~client.handshake.handshake_completed /\ client'.handshake.handshake_completed
          => \E i \in DOMAIN clientEffects' :
                clientEffects'[i] = C!SendMessage(C!MakeTelemetryStart)]_(C!clientVars)
  BY SessionStepsClient, CompletingAsks DEF C!clientVars
<1> QED
  BY <1>1, SessionInvAlways, SessionNoStaleRequest, PTL DEF Spec, C!CompletionRequestsTelemetry
=============================================================================
