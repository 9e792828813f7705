------------------------------- MODULE Session -------------------------------
(***************************************************************************)
(* A client and a server joined by an RDP virtual channel: the two         *)
(* controllers of ClientController and ServerController, the events their  *)
(* transports promise them (ClientLink, ServerLink), and the channel       *)
(* itself.                                                                 *)
(*                                                                         *)
(* Client process: the host's callbacks (open, notify, receive,            *)
(* disconnect) and the strand's worker.  Server process: the reader thread *)
(* of WtsTransport::run and the strand's worker, which also closes the     *)
(* channel when a write fails.  Either process may crash and be started    *)
(* again.  The channel is a queue per direction; RDP drops what arrives    *)
(* for an endpoint that is not open, at once or later.                     *)
(***************************************************************************)
EXTENDS Integers, Sequences, FiniteSets

CONSTANTS Versions,             (* the versions that builds carry          *)
          ClientVersion,        (* the client build's PROTOCOL_VERSION     *)
          ServerVersion,        (* the server build's PROTOCOL_VERSION     *)
          SamplerMayFail,       (* as in TimerControl                      *)
          ClientWritesMayFail,  (* whether pVirtualChannelWrite can fail   *)
                                (* while the channel is open               *)
          ReadsMayCoalesce,     (* whether one read of the server can      *)
                                (* return several messages                 *)
          MaxClientConnects,    (* how often the client's channel opens    *)
          MaxServerConnects,    (* how often the server's channel opens    *)
          MaxSamples            (* samples on their way to the client      *)

ASSUME SessionAssumption ==
    /\ {ClientVersion, ServerVersion} \subseteq Versions
    /\ SamplerMayFail \in BOOLEAN
    /\ ClientWritesMayFail \in BOOLEAN
    /\ ReadsMayCoalesce \in BOOLEAN
    /\ MaxClientConnects \in Nat
    /\ MaxServerConnects \in Nat
    /\ MaxSamples \in Nat

VARIABLES
    client, clientEffects, clientStrand,    (* the client's Controller     *)
    clientLink,     (* "closed"; "opening": the handle is open; "opened":  *)
                    (* and registered; "connected": Connected is posted    *)
    clientClock,    (* instance ids the client has drawn: the next is one  *)
                    (* more, so that an id is never drawn twice            *)
    server, serverEffects, serverStrand,    (* the server's Controller     *)
    running, armed,                         (* and its TimerControl        *)
    channelValid,   (* channel_.valid()                                    *)
    reader,         (* where the thread in WtsTransport::run is            *)
    inHand,         (* the bytes readOnce has read and not yet passed on   *)
    reporting,      (* the worker has closed the channel and not said so   *)
    serverClock,    (* as clientClock                                      *)
    toServer, toClient                      (* the channel                 *)

clientProcess == <<client, clientEffects, clientStrand, clientLink>>
controlOfServer == <<server, serverEffects, serverStrand, running, armed>>
linkOfServer == <<channelValid, reader, inHand, reporting>>
wires == <<toServer, toClient>>
vars == <<clientProcess, clientClock, controlOfServer, linkOfServer, serverClock, wires>>

C == INSTANCE ClientController
        WITH effects <- clientEffects, strand <- clientStrand,
             PROTOCOL_VERSION <- ClientVersion, Ids <- Nat
S == INSTANCE ServerController
        WITH effects <- serverEffects, strand <- serverStrand,
             PROTOCOL_VERSION <- ServerVersion, Ids <- Nat,
             MaxStrand <- 0, MaxArmed <- 0
CL == INSTANCE ClientLink
        WITH link <- clientLink, posts <- clientStrand, Bytes <- C!Message
SL == INSTANCE ServerLink
        WITH posts <- serverStrand, Bytes <- C!Message

TypeOK ==
    /\ C!ControllerTypeOK
    /\ S!TypeOK
    /\ clientLink \in CL!LinkStates
    /\ SL!LinkTypeOK
    /\ clientClock \in Nat
    /\ serverClock \in Nat
    /\ toServer \in Seq(C!Message)
    /\ toClient \in Seq(C!Message)

Init ==
    /\ C!ControllerInit
    /\ clientLink = "closed"
    /\ clientClock = 0
    /\ S!Init
    /\ SL!LinkInit
    /\ serverClock = 0
    /\ toServer = <<>>
    /\ toClient = <<>>

Waiting(strand, t) == Cardinality({i \in DOMAIN strand : strand[i] = t})

-----------------------------------------------------------------------------
(* The host's callbacks in the client process *)

ClientUnchanged == UNCHANGED <<clientProcess, clientClock>>
ServerUnchanged == UNCHANGED <<controlOfServer, linkOfServer, serverClock>>

ClientOpen ==
    /\ clientClock + Waiting(clientStrand, C!Connected) < MaxClientConnects
    /\ CL!Open
    /\ UNCHANGED <<client, clientEffects, clientClock, wires>>
    /\ ServerUnchanged

ClientRegister ==
    /\ CL!Register
    /\ UNCHANGED <<client, clientEffects, clientClock, wires>>
    /\ ServerUnchanged

ClientNotify ==
    /\ CL!Notify
    /\ UNCHANGED <<client, clientEffects, clientClock, wires>>
    /\ ServerUnchanged

(* Also the end of a connection whose channel could not be opened; one     *)
(* such event waits at a time                                              *)
ClientDisconnect ==
    /\ clientLink = "connected" \/ Waiting(clientStrand, C!Disconnected) = 0
    /\ CL!Disconnect
    /\ UNCHANGED <<client, clientEffects, clientClock, wires>>
    /\ ServerUnchanged

ClientReceive ==
    /\ toClient # <<>>
    /\ CL!Receive(Head(toClient))
    /\ toClient' = Tail(toClient)
    /\ UNCHANGED <<client, clientEffects, clientClock, toServer>>
    /\ ServerUnchanged

-----------------------------------------------------------------------------
(* The worker in the client process *)

ClientRunConnected ==
    /\ C!RunConnected(clientClock + 1)
    /\ clientClock' = clientClock + 1
    /\ UNCHANGED <<clientLink, wires>>
    /\ ServerUnchanged

ClientStep ==
    /\ \/ C!RunDisconnected
       \/ C!RunReceived
       \/ C!HandleSendMessage
       \/ C!HandleStopPing
    /\ UNCHANGED <<clientLink, clientClock, wires>>
    /\ ServerUnchanged

(* MstscTransport::send.  A write that fails is logged; the client neither *)
(* closes the channel nor tries again.                                     *)
ClientSend ==
    /\ clientLink # "closed"
    /\ C!RunSend
    /\ toServer' = Append(toServer, Head(clientStrand).bytes)
    /\ UNCHANGED <<clientLink, clientClock, toClient>>
    /\ ServerUnchanged

ClientSendFails ==
    /\ clientLink = "closed" \/ ClientWritesMayFail
    /\ C!RunSend
    /\ UNCHANGED <<clientLink, clientClock, wires>>
    /\ ServerUnchanged

ClientWorker == ClientRunConnected \/ ClientStep \/ ClientSend \/ ClientSendFails

-----------------------------------------------------------------------------
(* The reader thread in the server process, WtsTransport::run *)

(* The opens are bounded: those the strand still has to hear of count *)
ServerOpenChannel ==
    /\ serverClock + Waiting(serverStrand, S!Connected) < MaxServerConnects
    /\ SL!Open
    /\ UNCHANGED <<controlOfServer, serverClock, wires>>
    /\ ClientUnchanged

ServerRead ==
    /\ toServer # <<>>
    /\ SL!Read(Head(toServer))
    /\ toServer' = Tail(toServer)
    /\ UNCHANGED <<controlOfServer, serverClock, toClient>>
    /\ ClientUnchanged

(* One read returns several messages: readOnce makes one buffer of them,   *)
(* of which Serializer::deserialize decodes the first message              *)
ServerReadsSeveral ==
    /\ ReadsMayCoalesce
    /\ \E n \in 2..Len(toServer) :
           toServer' = SubSeq(toServer, n + 1, Len(toServer))
    /\ SL!Read(Head(toServer))
    /\ UNCHANGED <<controlOfServer, serverClock, toClient>>
    /\ ClientUnchanged

(* What the reader does without the channel's contents *)
ServerReaderGoesOn ==
    /\ SL!Notify \/ SL!Deliver \/ SL!ReaderReports \/ SL!ReadFindsClosed
    /\ UNCHANGED <<server, serverEffects, running, armed, serverClock, wires>>
    /\ ClientUnchanged

ServerReadFails ==
    /\ SL!ReadFails
    /\ UNCHANGED <<server, serverEffects, running, armed, serverClock, wires>>
    /\ ClientUnchanged

ServerReader == ServerRead \/ ServerReadsSeveral \/ ServerReaderGoesOn

-----------------------------------------------------------------------------
(* The worker in the server process *)

ServerRunConnected ==
    /\ ~reporting
    /\ S!RunConnected(serverClock + 1)
    /\ serverClock' = serverClock + 1
    /\ UNCHANGED <<linkOfServer, wires>>
    /\ ClientUnchanged

ServerStep ==
    /\ ~reporting
    /\ \/ S!RunDisconnected
       \/ S!RunReceived
       \/ S!RunSampleReady
       \/ S!HandleSendMessage
       \/ S!HandleStartTelemetryTimer
       \/ S!HandleStartTelemetryTimerThrows
       \/ S!HandleStopTelemetryTimer
    /\ UNCHANGED <<linkOfServer, serverClock, wires>>
    /\ ClientUnchanged

(* WtsTransport::send *)
ServerSend ==
    /\ channelValid
    /\ ~reporting
    /\ S!RunSend(<<>>)
    /\ toClient' = Append(toClient, Head(serverStrand).bytes)
    /\ UNCHANGED <<linkOfServer, serverClock, toServer>>
    /\ ClientUnchanged

(* send of a closed channel: logged, and the bytes are lost *)
ServerSendFindsClosed ==
    /\ ~channelValid
    /\ ~reporting
    /\ S!RunSend(<<>>)
    /\ UNCHANGED <<linkOfServer, serverClock, wires>>
    /\ ClientUnchanged

(* WTSVirtualChannelWrite fails, and send calls closeChannel; the task is  *)
(* not over before the disconnected handler has been called                *)
ServerSendFails ==
    /\ SL!SendFails
    /\ S!RunSend(<<>>)
    /\ UNCHANGED <<serverClock, wires>>
    /\ ClientUnchanged

ServerWorkerReports ==
    /\ SL!WorkerReports
    /\ UNCHANGED <<server, serverEffects, running, armed, serverClock, wires>>
    /\ ClientUnchanged

ServerWorker ==
    \/ ServerRunConnected \/ ServerStep
    \/ ServerSend \/ ServerSendFindsClosed \/ ServerWorkerReports

-----------------------------------------------------------------------------
(* The telemetry timers, run by the worker between two tasks *)

(* Something of a CPU sample, queued or on the wire *)
AboutSample(t) ==
    t \in {S!SampleReady, S!Send(C!MakeCpuSample), C!Received(C!MakeCpuSample)}

SamplesInFlight ==
    Cardinality({i \in DOMAIN serverStrand : AboutSample(serverStrand[i])})
      + Cardinality({i \in DOMAIN serverEffects :
                        serverEffects[i] = S!SendMessage(C!MakeCpuSample)})
      + Cardinality({i \in DOMAIN toClient : toClient[i] = C!MakeCpuSample})
      + Cardinality({i \in DOMAIN clientStrand : AboutSample(clientStrand[i])})

TimerFires ==
    /\ ~reporting
    /\ \/ SamplesInFlight < MaxSamples /\ S!TimerExpires
       \/ S!TimerExpiresStopped
       \/ S!TimerExpiresThrows
    /\ UNCHANGED <<linkOfServer, serverClock, wires>>
    /\ ClientUnchanged

-----------------------------------------------------------------------------
(* What the processes do not choose *)

(* The process ends and is started anew: all is lost but the ids drawn *)
ClientCrash ==
    /\ client' = C!InitialClient
    /\ clientEffects' = <<>>
    /\ clientStrand' = <<>>
    /\ clientLink' = "closed"
    /\ UNCHANGED <<clientClock, wires>>
    /\ ServerUnchanged

ServerCrash ==
    /\ server' = S!InitialServer
    /\ serverEffects' = <<>>
    /\ serverStrand' = <<>>
    /\ running' = FALSE
    /\ armed' = 0
    /\ channelValid' = FALSE
    /\ reader' = "opening"
    /\ inHand' = SL!Nothing
    /\ reporting' = FALSE
    /\ UNCHANGED <<serverClock, wires>>
    /\ ClientUnchanged

(* Nothing is kept for an endpoint that is not open, or not all of it *)
DropToClient ==
    /\ clientLink \in {"closed", "opening"}
    /\ toClient # <<>>
    /\ toClient' = Tail(toClient)
    /\ UNCHANGED toServer
    /\ ClientUnchanged
    /\ ServerUnchanged

DropToServer ==
    /\ ~channelValid
    /\ toServer # <<>>
    /\ toServer' = Tail(toServer)
    /\ UNCHANGED toClient
    /\ ClientUnchanged
    /\ ServerUnchanged

Faults ==
    \/ ClientDisconnect \/ ClientCrash \/ DropToClient
    \/ ServerReadFails \/ ServerSendFails \/ ServerCrash \/ DropToServer

Next ==
    \/ ClientOpen \/ ClientRegister \/ ClientNotify \/ ClientReceive \/ ClientWorker
    \/ ServerOpenChannel \/ ServerReader \/ ServerWorker \/ TimerFires
    \/ Faults

Spec == Init /\ [][Next]_vars

(* Every thread that has something to do goes on doing it; nothing is      *)
(* assumed of the channel's opening and of the faults                      *)
Fairness ==
    /\ WF_vars(ClientRegister)
    /\ WF_vars(ClientNotify)
    /\ WF_vars(ClientReceive)
    /\ WF_vars(ClientWorker)
    /\ WF_vars(ServerReader)
    /\ WF_vars(ServerWorker)
    /\ WF_vars(TimerFires)

FairSpec == Spec /\ Fairness
-----------------------------------------------------------------------------
(* Both ends of the channel are open and have told their controllers so *)
Up == clientLink = "connected" /\ channelValid /\ reader = "reading"

(* Apart from samples on their way there is nothing left to do *)
Settled ==
    /\ Up
    /\ ~reporting
    /\ clientEffects = <<>>
    /\ \A i \in DOMAIN clientStrand : AboutSample(clientStrand[i])
    /\ \A i \in DOMAIN serverEffects :
           serverEffects[i] = S!SendMessage(C!MakeCpuSample)
    /\ \A i \in DOMAIN serverStrand : AboutSample(serverStrand[i])
    /\ toServer = <<>>
    /\ \A i \in DOMAIN toClient : toClient[i] = C!MakeCpuSample

(* Each side has completed its handshake with the instance that the other  *)
(* side is now, and the client's request for telemetry is granted          *)
Agreed ==
    /\ client.handshake.handshake_completed
    /\ server.handshake.handshake_completed
    /\ client.handshake.remote_instance_id = server.instance_id
    /\ server.handshake.remote_instance_id = client.instance_id
    /\ client.telemetry_requested
    /\ server.telemetry_enabled
    /\ running

(* There is no timeout and no retry in the protocol, so whenever the two   *)
(* sides fall silent with the channel up they must have agreed, whatever   *)
(* reconnects, crashes, Hellos of a former connection and losses while     *)
(* one end was closed came before.  A silence without agreement would      *)
(* last for ever.                                                          *)
SilenceMeansAgreement ==
    Settled /\ ClientVersion = ServerVersion
            /\ ~ClientWritesMayFail /\ ~SamplerMayFail /\ ~ReadsMayCoalesce
    => Agreed

(* Message m is on its way to the server, or to the client: about to be    *)
(* sent, on the channel, or about to be handled                            *)
OnItsWayToServer(m) ==
    \/ \E i \in DOMAIN clientEffects : clientEffects[i] = C!SendMessage(m)
    \/ \E i \in DOMAIN clientStrand : clientStrand[i] = C!Send(m)
    \/ \E i \in DOMAIN toServer : toServer[i] = m
    \/ reader = "deliver" /\ inHand = m
    \/ \E i \in DOMAIN serverStrand : serverStrand[i] = S!Received(m)
OnItsWayToClient(m) ==
    \/ \E i \in DOMAIN serverEffects : serverEffects[i] = S!SendMessage(m)
    \/ \E i \in DOMAIN serverStrand : serverStrand[i] = S!Send(m)
    \/ \E i \in DOMAIN toClient : toClient[i] = m
    \/ \E i \in DOMAIN clientStrand : clientStrand[i] = C!Received(m)

(* Both ends are open, and neither controller has still to hear of it, or  *)
(* of the end of a former connection                                       *)
Announced ==
    /\ clientLink = "connected" /\ channelValid /\ reader \in {"reading", "deliver"}
    /\ \A i \in DOMAIN clientStrand : clientStrand[i] # C!Connected
    /\ \A i \in DOMAIN serverStrand :
           serverStrand[i] \notin {S!Connected, S!Disconnected}

(* Nor does the exchange stall before: at any time, and not only when      *)
(* nothing is left to do, the two sides have completed their handshakes    *)
(* with each other or a Hello of theirs is on its way, not merely one of   *)
(* a former connection; and a client that has asked this server for        *)
(* telemetry has been granted it, or its request is on its way.            *)
NeverStalls ==
    Announced /\ ClientVersion = ServerVersion
              /\ ~ClientWritesMayFail /\ ~SamplerMayFail /\ ~ReadsMayCoalesce
    => /\ \/ /\ client.handshake.handshake_completed
             /\ server.handshake.handshake_completed
             /\ client.handshake.remote_instance_id = server.instance_id
             /\ server.handshake.remote_instance_id = client.instance_id
          \/ OnItsWayToServer(C!MakeHello(ClientVersion, client.instance_id))
          \/ OnItsWayToClient(S!MakeHello(ServerVersion, server.instance_id))
       /\ client.telemetry_requested
          /\ client.handshake.remote_instance_id = server.instance_id
          => server.telemetry_enabled \/ OnItsWayToServer(C!MakeTelemetryStart)

(* The server never greets, and never completes a handshake, in the name   *)
(* of no connection: whatever the reader delivers is handled after the     *)
(* Connected event of some channel of the same process, although the       *)
(* handler that posts it is called outside the mutex and the worker may    *)
(* close the channel first.  (The client does greet with the zero id: its  *)
(* data may arrive before its Connected event.)                            *)
ServerGreetsByName ==
    /\ \A i \in DOMAIN toClient :
           toClient[i].type = "Hello" => toClient[i].instance_id # C!ZeroInstance
    /\ server.handshake.handshake_completed => server.instance_id # C!ZeroInstance

(* Builds of different versions never complete a handshake, and such a     *)
(* server never starts telemetry, although it would start it for anybody   *)
(* who asks, before or without a handshake.                                *)
VersionAgreement ==
    \/ client.handshake.handshake_completed
    \/ server.handshake.handshake_completed
    \/ client.telemetry_requested
    \/ server.telemetry_enabled
    => ClientVersion = ServerVersion

(* A side that is in contact with one instance of its peer never goes back *)
(* to an earlier instance: what a former connection left on the strands    *)
(* and on the channel may delay the handshake, it never undoes it.  (The   *)
(* zero id, with which a restarted client answers a Hello that arrives     *)
(* before its Connected event, belongs to no connection.)                  *)
Earlier(h1, h2) ==
    0 < h1.remote_instance_id /\ h1.remote_instance_id < h2.remote_instance_id
NeverAnEarlierInstance ==
    [][/\ ~Earlier(server'.handshake, server.handshake)
       /\ ~Earlier(client'.handshake, client.handshake)]_vars

(* How many messages of M are on their way to the server, and to the       *)
(* client: those that effects say, tasks carry and the channel holds       *)
Saying(effects, M) ==
    Cardinality({i \in DOMAIN effects : effects[i].effect = "SendMessage" /\ effects[i].message \in M})
Carrying(strand, kind, M) ==
    Cardinality({i \in DOMAIN strand : strand[i].task = kind /\ strand[i].bytes \in M})
Holding(channel, M) == Cardinality({i \in DOMAIN channel : channel[i] \in M})

ToServer(M) ==
    Saying(clientEffects, M) + Carrying(clientStrand, "Send", M) + Holding(toServer, M)
      + (IF reader = "deliver" /\ inHand \in M THEN 1 ELSE 0)
      + Carrying(serverStrand, "Received", M)
ToClient(M) ==
    Saying(serverEffects, M) + Carrying(serverStrand, "Send", M) + Holding(toClient, M)
      + Carrying(clientStrand, "Received", M)

(* The Hellos, and those that are not of the instance id: of a former one, *)
(* or of the connection that there is not yet                              *)
AnyHello == C!HelloMessages(C!InstanceId)
FormerHello(id) == {m \in AnyHello : id = C!ZeroInstance \/ m.instance_id # id}

(* How many greetings of instance id a side has still to answer *)
Unanswered(h, id) ==
    IF id = C!ZeroInstance \/ h.remote_instance_id # id THEN 2
    ELSE IF h.handshake_completed THEN 0 ELSE 1

(* The Hellos that are on their way and those they can still give rise to: *)
(* a side answers each of a former instance and the first two of a present *)
(* one.  The answer of a client without a name is again one of those.      *)
HellosLeft ==
    ToServer(AnyHello) + ToClient(AnyHello)
      + ToServer(FormerHello(client.instance_id))
      + Unanswered(server.handshake, client.instance_id)
      + 2 * (ToClient(FormerHello(server.instance_id))
             + Unanswered(client.handshake, server.instance_id))

(* The steps of a side that is connected, disconnected or started, and    *)
(* those that handle a Hello                                               *)
StartsOver ==
    \/ ClientRunConnected
    \/ ClientStep /\ C!RunDisconnected
    \/ ClientCrash
    \/ ServerRunConnected
    \/ ServerStep /\ S!RunDisconnected
    \/ ServerCrash
HearsHello ==
    \/ ClientStep /\ C!RunReceived /\ Head(clientStrand).bytes \in AnyHello
    \/ ServerStep /\ S!RunReceived /\ Head(serverStrand).bytes \in AnyHello

(* Two sides that answer each other's Hellos come to an end: until one of  *)
(* them is connected, disconnected or started anew, every Hello that is    *)
(* handled brings the exchange nearer to its end by one at least, and      *)
(* nothing brings it further away, whatever is lost on the way, whatever   *)
(* former instances have left there and of whichever versions the two are. *)
HellosRunOut ==
    [][~StartsOver => /\ HellosLeft' \in 0..HellosLeft
                      /\ HearsHello => HellosLeft' < HellosLeft]_vars

(* A control that runs samples once per interval: it has one timer armed,  *)
(* as DEFAULT_SAMPLING_INTERVAL_MS and the early return of start() intend. *)
(* It does not hold: stop() disarms nothing, so that a start() before the  *)
(* old timer has expired arms a second one, and both stay.                 *)
OneTimer == running => armed <= 1

(* If from some time on both ends of the channel stay open, then           *)
ChannelStaysUp == <>[](clientLink = "connected" /\ channelValid)

(* from some time on the two sides agree,                                  *)
AgreementReached == ChannelStaysUp => <>[]Agreed

(* samples go on reaching the client, if the two agree and the sampler has *)
(* not thrown its last timer away,                                         *)
SamplesKeepComing ==
    ChannelStaysUp /\ <>[](Agreed /\ armed > 0)
    => []<>(\E i \in DOMAIN clientStrand :
                clientStrand[i] = C!Received(C!MakeCpuSample))

(* and the exchange comes to an end: two sides that answer each other's    *)
(* Hellos and errors do not do so for ever.                                *)
ExchangeEnds == ChannelStaysUp => <>[]Settled
=============================================================================
