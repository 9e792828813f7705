----------------------- MODULE ServerController_proofs -----------------------
(***************************************************************************)
(* What holds of the server's controller for every set of versions and of  *)
(* instance ids and every bound, whatever the transport reports and the    *)
(* peer sends.  The invariant is SamplingInv of ServerController.          *)
(***************************************************************************)
EXTENDS ServerController, SequenceTheorems, TLAPS

(* The methods of HandshakeState keep its type. *)
LEMMA HandshakeType ==
    /\ Reset \in HandshakeStates
    /\ \A h \in HandshakeStates : LocalHelloSent(h) \in HandshakeStates
    /\ \A h \in HandshakeStates, id \in InstanceId :
          RemoteHelloReceived(h, id) \in HandshakeStates
BY DEF Reset, LocalHelloSent, RemoteHelloReceived, HandshakeStates, InstanceId, NoInstance

(* The messages that the server sends are messages. *)
LEMMA MessageType ==
    /\ ServerAssumption => \A id \in InstanceId : MakeHello(PROTOCOL_VERSION, id) \in Message
    /\ MakeCpuSample \in Message
    /\ MakePong \in Message
    /\ MakeWrongProtocolVersionError \in Message
    /\ MakeUnsupportedMessageTypeError \in Message
BY DEF ServerAssumption, Message, MessagesWith, HelloMessages, ErrorMessages, MakeHello,
       MakeCpuSample, MakePong, MakeWrongProtocolVersionError,
       MakeUnsupportedMessageTypeError

(* A Hello carries an instance id. *)
LEMMA HelloId ==
    ASSUME NEW m \in Message, m.type = "Hello"
    PROVE  m.instance_id \in InstanceId
BY DEF Message, MessagesWith, HelloMessages, ErrorMessages, MakeTelemetryStart, MakeCpuSample,
       MakeCapabilitySet, MakePing, MakePong, MakeError,
       MakeWrongProtocolVersionError, MakeUnsupportedMessageTypeError

(* Messages whose id is of Ids are messages. *)
LEMMA MessagesOfIds == MessagesWith(Ids) \subseteq Message
BY ControllerAssumption DEF ControllerAssumption, Message, MessagesWith, HelloMessages

(* What the state machine returns is a sequence of effects. *)
LEMMA EffectsType ==
    /\ <<>> \in Seq(ServerEffect)
    /\ \A e \in ServerEffect : <<e>> \in Seq(ServerEffect)
    /\ \A d, e \in ServerEffect : <<d, e>> \in Seq(ServerEffect)
    /\ \A s, t \in Seq(ServerEffect) : s \o t \in Seq(ServerEffect)
    /\ StartTelemetryTimer \in ServerEffect
    /\ StopTelemetryTimer \in ServerEffect
    /\ \A m \in Message : SendMessage(m) \in ServerEffect
BY DEF ServerEffect, SendMessage, StartTelemetryTimer, StopTelemetryTimer

(* No two kinds of effects are the same. *)
LEMMA EffectsDiffer ==
    /\ StartTelemetryTimer # StopTelemetryTimer
    /\ \A m : SendMessage(m) \notin {StartTelemetryTimer, StopTelemetryTimer}
BY DEF StartTelemetryTimer, StopTelemetryTimer, SendMessage

(* The tasks that are posted are tasks. *)
LEMMA TasksType ==
    /\ {Connected, Disconnected, SampleReady} \subseteq Tasks
    /\ \A b \in Bytes : Received(b) \in Tasks
    /\ \A m \in Message : Send(m) \in Tasks
BY DEF Tasks, Received, Send

(* The elements of short sequences, and of what is left of a sequence when *)
(* its head is taken                                                       *)
LEMMA RangeOfShort ==
    /\ Range(<<>>) = {}
    /\ \A a : Range(<<a>>) = {a}
    /\ \A a, b : Range(<<a, b>>) = {a, b}
<1>1. Range(<<>>) = {}
  BY DEF Range
<1>2. ASSUME NEW a PROVE Range(<<a>>) = {a}
  BY DEF Range
<1>3. ASSUME NEW a, NEW b PROVE Range(<<a, b>>) = {a, b}
  BY DEF Range
<1> QED
  BY <1>1, <1>2, <1>3

LEMMA RangeOfTail ==
    ASSUME NEW S, NEW s \in Seq(S), s # <<>>
    PROVE  Range(s) = {Head(s)} \cup Range(Tail(s))
<1>1. /\ Tail(s) \in Seq(S)
      /\ Len(Tail(s)) = Len(s) - 1
      /\ \A i \in 1..Len(Tail(s)) : Tail(s)[i] = s[i + 1]
  BY HeadTailProperties
<1>2. Range(s) = {s[i] : i \in 1..Len(s)} /\ Len(s) \in Nat /\ Len(s) > 0
  BY RangeEquality, EmptySeq, LenProperties
<1>3. Range(Tail(s)) = {Tail(s)[i] : i \in 1..Len(s) - 1}
  BY <1>1, RangeEquality
<1>4. Head(s) = s[1]
  BY <1>2
<1>5. ASSUME NEW i \in 1..Len(s), i # 1 PROVE s[i] = Tail(s)[i - 1] /\ i - 1 \in 1..Len(s) - 1
  <2>1. i - 1 \in 1..Len(s) - 1
    BY <1>2, <1>5
  <2> QED
    BY <1>1, <2>1
<1>6. ASSUME NEW i \in 1..Len(s) - 1 PROVE Tail(s)[i] = s[i + 1] /\ i + 1 \in 1..Len(s)
  BY <1>1, <1>2
<1> QED
  BY <1>2, <1>3, <1>4, <1>5, <1>6

-----------------------------------------------------------------------------
(* The types of one call of doStep.  StateTyped is the part of TypeOK that *)
(* a call of doStep changes.                                               *)
StateTyped == server \in ServerStates /\ effects \in Seq(ServerEffect)

LEMMA TypeOfConnected ==
    ASSUME StateTyped, NEW id \in Ids, TransportConnected(id)
    PROVE  StateTyped'
<1>1. id \in InstanceId
  BY ControllerAssumption DEF ControllerAssumption
<1>2. server' \in ServerStates
  BY <1>1, HandshakeType DEF TransportConnected, ServerStates, ConnectionStates
<1>3. SendMessage(MakeHello(PROTOCOL_VERSION, id)) \in ServerEffect
  BY <1>1, ServerAssumption, MessageType, EffectsType
<1>4. effects' \in Seq(ServerEffect)
  BY <1>3, EffectsType DEF TransportConnected
<1> QED
  BY <1>2, <1>4 DEF StateTyped

LEMMA TypeOfHello ==
    ASSUME StateTyped, NEW m \in Message, HandleHello(m)
    PROVE  StateTyped'
<1> DEFINE h == RemoteHelloReceived(server.handshake, m.instance_id)
           hello == IF h.local_hello_needed
                    THEN <<SendMessage(MakeHello(PROTOCOL_VERSION, server.instance_id))>>
                    ELSE <<>>
           stop == IF h.handshake_completed THEN <<>> ELSE <<StopTelemetryTimer>>
<1>1. m.instance_id \in InstanceId
  BY HelloId DEF HandleHello
<1>2. server.handshake \in HandshakeStates /\ server.instance_id \in InstanceId
  BY DEF StateTyped, ServerStates
<1>3. h \in HandshakeStates /\ LocalHelloSent(h) \in HandshakeStates
  BY <1>1, <1>2, HandshakeType
<1>4. /\ server' = [server EXCEPT
                       !.handshake = LocalHelloSent(h),
                       !.telemetry_enabled =
                          server.telemetry_enabled /\ h.handshake_completed]
      /\ effects' = hello \o stop
  BY DEF HandleHello
<1>5. h.handshake_completed \in BOOLEAN
  BY <1>3 DEF HandshakeStates
<1>6. hello \in Seq(ServerEffect) /\ stop \in Seq(ServerEffect)
  BY <1>2, ServerAssumption, MessageType, EffectsType
<1> HIDE DEF h, hello, stop
<1>7. server' \in ServerStates
  BY <1>3, <1>4, <1>5 DEF StateTyped, ServerStates
<1>8. effects' \in Seq(ServerEffect)
  BY <1>4, <1>6, EffectsType
<1> QED
  BY <1>7, <1>8 DEF StateTyped

LEMMA TypeOfMessage ==
    ASSUME StateTyped, NEW m \in Message, MessageReceived(m)
    PROVE  StateTyped'
<1> USE HandshakeType, MessageType, EffectsType DEF StateTyped
<1>1. CASE HandleForeignHello(m)
  BY <1>1 DEF HandleForeignHello, ServerStates
<1>2. CASE HandleHello(m)
  BY <1>2, TypeOfHello
<1>3. CASE HandleTelemetryStart(m)
  BY <1>3 DEF HandleTelemetryStart, ServerStates
<1>4. CASE HandlePing(m)
  BY <1>4 DEF HandlePing
<1>5. CASE HandleUnsupported(m)
  BY <1>5 DEF HandleUnsupported
<1>6. CASE HandleError(m) \/ HandleCapabilitySet(m)
  BY <1>6 DEF HandleError, HandleCapabilitySet
<1> QED
  BY <1>1, <1>2, <1>3, <1>4, <1>5, <1>6 DEF MessageReceived

-----------------------------------------------------------------------------
(* What every call of doStep does to the telemetry: a start is alone and   *)
(* enables it, a stop disables it, and it is neither disabled without a    *)
(* stop nor enabled without a start.                                       *)
TelemetryStep ==
    /\ StartTelemetryTimer \in Range(effects')
       => effects' = <<StartTelemetryTimer>> /\ server'.telemetry_enabled
    /\ StopTelemetryTimer \in Range(effects') => ~server'.telemetry_enabled
    /\ server.telemetry_enabled
       => server'.telemetry_enabled \/ StopTelemetryTimer \in Range(effects')
    /\ server'.telemetry_enabled
       => server.telemetry_enabled \/ StartTelemetryTimer \in Range(effects')

LEMMA TelemetryOfHello ==
    ASSUME StateTyped, NEW m \in Message, HandleHello(m)
    PROVE  TelemetryStep
<1> DEFINE h == RemoteHelloReceived(server.handshake, m.instance_id)
           hello == IF h.local_hello_needed
                    THEN <<SendMessage(MakeHello(PROTOCOL_VERSION, server.instance_id))>>
                    ELSE <<>>
           stop == IF h.handshake_completed THEN <<>> ELSE <<StopTelemetryTimer>>
<1>1. /\ server' = [server EXCEPT
                       !.handshake = LocalHelloSent(h),
                       !.telemetry_enabled =
                          server.telemetry_enabled /\ h.handshake_completed]
      /\ effects' = hello \o stop
  BY DEF HandleHello
<1>2. hello \in Seq(ServerEffect) /\ stop \in Seq(ServerEffect)
  BY ServerAssumption, MessageType, EffectsType DEF StateTyped, ServerStates
<1>3. StartTelemetryTimer \notin Range(hello) /\ StopTelemetryTimer \notin Range(hello)
  BY RangeOfShort, EffectsDiffer
<1>4. StartTelemetryTimer \notin Range(stop)
  BY RangeOfShort, EffectsDiffer
<1>5. StopTelemetryTimer \in Range(stop) <=> ~h.handshake_completed
  BY RangeOfShort
<1> HIDE DEF h, hello, stop
<1>6. Range(effects') = Range(hello) \cup Range(stop)
  BY <1>1, <1>2, RangeConcatenation
<1>7. server'.telemetry_enabled <=> server.telemetry_enabled /\ h.handshake_completed
  BY <1>1 DEF StateTyped, ServerStates
<1> QED
  BY <1>3, <1>4, <1>5, <1>6, <1>7 DEF TelemetryStep

LEMMA TelemetryOfMessage ==
    ASSUME StateTyped, NEW m \in Message, MessageReceived(m)
    PROVE  TelemetryStep
<1> USE RangeOfShort, EffectsDiffer DEF TelemetryStep
<1>1. CASE HandleForeignHello(m)
  BY <1>1 DEF HandleForeignHello, StateTyped, ServerStates
<1>2. CASE HandleHello(m)
  BY <1>2, TelemetryOfHello
<1>3. CASE HandleTelemetryStart(m)
  BY <1>3 DEF HandleTelemetryStart, StateTyped, ServerStates
<1>4. CASE HandlePing(m)
  BY <1>4 DEF HandlePing
<1>5. CASE HandleUnsupported(m)
  BY <1>5 DEF HandleUnsupported
<1>6. CASE HandleError(m) \/ HandleCapabilitySet(m)
  BY <1>6 DEF HandleError, HandleCapabilitySet
<1> QED
  BY <1>1, <1>2, <1>3, <1>4, <1>5, <1>6 DEF MessageReceived

-----------------------------------------------------------------------------
(* The kinds of steps of the controller: a task that calls doStep, an      *)
(* effect that is handled, and steps that concern neither                  *)

(* What is left of the strand and of the effects when the head is taken *)
LEMMA TailsType ==
    ASSUME TypeOK
    PROVE  /\ strand # <<>> => Head(strand) \in Tasks /\ Tail(strand) \in Seq(Tasks)
           /\ effects # <<>> => Head(effects) \in ServerEffect
                               /\ Tail(effects) \in Seq(ServerEffect)
BY HeadTailProperties DEF TypeOK

(* posting a task *)
LEMMA PostType ==
    ASSUME TypeOK, NEW t \in Tasks, Post(t)
    PROVE  strand' \in Seq(Tasks)
BY DEF TypeOK, Post

(* A task that calls doStep keeps the invariant. *)
LEMMA EventStep ==
    ASSUME SamplingInv, effects = <<>>, UNCHANGED timerVars, TypeOK', TelemetryStep
    PROVE  SamplingInv'
<1>1. ~Pending(StartTelemetryTimer) /\ ~Pending(StopTelemetryTimer)
  BY RangeOfShort DEF SamplingInv, Pending
<1>2. StartIsAlone' /\ StopMeansDisabled'
  BY DEF TelemetryStep, StartIsAlone, StopMeansDisabled, Pending
<1>3. RunningIsArmed'
  BY DEF SamplingInv, RunningIsArmed, timerVars
<1>4. NoOrphanSampling'
  BY <1>1 DEF SamplingInv, NoOrphanSampling, TelemetryStep, Pending, timerVars
<1>5. EnabledMeansSampling'
  BY <1>1 DEF SamplingInv, EnabledMeansSampling, TelemetryStep, Pending, timerVars
<1> QED
  BY <1>2, <1>3, <1>4, <1>5 DEF SamplingInv

(* So do the steps that leave the state machine, its effects and the       *)
(* control's running flag alone and never let the last timer of a running  *)
(* control go, unless the sampler may fail.                                *)
LEMMA OtherStep ==
    ASSUME SamplingInv, TypeOK', UNCHANGED <<server, effects, running>>,
           ~SamplerMayFail /\ running /\ armed > 0 => armed' > 0
    PROVE  SamplingInv'
<1>1. StartIsAlone' /\ StopMeansDisabled' /\ NoOrphanSampling'
  BY DEF SamplingInv, StartIsAlone, StopMeansDisabled, NoOrphanSampling, Pending
<1>2. RunningIsArmed' /\ EnabledMeansSampling'
  BY DEF SamplingInv, RunningIsArmed, EnabledMeansSampling, Pending
<1> QED
  BY <1>1, <1>2 DEF SamplingInv

LEMMA HandleSendMessageStep ==
    ASSUME SamplingInv, HandleSendMessage
    PROVE  SamplingInv'
<1>1. TypeOK /\ effects # <<>> /\ effects' = Tail(effects)
  BY DEF SamplingInv, HandleSendMessage
<1>2. Head(effects).message \in Message
  BY <1>1, TailsType
  DEF HandleSendMessage, ServerEffect, StartTelemetryTimer, StopTelemetryTimer
<1>3. TypeOK'
  BY <1>1, <1>2, TailsType, TasksType, PostType DEF TypeOK, TimerTypeOK, HandleSendMessage
<1>4. Head(effects) \notin {StartTelemetryTimer, StopTelemetryTimer}
  BY DEF HandleSendMessage, StartTelemetryTimer, StopTelemetryTimer
<1>5. \A e \in {StartTelemetryTimer, StopTelemetryTimer} : Pending(e)' <=> Pending(e)
  BY <1>1, <1>4, RangeOfTail DEF Pending, TypeOK
<1>6. ~Pending(StartTelemetryTimer)
  BY <1>4 DEF SamplingInv, StartIsAlone
<1> QED
  BY <1>3, <1>5, <1>6
  DEF SamplingInv, StartIsAlone, StopMeansDisabled, RunningIsArmed, NoOrphanSampling,
      EnabledMeansSampling, HandleSendMessage

(* TimerControl::start keeps the types of the control. *)
LEMMA StartType ==
    ASSUME TimerTypeOK, Start \/ StartThrows
    PROVE  TimerTypeOK'
<1>1. CASE Start /\ running
  BY <1>1 DEF TimerTypeOK, Start
<1>2. CASE Start /\ ~running
  <2>1. armed \in Nat /\ armed' = armed + 1 /\ running' = TRUE
    BY <1>2 DEF TimerTypeOK, Start
  <2> QED
    BY <2>1 DEF TimerTypeOK
<1>3. CASE StartThrows
  BY <1>3 DEF TimerTypeOK, StartThrows, timerVars
<1> QED
  BY <1>1, <1>2, <1>3

LEMMA HandleStartStep ==
    ASSUME SamplingInv, HandleStartTelemetryTimer \/ HandleStartTelemetryTimerThrows
    PROVE  SamplingInv'
<1>1. TypeOK /\ effects # <<>> /\ Head(effects) = StartTelemetryTimer
  <2>1. TypeOK /\ effects # <<>> /\ Head(effects).effect = "StartTelemetryTimer"
    BY DEF SamplingInv, HandleStartTelemetryTimer, HandleStartTelemetryTimerThrows
  <2> QED
    BY <2>1, TailsType DEF ServerEffect, StartTelemetryTimer, StopTelemetryTimer
<1>2. Pending(StartTelemetryTimer)
  BY <1>1, RangeOfTail DEF Pending, TypeOK
<1>3. effects = <<StartTelemetryTimer>> /\ server.telemetry_enabled
  BY <1>2 DEF SamplingInv, StartIsAlone
<1>4. effects' = <<>>
  BY <1>3 DEF HandleStartTelemetryTimer, HandleStartTelemetryTimerThrows
<1>5. TypeOK'
  <2>1. TimerTypeOK'
    BY <1>1, StartType DEF TypeOK, HandleStartTelemetryTimer, HandleStartTelemetryTimerThrows
  <2>2. UNCHANGED <<server, strand>>
    BY DEF HandleStartTelemetryTimer, HandleStartTelemetryTimerThrows
  <2> QED
    BY <1>1, <1>4, <2>1, <2>2, EffectsType DEF TypeOK
<1>6. ~Pending(StartTelemetryTimer)' /\ ~Pending(StopTelemetryTimer)'
  BY <1>4, RangeOfShort DEF Pending
<1>7. server' = server
  BY DEF HandleStartTelemetryTimer, HandleStartTelemetryTimerThrows
<1>8. CASE HandleStartTelemetryTimer
  <2>1. running' = TRUE /\ (~SamplerMayFail => armed' > 0)
    BY <1>8 DEF HandleStartTelemetryTimer, Start, SamplingInv, RunningIsArmed, TypeOK,
       TimerTypeOK
  <2> QED
    BY <1>3, <1>5, <1>6, <1>7, <2>1
    DEF SamplingInv, StartIsAlone, StopMeansDisabled, RunningIsArmed, NoOrphanSampling,
        EnabledMeansSampling
<1>9. CASE HandleStartTelemetryTimerThrows
  BY <1>3, <1>5, <1>6, <1>7, <1>9
  DEF SamplingInv, StartIsAlone, StopMeansDisabled, RunningIsArmed, NoOrphanSampling,
      EnabledMeansSampling, HandleStartTelemetryTimerThrows, StartThrows, timerVars
<1> QED
  BY <1>8, <1>9

LEMMA HandleStopStep ==
    ASSUME SamplingInv, HandleStopTelemetryTimer
    PROVE  SamplingInv'
<1>1. TypeOK /\ effects # <<>> /\ Head(effects) = StopTelemetryTimer
  <2>1. TypeOK /\ effects # <<>> /\ Head(effects).effect = "StopTelemetryTimer"
    BY DEF SamplingInv, HandleStopTelemetryTimer
  <2> QED
    BY <2>1, TailsType DEF ServerEffect, StartTelemetryTimer, StopTelemetryTimer
<1>2. Range(effects) = {StopTelemetryTimer} \cup Range(effects')
  BY <1>1, RangeOfTail DEF HandleStopTelemetryTimer, TypeOK
<1>3. ~server.telemetry_enabled
  BY <1>2 DEF SamplingInv, StopMeansDisabled, Pending
<1>4. ~Pending(StartTelemetryTimer)'
  BY <1>2, <1>3 DEF SamplingInv, StartIsAlone, Pending
<1>5. TypeOK'
  BY <1>1, TailsType DEF TypeOK, TimerTypeOK, HandleStopTelemetryTimer, Stop
<1> QED
  BY <1>3, <1>4, <1>5
  DEF SamplingInv, StartIsAlone, StopMeansDisabled, RunningIsArmed, NoOrphanSampling,
      EnabledMeansSampling, HandleStopTelemetryTimer, Stop

-----------------------------------------------------------------------------
(* The steps of the three groups of actions *)

LEMMA WorkerStep ==
    ASSUME SamplingInv, Worker
    PROVE  SamplingInv'
<1>1. TypeOK /\ StateTyped
  BY DEF SamplingInv, TypeOK, StateTyped
<1>2. ASSUME NEW id \in Ids, RunConnected(id) PROVE SamplingInv'
  <2>1. StateTyped'
    BY <1>1, <1>2, TypeOfConnected DEF RunConnected
  <2>2. TypeOK'
    BY <1>1, <1>2, <2>1, TailsType DEF RunConnected, TakeTask, TypeOK, StateTyped, TimerTypeOK, timerVars
  <2>3. TelemetryStep
    BY <1>2, RangeOfShort, EffectsDiffer DEF RunConnected, TransportConnected, TelemetryStep
  <2> QED
    BY <1>2, <2>2, <2>3, EventStep DEF RunConnected, TakeTask
<1>3. CASE RunDisconnected
  <2>1. StateTyped'
    BY <1>1, <1>3, HandshakeType, EffectsType
    DEF RunDisconnected, TransportDisconnected, StateTyped, ServerStates, ConnectionStates
  <2>2. TypeOK'
    BY <1>1, <1>3, <2>1, TailsType DEF RunDisconnected, TakeTask, TypeOK, StateTyped, TimerTypeOK, timerVars
  <2>3. TelemetryStep
    BY <1>1, <1>3, RangeOfShort, EffectsDiffer
    DEF RunDisconnected, TransportDisconnected, TelemetryStep, StateTyped, ServerStates
  <2> QED
    BY <1>3, <2>2, <2>3, EventStep DEF RunDisconnected, TakeTask
<1>4. CASE RunReceived
  <2>1. StateTyped' /\ TelemetryStep
    BY <1>1, <1>4, TypeOfMessage, TelemetryOfMessage DEF RunReceived
  <2>2. TypeOK'
    BY <1>1, <1>4, <2>1, TailsType DEF RunReceived, TakeTask, TypeOK, StateTyped, TimerTypeOK, timerVars
  <2> QED
    BY <1>4, <2>1, <2>2, EventStep DEF RunReceived, TakeTask
<1>5. CASE RunSampleReady
  <2>1. StateTyped'
    BY <1>1, <1>5, MessageType, EffectsType DEF RunSampleReady, CpuSampleReady, StateTyped
  <2>2. TypeOK'
    BY <1>1, <1>5, <2>1, TailsType DEF RunSampleReady, TakeTask, TypeOK, StateTyped, TimerTypeOK, timerVars
  <2>3. TelemetryStep
    BY <1>5, RangeOfShort, EffectsDiffer DEF RunSampleReady, CpuSampleReady, TelemetryStep
  <2> QED
    BY <1>5, <2>2, <2>3, EventStep DEF RunSampleReady, TakeTask
<1>6. CASE RunUndecodable
  <2>1. TypeOK'
    BY <1>1, <1>6, TailsType DEF RunUndecodable, TakeTask, TypeOK, TimerTypeOK
  <2> QED
    BY <1>6, <2>1, OtherStep DEF RunUndecodable
<1>7. ASSUME NEW posted \in {<<>>, <<Disconnected>>}, RunSend(posted) PROVE SamplingInv'
  <2>1. posted \in Seq(Tasks)
    <3>1. CASE posted = <<>>
      BY <3>1
    <3>2. CASE posted = <<Disconnected>>
      BY <3>2, TasksType
    <3> QED
      BY <3>1, <3>2
  <2>2. TypeOK'
    BY <1>1, <1>7, <2>1, TailsType, ConcatProperties
    DEF RunSend, TakeTask, TypeOK, TimerTypeOK
  <2> QED
    BY <1>7, <2>2, OtherStep DEF RunSend
<1>8. CASE HandleSendMessage
  BY <1>8, HandleSendMessageStep
<1>9. CASE HandleStartTelemetryTimer \/ HandleStartTelemetryTimerThrows
  BY <1>9, HandleStartStep
<1>10. CASE HandleStopTelemetryTimer
  BY <1>10, HandleStopStep
<1> QED
  BY <1>2, <1>3, <1>4, <1>5, <1>6, <1>7, <1>8, <1>9, <1>10 DEF Worker

LEMMA EnvironmentStep ==
    ASSUME SamplingInv, Environment
    PROVE  SamplingInv'
<1>1. TypeOK
  BY DEF SamplingInv
<1>2. CASE PostEvent
  <2>1. TypeOK'
    BY <1>1, <1>2, TasksType, PostType DEF PostEvent, TypeOK, TimerTypeOK
  <2> QED
    BY <1>2, <2>1, OtherStep DEF PostEvent
<1>3. ASSUME NEW b \in MessagesWith(Ids) \cup {Undecodable}, PostBytes(b) PROVE SamplingInv'
  <2>1. b \in Bytes
    BY MessagesOfIds DEF Bytes
  <2>2. TypeOK'
    BY <1>1, <1>3, <2>1, TasksType, PostType DEF PostBytes, TypeOK, TimerTypeOK
  <2> QED
    BY <1>3, <2>2, OtherStep DEF PostBytes
<1> QED
  BY <1>2, <1>3 DEF Environment

LEMMA TimerStep ==
    ASSUME SamplingInv, Timer
    PROVE  SamplingInv'
<1>1. TypeOK
  BY DEF SamplingInv
<1>2. CASE TimerExpires
  <2>1. TypeOK'
    BY <1>1, <1>2, TasksType, PostType
    DEF TimerExpires, PostSample, TypeOK, TimerTypeOK, timerVars
  <2> QED
    BY <1>2, <2>1, OtherStep DEF TimerExpires, PostSample, timerVars
<1>3. CASE TimerExpiresStopped
  <2>1. TypeOK'
    BY <1>1, <1>3 DEF TimerExpiresStopped, ExpireStopped, TypeOK, TimerTypeOK
  <2> QED
    BY <1>3, <2>1, OtherStep DEF TimerExpiresStopped, ExpireStopped
<1>4. CASE TimerExpiresThrows
  <2>1. TypeOK'
    BY <1>1, <1>4 DEF TimerExpiresThrows, PostSampleThrows, TypeOK, TimerTypeOK
  <2> QED
    BY <1>4, <2>1, OtherStep DEF TimerExpiresThrows, PostSampleThrows
<1> QED
  BY <1>2, <1>3, <1>4 DEF Timer

-----------------------------------------------------------------------------
(* The steps that could leave an enabled telemetry idle, from the          *)
(* invariant                                                               *)

(* A task that calls doStep leaves the timer as it is, and enables         *)
(* telemetry only together with a start.                                   *)
LEMMA EventKeepsServed ==
    ASSUME Served, effects = <<>>, UNCHANGED timerVars, TelemetryStep
    PROVE  Served'
<1>1. ~Pending(StartTelemetryTimer)
  BY RangeOfShort DEF Pending
<1> QED
  BY <1>1 DEF Served, TelemetryStep, Pending, timerVars

(* Steps that leave the state machine and its effects alone, and stop a    *)
(* timer only if the control does not run. *)
LEMMA OtherKeepsServed ==
    ASSUME Served, UNCHANGED <<server, effects, running>>, running => armed' = armed
    PROVE  Served'
BY DEF Served, Pending

LEMMA WorkerKeepsServed ==
    ASSUME SamplingInv, Served, Worker
    PROVE  Served' \/ HandleStartTelemetryTimerThrows
<1>1. TypeOK /\ StateTyped
  BY DEF SamplingInv, TypeOK, StateTyped
<1>2. ASSUME NEW id \in Ids, RunConnected(id) PROVE Served'
  <2>1. TelemetryStep
    BY <1>2, RangeOfShort, EffectsDiffer DEF RunConnected, TransportConnected, TelemetryStep
  <2> QED
    BY <1>2, <2>1, EventKeepsServed DEF RunConnected, TakeTask
<1>3. CASE RunDisconnected
  <2>1. TelemetryStep
    BY <1>1, <1>3, RangeOfShort, EffectsDiffer
    DEF RunDisconnected, TransportDisconnected, TelemetryStep, StateTyped, ServerStates
  <2> QED
    BY <1>3, <2>1, EventKeepsServed DEF RunDisconnected, TakeTask
<1>4. CASE RunReceived
  <2>1. TelemetryStep
    BY <1>1, <1>4, TelemetryOfMessage DEF RunReceived
  <2> QED
    BY <1>4, <2>1, EventKeepsServed DEF RunReceived, TakeTask
<1>5. CASE RunSampleReady
  <2>1. TelemetryStep
    BY <1>5, RangeOfShort, EffectsDiffer DEF RunSampleReady, CpuSampleReady, TelemetryStep
  <2> QED
    BY <1>5, <2>1, EventKeepsServed DEF RunSampleReady, TakeTask
<1>6. CASE RunUndecodable
  BY <1>6, OtherKeepsServed DEF RunUndecodable
<1>7. ASSUME NEW posted \in {<<>>, <<Disconnected>>}, RunSend(posted) PROVE Served'
  BY <1>7, OtherKeepsServed DEF RunSend
<1>8. CASE HandleSendMessage
  <2>1. effects # <<>> /\ effects' = Tail(effects)
    BY <1>8 DEF HandleSendMessage
  <2>2. Head(effects) # StartTelemetryTimer
    BY <1>8 DEF HandleSendMessage, StartTelemetryTimer
  <2>3. Pending(StartTelemetryTimer)' <=> Pending(StartTelemetryTimer)
    BY <1>1, <2>1, <2>2, RangeOfTail DEF Pending, TypeOK
  <2> QED
    BY <1>8, <2>3 DEF Served, HandleSendMessage
<1>9. CASE HandleStartTelemetryTimer
  <2>1. running' = TRUE /\ armed' > 0
    BY <1>1, <1>9 DEF HandleStartTelemetryTimer, Start, Served, TypeOK, TimerTypeOK
  <2> QED
    BY <2>1 DEF Served
<1>10. CASE HandleStopTelemetryTimer
  <2>1. effects # <<>> /\ Head(effects) = StopTelemetryTimer
    <3>1. effects # <<>> /\ Head(effects).effect = "StopTelemetryTimer"
      BY <1>10 DEF HandleStopTelemetryTimer
    <3> QED
      BY <1>1, <3>1, TailsType DEF ServerEffect, StartTelemetryTimer, StopTelemetryTimer
  <2>2. Pending(StopTelemetryTimer)
    BY <1>1, <2>1, RangeOfTail DEF Pending, TypeOK
  <2>3. ~server.telemetry_enabled
    BY <2>2 DEF SamplingInv, StopMeansDisabled
  <2> QED
    BY <1>10, <2>3 DEF Served, HandleStopTelemetryTimer, Stop
<1> QED
  BY <1>2, <1>3, <1>4, <1>5, <1>6, <1>7, <1>8, <1>9, <1>10 DEF Worker

LEMMA TimerKeepsServed ==
    ASSUME Served, Timer
    PROVE  Served' \/ TimerExpiresThrows
<1>1. CASE TimerExpires
  BY <1>1, OtherKeepsServed DEF TimerExpires, PostSample, timerVars
<1>2. CASE TimerExpiresStopped
  BY <1>2, OtherKeepsServed DEF TimerExpiresStopped, ExpireStopped
<1> QED
  BY <1>1, <1>2 DEF Timer

LEMMA EnvironmentKeepsServed ==
    ASSUME Served, Environment
    PROVE  Served'
<1>1. UNCHANGED <<server, effects, running, armed>>
  BY DEF Environment, PostEvent, PostBytes
<1> QED
  BY <1>1, OtherKeepsServed

-----------------------------------------------------------------------------
LEMMA SamplingInvInitially == Init => SamplingInv
<1> SUFFICES ASSUME Init PROVE SamplingInv
  OBVIOUS
<1>1. TypeOK
  <2>1. server \in ServerStates
    BY HandshakeType
    DEF Init, InitialServer, ServerStates, ConnectionStates, InstanceId, ZeroInstance
  <2>2. TimerTypeOK /\ effects = <<>> /\ strand = <<>>
    BY DEF Init, TimerInit, TimerTypeOK
  <2> QED
    BY <2>1, <2>2 DEF TypeOK
<1>2. \A e : ~Pending(e)
  BY RangeOfShort DEF Init, Pending
<1> QED
  BY <1>1, <1>2
  DEF Init, InitialServer, TimerInit, SamplingInv, StartIsAlone, StopMeansDisabled,
      RunningIsArmed, NoOrphanSampling, EnabledMeansSampling

(* The invariant of the telemetry. *)
THEOREM ServerSamplingInvariant == Spec => []SamplingInv
<1>1. SamplingInv /\ [Next]_controllerVars => SamplingInv'
  <2> SUFFICES ASSUME SamplingInv, [Next]_controllerVars PROVE SamplingInv'
    OBVIOUS
  <2>1. CASE Next
    BY <2>1, WorkerStep, EnvironmentStep, TimerStep DEF Next
  <2>2. CASE UNCHANGED controllerVars
    <3>1. TypeOK'
      BY <2>2 DEF controllerVars, SamplingInv, TypeOK, TimerTypeOK
    <3> QED
      BY <2>2, <3>1, OtherStep DEF controllerVars
  <2> QED
    BY <2>1, <2>2
<1> QED
  BY <1>1, SamplingInvInitially, PTL DEF Spec

(* The server's controller keeps its types. *)
THEOREM ServerTypeCorrect == Spec => []TypeOK
<1>1. SamplingInv => TypeOK
  BY DEF SamplingInv
<1> QED
  BY <1>1, ServerSamplingInvariant, PTL

(* The sampling does not outlive the wish for it. *)
THEOREM ServerNoOrphanSampling == Spec => []NoOrphanSampling
<1>1. SamplingInv => NoOrphanSampling
  BY DEF SamplingInv
<1> QED
  BY <1>1, ServerSamplingInvariant, PTL

(* An accepted request for telemetry is served. *)
THEOREM ServerEnabledMeansSampling == Spec => []EnabledMeansSampling
<1>1. SamplingInv => EnabledMeansSampling
  BY DEF SamplingInv
<1> QED
  BY <1>1, ServerSamplingInvariant, PTL

(* Nothing but an exception of the sampler makes an enabled telemetry idle. *)
THEOREM ServerOnlyThrowsStopSampling == Spec => OnlyThrowsStopSampling
<1>1. SamplingInv /\ [Next]_controllerVars
      => [Served => \/ Served'
                    \/ TimerExpiresThrows
                    \/ HandleStartTelemetryTimerThrows]_controllerVars
  <2> SUFFICES ASSUME SamplingInv, Next, Served
               PROVE  \/ Served'
                      \/ TimerExpiresThrows
                      \/ HandleStartTelemetryTimerThrows
    OBVIOUS
  <2> QED
    BY WorkerKeepsServed, TimerKeepsServed, EnvironmentKeepsServed DEF Next
<1> QED
  BY <1>1, ServerSamplingInvariant, PTL DEF Spec, OnlyThrowsStopSampling
=============================================================================
