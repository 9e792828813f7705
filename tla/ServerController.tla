-------------------------- MODULE ServerController --------------------------
(***************************************************************************)
(* The server's Controller (src/logic/server/controller.h) with the        *)
(* telemetry timer it starts and stops.  As on the client, handlers post   *)
(* tasks to the strand, whose worker runs one task at a time; an expired   *)
(* timer is run by the same worker between two tasks.                      *)
(*                                                                         *)
(* The specification of this module lets the transport post any event at   *)
(* any time, and the peer send anything; Session restricts both.           *)
(***************************************************************************)
EXTENDS ServerStateMachine, TimerControl, FiniteSets, Functions

CONSTANTS Ids,        (* the instance ids that can occur                   *)
          MaxStrand,  (* the environment posts while fewer tasks wait      *)
          MaxArmed    (* and asks for telemetry while fewer timers are     *)
                      (* armed or about to be                              *)

ASSUME ControllerAssumption ==
    /\ Ids \subseteq InstanceId
    /\ MaxStrand \in Nat
    /\ MaxArmed \in Nat

VARIABLE strand

controllerVars == <<server, effects, strand, running, armed>>

Connected == [task |-> "Connected"]
Disconnected == [task |-> "Disconnected"]
SampleReady == [task |-> "SampleReady"]
Received(b) == [task |-> "Received", bytes |-> b]
Send(b) == [task |-> "Send", bytes |-> b]

(* Bytes that Serializer::deserialize answers with an exception *)
Undecodable == [type |-> "Undecodable"]
Bytes == Message \cup {Undecodable}

Tasks ==
    {Connected, Disconnected, SampleReady}
        \cup [task : {"Received"}, bytes : Bytes]
        \cup [task : {"Send"}, bytes : Message]

TypeOK ==
    /\ server \in ServerStates
    /\ effects \in Seq(ServerEffect)
    /\ strand \in Seq(Tasks)
    /\ TimerTypeOK

Init ==
    /\ server = InitialServer
    /\ effects = <<>>
    /\ strand = <<>>
    /\ TimerInit

(* A post that overtakes the tasks that wait, for the mutation runs *)
PostAhead(t) == strand' = <<t>> \o strand

(* executor_.post(t) *)
Post(t) == strand' = Append(strand, t)

-----------------------------------------------------------------------------
(* The worker takes the next task, one of the given kind *)
TakeTask(kind) ==
    /\ effects = <<>>
    /\ strand # <<>>
    /\ Head(strand).task = kind

RunConnected(id) ==
    /\ TakeTask("Connected")
    /\ strand' = Tail(strand)
    /\ TransportConnected(id)
    /\ UNCHANGED timerVars

RunDisconnected ==
    /\ TakeTask("Disconnected")
    /\ strand' = Tail(strand)
    /\ TransportDisconnected
    /\ UNCHANGED timerVars

RunReceived ==
    /\ TakeTask("Received")
    /\ Head(strand).bytes \in Message
    /\ strand' = Tail(strand)
    /\ MessageReceived(Head(strand).bytes)
    /\ UNCHANGED timerVars

(* deserialize throws; Executor::executeTask logs it and goes on *)
RunUndecodable ==
    /\ TakeTask("Received")
    /\ Head(strand).bytes = Undecodable
    /\ strand' = Tail(strand)
    /\ UNCHANGED <<server, effects, running, armed>>

RunSampleReady ==
    /\ TakeTask("SampleReady")
    /\ strand' = Tail(strand)
    /\ CpuSampleReady
    /\ UNCHANGED timerVars

(* A send task.  What transport_.send does to the channel is not part of   *)
(* this module; posted are the tasks that its handlers append meanwhile.   *)
RunSend(posted) ==
    /\ TakeTask("Send")
    /\ strand' = Tail(strand) \o posted
    /\ UNCHANGED <<server, effects, running, armed>>

-----------------------------------------------------------------------------
(* handleEffect(SendMessageEffect) *)
HandleSendMessage ==
    /\ effects # <<>>
    /\ Head(effects).effect = "SendMessage"
    /\ Post(Send(Head(effects).message))
    /\ effects' = Tail(effects)
    /\ UNCHANGED <<server, running, armed>>

(* handleEffect(StartTelemetryTimerEffect) *)
HandleStartTelemetryTimer ==
    /\ effects # <<>>
    /\ Head(effects).effect = "StartTelemetryTimer"
    /\ Start
    /\ effects' = Tail(effects)
    /\ UNCHANGED <<server, strand>>

(* handleEffect(StartTelemetryTimerEffect), telemetry_.start() throws: the *)
(* exception leaves handleEffects, and the effects after it are lost       *)
HandleStartTelemetryTimerThrows ==
    /\ effects # <<>>
    /\ Head(effects).effect = "StartTelemetryTimer"
    /\ StartThrows
    /\ effects' = <<>>
    /\ UNCHANGED <<server, strand>>

(* handleEffect(StopTelemetryTimerEffect) *)
HandleStopTelemetryTimer ==
    /\ effects # <<>>
    /\ Head(effects).effect = "StopTelemetryTimer"
    /\ Stop
    /\ effects' = Tail(effects)
    /\ UNCHANGED <<server, strand>>

-----------------------------------------------------------------------------
(* The handlers of expired timers.  The sample handler of linkHandlers     *)
(* posts the sample.                                                       *)
TimerExpires ==
    /\ effects = <<>>
    /\ PostSample
    /\ Post(SampleReady)
    /\ UNCHANGED <<server, effects>>

TimerExpiresStopped ==
    /\ effects = <<>>
    /\ ExpireStopped
    /\ UNCHANGED <<server, effects, strand>>

TimerExpiresThrows ==
    /\ effects = <<>>
    /\ PostSampleThrows
    /\ UNCHANGED <<server, effects, strand>>

-----------------------------------------------------------------------------
(* An environment that posts at will, within the bounds *)
PendingStarts ==
    Cardinality({i \in DOMAIN strand : strand[i] = Received(MakeTelemetryStart)})
        + Cardinality({i \in DOMAIN effects : effects[i] = StartTelemetryTimer})

PostEvent ==
    /\ Len(strand) < MaxStrand
    /\ Post(Connected) \/ Post(Disconnected)
    /\ UNCHANGED <<server, effects, running, armed>>

PostBytes(b) ==
    /\ Len(strand) < MaxStrand
    /\ b = MakeTelemetryStart => armed + PendingStarts < MaxArmed
    /\ Post(Received(b))
    /\ UNCHANGED <<server, effects, running, armed>>

Environment ==
    \/ PostEvent
    \/ \E b \in MessagesWith(Ids) \cup {Undecodable} : PostBytes(b)

Worker ==
    \/ \E id \in Ids : RunConnected(id)
    \/ RunDisconnected
    \/ RunReceived
    \/ RunUndecodable
    \/ RunSampleReady
    \/ \E posted \in {<<>>, <<Disconnected>>} : RunSend(posted)
    \/ HandleSendMessage
    \/ HandleStartTelemetryTimer
    \/ HandleStartTelemetryTimerThrows
    \/ HandleStopTelemetryTimer

Timer ==
    \/ Len(strand) < MaxStrand /\ TimerExpires
    \/ TimerExpiresStopped
    \/ TimerExpiresThrows

Next == Environment \/ Worker \/ Timer

Spec == Init /\ [][Next]_controllerVars

-----------------------------------------------------------------------------
(* The running task still has effect e to handle *)
Pending(e) == e \in Range(effects)

(* The sampling does not outlive the wish for it: whenever telemetry is    *)
(* not enabled, the timer is stopped or the running task is about to stop  *)
(* it, whatever the order of disconnects, Hellos and requests, and even if *)
(* the sampler throws in the middle of an effect.                          *)
NoOrphanSampling ==
    running => server.telemetry_enabled \/ Pending(StopTelemetryTimer)

(* A server that has accepted a TelemetryStart is really sampling: the     *)
(* control runs and a timer of it is armed, or the running task is about   *)
(* to start it.  A sampler that throws breaks this, see the README.        *)
EnabledMeansSampling ==
    ~SamplerMayFail /\ server.telemetry_enabled /\ ~Pending(StartTelemetryTimer)
    => running /\ armed > 0

(* What start, stop and the expiring timers keep of it, also with a        *)
(* sampler that may throw: nothing but an exception of the sampler makes   *)
(* an enabled telemetry idle, whatever is connected, greeted, stopped and  *)
(* started in between.                                                     *)
Served ==
    /\ server.telemetry_enabled /\ ~Pending(StartTelemetryTimer) => running
    /\ running => armed > 0
OnlyThrowsStopSampling ==
    [][Served => \/ Served'
                 \/ TimerExpiresThrows
                 \/ HandleStartTelemetryTimerThrows]_controllerVars

-----------------------------------------------------------------------------
(* What these properties rest on *)

(* A StartTelemetryTimer is the only effect of its step, and follows the   *)
(* acceptance of a telemetry request.                                      *)
StartIsAlone ==
    Pending(StartTelemetryTimer)
    => effects = <<StartTelemetryTimer>> /\ server.telemetry_enabled

(* The timer is never stopped while telemetry is enabled. *)
StopMeansDisabled == Pending(StopTelemetryTimer) => ~server.telemetry_enabled

(* A control that runs has a timer armed, if the sampler cannot throw. *)
RunningIsArmed == ~SamplerMayFail /\ running => armed > 0

SamplingInv ==
    /\ TypeOK
    /\ StartIsAlone
    /\ StopMeansDisabled
    /\ RunningIsArmed
    /\ NoOrphanSampling
    /\ EnabledMeansSampling
=============================================================================
