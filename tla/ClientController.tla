-------------------------- MODULE ClientController --------------------------
(***************************************************************************)
(* The client's Controller (src/logic/client/controller.h): transport      *)
(* handlers post tasks to the executor's strand; its one worker runs a     *)
(* task at a time, and a task that steps the state machine then handles    *)
(* the effects one after the other.  A send is a task of its own.          *)
(*                                                                         *)
(* strand is the queue of tasks; effects is what is left of the effects    *)
(* the running task has to handle, <<>> when the worker is between tasks.  *)
(***************************************************************************)
EXTENDS ClientStateMachine

VARIABLE strand

controllerVars == <<client, effects, strand>>

Connected == [task |-> "Connected"]
Disconnected == [task |-> "Disconnected"]
Received(b) == [task |-> "Received", bytes |-> b]
Send(b) == [task |-> "Send", bytes |-> b]

(* Bytes that Serializer::deserialize answers with an exception *)
Undecodable == [type |-> "Undecodable"]
Bytes == Message \cup {Undecodable}

Tasks ==
    {Connected, Disconnected}
        \cup [task : {"Received"}, bytes : Bytes]
        \cup [task : {"Send"}, bytes : Message]

ControllerTypeOK == TypeOK /\ strand \in Seq(Tasks)

ControllerInit == Init /\ strand = <<>>

(* executor_.post(t) *)
Post(t) == strand' = Append(strand, t)

-----------------------------------------------------------------------------
(* The worker takes the next task, one of the given kind *)
TakeTask(kind) ==
    /\ effects = <<>>
    /\ strand # <<>>
    /\ Head(strand).task = kind

RunConnected(id) ==
    /\ TakeTask("Connected")
    /\ strand' = Tail(strand)
    /\ TransportConnected(id)

RunDisconnected ==
    /\ TakeTask("Disconnected")
    /\ strand' = Tail(strand)
    /\ TransportDisconnected

RunReceived ==
    /\ TakeTask("Received")
    /\ Head(strand).bytes \in Message
    /\ strand' = Tail(strand)
    /\ MessageReceived(Head(strand).bytes)

(* deserialize throws; Executor::executeTask logs it and goes on *)
RunUndecodable ==
    /\ TakeTask("Received")
    /\ Head(strand).bytes = Undecodable
    /\ strand' = Tail(strand)
    /\ UNCHANGED clientVars

(* A send task, without the call to transport_.send *)
RunSend ==
    /\ TakeTask("Send")
    /\ strand' = Tail(strand)
    /\ UNCHANGED clientVars

-----------------------------------------------------------------------------
(* handleEffect(SendMessageEffect) *)
HandleSendMessage ==
    /\ effects # <<>>
    /\ Head(effects).effect = "SendMessage"
    /\ Post(Send(Head(effects).message))
    /\ effects' = Tail(effects)
    /\ UNCHANGED client

(* handleEffect(StopPingEffect): empty *)
HandleStopPing ==
    /\ effects # <<>>
    /\ Head(effects).effect = "StopPing"
    /\ effects' = Tail(effects)
    /\ UNCHANGED <<client, strand>>
=============================================================================
