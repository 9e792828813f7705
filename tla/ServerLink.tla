----------------------------- MODULE ServerLink -----------------------------
(***************************************************************************)
(* What WtsTransport (src/transport/wts_transport.cpp) promises its        *)
(* controller: which event it posts when, and what of the channel the      *)
(* reader thread and the worker can see of each other.  Session is built   *)
(* on these actions; WtsTransport, with its mutex, flags and handles, is   *)
(* shown to implement this specification.                                  *)
(*                                                                         *)
(* The reader of run() opens the channel, calls the connected handler,     *)
(* reads, delivers.  Either thread may close the channel, and each calls   *)
(* the disconnected handler only after it has left the mutex: until then   *)
(* the other one may go on.                                                *)
(***************************************************************************)
EXTENDS Integers, Sequences

CONSTANT Bytes      (* what a read can return                              *)

VARIABLES channelValid,  (* channel_.valid()                               *)
          reader,        (* where the thread in run() is                   *)
          inHand,        (* the bytes readOnce has read and not passed on  *)
          reporting,     (* the worker has closed the channel and has not  *)
                         (* called the disconnected handler yet            *)
          posts          (* what the handlers have posted                  *)

linkVars == <<channelValid, reader, inHand, reporting>>

Connected == [task |-> "Connected"]
Disconnected == [task |-> "Disconnected"]
Received(b) == [task |-> "Received", bytes |-> b]

Nothing == [type |-> "Nothing"]
ReaderPlaces == {"opening", "notify", "reading", "deliver", "report"}

LinkTypeOK ==
    /\ channelValid \in BOOLEAN
    /\ reader \in ReaderPlaces
    /\ inHand \in Bytes \cup {Nothing}
    /\ reporting \in BOOLEAN

LinkInit ==
    /\ channelValid = FALSE
    /\ reader = "opening"
    /\ inHand = Nothing
    /\ reporting = FALSE

Init == LinkInit /\ posts = <<>>

(* A post that overtakes those before it, for the mutation runs *)
PostAhead(t) == posts' = <<t>> \o posts
Post(t) == posts' = Append(posts, t)

-----------------------------------------------------------------------------
(* The reader thread *)

(* tryOpenChannel: WtsChannelHandle::open has succeeded *)
Open ==
    /\ reader = "opening"
    /\ channelValid' = TRUE
    /\ reader' = "notify"
    /\ UNCHANGED <<inHand, reporting, posts>>

(* the end of tryOpenChannel, connected_handler_(): called without the     *)
(* mutex, and even if the worker has closed the channel in the meantime    *)
Notify ==
    /\ reader = "notify"
    /\ reader' = "reading"
    /\ Post(Connected)
    /\ UNCHANGED <<channelValid, inHand, reporting>>

(* readOnce up to the bytes in the buffer *)
Read(b) ==
    /\ reader = "reading"
    /\ channelValid
    /\ inHand' = b
    /\ reader' = "deliver"
    /\ UNCHANGED <<channelValid, reporting, posts>>

(* the end of readOnce, bytes_handler_() *)
Deliver ==
    /\ reader = "deliver"
    /\ reader' = "reading"
    /\ Post(Received(inHand))
    /\ inHand' = Nothing
    /\ UNCHANGED <<channelValid, reporting>>

(* readOnce finds running_ cleared and throws the bytes away *)
Discard ==
    /\ reader = "deliver"
    /\ reader' = "reading"
    /\ inHand' = Nothing
    /\ UNCHANGED <<channelValid, reporting, posts>>

(* readOnce fails, and run() calls closeChannel *)
ReadFails ==
    /\ reader = "reading"
    /\ channelValid
    /\ channelValid' = FALSE
    /\ reader' = "report"
    /\ UNCHANGED <<inHand, reporting, posts>>

(* the end of closeChannel, disconnected_handler_(), in the reader *)
ReaderReports ==
    /\ reader = "report"
    /\ reader' = "opening"
    /\ Post(Disconnected)
    /\ UNCHANGED <<channelValid, inHand, reporting>>

(* readOnce finds the channel closed by the worker: closeChannel has       *)
(* nothing to report                                                       *)
ReadFindsClosed ==
    /\ reader = "reading"
    /\ ~channelValid
    /\ reader' = "opening"
    /\ UNCHANGED <<channelValid, inHand, reporting, posts>>

-----------------------------------------------------------------------------
(* The worker, in send *)

(* WTSVirtualChannelWrite fails, and closeChannel closes the channel *)
SendFails ==
    /\ ~reporting
    /\ channelValid
    /\ channelValid' = FALSE
    /\ reporting' = TRUE
    /\ UNCHANGED <<reader, inHand>>

(* the end of closeChannel, disconnected_handler_(), in the worker *)
WorkerReports ==
    /\ reporting
    /\ reporting' = FALSE
    /\ Post(Disconnected)
    /\ UNCHANGED <<channelValid, reader, inHand>>

-----------------------------------------------------------------------------
Next ==
    \/ Open \/ Notify \/ Deliver \/ Discard
    \/ \E b \in Bytes : Read(b)
    \/ ReadFails \/ ReaderReports \/ ReadFindsClosed
    \/ SendFails /\ UNCHANGED posts
    \/ WorkerReports

Spec == Init /\ [][Next]_<<linkVars, posts>>
=============================================================================
