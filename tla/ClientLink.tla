----------------------------- MODULE ClientLink -----------------------------
(***************************************************************************)
(* What MstscTransport (src/transport/mstsc_transport.cpp) promises its    *)
(* controller: which event it posts when.  Session is built on these       *)
(* actions; MstscTransport is shown to implement this specification.       *)
(***************************************************************************)
EXTENDS Integers, Sequences

CONSTANT Bytes      (* what the host can hand over                         *)

VARIABLES link,     (* "closed"; "opening": the handle is open and data    *)
                    (* does not find its instance; "opened": it does, and  *)
                    (* connected_handler_ is still to come; "connected"    *)
          posts     (* what the handlers have posted                       *)

Connected == [task |-> "Connected"]
Disconnected == [task |-> "Disconnected"]
Received(b) == [task |-> "Received", bytes |-> b]

LinkStates == {"closed", "opening", "opened", "connected"}

Init == link = "closed" /\ posts = <<>>

Post(t) == posts' = Append(posts, t)

(* CHANNEL_EVENT_CONNECTED: pVirtualChannelOpen has succeeded, and sends  *)
(* reach the channel.  Data finds its instance from here on only if the    *)
(* handle is one of a former connection; otherwise the host's data is lost *)
Open ==
    /\ link = "closed"
    /\ link' \in {"opening", "opened"}
    /\ UNCHANGED posts

(* until registerOpenHandle has returned,                                  *)
Register ==
    /\ link = "opening"
    /\ link' = "opened"
    /\ UNCHANGED posts

(* and connected_handler_() is called *)
Notify ==
    /\ link = "opened"
    /\ link' = "connected"
    /\ Post(Connected)

(* CHANNEL_EVENT_DISCONNECTED, of a channel that could not be opened too *)
Disconnect ==
    /\ link \in {"closed", "connected"}
    /\ link' = "closed"
    /\ Post(Disconnected)

(* CHANNEL_EVENT_DATA_RECEIVED *)
Receive(b) ==
    /\ link \in {"opened", "connected"}
    /\ Post(Received(b))
    /\ UNCHANGED link

Next == Open \/ Register \/ Notify \/ Disconnect \/ \E b \in Bytes : Receive(b)

Spec == Init /\ [][Next]_<<link, posts>>
=============================================================================
