--------------------------- MODULE MstscTransport ---------------------------
(***************************************************************************)
(* The client's transport, src/transport/mstsc_transport.cpp: a plug-in    *)
(* that the RDP client, the host, calls back.  The host's thread delivers  *)
(* the connection's events, another thread its data, and the worker sends. *)
(*                                                                         *)
(* The code has each function twice, for the Windows client and for        *)
(* FreeRDP (...Ex).  They differ in what becomes of a buffer that was      *)
(* handed to the host.  The host is modelled as the code uses it: it has   *)
(* one channel open at a time and initialises the plug-in once.            *)
(***************************************************************************)
EXTENDS Integers, Sequences

CONSTANTS Handles,      (* open handles; the host may give one out again   *)
          NoHandle,     (* open_handle_ before the first open              *)
          Buffers,      (* the buffers of send                             *)
          MaxFragments, (* of how many chunks a message to the client may  *)
                        (* consist                                         *)
          FreeRDP,      (* which build                                     *)
          MaxPosts      (* no events after so many                         *)

VARIABLES place,        (* where the host's thread is                      *)
          openHandle,   (* open_handle_                                    *)
          registered,   (* g_open_instances: handles with an instance      *)
          rest,         (* chunks of the current message still to come     *)
          split,        (* whether the current message has several         *)
          posts,        (* what the handlers have posted                   *)
          sending,      (* the buffers of a send that has not returned     *)
          pending,      (* pending_writes_                                 *)
          atHost        (* buffers that the host has yet to write          *)

host == <<place, openHandle, registered>>
data == <<rest, split>>
buffers == <<sending, pending, atHost>>
vars == <<host, data, posts, buffers>>

(* "down": initialised, and not connected; "opened", "registered": in the  *)
(* middle of CHANNEL_EVENT_CONNECTED; "refused": connected, and the        *)
(* channel could not be opened                                             *)
Places == {"out", "down", "opened", "registered", "connected", "refused"}
HostHasOpen == place \in {"opened", "registered", "connected"}
Found == openHandle \in registered

(* What the controller is given of a message: all, or its last chunk *)
Bytes == {"whole", "lastChunk"}

Link == INSTANCE ClientLink
          WITH link <- IF place = "connected" THEN "connected"
                       ELSE IF ~HostHasOpen THEN "closed"
                       ELSE IF Found THEN "opened" ELSE "opening"

ASSUME MstscAssumption ==
    /\ NoHandle \notin Handles
    /\ MaxFragments \in Nat \ {0}
    /\ FreeRDP \in BOOLEAN
    /\ MaxPosts \in Nat

TypeOK ==
    /\ place \in Places
    /\ openHandle \in Handles \cup {NoHandle}
    /\ registered \subseteq Handles
    /\ rest \in 0..(MaxFragments - 1)
    /\ split \in BOOLEAN
    /\ sending \subseteq Buffers
    /\ pending \subseteq Buffers
    /\ atHost \subseteq Buffers

Init ==
    /\ place = "out" /\ openHandle = NoHandle /\ registered = {}
    /\ rest = 0 /\ split = FALSE
    /\ posts = <<>>
    /\ sending = {} /\ pending = {} /\ atHost = {}

Unposted == Len(posts) < MaxPosts

-----------------------------------------------------------------------------
(* The host's thread *)

(* virtualChannelEntry(Ex): the instance is registered for the init        *)
(* handle, and the host may call it from now on                            *)
Entry ==
    /\ place = "out"
    /\ place' = "down"
    /\ UNCHANGED <<openHandle, registered, data, posts, buffers>>

(* CHANNEL_EVENT_CONNECTED: pVirtualChannelOpen(Ex) sets open_handle_, *)
OpenSucceeds ==
    /\ place = "down"
    /\ Unposted
    /\ openHandle' \in Handles
    /\ place' = "opened"
    /\ UNCHANGED <<registered, data, posts, buffers>>

(* An open that fails unnoticed, for the mutation runs *)
AfterFailedOpenGoesOn == "opened"
AfterFailedOpen == "refused"

OpenFails ==
    /\ place = "down"
    /\ Unposted
    /\ place' = AfterFailedOpen
    /\ UNCHANGED <<openHandle, registered, data, posts, buffers>>

(* A registration that keeps the handle of the first connection, for the   *)
(* mutation runs                                                           *)
RegistersOnce == IF registered = {} THEN {openHandle} ELSE registered
Registers == registered \cup {openHandle}

(* registerOpenHandle, for good, *)
RegisterOpenHandle ==
    /\ place = "opened"
    /\ registered' = Registers
    /\ place' = "registered"
    /\ UNCHANGED <<openHandle, data, posts, buffers>>

(* and connected_handler_() *)
Notify ==
    /\ place = "registered"
    /\ place' = "connected"
    /\ posts' = Append(posts, Link!Connected)
    /\ UNCHANGED <<openHandle, registered, data, buffers>>

(* CHANNEL_EVENT_DISCONNECTED.  The code neither closes nor forgets the    *)
(* open handle.                                                            *)
Disconnect ==
    /\ place \in {"connected", "refused"}
    /\ place' = "down"
    /\ rest' = 0
    /\ posts' = Append(posts, Link!Disconnected)
    /\ UNCHANGED <<openHandle, registered, split, buffers>>

-----------------------------------------------------------------------------
(* The host's data thread: CHANNEL_EVENT_DATA_RECEIVED, chunk by chunk     *)

(* OpenEventThunk(Ex) finds the instance, and onOpenEvent(Ex) passes on    *)
(* the last chunk, with nothing of those before it                         *)
PassesOnLast(last) == Found /\ last

Chunk ==
    /\ HostHasOpen
    /\ Unposted
    /\ IF rest = 0
         THEN \E n \in 1..MaxFragments : rest' = n - 1 /\ split' = (n > 1)
         ELSE rest' = rest - 1 /\ split' = split
    /\ posts' = IF PassesOnLast(rest' = 0)
                  THEN Append(posts, Link!Received(IF split' THEN "lastChunk" ELSE "whole"))
                  ELSE posts
    /\ UNCHANGED <<host, buffers>>

-----------------------------------------------------------------------------
(* The worker: send.  It is not asked whether there is a channel. *)

(* Buffers go when nobody owns them: FreeRDP's are owned by pending_writes_ *)
Owned == sending \cup pending

Send ==
    /\ sending = {}
    /\ \E b \in Buffers \ (Owned \cup atHost) :
           /\ sending' = {b}
           /\ pending' = IF FreeRDP THEN pending \cup {b} ELSE pending
    /\ UNCHANGED <<host, data, posts, atHost>>

(* A send that erases its buffer in any case, for the mutation runs *)
ErasesIt == pending' = pending \ sending
KeepsIt == UNCHANGED pending

(* pVirtualChannelWrite(Ex) takes the buffer and send returns, *)
WriteAccepted ==
    /\ sending # {}
    /\ HostHasOpen
    /\ atHost' = atHost \cup sending
    /\ sending' = {}
    /\ KeepsIt
    /\ UNCHANGED <<host, data, posts>>

(* or refuses it, as it does with the handle of a former connection        *)
WriteRefused ==
    /\ sending # {}
    /\ pending' = pending \ sending
    /\ sending' = {}
    /\ UNCHANGED <<host, data, posts, atHost>>

(* CHANNEL_EVENT_WRITE_COMPLETE or _CANCELLED.  The event carries the null *)
(* that send gave as user data, so that FreeRDP's handler erases nothing   *)
(* from pending_writes_, and the Windows handler does not try.             *)
WriteEnds ==
    /\ \E b \in atHost : atHost' = atHost \ {b}
    /\ UNCHANGED <<host, data, posts, sending, pending>>

-----------------------------------------------------------------------------
Next ==
    \/ Entry \/ OpenSucceeds \/ OpenFails \/ RegisterOpenHandle
    \/ Notify \/ Disconnect \/ Chunk
    \/ Send \/ WriteAccepted \/ WriteRefused \/ WriteEnds

Spec == Init /\ [][Next]_vars
-----------------------------------------------------------------------------
(* The transport posts what Session assumes of it, in that order: although *)
(* data and connection events come from two threads, a handle that was     *)
(* registered for a former connection is found before the new Connected,   *)
(* and an open may fail.                                                   *)
ImplementsLink == Link!Spec

(* On FreeRDP the host never has a buffer that send has destroyed, however *)
(* its completions, refusals and reconnections fall between the sends.     *)
(* (The Windows build destroys the buffer when send returns.)              *)
BuffersOutliveWrites == FreeRDP => atHost \subseteq pending

(* From the end of the registration on, data finds its instance.           *)
ConnectedIsFound == place \in {"registered", "connected"} => Found
=============================================================================
