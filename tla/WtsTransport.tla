---------------------------- MODULE WtsTransport ----------------------------
(***************************************************************************)
(* The server's transport, src/transport/wts_transport.cpp, with the       *)
(* handle it owns, src/transport/wrappers/wts_channel_handle.cpp.          *)
(*                                                                         *)
(* Two threads and a flag: the reader is the thread in run(), the worker   *)
(* is the strand that calls send() and close(), and anybody may call       *)
(* stop().  A step is a critical section of mutex_, a look at running_, a  *)
(* load of the handle outside the mutex, a call of the operating system,   *)
(* or a call of a handler.                                                 *)
(***************************************************************************)
EXTENDS Integers, Sequences, FiniteSets

CONSTANTS Handles,      (* the values a channel handle can have; a value   *)
                        (* that was closed may be given out again          *)
          NoHandle,     (* nullptr                                         *)
          Bytes,        (* what a read can return                          *)
          ReadTimesOut, (* whether a read with no data returns (Linux), or *)
                        (* waits for data or the handle's end (Windows)    *)
          MaxPosts      (* no opens and reads after so many events         *)

VARIABLES osOpen,       (* the handles the operating system holds open     *)
          channel,      (* channel_                                        *)
          state,        (* state_                                          *)
          running,      (* running_                                        *)
          rpc,          (* where the reader is                             *)
          local,        (* channel_opt, the reader's, in tryOpenChannel    *)
          rh,           (* the handle the reader has loaded for its call   *)
          inHand,       (* what the call has returned                      *)
          wpc,          (* where the worker is                             *)
          wh,           (* the handle the worker has loaded for its call   *)
          posts         (* what the handlers have posted                   *)

reading == <<local, rh, inHand>>
writing == <<wpc, wh>>
vars == <<osOpen, channel, state, running, rpc, reading, writing, posts>>

(* Up to the reader's connected handler the channel belongs to nobody else *)
Opening == {"idle", "outer", "try", "open", "openFailed", "install"}
Reading == {"inner", "check", "fetch", "call", "got", "close"}
Reporting == {"report", "lastReport"}

Link == INSTANCE ServerLink
          WITH channelValid <- channel # NoHandle,
               reader <- CASE rpc \in Opening -> "opening"
                           [] rpc = "notify" -> "notify"
                           [] rpc \in Reporting -> "report"
                           [] OTHER -> IF rpc = "got" /\ inHand \in Bytes
                                         THEN "deliver" ELSE "reading",
               reporting <- wpc = "report"

ASSUME TransportAssumption ==
    /\ NoHandle \notin Handles
    /\ Link!Nothing \notin Bytes
    /\ ReadTimesOut \in BOOLEAN
    /\ MaxPosts \in Nat

TypeOK ==
    /\ osOpen \subseteq Handles
    /\ {channel, local, rh, wh} \subseteq Handles \cup {NoHandle}
    /\ state \in {"Stopped", "Opening", "Connected", "Disconnected"}
    /\ running \in BOOLEAN
    /\ rpc \in Opening \cup {"notify"} \cup Reading \cup Reporting
    /\ inHand \in Bytes \cup {Link!Nothing}
    /\ wpc \in {"idle", "fetch", "call", "close", "report"}

Init ==
    /\ osOpen = {}
    /\ channel = NoHandle
    /\ state = "Stopped"
    /\ running = FALSE
    /\ rpc = "idle"
    /\ local = NoHandle /\ rh = NoHandle /\ inHand = Link!Nothing
    /\ wpc = "idle" /\ wh = NoHandle
    /\ posts = <<>>

Unposted == Len(posts) < MaxPosts

-----------------------------------------------------------------------------
(* A closeChannel that forgets the handle, for the mutation runs *)
ForgetState == state' = "Disconnected" /\ UNCHANGED <<osOpen, channel>>

(* closeChannel, up to the end of its critical section.  WtsChannelHandle  *)
(* closes what it holds.                                                   *)
CloseChannel ==
    /\ osOpen' = osOpen \ {channel}
    /\ channel' = NoHandle
    /\ state' = "Disconnected"

(* A channel that never was one is reported, for the mutation runs *)
WasNotDisconnected == state # "Disconnected"

(* Its caller reports the end of what was connected *)
WasConnected == state = "Connected"

-----------------------------------------------------------------------------
(* The reader: run *)

Run ==
    /\ rpc = "idle"
    /\ running' = TRUE
    /\ rpc' = "outer"
    /\ UNCHANGED <<osOpen, channel, state, reading, writing, posts>>

(* The conditions of the two loops *)
GoOn ==
    /\ running
    /\ \/ rpc = "outer" /\ rpc' = "try"
       \/ rpc = "inner" /\ rpc' = "check"
    /\ UNCHANGED <<osOpen, channel, state, running, reading, writing, posts>>

(* Nobody but run sets running_, so a loop that ends is the end of both,   *)
(* and closeChannel follows                                                *)
Leave ==
    /\ rpc \in {"outer", "inner"}
    /\ ~running
    /\ CloseChannel
    /\ rpc' = IF WasConnected THEN "lastReport" ELSE "idle"
    /\ UNCHANGED <<running, reading, writing, posts>>

(* closeChannel after a readOnce that returned false *)
CloseAfterRead ==
    /\ rpc = "close"
    /\ CloseChannel
    /\ rpc' = IF WasConnected THEN "report" ELSE "outer"
    /\ UNCHANGED <<running, reading, writing, posts>>

(* the end of closeChannel in the reader, disconnected_handler_() *)
ReaderReports ==
    /\ rpc \in Reporting
    /\ rpc' = IF rpc = "report" THEN "outer" ELSE "idle"
    /\ posts' = Append(posts, Link!Disconnected)
    /\ UNCHANGED <<osOpen, channel, state, running, reading, writing>>

-----------------------------------------------------------------------------
(* The reader: tryOpenChannel.  It never finds channel_ valid, so that its *)
(* two early returns of true are left out: ClosedWhileOpening.             *)

Try ==
    /\ rpc = "try"
    /\ IF running THEN state' = "Opening" /\ rpc' = "open"
                  ELSE state' = state /\ rpc' = "outer"
    /\ UNCHANGED <<osOpen, channel, running, reading, writing, posts>>

(* A failure that is taken for a handle, and a channel that is left open   *)
(* because its file handle cannot be had, for the mutation runs            *)
OpenResults == (Handles \cup {NoHandle}) \ osOpen
LeavesOpen == \E h \in Handles \ osOpen : osOpen' = osOpen \cup {h}

(* WtsChannelHandle::open: WTSVirtualChannelOpen may give any handle that  *)
(* is not open; a channel without a file handle is closed at once          *)
Openable == Handles \ osOpen
LeavesNothing == UNCHANGED osOpen

OpenSucceeds ==
    /\ rpc = "open"
    /\ Unposted
    /\ \E h \in Openable : osOpen' = osOpen \cup {h} /\ local' = h
    /\ rpc' = "install"
    /\ UNCHANGED <<channel, state, running, rh, inHand, writing, posts>>

OpenFails ==
    /\ rpc = "open"
    /\ rpc' = "openFailed"
    /\ LeavesNothing
    /\ UNCHANGED <<channel, state, running, reading, writing, posts>>

RecordFailure ==
    /\ rpc = "openFailed"
    /\ state' = "Disconnected"
    /\ rpc' = "outer"
    /\ UNCHANGED <<osOpen, channel, running, reading, writing, posts>>

(* channel_ = std::move(channel_opt), which closes what channel_ held *)
Install ==
    /\ rpc = "install"
    /\ running
    /\ osOpen' = osOpen \ {channel}
    /\ channel' = local
    /\ local' = NoHandle
    /\ state' = "Connected"
    /\ rpc' = "notify"
    /\ UNCHANGED <<running, rh, inHand, writing, posts>>

(* stopped in the meantime: the destructor of channel_opt closes it, and   *)
(* state_ stays as it is                                                   *)
InstallStopped ==
    /\ rpc = "install"
    /\ ~running
    /\ osOpen' = osOpen \ {local}
    /\ local' = NoHandle
    /\ rpc' = "outer"
    /\ UNCHANGED <<channel, state, running, rh, inHand, writing, posts>>

Notify ==
    /\ rpc = "notify"
    /\ rpc' = "inner"
    /\ posts' = Append(posts, Link!Connected)
    /\ UNCHANGED <<osOpen, channel, state, running, reading, writing>>

-----------------------------------------------------------------------------
(* The reader: readOnce *)

Check ==
    /\ rpc = "check"
    /\ rpc' = IF running /\ channel # NoHandle THEN "fetch" ELSE "close"
    /\ UNCHANGED <<osOpen, channel, state, running, reading, writing, posts>>

(* channel_.file() or channel_.channel(), without the mutex *)
LoadToRead ==
    /\ rpc = "fetch"
    /\ rh' = channel
    /\ rpc' = "call"
    /\ UNCHANGED <<osOpen, channel, state, running, local, inHand, writing, posts>>

(* A read that waits for data, as on Windows, for the mutation runs *)
ReturnsWhenClosed == rh \notin osOpen

(* A read of an open channel may come to nothing after a timeout *)
ReturnsWithoutData == ReadTimesOut \/ rh \notin osOpen

(* The call returns: with bytes, or with none, or with an error.  With a   *)
(* handle that was closed it returns no bytes.                             *)
ReadBytes ==
    /\ rpc = "call"
    /\ rh \in osOpen
    /\ Unposted
    /\ inHand' \in Bytes
    /\ rpc' = "got"
    /\ UNCHANGED <<osOpen, channel, state, running, local, rh, writing, posts>>

ReadNothing ==
    /\ rpc = "call"
    /\ ReturnsWithoutData
    /\ rpc' = "got"
    /\ UNCHANGED <<osOpen, channel, state, running, reading, writing, posts>>

ReadFails ==
    /\ rpc = "call"
    /\ rpc' = "close"
    /\ UNCHANGED <<osOpen, channel, state, running, reading, writing, posts>>

(* bytes_handler_(), unless stopped in the meantime *)
PassOn ==
    /\ rpc = "got"
    /\ rpc' = IF running THEN "inner" ELSE "close"
    /\ posts' = IF running /\ inHand \in Bytes
                  THEN Append(posts, Link!Received(inHand)) ELSE posts
    /\ inHand' = Link!Nothing
    /\ UNCHANGED <<osOpen, channel, state, running, local, rh, writing>>

-----------------------------------------------------------------------------
(* The worker: send and close *)

Send ==
    /\ wpc = "idle"
    /\ running
    /\ channel # NoHandle
    /\ wpc' = "fetch"
    /\ UNCHANGED <<osOpen, channel, state, running, rpc, reading, wh, posts>>

(* channel_.channel(), without the mutex *)
LoadToWrite ==
    /\ wpc = "fetch"
    /\ wh' = channel
    /\ wpc' = "call"
    /\ UNCHANGED <<osOpen, channel, state, running, rpc, reading, posts>>

WriteSucceeds ==
    /\ wpc = "call"
    /\ wh \in osOpen
    /\ wpc' = "idle"
    /\ UNCHANGED <<osOpen, channel, state, running, rpc, reading, wh, posts>>

WriteFails ==
    /\ wpc = "call"
    /\ wpc' = "close"
    /\ UNCHANGED <<osOpen, channel, state, running, rpc, reading, wh, posts>>

(* close() *)
Close ==
    /\ wpc = "idle"
    /\ wpc' = "close"
    /\ UNCHANGED <<osOpen, channel, state, running, rpc, reading, wh, posts>>

(* closeChannel, of close() or after a write that failed: it closes the    *)
(* channel there is now                                                    *)
CloseInWorker ==
    /\ wpc = "close"
    /\ CloseChannel
    /\ wpc' = IF WasConnected THEN "report" ELSE "idle"
    /\ UNCHANGED <<running, rpc, reading, wh, posts>>

WorkerReports ==
    /\ wpc = "report"
    /\ wpc' = "idle"
    /\ posts' = Append(posts, Link!Disconnected)
    /\ UNCHANGED <<osOpen, channel, state, running, rpc, reading, wh>>

-----------------------------------------------------------------------------
(* Any thread: stop *)
Stop ==
    /\ running
    /\ running' = FALSE
    /\ UNCHANGED <<osOpen, channel, state, rpc, reading, writing, posts>>

Reader ==
    \/ GoOn \/ Leave \/ CloseAfterRead \/ ReaderReports
    \/ Try \/ OpenSucceeds \/ OpenFails \/ RecordFailure
    \/ Install \/ InstallStopped \/ Notify
    \/ Check \/ LoadToRead \/ ReadBytes \/ ReadNothing \/ ReadFails \/ PassOn

Writer ==
    \/ Send \/ LoadToWrite \/ WriteSucceeds \/ WriteFails
    \/ CloseInWorker \/ WorkerReports

Worker == Writer \/ Close

Next == Run \/ Reader \/ Worker \/ Stop

Spec == Init /\ [][Next]_vars

(* The reader goes on; a call that waits for data need not return.  The    *)
(* worker's fairness is not needed.                                        *)
FairSpec ==
    /\ Spec
    /\ WF_vars(Reader /\ (rpc # "call" \/ rh \notin osOpen))
    /\ WF_vars(ReadNothing)

(* The transport as WtsRuntime uses it: stop() is called only after run()  *)
(* has returned, and no state machine produces the effect that calls       *)
(* close().                                                                *)
RuntimeSpec == Init /\ [][Run \/ Reader \/ Writer]_vars
-----------------------------------------------------------------------------
Holds(h) == IF h = NoHandle THEN {} ELSE {h}

(* Every channel the operating system holds open is held by exactly one of *)
(* channel_ and the reader's channel_opt, so that it will be closed once:  *)
(* none is forgotten, however opens, closes of either thread and stops     *)
(* meet, and none is closed under its owner.                               *)
HandlesOwned ==
    /\ osOpen = Holds(channel) \cup Holds(local)
    /\ channel = NoHandle \/ local = NoHandle

(* state_ and channel_, which are written together under the mutex, agree: *)
(* closeChannel, which asks state_, reports exactly the channels it closes *)
ValidMeansConnected == (channel # NoHandle) <=> (state = "Connected")

(* While the reader opens, and when run has returned, there is no channel  *)
ClosedWhileOpening == rpc \in Opening => channel = NoHandle

(* Each channel that is opened is reported once, and its end once, by the  *)
(* thread that closed it, except for reports that are still to come; the   *)
(* worker's may come after the reader has opened again.                    *)
PostsOf(t) == Cardinality({i \in DOMAIN posts : posts[i] = t})
Due(B) == IF B THEN 1 ELSE 0
EveryEndReportedOnce ==
    PostsOf(Link!Connected) + Due(rpc = "notify")
      = PostsOf(Link!Disconnected) + Due(rpc \in Reporting)
          + Due(wpc = "report") + Due(channel # NoHandle)

(* The transport keeps what Session assumes of it *)
ImplementsLink == Link!Spec

(* A stop() ends the run: within a timeout where reads time out; elsewhere *)
(* a reader that waits for data never looks at running_ again.             *)
StopEndsRun == ReadTimesOut => (~running ~> rpc = "idle")

(* readOnce returns without a read if it finds no valid channel, and the  *)
(* block behind that check, marked "TODO: protect this block", reads from  *)
(* the channel that was found.  Under RuntimeSpec it does not: the worker  *)
(* may close that channel before the read is over, or before it begins.    *)
ReadsUseOpenHandles == rpc = "call" => rh \in osOpen
=============================================================================
