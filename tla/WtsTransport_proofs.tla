------------------------ MODULE WtsTransport_proofs ------------------------
(***************************************************************************)
(* Proofs about WtsTransport, for every set of handles and bytes, with and *)
(* without timeouts: who owns the handles, and that the transport          *)
(* implements ServerLink, the specification that Session is built on.      *)
(***************************************************************************)
EXTENDS WtsTransport, FiniteSetTheorems, SequenceTheorems, TLAPS

(* The reader holds a handle of its own between open and install only, and *)
(* bytes between a read and their delivery only; no channel is open while  *)
(* it reports the end of one                                               *)
ReaderHolds ==
    /\ rpc \in Reporting => channel = NoHandle
    /\ rpc = "install" <=> local # NoHandle
    /\ rpc # "got" => inHand = Link!Nothing

IInv ==
    /\ TypeOK
    /\ HandlesOwned
    /\ ValidMeansConnected
    /\ ClosedWhileOpening
    /\ ReaderHolds

LEMMA InitIInv == Init => IInv
BY TransportAssumption
   DEF Init, IInv, TypeOK, HandlesOwned, Holds, ValidMeansConnected,
       ClosedWhileOpening, ReaderHolds, Opening, Reading, Reporting

LEMMA NextIInv == IInv /\ [Next]_vars => IInv'
<1> SUFFICES ASSUME IInv, [Next]_vars PROVE IInv'
  OBVIOUS
<1> USE TransportAssumption
    DEF IInv, TypeOK, HandlesOwned, Holds, ValidMeansConnected,
        ClosedWhileOpening, ReaderHolds, Opening, Reading, Reporting,
        reading, writing
<1>1. CASE Run
  BY <1>1 DEF Run
<1>2. CASE GoOn
  BY <1>2 DEF GoOn
<1>3. CASE Leave
  BY <1>3 DEF Leave, CloseChannel, WasConnected
<1>4. CASE CloseAfterRead
  BY <1>4 DEF CloseAfterRead, CloseChannel, WasConnected
<1>5. CASE ReaderReports
  BY <1>5 DEF ReaderReports
<1>6. CASE Try
  BY <1>6 DEF Try
<1>7. CASE OpenSucceeds
  BY <1>7 DEF OpenSucceeds, Openable
<1>8. CASE OpenFails
  BY <1>8 DEF OpenFails, LeavesNothing
<1>9. CASE RecordFailure
  BY <1>9 DEF RecordFailure
<1>10. CASE Install
  BY <1>10 DEF Install
<1>11. CASE InstallStopped
  BY <1>11 DEF InstallStopped
<1>12. CASE Notify
  BY <1>12 DEF Notify
<1>13. CASE Check
  BY <1>13 DEF Check
<1>14. CASE LoadToRead
  BY <1>14 DEF LoadToRead
<1>15. CASE ReadBytes
  BY <1>15 DEF ReadBytes
<1>16. CASE ReadNothing
  BY <1>16 DEF ReadNothing
<1>17. CASE ReadFails
  BY <1>17 DEF ReadFails
<1>18. CASE PassOn
  BY <1>18 DEF PassOn
<1>19. CASE Send
  BY <1>19 DEF Send
<1>20. CASE LoadToWrite
  BY <1>20 DEF LoadToWrite
<1>21. CASE WriteSucceeds
  BY <1>21 DEF WriteSucceeds
<1>22. CASE WriteFails
  BY <1>22 DEF WriteFails
<1>23. CASE Close
  BY <1>23 DEF Close
<1>24. CASE CloseInWorker
  BY <1>24 DEF CloseInWorker, CloseChannel, WasConnected
<1>25. CASE WorkerReports
  BY <1>25 DEF WorkerReports
<1>26. CASE Stop
  BY <1>26 DEF Stop
<1>27. CASE UNCHANGED vars
  BY <1>27 DEF vars
<1> QED
  BY <1>1, <1>2, <1>3, <1>4, <1>5, <1>6, <1>7, <1>8, <1>9, <1>10, <1>11,
     <1>12, <1>13, <1>14, <1>15, <1>16, <1>17, <1>18, <1>19, <1>20, <1>21,
     <1>22, <1>23, <1>24, <1>25, <1>26, <1>27 DEF Next, Reader, Worker, Writer

(* The variables keep their types. *)
THEOREM TypeCorrect == Spec => []TypeOK
<1>1. IInv => TypeOK
  BY DEF IInv
<1> QED
  BY <1>1, InitIInv, NextIInv, PTL DEF Spec

(* No channel is leaked, closed twice or closed under another owner,       *)
(* whatever the two threads and stop() do: for any number of handles the   *)
(* operating system may give out and give out again.                       *)
THEOREM OwnershipOfHandles == Spec => []HandlesOwned
<1>1. IInv => HandlesOwned
  BY DEF IInv
<1> QED
  BY <1>1, InitIInv, NextIInv, PTL DEF Spec

(* What closeChannel reports is what it closes. *)
THEOREM StateFollowsChannel == Spec => []ValidMeansConnected
<1>1. IInv => ValidMeansConnected
  BY DEF IInv
<1> QED
  BY <1>1, InitIInv, NextIInv, PTL DEF Spec

(* Whoever opens a channel has none, and run returns without one. *)
THEOREM RunReturnsClosed == Spec => []ClosedWhileOpening
<1>1. IInv => ClosedWhileOpening
  BY DEF IInv
<1> QED
  BY <1>1, InitIInv, NextIInv, PTL DEF Spec

-----------------------------------------------------------------------------
(* The reports: how many events of a kind have been posted, and how many   *)
(* are due                                                                 *)

Events == {Link!Connected, Link!Disconnected} \cup {Link!Received(b) : b \in Bytes}

LEMMA EventsDiffer ==
    /\ Link!Connected # Link!Disconnected
    /\ \A b : Link!Received(b) \notin {Link!Connected, Link!Disconnected}
BY DEF Link!Connected, Link!Disconnected, Link!Received

(* An event that is posted is counted once, among those of its kind.       *)
LEMMA PostIsCounted ==
    ASSUME posts \in Seq(Events), NEW e \in Events, posts' = Append(posts, e), NEW t
    PROVE  /\ PostsOf(t) \in Nat
           /\ PostsOf(t)' = PostsOf(t) + Due(e = t)
<1> DEFINE of == {i \in DOMAIN posts : posts[i] = t}
           n == Len(posts)
<1>1. n \in Nat /\ DOMAIN posts = 1..n
  BY LenProperties
<1>2. IsFiniteSet(of) /\ Cardinality(of) \in Nat
  <2>1. of \in SUBSET (1..n) /\ IsFiniteSet(1..n)
    BY <1>1, FS_Interval
  <2> QED
    BY <2>1, FS_Subset, FS_CardinalityType
<1>3. /\ DOMAIN posts' = 1..(n + 1)
      /\ posts'[n + 1] = e
      /\ \A i \in 1..n : posts'[i] = posts[i]
  BY <1>1, AppendProperties, LenProperties
<1>4. {i \in DOMAIN posts' : posts'[i] = t} = of \cup (IF e = t THEN {n + 1} ELSE {})
  BY <1>1, <1>3
<1>5. n + 1 \notin of
  BY <1>1
<1> HIDE DEF of
<1>6. CASE e = t
  <2>1. Cardinality(of \cup {n + 1}) = Cardinality(of) + 1
    BY <1>2, <1>5, FS_AddElement
  <2> QED
    BY <1>2, <1>4, <1>6, <2>1 DEF PostsOf, Due, of
<1>7. CASE e # t
  <2>1. {i \in DOMAIN posts' : posts'[i] = t} = of
    BY <1>4, <1>7
  <2>2. PostsOf(t)' = Cardinality(of)
    BY <2>1 DEF PostsOf
  <2>3. PostsOf(t) = Cardinality(of) /\ Due(e = t) = 0
    BY <1>7 DEF PostsOf, Due, of
  <2> QED
    BY <1>2, <2>2, <2>3
<1> QED
  BY <1>6, <1>7

LEMMA PostsAreCounted ==
    ASSUME posts \in Seq(Events), NEW t
    PROVE  PostsOf(t) \in Nat
<1> DEFINE of == {i \in DOMAIN posts : posts[i] = t}
<1>1. of \in SUBSET (1..Len(posts)) /\ IsFiniteSet(1..Len(posts))
  <2>1. Len(posts) \in Nat /\ DOMAIN posts = 1..Len(posts)
    BY LenProperties
  <2> QED
    BY <2>1, FS_Interval
<1> QED
  BY <1>1, FS_Subset, FS_CardinalityType DEF PostsOf

(* Whoever closes a channel that was open has a report due, and no step    *)
(* but the report itself takes it away.                                    *)
ReportInv ==
    /\ posts \in Seq(Events)
    /\ EveryEndReportedOnce

(* Steps that post nothing *)
LEMMA SilentStep ==
    ASSUME ReportInv, posts' = posts,
           Due(rpc = "notify")' - Due(rpc \in Reporting)' - Due(wpc = "report")'
               - Due(channel # NoHandle)'
             = Due(rpc = "notify") - Due(rpc \in Reporting) - Due(wpc = "report")
                 - Due(channel # NoHandle)
    PROVE  ReportInv'
<1>1. /\ PostsOf(Link!Connected)' = PostsOf(Link!Connected)
      /\ PostsOf(Link!Disconnected)' = PostsOf(Link!Disconnected)
  BY DEF PostsOf, Link!Connected, Link!Disconnected
<1>2. PostsOf(Link!Connected) \in Nat /\ PostsOf(Link!Disconnected) \in Nat
  BY PostsAreCounted DEF ReportInv
<1> QED
  BY <1>1, <1>2 DEF ReportInv, EveryEndReportedOnce, Due

(* Steps that post *)
LEMMA PostingStep ==
    ASSUME ReportInv, NEW e \in Events, posts' = Append(posts, e),
           Due(rpc = "notify")' - Due(rpc \in Reporting)' - Due(wpc = "report")'
               - Due(channel # NoHandle)' + Due(e = Link!Connected)
             = Due(rpc = "notify") - Due(rpc \in Reporting) - Due(wpc = "report")
                 - Due(channel # NoHandle) + Due(e = Link!Disconnected)
    PROVE  ReportInv'
<1>1. posts \in Seq(Events) /\ posts' \in Seq(Events)
  BY AppendProperties DEF ReportInv
<1>2. /\ PostsOf(Link!Connected) \in Nat
      /\ PostsOf(Link!Connected)' = PostsOf(Link!Connected) + Due(e = Link!Connected)
  <2>1. PICK t : t = Link!Connected
    OBVIOUS
  <2>2. PostsOf(t) \in Nat /\ PostsOf(t)' = PostsOf(t) + Due(e = t)
    BY <1>1, PostIsCounted
  <2>3. PostsOf(Link!Connected)' = PostsOf(t)'
    BY <2>1 DEF PostsOf, Link!Connected
  <2> QED
    BY <2>1, <2>2, <2>3
<1>3. /\ PostsOf(Link!Disconnected) \in Nat
      /\ PostsOf(Link!Disconnected)' = PostsOf(Link!Disconnected) + Due(e = Link!Disconnected)
  <2>1. PICK t : t = Link!Disconnected
    OBVIOUS
  <2>2. PostsOf(t) \in Nat /\ PostsOf(t)' = PostsOf(t) + Due(e = t)
    BY <1>1, PostIsCounted
  <2>3. PostsOf(Link!Disconnected)' = PostsOf(t)'
    BY <2>1 DEF PostsOf, Link!Disconnected
  <2> QED
    BY <2>1, <2>2, <2>3
<1> QED
  BY <1>1, <1>2, <1>3 DEF ReportInv, EveryEndReportedOnce, Due

LEMMA InitReportInv == Init => ReportInv
<1> SUFFICES ASSUME Init PROVE ReportInv
  OBVIOUS
<1>1. posts \in Seq(Events)
  BY EmptySeq DEF Init
<1>2. \A t : PostsOf(t) = 0
  <2> SUFFICES ASSUME NEW t PROVE PostsOf(t) = 0
    OBVIOUS
  <2>1. {i \in DOMAIN posts : posts[i] = t} = {}
    BY DEF Init
  <2> QED
    BY <2>1, FS_EmptySet DEF PostsOf
<1> QED
  BY <1>1, <1>2 DEF Init, ReportInv, EveryEndReportedOnce, Due, Reporting

LEMMA NextReportInv == IInv /\ ReportInv /\ [Next]_vars => ReportInv'
<1> SUFFICES ASSUME IInv, ReportInv, [Next]_vars PROVE ReportInv'
  OBVIOUS
<1>1. CASE ReaderReports \/ WorkerReports
  <2>1. posts' = Append(posts, Link!Disconnected) /\ Link!Disconnected \in Events
    BY <1>1 DEF ReaderReports, WorkerReports, Events
  <2> QED
    BY <1>1, <2>1, EventsDiffer, PostingStep
    DEF ReaderReports, WorkerReports, Reporting, Due, reading, writing
<1>2. CASE Notify
  <2>1. posts' = Append(posts, Link!Connected) /\ Link!Connected \in Events
    BY <1>2 DEF Notify, Events
  <2> QED
    BY <1>2, <2>1, EventsDiffer, PostingStep DEF Notify, Reporting, Due, writing
<1>3. CASE PassOn
  <2>1. CASE running /\ inHand \in Bytes
    <3>1. posts' = Append(posts, Link!Received(inHand)) /\ Link!Received(inHand) \in Events
      BY <1>3, <2>1 DEF PassOn, Events
    <3> QED
      BY <1>3, <3>1, EventsDiffer, PostingStep DEF PassOn, Reporting, Due, writing
  <2>2. CASE ~(running /\ inHand \in Bytes)
    <3>1. posts' = posts
      BY <1>3, <2>2 DEF PassOn
    <3> QED
      BY <1>3, <3>1, SilentStep DEF PassOn, Reporting, Due, writing
  <2> QED
    BY <2>1, <2>2
<1>4. CASE Leave \/ CloseAfterRead
  BY <1>4, SilentStep
  DEF Leave, CloseAfterRead, CloseChannel, WasConnected, IInv, ValidMeansConnected, Reporting,
      Due, writing
<1>5. CASE CloseInWorker
  BY <1>5, SilentStep
  DEF CloseInWorker, CloseChannel, WasConnected, IInv, ValidMeansConnected, Due
<1>6. CASE Install
  BY <1>6, SilentStep, TransportAssumption
  DEF Install, IInv, ReaderHolds, ClosedWhileOpening, Opening, Reporting, Due, writing
<1>7. CASE \/ Run \/ GoOn \/ Try \/ OpenSucceeds \/ OpenFails \/ RecordFailure
           \/ InstallStopped \/ Check \/ LoadToRead \/ ReadBytes \/ ReadNothing \/ ReadFails
  BY <1>7, SilentStep
  DEF Run, GoOn, Try, OpenSucceeds, OpenFails, RecordFailure, InstallStopped, Check, LoadToRead,
      ReadBytes, ReadNothing, ReadFails, Reporting, Due, reading, writing
<1>8. CASE Send \/ LoadToWrite \/ WriteSucceeds \/ WriteFails \/ Close \/ Stop
  BY <1>8, SilentStep
  DEF Send, LoadToWrite, WriteSucceeds, WriteFails, Close, Stop, Due, reading, writing
<1>9. CASE UNCHANGED vars
  BY <1>9, SilentStep DEF vars, Due, reading, writing
<1> QED
  BY <1>1, <1>2, <1>3, <1>4, <1>5, <1>6, <1>7, <1>8, <1>9 DEF Next, Reader, Worker, Writer

(* Every channel that was opened is reported once, and so is its end, by   *)
(* the one of the two threads that closed it.                              *)
THEOREM EndsAreReportedOnce == Spec => []EveryEndReportedOnce
<1>1. ReportInv => EveryEndReportedOnce
  BY DEF ReportInv
<1> QED
  BY <1>1, InitIInv, NextIInv, InitReportInv, NextReportInv, PTL DEF Spec

-----------------------------------------------------------------------------
(* The refinement: initial states, then one step at a time *)

LEMMA InitLink == Init => Link!Init
<1> SUFFICES ASSUME Init PROVE Link!Init
  OBVIOUS
<1>1. (channel # NoHandle) = FALSE /\ (wpc = "report") = FALSE
  BY DEF Init
<1> QED
  BY <1>1 DEF Init, Link!Init, Link!LinkInit, Opening, Reporting

LEMMA StepLink ==
    IInv /\ [Next]_vars => [Link!Next]_<<Link!linkVars, posts>>
<1> SUFFICES ASSUME IInv, [Next]_vars
             PROVE  [Link!Next]_<<Link!linkVars, posts>>
  OBVIOUS
<1> USE TransportAssumption
    DEF IInv, TypeOK, HandlesOwned, Holds, ValidMeansConnected,
        ClosedWhileOpening, ReaderHolds, Opening, Reading, Reporting,
        reading, writing, Link!linkVars, Link!Post
<1>1. CASE Run
  BY <1>1 DEF Run
<1>2. CASE GoOn
  BY <1>2 DEF GoOn
<1>3. CASE Leave
  <2>1. CASE WasConnected
    <3> Link!ReadFails
      BY <1>3, <2>1 DEF Leave, CloseChannel, WasConnected, Link!ReadFails
    <3> QED
      BY DEF Link!Next
  <2>2. CASE ~WasConnected /\ rpc = "inner"
    <3> Link!ReadFindsClosed
      BY <1>3, <2>2 DEF Leave, CloseChannel, WasConnected, Link!ReadFindsClosed
    <3> QED
      BY DEF Link!Next
  <2>3. CASE ~WasConnected /\ rpc = "outer"
    BY <1>3, <2>3 DEF Leave, CloseChannel, WasConnected
  <2> QED
    BY <1>3, <2>1, <2>2, <2>3 DEF Leave
<1>4. CASE CloseAfterRead
  <2>1. CASE WasConnected
    <3> Link!ReadFails
      BY <1>4, <2>1
      DEF CloseAfterRead, CloseChannel, WasConnected, Link!ReadFails
    <3> QED
      BY DEF Link!Next
  <2>2. CASE ~WasConnected
    <3> Link!ReadFindsClosed
      BY <1>4, <2>2
      DEF CloseAfterRead, CloseChannel, WasConnected, Link!ReadFindsClosed
    <3> QED
      BY DEF Link!Next
  <2> QED
    BY <2>1, <2>2
<1>5. CASE ReaderReports
  <2> Link!ReaderReports
    BY <1>5 DEF ReaderReports, Link!ReaderReports
  <2> QED
    BY DEF Link!Next
<1>6. CASE Try
  BY <1>6 DEF Try
<1>7. CASE OpenSucceeds
  BY <1>7 DEF OpenSucceeds, Openable
<1>8. CASE OpenFails
  BY <1>8 DEF OpenFails, LeavesNothing
<1>9. CASE RecordFailure
  BY <1>9 DEF RecordFailure
<1>10. CASE Install
  <2> Link!Open
    BY <1>10 DEF Install, Link!Open
  <2> QED
    BY DEF Link!Next
<1>11. CASE InstallStopped
  BY <1>11 DEF InstallStopped
<1>12. CASE Notify
  <2> Link!Notify
    BY <1>12 DEF Notify, Link!Notify
  <2> QED
    BY DEF Link!Next
<1>13. CASE Check
  BY <1>13 DEF Check
<1>14. CASE LoadToRead
  BY <1>14 DEF LoadToRead
<1>15. CASE ReadBytes
  <2> Link!Read(inHand')
    BY <1>15 DEF ReadBytes, Link!Read
  <2> QED
    BY <1>15 DEF ReadBytes, Link!Next
<1>16. CASE ReadNothing
  BY <1>16 DEF ReadNothing
<1>17. CASE ReadFails
  BY <1>17 DEF ReadFails
<1>18. CASE PassOn
  <2>1. CASE inHand \in Bytes /\ running
    <3> Link!Deliver
      BY <1>18, <2>1 DEF PassOn, Link!Deliver
    <3> QED
      BY DEF Link!Next
  <2>2. CASE inHand \in Bytes /\ ~running
    <3> Link!Discard
      BY <1>18, <2>2 DEF PassOn, Link!Discard
    <3> QED
      BY DEF Link!Next
  <2>3. CASE inHand \notin Bytes
    BY <1>18, <2>3 DEF PassOn
  <2> QED
    BY <2>1, <2>2, <2>3
<1>19. CASE Send
  BY <1>19 DEF Send
<1>20. CASE LoadToWrite
  BY <1>20 DEF LoadToWrite
<1>21. CASE WriteSucceeds
  BY <1>21 DEF WriteSucceeds
<1>22. CASE WriteFails
  BY <1>22 DEF WriteFails
<1>23. CASE Close
  BY <1>23 DEF Close
<1>24. CASE CloseInWorker
  <2>1. CASE WasConnected
    <3> Link!SendFails /\ UNCHANGED posts
      BY <1>24, <2>1
      DEF CloseInWorker, CloseChannel, WasConnected, Link!SendFails
    <3> QED
      BY DEF Link!Next
  <2>2. CASE ~WasConnected
    BY <1>24, <2>2 DEF CloseInWorker, CloseChannel, WasConnected
  <2> QED
    BY <2>1, <2>2
<1>25. CASE WorkerReports
  <2> Link!WorkerReports
    BY <1>25 DEF WorkerReports, Link!WorkerReports
  <2> QED
    BY DEF Link!Next
<1>26. CASE Stop
  BY <1>26 DEF Stop
<1>27. CASE UNCHANGED vars
  BY <1>27 DEF vars
<1> QED
  BY <1>1, <1>2, <1>3, <1>4, <1>5, <1>6, <1>7, <1>8, <1>9, <1>10, <1>11,
     <1>12, <1>13, <1>14, <1>15, <1>16, <1>17, <1>18, <1>19, <1>20, <1>21,
     <1>22, <1>23, <1>24, <1>25, <1>26, <1>27 DEF Next, Reader, Worker, Writer

(* The transport posts its events in the orders that ServerLink allows,    *)
(* the only ones that Session assumes.                                     *)
THEOREM TransportImplementsLink == Spec => ImplementsLink
BY InitIInv, NextIInv, InitLink, StepLink, PTL
   DEF Spec, ImplementsLink, Link!Spec
=============================================================================
