----------------------- MODULE MstscTransport_proofs -----------------------
(***************************************************************************)
(* Proofs about MstscTransport, for every set of handles and buffers and   *)
(* messages of any number of chunks, in both builds.                       *)
(***************************************************************************)
EXTENDS MstscTransport, TLAPS

(* In between CONNECTED and DISCONNECTED open_handle_ is the host's, only  *)
(* one send is under way, and FreeRDP's is owned                           *)
IInv ==
    /\ TypeOK
    /\ BuffersOutliveWrites
    /\ ConnectedIsFound
    /\ HostHasOpen => openHandle \in Handles
    /\ FreeRDP => sending \subseteq pending
    /\ sending \cap atHost = {}

LEMMA InitIInv == Init => IInv
<1> SUFFICES ASSUME Init PROVE IInv
  OBVIOUS
<1>1. 0 \in 0..(MaxFragments - 1)
  BY MstscAssumption
<1>2. TypeOK
  BY <1>1 DEF Init, TypeOK, Places
<1> QED
  BY <1>2 DEF Init, IInv, BuffersOutliveWrites, ConnectedIsFound, HostHasOpen

LEMMA NextIInv == IInv /\ [Next]_vars => IInv'
<1> SUFFICES ASSUME IInv, [Next]_vars PROVE IInv'
  OBVIOUS
<1> USE MstscAssumption
    DEF IInv, TypeOK, Places, BuffersOutliveWrites, ConnectedIsFound,
        HostHasOpen, Found, host, data, buffers
<1>1. CASE Entry
  BY <1>1 DEF Entry
<1>2. CASE OpenSucceeds
  BY <1>2 DEF OpenSucceeds
<1>3. CASE OpenFails
  BY <1>3 DEF OpenFails, AfterFailedOpen
<1>4. CASE RegisterOpenHandle
  BY <1>4 DEF RegisterOpenHandle, Registers
<1>5. CASE Notify
  BY <1>5 DEF Notify
<1>6. CASE Disconnect
  BY <1>6 DEF Disconnect
<1>7. CASE Chunk
  <2>1. rest' \in 0..(MaxFragments - 1)
    <3>1. CASE rest = 0
      BY <1>7, <3>1 DEF Chunk
    <3>2. CASE rest # 0
      BY <1>7, <3>2 DEF Chunk
    <3> QED
      BY <3>1, <3>2
  <2>2. split' \in BOOLEAN
    <3>1. CASE rest = 0
      <4>1. PICK n \in 1..MaxFragments : split' = (n > 1)
        BY <1>7, <3>1 DEF Chunk
      <4>2. CASE n > 1
        BY <4>1, <4>2
      <4>3. CASE ~(n > 1)
        BY <4>1, <4>3
      <4> QED
        BY <4>2, <4>3
    <3>2. CASE rest # 0
      BY <1>7, <3>2 DEF Chunk
    <3> QED
      BY <3>1, <3>2
  <2> QED
    BY <1>7, <2>1, <2>2 DEF Chunk
<1>8. CASE Send
  BY <1>8 DEF Send, Owned
<1>9. CASE WriteAccepted
  BY <1>9 DEF WriteAccepted, KeepsIt
<1>10. CASE WriteRefused
  BY <1>10 DEF WriteRefused
<1>11. CASE WriteEnds
  BY <1>11 DEF WriteEnds
<1>12. CASE UNCHANGED vars
  BY <1>12 DEF vars
<1> QED
  BY <1>1, <1>2, <1>3, <1>4, <1>5, <1>6, <1>7, <1>8, <1>9, <1>10, <1>11,
     <1>12 DEF Next

(* The variables keep their types. *)
THEOREM TypeCorrect == Spec => []TypeOK
<1>1. IInv => TypeOK
  BY DEF IInv
<1> QED
  BY <1>1, InitIInv, NextIInv, PTL DEF Spec

(* FreeRDP never writes from a buffer that send has destroyed. *)
THEOREM BuffersAreKept == Spec => []BuffersOutliveWrites
<1>1. IInv => BuffersOutliveWrites
  BY DEF IInv
<1> QED
  BY <1>1, InitIInv, NextIInv, PTL DEF Spec

(* Once the open handle is registered data finds its instance, on every    *)
(* connection, although nothing is ever unregistered.                      *)
THEOREM DataFindsItsInstance == Spec => []ConnectedIsFound
<1>1. IInv => ConnectedIsFound
  BY DEF IInv
<1> QED
  BY <1>1, InitIInv, NextIInv, PTL DEF Spec

-----------------------------------------------------------------------------
(* The refinement *)

LEMMA InitLink == Init => Link!Init
BY DEF Init, Link!Init, HostHasOpen

LEMMA StepLink ==
    IInv /\ [Next]_vars
    => [Link!Next]_<<IF place = "connected" THEN "connected"
                     ELSE IF ~HostHasOpen THEN "closed"
                     ELSE IF Found THEN "opened" ELSE "opening", posts>>
<1> SUFFICES ASSUME IInv, [Next]_vars
    PROVE  [Link!Next]_<<IF place = "connected" THEN "connected"
                         ELSE IF ~HostHasOpen THEN "closed"
                         ELSE IF Found THEN "opened" ELSE "opening", posts>>
  OBVIOUS
<1> USE DEF IInv, TypeOK, Places, ConnectedIsFound, HostHasOpen, Found,
            host, data, buffers, Link!Post
<1>1. CASE Entry
  BY <1>1 DEF Entry
<1>2. CASE OpenSucceeds
  <2> Link!Open
    BY <1>2 DEF OpenSucceeds, Link!Open
  <2> QED
    BY DEF Link!Next
<1>3. CASE OpenFails
  BY <1>3 DEF OpenFails, AfterFailedOpen
<1>4. CASE RegisterOpenHandle
  <2>1. CASE Found
    BY <1>4, <2>1 DEF RegisterOpenHandle, Registers
  <2>2. CASE ~Found
    <3> Link!Register
      BY <1>4, <2>2 DEF RegisterOpenHandle, Registers, Link!Register
    <3> QED
      BY DEF Link!Next
  <2> QED
    BY <2>1, <2>2
<1>5. CASE Notify
  <2> Link!Notify
    BY <1>5 DEF Notify, Link!Notify
  <2> QED
    BY DEF Link!Next
<1>6. CASE Disconnect
  <2> Link!Disconnect
    BY <1>6 DEF Disconnect, Link!Disconnect
  <2> QED
    BY DEF Link!Next
<1>7. CASE Chunk
  <2>1. CASE PassesOnLast(rest' = 0)
    <3> DEFINE b == IF split' THEN "lastChunk" ELSE "whole"
    <3>1. b \in Bytes
      BY DEF Bytes
    <3>2. Link!Receive(b)
      BY <1>7, <2>1 DEF Chunk, PassesOnLast, Link!Receive
    <3> QED
      BY <3>1, <3>2 DEF Link!Next
  <2>2. CASE ~PassesOnLast(rest' = 0)
    BY <1>7, <2>2 DEF Chunk
  <2> QED
    BY <2>1, <2>2
<1>8. CASE Send
  BY <1>8 DEF Send
<1>9. CASE WriteAccepted
  BY <1>9 DEF WriteAccepted
<1>10. CASE WriteRefused
  BY <1>10 DEF WriteRefused
<1>11. CASE WriteEnds
  BY <1>11 DEF WriteEnds
<1>12. CASE UNCHANGED vars
  BY <1>12 DEF vars
<1> QED
  BY <1>1, <1>2, <1>3, <1>4, <1>5, <1>6, <1>7, <1>8, <1>9, <1>10, <1>11,
     <1>12 DEF Next

(* The transport posts its events in the orders that ClientLink allows,    *)
(* the only ones that Session assumes.                                     *)
THEOREM TransportImplementsLink == Spec => ImplementsLink
BY InitIInv, NextIInv, InitLink, StepLink, PTL
   DEF Spec, ImplementsLink, Link!Spec
=============================================================================
