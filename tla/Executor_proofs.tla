-------------------------- MODULE Executor_proofs --------------------------
(***************************************************************************)
(* Proofs about Executor, for any number of posting threads and tasks and  *)
(* finitely many timers: stop waits for the worker, no timer escapes it,   *)
(* none is lost or leaks before, and the executor is a serial queue that   *)
(* never begins a task after stop.                                         *)
(***************************************************************************)
EXTENDS Executor, FiniteSetTheorems, SequenceTheorems, TLAPS

(* Where the owner is tells whether there is a worker, and which flags are *)
(* set.                                                                    *)
OwnerInv ==
    /\ worker = "none" <=> owner \in {"clear", "spawn"} \/ (owner = "idle" /\ ~started)
    /\ owner # "idle" => started
    /\ owner \in {"cancel", "context", "join"} => stopping
    /\ owner = "spawn" \/ (owner = "idle" /\ started) => ~stopping
    /\ owner = "join" => contextStopped
    /\ stopping => contextStopped \/ owner \in {"cancel", "context"}

(* Where the worker is tells what it holds; a worker that was started      *)
(* after the context had been stopped holds nothing.                       *)
WorkerInv ==
    /\ task # None <=> worker = "task"
    /\ inHand # None <=> worker = "check"
    /\ calls[Worker] # Idle => worker = "task"
    /\ batch > 0 => worker \in {"run", "check", "task"}
    /\ contextStopped /\ ~stopping => batch = 0 /\ worker \notin {"check", "task"}
    /\ Open => aborted = {}

IInv ==
    /\ TypeOK
    /\ OwnerInv
    /\ WorkerInv
    /\ NoTimerAfterCancel

-----------------------------------------------------------------------------
(* Sequences and calls *)

(* The orders of finitely many timers are sequences of jobs. *)
LEMMA OrdersAreSequences ==
    ASSUME NEW T \in SUBSET Timers, NEW s \in Orders(T)
    PROVE  s \in Seq(Jobs)
<1>1. IsFiniteSet(T)
  BY ExecutorAssumption, FS_Subset
<1>2. Cardinality(T) \in Nat
  BY <1>1, FS_CardinalityType
<1>3. s \in [1..Cardinality(T) -> T]
  BY DEF Orders
<1>4. s \in Seq(T)
  BY <1>2, <1>3
<1> QED
  BY <1>4, SeqMonotonic DEF Jobs

(* A sequence with an element put before it. *)
LEMMA Cons ==
    ASSUME NEW S, NEW x \in S, NEW s \in Seq(S)
    PROVE  /\ <<x>> \o s \in Seq(S)
           /\ <<x>> \o s # <<>>
           /\ Head(<<x>> \o s) = x
           /\ Tail(<<x>> \o s) = s
<1>1. <<x>> \in Seq(S) /\ Len(<<x>>) = 1 /\ <<x>>[1] = x
  OBVIOUS
<1> DEFINE c == <<x>> \o s
<1>2. c \in Seq(S) /\ Len(c) = 1 + Len(s)
  BY <1>1, ConcatProperties
<1>3. c # <<>>
  BY <1>2
<1>4. c[1] = x /\ \A i \in 1..Len(s) : c[i + 1] = s[i]
  BY <1>1, ConcatProperties
<1>5. Tail(c) \in Seq(S) /\ Len(Tail(c)) = Len(s)
      /\ \A i \in 1..Len(s) : Tail(c)[i] = c[i + 1]
  BY <1>2, <1>3, HeadTailProperties
<1>6. Tail(c) = s
  BY <1>4, <1>5, SeqEqual
<1>7. Head(c) = x
  BY <1>4
<1> QED
  BY <1>2, <1>3, <1>6, <1>7

(* A sequence is its head and its tail. *)
LEMMA HeadAndTail ==
    ASSUME NEW S, NEW s \in Seq(S), s # <<>>
    PROVE  <<Head(s)>> \o Tail(s) = s
<1>1. Head(s) \in S /\ Tail(s) \in Seq(S) /\ Len(s) = 1 + Len(Tail(s))
      /\ \A i \in 1..Len(Tail(s)) : Tail(s)[i] = s[i + 1]
  BY HeadTailProperties
<1>2. <<Head(s)>> \in Seq(S) /\ Len(<<Head(s)>>) = 1 /\ <<Head(s)>>[1] = s[1]
  BY <1>1
<1>3. /\ <<Head(s)>> \o Tail(s) \in Seq(S)
      /\ Len(<<Head(s)>> \o Tail(s)) = Len(s)
      /\ \A i \in 1..Len(s) : (<<Head(s)>> \o Tail(s))[i] = s[i]
  BY <1>1, <1>2, ConcatProperties
<1> QED
  BY <1>3, SeqEqual

(* A call in progress is about a job. *)
LEMMA CallsHaveJobs ==
    ASSUME TypeOK, NEW c \in Callers, calls[c].at # "idle"
    PROVE  calls[c].job \in Jobs /\ calls[c] # Idle
BY DEF TypeOK, InProgress, Call, Idle, Jobs

LEMMA CallersExist == Worker \in Callers /\ Hosts \subseteq Callers
BY DEF Callers

-----------------------------------------------------------------------------
(* The inductive invariant *)

LEMMA InitIInv == Init => IInv
<1> SUFFICES ASSUME Init PROVE IInv
  OBVIOUS
<1>1. TypeOK
  <2>1. strand \in Seq(Jobs) /\ batch \in 0..Len(strand)
    BY EmptySeq DEF Init
  <2>2. calls \in [Callers -> InProgress \cup {Idle}]
    BY DEF Init
  <2> QED
    BY <2>1, <2>2 DEF Init, TypeOK
<1>2. OwnerInv
  BY DEF Init, OwnerInv
<1>3. WorkerInv
  BY CallersExist DEF Init, WorkerInv, Open
<1>4. NoTimerAfterCancel
  BY DEF Init, NoTimerAfterCancel
<1> QED
  BY <1>1, <1>2, <1>3, <1>4 DEF IInv

(* The steps of the owner *)
LEMMA OwnerIInv ==
    ASSUME IInv, Start \/ Stop \/ OwnerGoesOn
    PROVE  IInv'
<1> USE DEF IInv, TypeOK, OwnerInv, WorkerInv, NoTimerAfterCancel, Open,
            flags, asio, thread
<1>1. CASE Start
  BY <1>1 DEF Start
<1>2. CASE Stop
  BY <1>2 DEF Stop
<1>3. CASE ClearStopping
  <2>1. worker = "none" /\ batch = 0
    BY <1>3, LenProperties DEF ClearStopping
  <2>2. ~contextStopped => aborted = {}
    BY <1>3 DEF ClearStopping
  <2> QED
    BY <1>3, <2>1, <2>2 DEF ClearStopping
<1>4. CASE Spawn
  BY <1>4 DEF Spawn
<1>5. CASE CancelAllTimers
  <2>1. PICK s \in Orders(waiting \cap timers) : strand' = strand \o s
    BY <1>5 DEF CancelAllTimers
  <2>2. s \in Seq(Jobs)
    BY <2>1, OrdersAreSequences
  <2>3. strand' \in Seq(Jobs) /\ Len(strand') = Len(strand) + Len(s)
        /\ Len(s) \in Nat /\ Len(strand) \in Nat
    BY <2>1, <2>2, ConcatProperties, LenProperties
  <2>4. batch' \in 0..Len(strand')
    BY <1>5, <2>3 DEF CancelAllTimers
  <2> QED
    BY <1>5, <2>3, <2>4 DEF CancelAllTimers
<1>6. CASE StopContext
  BY <1>6 DEF StopContext
<1>7. CASE Join
  BY <1>7 DEF Join, Joins
<1> QED
  BY <1>1, <1>2, <1>3, <1>4, <1>5, <1>6, <1>7 DEF OwnerGoesOn

(* The calls of the hosts and of tasks *)
LEMMA CallIInv ==
    ASSUME IInv, (\E h \in Hosts : Post(h) \/ Enqueue(h)) \/ WorkerCalls
    PROVE  IInv'
<1> USE CallersExist, ExecutorAssumption
    DEF IInv, TypeOK, OwnerInv, WorkerInv, NoTimerAfterCancel, Open,
        flags, asio, thread
<1>1. ASSUME NEW c \in Callers, Post(c) PROVE IInv'
  <2>1. PICK j \in Tasks \ used :
            calls' = [calls EXCEPT ![c] = Call("enqueue", j)]
            /\ used' = used \cup {j}
    BY <1>1 DEF Post, Goes
  <2>2. Call("enqueue", j) \in InProgress /\ j \in Jobs
    BY DEF InProgress, Jobs
  <2>3. calls' \in [Callers -> InProgress \cup {Idle}] /\ used' \subseteq Jobs
    BY <2>1, <2>2
  <2>4. calls'[Worker] # Idle => worker = "task"
    BY <1>1, <2>1 DEF Post, MayCall
  <2> QED
    BY <1>1, <2>3, <2>4 DEF Post
<1>2. ASSUME NEW c \in Callers, Enqueue(c) PROVE IInv'
  <2>1. calls[c].job \in Jobs
    BY <1>2, CallsHaveJobs DEF Enqueue
  <2>2. strand' \in Seq(Jobs) /\ Len(strand') = Len(strand) + 1
        /\ Len(strand) \in Nat
    BY <1>2, <2>1, AppendProperties, LenProperties DEF Enqueue
  <2>3. batch' \in 0..Len(strand')
    BY <1>2, <2>2 DEF Enqueue
  <2>4. calls' \in [Callers -> InProgress \cup {Idle}]
        /\ (calls'[Worker] # Idle => worker = "task")
    BY <1>2 DEF Enqueue, Returns
  <2> QED
    BY <1>2, <2>2, <2>3, <2>4 DEF Enqueue
<1>3. CASE Schedule
  <2>1. PICK j \in Timers \ used :
            calls' = [calls EXCEPT ![Worker] = Call("register", j)]
            /\ used' = used \cup {j}
    BY <1>3 DEF Schedule, Goes
  <2>2. Call("register", j) \in InProgress /\ j \in Jobs
    BY DEF InProgress, Jobs
  <2>3. calls' \in [Callers -> InProgress \cup {Idle}] /\ used' \subseteq Jobs
    BY <2>1, <2>2
  <2> QED
    BY <1>3, <2>3 DEF Schedule, MayCall
<1>4. CASE RegisterTimer
  <2>1. calls[Worker].job \in Jobs /\ calls[Worker] # Idle
    BY <1>4, CallsHaveJobs DEF RegisterTimer
  <2>2. Call("arm", calls[Worker].job) \in InProgress
    BY <1>4 DEF InProgress, RegisterTimer, Call, Idle
  <2>3. calls' \in [Callers -> InProgress \cup {Idle}]
    BY <1>4, <2>2 DEF RegisterTimer, Goes, Returns
  <2>4. calls[Worker].job \in Timers
    BY <1>4 DEF RegisterTimer, InProgress, Call, Idle
  <2>5. worker = "task"
    BY <2>1
  <2>6. CASE stopping
    BY <1>4, <2>3, <2>5, <2>6 DEF RegisterTimer, RegisterTimerSeesStop, Returns
  <2>7. CASE ~stopping
    <3>1. timers' = timers \cup {calls[Worker].job}
      BY <1>4, <2>7 DEF RegisterTimer, RegisterTimerSeesStop
    <3>2. timers' \subseteq Timers
      BY <2>4, <3>1
    <3>3. UNCHANGED <<flags, asio, thread, used>>
      BY <1>4 DEF RegisterTimer
    <3>4. TypeOK'
      BY <2>3, <3>2, <3>3
    <3>5. OwnerInv' /\ WorkerInv'
      BY <2>5, <3>3
    <3>6. NoTimerAfterCancel'
      BY <2>7, <3>3
    <3> QED
      BY <3>4, <3>5, <3>6
  <2> QED
    BY <2>6, <2>7
<1>5. CASE Arm
  <2>1. calls[Worker].job \in Timers /\ calls[Worker] # Idle
    BY <1>5 DEF Arm, InProgress, Call, Idle
  <2>2. waiting' \subseteq Timers
    BY <1>5, <2>1 DEF Arm
  <2>3. calls' \in [Callers -> InProgress \cup {Idle}]
    BY <1>5 DEF Arm, Returns
  <2> QED
    BY <1>5, <2>1, <2>2, <2>3 DEF Arm
<1> QED
  BY <1>1, <1>2, <1>3, <1>4, <1>5 DEF WorkerCalls

(* The steps of the worker thread *)
LEMMA WorkerIInv ==
    ASSUME IInv, WorkerGoesOn \/ Expire
    PROVE  IInv'
<1> USE ExecutorAssumption
    DEF IInv, TypeOK, OwnerInv, WorkerInv, NoTimerAfterCancel, Open,
        flags, asio, thread
<1>0. Len(strand) \in Nat /\ (batch > 0 => strand # <<>>)
  BY LenProperties, EmptySeq
<1>1. CASE EnterRun
  BY <1>1 DEF EnterRun
<1>2. CASE RunReturns
  BY <1>2 DEF RunReturns, AfterRun
<1>3. CASE Expire
  <2>1. PICK j \in waiting : waiting' = waiting \ {j} /\ strand' = Append(strand, j)
    BY <1>3 DEF Expire
  <2>2. j \in Jobs
    BY DEF Jobs
  <2>3. strand' \in Seq(Jobs) /\ Len(strand') = Len(strand) + 1
    BY <2>1, <2>2, AppendProperties
  <2>4. batch' \in 0..Len(strand')
    BY <1>0, <1>3, <2>3 DEF Expire
  <2> QED
    BY <1>3, <2>1, <2>3, <2>4 DEF Expire
<1>4. CASE RunStrand
  BY <1>0, <1>4 DEF RunStrand
<1>5. CASE TakeHandler
  <2>1. strand' \in Seq(Jobs) /\ Len(strand') = Len(strand) - 1
        /\ Head(strand) \in Jobs
    BY <1>0, <1>5, HeadTailProperties DEF TakeHandler
  <2>2. batch' \in 0..Len(strand')
    BY <1>0, <1>5, <2>1 DEF TakeHandler
  <2>3. timers' \subseteq timers
    BY <1>5 DEF TakeHandler, UnregisterTimer
  <2>4. inHand' \in Jobs /\ worker' = "check" /\ inHand' # None
    BY <1>5, <2>1 DEF TakeHandler
  <2>5. worker = "run" /\ ~(contextStopped /\ ~stopping)
    BY <1>5 DEF TakeHandler
  <2>6. TypeOK'
    BY <1>5, <2>1, <2>2, <2>3, <2>4 DEF TakeHandler
  <2>7. WorkerInv'
    BY <1>5, <2>4, <2>5 DEF TakeHandler
  <2> QED
    BY <1>5, <2>3, <2>4, <2>5, <2>6, <2>7 DEF TakeHandler
<1>6. CASE Execute
  BY <1>6 DEF Execute, HandlerSeesStop
<1>7. CASE Ignore
  BY <1>7 DEF Ignore, HandlerSeesStop
<1>8. CASE TaskEnds
  BY <1>8 DEF TaskEnds
<1>9. CASE TaskThrows
  BY <1>0, <1>9 DEF TaskThrows, AfterThrow
<1> QED
  BY <1>1, <1>2, <1>3, <1>4, <1>5, <1>6, <1>7, <1>8, <1>9 DEF WorkerGoesOn

LEMMA NextIInv == IInv /\ [Next]_vars => IInv'
<1> SUFFICES ASSUME IInv, [Next]_vars PROVE IInv'
  OBVIOUS
<1>1. CASE UNCHANGED vars
  BY <1>1 DEF vars, flags, asio, thread, IInv, TypeOK, OwnerInv, WorkerInv,
              NoTimerAfterCancel, Open
<1> QED
  BY <1>1, OwnerIInv, CallIInv, WorkerIInv DEF Next

(* The variables keep their types. *)
THEOREM TypeCorrect == Spec => []TypeOK
<1>1. IInv => TypeOK
  BY DEF IInv
<1> QED
  BY <1>1, InitIInv, NextIInv, PTL DEF Spec

(* Once stop has returned there is no worker and no task halfway. *)
THEOREM StopWaits == Spec => []StopWaitsForTheWorker
<1>1. IInv => StopWaitsForTheWorker
  BY DEF IInv, OwnerInv, WorkerInv, StopWaitsForTheWorker
<1> QED
  BY <1>1, InitIInv, NextIInv, PTL DEF Spec

(* A schedule that races with stop leaves no timer in timers_. *)
THEOREM NoTimerEscapes == Spec => []NoTimerAfterCancel
<1>1. IInv => NoTimerAfterCancel
  BY DEF IInv
<1> QED
  BY <1>1, InitIInv, NextIInv, PTL DEF Spec

-----------------------------------------------------------------------------
(* The refinement *)

InHand == IF worker = "check" THEN <<inHand>> ELSE <<>>

LEMMA InitQueue == Init => Queue!Init
BY EmptySeq, ConcatEmptySeq DEF Init, Queue!Init, Open

(* The queue in the states that the lemmas below compare *)
LEMMA QueueOf ==
    ASSUME TypeOK, WorkerInv
    PROVE  /\ InHand \in Seq(Jobs)
           /\ InHand \o strand \in Seq(Jobs)
           /\ worker # "check" => InHand \o strand = strand
<1>1. worker = "check" => inHand \in Jobs
  BY DEF TypeOK, WorkerInv
<1>2. InHand \in Seq(Jobs)
  BY <1>1, EmptySeq DEF InHand
<1>3. strand \in Seq(Jobs)
  BY DEF TypeOK
<1> QED
  BY <1>2, <1>3, ConcatProperties, ConcatEmptySeq DEF InHand

(* A job put at the end of the strand is put at the end of the queue. *)
LEMMA EnqueueQueue ==
    ASSUME TypeOK, WorkerInv, NEW j \in Jobs, strand' = Append(strand, j),
           UNCHANGED <<worker, inHand>>
    PROVE  (InHand \o strand)' = Append(InHand \o strand, j)
<1>1. InHand' = InHand
  BY DEF InHand
<1>2. strand \in Seq(Jobs) /\ <<j>> \in Seq(Jobs)
  BY DEF TypeOK
<1>3. strand' = strand \o <<j>>
  BY <1>2, AppendIsConcat
<1>4. Append(InHand \o strand, j) = (InHand \o strand) \o <<j>>
  BY QueueOf, AppendIsConcat
<1>5. (InHand \o strand) \o <<j>> = InHand \o (strand \o <<j>>)
  BY <1>2, QueueOf, ConcatAssociative
<1> QED
  BY <1>1, <1>3, <1>4, <1>5

LEMMA StepQueue ==
    IInv /\ [Next]_vars
    => [Queue!Next]_<<InHand \o strand, task, Open>>
<1> SUFFICES ASSUME IInv, [Next]_vars
             PROVE  [Queue!Next]_<<InHand \o strand, task, Open>>
  OBVIOUS
<1> USE DEF IInv, flags, asio, thread
<1> DEFINE q == InHand \o strand
<1>0. q \in Seq(Jobs) /\ strand \in Seq(Jobs) /\ InHand \in Seq(Jobs)
  BY QueueOf DEF TypeOK
<1>a. ASSUME NEW c \in Callers, Enqueue(c) PROVE Queue!Next
  <2>1. calls[c].job \in Jobs
    BY <1>a, CallsHaveJobs DEF Enqueue
  <2>2. q' = Append(q, calls[c].job)
    BY <1>a, <2>1, EnqueueQueue DEF Enqueue
  <2>3. Queue!Accept(calls[c].job)
    BY <1>a, <2>2 DEF Enqueue, Queue!Accept, InHand, Open
  <2> QED
    BY <2>1, <2>3 DEF Queue!Next
<1>1. CASE Start
  BY <1>1 DEF Start, InHand, Open
<1>2. CASE Stop
  <2> Queue!Close
    BY <1>2 DEF Stop, Queue!Close, InHand, Open
  <2> QED
    BY DEF Queue!Next
<1>3. CASE ClearStopping
  <2> Open' = Open
    BY <1>3 DEF ClearStopping, Open, OwnerInv
  <2> QED
    BY <1>3 DEF ClearStopping, InHand
<1>4. CASE Spawn
  <2> worker = "none" /\ worker' = "loop"
    BY <1>4 DEF Spawn, OwnerInv
  <2> QED
    BY <1>4 DEF Spawn, InHand, Open
<1>5. CASE CancelAllTimers
  <2>1. PICK s \in Orders(waiting \cap timers) : strand' = strand \o s
    BY <1>5 DEF CancelAllTimers
  <2>2. s \in Seq(Jobs)
    BY <2>1, OrdersAreSequences DEF TypeOK
  <2>3. q' = q \o s
    <3>1. InHand' = InHand
      BY <1>5 DEF CancelAllTimers, InHand
    <3> QED
      BY <1>0, <2>1, <2>2, <3>1, ConcatAssociative
  <2>4. /\ Len(q) \in Nat /\ Len(s) \in Nat
        /\ Len(q \o s) = Len(q) + Len(s)
    BY <1>0, <2>2, ConcatProperties, LenProperties
  <2>5. SubSeq(q \o s, 1, Len(q)) = q
    <3>1. CASE Len(q) = 0
      BY <1>0, <3>1, EmptySeq, SubSeqEmpty
    <3>2. CASE Len(q) # 0
      BY <1>0, <2>2, <2>4, <3>2, SubSeqOfConcat1, SubSeqFull
    <3> QED
      BY <3>1, <3>2
  <2>6. ~Open /\ UNCHANGED <<task, Open>>
    BY <1>5 DEF CancelAllTimers, Open, OwnerInv
  <2>7. Len(q) <= Len(q') /\ SubSeq(q', 1, Len(q)) = q
    BY <2>3, <2>4, <2>5
  <2> QED
    BY <2>6, <2>7 DEF Queue!Abort, Queue!Next, InHand
<1>6. CASE StopContext
  <2> Queue!Close
    BY <1>6 DEF StopContext, Queue!Close, InHand, Open
  <2> QED
    BY DEF Queue!Next
<1>7. CASE Join
  BY <1>7 DEF Join, Joins, InHand, Open
<1>8. CASE \E h \in Hosts : Post(h) \/ Enqueue(h)
  <2>1. CASE \E h \in Hosts : Enqueue(h)
    BY <1>a, <2>1, CallersExist
  <2>2. CASE \E h \in Hosts : Post(h)
    BY <2>2 DEF Post, InHand, Open
  <2> QED
    BY <1>8, <2>1, <2>2
<1>9. CASE WorkerCalls
  <2>1. CASE Post(Worker)
    BY <2>1 DEF Post, InHand, Open
  <2>2. CASE Enqueue(Worker)
    BY <1>a, <2>2, CallersExist
  <2>3. CASE Schedule
    BY <2>3 DEF Schedule, InHand, Open
  <2>4. CASE RegisterTimer
    BY <2>4 DEF RegisterTimer, InHand, Open
  <2>5. CASE Arm
    BY <2>5 DEF Arm, InHand, Open
  <2> QED
    BY <1>9, <2>1, <2>2, <2>3, <2>4, <2>5 DEF WorkerCalls
<1>10. CASE EnterRun
  BY <1>10 DEF EnterRun, InHand, Open
<1>11. CASE RunReturns
  BY <1>11 DEF RunReturns, AfterRun, InHand, Open
<1>12. CASE Expire
  <2>1. PICK j \in waiting : strand' = Append(strand, j)
    BY <1>12 DEF Expire
  <2>2. j \in Jobs
    BY DEF TypeOK, Jobs
  <2>3. q' = Append(q, j)
    BY <1>12, <2>1, <2>2, EnqueueQueue DEF Expire
  <2>4. Queue!Accept(j)
    BY <1>12, <2>3 DEF Expire, Queue!Accept, InHand, Open
  <2> QED
    BY <2>2, <2>4 DEF Queue!Next
<1>13. CASE RunStrand
  BY <1>13 DEF RunStrand, InHand, Open
<1>14. CASE TakeHandler
  <2>1. strand # <<>>
    BY <1>14, EmptySeq DEF TakeHandler, TypeOK
  <2>2. InHand' = <<Head(strand)>> /\ strand' = Tail(strand)
    BY <1>14 DEF TakeHandler, InHand
  <2>3. q' = strand
    BY <1>0, <2>1, <2>2, HeadAndTail
  <2>4. q = strand
    BY <1>14, QueueOf DEF TakeHandler
  <2> QED
    BY <1>14, <2>3, <2>4 DEF TakeHandler, Open
<1>15. CASE Execute
  <2>1. inHand \in Jobs /\ InHand = <<inHand>> /\ task = None
    BY <1>15 DEF Execute, TypeOK, WorkerInv, InHand
  <2>2. q # <<>> /\ Head(q) = inHand /\ Tail(q) = strand
    BY <1>0, <2>1, Cons
  <2>3. InHand' = <<>> /\ strand' = strand
    BY <1>15 DEF Execute, InHand
  <2>4. q' = strand
    BY <1>0, <2>3, ConcatEmptySeq
  <2>5. Open
    BY <1>15 DEF Execute, HandlerSeesStop, Open, WorkerInv
  <2>6. Queue!Begin
    BY <1>15, <2>1, <2>2, <2>4, <2>5 DEF Execute, Queue!Begin, Open, InHand
  <2> QED
    BY <2>6 DEF Queue!Next
<1>16. CASE Ignore
  <2>1. inHand \in Jobs /\ InHand = <<inHand>>
    BY <1>16 DEF Ignore, TypeOK, WorkerInv, InHand
  <2>2. q # <<>> /\ Tail(q) = strand
    BY <1>0, <2>1, Cons
  <2>3. InHand' = <<>> /\ strand' = strand
    BY <1>16 DEF Ignore, InHand
  <2>4. q' = strand
    BY <1>0, <2>3, ConcatEmptySeq
  <2>5. ~Open
    BY <1>16 DEF Ignore, HandlerSeesStop, Open, WorkerInv
  <2>6. Queue!Skip
    BY <1>16, <2>2, <2>4, <2>5 DEF Ignore, Queue!Skip, Open, InHand
  <2> QED
    BY <2>6 DEF Queue!Next
<1>17. CASE TaskEnds
  <2> Queue!End
    BY <1>17 DEF TaskEnds, Queue!End, InHand, Open, WorkerInv
  <2> QED
    BY DEF Queue!Next
<1>18. CASE TaskThrows
  <2> Queue!End
    BY <1>18 DEF TaskThrows, AfterThrow, Queue!End, InHand, Open, WorkerInv
  <2> QED
    BY DEF Queue!Next
<1>19. CASE UNCHANGED vars
  BY <1>19 DEF vars, InHand, Open
<1> QED
  BY <1>1, <1>2, <1>3, <1>4, <1>5, <1>6, <1>7, <1>8, <1>9, <1>10, <1>11,
     <1>12, <1>13, <1>14, <1>15, <1>16, <1>17, <1>18, <1>19
  DEF Next, OwnerGoesOn, WorkerGoesOn

(* The executor keeps the promise of a serial queue: in order, one at a    *)
(* time, and nothing begins after stop, in any race of posts, schedules,   *)
(* expirations and stops.                                                  *)
THEOREM ExecutorIsASerialQueue == Spec => ImplementsSerialQueue
<1>1. IInv /\ [Next]_vars => [Queue!Next]_<<InHand \o strand, task, Open>>
  BY StepQueue
<1> QED
  BY <1>1, InitIInv, NextIInv, InitQueue, PTL
     DEF Spec, ImplementsSerialQueue, Queue!Spec, InHand

-----------------------------------------------------------------------------
(* The set timers_ *)

In(s, j) == \E i \in 1..Len(s) : s[i] = j
Once(s, j) == \A i, k \in 1..Len(s) : s[i] = j /\ s[k] = j => i = k

(* Until the timers are cancelled *)
BeforeCancel == ~contextStopped /\ (stopping => owner = "cancel")

(* A timer of timers_ is in one of three places, *)
Tracked(j) ==
    j \in timers <=> j \in waiting \/ calls[Worker] = Call("arm", j) \/ In(strand, j)

(* and in only one of them; none that was never scheduled is anywhere. *)
OnePlace(j) ==
    /\ Once(strand, j)
    /\ j \in waiting => ~In(strand, j)
    /\ j \in waiting \/ In(strand, j) => calls[Worker].job # j /\ j \in used
    /\ calls[Worker].job = j => j \in used

TrackInv == BeforeCancel => \A j \in Timers : Tracked(j) /\ OnePlace(j)

(* What is in a sequence with an element more *)
LEMMA InAppend ==
    ASSUME NEW s \in Seq(Jobs), NEW x \in Jobs, NEW j
    PROVE  /\ In(Append(s, x), j) <=> In(s, j) \/ j = x
           /\ Once(s, j) /\ (j = x => ~In(s, j)) => Once(Append(s, x), j)
<1> DEFINE t == Append(s, x)
<1>1. /\ Len(s) \in Nat /\ Len(t) = Len(s) + 1 /\ t[Len(s) + 1] = x
      /\ \A i \in 1..Len(s) : t[i] = s[i]
  BY AppendProperties, LenProperties
<1> HIDE DEF t
<1>2. In(t, j) <=> In(s, j) \/ j = x
  <2>1. ASSUME In(t, j) PROVE In(s, j) \/ j = x
    <3>1. PICK i \in 1..Len(t) : t[i] = j
      BY <2>1 DEF In
    <3>2. i \in 1..Len(s) \/ i = Len(s) + 1
      BY <1>1, <3>1
    <3> QED
      BY <1>1, <3>1, <3>2 DEF In
  <2>2. ASSUME In(s, j) PROVE In(t, j)
    <3>1. PICK i \in 1..Len(s) : s[i] = j
      BY <2>2 DEF In
    <3>2. i \in 1..Len(t) /\ t[i] = j
      BY <1>1, <3>1
    <3> QED
      BY <3>2 DEF In
  <2>3. ASSUME j = x PROVE In(t, j)
    <3>1. Len(s) + 1 \in 1..Len(t)
      BY <1>1
    <3> QED
      BY <1>1, <2>3, <3>1 DEF In
  <2> QED
    BY <2>1, <2>2, <2>3
<1>3. ASSUME Once(s, j), j = x => ~In(s, j) PROVE Once(t, j)
  <2> SUFFICES ASSUME NEW i \in 1..Len(t), NEW k \in 1..Len(t),
                      t[i] = j, t[k] = j
               PROVE  i = k
    BY DEF Once
  <2>1. (i \in 1..Len(s) \/ i = Len(s) + 1) /\ (k \in 1..Len(s) \/ k = Len(s) + 1)
    BY <1>1
  <2> QED
    BY <1>1, <1>3, <2>1 DEF Once, In
<1> QED
  BY <1>2, <1>3 DEF t

(* ... and with its first element taken *)
LEMMA InTail ==
    ASSUME NEW s \in Seq(Jobs), s # <<>>, NEW j
    PROVE  /\ In(s, j) <=> In(Tail(s), j) \/ j = Head(s)
           /\ Once(s, j) => Once(Tail(s), j)
           /\ Once(s, j) /\ j = Head(s) => ~In(Tail(s), j)
<1> DEFINE t == Tail(s)
<1>1. /\ Len(s) \in Nat /\ Len(t) \in Nat /\ Len(s) = 1 + Len(t)
      /\ Head(s) = s[1]
      /\ \A i \in 1..Len(t) : t[i] = s[i + 1]
  BY HeadTailProperties, LenProperties
<1> HIDE DEF t
<1>2. ASSUME In(s, j) PROVE In(t, j) \/ j = Head(s)
  <2>1. PICK i \in 1..Len(s) : s[i] = j
    BY <1>2 DEF In
  <2>2. CASE i = 1
    BY <1>1, <2>1, <2>2
  <2>3. CASE i # 1
    <3>1. i - 1 \in 1..Len(t) /\ (i - 1) + 1 = i
      BY <1>1, <2>1, <2>3
    <3>2. t[i - 1] = j
      BY <1>1, <2>1, <3>1
    <3> QED
      BY <3>1, <3>2 DEF In
  <2> QED
    BY <2>2, <2>3
<1>3. ASSUME NEW i \in 1..Len(t) PROVE i + 1 \in 1..Len(s) /\ i + 1 # 1 /\ s[i + 1] = t[i]
  BY <1>1
<1>4. ASSUME In(t, j) \/ j = Head(s) PROVE In(s, j)
  <2>1. 1 \in 1..Len(s)
    BY <1>1
  <2> QED
    BY <1>1, <1>3, <1>4, <2>1 DEF In
<1>5. ASSUME Once(s, j) PROVE Once(t, j)
  <2> SUFFICES ASSUME NEW i \in 1..Len(t), NEW k \in 1..Len(t),
                      t[i] = j, t[k] = j
               PROVE  i = k
    BY DEF Once
  <2>1. i + 1 = k + 1
    BY <1>3, <1>5 DEF Once
  <2> QED
    BY <1>1, <2>1
<1>6. ASSUME Once(s, j), j = Head(s), In(t, j) PROVE FALSE
  <2>1. PICK i \in 1..Len(t) : t[i] = j
    BY <1>6 DEF In
  <2>2. i + 1 \in 1..Len(s) /\ i + 1 # 1 /\ s[i + 1] = j
    BY <1>3, <2>1
  <2>3. 1 \in 1..Len(s) /\ s[1] = j
    BY <1>1, <1>6
  <2> QED
    BY <1>6, <2>2, <2>3 DEF Once
<1> QED
  BY <1>2, <1>4, <1>5, <1>6 DEF t

(* Nothing that the code does to timers_ is undone by cancelling. *)
LEMMA StillBeforeCancel ==
    ASSUME IInv, [Next]_vars, BeforeCancel'
    PROVE  BeforeCancel /\ ~CancelAllTimers
<1> USE DEF IInv, TypeOK, OwnerInv, BeforeCancel, flags, asio, thread
<1>1. CASE Start
  BY <1>1 DEF Start, CancelAllTimers
<1>2. CASE Stop
  BY <1>2 DEF Stop, CancelAllTimers
<1>3. CASE ClearStopping
  BY <1>3 DEF ClearStopping, CancelAllTimers
<1>4. CASE CancelAllTimers
  BY <1>4 DEF CancelAllTimers
<1>5. CASE StopContext
  BY <1>5 DEF StopContext
<1>6. CASE Spawn \/ Join
  BY <1>6 DEF Spawn, Join, CancelAllTimers
<1> HIDE DEF flags, asio, thread
<1>7. CASE \E c \in Callers : Post(c) \/ Enqueue(c)
  BY <1>7 DEF Post, Enqueue, flags, asio, CancelAllTimers
<1>8. CASE Schedule \/ RegisterTimer \/ Arm
  BY <1>8 DEF Schedule, RegisterTimer, Arm, flags, asio, CancelAllTimers
<1>9. CASE WorkerGoesOn \/ Expire
  BY <1>9 DEF WorkerGoesOn, EnterRun, RunReturns, RunStrand, TakeHandler,
              Execute, Ignore, TaskEnds, TaskThrows, Expire, flags, asio,
              CancelAllTimers
<1>10. CASE UNCHANGED vars
  BY <1>10 DEF vars, flags, asio, CancelAllTimers
<1> QED
  BY <1>1, <1>2, <1>3, <1>4, <1>5, <1>6, <1>7, <1>8, <1>9, <1>10, CallersExist
  DEF Next, OwnerGoesOn, WorkerCalls

LEMMA InitTrack == Init => TrackInv
<1> SUFFICES ASSUME Init, NEW j \in Timers PROVE Tracked(j) /\ OnePlace(j)
  BY DEF TrackInv
<1>1. Len(strand) = 0
  BY DEF Init
<1>2. ~In(strand, j) /\ Once(strand, j)
  BY <1>1 DEF In, Once
<1>3. calls[Worker] = Idle
  BY CallersExist DEF Init
<1>4. j # None
  BY ExecutorAssumption DEF Jobs
<1> QED
  BY <1>2, <1>3, <1>4 DEF Init, Tracked, OnePlace, Idle, Call

LEMMA NextTrack == IInv /\ TrackInv /\ [Next]_vars => TrackInv'
<1> SUFFICES ASSUME IInv, TrackInv, [Next]_vars, BeforeCancel', NEW j \in Timers
             PROVE  Tracked(j)' /\ OnePlace(j)'
  BY DEF TrackInv
<1>a. BeforeCancel /\ ~CancelAllTimers
  BY StillBeforeCancel
<1>b. Tracked(j) /\ OnePlace(j)
  BY <1>a DEF TrackInv
<1>c. TypeOK /\ WorkerInv /\ strand \in Seq(Jobs) /\ Worker \in Callers
      /\ calls \in [Callers -> InProgress \cup {Idle}]
  BY CallersExist DEF IInv, TypeOK
<1>d. j \notin Tasks /\ j # None /\ j \in Jobs
  BY ExecutorAssumption DEF Jobs
<1>e. ASSUME UNCHANGED <<timers, waiting, strand, used>>, UNCHANGED calls[Worker]
      PROVE  Tracked(j)' /\ OnePlace(j)'
  BY <1>b, <1>e DEF Tracked, OnePlace
<1>1. CASE Start \/ Stop \/ ClearStopping \/ Spawn \/ StopContext \/ Join
  BY <1>1, <1>e DEF Start, Stop, ClearStopping, Spawn, StopContext, Join, asio
<1>2. ASSUME NEW c \in Callers, Post(c) PROVE Tracked(j)' /\ OnePlace(j)'
  <2>1. PICK t \in Tasks : calls' = [calls EXCEPT ![c] = Call("enqueue", t)]
                           /\ used' = used \cup {t}
    BY <1>2 DEF Post, Goes
  <2>2. UNCHANGED <<timers, waiting, strand>>
    BY <1>2 DEF Post, asio
  <2>3. CASE c = Worker
    <3>1. calls'[Worker] = Call("enqueue", t) /\ calls[Worker] = Idle
      BY <1>2, <1>c, <2>1, <2>3 DEF Post, MayCall
    <3>2. calls'[Worker].job # j /\ calls'[Worker] # Call("arm", j)
          /\ calls[Worker] # Call("arm", j)
      BY <1>d, <3>1 DEF Call, Idle
    <3> QED
      BY <1>b, <2>1, <2>2, <3>2 DEF Tracked, OnePlace
  <2>4. CASE c # Worker
    <3>1. calls'[Worker] = calls[Worker]
      BY <1>c, <2>1, <2>4
    <3> QED
      BY <1>b, <2>1, <2>2, <3>1 DEF Tracked, OnePlace
  <2> QED
    BY <2>3, <2>4
<1>3. ASSUME NEW c \in Callers, Enqueue(c) PROVE Tracked(j)' /\ OnePlace(j)'
  <2>1. calls[c].job \in Tasks
    BY <1>3, <1>c DEF Enqueue, InProgress, Call, Idle
  <2>2. calls[c].job \in Jobs /\ calls[c].job # j
    BY <1>d, <2>1 DEF Jobs
  <2>3. strand' = Append(strand, calls[c].job) /\ UNCHANGED <<timers, waiting, used>>
    BY <1>3 DEF Enqueue
  <2>4. (In(strand', j) <=> In(strand, j)) /\ (Once(strand, j) => Once(strand', j))
    BY <1>c, <2>2, <2>3, InAppend
  <2>5. calls'[Worker] = calls[Worker] \/ (calls'[Worker] = Idle /\ c = Worker)
    BY <1>3, <1>c DEF Enqueue, Returns
  <2>6. c = Worker => calls[Worker] # Call("arm", j)
    BY <2>2 DEF Call
  <2>7. Idle # Call("arm", j) /\ Idle.job # j
    BY <1>d DEF Call, Idle
  <2>8. (calls'[Worker] = Call("arm", j) <=> calls[Worker] = Call("arm", j))
        /\ (calls'[Worker].job = j => calls[Worker].job = j)
    BY <2>5, <2>6, <2>7
  <2> QED
    BY <1>b, <2>3, <2>4, <2>8 DEF Tracked, OnePlace
<1>4. CASE Schedule
  <2>1. PICK t \in Timers \ used :
            calls' = [calls EXCEPT ![Worker] = Call("register", t)]
            /\ used' = used \cup {t}
    BY <1>4 DEF Schedule, Goes
  <2>2. UNCHANGED <<timers, waiting, strand>> /\ calls[Worker] = Idle
    BY <1>4 DEF Schedule, asio, MayCall
  <2>3. calls'[Worker] = Call("register", t)
    BY <1>c, <2>1
  <2>4. calls'[Worker].job = t /\ calls'[Worker] # Call("arm", j)
        /\ calls[Worker] # Call("arm", j)
    BY <2>2, <2>3 DEF Call, Idle
  <2>5. t = j => ~(j \in waiting \/ In(strand, j))
    BY <1>b, <2>1 DEF OnePlace
  <2> QED
    BY <1>b, <2>1, <2>2, <2>4, <2>5 DEF Tracked, OnePlace
<1>5. CASE RegisterTimer
  <2>1. PICK t : calls[Worker] = Call("register", t)
    BY <1>5, <1>c DEF RegisterTimer, InProgress, Call, Idle
  <2>2. UNCHANGED <<stopping, contextStopped, waiting, strand, used>>
    BY <1>5 DEF RegisterTimer, flags, asio
  <2>3. calls[Worker] # Call("arm", j) /\ calls[Worker].job = t
    BY <2>1 DEF Call
  <2>4. CASE stopping
    <3>1. calls'[Worker] = Idle /\ UNCHANGED timers
      BY <1>5, <1>c, <2>4 DEF RegisterTimer, RegisterTimerSeesStop, Returns
    <3>2. calls'[Worker].job # j /\ calls'[Worker] # Call("arm", j)
      BY <1>d, <3>1 DEF Call, Idle
    <3> QED
      BY <1>b, <2>2, <2>3, <3>1, <3>2 DEF Tracked, OnePlace
  <2>5. CASE ~stopping
    <3>1. calls'[Worker] = Call("arm", t) /\ timers' = timers \cup {t}
      BY <1>5, <1>c, <2>3, <2>5 DEF RegisterTimer, RegisterTimerSeesStop, Goes
    <3>2. calls'[Worker].job = t /\ (calls'[Worker] = Call("arm", j) <=> t = j)
      BY <3>1 DEF Call
    <3> QED
      BY <1>b, <2>2, <2>3, <3>1, <3>2 DEF Tracked, OnePlace
  <2> QED
    BY <2>4, <2>5
<1>6. CASE Arm
  <2>1. PICK t : calls[Worker] = Call("arm", t)
    BY <1>6, <1>c DEF Arm, InProgress, Call, Idle
  <2>2. calls[Worker].job = t /\ (calls[Worker] = Call("arm", j) <=> t = j)
    BY <2>1 DEF Call
  <2>3. waiting' = waiting \cup {t} /\ UNCHANGED <<strand, timers, used>>
    BY <1>6, <2>2 DEF Arm
  <2>4. calls'[Worker] = Idle
    BY <1>6, <1>c DEF Arm, Returns
  <2>5. calls'[Worker].job # j /\ calls'[Worker] # Call("arm", j)
    BY <1>d, <2>4 DEF Call, Idle
  <2> QED
    BY <1>b, <2>2, <2>3, <2>5 DEF Tracked, OnePlace
<1>7. CASE Expire
  <2>1. PICK t \in waiting : waiting' = waiting \ {t} /\ strand' = Append(strand, t)
    BY <1>7 DEF Expire
  <2>2. t \in Jobs
    BY <1>c DEF TypeOK, Jobs
  <2>3. UNCHANGED <<timers, used, calls>>
    BY <1>7 DEF Expire
  <2>4. /\ In(strand', j) <=> In(strand, j) \/ j = t
        /\ Once(strand, j) /\ (j = t => ~In(strand, j)) => Once(strand', j)
    BY <1>c, <2>1, <2>2, InAppend
  <2> QED
    BY <1>b, <2>1, <2>3, <2>4 DEF Tracked, OnePlace
<1>8. CASE TakeHandler
  <2>1. strand # <<>>
    BY <1>8, <1>c, EmptySeq DEF TakeHandler, TypeOK
  <2>2. /\ strand' = Tail(strand) /\ timers' = timers \ {Head(strand)}
        /\ UNCHANGED <<waiting, used, calls>>
    BY <1>8 DEF TakeHandler, UnregisterTimer
  <2>3. calls[Worker] = Idle
    BY <1>8, <1>c DEF TakeHandler, WorkerInv
  <2>4. calls[Worker] # Call("arm", j)
    BY <2>3 DEF Call, Idle
  <2>5. /\ In(strand, j) <=> In(strand', j) \/ j = Head(strand)
        /\ Once(strand, j) => Once(strand', j)
        /\ Once(strand, j) /\ j = Head(strand) => ~In(strand', j)
    BY <1>c, <2>1, <2>2, InTail
  <2> QED
    BY <1>b, <2>2, <2>4, <2>5 DEF Tracked, OnePlace
<1>9. CASE EnterRun \/ RunReturns \/ RunStrand \/ Execute \/ Ignore
           \/ TaskEnds \/ TaskThrows
  BY <1>9, <1>e DEF EnterRun, RunReturns, RunStrand, Execute, Ignore, TaskEnds,
                    TaskThrows, asio
<1>10. CASE UNCHANGED vars
  BY <1>10, <1>e DEF vars, asio
<1> QED
  BY <1>a, <1>1, <1>2, <1>3, <1>4, <1>5, <1>6, <1>7, <1>8, <1>9, <1>10, CallersExist
  DEF Next, OwnerGoesOn, WorkerCalls, WorkerGoesOn

(* Until stop cancels them, timers_ holds the timers that are still to be  *)
(* heard of and no others: stop reaches every one, and none leaks.         *)
THEOREM TimersAreTracked == Spec => []TimersTracked
<1>1. IInv /\ TrackInv => TimersTracked
  <2> SUFFICES ASSUME IInv, TrackInv, BeforeCancel
               PROVE  timers = waiting \cup Registered \cup (Timers \cap Range(strand))
    BY DEF TimersTracked, BeforeCancel
  <2>1. \A j \in Timers : Tracked(j)
    BY DEF TrackInv
  <2>2. \A j \in Timers : j \in Range(strand) <=> In(strand, j)
    <3>1. strand \in Seq(Jobs) /\ DOMAIN strand = 1..Len(strand)
      BY LenProperties DEF IInv, TypeOK
    <3> QED
      BY <3>1 DEF Range, In
  <2>3. timers \subseteq Timers /\ waiting \subseteq Timers /\ Registered \subseteq Timers
    BY DEF IInv, TypeOK, Registered
  <2>4. \A j \in Timers :
            j \in timers <=> j \in waiting \/ j \in Registered \/ j \in Range(strand)
    BY <2>1, <2>2 DEF Tracked, Registered
  <2> QED
    BY <2>3, <2>4
<1>2. Init => IInv /\ TrackInv
  BY InitIInv, InitTrack
<1>3. IInv /\ TrackInv /\ [Next]_vars => (IInv /\ TrackInv)'
  BY NextIInv, NextTrack
<1> QED
  BY <1>1, <1>2, <1>3, PTL DEF Spec
=============================================================================
