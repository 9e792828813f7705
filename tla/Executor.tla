------------------------------ MODULE Executor ------------------------------
(***************************************************************************)
(* The serial executor of both programs, src/runtime/executor.cpp: one     *)
(* worker thread in an asio io_context, a strand, a set of timers, and the *)
(* two flags started_ and stopping_.                                       *)
(*                                                                         *)
(* Threads: the owner, who calls start and stop (the runtime of either     *)
(* program); the hosts, who post (the callbacks of the client's host, the  *)
(* reader of the server); and the worker, whose tasks post and schedule.   *)
(* A step is a look at a flag, a critical section of timers_mutex_, or a   *)
(* call of asio.                                                           *)
(***************************************************************************)
EXTENDS Integers, Sequences, FiniteSets, Functions

CONSTANTS Hosts,        (* the threads that post from outside              *)
          Worker,       (* the worker, as a caller                         *)
          Tasks,        (* what is posted, each once                       *)
          Timers,       (* what is scheduled, each once                    *)
          None

Callers == Hosts \cup {Worker}
Jobs == Tasks \cup Timers

ASSUME ExecutorAssumption ==
    /\ Worker \notin Hosts
    /\ Tasks \cap Timers = {}
    /\ None \notin Jobs
    /\ IsFiniteSet(Timers)

VARIABLES started, stopping,    (* started_ and stopping_                  *)
          owner,        (* where the owner is in start or stop             *)
          contextStopped,       (* context_.stopped()                      *)
          timers,       (* timers_                                         *)
          waiting,      (* timers with an asynchronous wait                *)
          aborted,      (* timers whose wait was cancelled                 *)
          strand,       (* the handlers queued on strand_                  *)
          batch,        (* how many of them asio runs without looking at   *)
                        (* the context again                               *)
          worker,       (* where the worker thread is                      *)
          inHand,       (* the handler it has begun                        *)
          task,         (* the task that is executing                      *)
          calls,        (* each caller's post or schedule                  *)
          used          (* the jobs that were ever posted or scheduled     *)

flags == <<started, stopping, owner>>
asio == <<contextStopped, waiting, aborted, strand>>
thread == <<batch, worker, inHand, task>>
vars == <<flags, asio, timers, thread, calls, used>>

Idle == [at |-> "idle", job |-> None]
Call(at, j) == [at |-> at, job |-> j]
InProgress ==
    {Call("enqueue", j) : j \in Tasks}
      \cup {Call(at, j) : at \in {"register", "arm"}, j \in Timers}

TypeOK ==
    /\ started \in BOOLEAN /\ stopping \in BOOLEAN
    /\ owner \in {"idle", "clear", "spawn", "cancel", "context", "join"}
    /\ contextStopped \in BOOLEAN
    /\ timers \subseteq Timers
    /\ waiting \subseteq Timers
    /\ aborted \subseteq Timers
    /\ strand \in Seq(Jobs)
    /\ batch \in 0..Len(strand)
    /\ worker \in {"none", "loop", "run", "check", "task", "ended"}
    /\ {inHand, task} \subseteq Jobs \cup {None}
    /\ calls \in [Callers -> InProgress \cup {Idle}]
    /\ used \subseteq Jobs

Init ==
    /\ started = FALSE /\ stopping = FALSE /\ owner = "idle"
    /\ contextStopped = FALSE
    /\ timers = {} /\ waiting = {} /\ aborted = {}
    /\ strand = <<>> /\ batch = 0
    /\ worker = "none" /\ inHand = None /\ task = None
    /\ calls = [c \in Callers |-> Idle]
    /\ used = {}

-----------------------------------------------------------------------------
(* What the code looks at, and, for the mutation runs, code that does not  *)
Never == FALSE
Always == TRUE
Ends == "ended"
Loops == "loop"
Leave(j) == UNCHANGED timers
Insert(j) == timers' = timers \cup {j}

(* the handler, before it executes its task *)
HandlerSeesStop == stopping
(* registerTimer, which looks again, under timers_mutex_ *)
RegisterTimerSeesStop == stopping
(* unregisterTimer, which the handler of a timer calls first *)
UnregisterTimer(j) == timers' = timers \ {j}
(* worker_.join() *)
Joins == worker = "ended"
(* workerLoop, after an exception that context_.run() lets through *)
AfterThrow == "loop"
(* ... and after context_.run() has returned *)
AfterRun == "ended"

-----------------------------------------------------------------------------
(* The owner: start.  A second start finds started_ set and returns. *)

Start ==
    /\ owner = "idle" /\ ~started
    /\ started' = TRUE
    /\ owner' = "clear"
    /\ UNCHANGED <<stopping, asio, timers, thread, calls, used>>

ClearStopping ==
    /\ owner = "clear"
    /\ stopping' = FALSE
    /\ owner' = "spawn"
    /\ UNCHANGED <<started, asio, timers, thread, calls, used>>

Spawn ==
    /\ owner = "spawn"
    /\ worker' = "loop"
    /\ owner' = "idle"
    /\ UNCHANGED <<started, stopping, asio, timers, batch, inHand, task, calls, used>>

(* The owner: stop.  A stop that finds started_ clear returns. *)
Stop ==
    /\ owner = "idle" /\ started
    /\ stopping' = TRUE
    /\ owner' = "cancel"
    /\ UNCHANGED <<started, asio, timers, thread, calls, used>>

Orders(S) == {s \in [1..Cardinality(S) -> S] : S \subseteq Range(s)}

(* cancelAllTimers: the waits end with an error, and their handlers are    *)
(* queued; a timer registered whose wait has not begun is merely forgotten *)
CancelAllTimers ==
    /\ owner = "cancel"
    /\ aborted' = aborted \cup (waiting \cap timers)
    /\ waiting' = waiting \ timers
    /\ \E s \in Orders(waiting \cap timers) : strand' = strand \o s
    /\ timers' = {}
    /\ owner' = "context"
    /\ UNCHANGED <<started, stopping, contextStopped, thread, calls, used>>

(* guard_.reset() and context_.stop() *)
StopContext ==
    /\ owner = "context"
    /\ contextStopped' = TRUE
    /\ owner' = "join"
    /\ UNCHANGED <<started, stopping, waiting, aborted, strand, timers, thread, calls, used>>

Join ==
    /\ owner = "join"
    /\ Joins
    /\ worker' = "none"
    /\ started' = FALSE
    /\ owner' = "idle"
    /\ UNCHANGED <<stopping, asio, timers, batch, inHand, task, calls, used>>

-----------------------------------------------------------------------------
(* Any caller: post and schedule.  The worker calls from within a task. *)

MayCall(c) == calls[c] = Idle /\ (c = Worker => worker = "task")
Goes(c, at, j) == calls' = [calls EXCEPT ![c] = Call(at, j)]
Returns(c) == calls' = [calls EXCEPT ![c] = Idle]

(* post finds stopping_ clear *)
Post(c) ==
    /\ MayCall(c)
    /\ ~stopping
    /\ \E j \in Tasks \ used : Goes(c, "enqueue", j) /\ used' = used \cup {j}
    /\ UNCHANGED <<flags, asio, timers, thread>>

(* boost::asio::post *)
Enqueue(c) ==
    /\ calls[c].at = "enqueue"
    /\ strand' = Append(strand, calls[c].job)
    /\ Returns(c)
    /\ UNCHANGED <<flags, contextStopped, waiting, aborted, timers, thread, used>>

(* schedule finds stopping_ clear: only tasks schedule, those of           *)
(* TimerControl                                                            *)
Schedule ==
    /\ MayCall(Worker)
    /\ ~stopping
    /\ \E j \in Timers \ used :
           Goes(Worker, "register", j) /\ used' = used \cup {j}
    /\ UNCHANGED <<flags, asio, timers, thread>>

RegisterTimer ==
    /\ calls[Worker].at = "register"
    /\ IF RegisterTimerSeesStop
         THEN Returns(Worker) /\ UNCHANGED timers
         ELSE Goes(Worker, "arm", calls[Worker].job)
                /\ timers' = timers \cup {calls[Worker].job}
    /\ UNCHANGED <<flags, asio, thread, used>>

(* async_wait *)
Arm ==
    /\ calls[Worker].at = "arm"
    /\ waiting' = waiting \cup {calls[Worker].job}
    /\ Returns(Worker)
    /\ UNCHANGED <<flags, contextStopped, aborted, strand, timers, thread, used>>

-----------------------------------------------------------------------------
(* The worker thread: workerLoop *)

EnterRun ==
    /\ worker = "loop"
    /\ worker' = "run"
    /\ UNCHANGED <<flags, asio, timers, batch, inHand, task, calls, used>>

(* context_.run() returns: the guard leaves it no other reason than stop *)
RunReturns ==
    /\ worker = "run"
    /\ contextStopped
    /\ batch = 0
    /\ worker' = AfterRun
    /\ UNCHANGED <<flags, asio, timers, batch, inHand, task, calls, used>>

(* asio notices that a timer has expired, between two handlers *)
Expire ==
    /\ worker = "run"
    /\ ~contextStopped
    /\ batch = 0
    /\ \E j \in waiting : waiting' = waiting \ {j} /\ strand' = Append(strand, j)
    /\ UNCHANGED <<flags, contextStopped, aborted, timers, thread, calls, used>>

(* The strand runs what is ready in one go *)
RunStrand ==
    /\ worker = "run"
    /\ ~contextStopped
    /\ batch = 0
    /\ batch' \in 1..Len(strand)
    /\ UNCHANGED <<flags, asio, timers, worker, inHand, task, calls, used>>

TakeHandler ==
    /\ worker = "run"
    /\ batch > 0
    /\ batch' = batch - 1
    /\ inHand' = Head(strand)
    /\ strand' = Tail(strand)
    /\ UnregisterTimer(Head(strand))
    /\ worker' = "check"
    /\ UNCHANGED <<flags, contextStopped, waiting, aborted, task, calls, used>>

(* ... and the task is executed, *)
Execute ==
    /\ worker = "check"
    /\ ~HandlerSeesStop /\ inHand \notin aborted
    /\ worker' = "task"
    /\ task' = inHand
    /\ inHand' = None
    /\ UNCHANGED <<flags, asio, timers, batch, calls, used>>

(* unless stop has been called or the wait was cancelled *)
Ignore ==
    /\ worker = "check"
    /\ HandlerSeesStop \/ inHand \in aborted
    /\ worker' = "run"
    /\ inHand' = None
    /\ UNCHANGED <<flags, asio, timers, batch, task, calls, used>>

(* The task returns, or throws a std::exception that executeTask catches *)
TaskEnds ==
    /\ worker = "task"
    /\ calls[Worker] = Idle
    /\ worker' = "run"
    /\ task' = None
    /\ UNCHANGED <<flags, asio, timers, batch, inHand, calls, used>>

(* The task throws something else, which leaves context_.run() for         *)
(* workerLoop; the strand keeps what it has not run                        *)
TaskThrows ==
    /\ worker = "task"
    /\ calls[Worker] = Idle
    /\ worker' = AfterThrow
    /\ task' = None
    /\ batch' = 0
    /\ UNCHANGED <<flags, asio, timers, inHand, calls, used>>

-----------------------------------------------------------------------------
OwnerGoesOn ==
    ClearStopping \/ Spawn \/ CancelAllTimers \/ StopContext \/ Join

WorkerCalls == Post(Worker) \/ Enqueue(Worker) \/ Schedule \/ RegisterTimer \/ Arm

WorkerGoesOn ==
    \/ EnterRun \/ RunReturns \/ RunStrand \/ TakeHandler
    \/ Execute \/ Ignore \/ TaskEnds \/ TaskThrows

Next ==
    \/ Start \/ Stop \/ OwnerGoesOn
    \/ \E h \in Hosts : Post(h) \/ Enqueue(h)
    \/ WorkerCalls \/ WorkerGoesOn \/ Expire

Spec == Init /\ [][Next]_vars

(* Threads go on, tasks end, and time passes; nobody has to start, stop,   *)
(* post or schedule                                                        *)
FairSpec ==
    /\ Spec
    /\ WF_vars(OwnerGoesOn)
    /\ WF_vars(WorkerGoesOn \/ Enqueue(Worker) \/ RegisterTimer \/ Arm)
    /\ \A j \in Timers : WF_vars(Expire /\ j \in waiting /\ j \notin waiting')
-----------------------------------------------------------------------------
Open == ~stopping /\ ~contextStopped

(* Tasks run one at a time, in order, and none begins once stop has been   *)
(* called: not one whose post raced with the stop, not one left on the     *)
(* strand or in a timer, and not after another start either, because       *)
(* nothing restarts the context.                                           *)
Queue == INSTANCE SerialQueue
           WITH queue <- (IF worker = "check" THEN <<inHand>> ELSE <<>>) \o strand,
                open <- Open
ImplementsSerialQueue == Queue!Spec

(* When stop has returned the worker is gone, and no task is halfway: what *)
(* tasks refer to can be destroyed.                                        *)
StopWaitsForTheWorker ==
    owner = "idle" /\ ~started => worker = "none" /\ task = None

(* Until they are cancelled, timers_ holds exactly the timers that have    *)
(* yet to be heard of, so that stop can reach every one of them, and none  *)
(* is kept after it has fired.                                             *)
Registered == {j \in Timers : calls[Worker] = Call("arm", j)}
TimersTracked ==
    ~contextStopped /\ (stopping => owner = "cancel")
    => timers = waiting \cup Registered \cup (Timers \cap Range(strand))

(* Once they are cancelled no timer enters timers_, although a task may be *)
(* halfway through schedule.                                               *)
NoTimerAfterCancel == stopping /\ owner # "cancel" => timers = {}

(* A job that was taken is executed, however long it waits behind others   *)
(* and whatever they throw, unless stop is called.                         *)
EveryJobRuns ==
    \A j \in Jobs :
        (j \in waiting \/ j \in Range(strand)) /\ worker # "none"
        ~> (task = j \/ ~Open)

(* A stop that was begun returns. *)
StopReturns == owner = "cancel" ~> (owner = "idle" /\ worker = "none")
=============================================================================
