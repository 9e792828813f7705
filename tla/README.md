# A verification project for rdp_ext

rdp_ext joins a client plugin (mstsc, FreeRDP) and a server program (WTS, xrdp)
over one RDP virtual channel. The two greet each other with Hello messages, the
client asks for telemetry, and the server then sends a CPU sample every second.
This directory holds TLA+ models of the program, TLC runs that check them and
proofs that TLAPS checks. Paths below are relative to the repository's root.

## 1. Inventory

| Part | State | Operations | Interacts with |
|---|---|---|---|
| `HandshakeState` (`src/logic/common/states.h`) | remote instance id, local Hello needed, completed | `reset`, `localHelloSent`, `remoteHelloReceived` | held by both state machines |
| `ClientStateMachine` | connection state, handshake, own instance id, `telemetry_requested` | `doStep` on Connected, Disconnected, MessageReceived, PingRequest | returns effects to its controller |
| `ServerStateMachine` | the same with `telemetry_enabled` | `doStep` on Connected, Disconnected, MessageReceived, CpuSampleReady | returns effects to its controller |
| `Controller` (client, server) | none of its own | handlers post tasks; `step`, `handleEffects` | transport, executor, telemetry |
| `TimerControl` | `running_`, the scheduled timers | `start`, `stop`, `postSample` | executor, sampler |
| `CpuSampler` | previous times | `reset`, `readSample` (may throw on Windows) | operating system |
| `Executor` | strand, timers, started and stopping flags | `start`, `stop`, `post`, `schedule` | one worker thread |
| `WtsTransport`, `WtsChannelHandle` | channel handle, worker state, mutex, running flag | `run` (reader thread), `send` (worker), `close`, `stop` | WTS API, server controller |
| `MstscTransport` | init and open handles, registration maps, pending writes | host callbacks, `send` | mstsc or FreeRDP, client controller |
| Messages, `Serializer` | none | factory functions, `serialize`, `deserialize` | everything that talks |
| Runtimes, logging, apps | ownership only | construction, `run`, `stop` | the rest |

How they interact: transport threads never touch a state machine. They post tasks
to the executor's strand; its one worker runs one task at a time, steps the state
machine and handles the effects it returns. A message to send becomes a task of its
own. An expired timer is run by the same worker.

What is hard here:

* three threads of control on the server (reader, worker, timers) and three on the
  client (the host's events, the host's data, worker), and what is posted by one while
  another has already moved on: Disconnected before Connected, data before Connected, data
  after Disconnected, sends of an old connection on a new one;
* loss while one end is closed, reconnects of one end that the other does not
  notice, restarts of a process, with no timeout and no retry anywhere;
* a channel that two threads close, of which each makes its system calls and calls the
  handlers outside the mutex;
* a timer that `stop` does not disarm; a sampler that throws in the middle of
  the effects of a step; `stop` of the executor while posts and timers arrive;
* builds of different protocol versions; counters that wrap around.

What makes each part correct:

* *Hello exchange*: two sides that fall silent on an open channel have completed with
  each other's present instance; the exchange ends; an old instance never wins; builds
  of different versions never complete.
* *Client*: each completed handshake comes with a telemetry request, because the
  server forgets the request whenever its own handshake starts over.
* *Server telemetry*: the timer runs exactly while telemetry is enabled, and once
  per interval.
* *Executor*: tasks in order, one at a time, none after `stop`; no timer that `stop`
  cannot reach; `stop` returns.
* *Transports*: every channel is closed once; Connected and Disconnected are
  reported once each; data finds its instance; a buffer lives as long as its write.
* *Sampler*: the load is exact although the counters wrap around.

`PROJECT.json` lists every component with its status and every hazard at its line.

## 2. Modules

```
HandshakeState -- Messages --+-- ClientStateMachine -- ClientController ---+
                             |                                             |
                             +-- ServerStateMachine --+                    |
                                                      +- ServerController -+-- Session
                                      TimerControl ---+                    |
                                                                           |
          MstscTransport  == implements ==>  ClientLink -------------------+
          WtsTransport    == implements ==>  ServerLink -------------------+
          Executor        == implements ==>  SerialQueue
          CpuSampler
```

| Module | Models | How state and actions correspond |
|---|---|---|
| `HandshakeState` | the class of that name | constant operators from the object before a call to the object after it |
| `Messages` | `message.h`, `message_factory.cpp` | records; an instance id is a number, only compared for equality, 0 being `InstanceId{}` |
| `ClientStateMachine` | `client/state_machine.cpp` | `client` is `state_`, `effects` the returned vector; one action per handler |
| `ServerStateMachine` | `server/state_machine.cpp` | likewise with `server` |
| `TimerControl` | `timer_control.h` | `running` is `running_`, `armed` the number of scheduled handlers that have not run |
| `ClientController`, `ServerController` | `controller.h` of each side, and of the executor the strand | `strand` is the queue of tasks; `effects` is what the running task has still to handle, and is empty between two tasks |
| `ServerLink` | what `WtsTransport` promises its controller | four places of the reader thread, what it has read, whether the channel is valid, and whether the worker has closed it and not said so yet |
| `ClientLink` | what `MstscTransport` promises its controller | closed, opening (sends get through, data finds no instance), opened (data accepted, Connected not posted), connected |
| `Session` | both processes and the channel, from the modules above | see below |
| `WtsTransport` | `wts_transport.cpp` with `wts_channel_handle.cpp` | a step is a critical section of `mutex_`, a look at `running_`, a load of the handle outside the mutex, a system call, or a call of a handler |
| `MstscTransport` | `mstsc_transport.cpp`, both builds | the callbacks in the pieces that the host's two threads and the worker can interleave |
| `SerialQueue` | what `Executor` promises those who post | a queue, the task that executes, and whether stop has been called |
| `Executor` | `executor.cpp` | a step is a look at a flag, a critical section of `timers_mutex_`, or a call of asio |
| `CpuSampler` | `cpu_sampler_win.cpp` | counters modulo `Modulus`; what really passed is kept beside them. Assumed of the system: idle time is part of kernel time, and two readings are less than one turn apart (64 bits never turn in practice) |
| `MC*` | | values of constants for TLC |
| `*_proofs` | | theorems and their proofs |

`ServerController` is also a specification of its own, with an environment that posts
anything at any time, and so is `ClientStateMachine`. This is more than the transports do, so
what holds there holds in `Session`, which is proved (`SessionRunsServerController`,
`SessionRunsClientStateMachine`). `ClientController` only has actions, which `Session` uses.

`Session` in detail. It takes its links from `ServerLink` and `ClientLink` by INSTANCE,
with the strands in the place of `posts`; that the transports really behave so is what the
runs `wts_transport` and `mstsc_transport` and the theorems `TransportImplementsLink` show.

* *Client*: `ClientOpen`, `ClientRegister` and `ClientNotify` are the parts of the CONNECTED
  callback of `MstscTransport`: from the open on the worker's sends get through, from
  `registerOpenHandle` on (or at once, if the handle is one of a former connection) data arrives,
  and then Connected is posted.
  `ClientReceive` is the data callback, `ClientDisconnect` the DISCONNECTED one, which
  also comes when the host has refused to open the channel.
  `ClientSend` and `ClientSendFails` are `MstscTransport::send`.
* *Server reader*: `WtsTransport::run` as a program with five places: opening, about to
  call the connected handler, reading, holding bytes that are read and not delivered, about
  to call the disconnected handler. The worker can close the channel at the three in
  between. A read may return several messages at once, of which the first is
  decoded (`ServerReadsSeveral`, where `ReadsMayCoalesce`).
* *Server worker*: `ServerSend`, `ServerSendFindsClosed` and `ServerSendFails` are the
  three ways through `WtsTransport::send`. After a write that failed the worker has closed the
  channel and not called the handler (`reporting`), and the reader may open the next channel
  and report it first. The window between the check under the mutex and the write
  outside it lets a write that began on an earlier channel close the present one; as any write
  may fail at any time in the model, this effect is covered.
* *Effects* are handled one per step, as in `handleEffects`, so that posts by other threads
  may come in between.
* *Crashes*: a process loses everything and starts again. The instance ids drawn are
  numbered in the order of drawing (`clientClock`, `serverClock`), which is the assumption
  that a timestamp together with a random number never repeats.
* *Channel*: a queue per direction. What arrives for an end that is not open may be dropped
  at once, later or never.

`WtsTransport` in detail. A channel handle is a value that the system may give out again
once it is closed. `channel_`, the local `channel_opt` of `tryOpenChannel` and the values the two
threads have loaded for a call are separate variables, so that a call may be made with a
handle that is closed, or that is open again and belongs to another channel. What such a call
does is undefined in the code; it is modelled as one that fails or returns nothing, and with a
value that was given out again as a call on the new channel. The early returns of
`tryOpenChannel` that find a valid channel are left out because there is none
(`ClosedWhileOpening`).

`MstscTransport` in detail. The host has one channel open at a time and initialises the plug-in
once. Chunks of a message are counted and not carried: the controller gets a whole message or
the last chunk of one. The two builds differ in `FreeRDP`: whether `send` keeps the buffer until the
host has written it.

`Executor` in detail. asio is modelled as the code uses it: a strand may run several handlers
without looking at the context in between (`batch`), a cancelled wait queues its handler with
an error (`aborted`), and `run` returns only when the context was stopped. Jobs are
used once each. `SerialQueue` hides timers and threads: what was taken is begun in order,
one at a time, until stop is called, and never after.

Abstracted: the number carried by a sample, a ping or an error text; logging; the encoding
of messages. Not taken up because the code never produces them: the effects CloseTransport
and StartPing, the event PingRequest in `Session` (the client's module has it), capability
sets, and the connection states Active and Closed.

## 3. Runs

| Run | Bounds | Checks |
|---|---|---|
| `client_state_machine` | ids 0..2, two versions, any sequence of events | `TypeOK`, `NoStaleRequest`, `CompletionRequestsTelemetry` |
| `server_controller` | the sampler may throw at any call; ids 0..1, two versions; at most 2 waiting tasks when the environment posts; at most 2 timers | `TypeOK`, `NoOrphanSampling`, `OnlyThrowsStopSampling` |
| `session_client_reconnects` | client connects twice, server once; no samples | `TypeOK`, `SilenceMeansAgreement`, `NeverAnEarlierInstance`, `AgreementReached`, `ExchangeEnds` |
| `session_server_reconnects` | client once, server twice; no samples | `SilenceMeansAgreement`, `NeverStalls`, `ServerGreetsByName`, `AgreementReached` |
| `session_mismatch` | different versions; client twice, server once; 1 sample in flight | `VersionAgreement`, `ExchangeEnds` |
| `session_faulty` | client writes may fail on an open channel, reads may return several messages, the sampler may throw; each connects once; 1 sample | `HellosRunOut`, `ExchangeEnds`, `SamplesKeepComing` |
| `session_timers` | client twice, server once; 1 sample | finds `OneTimer` violated |
| `wts_transport` | 2 handle values, 1 value of the bytes, reads time out; no open or read after 4 events | `TypeOK`, `HandlesOwned`, `ValidMeansConnected`, `ClosedWhileOpening`, `EveryEndReportedOnce`, `ImplementsLink`, `StopEndsRun` |
| `wts_transport_calls` | the same, under `RuntimeSpec`: no `stop` while `run` runs, no `close` | finds `ReadsUseOpenHandles` violated |
| `mstsc_transport` | FreeRDP; 2 open handles, 2 buffers, messages of at most 2 chunks; no event after 4 | `TypeOK`, `BuffersOutliveWrites`, `ConnectedIsFound`, `ImplementsLink` |
| `executor` | 1 host thread besides the owner and the worker, 3 tasks, 2 timers | `TypeOK`, `StopWaitsForTheWorker`, `TimersTracked`, `NoTimerAfterCancel`, `ImplementsSerialQueue`, `EveryJobRuns`, `StopReturns` |
| `cpu_sampler` | counters modulo 5 that grow by at most 4 at a time | `TypeOK`, `LoadIsExact` |

Deadlock is checked in every run but `mstsc_transport`, where the bound on the events stops the
host and nothing remains to be done.

Why the bounds are enough for what is asked.

* *Session.* A connect is the only source of new instances and of Hellos nobody asked for. Two
  connects of a side let the second meet all that the first has left: old tasks and sends on the
  strand, Hellos of the old id on the channel and in the reader's hand, a peer that has
  completed with the old instance, a timer still armed. The side that connects once may do so
  before, between or after the connects of the other. (Both twice
  has too many states to be explored together with liveness; the safety that does not depend on
  the count is proved, see section 4.) In the two runs with reconnects the timers of a running control
  do not expire (`MaxSamples = 0`), which the agreement of the two sides does not depend on; the
  runs with one connect have samples. Samples in flight are bounded because a timer may expire any
  number of times between two steps of a slow worker, and one more sample in a queue changes no
  state.
* *Server controller.* With two tasks waiting, two events of the environment can be in any order
  relative to the tasks the controller posts itself; the strand grows beyond the bound by those.
  Two timers let one that was stopped meet its successor.
* *Transports.* Two handle values and four events are two connections, of which the second
  may get the handle value of the first. One value of the bytes is enough since nothing looks at
  them.
* *Executor.* Three tasks and two timers let one task execute while another waits, one is being
  posted, one timer is being registered and the other is waiting or on the strand; stop and
  another start may come at any of these moments, any number of times.
* *Sampler.* Every counter wraps around within a few steps, and every difference below the modulus
  occurs.

What the runs show beyond the properties' comments in the modules:

* *Agreement needs the third Hello.* A side that did not answer the Hello that completes its
  handshake would leave the other waiting for ever (one of the mutants in `PROJECT.json`).
* *Early data is harmless but visible.* A restarted client that gets a Hello before its
  Connected event answers with the instance id 0 of a default-constructed `InstanceId`.
  `NeverAnEarlierInstance` therefore speaks of drawn ids only. The server cannot do so
  (`ServerGreetsByName`): its reader posts Connected before it reads.
* *Order on the server is weaker than it looks.* Disconnected may be posted before the
  Connected it belongs to, and, when the worker closed the channel, also after the
  Connected of the next channel. In the first case the state machine believes in a
  connection until the next open; in the second it believes in none although there is one, and
  a handshake may complete all the same. Nothing reads `connection_state`, and both sides still
  come to agree (`session_server_reconnects`). The same race lets a TelemetryStart be
  handled after Disconnected and start the timer; the next Connected or Hello of another
  instance stops it.
* *A server that delivers.* `Readme.md:25` lists as a known problem that what the xrdp server sends does
  not reach the client, for reasons outside the modelled code. `Session` models a channel that
  delivers while both ends are open. Its agreement properties (`AgreementReached`,
  `SilenceMeansAgreement`) are about such a channel, and say nothing of xrdp while that problem lasts.
* *What is not guaranteed.* If `pVirtualChannelWrite` fails on an open channel, the client drops
  the message, and a handshake may stay half done until the next reconnect; likewise if one
  read of the server returns two messages, of which it decodes the first. If the sampler throws,
  sampling may stop with `running_` still set (`OnlyThrowsStopSampling` says that nothing
  else does this). The properties that exclude these say so in their formulas.
  `SamplesKeepComing` has the premise that the two sides agree and a timer is armed: without
  these faults `AgreementReached` gives the first, and the theorem `SessionSampling` the second for
  as long as telemetry stays enabled (`SessionSilenceMeansSampling` gives both for two silent sides).
* *The executor cannot be started twice.* Nothing restarts the io_context after `stop`.
  `ImplementsSerialQueue` states this as it is: after a stop nothing begins, for ever.
* *A stop that waits for data.* On Windows the reader waits in `GetOverlappedResult` without a
  timeout, and a `stop` is seen only when data comes or the channel ends. `StopEndsRun` is stated
  for reads that time out, and its mutant is a read that does not. A `stop` while `run` runs is
  part of the component's interface; today's runtime calls it only afterwards (`RuntimeSpec`).
* *Finding: two timers.* `TimerControl::stop` clears a flag and disarms nothing. A Hello under a
  new id makes the server `stop`, and a TelemetryStart that follows within one sampling interval
  makes it `start` while the old timer is armed; both timers then find the flag set and renew
  themselves, and the server samples twice per interval from then on (`session_timers`). A client
  that reconnects within the interval does this. The run needs no completed reconnect: a
  handshake that was completed with early data under the zero id, before the client's Connected
  event, is superseded by the Hello of that event.
* *Finding: reads on closed handles.* `readOnce` uses the handle after it has left the mutex in
  which it has checked it, in a block whose comment asks for protection. A write of the worker
  that fails closes the channel in between, and the read is made with a closed or null handle
  (`wts_transport_calls`, with the steps of today's runtime only), or later with a value
  that belongs to the next channel. `send` has the same gap, towards the reader. What the program
  keeps nevertheless is that every channel has one owner and is closed once (`HandlesOwned`).

### Fairness

* `Session!FairSpec` assumes weak fairness of each thread that has something to do: the worker of
  each side (`executor.cpp`: one `jthread` in `context_.run()`), the reader in
  `WtsTransport::run`, the host's callbacks for data and for the end of a connect, and the
  expiry of armed timers. Nothing is assumed of the opening of a channel and of the faults
  (disconnects, read and write errors, crashes, losses). The liveness properties therefore have
  the premise `ChannelStaysUp`: from some time on both ends stay open. While it holds no fault is
  possible that empties a queue, but those that occurred before are unrestricted within the
  bounds.
* `WtsTransport!FairSpec`: the reader goes on, except that a call on a handle that is open need not
  return; it does return if reads time out. Nothing is assumed of the worker and of `run` and `stop`.
* `Executor!FairSpec`: the owner finishes the `start` or `stop` it has begun; the worker thread goes
  on and its tasks end; each armed timer expires, unless it is cancelled. Nobody has to start,
  stop, post or schedule.

## 4. Proofs

TLAPS checks, for every value of the constants (versions, ids, handles, tasks, timers, the
width of the counters, and the bounds of the runs):

* `ClientStateMachine_proofs`: type correctness (`ClientTypeCorrect`), `NoStaleRequest`, and the
  action property `CompletionRequestsTelemetry`. `NoStaleRequest` is inductive by itself: a Hello
  either completes the handshake or withdraws the request, and whatever keeps the request (a Hello of
  another version) forgets the remote instance. The action property follows: a handshake
  can only be completed by a Hello from the instance already known, so
  `NoStaleRequest` says that no request is outstanding, and the handler makes one.
* `ServerController_proofs`: type correctness, `NoOrphanSampling`, `OnlyThrowsStopSampling` and
  `EnabledMeansSampling`. The first two invariants are not inductive alone, because effects are
  handled some steps after the event that caused them. `SamplingInv` adds what the effects still
  to be handled may be: a start is the only effect of its step and telemetry is enabled
  (`StartIsAlone`); while a stop is waiting telemetry is disabled (`StopMeansDisabled`); and a
  running control has a timer armed unless the sampler may throw (`RunningIsArmed`). The proof
  needs one fact about every call of `doStep` (`TelemetryStep`), proved handler by handler.
* `WtsTransport_proofs`: type correctness, `HandlesOwned`, `ValidMeansConnected` and
  `ClosedWhileOpening` together are inductive (`IInv`): each needs the others, as `closeChannel` asks
  `state_` and closes `channel_`, and `Install` may overwrite `channel_` only because it is empty.
  `EveryEndReportedOnce` is then inductive on its own (`ReportInv`), by counting what each
  step posts. `TransportImplementsLink` maps every step to a step of `ServerLink` or a stutter.
* `MstscTransport_proofs`: type correctness, `BuffersOutliveWrites`, `ConnectedIsFound`, and
  `TransportImplementsLink`, which maps every step to one of `ClientLink`.
* `Executor_proofs`: type correctness, `StopWaitsForTheWorker` and `NoTimerAfterCancel` from `IInv`,
  which ties the places of the owner and of the worker to the flags; the refinement of
  `SerialQueue` (`ExecutorIsASerialQueue`); and `TimersTracked` from `TrackInv`: until the
  timers are cancelled each is in `timers_` exactly while it is in one of three places, and it is
  never in two, nor twice on the strand.
* `CpuSampler_proofs`: type correctness and `LoadIsExact`, for counters of any width, from lemmas on
  differences modulo `Modulus`. `SamplerInv` says that each counter is the one last read plus what
  has passed since, modulo the width, and that this is less than one turn.
* `Session_proofs`: type correctness, `VersionAgreement` and `ServerGreetsByName`. `SessionInv` says of
  every message in an effect, on a strand, on the channel and in the reader's hand which build made
  it, and in whose name: a client asks for telemetry only if the versions agree, and a server
  greets only with an id it has drawn. For the latter the server must have been connected
  whenever it handles a message, which is an order on the strand: behind every Received there is no
  gap without a Connected (`StrandInOrder`), and a reader that may deliver has posted one
  (`ReaderInOrder`).
  The action property `NeverAnEarlierInstance` needs more. `OrderInv` adds that along the way of a
  message (effects, strand, channel, reader's hand, the other strand) the ids of
  the Hellos are in the order in which they were drawn: there are ids between the stations such that
  each station keeps within its two, the receiver's remote instance is at or below the
  lowest and the sender's present instance at or above the highest. A crash, a loss or a reset
  only takes Hellos away; a new connection draws an id above all. The handshake takes a
  Hello for what it says or starts over, so what it takes is never below what it has.

  The last sections show that the parts behave in the session as they do alone. Every step of the
  session is, for the server's controller, a step of `ServerController` or a restart
  (`SessionRunsServerController`), and for the client's state machine a call of `doStep` or a restart
  (`SessionRunsClientStateMachine`). A restart is no step of the parts, so their invariants are
  carried over by induction again, step by step with the lemmas about the handlers:
  `SessionSampling`, `SessionOnlyThrowsStopSampling`, `SessionNoStaleRequest`,
  `SessionCompletionRequestsTelemetry`.
* `SessionAgreement_proofs`: `SilenceMeansAgreement`, `NeverStalls`, that two silent sides
  are sampling (`SessionSilenceMeansSampling`), and the action property `HellosRunOut`. What is on its way to a side is one line of five
  stations (`ToServerLine`, `ToClientLine`): the tasks of the strand that hears, the reader's hand
  (on the server), the channel, the tasks of the strand that speaks, the effects of its running
  task. A station is a sequence of words: a message, or
  `Silence` for what carries none. Every step of the session takes a word off a line, adds one at
  the speaking end, passes one on or loses some, and the first half of the module proves what each of
  these keeps for any line. `AgreementInv` is then about the two lines and the two states:

  * `ClientOrder`, `ServerOrder`: Hellos of former instances come before those of the present
    one, and there are none left once the other side has heard of the present one, which they would
    make it forget.
  * `Balanced`: let the level of a side be how often it was greeted by the present instance of the
    other (0, 1, or 2 when its handshake is completed), and a greeting one on its way. A side below
    2 has, with its greetings to come, at least what the other side has, and of two sides below
    2 one has more. So silence means that both are at 2. It is the least that is
    inductive: a greeting handled at level 0 or 1 takes one from the sum and adds an answer, and one
    handled at level 2 may take one that nobody needs.
  * `Late`: a Disconnected that the worker reports late may come after the next Connected and reset
    the server's handshake. It does no harm because the server's Hello, which is a task behind it on
    the strand, has not left, so that the client cannot have answered.
  * `DisconnectIsFollowed`, `ReportIsLate`: what is left of a former connection is followed by
    the announcement of the present one, on each strand.
  * `RequestFollows`, `Granted`: a client asks when it completes, and a client that has completed
    has its telemetry or its request is the last word of its line that the server acts on, behind
    the Hellos that make the server forget it.
  * `Sampling`: enabled telemetry runs or is about to be started, and is not about to be stopped.

  The proofs have the hypotheses of the properties themselves (`Reliable`: equal versions, and no
  failing client writes, throwing sampler or coalesced reads), which are constants of the model.

  `HellosRunOut` is the step behind `ExchangeEnds`, without those hypotheses: faults and different
  versions included. The measure `HellosLeft` counts the Hellos on their way and
  those they can still give rise to. A step that is *tame* only takes words off the lines or
  passes them on, and so raises none of the counts; a Hello handled is taken off and answered by one
  at most, and the answer was counted. What could go wrong is that a side forgets the present
  instance of the other and greets anew as often as before. `HelloOrder` excludes it: each line keeps
  the order of instances, a side that has heard of the present instance has no Hello of a former one
  still to come, and a side hears of the other only if their versions are equal. Only
  a connect, a disconnect or a restart of a side (`StartsOver`) may raise the measure.

Assumptions: only the `ASSUME`s of the modules (the build's version is a version, ids are
natural numbers, the null handle is no handle, timers are finitely many, the counters have more
than one value, the flags are Booleans), which TLC evaluates in the runs.

Only model-checked: all liveness (`AgreementReached`, `ExchangeEnds`, `SamplesKeepComing`,
`StopEndsRun`, `EveryJobRuns`, `StopReturns`). Liveness under fairness and ENABLED are out of the
prover's reach; what is proved towards `AgreementReached` and `ExchangeEnds` are the safety halves: a
message that is needed is on its way (`NeverStalls`), and Hellos can only be handled a bounded number
of times (`HellosRunOut`). TLC found every invariant above inductive or true on the runs' instances before it
was proved.

## 5. Plan

Done: all modules of section 2, in the order in which the behaviour depends on them, and every safety
property of the runs as a theorem. Left, in order of importance:

1. An abstract specification of the exchange (when may a side call its peer's instance
   agreed), with `Session` shown to implement it.
2. `Session` on `SerialQueue`: the strands of the two controllers are queues in their own modules;
   they behave as `SerialQueue` while it is open, which is not stated as a theorem.

### Not modelled

* *Logging, the applications and the build*: no state that anything else reads, no behaviour of
  their own.
* *The runtimes' construction*: that handlers are linked before threads start, and destroyed
  after. Their `start` and `stop` are the owner's steps in `Executor` and the `Stop` of
  `WtsTransport`. `WtsRuntime` calls `stop` only after `transport_.run()` has returned, and `run`
  returns only after a `stop`: the server does not end by itself, as the Readme's list of known
  issues says.
* *The encoding of messages* (zpp_bits is external), beyond that bytes may fail to decode and that
  the first of several messages is decoded.
* *A plug-in that is initialised twice, and the freeing of buffers*: the Readme names both as open
  problems. How long the Windows host reads a buffer after `pVirtualChannelWrite` has returned is
  not in the repository.
* *The content of fragments*: that only the last chunk of a longer message reaches the controller is
  modelled; the messages of today's protocol fit one chunk.
