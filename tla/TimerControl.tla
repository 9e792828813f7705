---------------------------- MODULE TimerControl ----------------------------
(***************************************************************************)
(* TimerControl (src/core/telemetry/timer_control.h): the periodic CPU     *)
(* sampling of the server.  start, stop and postSample all run on the      *)
(* strand.  An armed timer is one that Executor::schedule has registered   *)
(* and whose handler has not run yet; stop() disarms none.                 *)
(***************************************************************************)
EXTENDS Integers

(* Whether CpuSampler::readSample may throw: on Windows it does when       *)
(* GetSystemTimes fails, on Linux it never does.                           *)
CONSTANT SamplerMayFail

ASSUME TimerAssumption == SamplerMayFail \in BOOLEAN

VARIABLES running,   (* running_                                           *)
          armed      (* how many timers are armed                          *)

timerVars == <<running, armed>>

TimerTypeOK == running \in BOOLEAN /\ armed \in Nat

TimerInit == running = FALSE /\ armed = 0

(* start(): a control that is running already arms no second timer *)
Start ==
    /\ running' = TRUE
    /\ armed' = IF running THEN armed ELSE armed + 1

(* start(), sampler_.reset() throws before anything is changed *)
StartThrows == SamplerMayFail /\ UNCHANGED timerVars

(* A stop() that waits for the armed timer, for the mutation runs *)
StopWaits == armed = 0 /\ running' = FALSE /\ UNCHANGED armed

(* stop() *)
Stop == running' = FALSE /\ UNCHANGED armed

(* postSample() of a stopped control: the timer is not armed again *)
ExpireStopped ==
    /\ armed > 0
    /\ ~running
    /\ armed' = armed - 1
    /\ UNCHANGED running

(* A sample that is not followed by another one, for the mutation runs *)
PostSampleOnce ==
    /\ armed > 0
    /\ running
    /\ armed' = armed - 1
    /\ UNCHANGED running

(* postSample() of a running control: it hands the sample to the handler   *)
(* and scheduleSample() arms the timer that has just expired anew          *)
PostSample ==
    /\ armed > 0
    /\ running
    /\ UNCHANGED timerVars

(* postSample(), readSample() throws: scheduleSample() is not reached *)
PostSampleThrows ==
    /\ SamplerMayFail
    /\ armed > 0
    /\ running
    /\ armed' = armed - 1
    /\ UNCHANGED running
=============================================================================
