----------------------------- MODULE CpuSampler -----------------------------
(***************************************************************************)
(* The CPU load of the Windows server,                                     *)
(* src/core/telemetry/cpu_sampler_win.cpp: differences of three counters   *)
(* of the system, in unsigned arithmetic that wraps around.  (The Linux    *)
(* sampler returns a sample that is always 0.)                             *)
(*                                                                         *)
(* A load is kept as the pair of which the code returns the quotient.      *)
(***************************************************************************)
EXTENDS Integers

CONSTANTS Modulus,      (* 2^64; small for TLC                             *)
          MaxStep       (* by how much a counter grows at a time           *)

ASSUME SamplerAssumption == Modulus \in Nat /\ Modulus > 1 /\ MaxStep \in Nat

Counters == {"idle", "kernel", "user"}
Times == [Counters -> 0..(Modulus - 1)]
None == [c \in Counters |-> -1]

VARIABLES now,          (* what GetSystemTimes returns                     *)
          previous,     (* previous_                                       *)
          load,         (* what the last readSample has returned           *)
          busy, total   (* how long the processors were busy, and how much *)
                        (* time they had, since previous_ was read: not    *)
                        (* known to the code                               *)

vars == <<now, previous, load, busy, total>>

Load(b, t) == [busy |-> b, total |-> t]
ZeroLoad == Load(0, 1)
NoLoad == Load(0, 0)

TypeOK ==
    /\ now \in Times
    /\ previous \in Times \cup {None}
    /\ load \in [busy : 0..(Modulus - 1), total : 1..(Modulus - 1)] \cup {NoLoad}
    /\ busy \in Nat /\ total \in Nat

Init ==
    /\ now \in Times
    /\ previous = None
    /\ load = NoLoad
    /\ busy = 0 /\ total = 0

(* Time passes.  The system counts idle time as kernel time too; two       *)
(* readings are less than one turn of the counters apart.                  *)
TimePasses ==
    \E i, k, u \in 0..MaxStep :
        /\ i <= k
        /\ total + k + u < Modulus
        /\ now' = [idle |-> (now["idle"] + i) % Modulus,
                   kernel |-> (now["kernel"] + k) % Modulus,
                   user |-> (now["user"] + u) % Modulus]
        /\ busy' = busy + k + u - i
        /\ total' = total + k + u
        /\ UNCHANGED <<previous, load>>

(* The difference of two unsigned counters; for the mutation runs, one     *)
(* that does not wrap around and one of signed counters                    *)
SaturatingDelta(a, b) == IF a < b THEN 0 ELSE a - b
SignedDelta(a, b) == a - b
Delta(a, b) == (a - b) % Modulus

(* What becomes of previous_; the first reading for ever, for the mutation *)
(* runs                                                                    *)
KeepsFirst == IF previous = None THEN now ELSE previous
KeepsLast == now

(* readSample *)
LoadSince(p) ==
    LET d == [c \in Counters |-> Delta(now[c], p[c])]
        t == (d["kernel"] + d["user"]) % Modulus
    IN  IF t = 0 THEN ZeroLoad ELSE Load(Delta(t, d["idle"]), t)

ReadSample ==
    /\ load' = LoadSince(IF previous = None THEN now ELSE previous)
    /\ previous' = KeepsLast
    /\ busy' = 0 /\ total' = 0
    /\ UNCHANGED now

(* GetSystemTimes fails: readSample throws before anything is changed *)
ReadThrows == UNCHANGED vars

Next == TimePasses \/ ReadSample \/ ReadThrows
Spec == Init /\ [][Next]_vars
-----------------------------------------------------------------------------
(* Every sample after the first is the share of busy time since the        *)
(* last reading that succeeded: also across the counters' wrap-around,     *)
(* after readings that failed, and after reset() when sampling was stopped *)
(* for a while.  In particular it never exceeds 1.                         *)
LoadIsExact ==
    [][ReadSample /\ previous # None
       => load' = IF total = 0 THEN ZeroLoad ELSE Load(busy, total)]_vars
=============================================================================
