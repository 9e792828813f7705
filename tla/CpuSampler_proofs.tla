-------------------------- MODULE CpuSampler_proofs --------------------------
(***************************************************************************)
(* The load that readSample computes is exact for every width of the       *)
(* counters and every growth between two readings that is less than one    *)
(* turn of them.                                                           *)
(***************************************************************************)
EXTENDS CpuSampler, TLAPS

(* What % does to a number that is less than one turn out of range *)
LEMMA ModWithin ==
    ASSUME NEW x \in Int, 0 <= x, x < Modulus
    PROVE  x % Modulus = x
BY SamplerAssumption DEF SamplerAssumption

LEMMA ModBelow ==
    ASSUME NEW x \in Int, -Modulus <= x, x < 0
    PROVE  x % Modulus = x + Modulus
BY SamplerAssumption DEF SamplerAssumption

LEMMA ModAbove ==
    ASSUME NEW x \in Int, Modulus <= x, x < 2 * Modulus
    PROVE  x % Modulus = x - Modulus
BY SamplerAssumption DEF SamplerAssumption

LEMMA ModType ==
    ASSUME NEW x \in Int
    PROVE  x % Modulus \in 0..(Modulus - 1)
BY SamplerAssumption DEF SamplerAssumption

(* A counter that grows twice has grown by the sum. *)
LEMMA GrowTwice ==
    ASSUME NEW p \in 0..(Modulus - 1), NEW d \in Nat, NEW e \in Nat, d + e < Modulus
    PROVE  (((p + d) % Modulus) + e) % Modulus = (p + (d + e)) % Modulus
<1>1. Modulus \in Nat
  BY SamplerAssumption DEF SamplerAssumption
<1>2. CASE p + (d + e) < Modulus
  <2>1. (p + d) % Modulus = p + d
    BY <1>1, <1>2, ModWithin
  <2> QED
    BY <2>1
<1>3. CASE Modulus <= p + (d + e) /\ p + d < Modulus
  <2>1. (p + d) % Modulus = p + d
    BY <1>1, <1>3, ModWithin
  <2> QED
    BY <2>1
<1>4. CASE Modulus <= p + d
  <2>1. (p + d) % Modulus = p + d - Modulus
    BY <1>1, <1>4, ModAbove
  <2>2. (p + (d + e)) % Modulus = p + (d + e) - Modulus
    BY <1>1, <1>4, ModAbove
  <2>3. (p + d - Modulus + e) % Modulus = p + d - Modulus + e
    BY <1>1, <1>4, ModWithin
  <2> QED
    BY <1>1, <2>1, <2>2, <2>3
<1> QED
  BY <1>1, <1>2, <1>3, <1>4

(* The difference of two readings of a counter is by how much it has grown. *)
LEMMA DeltaIsGrowth ==
    ASSUME NEW p \in 0..(Modulus - 1), NEW d \in Nat, d < Modulus
    PROVE  Delta((p + d) % Modulus, p) = d
<1>1. Modulus \in Nat
  BY SamplerAssumption DEF SamplerAssumption
<1>2. CASE p + d < Modulus
  <2>1. (p + d) % Modulus = p + d
    BY <1>1, <1>2, ModWithin
  <2>2. (p + d) - p = d
    OBVIOUS
  <2> QED
    BY <2>1, <2>2, ModWithin DEF Delta
<1>3. CASE Modulus <= p + d
  <2>1. (p + d) % Modulus = p + d - Modulus
    BY <1>1, <1>3, ModAbove
  <2>2. (p + d - Modulus) - p = d - Modulus
    BY <1>1
  <2>3. (d - Modulus) % Modulus = d - Modulus + Modulus
    BY <1>1, ModBelow
  <2> QED
    BY <1>1, <2>1, <2>2, <2>3 DEF Delta
<1> QED
  BY <1>1, <1>2, <1>3

-----------------------------------------------------------------------------
(* Since previous_ was read, idle, kernel and user time have grown by i, k *)
(* and u.                                                                  *)
Grown(i, k, u) ==
    /\ i <= k
    /\ total = k + u
    /\ busy = k + u - i
    /\ now["idle"] = (previous["idle"] + i) % Modulus
    /\ now["kernel"] = (previous["kernel"] + k) % Modulus
    /\ now["user"] = (previous["user"] + u) % Modulus

(* The inductive invariant *)
SamplerInv ==
    /\ TypeOK
    /\ total < Modulus
    /\ previous # None => \E i, k, u \in Nat : Grown(i, k, u)

(* The load of a reading is the share of busy time. *)
LEMMA LoadOfGrowth ==
    ASSUME TypeOK, total < Modulus, previous # None,
           NEW i \in Nat, NEW k \in Nat, NEW u \in Nat, Grown(i, k, u)
    PROVE  LoadSince(previous) = IF total = 0 THEN ZeroLoad ELSE Load(busy, total)
<1>1. previous \in Times /\ Modulus \in Nat
  BY SamplerAssumption DEF SamplerAssumption, TypeOK
<1>2. previous["idle"] \in 0..(Modulus - 1) /\ previous["kernel"] \in 0..(Modulus - 1)
        /\ previous["user"] \in 0..(Modulus - 1)
  BY <1>1 DEF Times, Counters
<1>3. i < Modulus /\ k < Modulus /\ u < Modulus /\ total \in Nat /\ busy \in Nat /\ busy < Modulus
  BY <1>1 DEF Grown, TypeOK
<1> DEFINE d == [c \in Counters |-> Delta(now[c], previous[c])]
           t == (d["kernel"] + d["user"]) % Modulus
<1>4. d["idle"] = i /\ d["kernel"] = k /\ d["user"] = u
  BY <1>2, <1>3, DeltaIsGrowth DEF Grown, Counters
<1>5. t = total
  BY <1>3, <1>4, ModWithin DEF Grown
<1>6. Delta(t, d["idle"]) = busy
  <2>1. total - i = busy
    BY DEF Grown
  <2> QED
    BY <1>3, <1>4, <1>5, <2>1, ModWithin DEF Delta
<1>7. LoadSince(previous) = IF t = 0 THEN ZeroLoad ELSE Load(Delta(t, d["idle"]), t)
  BY DEF LoadSince
<1> HIDE DEF d, t
<1> QED
  BY <1>5, <1>6, <1>7

(* A load has its type, whatever the two readings are. *)
LEMMA LoadType ==
    ASSUME now \in Times, NEW p \in Times
    PROVE  LoadSince(p) \in [busy : 0..(Modulus - 1), total : 1..(Modulus - 1)]
<1>1. Modulus \in Nat /\ Modulus > 1
  BY SamplerAssumption DEF SamplerAssumption
<1> DEFINE d == [c \in Counters |-> Delta(now[c], p[c])]
           t == (d["kernel"] + d["user"]) % Modulus
<1>2. \A c \in Counters : d[c] \in 0..(Modulus - 1)
  BY <1>1, ModType DEF Times, Delta
<1>3. d["idle"] \in 0..(Modulus - 1) /\ d["kernel"] \in 0..(Modulus - 1)
        /\ d["user"] \in 0..(Modulus - 1)
  BY <1>2 DEF Counters
<1>4. t \in 0..(Modulus - 1)
  BY <1>1, <1>3, ModType
<1>5. Delta(t, d["idle"]) \in 0..(Modulus - 1)
  BY <1>1, <1>3, <1>4, ModType DEF Delta
<1>6. LoadSince(p) = IF t = 0 THEN ZeroLoad ELSE Load(Delta(t, d["idle"]), t)
  BY DEF LoadSince
<1> HIDE DEF d, t
<1> QED
  BY <1>1, <1>4, <1>5, <1>6 DEF ZeroLoad, Load

LEMMA TimePassesKeeps ==
    ASSUME SamplerInv, TimePasses
    PROVE  SamplerInv'
<1>1. PICK i \in 0..MaxStep, k \in 0..MaxStep, u \in 0..MaxStep :
        /\ i <= k
        /\ total + k + u < Modulus
        /\ now' = [idle |-> (now["idle"] + i) % Modulus,
                   kernel |-> (now["kernel"] + k) % Modulus,
                   user |-> (now["user"] + u) % Modulus]
        /\ busy' = busy + k + u - i
        /\ total' = total + k + u
        /\ UNCHANGED <<previous, load>>
  BY DEF TimePasses
<1>2. i \in Nat /\ k \in Nat /\ u \in Nat /\ Modulus \in Nat
  BY SamplerAssumption DEF SamplerAssumption
<1>3. now["idle"] \in Int /\ now["kernel"] \in Int /\ now["user"] \in Int
        /\ total \in Nat /\ busy \in Nat
  BY <1>2 DEF SamplerInv, TypeOK, Times, Counters
<1>4. now' \in Times
  <2>1. /\ (now["idle"] + i) % Modulus \in 0..(Modulus - 1)
        /\ (now["kernel"] + k) % Modulus \in 0..(Modulus - 1)
        /\ (now["user"] + u) % Modulus \in 0..(Modulus - 1)
    <3>1. now["idle"] + i \in Int /\ now["kernel"] + k \in Int /\ now["user"] + u \in Int
      BY <1>2, <1>3
    <3> QED
      BY <3>1, ModType
  <2> QED
    BY <1>1, <2>1 DEF Times, Counters
<1>5. TypeOK' /\ total' < Modulus
  BY <1>1, <1>2, <1>3, <1>4 DEF SamplerInv, TypeOK
<1>6. ASSUME previous' # None PROVE \E a, b, c \in Nat : Grown(a, b, c)'
  <2>1. PICK a \in Nat, b \in Nat, c \in Nat : Grown(a, b, c)
    BY <1>1, <1>6 DEF SamplerInv
  <2>2. previous["idle"] \in 0..(Modulus - 1) /\ previous["kernel"] \in 0..(Modulus - 1)
          /\ previous["user"] \in 0..(Modulus - 1)
    BY <1>1, <1>6 DEF SamplerInv, TypeOK, Times, Counters
  <2>3. a + i < Modulus /\ b + k < Modulus /\ c + u < Modulus
    BY <1>1, <1>2, <2>1 DEF Grown
  <2>4. /\ now'["idle"] = (previous["idle"] + (a + i)) % Modulus
        /\ now'["kernel"] = (previous["kernel"] + (b + k)) % Modulus
        /\ now'["user"] = (previous["user"] + (c + u)) % Modulus
    <3>1. /\ now'["idle"] = (now["idle"] + i) % Modulus
          /\ now'["kernel"] = (now["kernel"] + k) % Modulus
          /\ now'["user"] = (now["user"] + u) % Modulus
      BY <1>1
    <3>2. (((previous["idle"] + a) % Modulus) + i) % Modulus = (previous["idle"] + (a + i)) % Modulus
      BY <1>2, <2>2, <2>3, GrowTwice
    <3>3. (((previous["kernel"] + b) % Modulus) + k) % Modulus = (previous["kernel"] + (b + k)) % Modulus
      BY <1>2, <2>2, <2>3, GrowTwice
    <3>4. (((previous["user"] + c) % Modulus) + u) % Modulus = (previous["user"] + (c + u)) % Modulus
      BY <1>2, <2>2, <2>3, GrowTwice
    <3> QED
      BY <2>1, <3>1, <3>2, <3>3, <3>4 DEF Grown
  <2>5. /\ a + i <= b + k
        /\ total' = (b + k) + (c + u)
        /\ busy' = (b + k) + (c + u) - (a + i)
    BY <1>1, <1>2, <2>1 DEF Grown
  <2>6. a + i \in Nat /\ b + k \in Nat /\ c + u \in Nat
    BY <1>2
  <2>7. Grown(a + i, b + k, c + u)'
    BY <1>1, <2>4, <2>5 DEF Grown
  <2> QED
    BY <2>6, <2>7
<1> QED
  BY <1>5, <1>6 DEF SamplerInv

LEMMA ReadSampleKeeps ==
    ASSUME SamplerInv, ReadSample
    PROVE  SamplerInv'
<1>1. now \in Times /\ now' = now /\ previous' = now /\ total' = 0 /\ busy' = 0
  BY DEF SamplerInv, TypeOK, ReadSample, KeepsLast
<1>2. load' \in [busy : 0..(Modulus - 1), total : 1..(Modulus - 1)]
  <2>1. (IF previous = None THEN now ELSE previous) \in Times
    BY <1>1 DEF SamplerInv, TypeOK
  <2> QED
    BY <1>1, <2>1, LoadType DEF ReadSample
<1>3. Modulus \in Nat /\ Modulus > 1
  BY SamplerAssumption DEF SamplerAssumption
<1>4. Grown(0, 0, 0)'
  <2>1. now["idle"] \in 0..(Modulus - 1) /\ now["kernel"] \in 0..(Modulus - 1)
          /\ now["user"] \in 0..(Modulus - 1)
    BY <1>1 DEF Times, Counters
  <2>2. /\ now["idle"] = (now["idle"] + 0) % Modulus
        /\ now["kernel"] = (now["kernel"] + 0) % Modulus
        /\ now["user"] = (now["user"] + 0) % Modulus
    BY <1>3, <2>1, ModWithin
  <2> QED
    BY <1>1, <2>2 DEF Grown
<1> QED
  BY <1>1, <1>2, <1>3, <1>4 DEF SamplerInv, TypeOK

LEMMA SamplerInvInitially == Init => SamplerInv
BY SamplerAssumption DEF SamplerAssumption, Init, SamplerInv, TypeOK

LEMMA SamplerInvStep == SamplerInv /\ [Next]_vars => SamplerInv'
<1> SUFFICES ASSUME SamplerInv, [Next]_vars PROVE SamplerInv'
  OBVIOUS
<1>1. CASE TimePasses
  BY <1>1, TimePassesKeeps
<1>2. CASE ReadSample
  BY <1>2, ReadSampleKeeps
<1>3. CASE ReadThrows \/ UNCHANGED vars
  BY <1>3 DEF ReadThrows, vars, SamplerInv, TypeOK, Grown
<1> QED
  BY <1>1, <1>2, <1>3 DEF Next

(* The sampler's state has its types: no load has more busy time than the  *)
(* counters can hold, and none is divided by zero. *)
THEOREM TypeCorrect == Spec => []TypeOK
<1>1. SamplerInv => TypeOK
  BY DEF SamplerInv
<1> QED
  BY <1>1, SamplerInvInitially, SamplerInvStep, PTL DEF Spec

(* Every sample after the first is exact, for counters of any width. *)
THEOREM SamplesAreExact == Spec => LoadIsExact
<1>1. SamplerInv /\ [Next]_vars
      => [ReadSample /\ previous # None
          => load' = IF total = 0 THEN ZeroLoad ELSE Load(busy, total)]_vars
  <2> SUFFICES ASSUME SamplerInv, ReadSample, previous # None
               PROVE  load' = IF total = 0 THEN ZeroLoad ELSE Load(busy, total)
    OBVIOUS
  <2>1. load' = LoadSince(previous)
    BY DEF ReadSample
  <2>2. PICK i \in Nat, k \in Nat, u \in Nat : Grown(i, k, u)
    BY DEF SamplerInv
  <2> QED
    BY <2>1, <2>2, LoadOfGrowth DEF SamplerInv
<1> QED
  BY <1>1, SamplerInvInitially, SamplerInvStep, PTL DEF Spec, LoadIsExact
=============================================================================
