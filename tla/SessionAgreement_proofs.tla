----------------------- MODULE SessionAgreement_proofs -----------------------
(***************************************************************************)
(* That a client and a server who fall silent with the channel up have     *)
(* agreed, for any number of connects and crashes and of messages on their *)
(* way.                                                                    *)
(*                                                                         *)
(* What is on its way from one side to the other is seen as one line of    *)
(* stations, each a sequence of words: the tasks of the strand that hears, *)
(* the channel, the tasks of the strand that speaks, the effects of its    *)
(* running task.  The first sections are about sequences and lines.        *)
(***************************************************************************)
EXTENDS Session_proofs, FiniteSetTheorems

(* No element of s is in A. *)
Free(s, A) == \A i \in 1..Len(s) : s[i] \notin A

(* No element of G comes after one of F. *)
Sorted(s, F, G) == \A i, j \in 1..Len(s) : i < j /\ s[i] \in F => s[j] \notin G

(* After some x comes no element of G. *)
EndsWith(s, x, G) ==
    \E i \in 1..Len(s) : s[i] = x /\ \A j \in 1..Len(s) : i < j => s[j] \notin G

-----------------------------------------------------------------------------
(* Sequences *)

(* Nothing waits in an empty sequence, and it ends with nothing.           *)
LEMMA EmptyFacts ==
    ASSUME NEW A, NEW F, NEW G, NEW x
    PROVE  /\ Free(<<>>, A) /\ Sorted(<<>>, F, G) /\ ~EndsWith(<<>>, x, G)
           /\ Waiting(<<>>, x) = 0
<1>1. {i \in DOMAIN <<>> : <<>>[i] = x} = {}
  OBVIOUS
<1>2. Waiting(<<>>, x) = 0
  BY <1>1, FS_EmptySet DEF Waiting
<1> QED
  BY <1>2 DEF Free, Sorted, EndsWith

(* The elements of a sequence that grew by one.                            *)
LEMMA AppendIs ==
    ASSUME NEW T, NEW s \in Seq(T), NEW x \in T
    PROVE  /\ Append(s, x) \in Seq(T)
           /\ Len(s) \in Nat
           /\ Len(Append(s, x)) = Len(s) + 1
           /\ Append(s, x)[Len(s) + 1] = x
           /\ \A i \in 1..Len(s) : Append(s, x)[i] = s[i]
BY AppendProperties, LenProperties

(* The elements of a sequence that lost its first one.                     *)
LEMMA TailIs ==
    ASSUME NEW T, NEW s \in Seq(T), s # <<>>
    PROVE  /\ Head(s) \in T /\ Tail(s) \in Seq(T)
           /\ Len(Tail(s)) \in Nat
           /\ Len(s) = Len(Tail(s)) + 1
           /\ Head(s) = s[1]
           /\ \A i \in 1..Len(Tail(s)) : Tail(s)[i] = s[i + 1]
<1>1. Head(s) \in T /\ Tail(s) \in Seq(T) /\ Len(Tail(s)) = Len(s) - 1
      /\ \A i \in 1..Len(Tail(s)) : Tail(s)[i] = s[i + 1]
  BY HeadTailProperties
<1>2. Len(s) \in Nat /\ Len(Tail(s)) \in Nat
  BY <1>1, LenProperties
<1> QED
  BY <1>1, <1>2

(* A longer sequence is free of A if the new element is none either.       *)
LEMMA FreeOfAppend ==
    ASSUME NEW T, NEW s \in Seq(T), NEW x \in T, NEW A
    PROVE  Free(Append(s, x), A) <=> Free(s, A) /\ x \notin A
<1> DEFINE t == Append(s, x)
<1>1. /\ Len(s) \in Nat /\ Len(t) = Len(s) + 1 /\ t[Len(s) + 1] = x
      /\ \A i \in 1..Len(s) : t[i] = s[i]
  BY AppendIs
<1> HIDE DEF t
<1>2. Free(t, A) <=> Free(s, A) /\ x \notin A
  BY <1>1 DEF Free
<1> QED
  BY <1>2 DEF t

(* A sequence is free of A if its head and its tail are.                   *)
LEMMA FreeOfTail ==
    ASSUME NEW T, NEW s \in Seq(T), s # <<>>, NEW A
    PROVE  Free(s, A) <=> Head(s) \notin A /\ Free(Tail(s), A)
<1> DEFINE t == Tail(s)
           h == Head(s)
<1>1. /\ Len(t) \in Nat /\ Len(s) = Len(t) + 1 /\ h = s[1]
      /\ \A i \in 1..Len(t) : t[i] = s[i + 1]
  BY TailIs
<1> HIDE DEF t, h
<1>2. ASSUME Free(s, A) PROVE h \notin A /\ Free(t, A)
  BY <1>1, <1>2 DEF Free
<1>3. ASSUME h \notin A, Free(t, A), NEW i \in 1..Len(s) PROVE s[i] \notin A
  <2>1. CASE i = 1
    BY <1>1, <1>3, <2>1
  <2>2. CASE i # 1
    <3>1. i - 1 \in 1..Len(t) /\ s[i] = t[i - 1]
      BY <1>1, <2>2
    <3> QED
      BY <1>3, <3>1 DEF Free
  <2> QED
    BY <2>1, <2>2
<1>4. Free(s, A) <=> h \notin A /\ Free(t, A)
  BY <1>2, <1>3 DEF Free
<1> QED
  BY <1>4 DEF t, h

(* An element of G may be appended if there is none of F before it.        *)
LEMMA SortedAppend ==
    ASSUME NEW T, NEW s \in Seq(T), NEW x \in T, NEW F, NEW G
    PROVE  Sorted(Append(s, x), F, G) <=> Sorted(s, F, G) /\ (x \in G => Free(s, F))
<1> DEFINE t == Append(s, x)
<1>1. /\ Len(s) \in Nat /\ Len(t) = Len(s) + 1 /\ t[Len(s) + 1] = x
      /\ \A i \in 1..Len(s) : t[i] = s[i]
  BY AppendIs
<1> HIDE DEF t
<1>2. ASSUME Sorted(t, F, G) PROVE Sorted(s, F, G) /\ (x \in G => Free(s, F))
  <2>1. Sorted(s, F, G)
    BY <1>1, <1>2 DEF Sorted
  <2>2. ASSUME x \in G, NEW i \in 1..Len(s) PROVE s[i] \notin F
    <3>1. i \in 1..Len(t) /\ Len(s) + 1 \in 1..Len(t) /\ i < Len(s) + 1
      BY <1>1
    <3> QED
      BY <1>1, <1>2, <2>2, <3>1 DEF Sorted
  <2> QED
    BY <2>1, <2>2 DEF Free
<1>3. ASSUME Sorted(s, F, G), x \in G => Free(s, F),
             NEW i \in 1..Len(t), NEW j \in 1..Len(t), i < j, t[i] \in F
      PROVE  t[j] \notin G
  <2>1. i \in 1..Len(s) /\ t[i] = s[i]
    BY <1>1, <1>3
  <2>2. CASE j \in 1..Len(s)
    BY <1>1, <1>3, <2>1, <2>2 DEF Sorted
  <2>3. CASE j = Len(s) + 1
    BY <1>1, <1>3, <2>1, <2>3 DEF Free
  <2> QED
    BY <1>1, <2>2, <2>3
<1>4. Sorted(t, F, G) <=> Sorted(s, F, G) /\ (x \in G => Free(s, F))
  BY <1>2, <1>3 DEF Sorted
<1> QED
  BY <1>4 DEF t

(* The order of a sequence, from its head and its tail.                    *)
LEMMA SortedTail ==
    ASSUME NEW T, NEW s \in Seq(T), s # <<>>, NEW F, NEW G
    PROVE  Sorted(s, F, G) <=> Sorted(Tail(s), F, G) /\ (Head(s) \in F => Free(Tail(s), G))
<1> DEFINE t == Tail(s)
           h == Head(s)
<1>1. /\ Len(t) \in Nat /\ Len(s) = Len(t) + 1 /\ h = s[1]
      /\ \A i \in 1..Len(t) : t[i] = s[i + 1]
  BY TailIs
<1> HIDE DEF t, h
<1>2. ASSUME Sorted(s, F, G) PROVE Sorted(t, F, G) /\ (h \in F => Free(t, G))
  <2>1. ASSUME NEW i \in 1..Len(t), NEW j \in 1..Len(t), i < j, t[i] \in F
        PROVE  t[j] \notin G
    <3>1. i + 1 \in 1..Len(s) /\ j + 1 \in 1..Len(s) /\ i + 1 < j + 1
      BY <1>1, <2>1
    <3> QED
      BY <1>1, <1>2, <2>1, <3>1 DEF Sorted
  <2>2. ASSUME h \in F, NEW j \in 1..Len(t) PROVE t[j] \notin G
    <3>1. 1 \in 1..Len(s) /\ j + 1 \in 1..Len(s) /\ 1 < j + 1
      BY <1>1
    <3> QED
      BY <1>1, <1>2, <2>2, <3>1 DEF Sorted
  <2> QED
    BY <2>1, <2>2 DEF Sorted, Free
<1>3. ASSUME Sorted(t, F, G), h \in F => Free(t, G),
             NEW i \in 1..Len(s), NEW j \in 1..Len(s), i < j, s[i] \in F
      PROVE  s[j] \notin G
  <2>1. j - 1 \in 1..Len(t) /\ s[j] = t[j - 1]
    BY <1>1, <1>3
  <2>2. CASE i = 1
    BY <1>1, <1>3, <2>1, <2>2 DEF Free
  <2>3. CASE i # 1
    <3>1. i - 1 \in 1..Len(t) /\ s[i] = t[i - 1] /\ i - 1 < j - 1
      BY <1>1, <1>3, <2>3
    <3> QED
      BY <1>3, <2>1, <3>1 DEF Sorted
  <2> QED
    BY <2>2, <2>3
<1>4. Sorted(s, F, G) <=> Sorted(t, F, G) /\ (h \in F => Free(t, G))
  BY <1>2, <1>3 DEF Sorted
<1> QED
  BY <1>4 DEF t, h

(* What comes last after one more element.                                 *)
LEMMA EndsWithAppend ==
    ASSUME NEW T, NEW s \in Seq(T), NEW y \in T, NEW x, NEW G
    PROVE  EndsWith(Append(s, y), x, G) <=> y = x \/ (EndsWith(s, x, G) /\ y \notin G)
<1> DEFINE t == Append(s, y)
<1>1. /\ Len(s) \in Nat /\ Len(t) = Len(s) + 1 /\ t[Len(s) + 1] = y
      /\ \A i \in 1..Len(s) : t[i] = s[i]
  BY AppendIs
<1> HIDE DEF t
<1>2. ASSUME EndsWith(t, x, G) PROVE y = x \/ (EndsWith(s, x, G) /\ y \notin G)
  <2>1. PICK i \in 1..Len(t) : t[i] = x /\ \A j \in 1..Len(t) : i < j => t[j] \notin G
    BY <1>2 DEF EndsWith
  <2>2. CASE i \in 1..Len(s)
    <3>1. Len(s) + 1 \in 1..Len(t) /\ i < Len(s) + 1 /\ s[i] = x
      BY <1>1, <2>1, <2>2
    <3>2. \A j \in 1..Len(s) : i < j => s[j] \notin G
      BY <1>1, <2>1
    <3> QED
      BY <1>1, <2>1, <2>2, <3>1, <3>2 DEF EndsWith
  <2>3. CASE i = Len(s) + 1
    BY <1>1, <2>1, <2>3
  <2> QED
    BY <1>1, <2>2, <2>3
<1>3. ASSUME y = x PROVE EndsWith(t, x, G)
  <2>1. Len(s) + 1 \in 1..Len(t) /\ \A j \in 1..Len(t) : ~(Len(s) + 1 < j)
    BY <1>1
  <2> QED
    BY <1>1, <1>3, <2>1 DEF EndsWith
<1>4. ASSUME EndsWith(s, x, G), y \notin G PROVE EndsWith(t, x, G)
  <2>1. PICK i \in 1..Len(s) : s[i] = x /\ \A j \in 1..Len(s) : i < j => s[j] \notin G
    BY <1>4 DEF EndsWith
  <2>2. i \in 1..Len(t) /\ t[i] = x
    BY <1>1, <2>1
  <2>3. \A j \in 1..Len(t) : i < j => t[j] \notin G
    <3>1. \A j \in 1..Len(t) : j \in 1..Len(s) \/ j = Len(s) + 1
      BY <1>1
    <3> QED
      BY <1>1, <1>4, <2>1, <3>1
  <2> QED
    BY <2>2, <2>3 DEF EndsWith
<1>5. EndsWith(t, x, G) <=> y = x \/ (EndsWith(s, x, G) /\ y \notin G)
  BY <1>2, <1>3, <1>4
<1> QED
  BY <1>5 DEF t

(* What comes last, from the head and the tail.                            *)
LEMMA EndsWithTail ==
    ASSUME NEW T, NEW s \in Seq(T), s # <<>>, NEW x, NEW G
    PROVE  EndsWith(s, x, G) <=> EndsWith(Tail(s), x, G) \/ (Head(s) = x /\ Free(Tail(s), G))
<1> DEFINE t == Tail(s)
           h == Head(s)
<1>1. /\ Len(t) \in Nat /\ Len(s) = Len(t) + 1 /\ h = s[1]
      /\ \A i \in 1..Len(t) : t[i] = s[i + 1]
  BY TailIs
<1> HIDE DEF t, h
<1>2. ASSUME EndsWith(s, x, G) PROVE EndsWith(t, x, G) \/ (h = x /\ Free(t, G))
  <2>1. PICK i \in 1..Len(s) : s[i] = x /\ \A j \in 1..Len(s) : i < j => s[j] \notin G
    BY <1>2 DEF EndsWith
  <2>2. ASSUME NEW j \in 1..Len(t), i < j + 1 PROVE t[j] \notin G
    BY <1>1, <2>1, <2>2
  <2>3. CASE i = 1
    <3>1. \A j \in 1..Len(t) : i < j + 1
      BY <1>1, <2>3
    <3> QED
      BY <1>1, <2>1, <2>2, <2>3, <3>1 DEF Free
  <2>4. CASE i # 1
    <3>1. i - 1 \in 1..Len(t) /\ t[i - 1] = x
      BY <1>1, <2>1, <2>4
    <3>2. \A j \in 1..Len(t) : i - 1 < j => i < j + 1
      BY <1>1
    <3> QED
      BY <2>2, <3>1, <3>2 DEF EndsWith
  <2> QED
    BY <2>3, <2>4
<1>3. ASSUME EndsWith(t, x, G) PROVE EndsWith(s, x, G)
  <2>1. PICK i \in 1..Len(t) : t[i] = x /\ \A j \in 1..Len(t) : i < j => t[j] \notin G
    BY <1>3 DEF EndsWith
  <2>2. i + 1 \in 1..Len(s) /\ s[i + 1] = x
    BY <1>1, <2>1
  <2>3. ASSUME NEW j \in 1..Len(s), i + 1 < j PROVE s[j] \notin G
    <3>1. j - 1 \in 1..Len(t) /\ i < j - 1 /\ s[j] = t[j - 1]
      BY <1>1, <2>3
    <3> QED
      BY <2>1, <3>1
  <2> QED
    BY <2>2, <2>3 DEF EndsWith
<1>4. ASSUME h = x, Free(t, G) PROVE EndsWith(s, x, G)
  <2>1. 1 \in 1..Len(s) /\ s[1] = x
    BY <1>1, <1>4
  <2>2. ASSUME NEW j \in 1..Len(s), 1 < j PROVE s[j] \notin G
    <3>1. j - 1 \in 1..Len(t) /\ s[j] = t[j - 1]
      BY <1>1, <2>2
    <3> QED
      BY <1>4, <3>1 DEF Free
  <2> QED
    BY <2>1, <2>2 DEF EndsWith
<1>5. EndsWith(s, x, G) <=> EndsWith(t, x, G) \/ (h = x /\ Free(t, G))
  BY <1>2, <1>3, <1>4
<1> QED
  BY <1>5 DEF t, h

(* How often x waits in a sequence *)
LEMMA WaitingType ==
    ASSUME NEW T, NEW s \in Seq(T), NEW x
    PROVE  /\ Waiting(s, x) \in Nat
           /\ IsFiniteSet({i \in 1..Len(s) : s[i] = x})
           /\ DOMAIN s = 1..Len(s)
<1>1. Len(s) \in Nat /\ DOMAIN s = 1..Len(s)
  BY LenProperties
<1>2. IsFiniteSet({i \in 1..Len(s) : s[i] = x})
  <2>1. IsFiniteSet(1..Len(s))
    BY <1>1, FS_Interval
  <2>2. {i \in 1..Len(s) : s[i] = x} \in SUBSET (1..Len(s))
    OBVIOUS
  <2> QED
    BY <2>1, <2>2, FS_Subset
<1> QED
  BY <1>1, <1>2, FS_CardinalityType DEF Waiting

(* Counting x in a sequence that grew by one.                              *)
LEMMA WaitingAppend ==
    ASSUME NEW T, NEW s \in Seq(T), NEW y \in T, NEW x
    PROVE  Waiting(Append(s, y), x) = Waiting(s, x) + (IF y = x THEN 1 ELSE 0)
<1> DEFINE t == Append(s, y)
           I == {i \in 1..Len(s) : s[i] = x}
           J == {i \in 1..Len(t) : t[i] = x}
<1>1. /\ t \in Seq(T) /\ Len(s) \in Nat /\ Len(t) = Len(s) + 1 /\ t[Len(s) + 1] = y
      /\ \A i \in 1..Len(s) : t[i] = s[i]
  BY AppendIs
<1>2. IsFiniteSet(I) /\ Waiting(s, x) = Cardinality(I) /\ Cardinality(I) \in Nat
  BY WaitingType DEF Waiting
<1>3. Waiting(t, x) = Cardinality(J)
  BY <1>1, WaitingType DEF Waiting
<1> HIDE DEF t
<1> DEFINE n == Len(s) + 1
<1>4. CASE y = x
  <2>1. J = I \cup {n} /\ n \notin I
    BY <1>1, <1>4
  <2> HIDE DEF I, J, n
  <2>2. Cardinality(J) = Cardinality(I) + 1
    BY <1>2, <2>1, FS_AddElement
  <2> QED
    BY <1>2, <1>3, <1>4, <2>2 DEF t
<1>5. CASE y # x
  <2>1. J = I
    BY <1>1, <1>5
  <2> HIDE DEF I, J
  <2> QED
    BY <1>2, <1>3, <1>5, <2>1 DEF t
<1> QED
  BY <1>4, <1>5

(* Counting x in a sequence that lost its head.                            *)
LEMMA WaitingTail ==
    ASSUME NEW T, NEW s \in Seq(T), s # <<>>, NEW x
    PROVE  Waiting(s, x) = Waiting(Tail(s), x) + (IF Head(s) = x THEN 1 ELSE 0)
<1> DEFINE t == Tail(s)
           h == Head(s)
           I == {i \in 1..Len(t) : t[i] = x}
           J == {i \in 1..Len(s) : s[i] = x}
           K == J \ {1}
<1>1. /\ t \in Seq(T) /\ Len(t) \in Nat /\ Len(s) = Len(t) + 1 /\ h = s[1]
      /\ \A i \in 1..Len(t) : t[i] = s[i + 1]
  BY TailIs
<1>2. IsFiniteSet(I) /\ Waiting(t, x) = Cardinality(I)
  BY <1>1, WaitingType DEF Waiting
<1>3. IsFiniteSet(J) /\ Waiting(s, x) = Cardinality(J) /\ Cardinality(J) \in Nat
  BY WaitingType DEF Waiting
<1> HIDE DEF t, h
<1>4. Cardinality(K) = Cardinality(I)
  <2> DEFINE f == [i \in I |-> i + 1]
  <2>1. f \in [I -> K]
    <3>1. ASSUME NEW i \in I PROVE i + 1 \in K
      BY <1>1
    <3> QED
      BY <3>1
  <2>2. \A i, j \in I : f[i] = f[j] => i = j
    OBVIOUS
  <2>3. ASSUME NEW k \in K PROVE \E i \in I : f[i] = k
    <3>1. k - 1 \in I /\ f[k - 1] = k
      BY <1>1
    <3> QED
      BY <3>1
  <2>4. f \in Bijection(I, K)
    <3> HIDE DEF f, I, K
    <3> QED
      BY <2>1, <2>2, <2>3 DEF Bijection, Injection, Surjection, IsInjective
  <2> QED
    BY <1>2, <2>4, FS_Bijection DEF ExistsBijection
<1>5. 1 \in J <=> h = x
  BY <1>1
<1>6. Cardinality(K) = IF 1 \in J THEN Cardinality(J) - 1 ELSE Cardinality(J)
  BY <1>3, FS_RemoveElement
<1> HIDE DEF I, J, K
<1> QED
  BY <1>2, <1>3, <1>4, <1>5, <1>6 DEF t, h

-----------------------------------------------------------------------------
(* Lines.  Station 1 is the strand that hears; station 5, or 4 if that is  *)
(* left empty, are the effects of the task that speaks.                    *)

(* A station that holds no message, a task that carries none *)
Silence == [type |-> "Silence"]

Places == 1..5
Lines(W) == [Places -> Seq(W)]

(* The others stay as they are. *)
Same(p, q, X) == \A l \in Places \ X : q[l] = p[l]

(* A word is passed on to the next station, a silent one is taken away, a  *)
(* silent one is added.                                                    *)
Passes(p, q, k) ==
    /\ p[k] # <<>>
    /\ q[k] = Tail(p[k])
    /\ q[k - 1] = Append(p[k - 1], Head(p[k]))
    /\ Same(p, q, {k - 1, k})
Drops(p, q, k) == p[k] # <<>> /\ q[k] = Tail(p[k]) /\ Same(p, q, {k})
Skips(p, q, k) == Drops(p, q, k) /\ Head(p[k]) = Silence
Pauses(p, q, k) == q[k] = Append(p[k], Silence) /\ Same(p, q, {k})

(* What a step does to a line that it says nothing to and hears nothing of *)
Carries(p, q) ==
    \/ q = p
    \/ \E k \in 2..5 : Passes(p, q, k)
    \/ \E k \in Places : Skips(p, q, k) \/ Pauses(p, q, k)

(* Words are added at the end. *)
Speaks(p, q, k, w) ==
    /\ \A l \in Places : k <= l => p[l] = <<>>
    /\ q[k] = w
    /\ Same(p, q, {k})

(* Of every station the first word or all of it may be lost. *)
Thins(p, q) == \A k \in Places : q[k] = p[k] \/ q[k] = <<>> \/ (p[k] # <<>> /\ q[k] = Tail(p[k]))

(* Free, Sorted and EndsWith of the words of a whole line, and how often   *)
(* one of them occurs in it                                                *)
LineFree(p, A) == \A k \in Places : Free(p[k], A)
LineSorted(p, F, G) ==
    /\ \A k \in Places : Sorted(p[k], F, G)
    /\ \A k, l \in Places : k < l => Free(p[k], F) \/ Free(p[l], G)
LineEndsWith(p, x, G) ==
    \E k \in Places :
        /\ EndsWith(p[k], x, G)
        /\ \A l \in Places : k < l => Free(p[l], G)
Count(p, x) == Waiting(p[1], x) + Waiting(p[2], x) + Waiting(p[3], x)
                 + Waiting(p[4], x) + Waiting(p[5], x)

(* A word passed on to the next station keeps order, end and counts.       *)
LEMMA PassKeeps ==
    ASSUME NEW W, NEW p \in Lines(W), NEW q, NEW k \in 2..5, Passes(p, q, k)
    PROVE  /\ \A A : LineFree(p, A) => LineFree(q, A)
           /\ \A F, G : LineSorted(p, F, G) => LineSorted(q, F, G)
           /\ \A x, G : LineEndsWith(p, x, G) => LineEndsWith(q, x, G)
           /\ \A x : Count(q, x) = Count(p, x)
<1> DEFINE h == Head(p[k])
           s == Tail(p[k])
           t == Append(p[k - 1], h)
<1>1. /\ k \in Places /\ k - 1 \in Places /\ p[k] \in Seq(W) /\ p[k - 1] \in Seq(W)
      /\ p[k] # <<>> /\ q[k] = s /\ q[k - 1] = t
      /\ \A l \in Places : l = k \/ l = k - 1 \/ q[l] = p[l]
      /\ h \in W
  <2>1. k \in Places /\ k - 1 \in Places
    BY DEF Places
  <2>2. p[k] \in Seq(W) /\ p[k - 1] \in Seq(W) /\ p[k] # <<>> /\ q[k] = s /\ q[k - 1] = t
    BY <2>1 DEF Lines, Passes
  <2>3. \A l \in Places : l = k \/ l = k - 1 \/ q[l] = p[l]
    BY DEF Passes, Same
  <2> QED
    BY <2>1, <2>2, <2>3, TailIs
<1>2. \A A : /\ Free(p[k], A) <=> h \notin A /\ Free(s, A)
             /\ Free(t, A) <=> Free(p[k - 1], A) /\ h \notin A
  BY <1>1, FreeOfTail, FreeOfAppend
<1>3. \A F, G : /\ Sorted(p[k], F, G) <=> Sorted(s, F, G) /\ (h \in F => Free(s, G))
                /\ Sorted(t, F, G) <=> Sorted(p[k - 1], F, G) /\ (h \in G => Free(p[k - 1], F))
  BY <1>1, SortedTail, SortedAppend
<1>4. \A x, G :
          /\ EndsWith(p[k], x, G) <=> EndsWith(s, x, G) \/ (h = x /\ Free(s, G))
          /\ EndsWith(t, x, G) <=> h = x \/ (EndsWith(p[k - 1], x, G) /\ h \notin G)
  BY <1>1, EndsWithTail, EndsWithAppend
<1>5. ASSUME NEW x
      PROVE  /\ Waiting(p[k], x) = Waiting(s, x) + (IF h = x THEN 1 ELSE 0)
             /\ Waiting(t, x) = Waiting(p[k - 1], x) + (IF h = x THEN 1 ELSE 0)
  BY <1>1, WaitingTail, WaitingAppend
<1>6. ASSUME NEW x PROVE Waiting(s, x) \in Nat /\ \A l \in Places : Waiting(p[l], x) \in Nat
  <2>1. s \in Seq(W) /\ \A l \in Places : p[l] \in Seq(W)
    BY <1>1, TailIs DEF Lines
  <2> QED
    BY <2>1, WaitingType
<1> HIDE DEF h, s, t
<1>7. ASSUME NEW A, LineFree(p, A) PROVE LineFree(q, A)
  BY <1>1, <1>2, <1>7 DEF LineFree
<1>8. ASSUME NEW F, NEW G, LineSorted(p, F, G) PROVE LineSorted(q, F, G)
  <2>1. \A l \in Places : Sorted(q[l], F, G)
    BY <1>1, <1>2, <1>3, <1>8 DEF LineSorted, Places
  <2>2. ASSUME NEW l \in Places, NEW m \in Places, l < m PROVE Free(q[l], F) \/ Free(q[m], G)
    BY <1>1, <1>2, <1>3, <1>8, <2>2 DEF LineSorted, Places
  <2> QED
    BY <2>1, <2>2 DEF LineSorted
<1>9. ASSUME NEW x, NEW G, LineEndsWith(p, x, G) PROVE LineEndsWith(q, x, G)
  <2>1. PICK l \in Places : EndsWith(p[l], x, G) /\ \A m \in Places : l < m => Free(p[m], G)
    BY <1>9 DEF LineEndsWith
  <2>2. \A m \in Places : l < m /\ m # k - 1 => Free(q[m], G)
    BY <1>1, <1>2, <2>1
  <2>3. CASE l = k
    BY <1>1, <1>2, <1>4, <2>1, <2>2, <2>3 DEF LineEndsWith, Places
  <2>4. CASE l = k - 1
    BY <1>1, <1>2, <1>4, <2>1, <2>2, <2>4 DEF LineEndsWith, Places
  <2>5. CASE l # k /\ l # k - 1
    BY <1>1, <1>2, <2>1, <2>2, <2>5 DEF LineEndsWith, Places
  <2> QED
    BY <2>3, <2>4, <2>5
<1>10. ASSUME NEW x PROVE Count(q, x) = Count(p, x)
  <2> DEFINE d == IF h = x THEN 1 ELSE 0
  <2>1. k \in {2, 3, 4, 5} /\ {1, 2, 3, 4, 5} \subseteq Places
    BY DEF Places
  <2>2. /\ d \in Nat /\ Waiting(q[k], x) \in Nat /\ Waiting(p[k - 1], x) \in Nat
        /\ Waiting(p[k], x) = Waiting(q[k], x) + d
        /\ Waiting(q[k - 1], x) = Waiting(p[k - 1], x) + d
    BY <1>1, <1>5, <1>6
  <2>3. \A l \in Places : l = k \/ l = k - 1 \/ Waiting(q[l], x) = Waiting(p[l], x)
    BY <1>1
  <2>4. \A l \in Places : Waiting(p[l], x) \in Nat
    BY <1>6
  <2> HIDE DEF d
  <2> DEFINE P(l) == Waiting(p[l], x)
             Q(l) == Waiting(q[l], x)
  <2>5. /\ \A l \in {1, 2, 3, 4, 5} : P(l) \in Nat
        /\ P(k) = Q(k) + d /\ Q(k - 1) = P(k - 1) + d
        /\ \A l \in {1, 2, 3, 4, 5} : l = k \/ l = k - 1 \/ Q(l) = P(l)
    BY <2>1, <2>2, <2>3, <2>4
  <2>6. Q(k) \in Nat
    BY <2>2
  <2> HIDE DEF P, Q
  <2>7. Q(1) + Q(2) + Q(3) + Q(4) + Q(5) = P(1) + P(2) + P(3) + P(4) + P(5)
    <3>1. CASE k = 2
      BY <2>2, <2>5, <2>6, <3>1
    <3>2. CASE k = 3
      BY <2>2, <2>5, <2>6, <3>2
    <3>3. CASE k = 4
      BY <2>2, <2>5, <2>6, <3>3
    <3>4. CASE k = 5
      BY <2>2, <2>5, <2>6, <3>4
    <3> QED
      BY <2>1, <3>1, <3>2, <3>3, <3>4
  <2> QED
    BY <2>7 DEF Count, P, Q
<1> QED
  BY <1>7, <1>8, <1>9, <1>10

(* The first word of a station is lost or heard. *)
LEMMA DropKeeps ==
    ASSUME NEW W, NEW p \in Lines(W), NEW q, NEW k \in Places, Drops(p, q, k)
    PROVE  /\ \A A : LineFree(p, A) => LineFree(q, A)
           /\ \A F, G : LineSorted(p, F, G) => LineSorted(q, F, G)
           /\ \A F, G : LineSorted(p, F, G) /\ k = 1 /\ Head(p[1]) \in F => LineFree(q, G)
           /\ \A x, G : LineEndsWith(p, x, G)
                        => LineEndsWith(q, x, G)
                           \/ (Head(p[k]) = x /\ (k = 1 => LineFree(q, G)))
           /\ \A x : Count(p, x) = Count(q, x) + (IF Head(p[k]) = x THEN 1 ELSE 0)
           /\ \A x : Count(q, x) \in Nat
<1> DEFINE h == Head(p[k])
           s == Tail(p[k])
<1>1. /\ p[k] \in Seq(W) /\ p[k] # <<>> /\ q[k] = s /\ s \in Seq(W)
      /\ \A l \in Places : l = k \/ q[l] = p[l]
  BY TailIs DEF Lines, Drops, Same
<1>2. \A A : Free(p[k], A) <=> h \notin A /\ Free(s, A)
  BY <1>1, FreeOfTail
<1>3. \A F, G : Sorted(p[k], F, G) <=> Sorted(s, F, G) /\ (h \in F => Free(s, G))
  BY <1>1, SortedTail
<1>4. \A x, G : EndsWith(p[k], x, G) <=> EndsWith(s, x, G) \/ (h = x /\ Free(s, G))
  BY <1>1, EndsWithTail
<1>5. ASSUME NEW x
      PROVE  Waiting(p[k], x) = Waiting(s, x) + (IF h = x THEN 1 ELSE 0)
  BY <1>1, WaitingTail
<1>6. ASSUME NEW x PROVE Waiting(s, x) \in Nat /\ \A l \in Places : Waiting(p[l], x) \in Nat
  BY <1>1, WaitingType DEF Lines
<1>7. h = Head(p[k])
  OBVIOUS
<1> HIDE DEF h, s
<1>8. ASSUME NEW A, LineFree(p, A) PROVE LineFree(q, A)
  BY <1>1, <1>2, <1>8 DEF LineFree
<1>9. ASSUME NEW F, NEW G, LineSorted(p, F, G) PROVE LineSorted(q, F, G)
  <2>1. \A l \in Places : Sorted(q[l], F, G)
    BY <1>1, <1>3, <1>9 DEF LineSorted
  <2>2. ASSUME NEW l \in Places, NEW m \in Places, l < m PROVE Free(q[l], F) \/ Free(q[m], G)
    BY <1>1, <1>2, <1>9, <2>2 DEF LineSorted
  <2> QED
    BY <2>1, <2>2 DEF LineSorted
<1>10. ASSUME NEW F, NEW G, LineSorted(p, F, G), k = 1, h \in F PROVE LineFree(q, G)
  <2>1. \A l \in Places : l = 1 \/ 1 < l
    BY DEF Places
  <2>2. ~Free(p[1], F) /\ Free(q[1], G)
    BY <1>1, <1>2, <1>3, <1>10 DEF LineSorted
  <2> QED
    BY <1>1, <1>10, <2>1, <2>2 DEF LineSorted, LineFree
<1>11. ASSUME NEW x, NEW G, LineEndsWith(p, x, G)
       PROVE  LineEndsWith(q, x, G) \/ (h = x /\ (k = 1 => LineFree(q, G)))
  <2>1. PICK l \in Places : EndsWith(p[l], x, G) /\ \A m \in Places : l < m => Free(p[m], G)
    BY <1>11 DEF LineEndsWith
  <2>2. \A m \in Places : l < m => Free(q[m], G)
    BY <1>1, <1>2, <2>1
  <2>3. CASE EndsWith(q[l], x, G)
    BY <2>2, <2>3 DEF LineEndsWith
  <2>4. CASE l = k /\ h = x /\ Free(s, G)
    BY <1>1, <2>2, <2>4 DEF LineFree, Places
  <2> QED
    BY <1>1, <1>4, <2>1, <2>3, <2>4
<1>12. ASSUME NEW x PROVE Count(p, x) = Count(q, x) + (IF h = x THEN 1 ELSE 0)
                          /\ Count(q, x) \in Nat
  <2> DEFINE d == IF h = x THEN 1 ELSE 0
  <2>1. k \in {1, 2, 3, 4, 5} /\ {1, 2, 3, 4, 5} \subseteq Places
    BY DEF Places
  <2>2. d \in Nat /\ Waiting(p[k], x) = Waiting(q[k], x) + d /\ Waiting(q[k], x) \in Nat
    BY <1>1, <1>5, <1>6
  <2>3. \A l \in Places : l = k \/ Waiting(q[l], x) = Waiting(p[l], x)
    BY <1>1
  <2>4. \A l \in Places : Waiting(q[l], x) \in Nat
    BY <1>6, <2>2, <2>3
  <2> HIDE DEF d
  <2>5. Count(p, x) = Count(q, x) + d
    BY <1>6, <2>1, <2>2, <2>3, <2>4 DEF Count
  <2>6. Count(q, x) \in Nat
    BY <2>1, <2>4 DEF Count
  <2> QED
    BY <2>5, <2>6 DEF d
<1> QED
  BY <1>7, <1>8, <1>9, <1>10, <1>11, <1>12

(* So does a silent word that is added.                                    *)
LEMMA PauseKeeps ==
    ASSUME NEW W, NEW p \in Lines(W), NEW q, NEW k \in Places, Pauses(p, q, k), Silence \in W
    PROVE  /\ \A A : LineFree(p, A) /\ Silence \notin A => LineFree(q, A)
           /\ \A F, G : LineSorted(p, F, G) /\ Silence \notin F \cup G
                    => LineSorted(q, F, G)
           /\ \A x, G : LineEndsWith(p, x, G) /\ Silence \notin G => LineEndsWith(q, x, G)
           /\ \A x : x # Silence => Count(q, x) = Count(p, x)
<1> DEFINE t == Append(p[k], Silence)
<1>1. /\ p[k] \in Seq(W) /\ q[k] = t /\ \A l \in Places : l = k \/ q[l] = p[l]
  BY DEF Lines, Pauses, Same
<1>2. \A A : Free(t, A) <=> Free(p[k], A) /\ Silence \notin A
  BY <1>1, FreeOfAppend
<1>3. \A F, G : Sorted(t, F, G) <=> Sorted(p[k], F, G) /\ (Silence \in G => Free(p[k], F))
  BY <1>1, SortedAppend
<1>4. \A x, G : EndsWith(t, x, G) <=> Silence = x \/ (EndsWith(p[k], x, G) /\ Silence \notin G)
  BY <1>1, EndsWithAppend
<1>5. ASSUME NEW x, x # Silence PROVE Waiting(t, x) = Waiting(p[k], x)
  <2>1. Waiting(t, x) = Waiting(p[k], x) + (IF Silence = x THEN 1 ELSE 0)
    BY <1>1, WaitingAppend
  <2>2. Waiting(p[k], x) \in Nat
    BY <1>1, WaitingType
  <2> QED
    BY <1>5, <2>1, <2>2
<1>6. ASSUME NEW x PROVE \A l \in Places : Waiting(p[l], x) \in Nat
  BY WaitingType DEF Lines
<1> HIDE DEF t
<1>7. ASSUME NEW A, LineFree(p, A), Silence \notin A PROVE LineFree(q, A)
  BY <1>1, <1>2, <1>7 DEF LineFree
<1>8. ASSUME NEW F, NEW G, LineSorted(p, F, G), Silence \notin G, Silence \notin F
      PROVE  LineSorted(q, F, G)
  <2>1. \A l \in Places : Sorted(q[l], F, G)
    BY <1>1, <1>3, <1>8 DEF LineSorted
  <2>2. ASSUME NEW l \in Places, NEW m \in Places, l < m PROVE Free(q[l], F) \/ Free(q[m], G)
    BY <1>1, <1>2, <1>8, <2>2 DEF LineSorted
  <2> QED
    BY <2>1, <2>2 DEF LineSorted
<1>9. ASSUME NEW x, NEW G, LineEndsWith(p, x, G), Silence \notin G PROVE LineEndsWith(q, x, G)
  <2>1. PICK l \in Places : EndsWith(p[l], x, G) /\ \A m \in Places : l < m => Free(p[m], G)
    BY <1>9 DEF LineEndsWith
  <2>2. \A m \in Places : l < m => Free(q[m], G)
    BY <1>1, <1>2, <1>9, <2>1
  <2>3. EndsWith(q[l], x, G)
    BY <1>1, <1>4, <1>9, <2>1
  <2> QED
    BY <2>2, <2>3 DEF LineEndsWith
<1>10. ASSUME NEW x, x # Silence PROVE Count(q, x) = Count(p, x)
  <2>1. k \in {1, 2, 3, 4, 5} /\ {1, 2, 3, 4, 5} \subseteq Places
    BY DEF Places
  <2>2. \A l \in Places : Waiting(q[l], x) = Waiting(p[l], x)
    BY <1>1, <1>5, <1>6, <1>10
  <2> QED
    BY <2>1, <2>2 DEF Count
<1> QED
  BY <1>7, <1>8, <1>9, <1>10

(* What words added at the end of station k keep, if nothing is behind it. *)
LEMMA SpeakKeeps ==
    ASSUME NEW W, NEW p \in Lines(W), NEW q, NEW k \in Places, NEW w \in Seq(W),
           Speaks(p, q, k, w)
    PROVE  /\ \A A : LineFree(p, A) /\ Free(w, A) => LineFree(q, A)
           /\ \A F, G : LineSorted(p, F, G) /\ Free(w, G) => LineSorted(q, F, G)
           /\ \A x, G : LineEndsWith(p, x, G) /\ Free(w, G) => LineEndsWith(q, x, G)
           /\ \A x, G : EndsWith(w, x, G) => LineEndsWith(q, x, G)
<1>1. /\ q[k] = w /\ \A l \in Places : l = k \/ q[l] = p[l]
      /\ \A l \in Places : k <= l => p[l] = <<>>
      /\ p[k] = <<>>
  BY DEF Speaks, Same, Places
<1>2. \A l \in Places : k < l => q[l] = <<>>
  BY <1>1 DEF Places
<1>3. \A A, F, G, x : Free(<<>>, A) /\ Sorted(<<>>, F, G) /\ ~EndsWith(<<>>, x, G)
                      /\ Waiting(<<>>, x) = 0
  BY EmptyFacts
<1>4. ASSUME NEW A, LineFree(p, A), Free(w, A) PROVE LineFree(q, A)
  BY <1>1, <1>4 DEF LineFree
<1>5. ASSUME NEW F, NEW G, LineSorted(p, F, G), Free(w, G) PROVE LineSorted(q, F, G)
  <2>1. Sorted(w, F, G)
    BY <1>5 DEF Free, Sorted
  <2>2. \A l \in Places : Sorted(q[l], F, G)
    BY <1>1, <1>5, <2>1 DEF LineSorted
  <2>3. ASSUME NEW l \in Places, NEW m \in Places, l < m PROVE Free(q[l], F) \/ Free(q[m], G)
    <3>1. CASE m = k
      BY <1>1, <1>5, <3>1
    <3>2. CASE l = k
      BY <1>2, <1>3, <2>3, <3>2
    <3>3. CASE l # k /\ m # k
      BY <1>1, <1>5, <2>3, <3>3 DEF LineSorted
    <3> QED
      BY <3>1, <3>2, <3>3
  <2> QED
    BY <2>2, <2>3 DEF LineSorted
<1>6. ASSUME NEW x, NEW G, LineEndsWith(p, x, G), Free(w, G) PROVE LineEndsWith(q, x, G)
  <2>1. PICK l \in Places : EndsWith(p[l], x, G) /\ \A m \in Places : l < m => Free(p[m], G)
    BY <1>6 DEF LineEndsWith
  <2>2. l # k
    BY <1>1, <1>3, <2>1
  <2>3. EndsWith(q[l], x, G) /\ \A m \in Places : l < m => Free(q[m], G)
    BY <1>1, <1>6, <2>1, <2>2
  <2> QED
    BY <2>3 DEF LineEndsWith
<1>7. ASSUME NEW x, NEW G, EndsWith(w, x, G) PROVE LineEndsWith(q, x, G)
  BY <1>1, <1>2, <1>3, <1>7 DEF LineEndsWith
<1> QED
  BY <1>4, <1>5, <1>6, <1>7

(* Words added to a line are counted.                                      *)
LEMMA SpeakCounts ==
    ASSUME NEW W, NEW p \in Lines(W), NEW q, NEW k \in Places, NEW w \in Seq(W),
           Speaks(p, q, k, w), NEW x
    PROVE  /\ Count(p, x) \in Nat /\ Waiting(w, x) \in Nat
           /\ Count(q, x) = Count(p, x) + Waiting(w, x)
<1>0. /\ q[k] = w /\ \A l \in Places : l = k \/ q[l] = p[l]
      /\ p[k] = <<>> /\ Waiting(<<>>, x) = 0
  BY EmptyFacts DEF Speaks, Same, Places
<1>1. k \in {1, 2, 3, 4, 5} /\ {1, 2, 3, 4, 5} \subseteq Places
  BY DEF Places
<1>2. /\ Waiting(w, x) \in Nat /\ Waiting(q[k], x) = Waiting(w, x)
      /\ Waiting(p[k], x) = 0
  BY <1>0, <1>1, WaitingType
<1>3. \A l \in Places : l = k \/ Waiting(q[l], x) = Waiting(p[l], x)
  BY <1>0
<1>4. \A l \in Places : Waiting(p[l], x) \in Nat
  BY WaitingType DEF Lines
<1> DEFINE a == Waiting(p[1], x)
           b == Waiting(p[2], x)
           c == Waiting(p[3], x)
           e == Waiting(p[4], x)
           f == Waiting(p[5], x)
           d == Waiting(w, x)
<1>5. /\ a \in Nat /\ b \in Nat /\ c \in Nat /\ e \in Nat /\ f \in Nat /\ d \in Nat
      /\ Count(p, x) = a + b + c + e + f
  BY <1>1, <1>2, <1>4 DEF Count
<1>6. CASE k = 1
  <2>1. a = 0 /\ Count(q, x) = d + b + c + e + f
    BY <1>1, <1>2, <1>3, <1>6 DEF Count
  <2> HIDE DEF a, b, c, d, e, f
  <2> QED
    BY <1>5, <2>1 DEF d
<1>7. CASE k = 2
  <2>1. b = 0 /\ Count(q, x) = a + d + c + e + f
    BY <1>1, <1>2, <1>3, <1>7 DEF Count
  <2> HIDE DEF a, b, c, d, e, f
  <2> QED
    BY <1>5, <2>1 DEF d
<1>8. CASE k = 3
  <2>1. c = 0 /\ Count(q, x) = a + b + d + e + f
    BY <1>1, <1>2, <1>3, <1>8 DEF Count
  <2> HIDE DEF a, b, c, d, e, f
  <2> QED
    BY <1>5, <2>1 DEF d
<1>9. CASE k = 4
  <2>1. e = 0 /\ Count(q, x) = a + b + c + d + f
    BY <1>1, <1>2, <1>3, <1>9 DEF Count
  <2> HIDE DEF a, b, c, d, e, f
  <2> QED
    BY <1>5, <2>1 DEF d
<1>10. CASE k = 5
  <2>1. f = 0 /\ Count(q, x) = a + b + c + e + d
    BY <1>1, <1>2, <1>3, <1>10 DEF Count
  <2> HIDE DEF a, b, c, d, e, f
  <2> QED
    BY <1>5, <2>1 DEF d
<1>11. Count(q, x) = Count(p, x) + d
  BY <1>1, <1>6, <1>7, <1>8, <1>9, <1>10
<1>12. Count(p, x) \in Nat
  <2> HIDE DEF a, b, c, d, e, f
  <2> QED
    BY <1>5
<1> QED
  BY <1>2, <1>11, <1>12

(* A line that loses words stays free of A, and stays sorted.              *)
LEMMA ThinKeeps ==
    ASSUME NEW W, NEW p \in Lines(W), NEW q, Thins(p, q)
    PROVE  /\ \A A : LineFree(p, A) => LineFree(q, A)
           /\ \A F, G : LineSorted(p, F, G) => LineSorted(q, F, G)
<1>1. ASSUME NEW k \in Places
      PROVE  /\ \A A : Free(p[k], A) => Free(q[k], A)
             /\ \A F, G : Sorted(p[k], F, G) => Sorted(q[k], F, G)
  <2>1. p[k] \in Seq(W)
    BY DEF Lines
  <2>2. CASE q[k] = p[k]
    BY <2>2
  <2>3. CASE q[k] = <<>>
    BY <2>3, EmptyFacts
  <2>4. CASE p[k] # <<>> /\ q[k] = Tail(p[k])
    BY <2>1, <2>4, FreeOfTail, SortedTail
  <2> QED
    BY <2>2, <2>3, <2>4 DEF Thins
<1> QED
  BY <1>1 DEF LineFree, LineSorted

(* What nothing is said to and heard of keeps all of it. *)
LEMMA CarryKeeps ==
    ASSUME NEW W, NEW p \in Lines(W), NEW q, Carries(p, q), Silence \in W
    PROVE  /\ \A A : LineFree(p, A) /\ Silence \notin A => LineFree(q, A)
           /\ \A F, G : LineSorted(p, F, G) /\ Silence \notin F \cup G => LineSorted(q, F, G)
           /\ \A x, G : LineEndsWith(p, x, G) /\ Silence \notin G /\ x # Silence
                        => LineEndsWith(q, x, G)
           /\ \A x : x # Silence => Count(q, x) = Count(p, x)
<1>1. CASE q = p
  BY <1>1
<1>2. ASSUME NEW k \in 2..5, Passes(p, q, k)
      PROVE  /\ \A A : LineFree(p, A) => LineFree(q, A)
             /\ \A F, G : LineSorted(p, F, G) => LineSorted(q, F, G)
             /\ \A x, G : LineEndsWith(p, x, G) => LineEndsWith(q, x, G)
             /\ \A x : Count(q, x) = Count(p, x)
  BY <1>2, PassKeeps
<1>3. ASSUME NEW k \in Places, Skips(p, q, k)
      PROVE  /\ \A A : LineFree(p, A) => LineFree(q, A)
             /\ \A F, G : LineSorted(p, F, G) => LineSorted(q, F, G)
             /\ \A x, G : LineEndsWith(p, x, G) /\ x # Silence => LineEndsWith(q, x, G)
             /\ \A x : x # Silence => Count(q, x) = Count(p, x)
  <2>1. Drops(p, q, k) /\ Head(p[k]) = Silence
    BY <1>3 DEF Skips
  <2>2. /\ \A A : LineFree(p, A) => LineFree(q, A)
        /\ \A F, G : LineSorted(p, F, G) => LineSorted(q, F, G)
        /\ \A x, G : LineEndsWith(p, x, G) => LineEndsWith(q, x, G) \/ Head(p[k]) = x
        /\ \A x : Count(p, x) = Count(q, x) + (IF Head(p[k]) = x THEN 1 ELSE 0)
        /\ \A x : Count(q, x) \in Nat
    BY <2>1, DropKeeps
  <2>3. ASSUME NEW x, x # Silence PROVE Count(q, x) = Count(p, x)
    <3>1. Count(p, x) = Count(q, x) + 0 /\ Count(q, x) \in Nat
      BY <2>1, <2>2, <2>3
    <3> QED
      BY <3>1
  <2> QED
    BY <2>1, <2>2, <2>3
<1>4. ASSUME NEW k \in Places, Pauses(p, q, k)
      PROVE  /\ \A A : LineFree(p, A) /\ Silence \notin A => LineFree(q, A)
             /\ \A F, G : LineSorted(p, F, G) /\ Silence \notin F \cup G => LineSorted(q, F, G)
             /\ \A x, G : LineEndsWith(p, x, G) /\ Silence \notin G => LineEndsWith(q, x, G)
             /\ \A x : x # Silence => Count(q, x) = Count(p, x)
  BY <1>4, PauseKeeps
<1>5. CASE \E k \in 2..5 : Passes(p, q, k)
  BY <1>2, <1>5
<1>6. CASE \E k \in Places : Skips(p, q, k)
  BY <1>3, <1>6
<1>7. CASE \E k \in Places : Pauses(p, q, k)
  BY <1>4, <1>7
<1> QED
  BY <1>1, <1>5, <1>6, <1>7 DEF Carries

-----------------------------------------------------------------------------
(* The lines of a session *)

Words == C!Message \cup {Silence}

(* The word of a task or an effect: the message of those of the given kind *)
WordOf(kind, x) ==
    IF kind = "SendMessage"
      THEN IF x.effect = "SendMessage" THEN x.message ELSE Silence
      ELSE IF x.task = kind THEN x.bytes ELSE Silence
WordsOf(kind, s) == [i \in 1..Len(s) |-> WordOf(kind, s[i])]

ToServerLine ==
    <<WordsOf("Received", serverStrand),
      IF reader = "deliver" THEN <<inHand>> ELSE <<>>,
      toServer,
      WordsOf("Send", clientStrand),
      WordsOf("SendMessage", clientEffects)>>
ToClientLine ==
    <<WordsOf("Received", clientStrand),
      toClient,
      WordsOf("Send", serverStrand),
      WordsOf("SendMessage", serverEffects),
      <<>> >>

HaveWords(kind, T) == \A x \in T : WordOf(kind, x) \in Words

(* The words of a queue follow its growth and its shrinking.               *)
LEMMA WordsOfIs ==
    ASSUME NEW kind, NEW T, HaveWords(kind, T), NEW s \in Seq(T)
    PROVE  /\ WordsOf(kind, s) \in Seq(Words)
           /\ WordsOf(kind, s) = <<>> <=> s = <<>>
           /\ WordsOf(kind, <<>>) = <<>>
           /\ \A x \in T : WordsOf(kind, Append(s, x)) = Append(WordsOf(kind, s), WordOf(kind, x))
           /\ s # <<>> => /\ Head(WordsOf(kind, s)) = WordOf(kind, Head(s))
                          /\ WordsOf(kind, Tail(s)) = Tail(WordsOf(kind, s))
<1> DEFINE w == WordsOf(kind, s)
<1>1. Len(s) \in Nat /\ \A i \in 1..Len(s) : s[i] \in T
  BY LenProperties
<1>2. w \in Seq(Words) /\ Len(w) = Len(s) /\ \A i \in 1..Len(s) : w[i] = WordOf(kind, s[i])
  BY <1>1 DEF WordsOf, HaveWords
<1>3. w = <<>> <=> s = <<>>
  <2>1. w = <<>> <=> Len(w) = 0
    BY <1>2, EmptySeq
  <2>2. s = <<>> <=> Len(s) = 0
    BY EmptySeq
  <2> QED
    BY <1>2, <2>1, <2>2
<1>4. WordsOf(kind, <<>>) = <<>>
  BY DEF WordsOf
<1>5. ASSUME NEW x \in T PROVE WordsOf(kind, Append(s, x)) = Append(w, WordOf(kind, x))
  <2> DEFINE t == Append(s, x)
             u == WordsOf(kind, t)
             v == Append(w, WordOf(kind, x))
  <2>1. /\ t \in Seq(T) /\ Len(t) = Len(s) + 1 /\ t[Len(s) + 1] = x
        /\ \A i \in 1..Len(s) : t[i] = s[i]
    BY AppendIs
  <2>2. WordOf(kind, x) \in Words
    BY DEF HaveWords
  <2>3. /\ v \in Seq(Words) /\ Len(v) = Len(s) + 1 /\ v[Len(s) + 1] = WordOf(kind, x)
        /\ \A i \in 1..Len(s) : v[i] = w[i]
    <3> HIDE DEF w
    <3> QED
      BY <1>2, <2>2, AppendIs
  <2> HIDE DEF t, w, v
  <2>4. u \in Seq(Words) /\ Len(u) = Len(t) /\ \A i \in 1..Len(t) : u[i] = WordOf(kind, t[i])
    <3>1. Len(t) \in Nat /\ \A i \in 1..Len(t) : t[i] \in T
      BY <2>1, LenProperties
    <3> QED
      BY <3>1 DEF WordsOf, HaveWords
  <2> HIDE DEF u
  <2>5. \A i \in 1..Len(u) : u[i] = v[i]
    <3>1. ASSUME NEW i \in 1..Len(u) PROVE u[i] = v[i]
      <4>1. CASE i \in 1..Len(s)
        BY <1>2, <2>1, <2>3, <2>4, <4>1
      <4>2. CASE i = Len(s) + 1
        BY <1>1, <2>1, <2>3, <2>4, <4>2
      <4> QED
        BY <1>1, <2>1, <2>4, <4>1, <4>2
    <3> QED
      BY <3>1
  <2>6. u = v
    BY <2>1, <2>3, <2>4, <2>5, SeqEqual
  <2> QED
    BY <2>6 DEF u, t, v
<1>6. ASSUME s # <<>>
      PROVE  Head(w) = WordOf(kind, Head(s)) /\ WordsOf(kind, Tail(s)) = Tail(w)
  <2> DEFINE t == Tail(s)
             h == Head(s)
             u == WordsOf(kind, t)
             v == Tail(w)
             g == Head(w)
  <2>1. /\ t \in Seq(T) /\ Len(t) \in Nat /\ Len(s) = Len(t) + 1 /\ h = s[1]
        /\ \A i \in 1..Len(t) : t[i] = s[i + 1]
    BY <1>6, TailIs
  <2>2. /\ v \in Seq(Words) /\ Len(v) \in Nat /\ Len(w) = Len(v) + 1 /\ g = w[1]
        /\ \A i \in 1..Len(v) : v[i] = w[i + 1]
    <3> HIDE DEF w
    <3> QED
      BY <1>2, <1>3, <1>6, TailIs
  <2> HIDE DEF t, h, v, g, w
  <2>3. u \in Seq(Words) /\ Len(u) = Len(t) /\ \A i \in 1..Len(t) : u[i] = WordOf(kind, t[i])
    <3>1. \A i \in 1..Len(t) : t[i] \in T
      BY <2>1, LenProperties
    <3> QED
      BY <2>1, <3>1 DEF WordsOf, HaveWords
  <2> HIDE DEF u
  <2>4. g = WordOf(kind, h)
    BY <1>1, <1>2, <2>1, <2>2
  <2>5. ASSUME NEW i \in 1..Len(u) PROVE u[i] = v[i]
    <3>1. i \in 1..Len(t) /\ i \in 1..Len(v) /\ i + 1 \in 1..Len(s)
      BY <1>2, <2>1, <2>2, <2>3
    <3> QED
      BY <1>2, <2>1, <2>2, <2>3, <3>1
  <2>6. Len(u) = Len(v)
    BY <1>2, <2>1, <2>2, <2>3
  <2>7. u = v
    BY <2>2, <2>3, <2>5, <2>6, SeqEqual
  <2> QED
    BY <2>4, <2>7 DEF u, t, v, g, h
<1> QED
  BY <1>2, <1>3, <1>4, <1>5, <1>6

(* Every task and every effect has a word.                                 *)
LEMMA AllHaveWords ==
    /\ Silence \in Words
    /\ FromClient \subseteq Words /\ FromServer \subseteq Words
    /\ HaveWords("Received", ClientTasks) /\ HaveWords("Send", ClientTasks)
    /\ HaveWords("Received", ServerTasks) /\ HaveWords("Send", ServerTasks)
    /\ HaveWords("SendMessage", ClientEffects) /\ HaveWords("SendMessage", ServerEffects)
<1>1. Silence \in Words /\ FromClient \subseteq Words /\ FromServer \subseteq Words
  BY DEF Words, FromClient, FromServer
<1> QED
  BY <1>1, Contents DEF HaveWords, WordOf

(* The stations *)
LEMMA Stations ==
    /\ /\ ToServerLine[1] = WordsOf("Received", serverStrand)
       /\ ToServerLine[2] = IF reader = "deliver" THEN <<inHand>> ELSE <<>>
       /\ ToServerLine[3] = toServer
       /\ ToServerLine[4] = WordsOf("Send", clientStrand)
       /\ ToServerLine[5] = WordsOf("SendMessage", clientEffects)
       /\ ToClientLine[1] = WordsOf("Received", clientStrand)
       /\ ToClientLine[2] = toClient
       /\ ToClientLine[3] = WordsOf("Send", serverStrand)
       /\ ToClientLine[4] = WordsOf("SendMessage", serverEffects)
       /\ ToClientLine[5] = <<>>
    /\ /\ ToServerLine'[1] = WordsOf("Received", serverStrand')
       /\ ToServerLine'[2] = IF reader' = "deliver" THEN <<inHand'>> ELSE <<>>
       /\ ToServerLine'[3] = toServer'
       /\ ToServerLine'[4] = WordsOf("Send", clientStrand')
       /\ ToServerLine'[5] = WordsOf("SendMessage", clientEffects')
       /\ ToClientLine'[1] = WordsOf("Received", clientStrand')
       /\ ToClientLine'[2] = toClient'
       /\ ToClientLine'[3] = WordsOf("Send", serverStrand')
       /\ ToClientLine'[4] = WordsOf("SendMessage", serverEffects')
       /\ ToClientLine'[5] = <<>>
    /\ Places = {1, 2, 3, 4, 5}
BY DEF ToServerLine, ToClientLine, WordsOf, Places

(* Both lines are lines of words.                                          *)
LEMMA LinesType ==
    ASSUME SessionInv
    PROVE  ToServerLine \in Lines(Words) /\ ToClientLine \in Lines(Words)
<1>1. /\ serverStrand \in Seq(ServerTasks) /\ clientStrand \in Seq(ClientTasks)
      /\ serverEffects \in Seq(ServerEffects) /\ clientEffects \in Seq(ClientEffects)
      /\ toServer \in Seq(Words) /\ toClient \in Seq(Words)
      /\ reader = "deliver" => inHand \in Words
  BY AllHaveWords DEF SessionInv, ServerInv, ServerState, ClientInv, ClientState, WireInv, LinkInv
<1>2. /\ WordsOf("Received", serverStrand) \in Seq(Words)
      /\ WordsOf("Send", serverStrand) \in Seq(Words)
      /\ WordsOf("Received", clientStrand) \in Seq(Words)
      /\ WordsOf("Send", clientStrand) \in Seq(Words)
      /\ WordsOf("SendMessage", serverEffects) \in Seq(Words)
      /\ WordsOf("SendMessage", clientEffects) \in Seq(Words)
  BY <1>1, AllHaveWords, WordsOfIs
<1>3. <<>> \in Seq(Words) /\ (IF reader = "deliver" THEN <<inHand>> ELSE <<>>) \in Seq(Words)
  BY <1>1
<1>4. ASSUME NEW k \in Places
      PROVE  ToServerLine[k] \in Seq(Words) /\ ToClientLine[k] \in Seq(Words)
  <2>1. k = 1 \/ k = 2 \/ k = 3 \/ k = 4 \/ k = 5
    BY DEF Places
  <2> QED
    BY <1>1, <1>2, <1>3, <2>1, Stations
<1>5. ToServerLine = [k \in Places |-> ToServerLine[k]] /\ ToClientLine = [k \in Places |-> ToClientLine[k]]
  BY DEF Places, ToServerLine, ToClientLine
<1> QED
  BY <1>4, <1>5 DEF Lines

-----------------------------------------------------------------------------
(* The words that matter, and what they are to the two sides *)

Hellos == {w \in Words : w.type = "Hello"}
Greetings(id) == {w \in Hellos : w.instance_id = id}
Stale(id) == {w \in Hellos : w.instance_id # id}

(* Behind a Hello of instance id there is none of another one; there is    *)
(* no Hello of another one; the last word on the handshake is a request    *)
(* for telemetry.                                                          *)
InOrder(p, id) == LineSorted(p, Greetings(id), Stale(id))
NoneStale(p, id) == LineFree(p, Stale(id))
Asks(p) == LineEndsWith(p, C!MakeTelemetryStart, Hellos)

(* A step that at most loses words, and one that keeps those that matter *)
Orderly(p, q) ==
    \A id : /\ InOrder(p, id) => InOrder(q, id)
            /\ NoneStale(p, id) => NoneStale(q, id)
Calm(p, q) ==
    /\ Orderly(p, q)
    /\ Asks(p) => Asks(q)
    /\ \A m \in Hellos : Count(q, m) = Count(p, m)

(* Hellos, the telemetry request and silence are different words.          *)
LEMMA WordFacts ==
    /\ Silence \notin Hellos /\ C!MakeTelemetryStart \notin Hellos
    /\ C!MakeTelemetryStart # Silence
    /\ \A id : Greetings(id) \subseteq Hellos /\ Stale(id) \subseteq Hellos
    /\ \A id : Silence \notin Greetings(id) \cup Stale(id) /\ Silence \notin Stale(id)
    /\ \A m \in Hellos : m # Silence
BY DEF Hellos, Greetings, Stale, Silence, C!MakeTelemetryStart

(* A step that carries words or adds silence disturbs nothing.             *)
LEMMA SilenceIsCalm ==
    ASSUME NEW p \in Lines(Words), NEW q, Carries(p, q)
    PROVE  Calm(p, q)
<1>1. Silence \in Words
  BY AllHaveWords
<1>2. ASSUME NEW id PROVE (InOrder(p, id) => InOrder(q, id)) /\ (NoneStale(p, id) => NoneStale(q, id))
  <2> DEFINE F == Greetings(id)
             G == Stale(id)
  <2>1. Silence \notin G /\ Silence \notin F \cup G
    BY WordFacts
  <2> HIDE DEF F, G
  <2>2. LineFree(p, G) => LineFree(q, G)
    BY <1>1, <2>1, CarryKeeps
  <2>3. LineSorted(p, F, G) => LineSorted(q, F, G)
    BY <1>1, <2>1, CarryKeeps
  <2> QED
    BY <2>2, <2>3 DEF InOrder, NoneStale, F, G
<1>3. Asks(p) => Asks(q)
  <2> DEFINE x == C!MakeTelemetryStart
             G == Hellos
  <2>1. Silence \notin G /\ x # Silence
    BY WordFacts
  <2> HIDE DEF x, G
  <2>2. LineEndsWith(p, x, G) => LineEndsWith(q, x, G)
    BY <1>1, <2>1, CarryKeeps
  <2> QED
    BY <2>2 DEF Asks, x, G
<1>4. ASSUME NEW m \in Hellos PROVE Count(q, m) = Count(p, m)
  BY <1>1, CarryKeeps, WordFacts
<1> QED
  BY <1>2, <1>3, <1>4 DEF Calm, Orderly

(* A step that loses words keeps the order of the Hellos.                  *)
LEMMA ThinIsOrderly ==
    ASSUME NEW p \in Lines(Words), NEW q, Thins(p, q)
    PROVE  Orderly(p, q)
BY ThinKeeps DEF Orderly, InOrder, NoneStale

(* Taking the first word of a station loses words at most.                 *)
LEMMA DropsThin ==
    ASSUME NEW p, NEW q, NEW k \in Places, Drops(p, q, k)
    PROVE  Thins(p, q)
BY DEF Drops, Same, Thins

(* Calm and orderly steps compose.                                         *)
LEMMA CalmFacts ==
    ASSUME NEW p, NEW q, NEW r
    PROVE  /\ Calm(p, q) => Orderly(p, q)
           /\ Calm(p, p)
           /\ Calm(p, q) /\ Calm(q, r) => Calm(p, r)
           /\ Orderly(p, q) /\ Orderly(q, r) => Orderly(p, r)
<1>1. Calm(p, p) /\ (Calm(p, q) => Orderly(p, q))
  BY DEF Calm, Orderly
<1>2. Orderly(p, q) /\ Orderly(q, r) => Orderly(p, r)
  BY DEF Orderly
<1>3. Calm(p, q) /\ Calm(q, r) => Calm(p, r)
  <2> HAVE Calm(p, q) /\ Calm(q, r)
  <2>1. Orderly(p, r) /\ (Asks(p) => Asks(r))
    BY <1>2 DEF Calm
  <2>2. ASSUME NEW m \in Hellos PROVE Count(r, m) = Count(p, m)
    <3>1. Count(r, m) = Count(q, m) /\ Count(q, m) = Count(p, m)
      BY DEF Calm
    <3> QED
      BY <3>1
  <2> QED
    BY <2>1, <2>2 DEF Calm
<1> QED
  BY <1>1, <1>2, <1>3

(* A line of which a word is heard that is neither a Hello nor a request,  *)
(* and one to which words are added without a Hello                        *)
LEMMA DropIsCalm ==
    ASSUME NEW p \in Lines(Words), NEW q, NEW k \in Places, Drops(p, q, k),
           Head(p[k]) \notin Hellos, Head(p[k]) # C!MakeTelemetryStart
    PROVE  Calm(p, q)
<1>1. Orderly(p, q)
  BY DropsThin, ThinIsOrderly
<1>2. Asks(p) => Asks(q)
  <2> DEFINE x == C!MakeTelemetryStart
             G == Hellos
  <2>1. Head(p[k]) # x
    OBVIOUS
  <2> HIDE DEF x, G
  <2>2. LineEndsWith(p, x, G) => LineEndsWith(q, x, G)
    BY <2>1, DropKeeps
  <2> QED
    BY <2>2 DEF Asks, x, G
<1>3. ASSUME NEW m \in Hellos PROVE Count(q, m) = Count(p, m)
  <2>1. Head(p[k]) # m
    OBVIOUS
  <2>2. Count(p, m) = Count(q, m) + 0 /\ Count(q, m) \in Nat
    BY <2>1, DropKeeps
  <2> QED
    BY <2>2
<1> QED
  BY <1>1, <1>2, <1>3 DEF Calm

(* A count is a natural number.                                            *)
LEMMA CountType ==
    ASSUME NEW W, NEW p \in Lines(W), NEW x
    PROVE  Count(p, x) \in Nat
<1> DEFINE c(k) == Waiting(p[k], x)
<1>1. ASSUME NEW k \in Places PROVE c(k) \in Nat
  BY WaitingType DEF Lines
<1>2. c(1) \in Nat /\ c(2) \in Nat /\ c(3) \in Nat /\ c(4) \in Nat /\ c(5) \in Nat
  <2>1. 1 \in Places /\ 2 \in Places /\ 3 \in Places /\ 4 \in Places /\ 5 \in Places
    BY DEF Places
  <2> QED
    BY <1>1, <2>1
<1>3. Count(p, x) = c(1) + c(2) + c(3) + c(4) + c(5)
  BY DEF Count
<1> QED
  BY <1>2, <1>3

(* Words without a Hello, added last, disturb nothing.                     *)
LEMMA SpeechIsCalm ==
    ASSUME NEW p \in Lines(Words), NEW q, NEW k \in Places, NEW w \in Seq(Words),
           Speaks(p, q, k, w), Free(w, Hellos)
    PROVE  Calm(p, q)
<1>1. w \in Seq(Words)
  OBVIOUS
<1>2. DOMAIN w = 1..Len(w) /\ \A i \in 1..Len(w) : w[i] \notin Hellos
  BY LenProperties DEF Free
<1>3. Free(w, Hellos) /\ \A id : Free(w, Stale(id))
  BY <1>2, WordFacts DEF Free
<1>4. ASSUME NEW id PROVE (InOrder(p, id) => InOrder(q, id)) /\ (NoneStale(p, id) => NoneStale(q, id))
  <2> DEFINE F == Greetings(id)
             G == Stale(id)
  <2>1. Free(w, G)
    BY <1>3
  <2> HIDE DEF F, G
  <2>2. LineFree(p, G) => LineFree(q, G)
    BY <1>1, <2>1, SpeakKeeps
  <2>3. LineSorted(p, F, G) => LineSorted(q, F, G)
    BY <1>1, <2>1, SpeakKeeps
  <2> QED
    BY <2>2, <2>3 DEF InOrder, NoneStale, F, G
<1>5. Asks(p) => Asks(q)
  <2> DEFINE x == C!MakeTelemetryStart
             G == Hellos
  <2>1. Free(w, G)
    BY <1>3
  <2> HIDE DEF x, G
  <2>2. LineEndsWith(p, x, G) => LineEndsWith(q, x, G)
    BY <1>1, <2>1, SpeakKeeps
  <2> QED
    BY <2>2 DEF Asks, x, G
<1>6. ASSUME NEW m \in Hellos PROVE Count(q, m) = Count(p, m)
  <2>1. Waiting(w, m) = 0
    <3>1. {i \in DOMAIN w : w[i] = m} = {}
      BY <1>2
    <3> QED
      BY <3>1, FS_EmptySet DEF Waiting
  <2>2. Count(q, m) = Count(p, m) + Waiting(w, m) /\ Count(p, m) \in Nat
    BY <1>1, SpeakCounts
  <2> QED
    BY <2>1, <2>2
<1> QED
  BY <1>4, <1>5, <1>6 DEF Calm, Orderly

(* What tasks and effects say *)
LEMMA WordsAre ==
    /\ \A m : /\ WordOf("Received", CL!Received(m)) = m
              /\ WordOf("Received", SL!Received(m)) = m
              /\ WordOf("Send", C!Send(m)) = m
              /\ WordOf("Send", S!Send(m)) = m
              /\ WordOf("SendMessage", C!SendMessage(m)) = m
              /\ WordOf("SendMessage", S!SendMessage(m)) = m
    /\ \A t : /\ t.task # "Received" => WordOf("Received", t) = Silence
              /\ t.task = "Received" => WordOf("Received", t) = t.bytes
              /\ t.task # "Send" => WordOf("Send", t) = Silence
              /\ t.task = "Send" => WordOf("Send", t) = t.bytes
    /\ \A e : /\ e.effect # "SendMessage" => WordOf("SendMessage", e) = Silence
              /\ e.effect = "SendMessage" => WordOf("SendMessage", e) = e.message
BY DEF WordOf, C!SendMessage, S!SendMessage, C!Send, S!Send, CL!Received, SL!Received
-----------------------------------------------------------------------------
(* What a step does to the stations *)

(* A variable that is unchanged leaves its stations unchanged.             *)
LEMMA Stay ==
    /\ UNCHANGED clientStrand => /\ ToClientLine'[1] = ToClientLine[1]
                                 /\ ToServerLine'[4] = ToServerLine[4]
    /\ UNCHANGED clientEffects => ToServerLine'[5] = ToServerLine[5]
    /\ UNCHANGED serverStrand => /\ ToServerLine'[1] = ToServerLine[1]
                                 /\ ToClientLine'[3] = ToClientLine[3]
    /\ UNCHANGED serverEffects => ToClientLine'[4] = ToClientLine[4]
    /\ UNCHANGED toServer => ToServerLine'[3] = ToServerLine[3]
    /\ UNCHANGED toClient => ToClientLine'[2] = ToClientLine[2]
    /\ UNCHANGED <<reader, inHand>> => ToServerLine'[2] = ToServerLine[2]
    /\ reader # "deliver" /\ reader' # "deliver" => ToServerLine'[2] = ToServerLine[2]
    /\ ToClientLine'[5] = ToClientLine[5]
BY Stations

(* The types of the queues that the lines are made of.                     *)
LEMMA StrandTypes ==
    ASSUME SessionInv
    PROVE  /\ clientStrand \in Seq(ClientTasks) /\ clientEffects \in Seq(ClientEffects)
           /\ serverStrand \in Seq(ServerTasks) /\ serverEffects \in Seq(ServerEffects)
           /\ toServer \in Seq(FromClient) /\ toClient \in Seq(FromServer)
           /\ reader = "deliver" => inHand \in FromClient
BY DEF SessionInv, ServerInv, ServerState, ClientInv, ClientState, WireInv, LinkInv

(* A task posted on the client adds a word to two stations,                *)
LEMMA ClientStrandGrows ==
    ASSUME SessionInv, NEW x \in ClientTasks, clientStrand' = Append(clientStrand, x)
    PROVE  /\ ToClientLine'[1] = Append(ToClientLine[1], WordOf("Received", x))
           /\ ToServerLine'[4] = Append(ToServerLine[4], WordOf("Send", x))
BY StrandTypes, Stations, AllHaveWords, WordsOfIs

(* and so does one on the server;                                          *)
LEMMA ServerStrandGrows ==
    ASSUME SessionInv, NEW x \in ServerTasks, serverStrand' = Append(serverStrand, x)
    PROVE  /\ ToServerLine'[1] = Append(ToServerLine[1], WordOf("Received", x))
           /\ ToClientLine'[3] = Append(ToClientLine[3], WordOf("Send", x))
BY StrandTypes, Stations, AllHaveWords, WordsOfIs

(* a task begun on the client takes a word from both,                      *)
LEMMA ClientStrandShrinks ==
    ASSUME SessionInv, clientStrand # <<>>, clientStrand' = Tail(clientStrand)
    PROVE  /\ ToClientLine[1] # <<>> /\ ToClientLine'[1] = Tail(ToClientLine[1])
           /\ Head(ToClientLine[1]) = WordOf("Received", Head(clientStrand))
           /\ ToServerLine[4] # <<>> /\ ToServerLine'[4] = Tail(ToServerLine[4])
           /\ Head(ToServerLine[4]) = WordOf("Send", Head(clientStrand))
<1>1. clientStrand \in Seq(ClientTasks)
  BY StrandTypes
<1>2. /\ WordsOf("Received", clientStrand) # <<>>
      /\ Head(WordsOf("Received", clientStrand)) = WordOf("Received", Head(clientStrand))
      /\ WordsOf("Received", Tail(clientStrand)) = Tail(WordsOf("Received", clientStrand))
  BY <1>1, AllHaveWords, WordsOfIs
<1>3. /\ WordsOf("Send", clientStrand) # <<>>
      /\ Head(WordsOf("Send", clientStrand)) = WordOf("Send", Head(clientStrand))
      /\ WordsOf("Send", Tail(clientStrand)) = Tail(WordsOf("Send", clientStrand))
  BY <1>1, AllHaveWords, WordsOfIs
<1> QED
  BY <1>2, <1>3, Stations

(* and so does one on the server;                                          *)
LEMMA ServerStrandShrinks ==
    ASSUME SessionInv, serverStrand # <<>>, serverStrand' = Tail(serverStrand)
    PROVE  /\ ToServerLine[1] # <<>> /\ ToServerLine'[1] = Tail(ToServerLine[1])
           /\ Head(ToServerLine[1]) = WordOf("Received", Head(serverStrand))
           /\ ToClientLine[3] # <<>> /\ ToClientLine'[3] = Tail(ToClientLine[3])
           /\ Head(ToClientLine[3]) = WordOf("Send", Head(serverStrand))
<1>1. serverStrand \in Seq(ServerTasks)
  BY StrandTypes
<1>2. /\ WordsOf("Received", serverStrand) # <<>>
      /\ Head(WordsOf("Received", serverStrand)) = WordOf("Received", Head(serverStrand))
      /\ WordsOf("Received", Tail(serverStrand)) = Tail(WordsOf("Received", serverStrand))
  BY <1>1, AllHaveWords, WordsOfIs
<1>3. /\ WordsOf("Send", serverStrand) # <<>>
      /\ Head(WordsOf("Send", serverStrand)) = WordOf("Send", Head(serverStrand))
      /\ WordsOf("Send", Tail(serverStrand)) = Tail(WordsOf("Send", serverStrand))
  BY <1>1, AllHaveWords, WordsOfIs
<1> QED
  BY <1>2, <1>3, Stations

(* an effect that the client handles takes a word from one,                *)
LEMMA ClientEffectsShrink ==
    ASSUME SessionInv, clientEffects # <<>>, clientEffects' = Tail(clientEffects)
    PROVE  /\ ToServerLine[5] # <<>> /\ ToServerLine'[5] = Tail(ToServerLine[5])
           /\ Head(ToServerLine[5]) = WordOf("SendMessage", Head(clientEffects))
BY StrandTypes, Stations, AllHaveWords, WordsOfIs

(* and so does one of the server.                                          *)
LEMMA ServerEffectsShrink ==
    ASSUME SessionInv, serverEffects # <<>>, serverEffects' = Tail(serverEffects)
    PROVE  /\ ToClientLine[4] # <<>> /\ ToClientLine'[4] = Tail(ToClientLine[4])
           /\ Head(ToClientLine[4]) = WordOf("SendMessage", Head(serverEffects))
BY StrandTypes, Stations, AllHaveWords, WordsOfIs

(* Lines by their stations *)
LEMMA LinesAre ==
    /\ ToServerLine' = ToServerLine
       <=> \A k \in Places : ToServerLine'[k] = ToServerLine[k]
    /\ ToClientLine' = ToClientLine
       <=> \A k \in Places : ToClientLine'[k] = ToClientLine[k]
BY DEF ToServerLine, ToClientLine, Places

-----------------------------------------------------------------------------
(* When both ends are open and their controllers have been told so *)

(* No Connected is still to come that would start the client anew, *)
ClientSteady == clientLink = "connected" /\ Free(clientStrand, {C!Connected})

(* none the server, whose Disconnected may still be to come, *)
ServerNamed ==
    /\ channelValid
    /\ reader \in {"reading", "deliver"}
    /\ Free(serverStrand, {S!Connected})

(* and not even that *)
ServerSteady == ServerNamed /\ Free(serverStrand, {S!Disconnected})

(* What neither changes the two states nor what matters of the lines *)
Quiet ==
    /\ UNCHANGED <<client, server>>
    /\ Orderly(ToServerLine, ToServerLine')
    /\ Orderly(ToClientLine, ToClientLine')
    /\ ClientSteady' => ClientSteady
    /\ ServerNamed' => ServerNamed
    /\ ServerSteady' => ServerSteady
    /\ ClientSteady' /\ ServerNamed'
       => /\ Calm(ToServerLine, ToServerLine')
          /\ \A m \in Hellos : Count(ToClientLine', m) = Count(ToClientLine, m)

(* The tasks of both processes and both links, and their differences.      *)
LEMMA TasksDiffer ==
    /\ C!Connected = [task |-> "Connected"] /\ C!Disconnected = [task |-> "Disconnected"]
    /\ CL!Connected = C!Connected /\ CL!Disconnected = C!Disconnected
    /\ S!Connected = C!Connected /\ S!Disconnected = C!Disconnected
    /\ SL!Connected = C!Connected /\ SL!Disconnected = C!Disconnected
    /\ C!Connected # C!Disconnected
    /\ C!Connected.task = "Connected" /\ C!Disconnected.task = "Disconnected"
    /\ S!SampleReady.task = "SampleReady"
    /\ \A m : /\ CL!Received(m).task = "Received" /\ SL!Received(m).task = "Received"
              /\ C!Send(m).task = "Send" /\ S!Send(m).task = "Send"
BY DEF C!Connected, C!Disconnected, CL!Connected, CL!Disconnected, S!Connected, S!Disconnected,
       SL!Connected, SL!Disconnected, CL!Received, SL!Received, C!Send, S!Send, S!SampleReady

(* Only the Connected task makes a client steady.                          *)
LEMMA ClientSteadyBefore ==
    ASSUME SessionInv, ClientSteady',
           \/ UNCHANGED <<clientStrand, clientLink>>
           \/ /\ clientStrand # <<>> /\ clientStrand' = Tail(clientStrand)
              /\ Head(clientStrand) # C!Connected
              /\ UNCHANGED clientLink
           \/ /\ \E x \in ClientTasks : clientStrand' = Append(clientStrand, x)
              /\ UNCHANGED clientLink
    PROVE  ClientSteady
<1>1. clientLink = "connected" /\ Free(clientStrand', {C!Connected})
  BY DEF ClientSteady
<1>2. Free(clientStrand, {C!Connected})
  <2>1. CASE clientStrand' = clientStrand
    BY <1>1, <2>1
  <2>2. CASE /\ clientStrand # <<>> /\ clientStrand' = Tail(clientStrand)
             /\ Head(clientStrand) # C!Connected
    BY <1>1, <2>2, StrandTypes, FreeOfTail
  <2>3. CASE \E x \in ClientTasks : clientStrand' = Append(clientStrand, x)
    BY <1>1, <2>3, StrandTypes, FreeOfAppend
  <2> QED
    BY <2>1, <2>2, <2>3
<1> QED
  BY <1>1, <1>2 DEF ClientSteady

(* Only Connected and Disconnected make a server named or steady.          *)
LEMMA ServerSteadyBefore ==
    ASSUME SessionInv, channelValid' => channelValid,
           reader' \in {"reading", "deliver"} => reader \in {"reading", "deliver"},
           \/ UNCHANGED serverStrand
           \/ /\ serverStrand # <<>> /\ serverStrand' = Tail(serverStrand)
              /\ Head(serverStrand) \notin {S!Connected, S!Disconnected}
           \/ \E x \in ServerTasks : serverStrand' = Append(serverStrand, x)
    PROVE  (ServerNamed' => ServerNamed) /\ (ServerSteady' => ServerSteady)
<1>1. ASSUME NEW t \in {S!Connected, S!Disconnected}, Free(serverStrand', {t})
      PROVE  Free(serverStrand, {t})
  <2>1. CASE serverStrand' = serverStrand
    BY <1>1, <2>1
  <2>2. CASE /\ serverStrand # <<>> /\ serverStrand' = Tail(serverStrand)
             /\ Head(serverStrand) \notin {S!Connected, S!Disconnected}
    BY <1>1, <2>2, StrandTypes, FreeOfTail
  <2>3. CASE \E x \in ServerTasks : serverStrand' = Append(serverStrand, x)
    BY <1>1, <2>3, StrandTypes, FreeOfAppend
  <2> QED
    BY <2>1, <2>2, <2>3
<1> QED
  BY <1>1 DEF ServerNamed, ServerSteady
-----------------------------------------------------------------------------
(* What the steps do to the lines *)

(* Silent tasks *)
LEMMA SilentTasks ==
    ASSUME NEW x
    PROVE  /\ x.task \notin {"Received", "Send"}
              => WordOf("Received", x) = Silence /\ WordOf("Send", x) = Silence
           /\ x.task = "Received" => WordOf("Send", x) = Silence
           /\ x.task = "Send" => WordOf("Received", x) = Silence
BY WordsAre

(* A line on which one station changes *)
LEMMA LineCases ==
    ASSUME NEW p, NEW q
    PROVE  /\ q = p => Carries(p, q)
           /\ \A k \in 2..5 : Passes(p, q, k) => Carries(p, q)
           /\ \A k \in Places : Skips(p, q, k) \/ Pauses(p, q, k) => Carries(p, q)
BY DEF Carries

(* What the callbacks of the client's host do to the lines.                *)
LEMMA ClientHostLines ==
    ASSUME SessionInv, ClientOpen \/ ClientRegister \/ ClientNotify \/ ClientDisconnect \/ ClientReceive
    PROVE  /\ Carries(ToServerLine, ToServerLine')
           /\ \/ ToClientLine' = ToClientLine
              \/ Pauses(ToClientLine, ToClientLine', 1)
              \/ Passes(ToClientLine, ToClientLine', 2)
<1>1. UNCHANGED <<clientEffects, toServer, serverStrand, serverEffects, reader, inHand>>
  BY DEF ClientOpen, ClientRegister, ClientNotify, ClientDisconnect, ClientReceive, ServerUnchanged,
         controlOfServer, linkOfServer, wires
<1>2. 1 \in Places /\ 4 \in Places /\ 2 \in 2..5
  BY DEF Places
<1>3. CASE ClientOpen \/ ClientRegister
  <2>1. UNCHANGED <<clientStrand, toClient>>
    BY <1>3 DEF ClientOpen, ClientRegister, CL!Open, CL!Register, wires
  <2> QED
    BY <1>1, <2>1, Stay, Stations, LinesAre, LineCases
<1>4. ASSUME NEW x \in ClientTasks, clientStrand' = Append(clientStrand, x), x.task # "Send"
      PROVE  Carries(ToServerLine, ToServerLine')
  <2>1. ToServerLine'[4] = Append(ToServerLine[4], Silence)
    BY <1>4, ClientStrandGrows, WordsAre
  <2>2. Pauses(ToServerLine, ToServerLine', 4)
    BY <1>1, <2>1, Stay, Stations DEF Pauses, Same
  <2> QED
    BY <1>2, <2>2, LineCases
<1>5. CASE ClientNotify \/ ClientDisconnect
  <2>1. PICK x \in {CL!Connected, CL!Disconnected} : clientStrand' = Append(clientStrand, x)
    BY <1>5 DEF ClientNotify, ClientDisconnect, CL!Notify, CL!Disconnect, CL!Post
  <2>2. x \in ClientTasks /\ x.task # "Send" /\ x.task # "Received" /\ toClient' = toClient
    BY <1>5, TasksType, TasksDiffer DEF ClientNotify, ClientDisconnect, wires
  <2>3. ToClientLine'[1] = Append(ToClientLine[1], Silence)
    BY <2>1, <2>2, ClientStrandGrows, WordsAre
  <2>4. Pauses(ToClientLine, ToClientLine', 1)
    BY <1>1, <2>2, <2>3, Stay, Stations DEF Pauses, Same
  <2> QED
    BY <1>4, <2>1, <2>2, <2>4
<1>6. CASE ClientReceive
  <2> DEFINE x == CL!Received(Head(toClient))
  <2>1. toClient # <<>> /\ toClient' = Tail(toClient) /\ clientStrand' = Append(clientStrand, x)
    BY <1>6 DEF ClientReceive, CL!Receive, CL!Post
  <2>2. x \in ClientTasks /\ x.task # "Send" /\ WordOf("Received", x) = Head(toClient)
    BY <2>1, StrandTypes, HeadAndTail, TasksType, TasksDiffer, WordsAre
  <2> HIDE DEF x
  <2>3. ToClientLine'[1] = Append(ToClientLine[1], Head(toClient))
    BY <2>1, <2>2, ClientStrandGrows
  <2>4. Passes(ToClientLine, ToClientLine', 2)
    BY <1>1, <2>1, <2>3, Stay, Stations DEF Passes, Same
  <2> QED
    BY <1>4, <2>1, <2>2, <2>4
<1> QED
  BY <1>3, <1>5, <1>6

(* Effects of the client that are handled *)
LEMMA ClientEffectLines ==
    ASSUME SessionInv, ClientStep, C!HandleSendMessage \/ C!HandleStopPing
    PROVE  /\ Carries(ToServerLine, ToServerLine')
           /\ ToClientLine' = ToClientLine \/ Pauses(ToClientLine, ToClientLine', 1)
<1>1. UNCHANGED <<toServer, toClient, serverStrand, serverEffects, reader, inHand>>
  BY DEF ClientStep, ServerUnchanged, controlOfServer, linkOfServer, wires
<1>2. 1 \in Places /\ 5 \in Places /\ 5 \in 2..5 /\ 5 - 1 = 4
  BY DEF Places
<1>3. clientEffects # <<>> /\ clientEffects' = Tail(clientEffects)
  BY DEF C!HandleSendMessage, C!HandleStopPing
<1>4. /\ ToServerLine[5] # <<>> /\ ToServerLine'[5] = Tail(ToServerLine[5])
      /\ Head(ToServerLine[5]) = WordOf("SendMessage", Head(clientEffects))
  BY <1>3, ClientEffectsShrink
<1>5. CASE C!HandleSendMessage
  <2> DEFINE m == Head(clientEffects).message
             x == C!Send(m)
  <2>1. Head(clientEffects).effect = "SendMessage" /\ clientStrand' = Append(clientStrand, x)
    BY <1>5 DEF C!HandleSendMessage, C!Post
  <2>2. m \in FromClient
    BY <1>3, <2>1, StrandTypes, HeadAndTail, Contents
  <2>3. x \in ClientTasks /\ x.task = "Send" /\ WordOf("Send", x) = m
    BY <2>2, TasksType, TasksDiffer, WordsAre
  <2>4. Head(ToServerLine[5]) = m /\ WordOf("Received", x) = Silence
    BY <1>4, <2>1, <2>3, WordsAre
  <2> HIDE DEF m, x
  <2>5. /\ ToServerLine'[4] = Append(ToServerLine[4], m)
        /\ ToClientLine'[1] = Append(ToClientLine[1], Silence)
    BY <2>1, <2>3, <2>4, ClientStrandGrows
  <2>6. Passes(ToServerLine, ToServerLine', 5)
    BY <1>1, <1>2, <1>4, <2>4, <2>5, Stay, Stations DEF Passes, Same
  <2>7. Pauses(ToClientLine, ToClientLine', 1)
    BY <1>1, <2>5, Stay, Stations DEF Pauses, Same
  <2> QED
    BY <1>2, <2>6, <2>7, LineCases
<1>6. CASE C!HandleStopPing
  <2>1. Head(clientEffects).effect # "SendMessage" /\ clientStrand' = clientStrand
    BY <1>6 DEF C!HandleStopPing
  <2>2. Head(ToServerLine[5]) = Silence
    BY <1>4, <2>1, WordsAre
  <2>3. Skips(ToServerLine, ToServerLine', 5)
    BY <1>1, <1>4, <2>1, <2>2, Stay, Stations DEF Skips, Drops, Same
  <2>4. ToClientLine' = ToClientLine
    BY <1>1, <2>1, Stay, Stations, LinesAre
  <2> QED
    BY <1>2, <2>3, <2>4, LineCases
<1> QED
  BY <1>5, <1>6

(* Sends of the client *)
LEMMA ClientSendLines ==
    ASSUME SessionInv, ClientSend \/ ClientSendFails
    PROVE  /\ ClientSend => Carries(ToServerLine, ToServerLine')
           /\ ClientSendFails => Drops(ToServerLine, ToServerLine', 4)
           /\ Skips(ToClientLine, ToClientLine', 1)
<1>1. UNCHANGED <<clientEffects, toClient, serverStrand, serverEffects, reader, inHand>>
  BY DEF ClientSend, ClientSendFails, C!RunSend, C!clientVars, ServerUnchanged,
         controlOfServer, linkOfServer, wires
<1>2. 4 \in 2..5 /\ 4 - 1 = 3
  OBVIOUS
<1>3. /\ clientStrand # <<>> /\ clientStrand' = Tail(clientStrand)
      /\ Head(clientStrand).task = "Send"
  BY DEF ClientSend, ClientSendFails, C!RunSend, C!TakeTask
<1>4. /\ ToServerLine[4] # <<>> /\ ToServerLine'[4] = Tail(ToServerLine[4])
      /\ Head(ToServerLine[4]) = Head(clientStrand).bytes
      /\ ToClientLine[1] # <<>> /\ ToClientLine'[1] = Tail(ToClientLine[1])
      /\ Head(ToClientLine[1]) = Silence
  <2>1. WordOf("Send", Head(clientStrand)) = Head(clientStrand).bytes
        /\ WordOf("Received", Head(clientStrand)) = Silence
    BY <1>3, WordsAre
  <2> QED
    BY <1>3, <2>1, ClientStrandShrinks
<1>5. Skips(ToClientLine, ToClientLine', 1)
  BY <1>1, <1>4, Stay, Stations DEF Skips, Drops, Same
<1>6. ASSUME ClientSend PROVE Carries(ToServerLine, ToServerLine')
  <2>1. toServer' = Append(toServer, Head(clientStrand).bytes)
    BY <1>6 DEF ClientSend
  <2>2. Passes(ToServerLine, ToServerLine', 4)
    BY <1>1, <1>2, <1>4, <2>1, Stay, Stations DEF Passes, Same
  <2> QED
    BY <1>2, <2>2, LineCases
<1>7. ASSUME ClientSendFails PROVE Drops(ToServerLine, ToServerLine', 4)
  BY <1>1, <1>4, <1>7, Stay, Stations DEF ClientSendFails, wires, Drops, Same
<1> QED
  BY <1>5, <1>6, <1>7

(* Tasks that the server's handlers post *)
LEMMA ServerPostLines ==
    ASSUME SessionInv, NEW x \in ServerTasks, serverStrand' = Append(serverStrand, x),
           x.task # "Send", UNCHANGED <<serverEffects, clientStrand, toClient>>
    PROVE  /\ Pauses(ToClientLine, ToClientLine', 3)
           /\ x.task # "Received" => ToServerLine'[1] = Append(ToServerLine[1], Silence)
           /\ x.task = "Received" => ToServerLine'[1] = Append(ToServerLine[1], x.bytes)
<1>1. /\ ToServerLine'[1] = Append(ToServerLine[1], WordOf("Received", x))
      /\ ToClientLine'[3] = Append(ToClientLine[3], WordOf("Send", x))
  BY ServerStrandGrows
<1>2. WordOf("Send", x) = Silence
  BY WordsAre
<1>3. Pauses(ToClientLine, ToClientLine', 3)
  BY <1>1, <1>2, Stay, Stations DEF Pauses, Same
<1> QED
  BY <1>1, <1>3, WordsAre

ReaderStep ==
    \/ ServerOpenChannel \/ ServerRead \/ ServerReaderGoesOn \/ ServerReadFails

(* What the reader does to the lines.                                      *)
LEMMA ServerReaderLines ==
    ASSUME SessionInv, ReaderStep
    PROVE  /\ Carries(ToServerLine, ToServerLine')
           /\ ToClientLine' = ToClientLine \/ Pauses(ToClientLine, ToClientLine', 3)
<1>1. UNCHANGED <<clientStrand, clientEffects, serverEffects, toClient>>
  BY DEF ReaderStep, ServerOpenChannel, ServerRead, ServerReaderGoesOn, ServerReadFails,
         ClientUnchanged, clientProcess, controlOfServer, wires
<1>2. 1 \in Places /\ 3 \in 2..5 /\ 3 - 1 = 2 /\ 2 \in 2..5 /\ 2 - 1 = 1
  BY DEF Places
<1>3. CASE /\ UNCHANGED <<serverStrand, toServer>>
           /\ reader # "deliver" /\ reader' # "deliver"
  BY <1>1, <1>3, Stay, Stations, LinesAre, LineCases
<1>4. CASE ServerOpenChannel \/ ServerReadFails
  <2>1. /\ UNCHANGED <<serverStrand, toServer>>
        /\ reader # "deliver" /\ reader' # "deliver"
    BY <1>4 DEF ServerOpenChannel, ServerReadFails, SL!Open, SL!ReadFails, wires
  <2> QED
    BY <1>3, <2>1
<1>5. CASE ServerReaderGoesOn /\ SL!ReadFindsClosed
  <2>1. /\ UNCHANGED <<serverStrand, toServer>>
        /\ reader # "deliver" /\ reader' # "deliver"
    BY <1>5 DEF ServerReaderGoesOn, SL!ReadFindsClosed, wires
  <2> QED
    BY <1>3, <2>1
<1>6. CASE ServerRead
  <2>1. /\ reader = "reading" /\ reader' = "deliver" /\ inHand' = Head(toServer)
        /\ toServer # <<>> /\ toServer' = Tail(toServer) /\ serverStrand' = serverStrand
    BY <1>6 DEF ServerRead, SL!Read
  <2>2. ToServerLine'[2] = Append(ToServerLine[2], Head(toServer))
    BY <2>1, Stations
  <2>3. Passes(ToServerLine, ToServerLine', 3)
    BY <1>1, <1>2, <2>1, <2>2, Stay, Stations DEF Passes, Same
  <2>4. ToClientLine' = ToClientLine
    BY <1>1, <2>1, Stay, Stations, LinesAre
  <2> QED
    BY <1>2, <2>3, <2>4, LineCases
<1>7. CASE ServerReaderGoesOn /\ (SL!Notify \/ SL!ReaderReports)
  <2>1. /\ toServer' = toServer /\ reader # "deliver" /\ reader' # "deliver"
        /\ \E x \in {SL!Connected, SL!Disconnected} : serverStrand' = Append(serverStrand, x)
    BY <1>7 DEF ServerReaderGoesOn, SL!Notify, SL!ReaderReports, SL!Post, wires
  <2>2. PICK x \in {SL!Connected, SL!Disconnected} : serverStrand' = Append(serverStrand, x)
    BY <2>1
  <2>3. x \in ServerTasks /\ x.task # "Send" /\ x.task # "Received"
    BY TasksType, TasksDiffer
  <2>4. /\ Pauses(ToClientLine, ToClientLine', 3)
        /\ ToServerLine'[1] = Append(ToServerLine[1], Silence)
    BY <1>1, <2>2, <2>3, ServerPostLines
  <2>5. Pauses(ToServerLine, ToServerLine', 1)
    BY <1>1, <2>1, <2>4, Stay, Stations DEF Pauses, Same
  <2> QED
    BY <1>2, <2>4, <2>5, LineCases
<1>8. CASE ServerReaderGoesOn /\ SL!Deliver
  <2> DEFINE x == SL!Received(inHand)
  <2>1. /\ reader = "deliver" /\ reader' = "reading" /\ toServer' = toServer
        /\ serverStrand' = Append(serverStrand, x)
    BY <1>8 DEF ServerReaderGoesOn, SL!Deliver, SL!Post, wires
  <2>2. x \in ServerTasks /\ x.task = "Received" /\ x.bytes = inHand
    BY <2>1, StrandTypes, TasksType, TasksDiffer DEF SL!Received
  <2> HIDE DEF x
  <2>3. /\ Pauses(ToClientLine, ToClientLine', 3)
        /\ ToServerLine'[1] = Append(ToServerLine[1], inHand)
    BY <1>1, <2>1, <2>2, ServerPostLines
  <2>4. ToServerLine[2] = <<inHand>> /\ ToServerLine'[2] = <<>>
    BY <2>1, Stations
  <2>5. Passes(ToServerLine, ToServerLine', 2)
    <3>1. ToServerLine[2] # <<>> /\ ToServerLine'[2] = Tail(ToServerLine[2])
          /\ Head(ToServerLine[2]) = inHand
      BY <2>4
    <3> QED
      BY <1>1, <1>2, <2>1, <2>3, <3>1, Stay, Stations DEF Passes, Same
  <2> QED
    BY <1>2, <2>3, <2>5, LineCases
<1> QED
  BY <1>4, <1>5, <1>6, <1>7, <1>8 DEF ReaderStep, ServerReaderGoesOn

(* Effects of the server that are handled *)
EffectStep ==
    /\ ServerStep
    /\ S!HandleSendMessage \/ S!HandleStartTelemetryTimer \/ S!HandleStopTelemetryTimer

(* What an effect of the server does to the lines.                         *)
LEMMA ServerEffectLines ==
    ASSUME SessionInv, EffectStep
    PROVE  /\ Carries(ToServerLine, ToServerLine')
           /\ Carries(ToClientLine, ToClientLine')
           /\ \/ Passes(ToClientLine, ToClientLine', 4)
              \/ Skips(ToClientLine, ToClientLine', 4)
<1>1. UNCHANGED <<toServer, toClient, clientStrand, clientEffects, reader, inHand>>
  BY DEF EffectStep, ServerStep, ClientUnchanged, clientProcess, linkOfServer, wires
<1>2. 1 \in Places /\ 4 \in Places /\ 4 \in 2..5 /\ 4 - 1 = 3
  BY DEF Places
<1>3. serverEffects # <<>> /\ serverEffects' = Tail(serverEffects)
  BY DEF EffectStep, S!HandleSendMessage, S!HandleStartTelemetryTimer,
         S!HandleStopTelemetryTimer
<1>4. /\ ToClientLine[4] # <<>> /\ ToClientLine'[4] = Tail(ToClientLine[4])
      /\ Head(ToClientLine[4]) = WordOf("SendMessage", Head(serverEffects))
  BY <1>3, ServerEffectsShrink
<1>5. CASE S!HandleSendMessage
  <2> DEFINE m == Head(serverEffects).message
             x == S!Send(m)
  <2>1. Head(serverEffects).effect = "SendMessage" /\ serverStrand' = Append(serverStrand, x)
    BY <1>5 DEF S!HandleSendMessage, S!Post
  <2>2. m \in FromServer
    BY <1>3, <2>1, StrandTypes, HeadAndTail, Contents
  <2>3. x \in ServerTasks /\ x.task = "Send" /\ WordOf("Send", x) = m
    BY <2>2, TasksType, TasksDiffer, WordsAre
  <2>4. Head(ToClientLine[4]) = m /\ WordOf("Received", x) = Silence
    BY <1>4, <2>1, <2>3, WordsAre
  <2> HIDE DEF m, x
  <2>5. /\ ToClientLine'[3] = Append(ToClientLine[3], m)
        /\ ToServerLine'[1] = Append(ToServerLine[1], Silence)
    BY <2>1, <2>3, <2>4, ServerStrandGrows
  <2>6. Passes(ToClientLine, ToClientLine', 4)
    BY <1>1, <1>2, <1>4, <2>4, <2>5, Stay, Stations DEF Passes, Same
  <2>7. Pauses(ToServerLine, ToServerLine', 1)
    BY <1>1, <2>5, Stay, Stations DEF Pauses, Same
  <2> QED
    BY <1>2, <2>6, <2>7, LineCases
<1>6. CASE S!HandleStartTelemetryTimer \/ S!HandleStopTelemetryTimer
  <2>1. Head(serverEffects).effect # "SendMessage" /\ serverStrand' = serverStrand
    BY <1>6 DEF S!HandleStartTelemetryTimer, S!HandleStopTelemetryTimer
  <2>2. Head(ToClientLine[4]) = Silence
    BY <1>4, <2>1, WordsAre
  <2>3. Skips(ToClientLine, ToClientLine', 4)
    BY <1>1, <1>4, <2>1, <2>2, Stay, Stations DEF Skips, Drops, Same
  <2>4. ToServerLine' = ToServerLine
    BY <1>1, <2>1, Stay, Stations, LinesAre
  <2> QED
    BY <1>2, <2>3, <2>4, LineCases
<1> QED
  BY <1>5, <1>6 DEF EffectStep

(* Sends of the server *)
LEMMA ServerSendLines ==
    ASSUME SessionInv, ServerSend \/ ServerSendFindsClosed \/ ServerSendFails
    PROVE  /\ serverStrand # <<>> /\ serverStrand' = Tail(serverStrand)
           /\ Head(serverStrand).task = "Send"
           /\ Carries(ToServerLine, ToServerLine')
           /\ ServerSend => Passes(ToClientLine, ToClientLine', 3)
           /\ ServerSendFindsClosed \/ ServerSendFails => Drops(ToClientLine, ToClientLine', 3)
<1>1. UNCHANGED <<clientStrand, clientEffects, serverEffects, toServer, reader, inHand>>
  BY DEF ServerSend, ServerSendFindsClosed, ServerSendFails, S!RunSend, SL!SendFails,
         ClientUnchanged, clientProcess, linkOfServer, wires
<1>2. 1 \in Places /\ 3 \in 2..5 /\ 3 - 1 = 2
  BY DEF Places
<1>3. /\ serverStrand # <<>> /\ serverStrand' = Tail(serverStrand)
      /\ Head(serverStrand).task = "Send"
  <2>1. S!RunSend(<<>>)
    BY DEF ServerSend, ServerSendFindsClosed, ServerSendFails
  <2> QED
    BY <2>1, TailOfSend DEF SessionInv
<1>4. /\ ToClientLine[3] # <<>> /\ ToClientLine'[3] = Tail(ToClientLine[3])
      /\ Head(ToClientLine[3]) = Head(serverStrand).bytes
      /\ ToServerLine[1] # <<>> /\ ToServerLine'[1] = Tail(ToServerLine[1])
      /\ Head(ToServerLine[1]) = Silence
  <2>1. WordOf("Send", Head(serverStrand)) = Head(serverStrand).bytes
        /\ WordOf("Received", Head(serverStrand)) = Silence
    BY <1>3, WordsAre
  <2> QED
    BY <1>3, <2>1, ServerStrandShrinks
<1>5. Skips(ToServerLine, ToServerLine', 1)
  BY <1>1, <1>4, Stay, Stations DEF Skips, Drops, Same
<1>6. Carries(ToServerLine, ToServerLine')
  BY <1>2, <1>5, LineCases
<1>7. ASSUME ServerSend PROVE Passes(ToClientLine, ToClientLine', 3)
  <2>1. toClient' = Append(toClient, Head(serverStrand).bytes)
    BY <1>7 DEF ServerSend
  <2> QED
    BY <1>1, <1>2, <1>4, <2>1, Stay, Stations DEF Passes, Same
<1>8. ASSUME ServerSendFindsClosed \/ ServerSendFails PROVE Drops(ToClientLine, ToClientLine', 3)
  <2>1. toClient' = toClient
    BY <1>8 DEF ServerSendFindsClosed, ServerSendFails, wires
  <2> QED
    BY <1>1, <1>4, <2>1, Stay, Stations DEF Drops, Same
<1> QED
  BY <1>3, <1>6, <1>7, <1>8

(* What the server's worker posts between two tasks, or does not post *)
LEMMA ServerIdleLines ==
    ASSUME SessionInv, ServerWorkerReports \/ TimerFires
    PROVE  /\ \/ serverStrand' = serverStrand
              \/ serverStrand' = Append(serverStrand, S!Disconnected) /\ ServerWorkerReports
              \/ serverStrand' = Append(serverStrand, S!SampleReady)
           /\ Carries(ToServerLine, ToServerLine')
           /\ ToClientLine' = ToClientLine \/ Pauses(ToClientLine, ToClientLine', 3)
<1>1. UNCHANGED <<clientStrand, clientEffects, serverEffects, toServer, toClient, reader, inHand>>
  BY DEF ServerWorkerReports, TimerFires, S!TimerExpires, S!TimerExpiresStopped,
         S!TimerExpiresThrows, SL!WorkerReports, ClientUnchanged, clientProcess,
         linkOfServer, wires
<1>2. \/ serverStrand' = serverStrand
      \/ serverStrand' = Append(serverStrand, S!Disconnected) /\ ServerWorkerReports
      \/ serverStrand' = Append(serverStrand, S!SampleReady)
  BY TasksDiffer
  DEF ServerWorkerReports, TimerFires, S!TimerExpires, S!TimerExpiresStopped,
      S!TimerExpiresThrows, SL!WorkerReports, SL!Post, S!Post
<1>3. CASE serverStrand' = serverStrand
  BY <1>1, <1>2, <1>3, Stay, Stations, LinesAre, LineCases
<1>4. ASSUME NEW x \in {S!Disconnected, S!SampleReady}, serverStrand' = Append(serverStrand, x)
      PROVE  /\ Carries(ToServerLine, ToServerLine')
             /\ Pauses(ToClientLine, ToClientLine', 3)
  <2>1. x \in ServerTasks /\ x.task # "Send" /\ x.task # "Received"
    BY TasksType, TasksDiffer
  <2>2. /\ Pauses(ToClientLine, ToClientLine', 3)
        /\ ToServerLine'[1] = Append(ToServerLine[1], Silence)
    BY <1>1, <1>4, <2>1, ServerPostLines
  <2>3. Pauses(ToServerLine, ToServerLine', 1)
    BY <1>1, <2>2, Stay, Stations DEF Pauses, Same
  <2>4. 1 \in Places
    BY DEF Places
  <2> QED
    BY <2>2, <2>3, <2>4, LineCases
<1> QED
  BY <1>2, <1>3, <1>4

(* What the channel loses *)
LEMMA DropLines ==
    ASSUME SessionInv, DropToClient \/ DropToServer
    PROVE  /\ DropToClient => Drops(ToClientLine, ToClientLine', 2) /\ ToServerLine' = ToServerLine
           /\ DropToServer => Drops(ToServerLine, ToServerLine', 3) /\ ToClientLine' = ToClientLine
<1>1. /\ UNCHANGED <<clientStrand, clientEffects, serverStrand, serverEffects, reader, inHand>>
      /\ DropToClient => toClient # <<>> /\ toClient' = Tail(toClient) /\ toServer' = toServer
      /\ DropToServer => toServer # <<>> /\ toServer' = Tail(toServer) /\ toClient' = toClient
  BY DEF DropToClient, DropToServer, ClientUnchanged, ServerUnchanged, clientProcess,
         controlOfServer, linkOfServer
<1>2. ASSUME DropToClient
      PROVE  Drops(ToClientLine, ToClientLine', 2) /\ ToServerLine' = ToServerLine
  BY <1>1, <1>2, Stay, Stations, LinesAre DEF Drops, Same
<1>3. ASSUME DropToServer
      PROVE  Drops(ToServerLine, ToServerLine', 3) /\ ToClientLine' = ToClientLine
  BY <1>1, <1>3, Stay, Stations, LinesAre DEF Drops, Same
<1> QED
  BY <1>2, <1>3
-----------------------------------------------------------------------------
(* The steps that settle nothing *)

(* Where neither writes, samples nor reads go wrong *)
Reliable ==
    /\ ClientVersion = ServerVersion
    /\ ~ClientWritesMayFail /\ ~SamplerMayFail /\ ~ReadsMayCoalesce

(* When a step that changes neither state is quiet.                        *)
LEMMA QuietIf ==
    ASSUME SessionInv, UNCHANGED <<client, server>>,
           Carries(ToServerLine, ToServerLine') \/ Thins(ToServerLine, ToServerLine'),
           Carries(ToClientLine, ToClientLine') \/ Thins(ToClientLine, ToClientLine'),
           ClientSteady' => ClientSteady,
           ServerNamed' => ServerNamed,
           ServerSteady' => ServerSteady,
           ClientSteady' /\ ServerNamed'
               => /\ Carries(ToServerLine, ToServerLine')
                  /\ Carries(ToClientLine, ToClientLine')
    PROVE  Quiet
<1>1. ToServerLine \in Lines(Words) /\ ToClientLine \in Lines(Words)
  BY LinesType
<1>2. PICK q, r : q = ToServerLine' /\ r = ToClientLine'
  OBVIOUS
<1>3. /\ Carries(ToServerLine, q) => Calm(ToServerLine, q)
      /\ Carries(ToClientLine, r) => Calm(ToClientLine, r)
  BY <1>1, SilenceIsCalm
<1>4. /\ Thins(ToServerLine, q) => Orderly(ToServerLine, q)
      /\ Thins(ToClientLine, r) => Orderly(ToClientLine, r)
  BY <1>1, ThinIsOrderly
<1>5. /\ Calm(ToServerLine, q) => Orderly(ToServerLine, q)
      /\ Calm(ToClientLine, r) => Orderly(ToClientLine, r)
  BY DEF Calm
<1>6. Calm(ToClientLine, r) => \A m \in Hellos : Count(r, m) = Count(ToClientLine, m)
  BY DEF Calm
<1> QED
  BY <1>2, <1>3, <1>4, <1>5, <1>6 DEF Quiet

(* A server whose strand and link are as before is as steady as before,    *)
LEMMA ServerAsBefore ==
    ASSUME UNCHANGED <<serverStrand, channelValid, reader>>
    PROVE  (ServerNamed' => ServerNamed) /\ (ServerSteady' => ServerSteady)
BY DEF ServerNamed, ServerSteady

(* and so is a client.                                                     *)
LEMMA ClientAsBefore ==
    ASSUME UNCHANGED <<clientStrand, clientLink>>
    PROVE  ClientSteady' => ClientSteady
BY DEF ClientSteady

(* The callbacks of the client's host are quiet.                           *)
LEMMA ClientHostIsQuiet ==
    ASSUME SessionInv, ClientOpen \/ ClientRegister \/ ClientNotify \/ ClientDisconnect \/ ClientReceive
    PROVE  Quiet
<1>1. UNCHANGED <<client, server, serverStrand, channelValid, reader>>
  BY DEF ClientOpen, ClientRegister, ClientNotify, ClientDisconnect, ClientReceive, ServerUnchanged,
         controlOfServer, linkOfServer
<1>2. (ServerNamed' => ServerNamed) /\ (ServerSteady' => ServerSteady)
  BY <1>1, ServerAsBefore
<1>3. ASSUME ClientSteady' PROVE ClientSteady
  <2>1. CASE ClientOpen \/ ClientRegister \/ ClientDisconnect
    BY <1>3, <2>1
    DEF ClientOpen, ClientRegister, ClientDisconnect, CL!Open, CL!Register, CL!Disconnect,
        ClientSteady
  <2>2. CASE ClientNotify
    <3>1. clientStrand' = Append(clientStrand, C!Connected)
      BY <2>2, TasksDiffer DEF ClientNotify, CL!Notify, CL!Post
    <3>2. C!Connected \in ClientTasks /\ clientStrand \in Seq(ClientTasks)
      BY StrandTypes, TasksType, TasksDiffer
    <3>3. ~Free(clientStrand', {C!Connected})
      BY <3>1, <3>2, FreeOfAppend
    <3> QED
      BY <1>3, <3>3 DEF ClientSteady
  <2>3. CASE ClientReceive
    <3>1. /\ clientStrand' = Append(clientStrand, CL!Received(Head(toClient)))
          /\ toClient # <<>> /\ clientLink' = clientLink
      BY <2>3 DEF ClientReceive, CL!Receive, CL!Post
    <3>2. CL!Received(Head(toClient)) \in ClientTasks
      BY <3>1, StrandTypes, HeadAndTail, TasksType
    <3> QED
      BY <1>3, <3>1, <3>2, ClientSteadyBefore
  <2> QED
    BY <2>1, <2>2, <2>3
<1>4. Carries(ToServerLine, ToServerLine') /\ Carries(ToClientLine, ToClientLine')
  <2>1. 1 \in Places /\ 2 \in 2..5
    BY DEF Places
  <2> QED
    BY <2>1, ClientHostLines, LineCases
<1> QED
  BY <1>1, <1>2, <1>3, <1>4, QuietIf

ClientQuietWork ==
    \/ ClientStep /\ (C!HandleSendMessage \/ C!HandleStopPing)
    \/ ClientSend
    \/ ClientSendFails

(* So are the sends and effects of the client,                             *)
LEMMA ClientWorkIsQuiet ==
    ASSUME SessionInv, Reliable, ClientQuietWork
    PROVE  Quiet
<1>1. UNCHANGED <<client, server, serverStrand, channelValid, reader, clientLink>>
  BY DEF ClientQuietWork, ClientStep, ClientSend, ClientSendFails, C!HandleSendMessage,
         C!HandleStopPing, C!RunSend, C!clientVars, ServerUnchanged, controlOfServer,
         linkOfServer
<1>2. (ServerNamed' => ServerNamed) /\ (ServerSteady' => ServerSteady)
  BY <1>1, ServerAsBefore
<1>3. 1 \in Places /\ 4 \in Places
  BY DEF Places
<1>4. CASE ClientStep /\ (C!HandleSendMessage \/ C!HandleStopPing)
  <2>1. Carries(ToServerLine, ToServerLine') /\ Carries(ToClientLine, ToClientLine')
    BY <1>3, <1>4, ClientEffectLines, LineCases
  <2>2. ASSUME ClientSteady' PROVE ClientSteady
    <3>1. CASE C!HandleSendMessage
      <4>1. /\ clientEffects # <<>> /\ Head(clientEffects).effect = "SendMessage"
            /\ clientStrand' = Append(clientStrand, C!Send(Head(clientEffects).message))
        BY <3>1 DEF C!HandleSendMessage, C!Post
      <4>2. Head(clientEffects).message \in FromClient
        BY <4>1, StrandTypes, HeadAndTail, Contents
      <4>3. C!Send(Head(clientEffects).message) \in ClientTasks
        BY <4>2, TasksType
      <4> QED
        BY <1>1, <2>2, <4>1, <4>3, ClientSteadyBefore
    <3>2. CASE C!HandleStopPing
      BY <1>1, <2>2, <3>2, ClientAsBefore DEF C!HandleStopPing
    <3> QED
      BY <1>4, <3>1, <3>2
  <2> QED
    BY <1>1, <1>2, <2>1, <2>2, QuietIf
<1>5. CASE ClientSend \/ ClientSendFails
  <2>1. /\ clientStrand # <<>> /\ clientStrand' = Tail(clientStrand)
        /\ Head(clientStrand).task = "Send"
    BY <1>5 DEF ClientSend, ClientSendFails, C!RunSend, C!TakeTask
  <2>2. Head(clientStrand) # C!Connected
    BY <2>1, TasksDiffer
  <2>3. ClientSteady' => ClientSteady
    BY <1>1, <2>1, <2>2, ClientSteadyBefore
  <2>4. Carries(ToClientLine, ToClientLine')
    BY <1>3, <1>5, ClientSendLines, LineCases
  <2>5. CASE ClientSend
    BY <1>1, <1>2, <2>3, <2>4, <2>5, ClientSendLines, QuietIf
  <2>6. CASE ClientSendFails
    <3>1. Thins(ToServerLine, ToServerLine')
      BY <1>3, <2>6, ClientSendLines, DropsThin
    <3>2. ~ClientSteady'
      BY <1>1, <2>6 DEF ClientSendFails, Reliable, ClientSteady
    <3> QED
      BY <1>1, <1>2, <2>3, <2>4, <3>1, <3>2, QuietIf
  <2> QED
    BY <1>5, <2>5, <2>6
<1> QED
  BY <1>4, <1>5 DEF ClientQuietWork

(* the steps of the reader,                                                *)
LEMMA ReaderIsQuiet ==
    ASSUME SessionInv, ReaderStep
    PROVE  Quiet
<1>1. UNCHANGED <<client, server, clientStrand, clientLink>>
  BY DEF ReaderStep, ServerOpenChannel, ServerRead, ServerReaderGoesOn, ServerReadFails,
         ClientUnchanged, clientProcess, controlOfServer
<1>2. ClientSteady' => ClientSteady
  BY <1>1, ClientAsBefore
<1>3. Carries(ToServerLine, ToServerLine') /\ Carries(ToClientLine, ToClientLine')
  <2>1. 3 \in Places
    BY DEF Places
  <2> QED
    BY <2>1, ServerReaderLines, LineCases
<1>4. (ServerNamed' => ServerNamed) /\ (ServerSteady' => ServerSteady)
  <2>1. CASE ServerReaderGoesOn /\ SL!Notify
    <3>1. serverStrand' = Append(serverStrand, S!Connected)
      BY <2>1, TasksDiffer DEF SL!Notify, SL!Post
    <3>2. S!Connected \in ServerTasks /\ serverStrand \in Seq(ServerTasks)
      BY StrandTypes, TasksType, TasksDiffer
    <3>3. ~Free(serverStrand', {S!Connected})
      BY <3>1, <3>2, FreeOfAppend
    <3> QED
      BY <3>3 DEF ServerNamed, ServerSteady
  <2>2. CASE \/ ServerOpenChannel \/ ServerReadFails
             \/ ServerReaderGoesOn /\ (SL!ReaderReports \/ SL!ReadFindsClosed)
    <3>1. reader' \notin {"reading", "deliver"}
      BY <2>2 DEF ServerOpenChannel, ServerReadFails, SL!Open, SL!ReadFails,
                  SL!ReaderReports, SL!ReadFindsClosed
    <3> QED
      BY <3>1 DEF ServerNamed, ServerSteady
  <2>3. CASE ServerRead
    <3>1. /\ serverStrand' = serverStrand /\ channelValid' = channelValid
          /\ reader = "reading"
      BY <2>3 DEF ServerRead, SL!Read
    <3> QED
      BY <3>1 DEF ServerNamed, ServerSteady
  <2>4. CASE ServerReaderGoesOn /\ SL!Deliver
    <3>1. /\ serverStrand' = Append(serverStrand, SL!Received(inHand))
          /\ channelValid' = channelValid /\ reader = "deliver"
      BY <2>4 DEF SL!Deliver, SL!Post
    <3>2. SL!Received(inHand) \in ServerTasks
      BY <3>1, StrandTypes, TasksType
    <3> QED
      BY <3>1, <3>2, ServerSteadyBefore
  <2> QED
    BY <2>1, <2>2, <2>3, <2>4 DEF ReaderStep, ServerReaderGoesOn
<1> QED
  BY <1>1, <1>2, <1>3, <1>4, QuietIf

ServerQuietWork ==
    \/ EffectStep
    \/ ServerSend \/ ServerSendFindsClosed \/ ServerSendFails
    \/ ServerWorkerReports \/ TimerFires

(* the sends and effects of the server and its timers,                     *)
LEMMA ServerWorkIsQuiet ==
    ASSUME SessionInv, ServerQuietWork
    PROVE  Quiet
<1>1. UNCHANGED <<client, server, clientStrand, clientLink, reader>>
  BY DEF ServerQuietWork, EffectStep, ServerStep, S!HandleSendMessage,
         S!HandleStartTelemetryTimer, S!HandleStopTelemetryTimer, ServerSend,
         ServerSendFindsClosed, ServerSendFails, SL!SendFails, S!RunSend,
         ServerWorkerReports, SL!WorkerReports, TimerFires, S!TimerExpires,
         S!TimerExpiresStopped, S!TimerExpiresThrows, ClientUnchanged, clientProcess,
         linkOfServer
<1>2. ClientSteady' => ClientSteady
  BY <1>1, ClientAsBefore
<1>3. 1 \in Places /\ 3 \in Places /\ 4 \in Places /\ 3 \in 2..5
  BY DEF Places
<1>4. CASE EffectStep
  <2>1. channelValid' = channelValid
    BY <1>4 DEF EffectStep, ServerStep, linkOfServer
  <2>2. serverStrand' = serverStrand \/ \E x \in ServerTasks : serverStrand' = Append(serverStrand, x)
    <3>1. CASE S!HandleSendMessage
      <4>1. /\ serverEffects # <<>> /\ Head(serverEffects).effect = "SendMessage"
            /\ serverStrand' = Append(serverStrand, S!Send(Head(serverEffects).message))
        BY <3>1 DEF S!HandleSendMessage, S!Post
      <4>2. Head(serverEffects).message \in FromServer
        BY <4>1, StrandTypes, HeadAndTail, Contents
      <4> QED
        BY <4>1, <4>2, TasksType
    <3>2. CASE S!HandleStartTelemetryTimer \/ S!HandleStopTelemetryTimer
      BY <3>2 DEF S!HandleStartTelemetryTimer, S!HandleStopTelemetryTimer
    <3> QED
      BY <1>4, <3>1, <3>2 DEF EffectStep
  <2>3. (ServerNamed' => ServerNamed) /\ (ServerSteady' => ServerSteady)
    BY <1>1, <2>1, <2>2, ServerSteadyBefore
  <2> QED
    BY <1>1, <1>2, <1>4, <2>3, ServerEffectLines, QuietIf
<1>5. CASE ServerSend \/ ServerSendFindsClosed \/ ServerSendFails
  <2>1. /\ serverStrand # <<>> /\ serverStrand' = Tail(serverStrand)
        /\ Head(serverStrand).task = "Send"
        /\ Carries(ToServerLine, ToServerLine')
    BY <1>5, ServerSendLines
  <2>2. Head(serverStrand) \notin {S!Connected, S!Disconnected}
    BY <2>1, TasksDiffer
  <2>3. channelValid' => channelValid
    BY <1>5 DEF ServerSend, ServerSendFindsClosed, ServerSendFails, SL!SendFails, linkOfServer
  <2>4. (ServerNamed' => ServerNamed) /\ (ServerSteady' => ServerSteady)
    BY <1>1, <2>1, <2>2, <2>3, ServerSteadyBefore
  <2>5. CASE ServerSend
    <3>1. Carries(ToClientLine, ToClientLine')
      BY <1>3, <2>5, ServerSendLines, LineCases
    <3> QED
      BY <1>1, <1>2, <2>1, <2>4, <3>1, QuietIf
  <2>6. CASE ServerSendFindsClosed \/ ServerSendFails
    <3>1. Thins(ToClientLine, ToClientLine')
      BY <1>3, <2>6, ServerSendLines, DropsThin
    <3>2. ~ServerNamed'
      BY <2>6 DEF ServerSendFindsClosed, ServerSendFails, SL!SendFails, linkOfServer, ServerNamed
    <3> QED
      BY <1>1, <1>2, <2>1, <2>4, <3>1, <3>2, QuietIf
  <2> QED
    BY <1>5, <2>5, <2>6
<1>6. CASE ServerWorkerReports \/ TimerFires
  <2>1. channelValid' = channelValid
    BY <1>6 DEF ServerWorkerReports, SL!WorkerReports, TimerFires, linkOfServer
  <2>2. serverStrand' = serverStrand \/ \E x \in ServerTasks : serverStrand' = Append(serverStrand, x)
    BY <1>6, ServerIdleLines, TasksType, TasksDiffer
  <2>3. (ServerNamed' => ServerNamed) /\ (ServerSteady' => ServerSteady)
    BY <1>1, <2>1, <2>2, ServerSteadyBefore
  <2>4. Carries(ToServerLine, ToServerLine') /\ Carries(ToClientLine, ToClientLine')
    BY <1>3, <1>6, ServerIdleLines, LineCases
  <2> QED
    BY <1>1, <1>2, <2>3, <2>4, QuietIf
<1> QED
  BY <1>4, <1>5, <1>6 DEF ServerQuietWork

(* and a loss, which needs an end that is closed.                          *)
LEMMA DropIsQuiet ==
    ASSUME SessionInv, DropToClient \/ DropToServer
    PROVE  Quiet
<1>1. UNCHANGED <<client, server, clientStrand, clientLink, serverStrand, channelValid, reader>>
  BY DEF DropToClient, DropToServer, ClientUnchanged, ServerUnchanged, clientProcess,
         controlOfServer, linkOfServer
<1>2. ~(ClientSteady' /\ ServerNamed')
  BY <1>1 DEF DropToClient, DropToServer, ClientSteady, ServerNamed
<1>3. 2 \in Places /\ 3 \in Places
  BY DEF Places
<1>4. /\ Carries(ToServerLine, ToServerLine') \/ Thins(ToServerLine, ToServerLine')
      /\ Carries(ToClientLine, ToClientLine') \/ Thins(ToClientLine, ToClientLine')
  BY <1>3, DropLines, DropsThin, LineCases
<1> QED
  BY <1>1, <1>2, <1>4, ServerAsBefore, ClientAsBefore, QuietIf
-----------------------------------------------------------------------------
(* The inductive invariant *)

HelloOfClient == C!MakeHello(ClientVersion, client.instance_id)
HelloOfServer == S!MakeHello(ServerVersion, server.instance_id)

(* How often a side has been greeted by instance id since it last heard of *)
(* another one: not at all, once, or at least twice                        *)
Level(h, id) ==
    IF h.remote_instance_id # id THEN 0 ELSE IF h.handshake_completed THEN 2 ELSE 1
LevelOfClient == Level(client.handshake, server.instance_id)
LevelOfServer == Level(server.handshake, client.instance_id)

(* A client that is connected and has still to hear of a disconnect will   *)
(* then hear of the connect that followed it, *)
DisconnectIsFollowed ==
    clientLink = "connected" => ~EndsWith(clientStrand, C!Disconnected, {C!Connected})

(* and so will a server whose worker is about to report the old channel.   *)
ReportIsLate ==
    reporting /\ channelValid /\ reader \in {"reading", "deliver"}
    => ~Free(serverStrand, {S!Connected})

(* The client has asked for telemetry when its handshake is completed.     *)
RequestFollows ==
    client.telemetry_requested = client.handshake.handshake_completed

(* The Hellos of a former instance come before those of the present one,   *)
(* and there are none if the other side has heard of the present one.      *)
ClientOrder ==
    ClientSteady
    => /\ InOrder(ToServerLine, client.instance_id)
       /\ server.handshake.remote_instance_id = client.instance_id
          => NoneStale(ToServerLine, client.instance_id)
ServerOrder ==
    ServerNamed
    => /\ InOrder(ToClientLine, server.instance_id)
       /\ client.handshake.remote_instance_id = server.instance_id
          => NoneStale(ToClientLine, server.instance_id)

(* The Disconnected of a former channel that the server hears after the    *)
(* present Connected finds a client which the server's Hello has not yet   *)
(* reached, nor left the server, and will not leave it before.             *)
Late ==
    ServerNamed /\ ~Free(serverStrand, {S!Disconnected})
    => /\ client.handshake.remote_instance_id # server.instance_id
       /\ Free(ToClientLine[1], {HelloOfServer}) /\ Free(ToClientLine[2], {HelloOfServer})
       /\ Sorted(serverStrand, {S!Send(HelloOfServer)}, {S!Disconnected})
       /\ Count(ToClientLine, HelloOfServer) >= 1

(* A side that lacks a greeting will get one: with c and s the levels of   *)
(* the two sides, a and b the greetings on their way to the server and to  *)
(* the client, *)
BalancedAt(c, s, a, b) ==
    /\ c < 2 => c + b >= s
    /\ s < 2 => s + a >= c
    /\ c < 2 /\ s < 2 => c + b > s \/ s + a > c
Balanced ==
    ClientSteady /\ ServerSteady
    => BalancedAt(LevelOfClient, LevelOfServer,
                  Count(ToServerLine, HelloOfClient), Count(ToClientLine, HelloOfServer))

(* and one that completes its handshake has its telemetry, or its request  *)
(* for it is the last that the server will hear of the handshake.          *)
Granted ==
    ClientSteady /\ ServerSteady /\ LevelOfClient = 2
    => \/ LevelOfServer = 2 /\ server.telemetry_enabled
       \/ Asks(ToServerLine)

(* Enabled telemetry runs, or is about to, and is not about to stop.       *)
Sampling ==
    /\ server.telemetry_enabled => S!Pending(S!StartTelemetryTimer) \/ running
    /\ S!Pending(S!StopTelemetryTimer) => ~server.telemetry_enabled

AgreementInv ==
    /\ DisconnectIsFollowed /\ ReportIsLate
    /\ RequestFollows
    /\ ClientOrder /\ ServerOrder
    /\ Late
    /\ Balanced
    /\ Granted
    /\ Sampling

(* The present Hellos are Hellos of the present ids.                       *)
LEMMA PresentHellos ==
    ASSUME SessionInv
    PROVE  /\ client.instance_id \in Nat /\ server.instance_id \in Nat
           /\ HelloOfClient \in Greetings(client.instance_id)
           /\ HelloOfServer \in Greetings(server.instance_id)
           /\ HelloOfClient \in Hellos /\ HelloOfServer \in Hellos
<1>1. client.instance_id \in Nat /\ server.instance_id \in Nat
  BY DEF SessionInv, ClientInv, ClientState, C!ClientStates, C!InstanceId, ServerInv,
         ServerState, S!ServerStates, S!InstanceId
<1>2. \A id \in Nat : /\ C!MakeHello(ClientVersion, id) \in C!Message
                      /\ S!MakeHello(ServerVersion, id) \in C!Message
  BY SessionAssumption
  DEF SessionAssumption, C!Message, C!MessagesWith, C!HelloMessages, C!InstanceId,
      C!MakeHello, S!MakeHello
<1>3. \A v, id : /\ C!MakeHello(v, id).type = "Hello" /\ C!MakeHello(v, id).instance_id = id
                 /\ S!MakeHello(v, id).type = "Hello" /\ S!MakeHello(v, id).instance_id = id
  BY DEF C!MakeHello, S!MakeHello
<1>4. HelloOfClient \in Hellos /\ HelloOfServer \in Hellos
  BY <1>1, <1>2, <1>3 DEF HelloOfClient, HelloOfServer, Hellos, Words
<1> QED
  BY <1>1, <1>3, <1>4 DEF HelloOfClient, HelloOfServer, Greetings

(* The three levels of a handshake.                                        *)
LEMMA LevelIs ==
    ASSUME NEW h, NEW id
    PROVE  /\ Level(h, id) \in {0, 1, 2}
           /\ Level(h, id) = 0 <=> h.remote_instance_id # id
           /\ Level(h, id) = 2 => h.handshake_completed
BY DEF Level

(* A quiet step keeps what the invariant says of the lines.                *)
LEMMA QuietKeeps ==
    ASSUME SessionInv, Quiet
    PROVE  /\ ClientOrder => ClientOrder'
           /\ ServerOrder => ServerOrder'
           /\ Balanced => Balanced'
           /\ Granted => Granted'
<1>1. client' = client /\ server' = server
  BY DEF Quiet
<1>2. ASSUME ClientOrder, ClientSteady'
      PROVE  /\ InOrder(ToServerLine', client.instance_id)
             /\ server.handshake.remote_instance_id = client.instance_id
                => NoneStale(ToServerLine', client.instance_id)
  BY <1>2 DEF ClientOrder, Quiet, Orderly
<1>3. ASSUME ServerOrder, ServerNamed'
      PROVE  /\ InOrder(ToClientLine', server.instance_id)
             /\ client.handshake.remote_instance_id = server.instance_id
                => NoneStale(ToClientLine', server.instance_id)
  BY <1>3 DEF ServerOrder, Quiet, Orderly
<1>4. ClientOrder => ClientOrder'
  BY <1>1, <1>2 DEF ClientOrder
<1>5. ServerOrder => ServerOrder'
  BY <1>1, <1>3 DEF ServerOrder
<1>6. ASSUME ClientSteady', ServerSteady'
      PROVE  /\ ClientSteady /\ ServerSteady
             /\ LevelOfClient' = LevelOfClient /\ LevelOfServer' = LevelOfServer
             /\ Count(ToServerLine, HelloOfClient)' = Count(ToServerLine, HelloOfClient)
             /\ Count(ToClientLine, HelloOfServer)' = Count(ToClientLine, HelloOfServer)
             /\ Asks(ToServerLine) => Asks(ToServerLine)'
  <2>1. ClientSteady /\ ServerSteady /\ ServerNamed'
    BY <1>6 DEF Quiet, ServerSteady
  <2>2. /\ Calm(ToServerLine, ToServerLine')
        /\ \A m \in Hellos : Count(ToClientLine', m) = Count(ToClientLine, m)
    BY <1>6, <2>1 DEF Quiet
  <2>3. LevelOfClient' = LevelOfClient /\ LevelOfServer' = LevelOfServer
        /\ HelloOfClient' = HelloOfClient /\ HelloOfServer' = HelloOfServer
    BY <1>1 DEF LevelOfClient, LevelOfServer, HelloOfClient, HelloOfServer
  <2>4. HelloOfClient \in Hellos /\ HelloOfServer \in Hellos
    BY PresentHellos
  <2>5. /\ Count(ToServerLine', HelloOfClient) = Count(ToServerLine, HelloOfClient)
        /\ Count(ToClientLine', HelloOfServer) = Count(ToClientLine, HelloOfServer)
        /\ Asks(ToServerLine) => Asks(ToServerLine')
    BY <2>2, <2>4 DEF Calm
  <2> QED
    BY <2>1, <2>3, <2>5
<1>7. Balanced => Balanced'
  BY <1>6 DEF Balanced
<1>8. Granted => Granted'
  BY <1>1, <1>6 DEF Granted
<1> QED
  BY <1>4, <1>5, <1>7, <1>8
-----------------------------------------------------------------------------
(* A task that is run takes its own silent word away and says w. *)
Utters(p, q, k, w) ==
    \E r \in Lines(Words) : Skips(p, r, k) /\ Speaks(r, q, k + 1, w)

(* What the words uttered by a task keep of a line.                        *)
LEMMA UtterKeeps ==
    ASSUME NEW p \in Lines(Words), NEW q, NEW k \in {3, 4}, NEW w \in Seq(Words),
           Utters(p, q, k, w)
    PROVE  /\ Free(w, Hellos) => Calm(p, q)
           /\ \A id : Free(w, Stale(id)) /\ InOrder(p, id) => InOrder(q, id)
           /\ \A id : Free(w, Stale(id)) /\ NoneStale(p, id) => NoneStale(q, id)
           /\ EndsWith(w, C!MakeTelemetryStart, Hellos) => Asks(q)
<1>1. PICK r \in Lines(Words) : Skips(p, r, k) /\ Speaks(r, q, k + 1, w)
  BY DEF Utters
<1>2. k \in Places /\ k + 1 \in Places
  BY DEF Places
<1>3. Calm(p, r)
  <2>1. Carries(p, r)
    BY <1>1, <1>2 DEF Carries
  <2> QED
    BY <2>1, SilenceIsCalm
<1>4. Free(w, Hellos) => Calm(p, q)
  <2>1. Free(w, Hellos) => Calm(r, q)
    BY <1>1, <1>2, SpeechIsCalm
  <2> QED
    BY <1>3, <2>1, CalmFacts
<1>5. ASSUME NEW id, Free(w, Stale(id))
      PROVE  (InOrder(p, id) => InOrder(q, id)) /\ (NoneStale(p, id) => NoneStale(q, id))
  <2> DEFINE F == Greetings(id)
             G == Stale(id)
  <2>1. Free(w, G)
    BY <1>5
  <2>2. /\ LineSorted(p, F, G) => LineSorted(r, F, G)
        /\ LineFree(p, G) => LineFree(r, G)
    BY <1>3 DEF Calm, Orderly, InOrder, NoneStale
  <2> HIDE DEF F, G
  <2>3. LineFree(r, G) => LineFree(q, G)
    BY <1>1, <1>2, <2>1, SpeakKeeps
  <2>4. LineSorted(r, F, G) => LineSorted(q, F, G)
    BY <1>1, <1>2, <2>1, SpeakKeeps
  <2> QED
    BY <2>2, <2>3, <2>4 DEF InOrder, NoneStale, F, G
<1>6. EndsWith(w, C!MakeTelemetryStart, Hellos) => Asks(q)
  <2> DEFINE x == C!MakeTelemetryStart
             G == Hellos
  <2> HIDE DEF x, G
  <2>1. EndsWith(w, x, G) => LineEndsWith(q, x, G)
    BY <1>1, <1>2, SpeakKeeps
  <2> QED
    BY <2>1 DEF x, G, Asks
<1> QED
  BY <1>4, <1>5, <1>6

(* They are counted,                                                       *)
LEMMA UtterCounts ==
    ASSUME NEW p \in Lines(Words), NEW q, NEW k \in {3, 4}, NEW w \in Seq(Words),
           Utters(p, q, k, w), NEW m \in Hellos
    PROVE  /\ Count(p, m) \in Nat /\ Waiting(w, m) \in Nat
           /\ Count(q, m) = Count(p, m) + Waiting(w, m)
<1>1. PICK r \in Lines(Words) : Skips(p, r, k) /\ Speaks(r, q, k + 1, w)
  BY DEF Utters
<1>2. k \in Places /\ k + 1 \in Places
  BY DEF Places
<1>3. Count(r, m) = Count(p, m)
  <2>1. Carries(p, r)
    BY <1>1, <1>2 DEF Carries
  <2>2. Calm(p, r)
    BY <2>1, SilenceIsCalm
  <2> QED
    BY <2>2 DEF Calm
<1>4. Count(r, m) \in Nat /\ Waiting(w, m) \in Nat /\ Count(q, m) = Count(r, m) + Waiting(w, m)
  BY <1>1, <1>2, SpeakCounts
<1> QED
  BY <1>3, <1>4

(* A line that no Hello of an instance has entered *)
LEMMA FreshIsInOrder ==
    ASSUME NEW p, NEW id, LineFree(p, Greetings(id))
    PROVE  InOrder(p, id)
BY DEF LineFree, Free, InOrder, LineSorted, Sorted

(* A word is heard. *)
LEMMA HearKeeps ==
    ASSUME NEW p \in Lines(Words), NEW q, Drops(p, q, 1), NEW h, h = Head(p[1])
    PROVE  /\ Orderly(p, q)
           /\ \A id : h \in Greetings(id) /\ InOrder(p, id) => NoneStale(q, id)
           /\ \A id : NoneStale(p, id) => h \notin Stale(id)
           /\ Asks(p) => Asks(q) \/ (h = C!MakeTelemetryStart /\ LineFree(q, Hellos))
           /\ h \notin Hellos /\ h # C!MakeTelemetryStart => Calm(p, q)
<1>1. 1 \in Places /\ p[1] \in Seq(Words) /\ p[1] # <<>>
  BY DEF Places, Lines, Drops
<1>2. Orderly(p, q)
  BY <1>1, DropsThin, ThinIsOrderly
<1>3. ASSUME NEW id, h \in Greetings(id), InOrder(p, id) PROVE NoneStale(q, id)
  <2> DEFINE F == Greetings(id)
             G == Stale(id)
  <2>1. LineSorted(p, F, G) /\ Head(p[1]) \in F
    BY <1>3 DEF InOrder
  <2> HIDE DEF F, G
  <2>2. LineFree(q, G)
    BY <1>1, <2>1, DropKeeps
  <2> QED
    BY <2>2 DEF NoneStale, G
<1>4. ASSUME NEW id, NoneStale(p, id) PROVE h \notin Stale(id)
  <2> DEFINE G == Stale(id)
  <2>1. Free(p[1], G)
    BY <1>1, <1>4 DEF NoneStale, LineFree
  <2> HIDE DEF G
  <2>2. h \notin G
    BY <1>1, <2>1, FreeOfTail
  <2> QED
    BY <2>2 DEF G
<1>5. Asks(p) => Asks(q) \/ (h = C!MakeTelemetryStart /\ LineFree(q, Hellos))
  <2> DEFINE x == C!MakeTelemetryStart
             G == Hellos
  <2> HIDE DEF x, G
  <2>1. LineEndsWith(p, x, G) => LineEndsWith(q, x, G) \/ (Head(p[1]) = x /\ LineFree(q, G))
    BY <1>1, DropKeeps
  <2> QED
    BY <2>1 DEF x, G, Asks
<1>6. h \notin Hellos /\ h # C!MakeTelemetryStart => Calm(p, q)
  BY <1>1, DropIsCalm
<1> QED
  BY <1>2, <1>3, <1>4, <1>5, <1>6

(* and so is the word that the task has heard.                             *)
LEMMA HearCounts ==
    ASSUME NEW p \in Lines(Words), NEW q, Drops(p, q, 1), NEW m
    PROVE  /\ Count(q, m) \in Nat
           /\ Head(p[1]) # m => Count(p, m) = Count(q, m)
           /\ Head(p[1]) = m => Count(p, m) = Count(q, m) + 1
<1>1. 1 \in Places
  BY DEF Places
<1>2. Count(q, m) \in Nat /\ Count(p, m) = Count(q, m) + (IF Head(p[1]) = m THEN 1 ELSE 0)
  BY <1>1, DropKeeps
<1> QED
  BY <1>2
-----------------------------------------------------------------------------
(* A late Disconnected *)

(* A send is made of the message that it sends.                            *)
LEMMA SendIs ==
    ASSUME NEW t \in ServerTasks, t.task = "Send"
    PROVE  t = S!Send(t.bytes)
BY DEF ServerTasks, S!Send, S!Connected, S!Disconnected, S!SampleReady

(* The strand of the server grows by no Disconnected, or shrinks. *)
StrandGoesOn ==
    \/ UNCHANGED serverStrand
    \/ \E x \in ServerTasks :
           x # S!Disconnected /\ serverStrand' = Append(serverStrand, x)
    \/ serverStrand # <<>> /\ serverStrand' = Tail(serverStrand)

(* A strand that goes on stays late.                                       *)
LEMMA StillLate ==
    ASSUME SessionInv, Late, ServerNamed, StrandGoesOn,
           ~Free(serverStrand', {S!Disconnected})
    PROVE  /\ ~Free(serverStrand, {S!Disconnected})
           /\ Sorted(serverStrand', {S!Send(HelloOfServer)}, {S!Disconnected})
           /\ serverStrand # <<>> /\ serverStrand' = Tail(serverStrand)
              => WordOf("Send", Head(serverStrand)) # HelloOfServer
<1> DEFINE F == {S!Send(HelloOfServer)}
           G == {S!Disconnected}
           s == serverStrand
<1>1. s \in Seq(ServerTasks)
  BY StrandTypes
<1>2. CASE serverStrand' = serverStrand
  <2>1. ~Free(s, G) /\ Sorted(s, F, G)
    BY <1>2 DEF Late
  <2>2. ASSUME s # <<>>, serverStrand' = Tail(s) PROVE FALSE
    <3>1. Len(s) = Len(Tail(s)) + 1 /\ Len(Tail(s)) \in Nat
      BY <1>1, <2>2, TailIs
    <3> QED
      BY <1>2, <2>2, <3>1
  <2> QED
    BY <1>2, <2>1, <2>2
<1>3. CASE \E x \in ServerTasks : x # S!Disconnected /\ serverStrand' = Append(s, x)
  <2>1. PICK x \in ServerTasks : x # S!Disconnected /\ serverStrand' = Append(s, x)
    BY <1>3
  <2> HIDE DEF F, G, s
  <2>2. Free(Append(s, x), G) <=> Free(s, G) /\ x \notin G
    BY <1>1, FreeOfAppend
  <2>3. Sorted(Append(s, x), F, G) <=> Sorted(s, F, G) /\ (x \in G => Free(s, F))
    BY <1>1, SortedAppend
  <2>4. x \notin G
    BY <2>1 DEF G
  <2>5. ~Free(s, G)
    BY <2>1, <2>2, <2>4 DEF G, s
  <2>6. Sorted(serverStrand', F, G)
    BY <2>1, <2>3, <2>4, <2>5 DEF F, G, s, Late
  <2>7. ASSUME s # <<>>, serverStrand' = Tail(s) PROVE FALSE
    <3>1. Len(s) = Len(Tail(s)) + 1 /\ Len(Tail(s)) \in Nat
      BY <1>1, <2>7, TailIs
    <3>2. Len(Append(s, x)) = Len(s) + 1
      BY <1>1, AppendIs
    <3> QED
      BY <2>1, <2>7, <3>1, <3>2 DEF s
  <2> QED
    BY <2>5, <2>6, <2>7 DEF F, G, s
<1>4. CASE s # <<>> /\ serverStrand' = Tail(s)
  <2>1. Head(s) \in ServerTasks
    BY <1>1, <1>4, HeadAndTail
  <2>2. /\ Free(s, G) <=> Head(s) \notin G /\ Free(Tail(s), G)
        /\ Sorted(s, F, G) <=> Sorted(Tail(s), F, G) /\ (Head(s) \in F => Free(Tail(s), G))
    <3> HIDE DEF F, G, s
    <3> QED
      BY <1>1, <1>4, FreeOfTail, SortedTail
  <2>3. ~Free(s, G) /\ ~Free(Tail(s), G)
    BY <1>4, <2>2
  <2>4. Sorted(s, F, G)
    BY <2>3 DEF Late
  <2>5. Head(s) # S!Send(HelloOfServer)
    BY <2>2, <2>3, <2>4
  <2>6. ASSUME WordOf("Send", Head(s)) = HelloOfServer PROVE FALSE
    <3>1. HelloOfServer # Silence
      BY PresentHellos, WordFacts
    <3>2. Head(s).task = "Send" /\ Head(s).bytes = HelloOfServer
      BY <2>6, <3>1, WordsAre
    <3> QED
      BY <2>1, <2>5, <3>2, SendIs
  <2> QED
    BY <1>4, <2>2, <2>3, <2>4, <2>6
<1> QED
  BY <1>2, <1>3, <1>4 DEF StrandGoesOn

(* Nothing arrives from the strand of the server, or what it has sent does. *)
ChannelGoesOn ==
    \/ ToClientLine' = ToClientLine
    \/ \E k \in {1, 3} : Pauses(ToClientLine, ToClientLine', k)
    \/ \E k \in {1, 3, 4} : Skips(ToClientLine, ToClientLine', k)
    \/ \E k \in {2, 4} : Passes(ToClientLine, ToClientLine', k)
    \/ \E k \in {1, 2} : Drops(ToClientLine, ToClientLine', k)
    \/ \E w \in Seq(Words) : Utters(ToClientLine, ToClientLine', 3, w)
    \/ /\ Passes(ToClientLine, ToClientLine', 3)
       /\ serverStrand # <<>> /\ serverStrand' = Tail(serverStrand)

(* A Hello that has not reached the channel cannot be heard next.          *)
LEMMA NotYetGreeted ==
    ASSUME NEW p \in Lines(Words), NEW q, NEW h \in Hellos,
           Free(p[1], {h}), Free(p[2], {h}),
           \/ q = p
           \/ \E k \in {1, 3} : Pauses(p, q, k)
           \/ \E k \in {1, 3, 4} : Skips(p, q, k)
           \/ \E k \in {2, 4} : Passes(p, q, k)
           \/ \E k \in {1, 2} : Drops(p, q, k)
           \/ \E w \in Seq(Words) : Utters(p, q, 3, w)
           \/ Passes(p, q, 3) /\ Head(p[3]) # h
    PROVE  /\ Free(q[1], {h}) /\ Free(q[2], {h})
           /\ Count(q, h) \in Nat /\ Count(q, h) >= Count(p, h)
<1> DEFINE A == {h}
<1>1. /\ p[1] \in Seq(Words) /\ p[2] \in Seq(Words) /\ p[3] \in Seq(Words)
      /\ {1, 2, 3, 4} \subseteq Places /\ {2, 3, 4} \subseteq 2..5
      /\ 2 - 1 = 1 /\ 3 - 1 = 2 /\ 4 - 1 = 3 /\ 1 \in Places /\ 2 \in Places
  BY DEF Lines, Places
<1>2. Silence \in Words /\ Silence # h /\ h # Silence
  BY AllHaveWords, WordFacts
<1>3. Silence \notin A
  BY <1>2
<1>4. Free(p[1], A) /\ Free(p[2], A)
  OBVIOUS
<1>0. Count(p, h) \in Nat
  BY CountType
<1>5. CASE q = p
  BY <1>0, <1>5
<1>6. ASSUME NEW k \in {1, 2, 3, 4}, Carries(p, q) PROVE Count(q, h) = Count(p, h)
  BY <1>2, <1>6, CarryKeeps
<1>7. ASSUME NEW k \in {1, 3}, Pauses(p, q, k)
      PROVE  Free(q[1], {h}) /\ Free(q[2], {h}) /\ Count(q, h) = Count(p, h)
  <2>1. Carries(p, q)
    BY <1>1, <1>7 DEF Carries
  <2>2. q[k] = Append(p[k], Silence) /\ \A l \in Places : l = k \/ q[l] = p[l]
    BY <1>7 DEF Pauses, Same
  <2> HIDE DEF A
  <2>3. Free(q[1], A) /\ Free(q[2], A)
    <3>1. CASE k = 1
      <4>1. Free(Append(p[1], Silence), A)
        BY <1>1, <1>2, <1>3, <1>4, FreeOfAppend
      <4> QED
        BY <1>1, <1>4, <2>2, <3>1, <4>1
    <3>2. CASE k = 3
      BY <1>1, <1>4, <2>2, <3>2
    <3> QED
      BY <3>1, <3>2
  <2> QED
    BY <1>6, <2>1, <2>3 DEF A
<1>8. ASSUME NEW k \in {1, 2, 3, 4}, Drops(p, q, k) PROVE Free(q[1], {h}) /\ Free(q[2], {h})
  <2>1. p[k] # <<>> /\ q[k] = Tail(p[k]) /\ \A l \in Places : l = k \/ q[l] = p[l]
    BY <1>8 DEF Drops, Same
  <2> HIDE DEF A
  <2>2. Free(q[1], A) /\ Free(q[2], A)
    BY <1>1, <1>4, <2>1, FreeOfTail
  <2> QED
    BY <2>2 DEF A
<1>9. ASSUME NEW k \in {1, 3, 4}, Skips(p, q, k)
      PROVE  Free(q[1], {h}) /\ Free(q[2], {h}) /\ Count(q, h) = Count(p, h)
  <2>1. Carries(p, q) /\ Drops(p, q, k)
    BY <1>1, <1>9 DEF Carries, Skips
  <2> QED
    BY <1>6, <1>8, <2>1
<1>10. ASSUME NEW k \in {1, 2}, Drops(p, q, k)
       PROVE  Free(q[1], {h}) /\ Free(q[2], {h}) /\ Count(q, h) = Count(p, h)
  <2>1. p[k] # <<>> /\ Head(p[k]) # h
    <3>1. p[k] # <<>> /\ p[k] \in Seq(Words) /\ Free(p[k], A)
      BY <1>1, <1>4, <1>10 DEF Drops
    <3> HIDE DEF A
    <3>2. Head(p[k]) \notin A
      BY <3>1, FreeOfTail
    <3> QED
      BY <3>1, <3>2 DEF A
  <2>2. Count(p, h) = Count(q, h) + 0 /\ Count(q, h) \in Nat
    BY <1>1, <1>10, <2>1, DropKeeps
  <2> QED
    BY <1>8, <1>10, <2>2
<1>11. ASSUME NEW k \in {2, 3, 4}, Passes(p, q, k), k = 3 => Head(p[3]) # h
       PROVE  Free(q[1], {h}) /\ Free(q[2], {h}) /\ Count(q, h) = Count(p, h)
  <2>1. Carries(p, q)
    BY <1>1, <1>11 DEF Carries
  <2>2. /\ p[k] # <<>> /\ q[k] = Tail(p[k]) /\ q[k - 1] = Append(p[k - 1], Head(p[k]))
        /\ \A l \in Places : l \in {k - 1, k} \/ q[l] = p[l]
    BY <1>11 DEF Passes, Same
  <2> HIDE DEF A
  <2>3. CASE k = 2
    <3>1. Head(p[2]) \in Words /\ Head(p[2]) \notin A /\ Free(Tail(p[2]), A)
      BY <1>1, <1>4, <2>2, <2>3, FreeOfTail, HeadAndTail
    <3>2. Free(Append(p[1], Head(p[2])), A)
      BY <1>1, <1>4, <3>1, FreeOfAppend
    <3>3. q[2] = Tail(p[2]) /\ q[1] = Append(p[1], Head(p[2]))
      BY <1>1, <2>2, <2>3
    <3> QED
      BY <1>6, <2>1, <3>1, <3>2, <3>3 DEF A
  <2>4. CASE k = 3
    <3>1. Head(p[3]) \in Words /\ Head(p[3]) \notin A
      BY <1>1, <1>11, <2>2, <2>4, HeadAndTail DEF A
    <3>2. q[2] = Append(p[2], Head(p[3])) /\ q[1] = p[1]
      BY <1>1, <2>2, <2>4
    <3> QED
      BY <1>1, <1>4, <1>6, <2>1, <3>1, <3>2, FreeOfAppend DEF A
  <2>5. CASE k = 4
    BY <1>1, <1>4, <1>6, <2>1, <2>2, <2>5 DEF A
  <2> QED
    BY <2>3, <2>4, <2>5
<1>12. CASE \E k \in {1, 3} : Pauses(p, q, k)
  BY <1>0, <1>7, <1>12
<1>13. CASE \E k \in {1, 3, 4} : Skips(p, q, k)
  BY <1>0, <1>9, <1>13
<1>14. CASE \E k \in {2, 4} : Passes(p, q, k)
  BY <1>0, <1>11, <1>14
<1>15. CASE Passes(p, q, 3) /\ Head(p[3]) # h
  BY <1>0, <1>11, <1>15
<1>16. CASE \E k \in {1, 2} : Drops(p, q, k)
  BY <1>0, <1>10, <1>16
<1>17. ASSUME NEW w \in Seq(Words), Utters(p, q, 3, w)
       PROVE  Free(q[1], {h}) /\ Free(q[2], {h}) /\ Count(q, h) \in Nat /\ Count(q, h) >= Count(p, h)
  <2>1. q[1] = p[1] /\ q[2] = p[2]
    BY <1>1, <1>17 DEF Utters, Skips, Drops, Speaks, Same
  <2>2. Count(p, h) \in Nat /\ Waiting(w, h) \in Nat /\ Count(q, h) = Count(p, h) + Waiting(w, h)
    BY <1>17, UtterCounts
  <2> QED
    BY <2>1, <2>2
<1>19. CASE \E w \in Seq(Words) : Utters(p, q, 3, w)
  BY <1>17, <1>19
<1> QED
  BY <1>5, <1>12, <1>13, <1>14, <1>15, <1>16, <1>19

(* What keeps Late,                                                        *)
LEMMA LateKept ==
    ASSUME SessionInv, Late, server'.instance_id = server.instance_id,
           ServerNamed /\ ~Free(serverStrand, {S!Disconnected})
           => \/ client'.handshake.remote_instance_id = client.handshake.remote_instance_id
              \/ client'.handshake.remote_instance_id # server.instance_id,
           ServerNamed' => ServerNamed /\ StrandGoesOn /\ ChannelGoesOn
    PROVE  Late'
<1> SUFFICES ASSUME ServerNamed', ~Free(serverStrand', {S!Disconnected})
             PROVE  /\ client'.handshake.remote_instance_id # server.instance_id
                    /\ Free(ToClientLine'[1], {HelloOfServer})
                    /\ Free(ToClientLine'[2], {HelloOfServer})
                    /\ Sorted(serverStrand', {S!Send(HelloOfServer)}, {S!Disconnected})
                    /\ Count(ToClientLine', HelloOfServer) >= 1
  BY DEF Late, HelloOfServer
<1>1. ServerNamed /\ StrandGoesOn /\ ChannelGoesOn
  OBVIOUS
<1>2. /\ ~Free(serverStrand, {S!Disconnected})
      /\ Sorted(serverStrand', {S!Send(HelloOfServer)}, {S!Disconnected})
      /\ serverStrand # <<>> /\ serverStrand' = Tail(serverStrand)
         => WordOf("Send", Head(serverStrand)) # HelloOfServer
  BY <1>1, StillLate
<1>3. /\ client.handshake.remote_instance_id # server.instance_id
      /\ Free(ToClientLine[1], {HelloOfServer}) /\ Free(ToClientLine[2], {HelloOfServer})
      /\ Count(ToClientLine, HelloOfServer) >= 1
  BY <1>1, <1>2 DEF Late
<1>4. PICK q : q = ToClientLine'
  OBVIOUS
<1> DEFINE p == ToClientLine
           h == HelloOfServer
<1>5. p \in Lines(Words) /\ h \in Hellos
  BY LinesType, PresentHellos
<1>6. Passes(p, q, 3) /\ serverStrand # <<>> /\ serverStrand' = Tail(serverStrand)
      => Head(p[3]) # h
  BY <1>2, ServerStrandShrinks
<1>7. \/ q = p
      \/ \E k \in {1, 3} : Pauses(p, q, k)
      \/ \E k \in {1, 3, 4} : Skips(p, q, k)
      \/ \E k \in {2, 4} : Passes(p, q, k)
      \/ \E k \in {1, 2} : Drops(p, q, k)
      \/ \E w \in Seq(Words) : Utters(p, q, 3, w)
      \/ Passes(p, q, 3) /\ Head(p[3]) # h
  BY <1>1, <1>4, <1>6 DEF ChannelGoesOn
<1>8. Free(p[1], {h}) /\ Free(p[2], {h})
  BY <1>3
<1> HIDE DEF p, h
<1>9. Free(q[1], {h}) /\ Free(q[2], {h}) /\ Count(q, h) \in Nat /\ Count(q, h) >= Count(p, h)
  BY <1>5, <1>7, <1>8, NotYetGreeted
<1>10. Count(p, h) >= 1 /\ Count(p, h) \in Nat
  BY <1>3, <1>5, CountType DEF p, h
<1>11. Count(q, h) >= 1
  BY <1>9, <1>10
<1> QED
  BY <1>2, <1>3, <1>4, <1>9, <1>11 DEF p, h
-----------------------------------------------------------------------------
(* What the steps that settle nothing keep of the rest *)

(* what keeps DisconnectIsFollowed,                                        *)
LEMMA FollowedKept ==
    ASSUME SessionInv, DisconnectIsFollowed,
           \/ clientLink' # "connected"
           \/ UNCHANGED <<clientStrand, clientLink>>
           \/ /\ clientStrand # <<>> /\ clientStrand' = Tail(clientStrand)
              /\ UNCHANGED clientLink
           \/ /\ \E x \in ClientTasks :
                     x # C!Disconnected /\ clientStrand' = Append(clientStrand, x)
              /\ UNCHANGED clientLink
           \/ clientStrand' = Append(clientStrand, C!Connected)
    PROVE  DisconnectIsFollowed'
<1> DEFINE x == C!Disconnected
           G == {C!Connected}
           s == clientStrand
<1>1. s \in Seq(ClientTasks)
  BY StrandTypes
<1>2. CASE clientLink' # "connected" \/ UNCHANGED <<clientStrand, clientLink>>
  BY <1>2 DEF DisconnectIsFollowed
<1>3. CASE s # <<>> /\ clientStrand' = Tail(s) /\ UNCHANGED clientLink
  <2> HIDE DEF x, G, s
  <2>1. EndsWith(s, x, G) <=> EndsWith(Tail(s), x, G) \/ (Head(s) = x /\ Free(Tail(s), G))
    BY <1>1, <1>3, EndsWithTail
  <2> QED
    BY <1>3, <2>1 DEF DisconnectIsFollowed, x, G, s
<1>4. CASE UNCHANGED clientLink /\ \E y \in ClientTasks : y # x /\ clientStrand' = Append(s, y)
  <2> HIDE DEF x, G, s
  <2>1. PICK y \in ClientTasks : y # x /\ clientStrand' = Append(s, y)
    BY <1>4
  <2>2. EndsWith(Append(s, y), x, G) <=> y = x \/ (EndsWith(s, x, G) /\ y \notin G)
    BY <1>1, EndsWithAppend
  <2> QED
    BY <1>4, <2>1, <2>2 DEF DisconnectIsFollowed, x, G, s
<1>5. CASE clientStrand' = Append(s, C!Connected)
  <2> DEFINE y == C!Connected
  <2>1. y \in ClientTasks /\ y # x /\ y \in G
    BY TasksType, TasksDiffer
  <2> HIDE DEF x, G, s, y
  <2>2. EndsWith(Append(s, y), x, G) <=> y = x \/ (EndsWith(s, x, G) /\ y \notin G)
    BY <1>1, <2>1, EndsWithAppend
  <2> QED
    BY <1>5, <2>1, <2>2 DEF DisconnectIsFollowed, x, G, y
<1> QED
  BY <1>2, <1>3, <1>4, <1>5

(* and what keeps ReportIsLate.                                            *)
LEMMA ReportKept ==
    ASSUME SessionInv, ReportIsLate,
           reporting' /\ channelValid' => reporting /\ channelValid,
           reader' \in {"reading", "deliver"} => reader \in {"reading", "deliver"},
           \/ UNCHANGED serverStrand
           \/ /\ serverStrand # <<>> /\ serverStrand' = Tail(serverStrand)
              /\ Head(serverStrand) # S!Connected
           \/ \E x \in ServerTasks : serverStrand' = Append(serverStrand, x)
    PROVE  ReportIsLate'
<1>1. ASSUME Free(serverStrand', {S!Connected}) PROVE Free(serverStrand, {S!Connected})
  <2>1. CASE serverStrand' = serverStrand
    BY <1>1, <2>1
  <2>2. CASE /\ serverStrand # <<>> /\ serverStrand' = Tail(serverStrand)
             /\ Head(serverStrand) # S!Connected
    BY <1>1, <2>2, StrandTypes, FreeOfTail
  <2>3. CASE \E x \in ServerTasks : serverStrand' = Append(serverStrand, x)
    BY <1>1, <2>3, StrandTypes, FreeOfAppend
  <2> QED
    BY <2>1, <2>2, <2>3
<1> QED
  BY <1>1 DEF ReportIsLate

(* A pending effect is one that the effects are not free of.               *)
LEMMA PendingIs ==
    ASSUME SessionInv
    PROVE  \A e : S!Pending(e) <=> ~Free(serverEffects, {e})
<1>1. serverEffects \in Seq(ServerEffects)
  BY StrandTypes
<1>2. DOMAIN serverEffects = 1..Len(serverEffects)
  BY <1>1, LenProperties
<1> QED
  BY <1>2 DEF S!Pending, S!Range, Free

(* What keeps Sampling: its variables unchanged,                           *)
LEMMA SamplingKept ==
    ASSUME SessionInv, Sampling, server' = server, UNCHANGED <<serverEffects, running>>
    PROVE  Sampling'
BY DEF Sampling, S!Pending, S!Range

(* or the handling of an effect, which starts or stops the timer.          *)
LEMMA EffectSampling ==
    ASSUME SessionInv, SessionInv', Sampling, EffectStep
    PROVE  Sampling'
<1> DEFINE a == S!StartTelemetryTimer
           o == S!StopTelemetryTimer
           s == serverEffects
<1>1. /\ s \in Seq(ServerEffects) /\ s # <<>> /\ serverEffects' = Tail(s)
      /\ server' = server
  BY StrandTypes DEF EffectStep, S!HandleSendMessage, S!HandleStartTelemetryTimer,
                     S!HandleStopTelemetryTimer
<1>2. /\ S!Pending(a) <=> ~Free(s, {a})
      /\ S!Pending(o) <=> ~Free(s, {o})
  BY PendingIs
<1>3. \A e : S!Pending(e)' <=> ~Free(serverEffects', {e})
  <2>1. DOMAIN serverEffects' = 1..Len(serverEffects')
    <3>1. serverEffects' \in Seq(ServerEffects)
      BY <1>1, HeadAndTail
    <3> QED
      BY <3>1, LenProperties
  <2> QED
    BY <2>1 DEF S!Pending, S!Range, Free
<1>4. /\ Free(s, {a}) <=> Head(s) \notin {a} /\ Free(Tail(s), {a})
      /\ Free(s, {o}) <=> Head(s) \notin {o} /\ Free(Tail(s), {o})
  <2> HIDE DEF a, o, s
  <2> QED
    BY <1>1, FreeOfTail
<1>5. a.effect = "StartTelemetryTimer" /\ o.effect = "StopTelemetryTimer"
  BY DEF S!StartTelemetryTimer, S!StopTelemetryTimer
<1>6. S!Pending(o)' => ~server'.telemetry_enabled
  BY <1>1, <1>2, <1>3, <1>4 DEF Sampling
<1>7. server'.telemetry_enabled => S!Pending(a)' \/ running'
  <2>1. CASE S!HandleSendMessage
    <3>1. running' = running /\ Head(s) # a
      BY <1>5, <2>1 DEF S!HandleSendMessage
    <3> QED
      BY <1>1, <1>2, <1>3, <1>4, <3>1 DEF Sampling
  <2>2. CASE S!HandleStartTelemetryTimer
    BY <2>2 DEF S!HandleStartTelemetryTimer, S!Start
  <2>3. CASE S!HandleStopTelemetryTimer
    <3>1. Head(s) = o
      <4>1. Head(s).effect = "StopTelemetryTimer" /\ Head(s) \in ServerEffects
        BY <1>1, <2>3, HeadAndTail DEF S!HandleStopTelemetryTimer
      <4> QED
        BY <4>1 DEF ServerEffects, S!StartTelemetryTimer, S!StopTelemetryTimer
    <3> QED
      BY <1>1, <1>2, <1>4, <3>1 DEF Sampling
  <2> QED
    BY <2>1, <2>2, <2>3 DEF EffectStep
<1> QED
  BY <1>6, <1>7 DEF Sampling

-----------------------------------------------------------------------------
(* The steps that settle nothing keep the invariant. *)

(* A quiet step keeps the invariant, if it keeps the other conjuncts.      *)
LEMMA QuietStepKeeps ==
    ASSUME SessionInv, AgreementInv, Quiet,
           DisconnectIsFollowed', ReportIsLate', Late', Sampling'
    PROVE  AgreementInv'
<1>1. RequestFollows'
  BY DEF Quiet, AgreementInv, RequestFollows
<1>2. ClientOrder' /\ ServerOrder' /\ Balanced' /\ Granted'
  BY QuietKeeps DEF AgreementInv
<1> QED
  BY <1>1, <1>2 DEF AgreementInv

(* Every step keeps the invariant: a callback of the host,                 *)
LEMMA ClientHostAgrees ==
    ASSUME SessionInv, AgreementInv,
           ClientOpen \/ ClientRegister \/ ClientNotify \/ ClientDisconnect \/ ClientReceive
    PROVE  AgreementInv'
<1>1. UNCHANGED <<client, server, serverStrand, serverEffects, running, channelValid, reader,
                  reporting>>
  BY DEF ClientOpen, ClientRegister, ClientNotify, ClientDisconnect, ClientReceive, ServerUnchanged,
         controlOfServer, linkOfServer
<1>2. Quiet
  BY ClientHostIsQuiet
<1>3. DisconnectIsFollowed'
  <2>1. CASE ClientOpen \/ ClientRegister \/ ClientDisconnect
    BY <2>1, FollowedKept
    DEF ClientOpen, ClientRegister, ClientDisconnect, CL!Open, CL!Register, CL!Disconnect,
        AgreementInv
  <2>2. CASE ClientNotify
    BY <2>2, FollowedKept, TasksDiffer DEF ClientNotify, CL!Notify, CL!Post, AgreementInv
  <2>3. CASE ClientReceive
    <3> DEFINE x == CL!Received(Head(toClient))
    <3>1. /\ clientStrand' = Append(clientStrand, x)
          /\ toClient # <<>> /\ clientLink' = clientLink
      BY <2>3 DEF ClientReceive, CL!Receive, CL!Post
    <3>2. x \in ClientTasks /\ x # C!Disconnected
      BY <3>1, StrandTypes, HeadAndTail, TasksType, TasksDiffer
    <3> HIDE DEF x
    <3> QED
      BY <3>1, <3>2, FollowedKept DEF AgreementInv
  <2> QED
    BY <2>1, <2>2, <2>3
<1>4. ReportIsLate'
  BY <1>1 DEF ReportIsLate, AgreementInv
<1>5. Late'
  <2>1. ServerNamed' => ServerNamed
    BY <1>2 DEF Quiet
  <2>2. StrandGoesOn /\ ChannelGoesOn
    BY <1>1, ClientHostLines DEF StrandGoesOn, ChannelGoesOn
  <2> QED
    BY <1>1, <2>1, <2>2, LateKept DEF AgreementInv
<1>6. Sampling'
  BY <1>1, SamplingKept DEF AgreementInv
<1> QED
  BY <1>2, <1>3, <1>4, <1>5, <1>6, QuietStepKeeps

(* a send or an effect of the client,                                      *)
LEMMA ClientWorkAgrees ==
    ASSUME SessionInv, Reliable, AgreementInv, ClientQuietWork
    PROVE  AgreementInv'
<1>1. UNCHANGED <<client, server, serverStrand, serverEffects, running, channelValid, reader,
                  reporting, clientLink>>
  BY DEF ClientQuietWork, ClientStep, ClientSend, ClientSendFails, C!HandleSendMessage,
         C!HandleStopPing, C!RunSend, C!clientVars, ServerUnchanged, controlOfServer,
         linkOfServer
<1>2. Quiet
  BY ClientWorkIsQuiet
<1>3. DisconnectIsFollowed'
  <2>1. CASE ClientStep /\ C!HandleSendMessage
    <3> DEFINE x == C!Send(Head(clientEffects).message)
    <3>1. /\ clientEffects # <<>> /\ Head(clientEffects).effect = "SendMessage"
          /\ clientStrand' = Append(clientStrand, x)
      BY <2>1 DEF C!HandleSendMessage, C!Post
    <3>2. Head(clientEffects).message \in FromClient
      BY <3>1, StrandTypes, HeadAndTail, Contents
    <3>3. x \in ClientTasks /\ x # C!Disconnected
      BY <3>2, TasksType, TasksDiffer
    <3> HIDE DEF x
    <3> QED
      BY <1>1, <3>1, <3>3, FollowedKept DEF AgreementInv
  <2>2. CASE ClientStep /\ C!HandleStopPing
    BY <1>1, <2>2, FollowedKept DEF C!HandleStopPing, AgreementInv
  <2>3. CASE ClientSend \/ ClientSendFails
    <3>1. clientStrand # <<>> /\ clientStrand' = Tail(clientStrand)
      BY <2>3 DEF ClientSend, ClientSendFails, C!RunSend, C!TakeTask
    <3> QED
      BY <1>1, <3>1, FollowedKept DEF AgreementInv
  <2> QED
    BY <2>1, <2>2, <2>3 DEF ClientQuietWork
<1>4. ReportIsLate'
  BY <1>1 DEF ReportIsLate, AgreementInv
<1>5. Late'
  <2>1. ServerNamed' => ServerNamed
    BY <1>2 DEF Quiet
  <2>2. StrandGoesOn /\ ChannelGoesOn
    BY <1>1, ClientEffectLines, ClientSendLines DEF ClientQuietWork, StrandGoesOn, ChannelGoesOn
  <2> QED
    BY <1>1, <2>1, <2>2, LateKept DEF AgreementInv
<1>6. Sampling'
  BY <1>1, SamplingKept DEF AgreementInv
<1> QED
  BY <1>2, <1>3, <1>4, <1>5, <1>6, QuietStepKeeps

(* a step of the reader,                                                   *)
LEMMA ReaderAgrees ==
    ASSUME SessionInv, AgreementInv, ReaderStep
    PROVE  AgreementInv'
<1>1. UNCHANGED <<client, clientLink, clientStrand, server, serverEffects, running, reporting>>
  BY DEF ReaderStep, ServerOpenChannel, ServerRead, ServerReaderGoesOn, ServerReadFails,
         SL!Open, SL!Read, SL!Notify, SL!Deliver, SL!ReaderReports, SL!ReadFindsClosed,
         SL!ReadFails, ClientUnchanged, clientProcess, controlOfServer
<1>2. Quiet
  BY ReaderIsQuiet
<1>3. DisconnectIsFollowed'
  BY <1>1, FollowedKept DEF AgreementInv
<1>4. \/ reader' \notin {"reading", "deliver"}
      \/ /\ serverStrand' = Append(serverStrand, S!Connected)
         /\ S!Connected \in ServerTasks
      \/ /\ channelValid' = channelValid
         /\ reader \in {"reading", "deliver"}
         /\ \/ UNCHANGED serverStrand
            \/ \E x \in ServerTasks :
                   x # S!Disconnected /\ serverStrand' = Append(serverStrand, x)
  <2>1. CASE ServerOpenChannel \/ ServerReadFails
    BY <2>1 DEF ServerOpenChannel, ServerReadFails, SL!Open, SL!ReadFails
  <2>2. CASE ServerRead
    BY <2>2 DEF ServerRead, SL!Read
  <2>3. CASE ServerReaderGoesOn /\ (SL!ReaderReports \/ SL!ReadFindsClosed)
    BY <2>3 DEF SL!ReaderReports, SL!ReadFindsClosed
  <2>4. CASE ServerReaderGoesOn /\ SL!Notify
    BY <2>4, TasksType, TasksDiffer DEF SL!Notify, SL!Post
  <2>5. CASE ServerReaderGoesOn /\ SL!Deliver
    <3>1. /\ serverStrand' = Append(serverStrand, SL!Received(inHand))
          /\ channelValid' = channelValid /\ reader = "deliver"
      BY <2>5 DEF SL!Deliver, SL!Post
    <3>2. SL!Received(inHand) \in ServerTasks /\ SL!Received(inHand) # S!Disconnected
      BY <3>1, StrandTypes, TasksType, TasksDiffer
    <3> QED
      BY <3>1, <3>2
  <2> QED
    BY <2>1, <2>2, <2>3, <2>4, <2>5 DEF ReaderStep, ServerReaderGoesOn
<1>5. ReportIsLate'
  <2>1. CASE reader' \notin {"reading", "deliver"}
    BY <2>1 DEF ReportIsLate
  <2>2. CASE serverStrand' = Append(serverStrand, S!Connected) /\ S!Connected \in ServerTasks
    BY <2>2, StrandTypes, FreeOfAppend DEF ReportIsLate
  <2>3. CASE /\ channelValid' = channelValid
             /\ reader \in {"reading", "deliver"}
             /\ \/ UNCHANGED serverStrand
                \/ \E x \in ServerTasks :
                       x # S!Disconnected /\ serverStrand' = Append(serverStrand, x)
    BY <1>1, <2>3, ReportKept DEF AgreementInv
  <2> QED
    BY <1>4, <2>1, <2>2, <2>3
<1>6. Late'
  <2>1. ServerNamed' => ServerNamed
    BY <1>2 DEF Quiet
  <2>2. ServerNamed' => StrandGoesOn
    BY <1>4, TasksDiffer DEF StrandGoesOn, ServerNamed
  <2>3. ChannelGoesOn
    BY ServerReaderLines DEF ChannelGoesOn
  <2> QED
    BY <1>1, <2>1, <2>2, <2>3, LateKept DEF AgreementInv
<1>7. Sampling'
  BY <1>1, SamplingKept DEF AgreementInv
<1> QED
  BY <1>2, <1>3, <1>5, <1>6, <1>7, QuietStepKeeps

(* a send, an effect or a timer of the server,                             *)
LEMMA ServerWorkAgrees ==
    ASSUME SessionInv, SessionInv', AgreementInv, ServerQuietWork
    PROVE  AgreementInv'
<1>1. UNCHANGED <<client, clientLink, clientStrand, server, reader>>
  BY DEF ServerQuietWork, EffectStep, ServerStep, S!HandleSendMessage,
         S!HandleStartTelemetryTimer, S!HandleStopTelemetryTimer, ServerSend,
         ServerSendFindsClosed, ServerSendFails, SL!SendFails, S!RunSend,
         ServerWorkerReports, SL!WorkerReports, TimerFires, S!TimerExpires,
         S!TimerExpiresStopped, S!TimerExpiresThrows, ClientUnchanged, clientProcess,
         linkOfServer
<1>2. Quiet
  BY ServerWorkIsQuiet
<1>3. DisconnectIsFollowed'
  BY <1>1, FollowedKept DEF AgreementInv
<1>4. CASE EffectStep
  <2>1. UNCHANGED <<channelValid, reporting>>
    BY <1>4 DEF EffectStep, ServerStep, linkOfServer
  <2>2. serverStrand' = serverStrand
        \/ \E x \in ServerTasks : x # S!Disconnected /\ serverStrand' = Append(serverStrand, x)
    <3>1. CASE S!HandleSendMessage
      <4> DEFINE x == S!Send(Head(serverEffects).message)
      <4>1. /\ serverEffects # <<>> /\ Head(serverEffects).effect = "SendMessage"
            /\ serverStrand' = Append(serverStrand, x)
        BY <3>1 DEF S!HandleSendMessage, S!Post
      <4>2. Head(serverEffects).message \in FromServer
        BY <4>1, StrandTypes, HeadAndTail, Contents
      <4>3. x \in ServerTasks /\ x # S!Disconnected
        BY <4>2, TasksType, TasksDiffer
      <4> HIDE DEF x
      <4> QED
        BY <4>1, <4>3
    <3>2. CASE S!HandleStartTelemetryTimer \/ S!HandleStopTelemetryTimer
      BY <3>2 DEF S!HandleStartTelemetryTimer, S!HandleStopTelemetryTimer
    <3> QED
      BY <1>4, <3>1, <3>2 DEF EffectStep
  <2>3. ReportIsLate'
    BY <1>1, <2>1, <2>2, ReportKept DEF AgreementInv
  <2>4. (ServerNamed' => ServerNamed) /\ StrandGoesOn /\ ChannelGoesOn
    BY <1>2, <1>4, <2>2, ServerEffectLines DEF Quiet, StrandGoesOn, ChannelGoesOn
  <2>5. Late'
    BY <1>1, <2>4, LateKept DEF AgreementInv
  <2>6. Sampling'
    BY <1>4, EffectSampling DEF AgreementInv
  <2> QED
    BY <1>2, <1>3, <2>3, <2>5, <2>6, QuietStepKeeps
<1>5. CASE ServerSend \/ ServerSendFindsClosed \/ ServerSendFails
  <2>1. /\ serverStrand # <<>> /\ serverStrand' = Tail(serverStrand)
        /\ Head(serverStrand).task = "Send"
    BY <1>5, ServerSendLines
  <2>2. Head(serverStrand) # S!Connected
    BY <2>1, TasksDiffer
  <2>3. reporting' /\ channelValid' => reporting /\ channelValid
    BY <1>5 DEF ServerSend, ServerSendFindsClosed, ServerSendFails, SL!SendFails, linkOfServer
  <2>4. ReportIsLate'
    BY <1>1, <2>1, <2>2, <2>3, ReportKept DEF AgreementInv
  <2>5. ServerNamed' => ServerNamed /\ StrandGoesOn /\ ChannelGoesOn
    <3>1. ASSUME ServerNamed' PROVE ChannelGoesOn
      <4>1. ServerSend
        BY <1>5, <3>1 DEF ServerSendFindsClosed, ServerSendFails, SL!SendFails, linkOfServer,
                          ServerNamed
      <4> QED
        BY <2>1, <4>1, ServerSendLines DEF ChannelGoesOn
    <3> QED
      BY <1>2, <2>1, <3>1 DEF Quiet, StrandGoesOn
  <2>6. Late'
    BY <1>1, <2>5, LateKept DEF AgreementInv
  <2>7. UNCHANGED <<serverEffects, running>>
    BY <1>5 DEF ServerSend, ServerSendFindsClosed, ServerSendFails, S!RunSend
  <2>8. Sampling'
    BY <1>1, <2>7, SamplingKept DEF AgreementInv
  <2> QED
    BY <1>2, <1>3, <2>4, <2>6, <2>8, QuietStepKeeps
<1>6. CASE ServerWorkerReports \/ TimerFires
  <2>1. /\ channelValid' = channelValid /\ (reporting' => reporting)
        /\ UNCHANGED <<serverEffects, running>>
        /\ ServerWorkerReports => reporting
    BY <1>6 DEF ServerWorkerReports, SL!WorkerReports, TimerFires, linkOfServer,
                S!TimerExpires, S!TimerExpiresStopped, S!TimerExpiresThrows, S!PostSample,
                S!ExpireStopped, S!PostSampleThrows, S!timerVars
  <2>2. \/ serverStrand' = serverStrand
        \/ /\ ServerWorkerReports
           /\ \E x \in ServerTasks : serverStrand' = Append(serverStrand, x)
        \/ \E x \in ServerTasks : x # S!Disconnected /\ serverStrand' = Append(serverStrand, x)
    <3>1. S!Disconnected \in ServerTasks /\ S!SampleReady \in ServerTasks
          /\ S!SampleReady # S!Disconnected
      BY TasksType, TasksDiffer
    <3> QED
      BY <1>6, <3>1, ServerIdleLines
  <2>3. ReportIsLate'
    BY <1>1, <2>1, <2>2, ReportKept DEF AgreementInv
  <2>4. ServerNamed' => ServerNamed /\ StrandGoesOn /\ ChannelGoesOn
    <3>1. ASSUME ServerNamed' PROVE ServerNamed /\ StrandGoesOn
      <4>1. ServerNamed
        BY <1>2, <3>1 DEF Quiet
      <4>2. ~ServerWorkerReports
        BY <2>1, <4>1 DEF ServerNamed, AgreementInv, ReportIsLate
      <4> QED
        BY <2>2, <4>1, <4>2 DEF StrandGoesOn
    <3> QED
      BY <1>6, <3>1, ServerIdleLines DEF ChannelGoesOn
  <2>5. Late'
    BY <1>1, <2>4, LateKept DEF AgreementInv
  <2>6. Sampling'
    BY <1>1, <2>1, SamplingKept DEF AgreementInv
  <2> QED
    BY <1>2, <1>3, <2>3, <2>5, <2>6, QuietStepKeeps
<1> QED
  BY <1>4, <1>5, <1>6 DEF ServerQuietWork

(* a loss,                                                                 *)
LEMMA DropAgrees ==
    ASSUME SessionInv, AgreementInv, DropToClient \/ DropToServer
    PROVE  AgreementInv'
<1>1. UNCHANGED <<client, clientStrand, clientLink, server, serverStrand, serverEffects,
                  running, channelValid, reader, reporting>>
  BY DEF DropToClient, DropToServer, ClientUnchanged, ServerUnchanged, clientProcess,
         controlOfServer, linkOfServer
<1>2. Quiet
  BY DropIsQuiet
<1>3. DisconnectIsFollowed' /\ ReportIsLate'
  BY <1>1 DEF DisconnectIsFollowed, ReportIsLate, AgreementInv
<1>4. Late'
  <2>1. (ServerNamed' => ServerNamed) /\ StrandGoesOn
    BY <1>1, <1>2 DEF Quiet, StrandGoesOn
  <2>2. ChannelGoesOn
    BY DropLines DEF ChannelGoesOn
  <2> QED
    BY <1>1, <2>1, <2>2, LateKept DEF AgreementInv
<1>5. Sampling'
  BY <1>1, SamplingKept DEF AgreementInv
<1> QED
  BY <1>2, <1>3, <1>4, <1>5, QuietStepKeeps
-----------------------------------------------------------------------------
(* The crashes *)

(* What a sequence is free of is counted zero times.                       *)
LEMMA FreeMeansNone ==
    ASSUME NEW T, NEW s \in Seq(T), NEW x, NEW A, Free(s, A), x \in A
    PROVE  Waiting(s, x) = 0
<1>1. DOMAIN s = 1..Len(s)
  BY LenProperties
<1>2. {i \in DOMAIN s : s[i] = x} = {}
  BY <1>1 DEF Free
<1> QED
  BY <1>2, FS_EmptySet DEF Waiting

(* No instance is reset to, and none of those that are drawn.              *)
LEMMA NoInstanceIsNone ==
    /\ C!Reset.remote_instance_id = C!NoInstance
    /\ S!Reset.remote_instance_id = C!NoInstance
    /\ C!LocalHelloSent(C!Reset).remote_instance_id = C!NoInstance
    /\ S!LocalHelloSent(S!Reset).remote_instance_id = C!NoInstance
    /\ C!Reset.handshake_completed = FALSE
    /\ C!LocalHelloSent(C!Reset).handshake_completed = FALSE
    /\ C!NoInstance \notin Nat
    /\ C!InitialClient.handshake = C!Reset /\ C!InitialClient.telemetry_requested = FALSE
    /\ S!InitialServer.handshake = S!Reset /\ S!InitialServer.telemetry_enabled = FALSE
BY DEF C!Reset, S!Reset, C!NoInstance, S!NoInstance, C!LocalHelloSent, S!LocalHelloSent,
       C!InitialClient, S!InitialServer

(* What a step of the client process leaves alone.                         *)
LEMMA NoneToServer == ServerUnchanged => UNCHANGED <<server, serverEffects, serverStrand, running,
                                            channelValid, reader, inHand, reporting>>
BY DEF ServerUnchanged, controlOfServer, linkOfServer

(* A crash of the client keeps the invariant,                              *)
LEMMA ClientCrashAgrees ==
    ASSUME SessionInv, AgreementInv, ClientCrash
    PROVE  AgreementInv'
<1>1. /\ client' = C!InitialClient /\ clientEffects' = <<>> /\ clientStrand' = <<>>
      /\ clientLink' = "closed" /\ UNCHANGED <<toServer, toClient>>
      /\ UNCHANGED <<server, serverEffects, serverStrand, running, channelValid, reader, inHand,
                     reporting>>
  BY NoneToServer DEF ClientCrash, wires
<1>2. ~ClientSteady' /\ DisconnectIsFollowed'
  BY <1>1 DEF ClientSteady, DisconnectIsFollowed
<1>3. ReportIsLate' /\ RequestFollows'
  <2>1. ReportIsLate'
    BY <1>1 DEF ReportIsLate, AgreementInv
  <2>2. RequestFollows'
    BY <1>1, NoInstanceIsNone DEF RequestFollows
  <2> QED
    BY <2>1, <2>2
<1>4. ClientOrder' /\ Balanced' /\ Granted'
  BY <1>2 DEF ClientOrder, Balanced, Granted
<1>5. (ServerNamed' => ServerNamed) /\ server'.instance_id = server.instance_id
      /\ client'.handshake.remote_instance_id # server.instance_id
  BY <1>1, NoInstanceIsNone, PresentHellos, ServerAsBefore
<1>6. /\ ToClientLine'[1] = <<>> /\ \A k \in Places : k = 1 \/ ToClientLine'[k] = ToClientLine[k]
  <2>1. ToClientLine'[1] = <<>>
    BY <1>1, Stations DEF WordsOf
  <2> QED
    BY <1>1, <2>1, Stay, Stations
<1>7. PICK q : q = ToClientLine'
  OBVIOUS
<1> DEFINE p == ToClientLine
           h == HelloOfServer
<1>8. p \in Lines(Words)
  BY LinesType
<1>9. q[1] = <<>> /\ \A k \in Places : k = 1 \/ q[k] = p[k]
  BY <1>6, <1>7
<1>10. Orderly(p, q)
  <2>1. Thins(p, q)
    BY <1>9 DEF Thins
  <2> QED
    BY <1>8, <2>1, ThinIsOrderly
<1>11. ServerOrder'
  BY <1>5, <1>7, <1>10 DEF ServerOrder, AgreementInv, Orderly
<1>12. ASSUME ServerNamed', ~Free(serverStrand', {S!Disconnected})
       PROVE  /\ Free(q[1], {h}) /\ Free(q[2], {h})
              /\ Sorted(serverStrand', {S!Send(h)}, {S!Disconnected})
              /\ Count(q, h) >= 1
  <2>1. /\ Free(p[1], {h}) /\ Free(p[2], {h})
        /\ Sorted(serverStrand', {S!Send(h)}, {S!Disconnected})
        /\ Count(p, h) >= 1
    BY <1>1, <1>5, <1>12 DEF Late, AgreementInv
  <2>2. q[2] = p[2] /\ q[3] = p[3] /\ q[4] = p[4] /\ q[5] = p[5]
    <3>1. {2, 3, 4, 5} \subseteq Places
      BY DEF Places
    <3> QED
      BY <1>9, <3>1
  <2>3. Waiting(p[1], h) = 0 /\ Waiting(q[1], h) = 0
    <3>1. p[1] \in Seq(Words)
      BY <1>8 DEF Lines, Places
    <3> HIDE DEF p, h
    <3>2. Waiting(p[1], h) = 0
      <4>1. h \in {h}
        OBVIOUS
      <4> QED
        BY <2>1, <3>1, <4>1, FreeMeansNone
    <3> QED
      BY <1>9, <3>2, EmptyFacts
  <2>4. Count(q, h) = Count(p, h)
    BY <2>2, <2>3 DEF Count
  <2>5. Free(q[1], {h})
    BY <1>9, EmptyFacts
  <2> QED
    BY <2>1, <2>2, <2>4, <2>5
<1>13. Late'
  BY <1>1, <1>5, <1>7, <1>12 DEF Late, HelloOfServer
<1>14. Sampling'
  BY <1>1, SamplingKept DEF AgreementInv
<1> QED
  BY <1>2, <1>3, <1>4, <1>11, <1>13, <1>14 DEF AgreementInv

(* and so does one of the server.                                          *)
LEMMA ServerCrashAgrees ==
    ASSUME SessionInv, AgreementInv, ServerCrash
    PROVE  AgreementInv'
<1>1. /\ server' = S!InitialServer /\ serverEffects' = <<>> /\ serverStrand' = <<>>
      /\ channelValid' = FALSE /\ reader' = "opening" /\ UNCHANGED <<toServer, toClient>>
      /\ UNCHANGED <<client, clientEffects, clientStrand, clientLink>>
  BY DEF ServerCrash, wires, ClientUnchanged, clientProcess
<1>2. ~ServerNamed' /\ ~ServerSteady' /\ ReportIsLate'
  BY <1>1 DEF ServerNamed, ServerSteady, ReportIsLate
<1>3. DisconnectIsFollowed' /\ RequestFollows'
  BY <1>1 DEF DisconnectIsFollowed, RequestFollows, AgreementInv
<1>4. ServerOrder' /\ Late' /\ Balanced' /\ Granted'
  BY <1>2 DEF ServerOrder, Late, Balanced, Granted
<1>5. /\ ClientSteady' => ClientSteady
      /\ client'.instance_id = client.instance_id
      /\ server'.handshake.remote_instance_id # client.instance_id
  BY <1>1, NoInstanceIsNone, PresentHellos, ClientAsBefore
<1>6. PICK q : q = ToServerLine'
  OBVIOUS
<1>7. Thins(ToServerLine, q)
  <2>1. ToServerLine'[1] = <<>> /\ ToServerLine'[2] = <<>>
    BY <1>1, Stations DEF WordsOf
  <2>2. /\ ToServerLine'[3] = ToServerLine[3] /\ ToServerLine'[4] = ToServerLine[4]
        /\ ToServerLine'[5] = ToServerLine[5]
    BY <1>1, Stay
  <2> QED
    BY <1>6, <2>1, <2>2, Stations DEF Thins
<1>8. Orderly(ToServerLine, q)
  BY <1>7, LinesType, ThinIsOrderly
<1>9. ClientOrder'
  BY <1>5, <1>6, <1>8 DEF ClientOrder, AgreementInv, Orderly
<1>10. Sampling'
  BY <1>1, NoInstanceIsNone DEF Sampling, S!Pending, S!Range
<1> QED
  BY <1>2, <1>3, <1>4, <1>9, <1>10 DEF AgreementInv
-----------------------------------------------------------------------------
(* What tasks say *)

(* The words of at most two effects.                                       *)
LEMMA ShortWords ==
    ASSUME NEW kind
    PROVE  /\ WordsOf(kind, <<>>) = <<>>
           /\ \A a : WordsOf(kind, <<a>>) = <<WordOf(kind, a)>>
           /\ \A a, b : WordsOf(kind, <<a, b>>) = <<WordOf(kind, a), WordOf(kind, b)>>
BY DEF WordsOf

(* What one or two words are free of.                                      *)
LEMMA ShortSpeeches ==
    ASSUME NEW x \in Words, NEW y \in Words, NEW A
    PROVE  /\ <<>> \in Seq(Words) /\ <<x>> \in Seq(Words) /\ <<x, y>> \in Seq(Words)
           /\ Free(<<>>, A)
           /\ Free(<<x>>, A) <=> x \notin A
           /\ Free(<<x, y>>, A) <=> x \notin A /\ y \notin A
           /\ EndsWith(<<x, y>>, y, A)
BY DEF Free, EndsWith

(* How often one or two words contain m.                                   *)
LEMMA SpeechCounts ==
    ASSUME NEW x \in Words, NEW y \in Words, NEW m
    PROVE  /\ x = m => Waiting(<<x>>, m) = 1
           /\ x = m /\ y # m => Waiting(<<x, y>>, m) = 1
           /\ x # m /\ y = m => Waiting(<<x, y>>, m) = 1
<1> DEFINE e == <<>>
           s == <<x>>
           t == <<x, y>>
<1>1. e \in Seq(Words) /\ s \in Seq(Words) /\ s = Append(e, x) /\ t = Append(s, y)
  OBVIOUS
<1>2. Waiting(e, m) = 0
  BY EmptyFacts
<1> HIDE DEF e, s, t
<1>3. Waiting(s, m) = 0 + (IF x = m THEN 1 ELSE 0)
  BY <1>1, <1>2, WaitingAppend
<1>4. Waiting(t, m) = Waiting(s, m) + (IF y = m THEN 1 ELSE 0)
  <2>1. Waiting(Append(s, y), m) = Waiting(s, m) + (IF y = m THEN 1 ELSE 0)
    <3>1. s \in Seq(Words)
      BY <1>1
    <3> QED
      BY <3>1, WaitingAppend
  <2> QED
    BY <1>1, <2>1
<1>5. /\ x = m => Waiting(s, m) = 1
      /\ x = m /\ y # m => Waiting(t, m) = 1
      /\ x # m /\ y = m => Waiting(t, m) = 1
  BY <1>3, <1>4
<1> QED
  BY <1>5 DEF s, t

(* A Hello of the present instance, alone or with something else, is no    *)
(* stale one.                                                              *)
LEMMA OwnSpeech ==
    ASSUME NEW id, NEW h \in Greetings(id), NEW x \in Words \ Hellos
    PROVE  /\ \A w \in {<<>>, <<x>>} : w \in Seq(Words) /\ Free(w, Hellos) /\ Free(w, Stale(id))
           /\ \A w \in {<<h>>, <<h, x>>, <<x, h>>} :
                  w \in Seq(Words) /\ Free(w, Stale(id)) /\ Waiting(w, h) = 1
           /\ EndsWith(<<h, x>>, x, Hellos)
<1>1. h \in Words /\ h \in Hellos /\ h \notin Stale(id) /\ x \notin Stale(id) /\ x # h
  BY DEF Greetings, Stale, Hellos
<1>2. Waiting(<<h>>, h) = 1 /\ Waiting(<<h, x>>, h) = 1 /\ Waiting(<<x, h>>, h) = 1
  BY <1>1, SpeechCounts
<1> QED
  BY <1>1, <1>2, ShortSpeeches

(* How the balance changes when a greeting arrives, *)
LEMMA GreetingArrives ==
    ASSUME NEW c \in {0, 1, 2}, NEW s \in {0, 1, 2}, NEW a \in Nat, NEW b \in Nat,
           BalancedAt(c, s, a, b + 1)
    PROVE  /\ c = 0 => BalancedAt(1, s, a + 1, b)
           /\ c = 1 => BalancedAt(2, s, a + 1, b)
           /\ c = 2 => BalancedAt(2, s, a, b)
BY DEF BalancedAt

(* when one of a former instance does, *)
LEMMA StaleGreetingArrives ==
    ASSUME NEW s \in {0, 1, 2}, NEW a \in Nat, NEW b \in Nat, NEW d \in Nat,
           BalancedAt(0, s, a, b)
    PROVE  BalancedAt(0, s, a + d, b)
BY DEF BalancedAt

(* and when a side starts anew *)
LEMMA NewGreeting ==
    ASSUME NEW s \in {0, 1, 2}, NEW a \in Nat, NEW b \in Nat
    PROVE  /\ a >= 1 => BalancedAt(0, 0, a, b)
           /\ b >= 1 => BalancedAt(0, 0, a, b)
BY DEF BalancedAt

(* The balance is the same seen from either side.                          *)
LEMMA BalanceIsMutual ==
    ASSUME NEW c \in {0, 1, 2}, NEW s \in {0, 1, 2}, NEW a \in Nat, NEW b \in Nat
    PROVE  BalancedAt(c, s, a, b) <=> BalancedAt(s, c, b, a)
BY DEF BalancedAt

-----------------------------------------------------------------------------
(* An id that has not been drawn is in no Hello. *)

(* The id of a task or an effect is that of its word.                      *)
LEMMA IdOfWord ==
    ASSUME NEW kind \in {"Send", "Received", "SendMessage"}, NEW x
    PROVE  IdIn(kind, x) = MessageId(WordOf(kind, x))
<1>1. MessageId(Silence) = 0
  BY DEF MessageId, Silence
<1>2. CASE kind = "SendMessage"
  BY <1>1, <1>2 DEF IdIn, WordOf
<1>3. CASE kind = "Send" \/ kind = "Received"
  BY <1>1, <1>3 DEF IdIn, WordOf
<1> QED
  BY <1>2, <1>3

(* A station with ids up to hi has no Hello of a later id,                 *)
LEMMA WithinIsFree ==
    ASSUME NEW kind \in {"Send", "Received", "SendMessage"}, NEW T,
           HaveIds(kind, T), NEW s \in Seq(T), NEW lo \in Nat, NEW hi \in Nat,
           Within(kind, s, lo, hi), NEW id \in Nat, hi < id
    PROVE  Free(WordsOf(kind, s), Greetings(id))
<1>1. Len(s) \in Nat
  BY LenProperties
<1>2. ASSUME NEW i \in 1..Len(s) PROVE WordOf(kind, s[i]) \notin Greetings(id)
  <2>1. IdIn(kind, s[i]) \in Nat /\ Between(lo, IdIn(kind, s[i]), hi)
    BY DEF HaveIds, Within
  <2>2. SUFFICES ASSUME WordOf(kind, s[i]) \in Greetings(id) PROVE FALSE
    OBVIOUS
  <2>3. WordOf(kind, s[i]).type = "Hello" /\ WordOf(kind, s[i]).instance_id = id
        /\ WordOf(kind, s[i]) # Silence
    BY <2>2, WordFacts DEF Greetings, Hellos
  <2>4. IdIn(kind, s[i]) = id
    BY <2>3, IdOfWord DEF MessageId
  <2> QED
    BY <2>1, <2>4 DEF Between
<1> QED
  BY <1>1, <1>2 DEF Free, WordsOf

(* and neither has a channel.                                              *)
LEMMA MessagesWithinAreFree ==
    ASSUME NEW T, HaveIds("Message", T), NEW s \in Seq(T), NEW lo \in Nat, NEW hi \in Nat,
           Within("Message", s, lo, hi), NEW id \in Nat, hi < id
    PROVE  Free(s, Greetings(id))
<1>1. ASSUME NEW i \in 1..Len(s), s[i] \in Greetings(id) PROVE FALSE
  <2>1. IdIn("Message", s[i]) \in Nat /\ Between(lo, IdIn("Message", s[i]), hi)
    BY DEF HaveIds, Within
  <2>2. IdIn("Message", s[i]) = id
    BY <1>1, IdsOf DEF MessageId, Greetings, Hellos
  <2> QED
    BY <2>1, <2>2 DEF Between
<1> QED
  BY <1>1 DEF Free

(* No Hello of the id that the client draws next is on its way,            *)
LEMMA FreshToServer ==
    ASSUME OrderInv
    PROVE  /\ LineFree(ToServerLine, Greetings(clientClock + 1))
           /\ server.handshake.remote_instance_id # clientClock + 1
           /\ clientClock + 1 \in Nat
<1> DEFINE id == clientClock + 1
<1>1. SessionInv /\ clientClock \in Nat /\ id \in Nat /\ client.instance_id \in Nat
      /\ server.handshake.remote_instance_id \in Int
  BY DEF OrderInv, SessionInv, ClientInv, ClientState, ServerInv, ServerState,
         C!ClientStates, C!InstanceId, S!ServerStates, S!HandshakeStates, S!InstanceId,
         S!NoInstance
<1>2. PICK a \in Nat, b \in Nat, c \in Nat, d \in Nat, e \in Nat :
          /\ a <= b /\ b <= c /\ c <= d /\ d <= e
          /\ ServerHears(a, b, c)
          /\ Within("Message", toServer, c, d)
          /\ ClientSays(d, e)
  BY DEF OrderInv, ToServerInOrder
<1>3. e < id /\ d < id /\ c < id /\ b < id /\ a < id /\ client.instance_id < id
  BY <1>1, <1>2 DEF ClientSays, Says
<1>4. server.handshake.remote_instance_id # id
  BY <1>1, <1>2, <1>3 DEF ServerHears, Hears
<1> HIDE DEF id
<1>5. Free(ToServerLine[1], Greetings(id))
  <2>1. Within("Received", serverStrand, a, b)
    BY <1>2 DEF ServerHears, Hears
  <2> QED
    BY <1>1, <1>3, <2>1, StrandTypes, AllHaveIds, WithinIsFree, Stations
<1>6. Free(ToServerLine[2], Greetings(id))
  <2>1. ASSUME reader = "deliver" PROVE inHand \notin Greetings(id)
    <3>1. Between(b, MessageId(inHand), c)
      BY <1>2 DEF ServerHears
    <3>2. inHand \in Greetings(id) => MessageId(inHand) = id
      BY DEF MessageId, Greetings, Hellos
    <3>3. c < id /\ id # 0
      BY <1>1, <1>3
    <3> QED
      BY <1>1, <3>1, <3>2, <3>3 DEF Between
  <2> QED
    BY <2>1, Stations DEF Free
<1>7. Free(ToServerLine[3], Greetings(id))
  BY <1>1, <1>2, <1>3, StrandTypes, AllHaveIds, MessagesWithinAreFree, Stations
<1>8. Free(ToServerLine[4], Greetings(id))
  <2>1. Within("Send", clientStrand, d, e)
    BY <1>2 DEF ClientSays, Says
  <2> QED
    BY <1>1, <1>3, <2>1, StrandTypes, AllHaveIds, WithinIsFree, Stations
<1>9. Free(ToServerLine[5], Greetings(id))
  <2>1. Within("SendMessage", clientEffects, e, client.instance_id)
    BY <1>2 DEF ClientSays, Says
  <2> QED
    BY <1>1, <1>3, <2>1, StrandTypes, AllHaveIds, WithinIsFree, Stations
<1>10. LineFree(ToServerLine, Greetings(id))
  BY <1>5, <1>6, <1>7, <1>8, <1>9 DEF LineFree, Places
<1> QED
  BY <1>1, <1>4, <1>10 DEF id

(* nor one of the id that the server draws next.                           *)
LEMMA FreshToClient ==
    ASSUME OrderInv
    PROVE  /\ LineFree(ToClientLine, Greetings(serverClock + 1))
           /\ client.handshake.remote_instance_id # serverClock + 1
           /\ serverClock + 1 \in Nat
<1> DEFINE id == serverClock + 1
<1>1. SessionInv /\ serverClock \in Nat /\ id \in Nat /\ server.instance_id \in Nat
      /\ client.handshake.remote_instance_id \in Int
  BY DEF OrderInv, SessionInv, ServerInv, ServerState, ClientInv, ClientState,
         C!ClientStates, C!HandshakeStates, C!InstanceId, C!NoInstance, S!ServerStates,
         S!InstanceId
<1>2. PICK a \in Nat, b \in Nat, d \in Nat, e \in Nat :
          /\ a <= b /\ b <= d /\ d <= e
          /\ ClientHears(a, b)
          /\ Within("Message", toClient, b, d)
          /\ ServerSays(d, e)
  BY DEF OrderInv, ToClientInOrder
<1>3. e < id /\ d < id /\ b < id /\ a < id /\ server.instance_id < id
  BY <1>1, <1>2 DEF ServerSays, Says
<1>4. client.handshake.remote_instance_id # id
  BY <1>1, <1>2, <1>3 DEF ClientHears, Hears
<1> HIDE DEF id
<1>5. Free(ToClientLine[1], Greetings(id))
  <2>1. Within("Received", clientStrand, a, b)
    BY <1>2 DEF ClientHears, Hears
  <2> QED
    BY <1>1, <1>3, <2>1, StrandTypes, AllHaveIds, WithinIsFree, Stations
<1>6. Free(ToClientLine[2], Greetings(id))
  BY <1>1, <1>2, <1>3, StrandTypes, AllHaveIds, MessagesWithinAreFree, Stations
<1>7. Free(ToClientLine[3], Greetings(id))
  <2>1. Within("Send", serverStrand, d, e)
    BY <1>2 DEF ServerSays, Says
  <2> QED
    BY <1>1, <1>3, <2>1, StrandTypes, AllHaveIds, WithinIsFree, Stations
<1>8. Free(ToClientLine[4], Greetings(id))
  <2>1. Within("SendMessage", serverEffects, e, server.instance_id)
    BY <1>2 DEF ServerSays, Says
  <2> QED
    BY <1>1, <1>3, <2>1, StrandTypes, AllHaveIds, WithinIsFree, Stations
<1>9. Free(ToClientLine[5], Greetings(id))
  BY Stations, EmptyFacts
<1>10. LineFree(ToClientLine, Greetings(id))
  BY <1>5, <1>6, <1>7, <1>8, <1>9 DEF LineFree, Places
<1> QED
  BY <1>1, <1>4, <1>10 DEF id
-----------------------------------------------------------------------------
(* The tasks that are no sends *)

(* A line whose station k loses a silent word, and the next one, empty so  *)
(* far as are those behind it, gets w *)
LEMMA UttersIf ==
    ASSUME NEW p \in Lines(Words), NEW q, NEW k \in {3, 4}, NEW w,
           p[k] # <<>>, Head(p[k]) = Silence, q[k] = Tail(p[k]),
           \A l \in Places : k < l => p[l] = <<>>,
           q[k + 1] = w,
           \A l \in Places : l = k \/ l = k + 1 \/ q[l] = p[l]
    PROVE  Utters(p, q, k, w)
<1> DEFINE r == [p EXCEPT ![k] = Tail(p[k])]
<1>1. k \in Places /\ k + 1 \in Places /\ k < k + 1
  BY DEF Places
<1>2. p[k] \in Seq(Words) /\ DOMAIN p = Places
  BY <1>1 DEF Lines
<1>3. Tail(p[k]) \in Seq(Words)
  BY <1>2, HeadAndTail
<1>4. r \in Lines(Words)
  BY <1>1, <1>3 DEF Lines
<1>5. r[k] = Tail(p[k]) /\ \A l \in Places : l = k \/ r[l] = p[l]
  BY <1>1, <1>2
<1> HIDE DEF r
<1>6. Skips(p, r, k)
  BY <1>5 DEF Skips, Drops, Same
<1>7. Speaks(r, q, k + 1, w)
  <2>1. \A l \in Places : k + 1 <= l => r[l] = <<>>
    BY <1>1, <1>5 DEF Places
  <2>2. \A l \in Places : l = k + 1 \/ q[l] = r[l]
    BY <1>1, <1>5
  <2> QED
    BY <2>1, <2>2 DEF Speaks, Same
<1> QED
  BY <1>4, <1>6, <1>7 DEF Utters

(* What a task of the client leaves alone,                                 *)
LEMMA ClientTaskIs ==
    ASSUME SessionInv, ClientTask
    PROVE  /\ UNCHANGED <<server, serverEffects, serverStrand, running, channelValid, reader,
                          inHand, reporting, clientLink, toServer, toClient>>
           /\ clientStrand # <<>> /\ clientStrand' = Tail(clientStrand)
           /\ Head(clientStrand) \in ClientTasks /\ Head(clientStrand).task # "Send"
           /\ clientEffects = <<>>
           /\ clientEffects' \in Seq(ClientEffects)
<1>1. UNCHANGED <<server, serverEffects, serverStrand, running, channelValid, reader,
                  inHand, reporting, clientLink, toServer, toClient>>
  BY NoneToServer DEF ClientTask, ClientRunConnected, ClientStep, wires
<1>2. /\ clientStrand # <<>> /\ clientStrand' = Tail(clientStrand)
      /\ Head(clientStrand).task # "Send" /\ clientEffects = <<>>
  BY DEF ClientTask, ClientRunConnected, ClientStep, C!RunConnected, C!RunDisconnected,
         C!RunReceived, C!TakeTask
<1>3. clientEffects' \in Seq(ClientEffects)
  <2>1. ClientInv'
    BY ClientWorkerStep DEF ClientTask, ClientWorker
  <2> QED
    BY <2>1 DEF ClientInv, ClientState
<1> QED
  BY <1>1, <1>2, <1>3, StrandTypes, HeadAndTail

(* and what it does to the lines: it hears a word and utters others.       *)
LEMMA ClientTaskLines ==
    ASSUME SessionInv, ClientTask
    PROVE  /\ Drops(ToClientLine, ToClientLine', 1)
           /\ Head(ToClientLine[1]) = WordOf("Received", Head(clientStrand))
           /\ WordsOf("SendMessage", clientEffects') \in Seq(Words)
           /\ Utters(ToServerLine, ToServerLine', 4, WordsOf("SendMessage", clientEffects'))
<1> DEFINE w == WordsOf("SendMessage", clientEffects')
<1>1. /\ ToClientLine[1] # <<>> /\ ToClientLine'[1] = Tail(ToClientLine[1])
      /\ Head(ToClientLine[1]) = WordOf("Received", Head(clientStrand))
      /\ ToServerLine[4] # <<>> /\ ToServerLine'[4] = Tail(ToServerLine[4])
      /\ Head(ToServerLine[4]) = Silence
  BY ClientTaskIs, ClientStrandShrinks, WordsAre
<1>2. /\ ToClientLine'[2] = ToClientLine[2] /\ ToClientLine'[3] = ToClientLine[3]
      /\ ToClientLine'[4] = ToClientLine[4] /\ ToClientLine'[5] = ToClientLine[5]
      /\ ToServerLine'[1] = ToServerLine[1] /\ ToServerLine'[2] = ToServerLine[2]
      /\ ToServerLine'[3] = ToServerLine[3]
  BY ClientTaskIs, Stay
<1>3. ToServerLine[5] = <<>> /\ ToServerLine'[5] = w
  <2>1. WordsOf("SendMessage", <<>>) = <<>>
    BY ShortWords
  <2> QED
    BY <2>1, ClientTaskIs, Stations
<1>4. w \in Seq(Words)
  BY ClientTaskIs, AllHaveWords, WordsOfIs
<1>5. PICK p, q : p = ToServerLine /\ q = ToServerLine'
  OBVIOUS
<1>6. p \in Lines(Words)
  BY <1>5, LinesType
<1> HIDE DEF w
<1>7. Utters(p, q, 4, w)
  <2>1. \A l \in Places : 4 < l => p[l] = <<>>
    BY <1>3, <1>5 DEF Places
  <2>2. \A l \in Places : l = 4 \/ l = 4 + 1 \/ q[l] = p[l]
    BY <1>2, <1>5 DEF Places
  <2>3. /\ p[4] # <<>> /\ Head(p[4]) = Silence /\ q[4] = Tail(p[4])
        /\ q[4 + 1] = w /\ 4 \in {3, 4}
    BY <1>1, <1>3, <1>5
  <2> QED
    BY <1>6, <2>1, <2>2, <2>3, UttersIf
<1>8. Drops(ToClientLine, ToClientLine', 1)
  BY <1>1, <1>2 DEF Drops, Same, Places
<1> QED
  BY <1>1, <1>4, <1>5, <1>7, <1>8 DEF w

(* The same for a task of the server,                                      *)
LEMMA ServerTaskIs ==
    ASSUME SessionInv, ServerTask
    PROVE  /\ UNCHANGED <<client, clientEffects, clientStrand, clientLink, running,
                          channelValid, reader, inHand, reporting, toServer, toClient>>
           /\ ~reporting
           /\ serverStrand # <<>> /\ serverStrand' = Tail(serverStrand)
           /\ Head(serverStrand) \in ServerTasks /\ Head(serverStrand).task # "Send"
           /\ serverEffects = <<>>
           /\ serverEffects' \in Seq(ServerEffects)
<1>1. UNCHANGED <<client, clientEffects, clientStrand, clientLink, running,
                  channelValid, reader, inHand, reporting, toServer, toClient>>
  BY DEF ServerTask, ServerRunConnected, ServerStep, S!RunConnected, S!RunDisconnected,
         S!RunReceived, S!RunSampleReady, S!timerVars, linkOfServer, wires, ClientUnchanged,
         clientProcess
<1>2. /\ serverStrand # <<>> /\ serverStrand' = Tail(serverStrand) /\ ~reporting
      /\ Head(serverStrand).task # "Send" /\ serverEffects = <<>>
  BY DEF ServerTask, ServerRunConnected, ServerStep, S!RunConnected, S!RunDisconnected,
         S!RunReceived, S!RunSampleReady, S!TakeTask
<1>3. serverEffects' \in Seq(ServerEffects)
  <2>1. serverEffects' \in Seq(Own(ServerEffects, server'.instance_id))
    BY ServerTaskOrder DEF SessionInv
  <2> QED
    BY <2>1 DEF Own
<1> QED
  BY <1>1, <1>2, <1>3, StrandTypes, HeadAndTail

(* and what that does to the lines.                                        *)
LEMMA ServerTaskLines ==
    ASSUME SessionInv, ServerTask
    PROVE  /\ Drops(ToServerLine, ToServerLine', 1)
           /\ Head(ToServerLine[1]) = WordOf("Received", Head(serverStrand))
           /\ WordsOf("SendMessage", serverEffects') \in Seq(Words)
           /\ Utters(ToClientLine, ToClientLine', 3, WordsOf("SendMessage", serverEffects'))
<1> DEFINE w == WordsOf("SendMessage", serverEffects')
<1>1. /\ ToServerLine[1] # <<>> /\ ToServerLine'[1] = Tail(ToServerLine[1])
      /\ Head(ToServerLine[1]) = WordOf("Received", Head(serverStrand))
      /\ ToClientLine[3] # <<>> /\ ToClientLine'[3] = Tail(ToClientLine[3])
      /\ Head(ToClientLine[3]) = Silence
  BY ServerTaskIs, ServerStrandShrinks, WordsAre
<1>2. /\ ToServerLine'[2] = ToServerLine[2] /\ ToServerLine'[3] = ToServerLine[3]
      /\ ToServerLine'[4] = ToServerLine[4] /\ ToServerLine'[5] = ToServerLine[5]
      /\ ToClientLine'[1] = ToClientLine[1] /\ ToClientLine'[2] = ToClientLine[2]
      /\ ToClientLine'[5] = ToClientLine[5] /\ ToClientLine[5] = <<>>
  BY ServerTaskIs, Stay, Stations
<1>3. ToClientLine[4] = <<>> /\ ToClientLine'[4] = w
  <2>1. WordsOf("SendMessage", <<>>) = <<>>
    BY ShortWords
  <2> QED
    BY <2>1, ServerTaskIs, Stations
<1>4. w \in Seq(Words)
  BY ServerTaskIs, AllHaveWords, WordsOfIs
<1>5. PICK p, q : p = ToClientLine /\ q = ToClientLine'
  OBVIOUS
<1>6. p \in Lines(Words)
  BY <1>5, LinesType
<1> HIDE DEF w
<1>7. Utters(p, q, 3, w)
  <2>1. \A l \in Places : 3 < l => p[l] = <<>>
    BY <1>2, <1>3, <1>5 DEF Places
  <2>2. \A l \in Places : l = 3 \/ l = 3 + 1 \/ q[l] = p[l]
    BY <1>2, <1>5 DEF Places
  <2>3. /\ p[3] # <<>> /\ Head(p[3]) = Silence /\ q[3] = Tail(p[3])
        /\ q[3 + 1] = w /\ 3 \in {3, 4}
    BY <1>1, <1>3, <1>5
  <2> QED
    BY <1>6, <2>1, <2>2, <2>3, UttersIf
<1>8. Drops(ToServerLine, ToServerLine', 1)
  BY <1>1, <1>2 DEF Drops, Same, Places
<1> QED
  BY <1>1, <1>4, <1>5, <1>7, <1>8 DEF w
-----------------------------------------------------------------------------
(* The tasks of the client *)

(* A Hello made with an id is one of that id.                              *)
LEMMA MadeHellos ==
    ASSUME NEW id \in Nat
    PROVE  /\ C!MakeHello(ClientVersion, id) \in Greetings(id)
           /\ S!MakeHello(ServerVersion, id) \in Greetings(id)
<1>1. /\ C!MakeHello(ClientVersion, id) \in C!Message
      /\ S!MakeHello(ServerVersion, id) \in C!Message
  BY SessionAssumption
  DEF SessionAssumption, C!Message, C!MessagesWith, C!HelloMessages, C!InstanceId,
      C!MakeHello, S!MakeHello
<1> QED
  BY <1>1 DEF Greetings, Hellos, Words, C!MakeHello, S!MakeHello

(* What every task of the client keeps.                                    *)
LEMMA ClientTaskKeeps ==
    ASSUME SessionInv, AgreementInv, ClientTask
    PROVE  /\ DisconnectIsFollowed' /\ ReportIsLate' /\ Sampling'
           /\ ServerNamed' => ServerNamed
           /\ ServerSteady' => ServerSteady
           /\ Orderly(ToClientLine, ToClientLine')
           /\ client'.handshake.remote_instance_id # server.instance_id => ServerOrder'
           /\ (ServerNamed /\ ~Free(serverStrand, {S!Disconnected})
               => \/ client'.handshake.remote_instance_id = client.handshake.remote_instance_id
                  \/ client'.handshake.remote_instance_id # server.instance_id)
              => Late'
<1>1. /\ UNCHANGED <<server, serverEffects, serverStrand, running, channelValid, reader,
                     inHand, reporting, clientLink, toServer, toClient>>
      /\ clientStrand # <<>> /\ clientStrand' = Tail(clientStrand)
  BY ClientTaskIs
<1>2. DisconnectIsFollowed'
  BY <1>1, FollowedKept DEF AgreementInv
<1>3. ReportIsLate'
  BY <1>1 DEF ReportIsLate, AgreementInv
<1>4. Sampling'
  BY <1>1, SamplingKept DEF AgreementInv
<1>5. (ServerNamed' => ServerNamed) /\ (ServerSteady' => ServerSteady)
  BY <1>1, ServerAsBefore
<1>6. Drops(ToClientLine, ToClientLine', 1) /\ ToClientLine \in Lines(Words)
  BY ClientTaskLines, LinesType
<1>7. Orderly(ToClientLine, ToClientLine')
  <2>1. PICK q : q = ToClientLine'
    OBVIOUS
  <2>2. Orderly(ToClientLine, q)
    BY <1>6, <2>1, HearKeeps
  <2> QED
    BY <2>1, <2>2
<1>8. ASSUME client'.handshake.remote_instance_id # server.instance_id
      PROVE  ServerOrder'
  <2>1. ServerNamed' => InOrder(ToClientLine', server.instance_id)
    BY <1>5, <1>7 DEF ServerOrder, AgreementInv, Orderly
  <2> QED
    BY <1>1, <1>8, <2>1 DEF ServerOrder
<1>9. ASSUME ServerNamed /\ ~Free(serverStrand, {S!Disconnected})
             => \/ client'.handshake.remote_instance_id = client.handshake.remote_instance_id
                \/ client'.handshake.remote_instance_id # server.instance_id
      PROVE  Late'
  <2>1. ServerNamed' => ServerNamed /\ StrandGoesOn /\ ChannelGoesOn
    BY <1>1, <1>5, <1>6 DEF StrandGoesOn, ChannelGoesOn
  <2> QED
    BY <1>1, <1>9, <2>1, LateKept DEF AgreementInv
<1> QED
  BY <1>2, <1>3, <1>4, <1>5, <1>7, <1>8, <1>9

(* Connected draws an id and greets: the client keeps the invariant.       *)
LEMMA ClientConnectAgrees ==
    ASSUME OrderInv, AgreementInv, ClientRunConnected
    PROVE  AgreementInv'
<1> DEFINE id == clientClock + 1
           h == C!MakeHello(ClientVersion, id)
           w == <<Silence, h>>
<1>1. SessionInv /\ ClientTask
  BY DEF OrderInv, ClientTask
<1>2. /\ client'.instance_id = id /\ client'.handshake = C!LocalHelloSent(C!Reset)
      /\ client'.telemetry_requested = FALSE
      /\ clientEffects' = <<C!StopPing, C!SendMessage(h)>>
  BY DEF ClientRunConnected, C!RunConnected, C!TransportConnected
<1>3. /\ client'.handshake.remote_instance_id # server.instance_id
      /\ client'.handshake.handshake_completed = FALSE
      /\ server' = server
  BY <1>1, <1>2, NoInstanceIsNone, PresentHellos, ClientTaskIs
<1>4. /\ LineFree(ToServerLine, Greetings(id))
      /\ server.handshake.remote_instance_id # id
      /\ id \in Nat
  BY FreshToServer
<1>5. h \in Greetings(id) /\ h \in Hellos /\ Silence \in Words \ Hellos
  BY <1>4, MadeHellos, WordFacts, AllHaveWords DEF Greetings
<1>6. WordsOf("SendMessage", clientEffects') = w
  <2>1. WordOf("SendMessage", C!StopPing) = Silence
        /\ WordOf("SendMessage", C!SendMessage(h)) = h
    BY WordsAre DEF C!StopPing
  <2> QED
    BY <1>2, <2>1, ShortWords
<1>7. w \in Seq(Words) /\ Free(w, Stale(id)) /\ Waiting(w, h) = 1
  BY <1>5, OwnSpeech
<1>8. PICK p, q : p = ToServerLine /\ q = ToServerLine'
  OBVIOUS
<1>9. p \in Lines(Words) /\ Utters(p, q, 4, w)
  BY <1>1, <1>6, <1>8, LinesType, ClientTaskLines
<1>10. HelloOfClient' = h
  BY <1>2 DEF HelloOfClient
<1> HIDE DEF id, h, w
<1>11. InOrder(q, id)
  <2>1. InOrder(p, id)
    BY <1>4, <1>8, FreshIsInOrder
  <2> QED
    BY <1>7, <1>9, <2>1, UtterKeeps
<1>12. Count(q, h) \in Nat /\ Count(q, h) >= 1
  <2>1. Count(p, h) \in Nat /\ Count(q, h) = Count(p, h) + Waiting(w, h)
    BY <1>5, <1>7, <1>9, UtterCounts
  <2> QED
    BY <1>7, <2>1
<1>13. /\ DisconnectIsFollowed' /\ ReportIsLate' /\ Sampling' /\ ServerOrder' /\ Late'
  BY <1>1, <1>3, ClientTaskKeeps
<1>14. RequestFollows'
  BY <1>2, <1>3 DEF RequestFollows
<1>15. ClientOrder'
  BY <1>2, <1>3, <1>4, <1>8, <1>11 DEF ClientOrder
<1>16. LevelOfClient' = 0 /\ LevelOfServer' = 0
  BY <1>2, <1>3, <1>4 DEF LevelOfClient, LevelOfServer, Level
<1>17. Balanced'
  <2>1. PICK b : b = Count(ToClientLine, HelloOfServer)'
    OBVIOUS
  <2>2. b \in Nat
    <3>1. PICK r : r = ToClientLine'
      OBVIOUS
    <3>2. PICK m : m = HelloOfServer'
      OBVIOUS
    <3>3. Drops(ToClientLine, r, 1) /\ ToClientLine \in Lines(Words)
      BY <1>1, <3>1, ClientTaskLines, LinesType
    <3>4. Count(r, m) \in Nat
      BY <3>3, HearCounts
    <3> QED
      BY <2>1, <3>1, <3>2, <3>4
  <2>3. BalancedAt(0, 0, Count(q, h), b)
    BY <1>12, <2>2, NewGreeting
  <2> QED
    BY <1>8, <1>10, <1>16, <2>1, <2>3 DEF Balanced
<1>18. Granted'
  BY <1>16 DEF Granted
<1> QED
  BY <1>13, <1>14, <1>15, <1>17, <1>18 DEF AgreementInv

(* Disconnected resets the client and keeps it.                            *)
LEMMA ClientDisconnectAgrees ==
    ASSUME SessionInv, AgreementInv, ClientStep, C!RunDisconnected
    PROVE  AgreementInv'
<1>1. ClientTask
  BY DEF ClientTask
<1>2. /\ client'.handshake = C!Reset /\ client'.telemetry_requested = FALSE
  <2>1. client \in C!ClientStates
    BY DEF SessionInv, ClientInv, ClientState
  <2> QED
    BY <2>1 DEF C!RunDisconnected, C!TransportDisconnected, C!ClientStates
<1>3. /\ client'.handshake.remote_instance_id # server.instance_id
      /\ client'.handshake.handshake_completed = FALSE
  BY <1>2, NoInstanceIsNone, PresentHellos
<1>4. ~ClientSteady'
  <2> DEFINE s == clientStrand
             x == C!Disconnected
             G == {C!Connected}
  <2>1. /\ s \in Seq(ClientTasks) /\ s # <<>> /\ clientStrand' = Tail(s)
        /\ clientLink' = clientLink /\ Head(s) \in ClientTasks
        /\ Head(s).task = "Disconnected"
    BY <1>1, StrandTypes, ClientTaskIs DEF C!RunDisconnected, C!TakeTask
  <2>2. Head(s) = x
    BY <2>1 DEF ClientTasks, C!Connected, C!Disconnected
  <2> HIDE DEF s, x, G
  <2>3. EndsWith(s, x, G) <=> EndsWith(Tail(s), x, G) \/ (Head(s) = x /\ Free(Tail(s), G))
    BY <2>1, EndsWithTail
  <2>4. clientLink = "connected" => ~Free(Tail(s), G)
    BY <2>2, <2>3 DEF AgreementInv, DisconnectIsFollowed, s, x, G
  <2> QED
    BY <2>1, <2>4 DEF ClientSteady, G
<1>5. /\ DisconnectIsFollowed' /\ ReportIsLate' /\ Sampling' /\ ServerOrder' /\ Late'
  BY <1>1, <1>3, ClientTaskKeeps
<1>6. RequestFollows'
  BY <1>2, <1>3 DEF RequestFollows
<1>7. ClientOrder' /\ Balanced' /\ Granted'
  BY <1>4 DEF ClientOrder, Balanced, Granted
<1> QED
  BY <1>5, <1>6, <1>7 DEF AgreementInv

(* Joining two sequences of length one.                                    *)
LEMMA JoinOfTwo ==
    ASSUME NEW x, NEW y
    PROVE  <<x>> \o <<y>> = <<x, y>>
<1> DEFINE T == {x, y}
           u == <<x>> \o <<y>>
           v == <<x, y>>
<1>1. <<x>> \in Seq(T) /\ <<y>> \in Seq(T)
      /\ v \in Seq(T) /\ Len(v) = 2 /\ v[1] = x /\ v[2] = y
  OBVIOUS
<1>2. u \in Seq(T) /\ Len(u) = 2 /\ u[1] = x /\ u[2] = y
  <2> HIDE DEF T
  <2> QED
    BY <1>1, ConcatProperties
<1> HIDE DEF T, u, v
<1>3. \A i \in 1..Len(u) : u[i] = v[i]
  BY <1>1, <1>2
<1>4. u = v
  BY <1>1, <1>2, <1>3, SeqEqual
<1> QED
  BY <1>4 DEF u, v

(* What a Hello of the same version does to the client *)
LEMMA ClientGreeted ==
    ASSUME SessionInv, RequestFollows, NEW m, C!HandleHello(m), NEW w,
           w = WordsOf("SendMessage", clientEffects')
    PROVE  /\ client'.instance_id = client.instance_id
           /\ client'.handshake.remote_instance_id = m.instance_id
           /\ client'.handshake.handshake_completed
                = (client.handshake.remote_instance_id = m.instance_id)
           /\ RequestFollows'
           /\ client.handshake.remote_instance_id # m.instance_id => w = <<HelloOfClient>>
           /\ client.handshake.remote_instance_id = m.instance_id
              => IF client.handshake.handshake_completed
                 THEN w = <<>>
                 ELSE w = <<HelloOfClient, C!MakeTelemetryStart>>
<1> DEFINE h == C!RemoteHelloReceived(client.handshake, m.instance_id)
           x == C!SendMessage(HelloOfClient)
           y == C!SendMessage(C!MakeTelemetryStart)
           hello == IF h.local_hello_needed THEN <<x>> ELSE <<>>
           request == IF h.handshake_completed /\ ~client.telemetry_requested
                      THEN <<y>> ELSE <<>>
           known == client.handshake.remote_instance_id = m.instance_id
<1>1. client \in C!ClientStates /\ client.handshake \in C!HandshakeStates
  BY DEF SessionInv, ClientInv, ClientState, C!ClientStates
<1>2. /\ h.remote_instance_id = m.instance_id
      /\ h.handshake_completed = known
      /\ h.local_hello_needed = ~(known /\ client.handshake.handshake_completed)
      /\ C!LocalHelloSent(h).remote_instance_id = m.instance_id
      /\ C!LocalHelloSent(h).handshake_completed = known
  BY DEF C!RemoteHelloReceived, C!LocalHelloSent
<1>3. /\ client' = [client EXCEPT !.handshake = C!LocalHelloSent(h),
                                  !.telemetry_requested = h.handshake_completed]
      /\ clientEffects' = hello \o request
  BY DEF C!HandleHello, HelloOfClient
<1> HIDE DEF h
<1>4. /\ client'.instance_id = client.instance_id
      /\ client'.handshake = C!LocalHelloSent(h)
      /\ client'.telemetry_requested = known
  BY <1>1, <1>2, <1>3 DEF C!ClientStates
<1>5. RequestFollows'
  BY <1>2, <1>4 DEF RequestFollows
<1>6. WordOf("SendMessage", x) = HelloOfClient
      /\ WordOf("SendMessage", y) = C!MakeTelemetryStart
  BY WordsAre
<1>7. client.telemetry_requested = client.handshake.handshake_completed
  BY DEF RequestFollows
<1> HIDE DEF x, y
<1>8. ASSUME ~known PROVE w = <<HelloOfClient>>
  <2>1. clientEffects' = <<x>>
    <3>1. h.local_hello_needed /\ ~h.handshake_completed
      BY <1>2, <1>8
    <3>2. hello = <<x>> /\ request = <<>>
      BY <3>1
    <3>3. <<x>> \o <<>> = <<x>>
      OBVIOUS
    <3> QED
      BY <1>3, <3>2, <3>3
  <2> QED
    BY <1>6, <2>1, ShortWords
<1>9. ASSUME known, ~client.handshake.handshake_completed
      PROVE  w = <<HelloOfClient, C!MakeTelemetryStart>>
  <2>1. clientEffects' = <<x, y>>
    <3>1. h.local_hello_needed /\ h.handshake_completed /\ ~client.telemetry_requested
      BY <1>2, <1>7, <1>9
    <3>2. hello = <<x>> /\ request = <<y>>
      BY <3>1
    <3>3. <<x>> \o <<y>> = <<x, y>>
      BY JoinOfTwo
    <3> QED
      BY <1>3, <3>2, <3>3
  <2> QED
    BY <1>6, <2>1, ShortWords
<1>10. ASSUME known, client.handshake.handshake_completed PROVE w = <<>>
  <2>1. clientEffects' = <<>>
    <3>1. ~h.local_hello_needed /\ client.telemetry_requested
      BY <1>2, <1>7, <1>10
    <3>2. hello = <<>> /\ request = <<>>
      BY <3>1
    <3>3. <<>> \o <<>> = <<>>
      OBVIOUS
    <3> QED
      BY <1>3, <3>2, <3>3
  <2> QED
    BY <2>1, ShortWords
<1> QED
  BY <1>2, <1>4, <1>5, <1>8, <1>9, <1>10
-----------------------------------------------------------------------------
(* What the client hears *)

(* A Hello of this instance and of the common version *)
LEMMA HelloIs ==
    ASSUME SessionInv, ClientVersion = ServerVersion, NEW m \in C!Message,
           m.type = "Hello", m.protocol_version = ClientVersion
    PROVE  /\ m \in Hellos /\ m \in Greetings(m.instance_id)
           /\ \A id : m.instance_id # id => m \in Stale(id)
           /\ m.instance_id = server.instance_id <=> m = HelloOfServer
           /\ m.instance_id = client.instance_id <=> m = HelloOfClient
<1>1. m \in Hellos
  BY DEF Hellos, Words
<1>2. m \in Greetings(m.instance_id) /\ \A id : m.instance_id # id => m \in Stale(id)
  BY <1>1 DEF Greetings, Stale
<1>3. m = [type |-> "Hello", protocol_version |-> m.protocol_version,
           instance_id |-> m.instance_id]
  BY DEF C!Message, C!MessagesWith, C!HelloMessages, C!ErrorMessages,
         C!MakeWrongProtocolVersionError, C!MakeUnsupportedMessageTypeError, C!MakeError,
         C!MakeTelemetryStart, C!MakeCpuSample, C!MakeCapabilitySet, C!MakePing, C!MakePong
<1>4. /\ HelloOfClient = [type |-> "Hello", protocol_version |-> ClientVersion,
                          instance_id |-> client.instance_id]
      /\ HelloOfServer = [type |-> "Hello", protocol_version |-> ClientVersion,
                          instance_id |-> server.instance_id]
  BY DEF HelloOfClient, HelloOfServer, C!MakeHello, S!MakeHello
<1>5. HelloOfClient.instance_id = client.instance_id
      /\ HelloOfServer.instance_id = server.instance_id
  BY <1>4
<1> QED
  BY <1>1, <1>2, <1>3, <1>4, <1>5

(* A message that the client hears is the first word of its line.          *)
LEMMA ClientHearing ==
    ASSUME SessionInv, ClientStep, C!RunReceived,
           NEW m, m = Head(clientStrand).bytes
    PROVE  /\ ClientTask /\ C!MessageReceived(m)
           /\ m \in FromServer /\ m \in C!Message
           /\ Head(ToClientLine[1]) = m
           /\ ClientSteady' => ClientSteady
<1>1. ClientTask /\ C!MessageReceived(m) /\ Head(clientStrand).task = "Received"
  BY DEF ClientTask, C!RunReceived, C!TakeTask
<1>2. Head(ToClientLine[1]) = m
  BY <1>1, ClientTaskLines, WordsAre
<1>3. m \in FromServer /\ m \in C!Message
  BY <1>1, ClientTaskIs, Contents DEF FromServer
<1>4. Head(clientStrand) # C!Connected
  BY <1>1, TasksDiffer
<1>5. ClientSteady' => ClientSteady
  BY <1>1, <1>4, ClientTaskIs, ClientSteadyBefore
<1> QED
  BY <1>1, <1>2, <1>3, <1>5

(* What is no Hello leaves the client as it is.                            *)
LEMMA ClientUngreeted ==
    ASSUME SessionInv, NEW m, C!MessageReceived(m), m.type # "Hello"
    PROVE  /\ client' = client
           /\ WordsOf("SendMessage", clientEffects') \in Seq(Words)
           /\ Free(WordsOf("SendMessage", clientEffects'), Hellos)
<1> DEFINE x == C!MakeUnsupportedMessageTypeError
<1>1. /\ client' = client
      /\ clientEffects' = <<>> \/ clientEffects' = <<C!SendMessage(x)>>
  BY DEF C!MessageReceived, C!HandleForeignHello, C!HandleHello, C!HandleUnsupported,
         C!HandleError, C!HandleLogged
<1>2. x \in Words /\ x \notin Hellos
  BY DEF Words, Hellos, C!Message, C!MessagesWith, C!ErrorMessages,
         C!MakeUnsupportedMessageTypeError, C!MakeError
<1>3. WordOf("SendMessage", C!SendMessage(x)) = x
  BY WordsAre
<1>4. \/ WordsOf("SendMessage", clientEffects') = <<>>
      \/ WordsOf("SendMessage", clientEffects') = <<x>>
  BY <1>1, <1>3, ShortWords
<1> HIDE DEF x
<1>5. /\ <<>> \in Seq(Words) /\ Free(<<>>, Hellos)
      /\ <<x>> \in Seq(Words) /\ Free(<<x>>, Hellos)
  BY <1>2, ShortSpeeches
<1> QED
  BY <1>1, <1>4, <1>5

(* Whatever is no Hello settles nothing. *)
LEMMA ClientUngreetedAgrees ==
    ASSUME SessionInv, AgreementInv, ClientStep, C!RunReceived,
           Head(clientStrand).bytes.type # "Hello"
    PROVE  AgreementInv'
<1> DEFINE m == Head(clientStrand).bytes
<1>1. /\ ClientTask /\ C!MessageReceived(m)
      /\ Head(ToClientLine[1]) = m /\ m \notin Hellos
      /\ ClientSteady' => ClientSteady
  BY ClientHearing DEF Hellos
<1>2. PICK w : w = WordsOf("SendMessage", clientEffects')
  OBVIOUS
<1>3. client' = client /\ w \in Seq(Words) /\ Free(w, Hellos)
  BY <1>1, <1>2, ClientUngreeted
<1>4. PICK p, q : p = ToServerLine /\ q = ToServerLine'
  OBVIOUS
<1>5. p \in Lines(Words) /\ Utters(p, q, 4, w)
  BY <1>1, <1>2, <1>4, LinesType, ClientTaskLines
<1>6. Calm(p, q) /\ Orderly(p, q)
  BY <1>3, <1>5, UtterKeeps, CalmFacts
<1>7. ASSUME NEW n \in Hellos PROVE Count(ToClientLine', n) = Count(ToClientLine, n)
  <2>1. PICK r, s : r = ToClientLine /\ s = ToClientLine'
    OBVIOUS
  <2>2. r \in Lines(Words) /\ Drops(r, s, 1) /\ Head(r[1]) # n
    BY <1>1, <2>1, LinesType, ClientTaskLines
  <2>3. Count(r, n) = Count(s, n)
    BY <2>2, HearCounts
  <2> QED
    BY <2>1, <2>3
<1>8. /\ DisconnectIsFollowed' /\ ReportIsLate' /\ Sampling' /\ Late'
      /\ ServerNamed' => ServerNamed
      /\ ServerSteady' => ServerSteady
      /\ Orderly(ToClientLine, ToClientLine')
  BY <1>1, <1>3, ClientTaskKeeps
<1>9. Quiet
  BY <1>1, <1>3, <1>4, <1>6, <1>7, <1>8, ClientTaskIs DEF Quiet
<1> QED
  BY <1>8, <1>9, QuietStepKeeps

(* A Hello raises the client's level, with an answer, and keeps the        *)
(* invariant.                                                              *)
LEMMA ClientGreetedAgrees ==
    ASSUME SessionInv, AgreementInv, ClientVersion = ServerVersion,
           ClientStep, C!RunReceived, C!HandleHello(Head(clientStrand).bytes)
    PROVE  AgreementInv'
<1> DEFINE m == Head(clientStrand).bytes
           id == m.instance_id
           sid == server.instance_id
           cid == client.instance_id
           x == C!MakeTelemetryStart
           h == HelloOfClient
<1>1. /\ ClientTask
      /\ Head(ToClientLine[1]) = m /\ m \in C!Message
      /\ ClientSteady' => ClientSteady
  BY ClientHearing
<1>2. /\ m \in Hellos /\ m \in Greetings(id)
      /\ id # sid => m \in Stale(sid)
      /\ id = sid <=> m = HelloOfServer
  BY <1>1, HelloIs DEF C!HandleHello
<1>3. PICK w : w = WordsOf("SendMessage", clientEffects')
  OBVIOUS
<1>4. /\ client'.instance_id = cid
      /\ client'.handshake.remote_instance_id = id
      /\ client'.handshake.handshake_completed = (client.handshake.remote_instance_id = id)
      /\ RequestFollows'
      /\ client.handshake.remote_instance_id # id => w = <<h>>
      /\ client.handshake.remote_instance_id = id
         => IF client.handshake.handshake_completed THEN w = <<>> ELSE w = <<h, x>>
  <2>1. RequestFollows
    BY DEF AgreementInv
  <2> QED
    BY <1>3, <2>1, ClientGreeted
<1>5. server' = server /\ (ServerNamed' => ServerNamed) /\ (ServerSteady' => ServerSteady)
  BY <1>1, ClientTaskIs, ClientTaskKeeps
<1>6. PICK p, q : p = ToServerLine /\ q = ToServerLine'
  OBVIOUS
<1>7. PICK r, s : r = ToClientLine /\ s = ToClientLine'
  OBVIOUS
<1>8. /\ p \in Lines(Words) /\ Utters(p, q, 4, w)
      /\ r \in Lines(Words) /\ Drops(r, s, 1) /\ m = Head(r[1])
  BY <1>1, <1>3, <1>6, <1>7, LinesType, ClientTaskLines
<1>9. h \in Greetings(cid) /\ h \in Hellos /\ x \in Words \ Hellos
      /\ HelloOfServer \in Hellos
  <2>1. x \in Words
    BY DEF Words, C!Message, C!MessagesWith
  <2> QED
    BY <2>1, PresentHellos, WordFacts
<1>10. HelloOfClient' = h /\ HelloOfServer' = HelloOfServer
  BY <1>4, <1>5 DEF HelloOfClient, HelloOfServer
<1> HIDE DEF m, id, x, h
<1>11. /\ w \in Seq(Words) /\ Free(w, Stale(cid))
       /\ w = <<>> => Free(w, Hellos)
       /\ w \in {<<h>>, <<h, x>>} => Waiting(w, h) = 1
       /\ w = <<h, x>> => EndsWith(w, x, Hellos)
  <2>1. /\ <<>> \in Seq(Words) /\ Free(<<>>, Hellos) /\ Free(<<>>, Stale(cid))
        /\ <<h>> \in Seq(Words) /\ Free(<<h>>, Stale(cid)) /\ Waiting(<<h>>, h) = 1
        /\ <<h, x>> \in Seq(Words) /\ Free(<<h, x>>, Stale(cid))
        /\ Waiting(<<h, x>>, h) = 1 /\ EndsWith(<<h, x>>, x, Hellos)
    BY <1>9, OwnSpeech
  <2>2. w \in {<<>>, <<h>>, <<h, x>>}
    BY <1>4
  <2> QED
    BY <2>1, <2>2
<1>12. /\ InOrder(p, cid) => InOrder(q, cid)
       /\ NoneStale(p, cid) => NoneStale(q, cid)
       /\ w = <<>> => Calm(p, q)
       /\ w = <<h, x>> => Asks(q)
  <2>1. EndsWith(w, C!MakeTelemetryStart, Hellos) => Asks(q)
    BY <1>8, <1>11, UtterKeeps
  <2>2. Free(w, Hellos) => Calm(p, q)
    BY <1>8, <1>11, UtterKeeps
  <2>3. /\ InOrder(p, cid) => InOrder(q, cid)
        /\ NoneStale(p, cid) => NoneStale(q, cid)
    BY <1>8, <1>11, UtterKeeps
  <2> QED
    BY <1>11, <2>1, <2>2, <2>3 DEF x
<1>13. ClientOrder'
  BY <1>1, <1>4, <1>5, <1>6, <1>12 DEF ClientOrder, AgreementInv
<1>14. /\ Orderly(r, s)
       /\ id = sid /\ InOrder(r, sid) => NoneStale(s, sid)
       /\ NoneStale(r, sid) => id = sid
  BY <1>2, <1>8, HearKeeps
<1>15. ServerOrder'
  <2>1. CASE id # sid
    BY <1>1, <1>4, <2>1, ClientTaskKeeps
  <2>2. CASE id = sid
    <3>1. ServerNamed' => InOrder(r, sid)
      BY <1>5, <1>7 DEF ServerOrder, AgreementInv
    <3>2. InOrder(r, sid) => InOrder(s, sid)
      BY <1>14 DEF Orderly
    <3> QED
      BY <1>5, <1>7, <1>14, <2>2, <3>1, <3>2 DEF ServerOrder
  <2> QED
    BY <2>1, <2>2
<1>16. ASSUME ServerNamed, ~Free(serverStrand, {S!Disconnected}) PROVE id # sid
  <2> DEFINE A == {HelloOfServer}
  <2>1. Free(r[1], A) /\ r[1] \in Seq(Words) /\ r[1] # <<>>
    <3>1. 1 \in Places
      BY DEF Places
    <3> QED
      BY <1>7, <1>8, <1>16, <3>1 DEF Late, AgreementInv, Lines, Drops
  <2> HIDE DEF A
  <2>2. Head(r[1]) \notin A
    BY <2>1, FreeOfTail
  <2> QED
    BY <1>2, <1>8, <2>2 DEF A
<1>17. DisconnectIsFollowed' /\ ReportIsLate' /\ Sampling' /\ Late'
  BY <1>1, <1>4, <1>16, ClientTaskKeeps
<1>18. LevelOfServer' = LevelOfServer
  BY <1>4, <1>5 DEF LevelOfServer
<1>19. /\ id # sid => LevelOfClient' = 0
       /\ id = sid /\ LevelOfClient = 0 => LevelOfClient' = 1 /\ w = <<h>>
       /\ id = sid /\ LevelOfClient = 1 => LevelOfClient' = 2 /\ w = <<h, x>>
       /\ id = sid /\ LevelOfClient = 2 => LevelOfClient' = 2 /\ w = <<>>
       /\ LevelOfClient \in {0, 1, 2} /\ LevelOfServer \in {0, 1, 2}
  <2>1. LevelOfClient' = IF id # sid THEN 0
                         ELSE IF client.handshake.remote_instance_id = id THEN 2 ELSE 1
    BY <1>4, <1>5 DEF LevelOfClient, Level
  <2>2. /\ LevelOfClient = 0 <=> client.handshake.remote_instance_id # sid
        /\ LevelOfClient = 1 => ~client.handshake.handshake_completed
        /\ LevelOfClient = 2 => client.handshake.handshake_completed
        /\ LevelOfClient \in {0, 1, 2} /\ LevelOfServer \in {0, 1, 2}
    BY DEF LevelOfClient, LevelOfServer, Level
  <2> QED
    BY <1>4, <2>1, <2>2
<1>20. /\ Count(p, h) \in Nat /\ Waiting(w, h) \in Nat
       /\ Count(q, h) = Count(p, h) + Waiting(w, h)
       /\ w = <<>> => Count(q, h) = Count(p, h)
  <2>1. /\ Count(p, h) \in Nat /\ Waiting(w, h) \in Nat
        /\ Count(q, h) = Count(p, h) + Waiting(w, h)
    BY <1>8, <1>9, <1>11, UtterCounts
  <2>2. Calm(p, q) => Count(q, h) = Count(p, h)
    BY <1>9 DEF Calm
  <2> QED
    BY <1>12, <2>1, <2>2
<1>21. /\ Count(s, HelloOfServer) \in Nat
       /\ id # sid => Count(r, HelloOfServer) = Count(s, HelloOfServer)
       /\ id = sid => Count(r, HelloOfServer) = Count(s, HelloOfServer) + 1
  BY <1>2, <1>8, HearCounts
<1>22. ASSUME ClientSteady', ServerSteady'
       PROVE  /\ ClientSteady /\ ServerSteady
              /\ id # sid => LevelOfClient = 0
              /\ BalancedAt(LevelOfClient, LevelOfServer, Count(p, h), Count(r, HelloOfServer))
  <2>1. ClientSteady /\ ServerSteady /\ ServerNamed
    BY <1>1, <1>5, <1>22 DEF ServerSteady
  <2>2. id # sid => client.handshake.remote_instance_id # sid
    BY <1>7, <1>14, <2>1 DEF ServerOrder, AgreementInv
  <2> QED
    BY <1>6, <1>7, <2>1, <2>2 DEF LevelOfClient, Level, Balanced, AgreementInv, h
<1>23. ASSUME ClientSteady', ServerSteady'
       PROVE  BalancedAt(LevelOfClient', LevelOfServer, Count(q, h), Count(s, HelloOfServer))
  <2> DEFINE c == LevelOfClient
             n == LevelOfServer
             a == Count(p, h)
             b == Count(s, HelloOfServer)
             d == Waiting(w, h)
  <2>1. CASE id # sid
    <3>1. BalancedAt(0, n, a, b) /\ LevelOfClient' = 0 /\ Count(q, h) = a + d
      BY <1>19, <1>20, <1>21, <1>22, <1>23, <2>1
    <3>2. n \in {0, 1, 2} /\ a \in Nat /\ b \in Nat /\ d \in Nat
      BY <1>19, <1>20, <1>21
    <3> HIDE DEF n, a, b, d
    <3>3. BalancedAt(0, n, a + d, b)
      BY <3>1, <3>2, StaleGreetingArrives
    <3> QED
      BY <3>1, <3>3 DEF n, b
  <2>2. CASE id = sid
    <3>1. BalancedAt(c, n, a, b + 1)
      BY <1>21, <1>22, <1>23, <2>2
    <3>2. c \in {0, 1, 2} /\ n \in {0, 1, 2} /\ a \in Nat /\ b \in Nat
      BY <1>19, <1>20, <1>21
    <3>3. /\ c = 0 => LevelOfClient' = 1 /\ Count(q, h) = a + 1
          /\ c = 1 => LevelOfClient' = 2 /\ Count(q, h) = a + 1
          /\ c = 2 => LevelOfClient' = 2 /\ Count(q, h) = a
      BY <1>11, <1>19, <1>20, <2>2
    <3> HIDE DEF c, n, a, b
    <3>4. /\ c = 0 => BalancedAt(1, n, a + 1, b)
          /\ c = 1 => BalancedAt(2, n, a + 1, b)
          /\ c = 2 => BalancedAt(2, n, a, b)
      BY <3>1, <3>2, GreetingArrives
    <3>5. BalancedAt(LevelOfClient', n, Count(q, h), b)
      BY <3>2, <3>3, <3>4
    <3> QED
      BY <3>5 DEF n, b
  <2> QED
    BY <2>1, <2>2
<1>24. Balanced'
  BY <1>6, <1>7, <1>10, <1>18, <1>23 DEF Balanced
<1>25. Granted'
  <2>1. ASSUME ClientSteady', ServerSteady', LevelOfClient' = 2
        PROVE  (LevelOfServer = 2 /\ server.telemetry_enabled) \/ Asks(q)
    <3>1. CASE LevelOfClient = 1
      BY <1>12, <1>19, <2>1, <3>1
    <3>2. CASE LevelOfClient = 2
      <4>1. Asks(p) => Asks(q)
        BY <1>12, <1>19, <2>1, <3>2 DEF Calm
      <4> QED
        BY <1>6, <1>22, <2>1, <3>2, <4>1 DEF Granted, AgreementInv
    <3>3. LevelOfClient # 0
      BY <1>19, <2>1
    <3> QED
      BY <1>19, <3>1, <3>2, <3>3
  <2> QED
    BY <1>5, <1>6, <1>18, <2>1 DEF Granted
<1> QED
  BY <1>4, <1>13, <1>15, <1>17, <1>24, <1>25 DEF AgreementInv

(* Every message that the client hears keeps the invariant.                *)
LEMMA ClientReceiveAgrees ==
    ASSUME SessionInv, Reliable, AgreementInv, ClientStep, C!RunReceived
    PROVE  AgreementInv'
<1> DEFINE m == Head(clientStrand).bytes
<1>1. C!MessageReceived(m) /\ m \in FromServer
  BY ClientHearing
<1>2. CASE C!HandleHello(m)
  BY <1>2, ClientGreetedAgrees DEF Reliable
<1>3. CASE m.type # "Hello"
  BY <1>3, ClientUngreetedAgrees
<1>4. C!HandleHello(m) \/ m.type # "Hello"
  BY <1>1 DEF C!MessageReceived, C!HandleForeignHello, C!HandleUnsupported, C!HandleError,
              C!HandleLogged, FromServer, Reliable
<1> QED
  BY <1>2, <1>3, <1>4
-----------------------------------------------------------------------------
(* The tasks of the server *)

(* What a task of the server must do to keep Sampling.                     *)
LEMMA SamplingAfterTask ==
    ASSUME SessionInv, Sampling, ServerTask,
           server'.telemetry_enabled => server.telemetry_enabled,
           S!Pending(S!StopTelemetryTimer)' => ~server'.telemetry_enabled
    PROVE  Sampling'
<1>1. serverEffects = <<>> /\ running' = running
  BY ServerTaskIs
<1>2. ~S!Pending(S!StartTelemetryTimer)
  BY <1>1 DEF S!Pending, S!Range
<1> QED
  BY <1>1, <1>2 DEF Sampling

(* What every task of the server keeps.                                    *)
LEMMA ServerTaskKeeps ==
    ASSUME SessionInv, AgreementInv, ServerTask
    PROVE  /\ DisconnectIsFollowed' /\ ReportIsLate' /\ RequestFollows'
           /\ ClientSteady' => ClientSteady
           /\ Orderly(ToServerLine, ToServerLine')
           /\ server'.handshake.remote_instance_id # client.instance_id => ClientOrder'
           /\ Head(serverStrand) # S!Connected => (ServerNamed' => ServerNamed)
           /\ Head(serverStrand) \notin {S!Connected, S!Disconnected}
              => (ServerSteady' => ServerSteady)
           /\ server'.instance_id = server.instance_id /\ Head(serverStrand) # S!Connected
              => Late'
<1>1. /\ UNCHANGED <<client, clientStrand, clientLink, channelValid, reader, reporting>>
      /\ ~reporting
      /\ serverStrand # <<>> /\ serverStrand' = Tail(serverStrand)
  BY ServerTaskIs
<1>2. DisconnectIsFollowed' /\ ReportIsLate' /\ RequestFollows'
  BY <1>1, FollowedKept DEF ReportIsLate, RequestFollows, AgreementInv
<1>3. ClientSteady' => ClientSteady
  BY <1>1, ClientAsBefore
<1>4. Drops(ToServerLine, ToServerLine', 1) /\ ToServerLine \in Lines(Words)
  BY ServerTaskLines, LinesType
<1>5. Orderly(ToServerLine, ToServerLine')
  <2>1. PICK q : q = ToServerLine'
    OBVIOUS
  <2>2. Orderly(ToServerLine, q)
    BY <1>4, <2>1, HearKeeps
  <2> QED
    BY <2>1, <2>2
<1>6. ASSUME server'.handshake.remote_instance_id # client.instance_id
      PROVE  ClientOrder'
  <2>1. ClientSteady' => InOrder(ToServerLine', client.instance_id)
    BY <1>3, <1>5 DEF ClientOrder, AgreementInv, Orderly
  <2> QED
    BY <1>1, <1>6, <2>1 DEF ClientOrder
<1>7. ASSUME Head(serverStrand) # S!Connected PROVE ServerNamed' => ServerNamed
  <2> DEFINE s == serverStrand
             A == {S!Connected}
  <2>1. s \in Seq(ServerTasks) /\ s # <<>> /\ Head(s) \notin A
    BY <1>1, <1>7, StrandTypes
  <2> HIDE DEF s, A
  <2>2. Free(s, A) <=> Head(s) \notin A /\ Free(Tail(s), A)
    BY <2>1, FreeOfTail
  <2> QED
    BY <1>1, <2>1, <2>2 DEF ServerNamed, s, A
<1>8. ASSUME Head(serverStrand) \notin {S!Connected, S!Disconnected}
      PROVE  ServerSteady' => ServerSteady
  BY <1>1, <1>8, ServerSteadyBefore
<1>9. ASSUME server'.instance_id = server.instance_id, Head(serverStrand) # S!Connected
      PROVE  Late'
  <2>1. StrandGoesOn /\ ChannelGoesOn
    BY <1>1, ServerTaskLines DEF StrandGoesOn, ChannelGoesOn
  <2>2. ServerNamed' => ServerNamed
    BY <1>7, <1>9
  <2> QED
    BY <1>1, <1>9, <2>1, <2>2, LateKept DEF AgreementInv
<1> QED
  BY <1>2, <1>3, <1>5, <1>6, <1>7, <1>8, <1>9

(* Connected draws an id and greets: the server keeps the invariant.       *)
LEMMA ServerConnectAgrees ==
    ASSUME OrderInv, AgreementInv, ServerRunConnected
    PROVE  AgreementInv'
<1> DEFINE id == serverClock + 1
           h == S!MakeHello(ServerVersion, id)
           w == <<Silence, h>>
<1>1. SessionInv /\ ServerTask
  BY DEF OrderInv, ServerTask
<1>2. /\ server'.instance_id = id /\ server'.handshake = S!LocalHelloSent(S!Reset)
      /\ server'.telemetry_enabled = FALSE
      /\ serverEffects' = <<S!StopTelemetryTimer, S!SendMessage(h)>>
  BY DEF ServerRunConnected, S!RunConnected, S!TransportConnected
<1>3. /\ server'.handshake.remote_instance_id # client.instance_id
      /\ client' = client
  BY <1>1, <1>2, NoInstanceIsNone, PresentHellos, ServerTaskIs
<1>4. /\ LineFree(ToClientLine, Greetings(id))
      /\ client.handshake.remote_instance_id # id
      /\ id \in Nat
  BY FreshToClient
<1>5. h \in Greetings(id) /\ h \in Hellos /\ Silence \in Words \ Hellos
  BY <1>4, MadeHellos, WordFacts, AllHaveWords DEF Greetings
<1>6. WordsOf("SendMessage", serverEffects') = w
  <2>1. WordOf("SendMessage", S!StopTelemetryTimer) = Silence
        /\ WordOf("SendMessage", S!SendMessage(h)) = h
    BY WordsAre DEF S!StopTelemetryTimer
  <2> QED
    BY <1>2, <2>1, ShortWords
<1>7. w \in Seq(Words) /\ Free(w, Stale(id)) /\ Waiting(w, h) = 1
  BY <1>5, OwnSpeech
<1>8. PICK p, q : p = ToClientLine /\ q = ToClientLine'
  OBVIOUS
<1>9. p \in Lines(Words) /\ Utters(p, q, 3, w)
  BY <1>1, <1>6, <1>8, LinesType, ServerTaskLines
<1>10. HelloOfServer' = h
  BY <1>2 DEF HelloOfServer
<1> HIDE DEF id, h, w
<1>11. InOrder(q, id)
  <2>1. InOrder(p, id)
    BY <1>4, <1>8, FreshIsInOrder
  <2> QED
    BY <1>7, <1>9, <2>1, UtterKeeps
<1>12. Count(q, h) \in Nat /\ Count(q, h) >= 1
  <2>1. Count(p, h) \in Nat /\ Count(q, h) = Count(p, h) + Waiting(w, h)
    BY <1>5, <1>7, <1>9, UtterCounts
  <2> QED
    BY <1>7, <2>1
<1>13. DisconnectIsFollowed' /\ ReportIsLate' /\ RequestFollows' /\ ClientOrder'
  BY <1>1, <1>3, ServerTaskKeeps
<1>14. Sampling'
  <2>1. ~server'.telemetry_enabled
    BY <1>2
  <2> QED
    BY <2>1 DEF Sampling
<1>15. ServerOrder'
  BY <1>2, <1>3, <1>4, <1>8, <1>11 DEF ServerOrder
<1>16. LevelOfClient' = 0 /\ LevelOfServer' = 0
  BY <1>2, <1>3, <1>4 DEF LevelOfClient, LevelOfServer, Level
<1>17. Balanced'
  <2>1. PICK a : a = Count(ToServerLine, HelloOfClient)'
    OBVIOUS
  <2>2. a \in Nat
    <3>1. PICK r : r = ToServerLine'
      OBVIOUS
    <3>2. PICK m : m = HelloOfClient'
      OBVIOUS
    <3>3. Drops(ToServerLine, r, 1) /\ ToServerLine \in Lines(Words)
      BY <1>1, <3>1, ServerTaskLines, LinesType
    <3>4. Count(r, m) \in Nat
      BY <3>3, HearCounts
    <3> QED
      BY <2>1, <3>1, <3>2, <3>4
  <2>3. BalancedAt(0, 0, a, Count(q, h))
    BY <1>12, <2>2, NewGreeting
  <2> QED
    BY <1>8, <1>10, <1>16, <2>1, <2>3 DEF Balanced
<1>18. Granted'
  BY <1>16 DEF Granted
<1>19. Free(q[1], {h}) /\ Free(q[2], {h}) /\ Free(q[3], {h})
  <2>1. /\ p[1] \in Seq(Words) /\ p[2] \in Seq(Words) /\ p[3] \in Seq(Words)
        /\ Free(p[1], {h}) /\ Free(p[2], {h}) /\ Free(p[3], {h})
    <3>1. {1, 2, 3} \subseteq Places
      BY DEF Places
    <3>2. ASSUME NEW k \in {1, 2, 3} PROVE p[k] \in Seq(Words) /\ Free(p[k], {h})
      BY <1>4, <1>5, <1>8, <1>9, <3>1 DEF LineFree, Lines, Free
    <3> QED
      BY <3>2
  <2>2. q[1] = p[1] /\ q[2] = p[2] /\ q[3] = Tail(p[3]) /\ p[3] # <<>>
    BY <1>9 DEF Utters, Skips, Drops, Speaks, Same, Places
  <2> DEFINE A == {h}
  <2> HIDE DEF A
  <2>3. Free(p[3], A) => Free(Tail(p[3]), A)
    BY <2>1, <2>2, FreeOfTail
  <2> QED
    BY <2>1, <2>2, <2>3 DEF A
<1>20. Late'
  <2>1. q[3] = WordsOf("Send", serverStrand')
    BY <1>8, Stations
  <2>2. serverStrand' \in Seq(ServerTasks)
    BY <1>1, ServerTaskIs, StrandTypes, HeadAndTail
  <2>3. ASSUME NEW i \in 1..Len(serverStrand') PROVE serverStrand'[i] # S!Send(h)
    <3>1. Len(serverStrand') \in Nat
      BY <2>2, LenProperties
    <3>2. q[3][i] = WordOf("Send", serverStrand'[i]) /\ Len(q[3]) = Len(serverStrand')
      BY <2>1, <3>1 DEF WordsOf
    <3>3. q[3][i] # h
      BY <1>19, <3>2 DEF Free
    <3> QED
      BY <3>2, <3>3, WordsAre
  <2>4. Sorted(serverStrand', {S!Send(h)}, {S!Disconnected})
    BY <2>3 DEF Sorted
  <2> QED
    BY <1>2, <1>3, <1>4, <1>8, <1>10, <1>12, <1>19, <2>4 DEF Late
<1> QED
  BY <1>13, <1>14, <1>15, <1>17, <1>18, <1>20 DEF AgreementInv

(* Disconnected resets the server and keeps it.                            *)
LEMMA ServerDisconnectAgrees ==
    ASSUME SessionInv, AgreementInv, ServerStep, S!RunDisconnected
    PROVE  AgreementInv'
<1> DEFINE w == <<Silence>>
           h == HelloOfServer
<1>1. ServerTask
  BY DEF ServerTask
<1>2. /\ server'.handshake = S!Reset /\ server'.telemetry_enabled = FALSE
      /\ server'.instance_id = server.instance_id
      /\ serverEffects' = <<S!StopTelemetryTimer>>
  <2>1. server \in S!ServerStates
    BY DEF SessionInv, ServerInv, ServerState
  <2> QED
    BY <2>1 DEF S!RunDisconnected, S!TransportDisconnected, S!ServerStates
<1>3. /\ server'.handshake.remote_instance_id # client.instance_id
      /\ client' = client
  BY <1>1, <1>2, NoInstanceIsNone, PresentHellos, ServerTaskIs
<1>4. Head(serverStrand) = S!Disconnected /\ S!Disconnected # S!Connected
  <2>1. Head(serverStrand) \in ServerTasks /\ Head(serverStrand).task = "Disconnected"
    BY <1>1, ServerTaskIs DEF S!RunDisconnected, S!TakeTask
  <2>2. Head(serverStrand) = S!Disconnected
    BY <2>1, TasksDiffer DEF ServerTasks
  <2> QED
    BY <2>2, TasksDiffer
<1>5. /\ DisconnectIsFollowed' /\ ReportIsLate' /\ RequestFollows' /\ ClientOrder' /\ Late'
      /\ ServerNamed' => ServerNamed
      /\ ClientSteady' => ClientSteady
  BY <1>1, <1>2, <1>3, <1>4, ServerTaskKeeps
<1>6. Sampling'
  <2>1. ~server'.telemetry_enabled
    BY <1>2
  <2> QED
    BY <2>1 DEF Sampling
<1>7. WordsOf("SendMessage", serverEffects') = w
  <2>1. WordOf("SendMessage", S!StopTelemetryTimer) = Silence
    BY WordsAre DEF S!StopTelemetryTimer
  <2> QED
    BY <1>2, <2>1, ShortWords
<1>8. w \in Seq(Words) /\ Free(w, Hellos)
  <2>1. Silence \in Words /\ Silence \notin Hellos
    BY WordFacts, AllHaveWords
  <2> QED
    BY <2>1, ShortSpeeches
<1>9. PICK p, q : p = ToClientLine /\ q = ToClientLine'
  OBVIOUS
<1>10. p \in Lines(Words) /\ Utters(p, q, 3, w)
  BY <1>1, <1>7, <1>9, LinesType, ServerTaskLines
<1>11. HelloOfServer' = h /\ h \in Hellos
  BY <1>2, PresentHellos DEF HelloOfServer
<1> HIDE DEF w, h
<1>12. Calm(p, q)
  BY <1>8, <1>10, UtterKeeps
<1>13. ServerOrder'
  BY <1>2, <1>3, <1>5, <1>9, <1>12 DEF ServerOrder, AgreementInv, Calm, Orderly
<1>14. LevelOfServer' = 0
  BY <1>2, <1>3 DEF LevelOfServer, Level
<1>15. ASSUME ServerNamed' PROVE LevelOfClient' = 0 /\ Count(q, h) \in Nat /\ Count(q, h) >= 1
  <2>1. ~Free(serverStrand, {S!Disconnected})
    <3> DEFINE s == serverStrand
               A == {S!Disconnected}
    <3>1. s \in Seq(ServerTasks) /\ s # <<>> /\ Head(s) \in A
      BY <1>1, <1>4, StrandTypes, ServerTaskIs
    <3> HIDE DEF s, A
    <3>2. Free(s, A) <=> Head(s) \notin A /\ Free(Tail(s), A)
      BY <3>1, FreeOfTail
    <3> QED
      BY <3>1, <3>2 DEF s, A
  <2>2. client.handshake.remote_instance_id # server.instance_id /\ Count(p, h) >= 1
    BY <1>5, <1>9, <1>15, <2>1 DEF Late, AgreementInv, h
  <2>3. Count(q, h) = Count(p, h) /\ Count(p, h) \in Nat
    BY <1>10, <1>11, <1>12, CountType DEF Calm
  <2> QED
    BY <1>2, <1>3, <2>2, <2>3 DEF LevelOfClient, Level
<1>16. Balanced'
  <2>1. PICK a : a = Count(ToServerLine, HelloOfClient)'
    OBVIOUS
  <2>2. a \in Nat
    <3>1. PICK r : r = ToServerLine'
      OBVIOUS
    <3>2. PICK m : m = HelloOfClient'
      OBVIOUS
    <3>3. Drops(ToServerLine, r, 1) /\ ToServerLine \in Lines(Words)
      BY <1>1, <3>1, ServerTaskLines, LinesType
    <3>4. Count(r, m) \in Nat
      BY <3>3, HearCounts
    <3> QED
      BY <2>1, <3>1, <3>2, <3>4
  <2>3. ServerNamed' => BalancedAt(0, 0, a, Count(q, h))
    BY <1>15, <2>2, NewGreeting
  <2> QED
    BY <1>9, <1>11, <1>14, <1>15, <2>1, <2>3 DEF Balanced, ServerSteady
<1>17. Granted'
  BY <1>15 DEF Granted, ServerSteady
<1> QED
  BY <1>5, <1>6, <1>13, <1>16, <1>17 DEF AgreementInv
-----------------------------------------------------------------------------
(* What the server hears *)

(* A message that the server hears is the first word of its line.          *)
LEMMA ServerHearing ==
    ASSUME SessionInv, ServerStep, S!RunReceived,
           NEW m, m = Head(serverStrand).bytes
    PROVE  /\ ServerTask /\ S!MessageReceived(m)
           /\ m \in FromClient /\ m \in C!Message
           /\ Head(ToServerLine[1]) = m
           /\ Head(serverStrand) \notin {S!Connected, S!Disconnected}
<1>1. ServerTask /\ S!MessageReceived(m) /\ Head(serverStrand).task = "Received"
  BY DEF ServerTask, S!RunReceived, S!TakeTask
<1>2. Head(ToServerLine[1]) = m
  BY <1>1, ServerTaskLines, WordsAre
<1>3. m \in FromClient /\ m \in C!Message
  BY <1>1, ServerTaskIs, Contents DEF FromClient
<1>4. Head(serverStrand) \notin {S!Connected, S!Disconnected}
  BY <1>1, TasksDiffer
<1> QED
  BY <1>1, <1>2, <1>3, <1>4

(* A task that leaves the state as it is and says no Hello *)
LEMMA ServerUngreetedAgrees ==
    ASSUME SessionInv, AgreementInv, ServerTask, server' = server,
           Head(serverStrand) \notin {S!Connected, S!Disconnected},
           Head(ToServerLine[1]) \notin Hellos \cup {C!MakeTelemetryStart},
           Free(WordsOf("SendMessage", serverEffects'), Hellos),
           ~S!Pending(S!StopTelemetryTimer)'
    PROVE  AgreementInv'
<1>1. /\ DisconnectIsFollowed' /\ ReportIsLate' /\ Late'
      /\ ServerNamed' => ServerNamed
      /\ ServerSteady' => ServerSteady
      /\ ClientSteady' => ClientSteady
      /\ Orderly(ToServerLine, ToServerLine')
  BY ServerTaskKeeps
<1>2. Sampling'
  BY SamplingAfterTask DEF AgreementInv
<1>3. PICK w : w = WordsOf("SendMessage", serverEffects')
  OBVIOUS
<1>4. PICK p, q : p = ToClientLine /\ q = ToClientLine'
  OBVIOUS
<1>5. PICK r, s : r = ToServerLine /\ s = ToServerLine'
  OBVIOUS
<1>6. /\ p \in Lines(Words) /\ w \in Seq(Words) /\ Utters(p, q, 3, w)
      /\ r \in Lines(Words) /\ Drops(r, s, 1)
      /\ Free(w, Hellos) /\ Head(r[1]) \notin Hellos /\ Head(r[1]) # C!MakeTelemetryStart
  BY <1>3, <1>4, <1>5, LinesType, ServerTaskLines
<1>7. Calm(p, q)
  BY <1>6, UtterKeeps
<1>8. Calm(r, s)
  BY <1>6, HearKeeps
<1>9. Quiet
  BY <1>1, <1>4, <1>5, <1>7, <1>8, ServerTaskIs DEF Quiet, Calm
<1> QED
  BY <1>1, <1>2, <1>9, QuietStepKeeps

(* A sample keeps the invariant, and so do                                 *)
LEMMA ServerSampleAgrees ==
    ASSUME SessionInv, AgreementInv, ServerStep, S!RunSampleReady
    PROVE  AgreementInv'
<1>1. ServerTask
  BY DEF ServerTask
<1>2. /\ server' = server
      /\ serverEffects' = <<>> \/ serverEffects' = <<S!SendMessage(S!MakeCpuSample)>>
      /\ Head(serverStrand).task = "SampleReady"
  BY DEF S!RunSampleReady, S!CpuSampleReady, S!TakeTask
<1>3. Head(serverStrand) \notin {S!Connected, S!Disconnected}
  BY <1>2, TasksDiffer
<1>4. Head(ToServerLine[1]) \notin Hellos \cup {C!MakeTelemetryStart}
  BY <1>1, <1>2, ServerTaskLines, WordsAre, WordFacts
<1>5. Free(WordsOf("SendMessage", serverEffects'), Hellos)
  <2> DEFINE x == S!MakeCpuSample
  <2>1. x \in Words /\ x \notin Hellos
    BY DEF Words, Hellos, C!Message, C!MessagesWith, C!MakeCpuSample, S!MakeCpuSample
  <2>2. \/ WordsOf("SendMessage", serverEffects') = <<>>
        \/ WordsOf("SendMessage", serverEffects') = <<x>>
    BY <1>2, ShortWords, WordsAre
  <2> HIDE DEF x
  <2>3. Free(<<>>, Hellos) /\ Free(<<x>>, Hellos)
    BY <2>1, ShortSpeeches
  <2> QED
    BY <2>2, <2>3
<1>6. ~S!Pending(S!StopTelemetryTimer)'
  BY <1>2 DEF S!Pending, S!Range, S!SendMessage, S!StopTelemetryTimer
<1> QED
  BY <1>1, <1>2, <1>3, <1>4, <1>5, <1>6, ServerUngreetedAgrees

(* a ping, an error and what is not supported,                             *)
LEMMA ServerOtherAgrees ==
    ASSUME SessionInv, AgreementInv, ServerStep, S!RunReceived,
           NEW m, m = Head(serverStrand).bytes,
           S!HandlePing(m) \/ S!HandleUnsupported(m) \/ S!HandleError(m)
               \/ S!HandleCapabilitySet(m)
    PROVE  AgreementInv'
<1>1. /\ ServerTask /\ Head(ToServerLine[1]) = m
      /\ Head(serverStrand) \notin {S!Connected, S!Disconnected}
  BY ServerHearing
<1>2. m \notin Hellos \cup {C!MakeTelemetryStart}
  BY DEF S!HandlePing, S!HandleUnsupported, S!HandleError, S!HandleCapabilitySet, Hellos,
         C!MakeTelemetryStart
<1>3. PICK x \in {S!MakePong, S!MakeUnsupportedMessageTypeError} :
          /\ server' = server
          /\ serverEffects' = <<>> \/ serverEffects' = <<S!SendMessage(x)>>
  BY DEF S!HandlePing, S!HandleUnsupported, S!HandleError, S!HandleCapabilitySet
<1>4. Free(WordsOf("SendMessage", serverEffects'), Hellos)
  <2>1. x \in Words /\ x \notin Hellos
    BY <1>3
    DEF Words, Hellos, C!Message, C!MessagesWith, C!MakePong, S!MakePong, C!ErrorMessages,
        C!MakeUnsupportedMessageTypeError, C!MakeError,
        S!MakeUnsupportedMessageTypeError, S!MakeError
  <2>2. \/ WordsOf("SendMessage", serverEffects') = <<>>
        \/ WordsOf("SendMessage", serverEffects') = <<x>>
    BY <1>3, ShortWords, WordsAre
  <2>3. Free(<<>>, Hellos) /\ Free(<<x>>, Hellos)
    BY <2>1, ShortSpeeches
  <2> QED
    BY <2>2, <2>3
<1>5. ~S!Pending(S!StopTelemetryTimer)'
  BY <1>3 DEF S!Pending, S!Range, S!SendMessage, S!StopTelemetryTimer
<1> QED
  BY <1>1, <1>2, <1>3, <1>4, <1>5, ServerUngreetedAgrees

(* A request for telemetry: if it was the last word on the handshake, then *)
(* no greeting is on its way any more, and by the balance the server has   *)
(* all of its own.                                                         *)
LEMMA FreeLineCounts ==
    ASSUME NEW p \in Lines(Words), NEW q, Drops(p, q, 1), LineFree(q, Hellos),
           NEW m \in Hellos
    PROVE  Count(q, m) = 0
<1>1. ASSUME NEW k \in Places PROVE Waiting(q[k], m) = 0
  <2>1. 1 \in Places /\ p[k] \in Seq(Words) /\ p[1] \in Seq(Words) /\ p[1] # <<>>
    BY DEF Drops, Lines, Places
  <2>2. Tail(p[1]) \in Seq(Words)
    BY <2>1, HeadAndTail
  <2>3. q[k] \in Seq(Words)
    BY <2>1, <2>2 DEF Drops, Same
  <2>4. Free(q[k], Hellos)
    BY DEF LineFree
  <2> QED
    BY <2>3, <2>4, FreeMeansNone
<1>2. /\ Waiting(q[1], m) = 0 /\ Waiting(q[2], m) = 0 /\ Waiting(q[3], m) = 0
      /\ Waiting(q[4], m) = 0 /\ Waiting(q[5], m) = 0
  BY <1>1 DEF Places
<1> QED
  BY <1>2 DEF Count

(* a telemetry request, which starts the timer,                            *)
LEMMA ServerRequestAgrees ==
    ASSUME SessionInv, AgreementInv, ServerStep, S!RunReceived,
           S!HandleTelemetryStart(Head(serverStrand).bytes)
    PROVE  AgreementInv'
<1> DEFINE m == Head(serverStrand).bytes
           w == <<Silence>>
           h == HelloOfClient
           g == HelloOfServer
<1>1. /\ ServerTask /\ Head(ToServerLine[1]) = m /\ m \in C!Message
      /\ Head(serverStrand) \notin {S!Connected, S!Disconnected}
  BY ServerHearing
<1>2. /\ server'.handshake = server.handshake /\ server'.telemetry_enabled = TRUE
      /\ server'.instance_id = server.instance_id
      /\ serverEffects' = <<S!StartTelemetryTimer>>
      /\ m \notin Hellos
  <2>1. server \in S!ServerStates
    BY DEF SessionInv, ServerInv, ServerState
  <2> QED
    BY <2>1 DEF S!HandleTelemetryStart, S!ServerStates, Hellos
<1>3. client' = client
  BY <1>1, ServerTaskIs
<1>4. /\ DisconnectIsFollowed' /\ ReportIsLate' /\ RequestFollows' /\ Late'
      /\ ServerNamed' => ServerNamed
      /\ ServerSteady' => ServerSteady
      /\ ClientSteady' => ClientSteady
      /\ Orderly(ToServerLine, ToServerLine')
  BY <1>1, <1>2, ServerTaskKeeps
<1>5. Sampling'
  <2>1. S!Pending(S!StartTelemetryTimer)' /\ ~S!Pending(S!StopTelemetryTimer)'
    BY <1>2 DEF S!Pending, S!Range, S!StartTelemetryTimer, S!StopTelemetryTimer
  <2> QED
    BY <2>1 DEF Sampling
<1>6. WordsOf("SendMessage", serverEffects') = w
  <2>1. WordOf("SendMessage", S!StartTelemetryTimer) = Silence
    BY WordsAre DEF S!StartTelemetryTimer
  <2> QED
    BY <1>2, <2>1, ShortWords
<1>7. w \in Seq(Words) /\ Free(w, Hellos)
  <2>1. Silence \in Words /\ Silence \notin Hellos
    BY WordFacts, AllHaveWords
  <2> QED
    BY <2>1, ShortSpeeches
<1>8. PICK p, q : p = ToClientLine /\ q = ToClientLine'
  OBVIOUS
<1>9. PICK r, s : r = ToServerLine /\ s = ToServerLine'
  OBVIOUS
<1>10. /\ p \in Lines(Words) /\ Utters(p, q, 3, w)
       /\ r \in Lines(Words) /\ Drops(r, s, 1) /\ m = Head(r[1])
  BY <1>1, <1>6, <1>8, <1>9, LinesType, ServerTaskLines
<1>11. HelloOfClient' = h /\ HelloOfServer' = g /\ h \in Hellos /\ g \in Hellos
  BY <1>2, <1>3, PresentHellos DEF HelloOfClient, HelloOfServer
<1> HIDE DEF m, w, h, g
<1>12. Calm(p, q)
  BY <1>7, <1>10, UtterKeeps
<1>13. ServerOrder'
  BY <1>2, <1>3, <1>4, <1>8, <1>12 DEF ServerOrder, AgreementInv, Calm, Orderly
<1>14. ClientOrder'
  BY <1>2, <1>3, <1>4 DEF ClientOrder, AgreementInv, Orderly
<1>15. LevelOfServer' = LevelOfServer /\ LevelOfClient' = LevelOfClient
  BY <1>2, <1>3 DEF LevelOfServer, LevelOfClient
<1>16. Count(q, g) = Count(p, g)
  BY <1>11, <1>12 DEF Calm
<1>17. Count(s, h) = Count(r, h)
  <2>1. Head(r[1]) # h
    BY <1>2, <1>10, <1>11
  <2> QED
    BY <1>10, <2>1, HearCounts
<1>18. ASSUME ClientSteady', ServerSteady'
       PROVE  BalancedAt(LevelOfClient, LevelOfServer, Count(r, h), Count(p, g))
  BY <1>4, <1>8, <1>9, <1>18 DEF Balanced, AgreementInv, h, g
<1>19. Balanced'
  BY <1>8, <1>9, <1>11, <1>15, <1>16, <1>17, <1>18 DEF Balanced
<1>20. ASSUME ClientSteady', ServerSteady', LevelOfClient = 2
       PROVE  LevelOfServer = 2 \/ Asks(s)
  <2>1. LevelOfServer = 2 \/ Asks(r)
    BY <1>4, <1>9, <1>20 DEF Granted, AgreementInv
  <2>2. CASE LineFree(s, Hellos)
    <3>1. Count(r, h) = 0
      BY <1>10, <1>11, <1>17, <2>2, FreeLineCounts
    <3>2. LevelOfServer \in {0, 1, 2}
      BY LevelIs DEF LevelOfServer
    <3>3. LevelOfServer < 2 => LevelOfServer + 0 >= 2
      BY <1>18, <1>20, <3>1 DEF BalancedAt
    <3> QED
      BY <3>2, <3>3
  <2>3. Asks(r) => Asks(s) \/ LineFree(s, Hellos)
    BY <1>10, HearKeeps
  <2> QED
    BY <2>1, <2>2, <2>3
<1>21. Granted'
  BY <1>2, <1>9, <1>15, <1>20 DEF Granted
<1> QED
  BY <1>4, <1>5, <1>13, <1>14, <1>19, <1>21 DEF AgreementInv
(* What a Hello of the same version does to the server *)
LEMMA ServerGreeted ==
    ASSUME SessionInv, NEW m, S!HandleHello(m), NEW w,
           w = WordsOf("SendMessage", serverEffects')
    PROVE  /\ server'.instance_id = server.instance_id
           /\ server'.handshake.remote_instance_id = m.instance_id
           /\ server'.handshake.handshake_completed
                = (server.handshake.remote_instance_id = m.instance_id)
           /\ server'.telemetry_enabled
              <=> server.telemetry_enabled /\ server.handshake.remote_instance_id = m.instance_id
           /\ S!Pending(S!StopTelemetryTimer)' => ~server'.telemetry_enabled
           /\ server.handshake.remote_instance_id # m.instance_id
              => w = <<HelloOfServer, Silence>>
           /\ server.handshake.remote_instance_id = m.instance_id
              => IF server.handshake.handshake_completed
                 THEN w = <<>>
                 ELSE w = <<HelloOfServer>>
<1> DEFINE h == S!RemoteHelloReceived(server.handshake, m.instance_id)
           x == S!SendMessage(HelloOfServer)
           y == S!StopTelemetryTimer
           hello == IF h.local_hello_needed THEN <<x>> ELSE <<>>
           stop == IF h.handshake_completed THEN <<>> ELSE <<y>>
           known == server.handshake.remote_instance_id = m.instance_id
<1>1. server \in S!ServerStates /\ server.handshake \in S!HandshakeStates
  BY DEF SessionInv, ServerInv, ServerState, S!ServerStates
<1>2. /\ h.remote_instance_id = m.instance_id
      /\ h.handshake_completed = known
      /\ h.local_hello_needed = ~(known /\ server.handshake.handshake_completed)
      /\ S!LocalHelloSent(h).remote_instance_id = m.instance_id
      /\ S!LocalHelloSent(h).handshake_completed = known
  BY DEF S!RemoteHelloReceived, S!LocalHelloSent
<1>3. /\ server' = [server EXCEPT !.handshake = S!LocalHelloSent(h),
                                  !.telemetry_enabled = @ /\ h.handshake_completed]
      /\ serverEffects' = hello \o stop
  BY DEF S!HandleHello, HelloOfServer
<1> HIDE DEF h
<1>4. /\ server'.instance_id = server.instance_id
      /\ server'.handshake = S!LocalHelloSent(h)
      /\ server'.telemetry_enabled <=> server.telemetry_enabled /\ known
  BY <1>1, <1>2, <1>3 DEF S!ServerStates
<1>5. WordOf("SendMessage", x) = HelloOfServer /\ WordOf("SendMessage", y) = Silence
  BY WordsAre DEF S!StopTelemetryTimer
<1>6. x # y
  BY DEF S!SendMessage, S!StopTelemetryTimer
<1> HIDE DEF x, y
<1>7. ASSUME ~known PROVE w = <<HelloOfServer, Silence>>
  <2>1. serverEffects' = <<x, y>>
    <3>1. h.local_hello_needed /\ ~h.handshake_completed
      BY <1>2, <1>7
    <3>2. hello = <<x>> /\ stop = <<y>>
      BY <3>1
    <3>3. <<x>> \o <<y>> = <<x, y>>
      BY JoinOfTwo
    <3> QED
      BY <1>3, <3>2, <3>3
  <2> QED
    BY <1>5, <2>1, ShortWords
<1>8. ASSUME known, ~server.handshake.handshake_completed
      PROVE  w = <<HelloOfServer>> /\ serverEffects' = <<x>>
  <2>1. serverEffects' = <<x>>
    <3>1. h.local_hello_needed /\ h.handshake_completed
      BY <1>2, <1>8
    <3>2. hello = <<x>> /\ stop = <<>>
      BY <3>1
    <3>3. <<x>> \o <<>> = <<x>>
      OBVIOUS
    <3> QED
      BY <1>3, <3>2, <3>3
  <2> QED
    BY <1>5, <2>1, ShortWords
<1>9. ASSUME known, server.handshake.handshake_completed
      PROVE  w = <<>> /\ serverEffects' = <<>>
  <2>1. serverEffects' = <<>>
    <3>1. ~h.local_hello_needed /\ h.handshake_completed
      BY <1>2, <1>9
    <3>2. hello = <<>> /\ stop = <<>>
      BY <3>1
    <3>3. <<>> \o <<>> = <<>>
      OBVIOUS
    <3> QED
      BY <1>3, <3>2, <3>3
  <2> QED
    BY <2>1, ShortWords
<1>10. S!Pending(S!StopTelemetryTimer)' => ~known
  <2>1. known => serverEffects' = <<>> \/ serverEffects' = <<x>>
    BY <1>8, <1>9
  <2>2. S!Pending(S!StopTelemetryTimer)' <=> \E i \in DOMAIN serverEffects' : serverEffects'[i] = y
    BY DEF S!Pending, S!Range, y
  <2> QED
    BY <1>6, <2>1, <2>2
<1> QED
  BY <1>2, <1>4, <1>7, <1>8, <1>9, <1>10

(* a Hello, which raises the server's level and is answered,               *)
LEMMA ServerGreetedAgrees ==
    ASSUME SessionInv, AgreementInv, ClientVersion = ServerVersion,
           ServerStep, S!RunReceived, S!HandleHello(Head(serverStrand).bytes)
    PROVE  AgreementInv'
<1> DEFINE m == Head(serverStrand).bytes
           id == m.instance_id
           sid == server.instance_id
           cid == client.instance_id
           x == Silence
           h == HelloOfServer
           g == HelloOfClient
<1>1. /\ ServerTask
      /\ Head(ToServerLine[1]) = m /\ m \in C!Message
      /\ Head(serverStrand) \notin {S!Connected, S!Disconnected}
  BY ServerHearing
<1>2. /\ m \in Hellos /\ m \in Greetings(id)
      /\ id # cid => m \in Stale(cid)
      /\ id = cid <=> m = g
  BY <1>1, HelloIs DEF S!HandleHello
<1>3. PICK w : w = WordsOf("SendMessage", serverEffects')
  OBVIOUS
<1>4. /\ server'.instance_id = sid
      /\ server'.handshake.remote_instance_id = id
      /\ server'.handshake.handshake_completed = (server.handshake.remote_instance_id = id)
      /\ server'.telemetry_enabled
         <=> server.telemetry_enabled /\ server.handshake.remote_instance_id = id
      /\ S!Pending(S!StopTelemetryTimer)' => ~server'.telemetry_enabled
      /\ server.handshake.remote_instance_id # id => w = <<h, x>>
      /\ server.handshake.remote_instance_id = id
         => IF server.handshake.handshake_completed THEN w = <<>> ELSE w = <<h>>
  BY <1>3, ServerGreeted
<1>5. client' = client
  BY <1>1, ServerTaskIs
<1>6. PICK p, q : p = ToClientLine /\ q = ToClientLine'
  OBVIOUS
<1>7. PICK r, s : r = ToServerLine /\ s = ToServerLine'
  OBVIOUS
<1>8. /\ p \in Lines(Words) /\ Utters(p, q, 3, w)
      /\ r \in Lines(Words) /\ Drops(r, s, 1) /\ m = Head(r[1])
  BY <1>1, <1>3, <1>6, <1>7, LinesType, ServerTaskLines
<1>9. h \in Greetings(sid) /\ h \in Hellos /\ g \in Hellos
      /\ x \in Words \ Hellos
  BY PresentHellos, WordFacts, AllHaveWords
<1>10. HelloOfServer' = h /\ HelloOfClient' = g
  BY <1>4, <1>5 DEF HelloOfClient, HelloOfServer
<1>11. /\ DisconnectIsFollowed' /\ ReportIsLate' /\ RequestFollows' /\ Late'
       /\ ServerNamed' => ServerNamed
       /\ ServerSteady' => ServerSteady
       /\ ClientSteady' => ClientSteady
       /\ Orderly(r, s)
       /\ id # cid => ClientOrder'
  BY <1>1, <1>4, <1>7, ServerTaskKeeps
<1>12. m # C!MakeTelemetryStart
  BY <1>2, WordFacts
<1>13. Sampling'
  BY <1>1, <1>4, SamplingAfterTask DEF AgreementInv
<1> HIDE DEF m, id, x, h, g
<1>14. /\ w \in Seq(Words) /\ Free(w, Stale(sid))
       /\ w = <<>> => Free(w, Hellos)
       /\ w # <<>> => Waiting(w, h) = 1
  <2>1. /\ <<>> \in Seq(Words) /\ Free(<<>>, Hellos) /\ Free(<<>>, Stale(sid))
        /\ <<h>> \in Seq(Words) /\ Free(<<h>>, Stale(sid)) /\ Waiting(<<h>>, h) = 1
        /\ <<h, x>> \in Seq(Words) /\ Free(<<h, x>>, Stale(sid))
        /\ Waiting(<<h, x>>, h) = 1
    BY <1>9, OwnSpeech
  <2>2. w \in {<<>>, <<h>>, <<h, x>>}
    BY <1>4
  <2> QED
    BY <2>1, <2>2
<1>15. /\ InOrder(p, sid) => InOrder(q, sid)
       /\ NoneStale(p, sid) => NoneStale(q, sid)
       /\ w = <<>> => Calm(p, q)
  <2>1. Free(w, Hellos) => Calm(p, q)
    BY <1>8, <1>14, UtterKeeps
  <2>2. /\ InOrder(p, sid) => InOrder(q, sid)
        /\ NoneStale(p, sid) => NoneStale(q, sid)
    BY <1>8, <1>14, UtterKeeps
  <2> QED
    BY <1>14, <2>1, <2>2
<1>16. ServerOrder'
  BY <1>4, <1>5, <1>6, <1>11, <1>15 DEF ServerOrder, AgreementInv
<1>17. /\ InOrder(r, cid) /\ id = cid => NoneStale(s, cid)
       /\ NoneStale(r, cid) => id = cid
       /\ Asks(r) => Asks(s)
  BY <1>2, <1>8, <1>12, HearKeeps
<1>18. ClientOrder'
  <2>1. CASE id # cid
    BY <1>11, <2>1
  <2>2. CASE id = cid
    <3>1. ClientSteady' => InOrder(r, cid)
      BY <1>7, <1>11 DEF ClientOrder, AgreementInv
    <3>2. InOrder(r, cid) => InOrder(s, cid)
      BY <1>11 DEF Orderly
    <3> QED
      BY <1>5, <1>7, <1>17, <2>2, <3>1, <3>2 DEF ClientOrder
  <2> QED
    BY <2>1, <2>2
<1>19. LevelOfClient' = LevelOfClient
  BY <1>4, <1>5 DEF LevelOfClient
<1>20. /\ id # cid => LevelOfServer' = 0
       /\ id = cid /\ LevelOfServer = 0 => LevelOfServer' = 1 /\ w # <<>>
       /\ id = cid /\ LevelOfServer = 1 => LevelOfServer' = 2 /\ w # <<>>
       /\ id = cid /\ LevelOfServer = 2
          => LevelOfServer' = 2 /\ w = <<>> /\ server.handshake.remote_instance_id = id
       /\ LevelOfClient \in {0, 1, 2} /\ LevelOfServer \in {0, 1, 2}
  <2>1. LevelOfServer' = IF id # cid THEN 0
                         ELSE IF server.handshake.remote_instance_id = id THEN 2 ELSE 1
    BY <1>4, <1>5 DEF LevelOfServer, Level
  <2>2. /\ LevelOfServer = 0 <=> server.handshake.remote_instance_id # cid
        /\ LevelOfServer = 1 => ~server.handshake.handshake_completed
        /\ LevelOfServer = 2 => server.handshake.handshake_completed
        /\ LevelOfClient \in {0, 1, 2} /\ LevelOfServer \in {0, 1, 2}
    BY DEF LevelOfClient, LevelOfServer, Level
  <2>3. <<h>> # <<>> /\ <<h, x>> # <<>>
    OBVIOUS
  <2> QED
    BY <1>4, <2>1, <2>2, <2>3
<1>21. /\ Count(p, h) \in Nat /\ Waiting(w, h) \in Nat
       /\ Count(q, h) = Count(p, h) + Waiting(w, h)
       /\ w = <<>> => Count(q, h) = Count(p, h)
  <2>1. /\ Count(p, h) \in Nat /\ Waiting(w, h) \in Nat
        /\ Count(q, h) = Count(p, h) + Waiting(w, h)
    BY <1>8, <1>9, <1>14, UtterCounts
  <2>2. Calm(p, q) => Count(q, h) = Count(p, h)
    BY <1>9 DEF Calm
  <2> QED
    BY <1>15, <2>1, <2>2
<1>22. /\ Count(s, g) \in Nat
       /\ id # cid => Count(r, g) = Count(s, g)
       /\ id = cid => Count(r, g) = Count(s, g) + 1
  BY <1>2, <1>8, HearCounts
<1>23. ASSUME ClientSteady', ServerSteady'
       PROVE  /\ ClientSteady /\ ServerSteady
              /\ id # cid => LevelOfServer = 0
              /\ BalancedAt(LevelOfClient, LevelOfServer, Count(r, g), Count(p, h))
  <2>1. ClientSteady /\ ServerSteady
    BY <1>11, <1>23
  <2>2. id # cid => server.handshake.remote_instance_id # cid
    BY <1>7, <1>17, <2>1 DEF ClientOrder, AgreementInv
  <2> QED
    BY <1>6, <1>7, <2>1, <2>2 DEF LevelOfServer, Level, Balanced, AgreementInv, h, g
<1>24. ASSUME ClientSteady', ServerSteady'
       PROVE  BalancedAt(LevelOfServer', LevelOfClient, Count(q, h), Count(s, g))
  <2> DEFINE c == LevelOfServer
             n == LevelOfClient
             a == Count(p, h)
             b == Count(s, g)
             d == Waiting(w, h)
  <2>1. CASE id # cid
    <3>1. BalancedAt(n, 0, b, a) /\ LevelOfServer' = 0 /\ Count(q, h) = a + d
      BY <1>20, <1>21, <1>22, <1>23, <1>24, <2>1
    <3>2. n \in {0, 1, 2} /\ a \in Nat /\ b \in Nat /\ d \in Nat
      BY <1>20, <1>21, <1>22
    <3> HIDE DEF n, a, b, d
    <3>3. BalancedAt(0, n, a, b)
      BY <3>1, <3>2, BalanceIsMutual
    <3>4. BalancedAt(0, n, a + d, b)
      BY <3>2, <3>3, StaleGreetingArrives
    <3> QED
      BY <3>1, <3>4 DEF n, b
  <2>2. CASE id = cid
    <3>1. BalancedAt(n, c, b + 1, a)
      BY <1>22, <1>23, <1>24, <2>2
    <3>2. c \in {0, 1, 2} /\ n \in {0, 1, 2} /\ a \in Nat /\ b \in Nat
      BY <1>20, <1>21, <1>22
    <3>3. /\ c = 0 => LevelOfServer' = 1 /\ Count(q, h) = a + 1
          /\ c = 1 => LevelOfServer' = 2 /\ Count(q, h) = a + 1
          /\ c = 2 => LevelOfServer' = 2 /\ Count(q, h) = a
      BY <1>14, <1>20, <1>21, <2>2
    <3> HIDE DEF c, n, a, b
    <3>4. BalancedAt(c, n, a, b + 1)
      <4>1. b + 1 \in Nat
        BY <3>2
      <4> QED
        BY <3>1, <3>2, <4>1, BalanceIsMutual
    <3>5. /\ c = 0 => BalancedAt(1, n, a + 1, b)
          /\ c = 1 => BalancedAt(2, n, a + 1, b)
          /\ c = 2 => BalancedAt(2, n, a, b)
      BY <3>2, <3>4, GreetingArrives
    <3>6. BalancedAt(LevelOfServer', n, Count(q, h), b)
      BY <3>2, <3>3, <3>5
    <3> QED
      BY <3>6 DEF n, b
  <2> QED
    BY <2>1, <2>2
<1>25. ASSUME ClientSteady', ServerSteady'
       PROVE  BalancedAt(LevelOfClient, LevelOfServer', Count(s, g), Count(q, h))
  <2> DEFINE e == LevelOfServer'
             n == LevelOfClient
             a == Count(q, h)
             b == Count(s, g)
  <2>1. e \in {0, 1, 2} /\ n \in {0, 1, 2} /\ b \in Nat /\ a \in Nat
    BY <1>20, <1>21, <1>22
  <2>2. BalancedAt(e, n, a, b)
    BY <1>24, <1>25
  <2> HIDE DEF e, n, a, b
  <2>3. BalancedAt(n, e, b, a)
    BY <2>1, <2>2, BalanceIsMutual
  <2> QED
    BY <2>3 DEF e, n, a, b
<1>26. Balanced'
  BY <1>6, <1>7, <1>10, <1>19, <1>25 DEF Balanced, h, g
<1>27. Granted'
  <2>1. ASSUME ClientSteady', ServerSteady', LevelOfClient = 2
        PROVE  (LevelOfServer' = 2 /\ server'.telemetry_enabled) \/ Asks(s)
    <3>1. (LevelOfServer = 2 /\ server.telemetry_enabled) \/ Asks(r)
      BY <1>7, <1>23, <2>1 DEF Granted, AgreementInv
    <3>2. LevelOfServer = 2 => id = cid
      BY <1>23, <2>1
    <3> QED
      BY <1>4, <1>17, <1>20, <3>1, <3>2
  <2> QED
    BY <1>7, <1>19, <2>1 DEF Granted
<1> QED
  BY <1>11, <1>13, <1>16, <1>18, <1>26, <1>27 DEF AgreementInv

(* and therefore every message that the server hears.                      *)
LEMMA ServerReceiveAgrees ==
    ASSUME SessionInv, Reliable, AgreementInv, ServerStep, S!RunReceived
    PROVE  AgreementInv'
<1> DEFINE m == Head(serverStrand).bytes
<1>1. S!MessageReceived(m) /\ m \in FromClient
  BY ServerHearing
<1>2. CASE S!HandleHello(m)
  BY <1>2, ServerGreetedAgrees DEF Reliable
<1>3. CASE S!HandleTelemetryStart(m)
  BY <1>3, ServerRequestAgrees
<1>4. CASE S!HandlePing(m) \/ S!HandleUnsupported(m) \/ S!HandleError(m)
           \/ S!HandleCapabilitySet(m)
  BY <1>4, ServerOtherAgrees
<1>5. ~S!HandleForeignHello(m)
  BY <1>1 DEF S!HandleForeignHello, FromClient, Reliable
<1> QED
  BY <1>1, <1>2, <1>3, <1>4, <1>5 DEF S!MessageReceived
-----------------------------------------------------------------------------
(* The invariant holds throughout. *)

(* No side is steady to begin with.                                        *)
LEMMA AgreementInitially == Init => AgreementInv
<1> SUFFICES ASSUME Init PROVE AgreementInv
  OBVIOUS
<1>1. /\ client = C!InitialClient /\ clientEffects = <<>> /\ clientStrand = <<>>
      /\ clientLink = "closed"
      /\ server = S!InitialServer /\ serverEffects = <<>> /\ serverStrand = <<>>
      /\ channelValid = FALSE /\ reporting = FALSE
  BY DEF Init, C!ControllerInit, C!Init, S!Init, SL!LinkInit
<1>2. ~ClientSteady /\ ~ServerNamed /\ ~ServerSteady
  BY <1>1 DEF ClientSteady, ServerNamed, ServerSteady
<1>3. DisconnectIsFollowed /\ ReportIsLate
  BY <1>1 DEF DisconnectIsFollowed, ReportIsLate
<1>4. RequestFollows
  BY <1>1, NoInstanceIsNone DEF RequestFollows
<1>5. ClientOrder /\ ServerOrder /\ Late /\ Balanced /\ Granted
  BY <1>2 DEF ClientOrder, ServerOrder, Late, Balanced, Granted
<1>6. Sampling
  <2>1. ~server.telemetry_enabled
    BY <1>1, NoInstanceIsNone
  <2> QED
    BY <2>1 DEF Sampling
<1> QED
  BY <1>3, <1>4, <1>5, <1>6 DEF AgreementInv

(* Nothing happens.                                                        *)
LEMMA AgreementStutters ==
    ASSUME AgreementInv, UNCHANGED vars
    PROVE  AgreementInv'
<1>1. /\ UNCHANGED <<client, clientEffects, clientStrand, clientLink, toServer, toClient>>
      /\ UNCHANGED <<server, serverEffects, serverStrand, running, channelValid, reader,
                     inHand, reporting>>
  BY DEF vars, clientProcess, controlOfServer, linkOfServer, wires
<1>2. /\ ToServerLine' = ToServerLine /\ ToClientLine' = ToClientLine
      /\ HelloOfClient' = HelloOfClient /\ HelloOfServer' = HelloOfServer
      /\ LevelOfClient' = LevelOfClient /\ LevelOfServer' = LevelOfServer
      /\ ClientSteady' = ClientSteady /\ ServerNamed' = ServerNamed
      /\ ServerSteady' = ServerSteady
  BY <1>1 DEF ToServerLine, ToClientLine, HelloOfClient, HelloOfServer, LevelOfClient,
              LevelOfServer, ClientSteady, ServerNamed, ServerSteady
<1>3. DisconnectIsFollowed' /\ ReportIsLate' /\ RequestFollows'
  BY <1>1 DEF AgreementInv, DisconnectIsFollowed, ReportIsLate, RequestFollows
<1>4. ClientOrder' /\ ServerOrder' /\ Balanced' /\ Granted'
  BY <1>1, <1>2 DEF AgreementInv, ClientOrder, ServerOrder, Balanced, Granted
<1>5. Late'
  BY <1>1, <1>2 DEF AgreementInv, Late
<1>6. Sampling'
  BY <1>1 DEF AgreementInv, Sampling, S!Pending, S!Range
<1> QED
  BY <1>3, <1>4, <1>5, <1>6 DEF AgreementInv

(* Every step of the session keeps the invariant.                          *)
LEMMA AgreementStep ==
    ASSUME Reliable, OrderInv, AgreementInv, [Next]_vars
    PROVE  AgreementInv'
<1>1. SessionInv /\ SessionInv'
  BY SessionInvStep DEF OrderInv
<1>2. CASE ClientOpen \/ ClientRegister \/ ClientNotify \/ ClientDisconnect \/ ClientReceive
  BY <1>1, <1>2, ClientHostAgrees
<1>3. CASE ClientWorker
  <2>1. CASE ClientRunConnected
    BY <2>1, ClientConnectAgrees
  <2>2. CASE ClientStep /\ C!RunDisconnected
    BY <1>1, <2>2, ClientDisconnectAgrees
  <2>3. CASE ClientStep /\ C!RunReceived
    BY <1>1, <2>3, ClientReceiveAgrees
  <2>4. CASE ClientQuietWork
    BY <1>1, <2>4, ClientWorkAgrees
  <2>5. ClientStep => C!RunDisconnected \/ C!RunReceived \/ C!HandleSendMessage \/ C!HandleStopPing
    BY DEF ClientStep
  <2> QED
    BY <1>3, <2>1, <2>2, <2>3, <2>4, <2>5 DEF ClientWorker, ClientQuietWork
<1>4. CASE ServerOpenChannel \/ ServerReader \/ ServerReadFails
  <2>1. ~ServerReadsSeveral
    BY DEF ServerReadsSeveral, Reliable
  <2>2. ReaderStep
    BY <1>4, <2>1 DEF ServerReader, ReaderStep
  <2> QED
    BY <1>1, <2>2, ReaderAgrees
<1>5. CASE ServerWorker \/ ServerSendFails \/ TimerFires
  <2>1. CASE ServerRunConnected
    BY <2>1, ServerConnectAgrees
  <2>2. CASE ServerStep /\ S!RunDisconnected
    BY <1>1, <2>2, ServerDisconnectAgrees
  <2>3. CASE ServerStep /\ S!RunReceived
    BY <1>1, <2>3, ServerReceiveAgrees
  <2>4. CASE ServerStep /\ S!RunSampleReady
    BY <1>1, <2>4, ServerSampleAgrees
  <2>5. CASE ServerQuietWork
    BY <1>1, <2>5, ServerWorkAgrees
  <2>6. ServerStep => \/ S!RunDisconnected \/ S!RunReceived \/ S!RunSampleReady
                      \/ S!HandleSendMessage \/ S!HandleStartTelemetryTimer
                      \/ S!HandleStopTelemetryTimer
    BY DEF ServerStep, S!HandleStartTelemetryTimerThrows, S!StartThrows, Reliable
  <2>7. \/ ServerRunConnected \/ ServerStep
        \/ ServerSend \/ ServerSendFindsClosed \/ ServerWorkerReports
        \/ ServerSendFails \/ TimerFires
    BY <1>5 DEF ServerWorker
  <2> QED
    BY <2>1, <2>2, <2>3, <2>4, <2>5, <2>6, <2>7 DEF ServerQuietWork, EffectStep
<1>6. CASE DropToClient \/ DropToServer
  BY <1>1, <1>6, DropAgrees
<1>7. CASE ClientCrash
  BY <1>1, <1>7, ClientCrashAgrees
<1>8. CASE ServerCrash
  BY <1>1, <1>8, ServerCrashAgrees
<1>9. CASE UNCHANGED vars
  BY <1>9, AgreementStutters
<1> QED
  BY <1>2, <1>3, <1>4, <1>5, <1>6, <1>7, <1>8, <1>9 DEF Next, Faults

-----------------------------------------------------------------------------
(* What the invariant says of two sides that have fallen silent *)

(* Samples are no words on the handshake. *)
LEMMA SilentWords ==
    ASSUME NEW kind \in {"Received", "Send", "SendMessage"}, NEW A,
           A = Hellos \cup {C!MakeTelemetryStart},
           NEW s,
           \A i \in DOMAIN s : \/ kind # "SendMessage" /\ AboutSample(s[i])
                               \/ kind = "SendMessage" /\ s[i] = S!SendMessage(C!MakeCpuSample),
           NEW T, s \in Seq(T)
    PROVE  Free(WordsOf(kind, s), A)
<1>1. C!MakeCpuSample \notin A /\ Silence \notin A
  BY WordFacts DEF Hellos, C!MakeCpuSample, C!MakeTelemetryStart
<1>2. Len(s) \in Nat /\ DOMAIN s = 1..Len(s)
  BY LenProperties
<1>3. ASSUME NEW i \in 1..Len(s) PROVE WordOf(kind, s[i]) \in {C!MakeCpuSample, Silence}
  BY <1>2, <1>3
  DEF AboutSample, WordOf, S!SampleReady, S!Send, C!Received, S!SendMessage
<1>4. Len(WordsOf(kind, s)) = Len(s)
      /\ \A i \in 1..Len(s) : WordsOf(kind, s)[i] = WordOf(kind, s[i])
  BY <1>2 DEF WordsOf
<1> QED
  BY <1>1, <1>3, <1>4 DEF Free

(* In a silence both lines are free of Hellos and requests.                *)
LEMMA SilentLines ==
    ASSUME SessionInv, Settled
    PROVE  /\ LineFree(ToServerLine, Hellos \cup {C!MakeTelemetryStart})
           /\ LineFree(ToClientLine, Hellos \cup {C!MakeTelemetryStart})
<1> DEFINE A == Hellos \cup {C!MakeTelemetryStart}
<1>1. /\ serverStrand \in Seq(ServerTasks) /\ clientStrand \in Seq(ClientTasks)
      /\ serverEffects \in Seq(ServerEffects) /\ clientEffects \in Seq(ClientEffects)
      /\ toClient \in Seq(FromServer)
  BY DEF SessionInv, ServerInv, ServerState, ClientInv, ClientState, WireInv
<1>2. /\ reader # "deliver" /\ toServer = <<>> /\ clientEffects = <<>>
      /\ \A i \in DOMAIN clientStrand : AboutSample(clientStrand[i])
      /\ \A i \in DOMAIN serverStrand : AboutSample(serverStrand[i])
      /\ \A i \in DOMAIN serverEffects : serverEffects[i] = S!SendMessage(C!MakeCpuSample)
      /\ \A i \in DOMAIN toClient : toClient[i] = C!MakeCpuSample
  BY DEF Settled, Up
<1> HIDE DEF A
<1>3. /\ Free(WordsOf("Received", serverStrand), A) /\ Free(WordsOf("Send", serverStrand), A)
      /\ Free(WordsOf("Received", clientStrand), A) /\ Free(WordsOf("Send", clientStrand), A)
      /\ Free(WordsOf("SendMessage", serverEffects), A)
  BY <1>1, <1>2, SilentWords DEF A
<1>4. Free(<<>>, A)
  BY EmptyFacts
<1>5. Free(toClient, A)
  <2>1. DOMAIN toClient = 1..Len(toClient)
    BY <1>1, LenProperties
  <2>2. C!MakeCpuSample \notin A
    BY DEF A, Hellos, C!MakeCpuSample, C!MakeTelemetryStart
  <2> QED
    BY <1>2, <2>1, <2>2 DEF Free
<1>6. WordsOf("SendMessage", clientEffects) = <<>>
  BY <1>2, ShortWords
<1>7. ASSUME NEW k \in Places PROVE Free(ToServerLine[k], A) /\ Free(ToClientLine[k], A)
  <2>1. k = 1 \/ k = 2 \/ k = 3 \/ k = 4 \/ k = 5
    BY DEF Places
  <2> QED
    BY <1>2, <1>3, <1>4, <1>5, <1>6, <2>1, Stations
<1> QED
  BY <1>7 DEF LineFree, A

(* Such a line counts no Hello and asks for nothing.                       *)
LEMMA FreeLines ==
    ASSUME NEW p \in Lines(Words), LineFree(p, Hellos \cup {C!MakeTelemetryStart})
    PROVE  ~Asks(p) /\ \A m \in Hellos : Count(p, m) = 0
<1> DEFINE A == Hellos \cup {C!MakeTelemetryStart}
<1>1. ~Asks(p)
  BY DEF Asks, LineEndsWith, LineFree, EndsWith, Free
<1>2. ASSUME NEW m \in Hellos PROVE Count(p, m) = 0
  <2>1. ASSUME NEW k \in Places PROVE Waiting(p[k], m) = 0
    <3>1. p[k] \in Seq(Words) /\ Free(p[k], A) /\ m \in A
      BY DEF Lines, LineFree
    <3> HIDE DEF A
    <3> QED
      BY <3>1, FreeMeansNone
  <2>2. /\ Waiting(p[1], m) = 0 /\ Waiting(p[2], m) = 0 /\ Waiting(p[3], m) = 0
        /\ Waiting(p[4], m) = 0 /\ Waiting(p[5], m) = 0
    BY <2>1 DEF Places
  <2> QED
    BY <2>2 DEF Count
<1> QED
  BY <1>1, <1>2

(* Without a Hello on its way the balance leaves full levels only.         *)
LEMMA SilenceAgrees ==
    ASSUME SessionInv, AgreementInv, Settled
    PROVE  Agreed
<1>1. ClientSteady /\ ServerSteady
  <2>1. DOMAIN clientStrand = 1..Len(clientStrand) /\ DOMAIN serverStrand = 1..Len(serverStrand)
    BY StrandTypes, LenProperties
  <2>2. \A t : AboutSample(t) => t # C!Connected /\ t # S!Connected /\ t # S!Disconnected
    BY DEF AboutSample, S!SampleReady, S!Send, C!Received, C!Connected, S!Connected,
           S!Disconnected
  <2> QED
    BY <2>1, <2>2 DEF Settled, Up, ClientSteady, ServerSteady, ServerNamed, Free
<1>2. PICK p, r : p = ToServerLine /\ r = ToClientLine
  OBVIOUS
<1>3. /\ ~Asks(p) /\ Count(p, HelloOfClient) = 0 /\ Count(r, HelloOfServer) = 0
  BY <1>2, SilentLines, LinesType, FreeLines, PresentHellos
<1>4. LevelOfClient = 2 /\ LevelOfServer = 2
  <2>1. LevelOfClient \in {0, 1, 2} /\ LevelOfServer \in {0, 1, 2}
    BY LevelIs DEF LevelOfClient, LevelOfServer
  <2>2. BalancedAt(LevelOfClient, LevelOfServer, 0, 0)
    BY <1>1, <1>2, <1>3 DEF AgreementInv, Balanced
  <2> QED
    BY <2>1, <2>2 DEF BalancedAt
<1>5. server.telemetry_enabled
  BY <1>1, <1>2, <1>3, <1>4 DEF AgreementInv, Granted
<1>6. running
  <2>1. ~S!Pending(S!StartTelemetryTimer)
    BY DEF Settled, S!Pending, S!Range, S!SendMessage, S!StartTelemetryTimer
  <2> QED
    BY <1>5, <2>1 DEF AgreementInv, Sampling
<1>7. /\ client.handshake.remote_instance_id = server.instance_id
      /\ client.handshake.handshake_completed
      /\ server.handshake.remote_instance_id = client.instance_id
      /\ server.handshake.handshake_completed
  BY <1>4 DEF LevelOfClient, LevelOfServer, Level
<1>8. client.telemetry_requested
  BY <1>7 DEF AgreementInv, RequestFollows
<1> QED
  BY <1>5, <1>6, <1>7, <1>8 DEF Agreed

(* Whenever the two sides fall silent with the channel up they have        *)
(* agreed, whatever opens, closes, crashes and losses came before, and for *)
(* any number of them: no Hello, no answer and no telemetry request that   *)
(* the exchange still needs is ever lost with a former connection.         *)
THEOREM SessionSilenceMeansAgreement == Spec => []SilenceMeansAgreement
<1>1. CASE Reliable
  <2>1. Init => OrderInv /\ AgreementInv
    BY OrderInitially, AgreementInitially
  <2>2. OrderInv /\ AgreementInv /\ [Next]_vars => OrderInv' /\ AgreementInv'
    BY <1>1, OrderStep, AgreementStep
  <2>3. OrderInv /\ AgreementInv => SilenceMeansAgreement
    BY SilenceAgrees DEF OrderInv, SilenceMeansAgreement
  <2> QED
    BY <2>1, <2>2, <2>3, PTL DEF Spec
<1>2. CASE ~Reliable
  <2>1. SilenceMeansAgreement
    BY <1>2 DEF SilenceMeansAgreement, Reliable
  <2> QED
    BY <2>1, PTL
<1> QED
  BY <1>1, <1>2

-----------------------------------------------------------------------------
(* What the invariant says of two sides that have heard of the present     *)
(* connection, be they silent or not                                       *)

(* Only the task or effect that a word was taken from carries it. *)
LEMMA CarrierIs ==
    ASSUME NEW m, m # Silence
    PROVE  /\ \A x \in ClientTasks \cup ServerTasks :
                  /\ WordOf("Received", x) = m => x = C!Received(m)
                  /\ WordOf("Send", x) = m => x = C!Send(m)
           /\ \A x \in ClientEffects \cup ServerEffects :
                  WordOf("SendMessage", x) = m => x = C!SendMessage(m)
<1>1. ASSUME NEW x \in ClientTasks \cup ServerTasks
      PROVE  /\ WordOf("Received", x) = m => x = C!Received(m)
             /\ WordOf("Send", x) = m => x = C!Send(m)
  <2>1. CASE x \in {C!Connected, C!Disconnected, S!Connected, S!Disconnected, S!SampleReady}
    <3>1. x.task # "Received" /\ x.task # "Send"
      BY <2>1 DEF C!Connected, C!Disconnected, S!Connected, S!Disconnected, S!SampleReady
    <3> QED
      BY <3>1 DEF WordOf
  <2>2. ASSUME NEW M, x \in [task : {"Received"}, bytes : M]
        PROVE  /\ x = [task |-> "Received", bytes |-> x.bytes]
               /\ x.task = "Received"
    BY <2>2
  <2>3. ASSUME NEW M, x \in [task : {"Send"}, bytes : M]
        PROVE  /\ x = [task |-> "Send", bytes |-> x.bytes]
               /\ x.task = "Send"
    BY <2>3
  <2>4. \/ x \in {C!Connected, C!Disconnected, S!Connected, S!Disconnected, S!SampleReady}
        \/ \E M : x \in [task : {"Received"}, bytes : M]
        \/ \E M : x \in [task : {"Send"}, bytes : M]
    BY DEF ClientTasks, ServerTasks
  <2> QED
    BY <2>1, <2>2, <2>3, <2>4 DEF WordOf, C!Received, C!Send
<1>2. ASSUME NEW x \in ClientEffects \cup ServerEffects, WordOf("SendMessage", x) = m
      PROVE  x = C!SendMessage(m)
  <2>1. x.effect = "SendMessage" /\ x.message = m
    BY <1>2 DEF WordOf
  <2>2. x \notin {C!StopPing, S!StartTelemetryTimer, S!StopTelemetryTimer}
    BY <2>1 DEF C!StopPing, S!StartTelemetryTimer, S!StopTelemetryTimer
  <2>3. PICK M : x \in [effect : {"SendMessage"}, message : M]
    BY <1>2, <2>2 DEF ClientEffects, ServerEffects
  <2>4. x = [effect |-> "SendMessage", message |-> x.message]
    BY <2>3
  <2> QED
    BY <2>1, <2>4 DEF C!SendMessage
<1> QED
  BY <1>1, <1>2

(* A station has a word only of a task or an effect that waits there. *)
LEMMA StationWithout ==
    ASSUME NEW kind, NEW T, NEW s \in Seq(T), NEW m,
           \A i \in DOMAIN s : WordOf(kind, s[i]) # m
    PROVE  Free(WordsOf(kind, s), {m})
<1>1. Len(s) \in Nat /\ DOMAIN s = 1..Len(s)
  BY LenProperties
<1>2. Len(WordsOf(kind, s)) = Len(s)
      /\ \A i \in 1..Len(s) : WordsOf(kind, s)[i] = WordOf(kind, s[i])
  BY <1>1 DEF WordsOf
<1> QED
  BY <1>1, <1>2 DEF Free

(* A message that is not on its way is in no station of the line. *)
LEMMA NotOnItsWay ==
    ASSUME SessionInv, NEW m, m # Silence
    PROVE  /\ ~OnItsWayToServer(m) => LineFree(ToServerLine, {m})
           /\ ~OnItsWayToClient(m) => LineFree(ToClientLine, {m})
<1>1. /\ clientStrand \in Seq(ClientTasks) /\ clientEffects \in Seq(ClientEffects)
      /\ serverStrand \in Seq(ServerTasks) /\ serverEffects \in Seq(ServerEffects)
      /\ toServer \in Seq(FromClient) /\ toClient \in Seq(FromServer)
  BY StrandTypes
<1>2. /\ DOMAIN toServer = 1..Len(toServer) /\ DOMAIN toClient = 1..Len(toClient)
      /\ \A i \in DOMAIN clientStrand : clientStrand[i] \in ClientTasks
      /\ \A i \in DOMAIN serverStrand : serverStrand[i] \in ServerTasks
      /\ \A i \in DOMAIN clientEffects : clientEffects[i] \in ClientEffects
      /\ \A i \in DOMAIN serverEffects : serverEffects[i] \in ServerEffects
  BY <1>1, LenProperties, ElementOfSeq
<1>3. /\ S!Received(m) = C!Received(m) /\ S!Send(m) = C!Send(m)
      /\ S!SendMessage(m) = C!SendMessage(m)
  BY DEF S!Received, C!Received, S!Send, C!Send, S!SendMessage, C!SendMessage
<1>4. Free(<<>>, {m}) /\ (inHand # m => Free(<<inHand>>, {m}))
  BY EmptyFacts DEF Free
<1>5. ASSUME ~OnItsWayToServer(m), NEW k \in Places PROVE Free(ToServerLine[k], {m})
  <2>1. /\ \A i \in DOMAIN serverStrand : WordOf("Received", serverStrand[i]) # m
        /\ \A i \in DOMAIN clientStrand : WordOf("Send", clientStrand[i]) # m
        /\ \A i \in DOMAIN clientEffects : WordOf("SendMessage", clientEffects[i]) # m
    BY <1>2, <1>3, <1>5, CarrierIs DEF OnItsWayToServer
  <2>2. /\ Free(WordsOf("Received", serverStrand), {m})
        /\ Free(WordsOf("Send", clientStrand), {m})
        /\ Free(WordsOf("SendMessage", clientEffects), {m})
    BY <1>1, <2>1, StationWithout
  <2>3. Free(toServer, {m}) /\ (reader = "deliver" => inHand # m)
    BY <1>2, <1>5 DEF OnItsWayToServer, Free
  <2>4. k = 1 \/ k = 2 \/ k = 3 \/ k = 4 \/ k = 5
    BY DEF Places
  <2> QED
    BY <1>4, <2>2, <2>3, <2>4, Stations
<1>6. ASSUME ~OnItsWayToClient(m), NEW k \in Places PROVE Free(ToClientLine[k], {m})
  <2>1. /\ \A i \in DOMAIN clientStrand : WordOf("Received", clientStrand[i]) # m
        /\ \A i \in DOMAIN serverStrand : WordOf("Send", serverStrand[i]) # m
        /\ \A i \in DOMAIN serverEffects : WordOf("SendMessage", serverEffects[i]) # m
    BY <1>2, <1>3, <1>6, CarrierIs DEF OnItsWayToClient
  <2>2. /\ Free(WordsOf("Received", clientStrand), {m})
        /\ Free(WordsOf("Send", serverStrand), {m})
        /\ Free(WordsOf("SendMessage", serverEffects), {m})
    BY <1>1, <2>1, StationWithout
  <2>3. Free(toClient, {m})
    BY <1>2, <1>6 DEF OnItsWayToClient, Free
  <2>4. k = 1 \/ k = 2 \/ k = 3 \/ k = 4 \/ k = 5
    BY DEF Places
  <2> QED
    BY <1>4, <2>2, <2>3, <2>4, Stations
<1> QED
  BY <1>5, <1>6 DEF LineFree

(* A line without a message counts none of it; one without the request     *)
(* does not ask.                                                           *)
LEMMA LineWithout ==
    ASSUME NEW p \in Lines(Words), NEW m, LineFree(p, {m})
    PROVE  Count(p, m) = 0 /\ (m = C!MakeTelemetryStart => ~Asks(p))
<1>1. ASSUME NEW k \in Places PROVE Waiting(p[k], m) = 0
  <2>1. p[k] \in Seq(Words) /\ Free(p[k], {m}) /\ m \in {m}
    BY DEF Lines, LineFree
  <2> QED
    BY <2>1, FreeMeansNone
<1>2. Count(p, m) = 0
  <2>1. /\ Waiting(p[1], m) = 0 /\ Waiting(p[2], m) = 0 /\ Waiting(p[3], m) = 0
        /\ Waiting(p[4], m) = 0 /\ Waiting(p[5], m) = 0
    BY <1>1 DEF Places
  <2> QED
    BY <2>1 DEF Count
<1>3. m = C!MakeTelemetryStart => ~Asks(p)
  BY DEF Asks, LineEndsWith, LineFree, EndsWith, Free
<1> QED
  BY <1>2, <1>3

(* Two sides that have heard of the present connection are steady. *)
LEMMA AnnouncedIsSteady ==
    ASSUME SessionInv, Announced
    PROVE  ClientSteady /\ ServerSteady
<1>1. DOMAIN clientStrand = 1..Len(clientStrand) /\ DOMAIN serverStrand = 1..Len(serverStrand)
  BY StrandTypes, LenProperties
<1> QED
  BY <1>1 DEF Announced, ClientSteady, ServerSteady, ServerNamed, Free

(* Steady sides that are not both completed count a present Hello.         *)
LEMMA NobodyStalls ==
    ASSUME SessionInv, AgreementInv
    PROVE  NeverStalls
<1> SUFFICES ASSUME Announced
             PROVE  /\ \/ /\ client.handshake.handshake_completed
                          /\ server.handshake.handshake_completed
                          /\ client.handshake.remote_instance_id = server.instance_id
                          /\ server.handshake.remote_instance_id = client.instance_id
                       \/ OnItsWayToServer(HelloOfClient)
                       \/ OnItsWayToClient(HelloOfServer)
                    /\ client.telemetry_requested
                       /\ client.handshake.remote_instance_id = server.instance_id
                       => server.telemetry_enabled
                          \/ OnItsWayToServer(C!MakeTelemetryStart)
  BY DEF NeverStalls, HelloOfClient, HelloOfServer
<1>1. ClientSteady /\ ServerSteady
  BY AnnouncedIsSteady
<1>2. PICK p, r : p = ToServerLine /\ r = ToClientLine
  OBVIOUS
<1>3. p \in Lines(Words) /\ r \in Lines(Words)
  BY <1>2, LinesType
<1>4. ASSUME client.telemetry_requested,
             client.handshake.remote_instance_id = server.instance_id
      PROVE  server.telemetry_enabled \/ OnItsWayToServer(C!MakeTelemetryStart)
  <2>1. client.handshake.handshake_completed
    BY <1>4 DEF AgreementInv, RequestFollows
  <2>2. LevelOfClient = 2
    BY <1>4, <2>1 DEF LevelOfClient, Level
  <2>3. server.telemetry_enabled \/ Asks(p)
    BY <1>1, <1>2, <2>2 DEF AgreementInv, Granted
  <2> QED
    BY <1>2, <1>3, <2>3, WordFacts, NotOnItsWay, LineWithout
<1>5. CASE LevelOfClient = 2 /\ LevelOfServer = 2
  <2>1. /\ client.handshake.remote_instance_id = server.instance_id
        /\ client.handshake.handshake_completed
    BY <1>5 DEF LevelOfClient, Level
  <2>2. /\ server.handshake.remote_instance_id = client.instance_id
        /\ server.handshake.handshake_completed
    BY <1>5 DEF LevelOfServer, Level
  <2> QED
    BY <1>4, <2>1, <2>2
<1>6. CASE ~(LevelOfClient = 2 /\ LevelOfServer = 2)
  <2>1. LevelOfClient \in {0, 1, 2} /\ LevelOfServer \in {0, 1, 2}
    BY LevelIs DEF LevelOfClient, LevelOfServer
  <2>2. BalancedAt(LevelOfClient, LevelOfServer,
                   Count(p, HelloOfClient), Count(r, HelloOfServer))
    BY <1>1, <1>2 DEF AgreementInv, Balanced
  <2>3. ~(Count(p, HelloOfClient) = 0 /\ Count(r, HelloOfServer) = 0)
    BY <1>6, <2>1, <2>2 DEF BalancedAt
  <2>4. HelloOfClient # Silence /\ HelloOfServer # Silence
    BY PresentHellos, WordFacts
  <2>5. /\ ~OnItsWayToServer(HelloOfClient) => Count(p, HelloOfClient) = 0
        /\ ~OnItsWayToClient(HelloOfServer) => Count(r, HelloOfServer) = 0
    BY <1>2, <1>3, <2>4, NotOnItsWay, LineWithout
  <2> QED
    BY <1>4, <2>3, <2>5
<1> QED
  BY <1>5, <1>6

(* As long as both sides have heard of the present connection, one of them *)
(* is about to hear a present Hello or they have completed their           *)
(* handshakes with each other, and a client that has asked is served or    *)
(* its request is on its way: RemoteHelloReceived never lets both answers  *)
(* be skipped, and no TelemetryStart is overtaken by a Hello that revokes  *)
(* it.                                                                     *)
THEOREM SessionNeverStalls == Spec => []NeverStalls
<1>1. CASE Reliable
  <2>1. Init => OrderInv /\ AgreementInv
    BY OrderInitially, AgreementInitially
  <2>2. OrderInv /\ AgreementInv /\ [Next]_vars => OrderInv' /\ AgreementInv'
    BY <1>1, OrderStep, AgreementStep
  <2>3. OrderInv /\ AgreementInv => NeverStalls
    BY NobodyStalls DEF OrderInv
  <2> QED
    BY <2>1, <2>2, <2>3, PTL DEF Spec
<1>2. CASE ~Reliable
  <2>1. NeverStalls
    BY <1>2 DEF NeverStalls, Reliable
  <2> QED
    BY <2>1, PTL
<1> QED
  BY <1>1, <1>2

(* A client and a server who fall silent are sampling: a timer is armed,   *)
(* and it will bring the next sample.                                      *)
THEOREM SessionSilenceMeansSampling ==
    Spec => [](Settled /\ Reliable => Agreed /\ armed > 0)
<1>1. /\ SilenceMeansAgreement /\ S!EnabledMeansSampling
      => (Settled /\ Reliable => Agreed /\ armed > 0)
  <2> SUFFICES ASSUME SilenceMeansAgreement, S!EnabledMeansSampling, Settled, Reliable
               PROVE  Agreed /\ armed > 0
    OBVIOUS
  <2>1. Agreed /\ server.telemetry_enabled
    BY DEF SilenceMeansAgreement, Reliable, Agreed
  <2>2. ~S!Pending(S!StartTelemetryTimer)
    BY DEF Settled, S!Pending, S!Range, S!SendMessage, S!StartTelemetryTimer
  <2> QED
    BY <2>1, <2>2 DEF S!EnabledMeansSampling, Reliable
<1> QED
  BY <1>1, SessionSilenceMeansAgreement, SessionSampling, PTL
-----------------------------------------------------------------------------
(* How many words of a line are in a set *)

HowMany(s, A) == Cardinality({i \in 1..Len(s) : s[i] \in A})
Tally(p, A) == HowMany(p[1], A) + HowMany(p[2], A) + HowMany(p[3], A)
                 + HowMany(p[4], A) + HowMany(p[5], A)

(* It is a natural number, and none of nothing.                            *)
LEMMA HowManyType ==
    ASSUME NEW T, NEW s \in Seq(T), NEW A
    PROVE  /\ HowMany(s, A) \in Nat
           /\ IsFiniteSet({i \in 1..Len(s) : s[i] \in A})
           /\ Free(s, A) => HowMany(s, A) = 0
           /\ HowMany(<<>>, A) = 0
<1> DEFINE I == {i \in 1..Len(s) : s[i] \in A}
<1>1. IsFiniteSet(I)
  <2>1. IsFiniteSet(1..Len(s))
    BY LenProperties, FS_Interval
  <2>2. I \in SUBSET (1..Len(s))
    OBVIOUS
  <2> QED
    BY <2>1, <2>2, FS_Subset
<1>2. Free(s, A) => I = {}
  BY DEF Free
<1>3. {i \in 1..Len(<<>>) : <<>>[i] \in A} = {}
  OBVIOUS
<1> QED
  BY <1>1, <1>2, <1>3, FS_CardinalityType, FS_EmptySet DEF HowMany

(* One more element                                                        *)
LEMMA HowManyAppend ==
    ASSUME NEW T, NEW s \in Seq(T), NEW y \in T, NEW A
    PROVE  HowMany(Append(s, y), A) = HowMany(s, A) + (IF y \in A THEN 1 ELSE 0)
<1> DEFINE t == Append(s, y)
           I == {i \in 1..Len(s) : s[i] \in A}
           J == {i \in 1..Len(t) : t[i] \in A}
<1>1. /\ t \in Seq(T) /\ Len(s) \in Nat /\ Len(t) = Len(s) + 1 /\ t[Len(s) + 1] = y
      /\ \A i \in 1..Len(s) : t[i] = s[i]
  BY AppendIs
<1>2. IsFiniteSet(I) /\ HowMany(s, A) = Cardinality(I) /\ Cardinality(I) \in Nat
  BY HowManyType DEF HowMany
<1>3. HowMany(t, A) = Cardinality(J)
  BY DEF HowMany
<1> HIDE DEF t
<1> DEFINE n == Len(s) + 1
<1>4. CASE y \in A
  <2>1. J = I \cup {n} /\ n \notin I
    BY <1>1, <1>4
  <2> HIDE DEF I, J, n
  <2>2. Cardinality(J) = Cardinality(I) + 1
    BY <1>2, <2>1, FS_AddElement
  <2> QED
    BY <1>2, <1>3, <1>4, <2>2 DEF t
<1>5. CASE y \notin A
  <2>1. J = I
    BY <1>1, <1>5
  <2> HIDE DEF I, J
  <2> QED
    BY <1>2, <1>3, <1>5, <2>1 DEF t
<1> QED
  BY <1>4, <1>5

(* The elements behind the first n are at most those there are.            *)
LEMMA HowManyBehind ==
    ASSUME NEW T, NEW s \in Seq(T), NEW t \in Seq(T), NEW n \in Nat, NEW A,
           Len(s) = Len(t) + n, \A i \in 1..Len(t) : t[i] = s[i + n]
    PROVE  /\ HowMany(t, A) <= HowMany(s, A)
           /\ n = 1 => HowMany(s, A) = HowMany(t, A) + (IF s[1] \in A THEN 1 ELSE 0)
<1> DEFINE I == {i \in 1..Len(t) : t[i] \in A}
           J == {i \in 1..Len(s) : s[i] \in A}
           K == {j \in J : n < j}
           f == [i \in I |-> i + n]
<1>0. Len(s) \in Nat /\ Len(t) \in Nat
  BY LenProperties
<1>1. IsFiniteSet(I) /\ HowMany(t, A) = Cardinality(I) /\ Cardinality(I) \in Nat
  BY HowManyType DEF HowMany
<1>2. IsFiniteSet(J) /\ HowMany(s, A) = Cardinality(J) /\ Cardinality(J) \in Nat
  BY HowManyType DEF HowMany
<1>3. f \in [I -> K]
  <2>1. ASSUME NEW i \in I PROVE i + n \in K
    BY <1>0
  <2> QED
    BY <2>1
<1>4. \A i, j \in I : f[i] = f[j] => i = j
  BY <1>0
<1>5. ASSUME NEW k \in K PROVE \E i \in I : f[i] = k
  <2>1. k - n \in I /\ f[k - n] = k
    BY <1>0
  <2> QED
    BY <2>1
<1>6. Cardinality(K) = Cardinality(I) /\ IsFiniteSet(K)
  <2>1. f \in Bijection(I, K)
    <3> HIDE DEF f, I, K
    <3> QED
      BY <1>3, <1>4, <1>5 DEF Bijection, Injection, Surjection, IsInjective
  <2> HIDE DEF f, I, K
  <2> QED
    BY <1>1, <2>1, FS_Bijection DEF ExistsBijection
<1>7. K \subseteq J
  OBVIOUS
<1>8. Cardinality(K) <= Cardinality(J)
  <2> HIDE DEF K, J
  <2> QED
    BY <1>2, <1>7, FS_Subset
<1>9. ASSUME n = 1
      PROVE  Cardinality(J) = Cardinality(K) + (IF s[1] \in A THEN 1 ELSE 0)
  <2>1. K = J \ {1}
    BY <1>0, <1>9
  <2>2. 1 \in J <=> s[1] \in A
    BY <1>0, <1>9
  <2> HIDE DEF K, J
  <2>3. Cardinality(J \ {1}) = IF 1 \in J THEN Cardinality(J) - 1 ELSE Cardinality(J)
    BY <1>2, FS_RemoveElement
  <2> QED
    BY <1>2, <2>1, <2>2, <2>3
<1> HIDE DEF I, J, K
<1> QED
  BY <1>1, <1>2, <1>6, <1>8, <1>9

(* One element less                                                        *)
LEMMA HowManyTail ==
    ASSUME NEW T, NEW s \in Seq(T), s # <<>>, NEW A
    PROVE  HowMany(s, A) = HowMany(Tail(s), A) + (IF Head(s) \in A THEN 1 ELSE 0)
<1>1. /\ Tail(s) \in Seq(T) /\ Len(s) = Len(Tail(s)) + 1 /\ Head(s) = s[1]
      /\ \A i \in 1..Len(Tail(s)) : Tail(s)[i] = s[i + 1]
  BY TailIs
<1>2. PICK t : t = Tail(s)
  OBVIOUS
<1>3. /\ t \in Seq(T) /\ Len(s) = Len(t) + 1 /\ 1 \in Nat
      /\ \A i \in 1..Len(t) : t[i] = s[i + 1]
  BY <1>1, <1>2
<1>4. HowMany(s, A) = HowMany(t, A) + (IF s[1] \in A THEN 1 ELSE 0)
  BY <1>3, HowManyBehind
<1> QED
  BY <1>1, <1>2, <1>4

(* A line of which one station changes                                     *)
LEMMA TallyChanges ==
    ASSUME NEW p, NEW q, NEW A, NEW k \in Places,
           \A l \in Places : HowMany(p[l], A) \in Nat,
           HowMany(q[k], A) \in Nat,
           \A l \in Places : l = k \/ q[l] = p[l]
    PROVE  /\ Tally(p, A) \in Nat /\ Tally(q, A) \in Nat
           /\ Tally(q, A) + HowMany(p[k], A) = Tally(p, A) + HowMany(q[k], A)
<1> DEFINE P(l) == HowMany(p[l], A)
           Q(l) == HowMany(q[l], A)
<1>1. Places = {1, 2, 3, 4, 5}
  BY DEF Places
<1>2. P(1) \in Nat /\ P(2) \in Nat /\ P(3) \in Nat /\ P(4) \in Nat /\ P(5) \in Nat
  BY <1>1
<1>3. Q(k) \in Nat /\ \A l \in Places : l = k \/ Q(l) = P(l)
  OBVIOUS
<1>4. /\ k = 1 \/ Q(1) = P(1)
      /\ k = 2 \/ Q(2) = P(2)
      /\ k = 3 \/ Q(3) = P(3)
      /\ k = 4 \/ Q(4) = P(4)
      /\ k = 5 \/ Q(5) = P(5)
  BY <1>1, <1>3
<1>5. /\ Tally(p, A) = P(1) + P(2) + P(3) + P(4) + P(5)
      /\ Tally(q, A) = Q(1) + Q(2) + Q(3) + Q(4) + Q(5)
  BY DEF Tally
<1> HIDE DEF P, Q
<1>6. /\ P(1) + P(2) + P(3) + P(4) + P(5) \in Nat
      /\ Q(1) + Q(2) + Q(3) + Q(4) + Q(5) \in Nat
      /\ Q(1) + Q(2) + Q(3) + Q(4) + Q(5) + P(k) = P(1) + P(2) + P(3) + P(4) + P(5) + Q(k)
  <2>1. CASE k = 1
    <3>1. Q(1) \in Nat /\ Q(2) = P(2) /\ Q(3) = P(3) /\ Q(4) = P(4) /\ Q(5) = P(5)
      BY <1>3, <1>4, <2>1
    <3> QED
      BY <1>2, <2>1, <3>1
  <2>2. CASE k = 2
    <3>1. Q(2) \in Nat /\ Q(1) = P(1) /\ Q(3) = P(3) /\ Q(4) = P(4) /\ Q(5) = P(5)
      BY <1>3, <1>4, <2>2
    <3> QED
      BY <1>2, <2>2, <3>1
  <2>3. CASE k = 3
    <3>1. Q(3) \in Nat /\ Q(1) = P(1) /\ Q(2) = P(2) /\ Q(4) = P(4) /\ Q(5) = P(5)
      BY <1>3, <1>4, <2>3
    <3> QED
      BY <1>2, <2>3, <3>1
  <2>4. CASE k = 4
    <3>1. Q(4) \in Nat /\ Q(1) = P(1) /\ Q(2) = P(2) /\ Q(3) = P(3) /\ Q(5) = P(5)
      BY <1>3, <1>4, <2>4
    <3> QED
      BY <1>2, <2>4, <3>1
  <2>5. CASE k = 5
    <3>1. Q(5) \in Nat /\ Q(1) = P(1) /\ Q(2) = P(2) /\ Q(3) = P(3) /\ Q(4) = P(4)
      BY <1>3, <1>4, <2>5
    <3> QED
      BY <1>2, <2>5, <3>1
  <2> QED
    BY <1>1, <2>1, <2>2, <2>3, <2>4, <2>5
<1> QED
  BY <1>5, <1>6 DEF P, Q

(* Of each station there are so many.                                      *)
LEMMA StationsType ==
    ASSUME NEW W, NEW p \in Lines(W), NEW A
    PROVE  \A l \in Places : p[l] \in Seq(W) /\ HowMany(p[l], A) \in Nat
BY HowManyType DEF Lines

(* A word that is lost or heard                                            *)
LEMMA DropTally ==
    ASSUME NEW W, NEW p \in Lines(W), NEW q, NEW k \in Places, Drops(p, q, k), NEW A
    PROVE  /\ Tally(p, A) \in Nat /\ Tally(q, A) \in Nat
           /\ Tally(p, A) = Tally(q, A) + (IF Head(p[k]) \in A THEN 1 ELSE 0)
<1>1. p[k] \in Seq(W) /\ p[k] # <<>> /\ q[k] = Tail(p[k]) /\ Same(p, q, {k})
  BY DEF Lines, Drops
<1>2. HowMany(p[k], A) = HowMany(q[k], A) + (IF Head(p[k]) \in A THEN 1 ELSE 0)
  BY <1>1, HowManyTail
<1>3. q[k] \in Seq(W)
  BY <1>1, TailIs
<1>4. /\ HowMany(q[k], A) \in Nat
      /\ \A l \in Places : HowMany(p[l], A) \in Nat
      /\ \A l \in Places : l = k \/ q[l] = p[l]
  BY <1>1, <1>3, StationsType, HowManyType DEF Same
<1>5. /\ Tally(p, A) \in Nat /\ Tally(q, A) \in Nat
      /\ Tally(q, A) + HowMany(p[k], A) = Tally(p, A) + HowMany(q[k], A)
  BY <1>4, TallyChanges
<1> QED
  BY <1>2, <1>4, <1>5

(* A word that is passed on                                                *)
LEMMA PassTally ==
    ASSUME NEW W, NEW p \in Lines(W), NEW q, NEW k \in 2..5, Passes(p, q, k), NEW A
    PROVE  Tally(q, A) = Tally(p, A)
<1> DEFINE h == Head(p[k])
           r == [p EXCEPT ![k] = Tail(p[k])]
           d == IF h \in A THEN 1 ELSE 0
<1>1. k \in Places /\ k - 1 \in Places /\ k # k - 1
  BY DEF Places
<1>2. p[k] \in Seq(W) /\ p[k] # <<>> /\ p[k - 1] \in Seq(W)
  BY <1>1 DEF Lines, Passes
<1>3. Tail(p[k]) \in Seq(W) /\ h \in W
  BY <1>2, TailIs
<1>4. r \in Lines(W) /\ Drops(p, r, k)
  BY <1>1, <1>2, <1>3 DEF Lines, Drops, Same
<1>5. r[k - 1] = p[k - 1] /\ q[k - 1] = Append(r[k - 1], h) /\ Same(r, q, {k - 1})
  BY <1>1, <1>4 DEF Lines, Passes, Same
<1> HIDE DEF r, h
<1>6. Tally(p, A) \in Nat /\ Tally(r, A) \in Nat /\ Tally(p, A) = Tally(r, A) + d
  BY <1>1, <1>4, DropTally DEF h
<1>7. r[k - 1] \in Seq(W) /\ q[k - 1] \in Seq(W)
      /\ HowMany(q[k - 1], A) = HowMany(r[k - 1], A) + d
  BY <1>2, <1>3, <1>5, HowManyAppend, AppendIs
<1>8. PICK l : l = k - 1
  OBVIOUS
<1>9. /\ l \in Places /\ HowMany(q[l], A) \in Nat
      /\ \A j \in Places : HowMany(r[j], A) \in Nat
      /\ \A j \in Places : j = l \/ q[j] = r[j]
  BY <1>1, <1>4, <1>5, <1>7, <1>8, StationsType, HowManyType DEF Same
<1>10. /\ Tally(q, A) \in Nat
       /\ Tally(q, A) + HowMany(r[l], A) = Tally(r, A) + HowMany(q[l], A)
  BY <1>9, TallyChanges
<1>11. d \in Nat
  OBVIOUS
<1> HIDE DEF d
<1> QED
  BY <1>6, <1>7, <1>8, <1>9, <1>10, <1>11

(* What is carried, and the silence that is added or taken away            *)
LEMMA CarryTally ==
    ASSUME NEW W, NEW p \in Lines(W), NEW q, Carries(p, q), Silence \in W,
           NEW A, Silence \notin A
    PROVE  Tally(q, A) = Tally(p, A)
<1>1. ASSUME NEW k \in 2..5, Passes(p, q, k) PROVE Tally(q, A) = Tally(p, A)
  BY <1>1, PassTally
<1>2. ASSUME NEW k \in Places, Skips(p, q, k) PROVE Tally(q, A) = Tally(p, A)
  <2>1. Drops(p, q, k) /\ Head(p[k]) \notin A
    BY <1>2 DEF Skips
  <2>2. Tally(q, A) \in Nat /\ Tally(p, A) = Tally(q, A) + 0
    BY <2>1, DropTally
  <2> QED
    BY <2>2
<1>3. ASSUME NEW k \in Places, Pauses(p, q, k) PROVE Tally(q, A) = Tally(p, A)
  <2>1. p[k] \in Seq(W) /\ q[k] = Append(p[k], Silence) /\ Same(p, q, {k})
    BY <1>3 DEF Lines, Pauses
  <2>2. q[k] \in Seq(W) /\ HowMany(q[k], A) = HowMany(p[k], A) + 0
    BY <2>1, HowManyAppend, AppendIs
  <2>3. /\ HowMany(q[k], A) \in Nat
        /\ \A l \in Places : HowMany(p[l], A) \in Nat
        /\ \A l \in Places : l = k \/ q[l] = p[l]
    BY <2>1, <2>2, StationsType, HowManyType DEF Same
  <2>4. /\ Tally(p, A) \in Nat /\ Tally(q, A) \in Nat
        /\ Tally(q, A) + HowMany(p[k], A) = Tally(p, A) + HowMany(q[k], A)
    BY <1>3, <2>3, TallyChanges
  <2> QED
    BY <2>2, <2>3, <2>4
<1> QED
  BY <1>1, <1>2, <1>3 DEF Carries

(* What is lost                                                            *)
LEMMA ThinTally ==
    ASSUME NEW W, NEW p \in Lines(W), NEW q, Thins(p, q), NEW A
    PROVE  Tally(q, A) \in 0..Tally(p, A) /\ Tally(p, A) \in Nat
<1> DEFINE P(l) == HowMany(p[l], A)
           Q(l) == HowMany(q[l], A)
<1>1. ASSUME NEW k \in Places PROVE P(k) \in Nat /\ Q(k) \in Nat /\ Q(k) <= P(k)
  <2>1. p[k] \in Seq(W) /\ HowMany(p[k], A) \in Nat
    BY HowManyType DEF Lines
  <2>2. CASE q[k] = p[k]
    BY <2>1, <2>2
  <2>3. CASE q[k] = <<>>
    <3>1. HowMany(q[k], A) = 0
      BY <2>1, <2>3, HowManyType
    <3> QED
      BY <2>1, <3>1
  <2>4. CASE p[k] # <<>> /\ q[k] = Tail(p[k])
    <3>1. HowMany(q[k], A) \in Nat
      BY <2>1, <2>4, TailIs, HowManyType
    <3>2. HowMany(p[k], A) = HowMany(q[k], A) + (IF Head(p[k]) \in A THEN 1 ELSE 0)
      BY <2>1, <2>4, HowManyTail
    <3> QED
      BY <2>1, <3>1, <3>2
  <2> QED
    BY <2>2, <2>3, <2>4 DEF Thins
<1>2. /\ Tally(p, A) = P(1) + P(2) + P(3) + P(4) + P(5)
      /\ Tally(q, A) = Q(1) + Q(2) + Q(3) + Q(4) + Q(5)
  BY DEF Tally
<1>3. 1 \in Places /\ 2 \in Places /\ 3 \in Places /\ 4 \in Places /\ 5 \in Places
  BY DEF Places
<1> HIDE DEF P, Q
<1> QED
  BY <1>1, <1>2, <1>3

(* What is uttered                                                         *)
LEMMA UtterTally ==
    ASSUME NEW p \in Lines(Words), NEW q, NEW k \in {3, 4}, NEW w \in Seq(Words),
           Utters(p, q, k, w), NEW A, Silence \notin A
    PROVE  /\ Tally(p, A) \in Nat /\ HowMany(w, A) \in Nat
           /\ Tally(q, A) = Tally(p, A) + HowMany(w, A)
<1>1. PICK r \in Lines(Words) : Skips(p, r, k) /\ Speaks(r, q, k + 1, w)
  BY DEF Utters
<1>2. k \in Places /\ k + 1 \in Places
  BY DEF Places
<1>3. Tally(p, A) \in Nat /\ Tally(r, A) = Tally(p, A)
  <2>1. Drops(p, r, k) /\ Head(p[k]) \notin A
    BY <1>1 DEF Skips
  <2>2. Tally(p, A) \in Nat /\ Tally(r, A) \in Nat /\ Tally(p, A) = Tally(r, A) + 0
    BY <1>2, <2>1, DropTally
  <2> QED
    BY <2>2
<1>4. r[k + 1] = <<>> /\ q[k + 1] = w /\ Same(r, q, {k + 1})
  BY <1>1, <1>2 DEF Speaks, Places
<1>5. HowMany(r[k + 1], A) = 0
  BY <1>4, HowManyType
<1>6. PICK l : l = k + 1
  OBVIOUS
<1>7. /\ l \in Places /\ HowMany(q[l], A) \in Nat /\ HowMany(w, A) \in Nat
      /\ \A j \in Places : HowMany(r[j], A) \in Nat
      /\ \A j \in Places : j = l \/ q[j] = r[j]
  BY <1>2, <1>4, <1>6, StationsType, HowManyType DEF Same
<1>8. /\ Tally(q, A) \in Nat
      /\ Tally(q, A) + HowMany(r[l], A) = Tally(r, A) + HowMany(q[l], A)
  BY <1>7, TallyChanges
<1> QED
  BY <1>3, <1>4, <1>5, <1>6, <1>7, <1>8
-----------------------------------------------------------------------------
(* The measure of the exchange, on the two lines *)

(* The Hellos of the two definitions are the same.                         *)
LEMMA HelloSets ==
    /\ AnyHello = Hellos /\ Silence \notin Hellos
    /\ \A id : FormerHello(id) \subseteq Hellos /\ Silence \notin FormerHello(id)
    /\ FormerHello(0) = Hellos
    /\ \A id \in Nat \ {0} : FormerHello(id) = Stale(id)
<1>1. ASSUME NEW m PROVE m \in AnyHello <=> m \in Hellos
  <2>1. m \in C!HelloMessages(C!InstanceId) => m.type = "Hello"
    BY DEF C!HelloMessages
  <2>2. \/ m \in C!ErrorMessages
        \/ m \in {C!MakeTelemetryStart, C!MakeCpuSample, C!MakeCapabilitySet, C!MakePing,
                  C!MakePong}
        \/ m = Silence
        => m.type # "Hello"
    BY DEF C!ErrorMessages, C!MakeWrongProtocolVersionError, C!MakeError,
           C!MakeUnsupportedMessageTypeError, C!MakeTelemetryStart, C!MakeCpuSample,
           C!MakeCapabilitySet, C!MakePing, C!MakePong, Silence
  <2>3. m \in Words
        <=> \/ m \in C!HelloMessages(C!InstanceId)
            \/ m \in C!ErrorMessages
            \/ m \in {C!MakeTelemetryStart, C!MakeCpuSample, C!MakeCapabilitySet, C!MakePing,
                      C!MakePong}
            \/ m = Silence
    BY DEF Words, C!Message, C!MessagesWith
  <2> QED
    BY <2>1, <2>2, <2>3 DEF AnyHello, Hellos
<1>2. AnyHello = Hellos /\ Silence \notin Hellos
  <2>1. Silence.type # "Hello"
    BY DEF Silence
  <2>2. \A m : m \in AnyHello <=> m \in Hellos
    BY <1>1
  <2> QED
    BY <2>1, <2>2 DEF Hellos
<1>3. C!ZeroInstance = 0
  BY DEF C!ZeroInstance
<1> QED
  BY <1>2, <1>3 DEF FormerHello, Stale

(* Where a station holds no silence, its words are its messages.           *)
LEMMA CarryingIs ==
    ASSUME NEW T, NEW s \in Seq(T), NEW M, Silence \notin M
    PROVE  /\ \A kind \in {"Received", "Send"} :
                  Carrying(s, kind, M) = HowMany(WordsOf(kind, s), M)
           /\ Saying(s, M) = HowMany(WordsOf("SendMessage", s), M)
           /\ Holding(s, M) = HowMany(s, M)
<1>1. Len(s) \in Nat /\ DOMAIN s = 1..Len(s)
  BY LenProperties
<1>2. \A kind : Len(WordsOf(kind, s)) = Len(s)
                /\ \A i \in 1..Len(s) : WordsOf(kind, s)[i] = WordOf(kind, s[i])
  BY <1>1 DEF WordsOf
<1>3. ASSUME NEW kind \in {"Received", "Send"}
      PROVE  Carrying(s, kind, M) = HowMany(WordsOf(kind, s), M)
  <2>1. \A i \in 1..Len(s) :
            WordOf(kind, s[i]) \in M <=> s[i].task = kind /\ s[i].bytes \in M
    BY DEF WordOf
  <2>2. {i \in DOMAIN s : s[i].task = kind /\ s[i].bytes \in M}
          = {i \in 1..Len(WordsOf(kind, s)) : WordsOf(kind, s)[i] \in M}
    BY <1>1, <1>2, <2>1
  <2> QED
    BY <2>2 DEF Carrying, HowMany
<1>4. Saying(s, M) = HowMany(WordsOf("SendMessage", s), M)
  <2> DEFINE kind == "SendMessage"
  <2>1. \A i \in 1..Len(s) :
            WordOf(kind, s[i]) \in M <=> s[i].effect = kind /\ s[i].message \in M
    BY DEF WordOf
  <2>2. {i \in DOMAIN s : s[i].effect = kind /\ s[i].message \in M}
          = {i \in 1..Len(WordsOf(kind, s)) : WordsOf(kind, s)[i] \in M}
    BY <1>1, <1>2, <2>1
  <2> QED
    BY <2>2 DEF Saying, HowMany
<1>5. Holding(s, M) = HowMany(s, M)
  BY <1>1 DEF Holding, HowMany
<1> QED
  BY <1>3, <1>4, <1>5

(* One word, or none                                                       *)
LEMMA HowManyOne ==
    ASSUME NEW x, NEW A
    PROVE  /\ HowMany(<<>>, A) = 0
           /\ HowMany(<<x>>, A) = (IF x \in A THEN 1 ELSE 0)
<1>1. HowMany(<<>>, A) = 0
  <2>1. {i \in 1..Len(<<>>) : <<>>[i] \in A} = {}
    OBVIOUS
  <2> QED
    BY <2>1, FS_EmptySet DEF HowMany
<1>2. <<>> \in Seq({x}) /\ x \in {x} /\ <<x>> = Append(<<>>, x)
  OBVIOUS
<1>3. HowMany(Append(<<>>, x), A) = HowMany(<<>>, A) + (IF x \in A THEN 1 ELSE 0)
  BY <1>2, HowManyAppend
<1> QED
  BY <1>1, <1>2, <1>3

(* What is on its way is what the lines hold, *)
LinesHold ==
    \A M : Silence \notin M
           => /\ ToServer(M) = Tally(ToServerLine, M)
              /\ ToClient(M) = Tally(ToClientLine, M)
              /\ Tally(ToServerLine, M) \in Nat /\ Tally(ToClientLine, M) \in Nat

(* in every state of the session.                                          *)
LEMMA LinesHoldAll == SessionInv => LinesHold
<1> SUFFICES ASSUME SessionInv, NEW M, Silence \notin M
             PROVE  /\ ToServer(M) = Tally(ToServerLine, M)
                    /\ ToClient(M) = Tally(ToClientLine, M)
                    /\ Tally(ToServerLine, M) \in Nat /\ Tally(ToClientLine, M) \in Nat
  BY DEF LinesHold
<1> DEFINE p == ToServerLine
           r == ToClientLine
<1>1. /\ p \in Lines(Words) /\ r \in Lines(Words)
      /\ 1 \in Places /\ 2 \in Places /\ 3 \in Places /\ 4 \in Places /\ 5 \in Places
  BY LinesType DEF Places
<1>2. /\ HowMany(p[1], M) \in Nat /\ HowMany(p[2], M) \in Nat /\ HowMany(p[3], M) \in Nat
      /\ HowMany(p[4], M) \in Nat /\ HowMany(p[5], M) \in Nat
      /\ HowMany(r[1], M) \in Nat /\ HowMany(r[2], M) \in Nat /\ HowMany(r[3], M) \in Nat
      /\ HowMany(r[4], M) \in Nat /\ HowMany(r[5], M) \in Nat
  <2> HIDE DEF p, r
  <2> QED
    BY <1>1, StationsType
<1>3. /\ HowMany(p[1], M) = Carrying(serverStrand, "Received", M)
      /\ HowMany(p[3], M) = Holding(toServer, M)
      /\ HowMany(p[4], M) = Carrying(clientStrand, "Send", M)
      /\ HowMany(p[5], M) = Saying(clientEffects, M)
      /\ HowMany(r[1], M) = Carrying(clientStrand, "Received", M)
      /\ HowMany(r[2], M) = Holding(toClient, M)
      /\ HowMany(r[3], M) = Carrying(serverStrand, "Send", M)
      /\ HowMany(r[4], M) = Saying(serverEffects, M)
  <2>1. /\ p[1] = WordsOf("Received", serverStrand) /\ p[3] = toServer
        /\ p[4] = WordsOf("Send", clientStrand) /\ p[5] = WordsOf("SendMessage", clientEffects)
        /\ r[1] = WordsOf("Received", clientStrand) /\ r[2] = toClient
        /\ r[3] = WordsOf("Send", serverStrand) /\ r[4] = WordsOf("SendMessage", serverEffects)
    BY Stations
  <2> HIDE DEF p, r
  <2>2. /\ clientStrand \in Seq(ClientTasks) /\ clientEffects \in Seq(ClientEffects)
        /\ serverStrand \in Seq(ServerTasks) /\ serverEffects \in Seq(ServerEffects)
        /\ toServer \in Seq(FromClient) /\ toClient \in Seq(FromServer)
    BY StrandTypes
  <2> QED
    BY <2>1, <2>2, CarryingIs
<1>4. /\ HowMany(p[2], M) = IF reader = "deliver" /\ inHand \in M THEN 1 ELSE 0
      /\ HowMany(r[5], M) = 0
  <2>1. r[5] = <<>> /\ p[2] = IF reader = "deliver" THEN <<inHand>> ELSE <<>>
    BY Stations
  <2> HIDE DEF p, r
  <2>2. CASE reader = "deliver"
    BY <2>1, <2>2, HowManyOne
  <2>3. CASE reader # "deliver"
    BY <2>1, <2>3, HowManyOne
  <2> QED
    BY <2>2, <2>3
<1>5. /\ Tally(p, M) = HowMany(p[1], M) + HowMany(p[2], M) + HowMany(p[3], M)
                         + HowMany(p[4], M) + HowMany(p[5], M)
      /\ Tally(r, M) = HowMany(r[1], M) + HowMany(r[2], M) + HowMany(r[3], M)
                         + HowMany(r[4], M) + HowMany(r[5], M)
  BY DEF Tally
<1>6. /\ ToServer(M) = HowMany(p[5], M) + HowMany(p[4], M) + HowMany(p[3], M)
                         + HowMany(p[2], M) + HowMany(p[1], M)
      /\ ToClient(M) = HowMany(r[4], M) + HowMany(r[3], M) + HowMany(r[2], M) + HowMany(r[1], M)
  BY <1>3, <1>4 DEF ToServer, ToClient
<1> HIDE DEF p, r
<1>7. /\ ToServer(M) = Tally(p, M) /\ ToClient(M) = Tally(r, M)
      /\ Tally(p, M) \in Nat /\ Tally(r, M) \in Nat
  BY <1>2, <1>4, <1>5, <1>6
<1> QED
  BY <1>7 DEF p, r

(* before a step and after it.                                             *)
LEMMA LinesHoldNext == SessionInv' => LinesHold'
<1> HIDE DEF LinesHold
<1> QED
  BY LinesHoldAll, PTL

(* The measure of two lines between two sides                              *)
Measure(p, r, c, s, hc, hs) ==
    Tally(p, Hellos) + Tally(r, Hellos) + Tally(p, FormerHello(c)) + Unanswered(hs, c)
      + 2 * (Tally(r, FormerHello(s)) + Unanswered(hc, s))

(* is HellosLeft, before a step and after it.                              *)
LEMMA MeasureIs ==
    ASSUME SessionInv, SessionInv'
    PROVE  /\ HellosLeft = Measure(ToServerLine, ToClientLine, client.instance_id,
                                   server.instance_id, client.handshake, server.handshake)
           /\ HellosLeft' = Measure(ToServerLine', ToClientLine', client'.instance_id,
                                    server'.instance_id, client'.handshake, server'.handshake)
<1>1. LinesHold /\ LinesHold'
  BY LinesHoldAll, LinesHoldNext
<1>2. /\ ToServer(AnyHello) = Tally(ToServerLine, Hellos)
      /\ ToClient(AnyHello) = Tally(ToClientLine, Hellos)
      /\ \A id : /\ ToServer(FormerHello(id)) = Tally(ToServerLine, FormerHello(id))
                 /\ ToClient(FormerHello(id)) = Tally(ToClientLine, FormerHello(id))
  BY <1>1, HelloSets DEF LinesHold
<1>3. /\ ToServer(AnyHello)' = Tally(ToServerLine', Hellos)
      /\ ToClient(AnyHello)' = Tally(ToClientLine', Hellos)
      /\ ToServer(FormerHello(client.instance_id))'
           = Tally(ToServerLine', FormerHello(client'.instance_id))
      /\ ToClient(FormerHello(server.instance_id))'
           = Tally(ToClientLine', FormerHello(server'.instance_id))
  BY <1>1, HelloSets DEF LinesHold
<1> QED
  BY <1>2, <1>3 DEF HellosLeft, Measure
-----------------------------------------------------------------------------
(* Steps that tell no side of a Hello and say none *)

(* There are no more of any Hellos than before.                            *)
Thinner(p, q) ==
    \A A : A \subseteq Hellos => /\ Tally(p, A) \in Nat
                                 /\ Tally(q, A) \in 0..Tally(p, A)

(* What a line loses or gains without a Hello makes it no worse.           *)
LEMMA TameLine ==
    ASSUME NEW p \in Lines(Words), NEW q,
           \/ Carries(p, q)
           \/ Thins(p, q)
           \/ \E k \in Places : Drops(p, q, k)
           \/ \E k \in {3, 4} : \E w \in Seq(Words) : Utters(p, q, k, w) /\ Free(w, Hellos)
    PROVE  Orderly(p, q) /\ Thinner(p, q)
<1>1. Silence \in Words /\ Silence \notin Hellos
  BY AllHaveWords, WordFacts
<1>2. CASE Carries(p, q)
  <2>1. Orderly(p, q)
    BY <1>2, SilenceIsCalm, CalmFacts
  <2>2. ASSUME NEW A, A \subseteq Hellos
        PROVE  Tally(p, A) \in Nat /\ Tally(q, A) \in 0..Tally(p, A)
    <3>1. Tally(q, A) = Tally(p, A)
      BY <1>1, <1>2, <2>2, CarryTally
    <3>2. Thins(p, p)
      BY DEF Thins
    <3>3. Tally(p, A) \in Nat
      BY <3>2, ThinTally
    <3> QED
      BY <3>1, <3>3
  <2> QED
    BY <2>1, <2>2 DEF Thinner
<1>3. CASE Thins(p, q)
  <2>1. Orderly(p, q)
    BY <1>3, ThinIsOrderly
  <2> QED
    BY <1>3, <2>1, ThinTally DEF Thinner
<1>4. ASSUME NEW k \in Places, Drops(p, q, k) PROVE Thins(p, q)
  BY <1>4, DropsThin
<1>5. ASSUME NEW k \in {3, 4}, NEW w \in Seq(Words), Utters(p, q, k, w), Free(w, Hellos)
      PROVE  Orderly(p, q) /\ Thinner(p, q)
  <2>1. Orderly(p, q)
    BY <1>5, UtterKeeps, CalmFacts
  <2>2. ASSUME NEW A, A \subseteq Hellos
        PROVE  Tally(p, A) \in Nat /\ Tally(q, A) \in 0..Tally(p, A)
    <3>1. Silence \notin A /\ Free(w, A)
      BY <1>1, <1>5, <2>2 DEF Free
    <3>2. HowMany(w, A) = 0
      BY <3>1, HowManyType
    <3>3. Tally(p, A) \in Nat /\ Tally(q, A) = Tally(p, A) + HowMany(w, A)
      BY <1>5, <3>1, UtterTally
    <3> QED
      BY <3>2, <3>3
  <2> QED
    BY <2>1, <2>2 DEF Thinner
<1> QED
  BY <1>2, <1>3, <1>4, <1>5

(* The lines keep the order of each instance's Hellos, a side that has     *)
(* heard of an instance will hear of no former one, the two have the same  *)
(* version when one has heard of the other, and a client has asked for     *)
(* telemetry when its handshake is completed.                              *)
OrderedFor(p, id, h) ==
    id # 0 => /\ InOrder(p, id)
              /\ h.remote_instance_id = id => NoneStale(p, id)
HelloOrder ==
    /\ OrderedFor(ToServerLine, client.instance_id, server.handshake)
    /\ OrderedFor(ToClientLine, server.instance_id, client.handshake)
    /\ \/ client.handshake.remote_instance_id # C!NoInstance
       \/ server.handshake.remote_instance_id # C!NoInstance
       => ClientVersion = ServerVersion
    /\ RequestFollows

(* No side hears of a Hello or starts anew. *)
Tame ==
    /\ client' = client
    /\ server'.instance_id = server.instance_id
    /\ server'.handshake = server.handshake
    /\ Orderly(ToServerLine, ToServerLine')
    /\ Orderly(ToClientLine, ToClientLine')
    /\ Thinner(ToServerLine, ToServerLine')
    /\ Thinner(ToClientLine, ToClientLine')

(* What the measure counts of a side *)
LEMMA UnansweredIs ==
    ASSUME NEW h, NEW id
    PROVE  /\ Unanswered(h, id) \in {0, 1, 2}
           /\ id = 0 \/ h.remote_instance_id # id => Unanswered(h, id) = 2
           /\ id # 0 /\ h.remote_instance_id = id
              => Unanswered(h, id) = IF h.handshake_completed THEN 0 ELSE 1
BY DEF Unanswered, C!ZeroInstance

(* Fewer Hellos and no more that can still be given rise to                *)
LEMMA MeasureFalls ==
    ASSUME NEW p, NEW q, NEW r, NEW t, NEW c, NEW s, NEW hc, NEW hs, NEW kc, NEW ks,
           Thinner(p, q), Thinner(r, t),
           Unanswered(kc, s) = Unanswered(hc, s),
           Unanswered(ks, c) = Unanswered(hs, c)
    PROVE  /\ Measure(p, r, c, s, hc, hs) \in Nat
           /\ Measure(q, t, c, s, kc, ks) \in 0..Measure(p, r, c, s, hc, hs)
           /\ \/ Tally(q, Hellos) < Tally(p, Hellos)
              \/ Tally(t, Hellos) < Tally(r, Hellos)
              => Measure(q, t, c, s, kc, ks) < Measure(p, r, c, s, hc, hs)
<1> DEFINE F == FormerHello(c)
           G == FormerHello(s)
<1>1. Hellos \subseteq Hellos /\ F \subseteq Hellos /\ G \subseteq Hellos
  BY HelloSets
<1>2. /\ Tally(p, Hellos) \in Nat /\ Tally(q, Hellos) \in 0..Tally(p, Hellos)
      /\ Tally(r, Hellos) \in Nat /\ Tally(t, Hellos) \in 0..Tally(r, Hellos)
      /\ Tally(p, F) \in Nat /\ Tally(q, F) \in 0..Tally(p, F)
      /\ Tally(r, G) \in Nat /\ Tally(t, G) \in 0..Tally(r, G)
  BY <1>1 DEF Thinner
<1>3. Unanswered(hc, s) \in {0, 1, 2} /\ Unanswered(hs, c) \in {0, 1, 2}
  BY UnansweredIs
<1>4. PICK a, b, d, e, f, g, i, j :
          /\ a = Tally(p, Hellos) /\ b = Tally(q, Hellos)
          /\ d = Tally(r, Hellos) /\ e = Tally(t, Hellos)
          /\ f = Tally(p, F) /\ g = Tally(q, F)
          /\ i = Tally(r, G) /\ j = Tally(t, G)
  OBVIOUS
<1>5. PICK u \in {0, 1, 2}, v \in {0, 1, 2} : u = Unanswered(hc, s) /\ v = Unanswered(hs, c)
  BY <1>3
<1>6. /\ Measure(p, r, c, s, hc, hs) = a + d + f + v + 2 * (i + u)
      /\ Measure(q, t, c, s, kc, ks) = b + e + g + v + 2 * (j + u)
  BY <1>4, <1>5 DEF Measure
<1>7. /\ a \in Nat /\ b \in 0..a /\ d \in Nat /\ e \in 0..d
      /\ f \in Nat /\ g \in 0..f /\ i \in Nat /\ j \in 0..i
  BY <1>2, <1>4
<1>8. /\ a + d + f + v + 2 * (i + u) \in Nat
      /\ b + e + g + v + 2 * (j + u) \in 0..(a + d + f + v + 2 * (i + u))
      /\ b < a \/ e < d => b + e + g + v + 2 * (j + u) < a + d + f + v + 2 * (i + u)
  BY <1>7
<1> QED
  BY <1>4, <1>6, <1>8

(* Such a step keeps the order, and the measure does not grow.             *)
LEMMA TameKeeps ==
    ASSUME SessionInv, SessionInv', HelloOrder, Tame
    PROVE  /\ HelloOrder'
           /\ HellosLeft' \in 0..HellosLeft
           /\ \/ Tally(ToServerLine', Hellos) < Tally(ToServerLine, Hellos)
              \/ Tally(ToClientLine', Hellos) < Tally(ToClientLine, Hellos)
              => HellosLeft' < HellosLeft
<1>1. HelloOrder'
  <2>1. RequestFollows'
    BY DEF HelloOrder, Tame, RequestFollows
  <2>2. \A id : /\ InOrder(ToServerLine, id) => InOrder(ToServerLine', id)
                /\ NoneStale(ToServerLine, id) => NoneStale(ToServerLine', id)
                /\ InOrder(ToClientLine, id) => InOrder(ToClientLine', id)
                /\ NoneStale(ToClientLine, id) => NoneStale(ToClientLine', id)
    BY DEF Tame, Orderly
  <2>3. /\ OrderedFor(ToServerLine', client'.instance_id, server'.handshake)
        /\ OrderedFor(ToClientLine', server'.instance_id, client'.handshake)
    BY <2>2 DEF HelloOrder, OrderedFor, Tame
  <2> QED
    BY <2>1, <2>3 DEF HelloOrder, Tame
<1>2. PICK p, q, r, t : /\ p = ToServerLine /\ q = ToServerLine'
                        /\ r = ToClientLine /\ t = ToClientLine'
  OBVIOUS
<1>3. PICK c, s, hc, hs : /\ c = client.instance_id /\ s = server.instance_id
                          /\ hc = client.handshake /\ hs = server.handshake
  OBVIOUS
<1>4. HellosLeft = Measure(p, r, c, s, hc, hs) /\ HellosLeft' = Measure(q, t, c, s, hc, hs)
  BY <1>2, <1>3, MeasureIs DEF Tame
<1>5. Thinner(p, q) /\ Thinner(r, t)
  BY <1>2 DEF Tame
<1>6. /\ Measure(q, t, c, s, hc, hs) \in 0..Measure(p, r, c, s, hc, hs)
      /\ \/ Tally(q, Hellos) < Tally(p, Hellos)
         \/ Tally(t, Hellos) < Tally(r, Hellos)
         => Measure(q, t, c, s, hc, hs) < Measure(p, r, c, s, hc, hs)
  BY <1>5, MeasureFalls
<1> QED
  BY <1>1, <1>2, <1>4, <1>6
-----------------------------------------------------------------------------
(* The tame steps *)

(* A station that loses its first n words                                  *)
LEMMA SuffixLine ==
    ASSUME NEW p \in Lines(Words), NEW q, NEW k \in Places, NEW n \in Nat,
           q[k] \in Seq(Words), Len(p[k]) = Len(q[k]) + n,
           \A i \in 1..Len(q[k]) : q[k][i] = p[k][i + n],
           \A l \in Places : l = k \/ q[l] = p[l]
    PROVE  Orderly(p, q) /\ Thinner(p, q)
<1> DEFINE s == p[k]
           t == q[k]
<1>1. /\ s \in Seq(Words) /\ t \in Seq(Words) /\ Len(s) \in Nat /\ Len(t) \in Nat
      /\ Len(s) = Len(t) + n /\ \A i \in 1..Len(t) : t[i] = s[i + n]
  BY LenProperties DEF Lines
<1>2. \A F, G : /\ Free(s, F) => Free(t, F)
                /\ Sorted(s, F, G) => Sorted(t, F, G)
  <2> HIDE DEF s, t
  <2>1. \A i \in 1..Len(t) : i + n \in 1..Len(s)
    BY <1>1
  <2>2. \A i, j \in 1..Len(t) : i < j => i + n < j + n
    BY <1>1
  <2> QED
    BY <1>1, <2>1, <2>2 DEF Free, Sorted
<1>3. ASSUME NEW l \in Places, NEW F, NEW G
      PROVE  /\ Free(p[l], F) => Free(q[l], F)
             /\ Sorted(p[l], F, G) => Sorted(q[l], F, G)
  BY <1>2
<1>4. \A F, G : /\ LineFree(p, F) => LineFree(q, F)
                /\ LineSorted(p, F, G) => LineSorted(q, F, G)
  BY <1>3 DEF LineFree, LineSorted
<1>5. Orderly(p, q)
  BY <1>4 DEF Orderly, InOrder, NoneStale
<1>6. ASSUME NEW A PROVE Tally(p, A) \in Nat /\ Tally(q, A) \in 0..Tally(p, A)
  <2>1. HowMany(t, A) \in Nat /\ HowMany(s, A) \in Nat
    <3> HIDE DEF s, t
    <3> QED
      BY <1>1, HowManyType
  <2>2. HowMany(t, A) <= HowMany(s, A)
    <3> HIDE DEF s, t
    <3> QED
      BY <1>1, HowManyBehind
  <2>3. \A l \in Places : HowMany(p[l], A) \in Nat
    BY StationsType
  <2>4. /\ Tally(p, A) \in Nat /\ Tally(q, A) \in Nat
        /\ Tally(q, A) + HowMany(p[k], A) = Tally(p, A) + HowMany(q[k], A)
    BY <2>1, <2>3, TallyChanges
  <2> QED
    BY <2>1, <2>2, <2>4
<1> QED
  BY <1>5, <1>6 DEF Thinner

(* One step after another                                                  *)
LEMMA ThinnerTwice ==
    ASSUME NEW p, NEW q, NEW r, Thinner(p, q), Thinner(q, r)
    PROVE  Thinner(p, r)
<1>1. ASSUME NEW A, A \subseteq Hellos
      PROVE  Tally(p, A) \in Nat /\ Tally(r, A) \in 0..Tally(p, A)
  BY <1>1 DEF Thinner
<1> QED
  BY <1>1 DEF Thinner

(* What is left of a sequence behind its first n elements                  *)
LEMMA Remainder ==
    ASSUME NEW T, NEW s \in Seq(T), NEW n \in Nat, n <= Len(s),
           NEW u, u = SubSeq(s, n + 1, Len(s))
    PROVE  u \in Seq(T) /\ Len(s) = Len(u) + n /\ \A i \in 1..Len(u) : u[i] = s[i + n]
<1> DEFINE a == n + 1
           b == Len(s)
<1>1. b \in Nat /\ a \in Int /\ \A i \in a..b : s[i] \in T
  BY LenProperties
<1> HIDE DEF a, b
<1>2. /\ SubSeq(s, a, b) \in Seq(T)
      /\ Len(SubSeq(s, a, b)) = IF a <= b THEN b - a + 1 ELSE 0
      /\ \A i \in 1..(b - a + 1) : SubSeq(s, a, b)[i] = s[a + i - 1]
  BY <1>1, SubSeqProperties
<1>3. u = SubSeq(s, a, b) /\ a = n + 1 /\ b = Len(s)
  BY DEF a, b
<1>4. u \in Seq(T) /\ Len(u) = b - n /\ \A i \in 1..(b - n) : u[i] = s[a + i - 1]
  BY <1>1, <1>2, <1>3
<1>5. ASSUME NEW i \in 1..Len(u) PROVE u[i] = s[i + n]
  <2>1. a + i - 1 = i + n
    BY <1>3
  <2> QED
    BY <1>4, <2>1
<1> QED
  BY <1>1, <1>3, <1>4, <1>5

(* Of several messages read at once, the first is handed on and the others *)
(* are lost.                                                               *)
LEMMA ReadsSeveralIsTame ==
    ASSUME SessionInv, ServerReadsSeveral
    PROVE  Tame
<1>1. /\ UNCHANGED <<client, server, clientStrand, clientEffects, serverStrand, serverEffects,
                     toClient>>
      /\ reader = "reading" /\ reader' = "deliver" /\ inHand' = Head(toServer)
  BY DEF ServerReadsSeveral, SL!Read, ClientUnchanged, clientProcess, controlOfServer
<1>2. PICK n \in 2..Len(toServer) : toServer' = SubSeq(toServer, n + 1, Len(toServer))
  BY DEF ServerReadsSeveral
<1>3. PICK p, q : p = ToServerLine /\ q = ToServerLine'
  OBVIOUS
<1>4. /\ p \in Lines(Words) /\ p[3] = toServer /\ p[3] \in Seq(Words)
      /\ p[2] = <<>> /\ q[2] = <<Head(toServer)>> /\ q[3] = toServer'
      /\ q[1] = p[1] /\ q[4] = p[4] /\ q[5] = p[5]
  BY <1>1, <1>3, LinesType, Stations, Stay DEF Lines, Places
<1> DEFINE s == toServer
           h == Head(s)
           t == Tail(s)
           m == [l \in Places |-> IF l = 3 THEN t ELSE IF l = 2 THEN <<h>> ELSE p[l]]
<1>5. /\ s \in Seq(Words) /\ Len(s) \in Nat /\ n \in 2..Len(s)
      /\ s # <<>> /\ t \in Seq(Words) /\ h \in Words
      /\ Len(s) = Len(t) + 1 /\ \A i \in 1..Len(t) : t[i] = s[i + 1]
  <2>1. s \in Seq(Words) /\ Len(s) \in Nat /\ n \in 2..Len(s)
    BY <1>2, <1>4, LenProperties
  <2>2. s # <<>>
    BY <2>1
  <2> HIDE DEF s
  <2> QED
    BY <2>1, <2>2, TailIs
<1>6. m \in Lines(Words) /\ Passes(p, m, 3)
  <2>1. <<h>> \in Seq(Words) /\ <<h>> = Append(<<>>, h)
    BY <1>5
  <2> HIDE DEF h, t
  <2>2. \A l \in Places : p[l] \in Seq(Words)
    BY <1>4 DEF Lines
  <2>3. m \in Lines(Words)
    BY <1>5, <2>1, <2>2 DEF Lines
  <2>4. m[3] = t /\ m[2] = <<h>> /\ \A l \in Places \ {2, 3} : m[l] = p[l]
    BY DEF Places
  <2> HIDE DEF m
  <2>5. p[3] # <<>> /\ t = Tail(p[3]) /\ h = Head(p[3]) /\ p[2] = <<>>
    BY <1>4, <1>5 DEF h, t
  <2>6. 3 - 1 = 2
    OBVIOUS
  <2> QED
    BY <2>1, <2>3, <2>4, <2>5, <2>6 DEF Passes, Same
<1>7. Orderly(p, m) /\ Thinner(p, m)
  <2>1. Carries(p, m)
    BY <1>6 DEF Carries
  <2> HIDE DEF m
  <2> QED
    BY <1>4, <2>1, TameLine
<1>8. Orderly(m, q) /\ Thinner(m, q)
  <2>1. m[3] = t /\ \A l \in Places : l = 3 \/ q[l] = m[l]
    <3>1. m[1] = p[1] /\ m[2] = <<h>> /\ m[3] = t /\ m[4] = p[4] /\ m[5] = p[5]
      BY DEF Places
    <3> HIDE DEF m
    <3> QED
      BY <1>4, <3>1 DEF Places
  <2> HIDE DEF m, s, t, h
  <2>2. PICK u : u = toServer'
    OBVIOUS
  <2>3. n \in Nat /\ n <= Len(s) /\ 2 <= n
    BY <1>5
  <2>4. u = SubSeq(s, n + 1, Len(s))
    BY <1>2, <2>2 DEF s
  <2>5. u \in Seq(Words) /\ Len(s) = Len(u) + n /\ \A i \in 1..Len(u) : u[i] = s[i + n]
    BY <1>5, <2>3, <2>4, Remainder
  <2>6. Len(u) \in Nat /\ Len(t) \in Nat
    BY <1>5, <2>5, LenProperties
  <2>7. PICK l \in Nat : l = n - 1
    BY <2>3
  <2>8. Len(t) = Len(u) + l
    <3>1. Len(s) = Len(u) + n /\ Len(s) = Len(t) + 1
      BY <1>5, <2>5
    <3> QED
      BY <2>3, <2>6, <2>7, <3>1
  <2>9. ASSUME NEW i \in 1..Len(u) PROVE u[i] = t[i + l]
    <3>1. i + l \in 1..Len(t) /\ (i + l) + 1 = i + n
      BY <2>3, <2>6, <2>7, <2>8
    <3>2. t[i + l] = s[(i + l) + 1]
      BY <1>5, <3>1
    <3> QED
      BY <2>5, <3>1, <3>2
  <2>10. 3 \in Places /\ q[3] = u
    BY <1>4, <2>2 DEF Places
  <2>11. /\ q[3] \in Seq(Words) /\ Len(m[3]) = Len(q[3]) + l
         /\ \A i \in 1..Len(q[3]) : q[3][i] = m[3][i + l]
    BY <2>1, <2>5, <2>8, <2>9, <2>10
  <2>12. m \in Lines(Words)
    BY <1>6
  <2>13. PICK k \in Places : k = 3
    BY <2>10
  <2>14. /\ q[k] \in Seq(Words) /\ Len(m[k]) = Len(q[k]) + l
         /\ \A i \in 1..Len(q[k]) : q[k][i] = m[k][i + l]
         /\ \A j \in Places : j = k \/ q[j] = m[j]
    BY <2>1, <2>11, <2>13
  <2> QED
    BY <2>12, <2>14, SuffixLine
<1> HIDE DEF m
<1>9. Orderly(p, q) /\ Thinner(p, q)
  BY <1>7, <1>8, ThinnerTwice, CalmFacts
<1>10. ToClientLine' = ToClientLine
  BY <1>1, Stay, Stations, LinesAre
<1>11. Orderly(ToClientLine, ToClientLine') /\ Thinner(ToClientLine, ToClientLine')
  <2>1. PICK r : r = ToClientLine
    OBVIOUS
  <2>2. r \in Lines(Words) /\ Carries(r, r)
    BY <2>1, LinesType DEF Carries
  <2> QED
    BY <1>10, <2>1, <2>2, TameLine
<1> QED
  BY <1>1, <1>3, <1>9, <1>11 DEF Tame

(* A sampler that throws takes the effects with it.                        *)
LEMMA ThrowIsTame ==
    ASSUME SessionInv, ServerStep, S!HandleStartTelemetryTimerThrows
    PROVE  /\ UNCHANGED <<client, server>>
           /\ Thins(ToServerLine, ToServerLine') /\ Thins(ToClientLine, ToClientLine')
<1>1. /\ UNCHANGED <<client, server, clientStrand, clientEffects, serverStrand, toServer,
                     toClient, reader, inHand>>
      /\ serverEffects' = <<>>
  BY DEF ServerStep, S!HandleStartTelemetryTimerThrows, ClientUnchanged, clientProcess,
         linkOfServer, wires
<1>2. ToServerLine' = ToServerLine
  BY <1>1, Stay, Stations, LinesAre
<1>3. /\ ToClientLine'[4] = <<>>
      /\ ToClientLine'[1] = ToClientLine[1] /\ ToClientLine'[2] = ToClientLine[2]
      /\ ToClientLine'[3] = ToClientLine[3] /\ ToClientLine'[5] = ToClientLine[5]
  BY <1>1, Stay, Stations DEF WordsOf
<1> QED
  BY <1>1, <1>2, <1>3, Stations DEF Thins

(* Whatever is not a task that says or hears a Hello is tame.              *)
LEMMA TameIf ==
    ASSUME SessionInv, client' = client, server'.instance_id = server.instance_id,
           server'.handshake = server.handshake,
           \/ Carries(ToServerLine, ToServerLine')
           \/ Thins(ToServerLine, ToServerLine')
           \/ \E k \in Places : Drops(ToServerLine, ToServerLine', k)
           \/ \E k \in {3, 4} : \E w \in Seq(Words) :
                  Utters(ToServerLine, ToServerLine', k, w) /\ Free(w, Hellos),
           \/ Carries(ToClientLine, ToClientLine')
           \/ Thins(ToClientLine, ToClientLine')
           \/ \E k \in Places : Drops(ToClientLine, ToClientLine', k)
           \/ \E k \in {3, 4} : \E w \in Seq(Words) :
                  Utters(ToClientLine, ToClientLine', k, w) /\ Free(w, Hellos)
    PROVE  Tame
<1>1. PICK p, q, r, t : /\ p = ToServerLine /\ q = ToServerLine'
                        /\ r = ToClientLine /\ t = ToClientLine'
  OBVIOUS
<1>2. p \in Lines(Words) /\ r \in Lines(Words)
  BY <1>1, LinesType
<1>3. Orderly(p, q) /\ Thinner(p, q)
  BY <1>1, <1>2, TameLine
<1>4. Orderly(r, t) /\ Thinner(r, t)
  BY <1>1, <1>2, TameLine
<1> QED
  BY <1>1, <1>3, <1>4 DEF Tame

(* Every step but the tasks that hear, greet or reset, and the crashes     *)
TameSteps ==
    \/ ClientOpen \/ ClientRegister \/ ClientNotify \/ ClientDisconnect \/ ClientReceive
    \/ ClientQuietWork
    \/ ReaderStep \/ ServerReadsSeveral
    \/ ServerQuietWork
    \/ ServerStep /\ S!HandleStartTelemetryTimerThrows
    \/ DropToClient \/ DropToServer

(* These are tame, whatever may fail in them.                              *)
LEMMA AreTame ==
    ASSUME SessionInv, TameSteps
    PROVE  Tame
<1>1. 1 \in Places /\ 2 \in Places /\ 3 \in Places /\ 4 \in Places /\ 2 \in 2..5 /\ 3 \in 2..5
  BY DEF Places
<1>2. CASE ClientOpen \/ ClientRegister \/ ClientNotify \/ ClientDisconnect \/ ClientReceive
  <2>1. UNCHANGED <<client, server>>
    BY <1>2, ClientHostIsQuiet DEF Quiet
  <2>2. Carries(ToServerLine, ToServerLine') /\ Carries(ToClientLine, ToClientLine')
    BY <1>1, <1>2, ClientHostLines, LineCases
  <2> QED
    BY <2>1, <2>2, TameIf
<1>3. CASE ClientQuietWork
  <2>1. UNCHANGED <<client, server>>
    BY <1>3 DEF ClientQuietWork, ClientStep, ClientSend, ClientSendFails, C!HandleSendMessage,
       C!HandleStopPing, C!RunSend, C!clientVars, ServerUnchanged, controlOfServer
  <2>2. CASE ClientStep /\ (C!HandleSendMessage \/ C!HandleStopPing)
    <3>1. Carries(ToServerLine, ToServerLine') /\ Carries(ToClientLine, ToClientLine')
      BY <1>1, <2>2, ClientEffectLines, LineCases
    <3> QED
      BY <2>1, <3>1, TameIf
  <2>3. CASE ClientSend \/ ClientSendFails
    <3>1. Carries(ToServerLine, ToServerLine') \/ Drops(ToServerLine, ToServerLine', 4)
      BY <2>3, ClientSendLines
    <3>2. Carries(ToClientLine, ToClientLine')
      BY <1>1, <2>3, ClientSendLines, LineCases
    <3> QED
      BY <1>1, <2>1, <3>1, <3>2, TameIf
  <2> QED
    BY <1>3, <2>2, <2>3 DEF ClientQuietWork
<1>4. CASE ReaderStep
  <2>1. UNCHANGED <<client, server>>
    BY <1>4, ReaderIsQuiet DEF Quiet
  <2>2. Carries(ToServerLine, ToServerLine') /\ Carries(ToClientLine, ToClientLine')
    BY <1>1, <1>4, ServerReaderLines, LineCases
  <2> QED
    BY <2>1, <2>2, TameIf
<1>5. CASE ServerReadsSeveral
  BY <1>5, ReadsSeveralIsTame
<1>6. CASE ServerQuietWork
  <2>1. UNCHANGED <<client, server>>
    BY <1>6, ServerWorkIsQuiet DEF Quiet
  <2>2. CASE EffectStep
    BY <2>1, <2>2, ServerEffectLines, TameIf
  <2>3. CASE ServerSend \/ ServerSendFindsClosed \/ ServerSendFails
    <3>1. Carries(ToServerLine, ToServerLine')
      BY <2>3, ServerSendLines
    <3>2. Carries(ToClientLine, ToClientLine') \/ Drops(ToClientLine, ToClientLine', 3)
      BY <1>1, <2>3, ServerSendLines, LineCases
    <3> QED
      BY <1>1, <2>1, <3>1, <3>2, TameIf
  <2>4. CASE ServerWorkerReports \/ TimerFires
    <3>1. Carries(ToServerLine, ToServerLine') /\ Carries(ToClientLine, ToClientLine')
      BY <1>1, <2>4, ServerIdleLines, LineCases
    <3> QED
      BY <2>1, <3>1, TameIf
  <2> QED
    BY <1>6, <2>2, <2>3, <2>4 DEF ServerQuietWork
<1>7. CASE ServerStep /\ S!HandleStartTelemetryTimerThrows
  BY <1>7, ThrowIsTame, TameIf
<1>8. CASE DropToClient \/ DropToServer
  <2>1. UNCHANGED <<client, server>>
    BY <1>8, DropIsQuiet DEF Quiet
  <2>2. \/ Carries(ToServerLine, ToServerLine')
        \/ \E k \in Places : Drops(ToServerLine, ToServerLine', k)
    BY <1>1, <1>8, DropLines, LineCases
  <2>3. \/ Carries(ToClientLine, ToClientLine')
        \/ \E k \in Places : Drops(ToClientLine, ToClientLine', k)
    BY <1>1, <1>8, DropLines, LineCases
  <2> QED
    BY <2>1, <2>2, <2>3, TameIf
<1> QED
  BY <1>2, <1>3, <1>4, <1>5, <1>6, <1>7, <1>8 DEF TameSteps
-----------------------------------------------------------------------------
(* The tasks that are not tame *)

(* The two controllers do not run a task in the same step.                 *)
LEMMA OneTaskAtATime ==
    ASSUME SessionInv, ClientTask, ServerTask
    PROVE  FALSE
<1>1. serverStrand' = serverStrand
  BY ClientTaskIs
<1>2. serverStrand # <<>> /\ serverStrand' = Tail(serverStrand)
  BY ServerTaskIs
<1> DEFINE s == serverStrand
<1>3. s \in Seq(ServerTasks) /\ s # <<>> /\ s = Tail(s)
  BY <1>1, <1>2, StrandTypes
<1> HIDE DEF s
<1>4. PICK t : t = Tail(s)
  OBVIOUS
<1>5. Len(s) = Len(t) + 1 /\ Len(s) \in Nat /\ s = t
  BY <1>3, <1>4, TailIs, LenProperties
<1> QED
  BY <1>5

(* Keeping the order for a side                                            *)
LEMMA OrderedKept ==
    ASSUME NEW p, NEW q, NEW id, NEW h, NEW k, Orderly(p, q), OrderedFor(p, id, h),
           k.remote_instance_id \in {h.remote_instance_id, C!NoInstance}
    PROVE  id \in Nat => OrderedFor(q, id, k)
BY NoInstanceIsNone DEF OrderedFor, Orderly

(* A client that is reset or started keeps it, *)
LEMMA ClientResets ==
    ASSUME SessionInv, HelloOrder, RequestFollows',
           client'.handshake.remote_instance_id = C!NoInstance,
           client'.instance_id \in {client.instance_id, 0}, server' = server,
           Orderly(ToServerLine, ToServerLine'), Orderly(ToClientLine, ToClientLine')
    PROVE  HelloOrder'
<1>1. client.instance_id \in Nat /\ server.instance_id \in Nat
  BY PresentHellos
<1>2. PICK p, q, r, t : /\ p = ToServerLine /\ q = ToServerLine'
                        /\ r = ToClientLine /\ t = ToClientLine'
  OBVIOUS
<1>3. PICK c, d, s, hc, kc, hs :
          /\ c = client.instance_id /\ d = client'.instance_id /\ s = server.instance_id
          /\ hc = client.handshake /\ kc = client'.handshake /\ hs = server.handshake
  OBVIOUS
<1>4. OrderedFor(p, c, hs) /\ OrderedFor(r, s, hc) /\ Orderly(p, q) /\ Orderly(r, t)
  BY <1>2, <1>3 DEF HelloOrder
<1>5. OrderedFor(q, d, hs)
  <2>1. OrderedFor(q, c, hs)
    BY <1>1, <1>3, <1>4, OrderedKept
  <2>2. OrderedFor(q, 0, hs)
    BY DEF OrderedFor
  <2> QED
    BY <1>3, <2>1, <2>2
<1>6. OrderedFor(t, s, kc)
  BY <1>1, <1>3, <1>4, OrderedKept
<1> QED
  BY <1>2, <1>3, <1>5, <1>6 DEF HelloOrder

(* and so does a server.                                                   *)
LEMMA ServerResets ==
    ASSUME SessionInv, HelloOrder, client' = client,
           server'.handshake.remote_instance_id = C!NoInstance,
           server'.instance_id \in {server.instance_id, 0},
           Orderly(ToServerLine, ToServerLine'), Orderly(ToClientLine, ToClientLine')
    PROVE  HelloOrder'
<1>1. client.instance_id \in Nat /\ server.instance_id \in Nat
  BY PresentHellos
<1>2. PICK p, q, r, t : /\ p = ToServerLine /\ q = ToServerLine'
                        /\ r = ToClientLine /\ t = ToClientLine'
  OBVIOUS
<1>3. PICK c, s, d, hc, hs, ks :
          /\ c = client.instance_id /\ s = server.instance_id /\ d = server'.instance_id
          /\ hc = client.handshake /\ hs = server.handshake /\ ks = server'.handshake
  OBVIOUS
<1>4. OrderedFor(p, c, hs) /\ OrderedFor(r, s, hc) /\ Orderly(p, q) /\ Orderly(r, t)
  BY <1>2, <1>3 DEF HelloOrder
<1>5. OrderedFor(t, d, hc)
  <2>1. OrderedFor(t, s, hc)
    BY <1>1, <1>3, <1>4, OrderedKept
  <2>2. OrderedFor(t, 0, hc)
    BY DEF OrderedFor
  <2> QED
    BY <1>3, <2>1, <2>2
<1>6. OrderedFor(q, c, ks)
  BY <1>1, <1>3, <1>4, OrderedKept
<1>7. RequestFollows'
  BY DEF HelloOrder, RequestFollows
<1> QED
  BY <1>2, <1>3, <1>5, <1>6, <1>7 DEF HelloOrder

(* A crash of the client keeps the order,                                  *)
LEMMA ClientCrashOrder ==
    ASSUME SessionInv, HelloOrder, ClientCrash
    PROVE  HelloOrder'
<1>1. /\ client' = C!InitialClient /\ clientEffects' = <<>> /\ clientStrand' = <<>>
      /\ UNCHANGED <<toServer, toClient>>
      /\ UNCHANGED <<server, serverEffects, serverStrand, reader, inHand>>
  BY NoneToServer DEF ClientCrash, wires
<1>2. Thins(ToServerLine, ToServerLine') /\ Thins(ToClientLine, ToClientLine')
  <2>1. /\ ToClientLine'[1] = <<>> /\ ToServerLine'[4] = <<>> /\ ToServerLine'[5] = <<>>
    BY <1>1, Stations DEF WordsOf
  <2>2. /\ ToServerLine'[1] = ToServerLine[1] /\ ToServerLine'[2] = ToServerLine[2]
        /\ ToServerLine'[3] = ToServerLine[3] /\ ToClientLine'[2] = ToClientLine[2]
        /\ ToClientLine'[3] = ToClientLine[3] /\ ToClientLine'[4] = ToClientLine[4]
        /\ ToClientLine'[5] = ToClientLine[5]
    BY <1>1, Stay
  <2> QED
    BY <2>1, <2>2, Stations DEF Thins
<1>3. Orderly(ToServerLine, ToServerLine') /\ Orderly(ToClientLine, ToClientLine')
  <2>1. PICK p, q, r, t : /\ p = ToServerLine /\ q = ToServerLine'
                          /\ r = ToClientLine /\ t = ToClientLine'
    OBVIOUS
  <2>2. p \in Lines(Words) /\ r \in Lines(Words) /\ Thins(p, q) /\ Thins(r, t)
    BY <1>2, <2>1, LinesType
  <2>3. Orderly(p, q) /\ Orderly(r, t)
    BY <2>2, ThinIsOrderly
  <2> QED
    BY <2>1, <2>3
<1>4. /\ RequestFollows' /\ client'.handshake.remote_instance_id = C!NoInstance
      /\ client'.instance_id = 0
  <2>1. client'.instance_id = 0
    BY <1>1 DEF C!InitialClient, C!ZeroInstance
  <2> QED
    BY <1>1, <2>1, NoInstanceIsNone DEF RequestFollows
<1> QED
  BY <1>1, <1>3, <1>4, ClientResets

(* a crash of the server too.                                              *)
LEMMA ServerCrashOrder ==
    ASSUME SessionInv, HelloOrder, ServerCrash
    PROVE  HelloOrder'
<1>1. /\ server' = S!InitialServer /\ serverEffects' = <<>> /\ serverStrand' = <<>>
      /\ reader' = "opening" /\ UNCHANGED <<toServer, toClient>>
      /\ UNCHANGED <<client, clientEffects, clientStrand>>
  BY DEF ServerCrash, wires, ClientUnchanged, clientProcess
<1>2. Thins(ToServerLine, ToServerLine') /\ Thins(ToClientLine, ToClientLine')
  <2>1. /\ ToServerLine'[1] = <<>> /\ ToServerLine'[2] = <<>>
        /\ ToClientLine'[3] = <<>> /\ ToClientLine'[4] = <<>>
    BY <1>1, Stations DEF WordsOf
  <2>2. /\ ToServerLine'[3] = ToServerLine[3] /\ ToServerLine'[4] = ToServerLine[4]
        /\ ToServerLine'[5] = ToServerLine[5] /\ ToClientLine'[1] = ToClientLine[1]
        /\ ToClientLine'[2] = ToClientLine[2] /\ ToClientLine'[5] = ToClientLine[5]
    BY <1>1, Stay
  <2> QED
    BY <2>1, <2>2, Stations DEF Thins
<1>3. Orderly(ToServerLine, ToServerLine') /\ Orderly(ToClientLine, ToClientLine')
  <2>1. PICK p, q, r, t : /\ p = ToServerLine /\ q = ToServerLine'
                          /\ r = ToClientLine /\ t = ToClientLine'
    OBVIOUS
  <2>2. p \in Lines(Words) /\ r \in Lines(Words) /\ Thins(p, q) /\ Thins(r, t)
    BY <1>2, <2>1, LinesType
  <2>3. Orderly(p, q) /\ Orderly(r, t)
    BY <2>2, ThinIsOrderly
  <2> QED
    BY <2>1, <2>3
<1>4. server'.handshake.remote_instance_id = C!NoInstance /\ server'.instance_id = 0
  <2>1. server'.instance_id = 0
    BY <1>1 DEF S!InitialServer, S!ZeroInstance
  <2> QED
    BY <1>1, <2>1, NoInstanceIsNone
<1> QED
  BY <1>1, <1>3, <1>4, ServerResets

(* What a side says when it is greeted                                     *)
LEMMA OwnHellos ==
    ASSUME NEW id \in Nat, NEW h \in Greetings(id), NEW x \in Words \ Hellos, NEW w
    PROVE  /\ w = <<>> => HowMany(w, Hellos) = 0 /\ HowMany(w, FormerHello(id)) = 0
           /\ w \in {<<h>>, <<h, x>>} => HowMany(w, Hellos) = 1
           /\ w \in {<<h>>, <<h, x>>} /\ id # 0 => HowMany(w, FormerHello(id)) = 0
           /\ HowMany(w, FormerHello(0)) = HowMany(w, Hellos)
<1>1. h \in Hellos /\ h \in Words /\ x \notin Hellos /\ x \in Words
  BY DEF Greetings, Hellos
<1>2. id # 0 => h \notin FormerHello(id) /\ x \notin FormerHello(id)
  BY <1>1, HelloSets DEF Greetings, Stale
<1>3. ASSUME NEW A
      PROVE  /\ HowMany(<<>>, A) = 0
             /\ HowMany(<<h>>, A) = (IF h \in A THEN 1 ELSE 0)
             /\ x \notin A => HowMany(<<h, x>>, A) = (IF h \in A THEN 1 ELSE 0)
  <2>1. <<h>> \in Seq(Words) /\ <<h, x>> = Append(<<h>>, x)
    BY <1>1
  <2>2. HowMany(<<>>, A) = 0 /\ HowMany(<<h>>, A) = (IF h \in A THEN 1 ELSE 0)
    BY HowManyOne
  <2>3. HowMany(Append(<<h>>, x), A) = HowMany(<<h>>, A) + (IF x \in A THEN 1 ELSE 0)
    BY <1>1, <2>1, HowManyAppend
  <2>4. ASSUME x \notin A PROVE HowMany(<<h, x>>, A) = (IF h \in A THEN 1 ELSE 0)
    <3>1. HowMany(<<h, x>>, A) = HowMany(<<h>>, A) + 0
      BY <2>1, <2>3, <2>4
    <3> QED
      BY <2>2, <3>1
  <2> QED
    BY <2>2, <2>4
<1>4. /\ HowMany(<<>>, Hellos) = 0 /\ HowMany(<<>>, FormerHello(id)) = 0
      /\ HowMany(<<h>>, Hellos) = 1 /\ HowMany(<<h, x>>, Hellos) = 1
      /\ id # 0 => /\ HowMany(<<h>>, FormerHello(id)) = 0
                   /\ HowMany(<<h, x>>, FormerHello(id)) = 0
  BY <1>1, <1>2, <1>3
<1> QED
  BY <1>4, HelloSets

(* What a Hello of the client's version does to the measure, whether it is *)
(* of the server's present instance or not                                 *)
LEMMA ClientMeasure ==
    ASSUME NEW p \in Lines(Words), NEW q, NEW r \in Lines(Words), NEW t,
           NEW c \in Nat, NEW s \in Nat, NEW hc, NEW kc, NEW hs,
           NEW m \in Hellos, NEW h \in Greetings(c), NEW x \in Words \ Hellos,
           NEW w \in Seq(Words),
           Utters(p, q, 4, w), Drops(r, t, 1), m = Head(r[1]),
           OrderedFor(r, s, hc),
           kc.remote_instance_id = m.instance_id,
           kc.handshake_completed = (hc.remote_instance_id = m.instance_id),
           hc.remote_instance_id # m.instance_id => w = <<h>>,
           hc.remote_instance_id = m.instance_id
             => IF hc.handshake_completed THEN w = <<>> ELSE w = <<h, x>>
    PROVE  /\ Measure(q, t, c, s, kc, hs) \in Nat
           /\ Measure(q, t, c, s, kc, hs) < Measure(p, r, c, s, hc, hs)
<1> DEFINE F == FormerHello(c)
           G == FormerHello(s)
<1>1. /\ Silence \notin Hellos /\ Silence \notin F /\ 1 \in Places
      /\ w \in {<<>>, <<h>>, <<h, x>>}
  BY HelloSets DEF Places
<1>2. PICK n \in {0, 1}, k \in {0, 1} :
          /\ n = HowMany(w, Hellos) /\ k = HowMany(w, F) /\ k <= n
          /\ w = <<>> <=> n = 0
  <2>1. w = <<>> \/ w \in {<<h>>, <<h, x>>}
    BY <1>1
  <2>2. w \in {<<h>>, <<h, x>>} => w # <<>>
    <3>1. <<h>> # <<>> /\ <<h, x>> # <<>>
      OBVIOUS
    <3> QED
      BY <3>1
  <2>3. /\ w = <<>> => HowMany(w, Hellos) = 0 /\ HowMany(w, F) = 0
        /\ w \in {<<h>>, <<h, x>>} => HowMany(w, Hellos) = 1
        /\ w \in {<<h>>, <<h, x>>} /\ c # 0 => HowMany(w, F) = 0
        /\ c = 0 => HowMany(w, F) = HowMany(w, Hellos)
    BY OwnHellos
  <2> QED
    BY <2>1, <2>2, <2>3
<1>3. /\ Tally(p, Hellos) \in Nat /\ Tally(q, Hellos) = Tally(p, Hellos) + n
      /\ Tally(p, F) \in Nat /\ Tally(q, F) = Tally(p, F) + k
  <2> HIDE DEF F
  <2> QED
    BY <1>1, <1>2, UtterTally
<1>4. PICK e \in {0, 1} : e = IF m \in G THEN 1 ELSE 0
  OBVIOUS
<1>5. /\ Tally(t, Hellos) \in Nat /\ Tally(r, Hellos) = Tally(t, Hellos) + 1
      /\ Tally(t, G) \in Nat /\ Tally(r, G) = Tally(t, G) + e
  <2> HIDE DEF G
  <2> QED
    BY <1>1, <1>4, DropTally
<1>6. e = 1 => hc.remote_instance_id # s \/ s = 0
  <2>1. ASSUME m \in G, s # 0 PROVE hc.remote_instance_id # s
    <3>1. m \in Stale(s)
      BY <2>1, HelloSets
    <3>2. NoneStale(r, s) => m \notin Stale(s)
      BY HearKeeps
    <3> QED
      BY <2>1, <3>1, <3>2 DEF OrderedFor
  <2> QED
    BY <1>4, <2>1
<1>7. /\ e = 0 => s # 0 /\ m.instance_id = s
      /\ e = 1 => s = 0 \/ m.instance_id # s
  <2>1. /\ s = 0 => m \in G
        /\ s # 0 => (m \in G <=> m.instance_id # s)
    BY HelloSets DEF Stale
  <2> QED
    BY <1>4, <2>1
<1>8. PICK u \in {0, 1, 2}, y \in {0, 1, 2}, v \in {0, 1, 2} :
          u = Unanswered(hc, s) /\ y = Unanswered(kc, s) /\ v = Unanswered(hs, c)
  BY UnansweredIs
<1>9. /\ e = 1 => u = 2 /\ y = 2
      /\ e = 0 => (n = 1 /\ u = y + 1) \/ (n = 0 /\ u = y)
  <2>1. e = 1 => u = 2 /\ y = 2
    BY <1>6, <1>7, <1>8, UnansweredIs
  <2>2. ASSUME e = 0 PROVE (n = 1 /\ u = y + 1) \/ (n = 0 /\ u = y)
    <3>1. s # 0 /\ m.instance_id = s
      BY <1>7, <2>2
    <3>2. y = IF kc.handshake_completed THEN 0 ELSE 1
      BY <1>8, <3>1, UnansweredIs
    <3>3. CASE hc.remote_instance_id # s
      <4>1. u = 2 /\ w = <<h>>
        BY <1>8, <3>1, <3>3, UnansweredIs
      <4>2. n = 1 /\ kc.handshake_completed = FALSE
        BY <1>2, <3>1, <3>3, <4>1
      <4> QED
        BY <3>2, <4>1, <4>2
    <3>4. CASE hc.remote_instance_id = s
      <4>1. u = IF hc.handshake_completed THEN 0 ELSE 1
        BY <1>8, <3>1, <3>4, UnansweredIs
      <4>2. kc.handshake_completed = TRUE /\ y = 0
        BY <3>1, <3>2, <3>4
      <4>3. CASE hc.handshake_completed
        BY <1>2, <3>1, <3>4, <4>1, <4>2, <4>3
      <4>4. CASE ~hc.handshake_completed
        <5>1. w = <<h, x>>
          BY <3>1, <3>4, <4>4
        <5>2. w # <<>>
          BY <5>1
        <5> QED
          BY <1>2, <4>1, <4>2, <4>4, <5>2
      <4> QED
        BY <4>3, <4>4
    <3> QED
      BY <3>3, <3>4
  <2> QED
    BY <2>1, <2>2
<1>10. PICK a, b, f, g : /\ a = Tally(p, Hellos) /\ b = Tally(t, Hellos)
                         /\ f = Tally(p, F) /\ g = Tally(t, G)
  OBVIOUS
<1>11. /\ Measure(p, r, c, s, hc, hs) = a + (b + 1) + f + v + 2 * ((g + e) + u)
       /\ Measure(q, t, c, s, kc, hs) = (a + n) + b + (f + k) + v + 2 * (g + y)
  BY <1>3, <1>5, <1>8, <1>10 DEF Measure
<1>12. a \in Nat /\ b \in Nat /\ f \in Nat /\ g \in Nat
  BY <1>3, <1>5, <1>10
<1>13. /\ (a + n) + b + (f + k) + v + 2 * (g + y) \in Nat
       /\ (a + n) + b + (f + k) + v + 2 * (g + y)
            < a + (b + 1) + f + v + 2 * ((g + e) + u)
  <2>1. e = 0 \/ e = 1
    OBVIOUS
  <2>2. CASE e = 1
    <3>1. u = 2 /\ y = 2
      BY <1>9, <2>2
    <3>2. n + k \in {0, 1, 2}
      BY <1>2
    <3> QED
      BY <1>12, <2>2, <3>1, <3>2
  <2>3. CASE e = 0 /\ n = 1 /\ u = y + 1
    BY <1>2, <1>12, <2>3
  <2>4. CASE e = 0 /\ n = 0 /\ u = y
    <3>1. k = 0
      BY <1>2, <2>4
    <3> QED
      BY <1>12, <2>4, <3>1
  <2> QED
    BY <1>9, <2>1, <2>2, <2>3, <2>4
<1> QED
  BY <1>11, <1>13

(* and one of the server's version, which has a name of its own            *)
LEMMA ServerMeasure ==
    ASSUME NEW p \in Lines(Words), NEW q, NEW r \in Lines(Words), NEW t,
           NEW c \in Nat, NEW s \in Nat \ {0}, NEW hc, NEW hs, NEW ks,
           NEW m \in Hellos, NEW h \in Greetings(s), NEW x \in Words \ Hellos,
           NEW w \in Seq(Words),
           Utters(r, t, 3, w), Drops(p, q, 1), m = Head(p[1]),
           OrderedFor(p, c, hs),
           ks.remote_instance_id = m.instance_id,
           ks.handshake_completed = (hs.remote_instance_id = m.instance_id),
           hs.remote_instance_id # m.instance_id => w = <<h, x>>,
           hs.remote_instance_id = m.instance_id
             => IF hs.handshake_completed THEN w = <<>> ELSE w = <<h>>
    PROVE  /\ Measure(q, t, c, s, hc, ks) \in Nat
           /\ Measure(q, t, c, s, hc, ks) < Measure(p, r, c, s, hc, hs)
<1> DEFINE F == FormerHello(c)
           G == FormerHello(s)
<1>1. /\ Silence \notin Hellos /\ Silence \notin G /\ 1 \in Places
      /\ w \in {<<>>, <<h>>, <<h, x>>}
  BY HelloSets DEF Places
<1>2. PICK n \in {0, 1} :
          /\ n = HowMany(w, Hellos) /\ HowMany(w, G) = 0
          /\ w = <<>> <=> n = 0
  <2>1. w = <<>> \/ w \in {<<h>>, <<h, x>>}
    BY <1>1
  <2>2. w \in {<<h>>, <<h, x>>} => w # <<>>
    <3>1. <<h>> # <<>> /\ <<h, x>> # <<>>
      OBVIOUS
    <3> QED
      BY <3>1
  <2>3. /\ w = <<>> => HowMany(w, Hellos) = 0 /\ HowMany(w, G) = 0
        /\ w \in {<<h>>, <<h, x>>} => HowMany(w, Hellos) = 1 /\ HowMany(w, G) = 0
    BY OwnHellos
  <2> QED
    BY <2>1, <2>2, <2>3
<1>3. /\ Tally(r, Hellos) \in Nat /\ Tally(t, Hellos) = Tally(r, Hellos) + n
      /\ Tally(r, G) \in Nat /\ Tally(t, G) = Tally(r, G)
  <2> HIDE DEF G
  <2>1. Tally(r, G) \in Nat /\ Tally(t, G) = Tally(r, G) + HowMany(w, G)
    BY <1>1, UtterTally
  <2>2. Tally(r, Hellos) \in Nat /\ Tally(t, Hellos) = Tally(r, Hellos) + HowMany(w, Hellos)
    BY <1>1, UtterTally
  <2> QED
    BY <1>2, <2>1, <2>2
<1>4. PICK e \in {0, 1} : e = IF m \in F THEN 1 ELSE 0
  OBVIOUS
<1>5. /\ Tally(q, Hellos) \in Nat /\ Tally(p, Hellos) = Tally(q, Hellos) + 1
      /\ Tally(q, F) \in Nat /\ Tally(p, F) = Tally(q, F) + e
  <2> HIDE DEF F
  <2> QED
    BY <1>1, <1>4, DropTally
<1>6. e = 1 => hs.remote_instance_id # c \/ c = 0
  <2>1. ASSUME m \in F, c # 0 PROVE hs.remote_instance_id # c
    <3>1. m \in Stale(c)
      BY <2>1, HelloSets
    <3>2. NoneStale(p, c) => m \notin Stale(c)
      BY HearKeeps
    <3> QED
      BY <2>1, <3>1, <3>2 DEF OrderedFor
  <2> QED
    BY <1>4, <2>1
<1>7. /\ e = 0 => c # 0 /\ m.instance_id = c
      /\ e = 1 => c = 0 \/ m.instance_id # c
  <2>1. /\ c = 0 => m \in F
        /\ c # 0 => (m \in F <=> m.instance_id # c)
    BY HelloSets DEF Stale
  <2> QED
    BY <1>4, <2>1
<1>8. PICK u \in {0, 1, 2}, y \in {0, 1, 2}, v \in {0, 1, 2} :
          u = Unanswered(hs, c) /\ y = Unanswered(ks, c) /\ v = Unanswered(hc, s)
  BY UnansweredIs
<1>9. /\ e = 1 => u = 2 /\ y = 2
      /\ e = 0 => (n = 1 /\ u = y + 1) \/ (n = 0 /\ u = y)
  <2>1. e = 1 => u = 2 /\ y = 2
    BY <1>6, <1>7, <1>8, UnansweredIs
  <2>2. ASSUME e = 0 PROVE (n = 1 /\ u = y + 1) \/ (n = 0 /\ u = y)
    <3>1. c # 0 /\ m.instance_id = c
      BY <1>7, <2>2
    <3>2. y = IF ks.handshake_completed THEN 0 ELSE 1
      BY <1>8, <3>1, UnansweredIs
    <3>3. CASE hs.remote_instance_id # c
      <4>1. u = 2 /\ w = <<h, x>>
        BY <1>8, <3>1, <3>3, UnansweredIs
      <4>2. w # <<>>
        BY <4>1
      <4>3. n = 1 /\ ks.handshake_completed = FALSE
        BY <1>2, <3>1, <3>3, <4>2
      <4> QED
        BY <3>2, <4>1, <4>3
    <3>4. CASE hs.remote_instance_id = c
      <4>1. u = IF hs.handshake_completed THEN 0 ELSE 1
        BY <1>8, <3>1, <3>4, UnansweredIs
      <4>2. ks.handshake_completed = TRUE /\ y = 0
        BY <3>1, <3>2, <3>4
      <4>3. CASE hs.handshake_completed
        BY <1>2, <3>1, <3>4, <4>1, <4>2, <4>3
      <4>4. CASE ~hs.handshake_completed
        <5>1. w = <<h>>
          BY <3>1, <3>4, <4>4
        <5>2. w # <<>>
          BY <5>1
        <5> QED
          BY <1>2, <4>1, <4>2, <4>4, <5>2
      <4> QED
        BY <4>3, <4>4
    <3> QED
      BY <3>3, <3>4
  <2> QED
    BY <2>1, <2>2
<1>10. PICK a, b, f, g : /\ a = Tally(q, Hellos) /\ b = Tally(r, Hellos)
                         /\ f = Tally(q, F) /\ g = Tally(r, G)
  OBVIOUS
<1>11. /\ Measure(p, r, c, s, hc, hs) = (a + 1) + b + (f + e) + u + 2 * (g + v)
       /\ Measure(q, t, c, s, hc, ks) = a + (b + n) + f + y + 2 * (g + v)
  BY <1>3, <1>5, <1>8, <1>10 DEF Measure
<1>12. a \in Nat /\ b \in Nat /\ f \in Nat /\ g \in Nat
  BY <1>3, <1>5, <1>10
<1>13. /\ a + (b + n) + f + y + 2 * (g + v) \in Nat
       /\ a + (b + n) + f + y + 2 * (g + v) < (a + 1) + b + (f + e) + u + 2 * (g + v)
  BY <1>9, <1>12
<1> QED
  BY <1>11, <1>13
-----------------------------------------------------------------------------
(* The tasks of the client *)

(* A Hello of another instance is a foreign one for each.                  *)
LEMMA ClientConnectOrder ==
    ASSUME OrderInv, HelloOrder, ClientRunConnected
    PROVE  HelloOrder'
<1> DEFINE id == clientClock + 1
           h == C!MakeHello(ClientVersion, id)
           w == <<Silence, h>>
<1>1. SessionInv /\ ClientTask
  BY DEF OrderInv, ClientTask
<1>2. /\ client'.instance_id = id /\ client'.handshake = C!LocalHelloSent(C!Reset)
      /\ client'.telemetry_requested = FALSE
      /\ clientEffects' = <<C!StopPing, C!SendMessage(h)>>
  BY DEF ClientRunConnected, C!RunConnected, C!TransportConnected
<1>3. /\ client'.handshake.remote_instance_id = C!NoInstance
      /\ client'.handshake.handshake_completed = FALSE
      /\ server' = server
  BY <1>1, <1>2, NoInstanceIsNone, ClientTaskIs
<1>4. /\ LineFree(ToServerLine, Greetings(id))
      /\ server.handshake.remote_instance_id # id
      /\ id \in Nat
  BY FreshToServer
<1>5. h \in Greetings(id) /\ h \in Hellos /\ Silence \in Words \ Hellos
  BY <1>4, MadeHellos, WordFacts, AllHaveWords DEF Greetings
<1>6. WordsOf("SendMessage", clientEffects') = w
  <2>1. WordOf("SendMessage", C!StopPing) = Silence
        /\ WordOf("SendMessage", C!SendMessage(h)) = h
    BY WordsAre DEF C!StopPing
  <2> QED
    BY <1>2, <2>1, ShortWords
<1>7. w \in Seq(Words) /\ Free(w, Stale(id))
  BY <1>5, OwnSpeech
<1>8. PICK p, q, r, t : /\ p = ToServerLine /\ q = ToServerLine'
                        /\ r = ToClientLine /\ t = ToClientLine'
  OBVIOUS
<1>9. /\ p \in Lines(Words) /\ Utters(p, q, 4, w)
      /\ r \in Lines(Words) /\ Drops(r, t, 1)
  BY <1>1, <1>6, <1>8, LinesType, ClientTaskLines
<1> HIDE DEF id, h, w
<1>10. OrderedFor(q, client'.instance_id, server'.handshake)
  <2>1. InOrder(p, id)
    BY <1>4, <1>8, FreshIsInOrder
  <2>2. InOrder(q, id)
    BY <1>7, <1>9, <2>1, UtterKeeps
  <2> QED
    BY <1>2, <1>3, <1>4, <2>2 DEF OrderedFor
<1>11. OrderedFor(t, server'.instance_id, client'.handshake)
  <2>1. Orderly(r, t)
    BY <1>9, HearKeeps
  <2>2. OrderedFor(r, server.instance_id, client.handshake) /\ server.instance_id \in Nat
    BY <1>1, <1>8, PresentHellos DEF HelloOrder
  <2>3. PICK s, hc, kc : /\ s = server.instance_id /\ hc = client.handshake
                         /\ kc = client'.handshake
    OBVIOUS
  <2>4. OrderedFor(t, s, kc)
    BY <1>3, <2>1, <2>2, <2>3, OrderedKept
  <2> QED
    BY <1>3, <2>3, <2>4
<1>12. RequestFollows'
  BY <1>2, <1>3 DEF RequestFollows
<1> QED
  BY <1>3, <1>8, <1>10, <1>11, <1>12 DEF HelloOrder

(* A disconnect keeps the order,                                           *)
LEMMA ClientDisconnectOrder ==
    ASSUME SessionInv, HelloOrder, ClientStep, C!RunDisconnected
    PROVE  HelloOrder'
<1> DEFINE w == <<Silence>>
<1>1. ClientTask
  BY DEF ClientTask
<1>2. /\ client'.handshake = C!Reset /\ client'.telemetry_requested = FALSE
      /\ client'.instance_id = client.instance_id
      /\ clientEffects' = <<C!StopPing>>
  <2>1. client \in C!ClientStates
    BY DEF SessionInv, ClientInv, ClientState
  <2> QED
    BY <2>1 DEF C!RunDisconnected, C!TransportDisconnected, C!ClientStates
<1>3. WordsOf("SendMessage", clientEffects') = w /\ w \in Seq(Words) /\ Free(w, Hellos)
  <2>1. WordOf("SendMessage", C!StopPing) = Silence
    BY WordsAre DEF C!StopPing
  <2>2. Silence \in Words /\ Silence \notin Hellos
    BY WordFacts, AllHaveWords
  <2> QED
    BY <1>2, <2>1, <2>2, ShortWords, ShortSpeeches
<1>4. PICK p, q, r, t : /\ p = ToServerLine /\ q = ToServerLine'
                        /\ r = ToClientLine /\ t = ToClientLine'
  OBVIOUS
<1>5. /\ p \in Lines(Words) /\ Utters(p, q, 4, w)
      /\ r \in Lines(Words) /\ Drops(r, t, 1)
  BY <1>1, <1>3, <1>4, LinesType, ClientTaskLines
<1> HIDE DEF w
<1>6. Orderly(p, q) /\ Orderly(r, t)
  BY <1>3, <1>5, UtterKeeps, CalmFacts, HearKeeps
<1>7. RequestFollows' /\ client'.handshake.remote_instance_id = C!NoInstance
  BY <1>2, NoInstanceIsNone DEF RequestFollows
<1>8. server' = server
  BY <1>1, ClientTaskIs
<1> QED
  BY <1>2, <1>4, <1>6, <1>7, <1>8, ClientResets

(* a foreign Hello is one Hello less,                                      *)
LEMMA ClientForeignFalls ==
    ASSUME SessionInv, SessionInv', HelloOrder, ClientStep, C!RunReceived,
           C!HandleForeignHello(Head(clientStrand).bytes)
    PROVE  HelloOrder' /\ HellosLeft' \in 0..HellosLeft /\ HellosLeft' < HellosLeft
<1> DEFINE m == Head(clientStrand).bytes
           x == C!MakeWrongProtocolVersionError
           w == <<x>>
<1>1. /\ ClientTask
      /\ Head(ToClientLine[1]) = m /\ m \in FromServer /\ m \in C!Message
  BY ClientHearing
<1>2. ClientVersion # ServerVersion /\ m \in Hellos
  BY <1>1 DEF C!HandleForeignHello, FromServer, Hellos, Words
<1>3. /\ client.handshake.remote_instance_id = C!NoInstance
      /\ server.handshake.remote_instance_id = C!NoInstance
  BY <1>2 DEF HelloOrder
<1>4. /\ client'.handshake = C!Reset /\ client'.instance_id = client.instance_id
      /\ client'.telemetry_requested = client.telemetry_requested
      /\ clientEffects' = <<C!SendMessage(x)>>
  <2>1. client \in C!ClientStates
    BY DEF SessionInv, ClientInv, ClientState
  <2> QED
    BY <2>1 DEF C!HandleForeignHello, C!ClientStates
<1>5. RequestFollows' /\ client'.handshake.remote_instance_id = C!NoInstance
  <2>1. client.telemetry_requested = FALSE
    BY <1>2 DEF SessionInv, ClientInv, ClientState, C!ClientStates
  <2> QED
    BY <1>4, <2>1, NoInstanceIsNone DEF RequestFollows
<1>6. WordsOf("SendMessage", clientEffects') = w /\ w \in Seq(Words) /\ Free(w, Hellos)
  <2>1. x \in Words /\ x \notin Hellos
    BY DEF Words, Hellos, C!Message, C!MessagesWith, C!ErrorMessages,
           C!MakeWrongProtocolVersionError, C!MakeError
  <2>2. WordOf("SendMessage", C!SendMessage(x)) = x
    BY WordsAre
  <2> HIDE DEF x
  <2> QED
    BY <1>4, <2>1, <2>2, ShortWords, ShortSpeeches
<1>7. PICK p, q, r, t : /\ p = ToServerLine /\ q = ToServerLine'
                        /\ r = ToClientLine /\ t = ToClientLine'
  OBVIOUS
<1>8. /\ p \in Lines(Words) /\ Utters(p, q, 4, w)
      /\ r \in Lines(Words) /\ Drops(r, t, 1) /\ m = Head(r[1])
  BY <1>1, <1>6, <1>7, LinesType, ClientTaskLines
<1> HIDE DEF w, m
<1>9. Orderly(p, q) /\ Orderly(r, t) /\ Thinner(p, q) /\ Thinner(r, t)
  <2>1. 1 \in Places
    BY DEF Places
  <2>2. Orderly(p, q) /\ Thinner(p, q)
    BY <1>6, <1>8, TameLine
  <2>3. Orderly(r, t) /\ Thinner(r, t)
    BY <1>8, <2>1, TameLine
  <2> QED
    BY <2>2, <2>3
<1>10. server' = server
  BY <1>1, ClientTaskIs
<1>11. HelloOrder'
  BY <1>4, <1>5, <1>7, <1>9, <1>10, ClientResets
<1>12. PICK c, s, hc, hs, kc :
           /\ c = client.instance_id /\ s = server.instance_id
           /\ hc = client.handshake /\ hs = server.handshake /\ kc = client'.handshake
  OBVIOUS
<1>13. HellosLeft = Measure(p, r, c, s, hc, hs) /\ HellosLeft' = Measure(q, t, c, s, kc, hs)
  BY <1>4, <1>7, <1>10, <1>12, MeasureIs
<1>14. Unanswered(kc, s) = Unanswered(hc, s)
  <2>1. s \in Nat /\ C!NoInstance \notin Nat
    BY <1>12, PresentHellos, NoInstanceIsNone
  <2>2. hc.remote_instance_id # s /\ kc.remote_instance_id # s
    BY <1>3, <1>5, <1>12, <2>1
  <2>3. Unanswered(kc, s) = 2 /\ Unanswered(hc, s) = 2
    BY <2>2, UnansweredIs
  <2> QED
    BY <2>3
<1>15. Tally(t, Hellos) < Tally(r, Hellos)
  <2>1. 1 \in Places
    BY DEF Places
  <2>2. Tally(t, Hellos) \in Nat /\ Tally(r, Hellos) = Tally(t, Hellos) + 1
    BY <1>2, <1>8, <2>1, DropTally
  <2> QED
    BY <2>2
<1>16. /\ Measure(q, t, c, s, kc, hs) \in 0..Measure(p, r, c, s, hc, hs)
       /\ Measure(q, t, c, s, kc, hs) < Measure(p, r, c, s, hc, hs)
  BY <1>9, <1>14, <1>15, MeasureFalls
<1> QED
  BY <1>11, <1>13, <1>16

(* and one of the common version is one, with what it can give rise to.    *)
LEMMA ClientGreetedFalls ==
    ASSUME SessionInv, SessionInv', HelloOrder, ClientStep, C!RunReceived,
           C!HandleHello(Head(clientStrand).bytes)
    PROVE  HelloOrder' /\ HellosLeft' \in 0..HellosLeft /\ HellosLeft' < HellosLeft
<1> DEFINE m == Head(clientStrand).bytes
           h == HelloOfClient
           x == C!MakeTelemetryStart
<1>1. /\ ClientTask
      /\ Head(ToClientLine[1]) = m /\ m \in FromServer /\ m \in C!Message
  BY ClientHearing
<1>2. ClientVersion = ServerVersion /\ m \in Hellos
  BY <1>1 DEF C!HandleHello, FromServer, Hellos, Words
<1>3. PICK w : w = WordsOf("SendMessage", clientEffects')
  OBVIOUS
<1>4. /\ client'.instance_id = client.instance_id
      /\ client'.handshake.remote_instance_id = m.instance_id
      /\ client'.handshake.handshake_completed
           = (client.handshake.remote_instance_id = m.instance_id)
      /\ RequestFollows'
      /\ client.handshake.remote_instance_id # m.instance_id => w = <<h>>
      /\ client.handshake.remote_instance_id = m.instance_id
         => IF client.handshake.handshake_completed THEN w = <<>> ELSE w = <<h, x>>
  <2>1. RequestFollows
    BY DEF HelloOrder
  <2> QED
    BY <1>3, <2>1, ClientGreeted
<1>5. server' = server
  BY <1>1, ClientTaskIs
<1>6. PICK p, q, r, t : /\ p = ToServerLine /\ q = ToServerLine'
                        /\ r = ToClientLine /\ t = ToClientLine'
  OBVIOUS
<1>7. /\ p \in Lines(Words) /\ Utters(p, q, 4, w) /\ w \in Seq(Words)
      /\ r \in Lines(Words) /\ Drops(r, t, 1) /\ m = Head(r[1])
  BY <1>1, <1>3, <1>6, LinesType, ClientTaskLines
<1>8. PICK c, s, hc, hs, kc :
           /\ c = client.instance_id /\ s = server.instance_id
           /\ hc = client.handshake /\ hs = server.handshake /\ kc = client'.handshake
  OBVIOUS
<1>9. /\ c \in Nat /\ s \in Nat /\ h \in Greetings(c) /\ x \in Words \ Hellos
  <2>1. x \in Words
    BY DEF Words, C!Message, C!MessagesWith
  <2> QED
    BY <1>8, <2>1, PresentHellos, WordFacts
<1>10. OrderedFor(p, c, hs) /\ OrderedFor(r, s, hc)
  BY <1>6, <1>8 DEF HelloOrder
<1> HIDE DEF m, h, x
<1>11. OrderedFor(q, c, hs)
  <2>1. w \in {<<>>, <<h>>, <<h, x>>}
    BY <1>4
  <2>2. Free(w, Stale(c))
    BY <1>9, <2>1, OwnSpeech
  <2>3. /\ InOrder(p, c) => InOrder(q, c)
        /\ NoneStale(p, c) => NoneStale(q, c)
    BY <1>7, <2>2, UtterKeeps
  <2> QED
    BY <1>10, <2>3 DEF OrderedFor
<1>12. OrderedFor(t, s, kc)
  <2>1. /\ InOrder(r, s) => InOrder(t, s)
        /\ m \in Greetings(s) /\ InOrder(r, s) => NoneStale(t, s)
    BY <1>7, HearKeeps DEF Orderly
  <2>2. kc.remote_instance_id = s => m \in Greetings(s)
    BY <1>2, <1>4, <1>8 DEF Greetings
  <2> QED
    BY <1>10, <2>1, <2>2 DEF OrderedFor
<1>13. HelloOrder'
  BY <1>2, <1>4, <1>5, <1>6, <1>8, <1>11, <1>12 DEF HelloOrder
<1>14. HellosLeft = Measure(p, r, c, s, hc, hs) /\ HellosLeft' = Measure(q, t, c, s, kc, hs)
  BY <1>4, <1>5, <1>6, <1>8, MeasureIs
<1>15. /\ kc.remote_instance_id = m.instance_id
       /\ kc.handshake_completed = (hc.remote_instance_id = m.instance_id)
       /\ hc.remote_instance_id # m.instance_id => w = <<h>>
       /\ hc.remote_instance_id = m.instance_id
          => IF hc.handshake_completed THEN w = <<>> ELSE w = <<h, x>>
  BY <1>4, <1>8
<1>16. /\ Measure(q, t, c, s, kc, hs) \in Nat
       /\ Measure(q, t, c, s, kc, hs) < Measure(p, r, c, s, hc, hs)
  <2>1. PICK mm, hh, xx : mm = m /\ hh = h /\ xx = x
    OBVIOUS
  <2>2. mm \in Hellos /\ hh \in Greetings(c) /\ xx \in Words \ Hellos /\ mm = Head(r[1])
    BY <1>2, <1>7, <1>9, <2>1
  <2>3. /\ kc.remote_instance_id = mm.instance_id
        /\ kc.handshake_completed = (hc.remote_instance_id = mm.instance_id)
        /\ hc.remote_instance_id # mm.instance_id => w = <<hh>>
        /\ hc.remote_instance_id = mm.instance_id
           => IF hc.handshake_completed THEN w = <<>> ELSE w = <<hh, xx>>
    BY <1>15, <2>1
  <2>4. OrderedFor(r, s, hc) /\ c \in Nat /\ s \in Nat
    BY <1>9, <1>10
  <2> QED
    BY <1>7, <2>2, <2>3, <2>4, ClientMeasure
<1>17. Measure(p, r, c, s, hc, hs) \in Nat
  <2>1. Thinner(p, p) /\ Thinner(r, r)
    BY <1>7, TameLine DEF Carries
  <2> QED
    BY <2>1, MeasureFalls
<1> QED
  BY <1>13, <1>14, <1>16, <1>17

(* Everything that the client hears keeps the order and the measure, and a *)
(* Hello brings it down.                                                   *)
LEMMA ClientReceiveFalls ==
    ASSUME SessionInv, SessionInv', HelloOrder, ClientStep, C!RunReceived
    PROVE  /\ HelloOrder' /\ HellosLeft' \in 0..HellosLeft
           /\ Head(clientStrand).bytes \in AnyHello => HellosLeft' < HellosLeft
<1> DEFINE m == Head(clientStrand).bytes
<1>1. /\ ClientTask /\ C!MessageReceived(m)
      /\ Head(ToClientLine[1]) = m
  BY ClientHearing
<1>2. CASE C!HandleForeignHello(m)
  BY <1>2, ClientForeignFalls
<1>3. CASE C!HandleHello(m)
  BY <1>3, ClientGreetedFalls
<1>4. CASE m.type # "Hello"
  <2>1. PICK w : w = WordsOf("SendMessage", clientEffects')
    OBVIOUS
  <2>2. /\ client' = client /\ server' = server
        /\ w \in Seq(Words) /\ Free(w, Hellos)
    BY <1>1, <1>4, <2>1, ClientUngreeted, ClientTaskIs
  <2>3. Utters(ToServerLine, ToServerLine', 4, w) /\ Drops(ToClientLine, ToClientLine', 1)
    BY <1>1, <2>1, ClientTaskLines
  <2>4. 1 \in Places
    BY DEF Places
  <2>5. Tame
    BY <2>2, <2>3, <2>4, TameIf
  <2> QED
    BY <1>4, <2>5, TameKeeps DEF AnyHello, C!HelloMessages
<1>5. C!HandleForeignHello(m) \/ C!HandleHello(m) \/ m.type # "Hello"
  BY <1>1 DEF C!MessageReceived, C!HandleUnsupported, C!HandleError, C!HandleLogged
<1> QED
  BY <1>2, <1>3, <1>4, <1>5
-----------------------------------------------------------------------------
(* The tasks of the server *)

(* Connected draws an id and greets: the server keeps the order,           *)
LEMMA ServerConnectOrder ==
    ASSUME OrderInv, HelloOrder, ServerRunConnected
    PROVE  HelloOrder'
<1> DEFINE id == serverClock + 1
           h == S!MakeHello(ServerVersion, id)
           w == <<Silence, h>>
<1>1. SessionInv /\ ServerTask
  BY DEF OrderInv, ServerTask
<1>2. /\ server'.instance_id = id /\ server'.handshake = S!LocalHelloSent(S!Reset)
      /\ serverEffects' = <<S!StopTelemetryTimer, S!SendMessage(h)>>
  BY DEF ServerRunConnected, S!RunConnected, S!TransportConnected
<1>3. /\ server'.handshake.remote_instance_id = C!NoInstance
      /\ client' = client
  BY <1>1, <1>2, NoInstanceIsNone, ServerTaskIs
<1>4. /\ LineFree(ToClientLine, Greetings(id))
      /\ client.handshake.remote_instance_id # id
      /\ id \in Nat
  BY FreshToClient
<1>5. h \in Greetings(id) /\ h \in Hellos /\ Silence \in Words \ Hellos
  BY <1>4, MadeHellos, WordFacts, AllHaveWords DEF Greetings
<1>6. WordsOf("SendMessage", serverEffects') = w
  <2>1. WordOf("SendMessage", S!StopTelemetryTimer) = Silence
        /\ WordOf("SendMessage", S!SendMessage(h)) = h
    BY WordsAre DEF S!StopTelemetryTimer
  <2> QED
    BY <1>2, <2>1, ShortWords
<1>7. w \in Seq(Words) /\ Free(w, Stale(id))
  BY <1>5, OwnSpeech
<1>8. PICK p, q, r, t : /\ p = ToServerLine /\ q = ToServerLine'
                        /\ r = ToClientLine /\ t = ToClientLine'
  OBVIOUS
<1>9. /\ p \in Lines(Words) /\ Drops(p, q, 1)
      /\ r \in Lines(Words) /\ Utters(r, t, 3, w)
  BY <1>1, <1>6, <1>8, LinesType, ServerTaskLines
<1> HIDE DEF id, h, w
<1>10. OrderedFor(t, server'.instance_id, client'.handshake)
  <2>1. InOrder(r, id)
    BY <1>4, <1>8, FreshIsInOrder
  <2>2. InOrder(t, id)
    BY <1>7, <1>9, <2>1, UtterKeeps
  <2> QED
    BY <1>2, <1>3, <1>4, <2>2 DEF OrderedFor
<1>11. OrderedFor(q, client'.instance_id, server'.handshake)
  <2>1. Orderly(p, q)
    BY <1>9, HearKeeps
  <2>2. OrderedFor(p, client.instance_id, server.handshake) /\ client.instance_id \in Nat
    BY <1>1, <1>8, PresentHellos DEF HelloOrder
  <2>3. PICK c, hs, ks : /\ c = client.instance_id /\ hs = server.handshake
                         /\ ks = server'.handshake
    OBVIOUS
  <2>4. OrderedFor(q, c, ks)
    BY <1>3, <2>1, <2>2, <2>3, OrderedKept
  <2> QED
    BY <1>3, <2>3, <2>4
<1>12. RequestFollows'
  BY <1>3 DEF HelloOrder, RequestFollows
<1>13. client'.handshake.remote_instance_id # C!NoInstance => ClientVersion = ServerVersion
  BY <1>3 DEF HelloOrder
<1> QED
  BY <1>3, <1>8, <1>10, <1>11, <1>12, <1>13 DEF HelloOrder

(* a disconnect resets it and keeps the order,                             *)
LEMMA ServerDisconnectOrder ==
    ASSUME SessionInv, HelloOrder, ServerStep, S!RunDisconnected
    PROVE  HelloOrder'
<1> DEFINE w == <<Silence>>
<1>1. ServerTask
  BY DEF ServerTask
<1>2. /\ server'.handshake = S!Reset /\ server'.instance_id = server.instance_id
      /\ serverEffects' = <<S!StopTelemetryTimer>>
  <2>1. server \in S!ServerStates
    BY DEF SessionInv, ServerInv, ServerState
  <2> QED
    BY <2>1 DEF S!RunDisconnected, S!TransportDisconnected, S!ServerStates
<1>3. WordsOf("SendMessage", serverEffects') = w /\ w \in Seq(Words) /\ Free(w, Hellos)
  <2>1. WordOf("SendMessage", S!StopTelemetryTimer) = Silence
    BY WordsAre DEF S!StopTelemetryTimer
  <2>2. Silence \in Words /\ Silence \notin Hellos
    BY WordFacts, AllHaveWords
  <2> QED
    BY <1>2, <2>1, <2>2, ShortWords, ShortSpeeches
<1>4. PICK p, q, r, t : /\ p = ToServerLine /\ q = ToServerLine'
                        /\ r = ToClientLine /\ t = ToClientLine'
  OBVIOUS
<1>5. /\ p \in Lines(Words) /\ Drops(p, q, 1)
      /\ r \in Lines(Words) /\ Utters(r, t, 3, w)
  BY <1>1, <1>3, <1>4, LinesType, ServerTaskLines
<1> HIDE DEF w
<1>6. Orderly(p, q) /\ Orderly(r, t)
  BY <1>3, <1>5, UtterKeeps, CalmFacts, HearKeeps
<1>7. server'.handshake.remote_instance_id = C!NoInstance
  BY <1>2, NoInstanceIsNone
<1>8. client' = client
  BY <1>1, ServerTaskIs
<1> QED
  BY <1>2, <1>4, <1>6, <1>7, <1>8, ServerResets

(* a foreign Hello is one Hello less,                                      *)
LEMMA ServerForeignFalls ==
    ASSUME SessionInv, SessionInv', HelloOrder, ServerStep, S!RunReceived,
           S!HandleForeignHello(Head(serverStrand).bytes)
    PROVE  HelloOrder' /\ HellosLeft' \in 0..HellosLeft /\ HellosLeft' < HellosLeft
<1> DEFINE m == Head(serverStrand).bytes
           x == S!MakeWrongProtocolVersionError
           w == <<x>>
<1>1. /\ ServerTask
      /\ Head(ToServerLine[1]) = m /\ m \in FromClient /\ m \in C!Message
  BY ServerHearing
<1>2. ClientVersion # ServerVersion /\ m \in Hellos
  BY <1>1 DEF S!HandleForeignHello, FromClient, Hellos, Words
<1>3. /\ client.handshake.remote_instance_id = C!NoInstance
      /\ server.handshake.remote_instance_id = C!NoInstance
  BY <1>2 DEF HelloOrder
<1>4. /\ server'.handshake = S!Reset /\ server'.instance_id = server.instance_id
      /\ serverEffects' = <<S!SendMessage(x)>>
  <2>1. server \in S!ServerStates
    BY DEF SessionInv, ServerInv, ServerState
  <2> QED
    BY <2>1 DEF S!HandleForeignHello, S!ServerStates
<1>5. server'.handshake.remote_instance_id = C!NoInstance
  BY <1>4, NoInstanceIsNone
<1>6. WordsOf("SendMessage", serverEffects') = w /\ w \in Seq(Words) /\ Free(w, Hellos)
  <2>1. x \in Words /\ x \notin Hellos
    BY DEF Words, Hellos, C!Message, C!MessagesWith, C!ErrorMessages,
           C!MakeWrongProtocolVersionError, C!MakeError,
           S!MakeWrongProtocolVersionError, S!MakeError
  <2>2. WordOf("SendMessage", S!SendMessage(x)) = x
    BY WordsAre
  <2> HIDE DEF x
  <2> QED
    BY <1>4, <2>1, <2>2, ShortWords, ShortSpeeches
<1>7. PICK p, q, r, t : /\ p = ToServerLine /\ q = ToServerLine'
                        /\ r = ToClientLine /\ t = ToClientLine'
  OBVIOUS
<1>8. /\ p \in Lines(Words) /\ Drops(p, q, 1) /\ m = Head(p[1])
      /\ r \in Lines(Words) /\ Utters(r, t, 3, w)
  BY <1>1, <1>6, <1>7, LinesType, ServerTaskLines
<1> HIDE DEF w, m
<1>9. Orderly(p, q) /\ Orderly(r, t) /\ Thinner(p, q) /\ Thinner(r, t)
  <2>1. 1 \in Places
    BY DEF Places
  <2>2. Orderly(p, q) /\ Thinner(p, q)
    BY <1>8, <2>1, TameLine
  <2>3. Orderly(r, t) /\ Thinner(r, t)
    BY <1>6, <1>8, TameLine
  <2> QED
    BY <2>2, <2>3
<1>10. client' = client
  BY <1>1, ServerTaskIs
<1>11. HelloOrder'
  BY <1>4, <1>5, <1>7, <1>9, <1>10, ServerResets
<1>12. PICK c, s, hc, hs, ks :
           /\ c = client.instance_id /\ s = server.instance_id
           /\ hc = client.handshake /\ hs = server.handshake /\ ks = server'.handshake
  OBVIOUS
<1>13. HellosLeft = Measure(p, r, c, s, hc, hs) /\ HellosLeft' = Measure(q, t, c, s, hc, ks)
  BY <1>4, <1>7, <1>10, <1>12, MeasureIs
<1>14. Unanswered(ks, c) = Unanswered(hs, c)
  <2>1. c \in Nat /\ C!NoInstance \notin Nat
    BY <1>12, PresentHellos, NoInstanceIsNone
  <2>2. hs.remote_instance_id # c /\ ks.remote_instance_id # c
    BY <1>3, <1>5, <1>12, <2>1
  <2>3. Unanswered(ks, c) = 2 /\ Unanswered(hs, c) = 2
    BY <2>2, UnansweredIs
  <2> QED
    BY <2>3
<1>15. Tally(q, Hellos) < Tally(p, Hellos)
  <2>1. 1 \in Places
    BY DEF Places
  <2>2. Tally(q, Hellos) \in Nat /\ Tally(p, Hellos) = Tally(q, Hellos) + 1
    BY <1>2, <1>8, <2>1, DropTally
  <2> QED
    BY <2>2
<1>16. /\ Measure(q, t, c, s, hc, ks) \in 0..Measure(p, r, c, s, hc, hs)
       /\ Measure(q, t, c, s, hc, ks) < Measure(p, r, c, s, hc, hs)
  BY <1>9, <1>14, <1>15, MeasureFalls
<1> QED
  BY <1>11, <1>13, <1>16

(* A server that has been sent a message has a name.                       *)
LEMMA ServerIsNamed ==
    ASSUME SessionInv, ServerStep, S!RunReceived
    PROVE  server.instance_id \in Nat \ {0}
<1>1. /\ serverStrand # <<>> /\ serverStrand \in Seq(ServerTasks)
      /\ Head(serverStrand).task = "Received"
  BY DEF S!RunReceived, S!TakeTask, SessionInv, ServerInv
<1>2. 1 \in 1..Len(serverStrand) /\ serverStrand[1].task = "Received"
  BY <1>1
<1>3. Contacted(1 - 1)
  BY <1>2 DEF SessionInv, ServerInv, StrandInOrder
<1>4. ~\E j \in 1..(1 - 1) : TRUE
  OBVIOUS
<1>5. server.instance_id # 0
  BY <1>3, <1>4 DEF Contacted, C!ZeroInstance
<1> QED
  BY <1>5, PresentHellos

(* and one of the common version is one, with what it can give rise to.    *)
LEMMA ServerGreetedFalls ==
    ASSUME SessionInv, SessionInv', HelloOrder, ServerStep, S!RunReceived,
           S!HandleHello(Head(serverStrand).bytes)
    PROVE  HelloOrder' /\ HellosLeft' \in 0..HellosLeft /\ HellosLeft' < HellosLeft
<1> DEFINE m == Head(serverStrand).bytes
           h == HelloOfServer
           x == Silence
<1>1. /\ ServerTask
      /\ Head(ToServerLine[1]) = m /\ m \in FromClient /\ m \in C!Message
  BY ServerHearing
<1>2. ClientVersion = ServerVersion /\ m \in Hellos
  BY <1>1 DEF S!HandleHello, FromClient, Hellos, Words
<1>3. PICK w : w = WordsOf("SendMessage", serverEffects')
  OBVIOUS
<1>4. /\ server'.instance_id = server.instance_id
      /\ server'.handshake.remote_instance_id = m.instance_id
      /\ server'.handshake.handshake_completed
           = (server.handshake.remote_instance_id = m.instance_id)
      /\ server.handshake.remote_instance_id # m.instance_id => w = <<h, x>>
      /\ server.handshake.remote_instance_id = m.instance_id
         => IF server.handshake.handshake_completed THEN w = <<>> ELSE w = <<h>>
  BY <1>3, ServerGreeted
<1>5. client' = client /\ RequestFollows'
  <2>1. client' = client
    BY <1>1, ServerTaskIs
  <2> QED
    BY <2>1 DEF HelloOrder, RequestFollows
<1>6. PICK p, q, r, t : /\ p = ToServerLine /\ q = ToServerLine'
                        /\ r = ToClientLine /\ t = ToClientLine'
  OBVIOUS
<1>7. /\ p \in Lines(Words) /\ Drops(p, q, 1) /\ m = Head(p[1])
      /\ r \in Lines(Words) /\ Utters(r, t, 3, w) /\ w \in Seq(Words)
  BY <1>1, <1>3, <1>6, LinesType, ServerTaskLines
<1>8. PICK c, s, hc, hs, ks :
           /\ c = client.instance_id /\ s = server.instance_id
           /\ hc = client.handshake /\ hs = server.handshake /\ ks = server'.handshake
  OBVIOUS
<1>9. /\ c \in Nat /\ s \in Nat \ {0} /\ h \in Greetings(s) /\ x \in Words \ Hellos
  BY <1>8, PresentHellos, ServerIsNamed, WordFacts, AllHaveWords
<1>10. OrderedFor(p, c, hs) /\ OrderedFor(r, s, hc)
  BY <1>6, <1>8 DEF HelloOrder
<1> HIDE DEF m, h, x
<1>11. OrderedFor(t, s, hc)
  <2>1. w \in {<<>>, <<h>>, <<h, x>>}
    BY <1>4
  <2>2. Free(w, Stale(s))
    BY <1>9, <2>1, OwnSpeech
  <2>3. /\ InOrder(r, s) => InOrder(t, s)
        /\ NoneStale(r, s) => NoneStale(t, s)
    BY <1>7, <2>2, UtterKeeps
  <2> QED
    BY <1>10, <2>3 DEF OrderedFor
<1>12. OrderedFor(q, c, ks)
  <2>1. /\ InOrder(p, c) => InOrder(q, c)
        /\ m \in Greetings(c) /\ InOrder(p, c) => NoneStale(q, c)
    BY <1>7, HearKeeps DEF Orderly
  <2>2. ks.remote_instance_id = c => m \in Greetings(c)
    BY <1>2, <1>4, <1>8 DEF Greetings
  <2> QED
    BY <1>10, <2>1, <2>2 DEF OrderedFor
<1>13. HelloOrder'
  BY <1>2, <1>4, <1>5, <1>6, <1>8, <1>11, <1>12 DEF HelloOrder
<1>14. HellosLeft = Measure(p, r, c, s, hc, hs) /\ HellosLeft' = Measure(q, t, c, s, hc, ks)
  BY <1>4, <1>5, <1>6, <1>8, MeasureIs
<1>15. /\ ks.remote_instance_id = m.instance_id
       /\ ks.handshake_completed = (hs.remote_instance_id = m.instance_id)
       /\ hs.remote_instance_id # m.instance_id => w = <<h, x>>
       /\ hs.remote_instance_id = m.instance_id
          => IF hs.handshake_completed THEN w = <<>> ELSE w = <<h>>
  BY <1>4, <1>8
<1>16. /\ Measure(q, t, c, s, hc, ks) \in Nat
       /\ Measure(q, t, c, s, hc, ks) < Measure(p, r, c, s, hc, hs)
  <2>1. PICK mm, hh, xx : mm = m /\ hh = h /\ xx = x
    OBVIOUS
  <2>2. mm \in Hellos /\ hh \in Greetings(s) /\ xx \in Words \ Hellos /\ mm = Head(p[1])
    BY <1>2, <1>7, <1>9, <2>1
  <2>3. /\ ks.remote_instance_id = mm.instance_id
        /\ ks.handshake_completed = (hs.remote_instance_id = mm.instance_id)
        /\ hs.remote_instance_id # mm.instance_id => w = <<hh, xx>>
        /\ hs.remote_instance_id = mm.instance_id
           => IF hs.handshake_completed THEN w = <<>> ELSE w = <<hh>>
    BY <1>15, <2>1
  <2>4. OrderedFor(p, c, hs) /\ c \in Nat /\ s \in Nat \ {0}
    BY <1>9, <1>10
  <2> QED
    BY <1>7, <2>2, <2>3, <2>4, ServerMeasure
<1>17. Measure(p, r, c, s, hc, hs) \in Nat
  <2>1. Thinner(p, p) /\ Thinner(r, r)
    BY <1>7, TameLine DEF Carries
  <2> QED
    BY <2>1, MeasureFalls
<1> QED
  BY <1>13, <1>14, <1>16, <1>17

(* What the server does with any other message keeps its handshake and     *)
(* says no Hello.                                                          *)
LEMMA ServerUngreeted ==
    ASSUME SessionInv, NEW m, S!MessageReceived(m), m.type # "Hello"
    PROVE  /\ server'.instance_id = server.instance_id
           /\ server'.handshake = server.handshake
           /\ WordsOf("SendMessage", serverEffects') \in Seq(Words)
           /\ Free(WordsOf("SendMessage", serverEffects'), Hellos)
<1>1. server \in S!ServerStates
  BY DEF SessionInv, ServerInv, ServerState
<1>2. /\ server'.instance_id = server.instance_id
      /\ server'.handshake = server.handshake
  BY <1>1 DEF S!MessageReceived, S!HandleForeignHello, S!HandleHello, S!HandleTelemetryStart,
     S!HandlePing, S!HandleUnsupported, S!HandleError, S!HandleCapabilitySet, S!ServerStates
<1>3. PICK x \in {S!MakePong, S!MakeUnsupportedMessageTypeError} :
          \/ serverEffects' = <<>>
          \/ serverEffects' = <<S!StartTelemetryTimer>>
          \/ serverEffects' = <<S!SendMessage(x)>>
  BY DEF S!MessageReceived, S!HandleForeignHello, S!HandleHello, S!HandleTelemetryStart,
     S!HandlePing, S!HandleUnsupported, S!HandleError, S!HandleCapabilitySet
<1>4. /\ x \in Words /\ x \notin Hellos /\ Silence \in Words /\ Silence \notin Hellos
  <2>1. x \in Words /\ x \notin Hellos
    BY <1>3
    DEF Words, Hellos, C!Message, C!MessagesWith, C!MakePong, S!MakePong, C!ErrorMessages,
        C!MakeUnsupportedMessageTypeError, C!MakeError,
        S!MakeUnsupportedMessageTypeError, S!MakeError
  <2> QED
    BY <2>1, WordFacts, AllHaveWords
<1>5. \/ WordsOf("SendMessage", serverEffects') = <<>>
      \/ WordsOf("SendMessage", serverEffects') = <<Silence>>
      \/ WordsOf("SendMessage", serverEffects') = <<x>>
  <2>1. WordOf("SendMessage", S!StartTelemetryTimer) = Silence
        /\ WordOf("SendMessage", S!SendMessage(x)) = x
    BY WordsAre DEF S!StartTelemetryTimer
  <2> QED
    BY <1>3, <2>1, ShortWords
<1>6. /\ <<>> \in Seq(Words) /\ Free(<<>>, Hellos)
      /\ <<Silence>> \in Seq(Words) /\ Free(<<Silence>>, Hellos)
      /\ <<x>> \in Seq(Words) /\ Free(<<x>>, Hellos)
  BY <1>4, ShortSpeeches
<1> QED
  BY <1>2, <1>5, <1>6

(* A task of the server that keeps its handshake and says no Hello is tame.*)
LEMMA ServerTaskIsTame ==
    ASSUME SessionInv, ServerTask, NEW w, w = WordsOf("SendMessage", serverEffects'),
           w \in Seq(Words), Free(w, Hellos),
           server'.instance_id = server.instance_id, server'.handshake = server.handshake
    PROVE  Tame
<1>1. client' = client
  BY ServerTaskIs
<1>2. Utters(ToClientLine, ToClientLine', 3, w) /\ Drops(ToServerLine, ToServerLine', 1)
  BY ServerTaskLines
<1>3. 1 \in Places
  BY DEF Places
<1> QED
  BY <1>1, <1>2, <1>3, TameIf

(* Everything that the server hears keeps the order and the measure, and a *)
(* Hello brings it down.                                                   *)
LEMMA ServerReceiveFalls ==
    ASSUME SessionInv, SessionInv', HelloOrder, ServerStep, S!RunReceived
    PROVE  /\ HelloOrder' /\ HellosLeft' \in 0..HellosLeft
           /\ Head(serverStrand).bytes \in AnyHello => HellosLeft' < HellosLeft
<1> DEFINE m == Head(serverStrand).bytes
<1>1. /\ ServerTask /\ S!MessageReceived(m)
  BY ServerHearing
<1>2. CASE S!HandleForeignHello(m)
  BY <1>2, ServerForeignFalls
<1>3. CASE S!HandleHello(m)
  BY <1>3, ServerGreetedFalls
<1>4. CASE m.type # "Hello"
  <2>1. PICK w : w = WordsOf("SendMessage", serverEffects')
    OBVIOUS
  <2>2. /\ server'.instance_id = server.instance_id /\ server'.handshake = server.handshake
        /\ w \in Seq(Words) /\ Free(w, Hellos)
    BY <1>1, <1>4, <2>1, ServerUngreeted
  <2>3. Tame
    BY <1>1, <2>1, <2>2, ServerTaskIsTame
  <2> QED
    BY <1>4, <2>3, TameKeeps DEF AnyHello, C!HelloMessages
<1>5. S!HandleForeignHello(m) \/ S!HandleHello(m) \/ m.type # "Hello"
  BY <1>1 DEF S!MessageReceived, S!HandleTelemetryStart, S!HandlePing, S!HandleUnsupported,
     S!HandleError, S!HandleCapabilitySet
<1> QED
  BY <1>2, <1>3, <1>4, <1>5

(* A sample is tame.                                                       *)
LEMMA ServerSampleIsTame ==
    ASSUME SessionInv, ServerStep, S!RunSampleReady
    PROVE  Tame
<1> DEFINE x == S!MakeCpuSample
<1>1. ServerTask
  BY DEF ServerTask
<1>2. /\ server' = server
      /\ serverEffects' = <<>> \/ serverEffects' = <<S!SendMessage(x)>>
  BY DEF S!RunSampleReady, S!CpuSampleReady
<1>3. x \in Words /\ x \notin Hellos
  BY DEF Words, Hellos, C!Message, C!MessagesWith, C!MakeCpuSample, S!MakeCpuSample
<1>4. \/ WordsOf("SendMessage", serverEffects') = <<>>
      \/ WordsOf("SendMessage", serverEffects') = <<x>>
  <2>1. WordOf("SendMessage", S!SendMessage(x)) = x
    BY WordsAre
  <2> QED
    BY <1>2, <2>1, ShortWords
<1> HIDE DEF x
<1>5. /\ <<>> \in Seq(Words) /\ Free(<<>>, Hellos)
      /\ <<x>> \in Seq(Words) /\ Free(<<x>>, Hellos)
  BY <1>3, ShortSpeeches
<1>6. PICK w : w = WordsOf("SendMessage", serverEffects')
  OBVIOUS
<1>7. w \in Seq(Words) /\ Free(w, Hellos)
  BY <1>4, <1>5, <1>6
<1> QED
  BY <1>1, <1>2, <1>6, <1>7, ServerTaskIsTame
-----------------------------------------------------------------------------
(* The exchange runs out. *)

(* To begin with no side has a name or has heard of the other.             *)
LEMMA HelloOrderInitially == Init => HelloOrder
<1> SUFFICES ASSUME Init PROVE HelloOrder
  OBVIOUS
<1>1. client = C!InitialClient /\ server = S!InitialServer
  BY DEF Init, C!ControllerInit, C!Init, S!Init
<1>2. client.instance_id = 0 /\ server.instance_id = 0
  BY <1>1 DEF C!InitialClient, C!ZeroInstance, S!InitialServer, S!ZeroInstance
<1>3. /\ client.handshake.remote_instance_id = C!NoInstance
      /\ server.handshake.remote_instance_id = C!NoInstance
  BY <1>1, NoInstanceIsNone
<1>4. RequestFollows
  BY <1>1, NoInstanceIsNone DEF RequestFollows
<1> QED
  BY <1>2, <1>3, <1>4 DEF HelloOrder, OrderedFor

(* Nothing happens.                                                        *)
LEMMA StutterIsTame ==
    ASSUME SessionInv, UNCHANGED vars
    PROVE  Tame
<1>1. /\ UNCHANGED <<client, clientEffects, clientStrand, toServer, toClient>>
      /\ UNCHANGED <<server, serverEffects, serverStrand, reader, inHand>>
  BY DEF vars, clientProcess, controlOfServer, linkOfServer, wires
<1>2. ToServerLine' = ToServerLine /\ ToClientLine' = ToClientLine
  BY <1>1 DEF ToServerLine, ToClientLine
<1>3. Carries(ToServerLine, ToServerLine') /\ Carries(ToClientLine, ToClientLine')
  BY <1>2 DEF Carries
<1> QED
  BY <1>1, <1>3, TameIf

(* Every step that is no hearing is a start or tame.                       *)
LEMMA OtherSteps ==
    ASSUME OrderInv, HelloOrder, [Next]_vars,
           ~(ClientStep /\ C!RunReceived), ~(ServerStep /\ S!RunReceived)
    PROVE  HelloOrder' /\ (StartsOver \/ Tame)
<1>1. SessionInv /\ SessionInv'
  BY SessionInvStep DEF OrderInv
<1>2. Tame => HelloOrder'
  BY <1>1, TameKeeps
<1>3. CASE ClientWorker
  <2>1. CASE ClientRunConnected
    BY <2>1, ClientConnectOrder DEF StartsOver
  <2>2. CASE ClientStep /\ C!RunDisconnected
    BY <1>1, <2>2, ClientDisconnectOrder DEF StartsOver
  <2>3. CASE ClientQuietWork
    BY <1>1, <1>2, <2>3, AreTame DEF TameSteps
  <2>4. ClientStep => C!RunDisconnected \/ C!RunReceived \/ C!HandleSendMessage \/ C!HandleStopPing
    BY DEF ClientStep
  <2> QED
    BY <1>3, <2>1, <2>2, <2>3, <2>4 DEF ClientWorker, ClientQuietWork
<1>4. CASE ServerWorker \/ ServerSendFails \/ TimerFires
  <2>1. CASE ServerRunConnected
    BY <2>1, ServerConnectOrder DEF StartsOver
  <2>2. CASE ServerStep /\ S!RunDisconnected
    BY <1>1, <2>2, ServerDisconnectOrder DEF StartsOver
  <2>3. CASE ServerStep /\ S!RunSampleReady
    BY <1>1, <1>2, <2>3, ServerSampleIsTame
  <2>4. CASE ServerQuietWork \/ (ServerStep /\ S!HandleStartTelemetryTimerThrows)
    BY <1>1, <1>2, <2>4, AreTame DEF TameSteps
  <2>5. ServerStep => \/ S!RunDisconnected \/ S!RunReceived \/ S!RunSampleReady
                      \/ S!HandleSendMessage \/ S!HandleStartTelemetryTimer
                      \/ S!HandleStartTelemetryTimerThrows \/ S!HandleStopTelemetryTimer
    BY DEF ServerStep
  <2>6. \/ ServerRunConnected \/ ServerStep
        \/ ServerSend \/ ServerSendFindsClosed \/ ServerWorkerReports
        \/ ServerSendFails \/ TimerFires
    BY <1>4 DEF ServerWorker
  <2> QED
    BY <2>1, <2>2, <2>3, <2>4, <2>5, <2>6 DEF ServerQuietWork, EffectStep
<1>5. CASE ClientCrash
  BY <1>1, <1>5, ClientCrashOrder DEF StartsOver
<1>6. CASE ServerCrash
  BY <1>1, <1>6, ServerCrashOrder DEF StartsOver
<1>7. CASE \/ ClientOpen \/ ClientRegister \/ ClientNotify \/ ClientDisconnect \/ ClientReceive
           \/ ServerOpenChannel \/ ServerReader \/ ServerReadFails
           \/ DropToClient \/ DropToServer
  <2>1. TameSteps
    BY <1>7 DEF TameSteps, ServerReader, ReaderStep
  <2> QED
    BY <1>1, <1>2, <2>1, AreTame
<1>8. CASE UNCHANGED vars
  BY <1>1, <1>2, <1>8, StutterIsTame
<1> QED
  BY <1>3, <1>4, <1>5, <1>6, <1>7, <1>8 DEF Next, Faults

(* The measure in any step.                                                *)
LEMMA HelloStep ==
    ASSUME OrderInv, HelloOrder, [Next]_vars
    PROVE  /\ HelloOrder'
           /\ ~StartsOver => /\ HellosLeft' \in 0..HellosLeft
                             /\ HearsHello => HellosLeft' < HellosLeft
<1>1. SessionInv /\ SessionInv'
  BY SessionInvStep DEF OrderInv
<1>2. CASE ClientStep /\ C!RunReceived
  <2>1. ~(ServerStep /\ S!RunReceived)
    BY <1>1, <1>2, OneTaskAtATime DEF ClientTask, ServerTask
  <2> QED
    BY <1>1, <1>2, <2>1, ClientReceiveFalls DEF HearsHello
<1>3. CASE ServerStep /\ S!RunReceived
  <2>1. ~(ClientStep /\ C!RunReceived)
    BY <1>1, <1>3, OneTaskAtATime DEF ClientTask, ServerTask
  <2> QED
    BY <1>1, <1>3, <2>1, ServerReceiveFalls DEF HearsHello
<1>4. CASE ~(ClientStep /\ C!RunReceived) /\ ~(ServerStep /\ S!RunReceived)
  <2>1. HelloOrder' /\ (StartsOver \/ Tame)
    BY <1>4, OtherSteps
  <2>2. ~HearsHello
    BY <1>4 DEF HearsHello
  <2>3. Tame => HellosLeft' \in 0..HellosLeft
    BY <1>1, TameKeeps
  <2> QED
    BY <2>1, <2>2, <2>3
<1> QED
  BY <1>2, <1>3, <1>4

(* An exchange that nothing starts anew comes to an end, whatever may fail:*)
(* each Hello that a side handles brings HellosLeft down by one at least,  *)
(* and no other step raises it.                                            *)
THEOREM SessionHellosRunOut == Spec => HellosRunOut
<1>1. Init => OrderInv /\ HelloOrder
  BY OrderInitially, HelloOrderInitially
<1>2. OrderInv /\ HelloOrder /\ [Next]_vars
      => /\ OrderInv' /\ HelloOrder'
         /\ [~StartsOver => /\ HellosLeft' \in 0..HellosLeft
                            /\ HearsHello => HellosLeft' < HellosLeft]_vars
  BY OrderStep, HelloStep
<1> QED
  BY <1>1, <1>2, PTL DEF Spec, HellosRunOut
=============================================================================
