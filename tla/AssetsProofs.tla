---------------------------- MODULE AssetsProofs ----------------------------
(***************************************************************************)
(* Textures, fonts, sounds and files, whatever the application loads and   *)
(* unloads and when: the assets drained and not finished, followed by the  *)
(* jobs in the loader, are one queue in the order of the loads (InFlight), *)
(* and every step of Assets appends to it, takes its first, removes what   *)
(* is cancelled, or empties it.                                            *)
(***************************************************************************)
EXTENDS Assets, FiniteSetTheorems, SequenceTheorems, WellFoundedInduction, TLAPS

-----------------------------------------------------------------------------
(* The elements of a sequence at some of its positions.  The modules that  *)
(* use Pick repeat these lemmas: none of them extends another.             *)

(* A set of natural numbers that is not empty has a smallest member.       *)
LEMMA SmallestOf ==
  ASSUME NEW T \in SUBSET Nat, T # {}
  PROVE  \E t \in T : \A u \in T : t <= u
<1> DEFINE Less == {p \in Nat \X Nat : p[1] < p[2]}
<1>1. IsWellFoundedOn(Less, Nat)
  BY NatLessThanWellFounded DEF OpToRel
<1>2. PICK t \in T : \A u \in T : ~ (<<u, t>> \in Less)
  <2> HIDE DEF Less
  <2> QED BY <1>1, WFMin
<1>3. ASSUME NEW u \in T PROVE t <= u
  <2>1. t \in Nat /\ u \in Nat
    OBVIOUS
  <2>2. <<u, t>> \notin Less
    BY <1>2
  <2>3. ~ (u < t)
    BY <2>1, <2>2
  <2> QED BY <2>1, <2>3
<1> QED BY <1>3

(* Positions can be enumerated in increasing order: the last one after the *)
(* others.                                                                 *)
LEMMA EnumerationFacts ==
  ASSUME NEW N \in Nat, NEW I \in SUBSET (1..N)
  PROVE  /\ Cardinality(I) \in 0..N
         /\ Enumeration(I) \in [1..Cardinality(I) -> I] /\ Increasing(Enumeration(I))
         /\ \A i \in I : \E n \in 1..Cardinality(I) : Enumeration(I)[n] = i
<1> DEFINE Listed(J) == \E at \in [1..Cardinality(J) -> J] : Increasing(at)
           Bad == {k \in Nat : \E J \in SUBSET (1..k) : ~Listed(J)}
<1>1. ASSUME NEW k \in Nat, NEW J \in SUBSET (1..k)
      PROVE  IsFiniteSet(J) /\ Cardinality(J) \in 0..k
  <2>1. IsFiniteSet(1..k) /\ Cardinality(1..k) = k
    BY FS_Interval
  <2>2. IsFiniteSet(J) /\ Cardinality(J) <= k
    BY <2>1, FS_Subset
  <2> QED BY <2>2, FS_CardinalityType
<1>2. Bad = {}
  <2>1. SUFFICES ASSUME Bad # {} PROVE FALSE
    OBVIOUS
  <2>2. PICK k \in Bad : \A m \in Bad : k <= m
    <3> HIDE DEF Bad
    <3>1. Bad \in SUBSET Nat
      BY DEF Bad
    <3> QED BY <2>1, <3>1, SmallestOf
  <2>3. PICK J \in SUBSET (1..k) : ~Listed(J)
    OBVIOUS
  <2>4. k \in Nat /\ k # 0
    <3>1. CASE k = 0
      <4>1. J = {}
        BY <3>1
      <4>2. Cardinality(J) = 0
        BY <4>1, FS_EmptySet
      <4>3. <<>> \in [1..Cardinality(J) -> J] /\ Increasing(<<>>)
        BY <4>2 DEF Increasing
      <4> QED BY <2>3, <4>3
    <3> QED BY <3>1
  <2>5. \A K \in SUBSET (1..(k - 1)) : Listed(K)
    <3>1. k - 1 \in Nat /\ k - 1 \notin Bad
      <4> HIDE DEF Bad
      <4> QED BY <2>2, <2>4
    <3> QED BY <3>1
  <2> HIDE DEF Bad, Listed
  <2>6. k \in J
    BY <2>3, <2>4, <2>5
  <2> DEFINE K == J \ {k}
             c == Cardinality(K)
  <2>7. K \in SUBSET (1..(k - 1))
    BY <2>4
  <2>8. c \in Nat /\ Cardinality(J) = c + 1
    <3>1. IsFiniteSet(J) /\ IsFiniteSet(K)
      BY <1>1, <2>4, <2>7
    <3>2. Cardinality(J) \in Nat /\ c = Cardinality(J) - 1 /\ c \in Nat
      BY <2>6, <3>1, FS_RemoveElement, FS_CardinalityType
    <3> QED BY <3>2
  <2>9. PICK at \in [1..c -> K] : Increasing(at)
    BY <2>5, <2>7 DEF Listed
  <2> DEFINE next == [n \in 1..(c + 1) |-> IF n = c + 1 THEN k ELSE at[n]]
  <2> HIDE DEF c
  <2>10. next \in [1..(c + 1) -> J]
    BY <2>6, <2>8
  <2>11. Increasing(next)
    <3>1. \A n \in 1..c : at[n] \in 1..(k - 1)
      BY <2>7
    <3>2. ASSUME NEW m \in 1..(c + 1), NEW n \in 1..(c + 1), m < n
          PROVE  next[m] < next[n]
      <4>1. m \in 1..c /\ next[m] = at[m]
        BY <2>8, <3>2
      <4>2. CASE n = c + 1
        BY <2>4, <3>1, <4>1, <4>2
      <4>3. CASE n # c + 1
        BY <2>8, <2>9, <3>2, <4>1, <4>3 DEF Increasing
      <4> QED BY <4>2, <4>3
    <3> QED BY <3>2 DEF Increasing
  <2> HIDE DEF next
  <2> QED BY <2>3, <2>8, <2>10, <2>11 DEF Listed
<1> DEFINE at == Enumeration(I)
<1>3. at \in [1..Cardinality(I) -> I] /\ Increasing(at)
  <2>1. Listed(I)
    BY <1>2
  <2> QED BY <2>1 DEF Enumeration
<1>4. IsFiniteSet(I) /\ Cardinality(I) \in 0..N
  BY <1>1
<1> HIDE DEF at
<1>5. at \in Surjection(1..Cardinality(I), I)
  <2>1. ASSUME NEW m \in 1..Cardinality(I), NEW n \in 1..Cardinality(I), at[m] = at[n]
        PROVE  m = n
    <3>1. at[m] \in 1..N /\ at[n] \in 1..N
      BY <1>3
    <3>2. ~(m < n) /\ ~(n < m)
      BY <1>3, <2>1, <3>1 DEF Increasing
    <3> QED BY <1>4, <3>2
  <2>2. at \in Injection(1..Cardinality(I), I)
    BY <1>3, <2>1 DEF Injection, IsInjective
  <2>3. Cardinality(1..Cardinality(I)) = Cardinality(I)
    BY <1>4, FS_Interval
  <2> QED BY <1>4, <2>2, <2>3, FS_Injection
<1> QED BY <1>3, <1>4, <1>5 DEF Surjection, at

(* The elements of p stand in q at the positions I, where at places them.  *)
Places(at, p, q, I) ==
  /\ at \in [1..Len(p) -> 1..Len(q)]
  /\ \A n \in 1..Len(p) : p[n] = q[at[n]] /\ at[n] \in I
  /\ \A m, n \in 1..Len(p) : m < n => at[m] < at[n]
  /\ \A i \in I : \E n \in 1..Len(p) : at[n] = i

(* What Pick returns: a sequence of elements of q, placed by an increasing *)
(* map whose values are exactly the positions picked.                      *)
LEMMA PickFacts ==
  ASSUME NEW S, NEW q \in Seq(S), NEW I \in SUBSET DOMAIN q
  PROVE  /\ Pick(q, I) \in Seq(S)
         /\ Len(Pick(q, I)) \in 0..Len(q)
         /\ \E at : Places(at, Pick(q, I), q, I)
<1> DEFINE c == Cardinality(I)
           at == Enumeration(I)
<1>1. Len(q) \in Nat /\ I \in SUBSET (1..Len(q)) /\ \A i \in 1..Len(q) : q[i] \in S
  BY LenProperties, ElementOfSeq
<1>2. /\ c \in 0..Len(q) /\ at \in [1..c -> I] /\ Increasing(at)
      /\ \A i \in I : \E n \in 1..c : at[n] = i
  BY <1>1, EnumerationFacts
<1>3. Pick(q, I) = [n \in DOMAIN at |-> q[at[n]]]
  BY DEF Pick
<1> HIDE DEF c, at
<1>4. Pick(q, I) \in [1..c -> S] /\ \A n \in 1..c : Pick(q, I)[n] = q[at[n]]
  BY <1>1, <1>2, <1>3
<1>5. Pick(q, I) \in Seq(S) /\ Len(Pick(q, I)) = c
  BY <1>2, <1>4
<1>6. Places(at, Pick(q, I), q, I)
  BY <1>1, <1>2, <1>4, <1>5 DEF Places, Increasing
<1> QED BY <1>2, <1>5, <1>6

-----------------------------------------------------------------------------
(* The AssetLoader's two threads, whatever a job is: the contents of the   *)
(* queues and the control of the worker.                                   *)

(* The worker has a job exactly while it works, leaves only with nothing   *)
(* left to do, and no loader means empty queues and an idle caller.        *)
LoaderControl ==
  /\ worker = "working" <=> current # NoJob
  /\ worker = "none" => caller = "idle" /\ decodeQueue = <<>> /\ readyQueue = <<>>
  /\ stop <=> caller \in {"notifyAll", "join"}
  /\ worker = "exited" => stop /\ decodeQueue = <<>>

(* All jobs in the loader are members of S.                                *)
LoaderInv(S) == LoaderTypeOK(S) /\ LoaderControl

LEMMA LoaderInitInv ==
  ASSUME NEW S, LoaderInit
  PROVE  LoaderInv(S)
  BY EmptySeq DEF LoaderInit, LoaderInv, LoaderTypeOK, LoaderControl

LEMMA LoaderUnchangedInv ==
  ASSUME NEW S, LoaderInv(S), UNCHANGED loaderVars
  PROVE  LoaderInv(S)'
  BY DEF LoaderInv, LoaderTypeOK, LoaderControl, loaderVars

LEMMA EnqueueInv ==
  ASSUME NEW S, LoaderInv(S), NEW job \in S, Enqueue(job)
  PROVE  LoaderInv(S)'
<1>1. Append(decodeQueue, job) \in Seq(S) /\ Append(decodeQueue, job) # <<>>
  BY AppendProperties DEF LoaderInv, LoaderTypeOK
<1>2. LoaderTypeOK(S)'
  BY <1>1 DEF LoaderInv, LoaderTypeOK, Enqueue
<1>3. LoaderControl'
  BY <1>1 DEF LoaderInv, LoaderTypeOK, LoaderControl, Enqueue
<1> QED BY <1>2, <1>3 DEF LoaderInv

LEMMA NotifyInv ==
  ASSUME NEW S, LoaderInv(S), NotifyOne \/ NotifyAll
  PROVE  LoaderInv(S)'
  BY DEF LoaderInv, LoaderTypeOK, LoaderControl, NotifyOne, NotifyAll, Woken

(* A drain takes a prefix of what is ready.                                *)
LEMMA DrainTakes ==
  ASSUME NEW S, LoaderTypeOK(S), NEW max \in Nat
  PROVE  /\ DrainCount(max) \in 0..Len(readyQueue)
         /\ readyQueue # <<>> => DrainCount(max) > 0
         /\ max = 1 /\ readyQueue # <<>> => DrainCount(max) = 1
<1>1. Len(readyQueue) \in Nat /\ (readyQueue # <<>> => Len(readyQueue) > 0)
  BY EmptySeq, LenProperties DEF LoaderTypeOK
<1> QED BY <1>1 DEF DrainCount

LEMMA DrainInv ==
  ASSUME NEW S, LoaderInv(S), NEW max \in Nat, DrainReady(max)
  PROVE  LoaderInv(S)'
<1> DEFINE n == DrainCount(max)
           q == SubSeq(readyQueue, n + 1, Len(readyQueue))
<1>1. n \in 0..Len(readyQueue) /\ readyQueue \in Seq(S) /\ Len(readyQueue) \in Nat
  BY DrainTakes, LenProperties DEF LoaderInv, LoaderTypeOK
<1>2. q \in Seq(S)
  <2> HIDE DEF n
  <2>1. \A i \in (n + 1)..Len(readyQueue) : readyQueue[i] \in S
    BY <1>1, ElementOfSeq
  <2> QED BY <1>1, <2>1, SubSeqProperties
<1>3. readyQueue = <<>> => q = <<>>
  BY <1>1, SubSeqEmpty, EmptySeq
<1>4. readyQueue' = q /\ UNCHANGED <<decodeQueue, current, stop, worker, caller>>
  BY DEF DrainReady
<1> HIDE DEF q
<1> QED BY <1>2, <1>3, <1>4 DEF LoaderInv, LoaderTypeOK, LoaderControl

LEMMA StopInv ==
  ASSUME NEW S, LoaderInv(S), StopBegin \/ Join
  PROVE  LoaderInv(S)'
<1>1. CASE StopBegin
  BY <1>1 DEF LoaderInv, LoaderTypeOK, LoaderControl, StopBegin
<1>2. CASE Join
  BY <1>2, EmptySeq DEF LoaderInv, LoaderTypeOK, LoaderControl, Join
<1> QED BY <1>1, <1>2

LEMMA WorkerStepInv ==
  ASSUME NEW S, NoJob \notin S, LoaderInv(S),
         WorkerExit \/ WorkerTake \/ WorkerSleep \/ SpuriousWakeup
  PROVE  LoaderInv(S)'
<1>1. CASE WorkerExit \/ WorkerSleep \/ SpuriousWakeup
  BY <1>1 DEF LoaderInv, LoaderTypeOK, LoaderControl, WorkerExit, WorkerSleep,
     SpuriousWakeup, MayExit
<1>2. CASE WorkerTake
  <2>1. Head(decodeQueue) \in S /\ Tail(decodeQueue) \in Seq(S)
    BY <1>2, HeadTailProperties DEF LoaderInv, LoaderTypeOK, WorkerTake
  <2>2. LoaderTypeOK(S)'
    BY <1>2, <2>1 DEF LoaderInv, LoaderTypeOK, WorkerTake
  <2>3. LoaderControl'
    BY <1>2, <2>1 DEF LoaderInv, LoaderControl, WorkerTake
  <2> QED BY <2>2, <2>3 DEF LoaderInv
<1> QED BY <1>1, <1>2

LEMMA WorkerFinishInv ==
  ASSUME NEW S, LoaderInv(S), NEW r \in S, WorkerFinish(r)
  PROVE  LoaderInv(S)'
<1>1. Append(readyQueue, r) \in Seq(S)
  BY AppendProperties DEF LoaderInv, LoaderTypeOK
<1> QED BY <1>1 DEF LoaderInv, LoaderTypeOK, LoaderControl, WorkerFinish
-----------------------------------------------------------------------------
(* The jobs in the loader as one sequence, oldest first, and what each     *)
(* step does to it.                                                        *)

LEMMA Concatenated ==
  ASSUME NEW S, NEW r \in Seq(S), NEW c \in S \cup {NoJob}, NEW d \in Seq(S)
  PROVE  LET m == IF c = NoJob THEN <<>> ELSE <<c>>
             n == IF c = NoJob THEN 0 ELSE 1
         IN  /\ r \o m \o d \in Seq(S)
             /\ Len(r \o m \o d) = Len(r) + n + Len(d)
             /\ \A i \in 1..Len(r) + n + Len(d) :
                  (r \o m \o d)[i] = IF i <= Len(r) THEN r[i]
                                     ELSE IF i <= Len(r) + n THEN c
                                     ELSE d[i - (Len(r) + n)]
<1> DEFINE m == IF c = NoJob THEN <<>> ELSE <<c>>
           n == IF c = NoJob THEN 0 ELSE 1
<1>1. m \in Seq(S) /\ Len(m) = n /\ (n = 1 => m[1] = c) /\ n \in 0..1
  BY EmptySeq
<1>2. Len(r) \in Nat /\ Len(d) \in Nat
  BY LenProperties
<1> HIDE DEF m, n
<1>3. /\ r \o m \in Seq(S) /\ Len(r \o m) = Len(r) + n
      /\ \A i \in 1..Len(r) + n : (r \o m)[i] = IF i <= Len(r) THEN r[i] ELSE c
  <2>1. /\ r \o m \in Seq(S) /\ Len(r \o m) = Len(r) + Len(m)
        /\ \A i \in 1..Len(r) + Len(m) :
             (r \o m)[i] = IF i <= Len(r) THEN r[i] ELSE m[i - Len(r)]
    BY <1>1, ConcatProperties
  <2>2. \A i \in 1..Len(r) + n : ~ (i <= Len(r)) => n = 1 /\ i - Len(r) = 1
    BY <1>1, <1>2
  <2> QED BY <1>1, <2>1, <2>2
<1> DEFINE rm == r \o m
<1>4. rm \in Seq(S) /\ Len(rm) = Len(r) + n
  BY <1>3
<1> HIDE DEF rm
<1>5. /\ rm \o d \in Seq(S) /\ Len(rm \o d) = Len(r) + n + Len(d)
      /\ \A i \in 1..Len(r) + n + Len(d) :
           (rm \o d)[i] = IF i <= Len(r) + n THEN rm[i] ELSE d[i - (Len(r) + n)]
  <2>1. /\ rm \o d \in Seq(S) /\ Len(rm \o d) = Len(rm) + Len(d)
        /\ \A i \in 1..Len(rm) + Len(d) :
             (rm \o d)[i] = IF i <= Len(rm) THEN rm[i] ELSE d[i - Len(rm)]
    BY <1>4, ConcatProperties
  <2> QED BY <1>4, <2>1
<1>6. \A i \in 1..Len(r) + n + Len(d) :
        (rm \o d)[i] = IF i <= Len(r) THEN r[i] ELSE IF i <= Len(r) + n THEN c
                                                     ELSE d[i - (Len(r) + n)]
  <2> SUFFICES ASSUME NEW i \in 1..Len(r) + n + Len(d)
               PROVE  (rm \o d)[i] = IF i <= Len(r) THEN r[i]
                                     ELSE IF i <= Len(r) + n THEN c
                                     ELSE d[i - (Len(r) + n)]
    OBVIOUS
  <2>1. i \in Nat /\ i >= 1 /\ n \in Nat
    BY <1>1, <1>2
  <2>2. i <= Len(r) => i <= Len(r) + n
    BY <1>2, <2>1
  <2>3. i <= Len(r) + n => i \in 1..Len(r) + n
    BY <1>2, <2>1
  <2> QED BY <1>3, <1>5, <2>2, <2>3 DEF rm
<1> QED BY <1>5, <1>6 DEF rm, m, n

(* Where the jobs of InLoader are.                                         *)
AtWork == IF current = NoJob THEN 0 ELSE 1

LEMMA LoaderSeq ==
  ASSUME NEW S, LoaderTypeOK(S)
  PROVE  /\ Len(readyQueue) \in Nat /\ Len(decodeQueue) \in Nat /\ AtWork \in 0..1
         /\ InLoader \in Seq(S)
         /\ Len(InLoader) = Len(readyQueue) + AtWork + Len(decodeQueue)
         /\ \A i \in 1..Len(InLoader) :
              InLoader[i] = IF i <= Len(readyQueue) THEN readyQueue[i]
                            ELSE IF i <= Len(readyQueue) + AtWork THEN current
                            ELSE decodeQueue[i - (Len(readyQueue) + AtWork)]
<1>1. readyQueue \in Seq(S) /\ current \in S \cup {NoJob} /\ decodeQueue \in Seq(S)
  BY DEF LoaderTypeOK
<1>2. Len(readyQueue) \in Nat /\ Len(decodeQueue) \in Nat /\ AtWork \in 0..1
  BY <1>1, LenProperties DEF AtWork
<1> QED BY <1>1, <1>2, Concatenated DEF InLoader, Running, AtWork

LEMMA LoaderSeqNext ==
  ASSUME NEW S, LoaderTypeOK(S)'
  PROVE  /\ Len(readyQueue') \in Nat /\ Len(decodeQueue') \in Nat /\ AtWork' \in 0..1
         /\ InLoader' \in Seq(S)
         /\ Len(InLoader') = Len(readyQueue') + AtWork' + Len(decodeQueue')
         /\ \A i \in 1..Len(InLoader') :
              InLoader'[i] = IF i <= Len(readyQueue') THEN readyQueue'[i]
                             ELSE IF i <= Len(readyQueue') + AtWork' THEN current'
                             ELSE decodeQueue'[i - (Len(readyQueue') + AtWork')]
<1>1. readyQueue' \in Seq(S) /\ current' \in S \cup {NoJob} /\ decodeQueue' \in Seq(S)
  BY DEF LoaderTypeOK
<1>2. Len(readyQueue') \in Nat /\ Len(decodeQueue') \in Nat /\ AtWork' \in 0..1
  BY <1>1, LenProperties DEF AtWork
<1> QED BY <1>1, <1>2, Concatenated DEF InLoader, Running, AtWork
(* Steps that move no job, and the worker's taking of the next one.        *)
LEMMA TakeKeeps ==
  ASSUME NEW S, NoJob \notin S, LoaderInv(S),
         WorkerExit \/ WorkerTake \/ WorkerSleep \/ SpuriousWakeup
  PROVE  InLoader' = InLoader
<1>1. CASE WorkerExit \/ WorkerSleep \/ SpuriousWakeup
  BY <1>1 DEF WorkerExit, WorkerSleep, SpuriousWakeup, InLoader, Running
<1>2. CASE WorkerTake
  <2>1. LoaderInv(S)'
    BY <1>2, WorkerStepInv
  <2>2. /\ current = NoJob /\ AtWork = 0 /\ AtWork' = 1 /\ decodeQueue \in Seq(S)
        /\ decodeQueue # <<>> /\ readyQueue' = readyQueue
        /\ current' = Head(decodeQueue) /\ decodeQueue' = Tail(decodeQueue)
    BY <1>2, HeadTailProperties
       DEF LoaderInv, LoaderTypeOK, LoaderControl, WorkerTake, AtWork
  <2>3. /\ current' = decodeQueue[1] /\ Len(decodeQueue') = Len(decodeQueue) - 1
        /\ \A i \in 1..Len(decodeQueue') : decodeQueue'[i] = decodeQueue[i + 1]
    BY <2>2, HeadTailProperties
  <2>4. InLoader \in Seq(S) /\ InLoader' \in Seq(S) /\ Len(InLoader') = Len(InLoader)
    BY <2>1, <2>2, <2>3, LoaderSeq, LoaderSeqNext DEF LoaderInv
  <2>5. ASSUME NEW i \in 1..Len(InLoader) PROVE InLoader'[i] = InLoader[i]
    <3> DEFINE r == Len(readyQueue)
    <3>1. r \in Nat /\ Len(decodeQueue) \in Nat /\ Len(InLoader) = r + Len(decodeQueue)
      BY <2>2, LoaderSeq DEF LoaderInv
    <3>2. InLoader[i] = IF i <= r THEN readyQueue[i] ELSE decodeQueue[i - r]
      BY <2>2, <3>1, LoaderSeq DEF LoaderInv
    <3>3. InLoader'[i] = IF i <= r THEN readyQueue[i]
                         ELSE IF i <= r + 1 THEN decodeQueue[1]
                         ELSE decodeQueue'[i - (r + 1)]
      BY <2>1, <2>2, <2>3, <2>4, LoaderSeqNext DEF LoaderInv
    <3> HIDE DEF r
    <3>4. CASE i <= r + 1
      BY <3>1, <3>2, <3>3, <3>4
    <3>5. CASE ~ (i <= r + 1)
      <4>1. i - (r + 1) \in 1..Len(decodeQueue') /\ ~ (i <= r)
        BY <2>3, <3>1, <3>5
      <4>2. decodeQueue'[i - (r + 1)] = decodeQueue[i - r]
        BY <2>3, <3>1, <4>1
      <4> QED BY <3>2, <3>3, <3>5, <4>1, <4>2
    <3> QED BY <3>4, <3>5
  <2> QED BY <2>4, <2>5, SeqEqual
<1> QED BY <1>1, <1>2

(* Processing replaces a job where it stands in the order.                 *)
LEMMA FinishKeeps ==
  ASSUME NEW S, NoJob \notin S, LoaderInv(S), NEW r \in S, WorkerFinish(r)
  PROVE  /\ InLoader' \in Seq(S) /\ Len(InLoader') = Len(InLoader)
         /\ \A i \in 1..Len(InLoader) :
              InLoader'[i] = InLoader[i] \/ (InLoader[i] = current /\ InLoader'[i] = r)
<1> DEFINE n == Len(readyQueue)
<1>1. LoaderInv(S)'
  BY WorkerFinishInv
<1>2. /\ readyQueue \in Seq(S) /\ current # NoJob /\ current' = NoJob
      /\ AtWork = 1 /\ AtWork' = 0 /\ decodeQueue' = decodeQueue
      /\ readyQueue' = Append(readyQueue, r)
  BY DEF LoaderInv, LoaderTypeOK, LoaderControl, WorkerFinish, AtWork
<1>3. /\ Len(readyQueue') = n + 1 /\ readyQueue'[n + 1] = r /\ n \in Nat
      /\ \A i \in 1..n : readyQueue'[i] = readyQueue[i]
  BY <1>2, AppendProperties, LenProperties
<1>4. InLoader' \in Seq(S) /\ Len(InLoader') = Len(InLoader)
  BY <1>1, <1>2, <1>3, LoaderSeq, LoaderSeqNext DEF LoaderInv
<1>5. ASSUME NEW i \in 1..Len(InLoader)
      PROVE  InLoader'[i] = InLoader[i] \/ (InLoader[i] = current /\ InLoader'[i] = r)
  <2>1. InLoader[i] = IF i <= n THEN readyQueue[i]
                      ELSE IF i <= n + 1 THEN current ELSE decodeQueue[i - (n + 1)]
    BY <1>2, LoaderSeq DEF LoaderInv
  <2>2. InLoader'[i] = IF i <= n + 1 THEN readyQueue'[i] ELSE decodeQueue[i - (n + 1)]
    BY <1>1, <1>2, <1>3, <1>4, LoaderSeqNext DEF LoaderInv
  <2>3. i \in Nat /\ i >= 1
    BY <1>4, LenProperties
  <2> HIDE DEF n
  <2> QED BY <1>3, <2>1, <2>2, <2>3
<1> QED BY <1>4, <1>5

LEMMA EnqueueAppends ==
  ASSUME NEW S, LoaderInv(S), NEW job \in S, Enqueue(job)
  PROVE  /\ InLoader' \in Seq(S) /\ Len(InLoader') = Len(InLoader) + 1
         /\ \A i \in 1..Len(InLoader) : InLoader'[i] = InLoader[i]
         /\ InLoader'[Len(InLoader) + 1] = job
         /\ InLoader' = Append(InLoader, job)
<1> DEFINE m == Len(readyQueue) + AtWork
           d == Len(decodeQueue)
<1>1. LoaderInv(S)'
  BY EnqueueInv
<1>2. /\ decodeQueue \in Seq(S) /\ decodeQueue' = Append(decodeQueue, job)
      /\ readyQueue' = readyQueue /\ current' = current /\ AtWork' = AtWork
  BY DEF LoaderInv, LoaderTypeOK, Enqueue, AtWork
<1>3. /\ d \in Nat /\ Len(decodeQueue') = d + 1 /\ decodeQueue'[d + 1] = job
      /\ \A i \in 1..d : decodeQueue'[i] = decodeQueue[i]
  BY <1>2, AppendProperties, LenProperties
<1>4. /\ m \in Nat /\ InLoader \in Seq(S) /\ InLoader' \in Seq(S)
      /\ Len(InLoader) = m + d /\ Len(InLoader') = m + d + 1
  <2>1. /\ Len(readyQueue) \in Nat /\ AtWork \in Nat /\ InLoader \in Seq(S)
        /\ Len(InLoader) = Len(readyQueue) + AtWork + Len(decodeQueue)
    BY LoaderSeq DEF LoaderInv
  <2>2. /\ InLoader' \in Seq(S)
        /\ Len(InLoader') = Len(readyQueue) + AtWork + Len(decodeQueue')
    BY <1>1, <1>2, LoaderSeqNext DEF LoaderInv
  <2> QED BY <1>3, <2>1, <2>2
<1>5. ASSUME NEW i \in 1..m + d + 1
      PROVE  InLoader'[i] = IF i = m + d + 1 THEN job ELSE InLoader[i]
  <2>1. InLoader'[i] = IF i <= Len(readyQueue) THEN readyQueue[i]
                       ELSE IF i <= m THEN current ELSE decodeQueue'[i - m]
    BY <1>1, <1>2, <1>4, LoaderSeqNext DEF LoaderInv
  <2>2. i <= m + d => InLoader[i] = IF i <= Len(readyQueue) THEN readyQueue[i]
                                    ELSE IF i <= m THEN current ELSE decodeQueue[i - m]
    BY <1>3, <1>4, LoaderSeq DEF LoaderInv
  <2>3. Len(readyQueue) \in Nat /\ Len(readyQueue) <= m
    BY LoaderSeq DEF LoaderInv
  <2> HIDE DEF m, d
  <2>4. CASE i = m + d + 1
    <3>1. i - m = d + 1 /\ ~(i <= m)  /\ ~(i <= Len(readyQueue))
      BY <1>3, <1>4, <2>3, <2>4
    <3> QED BY <1>3, <2>1, <2>4, <3>1
  <2>5. CASE i # m + d + 1
    <3>1. i <= m + d /\ i \in Nat /\ (~(i <= m) => i - m \in 1..d)
      BY <1>3, <1>4, <2>5
    <3> QED BY <1>3, <2>1, <2>2, <2>5, <3>1
  <2> QED BY <2>4, <2>5
<1>6. /\ Len(InLoader') = Len(InLoader) + 1 /\ Len(InLoader) \in Nat
      /\ \A i \in 1..Len(InLoader) : InLoader'[i] = InLoader[i]
      /\ InLoader'[Len(InLoader) + 1] = job
  <2> HIDE DEF m, d
  <2> QED BY <1>3, <1>4, <1>5
<1> DEFINE a == Append(InLoader, job)
<1>7. /\ a \in Seq(S) /\ Len(a) = Len(InLoader) + 1
      /\ \A i \in 1..Len(InLoader) : a[i] = InLoader[i]
      /\ a[Len(InLoader) + 1] = job
  BY <1>4, AppendProperties
<1> HIDE DEF a
<1>8. InLoader' = a
  <2>1. \A i \in 1..Len(InLoader') : InLoader'[i] = a[i]
    BY <1>6, <1>7
  <2> QED BY <1>4, <1>6, <1>7, <2>1, SeqEqual
<1> QED BY <1>4, <1>6, <1>8 DEF a

LEMMA JoinEmpties ==
  ASSUME NEW S, LoaderInv(S), Join
  PROVE  InLoader' = <<>>
<1>1. readyQueue' = <<>> /\ decodeQueue' = <<>> /\ current' = NoJob
  BY DEF Join, LoaderInv, LoaderTypeOK, LoaderControl
<1>2. <<>> \in Seq(S)
  BY EmptySeq
<1> QED BY <1>1, <1>2, ConcatEmptySeq DEF InLoader, Running

(* A drain takes the oldest jobs.                                          *)
LEMMA DrainTakesOldest ==
  ASSUME NEW S, LoaderInv(S), NEW max \in Nat, DrainReady(max)
  PROVE  LET n == DrainCount(max)
         IN  /\ n \in 0..Len(InLoader)
             /\ InLoader' \in Seq(S) /\ Len(InLoader') = Len(InLoader) - n
             /\ \A i \in 1..Len(InLoader') : InLoader'[i] = InLoader[i + n]
             /\ TakeReady(n) \in Seq(S) /\ Len(TakeReady(n)) = n
             /\ \A i \in 1..n : TakeReady(n)[i] = InLoader[i]
<1> DEFINE n == DrainCount(max)
           r == Len(readyQueue)
           d == Len(decodeQueue)
<1>1. LoaderInv(S)'
  BY DrainInv
<1>2. /\ n \in 0..r /\ r \in Nat /\ readyQueue \in Seq(S)
      /\ \A i \in 1..r : readyQueue[i] \in S
  BY DrainTakes, LenProperties, ElementOfSeq DEF LoaderInv, LoaderTypeOK
<1>3. /\ readyQueue' = SubSeq(readyQueue, n + 1, r)
      /\ UNCHANGED <<decodeQueue, current>> /\ AtWork' = AtWork
  BY DEF DrainReady, AtWork
<1> HIDE DEF n
<1>4. /\ Len(readyQueue') = r - n
      /\ \A i \in 1..r - n : readyQueue'[i] = readyQueue[i + n]
  <2>1. \A i \in n + 1..r : readyQueue[i] \in S
    BY <1>2
  <2>2. /\ Len(SubSeq(readyQueue, n + 1, r)) = IF n + 1 <= r THEN r - (n + 1) + 1 ELSE 0
        /\ \A i \in 1..r - (n + 1) + 1 :
             SubSeq(readyQueue, n + 1, r)[i] = readyQueue[n + 1 + i - 1]
    BY <1>2, <2>1, SubSeqProperties
  <2>3. \A i \in 1..r - n : i \in 1..r - (n + 1) + 1 /\ n + 1 + i - 1 = i + n
    BY <1>2
  <2> HIDE DEF r
  <2> QED BY <1>2, <1>3, <2>2, <2>3
<1>5. /\ TakeReady(n) \in Seq(S) /\ Len(TakeReady(n)) = n
      /\ \A i \in 1..n : TakeReady(n)[i] = readyQueue[i]
  <2>1. \A i \in 1..n : readyQueue[i] \in S
    BY <1>2
  <2>2. /\ SubSeq(readyQueue, 1, n) \in Seq(S)
        /\ Len(SubSeq(readyQueue, 1, n)) = IF 1 <= n THEN n - 1 + 1 ELSE 0
        /\ \A i \in 1..n - 1 + 1 : SubSeq(readyQueue, 1, n)[i] = readyQueue[1 + i - 1]
    BY <1>2, <2>1, SubSeqProperties
  <2>3. \A i \in 1..n : i \in 1..n - 1 + 1 /\ 1 + i - 1 = i
    BY <1>2
  <2> QED BY <1>2, <2>2, <2>3 DEF TakeReady
<1>6. /\ d \in Nat /\ AtWork \in 0..1 /\ InLoader' \in Seq(S)
      /\ Len(InLoader) = r + AtWork + d /\ Len(InLoader') = r - n + AtWork + d
  BY <1>1, <1>3, <1>4, LoaderSeq, LoaderSeqNext DEF LoaderInv
<1>7. \A i \in 1..n : TakeReady(n)[i] = InLoader[i]
  <2>1. \A i \in 1..n : i <= r /\ i \in 1..Len(InLoader)
    BY <1>2, <1>6
  <2> QED BY <1>5, <2>1, LoaderSeq DEF LoaderInv
<1>8. ASSUME NEW i \in 1..Len(InLoader') PROVE InLoader'[i] = InLoader[i + n]
  <2>1. InLoader'[i] = IF i <= r - n THEN readyQueue'[i]
                       ELSE IF i <= r - n + AtWork THEN current
                       ELSE decodeQueue[i - (r - n + AtWork)]
    BY <1>1, <1>3, <1>4, LoaderSeqNext DEF LoaderInv
  <2>2. PICK k \in 1..Len(InLoader) : k = i + n
    BY <1>2, <1>6
  <2>3. InLoader[k] = IF k <= r THEN readyQueue[k]
                      ELSE IF k <= r + AtWork THEN current
                      ELSE decodeQueue[k - (r + AtWork)]
    BY LoaderSeq DEF LoaderInv
  <2>4. /\ (i <= r - n <=> k <= r) /\ (i <= r - n + AtWork <=> k <= r + AtWork)
        /\ i - (r - n + AtWork) = k - (r + AtWork)
    BY <1>2, <1>6, <2>2
  <2>5. i <= r - n => readyQueue'[i] = readyQueue[k]
    BY <1>2, <1>4, <1>6, <2>2
  <2>6. InLoader'[i] = InLoader[k]
    <3> HIDE DEF r
    <3> QED BY <2>1, <2>3, <2>4, <2>5
  <2> QED BY <2>2, <2>6
<1>9. n \in 0..Len(InLoader) /\ Len(InLoader') = Len(InLoader) - n
  BY <1>2, <1>6
<1> QED BY <1>5, <1>6, <1>7, <1>8, <1>9 DEF n

(* Two increasing maps, with or without a position between them, make one. *)
Glue(f, n, w, r, g, m) ==
  [i \in 1..n + w + m |-> IF i <= n THEN f[i] ELSE IF i <= n + w THEN r + 1
                                              ELSE r + w + g[i - (n + w)]]

LEMMA Glued ==
  ASSUME NEW r \in Nat, NEW w \in 0..1, NEW d \in Nat, NEW n \in 0..r, NEW m \in 0..d,
         NEW f \in [1..n -> 1..r], NEW g \in [1..m -> 1..d],
         \A i, j \in 1..n : i < j => f[i] < f[j],
         \A i, j \in 1..m : i < j => g[i] < g[j]
  PROVE  LET h == Glue(f, n, w, r, g, m)
         IN  /\ h \in [1..n + w + m -> 1..r + w + d]
             /\ \A i, j \in 1..n + w + m : i < j => h[i] < h[j]
             /\ \A i \in 1..n : h[i] = f[i]
             /\ w = 1 => h[n + 1] = r + 1
             /\ \A i \in 1..m : h[n + w + i] = r + w + g[i]
<1> DEFINE h == [i \in 1..n + w + m |->
                   IF i <= n THEN f[i] ELSE IF i <= n + w THEN r + 1
                                       ELSE r + w + g[i - (n + w)]]
<1>7. h = Glue(f, n, w, r, g, m)
  BY DEF Glue
<1>1. ASSUME NEW i \in 1..n + w + m
      PROVE  /\ h[i] = IF i <= n THEN f[i] ELSE IF i <= n + w THEN r + 1
                                           ELSE r + w + g[i - (n + w)]
             /\ i <= n => i \in 1..n /\ f[i] \in 1..r
             /\ ~ (i <= n + w) => i - (n + w) \in 1..m /\ g[i - (n + w)] \in 1..d
             /\ ~ (i <= n) /\ i <= n + w => w = 1 /\ i = n + 1
  <2>1. i \in Nat /\ i >= 1 /\ i <= n + w + m
    OBVIOUS
  <2>2. i <= n => i \in 1..n
    BY <2>1
  <2>3. ~ (i <= n + w) => i - (n + w) \in 1..m
    BY <2>1
  <2>4. ~ (i <= n) /\ i <= n + w => w = 1 /\ i = n + 1
    BY <2>1
  <2> QED BY <2>2, <2>3, <2>4
<1>2. h \in [1..n + w + m -> 1..r + w + d]
  <2>1. ASSUME NEW i \in 1..n + w + m PROVE h[i] \in 1..r + w + d
    <3> HIDE DEF h
    <3>1. CASE i <= n
      <4>1. h[i] = f[i] /\ f[i] \in 1..r
        BY <1>1, <3>1
      <4> QED BY <4>1
    <3>2. CASE ~ (i <= n) /\ i <= n + w
      <4>1. h[i] = r + 1 /\ w = 1
        BY <1>1, <3>2
      <4> QED BY <4>1
    <3>3. CASE ~ (i <= n) /\ ~ (i <= n + w)
      <4>1. h[i] = r + w + g[i - (n + w)] /\ g[i - (n + w)] \in 1..d
        BY <1>1, <3>3
      <4> QED BY <4>1
    <3> QED BY <3>1, <3>2, <3>3
  <2> QED BY <2>1
<1>3. ASSUME NEW i \in 1..n + w + m, NEW j \in 1..n + w + m, i < j PROVE h[i] < h[j]
  <2> HIDE DEF h
  <2>1. CASE j <= n
    <3>1. i <= n
      BY <1>3, <2>1
    <3> QED BY <1>1, <1>3, <2>1, <3>1
  <2>2. CASE ~ (i <= n + w)
    <3>1. ~ (j <= n + w) /\ ~ (j <= n) /\ ~ (i <= n) /\ i - (n + w) < j - (n + w)
      BY <1>3, <2>2
    <3>2. h[i] = r + w + g[i - (n + w)] /\ h[j] = r + w + g[j - (n + w)]
      BY <1>1, <2>2, <3>1
    <3>3. g[i - (n + w)] < g[j - (n + w)]
      BY <1>1, <2>2, <3>1
    <3>4. g[i - (n + w)] \in 1..d /\ g[j - (n + w)] \in 1..d
      BY <1>1, <2>2, <3>1
    <3> QED BY <3>2, <3>3, <3>4
  <2>3. CASE i <= n + w /\ ~ (j <= n)
    <3>1. h[i] \in Nat /\ h[i] <= r + w /\ (i <= n => h[i] <= r)
      BY <1>1, <2>3
    <3>2. CASE ~ (j <= n + w)
      BY <1>1, <3>1, <3>2, <2>3
    <3>3. CASE j <= n + w
      <4>1. w = 1 /\ j = n + 1 /\ h[j] = r + 1
        BY <1>1, <2>3, <3>3
      <4> QED BY <1>3, <3>1, <4>1
    <3> QED BY <3>2, <3>3
  <2> QED BY <2>1, <2>2, <2>3
<1>4. \A i \in 1..n : h[i] = f[i]
  OBVIOUS
<1>5. w = 1 => h[n + 1] = r + 1
  OBVIOUS
<1>6. ASSUME NEW i \in 1..m PROVE h[n + w + i] = r + w + g[i]
  <2>1. PICK k \in 1..n + w + m : k = n + w + i
    OBVIOUS
  <2>2. ~ (k <= n) /\ ~ (k <= n + w) /\ k - (n + w) = i
    BY <2>1
  <2>3. h[k] = r + w + g[i]
    BY <1>1, <2>2
  <2> QED BY <2>1, <2>3
<1> HIDE DEF h
<1> QED BY <1>2, <1>3, <1>4, <1>5, <1>6, <1>7
(* A cancellation removes the jobs of its kind and name from both queues   *)
(* and keeps every other job, and the one at work, in order.               *)
IsOf(j, kind, name) == j.kind = kind /\ j.name = name

LEMMA CancelKeeps ==
  ASSUME NEW S, LoaderInv(S), NEW kind, NEW name, CancelPending(kind, name)
  PROVE  /\ LoaderInv(S)'
         /\ \E kept \in [1..Len(InLoader') -> 1..Len(InLoader)] :
              /\ \A i \in 1..Len(InLoader') : InLoader'[i] = InLoader[kept[i]]
              /\ \A i, j \in 1..Len(InLoader') : i < j => kept[i] < kept[j]
              /\ \A k \in 1..Len(InLoader) :
                   ~ IsOf(InLoader[k], kind, name) => \E i \in 1..Len(InLoader') : kept[i] = k
              /\ \A i, j \in 1..Len(InLoader') :
                   /\ IsOf(InLoader[kept[i]], kind, name)
                   /\ IsOf(InLoader[kept[j]], kind, name)
                   => i = j
         /\ Len(InLoader') <= Len(InLoader)
<1> DEFINE Others(q) == {i \in DOMAIN q : ~ IsOf(q[i], kind, name)}
           r == Len(readyQueue)
           d == Len(decodeQueue)
           n == Len(readyQueue')
           m == Len(decodeQueue')
           w == AtWork
<1>1. /\ readyQueue \in Seq(S) /\ decodeQueue \in Seq(S)
      /\ readyQueue' = Pick(readyQueue, Others(readyQueue))
      /\ decodeQueue' = Pick(decodeQueue, Others(decodeQueue))
      /\ UNCHANGED <<current, stop, worker, caller>> /\ AtWork' = AtWork
  BY DEF LoaderInv, LoaderTypeOK, CancelPending, SweepReady, Without, IsOf, AtWork
<1>2. r \in Nat /\ d \in Nat /\ DOMAIN readyQueue = 1..r /\ DOMAIN decodeQueue = 1..d
  BY <1>1, LenProperties
<1>3. /\ readyQueue' \in Seq(S) /\ n \in 0..r
      /\ \E at : Places(at, readyQueue', readyQueue, Others(readyQueue))
  <2> DEFINE I == Others(readyQueue)
  <2>1. I \in SUBSET DOMAIN readyQueue
    OBVIOUS
  <2> HIDE DEF I
  <2> QED BY <1>1, <2>1, PickFacts DEF I
<1>4. /\ decodeQueue' \in Seq(S) /\ m \in 0..d
      /\ \E at : Places(at, decodeQueue', decodeQueue, Others(decodeQueue))
  <2> DEFINE I == Others(decodeQueue)
  <2>1. I \in SUBSET DOMAIN decodeQueue
    OBVIOUS
  <2> HIDE DEF I
  <2> QED BY <1>1, <2>1, PickFacts DEF I
<1>5. LoaderInv(S)'
  <2>1. LoaderTypeOK(S)'
    BY <1>1, <1>3, <1>4 DEF LoaderInv, LoaderTypeOK
  <2>2. /\ decodeQueue = <<>> => decodeQueue' = <<>>
        /\ readyQueue = <<>> => readyQueue' = <<>>
    BY <1>1, <1>3, <1>4, EmptySeq
  <2> QED BY <1>1, <2>1, <2>2 DEF LoaderInv, LoaderControl
<1>6. /\ Len(InLoader) = r + w + d /\ Len(InLoader') = n + w + m /\ w \in 0..1
      /\ \A i \in 1..r + w + d :
           InLoader[i] = IF i <= r THEN readyQueue[i]
                         ELSE IF i <= r + w THEN current ELSE decodeQueue[i - (r + w)]
      /\ \A i \in 1..n + w + m :
           InLoader'[i] = IF i <= n THEN readyQueue'[i]
                          ELSE IF i <= n + w THEN current ELSE decodeQueue'[i - (n + w)]
  BY <1>1, <1>5, LoaderSeq, LoaderSeqNext DEF LoaderInv
<1>7. PICK f : Places(f, readyQueue', readyQueue, Others(readyQueue))
  BY <1>3
<1>8. PICK g : Places(g, decodeQueue', decodeQueue, Others(decodeQueue))
  BY <1>4
<1>14. /\ f \in [1..n -> 1..r] /\ \A i, j \in 1..n : i < j => f[i] < f[j]
       /\ \A i \in 1..n : readyQueue'[i] = readyQueue[f[i]] /\ f[i] \in Others(readyQueue)
       /\ \A k \in Others(readyQueue) : \E i \in 1..n : f[i] = k
  BY <1>7 DEF Places
<1>15. /\ g \in [1..m -> 1..d] /\ \A i, j \in 1..m : i < j => g[i] < g[j]
       /\ \A i \in 1..m : decodeQueue'[i] = decodeQueue[g[i]] /\ g[i] \in Others(decodeQueue)
       /\ \A k \in Others(decodeQueue) : \E i \in 1..m : g[i] = k
  BY <1>8 DEF Places
<1> DEFINE h == Glue(f, n, w, r, g, m)
<1>16. n \in 0..r /\ m \in 0..d /\ n \in Nat /\ m \in Nat /\ w \in 0..1 /\ w \in Nat
  BY <1>2, <1>3, <1>4, <1>6
<1> HIDE DEF r, d, n, m, w
<1>9. /\ h \in [1..n + w + m -> 1..r + w + d]
      /\ \A i, j \in 1..n + w + m : i < j => h[i] < h[j]
      /\ \A i \in 1..n : h[i] = f[i]
      /\ w = 1 => h[n + 1] = r + 1
      /\ \A i \in 1..m : h[n + w + i] = r + w + g[i]
  <2>1. /\ r \in Nat /\ w \in 0..1 /\ d \in Nat /\ n \in 0..r /\ m \in 0..d
        /\ f \in [1..n -> 1..r] /\ g \in [1..m -> 1..d]
        /\ \A i, j \in 1..n : i < j => f[i] < f[j]
        /\ \A i, j \in 1..m : i < j => g[i] < g[j]
    BY <1>2, <1>14, <1>15, <1>16
  <2> HIDE DEF h
  <2> QED BY <2>1, Glued, ZenonT(60) DEF h
<1>10. \A i \in 1..n + w + m : \/ i \in 1..n
                               \/ w = 1 /\ i = n + 1
                               \/ \E l \in 1..m : i = n + w + l
  <2> SUFFICES ASSUME NEW i \in 1..n + w + m, ~ (i \in 1..n), ~ (w = 1 /\ i = n + 1)
               PROVE  i - (n + w) \in 1..m /\ i = n + w + (i - (n + w))
    OBVIOUS
  <2> QED BY <1>16
<1> HIDE DEF h
<1>11. ASSUME NEW i \in 1..n + w + m
       PROVE  /\ InLoader'[i] = InLoader[h[i]]
              /\ ~ IsOf(InLoader[h[i]], kind, name) \/ (w = 1 /\ i = n + 1)
  <2>1. CASE i \in 1..n
    <3>1. h[i] = f[i] /\ f[i] \in 1..r /\ f[i] \in 1..r + w + d /\ f[i] <= r /\ i <= n
      <4>1. h[i] = f[i] /\ f[i] \in 1..r
        BY <1>9, <1>14, <2>1
      <4> QED BY <1>2, <1>16, <2>1, <4>1
    <3> QED BY <1>6, <1>14, <2>1, <3>1
  <2>2. CASE w = 1 /\ i = n + 1
    <3>1. h[i] = r + 1 /\ r + 1 \in 1..r + w + d /\ ~ (r + 1 <= r) /\ r + 1 <= r + w
          /\ ~ (i <= n) /\ i <= n + w
      BY <1>2, <1>16, <1>9, <2>2
    <3> QED BY <1>6, <2>2, <3>1
  <2>3. ASSUME NEW l \in 1..m, i = n + w + l
        PROVE  /\ InLoader'[i] = InLoader[h[i]] /\ ~ IsOf(InLoader[h[i]], kind, name)
    <3>1. PICK k \in 1..d : k = g[l]
      BY <1>15
    <3>2. /\ h[i] = r + w + k /\ r + w + k \in 1..r + w + d /\ ~ (r + w + k <= r)
          /\ ~ (r + w + k <= r + w) /\ r + w + k - (r + w) = k
          /\ ~ (i <= n) /\ ~ (i <= n + w) /\ i - (n + w) = l
      BY <1>2, <1>16, <1>9, <2>3, <3>1
    <3>3. InLoader'[i] = decodeQueue'[l] /\ InLoader[h[i]] = decodeQueue[k]
      <4>1. InLoader'[i] = decodeQueue'[i - (n + w)]
        BY <1>6, <3>2
      <4>2. PICK p \in 1..r + w + d : p = h[i] /\ p = r + w + k
        BY <3>2
      <4>3. ~ (p <= r) /\ ~ (p <= r + w) /\ p - (r + w) = k
        BY <1>2, <1>16, <4>2
      <4>4. InLoader[p] = decodeQueue[p - (r + w)]
        BY <1>6, <4>3
      <4> QED BY <3>2, <4>1, <4>2, <4>3, <4>4
    <3> QED BY <1>15, <3>1, <3>3
  <2> QED BY <1>10, <2>1, <2>2, <2>3
<1>12. ASSUME NEW k \in 1..r + w + d, ~ IsOf(InLoader[k], kind, name)
       PROVE  \E i \in 1..n + w + m : h[i] = k
  <2>1. CASE k <= r
    <3>1. k \in 1..r /\ InLoader[k] = readyQueue[k]
      BY <1>2, <1>6, <2>1
    <3>2. PICK i \in 1..n : f[i] = k
      BY <1>2, <1>14, <1>12, <3>1
    <3>3. i \in 1..n + w + m /\ h[i] = k
      BY <1>16, <1>9, <3>2
    <3> QED BY <3>3
  <2>2. CASE ~ (k <= r) /\ k <= r + w
    <3>1. w = 1 /\ k = r + 1 /\ n + 1 \in 1..n + w + m
      BY <1>2, <1>16, <2>2
    <3> QED BY <1>9, <3>1
  <2>3. CASE ~ (k <= r + w)
    <3>1. PICK l \in 1..d : l = k - (r + w) /\ k = r + w + l
      <4>1. k - (r + w) \in 1..d /\ k = r + w + (k - (r + w))
        BY <1>2, <1>6, <2>3
      <4> QED BY <4>1
    <3>2. ~ (k <= r)
      BY <1>2, <1>6, <2>3
    <3>3. InLoader[k] = decodeQueue[l]
      BY <1>6, <2>3, <3>1, <3>2
    <3>4. PICK i \in 1..m : g[i] = l
      BY <1>2, <1>15, <1>12, <3>3
    <3>5. n + w + i \in 1..n + w + m /\ h[n + w + i] = k
      BY <1>16, <1>9, <3>1, <3>4
    <3> QED BY <3>5
  <2> QED BY <2>1, <2>2, <2>3
<1>13. n + w + m <= r + w + d
  BY <1>2, <1>16
<1>17. /\ h \in [1..Len(InLoader') -> 1..Len(InLoader)]
       /\ \A i \in 1..Len(InLoader') : InLoader'[i] = InLoader[h[i]]
       /\ \A i, j \in 1..Len(InLoader') : i < j => h[i] < h[j]
       /\ \A k \in 1..Len(InLoader) :
            ~ IsOf(InLoader[k], kind, name) => \E i \in 1..Len(InLoader') : h[i] = k
  BY <1>6, <1>9, <1>11, <1>12
<1>18. \A i, j \in 1..Len(InLoader') :
         IsOf(InLoader[h[i]], kind, name) /\ IsOf(InLoader[h[j]], kind, name) => i = j
  BY <1>6, <1>11
<1>19. Len(InLoader') <= Len(InLoader)
  BY <1>6, <1>13
<1> QED BY <1>5, <1>17, <1>18, <1>19
-----------------------------------------------------------------------------
(* The inductive invariant.                                                *)

(* The jobs that Load commands make.                                       *)
Sent == {j \in Job : /\ <<j.kind, j.name>> \in Named
                     /\ j.kind = "font" => j.image \in Image}

(* Loads are numbered from 1, without gaps.                                *)
NumberedInOrder ==
  \A id \in 1..MaxLoads, m \in 1..MaxLoads : m < id /\ id \in Issued => m \in Issued

(* What is in flight is in the order of the loads and awaits its answer.   *)
InOrder ==
  \A i, j \in 1..Len(InFlight) : i < j => InFlight[i].id < InFlight[j].id
Unanswered ==
  \A i \in 1..Len(InFlight) : outcome[InFlight[i].id] \in Waiting

(* What is registered is older than everything in flight.                  *)
OlderThanFlight(id) ==
  id \in Issued /\ \A i \in 1..Len(InFlight) : id < InFlight[i].id
RegisteredIsOld ==
  /\ \A k \in Key : textures[k] # None => OlderThanFlight(textures[k])
  /\ \A u \in Sound : sounds[u] # None => OlderThanFlight(sounds[u])

AtlasesThere == \A f \in Font : fonts[f] # None => textures[fonts[f]] # None

(* InFlight[i] is a load of the font f.                                    *)
Brings(i, f) == InFlight[i].kind = "font" /\ InFlight[i].name = f
MarksHaveLoads == \A f \in loading : \E i \in 1..Len(InFlight) : Brings(i, f)

(* No load waits for a worker that is gone; shutdown begins between frames.*)
NoneAbandoned ==
  /\ worker = "none" => \A id \in 1..MaxLoads : outcome[id] \notin Waiting
  /\ stop => batch = <<>>

IInv ==
  /\ LoaderInv(Sent) /\ MembersTyped /\ batch \in Seq(Sent)
  /\ NumberedInOrder /\ InOrder /\ Unanswered /\ RegisteredIsOld
  /\ AtlasesThere /\ MarksHaveLoads /\ NoneAbandoned
-----------------------------------------------------------------------------
(* Jobs and the queue they form.                                           *)

LEMMA Ranges ==
  /\ MaxLoads \in Nat /\ 1..MaxLoads \subseteq Nat /\ MaxPerDrain \in Nat
  /\ None \notin 1..MaxLoads /\ None \notin Image
  BY LoadAssumption, NoneAssumption

LEMMA SentJobs ==
  /\ Sent \subseteq Job /\ NoJob \notin Sent
  /\ \A j \in Sent :
       /\ j.id \in 1..MaxLoads
       /\ j.kind \in {"texture", "font", "audio", "file"}
       /\ j.kind = "texture" => j.name \in Texture
       /\ j.kind = "font" => j.name \in Font /\ j.image \in Image
       /\ j.kind = "audio" => j.name \in Sound
       /\ <<j.kind, j.name>> \in Named
<1>1. Sent \subseteq Job /\ NoJob \notin Sent
  BY JobAssumption DEF Sent
<1>2. ASSUME NEW j \in Sent
      PROVE  /\ j.id \in 1..MaxLoads
             /\ j.kind \in {"texture", "font", "audio", "file"}
             /\ j.kind = "texture" => j.name \in Texture
             /\ j.kind = "font" => j.name \in Font /\ j.image \in Image
             /\ j.kind = "audio" => j.name \in Sound
             /\ <<j.kind, j.name>> \in Named
  BY DEF Sent, Job, Kind, Named
<1> QED BY <1>1, <1>2

LEMMA FlightSeq ==
  ASSUME LoaderTypeOK(Sent), batch \in Seq(Sent)
  PROVE  /\ Len(batch) \in Nat /\ Len(InLoader) \in Nat /\ InLoader \in Seq(Sent)
         /\ InFlight \in Seq(Sent) /\ DOMAIN InFlight = 1..Len(InFlight)
         /\ Len(InFlight) = Len(batch) + Len(InLoader)
         /\ \A i \in 1..Len(InFlight) :
              InFlight[i] = IF i <= Len(batch) THEN batch[i] ELSE InLoader[i - Len(batch)]
<1>1. InLoader \in Seq(Sent)
  BY LoaderSeq
<1>2. /\ batch \o InLoader \in Seq(Sent)
      /\ Len(batch \o InLoader) = Len(batch) + Len(InLoader)
      /\ \A i \in 1..Len(batch) + Len(InLoader) :
           (batch \o InLoader)[i] = IF i <= Len(batch) THEN batch[i]
                                    ELSE InLoader[i - Len(batch)]
  BY <1>1, ConcatProperties
<1> QED BY <1>1, <1>2, LenProperties DEF InFlight

LEMMA FlightSeqNext ==
  ASSUME LoaderTypeOK(Sent)', batch' \in Seq(Sent)
  PROVE  /\ Len(batch') \in Nat /\ Len(InLoader') \in Nat /\ InLoader' \in Seq(Sent)
         /\ InFlight' \in Seq(Sent) /\ Len(InFlight') = Len(batch') + Len(InLoader')
         /\ \A i \in 1..Len(InFlight') :
              InFlight'[i] = IF i <= Len(batch') THEN batch'[i]
                             ELSE InLoader'[i - Len(batch')]
<1>1. InLoader' \in Seq(Sent)
  BY LoaderSeqNext
<1>2. /\ batch' \o InLoader' \in Seq(Sent)
      /\ Len(batch' \o InLoader') = Len(batch') + Len(InLoader')
      /\ \A i \in 1..Len(batch') + Len(InLoader') :
           (batch' \o InLoader')[i] = IF i <= Len(batch') THEN batch'[i]
                                      ELSE InLoader'[i - Len(batch')]
  BY <1>1, ConcatProperties
<1> QED BY <1>1, <1>2, LenProperties DEF InFlight

LEMMA FlightJobs ==
  ASSUME IInv, NEW i \in 1..Len(InFlight)
  PROVE  /\ InFlight[i] \in Sent /\ InFlight[i].id \in 1..MaxLoads
         /\ outcome[InFlight[i].id] \in Waiting /\ InFlight[i].id \in Issued
<1>1. InFlight \in Seq(Sent)
  BY FlightSeq DEF IInv, LoaderInv
<1>2. InFlight[i] \in Sent
  BY <1>1, ElementOfSeq
<1>3. outcome[InFlight[i].id] \in Waiting
  BY DEF IInv, Unanswered
<1> QED BY <1>2, <1>3, SentJobs DEF Issued, Waiting

-----------------------------------------------------------------------------
(* What the invariant says of the properties that TLC checks.              *)

LEMMA InvImplies == IInv => TypeOK /\ FontsAreBacked /\ LatestLoadWins
<1> SUFFICES ASSUME IInv PROVE TypeOK /\ FontsAreBacked /\ LatestLoadWins
  OBVIOUS
<1>1. TypeOK
  <2>1. LoaderTypeOK(Job)
    <3>1. Seq(Sent) \subseteq Seq(Job)
      BY SentJobs, SeqMonotonic
    <3> QED BY <3>1, SentJobs DEF IInv, LoaderInv, LoaderTypeOK
  <2> QED BY <2>1 DEF IInv, NoneAbandoned, TypeOK
<1>2. DOMAIN InFlight = 1..Len(InFlight)
  BY FlightSeq DEF IInv, LoaderInv
<1>3. FontsAreBacked
  BY <1>2 DEF IInv, AtlasesThere, MarksHaveLoads, Brings, FontsAreBacked
<1>4. LatestLoadWins
  <2> SUFFICES ASSUME NEW i \in 1..Len(InFlight)
      PROVE  LET j == InFlight[i]
             IN /\ j.kind = "texture" /\ textures[j.name] # None => j.id > textures[j.name]
                /\ j.kind = "audio" /\ sounds[j.name] # None => j.id > sounds[j.name]
    BY <1>2 DEF LatestLoadWins
  <2> DEFINE j == InFlight[i]
  <2>1. /\ j \in Sent /\ j.id \in Nat
        /\ j.kind = "texture" => j.name \in Key
        /\ j.kind = "audio" => j.name \in Sound
    BY FlightJobs, SentJobs, Ranges DEF Key
  <2>2. /\ \A k \in Key : textures[k] # None => textures[k] \in Nat /\ textures[k] < j.id
        /\ \A u \in Sound : sounds[u] # None => sounds[u] \in Nat /\ sounds[u] < j.id
    BY Ranges DEF IInv, MembersTyped, RegisteredIsOld, OlderThanFlight
  <2> HIDE DEF j
  <2>3. j.kind = "texture" /\ textures[j.name] # None => j.id > textures[j.name]
    BY <2>1, <2>2
  <2>4. j.kind = "audio" /\ sounds[j.name] # None => j.id > sounds[j.name]
    BY <2>1, <2>2
  <2> QED BY <2>3, <2>4 DEF j
<1> QED BY <1>1, <1>3, <1>4

LEMMA InitInv == Init => IInv
<1> SUFFICES ASSUME Init PROVE IInv
  OBVIOUS
<1>1. LoaderInv(Sent) /\ batch \in Seq(Sent) /\ batch \in Seq(Job)
  BY LoaderInitInv, EmptySeq DEF Init
<1>2. Len(InFlight) = 0
  <2>1. Len(batch) = 0 /\ Len(readyQueue) = 0 /\ Len(decodeQueue) = 0 /\ AtWork = 0
    BY EmptySeq DEF Init, LoaderInit, AtWork
  <2> QED BY <1>1, <2>1, FlightSeq, LoaderSeq DEF LoaderInv
<1>3. MembersTyped
  BY <1>1 DEF Init, MembersTyped, Outcome
<1>4. Issued = {}
  BY DEF Init, Issued
<1>5. NumberedInOrder /\ InOrder /\ Unanswered /\ MarksHaveLoads
  BY <1>2, <1>4 DEF Init, NumberedInOrder, InOrder, Unanswered, MarksHaveLoads
<1>6. RegisteredIsOld /\ AtlasesThere
  BY DEF Init, RegisteredIsOld, AtlasesThere
<1>7. NoneAbandoned
  BY DEF Init, LoaderInit, NoneAbandoned, Waiting
<1> QED BY <1>1, <1>3, <1>5, <1>6, <1>7 DEF IInv

-----------------------------------------------------------------------------
(* Steps that leave the registries and the queue as they are.              *)
LEMMA SameFlight ==
  ASSUME IInv, LoaderInv(Sent)',
         UNCHANGED <<textures, fonts, loading, sounds, batch, outcome>>,
         glReady' \in BOOLEAN,
         Len(InLoader') = Len(InLoader),
         \A i \in 1..Len(InLoader) : /\ InLoader'[i].id = InLoader[i].id
                                     /\ InLoader'[i].kind = InLoader[i].kind
                                     /\ InLoader'[i].name = InLoader[i].name,
         worker' = "none" => worker = "none",
         stop' => stop \/ batch = <<>>
  PROVE  IInv'
<1>1. /\ Len(InFlight') = Len(InFlight)
      /\ \A i \in 1..Len(InFlight) : /\ InFlight'[i].id = InFlight[i].id
                                     /\ InFlight'[i].kind = InFlight[i].kind
                                     /\ InFlight'[i].name = InFlight[i].name
  <2>1. batch \in Seq(Sent) /\ batch' = batch
    BY DEF IInv
  <2>2. Len(InFlight') = Len(InFlight) /\ Len(InFlight) = Len(batch) + Len(InLoader)
        /\ Len(batch) \in Nat /\ Len(InLoader) \in Nat
    BY <2>1, FlightSeq, FlightSeqNext DEF IInv, LoaderInv
  <2>3. ASSUME NEW i \in 1..Len(InFlight)
        PROVE  /\ InFlight'[i].id = InFlight[i].id
               /\ InFlight'[i].kind = InFlight[i].kind
               /\ InFlight'[i].name = InFlight[i].name
    <3>1. /\ InFlight[i] = IF i <= Len(batch) THEN batch[i] ELSE InLoader[i - Len(batch)]
          /\ InFlight'[i] = IF i <= Len(batch) THEN batch[i] ELSE InLoader'[i - Len(batch)]
      BY <2>1, <2>2, FlightSeq, FlightSeqNext DEF IInv, LoaderInv
    <3>2. ~ (i <= Len(batch)) => i - Len(batch) \in 1..Len(InLoader)
      BY <2>2
    <3> QED BY <3>1, <3>2
  <2> QED BY <2>2, <2>3
<1>2. Issued' = Issued
  BY DEF Issued
<1>3. NumberedInOrder' /\ InOrder' /\ Unanswered'
  BY <1>1, <1>2 DEF IInv, NumberedInOrder, InOrder, Unanswered
<1>4. RegisteredIsOld' /\ AtlasesThere'
  <2>1. \A id : OlderThanFlight(id) => OlderThanFlight(id)'
    BY <1>1, <1>2 DEF OlderThanFlight
  <2> QED BY <2>1 DEF IInv, RegisteredIsOld, AtlasesThere
<1>5. MarksHaveLoads' /\ NoneAbandoned'
  BY <1>1 DEF IInv, MarksHaveLoads, Brings, NoneAbandoned
<1>6. MembersTyped' /\ batch' \in Seq(Sent)
  BY DEF IInv, MembersTyped
<1> QED BY <1>3, <1>4, <1>5, <1>6 DEF IInv
-----------------------------------------------------------------------------
(* Loads.                                                                  *)

LEMMA FreshIsNewest ==
  ASSUME IInv, NEW id \in 1..MaxLoads, Fresh(id)
  PROVE  \A m \in Issued : m < id
<1> SUFFICES ASSUME NEW m \in Issued, ~ (m < id) PROVE FALSE
  OBVIOUS
<1>1. m \in 1..MaxLoads /\ id \notin Issued
  BY DEF Issued, Fresh
<1>2. id < m
  BY <1>1, Ranges
<1> QED BY <1>1, <1>2 DEF IInv, NumberedInOrder

LEMMA IssueOne ==
  ASSUME IInv, NEW id \in 1..MaxLoads, Fresh(id), NEW o \in {"pending", "dropped"},
         outcome' = [outcome EXCEPT ![id] = o]
  PROVE  /\ Issued' = Issued \cup {id} /\ NumberedInOrder'
         /\ \A m \in 1..MaxLoads : m # id => outcome'[m] = outcome[m]
         /\ outcome'[id] = o /\ outcome' \in [1..MaxLoads -> Outcome]
<1>1. outcome \in [1..MaxLoads -> Outcome]
  BY DEF IInv, MembersTyped
<1>2. /\ \A m \in 1..MaxLoads : m # id => outcome'[m] = outcome[m]
      /\ outcome'[id] = o /\ outcome' \in [1..MaxLoads -> Outcome]
  BY <1>1 DEF Outcome, Waiting
<1>3. Issued' = Issued \cup {id}
  BY <1>2 DEF Issued
<1>4. NumberedInOrder'
  <2> SUFFICES ASSUME NEW n \in 1..MaxLoads, NEW m \in 1..MaxLoads,
                      m < n, n \in Issued'
               PROVE  m \in Issued'
    BY DEF NumberedInOrder
  <2>1. CASE n \in Issued
    BY <1>3, <2>1 DEF IInv, NumberedInOrder
  <2>2. CASE n = id
    <3>1. id = 1 \/ id - 1 \in Issued
      BY DEF Fresh
    <3>2. m \in Nat /\ id \in Nat /\ m >= 1
      BY Ranges
    <3>3. id - 1 \in Issued /\ id - 1 \in 1..MaxLoads /\ (m = id - 1 \/ m < id - 1)
      BY <2>2, <3>1, <3>2, Ranges
    <3>4. m \in Issued
      BY <3>3 DEF IInv, NumberedInOrder
    <3> QED BY <1>3, <3>4
  <2> QED BY <1>3, <2>1, <2>2
<1> QED BY <1>2, <1>3, <1>4

LEMMA LoadInv ==
  ASSUME IInv, NEW id \in 1..MaxLoads, NEW kind, NEW name, NEW image,
         Load(id, kind, name, image),
         <<kind, name>> \in Named, image \in Key \cup Sound \cup File,
         kind = "font" => name \in Font /\ image \in Image,
         \/ loading' = loading
         \/ kind = "font" /\ loading' = loading \cup {name}
  PROVE  IInv'
<1> DEFINE job == [id |-> id, kind |-> kind, name |-> name, image |-> image,
                   state |-> "todo"]
           n == Len(InFlight)
<1>1. job \in Sent /\ job.id = id /\ job.kind = kind /\ job.name = name
  BY DEF Sent, Job, Kind, Name, Named
<1>2. /\ Enqueue(job) /\ Fresh(id) /\ outcome' = [outcome EXCEPT ![id] = "pending"]
      /\ UNCHANGED <<textures, fonts, sounds, glReady, batch>>
  BY DEF Load
<1> HIDE DEF job
<1>3. /\ LoaderInv(Sent)' /\ InLoader' \in Seq(Sent) /\ Len(InLoader') = Len(InLoader) + 1
      /\ \A i \in 1..Len(InLoader) : InLoader'[i] = InLoader[i]
      /\ InLoader'[Len(InLoader) + 1] = job
  BY <1>1, <1>2, EnqueueInv, EnqueueAppends DEF IInv
<1>4. batch' = batch /\ batch \in Seq(Sent)
  BY <1>2 DEF IInv
<1>5. n \in Nat /\ Len(InFlight') = n + 1
  BY <1>3, <1>4, FlightSeq, FlightSeqNext DEF IInv, LoaderInv
<1>6. ASSUME NEW i \in 1..n + 1
      PROVE  InFlight'[i] = IF i = n + 1 THEN job ELSE InFlight[i]
  <2> DEFINE b == Len(batch)
  <2>1. b \in Nat /\ Len(InLoader) \in Nat /\ n = b + Len(InLoader)
    BY <1>4, FlightSeq DEF IInv, LoaderInv
  <2>2. InFlight'[i] = IF i <= b THEN batch[i] ELSE InLoader'[i - b]
    BY <1>3, <1>4, <1>5, FlightSeqNext DEF IInv, LoaderInv
  <2>3. i <= n => InFlight[i] = IF i <= b THEN batch[i] ELSE InLoader[i - b]
    BY <1>5, FlightSeq DEF IInv, LoaderInv
  <2> HIDE DEF b, n
  <2>4. CASE i = n + 1
    BY <1>3, <2>1, <2>2, <2>4
  <2>5. CASE i # n + 1
    BY <1>3, <2>1, <2>2, <2>3, <2>5
  <2> QED BY <2>4, <2>5
<1>7. \A i \in 1..n : InFlight[i].id \in Issued /\ outcome[InFlight[i].id] \in Waiting
                      /\ InFlight[i].id \in 1..MaxLoads
  BY FlightJobs
<1>8. /\ Issued' = Issued \cup {id} /\ NumberedInOrder' /\ id \notin Issued
      /\ \A m \in 1..MaxLoads : m # id => outcome'[m] = outcome[m]
      /\ outcome'[id] = "pending" /\ outcome' \in [1..MaxLoads -> Outcome]
  BY <1>2, IssueOne DEF Fresh
<1>9. \A m \in Issued : m < id
  BY <1>2, FreshIsNewest
<1> HIDE DEF n
<1>10. InOrder'
  <2> SUFFICES ASSUME NEW i \in 1..n + 1, NEW j \in 1..n + 1, i < j
               PROVE  InFlight'[i].id < InFlight'[j].id
    BY <1>5 DEF InOrder
  <2>1. i \in 1..n /\ i # n + 1 /\ (j \in 1..n \/ j = n + 1)
    BY <1>5
  <2>2. CASE j = n + 1
    BY <1>1, <1>6, <1>7, <1>9, <2>1, <2>2
  <2>3. CASE j # n + 1
    BY <1>6, <2>1, <2>3 DEF IInv, InOrder, n
  <2> QED BY <2>2, <2>3
<1>11. Unanswered'
  <2> SUFFICES ASSUME NEW i \in 1..n + 1 PROVE outcome'[InFlight'[i].id] \in Waiting
    BY <1>5 DEF Unanswered
  <2>1. CASE i = n + 1
    BY <1>1, <1>6, <1>8, <2>1 DEF Waiting
  <2>2. CASE i # n + 1
    <3>1. i \in 1..n
      BY <1>5, <2>2
    <3> QED BY <1>6, <1>7, <1>8, <2>2, <3>1
  <2> QED BY <2>1, <2>2
<1>12. RegisteredIsOld'
  <2>1. ASSUME NEW m, OlderThanFlight(m) PROVE OlderThanFlight(m)'
    <3>1. m \in Issued /\ m < id
      BY <1>9, <2>1 DEF OlderThanFlight
    <3>2. ASSUME NEW i \in 1..n + 1 PROVE m < InFlight'[i].id
      <4>1. CASE i = n + 1
        BY <1>1, <1>6, <3>1, <4>1
      <4>2. CASE i # n + 1
        <5>1. i \in 1..n
          BY <1>5, <4>2
        <5> QED BY <1>6, <2>1, <4>2, <5>1 DEF OlderThanFlight, n
      <4> QED BY <4>1, <4>2
    <3> QED BY <1>5, <1>8, <3>1, <3>2 DEF OlderThanFlight
  <2> QED BY <1>2, <2>1 DEF IInv, RegisteredIsOld
<1>13. MarksHaveLoads'
  <2> SUFFICES ASSUME NEW f \in loading' PROVE \E i \in 1..n + 1 : Brings(i, f)'
    BY <1>5 DEF MarksHaveLoads
  <2>1. CASE f \in loading
    <3>1. PICK i \in 1..n : Brings(i, f)
      BY <2>1 DEF IInv, MarksHaveLoads, n
    <3>2. i \in 1..n + 1 /\ i # n + 1
      BY <1>5
    <3> QED BY <1>6, <3>1, <3>2 DEF Brings
  <2>2. CASE kind = "font" /\ f = name
    <3>1. n + 1 \in 1..n + 1
      BY <1>5
    <3> QED BY <1>1, <1>6, <2>2, <3>1 DEF Brings
  <2> QED BY <2>1, <2>2
<1>14. MembersTyped' /\ AtlasesThere'
  BY <1>2, <1>4, <1>8 DEF IInv, MembersTyped, AtlasesThere
<1>15. NoneAbandoned'
  <2>1. worker' # "none" /\ stop' = stop
    BY <1>2 DEF Enqueue, IInv, LoaderInv, LoaderTypeOK
  <2> QED BY <1>4, <2>1 DEF IInv, NoneAbandoned
<1> QED BY <1>3, <1>4, <1>8, <1>10, <1>11, <1>12, <1>13, <1>14, <1>15 DEF IInv

(* A load of a sound that is refused: nothing is in flight for it.         *)
LEMMA RefusedInv ==
  ASSUME IInv, NEW id \in 1..MaxLoads, Fresh(id),
         outcome' = [outcome EXCEPT ![id] = "dropped"],
         UNCHANGED <<loaderVars, textures, fonts, loading, sounds, glReady, batch>>
  PROVE  IInv'
<1>1. /\ Issued' = Issued \cup {id} /\ NumberedInOrder' /\ id \notin Issued
      /\ \A m \in 1..MaxLoads : m # id => outcome'[m] = outcome[m]
      /\ outcome'[id] = "dropped" /\ outcome' \in [1..MaxLoads -> Outcome]
  BY IssueOne DEF Fresh
<1>2. InFlight' = InFlight
  BY DEF InFlight, InLoader, Running, loaderVars
<1>3. LoaderInv(Sent)'
  BY LoaderUnchangedInv DEF IInv
<1>4. Unanswered'
  <2> SUFFICES ASSUME NEW i \in 1..Len(InFlight) PROVE outcome'[InFlight[i].id] \in Waiting
    BY <1>2 DEF Unanswered
  <2> QED BY <1>1, FlightJobs
<1>5. InOrder' /\ RegisteredIsOld' /\ MarksHaveLoads' /\ AtlasesThere'
  BY <1>1, <1>2 DEF IInv, InOrder, RegisteredIsOld, OlderThanFlight, MarksHaveLoads,
     Brings, AtlasesThere
<1>6. NoneAbandoned'
  BY <1>1 DEF IInv, NoneAbandoned, loaderVars, Waiting
<1>7. MembersTyped' /\ batch' \in Seq(Sent)
  BY <1>1 DEF IInv, MembersTyped
<1> QED BY <1>1, <1>3, <1>4, <1>5, <1>6, <1>7 DEF IInv
-----------------------------------------------------------------------------
(* Finishing an asset: the first in flight is answered.                    *)

(* What Finish(r) may change.                                              *)
LEMMA FinishFacts ==
  ASSUME MembersTyped, AtlasesThere, NEW r \in Sent, Finish(r)
  PROVE  /\ textures' \in [Key -> 1..MaxLoads \cup {None}]
         /\ fonts' \in [Font -> Image \cup {None}] /\ loading' \in SUBSET Font
         /\ sounds' \in [Sound -> 1..MaxLoads \cup {None}]
         /\ \E o \in {"loaded", "failed"} : outcome' = [outcome EXCEPT ![r.id] = o]
         /\ \A k \in Key : textures'[k] \in {textures[k], r.id}
         /\ \A u \in Sound : sounds'[u] \in {sounds[u], r.id}
         /\ AtlasesThere'
         /\ loading' = IF r.kind = "font" THEN loading \ {r.name} ELSE loading
<1>1. /\ r.id \in 1..MaxLoads
      /\ r.kind = "texture" => r.name \in Texture
      /\ r.kind = "font" => r.name \in Font /\ r.image \in Image
      /\ r.kind = "audio" => r.name \in Sound
  BY SentJobs
<1>2. /\ textures \in [Key -> 1..MaxLoads \cup {None}]
      /\ fonts \in [Font -> Image \cup {None}] /\ loading \in SUBSET Font
      /\ sounds \in [Sound -> 1..MaxLoads \cup {None}]
      /\ Texture \subseteq Key /\ Image \subseteq Key
  BY DEF MembersTyped, Key
<1>3. r.id # None /\ None \notin Image
  BY <1>1, Ranges
<1>4. CASE FinishFailed(r)
  BY <1>2, <1>4 DEF FinishFailed, NoLongerLoading, AtlasesThere
<1>5. CASE FinishTexture(r)
  BY <1>1, <1>2, <1>3, <1>5 DEF FinishTexture, AtlasesThere
<1>6. CASE FinishFont(r)
  <2>1. /\ textures' = [textures EXCEPT ![r.image] = r.id]
        /\ fonts' = [fonts EXCEPT ![r.name] = r.image]
        /\ loading' = loading \ {r.name} /\ UNCHANGED sounds
        /\ outcome' = [outcome EXCEPT ![r.id] = "loaded"]
        /\ r.kind = "font" /\ r.name \in Font /\ r.image \in Image
    BY <1>1, <1>6 DEF FinishFont, AtlasOf
  <2>2. AtlasesThere'
    <3> SUFFICES ASSUME NEW f \in Font, fonts'[f] # None
                 PROVE  textures'[fonts'[f]] # None
      BY DEF AtlasesThere
    <3>1. CASE f = r.name
      BY <1>2, <1>3, <2>1, <3>1
    <3>2. CASE f # r.name
      BY <1>2, <1>3, <2>1, <3>2 DEF AtlasesThere
    <3> QED BY <3>1, <3>2
  <2> QED BY <1>1, <1>2, <2>1, <2>2
<1>7. CASE FinishAudio(r)
  BY <1>1, <1>2, <1>7 DEF FinishAudio, AtlasesThere
<1>8. CASE FinishFile(r)
  BY <1>1, <1>2, <1>8 DEF FinishFile, AtlasesThere
<1> QED BY <1>4, <1>5, <1>6, <1>7, <1>8 DEF Finish

(* A frame's drain: the n oldest jobs leave the loader, the first of them  *)
(* is finished, the others are the batch.                                  *)
Drained == DrainCount(MaxPerDrain)

LEMMA DrainFacts ==
  ASSUME IInv, DrainBegin
  PROVE  /\ LoaderInv(Sent)' /\ batch = <<>> /\ batch' \in Seq(Sent)
         /\ Drained \in Nat /\ Drained > 0 /\ Drained <= Len(InLoader)
         /\ InLoader' \in Seq(Sent) /\ Len(InLoader') = Len(InLoader) - Drained
         /\ \A i \in 1..Len(InLoader') : InLoader'[i] = InLoader[i + Drained]
         /\ Finish(InLoader[1]) /\ Len(batch') = Drained - 1
         /\ \A i \in 1..Drained - 1 : batch'[i] = InLoader[i + 1]
         /\ UNCHANGED <<stop, worker, glReady>>
<1>1. LoaderInv(Sent) /\ LoaderTypeOK(Sent) /\ batch \in Seq(Sent)
  BY DEF IInv, LoaderInv
<1> DEFINE n == DrainCount(MaxPerDrain)
           taken == TakeReady(n)
<1>2. /\ DrainReady(MaxPerDrain) /\ batch = <<>> /\ readyQueue # <<>>
      /\ Finish(Head(taken)) /\ batch' = Tail(taken) /\ glReady' = glReady
  BY DEF DrainBegin, BetweenFrames
<1>3. LoaderInv(Sent)' /\ UNCHANGED <<stop, worker>>
  BY <1>1, <1>2, DrainInv, Ranges DEF DrainReady
<1>4. n > 0
  BY <1>1, <1>2, DrainTakes, Ranges
<1>5. /\ n \in 0..Len(InLoader) /\ Len(InLoader) \in Nat
      /\ InLoader' \in Seq(Sent) /\ Len(InLoader') = Len(InLoader) - n
      /\ \A i \in 1..Len(InLoader') : InLoader'[i] = InLoader[i + n]
      /\ taken \in Seq(Sent) /\ Len(taken) = n
      /\ \A i \in 1..n : taken[i] = InLoader[i]
  BY <1>1, <1>2, DrainTakesOldest, FlightSeq, Ranges
<1> HIDE DEF taken, n
<1>6. /\ taken # <<>> /\ Head(taken) = taken[1]
      /\ Tail(taken) \in Seq(Sent) /\ Len(Tail(taken)) = n - 1
      /\ \A i \in 1..n - 1 : Tail(taken)[i] = taken[i + 1]
  BY <1>4, <1>5, EmptySeq, HeadTailProperties
<1>7. n \in Nat /\ n <= Len(InLoader) /\ 1 \in 1..n
      /\ \A i \in 1..n - 1 : i + 1 \in 1..n
  BY <1>4, <1>5
<1>8. Finish(InLoader[1]) /\ \A i \in 1..n - 1 : Tail(taken)[i] = InLoader[i + 1]
  BY <1>2, <1>5, <1>6, <1>7
<1> QED BY <1>2, <1>3, <1>4, <1>5, <1>6, <1>7, <1>8 DEF Drained, n

(* DrainBegin and FinishNext finish the first in flight and keep the rest. *)
LEMMA PopsFirst ==
  ASSUME IInv, DrainBegin \/ FinishNext
  PROVE  /\ Len(InFlight) > 0 /\ Finish(InFlight[1])
         /\ LoaderInv(Sent)' /\ batch' \in Seq(Sent)
         /\ Len(InFlight') = Len(InFlight) - 1
         /\ \A i \in 1..Len(InFlight') : InFlight'[i] = InFlight[i + 1]
         /\ UNCHANGED <<stop, worker, glReady>>
<1>1. LoaderInv(Sent) /\ LoaderTypeOK(Sent) /\ batch \in Seq(Sent)
  BY DEF IInv, LoaderInv
<1>2. CASE DrainBegin
  <2> DEFINE n == Drained
  <2>1. /\ LoaderInv(Sent)' /\ batch = <<>> /\ batch' \in Seq(Sent)
        /\ n \in Nat /\ n > 0 /\ n <= Len(InLoader)
        /\ InLoader' \in Seq(Sent) /\ Len(InLoader') = Len(InLoader) - n
        /\ \A i \in 1..Len(InLoader') : InLoader'[i] = InLoader[i + n]
        /\ Finish(InLoader[1]) /\ Len(batch') = n - 1
        /\ \A i \in 1..n - 1 : batch'[i] = InLoader[i + 1]
        /\ UNCHANGED <<stop, worker, glReady>>
    BY <1>2, DrainFacts
  <2> HIDE DEF n
  <2>6. /\ Len(batch) = 0 /\ Len(InLoader) \in Nat /\ Len(InFlight) = Len(InLoader)
        /\ \A i \in 1..Len(InFlight) : InFlight[i] = InLoader[i]
    <3>1. Len(batch) = 0
      BY <2>1, EmptySeq
    <3>2. \A i \in 1..Len(InFlight) : ~ (i <= 0) /\ i - 0 = i
      BY <1>1, FlightSeq
    <3> QED BY <1>1, <3>1, <3>2, FlightSeq
  <2>7. /\ Len(InFlight') = n - 1 + (Len(InLoader) - n)
        /\ \A i \in 1..Len(InFlight') :
             InFlight'[i] = IF i <= n - 1 THEN batch'[i] ELSE InLoader'[i - (n - 1)]
    BY <2>1, FlightSeqNext DEF LoaderInv
  <2>8. Len(InFlight) > 0 /\ Len(InFlight') = Len(InFlight) - 1
    BY <2>1, <2>6, <2>7
  <2>9. ASSUME NEW i \in 1..Len(InFlight') PROVE InFlight'[i] = InFlight[i + 1]
    <3>1. PICK k \in 1..Len(InFlight) : k = i + 1
      BY <2>6, <2>8
    <3>2. InFlight[k] = InLoader[k]
      BY <2>6
    <3>3. CASE i <= n - 1
      <4>1. i \in 1..n - 1
        BY <2>1, <2>6, <3>1, <3>3
      <4> QED BY <2>1, <2>7, <3>1, <3>2, <3>3, <4>1
    <3>4. CASE ~ (i <= n - 1)
      <4>1. PICK l \in 1..Len(InLoader') : l = i - (n - 1) /\ l + n = k
        BY <2>1, <2>6, <2>8, <3>1, <3>4
      <4>2. InFlight'[i] = InLoader'[l]
        BY <2>7, <3>4, <4>1
      <4> QED BY <2>1, <3>1, <3>2, <4>1, <4>2
    <3> QED BY <3>3, <3>4
  <2>10. Finish(InFlight[1])
    <3>1. 1 \in 1..Len(InFlight)
      BY <2>6, <2>8
    <3> QED BY <2>1, <2>6, <3>1
  <2> QED BY <2>1, <2>8, <2>9, <2>10
<1>3. CASE FinishNext
  <2> DEFINE b == Len(batch)
  <2>1. /\ batch # <<>> /\ Finish(Head(batch)) /\ batch' = Tail(batch)
        /\ UNCHANGED <<loaderVars, glReady>>
    BY <1>3 DEF FinishNext
  <2>2. LoaderInv(Sent)' /\ UNCHANGED <<stop, worker>> /\ InLoader' = InLoader
    BY <1>1, <2>1, LoaderUnchangedInv DEF loaderVars, InLoader, Running
  <2>3. /\ batch' \in Seq(Sent) /\ Len(batch') = b - 1 /\ Head(batch) = batch[1]
        /\ \A i \in 1..b - 1 : batch'[i] = batch[i + 1] /\ b \in Nat /\ b > 0
    BY <1>1, <2>1, HeadTailProperties, EmptySeq
  <2>4. b \in Nat /\ b > 0
    BY <1>1, <2>1, EmptySeq
  <2>5. /\ Len(InLoader) \in Nat /\ Len(InFlight) = b + Len(InLoader)
        /\ \A i \in 1..Len(InFlight) :
             InFlight[i] = IF i <= b THEN batch[i] ELSE InLoader[i - b]
    BY <1>1, FlightSeq
  <2>6. /\ Len(InFlight') = b - 1 + Len(InLoader)
        /\ \A i \in 1..Len(InFlight') :
             InFlight'[i] = IF i <= b - 1 THEN batch'[i] ELSE InLoader[i - (b - 1)]
    BY <2>2, <2>3, FlightSeqNext DEF LoaderInv
  <2> HIDE DEF b
  <2>7. Len(InFlight) > 0 /\ Len(InFlight') = Len(InFlight) - 1
    BY <2>4, <2>5, <2>6
  <2>8. ASSUME NEW i \in 1..Len(InFlight') PROVE InFlight'[i] = InFlight[i + 1]
    <3>1. PICK k \in 1..Len(InFlight) : k = i + 1
      BY <2>4, <2>5, <2>6
    <3>2. InFlight[k] = IF k <= b THEN batch[k] ELSE InLoader[k - b]
      BY <2>5
    <3>3. /\ i <= b - 1 <=> k <= b
          /\ i - (b - 1) = k - b
          /\ i <= b - 1 => i \in 1..b - 1
      BY <2>4, <2>5, <2>6, <3>1
    <3>4. i <= b - 1 => batch'[i] = batch[k]
      BY <2>3, <3>1, <3>3
    <3>5. InFlight'[i] = InFlight[k]
      BY <2>6, <3>2, <3>3, <3>4
    <3> QED BY <3>1, <3>5
  <2>9. Finish(InFlight[1])
    <3>1. 1 \in 1..Len(InFlight) /\ 1 <= b
      BY <2>4, <2>5
    <3> QED BY <2>1, <2>3, <2>5, <3>1
  <2> QED BY <2>1, <2>2, <2>3, <2>7, <2>8, <2>9
<1> QED BY <1>2, <1>3

LEMMA PopInv ==
  ASSUME IInv, DrainBegin \/ FinishNext
  PROVE  IInv'
<1> DEFINE n == Len(InFlight')
<1>1. /\ Finish(InFlight[1]) /\ LoaderInv(Sent)' /\ batch' \in Seq(Sent)
      /\ Len(InFlight) = n + 1 /\ 1 \in 1..n + 1 /\ n \in Nat
      /\ \A i \in 1..n : InFlight'[i] = InFlight[i + 1] /\ i + 1 \in 1..n + 1
      /\ UNCHANGED <<stop, worker, glReady>>
  <2>1. Len(InFlight) \in Nat
    BY FlightSeq DEF IInv, LoaderInv
  <2> QED BY <2>1, PopsFirst
<1> DEFINE r == InFlight[1]
<1>2. r \in Sent /\ r.id \in 1..MaxLoads /\ r.id \in Nat
  BY <1>1, FlightJobs, Ranges
<1>3. \A i \in 1..n : InFlight[i + 1].id \in 1..MaxLoads /\ r.id < InFlight[i + 1].id
  <2>1. ASSUME NEW i \in 1..n PROVE r.id < InFlight[i + 1].id
    <3>1. i + 1 \in 1..n + 1 /\ 1 < i + 1
      BY <1>1
    <3> QED BY <1>1, <3>1 DEF IInv, InOrder
  <2> QED BY <1>1, <2>1, FlightJobs
<1>4. outcome[r.id] \in Waiting /\ r.id \in Issued
  BY <1>1, FlightJobs
<1>5. Finish(r)
  BY <1>1
<1> HIDE DEF r
<1>6. /\ textures' \in [Key -> 1..MaxLoads \cup {None}]
      /\ fonts' \in [Font -> Image \cup {None}] /\ loading' \in SUBSET Font
      /\ sounds' \in [Sound -> 1..MaxLoads \cup {None}]
      /\ \A k \in Key : textures'[k] \in {textures[k], r.id}
      /\ \A u \in Sound : sounds'[u] \in {sounds[u], r.id}
      /\ AtlasesThere'
      /\ loading' = IF r.kind = "font" THEN loading \ {r.name} ELSE loading
  BY <1>2, <1>5, FinishFacts DEF IInv
<1>7. PICK o \in {"loaded", "failed"} : outcome' = [outcome EXCEPT ![r.id] = o]
  BY <1>2, <1>5, FinishFacts DEF IInv
<1>8. outcome \in [1..MaxLoads -> Outcome]
  BY DEF IInv, MembersTyped
<1>9. /\ outcome' \in [1..MaxLoads -> Outcome] /\ outcome'[r.id] = o
      /\ \A m \in 1..MaxLoads : m # r.id => outcome'[m] = outcome[m]
  BY <1>2, <1>7, <1>8 DEF Outcome
<1>10. Issued' = Issued
  BY <1>4, <1>9 DEF Issued
<1>11. NumberedInOrder'
  BY <1>10 DEF IInv, NumberedInOrder
<1> HIDE DEF n
<1>12. InOrder'
  <2> SUFFICES ASSUME NEW i \in 1..n, NEW j \in 1..n, i < j
               PROVE  InFlight'[i].id < InFlight'[j].id
    BY DEF InOrder, n
  <2>1. i + 1 \in 1..n + 1 /\ j + 1 \in 1..n + 1 /\ i + 1 < j + 1
    BY <1>1
  <2>2. InFlight[i + 1].id < InFlight[j + 1].id
    BY <1>1, <2>1 DEF IInv, InOrder
  <2> QED BY <1>1, <2>2
<1>13. Unanswered'
  <2> SUFFICES ASSUME NEW i \in 1..n PROVE outcome'[InFlight'[i].id] \in Waiting
    BY DEF Unanswered, n
  <2>1. PICK k \in 1..n + 1 : k = i + 1
    BY <1>1
  <2>2. /\ InFlight[k].id # r.id /\ InFlight[k].id \in 1..MaxLoads
        /\ InFlight'[i] = InFlight[k]
    BY <1>1, <1>2, <1>3, <2>1, Ranges
  <2>3. outcome[InFlight[k].id] \in Waiting
    BY <1>1 DEF IInv, Unanswered
  <2> QED BY <1>9, <2>2, <2>3
<1>14. RegisteredIsOld'
  <2>1. ASSUME NEW m, OlderThanFlight(m) PROVE OlderThanFlight(m)'
    <3>1. ASSUME NEW i \in 1..n PROVE m < InFlight'[i].id
      <4>1. PICK k \in 1..n + 1 : k = i + 1
        BY <1>1
      <4>2. m < InFlight[k].id
        BY <1>1, <2>1 DEF OlderThanFlight
      <4> QED BY <1>1, <4>1, <4>2
    <3> QED BY <1>10, <2>1, <3>1 DEF OlderThanFlight, n
  <2>2. PICK x : x = r.id
    OBVIOUS
  <2>3. OlderThanFlight(x)'
    BY <1>1, <1>3, <1>4, <1>10, <2>2 DEF OlderThanFlight, n
  <2>4. ASSUME NEW k \in Key, textures'[k] # None
        PROVE  OlderThanFlight(textures[k])'
    <3>1. PICK y : y = textures'[k]
      OBVIOUS
    <3>2. OlderThanFlight(y)'
      BY <1>6, <2>1, <2>2, <2>3, <2>4, <3>1 DEF IInv, RegisteredIsOld
    <3> QED BY <3>1, <3>2 DEF OlderThanFlight
  <2>5. ASSUME NEW u \in Sound, sounds'[u] # None
        PROVE  OlderThanFlight(sounds[u])'
    <3>1. PICK y : y = sounds'[u]
      OBVIOUS
    <3>2. OlderThanFlight(y)'
      BY <1>6, <2>1, <2>2, <2>3, <2>5, <3>1 DEF IInv, RegisteredIsOld
    <3> QED BY <3>1, <3>2 DEF OlderThanFlight
  <2> QED BY <2>4, <2>5 DEF RegisteredIsOld
<1>15. MarksHaveLoads'
  <2> SUFFICES ASSUME NEW f \in loading' PROVE \E i \in 1..n : Brings(i, f)'
    BY DEF MarksHaveLoads, n
  <2>1. f \in loading /\ ~ (r.kind = "font" /\ r.name = f)
    BY <1>6
  <2>2. PICK k \in 1..n + 1 : Brings(k, f)
    BY <1>1, <2>1 DEF IInv, MarksHaveLoads
  <2>3. k # 1
    BY <2>1, <2>2 DEF Brings, r
  <2>4. PICK i \in 1..n : k = i + 1
    <3>1. k - 1 \in 1..n /\ k = k - 1 + 1
      BY <1>1, <2>3
    <3> QED BY <3>1
  <2> QED BY <1>1, <2>2, <2>4 DEF Brings
<1>16. NoneAbandoned'
  <2>1. worker # "none"
    BY <1>2, <1>4 DEF IInv, NoneAbandoned
  <2>2. stop => batch' = <<>>
    <3>1. CASE DrainBegin
      <4>1. caller = "idle"
        BY <3>1 DEF DrainBegin, BetweenFrames
      <4> QED BY <4>1 DEF IInv, LoaderInv, LoaderControl
    <3>2. CASE FinishNext
      <4>1. caller = "idle"
        BY <3>2 DEF FinishNext
      <4> QED BY <4>1 DEF IInv, LoaderInv, LoaderControl
    <3> QED BY <3>1, <3>2
  <2> QED BY <1>1, <2>1, <2>2 DEF NoneAbandoned
<1>17. MembersTyped'
  <2>1. batch' \in Seq(Job) /\ glReady' \in BOOLEAN
    BY <1>1, SentJobs, SeqMonotonic DEF IInv, MembersTyped
  <2> QED BY <1>6, <1>9, <2>1 DEF MembersTyped
<1> QED BY <1>1, <1>6, <1>11, <1>12, <1>13, <1>14, <1>15, <1>16, <1>17 DEF IInv
-----------------------------------------------------------------------------
(* Cancellations.                                                          *)

(* The ids of the jobs of a kind and name in q.                            *)
IdsOf(q, kind, name) == {q[i].id : i \in {j \in DOMAIN q : IsOf(q[j], kind, name)}}

(* Kept places what is left of the loader's jobs among those there were.   *)
KeepsOthers(kept, kind, name) ==
  /\ kept \in [1..Len(InLoader') -> 1..Len(InLoader)]
  /\ \A i \in 1..Len(InLoader') : InLoader'[i] = InLoader[kept[i]]
  /\ \A i, j \in 1..Len(InLoader') : i < j => kept[i] < kept[j]
  /\ \A k \in 1..Len(InLoader) :
       ~ IsOf(InLoader[k], kind, name) => \E i \in 1..Len(InLoader') : kept[i] = k
  /\ \A i, j \in 1..Len(InLoader') :
       IsOf(InLoader[kept[i]], kind, name) /\ IsOf(InLoader[kept[j]], kind, name) => i = j

LEMMA CancelFacts ==
  ASSUME IInv, NEW kind, NEW name, Cancel(kind, name)
  PROVE  /\ LoaderInv(Sent)' /\ Len(InLoader') <= Len(InLoader)
         /\ \E kept : KeepsOthers(kept, kind, name)
         /\ UNCHANGED <<stop, worker>>
         /\ outcome' = [id \in 1..MaxLoads |->
              IF id \in IdsOf(InLoader, kind, name) \ IdsOf(InLoader', kind, name)
              THEN "dropped"
              ELSE IF id \in IdsOf(InLoader, kind, name) \cup IdsOf(batch, kind, name)
                   THEN "revoked" ELSE outcome[id]]
<1>1. LoaderInv(Sent)
  BY DEF IInv
<1>2. outcome' = [id \in 1..MaxLoads |->
              IF id \in IdsOf(InLoader, kind, name) \ IdsOf(InLoader', kind, name)
              THEN "dropped"
              ELSE IF id \in IdsOf(InLoader, kind, name) \cup IdsOf(batch, kind, name)
                   THEN "revoked" ELSE outcome[id]]
  BY DEF Cancel, IdsOf, IsOf
<1>3. CASE CancelPending(kind, name)
  BY <1>1, <1>2, <1>3, CancelKeeps DEF KeepsOthers, CancelPending
<1>4. CASE worker = "none" /\ UNCHANGED loaderVars
  <2>1. LoaderInv(Sent)' /\ UNCHANGED <<stop, worker>>
    BY <1>1, <1>4, LoaderUnchangedInv DEF loaderVars
  <2>2. Len(InLoader) = 0 /\ Len(InLoader') = 0
    <3>1. /\ Len(readyQueue) = 0 /\ Len(decodeQueue) = 0 /\ AtWork = 0
          /\ Len(readyQueue') = 0 /\ Len(decodeQueue') = 0 /\ AtWork' = 0
      BY <1>1, <1>4, EmptySeq DEF LoaderInv, LoaderControl, loaderVars, AtWork
    <3> QED BY <1>1, <2>1, <3>1, LoaderSeq, LoaderSeqNext DEF LoaderInv
  <2>3. KeepsOthers([i \in 1..0 |-> 1], kind, name)
    BY <2>2 DEF KeepsOthers
  <2> QED BY <1>2, <2>1, <2>2, <2>3
<1> QED BY <1>3, <1>4 DEF Cancel

(* The same of everything in flight: the drained assets all stay.          *)
LEMMA CancelFlight ==
  ASSUME IInv, NEW kind, NEW name, Cancel(kind, name), batch' = batch
  PROVE  \E h \in [1..Len(InFlight') -> 1..Len(InFlight)] :
           /\ \A i \in 1..Len(InFlight') : InFlight'[i] = InFlight[h[i]]
           /\ \A i, j \in 1..Len(InFlight') : i < j => h[i] < h[j]
           /\ \A k \in 1..Len(InFlight) :
                ~ IsOf(InFlight[k], kind, name) => \E i \in 1..Len(InFlight') : h[i] = k
<1> DEFINE b == Len(batch)
           d == Len(InLoader)
           m == Len(InLoader')
<1>1. LoaderTypeOK(Sent) /\ LoaderTypeOK(Sent)' /\ batch \in Seq(Sent)
  BY CancelFacts DEF IInv, LoaderInv
<1>2. /\ b \in Nat /\ d \in Nat /\ Len(InFlight) = b + d
      /\ \A i \in 1..b + d : InFlight[i] = IF i <= b THEN batch[i] ELSE InLoader[i - b]
  BY <1>1, FlightSeq
<1>3. /\ m \in Nat /\ Len(InFlight') = b + m
      /\ \A i \in 1..b + m : InFlight'[i] = IF i <= b THEN batch[i] ELSE InLoader'[i - b]
  BY <1>1, FlightSeqNext
<1>4. m <= d
  BY CancelFacts
<1>5. PICK g : KeepsOthers(g, kind, name)
  BY CancelFacts
<1>6. /\ g \in [1..m -> 1..d] /\ \A i, j \in 1..m : i < j => g[i] < g[j]
      /\ \A i \in 1..m : InLoader'[i] = InLoader[g[i]]
      /\ \A k \in 1..d : ~ IsOf(InLoader[k], kind, name) => \E i \in 1..m : g[i] = k
  BY <1>5 DEF KeepsOthers
<1> HIDE DEF b, d, m
<1> DEFINE f == [i \in 1..b |-> i]
           h == Glue(f, b, 0, b, g, m)
<1>7. /\ h \in [1..b + 0 + m -> 1..b + 0 + d]
      /\ \A i, j \in 1..b + 0 + m : i < j => h[i] < h[j]
      /\ \A i \in 1..b : h[i] = f[i]
      /\ 0 = 1 => h[b + 1] = b + 1
      /\ \A i \in 1..m : h[b + 0 + i] = b + 0 + g[i]
  <2>1. /\ b \in Nat /\ 0 \in 0..1 /\ d \in Nat /\ b \in 0..b /\ m \in 0..d
        /\ f \in [1..b -> 1..b] /\ g \in [1..m -> 1..d]
        /\ \A i, j \in 1..b : i < j => f[i] < f[j]
        /\ \A i, j \in 1..m : i < j => g[i] < g[j]
    BY <1>2, <1>3, <1>4, <1>6
  <2> HIDE DEF h, f
  <2> QED BY <2>1, Glued, ZenonT(60) DEF h
<1>8. b + 0 + m = b + m /\ b + 0 + d = b + d /\ \A i \in Int : b + 0 + i = b + i
  BY <1>2, <1>3
<1>9. /\ h \in [1..b + m -> 1..b + d]
      /\ \A i, j \in 1..b + m : i < j => h[i] < h[j]
      /\ \A i \in 1..b : h[i] = i
  <2> HIDE DEF h
  <2> QED BY <1>7, <1>8
<1>10. ASSUME NEW i \in 1..m PROVE h[b + i] = b + g[i] /\ g[i] \in 1..d
  <2> HIDE DEF h
  <2>1. h[b + 0 + i] = b + 0 + g[i] /\ g[i] \in 1..d
    BY <1>6, <1>7
  <2> QED BY <1>3, <1>8, <2>1
<1> HIDE DEF h
<1>11. ASSUME NEW i \in 1..b + m PROVE InFlight'[i] = InFlight[h[i]]
  <2>1. CASE i <= b
    <3>1. h[i] = i /\ i \in 1..b + d
      BY <1>2, <1>3, <1>9, <2>1
    <3> QED BY <1>2, <1>3, <2>1, <3>1
  <2>2. CASE ~ (i <= b)
    <3>1. PICK l \in 1..m : l = i - b /\ i = b + l
      <4>1. i - b \in 1..m /\ i = b + (i - b)
        BY <1>2, <1>3, <2>2
      <4> QED BY <4>1
    <3>2. PICK p \in 1..b + d : p = h[i] /\ p = b + g[l] /\ g[l] \in 1..d
      BY <1>9, <1>10, <3>1
    <3>3. ~ (p <= b) /\ p - b = g[l]
      BY <1>2, <3>2
    <3>4. InFlight[p] = InLoader[g[l]]
      BY <1>2, <3>3
    <3> QED BY <1>3, <1>6, <2>2, <3>1, <3>2, <3>4
  <2> QED BY <2>1, <2>2
<1>12. ASSUME NEW k \in 1..b + d, ~ IsOf(InFlight[k], kind, name)
       PROVE  \E i \in 1..b + m : h[i] = k
  <2>1. CASE k <= b
    <3>1. k \in 1..b /\ k \in 1..b + m
      BY <1>2, <1>3, <2>1
    <3> QED BY <1>9, <3>1
  <2>2. CASE ~ (k <= b)
    <3>1. PICK l \in 1..d : l = k - b /\ k = b + l
      <4>1. k - b \in 1..d /\ k = b + (k - b)
        BY <1>2, <2>2
      <4> QED BY <4>1
    <3>2. InFlight[k] = InLoader[l]
      BY <1>2, <2>2, <3>1
    <3>3. PICK i \in 1..m : g[i] = l
      BY <1>6, <1>12, <3>2
    <3>4. b + i \in 1..b + m /\ h[b + i] = k
      BY <1>2, <1>3, <1>10, <3>1, <3>3
    <3> QED BY <3>4
  <2> QED BY <2>1, <2>2
<1>13. /\ h \in [1..Len(InFlight') -> 1..Len(InFlight)]
       /\ \A i \in 1..Len(InFlight') : InFlight'[i] = InFlight[h[i]]
       /\ \A i, j \in 1..Len(InFlight') : i < j => h[i] < h[j]
       /\ \A k \in 1..Len(InFlight) :
            ~ IsOf(InFlight[k], kind, name) => \E i \in 1..Len(InFlight') : h[i] = k
  BY <1>2, <1>3, <1>9, <1>11, <1>12
<1> QED BY <1>13

(* No two jobs in flight have the same id.                                 *)
LEMMA IdsDiffer ==
  ASSUME IInv, NEW i \in 1..Len(InFlight), NEW j \in 1..Len(InFlight),
         InFlight[i].id = InFlight[j].id
  PROVE  i = j
<1>1. i \in Nat /\ j \in Nat
  BY FlightSeq DEF IInv, LoaderInv
<1>2. InFlight[i].id \in Nat /\ InFlight[j].id \in Nat
  BY FlightJobs, Ranges
<1>3. ~ (i < j) /\ ~ (j < i)
  BY <1>2 DEF IInv, InOrder
<1> QED BY <1>1, <1>3

(* The outcome of a load only changes while it waits, and what is still in *)
(* flight goes on waiting.                                                 *)
LEMMA CancelOutcome ==
  ASSUME IInv, NEW kind, NEW name, Cancel(kind, name), batch' = batch
  PROVE  /\ outcome' \in [1..MaxLoads -> Outcome] /\ Issued' = Issued
         /\ \A id \in 1..MaxLoads :
              outcome'[id] # outcome[id] =>
                outcome[id] \in Waiting /\ outcome'[id] \in {"dropped", "revoked"}
         /\ Unanswered'
<1> DEFINE A == IdsOf(InLoader, kind, name)
           B == IdsOf(InLoader', kind, name)
           C == IdsOf(batch, kind, name)
           b == Len(batch)
<1>1. LoaderTypeOK(Sent) /\ LoaderTypeOK(Sent)' /\ batch \in Seq(Sent)
  BY CancelFacts DEF IInv, LoaderInv
<1>2. outcome' = [id \in 1..MaxLoads |-> IF id \in A \ B THEN "dropped"
                                         ELSE IF id \in A \cup C THEN "revoked"
                                         ELSE outcome[id]]
  BY CancelFacts
<1>3. /\ b \in Nat /\ Len(InLoader) \in Nat /\ Len(InFlight) = b + Len(InLoader)
      /\ DOMAIN batch = 1..b /\ DOMAIN InLoader = 1..Len(InLoader)
      /\ \A i \in 1..Len(InFlight) :
           InFlight[i] = IF i <= b THEN batch[i] ELSE InLoader[i - b]
  BY <1>1, FlightSeq, LenProperties
<1>4. ASSUME NEW id \in A
      PROVE  \E i \in 1..Len(InFlight), l \in 1..Len(InLoader) :
               /\ ~ (i <= b) /\ l = i - b /\ InFlight[i] = InLoader[l]
               /\ InLoader[l].id = id /\ IsOf(InLoader[l], kind, name)
  <2>1. PICK l \in 1..Len(InLoader) : InLoader[l].id = id /\ IsOf(InLoader[l], kind, name)
    BY <1>3 DEF IdsOf
  <2> HIDE DEF b
  <2>2. PICK i \in 1..Len(InFlight) : i = b + l
    BY <1>3
  <2>3. ~ (i <= b) /\ l = i - b
    BY <1>3, <2>2
  <2> QED BY <1>3, <2>1, <2>3
<1>5. ASSUME NEW id \in C PROVE \E i \in 1..Len(InFlight) : i <= b /\ InFlight[i].id = id
  <2>1. PICK i \in 1..b : batch[i].id = id
    BY <1>3 DEF IdsOf
  <2> HIDE DEF b
  <2>2. i \in 1..Len(InFlight) /\ i <= b
    BY <1>3
  <2> QED BY <1>3, <2>1, <2>2
<1>6. \A id \in A \cup C : outcome[id] \in Waiting /\ id \in 1..MaxLoads
  <2>1. \A i \in 1..Len(InFlight) : outcome[InFlight[i].id] \in Waiting
                                    /\ InFlight[i].id \in 1..MaxLoads
    BY FlightJobs
  <2> HIDE DEF A, b, C
  <2> QED BY <1>4, <1>5, <2>1
<1>7. outcome \in [1..MaxLoads -> Outcome]
  BY DEF IInv, MembersTyped
<1> HIDE DEF A, B, C
<1>8. outcome' \in [1..MaxLoads -> Outcome]
  BY <1>2, <1>7 DEF Outcome, Waiting
<1>9. \A id \in 1..MaxLoads :
        outcome'[id] # outcome[id] =>
          outcome[id] \in Waiting /\ outcome'[id] \in {"dropped", "revoked"}
  BY <1>2, <1>6
<1>10. Issued' = Issued
  BY <1>8, <1>9 DEF Issued, Waiting
<1>11. Unanswered'
  <2> SUFFICES ASSUME NEW i \in 1..Len(InFlight')
               PROVE  outcome'[InFlight'[i].id] \in Waiting
    BY DEF Unanswered
  <2>1. PICK h \in [1..Len(InFlight') -> 1..Len(InFlight)] : InFlight'[i] = InFlight[h[i]]
    BY CancelFlight
  <2>2. PICK k \in 1..Len(InFlight) : k = h[i] /\ InFlight'[i] = InFlight[k]
    BY <2>1
  <2>3. PICK id \in 1..MaxLoads : id = InFlight[k].id /\ outcome[id] \in Waiting
    BY FlightJobs
  <2>4. id \notin A \ B
    <3> SUFFICES ASSUME id \in A PROVE id \in B
      OBVIOUS
    <3>1. PICK a \in 1..Len(InFlight), l \in 1..Len(InLoader) :
            /\ ~ (a <= b) /\ l = a - b /\ InFlight[a] = InLoader[l]
            /\ InLoader[l].id = id /\ IsOf(InLoader[l], kind, name)
      BY <1>4
    <3>2. a = k
      BY <2>3, <3>1, IdsDiffer
    <3>3. /\ Len(InLoader') \in Nat /\ Len(InFlight') = b + Len(InLoader')
          /\ DOMAIN InLoader' = 1..Len(InLoader')
          /\ InFlight'[i] = IF i <= b THEN batch[i] ELSE InLoader'[i - b]
      <4>1. InLoader' \in Seq(Sent)
        BY <1>1, LoaderSeqNext
      <4> QED BY <1>1, <4>1, FlightSeqNext, LenProperties
    <3>4. ~ (i <= b)
      <4> SUFFICES ASSUME i <= b PROVE FALSE
        OBVIOUS
      <4> HIDE DEF b
      <4>1. i \in 1..Len(InFlight) /\ InFlight[i] = batch[i] /\ InFlight'[i] = batch[i]
        BY <1>3, <3>3
      <4>2. i = k
        BY <2>2, <4>1, IdsDiffer
      <4> QED BY <3>1, <3>2, <4>2
    <3> HIDE DEF b
    <3>5. PICK e \in 1..Len(InLoader') : e = i - b
      <4>1. i - b \in 1..Len(InLoader')
        BY <1>3, <3>3, <3>4
      <4> QED BY <4>1
    <3>6. InLoader'[e] = InLoader[l]
      BY <2>2, <3>1, <3>2, <3>3, <3>4, <3>5
    <3> QED BY <3>1, <3>3, <3>5, <3>6 DEF B, IdsOf
  <2> QED BY <1>2, <2>2, <2>3, <2>4 DEF Waiting
<1> QED BY <1>8, <1>9, <1>10, <1>11

LEMMA CancelInv ==
  ASSUME IInv, NEW kind, NEW name, Cancel(kind, name), batch' = batch,
         glReady' = glReady,
         textures' \in [Key -> 1..MaxLoads \cup {None}],
         fonts' \in [Font -> Image \cup {None}], loading' \in SUBSET Font,
         sounds' \in [Sound -> 1..MaxLoads \cup {None}],
         \A k \in Key : textures'[k] \in {textures[k], None},
         \A u \in Sound : sounds'[u] \in {sounds[u], None},
         AtlasesThere',
         loading' = IF kind = "font" THEN loading \ {name} ELSE loading
  PROVE  IInv'
<1>1. LoaderInv(Sent)' /\ UNCHANGED <<stop, worker>>
  BY CancelFacts
<1>2. /\ outcome' \in [1..MaxLoads -> Outcome] /\ Issued' = Issued
      /\ \A id \in 1..MaxLoads :
           outcome'[id] # outcome[id] =>
             outcome[id] \in Waiting /\ outcome'[id] \in {"dropped", "revoked"}
      /\ Unanswered'
  BY CancelOutcome
<1>3. PICK h \in [1..Len(InFlight') -> 1..Len(InFlight)] :
           /\ \A i \in 1..Len(InFlight') : InFlight'[i] = InFlight[h[i]]
           /\ \A i, j \in 1..Len(InFlight') : i < j => h[i] < h[j]
           /\ \A k \in 1..Len(InFlight) :
                ~ IsOf(InFlight[k], kind, name) => \E i \in 1..Len(InFlight') : h[i] = k
  BY CancelFlight
<1>4. InOrder'
  BY <1>3 DEF IInv, InOrder
<1>5. NumberedInOrder'
  BY <1>2 DEF IInv, NumberedInOrder
<1>6. RegisteredIsOld'
  <2>1. ASSUME NEW m, OlderThanFlight(m) PROVE OlderThanFlight(m)'
    BY <1>2, <1>3, <2>1 DEF OlderThanFlight
  <2>2. ASSUME NEW k \in Key, textures'[k] # None PROVE OlderThanFlight(textures[k])'
    <3>1. PICK y : y = textures'[k]
      OBVIOUS
    <3>2. OlderThanFlight(y)'
      BY <2>1, <2>2, <3>1 DEF IInv, RegisteredIsOld
    <3> QED BY <3>1, <3>2 DEF OlderThanFlight
  <2>3. ASSUME NEW u \in Sound, sounds'[u] # None PROVE OlderThanFlight(sounds[u])'
    <3>1. PICK y : y = sounds'[u]
      OBVIOUS
    <3>2. OlderThanFlight(y)'
      BY <2>1, <2>3, <3>1 DEF IInv, RegisteredIsOld
    <3> QED BY <3>1, <3>2 DEF OlderThanFlight
  <2> QED BY <2>2, <2>3 DEF RegisteredIsOld
<1>7. MarksHaveLoads'
  <2> SUFFICES ASSUME NEW f \in loading' PROVE \E i \in 1..Len(InFlight') : Brings(i, f)'
    BY DEF MarksHaveLoads
  <2>1. f \in loading /\ ~ (kind = "font" /\ name = f)
    OBVIOUS
  <2>2. PICK k \in 1..Len(InFlight) : Brings(k, f)
    BY <2>1 DEF IInv, MarksHaveLoads
  <2>3. ~ IsOf(InFlight[k], kind, name)
    BY <2>1, <2>2 DEF Brings, IsOf
  <2>4. PICK i \in 1..Len(InFlight') : h[i] = k
    BY <1>3, <2>3
  <2> QED BY <1>3, <2>2, <2>4 DEF Brings
<1>8. NoneAbandoned'
  BY <1>1, <1>2 DEF IInv, NoneAbandoned
<1>9. MembersTyped' /\ batch' \in Seq(Sent)
  BY <1>2 DEF IInv, MembersTyped
<1> QED BY <1>1, <1>2, <1>4, <1>5, <1>6, <1>7, <1>8, <1>9 DEF IInv

LEMMA UnloadInv ==
  ASSUME IInv,
         \/ \E t \in Texture : UnloadTexture(t)
         \/ \E f \in Font : UnloadFont(f)
         \/ \E u \in Sound : UnloadAudio(u)
  PROVE  IInv'
<1>1. /\ textures \in [Key -> 1..MaxLoads \cup {None}]
      /\ fonts \in [Font -> Image \cup {None}] /\ loading \in SUBSET Font
      /\ sounds \in [Sound -> 1..MaxLoads \cup {None}]
      /\ AtlasesThere
  BY DEF IInv, MembersTyped
<1>2. Texture \subseteq Key /\ Image \subseteq Key /\ Texture \cap Image = {}
      /\ None \notin Image
  BY KeyAssumption, Ranges DEF Key
<1>3. ASSUME NEW t \in Texture, UnloadTexture(t) PROVE IInv'
  <2>1. /\ Cancel("texture", t) /\ textures' = [textures EXCEPT ![t] = None]
        /\ UNCHANGED <<fonts, loading, sounds, glReady, batch>>
    BY <1>3 DEF UnloadTexture
  <2>2. AtlasesThere'
    BY <1>1, <1>2, <2>1 DEF AtlasesThere
  <2> QED BY <1>1, <1>2, <2>1, <2>2, CancelInv
<1>4. ASSUME NEW u \in Sound, UnloadAudio(u) PROVE IInv'
  <2>1. /\ Cancel("audio", u) /\ sounds' = [sounds EXCEPT ![u] = None]
        /\ UNCHANGED <<textures, fonts, loading, glReady, batch>>
    BY <1>4 DEF UnloadAudio
  <2>2. AtlasesThere'
    BY <1>1, <2>1 DEF AtlasesThere
  <2> QED BY <1>1, <2>1, <2>2, CancelInv
<1>5. ASSUME NEW f \in Font, UnloadFont(f) PROVE IInv'
  <2>1. /\ Cancel("font", f) /\ fonts' = [fonts EXCEPT ![f] = None]
        /\ loading' = loading \ {f}
        /\ textures' = IF AtlasFreedWith(f) THEN [textures EXCEPT ![fonts[f]] = None]
                                            ELSE textures
        /\ UNCHANGED <<sounds, glReady, batch>>
    BY <1>5 DEF UnloadFont
  <2>2. AtlasFreedWith(f) => fonts[f] \in Image /\ \A g \in Font \ {f} : fonts[g] # fonts[f]
    BY <1>1 DEF AtlasFreedWith
  <2>3. /\ textures' \in [Key -> 1..MaxLoads \cup {None}]
        /\ \A k \in Key : textures'[k] \in {textures[k], None}
    BY <1>1, <1>2, <2>1, <2>2
  <2>4. AtlasesThere'
    <3> SUFFICES ASSUME NEW g \in Font, fonts'[g] # None
                 PROVE  textures'[fonts'[g]] # None
      BY DEF AtlasesThere
    <3>1. g # f /\ fonts'[g] = fonts[g] /\ fonts[g] \in Image /\ textures[fonts[g]] # None
      BY <1>1, <2>1 DEF AtlasesThere
    <3> QED BY <1>1, <1>2, <2>1, <2>2, <3>1
  <2> QED BY <1>1, <2>1, <2>3, <2>4, CancelInv
<1> QED BY <1>3, <1>4, <1>5
-----------------------------------------------------------------------------
(* Shutdown.                                                               *)
LEMMA TeardownInv ==
  ASSUME IInv, Teardown, batch = <<>>, InLoader' = <<>>, LoaderInv(Sent)',
         stop' = FALSE
  PROVE  IInv'
<1>1. batch' = <<>> /\ batch' \in Seq(Sent) /\ batch' \in Seq(Job)
  BY EmptySeq DEF Teardown
<1>2. Len(InFlight') = 0
  <2>1. Len(batch') = 0 /\ Len(InLoader') = 0
    BY <1>1, EmptySeq
  <2> QED BY <1>1, <2>1, FlightSeqNext DEF LoaderInv
<1>3. /\ outcome' \in [1..MaxLoads -> Outcome]
      /\ \A id \in 1..MaxLoads : outcome'[id] \notin Waiting
      /\ Issued' = Issued
  BY DEF Teardown, IInv, MembersTyped, Outcome, Waiting, Issued
<1>4. MembersTyped'
  BY <1>1, <1>3 DEF Teardown, MembersTyped
<1>5. InOrder' /\ Unanswered' /\ MarksHaveLoads' /\ RegisteredIsOld' /\ AtlasesThere'
  BY <1>2 DEF Teardown, InOrder, Unanswered, MarksHaveLoads, RegisteredIsOld, AtlasesThere
<1>6. NumberedInOrder' /\ NoneAbandoned'
  BY <1>3 DEF IInv, NumberedInOrder, NoneAbandoned
<1> QED BY <1>1, <1>4, <1>5, <1>6 DEF IInv

(* Decoding changes nothing of a job but its state.                        *)
LEMMA DecodeKeeps ==
  ASSUME LoaderInv(Sent), Decode
  PROVE  /\ LoaderInv(Sent)' /\ worker' # "none" /\ stop' = stop
         /\ Len(InLoader') = Len(InLoader)
         /\ \A i \in 1..Len(InLoader) : /\ InLoader'[i].id = InLoader[i].id
                                        /\ InLoader'[i].kind = InLoader[i].kind
                                        /\ InLoader'[i].name = InLoader[i].name
<1>1. NoJob \notin Sent /\ LoaderTypeOK(Sent)
  BY SentJobs DEF LoaderInv
<1>2. PICK s \in {"decoded", "error"} : WorkerFinish([current EXCEPT !.state = s])
  BY DEF Decode
<1>3. current \in Sent
  BY <1>1, <1>2 DEF WorkerFinish, LoaderInv, LoaderTypeOK, LoaderControl
<1>4. PICK r : r = [current EXCEPT !.state = s]
  OBVIOUS
<1>5. /\ r \in Sent
      /\ r.id = current.id /\ r.kind = current.kind /\ r.name = current.name
  BY <1>3, <1>4 DEF Sent, Job
<1>6. LoaderInv(Sent)'
  BY <1>1, <1>2, <1>4, <1>5, WorkerFinishInv
<1>7. /\ Len(InLoader') = Len(InLoader)
      /\ \A i \in 1..Len(InLoader) :
           InLoader'[i] = InLoader[i] \/ (InLoader[i] = current /\ InLoader'[i] = r)
  BY <1>1, <1>2, <1>4, <1>5, FinishKeeps
<1>8. worker' # "none" /\ stop' = stop
  BY <1>2 DEF WorkerFinish
<1>9. \A i \in 1..Len(InLoader) : /\ InLoader'[i].id = InLoader[i].id
                                  /\ InLoader'[i].kind = InLoader[i].kind
                                  /\ InLoader'[i].name = InLoader[i].name
  BY <1>5, <1>7
<1> QED BY <1>6, <1>7, <1>8, <1>9

LEMMA NextInv == IInv /\ [Next]_vars => IInv'
<1> SUFFICES ASSUME IInv, [Next]_vars PROVE IInv'
  OBVIOUS
<1>1. LoaderInv(Sent) /\ NoJob \notin Sent /\ LoaderTypeOK(Sent) /\ glReady \in BOOLEAN
  BY SentJobs DEF IInv, LoaderInv, MembersTyped
<1>2. CASE StartGl
  <2>1. LoaderInv(Sent)' /\ InLoader' = InLoader
    BY <1>1, <1>2, LoaderUnchangedInv DEF StartGl, loaderVars, InLoader, Running
  <2> QED BY <1>2, <2>1, SameFlight DEF StartGl, loaderVars
<1>3. ASSUME NEW id \in 1..MaxLoads, NEW t \in Texture, LoadTexture(id, t) PROVE IInv'
  BY <1>3, LoadInv DEF LoadTexture, Named, Key
<1>4. ASSUME NEW id \in 1..MaxLoads, NEW f \in Font, NEW i \in ImagesOf[f], LoadFont(id, f, i)
      PROVE  IInv'
  <2>1. i \in Image /\ i \in Key
    BY FontAssumption DEF Key
  <2> QED BY <1>4, <2>1, LoadInv DEF LoadFont, Named
<1>5. ASSUME NEW id \in 1..MaxLoads, NEW u \in Sound, LoadAudio(id, u) PROVE IInv'
  BY <1>5, LoadInv, RefusedInv DEF LoadAudio, Named
<1>6. ASSUME NEW id \in 1..MaxLoads, NEW p \in File, LoadFile(id, p) PROVE IInv'
  BY <1>6, LoadInv DEF LoadFile, Named
<1>7. CASE \/ \E t \in Texture : UnloadTexture(t)
           \/ \E f \in Font : UnloadFont(f)
           \/ \E u \in Sound : UnloadAudio(u)
  BY <1>7, UnloadInv
<1>8. CASE DrainBegin \/ FinishNext
  BY <1>8, PopInv
<1>9. CASE ShutdownBegin
  <2>1. batch = <<>> /\ caller = "idle"
    BY <1>9 DEF ShutdownBegin, BetweenFrames
  <2>2. CASE worker = "none" /\ Teardown /\ UNCHANGED loaderVars
    <3>1. LoaderInv(Sent)' /\ stop' = FALSE
      BY <1>1, <2>1, <2>2, LoaderUnchangedInv
         DEF LoaderInv, LoaderTypeOK, LoaderControl, loaderVars
    <3>2. InLoader' = <<>>
      <4>1. readyQueue' = <<>> /\ decodeQueue' = <<>> /\ current' = NoJob
        BY <1>1, <2>2 DEF LoaderInv, LoaderTypeOK, LoaderControl, loaderVars
      <4>2. <<>> \in Seq(Sent)
        BY EmptySeq
      <4> QED BY <4>1, <4>2, ConcatEmptySeq DEF InLoader, Running
    <3> QED BY <2>1, <2>2, <3>1, <3>2, TeardownInv
  <2>3. CASE StopBegin /\ UNCHANGED assetVars
    <3>1. LoaderInv(Sent)'
      BY <1>1, <2>3, StopInv
    <3>2. InLoader' = InLoader
      BY <2>3 DEF StopBegin, InLoader, Running
    <3> QED BY <1>1, <2>1, <2>3, <3>1, <3>2, SameFlight DEF StopBegin, assetVars
  <2> QED BY <1>9, <2>2, <2>3 DEF ShutdownBegin
<1>10. CASE ShutdownEnd
  <2>1. LoaderInv(Sent)' /\ InLoader' = <<>> /\ stop' = FALSE
    BY <1>1, <1>10, StopInv, JoinEmpties DEF ShutdownEnd, Join
  <2>2. batch = <<>>
    BY <1>1, <1>10 DEF ShutdownEnd, Join, LoaderInv, LoaderControl, IInv, NoneAbandoned
  <2> QED BY <1>10, <2>1, <2>2, TeardownInv DEF ShutdownEnd
<1>11. CASE Notify
  <2>1. LoaderInv(Sent)' /\ InLoader' = InLoader /\ stop' = stop
    BY <1>1, <1>11, NotifyInv DEF Notify, NotifyOne, NotifyAll, InLoader, Running
  <2>2. worker' = "none" => worker = "none"
    BY <1>11 DEF Notify, NotifyOne, NotifyAll, Woken
  <2> QED BY <1>1, <1>11, <2>1, <2>2, SameFlight DEF Notify, assetVars
<1>12. CASE WorkerStep \/ Wakeup
  <2>1. WorkerExit \/ WorkerTake \/ WorkerSleep \/ SpuriousWakeup
    BY <1>12 DEF WorkerStep, Wakeup
  <2>2. LoaderInv(Sent)' /\ InLoader' = InLoader
    BY <1>1, <2>1, WorkerStepInv, TakeKeeps
  <2>3. worker' # "none" /\ stop' = stop
    BY <2>1 DEF WorkerExit, WorkerTake, WorkerSleep, SpuriousWakeup
  <2> QED BY <1>1, <1>12, <2>2, <2>3, SameFlight DEF WorkerStep, Wakeup, assetVars
<1>13. CASE Decode
  BY <1>1, <1>13, DecodeKeeps, SameFlight DEF Decode, assetVars
<1>14. CASE UNCHANGED vars
  <2>1. LoaderInv(Sent)' /\ InLoader' = InLoader
    BY <1>1, <1>14, LoaderUnchangedInv DEF vars, loaderVars, InLoader, Running
  <2> QED BY <1>1, <1>14, <2>1, SameFlight DEF vars, loaderVars, assetVars
<1> QED BY <1>2, <1>3, <1>4, <1>5, <1>6, <1>7, <1>8, <1>9, <1>10, <1>11, <1>12, <1>13, <1>14
    DEF Next, GlNext, WorkerNext

LEMMA Invariance == Spec => []IInv
  BY InitInv, NextInv, PTL DEF Spec

-----------------------------------------------------------------------------
(* The theorems.                                                           *)

(* Whatever is loaded, unloaded and shut down, and however the two threads *)
(* interleave: the loader's queues, the registries and the drained assets  *)
(* have their types, and no load waits for a worker that shutdown has      *)
(* joined (Engine::shutdown, drain_ready_assets, AssetLoader).             *)
THEOREM TypeCorrect == Spec => []TypeOK
  BY Invariance, InvImplies, PTL

(* A registered font always has its atlas, with any number of fonts over   *)
(* any images, and a font that is marked as loading has a load in flight   *)
(* (UnloadFont, FontRegistry::uses_texture and clear_pending).             *)
THEOREM FontsKeepTheirAtlas == Spec => []FontsAreBacked
  BY Invariance, InvImplies, PTL

(* What is registered under a name comes from the latest load of it that   *)
(* has been finished: no load overtakes another on its way through the     *)
(* queues and the frame's drain (enqueue, worker_main, drain_ready).       *)
THEOREM LatestLoadStays == Spec => []LatestLoadWins
  BY Invariance, InvImplies, PTL
-----------------------------------------------------------------------------
(* The refinement of JobPipe, step by step.                                *)

What == Named
PipeJob == [id : 1..MaxLoads, what : What]

(* The variables of JobPipe, as the refinement mapping of Pipe gives them. *)
Pending ==
  [i \in DOMAIN InLoader |->
     [id |-> InLoader[i].id, what |-> <<InLoader[i].kind, InLoader[i].name>>]]
Done == {id \in Issued : outcome[id] \in {"loaded", "failed"}} \cup Ids(batch)

LEMMA PendingSeq ==
  ASSUME LoaderInv(Sent)
  PROVE  /\ Pending \in Seq(PipeJob) /\ Len(Pending) = Len(InLoader)
         /\ DOMAIN Pending = 1..Len(InLoader) /\ Len(InLoader) \in Nat
         /\ \A i \in 1..Len(InLoader) :
              /\ Pending[i].id = InLoader[i].id
              /\ Pending[i].what = <<InLoader[i].kind, InLoader[i].name>>
              /\ Pending[i] = [id |-> InLoader[i].id,
                               what |-> <<InLoader[i].kind, InLoader[i].name>>]
<1>1. InLoader \in Seq(Sent)
  BY LoaderSeq DEF LoaderInv
<1>2. DOMAIN InLoader = 1..Len(InLoader) /\ Len(InLoader) \in Nat
  BY <1>1, LenProperties
<1>3. \A i \in 1..Len(InLoader) : /\ InLoader[i].id \in 1..MaxLoads
                                  /\ <<InLoader[i].kind, InLoader[i].name>> \in What
  BY <1>1, SentJobs, ElementOfSeq DEF What
<1>4. Pending \in [1..Len(InLoader) -> PipeJob]
  BY <1>2, <1>3 DEF Pending, PipeJob
<1>5. Pending \in Seq(PipeJob) /\ Len(Pending) = Len(InLoader)
  BY <1>2, <1>4
<1> QED BY <1>2, <1>4, <1>5 DEF Pending

LEMMA PendingSeqNext ==
  ASSUME LoaderInv(Sent)'
  PROVE  /\ Pending' \in Seq(PipeJob) /\ Len(Pending') = Len(InLoader')
         /\ DOMAIN Pending' = 1..Len(InLoader') /\ Len(InLoader') \in Nat
         /\ \A i \in 1..Len(InLoader') :
              /\ Pending'[i].id = InLoader'[i].id
              /\ Pending'[i].what = <<InLoader'[i].kind, InLoader'[i].name>>
              /\ Pending'[i] = [id |-> InLoader'[i].id,
                                what |-> <<InLoader'[i].kind, InLoader'[i].name>>]
<1>1. InLoader' \in Seq(Sent)
  BY LoaderSeqNext DEF LoaderInv
<1>2. DOMAIN InLoader' = 1..Len(InLoader') /\ Len(InLoader') \in Nat
  BY <1>1, LenProperties
<1>3. \A i \in 1..Len(InLoader') : /\ InLoader'[i].id \in 1..MaxLoads
                                   /\ <<InLoader'[i].kind, InLoader'[i].name>> \in What
  BY <1>1, SentJobs, ElementOfSeq DEF What
<1>4. Pending' \in [1..Len(InLoader') -> PipeJob]
  BY <1>2, <1>3 DEF Pending, PipeJob
<1>5. Pending' \in Seq(PipeJob) /\ Len(Pending') = Len(InLoader')
  BY <1>2, <1>4
<1> QED BY <1>2, <1>4, <1>5 DEF Pending

LEMMA PipeInit == Init => Pipe!Init
<1> SUFFICES ASSUME Init PROVE Pipe!Init
  OBVIOUS
<1>1. LoaderInv(Sent)
  BY LoaderInitInv DEF Init
<1>2. Len(InLoader) = 0
  <2>1. Len(readyQueue) = 0 /\ Len(decodeQueue) = 0 /\ AtWork = 0
    BY EmptySeq DEF Init, LoaderInit, AtWork
  <2> QED BY <1>1, <2>1, LoaderSeq DEF LoaderInv
<1>3. Pending = <<>>
  BY <1>1, <1>2, PendingSeq, EmptySeq
<1>4. Done = {}
  <2>1. DOMAIN batch = {}
    BY DEF Init
  <2> QED BY <2>1 DEF Init, Done, Issued, Ids
<1> QED BY <1>3, <1>4 DEF Pipe!Init, Pending, Done

(* A step that keeps the jobs and the finished ones is a stutter.          *)
LEMMA PipeStutters ==
  ASSUME LoaderInv(Sent), LoaderInv(Sent)', Len(InLoader') = Len(InLoader),
         \A i \in 1..Len(InLoader) : /\ InLoader'[i].id = InLoader[i].id
                                     /\ InLoader'[i].kind = InLoader[i].kind
                                     /\ InLoader'[i].name = InLoader[i].name,
         Done' = Done
  PROVE  UNCHANGED Pipe!vars
<1>1. Pending' = Pending
  <2>1. ASSUME NEW i \in 1..Len(InLoader) PROVE Pending'[i] = Pending[i]
    <3>1. Pending[i] = [id |-> InLoader[i].id,
                        what |-> <<InLoader[i].kind, InLoader[i].name>>]
      BY PendingSeq
    <3>2. Pending'[i] = [id |-> InLoader'[i].id,
                         what |-> <<InLoader'[i].kind, InLoader'[i].name>>]
      BY PendingSeqNext
    <3> QED BY <3>1, <3>2
  <2>2. /\ Pending \in Seq(PipeJob) /\ Pending' \in Seq(PipeJob)
        /\ Len(Pending') = Len(Pending) /\ Len(Pending) = Len(InLoader)
    BY PendingSeq, PendingSeqNext
  <2> QED BY <2>1, <2>2, SeqEqual
<1> QED BY <1>1 DEF Pipe!vars, Pending, Done

LEMMA PipeSubmits ==
  ASSUME IInv, NEW id \in 1..MaxLoads, NEW kind, NEW name, NEW image,
         Load(id, kind, name, image),
         <<kind, name>> \in Named, image \in Key \cup Sound \cup File,
         kind = "font" => image \in Image
  PROVE  Pipe!Next
<1> DEFINE job == [id |-> id, kind |-> kind, name |-> name, image |-> image,
                   state |-> "todo"]
           what == <<kind, name>>
           pj == [id |-> id, what |-> what]
<1>1. job \in Sent /\ job.id = id /\ job.kind = kind /\ job.name = name
  BY DEF Sent, Job, Kind, Name, Named
<1>2. /\ Enqueue(job) /\ Fresh(id) /\ outcome' = [outcome EXCEPT ![id] = "pending"]
      /\ batch' = batch
  BY DEF Load
<1> HIDE DEF job
<1>3. LoaderInv(Sent) /\ LoaderInv(Sent)' /\ InLoader' = Append(InLoader, job)
  BY <1>1, <1>2, EnqueueInv, EnqueueAppends DEF IInv
<1>4. /\ Len(InLoader') = Len(InLoader) + 1 /\ InLoader'[Len(InLoader) + 1] = job
      /\ \A i \in 1..Len(InLoader) : InLoader'[i] = InLoader[i]
  BY <1>1, <1>2, EnqueueAppends DEF IInv
<1>5. pj \in PipeJob
  BY DEF PipeJob, What
<1>6. Pending' = Append(Pending, pj)
  <2> DEFINE a == Append(Pending, pj)
  <2>1. /\ a \in Seq(PipeJob) /\ Len(a) = Len(InLoader) + 1 /\ a[Len(InLoader) + 1] = pj
        /\ \A i \in 1..Len(InLoader) : a[i] = Pending[i]
    BY <1>3, <1>5, PendingSeq, AppendProperties
  <2> HIDE DEF a
  <2>2. /\ Pending' \in Seq(PipeJob) /\ Len(Pending') = Len(InLoader) + 1
        /\ Len(InLoader) \in Nat
    BY <1>3, <1>4, PendingSeq, PendingSeqNext
  <2>3. ASSUME NEW i \in 1..Len(InLoader) + 1 PROVE Pending'[i] = a[i]
    <3>1. CASE i = Len(InLoader) + 1
      BY <1>1, <1>3, <1>4, <2>1, <3>1, PendingSeqNext
    <3>2. CASE i \in 1..Len(InLoader)
      <4>1. i \in 1..Len(InLoader') /\ InLoader'[i] = InLoader[i]
        BY <1>4, <2>2, <3>2
      <4>2. Pending'[i] = [id |-> InLoader'[i].id,
                           what |-> <<InLoader'[i].kind, InLoader'[i].name>>]
        BY <1>3, <4>1, PendingSeqNext
      <4>3. Pending[i] = [id |-> InLoader[i].id, what |-> <<InLoader[i].kind, InLoader[i].name>>]
        BY <1>3, <3>2, PendingSeq
      <4> QED BY <2>1, <3>2, <4>1, <4>2, <4>3
    <3> QED BY <2>2, <3>1, <3>2
  <2>4. Pending' = a
    BY <2>1, <2>2, <2>3, SeqEqual
  <2> QED BY <2>4 DEF a
<1>7. /\ Issued' = Issued \cup {id} /\ id \notin Issued
      /\ \A m \in 1..MaxLoads : m # id => outcome'[m] = outcome[m]
      /\ outcome'[id] = "pending"
  BY <1>2, IssueOne DEF Fresh
<1>8. \A i \in 1..Len(InFlight) : InFlight[i].id \in Issued
  BY FlightJobs
<1>9. /\ \A i \in DOMAIN batch : batch[i].id \in Issued
      /\ \A i \in 1..Len(InLoader) : InLoader[i].id \in Issued
  <2> DEFINE b == Len(batch)
  <2>1. /\ b \in Nat /\ Len(InLoader) \in Nat /\ Len(InFlight) = b + Len(InLoader)
        /\ DOMAIN batch = 1..b
        /\ \A i \in 1..Len(InFlight) :
             InFlight[i] = IF i <= b THEN batch[i] ELSE InLoader[i - b]
    BY FlightSeq, LenProperties DEF IInv, LoaderInv
  <2> HIDE DEF b
  <2>2. ASSUME NEW i \in 1..b PROVE batch[i].id \in Issued
    <3>1. i \in 1..Len(InFlight) /\ i <= b
      BY <2>1
    <3> QED BY <1>8, <2>1, <3>1
  <2>3. ASSUME NEW i \in 1..Len(InLoader) PROVE InLoader[i].id \in Issued
    <3>1. PICK k \in 1..Len(InFlight) : k = b + i
      BY <2>1
    <3>2. ~ (k <= b) /\ k - b = i
      BY <2>1, <3>1
    <3> QED BY <1>8, <2>1, <3>2
  <2> QED BY <2>1, <2>2, <2>3
<1>10. id \notin Done /\ Done' = Done
  BY <1>2, <1>7, <1>9 DEF Done, Ids, Issued
<1>11. \A i \in DOMAIN Pending : Pending[i].id < id
  <2>1. \A m \in Issued : m < id
    BY <1>2, FreshIsNewest
  <2> QED BY <1>3, <1>9, <2>1, PendingSeq
<1>12. Pipe!Submit(id, what)
  BY <1>6, <1>10, <1>11 DEF Pipe!Submit, Pending, Done
<1>13. what \in Named
  OBVIOUS
<1> QED BY <1>12, <1>13 DEF Pipe!Next

LEMMA PipeCancels ==
  ASSUME IInv, NEW kind, NEW name, Cancel(kind, name), batch' = batch,
         <<kind, name>> \in Named
  PROVE  Pipe!Next
<1> DEFINE n == Len(InLoader')
           what == <<kind, name>>
<1>1. LoaderInv(Sent) /\ LoaderInv(Sent)' /\ n <= Len(InLoader)
  BY CancelFacts DEF IInv
<1>2. PICK kept : KeepsOthers(kept, kind, name)
  BY CancelFacts
<1>3. Done' = Done
  <2>1. \A id \in 1..MaxLoads :
          outcome'[id] \in {"loaded", "failed"} <=> outcome[id] \in {"loaded", "failed"}
    BY CancelOutcome DEF Waiting
  <2> QED BY <2>1, CancelOutcome DEF Done, Issued
<1>4. /\ DOMAIN Pending = 1..Len(InLoader) /\ Len(Pending) = Len(InLoader)
      /\ Pending \in Seq(PipeJob) /\ Len(InLoader) \in Nat
      /\ \A k \in 1..Len(InLoader) :
           Pending[k].what = what <=> IsOf(InLoader[k], kind, name)
  BY <1>1, PendingSeq DEF IsOf
<1>5. /\ n \in Nat /\ Pending' \in Seq(PipeJob) /\ Len(Pending') = n
  BY <1>1, PendingSeqNext
<1>6. /\ kept \in [1..n -> 1..Len(InLoader)]
      /\ \A i, j \in 1..n : i < j => kept[i] < kept[j]
      /\ \A i \in 1..n : InLoader'[i] = InLoader[kept[i]]
      /\ \A k \in 1..Len(InLoader) :
           ~ IsOf(InLoader[k], kind, name) => \E i \in 1..n : kept[i] = k
      /\ \A i, j \in 1..n :
           IsOf(InLoader[kept[i]], kind, name) /\ IsOf(InLoader[kept[j]], kind, name) => i = j
  BY <1>2 DEF KeepsOthers
<1>7. Pending' = [i \in 1..n |-> Pending[kept[i]]]
  <2>1. ASSUME NEW i \in 1..n PROVE Pending'[i] = Pending[kept[i]]
    <3>1. Pending'[i] = [id |-> InLoader'[i].id,
                         what |-> <<InLoader'[i].kind, InLoader'[i].name>>]
      BY <1>1, PendingSeqNext
    <3>2. PICK k \in 1..Len(InLoader) : k = kept[i]
      BY <1>6
    <3>3. Pending[k] = [id |-> InLoader[k].id,
                        what |-> <<InLoader[k].kind, InLoader[k].name>>]
      BY <1>1, PendingSeq
    <3> QED BY <1>6, <3>1, <3>2, <3>3
  <2>2. DOMAIN Pending' = 1..n /\ Pending' = [i \in DOMAIN Pending' |-> Pending'[i]]
    BY <1>1, PendingSeqNext DEF Pending
  <2> QED BY <2>1, <2>2
<1>8. /\ \A k \in DOMAIN Pending : Pending[k].what # what => \E i \in 1..n : kept[i] = k
      /\ \A i, j \in 1..n :
           Pending[kept[i]].what = what /\ Pending[kept[j]].what = what => i = j
  <2>1. \A i \in 1..n : kept[i] \in 1..Len(InLoader)
    BY <1>6
  <2> HIDE DEF what, n
  <2>2. \A i \in 1..n :
          Pending[kept[i]].what = what <=> IsOf(InLoader[kept[i]], kind, name)
    BY <1>4, <2>1
  <2> QED BY <1>4, <1>6, <2>2
<1>9. n \in 0..Len(Pending) /\ kept \in [1..n -> DOMAIN Pending]
  BY <1>1, <1>4, <1>5, <1>6
<1>10. Pipe!Cancel(what)
  <2> HIDE DEF n, what
  <2>1. \E l \in 0..Len(Pending) : \E at \in [1..l -> DOMAIN Pending] :
          /\ \A i, j \in 1..l : i < j => at[i] < at[j]
          /\ \A k \in DOMAIN Pending : Pending[k].what # what => \E i \in 1..l : at[i] = k
          /\ \A i, j \in 1..l :
               Pending[at[i]].what = what /\ Pending[at[j]].what = what => i = j
          /\ Pending' = [i \in 1..l |-> Pending[at[i]]]
    <3>1. n \in 0..Len(Pending) /\ kept \in [1..n -> DOMAIN Pending]
      BY <1>9
    <3>2. \A i, j \in 1..n : i < j => kept[i] < kept[j]
      BY <1>6
    <3> QED BY <1>7, <1>8, <3>1, <3>2
  <2> QED BY <1>3, <2>1 DEF Pipe!Cancel, Pending, Done
<1>11. what \in Named
  OBVIOUS
<1> QED BY <1>10, <1>11 DEF Pipe!Next
(* What finishing r does to the finished loads.                            *)
LEMMA DoneGrows ==
  ASSUME IInv, NEW r \in Sent, Finish(r), r.id \in Issued
  PROVE  {id \in Issued : outcome[id] \in {"loaded", "failed"}}' =
           {id \in Issued : outcome[id] \in {"loaded", "failed"}} \cup {r.id}
<1>1. PICK o \in {"loaded", "failed"} : outcome' = [outcome EXCEPT ![r.id] = o]
  BY FinishFacts DEF IInv
<1>2. outcome \in [1..MaxLoads -> Outcome] /\ r.id \in 1..MaxLoads
  BY SentJobs DEF IInv, MembersTyped
<1>3. /\ outcome'[r.id] = o
      /\ \A m \in 1..MaxLoads : m # r.id => outcome'[m] = outcome[m]
  BY <1>1, <1>2
<1> QED BY <1>2, <1>3 DEF Issued

LEMMA PipeDelivers ==
  ASSUME IInv, DrainBegin
  PROVE  Pipe!Next
<1> DEFINE n == Drained
<1>1. /\ LoaderInv(Sent) /\ LoaderInv(Sent)' /\ batch = <<>> /\ batch' \in Seq(Sent)
      /\ n \in Nat /\ n > 0 /\ n <= Len(InLoader) /\ Len(InLoader) \in Nat
      /\ Len(InLoader') = Len(InLoader) - n
      /\ \A i \in 1..Len(InLoader') : InLoader'[i] = InLoader[i + n]
      /\ Finish(InLoader[1]) /\ Len(batch') = n - 1
      /\ \A i \in 1..n - 1 : batch'[i] = InLoader[i + 1]
  BY DrainFacts, PendingSeq DEF IInv
<1> HIDE DEF n
<1>2. Pending' = SubSeq(Pending, n + 1, Len(Pending))
  <2> DEFINE q == SubSeq(Pending, n + 1, Len(Pending))
  <2>1. Pending \in Seq(PipeJob) /\ Len(Pending) = Len(InLoader)
    BY <1>1, PendingSeq
  <2>2. \A i \in n + 1..Len(Pending) : Pending[i] \in PipeJob
    BY <1>1, <2>1, ElementOfSeq
  <2>3. /\ q \in Seq(PipeJob)
        /\ Len(q) = IF n + 1 <= Len(Pending) THEN Len(Pending) - (n + 1) + 1 ELSE 0
        /\ \A i \in 1..Len(Pending) - (n + 1) + 1 : q[i] = Pending[n + 1 + i - 1]
    BY <1>1, <2>1, <2>2, SubSeqProperties
  <2> HIDE DEF q
  <2>4. Pending' \in Seq(PipeJob) /\ Len(Pending') = Len(InLoader) - n /\ Len(q) = Len(Pending')
    <3>1. Pending' \in Seq(PipeJob) /\ Len(Pending') = Len(InLoader')
      BY <1>1, PendingSeqNext
    <3>2. Len(Pending') = Len(InLoader) - n
      BY <1>1, <3>1
    <3>3. Len(q) = Len(InLoader) - n
      <4>1. CASE n + 1 <= Len(InLoader)
        BY <1>1, <2>1, <2>3, <4>1
      <4>2. CASE ~(n + 1 <= Len(InLoader))
        BY <1>1, <2>1, <2>3, <4>2
      <4> QED BY <4>1, <4>2
    <3> QED BY <3>1, <3>2, <3>3
  <2>5. ASSUME NEW i \in 1..Len(Pending') PROVE Pending'[i] = q[i]
    <3>1. PICK k \in 1..Len(InLoader) : k = i + n /\ k = n + 1 + i - 1
      BY <1>1, <2>4
    <3>2. i \in 1..Len(Pending) - (n + 1) + 1 /\ i \in 1..Len(InLoader')
      BY <1>1, <2>1, <2>4
    <3>3. q[i] = Pending[k]
      BY <2>3, <3>1, <3>2
    <3>4. Pending'[i] = Pending[k]
      <4>1. InLoader'[i] = InLoader[k]
        BY <1>1, <3>1, <3>2
      <4>2. Pending[k] = [id |-> InLoader[k].id, what |-> <<InLoader[k].kind, InLoader[k].name>>]
        BY <1>1, PendingSeq
      <4>3. Pending'[i] = [id |-> InLoader'[i].id,
                           what |-> <<InLoader'[i].kind, InLoader'[i].name>>]
        BY <1>1, <3>2, PendingSeqNext
      <4> QED BY <4>1, <4>2, <4>3
    <3> QED BY <3>3, <3>4
  <2>6. Pending' = q
    BY <2>3, <2>4, <2>5, SeqEqual
  <2> QED BY <2>6 DEF q
<1>3. PICK r \in Sent : r = InLoader[1] /\ r.id \in Issued
  <2>1. Len(batch) = 0
    BY <1>1, EmptySeq
  <2>2. LoaderTypeOK(Sent) /\ batch \in Seq(Sent)
    BY DEF IInv, LoaderInv
  <2>3. /\ Len(InLoader) \in Nat /\ Len(InFlight) = Len(batch) + Len(InLoader)
        /\ \A i \in 1..Len(batch) + Len(InLoader) :
             InFlight[i] = IF i <= Len(batch) THEN batch[i] ELSE InLoader[i - Len(batch)]
    BY <2>2, FlightSeq
  <2>4. 1 \in 1..Len(InFlight) /\ InFlight[1] = InLoader[1]
    BY <1>1, <2>1, <2>3
  <2> QED BY <2>4, FlightJobs
<1>4. Ids(batch) = {} /\ Ids(batch)' = {batch'[i].id : i \in 1..n - 1}
  <2>1. DOMAIN batch = {} /\ DOMAIN batch' = 1..n - 1
    BY <1>1, LenProperties
  <2> QED BY <2>1 DEF Ids
<1>5. Done' = Done \cup {Pending[i].id : i \in 1..n}
  <2>1. \A i \in 1..n : Pending[i].id = InLoader[i].id
    BY <1>1, PendingSeq
  <2>2. {Pending[i].id : i \in 1..n} = {r.id} \cup {batch'[i].id : i \in 1..n - 1}
    <3>1. ASSUME NEW i \in 1..n
          PROVE  Pending[i].id \in {r.id} \cup {batch'[l].id : l \in 1..n - 1}
      <4>1. CASE i = 1
        BY <1>3, <2>1, <4>1
      <4>2. CASE i # 1
        <5>1. PICK l \in 1..n - 1 : i = l + 1
          <6>1. i - 1 \in 1..n - 1 /\ i = i - 1 + 1
            BY <1>1, <4>2
          <6> QED BY <6>1
        <5>2. InLoader[l + 1] = batch'[l]
          BY <1>1, <5>1
        <5>3. Pending[i].id = InLoader[l + 1].id
          BY <2>1, <5>1
        <5> QED BY <5>2, <5>3
      <4> QED BY <4>1, <4>2
    <3>2. ASSUME NEW l \in 1..n - 1 PROVE batch'[l].id \in {Pending[i].id : i \in 1..n}
      <4>1. l + 1 \in 1..n
        BY <1>1
      <4> QED BY <1>1, <2>1, <4>1
    <3>3. r.id \in {Pending[i].id : i \in 1..n}
      <4>1. 1 \in 1..n
        BY <1>1
      <4> QED BY <1>3, <2>1, <4>1
    <3> QED BY <3>1, <3>2, <3>3
  <2>3. {id \in Issued : outcome[id] \in {"loaded", "failed"}}' =
           {id \in Issued : outcome[id] \in {"loaded", "failed"}} \cup {r.id}
    BY <1>1, <1>3, DoneGrows
  <2> QED BY <1>4, <2>2, <2>3 DEF Done
<1>6. PICK m \in 1..Len(Pending) : m = n
  BY <1>1, PendingSeq
<1>7. Pipe!Deliver(m)
  BY <1>2, <1>5, <1>6 DEF Pipe!Deliver, Pending, Done
<1> QED BY <1>7 DEF Pipe!Next, Pending

LEMMA PipeFinishes ==
  ASSUME IInv, FinishNext
  PROVE  UNCHANGED Pipe!vars
<1>1. /\ LoaderInv(Sent) /\ batch \in Seq(Sent) /\ batch # <<>>
      /\ Finish(Head(batch)) /\ batch' = Tail(batch) /\ UNCHANGED loaderVars
  BY DEF FinishNext, IInv
<1>2. LoaderInv(Sent)' /\ InLoader' = InLoader
  BY <1>1, LoaderUnchangedInv DEF loaderVars, InLoader, Running
<1> DEFINE b == Len(batch)
<1>3. /\ b \in Nat /\ b > 0 /\ batch' \in Seq(Sent) /\ Len(batch') = b - 1
      /\ Head(batch) = batch[1] /\ \A i \in 1..b - 1 : batch'[i] = batch[i + 1]
      /\ DOMAIN batch = 1..b /\ DOMAIN batch' = 1..b - 1
  BY <1>1, EmptySeq, HeadTailProperties, LenProperties
<1>4. PICK r \in Sent : r = batch[1] /\ r.id \in Issued
  <2>1. 1 \in 1..Len(InFlight) /\ InFlight[1] = batch[1]
    BY <1>1, <1>3, FlightSeq DEF LoaderInv
  <2> QED BY <2>1, FlightJobs
<1> HIDE DEF b
<1>5. Ids(batch) = {r.id} \cup Ids(batch)'
  <2>1. ASSUME NEW i \in 1..b PROVE batch[i].id \in {r.id} \cup {batch'[l].id : l \in 1..b - 1}
    <3>1. CASE i = 1
      BY <1>4, <3>1
    <3>2. CASE i # 1
      <4>1. PICK l \in 1..b - 1 : i = l + 1
        <5>1. i - 1 \in 1..b - 1 /\ i = i - 1 + 1
          BY <1>3, <3>2
        <5> QED BY <5>1
      <4> QED BY <1>3, <4>1
    <3> QED BY <3>1, <3>2
  <2>2. ASSUME NEW l \in 1..b - 1 PROVE batch'[l].id \in {batch[i].id : i \in 1..b}
    <3>1. l + 1 \in 1..b
      BY <1>3
    <3> QED BY <1>3, <3>1
  <2>3. r.id \in {batch[i].id : i \in 1..b}
    <3>1. 1 \in 1..b
      BY <1>3
    <3> QED BY <1>4, <3>1
  <2>4. Ids(batch) = {batch[i].id : i \in 1..b} /\ Ids(batch)' = {batch'[i].id : i \in 1..b - 1}
    BY <1>3 DEF Ids
  <2> QED BY <2>1, <2>2, <2>3, <2>4
<1>6. {id \in Issued : outcome[id] \in {"loaded", "failed"}}' =
        {id \in Issued : outcome[id] \in {"loaded", "failed"}} \cup {r.id}
  BY <1>1, <1>3, <1>4, DoneGrows
<1>7. Done' = Done
  BY <1>5, <1>6 DEF Done
<1> QED BY <1>1, <1>2, <1>7, PipeStutters

(* Teardown drops what is pending; what was finished stays finished.       *)
LEMMA TornDownDone ==
  ASSUME IInv, Teardown
  PROVE  Done' = Done
<1>1. outcome \in [1..MaxLoads -> Outcome]
  BY DEF IInv, MembersTyped
<1>2. /\ \A id \in 1..MaxLoads : outcome'[id] \in {"loaded", "failed"} <=>
                                  outcome[id] \in {"loaded", "failed"}
      /\ Issued' = Issued /\ batch' = batch
  BY <1>1 DEF Teardown, Waiting, Issued
<1> QED BY <1>2 DEF Done, Issued

LEMMA PipeStep == IInv /\ IInv' /\ [Next]_vars => [Pipe!Next]_(Pipe!vars)
<1> SUFFICES ASSUME IInv, IInv', [Next]_vars PROVE Pipe!Next \/ UNCHANGED Pipe!vars
  OBVIOUS
<1>1. /\ LoaderInv(Sent) /\ LoaderInv(Sent)' /\ NoJob \notin Sent
      /\ outcome \in [1..MaxLoads -> Outcome]
  BY SentJobs DEF IInv, MembersTyped
<1>2. CASE StartGl
  <2>1. InLoader' = InLoader /\ Done' = Done
    BY <1>2 DEF StartGl, loaderVars, InLoader, Running, Done, Issued
  <2> QED BY <1>1, <2>1, PipeStutters
<1>3. ASSUME NEW id \in 1..MaxLoads, NEW t \in Texture, LoadTexture(id, t) PROVE Pipe!Next
  BY <1>3, PipeSubmits DEF LoadTexture, Named, Key
<1>4. ASSUME NEW id \in 1..MaxLoads, NEW f \in Font, NEW i \in ImagesOf[f], LoadFont(id, f, i)
      PROVE  Pipe!Next
  <2>1. i \in Image /\ i \in Key
    BY FontAssumption DEF Key
  <2> QED BY <1>4, <2>1, PipeSubmits DEF LoadFont, Named
<1>5. ASSUME NEW id \in 1..MaxLoads, NEW u \in Sound, LoadAudio(id, u)
      PROVE  Pipe!Next \/ UNCHANGED Pipe!vars
  <2>1. CASE Load(id, "audio", u, u)
    BY <2>1, PipeSubmits DEF Named
  <2>2. CASE /\ Fresh(id) /\ outcome' = [outcome EXCEPT ![id] = "dropped"]
             /\ UNCHANGED <<loaderVars, batch>>
    <3>1. /\ Issued' = Issued \cup {id} /\ id \notin Issued
          /\ \A m \in 1..MaxLoads : m # id => outcome'[m] = outcome[m]
          /\ outcome'[id] = "dropped"
      BY <2>2, IssueOne DEF Fresh
    <3>2. InLoader' = InLoader /\ Done' = Done
      BY <2>2, <3>1 DEF loaderVars, InLoader, Running, Done, Issued
    <3> QED BY <1>1, <3>2, PipeStutters
  <2> QED BY <1>5, <2>1, <2>2 DEF LoadAudio
<1>6. ASSUME NEW id \in 1..MaxLoads, NEW p \in File, LoadFile(id, p) PROVE Pipe!Next
  BY <1>6, PipeSubmits DEF LoadFile, Named
<1>7. CASE \/ \E t \in Texture : UnloadTexture(t)
           \/ \E f \in Font : UnloadFont(f)
           \/ \E u \in Sound : UnloadAudio(u)
  BY <1>7, PipeCancels DEF UnloadTexture, UnloadFont, UnloadAudio, Named
<1>8. CASE DrainBegin
  BY <1>8, PipeDelivers
<1>9. CASE FinishNext
  BY <1>9, PipeFinishes
<1>10. CASE ShutdownBegin
  <2>1. CASE Teardown /\ UNCHANGED loaderVars
    <3>1. InLoader' = InLoader /\ Done' = Done
      BY <2>1, TornDownDone DEF loaderVars, InLoader, Running
    <3> QED BY <1>1, <3>1, PipeStutters
  <2>2. CASE StopBegin /\ UNCHANGED assetVars
    <3>1. InLoader' = InLoader /\ Done' = Done
      BY <2>2 DEF StopBegin, assetVars, InLoader, Running, Done, Issued
    <3> QED BY <1>1, <3>1, PipeStutters
  <2> QED BY <1>10, <2>1, <2>2 DEF ShutdownBegin
<1>11. CASE ShutdownEnd
  <2>1. InLoader' = <<>> /\ Done' = Done
    BY <1>1, <1>11, JoinEmpties, TornDownDone DEF ShutdownEnd
  <2>2. Pending' = <<>>
    <3>1. Len(InLoader') = 0
      BY <2>1, EmptySeq
    <3> QED BY <1>1, <3>1, PendingSeqNext, EmptySeq
  <2>3. Pipe!Close
    BY <2>1, <2>2 DEF Pipe!Close, Pending, Done
  <2> QED BY <2>3 DEF Pipe!Next
<1>12. CASE Notify
  <2>1. InLoader' = InLoader /\ Done' = Done
    BY <1>12 DEF Notify, NotifyOne, NotifyAll, assetVars, InLoader, Running, Done, Issued
  <2> QED BY <1>1, <2>1, PipeStutters
<1>13. CASE WorkerStep \/ Wakeup
  <2>1. InLoader' = InLoader
    BY <1>1, <1>13, TakeKeeps DEF WorkerStep, Wakeup
  <2>2. Done' = Done
    BY <1>13 DEF WorkerStep, Wakeup, assetVars, Done, Issued
  <2> QED BY <1>1, <2>1, <2>2, PipeStutters
<1>14. CASE Decode
  <2>1. /\ Len(InLoader') = Len(InLoader)
        /\ \A i \in 1..Len(InLoader) : /\ InLoader'[i].id = InLoader[i].id
                                       /\ InLoader'[i].kind = InLoader[i].kind
                                       /\ InLoader'[i].name = InLoader[i].name
    BY <1>1, <1>14, DecodeKeeps
  <2>2. Done' = Done
    BY <1>14 DEF Decode, assetVars, Done, Issued
  <2> QED BY <1>1, <2>1, <2>2, PipeStutters
<1>15. CASE UNCHANGED vars
  <2>1. InLoader' = InLoader /\ Done' = Done
    BY <1>15 DEF vars, loaderVars, assetVars, InLoader, Running, Done, Issued
  <2> QED BY <1>1, <2>1, PipeStutters
<1> QED BY <1>2, <1>3, <1>4, <1>5, <1>6, <1>7, <1>8, <1>9, <1>10, <1>11, <1>12, <1>13, <1>14,
           <1>15 DEF Next, GlNext, WorkerNext

(* With any number of jobs, the decode queue, the worker, the ready queue  *)
(* and the drained batch implement the cancellable FIFO pipe of JobPipe:   *)
(* each job comes out once, in the order the jobs went in, unless it is    *)
(* cancelled or dropped by a shutdown (asset_loader.h:18-58).              *)
THEOREM QueuesArePipe == Spec => PipeSpec
<1>1. Spec => [][IInv /\ IInv' /\ [Next]_vars]_vars
  BY Invariance, PTL DEF Spec
<1>2. IInv /\ IInv' /\ [Next]_vars => [Pipe!Next]_(Pipe!vars)
  BY PipeStep
<1>3. Spec => [][Pipe!Next]_(Pipe!vars)
  BY Invariance, <1>2, PTL DEF Spec
<1> QED BY <1>3, PipeInit, PTL DEF Spec, PipeSpec, Pipe!Spec
=============================================================================
