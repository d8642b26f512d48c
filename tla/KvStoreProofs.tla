---------------------------- MODULE KvStoreProofs ----------------------------
(***************************************************************************)
(* Proofs about KvStore, for any number of keys, saves, reads and launches *)
(* and any disk failures: the store is the merge of the disk and of what   *)
(* was saved, and a shutdown loses no save.                                *)
(***************************************************************************)
EXTENDS KvStore, SequenceTheorems, TLAPS

-----------------------------------------------------------------------------
(* The AssetLoader's two threads, whatever a job is.  AssetsProofs has the *)
(* same lemmas: Assets and KvStore each have a loader of their own, and no *)
(* module extends both.                                                    *)

(* The worker has a job exactly while it works, leaves only with nothing   *)
(* left to do, and no loader means empty queues and an idle caller.        *)
LoaderControl ==
  /\ worker = "working" <=> current # NoJob
  /\ worker = "none" => caller = "idle" /\ decodeQueue = <<>> /\ readyQueue = <<>>
  /\ stop <=> caller \in {"notifyAll", "join"}
  /\ worker = "exited" => stop /\ decodeQueue = <<>>

(* All jobs in the loader are members of S.                                *)
LoaderInv(S) == LoaderTypeOK(S) /\ LoaderControl

LEMMA LoaderInitInv ==
  ASSUME NEW S, LoaderInit
  PROVE  LoaderInv(S)
  BY EmptySeq DEF LoaderInit, LoaderInv, LoaderTypeOK, LoaderControl

LEMMA LoaderUnchangedInv ==
  ASSUME NEW S, LoaderInv(S), UNCHANGED loaderVars
  PROVE  LoaderInv(S)'
  BY DEF LoaderInv, LoaderTypeOK, LoaderControl, loaderVars

LEMMA EnqueueInv ==
  ASSUME NEW S, LoaderInv(S), NEW job \in S, Enqueue(job)
  PROVE  LoaderInv(S)'
<1>1. Append(decodeQueue, job) \in Seq(S) /\ Append(decodeQueue, job) # <<>>
  BY AppendProperties DEF LoaderInv, LoaderTypeOK
<1>2. LoaderTypeOK(S)'
  BY <1>1 DEF LoaderInv, LoaderTypeOK, Enqueue
<1>3. LoaderControl'
  BY <1>1 DEF LoaderInv, LoaderTypeOK, LoaderControl, Enqueue
<1> QED BY <1>2, <1>3 DEF LoaderInv

LEMMA NotifyInv ==
  ASSUME NEW S, LoaderInv(S), NotifyOne \/ NotifyAll
  PROVE  LoaderInv(S)'
  BY DEF LoaderInv, LoaderTypeOK, LoaderControl, NotifyOne, NotifyAll, Woken

(* A drain takes a prefix of what is ready.                                *)
LEMMA DrainTakes ==
  ASSUME NEW S, LoaderTypeOK(S), NEW max \in Nat
  PROVE  /\ DrainCount(max) \in 0..Len(readyQueue)
         /\ readyQueue # <<>> => DrainCount(max) > 0
         /\ max = 1 /\ readyQueue # <<>> => DrainCount(max) = 1
<1>1. Len(readyQueue) \in Nat /\ (readyQueue # <<>> => Len(readyQueue) > 0)
  BY EmptySeq, LenProperties DEF LoaderTypeOK
<1> QED BY <1>1 DEF DrainCount

LEMMA DrainInv ==
  ASSUME NEW S, LoaderInv(S), NEW max \in Nat, DrainReady(max)
  PROVE  LoaderInv(S)'
<1> DEFINE n == DrainCount(max)
           q == SubSeq(readyQueue, n + 1, Len(readyQueue))
<1>1. n \in 0..Len(readyQueue) /\ readyQueue \in Seq(S) /\ Len(readyQueue) \in Nat
  BY DrainTakes, LenProperties DEF LoaderInv, LoaderTypeOK
<1>2. q \in Seq(S)
  <2> HIDE DEF n
  <2>1. \A i \in (n + 1)..Len(readyQueue) : readyQueue[i] \in S
    BY <1>1, ElementOfSeq
  <2> QED BY <1>1, <2>1, SubSeqProperties
<1>3. readyQueue = <<>> => q = <<>>
  BY <1>1, SubSeqEmpty, EmptySeq
<1>4. readyQueue' = q /\ UNCHANGED <<decodeQueue, current, stop, worker, caller>>
  BY DEF DrainReady
<1> HIDE DEF q
<1> QED BY <1>2, <1>3, <1>4 DEF LoaderInv, LoaderTypeOK, LoaderControl

LEMMA StopInv ==
  ASSUME NEW S, LoaderInv(S), StopBegin \/ Join
  PROVE  LoaderInv(S)'
<1>1. CASE StopBegin
  BY <1>1 DEF LoaderInv, LoaderTypeOK, LoaderControl, StopBegin
<1>2. CASE Join
  BY <1>2, EmptySeq DEF LoaderInv, LoaderTypeOK, LoaderControl, Join
<1> QED BY <1>1, <1>2

LEMMA WorkerStepInv ==
  ASSUME NEW S, NoJob \notin S, LoaderInv(S),
         WorkerExit \/ WorkerTake \/ WorkerSleep \/ SpuriousWakeup
  PROVE  LoaderInv(S)'
<1>1. CASE WorkerExit \/ WorkerSleep \/ SpuriousWakeup
  BY <1>1 DEF LoaderInv, LoaderTypeOK, LoaderControl, WorkerExit, WorkerSleep,
     SpuriousWakeup, MayExit
<1>2. CASE WorkerTake
  <2>1. Head(decodeQueue) \in S /\ Tail(decodeQueue) \in Seq(S)
    BY <1>2, HeadTailProperties DEF LoaderInv, LoaderTypeOK, WorkerTake
  <2>2. LoaderTypeOK(S)'
    BY <1>2, <2>1 DEF LoaderInv, LoaderTypeOK, WorkerTake
  <2>3. LoaderControl'
    BY <1>2, <2>1 DEF LoaderInv, LoaderControl, WorkerTake
  <2> QED BY <2>2, <2>3 DEF LoaderInv
<1> QED BY <1>1, <1>2

LEMMA WorkerFinishInv ==
  ASSUME NEW S, LoaderInv(S), NEW r \in S, WorkerFinish(r)
  PROVE  LoaderInv(S)'
<1>1. Append(readyQueue, r) \in Seq(S)
  BY AppendProperties DEF LoaderInv, LoaderTypeOK
<1> QED BY <1>1 DEF LoaderInv, LoaderTypeOK, LoaderControl, WorkerFinish
-----------------------------------------------------------------------------
(* The inductive invariant.                                                *)

(* The values keep every key that was in the file the load reads.          *)
Keeps(v) ==
  atLaunch[loadPath] # Torn => \A k \in Key : v[k] = None => atLaunch[loadPath][k] = None

(* Before the load has been merged, all the loader can hold is that load.  *)
TheLoad == {j \in Job : j.kind = "load" /\ j.path = loadPath}

(* Afterwards it holds only saves.                                         *)
ASave == {j \in Job : j.kind = "save" /\ j.path = "app" /\ Keeps(j.values)}

JobsHeld ==
  Len(decodeQueue) + Len(readyQueue) + (IF current = NoJob THEN 0 ELSE 1)

(* Where the application's data are: in saves still to come, of which the  *)
(* last holds everything, or on the disk.                                  *)
Newest ==
  IF decodeQueue # <<>> THEN decodeQueue[Len(decodeQueue)].values
  ELSE IF current # NoJob THEN current.values
  ELSE disk["app"]

(* What the load has read.                                                 *)
ReadOf(r) == atLaunch[loadPath] # Torn => r.values = atLaunch[loadPath]

Results == \A i \in DOMAIN readyQueue : ReadOf(readyQueue[i])

(* kv_dirty_keys_ are the keys saved in this launch.                       *)
DirtyKeys ==
  /\ \A k \in Key : k \in dirty <=> saved[k] # None
  /\ \A k \in Key : k \in dirty => store[k] = saved[k]

BeforeLoad ==
  ~loaded =>
    /\ LoaderTypeOK(TheLoad)
    /\ JobsHeld <= (IF loadStarted THEN 1 ELSE 0)
    /\ disk = atLaunch
    /\ ~truncated
    /\ Results
    /\ \A k \in Key : k \notin dirty => store[k] = None

AfterLoad ==
  loaded =>
    /\ LoaderTypeOK(ASave)
    /\ loadStarted /\ path = "app"
    /\ Keeps(store)
    /\ loadPath = "app" /\ disk["app"] # Torn => Keeps(disk["app"])
    /\ atLaunch[loadPath] # Torn =>
         \A k \in Key : k \notin dirty => store[k] = atLaunch[loadPath][k]
    /\ ~saveFailed /\ dirty # {} => Newest = store

LifeOK ==
  /\ launches \in 1..MaxLaunches
  /\ saves <= MaxSaves * launches
  /\ loadStarted => loadPath \in Path
  /\ started => path = "app"
  /\ telling # "no" => reads # <<>>
  /\ truncated => current # NoJob /\ current.kind = "save"

IInv ==
  /\ LoaderInv(Job) /\ MembersTyped /\ FlagsTyped
  /\ LifeOK
  /\ DirtyKeys /\ BeforeLoad /\ AfterLoad

-----------------------------------------------------------------------------
(* Lemmas about the data.                                                  *)

LEMMA Bounds == MaxSaves \in Nat /\ MaxLaunches \in Nat \ {0}
  BY CountAssumption

LEMMA EmptyIsStore == Empty \in Values
  BY DEF Empty, Values

(* A launch has room for its saves.                                        *)
LEMMA SaveNumber ==
  ASSUME MembersTyped, LifeOK, saves < MaxSaves * launches
  PROVE  saves + 1 \in Value /\ saves + 1 # None
<1>1. MaxSaves * launches <= MaxSaves * MaxLaunches
  BY Bounds DEF LifeOK
<1>2. saves + 1 \in 1..(MaxSaves * MaxLaunches)
  BY <1>1, Bounds DEF MembersTyped, LifeOK
<1> QED BY <1>2, DataAssumption DEF Value

LEMMA Kinds ==
  /\ TheLoad \subseteq Job /\ ASave \subseteq Job
  /\ NoJob \notin Job /\ NoJob \notin TheLoad /\ NoJob \notin ASave
  BY DataAssumption DEF TheLoad, ASave

LEMMA KindsStay ==
  /\ UNCHANGED loadPath => TheLoad' = TheLoad
  /\ UNCHANGED <<atLaunch, loadPath>> => ASave' = ASave
  BY DEF TheLoad, ASave, Keeps

(* What the queues hold tells whether the load has been merged.            *)
LEMMA Phase ==
  ASSUME IInv
  PROVE  /\ current # NoJob => (loaded <=> current.kind = "save")
         /\ readyQueue # <<>> => (loaded <=> Head(readyQueue).kind = "save")
         /\ readyQueue # <<>> => Head(readyQueue) \in Job
<1>1. ASSUME NEW S, LoaderTypeOK(S), readyQueue # <<>> PROVE Head(readyQueue) \in S
  BY <1>1, HeadTailProperties DEF LoaderTypeOK
<1>2. loaded => LoaderTypeOK(ASave)
  BY DEF IInv, AfterLoad
<1>3. ~loaded => LoaderTypeOK(TheLoad)
  BY DEF IInv, BeforeLoad
<1>4. current # NoJob => (loaded <=> current.kind = "save")
  BY <1>2, <1>3 DEF LoaderTypeOK, ASave, TheLoad
<1>5. readyQueue # <<>> => (loaded <=> Head(readyQueue).kind = "save")
  BY <1>1, <1>2, <1>3 DEF ASave, TheLoad
<1> QED BY <1>1, <1>4, <1>5 DEF IInv, LoaderInv

-----------------------------------------------------------------------------
(* Jobs that move through the loader.                                      *)

dataVars == <<disk, truncated, path, loadStarted, loaded, store, dirty, launches,
              saves, saved, atLaunch, loadPath, saveFailed>>

(* A step of the loader that leaves the data alone keeps the invariant if  *)
(* it adds no job, and neither forgets nor reorders the newest save.       *)
LEMMA MoveInv ==
  ASSUME IInv, UNCHANGED dataVars,
         MembersTyped', FlagsTyped', LoaderInv(Job)',
         started' => path = "app",
         telling' # "no" => reads' # <<>>,
         truncated => UNCHANGED current,
         NEW L, L = TheLoad, ~loaded => LoaderTypeOK(L)' /\ JobsHeld' <= JobsHeld /\ Results',
         NEW A, A = ASave, loaded => LoaderTypeOK(A)' /\ Newest' = Newest
  PROVE  IInv'
<1> USE DEF dataVars
<1>1. LifeOK'
  BY DEF IInv, LifeOK
<1>2. DirtyKeys'
  BY DEF IInv, DirtyKeys
<1>3. BeforeLoad'
  <2>1. CASE loaded
    BY <2>1 DEF BeforeLoad
  <2>2. CASE ~loaded
    <3>1. TheLoad' = L
      BY KindsStay
    <3>2. LoaderTypeOK(TheLoad)'
      BY <2>2, <3>1 DEF LoaderTypeOK
    <3>3. JobsHeld' <= (IF loadStarted' THEN 1 ELSE 0)
      <4>1. JobsHeld \in Nat /\ JobsHeld' \in Nat
        BY LenProperties DEF IInv, LoaderInv, LoaderTypeOK, JobsHeld
      <4> QED BY <2>2, <4>1 DEF IInv, BeforeLoad
    <3> QED BY <2>2, <3>2, <3>3 DEF IInv, BeforeLoad
  <2> QED BY <2>1, <2>2
<1>4. AfterLoad'
  <2>1. CASE ~loaded
    BY <2>1 DEF AfterLoad
  <2>2. CASE loaded
    <3>1. ASave' = A
      BY KindsStay
    <3>2. LoaderTypeOK(ASave)'
      BY <2>2, <3>1 DEF LoaderTypeOK
    <3> QED BY <2>2, <3>2 DEF IInv, AfterLoad, Keeps
  <2> QED BY <2>1, <2>2
<1> QED BY <1>1, <1>2, <1>3, <1>4 DEF IInv

(* The steps of the worker between two jobs.                               *)
LEMMA WorkerMoves ==
  ASSUME IInv, WorkerStep \/ Wakeup
  PROVE  IInv'
<1>1. WorkerExit \/ WorkerTake \/ WorkerSleep \/ SpuriousWakeup
  BY DEF WorkerStep, Wakeup
<1>2. UNCHANGED <<diskVars, storeVars, lifeVars, histVars>>
  BY DEF WorkerStep, Wakeup
<1>3. UNCHANGED dataVars /\ UNCHANGED <<started, over, reads, telling, loadDropped>>
  BY <1>2 DEF dataVars, diskVars, storeVars, lifeVars, histVars
<1>4. MembersTyped' /\ FlagsTyped'
  BY <1>3 DEF IInv, MembersTyped, FlagsTyped, dataVars
<1>5. ASSUME NEW S, NoJob \notin S, LoaderTypeOK(S) PROVE LoaderInv(S)'
  BY <1>1, <1>5, WorkerStepInv DEF IInv, LoaderInv
<1>6. UNCHANGED readyQueue
  BY <1>1 DEF WorkerExit, WorkerTake, WorkerSleep, SpuriousWakeup
<1>7. /\ truncated => UNCHANGED current
      /\ JobsHeld' = JobsHeld
      /\ Newest' = Newest
  <2>1. CASE WorkerTake
    <3>1. /\ decodeQueue \in Seq(Job) /\ decodeQueue # <<>> /\ current = NoJob
          /\ decodeQueue' = Tail(decodeQueue) /\ current' = Head(decodeQueue)
      BY <2>1 DEF WorkerTake, IInv, LoaderInv, LoaderTypeOK, LoaderControl
    <3>2. /\ Len(decodeQueue) \in Nat \ {0}
          /\ Len(decodeQueue') = Len(decodeQueue) - 1
          /\ current' = decodeQueue[1] /\ current' \in Job
          /\ decodeQueue' # <<>> =>
             decodeQueue'[Len(decodeQueue')] = decodeQueue[Len(decodeQueue)]
          /\ decodeQueue' = <<>> => Len(decodeQueue) = 1
      <4> DEFINE t == Tail(decodeQueue)
      <4>1. /\ Head(decodeQueue) \in Job
            /\ t \in Seq(Job)
            /\ Len(t) = Len(decodeQueue) - 1
            /\ \A i \in 1..Len(t) : t[i] = decodeQueue[i + 1]
        BY <3>1, HeadTailProperties
      <4>2. Len(decodeQueue) \in Nat \ {0} /\ Head(decodeQueue) = decodeQueue[1]
        BY <3>1, EmptySeq
      <4>3. IF t = <<>> THEN Len(t) = 0 ELSE Len(t) \in Nat \ {0}
        BY <4>1, EmptySeq
      <4>4. decodeQueue' = t
        BY <3>1
      <4> HIDE DEF t
      <4>5. t # <<>> => t[Len(t)] = decodeQueue[Len(decodeQueue)]
        BY <4>1, <4>2, <4>3
      <4> QED BY <3>1, <4>1, <4>2, <4>3, <4>4, <4>5
    <3>3. JobsHeld' = JobsHeld
      <4>1. Len(readyQueue) \in Nat
        BY LenProperties DEF IInv, LoaderInv, LoaderTypeOK
      <4> QED BY <1>6, <3>1, <3>2, <4>1, Kinds DEF JobsHeld
    <3>4. Newest' = Newest
      BY <1>3, <3>1, <3>2, Kinds DEF Newest, dataVars
    <3> QED BY <3>1, <3>3, <3>4 DEF IInv, LifeOK
  <2>2. CASE ~WorkerTake
    <3>1. UNCHANGED <<decodeQueue, current>>
      BY <1>1, <2>2 DEF WorkerExit, WorkerSleep, SpuriousWakeup
    <3> QED BY <1>3, <1>6, <3>1 DEF JobsHeld, Newest, dataVars
  <2> QED BY <2>1, <2>2
<1>8. started' => path = "app"
  BY <1>3 DEF IInv, LifeOK
<1>9. telling' # "no" => reads' # <<>>
  BY <1>3 DEF IInv, LifeOK
<1>10. PICK L : L = TheLoad
  OBVIOUS
<1>11. PICK A : A = ASave
  OBVIOUS
<1>12. ~loaded => LoaderTypeOK(L)' /\ JobsHeld' <= JobsHeld /\ Results'
  <2>1. JobsHeld \in Nat
    BY LenProperties DEF IInv, LoaderInv, LoaderTypeOK, JobsHeld
  <2>2. ~loaded => LoaderTypeOK(L) /\ Results
    BY <1>10 DEF IInv, BeforeLoad
  <2>3. Results => Results'
    BY <1>3, <1>6 DEF Results, ReadOf, dataVars
  <2> QED BY <1>5, <1>7, <1>10, <2>1, <2>2, <2>3, Kinds DEF LoaderInv
<1>13. loaded => LoaderTypeOK(A)' /\ Newest' = Newest
  BY <1>5, <1>7, <1>11, Kinds DEF IInv, AfterLoad, LoaderInv
<1>14. LoaderInv(Job)'
  BY <1>5, Kinds DEF IInv, LoaderInv
<1> QED BY <1>3, <1>4, <1>7, <1>8, <1>9, <1>10, <1>11, <1>12, <1>13, <1>14, MoveInv

(* A step that moves no job.                                               *)
LEMMA QuietInv ==
  ASSUME IInv, UNCHANGED dataVars, UNCHANGED <<decodeQueue, current, readyQueue>>,
         MembersTyped', FlagsTyped', LoaderInv(Job)',
         started' => path = "app",
         telling' # "no" => reads' # <<>>
  PROVE  IInv'
<1>1. PICK L : L = TheLoad
  OBVIOUS
<1>2. PICK A : A = ASave
  OBVIOUS
<1>3. LoaderTypeOK(L) => LoaderTypeOK(L)'
  BY DEF LoaderTypeOK, LoaderInv
<1>4. LoaderTypeOK(A) => LoaderTypeOK(A)'
  BY DEF LoaderTypeOK, LoaderInv
<1>5. JobsHeld' = JobsHeld /\ Newest' = Newest /\ (Results => Results')
  BY DEF JobsHeld, Newest, Results, ReadOf, dataVars
<1>6. ~loaded => LoaderTypeOK(L)' /\ JobsHeld' <= JobsHeld /\ Results'
  <2>1. JobsHeld \in Nat
    BY LenProperties DEF IInv, LoaderInv, LoaderTypeOK, JobsHeld
  <2> QED BY <1>1, <1>3, <1>5, <2>1 DEF IInv, BeforeLoad
<1>7. loaded => LoaderTypeOK(A)' /\ Newest' = Newest
  BY <1>2, <1>4, <1>5 DEF IInv, AfterLoad
<1> QED BY <1>1, <1>2, <1>6, <1>7, MoveInv

LEMMA NotifyMoves ==
  ASSUME IInv, Notify
  PROVE  IInv'
<1>1. LoaderInv(Job)'
  BY NotifyInv DEF IInv, Notify
<1>2. UNCHANGED dataVars /\ UNCHANGED <<started, over, reads, telling, loadDropped>>
  BY DEF Notify, dataVars, diskVars, storeVars, lifeVars, histVars
<1>3. MembersTyped' /\ FlagsTyped'
  BY <1>2 DEF IInv, MembersTyped, FlagsTyped, dataVars
<1>4. UNCHANGED <<decodeQueue, current, readyQueue>>
  BY DEF Notify, NotifyOne, NotifyAll
<1> QED BY <1>1, <1>2, <1>3, <1>4, QuietInv DEF IInv, LifeOK

LEMMA AnswerInv ==
  ASSUME IInv, AnswerNext
  PROVE  IInv'
<1>1. UNCHANGED dataVars /\ UNCHANGED <<started, over, loadDropped>>
  BY DEF AnswerNext, dataVars, diskVars, lifeVars, histVars
<1>2. LoaderInv(Job)' /\ UNCHANGED <<decodeQueue, current, readyQueue>>
  BY LoaderUnchangedInv DEF IInv, AnswerNext, loaderVars
<1>3. reads \in Seq(Key) /\ reads # <<>>
  BY DEF IInv, MembersTyped, LifeOK, AnswerNext
<1>4. /\ reads' \in Seq(Key) /\ Len(reads') = Len(reads) - 1
      /\ Len(reads) \in Nat \ {0}
  BY <1>3, HeadTailProperties, EmptySeq DEF AnswerNext
<1>5. telling' \in {"no", "more"} /\ (telling' # "no" => Len(reads) # 1)
  BY DEF AnswerNext
<1>6. telling' # "no" => reads' # <<>>
  BY <1>4, <1>5, EmptySeq
<1>7. MembersTyped' /\ FlagsTyped'
  BY <1>1, <1>4, <1>5 DEF IInv, MembersTyped, FlagsTyped, dataVars
<1> QED BY <1>1, <1>2, <1>6, <1>7, QuietInv DEF IInv, LifeOK

(* The end of the loop: the join drops what was never drained, and leaves  *)
(* no save behind.                                                         *)
LEMMA ShutdownInv ==
  ASSUME IInv, ShutdownBegin \/ ShutdownEnd
  PROVE  IInv'
<1>1. CASE ShutdownBegin
  <2>1. CASE worker = "none"
    <3>1. AfterShutdown /\ UNCHANGED loaderVars
      BY <1>1, <2>1 DEF ShutdownBegin
    <3>2. LoaderInv(Job)' /\ UNCHANGED <<decodeQueue, current, readyQueue>>
      BY <3>1, LoaderUnchangedInv DEF IInv, loaderVars
    <3>3. UNCHANGED dataVars /\ UNCHANGED <<reads, telling>>
      BY <3>1 DEF AfterShutdown, dataVars, diskVars, storeVars
    <3>4. MembersTyped' /\ FlagsTyped' /\ ~started'
      BY <3>1, <3>3 DEF IInv, MembersTyped, FlagsTyped, dataVars, AfterShutdown, LoadInLoader
    <3> QED BY <3>2, <3>3, <3>4, QuietInv DEF IInv, LifeOK
  <2>2. CASE worker # "none"
    <3>1. StopBegin /\ UNCHANGED <<diskVars, storeVars, lifeVars, histVars>>
      BY <1>1, <2>2 DEF ShutdownBegin
    <3>2. LoaderInv(Job)' /\ UNCHANGED <<decodeQueue, current, readyQueue>>
      BY <3>1, StopInv DEF IInv, StopBegin
    <3>3. UNCHANGED dataVars /\ UNCHANGED <<started, over, reads, telling, loadDropped>>
      BY <3>1 DEF dataVars, diskVars, storeVars, lifeVars, histVars
    <3>4. MembersTyped' /\ FlagsTyped'
      BY <3>3 DEF IInv, MembersTyped, FlagsTyped, dataVars
    <3> QED BY <3>2, <3>3, <3>4, QuietInv DEF IInv, LifeOK
  <2> QED BY <2>1, <2>2
<1>2. CASE ShutdownEnd
  <2>1. Join /\ AfterShutdown
    BY <1>2 DEF ShutdownEnd
  <2>2. LoaderInv(Job)'
    BY <2>1, StopInv DEF IInv
  <2>3. UNCHANGED dataVars /\ UNCHANGED <<reads, telling>>
    BY <2>1 DEF AfterShutdown, dataVars, diskVars, storeVars
  <2>4. MembersTyped' /\ FlagsTyped' /\ ~started'
    BY <2>1, <2>3 DEF IInv, MembersTyped, FlagsTyped, dataVars, AfterShutdown, LoadInLoader
  <2>5. /\ decodeQueue = <<>> /\ decodeQueue' = <<>> /\ readyQueue' = <<>>
        /\ current = NoJob /\ current' = NoJob
    BY <2>1 DEF Join, IInv, LoaderInv, LoaderControl
  <2>6. ASSUME NEW S PROVE LoaderTypeOK(S)'
    BY <2>2, <2>5, EmptySeq DEF LoaderInv, LoaderTypeOK
  <2>7. JobsHeld' = 0 /\ JobsHeld \in Nat /\ Results' /\ Newest' = Newest
    <3>1. Len(decodeQueue') = 0 /\ Len(readyQueue') = 0
      BY <2>5, EmptySeq
    <3>2. JobsHeld \in Nat
      BY LenProperties DEF IInv, LoaderInv, LoaderTypeOK, JobsHeld
    <3> QED BY <2>3, <2>5, <3>1, <3>2 DEF JobsHeld, Results, Newest, dataVars
  <2>8. PICK L : L = TheLoad
    OBVIOUS
  <2>9. PICK A : A = ASave
    OBVIOUS
  <2> QED BY <2>2, <2>3, <2>4, <2>5, <2>6, <2>7, <2>8, <2>9, MoveInv DEF IInv, LifeOK
<1> QED BY <1>1, <1>2

LEMMA StartReglInv ==
  ASSUME IInv, StartRegl
  PROVE  IInv'
<1>1. LoaderInv(Job)' /\ UNCHANGED loaderVars
  BY LoaderUnchangedInv DEF IInv, StartRegl
<1>2. /\ UNCHANGED <<disk, truncated, loadStarted, loaded, store, dirty, launches, saves,
                      saved, atLaunch, loadPath, saveFailed, over, reads, telling,
                      loadDropped>>
      /\ path' = "app" /\ started' = TRUE
  BY DEF StartRegl, diskVars, storeVars, histVars
<1>3. MembersTyped' /\ FlagsTyped' /\ LifeOK'
  BY <1>1, <1>2 DEF IInv, MembersTyped, FlagsTyped, LifeOK, Path, loaderVars
<1>4. TheLoad' = TheLoad /\ ASave' = ASave
  BY <1>2, KindsStay
<1>5. DirtyKeys' /\ BeforeLoad' /\ AfterLoad'
  BY <1>1, <1>2, <1>4 DEF IInv, DirtyKeys, BeforeLoad, AfterLoad, LoaderTypeOK, loaderVars,
     JobsHeld, Results, ReadOf, Newest, Keeps
<1> QED BY <1>1, <1>3, <1>5 DEF IInv

-----------------------------------------------------------------------------
(* The jobs themselves.                                                    *)

(* Nothing was written before the load was merged, so it reads what was on *)
(* the disk at launch.                                                     *)
LEMMA LoadInv ==
  ASSUME IInv, LoadKvJson
  PROVE  IInv'
<1>1. /\ current # NoJob /\ current.kind = "load" /\ WorkerFinish(Parsed(current))
      /\ UNCHANGED dataVars /\ UNCHANGED <<started, over, reads, telling, loadDropped>>
  BY DEF LoadKvJson, dataVars, diskVars, storeVars, lifeVars, histVars
<1>2. ~loaded /\ ~truncated /\ disk = atLaunch
  BY <1>1, Phase DEF IInv, BeforeLoad
<1>3. LoaderTypeOK(TheLoad) /\ JobsHeld <= 1 /\ loadStarted
  BY <1>1, <1>2, LenProperties DEF IInv, BeforeLoad, JobsHeld, LoaderInv, LoaderTypeOK
<1>4. current \in TheLoad
  BY <1>1, <1>3 DEF LoaderTypeOK
<1>5. loadPath \in Path /\ disk[loadPath] \in Values \cup {Torn}
  BY <1>3 DEF IInv, LifeOK, MembersTyped
<1>6. Parsed(current) \in TheLoad /\ ReadOf(Parsed(current))
  <2>1. /\ current \in Job /\ current.kind = "load" /\ current.path = loadPath
        /\ current = [kind |-> "load", path |-> loadPath, values |-> current.values,
                      error |-> current.error]
        /\ current.values \in Values /\ current.error \in BOOLEAN
    BY <1>4 DEF TheLoad, Job
  <2>2. CASE disk[loadPath] = Torn
    <3>1. Parsed(current) = [kind |-> "load", path |-> loadPath, values |-> current.values,
                             error |-> TRUE]
      BY <2>1, <2>2 DEF Parsed
    <3> QED BY <1>2, <1>5, <2>1, <2>2, <3>1 DEF TheLoad, Job, ReadOf
  <2>3. CASE disk[loadPath] # Torn
    <3>1. Parsed(current) = [kind |-> "load", path |-> loadPath, values |-> disk[loadPath],
                             error |-> current.error]
      BY <2>1, <2>3 DEF Parsed
    <3> QED BY <1>2, <1>5, <2>1, <2>3, <3>1 DEF TheLoad, Job, ReadOf
  <2> QED BY <2>2, <2>3
<1>7. LoaderInv(TheLoad)'
  <2>1. LoaderInv(TheLoad)
    BY <1>3 DEF IInv, LoaderInv
  <2>2. PICK L : L = TheLoad
    OBVIOUS
  <2>3. LoaderInv(L)'
    BY <1>1, <1>6, <2>1, <2>2, WorkerFinishInv
  <2> QED BY <1>1, <2>2, <2>3, KindsStay DEF LoaderInv, LoaderTypeOK, dataVars
<1>8. LoaderInv(Job)'
  BY <1>1, <1>6, WorkerFinishInv, Kinds DEF IInv
<1>9. /\ readyQueue = <<>> /\ decodeQueue = <<>>
      /\ readyQueue' = <<Parsed(current)>> /\ decodeQueue' = <<>> /\ current' = NoJob
  <2>1. Len(readyQueue) = 0 /\ Len(decodeQueue) = 0
    BY <1>1, <1>3, LenProperties DEF JobsHeld, LoaderTypeOK
  <2>2. readyQueue = <<>> /\ decodeQueue = <<>>
    BY <1>3, <2>1, EmptySeq DEF LoaderTypeOK
  <2> QED BY <1>1, <2>2 DEF WorkerFinish
<1>10. JobsHeld' = 1 /\ Results'
  <2>1. UNCHANGED <<atLaunch, loadPath>>
    BY <1>1 DEF dataVars
  <2> QED BY <1>6, <1>9, <2>1 DEF JobsHeld, Results, ReadOf
<1>11. BeforeLoad'
  BY <1>1, <1>2, <1>3, <1>7, <1>10 DEF IInv, BeforeLoad, LoaderInv, dataVars
<1>12. MembersTyped' /\ FlagsTyped' /\ LifeOK' /\ DirtyKeys' /\ AfterLoad'
  BY <1>1, <1>2 DEF IInv, MembersTyped, FlagsTyped, LifeOK, DirtyKeys, AfterLoad, dataVars
<1> QED BY <1>8, <1>11, <1>12 DEF IInv

(* A save between its two halves, or failed, or done: then the disk holds  *)
(* what the job held.                                                      *)
LEMMA SaveInv ==
  ASSUME IInv, SaveOpen \/ SaveWrite
  PROVE  IInv'
<1> DEFINE keptVars == <<path, loadStarted, loaded, store, dirty, launches, saves, saved,
                         atLaunch, loadPath, started, over, reads, telling, loadDropped>>
<1>1. current # NoJob /\ current.kind = "save" /\ UNCHANGED keptVars
  BY DEF SaveOpen, SaveWrite, IInv, LifeOK, storeVars, lifeVars
<1>2. loaded /\ loaded' /\ LoaderTypeOK(ASave)
  BY <1>1, Phase DEF IInv, AfterLoad
<1>3. /\ current \in ASave /\ current.values \in Values
      /\ current.path = "app" /\ Keeps(current.values)
  BY <1>1, <1>2 DEF LoaderTypeOK, ASave, Job
<1>4. TheLoad' = TheLoad /\ ASave' = ASave
  BY <1>1, KindsStay
<1>5. DirtyKeys' /\ BeforeLoad'
  BY <1>1, <1>2 DEF IInv, DirtyKeys, BeforeLoad
<1>6. CASE /\ UNCHANGED loaderVars /\ UNCHANGED saveFailed /\ truncated' = TRUE
           /\ disk' = [disk EXCEPT ![current.path] = Torn]
  <2>1. LoaderInv(Job)' /\ LoaderTypeOK(ASave)' /\ UNCHANGED <<current, decodeQueue>>
    BY <1>2, <1>4, <1>6, LoaderUnchangedInv DEF IInv, LoaderInv, LoaderTypeOK, loaderVars
  <2>2. disk' \in [Path -> Values \cup {Torn}] /\ disk'["app"] = Torn
    BY <1>3, <1>6 DEF IInv, MembersTyped, Path
  <2>3. MembersTyped' /\ FlagsTyped' /\ LifeOK'
    BY <1>1, <1>6, <2>1, <2>2 DEF IInv, MembersTyped, FlagsTyped, LifeOK
  <2>4. Newest' = Newest
    BY <1>1, <2>1 DEF Newest
  <2>5. AfterLoad'
    BY <1>1, <1>2, <1>6, <2>1, <2>2, <2>4 DEF IInv, AfterLoad, Keeps
  <2> QED BY <1>5, <2>1, <2>3, <2>5 DEF IInv
<1>7. ASSUME NEW r \in {current, [current EXCEPT !.error = TRUE]}, WorkerFinish(r)
      PROVE  /\ LoaderInv(Job)' /\ LoaderTypeOK(ASave)'
             /\ UNCHANGED decodeQueue /\ current' = NoJob
  <2>1. r \in ASave
    BY <1>3 DEF ASave, Job
  <2>2. PICK A : A = ASave
    OBVIOUS
  <2>3. LoaderInv(A)' /\ LoaderInv(Job)'
    BY <1>2, <1>7, <2>1, <2>2, WorkerFinishInv, Kinds DEF IInv, LoaderInv
  <2> QED BY <1>4, <1>7, <2>2, <2>3 DEF LoaderInv, LoaderTypeOK, WorkerFinish
<1>8. CASE /\ WorkerFinish([current EXCEPT !.error = TRUE])
           /\ saveFailed' = TRUE /\ truncated' = FALSE /\ UNCHANGED disk
  <2>1. /\ LoaderInv(Job)' /\ LoaderTypeOK(ASave)'
        /\ UNCHANGED decodeQueue /\ current' = NoJob
    BY <1>7, <1>8
  <2>2. MembersTyped' /\ FlagsTyped' /\ LifeOK'
    BY <1>1, <1>8 DEF IInv, MembersTyped, FlagsTyped, LifeOK
  <2>3. AfterLoad'
    BY <1>1, <1>2, <1>8, <2>1 DEF IInv, AfterLoad, Keeps
  <2> QED BY <1>5, <2>1, <2>2, <2>3 DEF IInv
<1>9. CASE /\ WorkerFinish(current) /\ UNCHANGED saveFailed /\ truncated' = FALSE
           /\ disk' = [disk EXCEPT ![current.path] = current.values]
  <2>1. /\ LoaderInv(Job)' /\ LoaderTypeOK(ASave)'
        /\ UNCHANGED decodeQueue /\ current' = NoJob
    BY <1>7, <1>9
  <2>2. disk' \in [Path -> Values \cup {Torn}] /\ disk'["app"] = current.values
    BY <1>3, <1>9 DEF IInv, MembersTyped, Path
  <2>3. MembersTyped' /\ FlagsTyped' /\ LifeOK'
    BY <1>1, <1>9, <2>2 DEF IInv, MembersTyped, FlagsTyped, LifeOK
  <2>4. Newest' = Newest
    BY <1>1, <2>1, <2>2 DEF Newest
  <2>5. AfterLoad'
    BY <1>1, <1>2, <1>3, <1>9, <2>1, <2>2, <2>4 DEF IInv, AfterLoad, Keeps
  <2> QED BY <1>5, <2>1, <2>3, <2>5 DEF IInv
<1>10. ~truncated => truncated = FALSE
  BY DEF IInv, FlagsTyped
<1>11. CASE SaveOpen
  BY <1>6, <1>8, <1>10, <1>11 DEF SaveOpen, diskVars
<1>12. CASE SaveWrite
  BY <1>8, <1>9, <1>12 DEF SaveWrite
<1> QED BY <1>11, <1>12

-----------------------------------------------------------------------------
(* The GL thread.                                                          *)

(* A finished save needs no more work.                                     *)
LEMMA DrainSaveInv ==
  ASSUME IInv, DrainOne, Head(readyQueue).kind = "save"
  PROVE  IInv'
<1>1. /\ DrainReady(1) /\ UNCHANGED dataVars
      /\ UNCHANGED <<started, over, reads, telling, loadDropped>>
  BY DEF DrainOne, FinishLoad, dataVars, diskVars, lifeVars, histVars
<1>2. loaded /\ LoaderTypeOK(ASave)
  BY Phase DEF IInv, AfterLoad, DrainOne
<1>3. UNCHANGED <<decodeQueue, current>>
  BY <1>1 DEF DrainReady
<1>4. PICK L : L = TheLoad
  OBVIOUS
<1>5. PICK A : A = ASave
  OBVIOUS
<1>6. LoaderInv(A)' /\ LoaderInv(Job)'
  BY <1>1, <1>2, <1>5, DrainInv DEF IInv, LoaderInv
<1>7. Newest' = Newest
  BY <1>1, <1>3 DEF Newest, dataVars
<1>8. MembersTyped' /\ FlagsTyped'
  BY <1>1 DEF IInv, MembersTyped, FlagsTyped, dataVars
<1> QED BY <1>1, <1>2, <1>3, <1>4, <1>5, <1>6, <1>7, <1>8, MoveInv DEF IInv, LifeOK, LoaderInv

(* The load is merged: what was saved meanwhile wins, the rest is what the *)
(* file held, and a save of everything is on its way unless nothing was.   *)
LEMMA DrainLoadInv ==
  ASSUME IInv, DrainOne, Head(readyQueue).kind = "load"
  PROVE  IInv'
<1> DEFINE r == Head(readyQueue)
<1>1. /\ ~over /\ started /\ caller = "idle" /\ telling = "no" /\ readyQueue # <<>>
      /\ store' = Merged(r) /\ loaded' = TRUE
      /\ telling' = (IF reads = <<>> THEN "no" ELSE "first")
      /\ readyQueue' = Tail(readyQueue)
      /\ IF dirty = {} THEN UNCHANGED <<decodeQueue, caller>>
         ELSE /\ decodeQueue' = Append(decodeQueue, NewJob("save", store'))
              /\ caller' = "notify"
      /\ UNCHANGED <<current, stop, worker>>
      /\ UNCHANGED <<disk, truncated, loadStarted, dirty, reads, path, started, over, launches,
                     saves, saved, atLaunch, loadPath, saveFailed, loadDropped>>
  BY DEF DrainOne, FinishLoad, diskVars, lifeVars, histVars
<1>2. /\ ~loaded /\ LoaderTypeOK(TheLoad) /\ Results /\ disk = atLaunch /\ ~truncated
      /\ JobsHeld <= (IF loadStarted THEN 1 ELSE 0)
      /\ \A k \in Key : k \notin dirty => store[k] = None
  BY <1>1, Phase DEF IInv, BeforeLoad
<1>3. /\ decodeQueue = <<>> /\ current = NoJob /\ readyQueue' = <<>> /\ loadStarted
      /\ r \in TheLoad /\ ReadOf(r)
  <2>1. /\ Len(readyQueue) \in Nat \ {0} /\ Len(decodeQueue) \in Nat
        /\ r = readyQueue[1] /\ r \in TheLoad
        /\ Len(Tail(readyQueue)) = Len(readyQueue) - 1
        /\ Tail(readyQueue) \in Seq(TheLoad)
    BY <1>1, <1>2, EmptySeq, LenProperties, HeadTailProperties DEF LoaderTypeOK
  <2>2. loadStarted
    BY <1>2, <2>1 DEF JobsHeld
  <2>3. Len(decodeQueue) = 0 /\ Len(readyQueue) = 1 /\ current = NoJob
    BY <1>2, <2>1, <2>2 DEF JobsHeld
  <2>4. decodeQueue = <<>> /\ Tail(readyQueue) = <<>>
    <3>1. \A q \in Seq(TheLoad) : Len(q) = 0 => q = <<>>
      BY EmptySeq
    <3>2. decodeQueue \in Seq(TheLoad)
      BY <1>2 DEF LoaderTypeOK
    <3>3. Len(Tail(readyQueue)) = 0
      BY <2>1, <2>3
    <3> QED BY <2>1, <2>3, <3>1, <3>2, <3>3
  <2>5. ReadOf(r)
    BY <1>2, <2>1 DEF Results
  <2> QED BY <1>1, <2>1, <2>2, <2>3, <2>4, <2>5
<1>4. r.values \in Values /\ store \in Values /\ saved \in Values
  BY <1>3 DEF IInv, MembersTyped, TheLoad, Job
<1> HIDE DEF r
<1>5. store' \in Values
  BY <1>1, <1>4 DEF Merged, Values
<1>6. path = "app" /\ loadPath \in Path
  BY <1>1, <1>3 DEF IInv, LifeOK
<1>7. /\ \A k \in Key : k \in dirty => store'[k] = saved[k] /\ saved[k] # None
      /\ atLaunch[loadPath] # Torn =>
           \A k \in Key : k \notin dirty => store'[k] = atLaunch[loadPath][k]
  BY <1>1, <1>2, <1>3 DEF IInv, DirtyKeys, Merged, ReadOf
<1>8. Keeps(store')
  BY <1>7 DEF Keeps
<1>9. TheLoad' = TheLoad /\ ASave' = ASave
  BY <1>1, KindsStay
<1>10. NewJob("save", store') \in ASave
  BY <1>5, <1>6, <1>8 DEF NewJob, ASave, Job, Path
<1>11. /\ decodeQueue' \in Seq(ASave)
       /\ dirty # {} => /\ decodeQueue' # <<>>
                        /\ decodeQueue'[Len(decodeQueue')].values = store'
  <2>1. CASE dirty = {}
    BY <1>1, <1>3, <2>1, EmptySeq
  <2>2. CASE dirty # {}
    <3>1. decodeQueue' = <<NewJob("save", store')>>
      BY <1>1, <1>3, <2>2
    <3> QED BY <1>10, <3>1 DEF NewJob
  <2> QED BY <2>1, <2>2
<1>12. LoaderTypeOK(ASave)' /\ LoaderInv(Job)'
  <2>1. LoaderTypeOK(ASave)'
    BY <1>1, <1>3, <1>9, <1>11, EmptySeq DEF IInv, LoaderInv, LoaderTypeOK
  <2>2. LoaderTypeOK(Job)'
    BY <2>1, <1>9, SeqMonotonic, Kinds DEF LoaderTypeOK
  <2>3. LoaderControl'
    BY <1>1, <1>3 DEF IInv, LoaderInv, LoaderTypeOK, LoaderControl
  <2> QED BY <2>1, <2>2, <2>3 DEF LoaderInv
<1>13. MembersTyped' /\ FlagsTyped'
  BY <1>1, <1>5 DEF IInv, MembersTyped, FlagsTyped
<1>14. LifeOK' /\ DirtyKeys' /\ BeforeLoad'
  BY <1>1, <1>3, <1>7 DEF IInv, LifeOK, DirtyKeys, BeforeLoad
<1>15. AfterLoad'
  <2>1. UNCHANGED <<atLaunch, loadPath>> /\ disk' = atLaunch
    BY <1>1, <1>2
  <2>2. Keeps(store)'
    BY <1>8, <2>1 DEF Keeps
  <2>3. loadPath = "app" /\ disk["app"] # Torn => Keeps(disk["app"])'
    BY <1>1, <1>2 DEF Keeps
  <2>4. dirty # {} => (Newest = store)'
    BY <1>1, <1>11 DEF Newest
  <2> QED BY <1>1, <1>3, <1>6, <1>7, <1>12, <2>1, <2>2, <2>3, <2>4 DEF AfterLoad
<1> QED BY <1>12, <1>13, <1>14, <1>15 DEF IInv

(* Commands that start the load, or wait for it: nothing is in the loader  *)
(* when it is started.                                                     *)
LEMMA LoadStarts ==
  ASSUME IInv, StartLoad, LoadNeeded, MayCommand
  PROVE  /\ LoaderInv(Job)' /\ LoaderTypeOK(TheLoad)'
         /\ JobsHeld' = 1 /\ Results'
<1>1. ~loaded /\ ~loadStarted /\ LoaderTypeOK(TheLoad) /\ JobsHeld <= 0
  BY DEF LoadNeeded, IInv, BeforeLoad
<1>2. decodeQueue = <<>> /\ readyQueue = <<>> /\ current = NoJob
  <2>1. Len(decodeQueue) = 0 /\ Len(readyQueue) = 0 /\ current = NoJob
    BY <1>1, LenProperties DEF JobsHeld, LoaderTypeOK
  <2>2. \A q \in Seq(TheLoad) : Len(q) = 0 => q = <<>>
    BY EmptySeq
  <2> QED BY <1>1, <2>1, <2>2 DEF LoaderTypeOK
<1> DEFINE j == NewJob("load", Empty)
<1>3. j \in Job /\ j.kind = "load" /\ j.path = path /\ loadPath' = path
  BY EmptyIsStore DEF IInv, MembersTyped, NewJob, Job, StartLoad
<1> HIDE DEF j
<1>4. Enqueue(j)
  BY DEF StartLoad, j
<1>5. LoaderInv(Job)'
  BY <1>3, <1>4, EnqueueInv DEF IInv
<1>6. decodeQueue' = <<j>> /\ readyQueue' = <<>> /\ current' = NoJob
  BY <1>2, <1>4 DEF Enqueue
<1>7. j \in TheLoad'
  BY <1>3 DEF TheLoad
<1>8. LoaderTypeOK(TheLoad)'
  BY <1>5, <1>6, <1>7, EmptySeq DEF LoaderInv, LoaderTypeOK
<1> QED BY <1>5, <1>6, <1>8 DEF JobsHeld, Results

LEMMA ReadInv ==
  ASSUME IInv, NEW k \in Key, ReadValue(k)
  PROVE  IInv'
<1>1. /\ ~loaded /\ MayCommand /\ reads' = Append(reads, k)
      /\ UNCHANGED <<disk, truncated, loaded, store, dirty, telling, path, started, over,
                     launches, saves, saved, atLaunch, saveFailed, loadDropped>>
  BY DEF ReadValue, diskVars, lifeVars
<1>2. reads' \in Seq(Key) /\ reads' # <<>>
  BY <1>1, AppendProperties DEF IInv, MembersTyped
<1>3. CASE LoadNeeded
  <2>1. StartLoad /\ loadStarted' = TRUE /\ loadPath' = path
    BY <1>3 DEF ReadValue, StartLoad
  <2>2. /\ LoaderInv(Job)' /\ LoaderTypeOK(TheLoad)'
        /\ JobsHeld' = 1 /\ Results'
    BY <1>1, <1>3, <2>1, LoadStarts
  <2>3. MembersTyped' /\ FlagsTyped' /\ LifeOK'
    BY <1>1, <1>2, <2>1 DEF IInv, MembersTyped, FlagsTyped, LifeOK, StartLoad, Enqueue
  <2>4. DirtyKeys' /\ BeforeLoad' /\ AfterLoad'
    BY <1>1, <2>1, <2>2 DEF IInv, DirtyKeys, BeforeLoad, AfterLoad
  <2> QED BY <2>2, <2>3, <2>4 DEF IInv
<1>4. CASE ~LoadNeeded
  <2>1. UNCHANGED dataVars /\ UNCHANGED loaderVars
    BY <1>1, <1>4 DEF ReadValue, dataVars
  <2>2. LoaderInv(Job)' /\ UNCHANGED <<decodeQueue, current, readyQueue>>
    BY <2>1, LoaderUnchangedInv DEF IInv, loaderVars
  <2>3. MembersTyped' /\ FlagsTyped'
    BY <1>1, <1>2, <2>1 DEF IInv, MembersTyped, FlagsTyped, dataVars
  <2> QED BY <1>1, <1>2, <2>1, <2>2, <2>3, QuietInv DEF IInv, LifeOK
<1> QED BY <1>3, <1>4

LEMMA SaveValueInv ==
  ASSUME IInv, NEW k \in Key, SaveValue(k)
  PROVE  IInv'
<1> DEFINE v == saves + 1
<1>1. /\ MayCommand /\ saves < MaxSaves * launches
      /\ saves' = v /\ saved' = [saved EXCEPT ![k] = v] /\ store' = [store EXCEPT ![k] = v]
      /\ dirty' = dirty \cup {k}
      /\ UNCHANGED <<disk, truncated, loaded, reads, telling, path, started, over, launches,
                     atLaunch, saveFailed, loadDropped>>
  BY DEF SaveValue, diskVars, lifeVars
<1>2. v \in Value /\ v # None /\ v \in Nat /\ v <= MaxSaves * launches
  BY <1>1, SaveNumber, Bounds DEF IInv, MembersTyped, LifeOK
<1>3. store \in Values /\ saved \in Values
  BY DEF IInv, MembersTyped
<1> HIDE DEF v
<1>4. /\ store' \in Values /\ saved' \in Values
      /\ store'[k] = v /\ saved'[k] = v
      /\ \A l \in Key \ {k} : store'[l] = store[l] /\ saved'[l] = saved[l]
  BY <1>1, <1>2, <1>3 DEF Values
<1>5. DirtyKeys'
  BY <1>1, <1>2, <1>4 DEF IInv, DirtyKeys
<1>6. loadPath' \in Path \cup {None} => MembersTyped'
  BY <1>1, <1>2, <1>4 DEF IInv, MembersTyped
<1>7. CASE LoadNeeded
  <2>1. StartLoad /\ loadStarted' = TRUE /\ loadPath' = path
    BY <1>7 DEF SaveValue, StartLoad
  <2>2. /\ LoaderInv(Job)' /\ LoaderTypeOK(TheLoad)'
        /\ JobsHeld' = 1 /\ Results'
    BY <1>1, <1>7, <2>1, LoadStarts
  <2>3. UNCHANGED current
    BY <2>1 DEF StartLoad, Enqueue
  <2>4. MembersTyped' /\ FlagsTyped' /\ LifeOK'
    BY <1>1, <1>2, <1>6, <2>1, <2>3 DEF IInv, MembersTyped, FlagsTyped, LifeOK
  <2>5. BeforeLoad' /\ AfterLoad'
    BY <1>1, <1>4, <1>7, <2>1, <2>2 DEF IInv, BeforeLoad, AfterLoad, LoadNeeded
  <2> QED BY <1>5, <2>2, <2>4, <2>5 DEF IInv
<1>8. CASE ~LoadNeeded /\ ~loaded
  <2>1. UNCHANGED <<loaderVars, loadStarted, loadPath>>
    BY <1>8 DEF SaveValue, MayPersist
  <2>2. LoaderInv(Job)'
    BY <2>1, LoaderUnchangedInv DEF IInv
  <2>3. LoaderTypeOK(TheLoad)' /\ JobsHeld' = JobsHeld /\ Results'
    BY <1>1, <1>8, <2>1, KindsStay
    DEF IInv, BeforeLoad, LoaderTypeOK, loaderVars, JobsHeld, Results, ReadOf
  <2>4. MembersTyped' /\ FlagsTyped' /\ LifeOK'
    BY <1>1, <1>2, <1>6, <2>1 DEF IInv, MembersTyped, FlagsTyped, LifeOK, loaderVars
  <2>5. BeforeLoad' /\ AfterLoad'
    BY <1>1, <1>4, <1>8, <2>1, <2>3 DEF IInv, BeforeLoad, AfterLoad
  <2> QED BY <1>5, <2>2, <2>4, <2>5 DEF IInv
<1>9. CASE loaded
  <2>1. Enqueue(NewJob("save", store')) /\ UNCHANGED <<loadStarted, loadPath>>
    BY <1>9 DEF SaveValue, MayPersist, LoadNeeded
  <2>2. /\ LoaderTypeOK(ASave) /\ path = "app" /\ Keeps(store) /\ loadStarted
        /\ loadPath = "app" /\ disk["app"] # Torn => Keeps(disk["app"])
        /\ atLaunch[loadPath] # Torn =>
             \A l \in Key : l \notin dirty => store[l] = atLaunch[loadPath][l]
    BY <1>9 DEF IInv, AfterLoad
  <2>3. Keeps(store')
    BY <1>2, <1>4, <2>2 DEF Keeps
  <2>4. PICK A : A = ASave
    OBVIOUS
  <2>5. ASave' = A
    BY <1>1, <2>1, <2>4, KindsStay
  <2> DEFINE j == NewJob("save", store')
  <2>6. j \in A /\ j \in Job /\ j.values = store'
    BY <1>4, <2>2, <2>3, <2>4 DEF NewJob, ASave, Job, Path
  <2> HIDE DEF j
  <2>7. LoaderInv(A)' /\ LoaderInv(Job)'
    BY <2>1, <2>2, <2>4, <2>6, EnqueueInv DEF IInv, LoaderInv, j
  <2>8. Newest' = store'
    <3>1. decodeQueue \in Seq(Job) /\ decodeQueue' = Append(decodeQueue, j)
      BY <2>1 DEF IInv, LoaderInv, LoaderTypeOK, Enqueue, j
    <3>2. decodeQueue' # <<>> /\ decodeQueue'[Len(decodeQueue')] = j
      BY <2>6, <3>1, AppendProperties, EmptySeq
    <3> QED BY <2>6, <3>2 DEF Newest
  <2>9. MembersTyped' /\ FlagsTyped' /\ LifeOK'
    <3>1. UNCHANGED current
      BY <2>1 DEF Enqueue
    <3> QED BY <1>1, <1>2, <1>6, <2>1, <3>1 DEF IInv, MembersTyped, FlagsTyped, LifeOK
  <2>10. BeforeLoad'
    BY <1>1, <1>9 DEF BeforeLoad
  <2>11. AfterLoad'
    <3>1. UNCHANGED <<loaded, path, loadStarted, disk, atLaunch, loadPath>>
      BY <1>1, <2>1
    <3>2. LoaderTypeOK(ASave)'
      BY <2>5, <2>7 DEF LoaderInv, LoaderTypeOK
    <3>3. Keeps(store)' /\ (loadPath = "app" /\ disk["app"] # Torn => Keeps(disk["app"]))'
      BY <2>2, <2>3, <3>1 DEF Keeps
    <3> QED BY <1>1, <1>4, <2>2, <2>8, <3>1, <3>2, <3>3 DEF AfterLoad
  <2> QED BY <1>5, <2>7, <2>9, <2>10, <2>11 DEF IInv
<1> QED BY <1>7, <1>8, <1>9 DEF LoadNeeded

-----------------------------------------------------------------------------
(* A process begins.                                                       *)

LEMMA InitInv == Init => IInv
<1> SUFFICES ASSUME Init PROVE IInv
  OBVIOUS
<1>1. LoaderInv(Job) /\ LoaderTypeOK(TheLoad)
  BY LoaderInitInv DEF Init, LoaderInv
<1>2. InitialDisk \in [Path -> Values \cup {Torn}]
  BY DEF InitialDisk, Values, Value
<1>3. MembersTyped
  BY <1>2, EmptySeq, EmptyIsStore DEF Init, MembersTyped, Path
<1>6. FlagsTyped
  BY DEF Init, FlagsTyped
<1>7. LifeOK
  BY Bounds DEF Init, LifeOK
<1>4. JobsHeld = 0 /\ Results
  BY EmptySeq DEF Init, LoaderInit, JobsHeld, Results
<1>5. DirtyKeys /\ BeforeLoad /\ AfterLoad
  BY <1>1, <1>4 DEF Init, DirtyKeys, BeforeLoad, AfterLoad, Empty
<1> QED BY <1>1, <1>3, <1>5, <1>6, <1>7 DEF IInv

LEMMA MoreLaunches ==
  ASSUME NEW a \in Nat, NEW b \in Nat, NEW c \in Nat, NEW d \in Nat,
         b <= c, d <= a * b
  PROVE  d <= a * c
<1>1. PICK e \in Nat : c = b + e
  <2>1. c - b \in Nat /\ c = b + (c - b)
    OBVIOUS
  <2> QED BY <2>1
<1>2. a * c = a * b + a * e
  BY <1>1
<1>3. a * b \in Nat /\ a * e \in Nat
  OBVIOUS
<1> QED BY <1>2, <1>3

LEMMA FreshInv ==
  ASSUME IInv, Fresh(disk), UNCHANGED <<disk, saves>>,
         launches' \in 1..MaxLaunches, launches <= launches', over' \in BOOLEAN
  PROVE  IInv'
<1>1. LoaderInv(Job)' /\ LoaderTypeOK(TheLoad)'
  BY EmptySeq DEF Fresh, LoaderInv, LoaderTypeOK, LoaderControl
<1>2. MembersTyped'
  BY EmptySeq, EmptyIsStore DEF IInv, Fresh, MembersTyped, Path
<1>7. FlagsTyped'
  BY DEF Fresh, FlagsTyped
<1>3. saves <= MaxSaves * launches'
  <2>1. /\ MaxSaves \in Nat /\ launches \in Nat /\ saves \in Nat
        /\ saves <= MaxSaves * launches
    BY Bounds DEF IInv, MembersTyped, LifeOK
  <2>2. PICK m \in Nat : m = launches'
    BY Bounds
  <2>3. launches <= m
    BY <2>1, <2>2
  <2> QED BY <2>1, <2>2, <2>3, MoreLaunches
<1>4. LifeOK'
  BY <1>3 DEF Fresh, LifeOK
<1>5. JobsHeld' = 0 /\ Results'
  BY EmptySeq DEF Fresh, JobsHeld, Results
<1>6. DirtyKeys' /\ BeforeLoad' /\ AfterLoad'
  BY <1>1, <1>5 DEF Fresh, DirtyKeys, BeforeLoad, AfterLoad, Empty
<1> QED BY <1>1, <1>2, <1>4, <1>6, <1>7 DEF IInv

LEMMA NextInv == IInv /\ [Next]_vars => IInv'
<1> SUFFICES ASSUME IInv, [Next]_vars PROVE IInv'
  OBVIOUS
<1>1. CASE StartRegl
  BY <1>1, StartReglInv
<1>2. ASSUME NEW k \in Key, SaveValue(k) PROVE IInv'
  BY <1>2, SaveValueInv
<1>3. ASSUME NEW k \in Key, ReadValue(k) PROVE IInv'
  BY <1>3, ReadInv
<1>4. CASE DrainOne
  <2>1. Head(readyQueue).kind \in {"load", "save"}
    BY <1>4 DEF DrainOne, FinishLoad
  <2> QED BY <1>4, <2>1, DrainLoadInv, DrainSaveInv
<1>5. CASE AnswerNext
  BY <1>5, AnswerInv
<1>6. CASE ShutdownBegin \/ ShutdownEnd
  BY <1>6, ShutdownInv
<1>7. CASE Crash
  BY <1>7, FreshInv DEF Crash, IInv, LifeOK, MembersTyped
<1>8. CASE Launch
  <2>1. launches' \in 1..MaxLaunches /\ launches <= launches'
    BY <1>8, Bounds DEF Launch, IInv, LifeOK
  <2> QED BY <1>8, <2>1, FreshInv DEF Launch
<1>9. CASE Notify
  BY <1>9, NotifyMoves
<1>10. CASE LoadKvJson
  BY <1>10, LoadInv
<1>11. CASE SaveOpen \/ SaveWrite
  BY <1>11, SaveInv
<1>12. CASE WorkerStep \/ Wakeup
  BY <1>12, WorkerMoves
<1>13. CASE UNCHANGED vars
  <2>1. UNCHANGED dataVars /\ UNCHANGED loaderVars
    BY <1>13 DEF vars, dataVars, diskVars, storeVars, lifeVars, histVars
  <2>2. LoaderInv(Job)' /\ UNCHANGED <<decodeQueue, current, readyQueue>>
    BY <2>1, LoaderUnchangedInv DEF IInv, loaderVars
  <2>3. UNCHANGED <<started, over, reads, telling, loadDropped>>
    BY <1>13 DEF vars, storeVars, lifeVars, histVars
  <2>4. MembersTyped' /\ FlagsTyped'
    BY <2>1, <2>3 DEF IInv, MembersTyped, FlagsTyped, dataVars
  <2> QED BY <2>1, <2>2, <2>3, <2>4, QuietInv DEF IInv, LifeOK
<1> QED BY <1>1, <1>2, <1>3, <1>4, <1>5, <1>6, <1>7, <1>8, <1>9, <1>10, <1>11, <1>12, <1>13
    DEF Next

LEMMA Invariance == Spec => []IInv
  BY InitInv, NextInv, PTL DEF Spec

-----------------------------------------------------------------------------
(* The theorems.                                                           *)

(* The store, the queued jobs and the files are maps from the keys to      *)
(* values at every instant, for every number of saves and launches; a torn *)
(* file is never taken for one (load_kv_json, save_kv_json).               *)
THEOREM TypeCorrect == Spec => []TypeOK
<1>1. IInv => TypeOK
  BY DEF IInv, LoaderInv, TypeOK
<1> QED BY <1>1, Invariance, PTL

(* A read is answered with the last value saved in this launch, or else    *)
(* with what the file held at launch, however saves, reads, the load,      *)
(* shutdowns and crashes interleave (the KvLoad case of                    *)
(* drain_ready_assets).                                                    *)
THEOREM StoreStaysMerge == Spec => []StoreIsMerge
<1>1. IInv => StoreIsMerge
  <2> SUFFICES ASSUME IInv, NEW k \in Key
               PROVE  /\ saved[k] # None => store[k] = saved[k]
                      /\ saved[k] = None /\ loaded /\ atLaunch[loadPath] # Torn
                           => store[k] = atLaunch[loadPath][k]
    BY DEF StoreIsMerge
  <2> QED BY DEF IInv, DirtyKeys, AfterLoad
<1> QED BY <1>1, Invariance, PTL

(* Once the load is merged a shutdown loses no save, and no save ever      *)
(* drops the keys it does not name: the worker drains its queue before it  *)
(* exits, and the last snapshot is written last (AssetLoader::run,         *)
(* save_kv_json).                                                          *)
THEOREM ShutdownKeepsSaves == Spec => []SavesSurviveShutdown
<1>1. IInv => OtherKeysSurvive
  BY DEF IInv, AfterLoad, Keeps, OtherKeysSurvive
<1>2. ASSUME IInv, worker = "none", loaded, ~saveFailed, NEW k \in Key, saved[k] # None
      PROVE  disk[path] # Torn /\ disk[path][k] = saved[k]
  <2>1. k \in dirty /\ store[k] = saved[k]
    BY <1>2 DEF IInv, DirtyKeys
  <2>2. decodeQueue = <<>> /\ current = NoJob
    BY <1>2 DEF IInv, LoaderInv, LoaderControl
  <2>3. path = "app" /\ disk["app"] = store
    BY <1>2, <2>1, <2>2 DEF IInv, AfterLoad, Newest
  <2>4. store # Torn
    BY <1>2, DataAssumption DEF IInv, MembersTyped
  <2> QED BY <2>1, <2>3, <2>4
<1>3. IInv => SavesSurviveShutdown
  BY <1>1, <1>2 DEF SavesSurviveShutdown
<1> QED BY <1>3, Invariance, PTL
=============================================================================
