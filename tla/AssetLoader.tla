----------------------------- MODULE AssetLoader -----------------------------
(***************************************************************************)
(* src/resources/asset_loader.{h,cc}: one worker thread between two queues *)
(* under one mutex, with a condition variable the worker sleeps on.  The   *)
(* GL thread enqueues jobs, sweeps both queues when an asset is unloaded,  *)
(* polls the finished jobs, and stops and joins the worker at shutdown.    *)
(*                                                                         *)
(* Every critical section of mu_ is one step; the notify that follows an   *)
(* enqueue or a stop OUTSIDE the mutex is a step of its own ("caller").    *)
(* A job is a record with at least an id, a kind and a name; what process  *)
(* does with it is the parameter r of WorkerFinish.                        *)
(***************************************************************************)
EXTENDS Naturals, Sequences, Subsequences

CONSTANT NoJob   \* the worker's job variable is empty

VARIABLES
  decodeQueue,  \* decode_queue_
  current,      \* the job process is running on, or NoJob
  readyQueue,   \* ready_queue_
  stop,         \* stop_
  worker,       \* "none" (no loader_), "running", "asleep", "working", "exited"
  caller        \* GL thread: "idle", "notify", "notifyAll" or "join"

loaderVars == <<decodeQueue, current, readyQueue, stop, worker, caller>>

LoaderInit ==
  /\ decodeQueue = <<>>
  /\ current = NoJob
  /\ readyQueue = <<>>
  /\ stop = FALSE
  /\ worker = "none"
  /\ caller = "idle"

-----------------------------------------------------------------------------
(* GL thread.                                                              *)

(* enqueue, after the "if (!loader_) make_unique" of its every caller; the *)
(* constructor starts the worker.                                          *)
Enqueue(job) ==
  /\ caller = "idle"
  /\ decodeQueue' = Append(decodeQueue, job)
  /\ worker' = IF worker = "none" THEN "running" ELSE worker
  /\ caller' = "notify"
  /\ UNCHANGED <<current, readyQueue, stop>>

(* Mutation: nobody is told.                                               *)
Woken_Never == worker

Woken == IF worker = "asleep" THEN "running" ELSE worker

NotifyOne ==
  /\ caller = "notify"
  /\ caller' = "idle"
  /\ worker' = Woken
  /\ UNCHANGED <<decodeQueue, current, readyQueue, stop>>

Without(q, kind, name) ==
  Pick(q, {i \in DOMAIN q : ~(q[i].kind = kind /\ q[i].name = name)})

SweepReady(kind, name) == Without(readyQueue, kind, name)

(* cancel_pending: both queues, but not the job the worker is running.     *)
CancelPending(kind, name) ==
  /\ caller = "idle"
  /\ decodeQueue' = Without(decodeQueue, kind, name)
  /\ readyQueue' = SweepReady(kind, name)
  /\ UNCHANGED <<current, stop, worker, caller>>

(* Mutation: the newest finished jobs are taken first.                     *)
TakeReady_Newest(n) ==
  [i \in 1..n |-> readyQueue[Len(readyQueue) + 1 - i]]

TakeReady(n) == SubSeq(readyQueue, 1, n)

(* drain_ready: at most max items, all of them when max is 0.              *)
DrainCount(max) ==
  IF max = 0 \/ Len(readyQueue) <= max THEN Len(readyQueue) ELSE max

DrainReady(max) ==
  /\ caller = "idle"
  /\ readyQueue' = SubSeq(readyQueue, DrainCount(max) + 1, Len(readyQueue))
  /\ UNCHANGED <<decodeQueue, current, stop, worker, caller>>

StopBegin ==
  /\ caller = "idle"
  /\ worker # "none"
  /\ stop' = TRUE
  /\ caller' = "notifyAll"
  /\ UNCHANGED <<decodeQueue, current, readyQueue, worker>>

NotifyAll ==
  /\ caller = "notifyAll"
  /\ caller' = "join"
  /\ worker' = Woken
  /\ UNCHANGED <<decodeQueue, current, readyQueue, stop>>

(* join returns; loader_.reset() drops what was never drained.             *)
Join ==
  /\ caller = "join"
  /\ worker = "exited"
  /\ decodeQueue' = <<>>
  /\ readyQueue' = <<>>
  /\ stop' = FALSE
  /\ worker' = "none"
  /\ caller' = "idle"
  /\ UNCHANGED current

-----------------------------------------------------------------------------
(* Worker thread.                                                          *)

(* Mutation: stop_ wins over the jobs that are still queued.               *)
MayExit_AtOnce == stop

(* It leaves only once the queue is empty.                                 *)
MayExit == stop /\ decodeQueue = <<>>

(* The predicate of cv_.wait and what follows it, under the mutex.         *)
WorkerExit ==
  /\ worker = "running"
  /\ MayExit
  /\ worker' = "exited"
  /\ UNCHANGED <<decodeQueue, current, readyQueue, stop, caller>>

WorkerTake ==
  /\ worker = "running"
  /\ ~MayExit
  /\ decodeQueue # <<>>
  /\ current' = Head(decodeQueue)
  /\ decodeQueue' = Tail(decodeQueue)
  /\ worker' = "working"
  /\ UNCHANGED <<readyQueue, stop, caller>>

WorkerSleep ==
  /\ worker = "running"
  /\ ~stop
  /\ decodeQueue = <<>>
  /\ worker' = "asleep"
  /\ UNCHANGED <<decodeQueue, current, readyQueue, stop, caller>>

SpuriousWakeup ==
  /\ worker = "asleep"
  /\ worker' = "running"
  /\ UNCHANGED <<decodeQueue, current, readyQueue, stop, caller>>

(* process has turned the job into the ReadyAsset r.                       *)
WorkerFinish(r) ==
  /\ worker = "working"
  /\ readyQueue' = Append(readyQueue, r)
  /\ current' = NoJob
  /\ worker' = "running"
  /\ UNCHANGED <<decodeQueue, stop, caller>>

-----------------------------------------------------------------------------
(* The jobs on their way through the loader, oldest first.                 *)
Running   == IF current = NoJob THEN <<>> ELSE <<current>>
InLoader  == readyQueue \o Running \o decodeQueue

LoaderTypeOK(Job) ==
  /\ decodeQueue \in Seq(Job)
  /\ current \in Job \cup {NoJob}
  /\ readyQueue \in Seq(Job)
  /\ stop \in BOOLEAN
  /\ worker \in {"none", "running", "asleep", "working", "exited"}
  /\ caller \in {"idle", "notify", "notifyAll", "join"}
=============================================================================
