------------------------------- MODULE KvStore -------------------------------
(***************************************************************************)
(* The key/value store behind SaveValue and ReadValue: engine.cc keeps it  *)
(* in memory, has the AssetLoader's worker read it from disk once, lets    *)
(* the values saved meanwhile win, and rewrites the whole file after every *)
(* save.  Reads wait for the load.  The process may be killed at any       *)
(* instant, also between the truncation and the write of the file; the     *)
(* disk survives, and the next launch starts from it.                      *)
(*                                                                         *)
(* A value is the number of the SaveValue that wrote it; Old and Foreign   *)
(* stand for what the stores of this application and of the default name   *)
(* held before.  The engine drains one finished job per step: only one     *)
(* load job ever exists, and a finished save needs no more work.           *)
(***************************************************************************)
EXTENDS AssetLoader

CONSTANTS
  Key,
  None,         \* a key without a value
  Old, Foreign, \* the values on disk before the first launch
  Torn,         \* a file that was truncated and not written
  DiskFails,    \* whether opening or writing the file may fail
  Reenter,      \* whether the host may start the run loop again
  MaxSaves,     \* bound: SaveValue commands per launch
  MaxReads,     \* bound: reads waiting
  MaxLaunches   \* bound: launches of the process

ASSUME FlagAssumption == DiskFails \in BOOLEAN /\ Reenter \in BOOLEAN
ASSUME CountAssumption == MaxSaves \in Nat /\ MaxReads \in Nat /\ MaxLaunches \in Nat \ {0}

VARIABLES
  disk,         \* path -> contents of the file, or Torn
  truncated,    \* the worker has opened the file of its save for writing
  path,         \* kv_store_path(): "declgl" until StartRegl names the app
  started,      \* between init_window_and_gl and shutdown
  over,         \* the process has exited or was killed
  loadStarted,  \* kv_load_started_
  loaded,       \* kv_loaded_
  store,        \* kv_store_
  dirty,        \* kv_dirty_keys_
  reads,        \* pending_kv_reads_
  telling,      \* answering the waiting reads: "no", "first", "more"
  saves,        \* how many SaveValue commands this launch has seen
  launches,     \* how many times the process was started
  saved,        \* history: key -> last value saved in this launch, or None
  atLaunch,     \* history: the disk when the process was started
  loadPath,     \* history: the file the load job reads
  saveFailed,   \* history: a save of this launch ended in an error
  loadDropped   \* history: a shutdown dropped the load job or its result

diskVars  == <<disk, truncated>>
storeVars == <<loadStarted, loaded, store, dirty, reads, telling>>
lifeVars  == <<path, started, over, launches>>
histVars  == <<saves, saved, atLaunch, loadPath, saveFailed, loadDropped>>
vars      == <<loaderVars, diskVars, storeVars, lifeVars, histVars>>

Path   == {"declgl", "app"}
Value  == 1..(MaxSaves * MaxLaunches) \cup {Old, Foreign}
Values == [Key -> Value \cup {None}]
Empty  == [k \in Key |-> None]

(* A DecodeJob of kind KvLoad or KvSave, and the ReadyAsset it becomes.    *)
Job == [kind : {"load", "save"}, path : Path, values : Values, error : BOOLEAN]

(* An absent key, a torn file and no job are not data.                     *)
ASSUME DataAssumption == None \notin Value /\ Torn \notin Values /\ NoJob \notin Job

InitialDisk == [p \in Path |-> [k \in Key |-> IF p = "app" THEN Old ELSE Foreign]]

(* A process that has just been started on a disk d.                       *)
Fresh(d) ==
  /\ decodeQueue' = <<>> /\ current' = NoJob /\ readyQueue' = <<>>
  /\ stop' = FALSE /\ worker' = "none" /\ caller' = "idle"
  /\ truncated' = FALSE
  /\ path' = "declgl"
  /\ started' = FALSE
  /\ loadStarted' = FALSE /\ loaded' = FALSE
  /\ store' = Empty /\ dirty' = {} /\ reads' = <<>> /\ telling' = "no"
  /\ saved' = Empty
  /\ atLaunch' = d
  /\ loadPath' = None
  /\ saveFailed' = FALSE
  /\ loadDropped' = FALSE

Init ==
  /\ LoaderInit
  /\ disk = InitialDisk
  /\ truncated = FALSE
  /\ path = "declgl"
  /\ started = FALSE
  /\ over = FALSE
  /\ loadStarted = FALSE
  /\ loaded = FALSE
  /\ store = Empty
  /\ dirty = {}
  /\ reads = <<>>
  /\ telling = "no"
  /\ saves = 0
  /\ launches = 1
  /\ saved = Empty
  /\ atLaunch = InitialDisk
  /\ loadPath = None
  /\ saveFailed = FALSE
  /\ loadDropped = FALSE

-----------------------------------------------------------------------------
(* GL thread: commands.  They may come from the callback of an answer.     *)
MayCommand == ~over /\ caller = "idle" /\ telling # "first"

StartRegl ==
  /\ MayCommand
  /\ ~started
  /\ started' = TRUE
  /\ path' = "app"
  /\ UNCHANGED <<loaderVars, diskVars, storeVars, over, launches, histVars>>

NewJob(kind, values) ==
  [kind |-> kind, path |-> path, values |-> values, error |-> FALSE]

(* ensure_kv_load_started, when it has something to do.                    *)
LoadNeeded == ~loadStarted /\ ~loaded

StartLoad ==
  /\ Enqueue(NewJob("load", Empty))
  /\ loadStarted' = TRUE
  /\ loadPath' = path

MayPersist == loaded

(* Every save rewrites the file with a snapshot of the whole store, but    *)
(* only once the old contents have been merged in.                         *)
SaveValue(k) ==
  /\ MayCommand
  /\ saves < MaxSaves * launches
  /\ saves' = saves + 1
  /\ saved' = [saved EXCEPT ![k] = saves + 1]
  /\ store' = [store EXCEPT ![k] = saves + 1]
  /\ dirty' = dirty \cup {k}
  /\ IF LoadNeeded THEN StartLoad
     ELSE /\ IF MayPersist THEN Enqueue(NewJob("save", store'))
                       ELSE UNCHANGED loaderVars
          /\ UNCHANGED <<loadStarted, loadPath>>
  /\ UNCHANGED <<diskVars, loaded, reads, telling, lifeVars, atLaunch,
                 saveFailed, loadDropped>>

(* A read of a loaded store is answered at once; the others wait.          *)
ReadValue(k) ==
  /\ MayCommand
  /\ Len(reads) < MaxReads
  /\ ~loaded
  /\ reads' = Append(reads, k)
  /\ IF LoadNeeded THEN StartLoad ELSE UNCHANGED <<loaderVars, loadStarted, loadPath>>
  /\ UNCHANGED <<diskVars, loaded, store, dirty, telling, lifeVars, saves,
                 saved, atLaunch, saveFailed, loadDropped>>

-----------------------------------------------------------------------------
(* GL thread: drain_ready_assets, in the frame loop.                       *)

(* Mutation: the disk wins over what was saved while it was being read.    *)
Merged_DiskWins(r) ==
  [k \in Key |-> IF r.values[k] # None THEN r.values[k] ELSE store[k]]

Merged(r) ==
  [k \in Key |-> IF k \notin dirty /\ r.values[k] # None THEN r.values[k] ELSE store[k]]

(* The load: an unreadable file counts as an empty one.  Were values saved *)
(* meanwhile, the merged store is persisted before the reads are answered. *)
FinishLoad(r) ==
  /\ r.kind = "load"
  /\ store' = Merged(r)
  /\ loaded' = TRUE
  /\ telling' = IF reads = <<>> THEN "no" ELSE "first"

(* The queue when the drain has popped its first asset and FinishLoad has  *)
(* pushed a save behind it.                                                *)
DrainOne ==
  /\ ~over
  /\ started
  /\ caller = "idle"
  /\ telling = "no"
  /\ readyQueue # <<>>
  /\ LET r == Head(readyQueue) IN
       \/ /\ FinishLoad(r)
          /\ readyQueue' = Tail(readyQueue)
          /\ IF dirty = {} THEN UNCHANGED <<decodeQueue, caller>>
             ELSE /\ decodeQueue' = Append(decodeQueue, NewJob("save", store'))
                  /\ caller' = "notify"
          /\ UNCHANGED <<current, stop, worker>>
       \/ /\ r.kind = "save"
          /\ DrainReady(1)
          /\ UNCHANGED <<store, loaded, telling>>
  /\ UNCHANGED <<diskVars, loadStarted, dirty, reads, lifeVars, histVars>>

AnswerNext ==
  /\ telling # "no"
  /\ caller = "idle"
  /\ reads' = Tail(reads)
  /\ telling' = IF Len(reads) = 1 THEN "no" ELSE "more"
  /\ UNCHANGED <<loaderVars, diskVars, loadStarted, loaded, store, dirty,
                 lifeVars, histVars>>

-----------------------------------------------------------------------------
(* The end of the run loop: shutdown stops and joins the worker, but keeps *)
(* the kv_ members; main then returns, or the host re-enters the loop.     *)
LoadInLoader == \E i \in DOMAIN InLoader : InLoader[i].kind = "load"

AfterShutdown ==
  /\ started' = FALSE
  /\ over' \in IF Reenter /\ started THEN BOOLEAN ELSE {TRUE}
  /\ loadDropped' = (loadDropped \/ LoadInLoader)
  /\ UNCHANGED <<diskVars, storeVars, path, launches, saves, saved, atLaunch,
                 loadPath, saveFailed>>

ShutdownBegin ==
  /\ ~over
  /\ caller = "idle"
  /\ telling = "no"
  /\ IF worker = "none" THEN AfterShutdown /\ UNCHANGED loaderVars
     ELSE StopBegin /\ UNCHANGED <<diskVars, storeVars, lifeVars, histVars>>

ShutdownEnd == Join /\ AfterShutdown

(* The process is killed, with its queues and whatever it was writing.     *)
Crash ==
  /\ ~over
  /\ over' = TRUE
  /\ Fresh(disk)
  /\ UNCHANGED <<disk, saves, launches>>

Launch ==
  /\ over
  /\ launches < MaxLaunches
  /\ launches' = launches + 1
  /\ over' = FALSE
  /\ Fresh(disk)
  /\ UNCHANGED <<disk, saves>>

Notify ==
  /\ NotifyOne \/ NotifyAll
  /\ UNCHANGED <<diskVars, storeVars, lifeVars, histVars>>

-----------------------------------------------------------------------------
(* Worker: process.                                                        *)

(* Mutation: what was read of a torn file is passed on.                    *)
Parsed_Unchecked(job) == [job EXCEPT !.values = disk[job.path]]

(* load_kv_json: a missing file is an empty store, a torn one an error.    *)
Parsed(job) ==
  IF disk[job.path] = Torn THEN [job EXCEPT !.error = TRUE]
                           ELSE [job EXCEPT !.values = disk[job.path]]

LoadKvJson ==
  /\ current # NoJob
  /\ current.kind = "load"
  /\ WorkerFinish(Parsed(current))
  /\ UNCHANGED <<diskVars, storeVars, lifeVars, histVars>>

(* save_kv_json: open with trunc, then write; each may fail.               *)
SaveOpen ==
  /\ current # NoJob
  /\ current.kind = "save"
  /\ ~truncated
  /\ \/ /\ disk' = [disk EXCEPT ![current.path] = Torn]
        /\ truncated' = TRUE
        /\ UNCHANGED <<loaderVars, saveFailed>>
     \/ /\ DiskFails
        /\ WorkerFinish([current EXCEPT !.error = TRUE])
        /\ saveFailed' = TRUE
        /\ UNCHANGED diskVars
  /\ UNCHANGED <<storeVars, lifeVars, saves, saved, atLaunch, loadPath, loadDropped>>

SaveWrite ==
  /\ truncated
  /\ truncated' = FALSE
  /\ \/ /\ disk' = [disk EXCEPT ![current.path] = current.values]
        /\ WorkerFinish(current)
        /\ UNCHANGED saveFailed
     \/ /\ DiskFails
        /\ WorkerFinish([current EXCEPT !.error = TRUE])
        /\ saveFailed' = TRUE
        /\ UNCHANGED disk
  /\ UNCHANGED <<storeVars, lifeVars, saves, saved, atLaunch, loadPath, loadDropped>>

WorkerStep ==
  /\ WorkerExit \/ WorkerTake \/ WorkerSleep
  /\ UNCHANGED <<diskVars, storeVars, lifeVars, histVars>>

Wakeup == SpuriousWakeup /\ UNCHANGED <<diskVars, storeVars, lifeVars, histVars>>

-----------------------------------------------------------------------------
Next ==
  \/ StartRegl
  \/ \E k \in Key : SaveValue(k)
  \/ \E k \in Key : ReadValue(k)
  \/ DrainOne
  \/ AnswerNext
  \/ ShutdownBegin
  \/ ShutdownEnd
  \/ Crash
  \/ Launch
  \/ Notify
  \/ LoadKvJson
  \/ SaveOpen
  \/ SaveWrite
  \/ WorkerStep
  \/ Wakeup

Spec == Init /\ [][Next]_vars

(* Both threads run and the frame loop drains every frame; nothing is      *)
(* assumed of the application, of the user or of what kills the process.   *)
Fairness ==
  /\ WF_vars(WorkerStep)
  /\ WF_vars(LoadKvJson)
  /\ WF_vars(SaveOpen)
  /\ WF_vars(SaveWrite)
  /\ WF_vars(Notify)
  /\ SF_vars(DrainOne)
  /\ WF_vars(AnswerNext)
  /\ WF_vars(ShutdownEnd)

FairSpec == Spec /\ Fairness

-----------------------------------------------------------------------------
(* What is in memory, in the queues and on disk are stores of values; a    *)
(* torn file is never taken for one.                                       *)
MembersTyped ==
  /\ disk \in [Path -> Values \cup {Torn}] /\ atLaunch \in [Path -> Values \cup {Torn}]
  /\ path \in Path /\ loadPath \in Path \cup {None}
  /\ store \in Values /\ saved \in Values
  /\ dirty \in SUBSET Key
  /\ reads \in Seq(Key)
  /\ telling \in {"no", "first", "more"}
  /\ saves \in Nat /\ launches \in Nat

FlagsTyped ==
  /\ truncated \in BOOLEAN /\ started \in BOOLEAN /\ over \in BOOLEAN
  /\ loadStarted \in BOOLEAN /\ loaded \in BOOLEAN
  /\ saveFailed \in BOOLEAN /\ loadDropped \in BOOLEAN

TypeOK == LoaderTypeOK(Job) /\ MembersTyped /\ FlagsTyped

(* What a read is answered with: the last value saved in this launch, or   *)
(* else what the file held at launch, although saves, the load and reads   *)
(* cross each other.                                                       *)
StoreIsMerge ==
  \A k \in Key :
    /\ saved[k] # None => store[k] = saved[k]
    /\ saved[k] = None /\ loaded /\ atLaunch[loadPath] # Torn
         => store[k] = atLaunch[loadPath][k]

\* A save never drops the other keys of a file that was readable: what was on
\* disk at launch is still there or was overwritten, or the file is being rewritten.
OtherKeysSurvive ==
  loaded /\ loadPath = "app" /\ disk["app"] # Torn /\ atLaunch["app"] # Torn
    => \A k \in Key : disk["app"][k] = None => atLaunch["app"][k] = None

(* Once the old contents have been merged, a shutdown loses no save: the   *)
(* worker finishes every queued snapshot, and the last one is written last.*)
(* Neither then nor before does a save drop the keys it does not name.     *)
SavesSurviveShutdown ==
  /\ OtherKeysSurvive
  /\ worker = "none" /\ loaded /\ ~saveFailed
       => \A k \in Key : saved[k] # None =>
            disk[path] # Torn /\ disk[path][k] = saved[k]

(* A waiting read is answered once the loop runs, unless a shutdown took   *)
(* the load with it (or the process ends, which empties reads).            *)
ReadsAreAnswered ==
  (reads # <<>> /\ started) ~> (reads = <<>> \/ loadDropped \/ over)

-----------------------------------------------------------------------------
(* Claims of the comments and docs that the code does not keep.            *)

(* docs/ElmRuntimeDesign.md:44-46: what the application saves is supplied  *)
(* to the next launch - checked after an orderly end of the process.       *)
NextLaunchSeesSaves ==
  [][started /\ over' /\ loadPath = "app" /\ saved' = saved
       => \A k \in Key : saved[k] # None => disk'["app"] # Torn /\ disk'["app"][k] = saved[k]]_vars

(* engine.h:149-151: the app name keeps the stores of different            *)
(* applications apart.                                                     *)
StoresStayApart == disk["app"] # Torn => \A k \in Key : disk["app"][k] # Foreign

(* declgl_caml.cc:174-181: a host may re-enter the loop - where reads are  *)
(* then answered as in the first one.                                      *)
ReadsAnsweredAfterReentry == (reads # <<>> /\ started) ~> (reads = <<>> \/ over)
=============================================================================
