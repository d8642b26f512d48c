------------------------------- MODULE Assets -------------------------------
(***************************************************************************)
(* The life of textures, fonts, sounds and files: the engine's             *)
(* dispatch_backend_command hands the loads to the AssetLoader,            *)
(* drain_ready_assets finishes at most MaxPerDrain decoded assets per      *)
(* frame (upload, register, tell the application), the Unload commands     *)
(* sweep the loader and the registries, and shutdown drops everything.     *)
(*                                                                         *)
(* The event that ends the finishing of an asset calls the application,    *)
(* which may dispatch further commands from the callback (caml_bridge/     *)
(* declgl_caml.cc:174-181), before the rest of the drained assets.         *)
(*                                                                         *)
(* Pixels, glyphs and samples are data nothing here tells apart; decoding  *)
(* and uploading may each fail.  A texture or a sound is the id of the     *)
(* load it came from (what plays a sound is AudioEngine's subject).        *)
(* TextureRegistry has one key space for the names of textures and for     *)
(* the image urls under which font atlases are registered.                 *)
(***************************************************************************)
EXTENDS AssetLoader

CONSTANTS
  Texture,      \* names of textures
  Font,         \* names of fonts
  Image,        \* image urls of fonts
  Sound,        \* urls of sounds
  File,         \* paths of files
  ImagesOf,     \* [font -> the image urls it is loaded with]
  None,         \* absent from a map
  MaxPerDrain,  \* max_assets_per_frame
  MaxLoads      \* bound: Load commands

(* No texture is given the url of a font's image as its name.              *)
ASSUME KeyAssumption == Texture \cap Image = {}
ASSUME NoneAssumption == None \notin Image \cup Nat
ASSUME LoadAssumption == MaxPerDrain \in Nat /\ MaxLoads \in Nat
ASSUME FontAssumption == ImagesOf \in [Font -> SUBSET Image]

VARIABLES
  textures,   \* TextureRegistry::map_: key -> id of the load, or None
  fonts,      \* FontRegistry::map_: font -> its texture_name, or None
  loading,    \* FontRegistry::pending_
  sounds,     \* AudioEngine::by_url_: url -> id of the load, or None
  glReady,    \* init_window_and_gl has run: registries and frame loop exist
  batch,      \* drain_ready_assets' local vector: drained, not finished
  outcome     \* history, per load id

assetVars == <<textures, fonts, loading, sounds, glReady, batch, outcome>>
vars      == <<loaderVars, assetVars>>

Key     == Texture \cup Image
Kind    == {"texture", "font", "audio", "file"}
Name    == Texture \cup Font \cup Sound \cup File
\* A load is "revoked" when an unload of its name missed it, and "dropped" when it
\* was cancelled, lost in a shutdown, or refused for want of an audio device.
Waiting == {"pending", "revoked"}
Outcome == Waiting \cup {"unused", "loaded", "failed", "dropped"}

(* A DecodeJob, and the ReadyAsset it becomes.                             *)
Job == [id : 1..MaxLoads, kind : Kind, name : Name,
        image : Key \cup Sound \cup File, state : {"todo", "decoded", "error"}]

ASSUME JobAssumption == NoJob \notin Job

Ids(q)   == {q[i].id : i \in DOMAIN q}
InFlight == batch \o InLoader
Issued   == {id \in 1..MaxLoads : outcome[id] # "unused"}
Fresh(id) == id \notin Issued /\ (id = 1 \/ id - 1 \in Issued)

Init ==
  /\ LoaderInit
  /\ textures = [k \in Key |-> None]
  /\ fonts = [f \in Font |-> None]
  /\ loading = {}
  /\ sounds = [u \in Sound |-> None]
  /\ glReady = FALSE
  /\ batch = <<>>
  /\ outcome = [id \in 1..MaxLoads |-> "unused"]

(* The GL thread is between two frames.                                    *)
BetweenFrames == caller = "idle" /\ batch = <<>>

-----------------------------------------------------------------------------
StartGl ==
  /\ BetweenFrames
  /\ ~glReady
  /\ glReady' = TRUE
  /\ UNCHANGED <<loaderVars, textures, fonts, loading, sounds, batch, outcome>>

Load(id, kind, name, image) ==
  /\ Fresh(id)
  /\ Enqueue([id |-> id, kind |-> kind, name |-> name, image |-> image,
              state |-> "todo"])
  /\ outcome' = [outcome EXCEPT ![id] = "pending"]
  /\ UNCHANGED <<textures, fonts, sounds, glReady, batch>>

LoadTexture(id, t) ==
  /\ Load(id, "texture", t, t)
  /\ UNCHANGED loading

(* A load that precedes StartRegl leaves no pending mark: no registry yet. *)
LoadFont(id, f, i) ==
  /\ Load(id, "font", f, i)
  /\ loading' = IF glReady THEN loading \cup {f} ELSE loading

(* Without an audio device the load is answered at once, as failed.        *)
LoadAudio(id, u) ==
  /\ UNCHANGED loading
  /\ \/ Load(id, "audio", u, u)
     \/ /\ caller = "idle" /\ Fresh(id)
        /\ outcome' = [outcome EXCEPT ![id] = "dropped"]
        /\ UNCHANGED <<loaderVars, textures, fonts, sounds, glReady, batch>>

LoadFile(id, p) ==
  /\ Load(id, "file", p, p)
  /\ UNCHANGED loading

(* cancel_pending; the history notes what was swept and what was missed.   *)
Cancel(kind, name) ==
  LET Of(q)  == {q[i].id : i \in {j \in DOMAIN q : q[j].kind = kind /\ q[j].name = name}}
      before == Of(InLoader)
  IN  /\ IF worker = "none" THEN UNCHANGED loaderVars ELSE CancelPending(kind, name)
      /\ outcome' = [id \in 1..MaxLoads |->
                       IF id \in before \ Of(InLoader') THEN "dropped"
                       ELSE IF id \in before \cup Of(batch) THEN "revoked" ELSE outcome[id]]

UnloadTexture(t) ==
  /\ caller = "idle"
  /\ Cancel("texture", t)
  /\ textures' = [textures EXCEPT ![t] = None]
  /\ UNCHANGED <<fonts, loading, sounds, glReady, batch>>

UnloadAudio(u) ==
  /\ caller = "idle"
  /\ Cancel("audio", u)
  /\ sounds' = [sounds EXCEPT ![u] = None]
  /\ UNCHANGED <<textures, fonts, loading, glReady, batch>>

(* Mutation: the atlas goes with the font, whoever else draws from it.     *)
AtlasFreedWith_Always(f) == fonts[f] # None

AtlasFreedWith(f) ==
  /\ fonts[f] # None
  /\ \A g \in Font \ {f} : fonts[g] # fonts[f]

UnloadFont(f) ==
  /\ caller = "idle"
  /\ Cancel("font", f)
  /\ fonts' = [fonts EXCEPT ![f] = None]
  /\ loading' = loading \ {f}
  /\ textures' = IF AtlasFreedWith(f) THEN [textures EXCEPT ![fonts[f]] = None]
                                      ELSE textures
  /\ UNCHANGED <<sounds, glReady, batch>>

-----------------------------------------------------------------------------
(* drain_ready_assets: what becomes of one drained asset.                  *)

NoLongerLoading(f) == loading \ {f}

(* Decode, upload or reading failed: *_loadfail, file_load_failed.         *)
FinishFailed(r) ==
  /\ outcome' = [outcome EXCEPT ![r.id] = "failed"]
  /\ loading' = IF r.kind = "font" THEN NoLongerLoading(r.name) ELSE loading
  /\ r.kind = "file" => r.state = "error"
  /\ UNCHANGED <<textures, fonts, sounds>>

FinishTexture(r) ==
  /\ r.kind = "texture"
  /\ r.state = "decoded"
  /\ textures' = [textures EXCEPT ![r.name] = r.id]
  /\ outcome' = [outcome EXCEPT ![r.id] = "loaded"]
  /\ UNCHANGED <<fonts, loading, sounds>>

FinishAudio(r) ==
  /\ r.kind = "audio"
  /\ r.state = "decoded"
  /\ sounds' = [sounds EXCEPT ![r.name] = r.id]
  /\ outcome' = [outcome EXCEPT ![r.id] = "loaded"]
  /\ UNCHANGED <<textures, fonts, loading>>

FinishFile(r) ==
  /\ r.kind = "file"
  /\ r.state = "decoded"
  /\ outcome' = [outcome EXCEPT ![r.id] = "loaded"]
  /\ UNCHANGED <<textures, fonts, loading, sounds>>

(* Mutation: the atlas is looked up under the font's own name.             *)
AtlasOf_Name(r) == r.name

AtlasOf(r) == r.image

FinishFont(r) ==
  /\ r.kind = "font"
  /\ r.state = "decoded"
  /\ textures' = [textures EXCEPT ![r.image] = r.id]
  /\ fonts' = [fonts EXCEPT ![r.name] = AtlasOf(r)]
  /\ loading' = loading \ {r.name}
  /\ outcome' = [outcome EXCEPT ![r.id] = "loaded"]
  /\ UNCHANGED sounds

Finish(r) ==
  FinishFailed(r) \/ FinishTexture(r) \/ FinishFont(r) \/ FinishAudio(r) \/ FinishFile(r)

(* A frame takes what is ready, up to its cap, and finishes the first.     *)
DrainBegin ==
  /\ BetweenFrames
  /\ glReady
  /\ readyQueue # <<>>
  /\ DrainReady(MaxPerDrain)
  /\ LET taken == TakeReady(DrainCount(MaxPerDrain)) IN
       /\ Finish(Head(taken))
       /\ batch' = Tail(taken)
  /\ UNCHANGED glReady

(* The application's callback has returned: the next one.                  *)
FinishNext ==
  /\ caller = "idle"
  /\ batch # <<>>
  /\ Finish(Head(batch))
  /\ batch' = Tail(batch)
  /\ UNCHANGED <<loaderVars, glReady>>

-----------------------------------------------------------------------------
(* shutdown: stop and join the worker, then drop the sounds with the audio *)
(* engine, and the registries.                                             *)
Teardown ==
  /\ textures' = [k \in Key |-> None]
  /\ fonts' = [f \in Font |-> None]
  /\ loading' = {}
  /\ sounds' = [u \in Sound |-> None]
  /\ glReady' = FALSE
  /\ outcome' = [id \in 1..MaxLoads |->
                   IF outcome[id] \in Waiting THEN "dropped" ELSE outcome[id]]
  /\ UNCHANGED batch

ShutdownBegin ==
  /\ BetweenFrames
  /\ glReady
  /\ IF worker = "none" THEN Teardown /\ UNCHANGED loaderVars
                        ELSE StopBegin /\ UNCHANGED assetVars

ShutdownEnd == Join /\ Teardown

Notify == (NotifyOne \/ NotifyAll) /\ UNCHANGED assetVars

-----------------------------------------------------------------------------
(* process: the decode or the reading of the file succeeds or fails.       *)
Decode ==
  /\ \E s \in {"decoded", "error"} : WorkerFinish([current EXCEPT !.state = s])
  /\ UNCHANGED assetVars

WorkerStep == (WorkerExit \/ WorkerTake \/ WorkerSleep) /\ UNCHANGED assetVars

Wakeup == SpuriousWakeup /\ UNCHANGED assetVars

GlNext ==
  \/ StartGl
  \/ \E id \in 1..MaxLoads, t \in Texture : LoadTexture(id, t)
  \/ \E id \in 1..MaxLoads, f \in Font : \E i \in ImagesOf[f] : LoadFont(id, f, i)
  \/ \E id \in 1..MaxLoads, u \in Sound : LoadAudio(id, u)
  \/ \E id \in 1..MaxLoads, p \in File : LoadFile(id, p)
  \/ \E t \in Texture : UnloadTexture(t)
  \/ \E f \in Font : UnloadFont(f)
  \/ \E u \in Sound : UnloadAudio(u)
  \/ DrainBegin
  \/ FinishNext
  \/ ShutdownBegin
  \/ ShutdownEnd
  \/ Notify

WorkerNext == WorkerStep \/ Decode \/ Wakeup

Next == GlNext \/ WorkerNext

Spec == Init /\ [][Next]_vars

(* The worker runs when it is awake, the main thread continues what it has *)
(* begun, and the frame loop drains every frame however many commands the  *)
(* application sends (it is not paused).                                   *)
Fairness ==
  /\ WF_vars(WorkerStep \/ Decode)
  /\ WF_vars(Notify \/ FinishNext \/ ShutdownEnd)
  /\ SF_vars(DrainBegin)

FairSpec == Spec /\ Fairness

-----------------------------------------------------------------------------
MembersTyped ==
  /\ textures \in [Key -> 1..MaxLoads \cup {None}]
  /\ fonts \in [Font -> Image \cup {None}]
  /\ loading \in SUBSET Font
  /\ sounds \in [Sound -> 1..MaxLoads \cup {None}]
  /\ glReady \in BOOLEAN
  /\ batch \in Seq(Job)
  /\ outcome \in [1..MaxLoads -> Outcome]

(* The queues hold jobs, the registries map the names they are made for,   *)
(* and no load waits for a worker that is gone.                            *)
TypeOK ==
  /\ LoaderTypeOK(Job)
  /\ MembersTyped
  /\ worker = "none" /\ caller = "idle" => \A id \in 1..MaxLoads : outcome[id] \notin Waiting

(* What the text box relies on.  A registered font always has its atlas:   *)
(* fonts that share an image do not take it away from each other, in       *)
(* whatever order they load, fail, reload and unload.  A pending mark (the *)
(* text box stays silent instead of warning) has a load behind it that     *)
(* will remove it.                                                         *)
FontsAreBacked ==
  /\ \A f \in Font : fonts[f] # None => textures[fonts[f]] # None
  /\ \A f \in loading : \E i \in DOMAIN InFlight :
       InFlight[i].kind = "font" /\ InFlight[i].name = f

(* The texture drawn under a name, and the sound started under a url, come *)
(* from the latest load of that name that succeeded: a slow old load never *)
(* replaces a newer one.                                                   *)
LatestLoadWins ==
  \A i \in DOMAIN InFlight :
    LET j == InFlight[i]
    IN /\ j.kind = "texture" /\ textures[j.name] # None => j.id > textures[j.name]
       /\ j.kind = "audio" /\ sounds[j.name] # None => j.id > sounds[j.name]

Named == ({"texture"} \X Texture) \cup ({"font"} \X Font) \cup
         ({"audio"} \X Sound) \cup ({"file"} \X File)

Pipe == INSTANCE JobPipe WITH
  Id <- 1..MaxLoads,
  What <- Named,
  pending <- [i \in DOMAIN InLoader |->
                [id |-> InLoader[i].id, what |-> <<InLoader[i].kind, InLoader[i].name>>]],
  done <- {id \in Issued : outcome[id] \in {"loaded", "failed"}} \cup Ids(batch)

(* Queues, worker and the drained batch together are a cancellable FIFO    *)
(* pipe: each job comes out once, in order, unless it is cancelled.        *)
PipeSpec == Pipe!Spec

(* Every load is answered, cancelled or dropped by a shutdown once the     *)
(* frame loop runs: none waits for ever, no wakeup of the worker is lost.  *)
LoadsSettle == \A id \in 1..MaxLoads : []<>(glReady => outcome[id] \notin Waiting)

(* shutdown returns: the worker sees stop_ and leaves.                     *)
ShutdownReturns == []<>(caller \notin {"notifyAll", "join"})

-----------------------------------------------------------------------------
(* Claims of the comments that the code does not keep.                     *)

(* engine.cc:594-597: after UnloadTexture no texture_loaded ships.         *)
UnloadIsFinal ==
  [][\A id \in 1..MaxLoads : outcome[id] = "revoked" => outcome'[id] # "loaded"]_vars

(* asset_loader.h:44-46: on shutdown the queued jobs are dropped.          *)
NoDecodeAfterStop == [][stop => ~(worker = "running" /\ worker' = "working")]_vars
=============================================================================
