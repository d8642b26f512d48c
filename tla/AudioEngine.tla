----------------------------- MODULE AudioEngine -----------------------------
(***************************************************************************)
(* The PCM mixer of src/audio/audio_engine.{h,cc}: the GL thread registers *)
(* decoded buffers and stages playback commands, the SDL audio thread      *)
(* drains them into voices and mixes the voices.  The two threads share    *)
(* one mutex-protected command vector (cmd_queue_) and one unprotected     *)
(* counter (frames_produced_); voices and commands hold RAW pointers into  *)
(* buffers the GL thread owns, so buffer lifetime is the heart of it.      *)
(*                                                                         *)
(* Abstractions.  A buffer is its address (Ptr) and its url.  One frame is *)
(* the unit of time: a StartSound's start_time - now_ms is its "delay" in  *)
(* frames (0 for a start in the past).  Volume, playback rate, timeline    *)
(* points and the source cursor are data nothing here tells apart: a       *)
(* non-looping voice may reach its end in any chunk in which it sounds.    *)
(* Slot i of "buffers" is buffer_id i - 1.                                 *)
(***************************************************************************)
EXTENDS Integers, Sequences

CONSTANTS
  Ptr,        \* addresses the allocator can hand out for a Buffer
  NULL,       \* nullptr
  Url,        \* audio urls
  NoUrl,      \* the "url" of memory that is not allocated
  Group,      \* node_group_id, the key of voices_
  Silent,     \* "no voice in this group"
  Controls,   \* the kinds of control action the application sends
  Loops,      \* the loop settings it sends
  MaxDelay,   \* bound: how far ahead of now a sound may be scheduled
  MaxChunk,   \* bound: frames per mixed chunk
  MaxFrames,  \* bound: frames_produced_
  MaxBatch,   \* bound: actions in one AudioCommandBatch
  MaxQueue    \* bound: commands waiting in cmd_queue_

ASSUME NullAssumption   == NULL \notin Ptr
ASSUME NoUrlAssumption  == NoUrl \notin Url
ASSUME InputAssumption  == /\ Controls \subseteq {"stop", "set", "volumeAt", "loop"}
                           /\ Loops \subseteq BOOLEAN
ASSUME BoundAssumption  == /\ MaxDelay \in Nat
                           /\ MaxChunk \in Nat
                           /\ MaxFrames \in Nat
                           /\ MaxBatch \in Nat
                           /\ MaxQueue \in Nat

VARIABLES
  heap,       \* Ptr -> url of the Buffer allocated there, or NoUrl
  buffers,    \* buffers_: the slots, NULL when vacated
  byUrl,      \* by_url_: url -> slot, 0 when absent
  gl,         \* GL thread: "idle", or "staging" inside exec_audio_cmd
  staged,     \* the local vector of exec_audio_cmd
  cmdQueue,   \* cmd_queue_, guarded by cmd_mu_
  audio,      \* audio thread: "idle", "apply" (drain_commands), "mix"
  local,      \* drain_commands' local vector: the commands not yet applied
  doomed,     \* Buffers owned by local's already applied ReleaseBuffer cmds
  voices,     \* voices_
  frames,     \* frames_produced_
  stream,     \* stream_ # nullptr
  sink,       \* event_sink_ is set
  readyShipped, \* ready_event_shipped_
  readyEvents   \* history: audio_context_ready events shipped

glVars    == <<gl, staged>>
tableVars == <<heap, buffers, byUrl>>
audioVars == <<audio, local, doomed, voices, frames>>
readyVars == <<stream, sink, readyShipped, readyEvents>>
vars      == <<tableVars, glVars, cmdQueue, audioVars, readyVars>>

-----------------------------------------------------------------------------
ControlKind == {"stop", "set", "volumeAt", "loop"}

(* The Cmds; "set" stands for SetVolume and SetPlaybackRate.               *)
StartCmd   == [kind : {"start"}, group : Group, buf : Ptr,
               delay : Nat, loop : BOOLEAN, frame : Nat]
ControlCmd == [kind : ControlKind, group : Group, buf : {NULL},
               delay : {0}, loop : BOOLEAN, frame : Nat]
ReleaseCmd == [kind : {"release"}, group : {Silent}, buf : Ptr,
               delay : {0}, loop : {FALSE}, frame : {0}]
Cmd == StartCmd \cup ControlCmd \cup ReleaseCmd

(* A Voice.  due and first are history: the frame at which StartSound said *)
(* the sound begins, and the first frame in which it was mixed (-1: none). *)
Voice == [buf : Ptr, anchor : Nat, loop : BOOLEAN, due : Nat,
          first : Nat \cup {-1}]

ASSUME SilentAssumption == /\ Silent \notin Voice
                           /\ Silent \notin Group

Live        == {p \in Ptr : heap[p] # NoUrl}
InSlots     == {p \in Ptr : \E i \in DOMAIN buffers : buffers[i] = p}
Starts(q)   == {q[i].buf : i \in {j \in DOMAIN q : q[j].kind = "start"}}
Releases(q) == {q[i].buf : i \in {j \in DOMAIN q : q[j].kind = "release"}}
Playing     == {g \in Group : voices[g] # Silent}

Max2(a, b) == IF a >= b THEN a ELSE b

-----------------------------------------------------------------------------
Init ==
  /\ heap = [p \in Ptr |-> NoUrl]
  /\ buffers = <<>>
  /\ byUrl = [u \in Url |-> 0]
  /\ gl = "idle"
  /\ staged = <<>>
  /\ cmdQueue = <<>>
  /\ audio = "idle"
  /\ local = <<>>
  /\ doomed = {}
  /\ voices = [g \in Group |-> Silent]
  /\ frames = 0
  /\ stream = FALSE
  /\ sink = FALSE
  /\ readyShipped = FALSE
  /\ readyEvents = 0

-----------------------------------------------------------------------------
(* GL thread.                                                              *)

(* Mutation: the flag that makes the event a one-shot is not set.          *)
ShipReady_NotOnce ==
  /\ UNCHANGED readyShipped
  /\ readyEvents' = readyEvents + 1

ShipReady ==
  /\ readyShipped' = TRUE
  /\ readyEvents' = readyEvents + 1

SetEventSink ==
  /\ gl = "idle"
  /\ sink' = TRUE
  /\ IF stream /\ ~readyShipped THEN ShipReady
                                ELSE UNCHANGED <<readyShipped, readyEvents>>
  /\ UNCHANGED <<tableVars, glVars, cmdQueue, audioVars, stream>>

(* ensure_open: a no-op on an open stream; SDL may refuse the device.      *)
EnsureOpen ==
  \/ /\ stream
     /\ UNCHANGED readyVars
  \/ /\ ~stream
     /\ stream' = TRUE
     /\ IF sink /\ ~readyShipped THEN ShipReady
                                 ELSE UNCHANGED <<readyShipped, readyEvents>>
     /\ UNCHANGED sink
  \/ /\ ~stream
     /\ UNCHANGED readyVars

(* The eager open of a LoadAudio.                                          *)
OpenDevice ==
  /\ gl = "idle"
  /\ EnsureOpen
  /\ UNCHANGED <<tableVars, glVars, cmdQueue, audioVars>>

(* The slot register_buffer takes: the first vacated one, else a new one.  *)
IsFreeSlot(id) ==
  /\ \A j \in 1..(id - 1) : buffers[j] # NULL
  /\ id \in DOMAIN buffers => buffers[id] = NULL

(* register_buffer: a drained decode becomes a Buffer in a slot.           *)
RegisterBuffer(u, p) ==
  /\ gl = "idle"
  /\ p \notin Live
  /\ \E id \in 1..(Len(buffers) + 1) :
       /\ IsFreeSlot(id)
       /\ buffers' = IF id \in DOMAIN buffers THEN [buffers EXCEPT ![id] = p]
                                              ELSE Append(buffers, p)
       /\ byUrl' = [byUrl EXCEPT ![u] = id]
  /\ heap' = [heap EXCEPT ![p] = u]
  /\ UNCHANGED <<glVars, cmdQueue, audioVars, readyVars>>

ReleaseOf(p) == [kind |-> "release", group |-> Silent, buf |-> p,
                 delay |-> 0, loop |-> FALSE, frame |-> 0]

(* Mutation: by_url_.erase is forgotten.                                   *)
UrlsWithout_Kept(u) == byUrl

UrlsWithout(u) == [byUrl EXCEPT ![u] = 0]

(* unregister_buffer: vacate the slot, send the Buffer to the audio thread.*)
UnregisterBuffer(u) ==
  LET id == byUrl[u] IN
  /\ gl = "idle"
  /\ id # 0
  /\ byUrl' = UrlsWithout(u)
  /\ buffers' = [buffers EXCEPT ![id] = NULL]
  /\ Len(cmdQueue) < MaxQueue
  /\ cmdQueue' = IF id \in DOMAIN buffers /\ buffers[id] # NULL
                 THEN Append(cmdQueue, ReleaseOf(buffers[id]))
                 ELSE cmdQueue
  /\ UNCHANGED <<heap, glVars, audioVars, readyVars>>

(* exec_audio_cmd: lazy open, then one Stage step per action of the batch. *)
ExecBegin ==
  /\ gl = "idle"
  /\ gl' = "staging"
  /\ EnsureOpen
  /\ UNCHANGED <<tableVars, staged, cmdQueue, audioVars>>

Stage(c) ==
  /\ gl = "staging"
  /\ Len(staged) < MaxBatch
  /\ Len(cmdQueue) + Len(staged) < MaxQueue
  /\ staged' = Append(staged, c)
  /\ UNCHANGED <<tableVars, gl, cmdQueue, audioVars, readyVars>>

(* A start_sound naming a missing or vacated slot is logged and skipped;   *)
(* otherwise the command borrows the slot's raw pointer.                   *)
StageStart(g, id, delay, loop) ==
  /\ id \in DOMAIN buffers
  /\ buffers[id] # NULL
  /\ Stage([kind |-> "start", group |-> g, buf |-> buffers[id],
            delay |-> delay, loop |-> loop, frame |-> 0])

StageControl(kind, g, loop) ==
  Stage([kind |-> kind, group |-> g, buf |-> NULL,
         delay |-> 0, loop |-> loop, frame |-> 0])

(* Mutation: the batch is stamped with the frame after the current one.    *)
StampFrame_Next == frames + 1

(* The read of frames_produced_ races with the audio thread: it sees       *)
(* whatever chunk boundary has been reached.                               *)
StampFrame == frames

(* The whole batch is stamped and appended under cmd_mu_.                  *)
ExecCommit ==
  /\ gl = "staging"
  /\ gl' = "idle"
  /\ staged' = <<>>
  /\ cmdQueue' = cmdQueue \o
                   [i \in 1..Len(staged) |-> [staged[i] EXCEPT !.frame = StampFrame]]
  /\ UNCHANGED <<tableVars, audioVars, readyVars>>

(* ~AudioEngine: SDL_DestroyAudioStream waits for a running callback, then *)
(* the members (queue, voices, slots) go, and with them every Buffer; the  *)
(* Engine starts over with a fresh AudioEngine.                            *)
Destroy ==
  /\ gl = "idle"
  /\ audio = "idle"
  /\ heap' = [p \in Ptr |-> NoUrl]
  /\ buffers' = <<>>
  /\ byUrl' = [u \in Url |-> 0]
  /\ cmdQueue' = <<>>
  /\ voices' = [g \in Group |-> Silent]
  /\ frames' = 0
  /\ stream' = FALSE
  /\ sink' = FALSE
  /\ readyShipped' = FALSE
  /\ readyEvents' = 0
  /\ UNCHANGED <<glVars, audio, local, doomed>>

-----------------------------------------------------------------------------
(* Audio thread.                                                           *)

(* audio_callback enters drain_commands: swap the queue out.               *)
CallbackBegin ==
  /\ stream
  /\ audio = "idle"
  /\ audio' = "apply"
  /\ local' = cmdQueue
  /\ cmdQueue' = <<>>
  /\ UNCHANGED <<tableVars, glVars, doomed, voices, frames, readyVars>>

(* Mutation: the start is computed one frame early.                        *)
NewVoice_OffByOne(c) ==
  [buf |-> c.buf, anchor |-> c.frame + c.delay - 1, loop |-> c.loop,
   due |-> c.frame + c.delay, first |-> -1]

(* A future start is encoded by an anchor ahead of frames_produced_.       *)
NewVoice(c) ==
  [buf |-> c.buf, anchor |-> c.frame + c.delay, loop |-> c.loop,
   due |-> c.frame + c.delay, first |-> -1]

ApplyStart(c) ==
  /\ c.kind = "start"
  /\ voices' = [voices EXCEPT ![c.group] = NewVoice(c)]
  /\ UNCHANGED doomed

ApplyStop(c) ==
  /\ c.kind = "stop"
  /\ voices' = [voices EXCEPT ![c.group] = Silent]
  /\ UNCHANGED doomed

ApplySet(c) ==
  /\ c.kind = "set"
  /\ UNCHANGED <<voices, doomed>>

(* set_volume_at re-anchors the voice at the command's own frame.          *)
ApplyVolumeAt(c) ==
  /\ c.kind = "volumeAt"
  /\ voices' = IF voices[c.group] = Silent THEN voices
               ELSE [voices EXCEPT ![c.group].anchor = c.frame]
  /\ UNCHANGED doomed

ApplyLoop(c) ==
  /\ c.kind = "loop"
  /\ voices' = IF voices[c.group] = Silent THEN voices
               ELSE [voices EXCEPT ![c.group].loop = c.loop]
  /\ UNCHANGED doomed

(* Mutation: the release forgets the voices on the buffer.                 *)
VoicesWithout_Kept(p) == voices

VoicesWithout(p) ==
  [g \in Group |-> IF voices[g] # Silent /\ voices[g].buf = p
                   THEN Silent ELSE voices[g]]

(* Tear down the voices on the buffer; the command keeps the memory until  *)
(* local is destroyed.                                                     *)
ApplyRelease(c) ==
  /\ c.kind = "release"
  /\ voices' = VoicesWithout(c.buf)
  /\ doomed' = doomed \cup {c.buf}

ApplyCmd ==
  /\ audio = "apply"
  /\ local # <<>>
  /\ local' = Tail(local)
  /\ \/ ApplyStart(Head(local))
     \/ ApplyStop(Head(local))
     \/ ApplySet(Head(local))
     \/ ApplyVolumeAt(Head(local))
     \/ ApplyLoop(Head(local))
     \/ ApplyRelease(Head(local))
  /\ UNCHANGED <<tableVars, glVars, cmdQueue, audio, frames, readyVars>>

(* Mutation: the released Buffers are dropped without being freed.         *)
HeapAfterDrain_Leaks == heap

HeapAfterDrain == [p \in Ptr |-> IF p \in doomed THEN NoUrl ELSE heap[p]]

(* End of drain_commands: ~local frees the released Buffers.               *)
DrainEnd ==
  /\ audio = "apply"
  /\ local = <<>>
  /\ audio' = "mix"
  /\ heap' = HeapAfterDrain
  /\ doomed' = {}
  /\ UNCHANGED <<buffers, byUrl, glVars, cmdQueue, local, voices, frames,
                 readyVars>>

(* The voices that sound in the next n frames: the others are pre-start.   *)
Audible(n) == {g \in Playing : voices[g].anchor < frames + n}

Heard(v) == [v EXCEPT !.first = IF @ = -1 THEN Max2(frames, v.anchor) ELSE @]

(* One chunk of n frames; the non-looping voices in "ended" run out.       *)
MixChunk(n, ended) ==
  /\ audio = "mix"
  /\ frames + n <= MaxFrames
  /\ ended \subseteq {g \in Audible(n) : ~voices[g].loop}
  /\ voices' = [g \in Group |-> IF g \in ended THEN Silent
                                ELSE IF g \in Audible(n) THEN Heard(voices[g])
                                ELSE voices[g]]
  /\ frames' = frames + n
  /\ UNCHANGED <<tableVars, glVars, cmdQueue, audio, local, doomed, readyVars>>

(* Nothing (or less than one frame) remains to be filled.                  *)
CallbackEnd ==
  /\ audio = "mix"
  /\ audio' = "idle"
  /\ UNCHANGED <<tableVars, glVars, cmdQueue, local, doomed, voices, frames,
                 readyVars>>

-----------------------------------------------------------------------------
GlNext ==
  \/ SetEventSink
  \/ OpenDevice
  \/ \E u \in Url, p \in Ptr : RegisterBuffer(u, p)
  \/ \E u \in Url : UnregisterBuffer(u)
  \/ ExecBegin
  \/ \E g \in Group, id \in DOMAIN buffers, d \in 0..MaxDelay, l \in Loops :
       StageStart(g, id, d, l)
  \/ \E g \in Group, k \in Controls \ {"loop"} : StageControl(k, g, FALSE)
  \/ \E g \in Group, k \in Controls \cap {"loop"}, l \in Loops :
       StageControl(k, g, l)
  \/ ExecCommit
  \/ Destroy

AudioNext ==
  \/ CallbackBegin
  \/ ApplyCmd
  \/ DrainEnd
  \/ \E n \in 1..MaxChunk, ended \in SUBSET Group : MixChunk(n, ended)
  \/ CallbackEnd

Next == GlNext \/ AudioNext

Spec == Init /\ [][Next]_vars

(* SDL keeps calling back on an open stream and each callback runs to its  *)
(* end; nothing is assumed of the GL thread.                               *)
Fairness ==
  /\ WF_vars(CallbackBegin)
  /\ WF_vars(ApplyCmd)
  /\ WF_vars(DrainEnd)
  /\ WF_vars(CallbackEnd)

FairSpec == Spec /\ Fairness

-----------------------------------------------------------------------------
(* The variables have the types of the members they stand for.             *)
TypeOK ==
  /\ heap \in [Ptr -> Url \cup {NoUrl}]
  /\ buffers \in Seq(Ptr \cup {NULL})
  /\ byUrl \in [Url -> Nat]
  /\ gl \in {"idle", "staging"}
  /\ staged \in Seq(StartCmd \cup ControlCmd)
  /\ cmdQueue \in Seq(Cmd)
  /\ audio \in {"idle", "apply", "mix"}
  /\ local \in Seq(Cmd)
  /\ doomed \in SUBSET Ptr
  /\ voices \in [Group -> Voice \cup {Silent}]
  /\ frames \in Nat
  /\ stream \in BOOLEAN
  /\ sink \in BOOLEAN
  /\ readyShipped \in BOOLEAN
  /\ readyEvents \in Nat

(* Every raw Buffer pointer the audio thread will follow - in a voice, in  *)
(* a staged, queued or drained StartSound - points at allocated memory,    *)
(* although unregister_buffer runs on the other thread (unload in flight). *)
NoDanglingBuffer ==
  /\ \A g \in Playing : voices[g].buf \in Live
  /\ Starts(staged) \cup Starts(cmdQueue) \cup Starts(local) \subseteq Live

(* A Buffer has one owner: a slot, or exactly one ReleaseBuffer command on *)
(* its way through the queue.  It is neither freed twice nor lost.         *)
NoDoubleRelease(q) ==
  \A i, j \in DOMAIN q :
    q[i].kind = "release" /\ q[j].kind = "release" /\ q[i].buf = q[j].buf => i = j

SoleOwner ==
  /\ \A i, j \in DOMAIN buffers :
       buffers[i] # NULL /\ buffers[i] = buffers[j] => i = j
  /\ NoDoubleRelease(local)
  /\ NoDoubleRelease(cmdQueue)
  /\ Releases(local) \cap Releases(cmdQueue) = {}
  /\ doomed \cap (Releases(local) \cup Releases(cmdQueue)) = {}
  /\ InSlots \cap (Releases(local) \cup Releases(cmdQueue) \cup doomed) = {}
  /\ Live = InSlots \cup Releases(local) \cup Releases(cmdQueue) \cup doomed

(* by_url_ always leads UnloadAudio to a slot that still holds a buffer    *)
(* of that very url: reusing vacated slots never crosses two urls.         *)
UrlMapSound ==
  \A u \in Url : byUrl[u] # 0 =>
    /\ byUrl[u] \in DOMAIN buffers
    /\ buffers[byUrl[u]] # NULL
    /\ heap[buffers[byUrl[u]]] = u

(* Once a voice has begun to sound it is never gated as "pre-start" again: *)
(* the racy frame stamp of a later SetVolumeAt cannot lie in the future.   *)
StartedStaysAudible ==
  \A g \in Playing : voices[g].first # -1 => voices[g].anchor <= frames

(* The application hears audio_context_ready exactly once per device, in   *)
(* either order of wiring the sink and opening the stream.                 *)
ReadyExactlyOnce == readyEvents = IF stream /\ sink THEN 1 ELSE 0

Unloaded(p) == p \in Live \ InSlots

(* An unloaded buffer is eventually freed, once the device is open.        *)
UnloadIsFreed == \A p \in Ptr : (Unloaded(p) /\ stream) ~> ~Unloaded(p)

(* BufferLifetime's abstract buffers are this module's, by owner.          *)
PhaseOf == [p \in Ptr |-> IF heap[p] = NoUrl THEN "free"
                          ELSE IF p \in InSlots THEN "loaded" ELSE "retired"]
Borrowed == {voices[g].buf : g \in Playing}
              \cup Starts(staged) \cup Starts(cmdQueue) \cup Starts(local)
Lifetime == INSTANCE BufferLifetime WITH Buffer <- Ptr, phase <- PhaseOf,
                                         borrowed <- Borrowed

(* The two threads together implement the life cycle of a lent resource:   *)
(* a Buffer is lent only while loaded and freed only when nobody uses it.  *)
LifetimeSpec == Lifetime!Spec

-----------------------------------------------------------------------------
(* Claims of the comments that the code does not keep.                     *)

(* audio_engine.cc:502-504: a future start is not rendered before its      *)
(* start frame.                                                            *)
NoEarlyStart ==
  \A g \in Playing : voices[g].first # -1 => voices[g].first >= voices[g].due

(* audio_engine.h:85: the ids register_buffer assigns are monotonic.       *)
BufferIdsMonotonic ==
  [][\A u \in Url : byUrl'[u] \notin {0, byUrl[u]} => byUrl'[u] > Len(buffers)]_byUrl

(* audio_engine.h:90: unregister_buffer is the inverse of register_buffer: *)
(* after it no buffer of that url is registered any more.                  *)
UnloadUndoesLoad ==
  [][\A u \in Url : byUrl[u] # 0 /\ byUrl'[u] = 0 =>
       \A i \in DOMAIN buffers' : buffers'[i] # NULL => heap'[buffers'[i]] # u]_byUrl
=============================================================================
