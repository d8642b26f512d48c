------------------------------- MODULE ElmHost -------------------------------
(***************************************************************************)
(* ElmHost (src/elm_host/elm_host.cc) as the player drives it: an Elm      *)
(* program in QuickJS, its timers and animation frames, the commands it    *)
(* sends through ports (held back until StartRegl, then pulled twice a     *)
(* frame), its latest view, and the answers to its requests for data files *)
(* and sounds.                                                             *)
(*                                                                         *)
(* JavaScript runs only inside a call of the host ("js"); while it runs it *)
(* may set and clear timers, send commands, set the view, throw or return. *)
(* "stage" is where drive_one_frame stands.  The engine answers            *)
(* createGLProgram at once, a sound at once when there is no audio device, *)
(* and other loads in order, when a frame drains them.  The parity of the  *)
(* calls of run_timers tells animation frames apart.                       *)
(***************************************************************************)
EXTENDS Naturals, Sequences, SequencesExt, Subsequences

CONSTANTS
  Path,         \* data files and sounds
  Kinds,        \* the commands the program sends besides start
  Delays,       \* of setTimeout
  MaxTimers, MaxCommands, MaxNow   \* bounds

ASSUME ElmHostAssumption ==
  /\ Kinds \subseteq {"file", "audio", "program"} /\ Delays \subseteq Nat
  /\ {MaxTimers, MaxCommands, MaxNow} \subseteq Nat

VARIABLES
  stage,      \* see Stages
  js,         \* JavaScript is running
  failed,     \* failed_
  now,        \* now_ms(): since the host was made
  odd,        \* the parity of the calls of run_timers(true)
  timers,     \* timers_
  due,        \* run_timers' list
  nextId,     \* next_timer_id_
  startSeen, resize,   \* start_seen_, viewport_resize_pending_
  preStart, commands,  \* pre_start_commands_, commands_
  batch,      \* the pulled commands not yet dispatched
  pending,    \* pending_data_files_, pending_audio_requests_: who waits for each path
  loading,    \* the loads in the engine, oldest first
  device,     \* the engine's audio device is open
  view,       \* latest_view_: how many commands were sent before it
  issued,     \* history: commands sent
  applied,    \* history: the commands dispatched, in order
  cleared,    \* history: timers cleared
  mixed       \* history: an answer went out under another request's name

jsVars      == <<stage, js, failed>>
clockVars   == <<now, odd>>
timerVars   == <<timers, due, nextId, cleared>>
commandVars == <<startSeen, resize, preStart, commands, issued>>
fileVars    == <<pending, loading, device, mixed>>
vars == <<jsVars, clockVars, timerVars, commandVars, batch, applied, fileVars, view>>

Stages == {"init", "initTimers", "boot", "top", "pull1", "resize", "events", "input",
           "update", "beforeView", "viewTimers", "pull2", "render", "answers", "ended"}

NoPath     == "none"
Requests   == {"file", "audio"}
StartCmd   == [kind |-> "start", id |-> 0, path |-> NoPath]
Cmd        == {StartCmd} \cup [kind : Requests, id : 1..MaxCommands, path : Path]
              \cup [kind : {"program"}, id : 1..MaxCommands, path : {NoPath}]
Timer      == [id : 1..MaxTimers, due : Nat, frame : BOOLEAN, born : BOOLEAN]

Init ==
  /\ stage = "init" /\ js = TRUE /\ failed = FALSE
  /\ now = 0 /\ odd = TRUE
  /\ timers = <<>> /\ due = <<>> /\ nextId = 1 /\ cleared = {}
  /\ startSeen = FALSE /\ resize = FALSE
  /\ preStart = <<>> /\ commands = <<>> /\ issued = 0
  /\ batch = <<>> /\ applied = <<>>
  /\ pending = [k \in Requests |-> [p \in Path |-> <<>>]] /\ loading = <<>>
  /\ device = FALSE /\ mixed = FALSE
  /\ view = 0

-----------------------------------------------------------------------------
(* What JavaScript does.                                                   *)

SetTimer(delay, frame) ==
  /\ js /\ nextId <= MaxTimers /\ now + delay <= MaxNow
  /\ timers' = Append(timers, [id |-> nextId, due |-> now + delay, frame |-> frame,
                               born |-> odd])
  /\ nextId' = nextId + 1
  /\ UNCHANGED <<jsVars, clockVars, due, cleared, commandVars, batch, applied, fileVars, view>>

ClearTimer(id) ==
  /\ js /\ id < nextId /\ id \notin cleared
  /\ timers' = Pick(timers, {i \in DOMAIN timers : timers[i].id # id})
  /\ cleared' = cleared \cup {id}
  /\ UNCHANGED <<jsVars, clockVars, due, nextId, commandVars, batch, applied, fileVars, view>>

(* Mutation: nothing is held back before StartRegl.                        *)
HeldBack_Never(c) == FALSE

HeldBack(c) == ~startSeen /\ c.kind # "start"

(* Mutation: what was held back stays there.                               *)
Flushed_Not == <<>>

Flushed == preStart

(* Mutation: what StartRegl released is kept too.                          *)
EnqueueCommand_Kept(c) ==
  IF HeldBack(c)
  THEN preStart' = Append(preStart, c) /\ UNCHANGED <<commands, startSeen>>
  ELSE /\ commands' = Append(commands, c) \o (IF startSeen THEN <<>> ELSE preStart)
       /\ startSeen' = TRUE /\ UNCHANGED preStart

(* enqueue_command: StartRegl releases what was sent before it.            *)
EnqueueCommand(c) ==
  IF HeldBack(c)
  THEN preStart' = Append(preStart, c) /\ UNCHANGED <<commands, startSeen>>
  ELSE IF c.kind = "start" /\ ~startSeen
  THEN /\ commands' = Append(commands, c) \o Flushed
       /\ startSeen' = TRUE /\ preStart' = <<>>
  ELSE commands' = Append(commands, c) /\ UNCHANGED <<preStart, startSeen>>

(* Ports are subscribed after Elm's init has returned.                     *)
Bound == js /\ stage # "init"

(* js_command with start; the program sends it once.                       *)
SendStart ==
  /\ Bound /\ ~startSeen
  /\ EnqueueCommand(StartCmd)
  /\ resize' = TRUE
  /\ UNCHANGED <<jsVars, clockVars, timerVars, issued, batch, applied, fileVars, view>>

(* js_command with another command, js_load_data_file, or a load of        *)
(* js_audio, the last two noting who asks.                                 *)
Send(kind, p) ==
  LET c == [kind |-> kind, id |-> issued + 1, path |-> p] IN
  /\ Bound /\ issued < MaxCommands
  /\ c \in Cmd
  /\ EnqueueCommand(c)
  /\ issued' = issued + 1
  /\ pending' = IF kind \in Requests
                THEN [pending EXCEPT ![kind][p] = Append(@, c.id)] ELSE pending
  /\ UNCHANGED <<jsVars, clockVars, timerVars, resize, batch, applied, loading, device, mixed,
                 view>>

(* js_view.                                                                *)
SetView ==
  /\ Bound /\ view # issued
  /\ view' = issued
  /\ UNCHANGED <<jsVars, clockVars, timerVars, commandVars, batch, applied, fileVars>>

(* The call returns or throws; run_timers gives up the timers left.        *)
Leave(throws) ==
  /\ js /\ js' = FALSE
  /\ failed' = (failed \/ throws)
  /\ due' = IF failed' THEN <<>> ELSE due
  /\ UNCHANGED <<stage, clockVars, timers, nextId, cleared, commandVars, batch, applied,
                 fileVars, view>>

JavaScript ==
  \/ \E d \in Delays : SetTimer(d, FALSE)
  \/ SetTimer(0, TRUE)
  \/ \E id \in 1..MaxTimers : ClearTimer(id)
  \/ SendStart
  \/ \E k \in Kinds, p \in Path \cup {NoPath} : Send(k, p)
  \/ SetView
  \/ \E throws \in BOOLEAN : Leave(throws)

-----------------------------------------------------------------------------
(* run_timers.                                                             *)

(* Mutation: animation frames are not told from timers.                    *)
Runs_Any(t, frames) == t.due <= now

(* Mutation: animation frames never run.                                   *)
Runs_NoFrames(t, frames) == t.due <= now /\ ~t.frame

Runs(t, frames) == t.due <= now /\ (~t.frame \/ frames)

(* The due timers are taken off the list before the first is called.       *)
Collect(frames) ==
  /\ due' = Pick(timers, {i \in DOMAIN timers : Runs(timers[i], frames)})
  /\ timers' = Pick(timers, {i \in DOMAIN timers : ~Runs(timers[i], frames)})
  /\ UNCHANGED <<nextId, cleared>>

CallTimer ==
  /\ stage \in {"initTimers", "events", "viewTimers"} /\ ~js /\ due # <<>>
  /\ due' = Tail(due) /\ js' = TRUE
  /\ UNCHANGED <<stage, failed, clockVars, timers, nextId, cleared, commandVars, batch,
                 applied, fileVars, view>>

-----------------------------------------------------------------------------
(* The stages.                                                             *)
At(s) == stage = s /\ ~js /\ due = <<>> /\ batch = <<>>

(* pull_commands (and take_startup_commands): everything queued.           *)
PullCommands == batch' = commands /\ commands' = <<>>
                /\ UNCHANGED <<startSeen, resize, preStart, issued>>

InitTimers ==
  /\ At("init")
  /\ stage' = IF failed THEN "ended" ELSE "initTimers"
  /\ Collect(FALSE)
  /\ UNCHANGED <<js, failed, clockVars, commandVars, batch, applied, fileVars, view>>

Boot ==
  /\ At("initTimers")
  /\ IF failed THEN stage' = "ended" /\ UNCHANGED <<commandVars, batch>>
     ELSE stage' = "boot" /\ PullCommands
  /\ UNCHANGED <<js, failed, clockVars, timerVars, applied, fileVars, view>>

(* main: no start command, no loop; on_loop_enter refuses after a failure. *)
EnterLoop ==
  /\ At("boot")
  /\ stage' = IF failed \/ applied = <<>> THEN "ended" ELSE "top"
  /\ UNCHANGED <<js, failed, clockVars, timerVars, commandVars, batch, applied, fileVars, view>>

Top ==
  /\ At("top")
  /\ IF failed THEN stage' = "ended" /\ UNCHANGED <<commandVars, batch>>
     ELSE stage' = "pull1" /\ PullCommands
  /\ UNCHANGED <<js, failed, clockVars, timerVars, applied, fileVars, view>>

(* Mutation: the newest request for the path gets the answer.              *)
Asker_Newest(c) == Last(pending[c.kind][c.path])

(* Who asked for what c has loaded: the oldest request for that path.      *)
Asker(c) == Head(pending[c.kind][c.path])

Except(q, id) == Pick(q, {i \in DOMAIN q : q[i] # id})

(* on_backend_event for a file, on_audio_event for a sound.                *)
Answered(c) ==
  /\ mixed' = (mixed \/ Asker(c) # c.id)
  /\ pending' = [pending EXCEPT ![c.kind][c.path] = Except(@, Asker(c))]
  /\ js' = TRUE

NotAnswered == UNCHANGED <<pending, mixed>>

(* LoadAudio opens the device first: that it is open now is reported, and  *)
(* that it cannot be opened is the answer.                                 *)
DispatchAudio(c) ==
  \/ /\ device' = TRUE
     /\ loading' = Append(loading, c)
     /\ js' = (~device /\ ~failed)
     /\ NotAnswered
  \/ /\ ~device
     /\ IF failed THEN NotAnswered /\ js' = FALSE ELSE Answered(c)
     /\ UNCHANGED <<device, loading>>

(* dispatch_batch, one command: a program is answered at once, into Elm.   *)
Dispatch ==
  /\ stage \in {"boot", "pull1", "pull2"} /\ ~js /\ batch # <<>>
  /\ LET c == Head(batch) IN
     /\ applied' = Append(applied, c)
     /\ IF c.kind = "audio" THEN DispatchAudio(c)
        ELSE /\ loading' = IF c.kind = "file" THEN Append(loading, c) ELSE loading
             /\ js' = (c.kind = "program" /\ ~failed)
             /\ NotAnswered /\ UNCHANGED device
  /\ batch' = Tail(batch)
  /\ UNCHANGED <<stage, failed, clockVars, timerVars, commandVars, view>>

(* before_events: a resize event, then the timers and animation frames,    *)
(* the first of them even after the resize event has failed.               *)
BeforeEvents ==
  /\ At("pull1")
  /\ stage' = IF failed THEN "events" ELSE "resize"
  /\ js' = (resize /\ ~failed)
  /\ resize' = (resize /\ failed)
  /\ UNCHANGED <<failed, clockVars, timerVars, startSeen, preStart, commands, issued, batch,
                 applied, fileVars, view>>

Timers ==
  /\ At("resize")
  /\ stage' = "events"
  /\ Collect(TRUE) /\ odd' = ~odd
  /\ UNCHANGED <<js, failed, now, commandVars, batch, applied, fileVars, view>>

EventsDone ==
  /\ At("events")
  /\ stage' = IF failed THEN "ended" ELSE "input"
  /\ UNCHANGED <<js, failed, clockVars, timerVars, commandVars, batch, applied, fileVars, view>>

(* pump_events: an input event or none; then UpdateTick.                   *)
Pump(some) ==
  /\ At("input")
  /\ stage' = "update" /\ js' = some
  /\ UNCHANGED <<failed, clockVars, timerVars, commandVars, batch, applied, fileVars, view>>

Tick ==
  /\ At("update")
  /\ stage' = "beforeView" /\ js' = ~failed
  /\ UNCHANGED <<failed, clockVars, timerVars, commandVars, batch, applied, fileVars, view>>

BeforeView ==
  /\ At("beforeView")
  /\ stage' = "viewTimers"
  /\ IF failed THEN UNCHANGED timerVars ELSE Collect(FALSE)
  /\ UNCHANGED <<js, failed, clockVars, commandVars, batch, applied, fileVars, view>>

PullAgain ==
  /\ At("viewTimers")
  /\ IF failed THEN stage' = "ended" /\ UNCHANGED <<commandVars, batch>>
     ELSE stage' = "pull2" /\ PullCommands
  /\ UNCHANGED <<js, failed, clockVars, timerVars, applied, fileVars, view>>

(* pull_view takes the view that the engine is about to draw.              *)
PullView ==
  /\ At("pull2")
  /\ stage' = "render"
  /\ UNCHANGED <<js, failed, clockVars, timerVars, commandVars, batch, applied, fileVars, view>>

Render ==
  /\ At("render")
  /\ stage' = "answers"
  /\ UNCHANGED <<js, failed, clockVars, timerVars, commandVars, batch, applied, fileVars, view>>

(* drain_ready_assets: the oldest load is answered.                        *)
Answer ==
  /\ At("answers") /\ loading # <<>> /\ ~failed
  /\ Answered(Head(loading))
  /\ loading' = Tail(loading)
  /\ UNCHANGED <<stage, failed, clockVars, timerVars, commandVars, batch, applied, device, view>>

AfterFrame ==
  /\ At("answers")
  /\ stage' = "top"
  /\ UNCHANGED <<js, failed, clockVars, timerVars, commandVars, batch, applied, fileVars, view>>

Pass ==
  /\ stage # "ended" /\ now < MaxNow
  /\ now' = now + 1
  /\ UNCHANGED <<jsVars, odd, timerVars, commandVars, batch, applied, fileVars, view>>

Stopped == stage = "ended" /\ UNCHANGED vars

Drive ==
  \/ InitTimers \/ Boot \/ EnterLoop \/ Top \/ Dispatch \/ BeforeEvents \/ Timers \/ CallTimer
  \/ EventsDone \/ (\E some \in BOOLEAN : Pump(some)) \/ Tick \/ BeforeView \/ PullAgain
  \/ PullView \/ Render \/ AfterFrame

Next == JavaScript \/ Drive \/ Answer \/ Pass \/ Stopped

Spec == Init /\ [][Next]_vars

(* The frame loop runs, JavaScript returns (it is finite: every call ends),*)
(* time passes, and a load that has finished is found by some drain.       *)
FairSpec ==
  Spec /\ WF_vars(Drive) /\ WF_vars(\E throws \in BOOLEAN : Leave(throws)) /\ WF_vars(Pass)
       /\ SF_vars(Answer)

-----------------------------------------------------------------------------
(* The members have their types; nothing is held back once StartRegl was   *)
(* seen, and no frame is run before that.                                  *)
FlagsTyped ==
  /\ js \in BOOLEAN /\ failed \in BOOLEAN /\ odd \in BOOLEAN
  /\ startSeen \in BOOLEAN /\ resize \in BOOLEAN /\ device \in BOOLEAN /\ mixed \in BOOLEAN

NumbersTyped ==
  /\ stage \in Stages /\ now \in 0..MaxNow
  /\ nextId \in 1..MaxTimers + 1 /\ cleared \subseteq 1..MaxTimers
  /\ issued \in 0..MaxCommands /\ view \in 0..MaxCommands

TimersTyped == timers \in Seq(Timer) /\ due \in Seq(Timer)

CommandsTyped ==
  /\ preStart \in Seq(Cmd) /\ commands \in Seq(Cmd) /\ batch \in Seq(Cmd)
  /\ applied \in Seq(Cmd) /\ loading \in Seq(Cmd)
  /\ pending \in [Requests -> [Path -> Seq(1..MaxCommands)]]

TypeOK ==
  /\ FlagsTyped /\ NumbersTyped /\ TimersTyped /\ CommandsTyped
  /\ preStart # <<>> => ~startSeen
  /\ stage \notin {"init", "initTimers", "boot", "ended"} => startSeen

(* The engine sees StartRegl first and then every other command exactly    *)
(* once, in the order it was sent, whenever start itself was sent          *)
(* (ElmHost's startup buffering).                                          *)
StartThenInOrder ==
  \A i \in DOMAIN applied : applied[i].id = i - 1

(* Every answer reaches the request it answers, however many requests for  *)
(* the same path are under way; a sound that fails at once does not take   *)
(* the place of one that is being loaded.                                  *)
AnswersFindTheirRequest == ~mixed

(* requestAnimationFrame callbacks run in the next call of run_timers at   *)
(* the start of a frame: never in the call that asked for them, nor among  *)
(* the timers before the view, and none is left for a later frame.         *)
FramesRunNextFrame ==
  /\ \A i \in DOMAIN due : due[i].frame => due[i].born # odd /\ stage = "events"
  /\ stage = "input" => \A i \in DOMAIN timers : timers[i].frame => timers[i].born = odd

Waiting(id) == \E i \in DOMAIN timers : timers[i].id = id

(* A timer that is set fires or is cleared, unless the program ends.       *)
TimersFire == \A id \in 1..MaxTimers : Waiting(id) ~> (~Waiting(id) \/ stage = "ended")

(* Every request for a data file or a sound is answered, unless the        *)
(* program ends.                                                           *)
RequestsAreAnswered ==
  \A k \in Requests, p \in Path :
    (pending[k][p] # <<>>) ~> (pending[k][p] = <<>> \/ stage = "ended")

(* ElmRuntimeDesign.md, frame lifecycle: the queued commands are applied   *)
(* (6) before the latest view is rendered (7).                             *)
CommandsBeforeView == stage = "render" => view < Len(applied)

(* ElmRuntimeDesign.md: timers are stored in a priority queue.             *)
TimersInDueOrder ==
  \A i, j \in DOMAIN due : i < j => due[i].due <= due[j].due

(* ElmRuntimeDesign.md: clearTimeout is provided; a cleared timer is not   *)
(* called.                                                                 *)
ClearedStaysQuiet ==
  [][\A id \in cleared : due # <<>> /\ due' = Tail(due) /\ js' => Head(due).id # id]_vars
=============================================================================
