------------------------------- MODULE RunLoop -------------------------------
(***************************************************************************)
(* Runtime (src/runtime/runtime.cc) and ControlClient (control_client.cc): *)
(* the loop that pulls commands from the host, pumps input, ticks, renders *)
(* and paces; the remote control that pauses, steps and drives its clock   *)
(* from a socket thread; and the life of the engine around it.             *)
(*                                                                         *)
(* drive_one_frame is cut where it calls the host (LoopHooks), which may   *)
(* do anything a host does there: ship commands at once (the OCaml bridge  *)
(* dispatches from its callbacks) or queue them for pull_commands (the Elm *)
(* host), fail, or nothing.  Time is SDL_GetTicks() - start_ticks_.        *)
(***************************************************************************)
EXTENDS Naturals, Sequences

CONSTANTS
  Controls,   \* the control methods the remote client uses
  Steps,      \* the n of step
  Times,      \* the ms of set_time
  Dts,        \* the dt_ms of step; the least is also the default
  QueueCap,   \* how many control messages wait (256)
  MaxTime,    \* bound on the clock of one run
  MaxFrames   \* the host stops the loop after this many frames (--frames)

ASSUME RunLoopAssumption ==
  /\ Controls \subseteq {"pause", "resume", "quit", "step", "set_time", "input", "screenshot"}
  /\ Steps \subseteq Nat \ {0} /\ Times \subseteq Nat /\ Dts \subseteq Nat /\ Dts # {}
  /\ {QueueCap, MaxTime, MaxFrames} \subseteq Nat \ {0}

VARIABLES
  pc,          \* where run() is: "out" of it, or a stage of drive_one_frame
  engine,      \* "none", "made" (no window) or "window"
  audio,       \* audio_ of the engine: "none", "wired" to the host, "unwired"
  quit,        \* quit_requested_
  willing,     \* hooks_.should_continue()
  paused, budget, controlled, ctime, dt,   \* ..., step_budget_, controlled_*
  now, started,      \* the clock; start_ticks_ # 0
  frame,       \* frame_number_
  hasTree,     \* has_latest_render_tree_
  inbox,       \* ControlClient's commands
  polled,      \* what is left of the commands this frame took
  outbox,      \* what the host has queued for the next pull
  asked,       \* history: QuitRegl was issued while handling an event or tick
  lastTick,    \* history: the last UpdateTick of this run since set_time, or 0
  goal         \* history: the frame at which the steps asked for end, or 0

engineVars  == <<engine, audio>>
controlVars == <<paused, budget, controlled, ctime, dt>>
clockVars   == <<now, started>>
frameVars   == <<frame, hasTree>>
hostVars    == <<willing, outbox, asked>>
vars == <<pc, engineVars, quit, controlVars, clockVars, frameVars, inbox, polled,
          hostVars, lastTick, goal>>

Messages == [method : Controls \ {"step", "set_time"}, n : {0}]
            \cup [method : Controls \cap {"step"}, n : Steps]
            \cup [method : Controls \cap {"set_time"}, n : Times]
DefaultDt == CHOOSE d \in Dts : \A e \in Dts : d <= e
Running   == pc # "out"

Init ==
  /\ pc = "out" /\ engine = "none" /\ audio = "none"
  /\ quit = FALSE /\ willing = TRUE
  /\ paused = FALSE /\ budget = 0 /\ controlled = FALSE /\ ctime = 0 /\ dt = DefaultDt
  /\ now = 0 /\ started = FALSE /\ frame = 0 /\ hasTree = FALSE
  /\ inbox = <<>> /\ polled = <<>> /\ outbox = {}
  /\ asked = FALSE /\ lastTick = 0 /\ goal = 0

-----------------------------------------------------------------------------
(* What the host does inside a hook.                                       *)

(* audio_ is made on demand; only ensure_engine gives it the event sink.   *)
AudioOnDemand == IF audio = "none" THEN "unwired" ELSE audio

(* dispatch_audio and apply_pulled_audio_commands stamp with SDL's clock.  *)
Stamp == IF started THEN now ELSE 0

HostIdle == UNCHANGED <<quit, audio, hostVars>>

(* QuitRegl through dispatch, inside the callback.                         *)
HostQuits ==
  /\ quit' = TRUE /\ asked' = TRUE
  /\ UNCHANGED <<audio, willing, outbox>>

(* QuitRegl, LoadAudio or an audio batch, to be pulled.                    *)
HostQueues(c) ==
  /\ outbox' = outbox \cup {c}
  /\ asked' = (asked \/ c = "quit")
  /\ UNCHANGED <<quit, audio, willing>>

(* An audio batch or LoadAudio through dispatch.                           *)
HostPlays ==
  /\ audio' = AudioOnDemand
  /\ UNCHANGED <<quit, willing, outbox, asked>>

HostFails ==
  /\ willing' = FALSE
  /\ UNCHANGED <<quit, audio, outbox, asked>>

Hook == HostIdle \/ HostQuits \/ HostPlays \/ HostFails
        \/ \E c \in {"quit", "play"} : HostQueues(c)

-----------------------------------------------------------------------------
(* Outside the loop.                                                       *)

EnsureEngine == IF engine = "none" THEN <<"made", "wired">> ELSE <<engine, audio>>

(* reset_engine.                                                           *)
AfterFailedStart == <<"none", "none">>

(* dispatch or dispatch_audio of a batch that needs the audio engine;      *)
(* QuitRegl is ignored here.                                               *)
DispatchOutside ==
  /\ ~Running
  /\ engine' = EnsureEngine[1]
  /\ audio' = IF EnsureEngine[2] = "none" THEN "unwired" ELSE EnsureEngine[2]
  /\ UNCHANGED <<pc, quit, controlVars, clockVars, frameVars, inbox, polled, hostVars,
                 lastTick, goal>>

(* dispatch of StartRegl, maybe followed by QuitRegl in the same batch;    *)
(* with a window that is still there it succeeds at once.                  *)
StartRegl(ok, thenQuit) ==
  /\ ~Running
  /\ engine = "window" => ok
  /\ thenQuit => ok
  /\ engine' = IF ok THEN "window" ELSE AfterFailedStart[1]
  /\ audio' = IF ok THEN EnsureEngine[2] ELSE AfterFailedStart[2]
  /\ quit' = (quit \/ thenQuit)
  /\ UNCHANGED <<pc, controlVars, clockVars, frameVars, inbox, polled, hostVars,
                 lastTick, goal>>

(* Mutation: run does not look for a window.                               *)
MayRun_Unchecked == TRUE

MayRun == engine = "window"

(* run(): on_loop_enter, which refuses when the host has failed, then the  *)
(* state of a fresh loop; quit_requested_ is kept.                         *)
Run ==
  /\ ~Running /\ MayRun /\ willing
  /\ pc' = "top"
  /\ started' = TRUE /\ now' = 0
  /\ frame' = 0 /\ paused' = FALSE /\ budget' = 0
  /\ controlled' = FALSE /\ ctime' = 0 /\ hasTree' = FALSE
  /\ lastTick' = 0 /\ goal' = 0 /\ asked' = quit
  /\ UNCHANGED <<engineVars, quit, willing, dt, inbox, polled, outbox>>

-----------------------------------------------------------------------------
(* drive_one_frame.                                                        *)

(* Leaving the loop: on_loop_exit (nothing in both hosts), then            *)
(* Engine::shutdown.  The OCaml program may start again.                   *)
Exit ==
  /\ pc = "exit"
  /\ pc' = "out"
  /\ quit' = FALSE /\ asked' = FALSE
  /\ engine' = "made" /\ audio' = "none"
  /\ polled' = <<>>
  /\ UNCHANGED <<controlVars, clockVars, frameVars, inbox, willing, outbox,
                 lastTick, goal>>

(* The checks at the top, before_frame, and poll_commands' swap.           *)
Top ==
  /\ pc = "top"
  /\ IF quit \/ ~willing
     THEN pc' = "exit" /\ UNCHANGED <<inbox, polled>>
     ELSE pc' = "control" /\ polled' = inbox /\ inbox' = <<>>
  /\ UNCHANGED <<engineVars, quit, controlVars, clockVars, frameVars, hostVars,
                 lastTick, goal>>

Take(method) == pc = "control" /\ polled # <<>> /\ Head(polled).method = method
                /\ polled' = Tail(polled)
Kept == UNCHANGED <<pc, engine, clockVars, frameVars, inbox, lastTick>>

Pause ==
  /\ Take("pause") /\ Kept
  /\ paused' = TRUE
  /\ UNCHANGED <<audio, quit, hostVars, budget, controlled, ctime, dt, goal>>

Resume ==
  /\ Take("resume") /\ Kept
  /\ paused' = FALSE /\ budget' = 0 /\ goal' = 0
  /\ UNCHANGED <<audio, quit, hostVars, controlled, ctime, dt>>

ControlQuit ==
  /\ Take("quit") /\ Kept
  /\ quit' = TRUE /\ asked' = TRUE
  /\ UNCHANGED <<audio, willing, outbox, controlVars, goal>>

(* Mutation: the controlled clock starts from zero.                        *)
ClockAtStep_Zero == IF controlled THEN ctime ELSE 0

ClockAtStep == IF controlled THEN ctime ELSE Stamp

(* Mutation: a second step replaces what is left of the first.             *)
BudgetAfterStep_Replaced(n) == n

BudgetAfterStep(n) == budget + n

Step(d) ==
  /\ Take("step") /\ Kept
  /\ paused' = TRUE /\ controlled' = TRUE /\ ctime' = ClockAtStep
  /\ budget' = BudgetAfterStep(Head(polled).n)
  /\ dt' \in {dt, d}
  /\ goal' = (IF goal = 0 \/ budget = 0 THEN frame ELSE goal) + Head(polled).n
  /\ UNCHANGED <<audio, quit, hostVars>>

SetTime ==
  /\ Take("set_time")
  /\ controlled' = TRUE /\ ctime' = Head(polled).n /\ lastTick' = 0
  /\ UNCHANGED <<pc, engine, audio, quit, hostVars, paused, budget, dt, clockVars, frameVars,
                 inbox, goal>>

(* input calls deliver_event; screenshot draws the last tree again, which  *)
(* drains assets and may call on_backend_event.                            *)
Input ==
  /\ Take("input") /\ Kept /\ Hook
  /\ UNCHANGED <<controlVars, goal>>

Screenshot ==
  /\ Take("screenshot") /\ Kept
  /\ IF hasTree THEN Hook ELSE HostIdle
  /\ UNCHANGED <<controlVars, goal>>

(* Mutation: the flag only remembers this pull.                            *)
QuitAfterPull_Only == "quit" \in outbox

QuitAfterPull == quit \/ "quit" \in outbox

(* apply_pulled_commands and apply_pulled_audio_commands, emptying what    *)
(* was queued; an answer given at once may make the host queue more.       *)
Pulled ==
  /\ quit' = QuitAfterPull
  /\ audio' = IF "play" \in outbox THEN AudioOnDemand ELSE audio
  /\ outbox' \in IF outbox = {} THEN {{}} ELSE {{}, {"quit"}}
  /\ UNCHANGED <<willing, asked>>

(* Mutation: the budget is not consulted, a paused loop never steps.       *)
Frozen_Always == paused

Frozen == paused /\ budget = 0

BudgetAfterFrame == IF budget > 0 THEN budget - 1 ELSE 0

(* After the control commands: pull, and decide whether there is a frame.  *)
Pull ==
  /\ pc = "control" /\ polled = <<>>
  /\ Pulled
  /\ IF quit' THEN pc' = "exit" /\ UNCHANGED <<budget, frame>>
     ELSE IF Frozen THEN pc' = "frozen" /\ UNCHANGED <<budget, frame>>
     ELSE pc' = "events" /\ budget' = BudgetAfterFrame /\ frame' = frame + 1
  /\ UNCHANGED <<engine, paused, controlled, ctime, dt, clockVars, hasTree, inbox, polled,
                 lastTick, goal>>

(* before_events; a host that fails there ends the frame.                  *)
BeforeEvents ==
  /\ pc = "events"
  /\ Hook
  /\ pc' = IF willing' THEN "pump" ELSE "exit"
  /\ UNCHANGED <<engine, controlVars, clockVars, frameVars, inbox, polled, lastTick, goal>>

(* pump_events: each event reaches the host, and the window may be closed. *)
(* Nobody asks here whether the host failed.  A frozen loop pumps too.     *)
Pump(closed) ==
  /\ pc \in {"pump", "frozen"}
  /\ Hook
  /\ pc' = IF closed THEN "exit" ELSE IF pc = "frozen" THEN "top" ELSE "tick"
  /\ UNCHANGED <<engine, controlVars, clockVars, frameVars, inbox, polled, lastTick, goal>>

(* UpdateTick, and the check that follows it.                              *)
Tick ==
  /\ pc = "tick"
  /\ Hook
  /\ lastTick' = IF controlled THEN ctime ELSE now
  /\ pc' = IF quit' THEN "exit" ELSE "view"
  /\ UNCHANGED <<engine, controlVars, clockVars, frameVars, inbox, polled, goal>>

(* before_view.                                                            *)
BeforeView ==
  /\ pc = "view"
  /\ Hook
  /\ pc' = IF willing' THEN "pull" ELSE "exit"
  /\ UNCHANGED <<engine, controlVars, clockVars, frameVars, inbox, polled, lastTick, goal>>

(* Mutation: nothing is pulled between the update and the view.            *)
PulledBeforeView_Not == UNCHANGED <<quit, audio, hostVars>>

PulledBeforeView == Pulled

(* The second pull, and the check that follows it.                         *)
PullAgain ==
  /\ pc = "pull"
  /\ PulledBeforeView
  /\ pc' = IF quit' THEN "exit" ELSE "render"
  /\ UNCHANGED <<engine, controlVars, clockVars, frameVars, inbox, polled, lastTick, goal>>

(* pull_view, render or only the ready assets, and the swap; then          *)
(* after_frame and the frame message.  Each may call the host, which stops *)
(* at MaxFrames.                                                           *)
Render(drawn) ==
  /\ pc = "render"
  /\ pc' = "top"
  /\ hasTree' = (hasTree \/ drawn)
  /\ ctime' = IF controlled THEN ctime + dt ELSE ctime
  /\ IF frame < MaxFrames THEN Hook ELSE HostFails
  /\ UNCHANGED <<engine, paused, budget, controlled, dt, clockVars, frame, inbox, polled,
                 lastTick, goal>>

-----------------------------------------------------------------------------
(* The socket thread: the oldest message makes room.  Only Top looks at    *)
(* the queue, so a message may as well arrive just before it.              *)
Receive(m) ==
  /\ pc = "top"
  /\ inbox' = IF Len(inbox) < QueueCap THEN Append(inbox, m) ELSE Append(Tail(inbox), m)
  /\ UNCHANGED <<pc, engineVars, quit, controlVars, clockVars, frameVars, polled,
                 hostVars, lastTick, goal>>

Pass ==
  /\ Running /\ now < MaxTime
  /\ now' = now + 1
  /\ UNCHANGED <<pc, engineVars, quit, controlVars, started, frameVars, inbox, polled,
                 hostVars, lastTick, goal>>

Outside == DispatchOutside \/ Run \/ \E ok, thenQuit \in BOOLEAN : StartRegl(ok, thenQuit)

Control == Pause \/ Resume \/ ControlQuit \/ SetTime \/ Input \/ Screenshot
           \/ \E d \in Dts : Step(d)

Drive == Top \/ Control \/ Pull \/ BeforeEvents \/ Tick \/ BeforeView \/ PullAgain \/ Exit
         \/ \E closed \in BOOLEAN : Pump(closed)
         \/ \E drawn \in BOOLEAN : Render(drawn)

Next == Outside \/ Drive \/ Pass \/ \E m \in Messages : Receive(m)

Spec == Init /\ [][Next]_vars

(* run() is a loop of the main thread: once inside, it keeps executing.    *)
FairSpec == Spec /\ WF_vars(Drive)

-----------------------------------------------------------------------------
FlagsTyped ==
  /\ quit \in BOOLEAN /\ willing \in BOOLEAN /\ asked \in BOOLEAN /\ paused \in BOOLEAN
  /\ controlled \in BOOLEAN /\ started \in BOOLEAN /\ hasTree \in BOOLEAN

MembersTyped ==
  /\ pc \in {"out", "top", "control", "frozen", "events", "pump", "tick", "view", "pull", "render",
             "exit"}
  /\ engine \in {"none", "made", "window"} /\ audio \in {"none", "wired", "unwired"}
  /\ budget \in Nat /\ ctime \in Nat /\ dt \in Dts /\ now \in 0..MaxTime
  /\ frame \in 0..MaxFrames /\ lastTick \in Nat /\ goal \in Nat

QueuesTyped ==
  /\ inbox \in Seq(Messages) /\ Len(inbox) <= QueueCap
  /\ polled \in Seq(Messages) /\ Len(polled) <= QueueCap
  /\ outbox \subseteq {"quit", "play"}

(* The members have their types, the control queue stays within its cap,   *)
(* and the loop runs only with a window.                                   *)
TypeOK ==
  /\ FlagsTyped /\ MembersTyped
  /\ QueuesTyped
  /\ Running => engine = "window"

(* A QuitRegl the host issues while it handles input or the tick, at once  *)
(* or queued, is honoured before the view of that frame is drawn (the      *)
(* checks around before_view).                                             *)
NoViewAfterQuit == [][pc = "render" /\ pc' = "top" => ~asked]_vars

(* Unless set_time says so, the clock of the ticks never goes back, also   *)
(* when a step takes it over from SDL ("so ticks never go back").          *)
TicksNeverGoBack == [][pc = "tick" => lastTick' >= lastTick]_vars

(* "A step of n from get_state's frame F ends with frame F + n": a loop    *)
(* that has come to rest after steps stands at the frame they add up to.   *)
StepsEndOnFrame == pc = "frozen" /\ goal # 0 => frame = goal

(* Steps that were asked for are taken, whatever else is sent, or the loop *)
(* ends.                                                                   *)
StepsAreTaken == (Running /\ budget > 0) ~> (budget = 0 \/ ~Running)

(* QuitRegl, the control quit and a host that gives up end the loop, a     *)
(* paused one too.                                                         *)
QuitEndsLoop == (Running /\ (quit \/ asked \/ ~willing)) ~> ~Running

(* runtime.cc:628: "Pause freezes update/render advancement".              *)
PauseFreezes == [][Pause => budget' = 0]_vars

(* runtime.cc:207-209: audio commands are stamped so that the AudioEngine  *)
(* sees the same clock as the per-frame UpdateTick.                        *)
AudioSharesTickClock ==
  [][(pc = "control" \/ pc = "pull") /\ pc' # pc /\ "play" \in outbox => Stamp >= lastTick]_vars

(* loop_hooks.h:97-98: the audio event sink is wired into the engine, so   *)
(* whatever AudioEngine a running loop uses can reach the host.            *)
AudioReachesHost == Running => audio # "unwired"
=============================================================================
