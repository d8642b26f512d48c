---------------------------- MODULE RunLoopProofs ----------------------------
(***************************************************************************)
(* Proofs about RunLoop, for every set of control methods, steps and       *)
(* times, every queue length and every bound: the types, the frame at      *)
(* which steps end, the quit that is honoured before the view, and the     *)
(* clock of the ticks.                                                     *)
(***************************************************************************)
EXTENDS RunLoop, SequenceTheorems, WellFoundedInduction, TLAPS

-----------------------------------------------------------------------------
(* The inductive invariant.                                                *)

(* The host that stops at MaxFrames has stopped before one more frame.     *)
FramesLeft ==
  /\ pc = "top" /\ willing => frame < MaxFrames
  /\ pc \in {"control", "frozen"} => frame < MaxFrames

(* The goal is always as far away as the budget, and the loop is paused    *)
(* until it is there; it rests only without a budget.                      *)
StepsLeft ==
  /\ IF goal = 0 THEN budget = 0 ELSE paused /\ goal = frame + budget
  /\ pc = "frozen" => budget = 0

(* A QuitRegl is known to the loop or still queued in the host; past the   *)
(* checks around before_view there is none.                                *)
QuitKnown ==
  /\ asked => quit \/ "quit" \in outbox
  /\ pc = "render" => ~asked

(* The clock that the next tick reads.                                     *)
TickClock == IF controlled THEN ctime ELSE now

ClockAhead ==
  /\ lastTick <= TickClock
  /\ Running => started

IInv == TypeOK /\ FramesLeft /\ StepsLeft /\ QuitKnown /\ ClockAhead

-----------------------------------------------------------------------------
(* Lemmas about the constants, the control queue and the hooks.            *)

(* There is a least dt_ms, so a step without one has a duration.           *)
LEMMA DefaultIsADt == DefaultDt \in Dts
<1>1. Dts \subseteq Nat /\ Dts # {}
  BY RunLoopAssumption
<1> DEFINE Less == {p \in Nat \X Nat : p[1] < p[2]}
<1>2. IsWellFoundedOn(Less, Nat)
  BY NatLessThanWellFounded DEF OpToRel
<1>3. PICK d \in Dts : \A e \in Dts : ~ (<<e, d>> \in Less)
  <2> HIDE DEF Less
  <2> QED BY <1>1, <1>2, WFMin
<1>4. ASSUME NEW e \in Dts, e < d PROVE FALSE
  <2>1. e \in Nat /\ d \in Nat
    BY <1>1
  <2>2. <<e, d>> \in Less
    BY <1>4, <2>1
  <2> QED BY <1>3, <2>2
<1>5. \A e \in Dts : d <= e
  BY <1>1, <1>4
<1> QED BY <1>5 DEF DefaultDt

LEMMA MessageFields ==
  ASSUME NEW m \in Messages
  PROVE  /\ m.method \in Controls
         /\ m.n \in Nat
         /\ m.method = "step" => m.n \in Nat \ {0}
<1>1. CASE m \in [method : Controls \ {"step", "set_time"}, n : {0}]
  BY <1>1
<1>2. CASE m \in [method : Controls \cap {"step"}, n : Steps]
  BY <1>2, RunLoopAssumption
<1>3. CASE m \in [method : Controls \cap {"set_time"}, n : Times]
  BY <1>3, RunLoopAssumption
<1> QED BY <1>1, <1>2, <1>3 DEF Messages

(* The bounds are positive.                                                *)
LEMMA Bounds == /\ QueueCap \in Nat \ {0}
                /\ MaxTime \in Nat \ {0}
                /\ MaxFrames \in Nat \ {0}
  BY RunLoopAssumption

LEMMA TakeMessage ==
  ASSUME TypeOK, NEW method, Take(method)
  PROVE  /\ polled' \in Seq(Messages)
         /\ Len(polled') <= QueueCap
         /\ Head(polled) \in Messages
         /\ Head(polled).method = method
         /\ pc = "control"
<1>1. polled \in Seq(Messages) /\ polled # <<>> /\ Len(polled) <= QueueCap
  BY DEF TypeOK, QueuesTyped, Take
<1>2. /\ Tail(polled) \in Seq(Messages)
      /\ Len(Tail(polled)) = Len(polled) - 1
      /\ Head(polled) \in Messages
      /\ Len(polled) \in Nat
  BY <1>1, HeadTailProperties
<1> QED BY <1>1, <1>2, RunLoopAssumption DEF Take

(* What arrives keeps the queue typed and within its cap.                  *)
LEMMA ReceiveMessage ==
  ASSUME TypeOK, NEW m \in Messages, Receive(m)
  PROVE  inbox' \in Seq(Messages) /\ Len(inbox') <= QueueCap
<1>1. inbox \in Seq(Messages) /\ Len(inbox) <= QueueCap /\ QueueCap \in Nat \ {0}
  BY RunLoopAssumption DEF TypeOK, QueuesTyped
<1>2. CASE Len(inbox) < QueueCap
  <2>1. Append(inbox, m) \in Seq(Messages) /\ Len(Append(inbox, m)) = Len(inbox) + 1
    BY <1>1, AppendProperties
  <2> QED BY <1>1, <1>2, <2>1 DEF Receive
<1>3. CASE ~(Len(inbox) < QueueCap)
  <2>1. inbox # <<>> /\ Len(inbox) = QueueCap
    BY <1>1, <1>3
  <2>2. Tail(inbox) \in Seq(Messages) /\ Len(Tail(inbox)) = Len(inbox) - 1
    BY <1>1, <2>1, HeadTailProperties
  <2>3. /\ Append(Tail(inbox), m) \in Seq(Messages)
        /\ Len(Append(Tail(inbox), m)) = Len(Tail(inbox)) + 1
    BY <2>2, AppendProperties
  <2> QED BY <1>1, <1>3, <2>1, <2>2, <2>3 DEF Receive
<1> QED BY <1>2, <1>3

(* A hook keeps its variables typed, never makes the host willing again,   *)
(* and asks for a quit only together with the flag or the queue.           *)
LEMMA HookKeeps ==
  ASSUME TypeOK, QuitKnown, Hook
  PROVE  /\ quit' \in BOOLEAN /\ willing' \in BOOLEAN /\ asked' \in BOOLEAN
         /\ audio' \in {"none", "wired", "unwired"}
         /\ outbox' \subseteq {"quit", "play"}
         /\ willing' => willing
         /\ asked' => quit' \/ "quit" \in outbox'
<1> USE DEF TypeOK, FlagsTyped, MembersTyped, QueuesTyped, QuitKnown, hostVars
<1>1. CASE HostIdle
  BY <1>1 DEF HostIdle
<1>2. CASE HostQuits
  BY <1>2 DEF HostQuits
<1>3. CASE HostPlays
  BY <1>3 DEF HostPlays, AudioOnDemand
<1>4. CASE HostFails
  BY <1>4 DEF HostFails
<1>5. ASSUME NEW c \in {"quit", "play"}, HostQueues(c)
      PROVE  /\ quit' \in BOOLEAN /\ willing' \in BOOLEAN /\ asked' \in BOOLEAN
             /\ audio' \in {"none", "wired", "unwired"}
             /\ outbox' \subseteq {"quit", "play"}
             /\ willing' => willing
             /\ asked' => quit' \/ "quit" \in outbox'
  BY <1>5 DEF HostQueues
<1> QED BY <1>1, <1>2, <1>3, <1>4, <1>5 DEF Hook

(* A pull leaves nothing unknown: afterwards the flag alone tells.         *)
LEMMA PulledKeeps ==
  ASSUME TypeOK, QuitKnown, Pulled
  PROVE  /\ quit' \in BOOLEAN /\ willing' = willing /\ asked' = asked
         /\ audio' \in {"none", "wired", "unwired"}
         /\ outbox' \subseteq {"quit", "play"}
         /\ asked' => quit'
  BY DEF TypeOK, FlagsTyped, MembersTyped, QueuesTyped, QuitKnown, Pulled, QuitAfterPull,
     AudioOnDemand

-----------------------------------------------------------------------------
(* The invariant, action by action.                                        *)

LEMMA InitInv == Init => IInv
<1> SUFFICES ASSUME Init PROVE IInv
  OBVIOUS
<1> USE DEF Init, Running
<1>0. FlagsTyped
  BY DEF FlagsTyped
<1>1. MembersTyped
  BY DefaultIsADt, Bounds DEF MembersTyped
<1>2. QueuesTyped
  BY EmptySeq, Bounds DEF QueuesTyped
<1>3. FramesLeft /\ StepsLeft /\ QuitKnown /\ ClockAhead
  BY DEF FramesLeft, StepsLeft, QuitKnown, ClockAhead, TickClock
<1> QED BY <1>0, <1>1, <1>2, <1>3 DEF IInv, TypeOK

LEMMA OutsideInv == IInv /\ Outside => IInv'
<1> SUFFICES ASSUME IInv, Outside PROVE IInv'
  OBVIOUS
<1> USE Bounds DEF IInv, TypeOK, Running, engineVars, controlVars, clockVars, frameVars,
       hostVars
<1>1. CASE DispatchOutside
  <2>1. FlagsTyped' /\ QueuesTyped' /\ QuitKnown'
    BY <1>1 DEF FlagsTyped, QueuesTyped, QuitKnown, DispatchOutside, EnsureEngine
  <2>2. MembersTyped' /\ FramesLeft'
    BY <1>1 DEF MembersTyped, FramesLeft, DispatchOutside, EnsureEngine
  <2>3. StepsLeft' /\ ClockAhead'
    BY <1>1 DEF MembersTyped, StepsLeft, ClockAhead, TickClock, DispatchOutside, EnsureEngine
  <2> QED BY <1>1, <2>1, <2>2, <2>3 DEF DispatchOutside, EnsureEngine
<1>2. CASE Run
  <2>1. FlagsTyped' /\ QueuesTyped' /\ QuitKnown'
    BY <1>2 DEF FlagsTyped, QueuesTyped, QuitKnown, Run, MayRun
  <2>2. MembersTyped' /\ FramesLeft'
    BY <1>2 DEF MembersTyped, FramesLeft, Run, MayRun
  <2>3. StepsLeft' /\ ClockAhead'
    BY <1>2 DEF MembersTyped, StepsLeft, ClockAhead, TickClock, Run, MayRun
  <2> QED BY <1>2, <2>1, <2>2, <2>3 DEF Run, MayRun
<1>3. ASSUME NEW ok \in BOOLEAN, NEW thenQuit \in BOOLEAN, StartRegl(ok, thenQuit)
      PROVE  IInv'
  <2>1. FlagsTyped' /\ QueuesTyped' /\ QuitKnown'
    BY <1>3 DEF FlagsTyped, QueuesTyped, QuitKnown, StartRegl, EnsureEngine, AfterFailedStart
  <2>2. MembersTyped' /\ FramesLeft'
    BY <1>3 DEF MembersTyped, FramesLeft, StartRegl, EnsureEngine, AfterFailedStart
  <2>3. StepsLeft' /\ ClockAhead'
    BY <1>3 DEF MembersTyped, StepsLeft, ClockAhead, TickClock, StartRegl, EnsureEngine,
       AfterFailedStart
  <2> QED BY <1>3, <2>1, <2>2, <2>3 DEF StartRegl, EnsureEngine, AfterFailedStart
<1> QED BY <1>1, <1>2, <1>3 DEF Outside

LEMMA ControlInv == IInv /\ Control => IInv'
<1> SUFFICES ASSUME IInv, Control PROVE IInv'
  OBVIOUS
<1>0. ASSUME NEW method, Take(method)
      PROVE  /\ polled' \in Seq(Messages) /\ Len(polled') <= QueueCap
             /\ Head(polled).n \in Nat
             /\ method = "step" => Head(polled).n > 0
             /\ pc = "control"
  BY <1>0, TakeMessage, MessageFields DEF IInv
<1> USE Bounds DEF IInv, TypeOK, Running, engineVars, controlVars, clockVars, frameVars,
       hostVars, Kept
<1>1. CASE Pause
  <2>1. FlagsTyped' /\ QueuesTyped' /\ QuitKnown'
    BY <1>0, <1>1 DEF FlagsTyped, QueuesTyped, QuitKnown, Pause
  <2>2. MembersTyped' /\ FramesLeft'
    BY <1>0, <1>1 DEF MembersTyped, FramesLeft, Pause
  <2>3. StepsLeft' /\ ClockAhead'
    BY <1>0, <1>1 DEF MembersTyped, StepsLeft, ClockAhead, TickClock, Pause
  <2> QED BY <1>0, <1>1, <2>1, <2>2, <2>3 DEF Pause
<1>2. CASE Resume
  <2>1. FlagsTyped' /\ QueuesTyped' /\ QuitKnown'
    BY <1>0, <1>2 DEF FlagsTyped, QueuesTyped, QuitKnown, Resume
  <2>2. MembersTyped' /\ FramesLeft'
    BY <1>0, <1>2 DEF MembersTyped, FramesLeft, Resume
  <2>3. StepsLeft' /\ ClockAhead'
    BY <1>0, <1>2 DEF MembersTyped, StepsLeft, ClockAhead, TickClock, Resume
  <2> QED BY <1>0, <1>2, <2>1, <2>2, <2>3 DEF Resume
<1>3. CASE ControlQuit
  <2>1. FlagsTyped' /\ QueuesTyped' /\ QuitKnown'
    BY <1>0, <1>3 DEF FlagsTyped, QueuesTyped, QuitKnown, ControlQuit
  <2>2. MembersTyped' /\ FramesLeft'
    BY <1>0, <1>3 DEF MembersTyped, FramesLeft, ControlQuit
  <2>3. StepsLeft' /\ ClockAhead'
    BY <1>0, <1>3 DEF MembersTyped, StepsLeft, ClockAhead, TickClock, ControlQuit
  <2> QED BY <1>0, <1>3, <2>1, <2>2, <2>3 DEF ControlQuit
<1>4. CASE SetTime
  <2>1. FlagsTyped' /\ QueuesTyped' /\ QuitKnown'
    BY <1>0, <1>4 DEF FlagsTyped, QueuesTyped, QuitKnown, SetTime
  <2>2. MembersTyped' /\ FramesLeft'
    BY <1>0, <1>4 DEF MembersTyped, FramesLeft, SetTime
  <2>3. StepsLeft' /\ ClockAhead'
    BY <1>0, <1>4 DEF MembersTyped, StepsLeft, ClockAhead, TickClock, SetTime
  <2> QED BY <1>0, <1>4, <2>1, <2>2, <2>3 DEF SetTime
<1>5. CASE Input
  <2>1. FlagsTyped' /\ QueuesTyped' /\ QuitKnown'
    BY <1>0, <1>5, HookKeeps DEF FlagsTyped, QueuesTyped, QuitKnown, Input
  <2>2. MembersTyped' /\ FramesLeft'
    BY <1>0, <1>5, HookKeeps DEF MembersTyped, FramesLeft, Input
  <2>3. StepsLeft' /\ ClockAhead'
    BY <1>0, <1>5, HookKeeps DEF MembersTyped, StepsLeft, ClockAhead, TickClock, Input
  <2> QED BY <1>0, <1>5, HookKeeps, <2>1, <2>2, <2>3 DEF Input
<1>6. CASE Screenshot
  <2>1. FlagsTyped' /\ QueuesTyped' /\ QuitKnown'
    BY <1>0, <1>6, HookKeeps DEF FlagsTyped, QueuesTyped, QuitKnown, Screenshot, Hook
  <2>2. MembersTyped' /\ FramesLeft'
    BY <1>0, <1>6, HookKeeps DEF MembersTyped, FramesLeft, Screenshot, Hook
  <2>3. StepsLeft' /\ ClockAhead'
    BY <1>0, <1>6, HookKeeps DEF MembersTyped, StepsLeft, ClockAhead, TickClock, Screenshot,
       Hook
  <2> QED BY <1>0, <1>6, HookKeeps, <2>1, <2>2, <2>3 DEF Screenshot, Hook
<1>7. ASSUME NEW d \in Dts, Step(d) PROVE IInv'
  <2>1. FlagsTyped' /\ QueuesTyped' /\ QuitKnown'
    BY <1>0, <1>7 DEF FlagsTyped, QueuesTyped, QuitKnown, Step, ClockAtStep, Stamp,
       BudgetAfterStep
  <2>2. MembersTyped' /\ FramesLeft'
    BY <1>0, <1>7 DEF MembersTyped, FramesLeft, Step, ClockAtStep, Stamp, BudgetAfterStep
  <2>3. StepsLeft'
    <3>1. /\ paused' = TRUE /\ budget' = budget + Head(polled).n /\ pc' = pc /\ frame' = frame
          /\ goal' = (IF goal = 0 \/ budget = 0 THEN frame ELSE goal) + Head(polled).n
      BY <1>7 DEF Step, BudgetAfterStep, Take, Kept, frameVars
    <3>2. Head(polled).n \in Nat \ {0} /\ frame \in Nat /\ budget \in Nat /\ goal \in Nat
      BY <1>0, <1>7 DEF MembersTyped, Step, Take
    <3>3. pc # "frozen"
      BY <1>7 DEF Step, Take
    <3>4. IF goal = 0 THEN budget = 0 ELSE goal = frame + budget
      BY <1>0 DEF StepsLeft
    <3>5. goal' # 0 /\ goal' = frame' + budget'
      BY ONLY <3>1, <3>2, <3>4
    <3>6. paused' /\ pc' # "frozen"
      BY ONLY <3>1, <3>3
    <3> QED BY ONLY <3>5, <3>6 DEF StepsLeft
  <2>4. ClockAhead'
    BY <1>0, <1>7 DEF MembersTyped, ClockAhead, TickClock, Step, ClockAtStep, Stamp
  <2> QED BY <1>0, <1>7, <2>1, <2>2, <2>3, <2>4 DEF Step, ClockAtStep, Stamp, BudgetAfterStep
<1> QED BY <1>1, <1>2, <1>3, <1>4, <1>5, <1>6, <1>7 DEF Control

LEMMA DriveInv == IInv /\ Drive => IInv'
<1> SUFFICES ASSUME IInv, Drive PROVE IInv'
  OBVIOUS
<1> USE Bounds DEF IInv, TypeOK, Running, engineVars, controlVars, clockVars, frameVars,
       hostVars
<1>1. CASE Top
  <2>1. FlagsTyped'
    BY <1>1, EmptySeq DEF FlagsTyped, Top
  <2>2. MembersTyped'
    BY <1>1, EmptySeq DEF MembersTyped, FramesLeft, Top
  <2>3. QueuesTyped'
    <3>1. <<>> \in Seq(Messages) /\ Len(<<>>) <= QueueCap
      BY EmptySeq
    <3>2. UNCHANGED outbox /\ (UNCHANGED <<inbox, polled>> \/ (polled' = inbox /\ inbox' = <<>>))
      BY <1>1 DEF Top
    <3> QED BY <3>1, <3>2 DEF QueuesTyped
  <2>4. FramesLeft'
    BY <1>1, EmptySeq DEF MembersTyped, FramesLeft, Top
  <2>5. QuitKnown'
    BY <1>1, EmptySeq DEF QuitKnown, Top
  <2>6. StepsLeft'
    BY <1>1, EmptySeq DEF MembersTyped, StepsLeft, Top
  <2>7. ClockAhead'
    BY <1>1, EmptySeq DEF MembersTyped, ClockAhead, TickClock, Top
  <2> QED BY <1>1, EmptySeq, <2>1, <2>2, <2>3, <2>4, <2>5, <2>6, <2>7 DEF Top
<1>2. CASE Control
  BY <1>2, ControlInv
<1>3. CASE Pull
  <2>1. FlagsTyped' /\ QueuesTyped' /\ QuitKnown'
    BY <1>3, PulledKeeps DEF FlagsTyped, QueuesTyped, QuitKnown, Pull, Frozen, BudgetAfterFrame
  <2>2. MembersTyped' /\ FramesLeft'
    BY <1>3, PulledKeeps DEF MembersTyped, FramesLeft, Pull, Frozen, BudgetAfterFrame
  <2>3. StepsLeft' /\ ClockAhead'
    BY <1>3, PulledKeeps DEF MembersTyped, StepsLeft, ClockAhead, TickClock, Pull, Frozen,
       BudgetAfterFrame
  <2> QED BY <1>3, PulledKeeps, <2>1, <2>2, <2>3 DEF Pull, Frozen, BudgetAfterFrame
<1>4. CASE Tick
  <2>1. FlagsTyped' /\ QueuesTyped' /\ QuitKnown'
    BY <1>4, HookKeeps DEF FlagsTyped, QueuesTyped, QuitKnown, Tick
  <2>2. MembersTyped' /\ FramesLeft'
    BY <1>4, HookKeeps DEF MembersTyped, FramesLeft, Tick
  <2>3. StepsLeft' /\ ClockAhead'
    BY <1>4, HookKeeps DEF MembersTyped, StepsLeft, ClockAhead, TickClock, Tick
  <2> QED BY <1>4, HookKeeps, <2>1, <2>2, <2>3 DEF Tick
<1>5. CASE BeforeView
  <2>1. FlagsTyped' /\ QueuesTyped' /\ QuitKnown'
    BY <1>5, HookKeeps DEF FlagsTyped, QueuesTyped, QuitKnown, BeforeView
  <2>2. MembersTyped' /\ FramesLeft'
    BY <1>5, HookKeeps DEF MembersTyped, FramesLeft, BeforeView
  <2>3. StepsLeft' /\ ClockAhead'
    BY <1>5, HookKeeps DEF MembersTyped, StepsLeft, ClockAhead, TickClock, BeforeView
  <2> QED BY <1>5, HookKeeps, <2>1, <2>2, <2>3 DEF BeforeView
<1>6. CASE Exit
  <2>1. FlagsTyped' /\ QueuesTyped' /\ QuitKnown'
    <3>1. <<>> \in Seq(Messages) /\ Len(<<>>) <= QueueCap
      BY EmptySeq
    <3>2. FlagsTyped' /\ QuitKnown'
      BY <1>6 DEF FlagsTyped, QuitKnown, Exit
    <3> QED BY <1>6, <3>1, <3>2 DEF QueuesTyped, Exit
  <2>2. MembersTyped' /\ FramesLeft'
    BY <1>6, EmptySeq DEF MembersTyped, FramesLeft, Exit
  <2>3. StepsLeft' /\ ClockAhead'
    BY <1>6, EmptySeq DEF MembersTyped, StepsLeft, ClockAhead, TickClock, Exit
  <2> QED BY <1>6, EmptySeq, <2>1, <2>2, <2>3 DEF Exit
<1>7. ASSUME NEW closed \in BOOLEAN, Pump(closed) PROVE IInv'
  <2>1. FlagsTyped' /\ QueuesTyped' /\ QuitKnown'
    BY <1>7, HookKeeps DEF FlagsTyped, QueuesTyped, QuitKnown, Pump
  <2>2. MembersTyped' /\ FramesLeft'
    BY <1>7, HookKeeps DEF MembersTyped, FramesLeft, Pump
  <2>3. StepsLeft' /\ ClockAhead'
    BY <1>7, HookKeeps DEF MembersTyped, StepsLeft, ClockAhead, TickClock, Pump
  <2> QED BY <1>7, HookKeeps, <2>1, <2>2, <2>3 DEF Pump
<1>8. ASSUME NEW drawn \in BOOLEAN, Render(drawn) PROVE IInv'
  <2>1. Hook
    BY <1>8 DEF Render, Hook
  <2>2. FlagsTyped' /\ QueuesTyped' /\ QuitKnown'
    BY <1>8, <2>1, HookKeeps DEF FlagsTyped, QueuesTyped, QuitKnown, Render
  <2>3. MembersTyped'
    BY <1>8, <2>1, HookKeeps, RunLoopAssumption DEF MembersTyped, Render
  <2>4. FramesLeft'
    <3>1. pc' = "top" /\ UNCHANGED frame /\ frame \in 0..MaxFrames
      BY <1>8 DEF Render, MembersTyped
    <3>2. frame < MaxFrames \/ ~willing'
      BY <1>8, <3>1 DEF Render, HostFails
    <3> QED BY <3>1, <3>2 DEF FramesLeft
  <2>5. StepsLeft'
    BY <1>8 DEF MembersTyped, StepsLeft, Render
  <2>6. ClockAhead'
    <3>1. /\ controlled' = controlled /\ started' = started /\ lastTick' = lastTick /\ now' = now
          /\ ctime' = IF controlled THEN ctime + dt ELSE ctime
          /\ pc = "render" /\ pc' = "top"
      BY <1>8 DEF Render
    <3>2. dt \in Nat /\ ctime \in Nat /\ lastTick \in Nat
      BY RunLoopAssumption DEF MembersTyped
    <3> QED BY <3>1, <3>2 DEF ClockAhead, TickClock
  <2> QED BY <1>8, <2>2, <2>3, <2>4, <2>5, <2>6 DEF Render
<1>9. CASE PullAgain
  <2>1. FlagsTyped' /\ QueuesTyped' /\ QuitKnown'
    BY <1>9, PulledKeeps DEF FlagsTyped, QueuesTyped, QuitKnown, PullAgain, PulledBeforeView
  <2>2. MembersTyped' /\ FramesLeft'
    BY <1>9, PulledKeeps DEF MembersTyped, FramesLeft, PullAgain, PulledBeforeView
  <2>3. StepsLeft' /\ ClockAhead'
    BY <1>9, PulledKeeps DEF MembersTyped, StepsLeft, ClockAhead, TickClock, PullAgain,
       PulledBeforeView
  <2> QED BY <1>9, PulledKeeps, <2>1, <2>2, <2>3 DEF PullAgain, PulledBeforeView
<1>10. CASE BeforeEvents
  <2>1. FlagsTyped' /\ QueuesTyped' /\ QuitKnown'
    BY <1>10, HookKeeps DEF FlagsTyped, QueuesTyped, QuitKnown, BeforeEvents
  <2>2. MembersTyped' /\ FramesLeft'
    BY <1>10, HookKeeps DEF MembersTyped, FramesLeft, BeforeEvents
  <2>3. StepsLeft' /\ ClockAhead'
    BY <1>10, HookKeeps DEF MembersTyped, StepsLeft, ClockAhead, TickClock, BeforeEvents
  <2> QED BY <1>10, HookKeeps, <2>1, <2>2, <2>3 DEF BeforeEvents
<1> QED BY <1>1, <1>2, <1>3, <1>4, <1>5, <1>6, <1>7, <1>8, <1>9, <1>10 DEF Drive

LEMMA NextInv == IInv /\ [Next]_vars => IInv'
<1> SUFFICES ASSUME IInv, [Next]_vars PROVE IInv'
  OBVIOUS
<1>1. CASE Outside
  BY <1>1, OutsideInv
<1>2. CASE Drive
  BY <1>2, DriveInv
<1> USE Bounds DEF IInv, TypeOK, Running, engineVars, controlVars, clockVars, frameVars,
       hostVars
<1>3. CASE Pass
  <2>1. FlagsTyped' /\ QueuesTyped' /\ QuitKnown'
    BY <1>3 DEF FlagsTyped, QueuesTyped, QuitKnown, Pass
  <2>2. MembersTyped' /\ FramesLeft'
    BY <1>3 DEF MembersTyped, FramesLeft, Pass
  <2>3. StepsLeft' /\ ClockAhead'
    BY <1>3 DEF MembersTyped, StepsLeft, ClockAhead, TickClock, Pass
  <2> QED BY <1>3, <2>1, <2>2, <2>3 DEF Pass
<1>4. ASSUME NEW m \in Messages, Receive(m) PROVE IInv'
  <2>1. FlagsTyped' /\ QueuesTyped' /\ QuitKnown'
    BY <1>4, ReceiveMessage DEF FlagsTyped, QueuesTyped, QuitKnown, Receive
  <2>2. MembersTyped' /\ FramesLeft'
    BY <1>4, ReceiveMessage DEF MembersTyped, FramesLeft, Receive
  <2>3. StepsLeft' /\ ClockAhead'
    BY <1>4, ReceiveMessage DEF MembersTyped, StepsLeft, ClockAhead, TickClock, Receive
  <2> QED BY <1>4, ReceiveMessage, <2>1, <2>2, <2>3 DEF Receive
<1>5. CASE UNCHANGED vars
  <2>1. FlagsTyped' /\ QueuesTyped' /\ QuitKnown'
    BY <1>5 DEF FlagsTyped, QueuesTyped, QuitKnown, vars
  <2>2. MembersTyped' /\ FramesLeft'
    BY <1>5 DEF MembersTyped, FramesLeft, vars
  <2>3. StepsLeft' /\ ClockAhead'
    BY <1>5 DEF MembersTyped, StepsLeft, ClockAhead, TickClock, vars
  <2> QED BY <1>5, <2>1, <2>2, <2>3 DEF vars
<1> QED BY <1>1, <1>2, <1>3, <1>4, <1>5 DEF Next

LEMMA Invariance == Spec => []IInv
  BY InitInv, NextInv, PTL DEF Spec

-----------------------------------------------------------------------------
(* The theorems.                                                           *)

(* Every variable keeps its type, the control queue its cap, and the loop  *)
(* runs only with a window (run and ControlClient::enqueue).               *)
THEOREM TypeCorrect == Spec => []TypeOK
<1>1. IInv => TypeOK
  BY DEF IInv
<1> QED BY <1>1, Invariance, PTL

(* However steps, pauses and resumes are mixed in one batch, a loop that   *)
(* has come to rest stands at the frame the steps add up to                *)
(* (apply_control_commands, and the budget in drive_one_frame).            *)
THEOREM StepsEndAtTheirFrame == Spec => []StepsEndOnFrame
<1>1. IInv => StepsEndOnFrame
  BY DEF IInv, TypeOK, MembersTyped, StepsLeft, StepsEndOnFrame
<1> QED BY <1>1, Invariance, PTL

(* A QuitRegl issued while the host handles input, a tick or a pull never  *)
(* lets one more view be drawn, whether it was dispatched or queued (the   *)
(* checks around before_view).                                             *)
THEOREM QuitBeforeView == Spec => NoViewAfterQuit
<1>1. IInv => (pc = "render" => ~asked)
  BY DEF IInv, QuitKnown
<1>2. IInv /\ [Next]_vars => [pc = "render" /\ pc' = "top" => ~asked]_vars
  BY <1>1
<1> QED BY <1>2, Invariance, PTL DEF Spec, NoViewAfterQuit

(* The timestamps of UpdateTick never go back while the remote clock is    *)
(* not set, also where a step takes the clock over (clock_now_ms).         *)
THEOREM TicksGoForward == Spec => TicksNeverGoBack
<1>1. ASSUME IInv, [Next]_vars, pc = "tick" PROVE lastTick' >= lastTick
  <2>1. Tick \/ UNCHANGED lastTick
    BY <1>1 DEF Next, Outside, DispatchOutside, StartRegl, Run, Running, Drive, Top, Control,
       Pause, Resume, ControlQuit, SetTime, Input, Screenshot, Step, Take, Pull, BeforeEvents,
       BeforeView, PullAgain, Exit, Pump, Render, Pass, Receive, vars
  <2>2. lastTick <= TickClock /\ lastTick \in Nat
    BY <1>1 DEF IInv, ClockAhead, TypeOK, MembersTyped
  <2> QED BY <2>1, <2>2 DEF Tick, TickClock
<1>2. IInv /\ [Next]_vars => [pc = "tick" => lastTick' >= lastTick]_vars
  BY <1>1
<1> QED BY <1>2, Invariance, PTL DEF Spec, TicksNeverGoBack
=============================================================================
