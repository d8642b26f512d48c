---------------------------- MODULE ElmHostProofs ----------------------------
(***************************************************************************)
(* Proofs about ElmHost, for every set of paths, kinds of commands and     *)
(* delays, and every bound: the types, the order in which the engine sees  *)
(* the commands, whose request an answer is for, and the frame in which an *)
(* animation frame runs.                                                   *)
(***************************************************************************)
EXTENDS ElmHost, FiniteSetTheorems, SequenceTheorems, WellFoundedInduction, TLAPS

-----------------------------------------------------------------------------
(* The elements of a sequence at some of its positions.  The modules that  *)
(* use Pick repeat these lemmas: none of them extends another.             *)

(* A set of natural numbers that is not empty has a smallest member.       *)
LEMMA SmallestOf ==
  ASSUME NEW T \in SUBSET Nat, T # {}
  PROVE  \E t \in T : \A u \in T : t <= u
<1> DEFINE Less == {p \in Nat \X Nat : p[1] < p[2]}
<1>1. IsWellFoundedOn(Less, Nat)
  BY NatLessThanWellFounded DEF OpToRel
<1>2. PICK t \in T : \A u \in T : ~ (<<u, t>> \in Less)
  <2> HIDE DEF Less
  <2> QED BY <1>1, WFMin
<1>3. ASSUME NEW u \in T PROVE t <= u
  <2>1. t \in Nat /\ u \in Nat
    OBVIOUS
  <2>2. <<u, t>> \notin Less
    BY <1>2
  <2>3. ~ (u < t)
    BY <2>1, <2>2
  <2> QED BY <2>1, <2>3
<1> QED BY <1>3

(* Positions can be enumerated in increasing order: the last one after the *)
(* others.                                                                 *)
LEMMA EnumerationFacts ==
  ASSUME NEW N \in Nat, NEW I \in SUBSET (1..N)
  PROVE  /\ Cardinality(I) \in 0..N
         /\ Enumeration(I) \in [1..Cardinality(I) -> I] /\ Increasing(Enumeration(I))
         /\ \A i \in I : \E n \in 1..Cardinality(I) : Enumeration(I)[n] = i
<1> DEFINE Listed(J) == \E at \in [1..Cardinality(J) -> J] : Increasing(at)
           Bad == {k \in Nat : \E J \in SUBSET (1..k) : ~Listed(J)}
<1>1. ASSUME NEW k \in Nat, NEW J \in SUBSET (1..k)
      PROVE  IsFiniteSet(J) /\ Cardinality(J) \in 0..k
  <2>1. IsFiniteSet(1..k) /\ Cardinality(1..k) = k
    BY FS_Interval
  <2>2. IsFiniteSet(J) /\ Cardinality(J) <= k
    BY <2>1, FS_Subset
  <2> QED BY <2>2, FS_CardinalityType
<1>2. Bad = {}
  <2>1. SUFFICES ASSUME Bad # {} PROVE FALSE
    OBVIOUS
  <2>2. PICK k \in Bad : \A m \in Bad : k <= m
    <3> HIDE DEF Bad
    <3>1. Bad \in SUBSET Nat
      BY DEF Bad
    <3> QED BY <2>1, <3>1, SmallestOf
  <2>3. PICK J \in SUBSET (1..k) : ~Listed(J)
    OBVIOUS
  <2>4. k \in Nat /\ k # 0
    <3>1. CASE k = 0
      <4>1. J = {}
        BY <3>1
      <4>2. Cardinality(J) = 0
        BY <4>1, FS_EmptySet
      <4>3. <<>> \in [1..Cardinality(J) -> J] /\ Increasing(<<>>)
        BY <4>2 DEF Increasing
      <4> QED BY <2>3, <4>3
    <3> QED BY <3>1
  <2>5. \A K \in SUBSET (1..(k - 1)) : Listed(K)
    <3>1. k - 1 \in Nat /\ k - 1 \notin Bad
      <4> HIDE DEF Bad
      <4> QED BY <2>2, <2>4
    <3> QED BY <3>1
  <2> HIDE DEF Bad, Listed
  <2>6. k \in J
    BY <2>3, <2>4, <2>5
  <2> DEFINE K == J \ {k}
             c == Cardinality(K)
  <2>7. K \in SUBSET (1..(k - 1))
    BY <2>4
  <2>8. c \in Nat /\ Cardinality(J) = c + 1
    <3>1. IsFiniteSet(J) /\ IsFiniteSet(K)
      BY <1>1, <2>4, <2>7
    <3>2. Cardinality(J) \in Nat /\ c = Cardinality(J) - 1 /\ c \in Nat
      BY <2>6, <3>1, FS_RemoveElement, FS_CardinalityType
    <3> QED BY <3>2
  <2>9. PICK at \in [1..c -> K] : Increasing(at)
    BY <2>5, <2>7 DEF Listed
  <2> DEFINE next == [n \in 1..(c + 1) |-> IF n = c + 1 THEN k ELSE at[n]]
  <2> HIDE DEF c
  <2>10. next \in [1..(c + 1) -> J]
    BY <2>6, <2>8
  <2>11. Increasing(next)
    <3>1. \A n \in 1..c : at[n] \in 1..(k - 1)
      BY <2>7
    <3>2. ASSUME NEW m \in 1..(c + 1), NEW n \in 1..(c + 1), m < n
          PROVE  next[m] < next[n]
      <4>1. m \in 1..c /\ next[m] = at[m]
        BY <2>8, <3>2
      <4>2. CASE n = c + 1
        BY <2>4, <3>1, <4>1, <4>2
      <4>3. CASE n # c + 1
        BY <2>8, <2>9, <3>2, <4>1, <4>3 DEF Increasing
      <4> QED BY <4>2, <4>3
    <3> QED BY <3>2 DEF Increasing
  <2> HIDE DEF next
  <2> QED BY <2>3, <2>8, <2>10, <2>11 DEF Listed
<1> DEFINE at == Enumeration(I)
<1>3. at \in [1..Cardinality(I) -> I] /\ Increasing(at)
  <2>1. Listed(I)
    BY <1>2
  <2> QED BY <2>1 DEF Enumeration
<1>4. IsFiniteSet(I) /\ Cardinality(I) \in 0..N
  BY <1>1
<1> HIDE DEF at
<1>5. at \in Surjection(1..Cardinality(I), I)
  <2>1. ASSUME NEW m \in 1..Cardinality(I), NEW n \in 1..Cardinality(I), at[m] = at[n]
        PROVE  m = n
    <3>1. at[m] \in 1..N /\ at[n] \in 1..N
      BY <1>3
    <3>2. ~(m < n) /\ ~(n < m)
      BY <1>3, <2>1, <3>1 DEF Increasing
    <3> QED BY <1>4, <3>2
  <2>2. at \in Injection(1..Cardinality(I), I)
    BY <1>3, <2>1 DEF Injection, IsInjective
  <2>3. Cardinality(1..Cardinality(I)) = Cardinality(I)
    BY <1>4, FS_Interval
  <2> QED BY <1>4, <2>2, <2>3, FS_Injection
<1> QED BY <1>3, <1>4, <1>5 DEF Surjection, at

(* The elements of p stand in q at the positions I, where at places them.  *)
Places(at, p, q, I) ==
  /\ at \in [1..Len(p) -> 1..Len(q)]
  /\ \A n \in 1..Len(p) : p[n] = q[at[n]] /\ at[n] \in I
  /\ \A m, n \in 1..Len(p) : m < n => at[m] < at[n]
  /\ \A i \in I : \E n \in 1..Len(p) : at[n] = i

(* What Pick returns: a sequence of elements of q, placed by an increasing *)
(* map whose values are exactly the positions picked.                      *)
LEMMA PickFacts ==
  ASSUME NEW S, NEW q \in Seq(S), NEW I \in SUBSET DOMAIN q
  PROVE  /\ Pick(q, I) \in Seq(S)
         /\ Len(Pick(q, I)) \in 0..Len(q)
         /\ \E at : Places(at, Pick(q, I), q, I)
<1> DEFINE c == Cardinality(I)
           at == Enumeration(I)
<1>1. Len(q) \in Nat /\ I \in SUBSET (1..Len(q)) /\ \A i \in 1..Len(q) : q[i] \in S
  BY LenProperties, ElementOfSeq
<1>2. /\ c \in 0..Len(q) /\ at \in [1..c -> I] /\ Increasing(at)
      /\ \A i \in I : \E n \in 1..c : at[n] = i
  BY <1>1, EnumerationFacts
<1>3. Pick(q, I) = [n \in DOMAIN at |-> q[at[n]]]
  BY DEF Pick
<1> HIDE DEF c, at
<1>4. Pick(q, I) \in [1..c -> S] /\ \A n \in 1..c : Pick(q, I)[n] = q[at[n]]
  BY <1>1, <1>2, <1>3
<1>5. Pick(q, I) \in Seq(S) /\ Len(Pick(q, I)) = c
  BY <1>2, <1>4
<1>6. Places(at, Pick(q, I), q, I)
  BY <1>1, <1>2, <1>4, <1>5 DEF Places, Increasing
<1> QED BY <1>2, <1>5, <1>6

-----------------------------------------------------------------------------
(* The inductive invariant.                                                *)

(* The commands sent are applied, in the batch, queued or held back; each  *)
(* stands at the place its number says, StartRegl at the first one.  As    *)
(* long as StartRegl was not seen all of them are held back.               *)
CommandsInOrder ==
  /\ \A i \in 1..Len(applied)  : applied[i].id = i - 1
  /\ \A i \in 1..Len(batch)    : batch[i].id = Len(applied) + i - 1
  /\ \A i \in 1..Len(commands) : commands[i].id = Len(applied) + Len(batch) + i - 1
  /\ \A i \in 1..Len(preStart) : preStart[i].id = i
  /\ IF startSeen
     THEN preStart = <<>> /\ Len(applied) + Len(batch) + Len(commands) = issued + 1
     ELSE /\ applied = <<>> /\ batch = <<>> /\ commands = <<>>
          /\ Len(preStart) = issued

(* The loads in the engine were applied, in this order, and there is no    *)
(* sound among them before the device is open.                             *)
LoadsInOrder ==
  /\ \A i \in 1..Len(loading) : loading[i].kind \in Requests /\ loading[i].id < Len(applied)
  /\ \A i, j \in 1..Len(loading) : i < j => loading[i].id < loading[j].id
  /\ ~device => \A i \in 1..Len(loading) : loading[i].kind # "audio"

(* The commands that still have an answer to come.                         *)
InHand == Range(loading) \cup Range(batch) \cup Range(commands) \cup Range(preStart)

Asking(k, p) == {c.id : c \in {d \in InHand : d.kind = k /\ d.path = p}}

(* For each path the requests that wait are those still in hand, in the    *)
(* order they were made; after a failure answers are dropped.              *)
RequestsWait ==
  /\ ~failed => \A k \in Requests, p \in Path : Range(pending[k][p]) = Asking(k, p)
  /\ \A k \in Requests, p \in Path : \A i, j \in 1..Len(pending[k][p]) :
       pending[k][p][i] <= issued /\ (i < j => pending[k][p][i] < pending[k][p][j])

(* Every animation frame on the list was asked for since the last call of  *)
(* run_timers at the start of a frame and is due.                          *)
FramesAreNew ==
  /\ \A i \in 1..Len(timers) : timers[i].frame => timers[i].born = odd /\ timers[i].due <= now
  /\ \A i \in 1..Len(due) : due[i].frame => due[i].born # odd /\ stage = "events"

IInv ==
  TypeOK /\ CommandsInOrder /\ LoadsInOrder /\ RequestsWait /\ FramesAreNew
  /\ AnswersFindTheirRequest

-----------------------------------------------------------------------------
(* Lemmas about commands, sequences and timers.                            *)

LEMMA CmdFacts ==
  ASSUME NEW c \in Cmd
  PROVE  /\ c.kind \in {"start", "file", "audio", "program"}
         /\ c.id \in Nat
         /\ c.kind \in Requests => c.id \in 1..MaxCommands /\ c.path \in Path
         /\ c.kind = "start" => c = StartCmd
<1>0. MaxCommands \in Nat
  BY ElmHostAssumption
<1>1. CASE c = StartCmd
  BY <1>1 DEF StartCmd, Requests
<1>2. CASE c \in [kind : Requests, id : 1..MaxCommands, path : Path]
  BY <1>0, <1>2 DEF Requests
<1>3. CASE c \in [kind : {"program"}, id : 1..MaxCommands, path : {NoPath}]
  BY <1>0, <1>3 DEF Requests
<1> QED BY <1>1, <1>2, <1>3 DEF Cmd

LEMMA StartIsACmd == StartCmd \in Cmd /\ StartCmd.kind = "start" /\ StartCmd.id = 0
  BY DEF Cmd, StartCmd

LEMMA Bounds == MaxTimers \in Nat /\ MaxCommands \in Nat /\ MaxNow \in Nat
  BY ElmHostAssumption

LEMMA TimerFacts ==
  ASSUME NEW t \in Timer
  PROVE  t.id \in 1..MaxTimers /\ t.due \in Nat /\ t.frame \in BOOLEAN /\ t.born \in BOOLEAN
  BY DEF Timer

(* The elements of a sequence, and what adding and taking does to them.    *)
LEMMA RangeAppend ==
  ASSUME NEW S, NEW q \in Seq(S), NEW e \in S
  PROVE  Range(Append(q, e)) = Range(q) \cup {e}
<1> DEFINE r == Append(q, e)
<1>1. /\ r \in Seq(S) /\ Len(r) = Len(q) + 1 /\ Len(q) \in Nat
      /\ \A i \in 1..Len(q) : r[i] = q[i]
      /\ r[Len(q) + 1] = e
  BY AppendProperties, LenProperties
<1>2. Range(r) = {r[i] : i \in 1..Len(q) + 1}
  <2> HIDE DEF r
  <2> QED BY <1>1, RangeEquality
<1>3. Range(q) = {q[i] : i \in 1..Len(q)}
  BY RangeEquality
<1> HIDE DEF r
<1>4. ASSUME NEW i \in 1..Len(q) + 1 PROVE r[i] \in Range(q) \cup {e}
  <2>1. i \in 1..Len(q) \/ i = Len(q) + 1
    BY <1>1
  <2> QED BY <1>1, <1>3, <2>1
<1>5. ASSUME NEW i \in 1..Len(q) PROVE q[i] \in Range(r)
  <2>1. i \in 1..Len(q) + 1
    BY <1>1
  <2> QED BY <1>1, <1>2, <2>1
<1>6. e \in Range(r)
  <2>1. Len(q) + 1 \in 1..Len(q) + 1
    BY <1>1
  <2> QED BY <1>1, <1>2, <2>1
<1>7. Range(r) = Range(q) \cup {e}
  BY <1>2, <1>3, <1>4, <1>5, <1>6
<1> QED BY <1>7 DEF r

LEMMA RangeTail ==
  ASSUME NEW S, NEW q \in Seq(S), q # <<>>
  PROVE  Range(q) = {Head(q)} \cup Range(Tail(q))
<1>1. /\ Len(q) \in Nat \ {0} /\ Head(q) = q[1]
      /\ Tail(q) \in Seq(S) /\ Len(Tail(q)) = Len(q) - 1
      /\ \A i \in 1..Len(Tail(q)) : Tail(q)[i] = q[i + 1]
  BY EmptySeq, HeadTailProperties
<1>2. /\ Range(q) = {q[i] : i \in 1..Len(q)}
      /\ Range(Tail(q)) = {Tail(q)[i] : i \in 1..Len(Tail(q))}
  <2>1. Range(q) = {q[i] : i \in 1..Len(q)}
    BY RangeEquality
  <2>2. Range(Tail(q)) = {Tail(q)[i] : i \in 1..Len(Tail(q))}
    BY <1>1, RangeEquality
  <2> QED BY <2>1, <2>2
<1>3. ASSUME NEW i \in 1..Len(q) PROVE q[i] \in {Head(q)} \cup Range(Tail(q))
  <2>1. CASE i = 1
    BY <1>1, <2>1
  <2>2. CASE i # 1
    <3>1. PICK j \in 1..Len(Tail(q)) : j + 1 = i
      <4>1. i - 1 \in 1..Len(Tail(q)) /\ i - 1 + 1 = i
        BY <1>1, <2>2
      <4> QED BY <4>1
    <3> QED BY <1>1, <1>2, <3>1
  <2> QED BY <2>1, <2>2
<1>4. ASSUME NEW i \in 1..Len(Tail(q)) PROVE Tail(q)[i] \in Range(q)
  <2>1. i + 1 \in 1..Len(q)
    BY <1>1
  <2> QED BY <1>1, <1>2, <2>1
<1>5. Head(q) \in Range(q)
  <2>1. 1 \in 1..Len(q)
    BY <1>1
  <2> QED BY <1>1, <1>2, <2>1
<1> QED BY <1>2, <1>3, <1>4, <1>5

LEMMA RangeEmpty == Range(<<>>) = {}
<1>1. <<>> \in Seq({}) /\ Len(<<>>) = 0
  BY EmptySeq
<1>2. Range(<<>>) = {<<>>[i] : i \in 1..Len(<<>>)}
  BY <1>1, RangeEquality
<1> QED BY <1>1, <1>2

(* What picking keeps of the elements of q.                                *)
LEMMA PickSeq ==
  ASSUME NEW S, NEW q \in Seq(S), NEW I \in SUBSET DOMAIN q
  PROVE  /\ Pick(q, I) \in Seq(S)
         /\ Range(Pick(q, I)) = {q[i] : i \in I}
         /\ \A n \in 1..Len(Pick(q, I)) : \E i \in I : Pick(q, I)[n] = q[i]
<1> DEFINE p == Pick(q, I)
<1>1. p \in Seq(S) /\ \E at : Places(at, p, q, I)
  BY PickFacts
<1> HIDE DEF p
<1>2. PICK at : Places(at, p, q, I)
  BY <1>1
<1>3. /\ \A n \in 1..Len(p) : p[n] = q[at[n]] /\ at[n] \in I
      /\ \A i \in I : \E n \in 1..Len(p) : at[n] = i
  BY <1>2 DEF Places
<1>4. Range(p) = {p[n] : n \in 1..Len(p)}
  BY <1>1, RangeEquality
<1>5. Range(p) = {q[i] : i \in I}
  BY <1>3, <1>4
<1> QED BY <1>1, <1>3, <1>5 DEF p

(* An increasing sequence stays so when elements are picked.               *)
LEMMA PickIncreases ==
  ASSUME NEW q \in Seq(Nat), NEW I \in SUBSET DOMAIN q,
         \A i, j \in 1..Len(q) : i < j => q[i] < q[j]
  PROVE  \A m, n \in 1..Len(Pick(q, I)) : m < n => Pick(q, I)[m] < Pick(q, I)[n]
<1> DEFINE p == Pick(q, I)
<1>1. PICK at : Places(at, p, q, I)
  BY PickFacts
<1> HIDE DEF p
<1>2. /\ at \in [1..Len(p) -> 1..Len(q)]
      /\ \A n \in 1..Len(p) : p[n] = q[at[n]]
      /\ \A m, n \in 1..Len(p) : m < n => at[m] < at[n]
  BY <1>1 DEF Places
<1>3. ASSUME NEW m \in 1..Len(p), NEW n \in 1..Len(p), m < n PROVE p[m] < p[n]
  <2>1. at[m] \in 1..Len(q) /\ at[n] \in 1..Len(q) /\ at[m] < at[n]
    BY <1>2, <1>3
  <2>2. q[at[m]] < q[at[n]]
    BY <2>1
  <2> QED BY <1>2, <2>2
<1> QED BY <1>3 DEF p

-----------------------------------------------------------------------------
(* The steps, by the variables they move.                                  *)

(* What a step does to the commands and the requests; a failure lasts.     *)
CommandsRest == UNCHANGED <<startSeen, preStart, commands, issued, batch, applied>>
Pulls        == batch = <<>> /\ PullCommands /\ UNCHANGED applied
FilesRest    == UNCHANGED fileVars /\ (failed => failed')

LEMMA CommandSteps ==
  ASSUME Next
  PROVE  \/ CommandsRest /\ FilesRest
         \/ SendStart
         \/ \E k \in Kinds, p \in Path \cup {NoPath} : Send(k, p)
         \/ Dispatch
         \/ Pulls /\ FilesRest
         \/ Answer /\ CommandsRest
<1>1. CASE JavaScript
  BY <1>1 DEF JavaScript, SetTimer, ClearTimer, SetView, Leave, jsVars, commandVars,
              CommandsRest, FilesRest
<1>2. CASE Drive
  BY <1>2 DEF Drive, InitTimers, Boot, EnterLoop, Top, BeforeEvents, Timers, CallTimer,
              EventsDone, Pump, Tick, BeforeView, PullAgain, PullView, Render, AfterFrame,
              At, CommandsRest, Pulls, FilesRest, commandVars
<1>3. CASE Answer
  BY <1>3 DEF Answer, CommandsRest, commandVars
<1>4. CASE Pass
  BY <1>4 DEF Pass, CommandsRest, FilesRest, commandVars, jsVars
<1>5. CASE Stopped
  BY <1>5 DEF Stopped, vars, CommandsRest, FilesRest, commandVars, jsVars
<1> QED BY <1>1, <1>2, <1>3, <1>4, <1>5 DEF Next

(* What a step does to the timers: it sets one, takes one off, collects    *)
(* those that are due or calls one that is.                                *)
TimersRest == UNCHANGED <<timers, nextId, cleared, odd>> /\ (due' = due \/ due' = <<>>)
Collects   == \E frames \in BOOLEAN :
                /\ Collect(frames) /\ due = <<>>
                /\ odd' = IF frames THEN ~odd ELSE odd
                /\ frames => stage' = "events"

LEMMA TimerSteps ==
  ASSUME Next
  PROVE  \/ TimersRest
         \/ \E d \in Delays \cup {0}, frame \in BOOLEAN :
              SetTimer(d, frame) /\ (frame => d = 0)
         \/ \E id \in 1..MaxTimers : ClearTimer(id)
         \/ Collects
         \/ CallTimer
<1>1. CASE JavaScript
  <2>1. CASE \E d \in Delays : SetTimer(d, FALSE)
    BY <2>1
  <2>2. CASE SetTimer(0, TRUE)
    BY <2>2
  <2>3. CASE SendStart \/ SetView \/ \E k \in Kinds, p \in Path \cup {NoPath} : Send(k, p)
    BY <2>3 DEF SendStart, SetView, Send, TimersRest, timerVars, clockVars
  <2>4. CASE \E throws \in BOOLEAN : Leave(throws)
    BY <2>4 DEF Leave, TimersRest, clockVars
  <2> QED BY <1>1, <2>1, <2>2, <2>3, <2>4 DEF JavaScript
<1>2. CASE Drive
  <2>1. CASE Timers
    BY <2>1 DEF Timers, At, Collects
  <2>2. CASE InitTimers \/ BeforeView
    BY <2>2 DEF InitTimers, BeforeView, At, Collects, TimersRest, timerVars, clockVars
  <2> QED BY <1>2, <2>1, <2>2
          DEF Drive, Boot, EnterLoop, Top, Dispatch, BeforeEvents, EventsDone, Pump, Tick,
              PullAgain, PullView, Render, AfterFrame, TimersRest, timerVars, clockVars
<1>3. CASE Answer
  BY <1>3 DEF Answer, TimersRest, timerVars, clockVars
<1>4. CASE Pass
  BY <1>4 DEF Pass, TimersRest, timerVars
<1>5. CASE Stopped
  BY <1>5 DEF Stopped, vars, TimersRest, timerVars, clockVars
<1> QED BY <1>1, <1>2, <1>3, <1>4, <1>5 DEF Next

-----------------------------------------------------------------------------
(* The order of the commands.                                              *)

LEMMA QueueLens ==
  ASSUME CommandsTyped
  PROVE  /\ Len(applied) \in Nat /\ Len(batch) \in Nat /\ Len(commands) \in Nat
         /\ Len(preStart) \in Nat /\ Len(loading) \in Nat
  BY LenProperties DEF CommandsTyped

(* What enqueue_command does, before and after StartRegl.                  *)
LEMMA Enqueued ==
  ASSUME TypeOK, NEW c \in Cmd, EnqueueCommand(c), c.kind = "start" => ~startSeen
  PROVE  /\ preStart' \in Seq(Cmd) /\ commands' \in Seq(Cmd)
         /\ \/ /\ startSeen /\ startSeen' = startSeen /\ preStart' = preStart
               /\ commands' = Append(commands, c)
            \/ /\ ~startSeen /\ startSeen' = startSeen /\ c.kind # "start"
               /\ preStart' = Append(preStart, c) /\ commands' = commands
            \/ /\ ~startSeen /\ startSeen' = TRUE /\ c = StartCmd
               /\ commands' = Append(commands, c) \o preStart /\ preStart' = <<>>
<1>1. preStart \in Seq(Cmd) /\ commands \in Seq(Cmd) /\ startSeen \in BOOLEAN
  BY DEF TypeOK, CommandsTyped, FlagsTyped
<1>2. /\ Append(preStart, c) \in Seq(Cmd) /\ Append(commands, c) \in Seq(Cmd)
      /\ <<>> \in Seq(Cmd)
  BY <1>1, AppendProperties, EmptySeq
<1>3. Append(commands, c) \o preStart \in Seq(Cmd)
  BY <1>1, <1>2, ConcatProperties
<1> QED BY <1>1, <1>2, <1>3, CmdFacts DEF EnqueueCommand, HeldBack, Flushed

(* StartRegl, and what was held back behind it.                            *)
LEMMA StartFirst ==
  ASSUME TypeOK, CommandsInOrder, SendStart
  PROVE  /\ applied' = <<>> /\ batch' = <<>> /\ preStart' = <<>> /\ startSeen'
         /\ issued' = issued
         /\ commands' \in Seq(Cmd) /\ Len(commands') = issued + 1
         /\ \A i \in 1..Len(commands') : commands'[i].id = i - 1
         /\ Range(commands') = {StartCmd} \cup Range(preStart)
<1>1. ~startSeen /\ EnqueueCommand(StartCmd) /\ UNCHANGED <<issued, batch, applied>>
  BY DEF SendStart
<1>2. /\ applied = <<>> /\ batch = <<>> /\ commands = <<>> /\ Len(preStart) = issued
      /\ \A i \in 1..Len(preStart) : preStart[i].id = i
  BY <1>1 DEF CommandsInOrder
<1>3. /\ commands' = Append(commands, StartCmd) \o preStart /\ preStart' = <<>> /\ startSeen'
      /\ commands' \in Seq(Cmd)
  BY <1>1, StartIsACmd, Enqueued
<1> DEFINE head == Append(commands, StartCmd)
<1>4. preStart \in Seq(Cmd) /\ commands \in Seq(Cmd) /\ Len(commands) = 0
  BY <1>2, EmptySeq DEF TypeOK, CommandsTyped
<1>5. /\ head \in Seq(Cmd) /\ Len(head) = 1 /\ head[1] = StartCmd
      /\ Range(head) = {StartCmd}
  <2>1. Range(commands) = {}
    BY <1>2, RangeEmpty
  <2>2. head \in Seq(Cmd) /\ Len(head) = Len(commands) + 1 /\ head[Len(commands) + 1] = StartCmd
    BY <1>4, StartIsACmd, AppendProperties
  <2>3. Range(head) = Range(commands) \cup {StartCmd}
    <3>1. commands \in Seq(Cmd) /\ StartCmd \in Cmd
      BY <1>4, StartIsACmd
    <3>2. Range(Append(commands, StartCmd)) = Range(commands) \cup {StartCmd}
      BY <3>1, RangeAppend
    <3> QED BY <3>2
  <2> QED BY <1>4, <2>1, <2>2, <2>3
<1> HIDE DEF head
<1>6. /\ Len(head \o preStart) = 1 + Len(preStart)
      /\ \A i \in 1..1 + Len(preStart) :
           (head \o preStart)[i] = IF i <= 1 THEN head[i] ELSE preStart[i - 1]
      /\ Range(head \o preStart) = {StartCmd} \cup Range(preStart)
  <2>1. /\ Len(head \o preStart) = Len(head) + Len(preStart)
        /\ \A i \in 1..Len(head) + Len(preStart) :
             (head \o preStart)[i] = IF i <= Len(head) THEN head[i] ELSE preStart[i - Len(head)]
    BY <1>4, <1>5, ConcatProperties
  <2>2. Range(head \o preStart) = Range(head) \cup Range(preStart)
    BY <1>4, <1>5, RangeConcatenation
  <2> QED BY <1>5, <2>1, <2>2
<1>7. commands' = head \o preStart
  BY <1>3 DEF head
<1>8. issued \in Nat
  BY Bounds DEF TypeOK, NumbersTyped
<1>9. Len(commands') = issued + 1
  BY <1>2, <1>6, <1>7, <1>8
<1>10. ASSUME NEW i \in 1..Len(commands') PROVE commands'[i].id = i - 1
  <2>1. commands'[i] = IF i <= 1 THEN head[i] ELSE preStart[i - 1]
    BY <1>2, <1>6, <1>7, <1>8, <1>9
  <2>2. CASE i = 1
    BY <1>5, <2>1, <2>2, StartIsACmd
  <2>3. CASE i # 1
    <3>1. PICK j \in 1..Len(preStart) : j = i - 1
      <4>1. i - 1 \in 1..Len(preStart)
        BY <1>2, <1>8, <1>9, <2>3
      <4> QED BY <4>1
    <3>2. ~ (i <= 1)
      BY <1>8, <1>9, <2>3
    <3> QED BY <1>2, <2>1, <3>1, <3>2
  <2> QED BY <2>2, <2>3
<1> QED BY <1>1, <1>2, <1>3, <1>6, <1>7, <1>9, <1>10

(* A command that is sent gets the next number and the last place.         *)
SentCmd(k, p) == [kind |-> k, id |-> issued + 1, path |-> p]

LEMMA SentLast ==
  ASSUME TypeOK, CommandsInOrder, NEW k \in Kinds, NEW p \in Path \cup {NoPath}, Send(k, p)
  PROVE  \E c \in Cmd :
           /\ c = SentCmd(k, p) /\ c.id = issued + 1 /\ c.kind = k /\ c.path = p
           /\ c.kind # "start" /\ issued' = issued + 1 /\ startSeen' = startSeen
           /\ UNCHANGED <<applied, batch>>
           /\ preStart' \in Seq(Cmd) /\ commands' \in Seq(Cmd)
           /\ IF startSeen THEN commands' = Append(commands, c) /\ preStart' = preStart
                           ELSE preStart' = Append(preStart, c) /\ commands' = commands
<1>1. /\ SentCmd(k, p) \in Cmd /\ EnqueueCommand(SentCmd(k, p))
      /\ issued' = issued + 1 /\ UNCHANGED <<applied, batch>>
  BY DEF Send, SentCmd
<1>2. PICK c \in Cmd : c = SentCmd(k, p)
  BY <1>1
<1>3. c.id = issued + 1 /\ c.kind = k /\ c.path = p /\ c.kind # "start"
  BY <1>2, ElmHostAssumption DEF SentCmd
<1>4. EnqueueCommand(c)
  BY <1>1, <1>2 DEF EnqueueCommand, HeldBack
<1>5. startSeen \in BOOLEAN
  BY DEF TypeOK, FlagsTyped
<1> QED BY <1>1, <1>2, <1>3, <1>4, <1>5, Enqueued, StartIsACmd

LEMMA OrderKept ==
  ASSUME TypeOK, CommandsInOrder, Next
  PROVE  CommandsInOrder'
<1>1. /\ applied \in Seq(Cmd) /\ batch \in Seq(Cmd) /\ commands \in Seq(Cmd)
      /\ preStart \in Seq(Cmd) /\ issued \in Nat /\ startSeen \in BOOLEAN
  BY Bounds DEF TypeOK, CommandsTyped, NumbersTyped, FlagsTyped
<1>2. /\ Len(applied) \in Nat /\ Len(batch) \in Nat /\ Len(commands) \in Nat
      /\ Len(preStart) \in Nat /\ Len(<<>>) = 0
  BY <1>1, LenProperties, EmptySeq
<1>3. CASE CommandsRest
  BY <1>3 DEF CommandsRest, CommandsInOrder
<1>4. CASE SendStart
  <2>1. Len(applied') = 0 /\ Len(batch') = 0 /\ Len(preStart') = 0
    BY <1>2, <1>4, StartFirst
  <2> QED BY <1>1, <1>4, <2>1, StartFirst DEF CommandsInOrder
<1>5. CASE \E k \in Kinds, p \in Path \cup {NoPath} : Send(k, p)
  <2>1. PICK c \in Cmd :
           /\ c.id = issued + 1 /\ issued' = issued + 1 /\ startSeen' = startSeen
           /\ UNCHANGED <<applied, batch>>
           /\ IF startSeen THEN commands' = Append(commands, c) /\ preStart' = preStart
                           ELSE preStart' = Append(preStart, c) /\ commands' = commands
    BY <1>5, SentLast
  <2>2. CASE startSeen
    <3>0. commands' = Append(commands, c) /\ preStart' = preStart
      BY <2>1, <2>2
    <3>1. /\ Len(commands') = Len(commands) + 1
          /\ \A i \in 1..Len(commands) : commands'[i] = commands[i]
          /\ commands'[Len(commands) + 1] = c
      BY <1>1, <3>0, AppendProperties
    <3>2. ASSUME NEW i \in 1..Len(commands')
          PROVE  commands'[i].id = Len(applied) + Len(batch) + i - 1
      <4>1. i \in 1..Len(commands) \/ i = Len(commands) + 1
        BY <1>2, <3>1
      <4>2. CASE i \in 1..Len(commands)
        BY <3>1, <4>2 DEF CommandsInOrder
      <4>3. CASE i = Len(commands) + 1
        BY <1>1, <1>2, <2>1, <2>2, <3>1, <4>3 DEF CommandsInOrder
      <4> QED BY <4>1, <4>2, <4>3
    <3> QED BY <1>1, <1>2, <2>1, <2>2, <3>1, <3>2 DEF CommandsInOrder
  <2>3. CASE ~startSeen
    <3>1. /\ Len(preStart') = Len(preStart) + 1
          /\ \A i \in 1..Len(preStart) : preStart'[i] = preStart[i]
          /\ preStart'[Len(preStart) + 1] = c
      BY <1>1, <2>1, <2>3, AppendProperties
    <3>2. ASSUME NEW i \in 1..Len(preStart') PROVE preStart'[i].id = i
      <4>1. i \in 1..Len(preStart) \/ i = Len(preStart) + 1
        BY <1>2, <3>1
      <4> QED BY <1>1, <1>2, <2>1, <2>3, <3>1, <4>1 DEF CommandsInOrder
    <3> QED BY <1>1, <1>2, <2>1, <2>3, <3>1, <3>2 DEF CommandsInOrder
  <2> QED BY <1>1, <2>2, <2>3
<1>6. CASE Dispatch
  <2>1. /\ batch # <<>> /\ applied' = Append(applied, Head(batch)) /\ batch' = Tail(batch)
        /\ UNCHANGED <<startSeen, preStart, commands, issued>>
    BY <1>6 DEF Dispatch, commandVars
  <2>2. /\ Head(batch) \in Cmd /\ Head(batch) = batch[1]
        /\ Len(batch') = Len(batch) - 1 /\ Len(batch) > 0
        /\ \A i \in 1..Len(batch') : batch'[i] = batch[i + 1]
    BY <1>1, <1>2, <2>1, HeadTailProperties, EmptySeq
  <2>3. /\ Len(applied') = Len(applied) + 1
        /\ \A i \in 1..Len(applied) : applied'[i] = applied[i]
        /\ applied'[Len(applied) + 1] = batch[1]
    BY <1>1, <2>1, <2>2, AppendProperties
  <2>4. batch[1].id = Len(applied)
    <3>1. 1 \in 1..Len(batch)
      BY <1>2, <2>2
    <3>2. batch[1].id = Len(applied) + 1 - 1
      BY <3>1 DEF CommandsInOrder
    <3> QED BY <1>2, <3>2
  <2>5. ASSUME NEW i \in 1..Len(applied') PROVE applied'[i].id = i - 1
    <3>1. i \in 1..Len(applied) \/ i = Len(applied) + 1
      BY <1>2, <2>3
    <3>2. CASE i \in 1..Len(applied)
      BY <2>3, <3>2 DEF CommandsInOrder
    <3>3. CASE i = Len(applied) + 1
      BY <1>2, <2>3, <2>4, <3>3
    <3> QED BY <3>1, <3>2, <3>3
  <2>6. ASSUME NEW i \in 1..Len(batch') PROVE batch'[i].id = Len(applied') + i - 1
    <3>1. PICK j \in 1..Len(batch) : j = i + 1
      <4>1. i + 1 \in 1..Len(batch)
        BY <1>2, <2>2
      <4> QED BY <4>1
    <3>2. batch'[i] = batch[j] /\ batch[j].id = Len(applied) + j - 1
      BY <2>2, <3>1 DEF CommandsInOrder
    <3>3. i \in Nat
      BY <1>2, <2>2
    <3> QED BY <1>2, <2>3, <3>1, <3>2, <3>3
  <2>7. Len(applied') + Len(batch') = Len(applied) + Len(batch)
    BY <1>2, <2>2, <2>3
  <2>8. startSeen
    BY <1>1, <2>1 DEF CommandsInOrder
  <2> QED BY <1>2, <2>1, <2>5, <2>6, <2>7, <2>8 DEF CommandsInOrder
<1>7. CASE Pulls
  <2>1. /\ batch = <<>> /\ batch' = commands /\ commands' = <<>>
        /\ UNCHANGED <<startSeen, preStart, issued, applied>>
    BY <1>7 DEF Pulls, PullCommands
  <2>2. Len(batch) = 0 /\ Len(commands') = 0
    BY <1>2, <2>1
  <2> QED BY <1>1, <1>2, <2>1, <2>2 DEF CommandsInOrder
<1> QED BY <1>3, <1>4, <1>5, <1>6, <1>7, CommandSteps

-----------------------------------------------------------------------------
(* The types.                                                              *)

LEMMA FlagsKept ==
  ASSUME TypeOK, Next
  PROVE  FlagsTyped'
<1>1. FlagsTyped
  BY DEF TypeOK
<1>2. CASE JavaScript
  <2>1. CASE SendStart \/ \E k \in Kinds, p \in Path \cup {NoPath} : Send(k, p)
    <3>1. UNCHANGED <<js, failed, odd, device, mixed>> /\ (resize' = resize \/ resize' = TRUE)
      BY <2>1 DEF SendStart, Send, jsVars, clockVars, fileVars
    <3>2. startSeen' = startSeen \/ startSeen' = TRUE
      <4>1. \E c : EnqueueCommand(c)
        BY <2>1 DEF SendStart, Send
      <4> QED BY <4>1 DEF EnqueueCommand
    <3> QED BY <1>1, <3>1, <3>2 DEF FlagsTyped
  <2>2. CASE \E throws \in BOOLEAN : Leave(throws)
    BY <1>1, <2>2 DEF Leave, clockVars, commandVars, fileVars, FlagsTyped
  <2>3. CASE \/ \E d \in Delays : SetTimer(d, FALSE)
             \/ SetTimer(0, TRUE)
             \/ \E id \in 1..MaxTimers : ClearTimer(id)
             \/ SetView
    BY <1>1, <2>3 DEF SetTimer, ClearTimer, SetView, jsVars, clockVars, commandVars, fileVars,
                      FlagsTyped
  <2> QED BY <1>2, <2>1, <2>2, <2>3 DEF JavaScript
<1>3. CASE Dispatch
  <2>1. UNCHANGED <<failed, odd, startSeen, resize>>
    BY <1>3 DEF Dispatch, clockVars, commandVars
  <2>2. PICK c : IF c.kind = "audio" THEN DispatchAudio(c)
                 ELSE js' = (c.kind = "program" /\ ~failed) /\ NotAnswered /\ UNCHANGED device
    BY <1>3 DEF Dispatch
  <2>3. js' \in BOOLEAN /\ device' \in BOOLEAN /\ mixed' \in BOOLEAN
    BY <1>1, <2>2 DEF DispatchAudio, NotAnswered, Answered, FlagsTyped
  <2> QED BY <1>1, <2>1, <2>3 DEF FlagsTyped
<1>4. CASE Drive /\ ~Dispatch
  <2>1. UNCHANGED <<device, mixed, failed, startSeen>>
    BY <1>4 DEF Drive, InitTimers, Boot, EnterLoop, Top, BeforeEvents, Timers, CallTimer,
                EventsDone, Pump, Tick, BeforeView, PullAgain, PullView, Render, AfterFrame,
                PullCommands, commandVars, fileVars
  <2>2. js' \in BOOLEAN /\ odd' \in BOOLEAN /\ resize' \in BOOLEAN
    BY <1>1, <1>4
       DEF Drive, InitTimers, Boot, EnterLoop, Top, BeforeEvents, Timers, CallTimer,
           EventsDone, Pump, Tick, BeforeView, PullAgain, PullView, Render, AfterFrame,
           PullCommands, commandVars, clockVars, FlagsTyped
  <2> QED BY <1>1, <2>1, <2>2 DEF FlagsTyped
<1>5. CASE Answer
  BY <1>1, <1>5 DEF Answer, Answered, clockVars, commandVars, FlagsTyped
<1>6. CASE Pass \/ Stopped
  BY <1>1, <1>6 DEF Pass, Stopped, vars, jsVars, clockVars, commandVars, fileVars, FlagsTyped
<1> QED BY <1>2, <1>3, <1>4, <1>5, <1>6 DEF Next

LEMMA NumbersKept ==
  ASSUME TypeOK, Next
  PROVE  NumbersTyped'
<1>1. /\ NumbersTyped /\ MaxTimers \in Nat /\ MaxCommands \in Nat /\ MaxNow \in Nat
  BY Bounds DEF TypeOK
<1>2. CASE JavaScript
  <2>1. CASE SendStart \/ \E k \in Kinds, p \in Path \cup {NoPath} : Send(k, p)
    <3>1. UNCHANGED <<stage, now, nextId, cleared, view>>
      BY <2>1 DEF SendStart, Send, jsVars, clockVars, timerVars
    <3>2. issued' = issued \/ (issued' = issued + 1 /\ issued < MaxCommands)
      BY <2>1 DEF SendStart, Send
    <3> QED BY <1>1, <3>1, <3>2 DEF NumbersTyped
  <2>2. CASE \E throws \in BOOLEAN : Leave(throws)
    BY <1>1, <2>2 DEF Leave, clockVars, commandVars, NumbersTyped
  <2>3. ASSUME NEW d, NEW frame, SetTimer(d, frame)
        PROVE  NumbersTyped'
    BY <1>1, <2>3 DEF SetTimer, jsVars, clockVars, commandVars, NumbersTyped
  <2>4. ASSUME NEW id \in 1..MaxTimers, ClearTimer(id)
        PROVE  NumbersTyped'
    BY <1>1, <2>4 DEF ClearTimer, jsVars, clockVars, commandVars, NumbersTyped
  <2>5. CASE SetView
    BY <1>1, <2>5 DEF SetView, jsVars, clockVars, timerVars, commandVars, NumbersTyped
  <2> QED BY <1>2, <2>1, <2>2, <2>3, <2>4, <2>5 DEF JavaScript
<1>3. CASE Drive
  <2>1. UNCHANGED <<now, nextId, cleared, issued, view>>
    BY <1>3 DEF Drive, InitTimers, Boot, EnterLoop, Top, Dispatch, BeforeEvents, Timers,
                CallTimer, EventsDone, Pump, Tick, BeforeView, PullAgain, PullView, Render,
                AfterFrame, Collect, PullCommands, commandVars, timerVars, clockVars
  <2>2. stage' \in Stages
    BY <1>1, <1>3
       DEF Drive, InitTimers, Boot, EnterLoop, Top, Dispatch, BeforeEvents, Timers, CallTimer,
           EventsDone, Pump, Tick, BeforeView, PullAgain, PullView, Render, AfterFrame,
           Stages, NumbersTyped
  <2> QED BY <1>1, <2>1, <2>2 DEF NumbersTyped
<1>4. CASE Answer
  BY <1>1, <1>4 DEF Answer, clockVars, timerVars, commandVars, NumbersTyped
<1>5. CASE Pass
  BY <1>1, <1>5 DEF Pass, jsVars, timerVars, commandVars, NumbersTyped
<1>6. CASE Stopped
  BY <1>1, <1>6 DEF Stopped, vars, jsVars, clockVars, timerVars, commandVars, NumbersTyped
<1> QED BY <1>2, <1>3, <1>4, <1>5, <1>6 DEF Next

(* A timer that is set.                                                    *)
LEMMA NewTimer ==
  ASSUME TypeOK, NEW d \in Delays \cup {0}, NEW frame \in BOOLEAN, SetTimer(d, frame)
  PROVE  \E t \in Timer :
           /\ t.frame = frame /\ t.born = odd /\ t.due = now + d
           /\ timers' = Append(timers, t)
           /\ UNCHANGED <<due, odd, now, stage>>
<1>1. /\ d \in Nat /\ now \in Nat /\ odd \in BOOLEAN /\ nextId \in 1..MaxTimers
      /\ now + d \in Nat
  <2>1. d \in Nat
    BY ElmHostAssumption
  <2>2. now \in Nat /\ nextId \in Nat /\ nextId >= 1 /\ nextId <= MaxTimers
    BY Bounds DEF TypeOK, NumbersTyped, SetTimer
  <2> QED BY <2>1, <2>2, Bounds DEF TypeOK, FlagsTyped
<1> DEFINE t == [id |-> nextId, due |-> now + d, frame |-> frame, born |-> odd]
<1>2. t \in Timer
  BY <1>1 DEF Timer
<1>3. t.frame = frame /\ t.born = odd /\ t.due = now + d
  OBVIOUS
<1>4. timers' = Append(timers, t) /\ UNCHANGED <<due, odd, now, stage>>
  BY DEF SetTimer, clockVars, jsVars
<1> HIDE DEF t
<1> QED BY <1>2, <1>3, <1>4

LEMMA TimersKept ==
  ASSUME TypeOK, Next
  PROVE  TimersTyped'
<1>1. timers \in Seq(Timer) /\ due \in Seq(Timer) /\ <<>> \in Seq(Timer)
  BY EmptySeq DEF TypeOK, TimersTyped
<1>2. CASE TimersRest
  BY <1>1, <1>2 DEF TimersRest, TimersTyped
<1>3. ASSUME NEW d \in Delays \cup {0}, NEW frame \in BOOLEAN, SetTimer(d, frame)
      PROVE  TimersTyped'
  <2>1. PICK t \in Timer : timers' = Append(timers, t) /\ UNCHANGED due
    BY <1>3, NewTimer
  <2> QED BY <1>1, <2>1, AppendProperties DEF TimersTyped
<1>4. ASSUME NEW id \in 1..MaxTimers, ClearTimer(id)
      PROVE  TimersTyped'
  BY <1>1, <1>4, PickSeq DEF ClearTimer, TimersTyped
<1>5. CASE Collects
  BY <1>1, <1>5, PickSeq DEF Collects, Collect, TimersTyped
<1>6. CASE CallTimer
  BY <1>1, <1>6, HeadTailProperties DEF CallTimer, TimersTyped
<1> QED BY <1>2, <1>3, <1>4, <1>5, <1>6, TimerSteps

-----------------------------------------------------------------------------
(* The requests.                                                           *)

(* One list of waiting requests changes.                                   *)
LEMMA PendingChange ==
  ASSUME CommandsTyped, NEW k \in Requests, NEW p \in Path,
         NEW q \in Seq(1..MaxCommands), pending' = [pending EXCEPT ![k][p] = q]
  PROVE  /\ pending' \in [Requests -> [Path -> Seq(1..MaxCommands)]]
         /\ pending'[k][p] = q
         /\ \A l \in Requests, r \in Path : l # k \/ r # p => pending'[l][r] = pending[l][r]
  BY DEF CommandsTyped

LEMMA PendingSeq ==
  ASSUME CommandsTyped, NEW k \in Requests, NEW p \in Path
  PROVE  /\ pending[k][p] \in Seq(1..MaxCommands) /\ pending[k][p] \in Seq(Nat)
         /\ Len(pending[k][p]) \in Nat
<1>1. pending[k][p] \in Seq(1..MaxCommands) /\ 1..MaxCommands \subseteq Nat
  BY DEF CommandsTyped
<1> QED BY <1>1, SeqMonotonic, LenProperties

(* What an answer does: the one who asked first leaves the list.           *)
LEMMA AnswerLeaves ==
  ASSUME CommandsTyped, NEW c \in Cmd, c.kind \in Requests, Answered(c)
  PROVE  /\ mixed' = (mixed \/ Asker(c) # c.id)
         /\ Except(pending[c.kind][c.path], Asker(c)) \in Seq(1..MaxCommands)
         /\ c.path \in Path
         /\ pending' \in [Requests -> [Path -> Seq(1..MaxCommands)]]
         /\ pending'[c.kind][c.path] = Except(pending[c.kind][c.path], Asker(c))
         /\ \A l \in Requests, r \in Path :
              l # c.kind \/ r # c.path => pending'[l][r] = pending[l][r]
<1>1. PICK k \in Requests, p \in Path : k = c.kind /\ p = c.path
  BY CmdFacts
<1>2. Except(pending[k][p], Asker(c)) \in Seq(1..MaxCommands)
  BY PendingSeq, PickSeq DEF Except
<1>3. PICK q \in Seq(1..MaxCommands) : q = Except(pending[k][p], Asker(c))
  BY <1>2
<1>4. mixed' = (mixed \/ Asker(c) # c.id)
  BY DEF Answered
<1>5. pending' = [pending EXCEPT ![k][p] = q]
  BY <1>1, <1>3 DEF Answered
<1>6. /\ pending' \in [Requests -> [Path -> Seq(1..MaxCommands)]]
      /\ pending'[k][p] = q
      /\ \A l \in Requests, r \in Path : l # k \/ r # p => pending'[l][r] = pending[l][r]
  BY <1>5 DEF CommandsTyped
<1> QED BY <1>1, <1>3, <1>4, <1>6

(* What dispatching a command does to it and to the requests.              *)
LEMMA DispatchFacts ==
  ASSUME TypeOK, Dispatch
  PROVE  \E c \in Cmd :
           /\ batch # <<>> /\ c = Head(batch)
           /\ applied' = Append(applied, c) /\ batch' = Tail(batch)
           /\ UNCHANGED <<failed, startSeen, preStart, commands, issued>>
           /\ \/ /\ c.kind \in Requests /\ loading' = Append(loading, c)
                 /\ UNCHANGED <<pending, mixed>>
                 /\ (device' = device /\ c.kind # "audio") \/ device'
              \/ c.kind \notin Requests /\ UNCHANGED fileVars
              \/ /\ c.kind = "audio" /\ ~device /\ UNCHANGED <<loading, device>>
                 /\ (failed /\ UNCHANGED <<pending, mixed>>) \/ (~failed /\ Answered(c))
<1>1. batch # <<>> /\ Head(batch) \in Cmd
  BY HeadTailProperties DEF Dispatch, TypeOK, CommandsTyped
<1>2. PICK c \in Cmd : c = Head(batch)
  BY <1>1
<1>3. /\ applied' = Append(applied, c) /\ batch' = Tail(batch)
      /\ UNCHANGED <<failed, startSeen, preStart, commands, issued>>
  BY <1>2 DEF Dispatch, commandVars
<1>4. IF c.kind = "audio" THEN DispatchAudio(c)
      ELSE /\ loading' = IF c.kind = "file" THEN Append(loading, c) ELSE loading
           /\ NotAnswered /\ UNCHANGED device
  <2>1. LET d == Head(batch) IN
          IF d.kind = "audio" THEN DispatchAudio(d)
          ELSE /\ loading' = IF d.kind = "file" THEN Append(loading, d) ELSE loading
               /\ NotAnswered /\ UNCHANGED device
    BY DEF Dispatch
  <2> QED BY <1>2, <2>1 DEF DispatchAudio, Answered, Asker
<1>5. CASE c.kind = "audio"
  <2>1. c.kind \in Requests
    BY <1>5 DEF Requests
  <2> QED BY <1>1, <1>2, <1>3, <1>4, <1>5, <2>1 DEF DispatchAudio, NotAnswered
<1>6. CASE c.kind = "file"
  <2>1. c.kind \in Requests /\ c.kind # "audio"
    BY <1>6 DEF Requests
  <2> QED BY <1>1, <1>2, <1>3, <1>4, <1>6, <2>1 DEF NotAnswered
<1>7. CASE c.kind \notin {"audio", "file"}
  <2>1. c.kind \notin Requests /\ c.kind # "audio" /\ c.kind # "file"
    BY <1>7 DEF Requests
  <2> QED BY <1>1, <1>2, <1>3, <1>4, <2>1 DEF NotAnswered, fileVars
<1> QED BY <1>5, <1>6, <1>7

LEMMA LoadsKept ==
  ASSUME TypeOK, CommandsInOrder, LoadsInOrder, Next
  PROVE  LoadsInOrder'
<1>1. /\ loading \in Seq(Cmd) /\ applied \in Seq(Cmd) /\ batch \in Seq(Cmd)
      /\ Len(loading) \in Nat /\ Len(applied) \in Nat /\ Len(batch) \in Nat
      /\ device \in BOOLEAN
      /\ \A i \in 1..Len(loading) : loading[i].id \in Nat
  <2>1. loading \in Seq(Cmd) /\ applied \in Seq(Cmd) /\ batch \in Seq(Cmd) /\ device \in BOOLEAN
    BY DEF TypeOK, CommandsTyped, FlagsTyped
  <2> QED BY <2>1, LenProperties, ElementOfSeq, CmdFacts
<1>2. CASE UNCHANGED <<loading, applied, device>>
  BY <1>2 DEF LoadsInOrder
<1>3. CASE Dispatch
  <2>1. PICK c \in Cmd :
           /\ batch # <<>> /\ c = Head(batch) /\ applied' = Append(applied, c)
           /\ \/ /\ c.kind \in Requests /\ loading' = Append(loading, c)
                 /\ (device' = device /\ c.kind # "audio") \/ device'
              \/ UNCHANGED <<loading, device>>
    BY <1>3, DispatchFacts DEF fileVars
  <2>2. Len(applied') = Len(applied) + 1
    BY <1>1, <2>1, AppendProperties
  <2>3. CASE UNCHANGED <<loading, device>>
    BY <1>1, <2>2, <2>3 DEF LoadsInOrder
  <2>4. CASE /\ c.kind \in Requests /\ loading' = Append(loading, c)
             /\ (device' = device /\ c.kind # "audio") \/ device'
    <3>1. /\ Len(loading') = Len(loading) + 1 /\ loading'[Len(loading) + 1] = c
          /\ \A i \in 1..Len(loading) : loading'[i] = loading[i]
      BY <1>1, <2>4, AppendProperties
    <3>2. c.id = Len(applied)
      <4>1. Len(batch) > 0 /\ c = batch[1]
        BY <1>1, <2>1, EmptySeq
      <4>2. 1 \in 1..Len(batch)
        BY <1>1, <4>1
      <4>3. batch[1].id = Len(applied) + 1 - 1
        BY <4>2 DEF CommandsInOrder
      <4> QED BY <1>1, <4>1, <4>3
    <3>3. \A i \in 1..Len(loading') : i \in 1..Len(loading) \/ i = Len(loading) + 1
      BY <1>1, <3>1
    <3>4. ASSUME NEW i \in 1..Len(loading')
          PROVE  /\ loading'[i].kind \in Requests /\ loading'[i].id < Len(applied')
                 /\ ~device' => loading'[i].kind # "audio"
      <4>1. CASE i \in 1..Len(loading)
        BY <1>1, <2>2, <2>4, <3>1, <4>1 DEF LoadsInOrder
      <4>2. CASE i = Len(loading) + 1
        BY <1>1, <2>2, <2>4, <3>1, <3>2, <4>2
      <4> QED BY <3>3, <4>1, <4>2
    <3>5. ASSUME NEW i \in 1..Len(loading'), NEW j \in 1..Len(loading'), i < j
          PROVE  loading'[i].id < loading'[j].id
      <4>1. i \in 1..Len(loading)
        BY <1>1, <3>1, <3>5
      <4>2. CASE j \in 1..Len(loading)
        BY <3>1, <3>5, <4>1, <4>2 DEF LoadsInOrder
      <4>3. CASE j = Len(loading) + 1
        BY <3>1, <3>2, <4>1, <4>3 DEF LoadsInOrder
      <4> QED BY <3>3, <4>2, <4>3
    <3> QED BY <3>4, <3>5 DEF LoadsInOrder
  <2> QED BY <2>1, <2>3, <2>4
<1>4. CASE Answer
  <2>1. loading # <<>> /\ loading' = Tail(loading) /\ UNCHANGED <<applied, device>>
    BY <1>4 DEF Answer
  <2>2. /\ Len(loading') = Len(loading) - 1
        /\ \A i \in 1..Len(loading') : loading'[i] = loading[i + 1]
    BY <1>1, <2>1, HeadTailProperties
  <2>3. \A i \in 1..Len(loading') : i + 1 \in 1..Len(loading)
    BY <1>1, <2>2
  <2>4. ASSUME NEW i \in 1..Len(loading'), NEW j \in 1..Len(loading'), i < j
        PROVE  loading'[i].id < loading'[j].id
    <3>1. PICK m \in 1..Len(loading) : m = i + 1
      BY <2>3
    <3>2. PICK n \in 1..Len(loading) : n = j + 1
      BY <2>3
    <3>3. m < n
      BY <2>4, <3>1, <3>2
    <3> QED BY <2>2, <3>1, <3>2, <3>3 DEF LoadsInOrder
  <2> QED BY <2>1, <2>2, <2>3, <2>4 DEF LoadsInOrder
<1> QED BY <1>2, <1>3, <1>4, CommandSteps
        DEF CommandsRest, FilesRest, fileVars, SendStart, Send, Pulls

LEMMA CommandsKept ==
  ASSUME TypeOK, CommandsInOrder, LoadsInOrder, Next
  PROVE  CommandsTyped'
<1>1. /\ CommandsTyped /\ <<>> \in Seq(Cmd)
      /\ preStart \in Seq(Cmd) /\ commands \in Seq(Cmd) /\ batch \in Seq(Cmd)
      /\ applied \in Seq(Cmd) /\ loading \in Seq(Cmd)
  BY EmptySeq DEF TypeOK, CommandsTyped
<1>2. CASE CommandsRest /\ FilesRest
  BY <1>1, <1>2 DEF CommandsRest, FilesRest, fileVars, CommandsTyped
<1>3. CASE SendStart
  <2>1. UNCHANGED <<pending, loading>>
    BY <1>3 DEF SendStart, fileVars
  <2> QED BY <1>1, <1>3, <2>1, StartFirst DEF TypeOK, CommandsTyped
<1>4. ASSUME NEW k \in Kinds, NEW p \in Path \cup {NoPath}, Send(k, p)
      PROVE  CommandsTyped'
  <2>1. PICK c \in Cmd :
           /\ c = SentCmd(k, p) /\ c.id = issued + 1 /\ c.kind = k /\ c.path = p
           /\ UNCHANGED <<applied, batch>>
           /\ preStart' \in Seq(Cmd) /\ commands' \in Seq(Cmd)
    BY <1>4, SentLast
  <2>2. /\ loading' = loading
        /\ pending' = IF k \in Requests
                      THEN [pending EXCEPT ![k][p] = Append(@, issued + 1)] ELSE pending
    BY <1>4 DEF Send
  <2>3. CASE k \notin Requests
    BY <1>1, <2>1, <2>2, <2>3 DEF CommandsTyped
  <2>4. CASE k \in Requests
    <3>1. issued + 1 \in 1..MaxCommands /\ p \in Path
      BY <2>1, <2>4, CmdFacts
    <3>2. PICK q : q = Append(pending[k][p], issued + 1)
      OBVIOUS
    <3>3. q \in Seq(1..MaxCommands)
      BY <1>1, <2>4, <3>1, <3>2, PendingSeq, AppendProperties
    <3>4. pending' = [pending EXCEPT ![k][p] = q]
      BY <2>2, <2>4, <3>2
    <3>5. pending' \in [Requests -> [Path -> Seq(1..MaxCommands)]]
      BY <1>1, <2>4, <3>1, <3>3, <3>4, PendingChange
    <3> QED BY <1>1, <2>1, <2>2, <3>5 DEF CommandsTyped
  <2> QED BY <2>3, <2>4
<1>5. CASE Dispatch
  <2>1. PICK c \in Cmd :
           /\ batch # <<>> /\ applied' = Append(applied, c) /\ batch' = Tail(batch)
           /\ UNCHANGED <<preStart, commands>>
           /\ loading' = loading \/ loading' = Append(loading, c)
           /\ pending' = pending \/ (c.kind = "audio" /\ Answered(c))
    BY <1>5, DispatchFacts DEF fileVars
  <2>2. applied' \in Seq(Cmd) /\ batch' \in Seq(Cmd) /\ loading' \in Seq(Cmd)
    <3>1. Append(applied, c) \in Seq(Cmd) /\ Append(loading, c) \in Seq(Cmd)
      BY <1>1, AppendProperties
    <3>2. Tail(batch) \in Seq(Cmd)
      BY <1>1, <2>1, HeadTailProperties
    <3> QED BY <1>1, <2>1, <3>1, <3>2
  <2>3. pending' \in [Requests -> [Path -> Seq(1..MaxCommands)]]
    <3>1. CASE pending' = pending
      BY <1>1, <3>1 DEF CommandsTyped
    <3>2. CASE c.kind = "audio" /\ Answered(c)
      <4>1. c.kind \in Requests
        BY <3>2 DEF Requests
      <4> QED BY <1>1, <3>2, <4>1, AnswerLeaves
    <3> QED BY <2>1, <3>1, <3>2
  <2> QED BY <1>1, <2>1, <2>2, <2>3 DEF CommandsTyped
<1>6. CASE Pulls /\ FilesRest
  BY <1>1, <1>6 DEF Pulls, PullCommands, FilesRest, fileVars, CommandsTyped
<1>7. CASE Answer /\ CommandsRest
  <2>1. loading # <<>> /\ loading' = Tail(loading) /\ Answered(Head(loading))
    BY <1>7 DEF Answer
  <2>2. Head(loading) \in Cmd /\ Tail(loading) \in Seq(Cmd) /\ Head(loading) = loading[1]
    BY <1>1, <2>1, HeadTailProperties
  <2>3. PICK c \in Cmd : c = Head(loading)
    BY <2>2
  <2>4. c.kind \in Requests
    <3>1. 1 \in 1..Len(loading)
      BY <1>1, <2>1, EmptySeq
    <3> QED BY <2>2, <2>3, <3>1 DEF LoadsInOrder
  <2>5. Answered(c)
    BY <2>1, <2>3 DEF Answered, Asker
  <2>6. pending' \in [Requests -> [Path -> Seq(1..MaxCommands)]]
    BY <1>1, <2>4, <2>5, AnswerLeaves
  <2> QED BY <1>1, <1>7, <2>1, <2>2, <2>6 DEF CommandsRest, CommandsTyped
<1> QED BY <1>2, <1>3, <1>4, <1>5, <1>6, <1>7, CommandSteps

(* StartRegl is seen for good, and the frames are entered after it.        *)
LEMMA StartKept ==
  ASSUME TypeOK, CommandsInOrder, Next
  PROVE  /\ preStart' # <<>> => ~startSeen'
         /\ stage' \notin {"init", "initTimers", "boot", "ended"} => startSeen'
<1>1. CommandsInOrder'
  BY OrderKept
<1>2. preStart' # <<>> => ~startSeen'
  BY <1>1 DEF CommandsInOrder
<1>3. startSeen => startSeen'
  <2>1. CASE SendStart
    BY <2>1, StartFirst
  <2>2. CASE \E k \in Kinds, p \in Path \cup {NoPath} : Send(k, p)
    BY <2>2, SentLast
  <2>3. CASE Dispatch
    BY <2>3 DEF Dispatch, commandVars
  <2> QED BY <2>1, <2>2, <2>3, CommandSteps DEF CommandsRest, Pulls, PullCommands
<1>4. \/ stage' = stage \/ stage' \in {"init", "initTimers", "boot", "ended"}
      \/ stage \notin {"init", "initTimers", "boot", "ended"}
      \/ applied # <<>>
  <2>1. CASE JavaScript \/ Answer \/ Pass \/ Stopped
    BY <2>1 DEF JavaScript, SetTimer, ClearTimer, SendStart, Send, SetView, Leave, Answer, Pass,
                Stopped, vars, jsVars
  <2>2. CASE Drive
    BY <2>2 DEF Drive, InitTimers, Boot, EnterLoop, Top, Dispatch, BeforeEvents, Timers,
                CallTimer, EventsDone, Pump, Tick, BeforeView, PullAgain, PullView, Render,
                AfterFrame, At
  <2> QED BY <2>1, <2>2 DEF Next
<1>5. applied # <<>> => startSeen
  BY DEF CommandsInOrder
<1> QED BY <1>2, <1>3, <1>4, <1>5 DEF TypeOK

LEMMA TypesKept ==
  ASSUME TypeOK, CommandsInOrder, LoadsInOrder, Next
  PROVE  TypeOK'
  BY FlagsKept, NumbersKept, TimersKept, CommandsKept, StartKept DEF TypeOK

-----------------------------------------------------------------------------
(* Whose request an answer is for.                                         *)

(* Where a command in hand is.                                             *)
LEMMA InHandPlaces ==
  ASSUME TypeOK, NEW d \in InHand
  PROVE  /\ d \in Cmd
         /\ \/ \E i \in 1..Len(loading) : d = loading[i]
            \/ \E i \in 1..Len(batch) : d = batch[i]
            \/ \E i \in 1..Len(commands) : d = commands[i]
            \/ \E i \in 1..Len(preStart) : d = preStart[i]
<1>1. /\ loading \in Seq(Cmd) /\ batch \in Seq(Cmd) /\ commands \in Seq(Cmd)
      /\ preStart \in Seq(Cmd)
  BY DEF TypeOK, CommandsTyped
<1>2. /\ Range(loading) = {loading[i] : i \in 1..Len(loading)}
      /\ Range(batch) = {batch[i] : i \in 1..Len(batch)}
      /\ Range(commands) = {commands[i] : i \in 1..Len(commands)}
      /\ Range(preStart) = {preStart[i] : i \in 1..Len(preStart)}
  BY <1>1, RangeEquality
<1>3. /\ Range(loading) \subseteq Cmd /\ Range(batch) \subseteq Cmd
      /\ Range(commands) \subseteq Cmd /\ Range(preStart) \subseteq Cmd
  BY <1>1, RangeOfSeq
<1> QED BY <1>2, <1>3 DEF InHand

(* The requests that wait, when no load starts or ends and what is in hand *)
(* changes only by commands that ask for nothing.                          *)
LEMMA WaitsRest ==
  ASSUME RequestsWait, NEW Q, UNCHANGED <<pending, issued>>, failed => failed',
         \A d \in Q : d.kind \notin Requests,
         InHand' \cup Q = InHand \cup Q
  PROVE  RequestsWait'
<1>1. ASSUME NEW k \in Requests, NEW p \in Path
      PROVE  Asking(k, p)' = Asking(k, p)
  <2>1. {d \in InHand' : d.kind = k /\ d.path = p} = {d \in InHand : d.kind = k /\ d.path = p}
    <3>1. \A d : d \in InHand' \/ d \in Q <=> d \in InHand \/ d \in Q
      OBVIOUS
    <3> HIDE DEF InHand
    <3> QED BY <3>1
  <2> QED BY <2>1 DEF Asking
<1>2. pending' = pending /\ issued' = issued
  OBVIOUS
<1>3. ASSUME ~failed', NEW k \in Requests, NEW p \in Path
      PROVE  Range(pending'[k][p]) = Asking(k, p)'
  <2>1. Range(pending[k][p]) = Asking(k, p)
    BY <1>3 DEF RequestsWait
  <2> QED BY <1>1, <1>2, <2>1
<1>4. ~failed' => \A k \in Requests, p \in Path : Range(pending'[k][p]) = Asking(k, p)'
  BY <1>3
<1> QED BY <1>2, <1>4 DEF RequestsWait

(* Taking one number off a list of numbers.                                *)
LEMMA ExceptFacts ==
  ASSUME NEW q \in Seq(Nat), NEW e, \A i, j \in 1..Len(q) : i < j => q[i] < q[j]
  PROVE  LET w == Except(q, e)
         IN  /\ Range(w) = Range(q) \ {e}
             /\ \A n \in 1..Len(w) : w[n] \in Range(q)
             /\ \A m, n \in 1..Len(w) : m < n => w[m] < w[n]
<1> DEFINE I == {j \in DOMAIN q : q[j] # e}
           w == Pick(q, I)
<1>1. I \in SUBSET DOMAIN q /\ \A i \in I : q[i] \in Range(q) \ {e}
  BY DEF Range
<1>2. \A x \in Range(q) \ {e} : \E i \in I : x = q[i]
  BY DEF Range
<1> HIDE DEF I
<1>3. /\ Range(Pick(q, I)) = {q[j] : j \in I}
      /\ \A n \in 1..Len(Pick(q, I)) : \E i \in I : Pick(q, I)[n] = q[i]
  BY <1>1, PickSeq
<1>4. \A m, n \in 1..Len(Pick(q, I)) : m < n => Pick(q, I)[m] < Pick(q, I)[n]
  BY <1>1, PickIncreases
<1>5. Except(q, e) = w
  BY DEF Except, I
<1>6. Range(w) = Range(q) \ {e} /\ \A n \in 1..Len(w) : w[n] \in Range(q)
  BY <1>1, <1>2, <1>3
<1> HIDE DEF w
<1> QED BY <1>4, <1>5, <1>6 DEF w

(* The answer to the oldest command of its kind in hand finds its request, *)
(* which then waits no longer.                                             *)
LEMMA AnswerFits ==
  ASSUME TypeOK, RequestsWait, ~failed, failed' = failed, issued' = issued,
         NEW c \in Cmd, c.kind \in Requests, c \in InHand, c \notin InHand',
         InHand = InHand' \cup {c},
         \A d \in InHand' : d.kind = c.kind => c.id < d.id,
         Answered(c)
  PROVE  mixed' = mixed /\ RequestsWait'
<1>1. PICK k \in Requests, p \in Path : k = c.kind /\ p = c.path
  BY CmdFacts
<1>2. /\ pending[k][p] \in Seq(1..MaxCommands) /\ pending[k][p] \in Seq(Nat)
      /\ Len(pending[k][p]) \in Nat
  BY PendingSeq DEF TypeOK
<1>3. PICK q \in Seq(Nat) : q = pending[k][p]
  BY <1>2
<1>4. Range(q) = {q[i] : i \in 1..Len(q)} /\ DOMAIN q = 1..Len(q) /\ Len(q) \in Nat
  BY LenProperties, RangeEquality
<1>5. /\ Range(q) = Asking(k, p)
      /\ \A i, j \in 1..Len(q) : q[i] <= issued /\ (i < j => q[i] < q[j])
  BY <1>3 DEF RequestsWait
<1>6. \A d \in InHand : d.id \in Nat
  BY InHandPlaces, CmdFacts
<1>7. c.id \in Range(q)
  BY <1>1, <1>5 DEF Asking
<1>8. PICK i \in 1..Len(q) : q[i] = c.id
  BY <1>4, <1>7
<1>9. Len(q) > 0 /\ q # <<>> /\ 1 \in 1..Len(q) /\ Head(q) = q[1]
  <2>1. Len(q) > 0
    BY <1>4, <1>8
  <2>2. q # <<>>
    BY <2>1, EmptySeq
  <2> QED BY <1>4, <2>1, <2>2
<1>10. q[1] = c.id
  <2>1. q[1] \in Asking(k, p) /\ q[1] \in Nat /\ q[i] \in Nat
    BY <1>4, <1>5, <1>9, ElementOfSeq
  <2>2. PICK d \in InHand : d.id = q[1] /\ d.kind = k
    BY <2>1 DEF Asking
  <2>3. q[1] <= q[i]
    <3>1. CASE i = 1
      BY <2>1, <3>1
    <3>2. CASE i # 1
      <4>1. 1 < i
        BY <1>4, <3>2
      <4> QED BY <1>5, <1>9, <2>1, <4>1
    <3> QED BY <3>1, <3>2
  <2>4. CASE d = c
    BY <2>2, <2>4
  <2>5. CASE d # c
    <3>1. c.id < d.id
      BY <1>1, <2>2, <2>5
    <3> QED BY <1>8, <2>1, <2>2, <2>3, <3>1
  <2> QED BY <2>4, <2>5
<1>11. Asker(c) = c.id
  BY <1>1, <1>3, <1>9, <1>10 DEF Asker
<1> DEFINE w == Except(q, c.id)
<1>12. /\ mixed' = mixed /\ pending'[k][p] = w
       /\ \A l \in Requests, r \in Path : l # k \/ r # p => pending'[l][r] = pending[l][r]
  <2>1. /\ mixed' = (mixed \/ Asker(c) # c.id)
        /\ pending'[c.kind][c.path] = Except(pending[c.kind][c.path], Asker(c))
        /\ \A l \in Requests, r \in Path :
              l # c.kind \/ r # c.path => pending'[l][r] = pending[l][r]
    BY AnswerLeaves DEF TypeOK
  <2>2. mixed' = mixed
    BY <1>11, <2>1 DEF TypeOK, FlagsTyped
  <2>3. pending'[k][p] = w
    BY <1>1, <1>3, <1>11, <2>1
  <2> QED BY <1>1, <2>1, <2>2, <2>3
<1>13. /\ Range(w) = Range(q) \ {c.id}
       /\ \A n \in 1..Len(w) : w[n] \in Range(q)
       /\ \A m, n \in 1..Len(w) : m < n => w[m] < w[n]
  BY <1>5, ExceptFacts
<1> HIDE DEF w
<1>14. Asking(k, p)' = Asking(k, p) \ {c.id}
  <2>1. {d \in InHand : d.kind = k /\ d.path = p}
          = {d \in InHand' : d.kind = k /\ d.path = p} \cup {c}
    BY <1>1
  <2>2. \A d \in InHand' : d.kind = k => d.id # c.id
    BY <1>1, <1>6
  <2>3. Asking(k, p)' = {d.id : d \in {e \in InHand' : e.kind = k /\ e.path = p}}
    BY DEF Asking
  <2>4. Asking(k, p) = {d.id : d \in {e \in InHand : e.kind = k /\ e.path = p}}
    BY DEF Asking
  <2> QED BY <2>1, <2>2, <2>3, <2>4
<1>15. ASSUME NEW l \in Requests, NEW r \in Path, l # k \/ r # p
       PROVE  Asking(l, r)' = Asking(l, r)
  <2>1. {d \in InHand : d.kind = l /\ d.path = r} = {d \in InHand' : d.kind = l /\ d.path = r}
    BY <1>1, <1>15
  <2> QED BY <2>1 DEF Asking
<1>16. ASSUME NEW l \in Requests, NEW r \in Path
       PROVE  /\ Range(pending'[l][r]) = Asking(l, r)'
              /\ \A m, n \in 1..Len(pending'[l][r]) :
                   /\ pending'[l][r][m] <= issued'
                   /\ m < n => pending'[l][r][m] < pending'[l][r][n]
  <2>1. CASE l = k /\ r = p
    <3>1. pending'[l][r] = w
      BY <1>12, <2>1
    <3>2. Range(pending'[l][r]) = Asking(l, r)'
      BY <1>5, <1>13, <1>14, <2>1, <3>1
    <3>3. \A n \in 1..Len(w) : w[n] <= issued
      BY <1>4, <1>5, <1>13
    <3> QED BY <1>13, <3>1, <3>2, <3>3
  <2>2. CASE l # k \/ r # p
    <3>1. pending'[l][r] = pending[l][r] /\ Asking(l, r)' = Asking(l, r)
      BY <1>12, <1>15, <2>2
    <3> QED BY <3>1 DEF RequestsWait
  <2> QED BY <2>1, <2>2
<1> QED BY <1>12, <1>16 DEF RequestsWait

(* A command in hand that was not applied yet comes after those that were. *)
LEMMA LaterInHand ==
  ASSUME TypeOK, CommandsInOrder, NEW d \in Cmd,
         \/ \E i \in 1..Len(batch) : d = batch[i]
         \/ \E i \in 1..Len(commands) : d = commands[i]
         \/ \E i \in 1..Len(preStart) : d = preStart[i]
  PROVE  d.id >= Len(applied)
<1>1. /\ Len(applied) \in Nat /\ Len(batch) \in Nat /\ Len(commands) \in Nat
      /\ Len(preStart) \in Nat
  BY QueueLens DEF TypeOK
<1>2. CASE \E i \in 1..Len(batch) : d = batch[i]
  BY <1>1, <1>2 DEF CommandsInOrder
<1>3. CASE \E i \in 1..Len(commands) : d = commands[i]
  BY <1>1, <1>3 DEF CommandsInOrder
<1>4. CASE \E i \in 1..Len(preStart) : d = preStart[i]
  <2>1. Len(preStart) > 0
    BY <1>1, <1>4
  <2>2. applied = <<>>
    <3>1. preStart # <<>>
      BY <2>1, EmptySeq
    <3> QED BY <3>1 DEF CommandsInOrder
  <2>3. Len(applied) = 0 /\ d.id \in Nat
    BY <2>2, EmptySeq, CmdFacts
  <2> QED BY <2>3
<1> QED BY <1>2, <1>3, <1>4

(* The load that is answered first is the oldest command in hand.          *)
LEMMA OldestLoad ==
  ASSUME TypeOK, CommandsInOrder, LoadsInOrder, loading # <<>>,
         NEW d \in Range(Tail(loading)) \cup Range(batch) \cup Range(commands)
                       \cup Range(preStart)
  PROVE  Head(loading).id < d.id
<1>1. /\ loading \in Seq(Cmd) /\ batch \in Seq(Cmd) /\ commands \in Seq(Cmd)
      /\ preStart \in Seq(Cmd) /\ Len(loading) \in Nat /\ Len(applied) \in Nat
  BY QueueLens DEF TypeOK, CommandsTyped
<1>2. /\ Tail(loading) \in Seq(Cmd) /\ Len(Tail(loading)) = Len(loading) - 1
      /\ \A i \in 1..Len(Tail(loading)) : Tail(loading)[i] = loading[i + 1]
      /\ Head(loading) = loading[1] /\ Len(loading) > 0
      /\ Range(loading) = {Head(loading)} \cup Range(Tail(loading))
  BY <1>1, HeadTailProperties, EmptySeq, RangeTail
<1>3. 1 \in 1..Len(loading) /\ Head(loading).id \in Nat /\ Head(loading).id < Len(applied)
  <2>1. 1 \in 1..Len(loading)
    BY <1>1, <1>2
  <2>2. loading[1] \in Cmd
    BY <1>1, <2>1, ElementOfSeq
  <2> QED BY <1>2, <2>1, <2>2, CmdFacts DEF LoadsInOrder
<1>4. d \in InHand
  BY <1>2 DEF InHand
<1>5. d.id \in Nat /\ d \in Cmd
  BY <1>4, InHandPlaces, CmdFacts
<1>6. CASE d \in Range(Tail(loading))
  <2>0. Range(Tail(loading)) = {Tail(loading)[i] : i \in 1..Len(Tail(loading))}
    BY <1>2, RangeEquality
  <2>1. PICK i \in 1..Len(Tail(loading)) : d = Tail(loading)[i]
    BY <1>6, <2>0
  <2>2. PICK j \in 1..Len(loading) : j = i + 1
    BY <1>1, <1>2
  <2>3. d = loading[j] /\ 1 < j
    BY <1>1, <1>2, <2>1, <2>2
  <2> QED BY <1>2, <1>3, <2>3 DEF LoadsInOrder
<1>7. CASE d \notin Range(Tail(loading))
  <2>1. \/ \E i \in 1..Len(batch) : d = batch[i]
        \/ \E i \in 1..Len(commands) : d = commands[i]
        \/ \E i \in 1..Len(preStart) : d = preStart[i]
    BY <1>1, <1>7, RangeEquality
  <2>2. d.id >= Len(applied)
    BY <1>5, <2>1, LaterInHand
  <2> QED BY <1>1, <1>3, <1>5, <2>2
<1> QED BY <1>6, <1>7

(* While the device is closed the sound in front of the batch is the       *)
(* oldest one in hand.                                                     *)
LEMMA OldestSound ==
  ASSUME TypeOK, CommandsInOrder, LoadsInOrder, batch # <<>>, ~device,
         NEW d \in Range(loading) \cup Range(Tail(batch)) \cup Range(commands)
                       \cup Range(preStart),
         d.kind = "audio"
  PROVE  Head(batch).id < d.id
<1>1. /\ loading \in Seq(Cmd) /\ batch \in Seq(Cmd) /\ commands \in Seq(Cmd)
      /\ Len(batch) \in Nat /\ Len(applied) \in Nat /\ Len(commands) \in Nat
  BY QueueLens DEF TypeOK, CommandsTyped
<1>2. /\ Tail(batch) \in Seq(Cmd) /\ Len(Tail(batch)) = Len(batch) - 1
      /\ \A i \in 1..Len(Tail(batch)) : Tail(batch)[i] = batch[i + 1]
      /\ Head(batch) = batch[1] /\ Len(batch) > 0
  BY <1>1, HeadTailProperties, EmptySeq
<1>3. preStart = <<>> /\ Range(preStart) = {}
  BY RangeEmpty DEF CommandsInOrder
<1>4. Head(batch).id = Len(applied)
  <2>1. 1 \in 1..Len(batch)
    BY <1>1, <1>2
  <2>2. batch[1].id = Len(applied) + 1 - 1
    BY <2>1 DEF CommandsInOrder
  <2> QED BY <1>1, <1>2, <2>2
<1>5. CASE d \in Range(loading)
  BY <1>1, <1>5, RangeEquality DEF LoadsInOrder
<1>6. CASE d \in Range(Tail(batch))
  <2>0. Range(Tail(batch)) = {Tail(batch)[i] : i \in 1..Len(Tail(batch))}
    BY <1>2, RangeEquality
  <2>1. PICK i \in 1..Len(Tail(batch)) : d = Tail(batch)[i]
    BY <1>6, <2>0
  <2>2. PICK j \in 1..Len(batch) : j = i + 1
    BY <1>1, <1>2
  <2>3. d = batch[j] /\ j > 1
    BY <1>1, <1>2, <2>1, <2>2
  <2>4. d.id = Len(applied) + j - 1
    BY <2>3 DEF CommandsInOrder
  <2> QED BY <1>1, <1>4, <2>3, <2>4
<1>7. CASE d \in Range(commands)
  <2>1. PICK i \in 1..Len(commands) : d = commands[i]
    BY <1>1, <1>7, RangeEquality
  <2>2. d.id = Len(applied) + Len(batch) + i - 1
    BY <2>1 DEF CommandsInOrder
  <2> QED BY <1>1, <1>2, <1>4, <2>2
<1> QED BY <1>3, <1>5, <1>6, <1>7

(* A new request waits behind those for the same path.                     *)
LEMMA RequestJoins ==
  ASSUME TypeOK, CommandsInOrder, RequestsWait,
         NEW k \in Kinds, NEW p \in Path \cup {NoPath}, Send(k, p)
  PROVE  RequestsWait'
<1>1. PICK c \in Cmd :
         /\ c = SentCmd(k, p) /\ c.id = issued + 1 /\ c.kind = k /\ c.path = p
         /\ issued' = issued + 1 /\ UNCHANGED <<applied, batch>>
         /\ IF startSeen THEN commands' = Append(commands, c) /\ preStart' = preStart
                         ELSE preStart' = Append(preStart, c) /\ commands' = commands
  BY SentLast
<1>2. /\ UNCHANGED <<loading, failed>>
      /\ pending' = IF k \in Requests
                    THEN [pending EXCEPT ![k][p] = Append(@, issued + 1)] ELSE pending
  BY DEF Send, jsVars
<1>3. InHand' = InHand \cup {c}
  <2>1. commands \in Seq(Cmd) /\ preStart \in Seq(Cmd)
    BY DEF TypeOK, CommandsTyped
  <2>2. /\ Range(Append(commands, c)) = Range(commands) \cup {c}
        /\ Range(Append(preStart, c)) = Range(preStart) \cup {c}
    BY <2>1, RangeAppend
  <2>3. Range(commands') \cup Range(preStart') = Range(commands) \cup Range(preStart) \cup {c}
    BY <1>1, <2>2
  <2> QED BY <1>1, <1>2, <2>3 DEF InHand
<1>4. issued \in Nat
  BY Bounds DEF TypeOK, NumbersTyped
<1>5. ASSUME NEW l \in Requests, NEW r \in Path
      PROVE  Asking(l, r)' = IF l = k /\ r = p THEN Asking(l, r) \cup {issued + 1}
                             ELSE Asking(l, r)
  <2>1. {d \in InHand' : d.kind = l /\ d.path = r}
          = IF l = k /\ r = p THEN {d \in InHand : d.kind = l /\ d.path = r} \cup {c}
                              ELSE {d \in InHand : d.kind = l /\ d.path = r}
    BY <1>1, <1>3
  <2> QED BY <1>1, <2>1 DEF Asking
<1>6. CASE k \notin Requests
  <2>1. pending' = pending
    BY <1>2, <1>6
  <2>2. \A l \in Requests, r \in Path : Asking(l, r)' = Asking(l, r)
    BY <1>5, <1>6
  <2>3. \A l \in Requests, r \in Path : \A i \in 1..Len(pending[l][r]) :
          pending[l][r][i] <= issued + 1
    <3>1. ASSUME NEW l \in Requests, NEW r \in Path, NEW i \in 1..Len(pending[l][r])
          PROVE  pending[l][r][i] <= issued + 1
      <4>1. pending[l][r][i] \in Nat
        BY PendingSeq, ElementOfSeq DEF TypeOK
      <4>2. pending[l][r][i] <= issued
        BY DEF RequestsWait
      <4> QED BY <1>4, <4>1, <4>2
    <3> QED BY <3>1
  <2> QED BY <1>1, <1>2, <2>1, <2>2, <2>3 DEF RequestsWait
<1>7. CASE k \in Requests
  <2>1. p \in Path /\ issued + 1 \in 1..MaxCommands
    BY <1>1, <1>7, CmdFacts
  <2>2. pending[k][p] \in Seq(1..MaxCommands) /\ pending[k][p] \in Seq(Nat)
    BY <1>7, <2>1, PendingSeq DEF TypeOK
  <2>3. PICK q \in Seq(Nat) : q = pending[k][p] /\ q \in Seq(1..MaxCommands)
    BY <2>2
  <2>4. PICK e \in Nat : e = issued + 1 /\ e \in 1..MaxCommands
    BY <1>4, <2>1
  <2>5. PICK w : w = Append(q, e)
    OBVIOUS
  <2>6. /\ w \in Seq(1..MaxCommands) /\ Len(w) = Len(q) + 1 /\ Len(q) \in Nat
        /\ \A i \in 1..Len(q) : w[i] = q[i] /\ q[i] \in Nat
        /\ w[Len(q) + 1] = e
    BY <2>3, <2>4, <2>5, AppendProperties, LenProperties, ElementOfSeq
  <2>7. Range(w) = Range(q) \cup {e}
    BY <2>5, RangeAppend
  <2>8. /\ pending'[k][p] = w
        /\ \A l \in Requests, r \in Path : l # k \/ r # p => pending'[l][r] = pending[l][r]
    <3>1. pending' = [pending EXCEPT ![k][p] = w]
      BY <1>2, <1>7, <2>3, <2>4, <2>5
    <3>2. pending \in [Requests -> [Path -> Seq(1..MaxCommands)]]
      BY DEF TypeOK, CommandsTyped
    <3> QED BY <1>7, <2>1, <3>1, <3>2
  <2>9. \A i, j \in 1..Len(q) : q[i] <= issued /\ (i < j => q[i] < q[j])
    BY <1>7, <2>1, <2>3 DEF RequestsWait
  <2>10. \A i, j \in 1..Len(w) : w[i] <= issued + 1 /\ (i < j => w[i] < w[j])
    <3>1. ASSUME NEW i \in 1..Len(w) PROVE i \in 1..Len(q) \/ i = Len(q) + 1
      BY <2>6
    <3>2. ASSUME NEW i \in 1..Len(w) PROVE w[i] <= issued + 1
      <4>1. CASE i \in 1..Len(q)
        BY <1>4, <2>6, <2>9, <4>1
      <4>2. CASE i = Len(q) + 1
        BY <1>4, <2>4, <2>6, <4>2
      <4> QED BY <3>1, <4>1, <4>2
    <3>3. ASSUME NEW i \in 1..Len(w), NEW j \in 1..Len(w), i < j PROVE w[i] < w[j]
      <4>1. i \in 1..Len(q)
        BY <2>6, <3>3
      <4>2. CASE j \in 1..Len(q)
        BY <2>6, <2>9, <3>3, <4>1, <4>2
      <4>3. CASE j = Len(q) + 1
        BY <1>4, <2>4, <2>6, <2>9, <4>1, <4>3
      <4> QED BY <3>1, <4>2, <4>3
    <3> QED BY <3>2, <3>3
  <2>11. ASSUME NEW l \in Requests, NEW r \in Path
         PROVE  /\ ~failed => Range(pending'[l][r]) = Asking(l, r)'
                /\ \A i, j \in 1..Len(pending'[l][r]) :
                     /\ pending'[l][r][i] <= issued'
                     /\ i < j => pending'[l][r][i] < pending'[l][r][j]
    <3>1. CASE l = k /\ r = p
      <4>1. ~failed => Range(q) = Asking(k, p)
        BY <2>3, <3>1 DEF RequestsWait
      <4>2. Asking(l, r)' = Asking(k, p) \cup {issued + 1}
        BY <1>5, <3>1
      <4> QED BY <1>1, <2>4, <2>7, <2>8, <2>10, <3>1, <4>1, <4>2
    <3>2. CASE l # k \/ r # p
      <4>1. pending'[l][r] = pending[l][r] /\ Asking(l, r)' = Asking(l, r)
        BY <1>5, <2>8, <3>2
      <4>2. \A i, j \in 1..Len(pending[l][r]) :
              pending[l][r][i] <= issued /\ (i < j => pending[l][r][i] < pending[l][r][j])
        BY DEF RequestsWait
      <4>3. \A i \in 1..Len(pending[l][r]) : pending[l][r][i] \in Nat
        BY PendingSeq, ElementOfSeq DEF TypeOK
      <4>4. \A i \in 1..Len(pending[l][r]) : pending[l][r][i] <= issued + 1
        BY <1>4, <4>2, <4>3
      <4>5. ~failed => Range(pending[l][r]) = Asking(l, r)
        BY DEF RequestsWait
      <4> QED BY <1>1, <4>1, <4>2, <4>4, <4>5
    <3> QED BY <3>1, <3>2
  <2> QED BY <1>2, <2>11 DEF RequestsWait
<1> QED BY <1>6, <1>7

LEMMA RequestsKept ==
  ASSUME TypeOK, CommandsInOrder, LoadsInOrder, RequestsWait, ~mixed, Next
  PROVE  RequestsWait' /\ ~mixed'
<1>1. /\ loading \in Seq(Cmd) /\ batch \in Seq(Cmd) /\ commands \in Seq(Cmd)
      /\ preStart \in Seq(Cmd) /\ Len(loading) \in Nat /\ failed \in BOOLEAN
  BY QueueLens DEF TypeOK, CommandsTyped, FlagsTyped
<1>0. \A d \in {StartCmd} : d.kind \notin Requests
  BY StartIsACmd DEF Requests
<1>2. CASE CommandsRest /\ FilesRest
  <2>1. InHand' = InHand /\ UNCHANGED <<pending, issued, mixed>> /\ (failed => failed')
    BY <1>2 DEF CommandsRest, FilesRest, fileVars, InHand
  <2>2. InHand' \cup {StartCmd} = InHand \cup {StartCmd}
    BY <2>1
  <2>3. RequestsWait'
    BY <1>0, <2>1, <2>2, WaitsRest
  <2> QED BY <2>1, <2>3
<1>3. CASE SendStart
  <2>1. UNCHANGED <<pending, issued, mixed, failed, loading>>
    BY <1>3 DEF SendStart, fileVars, jsVars
  <2>2. /\ Range(batch') = {} /\ Range(preStart') = {}
        /\ Range(batch) = {} /\ Range(commands) = {}
        /\ Range(commands') = {StartCmd} \cup Range(preStart)
    <3>1. batch' = <<>> /\ preStart' = <<>> /\ batch = <<>> /\ commands = <<>>
      BY <1>3, StartFirst DEF SendStart, CommandsInOrder
    <3> QED BY <1>3, <3>1, StartFirst, RangeEmpty
  <2>3. InHand' \cup {StartCmd} = InHand \cup {StartCmd}
    BY <2>1, <2>2 DEF InHand
  <2>4. RequestsWait'
    BY <1>0, <2>1, <2>3, WaitsRest
  <2> QED BY <2>1, <2>4
<1>4. ASSUME NEW k \in Kinds, NEW p \in Path \cup {NoPath}, Send(k, p)
      PROVE  RequestsWait' /\ ~mixed'
  BY <1>4, RequestJoins DEF Send
<1>5. CASE Dispatch
  <2>1. PICK c \in Cmd :
           /\ batch # <<>> /\ c = Head(batch) /\ batch' = Tail(batch)
           /\ UNCHANGED <<failed, preStart, commands, issued>>
           /\ \/ /\ c.kind \in Requests /\ loading' = Append(loading, c)
                 /\ UNCHANGED <<pending, mixed>>
              \/ c.kind \notin Requests /\ UNCHANGED <<loading, pending, mixed>>
              \/ /\ c.kind = "audio" /\ ~device /\ UNCHANGED loading
                 /\ (failed /\ UNCHANGED <<pending, mixed>>) \/ (~failed /\ Answered(c))
    BY <1>5, DispatchFacts DEF fileVars
  <2>2. Range(batch) = {c} \cup Range(batch')
    BY <1>1, <2>1, RangeTail
  <2>3. CASE c.kind \in Requests /\ loading' = Append(loading, c) /\ UNCHANGED <<pending, mixed>>
    <3>1. Range(loading') = Range(loading) \cup {c}
      BY <1>1, <2>3, RangeAppend
    <3>2. InHand' \cup {StartCmd} = InHand \cup {StartCmd}
      BY <2>1, <2>2, <3>1 DEF InHand
    <3>3. UNCHANGED <<pending, issued>> /\ (failed => failed')
      BY <2>1, <2>3
    <3>4. RequestsWait'
      BY <1>0, <3>2, <3>3, WaitsRest
    <3> QED BY <2>3, <3>4
  <2>4. CASE c.kind \notin Requests /\ UNCHANGED <<loading, pending, mixed>>
    <3>1. InHand' \cup {c} = InHand \cup {c} /\ \A d \in {c} : d.kind \notin Requests
      BY <2>1, <2>2, <2>4 DEF InHand
    <3>2. RequestsWait'
      BY <2>1, <2>4, <3>1, WaitsRest
    <3> QED BY <2>4, <3>2
  <2>5. CASE failed /\ UNCHANGED <<pending, mixed>>
    BY <2>1, <2>5 DEF RequestsWait
  <2>6. CASE c.kind = "audio" /\ ~device /\ UNCHANGED loading /\ ~failed /\ Answered(c)
    <3>1. InHand' = Range(loading) \cup Range(Tail(batch)) \cup Range(commands)
                    \cup Range(preStart)
      BY <2>1, <2>6 DEF InHand
    <3>2. InHand = InHand' \cup {c} /\ c \in InHand /\ c.kind \in Requests
      BY <2>1, <2>2, <2>6, <3>1 DEF InHand, Requests
    <3>3. \A d \in InHand' : d.kind = c.kind => c.id < d.id
      BY <2>1, <2>6, <3>1, OldestSound
    <3>4. c \notin InHand'
      BY <3>3, CmdFacts
    <3>5. mixed' = mixed /\ RequestsWait'
      BY <2>1, <2>6, <3>2, <3>3, <3>4, AnswerFits
    <3> QED BY <3>5
  <2> QED BY <2>1, <2>3, <2>4, <2>5, <2>6
<1>6. CASE Pulls /\ FilesRest
  <2>1. /\ batch = <<>> /\ batch' = commands /\ commands' = <<>>
        /\ UNCHANGED <<preStart, issued, loading, pending, mixed>> /\ (failed => failed')
    BY <1>6 DEF Pulls, PullCommands, FilesRest, fileVars
  <2>2. Range(batch) = {} /\ Range(commands') = {}
    BY <2>1, RangeEmpty
  <2>3. InHand' \cup {StartCmd} = InHand \cup {StartCmd}
    BY <2>1, <2>2 DEF InHand
  <2>4. RequestsWait'
    BY <1>0, <2>1, <2>3, WaitsRest
  <2> QED BY <2>1, <2>4
<1>7. CASE Answer /\ CommandsRest
  <2>1. /\ loading # <<>> /\ ~failed /\ loading' = Tail(loading) /\ Answered(Head(loading))
        /\ UNCHANGED <<failed, batch, commands, preStart, issued>>
    BY <1>7 DEF Answer, CommandsRest
  <2>2. Head(loading) \in Cmd /\ Head(loading) = loading[1]
    BY <1>1, <2>1, HeadTailProperties
  <2>3. PICK c \in Cmd : c = Head(loading)
    BY <2>2
  <2>4. c.kind \in Requests
    <3>1. 1 \in 1..Len(loading)
      BY <1>1, <2>1, EmptySeq
    <3> QED BY <2>2, <2>3, <3>1 DEF LoadsInOrder
  <2>5. Answered(c)
    BY <2>1, <2>3 DEF Answered, Asker
  <2>6. InHand' = Range(Tail(loading)) \cup Range(batch) \cup Range(commands) \cup Range(preStart)
    BY <2>1 DEF InHand
  <2>7. InHand = InHand' \cup {c} /\ c \in InHand
    <3>1. Range(loading) = {c} \cup Range(Tail(loading))
      BY <1>1, <2>1, <2>3, RangeTail
    <3> QED BY <2>6, <3>1 DEF InHand
  <2>8. \A d \in InHand' : d.kind = c.kind => c.id < d.id
    BY <2>1, <2>3, <2>6, OldestLoad
  <2>9. c \notin InHand'
    BY <2>8, CmdFacts
  <2>10. mixed' = mixed /\ RequestsWait'
    BY <2>1, <2>4, <2>5, <2>7, <2>8, <2>9, AnswerFits
  <2> QED BY <2>10
<1> QED BY <1>2, <1>3, <1>4, <1>5, <1>6, <1>7, CommandSteps

-----------------------------------------------------------------------------
(* Animation frames.                                                       *)

(* Time goes on, and drive_one_frame goes on when no timer is due.         *)
LEMMA ClockSteps ==
  ASSUME Next
  PROVE  /\ now' = now \/ now' = now + 1
         /\ stage' = stage \/ due = <<>>
<1>1. CASE JavaScript \/ Answer \/ Pass \/ Stopped
  BY <1>1 DEF JavaScript, SetTimer, ClearTimer, SendStart, Send, SetView, Leave, Answer, Pass,
              Stopped, vars, jsVars, clockVars
<1>2. CASE Drive
  BY <1>2 DEF Drive, InitTimers, Boot, EnterLoop, Top, Dispatch, BeforeEvents, Timers,
              CallTimer, EventsDone, Pump, Tick, BeforeView, PullAgain, PullView, Render,
              AfterFrame, At, clockVars
<1> QED BY <1>1, <1>2 DEF Next

LEMMA FramesKept ==
  ASSUME TypeOK, FramesAreNew, Next
  PROVE  FramesAreNew'
<1>1. /\ timers \in Seq(Timer) /\ due \in Seq(Timer) /\ now \in Nat /\ odd \in BOOLEAN
      /\ now' \in Nat /\ now' >= now
  <2>1. timers \in Seq(Timer) /\ due \in Seq(Timer) /\ now \in Nat /\ odd \in BOOLEAN
    BY Bounds DEF TypeOK, TimersTyped, NumbersTyped, FlagsTyped
  <2>2. now' = now \/ now' = now + 1
    BY ClockSteps
  <2> QED BY <2>1, <2>2
<1>2. /\ Len(<<>>) = 0 /\ (stage' = stage \/ due = <<>>)
      /\ \A i \in 1..Len(timers) : timers[i] \in Timer /\ timers[i].due \in Nat
  BY <1>1, EmptySeq, ElementOfSeq, TimerFacts, ClockSteps
<1>3. /\ \A i \in 1..Len(timers) :
           timers[i].frame => timers[i].born = odd /\ timers[i].due <= now
      /\ \A i \in 1..Len(due) : due[i].frame => due[i].born # odd /\ stage = "events"
  BY DEF FramesAreNew
<1>4. \A i \in 1..Len(timers) : timers[i].frame => timers[i].due <= now'
  BY <1>1, <1>2, <1>3
<1>5. CASE TimersRest
  <2>1. timers' = timers /\ odd' = odd /\ (due' = due \/ due' = <<>>)
    BY <1>5 DEF TimersRest
  <2>2. \A i \in 1..Len(due') : due'[i].frame => due'[i].born # odd' /\ stage' = "events"
    BY <1>2, <1>3, <2>1
  <2> QED BY <1>3, <1>4, <2>1, <2>2 DEF FramesAreNew
<1>6. ASSUME NEW d \in Delays \cup {0}, NEW frame \in BOOLEAN, SetTimer(d, frame), frame => d = 0
      PROVE  FramesAreNew'
  <2>1. PICK t \in Timer :
           /\ t.frame = frame /\ t.born = odd /\ t.due = now + d
           /\ timers' = Append(timers, t) /\ UNCHANGED <<due, odd, now, stage>>
    BY <1>6, NewTimer
  <2>2. /\ Len(timers') = Len(timers) + 1 /\ Len(timers) \in Nat
        /\ \A i \in 1..Len(timers) : timers'[i] = timers[i]
        /\ timers'[Len(timers) + 1] = t
    BY <1>1, <2>1, AppendProperties, LenProperties
  <2>3. t.frame => t.born = odd /\ t.due <= now
    BY <1>1, <1>6, <2>1
  <2>4. ASSUME NEW i \in 1..Len(timers')
        PROVE  timers'[i].frame => timers'[i].born = odd /\ timers'[i].due <= now
    <3>1. i \in 1..Len(timers) \/ i = Len(timers) + 1
      BY <2>2
    <3> QED BY <1>3, <2>2, <2>3, <3>1
  <2> QED BY <1>3, <2>1, <2>4 DEF FramesAreNew
<1>7. ASSUME NEW id \in 1..MaxTimers, ClearTimer(id)
      PROVE  FramesAreNew'
  <2> DEFINE I == {i \in DOMAIN timers : timers[i].id # id}
  <2>1. timers' = Pick(timers, I) /\ UNCHANGED <<due, odd, now, stage>>
    BY <1>7 DEF ClearTimer, clockVars, jsVars
  <2>2. I \in SUBSET DOMAIN timers /\ DOMAIN timers = 1..Len(timers)
    BY <1>1, LenProperties
  <2> HIDE DEF I
  <2>3. \A n \in 1..Len(timers') : \E i \in I : timers'[n] = timers[i]
    BY <1>1, <2>1, <2>2, PickSeq
  <2> QED BY <1>3, <2>1, <2>2, <2>3 DEF FramesAreNew
<1>8. CASE Collects
  <2>1. PICK frames \in BOOLEAN :
           /\ Collect(frames) /\ odd' = IF frames THEN ~odd ELSE odd
           /\ frames => stage' = "events"
    BY <1>8 DEF Collects
  <2> DEFINE I == {i \in DOMAIN timers : Runs(timers[i], frames)}
             J == {i \in DOMAIN timers : ~Runs(timers[i], frames)}
  <2>2. due' = Pick(timers, I) /\ timers' = Pick(timers, J)
    BY <2>1 DEF Collect
  <2>3. /\ I \in SUBSET DOMAIN timers /\ J \in SUBSET DOMAIN timers
        /\ DOMAIN timers = 1..Len(timers)
    BY <1>1, LenProperties
  <2>4. /\ \A i \in I : timers[i].frame => frames
        /\ \A i \in J : timers[i].frame => ~frames
    <3>1. \A i \in I : timers[i].frame => frames
      BY DEF Runs
    <3>2. \A i \in J : timers[i].frame => ~frames
      BY <1>3, <2>3 DEF Runs
    <3> QED BY <3>1, <3>2
  <2> HIDE DEF I, J
  <2>5. /\ \A n \in 1..Len(due') : \E i \in I : due'[n] = timers[i]
        /\ \A n \in 1..Len(timers') : \E i \in J : timers'[n] = timers[i]
    <3>1. \A n \in 1..Len(due') : \E i \in I : due'[n] = timers[i]
      BY <1>1, <2>2, <2>3, PickSeq
    <3>2. \A n \in 1..Len(timers') : \E i \in J : timers'[n] = timers[i]
      BY <1>1, <2>2, <2>3, PickSeq
    <3> QED BY <3>1, <3>2
  <2>6. ASSUME NEW n \in 1..Len(due'), due'[n].frame
        PROVE  due'[n].born # odd' /\ stage' = "events"
    <3>1. PICK i \in I : due'[n] = timers[i]
      BY <2>5
    <3>2. frames /\ i \in 1..Len(timers)
      BY <2>3, <2>4, <2>6, <3>1
    <3> QED BY <1>1, <1>3, <2>1, <2>6, <3>1, <3>2
  <2>7. ASSUME NEW n \in 1..Len(timers'), timers'[n].frame
        PROVE  timers'[n].born = odd' /\ timers'[n].due <= now'
    <3>1. PICK i \in J : timers'[n] = timers[i]
      BY <2>5
    <3>2. ~frames /\ i \in 1..Len(timers)
      BY <2>3, <2>4, <2>7, <3>1
    <3> QED BY <1>3, <1>4, <2>1, <2>7, <3>1, <3>2
  <2> QED BY <2>6, <2>7 DEF FramesAreNew
<1>9. CASE CallTimer
  <2>1. due # <<>> /\ due' = Tail(due) /\ UNCHANGED <<timers, odd, now, stage>>
    BY <1>9 DEF CallTimer, clockVars
  <2>2. /\ Len(due') = Len(due) - 1 /\ Len(due) \in Nat
        /\ \A i \in 1..Len(due') : due'[i] = due[i + 1]
    BY <1>1, <2>1, HeadTailProperties, LenProperties
  <2>3. \A i \in 1..Len(due') : i + 1 \in 1..Len(due)
    BY <2>2
  <2> QED BY <1>3, <2>1, <2>2, <2>3 DEF FramesAreNew
<1> QED BY <1>5, <1>6, <1>7, <1>8, <1>9, TimerSteps

-----------------------------------------------------------------------------
(* The theorems.                                                           *)

LEMMA InitHolds == Init => IInv
<1> SUFFICES ASSUME Init PROVE IInv
  OBVIOUS
<1>1. /\ <<>> \in Seq(Cmd) /\ <<>> \in Seq(Timer) /\ <<>> \in Seq(1..MaxCommands)
      /\ Len(<<>>) = 0 /\ Range(<<>>) = {}
  BY EmptySeq, RangeEmpty
<1>2. TypeOK
  <2>1. FlagsTyped /\ TimersTyped
    BY <1>1 DEF Init, FlagsTyped, TimersTyped
  <2>2. NumbersTyped
    BY Bounds DEF Init, NumbersTyped, Stages
  <2>3. CommandsTyped
    BY <1>1 DEF Init, CommandsTyped
  <2> QED BY <2>1, <2>2, <2>3 DEF Init, TypeOK
<1>3. CommandsInOrder
  BY <1>1 DEF Init, CommandsInOrder
<1>4. LoadsInOrder
  BY <1>1 DEF Init, LoadsInOrder
<1>5. RequestsWait
  <2>1. \A k \in Requests, p \in Path : pending[k][p] = <<>>
    BY DEF Init
  <2>2. InHand = {}
    BY <1>1 DEF Init, InHand
  <2>3. \A k, p : Asking(k, p) = {}
    BY <2>2 DEF Asking
  <2>4. \A k \in Requests, p \in Path :
          Range(pending[k][p]) = Asking(k, p) /\ Len(pending[k][p]) = 0
    BY <1>1, <2>1, <2>3
  <2> QED BY <2>4 DEF RequestsWait
<1>6. FramesAreNew
  BY <1>1 DEF Init, FramesAreNew
<1> QED BY <1>2, <1>3, <1>4, <1>5, <1>6 DEF Init, IInv, AnswersFindTheirRequest

LEMMA StepHolds == IInv /\ [Next]_vars => IInv'
<1> SUFFICES ASSUME IInv, [Next]_vars PROVE IInv'
  OBVIOUS
<1>1. CASE Next
  <2>1. TypeOK'
    BY <1>1, TypesKept DEF IInv
  <2>2. CommandsInOrder'
    BY <1>1, OrderKept DEF IInv
  <2>3. LoadsInOrder'
    BY <1>1, LoadsKept DEF IInv
  <2>4. RequestsWait' /\ AnswersFindTheirRequest'
    BY <1>1, RequestsKept DEF IInv, AnswersFindTheirRequest
  <2>5. FramesAreNew'
    BY <1>1, FramesKept DEF IInv
  <2> QED BY <2>1, <2>2, <2>3, <2>4, <2>5 DEF IInv
<1>2. CASE UNCHANGED vars
  <2>1. UNCHANGED <<stage, js, failed, now, odd, timers, due, nextId, cleared, startSeen, resize,
                    preStart, commands, issued, batch, applied, pending, loading, device, mixed,
                    view>>
    BY <1>2 DEF vars, jsVars, clockVars, timerVars, commandVars, fileVars
  <2>2. TypeOK'
    BY <2>1 DEF IInv, TypeOK, FlagsTyped, NumbersTyped, TimersTyped, CommandsTyped
  <2>3. CommandsInOrder' /\ LoadsInOrder' /\ FramesAreNew' /\ AnswersFindTheirRequest'
    BY <2>1 DEF IInv, CommandsInOrder, LoadsInOrder, FramesAreNew, AnswersFindTheirRequest
  <2>4. RequestsWait'
    BY <2>1 DEF IInv, RequestsWait, Asking, InHand
  <2> QED BY <2>2, <2>3, <2>4 DEF IInv
<1> QED BY <1>1, <1>2

LEMMA IInvAlways == Spec => []IInv
  BY InitHolds, StepHolds, PTL DEF Spec

(* The members of ElmHost keep their types, nothing is held back once      *)
(* enqueue_command has seen StartRegl, and drive_one_frame is not reached  *)
(* before that.                                                            *)
THEOREM TypeCorrect == Spec => []TypeOK
<1>1. IInv => TypeOK
  BY DEF IInv
<1> QED BY <1>1, IInvAlways, PTL

(* Whatever the program sends, and whenever, dispatch_batch sees StartRegl *)
(* first and then the other commands, each once and in the order in which  *)
(* enqueue_command got them.                                               *)
THEOREM EngineSeesCommandsInOrder == Spec => []StartThenInOrder
<1>1. IInv => StartThenInOrder
  <2> SUFFICES ASSUME IInv PROVE StartThenInOrder
    OBVIOUS
  <2>1. DOMAIN applied = 1..Len(applied)
    BY LenProperties DEF IInv, TypeOK, CommandsTyped
  <2> QED BY <2>1 DEF IInv, CommandsInOrder, StartThenInOrder
<1> QED BY <1>1, IInvAlways, PTL

(* on_backend_event and on_audio_event always give an answer to the        *)
(* request it answers: the one at the head of the list for its path.       *)
THEOREM AnswersAreNotMixed == Spec => []AnswersFindTheirRequest
<1>1. IInv => AnswersFindTheirRequest
  BY DEF IInv
<1> QED BY <1>1, IInvAlways, PTL

(* run_timers(true) is the only call that runs animation frames, runs all  *)
(* that were asked for before it and none that was asked for in it.        *)
THEOREM FramesWaitForTheNextFrame == Spec => []FramesRunNextFrame
<1>1. IInv => FramesRunNextFrame
  <2> SUFFICES ASSUME IInv PROVE FramesRunNextFrame
    OBVIOUS
  <2>1. DOMAIN timers = 1..Len(timers) /\ DOMAIN due = 1..Len(due)
    BY LenProperties DEF IInv, TypeOK, TimersTyped
  <2> QED BY <2>1 DEF IInv, FramesAreNew, FramesRunNextFrame
<1> QED BY <1>1, IInvAlways, PTL
=============================================================================
