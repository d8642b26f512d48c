-------------------------- MODULE AudioEngineProofs --------------------------
(***************************************************************************)
(* Proofs about AudioEngine, for every number of addresses, urls, groups   *)
(* and for every bound: the audio thread never follows a pointer to freed  *)
(* memory, every buffer has one owner, by_url_ stays sound, and the two    *)
(* threads implement BufferLifetime.                                       *)
(***************************************************************************)
EXTENDS AudioEngine, SequenceTheorems, TLAPS

-----------------------------------------------------------------------------
(* The command vectors: what appending, taking the head and stamping a     *)
(* batch do to the buffers they mention.                                   *)

LEMMA EmptyCmds ==
  /\ Starts(<<>>) = {}
  /\ Releases(<<>>) = {}
  /\ NoDoubleRelease(<<>>)
  BY DEF Starts, Releases, NoDoubleRelease

LEMMA Mentions ==
  ASSUME NEW q, NEW b
  PROVE  /\ b \in Starts(q) <=> \E i \in DOMAIN q : q[i].kind = "start" /\ q[i].buf = b
         /\ b \in Releases(q) <=> \E i \in DOMAIN q : q[i].kind = "release" /\ q[i].buf = b
  BY DEF Starts, Releases

(* The vector of commands, each stamped with frame f.                      *)
Stamped(s, f) == [i \in 1..Len(s) |-> [s[i] EXCEPT !.frame = f]]

LEMMA StampedCmds ==
  ASSUME NEW s \in Seq(StartCmd \cup ControlCmd), NEW f \in Nat
  PROVE  /\ Stamped(s, f) \in Seq(StartCmd \cup ControlCmd)
         /\ Len(Stamped(s, f)) = Len(s)
         /\ \A i \in 1..Len(s) : /\ Stamped(s, f)[i].kind = s[i].kind
                                 /\ Stamped(s, f)[i].buf = s[i].buf
                                 /\ Stamped(s, f)[i].frame = f
<1>1. Len(s) \in Nat
  OBVIOUS
<1>2. ASSUME NEW i \in 1..Len(s)
      PROVE  /\ [s[i] EXCEPT !.frame = f] \in StartCmd \cup ControlCmd
             /\ [s[i] EXCEPT !.frame = f].kind = s[i].kind
             /\ [s[i] EXCEPT !.frame = f].buf = s[i].buf
             /\ [s[i] EXCEPT !.frame = f].frame = f
  <2>1. s[i] \in StartCmd \cup ControlCmd
    BY ElementOfSeq
  <2> QED BY <2>1 DEF StartCmd, ControlCmd
<1>3. /\ Stamped(s, f) \in [1..Len(s) -> StartCmd \cup ControlCmd]
      /\ \A i \in 1..Len(s) : Stamped(s, f)[i] = [s[i] EXCEPT !.frame = f]
  BY <1>2 DEF Stamped
<1>4. Stamped(s, f) \in Seq(StartCmd \cup ControlCmd) /\ Len(Stamped(s, f)) = Len(s)
  BY <1>1, <1>3
<1> QED BY <1>2, <1>3, <1>4

(* A command issued after the release of a buffer never starts it.         *)
Ordered(q) ==
  \A i, j \in DOMAIN q :
    q[i].kind = "release" /\ q[j].kind = "start" /\ q[i].buf = q[j].buf => j < i

LEMMA AppendRelease ==
  ASSUME NEW q \in Seq(Cmd), NEW p \in Ptr, p \notin Releases(q)
  PROVE  LET r == Append(q, ReleaseOf(p)) IN
         /\ r \in Seq(Cmd)
         /\ Starts(r) = Starts(q)
         /\ Releases(r) = Releases(q) \cup {p}
         /\ NoDoubleRelease(q) => NoDoubleRelease(r)
         /\ Ordered(q) => Ordered(r)
<1> DEFINE c == ReleaseOf(p)
           r == Append(q, c)
<1>1. c \in Cmd /\ c.kind = "release" /\ c.buf = p
  BY DEF ReleaseOf, Cmd, ReleaseCmd
<1> HIDE DEF c
<1>2. /\ r \in Seq(Cmd)
      /\ DOMAIN r = 1..(Len(q) + 1)
      /\ DOMAIN q = 1..Len(q)
      /\ Len(q) \in Nat
      /\ \A i \in 1..Len(q) : r[i] = q[i]
      /\ r[Len(q) + 1] = c
  BY <1>1
<1> HIDE DEF r
<1>3. Starts(r) = Starts(q)
  BY <1>1, <1>2 DEF Starts
<1>4. Releases(r) = Releases(q) \cup {p}
  BY <1>1, <1>2 DEF Releases
<1>5. \A i \in DOMAIN q : q[i].kind = "release" => q[i].buf # p
  BY DEF Releases
<1>6. NoDoubleRelease(q) => NoDoubleRelease(r)
  BY <1>1, <1>2, <1>5 DEF NoDoubleRelease
<1>7. Ordered(q) => Ordered(r)
  BY <1>1, <1>2 DEF Ordered
<1> QED BY <1>2, <1>3, <1>4, <1>6, <1>7 DEF r, c

LEMMA TakeHead ==
  ASSUME NEW q \in Seq(Cmd), q # <<>>, NoDoubleRelease(q), Ordered(q)
  PROVE  /\ Head(q) \in Cmd
         /\ Tail(q) \in Seq(Cmd)
         /\ NoDoubleRelease(Tail(q))
         /\ Ordered(Tail(q))
         /\ Starts(q) = Starts(Tail(q)) \cup
              (IF Head(q).kind = "start" THEN {Head(q).buf} ELSE {})
         /\ Releases(q) = Releases(Tail(q)) \cup
              (IF Head(q).kind = "release" THEN {Head(q).buf} ELSE {})
         /\ Head(q).kind = "release" =>
              /\ Head(q).buf \notin Starts(Tail(q))
              /\ Head(q).buf \notin Releases(Tail(q))
<1> DEFINE t == Tail(q)
<1>1. /\ Head(q) \in Cmd /\ Head(q) = q[1]
      /\ t \in Seq(Cmd)
      /\ Len(q) \in Nat \ {0}
      /\ DOMAIN q = 1..Len(q)
      /\ DOMAIN t = 1..(Len(q) - 1)
      /\ \A i \in 1..(Len(q) - 1) : t[i] = q[i + 1]
  BY HeadTailProperties
<1> HIDE DEF t
<1>2. /\ \A i \in DOMAIN q : i = 1 \/ (i - 1 \in DOMAIN t /\ q[i] = t[i - 1])
      /\ \A i \in DOMAIN t : i + 1 \in DOMAIN q /\ t[i] = q[i + 1]
      /\ 1 \in DOMAIN q
      /\ DOMAIN t \subseteq Nat
  BY <1>1
<1>3. NoDoubleRelease(t)
  BY <1>2 DEF NoDoubleRelease
<1>4. Ordered(t)
  BY <1>2 DEF Ordered
<1>5. Starts(q) = Starts(t) \cup (IF Head(q).kind = "start" THEN {Head(q).buf} ELSE {})
  <2>1. ASSUME NEW b, b \in Starts(q)
        PROVE  b \in Starts(t) \/ (Head(q).kind = "start" /\ b = Head(q).buf)
    <3>1. PICK i \in DOMAIN q : q[i].kind = "start" /\ q[i].buf = b
      BY <2>1, Mentions
    <3> QED BY <3>1, <1>1, <1>2, Mentions
  <2>2. ASSUME NEW b, b \in Starts(t) PROVE b \in Starts(q)
    BY <2>2, <1>2, Mentions
  <2>3. Head(q).kind = "start" => Head(q).buf \in Starts(q)
    BY <1>1, <1>2, Mentions
  <2> QED BY <2>1, <2>2, <2>3
<1>6. Releases(q) = Releases(t) \cup (IF Head(q).kind = "release" THEN {Head(q).buf} ELSE {})
  <2>1. ASSUME NEW b, b \in Releases(q)
        PROVE  b \in Releases(t) \/ (Head(q).kind = "release" /\ b = Head(q).buf)
    <3>1. PICK i \in DOMAIN q : q[i].kind = "release" /\ q[i].buf = b
      BY <2>1, Mentions
    <3> QED BY <3>1, <1>1, <1>2, Mentions
  <2>2. ASSUME NEW b, b \in Releases(t) PROVE b \in Releases(q)
    BY <2>2, <1>2, Mentions
  <2>3. Head(q).kind = "release" => Head(q).buf \in Releases(q)
    BY <1>1, <1>2, Mentions
  <2> QED BY <2>1, <2>2, <2>3
<1>7. ASSUME Head(q).kind = "release", Head(q).buf \in Starts(t) PROVE FALSE
  <2>1. PICK i \in DOMAIN t : t[i].kind = "start" /\ t[i].buf = Head(q).buf
    BY <1>7 DEF Starts
  <2> QED BY <2>1, <1>1, <1>7 DEF Ordered
<1>8. ASSUME Head(q).kind = "release", Head(q).buf \in Releases(t) PROVE FALSE
  <2>1. PICK i \in DOMAIN t : t[i].kind = "release" /\ t[i].buf = Head(q).buf
    BY <1>8 DEF Releases
  <2> QED BY <2>1, <1>1, <1>8 DEF NoDoubleRelease
<1> QED BY <1>1, <1>3, <1>4, <1>5, <1>6, <1>7, <1>8 DEF t

LEMMA AppendBatch ==
  ASSUME NEW q \in Seq(Cmd), NEW s \in Seq(StartCmd \cup ControlCmd),
         NEW f \in Nat, Starts(s) \cap Releases(q) = {}
  PROVE  LET r == q \o Stamped(s, f) IN
         /\ r \in Seq(Cmd)
         /\ Starts(r) = Starts(q) \cup Starts(s)
         /\ Releases(r) = Releases(q)
         /\ NoDoubleRelease(q) => NoDoubleRelease(r)
         /\ Ordered(q) => Ordered(r)
<1> DEFINE b == Stamped(s, f)
           r == q \o b
<1>1. /\ b \in Seq(StartCmd \cup ControlCmd)
      /\ Len(b) = Len(s)
      /\ \A i \in 1..Len(s) : b[i].kind = s[i].kind /\ b[i].buf = s[i].buf
  BY StampedCmds
<1>2. \A i \in 1..Len(s) : s[i].kind # "release"
  <2>1. TAKE i \in 1..Len(s)
  <2>2. s[i] \in StartCmd \cup ControlCmd
    BY ElementOfSeq
  <2> QED BY <2>2 DEF StartCmd, ControlCmd, ControlKind
<1>3. b \in Seq(Cmd)
  BY <1>1, SeqMonotonic DEF Cmd
<1> HIDE DEF b
<1>4. /\ r \in Seq(Cmd)
      /\ Len(q) \in Nat /\ Len(s) \in Nat
      /\ DOMAIN q = 1..Len(q) /\ DOMAIN s = 1..Len(s)
      /\ DOMAIN r = 1..(Len(q) + Len(s))
      /\ \A i \in 1..Len(q) : r[i] = q[i]
      /\ \A i \in 1..Len(s) : r[Len(q) + i] = b[i]
  <2>1. /\ r \in Seq(Cmd)
        /\ Len(r) = Len(q) + Len(b)
        /\ \A i \in 1..(Len(q) + Len(b)) :
             r[i] = IF i <= Len(q) THEN q[i] ELSE b[i - Len(q)]
    BY <1>3, ConcatProperties
  <2>2. Len(q) \in Nat /\ Len(s) \in Nat
    OBVIOUS
  <2>3. \A i \in 1..Len(s) : /\ Len(q) + i \in 1..(Len(q) + Len(b))
                             /\ ~(Len(q) + i <= Len(q))
                             /\ (Len(q) + i) - Len(q) = i
    BY <2>2, <1>1
  <2> QED BY <2>1, <2>2, <2>3, <1>1
<1> HIDE DEF r
<1>5. \A i \in DOMAIN r : \/ i \in DOMAIN q /\ r[i] = q[i]
                          \/ /\ i - Len(q) \in DOMAIN s
                             /\ i > Len(q)
                             /\ r[i].kind = s[i - Len(q)].kind
                             /\ r[i].buf = s[i - Len(q)].buf
                             /\ r[i].kind # "release"
  <2>1. TAKE i \in DOMAIN r
  <2>2. CASE i <= Len(q)
    BY <2>2, <1>4
  <2>3. CASE i > Len(q)
    <3>1. i - Len(q) \in 1..Len(s) /\ Len(q) + (i - Len(q)) = i
      BY <2>3, <1>4
    <3>2. r[i] = b[i - Len(q)]
      BY <3>1, <1>4
    <3> QED BY <2>3, <3>1, <3>2, <1>1, <1>2, <1>4
  <2> QED BY <2>2, <2>3, <1>4
<1>6. \A i \in DOMAIN s : /\ Len(q) + i \in DOMAIN r
                          /\ r[Len(q) + i].kind = s[i].kind
                          /\ r[Len(q) + i].buf = s[i].buf
  <2>1. TAKE i \in DOMAIN s
  <2>2. Len(q) + i \in DOMAIN r /\ r[Len(q) + i] = b[i]
    BY <1>4
  <2>3. b[i].kind = s[i].kind /\ b[i].buf = s[i].buf
    BY <1>1
  <2> QED BY <2>2, <2>3
<1>7. \A i \in DOMAIN q : i \in DOMAIN r /\ r[i] = q[i]
  BY <1>4
<1>8. Starts(r) = Starts(q) \cup Starts(s)
  <2>1. Starts(r) \subseteq Starts(q) \cup Starts(s)
    BY <1>5 DEF Starts
  <2>2. Starts(q) \subseteq Starts(r)
    BY <1>7 DEF Starts
  <2>3. Starts(s) \subseteq Starts(r)
    BY <1>6 DEF Starts
  <2> QED BY <2>1, <2>2, <2>3
<1>9. Releases(r) = Releases(q)
  <2>1. Releases(r) \subseteq Releases(q)
    BY <1>5 DEF Releases
  <2>2. Releases(q) \subseteq Releases(r)
    BY <1>7 DEF Releases
  <2> QED BY <2>1, <2>2
<1>10. NoDoubleRelease(q) => NoDoubleRelease(r)
  BY <1>5 DEF NoDoubleRelease
<1>11. Ordered(q) => Ordered(r)
  <2>1. SUFFICES ASSUME Ordered(q), NEW i \in DOMAIN r, NEW j \in DOMAIN r,
                        r[i].kind = "release", r[j].kind = "start",
                        r[i].buf = r[j].buf
                 PROVE  j < i
    BY DEF Ordered
  <2>2. i \in DOMAIN q /\ r[i] = q[i] /\ r[i].buf \in Releases(q)
    BY <2>1, <1>5 DEF Releases
  <2>3. CASE j \in DOMAIN q /\ r[j] = q[j]
    BY <2>1, <2>2, <2>3 DEF Ordered
  <2>4. CASE ~(j \in DOMAIN q /\ r[j] = q[j])
    <3>1. /\ j - Len(q) \in DOMAIN s
          /\ s[j - Len(q)].kind = "start"
          /\ s[j - Len(q)].buf = r[j].buf
      BY <2>1, <2>4, <1>5
    <3>2. r[j].buf \in Starts(s)
      BY <3>1 DEF Starts
    <3> QED BY <3>2, <2>1, <2>2
  <2> QED BY <2>3, <2>4
<1> QED BY <1>4, <1>8, <1>9, <1>10, <1>11 DEF r, b

-----------------------------------------------------------------------------
(* Type correctness.                                                       *)

LEMMA InitType == Init => TypeOK
<1> SUFFICES ASSUME Init PROVE TypeOK
  OBVIOUS
<1>1. /\ stream \in BOOLEAN
      /\ sink \in BOOLEAN
      /\ readyShipped \in BOOLEAN
  BY Zenon DEF Init
<1>2. /\ heap \in [Ptr -> Url \cup {NoUrl}]
      /\ byUrl \in [Url -> Nat]
      /\ voices \in [Group -> Voice \cup {Silent}]
  BY DEF Init
<1>3. /\ buffers \in Seq(Ptr \cup {NULL})
      /\ staged \in Seq(StartCmd \cup ControlCmd)
      /\ cmdQueue \in Seq(Cmd)
      /\ local \in Seq(Cmd)
  BY EmptySeq DEF Init
<1>4. /\ gl \in {"idle", "staging"}
      /\ audio \in {"idle", "apply", "mix"}
      /\ doomed \in SUBSET Ptr
      /\ frames \in Nat
      /\ readyEvents \in Nat
  BY DEF Init
<1> QED BY <1>1, <1>2, <1>3, <1>4 DEF TypeOK

LEMMA ShipReadyType == TypeOK /\ ShipReady =>
    readyShipped' \in BOOLEAN /\ readyEvents' \in Nat
<1>1. ShipReady => readyShipped' \in BOOLEAN
  BY Zenon DEF ShipReady
<1>2. TypeOK /\ ShipReady => readyEvents' \in Nat
  BY DEF TypeOK, ShipReady
<1> QED BY <1>1, <1>2

LEMMA EnsureOpenType == TypeOK /\ EnsureOpen =>
    /\ stream' \in BOOLEAN
    /\ sink' \in BOOLEAN
    /\ readyShipped' \in BOOLEAN
    /\ readyEvents' \in Nat
  BY Zenon, ShipReadyType DEF TypeOK, EnsureOpen, readyVars

LEMMA NextType == TypeOK /\ [Next]_vars => TypeOK'
<1> SUFFICES ASSUME TypeOK, [Next]_vars PROVE TypeOK'
  OBVIOUS
<1> USE DEF TypeOK
<1>1. CASE SetEventSink
  BY <1>1, ShipReadyType, Zenon DEF SetEventSink, tableVars, glVars, audioVars
<1>2. CASE OpenDevice
  BY <1>2, EnsureOpenType DEF OpenDevice, tableVars, glVars, audioVars
<1>3. ASSUME NEW u \in Url, NEW p \in Ptr, RegisterBuffer(u, p) PROVE TypeOK'
  <2>1. heap' \in [Ptr -> Url \cup {NoUrl}]
    BY <1>3 DEF RegisterBuffer
  <2>2. PICK id \in 1..(Len(buffers) + 1) :
          /\ buffers' = IF id \in DOMAIN buffers THEN [buffers EXCEPT ![id] = p]
                                                 ELSE Append(buffers, p)
          /\ byUrl' = [byUrl EXCEPT ![u] = id]
    BY <1>3 DEF RegisterBuffer
  <2>3. buffers' \in Seq(Ptr \cup {NULL})
    <3>1. p \in Ptr \cup {NULL}
      OBVIOUS
    <3>2. CASE id \in DOMAIN buffers
      BY <2>2, <3>1, <3>2, ExceptSeq
    <3>3. CASE id \notin DOMAIN buffers
      BY <2>2, <3>1, <3>3
    <3> QED BY <3>2, <3>3
  <2>4. byUrl' \in [Url -> Nat]
    BY <2>2
  <2> QED BY <2>1, <2>3, <2>4, <1>3
          DEF RegisterBuffer, glVars, audioVars, readyVars
<1>4. ASSUME NEW u \in Url, UnregisterBuffer(u) PROVE TypeOK'
  <2> DEFINE id == byUrl[u]
  <2>1. byUrl' \in [Url -> Nat]
    BY <1>4 DEF UnregisterBuffer, UrlsWithout
  <2>2. buffers' \in Seq(Ptr \cup {NULL})
    <3>1. NULL \in Ptr \cup {NULL} /\ buffers' = [buffers EXCEPT ![id] = NULL]
      BY <1>4 DEF UnregisterBuffer
    <3>2. CASE id \in DOMAIN buffers
      BY <3>1, <3>2, ExceptSeq
    <3>3. CASE id \notin DOMAIN buffers
      <4>1. buffers' = buffers
        BY <3>1, <3>3
      <4> QED BY <4>1
    <3> QED BY <3>2, <3>3
  <2>3. cmdQueue' \in Seq(Cmd)
    <3>1. CASE id \in DOMAIN buffers /\ buffers[id] # NULL
      <4>1. buffers[id] \in Ptr
        BY <3>1, ElementOfSeq
      <4>2. ReleaseOf(buffers[id]) \in Cmd
        BY <4>1 DEF ReleaseOf, Cmd, ReleaseCmd
      <4> QED BY <1>4, <3>1, <4>2 DEF UnregisterBuffer
    <3>2. CASE ~(id \in DOMAIN buffers /\ buffers[id] # NULL)
      BY <1>4, <3>2 DEF UnregisterBuffer
    <3> QED BY <3>1, <3>2
  <2> QED BY <2>1, <2>2, <2>3, <1>4
          DEF UnregisterBuffer, glVars, audioVars, readyVars
<1>5. CASE ExecBegin
  BY <1>5, EnsureOpenType DEF ExecBegin, tableVars, audioVars
<1>6. ASSUME NEW g \in Group, NEW id \in DOMAIN buffers, NEW d \in Nat,
             NEW l \in BOOLEAN, StageStart(g, id, d, l)
      PROVE  TypeOK'
  <2>1. buffers[id] \in Ptr
    BY <1>6, ElementOfSeq DEF StageStart
  <2> QED BY <1>6, <2>1
          DEF StageStart, Stage, StartCmd, tableVars, audioVars, readyVars
<1>7. ASSUME NEW g \in Group, NEW k \in ControlKind, NEW l \in BOOLEAN,
             StageControl(k, g, l)
      PROVE  TypeOK'
  BY <1>7 DEF StageControl, Stage, ControlCmd, tableVars, audioVars, readyVars
<1>8. CASE ExecCommit
  <2>1. Stamped(staged, frames) \in Seq(Cmd)
    BY StampedCmds, SeqMonotonic DEF Cmd
  <2>2. cmdQueue' = cmdQueue \o Stamped(staged, frames)
    BY <1>8 DEF ExecCommit, StampFrame, Stamped
  <2>3. cmdQueue' \in Seq(Cmd)
    BY <2>1, <2>2, ConcatProperties
  <2>4. gl' = "idle" /\ staged' \in Seq(StartCmd \cup ControlCmd)
    BY <1>8, EmptySeq DEF ExecCommit
  <2> QED BY <2>3, <2>4, <1>8, Zenon DEF ExecCommit, tableVars, audioVars, readyVars
<1>9. CASE Destroy
  <2>1. /\ buffers' \in Seq(Ptr \cup {NULL})
        /\ cmdQueue' \in Seq(Cmd)
    BY <1>9, EmptySeq DEF Destroy
  <2>2. /\ heap' \in [Ptr -> Url \cup {NoUrl}]
        /\ byUrl' \in [Url -> Nat]
        /\ voices' \in [Group -> Voice \cup {Silent}]
        /\ frames' \in Nat
        /\ readyEvents' \in Nat
    BY <1>9 DEF Destroy
  <2>3. /\ stream' \in BOOLEAN
        /\ sink' \in BOOLEAN
        /\ readyShipped' \in BOOLEAN
    BY <1>9, Zenon DEF Destroy
  <2> QED BY <1>9, <2>1, <2>2, <2>3 DEF Destroy, glVars
<1>10. CASE CallbackBegin
  BY <1>10 DEF CallbackBegin, tableVars, glVars, readyVars
<1>11. CASE ApplyCmd
  <2> DEFINE c == Head(local)
  <2>1. c \in Cmd /\ local' \in Seq(Cmd)
    BY <1>11, HeadTailProperties DEF ApplyCmd
  <2> HIDE DEF c
  <2>2. voices' \in [Group -> Voice \cup {Silent}] /\ doomed' \in SUBSET Ptr
    <3>1. CASE ApplyStart(c)
      <4>1. c \in StartCmd
        BY <2>1, <3>1 DEF ApplyStart, Cmd, ControlCmd, ReleaseCmd, ControlKind
      <4>2. NewVoice(c) \in Voice
        BY <4>1 DEF NewVoice, StartCmd, Voice
      <4> QED BY <4>2, <3>1 DEF ApplyStart
    <3>2. CASE ApplyStop(c)
      BY <3>2 DEF ApplyStop
    <3>3. CASE ApplySet(c)
      BY <3>3 DEF ApplySet
    <3>4. CASE ApplyVolumeAt(c)
      <4>1. c.frame \in Nat /\ c.group \in Group
        BY <2>1, <3>4 DEF ApplyVolumeAt, Cmd, StartCmd, ControlCmd, ReleaseCmd
      <4>2. CASE voices[c.group] = Silent
        BY <4>2, <3>4 DEF ApplyVolumeAt
      <4>3. CASE voices[c.group] # Silent
        <5>1. [voices[c.group] EXCEPT !.anchor = c.frame] \in Voice
          BY <4>1, <4>3 DEF Voice
        <5> QED BY <5>1, <4>3, <3>4 DEF ApplyVolumeAt
      <4> QED BY <4>2, <4>3
    <3>5. CASE ApplyLoop(c)
      <4>1. c.loop \in BOOLEAN /\ c.group \in Group
        BY <2>1, <3>5 DEF ApplyLoop, Cmd, StartCmd, ControlCmd, ReleaseCmd
      <4>2. CASE voices[c.group] = Silent
        BY <4>2, <3>5 DEF ApplyLoop
      <4>3. CASE voices[c.group] # Silent
        <5>1. [voices[c.group] EXCEPT !.loop = c.loop] \in Voice
          BY <4>1, <4>3 DEF Voice
        <5> QED BY <5>1, <4>3, <3>5 DEF ApplyLoop
      <4> QED BY <4>2, <4>3
    <3>6. CASE ApplyRelease(c)
      <4>1. c.buf \in Ptr
        BY <2>1, <3>6 DEF ApplyRelease, Cmd, StartCmd, ControlCmd, ReleaseCmd, ControlKind
      <4> QED BY <4>1, <3>6 DEF ApplyRelease, VoicesWithout
    <3> QED BY <1>11, <3>1, <3>2, <3>3, <3>4, <3>5, <3>6 DEF ApplyCmd, c
  <2> QED BY <2>1, <2>2, <1>11 DEF ApplyCmd, tableVars, glVars, readyVars
<1>12. CASE DrainEnd
  BY <1>12 DEF DrainEnd, HeapAfterDrain, glVars, readyVars
<1>13. ASSUME NEW n \in Nat, NEW ended, MixChunk(n, ended) PROVE TypeOK'
  <2>1. \A g \in Playing : Heard(voices[g]) \in Voice
    BY DEF Heard, Voice, Max2, Playing
  <2>2. voices' \in [Group -> Voice \cup {Silent}]
    BY <2>1, <1>13 DEF MixChunk, Audible
  <2> QED BY <2>2, <1>13 DEF MixChunk, tableVars, glVars, readyVars
<1>14. CASE CallbackEnd
  BY <1>14 DEF CallbackEnd, tableVars, glVars, readyVars
<1>15. CASE UNCHANGED vars
  BY <1>15 DEF vars, tableVars, glVars, audioVars, readyVars
<1> HIDE DEF TypeOK
<1>16. /\ 0..MaxDelay \subseteq Nat
       /\ 1..MaxChunk \subseteq Nat
       /\ Loops \subseteq BOOLEAN
       /\ FALSE \in BOOLEAN
       /\ Controls \subseteq ControlKind
  BY InputAssumption, BoundAssumption DEF ControlKind
<1>17. CASE GlNext
  BY <1>1, <1>2, <1>3, <1>4, <1>5, <1>6, <1>7, <1>8, <1>9, <1>16, <1>17, Zenon
     DEF GlNext
<1>18. CASE AudioNext
  BY <1>10, <1>11, <1>12, <1>13, <1>14, <1>16, <1>18, Zenon DEF AudioNext
<1> QED BY <1>15, <1>17, <1>18 DEF Next

(* Every reachable state of the two threads is well typed.                 *)
THEOREM TypeCorrect == Spec => []TypeOK
<1>1. Init => TypeOK
  BY InitType
<1>2. TypeOK /\ [Next]_vars => TypeOK'
  BY NextType
<1> QED BY <1>1, <1>2, PTL DEF Spec

-----------------------------------------------------------------------------
(* Buffer lifetime.  NoDanglingBuffer is not inductive: a queued StartSound *)
(* stays valid only because any release of its buffer is queued behind it,  *)
(* and the memory a drained release holds is freed only after the drain.    *)

(* Outside their critical regions the threads hold no commands.            *)
Quiet ==
  /\ gl = "idle" => staged = <<>>
  /\ audio # "apply" => local = <<>> /\ doomed = {}

(* Every borrower is ahead of the release of what it borrows.              *)
Borrowing ==
  /\ \A g \in Playing : voices[g].buf \in Live \ doomed
  /\ Starts(staged) \subseteq InSlots
  /\ Starts(local) \subseteq Live \ doomed
  /\ Starts(cmdQueue) \subseteq Live \ (doomed \cup Releases(local))
  /\ Ordered(local)
  /\ Ordered(cmdQueue)

IInv == TypeOK /\ Quiet /\ SoleOwner /\ Borrowing

LEMMA InitInv == Init => IInv
<1> SUFFICES ASSUME Init PROVE IInv
  OBVIOUS
<1>1. Live = {} /\ InSlots = {} /\ Playing = {} /\ doomed = {}
  BY DEF Init, Live, InSlots, Playing
<1>2. buffers = <<>> /\ staged = <<>> /\ local = <<>> /\ cmdQueue = <<>>
  BY DEF Init
<1>3. Ordered(<<>>)
  BY DEF Ordered
<1>4. SoleOwner
  BY <1>1, <1>2, EmptyCmds DEF SoleOwner
<1>5. Borrowing
  BY <1>1, <1>2, <1>3, EmptyCmds DEF Borrowing
<1> QED BY <1>1, <1>2, <1>4, <1>5, InitType DEF IInv, Quiet

(* Steps that touch neither memory nor commands, and give no voice a       *)
(* buffer it did not have.                                                 *)
LEMMA FrameInv ==
  ASSUME SoleOwner, Borrowing,
         UNCHANGED <<heap, buffers, staged, cmdQueue, local, doomed>>,
         \A g \in Playing' : g \in Playing /\ voices'[g].buf = voices[g].buf
  PROVE  SoleOwner' /\ Borrowing'
<1>1. Live' = Live /\ InSlots' = InSlots
  BY DEF Live, InSlots
<1>2. SoleOwner'
  BY <1>1 DEF SoleOwner
<1>3. Borrowing'
  BY <1>1 DEF Borrowing
<1> QED BY <1>2, <1>3

LEMMA RegisterInv ==
  ASSUME IInv, NEW u \in Url, NEW p \in Ptr, RegisterBuffer(u, p)
  PROVE  /\ SoleOwner' /\ Borrowing'
         /\ InSlots' = InSlots \cup {p}
<1> USE DEF IInv
<1>1. PICK id \in 1..(Len(buffers) + 1) :
        /\ IsFreeSlot(id)
        /\ buffers' = IF id \in DOMAIN buffers THEN [buffers EXCEPT ![id] = p]
                                               ELSE Append(buffers, p)
  BY DEF RegisterBuffer
<1>2. /\ DOMAIN buffers \subseteq DOMAIN buffers'
      /\ DOMAIN buffers' = DOMAIN buffers \cup {id}
      /\ buffers'[id] = p
      /\ \A i \in DOMAIN buffers \ {id} : buffers'[i] = buffers[i]
      /\ id \in DOMAIN buffers => buffers[id] = NULL
  BY <1>1 DEF TypeOK, IsFreeSlot
<1>3. p \notin Live /\ p # NULL
  BY NullAssumption DEF RegisterBuffer
<1>4. InSlots' = InSlots \cup {p}
  BY <1>2, <1>3, NullAssumption DEF InSlots
<1>5. Live' = Live \cup {p}
  BY NoUrlAssumption DEF RegisterBuffer, Live, TypeOK
<1>6. UNCHANGED <<staged, cmdQueue, local, doomed, voices>>
  BY DEF RegisterBuffer, glVars, audioVars
<1>7. \A i \in DOMAIN buffers : buffers[i] # p
  BY <1>3 DEF SoleOwner, InSlots
<1>8. \A i, j \in DOMAIN buffers' :
        buffers'[i] # NULL /\ buffers'[i] = buffers'[j] => i = j
  BY <1>2, <1>7 DEF SoleOwner
<1>9. SoleOwner'
  BY <1>3, <1>4, <1>5, <1>6, <1>8 DEF SoleOwner
<1>10. Borrowing'
  BY <1>3, <1>4, <1>5, <1>6 DEF Borrowing, SoleOwner, Playing
<1> QED BY <1>4, <1>9, <1>10

LEMMA UnregisterInv ==
  ASSUME IInv, NEW u \in Url, UnregisterBuffer(u)
  PROVE  /\ SoleOwner' /\ Borrowing'
         /\ Starts(cmdQueue') = Starts(cmdQueue)
         /\ \/ InSlots' = InSlots
            \/ \E p \in InSlots : InSlots' = InSlots \ {p}
<1> USE DEF IInv
<1> DEFINE id == byUrl[u]
<1>1. /\ UNCHANGED <<heap, staged, local, doomed, voices>>
      /\ staged = <<>>
      /\ buffers' = [buffers EXCEPT ![id] = NULL]
  BY DEF UnregisterBuffer, glVars, audioVars, Quiet
<1>2. Live' = Live
  BY <1>1 DEF Live
<1>3. CASE id \in DOMAIN buffers /\ buffers[id] # NULL
  <2> DEFINE p == buffers[id]
  <2>1. p \in Ptr /\ p \in InSlots
    BY <1>3, ElementOfSeq DEF TypeOK, InSlots
  <2>2. cmdQueue' = Append(cmdQueue, ReleaseOf(p))
    BY <1>3 DEF UnregisterBuffer
  <2>3. p \notin Releases(cmdQueue) /\ p \notin Releases(local) /\ p \notin doomed
    BY <2>1 DEF SoleOwner
  <2>4. /\ Starts(cmdQueue') = Starts(cmdQueue)
        /\ Releases(cmdQueue') = Releases(cmdQueue) \cup {p}
        /\ NoDoubleRelease(cmdQueue')
        /\ Ordered(cmdQueue')
    BY <2>1, <2>2, <2>3, AppendRelease DEF TypeOK, SoleOwner, Borrowing
  <2>5. /\ DOMAIN buffers' = DOMAIN buffers
        /\ buffers'[id] = NULL
        /\ \A i \in DOMAIN buffers \ {id} : buffers'[i] = buffers[i]
    BY <1>1, <1>3 DEF TypeOK
  <2>6. \A i \in DOMAIN buffers \ {id} : buffers[i] # p
    BY <1>3 DEF SoleOwner
  <2>7. InSlots' = InSlots \ {p}
    <3>1. ASSUME NEW q \in InSlots' PROVE q \in InSlots /\ q # p
      BY <3>1, <2>5, <2>6, NullAssumption DEF InSlots
    <3>2. ASSUME NEW q \in InSlots, q # p PROVE q \in InSlots'
      BY <3>2, <2>5 DEF InSlots
    <3> QED BY <3>1, <3>2
  <2>8. SoleOwner'
    BY <1>1, <1>2, <2>1, <2>3, <2>4, <2>5, <2>7 DEF SoleOwner
  <2>9. Borrowing'
    BY <1>1, <1>2, <2>4, <2>7, EmptyCmds DEF Borrowing, Playing
  <2> QED BY <2>1, <2>4, <2>7, <2>8, <2>9
<1>4. CASE ~(id \in DOMAIN buffers /\ buffers[id] # NULL)
  <2>1. buffers' = buffers
    BY <1>1, <1>4 DEF TypeOK
  <2>2. cmdQueue' = cmdQueue
    BY <1>4 DEF UnregisterBuffer
  <2> QED BY <1>1, <2>1, <2>2, FrameInv DEF Playing, InSlots
<1> QED BY <1>3, <1>4

LEMMA StageInv ==
  ASSUME IInv, NEW c \in StartCmd \cup ControlCmd, Stage(c),
         c.kind = "start" => c.buf \in InSlots
  PROVE  SoleOwner' /\ Borrowing'
<1> USE DEF IInv
<1>1. /\ UNCHANGED <<heap, buffers, cmdQueue, local, doomed, voices>>
      /\ staged' = Append(staged, c)
  BY DEF Stage, tableVars, audioVars
<1>2. Live' = Live /\ InSlots' = InSlots
  BY <1>1 DEF Live, InSlots
<1>3. Starts(staged') \subseteq InSlots
  <2>1. SUFFICES ASSUME NEW b \in Starts(staged') PROVE b \in InSlots
    OBVIOUS
  <2>2. PICK i \in DOMAIN staged' : staged'[i].kind = "start" /\ staged'[i].buf = b
    BY <2>1, Mentions
  <2>3. \/ i \in DOMAIN staged /\ staged'[i] = staged[i]
        \/ staged'[i] = c
    BY <1>1, <2>2 DEF TypeOK
  <2>4. CASE i \in DOMAIN staged /\ staged'[i] = staged[i]
    <3>1. b \in Starts(staged)
      BY <2>2, <2>4, Mentions
    <3> QED BY <3>1 DEF Borrowing
  <2>5. CASE staged'[i] = c
    BY <2>2, <2>5
  <2> QED BY <2>3, <2>4, <2>5
<1>4. SoleOwner'
  BY <1>1, <1>2 DEF SoleOwner
<1>5. Borrowing'
  BY <1>1, <1>2, <1>3 DEF Borrowing, Playing
<1> QED BY <1>4, <1>5

LEMMA QueueTypes ==
  ASSUME TypeOK
  PROVE  staged \in Seq(StartCmd \cup ControlCmd) /\ cmdQueue \in Seq(Cmd) /\ frames \in Nat
  BY DEF TypeOK

LEMMA CommitInv ==
  ASSUME IInv, ExecCommit
  PROVE  /\ SoleOwner' /\ Borrowing'
         /\ Starts(cmdQueue') = Starts(cmdQueue) \cup Starts(staged)
<1> USE DEF IInv
<1>1. /\ UNCHANGED <<heap, buffers, local, doomed, voices>>
      /\ staged' = <<>>
      /\ cmdQueue' = cmdQueue \o Stamped(staged, frames)
  BY DEF ExecCommit, StampFrame, Stamped, tableVars, audioVars
<1>2. Live' = Live /\ InSlots' = InSlots
  BY <1>1 DEF Live, InSlots
<1>3. Starts(staged) \cap (Releases(cmdQueue) \cup Releases(local) \cup doomed) = {}
  BY DEF Borrowing, SoleOwner
<1>4. /\ Starts(cmdQueue') = Starts(cmdQueue) \cup Starts(staged)
      /\ Releases(cmdQueue') = Releases(cmdQueue)
      /\ NoDoubleRelease(cmdQueue')
      /\ Ordered(cmdQueue')
  <2>1. cmdQueue \in Seq(Cmd) /\ staged \in Seq(StartCmd \cup ControlCmd) /\ frames \in Nat
    BY QueueTypes
  <2>2. NoDoubleRelease(cmdQueue) /\ Ordered(cmdQueue)
    BY DEF SoleOwner, Borrowing
  <2>3. Starts(staged) \cap Releases(cmdQueue) = {}
    BY <1>3
  <2> QED BY <1>1, <2>1, <2>2, <2>3, AppendBatch
<1>5. SoleOwner'
  BY <1>1, <1>2, <1>4 DEF SoleOwner
<1>6. Borrowing'
  BY <1>1, <1>2, <1>3, <1>4, EmptyCmds DEF Borrowing, SoleOwner, Playing
<1> QED BY <1>4, <1>5, <1>6

LEMMA DestroyInv ==
  ASSUME IInv, Destroy
  PROVE  SoleOwner' /\ Borrowing'
<1> USE DEF IInv
<1>1. Live' = {} /\ InSlots' = {} /\ Playing' = {}
  BY DEF Destroy, Live, InSlots, Playing
<1>2. /\ buffers' = <<>> /\ cmdQueue' = <<>>
      /\ staged' = <<>> /\ local' = <<>> /\ doomed' = {}
  BY DEF Destroy, glVars, Quiet
<1>3. Ordered(<<>>)
  BY DEF Ordered
<1>4. SoleOwner'
  BY <1>1, <1>2, EmptyCmds DEF SoleOwner
<1>5. Borrowing'
  BY <1>1, <1>2, <1>3, EmptyCmds DEF Borrowing
<1> QED BY <1>4, <1>5

LEMMA CallbackInv ==
  ASSUME IInv, CallbackBegin
  PROVE  SoleOwner' /\ Borrowing'
<1> USE DEF IInv
<1>1. /\ UNCHANGED <<heap, buffers, staged, doomed, voices>>
      /\ local = <<>> /\ doomed = {}
      /\ local' = cmdQueue /\ cmdQueue' = <<>>
  BY DEF CallbackBegin, tableVars, glVars, Quiet
<1>2. Live' = Live /\ InSlots' = InSlots
  BY <1>1 DEF Live, InSlots
<1>3. Ordered(<<>>)
  BY DEF Ordered
<1>4. SoleOwner'
  BY <1>1, <1>2, EmptyCmds DEF SoleOwner
<1>5. Borrowing'
  BY <1>1, <1>2, <1>3, EmptyCmds DEF Borrowing, Playing
<1> QED BY <1>4, <1>5

LEMMA ApplyInv ==
  ASSUME IInv, ApplyCmd
  PROVE  /\ SoleOwner' /\ Borrowing'
         /\ Starts(local') \subseteq Starts(local)
         /\ \A g \in Playing' :
              \/ g \in Playing /\ voices'[g].buf = voices[g].buf
              \/ voices'[g].buf \in Starts(local)
<1> USE DEF IInv
<1> DEFINE c == Head(local)
<1>1. /\ UNCHANGED <<heap, buffers, staged, cmdQueue>>
      /\ local' = Tail(local)
  BY DEF ApplyCmd, tableVars, glVars
<1>2. Live' = Live /\ InSlots' = InSlots
  BY <1>1 DEF Live, InSlots
<1>3. /\ c \in Cmd
      /\ NoDoubleRelease(local')
      /\ Ordered(local')
      /\ Starts(local) = Starts(local') \cup
           (IF c.kind = "start" THEN {c.buf} ELSE {})
      /\ Releases(local) = Releases(local') \cup
           (IF c.kind = "release" THEN {c.buf} ELSE {})
      /\ c.kind = "release" => c.buf \notin Starts(local') /\ c.buf \notin Releases(local')
  BY <1>1, TakeHead DEF ApplyCmd, TypeOK, SoleOwner, Borrowing
<1> HIDE DEF c
<1> DEFINE Users == \A g \in Playing' :
                      \/ g \in Playing /\ voices'[g].buf = voices[g].buf
                      \/ voices'[g].buf \in Starts(local)
<1>4. CASE ApplyRelease(c)
  <2>1. c.kind = "release" /\ doomed' = doomed \cup {c.buf}
    BY <1>4 DEF ApplyRelease
  <2>2. \A g \in Playing' : g \in Playing /\ voices'[g] = voices[g] /\ voices[g].buf # c.buf
    BY <1>4 DEF ApplyRelease, VoicesWithout, Playing
  <2>3. SoleOwner'
    BY <1>1, <1>2, <1>3, <2>1 DEF SoleOwner
  <2>4. Borrowing'
    BY <1>1, <1>2, <1>3, <2>1, <2>2 DEF Borrowing
  <2>5. Users
    BY <2>2
  <2> QED BY <1>3, <2>3, <2>4, <2>5
<1>5. CASE ApplyStart(c)
  <2>1. /\ c.kind = "start" /\ doomed' = doomed
        /\ voices' = [voices EXCEPT ![c.group] = NewVoice(c)]
    BY <1>5 DEF ApplyStart
  <2>2. \A g \in Playing' : \/ g \in Playing /\ voices'[g] = voices[g]
                            \/ voices'[g].buf = c.buf
    BY <2>1 DEF Playing, TypeOK, NewVoice
  <2>3. c.buf \in Live \ doomed
    BY <1>3, <2>1 DEF Borrowing
  <2>4. SoleOwner'
    BY <1>1, <1>2, <1>3, <2>1 DEF SoleOwner
  <2>5. \A g \in Playing' : voices'[g].buf \in Live' \ doomed'
    BY <1>2, <2>1, <2>2, <2>3 DEF Borrowing
  <2>6. Borrowing'
    BY <1>1, <1>2, <1>3, <2>1, <2>5 DEF Borrowing
  <2>7. Users
    BY <1>3, <2>1, <2>2
  <2> QED BY <1>3, <2>4, <2>6, <2>7
<1>6. CASE ApplyStop(c) \/ ApplySet(c) \/ ApplyVolumeAt(c) \/ ApplyLoop(c)
  <2>1. c.kind \notin {"start", "release"} /\ doomed' = doomed
    BY <1>6 DEF ApplyStop, ApplySet, ApplyVolumeAt, ApplyLoop
  <2>2. \A g \in Playing' : g \in Playing /\ voices'[g].buf = voices[g].buf
    <3>1. CASE ApplyStop(c)
      BY <3>1 DEF ApplyStop, Playing, TypeOK
    <3>2. CASE ApplySet(c)
      BY <3>2 DEF ApplySet, Playing
    <3>3. CASE ApplyVolumeAt(c)
      BY <3>3 DEF ApplyVolumeAt, Playing, TypeOK, Voice
    <3>4. CASE ApplyLoop(c)
      BY <3>4 DEF ApplyLoop, Playing, TypeOK, Voice
    <3> QED BY <1>6, <3>1, <3>2, <3>3, <3>4
  <2>3. SoleOwner'
    BY <1>1, <1>2, <1>3, <2>1 DEF SoleOwner
  <2>4. Borrowing'
    BY <1>1, <1>2, <1>3, <2>1, <2>2 DEF Borrowing
  <2>5. Users
    BY <2>2
  <2> QED BY <1>3, <2>3, <2>4, <2>5
<1> QED BY <1>4, <1>5, <1>6 DEF ApplyCmd, c

LEMMA DrainInv ==
  ASSUME IInv, DrainEnd
  PROVE  SoleOwner' /\ Borrowing'
<1> USE DEF IInv
<1>1. /\ UNCHANGED <<buffers, staged, cmdQueue, local, voices>>
      /\ local = <<>> /\ doomed' = {}
  BY DEF DrainEnd, glVars
<1>2. Live' = Live \ doomed
  BY DEF DrainEnd, HeapAfterDrain, Live
<1>3. InSlots' = InSlots
  BY <1>1 DEF InSlots
<1>4. SoleOwner'
  BY <1>1, <1>2, <1>3, EmptyCmds DEF SoleOwner
<1>5. Borrowing'
  BY <1>1, <1>2, <1>3, EmptyCmds DEF Borrowing, SoleOwner, Playing
<1> QED BY <1>4, <1>5

LEMMA NextInv == IInv /\ [Next]_vars => IInv'
<1> SUFFICES ASSUME IInv, [Next]_vars PROVE IInv'
  OBVIOUS
<1>1. TypeOK'
  BY NextType DEF IInv
<1>2. Quiet'
  <2> USE DEF IInv, Quiet, TypeOK
  <2>1. CASE GlNext
    <3>1. UNCHANGED <<audio, local, doomed>>
      BY <2>1, Zenon DEF GlNext, SetEventSink, OpenDevice, RegisterBuffer,
         UnregisterBuffer, ExecBegin, StageStart, StageControl, Stage,
         ExecCommit, Destroy, audioVars
    <3>2. \/ UNCHANGED <<gl, staged>>
          \/ gl' = "staging"
          \/ gl' = "idle" /\ staged' = <<>>
      BY <2>1, Zenon DEF GlNext, SetEventSink, OpenDevice, RegisterBuffer,
         UnregisterBuffer, ExecBegin, StageStart, StageControl, Stage,
         ExecCommit, Destroy, glVars
    <3> QED BY <3>1, <3>2
  <2>2. CASE AudioNext
    <3>1. UNCHANGED <<gl, staged>>
      BY <2>2, Zenon DEF AudioNext, CallbackBegin, ApplyCmd, DrainEnd, MixChunk,
         CallbackEnd, glVars
    <3>2. \/ audio' = "apply"
          \/ local' = <<>> /\ doomed' = {}
      BY <2>2 DEF AudioNext, CallbackBegin, ApplyCmd, DrainEnd, MixChunk,
         CallbackEnd
    <3> QED BY <3>1, <3>2
  <2>3. CASE UNCHANGED vars
    BY <2>3 DEF vars, glVars, audioVars
  <2> QED BY <2>1, <2>2, <2>3 DEF Next
<1>3. SoleOwner' /\ Borrowing'
  <2>1. SoleOwner /\ Borrowing
    BY DEF IInv
  <2>2. CASE SetEventSink \/ OpenDevice \/ ExecBegin \/ CallbackEnd \/ UNCHANGED vars
    BY <2>1, <2>2, FrameInv
       DEF SetEventSink, OpenDevice, ExecBegin, CallbackEnd, Playing,
           vars, tableVars, glVars, audioVars
  <2>3. ASSUME NEW n \in Nat, NEW ended, MixChunk(n, ended)
        PROVE  SoleOwner' /\ Borrowing'
    <3>1. \A g \in Playing' : g \in Playing /\ voices'[g].buf = voices[g].buf
      <4>1. \A g \in Playing : Heard(voices[g]).buf = voices[g].buf
        BY DEF IInv, TypeOK, Playing, Voice, Heard
      <4>2. \A g \in Group : \/ voices'[g] = Silent
                             \/ g \in Playing /\ voices'[g] = Heard(voices[g])
                             \/ voices'[g] = voices[g]
        BY <2>3 DEF MixChunk, Audible
      <4> QED BY <4>1, <4>2 DEF Playing
    <3> QED BY <3>1, <2>1, <2>3, FrameInv DEF MixChunk, tableVars, glVars
  <2>4. ASSUME NEW g \in Group, NEW id \in DOMAIN buffers, NEW d \in Nat,
               NEW l \in BOOLEAN, StageStart(g, id, d, l)
        PROVE  SoleOwner' /\ Borrowing'
    <3>1. buffers[id] \in Ptr /\ buffers[id] \in InSlots
      BY <2>4, ElementOfSeq DEF StageStart, IInv, TypeOK, InSlots
    <3> DEFINE c == [kind |-> "start", group |-> g, buf |-> buffers[id],
                     delay |-> d, loop |-> l, frame |-> 0]
    <3>2. c \in StartCmd /\ c.buf \in InSlots
      BY <3>1 DEF StartCmd
    <3>3. Stage(c)
      BY <2>4 DEF StageStart
    <3> HIDE DEF c
    <3> QED BY <3>2, <3>3, StageInv
  <2>5. ASSUME NEW g \in Group, NEW k \in ControlKind, NEW l \in BOOLEAN,
               StageControl(k, g, l)
        PROVE  SoleOwner' /\ Borrowing'
    <3> DEFINE c == [kind |-> k, group |-> g, buf |-> NULL,
                     delay |-> 0, loop |-> l, frame |-> 0]
    <3>1. c \in ControlCmd /\ c.kind # "start"
      BY DEF ControlCmd, ControlKind
    <3>2. Stage(c)
      BY <2>5 DEF StageControl
    <3> HIDE DEF c
    <3> QED BY <3>1, <3>2, StageInv
  <2>6. /\ 0..MaxDelay \subseteq Nat
        /\ 1..MaxChunk \subseteq Nat
        /\ Loops \subseteq BOOLEAN
        /\ FALSE \in BOOLEAN
        /\ Controls \subseteq ControlKind
    BY InputAssumption, BoundAssumption DEF ControlKind
  <2>7. CASE GlNext
    BY <2>2, <2>4, <2>5, <2>6, <2>7, RegisterInv, UnregisterInv, CommitInv,
       DestroyInv, Zenon DEF GlNext
  <2>8. CASE AudioNext
    BY <2>2, <2>3, <2>6, <2>8, CallbackInv, ApplyInv, DrainInv, Zenon
       DEF AudioNext
  <2> QED BY <2>2, <2>7, <2>8 DEF Next
<1> QED BY <1>1, <1>2, <1>3 DEF IInv

LEMMA Invariance == Spec => []IInv
  BY InitInv, NextInv, PTL DEF Spec

(* Every Buffer pointer held by a voice or by a command that has not been  *)
(* applied yet points at memory that is still allocated: unloading while   *)
(* the other thread plays never frees what it reads.                       *)
THEOREM BuffersNeverDangle == Spec => []NoDanglingBuffer
<1>1. IInv => NoDanglingBuffer
  BY DEF IInv, Borrowing, SoleOwner, NoDanglingBuffer
<1> QED BY <1>1, Invariance, PTL

(* Every allocated Buffer has exactly one owner, so none is freed twice    *)
(* and none is lost between the two threads.                               *)
THEOREM BuffersHaveOneOwner == Spec => []SoleOwner
<1>1. IInv => SoleOwner
  BY DEF IInv
<1> QED BY <1>1, Invariance, PTL

-----------------------------------------------------------------------------
(* by_url_.                                                                *)

LEMMA NextUrlMap == IInv /\ UrlMapSound /\ [Next]_vars => UrlMapSound'
<1> SUFFICES ASSUME IInv, UrlMapSound, [Next]_vars, NEW u \in Url, byUrl'[u] # 0
             PROVE  /\ byUrl'[u] \in DOMAIN buffers'
                    /\ buffers'[byUrl'[u]] # NULL
                    /\ heap'[buffers'[byUrl'[u]]] = u
  BY DEF UrlMapSound
<1> USE DEF IInv, UrlMapSound
<1>0. byUrl[u] # 0 => buffers[byUrl[u]] \in InSlots
  BY ElementOfSeq DEF TypeOK, InSlots
<1>1. CASE UNCHANGED <<heap, buffers, byUrl>>
  BY <1>1
<1>2. ASSUME NEW v \in Url, NEW p \in Ptr, RegisterBuffer(v, p)
      PROVE  /\ byUrl'[u] \in DOMAIN buffers'
             /\ buffers'[byUrl'[u]] # NULL
             /\ heap'[buffers'[byUrl'[u]]] = u
  <2>1. PICK id \in 1..(Len(buffers) + 1) :
          /\ IsFreeSlot(id)
          /\ buffers' = IF id \in DOMAIN buffers THEN [buffers EXCEPT ![id] = p]
                                                 ELSE Append(buffers, p)
          /\ byUrl' = [byUrl EXCEPT ![v] = id]
    BY <1>2 DEF RegisterBuffer
  <2>2. /\ DOMAIN buffers' = DOMAIN buffers \cup {id}
        /\ buffers'[id] = p
        /\ \A i \in DOMAIN buffers \ {id} : buffers'[i] = buffers[i]
        /\ id \in DOMAIN buffers => buffers[id] = NULL
    BY <2>1 DEF TypeOK, IsFreeSlot
  <2>3. p \notin Live /\ p # NULL /\ heap' = [heap EXCEPT ![p] = v]
    BY <1>2, NullAssumption DEF RegisterBuffer
  <2>4. CASE u = v
    BY <2>1, <2>2, <2>3, <2>4 DEF TypeOK
  <2>5. CASE u # v
    <3>1. byUrl'[u] = byUrl[u] /\ byUrl[u] # 0
      BY <2>1, <2>5 DEF TypeOK
    <3>2. byUrl[u] # id /\ buffers[byUrl[u]] # p
      BY <3>1, <1>0, <2>2, <2>3 DEF SoleOwner
    <3>3. heap[buffers[byUrl[u]]] = u /\ buffers[byUrl[u]] \in Ptr
      BY <3>1, <1>0 DEF InSlots
    <3> QED BY <3>1, <3>2, <3>3, <2>2, <2>3 DEF TypeOK
  <2> QED BY <2>4, <2>5
<1>3. ASSUME NEW v \in Url, UnregisterBuffer(v)
      PROVE  /\ byUrl'[u] \in DOMAIN buffers'
             /\ buffers'[byUrl'[u]] # NULL
             /\ heap'[buffers'[byUrl'[u]]] = u
  <2>1. /\ byUrl' = [byUrl EXCEPT ![v] = 0]
        /\ buffers' = [buffers EXCEPT ![byUrl[v]] = NULL]
        /\ heap' = heap
        /\ byUrl[v] # 0
    BY <1>3 DEF UnregisterBuffer, UrlsWithout
  <2>2. u # v /\ byUrl'[u] = byUrl[u] /\ byUrl[u] # 0
    BY <2>1 DEF TypeOK
  <2>3. byUrl[u] # byUrl[v]
    BY <2>1, <2>2
  <2> QED BY <2>1, <2>2, <2>3 DEF TypeOK
<1>4. CASE Destroy
  BY <1>4 DEF Destroy
<1>5. CASE DrainEnd
  <2>1. UNCHANGED <<buffers, byUrl>> /\ byUrl[u] # 0
    BY <1>5 DEF DrainEnd
  <2>2. buffers[byUrl[u]] \in Ptr /\ buffers[byUrl[u]] \notin doomed
    BY <2>1, <1>0 DEF SoleOwner, InSlots
  <2> QED BY <2>1, <2>2, <1>5 DEF DrainEnd, HeapAfterDrain
<1>6. CASE GlNext
  <2>1. CASE SetEventSink \/ OpenDevice \/ ExecBegin \/ ExecCommit
    BY <2>1, <1>1 DEF SetEventSink, OpenDevice, ExecBegin, ExecCommit, tableVars
  <2>2. ASSUME NEW c, Stage(c) PROVE UNCHANGED <<heap, buffers, byUrl>>
    BY <2>2 DEF Stage, tableVars
  <2> QED BY <1>1, <1>2, <1>3, <1>4, <1>6, <2>1, <2>2, Zenon
          DEF GlNext, StageStart, StageControl
<1>7. CASE AudioNext
  BY <1>1, <1>5, <1>7, Zenon
     DEF AudioNext, CallbackBegin, ApplyCmd, MixChunk, CallbackEnd, tableVars
<1> QED BY <1>1, <1>6, <1>7 DEF Next, vars, tableVars

(* Reusing vacated slots never makes by_url_ lead from one url to a buffer *)
(* of another, so UnloadAudio releases what it names.                      *)
THEOREM UrlMapStaysSound == Spec => []UrlMapSound
<1>1. Init => UrlMapSound
  BY DEF Init, UrlMapSound
<1> QED BY <1>1, NextUrlMap, Invariance, PTL DEF Spec

-----------------------------------------------------------------------------
(* The frame stamps.                                                       *)

(* Every stamp was read from the counter, which only grows.                *)
StampsPast ==
  /\ \A i \in DOMAIN cmdQueue : cmdQueue[i].frame <= frames
  /\ \A i \in DOMAIN local : local[i].frame <= frames

(* A stamp is a frame number.                                              *)
LEMMA StampsAreFrames == \A d \in Cmd : d.frame \in Nat
<1> SUFFICES ASSUME NEW d \in Cmd PROVE d.frame \in Nat
  OBVIOUS
<1>1. CASE d \in StartCmd
  BY <1>1 DEF StartCmd
<1>2. CASE d \in ControlCmd
  BY <1>2 DEF ControlCmd
<1>3. CASE d \in ReleaseCmd
  BY <1>3 DEF ReleaseCmd
<1> QED BY <1>1, <1>2, <1>3 DEF Cmd

(* Stamps stay in the past, and so do the anchors of the voices heard.     *)
LEMMA NextStamps ==
  IInv /\ StampsPast /\ StartedStaysAudible /\ [Next]_vars
    => StampsPast' /\ StartedStaysAudible'
<1> SUFFICES ASSUME TypeOK, Quiet, StampsPast, StartedStaysAudible, [Next]_vars
             PROVE  StampsPast' /\ StartedStaysAudible'
  BY DEF IInv
<1>1. CASE UNCHANGED <<cmdQueue, local, frames, voices>>
  BY <1>1 DEF StampsPast, StartedStaysAudible, Playing
<1>2. ASSUME NEW u \in Url, UnregisterBuffer(u)
      PROVE  StampsPast' /\ StartedStaysAudible'
  <2> DEFINE p == buffers[byUrl[u]]
  <2>1. UNCHANGED <<local, frames, voices>>
    BY <1>2 DEF UnregisterBuffer, audioVars
  <2>2. cmdQueue' = cmdQueue \/ cmdQueue' = Append(cmdQueue, ReleaseOf(p))
    BY <1>2 DEF UnregisterBuffer
  <2>3. \A i \in DOMAIN cmdQueue' : cmdQueue'[i].frame <= frames
    <3>1. ReleaseOf(p).frame = 0
      BY DEF ReleaseOf
    <3> DEFINE r == ReleaseOf(p)
    <3> HIDE DEF r
    <3>2. cmdQueue' = cmdQueue \/ cmdQueue' = Append(cmdQueue, r)
      BY <2>2 DEF r
    <3>3. r.frame = 0
      BY <3>1 DEF r
    <3>4. CASE cmdQueue' = Append(cmdQueue, r)
      BY <3>3, <3>4 DEF TypeOK, StampsPast
    <3> QED BY <3>2, <3>4 DEF StampsPast
  <2> QED BY <2>1, <2>3 DEF StampsPast, StartedStaysAudible, Playing
<1>3. CASE ExecCommit
  <2> DEFINE b == Stamped(staged, frames)
  <2>1. UNCHANGED <<local, frames, voices>> /\ cmdQueue' = cmdQueue \o b
    BY <1>3 DEF ExecCommit, StampFrame, Stamped, audioVars
  <2>2. /\ b \in Seq(Cmd)
        /\ \A i \in 1..Len(b) : b[i].frame = frames
    <3>1. /\ b \in Seq(StartCmd \cup ControlCmd)
          /\ Len(b) = Len(staged)
          /\ \A i \in 1..Len(staged) : b[i].frame = frames
      BY StampedCmds DEF TypeOK
    <3> QED BY <3>1, SeqMonotonic DEF Cmd
  <2> HIDE DEF b
  <2>3. ASSUME NEW i \in DOMAIN cmdQueue' PROVE cmdQueue'[i].frame <= frames
    <3>1. /\ Len(cmdQueue) \in Nat /\ Len(b) \in Nat
          /\ i \in 1..(Len(cmdQueue) + Len(b))
          /\ cmdQueue'[i] = IF i <= Len(cmdQueue) THEN cmdQueue[i]
                                                  ELSE b[i - Len(cmdQueue)]
      BY <2>1, <2>2, ConcatProperties DEF TypeOK
    <3>2. CASE i <= Len(cmdQueue)
      BY <3>1, <3>2 DEF StampsPast, TypeOK
    <3>3. CASE i > Len(cmdQueue)
      <4>1. i - Len(cmdQueue) \in 1..Len(b)
        BY <3>1, <3>3
      <4> QED BY <3>1, <3>3, <4>1, <2>2 DEF TypeOK
    <3> QED BY <3>1, <3>2, <3>3
  <2> QED BY <2>1, <2>3 DEF StampsPast, StartedStaysAudible, Playing
<1>4. CASE Destroy
  <2>1. cmdQueue' = <<>> /\ local' = <<>> /\ Playing' = {}
    BY <1>4 DEF Destroy, Playing, Quiet
  <2> QED BY <2>1 DEF StampsPast, StartedStaysAudible
<1>5. CASE CallbackBegin
  BY <1>5 DEF CallbackBegin, StampsPast, StartedStaysAudible, Playing
<1>6. CASE ApplyCmd
  <2> DEFINE c == Head(local)
  <2>1. /\ local # <<>>
        /\ UNCHANGED <<cmdQueue, frames>>
        /\ local' = Tail(local)
    BY <1>6 DEF ApplyCmd
  <2>2. /\ c \in Cmd
        /\ c = local[1] /\ 1 \in DOMAIN local
        /\ \A i \in DOMAIN local' : i + 1 \in DOMAIN local /\ local'[i] = local[i + 1]
    <3>1. /\ local \in Seq(Cmd) /\ Len(local) \in Nat \ {0}
          /\ DOMAIN local = 1..Len(local)
      BY <2>1, EmptySeq DEF TypeOK
    <3>2. /\ c \in Cmd /\ c = local[1]
          /\ Tail(local) \in Seq(Cmd)
          /\ Len(Tail(local)) = Len(local) - 1
          /\ \A i \in 1..Len(Tail(local)) : Tail(local)[i] = local[i + 1]
      BY <2>1, <3>1, HeadTailProperties
    <3>3. ASSUME NEW i \in DOMAIN local'
          PROVE  i + 1 \in DOMAIN local /\ local'[i] = local[i + 1]
      <4>1. i \in 1..Len(Tail(local)) /\ local'[i] = Tail(local)[i]
        BY <2>1, <3>2, LenProperties
      <4>2. i \in Nat /\ i + 1 \in 1..Len(local)
        BY <4>1, <3>1, <3>2
      <4> QED BY <4>1, <4>2, <3>1, <3>2
    <3> QED BY <3>1, <3>2, <3>3
  <2>3. c.frame \in Nat /\ c.frame <= frames
    <3>1. local[1].frame <= frames
      BY <2>2 DEF StampsPast
    <3> QED BY <2>2, <3>1, StampsAreFrames
  <2>4. \/ ApplyStart(c) \/ ApplyStop(c) \/ ApplySet(c)
        \/ ApplyVolumeAt(c) \/ ApplyLoop(c) \/ ApplyRelease(c)
    BY <1>6 DEF ApplyCmd
  <2> HIDE DEF c
  <2>5. \A g \in Playing' : voices'[g].first # -1 =>
          \/ voices'[g].anchor = c.frame
          \/ /\ g \in Playing
             /\ voices'[g].first = voices[g].first
             /\ voices'[g].anchor = voices[g].anchor
    <3>1. CASE ApplyStart(c)
      BY <3>1 DEF ApplyStart, NewVoice, Playing, TypeOK
    <3>2. CASE ApplyStop(c)
      BY <3>2 DEF ApplyStop, Playing, TypeOK
    <3>3. CASE ApplySet(c)
      BY <3>3 DEF ApplySet, Playing
    <3>4. CASE ApplyVolumeAt(c)
      BY <3>4 DEF ApplyVolumeAt, Playing, TypeOK, Voice
    <3>5. CASE ApplyLoop(c)
      BY <3>5 DEF ApplyLoop, Playing, TypeOK, Voice
    <3>6. CASE ApplyRelease(c)
      BY <3>6 DEF ApplyRelease, VoicesWithout, Playing
    <3> QED BY <2>4, <3>1, <3>2, <3>3, <3>4, <3>5, <3>6
  <2>6. StartedStaysAudible'
    BY <2>1, <2>3, <2>5 DEF StartedStaysAudible
  <2>7. StampsPast'
    BY <2>1, <2>2 DEF StampsPast
  <2> QED BY <2>6, <2>7
<1>7. ASSUME NEW n \in Nat, NEW ended, MixChunk(n, ended)
      PROVE  StampsPast' /\ StartedStaysAudible'
  <2>1. UNCHANGED <<cmdQueue, local>> /\ frames' = frames + n
    BY <1>7 DEF MixChunk
  <2>2. StampsPast'
    <3>1. \A q \in Seq(Cmd) : \A i \in DOMAIN q : q[i].frame \in Nat
      <4> SUFFICES ASSUME NEW q \in Seq(Cmd), NEW i \in DOMAIN q
                   PROVE  q[i] \in Cmd
        BY StampsAreFrames
      <4>1. i \in 1..Len(q)
        BY LenProperties
      <4> QED BY <4>1, ElementOfSeq
    <3>2. /\ \A i \in DOMAIN cmdQueue : cmdQueue[i].frame \in Nat
          /\ \A i \in DOMAIN local : local[i].frame \in Nat
      BY <3>1 DEF TypeOK
    <3> QED BY <2>1, <3>2 DEF StampsPast, TypeOK
  <2>3. ASSUME NEW g \in Playing', voices'[g].first # -1
        PROVE  voices'[g].anchor <= frames'
    <3>1. g \in Playing /\ voices[g] \in Voice
      BY <1>7 DEF MixChunk, Playing, Audible, TypeOK
    <3>2. CASE g \in Audible(n)
      <4>1. voices'[g] = Heard(voices[g])
        BY <1>7, <3>1, <3>2, <2>3 DEF MixChunk, Playing
      <4>2. Heard(voices[g]).anchor = voices[g].anchor
        BY <3>1 DEF Heard, Voice
      <4> QED BY <4>1, <4>2, <3>1, <3>2, <2>1 DEF Audible, Voice, TypeOK
    <3>3. CASE g \notin Audible(n)
      <4>1. voices'[g] = voices[g]
        BY <1>7, <3>1, <3>3, <2>3 DEF MixChunk, Playing
      <4> QED BY <4>1, <3>1, <2>1, <2>3 DEF StartedStaysAudible, Voice, TypeOK
    <3> QED BY <3>2, <3>3
  <2> QED BY <2>2, <2>3 DEF StartedStaysAudible
<1>8. CASE GlNext
  <2>1. CASE SetEventSink \/ OpenDevice \/ ExecBegin
    BY <2>1, <1>1 DEF SetEventSink, OpenDevice, ExecBegin, audioVars
  <2>2. ASSUME NEW u, NEW p, RegisterBuffer(u, p)
        PROVE  UNCHANGED <<cmdQueue, local, frames, voices>>
    BY <2>2 DEF RegisterBuffer, audioVars
  <2>3. ASSUME NEW c, Stage(c) PROVE UNCHANGED <<cmdQueue, local, frames, voices>>
    BY <2>3 DEF Stage, audioVars
  <2> QED BY <1>1, <1>2, <1>3, <1>4, <1>8, <2>1, <2>2, <2>3, Zenon
          DEF GlNext, StageStart, StageControl
<1>9. CASE AudioNext
  <2>1. 1..MaxChunk \subseteq Nat
    BY BoundAssumption
  <2>2. CASE DrainEnd \/ CallbackEnd
    BY <2>2, <1>1 DEF DrainEnd, CallbackEnd
  <2> QED BY <1>5, <1>6, <1>7, <1>9, <2>1, <2>2, Zenon DEF AudioNext
<1> QED BY <1>1, <1>8, <1>9 DEF Next, vars, audioVars

(* A voice that has begun to sound is never gated as pre-start again,      *)
(* whatever the race on frames_produced_ stamped on later commands.        *)
THEOREM StartedVoicesStayAudible == Spec => []StartedStaysAudible
<1>1. Init => StampsPast /\ StartedStaysAudible
  BY DEF Init, StampsPast, StartedStaysAudible, Playing
<1> QED BY <1>1, NextStamps, Invariance, PTL DEF Spec

-----------------------------------------------------------------------------
(* audio_context_ready.                                                    *)

(* ready_event_shipped_ is set exactly while the device is open and the    *)
(* sink is wired.                                                          *)
ShippedIsDue == /\ readyShipped <=> stream /\ sink
                /\ ReadyExactlyOnce

LEMMA NextReady == TypeOK /\ ShippedIsDue /\ [Next]_vars => ShippedIsDue'
<1> SUFFICES ASSUME TypeOK, ShippedIsDue, [Next]_vars
             PROVE  ShippedIsDue'
  OBVIOUS
<1>1. /\ readyShipped \in BOOLEAN /\ stream \in BOOLEAN /\ sink \in BOOLEAN
      /\ readyEvents = IF stream /\ sink THEN 1 ELSE 0
      /\ readyShipped <=> stream /\ sink
  BY DEF TypeOK, ShippedIsDue, ReadyExactlyOnce
<1>2. CASE UNCHANGED readyVars
  BY <1>2 DEF readyVars, ShippedIsDue, ReadyExactlyOnce
<1>3. CASE SetEventSink
  BY <1>1, <1>3 DEF SetEventSink, ShipReady, ShippedIsDue, ReadyExactlyOnce
<1>4. CASE EnsureOpen
  BY <1>1, <1>4 DEF EnsureOpen, ShipReady, readyVars, ShippedIsDue, ReadyExactlyOnce
<1>5. CASE Destroy
  BY <1>5 DEF Destroy, ShippedIsDue, ReadyExactlyOnce
<1>6. \/ UNCHANGED readyVars \/ SetEventSink \/ EnsureOpen \/ Destroy
  BY DEF Next, GlNext, AudioNext, OpenDevice, RegisterBuffer, UnregisterBuffer, ExecBegin,
         StageStart, StageControl, Stage, ExecCommit, CallbackBegin, ApplyCmd, DrainEnd,
         MixChunk, CallbackEnd, vars
<1> QED BY <1>2, <1>3, <1>4, <1>5, <1>6

(* The application hears audio_context_ready once per device, as soon as   *)
(* both the sink is wired (set_event_sink) and the device open             *)
(* (ensure_open), whichever comes first; ~AudioEngine starts over.         *)
THEOREM ReadyIsHeardOnce == Spec => []ReadyExactlyOnce
<1>1. Init => ShippedIsDue
  BY DEF Init, ShippedIsDue, ReadyExactlyOnce
<1>2. ShippedIsDue => ReadyExactlyOnce
  BY DEF ShippedIsDue
<1> QED BY <1>1, <1>2, NextReady, TypeCorrect, PTL DEF Spec
-----------------------------------------------------------------------------
(* The two threads of AudioEngine implement BufferLifetime: every step is  *)
(* one of its steps, or leaves its variables alone.                        *)

(* What a step may do to the abstract state.                               *)
Step == [Lifetime!Next]_(Lifetime!vars)

LEMMA SameLife ==
  ASSUME UNCHANGED heap, InSlots' = InSlots, Borrowed' = Borrowed
  PROVE  Step
  BY DEF Step, PhaseOf, Lifetime!vars

LEMMA UsersOnly ==
  ASSUME UNCHANGED heap, InSlots' = InSlots, Borrowed' \subseteq Borrowed
  PROVE  Step
<1>1. PhaseOf' = PhaseOf
  BY DEF PhaseOf
<1> QED BY <1>1 DEF Step, Lifetime!Next, Lifetime!GiveBack

(* The buffers in use, from what the command vectors mention.              *)
LEMMA BorrowedBy ==
  ASSUME NEW b
  PROVE  b \in Borrowed <=> \/ \E g \in Playing : voices[g].buf = b
                            \/ b \in Starts(staged)
                            \/ b \in Starts(cmdQueue)
                            \/ b \in Starts(local)
  BY DEF Borrowed

LEMMA RegisterLife ==
  ASSUME IInv, NEW u \in Url, NEW p \in Ptr, RegisterBuffer(u, p)
  PROVE  Step
<1>1. InSlots' = InSlots \cup {p}
  BY RegisterInv
<1>2. p \notin Live /\ heap' = [heap EXCEPT ![p] = u]
  BY DEF RegisterBuffer
<1>3. Borrowed' = Borrowed
  BY DEF RegisterBuffer, Borrowed, Playing, glVars, audioVars
<1>4. PhaseOf' = [PhaseOf EXCEPT ![p] = "loaded"]
  <2>1. ASSUME NEW q \in Ptr
        PROVE  PhaseOf'[q] = IF q = p THEN "loaded" ELSE PhaseOf[q]
    BY <1>1, <1>2, NoUrlAssumption DEF PhaseOf, IInv, TypeOK
  <2> QED BY <2>1 DEF PhaseOf
<1>5. PhaseOf[p] = "free"
  BY <1>2 DEF PhaseOf, Live
<1> QED BY <1>3, <1>4, <1>5 DEF Step, Lifetime!Next, Lifetime!Load

LEMMA UnregisterLife ==
  ASSUME IInv, NEW u \in Url, UnregisterBuffer(u)
  PROVE  Step
<1>1. UNCHANGED heap
  BY DEF UnregisterBuffer
<1>2. Borrowed' = Borrowed
  BY UnregisterInv DEF UnregisterBuffer, Borrowed, Playing, glVars, audioVars
<1>3. CASE InSlots' = InSlots
  BY <1>1, <1>2, <1>3, SameLife
<1>4. ASSUME NEW p \in InSlots, InSlots' = InSlots \ {p}
      PROVE  Step
  <2>1. p \in Ptr /\ heap[p] # NoUrl
    BY DEF IInv, SoleOwner, InSlots, Live
  <2>2. PhaseOf[p] = "loaded"
    BY <2>1 DEF PhaseOf
  <2>3. PhaseOf' = [PhaseOf EXCEPT ![p] = "retired"]
    <3>1. ASSUME NEW q \in Ptr
          PROVE  PhaseOf'[q] = IF q = p THEN "retired" ELSE PhaseOf[q]
      BY <1>1, <1>4, <2>1 DEF PhaseOf
    <3> QED BY <3>1 DEF PhaseOf
  <2> QED BY <1>2, <2>1, <2>2, <2>3 DEF Step, Lifetime!Next, Lifetime!Retire
<1> QED BY <1>3, <1>4, UnregisterInv

LEMMA StageLife ==
  ASSUME IInv, NEW c \in StartCmd \cup ControlCmd, Stage(c),
         c.kind = "start" => c.buf \in InSlots
  PROVE  Step
<1>1. /\ UNCHANGED <<heap, cmdQueue, local, voices>>
      /\ InSlots' = InSlots
      /\ staged' = Append(staged, c)
  BY DEF Stage, InSlots, tableVars, audioVars
<1>2. \A b : b \in Starts(staged') <=>
               b \in Starts(staged) \/ (c.kind = "start" /\ c.buf = b)
  <2>1. /\ DOMAIN staged' = DOMAIN staged \cup {Len(staged) + 1}
        /\ staged'[Len(staged) + 1] = c
        /\ \A i \in DOMAIN staged : staged'[i] = staged[i]
    BY <1>1 DEF IInv, TypeOK
  <2> QED BY <2>1, Mentions
<1>3. \A b : b \in Borrowed' <=>
               b \in Borrowed \/ (c.kind = "start" /\ c.buf = b)
  BY <1>1, <1>2, BorrowedBy DEF Borrowed, Playing
<1>4. CASE c.kind = "start"
  <2>1. c.buf \in Ptr /\ heap[c.buf] # NoUrl /\ c.buf \in InSlots
    BY <1>4 DEF IInv, SoleOwner, InSlots, Live
  <2>2. PhaseOf[c.buf] = "loaded" /\ PhaseOf' = PhaseOf
    BY <1>1, <2>1 DEF PhaseOf
  <2>3. Borrowed' = Borrowed \cup {c.buf}
    BY <1>3, <1>4
  <2> QED BY <2>1, <2>2, <2>3 DEF Step, Lifetime!Next, Lifetime!Lend
<1>5. CASE c.kind # "start"
  BY <1>1, <1>3, <1>5, SameLife
<1> QED BY <1>4, <1>5

LEMMA CommitLife ==
  ASSUME IInv, ExecCommit
  PROVE  Step
<1>1. /\ UNCHANGED <<heap, buffers, local, voices>>
      /\ staged' = <<>>
  BY DEF ExecCommit, tableVars, audioVars
<1>2. Borrowed' = Borrowed
  BY <1>1, CommitInv, EmptyCmds DEF Borrowed, Playing
<1> QED BY <1>1, <1>2, SameLife DEF InSlots

LEMMA DestroyLife ==
  ASSUME IInv, Destroy
  PROVE  Step
<1>1. /\ heap' = [p \in Ptr |-> NoUrl]
      /\ staged' = <<>> /\ cmdQueue' = <<>> /\ local' = <<>>
      /\ Playing' = {}
  BY DEF Destroy, IInv, Quiet, Playing, glVars
<1>2. Borrowed' = {}
  BY <1>1, EmptyCmds DEF Borrowed
<1>3. PhaseOf' = [p \in Ptr |-> "free"]
  BY <1>1 DEF PhaseOf
<1> QED BY <1>2, <1>3 DEF Step, Lifetime!Next, Lifetime!Close

LEMMA CallbackLife ==
  ASSUME IInv, CallbackBegin
  PROVE  Step
<1>1. /\ UNCHANGED <<heap, buffers, staged, voices>>
      /\ local = <<>> /\ local' = cmdQueue /\ cmdQueue' = <<>>
  BY DEF CallbackBegin, IInv, Quiet, tableVars, glVars
<1>2. Borrowed' = Borrowed
  BY <1>1, EmptyCmds DEF Borrowed, Playing
<1> QED BY <1>1, <1>2, SameLife DEF InSlots

LEMMA ApplyLife ==
  ASSUME IInv, ApplyCmd
  PROVE  Step
<1>1. UNCHANGED <<heap, buffers, staged, cmdQueue>>
  BY DEF ApplyCmd, tableVars, glVars
<1>2. \A b \in Borrowed' : b \in Borrowed
  BY <1>1, ApplyInv, BorrowedBy DEF Borrowed
<1> QED BY <1>1, <1>2, UsersOnly DEF InSlots

(* The Buffers ~local frees are retired, and no one borrows them.          *)
LEMMA DrainLife ==
  ASSUME IInv, DrainEnd
  PROVE  Step
<1>1. /\ UNCHANGED <<buffers, staged, cmdQueue, local, voices>>
      /\ local = <<>>
      /\ heap' = [p \in Ptr |-> IF p \in doomed THEN NoUrl ELSE heap[p]]
  BY DEF DrainEnd, HeapAfterDrain, glVars
<1>2. /\ doomed \subseteq Ptr
      /\ doomed \cap InSlots = {}
      /\ doomed \subseteq Live
      /\ doomed \cap Borrowed = {}
  BY <1>1, EmptyCmds DEF IInv, TypeOK, SoleOwner, Borrowing, Borrowed
<1>3. Borrowed' = Borrowed
  BY <1>1 DEF Borrowed, Playing
<1>4. \A p \in doomed : PhaseOf[p] = "retired"
  BY <1>2 DEF PhaseOf, Live
<1>5. PhaseOf' = [p \in Ptr |-> IF p \in doomed THEN "free" ELSE PhaseOf[p]]
  <2>1. InSlots' = InSlots
    BY <1>1 DEF InSlots
  <2> QED BY <1>1, <2>1 DEF PhaseOf
<1> QED BY <1>2, <1>3, <1>4, <1>5 DEF Step, Lifetime!Next, Lifetime!Reclaim

LEMMA MixLife ==
  ASSUME IInv, NEW n \in Nat, NEW ended, MixChunk(n, ended)
  PROVE  Step
<1>1. UNCHANGED <<heap, buffers, staged, cmdQueue, local>>
  BY DEF MixChunk, tableVars, glVars
<1>2. \A g \in Playing' : g \in Playing /\ voices'[g].buf = voices[g].buf
  <2>1. \A g \in Playing : Heard(voices[g]).buf = voices[g].buf
    BY DEF IInv, TypeOK, Playing, Voice, Heard
  <2>2. \A g \in Group : \/ voices'[g] = Silent
                         \/ g \in Playing /\ voices'[g] = Heard(voices[g])
                         \/ voices'[g] = voices[g]
    BY DEF MixChunk, Audible
  <2> QED BY <2>1, <2>2 DEF Playing
<1>3. \A b \in Borrowed' : b \in Borrowed
  BY <1>1, <1>2, BorrowedBy DEF Borrowed
<1> QED BY <1>1, <1>3, UsersOnly DEF InSlots

LEMMA NextLife == IInv /\ [Next]_vars => Step
<1> SUFFICES ASSUME IInv, [Next]_vars PROVE Step
  OBVIOUS
<1>1. CASE SetEventSink \/ OpenDevice \/ ExecBegin \/ CallbackEnd \/ UNCHANGED vars
  <2>1. UNCHANGED <<heap, buffers, staged, cmdQueue, local, voices>>
    BY <1>1 DEF SetEventSink, OpenDevice, ExecBegin, CallbackEnd,
                vars, tableVars, glVars, audioVars
  <2> QED BY <2>1, SameLife DEF InSlots, Borrowed, Playing
<1>2. ASSUME NEW g \in Group, NEW id \in DOMAIN buffers, NEW d \in Nat,
             NEW l \in BOOLEAN, StageStart(g, id, d, l)
      PROVE  Step
  <2>1. buffers[id] \in Ptr /\ buffers[id] \in InSlots
    BY <1>2, ElementOfSeq DEF StageStart, IInv, TypeOK, InSlots
  <2> DEFINE c == [kind |-> "start", group |-> g, buf |-> buffers[id],
                   delay |-> d, loop |-> l, frame |-> 0]
  <2>2. c \in StartCmd /\ c.buf \in InSlots
    BY <2>1 DEF StartCmd
  <2>3. Stage(c)
    BY <1>2 DEF StageStart
  <2> HIDE DEF c
  <2> QED BY <2>2, <2>3, StageLife
<1>3. ASSUME NEW g \in Group, NEW k \in ControlKind, NEW l \in BOOLEAN,
             StageControl(k, g, l)
      PROVE  Step
  <2> DEFINE c == [kind |-> k, group |-> g, buf |-> NULL,
                   delay |-> 0, loop |-> l, frame |-> 0]
  <2>1. c \in ControlCmd /\ c.kind # "start"
    BY DEF ControlCmd, ControlKind
  <2>2. Stage(c)
    BY <1>3 DEF StageControl
  <2> HIDE DEF c
  <2> QED BY <2>1, <2>2, StageLife
<1>4. /\ 0..MaxDelay \subseteq Nat
      /\ 1..MaxChunk \subseteq Nat
      /\ Loops \subseteq BOOLEAN
      /\ FALSE \in BOOLEAN
      /\ Controls \subseteq ControlKind
  BY InputAssumption, BoundAssumption DEF ControlKind
<1>5. CASE GlNext
  BY <1>1, <1>2, <1>3, <1>4, <1>5, RegisterLife, UnregisterLife, CommitLife,
     DestroyLife, Zenon DEF GlNext
<1>6. CASE AudioNext
  BY <1>1, <1>4, <1>6, CallbackLife, ApplyLife, DrainLife, MixLife, Zenon
     DEF AudioNext
<1> QED BY <1>1, <1>5, <1>6 DEF Next

(* The mixer keeps the buffer life cycle: no new user for an unloaded      *)
(* buffer, and no memory reclaimed from under one.                         *)
THEOREM MixerImplementsLifetime == Spec => LifetimeSpec
<1>1. Init => Lifetime!Init
  <2> SUFFICES ASSUME Init PROVE Lifetime!Init
    OBVIOUS
  <2>1. Playing = {}
    BY DEF Init, Playing
  <2>2. Borrowed = {}
    BY <2>1, EmptyCmds DEF Init, Borrowed
  <2>3. PhaseOf = [p \in Ptr |-> "free"]
    BY DEF Init, PhaseOf
  <2> QED BY <2>2, <2>3 DEF Lifetime!Init
<1>2. IInv /\ [Next]_vars => [Lifetime!Next]_(Lifetime!vars)
  BY NextLife DEF Step
<1> QED BY <1>1, <1>2, Invariance, PTL DEF Spec, LifetimeSpec, Lifetime!Spec
=============================================================================
