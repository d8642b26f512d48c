------------------------- MODULE PaletteWalkProofs -------------------------
(***************************************************************************)
(* The window shows the picture of the tree and no palette is lost, for    *)
(* every set of trees of any depth, every seed and every cap.              *)
(***************************************************************************)
EXTENDS PaletteWalk, FiniteSetTheorems, SequenceTheorems, WellFoundedInduction, TLAPS

-----------------------------------------------------------------------------
(* Numbers.                                                                *)

(* A set of natural numbers that is not empty has a smallest member.       *)
LEMMA SmallestOf ==
  ASSUME NEW T \in SUBSET Nat, T # {}
  PROVE  \E t \in T : \A u \in T : t <= u
<1> DEFINE Less == {p \in Nat \X Nat : p[1] < p[2]}
<1>1. IsWellFoundedOn(Less, Nat)
  BY NatLessThanWellFounded DEF OpToRel
<1>2. PICK t \in T : \A u \in T : ~ (<<u, t>> \in Less)
  <2> HIDE DEF Less
  <2> QED BY <1>1, WFMin
<1>3. ASSUME NEW u \in T PROVE t <= u
  <2>1. t \in Nat /\ u \in Nat
    OBVIOUS
  <2>2. <<u, t>> \notin Less
    BY <1>2
  <2>3. ~ (u < t)
    BY <2>1, <2>2
  <2> QED BY <2>1, <2>3
<1> QED BY <1>3

-----------------------------------------------------------------------------
(* Loops.                                                                  *)

AreRounds(after, steps, x) ==
  after[0] = x /\ \A i \in 1..Len(steps) : after[i] = steps[i][after[i - 1]]

LEMMA RoundsFacts ==
  ASSUME NEW steps, NEW x, Len(steps) \in Nat
  PROVE  \E after : AreRounds(after, steps, x) /\ Rounds(steps, x) = after[Len(steps)]
<1> DEFINE Body(g) == [i \in 0..Len(steps) |-> IF i = 0 THEN x ELSE steps[i][g[i - 1]]]
           Upto(g, k) == g[0] = x /\ \A i \in 1..k : g[i] = steps[i][g[i - 1]]
           after == CHOOSE g : g = Body(g)
<1>1. Rounds(steps, x) = after[Len(steps)]
  BY DEF Rounds
<1>2. \A k \in Nat : \E g : Upto(g, k)
  <2> DEFINE Bad == {k \in Nat : ~\E g : Upto(g, k)}
  <2>1. SUFFICES ASSUME Bad # {} PROVE FALSE
    OBVIOUS
  <2>2. PICK k \in Bad : \A m \in Bad : k <= m
    <3> HIDE DEF Bad
    <3>1. Bad \in SUBSET Nat
      BY DEF Bad
    <3> QED BY <2>1, <3>1, SmallestOf
  <2>3. k # 0
    <3>1. Upto([i \in 0..0 |-> x], 0)
      OBVIOUS
    <3> QED BY <3>1
  <2>4. k - 1 \in Nat /\ k - 1 \notin Bad
    <3>1. k \in Nat
      BY <2>2
    <3> HIDE DEF Bad
    <3> QED BY <2>2, <2>3, <3>1
  <2>5. PICK g : Upto(g, k - 1)
    BY <2>4
  <2> DEFINE h == [i \in 0..k |-> IF i = k THEN steps[k][g[k - 1]] ELSE g[i]]
  <2>6. h[0] = x
    BY <2>3, <2>5
  <2>7. ASSUME NEW i \in 1..k PROVE h[i] = steps[i][h[i - 1]]
    <3>1. i - 1 \in 0..k /\ i - 1 # k /\ h[i - 1] = g[i - 1]
      OBVIOUS
    <3>2. CASE i = k
      BY <3>1, <3>2
    <3>3. CASE i # k
      <4>1. i \in 1..(k - 1) /\ h[i] = g[i]
        BY <3>3
      <4> QED BY <2>5, <3>1, <4>1
    <3> QED BY <3>2, <3>3
  <2>8. Upto(h, k)
    <3> HIDE DEF h
    <3> QED BY <2>6, <2>7
  <2> QED BY <2>8
<1>3. PICK g : Upto(g, Len(steps))
  BY <1>2
<1> DEFINE h == [i \in 0..Len(steps) |-> g[i]]
<1>4. h = Body(h)
  <2>1. ASSUME NEW i \in 0..Len(steps)
        PROVE  h[i] = IF i = 0 THEN x ELSE steps[i][h[i - 1]]
    <3>1. CASE i = 0
      BY <1>3, <3>1
    <3>2. CASE i # 0
      <4>1. i \in 1..Len(steps) /\ i - 1 \in 0..Len(steps)
        BY <3>2
      <4> QED BY <1>3, <3>2, <4>1
    <3> QED BY <3>1, <3>2
  <2> QED BY <2>1
<1>5. after = Body(after)
  <2> HIDE DEF Body, h
  <2> QED BY <1>4
<1>6. AreRounds(after, steps, x)
  <2>1. after[0] = x
    <3> HIDE DEF after
    <3> QED BY <1>5
  <2>2. ASSUME NEW i \in 1..Len(steps) PROVE after[i] = steps[i][after[i - 1]]
    <3>1. i \in 0..Len(steps) /\ i # 0
      OBVIOUS
    <3> HIDE DEF after
    <3> QED BY <1>5, <3>1
  <2> QED BY <2>1, <2>2 DEF AreRounds
<1> QED BY <1>1, <1>6

(* Two loops of equal length, run side by side.                            *)
LEMMA RoundsTogether ==
  ASSUME NEW ss, NEW ts, NEW x, NEW y, NEW R,
         Len(ss) \in Nat, Len(ts) = Len(ss), <<x, y>> \in R,
         \A i \in 1..Len(ss) : \A a, b : <<a, b>> \in R => <<ss[i][a], ts[i][b]>> \in R
  PROVE  <<Rounds(ss, x), Rounds(ts, y)>> \in R
<1>1. PICK a : AreRounds(a, ss, x) /\ Rounds(ss, x) = a[Len(ss)]
  BY RoundsFacts
<1>2. PICK b : AreRounds(b, ts, y) /\ Rounds(ts, y) = b[Len(ts)]
  BY RoundsFacts
<1> DEFINE Bad == {i \in 0..Len(ss) : <<a[i], b[i]>> \notin R}
<1>3. Bad = {}
  <2>1. SUFFICES ASSUME Bad # {} PROVE FALSE
    OBVIOUS
  <2>2. PICK k \in Bad : \A m \in Bad : k <= m
    <3> HIDE DEF Bad
    <3>1. Bad \in SUBSET Nat
      BY DEF Bad
    <3> QED BY <2>1, <3>1, SmallestOf
  <2>3. k \in 1..Len(ss) /\ k - 1 \in 0..Len(ss)
    BY <1>1, <1>2 DEF AreRounds
  <2>4. <<a[k - 1], b[k - 1]>> \in R
    <3>1. k - 1 \notin Bad
      <4>1. ~ (k <= k - 1)
        BY <2>3
      <4> HIDE DEF Bad
      <4> QED BY <2>2, <4>1
    <3> QED BY <2>3, <3>1
  <2>5. a[k] = ss[k][a[k - 1]] /\ b[k] = ts[k][b[k - 1]]
    BY <1>1, <1>2, <2>3 DEF AreRounds
  <2> QED BY <2>3, <2>4, <2>5
<1>4. Len(ss) \notin Bad
  BY <1>3
<1> QED BY <1>1, <1>2, <1>4

-----------------------------------------------------------------------------
(* The levels of the two recursions.                                       *)

LEMMA PaintLevels ==
  ASSUME NEW d \in 0..Depth
  PROVE  PaintTo[d] = [v \in Views(Level[d]) |->
           PaintTree(IF d = 0 THEN <<>> ELSE PaintTo[d - 1], v.tree, v.below, v.camera)]
<1> DEFINE One(f, i) == [v \in Views(Level[i]) |-> PaintTree(f, v.tree, v.below, v.camera)]
           Prev(g, i) == IF i = 0 THEN <<>> ELSE g[i - 1]
           Body(g) == [i \in 0..Depth |-> One(Prev(g, i), i)]
           Upto(g, k) == \A i \in 0..k : g[i] = One(Prev(g, i), i)
<1>1. PaintTo = CHOOSE g : g = Body(g)
  BY DEF PaintTo
<1>0. Depth \in Nat
  BY TreeAssumption
<1> HIDE DEF One
<1>2. \A k \in Nat : \E g : Upto(g, k)
  <2> DEFINE Bad == {k \in Nat : ~\E g : Upto(g, k)}
  <2>1. SUFFICES ASSUME Bad # {} PROVE FALSE
    OBVIOUS
  <2>2. PICK k \in Bad : \A m \in Bad : k <= m
    <3> HIDE DEF Bad
    <3>1. Bad \in SUBSET Nat
      BY DEF Bad
    <3> QED BY <2>1, <3>1, SmallestOf
  <2>3. k # 0
    <3>1. Upto([i \in 0..0 |-> One(<<>>, 0)], 0)
      OBVIOUS
    <3> QED BY <3>1
  <2>4. k - 1 \in Nat /\ k - 1 \notin Bad
    <3>1. k \in Nat
      BY <2>2
    <3> HIDE DEF Bad
    <3> QED BY <2>2, <2>3, <3>1
  <2>5. PICK g : Upto(g, k - 1)
    BY <2>4
  <2> DEFINE h == [i \in 0..k |-> IF i = k THEN One(g[k - 1], k) ELSE g[i]]
  <2>6. ASSUME NEW i \in 0..k PROVE h[i] = One(Prev(h, i), i)
    <3>1. CASE i = 0
      <4>1. i \in 0..(k - 1) /\ h[i] = g[i]
        BY <2>3, <3>1
      <4> QED BY <2>5, <3>1, <4>1
    <3>2. CASE i # 0
      <4>1. i - 1 \in 0..k /\ i - 1 # k /\ h[i - 1] = g[i - 1]
        BY <3>2
      <4>2. CASE i = k
        BY <3>2, <4>1, <4>2
      <4>3. CASE i # k
        <5>1. i \in 0..(k - 1) /\ h[i] = g[i]
          BY <4>3
        <5> QED BY <2>5, <3>2, <4>1, <5>1
      <4> QED BY <4>2, <4>3
    <3> QED BY <3>1, <3>2
  <2>7. Upto(h, k)
    <3> HIDE DEF h
    <3> QED BY <2>6
  <2> QED BY <2>7
<1>3. PICK g : Upto(g, Depth)
  BY <1>0, <1>2
<1> DEFINE h == [i \in 0..Depth |-> g[i]]
<1>4. h = Body(h)
  <2>1. ASSUME NEW i \in 0..Depth PROVE h[i] = One(Prev(h, i), i)
    <3>1. Prev(h, i) = Prev(g, i)
      BY <1>0
    <3> QED BY <1>3, <3>1
  <2> QED BY <2>1
<1>5. PaintTo = Body(PaintTo)
  <2> HIDE DEF Body, h
  <2> QED BY <1>1, <1>4
<1>6. PaintTo[d] = One(Prev(PaintTo, d), d)
  BY <1>5
<1> QED BY <1>6 DEF One

LEMMA DrawLevels ==
  ASSUME NEW d \in 0..Depth
  PROVE  DrawTo[d] = [c \in Calls(Level[d]) |->
           DrawRenderable(IF d = 0 THEN <<>> ELSE DrawTo[d - 1], c.tree, c.prev, c.camera, c.pool)]
<1> DEFINE One(f, i) == [c \in Calls(Level[i]) |->
                          DrawRenderable(f, c.tree, c.prev, c.camera, c.pool)]
           Prev(g, i) == IF i = 0 THEN <<>> ELSE g[i - 1]
           Body(g) == [i \in 0..Depth |-> One(Prev(g, i), i)]
           Upto(g, k) == \A i \in 0..k : g[i] = One(Prev(g, i), i)
<1>1. DrawTo = CHOOSE g : g = Body(g)
  BY DEF DrawTo
<1>0. Depth \in Nat
  BY TreeAssumption
<1> HIDE DEF One
<1>2. \A k \in Nat : \E g : Upto(g, k)
  <2> DEFINE Bad == {k \in Nat : ~\E g : Upto(g, k)}
  <2>1. SUFFICES ASSUME Bad # {} PROVE FALSE
    OBVIOUS
  <2>2. PICK k \in Bad : \A m \in Bad : k <= m
    <3> HIDE DEF Bad
    <3>1. Bad \in SUBSET Nat
      BY DEF Bad
    <3> QED BY <2>1, <3>1, SmallestOf
  <2>3. k # 0
    <3>1. Upto([i \in 0..0 |-> One(<<>>, 0)], 0)
      OBVIOUS
    <3> QED BY <3>1
  <2>4. k - 1 \in Nat /\ k - 1 \notin Bad
    <3>1. k \in Nat
      BY <2>2
    <3> HIDE DEF Bad
    <3> QED BY <2>2, <2>3, <3>1
  <2>5. PICK g : Upto(g, k - 1)
    BY <2>4
  <2> DEFINE h == [i \in 0..k |-> IF i = k THEN One(g[k - 1], k) ELSE g[i]]
  <2>6. ASSUME NEW i \in 0..k PROVE h[i] = One(Prev(h, i), i)
    <3>1. CASE i = 0
      <4>1. i \in 0..(k - 1) /\ h[i] = g[i]
        BY <2>3, <3>1
      <4> QED BY <2>5, <3>1, <4>1
    <3>2. CASE i # 0
      <4>1. i - 1 \in 0..k /\ i - 1 # k /\ h[i - 1] = g[i - 1]
        BY <3>2
      <4>2. CASE i = k
        BY <3>2, <4>1, <4>2
      <4>3. CASE i # k
        <5>1. i \in 0..(k - 1) /\ h[i] = g[i]
          BY <4>3
        <5> QED BY <2>5, <3>2, <4>1, <5>1
      <4> QED BY <4>2, <4>3
    <3> QED BY <3>1, <3>2
  <2>7. Upto(h, k)
    <3> HIDE DEF h
    <3> QED BY <2>6
  <2> QED BY <2>7
<1>3. PICK g : Upto(g, Depth)
  BY <1>0, <1>2
<1> DEFINE h == [i \in 0..Depth |-> g[i]]
<1>4. h = Body(h)
  <2>1. ASSUME NEW i \in 0..Depth PROVE h[i] = One(Prev(h, i), i)
    <3>1. Prev(h, i) = Prev(g, i)
      BY <1>0
    <3> QED BY <1>3, <3>1
  <2> QED BY <2>1
<1>5. DrawTo = Body(DrawTo)
  <2> HIDE DEF Body, h
  <2> QED BY <1>1, <1>4
<1>6. DrawTo[d] = One(Prev(DrawTo, d), d)
  BY <1>5
<1> QED BY <1>6 DEF One

-----------------------------------------------------------------------------
(* Images.                                                                 *)

LEMMA LayersFacts ==
  /\ \A what \in {"stale", "clear", "begin", "beside"} : <<Mark(what)>> \in Image
  /\ \A what \in {"draw", "effect"}, e \in Known, camera \in Camera :
       Layer(what, e, camera) \in Layers
  /\ \A what \in {"effect", "composite"}, e \in Known : <<Layer(what, e, None)>> \in Image
  /\ <<>> \in Image /\ Stale \in Image
<1>1. \A what \in {"stale", "clear", "begin", "beside"} : Mark(what) \in Layers
  BY DEF Mark, Layer, Layers
<1>2. \A what \in {"draw", "effect"}, e \in Known, camera \in Camera :
        Layer(what, e, camera) \in Layers
  BY DEF Layer, Layers
<1>3. \A what \in {"effect", "composite"}, e \in Known : Layer(what, e, None) \in Layers
  BY DEF Layer, Layers
<1>4. \A l \in Layers : <<l>> \in Seq(Layers)
  OBVIOUS
<1>5. <<>> \in Seq(Layers)
  OBVIOUS
<1> QED BY <1>1, <1>2, <1>3, <1>4, <1>5 DEF Image, Stale

LEMMA InkType ==
  ASSUME NEW a, NEW camera \in Camera, NEW image \in Image
  PROVE  Ink(a, camera, image) \in Image
<1>1. CASE a.program = "clear"
  BY <1>1, LayersFacts DEF Ink
<1>2. CASE a.program # "clear" /\ a.program \in Known
  <2> DEFINE l == Layer("draw", a.program, camera)
  <2>1. l \in Layers
    BY <1>2, LayersFacts
  <2>2. Ink(a, camera, image) = Append(image, l)
    BY <1>2 DEF Ink
  <2> HIDE DEF l
  <2>3. Append(image, l) \in Seq(Layers)
    BY <2>1, AppendProperties DEF Image
  <2> QED BY <2>2, <2>3 DEF Image
<1>3. CASE a.program # "clear" /\ a.program \notin Known
  BY <1>3 DEF Ink
<1> QED BY <1>1, <1>2, <1>3

LEMMA JoinType ==
  ASSUME NEW i \in Image, NEW j \in Image
  PROVE  i \o j \in Image
  BY ConcatProperties DEF Image

LEMMA EffectedType ==
  ASSUME NEW e, NEW image \in Image
  PROVE  Effected(e, image) \in Image
<1>1. CASE e \in Known
  <2>1. <<Mark("begin")>> \in Image /\ <<Layer("effect", e, None)>> \in Image
    BY <1>1, LayersFacts
  <2>2. <<Mark("begin")>> \o image \in Image
    BY <2>1, JoinType
  <2>3. (<<Mark("begin")>> \o image) \o <<Layer("effect", e, None)>> \in Image
    BY <2>1, <2>2, JoinType
  <2> QED BY <1>1, <2>3 DEF Effected
<1>2. CASE e \notin Known
  BY <1>2 DEF Effected
<1> QED BY <1>1, <1>2

LEMMA ComposedType ==
  ASSUME NEW c, NEW l \in Image, NEW r \in Image
  PROVE  Composed(c, l, r) \in Image
<1>1. CASE c \in Known
  <2>1. /\ <<Mark("begin")>> \in Image /\ <<Mark("beside")>> \in Image
        /\ <<Layer("composite", c, None)>> \in Image
    BY <1>1, LayersFacts
  <2>2. <<Mark("begin")>> \o l \in Image
    BY <2>1, JoinType
  <2>3. (<<Mark("begin")>> \o l) \o <<Mark("beside")>> \in Image
    BY <2>1, <2>2, JoinType
  <2>4. ((<<Mark("begin")>> \o l) \o <<Mark("beside")>>) \o r \in Image
    BY <2>3, JoinType
  <2>5. (((<<Mark("begin")>> \o l) \o <<Mark("beside")>>) \o r) \o <<Layer("composite", c, None)>>
          \in Image
    BY <2>1, <2>4, JoinType
  <2> QED BY <1>1, <2>5 DEF Composed
<1>2. CASE c \notin Known
  BY <1>2 DEF Composed
<1> QED BY <1>1, <1>2

LEMMA SolidType ==
  ASSUME NEW picture \in Picture
  PROVE  Solid(picture) \in Image
  BY LayersFacts DEF Solid, Picture

LEMMA OverType ==
  ASSUME NEW below \in Picture, NEW above \in Picture
  PROVE  Over(below, above) \in Picture
<1>1. below # None /\ above # None => below \o above \in Image
  BY JoinType DEF Picture
<1> QED BY <1>1 DEF Over, Picture

-----------------------------------------------------------------------------
(* One operation of the pool, or on the palettes.                          *)

Sound(p) ==
  /\ p \in Pools
  /\ Len(p.image) \in Seed..Cap
  /\ p.taken \subseteq 1..Len(p.image)

LEMMA PoolFacts ==
  ASSUME NEW p, Sound(p)
  PROVE  /\ p.taken \in SUBSET (1..Cap) /\ p.image \in Seq(Image)
         /\ p.faults \in SUBSET {"denied", "misused"}
         /\ p = [taken |-> p.taken, image |-> p.image, faults |-> p.faults]
         /\ Len(p.image) \in Nat /\ DOMAIN p.image = 1..Len(p.image)
         /\ Len(p.image) <= Cap /\ Cap \in Nat
         /\ \A i \in 1..Len(p.image) : p.image[i] \in Image
<1>1. p \in Pools
  BY DEF Sound
<1>2. /\ p.taken \in SUBSET (1..Cap) /\ p.image \in Seq(Image)
      /\ p.faults \in SUBSET {"denied", "misused"}
      /\ p = [taken |-> p.taken, image |-> p.image, faults |-> p.faults]
  BY <1>1 DEF Pools
<1>3. Len(p.image) \in Nat /\ DOMAIN p.image = 1..Len(p.image)
  BY <1>2, LenProperties
<1>4. \A i \in 1..Len(p.image) : p.image[i] \in Image
  BY <1>2, ElementOfSeq
<1>5. Len(p.image) <= Cap /\ Cap \in Nat
  BY PoolAssumption DEF Sound
<1> QED BY <1>2, <1>3, <1>4, <1>5

LEMMA PaintedFacts ==
  ASSUME NEW p, Sound(p), NEW pid \in 1..Len(p.image), NEW image \in Image
  PROVE  LET q == Painted(p, pid, image)
         IN /\ Sound(q) /\ q.taken = p.taken /\ q.faults = p.faults
            /\ Len(q.image) = Len(p.image)
            /\ q.image[pid] = image
            /\ \A i \in 1..Len(p.image) : i # pid => q.image[i] = p.image[i]
<1> DEFINE q == Painted(p, pid, image)
           s == [p.image EXCEPT ![pid] = image]
<1>1. s \in Seq(Image) /\ Len(s) = Len(p.image)
  BY PoolFacts, ExceptSeq
<1>2. s[pid] = image /\ \A i \in 1..Len(p.image) : i # pid => s[i] = p.image[i]
  BY PoolFacts
<1>3. q = [p EXCEPT !.image = s]
  BY DEF Painted
<1> HIDE DEF s
<1>4. q = [taken |-> p.taken, image |-> s, faults |-> p.faults]
  BY <1>3, PoolFacts
<1> HIDE DEF q
<1>5. q \in Pools
  BY <1>1, <1>4, PoolFacts DEF Pools
<1>6. Sound(q)
  BY <1>1, <1>4, <1>5 DEF Sound
<1>7. q.taken = p.taken /\ q.faults = p.faults /\ q.image = s
  BY <1>4
<1> QED BY <1>1, <1>2, <1>6, <1>7 DEF q

LEMMA TouchFacts ==
  ASSUME NEW p, Sound(p), NEW pid
  PROVE  LET q == Touch(p, pid)
         IN /\ Sound(q) /\ q.taken = p.taken /\ q.image = p.image
            /\ p.faults \subseteq q.faults /\ (Denied(q) => Denied(p))
            /\ pid \in p.taken => q = p
<1> DEFINE faults == p.faults \cup {"misused"}
           q == [p EXCEPT !.faults = faults]
<1>1. CASE pid \in p.taken
  BY <1>1 DEF Touch
<1>2. CASE pid \notin p.taken
  <2>1. Touch(p, pid) = q
    BY <1>2 DEF Touch
  <2>2. faults \in SUBSET {"denied", "misused"} /\ p.faults \subseteq faults
    BY PoolFacts
  <2>3. "denied" \in faults => "denied" \in p.faults
    OBVIOUS
  <2> HIDE DEF faults
  <2>4. q = [taken |-> p.taken, image |-> p.image, faults |-> faults]
    BY PoolFacts
  <2> HIDE DEF q
  <2>5. q \in Pools
    BY <2>2, <2>4, PoolFacts DEF Pools
  <2>6. q.taken = p.taken /\ q.image = p.image /\ q.faults = faults
    BY <2>4
  <2>7. Sound(q)
    BY <2>5, <2>6 DEF Sound
  <2> QED BY <1>2, <2>1, <2>2, <2>3, <2>6, <2>7 DEF Denied
<1> QED BY <1>1, <1>2

LEMMA ReleaseFacts ==
  ASSUME NEW p, Sound(p), NEW pid
  PROVE  LET q == Release(p, pid)
         IN /\ Sound(q) /\ q.taken = p.taken \ {pid} /\ q.image = p.image
            /\ q.faults = p.faults
<1> DEFINE taken == p.taken \ {pid}
           q == [p EXCEPT !.taken = taken]
<1>1. Release(p, pid) = q
  BY DEF Release
<1>2. /\ taken \in SUBSET (1..Cap)
      /\ p.taken \subseteq 1..Len(p.image) => taken \subseteq 1..Len(p.image)
  BY PoolFacts
<1> HIDE DEF taken
<1>3. q = [taken |-> taken, image |-> p.image, faults |-> p.faults]
  BY PoolFacts
<1> HIDE DEF q
<1>4. q \in Pools
  BY <1>2, <1>3, PoolFacts DEF Pools
<1>5. q.taken = taken /\ q.image = p.image /\ q.faults = p.faults
  BY <1>3
<1>6. Sound(q)
  BY <1>2, <1>4, <1>5 DEF Sound
<1> QED BY <1>1, <1>5, <1>6 DEF taken

(* A palette that was free, or no palette and the notice of it.            *)
Acquired(p, w) ==
  /\ Sound(w.pool) /\ w = Walk(w.pid, w.pool) /\ w.pid \in 0..Len(w.pool.image)
  /\ Len(p.image) <= Len(w.pool.image)
  /\ \A i \in p.taken : w.pool.image[i] = p.image[i]
  /\ w.pid = 0 => w.pool.taken = p.taken /\ w.pool.faults = p.faults \cup {"denied"}
  /\ w.pid # 0 =>
       w.pid \notin p.taken /\ w.pool.taken = p.taken \cup {w.pid} /\ w.pool.faults = p.faults

LEMMA AcquireFacts ==
  ASSUME NEW p, Sound(p)
  PROVE  Acquired(p, Acquire(p))
<1> DEFINE n == Len(p.image)
           free == (1..n) \ p.taken
<1>0. /\ n \in Nat /\ n <= Cap /\ Cap \in Nat /\ n \in Seed..Cap /\ p.taken \subseteq 1..n
      /\ Seed \in Nat
  BY PoolFacts, PoolAssumption DEF Sound
<1>1. CASE free # {}
  <2> DEFINE i == CHOOSE i \in free : \A j \in free : i <= j
             taken == p.taken \cup {i}
             q == [p EXCEPT !.taken = taken]
  <2>1. i \in free
    <3>1. free \in SUBSET Nat
      BY <1>0
    <3> HIDE DEF free
    <3>2. \E k \in free : \A j \in free : k <= j
      BY <1>1, <3>1, SmallestOf
    <3> QED BY <3>2
  <2>2. Acquire(p) = Walk(i, q)
    BY <1>1 DEF Acquire
  <2> HIDE DEF i
  <2>3. i \in 1..n /\ i \notin p.taken /\ taken \in SUBSET (1..Cap) /\ taken \subseteq 1..n
    BY <1>0, <2>1
  <2>4. taken = p.taken \cup {i}
    OBVIOUS
  <2> HIDE DEF taken
  <2>5. q = [taken |-> taken, image |-> p.image, faults |-> p.faults]
    BY PoolFacts
  <2> HIDE DEF q
  <2>6. q \in Pools
    BY <2>3, <2>5, PoolFacts DEF Pools
  <2>7. q.taken = taken /\ q.image = p.image /\ q.faults = p.faults
    BY <2>5
  <2>8. Sound(q)
    BY <1>0, <2>3, <2>6, <2>7 DEF Sound
  <2>9. Acquire(p).pid = i /\ Acquire(p).pool = q /\ i # 0 /\ i \in 0..n
    BY <2>2, <2>3 DEF Walk
  <2> QED BY <1>0, <2>2, <2>3, <2>4, <2>7, <2>8, <2>9 DEF Acquired
<1>2. CASE free = {} /\ AtCap(n)
  <2> DEFINE faults == p.faults \cup {"denied"}
             q == [p EXCEPT !.faults = faults]
  <2>2. Acquire(p) = Walk(0, q)
    BY <1>2 DEF Acquire
  <2>3. faults \in SUBSET {"denied", "misused"} /\ faults = p.faults \cup {"denied"}
    BY PoolFacts
  <2> HIDE DEF faults
  <2>5. q = [taken |-> p.taken, image |-> p.image, faults |-> faults]
    BY PoolFacts
  <2> HIDE DEF q
  <2>6. q \in Pools
    BY <2>3, <2>5, PoolFacts DEF Pools
  <2>7. q.taken = p.taken /\ q.image = p.image /\ q.faults = faults
    BY <2>5
  <2>8. Sound(q)
    BY <1>0, <2>6, <2>7 DEF Sound
  <2>9. Acquire(p).pid = 0 /\ Acquire(p).pool = q /\ 0 \in 0..n
    BY <1>0, <2>2 DEF Walk
  <2> QED BY <1>0, <2>2, <2>3, <2>7, <2>8, <2>9 DEF Acquired
<1>3. CASE free = {} /\ ~AtCap(n)
  <2> DEFINE taken == p.taken \cup {n + 1}
             image == Append(p.image, Stale)
             q == [p EXCEPT !.taken = taken, !.image = image]
  <2>2. Acquire(p) = Walk(n + 1, q)
    BY <1>3 DEF Acquire
  <2>1. n + 1 \in Seed..Cap
    BY <1>0, <1>3 DEF AtCap
  <2>3. /\ taken \in SUBSET (1..Cap) /\ taken \subseteq 1..(n + 1) /\ taken = p.taken \cup {n + 1}
        /\ n + 1 \notin p.taken
    BY <1>0, <2>1
  <2> HIDE DEF taken
  <2>4. /\ image \in Seq(Image) /\ Len(image) = n + 1
        /\ \A i \in 1..n : image[i] = p.image[i]
    <3>1. p.image \in Seq(Image) /\ Stale \in Image
      BY PoolFacts, LayersFacts
    <3>2. /\ Append(p.image, Stale) \in Seq(Image)
          /\ Len(Append(p.image, Stale)) = Len(p.image) + 1
          /\ \A i \in 1..Len(p.image) : Append(p.image, Stale)[i] = p.image[i]
      BY <3>1, AppendProperties
    <3> QED BY <3>2
  <2> HIDE DEF image
  <2>5. q = [taken |-> taken, image |-> image, faults |-> p.faults]
    <3>1. p = [taken |-> p.taken, image |-> p.image, faults |-> p.faults]
      BY PoolFacts
    <3> DEFINE r == [p EXCEPT !.taken = taken]
    <3>2. r = [taken |-> taken, image |-> p.image, faults |-> p.faults]
      BY <3>1
    <3>3. q = [r EXCEPT !.image = image]
      OBVIOUS
    <3> HIDE DEF r, q
    <3> QED BY <3>2, <3>3
  <2> HIDE DEF q
  <2>6. q \in Pools
    BY <2>3, <2>4, <2>5, PoolFacts DEF Pools
  <2>7. q.taken = taken /\ q.image = image /\ q.faults = p.faults
    BY <2>5
  <2>8. Sound(q)
    BY <1>0, <2>1, <2>3, <2>4, <2>6, <2>7 DEF Sound
  <2>9. Acquire(p).pid = n + 1 /\ Acquire(p).pool = q /\ n + 1 # 0 /\ n + 1 \in 0..(n + 1)
        /\ n <= n + 1
    BY <1>0, <2>2 DEF Walk
  <2> QED BY <1>0, <2>2, <2>3, <2>4, <2>7, <2>8, <2>9 DEF Acquired
<1> QED BY <1>1, <1>2, <1>3

LEMMA AcquireClearedFacts ==
  ASSUME NEW p, Sound(p)
  PROVE  LET w == AcquireCleared(p)
         IN Acquired(p, w) /\ (w.pid # 0 => w.pool.image[w.pid] = <<>>)
<1> DEFINE w == Acquire(p)
           q == Painted(w.pool, w.pid, <<>>)
<1>1. Acquired(p, w)
  BY AcquireFacts
<1>2. CASE w.pid = 0
  BY <1>1, <1>2 DEF AcquireCleared
<1>3. CASE w.pid # 0
  <2>1. AcquireCleared(p) = Walk(w.pid, q)
    BY <1>3 DEF AcquireCleared
  <2> HIDE DEF w
  <2>2. Sound(w.pool) /\ w.pid \in 1..Len(w.pool.image) /\ Len(p.image) <= Len(w.pool.image)
    <3>1. Sound(w.pool) /\ w.pid \in 0..Len(w.pool.image) /\ Len(p.image) <= Len(w.pool.image)
      BY <1>1 DEF Acquired
    <3>2. Len(w.pool.image) \in Nat
      BY <3>1, PoolFacts
    <3> QED BY <1>3, <3>1, <3>2
  <2>3. /\ Sound(q) /\ q.taken = w.pool.taken /\ q.faults = w.pool.faults
        /\ Len(q.image) = Len(w.pool.image)
        /\ q.image[w.pid] = <<>>
        /\ \A i \in 1..Len(w.pool.image) : i # w.pid => q.image[i] = w.pool.image[i]
    <3>1. <<>> \in Image
      BY LayersFacts
    <3> QED BY <2>2, <3>1, PaintedFacts
  <2> HIDE DEF q
  <2>4. \A i \in p.taken : i \in 1..Len(w.pool.image) /\ i # w.pid
    <3>1. p.taken \subseteq w.pool.taken /\ w.pool.taken \subseteq 1..Len(w.pool.image)
      BY <1>1, <1>3, <2>2 DEF Acquired, Sound
    <3> QED BY <1>1, <1>3, <3>1 DEF Acquired
  <2>5. AcquireCleared(p).pid = w.pid /\ AcquireCleared(p).pool = q
    BY <2>1 DEF Walk
  <2>6. Acquired(p, AcquireCleared(p))
    BY <1>1, <1>3, <2>1, <2>2, <2>3, <2>4, <2>5 DEF Acquired
  <2> QED BY <2>3, <2>5, <2>6
<1> QED BY <1>2, <1>3

-----------------------------------------------------------------------------
(* What a part of the walk does: p is the pool before it, prev the palette *)
(* it goes on with, below what it takes to be on that palette; w is what   *)
(* it returns, and the picture what should have been painted.  Nothing but *)
(* the result is taken in addition, whatever was denied; and if nothing    *)
(* was, the result holds the picture and the palettes of others are as     *)
(* they were.                                                              *)

On(p, pid) == IF pid = 0 THEN None ELSE p.image[pid]

Exactly(p, prev, w, picture) ==
  /\ w.pool.taken = p.taken \cup ({w.pid} \ {0})
  /\ prev = 0 => w.pid \notin p.taken
  /\ w.pool.faults = p.faults
  /\ \A i \in p.taken : i # prev => w.pool.image[i] = p.image[i]
  /\ On(w.pool, w.pid) = picture

Safely(p, prev, w) ==
  /\ w = Walk(w.pid, w.pool) /\ Sound(w.pool) /\ w.pid \in 0..Len(w.pool.image)
  /\ Len(p.image) <= Len(w.pool.image) /\ p.faults \subseteq w.pool.faults
  /\ w.pool.taken \subseteq p.taken \cup {w.pid}
  /\ prev # 0 => w.pid = prev

Did(p, prev, below, w, picture) ==
  /\ Safely(p, prev, w)
  /\ picture \in Picture
  /\ ~Denied(w.pool) /\ prev \in p.taken \cup {0} /\ below = On(p, prev) =>
       Exactly(p, prev, w, picture)

LEMMA NothingDid ==
  ASSUME NEW p, Sound(p), NEW prev \in 0..Len(p.image), NEW below \in Picture
  PROVE  Did(p, prev, below, Walk(prev, p), below)
<1> DEFINE w == Walk(prev, p)
<1>1. w.pid = prev /\ w.pool = p /\ w = Walk(w.pid, w.pool)
  BY DEF Walk
<1> HIDE DEF w
<1>2. Len(p.image) <= Len(p.image)
  BY PoolFacts
<1>3. Safely(p, prev, w)
  BY <1>1, <1>2 DEF Safely
<1>4. 0 \notin p.taken
  BY PoolFacts DEF Sound
<1>5. prev \in p.taken \cup {0} /\ below = On(p, prev) => Exactly(p, prev, w, below)
  BY <1>1, <1>4 DEF Exactly
<1> QED BY <1>3, <1>5 DEF Did, w

(* One part after the other.                                               *)
LEMMA ThenDid ==
  ASSUME NEW p, NEW prev, NEW below, NEW w, NEW picture, NEW v, NEW result,
         Did(p, prev, below, w, picture), Did(w.pool, w.pid, picture, v, result)
  PROVE  Did(p, prev, below, v, result)
<1>1. Safely(p, prev, w) /\ Safely(w.pool, w.pid, v) /\ result \in Picture
  BY DEF Did
<1>2. Safely(p, prev, v)
  <2>1. /\ v = Walk(v.pid, v.pool) /\ Sound(v.pool) /\ v.pid \in 0..Len(v.pool.image)
        /\ Len(w.pool.image) <= Len(v.pool.image) /\ Len(p.image) <= Len(w.pool.image)
        /\ p.faults \subseteq v.pool.faults
        /\ v.pool.taken \subseteq w.pool.taken \cup {v.pid}
        /\ w.pool.taken \subseteq p.taken \cup {w.pid}
        /\ w.pid # 0 => v.pid = w.pid
        /\ prev # 0 => w.pid = prev
        /\ Sound(w.pool)
    BY <1>1 DEF Safely
  <2>2. v.pool.taken \subseteq p.taken \cup {v.pid}
    <3>1. 0 \notin v.pool.taken
      BY <2>1, PoolFacts DEF Sound
    <3> QED BY <2>1, <3>1
  <2>3. Len(p.image) <= Len(v.pool.image)
    <3>1. Len(w.pool.image) \in Nat /\ Len(v.pool.image) \in Nat
      BY <2>1, PoolFacts
    <3> QED BY <2>1, <3>1
  <2> QED BY <2>1, <2>2, <2>3 DEF Safely
<1>3. ASSUME ~Denied(v.pool), prev \in p.taken \cup {0}, below = On(p, prev)
      PROVE  Exactly(p, prev, v, result)
  <2>1. ~Denied(w.pool)
    BY <1>1, <1>3 DEF Safely, Denied
  <2>2. Exactly(p, prev, w, picture)
    BY <1>3, <2>1 DEF Did
  <2>3. w.pid \in w.pool.taken \cup {0} /\ picture = On(w.pool, w.pid)
    BY <2>2 DEF Exactly
  <2>4. Exactly(w.pool, w.pid, v, result)
    BY <1>3, <2>3 DEF Did
  <2>5. w.pid # 0 => v.pid = w.pid
    BY <1>1 DEF Safely
  <2>6. prev # 0 => w.pid = prev
    BY <1>1 DEF Safely
  <2>7. v.pool.taken = p.taken \cup ({v.pid} \ {0})
    BY <2>2, <2>4, <2>5 DEF Exactly
  <2>8. prev = 0 => v.pid \notin p.taken
    BY <2>2, <2>4, <2>5 DEF Exactly
  <2>9. \A i \in p.taken : i # prev => v.pool.image[i] = p.image[i]
    <3>1. \A i \in p.taken : i # prev => i \in w.pool.taken /\ i # w.pid
      BY <2>2, <2>6 DEF Exactly
    <3> QED BY <2>2, <2>4, <3>1 DEF Exactly
  <2> QED BY <2>2, <2>4, <2>7, <2>8, <2>9 DEF Exactly
<1> QED BY <1>1, <1>2, <1>3 DEF Did

(* A palette of its own, cleared.                                          *)
LEMMA AcquireDid ==
  ASSUME NEW p, Sound(p)
  PROVE  LET w == AcquireCleared(p)
         IN Did(p, 0, None, w, <<>>) /\ (w.pid = 0 => Denied(w.pool))
<1> DEFINE w == AcquireCleared(p)
<1>1. Acquired(p, w) /\ (w.pid # 0 => w.pool.image[w.pid] = <<>>)
  BY AcquireClearedFacts
<1> HIDE DEF w
<1>2. w.pid = 0 => Denied(w.pool)
  BY <1>1 DEF Acquired, Denied
<1>3. Safely(p, 0, w)
  BY <1>1 DEF Acquired, Safely
<1>4. w.pid # 0 => Exactly(p, 0, w, <<>>)
  BY <1>1 DEF Acquired, Exactly, On
<1>5. <<>> \in Picture
  BY LayersFacts DEF Picture
<1>6. Did(p, 0, None, w, <<>>)
  BY <1>2, <1>3, <1>4, <1>5 DEF Did
<1> QED BY <1>2, <1>6 DEF w

(* Painting on the palette at hand.                                        *)
LEMMA InkDid ==
  ASSUME NEW p, Sound(p), NEW pid \in 1..Len(p.image), NEW a, NEW camera \in Camera,
         NEW below \in Picture
  PROVE  Did(p, pid, below, Walk(pid, RenderAtomic(a, camera, p, pid)),
             Ink(a, camera, Solid(below)))
<1> DEFINE t == Touch(p, pid)
           image == Ink(a, camera, p.image[pid])
           q == Painted(t, pid, image)
           w == Walk(pid, q)
<1>1. RenderAtomic(a, camera, p, pid) = q
  BY DEF RenderAtomic
<1>2. /\ Sound(t) /\ t.taken = p.taken /\ t.image = p.image
      /\ p.faults \subseteq t.faults /\ (pid \in p.taken => t = p)
  BY TouchFacts
<1> HIDE DEF t
<1>3. p.image[pid] \in Image /\ image \in Image
  BY PoolFacts, InkType
<1>7. image = Ink(a, camera, p.image[pid])
  OBVIOUS
<1> HIDE DEF image
<1>4. /\ Sound(q) /\ q.taken = t.taken /\ q.faults = t.faults
      /\ Len(q.image) = Len(t.image)
      /\ q.image[pid] = image
      /\ \A i \in 1..Len(t.image) : i # pid => q.image[i] = t.image[i]
  BY <1>2, <1>3, PaintedFacts
<1> HIDE DEF q
<1>5. w.pid = pid /\ w.pool = q /\ w = Walk(w.pid, w.pool)
  BY DEF Walk
<1> HIDE DEF w
<1>6. Safely(p, pid, w)
  <2>1. pid \in 0..Len(q.image) /\ Len(p.image) <= Len(q.image)
    BY <1>2, <1>4, PoolFacts
  <2> QED BY <1>2, <1>4, <1>5, <2>1 DEF Safely
<1>8. Ink(a, camera, Solid(below)) \in Picture
  BY SolidType, InkType DEF Picture
<1>9. ASSUME pid \in p.taken, below = On(p, pid)
      PROVE  Exactly(p, pid, w, Ink(a, camera, Solid(below)))
  <2>1. pid # 0 /\ below = p.image[pid]
    BY <1>9 DEF On
  <2>2. Solid(below) = p.image[pid]
    BY <1>3, <2>1, NoneAssumption DEF Solid
  <2>3. p.taken \subseteq 1..Len(p.image)
    BY DEF Sound
  <2>4. On(q, pid) = Ink(a, camera, Solid(below))
    BY <1>4, <1>7, <2>1, <2>2 DEF On
  <2>5. \A i \in p.taken : i # pid => q.image[i] = p.image[i]
    BY <1>2, <1>4, <2>3
  <2>6. q.taken = p.taken \cup ({pid} \ {0}) /\ q.faults = p.faults
    BY <1>2, <1>4, <1>9, <2>1
  <2> QED BY <1>5, <2>1, <2>4, <2>5, <2>6 DEF Exactly
<1>10. pid # 0
  OBVIOUS
<1> QED BY <1>1, <1>6, <1>8, <1>9, <1>10 DEF Did, w

LEMMA DrawAtomicDid ==
  ASSUME NEW p, Sound(p), NEW prev \in 0..Len(p.image), NEW a, NEW camera \in Camera,
         NEW below \in Picture
  PROVE  Did(p, prev, below, DrawAtomic(a, prev, camera, p), Ink(a, camera, Solid(below)))
<1> DEFINE ink == Ink(a, camera, Solid(below))
<1>0. ink \in Picture
  BY SolidType, InkType DEF Picture
<1>1. CASE prev = 0
  <2> DEFINE w == AcquireCleared(p)
             v == DrawAtomic(a, prev, camera, p)
  <2>1. Did(p, 0, None, w, <<>>) /\ (w.pid = 0 => Denied(w.pool))
    BY AcquireDid
  <2>2. v = IF w.pid = 0 THEN w ELSE Walk(w.pid, RenderAtomic(a, camera, w.pool, w.pid))
    BY <1>1 DEF DrawAtomic
  <2> HIDE DEF w, v
  <2>3. Did(p, 0, below, v, ink)
    <3>1. CASE w.pid = 0
      <4>1. v = w /\ Denied(w.pool)
        BY <2>1, <2>2, <3>1
      <4> QED BY <1>0, <2>1, <4>1 DEF Did
    <3>2. CASE w.pid # 0
      <4>1. Sound(w.pool) /\ w.pid \in 0..Len(w.pool.image)
        BY <2>1 DEF Did, Safely
      <4>2. w.pid \in 1..Len(w.pool.image)
        BY <3>2, <4>1, PoolFacts
      <4>3. <<>> \in Picture /\ Solid(<<>>) = <<>> /\ Solid(None) = <<>>
        BY LayersFacts, NoneAssumption DEF Solid, Picture
      <4>4. Did(w.pool, w.pid, <<>>, v, Ink(a, camera, Solid(<<>>)))
        BY <2>2, <3>2, <4>1, <4>2, <4>3, InkDid
      <4>5. Did(p, 0, None, v, Ink(a, camera, Solid(<<>>)))
        BY <2>1, <4>4, ThenDid
      <4>6. Did(p, 0, None, v, Ink(a, camera, <<>>))
        BY <4>3, <4>5
      <4>7. ASSUME ~Denied(v.pool) PROVE Exactly(p, 0, v, Ink(a, camera, <<>>))
        BY <4>6, <4>7 DEF Did, On
      <4> QED
        <5>1. CASE below = None
          BY <4>3, <4>6, <5>1
        <5>2. CASE below # None
          <6>1. below # On(p, 0)
            BY <5>2 DEF On
          <6> HIDE DEF ink
          <6> QED BY <1>0, <4>6, <6>1 DEF Did
        <5> QED BY <5>1, <5>2
    <3> QED BY <3>1, <3>2
  <2> QED BY <1>1, <2>3 DEF v
<1>2. CASE prev # 0
  <2>1. prev \in 1..Len(p.image)
    BY <1>2, PoolFacts
  <2>2. Walk(prev, p).pid = prev /\ Walk(prev, p).pool = p
    BY DEF Walk
  <2>3. DrawAtomic(a, prev, camera, p) = Walk(prev, RenderAtomic(a, camera, p, prev))
    BY <1>2, <2>2 DEF DrawAtomic
  <2> QED BY <2>1, <2>3, InkDid
<1> QED BY <1>1, <1>2

(* Composing what was painted on a palette of its own.                     *)
LEMMA SimpleComposeDid ==
  ASSUME NEW p, Sound(p), NEW old \in 0..Len(p.image), NEW below \in Picture,
         NEW sub, NEW above, Did(p, 0, None, sub, above)
  PROVE  Did(p, old, below, SimpleCompose(old, sub.pid, sub.pool), Over(below, above))
<1> DEFINE new == sub.pid
           q == sub.pool
           v == SimpleCompose(old, new, q)
<1>1. /\ Sound(q) /\ new \in 0..Len(q.image) /\ Len(p.image) <= Len(q.image)
      /\ p.faults \subseteq q.faults /\ q.taken \subseteq p.taken \cup {new}
      /\ sub = Walk(new, q)
      /\ above \in Picture
      /\ ~Denied(q) => Exactly(p, 0, sub, above)
  BY DEF Did, Safely, On
<1>2. Over(below, above) \in Picture
  BY <1>1, OverType
<1>9. p.taken \subseteq 1..Len(p.image) /\ q.taken \subseteq 1..Len(q.image)
  BY <1>1 DEF Sound
<1>3. CASE old = 0
  <2>1. v = sub
    BY <1>1, <1>3 DEF SimpleCompose
  <2>2. Safely(p, old, v)
    BY <1>3, <2>1 DEF Did
  <2>3. ASSUME ~Denied(v.pool), below = On(p, old)
        PROVE  Exactly(p, old, v, Over(below, above))
    <3>1. Over(below, above) = above
      BY <1>3, <2>3 DEF On, Over
    <3> QED BY <1>1, <1>3, <2>1, <2>3, <3>1
  <2> QED BY <1>2, <2>2, <2>3 DEF Did
<1>4. CASE old # 0 /\ (new = 0 \/ new = old)
  <2>1. v = Walk(old, q)
    BY <1>4 DEF SimpleCompose
  <2>2. v.pid = old /\ v.pool = q
    BY <2>1 DEF Walk
  <2>3. old \in 0..Len(q.image)
    BY <1>1, PoolFacts
  <2>4. q.taken \subseteq p.taken \cup {old}
    BY <1>1, <1>4, <1>9
  <2>5. Safely(p, old, v)
    BY <1>1, <2>1, <2>2, <2>3, <2>4 DEF Safely
  <2>6. ASSUME ~Denied(v.pool), old \in p.taken \cup {0}, below = On(p, old)
        PROVE  Exactly(p, old, v, Over(below, above))
    <3>1. Exactly(p, 0, sub, above)
      BY <1>1, <2>2, <2>6
    <3>2. new = 0 /\ above = None
      BY <1>4, <2>6, <3>1 DEF Exactly, On
    <3>3. p.image[old] \in Image
      BY <1>4, PoolFacts
    <3>4. below = p.image[old] /\ below # None
      BY <1>4, <2>6, <3>3, NoneAssumption DEF On
    <3>5. Over(below, above) = p.image[old]
      BY <3>2, <3>4 DEF Over
    <3>6. q.image[old] = p.image[old]
      BY <1>4, <2>6, <3>1 DEF Exactly
    <3>7. q.taken = p.taken \cup ({old} \ {0})
      BY <1>4, <2>6, <3>1, <3>2 DEF Exactly
    <3>8. \A i \in p.taken : i # old => q.image[i] = p.image[i]
      BY <1>9, <3>1 DEF Exactly
    <3> QED BY <1>4, <2>2, <3>1, <3>5, <3>6, <3>7, <3>8 DEF Exactly, On
  <2> QED BY <1>2, <2>5, <2>6 DEF Did
<1>5. CASE old # 0 /\ new # 0 /\ new # old
  <2> DEFINE t == Touch(q, old)
             u == Touch(t, new)
             image == q.image[old] \o q.image[new]
             x == Painted(u, old, image)
             y == Release(x, new)
  <2>1. v = Walk(old, y)
    BY <1>5 DEF SimpleCompose
  <2>2. v.pid = old /\ v.pool = y
    BY <2>1 DEF Walk
  <2>3. /\ Sound(t) /\ t.taken = q.taken /\ t.image = q.image
        /\ q.faults \subseteq t.faults /\ (old \in q.taken => t = q)
    BY <1>1, TouchFacts
  <2> HIDE DEF t
  <2>4. /\ Sound(u) /\ u.taken = t.taken /\ u.image = t.image
        /\ t.faults \subseteq u.faults /\ (new \in t.taken => u = t)
    BY <2>3, TouchFacts
  <2> HIDE DEF u
  <2>5. old \in 1..Len(q.image) /\ new \in 1..Len(q.image)
    BY <1>1, <1>5, PoolFacts
  <2>6. image \in Image
    BY <1>1, <2>5, PoolFacts, JoinType
  <2>7. image = q.image[old] \o q.image[new]
    OBVIOUS
  <2> HIDE DEF image
  <2>8. /\ Sound(x) /\ x.taken = u.taken /\ x.faults = u.faults
        /\ Len(x.image) = Len(u.image)
        /\ x.image[old] = image
        /\ \A i \in 1..Len(u.image) : i # old => x.image[i] = u.image[i]
    BY <2>3, <2>4, <2>5, <2>6, PaintedFacts
  <2> HIDE DEF x
  <2>9. Sound(y) /\ y.taken = x.taken \ {new} /\ y.image = x.image /\ y.faults = x.faults
    BY <2>8, ReleaseFacts
  <2> HIDE DEF y
  <2>10. Safely(p, old, v)
    <3>1. old \in 0..Len(y.image) /\ Len(p.image) <= Len(y.image)
      BY <1>1, <2>3, <2>4, <2>8, <2>9, PoolFacts
    <3>2. p.faults \subseteq y.faults
      BY <1>1, <2>3, <2>4, <2>8, <2>9
    <3>3. y.taken \subseteq p.taken \cup {old}
      BY <1>1, <2>3, <2>4, <2>8, <2>9
    <3> QED BY <2>1, <2>2, <2>9, <3>1, <3>2, <3>3 DEF Safely
  <2>11. ASSUME ~Denied(v.pool), old \in p.taken \cup {0}, below = On(p, old)
         PROVE  Exactly(p, old, v, Over(below, above))
    <3>1. ~Denied(q)
      BY <2>2, <2>3, <2>4, <2>8, <2>9, <2>11 DEF Denied
    <3>2. Exactly(p, 0, sub, above)
      BY <1>1, <3>1
    <3>3. /\ q.taken = p.taken \cup {new} /\ new \notin p.taken /\ q.faults = p.faults
          /\ \A i \in p.taken : q.image[i] = p.image[i]
          /\ above = q.image[new]
      BY <1>5, <1>9, <3>2 DEF Exactly, On
    <3>4. old \in p.taken /\ below = p.image[old]
      BY <1>5, <2>11 DEF On
    <3>5. u = q
      BY <2>3, <2>4, <3>3, <3>4
    <3>6. p.image[old] \in Image /\ q.image[new] \in Image
      BY <1>1, <1>5, <2>5, PoolFacts
    <3>7. Over(below, above) = image
      BY <2>7, <3>3, <3>4, <3>6, NoneAssumption DEF Over
    <3>8. y.taken = p.taken \cup ({old} \ {0})
      BY <1>5, <2>8, <2>9, <3>3, <3>4, <3>5
    <3>9. \A i \in p.taken : i # old => y.image[i] = p.image[i]
      <4>1. \A i \in p.taken : i \in 1..Len(q.image)
        BY <1>9, <3>3
      <4> QED BY <2>8, <2>9, <3>3, <3>5, <4>1
    <3>10. y.faults = p.faults /\ On(y, old) = image
      BY <1>5, <2>8, <2>9, <3>3, <3>5 DEF On
    <3> QED BY <1>5, <2>2, <3>7, <3>8, <3>9, <3>10 DEF Exactly
  <2> QED BY <1>2, <2>10, <2>11 DEF Did
<1> QED BY <1>3, <1>4, <1>5

(* An effect: the picture moves to another palette.                        *)
LEMMA EffectDid ==
  ASSUME NEW p, Sound(p), NEW below, NEW w, NEW picture, NEW e,
         Did(p, 0, below, w, picture)
  PROVE  Did(p, 0, below, EffectStep(e, w),
             IF picture = None THEN None ELSE Effected(e, picture))
<1> DEFINE result == IF picture = None THEN None ELSE Effected(e, picture)
           v == EffectStep(e, w)
           q == w.pool
<1>1. /\ Sound(q) /\ w.pid \in 0..Len(q.image) /\ Len(p.image) <= Len(q.image)
      /\ p.faults \subseteq q.faults /\ q.taken \subseteq p.taken \cup {w.pid}
      /\ w = Walk(w.pid, q)
      /\ picture \in Picture
  BY DEF Did, Safely
<1>2. result \in Picture
  BY <1>1, EffectedType DEF Picture
<1>3. CASE w.pid = 0
  <2>1. v = w
    BY <1>3 DEF EffectStep
  <2>2. ASSUME Exactly(p, 0, w, picture) PROVE Exactly(p, 0, w, result)
    <3>1. picture = None
      BY <1>3, <2>2 DEF Exactly, On
    <3> QED BY <2>2, <3>1
  <2> HIDE DEF v, result
  <2>3. Did(p, 0, below, v, result)
    BY <1>2, <2>1, <2>2 DEF Did
  <2> QED BY <2>3 DEF v, result
<1>4. CASE w.pid # 0
  <2> DEFINE a == AcquireCleared(q)
             t == Touch(a.pool, w.pid)
             image == Effected(e, a.pool.image[w.pid])
             z == Painted(t, a.pid, image)
             x == ApplyEffect(e, w.pid, q)
             y == Release(x.pool, w.pid)
  <2>1. v = Walk(x.pid, y)
    BY <1>4 DEF EffectStep
  <2>2. x = IF a.pid = 0 THEN Walk(w.pid, a.pool) ELSE Walk(a.pid, z)
    BY DEF ApplyEffect
  <2>3. Acquired(q, a)
    BY <1>1, AcquireClearedFacts
  <2> HIDE DEF a, x
  <2>4. v.pid = x.pid /\ v.pool = y
    BY <2>1 DEF Walk
  <2>5. /\ Sound(a.pool) /\ a.pid \in 0..Len(a.pool.image) /\ Len(q.image) <= Len(a.pool.image)
        /\ \A i \in q.taken : a.pool.image[i] = q.image[i]
    BY <2>3 DEF Acquired
  <2>0. Len(q.image) \in Nat /\ Len(a.pool.image) \in Nat /\ Len(p.image) \in Nat
    BY <1>1, <2>5, PoolFacts
  <2>6. w.pid \in 1..Len(q.image) /\ w.pid \in 1..Len(a.pool.image)
    BY <1>1, <1>4, <2>0, <2>5
  <2>7. CASE a.pid = 0
    <3>1. x.pid = w.pid /\ x.pool = a.pool
      BY <2>2, <2>7 DEF Walk
    <3>2. a.pool.taken = q.taken /\ a.pool.faults = q.faults \cup {"denied"}
      BY <2>3, <2>7 DEF Acquired
    <3>3. /\ Sound(y) /\ y.taken = a.pool.taken \ {w.pid} /\ y.image = a.pool.image
          /\ y.faults = a.pool.faults
      BY <2>5, <3>1, ReleaseFacts
    <3> HIDE DEF y, v
    <3>4. Denied(v.pool)
      BY <2>4, <3>2, <3>3 DEF Denied
    <3>5. Safely(p, 0, v)
      <4>1. w.pid \in 0..Len(y.image) /\ Len(p.image) <= Len(y.image)
        BY <1>1, <2>0, <2>5, <2>6, <3>3
      <4>2. p.faults \subseteq y.faults /\ y.taken \subseteq p.taken \cup {w.pid}
        BY <1>1, <3>2, <3>3
      <4> QED BY <2>1, <2>4, <3>1, <3>3, <4>1, <4>2 DEF Safely
    <3> QED BY <1>2, <3>4, <3>5 DEF Did, v
  <2>8. CASE a.pid # 0
    <3>1. x.pid = a.pid /\ x.pool = z
      BY <2>2, <2>8 DEF Walk
    <3>2. a.pid \notin q.taken /\ a.pool.taken = q.taken \cup {a.pid} /\ a.pool.faults = q.faults
      BY <2>3, <2>8 DEF Acquired
    <3>3. /\ Sound(t) /\ t.taken = a.pool.taken /\ t.image = a.pool.image
          /\ a.pool.faults \subseteq t.faults /\ (w.pid \in a.pool.taken => t = a.pool)
      BY <2>5, TouchFacts
    <3> HIDE DEF t
    <3>4. image \in Image
      BY <2>5, <2>6, PoolFacts, EffectedType
    <3>5. image = Effected(e, a.pool.image[w.pid])
      OBVIOUS
    <3> HIDE DEF image
    <3>6. a.pid \in 1..Len(t.image)
      BY <2>0, <2>5, <2>8, <3>3
    <3>7. /\ Sound(z) /\ z.taken = t.taken /\ z.faults = t.faults
          /\ Len(z.image) = Len(t.image)
          /\ z.image[a.pid] = image
          /\ \A i \in 1..Len(t.image) : i # a.pid => z.image[i] = t.image[i]
      BY <3>3, <3>4, <3>6, PaintedFacts
    <3> HIDE DEF z
    <3>8. Sound(y) /\ y.taken = z.taken \ {w.pid} /\ y.image = z.image /\ y.faults = z.faults
      BY <3>1, <3>7, ReleaseFacts
    <3> HIDE DEF y, v
    <3>9. Safely(p, 0, v)
      <4>1. a.pid \in 0..Len(y.image) /\ Len(p.image) <= Len(y.image)
        BY <1>1, <2>0, <2>5, <3>3, <3>7, <3>8
      <4>2. p.faults \subseteq y.faults /\ y.taken \subseteq p.taken \cup {a.pid}
        BY <1>1, <3>2, <3>3, <3>7, <3>8
      <4> QED BY <2>1, <2>4, <3>1, <3>8, <4>1, <4>2 DEF Safely
    <3>10. ASSUME ~Denied(v.pool), 0 \in p.taken \cup {0}, below = On(p, 0)
           PROVE  Exactly(p, 0, v, result)
      <4>1. ~Denied(q)
        BY <2>4, <3>2, <3>3, <3>7, <3>8, <3>10 DEF Denied
      <4>2. Exactly(p, 0, w, picture)
        BY <3>10, <4>1 DEF Did
      <4>3. /\ q.taken = p.taken \cup {w.pid} /\ w.pid \notin p.taken /\ q.faults = p.faults
            /\ \A i \in p.taken : i # 0 => q.image[i] = p.image[i]
            /\ picture = q.image[w.pid]
        BY <1>4, <4>2 DEF Exactly, On
      <4>4. t = a.pool
        BY <3>2, <3>3, <4>3
      <4>5. q.image[w.pid] \in Image
        BY <1>1, <2>6, PoolFacts
      <4>6. image = result
        <5>1. picture # None /\ a.pool.image[w.pid] = picture
          BY <2>5, <4>3, <4>5, NoneAssumption
        <5> QED BY <3>5, <5>1
      <4>7. y.taken = p.taken \cup ({a.pid} \ {0}) /\ a.pid \notin p.taken
        BY <2>8, <3>2, <3>7, <3>8, <4>3, <4>4
      <4>8. y.faults = p.faults /\ On(y, a.pid) = result
        BY <2>8, <3>2, <3>7, <3>8, <4>3, <4>4, <4>6 DEF On
      <4>9. \A i \in p.taken : i # 0 => y.image[i] = p.image[i]
        <5>1. ASSUME NEW i \in p.taken, i # 0 PROVE y.image[i] = p.image[i]
          <6>1. i \in q.taken /\ i # a.pid /\ q.image[i] = p.image[i]
            BY <3>2, <4>3, <5>1
          <6>2. i \in 1..Len(t.image)
            BY <2>5, <3>2, <3>3, <6>1 DEF Sound
          <6> QED BY <2>5, <3>3, <3>7, <3>8, <6>1, <6>2
        <5> QED BY <5>1
      <4> HIDE DEF result
      <4> QED BY <2>4, <3>1, <4>7, <4>8, <4>9 DEF Exactly
    <3> HIDE DEF result
    <3>11. Did(p, 0, below, v, result)
      BY <1>2, <3>9, <3>10 DEF Did
    <3> QED BY <3>11 DEF v, result
  <2> QED BY <2>7, <2>8
<1> QED BY <1>3, <1>4

-----------------------------------------------------------------------------
(* A composite.  Its sides are on the palettes a and b, where they drew    *)
(* something, and p is the pool before both of them.                       *)

Sided(p, q, a, b, left, right) ==
  /\ q.taken = p.taken \cup ({a, b} \ {0})
  /\ a \notin p.taken /\ b \notin p.taken /\ (a # 0 => a # b)
  /\ q.faults = p.faults
  /\ \A i \in p.taken : q.image[i] = p.image[i]
  /\ In(q, a) = left /\ In(q, b) = right

Sides(p, q, a, b, left, right) ==
  /\ Sound(q) /\ a \in 0..Len(q.image) /\ b \in 0..Len(q.image)
  /\ Len(p.image) <= Len(q.image) /\ p.faults \subseteq q.faults
  /\ q.taken \subseteq p.taken \cup {a, b}
  /\ ~Denied(q) => Sided(p, q, a, b, left, right)

LEMMA SidesDrawn ==
  ASSUME NEW p, Sound(p), NEW l, NEW left, NEW r, NEW right,
         Did(p, 0, None, l, left), Did(l.pool, 0, None, r, right)
  PROVE  /\ Sides(p, r.pool, l.pid, r.pid, Solid(left), Solid(right))
         /\ ~Denied(r.pool) => (l.pid = 0 <=> left = None) /\ (r.pid = 0 <=> right = None)
<1>1. /\ Sound(l.pool) /\ l.pid \in 0..Len(l.pool.image) /\ Len(p.image) <= Len(l.pool.image)
      /\ p.faults \subseteq l.pool.faults /\ l.pool.taken \subseteq p.taken \cup {l.pid}
      /\ ~Denied(l.pool) => Exactly(p, 0, l, left)
  BY DEF Did, Safely, On
<1>2. /\ Sound(r.pool) /\ r.pid \in 0..Len(r.pool.image)
      /\ Len(l.pool.image) <= Len(r.pool.image)
      /\ l.pool.faults \subseteq r.pool.faults /\ r.pool.taken \subseteq l.pool.taken \cup {r.pid}
      /\ ~Denied(r.pool) => Exactly(l.pool, 0, r, right)
  BY DEF Did, Safely, On
<1>3. Len(p.image) \in Nat /\ Len(l.pool.image) \in Nat /\ Len(r.pool.image) \in Nat
  BY <1>1, <1>2, PoolFacts
<1>4. /\ l.pid \in 0..Len(r.pool.image) /\ Len(p.image) <= Len(r.pool.image)
      /\ p.faults \subseteq r.pool.faults /\ r.pool.taken \subseteq p.taken \cup {l.pid, r.pid}
  <2>1. l.pid \in 0..Len(r.pool.image)
    BY <1>1, <1>2, <1>3
  <2>2. Len(p.image) <= Len(r.pool.image)
    BY <1>1, <1>2, <1>3
  <2>3. p.faults \subseteq r.pool.faults /\ r.pool.taken \subseteq p.taken \cup {l.pid, r.pid}
    BY <1>1, <1>2
  <2> QED BY <2>1, <2>2, <2>3
<1>5. ASSUME ~Denied(r.pool)
      PROVE  /\ Sided(p, r.pool, l.pid, r.pid, Solid(left), Solid(right))
             /\ (l.pid = 0 <=> left = None) /\ (r.pid = 0 <=> right = None)
  <2>1. Exactly(p, 0, l, left) /\ Exactly(l.pool, 0, r, right)
    BY <1>1, <1>2, <1>5 DEF Denied
  <2>2. 0 \notin p.taken /\ 0 \notin l.pool.taken
    BY <1>1 DEF Sound
  <2>3. /\ l.pool.taken = p.taken \cup ({l.pid} \ {0}) /\ l.pid \notin p.taken
        /\ l.pool.faults = p.faults
        /\ \A i \in p.taken : l.pool.image[i] = p.image[i]
        /\ On(l.pool, l.pid) = left
    BY <2>1, <2>2 DEF Exactly
  <2>4. /\ r.pool.taken = l.pool.taken \cup ({r.pid} \ {0}) /\ r.pid \notin l.pool.taken
        /\ r.pool.faults = l.pool.faults
        /\ \A i \in l.pool.taken : r.pool.image[i] = l.pool.image[i]
        /\ On(r.pool, r.pid) = right
    BY <2>1, <2>2 DEF Exactly
  <2>5. l.pid # 0 => l.pid \in l.pool.taken /\ r.pool.image[l.pid] = left /\ left \in Image
    <3>1. l.pid # 0 => l.pid \in l.pool.taken /\ l.pid \in 1..Len(l.pool.image)
      BY <1>1, <1>3, <2>3
    <3>2. l.pid # 0 => l.pool.image[l.pid] \in Image
      BY <1>1, <3>1, PoolFacts
    <3> QED BY <2>3, <2>4, <3>1, <3>2 DEF On
  <2>6. r.pid # 0 => r.pool.image[r.pid] = right /\ right \in Image
    <3>1. r.pid # 0 => r.pid \in 1..Len(r.pool.image)
      BY <1>2, <1>3
    <3>2. r.pid # 0 => r.pool.image[r.pid] \in Image
      BY <1>2, <3>1, PoolFacts
    <3> QED BY <2>4, <3>2 DEF On
  <2>7. (l.pid = 0 <=> left = None) /\ (r.pid = 0 <=> right = None)
    BY <2>3, <2>4, <2>5, <2>6, NoneAssumption DEF On
  <2>8. In(r.pool, l.pid) = Solid(left) /\ In(r.pool, r.pid) = Solid(right)
    BY <2>5, <2>6, <2>7 DEF In, Solid
  <2>9. \A i \in p.taken : r.pool.image[i] = p.image[i]
    BY <2>3, <2>4
  <2>10. r.pool.taken = p.taken \cup ({l.pid, r.pid} \ {0})
    BY <2>3, <2>4
  <2>11. r.pid \notin p.taken /\ (l.pid # 0 => l.pid # r.pid) /\ r.pool.faults = p.faults
    BY <2>3, <2>4
  <2> QED BY <2>3, <2>7, <2>8, <2>9, <2>10, <2>11 DEF Sided
<1> QED BY <1>2, <1>4, <1>5 DEF Sides

(* Sides are alike.                                                        *)
LEMMA SidesSwap ==
  ASSUME NEW p, NEW q, NEW a, NEW b, NEW left, NEW right, Sides(p, q, a, b, left, right)
  PROVE  Sides(p, q, b, a, right, left)
<1>1. {a, b} = {b, a}
  OBVIOUS
<1>2. Sided(p, q, a, b, left, right) => Sided(p, q, b, a, right, left)
  BY <1>1 DEF Sided
<1> QED BY <1>1, <1>2 DEF Sides

(* A side that drew nothing gets a transparent palette.                    *)
LEMMA SideDid ==
  ASSUME NEW p, Sound(p), NEW q, NEW a, NEW b, NEW left, NEW right,
         Sides(p, q, a, b, left, right)
  PROVE  LET w == Side(a, q)
         IN /\ Sides(p, w.pool, w.pid, b, left, right)
            /\ q.faults \subseteq w.pool.faults
            /\ ~Denied(w.pool) => w.pid # 0
<1>1. CASE a = 0
  <2> DEFINE w == AcquireCleared(q)
  <2>1. Side(a, q) = w
    BY <1>1 DEF Side
  <2>2. Acquired(q, w) /\ (w.pid # 0 => w.pool.image[w.pid] = <<>>)
    BY AcquireClearedFacts DEF Sides
  <2> HIDE DEF w
  <2>3. /\ Sound(w.pool) /\ w.pid \in 0..Len(w.pool.image) /\ Len(q.image) <= Len(w.pool.image)
        /\ \A i \in q.taken : w.pool.image[i] = q.image[i]
    BY <2>2 DEF Acquired
  <2>4. Len(p.image) \in Nat /\ Len(q.image) \in Nat /\ Len(w.pool.image) \in Nat
    BY <2>3, PoolFacts DEF Sides
  <2>5. b \in 0..Len(w.pool.image) /\ Len(p.image) <= Len(w.pool.image)
    BY <2>3, <2>4 DEF Sides
  <2>6. 0 \notin q.taken /\ q.taken \subseteq p.taken \cup {b}
    BY <1>1, PoolFacts DEF Sides, Sound
  <2>7. CASE w.pid = 0
    <3>1. w.pool.taken = q.taken /\ w.pool.faults = q.faults \cup {"denied"}
      BY <2>2, <2>7 DEF Acquired
    <3>2. Denied(w.pool)
      BY <3>1 DEF Denied
    <3>3. p.faults \subseteq w.pool.faults /\ w.pool.taken \subseteq p.taken \cup {w.pid, b}
      BY <2>6, <3>1 DEF Sides
    <3>4. Sides(p, w.pool, w.pid, b, left, right)
      BY <2>3, <2>5, <3>2, <3>3 DEF Sides
    <3> QED BY <2>1, <3>1, <3>2, <3>4
  <2>8. CASE w.pid # 0
    <3>1. /\ w.pid \notin q.taken /\ w.pool.taken = q.taken \cup {w.pid}
          /\ w.pool.faults = q.faults
      BY <2>2, <2>8 DEF Acquired
    <3>2. p.faults \subseteq w.pool.faults /\ w.pool.taken \subseteq p.taken \cup {w.pid, b}
      BY <2>6, <3>1 DEF Sides
    <3>3. ASSUME ~Denied(w.pool) PROVE Sided(p, w.pool, w.pid, b, left, right)
      <4>1. Sided(p, q, a, b, left, right)
        BY <3>1, <3>3 DEF Denied, Sides
      <4>2. /\ q.taken = p.taken \cup ({b} \ {0}) /\ b \notin p.taken
            /\ q.faults = p.faults /\ left = <<>> /\ In(q, b) = right
            /\ \A i \in p.taken : q.image[i] = p.image[i]
        BY <1>1, <4>1 DEF Sided, In
      <4>3. w.pid # b
        BY <2>8, <3>1, <4>2
      <4>4. In(w.pool, w.pid) = left /\ In(w.pool, b) = right
        BY <2>2, <2>3, <2>8, <4>2 DEF In
      <4>5. \A i \in p.taken : w.pool.image[i] = p.image[i]
        BY <2>3, <4>2
      <4>6. w.pool.taken = p.taken \cup ({w.pid, b} \ {0}) /\ w.pid \notin p.taken
        BY <2>8, <3>1, <4>2
      <4> QED BY <3>1, <4>2, <4>3, <4>4, <4>5, <4>6 DEF Sided
    <3>4. Sides(p, w.pool, w.pid, b, left, right)
      BY <2>3, <2>5, <3>2, <3>3 DEF Sides
    <3> QED BY <2>1, <2>8, <3>1, <3>4
  <2> QED BY <2>7, <2>8
<1>2. CASE a # 0
  <2>1. Side(a, q) = Walk(a, q)
    BY <1>2 DEF Side
  <2>2. Side(a, q).pid = a /\ Side(a, q).pool = q
    BY <2>1 DEF Walk
  <2> QED BY <1>2, <2>2
<1> QED BY <1>1, <1>2

LEMMA ReadFacts ==
  ASSUME NEW p, Sound(p), NEW pid
  PROVE  LET q == Read(p, pid)
         IN /\ Sound(q) /\ q.taken = p.taken /\ q.image = p.image
            /\ p.faults \subseteq q.faults /\ (Denied(q) => Denied(p))
            /\ pid \in p.taken \cup {0} => q = p
<1>1. CASE pid = 0
  BY <1>1 DEF Read
<1>2. CASE pid # 0
  BY <1>2, TouchFacts DEF Read
<1> QED BY <1>1, <1>2

LEMMA ComposeDid ==
  ASSUME NEW p, Sound(p), NEW l, NEW left, NEW r, NEW right, NEW c,
         Did(p, 0, None, l, left), Did(l.pool, 0, None, r, right)
  PROVE  Did(p, 0, None, Compose(c, l.pid, r.pid, r.pool),
             IF left = None /\ right = None THEN None
             ELSE Composed(c, Solid(left), Solid(right)))
<1> DEFINE result == IF left = None /\ right = None THEN None
                     ELSE Composed(c, Solid(left), Solid(right))
           v == Compose(c, l.pid, r.pid, r.pool)
<1>1. /\ Sides(p, r.pool, l.pid, r.pid, Solid(left), Solid(right))
      /\ ~Denied(r.pool) => (l.pid = 0 <=> left = None) /\ (r.pid = 0 <=> right = None)
  BY SidesDrawn
<1>2. Solid(left) \in Image /\ Solid(right) \in Image /\ result \in Picture
  <2>1. left \in Picture /\ right \in Picture
    BY DEF Did
  <2>2. Solid(left) \in Image /\ Solid(right) \in Image
    BY <2>1, SolidType
  <2> QED BY <2>2, ComposedType DEF Picture
<1>3. CASE l.pid = 0 /\ r.pid = 0
  <2>1. v = Walk(0, r.pool)
    BY <1>3 DEF Compose
  <2>2. v.pid = 0 /\ v.pool = r.pool
    BY <2>1 DEF Walk
  <2> HIDE DEF v
  <2>3. Safely(p, 0, v)
    BY <1>1, <1>3, <2>1, <2>2 DEF Sides, Safely
  <2>4. ASSUME ~Denied(v.pool) PROVE Exactly(p, 0, v, result)
    <3>1. result = None /\ Sided(p, r.pool, 0, 0, Solid(left), Solid(right))
      BY <1>1, <1>3, <2>2, <2>4 DEF Sides
    <3> HIDE DEF result
    <3>2. r.pool.taken = p.taken \cup ({0} \ {0}) /\ 0 \notin p.taken
      BY <3>1, PoolFacts DEF Sided, Sound
    <3> QED BY <2>2, <3>1, <3>2 DEF Sided, Exactly, On
  <2> HIDE DEF result
  <2>5. Did(p, 0, None, v, result)
    BY <1>2, <2>3, <2>4 DEF Did
  <2> QED BY <2>5 DEF v, result
<1>4. CASE ~(l.pid = 0 /\ r.pid = 0)
  <2> DEFINE w1 == Side(l.pid, r.pool)
             w2 == Side(r.pid, w1.pool)
             a == w1.pid
             b == w2.pid
             w == AcquireCleared(w2.pool)
             q1 == Read(w.pool, a)
             q == Read(q1, b)
             image == Composed(c, In(q, a), In(q, b))
             z == Painted(q, w.pid, image)
             Drop(x) == Release(Release(x, a), b)
  <2>1. v = IF w.pid = 0 THEN Walk(0, Drop(w.pool)) ELSE Walk(w.pid, Drop(z))
    BY <1>4 DEF Compose
  <2>2. /\ Sides(p, w1.pool, a, r.pid, Solid(left), Solid(right))
        /\ ~Denied(w1.pool) => a # 0
        /\ r.pool.faults \subseteq w1.pool.faults
    BY <1>1, SideDid
  <2> HIDE DEF w1
  <2>3. Sides(p, w1.pool, r.pid, a, Solid(right), Solid(left))
    BY <2>2, SidesSwap
  <2>4. /\ Sides(p, w2.pool, b, a, Solid(right), Solid(left))
        /\ w1.pool.faults \subseteq w2.pool.faults
        /\ ~Denied(w2.pool) => b # 0
    BY <2>3, SideDid
  <2> HIDE DEF w2, a, b
  <2>5. Sides(p, w2.pool, a, b, Solid(left), Solid(right))
    BY <2>4, SidesSwap
  <2>6. ~Denied(w2.pool) => a # 0 /\ b # 0 /\ ~Denied(r.pool)
    BY <2>2, <2>4 DEF Denied
  <2>7. Acquired(w2.pool, w)
    BY <2>4, AcquireClearedFacts DEF Sides
  <2> HIDE DEF w, v
  <2>8. /\ Sound(w.pool) /\ w.pid \in 0..Len(w.pool.image)
        /\ Len(w2.pool.image) <= Len(w.pool.image)
        /\ \A i \in w2.pool.taken : w.pool.image[i] = w2.pool.image[i]
    BY <2>7 DEF Acquired
  <2>9. Len(p.image) \in Nat /\ Len(w2.pool.image) \in Nat /\ Len(w.pool.image) \in Nat
    BY <2>4, <2>8, PoolFacts DEF Sides
  <2>10. Len(p.image) <= Len(w.pool.image)
    <3>1. Len(p.image) <= Len(w2.pool.image)
      BY <2>5 DEF Sides
    <3> QED BY <2>8, <2>9, <3>1
  <2>11. ASSUME NEW x, Sound(x)
         PROVE  /\ Sound(Drop(x)) /\ Drop(x).taken = x.taken \ {a, b} /\ Drop(x).image = x.image
                /\ Drop(x).faults = x.faults
    <3>1. /\ Sound(Release(x, a)) /\ Release(x, a).taken = x.taken \ {a}
          /\ Release(x, a).image = x.image /\ Release(x, a).faults = x.faults
      BY <2>11, ReleaseFacts
    <3>2. /\ Sound(Drop(x)) /\ Drop(x).taken = Release(x, a).taken \ {b}
          /\ Drop(x).image = Release(x, a).image /\ Drop(x).faults = Release(x, a).faults
      BY <3>1, ReleaseFacts
    <3> HIDE DEF Drop
    <3> QED BY <3>1, <3>2
  <2> HIDE DEF Drop
  <2>12. CASE w.pid = 0
    <3>1. v.pid = 0 /\ v.pool = Drop(w.pool) /\ v = Walk(v.pid, v.pool)
      BY <2>1, <2>12 DEF Walk
    <3>2. w.pool.taken = w2.pool.taken /\ w.pool.faults = w2.pool.faults \cup {"denied"}
      BY <2>7, <2>12 DEF Acquired
    <3>3. /\ Sound(v.pool) /\ v.pool.taken = w.pool.taken \ {a, b} /\ v.pool.image = w.pool.image
          /\ v.pool.faults = w.pool.faults
      BY <2>8, <2>11, <3>1
    <3>4. Denied(v.pool)
      BY <3>2, <3>3 DEF Denied
    <3>5. v.pool.taken \subseteq p.taken \cup {v.pid} /\ p.faults \subseteq v.pool.faults
      BY <2>5, <3>2, <3>3 DEF Sides
    <3>6. Safely(p, 0, v)
      BY <2>8, <2>10, <2>12, <3>1, <3>3, <3>5 DEF Safely
    <3> HIDE DEF result
    <3>7. Did(p, 0, None, v, result)
      BY <1>2, <3>4, <3>6 DEF Did
    <3> QED BY <3>7 DEF v, result
  <2>13. CASE w.pid # 0
    <3>1. v.pid = w.pid /\ v.pool = Drop(z) /\ v = Walk(v.pid, v.pool)
      BY <2>1, <2>13 DEF Walk
    <3>2. /\ w.pid \notin w2.pool.taken /\ w.pool.taken = w2.pool.taken \cup {w.pid}
          /\ w.pool.faults = w2.pool.faults
      BY <2>7, <2>13 DEF Acquired
    <3>3. /\ Sound(q1) /\ q1.taken = w.pool.taken /\ q1.image = w.pool.image
          /\ w.pool.faults \subseteq q1.faults /\ (a \in w.pool.taken \cup {0} => q1 = w.pool)
      BY <2>8, ReadFacts
    <3> HIDE DEF q1
    <3>4. /\ Sound(q) /\ q.taken = q1.taken /\ q.image = q1.image
          /\ q1.faults \subseteq q.faults /\ (b \in q1.taken \cup {0} => q = q1)
      BY <3>3, ReadFacts
    <3> HIDE DEF q
    <3>5. image \in Image
      <4>1. \A i \in 0..Len(q.image) : In(q, i) \in Image
        <5>1. ASSUME NEW i \in 0..Len(q.image), i # 0 PROVE q.image[i] \in Image
          <6>1. i \in 1..Len(q.image)
            BY <3>4, <5>1, PoolFacts
          <6> QED BY <3>4, <6>1, PoolFacts
        <5> QED BY <5>1, LayersFacts DEF In
      <4>2. a \in 0..Len(q.image) /\ b \in 0..Len(q.image)
        <5>1. a \in 0..Len(w2.pool.image) /\ b \in 0..Len(w2.pool.image)
          BY <2>5 DEF Sides
        <5> QED BY <2>8, <2>9, <3>3, <3>4, <5>1
      <4> QED BY <4>1, <4>2, ComposedType
    <3>6. image = Composed(c, In(q, a), In(q, b))
      OBVIOUS
    <3> HIDE DEF image
    <3>7. w.pid \in 1..Len(q.image)
      BY <2>8, <2>9, <2>13, <3>3, <3>4
    <3>8. /\ Sound(z) /\ z.taken = q.taken /\ z.faults = q.faults
          /\ Len(z.image) = Len(q.image)
          /\ z.image[w.pid] = image
          /\ \A i \in 1..Len(q.image) : i # w.pid => z.image[i] = q.image[i]
      BY <3>4, <3>5, <3>7, PaintedFacts
    <3> HIDE DEF z
    <3>9. /\ Sound(v.pool) /\ v.pool.taken = z.taken \ {a, b} /\ v.pool.image = z.image
          /\ v.pool.faults = z.faults
      BY <2>11, <3>1, <3>8
    <3>10. Safely(p, 0, v)
      <4>1. v.pool.taken \subseteq p.taken \cup {v.pid} /\ p.faults \subseteq v.pool.faults
        BY <2>5, <3>1, <3>2, <3>3, <3>4, <3>8, <3>9 DEF Sides
      <4>2. v.pid \in 0..Len(v.pool.image) /\ Len(p.image) <= Len(v.pool.image)
        BY <2>8, <2>10, <3>1, <3>3, <3>4, <3>8, <3>9
      <4> QED BY <3>1, <3>9, <4>1, <4>2 DEF Safely
    <3>11. ASSUME ~Denied(v.pool) PROVE Exactly(p, 0, v, result)
      <4>1. ~Denied(w2.pool)
        BY <3>2, <3>3, <3>4, <3>8, <3>9, <3>11 DEF Denied
      <4>2. Sided(p, w2.pool, a, b, Solid(left), Solid(right)) /\ a # 0 /\ b # 0
        BY <2>5, <2>6, <4>1 DEF Sides
      <4>3. /\ w2.pool.taken = p.taken \cup {a, b} /\ a \notin p.taken /\ b \notin p.taken
            /\ w2.pool.faults = p.faults
            /\ \A i \in p.taken : w2.pool.image[i] = p.image[i]
            /\ w2.pool.image[a] = Solid(left) /\ w2.pool.image[b] = Solid(right)
        BY <4>2 DEF Sided, In
      <4>4. q = w.pool
        BY <3>2, <3>3, <3>4, <4>3
      <4>5. image = Composed(c, Solid(left), Solid(right))
        BY <2>8, <3>6, <4>2, <4>3, <4>4 DEF In
      <4>6. result = Composed(c, Solid(left), Solid(right))
        BY <1>1, <1>4, <2>6, <4>1
      <4> HIDE DEF result
      <4>7. v.pool.taken = p.taken \cup ({v.pid} \ {0}) /\ v.pid \notin p.taken
        BY <2>13, <3>1, <3>2, <3>8, <3>9, <4>3, <4>4
      <4>8. \A i \in p.taken : v.pool.image[i] = p.image[i]
        <5>1. ASSUME NEW i \in p.taken PROVE v.pool.image[i] = p.image[i]
          <6>1. i \in w2.pool.taken /\ i # w.pid
            BY <3>2, <4>3
          <6>2. i \in 1..Len(q.image)
            BY <2>8, <3>2, <4>4, <6>1 DEF Sound
          <6> QED BY <2>8, <3>8, <3>9, <4>3, <4>4, <6>1, <6>2
        <5> QED BY <5>1
      <4>9. v.pool.faults = p.faults
        BY <3>2, <3>8, <3>9, <4>3, <4>4
      <4>10. On(v.pool, v.pid) = result
        BY <2>13, <3>1, <3>8, <3>9, <4>5, <4>6 DEF On
      <4> QED BY <4>7, <4>8, <4>9, <4>10 DEF Exactly
    <3> HIDE DEF result
    <3>12. Did(p, 0, None, v, result)
      BY <1>2, <3>10, <3>11 DEF Did
    <3> QED BY <3>12 DEF v, result
  <2> QED BY <2>12, <2>13
<1> QED BY <1>3, <1>4

-----------------------------------------------------------------------------
(* The recursion: if the subtrees are drawn as they are painted, so is the *)
(* tree.                                                                   *)

\* What a call may go on with: only a group without effects inherits a palette.
MayInherit(t, prev) == prev = 0 \/ (t.kind = "group" /\ t.effects = <<>>)

DrawnAsPainted(trees, draw, paint) ==
  \A t \in trees, camera \in Camera, below \in Picture :
    /\ t.kind = "atomic" => paint[View(t, below, camera)] = Ink(t, camera, Solid(below))
    /\ \A p, prev : Sound(p) /\ prev \in 0..Len(p.image) /\ MayInherit(t, prev) =>
         Did(p, prev, below, draw[Call(t, prev, camera, p)], paint[View(t, below, camera)])

LEMMA SafelyWalks ==
  ASSUME NEW p, NEW prev, NEW w, Safely(p, prev, w)
  PROVE  w \in Walks
<1>1. /\ w = Walk(w.pid, w.pool) /\ Sound(w.pool) /\ w.pid \in 0..Len(w.pool.image)
  BY DEF Safely
<1>2. w.pool \in Pools /\ w.pid \in 0..Cap
  BY <1>1, PoolFacts DEF Sound
<1> QED BY <1>1, <1>2 DEF Walk, Walks

LEMMA ChildDid ==
  ASSUME NEW trees, NEW draw, NEW paint, DrawnAsPainted(trees, draw, paint),
         NEW c \in trees, NEW camera \in Camera,
         NEW p, NEW prev, NEW below, NEW w, NEW picture, Did(p, prev, below, w, picture)
  PROVE  Did(p, prev, below, DrawChild(draw, c, camera)[w], PaintChild(paint, c, camera)[picture])
<1> DEFINE v == DrawChild(draw, c, camera)[w]
           result == PaintChild(paint, c, camera)[picture]
           sub == draw[Call(c, Inherited(c, w.pid), camera, w.pool)]
<1>1. Safely(p, prev, w) /\ picture \in Picture /\ None \in Picture
  BY DEF Did, Picture
<1>2. w \in Walks
  BY <1>1, SafelyWalks
<1>3. Sound(w.pool) /\ w.pid \in 0..Len(w.pool.image) /\ w = Walk(w.pid, w.pool)
  BY <1>1 DEF Safely
<1>4. v = IF c.kind = "atomic" THEN DrawAtomic(c, w.pid, camera, w.pool)
          ELSE SimpleCompose(w.pid, sub.pid, sub.pool)
  BY <1>2 DEF DrawChild
<1>5. result = IF Joins(c) THEN paint[View(c, picture, camera)]
               ELSE Over(picture, paint[View(c, None, camera)])
  BY <1>1 DEF PaintChild
<1> SUFFICES Did(w.pool, w.pid, picture, v, result)
  <2> HIDE DEF v, result
  <2>1. ASSUME Did(w.pool, w.pid, picture, v, result) PROVE Did(p, prev, below, v, result)
    BY <2>1, ThenDid
  <2> QED BY <2>1 DEF v, result
<1> HIDE DEF v, result
<1>6. CASE c.kind = "atomic"
  <2>1. result = Ink(c, camera, Solid(picture))
    BY <1>1, <1>5, <1>6 DEF Joins, DrawnAsPainted
  <2>2. v = DrawAtomic(c, w.pid, camera, w.pool)
    BY <1>4, <1>6
  <2> QED BY <1>1, <1>3, <2>1, <2>2, DrawAtomicDid
<1>7. CASE c.kind = "group" /\ c.effects = <<>>
  <2>1. Inherited(c, w.pid) = w.pid /\ MayInherit(c, w.pid) /\ Joins(c) /\ c.kind # "atomic"
    BY <1>7 DEF Inherited, MayInherit, Joins
  <2>2. Did(w.pool, w.pid, picture, sub, paint[View(c, picture, camera)])
    BY <1>1, <1>3, <2>1 DEF DrawnAsPainted
  <2> HIDE DEF sub
  <2>3. sub = Walk(sub.pid, sub.pool) /\ (w.pid # 0 => sub.pid = w.pid)
    BY <2>2 DEF Did, Safely
  <2>4. SimpleCompose(w.pid, sub.pid, sub.pool) = sub
    BY <2>3 DEF SimpleCompose
  <2> QED BY <1>4, <1>5, <2>1, <2>2, <2>4
<1>8. CASE c.kind # "atomic" /\ ~(c.kind = "group" /\ c.effects = <<>>)
  <2>1. Inherited(c, w.pid) = 0 /\ MayInherit(c, 0) /\ ~Joins(c)
    BY <1>8 DEF Inherited, MayInherit, Joins
  <2>2. 0 \in 0..Len(w.pool.image)
    BY <1>3, PoolFacts
  <2>3. Did(w.pool, 0, None, sub, paint[View(c, None, camera)])
    BY <1>1, <1>3, <2>1, <2>2 DEF DrawnAsPainted
  <2> HIDE DEF sub
  <2>4. Did(w.pool, w.pid, picture, SimpleCompose(w.pid, sub.pid, sub.pool),
            Over(picture, paint[View(c, None, camera)]))
    BY <1>1, <1>3, <2>3, SimpleComposeDid
  <2> QED BY <1>4, <1>5, <1>8, <2>1, <2>4
<1> QED BY <1>6, <1>7, <1>8

LEMMA GroupDid ==
  ASSUME NEW trees, NEW draw, NEW paint, DrawnAsPainted(trees, draw, paint),
         NEW t, t.children \in Seq(trees), t.effects \in Seq(STRING),
         NEW camera \in Camera, CameraOf(t, camera) \in Camera,
         NEW p, Sound(p), NEW prev \in 0..Len(p.image), prev = 0 \/ t.effects = <<>>,
         NEW below \in Picture
  PROVE  Did(p, prev, below, DrawGroup(draw, t, prev, camera, p),
             PaintGroup(paint, t, below, camera))
<1> DEFINE cam == CameraOf(t, camera)
           dc == [i \in DOMAIN t.children |-> DrawChild(draw, t.children[i], cam)]
           pc == [i \in DOMAIN t.children |-> PaintChild(paint, t.children[i], cam)]
           de == [i \in DOMAIN t.effects |-> [w \in Walks |-> EffectStep(t.effects[i], w)]]
           pe == [i \in DOMAIN t.effects |-> PaintEffect(t.effects[i])]
           R == {x \in Walks \X Picture : Did(p, prev, below, x[1], x[2])}
           w1 == Rounds(dc, Walk(prev, p))
           p1 == Rounds(pc, below)
<1>1. /\ DrawGroup(draw, t, prev, camera, p) = Rounds(de, w1)
      /\ PaintGroup(paint, t, below, camera) = Rounds(pe, p1)
  BY DEF DrawGroup, PaintGroup
<1>2. \A w, picture : <<w, picture>> \in R <=> Did(p, prev, below, w, picture)
  <2>1. ASSUME NEW w, NEW picture, Did(p, prev, below, w, picture)
        PROVE  w \in Walks /\ picture \in Picture
    BY <2>1, SafelyWalks DEF Did
  <2> QED BY <2>1
<1> HIDE DEF R
<1>3. <<w1, p1>> \in R
  <2>1. Len(dc) = Len(t.children) /\ Len(pc) = Len(dc) /\ Len(dc) \in Nat
    BY LenProperties
  <2>2. <<Walk(prev, p), below>> \in R
    BY <1>2, NothingDid
  <2>3. ASSUME NEW i \in 1..Len(dc), NEW a, NEW b, <<a, b>> \in R
        PROVE  <<dc[i][a], pc[i][b]>> \in R
    <3>1. i \in DOMAIN t.children /\ t.children[i] \in trees
      BY <2>1, LenProperties, ElementOfSeq
    <3>2. /\ dc[i] = DrawChild(draw, t.children[i], cam)
          /\ pc[i] = PaintChild(paint, t.children[i], cam)
      BY <3>1
    <3>3. Did(p, prev, below, a, b)
      BY <1>2, <2>3
    <3> HIDE DEF dc, pc, cam
    <3>4. cam \in Camera
      BY DEF cam
    <3>5. Did(p, prev, below, DrawChild(draw, t.children[i], cam)[a],
              PaintChild(paint, t.children[i], cam)[b])
      BY <3>1, <3>3, <3>4, ChildDid
    <3> QED BY <1>2, <3>2, <3>5
  <2> HIDE DEF dc, pc
  <2> QED BY <2>1, <2>2, <2>3, RoundsTogether
<1> HIDE DEF w1, p1
<1>4. <<Rounds(de, w1), Rounds(pe, p1)>> \in R
  <2>1. Len(de) = Len(t.effects) /\ Len(pe) = Len(de) /\ Len(de) \in Nat
    BY LenProperties
  <2>2. ASSUME NEW i \in 1..Len(de), NEW a, NEW b, <<a, b>> \in R
        PROVE  <<de[i][a], pe[i][b]>> \in R
    <3>1. i \in DOMAIN t.effects /\ t.effects # <<>>
      BY <2>1, LenProperties, EmptySeq
    <3>2. prev = 0
      BY <3>1
    <3>3. Did(p, 0, below, a, b)
      BY <1>2, <2>2, <3>2
    <3>4. a \in Walks /\ b \in Picture
      BY <3>3, SafelyWalks DEF Did
    <3>5. /\ de[i][a] = EffectStep(t.effects[i], a)
          /\ pe[i][b] = IF b = None THEN None ELSE Effected(t.effects[i], b)
      BY <3>1, <3>4 DEF PaintEffect
    <3> HIDE DEF de, pe
    <3>6. Did(p, 0, below, EffectStep(t.effects[i], a),
              IF b = None THEN None ELSE Effected(t.effects[i], b))
      BY <3>3, EffectDid
    <3> QED BY <1>2, <3>2, <3>5, <3>6
  <2> HIDE DEF de, pe
  <2> QED BY <1>3, <2>1, <2>2, RoundsTogether
<1> QED BY <1>1, <1>2, <1>4

LEMMA TreeDid ==
  ASSUME NEW trees, NEW draw, NEW paint, DrawnAsPainted(trees, draw, paint),
         NEW t, WellFormed(t, trees), NEW camera \in Camera, NEW below \in Picture,
         NEW p, Sound(p), NEW prev \in 0..Len(p.image), MayInherit(t, prev)
  PROVE  Did(p, prev, below, DrawRenderable(draw, t, prev, camera, p),
             PaintTree(paint, t, below, camera))
<1>0. 0 \in 0..Len(p.image) /\ None \in Picture
  BY PoolFacts DEF Picture
<1>n. prev = 0 => Did(p, prev, below, Walk(0, p), None)
  <2>1. Did(p, 0, None, Walk(0, p), None)
    BY <1>0, NothingDid
  <2>2. Did(p, 0, below, Walk(0, p), None)
    <3>1. CASE below = None
      BY <2>1, <3>1
    <3>2. CASE below # None
      BY <2>1, <3>2 DEF Did, On
    <3> QED BY <3>1, <3>2
  <2> QED BY <2>2
<1>1. CASE t.kind = "atomic"
  <2>1. prev = 0
    BY <1>1 DEF MayInherit
  <2>2. DrawRenderable(draw, t, prev, camera, p) = DrawAtomic(t, 0, camera, p)
    BY <1>1 DEF DrawRenderable
  <2>3. PaintTree(paint, t, below, camera) = Ink(t, camera, Solid(below))
    BY <1>1 DEF PaintTree
  <2> QED BY <1>0, <2>1, <2>2, <2>3, DrawAtomicDid
<1>2. CASE t.kind = "group"
  <2>1. /\ DrawRenderable(draw, t, prev, camera, p) =
             IF t.children = <<>> THEN Walk(prev, p) ELSE DrawGroup(draw, t, prev, camera, p)
        /\ PaintTree(paint, t, below, camera) =
             IF t.children = <<>> THEN below ELSE PaintGroup(paint, t, below, camera)
    BY <1>2 DEF DrawRenderable, PaintTree
  <2>2. CASE t.children = <<>>
    BY <2>1, <2>2, NothingDid
  <2>3. CASE t.children # <<>>
    <3>1. /\ t.children \in Seq(trees) /\ t.effects \in Seq(STRING)
          /\ CameraOf(t, camera) \in Camera /\ (prev = 0 \/ t.effects = <<>>)
      BY <1>2 DEF WellFormed, CameraOf, MayInherit
    <3> QED BY <2>1, <2>3, <3>1, GroupDid
  <2> QED BY <2>2, <2>3
<1>3. CASE t.kind = "composite"
  <2>1. prev = 0
    BY <1>3 DEF MayInherit
  <2>2. /\ DrawRenderable(draw, t, prev, camera, p) =
             IF t.compositor = None THEN Walk(0, p) ELSE DrawComposite(draw, t, camera, p)
        /\ PaintTree(paint, t, below, camera) =
             IF t.compositor = None THEN None ELSE PaintComposite(paint, t, camera)
    BY <1>3 DEF DrawRenderable, PaintTree
  <2>3. CASE t.compositor = None
    BY <1>n, <2>1, <2>2, <2>3
  <2>4. CASE t.compositor # None
    <3> DEFINE l == draw[Call(t.left, 0, camera, p)]
               r == draw[Call(t.right, 0, camera, l.pool)]
               left == paint[View(t.left, None, camera)]
               right == paint[View(t.right, None, camera)]
               result == IF left = None /\ right = None THEN None
                         ELSE Composed(t.compositor, Solid(left), Solid(right))
               v == Compose(t.compositor, l.pid, r.pid, r.pool)
    <3>1. t.left \in trees /\ t.right \in trees
      BY <1>3 DEF WellFormed
    <3>2. MayInherit(t.left, 0) /\ MayInherit(t.right, 0)
      BY DEF MayInherit
    <3>3. Did(p, 0, None, l, left)
      BY <1>0, <3>1, <3>2 DEF DrawnAsPainted
    <3>4. DrawComposite(draw, t, camera, p) = v /\ PaintComposite(paint, t, camera) = result
      BY DEF DrawComposite, PaintComposite
    <3>5. Did(l.pool, 0, None, r, right)
      <4> HIDE DEF l
      <4>1. Sound(l.pool)
        BY <3>3 DEF Did, Safely
      <4>2. 0 \in 0..Len(l.pool.image)
        BY <4>1, PoolFacts
      <4> QED BY <1>0, <3>1, <3>2, <4>1, <4>2 DEF DrawnAsPainted
    <3> HIDE DEF l, r, left, right
    <3>6. Did(p, 0, None, v, result)
      BY <3>3, <3>5, ComposeDid
    <3> HIDE DEF v, result
    <3>7. Did(p, 0, below, v, result)
      <4>1. CASE below = None
        BY <3>6, <4>1
      <4>2. CASE below # None
        BY <3>6, <4>2 DEF Did, On
      <4> QED BY <4>1, <4>2
    <3> QED BY <2>1, <2>2, <2>4, <3>4, <3>7
  <2> QED BY <2>3, <2>4
<1>4. CASE t.kind = "none"
  <2>1. DrawRenderable(draw, t, prev, camera, p) = Walk(0, p) /\ prev = 0
    BY <1>4 DEF DrawRenderable, MayInherit
  <2>2. PaintTree(paint, t, below, camera) = None
    BY <1>4 DEF PaintTree
  <2> QED BY <1>n, <2>1, <2>2
<1> QED BY <1>1, <1>2, <1>3, <1>4 DEF WellFormed

LEMMA EveryLevel ==
  ASSUME NEW d \in 0..Depth
  PROVE  DrawnAsPainted(Level[d], DrawTo[d], PaintTo[d])
<1> DEFINE Bad == {i \in 0..Depth : ~DrawnAsPainted(Level[i], DrawTo[i], PaintTo[i])}
<1>0. Depth \in Nat
  BY TreeAssumption
<1>1. SUFFICES ASSUME Bad # {} PROVE FALSE
  OBVIOUS
<1>2. PICK k \in Bad : \A m \in Bad : k <= m
  <2> HIDE DEF Bad
  <2>1. Bad \in SUBSET Nat
    BY <1>0 DEF Bad
  <2> QED BY <1>1, <2>1, SmallestOf
<1> DEFINE smaller == IF k = 0 THEN {} ELSE Level[k - 1]
           draw == IF k = 0 THEN <<>> ELSE DrawTo[k - 1]
           paint == IF k = 0 THEN <<>> ELSE PaintTo[k - 1]
<1>3. DrawnAsPainted(smaller, draw, paint)
  <2>1. CASE k = 0
    BY <2>1 DEF DrawnAsPainted
  <2>2. CASE k # 0
    <3>1. k - 1 \in 0..Depth /\ ~ (k <= k - 1)
      BY <1>0, <2>2
    <3> HIDE DEF Bad
    <3>2. k - 1 \notin Bad
      BY <1>2, <3>1
    <3> QED BY <2>2, <3>1, <3>2 DEF Bad
  <2> QED BY <2>1, <2>2
<1>4. \A t \in Level[k] : WellFormed(t, smaller)
  BY TreeAssumption
<1>5. /\ DrawTo[k] = [c \in Calls(Level[k]) |->
                        DrawRenderable(draw, c.tree, c.prev, c.camera, c.pool)]
      /\ PaintTo[k] = [v \in Views(Level[k]) |-> PaintTree(paint, v.tree, v.below, v.camera)]
  BY DrawLevels, PaintLevels
<1>6. k \in 0..Depth /\ ~DrawnAsPainted(Level[k], DrawTo[k], PaintTo[k])
  OBVIOUS
<1> HIDE DEF smaller, draw, paint, Bad
<1>7. ASSUME NEW t \in Level[k], NEW camera \in Camera, NEW below \in Picture
      PROVE  PaintTo[k][View(t, below, camera)] = PaintTree(paint, t, below, camera)
  <2> DEFINE x == View(t, below, camera)
  <2>1. x.tree = t /\ x.below = below /\ x.camera = camera /\ x \in Views(Level[k])
    BY DEF View, Views
  <2> HIDE DEF x
  <2>2. PaintTo[k][x] = PaintTree(paint, t, below, camera)
    BY <1>5, <2>1
  <2> QED BY <2>2 DEF x
<1>8. ASSUME NEW t \in Level[k], NEW camera \in Camera, NEW p, NEW prev,
             Sound(p), prev \in 0..Len(p.image)
      PROVE  DrawTo[k][Call(t, prev, camera, p)] = DrawRenderable(draw, t, prev, camera, p)
  <2> DEFINE x == Call(t, prev, camera, p)
  <2>1. p \in Pools /\ prev \in 0..Cap
    BY <1>8, PoolFacts DEF Sound
  <2>2. x.tree = t /\ x.prev = prev /\ x.camera = camera /\ x.pool = p /\ x \in Calls(Level[k])
    BY <2>1 DEF Call, Calls
  <2> HIDE DEF x
  <2>3. DrawTo[k][x] = DrawRenderable(draw, t, prev, camera, p)
    BY <1>5, <2>2
  <2> QED BY <2>3 DEF x
<1>9. ASSUME NEW t \in Level[k], NEW camera \in Camera, NEW below \in Picture
      PROVE  /\ t.kind = "atomic" =>
                  PaintTo[k][View(t, below, camera)] = Ink(t, camera, Solid(below))
             /\ \A p, prev : Sound(p) /\ prev \in 0..Len(p.image) /\ MayInherit(t, prev) =>
                  Did(p, prev, below, DrawTo[k][Call(t, prev, camera, p)],
                      PaintTo[k][View(t, below, camera)])
  <2>1. t.kind = "atomic" => PaintTo[k][View(t, below, camera)] = Ink(t, camera, Solid(below))
    BY <1>7 DEF PaintTree
  <2>2. ASSUME NEW p, NEW prev, Sound(p), prev \in 0..Len(p.image), MayInherit(t, prev)
        PROVE  Did(p, prev, below, DrawTo[k][Call(t, prev, camera, p)],
                   PaintTo[k][View(t, below, camera)])
    <3>1. WellFormed(t, smaller)
      BY <1>4
    <3>2. Did(p, prev, below, DrawRenderable(draw, t, prev, camera, p),
              PaintTree(paint, t, below, camera))
      BY <1>3, <2>2, <3>1, TreeDid
    <3> QED BY <1>7, <1>8, <2>2, <3>2
  <2> QED BY <2>1, <2>2
<1>10. DrawnAsPainted(Level[k], DrawTo[k], PaintTo[k])
  BY <1>9 DEF DrawnAsPainted
<1> QED BY <1>6, <1>10

-----------------------------------------------------------------------------
(* Frames.                                                                 *)

(* No invariant of its own is needed: what a frame leaves behind is enough *)
(* for the next one.                                                       *)
IInv == NothingLeaks /\ ShowsThePicture

LEMMA InitInv ==
  ASSUME Init
  PROVE  IInv
<1> DEFINE image == <<>> \o [i \in 1..Seed |-> Stale]
<1>1. image \in Seq(Image) /\ Len(image) = Seed
  <2>1. Seed \in Nat /\ Stale \in Image
    BY PoolAssumption, LayersFacts
  <2>2. [i \in 1..Seed |-> Stale] \in Seq(Image) /\ Len([i \in 1..Seed |-> Stale]) = Seed
    BY <2>1
  <2>3. <<>> \in Seq(Image) /\ Len(<<>>) = 0
    BY EmptySeq
  <2>4. image \in Seq(Image) /\ Len(image) = Len(<<>>) + Len([i \in 1..Seed |-> Stale])
    BY <2>2, <2>3, ConcatProperties
  <2> QED BY <2>1, <2>2, <2>3, <2>4
<1> HIDE DEF image
<1>2. pool = [taken |-> {}, image |-> image, faults |-> {}]
  BY DEF Init, FreshPool, image
<1>3. /\ pool.taken = {} /\ pool.image = image /\ pool.faults = {}
      /\ pool \in Pools
  BY <1>1, <1>2 DEF Pools
<1>4. size \in Seed..Cap /\ tree = Missing /\ shown \in Picture /\ size = Seed
  BY PoolAssumption DEF Init, Picture
<1>5. NothingLeaks
  BY <1>1, <1>3, <1>4 DEF NothingLeaks, TypeOK
<1>6. ShowsThePicture
  BY <1>3, <1>4 DEF ShowsThePicture, Misused
<1> QED BY <1>5, <1>6 DEF IInv

LEMMA FreshFacts ==
  ASSUME NEW n \in Seed..Cap
  PROVE  LET p == [FreshPool(n) EXCEPT !.taken = {}]
         IN /\ p \in Pools /\ p.taken = {} /\ p.faults = {} /\ Len(p.image) = n
<1> DEFINE image == <<>> \o [i \in 1..n |-> Stale]
           p == [FreshPool(n) EXCEPT !.taken = {}]
<1>1. image \in Seq(Image) /\ Len(image) = n
  <2>0. Seed \in Nat /\ Cap \in Nat
    BY PoolAssumption
  <2>1. n \in Nat /\ Stale \in Image
    <3>1. n \in Nat
      BY <2>0
    <3>2. Stale \in Image
      BY LayersFacts
    <3> QED BY <3>1, <3>2
  <2>2. [i \in 1..n |-> Stale] \in Seq(Image) /\ Len([i \in 1..n |-> Stale]) = n
    BY <2>1
  <2>3. <<>> \in Seq(Image) /\ Len(<<>>) = 0
    BY EmptySeq
  <2>4. image \in Seq(Image) /\ Len(image) = Len(<<>>) + Len([i \in 1..n |-> Stale])
    BY <2>2, <2>3, ConcatProperties
  <2> QED BY <2>1, <2>2, <2>3, <2>4
<1>2. FreshPool(n) = [taken |-> {}, image |-> image, faults |-> {}]
  BY DEF FreshPool
<1> HIDE DEF image
<1>3. p = [taken |-> {}, image |-> image, faults |-> {}]
  BY <1>2
<1> HIDE DEF p
<1>4. p.taken = {} /\ p.image = image /\ p.faults = {} /\ p \in Pools
  BY <1>1, <1>3 DEF Pools
<1> QED BY <1>1, <1>4 DEF p

LEMMA SwapInv ==
  ASSUME IInv, Swap
  PROVE  IInv'
<1> DEFINE p == [FreshPool(size) EXCEPT !.taken = {}]
<1>1. size \in Seed..Cap /\ pool.taken = {}
  BY DEF IInv, NothingLeaks, TypeOK
<1>2. pool' = p /\ size' = size /\ tree' = Missing /\ shown' = None
  BY <1>1 DEF Swap
<1>3. p \in Pools /\ p.taken = {} /\ p.faults = {} /\ Len(p.image) = size
  BY <1>1, FreshFacts
<1> HIDE DEF p
<1>4. NothingLeaks'
  BY <1>1, <1>2, <1>3 DEF NothingLeaks, TypeOK, Picture
<1>5. ShowsThePicture'
  BY <1>2, <1>3 DEF ShowsThePicture, Misused
<1> QED BY <1>4, <1>5 DEF IInv

LEMMA FrameInv ==
  ASSUME IInv, NEW t \in Tree, Frame(t)
  PROVE  IInv'
<1> DEFINE p == AllFree(pool)
           w == DrawTo[Depth][Call(t, 0, "default", p)]
           q == IF w.pid = 0 THEN w.pool ELSE Touch(w.pool, w.pid)
           r == Release(q, w.pid)
<1>1. size \in Seed..Cap /\ pool.taken = {} /\ Len(pool.image) = size /\ pool \in Pools
  BY DEF IInv, NothingLeaks, TypeOK
<1>2. Sound(p) /\ p.taken = {} /\ p.faults = pool.faults
  <2>1. pool = [taken |-> pool.taken, image |-> pool.image, faults |-> pool.faults]
    BY <1>1 DEF Pools
  <2>2. p = pool
    BY <1>1, <2>1 DEF AllFree
  <2> HIDE DEF p
  <2> QED BY <1>1, <2>2 DEF Sound
<1>3. /\ tree = Missing /\ tree' = t /\ pool' = r /\ size' = Len(w.pool.image)
      /\ shown' = IF w.pid = 0 THEN None ELSE w.pool.image[w.pid]
  BY DEF Frame
<1> HIDE DEF p
<1>4. Did(p, 0, None, w, Paint(t))
  <2>1. Depth \in 0..Depth /\ t \in Level[Depth] /\ "default" \in Camera /\ None \in Picture
    BY TreeAssumption, RenderedAssumption, CameraAssumption DEF Picture
  <2>2. DrawnAsPainted(Level[Depth], DrawTo[Depth], PaintTo[Depth])
    BY <2>1, EveryLevel
  <2>3. 0 \in 0..Len(p.image) /\ MayInherit(t, 0)
    BY <1>2, PoolFacts DEF MayInherit
  <2>4. Did(p, 0, None, w, PaintTo[Depth][View(t, None, "default")])
    BY <1>2, <2>1, <2>2, <2>3 DEF DrawnAsPainted
  <2> QED BY <2>4 DEF Paint
<1> HIDE DEF w
<1>5. /\ Sound(w.pool) /\ w.pid \in 0..Len(w.pool.image) /\ p.faults \subseteq w.pool.faults
      /\ w.pool.taken \subseteq {w.pid}
      /\ ~Denied(w.pool) => Exactly(p, 0, w, Paint(t))
  BY <1>2, <1>4 DEF Did, Safely, On
<1>6. /\ Sound(q) /\ q.taken = w.pool.taken /\ q.image = w.pool.image
      /\ (Denied(q) => Denied(w.pool)) /\ (w.pid \in w.pool.taken \cup {0} => q = w.pool)
      /\ w.pool.faults \subseteq q.faults
  BY <1>5, TouchFacts
<1> HIDE DEF q
<1>7. Sound(r) /\ r.taken = q.taken \ {w.pid} /\ r.image = q.image /\ r.faults = q.faults
  BY <1>6, ReleaseFacts
<1> HIDE DEF r
<1>8. NothingLeaks'
  <2>1. shown' \in Picture
    <3>1. w.pid # 0 => w.pid \in 1..Len(w.pool.image)
      BY <1>5, PoolFacts
    <3> QED BY <1>3, <1>5, <3>1, PoolFacts DEF Picture
  <2>2. r.taken = {}
    BY <1>5, <1>6, <1>7
  <2>3. r \in Pools /\ Len(r.image) \in Seed..Cap /\ r.taken \subseteq 1..Len(r.image)
    BY <1>7 DEF Sound
  <2> QED BY <1>3, <1>6, <1>7, <2>1, <2>2, <2>3 DEF NothingLeaks, TypeOK
<1>9. ShowsThePicture'
  <2>1. SUFFICES ASSUME ~Denied(pool)' PROVE ~Misused(pool)' /\ shown' = Paint(t)
    <3>1. Paint(tree)' = Paint(t)
      BY <1>3 DEF Paint
    <3> QED BY <1>3, <3>1 DEF ShowsThePicture
  <2>2. ~Denied(w.pool)
    BY <1>3, <1>6, <1>7, <2>1 DEF Denied
  <2>3. Exactly(p, 0, w, Paint(t))
    BY <1>5, <2>2
  <2>4. w.pid \in w.pool.taken \cup {0} /\ w.pool.faults = p.faults
    BY <2>3 DEF Exactly
  <2>5. ~Denied(pool)
    BY <1>2, <2>2, <2>4 DEF Denied
  <2>6. ~Misused(pool)
    BY <2>5 DEF IInv, ShowsThePicture
  <2>7. ~Misused(pool)'
    BY <1>2, <1>3, <1>6, <1>7, <2>4, <2>6 DEF Misused
  <2>8. shown' = Paint(t)
    BY <1>3, <2>3 DEF Exactly, On
  <2> QED BY <2>7, <2>8
<1> QED BY <1>8, <1>9 DEF IInv

LEMMA SpecInv == Spec => []IInv
<1>1. Init => IInv
  BY InitInv
<1>2. IInv /\ [Next]_vars => IInv'
  <2>1. SUFFICES ASSUME IInv, [Next]_vars PROVE IInv'
    OBVIOUS
  <2>2. CASE Swap
    BY <2>1, <2>2, SwapInv
  <2>3. ASSUME NEW t \in Tree, Frame(t) PROVE IInv'
    BY <2>1, <2>3, FrameInv
  <2>4. CASE UNCHANGED vars
    <3>1. NothingLeaks'
      BY <2>1, <2>4 DEF IInv, NothingLeaks, TypeOK, vars
    <3>2. ShowsThePicture'
      <4>1. Paint(tree)' = Paint(tree)
        BY <2>4 DEF Paint, vars
      <4> QED BY <2>1, <2>4, <4>1 DEF IInv, ShowsThePicture, Denied, Misused, vars
    <3> QED BY <3>1, <3>2 DEF IInv
  <2> QED BY <2>1, <2>2, <2>3, <2>4 DEF Next
<1> QED BY <1>1, <1>2, PTL DEF Spec

(* Whatever trees are rendered, to whatever depth, and whatever earlier    *)
(* frames left on the palettes: the walk (renderable_walker.cc:179-457)    *)
(* over the pool (fbo_pool.cc:110-158) shows exactly the picture of the    *)
(* tree, unless the pool was exhausted during the frame.                   *)
THEOREM WalkShowsThePicture == Spec => []ShowsThePicture
<1>1. IInv => ShowsThePicture
  BY DEF IInv
<1> QED BY <1>1, SpecInv, PTL

(* Every palette that a frame acquires is free when the frame ends, also   *)
(* on every path on which the pool was exhausted (the early returns of     *)
(* draw_group, draw_composite and apply_effect), and the pool never grows  *)
(* past its cap.                                                           *)
THEOREM WalkLeaksNothing == Spec => []NothingLeaks
<1>1. IInv => NothingLeaks
  BY DEF IInv
<1> QED BY <1>1, SpecInv, PTL
=============================================================================
