----------------------------- MODULE PaletteWalk -----------------------------
(***************************************************************************)
(* RenderableWalker on FboPool (src/renderer/renderable_walker.cc and      *)
(* src/gpu/fbo_pool.cc): a tree is drawn by painting into palettes that    *)
(* are acquired from a growing pool, composed, and released, frame after   *)
(* frame.  GL gives at most Cap palettes (kMaxFbos, or what create_fbo     *)
(* can allocate).                                                          *)
(*                                                                         *)
(* The walk is a function of the tree and the pool, so a frame is one      *)
(* step.  A palette's pixels are the image painted on it; a palette that   *)
(* has just been acquired holds the pixels of an earlier use (Stale).      *)
(***************************************************************************)
EXTENDS Picture

CONSTANTS
  Tree,    \* the trees the application renders
  Seed,    \* StartRegl.fbo_num
  Cap      \* how many palettes can exist

ASSUME PoolAssumption == Seed \in Nat \ {0} /\ Cap \in Nat /\ Seed <= Cap

ASSUME RenderedAssumption == Tree \subseteq Level[Depth]

VARIABLES
  size,    \* fbos_.size(): the pool keeps what it grew to
  tree,    \* the tree of the last frame
  shown,   \* what that frame blitted to the window, or None
  pool     \* the pool as that frame left it

vars == <<size, tree, shown, pool>>

Stale == <<Mark("stale")>>

(* The palettes that free_ says are taken, the pixels of all, and two      *)
(* observations about the frame: an acquire was denied; a palette that was *)
(* free was painted on or read.                                            *)
Pools ==
  [taken : SUBSET (1..Cap), image : Seq(Image), faults : SUBSET {"denied", "misused"}]

FreshPool(n) == [taken |-> {}, image |-> <<>> \o [i \in 1..n |-> Stale], faults |-> {}]

Denied(p)  == "denied" \in p.faults
Misused(p) == "misused" \in p.faults

(* The C++ functions return a palette id (0 for -1 here) and change the    *)
(* pool; a Walk is both.                                                   *)
Walk(pid, p) == [pid |-> pid, pool |-> p]
Walks == [pid : 0..Cap, pool : Pools]

-----------------------------------------------------------------------------
(* FboPool.                                                                *)

AtCap(n) == n >= Cap

Acquire(p) ==
  LET n    == Len(p.image)
      free == 1..n \ p.taken
  IN  IF free # {}
      THEN LET i == CHOOSE i \in free : \A j \in free : i <= j
           IN  Walk(i, [p EXCEPT !.taken = @ \cup {i}])
      ELSE IF AtCap(n) THEN Walk(0, [p EXCEPT !.faults = @ \cup {"denied"}])
      ELSE Walk(n + 1, [p EXCEPT !.taken = @ \cup {n + 1}, !.image = Append(@, Stale)])

(* Mutation: release forgets the palette.                                  *)
Release_Leaks(p, pid) == p

(* To release -1 is nothing: no palette has that name.                     *)
Release(p, pid) == [p EXCEPT !.taken = @ \ {pid}]

-----------------------------------------------------------------------------
(* Painting and reading.                                                   *)
Touch(p, pid) == IF pid \in p.taken THEN p ELSE [p EXCEPT !.faults = @ \cup {"misused"}]

Painted(p, pid, image) == [p EXCEPT !.image = [@ EXCEPT ![pid] = image]]

AcquireCleared(p) ==
  LET w == Acquire(p) IN IF w.pid = 0 THEN w ELSE Walk(w.pid, Painted(w.pool, w.pid, <<>>))

RenderAtomic(a, camera, p, pid) == Painted(Touch(p, pid), pid, Ink(a, camera, p.image[pid]))

(* simple_compose: new over old, new is released.                          *)
SimpleCompose(old, new, p) ==
  IF old = 0 THEN Walk(new, p)
  ELSE IF new = 0 \/ new = old THEN Walk(old, p)
  ELSE LET q == Touch(Touch(p, old), new)
       IN  Walk(old, Release(Painted(q, old, p.image[old] \o p.image[new]), new))

(* apply_effect: from src into a fresh palette; src itself when there is   *)
(* none.                                                                   *)
ApplyEffect(e, src, p) ==
  LET w == AcquireCleared(p)
  IN  IF w.pid = 0 THEN Walk(src, w.pool)
      ELSE Walk(w.pid, Painted(Touch(w.pool, src), w.pid, Effected(e, w.pool.image[src])))

(* The loop over the effects: each source is released after its use.       *)
EffectStep(e, w) ==
  IF w.pid = 0 THEN w
  ELSE LET x == ApplyEffect(e, w.pid, w.pool) IN Walk(x.pid, Release(x.pool, w.pid))

(* What a side of a composite holds, and the reading of it.                *)
In(p, pid)   == IF pid = 0 THEN <<>> ELSE p.image[pid]
Read(p, pid) == IF pid = 0 THEN p ELSE Touch(p, pid)

(* A side that drew nothing is a transparent image.                        *)
Side(pid, p) == IF pid = 0 THEN AcquireCleared(p) ELSE Walk(pid, p)

(* draw_composite, once both sides have been drawn as l and r.             *)
Compose(c, l, r, p) ==
  IF l = 0 /\ r = 0 THEN Walk(0, p)
  ELSE LET w1 == Side(l, p)
           w2 == Side(r, w1.pool)
           w  == AcquireCleared(w2.pool)
           q  == Read(Read(w.pool, w1.pid), w2.pid)
           Drop(x) == Release(Release(x, w1.pid), w2.pid)
       IN  IF w.pid = 0 THEN Walk(0, Drop(w.pool))
           ELSE Walk(w.pid, Drop(Painted(q, w.pid, Composed(c, In(q, w1.pid), In(q, w2.pid)))))

-----------------------------------------------------------------------------
(* The recursion.  `draw' draws the subtrees.                              *)

(* A call: the tree, the palette to go on with, the camera, the pool.      *)
Call(t, prev, camera, p) == [tree |-> t, prev |-> prev, camera |-> camera, pool |-> p]
Calls(trees) == [tree : trees, prev : 0..Cap, camera : Camera, pool : Pools]

(* An atomic paints on the current palette, or acquires the first one.     *)
DrawAtomic(a, prev, camera, p) ==
  LET w == IF prev = 0 THEN AcquireCleared(p) ELSE Walk(prev, p)
  IN  IF w.pid = 0 THEN w ELSE Walk(w.pid, RenderAtomic(a, camera, w.pool, w.pid))

(* Mutation: a nested group with effects paints on the palette around it.  *)
Inherited_Always(t, pid) == pid

(* The palette a nested group starts from; a composite has its own.        *)
Inherited(t, pid) == IF t.kind = "group" /\ t.effects = <<>> THEN pid ELSE 0

(* One child of a group: all but an atomic are composed over what is there.*)
DrawChild(draw, c, camera) ==
  [w \in Walks |->
     IF c.kind = "atomic" THEN DrawAtomic(c, w.pid, camera, w.pool)
     ELSE LET sub == draw[Call(c, Inherited(c, w.pid), camera, w.pool)]
          IN  SimpleCompose(w.pid, sub.pid, sub.pool)]

DrawGroup(draw, t, prev, camera, p) ==
  Rounds([i \in DOMAIN t.effects |-> [w \in Walks |-> EffectStep(t.effects[i], w)]],
         Rounds([i \in DOMAIN t.children |->
                   DrawChild(draw, t.children[i], CameraOf(t, camera))], Walk(prev, p)))

DrawComposite(draw, t, camera, p) ==
  LET l == draw[Call(t.left, 0, camera, p)]
      r == draw[Call(t.right, 0, camera, l.pool)]
  IN  Compose(t.compositor, l.pid, r.pid, r.pool)

DrawRenderable(draw, t, prev, camera, p) ==
  CASE t.kind = "atomic" -> DrawAtomic(t, 0, camera, p)
    [] t.kind = "group" ->
         IF t.children = <<>> THEN Walk(prev, p) ELSE DrawGroup(draw, t, prev, camera, p)
    [] t.kind = "composite" ->
         IF t.compositor = None THEN Walk(0, p) ELSE DrawComposite(draw, t, camera, p)
    [] OTHER -> Walk(0, p)

DrawTo[d \in 0..Depth] ==
  [c \in Calls(Level[d]) |->
     DrawRenderable(IF d = 0 THEN <<>> ELSE DrawTo[d - 1], c.tree, c.prev, c.camera, c.pool)]

-----------------------------------------------------------------------------
Init ==
  /\ size = Seed
  /\ tree = Missing
  /\ shown = None
  /\ pool = FreshPool(Seed)

(* free_all.                                                               *)
AllFree(p) == [p EXCEPT !.taken = {}]

(* Engine::render frees every palette; the walk; the blit and its release. *)
Frame(t) ==
  LET w == DrawTo[Depth][Call(t, 0, "default", AllFree(pool))] IN
  /\ tree = Missing
  /\ tree' = t
  /\ shown' = IF w.pid = 0 THEN None ELSE w.pool.image[w.pid]
  /\ pool' = Release(IF w.pid = 0 THEN w.pool ELSE Touch(w.pool, w.pid), w.pid)
  /\ size' = Len(w.pool.image)

(* SDL_GL_SwapWindow: the picture is out, and what the palettes hold is    *)
(* from now on what an earlier frame left there.                           *)
Swap ==
  /\ tree # Missing
  /\ tree' = Missing
  /\ shown' = None
  /\ pool' = [FreshPool(size) EXCEPT !.taken = pool.taken]
  /\ UNCHANGED size

Next == Swap \/ \E t \in Tree : Frame(t)

Spec == Init /\ [][Next]_vars

-----------------------------------------------------------------------------
(* The pool never shrinks below its seed nor grows past the cap, and every *)
(* palette has an entry.                                                   *)
TypeOK ==
  /\ size \in Seed..Cap
  /\ tree \in Tree \cup {Missing}
  /\ shown \in Picture
  /\ pool \in Pools
  /\ Len(pool.image) = size /\ pool.taken \subseteq 1..size

(* Unless the pool ran out, the window shows the picture of the tree: no   *)
(* palette is touched after its release, reused too early, left uncleared, *)
(* composed in the wrong order or shared by two subtrees, whatever earlier *)
(* frames left behind.                                                     *)
ShowsThePicture ==
  ~Denied(pool) =>
    /\ ~Misused(pool)
    /\ tree # Missing => shown = Paint(tree)

(* Every palette a frame acquired is free when it ends, also when some     *)
(* acquisitions failed: nothing relies on the next frame's free_all.       *)
NothingLeaks == TypeOK /\ pool.taken = {}

(* walker.h:57-58: apply_effect produces a fresh palette and frees         *)
(* nothing; its caller therefore frees the source and keeps the result -   *)
(* which is the same palette when the pool is exhausted.                   *)
ResultIsFresh == ~Misused(pool)
=============================================================================
