------------------------------- MODULE Picture -------------------------------
(***************************************************************************)
(* What a Renderable tree looks like, without palettes: the reference the  *)
(* walker is checked against.                                              *)
(*                                                                         *)
(* An image is the sequence of its layers, bottom first: drawing one image *)
(* over another concatenates them, and what an effect or a compositor made *)
(* of its inputs is enclosed between two layers of its own.  None is       *)
(* "nothing was drawn", which is not the same as a transparent image.      *)
(*                                                                         *)
(* A tree is an atomic [kind, program], a group [kind, children, effects,  *)
(* camera] or a composite [kind, left, right, compositor]; Missing stands  *)
(* for an unset Renderable.  A program that is not in Known paints nothing *)
(* (atomic) or passes its (left) input through.  Trees are finite: what    *)
(* follows is defined level by level, from the leaves up.                  *)
(***************************************************************************)
EXTENDS Integers, Sequences

CONSTANTS
  None,    \* no image
  Known,   \* the programs of the registry ("clear" is not a program)
  Camera,  \* the cameras, "default" among them
  Depth,   \* how deep a tree may be
  Level    \* [0..Depth -> the trees of that depth at most]

Missing == [kind |-> "none"]

Layer(what, program, camera) == [layer |-> what, program |-> program, camera |-> camera]
Mark(what) == Layer(what, None, None)

Layers ==
  [layer : {"stale", "clear", "draw", "begin", "beside", "effect", "composite"},
   program : Known \cup {None}, camera : Camera \cup {None}]

Image   == Seq(Layers)
Picture == Image \cup {None}

\* A tree whose subtrees are in a set of smaller ones.
WellFormed(t, smaller) ==
  /\ t.kind \in {"none", "atomic", "group", "composite"}
  /\ t.kind = "group" =>
       t.children \in Seq(smaller) /\ t.effects \in Seq(STRING) /\ t.camera \in Camera \cup {None}
  /\ t.kind = "composite" => {t.left, t.right} \subseteq smaller

ASSUME TreeAssumption ==
  /\ Depth \in Nat
  /\ \A d \in 0..Depth : \A t \in Level[d] : WellFormed(t, IF d = 0 THEN {} ELSE Level[d - 1])

ASSUME CameraAssumption == "default" \in Camera

ASSUME NoneAssumption == None \notin Image

-----------------------------------------------------------------------------
(* One atomic on top of an image, under a camera; clear wipes the image.   *)
Ink(a, camera, image) ==
  IF a.program = "clear" THEN <<Mark("clear")>>
  ELSE IF a.program \in Known THEN Append(image, Layer("draw", a.program, camera))
  ELSE image

Effected(e, image) ==
  IF e \in Known THEN <<Mark("begin")>> \o image \o <<Layer("effect", e, None)>> ELSE image

Composed(c, left, right) ==
  IF c \in Known
  THEN <<Mark("begin")>> \o left \o <<Mark("beside")>> \o right \o <<Layer("composite", c, None)>>
  ELSE left

Solid(picture) == IF picture = None THEN <<>> ELSE picture

Over(below, above) ==
  IF below = None THEN above ELSE IF above = None THEN below ELSE below \o above

(* A loop: steps[i] is what round i makes of the value of the round before.*)
Rounds(steps, x) ==
  LET after[i \in 0..Len(steps)] == IF i = 0 THEN x ELSE steps[i][after[i - 1]]
  IN after[Len(steps)]

-----------------------------------------------------------------------------
(* What is asked of a tree: to be painted on what is below it, as seen by  *)
(* a camera.                                                               *)
View(t, below, camera) == [tree |-> t, below |-> below, camera |-> camera]
Views(trees) == [tree : trees, below : Picture, camera : Camera]

CameraOf(t, camera) == IF t.camera = None THEN camera ELSE t.camera

(* A group without effects paints onto what is below it; one with effects, *)
(* or a composite, is a picture of its own laid over it.  `paint' paints   *)
(* the subtrees.                                                           *)
Joins(t) == t.kind = "atomic" \/ (t.kind = "group" /\ t.effects = <<>>)

PaintChild(paint, c, camera) ==
  [below \in Picture |->
     IF Joins(c) THEN paint[View(c, below, camera)]
     ELSE Over(below, paint[View(c, None, camera)])]

PaintEffect(e) == [picture \in Picture |-> IF picture = None THEN None ELSE Effected(e, picture)]

PaintGroup(paint, t, below, camera) ==
  Rounds([i \in DOMAIN t.effects |-> PaintEffect(t.effects[i])],
         Rounds([i \in DOMAIN t.children |->
                   PaintChild(paint, t.children[i], CameraOf(t, camera))], below))

PaintComposite(paint, t, camera) ==
  LET l == paint[View(t.left, None, camera)]
      r == paint[View(t.right, None, camera)]
  IN  IF l = None /\ r = None THEN None ELSE Composed(t.compositor, Solid(l), Solid(r))

PaintTree(paint, t, below, camera) ==
  CASE t.kind = "atomic" -> Ink(t, camera, Solid(below))
    [] t.kind = "group" ->
         IF t.children = <<>> THEN below ELSE PaintGroup(paint, t, below, camera)
    [] t.kind = "composite" ->
         IF t.compositor = None THEN None ELSE PaintComposite(paint, t, camera)
    [] OTHER -> None

PaintTo[d \in 0..Depth] ==
  [v \in Views(Level[d]) |->
     PaintTree(IF d = 0 THEN <<>> ELSE PaintTo[d - 1], v.tree, v.below, v.camera)]

(* The picture of a whole tree.                                            *)
Paint(t) == PaintTo[Depth][View(t, None, "default")]
=============================================================================
