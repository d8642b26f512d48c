--------------------------- MODULE MCPaletteWalk ---------------------------
(* Small trees: every composite and every group of at most two children,   *)
(* two levels deep, with effects, a camera, an empty and an unset child.   *)
EXTENDS PaletteWalk

Atomics == {[kind |-> "atomic", program |-> x] : x \in {"draw", "clear", "gone"}}

Groups(children, effects, cameras) ==
  [kind : {"group"}, children : UNION {[1..n -> children] : n \in 0..2},
   effects : effects, camera : cameras]

Composites(sides, compositors) ==
  [kind : {"composite"}, left : sides, right : sides, compositor : compositors]

Draw == [kind |-> "atomic", program |-> "draw"]

Level1 ==
  Groups({Draw, [kind |-> "atomic", program |-> "clear"]}, {<<>>, <<"fx">>}, {None})
  \cup Groups({Draw}, {<<"fx", "fx">>, <<"gone">>}, {"zoom"})
  \cup Composites({Draw, Missing}, {"mix"})

Level2 ==
  Groups(Level1 \cup Atomics \cup {Missing}, {<<>>, <<"fx">>}, {None, "zoom"})
  \cup Composites(Level1 \cup Atomics \cup {Missing}, {"mix", "gone", None})

SmallTrees == Level1 \cup Level2 \cup Atomics

Leaves    == Atomics \cup {Missing}
TreesByDepth == [d \in 0..2 |->
  IF d = 0 THEN Leaves ELSE IF d = 1 THEN Level1 \cup Leaves ELSE SmallTrees]
=============================================================================
