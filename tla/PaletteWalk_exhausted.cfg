SPECIFICATION Spec
CONSTANTS
  None = None
  Known = {"draw", "fx", "mix"}
  Camera = {"default", "zoom"}
  Depth = 2
  Level <- TreesByDepth
  Tree <- SmallTrees
  Seed = 1
  Cap = 1
INVARIANT ResultIsFresh
