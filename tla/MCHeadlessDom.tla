--------------------------- MODULE MCHeadlessDom ---------------------------
(***************************************************************************)
(* HeadlessDom for TLC: one callback listens to the document, the window  *)
(* and the program's own elements, before and after the target.            *)
(***************************************************************************)
EXTENDS HeadlessDom

CONSTANTS c1, c2

InBothPhases ==
  [n \in Target |->
     IF n \in {Window, Document, Root, Canvas}
     THEN <<[callback |-> c1, capture |-> TRUE], [callback |-> c1, capture |-> FALSE]>>
     ELSE <<>>]
=============================================================================
