------------------------------ MODULE MCAssets ------------------------------
(***************************************************************************)
(* Assets for TLC: two fonts that share an image, one of which may be      *)
(* loaded again with another image.                                        *)
(***************************************************************************)
EXTENDS Assets

CONSTANTS f1, f2, i1, i2

SharedImage == [f \in Font |-> IF f = f1 THEN {i1, i2} ELSE {i1}]
OneImage    == [f \in Font |-> Image]
=============================================================================
