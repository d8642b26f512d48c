--------------------------- MODULE MCAudioEngine ---------------------------
(***************************************************************************)
(* TLC instance of AudioEngine: addresses, urls and groups are             *)
(* interchangeable, so safety is checked up to their permutations.         *)
(***************************************************************************)
EXTENDS AudioEngine, TLC

Symmetry == Permutations(Ptr) \cup Permutations(Url) \cup Permutations(Group)
=============================================================================
