----------------------------- MODULE MCKvStore -----------------------------
(* KvStore for TLC: keys are interchangeable.                              *)
EXTENDS KvStore, TLC

Symmetry == Permutations(Key)
=============================================================================
