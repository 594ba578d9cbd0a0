----------------------------- MODULE MCErasure -----------------------------
(* A relationship of a few Turns and hardly more records than that.          *)
EXTENDS Erasure

CONSTANTS t1, t2, t3

Symmetry == Permutations(Turns)
=============================================================================
