----------------------------- MODULE MCArchival -----------------------------
(* Small instances of Archival for TLC. *)
EXTENDS Archival, TLC

Symmetry == Permutations(Coordinators) \cup Permutations(Batches)
=============================================================================
