------------------------- MODULE MCArchivalIdentity -------------------------
(* Small instances of ArchivalIdentity for TLC. *)
EXTENDS ArchivalIdentity, TLC

Symmetry == Permutations(Stores) \cup Permutations(Ids)
              \cup Permutations(Keys) \cup Permutations(Requests)
=============================================================================
