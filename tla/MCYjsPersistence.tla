------------------------- MODULE MCYjsPersistence -------------------------
(* Instances of YjsPersistence small enough for TLC. *)
EXTENDS YjsPersistence, TLC

Symmetry == Permutations(Docs) \cup Permutations(Conns) \cup Permutations(Edits)
=============================================================================
