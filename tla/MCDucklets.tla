----------------------------- MODULE MCDucklets -----------------------------
(* Instances of Ducklets small enough for TLC. *)
EXTENDS Ducklets, TLC

Symmetry == Permutations(Sockets) \cup Permutations(Registered)
              \cup Permutations(Msgs)
=============================================================================
