--------------------------- MODULE MCSubmissions ---------------------------
(* Instances of Submissions small enough for TLC. *)
EXTENDS Submissions, TLC

Symmetry == Permutations(Requests) \cup Permutations(Tutorial)
=============================================================================
