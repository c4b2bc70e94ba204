---------------------------- MODULE MCYjsServer ----------------------------
(* Instances of YjsServer small enough for TLC. *)
EXTENDS YjsServer, TLC

Symmetry == Permutations(Docs) \cup Permutations(Conns)
              \cup Permutations(Clients) \cup Permutations(Names)
=============================================================================
