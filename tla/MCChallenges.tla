---------------------------- MODULE MCChallenges ----------------------------
(* An instance of Challenges small enough for TLC. *)
EXTENDS Challenges

Symmetry == Permutations(Users) \cup Permutations(Columns) \cup Permutations(Submits)
              \cup Permutations(Edits)

\* Submissions race each other while no edit has begun or changed anything;
\* otherwise there is one, and one user.
Edited == edited \/ \E e \in Edits : edit[e].stage # "idle"
Submitting == {s \in Submits : submit[s].stage # "idle"}
Involved ==
    ({submit[s].user : s \in Submits} \cup {dummy[d].user : d \in Dummies}
       \cup {attempts[i].user : i \in DOMAIN attempts}) \ {Nil}

Few == Edited => Cardinality(Submitting) <= 1 /\ Cardinality(Involved) <= 1
=============================================================================
