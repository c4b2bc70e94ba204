---------------------------- MODULE DurableDoc ----------------------------
(* What the persistence of collaborative documents promises.  An edit the  *)
(* server has accepted stays accepted until it is in the database; only a  *)
(* crash, after which nothing is open any more, forgets those that are not *)
(* there yet.                                                              *)
CONSTANTS Names, Edits

VARIABLES
    opened,     \* some document has been opened since the server started
    accepted,   \* accepted[n]: the edits of n the server vouches for
    stored      \* stored[n]: those of them that are in the database

TypeOK ==
    /\ opened \in BOOLEAN
    /\ accepted \in [Names -> SUBSET Edits]
    /\ stored \in [Names -> SUBSET Edits]

Init ==
    /\ opened = FALSE
    /\ accepted = [n \in Names |-> {}]
    /\ stored = [n \in Names |-> {}]

Open ==
    /\ opened' = TRUE
    /\ UNCHANGED <<accepted, stored>>

Accept(n, e) ==
    /\ opened
    /\ accepted' = [accepted EXCEPT ![n] = @ \cup {e}]
    /\ UNCHANGED <<opened, stored>>

\* Edits reach the database in batches.
Persist(n, E) ==
    /\ opened
    /\ E \subseteq accepted[n]
    /\ stored' = [stored EXCEPT ![n] = @ \cup E]
    /\ UNCHANGED <<opened, accepted>>

Crash ==
    /\ opened' = FALSE
    /\ accepted' = stored
    /\ UNCHANGED stored

Next ==
    \/ Open
    \/ \E n \in Names :
         \/ \E e \in Edits : Accept(n, e)
         \/ \E E \in SUBSET Edits : Persist(n, E)
    \/ Crash

Spec == Init /\ [][Next]_<<opened, accepted, stored>>
=============================================================================
