---------------------------- MODULE DocSessions ----------------------------
(* What the collaboration server promises the people on a document.  A     *)
(* name is served by one instance, in which everybody on that name meets;  *)
(* the instance is made for the first who comes, given up when the last    *)
(* one leaves, and never used again.                                       *)
CONSTANTS Names, Docs, Conns, NoDoc

VARIABLES
    host,       \* host[n]: the instance serving n, if any
    place,      \* place[c]: the instance c is in, if any
    used,       \* the instances made so far
    came        \* the connections that have come so far

vars == <<host, place, used, came>>

Present(d) == {c \in Conns : place[c] = d}

Init ==
    /\ host = [n \in Names |-> NoDoc]
    /\ place = [c \in Conns |-> NoDoc]
    /\ used = {}
    /\ came = {}

Come(c, d) ==
    /\ came' = came \cup {c}
    /\ place' = [place EXCEPT ![c] = d]

Open(c, n, d) ==
    /\ host[n] = NoDoc
    /\ Come(c, d)
    /\ host' = [host EXCEPT ![n] = d]
    /\ used' = used \cup {d}

Join(c, n) ==
    /\ host[n] # NoDoc
    /\ Come(c, host[n])
    /\ UNCHANGED <<host, used>>

\* Those who leave together leave the same session.
Leave(n, S) ==
    /\ place' = [c \in Conns |-> IF c \in S THEN NoDoc ELSE place[c]]
    /\ host' = [host EXCEPT ![n] = IF S = Present(@) THEN NoDoc ELSE @]
    /\ UNCHANGED <<used, came>>

Crash ==
    /\ host' = [n \in Names |-> NoDoc]
    /\ place' = [c \in Conns |-> NoDoc]
    /\ UNCHANGED <<used, came>>

Next ==
    \/ \E c \in Conns \ came, n \in Names :
         \/ \E d \in Docs \ used : Open(c, n, d)
         \/ Join(c, n)
    \/ \E n \in Names :
         /\ host[n] # NoDoc
         /\ \E S \in (SUBSET Present(host[n])) \ {{}} : Leave(n, S)
    \/ Crash

Spec == Init /\ [][Next]_vars
=============================================================================
