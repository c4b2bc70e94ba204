----------------------------- MODULE YjsServer -----------------------------
(***************************************************************************)
(* The collaboration server: yjs/websocket/utils.ts.  Browsers hold        *)
(* websockets; every websocket is attached to one in-memory instance of    *)
(* the document it names; an instance lives from the first connection      *)
(* that asks for it to the close of the last one.                          *)
(*                                                                         *)
(* One action is one callback run to completion by the event loop, with    *)
(* the synchronous cascade it sets off: broadcasting to a socket that is   *)
(* no longer open closes that connection too (send -> closeConn), and      *)
(* closing a connection removes the awareness states it controls, which    *)
(* is broadcast again.                                                     *)
(***************************************************************************)
EXTENDS Naturals, FiniteSets

CONSTANTS
    Names,      \* document names, as they appear in the request's url
    Docs,       \* WSSharedDoc instances that may be constructed
    Conns,      \* websocket connections, each used once
    Clients,    \* awareness client ids
    MaxClock,   \* bound on awareness clocks
    NoDoc,      \* "undefined" where an instance is expected
    NoName      \* "undefined" where a name is expected

ASSUME ConstantsAssumption ==
    /\ NoDoc \notin Docs
    /\ NoName \notin Names
    /\ MaxClock \in Nat

VARIABLES
    docs,          \* docs[n]: the instance the docs Map holds for name n
    name,          \* name[d]: WSSharedDoc.name
    life,          \* life[d]: unborn, live, closing (destroy() pending), destroyed
    conns,         \* conns[d]: keys of the instance's conns Map
    states,        \* states[d]: clients that have an awareness state
    meta,          \* meta[d][u]: last awareness clock seen; 0 is "undefined"
    doc,           \* doc[c]: the instance captured by c's listeners
    controlled,    \* controlled[c]: the Set stored under c in doc[c].conns
    readyState,    \* readyState[c]: idle (not accepted yet), open, closing, closed
    pongReceived,  \* pongReceived[c]
    pingInterval,  \* pingInterval[c]: c's interval is still scheduled
    alive          \* alive[c]: frames of c's peer still reach the server

docVars   == <<docs, name, life, conns, states, meta>>
connVars  == <<doc, controlled, readyState, pongReceived, pingInterval, alive>>
vars      == <<docs, name, life, conns, states, meta,
               doc, controlled, readyState, pongReceived, pingInterval, alive>>

Lives       == {"unborn", "live", "closing", "destroyed"}
ReadyStates == {"idle", "open", "closing", "closed"}

-----------------------------------------------------------------------------
(* Helpers *)

Attached(c) == doc[c] # NoDoc /\ c \in conns[doc[c]]

\* The connections send() would close instead of writing to.
Dead(d) == {c \in conns[d] : readyState[c] \notin {"idle", "open"}}

\* closeConn for every connection of S, all attached to d, where st and ctl
\* are the awareness states and the controlled sets in force at that moment:
\* when the last connection goes, the name is freed at once and destroy()
\* follows when writeState's promise resolves.
CloseAll(d, S, st, ctl) ==
    /\ conns' = [conns EXCEPT ![d] = @ \ S]
    /\ controlled' = [c \in Conns |-> IF c \in S THEN {} ELSE ctl[c]]
    /\ states' = [states EXCEPT ![d] = st \ UNION {ctl[c] : c \in S}]
    /\ IF S # {} /\ conns[d] \subseteq S
         THEN /\ docs' = [docs EXCEPT ![name[d]] = NoDoc]
              /\ life' = [life EXCEPT ![d] = "closing"]
         ELSE UNCHANGED <<docs, life>>

\* Mutant of Closing: closeConn without its "if (doc.conns.has(conn))".
ClosingUnguarded(d, c) ==
    IF controlled[c] \cap states[d] = {} THEN {c} ELSE {c} \cup Dead(d)

\* Mutant of Closing: closeConn skips a socket that is not open any more.
ClosingOpenOnly(d, c) ==
    IF c \notin conns[d] \/ readyState[c] # "open" THEN {} ELSE {c}

\* The connections that closing c of d takes along: a controlled state that
\* is still present is announced to the others, and that broadcast closes
\* the dead ones.
Closing(d, c) ==
    IF c \notin conns[d] THEN {}
    ELSE IF controlled[c] \cap states[d] = {} THEN {c}
    ELSE {c} \cup Dead(d)

\* Mutant of CloseSockets: a state ws does not have.
CloseSocketsTerminated(S) ==
    [c \in Conns |-> IF c \in S THEN "terminated" ELSE readyState[c]]

\* conn.close() on every connection of S.
CloseSockets(S) ==
    [c \in Conns |-> IF c \in S /\ readyState[c] = "open"
                     THEN "closing" ELSE readyState[c]]

CloseConn(d, c) == CloseAll(d, Closing(d, c), states[d], controlled)

Broadcast(d) == CloseAll(d, Dead(d), states[d], controlled)

-----------------------------------------------------------------------------
Init ==
    /\ docs = [n \in Names |-> NoDoc]
    /\ name = [d \in Docs |-> NoName]
    /\ life = [d \in Docs |-> "unborn"]
    /\ conns = [d \in Docs |-> {}]
    /\ states = [d \in Docs |-> {}]
    /\ meta = [d \in Docs |-> [u \in Clients |-> 0]]
    /\ doc = [c \in Conns |-> NoDoc]
    /\ controlled = [c \in Conns |-> {}]
    /\ readyState = [c \in Conns |-> "idle"]
    /\ pongReceived = [c \in Conns |-> FALSE]
    /\ pingInterval = [c \in Conns |-> FALSE]
    /\ alive = [c \in Conns |-> FALSE]

\* getYDoc: d is what the docs Map holds for n, or a new instance put there.
GetYDoc(n, d) ==
    \/ /\ docs[n] = d
       /\ UNCHANGED <<docs, name, life>>
    \/ /\ docs[n] = NoDoc
       /\ life[d] = "unborn"
       /\ docs' = [docs EXCEPT ![n] = d]
       /\ name' = [name EXCEPT ![d] = n]
       /\ life' = [life EXCEPT ![d] = "live"]

\* setupWSConnection: a websocket naming document n is accepted.
SetupWSConnection(c, n, d) ==
    /\ readyState[c] = "idle"
    /\ GetYDoc(n, d)
    /\ conns' = [conns EXCEPT ![d] = @ \cup {c}]
    /\ doc' = [doc EXCEPT ![c] = d]
    /\ readyState' = [readyState EXCEPT ![c] = "open"]
    /\ pongReceived' = [pongReceived EXCEPT ![c] = TRUE]
    /\ pingInterval' = [pingInterval EXCEPT ![c] = TRUE]
    /\ alive' = [alive EXCEPT ![c] = TRUE]
    /\ UNCHANGED <<controlled, states, meta>>

\* A frame of c can arrive: also after the server began to close c.
Delivers(c) == alive[c] /\ readyState[c] \in {"open", "closing"}

\* applyAwarenessUpdate: newer entries win; an equal clock can only remove.
AcceptsAwareness(d, u, k, present) ==
    \/ k > meta[d][u]
    \/ k = meta[d][u] /\ ~present /\ u \in states[d]

\* Mutant of Controls: "updated" clients come under control like "added" ones.
ControlsUpdated(c, d, u, present) ==
    IF c \notin conns[d] THEN controlled[c]
    ELSE IF present THEN controlled[c] \cup {u} ELSE controlled[c] \ {u}

\* awarenessChangeHandler: what the "update" event does to c's controlled set.
Controls(c, d, u, present) ==
    IF c \notin conns[d] THEN controlled[c]
    ELSE IF present /\ meta[d][u] = 0 THEN controlled[c] \cup {u}
    ELSE IF ~present /\ meta[d][u] # 0 THEN controlled[c] \ {u}
    ELSE controlled[c]

\* messageListener, messageAwareness: c reports state k of client u, or that
\* u is gone.  A first sight of a client that is already gone is recorded
\* without an event; a destroyed instance has no handler left.
RecvAwareness(c, u, k, present) ==
    LET d  == doc[c]
        st == IF present THEN states[d] \cup {u} ELSE states[d] \ {u}
        emits == life[d] # "destroyed" /\ (present \/ meta[d][u] # 0)
    IN  /\ Delivers(c)
        /\ AcceptsAwareness(d, u, k, present)
        /\ meta' = [meta EXCEPT ![d][u] = k]
        /\ IF emits
             THEN /\ CloseAll(d, Dead(d), st,
                         [controlled EXCEPT ![c] = Controls(c, d, u, present)])
                  /\ readyState' = CloseSockets(Dead(d))
             ELSE /\ states' = [states EXCEPT ![d] = st]
                  /\ UNCHANGED <<docs, life, conns, controlled, readyState>>
        /\ UNCHANGED <<name, doc, pongReceived, pingInterval, alive>>

\* messageListener, messageSync: an update that changes the document is
\* broadcast by updateHandler; a destroyed instance has no handler left.  The
\* reply to a sync step 1 changes nothing: a connection whose frames arrive is
\* open, or was detached by whoever began to close it.
RecvUpdate(c) ==
    /\ Delivers(c)
    /\ IF life[doc[c]] = "destroyed"
         THEN UNCHANGED <<docs, life, conns, states, controlled, readyState>>
         ELSE /\ Broadcast(doc[c])
              /\ readyState' = CloseSockets(Dead(doc[c]))
    /\ UNCHANGED <<name, meta, doc, pongReceived, pingInterval, alive>>

\* bindState merges what it read from the database into the instance: an
\* update like any other for updateHandler, but no connection's message.
UpdateFromDisk(d) ==
    /\ life[d] \in {"live", "closing"}
    /\ Broadcast(d)
    /\ readyState' = CloseSockets(Dead(d))
    /\ UNCHANGED <<name, meta, doc, pongReceived, pingInterval, alive>>

\* y-protocols' own timer drops the states U of clients silent for 30s; no
\* connection is the origin, so controlled sets stay as they are.
AwarenessTimeout(d, U) ==
    /\ life[d] \in {"live", "closing"}
    /\ U # {} /\ U \subseteq states[d]
    /\ CloseAll(d, Dead(d), states[d] \ U, controlled)
    /\ readyState' = CloseSockets(Dead(d))
    /\ UNCHANGED <<name, meta, doc, pongReceived, pingInterval, alive>>

\* The callback of conn.send reports an error: the peer is unreachable.
SendError(c) ==
    /\ Attached(c) /\ ~alive[c]
    /\ CloseConn(doc[c], c)
    /\ readyState' = CloseSockets(Closing(doc[c], c))
    /\ UNCHANGED <<name, meta, doc, pongReceived, pingInterval, alive>>

\* Mutant of TickUnanswered: the interval is cleared, the connection kept.
TickUnansweredKeeps(c) ==
    /\ pingInterval[c] /\ ~pongReceived[c]
    /\ pingInterval' = [pingInterval EXCEPT ![c] = FALSE]
    /\ UNCHANGED <<docVars, doc, controlled, readyState, pongReceived, alive>>

\* The ping interval fires and the last ping was not answered.
TickUnanswered(c) ==
    /\ pingInterval[c] /\ ~pongReceived[c]
    /\ CloseConn(doc[c], c)
    /\ readyState' = CloseSockets(Closing(doc[c], c))
    /\ pingInterval' = [pingInterval EXCEPT ![c] = FALSE]
    /\ UNCHANGED <<name, meta, doc, pongReceived, alive>>

\* The ping interval fires and pings.
TickPing(c) ==
    /\ pingInterval[c] /\ pongReceived[c] /\ Attached(c)
    /\ pongReceived' = [pongReceived EXCEPT ![c] = FALSE]
    /\ UNCHANGED <<docVars, doc, controlled, readyState, pingInterval, alive>>

\* The ping interval fires and conn.ping() throws.
TickPingThrows(c) ==
    /\ pingInterval[c] /\ pongReceived[c] /\ Attached(c)
    /\ CloseConn(doc[c], c)
    /\ readyState' = CloseSockets(Closing(doc[c], c))
    /\ pongReceived' = [pongReceived EXCEPT ![c] = FALSE]
    /\ pingInterval' = [pingInterval EXCEPT ![c] = FALSE]
    /\ UNCHANGED <<name, meta, doc, alive>>

Tick(c) == TickUnanswered(c) \/ TickPing(c) \/ TickPingThrows(c)

\* The "pong" listener.
Pong(c) ==
    /\ Delivers(c) /\ ~pongReceived[c]
    /\ pongReceived' = [pongReceived EXCEPT ![c] = TRUE]
    /\ UNCHANGED <<docVars, doc, controlled, readyState, pingInterval, alive>>

\* The peer's close frame arrives: ws moves the socket to CLOSING before any
\* listener of the server runs.
PeerCloses(c) ==
    /\ Delivers(c)
    /\ readyState' = [readyState EXCEPT ![c] = "closing"]
    /\ alive' = [alive EXCEPT ![c] = FALSE]
    /\ UNCHANGED <<docVars, doc, controlled, pongReceived, pingInterval>>

\* The peer vanishes without a close frame.
PeerDies(c) ==
    /\ Delivers(c)
    /\ alive' = [alive EXCEPT ![c] = FALSE]
    /\ UNCHANGED <<docVars, doc, controlled, readyState, pongReceived, pingInterval>>

\* Mutant of OnClose: the interval is left running.
OnCloseKeepsTimer(c) ==
    /\ readyState[c] = "closing" \/ (readyState[c] = "open" /\ ~alive[c])
    /\ CloseConn(doc[c], c)
    /\ readyState' = [CloseSockets(Closing(doc[c], c)) EXCEPT ![c] = "closed"]
    /\ alive' = [alive EXCEPT ![c] = FALSE]
    /\ UNCHANGED <<name, meta, doc, pongReceived, pingInterval>>

\* The "close" listener: ws emits it once the socket is down, which it
\* enforces itself some time after the handshake began.
OnClose(c) ==
    /\ readyState[c] = "closing" \/ (readyState[c] = "open" /\ ~alive[c])
    /\ CloseConn(doc[c], c)
    /\ readyState' = [CloseSockets(Closing(doc[c], c)) EXCEPT ![c] = "closed"]
    /\ pingInterval' = [pingInterval EXCEPT ![c] = FALSE]
    /\ alive' = [alive EXCEPT ![c] = FALSE]
    /\ UNCHANGED <<name, meta, doc, pongReceived>>

\* writeState's promise has resolved: doc.destroy().
Destroy(d) ==
    /\ life[d] = "closing"
    /\ life' = [life EXCEPT ![d] = "destroyed"]
    /\ UNCHANGED <<docs, name, conns, states, meta, connVars>>

\* The process dies and is restarted: nothing in memory survives.
Crash ==
    /\ docs' = [n \in Names |-> NoDoc]
    /\ life' = [d \in Docs |-> IF life[d] = "unborn" THEN "unborn" ELSE "destroyed"]
    /\ conns' = [d \in Docs |-> {}]
    /\ states' = [d \in Docs |-> {}]
    /\ controlled' = [c \in Conns |-> {}]
    /\ readyState' = [c \in Conns |-> IF readyState[c] = "idle" THEN "idle" ELSE "closed"]
    /\ pingInterval' = [c \in Conns |-> FALSE]
    /\ alive' = [c \in Conns |-> FALSE]
    /\ UNCHANGED <<name, meta, doc, pongReceived>>

Next ==
    \/ \E c \in Conns :
         \/ \E n \in Names, d \in Docs : SetupWSConnection(c, n, d)
         \/ \E u \in Clients, k \in 1..MaxClock, present \in BOOLEAN :
              RecvAwareness(c, u, k, present)
         \/ RecvUpdate(c)
         \/ SendError(c)
         \/ Tick(c)
         \/ Pong(c)
         \/ PeerCloses(c)
         \/ PeerDies(c)
         \/ OnClose(c)
    \/ \E d \in Docs :
         \/ \E U \in SUBSET Clients : AwarenessTimeout(d, U)
         \/ UpdateFromDisk(d)
         \/ Destroy(d)
    \/ Crash

Spec == Init /\ [][Next]_vars

\* Timers fire, ws emits "close" for a socket that is closing, promises resolve.
Fairness ==
    /\ \A c \in Conns : WF_vars(Tick(c)) /\ WF_vars(OnClose(c) /\ readyState[c] = "closing")
    /\ \A d \in Docs : WF_vars(Destroy(d))

FairSpec == Spec /\ Fairness

-----------------------------------------------------------------------------
(* Properties *)

\* Every variable has its type; an instance that is constructed has a name.
TypeOK ==
    /\ docs \in [Names -> Docs \cup {NoDoc}]
    /\ name \in [Docs -> Names \cup {NoName}]
    /\ life \in [Docs -> Lives]
    /\ conns \in [Docs -> SUBSET Conns]
    /\ states \in [Docs -> SUBSET Clients]
    /\ meta \in [Docs -> [Clients -> 0..MaxClock]]
    /\ doc \in [Conns -> Docs \cup {NoDoc}]
    /\ controlled \in [Conns -> SUBSET Clients]
    /\ readyState \in [Conns -> ReadyStates]
    /\ pongReceived \in [Conns -> BOOLEAN]
    /\ pingInterval \in [Conns -> BOOLEAN]
    /\ alive \in [Conns -> BOOLEAN]

\* Every attached connection still has its heartbeat, so a peer that dies is
\* noticed (every clearInterval goes with a closeConn).
HeartbeatWhileAttached ==
    \A c \in Conns : Attached(c) => pingInterval[c]

\* At most one connection controls a client id, so a closing connection takes away
\* no cursor that another one announced (awarenessChangeHandler adds only on
\* "added").  A client that was announced here and is updated from elsewhere stays
\* with this connection, and goes with it.
UniqueController ==
    \A c1, c2 \in Conns :
        c1 # c2 /\ Attached(c1) /\ Attached(c2) /\ doc[c1] = doc[c2]
        => controlled[c1] \cap controlled[c2] = {}

\* Why UniqueController holds: a listener knows the one instance its
\* connection was attached to, and a controlled client has been seen there,
\* so it is never "added" a second time.
ControlledWasSeen ==
    \A c \in Conns, d \in Docs : c \in conns[d] =>
        /\ doc[c] = d
        /\ readyState[c] # "idle"
        /\ \A u \in controlled[c] : meta[d][u] # 0

\* A connection not accepted yet controls nothing.
IdleControlsNothing ==
    \A c \in Conns : readyState[c] = "idle" => controlled[c] = {}

\* A connection whose peer is gone is detached: by the heartbeat, a failed
\* send, a broadcast or its "close" event, whichever comes first.
DeadPeerDetached ==
    \A c \in Conns : (Attached(c) /\ ~alive[c]) ~> ~Attached(c)

\* A detached connection does not keep its ping interval (and with it the
\* instance) forever.
TimersReleased ==
    \A c \in Conns : (pingInterval[c] /\ ~Attached(c)) ~> ~pingInterval[c]

-----------------------------------------------------------------------------
(* The abstract specification this implements: see DocSessions *)

\* The instance a connection takes part in.
Place == [c \in Conns |-> IF Attached(c) THEN doc[c] ELSE NoDoc]

Used == {d \in Docs : life[d] # "unborn"}

Came == {c \in Conns : readyState[c] # "idle"}

Sessions == INSTANCE DocSessions WITH
              host <- docs, place <- Place, used <- Used, came <- Came

\* Everybody on a name meets in one instance, made for the first and given up
\* with the last: what setupWSConnection, closeConn and a restart do to the
\* docs Map and the conns Maps, in whatever order sockets close, errors are
\* reported, timers fire and late frames arrive.
OneSessionPerName == Sessions!Spec

\* Why it holds.  No split brain: every instance somebody is connected to is
\* the one the docs Map holds for its name, so two browsers on one name always
\* share an instance (getYDoc, closeConn's docs.delete, late "close" events).
OneInstancePerName ==
    \A d \in Docs : conns[d] # {} => name[d] \in Names /\ docs[name[d]] = d

\* No leak and no corpse: what the docs Map holds is a live instance of that
\* name that somebody is connected to (closeConn frees the name of the last).
NoIdleDoc ==
    \A n \in Names : docs[n] # NoDoc =>
        /\ name[docs[n]] = n
        /\ life[docs[n]] = "live"
        /\ conns[docs[n]] # {}

=============================================================================
