-------------------------- MODULE YjsServerProofs --------------------------
(* Proofs about YjsServer for every number of names, instances,            *)
(* connections, clients and every bound on clocks.                         *)
EXTENDS YjsServer, TLAPS

\* What every use of CloseAll is: some of d's connections are closed.
LEMMA ClosingAttached ==
    ASSUME NEW d, NEW c
    PROVE  Closing(d, c) \subseteq conns[d] /\ Dead(d) \subseteq conns[d]
BY DEF Closing, Dead

LEMMA CloseSocketsType ==
    ASSUME readyState \in [Conns -> ReadyStates], NEW S
    PROVE  CloseSockets(S) \in [Conns -> ReadyStates]
BY DEF CloseSockets, ReadyStates

\* Closing connections keeps the type of what it writes.
LEMMA CloseAllType ==
    ASSUME TypeOK, NEW d \in Docs, NEW S,
           NEW st \in SUBSET Clients, NEW ctl \in [Conns -> SUBSET Clients],
           CloseAll(d, S, st, ctl)
    PROVE  /\ docs' \in [Names -> Docs \cup {NoDoc}]
           /\ life' \in [Docs -> Lives]
           /\ conns' \in [Docs -> SUBSET Conns]
           /\ states' \in [Docs -> SUBSET Clients]
           /\ controlled' \in [Conns -> SUBSET Clients]
BY DEF CloseAll, TypeOK, Lives

\* The captured instance of a connection that is attached or delivers is one.
LEMMA CapturedDoc ==
    ASSUME TypeOK, NEW c \in Conns, doc[c] # NoDoc
    PROVE  doc[c] \in Docs
BY DEF TypeOK

\* An accepted connection has captured an instance.
Captured == \A c \in Conns : readyState[c] # "idle" \/ pingInterval[c] => doc[c] \in Docs

LEMMA InitTypeOK == ConstantsAssumption /\ Init => TypeOK /\ Captured
BY DEF Init, TypeOK, Captured, Lives, ReadyStates, ConstantsAssumption

\* Every action keeps the types.
LEMMA NextTypeOK ==
    ASSUME ConstantsAssumption, TypeOK, Captured, [Next]_vars
    PROVE  TypeOK' /\ Captured'
<1> USE DEF TypeOK, Captured
<1>1. ASSUME NEW c \in Conns, NEW n \in Names, NEW d \in Docs,
             SetupWSConnection(c, n, d)
      PROVE  TypeOK' /\ Captured'
  <2>1. CASE UNCHANGED <<docs, name, life>>
    BY <1>1, <2>1 DEF SetupWSConnection, ReadyStates
  <2>2. CASE /\ docs' = [docs EXCEPT ![n] = d]
             /\ name' = [name EXCEPT ![d] = n]
             /\ life' = [life EXCEPT ![d] = "live"]
    BY <1>1, <2>2 DEF SetupWSConnection, Lives, ReadyStates
  <2>3. QED
    BY <1>1, <2>1, <2>2 DEF SetupWSConnection, GetYDoc
<1>2. ASSUME NEW c \in Conns, NEW u \in Clients, NEW k \in 1..MaxClock,
             NEW present \in BOOLEAN, RecvAwareness(c, u, k, present)
      PROVE  TypeOK' /\ Captured'
  <2> DEFINE d == doc[c]
             st == IF present THEN states[d] \cup {u} ELSE states[d] \ {u}
             ctl == [controlled EXCEPT ![c] = Controls(c, d, u, present)]
  <2>1. d \in Docs
    BY <1>2 DEF RecvAwareness, Delivers
  <2>2. st \in SUBSET Clients
    BY <2>1
  <2>3. ctl \in [Conns -> SUBSET Clients]
    BY <2>1 DEF Controls
  <2>4. meta' \in [Docs -> [Clients -> 0..MaxClock]]
    BY <1>2, <2>1 DEF RecvAwareness, ConstantsAssumption
  <2>5. CASE CloseAll(d, Dead(d), st, ctl) /\ readyState' = CloseSockets(Dead(d))
    BY <1>2, <2>1, <2>2, <2>3, <2>4, <2>5, CloseAllType, CloseSocketsType
       DEF RecvAwareness, CloseSockets
  <2>6. CASE /\ states' = [states EXCEPT ![d] = st]
             /\ UNCHANGED <<docs, life, conns, controlled, readyState>>
    BY <1>2, <2>1, <2>2, <2>4, <2>6 DEF RecvAwareness
  <2>7. QED
    BY <1>2, <2>5, <2>6 DEF RecvAwareness
<1>3. ASSUME NEW c \in Conns, RecvUpdate(c)
      PROVE  TypeOK' /\ Captured'
  <2>1. doc[c] \in Docs
    BY <1>3 DEF RecvUpdate, Delivers
  <2>2. CASE life[doc[c]] = "destroyed"
    BY <1>3, <2>2 DEF RecvUpdate
  <2>3. CASE life[doc[c]] # "destroyed"
    <3>1. /\ CloseAll(doc[c], Dead(doc[c]), states[doc[c]], controlled)
          /\ readyState' = CloseSockets(Dead(doc[c]))
          /\ UNCHANGED <<name, meta, doc, pongReceived, pingInterval, alive>>
      BY <1>3, <2>3 DEF RecvUpdate, Broadcast
    <3>2. QED
      BY <2>1, <3>1, CloseAllType, CloseSocketsType DEF CloseSockets
  <2>4. QED
    BY <2>2, <2>3
<1>4. ASSUME NEW d \in Docs, NEW U \in SUBSET Clients, AwarenessTimeout(d, U)
      PROVE  TypeOK' /\ Captured'
  BY <1>4, CloseAllType, CloseSocketsType DEF AwarenessTimeout, CloseSockets
<1>4a. ASSUME NEW d \in Docs, UpdateFromDisk(d)
       PROVE  TypeOK' /\ Captured'
  BY <1>4a, CloseAllType, CloseSocketsType
     DEF UpdateFromDisk, Broadcast, CloseSockets
<1>5. ASSUME NEW c \in Conns, SendError(c)
      PROVE  TypeOK' /\ Captured'
  BY <1>5, CloseAllType, CloseSocketsType
     DEF SendError, Attached, CloseConn, CloseSockets
<1>6. ASSUME NEW c \in Conns, Tick(c)
      PROVE  TypeOK' /\ Captured'
  <2>1. doc[c] \in Docs
    BY <1>6 DEF Tick, TickUnanswered, TickPing, TickPingThrows
  <2>2. CASE TickUnanswered(c)
    BY <2>1, <2>2, CloseAllType, CloseSocketsType
       DEF TickUnanswered, CloseConn, CloseSockets
  <2>3. CASE TickPing(c)
    BY <2>3 DEF TickPing, docVars
  <2>4. CASE TickPingThrows(c)
    BY <2>1, <2>4, CloseAllType, CloseSocketsType
       DEF TickPingThrows, CloseConn, CloseSockets
  <2>5. QED
    BY <1>6, <2>2, <2>3, <2>4 DEF Tick
<1>7. ASSUME NEW c \in Conns, Pong(c) \/ PeerCloses(c) \/ PeerDies(c)
      PROVE  TypeOK' /\ Captured'
  BY <1>7 DEF Pong, PeerCloses, PeerDies, Delivers, docVars, ReadyStates
<1>8. ASSUME NEW c \in Conns, OnClose(c)
      PROVE  TypeOK' /\ Captured'
  <2>1. doc[c] \in Docs
    BY <1>8 DEF OnClose
  <2>2. QED
    BY <1>8, <2>1, CloseAllType, CloseSocketsType
       DEF OnClose, CloseConn, CloseSockets, ReadyStates
<1>9. ASSUME NEW d \in Docs, Destroy(d)
      PROVE  TypeOK' /\ Captured'
  BY <1>9 DEF Destroy, connVars, Lives
<1>10. CASE Crash
  BY <1>10 DEF Crash, Lives, ReadyStates
<1>11. CASE UNCHANGED vars
  BY <1>11 DEF vars
<1>12. QED
  BY <1>1, <1>2, <1>3, <1>4, <1>4a, <1>5, <1>6, <1>7, <1>8, <1>9, <1>10, <1>11 DEF Next

\* Type correctness of the server, for all values of the constants.
THEOREM TypeCorrect == Spec => []TypeOK
<1>1. Init => TypeOK /\ Captured
  BY InitTypeOK, ConstantsAssumption
<1>2. (TypeOK /\ Captured) /\ [Next]_vars => (TypeOK /\ Captured)'
  BY NextTypeOK, ConstantsAssumption
<1>3. QED
  BY <1>1, <1>2, PTL DEF Spec

-----------------------------------------------------------------------------
(* The life of an instance and the docs Map *)

Lifecycle == OneInstancePerName /\ NoIdleDoc

\* Closing connections of one instance cannot touch the name of another: the
\* name it frees is its own, because only a mapped instance has connections.
LEMMA CloseAllLifecycle ==
    ASSUME ConstantsAssumption, TypeOK, Lifecycle, NEW d \in Docs,
           NEW S, S \subseteq conns[d], NEW st, NEW ctl,
           CloseAll(d, S, st, ctl), UNCHANGED name
    PROVE  Lifecycle'
<1> USE DEF TypeOK, ConstantsAssumption
<1>1. conns' = [conns EXCEPT ![d] = @ \ S]
  BY DEF CloseAll
<1>2. CASE S # {} /\ conns[d] \subseteq S
  <2>1. /\ docs' = [docs EXCEPT ![name[d]] = NoDoc]
        /\ life' = [life EXCEPT ![d] = "closing"]
    BY <1>2 DEF CloseAll
  <2>2. conns'[d] = {} /\ \A e \in Docs : e # d => conns'[e] = conns[e]
    BY <1>1, <1>2
  <2>3. name[d] \in Names /\ docs[name[d]] = d
    BY <1>2 DEF Lifecycle, OneInstancePerName
  <2>4. ASSUME NEW e \in Docs, conns'[e] # {}
        PROVE  name'[e] \in Names /\ docs'[name'[e]] = e
    <3>1. e # d /\ conns[e] # {}
      BY <2>2, <2>4
    <3>2. name[e] \in Names /\ docs[name[e]] = e
      BY <3>1 DEF Lifecycle, OneInstancePerName
    <3>3. name[e] # name[d]
      BY <2>3, <3>1, <3>2
    <3>4. QED
      BY <2>1, <3>2, <3>3
  <2>5. ASSUME NEW n \in Names, docs'[n] # NoDoc
        PROVE  /\ name'[docs'[n]] = n
               /\ life'[docs'[n]] = "live"
               /\ conns'[docs'[n]] # {}
    <3>1. n # name[d] /\ docs'[n] = docs[n]
      BY <2>1, <2>3, <2>5
    <3>2. /\ docs[n] \in Docs /\ name[docs[n]] = n
          /\ life[docs[n]] = "live" /\ conns[docs[n]] # {}
      BY <3>1, <2>5 DEF Lifecycle, NoIdleDoc
    <3>3. docs[n] # d
      BY <3>1, <3>2
    <3>4. QED
      BY <2>1, <2>2, <3>1, <3>2, <3>3
  <2>6. QED
    BY <2>4, <2>5 DEF Lifecycle, OneInstancePerName, NoIdleDoc
<1>3. CASE ~(S # {} /\ conns[d] \subseteq S)
  <2>1. UNCHANGED <<docs, life, name>>
    BY <1>3 DEF CloseAll
  <2>2. ASSUME NEW e \in Docs
        PROVE  conns'[e] # {} <=> conns[e] # {}
    <3>1. CASE e # d
      BY <1>1, <3>1
    <3>2. CASE e = d /\ S = {}
      BY <1>1, <3>2
    <3>3. CASE e = d /\ ~(conns[d] \subseteq S)
      <4>1. conns'[d] = conns[d] \ S
        BY <1>1
      <4>2. QED
        BY <3>3, <4>1
    <3>4. QED
      BY <1>3, <3>1, <3>2, <3>3
  <2>3. ASSUME NEW e \in Docs, conns'[e] # {}
        PROVE  name'[e] \in Names /\ docs'[name'[e]] = e
    BY <2>1, <2>2, <2>3 DEF Lifecycle, OneInstancePerName
  <2>4. ASSUME NEW n \in Names, docs'[n] # NoDoc
        PROVE  /\ name'[docs'[n]] = n
               /\ life'[docs'[n]] = "live"
               /\ conns'[docs'[n]] # {}
    <3>1. docs[n] \in Docs /\ docs'[n] = docs[n]
      BY <2>1, <2>4
    <3>2. QED
      BY <2>1, <2>2, <2>4, <3>1 DEF Lifecycle, NoIdleDoc
  <2>5. QED
    BY <2>3, <2>4 DEF Lifecycle, OneInstancePerName, NoIdleDoc
<1>4. QED
  BY <1>2, <1>3

\* A new connection finds the mapped instance or maps a fresh one.
LEMMA SetupLifecycle ==
    ASSUME ConstantsAssumption, TypeOK, Lifecycle,
           NEW c \in Conns, NEW n \in Names, NEW d \in Docs,
           SetupWSConnection(c, n, d)
    PROVE  Lifecycle'
<1> USE DEF TypeOK, ConstantsAssumption, SetupWSConnection
<1>1. conns' = [conns EXCEPT ![d] = @ \cup {c}]
  OBVIOUS
<1>2. CASE docs[n] = d /\ UNCHANGED <<docs, name, life>>
  <2>1. name[d] = n /\ \A e \in Docs : e # d => conns'[e] = conns[e]
    BY <1>1, <1>2 DEF Lifecycle, NoIdleDoc
  <2>2. QED
    BY <1>1, <1>2, <2>1 DEF Lifecycle, OneInstancePerName, NoIdleDoc
<1>3. CASE /\ docs[n] = NoDoc /\ life[d] = "unborn"
           /\ docs' = [docs EXCEPT ![n] = d]
           /\ name' = [name EXCEPT ![d] = n]
           /\ life' = [life EXCEPT ![d] = "live"]
  <2>1. \A m \in Names : docs[m] # d
    BY <1>3 DEF Lifecycle, NoIdleDoc
  <2>2. ASSUME NEW e \in Docs, conns'[e] # {}
        PROVE  name'[e] \in Names /\ docs'[name'[e]] = e
    <3>1. CASE e = d
      BY <1>3, <3>1
    <3>2. CASE e # d
      <4>1. name[e] \in Names /\ docs[name[e]] = e /\ name'[e] = name[e]
        BY <1>1, <1>3, <2>2, <3>2 DEF Lifecycle, OneInstancePerName
      <4>2. name[e] # n
        BY <1>3, <4>1
      <4>3. QED
        BY <1>3, <4>1, <4>2
    <3>3. QED
      BY <3>1, <3>2
  <2>3. ASSUME NEW m \in Names, docs'[m] # NoDoc
        PROVE  /\ name'[docs'[m]] = m
               /\ life'[docs'[m]] = "live"
               /\ conns'[docs'[m]] # {}
    <3>1. CASE m = n
      BY <1>1, <1>3, <3>1
    <3>2. CASE m # n
      <4>1. docs'[m] = docs[m] /\ docs[m] \in Docs /\ docs[m] # d
        BY <1>3, <2>1, <2>3, <3>2
      <4>2. /\ name[docs[m]] = m /\ life[docs[m]] = "live"
            /\ conns[docs[m]] # {}
        BY <2>3, <4>1 DEF Lifecycle, NoIdleDoc
      <4>3. QED
        BY <1>1, <1>3, <4>1, <4>2
    <3>3. QED
      BY <3>1, <3>2
  <2>4. QED
    BY <2>2, <2>3 DEF Lifecycle, OneInstancePerName, NoIdleDoc
<1>4. QED
  BY <1>2, <1>3 DEF GetYDoc

\* What is not a connection, a destroy or a crash.
Callback ==
    \/ \E c \in Conns :
         \/ \E u \in Clients, k \in 1..MaxClock, present \in BOOLEAN :
              RecvAwareness(c, u, k, present)
         \/ RecvUpdate(c) \/ SendError(c) \/ Tick(c) \/ Pong(c)
         \/ PeerCloses(c) \/ PeerDies(c) \/ OnClose(c)
    \/ \E d \in Docs :
         \/ \E U \in SUBSET Clients : AwarenessTimeout(d, U)
         \/ UpdateFromDisk(d)

Closes ==
    \E d \in Docs, S \in SUBSET Conns : \E st, ctl :
        /\ S \subseteq conns[d]
        /\ CloseAll(d, S, st, ctl)
        /\ UNCHANGED <<name, doc>>

Still == UNCHANGED <<docs, name, life, conns, doc>>

\* A callback closes some connections of one instance, or none at all.
LEMMA CallbackShape ==
    ASSUME TypeOK, Captured, Callback
    PROVE  Closes \/ Still
<1>0. ASSUME NEW d \in Docs, NEW S, NEW st, NEW ctl, S \subseteq conns[d],
             CloseAll(d, S, st, ctl), UNCHANGED <<name, doc>>
      PROVE  Closes
  <2>1. S \in SUBSET Conns
    BY <1>0 DEF TypeOK
  <2>2. QED
    BY <1>0, <2>1 DEF Closes
<1> USE DEF Still
<1>1. ASSUME NEW c \in Conns, NEW u \in Clients, NEW k \in 1..MaxClock,
             NEW present \in BOOLEAN, RecvAwareness(c, u, k, present)
      PROVE  Closes \/ Still
  BY <1>0, <1>1, ClosingAttached DEF RecvAwareness, Captured, Delivers
<1>2. ASSUME NEW c \in Conns, RecvUpdate(c)
      PROVE  Closes \/ Still
  BY <1>0, <1>2, ClosingAttached DEF RecvUpdate, Broadcast, Captured, Delivers
<1>3. ASSUME NEW d \in Docs, NEW U \in SUBSET Clients, AwarenessTimeout(d, U)
      PROVE  Closes
  BY <1>0, <1>3, ClosingAttached DEF AwarenessTimeout
<1>3a. ASSUME NEW d \in Docs, UpdateFromDisk(d)
       PROVE  Closes
  BY <1>0, <1>3a, ClosingAttached DEF UpdateFromDisk, Broadcast
<1>4. ASSUME NEW c \in Conns, SendError(c)
      PROVE  Closes
  <2>1. doc[c] \in Docs
    BY <1>4 DEF SendError, Attached, TypeOK
  <2>2. QED
    BY <1>0, <1>4, <2>1, ClosingAttached DEF SendError, CloseConn
<1>5. ASSUME NEW c \in Conns, Tick(c)
      PROVE  Closes \/ Still
  <2>1. doc[c] \in Docs
    BY <1>5 DEF Captured, Tick, TickUnanswered, TickPing, TickPingThrows
  <2>2. CASE TickUnanswered(c) \/ TickPingThrows(c)
    BY <1>0, <2>1, <2>2, ClosingAttached
       DEF TickUnanswered, TickPingThrows, CloseConn
  <2>3. CASE TickPing(c)
    BY <2>3 DEF TickPing, docVars
  <2>4. QED
    BY <1>5, <2>2, <2>3 DEF Tick
<1>6. ASSUME NEW c \in Conns, Pong(c) \/ PeerCloses(c) \/ PeerDies(c)
      PROVE  Still
  BY <1>6 DEF Pong, PeerCloses, PeerDies, docVars
<1>7. ASSUME NEW c \in Conns, OnClose(c)
      PROVE  Closes
  <2>1. doc[c] \in Docs
    BY <1>7 DEF OnClose, Captured
  <2>2. QED
    BY <1>0, <1>7, <2>1, ClosingAttached DEF OnClose, CloseConn
<1>8. QED
  BY <1>1, <1>2, <1>3, <1>3a, <1>4, <1>5, <1>6, <1>7 DEF Callback

LEMMA Shapes ==
    ASSUME TypeOK, Captured, [Next]_vars
    PROVE  \/ \E c \in Conns, n \in Names, d \in Docs : SetupWSConnection(c, n, d)
           \/ \E d \in Docs, S \in SUBSET Conns : \E st, ctl :
                /\ S \subseteq conns[d]
                /\ CloseAll(d, S, st, ctl)
                /\ UNCHANGED <<name, doc>>
           \/ UNCHANGED <<docs, name, life, conns, doc>>
           \/ \E d \in Docs : Destroy(d)
           \/ Crash
<1>1. CASE Callback
  BY <1>1, CallbackShape, Zenon DEF Closes, Still
<1>2. CASE UNCHANGED vars
  BY <1>2 DEF vars
<1>3. QED
  BY <1>1, <1>2, Zenon DEF Next, Callback

LEMMA NextLifecycle ==
    ASSUME ConstantsAssumption, TypeOK, Captured, Lifecycle, [Next]_vars
    PROVE  Lifecycle'
<1>1. ASSUME NEW c \in Conns, NEW n \in Names, NEW d \in Docs,
             SetupWSConnection(c, n, d)
      PROVE  Lifecycle'
  BY <1>1, SetupLifecycle
<1>2. ASSUME NEW d \in Docs, NEW S \in SUBSET Conns, NEW st, NEW ctl,
             S \subseteq conns[d], CloseAll(d, S, st, ctl), UNCHANGED <<name, doc>>
      PROVE  Lifecycle'
  BY <1>2, CloseAllLifecycle
<1>3. CASE UNCHANGED <<docs, name, life, conns, doc>>
  BY <1>3 DEF Lifecycle, OneInstancePerName, NoIdleDoc
<1>4. ASSUME NEW d \in Docs, Destroy(d)
      PROVE  Lifecycle'
  BY <1>4 DEF Destroy, TypeOK, Lifecycle, OneInstancePerName, NoIdleDoc
<1>5. CASE Crash
  BY <1>5 DEF Crash, Lifecycle, OneInstancePerName, NoIdleDoc
<1>6. QED
  BY <1>1, <1>2, <1>3, <1>4, <1>5, Shapes

\* No split brain and no leak: the instance anybody is connected to is the
\* one the docs Map holds for its name, and the Map holds nothing else.
THEOREM OneLiveInstance == Spec => [](OneInstancePerName /\ NoIdleDoc)
<1>1. Init => TypeOK /\ Captured /\ Lifecycle
  BY InitTypeOK, ConstantsAssumption
     DEF Init, Lifecycle, OneInstancePerName, NoIdleDoc
<1>2. (TypeOK /\ Captured /\ Lifecycle) /\ [Next]_vars
        => (TypeOK /\ Captured /\ Lifecycle)'
  BY NextTypeOK, NextLifecycle, ConstantsAssumption
<1>3. Lifecycle => OneInstancePerName /\ NoIdleDoc
  BY DEF Lifecycle
<1>4. QED
  BY <1>1, <1>2, <1>3, PTL DEF Spec

-----------------------------------------------------------------------------
(* Who controls a client's presence *)

Control == ControlledWasSeen /\ IdleControlsNothing /\ UniqueController

\* A step that only detaches connections, drops controlled clients and moves
\* clocks up disturbs nothing.
LEMMA ShrinkControl ==
    ASSUME TypeOK, TypeOK', Control, doc' = doc,
           \A d \in Docs : conns'[d] \subseteq conns[d],
           \A c \in Conns : controlled'[c] \subseteq controlled[c],
           \A c \in Conns : readyState'[c] = "idle" <=> readyState[c] = "idle",
           \A d \in Docs, u \in Clients : meta[d][u] # 0 => meta'[d][u] # 0
    PROVE  Control'
<1>1. ControlledWasSeen'
  <2>1. ASSUME NEW c \in Conns, NEW d \in Docs, c \in conns'[d]
        PROVE  /\ doc'[c] = d /\ readyState'[c] # "idle"
               /\ \A u \in controlled'[c] : meta'[d][u] # 0
    <3>1. /\ doc[c] = d /\ readyState[c] # "idle"
          /\ \A u \in controlled[c] : meta[d][u] # 0
      BY <2>1 DEF Control, ControlledWasSeen
    <3>2. controlled[c] \subseteq Clients
      BY DEF TypeOK
    <3>3. QED
      BY <3>1, <3>2
  <2>2. QED
    BY <2>1 DEF ControlledWasSeen
<1>2. IdleControlsNothing'
  BY DEF Control, IdleControlsNothing
<1>3. UniqueController'
  <2>1. \A c \in Conns : Attached(c)' => Attached(c)
    BY DEF Attached, TypeOK
  <2>2. QED
    BY <2>1 DEF Control, UniqueController
<1>4. QED
  BY <1>1, <1>2, <1>3 DEF Control

\* What CloseAll and CloseSockets do to the facts ShrinkControl asks for.
LEMMA CloseAllShrinks ==
    ASSUME TypeOK, NEW d \in Docs, NEW S, NEW st,
           CloseAll(d, S, st, controlled)
    PROVE  /\ \A e \in Docs : conns'[e] \subseteq conns[e]
           /\ \A c \in Conns : controlled'[c] \subseteq controlled[c]
BY DEF CloseAll, TypeOK

LEMMA CloseSocketsIdle ==
    ASSUME NEW S, NEW c \in Conns
    PROVE  CloseSockets(S)[c] = "idle" <=> readyState[c] = "idle"
BY DEF CloseSockets

\* An idle connection is attached nowhere, so a new one brings nothing along.
LEMMA SetupControl ==
    ASSUME ConstantsAssumption, TypeOK, Control,
           NEW c \in Conns, NEW n \in Names, NEW d \in Docs,
           SetupWSConnection(c, n, d)
    PROVE  Control'
<1> USE DEF TypeOK, ConstantsAssumption, Control
<1>1. /\ conns' = [conns EXCEPT ![d] = @ \cup {c}]
      /\ doc' = [doc EXCEPT ![c] = d]
      /\ readyState' = [readyState EXCEPT ![c] = "open"]
      /\ UNCHANGED <<controlled, meta>>
      /\ readyState[c] = "idle"
  BY DEF SetupWSConnection
<1>2. controlled[c] = {} /\ \A e \in Docs : c \notin conns[e]
  BY <1>1 DEF IdleControlsNothing, ControlledWasSeen
<1>3. ControlledWasSeen'
  <2>1. ASSUME NEW x \in Conns, NEW e \in Docs, x \in conns'[e]
        PROVE  /\ doc'[x] = e /\ readyState'[x] # "idle"
               /\ \A u \in controlled'[x] : meta'[e][u] # 0
    <3>1. CASE x = c
      BY <1>1, <1>2, <2>1, <3>1
    <3>2. CASE x # c
      BY <1>1, <2>1, <3>2 DEF ControlledWasSeen
    <3>3. QED
      BY <3>1, <3>2
  <2>2. QED
    BY <2>1 DEF ControlledWasSeen
<1>4. IdleControlsNothing'
  BY <1>1 DEF IdleControlsNothing
<1>5. UniqueController'
  <2>1. \A x \in Conns : x # c /\ Attached(x)' => Attached(x)
    BY <1>1 DEF Attached
  <2>2. QED
    BY <1>1, <1>2, <2>1 DEF UniqueController
<1>6. QED
  BY <1>3, <1>4, <1>5

\* Only a client never seen in the instance comes under control, so no other
\* connection can control it already.
LEMMA AwarenessControl ==
    ASSUME ConstantsAssumption, TypeOK, TypeOK', Captured, Control,
           NEW c \in Conns, NEW u \in Clients, NEW k \in 1..MaxClock,
           NEW present \in BOOLEAN, RecvAwareness(c, u, k, present)
    PROVE  Control'
<1> DEFINE d == doc[c]
           grown == [controlled EXCEPT ![c] = Controls(c, d, u, present)]
<1>1. /\ d \in Docs /\ doc' = doc
      /\ meta' = [meta EXCEPT ![d][u] = k] /\ k # 0
      /\ readyState[c] # "idle"
  BY DEF RecvAwareness, Delivers, Captured, ConstantsAssumption
<1>2. \A e \in Docs, v \in Clients : meta[e][v] # 0 => meta'[e][v] # 0
  BY <1>1 DEF TypeOK
<1>3. CASE UNCHANGED <<conns, controlled, readyState>>
  BY <1>1, <1>2, <1>3, ShrinkControl
<1>4. CASE /\ \E st : CloseAll(d, Dead(d), st, grown)
           /\ readyState' = CloseSockets(Dead(d))
  <2>1. /\ \A e \in Docs : conns'[e] \subseteq conns[e]
        /\ \A x \in Conns : controlled'[x] \subseteq grown[x]
    BY <1>1, <1>4 DEF CloseAll, TypeOK
  <2>2. \A x \in Conns : readyState'[x] = "idle" <=> readyState[x] = "idle"
    BY <1>4, CloseSocketsIdle
  <2>3. CASE c \in conns[d] /\ present /\ meta[d][u] = 0
    <3>1. \A x \in Conns : x # c => controlled'[x] \subseteq controlled[x]
      BY <2>1 DEF TypeOK
    <3>2. controlled'[c] \subseteq controlled[c] \cup {u}
      BY <2>1, <2>3 DEF TypeOK, Controls
    <3>3. meta'[d][u] # 0
      BY <1>1 DEF TypeOK
    <3>4. \A x \in Conns : x # c /\ x \in conns[d] => u \notin controlled[x]
      BY <1>1, <2>3 DEF Control, ControlledWasSeen
    <3>5. ControlledWasSeen'
      <4>1. ASSUME NEW x \in Conns, NEW e \in Docs, x \in conns'[e]
            PROVE  /\ doc'[x] = e /\ readyState'[x] # "idle"
                   /\ \A v \in controlled'[x] : meta'[e][v] # 0
        <5>1. /\ doc[x] = e /\ readyState[x] # "idle"
              /\ \A v \in controlled[x] : meta[e][v] # 0
          BY <2>1, <4>1 DEF Control, ControlledWasSeen
        <5>2. controlled[x] \subseteq Clients
          BY DEF TypeOK
        <5>3. \A v \in controlled'[x] : v \in controlled[x] \/ (v = u /\ x = c)
          BY <3>1, <3>2
        <5>4. x = c => e = d
          BY <5>1
        <5>5. \A v \in controlled'[x] : meta'[e][v] # 0
          BY <1>2, <3>3, <5>1, <5>2, <5>3, <5>4
        <5>6. QED
          BY <1>1, <2>2, <5>1, <5>5
      <4>2. QED
        BY <4>1 DEF ControlledWasSeen
    <3>6. IdleControlsNothing'
      BY <1>1, <2>2, <3>1 DEF Control, IdleControlsNothing
    <3>7. UniqueController'
      <4>1. \A x \in Conns : Attached(x)' => Attached(x)
        BY <1>1, <2>1 DEF Attached, TypeOK
      <4>2. ASSUME NEW x \in Conns, NEW y \in Conns, x # y,
                   Attached(x)', Attached(y)', doc'[x] = doc'[y]
            PROVE  controlled'[x] \cap controlled'[y] = {}
        <5>1. /\ Attached(x) /\ Attached(y) /\ doc[x] = doc[y]
              /\ controlled[x] \cap controlled[y] = {}
          BY <1>1, <4>1, <4>2 DEF Control, UniqueController
        <5>2. CASE x = c
          BY <3>1, <3>2, <3>4, <4>2, <5>1, <5>2 DEF Attached
        <5>3. CASE y = c
          BY <3>1, <3>2, <3>4, <4>2, <5>1, <5>3 DEF Attached
        <5>4. CASE x # c /\ y # c
          BY <3>1, <5>1, <5>4
        <5>5. QED
          BY <5>2, <5>3, <5>4
      <4>3. QED
        BY <4>2 DEF UniqueController
    <3>8. QED
      BY <3>5, <3>6, <3>7 DEF Control
  <2>4. CASE ~(c \in conns[d] /\ present /\ meta[d][u] = 0)
    <3>1. \A x \in Conns : controlled'[x] \subseteq controlled[x]
      BY <2>1, <2>4 DEF TypeOK, Controls
    <3>2. QED
      BY <1>1, <1>2, <2>1, <2>2, <3>1, ShrinkControl
  <2>5. QED
    BY <2>3, <2>4
<1>5. QED
  BY <1>3, <1>4 DEF RecvAwareness

LEMMA NextControl ==
    ASSUME ConstantsAssumption, TypeOK, TypeOK', Captured, Control, [Next]_vars
    PROVE  Control'
<1>1. ASSUME NEW c \in Conns, NEW n \in Names, NEW d \in Docs,
             SetupWSConnection(c, n, d)
      PROVE  Control'
  BY <1>1, SetupControl
<1>2. ASSUME NEW c \in Conns, NEW u \in Clients, NEW k \in 1..MaxClock,
             NEW present \in BOOLEAN, RecvAwareness(c, u, k, present)
      PROVE  Control'
  BY <1>2, AwarenessControl
<1>3. ASSUME NEW d \in Docs, NEW S, NEW st, CloseAll(d, S, st, controlled),
             \A c \in Conns : readyState'[c] = "idle" <=> readyState[c] = "idle",
             doc' = doc, meta' = meta
      PROVE  Control'
  BY <1>3, CloseAllShrinks, ShrinkControl
<1>4. ASSUME UNCHANGED <<conns, controlled, meta, doc>>,
             \A c \in Conns : readyState'[c] = "idle" <=> readyState[c] = "idle"
      PROVE  Control'
  BY <1>4, ShrinkControl
<1>5. ASSUME NEW c \in Conns, RecvUpdate(c)
      PROVE  Control'
  BY <1>3, <1>4, <1>5, CloseSocketsIdle
     DEF RecvUpdate, Broadcast, Captured, Delivers
<1>6. ASSUME NEW d \in Docs, NEW U \in SUBSET Clients, AwarenessTimeout(d, U)
      PROVE  Control'
  BY <1>3, <1>6, CloseSocketsIdle DEF AwarenessTimeout
<1>6a. ASSUME NEW d \in Docs, UpdateFromDisk(d)
       PROVE  Control'
  BY <1>3, <1>6a, CloseSocketsIdle DEF UpdateFromDisk, Broadcast
<1>7. ASSUME NEW c \in Conns, SendError(c)
      PROVE  Control'
  BY <1>3, <1>7, CloseSocketsIdle DEF SendError, Attached, CloseConn, TypeOK
<1>8. ASSUME NEW c \in Conns, Tick(c)
      PROVE  Control'
  <2>1. doc[c] \in Docs
    BY <1>8 DEF Captured, Tick, TickUnanswered, TickPing, TickPingThrows
  <2>2. CASE TickUnanswered(c)
    BY <1>3, <2>1, <2>2, CloseSocketsIdle DEF TickUnanswered, CloseConn
  <2>3. CASE TickPing(c)
    BY <1>4, <2>3 DEF TickPing, docVars
  <2>4. CASE TickPingThrows(c)
    BY <1>3, <2>1, <2>4, CloseSocketsIdle DEF TickPingThrows, CloseConn
  <2>5. QED
    BY <1>8, <2>2, <2>3, <2>4 DEF Tick
<1>9. ASSUME NEW c \in Conns, Pong(c) \/ PeerCloses(c) \/ PeerDies(c)
      PROVE  Control'
  BY <1>4, <1>9 DEF Pong, PeerCloses, PeerDies, Delivers, docVars, TypeOK
<1>10. ASSUME NEW c \in Conns, OnClose(c)
       PROVE  Control'
  <2>1. doc[c] \in Docs /\ readyState[c] # "idle"
    BY <1>10 DEF OnClose, Captured
  <2>2. /\ CloseAll(doc[c], Closing(doc[c], c), states[doc[c]], controlled)
        /\ readyState' = [CloseSockets(Closing(doc[c], c)) EXCEPT ![c] = "closed"]
        /\ doc' = doc /\ meta' = meta
    BY <1>10 DEF OnClose, CloseConn
  <2>3. \A x \in Conns : readyState'[x] = "idle" <=> readyState[x] = "idle"
    BY <2>1, <2>2 DEF CloseSockets
  <2>4. QED
    BY <1>3, <2>1, <2>2, <2>3
<1>11. ASSUME NEW d \in Docs, Destroy(d)
       PROVE  Control'
  BY <1>4, <1>11 DEF Destroy, connVars
<1>12. CASE Crash
  BY <1>12, ShrinkControl DEF Crash
<1>13. CASE UNCHANGED vars
  BY <1>4, <1>13 DEF vars
<1>14. QED
  BY <1>1, <1>2, <1>5, <1>6, <1>6a, <1>7, <1>8, <1>9, <1>10, <1>11, <1>12, <1>13 DEF Next

\* A client's presence is controlled by at most one attached connection, so
\* closing another connection never makes it disappear.
THEOREM OneController == Spec => []UniqueController
<1>1. Init => TypeOK /\ Captured /\ Control
  BY InitTypeOK, ConstantsAssumption
     DEF Init, Control, ControlledWasSeen, IdleControlsNothing, UniqueController,
         Attached
<1>2. (TypeOK /\ Captured /\ Control) /\ [Next]_vars
        => (TypeOK /\ Captured /\ Control)'
  BY NextTypeOK, NextControl, ConstantsAssumption
<1>3. Control => UniqueController
  BY DEF Control
<1>4. QED
  BY <1>1, <1>2, <1>3, PTL DEF Spec

-----------------------------------------------------------------------------
(* The heartbeat *)

\* A step that keeps every ping interval, or drops c's while detaching c,
\* and attaches nobody, keeps the heartbeat of every attached connection.
LEMMA ShrinkHeartbeat ==
    ASSUME TypeOK, HeartbeatWhileAttached, doc' = doc,
           \A d \in Docs : conns'[d] \subseteq conns[d],
           \A c \in Conns : pingInterval[c] =>
               \/ pingInterval'[c]
               \/ doc[c] \in Docs /\ c \notin conns'[doc[c]]
    PROVE  HeartbeatWhileAttached'
<1>1. ASSUME NEW c \in Conns, Attached(c)'
      PROVE  pingInterval'[c]
  <2>1. doc[c] \in Docs /\ c \in conns'[doc[c]]
    BY <1>1 DEF Attached, TypeOK
  <2>2. Attached(c) /\ pingInterval[c]
    BY <1>1, <2>1 DEF Attached, HeartbeatWhileAttached
  <2>3. QED
    BY <2>1, <2>2
<1>2. QED
  BY <1>1 DEF HeartbeatWhileAttached

\* closeConn detaches the connection it is called for.
LEMMA CloseConnDetaches ==
    ASSUME TypeOK, NEW c \in Conns, doc[c] \in Docs, CloseConn(doc[c], c)
    PROVE  /\ c \notin conns'[doc[c]]
           /\ \A e \in Docs : conns'[e] \subseteq conns[e]
BY DEF CloseConn, CloseAll, Closing, TypeOK

LEMMA NextHeartbeat ==
    ASSUME TypeOK, Captured, HeartbeatWhileAttached, [Next]_vars
    PROVE  HeartbeatWhileAttached'
<1>1. ASSUME NEW c \in Conns, NEW n \in Names, NEW d \in Docs,
             SetupWSConnection(c, n, d)
      PROVE  HeartbeatWhileAttached'
  <2>1. /\ conns' = [conns EXCEPT ![d] = @ \cup {c}]
        /\ doc' = [doc EXCEPT ![c] = d]
        /\ pingInterval' = [pingInterval EXCEPT ![c] = TRUE]
    BY <1>1 DEF SetupWSConnection
  <2>2. \A x \in Conns : x # c /\ Attached(x)' => Attached(x)
    BY <2>1 DEF Attached, TypeOK
  <2>3. QED
    BY <2>1, <2>2 DEF HeartbeatWhileAttached, TypeOK
<1>2. ASSUME NEW d \in Docs, NEW S, NEW st, NEW ctl, CloseAll(d, S, st, ctl),
             UNCHANGED <<doc, pingInterval>>
      PROVE  HeartbeatWhileAttached'
  <2>1. \A e \in Docs : conns'[e] \subseteq conns[e]
    BY <1>2 DEF CloseAll, TypeOK
  <2>2. QED
    BY <1>2, <2>1, ShrinkHeartbeat
<1>3. ASSUME NEW c \in Conns, doc[c] \in Docs, CloseConn(doc[c], c), doc' = doc,
             pingInterval' = [pingInterval EXCEPT ![c] = FALSE]
      PROVE  HeartbeatWhileAttached'
  <2>1. \A x \in Conns : pingInterval[x] =>
            pingInterval'[x] \/ (doc[x] \in Docs /\ x \notin conns'[doc[x]])
    BY <1>3, CloseConnDetaches DEF TypeOK
  <2>2. QED
    BY <1>3, <2>1, CloseConnDetaches, ShrinkHeartbeat
<1>4. CASE UNCHANGED <<conns, doc, pingInterval>>
  BY <1>4, ShrinkHeartbeat
<1>5. ASSUME NEW c \in Conns, NEW u \in Clients, NEW k \in 1..MaxClock,
             NEW present \in BOOLEAN, RecvAwareness(c, u, k, present)
      PROVE  HeartbeatWhileAttached'
  BY <1>2, <1>4, <1>5 DEF RecvAwareness, Captured, Delivers
<1>6. ASSUME NEW c \in Conns, RecvUpdate(c)
      PROVE  HeartbeatWhileAttached'
  BY <1>2, <1>4, <1>6 DEF RecvUpdate, Broadcast, Captured, Delivers
<1>7. ASSUME NEW d \in Docs, NEW U \in SUBSET Clients, AwarenessTimeout(d, U)
      PROVE  HeartbeatWhileAttached'
  BY <1>2, <1>7 DEF AwarenessTimeout
<1>7a. ASSUME NEW d \in Docs, UpdateFromDisk(d)
       PROVE  HeartbeatWhileAttached'
  BY <1>2, <1>7a DEF UpdateFromDisk, Broadcast
<1>8. ASSUME NEW c \in Conns, SendError(c)
      PROVE  HeartbeatWhileAttached'
  BY <1>2, <1>8 DEF SendError, Attached, CloseConn, TypeOK
<1>9. ASSUME NEW c \in Conns, Tick(c)
      PROVE  HeartbeatWhileAttached'
  <2>1. doc[c] \in Docs
    BY <1>9 DEF Captured, Tick, TickUnanswered, TickPing, TickPingThrows
  <2>2. CASE TickUnanswered(c)
    BY <1>3, <2>1, <2>2 DEF TickUnanswered
  <2>3. CASE TickPing(c)
    BY <1>4, <2>3 DEF TickPing, docVars
  <2>4. CASE TickPingThrows(c)
    BY <1>3, <2>1, <2>4 DEF TickPingThrows
  <2>5. QED
    BY <1>9, <2>2, <2>3, <2>4 DEF Tick
<1>10. ASSUME NEW c \in Conns, Pong(c) \/ PeerCloses(c) \/ PeerDies(c)
       PROVE  HeartbeatWhileAttached'
  BY <1>4, <1>10 DEF Pong, PeerCloses, PeerDies, docVars
<1>11. ASSUME NEW c \in Conns, OnClose(c)
       PROVE  HeartbeatWhileAttached'
  <2>1. doc[c] \in Docs
    BY <1>11 DEF OnClose, Captured
  <2>2. QED
    BY <1>3, <1>11, <2>1 DEF OnClose
<1>12. ASSUME NEW d \in Docs, Destroy(d)
       PROVE  HeartbeatWhileAttached'
  BY <1>4, <1>12 DEF Destroy, connVars
<1>13. CASE Crash
  BY <1>13 DEF Crash, HeartbeatWhileAttached, Attached, TypeOK
<1>14. CASE UNCHANGED vars
  BY <1>4, <1>14 DEF vars
<1>15. QED
  BY <1>1, <1>5, <1>6, <1>7, <1>7a, <1>8, <1>9, <1>10, <1>11, <1>12, <1>13, <1>14 DEF Next

\* An attached connection never loses its ping interval.
THEOREM HeartbeatKept == Spec => []HeartbeatWhileAttached
<1>1. Init => TypeOK /\ Captured /\ HeartbeatWhileAttached
  BY InitTypeOK, ConstantsAssumption DEF Init, HeartbeatWhileAttached, Attached
<1>2. (TypeOK /\ Captured /\ HeartbeatWhileAttached) /\ [Next]_vars
        => (TypeOK /\ Captured /\ HeartbeatWhileAttached)'
  BY NextTypeOK, NextHeartbeat, ConstantsAssumption
<1>3. QED
  BY <1>1, <1>2, PTL DEF Spec

-----------------------------------------------------------------------------
(* The sessions of DocSessions *)

\* Only setupWSConnection accepts a connection.
LEMMA AcceptedStay ==
    ASSUME TypeOK, Captured, [Next]_vars
    PROVE  \/ \E c \in Conns, n \in Names, d \in Docs : SetupWSConnection(c, n, d)
           \/ Came' = Came
<1>1. ASSUME \A c \in Conns : readyState'[c] = "idle" <=> readyState[c] = "idle"
      PROVE  Came' = Came
  BY <1>1 DEF Came
<1>3. CASE UNCHANGED readyState
  BY <1>1, <1>3
<1>4. ASSUME NEW c \in Conns, NEW u \in Clients, NEW k \in 1..MaxClock,
             NEW present \in BOOLEAN, RecvAwareness(c, u, k, present)
      PROVE  Came' = Came
  BY <1>1, <1>3, <1>4, CloseSocketsIdle DEF RecvAwareness
<1>5. ASSUME NEW c \in Conns, RecvUpdate(c)
      PROVE  Came' = Came
  BY <1>1, <1>3, <1>5, CloseSocketsIdle DEF RecvUpdate
<1>6. ASSUME NEW c \in Conns, SendError(c) \/ Tick(c)
      PROVE  Came' = Came
  BY <1>1, <1>3, <1>6, CloseSocketsIdle
     DEF SendError, Tick, TickUnanswered, TickPing, TickPingThrows
<1>7. ASSUME NEW c \in Conns, Pong(c) \/ PeerCloses(c) \/ PeerDies(c)
      PROVE  Came' = Came
  BY <1>1, <1>7 DEF Pong, PeerCloses, PeerDies, Delivers, TypeOK
<1>8. ASSUME NEW c \in Conns, OnClose(c)
      PROVE  Came' = Came
  <2>1. readyState' = [CloseSockets(Closing(doc[c], c)) EXCEPT ![c] = "closed"]
    BY <1>8 DEF OnClose
  <2>2. readyState[c] # "idle"
    BY <1>8 DEF OnClose
  <2>3. QED
    BY <1>1, <2>1, <2>2 DEF CloseSockets
<1>9. ASSUME NEW d \in Docs, NEW U \in SUBSET Clients,
             AwarenessTimeout(d, U) \/ UpdateFromDisk(d) \/ Destroy(d)
      PROVE  Came' = Came
  BY <1>1, <1>3, <1>9, CloseSocketsIdle
     DEF AwarenessTimeout, UpdateFromDisk, Destroy, connVars
<1>10. CASE Crash
  BY <1>1, <1>10 DEF Crash
<1>11. CASE UNCHANGED vars
  BY <1>3, <1>11 DEF vars
<1>12. QED
  BY <1>4, <1>5, <1>6, <1>7, <1>8, <1>9, <1>10, <1>11 DEF Next

\* A new connection opens the session of its name or joins it.
LEMMA SetupSession ==
    ASSUME ConstantsAssumption, TypeOK, Lifecycle, Control,
           NEW c \in Conns, NEW n \in Names, NEW d \in Docs,
           SetupWSConnection(c, n, d)
    PROVE  Sessions!Next
<1> USE DEF TypeOK
<1>1. /\ conns' = [conns EXCEPT ![d] = @ \cup {c}]
      /\ doc' = [doc EXCEPT ![c] = d]
      /\ readyState' = [readyState EXCEPT ![c] = "open"]
      /\ readyState[c] = "idle"
  BY DEF SetupWSConnection
<1>2. d # NoDoc
  BY DEF ConstantsAssumption
<1>3. Place' = [Place EXCEPT ![c] = d]
  <2>1. Attached(c)' /\ doc'[c] = d
    BY <1>1, <1>2 DEF Attached
  <2>2. ASSUME NEW x \in Conns, x # c
        PROVE  Attached(x)' <=> Attached(x)
    BY <1>1, <2>2 DEF Attached
  <2>3. ASSUME NEW x \in Conns, x # c
        PROVE  doc'[x] = doc[x]
    BY <1>1, <2>3
  <2>4. QED
    BY <2>1, <2>2, <2>3 DEF Place
<1>4. c \notin Came /\ Came' = Came \cup {c}
  BY <1>1 DEF Came
<1>5. Sessions!Come(c, d)
  BY <1>3, <1>4 DEF Sessions!Come
<1>6. CASE docs[n] = d /\ UNCHANGED <<docs, name, life>>
  <2>1. Sessions!Join(c, n)
    BY <1>2, <1>5, <1>6 DEF Sessions!Join, Used
  <2>2. QED
    BY <1>4, <2>1 DEF Sessions!Next
<1>7. CASE /\ docs[n] = NoDoc /\ life[d] = "unborn"
           /\ docs' = [docs EXCEPT ![n] = d]
           /\ life' = [life EXCEPT ![d] = "live"]
  <2>1. d \in Docs \ Used /\ Used' = Used \cup {d}
    BY <1>7 DEF Used
  <2>2. Sessions!Open(c, n, d)
    BY <1>5, <1>7, <2>1 DEF Sessions!Open
  <2>3. QED
    BY <1>4, <2>1, <2>2 DEF Sessions!Next
<1>8. QED
  BY <1>6, <1>7 DEF SetupWSConnection, GetYDoc

\* Whoever closeConn is called for, and whoever that takes along, leave the
\* session of one name.
LEMMA CloseSession ==
    ASSUME ConstantsAssumption, TypeOK, Lifecycle, Control,
           NEW d \in Docs, NEW S, S \subseteq conns[d], NEW st, NEW ctl,
           CloseAll(d, S, st, ctl), UNCHANGED <<name, doc>>, Came' = Came
    PROVE  [Sessions!Next]_<<docs, Place, Used, Came>>
<1> USE DEF TypeOK
<1>1. conns' = [conns EXCEPT ![d] = @ \ S]
  BY DEF CloseAll
<1>2. CASE S = {}
  <2>1. conns' = conns
    BY <1>1, <1>2
  <2>2. Place' = Place
    BY <2>1 DEF Place, Attached
  <2>3. UNCHANGED <<docs, life>>
    BY <1>2 DEF CloseAll
  <2>4. QED
    BY <2>2, <2>3 DEF Used
<1>3. CASE S # {}
  <2>1. conns[d] # {}
    BY <1>3
  <2>2. /\ name[d] \in Names /\ docs[name[d]] = d
        /\ life[d] = "live" /\ d # NoDoc
    BY <2>1 DEF Lifecycle, OneInstancePerName, NoIdleDoc, ConstantsAssumption
  <2>3. \A c \in Conns : (c \in conns[d]) <=> Place[c] = d
    BY <2>2 DEF Place, Attached, Control, ControlledWasSeen
  <2>4. Sessions!Present(d) = conns[d]
    BY <2>3 DEF Sessions!Present
  <2>5. Place' = [c \in Conns |-> IF c \in S THEN NoDoc ELSE Place[c]]
    <3>1. ASSUME NEW c \in Conns, c \in S
          PROVE  ~Attached(c)'
      <4>1. doc[c] = d
        BY <3>1 DEF Control, ControlledWasSeen
      <4>2. QED
        BY <1>1, <3>1, <4>1 DEF Attached
    <3>2. ASSUME NEW c \in Conns, c \notin S
          PROVE  Attached(c)' <=> Attached(c)
      BY <1>1, <3>2 DEF Attached
    <3>3. QED
      BY <3>1, <3>2 DEF Place
  <2>6. Used' = Used
    BY <2>2 DEF CloseAll, Used
  <2>7. docs' = [docs EXCEPT ![name[d]] = IF S = conns[d] THEN NoDoc ELSE d]
    <3>1. CASE conns[d] \subseteq S
      <4>1. S = conns[d]
        BY <3>1
      <4>2. docs' = [docs EXCEPT ![name[d]] = NoDoc]
        BY <1>3, <3>1 DEF CloseAll
      <4>3. QED
        BY <4>1, <4>2
    <3>2. CASE ~(conns[d] \subseteq S)
      <4>1. docs' = docs /\ S # conns[d]
        BY <3>2 DEF CloseAll
      <4>2. [docs EXCEPT ![name[d]] = d] = docs
        BY <2>2
      <4>3. QED
        BY <4>1, <4>2
    <3>3. QED
      BY <3>1, <3>2
  <2>8. Sessions!Leave(name[d], S)
    BY <2>2, <2>4, <2>5, <2>6, <2>7 DEF Sessions!Leave
  <2>9. S \in (SUBSET Sessions!Present(docs[name[d]])) \ {{}}
    <3>1. Sessions!Present(docs[name[d]]) = conns[d]
      BY <2>2, <2>4, Zenon
    <3>2. QED
      BY <1>3, <3>1
  <2>10. QED
    BY <2>2, <2>8, <2>9 DEF Sessions!Next
<1>4. QED
  BY <1>2, <1>3

LEMMA NextSession ==
    ASSUME ConstantsAssumption, TypeOK, Captured, Lifecycle, Control, [Next]_vars
    PROVE  [Sessions!Next]_<<docs, Place, Used, Came>>
<1>1. CASE \E c \in Conns, n \in Names, d \in Docs : SetupWSConnection(c, n, d)
  BY <1>1, SetupSession
<1>2. CASE Came' = Came
  <2>1. ASSUME NEW d \in Docs, NEW S \in SUBSET Conns, NEW st, NEW ctl,
               S \subseteq conns[d], CloseAll(d, S, st, ctl),
               UNCHANGED <<name, doc>>
        PROVE  [Sessions!Next]_<<docs, Place, Used, Came>>
    BY <1>2, <2>1, CloseSession
  <2>2. CASE UNCHANGED <<docs, name, life, conns, doc>>
    BY <1>2, <2>2 DEF Place, Attached, Used
  <2>3. ASSUME NEW d \in Docs, Destroy(d)
        PROVE  [Sessions!Next]_<<docs, Place, Used, Came>>
    <3>1. Place' = Place
      BY <2>3 DEF Destroy, connVars, Place, Attached
    <3>2. Used' = Used
      BY <2>3 DEF Destroy, Used, TypeOK
    <3>3. QED
      BY <1>2, <2>3, <3>1, <3>2 DEF Destroy
  <2>4. CASE Crash
    <3>1. Place' = [c \in Conns |-> NoDoc]
      BY <2>4 DEF Crash, Place, Attached, TypeOK
    <3>2. Used' = Used
      BY <2>4 DEF Crash, Used
    <3>3. Sessions!Crash
      BY <1>2, <2>4, <3>1, <3>2 DEF Crash, Sessions!Crash
    <3>4. QED
      BY <3>3 DEF Sessions!Next
  <2>5. QED
    BY <1>1, <2>1, <2>2, <2>3, <2>4, Shapes
<1>3. QED
  BY <1>1, <1>2, AcceptedStay

\* The server keeps the sessions of DocSessions: everybody on a name meets in
\* one instance, made for the first of them and given up with the last.
THEOREM SessionsKept == Spec => OneSessionPerName
<1>1. Init => TypeOK /\ Captured /\ Lifecycle /\ Control
  BY InitTypeOK, ConstantsAssumption
     DEF Init, Lifecycle, OneInstancePerName, NoIdleDoc, Control,
         ControlledWasSeen, IdleControlsNothing, UniqueController, Attached
<1>2. (TypeOK /\ Captured /\ Lifecycle /\ Control) /\ [Next]_vars
        => (TypeOK /\ Captured /\ Lifecycle /\ Control)'
  BY NextTypeOK, NextLifecycle, NextControl, ConstantsAssumption
<1>3. Init => Sessions!Init
  BY DEF Init, Sessions!Init, Place, Attached, Used, Came
<1>4. (TypeOK /\ Captured /\ Lifecycle /\ Control) /\ [Next]_vars
        => [Sessions!Next]_<<docs, Place, Used, Came>>
  BY NextSession, ConstantsAssumption
<1>5. QED
  BY <1>1, <1>2, <1>3, <1>4, PTL
     DEF Spec, OneSessionPerName, Sessions!Spec, Sessions!vars

=============================================================================
