----------------------- MODULE YjsPersistenceProofs -----------------------
(* Proofs about YjsPersistence for all values of the constants.            *)
EXTENDS YjsPersistence, YjsServerProofs

-----------------------------------------------------------------------------
(* The server underneath *)

\* Every step of the persistent server is a step of YjsServer, or none.
LEMMA PNextIsNext ==
    ASSUME [PNext]_allVars
    PROVE  [Next]_vars
<1>1. ASSUME NEW c \in Conns, NEW n \in Names, NEW d \in Docs, Connect(c, n, d)
      PROVE  [Next]_vars
  BY <1>1 DEF Connect, Next
<1>2. ASSUME NEW c \in Conns, NEW e \in Edits, RecvEdit(c, e)
      PROVE  [Next]_vars
  BY <1>2 DEF RecvEdit, Next
<1>3. ASSUME NEW n \in Names, MongoStep(n)
      PROVE  [Next]_vars
  BY <1>3 DEF MongoStep
<1>4. ASSUME NEW d \in Docs, BindResume(d)
      PROVE  [Next]_vars
  BY <1>4 DEF BindResume, Next
<1>5. ASSUME NEW d \in Docs, DestroyDoc(d)
      PROVE  [Next]_vars
  BY <1>5 DEF DestroyDoc, Next
<1>6. CASE ServerStep
  BY <1>6 DEF ServerStep, Next
<1>7. CASE Restart
  BY <1>7 DEF Restart, Next
<1>8. CASE UNCHANGED allVars
  BY <1>8 DEF allVars
<1>9. QED
  BY <1>1, <1>2, <1>3, <1>4, <1>5, <1>6, <1>7, <1>8 DEF PNext

\* A constructed instance keeps its name and never comes back to life.
LEMMA InstanceFrame ==
    ASSUME ConstantsAssumption, TypeOK, Captured, Lifecycle, [Next]_vars,
           NEW d \in Docs, life[d] # "unborn"
    PROVE  /\ name'[d] = name[d] /\ life'[d] # "unborn"
           /\ life[d] = "destroyed" => life'[d] = "destroyed"
<1> USE DEF TypeOK
<1>1. ASSUME NEW c \in Conns, NEW n \in Names, NEW e \in Docs,
             SetupWSConnection(c, n, e)
      PROVE  name'[d] = name[d] /\ life'[d] = life[d]
  BY <1>1 DEF SetupWSConnection, GetYDoc
<1>2. ASSUME NEW e \in Docs, NEW S \in SUBSET Conns, NEW st, NEW ctl,
             S \subseteq conns[e], CloseAll(e, S, st, ctl), UNCHANGED <<name, doc>>
      PROVE  /\ name'[d] = name[d] /\ life'[d] # "unborn"
             /\ life[d] = "destroyed" => life'[d] = "destroyed"
  <2>1. conns[e] # {} => life[e] = "live"
    BY DEF Lifecycle, OneInstancePerName, NoIdleDoc, ConstantsAssumption
  <2>2. \/ life' = life
        \/ conns[e] # {} /\ life' = [life EXCEPT ![e] = "closing"]
    BY <1>2 DEF CloseAll
  <2>3. QED
    BY <1>2, <2>1, <2>2
<1>3. CASE UNCHANGED <<docs, name, life, conns, doc>>
  BY <1>3
<1>4. ASSUME NEW e \in Docs, Destroy(e)
      PROVE  /\ name'[d] = name[d] /\ life'[d] # "unborn"
             /\ life[d] = "destroyed" => life'[d] = "destroyed"
  BY <1>4 DEF Destroy
<1>5. CASE Crash
  BY <1>5 DEF Crash
<1>6. QED
  BY <1>1, <1>2, <1>3, <1>4, <1>5, Shapes

-----------------------------------------------------------------------------
(* The provider's queue *)

LEMMA GetType == ASSUME NEW d \in Docs PROVE Get(d) \in Operations
BY DEF Get, Operations

LEMMA PutType == ASSUME NEW E \in SUBSET Edits PROVE Put(E) \in Operations
BY DEF Put, Operations

LEMMA HeadGet ==
    ASSUME NEW o \in Operations, o.op = "get"
    PROVE  \E d \in Docs : o = Get(d)
<1>1. \A E : [op |-> "put", edits |-> E].op # "get"
  OBVIOUS
<1>2. QED
  BY <1>1 DEF Operations, Get

LEMMA InQueued ==
    ASSUME NEW n, NEW e
    PROVE  e \in Queued(n) <=>
             \E i \in DOMAIN queue[n] : queue[n][i].op = "put" /\ e \in queue[n][i].edits
BY DEF Queued

LEMMA AppendOperation ==
    ASSUME NEW q \in Seq(Operations), NEW o \in Operations
    PROVE  /\ Append(q, o) \in Seq(Operations)
           /\ \A i \in DOMAIN q : i \in DOMAIN Append(q, o) /\ Append(q, o)[i] = q[i]
           /\ \E i \in DOMAIN Append(q, o) : Append(q, o)[i] = o
           /\ \A i \in DOMAIN Append(q, o) : \/ Append(q, o)[i] = o
                                             \/ i \in DOMAIN q /\ Append(q, o)[i] = q[i]
<1>1. /\ Append(q, o) \in Seq(Operations)
      /\ Len(Append(q, o)) = Len(q) + 1
      /\ Len(q) \in Nat
      /\ \A i \in 1..Len(q) : Append(q, o)[i] = q[i]
      /\ Append(q, o)[Len(q) + 1] = o
  OBVIOUS
<1>2. DOMAIN q = 1..Len(q) /\ DOMAIN Append(q, o) = 1..(Len(q) + 1)
  BY <1>1
<1>3. QED
  BY <1>1, <1>2

LEMMA TailOperation ==
    ASSUME NEW q \in Seq(Operations), q # <<>>
    PROVE  /\ Tail(q) \in Seq(Operations) /\ Head(q) \in Operations
           /\ Head(q) = q[1] /\ 1 \in DOMAIN q
           /\ \A i \in DOMAIN Tail(q) : i + 1 \in DOMAIN q /\ Tail(q)[i] = q[i + 1]
           /\ \A i \in DOMAIN q : i = 1 \/ (i - 1 \in DOMAIN Tail(q) /\ Tail(q)[i - 1] = q[i])
<1>1. /\ Tail(q) \in Seq(Operations) /\ Head(q) \in Operations
      /\ Head(q) = q[1] /\ Len(q) \in Nat /\ Len(q) > 0
      /\ Len(Tail(q)) = Len(q) - 1
      /\ \A i \in 1..(Len(q) - 1) : Tail(q)[i] = q[i + 1]
  OBVIOUS
<1>2. DOMAIN q = 1..Len(q) /\ DOMAIN Tail(q) = 1..(Len(q) - 1)
  BY <1>1
<1>3. QED
  BY <1>1, <1>2

\* Appending to the queue of n keeps every Saved set and adds what is put.
LEMMA SavedAppend ==
    ASSUME PTypeOK, NEW n \in Names, NEW o \in Operations,
           queue' = [queue EXCEPT ![n] = Append(@, o)], store' = store
    PROVE  /\ \A m \in Names : Saved(m) \subseteq Saved(m)'
           /\ o.op = "put" => o.edits \subseteq Saved(n)'
<1>1. queue[n] \in Seq(Operations) /\ queue'[n] = Append(queue[n], o)
  BY DEF PTypeOK
<1>2. ASSUME NEW m \in Names, NEW e \in Saved(m)
      PROVE  e \in Saved(m)'
  <2>1. CASE e \in store[m]
    BY <2>1 DEF Saved
  <2>2. CASE e \in Queued(m)
    <3>1. PICK i \in DOMAIN queue[m] : queue[m][i].op = "put" /\ e \in queue[m][i].edits
      BY <2>2, InQueued
    <3>2. i \in DOMAIN queue'[m] /\ queue'[m][i] = queue[m][i]
      <4>1. CASE m = n
        BY <1>1, <4>1, AppendOperation
      <4>2. CASE m # n
        BY <4>2
      <4>3. QED
        BY <4>1, <4>2
    <3>3. e \in Queued(m)'
      BY <3>1, <3>2 DEF Queued
    <3>4. QED
      BY <3>3 DEF Saved
  <2>3. QED
    BY <1>2, <2>1, <2>2 DEF Saved
<1>3. ASSUME o.op = "put", NEW e \in o.edits
      PROVE  e \in Saved(n)'
  <2>1. PICK i \in DOMAIN queue'[n] : queue'[n][i] = o
    BY <1>1, AppendOperation
  <2>2. e \in Queued(n)'
    BY <1>3, <2>1 DEF Queued
  <2>3. QED
    BY <2>2 DEF Saved
<1>4. QED
  BY <1>2, <1>3

\* When the provider performs an operation, nothing saved is lost.
LEMMA SavedMongoStep ==
    ASSUME PTypeOK, NEW n \in Names, MongoStep(n)
    PROVE  \A m \in Names : Saved(m) \subseteq Saved(m)'
<1>1. /\ queue[n] \in Seq(Operations) /\ queue[n] # <<>>
      /\ queue' = [queue EXCEPT ![n] = Tail(queue[n])]
      /\ queue'[n] = Tail(queue[n])
  BY DEF PTypeOK, MongoStep
<1>2. \A m \in Names : store[m] \subseteq store'[m]
  BY DEF PTypeOK, MongoStep
<1>3. ASSUME Head(queue[n]).op = "put"
      PROVE  Head(queue[n]).edits \subseteq store'[n]
  BY <1>3 DEF PTypeOK, MongoStep
<1>4. ASSUME NEW m \in Names, NEW e \in Saved(m)
      PROVE  e \in Saved(m)'
  <2>1. CASE e \in store[m]
    BY <1>2, <2>1 DEF Saved
  <2>2. CASE e \in Queued(m)
    <3>1. PICK i \in DOMAIN queue[m] : queue[m][i].op = "put" /\ e \in queue[m][i].edits
      BY <2>2, InQueued
    <3>2. CASE m # n
      <4>1. queue'[m] = queue[m]
        BY <1>1, <3>2
      <4>2. e \in Queued(m)'
        BY <3>1, <4>1 DEF Queued
      <4>3. QED
        BY <4>2 DEF Saved
    <3>3. CASE m = n /\ i = 1
      <4>1. queue[n][i] = Head(queue[n])
        BY <1>1, <3>3, TailOperation
      <4>2. e \in store'[m]
        BY <1>3, <3>1, <3>3, <4>1
      <4>3. QED
        BY <4>2 DEF Saved
    <3>4. CASE m = n /\ i # 1
      <4>1. i - 1 \in DOMAIN queue'[n] /\ queue'[n][i - 1] = queue[n][i]
        BY <1>1, <3>1, <3>4, TailOperation
      <4>2. e \in Queued(m)'
        BY <3>1, <3>4, <4>1 DEF Queued
      <4>3. QED
        BY <4>2 DEF Saved
    <3>5. QED
      BY <3>2, <3>3, <3>4
  <2>3. QED
    BY <1>4, <2>1, <2>2 DEF Saved
<1>5. QED
  BY <1>4

-----------------------------------------------------------------------------
(* Types *)

\* The queue only names constructed instances, each on its own name.
GetsOwnName ==
    \A n \in Names : \A i \in DOMAIN queue[n] : \A d \in Docs :
        queue[n][i] = Get(d) => name[d] = n /\ life[d] # "unborn"

\* An instance has its name, its binding and its listener from its
\* construction on.
Constructed ==
    \A d \in Docs :
        /\ life[d] # "unborn" => name[d] \in Names
        /\ phase[d] # "none" \/ listening[d] => life[d] # "unborn"

Base == PTypeOK /\ Captured /\ Lifecycle /\ GetsOwnName /\ Constructed

LEMMA NextPTypeOK ==
    ASSUME ConstantsAssumption, Base, [PNext]_allVars
    PROVE  PTypeOK'
<1> USE DEF PTypeOK, Phases
<1>0. TypeOK'
  BY PNextIsNext, NextTypeOK DEF Base
<1>1. ASSUME NEW c \in Conns, NEW n \in Names, NEW d \in Docs, Connect(c, n, d)
      PROVE  PTypeOK'
  <2>1. Append(queue[n], Get(d)) \in Seq(Operations)
    BY GetType, AppendOperation DEF Base
  <2>2. QED
    BY <1>0, <1>1, <2>1 DEF Connect, Base
<1>2. ASSUME NEW c \in Conns, NEW e \in Edits, RecvEdit(c, e)
      PROVE  PTypeOK'
  <2>1. doc[c] \in Docs
    BY <1>2 DEF RecvEdit, RecvUpdate, Delivers, Captured, Base
  <2>2. CASE listening[doc[c]]
    <3>1. name[doc[c]] \in Names
      BY <2>1, <2>2 DEF Base, Constructed
    <3>2. Append(queue[name[doc[c]]], Put({e})) \in Seq(Operations)
      BY <3>1, PutType, AppendOperation DEF Base
    <3>3. QED
      BY <1>0, <1>2, <2>1, <2>2, <3>1, <3>2 DEF RecvEdit, Base
  <2>3. CASE ~listening[doc[c]]
    BY <1>0, <1>2, <2>1, <2>3 DEF RecvEdit, Base
  <2>4. QED
    BY <2>2, <2>3
<1>3. ASSUME NEW n \in Names, MongoStep(n)
      PROVE  PTypeOK'
  <2>1. Tail(queue[n]) \in Seq(Operations) /\ Head(queue[n]) \in Operations
    BY <1>3, TailOperation DEF MongoStep, Base
  <2>2. CASE Head(queue[n]).op = "get"
    <3>1. Head(queue[n]).to \in Docs
      BY <2>1, <2>2 DEF Operations
    <3>2. QED
      BY <1>0, <1>3, <2>1, <2>2, <3>1 DEF MongoStep, Base
  <2>3. CASE Head(queue[n]).op = "put"
    <3>1. Head(queue[n]).edits \in SUBSET Edits
      BY <2>1, <2>3 DEF Operations
    <3>2. QED
      BY <1>0, <1>3, <2>1, <2>3, <3>1 DEF MongoStep, Base
  <2>4. QED
    BY <1>3, <2>2, <2>3 DEF MongoStep
<1>4. ASSUME NEW d \in Docs, BindResume(d)
      PROVE  PTypeOK'
  <2>1. name[d] \in Names
    BY <1>4 DEF BindResume, Base, Constructed
  <2>2. Append(queue[name[d]], Put(content[d])) \in Seq(Operations)
    BY <2>1, PutType, AppendOperation DEF Base
  <2>3. QED
    BY <1>0, <1>4, <2>1, <2>2 DEF BindResume, Base
<1>5. ASSUME NEW d \in Docs, DestroyDoc(d)
      PROVE  PTypeOK'
  BY <1>0, <1>5 DEF DestroyDoc, Base
<1>6. CASE ServerStep
  BY <1>0, <1>6 DEF ServerStep, persistVars, Base
<1>7. CASE Restart
  BY <1>0, <1>7 DEF Restart, Base
<1>8. CASE UNCHANGED allVars
  BY <1>0, <1>8 DEF allVars, persistVars, Base
<1>9. QED
  BY <1>1, <1>2, <1>3, <1>4, <1>5, <1>6, <1>7, <1>8 DEF PNext

-----------------------------------------------------------------------------
(* What the binding of an instance knows *)

\* An instance gets its name with its construction and keeps it.
LEMMA StillNamed ==
    ASSUME ConstantsAssumption, Base, PTypeOK', [Next]_vars
    PROVE  \A d \in Docs : life'[d] # "unborn" => name'[d] \in Names
<1>1. ASSUME NEW d \in Docs, life'[d] # "unborn"
      PROVE  name'[d] \in Names
  <2>1. CASE life[d] # "unborn"
    BY <2>1, InstanceFrame DEF Base, PTypeOK, Constructed
  <2>2. CASE life[d] = "unborn"
    <3>1. ASSUME NEW c \in Conns, NEW n \in Names, NEW e \in Docs,
                 SetupWSConnection(c, n, e)
          PROVE  name'[d] \in Names
      BY <1>1, <2>2, <3>1 DEF SetupWSConnection, GetYDoc, Base, PTypeOK, TypeOK
    <3>2. ASSUME NEW e \in Docs, NEW S \in SUBSET Conns, NEW st, NEW ctl,
                 S \subseteq conns[e], CloseAll(e, S, st, ctl)
          PROVE  FALSE
      <4>1. e = d /\ conns[e] # {}
        BY <1>1, <2>2, <3>2 DEF CloseAll, Base, PTypeOK, TypeOK
      <4>2. QED
        BY <2>2, <4>1, <3>2 DEF Base, Lifecycle, OneInstancePerName, NoIdleDoc,
                                PTypeOK, TypeOK, ConstantsAssumption
    <3>3. ASSUME NEW e \in Docs, Destroy(e)
          PROVE  FALSE
      BY <1>1, <2>2, <3>3 DEF Destroy, Base, PTypeOK, TypeOK
    <3>4. CASE UNCHANGED <<docs, name, life, conns, doc>> \/ Crash
      BY <1>1, <2>2, <3>4 DEF Crash
    <3>5. QED
      BY <3>1, <3>2, <3>3, <3>4, Shapes DEF Base, PTypeOK
  <2>3. QED
    BY <2>1, <2>2
<1>2. QED
  BY <1>1

\* What a binding has read is in the database, and once it has resumed, it
\* listens for as long as the instance lives.
BindingKnows ==
    \A d \in Docs :
        /\ phase[d] = "resuming" => loaded[d] \subseteq store[name[d]]
        /\ phase[d] = "bound" /\ life[d] # "destroyed" => listening[d]

IInv == Base /\ BindingKnows /\ Durable

\* A step of the server that touches neither bindings nor contents.
LEMMA ServerKeepsIInv ==
    ASSUME ConstantsAssumption, IInv, [PNext]_allVars, UNCHANGED persistVars
    PROVE  IInv'
<1>1. [Next]_vars /\ PTypeOK'
  BY PNextIsNext, NextPTypeOK DEF IInv
<1>2. Captured' /\ Lifecycle'
  BY <1>1, NextTypeOK, NextLifecycle DEF IInv, Base, PTypeOK
<1>3. \A d \in Docs : life[d] # "unborn" =>
         /\ name'[d] = name[d] /\ life'[d] # "unborn"
         /\ life[d] = "destroyed" => life'[d] = "destroyed"
  BY <1>1, InstanceFrame DEF IInv, Base, PTypeOK
<1>4. UNCHANGED <<content, phase, loaded, listening, queue, store>>
  BY DEF persistVars
<1>5. Constructed'
  BY <1>1, <1>3, <1>4, StillNamed DEF IInv, Base, Constructed
<1>6. GetsOwnName'
  <2>1. ASSUME NEW n \in Names, NEW i \in DOMAIN queue'[n], NEW d \in Docs,
               queue'[n][i] = Get(d)
        PROVE  name'[d] = n /\ life'[d] # "unborn"
    <3>1. i \in DOMAIN queue[n] /\ queue[n][i] = Get(d)
      BY <1>4, <2>1
    <3>2. name[d] = n /\ life[d] # "unborn"
      BY <3>1 DEF IInv, Base, GetsOwnName
    <3>3. QED
      BY <1>3, <3>2
  <2>2. QED
    BY <2>1 DEF GetsOwnName
<1>7. BindingKnows'
  BY <1>3, <1>4 DEF IInv, Base, Constructed, BindingKnows
<1>8. Durable'
  <2>1. ASSUME NEW d \in Docs, phase'[d] = "bound", life'[d] # "destroyed"
        PROVE  content'[d] \subseteq Saved(name[d])'
    <3>1. phase[d] = "bound" /\ life[d] # "destroyed" /\ name'[d] = name[d]
      BY <1>3, <1>4, <2>1 DEF IInv, Base, Constructed
    <3>2. content'[d] \subseteq Saved(name[d])
      BY <1>4, <3>1 DEF IInv, Durable
    <3>3. Saved(name[d])' = Saved(name[d])
      BY <1>4, <3>1 DEF Saved, Queued
    <3>4. QED
      BY <3>2, <3>3
  <2>2. QED
    BY <2>1 DEF Durable
<1>9. QED
  BY <1>1, <1>2, <1>5, <1>6, <1>7, <1>8 DEF IInv, Base

-----------------------------------------------------------------------------
(* The steps that touch bindings, contents and the queue *)

\* What every step guarantees about the server.
LEMMA PFrame ==
    ASSUME ConstantsAssumption, IInv, [PNext]_allVars
    PROVE  /\ PTypeOK' /\ Captured' /\ Lifecycle'
           /\ \A d \in Docs : life'[d] # "unborn" => name'[d] \in Names
           /\ \A d \in Docs : life[d] # "unborn" =>
                /\ name'[d] = name[d] /\ life'[d] # "unborn"
                /\ life[d] = "destroyed" => life'[d] = "destroyed"
<1>1. [Next]_vars /\ PTypeOK'
  BY PNextIsNext, NextPTypeOK DEF IInv
<1>2. QED
  BY <1>1, NextTypeOK, NextLifecycle, StillNamed, InstanceFrame
     DEF IInv, Base, PTypeOK

\* The queue keeps naming instances by their own name when o is appended.
LEMMA AppendGetsOwnName ==
    ASSUME ConstantsAssumption, IInv, [PNext]_allVars,
           NEW n \in Names, NEW o \in Operations,
           queue' = [queue EXCEPT ![n] = Append(@, o)],
           \A d \in Docs : o = Get(d) => name'[d] = n /\ life'[d] # "unborn"
    PROVE  GetsOwnName'
<1>1. ASSUME NEW m \in Names, NEW i \in DOMAIN queue'[m], NEW d \in Docs,
             queue'[m][i] = Get(d)
      PROVE  name'[d] = m /\ life'[d] # "unborn"
  <2>1. ASSUME i \in DOMAIN queue[m], queue[m][i] = Get(d)
        PROVE  name'[d] = m /\ life'[d] # "unborn"
    <3>1. name[d] = m /\ life[d] # "unborn"
      BY <2>1 DEF IInv, Base, GetsOwnName
    <3>2. QED
      BY <3>1, PFrame
  <2>2. CASE m # n
    BY <1>1, <2>1, <2>2 DEF IInv, Base, PTypeOK
  <2>3. CASE m = n
    <3>1. queue[n] \in Seq(Operations) /\ queue'[n] = Append(queue[n], o)
      BY DEF IInv, Base, PTypeOK
    <3>2. queue'[n][i] = o \/ (i \in DOMAIN queue[n] /\ queue'[n][i] = queue[n][i])
      BY <1>1, <2>3, <3>1, AppendOperation
    <3>3. QED
      BY <1>1, <2>1, <2>3, <3>2
  <2>4. QED
    BY <2>2, <2>3
<1>2. QED
  BY <1>1 DEF GetsOwnName

\* Durable survives for an instance that gained nothing, when nothing saved
\* is lost.
LEMMA StillDurable ==
    ASSUME ConstantsAssumption, IInv, [PNext]_allVars, NEW d \in Docs,
           \A n \in Names : Saved(n) \subseteq Saved(n)',
           content'[d] = content[d], phase[d] = "bound", life'[d] # "destroyed"
    PROVE  content'[d] \subseteq Saved(name[d])' /\ name'[d] = name[d]
<1>1. name[d] \in Names /\ life[d] # "destroyed" /\ name'[d] = name[d]
  BY PFrame DEF IInv, Base, Constructed
<1>2. content[d] \subseteq Saved(name[d])
  BY <1>1 DEF IInv, Durable
<1>3. PICK n \in Names : n = name[d]
  BY <1>1
<1>4. Saved(n)' = Saved(name[d])'
  BY <1>1, <1>3 DEF Saved, Queued
<1>5. QED
  BY <1>1, <1>2, <1>3, <1>4

LEMMA NotAGet == ASSUME NEW E, NEW d PROVE Put(E) # Get(d)
<1>1. Put(E).op # Get(d).op
  BY DEF Put, Get
<1>2. QED
  BY <1>1

\* A connection starts the binding of the instance it constructs.
LEMMA ConnectKeepsIInv ==
    ASSUME ConstantsAssumption, IInv,
           NEW c \in Conns, NEW n \in Names, NEW d \in Docs, Connect(c, n, d)
    PROVE  IInv'
<1>0. [PNext]_allVars
  BY DEF PNext
<1>1. CASE docs[n] # NoDoc
  <2>1. UNCHANGED persistVars
    BY <1>1 DEF Connect, persistVars
  <2>2. QED
    BY <1>0, <2>1, ServerKeepsIInv
<1>2. CASE docs[n] = NoDoc
  <2>1. /\ queue' = [queue EXCEPT ![n] = Append(@, Get(d))]
        /\ phase' = [phase EXCEPT ![d] = "reading"]
        /\ UNCHANGED <<content, loaded, listening, store>>
    BY <1>2 DEF Connect
  <2>2. /\ life[d] = "unborn" /\ life' = [life EXCEPT ![d] = "live"]
        /\ name' = [name EXCEPT ![d] = n]
    BY <1>2 DEF Connect, SetupWSConnection, GetYDoc, ConstantsAssumption
  <2>3. name'[d] = n /\ life'[d] = "live"
    BY <2>2 DEF IInv, Base, PTypeOK, TypeOK
  <2>4. GetsOwnName'
    <3>1. \A e \in Docs : Get(d) = Get(e) => d = e
      BY DEF Get
    <3>2. QED
      BY <1>0, <2>1, <2>3, <3>1, GetType, AppendGetsOwnName
  <2>5. Constructed'
    BY <1>0, <2>1, <2>3, PFrame DEF IInv, Base, Constructed, PTypeOK
  <2>6. BindingKnows'
    BY <1>0, <2>1, PFrame DEF IInv, Base, Constructed, BindingKnows, PTypeOK
  <2>7. Durable'
    <3>1. \A m \in Names : Saved(m) \subseteq Saved(m)'
      BY <2>1, GetType, SavedAppend DEF IInv, Base
    <3>2. ASSUME NEW e \in Docs, phase'[e] = "bound", life'[e] # "destroyed"
          PROVE  content'[e] \subseteq Saved(name[e])' /\ name'[e] = name[e]
      <4>1. phase[e] = "bound" /\ content'[e] = content[e]
        BY <2>1, <3>2 DEF IInv, Base, PTypeOK
      <4>2. QED
        BY <1>0, <3>1, <3>2, <4>1, StillDurable
    <3>3. QED
      BY <3>2 DEF Durable, Saved, Queued
  <2>8. QED
    BY <1>0, <2>4, <2>5, <2>6, <2>7, PFrame DEF IInv, Base
<1>3. QED
  BY <1>1, <1>2

\* An edit reaches the queue with the step that merges it, if the instance is
\* bound; if not, Durable asks nothing yet.
LEMMA EditKeepsIInv ==
    ASSUME ConstantsAssumption, IInv,
           NEW c \in Conns, NEW e \in Edits, RecvEdit(c, e)
    PROVE  IInv'
<1>0. [PNext]_allVars
  BY DEF PNext
<1>1. PICK d \in Docs : d = doc[c]
  BY DEF RecvEdit, RecvUpdate, Delivers, IInv, Base, Captured
<1>2. /\ content' = [content EXCEPT ![d] = @ \cup {e}]
      /\ UNCHANGED <<phase, loaded, listening, store>>
  BY <1>1 DEF RecvEdit
<1>3. Constructed'
  BY <1>0, <1>2, PFrame DEF IInv, Base, Constructed
<1>4. BindingKnows'
  BY <1>0, <1>2, PFrame DEF IInv, Base, Constructed, BindingKnows
<1>5. CASE listening[d]
  <2>1. name[d] \in Names /\ queue' = [queue EXCEPT ![name[d]] = Append(@, Put({e}))]
    BY <1>1, <1>5 DEF RecvEdit, IInv, Base, Constructed
  <2>2. Put({e}) \in Operations
    BY PutType
  <2>3. GetsOwnName'
    BY <1>0, <2>1, <2>2, NotAGet, AppendGetsOwnName
  <2>4. /\ \A m \in Names : Saved(m) \subseteq Saved(m)'
        /\ e \in Saved(name[d])'
    <3>1. PICK n \in Names : n = name[d]
      BY <2>1
    <3>2. /\ \A m \in Names : Saved(m) \subseteq Saved(m)'
          /\ Put({e}).edits \subseteq Saved(n)'
      BY <1>2, <2>1, <2>2, <3>1, SavedAppend DEF IInv, Base, Put
    <3>3. name'[d] = name[d]
      BY <1>0, <1>1, <1>5, PFrame DEF IInv, Base, Constructed
    <3>4. QED
      BY <3>1, <3>2, <3>3 DEF Put, Saved, Queued
  <2>5. ASSUME NEW x \in Docs, phase'[x] = "bound", life'[x] # "destroyed"
        PROVE  content'[x] \subseteq Saved(name[x])' /\ name'[x] = name[x]
    <3>1. phase[x] = "bound"
      BY <1>2, <2>5
    <3>2. life[x] # "destroyed" /\ name'[x] = name[x] /\ name[x] \in Names
      BY <1>0, <2>5, <3>1, PFrame DEF IInv, Base, Constructed
    <3>3. content[x] \subseteq Saved(name[x])
      BY <3>1, <3>2 DEF IInv, Durable
    <3>4. Saved(name[x]) \subseteq Saved(name[x])'
      <4>1. PICK m \in Names : m = name[x]
        BY <3>2
      <4>2. Saved(m)' = Saved(name[x])'
        BY <3>2, <4>1 DEF Saved, Queued
      <4>3. QED
        BY <2>4, <4>1, <4>2
    <3>5. content'[x] \subseteq content[x] \/ (x = d /\ content'[x] = content[x] \cup {e})
      BY <1>1, <1>2 DEF IInv, Base, PTypeOK
    <3>6. QED
      BY <2>4, <3>2, <3>3, <3>4, <3>5
  <2>6. Durable'
    BY <2>5 DEF Durable, Saved, Queued
  <2>7. QED
    BY <1>0, <1>3, <1>4, <2>3, <2>6, PFrame DEF IInv, Base
<1>6. CASE ~listening[d]
  <2>1. queue' = queue
    BY <1>1, <1>6 DEF RecvEdit
  <2>2. GetsOwnName'
    <3>1. ASSUME NEW n \in Names, NEW i \in DOMAIN queue'[n], NEW x \in Docs,
                 queue'[n][i] = Get(x)
          PROVE  name'[x] = n /\ life'[x] # "unborn"
      <4>1. name[x] = n /\ life[x] # "unborn"
        BY <2>1, <3>1 DEF IInv, Base, GetsOwnName
      <4>2. QED
        BY <1>0, <4>1, PFrame
    <3>2. QED
      BY <3>1 DEF GetsOwnName
  <2>3. \A m \in Names : Saved(m) \subseteq Saved(m)'
    BY <1>2, <2>1 DEF Saved, Queued
  <2>4. ASSUME NEW x \in Docs, phase'[x] = "bound", life'[x] # "destroyed"
        PROVE  content'[x] \subseteq Saved(name[x])' /\ name'[x] = name[x]
    <3>1. phase[x] = "bound" /\ life[x] # "destroyed"
      BY <1>0, <1>2, <2>4, PFrame DEF IInv, Base, Constructed
    <3>2. x # d
      BY <1>6, <3>1 DEF IInv, BindingKnows
    <3>3. content'[x] = content[x]
      BY <1>2, <3>2 DEF IInv, Base, PTypeOK
    <3>4. QED
      BY <1>0, <2>3, <2>4, <3>1, <3>3, StillDurable
  <2>5. Durable'
    BY <2>4 DEF Durable, Saved, Queued
  <2>6. QED
    BY <1>0, <1>3, <1>4, <2>2, <2>5, PFrame DEF IInv, Base
<1>7. QED
  BY <1>5, <1>6

\* The database answers a read or performs a write.
LEMMA MongoKeepsIInv ==
    ASSUME ConstantsAssumption, IInv, NEW n \in Names, MongoStep(n)
    PROVE  IInv'
<1>0. [PNext]_allVars
  BY DEF PNext
<1>1. /\ queue[n] \in Seq(Operations) /\ queue[n] # <<>>
      /\ queue' = [queue EXCEPT ![n] = Tail(@)]
      /\ UNCHANGED <<docs, name, life, content, listening>>
  BY DEF MongoStep, vars, IInv, Base, PTypeOK
<1>2. \A m \in Names : store[m] \subseteq store'[m]
  BY DEF PTypeOK, MongoStep, IInv, Base
<1>3. GetsOwnName'
  <2>1. ASSUME NEW m \in Names, NEW i \in DOMAIN queue'[m], NEW d \in Docs,
               queue'[m][i] = Get(d)
        PROVE  name'[d] = m /\ life'[d] # "unborn"
    <3>1. \E j \in DOMAIN queue[m] : queue[m][j] = Get(d)
      <4>1. CASE m = n
        <5>1. queue'[n] = Tail(queue[n])
          BY <1>1 DEF IInv, Base, PTypeOK
        <5>2. i + 1 \in DOMAIN queue[n] /\ queue[n][i + 1] = queue'[n][i]
          <6>1. i \in DOMAIN Tail(queue[n])
            BY <2>1, <4>1, <5>1
          <6>2. i + 1 \in DOMAIN queue[n] /\ Tail(queue[n])[i] = queue[n][i + 1]
            BY <1>1, <6>1, TailOperation
          <6>3. QED
            BY <5>1, <6>2
        <5>3. QED
          BY <2>1, <4>1, <5>2
      <4>2. CASE m # n
        BY <1>1, <2>1, <4>2 DEF IInv, Base, PTypeOK
      <4>3. QED
        BY <4>1, <4>2
    <3>2. QED
      BY <1>1, <3>1 DEF IInv, Base, GetsOwnName
  <2>2. QED
    BY <2>1 DEF GetsOwnName
<1>4. CASE Head(queue[n]).op = "get"
  <2>1. PICK d \in Docs : Head(queue[n]) = Get(d)
    BY <1>1, <1>4, TailOperation, HeadGet
  <2>2. /\ loaded' = [loaded EXCEPT ![d] = store[n]]
        /\ phase' = [phase EXCEPT ![d] = "resuming"]
        /\ store' = store
    BY <1>4, <2>1 DEF MongoStep, Get
  <2>3. name[d] = n /\ life[d] # "unborn"
    <3>1. 1 \in DOMAIN queue[n] /\ queue[n][1] = Get(d)
      BY <1>1, <2>1, TailOperation
    <3>2. QED
      BY <3>1 DEF IInv, Base, GetsOwnName
  <2>4. Constructed'
    BY <1>1, <2>2, <2>3 DEF IInv, Base, Constructed, PTypeOK
  <2>5. BindingKnows'
    BY <1>1, <2>2, <2>3 DEF IInv, Base, BindingKnows, PTypeOK
  <2>6. QED
    <3>1. ASSUME NEW x \in Docs, phase'[x] = "bound", life'[x] # "destroyed"
          PROVE  content'[x] \subseteq Saved(name[x])' /\ name'[x] = name[x]
      <4>1. phase[x] = "bound" /\ content'[x] = content[x]
        BY <1>1, <2>2, <3>1 DEF IInv, Base, PTypeOK
      <4>2. \A m \in Names : Saved(m) \subseteq Saved(m)'
        BY SavedMongoStep DEF IInv, Base
      <4>3. QED
        BY <1>0, <3>1, <4>1, <4>2, StillDurable
    <3>2. Durable'
      BY <3>1 DEF Durable, Saved, Queued
    <3>3. QED
      BY <1>0, <1>3, <2>4, <2>5, <3>2, PFrame DEF IInv, Base
<1>5. CASE Head(queue[n]).op = "put"
  <2>1. UNCHANGED <<loaded, phase>>
    BY <1>5 DEF MongoStep
  <2>2. Constructed'
    BY <1>1, <2>1 DEF IInv, Base, Constructed
  <2>3. BindingKnows'
    <3>1. ASSUME NEW x \in Docs, phase'[x] = "resuming"
          PROVE  loaded'[x] \subseteq store'[name'[x]]
      BY <1>1, <1>2, <2>1, <3>1 DEF IInv, Base, Constructed, BindingKnows
    <3>2. QED
      BY <1>1, <2>1, <3>1 DEF IInv, BindingKnows
  <2>4. ASSUME NEW x \in Docs, phase'[x] = "bound", life'[x] # "destroyed"
        PROVE  content'[x] \subseteq Saved(name[x])' /\ name'[x] = name[x]
    <3>1. phase[x] = "bound" /\ content'[x] = content[x]
      BY <1>1, <2>1, <2>4
    <3>2. \A m \in Names : Saved(m) \subseteq Saved(m)'
      BY SavedMongoStep DEF IInv, Base
    <3>3. QED
      BY <1>0, <2>4, <3>1, <3>2, StillDurable
  <2>5. Durable'
    BY <2>4 DEF Durable, Saved, Queued
  <2>6. QED
    BY <1>0, <1>3, <2>2, <2>3, <2>5, PFrame DEF IInv, Base
<1>6. QED
  BY <1>4, <1>5 DEF MongoStep

\* The binding resumes: what is held is queued, what is merged is in the
\* database already.
LEMMA BindKeepsIInv ==
    ASSUME ConstantsAssumption, IInv, NEW d \in Docs, BindResume(d)
    PROVE  IInv'
<1>0. [PNext]_allVars
  BY DEF PNext
<1>1. /\ phase[d] = "resuming" /\ content[d] \in SUBSET Edits
      /\ content' = [content EXCEPT ![d] = @ \cup loaded[d]]
      /\ phase' = [phase EXCEPT ![d] = "bound"]
      /\ listening' = [listening EXCEPT ![d] = TRUE]
      /\ UNCHANGED <<loaded, store>>
  BY DEF BindResume, IInv, Base, PTypeOK
<1>2. PICK n \in Names : n = name[d]
  BY <1>1 DEF IInv, Base, Constructed
<1>3. /\ queue' = [queue EXCEPT ![n] = Append(@, Put(content[d]))]
      /\ Put(content[d]) \in Operations
  BY <1>1, <1>2, PutType DEF BindResume
<1>4. life[d] # "unborn" /\ name'[d] = n
  BY <1>0, <1>1, <1>2, PFrame DEF IInv, Base, Constructed
<1>5. GetsOwnName'
  BY <1>0, <1>3, NotAGet, AppendGetsOwnName
<1>6. Constructed'
  BY <1>0, <1>1, <1>4, PFrame DEF IInv, Base, Constructed, PTypeOK
<1>7. BindingKnows'
  BY <1>0, <1>1, <1>4, PFrame DEF IInv, Base, Constructed, BindingKnows, PTypeOK
<1>8. /\ \A m \in Names : Saved(m) \subseteq Saved(m)'
      /\ content[d] \subseteq Saved(n)'
  BY <1>1, <1>3, SavedAppend DEF IInv, Base, Put
<1>9. ASSUME NEW x \in Docs, phase'[x] = "bound", life'[x] # "destroyed"
      PROVE  content'[x] \subseteq Saved(name[x])' /\ name'[x] = name[x]
  <2>1. CASE x = d
    <3>1. loaded[d] \subseteq store'[n]
      BY <1>1, <1>2 DEF IInv, BindingKnows
    <3>2. loaded[d] \subseteq Saved(n)'
      BY <3>1 DEF Saved
    <3>3. content'[d] \subseteq Saved(n)'
      BY <1>1, <1>8, <3>2 DEF IInv, Base, PTypeOK
    <3>4. QED
      BY <1>2, <1>4, <2>1, <3>3 DEF Saved, Queued
  <2>2. CASE x # d
    <3>1. phase[x] = "bound" /\ content'[x] = content[x]
      BY <1>1, <1>9, <2>2 DEF IInv, Base, PTypeOK
    <3>2. QED
      BY <1>0, <1>8, <1>9, <3>1, StillDurable
  <2>3. QED
    BY <2>1, <2>2
<1>10. Durable'
  BY <1>9 DEF Durable, Saved, Queued
<1>11. QED
  BY <1>0, <1>5, <1>6, <1>7, <1>10, PFrame DEF IInv, Base

LEMMA DestroyKeepsIInv ==
    ASSUME ConstantsAssumption, IInv, NEW d \in Docs, DestroyDoc(d)
    PROVE  IInv'
<1>0. [PNext]_allVars
  BY DEF PNext
<1>1. /\ life[d] = "closing" /\ life' = [life EXCEPT ![d] = "destroyed"]
      /\ listening' = [listening EXCEPT ![d] = FALSE]
      /\ UNCHANGED <<name, content, phase, loaded, queue, store>>
  BY DEF DestroyDoc, Destroy
<1>2. GetsOwnName' /\ Constructed' /\ BindingKnows'
  BY <1>1 DEF IInv, Base, GetsOwnName, Get, Constructed, BindingKnows, PTypeOK, TypeOK
<1>3. Durable'
  BY <1>1 DEF IInv, Base, Durable, Saved, Queued, PTypeOK, TypeOK
<1>4. QED
  BY <1>0, <1>2, <1>3, PFrame DEF IInv, Base

LEMMA RestartKeepsIInv ==
    ASSUME ConstantsAssumption, IInv, Restart
    PROVE  IInv'
<1>0. [PNext]_allVars
  BY DEF PNext
<1>1. /\ phase' = [x \in Docs |-> "none"] /\ listening' = [x \in Docs |-> FALSE]
      /\ queue' = [n \in Names |-> <<>>]
  BY DEF Restart
<1>2. GetsOwnName'
  BY <1>1 DEF GetsOwnName
<1>3. Constructed'
  BY <1>0, <1>1, PFrame DEF Constructed
<1>4. BindingKnows' /\ Durable'
  BY <1>1 DEF BindingKnows, Durable
<1>5. QED
  BY <1>0, <1>2, <1>3, <1>4, PFrame DEF IInv, Base

LEMMA NextIInv ==
    ASSUME ConstantsAssumption, IInv, [PNext]_allVars
    PROVE  IInv'
<1>1. CASE ServerStep
  BY <1>1, ServerKeepsIInv DEF ServerStep
<1>2. CASE UNCHANGED allVars
  BY <1>2, ServerKeepsIInv DEF allVars, persistVars
<1>3. QED
  BY <1>1, <1>2, ConnectKeepsIInv, EditKeepsIInv, MongoKeepsIInv, BindKeepsIInv,
     DestroyKeepsIInv, RestartKeepsIInv DEF PNext

LEMMA InitIInv == PInit => IInv
<1>1. ASSUME PInit
      PROVE  TypeOK /\ Captured /\ Lifecycle
  BY <1>1, InitTypeOK, ConstantsAssumption
     DEF PInit, Init, Lifecycle, OneInstancePerName, NoIdleDoc
<1>2. ASSUME PInit
      PROVE  PTypeOK /\ GetsOwnName /\ Constructed /\ BindingKnows /\ Durable
  BY <1>1, <1>2 DEF PInit, Init, PTypeOK, Phases, GetsOwnName, Constructed,
                    BindingKnows, Durable
<1>3. QED
  BY <1>1, <1>2 DEF IInv, Base

\* Type correctness of the persistent server.
THEOREM PersistenceTypeCorrect == PSpec => []PTypeOK
<1>1. IInv /\ [PNext]_allVars => IInv'
  BY NextIInv, ConstantsAssumption
<1>2. IInv => PTypeOK
  BY DEF IInv, Base
<1>3. QED
  BY InitIInv, <1>1, <1>2, PTL DEF PSpec

\* Once an instance is bound, no edit exists in its memory only, whatever the
\* interleaving of browsers, database answers, closes and crashes.
THEOREM BoundIsDurable == PSpec => []Durable
<1>1. IInv /\ [PNext]_allVars => IInv'
  BY NextIInv, ConstantsAssumption
<1>2. IInv => Durable
  BY DEF IInv
<1>3. QED
  BY InitIInv, <1>1, <1>2, PTL DEF PSpec

\* The persistent server is the server: what is proved of YjsServer holds of
\* it as it is.
THEOREM PersistentServerIsServer == PSpec => Spec
<1>1. PInit => Init
  BY DEF PInit
<1>2. [PNext]_allVars => [Next]_vars
  BY PNextIsNext
<1>3. QED
  BY <1>1, <1>2, PTL DEF PSpec, Spec

-----------------------------------------------------------------------------
(* The promise of DurableDoc *)

\* The reads pending on a name are each the only one of an instance that waits
\* for it.
ReadsOnce ==
    \A n \in Names : \A i \in DOMAIN queue[n] : \A d \in Docs :
        queue[n][i] = Get(d) =>
            /\ phase[d] = "reading"
            /\ \A j \in DOMAIN queue[n] : queue[n][j] = Get(d) => j = i

\* Nothing is held before the construction of its instance, which starts the
\* binding; whoever can send, and whatever is queued, has come after that.
Openings ==
    /\ \A d \in Docs : life[d] = "unborn" => content[d] = {}
    /\ \A d \in Docs : life[d] \in {"live", "closing"} => phase[d] # "none"
    /\ \A c \in Conns : alive[c] => Opened /\ doc[c] \in Docs /\ life[doc[c]] # "unborn"
    /\ \A n \in Names : queue[n] # <<>> => Opened

\* Callbacks only begin to close instances, and revive no peer.
LEMMA CallbackFrame ==
    ASSUME ConstantsAssumption, IInv, Callback
    PROVE  /\ name' = name /\ doc' = doc
           /\ \A d \in Docs : life'[d] = life[d] \/ (life[d] = "live" /\ life'[d] = "closing")
           /\ \A c \in Conns : alive'[c] => alive[c]
<1> USE DEF TypeOK
<1>0. TypeOK /\ Captured /\ Lifecycle
  BY DEF IInv, Base, PTypeOK
<1>1. \A c \in Conns : alive'[c] => alive[c]
  <2>1. \/ alive' = alive
        \/ \E c \in Conns : alive' = [alive EXCEPT ![c] = FALSE]
    BY DEF Callback, RecvAwareness, RecvUpdate, SendError, Tick, TickUnanswered, TickPing,
           TickPingThrows, Pong, PeerCloses, PeerDies, OnClose, AwarenessTimeout, UpdateFromDisk
  <2>2. QED
    BY <1>0, <2>1
<1>2. CASE Closes
  <2>1. PICK e \in Docs, S \in SUBSET Conns : \E st, ctl :
          S \subseteq conns[e] /\ CloseAll(e, S, st, ctl) /\ UNCHANGED <<name, doc>>
    BY <1>2, Zenon DEF Closes
  <2>2. conns[e] # {} => life[e] = "live"
    BY <1>0 DEF Lifecycle, OneInstancePerName, NoIdleDoc, ConstantsAssumption
  <2>3. \/ life' = life
        \/ conns[e] # {} /\ life' = [life EXCEPT ![e] = "closing"]
    BY <2>1 DEF CloseAll
  <2>4. QED
    BY <1>0, <1>1, <2>1, <2>2, <2>3
<1>3. CASE Still
  BY <1>3, <1>1 DEF Still
<1> HIDE DEF TypeOK
<1>4. Closes \/ Still
  BY <1>0, CallbackShape
<1>5. QED
  BY <1>2, <1>3, <1>4

LEMMA AppendLast ==
    ASSUME NEW q \in Seq(Operations), NEW o \in Operations,
           NEW i \in DOMAIN Append(q, o)
    PROVE  \/ i \in DOMAIN q /\ Append(q, o)[i] = q[i]
           \/ i \notin DOMAIN q /\ i = Len(q) + 1 /\ Append(q, o)[i] = o
<1>1. /\ Len(Append(q, o)) = Len(q) + 1
      /\ Len(q) \in Nat
      /\ \A j \in 1..Len(q) : Append(q, o)[j] = q[j]
      /\ Append(q, o)[Len(q) + 1] = o
  OBVIOUS
<1>2. DOMAIN q = 1..Len(q) /\ DOMAIN Append(q, o) = 1..(Len(q) + 1)
  BY <1>1
<1>3. QED
  BY <1>1, <1>2

\* Reads stay unique when o is appended, if it is no second read.
LEMMA AppendReadsOnce ==
    ASSUME PTypeOK, ReadsOnce, NEW n \in Names, NEW o \in Operations,
           queue' = [queue EXCEPT ![n] = Append(@, o)],
           \A d \in Docs : phase[d] = "reading" => phase'[d] = "reading",
           \A d \in Docs : o = Get(d) =>
             phase'[d] = "reading" /\ \A i \in DOMAIN queue[n] : queue[n][i] # Get(d)
    PROVE  ReadsOnce'
<1>1. queue[n] \in Seq(Operations) /\ queue'[n] = Append(queue[n], o)
  BY DEF PTypeOK
<1>2. ASSUME NEW m \in Names, NEW i \in DOMAIN queue'[m], NEW d \in Docs,
             queue'[m][i] = Get(d)
      PROVE  /\ phase'[d] = "reading"
             /\ \A j \in DOMAIN queue'[m] : queue'[m][j] = Get(d) => j = i
  <2>1. CASE m # n
    <3>1. queue'[m] = queue[m]
      BY <2>1 DEF PTypeOK
    <3>2. QED
      BY <1>2, <3>1 DEF ReadsOnce
  <2>2. CASE m = n
    <3>1. \A j \in DOMAIN queue'[n] :
            \/ j \in DOMAIN queue[n] /\ queue'[n][j] = queue[n][j]
            \/ j \notin DOMAIN queue[n] /\ j = Len(queue[n]) + 1 /\ queue'[n][j] = o
      BY <1>1, AppendLast
    <3>2. CASE i \in DOMAIN queue[n]
      <4>1. queue[n][i] = Get(d)
        BY <1>2, <2>2, <3>1, <3>2
      <4>2. phase[d] = "reading" /\ \A j \in DOMAIN queue[n] : queue[n][j] = Get(d) => j = i
        BY <3>2, <4>1 DEF ReadsOnce
      <4>3. o # Get(d)
        BY <3>2, <4>1
      <4>4. QED
        BY <2>2, <3>1, <4>2, <4>3
    <3>3. CASE i \notin DOMAIN queue[n]
      <4>1. o = Get(d) /\ i = Len(queue[n]) + 1
        BY <1>2, <2>2, <3>1, <3>3
      <4>2. phase'[d] = "reading" /\ \A j \in DOMAIN queue[n] : queue[n][j] # Get(d)
        BY <4>1
      <4>3. QED
        BY <2>2, <3>1, <4>1, <4>2
    <3>4. QED
      BY <3>2, <3>3
  <2>3. QED
    BY <2>1, <2>2
<1>3. QED
  BY <1>2 DEF ReadsOnce

\* Reads stay unique when the first operation is taken off, if it was the only
\* one whose instance stops waiting.
LEMMA TailReadsOnce ==
    ASSUME PTypeOK, GetsOwnName, ReadsOnce, NEW n \in Names, queue[n] # <<>>,
           queue' = [queue EXCEPT ![n] = Tail(@)],
           \A d \in Docs : phase[d] = "reading" /\ Head(queue[n]) # Get(d)
                             => phase'[d] = "reading"
    PROVE  ReadsOnce'
<1>1. queue[n] \in Seq(Operations) /\ queue'[n] = Tail(queue[n])
  BY DEF PTypeOK
<1>2. \A j \in DOMAIN queue'[n] : /\ j \in Nat \ {0}
                                  /\ j + 1 \in DOMAIN queue[n]
                                  /\ queue'[n][j] = queue[n][j + 1]
  <2>1. Tail(queue[n]) \in Seq(Operations)
    BY <1>1, TailOperation
  <2>2. DOMAIN Tail(queue[n]) = 1..Len(Tail(queue[n])) /\ Len(Tail(queue[n])) \in Nat
    BY <2>1
  <2>3. \A j \in DOMAIN Tail(queue[n]) :
          j + 1 \in DOMAIN queue[n] /\ Tail(queue[n])[j] = queue[n][j + 1]
    BY <1>1, TailOperation
  <2>4. \A j \in DOMAIN Tail(queue[n]) : j \in Nat \ {0}
    BY <2>2
  <2>5. QED
    BY <1>1, <2>3, <2>4, Zenon
<1>3. 1 \in DOMAIN queue[n] /\ Head(queue[n]) = queue[n][1]
  BY <1>1, TailOperation
<1>4. ASSUME NEW m \in Names, NEW i \in DOMAIN queue'[m], NEW d \in Docs,
             queue'[m][i] = Get(d)
      PROVE  /\ phase'[d] = "reading"
             /\ \A j \in DOMAIN queue'[m] : queue'[m][j] = Get(d) => j = i
  <2>1. CASE m = n
    <3>1. queue[n][i + 1] = Get(d) /\ i + 1 \in DOMAIN queue[n]
      BY <1>2, <1>4, <2>1
    <3>2. phase[d] = "reading" /\ \A j \in DOMAIN queue[n] : queue[n][j] = Get(d) => j = i + 1
      BY <3>1 DEF ReadsOnce
    <3>3. Head(queue[n]) # Get(d)
      BY <1>2, <1>3, <1>4, <2>1, <3>2
    <3>4. \A j \in DOMAIN queue'[n] : queue'[n][j] = Get(d) => j = i
      BY <1>2, <1>4, <2>1, <3>2
    <3>5. QED
      BY <2>1, <3>2, <3>3, <3>4
  <2>2. CASE m # n
    <3>1. queue'[m] = queue[m]
      BY <2>2 DEF PTypeOK
    <3>2. phase[d] = "reading" /\ \A j \in DOMAIN queue[m] : queue[m][j] = Get(d) => j = i
      BY <1>4, <3>1 DEF ReadsOnce
    <3>3. Head(queue[n]) # Get(d)
      BY <1>3, <1>4, <2>2, <3>1 DEF GetsOwnName
    <3>4. QED
      BY <3>1, <3>2, <3>3
  <2>3. QED
    BY <2>1, <2>2
<1>5. QED
  BY <1>4 DEF ReadsOnce

\* Openings survives whatever constructs no instance, when only an instance
\* already constructed gains content and only an open server a queue.
LEMMA StillOpenings ==
    ASSUME Openings, doc' = doc,
           \A d \in Docs : phase[d] # "none" => phase'[d] # "none",
           \A d \in Docs : life'[d] \in {"live", "closing"} => life[d] \in {"live", "closing"},
           \A d \in Docs : life'[d] = "unborn" => life[d] = "unborn",
           \A c \in Conns : alive'[c] => alive[c],
           \A d \in Docs : life[d] = "unborn" => content'[d] = content[d],
           \A n \in Names : queue'[n] # <<>> => queue[n] # <<>> \/ Opened
    PROVE  Openings'
BY DEF Openings, Opened

LEMMA NextOpenings ==
    ASSUME ConstantsAssumption, IInv, ReadsOnce, Openings, [PNext]_allVars
    PROVE  ReadsOnce' /\ Openings'
<1>0. PTypeOK /\ TypeOK
  BY DEF IInv, Base, PTypeOK
<1>1. ASSUME NEW c \in Conns, NEW n \in Names, NEW d \in Docs, Connect(c, n, d)
      PROVE  ReadsOnce' /\ Openings'
  <2>1. /\ UNCHANGED content
        /\ doc' = [doc EXCEPT ![c] = d] /\ alive' = [alive EXCEPT ![c] = TRUE]
    BY <1>1 DEF Connect, SetupWSConnection
  <2>2. CASE docs[n] # NoDoc
    <3>1. docs[n] = d /\ life' = life /\ UNCHANGED <<queue, phase>>
      BY <1>1, <2>2 DEF Connect, SetupWSConnection, GetYDoc
    <3>2. life[d] = "live"
      BY <2>2, <3>1 DEF IInv, Base, Lifecycle, NoIdleDoc
    <3>3. Opened /\ Opened' /\ phase[d] # "none"
      BY <3>1, <3>2 DEF Openings, Opened
    <3>4. Openings'
      BY <1>0, <2>1, <3>1, <3>2, <3>3 DEF Openings, PTypeOK, TypeOK
    <3>5. ReadsOnce'
      BY <3>1 DEF ReadsOnce
    <3>6. QED
      BY <3>4, <3>5
  <2>3. CASE docs[n] = NoDoc
    <3>1. /\ queue' = [queue EXCEPT ![n] = Append(@, Get(d))]
          /\ phase' = [phase EXCEPT ![d] = "reading"]
          /\ life[d] = "unborn" /\ life' = [life EXCEPT ![d] = "live"]
      BY <1>1, <2>3 DEF Connect, SetupWSConnection, GetYDoc, ConstantsAssumption
    <3>2. phase'[d] = "reading" /\ life'[d] = "live"
      BY <1>0, <3>1 DEF PTypeOK, TypeOK
    <3>3. Opened'
      BY <3>2 DEF Opened
    <3>4. Openings'
      BY <1>0, <2>1, <3>1, <3>2, <3>3 DEF Openings, PTypeOK, TypeOK
    <3>5. \A i \in DOMAIN queue[n] : queue[n][i] # Get(d)
      BY <3>1 DEF IInv, Base, GetsOwnName
    <3>6. \A e \in Docs : Get(d) = Get(e) => e = d
      BY DEF Get
    <3>7. \A e \in Docs : phase[e] = "reading" => phase'[e] = "reading"
      BY <1>0, <3>1 DEF PTypeOK
    <3>8. \A e \in Docs : Get(d) = Get(e) =>
            phase'[e] = "reading" /\ \A i \in DOMAIN queue[n] : queue[n][i] # Get(e)
      BY <3>2, <3>5, <3>6
    <3>9. ReadsOnce'
      BY <1>0, <3>1, <3>7, <3>8, GetType, AppendReadsOnce
    <3>10. QED
      BY <3>4, <3>9
  <2>4. QED
    BY <2>2, <2>3
<1>2. ASSUME NEW c \in Conns, NEW e \in Edits, RecvEdit(c, e)
      PROVE  ReadsOnce' /\ Openings'
  <2>1. PICK d \in Docs : d = doc[c]
    BY <1>2 DEF RecvEdit, RecvUpdate, Delivers, Openings
  <2>2. Opened /\ life[d] # "unborn"
    BY <1>2, <2>1 DEF RecvEdit, RecvUpdate, Delivers, Openings
  <2>3. Callback
    BY <1>2 DEF RecvEdit, Callback
  <2>4. /\ content' = [content EXCEPT ![d] = @ \cup {e}]
        /\ phase' = phase
    BY <1>2, <2>1 DEF RecvEdit
  <2>5. Openings'
    <3>1. \A m \in Names : queue'[m] # <<>> => queue[m] # <<>> \/ Opened
      BY <2>2
    <3>2. \A x \in Docs : life[x] = "unborn" => content'[x] = content[x]
      BY <1>0, <2>2, <2>4 DEF PTypeOK
    <3>3. QED
      BY <1>0, <2>3, <2>4, <3>1, <3>2, CallbackFrame, StillOpenings
  <2>6. CASE listening[d]
    <3>1. name[d] \in Names /\ queue' = [queue EXCEPT ![name[d]] = Append(@, Put({e}))]
      BY <1>2, <2>1, <2>2, <2>6 DEF RecvEdit, IInv, Base, Constructed
    <3>2. Put({e}) \in Operations /\ \A x \in Docs : Put({e}) # Get(x)
      BY PutType, NotAGet
    <3>3. ReadsOnce'
      BY <1>0, <2>4, <3>1, <3>2, AppendReadsOnce
    <3>4. QED
      BY <2>5, <3>3
  <2>7. CASE ~listening[d]
    <3>1. queue' = queue
      BY <1>2, <2>1, <2>7 DEF RecvEdit
    <3>2. QED
      BY <2>4, <2>5, <3>1 DEF ReadsOnce
  <2>8. QED
    BY <2>6, <2>7
<1>3. ASSUME NEW n \in Names, MongoStep(n)
      PROVE  ReadsOnce' /\ Openings'
  <2>1. /\ queue[n] \in Seq(Operations) /\ queue[n] # <<>>
        /\ queue' = [queue EXCEPT ![n] = Tail(@)] /\ queue'[n] = Tail(queue[n])
        /\ UNCHANGED <<doc, life, alive, name, content>>
    BY <1>0, <1>3 DEF MongoStep, vars, PTypeOK
  <2>2. CASE Head(queue[n]).op = "get"
    <3>1. PICK d \in Docs : Head(queue[n]) = Get(d)
      BY <2>1, <2>2, TailOperation, HeadGet
    <3>2. phase' = [phase EXCEPT ![d] = "resuming"]
      BY <1>3, <2>2, <3>1 DEF MongoStep, Get
    <3>3. Openings'
      <4>1. \A x \in Docs : phase[x] # "none" => phase'[x] # "none"
        BY <1>0, <3>2 DEF PTypeOK
      <4>2. \A m \in Names : queue'[m] # <<>> => queue[m] # <<>> \/ Opened
        BY <1>0, <2>1 DEF PTypeOK
      <4>3. QED
        BY <2>1, <4>1, <4>2, StillOpenings
    <3>4. \A x \in Docs : phase[x] = "reading" /\ Head(queue[n]) # Get(x)
                            => phase'[x] = "reading"
      BY <1>0, <3>1, <3>2 DEF PTypeOK
    <3>5. QED
      BY <1>0, <2>1, <3>3, <3>4, TailReadsOnce DEF IInv, Base
  <2>3. CASE Head(queue[n]).op = "put"
    <3>1. phase' = phase
      BY <1>3, <2>3 DEF MongoStep
    <3>2. Openings'
      <4>1. \A m \in Names : queue'[m] # <<>> => queue[m] # <<>> \/ Opened
        BY <1>0, <2>1 DEF PTypeOK
      <4>2. QED
        BY <2>1, <3>1, <4>1, StillOpenings
    <3>3. QED
      BY <1>0, <2>1, <3>1, <3>2, TailReadsOnce DEF IInv, Base
  <2>4. QED
    BY <1>3, <2>2, <2>3 DEF MongoStep
<1>4. ASSUME NEW d \in Docs, BindResume(d)
      PROVE  ReadsOnce' /\ Openings'
  <2>1. /\ phase[d] = "resuming" /\ phase' = [phase EXCEPT ![d] = "bound"]
        /\ content' = [content EXCEPT ![d] = @ \cup loaded[d]]
        /\ queue' = [queue EXCEPT ![name[d]] = Append(@, Put(content[d]))]
    BY <1>4 DEF BindResume
  <2>2. name[d] \in Names /\ life[d] # "unborn" /\ Opened
    BY <2>1 DEF IInv, Base, Constructed, Opened
  <2>3. /\ \A x \in Docs : phase[x] # "none" => phase'[x] # "none"
        /\ \A x \in Docs : phase[x] = "reading" => phase'[x] = "reading"
    BY <1>0, <2>1 DEF PTypeOK
  <2>4. /\ doc' = doc /\ \A c \in Conns : alive'[c] => alive[c]
        /\ \A x \in Docs : life'[x] = life[x] \/ (life[x] = "live" /\ life'[x] = "closing")
    <3>1. Callback \/ UNCHANGED vars
      BY <1>4 DEF BindResume, Callback
    <3>2. QED
      BY <3>1, CallbackFrame DEF vars
  <2>5. Openings'
    <3>1. \A m \in Names : queue'[m] # <<>> => queue[m] # <<>> \/ Opened
      BY <2>2
    <3>2. \A x \in Docs : life[x] = "unborn" => content'[x] = content[x]
      BY <1>0, <2>1, <2>2 DEF PTypeOK
    <3>3. QED
      BY <2>3, <2>4, <3>1, <3>2, StillOpenings
  <2>6. Put(content[d]) \in Operations /\ \A x \in Docs : Put(content[d]) # Get(x)
    <3>1. content[d] \in SUBSET Edits
      BY <1>0 DEF PTypeOK
    <3>2. QED
      BY <3>1, PutType, NotAGet
  <2>7. ReadsOnce'
    BY <1>0, <2>1, <2>2, <2>3, <2>6, AppendReadsOnce
  <2>8. QED
    BY <2>5, <2>7
<1>5. ASSUME NEW d \in Docs, DestroyDoc(d)
      PROVE  ReadsOnce' /\ Openings'
  <2>1. /\ UNCHANGED <<content, phase, queue, doc, alive>>
        /\ life[d] = "closing" /\ life' = [life EXCEPT ![d] = "destroyed"]
    BY <1>5 DEF DestroyDoc, Destroy, connVars
  <2>2. Openings'
    BY <1>0, <2>1, StillOpenings DEF PTypeOK, TypeOK
  <2>3. QED
    BY <2>1, <2>2 DEF ReadsOnce
<1>6. CASE ServerStep \/ UNCHANGED allVars
  <2>1. UNCHANGED <<content, phase, queue>>
    BY <1>6 DEF ServerStep, persistVars, allVars
  <2>2. /\ doc' = doc /\ \A c \in Conns : alive'[c] => alive[c]
        /\ \A x \in Docs : life'[x] = life[x] \/ (life[x] = "live" /\ life'[x] = "closing")
    <3>1. Callback \/ UNCHANGED vars
      BY <1>6 DEF ServerStep, Callback, allVars
    <3>2. QED
      BY <3>1, CallbackFrame DEF vars
  <2>3. QED
    BY <2>1, <2>2, StillOpenings DEF ReadsOnce
<1>7. CASE Restart
  <2>1. /\ content' = [d \in Docs |-> {}] /\ queue' = [n \in Names |-> <<>>]
        /\ alive' = [c \in Conns |-> FALSE]
        /\ \A d \in Docs : life'[d] \in {"unborn", "destroyed"}
    BY <1>7 DEF Restart, Crash
  <2>2. QED
    BY <2>1 DEF ReadsOnce, Openings
<1>8. QED
  BY <1>1, <1>2, <1>3, <1>4, <1>5, <1>6, <1>7 DEF PNext

\* The edits of a queue, and those of one operation.
QueuedIn(q) == UNION {q[i].edits : i \in {j \in DOMAIN q : q[j].op = "put"}}

Puts(o) == IF o.op = "put" THEN o.edits ELSE {}

LEMMA QueuedAppend ==
    ASSUME NEW q \in Seq(Operations), NEW o \in Operations
    PROVE  QueuedIn(Append(q, o)) = QueuedIn(q) \cup Puts(o)
<1>1. ASSUME NEW e \in QueuedIn(Append(q, o))
      PROVE  e \in QueuedIn(q) \cup Puts(o)
  <2>1. PICK i \in DOMAIN Append(q, o) :
          Append(q, o)[i].op = "put" /\ e \in Append(q, o)[i].edits
    BY <1>1 DEF QueuedIn
  <2>2. Append(q, o)[i] = o \/ (i \in DOMAIN q /\ Append(q, o)[i] = q[i])
    BY AppendOperation
  <2>3. QED
    BY <2>1, <2>2 DEF QueuedIn, Puts
<1>2. ASSUME NEW e \in QueuedIn(q)
      PROVE  e \in QueuedIn(Append(q, o))
  <2>1. PICK i \in DOMAIN q : q[i].op = "put" /\ e \in q[i].edits
    BY <1>2 DEF QueuedIn
  <2>2. i \in DOMAIN Append(q, o) /\ Append(q, o)[i] = q[i]
    BY AppendOperation
  <2>3. QED
    BY <2>1, <2>2 DEF QueuedIn
<1>3. ASSUME NEW e \in Puts(o)
      PROVE  e \in QueuedIn(Append(q, o))
  <2>1. o.op = "put" /\ e \in o.edits
    BY <1>3 DEF Puts
  <2>2. PICK i \in DOMAIN Append(q, o) : Append(q, o)[i] = o
    BY AppendOperation
  <2>3. QED
    BY <2>1, <2>2 DEF QueuedIn
<1>4. QED
  BY <1>1, <1>2, <1>3

LEMMA QueuedTail ==
    ASSUME NEW q \in Seq(Operations), q # <<>>
    PROVE  QueuedIn(q) = QueuedIn(Tail(q)) \cup Puts(Head(q))
<1>1. ASSUME NEW e \in QueuedIn(q)
      PROVE  e \in QueuedIn(Tail(q)) \cup Puts(Head(q))
  <2>1. PICK i \in DOMAIN q : q[i].op = "put" /\ e \in q[i].edits
    BY <1>1 DEF QueuedIn
  <2>2. CASE i = 1
    BY <2>1, <2>2, TailOperation DEF Puts
  <2>3. CASE i # 1
    <3>1. i - 1 \in DOMAIN Tail(q) /\ Tail(q)[i - 1] = q[i]
      BY <2>3, TailOperation
    <3>2. QED
      BY <2>1, <3>1 DEF QueuedIn
  <2>4. QED
    BY <2>2, <2>3
<1>2. ASSUME NEW e \in QueuedIn(Tail(q))
      PROVE  e \in QueuedIn(q)
  <2>1. PICK i \in DOMAIN Tail(q) : Tail(q)[i].op = "put" /\ e \in Tail(q)[i].edits
    BY <1>2 DEF QueuedIn
  <2>2. i + 1 \in DOMAIN q /\ Tail(q)[i] = q[i + 1]
    BY TailOperation
  <2>3. QED
    BY <2>1, <2>2 DEF QueuedIn
<1>3. ASSUME NEW e \in Puts(Head(q))
      PROVE  e \in QueuedIn(q)
  <2>1. Head(q).op = "put" /\ e \in Head(q).edits
    BY <1>3 DEF Puts
  <2>2. 1 \in DOMAIN q /\ q[1] = Head(q)
    BY TailOperation
  <2>3. QED
    BY <2>1, <2>2 DEF QueuedIn
<1>4. QED
  BY <1>1, <1>2, <1>3

LEMMA PutsOf ==
    /\ \A E : Puts(Put(E)) = E
    /\ \A d : Puts(Get(d)) = {}
<1>1. ASSUME NEW E PROVE Puts(Put(E)) = E
  BY DEF Puts, Put
<1>2. ASSUME NEW d PROVE Puts(Get(d)) = {}
  <2>1. Get(d).op # "put"
    BY DEF Get
  <2>2. QED
    BY <2>1 DEF Puts
<1>3. QED
  BY <1>1, <1>2

\* An instance whose content will be stored.
Held(d) == life[d] \in {"live", "closing"} \/ phase[d] \in {"reading", "resuming"}

\* Why e is accepted under n: it is stored, queued, or held.
Vouched(n, e) ==
    \/ e \in store[n]
    \/ e \in QueuedIn(queue[n])
    \/ \E d \in Docs : name[d] = n /\ Held(d) /\ e \in content[d]

LEMMA InAccepted ==
    ASSUME NEW n \in Names, NEW e
    PROVE  e \in Accepted[n] <=> Vouched(n, e)
BY DEF Accepted, Saved, Queued, QueuedIn, Pending, Held, Vouched

\* What is accepted after a step, from who vouches for what.
LEMMA AcceptedIs ==
    ASSUME NEW A, A = [n \in Names |-> A[n]],
           \A n \in Names : \A e : e \in A[n] <=> Vouched(n, e)'
    PROVE  Accepted' = A
<1>1. Accepted' = [n \in Names |-> Accepted'[n]]
  BY DEF Accepted
<1>2. ASSUME NEW n \in Names
      PROVE  Accepted'[n] = A[n]
  <2>1. ASSUME NEW e
        PROVE  e \in Accepted'[n] <=> e \in A[n]
    BY DEF Accepted, Saved, Queued, QueuedIn, Pending, Held, Vouched
  <2>2. QED
    BY <2>1
<1>3. QED
  BY <1>1, <1>2

LEMMA AcceptedKept ==
    ASSUME \A n \in Names : \A e : Vouched(n, e)' <=> Vouched(n, e)
    PROVE  Accepted' = Accepted
<1>1. Accepted = [n \in Names |-> Accepted[n]]
  BY DEF Accepted
<1>2. QED
  BY <1>1, InAccepted, AcceptedIs

LEMMA OpenedKept ==
    ASSUME \A d \in Docs : phase'[d] # "none" <=> phase[d] # "none"
    PROVE  Opened' = Opened
BY DEF Opened

RInv == IInv /\ ReadsOnce /\ Openings

\* The refinement, action by action.  Only the connection that constructs an
\* instance opens anything.
LEMMA ConnectRefines ==
    ASSUME ConstantsAssumption, RInv,
           NEW c \in Conns, NEW n \in Names, NEW d \in Docs, Connect(c, n, d)
    PROVE  Promise!Open \/ UNCHANGED <<Opened, Accepted, store>>
<1>0. PTypeOK /\ TypeOK
  BY DEF RInv, IInv, Base, PTypeOK
<1>1. CASE docs[n] # NoDoc
  <2>1. UNCHANGED <<name, life, content, phase, queue, store>>
    BY <1>1 DEF Connect, SetupWSConnection, GetYDoc
  <2>2. QED
    BY <2>1 DEF Opened, Accepted, Saved, Queued, Pending
<1>2. CASE docs[n] = NoDoc
  <2>1. /\ queue' = [queue EXCEPT ![n] = Append(@, Get(d))]
        /\ phase' = [phase EXCEPT ![d] = "reading"]
        /\ UNCHANGED <<content, store>>
        /\ life[d] = "unborn" /\ life' = [life EXCEPT ![d] = "live"]
        /\ name' = [name EXCEPT ![d] = n]
    BY <1>2 DEF Connect, SetupWSConnection, GetYDoc, ConstantsAssumption
  <2>2. content[d] = {}
    BY <2>1 DEF RInv, Openings
  <2>3. \A m \in Names : QueuedIn(queue'[m]) = QueuedIn(queue[m])
    <3>1. QueuedIn(Append(queue[n], Get(d))) = QueuedIn(queue[n]) \cup Puts(Get(d))
      BY <1>0, GetType, QueuedAppend DEF PTypeOK
    <3>2. QueuedIn(Append(queue[n], Get(d))) = QueuedIn(queue[n])
      BY <3>1, PutsOf
    <3>3. QED
      BY <1>0, <2>1, <3>2 DEF PTypeOK
  <2>4. ASSUME NEW x \in Docs, x # d
        PROVE  name'[x] = name[x] /\ (Held(x)' <=> Held(x))
    BY <1>0, <2>1, <2>4 DEF Held, PTypeOK, TypeOK
  <2>5. \A m \in Names : \A e : Vouched(m, e)' <=> Vouched(m, e)
    BY <2>1, <2>2, <2>3, <2>4 DEF Vouched
  <2>6. Opened'
    BY <1>0, <2>1 DEF Opened, PTypeOK
  <2>7. QED
    BY <2>1, <2>5, <2>6, AcceptedKept DEF Promise!Open
<1>3. QED
  BY <1>1, <1>2

\* An edit is accepted if its instance vouches for it, or stores it.
LEMMA EditRefines ==
    ASSUME ConstantsAssumption, RInv, NEW c \in Conns, NEW e \in Edits, RecvEdit(c, e)
    PROVE  (\E n \in Names : Promise!Accept(n, e)) \/ UNCHANGED <<Opened, Accepted, store>>
<1>0. PTypeOK /\ TypeOK
  BY DEF RInv, IInv, Base, PTypeOK
<1>1. PICK d \in Docs : d = doc[c]
  BY DEF RecvEdit, RecvUpdate, Delivers, RInv, Openings
<1>2. Opened /\ life[d] # "unborn"
  BY <1>1 DEF RecvEdit, RecvUpdate, Delivers, RInv, Openings
<1>3. PICK n \in Names : n = name[d]
  BY <1>2 DEF RInv, IInv, Base, Constructed
<1>4. /\ content' = [content EXCEPT ![d] = @ \cup {e}]
      /\ queue' = IF listening[d] THEN [queue EXCEPT ![n] = Append(@, Put({e}))] ELSE queue
      /\ UNCHANGED <<phase, store>>
  BY <1>1, <1>3 DEF RecvEdit
<1>5. name' = name /\ \A x \in Docs : Held(x)' <=> Held(x)
  <2>1. Callback
    BY DEF RecvEdit, Callback
  <2>2. QED
    BY <1>4, <2>1, CallbackFrame DEF RInv, Held
<1>6. \A m \in Names : QueuedIn(queue'[m]) =
        QueuedIn(queue[m]) \cup (IF m = n /\ listening[d] THEN {e} ELSE {})
  <2>1. QueuedIn(Append(queue[n], Put({e}))) = QueuedIn(queue[n]) \cup Puts(Put({e}))
    BY <1>0, PutType, QueuedAppend DEF PTypeOK
  <2>2. QueuedIn(Append(queue[n], Put({e}))) = QueuedIn(queue[n]) \cup {e}
    BY <2>1, PutsOf
  <2>3. QED
    BY <1>0, <1>4, <2>2 DEF PTypeOK
<1>7. \A x \in Docs : content'[x] = content[x] \cup (IF x = d THEN {e} ELSE {})
  BY <1>0, <1>4 DEF PTypeOK
<1>8. Opened' = Opened
  BY <1>4, OpenedKept
<1>9. CASE listening[d] \/ Held(d)
  <2>1. ASSUME NEW m \in Names, NEW x
        PROVE  Vouched(m, x)' <=> (Vouched(m, x) \/ (m = n /\ x = e))
    <3>1. ASSUME Vouched(m, x)' PROVE Vouched(m, x) \/ (m = n /\ x = e)
      <4>1. CASE x \in store'[m] \/ x \in QueuedIn(queue'[m])
        BY <1>4, <1>6, <4>1 DEF Vouched
      <4>2. ASSUME NEW y \in Docs, name'[y] = m, Held(y)', x \in content'[y]
            PROVE  Vouched(m, x) \/ (m = n /\ x = e)
        <5>1. name[y] = m /\ Held(y)
          BY <1>5, <4>2
        <5>2. x \in content[y] \/ (y = d /\ x = e)
          BY <1>7, <4>2
        <5>3. QED
          BY <1>3, <5>1, <5>2 DEF Vouched
      <4>3. QED
        BY <3>1, <4>1, <4>2 DEF Vouched
    <3>2. Vouched(m, x) => Vouched(m, x)'
      BY <1>4, <1>5, <1>6, <1>7 DEF Vouched
    <3>3. CASE m = n /\ x = e /\ listening[d]
      BY <1>6, <3>3 DEF Vouched
    <3>4. CASE m = n /\ x = e /\ Held(d)
      <4>1. name'[d] = n /\ Held(d)' /\ e \in content'[d]
        BY <1>3, <1>5, <1>7, <3>4
      <4>2. QED
        BY <3>4, <4>1 DEF Vouched
    <3>5. QED
      BY <1>9, <3>1, <3>2, <3>3, <3>4
  <2>2. [Accepted EXCEPT ![n] = @ \cup {e}]
          = [m \in Names |-> [Accepted EXCEPT ![n] = @ \cup {e}][m]]
    BY DEF Accepted
  <2>3. ASSUME NEW m \in Names, NEW x
        PROVE  x \in [Accepted EXCEPT ![n] = @ \cup {e}][m] <=> Vouched(m, x)'
    <3>1. Accepted = [k \in Names |-> Accepted[k]]
      BY DEF Accepted
    <3>2. [Accepted EXCEPT ![n] = @ \cup {e}][m] = IF m = n THEN Accepted[m] \cup {e} ELSE Accepted[m]
      BY <3>1
    <3>3. QED
      BY <2>1, <3>2, InAccepted
  <2>4. Accepted' = [Accepted EXCEPT ![n] = @ \cup {e}]
    BY <2>2, <2>3, AcceptedIs
  <2>5. QED
    BY <1>2, <1>4, <1>8, <2>4 DEF Promise!Accept
<1>10. CASE ~(listening[d] \/ Held(d))
  <2>1. \A m \in Names : \A x : Vouched(m, x)' <=> Vouched(m, x)
    BY <1>4, <1>5, <1>6, <1>7, <1>10 DEF Vouched
  <2>2. QED
    BY <1>4, <1>8, <2>1, AcceptedKept
<1>11. QED
  BY <1>9, <1>10

\* A read changes nothing; a write persists what was queued for it.
LEMMA MongoRefines ==
    ASSUME ConstantsAssumption, RInv, NEW n \in Names, MongoStep(n)
    PROVE  \/ \E E \in SUBSET Edits : Promise!Persist(n, E)
           \/ UNCHANGED <<Opened, Accepted, store>>
<1>0. PTypeOK /\ TypeOK
  BY DEF RInv, IInv, Base, PTypeOK
<1>1. /\ queue[n] \in Seq(Operations) /\ queue[n] # <<>>
      /\ queue' = [queue EXCEPT ![n] = Tail(@)]
      /\ UNCHANGED <<name, life, content>>
  BY <1>0 DEF MongoStep, vars, PTypeOK
<1>2. QueuedIn(queue[n]) = QueuedIn(Tail(queue[n])) \cup Puts(Head(queue[n]))
  BY <1>1, QueuedTail
<1>3. /\ \A m \in Names : m # n => QueuedIn(queue'[m]) = QueuedIn(queue[m])
      /\ QueuedIn(queue'[n]) = QueuedIn(Tail(queue[n]))
  BY <1>0, <1>1 DEF PTypeOK
<1>4. CASE Head(queue[n]).op = "get"
  <2>1. PICK d \in Docs : Head(queue[n]) = Get(d)
    BY <1>1, <1>4, TailOperation, HeadGet
  <2>2. phase' = [phase EXCEPT ![d] = "resuming"] /\ store' = store
    BY <1>4, <2>1 DEF MongoStep, Get
  <2>3. phase[d] = "reading"
    BY <1>1, <2>1, TailOperation DEF RInv, ReadsOnce
  <2>4. \A x \in Docs : Held(x)' <=> Held(x)
    BY <1>0, <1>1, <2>2, <2>3 DEF Held, PTypeOK
  <2>5. \A m \in Names : QueuedIn(queue'[m]) = QueuedIn(queue[m])
    <3>1. QueuedIn(queue[n]) = QueuedIn(Tail(queue[n]))
      BY <1>2, <2>1, PutsOf
    <3>2. QED
      BY <1>3, <3>1
  <2>6. \A m \in Names : \A e : Vouched(m, e)' <=> Vouched(m, e)
    BY <1>1, <2>2, <2>4, <2>5 DEF Vouched
  <2>7. \A x \in Docs : phase'[x] # "none" <=> phase[x] # "none"
    BY <1>0, <2>2, <2>3 DEF PTypeOK
  <2>8. QED
    BY <2>2, <2>6, <2>7, AcceptedKept, OpenedKept
<1>5. CASE Head(queue[n]).op = "put"
  <2>1. PICK E \in SUBSET Edits : E = Head(queue[n]).edits
    <3>1. Head(queue[n]) \in Operations
      BY <1>1, TailOperation
    <3>2. QED
      BY <1>5, <3>1 DEF Operations
  <2>2. phase' = phase /\ store' = [store EXCEPT ![n] = @ \cup E]
    BY <1>5, <2>1 DEF MongoStep
  <2>3. Puts(Head(queue[n])) = E
    BY <1>5, <2>1 DEF Puts
  <2>4. \A x \in Docs : Held(x)' <=> Held(x)
    BY <1>1, <2>2 DEF Held
  <2>5. \A m \in Names : store'[m] \cup QueuedIn(queue'[m]) = store[m] \cup QueuedIn(queue[m])
    BY <1>0, <1>2, <1>3, <2>2, <2>3 DEF PTypeOK
  <2>6. \A m \in Names : \A e : Vouched(m, e)' <=> Vouched(m, e)
    BY <1>1, <2>4, <2>5 DEF Vouched
  <2>7. E \subseteq Accepted[n]
    BY <1>2, <2>3, InAccepted DEF Vouched
  <2>8. Opened /\ Opened' = Opened
    BY <1>1, <2>2, OpenedKept DEF RInv, Openings
  <2>9. QED
    BY <2>2, <2>6, <2>7, <2>8, AcceptedKept DEF Promise!Persist
<1>6. QED
  BY <1>4, <1>5 DEF MongoStep

\* The binding trades what it holds for what it queues, and gains only what is
\* in the database.
LEMMA BindRefines ==
    ASSUME ConstantsAssumption, RInv, NEW d \in Docs, BindResume(d)
    PROVE  UNCHANGED <<Opened, Accepted, store>>
<1>0. PTypeOK /\ TypeOK
  BY DEF RInv, IInv, Base, PTypeOK
<1>1. PICK n \in Names : n = name[d]
  BY DEF BindResume, RInv, IInv, Base, Constructed
<1>2. /\ phase[d] = "resuming" /\ phase' = [phase EXCEPT ![d] = "bound"]
      /\ content' = [content EXCEPT ![d] = @ \cup loaded[d]]
      /\ queue' = [queue EXCEPT ![n] = Append(@, Put(content[d]))]
      /\ store' = store
  BY <1>1 DEF BindResume
<1>3. name' = name /\ \A x \in Docs : life'[x] \in {"live", "closing"} <=> life[x] \in {"live", "closing"}
  <2>1. Callback \/ UNCHANGED vars
    BY DEF BindResume, Callback
  <2>2. QED
    BY <2>1, CallbackFrame DEF RInv, vars
<1>4. loaded[d] \subseteq store[n]
  BY <1>1, <1>2 DEF RInv, IInv, BindingKnows
<1>5. \A m \in Names : QueuedIn(queue'[m]) =
        QueuedIn(queue[m]) \cup (IF m = n THEN content[d] ELSE {})
  <2>1. Put(content[d]) \in Operations
    BY <1>0, PutType DEF PTypeOK
  <2>2. QueuedIn(Append(queue[n], Put(content[d])))
          = QueuedIn(queue[n]) \cup Puts(Put(content[d]))
    BY <1>0, <2>1, QueuedAppend DEF PTypeOK
  <2>3. QueuedIn(Append(queue[n], Put(content[d]))) = QueuedIn(queue[n]) \cup content[d]
    BY <2>2, PutsOf
  <2>4. QED
    BY <1>0, <1>2, <2>3 DEF PTypeOK
<1>6. /\ \A x \in Docs : x # d => (Held(x)' <=> Held(x)) /\ content'[x] = content[x]
      /\ Held(d) /\ content'[d] = content[d] \cup loaded[d]
  BY <1>0, <1>2, <1>3 DEF Held, PTypeOK
<1>7. ASSUME NEW m \in Names, NEW e
      PROVE  Vouched(m, e)' <=> Vouched(m, e)
  <2>1. ASSUME Vouched(m, e)' PROVE Vouched(m, e)
    <3>1. CASE e \in store'[m] \/ e \in QueuedIn(queue'[m])
      BY <1>1, <1>2, <1>5, <1>6, <3>1 DEF Vouched
    <3>2. ASSUME NEW x \in Docs, name'[x] = m, Held(x)', e \in content'[x]
          PROVE  Vouched(m, e)
      BY <1>1, <1>3, <1>4, <1>6, <3>2 DEF Vouched
    <3>3. QED
      BY <2>1, <3>1, <3>2 DEF Vouched
  <2>2. ASSUME Vouched(m, e) PROVE Vouched(m, e)'
    <3>1. CASE e \in store[m] \/ e \in QueuedIn(queue[m])
      BY <1>2, <1>5, <3>1 DEF Vouched
    <3>2. ASSUME NEW x \in Docs, name[x] = m, Held(x), e \in content[x]
          PROVE  Vouched(m, e)'
      BY <1>1, <1>3, <1>5, <1>6, <3>2 DEF Vouched
    <3>3. QED
      BY <2>2, <3>1, <3>2 DEF Vouched
  <2>3. QED
    BY <2>1, <2>2
<1>8. \A x \in Docs : phase'[x] # "none" <=> phase[x] # "none"
  BY <1>0, <1>2 DEF PTypeOK
<1>9. QED
  BY <1>2, <1>7, <1>8, AcceptedKept, OpenedKept

\* An instance that is destroyed was bound, and all it holds is Saved, or is
\* still to be stored by its binding.
LEMMA DestroyRefines ==
    ASSUME ConstantsAssumption, RInv, NEW d \in Docs, DestroyDoc(d)
    PROVE  UNCHANGED <<Opened, Accepted, store>>
<1>0. PTypeOK /\ TypeOK
  BY DEF RInv, IInv, Base, PTypeOK
<1>1. /\ UNCHANGED <<name, content, phase, queue, store>>
      /\ life[d] = "closing" /\ life' = [life EXCEPT ![d] = "destroyed"]
  BY DEF DestroyDoc, Destroy
<1>2. \A x \in Docs : x # d => (Held(x)' <=> Held(x))
  BY <1>0, <1>1 DEF Held, TypeOK
<1>3. CASE phase[d] \in {"reading", "resuming"}
  <2>1. Held(d)' /\ Held(d)
    BY <1>1, <1>3 DEF Held
  <2>2. \A m \in Names : \A e : Vouched(m, e)' <=> Vouched(m, e)
    BY <1>1, <1>2, <2>1 DEF Vouched
  <2>3. QED
    BY <1>1, <2>2, AcceptedKept, OpenedKept
<1>4. CASE phase[d] = "bound"
  <2>1. content[d] \subseteq store[name[d]] \cup QueuedIn(queue[name[d]])
    BY <1>1, <1>4 DEF RInv, IInv, Durable, Saved, Queued, QueuedIn
  <2>2. ~Held(d)'
    BY <1>0, <1>1, <1>4 DEF Held, TypeOK
  <2>3. \A m \in Names : \A e : Vouched(m, e)' <=> Vouched(m, e)
    BY <1>1, <1>2, <2>1, <2>2 DEF Vouched
  <2>4. QED
    BY <1>1, <2>3, AcceptedKept, OpenedKept
<1>5. QED
  BY <1>0, <1>1, <1>3, <1>4 DEF RInv, Openings, PTypeOK, Phases

\* What has no part in persistence leaves it alone.
LEMMA ServerRefines ==
    ASSUME ConstantsAssumption, RInv, ServerStep \/ UNCHANGED allVars
    PROVE  UNCHANGED <<Opened, Accepted, store>>
<1>1. UNCHANGED <<content, phase, queue, store>>
  BY DEF ServerStep, persistVars, allVars
<1>2. name' = name /\ \A d \in Docs : life'[d] \in {"live", "closing"} <=> life[d] \in {"live", "closing"}
  <2>1. Callback \/ UNCHANGED vars
    BY DEF ServerStep, Callback, allVars
  <2>2. QED
    BY <2>1, CallbackFrame DEF RInv, vars
<1>3. \A d \in Docs : Held(d)' <=> Held(d)
  BY <1>1, <1>2 DEF Held
<1>4. \A m \in Names : \A e : Vouched(m, e)' <=> Vouched(m, e)
  BY <1>1, <1>2, <1>3 DEF Vouched
<1>5. QED
  BY <1>1, <1>4, AcceptedKept, OpenedKept

LEMMA RestartRefines ==
    ASSUME ConstantsAssumption, RInv, Restart
    PROVE  Promise!Crash
<1>1. /\ content' = [d \in Docs |-> {}] /\ phase' = [d \in Docs |-> "none"]
      /\ queue' = [n \in Names |-> <<>>] /\ store' = store
  BY DEF Restart
<1>2. \A n \in Names : QueuedIn(queue'[n]) = {}
  BY <1>1 DEF QueuedIn
<1>3. store = [n \in Names |-> store[n]]
  BY DEF RInv, IInv, Base, PTypeOK
<1>4. \A n \in Names : \A e : e \in store[n] <=> Vouched(n, e)'
  BY <1>1, <1>2 DEF Vouched
<1>5. Accepted' = store
  BY <1>3, <1>4, AcceptedIs
<1>6. Opened' = FALSE
  BY <1>1 DEF Opened
<1>7. QED
  BY <1>1, <1>5, <1>6 DEF Promise!Crash

LEMMA StepRefines ==
    ASSUME ConstantsAssumption, RInv, [PNext]_allVars
    PROVE  [Promise!Next]_<<Opened, Accepted, store>>
BY ConnectRefines, EditRefines, MongoRefines, BindRefines, DestroyRefines,
   ServerRefines, RestartRefines DEF PNext, Promise!Next

\* The persistent server keeps the promise of DurableDoc: what it has accepted
\* is in the database, queued for it, or held by an instance whose binding
\* will queue it, until the process dies.
THEOREM PromiseKept == PSpec => NothingAcceptedIsLost
<1>1. PInit => RInv
  <2>1. PInit => ReadsOnce /\ Openings
    BY DEF PInit, Init, ReadsOnce, Openings
  <2>2. QED
    BY <2>1, InitIInv DEF RInv
<1>2. RInv /\ [PNext]_allVars => RInv'
  BY NextIInv, NextOpenings, ConstantsAssumption DEF RInv
<1>3. PInit => Promise!Init
  BY DEF PInit, Init, Promise!Init, Opened, Accepted, Saved, Queued, Pending
<1>4. RInv /\ [PNext]_allVars => [Promise!Next]_<<Opened, Accepted, store>>
  BY StepRefines, ConstantsAssumption
<1>5. QED
  BY <1>1, <1>2, <1>3, <1>4, PTL DEF PSpec, NothingAcceptedIsLost, Promise!Spec

=============================================================================
