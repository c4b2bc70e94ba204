-------------------------- MODULE YjsPersistence --------------------------
(***************************************************************************)
(* The collaboration server with its persistence: yjs/index.ts binds every *)
(* new instance of YjsServer to y-mongodb-provider.  A document is the set *)
(* of edits merged into it.  bindState is asynchronous and not awaited, so *)
(* browsers edit an instance before it has been read from the database,    *)
(* and may leave it before that too.                                       *)
(*                                                                         *)
(* The provider is external; as yjs/index.ts uses it, it runs the          *)
(* operations of one document name one after another in calling order, and *)
(* merging updates is set union.                                           *)
(***************************************************************************)
EXTENDS YjsServer, Sequences

CONSTANT Edits      \* what browsers may type

VARIABLES
    content,    \* content[d]: the edits merged into the instance
    phase,      \* phase[d] of bindState: none, reading, resuming, bound
    loaded,     \* loaded[d]: what mdb.getYDoc returned to bindState
    listening,  \* listening[d]: bindState's "update" listener is attached
    queue,      \* queue[n]: the provider's operations pending on n
    store       \* store[n]: the edits of n in MongoDB

persistVars == <<content, phase, loaded, listening, queue, store>>
allVars     == <<vars, persistVars>>

Phases     == {"none", "reading", "resuming", "bound"}
Operations == [op : {"get"}, to : Docs] \cup [op : {"put"}, edits : SUBSET Edits]

\* Mutant of Get: the read forgets which instance asked.
GetForNobody(d) == [op |-> "get", to |-> NoDoc]

Get(d) == [op |-> "get", to |-> d]
Put(E) == [op |-> "put", edits |-> E]

\* The edits the provider has been asked to store under n and has not yet.
Queued(n) == UNION {queue[n][i].edits :
                      i \in {j \in DOMAIN queue[n] : queue[n][j].op = "put"}}

\* What a restart of the server cannot take away, if the provider is given
\* the time to finish.
Saved(n) == store[n] \cup Queued(n)

PInit ==
    /\ Init
    /\ content = [d \in Docs |-> {}]
    /\ phase = [d \in Docs |-> "none"]
    /\ loaded = [d \in Docs |-> {}]
    /\ listening = [d \in Docs |-> FALSE]
    /\ queue = [n \in Names |-> <<>>]
    /\ store = [n \in Names |-> {}]

\* setupWSConnection; a new instance starts bindState, which runs up to its
\* await: the read is queued.
Connect(c, n, d) ==
    /\ SetupWSConnection(c, n, d)
    /\ IF docs[n] = NoDoc
         THEN /\ queue' = [queue EXCEPT ![n] = Append(@, Get(d))]
              /\ phase' = [phase EXCEPT ![d] = "reading"]
         ELSE UNCHANGED <<queue, phase>>
    /\ UNCHANGED <<content, loaded, listening, store>>

\* messageListener, messageSync: an edit new to the instance is merged,
\* broadcast, and stored if bindState's listener is there.
RecvEdit(c, e) ==
    LET d == doc[c] IN
    /\ RecvUpdate(c)
    /\ e \notin content[d]
    /\ content' = [content EXCEPT ![d] = @ \cup {e}]
    /\ queue' = IF listening[d]
                THEN [queue EXCEPT ![name[d]] = Append(@, Put({e}))]
                ELSE queue
    /\ UNCHANGED <<phase, loaded, listening, store>>

\* The first operation pending on n takes effect in the database.  The
\* provider starts it only once the caller of the previous one has resumed.
MongoStep(n) ==
    /\ queue[n] # <<>>
    /\ \A d \in Docs : phase[d] = "resuming" => name[d] # n
    /\ queue' = [queue EXCEPT ![n] = Tail(@)]
    /\ \/ /\ Head(queue[n]).op = "get"
          /\ LET d == Head(queue[n]).to
             IN  /\ loaded' = [loaded EXCEPT ![d] = store[n]]
                 /\ phase' = [phase EXCEPT ![d] = "resuming"]
          /\ UNCHANGED store
       \/ /\ Head(queue[n]).op = "put"
          /\ store' = [store EXCEPT ![n] = @ \cup Head(queue[n]).edits]
          /\ UNCHANGED <<loaded, phase>>
    /\ UNCHANGED <<vars, content, listening>>

\* Mutant of BindResume: newUpdates is not stored.
BindResumeReadOnly(d) ==
    /\ phase[d] = "resuming"
    /\ content' = [content EXCEPT ![d] = @ \cup loaded[d]]
    /\ phase' = [phase EXCEPT ![d] = "bound"]
    /\ listening' = [listening EXCEPT ![d] = TRUE]
    /\ IF loaded[d] \subseteq content[d] \/ life[d] = "destroyed"
         THEN UNCHANGED vars
         ELSE UpdateFromDisk(d)
    /\ UNCHANGED <<loaded, queue, store>>

\* bindState resumes after its await: what the instance holds by now is
\* queued for storing, what was read is merged (and broadcast when it
\* changes the instance), and from here on every update is stored.
BindResume(d) ==
    /\ phase[d] = "resuming"
    /\ queue' = [queue EXCEPT ![name[d]] = Append(@, Put(content[d]))]
    /\ content' = [content EXCEPT ![d] = @ \cup loaded[d]]
    /\ phase' = [phase EXCEPT ![d] = "bound"]
    /\ listening' = [listening EXCEPT ![d] = TRUE]
    /\ IF loaded[d] \subseteq content[d] \/ life[d] = "destroyed"
         THEN UNCHANGED vars
         ELSE UpdateFromDisk(d)
    /\ UNCHANGED <<loaded, store>>

\* Mutant of DestroyDoc: destroying an instance cancels its binding.
DestroyDocCancels(d) ==
    /\ Destroy(d)
    /\ listening' = [listening EXCEPT ![d] = FALSE]
    /\ phase' = [phase EXCEPT ![d] = "none"]
    /\ UNCHANGED <<content, loaded, queue, store>>

\* doc.destroy() also drops bindState's listener, if it is attached by now.
DestroyDoc(d) ==
    /\ Destroy(d)
    /\ listening' = [listening EXCEPT ![d] = FALSE]
    /\ UNCHANGED <<content, phase, loaded, queue, store>>

\* A restart loses what is in memory, the provider's queue included.
Restart ==
    /\ Crash
    /\ content' = [d \in Docs |-> {}]
    /\ phase' = [d \in Docs |-> "none"]
    /\ loaded' = [d \in Docs |-> {}]
    /\ listening' = [d \in Docs |-> FALSE]
    /\ queue' = [n \in Names |-> <<>>]
    /\ UNCHANGED store

\* Everything YjsServer does that no document's content depends on.
ServerStep ==
    /\ \/ \E c \in Conns :
            \/ \E u \in Clients, k \in 1..MaxClock, present \in BOOLEAN :
                 RecvAwareness(c, u, k, present)
            \/ SendError(c) \/ Tick(c) \/ Pong(c)
            \/ PeerCloses(c) \/ PeerDies(c) \/ OnClose(c)
       \/ \E d \in Docs, U \in SUBSET Clients : AwarenessTimeout(d, U)
    /\ UNCHANGED persistVars

PNext ==
    \/ \E c \in Conns, n \in Names, d \in Docs : Connect(c, n, d)
    \/ \E c \in Conns, e \in Edits : RecvEdit(c, e)
    \/ \E n \in Names : MongoStep(n)
    \/ \E d \in Docs : BindResume(d) \/ DestroyDoc(d)
    \/ ServerStep
    \/ Restart

PSpec == PInit /\ [][PNext]_allVars

\* The provider works through its queue and awaits resume.
PFairness ==
    /\ \A n \in Names : WF_allVars(MongoStep(n))
    /\ \A d \in Docs : WF_allVars(BindResume(d))

PFairSpec == PSpec /\ PFairness

-----------------------------------------------------------------------------
(* Properties *)

PTypeOK ==
    /\ TypeOK
    /\ content \in [Docs -> SUBSET Edits]
    /\ phase \in [Docs -> Phases]
    /\ loaded \in [Docs -> SUBSET Edits]
    /\ listening \in [Docs -> BOOLEAN]
    /\ queue \in [Names -> Seq(Operations)]
    /\ store \in [Names -> SUBSET Edits]

\* Once bindState has resumed, nothing a browser typed exists in the memory
\* of an instance only: it is in MongoDB or on its way there.
Durable ==
    \A d \in Docs : phase[d] = "bound" /\ life[d] # "destroyed"
                      => content[d] \subseteq Saved(name[d])

\* What a browser typed into a live instance reaches MongoDB, whoever closes
\* the instance and when, unless the process dies first.
EditsEventuallyStored ==
    \A d \in Docs, e \in Edits :
        (life[d] = "live" /\ e \in content[d])
          ~> (e \in content[d] => e \in store[name[d]])

\* "Gets a Y.Doc by name, whether in memory or on disk" (getYDoc): a live
\* instance that is bound, with no operation pending, holds what is on disk.
OnDiskIsInMemory ==
    \A n \in Names :
        LET d == docs[n] IN
        d # NoDoc /\ queue[n] = <<>> => (phase[d] = "bound" => store[n] \subseteq content[d])

-----------------------------------------------------------------------------
(* The abstract specification this implements: see DurableDoc *)

\* The instances whose content will still be stored.
Pending(n) == {d \in Docs : /\ name[d] = n
                            /\ \/ life[d] \in {"live", "closing"}
                               \/ phase[d] \in {"reading", "resuming"}}

Accepted == [n \in Names |-> Saved(n) \cup UNION {content[d] : d \in Pending(n)}]

\* bindState has been called since the server started.
Opened == \E d \in Docs : phase[d] # "none"

Promise == INSTANCE DurableDoc WITH
             opened <- Opened, accepted <- Accepted, stored <- store

NothingAcceptedIsLost == Promise!Spec

=============================================================================
