------------------------------ MODULE Ducklets ------------------------------
(***************************************************************************)
(* Ducklet rooms: the socket.io server of socketio/index.ts with its list  *)
(* of clients (socketio/clients-manager.ts), and the rows of the Room      *)
(* table that controllers/rooms.ts changes over HTTP meanwhile.  Every     *)
(* listener awaits the database between receiving an event and acting on   *)
(* it; listeners, disconnections and HTTP requests interleave there.       *)
(*                                                                         *)
(* A listener in flight is a record in joins or asks.  Rows of the User    *)
(* table do not come or go.                                                *)
(***************************************************************************)
EXTENDS Naturals, FiniteSets

CONSTANTS
    Sockets,        \* socket.io connections, each used once
    Users,          \* user ids that clients mention
    Registered,     \* those that have a row in the User table
    Rooms,
    Msgs,           \* chat messages, each sent once
    MaxJoins,       \* bound on the USER_JOIN_DUCKLET listeners in flight
    MaxAsks,        \* bound on the USER_JOIN_REQUEST listeners in flight
    NoUser          \* "undefined" where a user id is expected

ASSUME DuckletsAssumption ==
    /\ Registered \subseteq Users
    /\ NoUser \notin Users
    /\ IsFiniteSet(Sockets)
    /\ MaxJoins \in Nat /\ MaxAsks \in Nat

VARIABLES
    \* the Room table
    life,       \* life[r]: unborn, open, deleted
    owner,      \* owner[r]: ownerId
    isPublic,
    allowed,    \* allowed[r]: allowedUsers
    rows,       \* the messages in the Message table
    \* socket.io
    uid,        \* uid[s]: handshake.query.userId
    link,       \* link[s]: idle, connected, gone
    members,    \* <<s, u, r>>: s is in socket.io's room of r, as user u
    \* clientsStateManager
    looking,    \* sockets whose addClient awaits its query
    clients,    \* sockets listed in clientMap
    \* listeners in flight, and what they sent
    joins,      \* USER_JOIN_DUCKLET
    asks,       \* USER_JOIN_REQUEST
    acks,       \* <<s, u, r, answer>>: first callback of a USER_JOIN_REQUEST
    rung,       \* <<s, u, r>>: s received USER_JOIN_REQUESTED
    dest,       \* dest[m]: the room m is written in
    chat,       \* chat[m]: unsent, saving, saved, sent, lost
    heard,      \* <<s, m>>: s received MESSAGE_RECEIVE for m
    \* history, read by no action
    permitted   \* <<u, r>>: u could have joined r at some time so far

tables   == <<life, owner, isPublic, allowed>>
presence == <<uid, link, looking, clients>>
joining  == <<joins, members>>
asking   == <<asks, acks, rung>>
chatting == <<dest, chat, heard, rows>>
vars     == <<life, owner, isPublic, allowed, rows, uid, link, members, looking,
              clients, joins, asks, acks, rung, dest, chat, heard, permitted>>

Connected(s) == link[s] = "connected"

\* ISocketUser.id of a listed socket: undefined without a row.
IdOf(s) == IF uid[s] \in Registered THEN uid[s] ELSE NoUser

OwnerOf(r) == IF life[r] = "open" THEN owner[r] ELSE NoUser

\* USER_JOIN_DUCKLET's decision on what it read.
Verdict(u, r) ==
    IF u \notin Registered \/ life[r] # "open" THEN "missing"
    ELSE IF isPublic[r] \/ u = owner[r] \/ u \in allowed[r] THEN "allowed"
    ELSE "refused"

PermittedNow == {p \in Users \X Rooms : Verdict(p[1], p[2]) = "allowed"}

Init ==
    /\ life \in [Rooms -> {"unborn", "open"}]
    /\ owner \in [Rooms -> Registered]
    /\ isPublic \in [Rooms -> BOOLEAN]
    /\ allowed = [r \in Rooms |-> {}]
    /\ rows = {}
    /\ uid \in [Sockets -> Users \cup {NoUser}]
    /\ link = [s \in Sockets |-> "idle"]
    /\ members = {}
    /\ looking = {}
    /\ clients = {}
    /\ joins = {}
    /\ asks = {}
    /\ acks = {}
    /\ rung = {}
    /\ dest \in [Msgs -> Rooms]
    /\ chat = [m \in Msgs |-> "unsent"]
    /\ heard = {}
    /\ permitted = PermittedNow

-----------------------------------------------------------------------------
(* controllers/rooms.ts *)

CreateRoom(r, u, public) ==
    /\ life[r] = "unborn" /\ u \in Registered
    /\ life' = [life EXCEPT ![r] = "open"]
    /\ owner' = [owner EXCEPT ![r] = u]
    /\ isPublic' = [isPublic EXCEPT ![r] = public]
    /\ UNCHANGED <<allowed, presence, joining, asking, chatting>>

UpdateRoom(r, public) ==
    /\ life[r] = "open"
    /\ isPublic' = [isPublic EXCEPT ![r] = public]
    /\ UNCHANGED <<life, owner, allowed, presence, joining, asking, chatting>>

UpdateAllowList(r, u, op) ==
    /\ life[r] = "open"
    /\ \/ op = "add" /\ u \in Registered /\ allowed' = [allowed EXCEPT ![r] = @ \cup {u}]
       \/ op = "remove" /\ allowed' = [allowed EXCEPT ![r] = @ \ {u}]
    /\ UNCHANGED <<life, owner, isPublic, presence, joining, asking, chatting>>

\* The room's messages go with it; the sockets in its room stay there.
DeleteRoom(r) ==
    /\ life[r] = "open"
    /\ life' = [life EXCEPT ![r] = "deleted"]
    /\ rows' = {m \in rows : dest[m] # r}
    /\ UNCHANGED <<owner, isPublic, allowed, presence, joining, asking,
                   dest, chat, heard>>

-----------------------------------------------------------------------------
(* Presence *)

\* Mutant of Connect: guests are looked up too.
ConnectGuests(s) ==
    /\ link[s] = "idle"
    /\ link' = [link EXCEPT ![s] = "connected"]
    /\ looking' = looking \cup {s}
    /\ UNCHANGED <<tables, uid, clients, joining, asking, chatting>>

\* "connection": addClient up to its await, unless the client is a guest.
Connect(s) ==
    /\ link[s] = "idle"
    /\ link' = [link EXCEPT ![s] = "connected"]
    /\ looking' = IF uid[s] = NoUser THEN looking ELSE looking \cup {s}
    /\ UNCHANGED <<tables, uid, clients, joining, asking, chatting>>

\* addClient resumes: the socket is listed, connected or not.
AddClient(s) ==
    /\ s \in looking
    /\ looking' = looking \ {s}
    /\ clients' = clients \cup {s}
    /\ UNCHANGED <<tables, uid, link, joining, asking, chatting>>

\* Mutant of Disconnect: removeClient removes all of the user's sockets.
DisconnectUser(s) ==
    /\ Connected(s)
    /\ link' = [link EXCEPT ![s] = "gone"]
    /\ members' = {p \in members : p[1] # s}
    /\ clients' = {c \in clients : uid[c] # uid[s]}
    /\ UNCHANGED <<tables, uid, looking, joins, asking, chatting>>

\* socket.io takes the socket out of all rooms, then "disconnect" fires.
Disconnect(s) ==
    /\ Connected(s)
    /\ link' = [link EXCEPT ![s] = "gone"]
    /\ members' = {p \in members : p[1] # s}
    /\ clients' = clients \ {s}
    /\ UNCHANGED <<tables, uid, looking, joins, asking, chatting>>

-----------------------------------------------------------------------------
(* USER_JOIN_DUCKLET *)

JoinDucklet(s, u, r) ==
    /\ Connected(s)
    /\ Cardinality(joins) < MaxJoins
    /\ joins' = joins \cup {[sock |-> s, user |-> u, room |-> r, verdict |-> "unread"]}
    /\ UNCHANGED <<tables, presence, members, asking, chatting>>

\* The room is read, after the user.
ReadRoom(j) ==
    /\ j.verdict = "unread"
    /\ joins' = (joins \ {j}) \cup {[j EXCEPT !.verdict = Verdict(j.user, j.room)]}
    /\ UNCHANGED <<tables, presence, members, asking, chatting>>

\* Mutant of Enter: the verdict is not looked at.
EnterUnchecked(j) ==
    /\ j.verdict # "unread"
    /\ joins' = joins \ {j}
    /\ members' = IF Connected(j.sock)
                  THEN members \cup {<<j.sock, j.user, j.room>>} ELSE members
    /\ UNCHANGED <<tables, presence, asking, chatting>>

\* Mutant of Enter: join() works after the disconnection, as it once did.
EnterGone(j) ==
    /\ j.verdict # "unread"
    /\ joins' = joins \ {j}
    /\ members' = IF j.verdict = "allowed"
                  THEN members \cup {<<j.sock, j.user, j.room>>} ELSE members
    /\ UNCHANGED <<tables, presence, asking, chatting>>

\* The listener resumes; join() of a socket that is gone does nothing.
Enter(j) ==
    /\ j.verdict # "unread"
    /\ joins' = joins \ {j}
    /\ members' = IF j.verdict = "allowed" /\ Connected(j.sock)
                  THEN members \cup {<<j.sock, j.user, j.room>>} ELSE members
    /\ UNCHANGED <<tables, presence, asking, chatting>>

-----------------------------------------------------------------------------
(* USER_JOIN_REQUEST *)

AskToJoin(s, u, r) ==
    /\ Connected(s)
    /\ Cardinality(asks) < MaxAsks
    /\ asks' = asks \cup {[sock |-> s, user |-> u, room |-> r,
                           owner |-> NoUser, read |-> FALSE]}
    /\ UNCHANGED <<tables, presence, joining, acks, rung, chatting>>

\* The room's owner is read, then the user.
ReadOwner(a) ==
    /\ ~a.read
    /\ asks' = (asks \ {a}) \cup {[a EXCEPT !.owner = OwnerOf(a.room), !.read = TRUE]}
    /\ UNCHANGED <<tables, presence, joining, acks, rung, chatting>>

\* Mutant of RingOwner: without an owner online there is no answer.
RingOwnerIfAny(a) ==
    LET owners == {c \in clients : IdOf(c) = a.owner} IN
    /\ a.read /\ owners # {}
    /\ asks' = asks \ {a}
    /\ rung' = rung \cup {<<c, a.user, a.room>> : c \in {o \in owners : Connected(o)}}
    /\ acks' = acks \cup {<<a.sock, a.user, a.room, "success">>}
    /\ UNCHANGED <<tables, presence, joining, chatting>>

\* The listener resumes.  A missing room or user is answered with an error,
\* but nothing returns there: the sockets listed under the owner's id, or
\* under no id where the room has none, are notified all the same.  Only the
\* first callback reaches the client.
RingOwner(a) ==
    LET owners == {c \in clients : IdOf(c) = a.owner}
        answer == IF a.owner = NoUser \/ a.user \notin Registered THEN "missing"
                  ELSE IF owners = {} THEN "offline"
                  ELSE "success"
    IN  /\ a.read
        /\ asks' = asks \ {a}
        /\ rung' = rung \cup {<<c, a.user, a.room>> : c \in {o \in owners : Connected(o)}}
        /\ acks' = acks \cup {<<a.sock, a.user, a.room, answer>>}
        /\ UNCHANGED <<tables, presence, joining, chatting>>

-----------------------------------------------------------------------------
(* MESSAGE_SEND *)

SendMessage(s, m) ==
    /\ Connected(s) /\ chat[m] = "unsent"
    /\ chat' = [chat EXCEPT ![m] = "saving"]
    /\ UNCHANGED <<tables, presence, joining, asking, dest, heard, rows>>

\* Mutant of SaveMessage: create() is not awaited.
SaveMessageUnawaited(m) ==
    /\ chat[m] = "saving"
    /\ chat' = [chat EXCEPT ![m] = "saved"]
    /\ UNCHANGED <<tables, presence, joining, asking, dest, heard, rows>>

\* message.create, in a room that exists; otherwise its foreign key fails,
\* which the listener logs.
SaveMessage(m) ==
    /\ chat[m] = "saving"
    /\ IF life[dest[m]] = "open"
         THEN /\ rows' = rows \cup {m}
              /\ chat' = [chat EXCEPT ![m] = "saved"]
         ELSE /\ chat' = [chat EXCEPT ![m] = "lost"]
              /\ UNCHANGED rows
    /\ UNCHANGED <<tables, presence, joining, asking, dest, heard>>

\* MESSAGE_RECEIVE to everybody who is in the room by now.
EmitMessage(m) ==
    /\ chat[m] = "saved"
    /\ chat' = [chat EXCEPT ![m] = "sent"]
    /\ heard' = heard \cup {<<p[1], m>> : p \in {q \in members : q[3] = dest[m]}}
    /\ UNCHANGED <<tables, presence, joining, asking, dest, rows>>

-----------------------------------------------------------------------------
\* A query of a listener that catches nothing fails, and the unhandled
\* rejection ends the process: the tables survive.
Crash ==
    /\ link' = [s \in Sockets |-> IF link[s] = "idle" THEN "idle" ELSE "gone"]
    /\ members' = {} /\ looking' = {} /\ clients' = {} /\ joins' = {} /\ asks' = {}
    /\ chat' = [m \in Msgs |-> IF chat[m] \in {"saving", "saved"} THEN "lost" ELSE chat[m]]
    /\ UNCHANGED <<tables, rows, uid, acks, rung, dest, heard>>

Step ==
    \/ \E r \in Rooms :
         \/ \E u \in Users, public \in BOOLEAN : CreateRoom(r, u, public)
         \/ \E public \in BOOLEAN : UpdateRoom(r, public)
         \/ \E u \in Users, op \in {"add", "remove"} : UpdateAllowList(r, u, op)
         \/ DeleteRoom(r)
    \/ \E s \in Sockets :
         \/ Connect(s) \/ AddClient(s) \/ Disconnect(s)
         \/ \E u \in Users, r \in Rooms : JoinDucklet(s, u, r) \/ AskToJoin(s, u, r)
         \/ \E m \in Msgs : SendMessage(s, m)
    \/ \E j \in joins : ReadRoom(j) \/ Enter(j)
    \/ \E a \in asks : ReadOwner(a) \/ RingOwner(a)
    \/ \E m \in Msgs : SaveMessage(m) \/ EmitMessage(m)
    \/ Crash

Remember == permitted' = permitted \cup PermittedNow'

Next == Step /\ Remember

Spec == Init /\ [][Next]_vars

\* The database answers, so listeners resume.
Fairness ==
    \A s \in Sockets, u \in Users, r \in Rooms :
        LET Of(a) == a.sock = s /\ a.user = u /\ a.room = r IN
        /\ WF_vars(\E a \in asks : Of(a) /\ ReadOwner(a) /\ Remember)
        /\ WF_vars(\E a \in asks : Of(a) /\ RingOwner(a) /\ Remember)

FairSpec == Spec /\ Fairness

-----------------------------------------------------------------------------
(* Properties *)

Joins == [sock : Sockets, user : Users, room : Rooms,
          verdict : {"unread", "allowed", "refused", "missing"}]
Asks  == [sock : Sockets, user : Users, room : Rooms,
          owner : Users \cup {NoUser}, read : BOOLEAN]

\* Types; no guest is listed, or about to be.
TypeOK ==
    /\ life \in [Rooms -> {"unborn", "open", "deleted"}]
    /\ owner \in [Rooms -> Registered]
    /\ isPublic \in [Rooms -> BOOLEAN]
    /\ allowed \in [Rooms -> SUBSET Registered]
    /\ rows \subseteq Msgs
    /\ uid \in [Sockets -> Users \cup {NoUser}]
    /\ link \in [Sockets -> {"idle", "connected", "gone"}]
    /\ members \subseteq Sockets \X Users \X Rooms
    /\ looking \subseteq {s \in Sockets : uid[s] # NoUser}
    /\ clients \subseteq {s \in Sockets : uid[s] # NoUser}
    /\ joins \subseteq Joins
    /\ asks \subseteq Asks
    /\ acks \subseteq Sockets \X Users \X Rooms \X {"success", "offline", "missing"}
    /\ rung \subseteq Sockets \X Users \X Rooms
    /\ dest \in [Msgs -> Rooms]
    /\ chat \in [Msgs -> {"unsent", "saving", "saved", "sent", "lost"}]
    /\ heard \subseteq Sockets \X Msgs
    /\ permitted \subseteq Users \X Rooms

\* A user who is online can be found: every connection with a user id is
\* listed, or its addClient is still at the database; another tab closing
\* does not take it off the list (removeClient).
OnlineIsListed ==
    \A s \in Sockets :
        Connected(s) /\ uid[s] # NoUser /\ s \notin looking => s \in clients

\* socket.io's rooms hold connected sockets only, although a listener may
\* join its socket after it disconnected.
MembersAreConnected == \A p \in members : Connected(p[1])

\* Nobody is in a room that was closed to them all along: whatever changes
\* between reading the room and joining, a member was permitted at some time
\* (USER_JOIN_DUCKLET against updateAllowList, updateRoom and deleteRoom).
MembersWerePermitted == \A p \in members : <<p[2], p[3]>> \in permitted

\* What a member heard is in the Message table, as long as the room exists
\* (MESSAGE_SEND saves before it emits).
HeardIsSaved ==
    \A p \in heard : p[2] \in rows \/ life[dest[p[2]]] = "deleted"

\* Every request to join is answered, whoever goes offline meanwhile, unless
\* the requester disconnects.
AskIsAnswered ==
    \A s \in Sockets, u \in Users, r \in Rooms :
        (\E a \in asks : a.sock = s /\ a.user = u /\ a.room = r)
          ~> (~Connected(s) \/ \E p \in acks : p[1] = s /\ p[2] = u /\ p[3] = r)

\* "remove the user with the matching socket ID" (removeClient): a socket
\* that disconnected is not listed.
NoGhosts == \A s \in clients : Connected(s)

=============================================================================
