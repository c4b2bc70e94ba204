------------------------------ MODULE RoomAccess ------------------------------
(***************************************************************************)
(* Requests about one room: the middlewares of                             *)
(* middlewares/auth-middleware.ts, then getRoom, updateRoomContents and    *)
(* deleteRoom of controllers/rooms.ts.  The role of a user is decided from *)
(* one read of the room, the answer made from another; a save draws a      *)
(* preview that nobody waits for.  The process may die at any time.        *)
(*                                                                         *)
(* updateRoom and updateAllowList, one update each, are not requests of    *)
(* their own.  Bodies, and pictures of them, are those of PageBodies, the  *)
(* columns drawn being head, html, css and js.                             *)
(***************************************************************************)
EXTENDS FiniteSets, PageBodies

CONSTANTS
    Accounts,   \* users with a row,
    Strangers,  \* and with a valid token only
    Requests,
    Patches,    \* what bodies of updateRoom can hold
    Nobody,     \* a request without a token,
    Expired,    \* and with one that is not valid
    NoContent   \* no body, and no picture

\* A body of updateRoom; what it leaves out is Undefined.
PatchType ==
    [owner : Accounts \cup {Undefined}, public : BOOLEAN \cup {Undefined},
     allowed : (SUBSET Accounts) \cup {Undefined},
     body : Bodies, preview : Bodies \cup {NoContent, Undefined}]

ASSUME RoomAccessAssumption ==
    /\ Patches \subseteq PatchType
    /\ Accounts \cap (Strangers \cup {Nobody, Expired}) = {}
    /\ Nobody # Expired /\ Strangers \cap {Nobody, Expired} = {}
    /\ NoContent \notin Bodies

Senders == Accounts \cup Strangers \cup {Nobody, Expired}

VARIABLES
    room,       \* the row and whether it is there
    request,    \* request[r]: stage, kind, sender and locals
    drawing,    \* drawing[r]: the body whose preview r's job draws
    was,        \* history: requests whose sender has been permitted since they arrived
    candidates, \* history: pictures of the saves since one began alone, and what
                \* updateRoom or a job that has failed has left there since
    patched     \* history: updateRoom has changed contents or preview since then

previewHistory == <<candidates, patched>>
roomAccessVars == <<room, request, drawing, was, previewHistory>>

RequestIdle == [stage |-> "idle", kind |-> "none", sender |-> Nobody,
                role |-> "none", body |-> NoContent]

RoomAccessInit ==
    /\ room = [state |-> "absent", owner |-> Nobody, public |-> FALSE, allowed |-> {},
               content |-> BlankPage, preview |-> NoContent]
    /\ request = [r \in Requests |-> RequestIdle]
    /\ drawing = [r \in Requests |-> NoContent]
    /\ was = {}
    /\ candidates = {NoContent}
    /\ patched = FALSE

-----------------------------------------------------------------------------
(* The room's settings *)

RoomExists == room.state = "exists"

\* Who may see the contents of a room in the state it is given in.
Permitted(state, sender) ==
    /\ state.state = "exists"
    /\ sender # Expired
    /\ state.public \/ sender = state.owner \/ sender \in state.allowed

InProgress(r) == request[r].stage \in {"arrived", "allowed"}

\* The room changes to a new state, of which the history is kept.
RoomBecomes(state) ==
    /\ room' = state
    /\ was' = was \cup {r \in Requests : InProgress(r) /\ Permitted(state, request[r].sender)}

AccessCreateRoom(owner, public) ==
    /\ room.state = "absent"
    /\ RoomBecomes([room EXCEPT !.state = "exists", !.owner = owner, !.public = public])
    /\ UNCHANGED <<request, drawing, previewHistory>>

\* Saves whose preview is still to come.
Unfinished == {r \in Requests : request[r].stage = "saved" \/ drawing[r] # NoContent}

\* A picture the preview may show from now on.
Adds(picture) ==
    candidates' = IF Unfinished = {} THEN {picture} ELSE candidates \cup {picture}

Given(new, old) == IF new = Undefined THEN old ELSE new

\* updateRoom writes the columns its body has, of whoever is authenticated: the
\* owner, nested writes of the allowed users, contents and previewImage as well.
\* It draws nothing.
AccessUpdateRoom(patch) ==
    /\ RoomExists
    /\ RoomBecomes([room EXCEPT !.owner = Given(patch.owner, @),
                                !.public = Given(patch.public, @),
                                !.allowed = Given(patch.allowed, @),
                                !.content = Merge(patch.body, @),
                                !.preview = Given(patch.preview, @)])
    /\ IF room'.preview = room.preview THEN UNCHANGED candidates ELSE Adds(room'.preview)
    /\ patched' = (patched \/ room'.content # room.content \/ room'.preview # room.preview)
    /\ UNCHANGED <<request, drawing>>

\* updateAllowList connects or disconnects a user.
AccessUpdateAllowList(user) ==
    /\ RoomExists
    /\ \E allowed \in {room.allowed \cup {user}, room.allowed \ {user}} :
         RoomBecomes([room EXCEPT !.allowed = allowed])
    /\ UNCHANGED <<request, drawing, previewHistory>>

-----------------------------------------------------------------------------
(* Requests and their middlewares *)

Arrive(r, kind, sender, body) ==
    /\ request[r].stage = "idle"
    /\ request' = [request EXCEPT ![r] =
         [stage |-> "arrived", kind |-> kind, sender |-> sender,
          role |-> "none", body |-> IF kind = "save" THEN body ELSE NoContent]]
    /\ was' = IF Permitted(room, sender) THEN was \cup {r} ELSE was
    /\ UNCHANGED <<room, drawing, previewHistory>>

To(r, stage) == request' = [request EXCEPT ![r].stage = stage]
ToAs(r, stage, role) == request' = [request EXCEPT ![r].stage = stage, ![r].role = role]

\* A request that has ended holds no locals.
Ended(stage) == [RequestIdle EXCEPT !.stage = stage]
End(r, stage) == request' = [request EXCEPT ![r] = Ended(stage)]
Rest == <<room, drawing, was, previewHistory>>

\* Mutant of RoleOf: the list of allowed users is not looked at.
RoleOfAnyone(sender) ==
    IF sender = Nobody THEN IF room.public THEN "guest" ELSE "none"
    ELSE IF sender = room.owner THEN "owner" ELSE "contributor"

\* The role checkRoleInRoom gives a sender who has no token, or a row.
RoleOf(sender) ==
    IF sender = Nobody THEN IF room.public THEN "guest" ELSE "none"
    ELSE IF sender = room.owner THEN "owner"
    ELSE IF sender \in room.allowed THEN "contributor"
    ELSE IF room.public THEN "guest" ELSE "requester"

\* checkRoleInRoom.  It answers 404 without a room or a row of the user, 401 or
\* 500 to a token that is not valid, 409 to a guest of a room that is not public.
CheckRoleInRoom(r) ==
    /\ request[r].stage = "arrived"
    /\ request[r].kind = "get"
    /\ IF RoomExists /\ request[r].sender \in Accounts \cup {Nobody}
            /\ RoleOf(request[r].sender) # "none"
       THEN ToAs(r, "allowed", RoleOf(request[r].sender))
       ELSE End(r, "refused")
    /\ UNCHANGED Rest

\* Mutant of CheckIfAuthenticated: an expired token is not answered either.
CheckIfAuthenticatedSilent(r) ==
    /\ request[r].stage = "arrived"
    /\ request[r].kind # "get"
    /\ CASE request[r].sender \in Accounts -> To(r, "allowed")
         [] request[r].sender \in Strangers \cup {Expired} -> To(r, "hanging")
         [] OTHER -> End(r, "refused")
    /\ UNCHANGED Rest

\* checkIfAuthenticated.  It answers 401 or 500 without a valid token.  With one
\* and no row for its user it returns, and neither answers nor goes on.
CheckIfAuthenticated(r) ==
    /\ request[r].stage = "arrived"
    /\ request[r].kind # "get"
    /\ CASE request[r].sender \in Accounts -> To(r, "allowed")
         [] request[r].sender \in Strangers -> To(r, "hanging")
         [] OTHER -> End(r, "refused")
    /\ UNCHANGED Rest

\* A query of a middleware or handler fails and is answered.
RequestFails(r) ==
    /\ InProgress(r) \/ request[r].stage = "owner"
    /\ End(r, "refused")
    /\ UNCHANGED Rest

-----------------------------------------------------------------------------
(* Handlers *)

\* getRoom reads the room again; it may be gone.  A requester gets its id only.
GetRoom(r) ==
    /\ request[r].stage = "allowed"
    /\ request[r].kind = "get"
    /\ End(r, IF RoomExists /\ request[r].role # "requester" THEN "served" ELSE "answered")
    /\ UNCHANGED Rest

\* updateRoomContents: the update, which keeps the columns its body leaves out;
\* its result is on its way.  Without the room it is RequestFails.
SaveContents(r) ==
    /\ request[r].stage = "allowed"
    /\ request[r].kind = "save"
    /\ RoomExists
    /\ RoomBecomes([room EXCEPT !.content = Merge(request[r].body, @)])
    /\ To(r, "saved")
    /\ Adds(request[r].body)
    /\ patched' = (patched /\ Unfinished # {})
    /\ UNCHANGED drawing

\* The result is there: a preview of the body is started and the request answered.
StartPreview(r) ==
    /\ request[r].stage = "saved"
    /\ drawing' = [drawing EXCEPT ![r] = request[r].body]
    /\ End(r, "answered")
    /\ UNCHANGED <<room, was, previewHistory>>

EndDrawing(r) == drawing' = [drawing EXCEPT ![r] = NoContent]

\* Mutant of WritePreview: a preview that is there is not replaced.
WritePreviewOnce(r) ==
    /\ drawing[r] # NoContent
    /\ RoomExists
    /\ RoomBecomes([room EXCEPT !.preview = IF @ = NoContent THEN drawing[r] ELSE @])
    /\ EndDrawing(r)
    /\ UNCHANGED <<request, previewHistory>>

\* updatePreviewImage, rendered and uploaded, writes its result.
WritePreview(r) ==
    /\ drawing[r] # NoContent
    /\ RoomExists
    /\ RoomBecomes([room EXCEPT !.preview = drawing[r]])
    /\ EndDrawing(r)
    /\ UNCHANGED <<request, previewHistory>>

\* Rendering, uploading or the update fails, the update if the room is gone.
PreviewFails(r) ==
    /\ drawing[r] # NoContent
    /\ EndDrawing(r)
    /\ candidates' = candidates \cup {room.preview}
    /\ UNCHANGED <<room, request, was, patched>>

\* checkIfUserIsOwnerOfRoom reads the room, deleteRoom deletes it; without the
\* room the first refuses and the second fails.
CheckIfUserIsOwner(r) ==
    /\ request[r].stage = "allowed"
    /\ request[r].kind = "delete"
    /\ IF RoomExists /\ request[r].sender = room.owner THEN To(r, "owner") ELSE End(r, "refused")
    /\ UNCHANGED Rest

AccessDeleteRoom(r) ==
    /\ request[r].stage = "owner"
    /\ RoomExists
    /\ RoomBecomes([room EXCEPT !.state = "deleted"])
    /\ End(r, "answered")
    /\ UNCHANGED <<drawing, previewHistory>>

\* The process dies: requests under way and previews being drawn are lost.
RoomAccessCrash ==
    /\ request' = [r \in Requests |->
         IF request[r].stage \in {"idle", "served", "answered", "refused"} THEN request[r]
         ELSE Ended("lost")]
    /\ drawing' = [r \in Requests |-> NoContent]
    /\ candidates' = candidates \cup {room.preview}
    /\ UNCHANGED <<room, was, patched>>

Serve(r) ==
    \/ CheckRoleInRoom(r) \/ CheckIfAuthenticated(r) \/ RequestFails(r)
    \/ GetRoom(r) \/ SaveContents(r) \/ StartPreview(r)
    \/ CheckIfUserIsOwner(r) \/ AccessDeleteRoom(r)

RoomAccessNext ==
    \/ \E owner \in Accounts, public \in BOOLEAN : AccessCreateRoom(owner, public)
    \/ \E patch \in Patches : AccessUpdateRoom(patch)
    \/ \E user \in Accounts : AccessUpdateAllowList(user)
    \/ RoomAccessCrash
    \/ \E r \in Requests :
         \/ \E kind \in {"get", "save", "delete"}, sender \in Senders, body \in Bodies :
              Arrive(r, kind, sender, body)
         \/ Serve(r) \/ WritePreview(r) \/ PreviewFails(r)

RoomAccessSpec == RoomAccessInit /\ [][RoomAccessNext]_roomAccessVars

\* Every await of a handler is answered or fails.
RoomAccessFairness == \A r \in Requests : WF_roomAccessVars(Serve(r))

-----------------------------------------------------------------------------
(* Properties *)

\* Every variable keeps its type; a save that is under way has its body.
RoomAccessTypeOK ==
    /\ room \in [state : {"absent", "exists", "deleted"}, owner : Accounts \cup {Nobody},
                 public : BOOLEAN, allowed : SUBSET Accounts,
                 content : Pages, preview : Bodies \cup {NoContent}]
    /\ request \in [Requests ->
         [stage : {"idle", "arrived", "allowed", "owner", "saved",
                   "served", "answered", "refused", "hanging", "lost"},
          kind : {"none", "get", "save", "delete"}, sender : Senders,
          role : {"none", "owner", "contributor", "guest", "requester"},
          body : Bodies \cup {NoContent}]]
    /\ \A r \in Requests : request[r].kind = "save" => request[r].body \in Bodies
    /\ drawing \in [Requests -> Bodies \cup {NoContent}]
    /\ was \subseteq Requests
    /\ candidates \subseteq Bodies \cup {NoContent}
    /\ patched \in BOOLEAN

\* getRoom serves the room it reads by a role that was read before.  Whoever is
\* given its contents was permitted to see them at some time since the request
\* arrived, though perhaps no longer.
ContentsWerePermitted ==
    \A r \in Requests : request[r].stage = "served" => r \in was

\* Previews are written in whatever order they are drawn in.  When all jobs are
\* done the preview shows one of the saves since one began alone, or what was
\* there when a job failed or the process died, or what updateRoom has written
\* since.  It shows the content if there is one such picture only, of a body with
\* every column, and updateRoom has changed neither.
PreviewOfLatestSaves ==
    Unfinished = {} =>
      /\ room.preview \in candidates
      /\ ~patched /\ (\E body \in Bodies : IsWhole(body) /\ candidates = {body})
           => room.preview = room.content

\* Every request is answered unless the process dies, but those of users with a
\* token and no row, and of these the ones checkIfAuthenticated is asked about.
RequestIsAnswered ==
    \A r \in Requests :
        request[r].stage = "arrived" ~>
          \/ request[r].stage \in {"served", "answered", "refused", "lost"}
          \/ request[r].kind # "get" /\ request[r].sender \in Strangers
=============================================================================
