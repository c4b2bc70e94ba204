------------------------------ MODULE MCHandlers ------------------------------
(***************************************************************************)
(* Instances of Problems, UserStats, Projects and RoomAccess small enough  *)
(* for TLC, and the one of Ducklets in which users ask to join.  They have *)
(* no state in common, so a behaviour runs one of them and leaves the      *)
(* others in their initial states; of Problems it is either the editors or *)
(* the ratings, which share the problem's row alone.                       *)
(***************************************************************************)
EXTENDS Problems, UserStats, Projects, RoomAccess, Ducklets, TLC

VARIABLE part   \* the component that runs

handlersVars ==
    <<part, problemsVars, userStatsVars, projectsVars, roomAccessVars, vars>>

VerdictOn(problemId, exam, accepted) ==
    [problem |-> problemId, exam |-> exam, accepted |-> accepted]

SomeVerdicts ==
    {VerdictOn(1, FALSE, TRUE), VerdictOn(1, FALSE, FALSE), VerdictOn(2, TRUE, TRUE)}

\* A template with a branch, and directories one deeper than getProject goes.
TemplateDirs == {"root", "public", "d1", "d2", "d3", "d4", "d5", "d6"}
TemplateFiles == {"index", "icon", "f4", "f5"}
TemplateInside ==
    "root" :> "top" @@ "public" :> "root" @@ "index" :> "root" @@ "icon" :> "public"
    @@ "d1" :> "root" @@ "d2" :> "d1" @@ "d3" :> "d2" @@ "d4" :> "d3" @@ "f4" :> "d4"
    @@ "d5" :> "d4" @@ "f5" :> "d5" @@ "d6" :> "d5"

\* updateRoom changes a room's owner, publicity or list, or what it shows.
NoPatch == [owner |-> Undefined, public |-> Undefined, allowed |-> Undefined,
            body |-> [c \in Columns |-> Undefined], preview |-> Undefined]

SettingPatches ==
    {[NoPatch EXCEPT !.owner = u] : u \in Accounts}
    \cup {[NoPatch EXCEPT !.public = p] : p \in BOOLEAN}
    \cup {[NoPatch EXCEPT !.allowed = {}]}

ContentPatches ==
    {[NoPatch EXCEPT !.body = body, !.preview = preview] :
       body \in Bodies, preview \in {Undefined, BlankPage}}

SomePatches == SettingPatches \cup ContentPatches

\* Requests about a room whose settings change, all of whose saves are of one page,
BlankSaves == ~patched /\ \A r \in Requests : request[r].body \in {NoContent, BlankPage}

\* and saves in a room that one user has for themselves.
OnlySaves ==
    /\ \A r \in Requests : request[r].stage = "arrived" =>
         request[r].kind = "save" /\ request[r].sender \in Accounts
    /\ \A u \in Accounts : Permitted(room, u) => u = room.owner
    /\ \A q, r \in Requests : request[q].sender \in Accounts /\ request[r].sender \in Accounts
         => request[q].sender = request[r].sender

HandlersInit ==
    /\ part \in {"editors", "ratings", "stats", "projects", "rooms", "previews", "asking"}
    /\ ProblemsInit /\ UserStatsInit /\ ProjectsInit /\ RoomAccessInit /\ Init
    /\ part # "asking" =>
         /\ \A k \in Rooms : life[k] = "unborn" /\ ~isPublic[k]
         /\ \A s \in Sockets : uid[s] = NoUser

HandlersNext ==
    \/ /\ part \in {"editors", "ratings"}
       /\ RowNext \/ (part = "editors" /\ EditorNext) \/ (part = "ratings" /\ RatingNext)
       /\ UNCHANGED <<part, userStatsVars, projectsVars, roomAccessVars, vars>>
    \/ /\ part = "stats"
       /\ UserStatsNext
       /\ UNCHANGED <<part, problemsVars, projectsVars, roomAccessVars, vars>>
    \/ /\ part = "projects"
       /\ ProjectsNext
       /\ UNCHANGED <<part, problemsVars, userStatsVars, roomAccessVars, vars>>
    \/ /\ part \in {"rooms", "previews"}
       /\ RoomAccessNext
       /\ IF part = "rooms" THEN BlankSaves' ELSE OnlySaves'
       /\ UNCHANGED <<part, problemsVars, userStatsVars, projectsVars, vars>>
    \/ /\ part = "asking"
       /\ Next
       /\ UNCHANGED <<part, problemsVars, userStatsVars, projectsVars, roomAccessVars>>

HandlersSpec ==
    /\ HandlersInit /\ [][HandlersNext]_handlersVars
    /\ ProjectsFairness /\ RoomAccessFairness /\ Fairness

\* Every variable of the components keeps its type.
HandlersTypeOK ==
    ProblemsTypeOK /\ UserStatsTypeOK /\ ProjectsTypeOK /\ RoomAccessTypeOK /\ TypeOK
=============================================================================
