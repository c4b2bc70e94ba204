------------------------------- MODULE Projects -------------------------------
(***************************************************************************)
(* A project made from a framework's template: controllers/projects.ts and *)
(* getRecursiveInclude of lib/prisma.ts.  A child process writes the       *)
(* template to a directory, the server reads it, answers, and goes on to   *)
(* store it, one row a time for each directory, in calls nobody awaits.    *)
(* File contents are left out.                                             *)
(***************************************************************************)
EXTENDS Naturals, FiniteSets

CONSTANTS
    Dirs,           \* the template's directories,
    Files,          \* its files,
    Root,           \* its root
    Top,            \* no directory, where the root is,
    Inside,         \* and what each entry is in
    IncludeDepth    \* the depth getProject asks for

Entries == Dirs \cup Files

ASSUME ProjectsAssumption ==
    /\ Root \in Dirs /\ Dirs \cap Files = {} /\ Top \notin Entries
    /\ Inside \in [Entries -> Dirs \cup {Top}]
    /\ \A n \in Entries : Inside[n] = Top <=> n = Root
    /\ IncludeDepth \in Nat /\ IncludeDepth >= 3

VARIABLES
    project,    \* stage of createProject
    child,      \* the child process: none, running, succeeded or failed
    workDir,    \* whether the directory it writes to is there
    todo,       \* todo[d]: what the call for d of saveTemplateInDb has to create
    stored      \* rows of the project's Directory and File tables

projectsVars == <<project, child, workDir, todo, stored>>

Children(d) == {n \in Entries : Inside[n] = d}
Nothing == [d \in Dirs \cup {Top} |-> {}]

ProjectsInit ==
    /\ project = "idle"
    /\ child = "none"
    /\ workDir = FALSE
    /\ todo = Nothing
    /\ stored = {}

-----------------------------------------------------------------------------
(* getTemplate: its promise is settled once, the child goes on regardless *)

\* A framework that is not known rejects before a child is spawned.
CreateProject(known) ==
    /\ project = "idle"
    /\ IF known
       THEN project' = "waiting" /\ child' = "running" /\ workDir' = TRUE
       ELSE project' = "rejected" /\ UNCHANGED <<child, workDir>>
    /\ UNCHANGED <<todo, stored>>

Reject == project' = IF project = "waiting" THEN "rejected" ELSE project

\* Anything on stderr rejects.
ChildWarns ==
    /\ project # "crashed"
    /\ child = "running"
    /\ Reject
    /\ UNCHANGED <<child, workDir, todo, stored>>

\* Exit code 0: the tree is read, the directory removed, the promise resolved.
ChildSucceeds ==
    /\ project # "crashed"
    /\ child = "running"
    /\ child' = "succeeded"
    /\ workDir' = FALSE
    /\ project' = IF project = "waiting" THEN "template" ELSE project
    /\ UNCHANGED <<todo, stored>>

\* The directory of a child that failed stays.
ChildFails ==
    /\ project # "crashed"
    /\ child = "running"
    /\ child' = "failed"
    /\ Reject
    /\ UNCHANGED <<workDir, todo, stored>>

\* An unhandled rejection ends the process: reading the tree or creating a
\* row, the calls that nobody awaits.
ProjectCrash ==
    /\ child = "running" \/ todo # Nothing
    /\ project' = "crashed"
    /\ todo' = Nothing
    /\ UNCHANGED <<child, workDir, stored>>

-----------------------------------------------------------------------------
(* createProject and saveTemplateInDb *)

\* The first call is given the root, and the answer does not wait for it.
CreateProjectRoom ==
    /\ project = "template"
    /\ project' = "answered"
    /\ todo' = [Nothing EXCEPT ![Top] = Children(Top)]
    /\ UNCHANGED <<child, workDir, stored>>

CreateRoomFails ==
    /\ project = "template"
    /\ project' = "rejected"
    /\ UNCHANGED <<child, workDir, todo, stored>>

\* Mutant of SaveEntry: only the root is gone into.
SaveEntryShallow(d, n) ==
    /\ n \in todo[d]
    /\ stored' = stored \cup {n}
    /\ todo' = IF n = Root THEN [Nothing EXCEPT ![n] = Children(n)]
               ELSE [todo EXCEPT ![d] = @ \ {n}]
    /\ UNCHANGED <<project, child, workDir>>

\* The loop of the call for d creates the row of n, whatever order the entries
\* have been read in; a directory's row starts a call of its own.
SaveEntry(d, n) ==
    /\ n \in todo[d]
    /\ stored' = stored \cup {n}
    /\ todo' = [e \in DOMAIN todo |->
         IF e = n THEN Children(n) ELSE todo[e] \ {n}]
    /\ UNCHANGED <<project, child, workDir>>

Saving == \E d \in Dirs \cup {Top} : \E n \in todo[d] : SaveEntry(d, n)

ProjectsNext ==
    \/ \E known \in BOOLEAN : CreateProject(known)
    \/ ChildWarns \/ ChildSucceeds \/ ChildFails \/ ProjectCrash
    \/ CreateProjectRoom \/ CreateRoomFails
    \/ Saving

ProjectsSpec == ProjectsInit /\ [][ProjectsNext]_projectsVars

\* A create is answered or fails; it does not hang.
ProjectsFairness == WF_projectsVars(Saving)

-----------------------------------------------------------------------------
(* getProject *)

\* Directories down to a level, the root at level 0.
ShownDirs(level) ==
    LET at[k \in Nat] ==
          IF k = 0 THEN {Root} \cap stored
          ELSE LET above == at[k - 1]
               IN {n \in stored \cap Dirs : Inside[n] \in above}
    IN UNION {at[k] : k \in 0..level}

\* getRecursiveInclude nests one include less than its argument; the last one
\* has directories without their files.
Shown ==
    ShownDirs(IncludeDepth - 1)
      \cup {n \in stored \cap Files : Inside[n] \in ShownDirs(IncludeDepth - 2)}

-----------------------------------------------------------------------------
(* Properties *)

ProjectsTypeOK ==
    /\ project \in {"idle", "waiting", "template", "answered", "rejected", "crashed"}
    /\ child \in {"none", "running", "succeeded", "failed"}
    /\ workDir \in BOOLEAN
    /\ todo \in [Dirs \cup {Top} -> SUBSET Entries]
    /\ stored \subseteq Entries

\* Rows are created from the root down: a directory's before those of what is
\* in it, which refer to it.  While the calls that nobody awaits go on, what
\* they have left is just what the directories stored so far still lack, so no
\* entry is forgotten and none is created twice.
StoredFromTheRoot ==
    /\ \A n \in stored : Inside[n] \in stored \cup {Top}
    /\ project = "answered" =>
         \A d \in Dirs \cup {Top} :
           todo[d] = IF d \in stored \cup {Top} THEN Children(d) \ stored ELSE {}

\* How many directories an entry is in.
Level[n \in Entries] == IF n = Root THEN 0 ELSE Level[Inside[n]] + 1

Showable == {n \in Entries : Level[n] < IncludeDepth}

\* createProject answers before the template is stored, by calls that it does
\* not await.  Unless the process ends, getProject will show every entry of
\* the template, up to the depth it asks for.
TemplateIsStored == project = "answered" ~> project = "crashed" \/ Shown = Showable
=============================================================================
