# Verification of the Coding Ducks API

TLA+ models of the Coding Ducks server (`src/`), the TLC configurations that
check them and the TLAPS proofs about them. Paths and line numbers refer to
`src/`.

## 1. The system

Two Node processes: `index.ts` serves an Express API and a socket.io server,
`yjs/index.ts` a bare websocket server for collaborative documents on a port of
its own. The first keeps its durable state in a SQL database (through Prisma)
and in a file system for images, the second in a MongoDB. Either is
single-threaded, so a stretch of code between two awaits is atomic, and
everything interesting happens at the awaits: requests, socket events, timers
and child processes interleave there. An unhandled rejection ends the process.
`package.json` starts both with `concurrently`, which lets the other one go on,
and the container restarts when both are gone; in the models a process that has
died comes back at any time or never.

| component | state | operations | hard behaviours | what makes it correct |
|---|---|---|---|---|
| Collaboration server, `yjs/websocket/utils.ts` | `docs` Map, per instance its connections and awareness states, per socket a heartbeat | connect, messages, ping/pong, close, destroy | a failed send closes a connection in the middle of a broadcast, or of another close; close events that arrive late; instances with one name following each other | one instance per name, no idle instance, attached connections have a heartbeat, dead peers are detached, one connection controls an awareness client |
| Its persistence, `yjs/index.ts` | the provider's queue, the stored updates | bindState, update listener, writeState | bindState is not awaited: edits and closes come before it resumes; restarts | edits are durable once bound; accepted edits are lost in a crash only |
| Judging, `routes/runCode.ts` | Submission and User rows | evaluateResult, saveInDB | six queries without a transaction, two requests of one user, a rejection between two queries | solved problems are paid for, once; a user leaves the tutorial when it is complete |
| Code runner, `turbodrive/` | directories, child processes, pipes | writeSourceFile, compile, execute, collect | exit against data events, timeouts, children that never start | an answer after all runs, with the whole output and the right error type |
| Socket.io server, `socketio/` | list of clients, rooms of sockets | connect, join, ask to join, chat, disconnect | disconnection while a listener awaits the database, access that changes meanwhile | who is online is listed, who is gone is not; members were permitted; what is heard is saved |
| Rooms over HTTP, `controllers/rooms.ts` | Room rows | create, read, update, share, save, delete, preview image | access decided from an earlier read; previews nobody awaits | contents go to those who were permitted, the preview shows a latest save |
| Challenges, `controllers/ui-challenges.ts`, `python/`, `lib/utils.ts` | the challenge, attempts, image files | edit, submit, recalculate, high scores | external scripts between row and score; recalculation while attempts arrive and admins edit | scores are those of their own attempts against the challenge, or it is known why not; one high score per user |
| Problems, `controllers/problems.ts` | problems, tags, starter codes, ratings | edit, rate | tags are replaced in three queries; starter codes are created on an old read; a rating is answered from two reads | the tags are the last editor's, no user rates both ways |
| Users, `controllers/user.ts` | User rows, follow relation | profile, follow, statistics | streak and solved-count algorithms over dates | streaks agree with their definition |
| Projects, `controllers/projects.ts`, `lib/prisma.ts` | directory and file rows | create from a template tree, read back | recursion nobody awaits | the stored tree is the template |
| Authentication, `middlewares/` | none | authenticate, role checks | a request that is never answered | the decision follows the role |
| Exams, exercises, files, submission lists, playground | rows | single queries | none | constraints of the schema |
| Wiring, image hosting, schema | configuration | none | none | none |
| `socketio/state-manager.ts`, `socketio/ysocketio.ts` | none | dead code | none | none |

Interactions: `yjs/index.ts` hands every connection of its websocket server to
`setupWSConnection`, `index.ts` attaches socket.io to its own HTTP server. The collaboration server calls the persistence
through `bindState` and `writeState`. `runCode` calls the runner's `execCode`, waits for
it, judges its outputs and writes the submission. The socket.io listeners read the Room and User rows that the HTTP
handlers change. The two processes share no state.

## 2. Modules

| module | models | lines of code it stands for |
|---|---|---|
| `YjsServer` | collaboration server without its documents' contents | `yjs/websocket/utils.ts` |
| `DocSessions` | what `YjsServer` promises the people on a document, as an abstract specification | none |
| `YjsPersistence` | EXTENDS `YjsServer`; every action of it reappears, joined with what it does to contents, queue and database | `yjs/index.ts` |
| `DurableDoc` | what persistence promises, as an abstract specification | none |
| `Submissions` | one request per element of `Requests`, query by query | `routes/runCode.ts`, `checkIfAuthenticated` |
| `CodeRunner` | one `execCode` with a child per input | `turbodrive/` |
| `Ducklets` | socket.io listeners, list of clients, rows of the Room table | `socketio/`, `controllers/rooms.ts` |
| `PageBodies` | pages, request bodies that may leave columns out, and what is stored and drawn of them | `prisma/schema.prisma`, `updateRoomContents`; used by `Challenges` and `RoomAccess` |
| `Challenges` | one challenge, its attempts, their scores | `controllers/ui-challenges.ts`, `python/` |
| `Problems` | one problem's tags, starter codes and ratings | `controllers/problems.ts` |
| `UserStats` | the statistics of one user | `getUserStats` of `controllers/user.ts` |
| `Projects` | one project and its template | `controllers/projects.ts`, `lib/prisma.ts` |
| `RoomAccess` | requests about one room, with their middlewares | `middlewares/auth-middleware.ts`, `controllers/rooms.ts` |
| `MC...` | instances for TLC; symmetry sets. `MCHandlers` has those of the last four and one of `Ducklets` | none |
| `...Proofs` | theorems about the module they are named after; `HandlersProofs` those about `Problems`, `RoomAccess`, `Ducklets`, `Projects` and what `MCHandlers` composes of them | none |
| `FoldTheorems` | what a fold over a sequence does, and least and greatest numbers, for the proofs | none |

Definitions marked "Mutant of" another definition are
plausible bugs in that definition. Each property is violated when its mutant
takes the definition's place.

### YjsServer and DocSessions

`docs`, `conns`, `states`, `meta`, `controlled` are the Maps and Sets of the
code; `readyState` is the socket's, `pongReceived` and `pingInterval` the
variables of `setupWSConnection`'s closure, `doc[c]` the instance that c's
listeners captured. A callback is one action with its synchronous cascade:
`send` closes a connection whose socket is not open (line 173), `closeConn` removes the awareness states the
connection controls, which broadcasts, which sends. `Closing(d, c)` is the set
of connections one close takes along and `CloseAll` its effect; when the last
connection goes, the name is freed in the same action.

Abstractions:
 - an awareness message carries one client; document updates have no content (see `YjsPersistence`);
 - `writeState` resolves at once, so `destroy()` runs after the current callback; `Destroy` is a
   separate action, which allows more orders than Node produces;
 - whether `conn.ping()` or a send fails is the environment's choice (`TickPingThrows`, `SendError`);
 - a connection and an instance are used once, so the pools bound how many come into being.

`DocSessions` knows who is in which session: `Open` makes one for the first who
asks for a name, `Join` puts others into it, `Leave` takes some out and gives the session up with the last,
`Crash` empties all. An instance is never used again. In the refinement mapping `host` is the `docs` Map, and
the place of a connection the instance that has it in its `conns`. A close that takes others along is one
`Leave` of all of them; pings, awareness and edits change nothing here.

### YjsPersistence and DurableDoc

A document is the set of edits merged into it, merging is union. The provider
is external and modelled as `yjs/index.ts` uses it: operations on one name run
in calling order, the next one starts after the previous caller resumed.
`bindState` is two actions around its await: `Connect` queues the read,
`BindResume` stores what the instance holds by then, merges what was read and
attaches the listener. `Restart` empties memory and queue.

`DurableDoc` knows accepted and stored edits; only its `Crash` takes an edit
away, and a crash is visible: nothing is open after it. The refinement mapping takes as accepted what is stored, what is queued,
and what instances hold that will still be stored: live ones, and those
destroyed ones whose `bindState` has not resumed.

### Submissions

`pc` walks through `saveInDB`: count, award, create, check the tutorial,
graduate. The Submission table is the set of requests that created a row, a
user's points are the set of requests that incremented them. The literal 10 of
line 171 is the constant `Goal`. `Crash` is a rejected query: the async executor
catches nothing, so everything in flight dies.

### CodeRunner

Calls share nothing (each has its own directory), so one call is enough. A
child is its ending, its chunks of output written and read; `OnData` and
`OnExit` are delivered in any order, also data after exit. What follows the
last settled run is promise jobs only, so judging is part of `Settle`.
Error output goes as standard output does; run times and the compiler's
messages are left out. spawn's `timeout` sends SIGTERM, once: `Timeout` ends the child,
or adds it to `deaf`, which goes on until it ends by itself, if it ever does.

### Ducklets

A listener that awaits the database is a record in `joins` or `asks`, a message
in `chat`. `join()` of a disconnected socket does nothing in the socket.io version the
lock file pins. `permitted` is a history variable: who could have
joined which room at some time. `USER_JOIN_REQUEST_ACCEPT`,
`USER_REMOVE_FROM_DUCKLET` and `ROOM_UPDATE` relay an event and keep nothing; they
are left out.

### Challenges

An attempt is a record in the sequence `attempts`, in the order of creation;
`by` names the request it comes from. The locals a handler keeps over an await are fields of `submit`, `dummy`,
`edit` and `recalc`; a handler that has ended keeps none. A page is a function
from columns to texts (`PageBodies`), and a body may leave columns out. Prisma
keeps those in the row (`Merge`), while the picture is drawn with the word
"undefined" in their place, so a picture is represented by the body it was drawn
from. An edit with columns left out differs from any row, so it is always
drawn (`EditRead`); content and preview then part. The columns are those that are drawn; the
head, which is not, and the scale of the og image only make an edit redraw (`otherHead`). `Grade` says only whether two pictures are the
same, `ScoreOf` adds the script that is killed: it prints nothing, and `+""` is 0.
`submitAttempt` compares with a picture of the content it has read, a recalculation with the
stored preview. Awaits between which nothing shared is read or written are one
step. `createDummyAttempt` looks for any attempt of the user and then creates
one.

A recalculation finds the one attempt its body names by id alone: one of another
challenge may write the score of an attempt at this one (`RescoreElsewhere`).

`edited`, `whole`, `killed`, `stray` and `quiet` are history variables: whether an edit has
changed content or previews, whether the previews were last drawn from a body
with every column, which attempts have their score from a killed script, which from a
recalculation of another challenge, and which recalculation of all attempts has
had no write of another handler beside it.

### Problems

`updateProblem` is one action per query; `seen` and `noCodes` are what its first
query returned. `updateProblemRating` is one query, its answer is put
together from two more, of which `listed` and `mine` keep what they say about
the user. `met`, `last`, `torn` and `undisturbed` are history.

### UserStats

The table of submissions is a sequence, its time stamps reduced to days. The
code's reductions are folds (`AddToDay`, `AddDate`), checked against definitions
over sets (`MaximalRuns`, `EverSolved`). JavaScript's maximum of no numbers is
`MinusInfinity`. The answer is built from two reads, with submissions between
them.

### Projects

`todo[d]` is what the call of `saveTemplateInDb` for directory d has still to create,
so `SaveEntry` is one row of one of the calls that run side by side. The child
process may warn, succeed or fail after the promise was settled by its first
event. `Shown` is what the nested include of `getProject` selects of the rows:
directories of levels 0 to 5, and the files of levels 0 to 4.

### RoomAccess

A request is a record: it arrives, is let through by its middleware and handled
by a read or write of its own. `checkRoleInRoom` is the decision table `RoleOf`.
`AccessUpdateRoom` writes whatever columns the body of `updateRoom` has, contents
and `previewImage` included, and draws nothing; bodies are elements of the constant
`Patches`. A save merges its body into the content and draws it as it came (`PageBodies`).
`RoomAccessCrash` is the death of the process: requests under way are lost, and
so are previews being drawn. The columns are the ones drawn for a preview, which include the head here.

`was` is the set of requests whose sender was permitted at some time since they
arrived. `candidates` are the pictures the preview may show when all jobs are done:
of the saves since one began while no other was unfinished, of what `updateRoom` has
written to the preview since, and of what a failed job or the death of the process has left
there; `patched` says whether `updateRoom` has changed content or preview since.

## 3. Runs

| run | configuration | shows |
|---|---|---|
| `yjs_server` | 2 names, 3 instances, 3 connections, 1 client, clocks to 2 | `DocSessions` is implemented under closes, cascades, heartbeats and restarts; heartbeats are kept, awareness clients have one controller |
| `yjs_liveness` | 1 name, 2 instances, 2 connections, fair | a dead peer is detached, a detached connection's interval is cleared |
| `yjs_persistence` | 1 name, 2 instances, 2 connections, 1 edit, fair | bound edits are durable, `DurableDoc` is implemented, edits reach the database |
| `yjs_stale` | 1 name, 2 instances, 1 edit | violated: a reopened document misses what is on disk |
| `submissions` | 4 requests of one user, 3 problems, 2 of them tutorial, goal 2 | solvers are paid, graduation is neither early nor forgotten |
| `sub_paid_once` | 2 requests | violated: two accepted submissions in flight are both paid |
| `runner` | 2 inputs, 2 chunks, fair | answer after all runs, timeouts named, an answer at all unless a program ignores the timeout's signal |
| `runner_truncated` | 1 input, 1 chunk | violated: judged without the output it wrote |
| `ducklets` | 2 sockets, 2 registered users and an unknown one, 1 room, 1 message | presence, access and chat |
| `ducklets_ghost` | 1 socket | violated: a disconnected socket stays listed |
| `challenges` | 1 column, 2 texts, 2 attempts; 1 dummy and 1 recalculation in flight beside 2 submissions of 2 users, or beside 1 submission and 2 edits | when attempts are unscored, which scores fit the challenge, what a recalculation achieves, high scores |
| `handlers`, editors and ratings | 2 editors, 2 tags, 1 language; 2 ratings of 1 user | tags settle, starter codes are not doubled by one editor alone, ratings are answered with themselves |
| `handlers`, stats | 5 days, 4 submissions, 2 problems | streaks, daily counts, solved problems |
| `handlers`, projects | 8 directories, 4 files, 7 levels | the template is stored although nobody waits for it, from the root down, with nothing twice |
| `handlers`, rooms | 2 requests, 2 accounts, 1 stranger, saves of one page | contents are for the permitted, a request is answered |
| `handlers`, previews | 2 saves of one account, 1 column, 2 texts, `updateRoom` | the preview is of a latest save, and shows the content when it must |
| `handlers`, asking | 2 sockets, 1 user, 1 request in flight | a request to join is answered |

`handlers` starts in one of the rows named after it and stays there (`part` in `MCHandlers`):
these components share no state, and TLC checks each as if it were alone.
Of rooms there are two parts, one for the settings and one for contents and previews.
The constraint `Few` of `MCChallenges` keeps edits and a second submission apart: once an
edit has begun there is one submission and one user.

Why the bounds are enough. Three connections are the least for a close that
takes another connection along while a third one holds the name's next
instance, and three instances let both names be busy while an old one is still closing. A second connection can
take over an awareness client only with a larger clock, hence clocks to 2.
Edits never interact (merging is union, and each is stored independently), so one
edit shows what several would; two instances of one name are the least for one to be
opened while the other's `bindState` is pending. Four requests let two
accepted submissions race on one tutorial problem while another one completes
the tutorial. Two children show one failing beside one running. In Ducklets every property
speaks about one listener and the rows it reads; a second socket shows one user
with two tabs, or an owner and an asker. Two attempts are the
least to be put in order, and for a recalculation to do one while the other is
being submitted; two edits let one end between the reads and writes of the other. Columns are independent of each other but for being drawn together, so one column, given or left out, shows what several would. Two editors can
overlap in every order of their queries. Five days and four submissions
hold two streaks of two days each. The template goes one directory
deeper than `getProject` shows. Two requests let a deletion come between a
middleware and its handler; the room's settings change between any two steps. What a room
holds does not matter there, so saves are of one page; where it does, two saves can overlap or follow each other.

Deadlock is checked in the collaboration server and the socket.io rooms, where a crash is always possible.
It is not checked in the other modules, whose requests end: that a run
may finish is their purpose.

Fairness, and why the code justifies it:
 - `YjsServer`: timers fire (`setInterval`), `ws` emits "close" for a socket that is closing (it
   has a timeout of its own), promises resolve. Nothing is assumed of peers.
 - `YjsPersistence`: the provider works through its queue, and awaits resume.
 - `CodeRunner`: spawn's timeout fires, which sends a signal only, and Node delivers
   exit and error events. That a compiler or a program ends is not assumed, nor are data events.
 - `Ducklets`: the database answers, so the listeners of requests resume.
 - `Projects`: the calls that store the template go on (`Saving`), unless the
   process ends.
 - `RoomAccess`: an await of a middleware or a handler resolves or rejects, unless the
   process dies. Of the jobs that draw previews nothing is assumed.
 - `Submissions`, `Challenges`, `Problems`, `UserStats`: none; their properties are invariants.

## 4. Where the code differs from what it says

Found by a run (the findings of `PROJECT.json`):
 - `yjs/websocket/utils.ts:97`: a document reopened while its first binding is
   pending does not hold what is on disk.
 - `routes/runCode.ts:102`: points are incremented twice for two accepted
   submissions in flight.
 - `turbodrive/executors/index.ts:79`: the run resolves at the exit event, before
   its output has been read.
 - `socketio/clients-manager.ts:46`: a socket that disconnects before
   `addClient` resumes is never removed.

Seen while modelling, without a run of their own:
 - `routes/runCode.ts:112` increments without looking at the verdict: the wrong
   submissions before the first accepted one are paid too.
 - `yjs/websocket/utils.ts:158` says state is stored before the instance is
   destroyed; `writeState` stores nothing. Edits typed before the instance was
   bound are stored by the binding afterwards (`EditsEventuallyStored`).
 - `routes/runCode.ts:159` speaks of all tutorial problems, line 171 compares
   with 10. `NoEarlyGraduation` therefore holds when the tutorial has that
   many problems, which is the premise of its theorem.
 - `socketio/index.ts:91` says the event is emitted if room and user exist; the check before it does not return.
 - `turbodrive/index.ts:123`: when the source cannot be written the promise is
   never settled (stage `hung`).
 - `turbodrive/executors/index.ts:32`: the timeout of spawn sends SIGTERM and nothing
   after it. A program that ignores it runs on, and its request is never answered
   (`deaf`, the exception in `RunIsAnswered`).
 - `controllers/ui-challenges.ts:249`: the body of an edit is compared with the row as if it were
   whole. One with a title alone differs from it, so the previews are drawn
   from "undefined" (295 to 303) and the content stays; `createChallenge` (109 to 182) does the same.
   Submissions are then scored against one page, recalculations against another
   (`whole` in `ScoresAgreeUntilEdited` and `RecalculatedIsCurrent`).
 - `controllers/ui-challenges.ts:350`: the one attempt of a recalculation is not required to be
   of the challenge it is scored against (`stray`).
 - `controllers/rooms.ts:151`: `updateRoom` may change contents and preview, and draws nothing;
   `updateRoomContents` draws "undefined" for the columns it leaves alone (163 to 176). The
   preview then shows what the room never held (`patched` and `IsWhole` in `PreviewOfLatestSaves`).
 - `controllers/ui-challenges.ts:234` updates `ogImageScale` always, but its
   picture only when the previews are drawn again; `createChallenge` does not store the scale at all.
 - `controllers/ui-challenges.ts:365`: the directories of a recalculation are never
   removed, nor are those of a failed submission.
 - `python/index.ts:73`: a script that is killed gives its attempt the score 0.
 - `controllers/problems.ts:401`: starter codes sent without ids are updated with `where: { id: undefined }`,
   which selects all of them. The texts are not modelled.
 - `controllers/problems.ts:230`: the third branch of a rating passes the problem's id as it
   came, where the others convert it.
 - `controllers/user.ts:374` looks for an active streak at the oldest day of the
   oldest streak: it is never active. `StreakReport` states what the code does.
 - `controllers/user.ts:399`: the total of submissions is one of problems.
   A solved problem no longer counts after a later wrong submission, or one in an exam (`SolvedUnlessRetried`).
 - `controllers/projects.ts:160`: the directory of a child that fails is not removed.
 - `middlewares/auth-middleware.ts:73`: a user with a valid token and no row is
   never answered (stage `hanging`, the exception in `RequestIsAnswered`).
 - `controllers/exams.ts:117` and `controllers/user.ts:189` await outside their
   try: a rejection ends the process.

## 5. Proofs

All theorems hold for every value of the constants that the module's ASSUME
admits. The collaboration server assumes that its null values are not
instances or names; Submissions that the tutorial is a finite subset of the problems; CodeRunner that
there are finitely many inputs; Ducklets that registered users are users; Challenges, Problems and
RoomAccess that null values are not values and kinds of senders and requests are disjoint; PageBodies that the default
of a column is a text and a column left out is not; RoomAccess that patches are bodies of `updateRoom`; UserStats that
there is at least one day and the fields of a verdict are booleans; Projects that every entry but the root is in
a directory.

| module | theorems | argument |
|---|---|---|
| `YjsServerProofs` | `TypeCorrect`, `OneLiveInstance`, `OneController`, `HeartbeatKept`, `SessionsKept` | Lemmas about `CloseAll`, which every detaching action goes through. `OneInstancePerName` and `NoIdleDoc` need each other: freeing a name is right only if the map holds the instance that is closed. `UniqueController` is not inductive: a client could be controlled although its clock was forgotten; `ControlledWasSeen` excludes it, since a client is "added" only when it has not been seen, and `IdleControlsNothing` starts it off. `SessionsKept` is the refinement of `DocSessions`: by `Shapes` every step sets up a connection, closes some of one instance, destroys, crashes or leaves sessions alone; those who are closed together are in the session of one name by `OneLiveInstance`, and `ControlledWasSeen` says that a connection in `conns` has captured that instance |
| `YjsPersistenceProofs` | `PersistenceTypeCorrect`, `BoundIsDurable`, `PersistentServerIsServer`, `PromiseKept` | `PersistentServerIsServer` shows that every behaviour with persistence is one of the server without, so its theorems carry over. `Durable` needs that a read queued on a name comes from an instance of that name (`GetsOwnName`), that what it has read is in the database, and that a bound instance listens until it is destroyed (`BindingKnows`); `IInv` is their conjunction. `PromiseKept` is the refinement of `DurableDoc`, action by action: opening is the connection that constructs an instance, accepting is an edit its instance vouches for, persisting is a write of the database. A read must not revive the vouching of a bound instance, so each read is the only one of an instance that waits for it (`ReadsOnce`); a new instance starts empty, and whoever can send has come after an opening (`Openings`) |
| `SubmissionsProofs` | `TypeCorrect`, `SolverAlwaysPaid`, `GraduatesAreComplete`, `CompletionGraduates` | `Payment`: whoever is about to create a row is paid, by itself or by an earlier request, because it found an accepted row or has incremented. `Graduation`: whoever is about to graduate has found as many solved tutorials as there are; rows are never deleted. `Completion`: a tutorial that is solved by somebody still in it has a request that will check, will graduate them, or has died. The last two theorems have the premise that the tutorial has `Goal` problems |
| `CodeRunnerProofs` | `TypeCorrect`, `AnswerLeavesNoOrphans`, `TimeoutsReported` | `Settled`: children exist only once spawned, a settled run has no running child, and a child the timeout's signal has ended has an ending that `ErrorType` maps to "run-timeout" |
| `FoldTheorems` | lemmas only | `FoldExists`: a fold from either end of a sequence has a value after every number of rounds, each made from the one before by a step. The argument is over the least round that lacks one (`LeastNatural`), which needs no induction schema |
| `ChallengesProofs` | `ChallengesTypeCorrect`, `UnscoredAlwaysAccountedFor`, `ScoresAlwaysAgree`, `RecalculatedAlwaysCurrent`, `BoardAlwaysListsBest` | `Origins` says which request a row comes from, and that it has a single one. `Targets`: previews drawn from a whole body show the content and, until an edit changes either, a submission in flight compares with the content and a recalculation with the preview. `Undisturbed`: a recalculation in `quiet` is alone, and what is no longer on its list is up to date. The board is a fact about the reduce of `getHighScores` alone: after each round the list kept so far is in descending order and has the best of every user seen (`KeepListed`) |
| `UserStatsProofs` | `UserStatsTypeCorrect`, `SolvedAlwaysUnlessRetried`, `StreaksAlwaysReported` | Three facts that hold after every round of a fold: `DailyRounds`, the days counted so far are those of the submissions seen, in their order, with their counts; `StreakRounds`, the closed streaks and the current one are those of the days seen; `NewestThere`, of each problem seen the newest submission is kept. `CalculateStreaksRight` closes the last streak and drops single days, `StreaksAreRuns` compares with `MaximalRuns`. `StatsRecorded` says which submissions the answer was computed from: those the first query had read for the solved problems, all of them for the streaks |
| `HandlersProofs`, Problems | `ProblemsTypeCorrect`, `TagsAlwaysSettle`, `DuplicatesAlwaysMet`, `RatingsAlwaysAgree` | `MeetingsKept`: editors in flight together have met. `CodesKept`: who has read no codes has met the creator of every code. `TagsKept`: an editor who has met nobody finds the tags it read, then none. `RatingsKept`: while a rating is undisturbed, tables and reads already say what it asked for |
| `HandlersProofs`, RoomAccess | `RoomAccessTypeCorrect`, `ContentsAlwaysPermitted`, `PreviewAlwaysOfLatestSaves` | `Deserved`: the history keeps up with requests under way, and a role that is served was deserved. `Pictured`: what unfinished saves will draw is among the candidates, so is the preview when none is left, and unless `updateRoom` has interfered a single whole candidate is the room's content |
| `HandlersProofs`, Ducklets | `DuckletsTypeCorrect`, `OnlineAlwaysListed`, `MembersStayConnected`, `MembersPermitted`, `HeardAlwaysSaved` | `RoomInv` adds that what the rooms admit now, and what a listener in flight has been told, is in `permitted`. `ChatInv` adds that only sent messages are heard, and that saved ones are in the table of a room that exists |
| `HandlersProofs`, Projects | `ProjectsTypeCorrect`, `AlwaysStoredFromTheRoot` | `StoredFromTheRoot` is inductive: an entry has one parent, so the call that stores it is the only one that had it to do |
| `HandlersProofs`, composition | `HandlersImplement`, `HandlersTypeCorrect` | a step of the composition is one of a single component and leaves the variables of the others alone, so what is proved of each holds in it |

Every safety property of a passing run is a theorem. Only model-checked are the liveness properties
(`DeadPeerDetached`, `TimersReleased`, `EditsEventuallyStored`, `RunIsAnswered`, `TemplateIsStored`,
`RequestIsAnswered`, `AskIsAnswered`), as the prover does not do liveness under fairness.

## 6. Not modelled, and what is left

Not to be modelled:
 - single-query handlers (exams, exercises, files, lists, playground, profiles,
   following, `updateAttempt`) have no control a model would add to;
 - `addUserToRequest`, `checkIfAdmin` and `checkIfUserIsAttemptOwner` decide from one read;
 - points, league and rank in the statistics are single expressions;
 - wiring, image hosting and schema are configuration; the old room manager and
   y-socket.io are dead code;
 - compiler output, run times, logging and the shape of responses;
 - the pipe of a child's standard input (`turbodrive/executors/index.ts:48`): an error on it
   ends the process, which the other modules have as a crash.

Idealised, and to be kept in mind when reading the results:
 - a `storeUpdate` that is refused while the process lives on: the provider's writes are
   taken to succeed in the end, or to be lost with the process;
 - two starter codes of one language in one body, which the set of codes cannot hold;
 - a rating whose body names another problem than its URL;
 - a body of `updateRoom` that changes the id, the name or the description;
 - a history variable in a property names what the code does not promise: `killed`,
   `stray`, `whole`, `deaf`, `met`, `undisturbed`, `permitted` and `was` are such exceptions, and the hazards in
   `PROJECT.json` say for each what the property then does not see.

Modelled without a property: the connection that announced an awareness client keeps
it in its set when another one updates it, and takes its cursor away when it
closes (`yjs/websocket/utils.ts:71`); two calls of `createDummyAttempt` can create two
attempts of one user (`controllers/ui-challenges.ts:711`); no document says that
they must not.

Left: the composition of `CodeRunner` and `Submissions` through the verdict: a
truncated output turns a right program into a wrong submission.
