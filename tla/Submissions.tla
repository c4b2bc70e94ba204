---------------------------- MODULE Submissions ----------------------------
(***************************************************************************)
(* Judging and scoring a submission: routes/runCode.ts.  A request is      *)
(* authenticated, judged and, if it is a submission, written to the        *)
(* database by saveInDB as a series of separate queries; requests of one   *)
(* user interleave at every await.                                         *)
(*                                                                         *)
(* The Submission table is the set of requests that created their row, the *)
(* points of a user the set of requests that incremented them.             *)
(***************************************************************************)
EXTENDS Naturals, FiniteSets

CONSTANTS
    Requests,   \* POST /runCode requests
    Users,
    Problems,
    Tutorial,   \* the problems of difficulty "tutorial"
    Goal        \* how many solved tutorials end the tutorial (10 in the code)

ASSUME SubmissionsAssumption ==
    /\ Tutorial \subseteq Problems
    /\ IsFiniteSet(Tutorial)
    /\ Goal \in Nat

VARIABLES
    pc,         \* pc[r]: the query r makes next
    user,       \* user[r]: req.user.userId
    problem,    \* problem[r]: req.body.problemId
    wasNoob,    \* wasNoob[r]: req.user.isNoob, read when r was authenticated
    accepted,   \* accepted[r]: result.totalCount === result.passedCount
    created,    \* the requests whose submission is in the database
    rewarded,   \* the requests that incremented their user's points
    isNoob      \* isNoob[u]: column of the User table

vars == <<pc, user, problem, wasNoob, accepted, created, rewarded, isNoob>>

Stages == {"idle", "judging", "counting", "awarding", "creating", "checking",
           "graduating", "done", "failed"}
InFlight(r) == pc[r] \notin {"idle", "done", "failed"}

\* Mutant of AcceptedOf: the query forgets the problem.
AcceptedOfUser(u, p) == {r \in created : accepted[r] /\ user[r] = u}

\* The accepted rows of u for p.
AcceptedOf(u, p) ==
    {r \in created : accepted[r] /\ user[r] = u /\ problem[r] = p}

\* saveInDB's last query: the distinct tutorial problems u has full marks in.
TutorialsSolved(u) == {p \in Tutorial : AcceptedOf(u, p) # {}}

GoTo(r, stage) == pc' = [pc EXCEPT ![r] = stage]

Init ==
    /\ pc = [r \in Requests |-> "idle"]
    /\ user \in [Requests -> Users]
    /\ problem \in [Requests -> Problems]
    /\ wasNoob = [r \in Requests |-> TRUE]
    /\ accepted = [r \in Requests |-> FALSE]
    /\ created = {}
    /\ rewarded = {}
    /\ isNoob = [u \in Users |-> TRUE]

\* checkIfAuthenticated has put the user's row into the request.
Submit(r) ==
    /\ pc[r] = "idle"
    /\ wasNoob' = [wasNoob EXCEPT ![r] = isNoob[user[r]]]
    /\ GoTo(r, "judging")
    /\ UNCHANGED <<user, problem, accepted, created, rewarded, isNoob>>

\* evaluateResult resolves; saveInDB starts if the body asks for it.
Judge(r, ok) ==
    /\ pc[r] = "judging"
    /\ accepted' = [accepted EXCEPT ![r] = ok]
    /\ GoTo(r, "counting")
    /\ UNCHANGED <<user, problem, wasNoob, created, rewarded, isNoob>>

\* evaluateResult resolves for a run that is not submitted, or rejects.
Answer(r) ==
    /\ pc[r] = "judging"
    /\ \/ GoTo(r, "done")
       \/ GoTo(r, "failed")
    /\ UNCHANGED <<user, problem, wasNoob, accepted, created, rewarded, isNoob>>

\* prisma.submission.count of the user's accepted rows for this problem.
Count(r) ==
    /\ pc[r] = "counting"
    /\ GoTo(r, IF AcceptedOf(user[r], problem[r]) = {} THEN "awarding" ELSE "creating")
    /\ UNCHANGED <<user, problem, wasNoob, accepted, created, rewarded, isNoob>>

\* The problem's difficulty is read and the user's points are incremented.
Award(r) ==
    /\ pc[r] = "awarding"
    /\ rewarded' = rewarded \cup {r}
    /\ GoTo(r, "creating")
    /\ UNCHANGED <<user, problem, wasNoob, accepted, created, isNoob>>

\* Mutant of Create: the request does not move on.
CreateAgain(r) ==
    /\ pc[r] = "creating"
    /\ created' = created \cup {r}
    /\ UNCHANGED <<pc, user, problem, wasNoob, accepted, rewarded, isNoob>>

\* prisma.submission.create; only a noob's request goes on to the check.
Create(r) ==
    /\ pc[r] = "creating"
    /\ created' = created \cup {r}
    /\ GoTo(r, IF wasNoob[r] THEN "checking" ELSE "done")
    /\ UNCHANGED <<user, problem, wasNoob, accepted, rewarded, isNoob>>

\* Mutants of CheckTutorial: one solved tutorial too few, or too many, is asked.
CheckTutorialEarly(r) ==
    /\ pc[r] = "checking"
    /\ GoTo(r, IF Cardinality(TutorialsSolved(user[r])) + 1 = Goal
               THEN "graduating" ELSE "done")
    /\ UNCHANGED <<user, problem, wasNoob, accepted, created, rewarded, isNoob>>

CheckTutorialLate(r) ==
    /\ pc[r] = "checking"
    /\ GoTo(r, IF Cardinality(TutorialsSolved(user[r])) > Goal
               THEN "graduating" ELSE "done")
    /\ UNCHANGED <<user, problem, wasNoob, accepted, created, rewarded, isNoob>>

\* prisma.submission.findMany of the tutorials solved.
CheckTutorial(r) ==
    /\ pc[r] = "checking"
    /\ GoTo(r, IF Cardinality(TutorialsSolved(user[r])) = Goal
               THEN "graduating" ELSE "done")
    /\ UNCHANGED <<user, problem, wasNoob, accepted, created, rewarded, isNoob>>

Graduate(r) ==
    /\ pc[r] = "graduating"
    /\ isNoob' = [isNoob EXCEPT ![user[r]] = FALSE]
    /\ GoTo(r, "done")
    /\ UNCHANGED <<user, problem, wasNoob, accepted, created, rewarded>>

\* A query of saveInDB rejects: its async executor catches nothing, so the
\* process dies of the unhandled rejection, with every request in flight.
Crash ==
    /\ \E r \in Requests : InFlight(r)
    /\ pc' = [r \in Requests |-> IF InFlight(r) THEN "failed" ELSE pc[r]]
    /\ UNCHANGED <<user, problem, wasNoob, accepted, created, rewarded, isNoob>>

Next ==
    \/ \E r \in Requests :
         \/ Submit(r)
         \/ \E ok \in BOOLEAN : Judge(r, ok)
         \/ Answer(r)
         \/ Count(r) \/ Award(r) \/ Create(r)
         \/ CheckTutorial(r) \/ Graduate(r)
    \/ Crash

Spec == Init /\ [][Next]_vars

-----------------------------------------------------------------------------
(* Properties *)

\* Types, and that a row or an increment is written by a request that got
\* that far.
TypeOK ==
    /\ pc \in [Requests -> Stages]
    /\ user \in [Requests -> Users]
    /\ problem \in [Requests -> Problems]
    /\ wasNoob \in [Requests -> BOOLEAN]
    /\ accepted \in [Requests -> BOOLEAN]
    /\ created \subseteq {r \in Requests :
                            pc[r] \in {"checking", "graduating", "done", "failed"}}
    /\ rewarded \subseteq {r \in Requests :
                            pc[r] \notin {"idle", "judging", "counting", "awarding"}}
    /\ isNoob \in [Users -> BOOLEAN]

\* Some request on the user and problem of r incremented the points.
Paid(r) ==
    \E s \in rewarded : user[s] = user[r] /\ problem[s] = problem[r]

\* Every accepted submission in the database was paid for, by itself or by
\* an earlier one, however requests interleave and wherever one dies
\* (saveInDB awards before it creates).
SolverIsPaid == \A r \in created : accepted[r] => Paid(r)

\* Nobody leaves the tutorial before having solved all of it, when it has as
\* many problems as the code counts to.
NoEarlyGraduation ==
    \A u \in Users : ~isNoob[u] => TutorialsSolved(u) = Tutorial

\* A user who has solved the whole tutorial has left it once their requests
\* are answered, provided none of them died: the request that creates the
\* last missing row checks after it, with an isNoob read long before.
GraduatesOnCompletion ==
    \A u \in Users :
        (\A r \in Requests : user[r] = u => pc[r] \in {"idle", "done"})
        /\ TutorialsSolved(u) = Tutorial
        => ~isNoob[u]

\* "increment user's point if its first accepted submission" (saveInDB): of
\* several accepted ones of one user on one problem, the first only is paid
\* for.  (That wrong submissions are paid too, as the code does not look at the
\* verdict, is another matter.)
PaidOnce ==
    \A r, s \in rewarded :
        /\ user[r] = user[s] /\ problem[r] = problem[s]
        /\ accepted[r] /\ accepted[s]
        => r = s

=============================================================================
