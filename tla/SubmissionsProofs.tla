------------------------- MODULE SubmissionsProofs -------------------------
(* Proofs about Submissions for any requests, users, problems and Goal.    *)
EXTENDS Submissions, FiniteSetTheorems, TLAPS

LEMMA InitType == Init => TypeOK
BY DEF Init, TypeOK, Stages

\* Every step keeps the types.
LEMMA NextType ==
    ASSUME TypeOK, [Next]_vars
    PROVE  TypeOK'
<1> USE DEF TypeOK, Stages
<1>1. ASSUME NEW r \in Requests, Submit(r)
      PROVE  TypeOK'
  BY <1>1 DEF Submit, GoTo
<1>2. ASSUME NEW r \in Requests, NEW ok \in BOOLEAN, Judge(r, ok)
      PROVE  TypeOK'
  BY <1>2 DEF Judge, GoTo
<1>3. ASSUME NEW r \in Requests, Answer(r)
      PROVE  TypeOK'
  BY <1>3 DEF Answer, GoTo
<1>4. ASSUME NEW r \in Requests, Count(r)
      PROVE  TypeOK'
  BY <1>4 DEF Count, GoTo
<1>5. ASSUME NEW r \in Requests, Award(r)
      PROVE  TypeOK'
  BY <1>5 DEF Award, GoTo
<1>6. ASSUME NEW r \in Requests, Create(r)
      PROVE  TypeOK'
  BY <1>6 DEF Create, GoTo
<1>7. ASSUME NEW r \in Requests, CheckTutorial(r)
      PROVE  TypeOK'
  BY <1>7 DEF CheckTutorial, GoTo
<1>8. ASSUME NEW r \in Requests, Graduate(r)
      PROVE  TypeOK'
  BY <1>8 DEF Graduate, GoTo
<1>9. CASE Crash
  BY <1>9 DEF Crash, InFlight
<1>10. CASE UNCHANGED vars
  BY <1>10 DEF vars
<1>11. QED
  BY <1>1, <1>2, <1>3, <1>4, <1>5, <1>6, <1>7, <1>8, <1>9, <1>10 DEF Next

\* Type correctness, and that nothing is written before its stage.
THEOREM TypeCorrect == Spec => []TypeOK
<1>1. Init => TypeOK
  BY InitType
<1>2. TypeOK /\ [Next]_vars => TypeOK'
  BY NextType
<1>3. QED
  BY <1>1, <1>2, PTL DEF Spec

-----------------------------------------------------------------------------
(* Who is paid *)

\* SolverIsPaid is not inductive alone: a request about to create an accepted
\* row has already found, or made, the increment it relies on.
Payment ==
    /\ SolverIsPaid
    /\ \A r \in Requests : pc[r] = "creating" => Paid(r)

LEMMA NextPayment ==
    ASSUME TypeOK, TypeOK', Payment, [Next]_vars
    PROVE  Payment'
<1> USE DEF TypeOK, Payment, SolverIsPaid, Paid, Stages
<1>1. ASSUME UNCHANGED <<user, problem, accepted, created, rewarded>>,
             \A r \in Requests : pc'[r] = "creating" => pc[r] = "creating"
      PROVE  Payment'
  BY <1>1
<1>2. ASSUME NEW r \in Requests, Submit(r) \/ Answer(r) \/ CheckTutorial(r) \/ Graduate(r)
      PROVE  Payment'
  BY <1>1, <1>2 DEF Submit, Answer, CheckTutorial, Graduate, GoTo
<1>3. ASSUME NEW r \in Requests, NEW ok \in BOOLEAN, Judge(r, ok)
      PROVE  Payment'
  <2>1. r \notin created /\ \A s \in created : accepted'[s] = accepted[s]
    BY <1>3 DEF Judge
  <2>2. QED
    BY <1>3, <2>1 DEF Judge, GoTo
<1>4. ASSUME NEW r \in Requests, Count(r)
      PROVE  Payment'
  <2>1. CASE AcceptedOf(user[r], problem[r]) = {}
    BY <1>1, <1>4, <2>1 DEF Count, GoTo
  <2>2. CASE AcceptedOf(user[r], problem[r]) # {}
    <3>1. Paid(r)
      BY <2>2 DEF AcceptedOf
    <3>2. QED
      BY <1>4, <3>1 DEF Count, GoTo
  <2>3. QED
    BY <2>1, <2>2
<1>5. ASSUME NEW r \in Requests, Award(r)
      PROVE  Payment'
  BY <1>5 DEF Award, GoTo
<1>6. ASSUME NEW r \in Requests, Create(r)
      PROVE  Payment'
  BY <1>6 DEF Create, GoTo
<1>7. CASE Crash
  BY <1>1, <1>7 DEF Crash, InFlight
<1>8. CASE UNCHANGED vars
  BY <1>1, <1>8 DEF vars
<1>9. QED
  BY <1>2, <1>3, <1>4, <1>5, <1>6, <1>7, <1>8 DEF Next

\* Whoever has an accepted submission was paid for that problem, whatever the
\* number of concurrent requests and wherever the process died.
THEOREM SolverAlwaysPaid == Spec => []SolverIsPaid
<1>1. Init => TypeOK /\ Payment
  BY InitType DEF Init, Payment, SolverIsPaid
<1>2. (TypeOK /\ Payment) /\ [Next]_vars => (TypeOK /\ Payment)'
  BY NextType, NextPayment
<1>3. Payment => SolverIsPaid
  BY DEF Payment
<1>4. QED
  BY <1>1, <1>2, <1>3, PTL DEF Spec

-----------------------------------------------------------------------------
(* Who leaves the tutorial *)

\* A request about to graduate its user has counted the whole tutorial.
Graduation ==
    /\ NoEarlyGraduation
    /\ \A r \in Requests : pc[r] = "graduating" => TutorialsSolved(user[r]) = Tutorial

\* Rows are only added, and the rows there are stay as they were.
LEMMA SolvedGrows ==
    ASSUME TypeOK, [Next]_vars, NEW u
    PROVE  TutorialsSolved(u) \subseteq TutorialsSolved(u)'
<1>1. \A r \in created : /\ r \in created' /\ accepted'[r] = accepted[r]
                         /\ user'[r] = user[r] /\ problem'[r] = problem[r]
  <2> USE DEF TypeOK
  <2>1. ASSUME NEW r \in Requests, NEW ok \in BOOLEAN, Judge(r, ok)
        PROVE  /\ created' = created /\ user' = user /\ problem' = problem
               /\ \A s \in created : accepted'[s] = accepted[s]
    BY <2>1 DEF Judge
  <2>2. ASSUME NEW r \in Requests, Create(r)
        PROVE  /\ created \subseteq created'
               /\ UNCHANGED <<user, problem, accepted>>
    BY <2>2 DEF Create
  <2>3. ASSUME NEW r \in Requests, \/ Submit(r) \/ Answer(r) \/ Count(r) \/ Award(r)
                                   \/ CheckTutorial(r) \/ Graduate(r)
        PROVE  UNCHANGED <<user, problem, accepted, created>>
    BY <2>3 DEF Submit, Answer, Count, Award, CheckTutorial, Graduate
  <2>4. CASE Crash \/ UNCHANGED vars
    BY <2>4 DEF Crash, vars
  <2>5. QED
    BY <2>1, <2>2, <2>3, <2>4 DEF Next
<1>2. QED
  BY <1>1 DEF TutorialsSolved, AcceptedOf

LEMMA NextGraduation ==
    ASSUME SubmissionsAssumption, Goal = Cardinality(Tutorial),
           TypeOK, Graduation, [Next]_vars
    PROVE  Graduation'
<1>1. \A u : TutorialsSolved(u) = Tutorial => TutorialsSolved(u)' = Tutorial
  BY SolvedGrows DEF TutorialsSolved
<1>2. ASSUME \A r \in Requests : pc'[r] = "graduating" => pc[r] = "graduating",
             UNCHANGED <<user, isNoob>>
      PROVE  Graduation'
  BY <1>1, <1>2 DEF Graduation, NoEarlyGraduation
<1>3. ASSUME NEW r \in Requests, NEW ok \in BOOLEAN, Judge(r, ok)
      PROVE  Graduation'
  BY <1>2, <1>3 DEF Judge, GoTo, TypeOK
<1>4. ASSUME NEW r \in Requests, \/ Submit(r) \/ Answer(r) \/ Count(r)
                                 \/ Award(r) \/ Create(r)
      PROVE  Graduation'
  BY <1>2, <1>4 DEF Submit, Answer, Count, Award, Create, GoTo, TypeOK
<1>5. ASSUME NEW r \in Requests, CheckTutorial(r)
      PROVE  Graduation'
  <2>1. CASE Cardinality(TutorialsSolved(user[r])) = Goal
    <3>1. TutorialsSolved(user[r]) \subseteq Tutorial
      BY DEF TutorialsSolved
    <3>2. TutorialsSolved(user[r]) = Tutorial
      BY <2>1, <3>1, FS_Subset DEF SubmissionsAssumption
    <3>3. QED
      BY <1>1, <1>5, <3>2 DEF CheckTutorial, GoTo, TypeOK, Graduation, NoEarlyGraduation
  <2>2. CASE Cardinality(TutorialsSolved(user[r])) # Goal
    BY <1>2, <1>5, <2>2 DEF CheckTutorial, GoTo, TypeOK
  <2>3. QED
    BY <2>1, <2>2
<1>6. ASSUME NEW r \in Requests, Graduate(r)
      PROVE  Graduation'
  BY <1>1, <1>6 DEF Graduate, GoTo, TypeOK, Graduation, NoEarlyGraduation
<1>7. CASE Crash
  BY <1>2, <1>7 DEF Crash, InFlight, TypeOK
<1>8. CASE UNCHANGED vars
  BY <1>2, <1>8 DEF vars
<1>9. QED
  BY <1>3, <1>4, <1>5, <1>6, <1>7, <1>8 DEF Next

\* When the tutorial has exactly Goal problems, only users who solved all of
\* them leave it.
THEOREM GraduatesAreComplete ==
    ASSUME Goal = Cardinality(Tutorial)
    PROVE  Spec => []NoEarlyGraduation
<1>1. Init => TypeOK /\ Graduation
  BY InitType DEF Init, Graduation, NoEarlyGraduation
<1>2. (TypeOK /\ Graduation) /\ [Next]_vars => (TypeOK /\ Graduation)'
  BY NextType, NextGraduation, SubmissionsAssumption
<1>3. Graduation => NoEarlyGraduation
  BY DEF Graduation
<1>4. QED
  BY <1>1, <1>2, <1>3, PTL DEF Spec

-----------------------------------------------------------------------------
(* Nobody is left in the tutorial *)

\* A noob who has solved the tutorial has a request that will still check, or
\* is about to graduate them, or has died; and a request that takes its user
\* for graduated is right.
Completion ==
    /\ \A u \in Users : isNoob[u] /\ TutorialsSolved(u) = Tutorial =>
         \E r \in Requests : user[r] = u /\ pc[r] \in {"checking", "graduating", "failed"}
    /\ \A r \in Requests : ~wasNoob[r] => ~isNoob[user[r]]

LEMMA InitCompletion ==
    ASSUME Tutorial # {}, Init
    PROVE  Completion
<1>1. \A u : TutorialsSolved(u) = {}
  BY DEF Init, TutorialsSolved, AcceptedOf
<1>2. QED
  BY <1>1 DEF Init, Completion

LEMMA NextCompletion ==
    ASSUME SubmissionsAssumption, Goal = Cardinality(Tutorial),
           TypeOK, Completion, [Next]_vars
    PROVE  Completion'
<1>1. ASSUME \A r \in Requests : pc[r] \in {"checking", "graduating", "failed"}
                                   => pc'[r] = pc[r],
             UNCHANGED <<user, wasNoob, isNoob, created>>,
             \A r \in created : accepted'[r] = accepted[r],
             problem' = problem
      PROVE  Completion'
  <2>1. \A u : TutorialsSolved(u)' = TutorialsSolved(u)
    BY <1>1 DEF TutorialsSolved, AcceptedOf
  <2>2. QED
    BY <1>1, <2>1 DEF Completion
<1>2. ASSUME NEW r \in Requests, NEW ok \in BOOLEAN, Judge(r, ok)
      PROVE  Completion'
  BY <1>1, <1>2 DEF Judge, GoTo, TypeOK
<1>3. ASSUME NEW r \in Requests, Answer(r) \/ Count(r) \/ Award(r)
      PROVE  Completion'
  BY <1>1, <1>3 DEF Answer, Count, Award, GoTo, TypeOK
<1>4. ASSUME NEW r \in Requests, Submit(r)
      PROVE  Completion'
  <2>1. \A u : TutorialsSolved(u)' = TutorialsSolved(u)
    BY <1>4 DEF Submit, TutorialsSolved, AcceptedOf
  <2>2. /\ pc[r] = "idle" /\ \A s \in Requests : s # r => pc'[s] = pc[s]
        /\ \A s \in Requests : wasNoob'[s] = IF s = r THEN isNoob[user[r]] ELSE wasNoob[s]
        /\ UNCHANGED <<user, isNoob>>
    BY <1>4 DEF Submit, GoTo, TypeOK
  <2>3. QED
    BY <2>1, <2>2 DEF Completion
<1>5. ASSUME NEW r \in Requests, Create(r)
      PROVE  Completion'
  <2>1. /\ \A s \in Requests : pc[s] \in {"checking", "graduating", "failed"}
             => pc'[s] = pc[s]
        /\ wasNoob[r] => pc'[r] = "checking"
        /\ UNCHANGED <<user, wasNoob, isNoob>>
    BY <1>5 DEF Create, GoTo, TypeOK
  <2>2. \A u \in Users : u # user[r] => TutorialsSolved(u)' = TutorialsSolved(u)
    BY <1>5 DEF Create, TutorialsSolved, AcceptedOf
  <2>3. QED
    BY <2>1, <2>2 DEF Completion
<1>6. ASSUME NEW r \in Requests, CheckTutorial(r)
      PROVE  Completion'
  <2>1. \A u : TutorialsSolved(u)' = TutorialsSolved(u)
    BY <1>6 DEF CheckTutorial, TutorialsSolved, AcceptedOf
  <2>2. /\ \A s \in Requests : s # r => pc'[s] = pc[s]
        /\ TutorialsSolved(user[r]) = Tutorial => pc'[r] = "graduating"
        /\ UNCHANGED <<user, wasNoob, isNoob>>
    BY <1>6 DEF CheckTutorial, GoTo, TypeOK
  <2>3. QED
    BY <2>1, <2>2 DEF Completion
<1>7. ASSUME NEW r \in Requests, Graduate(r)
      PROVE  Completion'
  <2>1. \A u : TutorialsSolved(u)' = TutorialsSolved(u)
    BY <1>7 DEF Graduate, TutorialsSolved, AcceptedOf
  <2>2. /\ \A s \in Requests : s # r => pc'[s] = pc[s]
        /\ \A u \in Users : isNoob'[u] = IF u = user[r] THEN FALSE ELSE isNoob[u]
        /\ UNCHANGED <<user, wasNoob>>
    BY <1>7 DEF Graduate, GoTo, TypeOK
  <2>3. ASSUME NEW u \in Users, isNoob'[u], TutorialsSolved(u)' = Tutorial
        PROVE  \E s \in Requests :
                 user'[s] = u /\ pc'[s] \in {"checking", "graduating", "failed"}
    <3>1. u # user[r] /\ isNoob[u]
      BY <2>2, <2>3
    <3>2. PICK s \in Requests : user[s] = u /\ pc[s] \in {"checking", "graduating", "failed"}
      BY <2>1, <2>3, <3>1 DEF Completion
    <3>3. s # r
      BY <3>1, <3>2
    <3>4. QED
      BY <2>2, <3>2, <3>3
  <2>4. ASSUME NEW s \in Requests, ~wasNoob'[s] PROVE ~isNoob'[user'[s]]
    <3>1. user[s] \in Users /\ ~isNoob[user[s]]
      BY <2>2, <2>4 DEF Completion, TypeOK
    <3>2. QED
      BY <2>2, <3>1
  <2>5. QED
    BY <2>3, <2>4 DEF Completion
<1>8. CASE Crash
  <2>1. \A u : TutorialsSolved(u)' = TutorialsSolved(u)
    BY <1>8 DEF Crash, TutorialsSolved, AcceptedOf
  <2>2. /\ \A s \in Requests : pc[s] \in {"checking", "graduating", "failed"}
             => pc'[s] = "failed"
        /\ UNCHANGED <<user, wasNoob, isNoob>>
    BY <1>8 DEF Crash, InFlight
  <2>3. QED
    BY <2>1, <2>2 DEF Completion
<1>9. CASE UNCHANGED vars
  BY <1>1, <1>9 DEF vars
<1>10. QED
  BY <1>2, <1>3, <1>4, <1>5, <1>6, <1>7, <1>8, <1>9 DEF Next

\* A user who has solved the whole tutorial, of exactly Goal problems, has left
\* it when all of their requests are answered.
THEOREM CompletionGraduates ==
    ASSUME Goal = Cardinality(Tutorial), Tutorial # {}
    PROVE  Spec => []GraduatesOnCompletion
<1>1. Init => TypeOK /\ Completion
  BY InitType, InitCompletion
<1>2. (TypeOK /\ Completion) /\ [Next]_vars => (TypeOK /\ Completion)'
  BY NextType, NextCompletion, SubmissionsAssumption
<1>3. TypeOK /\ Completion => GraduatesOnCompletion
  BY DEF Completion, GraduatesOnCompletion, TypeOK
<1>4. QED
  BY <1>1, <1>2, <1>3, PTL DEF Spec

=============================================================================
