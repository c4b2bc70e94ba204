-------------------------- MODULE CodeRunnerProofs --------------------------
(* Proofs about CodeRunner for any inputs and any amount of output.        *)
EXTENDS CodeRunner, TLAPS

LEMMA ErrorTypeIsOne ==
    ASSUME NEW l, NEW how
    PROVE  ErrorType(l, how) \in ErrorTypes \ {"compile-time"}
BY DEF ErrorType, ErrorTypes

\* Settling a run keeps the types of what it writes.
LEMMA SettleType ==
    ASSUME TypeOK, NEW i \in Inputs, NEW how \in {"rejected"} \cup ErrorTypes, Settle(i, how)
    PROVE  /\ stage' \in Stages
           /\ run' \in [Inputs -> {"pending", "rejected"} \cup ErrorTypes]
           /\ judged' \in [Inputs -> 0..MaxChunks]
BY RunnerAssumption DEF Settle, TypeOK, Stages

LEMMA NextType ==
    ASSUME TypeOK, [Next]_vars
    PROVE  TypeOK'
<1> USE RunnerAssumption DEF TypeOK, Stages, Endings, ErrorTypes
<1>1. ASSUME NEW F \in SUBSET Inputs, Spawn(F)
      PROVE  /\ child' \in [Inputs -> {"none", "running"} \cup Endings]
             /\ run' \in [Inputs -> {"pending", "rejected"} \cup ErrorTypes]
             /\ stage' \in Stages
  BY <1>1 DEF Spawn
<1>2. CASE WriteSource
  BY <1>1, <1>2 DEF WriteSource
<1>3. CASE Compile
  BY <1>1, <1>3 DEF Compile
<1>4. ASSUME NEW i \in Inputs, Write(i)
      PROVE  TypeOK'
  BY <1>4 DEF Write
<1>5. ASSUME NEW i \in Inputs, Timeout(i)
      PROVE  TypeOK'
  BY <1>5 DEF Timeout
<1>6. ASSUME NEW i \in Inputs, OnData(i)
      PROVE  TypeOK'
  BY <1>6 DEF OnData
<1>7. ASSUME NEW i \in Inputs, OnExit(i)
      PROVE  TypeOK'
  BY <1>7, SettleType, ErrorTypeIsOne DEF OnExit
<1>8. ASSUME NEW i \in Inputs, OnError(i)
      PROVE  TypeOK'
  BY <1>8, SettleType DEF OnError
<1>9. ASSUME NEW i \in Inputs, NEW how \in Endings, Finish(i, how)
      PROVE  TypeOK'
  BY <1>9 DEF Finish
<1>10. CASE UNCHANGED vars
  BY <1>10 DEF vars
<1>11. QED
  BY <1>2, <1>3, <1>4, <1>5, <1>6, <1>7, <1>8, <1>9, <1>10 DEF Next

LEMMA InitType == Init => TypeOK
BY RunnerAssumption DEF Init, TypeOK, Stages, Endings, ErrorTypes

\* Type correctness; stdout never holds more than was written.
THEOREM TypeCorrect == Spec => []TypeOK
<1>1. TypeOK /\ [Next]_vars => TypeOK'
  BY NextType
<1>2. QED
  BY InitType, <1>1, PTL DEF Spec

-----------------------------------------------------------------------------
(* What an answer says about the children *)

\* The inductive invariant: children run only while execCode waits for them,
\* a settled run has no running child, and reports how its child ended.
Settled ==
    /\ stage \in {"writing", "compiling", "hung"} =>
         \A i \in Inputs : child[i] = "none" /\ run[i] = "pending"
    /\ \A i \in Inputs : run[i] # "pending" => child[i] # "running"
    /\ stage = "answered" => \A i \in Inputs : run[i] # "pending"
    /\ \A i \in timedOut :
         /\ child[i] = "SIGTERM" \/ (child[i] = "143" /\ lang = "java")
         /\ run[i] \in {"pending", "run-timeout"}

LEMMA SettledGivesBoth == TypeOK /\ Settled => NoOrphans /\ TimeoutIsReported
BY DEF TypeOK, Settled, NoOrphans, TimeoutIsReported

\* Spawning leaves every child none or running, and nothing settled unless
\* the language is unknown.
LEMMA SpawnSettled ==
    ASSUME TypeOK, Settled, NEW F \in SUBSET Inputs, Spawn(F),
           stage \in {"writing", "compiling"}, UNCHANGED <<lang, timedOut>>
    PROVE  Settled'
BY DEF TypeOK, Settled, Spawn

\* Settling the run of a child that is not running.
LEMMA SettleSettled ==
    ASSUME TypeOK, Settled, NEW i \in Inputs, NEW how \in {"rejected"} \cup ErrorTypes,
           Settle(i, how), child[i] # "running", stage = "running",
           i \in timedOut => how = "run-timeout", UNCHANGED <<lang, child, timedOut>>
    PROVE  Settled'
<1>1. run' = [run EXCEPT ![i] = how] /\ how # "pending"
  BY DEF Settle, ErrorTypes
<1>2. \A j \in Inputs : run'[j] # "pending" => child'[j] # "running"
  BY <1>1 DEF TypeOK, Settled
<1>3. stage' = "answered" => \A j \in Inputs : run'[j] # "pending"
  BY <1>1 DEF Settle, TypeOK
<1>4. stage' \notin {"writing", "compiling", "hung"}
  BY DEF Settle
<1>5. QED
  BY <1>1, <1>2, <1>3, <1>4 DEF Settled, TypeOK

LEMMA NextSettled ==
    ASSUME TypeOK, Settled, [Next]_vars
    PROVE  Settled'
<1>1. CASE WriteSource
  <2>1. CASE \E F \in SUBSET Inputs : Spawn(F)
    BY <1>1, <2>1, SpawnSettled DEF WriteSource
  <2>2. CASE stage' \in {"hung", "compiling"} /\ UNCHANGED <<child, run>>
    BY <1>1, <2>2 DEF WriteSource, Settled, TypeOK
  <2>3. QED
    BY <1>1, <2>1, <2>2 DEF WriteSource
<1>2. CASE Compile
  <2>1. CASE \E F \in SUBSET Inputs : Spawn(F)
    BY <1>2, <2>1, SpawnSettled DEF Compile
  <2>2. CASE /\ run' = [i \in Inputs |-> "compile-time"]
             /\ stage' = "answered"
             /\ UNCHANGED child
    BY <1>2, <2>2 DEF Compile, Settled, TypeOK
  <2>3. QED
    BY <1>2, <2>1, <2>2 DEF Compile
<1>3. ASSUME NEW i \in Inputs, Write(i)
      PROVE  Settled'
  BY <1>3 DEF Write, Settled
<1>4. ASSUME NEW i \in Inputs, Timeout(i)
      PROVE  Settled'
  BY <1>4 DEF Timeout, Settled, TypeOK
<1>5. ASSUME NEW i \in Inputs, OnData(i)
      PROVE  Settled'
  BY <1>5 DEF OnData, Settled
<1>6. ASSUME NEW i \in Inputs, OnExit(i)
      PROVE  Settled'
  <2>1. child[i] # "running" /\ run[i] = "pending"
    BY <1>6 DEF OnExit, Exited, Endings
  <2>2. stage = "running"
    BY <1>6, <2>1 DEF Settled, TypeOK, Stages, OnExit, Exited, Endings
  <2>3. i \in timedOut => ErrorType(lang, child[i]) = "run-timeout"
    BY DEF Settled, ErrorType
  <2>4. QED
    BY <1>6, <2>1, <2>2, <2>3, SettleSettled, ErrorTypeIsOne DEF OnExit
<1>7. ASSUME NEW i \in Inputs, OnError(i)
      PROVE  Settled'
  <2>1. i \notin timedOut
    BY <1>7 DEF OnError, Settled
  <2>2. QED
    BY <1>7, <2>1, SettleSettled DEF OnError
<1>8. ASSUME NEW i \in Inputs, NEW how \in Endings, Finish(i, how)
      PROVE  Settled'
  BY <1>8 DEF Finish, Settled, TypeOK
<1>9. CASE UNCHANGED vars
  BY <1>9 DEF vars, Settled
<1>10. QED
  BY <1>1, <1>2, <1>3, <1>4, <1>5, <1>6, <1>7, <1>8, <1>9 DEF Next

LEMMA InitSettled == Init => Settled
BY DEF Init, Settled

LEMMA AlwaysSettled == Spec => []Settled
<1>1. TypeOK /\ Settled /\ [Next]_vars => Settled'
  BY NextSettled
<1>2. QED
  BY InitSettled, TypeCorrect, <1>1, PTL DEF Spec

\* No process outlives the answer, and no answer precedes a run.
THEOREM AnswerLeavesNoOrphans == Spec => []NoOrphans
BY TypeCorrect, AlwaysSettled, SettledGivesBoth, PTL

\* A child killed by the timeout is reported as timed out, in every language.
THEOREM TimeoutsReported == Spec => []TimeoutIsReported
BY TypeCorrect, AlwaysSettled, SettledGivesBoth, PTL
=============================================================================
