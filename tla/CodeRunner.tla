----------------------------- MODULE CodeRunner -----------------------------
(***************************************************************************)
(* One call of execCode: turbodrive/index.ts with its compilers and        *)
(* executors, and the judge that awaits it in routes/runCode.ts.  The      *)
(* source is written to a directory of its own and compiled, one child     *)
(* process runs per input, and when every run has settled the outputs are  *)
(* judged.  Calls share nothing, so one is enough.                         *)
(*                                                                         *)
(* A child writes its output into a pipe; the runner reads it in "data"    *)
(* events, which Node delivers independently of the "exit" event.  What    *)
(* follows the last settled run is promise jobs only: no event comes in    *)
(* between, so it is part of the action that settles that run.             *)
(***************************************************************************)
EXTENDS Naturals, FiniteSets

CONSTANTS
    Inputs,         \* the inputs of the test cases
    MaxChunks       \* bound on the chunks of output a child writes

ASSUME RunnerAssumption ==
    /\ Inputs # {} /\ IsFiniteSet(Inputs)
    /\ MaxChunks \in Nat

VARIABLES
    stage,      \* where execCode is
    lang,       \* req.body.lang
    child,      \* child[i]: none, running, or how the process ended
    timedOut,   \* the inputs whose child was ended by the timeout's signal
    deaf,       \* those whose child has been sent the signal and went on
    wrote,      \* wrote[i]: chunks the child has written to stdout
    stdout,     \* stdout[i]: chunks appended to result.stdout
    run,        \* run[i]: pending, rejected, or the errorType it resolved with
    judged      \* judged[i]: chunks of stdout verifyOutput saw

vars == <<stage, lang, child, timedOut, deaf, wrote, stdout, run, judged>>

Langs      == {"js", "py", "java", "cpp", "unknown"}
Endings    == {"zero", "nonzero", "143", "SIGTERM", "SIGSEGV", "signal"}
ErrorTypes == {"null", "run-time", "run-timeout", "segmentation-error", "compile-time"}
Stages     == {"writing", "compiling", "running", "answered", "hung"}

\* Mutant of ErrorType: the jvm's exit code is not looked at.
ErrorTypeOfSignal(l, how) ==
    IF how = "zero" THEN "null"
    ELSE IF how = "SIGTERM" THEN "run-timeout"
    ELSE IF how = "SIGSEGV" THEN "segmentation-error"
    ELSE "run-time"

\* errorType in the "exit" listener; a jvm that is terminated exits with 143.
ErrorType(l, how) ==
    IF how = "zero" THEN "null"
    ELSE IF how = "SIGTERM" \/ (how = "143" /\ l = "java") THEN "run-timeout"
    ELSE IF how = "SIGSEGV" THEN "segmentation-error"
    ELSE "run-time"

Exited(i) == child[i] \in Endings

Init ==
    /\ stage = "writing"
    /\ lang \in Langs
    /\ child = [i \in Inputs |-> "none"]
    /\ timedOut = {}
    /\ deaf = {}
    /\ wrote = [i \in Inputs |-> 0]
    /\ stdout = [i \in Inputs |-> 0]
    /\ run = [i \in Inputs |-> "pending"]
    /\ judged = [i \in Inputs |-> 0]

\* inputs.map(execute): all children are spawned at once, those of F in vain
\* ("error" is emitted later); for an unknown language every run rejects and
\* the judge sees no output.
Spawn(F) ==
    IF lang = "unknown"
      THEN /\ run' = [i \in Inputs |-> "rejected"]
           /\ stage' = "answered"
           /\ UNCHANGED child
      ELSE /\ child' = [i \in Inputs |-> IF i \in F THEN "none" ELSE "running"]
           /\ stage' = "running"
           /\ UNCHANGED run

\* writeSourceFile; its failure is caught and logged, and the promise that
\* the request awaits is never settled.
WriteSource ==
    /\ stage = "writing"
    /\ \/ /\ stage' = "hung"
          /\ UNCHANGED <<child, run>>
       \/ /\ lang \in {"java", "cpp", "unknown"}
          /\ stage' = "compiling"
          /\ UNCHANGED <<child, run>>
       \/ /\ lang \in {"js", "py"}
          /\ \E F \in SUBSET Inputs : Spawn(F)
    /\ UNCHANGED <<lang, timedOut, deaf, wrote, stdout, judged>>

\* compileJava, compileCpp: everything that is not java is compiled as C++.
Compile ==
    /\ stage = "compiling"
    /\ \/ /\ run' = [i \in Inputs |-> "compile-time"]
          /\ stage' = "answered"
          /\ UNCHANGED child
       \/ \E F \in SUBSET Inputs : Spawn(F)
    /\ UNCHANGED <<lang, timedOut, deaf, wrote, stdout, judged>>

\* The child writes a chunk of output.
Write(i) ==
    /\ child[i] = "running"
    /\ wrote[i] < MaxChunks
    /\ wrote' = [wrote EXCEPT ![i] = @ + 1]
    /\ UNCHANGED <<stage, lang, child, timedOut, deaf, stdout, run, judged>>

\* The child ends by itself, well or not, and with whatever exit code or signal;
\* also after the timeout, if it has handled its signal.
Finish(i, how) ==
    /\ child[i] = "running"
    /\ child' = [child EXCEPT ![i] = how]
    /\ UNCHANGED <<stage, lang, timedOut, deaf, wrote, stdout, run, judged>>

\* spawn's timeout sends SIGTERM, once.  It ends a program that leaves the signal
\* alone, and a jvm then exits in an orderly way; any program may handle or
\* ignore it and go on.
Timeout(i) ==
    /\ child[i] = "running"
    /\ i \notin deaf
    /\ \/ /\ child' = [child EXCEPT ![i] = IF lang = "java" THEN "143" ELSE "SIGTERM"]
          /\ timedOut' = timedOut \cup {i}
          /\ UNCHANGED deaf
       \/ /\ deaf' = deaf \cup {i}
          /\ UNCHANGED <<child, timedOut>>
    /\ UNCHANGED <<stage, lang, wrote, stdout, run, judged>>

\* Mutant of OnData: the listener is registered twice.
OnDataTwice(i) ==
    /\ stdout[i] < wrote[i]
    /\ stdout' = [stdout EXCEPT ![i] = @ + 2]
    /\ UNCHANGED <<stage, lang, child, timedOut, deaf, wrote, run, judged>>

\* stdout "data": also after "exit", into the object that was resolved.
OnData(i) ==
    /\ stdout[i] < wrote[i]
    /\ stdout' = [stdout EXCEPT ![i] = @ + 1]
    /\ UNCHANGED <<stage, lang, child, timedOut, deaf, wrote, run, judged>>

\* Mutant of Settle: the first settled run answers.
SettleFirst(i, how) ==
    /\ run' = [run EXCEPT ![i] = how]
    /\ stage' = "answered"
    /\ judged' = stdout

\* A run settles; with the last one Promise.allSettled resolves, and the
\* results are judged by the output they hold at that moment (none, for a
\* run that was rejected).
Settle(i, how) ==
    /\ run' = [run EXCEPT ![i] = how]
    /\ IF \A j \in Inputs \ {i} : run[j] # "pending"
         THEN /\ stage' = "answered"
              /\ judged' = [j \in Inputs |-> IF run'[j] = "rejected" THEN 0 ELSE stdout[j]]
         ELSE UNCHANGED <<stage, judged>>

\* The "exit" listener.
OnExit(i) ==
    /\ Exited(i) /\ run[i] = "pending"
    /\ Settle(i, ErrorType(lang, child[i]))
    /\ UNCHANGED <<lang, child, timedOut, deaf, wrote, stdout>>

\* Mutant of OnError: the "error" event is logged only.
OnErrorIgnored(i) == stage = "running" /\ child[i] = "none" /\ UNCHANGED vars

\* The "error" listener: the child could not be spawned.
OnError(i) ==
    /\ stage = "running" /\ child[i] = "none" /\ run[i] = "pending"
    /\ Settle(i, "rejected")
    /\ UNCHANGED <<lang, child, timedOut, deaf, wrote, stdout>>

Next ==
    \/ WriteSource
    \/ Compile
    \/ \E i \in Inputs :
         \/ Write(i) \/ Timeout(i) \/ OnData(i) \/ OnExit(i) \/ OnError(i)
         \/ \E how \in Endings : Finish(i, how)

Spec == Init /\ [][Next]_vars

\* The timeout fires, and Node delivers its events.  That a compiler or a child
\* ends is not assumed.
Fairness ==
    \A i \in Inputs : WF_vars(Timeout(i)) /\ WF_vars(OnExit(i)) /\ WF_vars(OnError(i))

FairSpec == Spec /\ Fairness

-----------------------------------------------------------------------------
(* Properties *)

\* Types; nothing is read from a pipe that was not written to it.
TypeOK ==
    /\ stage \in Stages
    /\ lang \in Langs
    /\ child \in [Inputs -> {"none", "running"} \cup Endings]
    /\ timedOut \subseteq Inputs /\ deaf \subseteq Inputs
    /\ wrote \in [Inputs -> 0..MaxChunks]
    /\ stdout \in [Inputs -> 0..MaxChunks]
    /\ \A i \in Inputs : stdout[i] <= wrote[i]
    /\ run \in [Inputs -> {"pending", "rejected"} \cup ErrorTypes]
    /\ judged \in [Inputs -> 0..MaxChunks]

\* Whoever is answered left no process behind, and no verdict is given on a
\* run that has not settled (Promise.allSettled in execCode).
NoOrphans ==
    stage = "answered" =>
        \A i \in Inputs : child[i] # "running" /\ run[i] # "pending"

\* A program that the timeout's signal has ended is reported as out of time, in
\* every language: "run-timeout" is what the tests expect of infinite loops.
TimeoutIsReported ==
    \A i \in timedOut : stage = "answered" => run[i] = "run-timeout"

\* Once the children are running, the request is answered, whichever of them
\* fails to start, crashes or runs out of time.  There is one way to keep it
\* waiting: a program that goes on after SIGTERM, for nothing else is sent to it.
RunIsAnswered ==
    (stage = "running")
      ~> (stage = "answered" \/ \E i \in deaf : child[i] = "running")

\* "stdout: hello world" (test/main.test.ts): a run that ends well is judged
\* by everything the program wrote.
VerdictSeesWholeOutput ==
    \A i \in Inputs :
        stage = "answered" /\ child[i] = "zero" => judged[i] = wrote[i]

=============================================================================
