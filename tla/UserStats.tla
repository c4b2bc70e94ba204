------------------------------ MODULE UserStats ------------------------------
(***************************************************************************)
(* The statistics on a user's page: getUserStats in controllers/user.ts.   *)
(* It reads the user's submissions twice, the newest of each problem and   *)
(* then all of them, while the user goes on submitting.  Only the days of  *)
(* the time stamps matter.  Points, league and rank are left out.          *)
(***************************************************************************)
EXTENDS Integers, Sequences, SequencesExt, FiniteSets

CONSTANTS
    Verdicts,   \* what a submission can be: problem, in an exam, accepted
    Days,       \* bound on the days that pass
    MaxSubs     \* bound on the submissions

ASSUME UserStatsAssumption ==
    /\ Days \in Nat \ {0} /\ MaxSubs \in Nat
    /\ \A v \in Verdicts : v.exam \in BOOLEAN /\ v.accepted \in BOOLEAN

VARIABLES
    subs,       \* the user's submissions, the oldest first
    today,
    stats       \* a request: its stage, what it has read first, its answer

userStatsVars == <<subs, today, stats>>

MinusInfinity == -1   \* JavaScript's maximum of no numbers

-----------------------------------------------------------------------------
(* What is computed *)

\* One round of the reduce over the submissions, the newest first: days and
\* the number of submissions on each.
AddToDay(days, sub) ==
    IF days # <<>> /\ Last(days).date = sub.day
    THEN [days EXCEPT ![Len(days)].count = @ + 1]
    ELSE Append(days, [date |-> sub.day, count |-> 1, exam |-> sub.exam])

DailySubmissions(list) == FoldRight(LAMBDA sub, days : AddToDay(days, sub), list, <<>>)

\* A streak that is over is kept if it is longer than a day.
Close(streaks, current) ==
    IF Len(current) > 1 THEN Append(streaks, current) ELSE streaks

\* One round of the loop: a day goes on with the current streak, which ends
\* with the day after it, or starts another.
AddDate(acc, day) ==
    IF acc.current # <<>> /\ Last(acc.current).date - day.date = 1
    THEN [acc EXCEPT !.current = Append(@, day)]
    ELSE [streaks |-> Close(acc.streaks, acc.current), current |-> <<day>>]

\* Mutant of CalculateStreaks: the last streak is not checked.
CalculateStreaksUnfinished(days) ==
    FoldLeft(AddDate, [streaks |-> <<>>, current |-> <<>>], days).streaks

CalculateStreaks(days) ==
    LET acc == FoldLeft(AddDate, [streaks |-> <<>>, current |-> <<>>], days)
    IN Close(acc.streaks, acc.current)

LongestStreak(streaks) ==
    IF streaks = <<>> THEN MinusInfinity
    ELSE CHOOSE n \in {Len(streaks[i]) : i \in DOMAIN streaks} :
           \A i \in DOMAIN streaks : Len(streaks[i]) <= n

\* The last day of the last streak, the oldest of both, is today.
StreakActive(streaks) == streaks # <<>> /\ Last(Last(streaks)).date = today

\* Mutant of Distinct: the oldest submission of each problem.
DistinctOldest(list) ==
    {list[i] : i \in {j \in DOMAIN list :
       \A k \in 1..(j - 1) : list[k].problem # list[j].problem}}

\* distinct, orderBy desc: the newest submission of each problem.
Distinct(list) ==
    {list[i] : i \in {j \in DOMAIN list :
       \A k \in (j + 1)..Len(list) : list[k].problem # list[j].problem}}

ProblemsSolved(newest) == {s.problem : s \in {t \in newest : ~t.exam /\ t.accepted}}

-----------------------------------------------------------------------------
(* The request *)

StatsIdle == [stage |-> "idle"]

UserStatsInit ==
    /\ subs = <<>>
    /\ today = 1
    /\ stats = StatsIdle

\* An answer is kept until something else happens.
Forget == IF stats.stage = "answered" THEN StatsIdle ELSE stats

\* What saveInDB of routes/runCode.ts does to the table.
StatsSubmit(v) ==
    /\ Len(subs) < MaxSubs
    /\ subs' = Append(subs, [day |-> today, problem |-> v.problem,
                             exam |-> v.exam, accepted |-> v.accepted])
    /\ stats' = Forget
    /\ UNCHANGED today

StatsDayPasses ==
    /\ today < Days
    /\ today' = today + 1
    /\ stats' = Forget
    /\ UNCHANGED subs

\* Mutant of StatsRead: one submission too many is taken for read.
StatsReadAhead ==
    /\ stats.stage = "idle"
    /\ stats' = [stage |-> "reading", upTo |-> Len(subs) + 1, newest |-> Distinct(subs)]
    /\ UNCHANGED <<subs, today>>

\* user.findFirst: the newest submission of each problem.
StatsRead ==
    /\ stats.stage = "idle"
    /\ stats' = [stage |-> "reading", upTo |-> Len(subs), newest |-> Distinct(subs)]
    /\ UNCHANGED <<subs, today>>

\* submission.findMany: all of them; the answer has something of both.
StatsAnswer ==
    /\ stats.stage = "reading"
    /\ LET daily == DailySubmissions(subs)
           streaks == CalculateStreaks(daily)
       IN stats' = [stage |-> "answered", upTo |-> stats.upTo,
                    solved |-> ProblemsSolved(stats.newest),
                    totalSubCount |-> Cardinality(stats.newest),
                    daily |-> daily, streaks |-> streaks,
                    longest |-> LongestStreak(streaks),
                    active |-> StreakActive(streaks)]
    /\ UNCHANGED <<subs, today>>

UserStatsNext ==
    \/ \E v \in Verdicts : StatsSubmit(v)
    \/ StatsDayPasses \/ StatsRead \/ StatsAnswer

UserStatsSpec == UserStatsInit /\ [][UserStatsNext]_userStatsVars

-----------------------------------------------------------------------------
(* Properties *)

UserStatsTypeOK ==
    /\ today \in 1..Days
    /\ \A i \in DOMAIN subs : subs[i].day \in 1..today
    /\ stats.stage \in {"idle", "reading", "answered"}
    /\ stats.stage # "idle" => stats.upTo \in 0..Len(subs)

DaysWithSubs == {subs[i].day : i \in DOMAIN subs}

\* Two days or more in a row, with none to add at either end.
MaximalRuns ==
    {run \in SUBSET DaysWithSubs : \E first, last \in run :
       /\ first < last /\ run = first..last
       /\ first - 1 \notin DaysWithSubs /\ last + 1 \notin DaysWithSubs}

\* The streaks of getUserStats are the longest runs of two days or more on
\* which the user has submitted, their days counted right, and the longest is
\* -Infinity if there are none.  A streak is looked for at its oldest day, so
\* it is never active.
StreakReport ==
    stats.stage = "answered" =>
      LET DatesOf(streak) == {streak[i].date : i \in DOMAIN streak}
          streaks == stats.streaks
      IN /\ {DatesOf(streaks[i]) : i \in DOMAIN streaks} = MaximalRuns
         /\ Len(streaks) = Cardinality(MaximalRuns)
         /\ \A i \in DOMAIN stats.daily :
              stats.daily[i].count =
                Cardinality({j \in DOMAIN subs : subs[j].day = stats.daily[i].date})
         /\ stats.longest \in {Cardinality(run) : run \in MaximalRuns} \cup {MinusInfinity}
         /\ \A run \in MaximalRuns : Cardinality(run) <= stats.longest
         /\ ~stats.active

\* The first query keeps the newest submission of each problem only.  A
\* problem the user has solved outside an exam counts as solved unless it was
\* submitted once more after that, in an exam or without success.
EverSolved(p) ==
    \E i \in 1..stats.upTo : subs[i].problem = p /\ subs[i].accepted /\ ~subs[i].exam

Retried(p) ==
    \E i, j \in 1..stats.upTo :
       /\ i < j /\ subs[i].problem = p /\ subs[j].problem = p
       /\ subs[i].accepted /\ ~subs[i].exam
       /\ ~subs[j].accepted \/ subs[j].exam

SolvedUnlessRetried ==
    stats.stage = "answered" =>
      /\ \A p \in stats.solved : EverSolved(p)
      /\ \A i \in 1..stats.upTo :
           EverSolved(subs[i].problem)
             => subs[i].problem \in stats.solved \/ Retried(subs[i].problem)
      /\ stats.totalSubCount = Cardinality({subs[i].problem : i \in 1..stats.upTo})
=============================================================================
