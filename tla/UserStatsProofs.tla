---------------------------- MODULE UserStatsProofs ----------------------------
(* Proofs about UserStats for any verdicts, days and number of submissions. *)
EXTENDS UserStats, FoldTheorems, SequenceTheorems

-----------------------------------------------------------------------------
(* The folds, a round at a time *)

Sub == [day : Nat, problem : {v.problem : v \in Verdicts},
        exam : BOOLEAN, accepted : BOOLEAN]
DayOf == [date : Nat, count : Nat, exam : BOOLEAN]
Acc == [streaks : Seq(Seq(DayOf)), current : Seq(DayOf)]

LEMMA LastOf ==
    ASSUME NEW S, NEW list \in Seq(S), list # <<>>
    PROVE  /\ Len(list) \in DOMAIN list /\ DOMAIN list = 1..Len(list)
           /\ Len(list) \in Nat \ {0} /\ Last(list) = list[Len(list)] /\ Last(list) \in S
<1>1. Len(list) \in Nat /\ DOMAIN list = 1..Len(list) /\ Len(list) # 0
  BY LenProperties, EmptySeq
<1>2. Len(list) \in DOMAIN list
  BY <1>1
<1>3. list[Len(list)] \in S
  BY <1>2, ElementOfSeq, <1>1
<1>4. QED
  BY <1>1, <1>2, <1>3 DEF Last

LEMMA AddToDayType ==
    ASSUME NEW days \in Seq(DayOf), NEW sub \in Sub
    PROVE  AddToDay(days, sub) \in Seq(DayOf)
<1>1. CASE days # <<>> /\ Last(days).date = sub.day
  <2>1. Len(days) \in 1..Len(days) /\ days[Len(days)] \in DayOf
    BY <1>1, LastOf
  <2>2. [days[Len(days)] EXCEPT !.count = @ + 1] \in DayOf
    BY <2>1 DEF DayOf
  <2>3. [days EXCEPT ![Len(days)] = [days[Len(days)] EXCEPT !.count = @ + 1]] \in Seq(DayOf)
    BY <2>1, <2>2, ExceptSeq
  <2>4. QED
    BY <1>1, <2>3 DEF AddToDay
<1>2. CASE ~(days # <<>> /\ Last(days).date = sub.day)
  <2>1. [date |-> sub.day, count |-> 1, exam |-> sub.exam] \in DayOf
    BY DEF DayOf, Sub
  <2>2. QED
    BY <1>2, <2>1, AppendProperties DEF AddToDay
<1>3. QED
  BY <1>1, <1>2

LEMMA AddDateType ==
    ASSUME NEW acc \in Acc, NEW day \in DayOf
    PROVE  AddDate(acc, day) \in Acc
<1>1. acc.streaks \in Seq(Seq(DayOf)) /\ acc.current \in Seq(DayOf)
  BY DEF Acc
<1>2. Close(acc.streaks, acc.current) \in Seq(Seq(DayOf))
  BY <1>1, AppendProperties DEF Close
<1>3. <<day>> \in Seq(DayOf) /\ Append(acc.current, day) \in Seq(DayOf)
  BY <1>1, AppendProperties
<1>4. [acc EXCEPT !.current = Append(@, day)] \in Acc
  BY <1>3 DEF Acc
<1>5. [streaks |-> Close(acc.streaks, acc.current), current |-> <<day>>] \in Acc
  BY <1>2, <1>3 DEF Acc
<1>6. QED
  BY <1>4, <1>5 DEF AddDate

\* The reduce goes through the submissions from the newest to the oldest.
LEMMA DailyRounds ==
    ASSUME NEW n \in Nat, NEW list \in [1..n -> Sub]
    PROVE  \E days \in [1..(n + 1) -> Seq(DayOf)] :
             /\ days[n + 1] = <<>>
             /\ \A k \in 1..n : days[k] = AddToDay(days[k + 1], list[k])
             /\ DailySubmissions(list) = days[1]
<1> DEFINE Round(f, s) == IF s = {} THEN <<>> ELSE AddToDay(f[s \ {Min(s)}], list[Min(s)])
           Eq(f) == f = [s \in SUBSET (1..n) |-> Round(f, s)]
           it == CHOOSE f : Eq(f)
<1>1. DailySubmissions(list) = it[1..n]
  <2>1. DOMAIN list = 1..n
    OBVIOUS
  <2>2. QED
    BY <2>1, Zenon DEF DailySubmissions, FoldRight, MapThenFoldSet
<1>2. Eq(it)
  <2> DEFINE B == Seq(DayOf)
             base == <<>>
             step == [di \in B \X (1..n) |-> AddToDay(di[1], list[di[2]])]
             pick == [s \in SUBSET (1..n) |-> Min(s)]
  <2>1. base \in B
    OBVIOUS
  <2>2. step \in [B \X (1..n) -> B]
    BY AddToDayType
  <2>3. Picks(n, pick)
    BY MinOf DEF Picks
  <2>4. PICK f \in [SUBSET (1..n) -> B] : FoldsBy(f, n, base, step, pick)
    <3> HIDE DEF B, base, step, pick
    <3>1. QED
      BY <2>1, <2>2, <2>3, FoldExists
  <2>5. ASSUME NEW s \in SUBSET (1..n)
        PROVE  f[s] = Round(f, s)
    <3>1. CASE s = {}
      BY <2>4, <3>1 DEF FoldsBy
    <3>2. CASE s # {}
      <4>1. pick[s] = Min(s) /\ Min(s) \in 1..n /\ s \ {Min(s)} \in SUBSET (1..n)
        BY <3>2, MinOf
      <4>2. <<f[s \ {Min(s)}], Min(s)>> \in B \X (1..n)
        BY <2>4, <4>1
      <4>3. step[<<f[s \ {Min(s)}], Min(s)>>] = AddToDay(f[s \ {Min(s)}], list[Min(s)])
        BY <4>2
      <4>4. QED
        BY <2>4, <3>2, <4>1, <4>3 DEF FoldsBy
    <3>3. QED
      BY <3>1, <3>2
  <2>6. Eq(f)
    BY <2>5
  <2> HIDE DEF Eq
  <2>7. QED
    BY <2>6
<1> HIDE DEF it
<1> DEFINE days == [k \in 1..(n + 1) |-> it[k..n]]
<1>3. days[n + 1] = <<>>
  <2>1. (n + 1)..n = {} /\ {} \in SUBSET (1..n) /\ n + 1 \in 1..(n + 1)
    OBVIOUS
  <2>2. QED
    BY <1>2, <2>1
<1>4. ASSUME NEW k \in 1..n
      PROVE  days[k] = AddToDay(days[k + 1], list[k])
  <2>1. k..n \in SUBSET (1..n) /\ k..n # {} /\ k \in k..n
    OBVIOUS
  <2>2. Min(k..n) = k
    <3>1. Min(k..n) \in k..n /\ Min(k..n) <= k
      BY <2>1, MinOf
    <3>2. QED
      BY <3>1
  <2>3. (k..n) \ {k} = (k + 1)..n /\ k \in 1..(n + 1) /\ k + 1 \in 1..(n + 1)
    OBVIOUS
  <2>4. it[k..n] = AddToDay(it[(k + 1)..n], list[k])
    BY <1>2, <2>1, <2>2, <2>3
  <2>5. QED
    BY <2>3, <2>4
<1>5. days \in [1..(n + 1) -> Seq(DayOf)]
  <2> DEFINE T == {k \in 1..(n + 1) : days[k] \in Seq(DayOf)}
  <2>1. days = [k \in 1..(n + 1) |-> days[k]]
    OBVIOUS
  <2> HIDE DEF days
  <2>2. n + 1 \in T
    <3>1. <<>> \in Seq(DayOf) /\ n + 1 \in 1..(n + 1)
      OBVIOUS
    <3>2. QED
      BY <1>3, <3>1, Zenon
  <2>3. ASSUME NEW k \in 1..n, k + 1 \in T
        PROVE  k \in T
    <3>1. days[k + 1] \in Seq(DayOf) /\ list[k] \in Sub /\ k \in 1..(n + 1)
      BY <2>3
    <3>2. days[k] \in Seq(DayOf)
      BY <1>4, <3>1, AddToDayType
    <3>3. QED
      BY <3>1, <3>2
  <2>4. \A k \in 1..(n + 1) : k \in T
    <3> HIDE DEF T
    <3>1. QED
      BY <2>2, <2>3, DownTo
  <2>5. QED
    BY <2>1, <2>4
<1>6. DailySubmissions(list) = days[1]
  BY <1>1
<1> HIDE DEF days
<1>7. QED
  BY <1>3, <1>4, <1>5, <1>6

\* The loop goes through the days as they are.
LEMMA StreakRounds ==
    ASSUME NEW n \in Nat, NEW days \in [1..n -> DayOf]
    PROVE  \E acc \in [0..n -> Acc] :
             /\ acc[0] = [streaks |-> <<>>, current |-> <<>>]
             /\ \A k \in 1..n : acc[k] = AddDate(acc[k - 1], days[k])
             /\ CalculateStreaks(days) = Close(acc[n].streaks, acc[n].current)
<1> DEFINE none == [streaks |-> <<>>, current |-> <<>>]
           Round(f, s) == IF s = {} THEN none ELSE AddDate(f[s \ {Max(s)}], days[Max(s)])
           Eq(f) == f = [s \in SUBSET (1..n) |-> Round(f, s)]
           it == CHOOSE f : Eq(f)
<1>1. none \in Acc
  BY DEF Acc
<1>2. CalculateStreaks(days) = Close(it[1..n].streaks, it[1..n].current)
  <2>1. DOMAIN days = 1..n
    OBVIOUS
  <2>2. FoldLeft(AddDate, none, days) = it[1..n]
    BY <2>1, Zenon DEF FoldLeft, MapThenFoldSet
  <2> HIDE DEF it
  <2>3. QED
    BY <2>2, Zenon DEF CalculateStreaks
<1>3. Eq(it)
  <2> DEFINE step == [ai \in Acc \X (1..n) |-> AddDate(ai[1], days[ai[2]])]
             pick == [s \in SUBSET (1..n) |-> Max(s)]
  <2> HIDE DEF none
  <2>2. step \in [Acc \X (1..n) -> Acc]
    BY AddDateType
  <2>3. Picks(n, pick)
    BY MaxOf DEF Picks
  <2>4. PICK f \in [SUBSET (1..n) -> Acc] : FoldsBy(f, n, none, step, pick)
    <3> HIDE DEF step, pick
    <3>1. QED
      BY <1>1, <2>2, <2>3, FoldExists
  <2>5. ASSUME NEW s \in SUBSET (1..n)
        PROVE  f[s] = Round(f, s)
    <3>1. CASE s = {}
      BY <2>4, <3>1 DEF FoldsBy
    <3>2. CASE s # {}
      <4>1. pick[s] = Max(s) /\ Max(s) \in 1..n /\ s \ {Max(s)} \in SUBSET (1..n)
        BY <3>2, MaxOf
      <4>2. <<f[s \ {Max(s)}], Max(s)>> \in Acc \X (1..n)
        BY <2>4, <4>1
      <4>3. step[<<f[s \ {Max(s)}], Max(s)>>] = AddDate(f[s \ {Max(s)}], days[Max(s)])
        BY <4>2
      <4>4. QED
        BY <2>4, <3>2, <4>1, <4>3 DEF FoldsBy
    <3>3. QED
      BY <3>1, <3>2
  <2>6. Eq(f)
    BY <2>5
  <2> HIDE DEF Eq
  <2>7. QED
    BY <2>6
<1> HIDE DEF it, none
<1> DEFINE acc == [k \in 0..n |-> it[1..k]]
<1>4. acc[0] = none
  <2>1. 1..0 = {} /\ {} \in SUBSET (1..n) /\ 0 \in 0..n
    OBVIOUS
  <2>2. QED
    BY <1>3, <2>1
<1>5. ASSUME NEW k \in 1..n
      PROVE  acc[k] = AddDate(acc[k - 1], days[k])
  <2> HIDE DEF acc
  <2>1. 1..k \in SUBSET (1..n) /\ 1..k # {} /\ k \in 1..k
    <3>1. k \in Nat /\ k >= 1 /\ k <= n
      OBVIOUS
    <3>2. k \in 1..k /\ \A i \in 1..k : i \in 1..n
      BY <3>1
    <3>3. QED
      BY <3>2
  <2>2. Max(1..k) = k
    <3>1. Max(1..k) \in 1..k /\ k <= Max(1..k)
      BY <2>1, MaxOf
    <3>2. QED
      BY <3>1
  <2>3. (1..k) \ {k} = 1..(k - 1) /\ k \in 0..n /\ k - 1 \in 0..n
    OBVIOUS
  <2>4. it[1..k] = AddDate(it[1..(k - 1)], days[k])
    BY <1>3, <2>1, <2>2, <2>3
  <2>5. QED
    BY <2>3, <2>4 DEF acc
<1>6. acc \in [0..n -> Acc]
  <2> DEFINE T == {k \in 0..n : acc[k] \in Acc}
  <2>1. acc = [k \in 0..n |-> acc[k]]
    OBVIOUS
  <2> HIDE DEF acc
  <2>2. 0 \in T
    BY <1>1, <1>4
  <2>3. ASSUME NEW k \in 1..n, k - 1 \in T
        PROVE  k \in T
    <3>1. acc[k - 1] \in Acc /\ days[k] \in DayOf /\ k \in 0..n
      BY <2>3
    <3>2. acc[k] \in Acc
      BY <1>5, <3>1, AddDateType
    <3>3. QED
      BY <3>1, <3>2, Zenon
  <2>4. \A k \in 0..n : k \in T
    <3> HIDE DEF T
    <3>1. QED
      BY <2>2, <2>3, UpTo
  <2>5. QED
    BY <2>1, <2>4
<1>7. CalculateStreaks(days) = Close(acc[n].streaks, acc[n].current)
  BY <1>2
<1> HIDE DEF acc
<1>8. QED
  BY <1>4, <1>5, <1>6, <1>7 DEF none

-----------------------------------------------------------------------------
(* The days *)

OnDay(list, k, n, d) == {i \in k..n : list[i].day = d}

\* ds has the days of the submissions from k to n, the latest first.
Daily(ds, list, k, n) ==
    /\ ds \in Seq(DayOf)
    /\ \A a \in DOMAIN ds : \E i \in k..n : list[i].day = ds[a].date
    /\ \A i \in k..n : \E a \in DOMAIN ds : ds[a].date = list[i].day
    /\ \A a, b \in DOMAIN ds : a < b => ds[a].date > ds[b].date
    /\ \A a \in DOMAIN ds : ds[a].count = Cardinality(OnDay(list, k, n, ds[a].date))

\* Submissions are in the order of their days.
InOrder(list) == \A i, j \in DOMAIN list : i < j => list[i].day <= list[j].day

LEMMA OnDayGrows ==
    ASSUME NEW n \in Nat, NEW list \in [1..n -> Sub], NEW k \in 1..n, NEW d
    PROVE  /\ IsFiniteSet(OnDay(list, k + 1, n, d))
           /\ list[k].day # d => OnDay(list, k, n, d) = OnDay(list, k + 1, n, d)
           /\ list[k].day = d => Cardinality(OnDay(list, k, n, d)) =
                                   Cardinality(OnDay(list, k + 1, n, d)) + 1
<1>1. k..n = ((k + 1)..n) \cup {k} /\ k \notin (k + 1)..n
  OBVIOUS
<1>2. OnDay(list, k + 1, n, d) \subseteq (k + 1)..n
  BY DEF OnDay
<1>3. IsFiniteSet(OnDay(list, k + 1, n, d))
  <2>1. IsFiniteSet((k + 1)..n)
    BY FS_Interval
  <2>2. QED
    BY <1>2, <2>1, FS_Subset, Zenon
<1>4. list[k].day # d => OnDay(list, k, n, d) = OnDay(list, k + 1, n, d)
  BY <1>1, Zenon DEF OnDay
<1>5. ASSUME list[k].day = d
      PROVE  Cardinality(OnDay(list, k, n, d)) = Cardinality(OnDay(list, k + 1, n, d)) + 1
  <2>1. OnDay(list, k, n, d) = OnDay(list, k + 1, n, d) \cup {k}
    BY <1>1, <1>5 DEF OnDay
  <2>2. k \notin OnDay(list, k + 1, n, d)
    BY <1>1, <1>2
  <2>3. QED
    BY <1>3, <2>1, <2>2, FS_AddElement
<1>6. QED
  BY <1>3, <1>4, <1>5

LEMMA AddToDayDaily ==
    ASSUME NEW n \in Nat, NEW list \in [1..n -> Sub], InOrder(list),
           NEW k \in 1..n, NEW ds, Daily(ds, list, k + 1, n)
    PROVE  Daily(AddToDay(ds, list[k]), list, k, n)
<1> DEFINE sub == list[k]
           new == AddToDay(ds, list[k])
<1>1. /\ ds \in Seq(DayOf) /\ Len(ds) \in Nat /\ DOMAIN ds = 1..Len(ds)
      /\ \A a \in DOMAIN ds : ds[a] \in DayOf
  BY LenProperties, ElementOfSeq DEF Daily
<1>2. sub \in Sub /\ sub.day \in Nat /\ sub.exam \in BOOLEAN
  BY DEF Sub
<1>3. /\ k..n = ((k + 1)..n) \cup {k}
      /\ \A i \in (k + 1)..n : i \in 1..n /\ sub.day <= list[i].day
  BY DEF InOrder
<1>4. new \in Seq(DayOf)
  BY <1>1, <1>2, AddToDayType
\* No later day is before this one.
<1>5. \A a \in DOMAIN ds : ds[a].date \in Nat /\ sub.day <= ds[a].date
  <2>1. TAKE a \in DOMAIN ds
  <2>2. PICK i \in (k + 1)..n : list[i].day = ds[a].date
    BY DEF Daily
  <2>3. QED
    BY <1>1, <1>3, <2>2 DEF DayOf
<1>6. CASE ds # <<>> /\ Last(ds).date = sub.day
  <2> DEFINE m == Len(ds)
  <2>1. m \in DOMAIN ds /\ ds[m].date = sub.day
    BY <1>1, <1>6, LastOf
  <2>2. new = [ds EXCEPT ![m].count = @ + 1]
    BY <1>6 DEF AddToDay
  <2>3. /\ DOMAIN new = DOMAIN ds
        /\ \A a \in DOMAIN ds : new[a].date = ds[a].date
        /\ \A a \in DOMAIN ds : new[a].count = IF a = m THEN ds[a].count + 1 ELSE ds[a].count
    <3>1. new = [a \in DOMAIN ds |-> IF a = m THEN [ds[a] EXCEPT !.count = @ + 1] ELSE ds[a]]
      BY <1>1, <2>1, <2>2
    <3> HIDE DEF new, m
    <3>2. DOMAIN new = DOMAIN ds
      BY <3>1
    <3>3. ASSUME NEW a \in DOMAIN ds
          PROVE  /\ new[a].date = ds[a].date
                 /\ new[a].count = IF a = m THEN ds[a].count + 1 ELSE ds[a].count
      BY <1>1, <3>1, <3>3 DEF DayOf
    <3>4. QED
      BY <3>2, <3>3
  <2> HIDE DEF new, m, sub
  <2>4. \A a \in DOMAIN ds : a # m => ds[a].date # sub.day
    <3>1. TAKE a \in DOMAIN ds
    <3>2. HAVE a # m
    <3>3. a < m
      BY <1>1, <2>1, <3>2 DEF m
    <3>4. ds[a].date > ds[m].date
      BY <2>1, <3>3 DEF Daily
    <3>5. QED
      BY <1>5, <2>1, <3>4
  <2>5. \A a \in DOMAIN new : new[a].count = Cardinality(OnDay(list, k, n, new[a].date))
    <3>1. TAKE a \in DOMAIN new
    <3>2. a \in DOMAIN ds /\ ds[a].count = Cardinality(OnDay(list, k + 1, n, ds[a].date))
      BY <2>3 DEF Daily
    <3>3. CASE a = m
      BY <2>1, <2>3, <3>2, <3>3, OnDayGrows DEF sub
    <3>4. CASE a # m
      <4>1. OnDay(list, k, n, ds[a].date) = OnDay(list, k + 1, n, ds[a].date)
        BY <2>4, <3>2, <3>4, OnDayGrows DEF sub
      <4>2. QED
        BY <2>3, <3>2, <3>4, <4>1
    <3>5. QED
      BY <3>3, <3>4
  <2>6. \A a \in DOMAIN new : \E i \in k..n : list[i].day = new[a].date
    BY <1>3, <2>3 DEF Daily
  <2>7. \A i \in k..n : \E a \in DOMAIN new : new[a].date = list[i].day
    BY <1>3, <2>1, <2>3 DEF Daily, sub
  <2>8. \A a, b \in DOMAIN new : a < b => new[a].date > new[b].date
    BY <2>3 DEF Daily
  <2>9. QED
    BY <1>4, <2>5, <2>6, <2>7, <2>8, Zenon DEF Daily, new
<1>7. CASE ~(ds # <<>> /\ Last(ds).date = sub.day)
  <2> DEFINE m == Len(ds) + 1
             day == [date |-> sub.day, count |-> 1, exam |-> sub.exam]
  <2>1. new = Append(ds, day)
    BY <1>7 DEF AddToDay
  <2>2. day \in DayOf
    BY <1>2 DEF DayOf
  <2>3. /\ DOMAIN new = DOMAIN ds \cup {m}
        /\ m \notin DOMAIN ds
        /\ \A a \in DOMAIN ds : new[a] = ds[a] /\ a < m
        /\ new[m] = day
    <3>1. Len(Append(ds, day)) = m /\ Append(ds, day) \in Seq(DayOf)
      BY <1>1, <2>2, AppendProperties
    <3>2. DOMAIN Append(ds, day) = 1..m
      BY <3>1, LenProperties
    <3>3. (\A a \in 1..Len(ds) : Append(ds, day)[a] = ds[a]) /\ Append(ds, day)[m] = day
      BY <1>1, <2>2, AppendProperties
    <3> HIDE DEF new, day
    <3>4. QED
      BY <1>1, <2>1, <3>2, <3>3
  <2>4. day.date = sub.day /\ day.count = 1
    OBVIOUS
  <2> HIDE DEF new, m, day, sub
  <2>5. \A a \in DOMAIN ds : ds[a].date > sub.day
    <3>1. TAKE a \in DOMAIN ds
    <3>2. ds # <<>>
      BY <3>1
    <3>3. Len(ds) \in DOMAIN ds /\ ds[Len(ds)].date # sub.day /\ a <= Len(ds)
      BY <1>1, <1>7, <3>2, LastOf
    <3>4. ds[Len(ds)].date > sub.day
      BY <1>2, <1>5, <3>3
    <3>5. a = Len(ds) \/ ds[a].date > ds[Len(ds)].date
      BY <1>1, <3>3 DEF Daily
    <3>6. QED
      BY <1>2, <1>5, <3>3, <3>4, <3>5
  <2>6. \A a \in DOMAIN new : new[a].count = Cardinality(OnDay(list, k, n, new[a].date))
    <3>1. TAKE a \in DOMAIN new
    <3>2. CASE a = m
      <4>1. OnDay(list, k + 1, n, sub.day) = {}
        <5>1. ASSUME NEW i \in (k + 1)..n
              PROVE  list[i].day # sub.day
          <6>1. PICK b \in DOMAIN ds : ds[b].date = list[i].day
            BY DEF Daily
          <6>2. QED
            BY <1>2, <1>5, <2>5, <6>1
        <5>2. QED
          BY <5>1 DEF OnDay
      <4>2. Cardinality(OnDay(list, k, n, sub.day)) = 1
        BY <4>1, OnDayGrows, FS_EmptySet DEF sub
      <4>3. QED
        BY <2>3, <2>4, <3>2, <4>2
    <3>3. CASE a \in DOMAIN ds
      <4>1. OnDay(list, k, n, ds[a].date) = OnDay(list, k + 1, n, ds[a].date)
        <5>1. list[k].day # ds[a].date
          BY <1>2, <1>5, <2>5, <3>3 DEF sub
        <5>2. QED
          BY <5>1, OnDayGrows
      <4>2. ds[a].count = Cardinality(OnDay(list, k + 1, n, ds[a].date))
        BY <3>3 DEF Daily
      <4>3. QED
        BY <2>3, <3>3, <4>1, <4>2
    <3>4. QED
      BY <2>3, <3>2, <3>3
  <2>7. \A a \in DOMAIN new : \E i \in k..n : list[i].day = new[a].date
    <3>1. TAKE a \in DOMAIN new
    <3>2. CASE a = m
      BY <1>3, <2>3, <2>4, <3>2 DEF sub
    <3>3. CASE a \in DOMAIN ds
      BY <1>3, <2>3, <3>3 DEF Daily
    <3>4. QED
      BY <2>3, <3>2, <3>3
  <2>8. \A i \in k..n : \E a \in DOMAIN new : new[a].date = list[i].day
    <3>1. TAKE i \in k..n
    <3>2. CASE i = k
      BY <2>3, <2>4, <3>2 DEF sub
    <3>3. CASE i \in (k + 1)..n
      <4>1. PICK a \in DOMAIN ds : ds[a].date = list[i].day
        BY <3>3 DEF Daily
      <4>2. QED
        BY <2>3, <4>1
    <3>4. QED
      BY <1>3, <3>2, <3>3
  <2>9. \A a, b \in DOMAIN new : a < b => new[a].date > new[b].date
    <3>1. TAKE a, b \in DOMAIN new
    <3>2. HAVE a < b
    <3>3. a \in DOMAIN ds
      BY <1>1, <2>3, <3>2 DEF m
    <3>4. CASE b = m
      BY <2>3, <2>4, <2>5, <3>3, <3>4
    <3>5. CASE b \in DOMAIN ds
      BY <2>3, <3>2, <3>3, <3>5 DEF Daily
    <3>6. QED
      BY <2>3, <3>4, <3>5
  <2>10. QED
    BY <1>4, <2>6, <2>7, <2>8, <2>9, Zenon DEF Daily, new
<1>8. QED
  BY <1>6, <1>7

LEMMA DailySubmissionsDaily ==
    ASSUME NEW n \in Nat, NEW list \in [1..n -> Sub], InOrder(list)
    PROVE  Daily(DailySubmissions(list), list, 1, n)
<1>1. PICK days \in [1..(n + 1) -> Seq(DayOf)] :
        /\ days[n + 1] = <<>>
        /\ \A k \in 1..n : days[k] = AddToDay(days[k + 1], list[k])
        /\ DailySubmissions(list) = days[1]
  BY DailyRounds
<1> DEFINE T == {k \in 1..(n + 1) : Daily(days[k], list, k, n)}
<1>2. n + 1 \in T
  <2>1. (n + 1)..n = {} /\ n + 1 \in 1..(n + 1)
    OBVIOUS
  <2>2. Daily(<<>>, list, n + 1, n)
    BY <2>1 DEF Daily
  <2>3. QED
    BY <1>1, <2>1, <2>2, Zenon
<1>3. ASSUME NEW k \in 1..n, k + 1 \in T
      PROVE  k \in T
  <2>1. Daily(days[k + 1], list, k + 1, n)
    BY <1>3
  <2>2. Daily(AddToDay(days[k + 1], list[k]), list, k, n)
    BY <2>1, AddToDayDaily
  <2>3. k \in 1..(n + 1) /\ Daily(days[k], list, k, n)
    BY <1>1, <2>2
  <2>4. QED
    BY <2>3
<1>4. 1 \in T
  <2> HIDE DEF T
  <2>1. \A k \in 1..(n + 1) : k \in T
    BY <1>2, <1>3, DownTo
  <2>2. QED
    BY <2>1
<1>5. QED
  BY <1>1, <1>4

-----------------------------------------------------------------------------
(* The streaks *)

Newest(t) == t[1].date
Oldest(t) == t[Len(t)].date

\* Days in a row, the latest first.
DaysInRow(t) ==
    /\ t \in Seq(DayOf) /\ t # <<>>
    /\ \A i \in DOMAIN t : t[i].date = t[1].date - (i - 1)

MaximalIn(dates, f, l) ==
    f < l /\ f..l \subseteq dates /\ f - 1 \notin dates /\ l + 1 \notin dates

\* t has the maximal runs of two days or more, the latest first.
StreaksOf(t, dates) ==
    /\ \A i \in DOMAIN t : DaysInRow(t[i]) /\ MaximalIn(dates, Oldest(t[i]), Newest(t[i]))
    /\ \A f, l \in dates : MaximalIn(dates, f, l) =>
         \E i \in DOMAIN t : Oldest(t[i]) = f /\ Newest(t[i]) = l
    /\ \A i, j \in DOMAIN t : i < j => Newest(t[j]) < Oldest(t[i])

LEMMA RowOfDays ==
    ASSUME NEW t, DaysInRow(t)
    PROVE  /\ Len(t) \in Nat \ {0} /\ DOMAIN t = 1..Len(t)
           /\ Newest(t) \in Nat /\ Oldest(t) \in Nat
           /\ Oldest(t) = Newest(t) - (Len(t) - 1)
           /\ Last(t).date = Oldest(t)
           /\ {t[i].date : i \in DOMAIN t} = Oldest(t)..Newest(t)
<1>1. /\ Len(t) \in Nat \ {0} /\ DOMAIN t = 1..Len(t)
      /\ \A i \in DOMAIN t : t[i] \in DayOf
  <2>1. t \in Seq(DayOf) /\ t # <<>>
    BY DEF DaysInRow
  <2>2. QED
    BY <2>1, LastOf, ElementOfSeq
<1>2. \A i \in DOMAIN t : t[i].date \in Nat
  BY <1>1 DEF DayOf
<1>3. Newest(t) \in Nat /\ Oldest(t) \in Nat
  BY <1>1, <1>2 DEF Newest, Oldest
<1>4. \A i \in DOMAIN t : t[i].date = Newest(t) - (i - 1)
  BY DEF DaysInRow, Newest
<1>5. Oldest(t) = Newest(t) - (Len(t) - 1)
  BY <1>1, <1>4 DEF Oldest
<1>6. {t[i].date : i \in DOMAIN t} = Oldest(t)..Newest(t)
  <2>1. ASSUME NEW i \in DOMAIN t
        PROVE  t[i].date \in Oldest(t)..Newest(t)
    BY <1>1, <1>3, <1>4, <1>5
  <2>2. ASSUME NEW d \in Oldest(t)..Newest(t)
        PROVE  \E i \in DOMAIN t : t[i].date = d
    <3>1. Newest(t) - d + 1 \in DOMAIN t
      BY <1>1, <1>3, <1>5
    <3>2. t[Newest(t) - d + 1].date = d
      BY <1>3, <1>4, <3>1
    <3>3. QED
      BY <3>1, <3>2
  <2>3. QED
    BY <2>1, <2>2
<1>7. QED
  BY <1>1, <1>3, <1>5, <1>6 DEF Last, Oldest

\* A streak that is over is added if it is longer than a day; the days of the
\* others are later.
LEMMA CloseStreaks ==
    ASSUME NEW t \in Seq(Seq(DayOf)), NEW later \in SUBSET Nat, StreaksOf(t, later),
           NEW c, DaysInRow(c), \A x \in later : x > Newest(c) + 1
    PROVE  StreaksOf(Close(t, c), later \cup (Oldest(c)..Newest(c)))
<1> DEFINE o == Oldest(c)
           w == Newest(c)
           dates == later \cup (o..w)
           u == Close(t, c)
<1>1. o \in Nat /\ w \in Nat /\ o = w - (Len(c) - 1) /\ Len(c) \in Nat \ {0}
  BY RowOfDays
<1>2. Len(t) \in Nat /\ DOMAIN t = 1..Len(t) /\ c \in Seq(DayOf)
  BY LenProperties DEF DaysInRow
<1> HIDE DEF o, w
<1>3. \A x \in later : x \in Nat /\ x > w + 1
  BY DEF w
\* Among the later days nothing changes.
<1>4. ASSUME NEW f \in later, NEW l \in Int
      PROVE  MaximalIn(dates, f, l) <=> MaximalIn(later, f, l)
  <2>1. f \in Nat /\ f > w + 1
    BY <1>3
  <2>2. \A x \in Int : x >= f - 1 => (x \in dates <=> x \in later)
    BY <1>1, <2>1
  <2> HIDE DEF dates
  <2>3. f < l => (f..l \subseteq dates <=> f..l \subseteq later)
    BY <2>1, <2>2
  <2>4. f - 1 \in dates <=> f - 1 \in later
    BY <2>1, <2>2
  <2>5. f < l => (l + 1 \in dates <=> l + 1 \in later)
    BY <2>1, <2>2
  <2>6. QED
    BY <2>3, <2>4, <2>5, Zenon DEF MaximalIn
\* Among the others there is one run.
<1>5. ASSUME NEW f \in o..w, NEW l \in dates, MaximalIn(dates, f, l)
      PROVE  f = o /\ l = w
  <2>1. f \in Int /\ l \in Int /\ f < l /\ o <= f /\ f <= w
    BY <1>1, <1>3, <1>5 DEF MaximalIn
  <2>2. f - 1 \notin dates /\ l + 1 \notin dates /\ f..l \subseteq dates
    BY <1>5 DEF MaximalIn
  <2>3. f = o
    <3>1. ASSUME f # o
          PROVE  f - 1 \in o..w
      <4>1. f \in Int /\ o \in Int /\ w \in Int /\ o <= f /\ f <= w
        BY <1>1, <2>1
      <4> HIDE DEF dates
      <4>3. o < f
        BY <3>1, <4>1
      <4>4. f - 1 \in Int /\ o <= f - 1 /\ f - 1 <= w
        BY <4>1, <4>3
      <4>5. QED
        BY <4>1, <4>4
    <3>2. QED
      BY <2>2, <3>1
  <2>4. w + 1 \notin dates
    BY <1>1, <1>3
  <2>5. l <= w
    <3>1. l > w => w + 1 \in f..l
      BY <1>1, <2>1
    <3>2. QED
      BY <1>1, <2>1, <2>2, <2>4, <3>1
  <2>6. l = w
    <3>1. l # w => l + 1 \in o..w
      BY <1>1, <2>1, <2>5, SMTT(30)
    <3>2. QED
      BY <2>2, <3>1
  <2>7. QED
    BY <2>3, <2>6
<1>6. ASSUME o < w
      PROVE  MaximalIn(dates, o, w)
  <2>1. o - 1 \notin dates /\ w + 1 \notin dates
    BY <1>1, <1>3
  <2>2. QED
    BY <1>6, <2>1 DEF MaximalIn
<1>7. ASSUME NEW i \in DOMAIN t
      PROVE  /\ DaysInRow(t[i]) /\ Oldest(t[i]) \in later /\ Newest(t[i]) \in Nat
             /\ MaximalIn(dates, Oldest(t[i]), Newest(t[i]))
  <2>1. DaysInRow(t[i]) /\ MaximalIn(later, Oldest(t[i]), Newest(t[i]))
    BY DEF StreaksOf
  <2>2. Oldest(t[i]) \in Nat /\ Newest(t[i]) \in Nat
    BY <2>1, RowOfDays
  <2>3. Oldest(t[i]) \in later
    <3>1. Oldest(t[i]) \in Oldest(t[i])..Newest(t[i])
      BY <2>1, <2>2 DEF MaximalIn
    <3>2. QED
      BY <2>1, <3>1 DEF MaximalIn
  <2> HIDE DEF dates
  <2>4. QED
    BY <1>4, <2>1, <2>2, <2>3
<1>8. ASSUME NEW f \in dates, NEW l \in dates, MaximalIn(dates, f, l)
      PROVE  \/ f = o /\ l = w /\ o < w
             \/ \E i \in DOMAIN t : Oldest(t[i]) = f /\ Newest(t[i]) = l
  <2>1. CASE f \in later
    <3>1. l \in Int /\ f \in Int /\ f < l
      BY <1>1, <1>3, <1>8 DEF MaximalIn
    <3>2. MaximalIn(later, f, l)
      BY <1>4, <1>8, <2>1, <3>1
    <3>3. l \in later
      BY <3>1, <3>2 DEF MaximalIn
    <3>4. QED
      BY <2>1, <3>2, <3>3 DEF StreaksOf
  <2>2. CASE f \in o..w
    <3>1. f = o /\ l = w
      BY <1>5, <1>8, <2>2
    <3>2. QED
      BY <1>8, <3>1 DEF MaximalIn
  <2>3. QED
    BY <2>1, <2>2
<1>9. CASE Len(c) > 1
  <2> DEFINE m == Len(t) + 1
  <2>1. u = Append(t, c)
    BY <1>9 DEF Close
  <2>2. /\ DOMAIN u = DOMAIN t \cup {m}
        /\ \A i \in DOMAIN t : u[i] = t[i] /\ i < m
        /\ u[m] = c /\ m \notin DOMAIN t
    <3>1. Len(Append(t, c)) = m /\ Append(t, c) \in Seq(Seq(DayOf))
      BY <1>2, AppendProperties
    <3>2. DOMAIN Append(t, c) = 1..m
      BY <3>1, LenProperties
    <3>3. (\A i \in 1..Len(t) : Append(t, c)[i] = t[i]) /\ Append(t, c)[m] = c
      BY <1>2, AppendProperties
    <3>4. QED
      BY <1>2, <2>1, <3>2, <3>3
  <2> HIDE DEF u, m, dates
  <2>3. o < w
    BY <1>1, <1>9
  <2>4. \A i \in DOMAIN u : DaysInRow(u[i]) /\ MaximalIn(dates, Oldest(u[i]), Newest(u[i]))
    <3>1. TAKE i \in DOMAIN u
    <3>2. CASE i \in DOMAIN t
      BY <1>7, <2>2, <3>2
    <3>3. CASE i = m
      BY <1>6, <2>2, <2>3, <3>3 DEF o, w
    <3>4. QED
      BY <2>2, <3>2, <3>3
  <2>5. \A f, l \in dates : MaximalIn(dates, f, l) =>
          \E i \in DOMAIN u : Oldest(u[i]) = f /\ Newest(u[i]) = l
    <3>1. TAKE f, l \in dates
    <3>2. HAVE MaximalIn(dates, f, l)
    <3>3. CASE f = o /\ l = w
      BY <2>2, <3>3 DEF o, w
    <3>4. CASE \E i \in DOMAIN t : Oldest(t[i]) = f /\ Newest(t[i]) = l
      BY <2>2, <3>4
    <3>5. QED
      BY <1>8, <3>2, <3>3, <3>4
  <2>6. \A i, j \in DOMAIN u : i < j => Newest(u[j]) < Oldest(u[i])
    <3>1. TAKE i, j \in DOMAIN u
    <3>2. HAVE i < j
    <3>3. i \in DOMAIN t
      BY <1>2, <2>2, <3>2 DEF m
    <3>4. CASE j = m
      <4>1. Oldest(t[i]) \in Nat /\ Oldest(t[i]) > w + 1
        BY <1>3, <1>7, <3>3
      <4>2. QED
        BY <1>1, <2>2, <3>3, <3>4, <4>1 DEF w
    <3>5. CASE j \in DOMAIN t
      BY <2>2, <3>2, <3>3, <3>5 DEF StreaksOf
    <3>6. QED
      BY <2>2, <3>4, <3>5
  <2>7. StreaksOf(u, dates)
    BY <2>4, <2>5, <2>6, Zenon DEF StreaksOf
  <2>8. QED
    BY <2>7 DEF u, dates, o, w
<1>10. CASE ~(Len(c) > 1)
  <2>1. u = t
    BY <1>10 DEF Close
  <2> HIDE DEF u, dates
  <2>2. ~(o < w)
    BY <1>1, <1>10
  <2>3. \A i \in DOMAIN t : DaysInRow(t[i]) /\ MaximalIn(dates, Oldest(t[i]), Newest(t[i]))
    BY <1>7
  <2>4. \A f, l \in dates : MaximalIn(dates, f, l) =>
          \E i \in DOMAIN t : Oldest(t[i]) = f /\ Newest(t[i]) = l
    BY <1>8, <2>2
  <2>5. StreaksOf(t, dates)
    BY <2>3, <2>4, Zenon DEF StreaksOf
  <2>6. QED
    BY <2>1, <2>5 DEF u, dates, o, w
<1>11. QED
  BY <1>9, <1>10

Seen(days, k) == {days[i].date : i \in 1..k}

LatestFirst(days) == \A i, j \in DOMAIN days : i < j => days[i].date > days[j].date

\* After k days: the current streak ends with the day k, and those before it
\* are the ones of the days that are later and apart.
Going(acc, days, k) ==
    /\ acc \in Acc
    /\ k = 0 => acc = [streaks |-> <<>>, current |-> <<>>]
    /\ k # 0 =>
         /\ DaysInRow(acc.current) /\ Oldest(acc.current) = days[k].date
         /\ \E later \in SUBSET Nat :
              /\ StreaksOf(acc.streaks, later)
              /\ \A x \in later : x > Newest(acc.current) + 1
              /\ Seen(days, k) = later \cup (Oldest(acc.current)..Newest(acc.current))

LEMMA NoStreaks == StreaksOf(<<>>, {})
BY DEF StreaksOf

LEMMA CloseGoing ==
    ASSUME NEW n \in Nat, NEW days \in [1..n -> DayOf], NEW k \in 0..n,
           NEW acc, Going(acc, days, k)
    PROVE  /\ Close(acc.streaks, acc.current) \in Seq(Seq(DayOf))
           /\ StreaksOf(Close(acc.streaks, acc.current), Seen(days, k))
<1>1. acc.streaks \in Seq(Seq(DayOf)) /\ acc.current \in Seq(DayOf)
  BY DEF Going, Acc
<1>2. Close(acc.streaks, acc.current) \in Seq(Seq(DayOf))
  BY <1>1, AppendProperties DEF Close
<1>3. CASE k = 0
  <2>1. acc.streaks = <<>> /\ acc.current = <<>>
    BY <1>3 DEF Going
  <2>2. Close(<<>>, <<>>) = <<>>
    BY DEF Close
  <2>3. Seen(days, k) = {}
    BY <1>3 DEF Seen
  <2>4. QED
    BY <1>2, <2>1, <2>2, <2>3, NoStreaks
<1>4. CASE k # 0
  <2>1. PICK later \in SUBSET Nat :
          /\ StreaksOf(acc.streaks, later)
          /\ \A x \in later : x > Newest(acc.current) + 1
          /\ Seen(days, k) = later \cup (Oldest(acc.current)..Newest(acc.current))
    BY <1>4 DEF Going
  <2>2. DaysInRow(acc.current)
    BY <1>4 DEF Going
  <2>3. StreaksOf(Close(acc.streaks, acc.current),
                  later \cup (Oldest(acc.current)..Newest(acc.current)))
    BY <1>1, <2>1, <2>2, CloseStreaks
  <2>4. QED
    BY <1>2, <2>1, <2>3
<1>5. QED
  BY <1>3, <1>4

\* A day that goes on with the streak, and one that starts another.
LEMMA AddDateGoing ==
    ASSUME NEW n \in Nat, NEW days \in [1..n -> DayOf], LatestFirst(days),
           NEW k \in 1..n, NEW acc, Going(acc, days, k - 1)
    PROVE  Going(AddDate(acc, days[k]), days, k)
<1> DEFINE day == days[k]
           c == acc.current
           new == AddDate(acc, day)
<1>1. /\ acc \in Acc /\ acc.streaks \in Seq(Seq(DayOf)) /\ c \in Seq(DayOf)
      /\ day \in DayOf /\ day.date \in Nat
  BY DEF Going, Acc, DayOf
<1>2. new \in Acc
  BY <1>1, AddDateType
<1>3. Seen(days, k) = Seen(days, k - 1) \cup {day.date}
  <2>1. 1..k = (1..(k - 1)) \cup {k}
    OBVIOUS
  <2>2. QED
    BY <2>1, Zenon DEF Seen
<1>4. \A x \in Seen(days, k - 1) : x \in Nat /\ x > day.date
  <2>1. ASSUME NEW i \in 1..(k - 1)
        PROVE  days[i].date \in Nat /\ days[i].date > day.date
    <3>1. i \in 1..n /\ i < k
      OBVIOUS
    <3>2. days[i] \in DayOf
      BY <3>1
    <3>3. QED
      BY <3>1, <3>2 DEF LatestFirst, DayOf
  <2>2. QED
    BY <2>1 DEF Seen
<1>5. CASE c # <<>> /\ Last(c).date - day.date = 1
  <2>1. k - 1 # 0
    BY <1>5 DEF Going
  <2>2. PICK later \in SUBSET Nat :
          /\ StreaksOf(acc.streaks, later)
          /\ \A x \in later : x > Newest(c) + 1
          /\ Seen(days, k - 1) = later \cup (Oldest(c)..Newest(c))
    BY <2>1 DEF Going
  <2>3. DaysInRow(c)
    BY <2>1 DEF Going
  <2>4. /\ Len(c) \in Nat \ {0} /\ DOMAIN c = 1..Len(c)
        /\ Newest(c) \in Nat /\ Oldest(c) \in Nat
        /\ Oldest(c) = Newest(c) - (Len(c) - 1)
        /\ Last(c).date = Oldest(c)
    BY <2>3, RowOfDays
  <2>5. new.streaks = acc.streaks /\ new.current = Append(c, day)
    BY <1>1, <1>5 DEF AddDate, Acc
  <2> DEFINE d == Append(c, day)
  <2>6. /\ d \in Seq(DayOf) /\ Len(d) = Len(c) + 1 /\ DOMAIN d = 1..(Len(c) + 1)
        /\ \A i \in 1..Len(c) : d[i] = c[i]
        /\ d[Len(c) + 1] = day
    BY <1>1, AppendProperties, LenProperties
  <2> HIDE DEF d, new, day, c
  <2>7. Newest(d) = Newest(c) /\ Oldest(d) = day.date /\ day.date = Oldest(c) - 1
    <3>1. 1 \in 1..Len(c)
      BY <2>4
    <3>2. Newest(d) = Newest(c) /\ Oldest(d) = day.date
      BY <2>6, <3>1 DEF Newest, Oldest
    <3>3. QED
      BY <1>1, <1>5, <2>4, <3>2
  <2>8. DaysInRow(d)
    <3>1. ASSUME NEW i \in DOMAIN d
          PROVE  d[i].date = d[1].date - (i - 1)
      <4>1. d[1].date = Newest(c)
        BY <2>7 DEF Newest
      <4>2. CASE i \in 1..Len(c)
        BY <2>3, <2>4, <2>6, <4>1, <4>2 DEF DaysInRow, Newest
      <4>3. CASE i = Len(c) + 1
        BY <2>4, <2>6, <2>7, <4>1, <4>3
      <4>4. QED
        BY <2>4, <2>6, <4>2, <4>3
    <3>2. d # <<>>
      BY <2>4, <2>6
    <3>3. QED
      BY <2>6, <3>1, <3>2 DEF DaysInRow
  <2>9. Seen(days, k) = later \cup (Oldest(d)..Newest(d))
    <3>1. Oldest(d)..Newest(d) = (Oldest(c)..Newest(c)) \cup {day.date}
      BY <2>4, <2>7
    <3>2. QED
      BY <1>3, <2>2, <3>1
  <2>10. \A x \in later : x > Newest(d) + 1
    BY <2>2, <2>7
  <2>11. k # 0
    OBVIOUS
  <2>12. Going(new, days, k)
    BY <1>2, <2>2, <2>5, <2>7, <2>8, <2>9, <2>10, <2>11 DEF Going, d, day
  <2>13. QED
    BY <2>12 DEF new, day
<1>6. CASE ~(c # <<>> /\ Last(c).date - day.date = 1)
  <2> DEFINE e == <<day>>
             before == Seen(days, k - 1)
  <2>1. new = [streaks |-> Close(acc.streaks, c), current |-> e]
    BY <1>6 DEF AddDate
  <2>2. StreaksOf(Close(acc.streaks, c), before)
    <3>1. k - 1 \in 0..n
      OBVIOUS
    <3>2. QED
      BY <3>1, CloseGoing
  <2>3. e \in Seq(DayOf) /\ Len(e) = 1 /\ DOMAIN e = {1} /\ e[1] = day /\ e # <<>>
    BY <1>1
  <2> HIDE DEF e, new
  <2>4. Newest(e) = day.date /\ Oldest(e) = day.date
    BY <2>3 DEF Newest, Oldest
  <2>5. DaysInRow(e)
    BY <1>1, <2>3 DEF DaysInRow
  <2>6. ASSUME NEW x \in before
        PROVE  x > day.date + 1
    <3>1. CASE k - 1 = 0
      BY <3>1 DEF Seen
    <3>2. CASE k - 1 # 0
      <4>1. DaysInRow(c)
        BY <3>2 DEF Going
      <4>2. PICK later \in SUBSET Nat :
              /\ \A y \in later : y > Newest(c) + 1
              /\ before = later \cup (Oldest(c)..Newest(c))
        BY <3>2 DEF Going
      <4>3. /\ Last(c).date = Oldest(c) /\ Oldest(c) \in Nat /\ Newest(c) \in Nat
            /\ Len(c) \in Nat \ {0} /\ Oldest(c) = Newest(c) - (Len(c) - 1)
        BY <4>1, RowOfDays
      <4>4. Oldest(c) - day.date # 1
        BY <1>6, <4>1, <4>3 DEF DaysInRow
      <4> HIDE DEF c, before, day
      <4>5. Oldest(c) \in before
        BY <4>2, <4>3
      <4>6. Oldest(c) > day.date + 1
        BY <1>1, <1>4, <4>3, <4>4, <4>5 DEF before
      <4>7. x \in Nat /\ x >= Oldest(c)
        BY <4>2, <4>3
      <4>8. QED
        BY <1>1, <4>3, <4>6, <4>7
    <3>3. QED
      BY <3>1, <3>2
  <2>7. before \in SUBSET Nat
    BY <1>4
  <2>8. Seen(days, k) = before \cup (Oldest(e)..Newest(e))
    BY <1>1, <1>3, <2>4
  <2>9. new.current = e /\ new.streaks = Close(acc.streaks, c)
    BY <2>1
  <2>10. k # 0
    OBVIOUS
  <2> HIDE DEF before, day, c
  <2>11. Going(new, days, k)
    BY <1>2, <2>2, <2>4, <2>5, <2>6, <2>7, <2>8, <2>9, <2>10 DEF Going, day
  <2>12. QED
    BY <2>11 DEF new, day
<1>7. QED
  BY <1>5, <1>6

LEMMA CalculateStreaksRight ==
    ASSUME NEW n \in Nat, NEW days \in [1..n -> DayOf], LatestFirst(days)
    PROVE  /\ CalculateStreaks(days) \in Seq(Seq(DayOf))
           /\ StreaksOf(CalculateStreaks(days), Seen(days, n))
<1>1. PICK acc \in [0..n -> Acc] :
        /\ acc[0] = [streaks |-> <<>>, current |-> <<>>]
        /\ \A k \in 1..n : acc[k] = AddDate(acc[k - 1], days[k])
        /\ CalculateStreaks(days) = Close(acc[n].streaks, acc[n].current)
  BY StreakRounds
<1> DEFINE T == {k \in 0..n : Going(acc[k], days, k)}
<1>2. 0 \in T
  <2>1. 0 \in 0..n /\ acc[0] \in Acc
    OBVIOUS
  <2>2. Going(acc[0], days, 0)
    BY <1>1, <2>1, Zenon DEF Going
  <2>3. QED
    BY <2>1, <2>2
<1>3. ASSUME NEW k \in 1..n, k - 1 \in T
      PROVE  k \in T
  <2>1. Going(acc[k - 1], days, k - 1)
    BY <1>3
  <2>2. Going(AddDate(acc[k - 1], days[k]), days, k)
    BY <2>1, AddDateGoing
  <2>3. k \in 0..n /\ Going(acc[k], days, k)
    BY <1>1, <2>2
  <2>4. QED
    BY <2>3
<1>4. n \in T
  <2> HIDE DEF T
  <2>1. \A k \in 0..n : k \in T
    BY <1>2, <1>3, UpTo
  <2>2. QED
    BY <2>1
<1>5. Going(acc[n], days, n) /\ n \in 0..n
  BY <1>4
<1>6. QED
  BY <1>1, <1>5, CloseGoing

-----------------------------------------------------------------------------
(* The invariant *)

NewestOf(list, m) ==
    {list[i] : i \in {j \in 1..m : \A k \in (j + 1)..m : list[k].problem # list[j].problem}}

SubsTyped ==
    /\ subs \in Seq(Sub) /\ InOrder(subs)
    /\ today \in 1..Days
    /\ \A i \in DOMAIN subs : subs[i].day \in 1..today

\* What has been read is of the first upTo submissions; an answer is of them
\* and of all that there are.
StatsRecorded ==
    /\ stats.stage \in {"idle", "reading", "answered"}
    /\ stats.stage # "idle" => stats.upTo \in 0..Len(subs)
    /\ stats.stage = "reading" => stats.newest = NewestOf(subs, stats.upTo)
    /\ stats.stage = "answered" =>
         /\ stats.solved = ProblemsSolved(NewestOf(subs, stats.upTo))
         /\ stats.totalSubCount = Cardinality(NewestOf(subs, stats.upTo))
         /\ stats.daily = DailySubmissions(subs)
         /\ stats.streaks = CalculateStreaks(stats.daily)
         /\ stats.longest = LongestStreak(stats.streaks)
         /\ stats.active = StreakActive(stats.streaks)

LEMMA SubsLength ==
    ASSUME SubsTyped
    PROVE  /\ Len(subs) \in Nat /\ DOMAIN subs = 1..Len(subs) /\ subs \in [1..Len(subs) -> Sub]
           /\ Distinct(subs) = NewestOf(subs, Len(subs))
<1>1. Len(subs) \in Nat /\ DOMAIN subs = 1..Len(subs) /\ subs \in [1..Len(subs) -> Sub]
  BY LenProperties DEF SubsTyped
<1>2. QED
  BY <1>1, Zenon DEF Distinct, NewestOf

\* A submission is the last one and of the latest day.
LEMMA SubmitTyped ==
    ASSUME SubsTyped, NEW v \in Verdicts, StatsSubmit(v)
    PROVE  /\ SubsTyped'
           /\ Len(subs') = Len(subs) + 1
           /\ \A i \in 1..Len(subs) : subs'[i] = subs[i]
<1> DEFINE new == [day |-> today, problem |-> v.problem, exam |-> v.exam, accepted |-> v.accepted]
           m == Len(subs)
<1>1. m \in Nat /\ DOMAIN subs = 1..m /\ subs \in [1..m -> Sub]
  BY SubsLength
<1>2. subs' = Append(subs, new) /\ today' = today /\ today \in Nat
  BY DEF StatsSubmit, SubsTyped
<1>3. new \in Sub
  BY <1>2, UserStatsAssumption DEF Sub
<1>4. new.day = today
  OBVIOUS
<1> HIDE DEF new, m
<1>5. /\ subs' \in Seq(Sub) /\ Len(subs') = m + 1 /\ DOMAIN subs' = 1..(m + 1)
      /\ \A i \in 1..m : subs'[i] = subs[i]
      /\ subs'[m + 1] = new
  <2>1. subs \in Seq(Sub)
    BY DEF SubsTyped
  <2>2. subs' \in Seq(Sub) /\ Len(subs') = m + 1
    BY <1>2, <1>3, <2>1, AppendProperties DEF m
  <2>3. DOMAIN subs' = 1..(m + 1)
    BY <2>2, LenProperties
  <2>4. (\A i \in 1..m : subs'[i] = subs[i]) /\ subs'[m + 1] = new
    BY <1>2, <1>3, <2>1, AppendProperties DEF m
  <2>5. QED
    BY <2>2, <2>3, <2>4
<1>6. \A i \in DOMAIN subs' : i \in 1..m \/ i = m + 1
  BY <1>1, <1>5
<1>7. \A i \in DOMAIN subs' : subs'[i].day \in 1..today
  <2>1. today \in 1..today
    BY <1>2 DEF SubsTyped
  <2>2. QED
    BY <1>1, <1>4, <1>5, <1>6, <2>1 DEF SubsTyped
<1>8. InOrder(subs')
  <2> SUFFICES ASSUME NEW i \in DOMAIN subs', NEW j \in DOMAIN subs', i < j
               PROVE  subs'[i].day <= subs'[j].day
    BY DEF InOrder
  <2>1. i \in 1..m
    BY <1>1, <1>5, <1>6
  <2>2. CASE j = m + 1
    BY <1>2, <1>4, <1>5, <1>7, <2>2
  <2>3. CASE j \in 1..m
    BY <1>1, <1>5, <2>1, <2>3 DEF SubsTyped, InOrder
  <2>4. QED
    BY <1>6, <2>2, <2>3
<1>9. SubsTyped'
  BY <1>2, <1>5, <1>7, <1>8, Zenon DEF SubsTyped
<1>10. QED
  BY <1>5, <1>9 DEF m

LEMMA InitRecorded == UserStatsInit => SubsTyped /\ StatsRecorded
<1> SUFFICES ASSUME UserStatsInit PROVE SubsTyped /\ StatsRecorded
  OBVIOUS
<1>1. subs = <<>> /\ today = 1 /\ stats.stage = "idle"
  BY DEF UserStatsInit, StatsIdle
<1>2. SubsTyped
  BY <1>1, UserStatsAssumption DEF SubsTyped, InOrder
<1>3. QED
  BY <1>1, <1>2 DEF StatsRecorded

LEMMA NextRecorded ==
    ASSUME SubsTyped, StatsRecorded, [UserStatsNext]_userStatsVars
    PROVE  SubsTyped' /\ StatsRecorded'
<1>1. Forget.stage = stats.stage \/ Forget.stage = "idle"
  BY DEF Forget, StatsIdle
<1>2. stats.stage # "answered" => Forget = stats
  BY DEF Forget
<1>3. stats.stage = "answered" => Forget.stage = "idle"
  BY DEF Forget, StatsIdle
<1>4. ASSUME NEW v \in Verdicts, StatsSubmit(v)
      PROVE  SubsTyped' /\ StatsRecorded'
  <2>1. stats' = Forget
    BY <1>4 DEF StatsSubmit
  <2>2. CASE stats.stage # "reading"
    <3>1. stats'.stage = "idle"
      BY <1>2, <1>3, <2>1, <2>2 DEF StatsRecorded
    <3>2. StatsRecorded'
      BY <3>1 DEF StatsRecorded
    <3>3. QED
      BY <1>4, <3>2, SubmitTyped
  <2>3. CASE stats.stage = "reading"
    <3>1. stats' = stats
      BY <1>2, <2>1, <2>3
    <3>2. /\ SubsTyped' /\ Len(subs') = Len(subs) + 1 /\ Len(subs) \in Nat
          /\ \A i \in 1..Len(subs) : subs'[i] = subs[i]
      BY <1>4, SubmitTyped, SubsLength
    <3>3. stats.upTo \in 0..Len(subs) /\ stats.newest = NewestOf(subs, stats.upTo)
      BY <2>3 DEF StatsRecorded
    <3> DEFINE m == stats.upTo
    <3>4. NewestOf(subs', m) = NewestOf(subs, m)
      <4>1. \A i \in 1..m : subs'[i] = subs[i]
        BY <3>2, <3>3
      <4>2. \A j \in 1..m : \A k \in (j + 1)..m : k \in 1..m
        BY <3>3
      <4> HIDE DEF m
      <4>3. \A j \in 1..m : (\A k \in (j + 1)..m : subs'[k].problem # subs'[j].problem)
                              <=> \A k \in (j + 1)..m : subs[k].problem # subs[j].problem
        BY <4>1, <4>2
      <4>4. QED
        BY <4>1, <4>3 DEF NewestOf
    <3>5. m \in 0..Len(subs')
      BY <3>2, <3>3
    <3>6. StatsRecorded'
      BY <2>3, <3>1, <3>3, <3>4, <3>5 DEF StatsRecorded
    <3>7. QED
      BY <3>2, <3>6
  <2>4. QED
    BY <2>2, <2>3
<1>5. CASE StatsDayPasses
  <2>1. subs' = subs /\ today' = today + 1 /\ today < Days /\ stats' = Forget
    BY <1>5 DEF StatsDayPasses
  <2>2. SubsTyped'
    BY <2>1, UserStatsAssumption DEF SubsTyped, InOrder
  <2>3. CASE stats.stage # "reading"
    <3>1. stats'.stage = "idle"
      BY <1>2, <1>3, <2>1, <2>3 DEF StatsRecorded
    <3>2. StatsRecorded'
      BY <3>1 DEF StatsRecorded
    <3>3. QED
      BY <2>2, <3>2
  <2>4. CASE stats.stage = "reading"
    <3>1. stats' = stats
      BY <1>2, <2>1, <2>4
    <3>2. StatsRecorded'
      BY <2>1, <2>4, <3>1 DEF StatsRecorded
    <3>3. QED
      BY <2>2, <3>2
  <2>5. QED
    BY <2>3, <2>4
<1>6. CASE StatsRead
  <2>1. /\ subs' = subs /\ today' = today
        /\ stats' = [stage |-> "reading", upTo |-> Len(subs), newest |-> Distinct(subs)]
    BY <1>6 DEF StatsRead
  <2>2. SubsTyped'
    BY <2>1 DEF SubsTyped, InOrder
  <2>3. /\ stats'.stage = "reading" /\ stats'.upTo = Len(subs)
        /\ stats'.newest = NewestOf(subs, Len(subs))
        /\ Len(subs) \in 0..Len(subs)
    BY <2>1, SubsLength
  <2>4. StatsRecorded'
    BY <2>1, <2>3 DEF StatsRecorded
  <2>5. QED
    BY <2>2, <2>4
<1>7. CASE StatsAnswer
  <2>1. subs' = subs /\ today' = today /\ stats.stage = "reading"
    BY <1>7 DEF StatsAnswer
  <2>2. /\ stats'.stage = "answered" /\ stats'.upTo = stats.upTo
        /\ stats'.solved = ProblemsSolved(stats.newest)
        /\ stats'.totalSubCount = Cardinality(stats.newest)
        /\ stats'.daily = DailySubmissions(subs)
        /\ stats'.streaks = CalculateStreaks(stats'.daily)
        /\ stats'.longest = LongestStreak(stats'.streaks)
        /\ stats'.active = StreakActive(stats'.streaks)
    BY <1>7 DEF StatsAnswer
  <2>3. SubsTyped'
    BY <2>1 DEF SubsTyped, InOrder
  <2>4. StatsRecorded'
    BY <2>1, <2>2 DEF StatsRecorded, StreakActive
  <2>5. QED
    BY <2>3, <2>4
<1>8. CASE UNCHANGED userStatsVars
  <2>1. subs' = subs /\ today' = today /\ stats' = stats
    BY <1>8 DEF userStatsVars
  <2>2. QED
    BY <2>1 DEF SubsTyped, InOrder, StatsRecorded, StreakActive
<1>9. QED
  BY <1>4, <1>5, <1>6, <1>7, <1>8 DEF UserStatsNext

LEMMA AlwaysRecorded == UserStatsSpec => [](SubsTyped /\ StatsRecorded)
BY InitRecorded, NextRecorded, PTL DEF UserStatsSpec

\* The statistics keep their types, and a request's first query has read no
\* more than there is.
THEOREM UserStatsTypeCorrect == UserStatsSpec => []UserStatsTypeOK
<1>1. SubsTyped /\ StatsRecorded => UserStatsTypeOK
  BY DEF SubsTyped, StatsRecorded, UserStatsTypeOK
<1>2. QED
  BY <1>1, AlwaysRecorded, PTL

-----------------------------------------------------------------------------
(* What the statistics say *)

\* A problem that has been submitted has a newest submission.
LEMMA NewestThere ==
    ASSUME SubsTyped, NEW m \in 0..Len(subs), NEW i \in 1..m
    PROVE  \E j \in 1..m :
             /\ i <= j /\ subs[j].problem = subs[i].problem
             /\ subs[j] \in NewestOf(subs, m)
<1> DEFINE T == {j \in 1..m : subs[j].problem = subs[i].problem}
<1>1. m \in Nat /\ T \in SUBSET (0..m) /\ i \in T
  BY SubsLength
<1>2. PICK j \in T : \A k \in T : k <= j
  <2> HIDE DEF T
  <2>1. QED
    BY <1>1, Greatest
<1>3. \A k \in (j + 1)..m : subs[k].problem # subs[j].problem
  <2>1. TAKE k \in (j + 1)..m
  <2>2. k \in 1..m /\ k > j
    BY <1>1
  <2>3. k \notin T
    BY <1>1, <1>2, <2>2
  <2>4. QED
    BY <2>2, <2>3
<1>4. QED
  BY <1>1, <1>2, <1>3 DEF NewestOf

\* There is one for each problem.
LEMMA NewestCounted ==
    ASSUME SubsTyped, NEW m \in 0..Len(subs)
    PROVE  Cardinality(NewestOf(subs, m)) = Cardinality({subs[i].problem : i \in 1..m})
<1> DEFINE N == NewestOf(subs, m)
           P == {subs[i].problem : i \in 1..m}
           f == [s \in N |-> s.problem]
<1>1. m \in Nat
  BY SubsLength
<1>2. f \in [N -> P]
  BY DEF NewestOf
<1>3. ASSUME NEW s \in N, NEW t \in N, s.problem = t.problem
      PROVE  s = t
  <2>1. PICK i \in 1..m : s = subs[i] /\ \A k \in (i + 1)..m : subs[k].problem # subs[i].problem
    BY DEF NewestOf
  <2>2. PICK j \in 1..m : t = subs[j] /\ \A k \in (j + 1)..m : subs[k].problem # subs[j].problem
    BY DEF NewestOf
  <2>3. ~(i < j)
    <3>1. i < j => j \in (i + 1)..m
      BY <1>1
    <3>2. QED
      BY <1>3, <2>1, <2>2, <3>1
  <2>4. ~(j < i)
    <3>1. j < i => i \in (j + 1)..m
      BY <1>1
    <3>2. QED
      BY <1>3, <2>1, <2>2, <3>1
  <2>5. i = j
    BY <1>1, <2>3, <2>4
  <2>6. QED
    BY <2>1, <2>2, <2>5
<1>4. \A p \in P : \E s \in N : s.problem = p
  BY NewestThere
<1>5. IsFiniteSet(P)
  <2>1. IsFiniteSet(1..m)
    BY <1>1, FS_Interval
  <2> DEFINE g == [i \in 1..m |-> subs[i].problem]
  <2>2. g \in Surjection(1..m, P)
    BY DEF Surjection
  <2> HIDE DEF P, g
  <2>3. QED
    BY <2>1, <2>2, FS_Surjection
<1> HIDE DEF N, P
<1>6. f \in Injection(N, P) /\ f \in Surjection(N, P)
  BY <1>2, <1>3, <1>4 DEF Injection, IsInjective, Surjection
<1> HIDE DEF f
<1>7. Cardinality(N) = Cardinality(P)
  BY <1>5, <1>6, FS_Injection
<1>8. QED
  BY <1>7 DEF N, P

\* A problem solved outside an exam counts unless it was submitted once more.
THEOREM SolvedAlwaysUnlessRetried == UserStatsSpec => []SolvedUnlessRetried
<1>1. SubsTyped /\ StatsRecorded => SolvedUnlessRetried
  <2> SUFFICES ASSUME SubsTyped, StatsRecorded, stats.stage = "answered"
               PROVE  /\ \A p \in stats.solved : EverSolved(p)
                      /\ \A i \in 1..stats.upTo : EverSolved(subs[i].problem) =>
                           subs[i].problem \in stats.solved \/ Retried(subs[i].problem)
                      /\ stats.totalSubCount =
                           Cardinality({subs[i].problem : i \in 1..stats.upTo})
    BY DEF SolvedUnlessRetried
  <2> DEFINE m == stats.upTo
             N == NewestOf(subs, m)
  <2>1. /\ m \in 0..Len(subs) /\ Len(subs) \in Nat
        /\ stats.solved = ProblemsSolved(N)
        /\ stats.totalSubCount = Cardinality(N)
    BY SubsLength DEF StatsRecorded
  <2> HIDE DEF m
  <2>2. ASSUME NEW p \in stats.solved
        PROVE  EverSolved(p)
    <3>1. PICK s \in N : ~s.exam /\ s.accepted /\ s.problem = p
      BY <2>1 DEF ProblemsSolved
    <3>2. PICK i \in 1..m : s = subs[i]
      BY DEF NewestOf
    <3>3. QED
      BY <3>1, <3>2 DEF EverSolved, m
  <2>3. ASSUME NEW i \in 1..m, EverSolved(subs[i].problem)
        PROVE  subs[i].problem \in stats.solved \/ Retried(subs[i].problem)
    <3> DEFINE p == subs[i].problem
    <3>1. PICK a \in 1..m : subs[a].problem = p /\ subs[a].accepted /\ ~subs[a].exam
      BY <2>3 DEF EverSolved, m
    <3>2. PICK j \in 1..m : a <= j /\ subs[j].problem = p /\ subs[j] \in N
      BY <2>1, <3>1, NewestThere
    <3>3. CASE subs[j].accepted /\ ~subs[j].exam
      BY <2>1, <3>2, <3>3 DEF ProblemsSolved
    <3>4. CASE ~(subs[j].accepted /\ ~subs[j].exam)
      <4>1. a # j
        BY <3>1, <3>4
      <4>2. a < j
        BY <2>1, <3>2, <4>1
      <4>3. QED
        BY <3>1, <3>2, <3>4, <4>2 DEF Retried, m
    <3>5. QED
      BY <3>3, <3>4
  <2>4. Cardinality(N) = Cardinality({subs[i].problem : i \in 1..m})
    BY <2>1, NewestCounted
  <2>5. QED
    BY <2>1, <2>2, <2>3, <2>4 DEF m
<1>2. QED
  BY <1>1, AlwaysRecorded, PTL

\* The days and the streaks of an answer.
LEMMA AnswerRight ==
    ASSUME SubsTyped, StatsRecorded, stats.stage = "answered"
    PROVE  /\ Daily(stats.daily, subs, 1, Len(subs))
           /\ stats.streaks \in Seq(Seq(DayOf))
           /\ StreaksOf(stats.streaks, DaysWithSubs)
<1> DEFINE ds == stats.daily
           n == Len(subs)
<1>1. /\ n \in Nat /\ DOMAIN subs = 1..n /\ subs \in [1..n -> Sub] /\ InOrder(subs)
      /\ ds = DailySubmissions(subs) /\ stats.streaks = CalculateStreaks(ds)
  BY SubsLength DEF SubsTyped, StatsRecorded
<1> HIDE DEF ds, n
<1>2. Daily(ds, subs, 1, n)
  BY <1>1, DailySubmissionsDaily
<1> DEFINE m == Len(ds)
<1>3. m \in Nat /\ DOMAIN ds = 1..m /\ ds \in [1..m -> DayOf] /\ LatestFirst(ds)
  BY <1>2, LenProperties DEF Daily, LatestFirst
<1>4. Seen(ds, m) = DaysWithSubs
  <2>1. \A a \in 1..m : \E i \in 1..n : subs[i].day = ds[a].date
    BY <1>2, <1>3 DEF Daily
  <2>2. \A i \in 1..n : \E a \in 1..m : ds[a].date = subs[i].day
    BY <1>2, <1>3 DEF Daily
  <2> HIDE DEF m
  <2>3. ASSUME NEW d \in Seen(ds, m)
        PROVE  d \in DaysWithSubs
    <3>1. PICK a \in 1..m : d = ds[a].date
      BY DEF Seen
    <3>2. PICK i \in 1..n : subs[i].day = d
      BY <2>1, <3>1
    <3>3. QED
      BY <1>1, <3>2 DEF DaysWithSubs
  <2>4. ASSUME NEW d \in DaysWithSubs
        PROVE  d \in Seen(ds, m)
    <3>1. PICK i \in 1..n : d = subs[i].day
      BY <1>1 DEF DaysWithSubs
    <3>2. PICK a \in 1..m : ds[a].date = d
      BY <2>2, <3>1
    <3>3. QED
      BY <3>2 DEF Seen
  <2>5. QED
    BY <2>3, <2>4
<1> HIDE DEF m
<1>5. CalculateStreaks(ds) \in Seq(Seq(DayOf)) /\ StreaksOf(CalculateStreaks(ds), Seen(ds, m))
  BY <1>3, CalculateStreaksRight
<1>6. QED
  BY <1>1, <1>2, <1>4, <1>5 DEF ds, n

\* The streaks and the maximal runs are the same.
LEMMA StreaksAreRuns ==
    ASSUME SubsTyped, NEW t \in Seq(Seq(DayOf)), StreaksOf(t, DaysWithSubs)
    PROVE  /\ \A i \in DOMAIN t :
                /\ Oldest(t[i])..Newest(t[i]) \in MaximalRuns
                /\ {t[i][j].date : j \in DOMAIN t[i]} = Oldest(t[i])..Newest(t[i])
                /\ Cardinality(Oldest(t[i])..Newest(t[i])) = Len(t[i])
                /\ Oldest(t[i]) < Newest(t[i]) /\ Newest(t[i]) <= today
                /\ Oldest(t[i]) \in Nat /\ Newest(t[i]) \in Nat /\ Len(t[i]) \in 1..today
           /\ \A run \in MaximalRuns : \E i \in DOMAIN t : run = Oldest(t[i])..Newest(t[i])
           /\ Len(t) = Cardinality(MaximalRuns)
<1>1. Len(t) \in Nat /\ DOMAIN t = 1..Len(t)
  BY LenProperties
<1>2. DaysWithSubs \in SUBSET (1..today) /\ today \in Nat
  BY SubsLength DEF SubsTyped, DaysWithSubs
<1> DEFINE run(i) == Oldest(t[i])..Newest(t[i])
<1>3. ASSUME NEW i \in DOMAIN t
      PROVE  /\ run(i) \in MaximalRuns
             /\ {t[i][j].date : j \in DOMAIN t[i]} = run(i)
             /\ Cardinality(run(i)) = Len(t[i])
             /\ Oldest(t[i]) < Newest(t[i]) /\ Newest(t[i]) <= today
             /\ Oldest(t[i]) \in Nat /\ Newest(t[i]) \in Nat /\ Len(t[i]) \in 1..today
  <2> DEFINE o == Oldest(t[i])
             w == Newest(t[i])
  <2>1. DaysInRow(t[i]) /\ MaximalIn(DaysWithSubs, o, w)
    BY DEF StreaksOf
  <2>2. /\ o \in Nat /\ w \in Nat /\ Len(t[i]) \in Nat \ {0} /\ o = w - (Len(t[i]) - 1)
        /\ {t[i][j].date : j \in DOMAIN t[i]} = o..w
    BY <2>1, RowOfDays
  <2> HIDE DEF o, w
  <2>3. /\ o < w /\ o..w \subseteq DaysWithSubs
        /\ o - 1 \notin DaysWithSubs /\ w + 1 \notin DaysWithSubs
    BY <2>1 DEF MaximalIn
  <2>4. o \in o..w /\ w \in o..w
    BY <2>2, <2>3
  <2>5. o..w \in MaximalRuns
    BY <2>3, <2>4 DEF MaximalRuns
  <2>6. w <= today /\ o >= 1
    BY <1>2, <2>3, <2>4
  <2>7. Cardinality(o..w) = w - o + 1
    <3>1. o \in Int /\ w \in Int /\ ~(o > w)
      BY <2>2, <2>3
    <3>2. Cardinality(o..w) = IF o > w THEN 0 ELSE w - o + 1
      BY <3>1, FS_Interval
    <3>3. QED
      BY <3>1, <3>2
  <2>8. w - o + 1 = Len(t[i]) /\ Len(t[i]) \in 1..today
    BY <1>2, <2>2, <2>6
  <2>9. QED
    BY <2>2, <2>3, <2>5, <2>6, <2>7, <2>8 DEF o, w
<1>4. ASSUME NEW r \in MaximalRuns
      PROVE  \E i \in DOMAIN t : r = run(i)
  <2>1. PICK f, l \in r : /\ r \subseteq DaysWithSubs /\ f < l /\ r = f..l
                          /\ f - 1 \notin DaysWithSubs /\ l + 1 \notin DaysWithSubs
    BY DEF MaximalRuns
  <2>2. MaximalIn(DaysWithSubs, f, l)
    BY <2>1 DEF MaximalIn
  <2>3. PICK i \in DOMAIN t : Oldest(t[i]) = f /\ Newest(t[i]) = l
    BY <2>1, <2>2 DEF StreaksOf
  <2>4. QED
    BY <2>1, <2>3
<1>5. Len(t) = Cardinality(MaximalRuns)
  <2> DEFINE g == [i \in 1..Len(t) |-> run(i)]
  <2>1. g \in [1..Len(t) -> MaximalRuns]
    BY <1>1, <1>3
  <2>2. ASSUME NEW i \in 1..Len(t), NEW j \in 1..Len(t), i < j
        PROVE  run(i) # run(j)
    <3>1. Newest(t[j]) < Oldest(t[i])
      BY <1>1, <2>2 DEF StreaksOf
    <3>2. Oldest(t[i]) < Newest(t[i]) /\ Oldest(t[i]) \in Nat /\ Newest(t[i]) \in Nat
      BY <1>1, <1>3
    <3>3. Oldest(t[i]) \in run(i)
      BY <3>2
    <3>4. Newest(t[j]) \in Nat /\ Oldest(t[j]) \in Nat
      BY <1>1, <1>3
    <3>5. Oldest(t[i]) \notin run(j)
      BY <3>1, <3>2, <3>4
    <3>6. QED
      BY <3>3, <3>5
  <2>3. \A i, j \in 1..Len(t) : run(i) = run(j) => i = j
    <3>1. TAKE i, j \in 1..Len(t)
    <3>2. i < j \/ j < i \/ i = j
      BY <1>1
    <3> HIDE DEF run
    <3>3. QED
      BY <2>2, <3>2
  <2>4. \A r \in MaximalRuns : \E i \in 1..Len(t) : g[i] = r
    BY <1>1, <1>4
  <2>5. g \in Surjection(1..Len(t), MaximalRuns)
    BY <2>1, <2>4 DEF Surjection
  <2>6. g \in Injection(1..Len(t), MaximalRuns)
    <3>1. \A i \in 1..Len(t) : g[i] = run(i)
      OBVIOUS
    <3> HIDE DEF g, run
    <3>2. QED
      BY <2>1, <2>3, <3>1 DEF Injection, IsInjective
  <2>7. IsFiniteSet(1..Len(t)) /\ Cardinality(1..Len(t)) = Len(t)
    BY <1>1, FS_Interval
  <2> HIDE DEF g
  <2>8. QED
    BY <2>5, <2>6, <2>7, FS_Surjection
<1>6. QED
  BY <1>3, <1>4, <1>5

LEMMA LongestIs ==
    ASSUME NEW t, NEW n \in Nat, DOMAIN t # {}, t # <<>>,
           \A i \in DOMAIN t : Len(t[i]) \in 0..n
    PROVE  /\ \E i \in DOMAIN t : LongestStreak(t) = Len(t[i])
           /\ \A i \in DOMAIN t : Len(t[i]) <= LongestStreak(t)
<1> DEFINE T == {Len(t[i]) : i \in DOMAIN t}
<1>1. T \in SUBSET (0..n) /\ T # {}
  OBVIOUS
<1>2. \E m \in T : \A k \in T : k <= m
  <2> HIDE DEF T
  <2>1. QED
    BY <1>1, Greatest
<1>3. \E m \in T : \A i \in DOMAIN t : Len(t[i]) <= m
  BY <1>2
<1>4. LongestStreak(t) = CHOOSE m \in T : \A i \in DOMAIN t : Len(t[i]) <= m
  BY DEF LongestStreak
<1>5. LongestStreak(t) \in T /\ \A i \in DOMAIN t : Len(t[i]) <= LongestStreak(t)
  <2> HIDE DEF T
  <2>1. QED
    BY <1>3, <1>4
<1>6. QED
  BY <1>5

\* The answer's streaks are the maximal runs of days with submissions, and its
\* other numbers are theirs.
THEOREM StreaksAlwaysReported == UserStatsSpec => []StreakReport
<1>1. SubsTyped /\ StatsRecorded => StreakReport
  <2> SUFFICES ASSUME SubsTyped, StatsRecorded, stats.stage = "answered"
               PROVE  StreakReport
    BY DEF StreakReport
  <2> DEFINE t == stats.streaks
             DatesOf(streak) == {streak[i].date : i \in DOMAIN streak}
             run(i) == Oldest(t[i])..Newest(t[i])
  <2>1. /\ Daily(stats.daily, subs, 1, Len(subs))
        /\ t \in Seq(Seq(DayOf)) /\ StreaksOf(t, DaysWithSubs)
    BY AnswerRight
  <2>2. /\ Len(t) \in Nat /\ DOMAIN t = 1..Len(t) /\ today \in Nat
        /\ DOMAIN subs = 1..Len(subs)
    BY <2>1, LenProperties, SubsLength DEF SubsTyped
  <2>3. /\ \A i \in DOMAIN t :
             /\ run(i) \in MaximalRuns /\ DatesOf(t[i]) = run(i)
             /\ Cardinality(run(i)) = Len(t[i])
             /\ Oldest(t[i]) < Newest(t[i]) /\ Newest(t[i]) <= today
             /\ Oldest(t[i]) \in Nat /\ Newest(t[i]) \in Nat /\ Len(t[i]) \in 1..today
        /\ \A r \in MaximalRuns : \E i \in DOMAIN t : r = run(i)
        /\ Len(t) = Cardinality(MaximalRuns)
    BY <2>1, StreaksAreRuns
  <2>4. stats.longest = LongestStreak(t) /\ stats.active = StreakActive(t)
    BY DEF StatsRecorded
  <2> HIDE DEF t
  <2>5. {DatesOf(t[i]) : i \in DOMAIN t} = MaximalRuns
    <3> HIDE DEF DatesOf, run
    <3>1. QED
      BY <2>3
  <2>6. \A i \in DOMAIN stats.daily : stats.daily[i].count =
          Cardinality({j \in DOMAIN subs : subs[j].day = stats.daily[i].date})
    BY <2>1, <2>2 DEF Daily, OnDay
  <2>7. /\ stats.longest \in {Cardinality(r) : r \in MaximalRuns} \cup {MinusInfinity}
        /\ \A r \in MaximalRuns : Cardinality(r) <= stats.longest
    <3>1. CASE t = <<>>
      <4>1. MaximalRuns = {}
        BY <2>3, <3>1
      <4>2. QED
        BY <2>4, <3>1, <4>1 DEF LongestStreak
    <3>2. CASE t # <<>>
      <4>1. DOMAIN t # {}
        BY <2>1, <2>2, <3>2, LastOf DEF t
      <4>2. \A i \in DOMAIN t : Len(t[i]) \in 0..today
        BY <2>2, <2>3
      <4>3. /\ \E i \in DOMAIN t : LongestStreak(t) = Len(t[i])
            /\ \A i \in DOMAIN t : Len(t[i]) <= LongestStreak(t)
        BY <2>2, <3>2, <4>1, <4>2, LongestIs
      <4> HIDE DEF run, DatesOf
      <4>4. QED
        BY <2>3, <2>4, <4>3
    <3>3. QED
      BY <3>1, <3>2
  <2>8. ~stats.active
    <3>1. CASE t = <<>>
      BY <2>4, <3>1 DEF StreakActive
    <3>2. CASE t # <<>>
      <4>1. Len(t) \in DOMAIN t /\ Last(t) = t[Len(t)]
        BY <2>1, <3>2, LastOf DEF t
      <4>2. DaysInRow(Last(t))
        BY <2>1, <4>1 DEF StreaksOf, t
      <4>3. Last(Last(t)).date = Oldest(t[Len(t)])
        BY <4>1, <4>2, RowOfDays
      <4>4. Last(Last(t)).date # today
        BY <2>2, <2>3, <4>1, <4>3
      <4>5. QED
        BY <2>4, <4>4 DEF StreakActive
    <3>3. QED
      BY <3>1, <3>2
  <2>9. QED
    BY <2>3, <2>5, <2>6, <2>7, <2>8, Zenon DEF StreakReport, t
<1>2. QED
  BY <1>1, AlwaysRecorded, PTL
=============================================================================
