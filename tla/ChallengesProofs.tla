--------------------------- MODULE ChallengesProofs ---------------------------
(* Proofs about Challenges for any users, pages and requests.              *)
EXTENDS Challenges, FoldTheorems, SequenceTheorems, TLAPS

-----------------------------------------------------------------------------
(* The attempts as a sequence *)

\* A new row is the last; the others stay.
LEMMA AppendRow ==
    ASSUME NEW a \in Seq(Row), NEW row \in Row
    PROVE  /\ Append(a, row) \in Seq(Row)
           /\ Len(a) + 1 \notin DOMAIN a
           /\ DOMAIN Append(a, row) = DOMAIN a \cup {Len(a) + 1}
           /\ Append(a, row)[Len(a) + 1] = row
           /\ \A i \in DOMAIN a : Append(a, row)[i] = a[i]
<1>1. /\ Len(a) \in Nat /\ DOMAIN a = 1..Len(a)
  BY LenProperties
<1>2. /\ Append(a, row) \in Seq(Row)
      /\ Len(Append(a, row)) = Len(a) + 1
      /\ \A i \in 1..Len(a) : Append(a, row)[i] = a[i]
      /\ Append(a, row)[Len(a) + 1] = row
  BY AppendProperties
<1>3. DOMAIN Append(a, row) = 1..(Len(a) + 1)
  BY <1>2, LenProperties
<1>4. 1..(Len(a) + 1) = (1..Len(a)) \cup {Len(a) + 1}
  BY <1>1
<1>5. QED
  BY <1>1, <1>2, <1>3, <1>4

\* A new score changes nothing else.
LEMMA ScoreRow ==
    ASSUME NEW a \in Seq(Row), NEW i \in DOMAIN a, NEW v \in 0..2
    PROVE  /\ [a EXCEPT ![i].score = v] \in Seq(Row)
           /\ DOMAIN [a EXCEPT ![i].score = v] = DOMAIN a
           /\ \A j \in DOMAIN a :
                [a EXCEPT ![i].score = v][j] = IF j = i THEN [a[i] EXCEPT !.score = v] ELSE a[j]
<1> DEFINE b == [a EXCEPT ![i].score = v]
<1>1. /\ Len(a) \in Nat /\ DOMAIN a = 1..Len(a) /\ a \in [1..Len(a) -> Row]
  BY LenProperties
<1>2. a[i] \in Row /\ [a[i] EXCEPT !.score = v] \in Row
  BY <1>1 DEF Row
<1>3. b = [a EXCEPT ![i] = [a[i] EXCEPT !.score = v]]
  OBVIOUS
<1>4. /\ b \in Seq(Row)
      /\ Len(b) = Len(a)
      /\ \A j \in 1..Len(a) : b[j] = IF j = i THEN [a[i] EXCEPT !.score = v] ELSE a[j]
  BY <1>1, <1>2, <1>3, ExceptSeq
<1>5. DOMAIN b = 1..Len(a)
  BY <1>4, LenProperties
<1>6. QED
  BY <1>1, <1>4, <1>5

LEMMA ScoreInRange ==
    ASSUME NEW picture, NEW target, NEW isKilled \in BOOLEAN
    PROVE  /\ ScoreOf(picture, target, isKilled) \in 0..2
           /\ isKilled => ScoreOf(picture, target, isKilled) = 0
           /\ ~isKilled => /\ ScoreOf(picture, target, isKilled) = Grade(picture, target)
                           /\ ScoreOf(picture, target, isKilled) # 0
  BY DEF ScoreOf, Grade

LEMMA BlankIsPage == BlankPage \in Pages
  BY PageBodiesAssumption DEF BlankPage, Pages

\* What is stored is a page, and the body itself if it has every column.
LEMMA MergedPage ==
    ASSUME NEW body \in Bodies, NEW page \in Pages
    PROVE  /\ Merge(body, page) \in Pages
           /\ IsWhole(body) => Merge(body, page) = body
  BY DEF Merge, IsWhole, Bodies, Pages

-----------------------------------------------------------------------------
(* The actions, in the groups in which the proofs treat them *)

\* The rows a recalculation is asked for are there.
Chosen(chosen) ==
    \/ chosen = [i \in DOMAIN attempts |-> i]
    \/ \E i \in DOMAIN attempts : chosen = <<i>>

RowActions ==
    \/ \E body \in Bodies : CreateChallenge(body)
    \/ DeleteChallenge
    \/ \E e \in Edits :
         \/ \E body \in Bodies, otherHead \in BOOLEAN : EditRead(e, body, otherHead)
         \/ EditWrite(e) \/ EditFail(e)

SubmitActions(s) ==
    \/ \E u \in Users, body \in Bodies : SubmitFind(s, u, body)
    \/ SubmitCreate(s)
    \/ \E isKilled \in BOOLEAN : SubmitScore(s, isKilled)
    \/ SubmitRemove(s) \/ SubmitFail(s)

DummyActions(d) == (\E u \in Users : DummyFind(d, u)) \/ DummyCreate(d) \/ DummyFail(d)

RecalcActions(r) ==
    \/ \E chosen : Chosen(chosen) /\ RecalcRead(r, chosen)
    \/ \E isKilled \in BOOLEAN : RecalcOne(r, isKilled)
    \/ RecalcDone(r) \/ RecalcFail(r)

StrayAction == \E i \in DOMAIN attempts, score \in 0..2 : RescoreElsewhere(i, score)

LEMMA NextCases ==
    ASSUME [Next]_vars
    PROVE  \/ RowActions
           \/ \E s \in Submits : SubmitActions(s)
           \/ \E d \in Dummies : DummyActions(d)
           \/ \E r \in Recalcs : RecalcActions(r)
           \/ StrayAction
           \/ UNCHANGED vars
<1>1. ASSUME NEW r \in Recalcs,
             \/ RecalcRead(r, [i \in DOMAIN attempts |-> i])
             \/ \E i \in DOMAIN attempts : RecalcRead(r, <<i>>)
      PROVE  \E chosen : Chosen(chosen) /\ RecalcRead(r, chosen)
  <2>1. CASE RecalcRead(r, [i \in DOMAIN attempts |-> i])
    BY <2>1 DEF Chosen
  <2>2. ASSUME NEW i \in DOMAIN attempts, RecalcRead(r, <<i>>)
        PROVE  \E chosen : Chosen(chosen) /\ RecalcRead(r, chosen)
    BY <2>2 DEF Chosen
  <2>3. QED
    BY <1>1, <2>1, <2>2
<1>2. QED
  BY <1>1, Zenon DEF Next, RowActions, SubmitActions, DummyActions, RecalcActions,
                     StrayAction

-----------------------------------------------------------------------------
(* Types, and which request a row comes from *)

\* A request has no row before it creates one, which then holds its body and
\* has a directory until it is scored.  A challenge that exists holds a page.
Origins ==
    /\ Exists => challenge.content \in Pages
    /\ \A e \in Edits : edit[e].stage = "writing" => edit[e].body \in Bodies
    /\ \A s \in Submits : submit[s].stage = "drawing" => submit[s].user \in Users
    /\ \A d \in Dummies : dummy[d].stage = "creating" => dummy[d].user \in Users
    /\ \A i \in DOMAIN attempts : Submitted(i) => attempts[i].by \in Submits
    /\ \A i \in DOMAIN attempts : attempts[i].by \in Submits =>
         /\ submit[attempts[i].by].stage \in {"scoring", "removing", "done", "failed"}
         /\ submit[attempts[i].by].stage = "scoring"
              => attempts[i].imgCode = submit[attempts[i].by].code
    /\ \A s \in Submits : submit[s].stage = "scoring" =>
         /\ s \in dirs
         /\ \E i \in DOMAIN attempts : attempts[i].by = s

Typed == TypeOK /\ Origins

\* RowOf(s) is the row of a request that is scoring.
LEMMA OwnRow ==
    ASSUME Typed, NEW s \in Submits, submit[s].stage = "scoring"
    PROVE  RowOf(s) \in DOMAIN attempts /\ attempts[RowOf(s)].by = s
  BY DEF Typed, Origins, RowOf

LEMMA NoRowYet ==
    ASSUME Typed, NEW s \in Submits, submit[s].stage = "drawing"
    PROVE  \A i \in DOMAIN attempts : attempts[i].by # s
  BY DEF Typed, Origins

SubmitType ==
    [Submits -> [stage : {"idle", "drawing", "scoring", "removing", "done", "failed"},
                 user : Users \cup {Nil}, code : Bodies \cup {Nil}, target : Pages \cup {Nil}]]

LEMMA SubmitStageTyped ==
    ASSUME NEW f \in SubmitType, NEW s \in Submits
    PROVE  [f EXCEPT ![s].stage = "scoring"] \in SubmitType
<1>1. [f[s] EXCEPT !.stage = "scoring"]
        \in [stage : {"idle", "drawing", "scoring", "removing", "done", "failed"},
            user : Users \cup {Nil}, code : Bodies \cup {Nil}, target : Pages \cup {Nil}]
  BY DEF SubmitType
<1>2. QED
  BY <1>1 DEF SubmitType

RecalcType(indices) ==
    [Recalcs -> [stage : {"idle", "looping"}, list : Seq(indices), target : Bodies \cup {Nil}]]

LEMMA RecalcListTyped ==
    ASSUME NEW D, NEW f \in RecalcType(D), NEW r \in Recalcs, NEW rest \in Seq(D)
    PROVE  [f EXCEPT ![r].list = rest] \in RecalcType(D)
<1>1. [f[r] EXCEPT !.list = rest]
        \in [stage : {"idle", "looping"}, list : Seq(D), target : Bodies \cup {Nil}]
  BY DEF RecalcType
<1>2. QED
  BY <1>1 DEF RecalcType

LEMMA RecalcTypeGrows ==
    ASSUME NEW D, NEW E, D \subseteq E, NEW f \in RecalcType(D)
    PROVE  f \in RecalcType(E)
<1>1. ASSUME NEW r \in Recalcs
      PROVE  f[r] \in [stage : {"idle", "looping"}, list : Seq(E), target : Bodies \cup {Nil}]
  <2>1. f[r] \in [stage : {"idle", "looping"}, list : Seq(D), target : Bodies \cup {Nil}]
    BY DEF RecalcType
  <2>2. f[r].list \in Seq(E)
    BY <2>1, SeqMonotonic
  <2>3. QED
    BY <2>1, <2>2
<1>2. QED
  BY <1>1 DEF RecalcType

\* A row is added: what the types say of the other rows stays.
LEMMA AppendTyped ==
    ASSUME TypeOK, NEW row \in Row, attempts' = Append(attempts, row)
    PROVE  /\ attempts' \in Seq(Row)
           /\ DOMAIN attempts' = DOMAIN attempts \cup {Len(attempts) + 1}
           /\ Len(attempts) + 1 \notin DOMAIN attempts
           /\ attempts'[Len(attempts) + 1] = row
           /\ \A i \in DOMAIN attempts : attempts'[i] = attempts[i]
           /\ recalc \in RecalcType(DOMAIN attempts')
<1>1. attempts \in Seq(Row) /\ recalc \in RecalcType(DOMAIN attempts)
  BY DEF TypeOK, RecalcType
<1>2. QED
  BY <1>1, AppendRow, RecalcTypeGrows

LEMMA InitTyped == Init => Typed
<1> SUFFICES ASSUME Init PROVE Typed
  OBVIOUS
<1>1. /\ attempts \in Seq(Row) /\ DOMAIN attempts = {}
      /\ <<>> \in Seq(DOMAIN attempts)
  BY EmptySeq DEF Init
<1>2. TypeOK
  BY <1>1 DEF Init, TypeOK, OneAttemptEach, Absent, SubmitAt, DummyIdle, EditIdle, RecalcIdle
<1>3. Origins
  BY <1>1 DEF Init, Origins, Exists, Absent, SubmitAt, DummyIdle, EditIdle
<1>4. QED
  BY <1>2, <1>3 DEF Typed

LEMMA RowActionsTyped ==
    ASSUME Typed, RowActions
    PROVE  Typed'
<1> USE DEF Typed, TypeOK
<1>1. ASSUME NEW body \in Bodies, CreateChallenge(body) PROVE Typed'
  <2>1. /\ challenge'.content \in Pages /\ challenge'.preview \in Bodies
        /\ challenge' \in [state : {"absent", "exists", "deleted"},
                           content : Pages \cup {Nil}, preview : Bodies \cup {Nil}]
    BY <1>1, BlankIsPage, MergedPage DEF CreateChallenge
  <2>2. whole' \in BOOLEAN
    BY <1>1 DEF CreateChallenge, IsWhole
  <2>3. UNCHANGED <<attempts, submit, dummy, edit, recalc, dirs, edited, killed, stray, quiet>>
    BY <1>1 DEF CreateChallenge, handlers
  <2>4. QED
    BY <2>1, <2>2, <2>3 DEF Origins, OneAttemptEach, Submitted
<1>2. CASE DeleteChallenge
  BY <1>2 DEF DeleteChallenge, handlers, history, Exists, Origins, OneAttemptEach, Submitted
<1>3. ASSUME NEW e \in Edits, NEW body \in Bodies, NEW otherHead \in BOOLEAN,
             EditRead(e, body, otherHead)
      PROVE  Typed'
  BY <1>3 DEF EditRead, history, Exists, Origins, OneAttemptEach, Submitted
<1>4. ASSUME NEW e \in Edits, EditWrite(e) PROVE Typed'
  <2>1. Exists /\ challenge.content \in Pages /\ edit[e].body \in Bodies
    BY <1>4 DEF EditWrite, Origins
  <2>2. Merge(edit[e].body, challenge.content) \in Pages
    BY <2>1, MergedPage
  <2>3. /\ EditedRow(e) \in [state : {"absent", "exists", "deleted"},
                             content : Pages \cup {Nil}, preview : Bodies \cup {Nil}]
        /\ EditedRow(e).content \in Pages
    BY <2>1, <2>2 DEF EditedRow
  <2>4. edited' \in BOOLEAN /\ whole' \in BOOLEAN
    BY <1>4 DEF EditWrite, IsWhole
  <2>5. /\ challenge' = EditedRow(e) /\ quiet' = {}
        /\ edit' = [edit EXCEPT ![e] = EditIdle]
        /\ UNCHANGED <<attempts, submit, dummy, recalc, dirs, killed, stray>>
    BY <1>4 DEF EditWrite, EndEdit
  <2>6. QED
    BY <2>3, <2>4, <2>5 DEF EditIdle, Exists, Origins, OneAttemptEach, Submitted
<1>5. ASSUME NEW e \in Edits, EditFail(e) PROVE Typed'
  BY <1>5 DEF EditFail, EndEdit, EditIdle, history, Exists, Origins, OneAttemptEach, Submitted
<1>6. QED
  BY <1>1, <1>2, <1>3, <1>4, <1>5 DEF RowActions

\* What creating and scoring an attempt write.
LEMMA RowCreated ==
    ASSUME Typed, NEW s \in Submits, SubmitCreate(s)
    PROVE  LET new == Len(attempts) + 1
           IN /\ attempts' \in Seq(Row)
              /\ DOMAIN attempts' = DOMAIN attempts \cup {new}
              /\ new \notin DOMAIN attempts
              /\ attempts'[new] = SubmittedRow(s)
              /\ \A i \in DOMAIN attempts : attempts'[i] = attempts[i]
              /\ recalc \in RecalcType(DOMAIN attempts')
<1>1. SubmittedRow(s) \in Row
  BY DEF SubmitCreate, SubmittedRow, Row, Origins, Typed, TypeOK
<1>2. QED
  BY <1>1, AppendTyped DEF SubmitCreate, Typed

LEMMA DummyCreated ==
    ASSUME Typed, NEW d \in Dummies, DummyCreate(d)
    PROVE  LET new == Len(attempts) + 1
           IN /\ attempts' \in Seq(Row)
              /\ DOMAIN attempts' = DOMAIN attempts \cup {new}
              /\ new \notin DOMAIN attempts
              /\ attempts'[new] = DummyRow(d)
              /\ \A i \in DOMAIN attempts : attempts'[i] = attempts[i]
              /\ recalc \in RecalcType(DOMAIN attempts')
<1>1. DummyRow(d) \in Row
  BY DEF DummyCreate, DummyRow, Row, Origins, Typed, TypeOK
<1>2. QED
  BY <1>1, AppendTyped DEF DummyCreate, Typed

LEMMA RowScored ==
    ASSUME Typed, NEW s \in Submits, NEW isKilled \in BOOLEAN, SubmitScore(s, isKilled)
    PROVE  LET own == RowOf(s)
               value == ScoreOf(submit[s].code, submit[s].target, isKilled)
           IN /\ own \in DOMAIN attempts
              /\ attempts[own].by = s
              /\ attempts[own].imgCode = submit[s].code
              /\ attempts' \in Seq(Row)
              /\ DOMAIN attempts' = DOMAIN attempts
              /\ \A j \in DOMAIN attempts :
                   /\ j # own => attempts'[j] = attempts[j]
                   /\ attempts'[j].by = attempts[j].by
                   /\ attempts'[j].submitted = attempts[j].submitted
                   /\ attempts'[j].imgCode = attempts[j].imgCode
              /\ attempts'[own].score = value
              /\ killed' = IF isKilled THEN killed \cup {own} ELSE killed \ {own}
              /\ stray' = stray \ {own}
<1> DEFINE own == RowOf(s)
           value == ScoreOf(submit[s].code, submit[s].target, isKilled)
<1>1. /\ own \in DOMAIN attempts /\ attempts[own].by = s /\ value \in 0..2
      /\ submit[s].stage = "scoring"
  BY OwnRow, ScoreInRange DEF SubmitScore
<1>2. attempts[own].imgCode = submit[s].code
  BY <1>1 DEF Typed, Origins
<1>3. attempts \in Seq(Row) /\ \A j \in DOMAIN attempts : attempts[j] \in Row
  BY LenProperties DEF Typed, TypeOK
<1>4. /\ attempts' = [attempts EXCEPT ![own].score = value]
      /\ killed' = IF isKilled THEN killed \cup {own} ELSE killed \ {own}
      /\ stray' = stray \ {own}
  BY DEF SubmitScore, Scored
<1> HIDE DEF own, value
<1>5. /\ attempts' \in Seq(Row)
      /\ DOMAIN attempts' = DOMAIN attempts
      /\ \A j \in DOMAIN attempts :
           attempts'[j] = IF j = own THEN [attempts[own] EXCEPT !.score = value] ELSE attempts[j]
  BY <1>1, <1>3, <1>4, ScoreRow
<1>6. /\ \A j \in DOMAIN attempts :
           /\ j # own => attempts'[j] = attempts[j]
           /\ attempts'[j].by = attempts[j].by
           /\ attempts'[j].submitted = attempts[j].submitted
           /\ attempts'[j].imgCode = attempts[j].imgCode
      /\ attempts'[own].score = value
  BY <1>1, <1>3, <1>5 DEF Row
<1>7. QED
  BY <1>1, <1>2, <1>4, <1>5, <1>6 DEF own, value

LEMMA SubmitActionsTyped ==
    ASSUME Typed, NEW s \in Submits, SubmitActions(s)
    PROVE  Typed'
<1> USE DEF Typed, TypeOK
<1>1. ASSUME NEW u \in Users, NEW body \in Bodies, SubmitFind(s, u, body)
      PROVE  Typed'
  BY <1>1 DEF SubmitFind, SubmitAt, Exists, Origins, OneAttemptEach, Submitted
<1>2. CASE SubmitCreate(s)
  <2> DEFINE new == Len(attempts) + 1
  <2>2. /\ attempts' \in Seq(Row)
        /\ DOMAIN attempts' = DOMAIN attempts \cup {new}
        /\ new \notin DOMAIN attempts
        /\ attempts'[new] = SubmittedRow(s)
        /\ \A i \in DOMAIN attempts : attempts'[i] = attempts[i]
        /\ recalc \in RecalcType(DOMAIN attempts')
    BY <1>2, RowCreated
  <2> HIDE DEF new
  <2>3. /\ submit[s].stage = "drawing"
        /\ submit' = [submit EXCEPT ![s].stage = "scoring"]
        /\ dirs' = dirs \cup {s}
        /\ quiet' = {}
        /\ UNCHANGED <<challenge, dummy, edit, recalc, edited, whole, killed, stray>>
    BY <1>2 DEF SubmitCreate, SetSubmit
  <2>4. /\ attempts'[new].by = s /\ attempts'[new].imgCode = submit[s].code
        /\ \A i \in DOMAIN attempts : attempts[i].by # s
    <3>1. attempts'[new].by = s /\ attempts'[new].imgCode = submit[s].code
      BY <2>2 DEF SubmittedRow
    <3>2. \A i \in DOMAIN attempts : attempts[i].by # s
      BY <2>3, NoRowYet
    <3>3. QED
      BY <3>1, <3>2
  <2>5. OneAttemptEach'
    <3>1. ASSUME NEW i \in DOMAIN attempts', NEW j \in DOMAIN attempts',
                 attempts'[i].by = attempts'[j].by, attempts'[i].by \in Submits
          PROVE  i = j
      <4>1. CASE i = new
        BY <3>1, <4>1, <2>2, <2>4
      <4>2. CASE i \in DOMAIN attempts /\ j = new
        BY <3>1, <4>2, <2>2, <2>4
      <4>3. CASE i \in DOMAIN attempts /\ j \in DOMAIN attempts
        BY <3>1, <4>3, <2>2 DEF OneAttemptEach
      <4>4. QED
        BY <4>1, <4>2, <4>3, <2>2
    <3>2. QED
      BY <3>1 DEF OneAttemptEach
  <2>6. /\ submit'[s].stage = "scoring" /\ submit'[s].code = submit[s].code
        /\ \A t \in Submits : t # s => submit'[t] = submit[t]
    BY <2>3
  <2>7. TypeOK'
    <3>1. submit' \in SubmitType
      <4>1. submit \in SubmitType
        BY DEF SubmitType
      <4>2. QED
        BY <2>3, <4>1, SubmitStageTyped
    <3>2. /\ killed' \subseteq DOMAIN attempts' /\ stray' \subseteq DOMAIN attempts'
          /\ dirs' \subseteq Submits /\ quiet' \subseteq Recalcs
      BY <2>2, <2>3
    <3>3. recalc' \in [Recalcs ->
            [stage : {"idle", "looping"}, list : Seq(DOMAIN attempts'), target : Bodies \cup {Nil}]]
      BY <2>2, <2>3 DEF RecalcType
    <3>4. QED
      BY <2>2, <2>3, <2>5, <3>1, <3>2, <3>3 DEF SubmitType
  <2>8. Origins'
    <3>1. ASSUME NEW i \in DOMAIN attempts'
          PROVE  /\ attempts'[i].submitted => attempts'[i].by \in Submits
                 /\ attempts'[i].by \in Submits =>
                      /\ submit'[attempts'[i].by].stage
                           \in {"scoring", "removing", "done", "failed"}
                      /\ submit'[attempts'[i].by].stage = "scoring"
                           => attempts'[i].imgCode = submit'[attempts'[i].by].code
      <4>1. CASE i = new
        BY <4>1, <2>4, <2>6
      <4>2. CASE i \in DOMAIN attempts
        BY <4>2, <2>2, <2>4, <2>6 DEF Origins, Submitted
      <4>3. QED
        BY <4>1, <4>2, <2>2
    <3>2. ASSUME NEW t \in Submits, submit'[t].stage = "scoring"
          PROVE  t \in dirs' /\ \E i \in DOMAIN attempts' : attempts'[i].by = t
      <4>1. CASE t = s
        BY <4>1, <2>2, <2>3, <2>4
      <4>2. CASE t # s
        BY <3>2, <4>2, <2>2, <2>3, <2>6 DEF Origins
      <4>3. QED
        BY <4>1, <4>2
    <3>3. \A t \in Submits : submit'[t].stage = "drawing" => submit'[t].user \in Users
      BY <2>6 DEF Origins
    <3>4. \A d \in Dummies : dummy'[d].stage = "creating" => dummy'[d].user \in Users
      BY <2>3 DEF Origins
    <3>5. /\ Exists' => challenge'.content \in Pages
          /\ \A e \in Edits : edit'[e].stage = "writing" => edit'[e].body \in Bodies
      BY <2>3 DEF Origins, Exists
    <3>6. QED
      BY <3>1, <3>2, <3>3, <3>4, <3>5 DEF Origins, Submitted
  <2>9. QED
    BY <2>7, <2>8
<1>3. ASSUME NEW isKilled \in BOOLEAN, SubmitScore(s, isKilled)
      PROVE  Typed'
  <2>2. /\ attempts' \in Seq(Row)
        /\ DOMAIN attempts' = DOMAIN attempts
        /\ killed' \subseteq DOMAIN attempts /\ stray' \subseteq DOMAIN attempts
    BY <1>3, RowScored
  <2>3. /\ submit' = [submit EXCEPT ![s] = SubmitAt("removing")]
        /\ UNCHANGED <<challenge, dummy, edit, recalc, dirs, edited, whole>>
        /\ quiet' = {}
    BY <1>3 DEF SubmitScore, EndSubmit
  <2>4. \A j \in DOMAIN attempts : /\ attempts'[j].by = attempts[j].by
                                   /\ attempts'[j].imgCode = attempts[j].imgCode
                                   /\ attempts'[j].submitted = attempts[j].submitted
    BY <1>3, RowScored
  <2>5. OneAttemptEach'
    BY <2>2, <2>4 DEF OneAttemptEach
  <2>6. TypeOK'
    BY <2>2, <2>3, <2>5 DEF SubmitAt
  <2>7. Origins'
    <3>1. /\ submit'[s].stage = "removing"
          /\ \A t \in Submits : t # s => submit'[t] = submit[t]
      BY <2>3 DEF SubmitAt
    <3>2. ASSUME NEW t \in Submits, submit'[t].stage = "scoring"
          PROVE  t \in dirs' /\ \E i \in DOMAIN attempts' : attempts'[i].by = t
      <4>1. submit[t].stage = "scoring"
        BY <3>1, <3>2
      <4>2. PICK i \in DOMAIN attempts : attempts[i].by = t
        BY <4>1 DEF Origins
      <4>3. t \in dirs
        BY <4>1 DEF Origins
      <4>4. QED
        BY <2>2, <2>3, <2>4, <4>2, <4>3
    <3>3. ASSUME NEW i \in DOMAIN attempts', attempts'[i].by \in Submits
          PROVE  /\ submit'[attempts'[i].by].stage \in {"scoring", "removing", "done", "failed"}
                 /\ submit'[attempts'[i].by].stage = "scoring"
                      => attempts'[i].imgCode = submit'[attempts'[i].by].code
      <4>1. /\ i \in DOMAIN attempts /\ attempts'[i].by = attempts[i].by
            /\ attempts'[i].imgCode = attempts[i].imgCode
        BY <2>2, <2>4
      <4>2. CASE attempts[i].by = s
        BY <3>1, <4>1, <4>2
      <4>3. CASE attempts[i].by # s
        BY <3>1, <3>3, <4>1, <4>3 DEF Origins
      <4>4. QED
        BY <4>2, <4>3
    <3>4. QED
      BY <2>2, <2>3, <2>4, <3>1, <3>2, <3>3 DEF Origins, Exists, Submitted
  <2>8. QED
    BY <2>6, <2>7
<1>4. CASE SubmitRemove(s)
  BY <1>4 DEF SubmitRemove, EndSubmit, SubmitAt, history, Exists, Origins, OneAttemptEach,
              Submitted
<1>5. CASE SubmitFail(s)
  <2>1. /\ dirs' \subseteq dirs \cup {s} /\ dirs \subseteq dirs'
        /\ submit' = [submit EXCEPT ![s] = SubmitAt("failed")]
        /\ \A i \in DOMAIN attempts : attempts[i].by = s => submit[s].stage # "drawing"
        /\ UNCHANGED <<challenge, attempts, dummy, edit, recalc, edited, whole, killed, stray>>
        /\ quiet' = {}
    BY <1>5 DEF SubmitFail, EndSubmit, Origins
  <2>2. QED
    BY <2>1 DEF SubmitAt, Exists, Origins, OneAttemptEach, Submitted
<1>6. QED
  BY <1>1, <1>2, <1>3, <1>4, <1>5 DEF SubmitActions

LEMMA DummyActionsTyped ==
    ASSUME Typed, NEW d \in Dummies, DummyActions(d)
    PROVE  Typed'
<1> USE DEF Typed, TypeOK
<1>1. ASSUME NEW u \in Users, DummyFind(d, u) PROVE Typed'
  BY <1>1 DEF DummyFind, history, Exists, Origins, OneAttemptEach, Submitted
<1>2. CASE DummyCreate(d)
  <2> DEFINE new == Len(attempts) + 1
  <2>2. /\ attempts' \in Seq(Row)
        /\ DOMAIN attempts' = DOMAIN attempts \cup {new}
        /\ new \notin DOMAIN attempts
        /\ attempts'[new] = DummyRow(d)
        /\ \A i \in DOMAIN attempts : attempts'[i] = attempts[i]
        /\ recalc \in RecalcType(DOMAIN attempts')
    BY <1>2, DummyCreated
  <2> HIDE DEF new
  <2>3. /\ DummyRow(d).by \notin Submits /\ ~DummyRow(d).submitted
        /\ dummy' = [dummy EXCEPT ![d] = DummyIdle]
        /\ UNCHANGED <<challenge, submit, edit, recalc, dirs, edited, whole, killed, stray, quiet>>
    BY <1>2, ChallengesAssumption DEF DummyCreate, DummyRow, EndDummy, history
  <2>4. OneAttemptEach'
    BY <2>2, <2>3 DEF OneAttemptEach
  <2>5. TypeOK'
    BY <2>2, <2>3, <2>4 DEF RecalcType, DummyIdle
  <2>6. Origins'
    BY <2>2, <2>3 DEF Origins, Exists, DummyIdle, Submitted
  <2>7. QED
    BY <2>5, <2>6
<1>3. CASE DummyFail(d)
  BY <1>3 DEF DummyFail, EndDummy, DummyIdle, history, Exists, Origins, OneAttemptEach, Submitted
<1>4. QED
  BY <1>1, <1>2, <1>3 DEF DummyActions

LEMMA ChosenType ==
    ASSUME TypeOK, NEW chosen, Chosen(chosen)
    PROVE  /\ chosen \in Seq(DOMAIN attempts)
           /\ Len(chosen) = Len(attempts)
                => \A i \in DOMAIN attempts : \E k \in 1..Len(chosen) : chosen[k] = i
<1>1. /\ attempts \in Seq(Row) /\ Len(attempts) \in Nat /\ DOMAIN attempts = 1..Len(attempts)
  BY LenProperties DEF TypeOK
<1>2. CASE chosen = [i \in DOMAIN attempts |-> i]
  <2>1. chosen \in [1..Len(attempts) -> DOMAIN attempts]
    BY <1>1, <1>2
  <2>2. chosen \in Seq(DOMAIN attempts)
    BY <1>1, <2>1, SeqDef
  <2>3. Len(chosen) \in Nat /\ DOMAIN chosen = 1..Len(chosen)
    BY <2>2, LenProperties
  <2>4. QED
    BY <1>1, <1>2, <2>2, <2>3
<1>3. ASSUME NEW i \in DOMAIN attempts, chosen = <<i>>
      PROVE  /\ chosen \in Seq(DOMAIN attempts)
             /\ Len(chosen) = Len(attempts)
                  => \A j \in DOMAIN attempts : \E k \in 1..Len(chosen) : chosen[k] = j
  <2>1. chosen \in Seq(DOMAIN attempts) /\ Len(chosen) = 1 /\ chosen[1] = i
    BY <1>3
  <2>2. QED
    BY <1>1, <2>1
<1>4. QED
  BY <1>2, <1>3 DEF Chosen

\* What a rescoring writes, if anything.
LEMMA Rescored ==
    ASSUME TypeOK, NEW r \in Recalcs, NEW isKilled \in BOOLEAN, RecalcOne(r, isKilled)
    PROVE  LET i == Head(recalc[r].list)
               value == ScoreOf(attempts[i].imgCode, recalc[r].target, isKilled)
           IN /\ i \in DOMAIN attempts
              /\ \/ /\ attempts[i].imgCode = Nil
                    /\ attempts' = attempts /\ killed' = killed /\ stray' = stray
                 \/ /\ attempts[i].imgCode # Nil
                    /\ attempts' = [attempts EXCEPT ![i].score = value]
                    /\ killed' = IF isKilled THEN killed \cup {i} ELSE killed \ {i}
                    /\ stray' = stray \ {i}
              /\ attempts' \in Seq(Row)
              /\ DOMAIN attempts' = DOMAIN attempts
              /\ \A j \in DOMAIN attempts :
                   /\ j # i => attempts'[j] = attempts[j]
                   /\ attempts'[j].by = attempts[j].by
                   /\ attempts'[j].user = attempts[j].user
                   /\ attempts'[j].submitted = attempts[j].submitted
                   /\ attempts'[j].imgCode = attempts[j].imgCode
              /\ attempts[i].imgCode # Nil => attempts'[i].score = value
<1> DEFINE i == Head(recalc[r].list)
           value == ScoreOf(attempts[i].imgCode, recalc[r].target, isKilled)
<1>1. i \in DOMAIN attempts
  <2>1. recalc[r].list \in Seq(DOMAIN attempts) /\ recalc[r].list # <<>>
    BY DEF TypeOK, RecalcOne
  <2>2. QED
    BY <2>1, HeadTailProperties
<1>2. attempts \in Seq(Row) /\ value \in 0..2
  BY ScoreInRange DEF TypeOK
<1>3. /\ attempts[i].imgCode = Nil => attempts' = attempts /\ killed' = killed /\ stray' = stray
      /\ attempts[i].imgCode # Nil =>
           /\ attempts' = [attempts EXCEPT ![i].score = value]
           /\ killed' = IF isKilled THEN killed \cup {i} ELSE killed \ {i}
           /\ stray' = stray \ {i}
  BY DEF RecalcOne, Rescore, Scored
<1>4. \A j \in DOMAIN attempts : attempts[j] \in Row
  BY <1>2, LenProperties
<1> HIDE DEF i, value
<1>5. CASE attempts[i].imgCode = Nil
  BY <1>1, <1>2, <1>3, <1>5 DEF i, value
<1>6. CASE attempts[i].imgCode # Nil
  <2>1. /\ attempts' \in Seq(Row)
        /\ DOMAIN attempts' = DOMAIN attempts
        /\ \A j \in DOMAIN attempts :
             attempts'[j] = IF j = i THEN [attempts[i] EXCEPT !.score = value] ELSE attempts[j]
    <3>1. attempts' = [attempts EXCEPT ![i].score = value]
      BY <1>3, <1>6
    <3>2. QED
      BY <1>1, <1>2, <3>1, ScoreRow
  <2>2. /\ \A j \in DOMAIN attempts :
             /\ j # i => attempts'[j] = attempts[j]
             /\ attempts'[j].by = attempts[j].by
             /\ attempts'[j].user = attempts[j].user
             /\ attempts'[j].submitted = attempts[j].submitted
             /\ attempts'[j].imgCode = attempts[j].imgCode
        /\ attempts'[i].score = value
    BY <1>1, <1>4, <2>1 DEF Row
  <2>3. QED
    BY <1>1, <1>3, <1>6, <2>1, <2>2 DEF i, value
<1>7. QED
  BY <1>5, <1>6

LEMMA RecalcActionsTyped ==
    ASSUME Typed, NEW r \in Recalcs, RecalcActions(r)
    PROVE  Typed'
<1> USE DEF Typed
<1>1. ASSUME NEW chosen, Chosen(chosen), RecalcRead(r, chosen) PROVE Typed'
  <2>1. chosen \in Seq(DOMAIN attempts)
    BY <1>1, ChosenType
  <2>2. /\ recalc' = [recalc EXCEPT ![r] = [stage |-> "looping", list |-> chosen,
                                          target |-> challenge.preview]]
        /\ quiet' \subseteq Recalcs
        /\ UNCHANGED <<challenge, attempts, submit, dummy, edit, dirs, edited, whole, killed, stray>>
    BY <1>1 DEF RecalcRead
  <2>3. TypeOK'
    BY <2>1, <2>2 DEF TypeOK, OneAttemptEach
  <2>4. Origins'
    BY <2>2 DEF Origins, Exists, Submitted
  <2>5. QED
    BY <2>3, <2>4
<1>2. ASSUME NEW isKilled \in BOOLEAN, RecalcOne(r, isKilled) PROVE Typed'
  <2>1. /\ attempts' \in Seq(Row)
        /\ DOMAIN attempts' = DOMAIN attempts
        /\ \A j \in DOMAIN attempts :
             /\ attempts'[j].by = attempts[j].by
             /\ attempts'[j].submitted = attempts[j].submitted
             /\ attempts'[j].imgCode = attempts[j].imgCode
        /\ killed' \subseteq killed \cup DOMAIN attempts /\ stray' \subseteq stray
    BY <1>2, Rescored
  <2>2. /\ recalc[r].list \in Seq(DOMAIN attempts) /\ recalc[r].list # <<>>
        /\ recalc' = [recalc EXCEPT ![r].list = Tail(@)]
        /\ quiet' = quiet \cap {r}
        /\ UNCHANGED <<challenge, submit, dummy, edit, dirs, edited, whole>>
    BY <1>2 DEF RecalcOne, TypeOK
  <2>3. Tail(recalc[r].list) \in Seq(DOMAIN attempts)
    BY <2>2, HeadTailProperties
  <2>4. recalc' \in RecalcType(DOMAIN attempts')
    <3>1. recalc \in RecalcType(DOMAIN attempts)
      BY DEF TypeOK, RecalcType
    <3>2. QED
      BY <2>1, <2>2, <2>3, <3>1, RecalcListTyped
  <2>5. OneAttemptEach'
    BY <2>1 DEF TypeOK, OneAttemptEach
  <2>6. TypeOK'
    BY <2>1, <2>2, <2>4, <2>5 DEF TypeOK, RecalcType
  <2>7. Origins'
    <3>1. \A s \in Submits : submit'[s].stage = "scoring" =>
            s \in dirs' /\ \E i \in DOMAIN attempts' : attempts'[i].by = s
      BY <2>1, <2>2 DEF Origins
    <3>2. \A i \in DOMAIN attempts' :
            /\ attempts'[i].submitted => attempts'[i].by \in Submits
            /\ attempts'[i].by \in Submits =>
                 /\ submit'[attempts'[i].by].stage \in {"scoring", "removing", "done", "failed"}
                 /\ submit'[attempts'[i].by].stage = "scoring"
                      => attempts'[i].imgCode = submit'[attempts'[i].by].code
      BY <2>1, <2>2 DEF Origins, Submitted
    <3>3. QED
      BY <2>2, <3>1, <3>2 DEF Origins, Exists, Submitted
  <2>8. QED
    BY <2>6, <2>7
<1>3. CASE RecalcDone(r) \/ RecalcFail(r)
  <2>1. /\ recalc' = [recalc EXCEPT ![r] = RecalcIdle]
        /\ quiet' \subseteq quiet
        /\ UNCHANGED <<challenge, attempts, submit, dummy, edit, dirs, edited, whole, killed, stray>>
    BY <1>3 DEF RecalcDone, RecalcFail, EndRecalc, history
  <2>2. <<>> \in Seq(DOMAIN attempts)
    BY EmptySeq
  <2>3. TypeOK'
    BY <2>1, <2>2 DEF TypeOK, OneAttemptEach, RecalcIdle
  <2>4. Origins'
    BY <2>1 DEF Origins, Exists, Submitted
  <2>5. QED
    BY <2>3, <2>4
<1>4. QED
  BY <1>1, <1>2, <1>3 DEF RecalcActions

\* What a recalculation of another challenge writes.
LEMMA StrayScored ==
    ASSUME TypeOK, NEW i \in DOMAIN attempts, NEW score \in 0..2, RescoreElsewhere(i, score)
    PROVE  /\ attempts' \in Seq(Row)
           /\ DOMAIN attempts' = DOMAIN attempts
           /\ attempts[i].imgCode # Nil
           /\ \A j \in DOMAIN attempts :
                /\ j # i => attempts'[j] = attempts[j]
                /\ attempts'[j].by = attempts[j].by
                /\ attempts'[j].submitted = attempts[j].submitted
                /\ attempts'[j].imgCode = attempts[j].imgCode
           /\ attempts'[i].score = score
           /\ killed' = IF score = 0 THEN killed \cup {i} ELSE killed \ {i}
           /\ stray' = stray \cup {i} /\ quiet' = {}
           /\ UNCHANGED <<challenge, submit, dummy, edit, recalc, dirs, edited, whole>>
<1>1. attempts \in Seq(Row) /\ \A j \in DOMAIN attempts : attempts[j] \in Row
  BY LenProperties DEF TypeOK
<1>2. /\ attempts' = [attempts EXCEPT ![i].score = score]
      /\ attempts[i].imgCode # Nil
      /\ killed' = IF score = 0 THEN killed \cup {i} ELSE killed \ {i}
      /\ stray' = stray \cup {i} /\ quiet' = {}
      /\ UNCHANGED <<challenge, submit, dummy, edit, recalc, dirs, edited, whole>>
  BY DEF RescoreElsewhere, handlers
<1>3. /\ attempts' \in Seq(Row)
      /\ DOMAIN attempts' = DOMAIN attempts
      /\ \A j \in DOMAIN attempts :
           attempts'[j] = IF j = i THEN [attempts[i] EXCEPT !.score = score] ELSE attempts[j]
  BY <1>1, <1>2, ScoreRow
<1>4. QED
  BY <1>1, <1>2, <1>3 DEF Row

LEMMA StrayActionTyped == ASSUME Typed, StrayAction PROVE Typed'
<1>1. PICK i \in DOMAIN attempts, score \in 0..2 : RescoreElsewhere(i, score)
  BY DEF StrayAction
<1>2. /\ attempts' \in Seq(Row)
      /\ DOMAIN attempts' = DOMAIN attempts
      /\ \A j \in DOMAIN attempts : /\ attempts'[j].by = attempts[j].by
                                    /\ attempts'[j].submitted = attempts[j].submitted
                                    /\ attempts'[j].imgCode = attempts[j].imgCode
      /\ killed' \subseteq killed \cup {i} /\ stray' = stray \cup {i} /\ quiet' = {}
      /\ UNCHANGED <<challenge, submit, dummy, edit, recalc, dirs, edited, whole>>
  BY <1>1, StrayScored DEF Typed
<1>3. TypeOK'
  BY <1>2 DEF Typed, TypeOK, OneAttemptEach
<1>4. Origins'
  <2>1. \A s \in Submits : submit'[s].stage = "scoring" =>
          s \in dirs' /\ \E j \in DOMAIN attempts' : attempts'[j].by = s
    BY <1>2 DEF Typed, Origins
  <2>2. \A j \in DOMAIN attempts' :
          /\ attempts'[j].submitted => attempts'[j].by \in Submits
          /\ attempts'[j].by \in Submits =>
               /\ submit'[attempts'[j].by].stage \in {"scoring", "removing", "done", "failed"}
               /\ submit'[attempts'[j].by].stage = "scoring"
                    => attempts'[j].imgCode = submit'[attempts'[j].by].code
    BY <1>2 DEF Typed, Origins, Submitted
  <2>3. QED
    BY <1>2, <2>1, <2>2 DEF Typed, Origins, Exists, Submitted
<1>5. QED
  BY <1>3, <1>4 DEF Typed

LEMMA NextTyped == ASSUME Typed, [Next]_vars PROVE Typed'
<1>1. CASE RowActions
  BY <1>1, RowActionsTyped
<1>2. ASSUME NEW s \in Submits, SubmitActions(s) PROVE Typed'
  BY <1>2, SubmitActionsTyped
<1>3. ASSUME NEW d \in Dummies, DummyActions(d) PROVE Typed'
  BY <1>3, DummyActionsTyped
<1>4. ASSUME NEW r \in Recalcs, RecalcActions(r) PROVE Typed'
  BY <1>4, RecalcActionsTyped
<1>5. CASE StrayAction
  BY <1>5, StrayActionTyped
<1>6. CASE UNCHANGED vars
  BY <1>6 DEF vars, handlers, history, Typed, TypeOK, OneAttemptEach, Origins, Exists, Submitted
<1>7. QED
  BY <1>1, <1>2, <1>3, <1>4, <1>5, <1>6, NextCases

\* Types hold, and each request to submit creates at most one attempt.
THEOREM ChallengesTypeCorrect == Spec => []TypeOK
<1>1. Spec => []Typed
  BY InitTyped, NextTyped, PTL DEF Spec
<1>2. Typed => TypeOK
  BY DEF Typed
<1>3. QED
  BY <1>1, <1>2, PTL

-----------------------------------------------------------------------------
(* Scores of a challenge that nobody edits *)

Drawing(s) == submit[s].stage \in {"drawing", "scoring"}
Looping(r) == recalc[r].stage = "looping"

\* The previews show the content if they were drawn from a body with every
\* column, updateChallenge writing both or neither.  Until an edit has changed
\* either, submissions compare with the content and recalculations with the preview.
Targets ==
    /\ whole => challenge.preview = challenge.content
    /\ challenge = Absent =>
         /\ attempts = <<>> /\ quiet = {}
         /\ \A s \in Submits : ~Drawing(s)
         /\ \A r \in Recalcs : ~Looping(r)
    /\ ~edited =>
         /\ \A s \in Submits : Drawing(s) => submit[s].target = challenge.content
         /\ \A r \in Recalcs : Looping(r) => recalc[r].target = challenge.preview

LEMMA InitTargets == Init => Targets
  BY DEF Init, Targets, Absent, Drawing, Looping, SubmitAt, RecalcIdle

LEMMA NextTargets == ASSUME Typed, Targets, [Next]_vars PROVE Targets'
<1> USE DEF Targets, Drawing, Looping
<1>1. CASE RowActions
  <2> USE DEF Typed, TypeOK
  <2>1. ASSUME NEW body \in Bodies, CreateChallenge(body) PROVE Targets'
    <3>1. /\ challenge'.state = "exists" /\ challenge'.content = Merge(body, BlankPage)
          /\ challenge'.preview = body
          /\ whole' = IsWhole(body)
          /\ UNCHANGED <<attempts, submit, recalc, edited, quiet>>
          /\ challenge = Absent
      BY <2>1 DEF CreateChallenge, handlers
    <3>2. whole' => challenge'.preview = challenge'.content
      BY <3>1, BlankIsPage, MergedPage
    <3>3. QED
      BY <3>1, <3>2 DEF Absent
  <2>2. CASE DeleteChallenge
    BY <2>2 DEF DeleteChallenge, Exists, handlers, history, Absent
  <2>3. ASSUME NEW e \in Edits, NEW body \in Bodies, NEW otherHead \in BOOLEAN,
               EditRead(e, body, otherHead)
        PROVE  Targets'
    BY <2>3 DEF EditRead, history, Absent
  <2>4. ASSUME NEW e \in Edits, EditWrite(e) PROVE Targets'
    <3>1. /\ challenge' = EditedRow(e)
          /\ edited' = (edited \/ challenge' # challenge)
          /\ whole' = IF edit[e].redraw THEN IsWhole(edit[e].body) ELSE whole
          /\ quiet' = {}
          /\ Exists /\ edit[e].body \in Bodies /\ challenge.content \in Pages
          /\ UNCHANGED <<attempts, submit, recalc>>
      BY <2>4 DEF EditWrite, Origins
    <3>2. whole' => challenge'.preview = challenge'.content
      <4>1. CASE edit[e].redraw
        <5>1. /\ challenge'.content = Merge(edit[e].body, challenge.content)
              /\ challenge'.preview = edit[e].body
          BY <3>1, <4>1 DEF EditedRow
        <5>2. QED
          BY <3>1, <4>1, <5>1, MergedPage
      <4>2. CASE ~edit[e].redraw
        BY <3>1, <4>2 DEF EditedRow
      <4>3. QED
        BY <4>1, <4>2
    <3>3. challenge' # Absent
      <4>1. EditedRow(e).state = challenge.state
        BY DEF EditedRow
      <4>2. QED
        BY <3>1, <4>1 DEF Exists, Absent
    <3>4. ~edited' => ~edited /\ challenge' = challenge
      BY <3>1
    <3>5. QED
      BY <3>1, <3>2, <3>3, <3>4
  <2>5. ASSUME NEW e \in Edits, EditFail(e) PROVE Targets'
    BY <2>5 DEF EditFail, history, Absent
  <2>6. QED
    BY <1>1, <2>1, <2>2, <2>3, <2>4, <2>5 DEF RowActions
<1>2. ASSUME NEW s \in Submits, SubmitActions(s) PROVE Targets'
  <2> USE DEF Typed, TypeOK
  <2>1. ASSUME NEW u \in Users, NEW body \in Bodies, SubmitFind(s, u, body) PROVE Targets'
    BY <2>1 DEF SubmitFind, SubmitAt, Exists, Absent
  <2>2. CASE SubmitCreate(s)
    <3>1. /\ challenge # Absent /\ submit[s].stage = "drawing"
          /\ submit' = [submit EXCEPT ![s].stage = "scoring"]
          /\ UNCHANGED <<challenge, recalc, edited, whole>>
      BY <2>2 DEF SubmitCreate, SetSubmit, Exists, Absent
    <3>2. \A t \in Submits : /\ submit'[t].target = submit[t].target
                             /\ t # s => submit'[t] = submit[t]
      BY <3>1
    <3>3. QED
      BY <3>1, <3>2
  <2>3. ASSUME NEW isKilled \in BOOLEAN, SubmitScore(s, isKilled) PROVE Targets'
    <3>1. /\ challenge # Absent
          /\ submit' = [submit EXCEPT ![s] = SubmitAt("removing")]
          /\ UNCHANGED <<challenge, recalc, edited, whole>>
      BY <2>3 DEF SubmitScore, EndSubmit
    <3>2. QED
      BY <3>1 DEF SubmitAt
  <2>4. CASE SubmitRemove(s) \/ SubmitFail(s)
    <3>1. /\ attempts' = attempts /\ quiet' \subseteq quiet
          /\ \E stage \in {"done", "failed"} : submit' = [submit EXCEPT ![s] = SubmitAt(stage)]
          /\ UNCHANGED <<challenge, recalc, edited, whole>>
      BY <2>4 DEF SubmitRemove, SubmitFail, EndSubmit, history
    <3>2. QED
      BY <3>1 DEF SubmitAt, Absent
  <2>5. QED
    BY <1>2, <2>1, <2>2, <2>3, <2>4 DEF SubmitActions
<1>3. ASSUME NEW d \in Dummies, DummyActions(d) PROVE Targets'
  BY <1>3 DEF DummyActions, DummyFind, DummyCreate, DummyFail, Exists, history, Absent
<1>4. ASSUME NEW r \in Recalcs, RecalcActions(r) PROVE Targets'
  <2> USE DEF Typed, TypeOK
  <2>1. ASSUME NEW chosen, RecalcRead(r, chosen) PROVE Targets'
    BY <2>1 DEF RecalcRead, Exists, Absent
  <2>2. ASSUME NEW isKilled \in BOOLEAN, RecalcOne(r, isKilled) PROVE Targets'
    <3>1. /\ challenge # Absent
          /\ recalc' = [recalc EXCEPT ![r].list = Tail(@)]
          /\ UNCHANGED <<challenge, submit, edited, whole>>
      BY <2>2 DEF RecalcOne
    <3>2. \A q \in Recalcs : /\ recalc'[q].stage = recalc[q].stage
                             /\ recalc'[q].target = recalc[q].target
      BY <3>1
    <3>3. QED
      BY <3>1, <3>2
  <2>3. CASE RecalcDone(r) \/ RecalcFail(r)
    <3>1. /\ recalc' = [recalc EXCEPT ![r] = RecalcIdle] /\ quiet' \subseteq quiet
          /\ UNCHANGED <<challenge, attempts, submit, edited, whole>>
      BY <2>3 DEF RecalcDone, RecalcFail, EndRecalc, history
    <3>2. \A q \in Recalcs : Looping(q)' => Looping(q) /\ recalc'[q] = recalc[q]
      BY <3>1 DEF RecalcIdle
    <3>3. QED
      BY <3>1, <3>2 DEF Absent
  <2>4. QED
    BY <1>4, <2>1, <2>2, <2>3 DEF RecalcActions
<1>5. CASE StrayAction
  <2>1. PICK i \in DOMAIN attempts, score \in 0..2 : RescoreElsewhere(i, score)
    BY <1>5 DEF StrayAction
  <2>2. quiet' = {} /\ challenge # Absent /\ UNCHANGED <<challenge, submit, recalc, edited, whole>>
    BY <2>1, StrayScored DEF Typed
  <2>3. QED
    BY <2>2
<1>6. CASE UNCHANGED vars
  BY <1>6 DEF vars, handlers, history, Absent
<1>7. QED
  BY <1>1, <1>2, <1>3, <1>4, <1>5, <1>6, NextCases

LEMMA EditStep == ASSUME NEW e \in Edits, EditWrite(e) PROVE [Next]_vars
  BY DEF Next

LEMMA NextAgree ==
    ASSUME Typed, Targets, ScoresAgreeUntilEdited, [Next]_vars
    PROVE  ScoresAgreeUntilEdited'
<1> USE DEF ScoresAgreeUntilEdited
<1>1. CASE RowActions
  <2>1. ASSUME NEW body \in Bodies, CreateChallenge(body) PROVE ScoresAgreeUntilEdited'
    <3>1. attempts' = <<>> /\ DOMAIN attempts' = {}
      BY <2>1 DEF CreateChallenge, Targets
    <3>2. QED
      BY <3>1
  <2>2. CASE DeleteChallenge
    <3>1. challenge'.content = challenge.content /\ challenge'.preview = challenge.preview
      BY <2>2 DEF DeleteChallenge, Typed, TypeOK
    <3>2. QED
      BY <2>2, <3>1 DEF DeleteChallenge, history
  <2>3. ASSUME NEW e \in Edits, EditWrite(e) PROVE ScoresAgreeUntilEdited'
    <3>1. CASE challenge' # challenge
      BY <2>3, <3>1 DEF EditWrite
    <3>2. CASE challenge' = challenge
      \* Nothing new was drawn, or the very picture that was there.
      <4>1. /\ UNCHANGED <<attempts, stray>>
            /\ edited' = edited
            /\ whole' = IF edit[e].redraw THEN IsWhole(edit[e].body) ELSE whole
            /\ edit[e].body \in Bodies /\ challenge.content \in Pages
        BY <2>3, <3>2 DEF EditWrite, Typed, TypeOK, Origins
      <4>2. whole' => challenge.preview = challenge.content
        BY <2>3, <3>2, NextTargets, EditStep DEF Targets
      <4>3. whole => challenge.preview = challenge.content
        BY DEF Targets
      <4>4. QED
        BY <3>2, <4>1, <4>2, <4>3
    <3>3. QED
      BY <3>1, <3>2
  <2>4. ASSUME NEW e \in Edits,
               \/ \E body \in Bodies, otherHead \in BOOLEAN : EditRead(e, body, otherHead)
               \/ EditFail(e)
        PROVE  ScoresAgreeUntilEdited'
    BY <2>4 DEF EditRead, EditFail, history
  <2>5. QED
    BY <1>1, <2>1, <2>2, <2>3, <2>4 DEF RowActions
<1>2. ASSUME NEW s \in Submits, SubmitActions(s) PROVE ScoresAgreeUntilEdited'
  <2>1. CASE SubmitCreate(s)
    <3>1. SubmittedRow(s).score = 0 /\ UNCHANGED <<challenge, edited, whole, stray>>
      BY <2>1 DEF SubmittedRow, SubmitCreate
    <3>2. QED
      BY <2>1, <3>1, RowCreated
  <2>2. ASSUME NEW isKilled \in BOOLEAN, SubmitScore(s, isKilled)
        PROVE  ScoresAgreeUntilEdited'
    <3>1. UNCHANGED <<challenge, edited, whole>> /\ Drawing(s)
      BY <2>2 DEF SubmitScore, Drawing
    <3> DEFINE own == RowOf(s)
               value == ScoreOf(submit[s].code, submit[s].target, isKilled)
    <3>2. value # 0 => value = Grade(submit[s].code, submit[s].target)
      BY ScoreInRange
    <3>3. /\ own \in DOMAIN attempts /\ attempts[own].imgCode = submit[s].code
          /\ DOMAIN attempts' = DOMAIN attempts
          /\ \A j \in DOMAIN attempts :
               /\ j # own => attempts'[j] = attempts[j]
               /\ attempts'[j].imgCode = attempts[j].imgCode
          /\ attempts'[own].score = value
          /\ stray' = stray \ {own}
      BY <2>2, RowScored
    <3> HIDE DEF own, value
    <3>4. QED
      BY <3>1, <3>2, <3>3 DEF Targets
  <2>3. CASE \/ \E u \in Users, body \in Bodies : SubmitFind(s, u, body)
             \/ SubmitRemove(s) \/ SubmitFail(s)
    BY <2>3 DEF SubmitFind, SubmitRemove, SubmitFail, history
  <2>4. QED
    BY <1>2, <2>1, <2>2, <2>3 DEF SubmitActions
<1>3. ASSUME NEW d \in Dummies, DummyActions(d) PROVE ScoresAgreeUntilEdited'
  <2>1. CASE DummyCreate(d)
    <3>1. DummyRow(d).score = 0 /\ UNCHANGED <<challenge, edited, whole, stray>>
      BY <2>1 DEF DummyRow, DummyCreate, history
    <3>2. QED
      BY <2>1, <3>1, DummyCreated
  <2>2. CASE (\E u \in Users : DummyFind(d, u)) \/ DummyFail(d)
    BY <2>2 DEF DummyFind, DummyFail, history
  <2>3. QED
    BY <1>3, <2>1, <2>2 DEF DummyActions
<1>4. ASSUME NEW r \in Recalcs, RecalcActions(r) PROVE ScoresAgreeUntilEdited'
  <2>1. ASSUME NEW isKilled \in BOOLEAN, RecalcOne(r, isKilled)
        PROVE  ScoresAgreeUntilEdited'
    <3>1. UNCHANGED <<challenge, edited, whole>> /\ Looping(r)
      BY <2>1 DEF RecalcOne, Looping
    <3> DEFINE i == Head(recalc[r].list)
               value == ScoreOf(attempts[i].imgCode, recalc[r].target, isKilled)
    <3>2. value # 0 => value = Grade(attempts[i].imgCode, recalc[r].target)
      BY ScoreInRange
    <3>3. /\ DOMAIN attempts' = DOMAIN attempts
          /\ \A j \in DOMAIN attempts :
               /\ j # i => attempts'[j] = attempts[j]
               /\ attempts'[j].imgCode = attempts[j].imgCode
          /\ \/ attempts' = attempts /\ stray' = stray
             \/ attempts'[i].score = value /\ stray' = stray \ {i}
      BY <2>1, Rescored DEF Typed
    <3> HIDE DEF i, value
    <3>4. QED
      BY <3>1, <3>2, <3>3 DEF Targets
  <2>2. CASE \/ \E chosen : Chosen(chosen) /\ RecalcRead(r, chosen)
             \/ RecalcDone(r) \/ RecalcFail(r)
    BY <2>2 DEF RecalcRead, RecalcDone, RecalcFail, history
  <2>3. QED
    BY <1>4, <2>1, <2>2 DEF RecalcActions
<1>5. CASE StrayAction
  <2>1. PICK i \in DOMAIN attempts, score \in 0..2 : RescoreElsewhere(i, score)
    BY <1>5 DEF StrayAction
  <2>2. /\ DOMAIN attempts' = DOMAIN attempts /\ stray' = stray \cup {i}
        /\ \A j \in DOMAIN attempts : j # i => attempts'[j] = attempts[j]
        /\ UNCHANGED <<challenge, edited, whole>>
    BY <2>1, StrayScored DEF Typed
  <2>3. QED
    BY <2>2
<1>6. CASE UNCHANGED vars
  BY <1>6 DEF vars, history
<1>7. QED
  BY <1>1, <1>2, <1>3, <1>4, <1>5, <1>6, NextCases

\* Until an edit changes the content or the previews, every score this challenge
\* gave compares the picture of its own attempt with the content, or, if the
\* challenge was created from a body without all columns, with the preview.
THEOREM ScoresAlwaysAgree == Spec => []ScoresAgreeUntilEdited
<1>1. Init => Typed /\ Targets /\ ScoresAgreeUntilEdited
  <2>1. Init => ScoresAgreeUntilEdited
    BY DEF Init, ScoresAgreeUntilEdited
  <2>2. QED
    BY <2>1, InitTyped, InitTargets
<1>2. Typed /\ Targets /\ ScoresAgreeUntilEdited /\ [Next]_vars
        => (Typed /\ Targets /\ ScoresAgreeUntilEdited)'
  BY NextTyped, NextTargets, NextAgree
<1>3. QED
  BY <1>1, <1>2, PTL DEF Spec

-----------------------------------------------------------------------------
(* Attempts without a score *)

LEMMA NextAccounted ==
    ASSUME Typed, UnscoredIsAccountedFor, [Next]_vars
    PROVE  UnscoredIsAccountedFor'
<1> USE DEF UnscoredIsAccountedFor, Submitted
<1>1. CASE RowActions
  <2>1. /\ UNCHANGED <<submit, dirs, killed>>
        /\ attempts' = attempts
    BY <1>1 DEF RowActions, CreateChallenge, DeleteChallenge, EditRead, EditWrite, EditFail,
                handlers, history
  <2>2. QED
    BY <2>1
<1>2. ASSUME NEW s \in Submits, SubmitActions(s) PROVE UnscoredIsAccountedFor'
  <2>1. ASSUME NEW u \in Users, NEW body \in Bodies, SubmitFind(s, u, body)
        PROVE  UnscoredIsAccountedFor'
    <3>1. /\ submit[s].stage = "idle"
          /\ \A t \in Submits \ {s} : submit'[t] = submit[t]
          /\ UNCHANGED <<attempts, dirs, killed>>
      BY <2>1 DEF SubmitFind, Typed, TypeOK
    <3>2. \A i \in DOMAIN attempts : attempts[i].by # s
      BY <3>1 DEF Typed, Origins
    <3>3. \A i \in DOMAIN attempts : Submitted(i) => attempts[i].by \in Submits
      BY DEF Typed, Origins
    <3>4. QED
      BY <3>1, <3>2, <3>3
  <2>2. CASE SubmitCreate(s)
    <3>1. /\ submit'[s].stage = "scoring"
          /\ \A t \in Submits \ {s} : submit'[t] = submit[t]
          /\ dirs' = dirs \cup {s} /\ killed' = killed
          /\ submit[s].stage = "drawing"
      BY <2>2 DEF SubmitCreate, SetSubmit, Typed, TypeOK
    <3> DEFINE new == Len(attempts) + 1
    <3>2. /\ DOMAIN attempts' = DOMAIN attempts \cup {new}
          /\ attempts'[new].by = s
          /\ \A i \in DOMAIN attempts : attempts'[i] = attempts[i]
      <4>1. SubmittedRow(s).by = s
        BY DEF SubmittedRow
      <4>2. QED
        BY <2>2, <4>1, RowCreated
    <3> HIDE DEF new
    <3>3. \A i \in DOMAIN attempts : Submitted(i) => attempts[i].by \in Submits
      BY DEF Typed, Origins
    <3>4. \A i \in DOMAIN attempts : attempts[i].by # s
      BY <3>1, NoRowYet
    <3>5. QED
      BY <3>1, <3>2, <3>3, <3>4
  <2>3. ASSUME NEW isKilled \in BOOLEAN, SubmitScore(s, isKilled)
        PROVE  UnscoredIsAccountedFor'
    <3>1. /\ \A t \in Submits \ {s} : submit'[t] = submit[t]
          /\ dirs' = dirs
      BY <2>3 DEF SubmitScore, EndSubmit, Typed, TypeOK
    <3> DEFINE own == RowOf(s)
               value == ScoreOf(submit[s].code, submit[s].target, isKilled)
    <3>2. ~isKilled => value # 0
      BY ScoreInRange
    <3>3. /\ own \in DOMAIN attempts /\ attempts[own].by = s
          /\ DOMAIN attempts' = DOMAIN attempts
          /\ \A j \in DOMAIN attempts : j # own => attempts'[j] = attempts[j]
          /\ attempts'[own].score = value
          /\ killed' = IF isKilled THEN killed \cup {own} ELSE killed \ {own}
      BY <2>3, RowScored
    <3> HIDE DEF own, value
    <3>4. \A i \in DOMAIN attempts : Submitted(i) => attempts[i].by \in Submits
      BY DEF Typed, Origins
    <3>5. \A i \in DOMAIN attempts : attempts[i].by = s => i = own
      BY <3>3 DEF Typed, TypeOK, OneAttemptEach
    <3>6. ASSUME NEW i \in DOMAIN attempts', Submitted(i)', attempts'[i].score = 0,
                 i \notin killed'
          PROVE  /\ submit'[attempts'[i].by].stage \in {"scoring", "failed"}
                 /\ attempts'[i].by \in dirs'
      <4>1. CASE i = own
        BY <3>2, <3>3, <3>6, <4>1
      <4>2. CASE i # own
        <5>1. /\ attempts'[i] = attempts[i] /\ i \in DOMAIN attempts /\ i \notin killed
              /\ attempts[i].by # s /\ attempts[i].by \in Submits
          BY <3>3, <3>4, <3>5, <3>6, <4>2
        <5>2. QED
          BY <3>1, <3>6, <5>1
      <4>3. QED
        BY <4>1, <4>2
    <3>7. QED
      BY <3>6
  <2>4. CASE SubmitRemove(s)
    <3>1. /\ submit[s].stage = "removing" /\ dirs' = dirs \ {s}
          /\ \A t \in Submits \ {s} : submit'[t] = submit[t]
          /\ UNCHANGED <<attempts, killed>>
      BY <2>4 DEF SubmitRemove, EndSubmit, history, Typed, TypeOK
    <3>2. \A i \in DOMAIN attempts : Submitted(i) => attempts[i].by \in Submits
      BY DEF Typed, Origins
    <3>3. QED
      BY <3>1, <3>2
  <2>5. CASE SubmitFail(s)
    <3>1. /\ submit'[s].stage = "failed"
          /\ \A t \in Submits \ {s} : submit'[t] = submit[t]
          /\ dirs \subseteq dirs'
          /\ submit[s].stage \in {"drawing", "scoring", "removing"}
          /\ UNCHANGED <<attempts, killed>>
      BY <2>5 DEF SubmitFail, EndSubmit, SubmitAt, Typed, TypeOK
    <3>2. \A i \in DOMAIN attempts : Submitted(i) => attempts[i].by \in Submits
      BY DEF Typed, Origins
    <3>3. QED
      BY <3>1, <3>2
  <2>6. QED
    BY <1>2, <2>1, <2>2, <2>3, <2>4, <2>5 DEF SubmitActions
<1>3. ASSUME NEW d \in Dummies, DummyActions(d) PROVE UnscoredIsAccountedFor'
  <2>1. CASE DummyCreate(d)
    <3>1. ~DummyRow(d).submitted /\ UNCHANGED <<submit, dirs, killed>>
      BY <2>1 DEF DummyRow, DummyCreate, history
    <3>2. QED
      BY <2>1, <3>1, DummyCreated
  <2>2. CASE (\E u \in Users : DummyFind(d, u)) \/ DummyFail(d)
    BY <2>2 DEF DummyFind, DummyFail, history
  <2>3. QED
    BY <1>3, <2>1, <2>2 DEF DummyActions
<1>4. ASSUME NEW r \in Recalcs, RecalcActions(r) PROVE UnscoredIsAccountedFor'
  <2>1. ASSUME NEW isKilled \in BOOLEAN, RecalcOne(r, isKilled)
        PROVE  UnscoredIsAccountedFor'
    <3>1. UNCHANGED <<submit, dirs>>
      BY <2>1 DEF RecalcOne
    <3> DEFINE i == Head(recalc[r].list)
               value == ScoreOf(attempts[i].imgCode, recalc[r].target, isKilled)
    <3>2. ~isKilled => value # 0
      BY ScoreInRange
    <3>3. /\ DOMAIN attempts' = DOMAIN attempts
          /\ \/ attempts' = attempts /\ killed' = killed
             \/ /\ attempts'[i].score = value
                /\ killed' = IF isKilled THEN killed \cup {i} ELSE killed \ {i}
          /\ \A j \in DOMAIN attempts : j # i => attempts'[j] = attempts[j]
      BY <2>1, Rescored DEF Typed
    <3> HIDE DEF i, value
    <3>4. QED
      BY <3>1, <3>2, <3>3
  <2>2. CASE \/ \E chosen : Chosen(chosen) /\ RecalcRead(r, chosen)
             \/ RecalcDone(r) \/ RecalcFail(r)
    BY <2>2 DEF RecalcRead, RecalcDone, RecalcFail, history
  <2>3. QED
    BY <1>4, <2>1, <2>2 DEF RecalcActions
<1>5. CASE StrayAction
  <2>1. PICK i \in DOMAIN attempts, score \in 0..2 : RescoreElsewhere(i, score)
    BY <1>5 DEF StrayAction
  <2>2. /\ DOMAIN attempts' = DOMAIN attempts
        /\ \A j \in DOMAIN attempts : j # i => attempts'[j] = attempts[j]
        /\ attempts'[i].score = score
        /\ killed' = IF score = 0 THEN killed \cup {i} ELSE killed \ {i}
        /\ UNCHANGED <<submit, dirs>>
    BY <2>1, StrayScored DEF Typed
  <2>3. QED
    BY <2>2
<1>6. CASE UNCHANGED vars
  BY <1>6 DEF vars, handlers, history
<1>7. QED
  BY <1>1, <1>2, <1>3, <1>4, <1>5, <1>6, NextCases

\* A submitted attempt without a score is still being scored, or its request
\* has failed and left its files behind, or a script was killed.
THEOREM UnscoredAlwaysAccountedFor == Spec => []UnscoredIsAccountedFor
<1>1. Init => Typed /\ UnscoredIsAccountedFor
  <2>1. Init => UnscoredIsAccountedFor
    BY DEF Init, UnscoredIsAccountedFor
  <2>2. QED
    BY <2>1, InitTyped
<1>2. Typed /\ UnscoredIsAccountedFor /\ [Next]_vars => (Typed /\ UnscoredIsAccountedFor)'
  BY NextTyped, NextAccounted
<1>3. QED
  BY <1>1, <1>2, PTL DEF Spec

-----------------------------------------------------------------------------
(* Recalculation that nothing disturbs *)

Current(i) ==
    attempts[i].imgCode # Nil /\ i \notin killed
      => attempts[i].score = Grade(attempts[i].imgCode, challenge.preview)

ToDo(r) == {recalc[r].list[k] : k \in 1..Len(recalc[r].list)}

\* An undisturbed recalculation is alone; what it has not got to do any more is
\* up to date, and when it has ended that is everything.
Undisturbed ==
    \A r \in quiet :
        IF Looping(r)
        THEN /\ recalc[r].target = challenge.preview
             /\ \A s \in Submits : ~Drawing(s)
             /\ \A q \in Recalcs : Looping(q) => q = r
             /\ \A i \in DOMAIN attempts : i \in ToDo(r) \/ Current(i)
        ELSE \A i \in DOMAIN attempts : Current(i)

LEMMA HeadOrTail ==
    ASSUME NEW D, NEW list \in Seq(D), list # <<>>, NEW k \in 1..Len(list)
    PROVE  list[k] = Head(list) \/ \E n \in 1..Len(Tail(list)) : Tail(list)[n] = list[k]
<1>1. /\ Len(list) \in Nat /\ Len(Tail(list)) = Len(list) - 1
      /\ \A n \in 1..Len(Tail(list)) : Tail(list)[n] = list[n + 1]
  BY HeadTailProperties, LenProperties
<1>2. CASE k = 1
  BY <1>2
<1>3. CASE k # 1
  <2>1. k - 1 \in 1..Len(Tail(list)) /\ (k - 1) + 1 = k
    BY <1>1, <1>3
  <2>2. QED
    BY <1>1, <2>1
<1>4. QED
  BY <1>2, <1>3

LEMMA NextUndisturbed ==
    ASSUME Typed, Targets, Undisturbed, [Next]_vars
    PROVE  Undisturbed'
<1> USE DEF Undisturbed, Current, ToDo, Looping, Drawing
<1>1. CASE RowActions
  <2>1. ASSUME NEW body \in Bodies, CreateChallenge(body) PROVE Undisturbed'
    BY <2>1 DEF CreateChallenge, history, Targets
  <2>2. CASE DeleteChallenge
    <3>1. challenge'.preview = challenge.preview
      BY <2>2 DEF DeleteChallenge, Typed, TypeOK
    <3>2. QED
      BY <2>2, <3>1 DEF DeleteChallenge, handlers, history
  <2>3. ASSUME NEW e \in Edits, EditWrite(e) PROVE Undisturbed'
    BY <2>3 DEF EditWrite
  <2>4. ASSUME NEW e \in Edits,
               \/ \E body \in Bodies, otherHead \in BOOLEAN : EditRead(e, body, otherHead)
               \/ EditFail(e)
        PROVE  Undisturbed'
    BY <2>4 DEF EditRead, EditFail, history
  <2>5. QED
    BY <1>1, <2>1, <2>2, <2>3, <2>4 DEF RowActions
<1>2. ASSUME NEW s \in Submits, SubmitActions(s) PROVE Undisturbed'
  <2>1. CASE \/ \E u \in Users, body \in Bodies : SubmitFind(s, u, body)
             \/ SubmitCreate(s)
             \/ \E isKilled \in BOOLEAN : SubmitScore(s, isKilled)
             \/ SubmitFail(s)
    <3>1. quiet' = {}
      BY <2>1 DEF SubmitFind, SubmitCreate, SubmitScore, SubmitFail
    <3>2. QED
      BY <3>1
  <2>2. CASE SubmitRemove(s)
    <3>1. /\ submit'[s].stage = "done"
          /\ \A t \in Submits \ {s} : submit'[t] = submit[t]
          /\ UNCHANGED <<challenge, attempts, recalc, killed, quiet>>
      BY <2>2 DEF SubmitRemove, EndSubmit, SubmitAt, history, Typed, TypeOK
    <3>2. QED
      BY <3>1
  <2>3. QED
    BY <1>2, <2>1, <2>2 DEF SubmitActions
<1>3. ASSUME NEW d \in Dummies, DummyActions(d) PROVE Undisturbed'
  <2>1. CASE DummyCreate(d)
    <3>1. DummyRow(d).imgCode = Nil /\ UNCHANGED <<challenge, submit, recalc, killed, quiet>>
      BY <2>1 DEF DummyRow, DummyCreate, history
    <3> DEFINE new == Len(attempts) + 1
    <3>2. /\ DOMAIN attempts' = DOMAIN attempts \cup {new}
          /\ attempts'[new].imgCode = Nil
          /\ \A i \in DOMAIN attempts : attempts'[i] = attempts[i]
      BY <2>1, <3>1, DummyCreated
    <3> HIDE DEF new
    <3>3. QED
      BY <3>1, <3>2
  <2>2. CASE (\E u \in Users : DummyFind(d, u)) \/ DummyFail(d)
    BY <2>2 DEF DummyFind, DummyFail, history
  <2>3. QED
    BY <1>3, <2>1, <2>2 DEF DummyActions
<1>4. ASSUME NEW r \in Recalcs, RecalcActions(r) PROVE Undisturbed'
  <2>1. ASSUME NEW chosen, Chosen(chosen), RecalcRead(r, chosen) PROVE Undisturbed'
    <3>1. /\ quiet' = IF NothingInFlight /\ Len(chosen) = Len(attempts) THEN {r} ELSE {}
          /\ recalc'[r] = [stage |-> "looping", list |-> chosen, target |-> challenge.preview]
          /\ \A q \in Recalcs \ {r} : recalc'[q] = recalc[q]
          /\ UNCHANGED <<challenge, attempts, submit>>
      BY <2>1 DEF RecalcRead, Typed, TypeOK
    <3>2. CASE quiet' = {}
      BY <3>2
    <3>3. CASE quiet' = {r} /\ NothingInFlight /\ Len(chosen) = Len(attempts)
      <4>1. \A i \in DOMAIN attempts' : i \in ToDo(r)'
        BY <2>1, <3>1, <3>3, ChosenType DEF Typed
      <4>2. recalc'[r].target = challenge'.preview
        BY <3>1
      <4>3. \A s \in Submits : ~Drawing(s)'
        BY <3>1, <3>3 DEF NothingInFlight
      <4>4. \A q \in Recalcs : Looping(q)' => q = r
        BY <3>1, <3>3 DEF NothingInFlight
      <4>5. QED
        BY <3>3, <4>1, <4>2, <4>3, <4>4, <3>1
    <3>4. QED
      BY <3>1, <3>2, <3>3
  <2>2. ASSUME NEW isKilled \in BOOLEAN, RecalcOne(r, isKilled) PROVE Undisturbed'
    <3>1. /\ quiet' = quiet \cap {r}
          /\ Looping(r)
          /\ recalc[r].list \in Seq(DOMAIN attempts) /\ recalc[r].list # <<>>
          /\ UNCHANGED <<challenge, submit>>
      BY <2>2 DEF RecalcOne, Typed, TypeOK
    <3>2. /\ recalc'[r].list = Tail(recalc[r].list)
          /\ \A q \in Recalcs : /\ recalc'[q].stage = recalc[q].stage
                                /\ recalc'[q].target = recalc[q].target
      BY <2>2 DEF RecalcOne, Typed, TypeOK
    <3>3. CASE r \notin quiet
      <4>1. quiet' = {}
        BY <3>1, <3>3
      <4>2. QED
        BY <4>1
    <3>4. CASE r \in quiet
      <4> DEFINE i == Head(recalc[r].list)
                 value == ScoreOf(attempts[i].imgCode, recalc[r].target, isKilled)
      <4>1. ~isKilled => value = Grade(attempts[i].imgCode, challenge.preview)
        BY <3>1, <3>4, ScoreInRange
      <4>2. /\ DOMAIN attempts' = DOMAIN attempts
            /\ \A j \in DOMAIN attempts : /\ j # i => attempts'[j] = attempts[j]
                                          /\ attempts'[j].imgCode = attempts[j].imgCode
            /\ \/ attempts[i].imgCode = Nil /\ killed' = killed
               \/ /\ attempts'[i].score = value
                  /\ killed' = IF isKilled THEN killed \cup {i} ELSE killed \ {i}
        BY <2>2, Rescored DEF Typed
      <4>3. ASSUME NEW j \in ToDo(r) PROVE j = i \/ j \in ToDo(r)'
        BY <3>1, <3>2, HeadOrTail
      <4> HIDE DEF i, value
      <4>4. ASSUME NEW j \in DOMAIN attempts', j \notin ToDo(r)' PROVE Current(j)'
        <5>1. CASE j = i
          BY <3>1, <4>1, <4>2, <5>1
        <5>2. CASE j # i
          <6>1. j \in DOMAIN attempts /\ Current(j)
            BY <3>1, <3>4, <4>2, <4>3, <4>4, <5>2
          <6>2. attempts'[j] = attempts[j] /\ (j \in killed <=> j \in killed')
            BY <4>2, <5>2, <6>1
          <6>3. QED
            BY <3>1, <6>1, <6>2
        <5>3. QED
          BY <5>1, <5>2
      <4>5. quiet' = {r} /\ r \in Recalcs /\ Looping(r)'
        BY <3>1, <3>2, <3>4
      <4>6. recalc'[r].target = challenge'.preview
        BY <3>1, <3>2, <3>4
      <4>7. /\ \A s \in Submits : ~Drawing(s)'
            /\ \A q \in Recalcs : Looping(q)' => q = r
        BY <3>1, <3>2, <3>4
      <4> HIDE DEF Current, ToDo
      <4>8. QED
        BY <4>4, <4>5, <4>6, <4>7
    <3>5. QED
      BY <3>3, <3>4
  <2>3. CASE RecalcDone(r) \/ RecalcFail(r)
    <3>1. /\ recalc'[r].stage = "idle"
          /\ \A q \in Recalcs \ {r} : recalc'[q] = recalc[q]
          /\ Looping(r)
          /\ quiet' \subseteq quiet
          /\ r \in quiet' => recalc[r].list = <<>>
          /\ UNCHANGED <<challenge, attempts, submit, killed>>
      BY <2>3 DEF RecalcDone, RecalcFail, EndRecalc, RecalcIdle, history, Typed, TypeOK
    <3>2. quiet \subseteq Recalcs
      BY DEF Typed, TypeOK
    <3>3. r \in quiet' => ToDo(r) = {}
      BY <3>1
    <3>4. ASSUME NEW q \in quiet'
          PROVE  ~Looping(q)' /\ \A i \in DOMAIN attempts' : Current(i)'
      <4>1. CASE q = r
        BY <3>1, <3>3, <3>4, <4>1
      <4>2. CASE q # r
        BY <3>1, <3>2, <3>4, <4>2
      <4>3. QED
        BY <4>1, <4>2
    <3>5. QED
      BY <3>4
  <2>4. QED
    BY <1>4, <2>1, <2>2, <2>3 DEF RecalcActions
<1>5. CASE StrayAction
  BY <1>5 DEF StrayAction, RescoreElsewhere
<1>6. CASE UNCHANGED vars
  BY <1>6 DEF vars, handlers, history
<1>7. QED
  BY <1>1, <1>2, <1>3, <1>4, <1>5, <1>6, NextCases

\* A recalculation that nothing disturbs brings every score up to date with the
\* previews, and with the content if the previews were drawn from a body with
\* every column.
THEOREM RecalculatedAlwaysCurrent == Spec => []RecalculatedIsCurrent
<1>1. Init => Typed /\ Targets /\ Undisturbed
  <2>1. Init => Undisturbed
    BY DEF Init, Undisturbed
  <2>2. QED
    BY <2>1, InitTyped, InitTargets
<1>2. Typed /\ Targets /\ Undisturbed /\ [Next]_vars => (Typed /\ Targets /\ Undisturbed)'
  BY NextTyped, NextTargets, NextUndisturbed
<1>3. Typed /\ Targets /\ Undisturbed => RecalculatedIsCurrent
  BY DEF Undisturbed, RecalculatedIsCurrent, Targets, Looping, Current, Typed, TypeOK
<1>4. QED
  BY <1>1, <1>2, <1>3, PTL DEF Spec

-----------------------------------------------------------------------------
(* The high scores *)

LEMMA KeepType ==
    ASSUME NEW best \in Seq(Nat), NEW i \in Nat
    PROVE  Keep(best, i) \in Seq(Nat)
BY DEF Keep

\* The reduce of getHighScores goes through the attempts one after another.
LEMMA Rounds ==
    ASSUME NEW n \in Nat, NEW order \in [1..n -> Nat]
    PROVE  \E list \in [0..n -> Seq(Nat)] :
             /\ list[0] = <<>>
             /\ \A k \in 1..n : list[k] = Keep(list[k - 1], order[k])
             /\ HighScores(order) = list[n]
<1> DEFINE D == SUBSET (1..n)
           Next1(f, s) == IF s = {} THEN <<>> ELSE Keep(f[s \ {Max(s)}], order[Max(s)])
           Eq(f) == f = [s \in D |-> Next1(f, s)]
           it == CHOOSE f : Eq(f)
<1>1. HighScores(order) = it[1..n]
  <2>1. DOMAIN order = 1..n
    OBVIOUS
  <2>2. QED
    BY <2>1, Zenon DEF HighScores, FoldLeft, MapThenFoldSet
<1>2. Eq(it)
  <2> DEFINE step == [bi \in Seq(Nat) \X (1..n) |-> Keep(bi[1], order[bi[2]])]
             pick == [s \in D |-> Max(s)]
  <2>1. step \in [Seq(Nat) \X (1..n) -> Seq(Nat)]
    BY KeepType
  <2>2. \A s \in D : s # {} => pick[s] \in s
    BY MaxOf
  <2>3. PICK f \in [D -> Seq(Nat)] : \A s \in D :
          f[s] = IF s = {} THEN <<>> ELSE step[<<f[s \ {pick[s]}], pick[s]>>]
    <3> DEFINE B == Seq(Nat)
               base == <<>>
    <3>1. base \in B
      OBVIOUS
    <3>2. step \in [B \X (1..n) -> B] /\ Picks(n, pick)
      BY <2>1, <2>2, Zenon DEF Picks
    <3> HIDE DEF step, pick, B, base
    <3>3. \E f \in [SUBSET (1..n) -> B] : FoldsBy(f, n, base, step, pick)
      BY <3>1, <3>2, FoldExists
    <3>4. QED
      BY <3>3, Zenon DEF B, base, FoldsBy
  <2>4. ASSUME NEW s \in D
        PROVE  f[s] = Next1(f, s)
    <3>1. CASE s = {}
      BY <2>3, <3>1
    <3>2. CASE s # {}
      <4>1. pick[s] = Max(s) /\ Max(s) \in 1..n /\ s \ {Max(s)} \in D
        BY <2>2, <3>2
      <4>2. <<f[s \ {Max(s)}], Max(s)>> \in Seq(Nat) \X (1..n)
        BY <2>3, <4>1
      <4>3. step[<<f[s \ {Max(s)}], Max(s)>>] = Keep(f[s \ {Max(s)}], order[Max(s)])
        BY <4>2
      <4>4. QED
        BY <2>3, <3>2, <4>1, <4>3
    <3>3. QED
      BY <3>1, <3>2
  <2>5. Eq(f)
    BY <2>4
  <2> HIDE DEF Eq
  <2>6. QED
    BY <2>5
<1> HIDE DEF it
<1> DEFINE list == [k \in 0..n |-> it[1..k]]
<1>3. list[0] = <<>>
  <2>1. 1..0 = {} /\ {} \in D
    OBVIOUS
  <2>2. QED
    BY <1>2, <2>1
<1>4. ASSUME NEW k \in 1..n
      PROVE  list[k] = Keep(list[k - 1], order[k])
  <2>1. 1..k \in D /\ 1..k # {} /\ k \in 1..k
    OBVIOUS
  <2>2. Max(1..k) = k
    <3>1. Max(1..k) \in 1..k /\ k <= Max(1..k)
      BY <2>1, MaxOf
    <3>2. QED
      BY <3>1
  <2>3. (1..k) \ {k} = 1..(k - 1)
    OBVIOUS
  <2>4. it[1..k] = Keep(it[1..(k - 1)], order[k])
    BY <1>2, <2>1, <2>2, <2>3
  <2>5. QED
    BY <2>4
<1>5. list \in [0..n -> Seq(Nat)]
  <2> DEFINE T == {k \in 0..n : list[k] \in Seq(Nat)}
  <2>1. list = [k \in 0..n |-> list[k]]
    OBVIOUS
  <2> HIDE DEF list
  <2>2. 0 \in T
    <3>1. <<>> \in Seq(Nat) /\ 0 \in 0..n
      OBVIOUS
    <3>2. QED
      BY <1>3, <3>1, Zenon
  <2>3. ASSUME NEW k \in 1..n, k - 1 \in T PROVE k \in T
    <3>1. list[k - 1] \in Seq(Nat) /\ order[k] \in Nat
      BY <2>3
    <3>2. Keep(list[k - 1], order[k]) \in Seq(Nat)
      <4> DEFINE best == list[k - 1]
                 i == order[k]
      <4>1. best \in Seq(Nat) /\ i \in Nat
        BY <3>1
      <4> HIDE DEF best, i
      <4>2. Keep(best, i) \in Seq(Nat)
        BY <4>1, KeepType
      <4>3. QED
        BY <4>2 DEF best, i
    <3>3. list[k] \in Seq(Nat) /\ k \in 0..n
      BY <1>4, <3>2
    <3>4. QED
      BY <3>3, Zenon
  <2>4. \A k \in 0..n : k \in T
    <3> HIDE DEF T
    <3>1. QED
      BY <2>2, <2>3, UpTo
  <2>5. QED
    BY <2>1, <2>4
<1>6. HighScores(order) = list[n]
  BY <1>1
<1> HIDE DEF list
<1>7. QED
  BY <1>3, <1>4, <1>5, <1>6

\* What the list has of the first k attempts of an order: one of each user,
\* none of a lower score than another of that user, in descending order.
Listed(g, order, k) ==
    /\ g \in Seq(DOMAIN attempts)
    /\ \A a \in DOMAIN g : \E j \in 1..k : g[a] = order[j]
    /\ \A j \in 1..k : \E a \in DOMAIN g :
         /\ attempts[g[a]].user = attempts[order[j]].user
         /\ attempts[g[a]].score >= attempts[order[j]].score
    /\ \A a, b \in DOMAIN g : a < b =>
         /\ attempts[g[a]].user # attempts[g[b]].user
         /\ attempts[g[a]].score >= attempts[g[b]].score

Descending(order) ==
    \A j, k \in DOMAIN order :
        j < k => attempts[order[j]].score >= attempts[order[k]].score

LEMMA KeepListed ==
    ASSUME attempts \in Seq(Row), NEW n \in Nat,
           NEW order \in [1..n -> DOMAIN attempts], Descending(order),
           NEW k \in 1..n, NEW g, Listed(g, order, k - 1)
    PROVE  Listed(Keep(g, order[k]), order, k)
<1> DEFINE i == order[k]
           Score(j) == attempts[j].score
           User(j) == attempts[j].user
<1>1. /\ g \in Seq(DOMAIN attempts) /\ Len(g) \in Nat /\ DOMAIN g = 1..Len(g)
      /\ i \in DOMAIN attempts
      /\ \A a \in DOMAIN g : g[a] \in DOMAIN attempts
  BY LenProperties, ElementOfSeq DEF Listed
<1>2. \A j \in DOMAIN attempts : Score(j) \in Int
  <2>1. \A j \in DOMAIN attempts : attempts[j] \in Row
    BY LenProperties, ElementOfSeq
  <2>2. QED
    BY <2>1 DEF Row
<1>3. \A j \in 1..(k - 1) : j \in 1..n /\ Score(order[j]) >= Score(i)
  BY DEF Descending
<1>4. \A a \in DOMAIN g : Score(g[a]) >= Score(i)
  BY <1>3 DEF Listed
<1> HIDE DEF Score, User
<1>5. CASE \E a \in DOMAIN g : User(g[a]) = User(i)
  <2>1. Keep(g, i) = g
    BY <1>5 DEF Keep, User
  <2>2. PICK a \in DOMAIN g : User(g[a]) = User(i)
    BY <1>5
  <2>3. \A j \in 1..k : \E b \in DOMAIN g :
          User(g[b]) = User(order[j]) /\ Score(g[b]) >= Score(order[j])
    <3>1. TAKE j \in 1..k
    <3>2. CASE j = k
      BY <1>4, <2>2, <3>2
    <3>3. CASE j # k
      <4>1. j \in 1..(k - 1)
        BY <3>3
      <4>2. QED
        BY <4>1 DEF Listed, User, Score
    <3>4. QED
      BY <3>2, <3>3
  <2>4. \A b \in DOMAIN g : \E j \in 1..k : g[b] = order[j]
    BY DEF Listed
  <2>5. Listed(g, order, k)
    BY <2>3, <2>4, Zenon DEF Listed, User, Score
  <2>6. QED
    BY <2>1, <2>5
<1>6. CASE \A a \in DOMAIN g : User(g[a]) # User(i)
  <2> DEFINE h == Append(g, i)
  <2>1. Keep(g, i) = h
    BY <1>6 DEF Keep, User
  <2>2. /\ h \in Seq(DOMAIN attempts) /\ DOMAIN h = 1..(Len(g) + 1)
        /\ \A a \in DOMAIN g : a \in DOMAIN h /\ h[a] = g[a]
        /\ h[Len(g) + 1] = i /\ Len(g) + 1 \in DOMAIN h
        /\ \A a \in DOMAIN h : a \in DOMAIN g \/ a = Len(g) + 1
    <3>1. h \in Seq(DOMAIN attempts) /\ Len(h) = Len(g) + 1
      BY <1>1, AppendProperties
    <3>2. DOMAIN h = 1..(Len(g) + 1)
      BY <3>1, LenProperties
    <3>3. (\A a \in 1..Len(g) : h[a] = g[a]) /\ h[Len(g) + 1] = i
      BY <1>1, AppendProperties
    <3> HIDE DEF h, i
    <3>4. QED
      BY <1>1, <3>1, <3>2, <3>3
  <2> HIDE DEF h, i
  <2>3. ASSUME NEW a \in DOMAIN h
        PROVE  \E j \in 1..k : h[a] = order[j]
    <3>1. CASE a \in DOMAIN g
      <4>1. PICK j \in 1..(k - 1) : g[a] = order[j]
        BY <3>1 DEF Listed
      <4>2. j \in 1..k /\ h[a] = order[j]
        BY <2>2, <3>1, <4>1
      <4>3. QED
        BY <4>2
    <3>2. CASE a = Len(g) + 1
      BY <2>2, <3>2 DEF i
    <3>3. QED
      BY <2>2, <3>1, <3>2
  <2>4. \A j \in 1..k : \E b \in DOMAIN h :
          User(h[b]) = User(order[j]) /\ Score(h[b]) >= Score(order[j])
    <3>1. TAKE j \in 1..k
    <3>2. CASE j = k
      <4>1. Score(i) \in Int /\ order[j] = i
        BY <1>1, <1>2, <3>2 DEF i
      <4>2. Score(i) >= Score(i)
        BY <4>1
      <4>3. QED
        BY <2>2, <4>1, <4>2
    <3>3. CASE j # k
      <4>1. j \in 1..(k - 1)
        BY <3>3
      <4>2. PICK b \in DOMAIN g : User(g[b]) = User(order[j]) /\ Score(g[b]) >= Score(order[j])
        BY <4>1 DEF Listed, User, Score
      <4>3. QED
        BY <2>2, <4>2
    <3>4. QED
      BY <3>2, <3>3
  <2>5. \A a, b \in DOMAIN h : a < b => User(h[a]) # User(h[b]) /\ Score(h[a]) >= Score(h[b])
    <3>1. TAKE a, b \in DOMAIN h
    <3>2. HAVE a < b
    <3>3. a \in DOMAIN g
      BY <1>1, <2>2, <3>2
    <3>4. CASE b \in DOMAIN g
      BY <2>2, <3>2, <3>3, <3>4 DEF Listed, User, Score
    <3>5. CASE b = Len(g) + 1
      BY <1>4, <1>6, <2>2, <3>3, <3>5
    <3>6. QED
      BY <2>2, <3>4, <3>5
  <2>6. QED
    <3>1. Listed(h, order, k)
      BY <2>2, <2>3, <2>4, <2>5, Zenon DEF Listed, User, Score
    <3>2. QED
      BY <2>1, <3>1 DEF i
<1>7. QED
  BY <1>5, <1>6 DEF i

\* The whole reduce.
LEMMA HighScoresListed ==
    ASSUME attempts \in Seq(Row), NEW n \in Nat,
           NEW order \in [1..n -> DOMAIN attempts], Descending(order)
    PROVE  Listed(HighScores(order), order, n)
<1>1. order \in [1..n -> Nat]
  BY LenProperties
<1>2. PICK list \in [0..n -> Seq(Nat)] :
        /\ list[0] = <<>>
        /\ \A k \in 1..n : list[k] = Keep(list[k - 1], order[k])
        /\ HighScores(order) = list[n]
  BY <1>1, Rounds
<1> DEFINE T == {k \in 0..n : Listed(list[k], order, k)}
<1>3. 0 \in T
  <2>1. Listed(<<>>, order, 0)
    BY DEF Listed
  <2>2. QED
    BY <1>2, <2>1
<1>4. ASSUME NEW k \in 1..n, k - 1 \in T
      PROVE  k \in T
  <2>1. Listed(list[k - 1], order, k - 1)
    BY <1>4
  <2>2. Listed(Keep(list[k - 1], order[k]), order, k)
    BY <2>1, KeepListed
  <2>3. QED
    BY <1>2, <2>2
<1>5. n \in T
  <2> HIDE DEF T
  <2>1. \A k \in 0..n : k \in T
    BY <1>3, <1>4, UpTo
  <2>2. QED
    BY <2>1
<1>6. QED
  BY <1>2, <1>5

\* An order of a finite set has all its elements.
LEMMA OrderIsOnto ==
    ASSUME NEW found, IsFiniteSet(found), NEW order \in SetToSeqs(found)
    PROVE  /\ order \in [1..Cardinality(found) -> found]
           /\ \A i \in found : \E j \in 1..Cardinality(found) : order[j] = i
<1> DEFINE N == 1..Cardinality(found)
<1>1. Cardinality(found) \in Nat
  BY FS_CardinalityType
<1>2. order \in [N -> found] /\ \A i, j \in N : i # j => order[i] # order[j]
  BY DEF SetToSeqs
<1>3. Cardinality(N) = Cardinality(found)
  BY <1>1, FS_Interval
<1> HIDE DEF N
<1>4. order \in Injection(N, found)
  BY <1>2 DEF Injection, IsInjective
<1>5. order \in Surjection(N, found)
  BY <1>3, <1>4, FS_Injection
<1>6. QED
  BY <1>2, <1>5 DEF Surjection, N

\* The list of the high scores has the best of each user.
THEOREM BoardAlwaysListsBest == Spec => []BoardListsBest
<1>1. TypeOK => BoardListsBest
  <2> SUFFICES ASSUME TypeOK, NEW users \in SUBSET SubmittedUsers, NEW order \in ByScore(users)
               PROVE  ListsBest(HighScores(order), users)
    BY DEF BoardListsBest
  <2> DEFINE found == {i \in DOMAIN attempts : Submitted(i) /\ attempts[i].user \in users}
             n == Cardinality(found)
             g == HighScores(order)
  <2>1. attempts \in Seq(Row) /\ DOMAIN attempts = 1..Len(attempts) /\ Len(attempts) \in Nat
    BY LenProperties DEF TypeOK
  <2>2. IsFiniteSet(found) /\ n \in Nat
    <3>1. IsFiniteSet(DOMAIN attempts)
      BY <2>1, FS_Interval
    <3>2. found \subseteq DOMAIN attempts
      OBVIOUS
    <3> HIDE DEF found
    <3>3. QED
      BY <3>1, <3>2, FS_Subset, FS_CardinalityType
  <2>3. order \in SetToSeqs(found) /\ Descending(order)
    BY DEF ByScore, Descending
  <2>4. /\ order \in [1..n -> found]
        /\ \A i \in found : \E j \in 1..n : order[j] = i
    <3> HIDE DEF found
    <3>1. QED
      BY <2>2, <2>3, OrderIsOnto
  <2>5. order \in [1..n -> DOMAIN attempts]
    BY <2>4
  <2>6. Listed(g, order, n)
    <3> HIDE DEF n
    <3>1. QED
      BY <2>1, <2>2, <2>3, <2>5, HighScoresListed
  <2>7. DOMAIN g = 1..Len(g) /\ Len(g) \in Nat
    BY <2>6, LenProperties DEF Listed
  <2> HIDE DEF g, n
  <2>8. ASSUME NEW k \in DOMAIN g
        PROVE  g[k] \in found
    <3>1. PICK j \in 1..n : g[k] = order[j]
      BY <2>6 DEF Listed
    <3> HIDE DEF found
    <3>2. QED
      BY <2>4, <3>1
  <2>9. \A i \in found : \E a \in DOMAIN g :
          attempts[g[a]].user = attempts[i].user /\ attempts[g[a]].score >= attempts[i].score
    <3>1. TAKE i \in found
    <3>2. PICK j \in 1..n : order[j] = i
      BY <2>4
    <3>3. QED
      BY <2>6, <3>2 DEF Listed
  <2>10. {attempts[g[k]].user : k \in DOMAIN g} = users
    <3>1. \A k \in DOMAIN g : attempts[g[k]].user \in users
      BY <2>8
    <3>2. ASSUME NEW u \in users
          PROVE  \E k \in DOMAIN g : attempts[g[k]].user = u
      <4>1. PICK i \in found : attempts[i].user = u
        BY DEF SubmittedUsers
      <4>2. QED
        BY <2>9, <4>1
    <3>3. QED
      BY <3>1, <3>2
  <2>11. ASSUME NEW k \in DOMAIN g
         PROVE  Submitted(g[k]) /\ BestOf(g[k])
    <3>1. ASSUME NEW j \in DOMAIN attempts, Submitted(j), attempts[j].user = attempts[g[k]].user
          PROVE  attempts[j].score <= attempts[g[k]].score
      <4>1. j \in found
        BY <2>8, <3>1
      <4>2. PICK a \in DOMAIN g : /\ attempts[g[a]].user = attempts[j].user
                                  /\ attempts[g[a]].score >= attempts[j].score
        BY <2>9, <4>1
      <4>3. a = k
        BY <2>6, <2>7, <3>1, <4>2 DEF Listed
      <4>4. attempts[j] \in Row /\ attempts[g[k]] \in Row
        BY <2>1, <2>8, ElementOfSeq
      <4>5. QED
        BY <4>2, <4>3, <4>4 DEF Row
    <3>2. QED
      BY <2>8, <3>1 DEF BestOf
  <2>12. QED
    BY <2>6, <2>10, <2>11, Zenon DEF ListsBest, Listed, g
<1>2. QED
  BY <1>1, ChallengesTypeCorrect, PTL
=============================================================================
