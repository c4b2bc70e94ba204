----------------------------- MODULE Challenges -----------------------------
(***************************************************************************)
(* One UI challenge, its attempts and their scores:                        *)
(* controllers/ui-challenges.ts and python/index.ts.  Admins edit the      *)
(* challenge and recalculate its scores while users submit attempts; every *)
(* handler interleaves with the others at its awaits.                      *)
(*                                                                         *)
(* Pages, bodies that leave columns out, and pictures of either are those  *)
(* of PageBodies; the columns drawn are html, css and js.  Awaits between  *)
(* which nothing shared is read or written (rendering, uploading to the    *)
(* image host) are one step.  The columns updateAttempt saves, an          *)
(* attempt's contents, are not kept: scores are computed from the picture  *)
(* imgCode.                                                                *)
(***************************************************************************)
EXTENDS Naturals, Sequences, FiniteSets, SequencesExt, PageBodies

CONSTANTS
    Users,
    Submits,    \* requests to submitAttempt
    Dummies,    \* calls of createDummyAttempt that can be in flight
    Edits,      \* calls of updateChallenge that can be in flight
    Recalcs,    \* calls of recalculateChallengeAttempts that can be in flight
    Nil,        \* no value
    MaxAttempts \* bound on the attempts

ASSUME ChallengesAssumption ==
    /\ Nil \notin Bodies \cup Users
    /\ Submits \cap Dummies = {}
    /\ MaxAttempts \in Nat

VARIABLES
    challenge,  \* the row: whether it is there, its content, the picture its previews are
    attempts,   \* the rows of ChallengeAttempt, in the order of their creation
    submit,     \* submit[s]: stage and locals of submitAttempt
    dummy,      \* dummy[d]: those of createDummyAttempt
    edit,       \* edit[e]: those of updateChallenge
    recalc,     \* recalc[r]: those of recalculateChallengeAttempts
    dirs,       \* the submissions with a directory under python/tmp
    edited,     \* history: an edit has changed the content or the previews
    whole,      \* history: the previews were drawn from a body with every column
    killed,     \* history: attempts whose last score is of a script that was killed
    stray,      \* history: attempts last scored against another challenge
    quiet       \* history: recalculations since whose start nothing else has run

handlers == <<submit, dummy, edit, recalc>>
history == <<edited, whole, killed, stray, quiet>>
vars == <<challenge, attempts, handlers, dirs, history>>

Absent == [state |-> "absent", content |-> Nil, preview |-> Nil]
Exists == challenge.state = "exists"

\* What generate_score.py makes of two pictures: the closer, the more.
Grade(picture, target) == IF picture = target THEN 2 ELSE 1

\* Mutant of ScoreOf: parseInt before the factor of 1000.
ScoreOfUnscaled(picture, target, isKilled) ==
    IF isKilled \/ picture # target THEN 0 ELSE 2

\* A killed script closes without a "score:" line, and +"" is 0.
ScoreOf(picture, target, isKilled) == IF isKilled THEN 0 ELSE Grade(picture, target)

\* Attempt i gets the score of two pictures of this challenge.
Scored(i, picture, target, isKilled) ==
    /\ attempts' = [attempts EXCEPT ![i].score = ScoreOf(picture, target, isKilled)]
    /\ killed' = IF isKilled THEN killed \cup {i} ELSE killed \ {i}
    /\ stray' = stray \ {i}

SubmittedRow(s) ==
    [by |-> s, user |-> submit[s].user, submitted |-> TRUE,
     imgCode |-> submit[s].code, score |-> 0]

DummyRow(d) ==
    [by |-> d, user |-> dummy[d].user, submitted |-> FALSE,
     imgCode |-> Nil, score |-> 0]

\* Handlers that are not running hold no locals.
SubmitAt(stage) == [stage |-> stage, user |-> Nil, code |-> Nil, target |-> Nil]
DummyIdle == [stage |-> "idle", user |-> Nil]
EditIdle == [stage |-> "idle", body |-> Nil, redraw |-> FALSE]
RecalcIdle == [stage |-> "idle", list |-> <<>>, target |-> Nil]

Init ==
    /\ challenge = Absent
    /\ attempts = <<>>
    /\ submit = [s \in Submits |-> SubmitAt("idle")]
    /\ dummy = [d \in Dummies |-> DummyIdle]
    /\ edit = [e \in Edits |-> EditIdle]
    /\ recalc = [r \in Recalcs |-> RecalcIdle]
    /\ dirs = {}
    /\ edited = FALSE
    /\ whole = TRUE
    /\ killed = {}
    /\ stray = {}
    /\ quiet = {}

-----------------------------------------------------------------------------
(* The challenge *)

\* createChallenge inserts the row when the previews of the body have been
\* uploaded; columns left out get the schema's default.
CreateChallenge(body) ==
    /\ challenge = Absent
    /\ challenge' = [state |-> "exists", content |-> Merge(body, BlankPage), preview |-> body]
    /\ whole' = IsWhole(body)
    /\ UNCHANGED <<attempts, handlers, dirs, edited, killed, stray, quiet>>

\* deleteChallenge: the attempts' foreign key restricts it.
DeleteChallenge ==
    /\ Exists
    /\ attempts = <<>>
    /\ challenge' = [challenge EXCEPT !.state = "deleted"]
    /\ UNCHANGED <<attempts, handlers, dirs, history>>

EndEdit(e) == edit' = [edit EXCEPT ![e] = EditIdle]

\* updateChallenge compares the body with the row.  A column left out differs
\* from any; so do another head and another ogImageScale, and leaving them out.
EditRead(e, body, otherHead) ==
    /\ edit[e].stage = "idle"
    /\ Exists
    /\ edit' = [edit EXCEPT ![e] = [stage |-> "writing", body |-> body,
                                  redraw |-> otherHead \/ body # challenge.content]]
    /\ UNCHANGED <<challenge, attempts, submit, dummy, recalc, dirs, history>>

\* Mutant of EditedRow: the content is written whether or not the previews were
\* drawn again.
EditedRowAlways(e) ==
    [challenge EXCEPT !.content = Merge(edit[e].body, @),
                      !.preview = IF edit[e].redraw THEN edit[e].body ELSE @]

\* Content and previews are among the updated columns only if the previews were
\* drawn; the content keeps the columns that were left out.
EditedRow(e) ==
    IF edit[e].redraw
    THEN [challenge EXCEPT !.content = Merge(edit[e].body, @), !.preview = edit[e].body]
    ELSE challenge

EditWrite(e) ==
    /\ edit[e].stage = "writing"
    /\ Exists
    /\ challenge' = EditedRow(e)
    /\ edited' = (edited \/ challenge' # challenge)
    /\ whole' = IF edit[e].redraw THEN IsWhole(edit[e].body) ELSE whole
    /\ quiet' = {}
    /\ EndEdit(e)
    /\ UNCHANGED <<attempts, submit, dummy, recalc, dirs, killed, stray>>

\* Rendering, uploading or the update fails; also when the row is gone.
EditFail(e) ==
    /\ edit[e].stage = "writing"
    /\ EndEdit(e)
    /\ UNCHANGED <<challenge, attempts, submit, dummy, recalc, dirs, history>>

-----------------------------------------------------------------------------
(* Submitting an attempt *)

SetSubmit(s, stage) == submit' = [submit EXCEPT ![s].stage = stage]
EndSubmit(s, stage) == submit' = [submit EXCEPT ![s] = SubmitAt(stage)]

\* Mutant of SubmitFind: the 404 is sent, the response never ended.
SubmitFindUnended(s, u, body) ==
    /\ submit[s].stage = "idle"
    /\ submit' = [submit EXCEPT ![s] =
         IF Exists
         THEN [stage |-> "drawing", user |-> u, code |-> body, target |-> challenge.content]
         ELSE SubmitAt("unended")]
    /\ quiet' = {}
    /\ UNCHANGED <<challenge, attempts, dummy, edit, recalc, dirs, edited, whole, killed, stray>>

\* The stream is open and the challenge read.  A missing one: the 404 throws,
\* since the stream's headers are out, and the catch ends the response.
SubmitFind(s, u, body) ==
    /\ submit[s].stage = "idle"
    /\ submit' = [submit EXCEPT ![s] =
         IF Exists
         THEN [stage |-> "drawing", user |-> u, code |-> body, target |-> challenge.content]
         ELSE SubmitAt("failed")]
    /\ quiet' = {}
    /\ UNCHANGED <<challenge, attempts, dummy, edit, recalc, dirs, edited, whole, killed, stray>>

\* Both pages have been rendered and stored in a directory for the scripts,
\* contours are drawn, the pictures uploaded; the row is created unscored.
SubmitCreate(s) ==
    /\ submit[s].stage = "drawing"
    /\ Exists
    /\ Len(attempts) < MaxAttempts
    /\ attempts' = Append(attempts, SubmittedRow(s))
    /\ dirs' = dirs \cup {s}
    /\ SetSubmit(s, "scoring")
    /\ quiet' = {}
    /\ UNCHANGED <<challenge, dummy, edit, recalc, edited, whole, killed, stray>>

RowOf(s) == CHOOSE i \in DOMAIN attempts : attempts[i].by = s

\* Mutant of SubmitScore: it scores the newest row, not its own.
SubmitScoreNewest(s, isKilled) ==
    /\ submit[s].stage = "scoring"
    /\ Scored(Len(attempts), submit[s].code, submit[s].target, isKilled)
    /\ EndSubmit(s, "removing")
    /\ quiet' = {}
    /\ UNCHANGED <<challenge, dummy, edit, recalc, dirs, edited, whole>>

\* The script closes, the score is written and the response ended.
SubmitScore(s, isKilled) ==
    /\ submit[s].stage = "scoring"
    /\ Scored(RowOf(s), submit[s].code, submit[s].target, isKilled)
    /\ EndSubmit(s, "removing")
    /\ quiet' = {}
    /\ UNCHANGED <<challenge, dummy, edit, recalc, dirs, edited, whole>>

\* A finished request leaves no files behind.
SubmitRemove(s) ==
    /\ submit[s].stage = "removing"
    /\ dirs' = dirs \ {s}
    /\ EndSubmit(s, "done")
    /\ UNCHANGED <<challenge, attempts, dummy, edit, recalc, history>>

\* An await rejects: the catch reports an error and ends the response; a
\* directory and an unscored row stay.
SubmitFail(s) ==
    /\ \/ /\ submit[s].stage = "drawing"
          /\ dirs' \in {dirs, dirs \cup {s}}
       \/ /\ submit[s].stage \in {"scoring", "removing"}
          /\ UNCHANGED dirs
    /\ EndSubmit(s, "failed")
    /\ quiet' = {}
    /\ UNCHANGED <<challenge, attempts, dummy, edit, recalc, edited, whole, killed, stray>>

EndDummy(d) == dummy' = [dummy EXCEPT ![d] = DummyIdle]

OfUser(u) == {i \in DOMAIN attempts : attempts[i].user = u}

\* createDummyAttempt answers with an attempt the user has; if there is none
DummyFind(d, u) ==
    /\ dummy[d].stage = "idle"
    /\ OfUser(u) = {}
    /\ dummy' = [dummy EXCEPT ![d] = [stage |-> "creating", user |-> u]]
    /\ UNCHANGED <<challenge, attempts, submit, edit, recalc, dirs, history>>

\* it creates one.  An absent challenge cannot be connected.
DummyCreate(d) ==
    /\ dummy[d].stage = "creating"
    /\ Exists
    /\ Len(attempts) < MaxAttempts
    /\ attempts' = Append(attempts, DummyRow(d))
    /\ EndDummy(d)
    /\ UNCHANGED <<challenge, submit, edit, recalc, dirs, history>>

DummyFail(d) ==
    /\ dummy[d].stage = "creating"
    /\ EndDummy(d)
    /\ UNCHANGED <<challenge, attempts, submit, edit, recalc, dirs, history>>

-----------------------------------------------------------------------------
(* Recalculation *)

EndRecalc(r) == recalc' = [recalc EXCEPT ![r] = RecalcIdle]

\* No handler that writes scores or content is between its reads and writes.
NothingInFlight ==
    /\ \A s \in Submits : submit[s].stage \notin {"drawing", "scoring"}
    /\ \A r \in Recalcs : recalc[r].stage # "looping"

\* The challenge and the attempts to do are read once: all of them, or the
\* one the body names.  The target is the stored preview, whatever the content is.
RecalcRead(r, chosen) ==
    /\ recalc[r].stage = "idle"
    /\ Exists
    /\ recalc' = [recalc EXCEPT ![r] = [stage |-> "looping", list |-> chosen,
                                      target |-> challenge.preview]]
    /\ quiet' = IF NothingInFlight /\ Len(chosen) = Len(attempts) THEN {r} ELSE {}
    /\ UNCHANGED <<challenge, attempts, submit, dummy, edit, dirs, edited, whole, killed, stray>>

Rescore(i, r, isKilled) == Scored(i, attempts[i].imgCode, recalc[r].target, isKilled)

\* One attempt: the script, the update; none for an attempt without a picture.
\* The directory made for it is never removed, nor used again.
RecalcOne(r, isKilled) ==
    /\ recalc[r].stage = "looping"
    /\ recalc[r].list # <<>>
    /\ LET i == Head(recalc[r].list)
       IN IF attempts[i].imgCode = Nil
          THEN UNCHANGED <<attempts, killed, stray>>
          ELSE Rescore(i, r, isKilled)
    /\ recalc' = [recalc EXCEPT ![r].list = Tail(@)]
    /\ quiet' = quiet \cap {r}
    /\ UNCHANGED <<challenge, submit, dummy, edit, dirs, edited, whole>>

RecalcDone(r) ==
    /\ recalc[r].stage = "looping"
    /\ recalc[r].list = <<>>
    /\ EndRecalc(r)
    /\ UNCHANGED <<challenge, attempts, submit, dummy, edit, dirs, history>>

\* A script or a query fails: the rest keep their scores.
RecalcFail(r) ==
    /\ recalc[r].stage = "looping"
    /\ quiet' = quiet \ {r}
    /\ EndRecalc(r)
    /\ UNCHANGED <<challenge, attempts, submit, dummy, edit, dirs, edited, whole, killed, stray>>

\* The one attempt a body names is looked up by its id alone: a recalculation of
\* another challenge gives an attempt at this one a score against its own preview,
\* which may be any.  The attempt's picture never changes, so only the update matters.
RescoreElsewhere(i, score) ==
    /\ attempts[i].imgCode # Nil
    /\ attempts' = [attempts EXCEPT ![i].score = score]
    /\ killed' = IF score = 0 THEN killed \cup {i} ELSE killed \ {i}
    /\ stray' = stray \cup {i}
    /\ quiet' = {}
    /\ UNCHANGED <<challenge, handlers, dirs, edited, whole>>

-----------------------------------------------------------------------------
(* High scores *)

Submitted(i) == attempts[i].submitted

SubmittedUsers == {attempts[i].user : i \in {j \in DOMAIN attempts : Submitted(j)}}

\* getHighScores: the orders in which its second query can return the attempts
\* of the users its first one has found.
ByScore(users) ==
    LET found == {i \in DOMAIN attempts : Submitted(i) /\ attempts[i].user \in users}
    IN {order \in SetToSeqs(found) : \A j, k \in DOMAIN order :
          j < k => attempts[order[j]].score >= attempts[order[k]].score}

\* Mutant of Keep: an attempt replaces its user's earlier one.
KeepLast(best, i) ==
    Append(SelectSeq(best, LAMBDA j : attempts[j].user # attempts[i].user), i)

\* One round of the reduce: the user's first attempt is kept.
Keep(best, i) ==
    IF \E k \in DOMAIN best : attempts[best[k]].user = attempts[i].user
    THEN best ELSE Append(best, i)

HighScores(order) == FoldLeft(Keep, <<>>, order)

-----------------------------------------------------------------------------
Next ==
    \/ \E body \in Bodies : CreateChallenge(body)
    \/ DeleteChallenge
    \/ \E e \in Edits :
         \/ \E body \in Bodies, otherHead \in BOOLEAN : EditRead(e, body, otherHead)
         \/ EditWrite(e) \/ EditFail(e)
    \/ \E s \in Submits :
         \/ \E u \in Users, body \in Bodies : SubmitFind(s, u, body)
         \/ SubmitCreate(s)
         \/ \E isKilled \in BOOLEAN : SubmitScore(s, isKilled)
         \/ SubmitRemove(s) \/ SubmitFail(s)
    \/ \E d \in Dummies :
         (\E u \in Users : DummyFind(d, u)) \/ DummyCreate(d) \/ DummyFail(d)
    \/ \E r \in Recalcs :
         \/ RecalcRead(r, [i \in DOMAIN attempts |-> i])
         \/ \E i \in DOMAIN attempts : RecalcRead(r, <<i>>)
         \/ \E isKilled \in BOOLEAN : RecalcOne(r, isKilled)
         \/ RecalcDone(r) \/ RecalcFail(r)
    \/ \E i \in DOMAIN attempts, score \in 0..2 : RescoreElsewhere(i, score)

Spec == Init /\ [][Next]_vars

-----------------------------------------------------------------------------
(* Properties *)

Row == [by : Submits \cup Dummies, user : Users, submitted : BOOLEAN,
        imgCode : Bodies \cup {Nil}, score : 0..2]

OneAttemptEach ==
    \A i, j \in DOMAIN attempts :
        attempts[i].by = attempts[j].by /\ attempts[i].by \in Submits => i = j

\* Every variable keeps its type; each request creates one attempt at most.
TypeOK ==
    /\ challenge \in [state : {"absent", "exists", "deleted"},
                      content : Pages \cup {Nil}, preview : Bodies \cup {Nil}]
    /\ attempts \in Seq(Row)
    /\ submit \in [Submits ->
         [stage : {"idle", "drawing", "scoring", "removing", "done", "failed"},
          user : Users \cup {Nil}, code : Bodies \cup {Nil}, target : Pages \cup {Nil}]]
    /\ dummy \in [Dummies -> [stage : {"idle", "creating"},
                              user : Users \cup {Nil}]]
    /\ edit \in [Edits -> [stage : {"idle", "writing"},
                           body : Bodies \cup {Nil}, redraw : BOOLEAN]]
    /\ recalc \in [Recalcs -> [stage : {"idle", "looping"},
                               list : Seq(DOMAIN attempts), target : Bodies \cup {Nil}]]
    /\ dirs \subseteq Submits
    /\ edited \in BOOLEAN /\ whole \in BOOLEAN
    /\ killed \subseteq DOMAIN attempts /\ stray \subseteq DOMAIN attempts
    /\ quiet \subseteq Recalcs
    /\ OneAttemptEach

\* submitAttempt creates the row before it has a score.  A submitted attempt
\* without one is still being scored, or its request has failed and left its
\* files behind, or a script was killed.
UnscoredIsAccountedFor ==
    \A i \in DOMAIN attempts :
        Submitted(i) /\ attempts[i].score = 0 /\ i \notin killed
          => LET s == attempts[i].by
             IN submit[s].stage \in {"scoring", "failed"} /\ s \in dirs

\* A submission is compared with the content, a recalculation with the preview.
\* While no edit changes either, and unless a recalculation of another challenge
\* named the attempt, every score is of its own attempt and of one of the two,
\* however submissions and recalculations race; if every column was sent when
\* the challenge was created, the two are the same.
ScoresAgreeUntilEdited ==
    ~edited => \A i \in DOMAIN attempts \ stray :
        attempts[i].score # 0 =>
          \/ attempts[i].score = Grade(attempts[i].imgCode, challenge.content)
          \/ ~whole /\ attempts[i].score = Grade(attempts[i].imgCode, challenge.preview)

\* recalculateChallengeAttempts, undisturbed, brings all scores up to date with
\* the previews: those from before an edit, and those of submissions that failed.
\* The previews show the content, which submissions are compared with, however
\* edits overlap, unless they were last drawn from a body that left columns out.
RecalculatedIsCurrent ==
    \A r \in quiet : recalc[r].stage = "idle" =>
        \A i \in DOMAIN attempts :
            attempts[i].imgCode # Nil /\ i \notin killed =>
              /\ attempts[i].score = Grade(attempts[i].imgCode, challenge.preview)
              /\ whole => attempts[i].score = Grade(attempts[i].imgCode, challenge.content)

\* getHighScores answers with one attempt of each user its first query has
\* found, the best there is at the second one, in descending order.  Between
\* the two attempts can only have been added.
BestOf(i) ==
    \A j \in DOMAIN attempts :
        Submitted(j) /\ attempts[j].user = attempts[i].user
          => attempts[j].score <= attempts[i].score

ListsBest(list, users) ==
    /\ {attempts[list[k]].user : k \in DOMAIN list} = users
    /\ \A k \in DOMAIN list : Submitted(list[k]) /\ BestOf(list[k])
    /\ \A j, k \in DOMAIN list : j < k =>
         /\ attempts[list[j]].user # attempts[list[k]].user
         /\ attempts[list[j]].score >= attempts[list[k]].score

BoardListsBest ==
    \A users \in SUBSET SubmittedUsers : \A order \in ByScore(users) :
        ListsBest(HighScores(order), users)
=============================================================================
