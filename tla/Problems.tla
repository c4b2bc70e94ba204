------------------------------ MODULE Problems ------------------------------
(***************************************************************************)
(* A problem, its tags, starter codes and ratings:                         *)
(* controllers/problems.ts.  updateProblem is a series of queries without  *)
(* a transaction; a rating is one query, its answer two more.              *)
(*                                                                         *)
(* Names are prefixed, since the module is composed with others by         *)
(* EXTENDS.  The texts of problem and starter codes are left out.          *)
(***************************************************************************)
EXTENDS Naturals, FiniteSets

CONSTANTS
    Tags,
    Langs,
    Editors,    \* requests to updateProblem
    Raters,     \* users with an account
    Ratings,    \* requests to updateProblemRating
    NoEditor    \* the problem's creator, in the place of an editor

ASSUME ProblemsAssumption == NoEditor \notin Editors

VARIABLES
    problem,    \* the row: absent, exists or deleted
    tags,       \* the tags connected to it
    codes,      \* its starter codes: who created them, and the language
    editor,     \* editor[e]: stage and locals of updateProblem
    likes, dislikes,
    rating,     \* rating[q]: stage and locals of updateProblemRating
    met,        \* history: pairs of editors that were in flight together
    last,       \* history: the editor who connected tags last
    torn        \* history: an editor failed after disconnecting tags

tagVars == <<tags, codes, editor, met, last, torn>>
ratingVars == <<likes, dislikes, rating>>
problemsVars == <<problem, tagVars, ratingVars>>

ProblemExists == problem = "exists"

EditorAt(stage, want) == [stage |-> stage, want |-> want, langs |-> {},
                          seen |-> {}, noCodes |-> FALSE]
RatingIdle == [stage |-> "idle", user |-> NoEditor, action |-> "none",
               listed |-> "none", mine |-> "none", undisturbed |-> FALSE]

ProblemsInit ==
    /\ problem = "absent"
    /\ tags = {} /\ codes = {}
    /\ editor = [e \in Editors |-> EditorAt("idle", {})]
    /\ likes = {} /\ dislikes = {}
    /\ rating = [q \in Ratings |-> RatingIdle]
    /\ met = {} /\ last = NoEditor /\ torn = FALSE

-----------------------------------------------------------------------------
(* Editing *)

\* createProblem: one query with everything nested.
CreateProblem(want, langs) ==
    /\ problem = "absent"
    /\ problem' = "exists"
    /\ tags' = want
    /\ codes' = {<<NoEditor, l>> : l \in langs}
    /\ UNCHANGED <<editor, met, last, torn, ratingVars>>

EditorsInFlight == {e \in Editors : editor[e].stage \notin {"idle", "done", "failed"}}

\* updateProblem, first query: the columns are written, tags and codes read.
EditorRead(e, want, langs) ==
    /\ ProblemExists
    /\ editor[e].stage = "idle"
    /\ editor' = [editor EXCEPT ![e] =
         [stage |-> "disconnecting", want |-> want, langs |-> langs,
          seen |-> tags, noCodes |-> codes = {}]]
    /\ met' = met \cup ({e} \X EditorsInFlight) \cup (EditorsInFlight \X {e})
    /\ UNCHANGED <<problem, tags, codes, last, torn, ratingVars>>

EditorTo(e, stage) == editor' = [editor EXCEPT ![e].stage = stage]
EndEditor(e, stage) == editor' = [editor EXCEPT ![e] = EditorAt(stage, @.want)]

\* Mutant of EditorDisconnect: the tags asked for are disconnected.
EditorDisconnectAsked(e) ==
    /\ ProblemExists
    /\ editor[e].stage = "disconnecting"
    /\ tags' = tags \ editor[e].want
    /\ EditorTo(e, "connecting")
    /\ UNCHANGED <<problem, codes, met, last, torn, ratingVars>>

\* The tags read before are disconnected, whatever the tags are now.
EditorDisconnect(e) ==
    /\ ProblemExists
    /\ editor[e].stage = "disconnecting"
    /\ tags' = tags \ editor[e].seen
    /\ EditorTo(e, "connecting")
    /\ UNCHANGED <<problem, codes, met, last, torn, ratingVars>>

\* Mutant of EditorConnect: starter codes are created even if there were some.
EditorConnectCodes(e) ==
    /\ ProblemExists
    /\ editor[e].stage = "connecting"
    /\ tags' = tags \cup editor[e].want
    /\ EditorTo(e, "coding")
    /\ last' = e
    /\ torn' = FALSE
    /\ UNCHANGED <<problem, codes, met, ratingVars>>

\* The tags asked for are connected, or created.
EditorConnect(e) ==
    /\ ProblemExists
    /\ editor[e].stage = "connecting"
    /\ tags' = tags \cup editor[e].want
    /\ IF editor[e].noCodes THEN EditorTo(e, "coding") ELSE EndEditor(e, "done")
    /\ last' = e
    /\ torn' = FALSE
    /\ UNCHANGED <<problem, codes, met, ratingVars>>

\* There were no starter codes when they were read: create the request's.
EditorCode(e) ==
    /\ ProblemExists
    /\ editor[e].stage = "coding"
    /\ codes' = codes \cup {<<e, l>> : l \in editor[e].langs}
    /\ EndEditor(e, "done")
    /\ UNCHANGED <<problem, tags, met, last, torn, ratingVars>>

\* A query fails: connectOrCreate also because the other editor has created
\* the same tag meanwhile, all of them because the problem is gone.
EditorFail(e) ==
    /\ e \in EditorsInFlight
    /\ torn' = (torn \/ editor[e].stage = "connecting")
    /\ EndEditor(e, "failed")
    /\ UNCHANGED <<problem, tags, codes, met, last, ratingVars>>

\* deleteProblem: the foreign key of the starter codes restricts it.
DeleteProblem ==
    /\ ProblemExists
    /\ codes = {}
    /\ problem' = "deleted"
    /\ tags' = {} /\ likes' = {} /\ dislikes' = {}
    /\ last' = NoEditor
    /\ UNCHANGED <<codes, editor, met, torn, rating>>

-----------------------------------------------------------------------------
(* Rating *)

\* Mutant of RatingUpdate: a like does not disconnect the dislike.
RatingUpdateBoth(q, u, action) ==
    /\ ProblemExists
    /\ rating[q].stage = "idle"
    /\ likes' = IF action = "like" THEN likes \cup {u} ELSE likes \ {u}
    /\ dislikes' = IF action = "dislike" THEN dislikes \cup {u} ELSE dislikes
    /\ rating' = [r \in Ratings |->
         IF r = q THEN [RatingIdle EXCEPT !.stage = "listing", !.user = u,
                                          !.action = action, !.undisturbed = TRUE]
         ELSE [rating[r] EXCEPT !.undisturbed = @ /\ rating[r].user # u]]
    /\ UNCHANGED <<problem, tagVars>>

\* One update connects one relation and disconnects the other.
RatingUpdate(q, u, action) ==
    /\ ProblemExists
    /\ rating[q].stage = "idle"
    /\ likes' = IF action = "like" THEN likes \cup {u} ELSE likes \ {u}
    /\ dislikes' = IF action = "dislike" THEN dislikes \cup {u} ELSE dislikes \ {u}
    /\ rating' = [r \in Ratings |->
         IF r = q THEN [RatingIdle EXCEPT !.stage = "listing", !.user = u,
                                          !.action = action, !.undisturbed = TRUE]
         ELSE [rating[r] EXCEPT !.undisturbed = @ /\ rating[r].user # u]]
    /\ UNCHANGED <<problem, tagVars>>

RatingOf(u) ==
    IF u \in likes THEN "like" ELSE IF u \in dislikes THEN "dislike" ELSE "none"

\* getProblemRating, first query: who likes and who dislikes the problem; kept
\* is where these lists have the user.
RatingList(q) ==
    /\ ProblemExists
    /\ rating[q].stage = "listing"
    /\ rating' = [rating EXCEPT ![q].stage = "looking",
                                ![q].listed = RatingOf(rating[q].user)]
    /\ UNCHANGED <<problem, tagVars, likes, dislikes>>

\* Second query: what the user thinks of it; the answer has both.
RatingLook(q) ==
    /\ ProblemExists
    /\ rating[q].stage = "looking"
    /\ rating' = [rating EXCEPT ![q].stage = "answered",
                                ![q].mine = RatingOf(rating[q].user)]
    /\ UNCHANGED <<problem, tagVars, likes, dislikes>>

\* A query fails or the problem is gone; the next request can be made.
RatingEnd(q) ==
    /\ rating[q].stage # "idle"
    /\ rating' = [rating EXCEPT ![q] = RatingIdle]
    /\ UNCHANGED <<problem, tagVars, likes, dislikes>>

RowNext ==
    \/ \E want \in SUBSET Tags, langs \in SUBSET Langs : CreateProblem(want, langs)
    \/ DeleteProblem

EditorNext ==
    \E e \in Editors :
       \/ \E want \in SUBSET Tags, langs \in SUBSET Langs : EditorRead(e, want, langs)
       \/ EditorDisconnect(e) \/ EditorConnect(e) \/ EditorCode(e) \/ EditorFail(e)

RatingNext ==
    \E q \in Ratings :
       \/ \E u \in Raters, action \in {"like", "dislike", "none"} :
            RatingUpdate(q, u, action)
       \/ RatingList(q) \/ RatingLook(q) \/ RatingEnd(q)

ProblemsNext == RowNext \/ EditorNext \/ RatingNext

ProblemsSpec == ProblemsInit /\ [][ProblemsNext]_problemsVars

-----------------------------------------------------------------------------
(* Properties *)

ProblemsTypeOK ==
    /\ problem \in {"absent", "exists", "deleted"}
    /\ tags \subseteq Tags
    /\ codes \subseteq (Editors \cup {NoEditor}) \X Langs
    /\ editor \in [Editors ->
         [stage : {"idle", "disconnecting", "connecting", "coding", "done", "failed"},
          want : SUBSET Tags, langs : SUBSET Langs, seen : SUBSET Tags, noCodes : BOOLEAN]]
    /\ likes \subseteq Raters /\ dislikes \subseteq Raters
    /\ rating \in [Ratings ->
         [stage : {"idle", "listing", "looking", "answered"}, user : Raters \cup {NoEditor},
          action : {"like", "dislike", "none"}, listed : {"like", "dislike", "none"},
          mine : {"like", "dislike", "none"}, undisturbed : BOOLEAN]]
    /\ met \subseteq Editors \X Editors
    /\ last \in Editors \cup {NoEditor}
    /\ torn \in BOOLEAN

\* updateProblem replaces the tags in three queries.  When no editor is under
\* way and none has failed half-way, all tags of the last one are there, and no
\* others unless it met another editor.
TagsSettle ==
    last # NoEditor /\ EditorsInFlight = {} /\ ~torn
      => /\ editor[last].want \subseteq tags
         /\ (\A e \in Editors : <<last, e>> \notin met) => tags = editor[last].want

\* Starter codes are created by whoever has read none; two for one language
\* can only come from two editors that were under way together.
DuplicatesMet ==
    \A c, d \in codes : c # d /\ c[2] = d[2] => <<c[1], d[1]>> \in met

\* Nobody likes and dislikes a problem.  The answer to a rating, put together
\* from two reads, says what the user asked for and what its lists say, if the
\* user has not rated again meanwhile.
RatingsAgree ==
    /\ likes \cap dislikes = {}
    /\ \A q \in Ratings : rating[q].stage = "answered" /\ rating[q].undisturbed
         => /\ rating[q].mine = rating[q].action
            /\ rating[q].listed = rating[q].action
=============================================================================
