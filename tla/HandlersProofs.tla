---------------------------- MODULE HandlersProofs ----------------------------
(***************************************************************************)
(* Proofs about the components that MCHandlers composes, each for any      *)
(* value of its constants: Problems, RoomAccess, Ducklets and Projects;    *)
(* and about their composition.  UserStats has a module of its own.        *)
(***************************************************************************)
EXTENDS MCHandlers, UserStatsProofs

-----------------------------------------------------------------------------
(* Problems *)

LEMMA ProblemsInitType == ProblemsInit => ProblemsTypeOK
<1> SUFFICES ASSUME ProblemsInit PROVE ProblemsTypeOK
  OBVIOUS
<1> USE DEF ProblemsInit
<1>1. EditorAt("idle", {}) \in
        [stage : {"idle", "disconnecting", "connecting", "coding", "done", "failed"},
         want : SUBSET Tags, langs : SUBSET Langs, seen : SUBSET Tags, noCodes : BOOLEAN]
  BY DEF EditorAt
<1>2. RatingIdle \in
        [stage : {"idle", "listing", "looking", "answered"}, user : Raters \cup {NoEditor},
         action : {"like", "dislike", "none"}, listed : {"like", "dislike", "none"},
         mine : {"like", "dislike", "none"}, undisturbed : BOOLEAN]
  BY DEF RatingIdle
<1>3. QED
  BY <1>1, <1>2 DEF ProblemsTypeOK

\* Every step keeps the types.
LEMMA ProblemsNextType ==
    ASSUME ProblemsTypeOK, [ProblemsNext]_problemsVars
    PROVE  ProblemsTypeOK'
<1> USE DEF ProblemsTypeOK, EditorAt, EditorTo, EndEditor, ratingVars, tagVars
<1>1. ASSUME NEW want \in SUBSET Tags, NEW langs \in SUBSET Langs, CreateProblem(want, langs)
      PROVE  ProblemsTypeOK'
  BY <1>1 DEF CreateProblem
<1>2. CASE DeleteProblem
  BY <1>2 DEF DeleteProblem
<1>3. ASSUME NEW e \in Editors, NEW want \in SUBSET Tags, NEW langs \in SUBSET Langs,
             EditorRead(e, want, langs)
      PROVE  ProblemsTypeOK'
  <2>1. editor'[e] \in [stage : {"disconnecting"}, want : SUBSET Tags, langs : SUBSET Langs,
                        seen : SUBSET Tags, noCodes : BOOLEAN]
    BY <1>3 DEF EditorRead
  <2>2. met' \subseteq Editors \X Editors
    BY <1>3 DEF EditorRead, EditorsInFlight
  <2>3. QED
    BY <1>3, <2>1, <2>2 DEF EditorRead
<1>4. ASSUME NEW e \in Editors, EditorDisconnect(e)
      PROVE  ProblemsTypeOK'
  BY <1>4 DEF EditorDisconnect
<1>5. ASSUME NEW e \in Editors, EditorConnect(e)
      PROVE  ProblemsTypeOK'
  <2>1. editor' \in [Editors ->
         [stage : {"idle", "disconnecting", "connecting", "coding", "done", "failed"},
          want : SUBSET Tags, langs : SUBSET Langs, seen : SUBSET Tags, noCodes : BOOLEAN]]
    <3>1. CASE EditorTo(e, "coding")
      BY <3>1
    <3>2. CASE EndEditor(e, "done")
      BY <3>2
    <3>3. QED
      BY <1>5, <3>1, <3>2 DEF EditorConnect
  <2>2. tags' \subseteq Tags
    BY <1>5 DEF EditorConnect
  <2>3. QED
    BY <1>5, <2>1, <2>2 DEF EditorConnect
<1>6. ASSUME NEW e \in Editors, EditorCode(e)
      PROVE  ProblemsTypeOK'
  BY <1>6 DEF EditorCode
<1>7. ASSUME NEW e \in Editors, EditorFail(e)
      PROVE  ProblemsTypeOK'
  BY <1>7 DEF EditorFail
<1>8. ASSUME NEW q \in Ratings, NEW u \in Raters, NEW action \in {"like", "dislike", "none"},
             RatingUpdate(q, u, action)
      PROVE  ProblemsTypeOK'
  <2>1. likes' \subseteq Raters /\ dislikes' \subseteq Raters
    BY <1>8 DEF RatingUpdate
  <2> DEFINE Kind == [stage : {"idle", "listing", "looking", "answered"},
          user : Raters \cup {NoEditor},
          action : {"like", "dislike", "none"}, listed : {"like", "dislike", "none"},
          mine : {"like", "dislike", "none"}, undisturbed : BOOLEAN]
  <2>2. rating' = [r \in Ratings |-> rating'[r]]
    BY <1>8 DEF RatingUpdate
  <2>3. rating'[q] \in Kind
    BY <1>8 DEF RatingUpdate, RatingIdle
  <2>4. ASSUME NEW r \in Ratings, r # q
        PROVE  rating'[r] \in Kind
    <3>1. rating[r] \in Kind
      OBVIOUS
    <3>2. rating'[r] = [rating[r] EXCEPT !.undisturbed = @ /\ rating[r].user # u]
      BY <1>8, <2>4 DEF RatingUpdate
    <3>3. (rating[r].undisturbed /\ rating[r].user # u) \in BOOLEAN
      OBVIOUS
    <3>4. QED
      BY <3>1, <3>2, <3>3
  <2>5. rating' \in [Ratings -> Kind]
    BY <2>2, <2>3, <2>4
  <2>6. QED
    BY <1>8, <2>1, <2>5 DEF RatingUpdate
<1>9. ASSUME NEW q \in Ratings, RatingList(q) \/ RatingLook(q)
      PROVE  ProblemsTypeOK'
  <2>1. RatingOf(rating[q].user) \in {"like", "dislike", "none"}
    BY DEF RatingOf
  <2>2. QED
    BY <1>9, <2>1 DEF RatingList, RatingLook
<1>10. ASSUME NEW q \in Ratings, RatingEnd(q)
       PROVE  ProblemsTypeOK'
  BY <1>10 DEF RatingEnd, RatingIdle
<1>11. CASE UNCHANGED problemsVars
  BY <1>11 DEF problemsVars
<1> HIDE DEF ProblemsTypeOK
<1>12. QED
  BY <1>1, <1>2, <1>3, <1>4, <1>5, <1>6, <1>7, <1>8, <1>9, <1>10, <1>11
     DEF ProblemsNext, RowNext, EditorNext, RatingNext

\* Type correctness.
THEOREM ProblemsTypeCorrect == ProblemsSpec => []ProblemsTypeOK
<1>1. ProblemsInit => ProblemsTypeOK
  BY ProblemsInitType
<1>2. ProblemsTypeOK /\ [ProblemsNext]_problemsVars => ProblemsTypeOK'
  BY ProblemsNextType
<1>3. QED
  BY <1>1, <1>2, PTL DEF ProblemsSpec

-----------------------------------------------------------------------------
(* Ratings *)

\* RatingsAgree is not inductive alone: of an undisturbed request, the table
\* and what was read of it already say what the user asked for.
RatingsKept ==
    /\ likes \cap dislikes = {}
    /\ \A q \in Ratings : rating[q].undisturbed =>
         /\ ProblemExists /\ rating[q].stage \in {"listing", "looking"}
              => RatingOf(rating[q].user) = rating[q].action
         /\ rating[q].stage \in {"looking", "answered"} => rating[q].listed = rating[q].action
         /\ rating[q].stage = "answered" => rating[q].mine = rating[q].action
    /\ \A q \in Ratings : rating[q].stage # "idle" => problem # "absent"

LEMMA NextRatingsKept ==
    ASSUME ProblemsTypeOK, RatingsKept, [ProblemsNext]_problemsVars
    PROVE  RatingsKept'
<1> USE DEF ProblemsTypeOK, RatingsKept, RatingOf, ProblemExists, ratingVars
<1>1. ASSUME NEW want \in SUBSET Tags, NEW langs \in SUBSET Langs, CreateProblem(want, langs)
      PROVE  RatingsKept'
  BY <1>1 DEF CreateProblem
<1>2. CASE DeleteProblem
  BY <1>2 DEF DeleteProblem
<1>3. CASE EditorNext
  <2>1. UNCHANGED <<problem, ratingVars>>
    BY <1>3 DEF EditorNext, EditorRead, EditorDisconnect, EditorConnect, EditorCode, EditorFail
  <2>2. QED
    BY <2>1
<1>4. ASSUME NEW q \in Ratings, NEW u \in Raters, NEW action \in {"like", "dislike", "none"},
             RatingUpdate(q, u, action)
      PROVE  RatingsKept'
  <2>1. likes' \cap dislikes' = {} /\ problem' = "exists"
    BY <1>4 DEF RatingUpdate
  <2>2. /\ rating'[q].user = u /\ rating'[q].action = action /\ rating'[q].stage = "listing"
        /\ RatingOf(u)' = action
    BY <1>4 DEF RatingUpdate, RatingIdle
  <2>3. ASSUME NEW r \in Ratings, r # q
        PROVE  /\ rating'[r].stage = rating[r].stage /\ rating'[r].user = rating[r].user
               /\ rating'[r].action = rating[r].action /\ rating'[r].listed = rating[r].listed
               /\ rating'[r].mine = rating[r].mine
               /\ rating'[r].undisturbed => rating[r].undisturbed /\ rating[r].user # u
    <3>1. rating'[r] = [rating[r] EXCEPT !.undisturbed = @ /\ rating[r].user # u]
      BY <1>4, <2>3 DEF RatingUpdate
    <3>2. rating'[r].undisturbed = (rating[r].undisturbed /\ rating[r].user # u)
      BY <3>1
    <3>3. rating'[r].undisturbed => rating[r].undisturbed /\ rating[r].user # u
      BY <3>2, Zenon
    <3>4. /\ rating'[r].stage = rating[r].stage /\ rating'[r].user = rating[r].user
          /\ rating'[r].action = rating[r].action /\ rating'[r].listed = rating[r].listed
          /\ rating'[r].mine = rating[r].mine
      BY <3>1
    <3>5. QED
      BY <3>3, <3>4
  <2>4. ASSUME NEW v, v # u
        PROVE  (v \in likes' <=> v \in likes) /\ (v \in dislikes' <=> v \in dislikes)
    BY <1>4, <2>4 DEF RatingUpdate
  <2>5. ProblemExists /\ problem' = problem
    BY <1>4 DEF RatingUpdate
  <2>6. ASSUME NEW r \in Ratings, rating'[r].undisturbed
        PROVE  /\ rating'[r].stage \in {"listing", "looking"}
                    => RatingOf(rating[r].user)' = rating'[r].action
               /\ rating'[r].stage \in {"looking", "answered"}
                    => rating'[r].listed = rating'[r].action
               /\ rating'[r].stage = "answered" => rating'[r].mine = rating'[r].action
    <3>1. CASE r = q
      BY <2>2, <3>1
    <3>2. CASE r # q
      BY <2>3, <2>4, <2>5, <2>6, <3>2
    <3>3. QED
      BY <3>1, <3>2
  <2>7. \A r \in Ratings : rating'[r].stage # "idle" => problem' # "absent"
    BY <2>1
  <2> HIDE DEF RatingOf
  <2>8. QED
    BY <2>1, <2>6, <2>7
<1>5. ASSUME NEW q \in Ratings, RatingList(q) \/ RatingLook(q)
      PROVE  RatingsKept'
  BY <1>5 DEF RatingList, RatingLook, tagVars
<1>6. ASSUME NEW q \in Ratings, RatingEnd(q)
      PROVE  RatingsKept'
  BY <1>6 DEF RatingEnd, RatingIdle
<1>7. CASE UNCHANGED problemsVars
  BY <1>7 DEF problemsVars
<1> HIDE DEF RatingsKept, ProblemsTypeOK
<1>8. QED
  BY <1>1, <1>2, <1>3, <1>4, <1>5, <1>6, <1>7 DEF ProblemsNext, RowNext, RatingNext

\* Nobody both likes and dislikes a problem, and undisturbed answers say what
\* was asked for, for any number of raters and requests.
THEOREM RatingsAlwaysAgree == ProblemsSpec => []RatingsAgree
<1>1. ProblemsInit => ProblemsTypeOK /\ RatingsKept
  BY ProblemsInitType DEF ProblemsInit, RatingIdle, RatingsKept, ProblemExists
<1>2. (ProblemsTypeOK /\ RatingsKept) /\ [ProblemsNext]_problemsVars
        => (ProblemsTypeOK /\ RatingsKept)'
  BY ProblemsNextType, NextRatingsKept
<1>3. RatingsKept => RatingsAgree
  BY DEF RatingsKept, RatingsAgree
<1>4. QED
  BY <1>1, <1>2, <1>3, PTL DEF ProblemsSpec

-----------------------------------------------------------------------------
(* Starter codes and tags *)

InFlight(e) == editor[e].stage \notin {"idle", "done", "failed"}

\* Editors under way together have met.
MeetingsKept ==
    /\ problem = "absent" => \A e \in Editors : editor[e].stage = "idle"
    /\ \A d, e \in Editors : InFlight(d) /\ InFlight(e) /\ d # e => <<d, e>> \in met

LEMMA NextMeetingsKept ==
    ASSUME ProblemsTypeOK, MeetingsKept, [ProblemsNext]_problemsVars
    PROVE  MeetingsKept'
<1> USE DEF ProblemsTypeOK, MeetingsKept, InFlight, ProblemExists, EditorTo, EndEditor, EditorAt
<1>1. ASSUME NEW want \in SUBSET Tags, NEW langs \in SUBSET Langs, CreateProblem(want, langs)
      PROVE  MeetingsKept'
  BY <1>1 DEF CreateProblem
<1>2. CASE DeleteProblem
  BY <1>2 DEF DeleteProblem
<1>3. ASSUME NEW e \in Editors, NEW want \in SUBSET Tags, NEW langs \in SUBSET Langs,
             EditorRead(e, want, langs)
      PROVE  MeetingsKept'
  BY <1>3 DEF EditorRead, EditorsInFlight
<1>4. ASSUME NEW e \in Editors, EditorDisconnect(e) \/ EditorCode(e)
      PROVE  MeetingsKept'
  BY <1>4 DEF EditorDisconnect, EditorCode
<1>5. ASSUME NEW e \in Editors, EditorConnect(e)
      PROVE  MeetingsKept'
  <2>1. \A d \in Editors : InFlight(d)' => InFlight(d)
    BY <1>5 DEF EditorConnect
  <2>2. QED
    BY <1>5, <2>1 DEF EditorConnect
<1>6. ASSUME NEW e \in Editors, EditorFail(e)
      PROVE  MeetingsKept'
  BY <1>6 DEF EditorFail, EditorsInFlight
<1>7. CASE RatingNext
  <2>1. UNCHANGED <<problem, tagVars>>
    BY <1>7 DEF RatingNext, RatingUpdate, RatingList, RatingLook, RatingEnd
  <2>2. QED
    BY <2>1 DEF tagVars
<1>8. CASE UNCHANGED problemsVars
  BY <1>8 DEF problemsVars, tagVars
<1> HIDE DEF ProblemsTypeOK, MeetingsKept
<1>9. QED
  BY <1>1, <1>2, <1>3, <1>4, <1>5, <1>6, <1>7, <1>8 DEF ProblemsNext, RowNext, EditorNext

\* DuplicatesMet is not inductive alone: whoever has read no codes has met the
\* creator of every code there is, and codes are those of editors at their end.
CodesKept ==
    /\ problem = "absent" => codes = {}
    /\ \A c \in codes : c[1] # NoEditor => editor[c[1]].stage = "done"
    /\ \A e \in Editors : editor[e].stage = "coding" => editor[e].noCodes
    /\ \A e \in Editors, c \in codes :
         InFlight(e) /\ editor[e].noCodes => <<c[1], e>> \in met /\ <<e, c[1]>> \in met
    /\ DuplicatesMet

LEMMA NextCodesKept ==
    ASSUME ProblemsTypeOK, MeetingsKept, CodesKept, [ProblemsNext]_problemsVars
    PROVE  CodesKept'
<1> USE DEF ProblemsTypeOK, MeetingsKept, CodesKept, DuplicatesMet, InFlight, ProblemExists,
            EditorTo, EndEditor, EditorAt
<1>1. ASSUME NEW want \in SUBSET Tags, NEW langs \in SUBSET Langs, CreateProblem(want, langs)
      PROVE  CodesKept'
  BY <1>1 DEF CreateProblem
<1>2. CASE DeleteProblem
  BY <1>2 DEF DeleteProblem
<1>3. ASSUME NEW e \in Editors, NEW want \in SUBSET Tags, NEW langs \in SUBSET Langs,
             EditorRead(e, want, langs)
      PROVE  CodesKept'
  BY <1>3, ProblemsAssumption DEF EditorRead
<1>4. ASSUME NEW e \in Editors, EditorDisconnect(e)
      PROVE  CodesKept'
  BY <1>4, ProblemsAssumption DEF EditorDisconnect
<1>5. ASSUME NEW e \in Editors, EditorConnect(e)
      PROVE  CodesKept'
  <2>1. \A d \in Editors \ {e} : editor'[d] = editor[d]
    BY <1>5 DEF EditorConnect
  <2>2. editor'[e].stage = "done" \/ (editor'[e].stage = "coding" /\ editor'[e].noCodes)
    BY <1>5 DEF EditorConnect
  <2>3. InFlight(e)' => editor[e].noCodes
    BY <1>5 DEF EditorConnect
  <2>4. InFlight(e) /\ editor[e].stage = "connecting"
    BY <1>5 DEF EditorConnect
  <2>5. UNCHANGED <<problem, codes, met>>
    BY <1>5 DEF EditorConnect
  <2>6. QED
    BY <2>1, <2>2, <2>3, <2>4, <2>5, ProblemsAssumption
<1>6. ASSUME NEW e \in Editors, EditorCode(e)
      PROVE  CodesKept'
  <2>1. \A d \in Editors \ {e} : editor'[d] = editor[d]
    BY <1>6 DEF EditorCode
  <2>2. editor'[e].stage = "done" /\ InFlight(e) /\ editor[e].noCodes
    BY <1>6 DEF EditorCode
  <2>3. UNCHANGED <<problem, met>> /\ problem # "absent"
    BY <1>6 DEF EditorCode
  <2>4. \A c \in codes' : c \in codes \/ (c = <<e, c[2]>> /\ c[1] = e)
    BY <1>6 DEF EditorCode
  <2>5. \A c \in codes' : c[1] # NoEditor => editor'[c[1]].stage = "done"
    BY <2>1, <2>2, <2>4
  <2>6. \A d \in Editors, c \in codes' :
          InFlight(d)' /\ editor'[d].noCodes => <<c[1], d>> \in met /\ <<d, c[1]>> \in met
    BY <2>1, <2>2, <2>4
  <2>7. \A c, d \in codes' : c # d /\ c[2] = d[2] => <<c[1], d[1]>> \in met
    <3> SUFFICES ASSUME NEW c \in codes', NEW d \in codes', c # d, c[2] = d[2]
                 PROVE  <<c[1], d[1]>> \in met
      OBVIOUS
    <3>1. CASE c \in codes /\ d \in codes
      BY <3>1
    <3>2. CASE c \in codes /\ d = <<e, d[2]>> /\ d[1] = e
      BY <2>2, <3>2
    <3>3. CASE c = <<e, c[2]>> /\ c[1] = e /\ d \in codes
      BY <2>2, <3>3
    <3>4. CASE c = <<e, c[2]>> /\ d = <<e, d[2]>>
      BY <3>4, Zenon
    <3>5. QED
      BY <2>4, <3>1, <3>2, <3>3, <3>4
  <2>8. QED
    BY <2>1, <2>2, <2>3, <2>5, <2>6, <2>7
<1>7. ASSUME NEW e \in Editors, EditorFail(e)
      PROVE  CodesKept'
  BY <1>7, ProblemsAssumption DEF EditorFail, EditorsInFlight
<1>8. CASE RatingNext
  <2>1. UNCHANGED <<problem, tagVars>>
    BY <1>8 DEF RatingNext, RatingUpdate, RatingList, RatingLook, RatingEnd
  <2>2. QED
    BY <2>1 DEF tagVars
<1>9. CASE UNCHANGED problemsVars
  BY <1>9 DEF problemsVars, tagVars
<1> HIDE DEF ProblemsTypeOK, MeetingsKept, CodesKept
<1>10. QED
  BY <1>1, <1>2, <1>3, <1>4, <1>5, <1>6, <1>7, <1>8, <1>9 DEF ProblemsNext, RowNext, EditorNext
\* Two starter codes for one language come from editors who met, for any number
\* of editors and languages.
THEOREM DuplicatesAlwaysMet == ProblemsSpec => []DuplicatesMet
<1>1. ProblemsInit => ProblemsTypeOK /\ MeetingsKept /\ CodesKept
  BY ProblemsInitType
     DEF ProblemsInit, EditorAt, MeetingsKept, CodesKept, DuplicatesMet, InFlight
<1>2. (ProblemsTypeOK /\ MeetingsKept /\ CodesKept) /\ [ProblemsNext]_problemsVars
        => (ProblemsTypeOK /\ MeetingsKept /\ CodesKept)'
  BY ProblemsNextType, NextMeetingsKept, NextCodesKept
<1>3. CodesKept => DuplicatesMet
  BY DEF CodesKept
<1>4. QED
  BY <1>1, <1>2, <1>3, PTL DEF ProblemsSpec

Alone(e) == \A d \in Editors : <<e, d>> \notin met

\* TagsSettle is not inductive alone: of an editor who has met nobody, the tags
\* are those read until they are disconnected, and then none; the last editor's
\* tags hold while nobody is between disconnecting and connecting.
TagsKept ==
    /\ last # NoEditor => problem = "exists" /\ editor[last].stage \in {"coding", "done", "failed"}
    /\ \A e \in Editors : ProblemExists /\ Alone(e) =>
         /\ editor[e].stage = "disconnecting" => tags = editor[e].seen
         /\ editor[e].stage = "connecting" => tags = {}
    /\ last # NoEditor /\ ~torn /\ (\A e \in Editors : editor[e].stage # "connecting")
         => /\ editor[last].want \subseteq tags
            /\ Alone(last) => tags = editor[last].want

LEMMA NextTagsKept ==
    ASSUME ProblemsTypeOK, MeetingsKept, TagsKept, [ProblemsNext]_problemsVars
    PROVE  TagsKept'
<1> USE DEF ProblemsTypeOK, MeetingsKept, TagsKept, InFlight, Alone, ProblemExists,
            EditorTo, EndEditor, EditorAt
<1>1. ASSUME NEW want \in SUBSET Tags, NEW langs \in SUBSET Langs, CreateProblem(want, langs)
      PROVE  TagsKept'
  BY <1>1 DEF CreateProblem
<1>2. CASE DeleteProblem
  BY <1>2 DEF DeleteProblem
<1>3. ASSUME NEW e \in Editors, NEW want \in SUBSET Tags, NEW langs \in SUBSET Langs,
             EditorRead(e, want, langs)
      PROVE  TagsKept'
  <2>1. met \subseteq met' /\ UNCHANGED <<problem, tags, last, torn>>
    BY <1>3 DEF EditorRead
  <2>2. /\ editor[e].stage = "idle"
        /\ editor'[e].stage = "disconnecting" /\ editor'[e].seen = tags
        /\ \A d \in Editors \ {e} : editor'[d] = editor[d]
    BY <1>3 DEF EditorRead
  <2>3. QED
    BY <2>1, <2>2, ProblemsAssumption
<1>4. ASSUME NEW e \in Editors, EditorDisconnect(e)
      PROVE  TagsKept'
  <2>1. /\ editor[e].stage = "disconnecting" /\ editor'[e].stage = "connecting"
        /\ \A d \in Editors \ {e} : editor'[d] = editor[d]
        /\ UNCHANGED <<problem, met, last, torn>> /\ problem = "exists"
        /\ tags' = tags \ editor[e].seen
    BY <1>4 DEF EditorDisconnect
  <2>2. \A d \in Editors \ {e} :
          editor[d].stage \in {"disconnecting", "connecting"} => ~Alone(d)
    BY <2>1
  <2>3. Alone(e) => tags' = {}
    BY <2>1
  <2>4. QED
    BY <2>1, <2>2, <2>3, ProblemsAssumption
<1>5. ASSUME NEW e \in Editors, EditorConnect(e)
      PROVE  TagsKept'
  <2>1. /\ editor[e].stage = "connecting" /\ editor'[e].stage \in {"coding", "done"}
        /\ editor'[e].want = editor[e].want
        /\ \A d \in Editors \ {e} : editor'[d] = editor[d]
        /\ UNCHANGED <<problem, met>> /\ problem = "exists"
        /\ tags' = tags \cup editor[e].want /\ last' = e
    BY <1>5 DEF EditorConnect
  <2>2. \A d \in Editors \ {e} :
          editor[d].stage \in {"disconnecting", "connecting"} => ~Alone(d)
    BY <2>1
  <2>3. Alone(e) => tags' = editor[e].want
    BY <2>1
  <2>4. QED
    BY <2>1, <2>2, <2>3, ProblemsAssumption
<1>6. ASSUME NEW e \in Editors, EditorCode(e)
      PROVE  TagsKept'
  <2>1. /\ editor[e].stage = "coding" /\ editor'[e].stage = "done"
        /\ editor'[e].want = editor[e].want
        /\ \A d \in Editors \ {e} : editor'[d] = editor[d]
        /\ UNCHANGED <<problem, met, tags, last, torn>>
    BY <1>6 DEF EditorCode
  <2>2. QED
    BY <2>1, ProblemsAssumption
<1>7. ASSUME NEW e \in Editors, EditorFail(e)
      PROVE  TagsKept'
  <2>1. /\ editor[e].stage \in {"disconnecting", "connecting", "coding"}
        /\ editor'[e].stage = "failed"
        /\ editor'[e].want = editor[e].want
        /\ \A d \in Editors \ {e} : editor'[d] = editor[d]
        /\ UNCHANGED <<problem, met, tags, last>>
    BY <1>7 DEF EditorFail, EditorsInFlight
  <2>2. ~torn' => ~torn /\ editor[e].stage # "connecting"
    BY <1>7 DEF EditorFail
  <2>3. QED
    BY <2>1, <2>2, ProblemsAssumption
<1>8. CASE RatingNext
  <2>1. UNCHANGED <<problem, tagVars>>
    BY <1>8 DEF RatingNext, RatingUpdate, RatingList, RatingLook, RatingEnd
  <2>2. QED
    BY <2>1 DEF tagVars
<1>9. CASE UNCHANGED problemsVars
  BY <1>9 DEF problemsVars, tagVars
<1> HIDE DEF ProblemsTypeOK, MeetingsKept, TagsKept
<1>10. QED
  BY <1>1, <1>2, <1>3, <1>4, <1>5, <1>6, <1>7, <1>8, <1>9 DEF ProblemsNext, RowNext, EditorNext

\* When all editors have ended, and none half-way, the tags of the last one are
\* there, and no others unless it met another, for any number of editors.
THEOREM TagsAlwaysSettle == ProblemsSpec => []TagsSettle
<1>1. ProblemsInit => ProblemsTypeOK /\ MeetingsKept /\ TagsKept
  BY ProblemsInitType DEF ProblemsInit, EditorAt, MeetingsKept, TagsKept, InFlight, ProblemExists
<1>2. (ProblemsTypeOK /\ MeetingsKept /\ TagsKept) /\ [ProblemsNext]_problemsVars
        => (ProblemsTypeOK /\ MeetingsKept /\ TagsKept)'
  BY ProblemsNextType, NextMeetingsKept, NextTagsKept
<1>3. TagsKept => TagsSettle
  BY DEF TagsKept, TagsSettle, EditorsInFlight, Alone
<1>4. QED
  BY <1>1, <1>2, <1>3, PTL DEF ProblemsSpec

-----------------------------------------------------------------------------
(* RoomAccess *)

LEMMA MergedPage ==
    ASSUME NEW body \in Bodies, NEW page \in Pages
    PROVE  /\ Merge(body, page) \in Pages
           /\ IsWhole(body) => Merge(body, page) = body
BY DEF Merge, IsWhole, Bodies, Pages

LEMMA RoomAccessInitType == RoomAccessInit => RoomAccessTypeOK
<1> SUFFICES ASSUME RoomAccessInit PROVE RoomAccessTypeOK
  OBVIOUS
<1> USE DEF RoomAccessInit
<1>1. Nobody \in Senders
  BY DEF Senders
<1>2. BlankPage \in Pages
  BY PageBodiesAssumption DEF BlankPage, Pages
<1>3. room \in [state : {"absent", "exists", "deleted"}, owner : Accounts \cup {Nobody},
                public : BOOLEAN, allowed : SUBSET Accounts,
                content : Pages, preview : Bodies \cup {NoContent}]
  BY <1>2
<1>4. QED
  BY <1>1, <1>3 DEF RoomAccessTypeOK, RequestIdle

\* Every step keeps the types.
LEMMA RoomAccessNextType ==
    ASSUME RoomAccessTypeOK, [RoomAccessNext]_roomAccessVars
    PROVE  RoomAccessTypeOK'
<1> USE DEF RoomAccessTypeOK, Senders, RequestIdle, previewHistory
<1>1. ASSUME NEW creator \in Accounts, NEW public \in BOOLEAN, AccessCreateRoom(creator, public)
      PROVE  RoomAccessTypeOK'
  BY <1>1 DEF AccessCreateRoom, RoomBecomes
<1>2. ASSUME NEW patch \in Patches, AccessUpdateRoom(patch)
      PROVE  RoomAccessTypeOK'
  <2>1. patch \in PatchType
    BY RoomAccessAssumption
  <2>2. Merge(patch.body, room.content) \in Pages
    BY <2>1, MergedPage DEF PatchType
  <2>3. room' \in [state : {"absent", "exists", "deleted"}, owner : Accounts \cup {Nobody},
                   public : BOOLEAN, allowed : SUBSET Accounts,
                   content : Pages, preview : Bodies \cup {NoContent}]
    BY <1>2, <2>1, <2>2 DEF AccessUpdateRoom, RoomBecomes, Given, PatchType
  <2>4. candidates' \subseteq Bodies \cup {NoContent} /\ patched' \in BOOLEAN
    BY <1>2, <2>3 DEF AccessUpdateRoom, Adds
  <2>5. was' \subseteq Requests /\ UNCHANGED <<request, drawing>>
    BY <1>2 DEF AccessUpdateRoom, RoomBecomes
  <2>6. QED
    BY <2>3, <2>4, <2>5
<1>3. ASSUME NEW user \in Accounts, AccessUpdateAllowList(user)
      PROVE  RoomAccessTypeOK'
  <2>1. PICK listedThen \in SUBSET Accounts : RoomBecomes([room EXCEPT !.allowed = listedThen])
    BY <1>3 DEF AccessUpdateAllowList
  <2>2. QED
    BY <1>3, <2>1 DEF AccessUpdateAllowList, RoomBecomes
<1>4. ASSUME NEW r \in Requests, NEW kind \in {"get", "save", "delete"},
             NEW sender \in Senders, NEW body \in Bodies,
             Arrive(r, kind, sender, body)
      PROVE  RoomAccessTypeOK'
  BY <1>4 DEF Arrive
<1>5. ASSUME NEW r \in Requests, CheckRoleInRoom(r)
      PROVE  RoomAccessTypeOK'
  <2>1. RoleOf(request[r].sender) \in {"none", "owner", "contributor", "guest", "requester"}
    BY DEF RoleOf
  <2>2. QED
    BY <1>5, <2>1 DEF CheckRoleInRoom, End, Ended, ToAs, Rest
<1>6. ASSUME NEW r \in Requests,
             CheckIfAuthenticated(r) \/ RequestFails(r) \/ GetRoom(r) \/ CheckIfUserIsOwner(r)
      PROVE  RoomAccessTypeOK'
  BY <1>6
     DEF CheckIfAuthenticated, RequestFails, GetRoom, CheckIfUserIsOwner, To, End, Ended, Rest
<1>7. ASSUME NEW r \in Requests, SaveContents(r)
      PROVE  RoomAccessTypeOK'
  <2>1. request[r].body \in Bodies
    BY <1>7 DEF SaveContents
  <2>2. Merge(request[r].body, room.content) \in Pages
    BY <2>1, MergedPage
  <2>3. candidates' \subseteq Bodies \cup {NoContent} /\ patched' \in BOOLEAN
    BY <1>7, <2>1 DEF SaveContents, Adds
  <2>4. QED
    BY <1>7, <2>2, <2>3 DEF SaveContents, RoomBecomes, To
<1>8. ASSUME NEW r \in Requests, StartPreview(r) \/ WritePreview(r) \/ PreviewFails(r)
      PROVE  RoomAccessTypeOK'
  <2>1. CASE StartPreview(r)
    BY <2>1 DEF StartPreview, End, Ended
  <2>2. CASE WritePreview(r)
    <3>1. was' \subseteq Requests
      BY <2>2 DEF WritePreview, RoomBecomes
    <3>2. QED
      BY <2>2, <3>1 DEF WritePreview, RoomBecomes, EndDrawing
  <2>3. CASE PreviewFails(r)
    BY <2>3 DEF PreviewFails, EndDrawing
  <2>4. QED
    BY <1>8, <2>1, <2>2, <2>3
<1>9. ASSUME NEW r \in Requests, AccessDeleteRoom(r)
      PROVE  RoomAccessTypeOK'
  BY <1>9 DEF AccessDeleteRoom, RoomBecomes, End, Ended
<1>10. CASE RoomAccessCrash
  BY <1>10 DEF RoomAccessCrash, Ended
<1>11. CASE UNCHANGED roomAccessVars
  BY <1>11 DEF roomAccessVars
<1>12. QED
  BY <1>1, <1>2, <1>3, <1>4, <1>5, <1>6, <1>7, <1>8, <1>9, <1>10, <1>11 DEF RoomAccessNext, Serve

\* Type correctness.
THEOREM RoomAccessTypeCorrect == RoomAccessSpec => []RoomAccessTypeOK
<1>1. RoomAccessInit => RoomAccessTypeOK
  BY RoomAccessInitType
<1>2. RoomAccessTypeOK /\ [RoomAccessNext]_roomAccessVars => RoomAccessTypeOK'
  BY RoomAccessNextType
<1>3. QED
  BY <1>1, <1>2, PTL DEF RoomAccessSpec

-----------------------------------------------------------------------------
(* Who is served *)

\* ContentsWerePermitted is not inductive alone: it needs that the history
\* keeps up with requests under way, and that a role to serve was deserved.
Deserved ==
    \A r \in Requests :
        /\ InProgress(r) /\ Permitted(room, request[r].sender) => r \in was
        /\ request[r].stage = "allowed" /\ request[r].kind = "get"
             => request[r].role = "requester" \/ r \in was
        /\ request[r].stage = "served" => r \in was

\* A role other than the requester's is given to those who are permitted.
LEMMA RoleIsDeserved ==
    ASSUME NEW sender \in Accounts \cup {Nobody}, RoomExists,
           RoleOf(sender) \notin {"none", "requester"}
    PROVE  Permitted(room, sender)
BY RoomAccessAssumption DEF RoleOf, Permitted, RoomExists

LEMMA NextDeserved ==
    ASSUME RoomAccessTypeOK, Deserved, [RoomAccessNext]_roomAccessVars
    PROVE  Deserved'
<1> USE DEF RoomAccessTypeOK, Deserved, InProgress, previewHistory
\* A step that changes the room only, or moves a request out of its progress.
<1>1. ASSUME NEW state, RoomBecomes(state),
             \A r \in Requests :
               \/ request'[r] = request[r]
               \/ request'[r].stage \in {"saved", "answered"}
      PROVE  Deserved'
  BY <1>1 DEF RoomBecomes
\* Requests that end unserved.
<1>2. ASSUME UNCHANGED <<room, was>>,
             \A r \in Requests :
               \/ request'[r] = request[r]
               \/ request'[r].stage \in {"refused", "answered", "lost"}
      PROVE  Deserved'
  BY <1>2
<1>3. ASSUME NEW creator \in Accounts, NEW public \in BOOLEAN, AccessCreateRoom(creator, public)
      PROVE  Deserved'
  BY <1>3, <1>1 DEF AccessCreateRoom
<1>4. ASSUME \/ \E patch \in Patches : AccessUpdateRoom(patch)
             \/ \E user \in Accounts : AccessUpdateAllowList(user)
      PROVE  Deserved'
  <2>1. \E state : RoomBecomes(state)
    BY <1>4 DEF AccessUpdateRoom, AccessUpdateAllowList
  <2>2. request' = request
    BY <1>4 DEF AccessUpdateRoom, AccessUpdateAllowList
  <2>3. QED
    BY <1>1, <2>1, <2>2
<1>5. ASSUME NEW r \in Requests, NEW kind \in {"get", "save", "delete"},
             NEW sender \in Senders, NEW body \in Bodies,
             Arrive(r, kind, sender, body)
      PROVE  Deserved'
  BY <1>5 DEF Arrive
<1>6. ASSUME NEW r \in Requests, CheckRoleInRoom(r)
      PROVE  Deserved'
  <2>1. CASE End(r, "refused")
    BY <1>6, <1>2, <2>1 DEF CheckRoleInRoom, End, Ended, RequestIdle, Rest
  <2>2. CASE RoomExists /\ request[r].sender \in Accounts \cup {Nobody}
               /\ RoleOf(request[r].sender) # "none"
    <3>1. RoleOf(request[r].sender) = "requester" \/ r \in was
      BY <1>6, <2>2, RoleIsDeserved DEF CheckRoleInRoom
    <3>2. QED
      BY <1>6, <2>2, <3>1 DEF CheckRoleInRoom, ToAs, Rest
  <2>3. QED
    BY <1>6, <2>1, <2>2 DEF CheckRoleInRoom
<1>7. ASSUME NEW r \in Requests, CheckIfAuthenticated(r)
      PROVE  Deserved'
  BY <1>7 DEF CheckIfAuthenticated, To, End, Ended, RequestIdle, Rest
<1>8. ASSUME NEW r \in Requests, RequestFails(r) \/ GetRoom(r) \/ CheckIfUserIsOwner(r)
      PROVE  Deserved'
  BY <1>8 DEF RequestFails, GetRoom, CheckIfUserIsOwner, To, End, Ended, RequestIdle, Rest
<1>9. ASSUME NEW r \in Requests, SaveContents(r) \/ AccessDeleteRoom(r) \/ WritePreview(r)
      PROVE  Deserved'
  BY <1>9, <1>1
     DEF SaveContents, AccessDeleteRoom, WritePreview, To, End, Ended, RequestIdle
<1>10. ASSUME NEW r \in Requests, StartPreview(r) \/ PreviewFails(r)
       PROVE  Deserved'
  BY <1>10, <1>2 DEF StartPreview, PreviewFails, End, Ended, RequestIdle
<1>11. CASE RoomAccessCrash
  BY <1>11, <1>2 DEF RoomAccessCrash, Ended, RequestIdle
<1>12. CASE UNCHANGED roomAccessVars
  BY <1>12 DEF roomAccessVars
<1>13. QED
  BY <1>3, <1>4, <1>5, <1>6, <1>7, <1>8, <1>9, <1>10, <1>11, <1>12 DEF RoomAccessNext, Serve

\* Whoever is served a room's contents was permitted to see them at some time
\* since the request arrived, for any number of users and requests.
THEOREM ContentsAlwaysPermitted == RoomAccessSpec => []ContentsWerePermitted
<1>1. RoomAccessInit => RoomAccessTypeOK /\ Deserved
  BY RoomAccessInitType DEF RoomAccessInit, RequestIdle, Deserved, InProgress
<1>2. (RoomAccessTypeOK /\ Deserved) /\ [RoomAccessNext]_roomAccessVars
        => (RoomAccessTypeOK /\ Deserved)'
  BY RoomAccessNextType, NextDeserved
<1>3. Deserved => ContentsWerePermitted
  BY DEF Deserved, ContentsWerePermitted
<1>4. QED
  BY <1>1, <1>2, <1>3, PTL DEF RoomAccessSpec

-----------------------------------------------------------------------------
(* Previews *)

\* PreviewOfLatestSaves is not inductive alone: what is still to be drawn is
\* among the candidates, and the content is that of the only one.
Pictured ==
    /\ \A r \in Requests : request[r].stage = "saved" =>
         request[r].kind = "save" /\ request[r].body \in candidates
    /\ \A r \in Requests : drawing[r] # NoContent => drawing[r] \in candidates
    /\ Unfinished = {} => room.preview \in candidates
    /\ candidates # {}
    /\ ~patched => \A body \in Bodies :
         IsWhole(body) /\ candidates = {body} => room.content = body

\* The picture a job has left, or what is there without it, becomes a candidate.
LEMMA CandidateLeft ==
    ASSUME Pictured, Unfinished' \subseteq Unfinished, UNCHANGED <<room, patched>>,
           candidates' = candidates \cup {room.preview},
           \A r \in Requests : request'[r].stage = "saved" => request'[r] = request[r],
           \A r \in Requests : drawing'[r] # NoContent => drawing'[r] = drawing[r]
    PROVE  Pictured'
<1> USE DEF Pictured
<1>1. /\ candidates' # {} /\ candidates \subseteq candidates'
      /\ room'.preview \in candidates'
  OBVIOUS
<1>2. ASSUME ~patched', NEW body \in Bodies, IsWhole(body), candidates' = {body}
      PROVE  room'.content = body
  <2>1. candidates = {body}
    BY <1>1, <1>2
  <2>2. QED
    BY <1>2, <2>1
<1>3. QED
  BY <1>1, <1>2

LEMMA NextPictured ==
    ASSUME RoomAccessTypeOK, Pictured, [RoomAccessNext]_roomAccessVars
    PROVE  Pictured'
<1> USE DEF RoomAccessTypeOK, previewHistory
\* A step that starts and ends no save and changes neither contents nor preview.
<1>1. ASSUME UNCHANGED <<drawing, candidates, patched>>,
             room'.preview = room.preview, room'.content = room.content,
             \A r \in Requests : \/ request'[r] = request[r]
                                 \/ request[r].stage # "saved" /\ request'[r].stage # "saved"
      PROVE  Pictured'
  <2>1. Unfinished' = Unfinished
    BY <1>1 DEF Unfinished
  <2>2. QED
    BY <1>1, <2>1 DEF Pictured
<1>2. ASSUME NEW creator \in Accounts, NEW public \in BOOLEAN, AccessCreateRoom(creator, public)
      PROVE  Pictured'
  BY <1>1, <1>2 DEF AccessCreateRoom, RoomBecomes
<1>3. ASSUME NEW patch \in Patches, AccessUpdateRoom(patch)
      PROVE  Pictured'
  <2>1. /\ Unfinished' = Unfinished
        /\ UNCHANGED <<request, drawing>>
        /\ room'.preview = room.preview => candidates' = candidates
        /\ room'.preview # room.preview =>
             candidates' = IF Unfinished = {} THEN {room'.preview}
                           ELSE candidates \cup {room'.preview}
    BY <1>3 DEF AccessUpdateRoom, Unfinished, Adds
  <2>2. ~patched' => ~patched /\ room'.content = room.content /\ room'.preview = room.preview
    BY <1>3 DEF AccessUpdateRoom
  <2>3. CASE room'.preview = room.preview
    BY <2>1, <2>2, <2>3 DEF Pictured
  <2>4. CASE room'.preview # room.preview /\ Unfinished = {}
    BY <2>1, <2>2, <2>4 DEF Pictured, Unfinished
  <2>5. CASE room'.preview # room.preview /\ Unfinished # {}
    BY <2>1, <2>2, <2>5 DEF Pictured
  <2>6. QED
    BY <2>3, <2>4, <2>5
<1>4. ASSUME NEW user \in Accounts, AccessUpdateAllowList(user)
      PROVE  Pictured'
  <2>1. room'.preview = room.preview /\ room'.content = room.content
    BY <1>4 DEF AccessUpdateAllowList, RoomBecomes
  <2>2. QED
    BY <1>1, <1>4, <2>1 DEF AccessUpdateAllowList
<1>5. ASSUME NEW r \in Requests, NEW kind \in {"get", "save", "delete"},
             NEW sender \in Senders, NEW body \in Bodies,
             Arrive(r, kind, sender, body)
      PROVE  Pictured'
  BY <1>1, <1>5 DEF Arrive
<1>6. ASSUME NEW r \in Requests,
             \/ CheckRoleInRoom(r) \/ CheckIfAuthenticated(r) \/ RequestFails(r)
             \/ GetRoom(r) \/ CheckIfUserIsOwner(r)
      PROVE  Pictured'
  <2>1. /\ request[r].stage # "saved" /\ request'[r].stage # "saved"
        /\ \A q \in Requests \ {r} : request'[q] = request[q]
        /\ Rest' = Rest
    BY <1>6 DEF CheckRoleInRoom, CheckIfAuthenticated, RequestFails, GetRoom, CheckIfUserIsOwner,
                InProgress, To, ToAs, End, Ended, RequestIdle, Rest
  <2>2. QED
    BY <1>1, <2>1 DEF Rest
<1>7. ASSUME NEW r \in Requests, SaveContents(r)
      PROVE  Pictured'
  <2> DEFINE body == request[r].body
  <2>1. /\ body \in Bodies /\ request[r].kind = "save"
        /\ room'.content = Merge(body, room.content)
        /\ candidates' = IF Unfinished = {} THEN {body} ELSE candidates \cup {body}
        /\ patched' = (patched /\ Unfinished # {})
        /\ drawing' = drawing
        /\ request'[r].stage = "saved" /\ request'[r].kind = "save" /\ request'[r].body = body
        /\ \A q \in Requests \ {r} : request'[q] = request[q]
    BY <1>7 DEF SaveContents, RoomBecomes, To, Adds
  <2>2. IsWhole(body) => room'.content = body
    BY <2>1, MergedPage
  <2>3. Unfinished' # {} /\ body \in candidates'
    BY <2>1 DEF Unfinished
  <2> HIDE DEF body
  <2>4. ASSUME NEW other \in Bodies, IsWhole(other), candidates' = {other}
        PROVE  room'.content = other
    BY <2>2, <2>3, <2>4
  <2>5. \A q \in Requests : /\ request'[q].stage = "saved" =>
                                 request'[q].kind = "save" /\ request'[q].body \in candidates'
                            /\ drawing'[q] # NoContent => drawing'[q] \in candidates'
    <3>1. CASE Unfinished = {}
      BY <2>1, <2>3, <3>1 DEF Unfinished
    <3>2. CASE Unfinished # {}
      BY <2>1, <3>2 DEF Pictured
    <3>3. QED
      BY <3>1, <3>2
  <2>6. QED
    BY <2>3, <2>4, <2>5 DEF Pictured
<1>8. ASSUME NEW r \in Requests, StartPreview(r)
      PROVE  Pictured'
  <2>1. /\ request[r].stage = "saved" /\ request[r].body \in Bodies
        /\ request[r].body \in candidates
    BY <1>8 DEF StartPreview, Pictured
  <2>2. /\ drawing'[r] = request[r].body /\ request'[r].stage = "answered"
        /\ \A q \in Requests \ {r} : drawing'[q] = drawing[q] /\ request'[q] = request[q]
        /\ UNCHANGED <<room, candidates, patched>>
    BY <1>8 DEF StartPreview, End, Ended, RequestIdle
  <2>3. Unfinished' # {}
    BY <2>1, <2>2, RoomAccessAssumption DEF Unfinished
  <2>4. QED
    BY <2>1, <2>2, <2>3 DEF Pictured
<1>9. ASSUME NEW r \in Requests, WritePreview(r)
      PROVE  Pictured'
  <2>1. /\ drawing[r] # NoContent
        /\ room'.preview = drawing[r] /\ room'.content = room.content
        /\ UNCHANGED <<request, candidates, patched>>
        /\ \A q \in Requests : drawing'[q] # NoContent => drawing'[q] = drawing[q]
    BY <1>9 DEF WritePreview, RoomBecomes, EndDrawing
  <2>2. QED
    BY <2>1 DEF Pictured
<1>10. ASSUME NEW r \in Requests, PreviewFails(r)
       PROVE  Pictured'
  <2>1. /\ \A q \in Requests : drawing'[q] # NoContent => drawing'[q] = drawing[q]
        /\ UNCHANGED <<room, request, patched>>
        /\ candidates' = candidates \cup {room.preview}
    BY <1>10 DEF PreviewFails, EndDrawing
  <2>2. Unfinished' \subseteq Unfinished
    BY <2>1 DEF Unfinished
  <2>3. QED
    BY <2>1, <2>2, CandidateLeft
<1>11. ASSUME NEW r \in Requests, AccessDeleteRoom(r)
       PROVE  Pictured'
  <2>1. /\ room'.preview = room.preview /\ room'.content = room.content
        /\ request[r].stage # "saved" /\ request'[r].stage # "saved"
        /\ \A q \in Requests \ {r} : request'[q] = request[q]
        /\ UNCHANGED <<drawing, candidates, patched>>
    BY <1>11 DEF AccessDeleteRoom, RoomBecomes, End, Ended, RequestIdle
  <2>2. QED
    BY <1>1, <2>1
<1>12. CASE RoomAccessCrash
  <2>1. /\ \A q \in Requests : drawing'[q] = NoContent /\ request'[q].stage # "saved"
        /\ UNCHANGED <<room, patched>>
        /\ candidates' = candidates \cup {room.preview}
    BY <1>12 DEF RoomAccessCrash, Ended, RequestIdle
  <2>2. Unfinished' \subseteq Unfinished
    BY <2>1 DEF Unfinished
  <2>3. QED
    BY <2>1, <2>2, CandidateLeft
<1>13. CASE UNCHANGED roomAccessVars
  BY <1>1, <1>13 DEF roomAccessVars
<1>14. QED
  BY <1>2, <1>3, <1>4, <1>5, <1>6, <1>7, <1>8, <1>9, <1>10, <1>11, <1>12, <1>13
     DEF RoomAccessNext, Serve

\* Once its jobs are done, a room's preview shows one of the latest saves, or what
\* a failure, the death of the process or updateRoom has left there; a lone save
\* of a body with every column is shown, and is the content.
THEOREM PreviewAlwaysOfLatestSaves == RoomAccessSpec => []PreviewOfLatestSaves
<1>1. RoomAccessInit => RoomAccessTypeOK /\ Pictured
  <2>1. RoomAccessInit => Pictured
    BY RoomAccessAssumption DEF RoomAccessInit, RequestIdle, Pictured
  <2>2. QED
    BY <2>1, RoomAccessInitType
<1>2. (RoomAccessTypeOK /\ Pictured) /\ [RoomAccessNext]_roomAccessVars
        => (RoomAccessTypeOK /\ Pictured)'
  BY RoomAccessNextType, NextPictured
<1>3. Pictured => PreviewOfLatestSaves
  <2> SUFFICES ASSUME Pictured, Unfinished = {}
               PROVE  /\ room.preview \in candidates
                      /\ ~patched /\ (\E body \in Bodies : IsWhole(body) /\ candidates = {body})
                           => room.preview = room.content
    BY DEF PreviewOfLatestSaves
  <2>1. room.preview \in candidates
    BY DEF Pictured
  <2>2. ASSUME ~patched, NEW body \in Bodies, IsWhole(body), candidates = {body}
        PROVE  room.preview = room.content
    BY <2>1, <2>2 DEF Pictured
  <2>3. QED
    BY <2>1, <2>2
<1>4. QED
  BY <1>1, <1>2, <1>3, PTL DEF RoomAccessSpec

-----------------------------------------------------------------------------
(* Ducklets *)

(* Types *)

LEMMA VerdictType ==
    ASSUME NEW u, NEW r
    PROVE  Verdict(u, r) \in {"allowed", "refused", "missing"}
BY DEF Verdict

LEMMA InitType == Init => TypeOK
BY DuckletsAssumption DEF Init, TypeOK, PermittedNow, Joins, Asks

\* The types of the Room and Message tables.
TablesOK ==
    /\ life \in [Rooms -> {"unborn", "open", "deleted"}]
    /\ owner \in [Rooms -> Registered]
    /\ isPublic \in [Rooms -> BOOLEAN]
    /\ allowed \in [Rooms -> SUBSET Registered]
    /\ rows \subseteq Msgs

\* The types of what socket.io and the list of clients keep.
SocketsOK ==
    /\ uid \in [Sockets -> Users \cup {NoUser}]
    /\ link \in [Sockets -> {"idle", "connected", "gone"}]
    /\ members \subseteq Sockets \X Users \X Rooms
    /\ looking \subseteq {s \in Sockets : uid[s] # NoUser}
    /\ clients \subseteq {s \in Sockets : uid[s] # NoUser}
    /\ joins \subseteq Joins

\* The types of the requests to join.
AsksOK ==
    /\ asks \subseteq Asks
    /\ acks \subseteq Sockets \X Users \X Rooms \X {"success", "offline", "missing"}
    /\ rung \subseteq Sockets \X Users \X Rooms

\* The types of the messages.
ChatOK ==
    /\ dest \in [Msgs -> Rooms]
    /\ chat \in [Msgs -> {"unsent", "saving", "saved", "sent", "lost"}]
    /\ heard \subseteq Sockets \X Msgs

LEMMA TypeParts ==
    TypeOK <=> TablesOK /\ SocketsOK /\ AsksOK /\ ChatOK /\ permitted \subseteq Users \X Rooms
BY DEF TypeOK, TablesOK, SocketsOK, AsksOK, ChatOK

\* The tables change by the requests over HTTP and by saved messages only.
LEMMA TablesType ==
    ASSUME TypeOK, Step
    PROVE  TablesOK'
<1> USE DuckletsAssumption DEF TypeOK, TablesOK
<1>1. ASSUME NEW r \in Rooms, NEW u \in Users, NEW public \in BOOLEAN, CreateRoom(r, u, public)
      PROVE  TablesOK'
  BY <1>1 DEF CreateRoom, chatting
<1>2. ASSUME NEW r \in Rooms, NEW public \in BOOLEAN, UpdateRoom(r, public)
      PROVE  TablesOK'
  BY <1>2 DEF UpdateRoom, chatting
<1>3. ASSUME NEW r \in Rooms, NEW u \in Users, NEW op \in {"add", "remove"},
             UpdateAllowList(r, u, op)
      PROVE  TablesOK'
  BY <1>3 DEF UpdateAllowList, chatting
<1>4. ASSUME NEW r \in Rooms, DeleteRoom(r)
      PROVE  TablesOK'
  BY <1>4 DEF DeleteRoom
<1>5. ASSUME NEW m \in Msgs, SaveMessage(m)
      PROVE  TablesOK'
  BY <1>5 DEF SaveMessage, tables
<1>6. CASE UNCHANGED <<tables, rows>>
  BY <1>6 DEF tables
<1> HIDE DEF TypeOK, TablesOK
<1>7. QED
  BY <1>1, <1>2, <1>3, <1>4, <1>5, <1>6
     DEF Step, Connect, AddClient, Disconnect, JoinDucklet, AskToJoin, SendMessage,
         ReadRoom, Enter, ReadOwner, RingOwner, EmitMessage, Crash, chatting

\* Connections, the list of clients and the listeners that join a room.
LEMMA SocketsType ==
    ASSUME TypeOK, Step
    PROVE  SocketsOK'
<1> USE DEF TypeOK, SocketsOK
<1>1. ASSUME NEW s \in Sockets, Connect(s)
      PROVE  SocketsOK'
  BY <1>1 DEF Connect, joining
<1>2. ASSUME NEW s \in Sockets, AddClient(s)
      PROVE  SocketsOK'
  BY <1>2 DEF AddClient, joining
<1>3. ASSUME NEW s \in Sockets, Disconnect(s)
      PROVE  SocketsOK'
  BY <1>3 DEF Disconnect
<1>4. ASSUME NEW s \in Sockets, NEW u \in Users, NEW r \in Rooms, JoinDucklet(s, u, r)
      PROVE  SocketsOK'
  BY <1>4 DEF JoinDucklet, presence, Joins
<1>5. ASSUME NEW j \in joins, ReadRoom(j)
      PROVE  SocketsOK'
  BY <1>5, VerdictType DEF ReadRoom, presence, Joins
<1>6. ASSUME NEW j \in joins, Enter(j)
      PROVE  SocketsOK'
  BY <1>6 DEF Enter, presence, Joins
<1>7. CASE Crash
  BY <1>7 DEF Crash
<1>8. CASE UNCHANGED <<presence, joining>>
  BY <1>8 DEF presence, joining
<1>9. QED
  BY <1>1, <1>2, <1>3, <1>4, <1>5, <1>6, <1>7, <1>8
     DEF Step, CreateRoom, UpdateRoom, UpdateAllowList, DeleteRoom, AskToJoin,
         SendMessage, ReadOwner, RingOwner, SaveMessage, EmitMessage

\* Requests to join, their answers and notifications.
LEMMA AsksType ==
    ASSUME TypeOK, Step
    PROVE  AsksOK'
<1> USE DEF TypeOK, AsksOK
<1>1. ASSUME NEW s \in Sockets, NEW u \in Users, NEW r \in Rooms, AskToJoin(s, u, r)
      PROVE  AsksOK'
  <2>1. [sock |-> s, user |-> u, room |-> r, owner |-> NoUser, read |-> FALSE] \in Asks
    BY DEF Asks
  <2>2. QED
    BY <1>1, <2>1 DEF AskToJoin
<1>2. ASSUME NEW a \in asks, ReadOwner(a)
      PROVE  AsksOK'
  <2>1. a.room \in Rooms /\ OwnerOf(a.room) \in Users \cup {NoUser}
    BY DuckletsAssumption DEF OwnerOf, Asks
  <2>2. QED
    BY <1>2, <2>1 DEF ReadOwner, Asks
<1>3. ASSUME NEW a \in asks, RingOwner(a)
      PROVE  AsksOK'
  <2>1. a.sock \in Sockets /\ a.user \in Users /\ a.room \in Rooms
    BY DEF Asks
  <2>2. clients \subseteq Sockets
    OBVIOUS
  <2>3. QED
    BY <1>3, <2>1, <2>2 DEF RingOwner
<1>4. CASE Crash
  BY <1>4 DEF Crash
<1>5. CASE UNCHANGED asking
  BY <1>5 DEF asking
<1>6. QED
  BY <1>1, <1>2, <1>3, <1>4, <1>5
     DEF Step, CreateRoom, UpdateRoom, UpdateAllowList, DeleteRoom, Connect,
         AddClient, Disconnect, JoinDucklet, ReadRoom, Enter, SendMessage,
         SaveMessage, EmitMessage

\* Messages and who heard them.
LEMMA ChatType ==
    ASSUME TypeOK, Step
    PROVE  ChatOK'
<1> USE DEF TypeOK, ChatOK
<1>1. ASSUME NEW s \in Sockets, NEW m \in Msgs, SendMessage(s, m)
      PROVE  ChatOK'
  BY <1>1 DEF SendMessage
<1>2. ASSUME NEW m \in Msgs, SaveMessage(m)
      PROVE  ChatOK'
  BY <1>2 DEF SaveMessage
<1>3. ASSUME NEW m \in Msgs, EmitMessage(m)
      PROVE  ChatOK'
  BY <1>3 DEF EmitMessage
<1>4. ASSUME NEW r \in Rooms, DeleteRoom(r)
      PROVE  ChatOK'
  BY <1>4 DEF DeleteRoom
<1>5. CASE Crash
  BY <1>5 DEF Crash
<1>6. CASE UNCHANGED chatting
  BY <1>6 DEF chatting
<1>7. QED
  BY <1>1, <1>2, <1>3, <1>4, <1>5, <1>6
     DEF Step, CreateRoom, UpdateRoom, UpdateAllowList, Connect, AddClient,
         Disconnect, JoinDucklet, ReadRoom, Enter, AskToJoin, ReadOwner, RingOwner

LEMMA NextType ==
    ASSUME TypeOK, [Next]_vars
    PROVE  TypeOK'
<1>1. CASE Next
  <2>1. permitted' \subseteq Users \X Rooms
    BY <1>1 DEF Next, Remember, PermittedNow, TypeOK
  <2>2. TablesOK' /\ SocketsOK' /\ AsksOK' /\ ChatOK'
    BY <1>1, TablesType, SocketsType, AsksType, ChatType DEF Next
  <2>3. QED
    BY <2>1, <2>2 DEF TypeOK, TablesOK, SocketsOK, AsksOK, ChatOK
<1>2. CASE UNCHANGED vars
  BY <1>2 DEF vars, TypeOK
<1>3. QED
  BY <1>1, <1>2

\* Type correctness; guests are never listed.
THEOREM DuckletsTypeCorrect == Spec => []TypeOK
<1>1. TypeOK /\ [Next]_vars => TypeOK'
  BY NextType
<1>2. QED
  BY InitType, <1>1, PTL DEF Spec

-----------------------------------------------------------------------------
(* Presence *)

LEMMA NextListed ==
    ASSUME TypeOK, OnlineIsListed, [Next]_vars
    PROVE  OnlineIsListed'
<1>1. ASSUME NEW s \in Sockets, Connect(s)
      PROVE  OnlineIsListed'
  BY <1>1 DEF Connect, OnlineIsListed, Connected, TypeOK
<1>2. ASSUME NEW s \in Sockets, AddClient(s)
      PROVE  OnlineIsListed'
  BY <1>2 DEF AddClient, OnlineIsListed, Connected, TypeOK
<1>3. ASSUME NEW s \in Sockets, Disconnect(s)
      PROVE  OnlineIsListed'
  BY <1>3 DEF Disconnect, OnlineIsListed, Connected, TypeOK
<1>4. CASE Crash
  BY <1>4 DEF Crash, OnlineIsListed, Connected
<1>5. CASE UNCHANGED presence
  BY <1>5 DEF presence, OnlineIsListed, Connected
<1>6. QED
  BY <1>1, <1>2, <1>3, <1>4, <1>5
     DEF Next, Step, CreateRoom, UpdateRoom, UpdateAllowList, DeleteRoom, JoinDucklet,
         ReadRoom, Enter, AskToJoin, ReadOwner, RingOwner, SendMessage, SaveMessage,
         EmitMessage, vars, presence

\* A user who is online is listed, or will be when the database answers.
THEOREM OnlineAlwaysListed == Spec => []OnlineIsListed
<1>1. Init => OnlineIsListed
  BY DEF Init, OnlineIsListed, Connected
<1>2. TypeOK /\ OnlineIsListed /\ [Next]_vars => OnlineIsListed'
  BY NextListed
<1>3. QED
  BY <1>1, <1>2, DuckletsTypeCorrect, PTL DEF Spec

-----------------------------------------------------------------------------
(* Rooms *)

\* Whom the rooms admit at this moment could have joined, and so could those
\* a listener in flight has found to be allowed.
AllowedWasPermitted ==
    /\ PermittedNow \subseteq permitted
    /\ \A j \in joins : j.verdict = "allowed" => <<j.user, j.room>> \in permitted

\* The inductive invariant of the rooms.
RoomInv == MembersAreConnected /\ MembersWerePermitted /\ AllowedWasPermitted

LEMMA NextRoom ==
    ASSUME TypeOK, RoomInv, [Next]_vars
    PROVE  RoomInv'
<1> USE DEF RoomInv, MembersAreConnected, MembersWerePermitted, AllowedWasPermitted
<1>1. CASE Next
  <2>1. permitted \subseteq permitted' /\ PermittedNow' \subseteq permitted'
    BY <1>1 DEF Next, Remember
  <2>2. ASSUME NEW s \in Sockets, Connect(s)
        PROVE  RoomInv'
    BY <2>1, <2>2 DEF Connect, Connected, joining, TypeOK
  <2>3. ASSUME NEW s \in Sockets, Disconnect(s)
        PROVE  RoomInv'
    BY <2>1, <2>3 DEF Disconnect, Connected, TypeOK
  <2>4. ASSUME NEW s \in Sockets, NEW u \in Users, NEW r \in Rooms, JoinDucklet(s, u, r)
        PROVE  RoomInv'
    BY <2>1, <2>4 DEF JoinDucklet, Connected, presence
  <2>5. ASSUME NEW j \in joins, ReadRoom(j)
        PROVE  RoomInv'
    <3>1. j.user \in Users /\ j.room \in Rooms
      BY DEF TypeOK, Joins
    <3>2. Verdict(j.user, j.room) = "allowed" => <<j.user, j.room>> \in permitted
      BY <3>1 DEF PermittedNow
    <3>3. \A k \in joins' : k.verdict = "allowed" => <<k.user, k.room>> \in permitted'
      BY <2>1, <2>5, <3>2 DEF ReadRoom, TypeOK, Joins
    <3>4. QED
      BY <2>1, <2>5, <3>3 DEF ReadRoom, Connected, presence
  <2>6. ASSUME NEW j \in joins, Enter(j)
        PROVE  RoomInv'
    BY <2>1, <2>6 DEF Enter, Connected, presence
  <2>7. CASE Crash
    BY <2>1, <2>7 DEF Crash
  <2>8. CASE UNCHANGED <<link, joining>>
    BY <2>1, <2>8 DEF Connected, joining
  <2> HIDE DEF RoomInv, MembersAreConnected, MembersWerePermitted, AllowedWasPermitted
  <2>9. QED
    BY <1>1, <2>2, <2>3, <2>4, <2>5, <2>6, <2>7, <2>8
       DEF Next, Step, CreateRoom, UpdateRoom, UpdateAllowList, DeleteRoom, AddClient,
           AskToJoin, ReadOwner, RingOwner, SendMessage, SaveMessage, EmitMessage,
           presence
<1>2. CASE UNCHANGED vars
  BY <1>2 DEF vars, Connected, PermittedNow, Verdict
<1>3. QED
  BY <1>1, <1>2

LEMMA AlwaysRoomInv == Spec => []RoomInv
<1>1. Init => RoomInv
  BY DEF Init, RoomInv, MembersAreConnected, MembersWerePermitted, AllowedWasPermitted
<1>2. TypeOK /\ RoomInv /\ [Next]_vars => RoomInv'
  BY NextRoom
<1>3. QED
  BY <1>1, <1>2, DuckletsTypeCorrect, PTL DEF Spec

\* A listener that resumes late puts no socket into a room that is gone.
THEOREM MembersStayConnected == Spec => []MembersAreConnected
<1>1. RoomInv => MembersAreConnected
  BY DEF RoomInv
<1>2. QED
  BY <1>1, AlwaysRoomInv, PTL

\* Nobody is in a room that was closed to them all along.
THEOREM MembersPermitted == Spec => []MembersWerePermitted
<1>1. RoomInv => MembersWerePermitted
  BY DEF RoomInv
<1>2. QED
  BY <1>1, AlwaysRoomInv, PTL

-----------------------------------------------------------------------------
(* Chat *)

\* The inductive invariant: messages are heard when they are sent, and are
\* in the table of a room that still exists once they are saved.
ChatInv ==
    /\ \A p \in heard : chat[p[2]] = "sent"
    /\ \A m \in Msgs : chat[m] \in {"saved", "sent"} => m \in rows \/ life[dest[m]] = "deleted"

LEMMA NextChat ==
    ASSUME TypeOK, ChatInv, [Next]_vars
    PROVE  ChatInv'
<1>1. ASSUME NEW s \in Sockets, NEW m \in Msgs, SendMessage(s, m)
      PROVE  ChatInv'
  BY <1>1 DEF SendMessage, ChatInv, TypeOK, tables
<1>2. ASSUME NEW m \in Msgs, SaveMessage(m)
      PROVE  ChatInv'
  BY <1>2 DEF SaveMessage, ChatInv, TypeOK, tables
<1>3. ASSUME NEW m \in Msgs, EmitMessage(m)
      PROVE  ChatInv'
  BY <1>3 DEF EmitMessage, ChatInv, TypeOK, tables
<1>4. ASSUME NEW r \in Rooms, DeleteRoom(r)
      PROVE  ChatInv'
  BY <1>4 DEF DeleteRoom, ChatInv, TypeOK
<1>5. ASSUME NEW r \in Rooms, NEW u \in Users, NEW public \in BOOLEAN, CreateRoom(r, u, public)
      PROVE  ChatInv'
  BY <1>5 DEF CreateRoom, ChatInv, TypeOK, chatting
<1>6. CASE Crash
  BY <1>6 DEF Crash, ChatInv, TypeOK, tables
<1>7. CASE UNCHANGED <<life, chatting>>
  BY <1>7 DEF ChatInv, chatting
<1>8. QED
  BY <1>1, <1>2, <1>3, <1>4, <1>5, <1>6, <1>7
     DEF Next, Step, UpdateRoom, UpdateAllowList, Connect, AddClient, Disconnect,
         JoinDucklet, ReadRoom, Enter, AskToJoin, ReadOwner, RingOwner, vars, tables,
         chatting

\* What was heard has been saved.
THEOREM HeardAlwaysSaved == Spec => []HeardIsSaved
<1>1. Init => ChatInv
  BY DEF Init, ChatInv
<1>2. TypeOK /\ ChatInv /\ [Next]_vars => ChatInv'
  BY NextChat
<1>3. TypeOK /\ ChatInv => HeardIsSaved
  BY DEF ChatInv, HeardIsSaved, TypeOK
<1>4. QED
  BY <1>1, <1>2, <1>3, DuckletsTypeCorrect, PTL DEF Spec

-----------------------------------------------------------------------------
(* Projects *)

\* Nothing is stored before the answer, and a process that has ended has
\* nothing left to do.
ProjectsInv ==
    /\ ProjectsTypeOK /\ StoredFromTheRoot
    /\ project \notin {"answered", "crashed"} => stored = {} /\ todo = Nothing
    /\ project = "crashed" => todo = Nothing

LEMMA ProjectsInitInv == ProjectsInit => ProjectsInv
BY DEF ProjectsInit, ProjectsInv, ProjectsTypeOK, StoredFromTheRoot, Nothing

\* The row that is created is of an entry whose directory has a row.
LEMMA SaveEntryInv ==
    ASSUME ProjectsInv, NEW d \in Dirs \cup {Top}, NEW n \in todo[d], SaveEntry(d, n)
    PROVE  ProjectsInv'
<1> USE ProjectsAssumption
<1>1. /\ d \in DOMAIN todo /\ DOMAIN todo = Dirs \cup {Top}
      /\ todo \in [Dirs \cup {Top} -> SUBSET Entries]
      /\ n \in Entries /\ n # Top /\ stored \subseteq Entries
  BY DEF ProjectsInv, ProjectsTypeOK
<1>2. project = "answered"
  BY DEF ProjectsInv, Nothing
<1>3. /\ \A e \in Dirs \cup {Top} :
           todo[e] = IF e \in stored \cup {Top} THEN Children(e) \ stored ELSE {}
      /\ \A m \in stored : Inside[m] \in stored \cup {Top}
  BY <1>2 DEF ProjectsInv, StoredFromTheRoot
<1>4. Inside[n] = d /\ d \in stored \cup {Top} /\ n \notin stored
  <2>1. todo[d] = IF d \in stored \cup {Top} THEN Children(d) \ stored ELSE {}
    BY <1>3
  <2>2. d \in stored \cup {Top} /\ n \in Children(d) \ stored
    BY <2>1
  <2>3. QED
    BY <2>2 DEF Children
<1>5. /\ stored' = stored \cup {n}
      /\ todo' = [e \in Dirs \cup {Top} |-> IF e = n THEN Children(n) ELSE todo[e] \ {n}]
      /\ project' = project /\ child' = child /\ workDir' = workDir
  BY <1>1 DEF SaveEntry
<1>6. \A m \in stored' : Inside[m] \in stored' \cup {Top}
  BY <1>3, <1>4, <1>5
<1>7. ASSUME NEW e \in Dirs \cup {Top}
      PROVE  todo'[e] = IF e \in stored' \cup {Top} THEN Children(e) \ stored' ELSE {}
  <2>1. CASE e = n
    <3>1. todo'[e] = Children(n)
      BY <1>5, <2>1
    \* Nothing in the directory n has been stored, nor is it in itself.
    <3>2. ASSUME NEW m \in Children(n)
          PROVE  m \notin stored'
      <4>1. m \in Entries /\ Inside[m] = n
        BY DEF Children
      <4>2. m \notin stored
        BY <1>1, <1>3, <1>4, <4>1
      <4>3. m # n
        BY <1>1, <1>4, <4>1
      <4>4. QED
        BY <1>5, <4>2, <4>3
    <3>3. QED
      BY <1>5, <2>1, <3>1, <3>2
  <2>2. CASE e # n
    <3>1. todo'[e] = todo[e] \ {n}
      BY <1>5, <2>2
    <3>2. e \in stored' \cup {Top} <=> e \in stored \cup {Top}
      BY <1>5, <2>2
    <3>3. todo[e] = IF e \in stored \cup {Top} THEN Children(e) \ stored ELSE {}
      BY <1>3
    <3>4. (Children(e) \ stored) \ {n} = Children(e) \ stored'
      BY <1>5
    <3>5. CASE e \in stored \cup {Top}
      BY <3>1, <3>2, <3>3, <3>4, <3>5
    <3>6. CASE e \notin stored \cup {Top}
      BY <3>1, <3>2, <3>3, <3>6
    <3>7. QED
      BY <3>5, <3>6
  <2>3. QED
    BY <2>1, <2>2
<1>8. ProjectsTypeOK'
  <2>1. Children(n) \subseteq Entries
    BY DEF Children
  <2>2. todo' \in [Dirs \cup {Top} -> SUBSET Entries]
    BY <1>1, <1>5, <2>1
  <2>3. QED
    BY <1>1, <1>5, <2>2 DEF ProjectsInv, ProjectsTypeOK
<1>9. StoredFromTheRoot'
  BY <1>6, <1>7 DEF StoredFromTheRoot
<1>10. QED
  BY <1>2, <1>5, <1>8, <1>9 DEF ProjectsInv

LEMMA ProjectsNextInv ==
    ASSUME ProjectsInv, [ProjectsNext]_projectsVars
    PROVE  ProjectsInv'
<1> USE ProjectsAssumption
<1> USE DEF ProjectsInv, ProjectsTypeOK, StoredFromTheRoot
<1>1. ASSUME NEW known \in BOOLEAN, CreateProject(known)
      PROVE  ProjectsInv'
  BY <1>1 DEF CreateProject
<1>2. CASE ChildWarns
  BY <1>2 DEF ChildWarns, Reject
<1>3. CASE ChildSucceeds
  BY <1>3 DEF ChildSucceeds
<1>4. CASE ChildFails
  BY <1>4 DEF ChildFails, Reject
<1>5. CASE ProjectCrash
  BY <1>5 DEF ProjectCrash, Nothing
<1>6. CASE CreateProjectRoom
  <2>1. /\ stored = {} /\ stored' = {} /\ project' = "answered"
        /\ child' = child /\ workDir' = workDir
        /\ todo' = [Nothing EXCEPT ![Top] = Children(Top)]
    BY <1>6 DEF CreateProjectRoom
  <2>2. todo' = [d \in Dirs \cup {Top} |-> IF d = Top THEN Children(Top) ELSE {}]
    BY <2>1 DEF Nothing
  <2>3. Children(Top) \subseteq Entries
    BY DEF Children
  <2>4. todo' \in [Dirs \cup {Top} -> SUBSET Entries]
    BY <2>2, <2>3
  <2>5. \A d \in Dirs \cup {Top} :
          todo'[d] = IF d \in stored' \cup {Top} THEN Children(d) \ stored' ELSE {}
    <3>1. TAKE d \in Dirs \cup {Top}
    <3>2. CASE d = Top
      BY <2>1, <2>2, <3>2
    <3>3. CASE d # Top
      BY <2>1, <2>2, <3>3
    <3>4. QED
      BY <3>2, <3>3
  <2>6. QED
    BY <2>1, <2>4, <2>5
<1>7. CASE CreateRoomFails
  BY <1>7 DEF CreateRoomFails
<1>8. CASE Saving
  <2>1. PICK d \in Dirs \cup {Top} : \E n \in todo[d] : SaveEntry(d, n)
    BY <1>8 DEF Saving
  <2>2. PICK n \in todo[d] : SaveEntry(d, n)
    BY <2>1
  <2>3. QED
    BY <2>2, SaveEntryInv
<1>9. CASE UNCHANGED projectsVars
  BY <1>9 DEF projectsVars, Children
<1>10. QED
  BY <1>1, <1>2, <1>3, <1>4, <1>5, <1>6, <1>7, <1>8, <1>9 DEF ProjectsNext

\* The variables of Projects keep their types.
THEOREM ProjectsTypeCorrect == ProjectsSpec => []ProjectsTypeOK
<1>1. ProjectsInv => ProjectsTypeOK
  BY DEF ProjectsInv
<1>2. QED
  BY <1>1, ProjectsInitInv, ProjectsNextInv, PTL DEF ProjectsSpec

\* A template is stored from its root down, nothing forgotten nor twice.
THEOREM AlwaysStoredFromTheRoot == ProjectsSpec => []StoredFromTheRoot
<1>1. ProjectsInv => StoredFromTheRoot
  BY DEF ProjectsInv
<1>2. QED
  BY <1>1, ProjectsInitInv, ProjectsNextInv, PTL DEF ProjectsSpec

-----------------------------------------------------------------------------
(* The composition *)

LEMMA HandlersStep ==
    ASSUME [HandlersNext]_handlersVars
    PROVE  /\ [ProblemsNext]_problemsVars /\ [UserStatsNext]_userStatsVars
           /\ [ProjectsNext]_projectsVars /\ [RoomAccessNext]_roomAccessVars
           /\ [Next]_vars
BY DEF HandlersNext, handlersVars, ProblemsNext

\* Whatever runs, each component behaves as its own specification says, so
\* all that is proved of a component alone holds in the composition.
THEOREM HandlersImplement ==
    HandlersSpec =>
      ProblemsSpec /\ UserStatsSpec /\ ProjectsSpec /\ RoomAccessSpec /\ Spec
<1>1. HandlersInit =>
        ProblemsInit /\ UserStatsInit /\ ProjectsInit /\ RoomAccessInit /\ Init
  BY DEF HandlersInit
<1>2. QED
  BY <1>1, HandlersStep, PTL
  DEF HandlersSpec, ProblemsSpec, UserStatsSpec, ProjectsSpec, RoomAccessSpec, Spec

\* The types of all the components.
THEOREM HandlersTypeCorrect == HandlersSpec => []HandlersTypeOK
<1>1. ProblemsTypeOK /\ UserStatsTypeOK /\ ProjectsTypeOK /\ RoomAccessTypeOK /\ TypeOK
        => HandlersTypeOK
  BY DEF HandlersTypeOK
<1>2. QED
  BY <1>1, HandlersImplement, ProblemsTypeCorrect, UserStatsTypeCorrect,
     ProjectsTypeCorrect, RoomAccessTypeCorrect, DuckletsTypeCorrect, PTL
=============================================================================
