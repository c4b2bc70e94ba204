SPECIFICATION Spec
CONSTANTS
    Users = {u1, u2}
    Columns = {html}
    Texts = {Blank, t1}
    Blank = Blank
    Undefined = Undefined
    Submits = {s1, s2}
    Dummies = {d1}
    Edits = {e1, e2}
    Recalcs = {r1}
    Nil = Nil
    MaxAttempts = 2
CHECK_DEADLOCK FALSE
SYMMETRY Symmetry
INVARIANTS
    TypeOK
    UnscoredIsAccountedFor
    ScoresAgreeUntilEdited
    RecalculatedIsCurrent
    BoardListsBest
CONSTRAINT Few
