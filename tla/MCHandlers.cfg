SPECIFICATION HandlersSpec
CONSTANTS
    Tags = {t1, t2}
    Langs = {l1}
    Editors = {e1, e2}
    Raters = {u1}
    Ratings = {q1, q2}
    NoEditor = NoEditor
    Verdicts <- SomeVerdicts
    Days = 5
    MaxSubs = 4
    Dirs <- TemplateDirs
    Files <- TemplateFiles
    Root = "root"
    Top = "top"
    Inside <- TemplateInside
    IncludeDepth = 6
    Accounts = {u1, u2}
    Strangers = {v1}
    Columns = {html}
    Texts = {Blank, t1}
    Blank = Blank
    Undefined = Undefined
    Requests = {r1, r2}
    Patches <- SomePatches
    Nobody = Nobody
    Expired = Expired
    NoContent = NoContent
    Sockets = {s1, s2}
    Users = {u1}
    Registered = {u1}
    Rooms = {k1}
    Msgs = {}
    MaxJoins = 0
    MaxAsks = 1
    NoUser = NoUser
CHECK_DEADLOCK FALSE
INVARIANTS
    HandlersTypeOK
    TagsSettle
    DuplicatesMet
    RatingsAgree
    StreakReport
    SolvedUnlessRetried
    StoredFromTheRoot
    ContentsWerePermitted
    PreviewOfLatestSaves
PROPERTIES
    TemplateIsStored
    RequestIsAnswered
    AskIsAnswered
