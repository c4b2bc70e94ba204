SPECIFICATION PFairSpec
CONSTANTS
    Names = {n1}
    Docs = {d1, d2}
    Conns = {c1, c2}
    Clients = {u1}
    Edits = {e1}
    MaxClock = 1
    NoDoc = NoDoc
    NoName = NoName
INVARIANTS
    PTypeOK
    Durable
PROPERTIES
    NothingAcceptedIsLost
    EditsEventuallyStored
