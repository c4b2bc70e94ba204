SPECIFICATION PSpec
CONSTANTS
    Names = {n1}
    Docs = {d1, d2}
    Conns = {c1, c2}
    Clients = {}
    Edits = {e1}
    MaxClock = 0
    NoDoc = NoDoc
    NoName = NoName
INVARIANT OnDiskIsInMemory
