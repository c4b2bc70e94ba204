SPECIFICATION FairSpec
CONSTANTS
    Names = {n1}
    Docs = {d1, d2}
    Conns = {c1, c2}
    Clients = {u1}
    MaxClock = 1
    NoDoc = NoDoc
    NoName = NoName
PROPERTIES
    DeadPeerDetached
    TimersReleased
