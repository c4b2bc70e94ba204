SPECIFICATION Spec
CONSTANTS
    Sockets = {s1, s2}
    Users = {u1, u2, u3}
    Registered = {u1, u2}
    Rooms = {r1}
    Msgs = {m1}
    MaxJoins = 1
    MaxAsks = 0
    NoUser = NoUser
SYMMETRY Symmetry
INVARIANTS
    TypeOK
    OnlineIsListed
    MembersAreConnected
    MembersWerePermitted
    HeardIsSaved
