SPECIFICATION Spec
CONSTANTS
    Sockets = {s1}
    Users = {u1}
    Registered = {u1}
    Rooms = {r1}
    Msgs = {}
    MaxJoins = 0
    MaxAsks = 0
    NoUser = NoUser
INVARIANT NoGhosts
