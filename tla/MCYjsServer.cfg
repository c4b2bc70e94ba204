SPECIFICATION Spec
CONSTANTS
    Names = {n1, n2}
    Docs = {d1, d2, d3}
    Conns = {c1, c2, c3}
    Clients = {u1}
    MaxClock = 2
    NoDoc = NoDoc
    NoName = NoName
SYMMETRY Symmetry
INVARIANTS
    TypeOK
    HeartbeatWhileAttached
    UniqueController
PROPERTY OneSessionPerName
