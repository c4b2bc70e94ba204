SPECIFICATION Spec
CONSTANTS
    Requests = {r1, r2, r3, r4}
    Users = {u1}
    Problems = {p1, p2, p3}
    Tutorial = {p1, p2}
    Goal = 2
CHECK_DEADLOCK FALSE
SYMMETRY Symmetry
INVARIANTS
    TypeOK
    SolverIsPaid
    NoEarlyGraduation
    GraduatesOnCompletion
