SPECIFICATION Spec
CONSTANTS
    Requests = {r1, r2}
    Users = {u1}
    Problems = {p1}
    Tutorial = {p1}
    Goal = 2
CHECK_DEADLOCK FALSE
INVARIANT PaidOnce
