SPECIFICATION FairSpec
CONSTANTS
    Inputs = {i1, i2}
    MaxChunks = 2
CHECK_DEADLOCK FALSE
INVARIANTS
    TypeOK
    NoOrphans
    TimeoutIsReported
PROPERTY RunIsAnswered
