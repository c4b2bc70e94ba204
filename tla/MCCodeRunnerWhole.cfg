SPECIFICATION Spec
CONSTANTS
    Inputs = {i1}
    MaxChunks = 1
CHECK_DEADLOCK FALSE
INVARIANT VerdictSeesWholeOutput
