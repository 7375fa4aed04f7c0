CONSTANTS
    Worker = {w1, w2}
    Queued = 2
    PipeSize = 6
    ReadSize = 4
    BufSize = 8
    MaxSignals = 0
    Length <- Lengths
SPECIFICATION Spec
CHECK_DEADLOCK FALSE
INVARIANT PipeEmptied
