\* The control pipe.  The system stops when the manager has ended, and when it
\* waits for a worker that the full pipe holds.
CONSTANTS
    Worker = {w1, w2}
    Queued = 2
    PipeSize = 6
    ReadSize = 4
    BufSize = 8
    MaxSignals = 1
    Length <- Lengths
SPECIFICATION FairSpec
CHECK_DEADLOCK FALSE
INVARIANTS
    TypeOK
    StreamIntact
    ExitAnnounced
    OnlyFullReadLeaves
PROPERTIES
    EndsOrPipeFull
