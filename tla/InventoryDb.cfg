\* The manager may die, and its end is the end of the run.
CONSTANTS
    r1 = r1
    r2 = r2
    r3 = r3
    Past = past
    Result <- Results
    Size <- Sizes
    Capacity = 2
    NumWorkers = 2
    StatSize = 2
    HeaderSize = 1
    Overrun = 1
    MaxShort = 3
    MaxRecords = 5
SPECIFICATION Spec
CHECK_DEADLOCK FALSE
INVARIANTS
    TypeOK
    VerifyExact
    AcceptedIsWhole
    FileIsWhole
PROPERTIES
    ImplementsLog
