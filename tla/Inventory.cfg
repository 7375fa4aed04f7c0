SPECIFICATION FairSpec
CONSTANTS
    w1 = w1
    w2 = w2
    top = top
    sub = sub
    leaf = leaf
    side = side
    f1 = f1
    f2 = f2
    f3 = f3
    None = None
    Root = top
    Worker <- TwoWorkers
    Dir <- WideDirs
    File <- Files
    Contents <- Wide
    MaxDepth = 3
    Capacity = 2
    GracefulTimeout = 1
    MayFail = TRUE
    MaxSignals = 0
CHECK_DEADLOCK FALSE
INVARIANTS
    TypeOK
    NoDirectoryLost
    ResultsInOrder
    CompleteUnlessUnseen
    ResultsPublished
PROPERTIES
    EndMissesOnlyUncounted
    Terminates
