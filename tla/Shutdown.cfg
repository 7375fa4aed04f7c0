SPECIFICATION FairSpec
CONSTANTS
    w1 = w1
    w2 = w2
    top = top
    sub = sub
    leaf = leaf
    side = side
    f1 = f1
    f2 = f2
    f3 = f3
    None = None
    Root = top
    Worker <- TwoWorkers
    Dir <- Dirs
    File <- Files
    Contents <- Chain
    MaxDepth = 2
    Capacity = 1
    GracefulTimeout = 1
    MayFail = FALSE
    MaxSignals = 1
CHECK_DEADLOCK FALSE
INVARIANTS
    CompleteNotInterrupted
    StatsOfAll
PROPERTIES
    ShutdownEndsWorkers
