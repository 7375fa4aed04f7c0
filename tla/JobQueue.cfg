SPECIFICATION FairSpec
CONSTANTS
    w1 = w1
    w2 = w2
    d1 = d1
    d2 = d2
    d3 = d3
    d4 = d4
    d5 = d5
    Manager = Manager
    NoJob = NoJob
    Worker <- TwoWorkers
    Job <- ThreeJobs
    Capacity = 2
INVARIANTS
    TypeOK
    SlotsConserved
    TokensConserved
    ActiveCounted
PROPERTIES
    QuietEnd
    ImplementsFifo
    WorkersStop
CHECK_DEADLOCK FALSE
