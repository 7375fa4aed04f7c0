SPECIFICATION Spec
CONSTANTS
    w1 = w1
    w2 = w2
    d1 = d1
    d2 = d2
    d3 = d3
    d4 = d4
    d5 = d5
    Manager = Manager
    NoJob = NoJob
    Worker <- TwoWorkers
    Job <- FiveJobs
    Capacity = 1
INVARIANT SomebodyCanTake
CHECK_DEADLOCK FALSE
