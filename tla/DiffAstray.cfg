SPECIFICATION FairSpec
CONSTANTS
    k1 = k1
    k2 = k2
    Key <- TwoKeys
    BucketOf <- OneBucket
    FileFields <- Files
    ProcFields <- Processes
    THRESHOLD = 1024
    PageSize = 4096
    Version = {100}
    SnapshotId = {1}
    MaxInitial = 1
    MaxAppends = 2
CHECK_DEADLOCK FALSE
INVARIANT
    ReadsEntries
