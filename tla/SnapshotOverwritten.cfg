SPECIFICATION Spec
CONSTANTS
    p1 = p1
    p2 = p2
    k1 = k1
    k2 = k2
    None = None
    Writer <- TwoWriters
    Inode = {i1, i2}
    Key <- Keys
    BucketOf <- SameBucket
    WriterModulus = 8
    MaxClock = 1
    MaxCrashes = 0
    MaxFaults = 0
CHECK_DEADLOCK FALSE
PROPERTIES
    SnapshotKept
