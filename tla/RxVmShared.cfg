SPECIFICATION Spec
CONSTANTS
    j1 = j1
    j2 = j2
    opt = opt
    NoJob = NoJob
    OptJob = opt
    Jobs <- TwoJobs
    PoolOf <- TwoPools
    SeedOf <- OneSeed
    MaxMsgs = 3
    Batch = 2
INVARIANT VmExclusive
CHECK_DEADLOCK FALSE
