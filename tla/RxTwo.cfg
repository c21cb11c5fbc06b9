SPECIFICATION FairSpec
CONSTANTS
    j1 = j1
    j2 = j2
    opt = opt
    NoJob = NoJob
    OptJob = opt
    Jobs <- TwoJobs
    PoolOf <- TwoPools
    SeedOf <- TwoSeeds
    MaxMsgs = 3
    Batch = 2
INVARIANTS OwnInput VmsOutliveThreads TestAnsweredOnce
PROPERTIES CurrentAttribution TasksAreTaken CloseEnds
CHECK_DEADLOCK FALSE
