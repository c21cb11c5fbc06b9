CONSTANTS
    cn = cn
    ghost = ghost
    argon = argon
    NoAlgo = NoAlgo
    Algos <- ThreeAlgos
    Threads <- TwoForArgon
    Order <- CnThenGhost
    JobAlgo = argon
    Directives <- AllWays
    Tunings <- Writable
    MaxThreads = 2
    MaxGen = 2
    MaxJobs = 1
    MaxFaults = 1
SPECIFICATION FairSpec
CHECK_DEADLOCK FALSE
INVARIANTS
    TypeOK
    OneAlgoPerWorker
    NewestAreListed
    MsrRestored
    MiningAfterBenchmarks
PROPERTIES
    OldWorkersEnd
    MiningStarts
    TestEnds
