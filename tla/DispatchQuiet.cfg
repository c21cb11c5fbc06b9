SPECIFICATION QuietSpec
CONSTANTS
    a1 = a1
    a2 = a2
    d1 = d1
    NoJob = NoJob
    Pools = {"A", "D"}
    Primary = "A"
    Donate = "D"
    Jobs = {a1, a2, d1}
    PoolOf <- PoolOfJob
    Algo = "c29"
    Swap <- SwapDigits
    Cores = 2
    Batch = 1
    Range = 9
    MaxQueue = 1
SYMMETRY SameJobs
INVARIANT TypeOK
PROPERTY NoRework
CHECK_DEADLOCK FALSE
