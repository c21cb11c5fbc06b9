SPECIFICATION Spec
CONSTANTS
    a1 = a1
    a2 = a2
    d1 = d1
    NoJob = NoJob
    Pools = {"A", "D"}
    Primary = "A"
    Donate = "D"
    Jobs = {a1, a2, d1}
    PoolOf <- PoolOfJob
    Algo = "cn"
    Swap <- SwapDigits
    Cores = 2
    Batch = 1
    Range = 9
    MaxQueue = 2
PROPERTY AcceptedJobIsHashed
CHECK_DEADLOCK FALSE
