CONSTANTS
    Base = 16
    Workers = 2
    Batch = 2
    Kinds <- OnlyCn
    DigitOr <- OrOfBits
    Jobs <- PoolJobs
SPECIFICATION Spec
CHECK_DEADLOCK FALSE
INVARIANT
    PoolPartKept
