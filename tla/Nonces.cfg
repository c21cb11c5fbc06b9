CONSTANTS
    Base = 16
    Workers = 2
    Batch = 2
    Kinds <- AllKinds
    DigitOr <- OrOfBits
    Jobs <- AllJobs
SPECIFICATION Spec
CHECK_DEADLOCK FALSE
INVARIANTS
    LanesKeepApart
    NamedOnce
