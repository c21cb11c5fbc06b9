SPECIFICATION FairSpec
CONSTANTS
    j1 = j1
    j2 = j2
    NoJob = NoJob
    Jobs <- TwoJobs
    MaxCycles = 2
    MaxNonce = 2
    MaxRef = 2
INVARIANTS TypeOK ResultIsOwn
PROPERTIES FoundIsSent TestEnds
CHECK_DEADLOCK FALSE
