CONSTANTS
    j1 = j1
    j2 = j2
    NoJob = NoJob
    Jobs <- TwoJobs
    NPools = 3
    Primary = 1
    Donate = 0
    CloseWait = 1
    FirstJobWait = 1
    ConnectThrottle = 2
    DonateLength = 2
    PrimaryReconnect = 3
    DonateInterval = 4
SPECIFICATION Spec
CHECK_DEADLOCK TRUE
INVARIANT ActiveJobIsMined
