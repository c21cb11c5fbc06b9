CONSTANTS
    j1 = j1
    j2 = j2
    NoJob = NoJob
    Jobs <- OneJob
    NPools = 3
    Primary = 1
    Donate = 0
    CloseWait = 1
    FirstJobWait = 1
    ConnectThrottle = 2
    DonateLength = 2
    PrimaryReconnect = 3
    DonateInterval = 4
SPECIFICATION FairSpec
CHECK_DEADLOCK TRUE
INVARIANTS
    TypeOK
    PrimaryPreferred
    DonateOnlyWhileActive
    SilentPoolIsWatched
    NumericActiveJobIsMined
    DonationEndPending
PROPERTIES
    WatchdogSparesNewConnection
    DonationEnds
    PrimaryComesBack
