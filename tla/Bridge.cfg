CONSTANTS
    core = core
    t1 = t1
    none = none
    Main <- core
    NoThread <- none
    Threads <- OneThread
    MaxDown = 2
    MaxUp = 3
SPECIFICATION FairSpec
CHECK_DEADLOCK FALSE
INVARIANTS
    NoLostWakeup
    ClosedIsQuiet
PROPERTIES
    UpIsFifo
    DownIsFifo
    StoredIsDelivered
    CloseEnds
    DestructorReturns
