\* p1 is scheduled, p2 may hang anywhere: p1's calls end and its lock is released.
SPECIFICATION FairSpec
CONSTANTS
    Process = {p1, p2}
    Responsive = {p1}
    NoProcess = NoProcess
    NoHead = {none}
    Record <- MCRecord
    Batches <- SmallBatches
    InitialHistories <- MCInitialHistories
    MaxRecords = 2
    PathAttempts = 3
    MaxCalls = 2
    MaxCrashes = 1
PROPERTIES
    EveryCallEnds
    EveryLockIsReleased
CHECK_DEADLOCK FALSE
