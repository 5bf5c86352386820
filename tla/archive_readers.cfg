\* One writer that never fails and one reader: can a reader be refused?
SPECIFICATION Spec
CONSTANTS
    Process = {p1, p2}
    Responsive = {}
    NoProcess = NoProcess
    NoHead = {none}
    Record <- MCRecord
    Batches <- SmallBatches
    InitialHistories <- MCInitialHistories
    MaxRecords = 2
    PathAttempts = 3
    MaxCalls = 2
    MaxCrashes = 0
INVARIANT ReadersObserveAHistory
CHECK_DEADLOCK FALSE
