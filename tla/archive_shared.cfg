\* Two processes, three calls, one crash: appends, loads and verifications
\* interleaved step by step, with failing system calls; a process dies, the
\* machine loses power, or a write is interrupted, at any step.
SPECIFICATION Spec
CONSTANTS
    Process = {p1, p2}
    Responsive = {}
    NoProcess = NoProcess
    NoHead = {none}
    Record <- MCRecord
    Batches <- MCBatches
    InitialHistories <- SharedHistories
    MaxRecords = 2
    PathAttempts = 2
    MaxCalls = 3
    MaxCrashes = 1
SYMMETRY Symmetric
INVARIANTS
    StagedOnVisibleHistory
    DurableFilesLoadable
    AckedSurvives
    TemporariesAccountedFor
PROPERTIES
    CommitsOnExpectedHead
    LoadsVisibleHistory
    ImplementsHistory
CHECK_DEADLOCK FALSE
