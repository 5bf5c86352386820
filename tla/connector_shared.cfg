\* Two hosts share an archive, a third has none: checkpoints go between them,
\* every step of a request interleaves with the others, calls fail and hosts die.
SPECIFICATION Spec
CONSTANTS
    Host = {h1, h2, h3}
    ArchiveHost = {h1, h2}
    Session = {A, B}
    Id = {e, f}
    Content = {x, y}
    e = e
    f = f
    x = x
    y = y
    A = A
    B = B
    MaxSequence = 3
    Batches <- SharedBatches
    Foreign <- MCForeign
    InitialArchives <- MCArchives
    MaxRecords = 3
    MaxCalls = 2
    MaxFaults = 1
    MaxCrashes = 1
    Unset = Unset
    NoHead = {none}
    NoSession = NoSession
    NoCheckpoint = NoCheckpoint
    NoEvents = NoEvents
SYMMETRY Symmetric
INVARIANTS
    VerifiedSourcesAreTheHead
    NoForkedSessions
    LiveSessionOwnsArchive
PROPERTIES
    EventsCommitOnTheirBase
    LiveSessionsGrow
    ResumedSessionKeepsCheckpoint
CHECK_DEADLOCK FALSE
