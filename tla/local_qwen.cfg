\* One completion on any platform: the CLI and a process it may start.
SPECIFICATION FairSpec
CONSTANTS
    Leader = leader
    Child = {c1}
    Platform = {"linux", "darwin", "windows"}
    MaxOutput = 1
    MaxWritten = 2
INVARIANTS
    AnswersAreComplete
    CleanEndLeavesNothing
    OneCompletionAtATime
PROPERTIES
    CallEnds
CHECK_DEADLOCK FALSE
