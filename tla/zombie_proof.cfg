\* The leader and two more numbers, each of which is used again once.
SPECIFICATION FairProofSpec
CONSTANTS
    GroupLeader = leader
    Others = {a, b}
    MaxStarts = 1
    LiveAttempts = 2
    StabilityAttempts = 6
INVARIANTS
    ProvedGroupsAreDead
    ZombiesAreNotRejected
PROPERTIES
    EveryProofEnds
CHECK_DEADLOCK FALSE
