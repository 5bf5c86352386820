\* One call on either platform: the worker may hang, the parent is scheduled and
\* time passes.
SPECIFICATION FairSpec
CONSTANTS
    Leader = leader
    Child = {c1}
INVARIANTS
    OnlyTimelyResults
    NeverSignalsAStranger
    CleanEndLeavesNothing
    WorkerDoesNotOutliveCall
PROPERTIES
    CallEnds
CHECK_DEADLOCK FALSE
