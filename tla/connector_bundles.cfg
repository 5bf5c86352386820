\* A host with the archive and one without; two compilations, one verification.
SPECIFICATION Spec
CONSTANTS
    Host = {h1, h2}
    ArchiveHost = {h1}
    Session = {A, B}
    Record = {r1, r2}
    Outcomes = {"whole"}
    NoHead = {none}
    NoSession = NoSession
    NoBundle = NoBundle
    MaxCompiles = 2
    MaxReplays = 1
    MaxChanges = 1
    MaxRestarts = 1
SYMMETRY Symmetry
INVARIANTS
    PassedClaimIsHistory
    UntouchedBundlesPass
CHECK_DEADLOCK FALSE
