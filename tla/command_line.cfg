\* Two commands at a time, three in all, and one edit of the files.
SPECIFICATION Spec
CONSTANTS
    r1 = r1
    r2 = r2
    Process = {p1, p2}
    Record = {r1, r2}
    Inputs <- MCInputs
    Unverifiable <- MCUnverifiable
    Policy = {tight, loose, brief}
    Slack = {tight}
    ActiveOnly = {brief}
    None = None
    MaxCommands = 3
    MaxEdits = 1
INVARIANTS
    ManifestBindsOneState
    AcceptedWasBound
    UntouchedIsAccepted
    ReportsCoverTheInput
SYMMETRY Symmetry
CHECK_DEADLOCK FALSE
