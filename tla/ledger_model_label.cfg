CONSTANTS
    ten = ten
    twenty = twenty
    thirty = thirty
    small = small
    large = large
    allow = allow
    forbid = forbid
    shut = shut
    drop = drop
    port = port
    port80 = port80
    port81 = port81
    maybe80 = maybe80
    bare80 = bare80
    None = None
    Text <- MCText
    Norm <- MCNorm
    Marker <- MCMarker
    Revokes <- MCRevokes
    Confirms <- MCConfirms
    Uncertain <- MCUncertain
    Score <- MCScore
    AnswerScore <- MCAnswerScore
    Supports <- MCSupports
    SupportsLabelled <- MCSupportsLabelled
    SupportsAnswer <- MCSupportsAnswer
    Opposed <- MCOpposed
    Statement <- Cache
    NumSources = 2
    MaxSays <- MCMaxSays
    MaxItems = 9
    ModelPrimary = TRUE
SPECIFICATION Spec
INVARIANTS
    CorrectionsStayCorrections
CHECK_DEADLOCK FALSE
