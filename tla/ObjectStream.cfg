SPECIFICATION Spec
CONSTANTS
    Highest = 4
    Publishable <- WithGap
    Segmented = {2}
    Malformed = {0}
    Sizes = {0, 1, 2}
    SigningFails = TRUE
    MaxVersions = 2
    MaxAsked = 2
    MaxCalls = 2
INVARIANTS
    TypeOK
    ReportedOnce
    PipelineIsHeld
    LatestIsRequested
    PollingGoesOn
CHECK_DEADLOCK FALSE
