SPECIFICATION RetrySpec
CONSTANTS
    FinalSegment = 2
    Marked <- LastMarked
    PipelineSize = 2
    InitialCount = 2
    HasDecryptor = FALSE
    UsesManifest = TRUE
    Expiring = {}
    EndOfStream = EndOfStream
    MaxInterests = 1
    MaxLosses = 2
PROPERTY DeliversAll
CHECK_DEADLOCK FALSE
