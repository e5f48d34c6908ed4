SPECIFICATION Spec
CONSTANTS
    FinalSegment = 2
    Marked <- LastMarked
    PipelineSize = 2
    InitialCount = 1
    HasDecryptor = TRUE
    UsesManifest = FALSE
    Expiring = {0}
    EndOfStream = EndOfStream
    MaxInterests = 1
    MaxLosses = 1
INVARIANTS
    TypeOK
    NothingHeldBack
    PipelineBound
    NoFreeSlot
PROPERTIES
    DeliversInOrder
    NoRequestPastFinal
CHECK_DEADLOCK FALSE
