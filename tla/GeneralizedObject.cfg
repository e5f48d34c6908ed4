SPECIFICATION FairSpecGeneralized
CONSTANTS
    FinalSegment = 1
    Marked <- AllMarked
    PipelineSize = 2
    InitialCount = 1
    HasDecryptor = FALSE
    UsesManifest = TRUE
    Expiring = {0, 1}
    EndOfStream = EndOfStream
    NoContent = NoContent
    MaxInterests = 1
    MaxLosses = 1
    NComponents = {0, 1}
    Seconds = {"none", "whole", "malformed"}
    MaxAsked = 2
INVARIANTS
    TypeOKGeneralized
    ObjectIsWhole
    ReadyMeansAnnounced
    ReportsFit
PROPERTY ObjectIsReported
CHECK_DEADLOCK FALSE
