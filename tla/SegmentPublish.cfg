SPECIFICATION FairSpec
CONSTANTS
    Objects <- SomeObjects
    Payloads = {1, 2}
    MaxCalls = 3
    Zeros = Zeros
    NoPacket = NoPacket
INVARIANTS
    TypeOK
    AssembledIsPublished
    FirstVerifies
    MetaFits
PROPERTY FirstIsReceived
CHECK_DEADLOCK FALSE
