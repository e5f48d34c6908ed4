SPECIFICATION Spec
CONSTANTS
    FinalSegment = 2
    OnNode = {1}
    OnRoot = {2, 6}
    OnStream = {4, 5}
    LastKey = 6
    DigestSigned = {1, 2}
    Handler = 3
    EndOfStream = EndOfStream
    MaxActs = 3
INVARIANTS
    TypeOK
    EachOnce
    InOrder
    ChangesReachRoot
PROPERTY RemovedIsSilent
CHECK_DEADLOCK FALSE
