SPECIFICATION Spec
CONSTANTS
    Name <- Path
    Content = {c1, c2}
    NoContent = NoContent
    Remote <- First
    Needed <- AllButSecond
    Producible <- Parent
    Immediate <- Parent
    Handled <- First
    HasDecryptor = FALSE
    Expires = TRUE
    SigningFails = TRUE
    SendFails = TRUE
    FaceNodes <- RootOnly
    Incoming <- PrefixAndLeaf
    MaxInterests = 1
INVARIANTS
    TypeOK
    AnswersFit
    PendingUnmatched
PROPERTIES
    ObjectIsPermanent
CHECK_DEADLOCK FALSE
