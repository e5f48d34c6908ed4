SPECIFICATION Spec
CONSTANTS
    Name <- Names
    Content = {c1, c2}
    NoContent = NoContent
    Remote <- Leaves
    Needed <- Leaves
    Producible <- Parent
    Immediate <- NoNames
    Handled <- First
    HasDecryptor = TRUE
    Expires = TRUE
    SigningFails = FALSE
    SendFails = FALSE
    FaceNodes <- RootAndSecond
    Incoming <- NoInterests
    MaxInterests = 1
INVARIANTS
    FindsBestMatch
    ObjectHasItsData
PROPERTY AfterShutdownSilent
CHECK_DEADLOCK FALSE
