SPECIFICATION Spec
CONSTANTS
    Name <- Names
    Content = {c1, c2}
    NoContent = NoContent
    Remote <- Leaves
    Needed <- Parent
    Producible <- NoNames
    Immediate <- NoNames
    Handled <- NoNames
    HasDecryptor = TRUE
    Expires = FALSE
    SigningFails = FALSE
    SendFails = FALSE
    FaceNodes <- RootOnly
    Incoming <- NoInterests
    MaxInterests = 1
INVARIANTS
    ObjectHasItsData
CHECK_DEADLOCK FALSE
