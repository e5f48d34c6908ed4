SPECIFICATION FairSpec
CONSTANTS
    Name <- Names
    Content = {c1}
    NoContent = NoContent
    Remote <- First
    Needed <- RootAndLeaves
    Producible <- ParentAndSecond
    Immediate <- Second
    Handled <- First
    HasDecryptor = TRUE
    Expires = FALSE
    SigningFails = FALSE
    SendFails = FALSE
    FaceNodes <- RootOnly
    Incoming <- ProducedNames
    MaxInterests = 1
PROPERTIES
    InterestIsAnswered
    NoEndlessWait
CHECK_DEADLOCK FALSE
