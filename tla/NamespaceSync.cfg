SPECIFICATION FairSpec
CONSTANTS
    Name <- Branches
    Peer = {p, q}
    Depth = {1}
    Synced <- RootAndBranch
    NoNode = NoNode
INVARIANTS
    TypeOK
    KnownNamesAreLeaves
    KnownNamesExist
PROPERTY NamesSpread
CHECK_DEADLOCK FALSE
