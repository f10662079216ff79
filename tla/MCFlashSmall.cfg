SPECIFICATION Spec
CONSTANTS
    Requests <- SmallRequests
    ReadIds <- Ids4MB
    ChipSize = 16384
    FourByteSupported = FALSE
    MaxFlashSize = 65536
    ReinitAllowed = TRUE
INVARIANTS EraseFollowsCursor EraseInside EraseOkIsComplete NoCommandLost
