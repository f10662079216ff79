SPECIFICATION FairSpec
CONSTANTS
    Requests <- LargeRequests
    ReadIds <- Ids32MB
    ChipSize = 131072
    FourByteSupported = TRUE
    MaxFlashSize = 4194304
    ReinitAllowed = TRUE
INVARIANTS EraseInv DeinitUndoesLargeMode
PROPERTIES AsyncEraseCompletes EraseAreaReturns
