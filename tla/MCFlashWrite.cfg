SPECIFICATION FairSpec
CONSTANTS
    Requests <- AllRequests
    Reads <- ReadRequests
    MayFail = TRUE
INVARIANTS TypeOK WrittenIsPrefix OkIsComplete NoCommandIgnored
PROPERTY CallReturns
