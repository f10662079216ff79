SPECIFICATION Spec
CONSTANTS
    Blocks = 2
    pages_per_block = 2
    Chunks = 2
    Bits <- const_Bits
    Data <- const_Data
    BadPages <- const_BadPages
    MaxCalls = 4
    MaxCareless = 3
INVARIANT BbmReadRight
CHECK_DEADLOCK FALSE
