SPECIFICATION Spec
CONSTANTS
    Blocks = 2
    pages_per_block = 2
    Chunks = 2
    Bits <- const_Bits
    Data <- const_Data
    BadPages <- const_BadPages
    MaxCalls = 4
    MaxCareless = 3
INVARIANTS ReadRight OkIsDone FailureIsOwn
PROPERTY Confined
CHECK_DEADLOCK FALSE
