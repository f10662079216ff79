SPECIFICATION Spec
CONSTANTS
    PacketSize = 2
    RequestSize = 3
    ReplySizes <- const_ReplySizes
    MaxRequests = 2
    MaxLine = 3
INVARIANT TxInOrder
PROPERTIES RequestAnswered ResetOnFall
CHECK_DEADLOCK FALSE
