SPECIFICATION FairSpec
CONSTANTS
    Radix = 2
    HeaderBytes = 3
    MaxPayload = 3
    BufferSize = 4
    Scripts <- Payloads
INVARIANTS
    TypeOK
    FramesInOrder
    AgreesWithParseFrame
PROPERTIES
    WriteReturns
    ReadReturns
CHECK_DEADLOCK FALSE
