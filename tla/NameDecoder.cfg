SPECIFICATION Spec
CONSTANTS
    Quarter = 16
    U16 = 1
    U32 = 2
    NameLimit = 9
    Buffers <- MCBuffers
PROPERTY
    DecodeEnds
CHECK_DEADLOCK FALSE
