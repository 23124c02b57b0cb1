SPECIFICATION Spec
CONSTANTS
    Byte <- MCByte
    Needles <- MCNeedles
    Window = 4
    StoreCap = 5
    MaxChunk = 3
    MaxStream = 7
INVARIANTS
    FoundIsThere
    SimpleIsFound
    StoreIsPrefix
CHECK_DEADLOCK FALSE
