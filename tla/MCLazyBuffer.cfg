CONSTANTS
    Bytes <- MCBytes
    kCheapPrepend = 1
    kInitialSize = 2
    ShrinkAnywhere = FALSE
    MaxLen = 2
    MaxContent = 3
SPECIFICATION Spec
INVARIANTS BufferInv MovesToFront
PROPERTY QueueSpec
