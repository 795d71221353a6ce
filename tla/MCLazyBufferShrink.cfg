CONSTANTS
    Bytes <- MCBytes
    kCheapPrepend = 1
    kInitialSize = 2
    ShrinkAnywhere = TRUE
    MaxLen = 2
    MaxContent = 3
SPECIFICATION Spec
INVARIANT IndexesOrdered
