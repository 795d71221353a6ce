CONSTANTS
    Ptrs <- MCPtrs
    Type = "SmallHeap"
    MaxSize = 6
SPECIFICATION Spec
INVARIANTS HeapInv TopIsFirst WithinCapacity
PROPERTY QueueSpec
