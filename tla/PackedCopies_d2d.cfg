SPECIFICATION Spec
CONSTANTS
    MaxRows = 5
    BlockTokens = 2
    SlotCount = 2
    Budget = 2
    SinkBlocks = 0
    LayerCount = 2
    SlabJobs = 2
    Batches = {1, 2}
    UBatch = 2
    MaxVersion = 1
    Faults = {"d2d"}
INVARIANTS EveryCellCurrent
CHECK_DEADLOCK FALSE
