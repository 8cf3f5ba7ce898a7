SPECIFICATION Spec
CONSTANTS
    MaxRows = 4
    BlockTokens = 2
    SlotCount = 2
    Budget = 2
    SinkBlocks = 0
    LayerCount = 1
    SlabJobs = 2
    Batches = {1, 2}
    UBatch = 1
    MaxVersion = 1
    Faults = {}
INVARIANTS EveryCopyCurrent
CHECK_DEADLOCK FALSE
