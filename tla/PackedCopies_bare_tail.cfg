SPECIFICATION Spec
CONSTANTS
    MaxRows = 5
    BlockTokens = 2
    SlotCount = 2
    Budget = 2
    SinkBlocks = 1
    LayerCount = 1
    SlabJobs = 2
    Batches = {1}
    UBatch = 1
    MaxVersion = 2
    Faults = {}
INVARIANTS StagedOutIsPacked
CHECK_DEADLOCK FALSE
