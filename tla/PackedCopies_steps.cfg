SPECIFICATION Spec
CONSTANTS
    MaxRows = 5
    BlockTokens = 2
    SlotCount = 2
    Budget = 2
    SinkBlocks = 0
    LayerCount = 1
    SlabJobs = 1
    Batches = {1, 2}
    UBatch = 1
    MaxVersion = 2
    Faults = {"malloc", "d2d", "submit", "wait"}
INVARIANTS CellsHoldTheirRows PackedIsCurrent NoRowLost
PROPERTIES PoolInOrder EpochNamesAttention
VIEW ViewWithoutEpoch
CHECK_DEADLOCK FALSE
