SPECIFICATION FairSpec
CONSTANTS
    BT = 2
    MaxBlocks = 3
    NSlots = 2
    QueueMax = 2
    MaxWrites = 3
    MaxFaults = 1
CHECK_DEADLOCK FALSE
INVARIANTS TypeOK CopyIsCurrent FlushMarkHasJob MarkedBlocksStored
PROPERTIES CallReturns
