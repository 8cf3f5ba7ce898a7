SPECIFICATION FairSpec
CONSTANTS
    BT = 2
    MaxBlocks = 2
    NSlots = 3
    QueueMax = 1
    MaxWrites = 3
    MaxFaults = 1
CHECK_DEADLOCK FALSE
PROPERTY
    CallReturnsOrThrows
