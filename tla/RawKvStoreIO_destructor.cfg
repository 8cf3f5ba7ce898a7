SPECIFICATION FairSpec
CONSTANTS
    BT = 2
    MaxBlocks = 3
    NSlots = 3
    QueueMax = 1
    MaxWrites = 1
    MaxFaults = 0
CHECK_DEADLOCK FALSE
PROPERTY
    DestructorReturns
