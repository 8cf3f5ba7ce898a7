SPECIFICATION ChatSpec
CONSTANTS
    BT = 2
    MaxBlocks = 4
    NGpu = 4
    Arenas <- NoTiers
    Budget = 3
    SinkBlocks = 1
    HighWater = 6
    MaxAppend = 2
    MaxVer = 2
    MaxFaults = 0
INVARIANT
    SelectionVisible
