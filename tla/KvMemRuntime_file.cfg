SPECIFICATION FairSpec
CONSTANTS
    BT = 2
    MaxBlocks = 3
    NGpu = 2
    Arenas <- SmallFile
    Budget = 2
    SinkBlocks = 1
    HighWater = 3
    MaxAppend = 2
    MaxVer = 2
    MaxFaults = 1
INVARIANTS
    StageInRestores WorkingSetSeated
PROPERTY
    CallReturns
