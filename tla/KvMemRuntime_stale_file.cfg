SPECIFICATION Spec
CONSTANTS
    BT = 2
    MaxBlocks = 3
    NGpu = 2
    Arenas <- CpuOverFile
    Budget = 2
    SinkBlocks = 1
    HighWater = 3
    MaxAppend = 2
    MaxVer = 2
    MaxFaults = 0
INVARIANT
    StageInRestores
