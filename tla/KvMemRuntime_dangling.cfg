SPECIFICATION Spec
CONSTANTS
    BT = 2
    MaxBlocks = 4
    NGpu = 2
    Arenas <- CpuOverSmall
    Budget = 2
    SinkBlocks = 1
    HighWater = 3
    MaxAppend = 2
    MaxVer = 1
    MaxFaults = 0
INVARIANT
    NvmeRecordsAgree
