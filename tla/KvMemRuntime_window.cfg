SPECIFICATION Spec
CONSTANTS
    BT = 2
    MaxBlocks = 5
    NGpu = 4
    Arenas <- NoTiers
    Budget = 3
    SinkBlocks = 1
    HighWater = 6
    MaxAppend = 2
    MaxVer = 1
    MaxFaults = 0
INVARIANTS
    SlotConservation AdmissionFits
