SPECIFICATION FairSpec
CONSTANTS
    BT = 2
    MaxBlocks = 3
    NGpu = 2
    Arenas <- AllTiers
    Budget = 2
    SinkBlocks = 1
    HighWater = 3
    MaxAppend = 2
    MaxVer = 2
    MaxFaults = 1
INVARIANTS SlotOwnership SlotConservation AttentionReadsCurrent RecordsAgree CopiesHoldLastSpill AdmissionFits WorkingSetSeated
PROPERTIES CallReturns
