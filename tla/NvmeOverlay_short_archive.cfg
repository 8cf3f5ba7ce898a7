SPECIFICATION Spec
CONSTANTS
    Threads = {t1, t2}
    NSlots = 2
    NParts = 2
    ArchiveSlots = {0}
    MaxWrites = 2
    MaxFaults = 1
INVARIANTS WritesLand
