SPECIFICATION Spec
CONSTANTS
    Modes = {"host"}
    NMax = 3
    Planes = {}
    NPredict = 5
    NCtx = 8
    BlockTokens = 2
    Prompts = {1, 2}
    MaxFaults = 0
PROPERTIES RestoredGenerationEnds
CHECK_DEADLOCK FALSE
