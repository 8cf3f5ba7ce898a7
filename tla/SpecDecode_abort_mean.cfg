SPECIFICATION Spec
CONSTANTS
    Modes = {"replay"}
    NMax = 3
    Planes = {}
    NPredict = 5
    NCtx = 8
    BlockTokens = 2
    Prompts = {1, 2}
    MaxFaults = 0
INVARIANTS AbandonedMeansAreAccepted
CHECK_DEADLOCK FALSE
