SPECIFICATION Spec
CONSTANTS
    Modes = {"replay", "planes", "host", "dense"}
    NMax = 3
    Planes = {1, 3}
    NPredict = 6
    NCtx = 7
    BlockTokens = 2
    Prompts = {1, 2, 3}
    MaxFaults = 1
INVARIANTS StateIsHistory SamplerFollowsText MeansAreAccepted
PROPERTIES IsGreedyDecoding GenerationEnds
CHECK_DEADLOCK FALSE
