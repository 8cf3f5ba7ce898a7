SPECIFICATION Spec
CONSTANTS
  sys = sys one = one two = two three = three cat = cat dog = dog say = say
  Junk = Junk None = None
  Words = {say}
  Images = {cat, dog}
  BlockTokens = 2
  BatchTokens = 2
  MaxCheckpoints = 4 MaxMedia = 2
  Setups <- Served
  MaxRows = 8
  MaxTurns = 3 MaxFaults = 2
INVARIANTS ReplyFromPrompt CheckpointsOfConversation LastTurnResumable CachedQueryCurrent
PROPERTIES FailureKeepsPrefix
CHECK_DEADLOCK FALSE
