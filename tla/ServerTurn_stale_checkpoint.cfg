SPECIFICATION Spec
CONSTANTS
  sys = sys one = one two = two three = three cat = cat dog = dog say = say
  Junk = Junk None = None
  Words = {say}
  Images = {cat, dog}
  BlockTokens = 2
  BatchTokens = 2
  MaxCheckpoints = 4 MaxMedia = 2
  Setups <- Branching
  MaxRows = 8
  MaxTurns = 4 MaxFaults = 0
INVARIANTS ReplyFromPrompt
CHECK_DEADLOCK FALSE
