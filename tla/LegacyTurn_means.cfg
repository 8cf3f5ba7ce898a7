SPECIFICATION Spec
CONSTANTS
  sys = sys one = one two = two three = three four = four say = say tool = tool
  Hole = Hole None = None
  Words = {say}
  BlockTokens = 2 GenReserve = 1
  Prompts <- AnyOrder
  Slack = 1
  MaxRows = 8
  MaxReply = 1 MaxTurns = 3 MaxFaults = 0
INVARIANTS MeansAreWhole
CHECK_DEADLOCK FALSE
