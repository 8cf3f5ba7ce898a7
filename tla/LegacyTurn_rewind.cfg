SPECIFICATION Spec
CONSTANTS
  sys = sys one = one two = two three = three four = four say = say tool = tool
  Hole = Hole None = None
  Words = {say}
  BlockTokens = 2 GenReserve = 1
  Prompts <- Withdrawn
  Slack = 2
  MaxRows = 8
  MaxReply = 1 MaxTurns = 3 MaxFaults = 0
INVARIANTS QueryAhead
CHECK_DEADLOCK FALSE
