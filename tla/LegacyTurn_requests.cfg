SPECIFICATION Spec
CONSTANTS
  sys = sys one = one two = two three = three four = four say = say tool = tool
  Hole = Hole None = None
  Words = {say}
  BlockTokens = 2 GenReserve = 1
  Prompts <- AnyOrder
  Slack = 2
  MaxRows = 8
  MaxReply = 1 MaxTurns = 4 MaxFaults = 1
INVARIANTS ReplyFromPrompt SavedStatesOfConversation
CHECK_DEADLOCK FALSE
