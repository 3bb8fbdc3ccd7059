SPECIFICATION FairSpec
CONSTANTS
  MaxRequests = 1
  SeqMod = 2
  WaitLimit = 2
  Commands = {2}
  Disciplines = {"command", "seq"}
  InOrder = TRUE
  SameOrder = FALSE
  MaxStops = 0
PROPERTIES WaitingIsAnswered
