SPECIFICATION FairSpec
CONSTANTS
  MaxRequests = 3
  SeqMod = 2
  WaitLimit = 2
  Commands = {2}
  Disciplines = {"command", "seq"}
  InOrder = TRUE
  SameOrder = TRUE
  MaxStops = 2
INVARIANTS AnswersMatch ExactlyOnceButForKills MailboxInv
PROPERTIES WaitingIsAnswered ImplementsRpc
