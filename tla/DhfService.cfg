SPECIFICATION ServiceSpec
CONSTANTS
  Name <- MCName
  Node <- MCNode
  BaseOf <- MCBaseOf
  RawOf <- MCBaseOf
  InitialFs <- MCInitialFs
  DirLen = 1
  HostFd = {1, 2, 3}
  Inherited = {1}
  MaxDir = 1
  DirCloses = TRUE
  MaxRequests = 4
  MaxLives = 3
INVARIANTS ServiceTypeOK EffectAtMostOnce OpenFilesAgree
PROPERTIES AnswerIsHonest
VIEW MCServiceView
CHECK_DEADLOCK FALSE
