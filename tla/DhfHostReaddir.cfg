SPECIFICATION Spec
CONSTANTS
  Name <- MCName
  Node <- MCNode
  BaseOf <- MCBaseOf
  RawOf <- MCRawOf
  InitialFs <- MCInitialFs
  DirLen = 2
  HostFd = {1, 2, 3, 4}
  Inherited = {1}
  MaxDir = 2
  DirCloses = TRUE
PROPERTIES HandlesAreRead
VIEW MCView
