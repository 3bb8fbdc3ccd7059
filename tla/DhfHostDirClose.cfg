SPECIFICATION Spec
CONSTANTS
  Name <- MCName
  Node <- MCNode
  BaseOf <- MCBaseOf
  RawOf <- MCRawOf
  InitialFs <- MCInitialFs
  DirLen = 1
  HostFd = {0, 1, 2, 3, 4}
  Inherited = {0, 1}
  MaxDir = 2
  DirCloses = TRUE
PROPERTIES DirCloseSparesFiles
VIEW MCView
