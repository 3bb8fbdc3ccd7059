SPECIFICATION Spec
CONSTANTS
  Node <- MCNode
  Dir <- MCDir
  Root = "Root"
  Component <- MCComponent
  Longer <- MCLonger
  Path <- MCPath
  Base <- MCBase
  InitParent <- MCParent
  InitName <- MCName
  InitCwd = "T"
  InitBase <- MCAbsolute
  MaxStreams = 1
INVARIANTS TypeOK
PROPERTIES OutsideUntouched BaseStays
VIEW MCView
