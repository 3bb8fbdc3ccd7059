SPECIFICATION PowerSpec
CONSTANTS
  Letter <- MCLetter
  BootCmd <- MCBoot
  ResetCmd <- MCReset
  SetenvCmd <- MCSetenv
  Variable <- MCVariable
  MaxLine = 8
  MaxArgs = 3
  MaxValue = 1
  Seconds = 3
  Polls = 2
INVARIANTS JumpReachesRom
