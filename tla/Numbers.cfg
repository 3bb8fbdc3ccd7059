SPECIFICATION Spec
CONSTANTS
  Base = 2
  Width = 4
  DecBase = 3
  BufLen = 4
  MaxText = 8
INVARIANTS TypeOK ParsedIsLastDigits HexReadsBack DecimalSpells
CHECK_DEADLOCK FALSE
