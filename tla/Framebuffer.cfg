SPECIFICATION Spec
CONSTANTS
  Widths = {1, 3, 4}
  Heights = {2, 4, 5}
  Box = 2
  Char = {a, b}
  Blank = blank
INVARIANTS CursorOnScreen TextStands
