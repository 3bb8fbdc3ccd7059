---------------------------- MODULE Framebuffer ----------------------------
(***************************************************************************)
(* The framebuffer console console_fb.c: a text cursor over a screen       *)
(* measured in pixels, drawn on in character boxes.  The screen does not   *)
(* scroll: past its last row the cursor goes on at the top, over the text  *)
(* that is there.  The pixels of a box are one cell of the model: a        *)
(* character or Blank.                                                     *)
(*                                                                         *)
(* DrawnLate and TopLate are slips the code avoids; no action uses them.   *)
(***************************************************************************)
EXTENDS Integers, Sequences

CONSTANTS
  Widths,   \* screen widths in pixels
  Heights,  \* screen heights in pixels
  Box,      \* side of a character box in pixels (8 in the code)
  Char,     \* the characters but newline and carriage return
  Blank     \* what fb_init leaves in a box

ASSUME ScreenAssumption ==
  /\ Box \in Nat \ {0}
  /\ Widths \subseteq Nat \ {0}
  /\ Heights \subseteq Nat \ {0}
  /\ Blank \notin Char

VARIABLES
  width, height,       \* fb->width, fb->height
  cursor_x, cursor_y,  \* fb->cursor_x, fb->cursor_y, in boxes
  vram,                \* the screen, box by box
  line                 \* history: printed since the last control character

vars == <<width, height, cursor_x, cursor_y, vram, line>>

\* The boxes that begin on the screen; the edge cuts the last one of a row or
\* a column off where the size is no multiple of Box.
Boxes(size) == (size + Box - 1) \div Box
Cell        == (0..Boxes(width)-1) \X (0..Boxes(height)-1)
Capacity    == Boxes(width) * Boxes(height)

TypeOK ==
  /\ width \in Widths /\ height \in Heights
  /\ cursor_x \in Nat /\ cursor_y \in Nat
  /\ vram \in [Cell -> Char \cup {Blank}]
  /\ line \in Seq(Char)

Init ==
  /\ width \in Widths /\ height \in Heights
  /\ cursor_x = 0 /\ cursor_y = 0
  /\ vram = [p \in Cell |-> Blank]
  /\ line = <<>>
----------------------------------------------------------------------------
DrawnLate(c, cx, cy) == [p \in Cell |-> IF p = <<cx + 1, cy>> THEN c ELSE vram[p]]

\* fb_draw_char tests every pixel against both edges: a box that is not on the
\* screen is not drawn.
Drawn(c, cx, cy) == [p \in Cell |-> IF p = <<cx, cy>> THEN c ELSE vram[p]]

LineFull(x)  == x * Box >= width

TopLate(y)  == y * Box > height
PageFull(y) == y * Box >= height

\* The cursor's row after a line break.
Scrolled(y) == IF PageFull(y) THEN 0 ELSE y

\* fb_init, by a second console_init
Reinit ==
  /\ cursor_x' = 0 /\ cursor_y' = 0
  /\ vram' = [p \in Cell |-> Blank]
  /\ line' = <<>>
  /\ UNCHANGED <<width, height>>

Newline ==
  /\ cursor_x' = 0
  /\ cursor_y' = Scrolled(cursor_y + 1)
  /\ line' = <<>>
  /\ UNCHANGED <<width, height, vram>>

Return ==
  /\ cursor_x' = 0
  /\ cursor_y' = Scrolled(cursor_y)
  /\ line' = <<>>
  /\ UNCHANGED <<width, height, vram>>

\* The history forgets what the screen has no room for.
Remember(c) ==
  line' = IF Len(line) < Capacity THEN Append(line, c)
          ELSE Append(SubSeq(line, 2, Len(line)), c)

Put(c) ==
  /\ vram' = Drawn(c, cursor_x, cursor_y)
  /\ Remember(c)
  /\ \/ /\ LineFull(cursor_x + 1)
        /\ cursor_x' = 0
        /\ cursor_y' = Scrolled(cursor_y + 1)
     \/ /\ ~LineFull(cursor_x + 1)
        /\ cursor_x' = cursor_x + 1
        /\ cursor_y' = Scrolled(cursor_y)
  /\ UNCHANGED <<width, height>>

Next == Reinit \/ Newline \/ Return \/ \E c \in Char : Put(c)

Spec == Init /\ [][Next]_vars
----------------------------------------------------------------------------
(***************************************************************************)
(* Properties                                                              *)
(***************************************************************************)

\* Between two characters the cursor is on the screen, whatever the size of the
\* screen: no character is drawn off it and lost.
CursorOnScreen ==
  /\ cursor_x * Box < width
  /\ cursor_y * Box < height

\* The box i boxes before the cursor in the order of printing.
Behind(i) ==
  LET cols == Boxes(width)
      at   == (cursor_y * cols + cursor_x + Capacity - i) % Capacity
  IN  <<at % cols, at \div cols>>

\* A text without control characters stands on the screen as it was printed, a
\* screenful of it, across the line breaks and the jump from the last row to the
\* first.
TextStands ==
  \A i \in 1..Len(line) : vram[Behind(i)] = line[Len(line) + 1 - i]
============================================================================
