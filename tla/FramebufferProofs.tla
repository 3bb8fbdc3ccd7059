------------------------- MODULE FramebufferProofs -------------------------
(***************************************************************************)
(* The cursor of the framebuffer console stays on a screen of any size,    *)
(* and a screenful of text stands there as it was printed.                 *)
(***************************************************************************)
EXTENDS Framebuffer, TLAPS

ScreenInv == TypeOK /\ CursorOnScreen

\* The row a line break leads to begins on the screen.
LEMMA ScrolledFits ==
  ASSUME TypeOK, NEW y \in Nat
  PROVE  Scrolled(y) \in Nat /\ Scrolled(y) * Box < height
<1>1. height \in Nat /\ height > 0 /\ Box \in Nat /\ 0 * Box = 0
  BY ScreenAssumption DEF TypeOK
<1>2. y * Box \in Nat
  BY <1>1
<1> QED
  BY <1>1, <1>2 DEF Scrolled, PageFull

\* A box of the screen drawn on is a screen again.
LEMMA DrawnTyped ==
  ASSUME TypeOK, NEW c \in Char, NEW cx, NEW cy
  PROVE  Drawn(c, cx, cy) \in [Cell -> Char \cup {Blank}]
  BY DEF TypeOK, Drawn

LEMMA LineTyped ==
  ASSUME TypeOK, NEW c \in Char, Remember(c)
  PROVE  line' \in Seq(Char)
<1>1. line \in Seq(Char) /\ SubSeq(line, 2, Len(line)) \in Seq(Char)
  BY DEF TypeOK
<1>2. Append(line, c) \in Seq(Char) /\ Append(SubSeq(line, 2, Len(line)), c) \in Seq(Char)
  BY <1>1
<1> QED
  BY <1>2 DEF Remember

LEMMA ScreenStart == Init => ScreenInv
<1> SUFFICES ASSUME Init
             PROVE  ScreenInv
  OBVIOUS
<1>1. width \in Nat /\ width > 0 /\ height \in Nat /\ height > 0
  BY ScreenAssumption DEF Init
<1>2. Box \in Nat /\ 0 * Box = 0
  BY ScreenAssumption
<1>3. CursorOnScreen
  BY <1>1, <1>2 DEF Init, CursorOnScreen
<1>4. TypeOK
  BY DEF Init, TypeOK
<1> QED
  BY <1>3, <1>4 DEF ScreenInv

LEMMA ScreenKept == ScreenInv /\ [Next]_vars => ScreenInv'
<1> SUFFICES ASSUME ScreenInv, [Next]_vars
             PROVE  ScreenInv'
  OBVIOUS
<1>1. /\ width \in Nat /\ width > 0 /\ height \in Nat /\ height > 0
      /\ Box \in Nat /\ 0 * Box = 0
      /\ cursor_x \in Nat /\ cursor_y \in Nat /\ cursor_y + 1 \in Nat
      /\ TypeOK /\ CursorOnScreen
  BY ScreenAssumption DEF ScreenInv, TypeOK
<1>2. CASE Reinit
  <2>1. vram' \in [Cell' -> Char \cup {Blank}]
    <3>1. UNCHANGED <<width, height>> /\ vram' = [p \in Cell |-> Blank]
      BY <1>2 DEF Reinit
    <3>2. Cell' = Cell
      BY <3>1 DEF Cell
    <3>3. vram' \in [Cell -> Char \cup {Blank}]
      BY <3>1
    <3> QED
      BY <3>2, <3>3
  <2>2. line' \in Seq(Char)
    BY <1>2 DEF Reinit
  <2>3. /\ UNCHANGED <<width, height>>
        /\ cursor_x' = 0 /\ cursor_y' = 0
    BY <1>2 DEF Reinit
  <2> QED
    BY <1>1, <2>3, <2>1, <2>2 DEF ScreenInv, TypeOK, CursorOnScreen
<1>3. CASE Newline
  <2>1. cursor_x' = 0 /\ cursor_y' = Scrolled(cursor_y + 1) /\ UNCHANGED <<width, height, vram>>
    BY <1>3 DEF Newline
  <2>2. cursor_y' \in Nat /\ cursor_y' * Box < height
    BY <1>1, <2>1, ScrolledFits
  <2>3. vram' \in [Cell' -> Char \cup {Blank}]
    BY <1>1, <2>1 DEF TypeOK, Cell
  <2>4. line' \in Seq(Char)
    BY <1>3 DEF Newline
  <2> QED
    BY <1>1, <2>1, <2>2, <2>3, <2>4 DEF ScreenInv, TypeOK, CursorOnScreen
<1>4. CASE Return
  <2>1. cursor_x' = 0 /\ cursor_y' = Scrolled(cursor_y) /\ UNCHANGED <<width, height, vram>>
    BY <1>4 DEF Return
  <2>2. cursor_y' \in Nat /\ cursor_y' * Box < height
    BY <1>1, <2>1, ScrolledFits
  <2>3. vram' \in [Cell' -> Char \cup {Blank}]
    BY <1>1, <2>1 DEF TypeOK, Cell
  <2>4. line' \in Seq(Char)
    BY <1>4 DEF Return
  <2> QED
    BY <1>1, <2>1, <2>2, <2>3, <2>4 DEF ScreenInv, TypeOK, CursorOnScreen
<1>5. ASSUME NEW c \in Char, Put(c)
      PROVE  ScreenInv'
  <2>1. /\ cursor_x' \in Nat /\ cursor_x' * Box < width
        /\ cursor_y' \in Nat /\ cursor_y' * Box < height
    <3>1. Scrolled(cursor_y) \in Nat /\ Scrolled(cursor_y) * Box < height
      BY <1>1, ScrolledFits
    <3>2. Scrolled(cursor_y + 1) \in Nat /\ Scrolled(cursor_y + 1) * Box < height
      BY <1>1, ScrolledFits
    <3>3. (cursor_x + 1) * Box \in Nat
      BY <1>1
    <3> QED
      BY <1>1, <1>5, <3>1, <3>2, <3>3 DEF Put, LineFull
  <2>2. vram' \in [Cell -> Char \cup {Blank}]
    BY <1>1, <1>5, DrawnTyped DEF Put
  <2>3. line' \in Seq(Char)
    BY <1>1, <1>5, LineTyped DEF Put
  <2>4. UNCHANGED <<width, height>> /\ Cell' = Cell
    BY <1>5 DEF Put, Cell
  <2> QED
    BY <1>1, <2>1, <2>2, <2>3, <2>4 DEF ScreenInv, TypeOK, CursorOnScreen
<1>6. CASE UNCHANGED vars
  BY <1>1, <1>6 DEF vars, ScreenInv, TypeOK, CursorOnScreen, Cell
<1> QED
  BY <1>2, <1>3, <1>4, <1>5, <1>6 DEF Next

\* The cursor, the screen and the history keep their types.
THEOREM ScreenTypes == Spec => []TypeOK
<1>1. ScreenInv => TypeOK
  BY DEF ScreenInv
<1> QED
  BY <1>1, ScreenStart, ScreenKept, PTL DEF Spec

\* fb_putc always finds its cursor on the screen, however small the screen is:
\* the line break and the jump to the first row come in time.
THEOREM CursorStaysOnScreen == Spec => []CursorOnScreen
<1>1. ScreenInv => CursorOnScreen
  BY DEF ScreenInv
<1> QED
  BY <1>1, ScreenStart, ScreenKept, PTL DEF Spec
(***************************************************************************)
(* The text on the screen.  Boxes are counted along the rows: the cursor   *)
(* is at box Place, and box a is the cell Spot(a).  A step of fb_putc      *)
(* moves Place by one, round the screen, and so every box behind the       *)
(* cursor is one further behind.                                           *)
(***************************************************************************)
Place   == cursor_y * Boxes(width) + cursor_x
Spot(a) == <<a % Boxes(width), a \div Boxes(width)>>

TextInv == ScreenInv /\ TextStands /\ Len(line) <= Capacity

LEMMA Larger ==
  ASSUME NEW m \in Nat, NEW n \in Nat, m <= n, NEW k \in Nat
  PROVE  m * k <= n * k /\ m * k \in Nat /\ n * k \in Nat
<1>1. n * k = m * k + (n - m) * k
  OBVIOUS
<1>2. n - m \in Nat /\ (n - m) * k \in Nat /\ m * k \in Nat
  OBVIOUS
<1> QED
  BY <1>1, <1>2

\* A box begins on the screen if and only if it is one of Boxes(size).
LEMMA BoxesLaw ==
  ASSUME NEW size \in Nat \ {0}, NEW n \in Nat
  PROVE  Boxes(size) \in Nat \ {0} /\ (n * Box < size <=> n < Boxes(size))
<1> DEFINE q == Boxes(size)
<1>1. Box \in Nat \ {0}
  BY ScreenAssumption
<1>2. q \in Nat /\ q * Box <= size + Box - 1 /\ size + Box - 1 < (q + 1) * Box
  BY <1>1 DEF Boxes
<1>3. q # 0
  BY <1>1, <1>2
<1>4. CASE n < q
  <2>1. (n + 1) * Box <= q * Box
    BY <1>1, <1>2, <1>4, Larger
  <2>2. (n + 1) * Box = n * Box + Box
    BY <1>1
  <2>3. n * Box \in Nat /\ q * Box \in Nat
    BY <1>1, <1>2
  <2> QED
    BY <1>1, <1>2, <1>3, <1>4, <2>1, <2>2, <2>3
<1>5. CASE n >= q
  <2>1. q * Box <= n * Box
    BY <1>1, <1>2, <1>5, Larger
  <2>2. (q + 1) * Box = q * Box + Box
    BY <1>1, <1>2
  <2>3. n * Box \in Nat /\ q * Box \in Nat
    BY <1>1, <1>2
  <2> QED
    BY <1>1, <1>2, <1>3, <1>5, <2>1, <2>2, <2>3
<1> QED
  BY <1>2, <1>3, <1>4, <1>5

\* The quotient and the remainder of a row of cells are its row and its column.
LEMMA DivisionLaw ==
  ASSUME NEW k \in Nat \ {0}, NEW a \in Nat
  PROVE  /\ a \div k \in Nat /\ a % k \in 0..k-1
         /\ a = (a \div k) * k + (a % k)
<1>1. a \div k \in Nat
  OBVIOUS
<1>2. a % k \in Nat /\ a % k < k
  OBVIOUS
<1>3. a = k * (a \div k) + (a % k)
  OBVIOUS
<1>4. k * (a \div k) = (a \div k) * k
  BY <1>1
<1> QED
  BY <1>1, <1>2, <1>3, <1>4

LEMMA RowAndColumn ==
  ASSUME NEW k \in Nat \ {0}, NEW y \in Nat, NEW x \in 0..k-1
  PROVE  (y * k + x) % k = x /\ (y * k + x) \div k = y
<1> DEFINE a == y * k + x
           q == a \div k
<1>1. a \in Nat
  OBVIOUS
<1>2. q \in Nat /\ a % k \in 0..k-1 /\ a = q * k + (a % k)
  BY <1>1, DivisionLaw
<1>3. y * k \in Nat /\ q * k \in Nat
  BY <1>2
<1> HIDE DEF q
<1>4. ~(q < y)
  <2> SUFFICES ASSUME q < y
               PROVE  FALSE
    OBVIOUS
  <2>1. (q + 1) * k <= y * k /\ (q + 1) * k = q * k + k
    BY <1>2, Larger
  <2> QED
    BY <1>2, <1>3, <2>1
<1>5. ~(y < q)
  <2> SUFFICES ASSUME y < q
               PROVE  FALSE
    OBVIOUS
  <2>1. (y + 1) * k <= q * k /\ (y + 1) * k = y * k + k
    BY <1>2, Larger
  <2> QED
    BY <1>2, <1>3, <2>1
<1>6. q = y
  BY <1>2, <1>4, <1>5
<1>7. a % k = x
  <2>1. a = y * k + (a % k)
    BY <1>2, <1>6
  <2> QED
    BY <1>2, <1>3, <2>1
<1> QED
  BY <1>6, <1>7 DEF q

\* A remainder without a division.
LEMMA Wrapped ==
  ASSUME NEW k \in Nat \ {0}, NEW a \in 0..2*k-1
  PROVE  a % k = IF a < k THEN a ELSE a - k
<1>1. CASE a < k
  <2>1. a % k = a
    BY <1>1
  <2> QED
    BY <1>1, <2>1
<1>2. CASE a >= k
  <2>1. a - k \in 0..k-1 /\ 1 * k + (a - k) = a
    BY <1>2
  <2>2. (1 * k + (a - k)) % k = a - k
    BY <2>1, RowAndColumn
  <2> QED
    BY <1>2, <2>1, <2>2
<1> QED
  BY <1>1, <1>2

\* Where the cursor is on the screen, it is at the cell Place counts to, and
\* the box i boxes behind it is another one, unless i is a whole screen.
LEMMA Places ==
  ASSUME ScreenInv
  PROVE  /\ Boxes(width) \in Nat \ {0} /\ Boxes(height) \in Nat \ {0}
         /\ cursor_x \in 0..Boxes(width)-1 /\ cursor_y \in 0..Boxes(height)-1
         /\ Capacity \in Nat \ {0} /\ Place \in 0..Capacity-1
         /\ Spot(Place) = <<cursor_x, cursor_y>>
<1>1. /\ width \in Nat \ {0} /\ height \in Nat \ {0}
      /\ cursor_x \in Nat /\ cursor_y \in Nat
  BY ScreenAssumption DEF ScreenInv, TypeOK
<1>2. /\ Boxes(width) \in Nat \ {0} /\ Boxes(height) \in Nat \ {0}
      /\ cursor_x < Boxes(width) /\ cursor_y < Boxes(height)
  BY <1>1, BoxesLaw DEF ScreenInv, CursorOnScreen
<1>3. Capacity \in Nat \ {0} /\ Place \in 0..Capacity-1
  <2> DEFINE cols == Boxes(width)
             rows == Boxes(height)
  <2>1. cols \in Nat \ {0} /\ rows \in Nat \ {0}
    BY <1>2
  <2> HIDE DEF cols, rows
  <2>2. cursor_y + 1 \in Nat /\ cursor_y + 1 <= rows /\ cursor_x < cols
    BY <1>1, <1>2 DEF cols, rows
  <2>3. (cursor_y + 1) * cols <= rows * cols
    BY <2>1, <2>2, Larger
  <2>4. (cursor_y + 1) * cols = cursor_y * cols + cols /\ cursor_y * cols \in Nat
    BY <1>1, <2>1
  <2>5. Capacity = rows * cols /\ Capacity \in Nat
    BY <2>1 DEF Capacity, cols, rows
  <2>6. Place = cursor_y * cols + cursor_x
    BY DEF Place, cols
  <2> QED
    BY <1>1, <2>1, <2>2, <2>3, <2>4, <2>5, <2>6
<1>4. Spot(Place) = <<cursor_x, cursor_y>>
  <2>1. cursor_x \in 0..Boxes(width)-1
    BY <1>1, <1>2
  <2>2. (cursor_y * Boxes(width) + cursor_x) % Boxes(width) = cursor_x
    BY <1>1, <1>2, <2>1, RowAndColumn
  <2>3. (cursor_y * Boxes(width) + cursor_x) \div Boxes(width) = cursor_y
    BY <1>1, <1>2, <2>1, RowAndColumn
  <2> QED
    BY <2>2, <2>3 DEF Spot, Place
<1> QED
  BY <1>1, <1>2, <1>3, <1>4

\* Two boxes are two cells.
LEMMA SpotsDiffer ==
  ASSUME Boxes(width) \in Nat \ {0}, NEW a \in Nat, NEW b \in Nat, Spot(a) = Spot(b)
  PROVE  a = b
<1>1. /\ a = (a \div Boxes(width)) * Boxes(width) + (a % Boxes(width))
      /\ b = (b \div Boxes(width)) * Boxes(width) + (b % Boxes(width))
  BY DivisionLaw
<1>2. a % Boxes(width) = b % Boxes(width) /\ a \div Boxes(width) = b \div Boxes(width)
  BY DEF Spot
<1> QED
  BY <1>1, <1>2

LEMMA BackFrom ==
  ASSUME NEW k \in Nat \ {0}, NEW p \in 0..k-1, NEW i \in 1..k
  PROVE  (p + k - i) % k = IF i <= p THEN p - i ELSE p + k - i
<1>1. p + k - i \in 0..2*k-1 /\ (i <= p <=> p + k - i >= k) /\ p + k - i - k = p - i
  OBVIOUS
<1>2. (p + k - i) % k = IF p + k - i < k THEN p + k - i ELSE p + k - i - k
  BY <1>1, Wrapped
<1> QED
  BY <1>1, <1>2

\* The box behind the cursor that Behind names, without its division.
LEMMA BehindLaw ==
  ASSUME ScreenInv, NEW i \in 1..Capacity
  PROVE  Behind(i) = Spot(IF i <= Place THEN Place - i ELSE Place + Capacity - i)
<1>1. Capacity \in Nat \ {0} /\ Place \in 0..Capacity-1
  BY Places
<1>2. (Place + Capacity - i) % Capacity
        = IF i <= Place THEN Place - i ELSE Place + Capacity - i
  BY <1>1, BackFrom
<1>3. Behind(i) = Spot((Place + Capacity - i) % Capacity)
  BY DEF Behind, Spot, Place
<1> QED
  BY <1>2, <1>3

LEMMA BehindOnScreen ==
  ASSUME ScreenInv, NEW i \in 1..Capacity
  PROVE  Behind(i) \in Cell
<1> DEFINE cols == Boxes(width)
           rows == Boxes(height)
           a    == IF i <= Place THEN Place - i ELSE Place + Capacity - i
<1>1. cols \in Nat \ {0} /\ rows \in Nat \ {0} /\ Capacity \in Nat /\ Place \in 0..Capacity-1
  BY Places
<1>2. a \in 0..Capacity-1 /\ a \in Nat
  BY <1>1
<1>3. Capacity = cols * rows
  BY DEF Capacity
<1>4. Behind(i) = <<a % cols, a \div cols>>
  BY BehindLaw DEF Spot
<1>5. Cell = (0..cols-1) \X (0..rows-1)
  BY DEF Cell
<1> HIDE DEF cols, rows, a
<1>6. a \div cols \in Nat /\ a % cols \in 0..cols-1 /\ a = (a \div cols) * cols + (a % cols)
  BY <1>1, <1>2, DivisionLaw
<1>7. a \div cols < rows
  <2> SUFFICES ASSUME rows <= a \div cols
               PROVE  FALSE
    BY <1>1, <1>6
  <2>1. rows * cols <= (a \div cols) * cols /\ rows * cols = cols * rows
    BY <1>1, <1>6, Larger
  <2> QED
    BY <1>1, <1>2, <1>3, <1>6, <2>1
<1> QED
  BY <1>1, <1>4, <1>5, <1>6, <1>7

\* fb_putc moves the cursor to the next box, from the last one to the first.
LEMMA PutMoves ==
  ASSUME ScreenInv, NEW c \in Char, Put(c)
  PROVE  Place' = IF Place = Capacity - 1 THEN 0 ELSE Place + 1
<1> DEFINE cols == Boxes(width)
           rows == Boxes(height)
<1>1. /\ cols \in Nat \ {0} /\ rows \in Nat \ {0}
      /\ cursor_x \in 0..cols-1 /\ cursor_y \in 0..rows-1
      /\ Capacity \in Nat \ {0} /\ Place \in 0..Capacity-1
  BY Places
<1>2. width \in Nat \ {0} /\ height \in Nat \ {0}
  BY ScreenAssumption DEF ScreenInv, TypeOK
<1>3. Place' = cursor_y' * cols + cursor_x'
  BY DEF Put, Place
<1>4. LineFull(cursor_x + 1) <=> cursor_x = cols - 1
  <2>1. cursor_x + 1 \in Nat /\ ((cursor_x + 1) * Box < width <=> cursor_x + 1 < cols)
    BY <1>1, <1>2, BoxesLaw
  <2>2. (cursor_x + 1) * Box \in Nat
    BY <2>1, ScreenAssumption
  <2> HIDE DEF cols, rows
  <2> QED
    BY <1>1, <1>2, <2>1, <2>2 DEF LineFull
<1>5. ASSUME NEW y \in Nat
      PROVE  Scrolled(y) = IF y < rows THEN y ELSE 0
  <2>1. y * Box < height <=> y < rows
    BY <1>2, BoxesLaw
  <2>2. y * Box \in Nat
    BY ScreenAssumption
  <2> HIDE DEF cols, rows
  <2> QED
    BY <1>1, <1>2, <2>1, <2>2 DEF Scrolled, PageFull
<1>6. Place = cursor_y * cols + cursor_x /\ Capacity = cols * rows
  BY DEF Place, Capacity
<1> HIDE DEF cols, rows
<1>7. (cursor_y + 1) * cols = cursor_y * cols + cols /\ cursor_y * cols \in Nat
  BY <1>1
<1>8. CASE cursor_x = cols - 1
  <2>1. cursor_x' = 0 /\ cursor_y' = IF cursor_y + 1 < rows THEN cursor_y + 1 ELSE 0
    BY <1>1, <1>4, <1>5, <1>8 DEF Put
  <2>2. CASE cursor_y + 1 < rows
    <3>1. Place' = Place + 1
      BY <1>1, <1>3, <1>6, <1>7, <1>8, <2>1, <2>2
    <3>2. (cursor_y + 2) * cols <= rows * cols /\ (cursor_y + 2) * cols = cursor_y * cols + 2 * cols
      BY <1>1, <2>2, Larger
    <3>3. Place # Capacity - 1
      BY <1>1, <1>6, <1>7, <1>8, <3>2
    <3> QED
      BY <3>1, <3>3
  <2>3. CASE cursor_y + 1 = rows
    <3>1. Place' = 0
      BY <1>1, <1>3, <2>1, <2>3
    <3>2. Place = Capacity - 1
      BY <1>1, <1>6, <1>7, <1>8, <2>3
    <3> QED
      BY <3>1, <3>2
  <2> QED
    BY <1>1, <2>2, <2>3
<1>9. CASE cursor_x # cols - 1
  <2>1. cursor_x' = cursor_x + 1 /\ cursor_y' = cursor_y
    BY <1>1, <1>4, <1>5, <1>9 DEF Put
  <2>2. Place' = Place + 1
    BY <1>1, <1>3, <1>6, <1>7, <2>1
  <2>3. (cursor_y + 1) * cols <= rows * cols
    BY <1>1, Larger
  <2>4. Place # Capacity - 1
    BY <1>1, <1>6, <1>7, <1>9, <2>3
  <2> QED
    BY <2>2, <2>4
<1> QED
  BY <1>8, <1>9

\* What was behind the cursor is one box further behind it, and before it is the
\* box just drawn.
LEMMA BehindMoves ==
  ASSUME ScreenInv, ScreenInv', NEW c \in Char, Put(c)
  PROVE  /\ Capacity' = Capacity /\ Capacity \in Nat \ {0}
         /\ Behind(1)' = <<cursor_x, cursor_y>>
         /\ \A i \in 1..Capacity-1 : /\ Behind(i + 1)' = Behind(i)
                                     /\ Behind(i) # <<cursor_x, cursor_y>>
<1>1. UNCHANGED width /\ Capacity' = Capacity
  BY DEF Put, Capacity
<1>2. Capacity \in Nat \ {0} /\ Place \in 0..Capacity-1 /\ Boxes(width) \in Nat \ {0}
      /\ Spot(Place) = <<cursor_x, cursor_y>>
  BY Places
<1>3. /\ Place' = IF Place = Capacity - 1 THEN 0 ELSE Place + 1
      /\ Place' \in 0..Capacity-1
  BY <1>2, PutMoves
<1>4. ASSUME NEW i \in 1..Capacity
      PROVE  Behind(i)' = Spot(IF i <= Place' THEN Place' - i ELSE Place' + Capacity - i)
  <2>1. (Place' + Capacity - i) % Capacity
          = IF i <= Place' THEN Place' - i ELSE Place' + Capacity - i
    BY <1>2, <1>3, BackFrom
  <2>2. Behind(i)' = Spot((Place' + Capacity - i) % Capacity)
    BY <1>1 DEF Behind, Spot, Place
  <2> QED
    BY <2>1, <2>2
<1>5. Behind(1)' = Spot(Place)
  BY <1>2, <1>3, <1>4
<1>6. ASSUME NEW i \in 1..Capacity-1
      PROVE  Behind(i + 1)' = Behind(i) /\ Behind(i) # Spot(Place)
  <2> DEFINE a == IF i <= Place THEN Place - i ELSE Place + Capacity - i
  <2>1. a \in 0..Capacity-1 /\ a # Place
    BY <1>2
  <2>2. Behind(i) = Spot(a)
    BY <1>2, BehindLaw
  <2>3. Behind(i + 1)' = Spot(a)
    <3>1. Behind(i + 1)'
            = Spot(IF i + 1 <= Place' THEN Place' - (i + 1) ELSE Place' + Capacity - (i + 1))
      BY <1>2, <1>4
    <3>2. (IF i + 1 <= Place' THEN Place' - (i + 1) ELSE Place' + Capacity - (i + 1)) = a
      BY <1>2, <1>3
    <3> QED
      BY <3>1, <3>2
  <2> HIDE DEF a
  <2> QED
    BY <1>2, <2>1, <2>2, <2>3, SpotsDiffer
<1> QED
  BY <1>1, <1>2, <1>5, <1>6

\* What the history holds after a character: the character last, and before it
\* as much of what it held as the screen has room for.
LEMMA Remembered ==
  ASSUME TypeOK, Capacity \in Nat \ {0}, Len(line) <= Capacity, NEW c \in Char, Remember(c)
  PROVE  /\ Len(line') \in 1..Capacity /\ Len(line') <= Len(line) + 1
         /\ line'[Len(line')] = c
         /\ \A i \in 1..Len(line')-1 : line'[Len(line') - i] = line[Len(line) + 1 - i]
<1>1. line \in Seq(Char) /\ Len(line) \in Nat
  BY DEF TypeOK
<1>2. CASE Len(line) < Capacity /\ line' = Append(line, c)
  <2>1. Len(line') = Len(line) + 1 /\ line'[Len(line) + 1] = c
        /\ \A j \in 1..Len(line) : line'[j] = line[j]
    BY <1>1, <1>2
  <2> QED
    BY <1>1, <1>2, <2>1
<1>3. CASE Len(line) = Capacity /\ line' = Append(SubSeq(line, 2, Len(line)), c)
  <2> DEFINE rest == SubSeq(line, 2, Len(line))
  <2>1. /\ rest \in Seq(Char) /\ Len(rest) = Len(line) - 1
        /\ \A j \in 1..Len(line)-1 : rest[j] = line[j + 1]
    BY <1>1, <1>3
  <2>2. Len(line') = Len(line) /\ line'[Len(line)] = c
        /\ \A j \in 1..Len(line)-1 : line'[j] = rest[j]
    <3> HIDE DEF rest
    <3>1. line' = Append(rest, c)
      BY <1>3 DEF rest
    <3> QED
      BY <1>1, <1>3, <2>1, <3>1
  <2> HIDE DEF rest
  <2>3. ASSUME NEW i \in 1..Len(line)-1
        PROVE  line'[Len(line) - i] = line[Len(line) + 1 - i]
    <3>1. Len(line) - i \in 1..Len(line)-1 /\ Len(line) - i + 1 = Len(line) + 1 - i
      BY <1>1
    <3> QED
      BY <2>1, <2>2, <3>1
  <2> QED
    BY <1>1, <1>3, <2>2, <2>3
<1> QED
  BY <1>1, <1>2, <1>3 DEF Remember

LEMMA TextStart == Init => TextInv
<1> SUFFICES ASSUME Init
             PROVE  TextInv
  OBVIOUS
<1>1. ScreenInv
  BY ScreenStart
<1>2. line = <<>> /\ Len(line) = 0
  BY DEF Init
<1>3. Capacity \in Nat
  BY <1>1, Places
<1> QED
  BY <1>1, <1>2, <1>3 DEF TextInv, TextStands

LEMMA TextKept == TextInv /\ [Next]_vars => TextInv'
<1> SUFFICES ASSUME TextInv, [Next]_vars
             PROVE  TextInv'
  OBVIOUS
<1>1. ScreenInv /\ ScreenInv'
  BY ScreenKept DEF TextInv
<1>2. Capacity' \in Nat
  <2>1. Boxes(width)' \in Nat /\ Boxes(height)' \in Nat
    BY <1>1, ScreenAssumption, BoxesLaw DEF ScreenInv, TypeOK
  <2> QED
    BY <2>1 DEF Capacity
<1>3. CASE line' = <<>>
  <2>1. Len(line') = 0
    BY <1>3
  <2> QED
    BY <1>1, <1>2, <2>1 DEF TextInv, TextStands
<1>4. ASSUME NEW c \in Char, Put(c)
      PROVE  TextInv'
  <2>1. /\ Capacity' = Capacity /\ Capacity \in Nat \ {0}
        /\ Behind(1)' = <<cursor_x, cursor_y>>
        /\ \A i \in 1..Capacity-1 : /\ Behind(i + 1)' = Behind(i)
                                    /\ Behind(i) # <<cursor_x, cursor_y>>
    BY <1>1, <1>4, BehindMoves
  <2>2. line \in Seq(Char) /\ Len(line) \in Nat /\ Len(line) <= Capacity /\ TypeOK /\ Remember(c)
    BY <1>4 DEF TextInv, ScreenInv, TypeOK, Put
  <2>3. /\ Len(line') \in 1..Capacity /\ Len(line') <= Len(line) + 1
        /\ line'[Len(line')] = c
        /\ \A i \in 1..Len(line')-1 : line'[Len(line') - i] = line[Len(line) + 1 - i]
    BY <2>1, <2>2, Remembered
  <2>4. /\ vram'[<<cursor_x, cursor_y>>] = c
        /\ \A p \in Cell : p # <<cursor_x, cursor_y>> => vram'[p] = vram[p]
    <3>1. <<cursor_x, cursor_y>> \in Cell
      BY <1>1, Places DEF Cell
    <3> QED
      BY <1>4, <3>1 DEF Put, Drawn
  <2>5. ASSUME NEW i \in 1..Len(line')
        PROVE  vram'[Behind(i)'] = line'[Len(line') + 1 - i]
    <3>0. Len(line') \in Nat /\ i \in Nat
      BY <2>1, <2>3
    <3>1. CASE i = 1
      <4>1. Len(line') + 1 - i = Len(line')
        BY <3>0, <3>1
      <4>2. Behind(i)' = <<cursor_x, cursor_y>>
        BY <2>1, <3>1
      <4> QED
        BY <2>3, <2>4, <4>1, <4>2
    <3>2. CASE i # 1
      <4> DEFINE j == i - 1
      <4>1. /\ j \in 1..Capacity-1 /\ j \in 1..Len(line) /\ j \in 1..Len(line')-1
            /\ j + 1 = i /\ Len(line') + 1 - i = Len(line') - j
        <5>1. Len(line') <= Capacity /\ Len(line') <= Len(line) + 1
          BY <2>1, <2>3
        <5> QED
          BY <2>1, <2>2, <3>0, <3>2, <5>1
      <4> HIDE DEF j
      <4>2. Behind(i)' = Behind(j) /\ Behind(j) # <<cursor_x, cursor_y>>
        BY <2>1, <4>1
      <4>3. vram[Behind(j)] = line[Len(line) + 1 - j]
        BY <4>1 DEF TextInv, TextStands
      <4>4. line'[Len(line') - j] = line[Len(line) + 1 - j]
        BY <2>3, <4>1
      <4>5. Behind(j) \in Cell
        BY <1>1, <2>1, <4>1, BehindOnScreen
      <4> QED
        BY <2>4, <4>1, <4>2, <4>3, <4>4, <4>5
    <3> QED
      BY <3>1, <3>2
  <2>6. TextStands'
    BY <2>5 DEF TextStands
  <2> QED
    BY <1>1, <2>1, <2>3, <2>6 DEF TextInv
<1>5. CASE UNCHANGED vars
  BY <1>1, <1>5 DEF TextInv, vars, TextStands, Behind, Capacity
<1> QED
  BY <1>3, <1>4, <1>5 DEF Next, Reinit, Newline, Return

\* What fb_putc has printed since the last control character can be read on the
\* screen, back from the cursor and round its edges, a screenful of it: no
\* character is drawn over one that is less than a screen old.
THEOREM TextIsReadable == Spec => []TextStands
<1>1. TextInv => TextStands
  BY DEF TextInv
<1> QED
  BY <1>1, TextStart, TextKept, PTL DEF Spec

============================================================================
