------------------------------ MODULE Numbers ------------------------------
(***************************************************************************)
(* Words on the console of Q-Boot: bios_put_hex and bios_put_dec of        *)
(* lib_core.c write them, parse_hex of cli.c reads them as the arguments   *)
(* of md and mw.  A user reads a word off the screen and types it again,   *)
(* or types any other argument.                                            *)
(*                                                                         *)
(* The loops are modelled round by round, over words of Width digits in    *)
(* base Base (8 and 16 in the code).  A character is its code; the         *)
(* letters A to F follow 9 at once, and the two cases of a letter are one. *)
(*                                                                         *)
(* ShiftWide, KeptShifted, LowestFirst and LastNibbleLost are slips the   *)
(* code avoids; no action uses them.                                       *)
(***************************************************************************)
EXTENDS Integers, Sequences, FiniteSetsExt

CONSTANTS
  Base,    \* 16
  Width,   \* digits of a word (8)
  DecBase, \* 10
  BufLen,  \* sizeof buf in bios_put_dec (11)
  MaxText  \* bound: characters of an argument

(***************************************************************************)
(* Powers(b)[n] is b to the n, and Value(b, d)[k] what the k lowest digits *)
(* d[0], d[1], ... of a number in base b are worth.                        *)
(***************************************************************************)
Powers(b) ==
  LET power[n \in Nat] == IF n = 0 THEN 1 ELSE b * power[n-1]
  IN  power

Value(b, d) ==
  LET value[k \in Nat] == IF k = 0 THEN 0 ELSE value[k-1] + d[k-1] * Powers(b)[k-1]
  IN  value

\* The digits of s up to place n, the last one first, and 0 beyond the first.
Upwards(s, n) == [j \in Nat |-> IF j < n THEN s[n-j] ELSE 0]

Word     == 0..Powers(Base)[Width]-1
Digit(d) == 48 + d         \* '0' + d
X        == 1000           \* 'x' or 'X'
Other    == 1001           \* any character that is neither a digit nor an x
DigitChar == {Digit(d) : d \in 0..Base-1}
Char      == DigitChar \cup {X, Other}

ASSUME NumbersAssumption ==
  /\ Base \in 2..36 /\ Width \in Nat \ {0}
  /\ DecBase \in 2..10 /\ BufLen \in Nat \ {0}
  /\ Powers(DecBase)[BufLen-1] >= Powers(Base)[Width]
  /\ MaxText \in Nat /\ MaxText > Width + 2

VARIABLES
  pc,      \* the routine that runs, or "typing", or "shown" or "parsed" at the end
  word,    \* the word that is written
  text,    \* the hexadecimal text: written by bios_put_hex, or typed
  copied,  \* it has been typed as it was written
  i,       \* bios_put_hex's i; in parse_hex the place of the next character
  val,     \* bios_put_dec's and parse_hex's val
  buf,     \* bios_put_dec's buf from buf[i] up to the final 0
  shown    \* the codes bios_put_dec has sent to the console

vars == <<pc, word, text, copied, i, val, buf, shown>>

TypeOK ==
  /\ pc \in {"put_hex", "put_dec", "shown", "typing", "prefix", "parse_hex", "parsed"}
  /\ word \in Word /\ val \in Word
  /\ text \in Seq(Char) /\ Len(text) <= MaxText
  /\ copied \in BOOLEAN
  /\ i \in -1..MaxText+1
  /\ buf \in Seq(0..DecBase-1) /\ Len(buf) <= BufLen - 1
  /\ shown \in Seq(0..DecBase-1)

\* One of the two routines is called with some word.
Init ==
  /\ word \in Word /\ copied = TRUE
  /\ \/ pc = "put_hex" /\ text = <<Digit(0), X>> /\ i = Width - 1 /\ val = 0
     \/ pc = "put_dec" /\ text = <<>> /\ i = 0 /\ val = word
  /\ buf = <<>> /\ shown = <<>>
----------------------------------------------------------------------------
LastNibbleLost == i > 0
MoreNibbles    == i >= 0

PutNibble ==
  /\ pc = "put_hex" /\ MoreNibbles
  /\ text' = Append(text, Digit((word \div Powers(Base)[i]) % Base))
  /\ i' = i - 1
  /\ UNCHANGED <<pc, word, copied, val, buf, shown>>

HexPut ==
  /\ pc = "put_hex" /\ ~MoreNibbles
  /\ pc' = "typing"
  /\ UNCHANGED <<word, text, copied, i, val, buf, shown>>

LowestFirst(d) == Append(buf, d)
Stored(d)      == <<d>> \o buf

PutDecimal ==
  /\ pc = "put_dec" /\ val > 0
  /\ buf' = Stored(val % DecBase) /\ val' = val \div DecBase
  /\ UNCHANGED <<pc, word, text, copied, i, shown>>

\* bios_puts(&buf[i]) ends at the first 0; a word 0 is sent as it is.
DecimalPut ==
  /\ pc = "put_dec" /\ val = 0
  /\ pc' = "shown"
  /\ shown' = IF word = 0 THEN <<0>>
              ELSE LET zeros == {n \in 1..Len(buf) : buf[n] = 0}
                   IN  IF zeros = {} THEN buf ELSE SubSeq(buf, 1, Min(zeros) - 1)
  /\ UNCHANGED <<word, text, copied, i, val, buf>>
----------------------------------------------------------------------------
\* The user starts an argument of another kind, ...
TypeAnew ==
  /\ pc = "typing" /\ copied
  /\ \E c \in Char : text' = <<c>>
  /\ copied' = FALSE /\ word' = 0
  /\ UNCHANGED <<pc, i, val, buf, shown>>

\* ... goes on with it, ...
TypeMore ==
  /\ pc = "typing" /\ Len(text) < MaxText
  /\ \E c \in Char : text' = Append(text, c)
  /\ copied' = FALSE /\ word' = 0
  /\ UNCHANGED <<pc, i, val, buf, shown>>

\* ... and runs the command.
RunCommand ==
  /\ pc = "typing"
  /\ pc' = "prefix" /\ i' = 1 /\ val' = 0
  /\ UNCHANGED <<word, text, copied, buf, shown>>

HasPrefix == Len(text) >= 2 /\ text[1] = Digit(0) /\ text[2] = X

SkipPrefix ==
  /\ pc = "prefix"
  /\ pc' = "parse_hex" /\ i' = IF HasPrefix THEN 3 ELSE 1
  /\ UNCHANGED <<word, text, copied, val, buf, shown>>

ShiftWide == val * Base
Shifted   == (val * Base) % Powers(Base)[Width]

ParseDigit ==
  /\ pc = "parse_hex" /\ i <= Len(text) /\ text[i] \in DigitChar
  /\ val' = Shifted + (text[i] - Digit(0))
  /\ i' = i + 1
  /\ UNCHANGED <<pc, word, text, copied, buf, shown>>

KeptShifted == Shifted
\* The round's shift is taken back, but not what it shifted out.
Unshifted   == Shifted \div Base

ParseStop ==
  /\ pc = "parse_hex" /\ i <= Len(text) /\ text[i] \notin DigitChar
  /\ pc' = "parsed" /\ val' = Unshifted
  /\ UNCHANGED <<word, text, copied, i, buf, shown>>

ParseEnd ==
  /\ pc = "parse_hex" /\ i > Len(text)
  /\ pc' = "parsed"
  /\ UNCHANGED <<word, text, copied, i, val, buf, shown>>
----------------------------------------------------------------------------
Next ==
  \/ PutNibble \/ HexPut \/ PutDecimal \/ DecimalPut
  \/ TypeAnew \/ TypeMore \/ RunCommand
  \/ SkipPrefix \/ ParseDigit \/ ParseStop \/ ParseEnd

Spec == Init /\ [][Next]_vars
----------------------------------------------------------------------------
(***************************************************************************)
(* Properties                                                              *)
(***************************************************************************)

\* What the digits at the places n-k+1 to n of a text are worth.
Worth(chars, n, k) ==
  Value(Base, [j \in Nat |-> IF j < n THEN chars[n-j] - Digit(0) ELSE 0])[k]

\* parse_hex reads the digits behind an optional 0x.  Of more digits than a word
\* has the last ones count, and a character that ends the number costs a full
\* word its first digit.
ParsedIsLastDigits ==
  pc = "parsed" =>
    LET first  == IF HasPrefix THEN 3 ELSE 1
        stops  == {n \in first..Len(text) : text[n] \notin DigitChar}
        last   == IF stops = {} THEN Len(text) ELSE Min(stops) - 1
        room   == IF stops = {} THEN Width ELSE Width - 1
        number == last - first + 1
    IN  val = Worth(text, last, IF number < room THEN number ELSE room)

\* A word typed again as bios_put_hex wrote it is the word md and mw get.
HexReadsBack == pc = "parsed" /\ copied => val = word

\* Whenever bios_put_dec tests val, the digits it has stored are the last ones of
\* its word: with the value that is left before them they are the word.  When
\* nothing is left they are the word by themselves, without a leading zero.  What
\* becomes of them on the console is DecimalShown's matter.
DecimalSpells ==
  pc = "put_dec" =>
    /\ val * Powers(DecBase)[Len(buf)]
         + Value(DecBase, Upwards(buf, Len(buf)))[Len(buf)] = word
    /\ val = 0 /\ buf # <<>> => buf[1] # 0

\* bios_put_dec prints its word as a decimal value (qboot_lib.h:17): the console
\* gets characters of digits, and read from left to right they are the word.
\* They are not (lib_core.c:34 and :39): NumbersDecimal.cfg shows it violated.
DecimalShown ==
  pc = "shown" =>
    LET len    == Len(shown)
        digits == [n \in 1..len |-> shown[n] - Digit(0)]
    IN  /\ \A n \in 1..len : digits[n] \in 0..DecBase-1
        /\ len > 0 /\ Value(DecBase, Upwards(digits, len))[len] = word
=============================================================================
