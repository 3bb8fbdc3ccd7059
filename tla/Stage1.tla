------------------------------- MODULE Stage1 -------------------------------
(***************************************************************************)
(* Stage 1 of Q-Boot, the assembly code from power-on to main(), as the    *)
(* Makefile links it: for the cb030, whose ROM also lies over the RAM at 0 *)
(* after a reset, and for a board without such an overlay.  One action is  *)
(* one instruction, or a few that only load registers.                     *)
(*                                                                         *)
(* The cb030 is followed as far as its jump out of the overlay, for as it  *)
(* is linked the program does not come back from there.                    *)
(***************************************************************************)
EXTENDS Integers

VARIABLES
  board,    \* "cb030", "default", or "none": the simulator has no stage 1
  at        \* the instruction to come; "lost" where there is none

bootVars == <<board, at>>

Rom        == 0..512 * 1024 - 1    \* what lies at 0, by the hardware map
RomHighBase == 15 * 1024 * 1024    \* $00F00000, ROM_HIGH_BASE
TextBase    == 15 * 1024 * 1024    \* -Ttext 0x00F00000

\* The label behind ori.w #$2700, sr (4 bytes) and the jmp (6 bytes).
RunInHighRom == TextBase + 4 + 6
JumpTarget   == RomHighBase + RunInHighRom

InRom(address) == address \in Rom \/ address - RomHighBase \in Rom

Reset == board \in {"cb030", "default"} /\ at = "start"

\* ori.w #$2700, sr
Supervisor ==
  /\ at = "start" /\ at' = IF board = "cb030" THEN "jump" ELSE "vbr"
  /\ UNCHANGED board

\* jmp (ROM_HIGH_BASE + .run_in_high_rom)
JumpHigh ==
  /\ at = "jump" /\ at' = IF InRom(JumpTarget) THEN "remap" ELSE "lost"
  /\ UNCHANGED board

\* movec d0, vbr
SetVbr == at = "vbr" /\ at' = "stack" /\ UNCHANGED board

\* move.l #RAM_TOP, sp; jsr main
CallMain == at = "stack" /\ at' = "main" /\ UNCHANGED board

Boot == Supervisor \/ JumpHigh \/ SetVbr \/ CallMain
----------------------------------------------------------------------------
\* "Weitsprung in das permanente, hohe ROM-Segment" (cb030_startup.S): the jump
\* leads to an instruction of the program, in the ROM's permanent place.
JumpReachesRom == at # "lost"
=============================================================================
