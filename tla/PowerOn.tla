------------------------------- MODULE PowerOn ------------------------------
(***************************************************************************)
(* Q-Boot from power-on: the ROM image goes through stage 1 before main()  *)
(* of stage 2 begins, and keys may come all the while; the simulator is a  *)
(* program that begins with main().  What is printed takes no time here:   *)
(* the UART's transmitter is taken to become empty again each time.        *)
(***************************************************************************)
EXTENDS QBoot, Stage1

PowerInit ==
  /\ Init
  /\ \/ build = "rom" /\ Reset
     \/ build = "simulator" /\ board = "none" /\ at = "main"

Startup == Boot /\ UNCHANGED vars

\* What stage 2 does by itself needs stage 1 to be over; what its user does
\* does not.
Run == at = "main" /\ Main /\ UNCHANGED bootVars
Shell == at = "main" /\ (ReadKey \/ Command) /\ UNCHANGED bootVars
User  == (Type \/ Close) /\ UNCHANGED bootVars

PowerNext == Startup \/ Run \/ Shell \/ User \/ (Over /\ UNCHANGED bootVars)

\* The processor goes on; keys need never come.
PowerSpec     == PowerInit /\ [][PowerNext]_<<vars, bootVars>>
FairPowerSpec == PowerSpec /\ WF_<<vars, bootVars>>(Startup) /\ WF_<<vars, bootVars>>(Run)
----------------------------------------------------------------------------
\* Wherever main() is reached, and whatever is typed or not, the countdown comes
\* to an end: the shell, or the autoboot, which halts.
CountdownEnds ==
  board # "cb030" => <>(pc \in {"shell", "command", "halted", "crashed"})
=============================================================================
