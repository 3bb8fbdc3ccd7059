------------------------------ MODULE BogoMips ------------------------------
(***************************************************************************)
(* calibrate_loops_per_jiffy of q9_bogomips.c: how many rounds of a delay  *)
(* loop fit in one jiffy, found by doubling and then by bisection, with    *)
(* the scheduler locked but the timer interrupt running.                   *)
(*                                                                         *)
(* Time is counted in rounds of the delay loop, and "jiffy" is how many of *)
(* them the machine does between two ticks.  Every probe starts a little   *)
(* after a tick (the polling loop notices it late) and interrupts run      *)
(* during it: together they cost up to MaxLate rounds, another number in   *)
(* every probe.                                                            *)
(*                                                                         *)
(* HalfKept, NarrowStrict, StillLocked and DoubleWide are slips the code avoids;  *)
(* no action uses them.                                                    *)
(***************************************************************************)
EXTENDS Integers

CONSTANTS
  Bits,      \* of an unsigned long
  MaxJiffy,  \* bound: rounds per jiffy of the fastest machine
  MaxLate    \* bound: rounds by which a probe is late

ASSUME CalibrationAssumption ==
  /\ Bits \in Nat /\ Bits >= 2
  /\ MaxJiffy \in Nat \ {0}
  /\ MaxLate \in Nat

\* 2^n, as a recursive function
Power[n \in 0..Bits] == IF n = 0 THEN 1 ELSE 2 * Power[n-1]
WordMod == Power[Bits]

VARIABLES
  pc,       \* where calibrate_loops_per_jiffy is
  lo, hi,   \* its locals
  locked,   \* the scheduler is locked
  jiffy,    \* the machine: rounds per jiffy
  ticking,  \* the platform has a tick; the stub of lib_core.c always reads 0
  probes    \* history: calls of too_many_loops

vars == <<pc, lo, hi, locked, jiffy, ticking, probes>>

TypeOK ==
  /\ pc \in {"idle", "doubling", "bisecting", "done"}
  /\ lo \in 0..WordMod-1
  /\ hi \in 0..WordMod-1
  /\ locked \in BOOLEAN
  /\ jiffy \in 1..MaxJiffy
  /\ ticking \in BOOLEAN
  /\ probes \in Nat

Init ==
  /\ pc = "idle" /\ lo = 1 /\ hi = 0 /\ locked = FALSE /\ probes = 0
  /\ jiffy \in 1..MaxJiffy
  /\ ticking \in BOOLEAN
-----------------------------------------------------------------------------
\* too_many_loops(n) may answer no, or yes.  Before it answers at all it waits
\* for a tick, with no limit.
Fits(n)    == n < jiffy
TooMany(n) == n + MaxLate >= jiffy

Probe == ticking /\ probes' = probes + 1

DoubleWide(n) == 2 * n

\* lo <<= 1, for lo below WordMod.
Double(n) == IF 2 * n < WordMod THEN 2 * n ELSE 2 * n - WordMod

Mid == lo + (hi - lo) \div 2

HalfKept == lo
Half     == lo \div 2

NarrowStrict == hi = lo
Narrow       == hi - lo <= 1

StillLocked == TRUE
Unlocked    == FALSE

Lock ==
  /\ pc = "idle" /\ pc' = "doubling"
  /\ locked' = TRUE
  /\ UNCHANGED <<lo, hi, jiffy, ticking, probes>>

DoublingFits ==
  /\ pc = "doubling" /\ Probe /\ Fits(lo) /\ Double(lo) # 0
  /\ lo' = Double(lo)
  /\ UNCHANGED <<pc, hi, locked, jiffy, ticking>>

\* The bit has left the word: hi and lo are both 0.
DoublingWraps ==
  /\ pc = "doubling" /\ Probe /\ Fits(lo) /\ Double(lo) = 0
  /\ pc' = "bisecting" /\ hi' = 0 /\ lo' = 0
  /\ UNCHANGED <<locked, jiffy, ticking>>

DoublingEnds ==
  /\ pc = "doubling" /\ Probe /\ TooMany(lo)
  /\ pc' = "bisecting" /\ hi' = lo /\ lo' = Half
  /\ UNCHANGED <<locked, jiffy, ticking>>

BisectFits ==
  /\ pc = "bisecting" /\ ~Narrow /\ Probe /\ Fits(Mid)
  /\ lo' = Mid
  /\ UNCHANGED <<pc, hi, locked, jiffy, ticking>>

BisectTooMany ==
  /\ pc = "bisecting" /\ ~Narrow /\ Probe /\ TooMany(Mid)
  /\ hi' = Mid
  /\ UNCHANGED <<pc, lo, locked, jiffy, ticking>>

\* scheduler_unlock(); return lo;
Unlock ==
  /\ pc = "bisecting" /\ Narrow /\ pc' = "done"
  /\ locked' = Unlocked
  /\ UNCHANGED <<lo, hi, jiffy, ticking, probes>>

\* The caller goes on, or the stub never sees a tick.
Rest == (pc = "done" \/ (locked /\ ~ticking)) /\ UNCHANGED vars

Next == \/ Lock \/ DoublingFits \/ DoublingWraps \/ DoublingEnds
        \/ BisectFits \/ BisectTooMany \/ Unlock \/ Rest

Spec     == Init /\ [][Next]_vars
\* One thread runs, and no step of it is ever disabled but by a missing tick.
FairSpec == Spec /\ WF_vars(Next)
-----------------------------------------------------------------------------
(***************************************************************************)
(* Properties                                                              *)
(***************************************************************************)

\* lo, once doubled, is the bracket's low end: its half has been measured to
\* fit; hi has been measured not to, late as that probe may have been.
Bracket ==
  /\ pc \in {"idle", "doubling"} => lo > 0 /\ lo \div 2 < jiffy
  /\ (pc \in {"bisecting", "done"} /\ hi # 0) =>
       lo < jiffy /\ lo < hi /\ hi + MaxLate >= jiffy
  /\ (pc \in {"bisecting", "done"} /\ hi = 0) => lo = 0 /\ 2 * jiffy > WordMod
  /\ pc = "done" => hi - lo <= 1

CalibrationInv == TypeOK /\ Bracket

\* "largest value that fits in one jiffy" (q9_bogomips.c): what comes back fits,
\* and falls short of the largest value that does by no more than a probe may
\* be late.  Only a machine on which half the range of an unsigned long fits in
\* a jiffy gets 0.
Accurate ==
  pc = "done" => \/ lo = 0 /\ 2 * jiffy > WordMod
                 \/ lo < jiffy /\ lo + 1 + MaxLate >= jiffy

\* The scheduler stays locked for a bounded number of probes, however late each
\* of them is: less than one for each bit to double and one to bisect.  The
\* bisection cannot be led in circles by probes that disagree.
LockIsBounded == probes <= 2 * (Bits - 1)

\* Where the tick runs, calibration ends and gives the scheduler back.
SchedulerReturns == ticking ~> (pc = "done" /\ ~locked)
=============================================================================
