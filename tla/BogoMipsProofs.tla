--------------------------- MODULE BogoMipsProofs ---------------------------
(***************************************************************************)
(* The calibration keeps its bracket, for every word size, machine and     *)
(* lateness, and so returns an accurate value; and it ends after a number  *)
(* of probes that the bits of a word bound.                                *)
(***************************************************************************)
EXTENDS BogoMips, WellFoundedInduction, TLAPS

(***************************************************************************)
(* Powers of two.  The library's induction takes an operator; a set serves *)
(* as well, and is within the reach of the provers.                        *)
(***************************************************************************)
Before == {p \in Nat \X Nat : p[1] < p[2]}

LEMMA BeforeIsWellFounded == IsWellFoundedOn(Before, Nat)
  BY NatLessThanWellFounded DEF OpToRel, Before

LEMMA Induction ==
  ASSUME NEW A, 0 \in A, \A n \in Nat : n \in A => n + 1 \in A
  PROVE  \A n \in Nat : n \in A
<1> DEFINE Others == Nat \ A
<1> SUFFICES ASSUME Others # {}
             PROVE  FALSE
  OBVIOUS
<1>1. PICK x \in Others : \A y \in Others : <<y, x>> \notin Before
  <2>1. Others \subseteq Nat
    OBVIOUS
  <2> HIDE DEF Others
  <2> QED
    BY <2>1, BeforeIsWellFounded, WFMin
<1>2. x - 1 \in Nat /\ x - 1 + 1 = x
  <2>1. x \in Nat /\ x # 0
    OBVIOUS
  <2> QED
    BY <2>1
<1>3. x - 1 \in Others
  BY <1>2
<1>4. <<x - 1, x>> \in Before
  BY <1>2 DEF Before
<1> QED
  BY <1>1, <1>3, <1>4

\* The recursive definition of Power defines it.
LEMMA PowerLaw ==
  /\ Power \in [0..Bits -> Nat \ {0}]
  /\ Power[0] = 1
  /\ \A n \in 0..Bits-1 : Power[n+1] = 2 * Power[n]
<1> DEFINE Equation(h, m) == h = [n \in 0..m |-> IF n = 0 THEN 1 ELSE 2 * h[n-1]]
           Good == {m \in Nat : \E h \in [0..m -> Nat \ {0}] : Equation(h, m)}
<1>1. 0 \in Good
  <2> DEFINE h == [n \in 0..0 |-> 1]
  <2>1. h \in [0..0 -> Nat \ {0}] /\ h = [n \in 0..0 |-> IF n = 0 THEN 1 ELSE 2 * h[n-1]]
    OBVIOUS
  <2> HIDE DEF h
  <2> QED
    BY <2>1
<1>2. ASSUME NEW m \in Nat, m \in Good
      PROVE  m + 1 \in Good
  <2>1. PICK h \in [0..m -> Nat \ {0}] : Equation(h, m)
    BY <1>2
  <2> DEFINE g == [n \in 0..m+1 |-> IF n = m + 1 THEN 2 * h[m] ELSE h[n]]
  <2>2. g \in [0..m+1 -> Nat \ {0}]
    <3>1. m \in 0..m /\ h[m] \in Nat \ {0} /\ 2 * h[m] \in Nat \ {0}
      OBVIOUS
    <3>2. ASSUME NEW n \in 0..m+1, n # m + 1
          PROVE  h[n] \in Nat \ {0}
      <4>1. n \in 0..m
        BY <3>2
      <4> QED
        BY <4>1
    <3> QED
      BY <3>1, <3>2
  <2>3. ASSUME NEW n \in 0..m+1
        PROVE  g[n] = IF n = 0 THEN 1 ELSE 2 * g[n-1]
    <3>1. CASE n = m + 1
      <4>1. n # 0 /\ n - 1 = m /\ m \in 0..m+1 /\ m # m + 1
        BY <3>1
      <4> QED
        BY <3>1, <4>1
    <3>2. CASE n # m + 1 /\ n # 0
      <4>1. n \in 0..m /\ n - 1 \in 0..m+1 /\ n - 1 # m + 1
        BY <3>2
      <4>2. h[n] = 2 * h[n-1]
        BY <2>1, <3>2, <4>1
      <4> QED
        BY <3>2, <4>1, <4>2
    <3>3. CASE n = 0
      <4>1. 0 \in 0..m /\ 0 # m + 1 /\ h[0] = 1
        BY <2>1
      <4> QED
        BY <3>3, <4>1
    <3> QED
      BY <3>1, <3>2, <3>3
  <2>4. g = [n \in 0..m+1 |-> IF n = 0 THEN 1 ELSE 2 * g[n-1]]
    <3> HIDE DEF g
    <3> QED
      BY <2>2, <2>3
  <2>5. Equation(g, m + 1) /\ m + 1 \in Nat
    BY <2>4
  <2> HIDE DEF g, Equation
  <2> QED
    BY <2>2, <2>5
<1>3. Bits \in Good
  <2> HIDE DEF Good
  <2> QED
    BY <1>1, <1>2, Induction, CalibrationAssumption
<1>4. PICK h \in [0..Bits -> Nat \ {0}] : Equation(h, Bits)
  BY <1>3
<1>5. Power = CHOOSE f : Equation(f, Bits)
  BY DEF Power
<1>6. Equation(Power, Bits)
  <2> HIDE DEF Equation
  <2> QED
    BY <1>4, <1>5
<1>7. \A n \in 0..Bits : Power[n] = h[n]
  <2> DEFINE Same == {n \in Nat : n \in 0..Bits => Power[n] = h[n]}
  <2>1. 0 \in Same
    <3>1. 0 \in 0..Bits
      BY CalibrationAssumption
    <3> QED
      BY <1>4, <1>6, <3>1
  <2>2. ASSUME NEW n \in Nat, n \in Same
        PROVE  n + 1 \in Same
    <3> SUFFICES ASSUME n + 1 \in 0..Bits
                 PROVE  Power[n+1] = h[n+1]
      OBVIOUS
    <3>1. n \in 0..Bits /\ n + 1 # 0 /\ n + 1 - 1 = n
      BY CalibrationAssumption
    <3>2. Power[n+1] = 2 * Power[n] /\ h[n+1] = 2 * h[n]
      BY <1>4, <1>6, <3>1
    <3> QED
      BY <2>2, <3>1, <3>2
  <2> HIDE DEF Same
  <2>3. \A n \in Nat : n \in Same
    BY <2>1, <2>2, Induction
  <2> QED
    BY <2>3 DEF Same
<1>8. 0 \in 0..Bits
  BY CalibrationAssumption
<1>9. Power \in [0..Bits -> Nat \ {0}]
  BY <1>6, <1>7
<1>10. ASSUME NEW n \in 0..Bits-1
       PROVE  Power[n+1] = 2 * Power[n]
  <2>1. n + 1 \in 0..Bits /\ n + 1 # 0 /\ n + 1 - 1 = n
    BY CalibrationAssumption
  <2>2. \A k \in 0..Bits : Power[k] = IF k = 0 THEN 1 ELSE 2 * Power[k-1]
    BY <1>6
  <2>3. Power[n+1] = 2 * Power[n+1-1]
    BY <2>1, <2>2
  <2> QED
    BY <2>1, <2>3
<1> QED
  BY <1>6, <1>8, <1>9, <1>10

\* A word has room for every power of two but the last.
LEMMA WordLaw ==
  /\ WordMod \in Nat /\ WordMod >= 4
  /\ \A n \in 0..Bits-1 : Power[n] \in 1..WordMod-1 /\ Power[n+1] = 2 * Power[n]
<1>1. /\ Power \in [0..Bits -> Nat \ {0}] /\ Power[0] = 1
      /\ Bits \in Nat /\ Bits >= 2
  BY PowerLaw, CalibrationAssumption
<1>2. ASSUME NEW n \in 0..Bits-1
      PROVE  Power[n] \in Nat \ {0} /\ Power[n+1] = 2 * Power[n]
  <2>1. n \in 0..Bits
    BY <1>1
  <2> QED
    BY <1>1, <2>1, PowerLaw
<1> DEFINE Below == {d \in Nat : d < Bits => 2 * Power[Bits-1-d] <= WordMod}
<1>3. 0 \in Below
  <2>1. Bits - 1 \in 0..Bits-1 /\ Bits - 1 - 0 = Bits - 1 /\ Bits - 1 + 1 = Bits
    BY <1>1
  <2>2. Power[Bits] = 2 * Power[Bits-1] /\ Power[Bits-1] \in Nat
    BY <1>2, <2>1
  <2>3. 2 * Power[Bits-1] <= WordMod
    BY <2>2 DEF WordMod
  <2>4. 2 * Power[Bits-1-0] <= WordMod
    BY <2>1, <2>3
  <2> QED
    BY <2>4
<1>4. ASSUME NEW d \in Nat, d \in Below
      PROVE  d + 1 \in Below
  <2> SUFFICES ASSUME d + 1 < Bits
               PROVE  2 * Power[Bits-1-(d+1)] <= WordMod
    OBVIOUS
  <2> DEFINE n == Bits - 1 - (d + 1)
  <2>1. n \in 0..Bits-1 /\ n + 1 = Bits - 1 - d /\ n + 1 \in 0..Bits-1 /\ d < Bits
    BY <1>1
  <2>2. Power[n+1] = 2 * Power[n] /\ Power[n+1] \in Nat /\ Power[n] \in Nat
    BY <1>2, <2>1
  <2>3. 2 * Power[n+1] <= WordMod
    BY <1>4, <2>1
  <2>4. WordMod \in Nat
    <3>1. Bits \in 0..Bits
      BY <1>1
    <3> QED
      BY <1>1, <3>1 DEF WordMod
  <2> HIDE DEF n
  <2>5. 2 * Power[n] <= WordMod
    BY <2>2, <2>3, <2>4
  <2> QED
    BY <2>5 DEF n
<1>5. \A d \in Nat : d \in Below
  <2> HIDE DEF Below
  <2> QED
    BY <1>3, <1>4, Induction
<1>6. WordMod \in Nat
  <2>1. Bits \in 0..Bits
    BY <1>1
  <2> QED
    BY <1>1, <2>1 DEF WordMod
<1>7. ASSUME NEW n \in 0..Bits-1
      PROVE  2 * Power[n] <= WordMod
  <2> DEFINE d == Bits - 1 - n
  <2>1. d \in Nat /\ d < Bits /\ Bits - 1 - d = n
    BY <1>1
  <2>2. d \in Below
    BY <1>5, <2>1
  <2> QED
    BY <2>1, <2>2
<1>8. WordMod >= 4
  <2>1. 0 \in 0..Bits-1 /\ 1 \in 0..Bits-1 /\ Power[0+1] = 2 * Power[0] /\ 0 + 1 = 1
    BY <1>1, <1>2
  <2>2. Power[1] = 2
    BY <1>1, <2>1
  <2>3. 2 * Power[1] <= WordMod
    BY <1>7, <2>1
  <2> QED
    BY <1>6, <2>2, <2>3
<1>9. ASSUME NEW n \in 0..Bits-1
      PROVE  Power[n] \in 1..WordMod-1 /\ Power[n+1] = 2 * Power[n]
  BY <1>2, <1>6, <1>7
<1> QED
  BY <1>6, <1>8, <1>9

\* A doubled word stays a word, and half of it is no more than the word was.
LEMMA DoubleLaw ==
  ASSUME NEW n \in 0..WordMod-1
  PROVE  /\ Double(n) \in 0..WordMod-1
         /\ Double(n) \div 2 <= n
         /\ Double(n) = 0 /\ n > 0 => 2 * n = WordMod
  BY WordLaw DEF Double

\* The middle of a bracket that is not narrow lies inside it.
LEMMA MidInside ==
  ASSUME NEW l \in Nat, NEW h \in Nat, h - l > 1
  PROVE  l < l + (h - l) \div 2 /\ l + (h - l) \div 2 < h
         /\ l + (h - l) \div 2 \in Nat
  OBVIOUS

LEMMA BracketStart == Init => CalibrationInv
<1> SUFFICES ASSUME Init
             PROVE  CalibrationInv
  OBVIOUS
<1>1. pc = "idle" /\ lo = 1 /\ hi = 0 /\ jiffy \in Nat /\ jiffy >= 1
  BY CalibrationAssumption DEF Init
<1>2. TypeOK
  <2>1. lo \in 0..WordMod-1 /\ hi \in 0..WordMod-1
    BY <1>1, WordLaw
  <2>2. locked \in BOOLEAN
    BY Zenon DEF Init
  <2> QED
    BY <2>1, <2>2, <1>1 DEF Init, TypeOK
<1>3. lo > 0 /\ lo \div 2 < jiffy
  BY <1>1
<1> QED
  BY <1>1, <1>2, <1>3 DEF CalibrationInv, Bracket

LEMMA BracketKept == CalibrationInv /\ [Next]_vars => CalibrationInv'
<1> SUFFICES ASSUME CalibrationInv, [Next]_vars
             PROVE  CalibrationInv'
  OBVIOUS
<1> USE CalibrationAssumption, WordLaw DEF CalibrationInv, TypeOK, Bracket, Probe
<1>1. CASE Lock
  BY <1>1 DEF Lock
<1>2. CASE DoublingFits
  <2>1. lo \in 0..WordMod-1 /\ lo < jiffy /\ lo' = Double(lo) /\ lo' # 0
    BY <1>2 DEF DoublingFits, Fits
  <2>2. lo' \in 0..WordMod-1 /\ lo' \div 2 <= lo
    BY <2>1, DoubleLaw
  <2> QED
    BY <1>2, <2>1, <2>2 DEF DoublingFits
<1>3. CASE DoublingWraps
  <2>1. 2 * lo = WordMod
    BY <1>3, DoubleLaw DEF DoublingWraps
  <2> QED
    BY <1>3, <2>1 DEF DoublingWraps, Fits
<1>4. CASE DoublingEnds
  BY <1>4 DEF DoublingEnds, TooMany, Half
<1>5. CASE BisectFits
  <2>1. lo < Mid /\ Mid < hi /\ Mid \in Nat
    BY <1>5, MidInside DEF BisectFits, Narrow, Mid
  <2> QED
    BY <1>5, <2>1 DEF BisectFits, Fits
<1>6. CASE BisectTooMany
  <2>1. lo < Mid /\ Mid < hi /\ Mid \in Nat
    BY <1>6, MidInside DEF BisectTooMany, Narrow, Mid
  <2> QED
    BY <1>6, <2>1 DEF BisectTooMany, TooMany
<1>7. CASE Unlock
  BY <1>7 DEF Unlock, Narrow, Unlocked
<1>8. CASE UNCHANGED vars
  BY <1>8 DEF vars
<1> QED
  BY <1>1, <1>2, <1>3, <1>4, <1>5, <1>6, <1>7, <1>8 DEF Next, Rest

\* The locals of calibrate_loops_per_jiffy stay words, and lo and hi stay a
\* bracket of the value it looks for.
THEOREM CalibrationKeepsBracket == Spec => []CalibrationInv
  BY BracketStart, BracketKept, PTL DEF Spec

\* No value of the locals leaves an unsigned long.
THEOREM CalibrationTypes == Spec => []TypeOK
<1>1. CalibrationInv => TypeOK
  BY DEF CalibrationInv
<1> QED
  BY <1>1, CalibrationKeepsBracket, PTL

\* What calibrate_loops_per_jiffy returns is accurate up to the lateness of one
\* probe, or 0 on a machine too fast for the word.
THEOREM CalibrationIsAccurate == Spec => []Accurate
<1>1. CalibrationInv => Accurate
  BY CalibrationAssumption DEF CalibrationInv, TypeOK, Bracket, Accurate
<1> QED
  BY <1>1, CalibrationKeepsBracket, PTL

(***************************************************************************)
(* The number of probes.  Each doubling costs one, and what it gains a     *)
(* halving of the bracket uses up again.                                   *)
(***************************************************************************)
ProbesLeft ==
  /\ pc = "idle" => probes = 0 /\ lo = 1
  /\ pc = "doubling" => probes \in 0..Bits-1 /\ lo = Power[probes]
  /\ pc = "bisecting" =>
       \E n \in 0..Bits-1 : probes + n <= 2 * (Bits - 1) /\ hi - lo <= Power[n]
  /\ LockIsBounded

\* Half of a bracket of a power of two, rounded either way.
LEMMA HalfOfPower ==
  ASSUME NEW l \in Nat, NEW h \in Nat, NEW n \in 0..Bits-1, h - l > 1, h - l <= Power[n]
  PROVE  /\ n # 0 /\ n - 1 \in 0..Bits-1
         /\ (l + (h - l) \div 2) - l <= Power[n-1]
         /\ h - (l + (h - l) \div 2) <= Power[n-1]
<1>1. n # 0
  BY PowerLaw
<1>2. n - 1 \in 0..Bits-1 /\ n - 1 + 1 = n
  BY <1>1, CalibrationAssumption
<1>3. Power[n] = 2 * Power[n-1] /\ Power[n-1] \in Nat
  BY <1>2, WordLaw
<1> QED
  BY <1>1, <1>2, <1>3

LEMMA ProbesStart == Init => ProbesLeft
  BY CalibrationAssumption DEF Init, ProbesLeft, LockIsBounded

LEMMA ProbesKept ==
  CalibrationInv /\ ProbesLeft /\ [Next]_vars => ProbesLeft'
<1> SUFFICES ASSUME CalibrationInv, ProbesLeft, [Next]_vars
             PROVE  ProbesLeft'
  OBVIOUS
<1> USE CalibrationAssumption DEF ProbesLeft, LockIsBounded, Probe
<1>1. lo \in Nat /\ hi \in Nat /\ probes \in Nat /\ WordMod \in Nat
  BY WordLaw DEF CalibrationInv, TypeOK
<1>2. ASSUME pc = "doubling"
      PROVE  /\ probes \in 0..Bits-1 /\ lo = Power[probes]
             /\ Power[probes+1] = 2 * lo /\ lo \in Nat \ {0}
  BY <1>2, WordLaw
<1>3. CASE Lock
  BY <1>3, PowerLaw DEF Lock
<1>4. CASE DoublingFits
  <2>1. probes # Bits - 1
    <3> SUFFICES ASSUME probes = Bits - 1
                 PROVE  FALSE
      OBVIOUS
    <3>1. Power[Bits] = 2 * lo
      <4>1. probes + 1 = Bits
        OBVIOUS
      <4> QED
        BY <1>2, <1>4, <4>1 DEF DoublingFits
    <3>2. Double(lo) = 0
      BY <1>1, <3>1 DEF Double, WordMod
    <3> QED
      BY <1>4, <3>2 DEF DoublingFits
  <2>2. probes + 1 \in 0..Bits-1
    BY <1>2, <1>4, <2>1 DEF DoublingFits
  <2>3. Double(lo) = Power[probes+1]
    <3>1. Power[probes+1] < WordMod /\ Power[probes+1] = 2 * lo
      BY <1>2, <1>4, <2>2, WordLaw DEF DoublingFits
    <3> QED
      BY <3>1 DEF Double
  <2> QED
    BY <1>4, <2>2, <2>3 DEF DoublingFits
<1>5. CASE DoublingWraps
  <2>1. probes \in 0..Bits-1 /\ Power[0] = 1 /\ 0 \in 0..Bits-1
    BY <1>2, <1>5, PowerLaw DEF DoublingWraps
  <2>2. hi' - lo' <= Power[0] /\ probes' + 0 <= 2 * (Bits - 1) /\ pc' = "bisecting"
    BY <1>5, <2>1 DEF DoublingWraps
  <2>3. probes' + 0 = probes'
    BY <1>1, <1>5 DEF DoublingWraps
  <2> QED
    BY <2>1, <2>2, <2>3
<1>6. CASE DoublingEnds
  <2>1. probes \in 0..Bits-1 /\ lo = Power[probes] /\ probes' = probes + 1
        /\ hi' = lo /\ lo' = lo \div 2 /\ pc' = "bisecting"
    BY <1>2, <1>6 DEF DoublingEnds, Half
  <2>2. CASE probes = 0
    <3>1. lo = 1 /\ Power[0] = 1 /\ 0 \in 0..Bits-1
      BY <2>1, <2>2, PowerLaw
    <3>2. hi' - lo' <= Power[0] /\ probes' + 0 <= 2 * (Bits - 1)
      BY <2>1, <2>2, <3>1
    <3> QED
      BY <2>1, <2>2, <3>1, <3>2
  <2>3. CASE probes # 0
    <3>1. probes - 1 \in 0..Bits-1 /\ probes - 1 + 1 = probes
      BY <2>1, <2>3
    <3>2. lo = 2 * Power[probes-1] /\ Power[probes-1] \in Nat
      BY <2>1, <3>1, WordLaw
    <3>3. hi' - lo' <= Power[probes-1]
      BY <2>1, <3>2
    <3>4. probes' + (probes - 1) <= 2 * (Bits - 1) /\ probes' <= 2 * (Bits - 1)
      BY <2>1, <2>3
    <3> QED
      BY <2>1, <3>1, <3>3, <3>4
  <2> QED
    BY <2>2, <2>3
<1>7. CASE BisectFits \/ BisectTooMany
  <2>1. hi - lo > 1 /\ pc = "bisecting" /\ pc' = "bisecting" /\ probes' = probes + 1
    BY <1>1, <1>7 DEF BisectFits, BisectTooMany, Narrow
  <2>2. PICK n \in 0..Bits-1 : probes + n <= 2 * (Bits - 1) /\ hi - lo <= Power[n]
    BY <2>1
  <2>3. n # 0 /\ n - 1 \in 0..Bits-1 /\ Mid - lo <= Power[n-1] /\ hi - Mid <= Power[n-1]
    BY <1>1, <2>1, <2>2, HalfOfPower DEF Mid
  <2>4. hi' - lo' <= Power[n-1]
    BY <1>7, <2>3 DEF BisectFits, BisectTooMany
  <2>5. probes' + (n - 1) <= 2 * (Bits - 1) /\ probes' <= 2 * (Bits - 1)
    BY <1>1, <2>1, <2>2, <2>3
  <2> QED
    BY <2>1, <2>3, <2>4, <2>5
<1>8. CASE Unlock
  BY <1>8 DEF Unlock
<1>9. CASE UNCHANGED vars
  BY <1>9 DEF vars
<1> QED
  BY <1>3, <1>4, <1>5, <1>6, <1>7, <1>8, <1>9 DEF Next, Rest

\* However late the probes are and however they disagree, the scheduler is
\* locked for no more than two of them for each bit of a word but one.
THEOREM LockIsAlwaysBounded == Spec => []LockIsBounded
<1>1. ProbesLeft => LockIsBounded
  BY DEF ProbesLeft
<1> QED
  BY <1>1, ProbesStart, ProbesKept, CalibrationKeepsBracket, PTL DEF Spec
=============================================================================
