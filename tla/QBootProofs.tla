---------------------------- MODULE QBootProofs ----------------------------
(***************************************************************************)
(* What Q-Boot's console promises, for countdowns of any length, polls of  *)
(* any number, lines, values and argument lists of any size: a key in time *)
(* keeps the autoboot from running, the screen shows the line that will be *)
(* run, and the command gets the words of that line.  Then info's headers, *)
(* for systems of any number of devices, and what holds from power-on.     *)
(***************************************************************************)
EXTENDS PowerOn, FiniteSetTheorems, SequenceTheorems, WellFoundedInduction, TLAPS

(***************************************************************************)
(* Recursion.  The library's induction takes an operator; a set serves as  *)
(* well, and is within the reach of the provers.                           *)
(***************************************************************************)
Before == {p \in Nat \X Nat : p[1] < p[2]}

LEMMA BeforeIsWellFounded == IsWellFoundedOn(Before, Nat)
  BY NatLessThanWellFounded DEF OpToRel, Before

LEMMA Induction ==
  ASSUME NEW A, 0 \in A, \A n \in Nat : n \in A => n + 1 \in A
  PROVE  \A n \in Nat : n \in A
<1> DEFINE Others == Nat \ A
<1> SUFFICES ASSUME Others # {}
             PROVE  FALSE
  OBVIOUS
<1>1. PICK x \in Others : \A y \in Others : <<y, x>> \notin Before
  <2>1. Others \subseteq Nat
    OBVIOUS
  <2> HIDE DEF Others
  <2> QED
    BY <2>1, BeforeIsWellFounded, WFMin
<1>2. x - 1 \in Nat /\ x - 1 + 1 = x
  <2>1. x \in Nat /\ x # 0
    OBVIOUS
  <2> QED
    BY <2>1
<1>3. x - 1 \in Others
  BY <1>2
<1>4. <<x - 1, x>> \in Before
  BY <1>2 DEF Before
<1> QED
  BY <1>1, <1>3, <1>4

\* A first element and len steps define a sequence.
Steps(S, len)               == [1..len -> [S -> S]]
Follows(h, S, b, len, next) ==
  h \in [0..len -> S] /\ h[0] = b /\ \A k \in 1..len : h[k] = next[k][h[k-1]]

LEMMA Recursion ==
  ASSUME NEW S, NEW b \in S, NEW len \in Nat, NEW next \in Steps(S, len)
  PROVE  \E h : Follows(h, S, b, len, next)
<1> DEFINE Good == {m \in Nat : m <= len => \E h : Follows(h, S, b, m, next)}
<1>1. next \in [1..len -> [S -> S]]
  BY DEF Steps
<1>2. 0 \in Good
  <2> DEFINE h == [k \in 0..0 |-> b]
  <2>1. h \in [0..0 -> S] /\ h[0] = b /\ \A k \in 1..0 : FALSE
    OBVIOUS
  <2> HIDE DEF h
  <2>2. Follows(h, S, b, 0, next)
    BY <2>1 DEF Follows
  <2> QED
    BY <2>2
<1>3. ASSUME NEW m \in Nat, m \in Good
      PROVE  m + 1 \in Good
  <2> SUFFICES ASSUME m + 1 <= len
               PROVE  \E h : Follows(h, S, b, m + 1, next)
    OBVIOUS
  <2>1. PICK h : Follows(h, S, b, m, next)
    BY <1>3
  <2> DEFINE g == [k \in 0..m+1 |-> IF k = m + 1 THEN next[m+1][h[m]] ELSE h[k]]
  <2>2. h \in [0..m -> S] /\ h[0] = b /\ \A k \in 1..m : h[k] = next[k][h[k-1]]
    BY <2>1 DEF Follows
  <2>3. next[m+1][h[m]] \in S
    <3>1. m \in 0..m /\ m + 1 \in 1..len
      OBVIOUS
    <3>2. h[m] \in S /\ next[m+1] \in [S -> S]
      BY <1>1, <2>2, <3>1
    <3> QED
      BY <3>2
  <2>4. \A k \in 0..m+1 : k # m + 1 => k \in 0..m
    OBVIOUS
  <2>5. g \in [0..m+1 -> S]
    BY <2>2, <2>3, <2>4
  <2>6. g[0] = b
    BY <2>2
  <2>7. ASSUME NEW k \in 1..m+1
        PROVE  g[k] = next[k][g[k-1]]
    <3>1. CASE k = m + 1
      <4>1. k - 1 = m /\ m \in 0..m+1 /\ m # m + 1
        BY <3>1
      <4> QED
        BY <3>1, <4>1
    <3>2. CASE k # m + 1
      <4>1. k \in 1..m /\ k - 1 \in 0..m+1 /\ k - 1 # m + 1
        BY <3>2
      <4> QED
        BY <2>2, <3>2, <4>1
    <3> QED
      BY <3>1, <3>2
  <2> HIDE DEF g
  <2>8. Follows(g, S, b, m + 1, next)
    BY <2>5, <2>6, <2>7 DEF Follows
  <2> QED
    BY <2>8
<1>4. len \in Good
  <2> HIDE DEF Good
  <2> QED
    BY <1>2, <1>3, Induction
<1> QED
  BY <1>4

\* A key in time is still there to be seen by a poll still to come, until the
\* shell has begun; before that nothing has been loaded.
KeyIsPending ==
  /\ sec \in Nat /\ polls \in Nat
  /\ pc \in {"init", "calibrate"} => sec = Seconds /\ polls = Polls
  /\ pc = "countdown" => sec > 0
  /\ pc \in {"init", "calibrate", "countdown"} => ~loaded
  /\ pc \in {"init", "calibrate", "countdown"} /\ inTime => Ready
  /\ pc = "countdown" /\ inTime => PollToCome
  /\ inTime => pc # "autoboot" /\ ~loaded

\* Nothing has been typed at power-on.
LEMMA PendingAtStart == Init => KeyIsPending
BY QBootAssumption DEF Init, KeyIsPending

\* A key leaves the console only by Getc, and the countdown's Getc ends it.
LEMMA PendingKept == KeyIsPending /\ [Next]_vars => KeyIsPending'
<1> SUFFICES ASSUME KeyIsPending, [Next]_vars
             PROVE  KeyIsPending'
  OBVIOUS
<1> USE QBootAssumption DEF KeyIsPending, Ready, PollToCome
<1>1. CASE Type
  <2>1. PICK k \in Key :
          input' = IF build = "simulator" /\ input # <<>> THEN input ELSE <<k>>
    BY <1>1 DEF Type
  <2>2. input' # <<>>
    BY <2>1
  <2> QED
    BY <1>1, <2>2 DEF Type
<1>2. CASE Close
  BY <1>2 DEF Close
<1>3. CASE Calibrate
  BY <1>3 DEF Calibrate
<1>4. CASE Poll
  <2>1. CASE Ready
    <3>1. pc' = "shell" /\ sec' = 0 /\ polls' = 0 /\ pc = "countdown"
      BY <1>4, <2>1 DEF Poll
    <3>2. loaded' = loaded /\ ~loaded
      BY <1>4 DEF Poll
    <3> QED
      BY <3>1, <3>2
  <2>2. CASE ~Ready
    BY <1>4, <2>2 DEF Poll
  <2> QED
    BY <2>1, <2>2
<1>5. CASE EndSecond
  <2>1. pc = "countdown" /\ polls = 0 /\ sec' = sec - 1
    BY <1>5 DEF EndSecond, NextSecond
  <2>2. CASE LastSecond
    <3>1. ~inTime
      BY <2>1, <2>2 DEF LastSecond
    <3> QED
      BY <1>5, <2>1, <2>2, <3>1 DEF EndSecond
  <2>3. CASE ~LastSecond
    BY <1>5, <2>1, <2>3 DEF EndSecond, LastSecond
  <2> QED
    BY <2>2, <2>3
<1>6. CASE Autoboot
  BY <1>6 DEF Autoboot
<1>7. CASE SystemReset
  BY <1>7 DEF SystemReset
<1>8. CASE ReadKey
  <2>1. pc = "shell" /\ pc' \in {"shell", "command"}
        /\ UNCHANGED <<sec, polls, inTime, loaded>>
    BY <1>8 DEF ReadKey
  <2> QED
    BY <2>1
<1>9. CASE Command
  <2>1. pc = "command" /\ pc' \in {"stopped", "halted", "shell"}
        /\ UNCHANGED <<sec, polls, inTime, loaded>>
    BY <1>9 DEF Command, OnlyPrints
  <2> QED
    BY <2>1
<1>10. CASE ConsoleInit
  BY <1>10 DEF ConsoleInit
<1>11. CASE UNCHANGED vars
  BY <1>11 DEF vars
<1> QED
  BY <1>1, <1>2, <1>3, <1>4, <1>5, <1>6, <1>7, <1>8, <1>9, <1>10, <1>11
  DEF Next, Main, Over

\* However long the countdown and however its polls fall, a key with a poll
\* still to come keeps main from the autoboot.
THEOREM KeyAlwaysStopsAutoboot == Spec => []KeyStopsAutoboot
<1>1. KeyIsPending => KeyStopsAutoboot
  BY DEF KeyIsPending, KeyStopsAutoboot
<1> QED
  BY <1>1, PendingAtStart, PendingKept, PTL DEF Spec

\* Every step that changes the line changes the screen alike: a key with no
\* room is not echoed, a backspace with no key to take back moves nothing.
THEOREM ScreenAlwaysShowsLine == Spec => []ScreenShowsLine
<1>1. Init => ScreenShowsLine
  BY DEF Init, ScreenShowsLine
<1>2. ScreenShowsLine /\ [Next]_vars => ScreenShowsLine'
  <2> SUFFICES ASSUME screen = line, [Next]_vars
               PROVE  screen' = line'
    BY DEF ScreenShowsLine
  <2>1. CASE ReadKey
    <3>1. PICK k \in Key \cup {EndOfFile} :
            \/ k = Enter /\ UNCHANGED <<line, screen>>
            \/ /\ k = Backspace
               /\ IF line = <<>> THEN UNCHANGED <<line, screen>>
                  ELSE line' = Front(line) /\ screen' = Front(screen)
            \/ line' = (IF Room THEN Append(line, k) ELSE line) /\ Echo(k)
      BY <2>1 DEF ReadKey
    <3> QED
      BY <3>1 DEF Echo
  <2>2. CASE Command
    BY <2>2 DEF Command
  <2>3. CASE UNCHANGED <<line, screen>>
    BY <2>3
  <2> QED
    BY <2>1, <2>2, <2>3
    DEF Next, Main, Over, vars, Type, Close, ConsoleInit, Calibrate, Poll, EndSecond, Autoboot,
        SystemReset
<1> QED
  BY <1>1, <1>2, PTL DEF Spec

(***************************************************************************)
(* The tokenizer, on a text of any length over any characters.             *)
(***************************************************************************)
Arguments(C) ==
  {args \in [argv : Seq(Seq(C)), inWord : BOOLEAN] : args.inWord => args.argv # <<>>}

NoArgs == [argv |-> <<>>, inWord |-> FALSE]

LEMMA TokenTypes ==
  ASSUME NEW C, NEW args \in Arguments(C), NEW c \in C
  PROVE  Token(args, c) \in Arguments(C)
<1>1. /\ args = [argv |-> args.argv, inWord |-> args.inWord]
      /\ args.argv \in Seq(Seq(C)) /\ args.inWord \in BOOLEAN
      /\ args.inWord => args.argv # <<>>
  BY DEF Arguments
<1>2. CASE c = Space
  <2>1. Token(args, c) = [argv |-> args.argv, inWord |-> FALSE]
    BY <1>1, <1>2 DEF Token
  <2> QED
    BY <1>1, <2>1 DEF Arguments
<1>3. CASE c # Space /\ args.inWord
  <2> DEFINE last == Len(args.argv)
             words == [args.argv EXCEPT ![last] = Append(@, c)]
  <2>1. Token(args, c) = [argv |-> words, inWord |-> TRUE]
    BY <1>1, <1>3 DEF Token
  <2>2. last \in 1..Len(args.argv)
    BY <1>1, <1>3
  <2>3. args.argv[last] \in Seq(C)
    BY <1>1, <2>2
  <2>4. words \in Seq(Seq(C)) /\ Len(words) = last
    BY <1>1, <2>2, <2>3
  <2> HIDE DEF words
  <2>5. words # <<>>
    BY <2>2, <2>4
  <2> QED
    BY <2>1, <2>4, <2>5 DEF Arguments
<1>4. CASE c # Space /\ ~args.inWord /\ Len(args.argv) < MaxArgs
  <2> DEFINE words == Append(args.argv, <<c>>)
  <2>1. Token(args, c) = [argv |-> words, inWord |-> TRUE]
    BY <1>4 DEF Token
  <2>2. <<c>> \in Seq(C)
    OBVIOUS
  <2>3. words \in Seq(Seq(C)) /\ Len(words) = Len(args.argv) + 1 /\ Len(args.argv) \in Nat
    BY <1>1, <2>2
  <2> HIDE DEF words
  <2>4. words # <<>>
    BY <2>3
  <2> QED
    BY <2>1, <2>3, <2>4 DEF Arguments
<1>5. CASE c # Space /\ ~args.inWord /\ ~(Len(args.argv) < MaxArgs)
  BY <1>5 DEF Token
<1> QED
  BY <1>1, <1>2, <1>3, <1>4, <1>5

\* The pass, character by character.
Pass(h, C, text) ==
  /\ h \in [0..Len(text) -> Arguments(C)] /\ h[0] = NoArgs
  /\ \A n \in 1..Len(text) : h[n] = Token(h[n-1], text[n])
  /\ Split(text) = h[Len(text)].argv

LEMMA SplitIsAPass ==
  ASSUME NEW C, NEW text \in Seq(C)
  PROVE  \E h : Pass(h, C, text)
<1> DEFINE len == Len(text)
           S   == Arguments(C)
           Equation(h) == h = [n \in 0..len |-> IF n = 0 THEN [argv |-> <<>>, inWord |-> FALSE]
                                                ELSE Token(h[n-1], text[n])]
           next == [k \in 1..len |-> [args \in S |-> Token(args, text[k])]]
<1>1. len \in Nat /\ \A k \in 1..len : text[k] \in C
  OBVIOUS
<1>2. NoArgs \in S
  BY DEF NoArgs, Arguments
<1>3. \A args \in S : \A c \in C : Token(args, c) \in S
  BY TokenTypes
<1> HIDE DEF len, S
<1>4. PICK h : Follows(h, S, NoArgs, len, next)
  <2>1. next \in Steps(S, len)
    BY <1>1, <1>3 DEF Steps
  <2> HIDE DEF next
  <2> QED
    BY <1>1, <1>2, <2>1, Recursion
<1>5. /\ h \in [0..len -> S] /\ h[0] = NoArgs
      /\ \A k \in 1..len : h[k] = Token(h[k-1], text[k])
  <2>1. /\ h \in [0..len -> S] /\ h[0] = NoArgs
        /\ \A k \in 1..len : h[k] = next[k][h[k-1]]
    BY <1>4 DEF Follows
  <2>2. \A k \in 1..len : h[k-1] \in S
    BY <1>1, <2>1
  <2> QED
    BY <2>1, <2>2
<1>6. Equation(h)
  <2>1. \A k \in 0..len : k # 0 => k \in 1..len
    BY <1>1
  <2> QED
    BY <1>5, <2>1 DEF NoArgs
<1> DEFINE pass == CHOOSE f : Equation(f)
<1>7. Equation(pass)
  <2> HIDE DEF Equation
  <2> QED
    BY <1>6
<1>8. Split(text) = pass[len].argv
  BY DEF Split, len
<1> HIDE DEF pass
<1>9. pass[0] = NoArgs /\ \A k \in 1..len : pass[k] = Token(pass[k-1], text[k])
  <2>1. 0 \in 0..len /\ \A k \in 1..len : k \in 0..len /\ k # 0
    BY <1>1
  <2> QED
    BY <1>7, <2>1 DEF NoArgs
<1>10. DOMAIN pass = 0..len /\ pass = [n \in 0..len |-> pass[n]]
  BY <1>7
<1> HIDE DEF Equation
<1> DEFINE Good == {n \in Nat : n <= len => pass[n] \in S}
<1>11. 0 \in Good
  BY <1>2, <1>9
<1>12. ASSUME NEW n \in Nat, n \in Good
       PROVE  n + 1 \in Good
  <2> SUFFICES ASSUME n + 1 <= len
               PROVE  pass[n+1] \in S
    OBVIOUS
  <2>1. n + 1 \in 1..len /\ n + 1 - 1 = n /\ n <= len
    BY <1>1
  <2> QED
    BY <1>1, <1>3, <1>9, <1>12, <2>1
<1>13. \A n \in Nat : n \in Good
  <2> HIDE DEF Good
  <2> QED
    BY <1>11, <1>12, Induction
<1>14. pass \in [0..len -> S]
  BY <1>1, <1>10, <1>13
<1> QED
  BY <1>8, <1>9, <1>14 DEF Pass, len, S

\* The words of a line are sequences of its characters.
LEMMA SplitTypes ==
  ASSUME NEW C, NEW text \in Seq(C)
  PROVE  Split(text) \in Seq(Seq(C))
<1>1. PICK h : Pass(h, C, text)
  BY SplitIsAPass
<1>2. Len(text) \in 0..Len(text)
  OBVIOUS
<1> QED
  BY <1>1, <1>2 DEF Pass, Arguments

(***************************************************************************)
(* The words of a text.                                                    *)
(***************************************************************************)
Started(text, n) == {i \in WordStarts(text) : i <= n}
Place(text, n)   == Cardinality(Started(text, n))

\* Words are counted as they begin.
LEMMA WordsAreCounted ==
  ASSUME NEW C, NEW text \in Seq(C)
  PROVE  /\ WordStarts(text) \subseteq 1..Len(text)
         /\ \A n \in 0..Len(text) : Place(text, n) \in Nat
         /\ Place(text, 0) = 0 /\ Started(text, 0) = {}
         /\ Started(text, Len(text)) = WordStarts(text)
         /\ \A n \in 0..Len(text)-1 :
              /\ n + 1 \in WordStarts(text) =>
                   /\ Place(text, n + 1) = Place(text, n) + 1
                   /\ Started(text, n + 1) = Started(text, n) \cup {n + 1}
              /\ n + 1 \notin WordStarts(text) =>
                   /\ Place(text, n + 1) = Place(text, n)
                   /\ Started(text, n + 1) = Started(text, n)
         /\ \A n \in 0..Len(text) : \A i \in Started(text, n) :
              Place(text, i) \in 1..Place(text, n)
<1> DEFINE starts == WordStarts(text)
<1>1. starts \subseteq 1..Len(text) /\ Len(text) \in Nat
  BY DEF WordStarts
<1> HIDE DEF starts
<1>2. IsFiniteSet(starts)
  <2>1. IsFiniteSet(1..Len(text)) /\ starts \in SUBSET (1..Len(text))
    BY <1>1, FS_Interval
  <2> QED
    BY <2>1, FS_Subset
<1>3. \A n : Started(text, n) \subseteq starts
  BY DEF Started, starts
<1>4. \A n : IsFiniteSet(Started(text, n)) /\ Place(text, n) \in Nat
  BY <1>2, <1>3, FS_Subset, FS_CardinalityType DEF Place
<1>5. Started(text, 0) = {} /\ Place(text, 0) = 0
  <2>1. Started(text, 0) = {}
    BY <1>1 DEF Started, starts
  <2> QED
    BY <2>1, FS_EmptySet DEF Place
<1>6. Started(text, Len(text)) = starts
  BY <1>1 DEF Started, starts
<1>7. ASSUME NEW n \in 0..Len(text)-1
      PROVE  /\ n + 1 \in starts => /\ Place(text, n + 1) = Place(text, n) + 1
                                    /\ Started(text, n + 1) = Started(text, n) \cup {n + 1}
             /\ n + 1 \notin starts => /\ Place(text, n + 1) = Place(text, n)
                                       /\ Started(text, n + 1) = Started(text, n)
  <2>1. \A i \in starts : i \in Nat /\ (i <= n + 1 <=> i <= n \/ i = n + 1)
    BY <1>1
  <2>2. n + 1 \notin Started(text, n)
    BY DEF Started
  <2>3. ASSUME n + 1 \in starts
        PROVE  Started(text, n + 1) = Started(text, n) \cup {n + 1}
    BY <2>1, <2>3 DEF Started, starts
  <2>4. ASSUME n + 1 \notin starts
        PROVE  Started(text, n + 1) = Started(text, n)
    BY <2>1, <2>4 DEF Started, starts
  <2> QED
    BY <1>4, <2>2, <2>3, <2>4, FS_AddElement DEF Place
<1>8. ASSUME NEW n \in 0..Len(text), NEW i \in Started(text, n)
      PROVE  Place(text, i) \in 1..Place(text, n)
  <2>1. i \in starts /\ i \in Nat /\ i <= n
    BY <1>1 DEF Started, starts
  <2>2. Started(text, i) \subseteq Started(text, n)
    BY <1>1, <2>1 DEF Started, starts
  <2>3. Place(text, i) <= Place(text, n)
    BY <1>4, <2>2, FS_Subset DEF Place
  <2>4. i \in Started(text, i)
    BY <2>1 DEF Started, starts
  <2>5. Place(text, i) # 0
    BY <1>4, <2>4, FS_EmptySet DEF Place
  <2> QED
    BY <1>4, <2>3, <2>5
<1> QED
  BY <1>1, <1>4, <1>5, <1>6, <1>7, <1>8 DEF starts

\* What argv holds after n characters of the text: the words that have begun, as
\* far as there is room, all of them ended but perhaps the last.
FoundSoFar(args, text, n) ==
  /\ Len(args.argv) = IF Place(text, n) < MaxArgs THEN Place(text, n) ELSE MaxArgs
  /\ args.inWord <=> n > 0 /\ text[n] # Space /\ Place(text, n) <= MaxArgs
  /\ \A i \in Started(text, n) : Place(text, i) <= MaxArgs =>
       LET word == args.argv[Place(text, i)]
       IN  /\ \A j \in 1..Len(word) : word[j] = text[i+j-1] /\ word[j] # Space
           /\ IF args.inWord /\ Place(text, i) = Place(text, n) THEN i + Len(word) = n + 1
              ELSE i + Len(word) <= n /\ text[i + Len(word)] = Space

\* One character more, whatever it is.
LEMMA TokenGoesOn ==
  ASSUME NEW C, NEW text \in Seq(C), NEW n \in 0..Len(text)-1,
         NEW args \in Arguments(C), FoundSoFar(args, text, n)
  PROVE  FoundSoFar(Token(args, text[n+1]), text, n + 1)
<1> DEFINE c       == text[n+1]
           argv    == args.argv
           next    == Token(args, c)
           found   == Place(text, n)
           nth(i)  == Place(text, i)
           word(i) == argv[nth(i)]
           now(i)  == next.argv[nth(i)]
           Holds(i, w) == \A j \in 1..Len(w) : w[j] = text[i+j-1] /\ w[j] # Space
<1>1. /\ n \in Nat /\ found \in Nat /\ c \in C /\ MaxArgs \in Nat /\ MaxArgs >= 3
      /\ \A i \in Started(text, n) : i \in Nat /\ i <= n /\ i >= 1 /\ nth(i) \in 1..found
  BY WordsAreCounted, QBootAssumption DEF Started
<1>2. /\ args = [argv |-> argv, inWord |-> args.inWord]
      /\ argv \in Seq(Seq(C)) /\ args.inWord \in BOOLEAN
      /\ args.inWord => argv # <<>>
  BY DEF Arguments
<1>3. /\ Len(argv) = IF found < MaxArgs THEN found ELSE MaxArgs
      /\ args.inWord <=> n > 0 /\ text[n] # Space /\ found <= MaxArgs
      /\ \A i \in Started(text, n) : nth(i) <= MaxArgs =>
           /\ Holds(i, word(i))
           /\ args.inWord /\ nth(i) = found => i + Len(word(i)) = n + 1
           /\ ~(args.inWord /\ nth(i) = found) => i + Len(word(i)) <= n /\ text[i + Len(word(i))] = Space
  BY DEF FoundSoFar
<1>4. n + 1 \in WordStarts(text) <=> c # Space /\ (n > 0 => text[n] = Space)
  BY DEF WordStarts
<1>5. \A i \in Started(text, n) : nth(i) <= MaxArgs => nth(i) \in 1..Len(argv) /\ word(i) \in Seq(C)
  <2>1. \A i \in Started(text, n) : nth(i) <= MaxArgs => nth(i) \in 1..Len(argv)
    BY <1>1, <1>3
  <2> QED
    BY <1>2, <2>1
<1>6. /\ n + 1 \in WordStarts(text) =>
           nth(n + 1) = found + 1 /\ Started(text, n + 1) = Started(text, n) \cup {n + 1}
      /\ n + 1 \notin WordStarts(text) =>
           nth(n + 1) = found /\ Started(text, n + 1) = Started(text, n)
  BY WordsAreCounted
<1> HIDE DEF c, argv, next, found, nth, word, now, Holds
<1>7. SUFFICES
        /\ Len(next.argv) = IF nth(n + 1) < MaxArgs THEN nth(n + 1) ELSE MaxArgs
        /\ next.inWord <=> c # Space /\ nth(n + 1) <= MaxArgs
        /\ \A i \in Started(text, n + 1) : nth(i) <= MaxArgs =>
             /\ Holds(i, now(i))
             /\ next.inWord /\ nth(i) = nth(n + 1) => i + Len(now(i)) = n + 2
             /\ ~(next.inWord /\ nth(i) = nth(n + 1)) =>
                  i + Len(now(i)) <= n + 1 /\ text[i + Len(now(i))] = Space
  <2>1. n + 1 > 0 /\ n + 1 + 1 = n + 2
    BY <1>1
  <2> QED
    BY <2>1 DEF FoundSoFar, c, next, nth, now, Holds
<1>8. CASE c = Space
  <2>1. next.argv = argv /\ next.inWord = FALSE
    BY <1>2, <1>8 DEF Token, next, argv
  <2>2. \A i : now(i) = word(i)
    BY <2>1 DEF now, word
  <2>3. nth(n + 1) = found /\ Started(text, n + 1) = Started(text, n)
    BY <1>4, <1>6, <1>8
  <2>4. ASSUME NEW i \in Started(text, n), nth(i) <= MaxArgs
        PROVE  Holds(i, word(i)) /\ i + Len(word(i)) <= n + 1 /\ text[i + Len(word(i))] = Space
    <3>1. CASE args.inWord /\ nth(i) = found
      <4>1. i + Len(word(i)) = n + 1 /\ Holds(i, word(i))
        BY <1>3, <2>4, <3>1
      <4> QED
        BY <1>1, <1>8, <4>1 DEF c
    <3>2. CASE ~(args.inWord /\ nth(i) = found)
      <4>1. Holds(i, word(i)) /\ i + Len(word(i)) <= n /\ text[i + Len(word(i))] = Space
        BY <1>3, <2>4, <3>2
      <4>2. i + Len(word(i)) \in Int
        BY <1>1, <1>5, <2>4
      <4> QED
        BY <1>1, <4>1, <4>2
    <3> QED
      BY <3>1, <3>2
  <2> QED
    BY <1>3, <1>8, <2>1, <2>2, <2>3, <2>4
<1>9. CASE c # Space /\ args.inWord
  <2> DEFINE last == Len(argv)
  <2>1. found <= MaxArgs /\ last = found /\ found \in 1..last
    BY <1>1, <1>2, <1>3, <1>9
  <2>2. nth(n + 1) = found /\ Started(text, n + 1) = Started(text, n)
    BY <1>3, <1>4, <1>6, <1>9
  <2>3. next.inWord = TRUE /\ next.argv = [argv EXCEPT ![last] = Append(@, c)]
    BY <1>2, <1>9 DEF Token, next, argv
  <2>4. Len(next.argv) = last
    BY <1>2, <2>1, <2>3
  <2>5. ASSUME NEW i \in Started(text, n), nth(i) = found
        PROVE  Holds(i, now(i)) /\ i + Len(now(i)) = n + 2
    <3> DEFINE w == word(i)
    <3>1. /\ w \in Seq(C) /\ i + Len(w) = n + 1 /\ Holds(i, w)
      BY <1>3, <1>5, <1>9, <2>1, <2>5
    <3>2. now(i) = Append(w, c)
      BY <1>2, <2>1, <2>3, <2>5 DEF now, word
    <3> HIDE DEF w
    <3>3. Len(now(i)) = Len(w) + 1 /\ Len(w) \in Nat /\ i \in Nat
      BY <1>1, <3>1, <3>2
    <3>4. ASSUME NEW j \in 1..Len(now(i))
          PROVE  now(i)[j] = text[i+j-1] /\ now(i)[j] # Space
      <4>1. CASE j \in 1..Len(w)
        BY <3>1, <3>2, <4>1 DEF Holds
      <4>2. CASE j = Len(w) + 1
        <5>1. now(i)[j] = c /\ i + j - 1 = n + 1
          BY <1>1, <3>1, <3>2, <3>3, <4>2
        <5> QED
          BY <1>9, <5>1 DEF c
      <4> QED
        BY <3>3, <4>1, <4>2
    <3>5. i + Len(now(i)) = n + 2
      <4> DEFINE len == Len(w)
      <4>1. Len(now(i)) = len + 1 /\ len \in Nat /\ i \in Nat /\ i + len = n + 1
        BY <3>1, <3>3
      <4> HIDE DEF len
      <4> QED
        BY <1>1, <4>1
    <3> QED
      BY <3>4, <3>5 DEF Holds
  <2>6. ASSUME NEW i \in Started(text, n), nth(i) <= MaxArgs, nth(i) # found
        PROVE  /\ Holds(i, now(i)) /\ i + Len(now(i)) <= n + 1
               /\ text[i + Len(now(i))] = Space
    <3>1. now(i) = word(i)
      BY <1>2, <1>5, <2>1, <2>3, <2>6 DEF now, word
    <3>2. Holds(i, word(i)) /\ i + Len(word(i)) <= n /\ text[i + Len(word(i))] = Space
      BY <1>3, <2>6
    <3>3. i + Len(word(i)) \in Int
      BY <1>1, <1>5, <2>6
    <3> QED
      BY <1>1, <3>1, <3>2, <3>3
  <2> QED
    BY <1>1, <1>3, <1>9, <2>1, <2>2, <2>3, <2>4, <2>5, <2>6
<1>10. CASE c # Space /\ ~args.inWord /\ Len(argv) < MaxArgs
  <2>1. found < MaxArgs /\ Len(argv) = found
    BY <1>1, <1>3, <1>10
  <2>2. nth(n + 1) = found + 1 /\ Started(text, n + 1) = Started(text, n) \cup {n + 1}
    BY <1>1, <1>3, <1>4, <1>6, <1>10, <2>1
  <2>3. next.inWord = TRUE /\ next.argv = Append(argv, <<c>>)
    BY <1>10 DEF Token, next, argv
  <2>4. Len(next.argv) = found + 1 /\ next.argv[found + 1] = <<c>>
    BY <1>1, <1>2, <2>1, <2>3
  <2>5. ASSUME NEW i \in Started(text, n)
        PROVE  /\ nth(i) # nth(n + 1) /\ Holds(i, now(i)) /\ i + Len(now(i)) <= n + 1
               /\ text[i + Len(now(i))] = Space
    <3>1. nth(i) \in 1..Len(argv) /\ nth(i) <= MaxArgs /\ nth(i) # found + 1
      BY <1>1, <2>1
    <3>2. now(i) = word(i)
      BY <1>2, <2>3, <3>1 DEF now, word
    <3>3. Holds(i, word(i)) /\ i + Len(word(i)) <= n /\ text[i + Len(word(i))] = Space
      BY <1>3, <1>10, <3>1
    <3>4. i + Len(word(i)) \in Int
      BY <1>1, <1>5, <3>1
    <3> QED
      BY <1>1, <2>2, <3>1, <3>2, <3>3, <3>4
  <2>6. now(n + 1) = <<c>>
    BY <2>2, <2>4 DEF now
  <2>7. Holds(n + 1, now(n + 1)) /\ n + 1 + Len(now(n + 1)) = n + 2
    <3>1. Len(<<c>>) = 1 /\ <<c>>[1] = c
      OBVIOUS
    <3>2. ASSUME NEW j \in 1..1
          PROVE  <<c>>[j] = text[n + 1 + j - 1] /\ <<c>>[j] # Space
      <4>1. j = 1 /\ n + 1 + j - 1 = n + 1
        BY <1>1
      <4> QED
        BY <1>10, <3>1, <4>1 DEF c
    <3>3. n + 1 + 1 = n + 2
      BY <1>1
    <3>4. Holds(n + 1, <<c>>)
      BY <3>1, <3>2 DEF Holds
    <3> QED
      BY <2>6, <3>1, <3>3, <3>4
  <2> QED
    BY <1>1, <1>10, <2>1, <2>2, <2>3, <2>4, <2>5, <2>7
<1>11. CASE c # Space /\ ~args.inWord /\ ~(Len(argv) < MaxArgs)
  <2>1. found >= MaxArgs /\ Len(argv) = MaxArgs
    BY <1>1, <1>3, <1>11
  <2>2. next = args
    BY <1>11 DEF Token, next, argv
  <2>3. \A i : now(i) = word(i)
    BY <2>2 DEF now, word, argv
  <2>4. nth(n + 1) > MaxArgs
    BY <1>1, <1>3, <1>4, <1>6, <1>11, <2>1
  <2>5. ASSUME NEW i \in Started(text, n + 1), nth(i) <= MaxArgs
        PROVE  i \in Started(text, n)
    BY <1>1, <1>6, <2>4, <2>5
  <2>6. ASSUME NEW i \in Started(text, n), nth(i) <= MaxArgs
        PROVE  Holds(i, word(i)) /\ i + Len(word(i)) <= n + 1 /\ text[i + Len(word(i))] = Space
    <3>1. Holds(i, word(i)) /\ i + Len(word(i)) <= n /\ text[i + Len(word(i))] = Space
      BY <1>3, <1>11, <2>6
    <3>2. i + Len(word(i)) \in Int
      BY <1>1, <1>5, <2>6
    <3> QED
      BY <1>1, <3>1, <3>2
  <2>7. Len(next.argv) = MaxArgs /\ ~next.inWord
    BY <1>11, <2>1, <2>2 DEF argv
  <2>8. ~(nth(n + 1) < MaxArgs) /\ ~(nth(n + 1) <= MaxArgs)
    BY <1>1, <1>6, <2>4
  <2> QED
    BY <2>3, <2>5, <2>6, <2>7, <2>8
<1> QED
  BY <1>2, <1>8, <1>9, <1>10, <1>11

\* All of a text: the words it has, as many as argv has room for.
LEMMA SplitIsWords ==
  ASSUME NEW C, NEW text \in Seq(C)
  PROVE  /\ Len(Split(text)) = IF Cardinality(WordStarts(text)) < MaxArgs
                              THEN Cardinality(WordStarts(text)) ELSE MaxArgs
         /\ \A i \in WordStarts(text) : Place(text, i) <= MaxArgs =>
              IsWord(Split(text)[Place(text, i)], text, i)
<1> DEFINE len == Len(text)
<1>1. PICK h : Pass(h, C, text)
  BY SplitIsAPass
<1>2. len \in Nat
  OBVIOUS
<1>3. /\ h \in [0..len -> Arguments(C)] /\ h[0] = NoArgs
      /\ \A n \in 1..len : h[n] = Token(h[n-1], text[n])
      /\ Split(text) = h[len].argv
  BY <1>1 DEF Pass
<1> DEFINE Good == {n \in Nat : n <= len => FoundSoFar(h[n], text, n)}
<1>4. 0 \in Good
  <2>1. Place(text, 0) = 0 /\ Started(text, 0) = {} /\ 0 < MaxArgs
    BY WordsAreCounted, QBootAssumption
  <2>2. Len(NoArgs.argv) = 0 /\ NoArgs.inWord = FALSE
    BY DEF NoArgs
  <2>3. FoundSoFar(NoArgs, text, 0)
    BY <2>1, <2>2 DEF FoundSoFar
  <2> QED
    BY <1>3, <2>3
<1>5. ASSUME NEW n \in Nat, n \in Good
      PROVE  n + 1 \in Good
  <2> SUFFICES ASSUME n + 1 <= len
               PROVE  FoundSoFar(h[n+1], text, n+1)
    OBVIOUS
  <2>1. n + 1 \in 1..len /\ n + 1 - 1 = n /\ n \in 0..len-1 /\ n \in 0..len /\ n <= len
    BY <1>2
  <2>2. h[n+1] = Token(h[n], text[n+1]) /\ h[n] \in Arguments(C)
    BY <1>3, <2>1
  <2>3. FoundSoFar(h[n], text, n)
    BY <1>5, <2>1
  <2> QED
    BY <2>1, <2>2, <2>3, TokenGoesOn
<1>6. FoundSoFar(h[len], text, len)
  <2> HIDE DEF Good
  <2>1. len \in Good
    BY <1>2, <1>4, <1>5, Induction
  <2> QED
    BY <1>2, <2>1 DEF Good
<1> DEFINE argv == Split(text)
<1>7. argv \in Seq(Seq(C)) /\ argv = h[len].argv
  BY <1>3, SplitTypes
<1>8. /\ Started(text, len) = WordStarts(text)
      /\ Place(text, len) = Cardinality(WordStarts(text)) /\ Place(text, len) \in Nat
      /\ \A i \in WordStarts(text) : i \in 1..len /\ Place(text, i) \in 1..Place(text, len)
  BY <1>2, WordsAreCounted DEF Place
<1>9. Len(argv) = IF Place(text, len) < MaxArgs THEN Place(text, len) ELSE MaxArgs
  BY <1>6, <1>7 DEF FoundSoFar
<1> HIDE DEF argv, len
<1>10. ASSUME NEW i \in WordStarts(text), Place(text, i) <= MaxArgs
       PROVE  IsWord(argv[Place(text, i)], text, i)
  <2> DEFINE word == argv[Place(text, i)]
  <2>1. word \in Seq(C)
    <3>1. Place(text, i) \in 1..Len(argv)
      BY <1>8, <1>9, <1>10, QBootAssumption
    <3> QED
      BY <1>7, <3>1
  <2>2. /\ \A j \in 1..Len(word) : word[j] = text[i+j-1] /\ word[j] # Space
        /\ \/ i + Len(word) = len + 1
           \/ i + Len(word) <= len /\ text[i + Len(word)] = Space
    BY <1>6, <1>7, <1>8, <1>10 DEF FoundSoFar
  <2> HIDE DEF word
  <2>3. Len(word) \in Nat /\ i \in 1..len /\ i + Len(word) - 1 <= len
    BY <1>2, <1>8, <2>1, <2>2
  <2>4. word = SubSeq(text, i, i + Len(word) - 1)
    <3> DEFINE sub == SubSeq(text, i, i + Len(word) - 1)
    <3>1. sub \in Seq(C) /\ Len(sub) = Len(word) /\ \A j \in 1..Len(word) : sub[j] = text[i+j-1]
      BY <1>2, <2>3 DEF len
    <3> HIDE DEF sub
    <3>2. \A j \in 1..Len(word) : sub[j] = word[j]
      BY <2>2, <3>1
    <3>3. word = sub
      BY <2>1, <3>1, <3>2, SeqEqual
    <3> QED
      BY <3>3 DEF sub
  <2>5. i + Len(word) <= len => text[i + Len(word)] = Space
    BY <1>2, <2>2, <2>3
  <2> QED
    BY <2>2, <2>4, <2>5 DEF IsWord, word, len
<1> QED
  BY <1>8, <1>9, <1>10 DEF argv, len

\* A text ends at its first byte 0 or at its end.
LEMMA CStringIsText ==
  ASSUME NEW C, NEW text \in Seq(C)
  PROVE  CString(text) \in Seq(C)
<1> DEFINE len     == Len(text)
           Free(n) == \A i \in 1..n : text[i] # Nul
           End(n)  == Free(n) /\ (n < len => text[n+1] = Nul)
           Good    == {n \in Nat : n <= len => Free(n) \/ \E m \in 0..len : End(m)}
<1>1. len \in Nat
  OBVIOUS
<1>2. 0 \in Good
  OBVIOUS
<1>3. ASSUME NEW n \in Nat, n \in Good
      PROVE  n + 1 \in Good
  <2> SUFFICES ASSUME n + 1 <= len, ~(\E m \in 0..len : End(m))
               PROVE  Free(n + 1)
    OBVIOUS
  <2>1. n \in 0..len /\ n < len
    BY <1>1
  <2>2. Free(n)
    BY <1>3, <2>1
  <2>3. text[n+1] # Nul
    BY <2>1, <2>2
  <2>4. \A i \in 1..n+1 : i \in 1..n \/ i = n + 1
    OBVIOUS
  <2> QED
    BY <2>2, <2>3, <2>4
<1>4. \E m \in 0..len : End(m)
  <2>1. len \in Good
    <3> HIDE DEF Good
    <3> QED
      BY <1>1, <1>2, <1>3, Induction
  <2>2. Free(len) => End(len)
    BY <1>1
  <2>3. len \in 0..len /\ len <= len
    BY <1>1
  <2> QED
    BY <2>1, <2>2, <2>3
<1> DEFINE end == CHOOSE n \in 0..len : End(n)
<1>5. end \in 0..len
  <2> HIDE DEF End
  <2> QED
    BY <1>4
<1>6. CString(text) = SubSeq(text, 1, end)
  BY DEF CString
<1> HIDE DEF end
<1> QED
  BY <1>5, <1>6, SubSeqProperties

\* The words of a line are sequences of its characters.
LEMMA ArgvTypes ==
  ASSUME NEW C, NEW text \in Seq(C)
  PROVE  Argv(text) \in Seq(Seq(C))
BY CStringIsText, SplitTypes DEF Argv

(***************************************************************************)
(* The types, with the line's length and the variables' values within      *)
(* their bounds, and what the tokenizer makes of the line.                 *)
(***************************************************************************)
\* A value is cut to what a variable can hold.
LEMMA SetenvTypes ==
  ASSUME TypeOK, NEW argv \in Seq(Seq(Character)), Setenv(argv)
  PROVE  /\ env' \in [Variable -> Seq(Character)]
         /\ \A v \in Variable : Len(env'[v]) <= MaxValue
<1> DEFINE long(s) == IF Len(s) < MaxValue THEN Len(s) ELSE MaxValue
           value == SubSeq(argv[3], 1, long(argv[3]))
<1>1. env \in [Variable -> Seq(Character)] /\ \A v \in Variable : Len(env[v]) <= MaxValue
  BY DEF TypeOK, Character
<1>2. ASSUME Len(argv) > 2
      PROVE  value \in Seq(Character) /\ Len(value) <= MaxValue
  <2>1. argv[3] \in Seq(Character)
    <3>1. 3 \in 1..Len(argv)
      BY <1>2
    <3> QED
      BY <3>1
  <2>2. long(argv[3]) \in Nat /\ long(argv[3]) <= Len(argv[3]) /\ long(argv[3]) <= MaxValue
    BY <2>1, QBootAssumption
  <2> HIDE DEF long
  <2>3. Len(value) = long(argv[3])
    BY <2>1, <2>2
  <2>4. \A k \in 1..long(argv[3]) : k \in 1..Len(argv[3])
    BY <2>1, <2>2
  <2>5. value \in Seq(Character)
    BY <2>1, <2>2, <2>4
  <2> QED
    BY <2>2, <2>3, <2>5
<1>3. env' = [v \in Variable |-> IF Len(argv) > 2 /\ argv[2] = v THEN value ELSE env[v]]
  BY DEF Setenv
<1> HIDE DEF value
<1> QED
  BY <1>1, <1>2, <1>3

LEMMA TypesKept == TypeOK /\ KeyIsPending /\ [Next]_vars => TypeOK'
<1> SUFFICES ASSUME TypeOK, KeyIsPending, [Next]_vars
             PROVE  TypeOK'
  OBVIOUS
<1> USE QBootAssumption
<1>1. CASE Type
  <2>1. PICK k \in Key :
          input' = IF build = "simulator" /\ input # <<>> THEN input ELSE <<k>>
    BY <1>1 DEF Type
  <2>2. <<k>> \in Seq(Key) /\ Len(<<k>>) = 1
    OBVIOUS
  <2>3. input' \in Seq(Key) /\ Len(input') <= 1
    BY <2>1, <2>2 DEF TypeOK
  <2>4. inTime' \in BOOLEAN
    BY <1>1 DEF Type, PollToCome, TypeOK
  <2> QED
    BY <1>1, <2>3, <2>4 DEF Type, TypeOK
<1>2. CASE Close
  BY <1>2 DEF Close, TypeOK, PollToCome
<1>3. CASE Calibrate
  BY <1>3 DEF Calibrate, TypeOK
<1>4. ASSUME NEW k, Getc(k)
      PROVE  input' \in Seq(Key) /\ Len(input') <= 1
  <2>1. input' = <<>> \/ input' = input
    BY <1>4 DEF Getc
  <2>2. <<>> \in Seq(Key) /\ Len(<<>>) = 0
    OBVIOUS
  <2>3. input \in Seq(Key) /\ Len(input) <= 1
    BY DEF TypeOK
  <2>4. CASE input' = <<>>
    <3>1. Len(input') = 0
      BY <2>2, <2>4
    <3> QED
      BY <2>2, <2>4, <3>1
  <2>5. CASE input' = input
    BY <2>3, <2>5
  <2> QED
    BY <2>1, <2>4, <2>5
<1>5. CASE Poll
  <2>1. CASE Ready
    <3>1. input' \in Seq(Key) /\ Len(input') <= 1
      BY <1>4, <1>5, <2>1 DEF Poll
    <3>2. sec' \in 0..Seconds /\ polls' \in 0..Polls /\ pc' = "shell"
      BY <1>5, <2>1 DEF Poll
    <3> QED
      BY <1>5, <3>1, <3>2 DEF Poll, TypeOK
  <2>2. CASE ~Ready
    <3>1. polls' \in 0..Polls
      BY <1>5, <2>2 DEF Poll, TypeOK
    <3> QED
      BY <1>5, <2>2, <3>1 DEF Poll, TypeOK
  <2> QED
    BY <2>1, <2>2
<1>6. CASE EndSecond
  <2>1. sec' \in 0..Seconds
    BY <1>6 DEF EndSecond, NextSecond, KeyIsPending, TypeOK
  <2>2. polls' \in 0..Polls /\ pc' \in {"autoboot", "countdown"}
    BY <1>6 DEF EndSecond, TypeOK
  <2> QED
    BY <1>6, <2>1, <2>2 DEF EndSecond, TypeOK
<1>7. CASE Autoboot
  BY <1>7 DEF Autoboot, TypeOK
<1>8. CASE SystemReset
  BY <1>8 DEF SystemReset, TypeOK
<1>9. CASE ConsoleInit
  BY <1>9 DEF ConsoleInit, TypeOK
<1>10. CASE ReadKey
  <2>1. PICK k \in Key \cup {EndOfFile} :
          /\ Getc(k)
          /\ \/ k = Enter /\ pc' = "command" /\ UNCHANGED <<line, screen>>
             \/ /\ k = Backspace /\ UNCHANGED pc
                /\ IF line = <<>> THEN UNCHANGED <<line, screen>>
                   ELSE line' = Front(line) /\ screen' = Front(screen)
             \/ /\ k \notin {Enter, Backspace} /\ UNCHANGED pc
                /\ line' = IF Room THEN Append(line, k) ELSE line
                /\ Echo(k)
    BY <1>10 DEF ReadKey
  <2>2. input' \in Seq(Key) /\ Len(input') <= 1
    BY <1>4, <2>1
  <2>3. line \in Seq(Character) /\ Len(line) < MaxLine
    BY DEF TypeOK, Character
  <2>4. line' \in Seq(Character) /\ Len(line') < MaxLine
    <3>1. CASE line' = line
      BY <2>3, <3>1
    <3>2. CASE line # <<>> /\ line' = Front(line)
      <4>1. Front(line) = SubSeq(line, 1, Len(line) - 1) /\ Len(line) \in Nat \ {0}
        BY <2>3, <3>2 DEF Front
      <4> DEFINE last == Len(line) - 1
      <4>2. last \in Nat /\ last < Len(line) /\ 1 \in 1..Len(line)
        BY <4>1
      <4> HIDE DEF last
      <4>3. Len(SubSeq(line, 1, last)) = last
        BY <2>3, <4>2
      <4>4. SubSeq(line, 1, last) \in Seq(Character)
        BY <2>3, <4>2, SubSeqProperties
      <4> QED
        BY <2>3, <3>2, <4>1, <4>2, <4>3, <4>4 DEF last
    <3>3. CASE k \notin {Enter, Backspace} /\ Room /\ line' = Append(line, k)
      <4>1. k \in Character
        BY <3>3 DEF Character, Key
      <4> QED
        BY <2>3, <3>3, <4>1 DEF Room
    <3> QED
      BY <2>1, <3>1, <3>2, <3>3
  <2>5. pc' \in {"shell", "command"}
    BY <1>10, <2>1 DEF ReadKey
  <2> QED
    BY <1>10, <2>2, <2>4, <2>5 DEF ReadKey, TypeOK, Character
<1>11. CASE Command
  <2> DEFINE argv == Argv(line)
  <2>1. argv \in Seq(Seq(Character))
    BY ArgvTypes DEF TypeOK, Character
  <2> HIDE DEF argv
  <2>2. \/ Setenv(argv) /\ UNCHANGED asked
        \/ UNCHANGED env /\ asked' \in {asked, "boot", "reset"}
    BY <1>11 DEF Command, OnlyPrints, argv
  <2>3. /\ env' \in [Variable -> Seq(Character)] /\ \A v \in Variable : Len(env'[v]) <= MaxValue
        /\ asked' \in {"nothing", "boot", "reset"}
    BY <2>1, <2>2, SetenvTypes DEF TypeOK, Character
  <2>4. line' = <<>> /\ <<>> \in Seq(Character) /\ Len(<<>>) = 0
    BY <1>11 DEF Command
  <2>5. pc' \in {"stopped", "halted", "shell"}
    BY <1>11 DEF Command, OnlyPrints
  <2>6. UNCHANGED <<build, sec, polls, input, closed, rating, inTime, loaded>>
    BY <1>11 DEF Command
  <2> QED
    BY <2>3, <2>4, <2>5, <2>6 DEF TypeOK, Character
<1>12. CASE UNCHANGED vars
  BY <1>12 DEF vars, TypeOK
<1> QED
  BY <1>1, <1>2, <1>3, <1>5, <1>6, <1>7, <1>8, <1>9, <1>10, <1>11, <1>12 DEF Next, Main, Over

\* The line stays within its buffer, a value within its variable, the countdown
\* within its bounds.
THEOREM QBootTypes == Spec => []TypeOK
<1>1. Init => TypeOK
  <2>1. \A S : <<>> \in Seq(S) /\ Len(<<>>) = 0
    OBVIOUS
  <2> SUFFICES ASSUME Init
               PROVE  TypeOK
    OBVIOUS
  <2>2. /\ input \in Seq(Key) /\ Len(input) <= 1
        /\ line \in Seq(Character) /\ Len(line) < MaxLine
    BY <2>1, QBootAssumption DEF Init
  <2>3. env \in [Variable -> Seq(Character)] /\ \A v \in Variable : Len(env[v]) <= MaxValue
    <3>1. Unset \in Seq(Character) /\ Len(Unset) <= MaxValue
      BY <2>1, QBootAssumption DEF Unset
    <3> QED
      BY <3>1 DEF Init
  <2>4. sec \in 0..Seconds /\ polls \in 0..Polls
    BY QBootAssumption DEF Init
  <2> QED
    BY <2>2, <2>3, <2>4 DEF Init, TypeOK, Character
<1> QED
  BY <1>1, TypesKept, PendingAtStart, PendingKept, PTL DEF Spec

\* Whatever line is entered, the words a command gets are those of the line, as
\* many as argv has room for, with blanks wherever they are.
THEOREM ArgvAlwaysAreWords == Spec => []ArgvAreWords
<1>1. TypeOK => ArgvAreWords
  <2> SUFFICES ASSUME TypeOK
               PROVE  ArgvAreWords
    OBVIOUS
  <2>1. line \in Seq(Character)
    BY DEF TypeOK, Character
  <2> QED
    BY <2>1, CStringIsText, SplitIsWords DEF ArgvAreWords, Argv, Place, Started
<1> QED
  BY <1>1, QBootTypes, PTL

(***************************************************************************)
(* The copied descriptors.                                                 *)
(***************************************************************************)
Unit       == Nat \X Nat
Array(max) == [0..max*Header+3 -> Unit]

\* After n descriptors: the first n headers stand, and behind the place of the
\* n-th header there is just the rest of its descriptor.
CopiedSoFar(memory, list, n) ==
  /\ \A i \in 1..n : \A unit \in 0..Header-1 : memory[At(i) + unit] = <<i, unit>>
  /\ \A unit \in DOMAIN memory : unit >= n * Header =>
       (memory[unit] # Nothing <=> n > 0 /\ unit - At(n) < Size(list[n]))

\* The memory keeps its extent.
LEMMA CopyStays ==
  ASSUME NEW list, NEW max \in Nat, NEW i \in Nat, NEW memory \in Array(max)
  PROVE  Copy(memory, list, i) \in Array(max)
<1> DEFINE space == 0..max*Header+3
<1>1. DOMAIN memory = space /\ memory \in [space -> Unit]
  BY DEF Array
<1>2. Size(list[i]) \in Nat
  BY DEF Size, Header
<1> HIDE DEF space
<1>3. \A unit : unit - At(i) \in 0..Size(list[i])-1 => <<i, unit - At(i)>> \in Unit
  BY <1>2 DEF Unit
<1>4. Copy(memory, list, i) \in [space -> Unit]
  BY <1>1, <1>3 DEF Copy
<1> QED
  BY <1>4 DEF Array, space

\* The next descriptor covers what is left of the one before, for no descriptor
\* is as long as two headers, and nothing of the headers before it.
LEMMA CopyGoesOn ==
  ASSUME NEW list, NEW max \in Nat, NEW n \in Nat, n < max,
         NEW memory \in Array(max), CopiedSoFar(memory, list, n)
  PROVE  /\ Copy(memory, list, n + 1) \in Array(max)
         /\ CopiedSoFar(Copy(memory, list, n + 1), list, n + 1)
<1> DEFINE copy == Copy(memory, list, n + 1)
           space == 0..max*Header+3
           size(i) == Size(list[i])
           here(unit) == unit - At(n+1) \in 0..size(n+1)-1
<1>1. DOMAIN memory = space /\ memory \in [space -> Unit]
  BY DEF Array
<1>2. \A i : size(i) \in Nat /\ Header <= size(i) /\ size(i) <= 2 * Header
  BY DEF Size, Header
<1>3. /\ At(n+1) = n * Header /\ n * Header \in Nat /\ At(n) = n * Header - Header
      /\ (n + 1) * Header = n * Header + Header /\ At(n+1) \in Nat /\ At(n) \in Int
      /\ max * Header \in Nat /\ (n + 1) * Header <= max * Header
  BY DEF At, Header
<1>4. /\ DOMAIN copy = space
      /\ \A unit \in space : copy[unit] = IF here(unit) THEN <<n + 1, unit - At(n+1)>>
                                                        ELSE memory[unit]
  BY <1>1 DEF Copy
<1> HIDE DEF copy, space, size
<1>5. copy \in Array(max)
  BY CopyStays DEF copy
<1>6. ASSUME NEW i \in 1..n+1, NEW unit \in 0..Header-1
      PROVE  copy[At(i) + unit] = <<i, unit>>
  <2> DEFINE place == At(i) + unit
             apart == place - At(n+1)
  <2>1. place \in space
    BY <1>3 DEF At, Header, space
  <2>2. CASE i = n + 1
    <3>1. apart = unit
      BY <2>2 DEF At, Header
    <3>2. size(n+1) \in Nat /\ 7 <= size(n+1) /\ unit \in 0..6
      BY <1>2 DEF Header
    <3> HIDE DEF apart
    <3>3. apart \in 0..size(n+1)-1
      BY <3>1, <3>2
    <3>4. here(place)
      BY <3>3 DEF apart
    <3> HIDE DEF place, here
    <3>5. copy[place] = <<n + 1, apart>>
      BY <1>4, <2>1, <3>4 DEF apart
    <3> QED
      BY <2>2, <3>1, <3>5 DEF place
  <2>3. CASE i # n + 1
    <3>1. i \in 1..n
      BY <2>3
    <3>2. apart \in Int /\ apart < 0
      BY <3>1 DEF At, Header
    <3> HIDE DEF apart
    <3>3. apart \notin 0..size(n+1)-1
      BY <3>2
    <3>4. ~here(place)
      BY <3>3 DEF apart
    <3>5. memory[place] = <<i, unit>>
      BY <3>1 DEF CopiedSoFar
    <3> HIDE DEF place, here
    <3> QED
      BY <1>4, <2>1, <3>4, <3>5 DEF place
  <2> QED
    BY <2>2, <2>3
<1>7. ASSUME NEW unit \in space, unit >= (n + 1) * Header
      PROVE  copy[unit] # Nothing <=> unit - At(n+1) < size(n+1)
  <2>1. unit \in Nat /\ unit >= n * Header /\ unit - At(n+1) >= 0
    BY <1>3, <1>7 DEF space, Header
  <2>2. CASE unit - At(n+1) < size(n+1)
    <3>1. here(unit)
      BY <1>2, <1>3, <2>1, <2>2
    <3>2. copy[unit] = <<n + 1, unit - At(n+1)>>
      BY <1>4, <3>1
    <3> QED
      BY <2>2, <3>2 DEF Nothing
  <2>3. CASE ~(unit - At(n+1) < size(n+1))
    <3>1. ~here(unit)
      BY <1>2, <1>3, <2>1, <2>3
    <3>2. copy[unit] = memory[unit]
      BY <1>4, <3>1
    <3>3. unit - At(n) >= size(n)
      BY <1>2, <1>3, <1>7, <2>1 DEF Header
    <3>4. ~(unit - At(n) < size(n))
      BY <1>2, <1>3, <2>1, <3>3
    <3>5. memory[unit] = Nothing
      BY <1>1, <2>1, <3>4 DEF CopiedSoFar, size
    <3> QED
      BY <2>3, <3>2, <3>5
  <2> QED
    BY <2>2, <2>3
<1>8. n + 1 > 0
  OBVIOUS
<1>9. CopiedSoFar(copy, list, n + 1)
  BY <1>4, <1>6, <1>7, <1>8 DEF CopiedSoFar, size
<1> QED
  BY <1>5, <1>9 DEF copy

\* What get_descriptors leaves in memory, for lists and arrays of any length.
LEMMA CopiedIsKnown ==
  ASSUME NEW list, Len(list) \in Nat, NEW max \in Nat
  PROVE  /\ Copied(list, max) \in Array(max)
         /\ CopiedSoFar(Copied(list, max), list, Count(list, max))
<1> DEFINE count == Count(list, max)
           first == [unit \in 0..max*Header+3 |-> Nothing]
           S     == Array(max)
           Equation(h) == h = [n \in 0..count |-> IF n = 0 THEN first
                                                  ELSE Copy(h[n-1], list, Order(count)[n])]
           next  == [k \in 1..count |-> [memory \in S |-> Copy(memory, list, k)]]
<1>1. count \in Nat /\ count <= max /\ count <= Len(list)
  BY DEF Count
<1>2. first \in S
  BY DEF Array, Unit, Nothing
<1> HIDE DEF count, first, S
<1>3. \A k \in 1..count : Order(count)[k] = k /\ k \in Nat
  BY <1>1 DEF Order
<1>4. \A k \in Nat : \A memory \in S : Copy(memory, list, k) \in S
  BY CopyStays DEF S
<1>5. PICK h : Follows(h, S, first, count, next)
  <2>1. next \in Steps(S, count)
    BY <1>3, <1>4 DEF Steps
  <2> HIDE DEF next
  <2> QED
    BY <1>1, <1>2, <2>1, Recursion
<1>6. /\ h \in [0..count -> S] /\ h[0] = first
      /\ \A k \in 1..count : h[k] = Copy(h[k-1], list, k)
  <2>1. /\ h \in [0..count -> S] /\ h[0] = first
        /\ \A k \in 1..count : h[k] = next[k][h[k-1]]
    BY <1>5 DEF Follows
  <2>2. \A k \in 1..count : h[k-1] \in S
    BY <1>1, <2>1
  <2> QED
    BY <2>1, <2>2
<1>7. Equation(h)
  <2>1. \A k \in 0..count : k # 0 => k \in 1..count
    BY <1>1
  <2> QED
    BY <1>3, <1>6, <2>1
<1> DEFINE memory == CHOOSE f : Equation(f)
<1>8. Equation(memory)
  <2> HIDE DEF Equation
  <2> QED
    BY <1>7
<1>9. Copied(list, max) = memory[count]
  BY DEF Copied, count, first
<1> HIDE DEF memory
<1>10. /\ memory[0] = first
       /\ \A k \in 1..count : memory[k] = Copy(memory[k-1], list, k)
  BY <1>1, <1>3, <1>8
<1> HIDE DEF Equation
<1> DEFINE Good == {n \in Nat : n <= count => memory[n] \in S /\ CopiedSoFar(memory[n], list, n)}
<1>11. 0 \in Good
  <2>1. CopiedSoFar(first, list, 0)
    BY DEF CopiedSoFar, first
  <2> QED
    BY <1>2, <1>10, <2>1
<1>12. ASSUME NEW n \in Nat, n \in Good
       PROVE  n + 1 \in Good
  <2> SUFFICES ASSUME n + 1 <= count
               PROVE  memory[n+1] \in S /\ CopiedSoFar(memory[n+1], list, n+1)
    OBVIOUS
  <2>1. n + 1 \in 1..count /\ n + 1 - 1 = n /\ n <= count /\ n < max
    BY <1>1
  <2>2. memory[n+1] = Copy(memory[n], list, n + 1)
    BY <1>10, <2>1
  <2>3. memory[n] \in S /\ CopiedSoFar(memory[n], list, n)
    BY <1>12, <2>1
  <2> QED
    BY <2>1, <2>2, <2>3, CopyGoesOn DEF S
<1>13. count \in Good
  <2> HIDE DEF Good
  <2> QED
    BY <1>1, <1>11, <1>12, Induction
<1> QED
  BY <1>1, <1>9, <1>13 DEF S, count

\* In a list and an array of any length every header stands, and the array is
\* left exactly when it is full and its last descriptor longer than a header.
THEOREM HeadersAlwaysStand ==
  ASSUME NEW list, Len(list) \in Nat, NEW max \in Nat
  PROVE  HeadersStand(list, max)
<1> DEFINE count  == Count(list, max)
           memory == Copied(list, max)
           size(i) == Size(list[i])
<1>1. /\ count \in Nat /\ count <= max /\ count <= Len(list)
      /\ count = max \/ (count = Len(list) /\ count < max)
  <2>1. CASE max < Len(list)
    BY <2>1 DEF Count
  <2>2. CASE ~(max < Len(list))
    BY <2>2 DEF Count
  <2> QED
    BY <2>1, <2>2
<1>2. memory \in Array(max) /\ CopiedSoFar(memory, list, count)
  BY CopiedIsKnown
<1>3. \A i : size(i) \in Nat /\ size(i) \in {Header, Header + 4}
  BY DEF Size, Header
<1> HIDE DEF count, memory, size
<1>4. ASSUME NEW i \in 1..count
      PROVE  Shown(list, max, i) = [unit \in 0..Header-1 |-> <<i, unit>>]
  BY <1>2 DEF Shown, CopiedSoFar, memory
<1>5. Overruns(list, max) <=>
        \E unit \in 0..max*Header+3 : unit >= max * Header /\ count > 0 /\ unit - At(count) < size(count)
  <2>1. DOMAIN memory = 0..max*Header+3
    BY <1>2 DEF Array
  <2>2. \A unit \in 0..max*Header+3 : unit >= max * Header => unit >= count * Header
    BY <1>1 DEF Header
  <2> QED
    BY <1>2, <2>1, <2>2 DEF Overruns, CopiedSoFar, memory, size
<1>6. (\E unit \in 0..max*Header+3 : unit >= max * Header /\ count > 0 /\ unit - At(count) < size(count))
        <=> max \in 1..Len(list) /\ size(max) > Header
  <2>1. CASE max \in 1..Len(list)
    <3>1. count = max /\ At(max) = max * Header - Header /\ max * Header \in Nat
      BY <1>1, <2>1 DEF At, Header
    <3>2. ASSUME size(max) > Header
          PROVE  max * Header \in 0..max*Header+3 /\ max * Header - At(max) < size(max)
      BY <1>3, <3>1, <3>2 DEF Header
    <3>3. ASSUME NEW unit \in 0..max*Header+3, unit >= max * Header, unit - At(max) < size(max)
          PROVE  size(max) > Header
      BY <1>3, <3>1, <3>3 DEF Header
    <3> QED
      BY <2>1, <3>1, <3>2, <3>3
  <2>2. CASE max \notin 1..Len(list)
    <3>1. count = 0 \/ count < max
      BY <1>1, <2>2
    <3>2. ASSUME NEW unit \in 0..max*Header+3, unit >= max * Header, count > 0, unit - At(count) < size(count)
          PROVE  FALSE
      BY <1>1, <1>3, <3>1, <3>2 DEF At, Header
    <3> QED
      BY <2>2, <3>2
  <2> QED
    BY <2>1, <2>2
<1> QED
  BY <1>4, <1>5, <1>6 DEF HeadersStand, count, size

\* Whatever devices a system has and however much room info gives them, it
\* shows every device as its header says.
THEOREM InfoAlwaysShowsDevices == Spec => []InfoShowsDevices
<1>1. InfoShowsDevices
  <2>1. ASSUME NEW n \in 0..3, NEW list \in [1..n -> {"SCF", "RBF", "NFM"}], NEW max \in 0..4
        PROVE  HeadersStand(list, max)
    <3>1. Len(list) \in Nat /\ max \in Nat
      OBVIOUS
    <3> QED
      BY <3>1, HeadersAlwaysStand
  <2> QED
    BY <2>1 DEF InfoShowsDevices
<1> QED
  BY <1>1, PTL

(***************************************************************************)
(* From power-on: what is proved of stage 2 also holds of the keys that    *)
(* come while stage 1 still runs, and when it does not reach main.         *)
(***************************************************************************)

\* A step from power-on is a step of stage 2 or leaves it alone.
LEMMA PowerImplementsQBoot == PowerSpec => Spec
<1>1. PowerInit => Init
  BY DEF PowerInit
<1>2. [PowerNext]_<<vars, bootVars>> => [Next]_vars
  BY DEF PowerNext, Startup, Run, Shell, User, Next
<1> QED
  BY <1>1, <1>2, PTL DEF PowerSpec, Spec

\* A key pressed in time, even before stage 1 is over, keeps main from the
\* autoboot.
THEOREM KeyAtPowerOnStopsAutoboot == PowerSpec => []KeyStopsAutoboot
BY PowerImplementsQBoot, KeyAlwaysStopsAutoboot, PTL

\* So does everything else that is proved of stage 2.
THEOREM StageTwoFromPowerOn ==
  PowerSpec => [](TypeOK /\ ScreenShowsLine /\ ArgvAreWords /\ InfoShowsDevices)
BY PowerImplementsQBoot, QBootTypes, ScreenAlwaysShowsLine, ArgvAlwaysAreWords,
   InfoAlwaysShowsDevices, PTL
=============================================================================
