---------------------------- MODULE DhfPathsProofs ----------------------------
(***************************************************************************)
(* What holds of the driver's path operations for every tree of files,     *)
(* every set of names and every base path.  For what happens to files it   *)
(* is enough that each call which changes one has passed it through        *)
(* Confined; for the meaning of the base path the lookup before the call   *)
(* is compared with the lookup after it, component by component.           *)
(***************************************************************************)
EXTENDS DhfPaths, WellFoundedInduction, TLAPS

(***************************************************************************)
(* Recursion.  The library's induction takes an operator; a set serves as  *)
(* well, and is within the reach of the provers.                           *)
(***************************************************************************)
Before == {p \in Nat \X Nat : p[1] < p[2]}

LEMMA BeforeIsWellFounded == IsWellFoundedOn(Before, Nat)
  BY NatLessThanWellFounded DEF OpToRel, Before

LEMMA Induction ==
  ASSUME NEW A, 0 \in A, \A n \in Nat : n \in A => n + 1 \in A
  PROVE  \A n \in Nat : n \in A
<1> DEFINE Others == Nat \ A
<1> SUFFICES ASSUME Others # {}
             PROVE  FALSE
  OBVIOUS
<1>1. PICK x \in Others : \A y \in Others : <<y, x>> \notin Before
  <2>1. Others \subseteq Nat
    OBVIOUS
  <2> HIDE DEF Others
  <2> QED
    BY <2>1, BeforeIsWellFounded, WFMin
<1>2. x - 1 \in Nat /\ x - 1 + 1 = x
  <2>1. x \in Nat /\ x # 0
    OBVIOUS
  <2> QED
    BY <2>1
<1>3. x - 1 \in Others
  BY <1>2
<1>4. <<x - 1, x>> \in Before
  BY <1>2 DEF Before
<1> QED
  BY <1>1, <1>3, <1>4

\* A first element and len steps define a sequence.
Steps(S, len)               == [1..len -> [S -> S]]
Follows(h, S, b, len, next) ==
  h \in [0..len -> S] /\ h[0] = b /\ \A k \in 1..len : h[k] = next[k][h[k-1]]

LEMMA Recursion ==
  ASSUME NEW S, NEW b \in S, NEW len \in Nat, NEW next \in Steps(S, len)
  PROVE  \E h : Follows(h, S, b, len, next)
<1> DEFINE Good == {m \in Nat : m <= len => \E h : Follows(h, S, b, m, next)}
<1>1. next \in [1..len -> [S -> S]]
  BY DEF Steps
<1>2. 0 \in Good
  <2> DEFINE h == [k \in 0..0 |-> b]
  <2>1. h \in [0..0 -> S] /\ h[0] = b /\ \A k \in 1..0 : FALSE
    OBVIOUS
  <2> HIDE DEF h
  <2>2. Follows(h, S, b, 0, next)
    BY <2>1 DEF Follows
  <2> QED
    BY <2>2
<1>3. ASSUME NEW m \in Nat, m \in Good
      PROVE  m + 1 \in Good
  <2> SUFFICES ASSUME m + 1 <= len
               PROVE  \E h : Follows(h, S, b, m + 1, next)
    OBVIOUS
  <2>1. PICK h : Follows(h, S, b, m, next)
    BY <1>3
  <2> DEFINE g == [k \in 0..m+1 |-> IF k = m + 1 THEN next[m+1][h[m]] ELSE h[k]]
  <2>2. h \in [0..m -> S] /\ h[0] = b /\ \A k \in 1..m : h[k] = next[k][h[k-1]]
    BY <2>1 DEF Follows
  <2>3. next[m+1][h[m]] \in S
    <3>1. m \in 0..m /\ m + 1 \in 1..len
      OBVIOUS
    <3>2. h[m] \in S /\ next[m+1] \in [S -> S]
      BY <1>1, <2>2, <3>1
    <3> QED
      BY <3>2
  <2>4. \A k \in 0..m+1 : k # m + 1 => k \in 0..m
    OBVIOUS
  <2>5. g \in [0..m+1 -> S]
    BY <2>2, <2>3, <2>4
  <2>6. g[0] = b
    BY <2>2
  <2>7. ASSUME NEW k \in 1..m+1
        PROVE  g[k] = next[k][g[k-1]]
    <3>1. CASE k = m + 1
      <4>1. k - 1 = m /\ m \in 0..m+1 /\ m # m + 1
        BY <3>1
      <4> QED
        BY <3>1, <4>1
    <3>2. CASE k # m + 1
      <4>1. k \in 1..m /\ k - 1 \in 0..m+1 /\ k - 1 # m + 1
        BY <3>2
      <4> QED
        BY <2>2, <3>2, <4>1
    <3> QED
      BY <3>1, <3>2
  <2> HIDE DEF g
  <2>8. Follows(g, S, b, m + 1, next)
    BY <2>5, <2>6, <2>7 DEF Follows
  <2> QED
    BY <2>8
<1>4. len \in Good
  <2> HIDE DEF Good
  <2> QED
    BY <1>2, <1>3, Induction
<1> QED
  BY <1>4

\* Where mkdir() is called there is the file that realpath found, so it fails.
LEMMA MkdirFails == ASSUME TypeOK, NEW p, Mkdir(p) PROVE Fail
<1> DEFINE n == Candidate(p)
<1>1. ASSUME n \in Node \ {Root}, parent[n] \in Dir
      PROVE  Step(parent[n], name[n]) # Nowhere
  <2> HIDE DEF n
  <2>1. PICK d, c : d = parent[n] /\ c = name[n] OBVIOUS
  <2> DEFINE below == {m \in Node \ {Root} : parent[m] = d /\ name[m] = c}
  <2>2. n \in below BY <1>1, <2>1
  <2>3. (CHOOSE m \in below : TRUE) \in below BY <2>2
  <2>4. parent[d] # Nowhere BY <1>1, <2>1, PathsAssumption DEF TypeOK
  <2>5. Step(d, c) = IF c = Up THEN parent[d] ELSE CHOOSE m \in below : TRUE
    BY <1>1, <2>1, <2>2 DEF Step
  <2> QED BY <2>1, <2>3, <2>4, <2>5, PathsAssumption
<1>2. CASE Confined(n) /\ MkdirCall(n) BY <1>1, <1>2 DEF Confined, MkdirCall
<1> QED BY <1>2 DEF Mkdir

\* Every call keeps the types.
LEMMA NextTypes == TypeOK /\ [Next]_vars => TypeOK'
<1> SUFFICES ASSUME TypeOK, [Next]_vars PROVE TypeOK'
  OBVIOUS
<1> USE PathsAssumption DEF TypeOK, tree
<1>0. Fail => TypeOK' BY DEF Fail
<1>1. ASSUME NEW b \in Base, SetBasePath(b) PROVE TypeOK'
  BY <1>1 DEF SetBasePath
<1>2. ASSUME NEW p \in Path, Chdir(p) PROVE TypeOK'
  BY <1>0, <1>2 DEF Chdir
<1>3. ASSUME NEW n \in Node \ {Root}, Vanish(n) PROVE TypeOK'
  BY <1>3 DEF Vanish
<1>4. ASSUME NEW p \in Path, Rmdir(p) PROVE TypeOK'
  BY <1>0, <1>3, <1>4 DEF Rmdir
<1>5. ASSUME NEW p \in Path, Unlink(p) PROVE TypeOK'
  BY <1>0, <1>3, <1>5 DEF Unlink, Confined
<1>6. ASSUME NEW p \in Path, Truncate(p) PROVE TypeOK'
  BY <1>0, <1>6 DEF Truncate, Confined
<1>7. ASSUME NEW p \in Path, Opendir(p) PROVE TypeOK'
  BY <1>0, <1>7 DEF Opendir
<1>8. ASSUME NEW p \in Path, NEW q \in Path, Rename(p, q) PROVE TypeOK'
  <2> DEFINE o == Candidate(p)
             n == Candidate(q)
  <2>1. CASE result' = OK /\ UNCHANGED <<tree, cwd, basepath, streams>>
    BY <2>1
  <2>2. CASE BothConfined(o, n) /\ o # n /\ Replaces(o, n) /\ Move(o, n)
    <3>1. o \in Node \ {Root} /\ n \in Node \ {Root}
      BY <2>2 DEF BothConfined, Confined, Replaces
    <3> HIDE DEF o, n
    <3>2. parent' = [parent EXCEPT ![n] = Gone, ![o] = parent[n]]
          /\ name' = [name EXCEPT ![o] = name[n]] /\ result' = OK
          /\ UNCHANGED <<cut, cwd, basepath, streams>>
      BY <2>2 DEF Move
    <3>3. parent[n] \in Dir \cup {Gone} /\ name[n] \in Component
      BY <3>1
    <3>4. parent' \in [Node -> Dir \cup {Gone}] /\ parent'[Root] = Root
      BY <3>1, <3>2, <3>3
    <3>5. name' \in [Node -> Component]
      BY <3>1, <3>2, <3>3
    <3> QED BY <3>2, <3>4, <3>5
  <2> QED BY <1>0, <1>8, <2>1, <2>2 DEF Rename
<1>9. CASE UNCHANGED vars
  BY <1>9 DEF vars
<1> QED
  BY <1>0, <1>1, <1>2, <1>4, <1>5, <1>6, <1>7, <1>8, <1>9, MkdirFails
  DEF Next, GetStat, SetStat

\* A call changes only files that confined_path let through.
LEMMA ChangesAreConfined ==
  ASSUME TypeOK, [Next]_vars, NEW x \in Node
  PROVE  \/ parent'[x] = parent[x] /\ name'[x] = name[x] /\ (x \in cut' <=> x \in cut)
         \/ Confined(x)
<1> DEFINE Same(y) == parent'[y] = parent[y] /\ name'[y] = name[y]
                      /\ (y \in cut' <=> y \in cut)
<1> USE DEF TypeOK, tree
<1>0. UNCHANGED tree => Same(x) OBVIOUS
<1>1. ASSUME NEW n \in Node, Confined(n), Vanish(n) PROVE Same(x) \/ Confined(x)
  BY <1>1 DEF Vanish
<1>2. ASSUME NEW p \in Path, Rmdir(p) \/ Unlink(p) PROVE Same(x) \/ Confined(x)
  <2>1. CASE Fail BY <1>0, <2>1 DEF Fail
  <2>2. CASE Confined(Candidate(p)) /\ Vanish(Candidate(p))
    <3>1. Candidate(p) \in Node BY <2>2 DEF Confined
    <3> QED BY <1>1, <2>2, <3>1
  <2> QED BY <1>2, <2>1, <2>2 DEF Rmdir, Unlink
<1>3. ASSUME NEW p \in Path, Truncate(p) PROVE Same(x) \/ Confined(x)
  BY <1>3 DEF Truncate, Fail
<1>4. ASSUME NEW p \in Path, NEW q \in Path, Rename(p, q) PROVE Same(x) \/ Confined(x)
  <2> DEFINE o == Candidate(p)
             n == Candidate(q)
  <2>1. CASE UNCHANGED tree BY <1>0, <2>1
  <2>2. CASE BothConfined(o, n) /\ Move(o, n)
    <3>1. Confined(o) /\ Confined(n) BY <2>2 DEF BothConfined
    <3>2. x = o \/ x = n \/ Same(x)
      <4> HIDE DEF o, n
      <4> QED BY <2>2 DEF Move
    <3> QED BY <3>1, <3>2
  <2> QED BY <1>4, <2>1, <2>2 DEF Rename, Fail
<1>5. CASE UNCHANGED tree BY <1>0, <1>5
<1> QED
  BY <1>2, <1>3, <1>4, <1>5, MkdirFails
  DEF Next, vars, SetBasePath, Chdir, GetStat, SetStat, Opendir, Fail

-------------------------------------------------------------------------------
\* The driver's view of the tree keeps its types, "/" stays where it is.
THEOREM PathsTypes == Spec => []TypeOK
<1>1. Init => TypeOK
  BY PathsAssumption DEF Init, TypeOK
<1> QED BY <1>1, NextTypes, PTL DEF Spec

\* No call of the driver touches a file that is not under the base path when it
\* is made, whatever the tree, the names and the base path, and whatever chdir
\* has done before.
THEOREM OutsideStaysUntouched == Spec => OutsideUntouched
<1>1. TypeOK /\ [Next]_vars =>
        [\A n \in Node :
           \/ parent'[n] = parent[n] /\ name'[n] = name[n] /\ (n \in cut' <=> n \in cut)
           \/ RealBase # Nowhere /\ Inside(RealBase, n)]_vars
  BY ChangesAreConfined DEF Confined
<1> QED BY <1>1, PathsTypes, PTL DEF Spec, OutsideUntouched

(***************************************************************************)
(* A change of the tree is the removal of one file or the move of one onto *)
(* another.                                                                *)
(***************************************************************************)
Removes(n) == n \in Node \ {Root} /\ (n \in Dir => Empty(n)) /\ Vanish(n)

Moves(o, n) ==
  /\ o \in Node \ {Root} /\ n \in Node \ {Root} /\ o # n
  /\ BothConfined(o, n) /\ Replaces(o, n) /\ Move(o, n)

LEMMA Changes ==
  TypeOK /\ [Next]_vars =>
    \/ UNCHANGED <<parent, name>>
    \/ \E n \in Node : Removes(n)
    \/ \E o, n \in Node : Moves(o, n)
<1> SUFFICES ASSUME TypeOK, [Next]_vars
             PROVE  \/ UNCHANGED <<parent, name>>
                    \/ \E n \in Node : Removes(n)
                    \/ \E o, n \in Node : Moves(o, n)
  OBVIOUS
<1>1. ASSUME NEW p \in Path, Rmdir(p) \/ Unlink(p)
      PROVE  UNCHANGED <<parent, name>> \/ \E n \in Node : Removes(n)
  <2> DEFINE n == Candidate(p)
  <2>1. CASE Fail
    BY <2>1 DEF Fail, tree
  <2>2. CASE /\ Confined(n) /\ Vanish(n)
             /\ (n \in Dir \ {Root} /\ Empty(n)) \/ n \notin Dir
    <3>1. n \in Node /\ Root \in Dir
      BY <2>2, PathsAssumption DEF Confined
    <3> HIDE DEF n
    <3>2. Removes(n)
      BY <2>2, <3>1 DEF Removes
    <3> QED
      BY <3>1, <3>2
  <2> QED
    BY <1>1, <2>1, <2>2 DEF Rmdir, Unlink
<1>2. ASSUME NEW p \in Path, NEW q \in Path, Rename(p, q)
      PROVE  UNCHANGED <<parent, name>> \/ \E o, n \in Node : Moves(o, n)
  <2> DEFINE o == Candidate(p)
             n == Candidate(q)
  <2>1. CASE UNCHANGED tree
    BY <2>1 DEF tree
  <2>2. CASE o # n /\ BothConfined(o, n) /\ Replaces(o, n) /\ Move(o, n)
    <3>1. o \in Node /\ n \in Node /\ Root \in Dir
      BY <2>2, PathsAssumption DEF BothConfined, Confined
    <3> HIDE DEF o, n
    <3>2. o # Root /\ n # Root
      BY <2>2, <3>1 DEF Replaces
    <3>3. Moves(o, n)
      BY <2>2, <3>1, <3>2 DEF Moves
    <3> QED
      BY <3>1, <3>3
  <2> QED
    BY <1>2, <2>1, <2>2 DEF Rename, Fail
<1>3. CASE UNCHANGED tree
  BY <1>3 DEF tree
<1> QED
  BY <1>1, <1>2, <1>3, MkdirFails
  DEF Next, vars, SetBasePath, Chdir, GetStat, SetStat, Opendir, Truncate, Fail, tree

(***************************************************************************)
(* Looking up an absolute base path.                                       *)
(***************************************************************************)
Place == Node \cup {Gone, Nowhere}

LookedUp(at) ==
  /\ at \in [0..Len(basepath.comps) -> Place] /\ at[0] = Root
  /\ \A k \in 1..Len(basepath.comps) : at[k] = Step(at[k-1], basepath.comps[k])
  /\ RealBase = at[Len(basepath.comps)]

\* The recursive definition of RealPath goes from place to place.
LEMMA BaseIsLookedUp == TypeOK /\ basepath.abs => \E at : LookedUp(at)
<1> SUFFICES ASSUME TypeOK, basepath.abs
             PROVE  \E at : LookedUp(at)
  OBVIOUS
<1> DEFINE comps == basepath.comps
           len == Len(comps)
           Equation(h) == h = [i \in 0..len |-> IF i = 0 THEN Root ELSE Step(h[i-1], comps[i])]
           next == [k \in 1..len |-> [x \in Place |-> Step(x, comps[k])]]
<1>1. len \in Nat /\ Root \in Place
  BY PathsAssumption DEF TypeOK, Place
<1>2. \A x, c : Step(x, c) \in Place
  <2> SUFFICES ASSUME NEW x, NEW c
               PROVE  Step(x, c) \in Place
    OBVIOUS
  <2> DEFINE below == {m \in Node \ {Root} : parent[m] = x /\ name[m] = c}
  <2>1. CASE x \in Dir
    <3>1. parent[x] \in Place
      BY <2>1, PathsAssumption DEF TypeOK, Place
    <3>2. below # {} => (CHOOSE m \in below : TRUE) \in Node
      OBVIOUS
    <3> HIDE DEF below
    <3>3. Step(x, c) = IF c = Up THEN parent[x]
                       ELSE IF below = {} THEN Nowhere ELSE CHOOSE m \in below : TRUE
      BY <2>1 DEF Step, below
    <3> QED
      BY <3>1, <3>2, <3>3 DEF Place
  <2>2. CASE x \notin Dir
    BY <2>2 DEF Step, Place
  <2> QED
    BY <2>1, <2>2
<1> HIDE DEF comps, len
<1>3. PICK h : Follows(h, Place, Root, len, next)
  <2>1. next \in Steps(Place, len)
    BY <1>2 DEF Steps
  <2> HIDE DEF next
  <2> QED
    BY <1>1, <2>1, Recursion
<1>4. /\ h \in [0..len -> Place] /\ h[0] = Root
      /\ \A k \in 1..len : h[k] = Step(h[k-1], comps[k])
  <2>1. /\ h \in [0..len -> Place] /\ h[0] = Root
        /\ \A k \in 1..len : h[k] = next[k][h[k-1]]
    BY <1>3 DEF Follows
  <2>2. \A k \in 1..len : h[k-1] \in Place
    BY <1>1, <2>1
  <2> QED
    BY <2>1, <2>2
<1>5. Equation(h)
  <2>1. \A k \in 0..len : k # 0 => k \in 1..len
    BY <1>1
  <2> QED
    BY <1>4, <2>1
<1> DEFINE at == CHOOSE f : Equation(f)
<1>6. Equation(at)
  <2> HIDE DEF Equation
  <2> QED
    BY <1>5
<1>7. RealBase = at[len]
  BY DEF RealBase, RealPath, len, comps
<1> HIDE DEF at
<1>8. at[0] = Root /\ \A k \in 1..len : at[k] = Step(at[k-1], comps[k])
  <2>1. 0 \in 0..len /\ \A k \in 1..len : k \in 0..len /\ k # 0
    BY <1>1
  <2> QED
    BY <1>6, <2>1
<1>9. at \in [0..len -> Place]
  BY <1>1, <1>2, <1>6
<1> QED
  BY <1>7, <1>8, <1>9 DEF LookedUp, len, comps

(***************************************************************************)
(* No two files of a directory have the same name.                         *)
(***************************************************************************)
SiblingsDiffer ==
  \A m, n \in Node \ {Root} :
    m # n /\ parent[m] # Gone => <<parent[m], name[m]>> # <<parent[n], name[n]>>

LEMMA SiblingsKept == TypeOK /\ SiblingsDiffer /\ [Next]_vars => SiblingsDiffer'
<1> SUFFICES ASSUME TypeOK, SiblingsDiffer, [Next]_vars
             PROVE  SiblingsDiffer'
  OBVIOUS
<1>1. CASE UNCHANGED <<parent, name>>
  BY <1>1 DEF SiblingsDiffer
<1>2. ASSUME NEW n \in Node, Removes(n)
      PROVE  SiblingsDiffer'
  <2>1. parent' = [parent EXCEPT ![n] = Gone] /\ name' = name
    BY <1>2 DEF Removes, Vanish
  <2>2. \A m \in Node : m # n => parent'[m] = parent[m]
    BY <2>1 DEF TypeOK
  <2>3. parent'[n] = Gone
    BY <2>1 DEF TypeOK
  <2> QED
    BY <2>1, <2>2, <2>3 DEF SiblingsDiffer
<1>3. ASSUME NEW o \in Node, NEW n \in Node, Moves(o, n)
      PROVE  SiblingsDiffer'
  <2>1. /\ parent' = [parent EXCEPT ![n] = Gone, ![o] = parent[n]]
        /\ name' = [name EXCEPT ![o] = name[n]]
        /\ o \in Node \ {Root} /\ n \in Node \ {Root} /\ o # n
    BY <1>3 DEF Moves, Move
  <2>2. \A m \in Node : m \notin {o, n} => parent'[m] = parent[m] /\ name'[m] = name[m]
    BY <2>1 DEF TypeOK
  <2>3. parent'[n] = Gone /\ parent'[o] = parent[n] /\ name'[o] = name[n]
    BY <2>1 DEF TypeOK
  <2> DEFINE was(x) == IF x = o THEN n ELSE x
  <2>4. ASSUME NEW x \in Node \ {Root}, NEW y \in Node \ {Root}, x # y, parent'[x] # Gone
        PROVE  <<parent'[x], name'[x]>> # <<parent'[y], name'[y]>>
    <3>1. CASE y = n
      BY <2>3, <2>4, <3>1
    <3>2. CASE y # n
      <4>1. x # n
        BY <2>3, <2>4
      <4>2. /\ was(x) \in Node \ {Root} /\ was(y) \in Node \ {Root} /\ was(x) # was(y)
            /\ parent'[x] = parent[was(x)] /\ name'[x] = name[was(x)]
            /\ parent'[y] = parent[was(y)] /\ name'[y] = name[was(y)]
        BY <2>1, <2>2, <2>3, <2>4, <3>2, <4>1
      <4> HIDE DEF was
      <4> QED
        BY <2>4, <4>2 DEF SiblingsDiffer
    <3> QED
      BY <3>1, <3>2
  <2> QED
    BY <2>4 DEF SiblingsDiffer
<1> QED
  BY <1>1, <1>2, <1>3, Changes

LEMMA SiblingsAlwaysDiffer == Spec => []SiblingsDiffer
<1>1. Init => SiblingsDiffer
  BY PathsAssumption DEF Init, SiblingsDiffer
<1> QED
  BY <1>1, SiblingsKept, PathsTypes, PTL DEF Spec

(***************************************************************************)
(* A step of the lookup, and the directories above a file.                 *)
(***************************************************************************)
StepLaw ==
  /\ \A x, c : x \notin Dir => Step(x, c) = Nowhere
  /\ \A x \in Dir : Step(x, Up) = parent[x]
  /\ \A x \in Dir : \A c : c # Up =>
       /\ \A m \in Node \ {Root} : parent[m] = x /\ name[m] = c => Step(x, c) = m
       /\ (\A m \in Node \ {Root} : ~(parent[m] = x /\ name[m] = c)) => Step(x, c) = Nowhere

\* A step down leads to the one file of that name, if there is one.
LEMMA StepsAreKnown == TypeOK /\ SiblingsDiffer => StepLaw
<1> SUFFICES ASSUME TypeOK, SiblingsDiffer
             PROVE  StepLaw
  OBVIOUS
<1>1. \A x, c : x \notin Dir => Step(x, c) = Nowhere
  BY DEF Step
<1>2. \A x \in Dir : Step(x, Up) = parent[x]
  BY DEF Step
<1>3. ASSUME NEW x \in Dir, NEW c, c # Up
      PROVE  /\ \A m \in Node \ {Root} : parent[m] = x /\ name[m] = c => Step(x, c) = m
             /\ (\A m \in Node \ {Root} : ~(parent[m] = x /\ name[m] = c)) => Step(x, c) = Nowhere
  <2> DEFINE below == {m \in Node \ {Root} : parent[m] = x /\ name[m] = c}
  <2>1. Step(x, c) = IF below = {} THEN Nowhere ELSE CHOOSE m \in below : TRUE
    BY <1>3 DEF Step
  <2>2. x # Gone
    BY PathsAssumption
  <2>3. \A m, n \in below : m = n
    BY <2>2 DEF SiblingsDiffer
  <2>4. ASSUME NEW m \in below
        PROVE  Step(x, c) = m
    <3> HIDE DEF below
    <3>1. below # {}
      BY <2>4
    <3>2. (CHOOSE y \in below : TRUE) \in below
      BY <3>1
    <3> QED
      BY <2>1, <2>3, <2>4, <3>1, <3>2
  <2>5. (\A m \in Node \ {Root} : ~(parent[m] = x /\ name[m] = c)) => below = {}
    OBVIOUS
  <2> QED
    BY <2>1, <2>4, <2>5
<1> QED
  BY <1>1, <1>2, <1>3 DEF StepLaw

\* The sets Ancestors is made of.
Upwards(x) == {S \in SUBSET Dir : \A m \in S \cup {x} : parent[m] \in S \cup {Gone}}

LEMMA AncestorsLaw ==
  ASSUME TypeOK, NEW x \in Node
  PROVE  /\ x \in Ancestors(x)
         /\ parent[x] \in Dir => /\ Ancestors(parent[x]) \subseteq Ancestors(x)
                                 /\ Ancestors(x) \subseteq {x} \cup Ancestors(parent[x])
         /\ Ancestors(Root) = {Root}
<1>1. \A y : Ancestors(y) = {y} \cup {d \in Dir : \A S \in Upwards(y) : d \in S}
  BY DEF Ancestors, Upwards
<1>2. Gone \notin Dir /\ Root \in Dir /\ parent[Root] = Root
  BY PathsAssumption DEF TypeOK
<1>3. ASSUME parent[x] \in Dir
      PROVE  Ancestors(parent[x]) \subseteq Ancestors(x)
  <2> DEFINE y == parent[x]
  <2>1. \A S \in Upwards(x) : y \in S /\ S \in Upwards(y)
    BY <1>2, <1>3 DEF Upwards
  <2> QED
    BY <1>1, <1>3, <2>1
<1>4. ASSUME parent[x] \in Dir
      PROVE  Ancestors(x) \subseteq {x} \cup Ancestors(parent[x])
  <2> DEFINE y == parent[x]
  <2>1. ASSUME NEW S \in Upwards(y)
        PROVE  S \cup {y} \in Upwards(x)
    <3>1. S \subseteq Dir /\ \A m \in S \cup {y} : parent[m] \in S \cup {Gone}
      BY <2>1 DEF Upwards
    <3>2. S \cup {y} \subseteq Dir
      BY <1>4, <3>1
    <3>3. \A m \in (S \cup {y}) \cup {x} : parent[m] \in (S \cup {y}) \cup {Gone}
      BY <3>1
    <3> QED
      BY <3>2, <3>3 DEF Upwards
  <2>2. ASSUME NEW d \in Dir, \A S \in Upwards(x) : d \in S, d # y
        PROVE  \A S \in Upwards(y) : d \in S
    BY <2>1, <2>2
  <2> QED
    BY <1>1, <2>2
<1>5. Ancestors(Root) = {Root}
  <2>1. {Root} \in Upwards(Root)
    BY <1>2 DEF Upwards
  <2> QED
    BY <1>1, <2>1
<1> QED
  BY <1>1, <1>3, <1>4, <1>5

\* Nothing lies in a file or in an empty directory.
LEMMA NothingBelow ==
  ASSUME TypeOK, NEW n \in Node \ {Root}, n \in Dir => Empty(n)
  PROVE  /\ \A m \in Node : parent[m] # n
         /\ \A x \in Node : x # n => n \notin Ancestors(x)
<1>1. Gone \notin Node /\ Root \in Dir /\ parent[Root] = Root /\ Dir \subseteq Node
  BY PathsAssumption DEF TypeOK
<1>2. ASSUME NEW m \in Node
      PROVE  parent[m] # n
  <2>1. parent[m] \in Dir \cup {Gone}
    BY DEF TypeOK
  <2> QED
    BY <1>1, <2>1 DEF Empty
<1>3. ASSUME NEW x \in Node, x # n
      PROVE  n \notin Ancestors(x)
  <2> DEFINE S == Dir \ {n}
  <2>1. \A m \in S \cup {x} : parent[m] \in S \cup {Gone}
    BY <1>1, <1>2 DEF TypeOK
  <2>2. S \in Upwards(x)
    BY <2>1 DEF Upwards
  <2> QED
    BY <1>3, <2>2 DEF Ancestors, Upwards
<1> QED
  BY <1>2, <1>3

(***************************************************************************)
(* The lookup before and after a change.                                   *)
(***************************************************************************)
\* No place on the way to the base but the file that goes is lost.
LEMMA RemovalKeepsBase ==
  ASSUME TypeOK, StepLaw, StepLaw', NEW n \in Node, Removes(n), basepath' = basepath,
         NEW at, LookedUp(at), NEW new, LookedUp(new)'
  PROVE  RealBase' \in {RealBase, Nowhere}
<1> DEFINE comps == basepath.comps
           len == Len(comps)
           Kept(k) == new[k] = Nowhere \/ (new[k] = at[k] /\ at[k] # n)
           Agreed == {k \in Nat : k <= len => Kept(k)}
<1>1. /\ at[0] = Root /\ \A k \in 1..len : at[k] = Step(at[k-1], comps[k])
      /\ RealBase = at[len]
  BY DEF LookedUp
<1>2. /\ new[0] = Root /\ \A k \in 1..len : new[k] = Step(new[k-1], comps[k])'
      /\ RealBase' = new[len]
  BY DEF LookedUp
<1>3. /\ parent' = [parent EXCEPT ![n] = Gone] /\ name' = name
      /\ n \in Node \ {Root} /\ \A m \in Node : parent[m] # n
  BY NothingBelow DEF Removes, Vanish
<1>4. /\ \A m \in Node : m # n => parent'[m] = parent[m]
      /\ parent'[n] = Gone
  BY <1>3 DEF TypeOK
<1>5. Dir \subseteq Node /\ {Gone, Nowhere} \cap Node = {} /\ len \in Nat
  BY PathsAssumption DEF TypeOK
<1>6. ASSUME NEW x \in Dir, x # n, NEW c
      PROVE  Step(x, c)' = Nowhere \/ (Step(x, c)' = Step(x, c) /\ Step(x, c) # n)
  <2>1. CASE c = Up
    <3>1. Step(x, c)' = parent'[x] /\ Step(x, c) = parent[x]
      BY <2>1 DEF StepLaw
    <3> QED
      BY <1>3, <1>4, <1>5, <1>6, <3>1
  <2>2. CASE c # Up /\ \A m \in Node \ {Root} : ~(parent'[m] = x /\ name'[m] = c)
    BY <2>2 DEF StepLaw
  <2>3. ASSUME c # Up, NEW m \in Node \ {Root}, parent'[m] = x, name'[m] = c
        PROVE  Step(x, c)' = m /\ Step(x, c) = m /\ m # n
    <3>1. m # n
      BY <1>4, <1>5, <2>3
    <3>2. parent[m] = x /\ name[m] = c
      BY <1>3, <1>4, <2>3, <3>1
    <3>3. Step(x, c) = m
      BY <2>3, <3>2 DEF StepLaw
    <3>4. Step(x, c)' = m
      BY <2>3 DEF StepLaw
    <3> QED
      BY <3>1, <3>3, <3>4
  <2> QED
    BY <2>1, <2>2, <2>3
<1>7. 0 \in Agreed
  BY <1>1, <1>2, <1>3
<1>8. ASSUME NEW k \in Nat, k \in Agreed
      PROVE  k + 1 \in Agreed
  <2> SUFFICES ASSUME k + 1 <= len
               PROVE  Kept(k + 1)
    OBVIOUS
  <2>0. PICK c : c = comps[k+1] /\ c = comps[k+1]'
    OBVIOUS
  <2>1. /\ at[k+1] = Step(at[k], c) /\ new[k+1] = Step(new[k], c)' /\ Kept(k)
    <3>1. k + 1 \in 1..len /\ k + 1 - 1 = k /\ k <= len
      BY <1>5
    <3>2. Step(new[k], comps[k+1])' = Step(new[k], c)'
      BY <2>0
    <3> QED
      BY <1>1, <1>2, <1>8, <2>0, <3>1, <3>2
  <2>2. CASE new[k] \notin Dir
    BY <2>1, <2>2 DEF StepLaw
  <2>3. CASE new[k] \in Dir
    <3>1. new[k] = at[k] /\ at[k] # n
      BY <1>5, <2>1, <2>3
    <3> QED
      BY <1>6, <2>1, <2>3, <3>1
  <2> QED
    BY <2>2, <2>3
<1>9. len \in Agreed
  <2> HIDE DEF Agreed
  <2> QED
    BY <1>5, <1>7, <1>8, Induction
<1> QED
  BY <1>1, <1>2, <1>5, <1>9

\* A place on the way to the base is lost, or it is the file that is replaced;
\* what moves was on no way to the base, and the base itself is not replaced.
LEMMA MoveKeepsBase ==
  ASSUME TypeOK, StepLaw, StepLaw', SiblingsDiffer,
         NEW o \in Node, NEW n \in Node, Moves(o, n), basepath' = basepath,
         NEW at, LookedUp(at), NEW new, LookedUp(new)'
  PROVE  RealBase' \in {RealBase, Nowhere}
<1> DEFINE comps == basepath.comps
           len == Len(comps)
           Free(x) == (x \in Node => o \notin Ancestors(x)) /\ x # n
           Kept(k) == \/ at[k] = Nowhere \/ new[k] = Nowhere
                      \/ new[k] = at[k] /\ Free(at[k])
                      \/ at[k] = n /\ new[k] = o
           Agreed == {k \in Nat : k <= len => Kept(k)}
<1>1. /\ at[0] = Root /\ \A k \in 1..len : at[k] = Step(at[k-1], comps[k])
      /\ RealBase = at[len]
  BY DEF LookedUp
<1>2. /\ new[0] = Root /\ \A k \in 1..len : new[k] = Step(new[k-1], comps[k])'
      /\ RealBase' = new[len]
  BY DEF LookedUp
<1>3. /\ parent' = [parent EXCEPT ![n] = Gone, ![o] = parent[n]]
      /\ name' = [name EXCEPT ![o] = name[n]]
      /\ o \in Node \ {Root} /\ n \in Node \ {Root} /\ o # n
      /\ Confined(o) /\ Replaces(o, n)
  BY DEF Moves, Move, BothConfined
<1>4. /\ \A m \in Node : m \notin {o, n} => parent'[m] = parent[m] /\ name'[m] = name[m]
      /\ parent'[n] = Gone /\ parent'[o] = parent[n] /\ name'[o] = name[n]
  BY <1>3 DEF TypeOK
<1>5. Dir \subseteq Node /\ {Gone, Nowhere} \cap Node = {} /\ len \in Nat
  BY PathsAssumption DEF TypeOK
<1>6. /\ \A m \in Node : parent[m] # n
      /\ \A x \in Node : x # n => n \notin Ancestors(x)
  <2>1. n \in Dir => Empty(n)
    BY <1>3 DEF Replaces
  <2> QED
    BY <1>3, <2>1, NothingBelow
<1>7. o \notin Ancestors(n) /\ (o \in Dir <=> n \in Dir)
  BY <1>3 DEF Replaces, Ancestors
<1>8. ASSUME NEW x \in Node, o \notin Ancestors(x)
      PROVE  Free(parent[x])
  <2>1. parent[x] \in Dir \cup {Gone} /\ parent[x] # n
    BY <1>6 DEF TypeOK
  <2>2. parent[x] \in Dir => o \notin Ancestors(parent[x])
    BY <1>8, AncestorsLaw
  <2> QED
    BY <1>5, <2>1, <2>2
<1>9. ASSUME NEW x \in Dir, Free(x), NEW c
      PROVE  \/ Step(x, c) = Nowhere \/ Step(x, c)' = Nowhere
             \/ Step(x, c)' = Step(x, c) /\ Free(Step(x, c))
             \/ Step(x, c) = n /\ Step(x, c)' = o
  <2>1. x \in Node /\ x # n /\ o \notin Ancestors(x) /\ x # o
    <3>1. x \in Node /\ x # n /\ o \notin Ancestors(x)
      BY <1>5, <1>9
    <3> QED
      BY <3>1, AncestorsLaw
  <2>2. CASE c = Up
    <3>1. Step(x, c)' = parent'[x] /\ Step(x, c) = parent[x]
      BY <2>2 DEF StepLaw
    <3>2. Free(parent[x])
      BY <1>8, <2>1
    <3> QED
      BY <1>4, <2>1, <3>1, <3>2
  <2>3. CASE c # Up /\ \A m \in Node \ {Root} : ~(parent[m] = x /\ name[m] = c)
    BY <2>3 DEF StepLaw
  <2>4. ASSUME c # Up, NEW m \in Node \ {Root}, parent[m] = x, name[m] = c
        PROVE  \/ Step(x, c)' = Nowhere
               \/ Step(x, c)' = m /\ Step(x, c) = m /\ Free(m)
               \/ Step(x, c) = n /\ Step(x, c)' = o
    <3>1. Step(x, c) = m
      BY <2>4 DEF StepLaw
    <3>2. CASE m = o
      <4>1. ASSUME NEW y \in Node \ {Root}
            PROVE  ~(parent'[y] = x /\ name'[y] = c)
        <5>1. x # Gone
          BY <1>5
        <5>2. CASE y = n
          BY <1>4, <5>1, <5>2
        <5>3. CASE y = o
          BY <1>3, <1>4, <2>4, <3>2, <5>1, <5>3 DEF SiblingsDiffer
        <5>4. CASE y \notin {o, n}
          BY <1>4, <2>4, <3>2, <5>1, <5>4 DEF SiblingsDiffer
        <5> QED
          BY <5>2, <5>3, <5>4
      <4> QED
        BY <2>4, <4>1 DEF StepLaw
    <3>3. CASE m = n
      <4>1. parent'[o] = x /\ name'[o] = c
        BY <1>4, <2>4, <3>3
      <4>2. Step(x, c)' = o
        BY <1>3, <2>4, <4>1 DEF StepLaw
      <4> QED
        BY <3>1, <3>3, <4>2
    <3>4. CASE m \notin {o, n}
      <4>1. parent'[m] = x /\ name'[m] = c
        BY <1>4, <2>4, <3>4
      <4>2. Step(x, c)' = m
        BY <2>4, <4>1 DEF StepLaw
      <4>3. o \notin Ancestors(m)
        BY <2>1, <2>4, <3>4, AncestorsLaw
      <4> QED
        BY <3>1, <3>4, <4>2, <4>3
    <3> QED
      BY <3>2, <3>3, <3>4
  <2> QED
    BY <2>2, <2>3, <2>4, StepLaw DEF StepLaw
<1>10. 0 \in Agreed
  <2>1. o \notin Ancestors(Root)
    <3>1. Root \in Node
      BY <1>5, PathsAssumption
    <3> QED
      BY <1>3, <3>1, AncestorsLaw
  <2> QED
    BY <1>1, <1>2, <1>3, <2>1
<1>11. ASSUME NEW k \in Nat, k \in Agreed
       PROVE  k + 1 \in Agreed
  <2> SUFFICES ASSUME k + 1 <= len
               PROVE  Kept(k + 1)
    OBVIOUS
  <2>0. PICK c : c = comps[k+1] /\ c = comps[k+1]'
    OBVIOUS
  <2>1. /\ at[k+1] = Step(at[k], c) /\ new[k+1] = Step(new[k], c)' /\ Kept(k)
    <3>1. k + 1 \in 1..len /\ k + 1 - 1 = k /\ k <= len
      BY <1>5
    <3>2. Step(new[k], comps[k+1])' = Step(new[k], c)'
      BY <2>0
    <3> QED
      BY <1>1, <1>2, <1>11, <2>0, <3>1, <3>2
  <2> HIDE DEF Free
  <2>2. CASE at[k] \notin Dir
    BY <2>1, <2>2 DEF StepLaw
  <2>3. CASE new[k] \notin Dir
    BY <2>1, <2>3 DEF StepLaw
  <2>4. CASE new[k] = at[k] /\ Free(at[k]) /\ at[k] \in Dir
    <3> DEFINE x == at[k]
    <3>1. x \in Dir /\ Free(x) /\ at[k+1] = Step(x, c) /\ new[k+1] = Step(x, c)'
      BY <2>1, <2>4
    <3> HIDE DEF x
    <3>2. \/ Step(x, c) = Nowhere \/ Step(x, c)' = Nowhere
          \/ Step(x, c)' = Step(x, c) /\ Free(Step(x, c))
          \/ Step(x, c) = n /\ Step(x, c)' = o
      BY <1>9, <3>1
    <3> QED
      BY <3>1, <3>2
  <2>5. CASE at[k] = n /\ new[k] = o /\ n \in Dir
    <3>1. CASE c = Up
      <4>1. at[k+1] = Step(n, Up) /\ new[k+1] = Step(o, Up)' /\ o \in Dir /\ n \in Dir
        BY <1>7, <2>1, <2>5, <3>1
      <4>2. Step(n, Up) = parent[n] /\ Step(o, Up)' = parent'[o]
        BY <4>1 DEF StepLaw
      <4>3. Free(parent[n])
        BY <1>7, <1>8
      <4> QED
        BY <1>4, <4>1, <4>2, <4>3
    <3>2. CASE c # Up
      <4>1. at[k+1] = Step(n, c)
        BY <2>1, <2>5
      <4>2. Step(n, c) = Nowhere
        BY <1>6, <2>5, <3>2 DEF StepLaw
      <4> QED
        BY <4>1, <4>2
    <3> QED
      BY <3>1, <3>2
  <2>6. Nowhere \notin Dir
    BY <1>5
  <2> QED
    BY <2>1, <2>2, <2>3, <2>4, <2>5, <2>6
<1>12. len \in Agreed
  <2> HIDE DEF Agreed
  <2> QED
    BY <1>5, <1>10, <1>11, Induction
<1>13. RealBase # Nowhere /\ RealBase # n
  <2>1. RealBase # Nowhere /\ Inside(RealBase, o)
    BY <1>3 DEF Confined
  <2> QED
    BY <1>3, <1>6, <2>1 DEF Inside
<1> QED
  BY <1>1, <1>2, <1>5, <1>12, <1>13

\* An absolute base path that leads somewhere leads there until that is removed,
\* whatever the tree, the paths and the calls.
THEOREM BaseAlwaysStays == Spec => BaseStays
<1>1. TypeOK /\ SiblingsDiffer => StepLaw
  BY StepsAreKnown
<1>2. (TypeOK /\ SiblingsDiffer => StepLaw)'
  BY <1>1, PTL
<1>3. TypeOK /\ basepath.abs => \E at : LookedUp(at)
  BY BaseIsLookedUp
<1>4. (TypeOK /\ basepath.abs => \E at : LookedUp(at))'
  BY <1>3, PTL
<1>5. TypeOK /\ TypeOK' /\ SiblingsDiffer /\ SiblingsDiffer' /\ [Next]_vars =>
        [basepath.abs /\ basepath' = basepath => RealBase' \in {RealBase, Nowhere}]_vars
  <2> SUFFICES ASSUME TypeOK, TypeOK', SiblingsDiffer, SiblingsDiffer', [Next]_vars,
                      basepath.abs, basepath' = basepath
               PROVE  RealBase' \in {RealBase, Nowhere}
    OBVIOUS
  <2>1. StepLaw /\ StepLaw'
    BY <1>1, <1>2
  <2>2. \E at : LookedUp(at)
    BY <1>3
  <2>3. \E at : LookedUp(at)'
    BY <1>4
  <2>4. PICK at : LookedUp(at)
    BY <2>2
  <2>5. PICK new : LookedUp(new)'
    BY <2>3
  <2>6. CASE UNCHANGED <<parent, name>>
    BY <2>6 DEF RealBase, RealPath, Step
  <2>7. ASSUME NEW n \in Node, Removes(n)
        PROVE  RealBase' \in {RealBase, Nowhere}
    BY <2>1, <2>4, <2>5, <2>7, RemovalKeepsBase
  <2>8. ASSUME NEW o \in Node, NEW n \in Node, Moves(o, n)
        PROVE  RealBase' \in {RealBase, Nowhere}
    BY <2>1, <2>4, <2>5, <2>8, MoveKeepsBase
  <2> QED
    BY <2>6, <2>7, <2>8, Changes
<1> QED
  BY <1>5, PathsTypes, SiblingsAlwaysDiffer, PTL DEF Spec, BaseStays
===============================================================================
