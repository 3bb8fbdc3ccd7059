--------------------------- MODULE NumbersProofs ---------------------------
(***************************************************************************)
(* Words are written and read back as they are, in every base and width:   *)
(* the text bios_put_hex writes spells the word, bios_put_dec's buffer     *)
(* holds the last digits of its word and is never too small, and parse_hex *)
(* returns what the last digits of its argument are worth.                 *)
(***************************************************************************)
EXTENDS Numbers, WellFoundedInduction, TLAPS

(***************************************************************************)
(* Sequences defined by recursion.  The library's induction takes an       *)
(* operator; a set serves as well, and is within the reach of the provers. *)
(***************************************************************************)
Before == {p \in Nat \X Nat : p[1] < p[2]}

LEMMA BeforeIsWellFounded == IsWellFoundedOn(Before, Nat)
  BY NatLessThanWellFounded DEF OpToRel, Before

\* Every set of numbers with a member has a least one.
LEMMA LeastOne ==
  ASSUME NEW A, A \subseteq Nat, A # {}
  PROVE  \E x \in A : \A y \in A : x <= y
<1>1. PICK x \in A : \A y \in A : <<y, x>> \notin Before
  BY BeforeIsWellFounded, WFMin
<1>2. ASSUME NEW y \in A
      PROVE  x <= y
  <2>1. x \in Nat /\ y \in Nat
    OBVIOUS
  <2>2. ~(y < x)
    BY <1>1, <2>1 DEF Before
  <2> QED
    BY <2>1, <2>2
<1> QED
  BY <1>2

LEMMA Induction ==
  ASSUME NEW A, 0 \in A, \A n \in Nat : n \in A => n + 1 \in A
  PROVE  \A n \in Nat : n \in A
<1> DEFINE Others == Nat \ A
<1> SUFFICES ASSUME Others # {}
             PROVE  FALSE
  OBVIOUS
<1>1. PICK x \in Others : \A y \in Others : x <= y
  <2>1. Others \subseteq Nat
    OBVIOUS
  <2> HIDE DEF Others
  <2> QED
    BY <2>1, LeastOne
<1>2. x \in Nat /\ x # 0
  OBVIOUS
<1>3. x - 1 \in Nat /\ x - 1 + 1 = x /\ ~(x <= x - 1)
  BY <1>2
<1>4. x - 1 \in Others
  BY <1>3
<1> QED
  BY <1>1, <1>3, <1>4

\* A first element and a step define a sequence.
Steps(S)               == [Nat -> [S -> S]]
Follows(h, S, b, next) ==
  h \in [Nat -> S] /\ h[0] = b /\ \A k \in Nat : h[k+1] = next[k][h[k]]

LEMMA Recursion ==
  ASSUME NEW S, NEW b \in S, NEW next \in Steps(S)
  PROVE  \E h : Follows(h, S, b, next)
<1>1. next \in [Nat -> [S -> S]]
  BY DEF Steps
<1> DEFINE Upto(m) == {h \in [Nat -> S] :
                         h[0] = b /\ \A k \in Nat : k < m => h[k+1] = next[k][h[k]]}
           Filled == {m \in Nat : Upto(m) # {}}
<1>2. 0 \in Filled
  <2> DEFINE h == [k \in Nat |-> b]
  <2>1. h \in [Nat -> S] /\ h[0] = b
    OBVIOUS
  <2>2. \A k \in Nat : ~(k < 0)
    OBVIOUS
  <2> HIDE DEF h
  <2>3. h \in Upto(0)
    BY <2>1, <2>2
  <2> QED
    BY <2>3
<1>3. ASSUME NEW m \in Nat, m \in Filled
      PROVE  m + 1 \in Filled
  <2>1. PICK h : h \in Upto(m)
    BY <1>3
  <2> DEFINE g == [k \in Nat |-> IF k = m + 1 THEN next[m][h[m]] ELSE h[k]]
  <2>2. g \in [Nat -> S]
    BY <1>1, <2>1
  <2>3. \A k \in Nat : k < m + 1 => g[k] = h[k]
    OBVIOUS
  <2>4. g[0] = b
    BY <2>1, <2>3
  <2>5. ASSUME NEW k \in Nat, k < m + 1
        PROVE  g[k+1] = next[k][g[k]]
    <3>1. CASE k = m
      BY <2>3, <3>1
    <3>2. CASE k < m
      <4>1. g[k+1] = h[k+1] /\ g[k] = h[k]
        BY <3>2
      <4> QED
        BY <2>1, <3>2, <4>1
    <3> QED
      BY <2>5, <3>1, <3>2
  <2> HIDE DEF g
  <2>6. g \in Upto(m + 1)
    BY <2>2, <2>4, <2>5
  <2> QED
    BY <2>6
<1>4. \A m \in Nat : Upto(m) # {}
  <2> HIDE DEF Filled
  <2>1. \A m \in Nat : m \in Filled
    BY <1>2, <1>3, Induction
  <2> QED
    BY <2>1 DEF Filled
<1> DEFINE pick == [m \in Nat |-> CHOOSE h : h \in Upto(m)]
<1>5. \A m \in Nat : pick[m] \in Upto(m)
  <2> HIDE DEF Upto
  <2> QED
    BY <1>4
<1>6. ASSUME NEW m \in Nat
      PROVE  pick[m+1][m] = pick[m][m]
  <2> DEFINE Same == {j \in Nat : j <= m => pick[m+1][j] = pick[m][j]}
  <2> HIDE DEF pick
  <2>1. pick[m] \in Upto(m) /\ pick[m+1] \in Upto(m+1)
    <3> HIDE DEF Upto
    <3>1. m + 1 \in Nat
      OBVIOUS
    <3> QED
      BY <1>5, <3>1
  <2>2. 0 \in Same
    BY <2>1
  <2>3. ASSUME NEW j \in Nat, j \in Same
        PROVE  j + 1 \in Same
    <3> SUFFICES ASSUME j + 1 <= m
                 PROVE  pick[m+1][j+1] = pick[m][j+1]
      OBVIOUS
    <3>1. j < m /\ j < m + 1 /\ j <= m
      OBVIOUS
    <3>2. pick[m+1][j+1] = next[j][pick[m+1][j]] /\ pick[m][j+1] = next[j][pick[m][j]]
      BY <2>1, <3>1
    <3>3. pick[m+1][j] = pick[m][j]
      BY <2>3, <3>1
    <3> QED
      BY <3>2, <3>3
  <2> HIDE DEF Same
  <2>4. m \in Same
    BY <2>2, <2>3, Induction
  <2> QED
    BY <2>4 DEF Same
<1> DEFINE limit == [m \in Nat |-> pick[m][m]]
<1>7. limit \in [Nat -> S] /\ limit[0] = b
  <2> HIDE DEF pick
  <2>1. \A m \in Nat : pick[m] \in [Nat -> S] /\ pick[m][m] \in S
    BY <1>5
  <2> QED
    BY <1>5, <2>1
<1>8. ASSUME NEW k \in Nat
      PROVE  limit[k+1] = next[k][limit[k]]
  <2> HIDE DEF pick
  <2>1. pick[k+1] \in Upto(k+1) /\ k < k + 1
    BY <1>5
  <2>2. pick[k+1][k+1] = next[k][pick[k+1][k]]
    BY <2>1
  <2>3. limit[k+1] = pick[k+1][k+1] /\ limit[k] = pick[k][k]
    OBVIOUS
  <2> QED
    BY <1>6, <2>2, <2>3
<1> HIDE DEF limit
<1>9. Follows(limit, S, b, next)
  BY <1>7, <1>8 DEF Follows
<1> QED
  BY <1>9

(***************************************************************************)
(* Powers, and what digits are worth.                                      *)
(***************************************************************************)
\* The recursive definition of Powers defines them.
LEMMA PowersLaw ==
  ASSUME NEW b \in Nat \ {0}
  PROVE  /\ Powers(b) \in [Nat -> Nat \ {0}]
         /\ Powers(b)[0] = 1
         /\ \A n \in Nat : Powers(b)[n+1] = b * Powers(b)[n]
<1> DEFINE Equation(h) == h = [n \in Nat |-> IF n = 0 THEN 1 ELSE b * h[n-1]]
           next == [k \in Nat |-> [a \in Nat \ {0} |-> b * a]]
<1>1. PICK h \in [Nat -> Nat \ {0}] :
        h[0] = 1 /\ \A k \in Nat : h[k+1] = b * h[k]
  <2> DEFINE S     == Nat \ {0}
             first == 1
  <2>1. next \in Steps(S) /\ first \in S
    BY DEF Steps
  <2> HIDE DEF next, S, first
  <2>2. PICK h : Follows(h, S, first, next)
    BY <2>1, Recursion
  <2>3. h \in [Nat -> Nat \ {0}] /\ h[0] = 1 /\ \A k \in Nat : h[k+1] = next[k][h[k]]
    BY <2>2 DEF Follows, S, first
  <2>4. \A k \in Nat : next[k][h[k]] = b * h[k]
    BY <2>3 DEF next
  <2> QED
    BY <2>3, <2>4
<1>2. ASSUME NEW n \in Nat
      PROVE  h[n] = IF n = 0 THEN 1 ELSE b * h[n-1]
  <2>1. CASE n = 0
    BY <1>1, <2>1
  <2>2. CASE n # 0
    <3>1. n - 1 \in Nat /\ n - 1 + 1 = n
      BY <2>2
    <3> QED
      BY <1>1, <2>2, <3>1
  <2> QED
    BY <2>1, <2>2
<1>3. Equation(h)
  BY <1>2
<1>4. Powers(b) = CHOOSE f : Equation(f)
  BY DEF Powers
<1>5. Equation(Powers(b))
  <2> HIDE DEF Equation
  <2> QED
    BY <1>3, <1>4
<1> DEFINE P == Powers(b)
<1>6. \A n \in Nat : P[n] = IF n = 0 THEN 1 ELSE b * P[n-1]
  BY <1>5
<1>7. P = [n \in Nat |-> P[n]]
  BY <1>5
<1> HIDE DEF P, next, Equation
<1>8. P[0] = 1
  BY <1>6
<1>9. ASSUME NEW n \in Nat
      PROVE  P[n+1] = b * P[n]
  <2>1. n + 1 \in Nat /\ n + 1 # 0 /\ n + 1 - 1 = n
    OBVIOUS
  <2> QED
    BY <1>6, <2>1
<1> DEFINE Positive == {n \in Nat : P[n] \in Nat \ {0}}
<1>10. \A n \in Nat : n \in Positive
  <2>1. 0 \in Positive
    BY <1>8
  <2>2. ASSUME NEW n \in Nat, n \in Positive
        PROVE  n + 1 \in Positive
    <3>1. P[n] \in Nat \ {0} /\ P[n+1] = b * P[n]
      BY <1>9, <2>2
    <3> QED
      BY <3>1
  <2> HIDE DEF Positive
  <2> QED
    BY <2>1, <2>2, Induction
<1> QED
  BY <1>7, <1>8, <1>9, <1>10 DEF P

\* A longer power is at least as large, and a larger one longer.
LEMMA PowersGrow ==
  ASSUME NEW b \in Nat \ {0}, NEW m \in Nat, NEW n \in Nat, m <= n
  PROVE  Powers(b)[m] <= Powers(b)[n]
<1> DEFINE P == Powers(b)
           Above == {k \in Nat : P[m] <= P[m+k]}
<1>1. P \in [Nat -> Nat \ {0}] /\ \A k \in Nat : P[k+1] = b * P[k]
  BY PowersLaw
<1> HIDE DEF P
<1>2. 0 \in Above
  <2>1. m + 0 = m /\ P[m] \in Nat
    BY <1>1
  <2> QED
    BY <2>1
<1>3. ASSUME NEW k \in Nat, k \in Above
      PROVE  k + 1 \in Above
  <2>1. m + k \in Nat /\ (m + k) + 1 = m + (k + 1) /\ P[m] <= P[m+k]
    BY <1>3
  <2>2. P[m+(k+1)] = b * P[m+k] /\ P[m] \in Nat /\ P[m+k] \in Nat
    BY <1>1, <2>1
  <2>3. \A x \in Nat : x <= b * x
    OBVIOUS
  <2>4. P[m+k] <= P[m+(k+1)] /\ P[m+(k+1)] \in Nat
    BY <2>2, <2>3
  <2> QED
    BY <2>1, <2>2, <2>4
<1>4. \A k \in Nat : k \in Above
  <2> HIDE DEF Above
  <2> QED
    BY <1>2, <1>3, Induction
<1>5. n - m \in Nat /\ m + (n - m) = n
  OBVIOUS
<1> QED
  BY <1>4, <1>5 DEF P

\* The recursive definition of Value defines it.
LEMMA ValueLaw ==
  ASSUME NEW b \in Nat \ {0}, NEW d \in [Nat -> Int]
  PROVE  /\ Value(b, d) \in [Nat -> Int]
         /\ Value(b, d)[0] = 0
         /\ \A k \in Nat : Value(b, d)[k+1] = Value(b, d)[k] + d[k] * Powers(b)[k]
<1> DEFINE P == Powers(b)
           Equation(h) == h = [k \in Nat |-> IF k = 0 THEN 0 ELSE h[k-1] + d[k-1] * P[k-1]]
           next == [k \in Nat |-> [v \in Int |-> v + d[k] * P[k]]]
<1>1. P \in [Nat -> Nat \ {0}]
  BY PowersLaw
<1>2. Value(b, d) = CHOOSE f : Equation(f)
  BY DEF Value
<1> HIDE DEF P
<1>3. PICK h \in [Nat -> Int] :
        h[0] = 0 /\ \A k \in Nat : h[k+1] = h[k] + d[k] * P[k]
  <2>1. ASSUME NEW k \in Nat, NEW v \in Int
        PROVE  v + d[k] * P[k] \in Int
    <3>1. d[k] \in Int /\ P[k] \in Int
      BY <1>1
    <3> QED
      BY <3>1
  <2> DEFINE first == 0
  <2>2. next \in Steps(Int) /\ first \in Int
    BY <2>1 DEF Steps
  <2> HIDE DEF next, first
  <2>3. PICK h : Follows(h, Int, first, next)
    BY <2>2, Recursion
  <2>4. h \in [Nat -> Int] /\ h[0] = 0 /\ \A k \in Nat : h[k+1] = next[k][h[k]]
    BY <2>3 DEF Follows, first
  <2>5. \A k \in Nat : next[k][h[k]] = h[k] + d[k] * P[k]
    BY <2>4 DEF next
  <2> QED
    BY <2>4, <2>5
<1>4. ASSUME NEW n \in Nat
      PROVE  h[n] = IF n = 0 THEN 0 ELSE h[n-1] + d[n-1] * P[n-1]
  <2>1. CASE n = 0
    BY <1>3, <2>1
  <2>2. CASE n # 0
    <3>1. n - 1 \in Nat /\ n - 1 + 1 = n
      BY <2>2
    <3> QED
      BY <1>3, <2>2, <3>1
  <2> QED
    BY <2>1, <2>2
<1>5. Equation(h)
  BY <1>4
<1>6. Equation(Value(b, d))
  <2> HIDE DEF Equation
  <2> QED
    BY <1>2, <1>5
<1> DEFINE V == Value(b, d)
<1>7. \A n \in Nat : V[n] = IF n = 0 THEN 0 ELSE V[n-1] + d[n-1] * P[n-1]
  BY <1>6
<1>8. V = [n \in Nat |-> V[n]]
  BY <1>6
<1> HIDE DEF V, next, Equation
<1>9. V[0] = 0
  BY <1>7
<1>10. ASSUME NEW n \in Nat
      PROVE  V[n+1] = V[n] + d[n] * P[n]
  <2>1. n + 1 \in Nat /\ n + 1 # 0 /\ n + 1 - 1 = n
    OBVIOUS
  <2> QED
    BY <1>7, <2>1
<1> DEFINE Whole == {n \in Nat : V[n] \in Int}
<1>11. \A n \in Nat : n \in Whole
  <2>1. 0 \in Whole
    BY <1>9
  <2>2. ASSUME NEW n \in Nat, n \in Whole
        PROVE  n + 1 \in Whole
    <3>1. V[n] \in Int /\ d[n] \in Int /\ P[n] \in Int
      BY <1>1, <2>2
    <3>2. V[n] + d[n] * P[n] \in Int
      BY <3>1
    <3> QED
      BY <1>10, <3>2
  <2> HIDE DEF Whole
  <2> QED
    BY <2>1, <2>2, Induction
<1> QED
  BY <1>8, <1>9, <1>10, <1>11 DEF P, V

\* k digits below b are worth less than b to the k.
LEMMA ValueBelow ==
  ASSUME NEW b \in Nat \ {0}, NEW d \in [Nat -> 0..b-1]
  PROVE  \A k \in Nat : Value(b, d)[k] \in 0..Powers(b)[k]-1
<1> DEFINE P == Powers(b)
           V == Value(b, d)
           Below == {k \in Nat : V[k] \in 0..P[k]-1}
<1>1. d \in [Nat -> Int]
  OBVIOUS
<1>2. /\ P \in [Nat -> Nat \ {0}] /\ P[0] = 1
      /\ \A k \in Nat : P[k+1] = b * P[k]
  BY PowersLaw
<1>3. /\ V \in [Nat -> Int] /\ V[0] = 0
      /\ \A k \in Nat : V[k+1] = V[k] + d[k] * P[k]
  BY <1>1, ValueLaw
<1> HIDE DEF P, V
<1>4. 0 \in Below
  <2>1. 0 \in 0..1-1
    OBVIOUS
  <2> QED
    BY <1>2, <1>3, <2>1
<1>5. ASSUME NEW k \in Nat, k \in Below
      PROVE  k + 1 \in Below
  <2>1. d[k] \in 0..b-1 /\ P[k] \in Nat \ {0} /\ V[k] \in 0..P[k]-1
    BY <1>2, <1>5
  <2>2. ASSUME NEW a \in 0..b-1, NEW p \in Nat \ {0}, NEW v \in 0..p-1
        PROVE  v + a * p \in 0..b*p-1
    <3>1. a * p <= (b - 1) * p /\ a * p \in Nat
      OBVIOUS
    <3>2. (b - 1) * p = b * p - p /\ b * p \in Nat
      OBVIOUS
    <3> QED
      BY <3>1, <3>2
  <2>3. V[k] + d[k] * P[k] \in 0..b*P[k]-1
    BY <2>1, <2>2
  <2> QED
    BY <1>2, <1>3, <2>3
<1>6. \A k \in Nat : k \in Below
  <2> HIDE DEF Below
  <2> QED
    BY <1>4, <1>5, Induction
<1> QED
  BY <1>6 DEF P, V

\* What k digits are worth depends on no other digit.
LEMMA ValueAgrees ==
  ASSUME NEW b \in Nat \ {0}, NEW d \in [Nat -> Int], NEW e \in [Nat -> Int],
         NEW k \in Nat, \A j \in Nat : j < k => d[j] = e[j]
  PROVE  Value(b, d)[k] = Value(b, e)[k]
<1> DEFINE P == Powers(b)
           V == Value(b, d)
           W == Value(b, e)
           Same == {m \in Nat : m <= k => V[m] = W[m]}
<1>1. /\ V[0] = 0 /\ \A m \in Nat : V[m+1] = V[m] + d[m] * P[m]
      /\ W[0] = 0 /\ \A m \in Nat : W[m+1] = W[m] + e[m] * P[m]
  BY ValueLaw
<1> HIDE DEF P, V, W
<1>2. 0 \in Same
  BY <1>1
<1>3. ASSUME NEW m \in Nat, m \in Same
      PROVE  m + 1 \in Same
  <2> SUFFICES ASSUME m + 1 <= k
               PROVE  V[m+1] = W[m+1]
    OBVIOUS
  <2>1. m <= k /\ m < k
    OBVIOUS
  <2>2. V[m] = W[m] /\ d[m] = e[m]
    BY <1>3, <2>1
  <2> QED
    BY <1>1, <2>2
<1>4. \A m \in Nat : m \in Same
  <2> HIDE DEF Same
  <2> QED
    BY <1>2, <1>3, Induction
<1>5. V[k] = W[k]
  BY <1>4
<1> QED
  BY <1>5 DEF V, W

\* A digit below all others makes each of them worth b times as much.
LEMMA ValueShifts ==
  ASSUME NEW b \in Nat \ {0}, NEW d \in [Nat -> Int], NEW e \in [Nat -> Int],
         \A j \in Nat : e[j+1] = d[j]
  PROVE  \A k \in Nat : Value(b, e)[k+1] = Value(b, d)[k] * b + e[0]
<1> DEFINE P == Powers(b)
           V == Value(b, d)
           W == Value(b, e)
           Same == {m \in Nat : W[m+1] = V[m] * b + e[0]}
<1>1. /\ V \in [Nat -> Int] /\ W \in [Nat -> Int]
      /\ V[0] = 0 /\ \A m \in Nat : V[m+1] = V[m] + d[m] * P[m]
      /\ W[0] = 0 /\ \A m \in Nat : W[m+1] = W[m] + e[m] * P[m]
  BY ValueLaw
<1>2. P \in [Nat -> Nat \ {0}] /\ P[0] = 1 /\ \A m \in Nat : P[m+1] = b * P[m]
  BY PowersLaw
<1> HIDE DEF P, V, W
<1>3. 0 \in Same
  <2>1. W[0+1] = 0 + e[0] * 1 /\ e[0] \in Int
    BY <1>1, <1>2
  <2> QED
    BY <1>1, <2>1
<1>4. ASSUME NEW m \in Nat, m \in Same
      PROVE  m + 1 \in Same
  <2>1. W[(m+1)+1] = W[m+1] + e[m+1] * P[m+1]
    BY <1>1
  <2>2. W[m+1] = V[m] * b + e[0] /\ e[m+1] = d[m] /\ P[m+1] = b * P[m]
    BY <1>2, <1>4
  <2>3. V[m+1] = V[m] + d[m] * P[m]
    BY <1>1
  <2>4. V[m] \in Int /\ d[m] \in Int /\ e[0] \in Int /\ P[m] \in Int
    <3>1. P[m] \in Nat \ {0}
      BY <1>2
    <3> QED
      BY <1>1, <3>1
  <2>5. ASSUME NEW v \in Int, NEW a \in Int, NEW c \in Int, NEW p \in Int
        PROVE  (v * b + c) + a * (b * p) = (v + a * p) * b + c
    OBVIOUS
  <2>6. (V[m] * b + e[0]) + d[m] * (b * P[m]) = (V[m] + d[m] * P[m]) * b + e[0]
    BY <2>4, <2>5
  <2> QED
    BY <2>1, <2>2, <2>3, <2>6
<1>5. \A m \in Nat : m \in Same
  <2> HIDE DEF Same
  <2> QED
    BY <1>3, <1>4, Induction
<1> QED
  BY <1>5 DEF V, W

(***************************************************************************)
(* Quotients and remainders.                                               *)
(***************************************************************************)
LEMMA DivisionLaw ==
  ASSUME NEW k \in Nat \ {0}, NEW a \in Nat
  PROVE  a \div k \in Nat /\ a % k \in 0..k-1 /\ a = (a \div k) * k + (a % k)
<1>1. a \div k \in Nat
  OBVIOUS
<1>2. a % k \in Nat /\ a % k < k
  OBVIOUS
<1>3. a = k * (a \div k) + (a % k)
  OBVIOUS
<1>4. k * (a \div k) = (a \div k) * k
  BY <1>1
<1> QED
  BY <1>1, <1>2, <1>3, <1>4

LEMMA DivisionIsUnique ==
  ASSUME NEW k \in Nat \ {0}, NEW q \in Nat, NEW r \in 0..k-1
  PROVE  (q * k + r) \div k = q /\ (q * k + r) % k = r
<1> DEFINE a == q * k + r
           s == a \div k
<1>1. a \in Nat
  <2>1. q * k \in Nat
    OBVIOUS
  <2> QED
    BY <2>1
<1>2. s \in Nat /\ a % k \in 0..k-1 /\ a = s * k + (a % k)
  BY <1>1, DivisionLaw
<1>3. q * k \in Nat /\ s * k \in Nat
  BY <1>2
<1> HIDE DEF s
<1>4. ~(s < q)
  <2> SUFFICES ASSUME s + 1 <= q
               PROVE  FALSE
    BY <1>2
  <2>1. s * k + k <= q * k
    <3>1. (s + 1) * k <= q * k
      BY <1>2
    <3>2. (s + 1) * k = s * k + k
      BY <1>2
    <3> QED
      BY <3>1, <3>2
  <2> QED
    BY <1>2, <1>3, <2>1
<1>5. ~(q < s)
  <2> SUFFICES ASSUME q + 1 <= s
               PROVE  FALSE
    BY <1>2
  <2>1. q * k + k <= s * k
    <3>1. (q + 1) * k <= s * k
      BY <1>2
    <3>2. (q + 1) * k = q * k + k
      OBVIOUS
    <3> QED
      BY <3>1, <3>2
  <2> QED
    BY <1>2, <1>3, <2>1
<1>6. s = q
  BY <1>2, <1>4, <1>5
<1>7. a % k = r
  BY <1>2, <1>3, <1>6
<1> QED
  BY <1>6, <1>7 DEF s

\* To divide by a and then by b is to divide by their product.
LEMMA DividedTwice ==
  ASSUME NEW a \in Nat \ {0}, NEW b \in Nat \ {0}, NEW w \in Nat
  PROVE  w \div (b * a) = (w \div a) \div b
<1> DEFINE q == w \div a
           r == w % a
           s == q \div b
           t == q % b
<1>1. q \in Nat /\ r \in 0..a-1 /\ w = q * a + r
  BY DivisionLaw
<1> HIDE DEF q, r
<1>2. s \in Nat /\ t \in 0..b-1 /\ q = s * b + t
  BY <1>1, DivisionLaw
<1> HIDE DEF s, t
<1>3. t * a + r \in 0..b*a-1
  <2>1. t * a \in Nat /\ t * a <= (b - 1) * a
    BY <1>2
  <2>2. (b - 1) * a = b * a - a /\ b * a \in Nat
    OBVIOUS
  <2> QED
    BY <1>1, <2>1, <2>2
<1>4. w = s * (b * a) + (t * a + r)
  <2>1. (s * b + t) * a = s * (b * a) + t * a
    BY <1>2
  <2>2. s * (b * a) \in Nat /\ t * a \in Nat
    BY <1>2
  <2> QED
    BY <1>1, <1>2, <2>1, <2>2
<1>5. b * a \in Nat \ {0}
  OBVIOUS
<1>6. (s * (b * a) + (t * a + r)) \div (b * a) = s
  BY <1>2, <1>3, <1>5, DivisionIsUnique
<1> QED
  BY <1>4, <1>6 DEF q, s

\* What is shifted out of m is what the remainder by m leaves out.
LEMMA ShiftedOut ==
  ASSUME NEW b \in Nat \ {0}, NEW m \in Nat \ {0}, NEW v \in Nat
  PROVE  (v * b) % (b * m) = b * (v % m) /\ (b * (v % m)) \div b = v % m
<1> DEFINE q == v \div m
           r == v % m
<1>1. q \in Nat /\ r \in 0..m-1 /\ v = q * m + r
  BY DivisionLaw
<1> HIDE DEF q, r
<1>2. b * r \in 0..b*m-1
  <2>1. b * r \in Nat /\ b * r <= b * (m - 1)
    BY <1>1
  <2>2. b * (m - 1) = b * m - b /\ b * m \in Nat
    OBVIOUS
  <2> QED
    BY <1>1, <2>1, <2>2
<1>3. v * b = q * (b * m) + b * r
  BY <1>1
<1>4. b * m \in Nat \ {0}
  OBVIOUS
<1>5. (v * b) % (b * m) = b * r
  <2>1. (q * (b * m) + b * r) % (b * m) = b * r
    BY <1>1, <1>2, <1>4, DivisionIsUnique
  <2> QED
    BY <1>3, <2>1
<1>6. (r * b + 0) \div b = r
  <2>1. 0 \in 0..b-1 /\ r \in Nat
    BY <1>1
  <2> QED
    BY <2>1, DivisionIsUnique
<1>7. r * b + 0 = b * r
  BY <1>1
<1> QED
  BY <1>5, <1>6, <1>7 DEF r

(***************************************************************************)
(* The digits of words and of texts.                                       *)
(***************************************************************************)
LEMMA Bases ==
  /\ Base \in Nat \ {0} /\ Base >= 2 /\ DecBase \in Nat \ {0} /\ DecBase >= 2
  /\ Width \in Nat \ {0} /\ Width - 1 \in Nat
  /\ Powers(Base) \in [Nat -> Nat \ {0}]
  /\ Powers(Base)[Width] = Base * Powers(Base)[Width-1]
  /\ Word \subseteq Nat /\ 0 \in Word
<1>1. /\ Base \in Nat \ {0} /\ Base >= 2 /\ DecBase \in Nat \ {0} /\ DecBase >= 2
      /\ Width \in Nat \ {0} /\ Width - 1 \in Nat /\ Width - 1 + 1 = Width
  BY NumbersAssumption
<1>2. Powers(Base) \in [Nat -> Nat \ {0}] /\ Powers(Base)[Width] = Base * Powers(Base)[Width-1]
  <2>1. \A n \in Nat : Powers(Base)[n+1] = Base * Powers(Base)[n]
    BY <1>1, PowersLaw
  <2>2. Powers(Base) \in [Nat -> Nat \ {0}]
    BY <1>1, PowersLaw
  <2> QED
    BY <1>1, <2>1, <2>2
<1>3. Powers(Base)[Width] \in Nat \ {0}
  BY <1>1, <1>2
<1>4. Word \subseteq Nat /\ 0 \in Word
  BY <1>3 DEF Word
<1> QED
  BY <1>1, <1>2, <1>4

LEMMA Characters ==
  /\ Char \subseteq Nat /\ DigitChar \subseteq Char
  /\ X \in Char /\ X \notin DigitChar
  /\ \A c \in DigitChar : c - Digit(0) \in 0..Base-1
  /\ \A d \in 0..Base-1 : Digit(d) \in DigitChar /\ Digit(d) - Digit(0) = d
<1>1. Base \in 2..36
  BY NumbersAssumption
<1> QED
  BY <1>1 DEF Char, DigitChar, Digit, X, Other

\* The digits of a word, the lowest first, spell it.
Nibbles(w) == [j \in Nat |-> (w \div Powers(Base)[j]) % Base]

LEMMA WordIsSpelled ==
  ASSUME NEW w \in Word
  PROVE  Value(Base, Nibbles(w))[Width] = w
<1> DEFINE P == Powers(Base)
           V == Value(Base, Nibbles(w))
           Spelled == {k \in Nat : V[k] + (w \div P[k]) * P[k] = w}
<1>1. /\ P \in [Nat -> Nat \ {0}] /\ P[0] = 1
      /\ \A n \in Nat : P[n+1] = Base * P[n]
  BY Bases, PowersLaw
<1>2. w \in Nat /\ w < P[Width]
  BY Bases DEF Word
<1>3. \A k \in Nat : w \div P[k] \in Nat
  BY <1>1, <1>2, DivisionLaw
<1>4. Nibbles(w) \in [Nat -> Int]
  <2>1. \A k \in Nat : (w \div P[k]) % Base \in Int
    BY <1>3, Bases, DivisionLaw
  <2> QED
    BY <2>1 DEF Nibbles
<1>5. /\ V \in [Nat -> Int] /\ V[0] = 0
      /\ \A k \in Nat : V[k+1] = V[k] + Nibbles(w)[k] * P[k]
  BY <1>4, Bases, ValueLaw
<1>6. \A k \in Nat : Nibbles(w)[k] = (w \div P[k]) % Base
  BY DEF Nibbles
<1> HIDE DEF P, V
<1>7. 0 \in Spelled
  <2>1. w \div 1 = w /\ w * 1 = w
    BY <1>2
  <2> QED
    BY <1>1, <1>2, <1>5, <2>1
<1>8. ASSUME NEW k \in Nat, k \in Spelled
      PROVE  k + 1 \in Spelled
  <2> DEFINE q == w \div P[k]
             s == q \div Base
             t == q % Base
  <2>1. q \in Nat /\ V[k] + q * P[k] = w
    BY <1>3, <1>8
  <2>2. V[k+1] = V[k] + t * P[k]
    BY <1>5, <1>6
  <2>3. w \div P[k+1] = s
    <3>1. P[k+1] = Base * P[k] /\ P[k] \in Nat \ {0} /\ Base \in Nat \ {0}
      BY <1>1, Bases
    <3>2. w \div (Base * P[k]) = (w \div P[k]) \div Base
      BY <1>2, <3>1, DividedTwice
    <3> QED
      BY <3>1, <3>2
  <2> HIDE DEF q
  <2>4. s \in Nat /\ t \in 0..Base-1 /\ q = s * Base + t
    BY <2>1, Bases, DivisionLaw
  <2> HIDE DEF s, t
  <2>5. P[k] \in Nat /\ P[k+1] = Base * P[k] /\ V[k] \in Int
    BY <1>1, <1>5
  <2>6. (s * Base + t) * P[k] = t * P[k] + s * (Base * P[k])
    <3>1. ASSUME NEW b \in Nat, NEW p \in Nat
          PROVE  (s * b + t) * p = t * p + s * (b * p)
      BY <2>4
    <3> QED
      BY <2>5, <3>1, Bases
  <2>7. t * P[k] \in Int /\ s * (Base * P[k]) \in Int
    BY <2>4, <2>5, Bases
  <2>8. V[k+1] + s * P[k+1] = w
    BY <2>1, <2>2, <2>4, <2>5, <2>6, <2>7
  <2> QED
    BY <2>3, <2>8
<1>9. Width \in Spelled
  <2> HIDE DEF Spelled
  <2> QED
    BY <1>7, <1>8, Bases, Induction
<1>10. w \div P[Width] = 0
  <2>1. P[Width] \in Nat \ {0} /\ 0 \in Nat /\ w \in 0..P[Width]-1
    BY <1>1, <1>2, Bases
  <2>2. (0 * P[Width] + w) \div P[Width] = 0
    BY <2>1, DivisionIsUnique
  <2> QED
    BY <2>1, <2>2
<1>11. V[Width] + 0 * P[Width] = w
  BY <1>9, <1>10
<1>12. V[Width] \in Int /\ 0 * P[Width] = 0
  BY <1>1, <1>5, Bases
<1> QED
  BY <1>11, <1>12 DEF V

(***************************************************************************)
(* What the end of a text is worth.                                        *)
(***************************************************************************)
Ending(chars, n) == [j \in Nat |-> IF j < n THEN chars[n-j] - Digit(0) ELSE 0]

LEMMA WorthIsValue ==
  ASSUME NEW chars \in Seq(Char), NEW n \in 0..Len(chars)
  PROVE  /\ Ending(chars, n) \in [Nat -> Int]
         /\ \A k : Worth(chars, n, k) = Value(Base, Ending(chars, n))[k]
         /\ \A j \in Nat : j < n => /\ n - j \in 1..Len(chars)
                                    /\ Ending(chars, n)[j] = chars[n-j] - Digit(0)
<1>1. ASSUME NEW j \in Nat, j < n
      PROVE  n - j \in 1..Len(chars) /\ chars[n-j] - Digit(0) \in Int
  <2>1. n - j \in 1..Len(chars)
    BY <1>1
  <2>2. chars[n-j] \in Char
    BY <2>1
  <2>3. chars[n-j] \in Nat
    BY <2>2, Characters
  <2> QED
    BY <2>1, <2>3 DEF Digit
<1>2. Ending(chars, n) \in [Nat -> Int]
  BY <1>1 DEF Ending
<1>3. \A k : Worth(chars, n, k) = Value(Base, Ending(chars, n))[k]
  BY DEF Worth, Ending
<1> QED
  BY <1>1, <1>2, <1>3 DEF Ending

\* One more character is one more digit, and the others are worth Base times as much.
LEMMA WorthShifts ==
  ASSUME NEW chars \in Seq(Char), NEW n \in Nat, n + 1 <= Len(chars), NEW k \in Nat
  PROVE  Worth(chars, n + 1, k + 1) = Worth(chars, n, k) * Base + (chars[n+1] - Digit(0))
<1> DEFINE d == Ending(chars, n)
           e == Ending(chars, n + 1)
<1>1. n \in 0..Len(chars) /\ n + 1 \in 0..Len(chars)
  OBVIOUS
<1>2. /\ d \in [Nat -> Int] /\ e \in [Nat -> Int]
      /\ Worth(chars, n, k) = Value(Base, d)[k]
      /\ Worth(chars, n + 1, k + 1) = Value(Base, e)[k+1]
  <2>1. d \in [Nat -> Int] /\ Worth(chars, n, k) = Value(Base, d)[k]
    BY <1>1, WorthIsValue
  <2>2. e \in [Nat -> Int] /\ Worth(chars, n + 1, k + 1) = Value(Base, e)[k+1]
    BY <1>1, WorthIsValue
  <2> QED
    BY <2>1, <2>2
<1>3. ASSUME NEW j \in Nat
      PROVE  e[j+1] = d[j]
  <2>1. (j + 1 < n + 1 <=> j < n) /\ (n + 1) - (j + 1) = n - j /\ j + 1 \in Nat
    OBVIOUS
  <2> QED
    BY <2>1 DEF Ending
<1>4. e[0] = chars[n+1] - Digit(0)
  <2>1. 0 < n + 1 /\ (n + 1) - 0 = n + 1
    OBVIOUS
  <2> QED
    BY <2>1 DEF Ending
<1> HIDE DEF d, e
<1>5. Value(Base, e)[k+1] = Value(Base, d)[k] * Base + e[0]
  <2>1. Base \in Nat \ {0}
    BY Bases
  <2>2. \A m \in Nat : Value(Base, e)[m+1] = Value(Base, d)[m] * Base + e[0]
    BY <1>2, <1>3, <2>1, ValueShifts
  <2> QED
    BY <2>2
<1> QED
  BY <1>2, <1>4, <1>5

\* The last k characters are digits.
DigitsAtEnd(chars, n, k) == \A m \in n-k+1..n : chars[m] \in DigitChar

\* k digits are worth less than Base to the k, ...
LEMMA WorthBelow ==
  ASSUME NEW chars \in Seq(Char), NEW n \in 0..Len(chars), NEW k \in 0..n,
         DigitsAtEnd(chars, n, k)
  PROVE  Worth(chars, n, k) \in 0..Powers(Base)[k]-1
<1> DEFINE d == Ending(chars, n)
           e == [j \in Nat |-> IF j < k THEN d[j] ELSE 0]
<1>1. d \in [Nat -> Int] /\ Worth(chars, n, k) = Value(Base, d)[k]
  BY WorthIsValue
<1>2. ASSUME NEW j \in Nat, j < k
      PROVE  d[j] \in 0..Base-1
  <2>1. j < n /\ n - j \in n-k+1..n
    BY <1>2
  <2>2. chars[n-j] \in DigitChar
    BY <2>1 DEF DigitsAtEnd
  <2>3. chars[n-j] - Digit(0) \in 0..Base-1
    BY <2>2, Characters
  <2>4. d[j] = chars[n-j] - Digit(0)
    BY <2>1, WorthIsValue
  <2> QED
    BY <2>3, <2>4
<1> HIDE DEF d
<1>3. 0 \in 0..Base-1
  BY Bases
<1>4. e \in [Nat -> 0..Base-1]
  BY <1>2, <1>3
<1>5. e \in [Nat -> Int]
  BY <1>4
<1>6. \A j \in Nat : j < k => d[j] = e[j]
  OBVIOUS
<1> HIDE DEF e
<1>7. k \in Nat
  OBVIOUS
<1>8. Value(Base, d)[k] = Value(Base, e)[k]
  <2>1. Base \in Nat \ {0}
    BY Bases
  <2> QED
    BY <1>1, <1>5, <1>6, <1>7, <2>1, ValueAgrees
<1>9. Value(Base, e)[k] \in 0..Powers(Base)[k]-1
  BY <1>4, <1>7, Bases, ValueBelow
<1> QED
  BY <1>1, <1>8, <1>9

\* ... and the remainder by that is what the last k of more digits are worth.
LEMMA WorthRemains ==
  ASSUME NEW chars \in Seq(Char), NEW n \in 0..Len(chars), NEW k \in 0..n, k <= Width,
         DigitsAtEnd(chars, n, k)
  PROVE  Worth(chars, n, k) % Powers(Base)[Width-1]
           = Worth(chars, n, IF k < Width THEN k ELSE Width - 1)
<1> DEFINE P == Powers(Base)
           m == Width - 1
<1>1. P \in [Nat -> Nat \ {0}] /\ m \in Nat /\ m + 1 = Width
  <2>1. P \in [Nat -> Nat \ {0}]
    BY Bases
  <2>2. m \in Nat /\ m + 1 = Width
    BY Bases
  <2> QED
    BY <2>1, <2>2
<1>2. P[m] \in Nat \ {0}
  BY <1>1
<1>3. CASE k < Width
  <2>1. k \in Nat /\ k <= m
    BY <1>1, <1>3
  <2>2. P[k] <= P[m] /\ P[k] \in Nat \ {0}
    BY <1>1, <2>1, Bases, PowersGrow
  <2>3. Worth(chars, n, k) \in 0..P[k]-1
    BY WorthBelow
  <2> HIDE DEF P, m
  <2>4. Worth(chars, n, k) \in 0..P[m]-1
    BY <1>2, <2>2, <2>3
  <2>5. (0 * P[m] + Worth(chars, n, k)) % P[m] = Worth(chars, n, k)
    BY <1>2, <2>4, DivisionIsUnique
  <2>6. 0 * P[m] + Worth(chars, n, k) = Worth(chars, n, k)
    BY <1>2, <2>4
  <2> QED
    BY <1>3, <2>5, <2>6 DEF P, m
<1>4. CASE k = Width
  <2> DEFINE d == Ending(chars, n)
             w == Worth(chars, n, m)
  <2>1. m \in 0..n /\ m < n /\ DigitsAtEnd(chars, n, m)
    BY <1>1, <1>4 DEF DigitsAtEnd
  <2>2. w \in 0..P[m]-1
    BY <2>1, WorthBelow
  <2>3. /\ d \in [Nat -> Int]
        /\ Worth(chars, n, k) = Value(Base, d)[k] /\ w = Value(Base, d)[m]
    BY WorthIsValue
  <2>4. Value(Base, d)[m+1] = Value(Base, d)[m] + d[m] * P[m]
    BY <1>1, <2>3, Bases, ValueLaw
  <2>5. d[m] \in Nat
    <3>1. d[m] = chars[n-m] - Digit(0) /\ n - m \in n-k+1..n
      BY <1>1, <1>4, <2>1, WorthIsValue
    <3>2. chars[n-m] \in DigitChar
      BY <3>1 DEF DigitsAtEnd
    <3>3. chars[n-m] - Digit(0) \in 0..Base-1
      BY <3>2, Characters
    <3> QED
      BY <3>1, <3>3
  <2> HIDE DEF P, m, d, w
  <2>6. Worth(chars, n, k) = w + d[m] * P[m]
    BY <1>1, <1>4, <2>3, <2>4
  <2>7. w + d[m] * P[m] = d[m] * P[m] + w
    BY <1>2, <2>2, <2>5
  <2>8. (d[m] * P[m] + w) % P[m] = w
    BY <1>2, <2>2, <2>5, DivisionIsUnique
  <2>9. Worth(chars, n, k) % P[m] = w
    BY <2>6, <2>7, <2>8
  <2> QED
    BY <1>4, <2>9 DEF P, m, w
<1>5. k < Width \/ k = Width
  BY Bases
<1> QED
  BY <1>3, <1>4, <1>5

(***************************************************************************)
(* The invariant.                                                          *)
(***************************************************************************)
\* bios_put_hex has written 0x and the n highest digits of the word.
Written(n) ==
  /\ Len(text) = n + 2 /\ text[1] = Digit(0) /\ text[2] = X
  /\ \A j \in 3..n+2 : text[j] = Digit((word \div Powers(Base)[Width+2-j]) % Base)

HexInv ==
  /\ pc = "put_hex" => copied /\ i \in -1..Width-1 /\ Written(Width - 1 - i)
  /\ pc \in {"typing", "prefix", "parse_hex", "parsed"} /\ copied => Written(Width)

First == IF HasPrefix THEN 3 ELSE 1
AtMost(n, m) == IF n < m THEN n ELSE m

\* parse_hex has read the digits up to i, and as many of the last as a word has.
ParseInv ==
  /\ pc = "prefix" => val = 0
  /\ pc = "parse_hex" =>
       /\ i \in First..Len(text)+1
       /\ \A m \in First..i-1 : text[m] \in DigitChar
       /\ val = Worth(text, i - 1, AtMost(i - First, Width))

NumbersInv == TypeOK /\ HexInv /\ ParseInv /\ ParsedIsLastDigits /\ DecimalSpells

\* A set's least member is its minimum.
LEMMA MinIs ==
  ASSUME NEW S, S \subseteq Int, NEW x \in S, \A y \in S : x <= y
  PROVE  Min(S) = x
<1> DEFINE least(y) == y \in S /\ \A z \in S : y <= z
<1>1. Min(S) = CHOOSE y : least(y)
  BY DEF Min
<1>2. least(x)
  OBVIOUS
<1>3. least(Min(S))
  <2> HIDE DEF least
  <2> QED
    BY <1>1, <1>2
<1>4. x <= Min(S) /\ Min(S) <= x /\ x \in Int /\ Min(S) \in Int
  BY <1>3
<1> QED
  BY <1>4

\* A shift keeps the digits a word has room for, and makes room for one more.
LEMMA ShiftLaw ==
  ASSUME TypeOK, ParseInv, pc = "parse_hex"
  PROVE  /\ Shifted = Base * Worth(text, i - 1, AtMost(i - First, Width - 1))
         /\ Shifted \div Base = Worth(text, i - 1, AtMost(i - First, Width - 1))
         /\ Worth(text, i - 1, AtMost(i - First, Width - 1)) \in 0..Powers(Base)[Width-1]-1
<1> DEFINE n == i - 1
           k == AtMost(i - First, Width)
           m == AtMost(i - First, Width - 1)
           p == Powers(Base)[Width-1]
<1>1. /\ text \in Seq(Char) /\ Len(text) \in Nat /\ val \in Nat
      /\ First \in Nat /\ First >= 1 /\ i \in First..Len(text)+1
      /\ Width \in Nat \ {0}
  <2>1. text \in Seq(Char) /\ val \in Nat
    BY Bases DEF TypeOK
  <2>2. First \in Nat /\ First >= 1
    BY DEF First
  <2>3. i \in First..Len(text)+1
    BY DEF ParseInv
  <2> QED
    BY <2>1, <2>2, <2>3, Bases
<1>2. /\ n \in 0..Len(text) /\ k \in 0..n /\ k <= Width /\ k <= i - First
      /\ m = IF k < Width THEN k ELSE Width - 1
  <2> HIDE DEF First
  <2> QED
    BY <1>1 DEF AtMost
<1>3. DigitsAtEnd(text, n, k)
  <2> SUFFICES ASSUME NEW j \in n-k+1..n
               PROVE  text[j] \in DigitChar
    BY DEF DigitsAtEnd
  <2>1. j \in First..i-1
    <3> HIDE DEF First, k
    <3> QED
      BY <1>1, <1>2
  <2> QED
    BY <2>1 DEF ParseInv
<1>4. val = Worth(text, n, k)
  BY DEF ParseInv
<1>5. p \in Nat \ {0} /\ Powers(Base)[Width] = Base * p
  BY Bases
<1> HIDE DEF n, k, m, p, First
<1>6. val % p = Worth(text, n, m)
  <2>1. Worth(text, n, k) % Powers(Base)[Width-1]
          = Worth(text, n, IF k < Width THEN k ELSE Width - 1)
    BY <1>1, <1>2, <1>3, WorthRemains
  <2> QED
    BY <1>2, <1>4, <2>1 DEF p
<1>7. val % p \in 0..p-1
  BY <1>1, <1>5, DivisionLaw
<1>8. (val * Base) % (Base * p) = Base * (val % p) /\ (Base * (val % p)) \div Base = val % p
  <2>1. Base \in Nat \ {0}
    BY Bases
  <2> QED
    BY <1>1, <1>5, <2>1, ShiftedOut
<1>9. Shifted = Base * (val % p)
  BY <1>5, <1>8 DEF Shifted
<1> QED
  BY <1>6, <1>7, <1>8, <1>9 DEF n, m, p

\* parse_hex's round for a digit.
LEMMA DigitParsed ==
  ASSUME TypeOK, ParseInv, ParseDigit
  PROVE  val' \in Word /\ ParseInv'
<1> DEFINE c == text[i] - Digit(0)
           n == i - 1
           m == AtMost(i - First, Width - 1)
           u == Worth(text, n, m)
           p == Powers(Base)[Width-1]
<1>1. /\ pc = "parse_hex" /\ i <= Len(text) /\ text[i] \in DigitChar
      /\ val' = Shifted + c /\ i' = i + 1 /\ pc' = pc /\ text' = text
  BY DEF ParseDigit
<1>2. Shifted = Base * u /\ u \in 0..p-1
  BY <1>1, ShiftLaw
<1>3. c \in 0..Base-1
  BY <1>1, Characters
<1>4. /\ Base \in Nat \ {0} /\ p \in Nat \ {0} /\ Powers(Base)[Width] = Base * p
      /\ Width \in Nat \ {0}
  BY Bases
<1>5. /\ text \in Seq(Char) /\ Len(text) \in Nat
      /\ First \in Nat /\ First >= 1 /\ i \in First..Len(text)+1
  <2>1. text \in Seq(Char)
    BY DEF TypeOK
  <2>2. First \in Nat /\ First >= 1
    BY DEF First
  <2>3. i \in First..Len(text)+1
    BY <1>1 DEF ParseInv
  <2> QED
    BY <2>1, <2>2, <2>3
<1>6. First' = First
  BY <1>1 DEF First, HasPrefix
<1>7. \A j \in First..i-1 : text[j] \in DigitChar
  BY <1>1 DEF ParseInv
<1> HIDE DEF c, u, p, First
<1>8. val' \in Word
  <2>1. Base * u \in Nat /\ Base * u <= Base * (p - 1)
    BY <1>2, <1>4
  <2>2. Base * (p - 1) = Base * p - Base /\ Base * p \in Nat
    BY <1>4
  <2>3. Base * u + c \in 0..Base*p-1
    BY <1>3, <1>4, <2>1, <2>2
  <2> QED
    BY <1>1, <1>2, <1>4, <2>3 DEF Word
<1>9. m \in Nat /\ m + 1 = AtMost(i + 1 - First, Width) /\ n \in Nat /\ n + 1 = i
  BY <1>4, <1>5 DEF AtMost
<1> HIDE DEF n, m
<1>10. Worth(text, n + 1, m + 1) = u * Base + c
  <2>1. n + 1 <= Len(text)
    BY <1>1, <1>9
  <2>2. Worth(text, n + 1, m + 1) = Worth(text, n, m) * Base + (text[n+1] - Digit(0))
    BY <1>5, <1>9, <2>1, WorthShifts
  <2> QED
    BY <1>9, <2>2 DEF u, c
<1>11. u * Base = Base * u
  BY <1>2, <1>4
<1>12. val' = Worth(text', i' - 1, AtMost(i' - First', Width))
  <2>1. i' - 1 = n + 1 /\ AtMost(i' - First', Width) = m + 1
    <3>1. i' - 1 = i /\ i' - First' = i + 1 - First
      BY <1>1, <1>5, <1>6
    <3> QED
      BY <1>9, <3>1
  <2> QED
    BY <1>1, <1>2, <1>10, <1>11, <2>1
<1>13. i' \in First'..Len(text')+1
  BY <1>1, <1>5, <1>6
<1>14. \A j \in First'..i'-1 : text'[j] \in DigitChar
  <2> SUFFICES ASSUME NEW j \in First..i
               PROVE  text[j] \in DigitChar
    <3>1. i' - 1 = i
      BY <1>1, <1>5
    <3> QED
      BY <1>1, <1>6, <3>1
  <2>1. j \in First..i-1 \/ j = i
    BY <1>5
  <2> QED
    BY <1>1, <1>7, <2>1
<1>15. ParseInv'
  BY <1>1, <1>12, <1>13, <1>14 DEF ParseInv
<1> QED
  BY <1>8, <1>15

\* parse_hex's round for a character that is no digit.
LEMMA StopParsed ==
  ASSUME TypeOK, ParseInv, ParseStop
  PROVE  val' \in Word /\ ParsedIsLastDigits'
<1> DEFINE m == AtMost(i - First, Width - 1)
           p == Powers(Base)[Width-1]
           stops == {n \in First..Len(text) : text[n] \notin DigitChar}
<1>1. /\ pc = "parse_hex" /\ i <= Len(text) /\ text[i] \notin DigitChar
      /\ val' = Shifted \div Base /\ text' = text
  BY DEF ParseStop, Unshifted
<1>2. val' = Worth(text, i - 1, m) /\ val' \in 0..p-1
  BY <1>1, ShiftLaw
<1>3. /\ Base \in Nat \ {0} /\ p \in Nat \ {0} /\ Powers(Base)[Width] = Base * p
      /\ Width \in Nat \ {0}
  BY Bases
<1>4. Len(text) \in Nat /\ First \in Nat /\ i \in First..Len(text)+1
  <2>1. text \in Seq(Char)
    BY DEF TypeOK
  <2>2. First \in Nat
    BY DEF First
  <2>3. i \in First..Len(text)+1
    BY <1>1 DEF ParseInv
  <2> QED
    BY <2>1, <2>2, <2>3
<1>5. \A j \in First..i-1 : text[j] \in DigitChar
  BY <1>1 DEF ParseInv
<1>6. val' \in Word
  <2>1. \A x \in Nat : x <= Base * x
    BY <1>3
  <2>2. p <= Base * p /\ Base * p \in Nat
    BY <1>3, <2>1
  <2> QED
    BY <1>2, <1>3, <2>2 DEF Word
<1> HIDE DEF First
<1>7. stops # {} /\ Min(stops) = i
  <2>1. i \in stops /\ stops \subseteq Int
    BY <1>1, <1>4
  <2>2. \A y \in stops : i <= y
    BY <1>4, <1>5
  <2> HIDE DEF stops
  <2> QED
    BY <2>1, <2>2, MinIs
<1>8. (i - 1) - First + 1 = i - First
  BY <1>4
<1> DEFINE Parsed(first, st) ==
             LET last   == IF st = {} THEN Len(text) ELSE Min(st) - 1
                 room   == IF st = {} THEN Width ELSE Width - 1
                 number == last - first + 1
             IN  val' = Worth(text, last, IF number < room THEN number ELSE room)
<1>9. Parsed(First, stops)
  <2> HIDE DEF stops
  <2> QED
    BY <1>2, <1>7, <1>8 DEF AtMost
<1>10. ParsedIsLastDigits'
  <2> HIDE DEF Parsed
  <2>1. Parsed(IF HasPrefix THEN 3 ELSE 1,
               {n \in (IF HasPrefix THEN 3 ELSE 1)..Len(text) : text[n] \notin DigitChar})
    BY <1>9 DEF First
  <2> QED
    BY <1>1, <2>1 DEF ParsedIsLastDigits, HasPrefix, Parsed
<1> QED
  BY <1>6, <1>10

\* The end of the argument ends parse_hex.
LEMMA EndParsed ==
  ASSUME TypeOK, ParseInv, ParseEnd
  PROVE  ParsedIsLastDigits'
<1> DEFINE stops == {n \in First..Len(text) : text[n] \notin DigitChar}
<1>1. pc = "parse_hex" /\ i > Len(text) /\ val' = val /\ text' = text
  BY DEF ParseEnd
<1>2. Len(text) \in Nat /\ First \in Nat /\ i \in First..Len(text)+1
  <2>1. text \in Seq(Char)
    BY DEF TypeOK
  <2>2. First \in Nat
    BY DEF First
  <2>3. i \in First..Len(text)+1
    BY <1>1 DEF ParseInv
  <2> QED
    BY <2>1, <2>2, <2>3
<1>3. /\ \A j \in First..i-1 : text[j] \in DigitChar
      /\ val = Worth(text, i - 1, AtMost(i - First, Width))
  BY <1>1 DEF ParseInv
<1> HIDE DEF First
<1>4. i - 1 = Len(text) /\ Len(text) - First + 1 = i - First
  BY <1>1, <1>2
<1>5. stops = {}
  BY <1>3, <1>4
<1> DEFINE Parsed(first, st) ==
             LET last   == IF st = {} THEN Len(text) ELSE Min(st) - 1
                 room   == IF st = {} THEN Width ELSE Width - 1
                 number == last - first + 1
             IN  val = Worth(text, last, IF number < room THEN number ELSE room)
<1>6. Parsed(First, stops)
  <2> HIDE DEF stops
  <2> QED
    BY <1>3, <1>4, <1>5 DEF AtMost
<1> HIDE DEF Parsed
<1>7. Parsed(IF HasPrefix THEN 3 ELSE 1,
             {n \in (IF HasPrefix THEN 3 ELSE 1)..Len(text) : text[n] \notin DigitChar})
  BY <1>6 DEF First
<1> QED
  BY <1>1, <1>7 DEF ParsedIsLastDigits, HasPrefix, Parsed

\* bios_put_hex's round.
LEMMA NibbleWritten ==
  ASSUME TypeOK, HexInv, PutNibble
  PROVE  text' \in Seq(Char) /\ Len(text') <= MaxText /\ HexInv'
<1> DEFINE d == (word \div Powers(Base)[i]) % Base
           n == Width - 1 - i
<1>1. /\ pc = "put_hex" /\ i >= 0 /\ text' = Append(text, Digit(d)) /\ i' = i - 1
      /\ pc' = pc /\ word' = word /\ copied' = copied
  BY DEF PutNibble, MoreNibbles
<1>2. copied /\ i \in -1..Width-1 /\ Written(n)
  BY <1>1 DEF HexInv
<1>3. Width \in Nat \ {0} /\ MaxText \in Nat /\ MaxText > Width + 2
  BY NumbersAssumption
<1>4. i \in Nat /\ n \in Nat /\ n + 2 < Width + 2 /\ Width + 2 - (n + 3) = i
  BY <1>1, <1>2, <1>3
<1>5. Digit(d) \in Char
  <2>1. Powers(Base)[i] \in Nat \ {0} /\ word \in Nat /\ Base \in Nat \ {0}
    <3>1. Powers(Base) \in [Nat -> Nat \ {0}]
      BY Bases
    <3>2. word \in Nat
      BY Bases DEF TypeOK
    <3> QED
      BY <1>4, <3>1, <3>2, Bases
  <2>2. d \in 0..Base-1
    <3>1. word \div Powers(Base)[i] \in Nat
      BY <2>1, DivisionLaw
    <3> QED
      BY <2>1, <3>1, DivisionLaw
  <2> HIDE DEF d
  <2> QED
    BY <2>2, Characters
<1> HIDE DEF n
<1>6. text \in Seq(Char) /\ Len(text) = n + 2
  BY <1>2 DEF TypeOK, Written
<1>7. /\ text' \in Seq(Char) /\ Len(text') = n + 3
      /\ text'[n+3] = Digit(d) /\ \A j \in 1..n+2 : text'[j] = text[j]
  <2> HIDE DEF d
  <2> QED
    BY <1>1, <1>4, <1>5, <1>6
<1>8. Written(n)'
  <2>1. text'[1] = Digit(0) /\ text'[2] = X
    <3>1. 1 \in 1..n+2 /\ 2 \in 1..n+2
      BY <1>4
    <3> QED
      BY <1>2, <1>7, <3>1 DEF Written
  <2>2. ASSUME NEW j \in 3..n+3
        PROVE  text'[j] = Digit((word \div Powers(Base)[Width+2-j]) % Base)
    <3>1. CASE j = n + 3
      BY <1>4, <1>7, <3>1
    <3>2. CASE j # n + 3
      <4>1. j \in 3..n+2 /\ j \in 1..n+2
        BY <1>4, <3>2
      <4> QED
        BY <1>2, <1>7, <4>1 DEF Written
    <3> QED
      BY <3>1, <3>2
  <2>3. (n + 1) + 2 = n + 3 /\ n' = n + 1
    BY <1>1, <1>2, <1>3, <1>4 DEF n
  <2> HIDE DEF d
  <2>4. Len(text') = (n + 1) + 2
    BY <1>7, <2>3
  <2>5. \A j \in 3..(n+1)+2 : text'[j] = Digit((word' \div Powers(Base)[Width+2-j]) % Base)
    BY <1>1, <2>2, <2>3
  <2> QED
    BY <2>1, <2>3, <2>4, <2>5 DEF Written
<1>9. Width - 1 - i' = n + 1 /\ i' \in -1..Width-1
  BY <1>1, <1>2, <1>3, <1>4 DEF n
<1>10. HexInv'
  BY <1>1, <1>2, <1>8, <1>9 DEF HexInv, n
<1> QED
  BY <1>3, <1>4, <1>7, <1>10

\* bios_put_dec's round.
LEMMA DecimalStored ==
  ASSUME TypeOK, DecimalSpells, PutDecimal
  PROVE  /\ val' \in Word /\ buf' \in Seq(0..DecBase-1) /\ Len(buf') <= BufLen - 1
         /\ DecimalSpells'
<1> DEFINE P == Powers(DecBase)
           n == Len(buf)
           d == Upwards(buf, n)
           e == Upwards(buf', n + 1)
           q == val \div DecBase
           r == val % DecBase
<1>1. /\ pc = "put_dec" /\ val > 0 /\ buf' = <<r>> \o buf /\ val' = q
      /\ word' = word
  BY DEF PutDecimal, Stored
<1>2. /\ val \in Nat /\ word \in Nat /\ val \in Word /\ word \in Word
      /\ buf \in Seq(0..DecBase-1) /\ n \in Nat
      /\ DecBase \in Nat \ {0} /\ DecBase >= 2 /\ BufLen \in Nat \ {0}
  BY Bases, NumbersAssumption DEF TypeOK
<1>3. q \in Nat /\ r \in 0..DecBase-1 /\ val = q * DecBase + r
  BY <1>2, DivisionLaw
<1>4. P \in [Nat -> Nat \ {0}] /\ P[n+1] = DecBase * P[n] /\ P[n] \in Nat \ {0}
  BY <1>2, PowersLaw
<1> HIDE DEF q, r, n, P
<1>5. /\ buf' \in Seq(0..DecBase-1) /\ Len(buf') = n + 1
      /\ buf'[1] = r /\ \A j \in 1..n : buf'[j+1] = buf[j]
  BY <1>1, <1>2, <1>3 DEF n
<1>6. d \in [Nat -> 0..DecBase-1]
  <2>1. \A j \in Nat : j < n => buf[n-j] \in 0..DecBase-1
    <3> SUFFICES ASSUME NEW j \in Nat, j < n
                 PROVE  buf[n-j] \in 0..DecBase-1
      OBVIOUS
    <3>1. n - j \in 1..Len(buf)
      BY <1>2 DEF n
    <3> QED
      BY <1>2, <3>1
  <2>2. 0 \in 0..DecBase-1
    BY <1>2
  <2> QED
    BY <2>1, <2>2 DEF Upwards
<1>7. e \in [Nat -> Int] /\ e[n] = r /\ \A j \in Nat : j < n => e[j] = d[j]
  <2>1. \A j \in Nat : j < n + 1 => buf'[(n+1)-j] \in Int
    <3>1. \A m \in 1..n+1 : buf'[m] \in Int
      BY <1>2, <1>5
    <3>2. \A j \in Nat : j < n + 1 => (n + 1) - j \in 1..n+1
      BY <1>2
    <3> QED
      BY <3>1, <3>2
  <2>2. e \in [Nat -> Int]
    BY <2>1 DEF Upwards
  <2>3. e[n] = r
    <3>1. n < n + 1 /\ (n + 1) - n = 1
      BY <1>2
    <3> QED
      BY <1>2, <1>5, <3>1 DEF Upwards
  <2>4. ASSUME NEW j \in Nat, j < n
        PROVE  e[j] = d[j]
    <3>1. j < n + 1 /\ (n + 1) - j = (n - j) + 1 /\ n - j \in 1..n
      BY <1>2, <2>4
    <3> QED
      BY <1>5, <2>4, <3>1 DEF Upwards
  <2> QED
    BY <2>2, <2>3, <2>4
<1>8. val * P[n] + Value(DecBase, d)[n] = word
  BY <1>1 DEF DecimalSpells, P, n
<1> HIDE DEF d, e
<1>9. Value(DecBase, d)[n] \in Nat
  <2>1. Value(DecBase, d)[n] \in 0..Powers(DecBase)[n]-1
    BY <1>2, <1>6, ValueBelow
  <2>2. Powers(DecBase)[n] \in Nat
    BY <1>4 DEF P
  <2> QED
    BY <2>1, <2>2
<1>10. n < BufLen - 1
  <2> SUFFICES ASSUME BufLen - 1 <= n
               PROVE  FALSE
    BY <1>2
  <2>1. P[BufLen-1] <= P[n]
    <3>1. BufLen - 1 \in Nat
      BY <1>2
    <3> QED
      BY <1>2, <3>1, PowersGrow DEF P
  <2>2. P[n] <= val * P[n] /\ val * P[n] \in Nat
    <3>1. ASSUME NEW v \in Nat \ {0}, NEW p \in Nat \ {0}
          PROVE  p <= v * p /\ v * p \in Nat
      OBVIOUS
    <3>2. val \in Nat \ {0}
      BY <1>1, <1>2
    <3> QED
      BY <1>4, <3>1, <3>2
  <2>3. word < Powers(Base)[Width] /\ Powers(Base)[Width] \in Nat
    <3>1. Powers(Base)[Width] \in Nat \ {0}
      BY Bases
    <3> QED
      BY <1>2, <3>1 DEF Word
  <2>4. P[BufLen-1] >= Powers(Base)[Width] /\ P[BufLen-1] \in Nat
    <3>1. BufLen - 1 \in Nat
      BY <1>2
    <3>2. P[BufLen-1] \in Nat \ {0}
      BY <1>4, <3>1
    <3> QED
      BY <3>2, NumbersAssumption DEF P
  <2>5. P[n] <= word
    <3> DEFINE a == val * P[n]
               v == Value(DecBase, d)[n]
    <3>1. a + v = word /\ a \in Nat /\ v \in Nat /\ P[n] <= a
      BY <1>8, <1>9, <2>2
    <3> HIDE DEF a, v
    <3> QED
      BY <1>4, <3>1
  <2> QED
    <3> DEFINE a == P[BufLen-1]
               b == P[n]
               c == Powers(Base)[Width]
    <3>1. a <= b /\ b <= word /\ word < c /\ c <= a /\ a \in Nat /\ b \in Nat /\ c \in Nat
      BY <1>4, <2>1, <2>3, <2>4, <2>5
    <3> HIDE DEF a, b, c
    <3> QED
      BY <1>2, <3>1
<1>11. q * P[n+1] + Value(DecBase, e)[n+1] = word
  <2>1. Value(DecBase, e)[n+1] = Value(DecBase, e)[n] + r * P[n]
    BY <1>2, <1>7, ValueLaw DEF P
  <2>2. Value(DecBase, e)[n] = Value(DecBase, d)[n]
    <3>1. d \in [Nat -> Int]
      BY <1>6
    <3> QED
      BY <1>2, <1>7, <3>1, ValueAgrees
  <2> DEFINE v == Value(DecBase, d)[n]
             p == P[n]
  <2> HIDE DEF v, p
  <2>3. v \in Nat /\ p \in Nat
    BY <1>4, <1>9 DEF v, p
  <2>4. (q * DecBase + r) * p + v = q * (DecBase * p) + (v + r * p)
    <3>1. ASSUME NEW b \in Nat
          PROVE  (q * b + r) * p = q * (b * p) + r * p
      BY <1>3, <2>3
    <3> DEFINE a == q * (DecBase * p)
               c == r * p
    <3>2. a \in Nat /\ c \in Int
      BY <1>2, <1>3, <2>3
    <3>3. (q * DecBase + r) * p = a + c
      BY <1>2, <3>1
    <3> HIDE DEF a, c
    <3>4. (a + c) + v = a + (v + c)
      BY <2>3, <3>2
    <3> QED
      BY <3>3, <3>4 DEF a, c
  <2> QED
    BY <1>3, <1>4, <1>8, <2>1, <2>2, <2>4 DEF v, p
<1>12. DecimalSpells'
  <2>1. q = 0 => r # 0
    BY <1>1, <1>2, <1>3
  <2> QED
    BY <1>1, <1>5, <1>11, <2>1 DEF DecimalSpells, P, e
<1>13. val' \in Word
  <2>1. q <= q * DecBase /\ q * DecBase \in Nat
    BY <1>2, <1>3
  <2>2. q <= val
    <3> DEFINE a == q * DecBase
    <3>1. q <= a /\ a \in Nat /\ val = a + r /\ r \in Nat
      BY <1>2, <1>3, <2>1
    <3> HIDE DEF a
    <3> QED
      BY <1>3, <3>1
  <2>3. Powers(Base)[Width] \in Nat
    <3>1. Powers(Base)[Width] \in Nat \ {0}
      BY Bases
    <3> QED
      BY <3>1
  <2> QED
    BY <1>1, <1>2, <1>3, <2>2, <2>3 DEF Word
<1> QED
  BY <1>2, <1>5, <1>10, <1>12, <1>13

(***************************************************************************)
(* What a step leaves alone.                                               *)
(***************************************************************************)
LEMMA ParseKept ==
  ASSUME ParseInv, UNCHANGED <<pc, text, i, val>>
  PROVE  ParseInv'
<1>1. First' = First
  BY DEF First, HasPrefix
<1> QED
  BY <1>1 DEF ParseInv

LEMMA HexKept ==
  ASSUME HexInv, UNCHANGED <<pc, word, text, copied, i>>
  PROVE  HexInv'
BY DEF HexInv, Written

\* Typed text that has not been changed is the text that was written.
LEMMA TextKept ==
  ASSUME HexInv, UNCHANGED <<word, text, copied>>,
         pc \in {"typing", "prefix", "parse_hex", "parsed"},
         pc' \in {"typing", "prefix", "parse_hex", "parsed"}
  PROVE  HexInv'
<1>1. copied => Written(Width)
  BY DEF HexInv
<1>2. copied' => Written(Width)'
  BY <1>1 DEF Written
<1> QED
  BY <1>2 DEF HexInv

\* What says nothing where another routine runs.
NotParsed  == pc \notin {"prefix", "parse_hex", "parsed"}
NotDecimal == pc # "put_dec"
NotHex     == pc \notin {"put_hex", "typing", "prefix", "parse_hex", "parsed"}

LEMMA Aside ==
  /\ NotParsed' => ParseInv' /\ ParsedIsLastDigits'
  /\ NotDecimal' => DecimalSpells'
  /\ NotHex' => HexInv' /\ ParseInv' /\ ParsedIsLastDigits'
BY DEF NotParsed, NotDecimal, NotHex, ParseInv, ParsedIsLastDigits, DecimalSpells, HexInv

(***************************************************************************)
(* The invariant is inductive.                                             *)
(***************************************************************************)
LEMMA InvInitially == Init => NumbersInv
<1> SUFFICES ASSUME Init
             PROVE  NumbersInv
  OBVIOUS
<1>1. /\ Base \in 2..36 /\ Width \in Nat \ {0} /\ DecBase \in 2..10
      /\ BufLen \in Nat \ {0} /\ MaxText \in Nat /\ MaxText > Width + 2
  BY NumbersAssumption
<1>2. word \in Word /\ Word \subseteq Nat /\ 0 \in Word /\ Digit(0) \in Char /\ X \in Char
  <2>1. 0 \in 0..Base-1
    BY <1>1
  <2>2. Digit(0) \in Char
    BY <2>1, Characters
  <2> QED
    BY <2>2, Bases, Characters DEF Init
<1>3. CASE pc = "put_hex"
  <2>1. text = <<Digit(0), X>> /\ i = Width - 1 /\ val = 0 /\ copied = TRUE /\ buf = <<>> /\ shown = <<>>
    BY <1>3 DEF Init
  <2>2. text \in Seq(Char) /\ Len(text) = 2
    BY <1>2, <2>1
  <2>3. TypeOK
    BY <1>1, <1>2, <1>3, <2>1, <2>2 DEF TypeOK
  <2>4. Written(Width - 1 - i)
    <3>1. Width - 1 - i = 0
      BY <1>1, <2>1
    <3>2. \A j \in 3..0+2 : FALSE
      OBVIOUS
    <3> QED
      BY <2>1, <2>2, <3>1, <3>2 DEF Written
  <2>5. HexInv
    BY <1>1, <1>3, <2>1, <2>4 DEF HexInv
  <2> QED
    BY <1>3, <2>3, <2>5 DEF NumbersInv, ParseInv, ParsedIsLastDigits, DecimalSpells
<1>4. CASE pc = "put_dec"
  <2>1. text = <<>> /\ i = 0 /\ val = word /\ copied = TRUE /\ buf = <<>> /\ shown = <<>>
    BY <1>4 DEF Init
  <2>2. TypeOK
    BY <1>1, <1>2, <1>4, <2>1 DEF TypeOK
  <2>3. DecimalSpells
    <3> DEFINE d == Upwards(buf, Len(buf))
    <3>1. Len(buf) = 0 /\ \A j \in Nat : ~(j < 0)
      BY <2>1
    <3>2. d \in [Nat -> Int]
      BY <3>1 DEF Upwards
    <3>3. Value(DecBase, d)[0] = 0 /\ Powers(DecBase)[0] = 1
      BY <3>2, Bases, ValueLaw, PowersLaw
    <3>4. word * 1 + 0 = word
      BY <1>2
    <3> QED
      BY <2>1, <3>1, <3>3, <3>4 DEF DecimalSpells
  <2> QED
    BY <1>4, <2>2, <2>3 DEF NumbersInv, HexInv, ParseInv, ParsedIsLastDigits
<1> QED
  BY <1>3, <1>4 DEF Init

LEMMA InvPreserved == NumbersInv /\ [Next]_vars => NumbersInv'
<1> SUFFICES ASSUME NumbersInv, [Next]_vars
             PROVE  NumbersInv'
  OBVIOUS
<1>1. /\ Base \in 2..36 /\ Width \in Nat \ {0} /\ DecBase \in 2..10
      /\ BufLen \in Nat \ {0} /\ MaxText \in Nat /\ MaxText > Width + 2
      /\ Width - 1 \in Nat
  BY NumbersAssumption
<1>2. TypeOK /\ HexInv /\ ParseInv /\ ParsedIsLastDigits /\ DecimalSpells /\ 0 \in Word
  BY Bases DEF NumbersInv
<1>3. CASE PutNibble
  <2>1. /\ pc = "put_hex" /\ pc' = pc /\ i' = i - 1 /\ i >= 0
        /\ UNCHANGED <<word, copied, val, buf, shown>>
    BY <1>3 DEF PutNibble, MoreNibbles
  <2>2. text' \in Seq(Char) /\ Len(text') <= MaxText /\ HexInv'
    BY <1>2, <1>3, NibbleWritten
  <2>3. TypeOK'
    BY <1>1, <1>2, <2>1, <2>2 DEF TypeOK
  <2>4. NotParsed' /\ NotDecimal'
    BY <2>1 DEF NotParsed, NotDecimal
  <2> QED
    BY <2>2, <2>3, <2>4, Aside DEF NumbersInv
<1>4. CASE HexPut
  <2>1. /\ pc = "put_hex" /\ pc' = "typing" /\ ~(i >= 0)
        /\ UNCHANGED <<word, text, copied, i, val, buf, shown>>
    BY <1>4 DEF HexPut, MoreNibbles
  <2>2. TypeOK'
    BY <1>2, <2>1 DEF TypeOK
  <2>3. i = -1 /\ Width - 1 - i = Width /\ Written(Width - 1 - i)
    BY <1>1, <1>2, <2>1 DEF HexInv
  <2>4. Written(Width)'
    BY <2>1, <2>3 DEF Written
  <2>5. HexInv'
    BY <2>1, <2>4 DEF HexInv
  <2>6. NotParsed' /\ NotDecimal'
    BY <2>1 DEF NotParsed, NotDecimal
  <2> QED
    BY <2>2, <2>5, <2>6, Aside DEF NumbersInv
<1>5. CASE PutDecimal
  <2>1. pc = "put_dec" /\ UNCHANGED <<pc, word, text, copied, i, shown>>
    BY <1>5 DEF PutDecimal
  <2>2. /\ val' \in Word /\ buf' \in Seq(0..DecBase-1) /\ Len(buf') <= BufLen - 1
        /\ DecimalSpells'
    BY <1>2, <1>5, DecimalStored
  <2>3. TypeOK'
    BY <1>2, <2>1, <2>2 DEF TypeOK
  <2>4. NotHex'
    BY <2>1 DEF NotHex
  <2> QED
    BY <2>2, <2>3, <2>4, Aside DEF NumbersInv
<1>6. CASE DecimalPut
  <2> DEFINE zeros == {n \in 1..Len(buf) : buf[n] = 0}
  <2>1. /\ pc = "put_dec" /\ pc' = "shown"
        /\ UNCHANGED <<word, text, copied, i, val, buf>>
        /\ \/ shown' = <<0>>
           \/ shown' = buf
           \/ zeros # {} /\ shown' = SubSeq(buf, 1, Min(zeros) - 1)
    <3> HIDE DEF zeros
    <3>1. shown' = IF word = 0 THEN <<0>>
                   ELSE IF zeros = {} THEN buf ELSE SubSeq(buf, 1, Min(zeros) - 1)
      BY <1>6 DEF DecimalPut, zeros
    <3>2. /\ pc = "put_dec" /\ pc' = "shown"
          /\ UNCHANGED <<word, text, copied, i, val, buf>>
      BY <1>6 DEF DecimalPut
    <3> QED
      BY <3>1, <3>2
  <2>2. shown' \in Seq(0..DecBase-1)
    <3>1. buf \in Seq(0..DecBase-1) /\ 0 \in 0..DecBase-1
      BY <1>1, <1>2 DEF TypeOK
    <3>2. <<0>> \in Seq(0..DecBase-1)
      BY <3>1
    <3>3. CASE zeros # {} /\ shown' = SubSeq(buf, 1, Min(zeros) - 1)
      <4>1. PICK n \in zeros : \A m \in zeros : n <= m
        <5>1. zeros \subseteq Nat
          BY <3>1
        <5> HIDE DEF zeros
        <5> QED
          BY <3>3, <5>1, LeastOne
      <4>2. Min(zeros) = n
        <5>1. zeros \subseteq Int
          BY <3>1
        <5> HIDE DEF zeros
        <5> QED
          BY <4>1, <5>1, MinIs
      <4>3. n \in 1..Len(buf)
        BY <4>1
      <4> HIDE DEF zeros
      <4>4. \A m \in 1..n-1 : buf[m] \in 0..DecBase-1
        <5>1. ASSUME NEW m \in 1..Len(buf)
              PROVE  buf[m] \in 0..DecBase-1
          <6> DEFINE S == 0..DecBase-1
          <6>1. buf \in Seq(S)
            BY <3>1
          <6> HIDE DEF S
          <6>2. buf[m] \in S
            BY <6>1
          <6> QED
            BY <6>2 DEF S
        <5>2. \A m \in 1..n-1 : m \in 1..Len(buf)
          BY <3>1, <4>3
        <5> QED
          BY <5>1, <5>2
      <4>5. SubSeq(buf, 1, n - 1) \in Seq(0..DecBase-1)
        BY <3>1, <4>3, <4>4
      <4> QED
        BY <3>3, <4>2, <4>5
    <3> HIDE DEF zeros
    <3> QED
      BY <2>1, <3>1, <3>2, <3>3
  <2>3. TypeOK'
    BY <1>2, <2>1, <2>2 DEF TypeOK
  <2>4. NotHex'
    BY <2>1 DEF NotHex
  <2>5. NotDecimal'
    BY <2>1 DEF NotDecimal
  <2> QED
    BY <2>3, <2>4, <2>5, Aside DEF NumbersInv
<1>7. CASE TypeAnew \/ TypeMore
  <2>1. /\ pc = "typing" /\ copied' = FALSE /\ word' = 0
        /\ UNCHANGED <<pc, i, val, buf, shown>>
    BY <1>7 DEF TypeAnew, TypeMore
  <2>2. text' \in Seq(Char) /\ Len(text') <= MaxText
    <3>1. text \in Seq(Char)
      BY <1>2 DEF TypeOK
    <3>2. CASE TypeAnew
      <4>1. PICK c \in Char : text' = <<c>>
        BY <3>2 DEF TypeAnew
      <4> QED
        BY <1>1, <4>1
    <3>3. CASE TypeMore
      <4>1. PICK c \in Char : text' = Append(text, c)
        BY <3>3 DEF TypeMore
      <4>2. Len(text) < MaxText
        BY <3>3 DEF TypeMore
      <4> QED
        BY <1>1, <3>1, <4>1, <4>2
    <3> QED
      BY <1>7, <3>2, <3>3
  <2>3. TypeOK'
    BY <1>2, <2>1, <2>2 DEF TypeOK
  <2>4. HexInv' /\ NotParsed' /\ NotDecimal'
    BY <2>1 DEF HexInv, NotParsed, NotDecimal
  <2> QED
    BY <2>3, <2>4, Aside DEF NumbersInv
<1>8. CASE RunCommand
  <2>1. /\ pc = "typing" /\ pc' = "prefix" /\ i' = 1 /\ val' = 0
        /\ UNCHANGED <<word, text, copied, buf, shown>>
    BY <1>8 DEF RunCommand
  <2>2. TypeOK'
    BY <1>1, <1>2, <2>1 DEF TypeOK
  <2>3. HexInv'
    BY <1>2, <2>1, TextKept
  <2>4. ParseInv' /\ ParsedIsLastDigits' /\ DecimalSpells'
    BY <2>1 DEF ParseInv, ParsedIsLastDigits, DecimalSpells
  <2> QED
    BY <2>2, <2>3, <2>4 DEF NumbersInv
<1>9. CASE SkipPrefix
  <2>1. /\ pc = "prefix" /\ pc' = "parse_hex" /\ i' = First
        /\ UNCHANGED <<word, text, copied, val, buf, shown>>
    BY <1>9 DEF SkipPrefix, First
  <2>2. First \in {1, 3} /\ First <= Len(text) + 1 /\ First' = First
    <3>1. text \in Seq(Char) /\ Len(text) \in Nat
      BY <1>2 DEF TypeOK
    <3> QED
      BY <2>1, <3>1 DEF First, HasPrefix
  <2> HIDE DEF First
  <2>3. TypeOK'
    BY <1>1, <1>2, <2>1, <2>2 DEF TypeOK
  <2>4. HexInv'
    BY <1>2, <2>1, TextKept
  <2>5. ParseInv'
    <3> DEFINE n == i' - 1
    <3>1. val' = 0
      BY <1>2, <2>1 DEF ParseInv
    <3>2. text \in Seq(Char) /\ n \in 0..Len(text)
      <4>1. text \in Seq(Char) /\ Len(text) \in Nat
        BY <1>2 DEF TypeOK
      <4> QED
        BY <2>1, <2>2, <4>1
    <3> HIDE DEF n
    <3>3. Worth(text, n, 0) = 0
      <4>1. Ending(text, n) \in [Nat -> Int] /\ Worth(text, n, 0) = Value(Base, Ending(text, n))[0]
        BY <3>2, WorthIsValue
      <4>2. Base \in Nat \ {0}
        BY Bases
      <4> QED
        BY <4>1, <4>2, ValueLaw
    <3>4. AtMost(i' - First', Width) = 0
      <4>1. i' - First' = 0 /\ 0 < Width
        BY <1>1, <2>1, <2>2
      <4> QED
        BY <4>1 DEF AtMost
    <3>5. i' \in First'..Len(text')+1 /\ \A m \in First'..i'-1 : FALSE
      <4>1. text \in Seq(Char) /\ Len(text) \in Nat
        BY <1>2 DEF TypeOK
      <4> QED
        BY <2>1, <2>2, <4>1
    <3>6. val' = Worth(text', i' - 1, AtMost(i' - First', Width))
      BY <2>1, <3>1, <3>3, <3>4 DEF n
    <3> QED
      BY <2>1, <3>5, <3>6 DEF ParseInv
  <2>6. ParsedIsLastDigits' /\ DecimalSpells'
    BY <2>1 DEF ParsedIsLastDigits, DecimalSpells
  <2> QED
    BY <2>3, <2>4, <2>5, <2>6 DEF NumbersInv
<1>10. CASE ParseDigit
  <2>1. /\ pc = "parse_hex" /\ i' = i + 1 /\ i <= Len(text)
        /\ UNCHANGED <<pc, word, text, copied, buf, shown>>
    BY <1>10 DEF ParseDigit
  <2>2. val' \in Word /\ ParseInv'
    BY <1>2, <1>10, DigitParsed
  <2>3. TypeOK'
    BY <1>1, <1>2, <2>1, <2>2 DEF TypeOK
  <2>4. HexInv'
    BY <1>2, <2>1, TextKept
  <2>5. ParsedIsLastDigits' /\ DecimalSpells'
    BY <2>1 DEF ParsedIsLastDigits, DecimalSpells
  <2> QED
    BY <2>2, <2>3, <2>4, <2>5 DEF NumbersInv
<1>11. CASE ParseStop
  <2>1. /\ pc = "parse_hex" /\ pc' = "parsed"
        /\ UNCHANGED <<word, text, copied, i, buf, shown>>
    BY <1>11 DEF ParseStop
  <2>2. val' \in Word /\ ParsedIsLastDigits'
    BY <1>2, <1>11, StopParsed
  <2>3. TypeOK'
    BY <1>2, <2>1, <2>2 DEF TypeOK
  <2>4. HexInv'
    BY <1>2, <2>1, TextKept
  <2>5. ParseInv' /\ DecimalSpells'
    BY <2>1 DEF ParseInv, DecimalSpells
  <2> QED
    BY <2>2, <2>3, <2>4, <2>5 DEF NumbersInv
<1>12. CASE ParseEnd
  <2>1. /\ pc = "parse_hex" /\ pc' = "parsed"
        /\ UNCHANGED <<word, text, copied, i, val, buf, shown>>
    BY <1>12 DEF ParseEnd
  <2>2. ParsedIsLastDigits'
    BY <1>2, <1>12, EndParsed
  <2>3. TypeOK'
    BY <1>2, <2>1 DEF TypeOK
  <2>4. HexInv'
    BY <1>2, <2>1, TextKept
  <2>5. ParseInv' /\ DecimalSpells'
    BY <2>1 DEF ParseInv, DecimalSpells
  <2> QED
    BY <2>2, <2>3, <2>4, <2>5 DEF NumbersInv
<1>13. CASE UNCHANGED vars
  <2>1. UNCHANGED <<pc, word, text, copied, i, val, buf, shown>>
    BY <1>13 DEF vars
  <2>2. TypeOK'
    BY <1>2, <2>1 DEF TypeOK
  <2>3. HexInv' /\ ParseInv'
    BY <1>2, <2>1, HexKept, ParseKept
  <2>4. ParsedIsLastDigits'
    BY <1>2, <2>1 DEF ParsedIsLastDigits, HasPrefix
  <2>5. DecimalSpells'
    BY <1>2, <2>1 DEF DecimalSpells
  <2> QED
    BY <2>2, <2>3, <2>4, <2>5 DEF NumbersInv
<1> QED
  BY <1>3, <1>4, <1>5, <1>6, <1>7, <1>8, <1>9, <1>10, <1>11, <1>12, <1>13 DEF Next

LEMMA InvHolds == Spec => []NumbersInv
  BY InvInitially, InvPreserved, PTL DEF Spec

(***************************************************************************)
(* The theorems.                                                           *)
(***************************************************************************)
\* Every variable keeps its type: in particular bios_put_dec's buffer is never
\* too small for a word, and parse_hex's val stays a word.
THEOREM NumbersTypes == Spec => []TypeOK
  BY InvHolds, PTL DEF NumbersInv

\* parse_hex returns what the last digits of its argument are worth.
THEOREM ParsedLastDigits == Spec => []ParsedIsLastDigits
  BY InvHolds, PTL DEF NumbersInv

\* Whenever bios_put_dec tests val, the digits it has stored are the last ones of
\* its word, and when nothing is left they are the word without a leading zero.
THEOREM DecimalIsSpelled == Spec => []DecimalSpells
  BY InvHolds, PTL DEF NumbersInv

\* md and mw get the word that bios_put_hex has written and the user has typed.
THEOREM HexIsReadBack == Spec => []HexReadsBack
<1>1. NumbersInv => HexReadsBack
  <2> SUFFICES ASSUME NumbersInv, pc = "parsed", copied
               PROVE  val = word
    BY DEF HexReadsBack
  <2> DEFINE n == Width + 2
  <2>1. /\ Written(Width) /\ text \in Seq(Char) /\ word \in Word
        /\ Width \in Nat \ {0} /\ n \in Nat
    BY Bases DEF NumbersInv, HexInv, TypeOK
  <2>2. Len(text) = n /\ HasPrefix
    BY <2>1 DEF Written, HasPrefix
  <2>3. ASSUME NEW j \in Nat, j < Width
        PROVE  /\ text[n-j] \in DigitChar
               /\ text[n-j] - Digit(0) = Nibbles(word)[j]
    <3> DEFINE d == (word \div Powers(Base)[j]) % Base
    <3>1. n - j \in 3..Width+2 /\ Width + 2 - (n - j) = j
      BY <2>1, <2>3
    <3>2. text[n-j] = Digit(d)
      BY <2>1, <3>1 DEF Written
    <3>3. d \in 0..Base-1
      <4>1. Powers(Base)[j] \in Nat \ {0} /\ word \in Nat /\ Base \in Nat \ {0}
        <5>1. Powers(Base) \in [Nat -> Nat \ {0}]
          BY Bases
        <5> QED
          BY <2>1, <5>1, Bases
      <4>2. word \div Powers(Base)[j] \in Nat
        BY <4>1, DivisionLaw
      <4> QED
        BY <4>1, <4>2, DivisionLaw
    <3>4. Nibbles(word)[j] = d
      BY DEF Nibbles
    <3> HIDE DEF d
    <3>5. Digit(d) \in DigitChar /\ Digit(d) - Digit(0) = d
      BY <3>3, Characters
    <3> QED
      BY <3>2, <3>4, <3>5
  <2>4. {m \in 3..Len(text) : text[m] \notin DigitChar} = {}
    <3> SUFFICES ASSUME NEW m \in 3..n
                 PROVE  text[m] \in DigitChar
      BY <2>2
    <3>1. n - m \in Nat /\ n - m < Width /\ n - (n - m) = m
      BY <2>1
    <3>2. text[n-(n-m)] \in DigitChar
      BY <2>3, <3>1
    <3> QED
      BY <3>1, <3>2
  <2>5. val = Worth(text, n, Width)
    <3>1. ~(Len(text) - 3 + 1 < Width) /\ Len(text) - 3 + 1 = Width
      BY <2>1, <2>2
    <3> QED
      BY <2>2, <2>4, <3>1 DEF NumbersInv, ParsedIsLastDigits
  <2>6. Worth(text, n, Width) = Value(Base, Nibbles(word))[Width]
    <3> DEFINE d == Ending(text, n)
               e == Nibbles(word)
    <3>1. n \in 0..Len(text)
      BY <2>1, <2>2
    <3>2. /\ d \in [Nat -> Int] /\ Worth(text, n, Width) = Value(Base, d)[Width]
          /\ \A j \in Nat : j < n => d[j] = text[n-j] - Digit(0)
      <4>1. text \in Seq(Char)
        BY <2>1
      <4> HIDE DEF n
      <4>2. d \in [Nat -> Int]
        BY <3>1, <4>1, WorthIsValue
      <4>3. Worth(text, n, Width) = Value(Base, d)[Width]
        BY <3>1, <4>1, WorthIsValue
      <4>4. \A j \in Nat : j < n => d[j] = text[n-j] - Digit(0)
        BY <3>1, <4>1, WorthIsValue
      <4> QED
        BY <4>2, <4>3, <4>4
    <3>3. ASSUME NEW j \in Nat, j < Width
          PROVE  d[j] = e[j]
      <4>1. j < n
        BY <2>1, <3>3
      <4>2. d[j] = text[n-j] - Digit(0)
        BY <3>2, <4>1
      <4>3. text[n-j] - Digit(0) = Nibbles(word)[j]
        BY <2>3, <3>3
      <4> HIDE DEF d, n
      <4> QED
        BY <4>2, <4>3
    <3>4. e \in [Nat -> Int]
      <4>1. ASSUME NEW j \in Nat
            PROVE  (word \div Powers(Base)[j]) % Base \in Int
        <5>1. Powers(Base)[j] \in Nat \ {0} /\ word \in Nat /\ Base \in Nat \ {0}
          <6>1. Powers(Base) \in [Nat -> Nat \ {0}]
            BY Bases
          <6> QED
            BY <2>1, <6>1, Bases
        <5>2. word \div Powers(Base)[j] \in Nat
          BY <5>1, DivisionLaw
        <5> QED
          BY <5>1, <5>2, DivisionLaw
      <4> QED
        BY <4>1 DEF Nibbles
    <3> HIDE DEF d, e
    <3>5. Width \in Nat /\ Base \in Nat \ {0}
      BY Bases
    <3>6. Value(Base, d)[Width] = Value(Base, e)[Width]
      BY <3>2, <3>3, <3>4, <3>5, ValueAgrees
    <3> QED
      BY <3>2, <3>6 DEF e
  <2> QED
    BY <2>1, <2>5, <2>6, WordIsSpelled
<1> QED
  BY <1>1, InvHolds, PTL
=============================================================================
