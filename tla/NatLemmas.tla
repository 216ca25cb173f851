------------------------------ MODULE NatLemmas ------------------------------
(***************************************************************************)
(* What the proofs of the components need to know of numbers: quotients    *)
(* and remainders; and, since loops are modelled by recursive functions,   *)
(* that a property of 0 that goes from n to n + 1 is one of all numbers,   *)
(* and that a function defined by recursion exists.                        *)
(***************************************************************************)
EXTENDS Integers, WellFoundedInduction, TLAPS

-----------------------------------------------------------------------------
\* Quotient and remainder, the two facts the rest is built from.
LEMMA DivMod ==
    ASSUME NEW a \in Nat, NEW b \in Nat \ {0}
    PROVE  /\ a \div b \in Nat
           /\ a % b \in 0..(b - 1)
           /\ a = b * (a \div b) + (a % b)
  OBVIOUS

\* A quotient is determined by its remainder's range.
LEMMA DivUnique ==
    ASSUME NEW a \in Nat, NEW b \in Nat \ {0}, NEW q \in Nat, NEW r \in 0..(b - 1),
           a = b * q + r
    PROVE  a \div b = q /\ a % b = r
  <1> DEFINE d == a \div b
             e == a % b
  <1>1. d \in Nat /\ e \in 0..(b - 1) /\ a = b * d + e
    BY DivMod
  <1> HIDE DEF d, e
  <1>2. b * (d - q) = r - e
    BY <1>1
  <1>3. d - q < 1
    <2> SUFFICES ASSUME d - q >= 1 PROVE FALSE
      BY <1>1
    <2>1. b * (d - q) >= b
      BY <1>1
    <2> QED
      BY <2>1, <1>1, <1>2
  <1>4. q - d < 1
    <2> SUFFICES ASSUME q - d >= 1 PROVE FALSE
      BY <1>1
    <2>1. b * (q - d) >= b
      BY <1>1
    <2>2. b * (q - d) = e - r
      BY <1>1, <1>2
    <2> QED
      BY <2>1, <2>2, <1>1
  <1>5. d = q
    BY <1>1, <1>3, <1>4
  <1> QED
    BY <1>1, <1>5 DEF d, e

\* The quotient of a number below b * c is below c.
LEMMA DivBelow ==
    ASSUME NEW b \in Nat \ {0}, NEW c \in Nat, NEW a \in 0..(b * c - 1)
    PROVE  a \div b \in 0..(c - 1)
  <1> DEFINE q == a \div b
             r == a % b
  <1>0. b * c \in Nat /\ a \in Nat
    <2>1. b * c \in Nat
      OBVIOUS
    <2> QED
      BY <2>1
  <1>1. q \in Nat /\ r \in 0..(b - 1) /\ a = b * q + r
    BY <1>0, DivMod
  <1> HIDE DEF q, r
  <1>2. b * q < b * c
    BY <1>0, <1>1
  <1>3. q < c
    <2> SUFFICES ASSUME q >= c PROVE FALSE
      BY <1>1
    <2>1. b * (q - c) >= 0
      BY <1>1
    <2> QED
      BY <2>1, <1>1, <1>2
  <1> QED
    BY <1>1, <1>3 DEF q

\* Remainders are added up: ((x % w) + t) % w = (x + t) % w.
LEMMA ModPlus ==
    ASSUME NEW x \in Nat, NEW t \in Nat, NEW w \in Nat \ {0}
    PROVE  ((x % w) + t) % w = (x + t) % w
  <1> DEFINE q == x \div w
             r == x % w
             p == (r + t) \div w
             s == (r + t) % w
  <1>1. q \in Nat /\ r \in 0..(w - 1) /\ x = w * q + r
    BY DivMod
  <1>2. p \in Nat /\ s \in 0..(w - 1) /\ r + t = w * p + s
    <2>1. r + t \in Nat
      BY <1>1
    <2> HIDE DEF r
    <2> QED
      BY <2>1, DivMod
  <1> HIDE DEF q, r, p, s
  <1>3. x + t = w * (q + p) + s
    BY <1>1, <1>2
  <1>4. (x + t) % w = s
    <2>1. x + t \in Nat /\ q + p \in Nat
      BY <1>1, <1>2
    <2> QED
      BY <1>2, <1>3, <2>1, DivUnique
  <1> QED
    BY <1>4 DEF r, s

-----------------------------------------------------------------------------
(* Remainders of integers, negative ones included. *)

\* Remainders of integers: what is left of a number when multiples of w go.
LEMMA Remainder ==
    ASSUME NEW a \in Int, NEW w \in Nat \ {0}
    PROVE  /\ a % w \in 0 .. (w - 1)
           /\ \E q \in Int : a = w * q + (a % w)
<1>1. a % w \in 0 .. (w - 1) /\ a \div w \in Int /\ a = w * (a \div w) + (a % w)
  OBVIOUS
<1> QED BY <1>1

\* A remainder is what is left below w.
LEMMA RemainderUnique ==
    ASSUME NEW a \in Int, NEW w \in Nat \ {0}, NEW q \in Int, NEW r \in 0 .. (w - 1),
           a = w * q + r
    PROVE  a % w = r
<1> DEFINE e == a % w
<1>1. PICK d \in Int : a = w * d + e /\ e \in 0 .. (w - 1)
  BY Remainder
<1> HIDE DEF e
<1>2. w * (d - q) = r - e
  BY <1>1
<1>3. d - q < 1
  <2> SUFFICES ASSUME d - q >= 1 PROVE FALSE
    BY <1>1
  <2>1. w * (d - q) >= w
    BY <1>1
  <2> QED BY <2>1, <1>1, <1>2
<1>4. q - d < 1
  <2> SUFFICES ASSUME q - d >= 1 PROVE FALSE
    BY <1>1
  <2>1. w * (q - d) >= w
    BY <1>1
  <2>2. w * (q - d) = e - r
    BY <1>1, <1>2
  <2> QED BY <2>1, <2>2, <1>1
<1>5. d = q
  BY <1>1, <1>3, <1>4
<1> QED BY <1>1, <1>5 DEF e

\* A multiple of w leaves the remainder alone.
LEMMA SameRemainder ==
    ASSUME NEW b \in Int, NEW w \in Nat \ {0}, NEW q \in Int
    PROVE  (w * q + b) % w = b % w
<1> DEFINE r == b % w
<1>1. PICK d \in Int : b = w * d + r /\ r \in 0 .. (w - 1)
  BY Remainder
<1> HIDE DEF r
<1>2. PICK a \in Int : a = w * q + b
  OBVIOUS
<1>3. a = w * (q + d) + r /\ q + d \in Int
  BY <1>1, <1>2
<1>4. a % w = r
  BY <1>1, <1>2, <1>3, RemainderUnique
<1> QED BY <1>2, <1>4 DEF r

\* The same distance leads to the same remainder.
LEMMA RemainderShift ==
    ASSUME NEW a \in Int, NEW b \in Int, NEW t \in Int, NEW w \in Nat \ {0}, a % w = b % w
    PROVE  (a + t) % w = (b + t) % w
<1>1. PICK d \in Int : a = w * d + (a % w)
  BY Remainder
<1>2. PICK f \in Int : b = w * f + (b % w)
  BY Remainder
<1>3. PICK r \in Int : r = a % w /\ r = b % w
  BY Remainder
<1>4. a + t = w * d + (r + t) /\ b + t = w * f + (r + t)
  BY <1>1, <1>2, <1>3
<1>5. r + t \in Int
  BY <1>3
<1>6. (w * d + (r + t)) % w = (r + t) % w
  BY <1>1, <1>5, SameRemainder, Zenon
<1>7. (w * f + (r + t)) % w = (r + t) % w
  BY <1>2, <1>5, SameRemainder, Zenon
<1> QED BY <1>4, <1>6, <1>7

\* Remainders are added up.
LEMMA RemainderPlus ==
    ASSUME NEW a \in Int, NEW t \in Int, NEW w \in Nat \ {0}
    PROVE  ((a % w) + t) % w = (a + t) % w
<1>1. PICK d \in Int : a = w * d + (a % w)
  BY Remainder
<1>2. PICK r \in Int : r = a % w
  BY Remainder
<1>3. a + t = w * d + (r + t)
  BY <1>1, <1>2
<1>4. r + t \in Int
  BY <1>2
<1>5. (w * d + (r + t)) % w = (r + t) % w
  BY <1>1, <1>4, SameRemainder, Zenon
<1> QED BY <1>2, <1>3, <1>5

\* Numbers less than w apart differ in their remainders.
LEMMA RemaindersApart ==
    ASSUME NEW a \in Int, NEW b \in Int, NEW w \in Nat \ {0},
           a - b < w, b - a < w, a % w = b % w
    PROVE  a = b
<1>1. PICK d \in Int : a = w * d + (a % w)
  BY Remainder
<1>2. PICK f \in Int : b = w * f + (b % w)
  BY Remainder
<1>3. PICK r \in Int : r = a % w /\ r = b % w
  BY Remainder
<1>4. a - b = w * (d - f)
  BY <1>1, <1>2, <1>3
<1>5. d - f < 1
  <2> SUFFICES ASSUME d - f >= 1 PROVE FALSE
    OBVIOUS
  <2>1. w * (d - f) >= w
    OBVIOUS
  <2> QED BY <2>1, <1>4
<1>6. f - d < 1
  <2> SUFFICES ASSUME f - d >= 1 PROVE FALSE
    OBVIOUS
  <2>1. w * (f - d) >= w
    OBVIOUS
  <2>2. w * (f - d) = b - a
    BY <1>4
  <2> QED BY <2>1, <2>2
<1>7. d = f
  BY <1>5, <1>6
<1> QED BY <1>4, <1>7

\* Remainders of a multiple of w have the remainders of the number.
LEMMA RemainderOfMultiple ==
    ASSUME NEW a \in Int, NEW w \in Nat \ {0}, NEW m \in Nat \ {0}
    PROVE  (a % (m * w)) % w = a % w
<1>0. m * w \in Nat \ {0}
  OBVIOUS
<1>1. PICK d \in Int : a = (m * w) * d + (a % (m * w))
  BY <1>0, Remainder
<1>2. PICK r \in Int : r = a % (m * w)
  BY <1>0, Remainder
<1>3. (m * w) * d = w * (m * d) /\ m * d \in Int
  OBVIOUS
<1>4. a = w * (m * d) + r
  BY <1>1, <1>2, <1>3
<1>5. (w * (m * d) + r) % w = r % w
  BY <1>3, SameRemainder
<1> QED BY <1>2, <1>4, <1>5

-----------------------------------------------------------------------------
\* A set of numbers has a least element.
LEMMA LeastElement ==
    ASSUME NEW T \in SUBSET Nat, T # {}
    PROVE  \E m \in T : \A n \in T : ~ (n < m)
<1> DEFINE R == {ss \in Nat \X Nat : ss[1] < ss[2]}
<1>1. IsWellFoundedOn(R, Nat)
  BY NatLessThanWellFounded DEF OpToRel
<1>2. \E x \in T : \A y \in T : ~ (<<y, x>> \in R)
  <2> HIDE DEF R
  <2> QED BY <1>1, WFMin
<1> QED BY <1>2

\* Induction, for a property that is given as a set.
LEMMA Induction ==
    ASSUME NEW T \in SUBSET Nat, 0 \in T, \A n \in T : n + 1 \in T
    PROVE  T = Nat
<1> SUFFICES ASSUME Nat \ T # {} PROVE FALSE
  OBVIOUS
<1>1. PICK m \in Nat \ T : \A n \in Nat \ T : ~ (n < m)
  BY LeastElement
<1>2. m # 0 /\ m - 1 \in Nat /\ m - 1 < m
  BY <1>1
<1>3. m - 1 \in T
  BY <1>1, <1>2
<1>4. (m - 1) + 1 = m
  BY <1>1
<1> QED BY <1>1, <1>3, <1>4

\* g is the recursion's beginning, up to n.
Begins(S, c, G, n, g) ==
    /\ g \in [0 .. n -> S]
    /\ g[0] = c
    /\ \A i \in 0 .. n - 1 : g[i + 1] = G[i][g[i]]

\* Every number of steps can be taken.
LEMMA BeginsExists ==
    ASSUME NEW S, NEW c \in S, NEW G \in [Nat -> [S -> S]], NEW n \in Nat
    PROVE  \E g : Begins(S, c, G, n, g)
<1> DEFINE T == {k \in Nat : \E g : Begins(S, c, G, k, g)}
<1>1. 0 \in T
  <2>1. Begins(S, c, G, 0, [i \in 0 .. 0 |-> c])
    BY DEF Begins
  <2> QED BY <2>1
<1>2. ASSUME NEW k \in T PROVE k + 1 \in T
  <2>1. PICK g : Begins(S, c, G, k, g)
    OBVIOUS
  <2> DEFINE h == [i \in 0 .. k + 1 |-> IF i = k + 1 THEN G[k][g[k]] ELSE g[i]]
  <2>2. g[k] \in S /\ G[k][g[k]] \in S
    BY <2>1 DEF Begins
  <2>3. h \in [0 .. k + 1 -> S] /\ h[0] = c
    BY <2>1, <2>2 DEF Begins
  <2>4. ASSUME NEW i \in 0 .. (k + 1) - 1 PROVE h[i + 1] = G[i][h[i]]
    <3>1. CASE i = k
      <4>1. h[k + 1] = G[k][g[k]]
        OBVIOUS
      <4>2. h[k] = g[k]
        OBVIOUS
      <4> HIDE DEF h
      <4> QED BY <3>1, <4>1, <4>2
    <3>2. CASE i # k
      <4>1. i \in 0 .. k - 1
        BY <3>2
      <4>2. h[i + 1] = g[i + 1] /\ h[i] = g[i]
        BY <4>1
      <4> QED BY <2>1, <4>1, <4>2 DEF Begins
    <3> QED BY <3>1, <3>2
  <2>5. Begins(S, c, G, k + 1, h)
    <3> HIDE DEF h
    <3> QED BY <2>3, <2>4 DEF Begins
  <2> QED BY <2>5
<1>3. T = Nat
  <2> HIDE DEF T
  <2>1. T \in SUBSET Nat
    BY DEF T
  <2> QED BY <1>1, <1>2, <2>1, Induction
<1> QED BY <1>3

\* A longer recursion begins as a shorter one ends.
LEMMA BeginsUnique ==
    ASSUME NEW S, NEW c \in S, NEW G \in [Nat -> [S -> S]], NEW n \in Nat
    PROVE  \A g, h : Begins(S, c, G, n, g) /\ Begins(S, c, G, n + 1, h) => g[n] = h[n]
<1> SUFFICES ASSUME NEW g, NEW h, Begins(S, c, G, n, g), Begins(S, c, G, n + 1, h)
             PROVE  g[n] = h[n]
  OBVIOUS
<1> DEFINE T == {k \in Nat : k <= n => g[k] = h[k]}
<1>1. 0 \in T
  BY DEF Begins
<1>2. ASSUME NEW k \in T PROVE k + 1 \in T
  <2> SUFFICES ASSUME k + 1 <= n PROVE g[k + 1] = h[k + 1]
    OBVIOUS
  <2>1. k \in 0 .. n - 1 /\ k \in 0 .. (n + 1) - 1 /\ g[k] = h[k]
    OBVIOUS
  <2> QED BY <2>1 DEF Begins
<1>3. T = Nat
  <2> HIDE DEF T
  <2>1. T \in SUBSET Nat
    BY DEF T
  <2> QED BY <1>1, <1>2, <2>1, Induction
<1> QED BY <1>3

\* G has a step within S for every number.
StepsIn(S, G) == G \in [Nat -> [S -> S]]

\* F begins with c and takes G's steps.
Takes(F, S, c, G) ==
    F \in [Nat -> S] /\ F[0] = c /\ \A n \in Nat : F[n + 1] = G[n][F[n]]

\* A sequence can be defined by its first member and the steps to the next.
LEMMA CountedRecursion ==
    ASSUME NEW S, NEW c \in S, NEW G, StepsIn(S, G)
    PROVE  \E F : Takes(F, S, c, G)
<1> DEFINE a(n) == CHOOSE g : Begins(S, c, G, n, g)
<1> DEFINE F == [n \in Nat |-> a(n)[n]]
<1>0. G \in [Nat -> [S -> S]]
  BY DEF StepsIn
<1>1. \A n \in Nat : Begins(S, c, G, n, a(n))
  BY <1>0, BeginsExists
<1> HIDE DEF a
<1>2. F \in [Nat -> S] /\ F[0] = c
  BY <1>1 DEF Begins
<1>3. ASSUME NEW n \in Nat PROVE F[n + 1] = G[n][F[n]]
  <2>1. Begins(S, c, G, n, a(n)) /\ Begins(S, c, G, n + 1, a(n + 1))
    BY <1>1
  <2>2. a(n + 1)[n] = a(n)[n]
    BY <1>0, <2>1, BeginsUnique
  <2>3. a(n + 1)[n + 1] = G[n][a(n + 1)[n]]
    BY <2>1 DEF Begins
  <2> QED BY <2>2, <2>3
<1> HIDE DEF F
<1>4. Takes(F, S, c, G)
  BY <1>2, <1>3 DEF Takes
<1> QED BY <1>4

\* By its first member and one step.
LEMMA Recursion ==
    ASSUME NEW S, NEW c \in S, NEW G \in [S -> S]
    PROVE  \E F \in [Nat -> S] : F[0] = c /\ \A n \in Nat : F[n + 1] = G[F[n]]
<1> DEFINE H == [n \in Nat |-> G]
<1>1. StepsIn(S, H) /\ \A n \in Nat : H[n] = G
  BY DEF StepsIn
<1> HIDE DEF H
<1>2. PICK F : Takes(F, S, c, H)
  BY <1>1, CountedRecursion
<1>3. ASSUME NEW n \in Nat PROVE F[n + 1] = G[F[n]]
  BY <1>1, <1>2 DEF Takes
<1> QED BY <1>2, <1>3 DEF Takes
=============================================================================
