----------------------------- MODULE ModLemmas ------------------------------
(***************************************************************************)
(* Arithmetic of indices that run around a ring, for every size of it.     *)
(***************************************************************************)
EXTENDS Integers, TLAPS

\* The remainder of a division is an index of the ring.
LEMMA ModRange ==
  ASSUME NEW C \in Nat \ {0}, NEW n \in Nat
  PROVE  n % C \in 0 .. C - 1
OBVIOUS

\* Less than a whole ring is a whole number of rings only when it is nothing.
LEMMA SmallMultiple ==
  ASSUME NEW C \in Nat \ {0}, NEW d \in Int, - C < C * d, C * d < C
  PROVE  d = 0
<1>1. CASE d >= 1
  <2>1. C * (d - 1) >= 0
    BY <1>1
  <2>2. C * d = C * (d - 1) + C
    OBVIOUS
  <2> QED BY <2>1, <2>2
<1>2. CASE d <= -1
  <2>1. C * (- d - 1) >= 0
    BY <1>2
  <2>2. C * d = - (C * (- d - 1)) - C
    OBVIOUS
  <2> QED BY <2>1, <2>2
<1> QED BY <1>1, <1>2

\* A number is its remainder and a whole number of rings.
LEMMA DivMod ==
  ASSUME NEW C \in Nat \ {0}, NEW n \in Nat
  PROVE  /\ n \div C \in Int
         /\ n % C \in 0 .. C - 1
         /\ n = C * (n \div C) + (n % C)
OBVIOUS

\* Two numbers a whole number of rings apart lie at the same index.
LEMMA ModUnique ==
  ASSUME NEW C \in Nat \ {0}, NEW n \in Nat, NEW q \in Int,
         NEW r \in 0 .. C - 1, n = C * q + r
  PROVE  n % C = r
<1> DEFINE p == n \div C
           s == n % C
<1>1. p \in Int /\ s \in 0 .. C - 1 /\ n = C * p + s
  BY DivMod
<1> HIDE DEF p, s
<1>2. p - q \in Int /\ C * (p - q) = r - s
  BY <1>1
<1>3. - C < C * (p - q) /\ C * (p - q) < C
  BY <1>1, <1>2
<1>4. p - q = 0
  BY <1>2, <1>3, SmallMultiple
<1>5. p = q
  BY <1>1, <1>4
<1>6. s = r
  BY <1>1, <1>5
<1> QED BY <1>6 DEF s

\* Advancing an index is advancing the number it stands for.
LEMMA ModNext ==
  ASSUME NEW C \in Nat \ {0}, NEW n \in Nat
  PROVE  ((n % C) + 1) % C = (n + 1) % C
<1> DEFINE q == n \div C
           r == n % C
<1>1. q \in Int /\ r \in 0 .. C - 1 /\ n = C * q + r
  BY DivMod
<1> HIDE DEF q, r
<1>2. CASE r + 1 < C
  <2>1. r + 1 \in 0 .. C - 1 /\ n + 1 = C * q + (r + 1)
    BY <1>1, <1>2
  <2>2. (n + 1) % C = r + 1
    BY <2>1, <1>1, ModUnique
  <2>3. (r + 1) % C = r + 1
    BY <2>1, ModUnique, r + 1 = C * 0 + (r + 1)
  <2> QED BY <2>2, <2>3 DEF r
<1>3. CASE r + 1 = C
  <2>1. n + 1 = C * (q + 1) + 0 /\ r + 1 = C * 1 + 0 /\ 0 \in 0 .. C - 1
    BY <1>1, <1>3
  <2>2. (n + 1) % C = 0
    BY <2>1, <1>1, ModUnique
  <2>3. (r + 1) % C = 0
    BY <2>1, <1>1, ModUnique
  <2> QED BY <2>2, <2>3 DEF r
<1> QED BY <1>1, <1>2, <1>3

\* Different numbers less than a ring apart lie at different indices.
LEMMA ModDistinct ==
  ASSUME NEW C \in Nat \ {0}, NEW n \in Nat, NEW m \in Nat,
         n < m, m < n + C
  PROVE  n % C # m % C
<1> DEFINE p == n \div C
           q == m \div C
           r == n % C
<1> SUFFICES ASSUME n % C = m % C
             PROVE  FALSE
  OBVIOUS
<1>1. /\ p \in Int /\ q \in Int /\ r \in 0 .. C - 1
      /\ n = C * p + r /\ m = C * q + r
  BY DivMod
<1> HIDE DEF p, q, r
<1>2. q - p \in Int /\ C * (q - p) = m - n
  BY <1>1
<1>3. q - p = 0
  BY <1>2, SmallMultiple
<1>4. p = q
  BY <1>1, <1>3
<1> QED BY <1>1, <1>4

\* Moving an index by some places is moving the number it stands for.
LEMMA ModShift ==
  ASSUME NEW C \in Nat \ {0}, NEW n \in Nat, NEW i \in Nat
  PROVE  ((n % C) + i) % C = (n + i) % C
<1> DEFINE q == n \div C
           r == n % C
           p == (r + i) \div C
           t == (r + i) % C
<1>1. q \in Int /\ r \in 0 .. C - 1 /\ n = C * q + r
  BY DivMod
<1>2. r + i \in Nat
  BY <1>1
<1>3. p \in Int /\ t \in 0 .. C - 1 /\ r + i = C * p + t
  BY <1>2, DivMod
<1> HIDE DEF q, r, p, t
<1>4. n + i \in Nat /\ q + p \in Int /\ n + i = C * (q + p) + t
  BY <1>1, <1>3
<1>5. (n + i) % C = t
  BY <1>3, <1>4, ModUnique
<1> QED BY <1>5 DEF r, t

\* Numbers at one index are a whole number of rings apart.
LEMMA ModDiff ==
  ASSUME NEW C \in Nat \ {0}, NEW n \in Nat, NEW m \in Nat,
         n <= m, n % C = m % C
  PROVE  (m - n) % C = 0
<1> DEFINE p == n \div C
           q == m \div C
           r == n % C
<1>1. /\ p \in Int /\ q \in Int /\ r \in 0 .. C - 1
      /\ n = C * p + r /\ m = C * q + r
  BY DivMod
<1> HIDE DEF p, q, r
<1>2. m - n \in Nat /\ q - p \in Int /\ m - n = C * (q - p) + 0
  BY <1>1
<1> QED BY <1>2, ModUnique, 0 \in 0 .. C - 1

\* Less than a ring apart and a whole number of rings apart is not apart.
LEMMA ModZero ==
  ASSUME NEW C \in Nat \ {0}, NEW d \in 0 .. C - 1, d % C = 0
  PROVE  d = 0
<1>1. d % C = d
  BY ModUnique, d = C * 0 + d
<1> QED BY <1>1
=============================================================================
