--------------------------- MODULE CollatzProofs ---------------------------
(* The arithmetic of the workers: powers, trailing zeros, iterates and sums. *)
EXTENDS Mod3Sieve, FiniteSetTheorems, WellFoundedInduction, TLAPS

-----------------------------------------------------------------------------
(* Induction over a set, and functions on numbers.                           *)

\* Every nonempty set of numbers has a least element.
LEMMA LeastNumber ==
  ASSUME NEW S \in SUBSET Nat, S # {}
  PROVE  \E m \in S : \A n \in S : m <= n
<1> DEFINE R == OpToRel(<, Nat)
<1>1. IsWellFoundedOn(R, Nat)
  BY NatLessThanWellFounded
<1>2. \A x, y \in Nat : (<<y, x>> \in R) <=> y < x
  BY DEF OpToRel
<1> HIDE DEF R
<1>3. PICK x \in S : \A y \in S : ~ (<<y, x>> \in R)
  BY <1>1, WFMin
<1>4. \A y \in S : ~ (y < x)
  BY <1>2, <1>3
<1>5. \A y \in S : x <= y
  BY <1>4
<1> QED
  BY <1>5

\* A set with zero that is closed under successors has every number.
LEMMA SetInduction ==
  ASSUME NEW S, 0 \in S, \A k \in Nat : k \in S => k + 1 \in S
  PROVE  \A k \in Nat : k \in S
<1> SUFFICES ASSUME Nat \ S # {} PROVE FALSE
  OBVIOUS
<1>1. PICK m \in Nat \ S : \A k \in Nat \ S : m <= k
  BY LeastNumber
<1>2. m # 0 /\ m - 1 \in Nat
  BY <1>1
<1>3. m - 1 \in S
  BY <1>1, <1>2
<1>4. (m - 1) + 1 \in S
  BY <1>2, <1>3
<1> QED
  BY <1>1, <1>4

\* The same from all smaller numbers.
LEMMA SetStrongInduction ==
  ASSUME NEW S, \A k \in Nat : (\A j \in 0 .. k - 1 : j \in S) => k \in S
  PROVE  \A k \in Nat : k \in S
<1> SUFFICES ASSUME Nat \ S # {} PROVE FALSE
  OBVIOUS
<1>1. PICK m \in Nat \ S : \A k \in Nat \ S : m <= k
  BY LeastNumber
<1>2. \A j \in 0 .. m - 1 : j \in S
  BY <1>1
<1> QED
  BY <1>1, <1>2

\* A function may be defined by its value at zero and by a step.
LEMMA StepwiseFunction ==
  ASSUME NEW S, NEW s0 \in S, NEW g \in [S -> S]
  PROVE  \E h \in [Nat -> S] : h[0] = s0 /\ \A k \in Nat : h[k + 1] = g[h[k]]
<1> DEFINE Good(h, m) == /\ h \in [0 .. m -> S]
                         /\ h[0] = s0
                         /\ \A k \in 0 .. m - 1 : h[k + 1] = g[h[k]]
           P == {m \in Nat : \E h : Good(h, m)}
<1>1. \A m \in Nat : m \in P
  <2>1. 0 \in P
    <3>1. Good([k \in 0 .. 0 |-> s0], 0)
      OBVIOUS
    <3> QED
      BY <3>1
  <2>2. \A m \in Nat : m \in P => m + 1 \in P
    <3> SUFFICES ASSUME NEW m \in Nat, NEW h, Good(h, m) PROVE m + 1 \in P
      OBVIOUS
    <3> DEFINE f == [k \in 0 .. m + 1 |-> IF k <= m THEN h[k] ELSE g[h[m]]]
    <3>1. f \in [0 .. m + 1 -> S]
      OBVIOUS
    <3>2. f[0] = s0
      OBVIOUS
    <3>3. ASSUME NEW k \in 0 .. (m + 1) - 1 PROVE f[k + 1] = g[f[k]]
      <4>1. CASE k < m
        BY <4>1
      <4>2. CASE k = m
        BY <4>2
      <4> QED
        BY <4>1, <4>2
    <3>4. Good(f, m + 1)
      BY <3>1, <3>2, <3>3
    <3> QED
      BY <3>4
  <2> HIDE DEF P
  <2> QED
    BY <2>1, <2>2, SetInduction
<1> DEFINE H(m) == CHOOSE h : Good(h, m)
<1>2. \A m \in Nat : Good(H(m), m)
  BY <1>1
<1> HIDE DEF H
<1>3. ASSUME NEW m \in Nat PROVE H(m + 1)[m] = H(m)[m]
  <2> DEFINE Q == {k \in Nat : k <= m => H(m + 1)[k] = H(m)[k]}
  <2>1. 0 \in Q
    BY <1>2
  <2>2. \A k \in Nat : k \in Q => k + 1 \in Q
    <3> SUFFICES ASSUME NEW k \in Nat, k \in Q, k + 1 <= m
                 PROVE  H(m + 1)[k + 1] = H(m)[k + 1]
      OBVIOUS
    <3>1. H(m + 1)[k + 1] = g[H(m + 1)[k]] /\ H(m)[k + 1] = g[H(m)[k]]
      BY <1>2
    <3> QED
      BY <3>1
  <2>3. m \in Q
    <3> HIDE DEF Q
    <3> QED
      BY <2>1, <2>2, SetInduction
  <2> QED
    BY <2>3
<1> DEFINE F == [k \in Nat |-> H(k)[k]]
<1>4. F \in [Nat -> S]
  BY <1>2
<1>5. F[0] = s0
  BY <1>2
<1>6. ASSUME NEW k \in Nat PROVE F[k + 1] = g[F[k]]
  <2>1. H(k + 1)[k + 1] = g[H(k + 1)[k]]
    BY <1>2
  <2> QED
    BY <2>1, <1>3
<1> QED
  BY <1>4, <1>5, <1>6

-----------------------------------------------------------------------------
(* Division, for divisors the solver does not know.                          *)

\* Quotient and remainder.
LEMMA Division ==
  ASSUME NEW a \in Nat, NEW b \in Nat \ {0}
  PROVE  /\ a \div b \in Nat /\ a % b \in 0 .. b - 1
         /\ a = b * (a \div b) + (a % b)
  OBVIOUS

\* They are the only numbers that fit.
LEMMA DivisionUnique ==
  ASSUME NEW b \in Nat \ {0}, NEW q \in Nat, NEW r \in 0 .. b - 1
  PROVE  (b * q + r) \div b = q /\ (b * q + r) % b = r
  OBVIOUS

\* Products keep the order of their factors.
LEMMA ProductOrder ==
  ASSUME NEW a \in Nat, NEW b \in Nat, NEW c \in Nat, a <= b
  PROVE  a * c <= b * c /\ c * a <= c * b
  OBVIOUS

\* Products associate and distribute.
LEMMA ProductLaws ==
  ASSUME NEW a \in Nat, NEW b \in Nat, NEW c \in Nat
  PROVE  /\ a * (b * c) = (a * b) * c
         /\ a * (b * c) = b * (a * c)
         /\ a * (b + c) = (a * b) + (a * c)
         /\ a * b = b * a /\ a * b \in Nat
  OBVIOUS

\* A product of positive numbers is positive.
LEMMA ProductPositive ==
  ASSUME NEW a \in Nat \ {0}, NEW b \in Nat \ {0}
  PROVE  a * b \in Nat \ {0}
  OBVIOUS

\* A division may be done in two steps.
LEMMA DivisionTwice ==
  ASSUME NEW n \in Nat, NEW a \in Nat \ {0}, NEW b \in Nat \ {0}
  PROVE  /\ (n \div a) \div b = n \div (a * b)
         /\ n % (a * b) = a * ((n \div a) % b) + (n % a)
<1> DEFINE q == (n \div a) \div b
           r == (n \div a) % b
           s == n % a
<1>1. q \in Nat /\ r \in 0 .. b - 1 /\ s \in 0 .. a - 1 /\ n \div a \in Nat
  BY Division
<1>2. n = a * (n \div a) + s /\ n \div a = b * q + r
  BY Division
<1> HIDE DEF q, r, s
<1>3. n = a * (b * q + r) + s
  BY <1>2
<1>4. a * (b * q + r) = a * (b * q) + a * r
  BY <1>1, ProductLaws
<1>5. a * (b * q) = (a * b) * q
  BY <1>1, ProductLaws
<1>6. a * r <= a * (b - 1) /\ a * r \in Nat
  BY <1>1, ProductOrder
<1>7. a * (b - 1) = a * b - a
  OBVIOUS
<1>8. a * r + s \in 0 .. (a * b) - 1 /\ a * b \in Nat \ {0}
  BY <1>1, <1>6, <1>7
<1>9. n = (a * b) * q + (a * r + s)
  BY <1>3, <1>4, <1>5, <1>6, <1>1
<1>10. n \div (a * b) = q /\ n % (a * b) = a * r + s
  BY <1>8, <1>9, <1>1, DivisionUnique
<1> QED
  BY <1>10 DEF q, r, s

-----------------------------------------------------------------------------
(* Powers.                                                                   *)

\* Pow2 is what its definition says.
LEMMA Pow2Defined ==
  /\ Pow2 \in [Nat -> Nat] /\ Pow2[0] = 1
  /\ \A k \in Nat : Pow2[k + 1] = 2 * Pow2[k]
<1> DEFINE S == Nat
           one == 1
           g == [x \in Nat |-> 2 * x]
<1>0. g \in [S -> S] /\ one \in S
  OBVIOUS
<1> HIDE DEF S, one, g
<1>1. PICK h \in [Nat -> S] : h[0] = one /\ \A k \in Nat : h[k + 1] = g[h[k]]
  BY <1>0, StepwiseFunction
<1> USE DEF S, one, g
<1>2. ASSUME NEW k \in Nat PROVE h[k] = IF k = 0 THEN 1 ELSE 2 * h[k - 1]
  <2>1. CASE k = 0
    BY <1>1, <2>1
  <2>2. CASE k # 0
    <3>1. k - 1 \in Nat /\ (k - 1) + 1 = k
      BY <2>2
    <3> QED
      BY <1>1, <2>2, <3>1
  <2> QED
    BY <2>1, <2>2
<1>3. h = [k \in Nat |-> IF k = 0 THEN 1 ELSE 2 * h[k - 1]]
  BY <1>1, <1>2
<1>4. Pow2 = [k \in Nat |-> IF k = 0 THEN 1 ELSE 2 * Pow2[k - 1]]
  BY <1>3, Zenon DEF Pow2
<1>5. Pow2[0] = 1
  BY <1>4
<1>6. ASSUME NEW k \in Nat PROVE Pow2[k + 1] = 2 * Pow2[k]
  <2>1. k + 1 \in Nat /\ k + 1 # 0 /\ (k + 1) - 1 = k
    OBVIOUS
  <2>2. Pow2[k + 1] = 2 * Pow2[(k + 1) - 1]
    BY <1>4, <2>1
  <2> QED
    BY <2>1, <2>2
<1>7. \A k \in Nat : k \in {j \in Nat : Pow2[j] \in Nat}
  <2>1. 0 \in {j \in Nat : Pow2[j] \in Nat}
    BY <1>5
  <2>2. \A k \in Nat : k \in {j \in Nat : Pow2[j] \in Nat} => k + 1 \in {j \in Nat : Pow2[j] \in Nat}
    BY <1>6
  <2> QED
    BY <2>1, <2>2, SetInduction
<1>8. DOMAIN Pow2 = Nat
  BY <1>4
<1>9. Pow2 = [k \in Nat |-> Pow2[k]]
  BY <1>4
<1> QED
  BY <1>5, <1>6, <1>7, <1>9

\* So is Pow3.
LEMMA Pow3Defined ==
  /\ Pow3 \in [Nat -> Nat] /\ Pow3[0] = 1
  /\ \A k \in Nat : Pow3[k + 1] = 3 * Pow3[k]
<1> DEFINE S == Nat
           one == 1
           g == [x \in Nat |-> 3 * x]
<1>0. g \in [S -> S] /\ one \in S
  OBVIOUS
<1> HIDE DEF S, one, g
<1>1. PICK h \in [Nat -> S] : h[0] = one /\ \A k \in Nat : h[k + 1] = g[h[k]]
  BY <1>0, StepwiseFunction
<1> USE DEF S, one, g
<1>2. ASSUME NEW k \in Nat PROVE h[k] = IF k = 0 THEN 1 ELSE 3 * h[k - 1]
  <2>1. CASE k = 0
    BY <1>1, <2>1
  <2>2. CASE k # 0
    <3>1. k - 1 \in Nat /\ (k - 1) + 1 = k
      BY <2>2
    <3> QED
      BY <1>1, <2>2, <3>1
  <2> QED
    BY <2>1, <2>2
<1>3. h = [k \in Nat |-> IF k = 0 THEN 1 ELSE 3 * h[k - 1]]
  BY <1>1, <1>2
<1>4. Pow3 = [k \in Nat |-> IF k = 0 THEN 1 ELSE 3 * Pow3[k - 1]]
  BY <1>3, Zenon DEF Pow3
<1>5. Pow3[0] = 1
  BY <1>4
<1>6. ASSUME NEW k \in Nat PROVE Pow3[k + 1] = 3 * Pow3[k]
  <2>1. k + 1 \in Nat /\ k + 1 # 0 /\ (k + 1) - 1 = k
    OBVIOUS
  <2>2. Pow3[k + 1] = 3 * Pow3[(k + 1) - 1]
    BY <1>4, <2>1
  <2> QED
    BY <2>1, <2>2
<1>7. \A k \in Nat : k \in {j \in Nat : Pow3[j] \in Nat}
  <2>1. 0 \in {j \in Nat : Pow3[j] \in Nat}
    BY <1>5
  <2>2. \A k \in Nat : k \in {j \in Nat : Pow3[j] \in Nat} => k + 1 \in {j \in Nat : Pow3[j] \in Nat}
    BY <1>6
  <2> QED
    BY <2>1, <2>2, SetInduction
<1>8. DOMAIN Pow3 = Nat
  BY <1>4
<1>9. Pow3 = [k \in Nat |-> Pow3[k]]
  BY <1>4
<1> QED
  BY <1>5, <1>6, <1>7, <1>9

\* Powers are positive, a power of three is odd, one of two is even or 1.
LEMMA PowerBounds ==
  ASSUME NEW k \in Nat
  PROVE  /\ Pow2[k] \in Nat \ {0} /\ Pow3[k] \in Nat \ {0}
         /\ Pow3[k] % 2 = 1
         /\ k > 0 => Pow2[k] % 2 = 0
         /\ Pow2[k] > k
         /\ Pow2[k] <= Pow3[k]
         /\ k > 0 => Pow2[k] < Pow3[k]
<1> DEFINE P == {j \in Nat : /\ Pow2[j] \in Nat \ {0} /\ Pow3[j] \in Nat \ {0}
                             /\ Pow3[j] % 2 = 1 /\ Pow2[j] > j /\ Pow2[j] <= Pow3[j]
                             /\ j > 0 => Pow2[j] % 2 = 0 /\ Pow2[j] < Pow3[j]}
<1>1. 0 \in P
  BY Pow2Defined, Pow3Defined
<1>2. ASSUME NEW j \in Nat, j \in P PROVE j + 1 \in P
  <2>1. Pow2[j + 1] = 2 * Pow2[j] /\ Pow3[j + 1] = 3 * Pow3[j]
    BY Pow2Defined, Pow3Defined
  <2> QED
    BY <1>2, <2>1
<1>3. k \in P
  <2> HIDE DEF P
  <2> QED
    BY <1>1, <1>2, SetInduction
<1> QED
  BY <1>3

\* The power of a sum, and of a double.
LEMMA PowerSum ==
  ASSUME NEW a \in Nat, NEW b \in Nat
  PROVE  /\ Pow2[a + b] = Pow2[a] * Pow2[b]
         /\ Pow3[a + b] = Pow3[a] * Pow3[b]
<1> DEFINE P == {j \in Nat : Pow2[a + j] = Pow2[a] * Pow2[j] /\ Pow3[a + j] = Pow3[a] * Pow3[j]}
<1>1. 0 \in P
  <2>0. a + 0 = a
    OBVIOUS
  <2>1. Pow2[0] = 1 /\ Pow3[0] = 1 /\ Pow2[a] \in Nat /\ Pow3[a] \in Nat
    BY Pow2Defined, Pow3Defined, PowerBounds
  <2>2. Pow2[a] * 1 = Pow2[a] /\ Pow3[a] * 1 = Pow3[a]
    BY <2>1
  <2> QED
    BY <2>0, <2>1, <2>2
<1>2. ASSUME NEW j \in Nat, j \in P PROVE j + 1 \in P
  <2>1. /\ Pow2[j + 1] = 2 * Pow2[j] /\ Pow3[j + 1] = 3 * Pow3[j]
        /\ Pow2[a + j + 1] = 2 * Pow2[a + j] /\ Pow3[a + j + 1] = 3 * Pow3[a + j]
    BY Pow2Defined, Pow3Defined
  <2>2. Pow2[a] * (2 * Pow2[j]) = 2 * (Pow2[a] * Pow2[j]) /\ Pow3[a] * (3 * Pow3[j]) = 3 * (Pow3[a] * Pow3[j])
    BY PowerBounds, ProductLaws
  <2>3. a + (j + 1) = a + j + 1
    OBVIOUS
  <2> QED
    BY <1>2, <2>1, <2>2, <2>3
<1>3. b \in P
  <2> HIDE DEF P
  <2> QED
    BY <1>1, <1>2, SetInduction
<1> QED
  BY <1>3

\* A power is the product of two lower ones.
LEMMA PowerSplit ==
  ASSUME NEW a \in Nat, NEW b \in Nat, a <= b
  PROVE  /\ b - a \in Nat
         /\ Pow2[b] = Pow2[a] * Pow2[b - a]
         /\ Pow3[b] = Pow3[a] * Pow3[b - a]
<1>1. b - a \in Nat /\ a + (b - a) = b
  OBVIOUS
<1> QED
  BY <1>1, PowerSum

\* Powers grow.
LEMMA PowerOrder ==
  ASSUME NEW a \in Nat, NEW b \in Nat, a <= b
  PROVE  Pow2[a] <= Pow2[b] /\ Pow3[a] <= Pow3[b] /\ Pow3[a] <= Pow2[2 * a]
<1>1. b - a \in Nat /\ a + (b - a) = b
  OBVIOUS
<1>2. Pow2[b] = Pow2[a] * Pow2[b - a] /\ Pow3[b] = Pow3[a] * Pow3[b - a]
  BY <1>1, PowerSum
<1>3. Pow2[a] <= Pow2[b] /\ Pow3[a] <= Pow3[b]
  <2>1. /\ Pow2[a] \in Nat /\ Pow2[b - a] \in Nat /\ 1 <= Pow2[b - a]
        /\ Pow3[a] \in Nat /\ Pow3[b - a] \in Nat /\ 1 <= Pow3[b - a]
    BY <1>1, PowerBounds
  <2>2. Pow2[a] * 1 <= Pow2[a] * Pow2[b - a] /\ Pow3[a] * 1 <= Pow3[a] * Pow3[b - a]
    BY <2>1, ProductOrder
  <2> QED
    BY <1>2, <2>1, <2>2
<1> DEFINE P == {j \in Nat : Pow3[j] <= Pow2[2 * j]}
<1>4. 0 \in P
  BY Pow2Defined, Pow3Defined
<1>5. ASSUME NEW j \in Nat, j \in P PROVE j + 1 \in P
  <2>1. Pow2[2 * j + 1] = 2 * Pow2[2 * j] /\ Pow2[(2 * j + 1) + 1] = 2 * Pow2[2 * j + 1]
    BY Pow2Defined
  <2>2. Pow3[j + 1] = 3 * Pow3[j] /\ 2 * (j + 1) = (2 * j + 1) + 1
    BY Pow3Defined
  <2>3. Pow2[2 * j] \in Nat /\ Pow3[j] \in Nat
    BY PowerBounds
  <2> QED
    BY <1>5, <2>1, <2>2, <2>3
<1>6. a \in P
  <2> HIDE DEF P
  <2> QED
    BY <1>4, <1>5, SetInduction
<1> QED
  BY <1>3, <1>6

-----------------------------------------------------------------------------
(* Steps of the Collatz function.                                            *)

\* One step.
LEMMA StepValue ==
  ASSUME NEW n \in Nat
  PROVE  /\ T[n] \in Nat
         /\ n % 2 = 0 => T[n] = n \div 2
         /\ n % 2 = 1 => T[n] = (3 * n + 1) \div 2
  BY DEF T, Odd

\* Iterate is what its definition says.
LEMMA IterateDefined ==
  /\ \A n \in Nat : Iterate[0][n] = n
  /\ \A k \in Nat, n \in Nat : /\ Iterate[k][n] \in Nat
                               /\ Iterate[k + 1][n] = T[Iterate[k][n]]
<1> DEFINE S == [Nat -> Nat]
           id == [n \in Nat |-> n]
           g == [f \in S |-> [n \in Nat |-> T[f[n]]]]
<1>0. T \in S
  BY StepValue DEF T
<1>1. g \in [S -> S] /\ id \in S
  BY <1>0
<1> HIDE DEF S, id, g
<1>2. PICK h \in [Nat -> S] : h[0] = id /\ \A k \in Nat : h[k + 1] = g[h[k]]
  BY <1>1, StepwiseFunction
<1> USE DEF S, id, g
<1>3. ASSUME NEW k \in Nat
      PROVE  h[k] = [n \in Nat |-> IF k = 0 THEN n ELSE T[h[k - 1][n]]]
  <2>1. CASE k = 0
    BY <1>2, <2>1
  <2>2. CASE k # 0
    <3>1. k - 1 \in Nat /\ (k - 1) + 1 = k
      BY <2>2
    <3>2. h[k] = g[h[k - 1]] /\ h[k - 1] \in S
      BY <1>2, <3>1
    <3> QED
      BY <2>2, <3>2
  <2> QED
    BY <2>1, <2>2
<1>4. h = [k \in Nat |-> [n \in Nat |-> IF k = 0 THEN n ELSE T[h[k - 1][n]]]]
  BY <1>2, <1>3
<1>5. Iterate = [k \in Nat |-> [n \in Nat |-> IF k = 0 THEN n ELSE T[Iterate[k - 1][n]]]]
  BY <1>4, Zenon DEF Iterate
<1>6. \A n \in Nat : Iterate[0][n] = n
  BY <1>5
<1>7. ASSUME NEW k \in Nat, NEW n \in Nat PROVE Iterate[k + 1][n] = T[Iterate[k][n]]
  <2>1. k + 1 \in Nat /\ k + 1 # 0 /\ (k + 1) - 1 = k
    OBVIOUS
  <2> DEFINE i == k + 1
  <2>2. i \in Nat /\ i # 0 /\ i - 1 = k
    BY <2>1
  <2> HIDE DEF i
  <2>3. Iterate[i] = [m \in Nat |-> IF i = 0 THEN m ELSE T[Iterate[i - 1][m]]]
    BY <1>5, <2>2, Zenon
  <2>4. Iterate[i][n] = T[Iterate[i - 1][n]]
    BY <2>2, <2>3
  <2> QED
    BY <2>2, <2>4 DEF i
<1>8. ASSUME NEW n \in Nat, NEW k \in Nat PROVE Iterate[k][n] \in Nat
  <2> DEFINE P == {j \in Nat : Iterate[j][n] \in Nat}
  <2>1. 0 \in P
    BY <1>6
  <2>2. ASSUME NEW j \in Nat, j \in P PROVE j + 1 \in P
    <3>1. T[Iterate[j][n]] \in Nat
      BY <2>2, StepValue
    <3>2. Iterate[j + 1][n] = T[Iterate[j][n]]
      BY <1>7
    <3>3. Iterate[j + 1][n] \in Nat
      BY <3>1, <3>2, Zenon
    <3>4. j + 1 \in Nat
      OBVIOUS
    <3> QED
      BY <3>3, <3>4, Zenon
  <2>3. k \in P
    <3> HIDE DEF P
    <3> QED
      BY <2>1, <2>2, SetInduction
  <2> QED
    BY <2>3
<1> QED
  BY <1>6, <1>7, <1>8

\* Steps add up.
LEMMA IterateSum ==
  ASSUME NEW j \in Nat, NEW k \in Nat, NEW n \in Nat
  PROVE  Iterate[j + k][n] = Iterate[k][Iterate[j][n]]
<1> DEFINE P == {i \in Nat : Iterate[j + i][n] = Iterate[i][Iterate[j][n]]}
<1>0. Iterate[j][n] \in Nat
  BY IterateDefined
<1>1. 0 \in P
  <2>1. j + 0 = j
    OBVIOUS
  <2> QED
    BY <1>0, <2>1, IterateDefined
<1>2. ASSUME NEW i \in Nat, i \in P PROVE i + 1 \in P
  <2>1. j + (i + 1) = (j + i) + 1 /\ j + i \in Nat
    OBVIOUS
  <2>2. /\ Iterate[(j + i) + 1][n] = T[Iterate[j + i][n]]
        /\ Iterate[i + 1][Iterate[j][n]] = T[Iterate[i][Iterate[j][n]]]
    BY <1>0, <2>1, IterateDefined
  <2> QED
    BY <1>2, <2>1, <2>2
<1>3. k \in P
  <2> HIDE DEF P
  <2> QED
    BY <1>1, <1>2, SetInduction
<1> QED
  BY <1>3

-----------------------------------------------------------------------------
(* The mod-3 sieve.                                                          *)

Pair == [a : Nat, b : Nat]

\* Every member of the class k * q + r lies on a smaller number's trajectory.
ClassReached(k, r) == \A q \in Nat : ReachedFromBelow(k * q + r, LOG2)

\* The j steps that led from pair0 to pair are those of every member.
Image(j) == \A q \in Nat :
              Iterate[j][(pair0.a * q) + pair0.b] = (pair.a * q) + pair.b

\* What the loops keep: pair0 is an odd class modulo a power of two, pair its
\* image, which has not yet used up the factors of two and has not moved down
\* by more than its modulus has.
OnTheWay ==
  \E e \in 1 .. LOG2 - 1 : \E j \in 0 .. e : \E o \in Nat :
    /\ pair0.a = Pow2[e] /\ pair0.b \in 1 .. pair0.a - 1 /\ pair0.b % 2 = 1
    /\ pair.a = Pow2[e - j] * Pow3[o]
    /\ pair.a * pair0.b <= pair.b * pair0.a
    /\ Image(j)

SieveInv ==
  /\ stage \in {"main", "dump", "done"}
  /\ pair0 \in Pair /\ pair \in Pair /\ pair.b < pair.a
  /\ tab \in [1 .. LOG3 -> SUBSET Nat]
  /\ \A k \in 1 .. LOG3 : \A r \in tab[k] : ClassReached(Pow3[k], r)
  /\ stage = "main" => OnTheWay

\* A product with a power of three is even when the other factor is.
LEMMA EvenFactor ==
  ASSUME NEW k \in Nat, NEW o \in Nat, (Pow2[k] * Pow3[o]) % 2 = 0
  PROVE  k > 0
<1> SUFFICES ASSUME k = 0 PROVE FALSE
  OBVIOUS
<1>1. Pow2[0] = 1 /\ Pow3[o] \in Nat /\ Pow3[o] % 2 = 1
  BY Pow2Defined, PowerBounds
<1> QED
  BY <1>1

\* A step of a class whose members have one parity is theirs.
LEMMA ClassStep ==
  ASSUME NEW a \in Nat, NEW b \in Nat, a % 2 = 0, b < a
  PROVE  LET p == Step([a |-> a, b |-> b]) IN
         /\ p \in Pair /\ p.b < p.a
         /\ b % 2 = 0 => p.a = a \div 2
         /\ b % 2 = 1 => p.a = 3 * (a \div 2)
         /\ \A q \in Nat : T[(a * q) + b] = (p.a * q) + p.b
         /\ \A c \in Nat, d \in Nat : a * d <= b * c => p.a * d <= p.b * c
<1> DEFINE h == a \div 2
           p == Step([a |-> a, b |-> b])
<1>1. h \in Nat /\ a = 2 * h
  OBVIOUS
<1> HIDE DEF h, p
<1>2. ASSUME NEW q \in Nat
      PROVE  a * q = 2 * (h * q) /\ h * q \in Nat /\ (3 * h) * q = 3 * (h * q)
    BY <1>1, ProductLaws
<1> DEFINE Claim == /\ p \in Pair /\ p.b < p.a
                    /\ b % 2 = 0 => p.a = h
                    /\ b % 2 = 1 => p.a = 3 * h
                    /\ \A q \in Nat : T[(a * q) + b] = (p.a * q) + p.b
                    /\ \A c \in Nat, d \in Nat : a * d <= b * c => p.a * d <= p.b * c
<1>3. ASSUME b % 2 = 0 PROVE Claim
  <2> DEFINE c == b \div 2
  <2>1. c \in Nat /\ b = 2 * c
    BY <1>3
  <2>2. p = [a |-> h, b |-> c]
    BY <1>1, <1>3, <2>1 DEF Step, Odd, h, p
  <2> HIDE DEF c
  <2>3. ASSUME NEW q \in Nat PROVE T[(a * q) + b] = (h * q) + c
    <3>0. PICK y \in Nat : y = h * q /\ a * q = 2 * y
      BY <1>2
    <3>1. (a * q) + b = 2 * (y + c) /\ y + c \in Nat
      BY <2>1, <3>0
    <3>2. \A x \in Nat : T[2 * x] = x
      BY StepValue
    <3> QED
      BY <3>0, <3>1, <3>2
  <2>4. ASSUME NEW x \in Nat, NEW d \in Nat, a * d <= b * x PROVE h * d <= c * x
    <3>1. a * d = 2 * (h * d) /\ b * x = 2 * (c * x) /\ h * d \in Nat /\ c * x \in Nat
      BY <1>1, <2>1, ProductLaws
    <3> QED
      BY <2>4, <3>1
  <2>5. c < h
    BY <1>1, <2>1
  <2>6. p.a = h /\ p.b = c /\ p \in Pair
    BY <1>1, <2>1, <2>2 DEF Pair
  <2> QED
    BY <1>3, <2>3, <2>4, <2>5, <2>6
<1>4. ASSUME b % 2 = 1 PROVE Claim
  <2> DEFINE c == b \div 2
  <2>1. c \in Nat /\ b = (2 * c) + 1
    BY <1>4
  <2>2. p = [a |-> 3 * h, b |-> (3 * c) + 2]
    BY <1>1, <1>4, <2>1 DEF Step, Odd, p
  <2> HIDE DEF c
  <2>3. ASSUME NEW q \in Nat PROVE T[(a * q) + b] = ((3 * h) * q) + ((3 * c) + 2)
    <3>0. PICK y \in Nat : y = h * q /\ a * q = 2 * y /\ (3 * h) * q = 3 * y
      BY <1>2
    <3> DEFINE aq == a * q
    <3>1. aq + b = (2 * (y + c)) + 1 /\ y + c \in Nat
      <4>1. aq = 2 * y
        BY <3>0
      <4> HIDE DEF aq
      <4> QED
        BY <2>1, <4>1
    <3>2. \A x \in Nat : T[(2 * x) + 1] = (3 * x) + 2
      BY StepValue
    <3>3. T[(a * q) + b] = (3 * (y + c)) + 2
      BY <3>1, <3>2
    <3> QED
      BY <2>1, <3>0, <3>3
  <2>4. ASSUME NEW x \in Nat, NEW d \in Nat, a * d <= b * x
        PROVE  (3 * h) * d <= ((3 * c) + 2) * x
    <3>1. /\ a * d = 2 * (h * d) /\ b * x = (2 * (c * x)) + x
          /\ h * d \in Nat /\ c * x \in Nat
          /\ (3 * h) * d = 3 * (h * d) /\ ((3 * c) + 2) * x = (3 * (c * x)) + (2 * x)
      BY <1>1, <2>1, ProductLaws
    <3> QED
      BY <2>4, <3>1
  <2>5. (3 * c) + 2 < 3 * h
    BY <1>1, <2>1
  <2>6. p.a = 3 * h /\ p.b = (3 * c) + 2 /\ p \in Pair
    BY <1>1, <2>1, <2>2 DEF Pair
  <2> QED
    BY <1>4, <2>3, <2>4, <2>5, <2>6
<1>5. Claim
  <2> HIDE DEF Claim
  <2> QED
    BY <1>3, <1>4
<1> QED
  BY <1>5, Zenon DEF p, h

\* A class that is reached is so modulo every higher power.
LEMMA ReachedAbove ==
  ASSUME NEW j \in Nat, NEW k \in Nat, j <= k, NEW r \in Nat,
         ClassReached(Pow3[j], r % Pow3[j])
  PROVE  ClassReached(Pow3[k], r)
<1> DEFINE p == Pow3[j]
           f == Pow3[k - j]
<1>1. p \in Nat \ {0} /\ f \in Nat /\ Pow3[k] = p * f
  BY PowerBounds, PowerSplit
<1> HIDE DEF p, f
<1>2. r = p * (r \div p) + (r % p) /\ r \div p \in Nat /\ r % p \in Nat
  <2>1. r = p * (r \div p) + (r % p) /\ r \div p \in Nat /\ r % p \in 0 .. p - 1
    BY <1>1, Division, Zenon
  <2> QED
    BY <1>1, <2>1
<1>3. ASSUME NEW q \in Nat PROVE ReachedFromBelow((Pow3[k] * q) + r, LOG2)
  <2> DEFINE s == (f * q) + (r \div p)
  <2>1. f * q \in Nat /\ (p * f) * q = p * (f * q)
    BY <1>1, ProductLaws
  <2>2. s \in Nat /\ p * s = p * (f * q) + p * (r \div p)
    BY <1>1, <1>2, <2>1, ProductLaws
  <2>3. (Pow3[k] * q) + r = (p * s) + (r % p)
    <3>1. p * (f * q) \in Nat /\ p * (r \div p) \in Nat
      BY <1>1, <1>2, <2>1, ProductLaws
    <3>2. Pow3[k] * q = p * (f * q)
      BY <1>1, <2>1
    <3> HIDE DEF s
    <3> QED
      BY <1>2, <2>2, <3>1, <3>2
  <2>4. ReachedFromBelow((p * s) + (r % p), LOG2)
    <3> HIDE DEF s
    <3> QED
      BY <2>2 DEF ClassReached, p
  <2> QED
    BY <2>3, <2>4
<1> QED
  BY <1>3 DEF ClassReached

\* The invariant holds at first.
LEMMA SieveInit0 == SieveInit => SieveInv
<1> SUFFICES ASSUME SieveInit PROVE SieveInv
  OBVIOUS
<1>1. Pow2[1] = 2 /\ Pow2[0] = 1 /\ Pow3[0] = 1
  <2>1. Pow2[0 + 1] = 2 * Pow2[0] /\ Pow2[0] = 1 /\ Pow3[0] = 1
    BY Pow2Defined, Pow3Defined
  <2> QED
    BY <2>1
<1>2. pair0 = [a |-> 2, b |-> 1] /\ pair = pair0 /\ stage = "main"
        /\ tab = [k \in 1 .. LOG3 |-> {}]
  BY DEF SieveInit
<1>3. Image(0)
  <2>1. ASSUME NEW q \in Nat PROVE Iterate[0][(pair0.a * q) + pair0.b] = (pair.a * q) + pair.b
    <3>1. (2 * q) + 1 \in Nat
      OBVIOUS
    <3> QED
      BY <1>2, <3>1, IterateDefined
  <2> QED
    BY <2>1 DEF Image
<1>4. OnTheWay
  <2>1. 1 \in 1 .. LOG2 - 1 /\ 0 \in 0 .. 1 /\ 0 \in Nat
    BY Mod3Assumption
  <2>2. /\ pair0.a = Pow2[1] /\ pair0.b \in 1 .. pair0.a - 1 /\ pair0.b % 2 = 1
        /\ pair.a = Pow2[1 - 0] * Pow3[0]
        /\ pair.a * pair0.b <= pair.b * pair0.a
    BY <1>1, <1>2
  <2> QED
    BY <1>3, <2>1, <2>2, Zenon DEF OnTheWay
<1> QED
  BY <1>2, <1>4 DEF SieveInv, Pair

\* A step of the pair keeps it.
LEMMA SieveStepPair ==
  ASSUME SieveInv, StepPair
  PROVE  SieveInv'
<1>0. PICK e \in 1 .. LOG2 - 1 : \E j \in 0 .. e : \E o \in Nat :
        /\ pair0.a = Pow2[e] /\ pair0.b \in 1 .. pair0.a - 1 /\ pair0.b % 2 = 1
        /\ pair.a = Pow2[e - j] * Pow3[o]
        /\ pair.a * pair0.b <= pair.b * pair0.a
        /\ Image(j)
  BY Zenon DEF SieveInv, StepPair, OnTheWay
<1>1. PICK j \in 0 .. e, o \in Nat :
        /\ pair0.a = Pow2[e] /\ pair0.b \in 1 .. pair0.a - 1 /\ pair0.b % 2 = 1
        /\ pair.a = Pow2[e - j] * Pow3[o]
        /\ pair.a * pair0.b <= pair.b * pair0.a
        /\ Image(j)
  BY <1>0, Zenon
<1>2. pair \in Pair /\ pair0 \in Pair /\ pair.b < pair.a
  BY DEF SieveInv
<1>3. pair.a % 2 = 0
  BY <1>2 DEF StepPair, IndeterminateP, Odd, Pair
<1>4. pair = [a |-> pair.a, b |-> pair.b] /\ pair.a \in Nat /\ pair.b \in Nat
        /\ pair0.a \in Nat /\ pair0.b \in Nat
  BY <1>2 DEF Pair
<1>5. /\ pair' = Step([a |-> pair.a, b |-> pair.b]) /\ pair0' = pair0 /\ stage' = stage
      /\ tab' = Kill(pair0, pair') /\ stage = "main"
  BY <1>4, Zenon DEF StepPair
<1>6. /\ pair' \in Pair /\ pair'.b < pair'.a
      /\ pair.b % 2 = 0 => pair'.a = pair.a \div 2
      /\ pair.b % 2 = 1 => pair'.a = 3 * (pair.a \div 2)
      /\ \A q \in Nat : T[(pair.a * q) + pair.b] = (pair'.a * q) + pair'.b
      /\ \A c \in Nat, d \in Nat : pair.a * d <= pair.b * c => pair'.a * d <= pair'.b * c
  BY <1>2, <1>3, <1>4, <1>5, ClassStep, Zenon
<1>7. e - j \in Nat /\ e - j > 0 /\ e \in Nat /\ j \in Nat /\ j + 1 \in 0 .. e
  <2>1. e - j \in Nat /\ e \in Nat /\ j \in Nat
    BY Mod3Assumption
  <2>2. e - j > 0
    BY <1>1, <1>3, <2>1, EvenFactor
  <2> QED
    BY <2>1, <2>2
<1>8. \E p \in Nat : pair'.a = Pow2[e - (j + 1)] * Pow3[p]
  <2> DEFINE i == e - (j + 1)
  <2>1. i \in Nat /\ i + 1 = e - j
    BY <1>7
  <2> HIDE DEF i
  <2>2. Pow2[i + 1] = 2 * Pow2[i] /\ Pow2[i] \in Nat /\ Pow3[o] \in Nat /\ Pow3[o + 1] = 3 * Pow3[o]
    BY <2>1, Pow2Defined, PowerBounds, Pow3Defined
  <2> DEFINE y == Pow2[i] * Pow3[o]
  <2>3. y \in Nat /\ pair.a = 2 * y /\ Pow2[i] * (3 * Pow3[o]) = 3 * y
    <3>1. (2 * Pow2[i]) * Pow3[o] = 2 * (Pow2[i] * Pow3[o])
      BY <2>2, ProductLaws
    <3> QED
      BY <1>1, <2>1, <2>2, <3>1, ProductLaws
  <2>4. pair.a \div 2 = y
    <3> HIDE DEF y
    <3> QED
      BY <2>3
  <2>5. CASE pair.b % 2 = 0
    <3>1. pair'.a = y
      BY <1>6, <2>4, <2>5
    <3> QED
      BY <3>1 DEF i
  <2>6. CASE pair.b % 2 = 1
    <3>1. pair'.a = Pow2[i] * Pow3[o + 1]
      BY <1>6, <2>2, <2>3, <2>4, <2>6
    <3>2. o + 1 \in Nat
      OBVIOUS
    <3> QED
      BY <3>1, <3>2 DEF i
  <2> QED
    BY <1>4, <2>5, <2>6
<1>9. Image(j + 1)'
  <2> SUFFICES ASSUME NEW q \in Nat
               PROVE  Iterate[j + 1][(pair0.a * q) + pair0.b] = (pair'.a * q) + pair'.b
    BY <1>5 DEF Image
  <2> DEFINE m == (pair0.a * q) + pair0.b
  <2>1. m \in Nat
    BY <1>4, ProductLaws
  <2>2. Iterate[j][m] = (pair.a * q) + pair.b
    BY <1>1, Zenon DEF Image
  <2>3. Iterate[j + 1][m] = T[Iterate[j][m]]
    <3> HIDE DEF m
    <3> QED
      BY <1>7, <2>1, IterateDefined
  <2>4. T[(pair.a * q) + pair.b] = (pair'.a * q) + pair'.b
    BY <1>6
  <2> QED
    BY <2>2, <2>3, <2>4, Zenon
<1>10. pair'.a * pair0.b <= pair'.b * pair0.a
  BY <1>1, <1>4, <1>6
<1>11. OnTheWay'
  <2>1. PICK p \in Nat : pair'.a = Pow2[e - (j + 1)] * Pow3[p]
    BY <1>8
  <2> QED
    BY <1>1, <1>5, <1>7, <1>9, <1>10, <2>1, Zenon DEF OnTheWay
<1>12. ASSUME pair0.a < pair'.a PROVE ClassReached(pair'.a, pair'.b)
  <2> SUFFICES ASSUME NEW q \in Nat PROVE ReachedFromBelow((pair'.a * q) + pair'.b, LOG2)
    BY DEF ClassReached
  <2> DEFINE m == (pair0.a * q) + pair0.b
             n == (pair'.a * q) + pair'.b
  <2>1. Iterate[j + 1][m] = n
    BY <1>5, <1>9, Zenon DEF Image
  <2>2. pair'.a \in Nat /\ pair'.b \in Nat
    BY <1>6 DEF Pair
  <2>3. pair0.b < pair'.b
    <3>1. SUFFICES ASSUME pair'.b <= pair0.b PROVE FALSE
      BY <1>4, <2>2
    <3>2. pair'.b * pair0.a <= pair0.b * pair0.a
      BY <1>4, <2>2, <3>1, ProductOrder
    <3> DEFINE c == pair0.a + 1
    <3>a. c \in Nat /\ c <= pair'.a
      BY <1>4, <1>12, <2>2
    <3>3. c * pair0.b <= pair'.a * pair0.b
      <4> HIDE DEF c
      <4> QED
        BY <3>a, <1>4, <2>2, ProductOrder, Zenon
    <3>4. c * pair0.b = (pair0.b * pair0.a) + pair0.b /\ pair0.b * pair0.a \in Nat
      <4>1. \A x \in Nat, y \in Nat : (x + 1) * y = (y * x) + y /\ y * x \in Nat
        OBVIOUS
      <4> QED
        BY <1>4, <4>1, Zenon
    <3>5. pair0.b > 0
      BY <1>1, <1>4
    <3> QED
      BY <1>4, <1>10, <2>2, <3>2, <3>3, <3>4, <3>5
  <2>4. m \in Nat /\ n \in Nat /\ 1 <= m /\ m < n
    <3>0. pair0.a <= pair'.a
      BY <1>4, <1>12, <2>2
    <3>1. pair0.a * q <= pair'.a * q /\ pair0.a * q \in Nat /\ pair'.a * q \in Nat
      BY <1>4, <2>2, <3>0, ProductOrder, ProductLaws, Zenon
    <3>2. pair0.b >= 1
      BY <1>1, <1>4
    <3> DEFINE x == pair0.a * q
               y == pair'.a * q
    <3>3. x <= y /\ x \in Nat /\ y \in Nat
      BY <3>1
    <3> HIDE DEF x, y
    <3>4. /\ x + pair0.b \in Nat /\ y + pair'.b \in Nat /\ 1 <= x + pair0.b
          /\ x + pair0.b < y + pair'.b
      BY <1>4, <2>2, <2>3, <3>2, <3>3
    <3> QED
      BY <3>4 DEF x, y
  <2>5. j + 1 \in 1 .. LOG2
    BY <1>7, Mod3Assumption
  <2> HIDE DEF m, n
  <2>6. m \in 1 .. n - 1
    BY <2>4
  <2>7. ReachedFromBelow(n, LOG2)
    BY <2>1, <2>5, <2>6, Zenon DEF ReachedFromBelow
  <2> QED
    BY <2>7 DEF n
<1>13. tab' \in [1 .. LOG3 -> SUBSET Nat]
  BY <1>5, <1>6 DEF Kill, SieveInv, Pair
<1>14. ASSUME NEW k \in 1 .. LOG3, NEW r \in tab'[k] PROVE ClassReached(Pow3[k], r)
  <2>1. CASE r \in tab[k]
    BY <2>1, Zenon DEF SieveInv
  <2>2. CASE r \notin tab[k]
    <3>1. pair0.a < pair'.a /\ pair'.a = Pow3[k] /\ r = pair'.b
      BY <1>5, <2>2 DEF Kill
    <3> QED
      BY <1>12, <3>1
  <2> QED
    BY <2>1, <2>2
<1>15. pair0' \in Pair
  BY <1>2, <1>5
<1>16. \A k \in 1 .. LOG3 : \A r \in tab'[k] : ClassReached(Pow3[k], r)
  BY <1>14
<1> QED
  BY <1>5, <1>6, <1>11, <1>13, <1>15, <1>16, Zenon DEF SieveInv, ClassReached

\* So do the loops of main.
LEMMA SieveNextPair ==
  ASSUME SieveInv, NextPair
  PROVE  SieveInv'
<1>1. PICK e \in 1 .. LOG2 - 1 : pair0.a = Pow2[e] /\ pair0.b \in 1 .. pair0.a - 1 /\ pair0.b % 2 = 1
  BY Zenon DEF SieveInv, NextPair, OnTheWay
<1>2. e \in Nat \ {0} /\ e + 1 \in Nat /\ LOG2 \in Nat
  BY Mod3Assumption
<1>3. pair0.a \in Nat /\ pair0.b \in Nat /\ pair0.b < pair0.a /\ pair0.a % 2 = 0 /\ pair0.a > 1
        /\ pair0 = [a |-> pair0.a, b |-> pair0.b]
  BY <1>1, <1>2, PowerBounds DEF SieveInv, Pair
<1>4. pair' = pair0' /\ tab' = tab /\ stage' \in {"main", "dump"}
  BY DEF NextPair
<1>5. \E d \in 1 .. LOG2 : /\ pair0'.a = Pow2[d] /\ pair0' \in Pair
                           /\ pair0'.b \in 1 .. pair0'.a - 1 /\ pair0'.b % 2 = 1
                           /\ stage' = "main" => d < LOG2
  <2>1. CASE pair0.b + 2 < pair0.a
    <3>1. pair0' = [a |-> pair0.a, b |-> pair0.b + 2]
      BY <1>3, <2>1 DEF NextPair
    <3>2. e \in 1 .. LOG2 /\ e < LOG2
      BY <1>2
    <3> QED
      BY <1>1, <1>3, <2>1, <3>1, <3>2 DEF Pair
  <2>2. CASE ~(pair0.b + 2 < pair0.a)
    <3>1. pair0' = [a |-> 2 * pair0.a, b |-> 1]
      BY <2>2 DEF NextPair
    <3>2. Pow2[e + 1] = 2 * pair0.a /\ e + 1 \in 1 .. LOG2
      BY <1>1, <1>2, Pow2Defined
    <3>3. stage' = "main" => e + 1 < LOG2
      <4>1. SUFFICES ASSUME stage' = "main", e + 1 = LOG2 PROVE FALSE
        BY <3>2, <1>2
      <4>2. pair0'.a < Pow2[LOG2]
        BY <4>1 DEF NextPair
      <4>3. pair0'.a = Pow2[LOG2]
        BY <3>1, <3>2, <4>1
      <4>4. Pow2[LOG2] \in Nat
        BY <1>2, PowerBounds
      <4> QED
        BY <4>2, <4>3, <4>4
    <3>4. pair0' \in Pair /\ pair0'.b \in 1 .. pair0'.a - 1 /\ pair0'.b % 2 = 1
      BY <1>3, <3>1 DEF Pair
    <3>5. pair0'.a = Pow2[e + 1]
      BY <3>1, <3>2
    <3> QED
      BY <3>2, <3>3, <3>4, <3>5, Zenon
  <2> QED
    BY <2>1, <2>2
<1>6. PICK d \in 1 .. LOG2 : /\ pair0'.a = Pow2[d] /\ pair0' \in Pair
                             /\ pair0'.b \in 1 .. pair0'.a - 1 /\ pair0'.b % 2 = 1
                             /\ stage' = "main" => d < LOG2
  BY <1>5
<1>7. pair0'.a \in Nat /\ pair0'.b \in Nat /\ pair0'.b < pair0'.a
  BY <1>6 DEF Pair
<1>8. ASSUME stage' = "main" PROVE OnTheWay'
  <2>1. d \in 1 .. LOG2 - 1 /\ 0 \in 0 .. d /\ 0 \in Nat /\ d - 0 = d
    BY <1>2, <1>6, <1>8
  <2>2. Pow3[0] = 1 /\ Pow2[d] \in Nat
    <3>1. d \in Nat
      BY <2>1, <1>2
    <3> QED
      BY <3>1, Pow3Defined, PowerBounds
  <2>3. pair'.a = Pow2[d - 0] * Pow3[0]
    BY <1>4, <1>6, <2>1, <2>2
  <2>4. pair'.a * pair0'.b <= pair'.b * pair0'.a
    BY <1>4, <1>7, ProductLaws
  <2>5. Image(0)'
    <3>1. ASSUME NEW q \in Nat
          PROVE  Iterate[0][(pair0'.a * q) + pair0'.b] = (pair'.a * q) + pair'.b
      <4>1. (pair0'.a * q) + pair0'.b \in Nat
        BY <1>7, ProductLaws
      <4> QED
        BY <1>4, <4>1, IterateDefined
    <3> QED
      BY <3>1 DEF Image
  <2> QED
    BY <1>6, <2>1, <2>3, <2>4, <2>5, Zenon DEF OnTheWay
<1>9. stage' \in {"main", "dump", "done"}
  BY <1>4
<1> QED
  BY <1>4, <1>6, <1>7, <1>8, <1>9, Zenon DEF SieveInv, ClassReached

\* So does dump.
LEMMA SieveDump ==
  ASSUME SieveInv, Dump
  PROVE  SieveInv'
<1>1. /\ stage' = "done" /\ pair0' = pair0 /\ pair' = pair
      /\ tab' = [k \in 1 .. LOG3 |-> {r \in 0 .. Pow3[k] - 1 :
                   \E j \in 1 .. k : r % Pow3[j] \in tab[j]}]
  BY DEF Dump
<1>2. tab' \in [1 .. LOG3 -> SUBSET Nat]
  BY <1>1, Mod3Assumption, PowerBounds
<1>3. ASSUME NEW k \in 1 .. LOG3, NEW r \in tab'[k] PROVE ClassReached(Pow3[k], r)
  <2>1. r \in Nat /\ k \in Nat
    BY <1>2, Mod3Assumption
  <2>2. PICK j \in 1 .. k : r % Pow3[j] \in tab[j]
    BY <1>1, <1>3
  <2>3. j \in 1 .. LOG3 /\ j \in Nat /\ j <= k
    BY <2>1, Mod3Assumption
  <2>4. ClassReached(Pow3[j], r % Pow3[j])
    BY <2>2, <2>3, Zenon DEF SieveInv
  <2> QED
    BY <2>1, <2>3, <2>4, ReachedAbove
<1>4. stage' # "main" /\ stage' \in {"main", "dump", "done"}
  BY <1>1
<1>5. \A k \in 1 .. LOG3 : \A r \in tab'[k] : ClassReached(Pow3[k], r)
  BY <1>3
<1> QED
  BY <1>1, <1>2, <1>4, <1>5, Zenon DEF SieveInv, ClassReached

\* It is an invariant.
LEMMA SieveInvariant == SieveSpec => []SieveInv
<1>1. SieveInit => SieveInv
  BY SieveInit0
<1>2. SieveInv /\ [SieveNext]_sieveVars => SieveInv'
  <2> SUFFICES ASSUME SieveInv, [SieveNext]_sieveVars PROVE SieveInv'
    OBVIOUS
  <2>1. CASE StepPair
    BY <2>1, SieveStepPair
  <2>2. CASE NextPair
    BY <2>2, SieveNextPair
  <2>3. CASE Dump
    BY <2>3, SieveDump
  <2>4. CASE UNCHANGED sieveVars
    BY <2>4 DEF sieveVars, SieveInv, OnTheWay, Image, Pair, ClassReached
  <2> QED
    BY <2>1, <2>2, <2>3, <2>4 DEF SieveNext
<1> QED
  BY <1>1, <1>2, PTL DEF SieveSpec

\* Every class mod3-sieve marks is dead for a reason, for all moduli: each of
\* its members is on the trajectory of a smaller number, at most LOG2 steps on.
THEOREM SieveSoundCorrect == SieveSpec => []SieveSound
<1>1. SieveInv => SieveSound
  <2> SUFFICES ASSUME SieveInv, NEW k \in 1 .. LOG3, NEW r \in tab[k], NEW q \in 0 .. Members - 1
               PROVE  pair.b < pair.a /\ ReachedFromBelow((Pow3[k] * q) + r, LOG2)
    BY Zenon DEF SieveSound, SieveInv
  <2>1. q \in Nat
    BY MembersAssumption
  <2>2. ClassReached(Pow3[k], r) /\ pair.b < pair.a
    BY Zenon DEF SieveInv
  <2> QED
    BY <2>1, <2>2, Zenon DEF ClassReached
<1> QED
  BY <1>1, SieveInvariant, PTL

\* The classes modulo at most eight and what they become.
Trails == {<<2, 1, 2, 1>>, <<2, 1, 3, 2>>,
           <<4, 1, 4, 1>>, <<4, 1, 6, 2>>, <<4, 1, 3, 1>>,
           <<4, 3, 4, 3>>, <<4, 3, 6, 5>>, <<4, 3, 9, 8>>,
           <<8, 1, 8, 1>>, <<8, 1, 12, 2>>, <<8, 1, 6, 1>>, <<8, 1, 9, 2>>,
           <<8, 3, 8, 3>>, <<8, 3, 12, 5>>, <<8, 3, 18, 8>>, <<8, 3, 9, 4>>,
           <<8, 5, 8, 5>>, <<8, 5, 12, 8>>, <<8, 5, 6, 4>>, <<8, 5, 3, 2>>,
           <<8, 7, 8, 7>>, <<8, 7, 12, 11>>, <<8, 7, 18, 17>>, <<8, 7, 27, 26>>}

Trail(p, q) == <<p.a, p.b, q.a, q.b>>

\* Has p, with what it becomes as far as q, gone past the place a, b, c?
Past(p, q, a, b, c) == \/ p.a > a
                       \/ p.a = a /\ p.b > b
                       \/ p.a = a /\ p.b = b /\ q.a = c

\* The tables of the two smallest moduli hold what the classes so far give.
TableInv ==
  /\ pair0 \in Pair /\ pair \in Pair
  /\ tab \in [1 .. LOG3 -> SUBSET Nat]
  /\ pair0.a <= 8 => Trail(pair0, pair) \in Trails
  /\ pair0.a <= 8 \/ pair0.a >= 16
  /\ stage \in {"main", "dump"} =>
       /\ tab[1] \subseteq {2} /\ tab[2] \subseteq {2, 4, 8}
       /\ Past(pair0, pair, 2, 1, 3) => 2 \in tab[1]
       /\ Past(pair0, pair, 4, 3, 9) => 8 \in tab[2]
       /\ Past(pair0, pair, 8, 3, 9) => 4 \in tab[2]
  /\ stage = "dump" => pair0.a > 8
  /\ stage = "done" => WorkersUseTheSieve
  /\ stage \in {"main", "dump", "done"}

\* The powers the workers' tables are for.
LEMMA SmallPowers ==
  /\ Pow3[0] = 1 /\ Pow3[1] = 3 /\ Pow3[2] = 9
  /\ Pow2[0] = 1 /\ Pow2[1] = 2 /\ Pow2[2] = 4 /\ Pow2[3] = 8 /\ Pow2[4] = 16
<1>1. /\ Pow3[0 + 1] = 3 * Pow3[0] /\ Pow3[1 + 1] = 3 * Pow3[1] /\ Pow3[0] = 1
  BY Pow3Defined
<1>2. /\ Pow2[0 + 1] = 2 * Pow2[0] /\ Pow2[1 + 1] = 2 * Pow2[1] /\ Pow2[0] = 1
      /\ Pow2[2 + 1] = 2 * Pow2[2] /\ Pow2[3 + 1] = 2 * Pow2[3]
  BY Pow2Defined
<1> QED
  BY <1>1, <1>2

\* A remainder may be taken modulo a higher power first.
LEMMA RemainderTwice ==
  ASSUME NEW j \in Nat, NEW k \in Nat, j <= k, NEW r \in Nat
  PROVE  (r % Pow3[k]) % Pow3[j] = r % Pow3[j]
<1> DEFINE p == Pow3[j]
           f == Pow3[k - j]
<1>1. p \in Nat \ {0} /\ f \in Nat \ {0} /\ Pow3[k] = p * f
  BY PowerBounds, PowerSplit
<1> HIDE DEF p, f
<1> DEFINE s == (r \div p) % f
           t == r % p
<1>2. r % (p * f) = (p * s) + t
  BY <1>1, DivisionTwice
<1>3. s \in Nat /\ t \in 0 .. p - 1
  <2>1. r \div p \in Nat /\ t \in 0 .. p - 1
    BY <1>1, Division, Zenon
  <2> QED
    BY <1>1, <2>1
<1>4. ((p * s) + t) % p = t
  <2> HIDE DEF s, t
  <2> QED
    BY <1>1, <1>3, DivisionUnique
<1> QED
  BY <1>1, <1>2, <1>4 DEF p

\* The tables are empty at first.
LEMMA TableInit == SieveInit => TableInv
  BY Mod3Assumption DEF SieveInit, TableInv, Trail, Trails, Past, Pair

\* A step of the pair keeps what the tables have of the moduli 3 and 9.
LEMMA TableStepPair ==
  ASSUME TableInv, StepPair
  PROVE  TableInv'
<1>1. /\ pair0 \in Pair /\ pair \in Pair /\ tab \in [1 .. LOG3 -> SUBSET Nat] /\ stage = "main"
      /\ pair0.a <= 8 \/ pair0.a >= 16
  BY DEF TableInv, StepPair
<1>2. /\ pair' = Step(pair) /\ pair0' = pair0 /\ stage' = "main" /\ pair.a % 2 # 1
      /\ tab' = Kill(pair0, pair')
  BY <1>1 DEF StepPair, IndeterminateP, Odd
<1>3. pair' \in Pair
  <2>1. pair.a \in Nat /\ pair.b \in Nat
    BY <1>1 DEF Pair
  <2>2. (3 * pair.a) \div 2 \in Nat /\ (3 * pair.b + 1) \div 2 \in Nat
          /\ pair.a \div 2 \in Nat /\ pair.b \div 2 \in Nat
    BY <2>1
  <2> QED
    BY <1>2, <2>2 DEF Step, Pair
<1>4. tab' \in [1 .. LOG3 -> SUBSET Nat]
  BY <1>1, <1>2, <1>3 DEF Kill, Pair
<1>5. /\ tab'[1] = tab[1] \cup IF pair0.a < pair'.a /\ pair'.a = 3 THEN {pair'.b} ELSE {}
      /\ tab'[2] = tab[2] \cup IF pair0.a < pair'.a /\ pair'.a = 9 THEN {pair'.b} ELSE {}
  BY <1>2, SmallPowers, Mod3Assumption DEF Kill
<1>6. /\ tab[1] \subseteq {2} /\ tab[2] \subseteq {2, 4, 8}
      /\ Past(pair0, pair, 2, 1, 3) => 2 \in tab[1]
      /\ Past(pair0, pair, 4, 3, 9) => 8 \in tab[2]
      /\ Past(pair0, pair, 8, 3, 9) => 4 \in tab[2]
  BY <1>1 DEF TableInv
<1> DEFINE After == /\ pair0.a <= 8 => Trail(pair0, pair') \in Trails
                    /\ tab'[1] \subseteq {2} /\ tab'[2] \subseteq {2, 4, 8}
                    /\ Past(pair0, pair', 2, 1, 3) => 2 \in tab'[1]
                    /\ Past(pair0, pair', 4, 3, 9) => 8 \in tab'[2]
                    /\ Past(pair0, pair', 8, 3, 9) => 4 \in tab'[2]
<1>7. CASE pair0.a >= 16
  <2>1. Past(pair0, pair, 2, 1, 3) /\ Past(pair0, pair, 4, 3, 9) /\ Past(pair0, pair, 8, 3, 9)
    BY <1>7, <1>1 DEF Past, Pair
  <2>2. tab'[1] = tab[1] /\ tab'[2] = tab[2]
    BY <1>5, <1>7, <1>3, <1>1 DEF Pair
  <2>3. After
    BY <1>6, <1>7, <1>1, <2>1, <2>2 DEF Pair
  <2> QED
    BY <2>3, <1>1, <1>2, <1>3, <1>4 DEF TableInv
<1>8. CASE pair0.a <= 8
  <2>1. <<pair0.a, pair0.b, pair.a, pair.b>> \in Trails
    BY <1>8 DEF TableInv, Trail
  <2> DEFINE Fits(a0, b0, q) ==
               /\ <<a0, b0, q.a, q.b>> \in Trails
               /\ (a0 < q.a /\ q.a = 3) => /\ q.b = 2 /\ a0 = 2 /\ b0 = 1
               /\ (a0 < q.a /\ q.a = 9) => \/ a0 = 4 /\ b0 = 3 /\ q.b = 8
                                           \/ a0 = 8 /\ b0 = 1 /\ q.b = 2
                                           \/ a0 = 8 /\ b0 = 3 /\ q.b = 4
               /\ (a0 = 2 /\ b0 = 1 /\ q.a = 3) => q.b = 2
               /\ (a0 = 4 /\ b0 = 3 /\ q.a = 9) => q.b = 8
               /\ (a0 = 8 /\ b0 = 3 /\ q.a = 9) => q.b = 4
  <2>2. ASSUME NEW a0, NEW b0, NEW a, NEW b, NEW q,
               <<a0, b0, a, b>> \in Trails, a % 2 # 1, q = Step([a |-> a, b |-> b])
        PROVE  Fits(a0, b0, q)
    BY <2>2 DEF Trails, Step, Odd
  <2>3. pair = [a |-> pair.a, b |-> pair.b]
    BY <1>1 DEF Pair
  <2>4. Fits(pair0.a, pair0.b, pair')
    <3>1. pair' = Step([a |-> pair.a, b |-> pair.b]) /\ pair.a % 2 # 1
      BY <1>2, <2>3
    <3> HIDE DEF Fits
    <3> QED
      BY <2>1, <2>2, <3>1, Zenon
  <2>5. After
    BY <1>1, <1>5, <1>6, <2>4 DEF Past, Trail, Pair
  <2> QED
    BY <2>5, <1>1, <1>2, <1>3, <1>4 DEF TableInv
<1> QED
  BY <1>1, <1>7, <1>8

\* The loops of main take the pairs one after the other.
LEMMA TableNextPair ==
  ASSUME TableInv, NextPair
  PROVE  TableInv'
<1>1. /\ pair0 \in Pair /\ pair \in Pair /\ tab \in [1 .. LOG3 -> SUBSET Nat] /\ stage = "main"
      /\ pair0.a <= 8 \/ pair0.a >= 16
      /\ pair0.a \in Nat /\ pair0.b \in Nat
  BY DEF TableInv, NextPair, Pair
<1>2. pair' = pair0' /\ tab' = tab /\ stage' \in {"main", "dump"} /\ pair.a % 2 = 1
  BY DEF NextPair, IndeterminateP, Odd
<1>3. pair0' = [a |-> pair0.a, b |-> pair0.b + 2] \/ pair0' = [a |-> 2 * pair0.a, b |-> 1]
  BY <1>1 DEF NextPair, Pair
<1>4. pair0' \in Pair
  BY <1>1, <1>3 DEF Pair
<1>5. /\ tab[1] \subseteq {2} /\ tab[2] \subseteq {2, 4, 8}
      /\ Past(pair0, pair, 2, 1, 3) => 2 \in tab[1]
      /\ Past(pair0, pair, 4, 3, 9) => 8 \in tab[2]
      /\ Past(pair0, pair, 8, 3, 9) => 4 \in tab[2]
  BY <1>1 DEF TableInv
<1>6. stage' = "dump" => pair0'.a > 8
  <2> SUFFICES ASSUME stage' = "dump" PROVE pair0'.a > 8
    OBVIOUS
  <2>1. ~(pair0'.a < Pow2[LOG2])
    BY DEF NextPair
  <2>2. Pow2[4] <= Pow2[LOG2] /\ Pow2[4] = 16 /\ Pow2[LOG2] \in Nat
    BY Mod3Assumption, PowerOrder, PowerBounds, SmallPowers
  <2>3. pair0'.a \in Nat
    BY <1>4 DEF Pair
  <2> QED
    BY <2>1, <2>2, <2>3
<1> DEFINE After == /\ pair0'.a <= 8 \/ pair0'.a >= 16
                    /\ pair0'.a <= 8 => Trail(pair0', pair0') \in Trails
                    /\ Past(pair0', pair0', 2, 1, 3) => Past(pair0, pair, 2, 1, 3)
                    /\ Past(pair0', pair0', 4, 3, 9) => Past(pair0, pair, 4, 3, 9)
                    /\ Past(pair0', pair0', 8, 3, 9) => Past(pair0, pair, 8, 3, 9)
<1>7. ASSUME pair0.a >= 16 PROVE After
  BY <1>1, <1>3, <1>7 DEF Past
<1>8. ASSUME pair0.a <= 8 PROVE After
  <2>1. <<pair0.a, pair0.b, pair.a, pair.b>> \in Trails
    BY <1>8 DEF TableInv, Trail
  <2>2. CASE pair0.b + 2 < pair0.a
    <3>1. pair0' = [a |-> pair0.a, b |-> pair0.b + 2]
      BY <1>1, <2>2 DEF NextPair, Pair
    <3> QED
      BY <1>2, <2>1, <2>2, <3>1 DEF Past, Trail, Trails
  <2>3. CASE ~(pair0.b + 2 < pair0.a)
    <3>1. pair0' = [a |-> 2 * pair0.a, b |-> 1]
      BY <2>3 DEF NextPair
    <3> QED
      BY <1>2, <2>1, <2>3, <3>1 DEF Past, Trail, Trails
  <2> QED
    BY <2>2, <2>3
<1>9. After
  <2> HIDE DEF After
  <2> QED
    BY <1>1, <1>7, <1>8
<1> QED
  BY <1>1, <1>2, <1>4, <1>5, <1>6, <1>9 DEF TableInv

\* dump has all trails it needs behind it.
LEMMA TableDump ==
  ASSUME TableInv, Dump
  PROVE  TableInv'
<1>1. /\ pair0 \in Pair /\ pair \in Pair /\ tab \in [1 .. LOG3 -> SUBSET Nat] /\ stage = "dump"
      /\ pair0.a <= 8 \/ pair0.a >= 16
      /\ pair0.a <= 8 => Trail(pair0, pair) \in Trails
      /\ tab[1] \subseteq {2} /\ tab[2] \subseteq {2, 4, 8} /\ pair0.a > 8
      /\ Past(pair0, pair, 2, 1, 3) => 2 \in tab[1]
      /\ Past(pair0, pair, 4, 3, 9) => 8 \in tab[2]
      /\ Past(pair0, pair, 8, 3, 9) => 4 \in tab[2]
  BY DEF TableInv, Dump
<1>2. /\ stage' = "done" /\ pair0' = pair0 /\ pair' = pair
      /\ tab' = [k \in 1 .. LOG3 |-> {r \in 0 .. Pow3[k] - 1 :
                   \E j \in 1 .. k : r % Pow3[j] \in tab[j]}]
  BY DEF Dump
<1>3. tab[1] = {2} /\ tab[2] \subseteq {2, 4, 8} /\ 4 \in tab[2] /\ 8 \in tab[2]
  <2>1. Past(pair0, pair, 2, 1, 3) /\ Past(pair0, pair, 4, 3, 9) /\ Past(pair0, pair, 8, 3, 9)
    BY <1>1 DEF Past, Pair
  <2> QED
    BY <1>1, <2>1
<1>4. tab' \in [1 .. LOG3 -> SUBSET Nat]
  BY <1>2, Mod3Assumption, PowerBounds
<1>5. tab'[1] = Dead(3)
  <2>1. tab'[1] = {r \in 0 .. 2 : \E j \in 1 .. 1 : r % Pow3[j] \in tab[j]}
    BY <1>2, SmallPowers, Mod3Assumption
  <2>2. \A r \in 0 .. 2 : (\E j \in 1 .. 1 : r % Pow3[j] \in tab[j]) <=> r % 3 \in tab[1]
    BY SmallPowers
  <2> QED
    BY <1>3, <2>1, <2>2 DEF Dead
<1>6. tab'[2] = Dead(9)
  <2>1. tab'[2] = {r \in 0 .. 8 : \E j \in 1 .. 2 : r % Pow3[j] \in tab[j]}
    BY <1>2, SmallPowers, Mod3Assumption
  <2>2. \A r \in 0 .. 8 : (\E j \in 1 .. 2 : r % Pow3[j] \in tab[j])
                             <=> (r % 3 \in tab[1] \/ r % 9 \in tab[2])
    <3>1. 1 .. 2 = {1, 2}
      OBVIOUS
    <3> QED
      BY <3>1, SmallPowers
  <2>3. \A r \in 0 .. 8 : (r % 3 \in tab[1] \/ r % 9 \in tab[2]) <=> r \in {2, 4, 5, 8}
    BY <1>3
  <2> QED
    BY <2>1, <2>2, <2>3 DEF Dead
<1>7. ASSUME NEW k \in 1 .. LOG3 - 1, NEW r \in 0 .. Pow3[LOG3] - 1, r % Pow3[k] \in tab'[k]
      PROVE  r \in tab'[LOG3]
  <2>1. k \in 1 .. LOG3 /\ k \in Nat /\ k <= LOG3 /\ LOG3 \in 1 .. LOG3 /\ LOG3 \in Nat
    BY Mod3Assumption
  <2>2. r \in Nat
    BY <2>1, PowerBounds
  <2>3. PICK j \in 1 .. k : (r % Pow3[k]) % Pow3[j] \in tab[j]
    BY <1>2, <1>7, <2>1
  <2>4. j \in Nat /\ j <= k /\ j \in 1 .. LOG3
    BY <2>1
  <2>5. (r % Pow3[k]) % Pow3[j] = r % Pow3[j]
    BY <2>1, <2>2, <2>4, RemainderTwice
  <2> QED
    BY <1>2, <2>1, <2>3, <2>4, <2>5
<1>8. WorkersUseTheSieve'
  BY <1>5, <1>6, <1>7, Zenon DEF WorkersUseTheSieve, Dead
<1> QED
  BY <1>1, <1>2, <1>4, <1>8 DEF TableInv, Trail

\* What the workers have compiled in is what mod3-sieve finds, however large
\* the moduli it goes up to: {2} modulo 3 and {2, 4, 5, 8} modulo 9, no more.
THEOREM WorkersUseTheSieveCorrect == SieveSpec => []WorkersUseTheSieve
<1>1. SieveInit => TableInv
  BY TableInit
<1>2. TableInv /\ [SieveNext]_sieveVars => TableInv'
  <2> SUFFICES ASSUME TableInv, [SieveNext]_sieveVars PROVE TableInv'
    OBVIOUS
  <2>1. CASE StepPair
    BY <2>1, TableStepPair
  <2>2. CASE NextPair
    BY <2>2, TableNextPair
  <2>3. CASE Dump
    BY <2>3, TableDump
  <2>4. CASE UNCHANGED sieveVars
    <3>1. pair' = pair /\ pair0' = pair0 /\ tab' = tab /\ stage' = stage
      BY <2>4 DEF sieveVars
    <3>2. WorkersUseTheSieve' <=> WorkersUseTheSieve
      BY <3>1 DEF WorkersUseTheSieve
    <3> QED
      BY <3>1, <3>2 DEF TableInv
  <2> QED
    BY <2>1, <2>2, <2>3, <2>4 DEF SieveNext
<1>3. TableInv => WorkersUseTheSieve
  BY DEF TableInv, WorkersUseTheSieve
<1> QED
  BY <1>1, <1>2, <1>3, PTL DEF SieveSpec

-----------------------------------------------------------------------------
(* Sums.  SumFunction folds over the subsets of a finite set in the order of *)
(* CHOOSE; the order makes no difference.                                    *)

Chosen(s) == CHOOSE x \in s : TRUE

\* g is the table of the fold.
FoldTable(S, f, g) ==
  g = [s \in SUBSET S |-> IF s = {} THEN 0 ELSE f[Chosen(s)] + g[s \ {Chosen(s)}]]

\* g has the sum over each subset, whatever element is taken first.
SumTable(S, f, g) ==
  /\ g \in [SUBSET S -> Nat] /\ g[{}] = 0
  /\ \A s \in SUBSET S : \A x \in s : g[s] = f[x] + g[s \ {x}]

\* A fold has a table.
LEMMA FoldTableExists ==
  ASSUME NEW S, IsFiniteSet(S), NEW f \in [S -> Nat]
  PROVE  \E g \in [SUBSET S -> Nat] : FoldTable(S, f, g)
<1> DEFINE Small(n) == {s \in SUBSET S : Cardinality(s) <= n}
           Good(n, g) == /\ g \in [Small(n) -> Nat]
                         /\ \A s \in Small(n) :
                              g[s] = IF s = {} THEN 0 ELSE f[Chosen(s)] + g[s \ {Chosen(s)}]
           P == {n \in Nat : \E g : Good(n, g)}
<1>1. ASSUME NEW s \in SUBSET S, s # {}
      PROVE  /\ Chosen(s) \in s /\ s \ {Chosen(s)} \in SUBSET S
             /\ Cardinality(s \ {Chosen(s)}) = Cardinality(s) - 1
             /\ Cardinality(s) \in Nat \ {0}
  <2>1. IsFiniteSet(s)
    BY FS_Subset
  <2>2. Chosen(s) \in s
    BY <1>1 DEF Chosen
  <2> QED
    BY <1>1, <2>1, <2>2, FS_RemoveElement, FS_CardinalityType, FS_EmptySet
<1>2. \A s \in SUBSET S : Cardinality(s) \in Nat /\ (Cardinality(s) = 0 <=> s = {})
  BY FS_Subset, FS_CardinalityType, FS_EmptySet
<1>3. 0 \in P
  <2>1. Small(0) = {{}}
    BY <1>2
  <2>2. Good(0, [s \in Small(0) |-> 0])
    BY <2>1
  <2> QED
    BY <2>2
<1>4. ASSUME NEW n \in Nat, n \in P PROVE n + 1 \in P
  <2>1. PICK g : Good(n, g)
    BY <1>4
  <2> DEFINE h == [s \in Small(n + 1) |-> IF s = {} THEN 0 ELSE f[Chosen(s)] + g[s \ {Chosen(s)}]]
  <2>2. ASSUME NEW s \in Small(n + 1), s # {}
        PROVE  Chosen(s) \in S /\ s \ {Chosen(s)} \in Small(n) /\ s \ {Chosen(s)} \in Small(n + 1)
    BY <1>1, <1>2, <2>2
  <2>3. h \in [Small(n + 1) -> Nat]
    BY <2>1, <2>2
  <2>4. \A s \in Small(n) : s \in Small(n + 1) /\ h[s] = g[s]
    BY <1>2, <2>1
  <2>5. ASSUME NEW s \in Small(n + 1)
        PROVE  h[s] = IF s = {} THEN 0 ELSE f[Chosen(s)] + h[s \ {Chosen(s)}]
    <3>1. CASE s = {}
      BY <3>1
    <3>2. CASE s # {}
      <4>1. h[s \ {Chosen(s)}] = g[s \ {Chosen(s)}]
        BY <2>2, <2>4, <3>2
      <4>2. h[s] = f[Chosen(s)] + g[s \ {Chosen(s)}]
        BY <3>2
      <4> QED
        BY <3>2, <4>1, <4>2
    <3> QED
      BY <3>1, <3>2
  <2> HIDE DEF h
  <2>6. Good(n + 1, h)
    BY <2>3, <2>5
  <2>7. n + 1 \in Nat
    OBVIOUS
  <2> HIDE DEF Good
  <2> QED
    BY <2>6, <2>7, Zenon
<1>5. \A n \in Nat : n \in P
  <2> HIDE DEF P
  <2> QED
    BY <1>3, <1>4, SetInduction
<1>6. Small(Cardinality(S)) = SUBSET S /\ Cardinality(S) \in Nat
  BY FS_Subset, FS_CardinalityType
<1>7. PICK g : Good(Cardinality(S), g)
  BY <1>5, <1>6
<1> QED
  BY <1>6, <1>7 DEF FoldTable

\* The order in which a fold takes the elements makes no difference.
LEMMA FoldTableSums ==
  ASSUME NEW S, IsFiniteSet(S), NEW f \in [S -> Nat], NEW g, FoldTable(S, f, g)
  PROVE  SumTable(S, f, g)
<1>0. \A s \in SUBSET S : g[s] = IF s = {} THEN 0 ELSE f[Chosen(s)] + g[s \ {Chosen(s)}]
  BY DEF FoldTable
<1>1. ASSUME NEW s \in SUBSET S, NEW x \in s
      PROVE  /\ s \ {x} \in SUBSET S /\ Cardinality(s \ {x}) = Cardinality(s) - 1
             /\ Cardinality(s) \in Nat \ {0} /\ x \in S /\ Chosen(s) \in s /\ Chosen(s) \in S
  <2>1. IsFiniteSet(s)
    BY FS_Subset
  <2>2. Chosen(s) \in s
    BY DEF Chosen
  <2> QED
    BY <2>1, <2>2, FS_RemoveElement, FS_CardinalityType, FS_EmptySet
<1> DEFINE P == {n \in Nat : \A s \in SUBSET S : Cardinality(s) = n =>
                    /\ g[s] \in Nat
                    /\ \A x \in s : g[s] = f[x] + g[s \ {x}]}
<1>2. ASSUME NEW n \in Nat, \A j \in 0 .. n - 1 : j \in P PROVE n \in P
  <2> SUFFICES ASSUME NEW s \in SUBSET S, Cardinality(s) = n
               PROVE  g[s] \in Nat /\ \A x \in s : g[s] = f[x] + g[s \ {x}]
    OBVIOUS
  <2> DEFINE c == Chosen(s)
  <2>1. CASE s = {}
    BY <1>0, <2>1
  <2>2. CASE s # {}
    <3>0. PICK y \in s : TRUE
      BY <2>2
    <3>c. c \in s /\ c \in S /\ Cardinality(s) \in Nat \ {0}
      BY <1>1, <3>0, Zenon
    <3>a. c \in s /\ c \in S /\ n - 1 \in 0 .. n - 1
      <4>1. n \in Nat \ {0}
        BY <3>c, Zenon
      <4>2. n - 1 \in 0 .. n - 1
        BY <4>1
      <4> QED
        BY <3>c, <4>2, Zenon
    <3>b. s \ {c} \in SUBSET S /\ Cardinality(s \ {c}) = n - 1
      BY <1>1, <3>a, Zenon
    <3>1. c \in s /\ c \in S /\ s \ {c} \in SUBSET S /\ Cardinality(s \ {c}) = n - 1 /\ n - 1 \in 0 .. n - 1
      BY <3>a, <3>b
    <3> HIDE DEF c
    <3>2. g[s] = f[c] + g[s \ {c}]
      BY <1>0, <2>2 DEF c
    <3>3. g[s \ {c}] \in Nat /\ \A x \in s \ {c} : g[s \ {c}] = f[x] + g[(s \ {c}) \ {x}]
      BY <1>2, <3>1
    <3>4. g[s] \in Nat
      BY <3>1, <3>2, <3>3
    <3>5. ASSUME NEW x \in s PROVE g[s] = f[x] + g[s \ {x}]
      <4>1. CASE x = c
        BY <3>2, <4>1
      <4>2. CASE x # c
        <5>1. /\ s \ {x} \in SUBSET S /\ Cardinality(s \ {x}) = n - 1 /\ x \in S
          BY <1>1
        <5>2. g[s \ {x}] = f[c] + g[(s \ {x}) \ {c}]
          BY <1>2, <3>1, <4>2, <5>1
        <5>3. (s \ {x}) \ {c} = (s \ {c}) \ {x}
          OBVIOUS
        <5>4. g[s \ {c}] = f[x] + g[(s \ {c}) \ {x}]
          BY <3>3, <4>2
        <5> DEFINE z == (s \ {c}) \ {x}
        <5>5. g[z] \in Nat
          <6>1. z \in SUBSET S /\ Cardinality(z) = (n - 1) - 1 /\ Cardinality(s \ {c}) \in Nat \ {0}
            BY <1>1, <3>1, <4>2
          <6>2. (n - 1) - 1 \in 0 .. n - 1
            BY <3>1, <6>1
          <6> HIDE DEF z
          <6> QED
            BY <1>2, <6>1, <6>2
        <5>6. f[x] \in Nat /\ f[c] \in Nat
          BY <3>1, <5>1
        <5>7. g[s] = f[c] + g[s \ {c}] /\ g[s \ {c}] = f[x] + g[z] /\ g[s \ {x}] = f[c] + g[z]
          BY <3>2, <5>2, <5>3, <5>4, Zenon
        <5> HIDE DEF z
        <5> QED
          BY <5>5, <5>6, <5>7
      <4> QED
        BY <4>1, <4>2
    <3> QED
      BY <3>4, <3>5
  <2> QED
    BY <2>1, <2>2
<1>3. \A n \in Nat : n \in P
  <2> HIDE DEF P
  <2> QED
    BY <1>2, SetStrongInduction
<1>4. \A s \in SUBSET S : Cardinality(s) \in Nat
  BY FS_Subset, FS_CardinalityType
<1>5. \A s \in SUBSET S : g[s] \in Nat /\ \A x \in s : g[s] = f[x] + g[s \ {x}]
  BY <1>3, <1>4
<1>6. g \in [SUBSET S -> Nat]
  <2>1. g = [s \in SUBSET S |-> g[s]]
    BY DEF FoldTable
  <2> QED
    BY <1>5, <2>1
<1> QED
  BY <1>0, <1>5, <1>6 DEF SumTable

\* SumFunction is the last entry of such a table.
LEMMA SumFunctionTable ==
  ASSUME NEW S, IsFiniteSet(S), NEW f \in [S -> Nat]
  PROVE  \E g : SumTable(S, f, g) /\ SumFunction(f) = g[S]
<1> DEFINE g == CHOOSE h : FoldTable(S, f, h)
<1>1. FoldTable(S, f, g)
  BY FoldTableExists, Zenon
<1>2. SumFunction(f) = g[S]
  <2>1. DOMAIN f = S
    OBVIOUS
  <2> QED
    BY <2>1, Zenon DEF SumFunction, SumFunctionOnSet, FoldFunctionOnSet, MapThenFoldSet, FoldTable, Chosen
<1>3. SumTable(S, f, g)
  <2> HIDE DEF g
  <2> QED
    BY <1>1, FoldTableSums
<1> QED
  BY <1>2, <1>3

\* Two tables agree where their functions do.
LEMMA SumTablesAgree ==
  ASSUME NEW S, NEW U, IsFiniteSet(S), NEW f, NEW h, NEW g, NEW k,
         SumTable(S, f, g), SumTable(U, h, k),
         NEW s \in SUBSET S, s \in SUBSET U, \A x \in s : f[x] = h[x]
  PROVE  g[s] = k[s]
<1> DEFINE P == {n \in Nat : \A t \in SUBSET s : Cardinality(t) = n => g[t] = k[t]}
<1>1. 0 \in P
  <2>1. \A t \in SUBSET s : Cardinality(t) = 0 => t = {}
    BY FS_Subset, FS_EmptySet
  <2> QED
    BY <2>1 DEF SumTable
<1>2. ASSUME NEW n \in Nat, n \in P PROVE n + 1 \in P
  <2> SUFFICES ASSUME NEW t \in SUBSET s, Cardinality(t) = n + 1 PROVE g[t] = k[t]
    OBVIOUS
  <2>1. IsFiniteSet(t) /\ t \in SUBSET S /\ t \in SUBSET U
    BY FS_Subset
  <2>2. t # {}
    BY FS_EmptySet
  <2>3. PICK x \in t : TRUE
    BY <2>2
  <2>4. t \ {x} \in SUBSET s /\ Cardinality(t \ {x}) = n
    <3>1. Cardinality(t \ {x}) = Cardinality(t) - 1
      BY <2>1, <2>3, FS_RemoveElement, Zenon
    <3> QED
      BY <3>1
  <2>5. g[t] = f[x] + g[t \ {x}] /\ k[t] = h[x] + k[t \ {x}]
    BY <2>1, <2>3 DEF SumTable
  <2>6. g[t \ {x}] = k[t \ {x}] /\ f[x] = h[x]
    BY <1>2, <2>3, <2>4
  <2> QED
    BY <2>5, <2>6, Zenon
<1>3. \A n \in Nat : n \in P
  <2> HIDE DEF P
  <2> QED
    BY <1>1, <1>2, SetInduction
<1>4. Cardinality(s) \in Nat
  BY FS_Subset, FS_CardinalityType
<1> QED
  BY <1>3, <1>4

\* A sum is a number, and zero over nothing.
LEMMA SumType ==
  ASSUME NEW S, IsFiniteSet(S), NEW f \in [S -> Nat]
  PROVE  SumFunction(f) \in Nat /\ (S = {} => SumFunction(f) = 0)
<1>1. PICK g : SumTable(S, f, g) /\ SumFunction(f) = g[S]
  BY SumFunctionTable
<1> QED
  BY <1>1 DEF SumTable

\* One element more.
LEMMA SumInsert ==
  ASSUME NEW S, IsFiniteSet(S), NEW a, a \notin S,
         NEW f \in [S -> Nat], NEW h \in [S \cup {a} -> Nat], \A x \in S : h[x] = f[x]
  PROVE  SumFunction(h) = SumFunction(f) + h[a]
<1> DEFINE U == S \cup {a}
<1>1. IsFiniteSet(U)
  BY FS_AddElement
<1>2. PICK g : SumTable(S, f, g) /\ SumFunction(f) = g[S]
  BY SumFunctionTable
<1>3. PICK k : SumTable(U, h, k) /\ SumFunction(h) = k[U]
  BY <1>1, SumFunctionTable
<1>4. U \ {a} = S
  OBVIOUS
<1>5. k[U] = h[a] + k[S]
  BY <1>3, <1>4 DEF SumTable
<1>6. k[S] = g[S]
  <2>1. S \in SUBSET U /\ S \in SUBSET S
    OBVIOUS
  <2> HIDE DEF U
  <2> QED
    BY <1>1, <1>2, <1>3, <2>1, SumTablesAgree
<1>7. h[a] \in Nat /\ g[S] \in Nat
  BY <1>2 DEF SumTable
<1> QED
  BY <1>2, <1>3, <1>5, <1>6, <1>7

\* One element changed.
LEMMA SumChange ==
  ASSUME NEW S, IsFiniteSet(S), NEW a \in S, NEW f \in [S -> Nat], NEW h \in [S -> Nat],
         \A x \in S : x # a => h[x] = f[x]
  PROVE  SumFunction(h) + f[a] = SumFunction(f) + h[a]
<1> DEFINE U == S \ {a}
           e == [x \in U |-> f[x]]
<1>1. IsFiniteSet(U) /\ a \notin U /\ U \cup {a} = S
  BY FS_RemoveElement
<1>2. e \in [U -> Nat] /\ (\A x \in U : f[x] = e[x]) /\ (\A x \in U : h[x] = e[x])
  OBVIOUS
<1>3. f \in [U \cup {a} -> Nat] /\ h \in [U \cup {a} -> Nat]
  BY <1>1
<1> HIDE DEF U, e
<1>4. SumFunction(f) = SumFunction(e) + f[a] /\ SumFunction(h) = SumFunction(e) + h[a]
  BY <1>1, <1>2, <1>3, SumInsert
<1>5. SumFunction(e) \in Nat /\ f[a] \in Nat /\ h[a] \in Nat
  BY <1>1, <1>2, SumType
<1> QED
  BY <1>4, <1>5

-----------------------------------------------------------------------------
(* Factors of two.                                                           *)

\* Ctz finds the factors of two among the low w bits.
LEMMA CtzValue ==
  ASSUME NEW n \in Nat, NEW w \in Nat
  PROVE  LET z == Ctz(n, w) IN
         /\ z \in 0 .. w /\ n % Pow2[z] = 0
         /\ z < w => (n \div Pow2[z]) % 2 = 1
<1> DEFINE Fits(z) == n % Pow2[z] = 0 /\ (z < w => (n \div Pow2[z]) % 2 = 1)
<1>1. \E z \in 0 .. w : Fits(z)
  <2> SUFFICES ASSUME \A z \in 0 .. w : ~Fits(z) PROVE FALSE
    OBVIOUS
  <2> DEFINE P == {z \in Nat : z <= w => n % Pow2[z] = 0}
  <2>1. 0 \in P
    BY Pow2Defined
  <2>2. ASSUME NEW z \in Nat, z \in P PROVE z + 1 \in P
    <3> SUFFICES ASSUME z + 1 <= w PROVE n % Pow2[z + 1] = 0
      OBVIOUS
    <3> DEFINE p == Pow2[z]
    <3>1. p \in Nat \ {0} /\ Pow2[z + 1] = 2 * p
      BY PowerBounds, Pow2Defined
    <3>2. n % p = 0 /\ z \in 0 .. w /\ z < w
      BY <2>2
    <3>3. (n \div p) % 2 # 1
      BY <3>2
    <3> HIDE DEF p
    <3>4. n \div p \in Nat
      BY <3>1, Division, Zenon
    <3>5. (n \div p) % 2 = 0
      BY <3>3, <3>4
    <3>6. n % (p * 2) = (p * ((n \div p) % 2)) + (n % p)
      <4>1. 2 \in Nat \ {0}
        OBVIOUS
      <4> QED
        BY <3>1, <4>1, DivisionTwice, Zenon
    <3>7. p * 2 = 2 * p /\ p * 0 = 0
      BY <3>1
    <3>8. n % (p * 2) = 0
      BY <3>2, <3>5, <3>6, <3>7
    <3> QED
      BY <3>1, <3>7, <3>8
  <2>3. w \in P
    <3> HIDE DEF P
    <3> QED
      BY <2>1, <2>2, SetInduction
  <2>4. Fits(w) /\ w \in 0 .. w
    BY <2>3
  <2> QED
    BY <2>4
<1> DEFINE z == Ctz(n, w)
<1>2. z \in 0 .. w /\ Fits(z)
  BY <1>1, Zenon DEF Ctz
<1> QED
  BY <1>2, Zenon

\* n is its factors of two times what they leave.
LEMMA OddPartValue ==
  ASSUME NEW n \in Nat \ {0}
  PROVE  \E z \in Nat : /\ n = Pow2[z] * OddPart(n) /\ OddPart(n) = n \div Pow2[z]
                        /\ OddPart(n) \in Nat \ {0} /\ OddPart(n) % 2 = 1
                        /\ n % 2 = 0 => z > 0
                        /\ z < n
<1> DEFINE z == Ctz(n, n)
           p == Pow2[z]
<1>1. z \in 0 .. n /\ n % p = 0 /\ (z < n => (n \div p) % 2 = 1)
  BY CtzValue
<1> HIDE DEF z
<1>2. z \in Nat /\ p \in Nat \ {0} /\ p > z
  BY <1>1, PowerBounds
<1> HIDE DEF p
<1>3. n = (p * (n \div p)) + (n % p) /\ n \div p \in Nat
  BY <1>2, Division, Zenon
<1>4. z # n
  <2> SUFFICES ASSUME z = n PROVE FALSE
    OBVIOUS
  <2>1. n < p
    BY <1>2
  <2>2. n % p = n
    BY <1>2, <2>1
  <2> QED
    BY <1>1, <2>2
<1>5. z < n /\ (n \div p) % 2 = 1
  BY <1>1, <1>4
<1>6. OddPart(n) = n \div p
  BY DEF OddPart, p, z
<1>7. p * (n \div p) \in Nat
  BY <1>2, <1>3
<1>8. n = p * (n \div p) /\ n \div p # 0
  BY <1>1, <1>3, <1>5, <1>7
<1>9. ASSUME n % 2 = 0, z = 0 PROVE FALSE
  <2>1. p = 1
    BY <1>9, Pow2Defined DEF p
  <2> QED
    BY <1>5, <1>9, <2>1
<1>10. OddPart(n) \in Nat \ {0} /\ OddPart(n) % 2 = 1 /\ n = p * OddPart(n)
  BY <1>3, <1>5, <1>6, <1>8
<1>11. n % 2 = 0 => z > 0
  BY <1>2, <1>9
<1> QED
  BY <1>2, <1>5, <1>6, <1>10, <1>11, Zenon DEF p

\* The least of a few numbers is one of them, and no larger than any.
LEMMA LeastOfTwo ==
  ASSUME NEW a \in Nat, NEW b \in Nat
  PROVE  Min({a, b}) \in Nat /\ Min({a, b}) \in {a, b} /\ Min({a, b}) <= a /\ Min({a, b}) <= b
<1>1. \E x \in {a, b} : \A y \in {a, b} : x <= y
  OBVIOUS
<1>2. Min({a, b}) \in {a, b} /\ \A y \in {a, b} : Min({a, b}) <= y
  BY <1>1, Zenon DEF Min
<1> QED
  BY <1>2

\* The least of any numbers.
LEMMA LeastOfMore ==
  ASSUME NEW S \in SUBSET Nat, S # {}
  PROVE  Min(S) \in S /\ \A y \in S : Min(S) <= y
<1>1. \E x \in S : \A y \in S : x <= y
  BY LeastNumber
<1> QED
  BY <1>1, Zenon DEF Min

\* A factor of two to a power that divides n, below what Ctz finds.
LEMMA LowerFactor ==
  ASSUME NEW n \in Nat, NEW z \in Nat, n % Pow2[z] = 0, NEW a \in 0 .. z
  PROVE  /\ n = Pow2[a] * (n \div Pow2[a]) /\ n \div Pow2[a] \in Nat /\ n % Pow2[a] = 0
         /\ n # 0 => n \div Pow2[a] # 0
<1> DEFINE p == Pow2[a]
           f == Pow2[z - a]
<1>1. a \in Nat /\ p \in Nat \ {0} /\ f \in Nat \ {0} /\ Pow2[z] = p * f
  BY PowerBounds, PowerSplit
<1> HIDE DEF p, f
<1> DEFINE r == n % p
           s == (n \div p) % f
<1>2. n % (p * f) = (p * s) + r
  BY <1>1, DivisionTwice
<1>3. n \div p \in Nat /\ r \in 0 .. p - 1 /\ n = (p * (n \div p)) + r
  BY <1>1, Division, Zenon
<1>4. s \in 0 .. f - 1
  BY <1>1, <1>3, Division, Zenon
<1> HIDE DEF r, s
<1>5. (p * s) + r = 0 /\ p * s \in Nat /\ r \in Nat
  BY <1>1, <1>2, <1>3, <1>4
<1>6. r = 0
  BY <1>5
<1>7. p * (n \div p) \in Nat
  BY <1>1, <1>3
<1>8. n = p * (n \div p)
  BY <1>3, <1>6, <1>7
<1>9. n # 0 => n \div p # 0
  BY <1>1, <1>8
<1> QED
  BY <1>3, <1>6, <1>8, <1>9, Zenon DEF p, r

\* What a round of a worker takes out divides n, and is a factor at least when
\* n is even.
LEMMA AlphaValue ==
  ASSUME NEW n \in Nat, NEW w \in Nat \ {0}, NEW lut \in Nat, lut > 1
  PROVE  LET a == Alpha(n, w, lut) IN
         /\ a \in 0 .. lut - 1 /\ n % Pow2[a] = 0 /\ a \in Nat
         /\ n = Pow2[a] * (n \div Pow2[a]) /\ n \div Pow2[a] \in Nat
         /\ n # 0 => n \div Pow2[a] # 0
         /\ n % 2 = 0 => a > 0
<1> DEFINE z == Ctz(n, w)
           a == Min({z, lut - 1})
<1>1. z \in 0 .. w /\ n % Pow2[z] = 0 /\ (z < w => (n \div Pow2[z]) % 2 = 1)
  BY CtzValue
<1> HIDE DEF z
<1>2. z \in Nat /\ lut - 1 \in Nat
  BY <1>1
<1>3. a \in Nat /\ a \in {z, lut - 1} /\ a <= z /\ a <= lut - 1
  BY <1>2, LeastOfTwo
<1> HIDE DEF a
<1>4. a \in 0 .. z /\ a \in 0 .. lut - 1
  BY <1>2, <1>3
<1>5. ASSUME n % 2 = 0 PROVE z > 0
  <2> SUFFICES ASSUME z = 0 PROVE FALSE
    BY <1>2
  <2>1. (n \div Pow2[0]) % 2 = 1 /\ Pow2[0] = 1
    BY <1>1, Pow2Defined
  <2> QED
    BY <1>5, <2>1
<1>6. n % 2 = 0 => a > 0
  BY <1>2, <1>3, <1>5
<1>7. /\ n = Pow2[a] * (n \div Pow2[a]) /\ n \div Pow2[a] \in Nat /\ n % Pow2[a] = 0
      /\ n # 0 => n \div Pow2[a] # 0
  BY <1>1, <1>2, <1>4, LowerFactor
<1>8. Alpha(n, w, lut) = a
  BY DEF Alpha, a, z
<1> QED
  BY <1>3, <1>4, <1>6, <1>7, <1>8, Zenon

-----------------------------------------------------------------------------
(* Runs of steps.                                                            *)

\* A run of odd steps: a of them from 2^a * m - 1.
LEMMA RiseSteps ==
  ASSUME NEW a \in Nat, NEW m \in Nat \ {0}
  PROVE  \A j \in 0 .. a : /\ Iterate[j][(Pow2[a] * m) - 1] = ((Pow3[j] * Pow2[a - j]) * m) - 1
                           /\ j < a => Iterate[j][(Pow2[a] * m) - 1] % 2 = 1
                           /\ (Pow3[j] * Pow2[a - j]) * m >= Pow2[a] * m
<1> DEFINE v == (Pow2[a] * m) - 1
           F(j) == (Pow3[j] * Pow2[a - j]) * m
           P == {j \in Nat : j <= a => Iterate[j][v] = F(j) - 1 /\ F(j) >= Pow2[a] * m}
<1>0. Pow2[a] \in Nat \ {0} /\ Pow2[a] * m \in Nat \ {0} /\ v \in Nat
  <2>1. Pow2[a] \in Nat \ {0}
    BY PowerBounds
  <2>2. Pow2[a] * m \in Nat \ {0}
    BY <2>1, ProductPositive, Zenon
  <2> QED
    BY <2>1, <2>2
<1>1. 0 \in P
  <2>1. a - 0 = a /\ Pow3[0] = 1 /\ 1 * Pow2[a] = Pow2[a]
    BY <1>0, Pow3Defined
  <2>2. F(0) = Pow2[a] * m
    BY <2>1
  <2>3. Iterate[0][v] = v
    BY <1>0, IterateDefined
  <2> QED
    BY <1>0, <2>2, <2>3
<1>2. ASSUME NEW j \in Nat, j + 1 <= a
      PROVE  \E x \in Nat \ {0} : F(j) = 2 * x /\ F(j + 1) = 3 * x
  <2>1. a - (j + 1) \in Nat /\ (a - (j + 1)) + 1 = a - j
    BY <1>2
  <2> DEFINE i == a - (j + 1)
             p == Pow3[j]
             q == Pow2[i]
  <2>2. Pow2[a - j] = 2 * q /\ Pow3[j + 1] = 3 * p /\ p \in Nat \ {0} /\ q \in Nat \ {0}
    <3>1. i \in Nat
      BY <2>1
    <3> QED
      BY <2>1, <3>1, Pow2Defined, Pow3Defined, PowerBounds
  <2> HIDE DEF p, q
  <2> DEFINE x == (p * q) * m
  <2>3. x \in Nat \ {0}
    BY <2>2
  <2>4. (p * (2 * q)) * m = 2 * x /\ ((3 * p) * q) * m = 3 * x
    BY <2>2, ProductLaws
  <2>5. F(j) = 2 * x /\ F(j + 1) = 3 * x
    BY <2>2, <2>4 DEF p, q
  <2> QED
    BY <2>3, <2>5, Zenon
<1>3. ASSUME NEW j \in Nat, j \in P PROVE j + 1 \in P
  <2> SUFFICES ASSUME j + 1 <= a PROVE Iterate[j + 1][v] = F(j + 1) - 1 /\ F(j + 1) >= Pow2[a] * m
    OBVIOUS
  <2>1. PICK x \in Nat \ {0} : F(j) = 2 * x /\ F(j + 1) = 3 * x
    BY <1>2
  <2>2. Iterate[j][v] = F(j) - 1 /\ F(j) >= Pow2[a] * m
    BY <1>3
  <2>3. Iterate[j + 1][v] = T[Iterate[j][v]]
    BY <1>0, IterateDefined
  <2> HIDE DEF F, v
  <2>4. T[(2 * x) - 1] = (3 * x) - 1
    <3>1. (2 * x) - 1 \in Nat /\ ((2 * x) - 1) % 2 = 1
      OBVIOUS
    <3>2. T[(2 * x) - 1] = (3 * ((2 * x) - 1) + 1) \div 2
      BY <3>1, StepValue
    <3> QED
      BY <3>2
  <2> QED
    BY <1>0, <2>1, <2>2, <2>3, <2>4
<1>4. \A j \in Nat : j \in P
  <2> HIDE DEF P
  <2> QED
    BY <1>1, <1>3, SetInduction
<1>5. ASSUME NEW j \in 0 .. a
      PROVE  /\ Iterate[j][v] = F(j) - 1 /\ F(j) >= Pow2[a] * m
             /\ j < a => Iterate[j][v] % 2 = 1
  <2>1. Iterate[j][v] = F(j) - 1 /\ F(j) >= Pow2[a] * m
    BY <1>4
  <2>2. ASSUME j < a PROVE Iterate[j][v] % 2 = 1
    <3>1. j \in Nat /\ j + 1 <= a
      BY <2>2
    <3>2. PICK x \in Nat \ {0} : F(j) = 2 * x
      BY <1>2, <3>1
    <3> HIDE DEF F, v
    <3> QED
      BY <2>1, <3>2
  <2> QED
    BY <2>1, <2>2
<1> QED
  BY <1>5

\* A run of even steps: b of them from 2^b * m.
LEMMA FallSteps ==
  ASSUME NEW b \in Nat, NEW m \in Nat
  PROVE  \A j \in 0 .. b : /\ Iterate[j][Pow2[b] * m] = Pow2[b - j] * m
                           /\ j < b => Iterate[j][Pow2[b] * m] % 2 = 0
                           /\ Pow2[b - j] * m >= m
                           /\ Pow2[b - j] * m <= Pow2[b] * m
<1> DEFINE v == Pow2[b] * m
           F(j) == Pow2[b - j] * m
           P == {j \in Nat : j <= b => Iterate[j][v] = F(j)}
<1>0. Pow2[b] \in Nat \ {0} /\ v \in Nat
  BY PowerBounds
<1>1. 0 \in P
  <2>1. b - 0 = b
    OBVIOUS
  <2>2. Iterate[0][v] = v
    BY <1>0, IterateDefined
  <2> QED
    BY <1>0, <2>1, <2>2
<1>2. ASSUME NEW j \in Nat, j + 1 <= b
      PROVE  F(j) = 2 * F(j + 1) /\ F(j + 1) \in Nat
  <2> DEFINE i == b - (j + 1)
  <2>1. i \in Nat /\ i + 1 = b - j
    BY <1>2
  <2>2. Pow2[b - j] = 2 * Pow2[i] /\ Pow2[i] \in Nat
    BY <2>1, Pow2Defined, PowerBounds
  <2> HIDE DEF i
  <2>3. (2 * Pow2[i]) * m = 2 * (Pow2[i] * m) /\ Pow2[i] * m \in Nat
    BY <2>2, ProductLaws
  <2> QED
    BY <2>2, <2>3 DEF i
<1>3. ASSUME NEW j \in Nat, j \in P PROVE j + 1 \in P
  <2> SUFFICES ASSUME j + 1 <= b PROVE Iterate[j + 1][v] = F(j + 1)
    OBVIOUS
  <2>1. F(j) = 2 * F(j + 1) /\ F(j + 1) \in Nat
    BY <1>2
  <2>2. Iterate[j][v] = F(j)
    BY <1>3
  <2>3. Iterate[j + 1][v] = T[Iterate[j][v]]
    BY <1>0, IterateDefined
  <2> HIDE DEF F, v
  <2>4. \A x \in Nat : T[2 * x] = x
    BY StepValue
  <2> QED
    BY <2>1, <2>2, <2>3, <2>4
<1>4. \A j \in Nat : j \in P
  <2> HIDE DEF P
  <2> QED
    BY <1>1, <1>3, SetInduction
<1>5. ASSUME NEW j \in 0 .. b
      PROVE  /\ Iterate[j][v] = F(j) /\ F(j) >= m /\ F(j) <= v
             /\ j < b => Iterate[j][v] % 2 = 0
  <2>1. Iterate[j][v] = F(j)
    BY <1>4
  <2>2. ASSUME j < b PROVE Iterate[j][v] % 2 = 0
    <3>1. j \in Nat /\ j + 1 <= b
      BY <2>2
    <3>2. F(j) = 2 * F(j + 1) /\ F(j + 1) \in Nat
      BY <1>2, <3>1
    <3> HIDE DEF F, v
    <3> QED
      BY <2>1, <3>2
  <2>3. b - j \in Nat /\ b - j <= b
    OBVIOUS
  <2>4. Pow2[b - j] \in Nat \ {0} /\ Pow2[b - j] <= Pow2[b]
    BY <2>3, PowerBounds, PowerOrder
  <2>5. 1 * m <= Pow2[b - j] * m /\ Pow2[b - j] * m <= Pow2[b] * m
    BY <1>0, <2>4, ProductOrder
  <2> QED
    BY <2>1, <2>2, <2>5
<1> QED
  BY <1>5

\* The odd steps among the first k, one step more.
LEMMA OddStepsNext ==
  ASSUME NEW n \in Nat, NEW k \in Nat
  PROVE  /\ OddStepsIn(n, k) \in 0 .. k /\ OddStepsIn(n, k) \in Nat
         /\ OddStepsIn(n, 0) = 0
         /\ OddStepsIn(n, k + 1) = OddStepsIn(n, k) + (Iterate[k][n] % 2)
<1> DEFINE O(j) == {i \in 0 .. j - 1 : Odd(Iterate[i][n])}
<1>1. ASSUME NEW j \in Nat
      PROVE  IsFiniteSet(O(j)) /\ Cardinality(O(j)) \in 0 .. j
  <2>1. IsFiniteSet(0 .. j - 1) /\ Cardinality(0 .. j - 1) = j
    BY FS_Interval
  <2>2. O(j) \in SUBSET (0 .. j - 1)
    OBVIOUS
  <2> HIDE DEF O
  <2>3. IsFiniteSet(O(j)) /\ Cardinality(O(j)) <= Cardinality(0 .. j - 1)
    BY <2>1, <2>2, FS_Subset
  <2>4. Cardinality(O(j)) \in Nat
    BY <2>3, FS_CardinalityType
  <2> QED
    BY <2>1, <2>3, <2>4
<1>2. O(0) = {}
  OBVIOUS
<1>3. Iterate[k][n] % 2 \in {0, 1}
  <2>1. Iterate[k][n] \in Nat
    BY IterateDefined
  <2> QED
    BY <2>1
<1>4. k \notin O(k)
  OBVIOUS
<1>5. O(k + 1) = IF Iterate[k][n] % 2 = 1 THEN O(k) \cup {k} ELSE O(k)
  <2>1. 0 .. (k + 1) - 1 = (0 .. k - 1) \cup {k}
    OBVIOUS
  <2>2. O(k + 1) = {i \in (0 .. k - 1) \cup {k} : Odd(Iterate[i][n])}
    BY <2>1
  <2> QED
    BY <2>2 DEF Odd
<1> HIDE DEF O
<1>6. Cardinality(O(k + 1)) = Cardinality(O(k)) + (Iterate[k][n] % 2)
  <2>1. CASE Iterate[k][n] % 2 = 1
    BY <1>1, <1>4, <1>5, <2>1, FS_AddElement
  <2>2. CASE Iterate[k][n] % 2 = 0
    BY <1>1, <1>5, <2>2
  <2> QED
    BY <1>3, <2>1, <2>2
<1>7. Cardinality(O(k)) \in 0 .. k /\ Cardinality(O(k)) \in Nat
  BY <1>1
<1> QED
  BY <1>2, <1>6, <1>7, FS_EmptySet DEF OddStepsIn, O

\* They add up along the trajectory.
LEMMA OddStepsSum ==
  ASSUME NEW n \in Nat, NEW j \in Nat, NEW k \in Nat
  PROVE  OddStepsIn(n, j + k) = OddStepsIn(n, j) + OddStepsIn(Iterate[j][n], k)
<1> DEFINE v == Iterate[j][n]
           P == {i \in Nat : OddStepsIn(n, j + i) = OddStepsIn(n, j) + OddStepsIn(v, i)}
<1>0. v \in Nat
  BY IterateDefined
<1> HIDE DEF v
<1>1. 0 \in P
  <2>1. j + 0 = j /\ OddStepsIn(v, 0) = 0 /\ OddStepsIn(n, j) \in Nat
    BY <1>0, OddStepsNext
  <2> QED
    BY <2>1
<1>2. ASSUME NEW i \in Nat, i \in P PROVE i + 1 \in P
  <2>1. j + i \in Nat /\ (j + i) + 1 = j + (i + 1)
    OBVIOUS
  <2>2. /\ OddStepsIn(n, (j + i) + 1) = OddStepsIn(n, j + i) + (Iterate[j + i][n] % 2)
        /\ OddStepsIn(v, i + 1) = OddStepsIn(v, i) + (Iterate[i][v] % 2)
    BY <1>0, <2>1, OddStepsNext
  <2>3. Iterate[j + i][n] = Iterate[i][v]
    BY IterateSum DEF v
  <2>4. OddStepsIn(n, j) \in Nat /\ OddStepsIn(v, i) \in Nat /\ Iterate[i][v] \in Nat
    BY <1>0, OddStepsNext, IterateDefined, Zenon
  <2> QED
    BY <1>2, <2>1, <2>2, <2>3, <2>4
<1>3. k \in P
  <2> HIDE DEF P
  <2> QED
    BY <1>1, <1>2, SetInduction
<1> QED
  BY <1>3 DEF v

\* A run of steps of one parity.
LEMMA OddStepsOfRun ==
  ASSUME NEW n \in Nat, NEW k \in Nat
  PROVE  /\ (\A j \in 0 .. k - 1 : Iterate[j][n] % 2 = 1) => OddStepsIn(n, k) = k
         /\ (\A j \in 0 .. k - 1 : Iterate[j][n] % 2 = 0) => OddStepsIn(n, k) = 0
<1>1. ASSUME \A j \in 0 .. k - 1 : Iterate[j][n] % 2 = 1 PROVE OddStepsIn(n, k) = k
  <2>1. {j \in 0 .. k - 1 : Odd(Iterate[j][n])} = 0 .. k - 1
    BY <1>1 DEF Odd
  <2>2. Cardinality(0 .. k - 1) = k
    BY FS_Interval
  <2> QED
    BY <2>1, <2>2, Zenon DEF OddStepsIn
<1>2. ASSUME \A j \in 0 .. k - 1 : Iterate[j][n] % 2 = 0 PROVE OddStepsIn(n, k) = 0
  <2>1. {j \in 0 .. k - 1 : Odd(Iterate[j][n])} = {}
    BY <1>2 DEF Odd
  <2> QED
    BY <2>1, FS_EmptySet DEF OddStepsIn
<1> QED
  BY <1>1, <1>2

\* The members of a class modulo 2^s take the same first s steps.
LEMMA ClassSteps ==
  ASSUME NEW s \in Nat, NEW b \in Nat, NEW q \in Nat
  PROVE  \A k \in 0 .. s :
           /\ Iterate[k][(Pow2[s] * q) + b] =
                ((Pow2[s - k] * Pow3[OddStepsIn(b, k)]) * q) + Iterate[k][b]
           /\ OddStepsIn((Pow2[s] * q) + b, k) = OddStepsIn(b, k)
<1> DEFINE n == (Pow2[s] * q) + b
           F(k) == (Pow2[s - k] * Pow3[OddStepsIn(b, k)]) * q
           P == {k \in Nat : k <= s => /\ Iterate[k][n] = F(k) + Iterate[k][b]
                                       /\ OddStepsIn(n, k) = OddStepsIn(b, k)}
<1>0. n \in Nat
  <2>1. Pow2[s] \in Nat
    BY PowerBounds
  <2>2. Pow2[s] * q \in Nat
    BY <2>1, ProductLaws, Zenon
  <2> QED
    BY <2>2
<1>1. 0 \in P
  <2>1. s - 0 = s /\ OddStepsIn(b, 0) = 0 /\ Pow3[0] = 1 /\ Iterate[0][b] = b
          /\ Iterate[0][n] = n /\ OddStepsIn(n, 0) = 0 /\ Pow2[s] \in Nat
    <3>1. s - 0 = s
      OBVIOUS
    <3> HIDE DEF n
    <3> QED
      BY <1>0, <3>1, OddStepsNext, Pow3Defined, IterateDefined, PowerBounds
  <2>2. Pow2[s] * 1 = Pow2[s]
    BY <2>1
  <2>3. F(0) = Pow2[s] * q
    BY <2>1, <2>2
  <2> QED
    BY <2>1, <2>3
<1>2. ASSUME NEW k \in Nat, k \in P PROVE k + 1 \in P
  <2> SUFFICES ASSUME k + 1 <= s
               PROVE  /\ Iterate[k + 1][n] = F(k + 1) + Iterate[k + 1][b]
                      /\ OddStepsIn(n, k + 1) = OddStepsIn(b, k + 1)
    OBVIOUS
  <2> DEFINE i == s - (k + 1)
             o == OddStepsIn(b, k)
             c == Iterate[k][b]
             x == (Pow2[i] * Pow3[o]) * q
  <2>1. i \in Nat /\ i + 1 = s - k /\ k <= s
    OBVIOUS
  <2>2. o \in Nat /\ c \in Nat /\ OddStepsIn(b, k + 1) = o + (c % 2)
    BY OddStepsNext, IterateDefined, Zenon
  <2> HIDE DEF i, o, c
  <2>3. /\ Pow2[s - k] = 2 * Pow2[i] /\ Pow2[i] \in Nat /\ Pow3[o] \in Nat
        /\ Pow3[o + 1] = 3 * Pow3[o]
    BY <2>1, <2>2, Pow2Defined, Pow3Defined, PowerBounds
  <2>4. x \in Nat /\ ((2 * Pow2[i]) * Pow3[o]) * q = 2 * x /\ (Pow2[i] * (3 * Pow3[o])) * q = 3 * x
    BY <2>3, ProductLaws
  <2>5. F(k) = 2 * x
    BY <2>3, <2>4 DEF o
  <2>6. F(k + 1) = IF c % 2 = 1 THEN 3 * x ELSE x
    <3>1. CASE c % 2 = 1
      <4>1. F(k + 1) = (Pow2[i] * Pow3[o + 1]) * q
        BY <2>2, <3>1 DEF i
      <4> QED
        BY <2>3, <2>4, <3>1, <4>1
    <3>2. CASE c % 2 # 1
      <4>1. o + (c % 2) = o
        BY <2>2, <3>2
      <4>2. F(k + 1) = (Pow2[i] * Pow3[o]) * q
        BY <2>2, <4>1 DEF i
      <4> QED
        BY <3>2, <4>2
    <3> QED
      BY <3>1, <3>2
  <2>7. Iterate[k][n] = (2 * x) + c /\ OddStepsIn(n, k) = o
    BY <1>2, <2>1, <2>5 DEF c, o
  <2>8. /\ Iterate[k + 1][n] = T[Iterate[k][n]] /\ Iterate[k + 1][b] = T[c]
        /\ OddStepsIn(n, k + 1) = OddStepsIn(n, k) + (Iterate[k][n] % 2)
    <3> HIDE DEF n
    <3> QED
      BY <1>0, IterateDefined, OddStepsNext DEF c
  <2> HIDE DEF x, F, n
  <2>9. (2 * x) + c \in Nat /\ ((2 * x) + c) % 2 = c % 2
    BY <2>2, <2>4
  <2>10. T[(2 * x) + c] = (IF c % 2 = 1 THEN 3 * x ELSE x) + T[c]
    <3>1. CASE c % 2 = 1
      <4>1. T[(2 * x) + c] = (3 * ((2 * x) + c) + 1) \div 2 /\ T[c] = (3 * c + 1) \div 2
        BY <2>2, <2>9, <3>1, StepValue
      <4> QED
        BY <2>2, <2>4, <3>1, <4>1
    <3>2. CASE c % 2 # 1
      <4>1. c % 2 = 0
        BY <2>2, <3>2
      <4>2. T[(2 * x) + c] = ((2 * x) + c) \div 2 /\ T[c] = c \div 2
        BY <2>2, <2>9, <4>1, StepValue
      <4> QED
        BY <2>2, <2>4, <3>2, <4>1, <4>2
    <3> QED
      BY <3>1, <3>2
  <2> QED
    BY <2>2, <2>6, <2>7, <2>8, <2>9, <2>10
<1>3. \A k \in Nat : k \in P
  <2> HIDE DEF P
  <2> QED
    BY <1>1, <1>2, SetInduction
<1> QED
  BY <1>3

\* Odd steps multiply by more than three halves: a number of which none of the
\* first steps has too few odd ones before it never comes below itself there.
LEMMA StepsBound ==
  ASSUME NEW n \in Nat, NEW k \in Nat
  PROVE  Pow3[OddStepsIn(n, k)] * n <= Pow2[k] * Iterate[k][n]
<1> DEFINE P == {j \in Nat : Pow3[OddStepsIn(n, j)] * n <= Pow2[j] * Iterate[j][n]}
<1>1. 0 \in P
  <2>1. OddStepsIn(n, 0) = 0 /\ Pow3[0] = 1 /\ Pow2[0] = 1 /\ Iterate[0][n] = n
    BY OddStepsNext, Pow2Defined, Pow3Defined, IterateDefined
  <2> QED
    BY <2>1
<1>2. ASSUME NEW j \in Nat, j \in P PROVE j + 1 \in P
  <2> DEFINE o == OddStepsIn(n, j)
             v == Iterate[j][n]
             p == Pow3[o]
             q == Pow2[j]
  <2>1. o \in Nat /\ v \in Nat /\ OddStepsIn(n, j + 1) = o + (v % 2) /\ Iterate[j + 1][n] = T[v]
    BY OddStepsNext, IterateDefined, Zenon
  <2>2. p * n <= q * v
    BY <1>2
  <2> HIDE DEF o, v
  <2>3. p \in Nat /\ q \in Nat /\ Pow3[o + 1] = 3 * p /\ Pow2[j + 1] = 2 * q
    BY <2>1, Pow2Defined, Pow3Defined, PowerBounds
  <2> HIDE DEF p, q
  <2>4. p * n \in Nat /\ q * v \in Nat
    BY <2>1, <2>3, ProductLaws
  <2>5. CASE v % 2 = 1
    <3>1. T[v] = (3 * v + 1) \div 2 /\ T[v] \in Nat
      BY <2>1, <2>5, StepValue
    <3>2. 2 * T[v] = 3 * v + 1
      BY <2>1, <2>5, <3>1
    <3>3. (2 * q) * T[v] = q * (2 * T[v]) /\ (3 * p) * n = 3 * (p * n)
      BY <2>1, <2>3, <3>1, ProductLaws
    <3>4. q * (3 * v + 1) = 3 * (q * v) + q
      BY <2>1, <2>3, ProductLaws
    <3>5. (3 * p) * n <= (2 * q) * T[v]
      BY <2>2, <2>3, <2>4, <3>2, <3>3, <3>4
    <3>6. Pow3[OddStepsIn(n, j + 1)] * n <= Pow2[j + 1] * Iterate[j + 1][n]
      BY <2>1, <2>3, <2>5, <3>5
    <3> QED
      BY <3>6
  <2>6. CASE v % 2 # 1
    <3>0. v % 2 = 0 /\ o + (v % 2) = o
      BY <2>1, <2>6
    <3>1. T[v] = v \div 2 /\ T[v] \in Nat
      BY <2>1, <3>0, StepValue
    <3>2. 2 * T[v] = v
      BY <2>1, <3>0, <3>1
    <3>3. (2 * q) * T[v] = q * (2 * T[v])
      BY <2>1, <2>3, <3>1, ProductLaws
    <3>4. Pow3[OddStepsIn(n, j + 1)] = p
      BY <2>1, <3>0 DEF p
    <3>5. Pow3[OddStepsIn(n, j + 1)] * n <= Pow2[j + 1] * Iterate[j + 1][n]
      BY <2>1, <2>2, <2>3, <3>2, <3>3, <3>4
    <3> QED
      BY <3>5
  <2> QED
    BY <2>5, <2>6
<1>3. k \in P
  <2> HIDE DEF P
  <2> QED
    BY <1>1, <1>2, SetInduction
<1> QED
  BY <1>3

\* A number whose class a sieve keeps stays above itself in the sieve's steps.
LEMMA LiveInStays ==
  ASSUME NEW s \in Nat, NEW n \in Nat, IsLiveIn(n, s)
  PROVE  \A k \in 0 .. s : Iterate[k][n] >= n
<1> DEFINE p == Pow2[s]
           b == n % p
           q == n \div p
<1>0. s \in Nat
  OBVIOUS
<1>1. p \in Nat \ {0}
  BY <1>0, PowerBounds
<1> HIDE DEF p
<1>2. n = (p * q) + b /\ q \in Nat /\ b \in 0 .. p - 1
  BY <1>1, Division, Zenon
<1>3. b \in Nat
  BY <1>1, <1>2
<1> HIDE DEF q, b
<1> SUFFICES ASSUME NEW k \in 0 .. s PROVE Iterate[k][n] >= n
  OBVIOUS
<1>4. k \in Nat
  BY <1>0
<1>5. CASE k = 0
  <2>1. Iterate[0][n] = n
    BY IterateDefined
  <2> QED
    BY <1>5, <2>1
<1>6. CASE k # 0
  <2>1. Pow3[OddStepsIn(b, k)] >= Pow2[k]
    <3>1. k \in 1 .. s /\ ~Sinks(b, k)
      BY <1>0, <1>4, <1>6 DEF IsLiveIn, b, p
    <3>2. OddStepsIn(b, k) \in Nat
      BY <1>3, <1>4, OddStepsNext
    <3>3. Pow3[OddStepsIn(b, k)] \in Nat /\ Pow2[k] \in Nat
      BY <1>4, <3>2, PowerBounds
    <3> QED
      BY <3>1, <3>3 DEF Sinks
  <2>2. OddStepsIn(n, k) = OddStepsIn(b, k)
    BY <1>0, <1>2, <1>3, ClassSteps DEF p
  <2> DEFINE o == OddStepsIn(n, k)
             v == Iterate[k][n]
  <2>3. o \in Nat /\ v \in Nat /\ Pow3[o] * n <= Pow2[k] * v
    BY <1>4, OddStepsNext, IterateDefined, StepsBound, Zenon
  <2>4. Pow3[o] >= Pow2[k]
    BY <2>1, <2>2
  <2> HIDE DEF o, v
  <2>5. Pow3[o] \in Nat /\ Pow2[k] \in Nat \ {0}
    BY <1>4, <2>3, PowerBounds
  <2>6. Pow2[k] * n <= Pow3[o] * n
    BY <2>4, <2>5, ProductOrder
  <2>7. Pow2[k] * n <= Pow2[k] * v
    <3>1. Pow2[k] * n \in Nat /\ Pow3[o] * n \in Nat /\ Pow2[k] * v \in Nat
      BY <2>3, <2>5, ProductLaws
    <3> QED
      BY <2>3, <2>6, <3>1
  <2>8. SUFFICES ASSUME v + 1 <= n PROVE FALSE
    BY <2>3 DEF v
  <2>9. Pow2[k] * (v + 1) <= Pow2[k] * n
    BY <2>3, <2>5, <2>8, ProductOrder
  <2>10. Pow2[k] * (v + 1) = (Pow2[k] * v) + Pow2[k] /\ Pow2[k] * v \in Nat /\ Pow2[k] * n \in Nat
    BY <2>3, <2>5, ProductLaws
  <2> QED
    BY <2>5, <2>7, <2>9, <2>10
<1> QED
  BY <1>5, <1>6

\* In particular those of the workers' sieve.
LEMMA LiveStays ==
  ASSUME NEW n \in Nat, IsLive(n)
  PROVE  \A k \in 0 .. SIEVE_LOGSIZE : Iterate[k][n] >= n
BY WidthsAssumption, LiveInStays DEF IsLive

-----------------------------------------------------------------------------
(* The reference's search for the first number below.                        *)

\* Descent searches from its argument on.
LEMMA DescentStep ==
  ASSUME NEW k \in Nat, NEW n \in Nat
  PROVE  Descent[k][n] = IF Iterate[k][n] < n THEN k ELSE Descent[k + 1][n]
<1> DEFINE Below(i, m) == {j \in Nat : j >= i /\ Iterate[j][m] < m}
           First(i, m) == IF Below(i, m) = {} THEN 0
                          ELSE CHOOSE j \in Below(i, m) : \A l \in Below(i, m) : j <= l
           h == [i \in Nat |-> [m \in Nat |-> First(i, m)]]
<1>1. ASSUME NEW i \in Nat, NEW m \in Nat
      PROVE  First(i, m) = IF Iterate[i][m] < m THEN i ELSE First(i + 1, m)
  <2>0. Iterate[i][m] \in Nat
    BY IterateDefined
  <2>1. ASSUME Iterate[i][m] < m PROVE First(i, m) = i
    <3>1. i \in Below(i, m)
      BY <2>1
    <3>2. \A j \in Below(i, m) : i <= j
      OBVIOUS
    <3>3. \A j \in Below(i, m) : (\A l \in Below(i, m) : j <= l) => j = i
      BY <3>1, <3>2
    <3> QED
      BY <3>1, <3>2, <3>3
  <2>2. ASSUME ~(Iterate[i][m] < m) PROVE First(i, m) = First(i + 1, m)
    <3>1. Below(i, m) = Below(i + 1, m)
      BY <2>2
    <3> HIDE DEF Below
    <3> QED
      BY <3>1
  <2> HIDE DEF First
  <2> QED
    BY <2>1, <2>2
<1>2. ASSUME NEW i \in Nat
      PROVE  h[i] = [m \in Nat |-> IF Iterate[i][m] < m THEN i ELSE h[i + 1][m]]
  <2>1. i + 1 \in Nat
    OBVIOUS
  <2>2. h[i] = [m \in Nat |-> First(i, m)] /\ h[i + 1] = [m \in Nat |-> First(i + 1, m)]
    BY <2>1, Zenon
  <2> HIDE DEF First, h
  <2> QED
    BY <1>1, <2>1, <2>2
<1>3. h = [i \in Nat |-> [m \in Nat |-> IF Iterate[i][m] < m THEN i ELSE h[i + 1][m]]]
  BY <1>2
<1> HIDE DEF h
<1>4. Descent = [i \in Nat |-> [m \in Nat |-> IF Iterate[i][m] < m THEN i ELSE Descent[i + 1][m]]]
  BY <1>3, Zenon DEF Descent
<1> QED
  BY <1>4, Zenon

\* It finds the first place where the trajectory is below its start.
LEMMA DescentValue ==
  ASSUME NEW n \in Nat, NEW d \in Nat, NEW k \in 0 .. d,
         Iterate[d][n] < n, \A j \in k .. d - 1 : Iterate[j][n] >= n
  PROVE  Descent[k][n] = d
<1> DEFINE P == {i \in Nat : i <= d - k => Descent[d - i][n] = d}
<1>1. 0 \in P
  <2>1. d - 0 = d
    OBVIOUS
  <2>2. Descent[d][n] = d
    BY DescentStep
  <2> QED
    BY <2>1, <2>2
<1>2. ASSUME NEW i \in Nat, i \in P PROVE i + 1 \in P
  <2> SUFFICES ASSUME i + 1 <= d - k PROVE Descent[d - (i + 1)][n] = d
    OBVIOUS
  <2> DEFINE j == d - (i + 1)
  <2>1. j \in Nat /\ j \in k .. d - 1 /\ j + 1 = d - i
    OBVIOUS
  <2> HIDE DEF j
  <2>2. Descent[j + 1][n] = d
    BY <1>2, <2>1
  <2>3. Iterate[j][n] \in Nat /\ Iterate[j][n] >= n
    BY <2>1, IterateDefined
  <2>4. Descent[j][n] = Descent[j + 1][n]
    BY <2>1, <2>3, DescentStep
  <2> QED
    BY <2>2, <2>4 DEF j
<1>3. d - k \in P
  <2>1. d - k \in Nat
    OBVIOUS
  <2> HIDE DEF P
  <2> QED
    BY <1>1, <1>2, <2>1, SetInduction
<1>4. d - (d - k) = k
  OBVIOUS
<1> QED
  BY <1>3, <1>4

-----------------------------------------------------------------------------
(* A number under test: where it has come to, and when it is done.           *)

\* In k steps x has come to y, and was never below itself.
Comes(x, k, y) == Iterate[k][x] = y /\ \A j \in 0 .. k : Iterate[j][x] >= x

\* The d-th step is the first that takes x below itself.
Descends(x, d) == Iterate[d][x] < x /\ \A j \in 0 .. d - 1 : Iterate[j][x] >= x

\* A round of odd steps, as the workers do it: 2^a m to 3^a m, both less one.
LEMMA ComesRise ==
  ASSUME NEW x \in Nat, NEW k \in Nat, NEW a \in Nat, NEW m \in Nat \ {0},
         Comes(x, k, (Pow2[a] * m) - 1)
  PROVE  /\ Comes(x, k + a, (m * Pow3[a]) - 1)
         /\ OddStepsIn(x, k + a) = OddStepsIn(x, k) + a
         /\ \A j \in k .. k + a : Iterate[j][x] <= (m * Pow3[a]) - 1
<1> DEFINE y == (Pow2[a] * m) - 1
           F(j) == (Pow3[j] * Pow2[a - j]) * m
           top == m * Pow3[a]
<1>1. /\ Pow2[a] \in Nat \ {0} /\ Pow2[a] * m \in Nat \ {0} /\ y \in Nat
      /\ Pow3[a] \in Nat \ {0} /\ top \in Nat \ {0} /\ top = Pow3[a] * m
  <2>1. Pow2[a] \in Nat \ {0} /\ Pow3[a] \in Nat \ {0}
    BY PowerBounds
  <2>2. Pow2[a] * m \in Nat \ {0} /\ m * Pow3[a] \in Nat \ {0}
    BY <2>1, ProductPositive, Zenon
  <2> QED
    BY <2>1, <2>2
<1>2. Iterate[k][x] = y /\ \A j \in 0 .. k : Iterate[j][x] >= x
  BY DEF Comes
<1>3. ASSUME NEW j \in 0 .. a
      PROVE  /\ Iterate[k + j][x] = F(j) - 1 /\ F(j) \in Nat
             /\ F(j) >= Pow2[a] * m /\ F(j) <= top
             /\ j < a => Iterate[j][y] % 2 = 1
  <2>1. j \in Nat /\ a - j \in Nat /\ j <= a
    OBVIOUS
  <2>2. Iterate[k + j][x] = Iterate[j][y]
    <3>1. Iterate[k + j][x] = Iterate[j][Iterate[k][x]]
      BY <2>1, IterateSum, Zenon
    <3> QED
      BY <1>2, <3>1
  <2>3. Iterate[j][y] = F(j) - 1 /\ F(j) >= Pow2[a] * m /\ (j < a => Iterate[j][y] % 2 = 1)
    BY RiseSteps, Zenon
  <2>4. Pow3[a] = Pow3[j] * Pow3[a - j]
    BY <2>1, PowerSplit, Zenon
  <2>5. /\ Pow2[a - j] \in Nat /\ Pow3[a - j] \in Nat /\ Pow3[j] \in Nat
        /\ Pow2[a - j] <= Pow3[a - j]
    BY <2>1, PowerBounds
  <2>6. Pow3[j] * Pow2[a - j] <= Pow3[a] /\ Pow3[j] * Pow2[a - j] \in Nat
    BY <2>4, <2>5, ProductOrder, ProductLaws
  <2>7. F(j) <= Pow3[a] * m /\ F(j) \in Nat
    BY <2>6, <1>1, ProductOrder, ProductLaws
  <2> QED
    BY <2>2, <2>3, <2>7, <1>1
<1>4. Iterate[k + a][x] = top - 1
  <2>1. a \in 0 .. a /\ a - a = 0 /\ Pow2[0] = 1
    BY Pow2Defined
  <2>2. Iterate[k + a][x] = F(a) - 1
    BY <1>3, <2>1
  <2>3. F(a) = top
    BY <1>1, <2>1
  <2> QED
    BY <2>2, <2>3
<1>5. ASSUME NEW j \in k .. k + a
      PROVE  Iterate[j][x] >= x /\ Iterate[j][x] <= top - 1
  <2>1. j - k \in 0 .. a /\ k + (j - k) = j
    OBVIOUS
  <2>2. PICK f \in Nat : Iterate[j][x] = f - 1 /\ f >= Pow2[a] * m /\ f <= top
    <3> HIDE DEF F, top
    <3> QED
      BY <1>3, <2>1
  <2>3. y >= x
    BY <1>2
  <2> HIDE DEF top
  <2> QED
    BY <1>1, <2>2, <2>3
<1>6. Comes(x, k + a, top - 1)
  <2>1. ASSUME NEW j \in 0 .. k + a PROVE Iterate[j][x] >= x
    <3>1. CASE j <= k
      <4>1. j \in 0 .. k
        BY <3>1
      <4> QED
        BY <1>2, <4>1
    <3>2. CASE j > k
      <4>1. j \in k .. k + a
        BY <3>2
      <4> QED
        BY <1>5, <4>1
    <3> QED
      BY <3>1, <3>2
  <2> HIDE DEF top
  <2> QED
    BY <1>4, <2>1 DEF Comes
<1>7. OddStepsIn(x, k + a) = OddStepsIn(x, k) + a
  <2>1. OddStepsIn(x, k + a) = OddStepsIn(x, k) + OddStepsIn(Iterate[k][x], a)
    BY OddStepsSum, Zenon
  <2>2. \A j \in 0 .. a - 1 : Iterate[j][y] % 2 = 1
    <3> HIDE DEF F, top, y
    <3> QED
      BY <1>3
  <2>3. OddStepsIn(y, a) = a
    BY <1>1, <2>2, OddStepsOfRun, Zenon
  <2> QED
    BY <1>2, <2>1, <2>3
<1> QED
  BY <1>5, <1>6, <1>7

\* Even steps from 2^z m to m, as the workers do them, and then either more
\* rounds to go or, on the way, the step that takes x below itself.
LEMMA ComesHalves ==
  ASSUME NEW x \in Nat, NEW k \in Nat, NEW y \in Nat, Comes(x, k, y),
         NEW z \in Nat, NEW m \in Nat \ {0}, y = Pow2[z] * m
  PROVE  /\ m >= x =>
              \E l \in Nat : /\ l >= k /\ Comes(x, l, m)
                             /\ OddStepsIn(x, l) = OddStepsIn(x, k)
                             /\ \A j \in k .. l : Iterate[j][x] <= y
         /\ m < x =>
              \E d \in Nat : /\ d > k /\ Descends(x, d)
                             /\ OddStepsIn(x, d) = OddStepsIn(x, k)
                             /\ \A j \in k .. d - 1 : Iterate[j][x] <= y
<1>1. y = Pow2[z] * m /\ m \in Nat \ {0}
  OBVIOUS
<1>2. Iterate[k][x] = y /\ \A j \in 0 .. k : Iterate[j][x] >= x
  BY DEF Comes
<1>3. ASSUME NEW j \in 0 .. z
      PROVE  /\ Iterate[k + j][x] = Iterate[j][y]
             /\ Iterate[j][y] \in Nat /\ Iterate[j][y] <= y /\ Iterate[j][y] >= m
             /\ j = z => Iterate[j][y] = m
             /\ j < z => Iterate[j][y] % 2 = 0
  <2>1. j \in Nat /\ z - j \in Nat
    OBVIOUS
  <2>2. Iterate[k + j][x] = Iterate[j][Iterate[k][x]]
    BY <2>1, IterateSum, Zenon
  <2>3. /\ Iterate[j][Pow2[z] * m] = Pow2[z - j] * m
        /\ j < z => Iterate[j][Pow2[z] * m] % 2 = 0
        /\ Pow2[z - j] * m >= m
        /\ Pow2[z - j] * m <= Pow2[z] * m
    BY <1>1, FallSteps, Zenon
  <2>4. j = z => Pow2[z - j] * m = m
    BY <1>1, Pow2Defined
  <2>5. Pow2[z - j] * m \in Nat
    BY <1>1, <2>1, PowerBounds, ProductLaws
  <2> QED
    BY <1>1, <1>2, <2>2, <2>3, <2>4, <2>5
<1>4. ASSUME NEW l \in 0 .. z
      PROVE  OddStepsIn(x, k + l) = OddStepsIn(x, k)
  <2>1. l \in Nat /\ \A j \in 0 .. l - 1 : Iterate[j][y] % 2 = 0
    BY <1>3
  <2>2. OddStepsIn(y, l) = 0
    BY <2>1, OddStepsOfRun, Zenon
  <2>3. OddStepsIn(x, k + l) = OddStepsIn(x, k) + OddStepsIn(Iterate[k][x], l)
    BY <2>1, OddStepsSum, Zenon
  <2>4. OddStepsIn(x, k) \in Nat
    BY OddStepsNext
  <2> QED
    BY <1>2, <2>2, <2>3, <2>4
<1>5. ASSUME NEW l \in 0 .. z, NEW j \in k .. k + l
      PROVE  j - k \in 0 .. l /\ j - k \in 0 .. z /\ Iterate[j][x] = Iterate[j - k][y]
  <2>1. j - k \in 0 .. l /\ j - k \in 0 .. z /\ k + (j - k) = j
    OBVIOUS
  <2> QED
    BY <1>3, <2>1
<1>6. ASSUME m >= x
      PROVE  \E l \in Nat : /\ l >= k /\ Comes(x, l, m)
                            /\ OddStepsIn(x, l) = OddStepsIn(x, k)
                            /\ \A j \in k .. l : Iterate[j][x] <= y
  <2>1. z \in 0 .. z
    OBVIOUS
  <2>2. Iterate[k + z][x] = m
    BY <1>3, <2>1
  <2>3. \A j \in k .. k + z : Iterate[j][x] <= y /\ Iterate[j][x] >= x
    BY <1>3, <1>5, <1>6, <1>1, <2>1
  <2>4. \A j \in 0 .. k + z : j \in 0 .. k \/ j \in k .. k + z
    OBVIOUS
  <2>5. Comes(x, k + z, m)
    BY <1>2, <2>2, <2>3, <2>4 DEF Comes
  <2>6. k + z \in Nat /\ k + z >= k
    OBVIOUS
  <2> QED
    BY <1>4, <2>1, <2>3, <2>5, <2>6
<1>7. ASSUME m < x
      PROVE  \E d \in Nat : /\ d > k /\ Descends(x, d)
                            /\ OddStepsIn(x, d) = OddStepsIn(x, k)
                            /\ \A j \in k .. d - 1 : Iterate[j][x] <= y
  <2> DEFINE B == {j \in 0 .. z : Iterate[j][y] < x}
             l == Min(B)
  <2>1. B \in SUBSET Nat /\ z \in B
    BY <1>3, <1>7
  <2>2. l \in B /\ \A j \in B : l <= j
    BY <2>1, LeastOfMore, Zenon
  <2> HIDE DEF l
  <2>3. l \in 0 .. z /\ Iterate[l][y] < x /\ \A j \in 0 .. l - 1 : Iterate[j][y] >= x
    <3>1. \A j \in 0 .. l - 1 : j \in 0 .. z /\ Iterate[j][y] \in Nat
      BY <1>3, <2>2
    <3> QED
      BY <2>2, <3>1
  <2>4. l # 0
    <3>1. Iterate[0][y] = y /\ k \in 0 .. k
      BY IterateDefined
    <3> QED
      BY <1>2, <2>3, <3>1
  <2>5. Iterate[k + l][x] < x
    BY <1>3, <2>3
  <2>6. \A j \in k .. (k + l) - 1 : Iterate[j][x] >= x /\ Iterate[j][x] <= y
    <3> SUFFICES ASSUME NEW j \in k .. (k + l) - 1
                 PROVE  Iterate[j][x] >= x /\ Iterate[j][x] <= y
      OBVIOUS
    <3>1. j \in k .. k + l /\ j - k \in 0 .. l - 1
      BY <2>3
    <3> QED
      BY <1>3, <1>5, <2>3, <3>1
  <2>7. \A j \in 0 .. (k + l) - 1 : j \in 0 .. k \/ j \in k .. (k + l) - 1
    OBVIOUS
  <2>8. Descends(x, k + l)
    BY <1>2, <2>5, <2>6, <2>7 DEF Descends
  <2>9. k + l \in Nat /\ k + l > k
    BY <2>3, <2>4
  <2> QED
    BY <1>4, <2>3, <2>6, <2>8, <2>9
<1> QED
  BY <1>6, <1>7

\* All the even steps there are.
LEMMA ComesFall ==
  ASSUME NEW x \in Nat, NEW k \in Nat, NEW y \in Nat \ {0}, Comes(x, k, y)
  PROVE  /\ OddPart(y) >= x =>
              \E l \in Nat : /\ l >= k /\ Comes(x, l, OddPart(y))
                             /\ OddStepsIn(x, l) = OddStepsIn(x, k)
                             /\ \A j \in k .. l : Iterate[j][x] <= y
         /\ OddPart(y) < x =>
              \E d \in Nat : /\ d > k /\ Descends(x, d)
                             /\ OddStepsIn(x, d) = OddStepsIn(x, k)
                             /\ \A j \in k .. d - 1 : Iterate[j][x] <= y
<1>1. PICK z \in Nat, m \in Nat \ {0} : y = Pow2[z] * m /\ m = OddPart(y)
  BY OddPartValue, Zenon
<1>2. y \in Nat
  OBVIOUS
<1> QED
  BY <1>1, <1>2, ComesHalves

\* The greatest of numbers that have a bound.
LEMMA GreatestOfMore ==
  ASSUME NEW S \in SUBSET Nat, S # {}, NEW b \in Nat, \A y \in S : y <= b
  PROVE  Max(S) \in S /\ \A y \in S : y <= Max(S)
<1> DEFINE B == {b - y : y \in S}
<1>1. B \in SUBSET Nat /\ B # {}
  <2>1. \A y \in S : b - y \in Nat
    OBVIOUS
  <2>2. \A u \in B : u \in Nat
    BY <2>1
  <2>3. PICK y \in S : TRUE
    OBVIOUS
  <2>4. b - y \in B
    BY <2>3
  <2> QED
    BY <2>2, <2>4
<1>2. Min(B) \in B /\ \A u \in B : Min(B) <= u
  BY <1>1, LeastOfMore, Zenon
<1>3. PICK g \in S : Min(B) = b - g
  BY <1>2
<1>4. \A y \in S : g >= y
  <2> SUFFICES ASSUME NEW y \in S PROVE g >= y
    OBVIOUS
  <2>1. b - y \in B
    OBVIOUS
  <2>2. b - g <= b - y
    BY <1>2, <1>3, <2>1
  <2> QED
    BY <2>2
<1>5. \E x \in S : \A y \in S : x >= y
  BY <1>4
<1>6. Max(S) \in S /\ \A y \in S : Max(S) >= y
  BY <1>5, Zenon DEF Max
<1> QED
  BY <1>6

\* Finitely many iterates have a bound.
LEMMA IteratesBound ==
  ASSUME NEW x \in Nat, NEW d \in Nat
  PROVE  \E b \in Nat : \A j \in 0 .. d : Iterate[j][x] <= b
<1> DEFINE P == {k \in Nat : \E b \in Nat : \A j \in 0 .. k : Iterate[j][x] <= b}
<1>1. \A j \in Nat : Iterate[j][x] \in Nat
  BY IterateDefined
<1>2. 0 \in P
  <2>1. \A j \in 0 .. 0 : j = 0
    OBVIOUS
  <2> QED
    BY <1>1, <2>1
<1>3. ASSUME NEW k \in Nat, k \in P PROVE k + 1 \in P
  <2>1. PICK b \in Nat : \A j \in 0 .. k : Iterate[j][x] <= b
    BY <1>3
  <2>2. Iterate[k + 1][x] \in Nat
    BY <1>1
  <2>3. \A j \in 0 .. k + 1 : Iterate[j][x] <= b + Iterate[k + 1][x]
    <3> SUFFICES ASSUME NEW j \in 0 .. k + 1 PROVE Iterate[j][x] <= b + Iterate[k + 1][x]
      OBVIOUS
    <3>1. j \in 0 .. k \/ j = k + 1
      OBVIOUS
    <3>2. Iterate[j][x] \in Nat
      BY <1>1
    <3> QED
      BY <2>1, <2>2, <3>1, <3>2
  <2>4. b + Iterate[k + 1][x] \in Nat
    BY <2>2
  <2> QED
    BY <2>3, <2>4
<1> HIDE DEF P
<1>4. d \in P
  BY <1>2, <1>3, SetInduction
<1> QED
  BY <1>4 DEF P

\* The reference's values of a number that descends.
LEMMA DescendsValue ==
  ASSUME NEW x \in Nat, NEW d \in Nat, Descends(x, d), NEW f \in 0 .. d
  PROVE  /\ OddSteps(x) = OddStepsIn(x, d) /\ OddSteps(x) \in Nat
         /\ PeakFrom(x, f) \in Nat
         /\ \A j \in f .. d - 1 : Iterate[j][x] <= PeakFrom(x, f)
         /\ f < d => \E j \in f .. d - 1 : PeakFrom(x, f) = Iterate[j][x]
<1>1. Iterate[d][x] < x /\ \A j \in 0 .. d - 1 : Iterate[j][x] >= x
  BY DEF Descends
<1>2. Descent[0][x] = d /\ Descent[f][x] = d
  <2>1. 0 \in 0 .. d
    OBVIOUS
  <2>2. \A j \in f .. d - 1 : Iterate[j][x] >= x
    BY <1>1
  <2> QED
    BY <1>1, <2>1, <2>2, DescentValue
<1>3. OddSteps(x) = OddStepsIn(x, d) /\ OddSteps(x) \in Nat
  BY <1>2, OddStepsNext DEF OddSteps
<1> DEFINE S == {0} \cup {Iterate[j][x] : j \in f .. d - 1}
<1>4. PeakFrom(x, f) = Max(S)
  BY <1>2 DEF PeakFrom
<1>5. \A j \in Nat : Iterate[j][x] \in Nat
  BY IterateDefined
<1>6. PICK b \in Nat : \A j \in 0 .. d : Iterate[j][x] <= b
  BY IteratesBound
<1>7. \A j \in f .. d - 1 : j \in Nat /\ j \in 0 .. d
  OBVIOUS
<1>8. S \in SUBSET Nat /\ S # {} /\ \A y \in S : y <= b
  BY <1>5, <1>6, <1>7
<1>9. Max(S) \in S /\ \A y \in S : y <= Max(S)
  <2> HIDE DEF S
  <2> QED
    BY <1>8, GreatestOfMore, Zenon
<1>10. \A j \in f .. d - 1 : Iterate[j][x] <= Max(S)
  BY <1>9
<1>11. ASSUME f < d PROVE \E j \in f .. d - 1 : Max(S) = Iterate[j][x]
  <2>1. f \in f .. d - 1
    BY <1>11
  <2>2. CASE Max(S) = 0
    <3> HIDE DEF S
    <3>1. Iterate[f][x] \in Nat /\ Iterate[f][x] <= 0
      BY <1>5, <1>10, <2>1, <2>2
    <3>2. Max(S) = Iterate[f][x]
      BY <2>2, <3>1
    <3> QED
      BY <2>1, <3>2, Zenon
  <2>3. CASE Max(S) # 0
    BY <1>9, <2>3
  <2> QED
    BY <2>2, <2>3
<1>12. Max(S) \in Nat
  BY <1>8, <1>9
<1> QED
  BY <1>3, <1>4, <1>10, <1>11, <1>12

\* A class below its modulus stays below the modulus of its image.
LEMMA ClassBound ==
  ASSUME NEW s \in Nat, NEW b \in Nat, b < Pow2[s]
  PROVE  \A k \in 0 .. s : Iterate[k][b] < Pow2[s - k] * Pow3[OddStepsIn(b, k)]
<1> DEFINE M(k) == Pow2[s - k] * Pow3[OddStepsIn(b, k)]
           P == {k \in Nat : k <= s => Iterate[k][b] < M(k)}
<1>1. 0 \in P
  <2>1. s - 0 = s /\ OddStepsIn(b, 0) = 0 /\ Pow3[0] = 1 /\ Iterate[0][b] = b /\ Pow2[s] \in Nat
    BY OddStepsNext, Pow3Defined, IterateDefined, Pow2Defined
  <2>2. Pow2[s - 0] * Pow3[OddStepsIn(b, 0)] = Pow2[s]
    BY <2>1
  <2> QED
    BY <2>1, <2>2
<1>2. ASSUME NEW k \in Nat, k \in P PROVE k + 1 \in P
  <2> SUFFICES ASSUME k + 1 <= s PROVE Iterate[k + 1][b] < M(k + 1)
    OBVIOUS
  <2> DEFINE o == OddStepsIn(b, k)
             u == Iterate[k][b]
             i == s - (k + 1)
  <2>1. i \in Nat /\ i + 1 = s - k
    OBVIOUS
  <2>2. o \in Nat /\ u \in Nat /\ OddStepsIn(b, k + 1) = o + (u % 2)
    BY OddStepsNext, IterateDefined
  <2>3. Iterate[k + 1][b] = T[u]
    BY IterateDefined
  <2>4. u < M(k)
    BY <1>2
  <2>5. Pow2[s - k] = 2 * Pow2[i] /\ Pow2[i] \in Nat
    BY <2>1, Pow2Defined
  <2>6. Pow3[o] \in Nat /\ Pow3[o + 1] = 3 * Pow3[o]
    BY <2>2, Pow3Defined
  <2> HIDE DEF o, u, i
  <2> DEFINE p == Pow2[i] * Pow3[o]
  <2>7. p \in Nat /\ (2 * Pow2[i]) * Pow3[o] = 2 * p /\ Pow2[i] * (3 * Pow3[o]) = 3 * p
    BY <2>5, <2>6, ProductLaws
  <2>8. u < 2 * p
    BY <2>4, <2>5, <2>7 DEF o
  <2>9. /\ u % 2 = 0 => Pow2[i] * Pow3[o + (u % 2)] = p
        /\ u % 2 = 1 => Pow2[i] * Pow3[o + (u % 2)] = 3 * p
    BY <2>2, <2>6, <2>7
  <2>10. M(k + 1) = Pow2[i] * Pow3[o + (u % 2)]
    BY <2>2 DEF i
  <2> HIDE DEF p
  <2>11. T[u] \in Nat /\ (u % 2 = 0 => T[u] = u \div 2) /\ (u % 2 = 1 => T[u] = (3 * u + 1) \div 2)
    BY <2>2, StepValue
  <2>12. u % 2 = 0 \/ u % 2 = 1
    BY <2>2
  <2>13. CASE u % 2 = 0
    BY <2>2, <2>3, <2>7, <2>8, <2>9, <2>10, <2>11, <2>13
  <2>14. CASE u % 2 = 1
    BY <2>2, <2>3, <2>7, <2>8, <2>9, <2>10, <2>11, <2>14
  <2> QED
    BY <2>12, <2>13, <2>14
<1> HIDE DEF P
<1>3. \A k \in Nat : k \in P
  BY <1>1, <1>2, SetInduction
<1> QED
  BY <1>3 DEF P

-----------------------------------------------------------------------------
(* The residue sieve: patterns of bits, read in ternary.                     *)

Bit(arr, e) == (arr \div Pow2[e]) % 2

\* What b_evaluate makes of the t lowest bits, without its factor.
Ternary(arr, t) == SumFunction([e \in 0 .. t - 1 |-> Pow3[e] * Bit(arr, e)])

\* A bit is zero or one.
LEMMA BitType ==
  ASSUME NEW arr \in Nat, NEW e \in Nat
  PROVE  Bit(arr, e) \in {0, 1}
<1>1. Pow2[e] \in Nat \ {0}
  BY PowerBounds
<1>2. arr \div Pow2[e] \in Nat
  BY <1>1, Division
<1> QED
  BY <1>2 DEF Bit

\* One bit more.
LEMMA TernaryNext ==
  ASSUME NEW arr \in Nat, NEW t \in Nat
  PROVE  /\ Ternary(arr, t) \in Nat /\ Ternary(arr, 0) = 0
         /\ Ternary(arr, t + 1) = Ternary(arr, t) + Pow3[t] * Bit(arr, t)
<1> DEFINE F(u) == [e \in 0 .. u - 1 |-> Pow3[e] * Bit(arr, e)]
<1>1. \A u \in Nat : F(u) \in [0 .. u - 1 -> Nat] /\ IsFiniteSet(0 .. u - 1)
  <2> SUFFICES ASSUME NEW u \in Nat PROVE F(u) \in [0 .. u - 1 -> Nat] /\ IsFiniteSet(0 .. u - 1)
    OBVIOUS
  <2>1. IsFiniteSet(0 .. u - 1)
    BY FS_Interval
  <2>2. ASSUME NEW e \in 0 .. u - 1 PROVE Pow3[e] * Bit(arr, e) \in Nat
    <3>1. Pow3[e] \in Nat /\ Bit(arr, e) \in Nat
      BY PowerBounds, BitType
    <3> QED
      BY <3>1, ProductLaws
  <2> QED
    BY <2>1, <2>2
<1> HIDE DEF F
<1>2. Ternary(arr, t) = SumFunction(F(t)) /\ Ternary(arr, t + 1) = SumFunction(F(t + 1))
      /\ Ternary(arr, 0) = SumFunction(F(0))
  BY Zenon DEF Ternary, F
<1>3. SumFunction(F(t)) \in Nat
  BY <1>1, SumType
<1>4. SumFunction(F(0)) = 0
  <2>1. 0 .. 0 - 1 = {}
    OBVIOUS
  <2> QED
    BY <1>1, <2>1, SumType
<1>5. SumFunction(F(t + 1)) = SumFunction(F(t)) + F(t + 1)[t]
  <2>1. 0 .. (t + 1) - 1 = (0 .. t - 1) \cup {t} /\ t \notin 0 .. t - 1 /\ t + 1 \in Nat
    OBVIOUS
  <2>2. F(t + 1) \in [(0 .. t - 1) \cup {t} -> Nat]
    BY <1>1, <2>1
  <2>3. \A e \in 0 .. t - 1 : F(t + 1)[e] = F(t)[e]
    BY <2>1 DEF F
  <2>4. F(t) \in [0 .. t - 1 -> Nat] /\ IsFiniteSet(0 .. t - 1)
    BY <1>1
  <2>5. t \notin 0 .. t - 1
    BY <2>1
  <2> DEFINE S == 0 .. t - 1
             f == F(t)
             g == F(t + 1)
  <2>6. /\ IsFiniteSet(S) /\ t \notin S /\ f \in [S -> Nat] /\ g \in [S \cup {t} -> Nat]
        /\ \A e \in S : g[e] = f[e]
    BY <2>2, <2>3, <2>4, <2>5
  <2> HIDE DEF S, f, g
  <2>7. SumFunction(g) = SumFunction(f) + g[t]
    BY <2>6, SumInsert
  <2> QED
    BY <2>7 DEF f, g
<1>6. F(t + 1)[t] = Pow3[t] * Bit(arr, t)
  <2>1. t \in 0 .. (t + 1) - 1
    OBVIOUS
  <2> QED
    BY <2>1, Zenon DEF F
<1> QED
  BY <1>2, <1>3, <1>4, <1>5, <1>6

\* The value is less than half of the next power of three.
LEMMA TernaryBound ==
  ASSUME NEW arr \in Nat
  PROVE  \A t \in Nat : Ternary(arr, t) \in Nat /\ 2 * Ternary(arr, t) < Pow3[t]
<1> DEFINE P == {t \in Nat : 2 * Ternary(arr, t) < Pow3[t]}
<1>1. 0 \in P
  BY TernaryNext, Pow3Defined
<1>2. ASSUME NEW t \in Nat, t \in P PROVE t + 1 \in P
  <2>1. Pow3[t] \in Nat /\ Pow3[t + 1] = 3 * Pow3[t]
    BY Pow3Defined
  <2>2. Bit(arr, t) \in {0, 1}
    BY BitType
  <2>3. /\ Ternary(arr, t) \in Nat
        /\ Ternary(arr, t + 1) = Ternary(arr, t) + Pow3[t] * Bit(arr, t)
    BY TernaryNext
  <2>4. Pow3[t] * Bit(arr, t) \in Nat /\ Pow3[t] * Bit(arr, t) <= Pow3[t]
    BY <2>1, <2>2
  <2> QED
    BY <1>2, <2>1, <2>3, <2>4
<1> HIDE DEF P
<1>3. \A t \in Nat : t \in P
  BY <1>1, <1>2, SetInduction
<1> QED
  BY <1>3, TernaryNext DEF P

\* Digits below the t-th are those of the remainder, in binary and in ternary.
LEMMA LowDigits ==
  ASSUME NEW t \in Nat, NEW e \in 0 .. t - 1, NEW c \in Nat, NEW w \in Nat
  PROVE  /\ (((Pow2[t] * c) + w) \div Pow2[e]) % 2 = (w \div Pow2[e]) % 2
         /\ (((Pow3[t] * c) + w) \div Pow3[e]) % 3 = (w \div Pow3[e]) % 3
<1> DEFINE l == t - (e + 1)
<1>1. l \in Nat /\ e \in Nat /\ t = (e + 1) + l
  OBVIOUS
<1>2. ASSUME NEW p \in Nat \ {0}, NEW b \in Nat \ {0}, NEW u \in Nat
      PROVE  ((((b * p) * u) * c + w) \div p) % b = (w \div p) % b
  <2>1. PICK y \in Nat : y = u * c
    BY ProductLaws
  <2>2. ((b * p) * u) * c = p * (b * y)
    <3>1. b * p \in Nat
      BY ProductLaws
    <3>2. ((b * p) * u) * c = (b * p) * y
      BY <2>1, <3>1, ProductLaws
    <3>3. (b * p) * y = p * (b * y)
      BY ProductLaws
    <3> QED
      BY <3>2, <3>3
  <2>3. PICK q \in Nat, r \in 0 .. p - 1 : w = (p * q) + r /\ q = w \div p
    BY Division
  <2>4. p * (b * y) + w = p * ((b * y) + q) + r /\ b * y \in Nat
    <3>1. PICK v \in Nat : v = b * y
      BY ProductLaws
    <3>2. p * (v + q) = (p * v) + (p * q) /\ p * v \in Nat /\ p * q \in Nat
      BY <2>3, <3>1, ProductLaws
    <3> QED
      BY <2>3, <3>1, <3>2
  <2>5. (p * ((b * y) + q) + r) \div p = (b * y) + q
    BY <2>4, DivisionUnique
  <2>6. PICK q2 \in Nat, r2 \in 0 .. b - 1 : q = (b * q2) + r2 /\ r2 = q % b
    BY Division
  <2>7. (b * y) + q = b * (y + q2) + r2
    BY <2>6, ProductLaws
  <2>8. (b * (y + q2) + r2) % b = r2
    BY DivisionUnique
  <2> QED
    BY <2>2, <2>3, <2>4, <2>5, <2>6, <2>7, <2>8
<1>3. Pow2[t] = (2 * Pow2[e]) * Pow2[l] /\ Pow3[t] = (3 * Pow3[e]) * Pow3[l]
  <2>1. e + 1 \in Nat /\ Pow2[e + 1] = 2 * Pow2[e] /\ Pow3[e + 1] = 3 * Pow3[e]
    BY <1>1, Pow2Defined, Pow3Defined
  <2> HIDE DEF l
  <2>2. Pow2[(e + 1) + l] = Pow2[e + 1] * Pow2[l] /\ Pow3[(e + 1) + l] = Pow3[e + 1] * Pow3[l]
    BY <1>1, <2>1, PowerSum, Zenon
  <2> QED
    BY <1>1, <2>1, <2>2, Zenon
<1>4. Pow2[e] \in Nat \ {0} /\ Pow3[e] \in Nat \ {0} /\ Pow2[l] \in Nat /\ Pow3[l] \in Nat
  BY <1>1, PowerBounds
<1> HIDE DEF l
<1>5. (((Pow2[t] * c) + w) \div Pow2[e]) % 2 = (w \div Pow2[e]) % 2
  <2>1. ((((2 * Pow2[e]) * Pow2[l]) * c + w) \div Pow2[e]) % 2 = (w \div Pow2[e]) % 2
    <3>1. 2 \in Nat \ {0}
      OBVIOUS
    <3> QED
      BY <1>2, <1>4, <3>1, Zenon
  <2> QED
    BY <1>3, <2>1, Zenon
<1>6. (((Pow3[t] * c) + w) \div Pow3[e]) % 3 = (w \div Pow3[e]) % 3
  <2>1. ((((3 * Pow3[e]) * Pow3[l]) * c + w) \div Pow3[e]) % 3 = (w \div Pow3[e]) % 3
    <3>1. 3 \in Nat \ {0}
      OBVIOUS
    <3> QED
      BY <1>2, <1>4, <3>1, Zenon
  <2> QED
    BY <1>3, <2>1, Zenon
<1> QED
  BY <1>5, <1>6

\* Its digits in ternary are the bits, whatever digits are put before them.
LEMMA TernaryDigits ==
  ASSUME NEW arr \in Nat
  PROVE  \A t \in Nat, c \in Nat :
           /\ ((Pow3[t] * c) + Ternary(arr, t)) \div Pow3[t] = c
           /\ \A e \in 0 .. t - 1 :
                (((Pow3[t] * c) + Ternary(arr, t)) \div Pow3[e]) % 3 = Bit(arr, e)
<1> DEFINE P == {t \in Nat : \A e \in 0 .. t - 1 : (Ternary(arr, t) \div Pow3[e]) % 3 = Bit(arr, e)}
<1>1. ASSUME NEW t \in Nat, NEW c \in Nat
      PROVE  ((Pow3[t] * c) + Ternary(arr, t)) \div Pow3[t] = c
  <2>1. Pow3[t] \in Nat \ {0} /\ Ternary(arr, t) \in Nat /\ 2 * Ternary(arr, t) < Pow3[t]
    BY PowerBounds, TernaryBound
  <2>2. Ternary(arr, t) \in 0 .. Pow3[t] - 1
    BY <2>1
  <2> QED
    BY <2>1, <2>2, DivisionUnique, Zenon
<1>2. 0 \in P
  OBVIOUS
<1>3. ASSUME NEW t \in Nat, t \in P PROVE t + 1 \in P
  <2> SUFFICES ASSUME NEW e \in 0 .. (t + 1) - 1
               PROVE  (Ternary(arr, t + 1) \div Pow3[e]) % 3 = Bit(arr, e)
    OBVIOUS
  <2>1. Bit(arr, t) \in {0, 1} /\ Bit(arr, t) \in Nat
    BY BitType
  <2>2. Pow3[t] \in Nat /\ Ternary(arr, t) \in Nat
    BY PowerBounds, TernaryBound
  <2>3. Ternary(arr, t + 1) = (Pow3[t] * Bit(arr, t)) + Ternary(arr, t)
    <3>1. Ternary(arr, t + 1) = Ternary(arr, t) + Pow3[t] * Bit(arr, t)
      BY TernaryNext
    <3>2. Pow3[t] * Bit(arr, t) \in Nat
      BY <2>1, <2>2, ProductLaws
    <3> QED
      BY <2>2, <3>1, <3>2
  <2>4. CASE e = t
    <3>1. Ternary(arr, t + 1) \div Pow3[t] = Bit(arr, t)
      BY <1>1, <2>1, <2>3
    <3> QED
      BY <2>1, <2>4, <3>1
  <2>5. CASE e # t
    <3>1. e \in 0 .. t - 1
      BY <2>5
    <3>2. (((Pow3[t] * Bit(arr, t)) + Ternary(arr, t)) \div Pow3[e]) % 3 = (Ternary(arr, t) \div Pow3[e]) % 3
      <4>1. PICK c \in Nat, w \in Nat : c = Bit(arr, t) /\ w = Ternary(arr, t)
        BY <2>1, <2>2
      <4>2. (((Pow3[t] * c) + w) \div Pow3[e]) % 3 = (w \div Pow3[e]) % 3
        BY <3>1, LowDigits
      <4> QED
        BY <4>1, <4>2
    <3> QED
      BY <1>3, <2>3, <3>1, <3>2
  <2> QED
    BY <2>4, <2>5
<1> HIDE DEF P
<1>4. \A t \in Nat : t \in P
  BY <1>2, <1>3, SetInduction
<1>5. ASSUME NEW t \in Nat, NEW c \in Nat, NEW e \in 0 .. t - 1
      PROVE  (((Pow3[t] * c) + Ternary(arr, t)) \div Pow3[e]) % 3 = Bit(arr, e)
  <2>1. Ternary(arr, t) \in Nat
    BY TernaryBound
  <2>2. (((Pow3[t] * c) + Ternary(arr, t)) \div Pow3[e]) % 3 = (Ternary(arr, t) \div Pow3[e]) % 3
    <3>1. PICK w \in Nat : w = Ternary(arr, t)
      BY <2>1
    <3>2. (((Pow3[t] * c) + w) \div Pow3[e]) % 3 = (w \div Pow3[e]) % 3
      BY LowDigits
    <3> QED
      BY <3>1, <3>2
  <2> QED
    BY <1>4, <2>2 DEF P
<1> QED
  BY <1>1, <1>5

\* The low bits of a number do not depend on the others.
LEMMA LowBitsOf ==
  ASSUME NEW t \in Nat, NEW c \in Nat, NEW w \in Nat
  PROVE  /\ \A e \in 0 .. t - 1 : Bit((Pow2[t] * c) + w, e) = Bit(w, e)
         /\ Ternary((Pow2[t] * c) + w, t) = Ternary(w, t)
         /\ \A e \in Nat : w < Pow2[t] => Bit((Pow2[t] * c) + w, t + e) = Bit(c, e)
<1> DEFINE arr == (Pow2[t] * c) + w
<1>1. \A e \in 0 .. t - 1 : Bit(arr, e) = Bit(w, e)
  BY LowDigits DEF Bit
<1>2. Ternary(arr, t) = Ternary(w, t)
  <2> HIDE DEF arr
  <2>1. [e \in 0 .. t - 1 |-> Pow3[e] * Bit(arr, e)] = [e \in 0 .. t - 1 |-> Pow3[e] * Bit(w, e)]
    BY <1>1, Zenon
  <2> QED
    BY <2>1, Zenon DEF Ternary
<1>3. ASSUME NEW e \in Nat, w < Pow2[t]
      PROVE  Bit(arr, t + e) = Bit(c, e)
  <2>1. Pow2[t] \in Nat \ {0} /\ Pow2[e] \in Nat \ {0} /\ Pow2[t + e] = Pow2[t] * Pow2[e]
    BY PowerBounds, PowerSum
  <2>2. w \in 0 .. Pow2[t] - 1
    BY <1>3, <2>1
  <2>3. arr \div Pow2[t] = c
    BY <2>1, <2>2, DivisionUnique
  <2>4. arr \in Nat
    BY <2>1, ProductLaws
  <2>5. (arr \div Pow2[t]) \div Pow2[e] = arr \div (Pow2[t] * Pow2[e])
    <3> HIDE DEF arr
    <3> QED
      BY <2>1, <2>4, DivisionTwice, Zenon
  <2> HIDE DEF arr
  <2> QED
    BY <2>1, <2>3, <2>5 DEF Bit
<1> QED
  BY <1>1, <1>2, <1>3

\* A number is its highest bit and a smaller number.
LEMMA TopBit ==
  ASSUME NEW t \in Nat, NEW arr \in 0 .. Pow2[t + 1] - 1
  PROVE  \E w \in 0 .. Pow2[t] - 1 : /\ arr = (Pow2[t] * Bit(arr, t)) + w
                                     /\ \A e \in 0 .. t - 1 : Bit(w, e) = Bit(arr, e)
<1>1. Pow2[t] \in Nat \ {0} /\ Pow2[t + 1] = 2 * Pow2[t] /\ arr \in Nat
  BY PowerBounds, Pow2Defined
<1>2. PICK c \in Nat, w \in 0 .. Pow2[t] - 1 : arr = (Pow2[t] * c) + w /\ c = arr \div Pow2[t]
  BY <1>1, Division
<1>3. c < 2
  <2> SUFFICES ASSUME c >= 2 PROVE FALSE
    BY <1>2
  <2>1. Pow2[t] * 2 <= Pow2[t] * c
    BY <1>1, ProductOrder
  <2> QED
    BY <1>1, <1>2, <2>1
<1>4. Bit(arr, t) = c
  <2>1. c % 2 = c
    BY <1>2, <1>3
  <2> QED
    BY <1>2, <2>1 DEF Bit
<1>5. w \in Nat
  BY <1>1
<1>6. \A e \in 0 .. t - 1 : Bit(w, e) = Bit(arr, e)
  BY <1>2, <1>5, LowBitsOf
<1> QED
  BY <1>2, <1>4, <1>6

\* The bits determine the number.
LEMMA BitsDetermine ==
  \A t \in Nat : \A a, b \in 0 .. Pow2[t] - 1 :
    (\A e \in 0 .. t - 1 : Bit(a, e) = Bit(b, e)) => a = b
<1> DEFINE Same(t) == \A a, b \in 0 .. Pow2[t] - 1 :
                        (\A e \in 0 .. t - 1 : Bit(a, e) = Bit(b, e)) => a = b
           P == {t \in Nat : Same(t)}
<1>1. 0 \in P
  BY Pow2Defined
<1>2. ASSUME NEW t \in Nat, t \in P PROVE t + 1 \in P
  <2> SUFFICES ASSUME NEW a \in 0 .. Pow2[t + 1] - 1, NEW b \in 0 .. Pow2[t + 1] - 1,
                      \A e \in 0 .. (t + 1) - 1 : Bit(a, e) = Bit(b, e)
               PROVE  a = b
    OBVIOUS
  <2>1. PICK u \in 0 .. Pow2[t] - 1 : /\ a = (Pow2[t] * Bit(a, t)) + u
                                      /\ \A e \in 0 .. t - 1 : Bit(u, e) = Bit(a, e)
    BY TopBit, Zenon
  <2>2. PICK w \in 0 .. Pow2[t] - 1 : /\ b = (Pow2[t] * Bit(b, t)) + w
                                      /\ \A e \in 0 .. t - 1 : Bit(w, e) = Bit(b, e)
    BY TopBit, Zenon
  <2>3. t \in 0 .. (t + 1) - 1 /\ \A e \in 0 .. t - 1 : e \in 0 .. (t + 1) - 1
    OBVIOUS
  <2>4. Bit(a, t) = Bit(b, t) /\ \A e \in 0 .. t - 1 : Bit(u, e) = Bit(w, e)
    BY <2>1, <2>2, <2>3, Zenon
  <2>5. u = w
    BY <1>2, <2>4, Zenon
  <2> QED
    BY <2>1, <2>2, <2>4, <2>5, Zenon
<1> HIDE DEF P
<1>3. \A t \in Nat : t \in P
  BY <1>1, <1>2, SetInduction
<1> QED
  BY <1>3 DEF P

\* Every number with such digits is the value of a pattern.
LEMMA TernaryInverse ==
  \A t \in Nat : \A q \in 0 .. Pow3[t] - 1 :
    (\A e \in 0 .. t - 1 : (q \div Pow3[e]) % 3 \in {0, 1}) =>
      \E arr \in 0 .. Pow2[t] - 1 : Ternary(arr, t) = q
<1> DEFINE Has(t, q) == \E arr \in 0 .. Pow2[t] - 1 : Ternary(arr, t) = q
           Sparse(t, q) == \A e \in 0 .. t - 1 : (q \div Pow3[e]) % 3 \in {0, 1}
           P == {t \in Nat : \A q \in 0 .. Pow3[t] - 1 : Sparse(t, q) => Has(t, q)}
<1>1. 0 \in P
  <2>1. Pow2[0] = 1 /\ Pow3[0] = 1
    BY Pow2Defined, Pow3Defined
  <2>2. 0 \in 0 .. Pow2[0] - 1 /\ 0 \in Nat
    BY <2>1
  <2>3. Ternary(0, 0) = 0
    BY <2>2, TernaryNext
  <2>4. Has(0, 0)
    BY <2>2, <2>3
  <2>5. \A q \in 0 .. Pow3[0] - 1 : q = 0
    BY <2>1
  <2> HIDE DEF Has, Sparse
  <2> QED
    BY <2>4, <2>5
<1>2. ASSUME NEW t \in Nat, t \in P PROVE t + 1 \in P
  <2> SUFFICES ASSUME NEW q \in 0 .. Pow3[t + 1] - 1, Sparse(t + 1, q) PROVE Has(t + 1, q)
    OBVIOUS
  <2>1. Pow3[t] \in Nat \ {0} /\ Pow3[t + 1] = 3 * Pow3[t] /\ q \in Nat
    <3>1. Pow3[t] \in Nat \ {0} /\ Pow3[t + 1] = 3 * Pow3[t]
      BY PowerBounds, Pow3Defined
    <3> QED
      BY <3>1
  <2>2. PICK c \in Nat, w \in 0 .. Pow3[t] - 1 : q = (Pow3[t] * c) + w /\ c = q \div Pow3[t]
    BY <2>1, Division
  <2>3. w \in Nat
    BY <2>1
  <2>4. c \in {0, 1}
    <3>1. c < 3
      <4> SUFFICES ASSUME c >= 3 PROVE FALSE
        BY <2>2
      <4>1. Pow3[t] * 3 <= Pow3[t] * c
        BY <2>1, ProductOrder
      <4> QED
        BY <2>1, <2>2, <4>1
    <3>2. t \in 0 .. (t + 1) - 1
      OBVIOUS
    <3>3. c % 3 \in {0, 1}
      BY <2>2, <3>2
    <3> QED
      BY <2>2, <3>1, <3>3
  <2>5. Sparse(t, w)
    <3> SUFFICES ASSUME NEW e \in 0 .. t - 1 PROVE (w \div Pow3[e]) % 3 \in {0, 1}
      OBVIOUS
    <3>1. e \in 0 .. (t + 1) - 1
      OBVIOUS
    <3>2. (((Pow3[t] * c) + w) \div Pow3[e]) % 3 = (w \div Pow3[e]) % 3
      BY <2>3, LowDigits, Zenon
    <3> QED
      BY <2>2, <3>1, <3>2
  <2>6. PICK u \in 0 .. Pow2[t] - 1 : Ternary(u, t) = w
    BY <1>2, <2>5
  <2> DEFINE arr == (Pow2[t] * c) + u
  <2>7. Pow2[t] \in Nat \ {0} /\ Pow2[t + 1] = 2 * Pow2[t] /\ u \in Nat
    BY PowerBounds, Pow2Defined
  <2>8. arr \in 0 .. Pow2[t + 1] - 1 /\ arr \in Nat
    BY <2>4, <2>7
  <2>9. Ternary(arr, t) = w
    BY <2>6, <2>7, LowBitsOf
  <2>10. Bit(arr, t) = c
    <3>1. Bit(arr, t + 0) = Bit(c, 0)
      <4>1. 0 \in Nat /\ u < Pow2[t]
        BY <2>7
      <4>2. c \in Nat
        BY <2>4
      <4> QED
        BY <2>7, <4>1, <4>2, LowBitsOf
    <3>2. Bit(c, 0) = c
      BY <2>4, Pow2Defined DEF Bit
    <3>3. t + 0 = t
      OBVIOUS
    <3> QED
      BY <3>1, <3>2, <3>3, Zenon
  <2> HIDE DEF arr
  <2>11. Ternary(arr, t + 1) = Ternary(arr, t) + Pow3[t] * Bit(arr, t)
    BY <2>8, TernaryNext
  <2>12. Ternary(arr, t + 1) = q
    <3>1. Pow3[t] * c \in Nat
      BY <2>1, ProductLaws
    <3> QED
      BY <2>2, <2>3, <2>9, <2>10, <2>11, <3>1
  <2> QED
    BY <2>8, <2>12
<1> HIDE DEF P
<1>3. \A t \in Nat : t \in P
  BY <1>1, <1>2, SetInduction
<1> QED
  BY <1>3 DEF P

\* The number of a pattern.
PatternNumber(arr) == 4 * Pow3[Target] + 3 + BEvaluate(arr)

\* It is 4q + 3 with q in ternary a one and then the bits.
LEMMA PatternNumberValue ==
  ASSUME NEW arr \in Nat
  PROVE  /\ PatternNumber(arr) \in Nat /\ PatternNumber(arr) % 4 = 3
         /\ PatternNumber(arr) + 1 <= 6 * Pow3[Target] + 2
         /\ PatternNumber(arr) >= 4 * Pow3[Target] + 3
         /\ PatternNumber(arr) \div 4 = Pow3[Target] + Ternary(arr, Target)
         /\ (PatternNumber(arr) \div 4) \div Pow3[Target] = 1
         /\ \A e \in 0 .. Target - 1 :
              ((PatternNumber(arr) \div 4) \div Pow3[e]) % 3 = Bit(arr, e)
<1>1. BEvaluate(arr) = 4 * Ternary(arr, Target)
  BY Zenon DEF BEvaluate, Ternary, Bit
<1>2. Target \in Nat /\ Pow3[Target] \in Nat \ {0}
  BY WidthsAssumption, PowerBounds
<1>3. PICK w \in Nat : w = Ternary(arr, Target) /\ 2 * w < Pow3[Target]
  BY <1>2, TernaryBound
<1>4. PatternNumber(arr) = 4 * (Pow3[Target] + w) + 3
  BY <1>1, <1>2, <1>3 DEF PatternNumber
<1>5. /\ PatternNumber(arr) \in Nat /\ PatternNumber(arr) % 4 = 3
      /\ PatternNumber(arr) + 1 <= 6 * Pow3[Target] + 2
      /\ PatternNumber(arr) >= 4 * Pow3[Target] + 3
      /\ PatternNumber(arr) \div 4 = Pow3[Target] + w
  <2>1. PICK p \in Nat : p = Pow3[Target]
    BY <1>2
  <2>2. 2 * w < p /\ PatternNumber(arr) = 4 * (p + w) + 3
    BY <1>3, <1>4, <2>1
  <2>3. (4 * (p + w) + 3) \div 4 = p + w /\ (4 * (p + w) + 3) % 4 = 3
    OBVIOUS
  <2> QED
    BY <2>1, <2>2, <2>3
<1>6. (Pow3[Target] * 1) + w = Pow3[Target] + w
  BY <1>2
<1>7. /\ ((Pow3[Target] * 1) + Ternary(arr, Target)) \div Pow3[Target] = 1
      /\ \A e \in 0 .. Target - 1 :
           (((Pow3[Target] * 1) + Ternary(arr, Target)) \div Pow3[e]) % 3 = Bit(arr, e)
  <2>1. 1 \in Nat
    OBVIOUS
  <2> QED
    BY <1>2, <2>1, TernaryDigits, Zenon
<1> QED
  BY <1>3, <1>5, <1>6, <1>7

\* Different patterns have different numbers.
LEMMA PatternNumberDistinct ==
  ASSUME NEW a \in 0 .. Pow2[Target] - 1, NEW b \in 0 .. Pow2[Target] - 1,
         PatternNumber(a) = PatternNumber(b)
  PROVE  a = b
<1>1. Target \in Nat /\ Pow2[Target] \in Nat /\ a \in Nat /\ b \in Nat
  BY WidthsAssumption, PowerBounds
<1>2. \A e \in 0 .. Target - 1 : Bit(a, e) = Bit(b, e)
  BY <1>1, PatternNumberValue
<1> QED
  BY <1>1, <1>2, BitsDetermine, Zenon

\* And every such number has one.
LEMMA PatternNumberInverse ==
  ASSUME NEW m \in Nat, m % 4 = 3, (m \div 4) \div Pow3[Target] = 1,
         \A e \in 0 .. Target - 1 : ((m \div 4) \div Pow3[e]) % 3 \in {0, 1}
  PROVE  \E arr \in 0 .. Pow2[Target] - 1 : m = PatternNumber(arr)
<1>1. Target \in Nat /\ Pow3[Target] \in Nat \ {0} /\ m \div 4 \in Nat
  BY WidthsAssumption, PowerBounds
<1>2. PICK w \in 0 .. Pow3[Target] - 1 : m \div 4 = (Pow3[Target] * 1) + w
  <2>1. PICK q \in Nat : q = m \div 4
    BY <1>1
  <2>2. q = Pow3[Target] * (q \div Pow3[Target]) + (q % Pow3[Target])
        /\ q % Pow3[Target] \in 0 .. Pow3[Target] - 1
    BY <1>1, Division
  <2> QED
    BY <2>1, <2>2
<1>3. w \in Nat /\ 1 \in Nat
  BY <1>1
<1>4. \A e \in 0 .. Target - 1 : (w \div Pow3[e]) % 3 \in {0, 1}
  <2> SUFFICES ASSUME NEW e \in 0 .. Target - 1 PROVE (w \div Pow3[e]) % 3 \in {0, 1}
    OBVIOUS
  <2>1. (((Pow3[Target] * 1) + w) \div Pow3[e]) % 3 = (w \div Pow3[e]) % 3
    BY <1>1, <1>3, LowDigits
  <2> QED
    BY <1>2, <2>1
<1>5. PICK arr \in 0 .. Pow2[Target] - 1 : Ternary(arr, Target) = w
  BY <1>1, <1>4, TernaryInverse, Zenon
<1>6. BEvaluate(arr) = 4 * Ternary(arr, Target)
  BY Zenon DEF BEvaluate, Ternary, Bit
<1>7. PatternNumber(arr) = 4 * Pow3[Target] + 3 + 4 * w
  BY <1>5, <1>6 DEF PatternNumber
<1>8. m = 4 * (m \div 4) + 3
  OBVIOUS
<1>9. 4 * ((Pow3[Target] * 1) + w) + 3 = 4 * Pow3[Target] + 3 + 4 * w
  BY <1>1, <1>3
<1> QED
  BY <1>2, <1>5, <1>7, <1>8, <1>9

-----------------------------------------------------------------------------
(* What the sieves leave out.                                              *)

\* As long as the odd steps keep up, the halves they round up add at most a
\* third of a step's factor each.
LEMMA StepsUpper ==
  ASSUME NEW n \in Nat, NEW k \in Nat,
         \A j \in 0 .. k - 1 : Pow2[j] <= Pow3[OddStepsIn(n, j)]
  PROVE  3 * (Pow2[k] * Iterate[k][n])
           <= 3 * (Pow3[OddStepsIn(n, k)] * n) + OddStepsIn(n, k) * Pow3[OddStepsIn(n, k)]
<1> DEFINE B(j) == 3 * (Pow2[j] * Iterate[j][n])
                     <= 3 * (Pow3[OddStepsIn(n, j)] * n) + OddStepsIn(n, j) * Pow3[OddStepsIn(n, j)]
           P == {j \in Nat : j <= k => B(j)}
<1>1. 0 \in P
  <2>1. OddStepsIn(n, 0) = 0 /\ Pow3[0] = 1 /\ Pow2[0] = 1 /\ Iterate[0][n] = n
    BY OddStepsNext, Pow2Defined, Pow3Defined, IterateDefined
  <2> QED
    BY <2>1
<1>2. ASSUME NEW j \in Nat, j \in P PROVE j + 1 \in P
  <2> SUFFICES ASSUME j + 1 <= k PROVE B(j + 1)
    OBVIOUS
  <2> DEFINE o == OddStepsIn(n, j)
             v == Iterate[j][n]
             p == Pow3[o]
             q == Pow2[j]
  <2>1. o \in Nat /\ v \in Nat /\ OddStepsIn(n, j + 1) = o + (v % 2) /\ Iterate[j + 1][n] = T[v]
    BY OddStepsNext, IterateDefined, Zenon
  <2>2. 3 * (q * v) <= 3 * (p * n) + o * p /\ q <= p
    <3>1. j \in 0 .. k - 1 /\ j <= k
      OBVIOUS
    <3> QED
      BY <1>2, <3>1
  <2> HIDE DEF o, v
  <2>3. p \in Nat /\ q \in Nat /\ Pow3[o + 1] = 3 * p /\ Pow2[j + 1] = 2 * q
    BY <2>1, Pow2Defined, Pow3Defined, PowerBounds
  <2> HIDE DEF p, q
  <2>4. p * n \in Nat /\ q * v \in Nat /\ o * p \in Nat
    BY <2>1, <2>3, ProductLaws
  <2>5. CASE v % 2 = 1
    <3>1. T[v] = (3 * v + 1) \div 2 /\ T[v] \in Nat
      BY <2>1, <2>5, StepValue
    <3>2. 2 * T[v] = 3 * v + 1
      BY <2>1, <2>5, <3>1
    <3>3. (2 * q) * T[v] = q * (2 * T[v]) /\ (3 * p) * n = 3 * (p * n)
      BY <2>1, <2>3, <3>1, ProductLaws
    <3>4. q * (3 * v + 1) = 3 * (q * v) + q
      BY <2>1, <2>3, ProductLaws
    <3>5. (o + 1) * (3 * p) = 3 * (o * p) + 3 * p
      BY <2>1, <2>3
    <3>6. 3 * ((2 * q) * T[v]) <= 3 * ((3 * p) * n) + (o + 1) * (3 * p)
      BY <2>2, <2>3, <2>4, <3>2, <3>3, <3>4, <3>5
    <3> QED
      BY <2>1, <2>3, <2>5, <3>6
  <2>6. CASE v % 2 # 1
    <3>0. v % 2 = 0 /\ o + (v % 2) = o
      BY <2>1, <2>6
    <3>1. T[v] = v \div 2 /\ T[v] \in Nat
      BY <2>1, <3>0, StepValue
    <3>2. 2 * T[v] = v
      BY <2>1, <3>0, <3>1
    <3>3. (2 * q) * T[v] = q * (2 * T[v])
      BY <2>1, <2>3, <3>1, ProductLaws
    <3>4. Pow3[OddStepsIn(n, j + 1)] = p /\ OddStepsIn(n, j + 1) = o
      BY <2>1, <3>0 DEF p
    <3> QED
      BY <2>1, <2>2, <2>3, <3>2, <3>3, <3>4
  <2> QED
    BY <2>5, <2>6
<1>3. k \in P
  <2> HIDE DEF P
  <2> QED
    BY <1>1, <1>2, SetInduction
<1> QED
  BY <1>3

\* A class that sinks takes its members below themselves in the sieve's steps,
\* the least of them perhaps not.
LEMMA SunkDescends ==
  ASSUME NEW n \in Nat, NEW k \in 1 .. SIEVE_LOGSIZE, Sinks(n % Pow2[SIEVE_LOGSIZE], k),
         3 * n >= SIEVE_LOGSIZE * Pow2[SIEVE_LOGSIZE]
  PROVE  DropsWithin(n, SIEVE_LOGSIZE)
<1> DEFINE s == SIEVE_LOGSIZE
           a == Pow2[s]
           b == n % a
           q == n \div a
           D == {e \in Nat : e <= s /\ e >= 1 /\ Pow3[OddStepsIn(n, e)] < Pow2[e]}
<1>0. s \in Nat /\ a \in Nat \ {0}
  BY WidthsAssumption, PowerBounds
<1> HIDE DEF a
<1>1. n = (a * q) + b /\ q \in Nat /\ b \in Nat
  <2>1. n \div a \in Nat /\ n % a \in 0 .. a - 1 /\ n = a * (n \div a) + (n % a)
    BY <1>0, Division
  <2>2. 0 .. a - 1 \subseteq Nat
    BY <1>0
  <2> QED
    BY <2>1, <2>2
<1>2. k \in 1 .. s /\ Pow3[OddStepsIn(b, k)] < Pow2[k]
  BY DEF Sinks, a
<1> HIDE DEF b, q
<1>3. k \in 0 .. s /\ k \in Nat
  BY <1>0
<1>4. OddStepsIn(n, k) = OddStepsIn(b, k)
  BY <1>0, <1>1, <1>3, ClassSteps DEF a
<1>5. k \in D
  <2>1. OddStepsIn(n, k) \in Nat
    BY <1>3, OddStepsNext
  <2>2. Pow3[OddStepsIn(n, k)] \in Nat /\ Pow2[k] \in Nat
    BY <1>3, <2>1, PowerBounds
  <2> QED
    BY <1>0, <1>2, <1>4, <2>2
<1>6. PICK f \in D : \A j \in D : f <= j
  <2>1. D \in SUBSET Nat /\ D # {}
    BY <1>5
  <2> HIDE DEF D
  <2> QED
    BY <2>1, LeastOfMore
<1>7. f \in Nat /\ f <= s /\ f >= 1 /\ f \in 0 .. s
  BY <1>0, <1>6
<1> DEFINE o == OddStepsIn(n, f)
           p == Pow3[o]
           u == Pow2[f]
           v == Iterate[f][n]
<1>8. o \in Nat /\ o <= f /\ p \in Nat /\ u \in Nat /\ v \in Nat /\ p < u /\ u <= a
  <2>1. o \in 0 .. f /\ o \in Nat
    BY <1>7, OddStepsNext
  <2>2. p \in Nat /\ u \in Nat
    BY <1>7, <2>1, PowerBounds
  <2>3. u <= a
    BY <1>0, <1>7, PowerOrder DEF a
  <2>4. v \in Nat
    BY <1>7, IterateDefined
  <2> QED
    BY <1>6, <1>7, <2>1, <2>2, <2>3, <2>4
<1>9. ASSUME NEW j \in 0 .. f - 1 PROVE Pow2[j] <= Pow3[OddStepsIn(n, j)]
  <2>0. j \in Nat
    BY <1>7
  <2>1. j \in Nat /\ OddStepsIn(n, j) \in Nat
    BY <2>0, OddStepsNext
  <2>2. Pow2[j] \in Nat /\ Pow3[OddStepsIn(n, j)] \in Nat
    BY <2>1, PowerBounds
  <2>3. CASE j = 0
    BY <2>3, OddStepsNext, Pow2Defined, Pow3Defined
  <2>4. CASE j # 0
    <3>1. j \notin D
      <4>1. ~(f <= j)
        BY <1>7
      <4> HIDE DEF D
      <4> QED
        BY <1>6, <4>1
    <3>2. j <= s /\ j >= 1
      BY <1>0, <1>7, <2>0, <2>4
    <3> QED
      BY <2>1, <2>2, <3>1, <3>2
  <2> QED
    BY <2>3, <2>4
<1>10. 3 * (u * v) <= 3 * (p * n) + o * p
  BY <1>7, <1>9, StepsUpper
<1>11. v < n
  <2> HIDE DEF o, p, u, v, D
  <2> SUFFICES ASSUME v >= n PROVE FALSE
    BY <1>8
  <2>1. u * n <= u * v /\ u * n \in Nat /\ u * v \in Nat /\ p * n \in Nat /\ o * p \in Nat
    BY <1>8, ProductLaws, ProductOrder
  <2>2. (p + 1) * n <= u * n /\ (p + 1) * n = p * n + n
    <3>1. p + 1 <= u /\ p + 1 \in Nat
      BY <1>8
    <3> QED
      BY <1>8, <3>1, ProductOrder
  <2>3. 3 * n <= o * p
    BY <1>8, <1>10, <2>1, <2>2
  <2>4. o * p <= s * p /\ s * p <= s * a /\ s * p \in Nat /\ s * a \in Nat
    <3>1. o <= s /\ p <= a
      BY <1>0, <1>7, <1>8
    <3> QED
      BY <1>0, <1>8, <3>1, ProductOrder, ProductLaws
  <2>5. s * (p + 1) <= s * a /\ s * (p + 1) = s * p + s
    <3>1. p + 1 <= a /\ p + 1 \in Nat
      BY <1>0, <1>8
    <3> QED
      BY <1>0, <1>8, <3>1, ProductOrder
  <2>6. s > 0
    BY <1>0, <1>7
  <2> HIDE DEF s
  <2>7. 3 * n >= s * a
    BY DEF s, a
  <2> QED
    BY <1>0, <1>8, <2>1, <2>3, <2>4, <2>5, <2>6, <2>7
<1> QED
  BY <1>0, <1>7, <1>11 DEF DropsWithin

\* A class that coalesces with a lower one takes each member to where a smaller
\* number gets.
LEMMA CoalescedMeets ==
  ASSUME NEW n \in Nat, NEW k \in 1 .. SIEVE_LOGSIZE,
         NEW c \in 0 .. (n % Pow2[SIEVE_LOGSIZE]) - 1, Coalesces(n % Pow2[SIEVE_LOGSIZE], c, k)
  PROVE  MeetsLower(n, SIEVE_LOGSIZE)
<1> DEFINE s == SIEVE_LOGSIZE
           a == Pow2[s]
           b == n % a
           q == n \div a
           m == (a * q) + c
           w == Pow2[s - k] * Pow3[OddStepsIn(b, k)]
<1>1. s \in Nat /\ a \in Nat \ {0}
  BY WidthsAssumption, PowerBounds
<1> HIDE DEF a
<1>2. n = (a * q) + b /\ q \in Nat /\ b \in 0 .. a - 1 /\ a * q \in Nat
  <2>1. n \div a \in Nat /\ n % a \in 0 .. a - 1 /\ n = a * (n \div a) + (n % a)
    BY <1>1, Division
  <2> QED
    BY <1>1, <2>1, ProductLaws
<1>3. c \in 0 .. b - 1 /\ Coalesces(b, c, k)
  BY DEF a
<1> HIDE DEF b, q
<1>4. b \in Nat /\ c \in Nat /\ c < b /\ m \in Nat /\ m < n /\ k \in 0 .. s /\ k \in Nat
  BY <1>1, <1>2, <1>3
<1>5. Iterate[k][(a * q) + b] = (w * q) + Iterate[k][b]
  BY <1>1, <1>2, <1>4, ClassSteps DEF a
<1>6. Iterate[k][(a * q) + c] = ((Pow2[s - k] * Pow3[OddStepsIn(c, k)]) * q) + Iterate[k][c]
  BY <1>1, <1>2, <1>4, ClassSteps DEF a
<1>7. Iterate[k][m] = Iterate[k][n]
  BY <1>2, <1>3, <1>5, <1>6 DEF Coalesces
<1>8. m \in 0 .. n - 1 /\ k \in 1 .. SIEVE_LOGSIZE
  BY <1>4
<1> QED
  BY <1>7, <1>8 DEF MeetsLower

\* Whatever class a sieve drops, its members are below themselves in its steps
\* or where a smaller number gets.
LEMMA DroppedBelow ==
  ASSUME NEW n \in Nat, ~IsLive(n), 3 * n >= SIEVE_LOGSIZE * Pow2[SIEVE_LOGSIZE]
  PROVE  DropsWithin(n, SIEVE_LOGSIZE) \/ MeetsLower(n, SIEVE_LOGSIZE)
<1> DEFINE b == n % Pow2[SIEVE_LOGSIZE]
<1>1. PICK k \in 1 .. SIEVE_LOGSIZE :
        Sinks(b, k) \/ \E c \in 0 .. b - 1 : Coalesces(b, c, k)
  BY DEF IsLive, IsLiveIn
<1>2. CASE Sinks(b, k)
  BY <1>2, SunkDescends
<1>3. CASE \E c \in 0 .. b - 1 : Coalesces(b, c, k)
  BY <1>3, CoalescedMeets
<1> QED
  BY <1>1, <1>2, <1>3

\* A number that is not 3 modulo 4 is below itself after two steps.
LEMMA OtherDescends ==
  ASSUME NEW n \in Nat, n > 1, n % 4 # 3, NEW s \in Nat, s >= 2
  PROVE  DropsWithin(n, s)
<1>1. Iterate[0][n] = n /\ Iterate[1][n] = T[n] /\ Iterate[2][n] = T[T[n]]
  <2>1. Iterate[0][n] = n /\ Iterate[0 + 1][n] = T[Iterate[0][n]]
        /\ Iterate[1 + 1][n] = T[Iterate[1][n]]
    BY IterateDefined
  <2>2. 0 + 1 = 1 /\ 1 + 1 = 2
    OBVIOUS
  <2> QED
    BY <2>1, <2>2
<1>2. CASE n % 2 = 0
  <2>1. T[n] = n \div 2
    BY <1>2, StepValue
  <2>2. T[n] < n /\ 1 \in 1 .. s
    BY <2>1
  <2> QED
    BY <1>1, <2>2 DEF DropsWithin
<1>3. CASE n % 2 = 1
  <2>1. n % 4 = 1
    BY <1>3
  <2>2. PICK q \in Nat : n = 4 * q + 1
    <3>1. n \div 4 \in Nat /\ n = 4 * (n \div 4) + 1
      BY <2>1
    <3> QED
      BY <3>1
  <2>3. T[n] = (3 * n + 1) \div 2
    BY <1>3, StepValue
  <2>4. T[n] = 6 * q + 2 /\ 6 * q + 2 \in Nat /\ (6 * q + 2) % 2 = 0
    BY <2>2, <2>3
  <2>5. T[6 * q + 2] = (6 * q + 2) \div 2
    BY <2>4, StepValue
  <2>6. T[T[n]] = 3 * q + 1 /\ q > 0
    BY <2>2, <2>4, <2>5
  <2>7. Iterate[2][n] < n
    BY <1>1, <2>2, <2>6
  <2> QED
    BY <2>7 DEF DropsWithin
<1> QED
  BY <1>2, <1>3

\* A number in a dead class modulo 3 or 9 is on the trajectory of a smaller one.
LEMMA DeadReached ==
  ASSUME NEW n \in Nat, NEW m \in {1, 3, 9}, ~IsLiveInSieve(n, m)
  PROVE  ReachedFromBelow(n, 3)
<1>0. ASSUME NEW x \in Nat
      PROVE  /\ Iterate[1][x] = T[x] /\ Iterate[2][x] = T[T[x]]
             /\ Iterate[3][x] = T[T[T[x]]]
  <2>1. Iterate[0][x] = x /\ Iterate[0 + 1][x] = T[Iterate[0][x]]
        /\ Iterate[1 + 1][x] = T[Iterate[1][x]] /\ Iterate[2 + 1][x] = T[Iterate[2][x]]
    BY IterateDefined
  <2>2. 0 + 1 = 1 /\ 1 + 1 = 2 /\ 2 + 1 = 3
    OBVIOUS
  <2> QED
    BY <2>1, <2>2
<1>1. n % 3 = 2 \/ n % 9 = 4
  <2>1. n % m \in Dead(m)
    BY DEF IsLiveInSieve
  <2>2. CASE m = 9
    <3>1. n % 9 \in {2, 4, 5, 8}
      BY <2>1, <2>2 DEF Dead
    <3> QED
      BY <3>1
  <2>3. CASE m = 3
    BY <2>1, <2>3 DEF Dead
  <2>4. CASE m = 1
    BY <2>1, <2>4 DEF Dead
  <2> QED
    BY <2>2, <2>3, <2>4
<1>2. CASE n % 3 = 2
  <2>1. PICK q \in Nat : n = 3 * q + 2
    <3>1. n \div 3 \in Nat /\ n = 3 * (n \div 3) + 2
      BY <1>2
    <3> QED
      BY <3>1
  <2>2. 2 * q + 1 \in Nat /\ (2 * q + 1) % 2 = 1 /\ (3 * (2 * q + 1) + 1) \div 2 = n
    BY <2>1
  <2>3. T[2 * q + 1] = n
    BY <2>2, StepValue
  <2>4. Iterate[1][2 * q + 1] = n /\ 2 * q + 1 \in 1 .. n - 1 /\ 1 \in 1 .. 3
    BY <1>0, <2>1, <2>2, <2>3
  <2> QED
    BY <2>4 DEF ReachedFromBelow
<1>3. CASE n % 9 = 4
  <2>1. PICK q \in Nat : n = 9 * q + 4
    <3>1. n \div 9 \in Nat /\ n = 9 * (n \div 9) + 4
      BY <1>3
    <3> QED
      BY <3>1
  <2>2. /\ 8 * q + 3 \in Nat /\ (8 * q + 3) % 2 = 1 /\ (3 * (8 * q + 3) + 1) \div 2 = 12 * q + 5
        /\ 12 * q + 5 \in Nat /\ (12 * q + 5) % 2 = 1 /\ (3 * (12 * q + 5) + 1) \div 2 = 18 * q + 8
        /\ 18 * q + 8 \in Nat /\ (18 * q + 8) % 2 = 0 /\ (18 * q + 8) \div 2 = n
    BY <2>1
  <2>3. T[8 * q + 3] = 12 * q + 5 /\ T[12 * q + 5] = 18 * q + 8 /\ T[18 * q + 8] = n
    BY <2>2, StepValue
  <2>4. Iterate[3][8 * q + 3] = n /\ 8 * q + 3 \in 1 .. n - 1 /\ 3 \in 1 .. 3
    BY <1>0, <2>1, <2>2, <2>3
  <2> QED
    BY <2>4 DEF ReachedFromBelow
<1> QED
  BY <1>1, <1>2, <1>3

-----------------------------------------------------------------------------
(* Checksums, bounds and peaks.                                           *)

\* The bound of check's multiplication.
LEMMA ProductFits ==
  ASSUME NEW m \in Nat, NEW a \in Nat, NEW u \in Nat, m <= u \div Pow2[2 * a]
  PROVE  m * Pow3[a] <= u
<1>1. 2 * a \in Nat /\ Pow2[2 * a] \in Nat \ {0} /\ Pow3[a] \in Nat /\ Pow3[a] <= Pow2[2 * a]
  <2>1. 2 * a \in Nat
    OBVIOUS
  <2>2. a <= a
    OBVIOUS
  <2> QED
    BY <2>1, <2>2, PowerBounds, PowerOrder
<1>2. PICK p \in Nat \ {0} : p = Pow2[2 * a]
  BY <1>1
<1>3. PICK q \in Nat, r \in Nat : q = u \div p /\ u = (p * q) + r
  <2>1. u \div p \in Nat /\ u % p \in 0 .. p - 1 /\ u = p * (u \div p) + (u % p)
    BY Division
  <2>2. u % p \in Nat
    BY <2>1
  <2> QED
    BY <2>1, <2>2, Zenon
<1>4. m * Pow3[a] <= m * p /\ m * p <= q * p /\ m * p \in Nat /\ q * p = p * q /\ m * Pow3[a] \in Nat
      /\ p * q \in Nat
  <2>1. m <= q
    BY <1>2, <1>3
  <2> QED
    BY <1>1, <1>2, <2>1, ProductOrder, ProductLaws
<1> QED
  BY <1>3, <1>4

\* Checksums wrap, and may be added up in any order.
LEMMA ChecksumValue ==
  ASSUME NEW a \in Nat, NEW b \in Nat
  PROVE  /\ Checksum(a) \in 0 .. UMax(SumBits) /\ Checksum(a) \in Nat
         /\ a \in 0 .. UMax(SumBits) => Checksum(a) = a
         /\ Checksum(Checksum(a) + b) = Checksum(a + b)
<1>1. PICK p \in Nat \ {0} : p = Pow2[SumBits]
  <2>1. SumBits \in Nat
    BY WidthsAssumption
  <2> QED
    BY <2>1, PowerBounds
<1>2. a % p \in 0 .. p - 1 /\ (a \in 0 .. p - 1 => a % p = a)
  BY <1>1
<1>3. ((a % p) + b) % p = (a + b) % p
  <2>1. PICK q \in Nat, r \in 0 .. p - 1 : a = (p * q) + r /\ r = a % p
    BY Division
  <2>2. PICK s \in Nat, t \in 0 .. p - 1 : r + b = (p * s) + t /\ t = (r + b) % p
    <3>1. r + b \in Nat
      BY <2>1
    <3> QED
      BY <3>1, Division
  <2>3. a + b = p * (q + s) + t
    <3>1. p * (q + s) = (p * q) + (p * s)
      BY ProductLaws
    <3>2. PICK u \in Nat, v \in Nat : u = p * q /\ v = p * s
      BY ProductLaws
    <3>3. a = u + r /\ r + b = v + t /\ p * (q + s) = u + v
      BY <2>1, <2>2, <3>1, <3>2
    <3>4. r \in Nat /\ t \in Nat
      OBVIOUS
    <3> QED
      BY <3>3, <3>4
  <2>4. (p * (q + s) + t) % p = t
    <3>1. q + s \in Nat
      OBVIOUS
    <3> QED
      BY <3>1, DivisionUnique
  <2> QED
    BY <2>1, <2>2, <2>3, <2>4
<1> QED
  BY <1>1, <1>2, <1>3 DEF Checksum, UMax

\* What is added to a checksum may be added before it wraps.
LEMMA ChecksumAdd ==
  ASSUME NEW s, NEW a \in Nat, NEW o \in Nat, NEW x \in Nat, NEW b \in Nat, NEW p \in Nat,
         s = Checksum(a + o), a + o + x = b + p
  PROVE  Checksum(s + x) = Checksum(b + p)
<1>1. PICK u \in Nat : u = a + o /\ u + x = b + p
  OBVIOUS
<1>2. Checksum(Checksum(u) + x) = Checksum(u + x)
  BY ChecksumValue
<1> QED
  BY <1>1, <1>2

\* The peak of a number that has been tested, or just now.
LEMMA PeakOfTested ==
  ASSUME NEW x \in Nat, NEW d \in Nat, Descends(x, d), NEW f \in Nat, f < d
  PROVE  /\ PeakFrom(x, f) \in Nat
         /\ \A j \in f .. d - 1 : Iterate[j][x] <= PeakFrom(x, f)
         /\ \E j \in f .. d - 1 : PeakFrom(x, f) = Iterate[j][x]
         /\ x <= PeakFrom(x, f)
<1>1. f \in 0 .. d
  OBVIOUS
<1>2. /\ PeakFrom(x, f) \in Nat
      /\ \A j \in f .. d - 1 : Iterate[j][x] <= PeakFrom(x, f)
      /\ \E j \in f .. d - 1 : PeakFrom(x, f) = Iterate[j][x]
  BY <1>1, DescendsValue
<1>3. f \in f .. d - 1 /\ f \in 0 .. d - 1
  OBVIOUS
<1>4. Iterate[f][x] >= x /\ Iterate[f][x] <= PeakFrom(x, f) /\ Iterate[f][x] \in Nat
  BY <1>2, <1>3, IterateDefined DEF Descends
<1> QED
  BY <1>2, <1>4

-----------------------------------------------------------------------------
(* Shares, and sums over an interval.                                        *)

\* A number's share of the checksum.
Share(m) == IF \E d \in Nat : Descends(m, d) THEN OddSteps(m) ELSE 0

\* A share is a number.
LEMMA ShareType ==
  ASSUME NEW m \in Nat
  PROVE  /\ Share(m) \in Nat
         /\ \A d \in Nat : Descends(m, d) => Share(m) = OddSteps(m) /\ Share(m) = OddStepsIn(m, d)
<1>1. ASSUME NEW d \in Nat, Descends(m, d)
      PROVE  OddSteps(m) \in Nat /\ OddSteps(m) = OddStepsIn(m, d)
  <2>1. 0 \in 0 .. d
    OBVIOUS
  <2> QED
    BY <1>1, <2>1, DescendsValue
<1> QED
  BY <1>1 DEF Share

\* One element more.
LEMMA SumMore ==
  ASSUME NEW S, IsFiniteSet(S), NEW a, a \notin S, NEW g, \A y \in S \cup {a} : g[y] \in Nat
  PROVE  /\ SumFunction([y \in S |-> g[y]]) \in Nat
         /\ SumFunction([y \in S \cup {a} |-> g[y]]) = SumFunction([y \in S |-> g[y]]) + g[a]
<1> DEFINE f == [y \in S |-> g[y]]
           h == [y \in S \cup {a} |-> g[y]]
<1>1. f \in [S -> Nat] /\ h \in [S \cup {a} -> Nat] /\ h[a] = g[a] /\ \A y \in S : h[y] = f[y]
  OBVIOUS
<1> HIDE DEF f, h
<1>2. SumFunction(f) \in Nat
  BY <1>1, SumType
<1>3. SumFunction(h) = SumFunction(f) + h[a]
  BY <1>1, SumInsert
<1> QED
  BY <1>1, <1>2, <1>3 DEF f, h

\* One index more.
LEMMA RangeSum ==
  ASSUME NEW w \in Nat, NEW g \in [0 .. w - 1 -> Nat]
  PROVE  /\ SumFunction([t \in 0 .. 0 - 1 |-> g[t]]) = 0
         /\ \A u \in 0 .. w - 1 :
              /\ SumFunction([t \in 0 .. u - 1 |-> g[t]]) \in Nat
              /\ SumFunction([t \in 0 .. (u + 1) - 1 |-> g[t]])
                   = SumFunction([t \in 0 .. u - 1 |-> g[t]]) + g[u]
<1>1. SumFunction([t \in 0 .. 0 - 1 |-> g[t]]) = 0
  <2>1. 0 .. 0 - 1 = {}
    OBVIOUS
  <2>2. IsFiniteSet({}) /\ [t \in {} |-> g[t]] \in [{} -> Nat]
    BY FS_EmptySet
  <2>3. SumFunction([t \in {} |-> g[t]]) = 0
    BY <2>2, SumType
  <2> QED
    BY <2>1, <2>3
<1>2. ASSUME NEW u \in 0 .. w - 1
      PROVE  /\ SumFunction([t \in 0 .. u - 1 |-> g[t]]) \in Nat
             /\ SumFunction([t \in 0 .. (u + 1) - 1 |-> g[t]])
                  = SumFunction([t \in 0 .. u - 1 |-> g[t]]) + g[u]
  <2> DEFINE S == 0 .. u - 1
  <2>1. IsFiniteSet(S)
    BY FS_Interval
  <2>2. u \notin S /\ S \cup {u} \subseteq 0 .. w - 1 /\ 0 .. (u + 1) - 1 = S \cup {u}
    OBVIOUS
  <2>3. \A y \in S \cup {u} : g[y] \in Nat
    BY <2>2
  <2> HIDE DEF S
  <2>4. /\ SumFunction([t \in S |-> g[t]]) \in Nat
        /\ SumFunction([t \in S \cup {u} |-> g[t]]) = SumFunction([t \in S |-> g[t]]) + g[u]
    BY <2>1, <2>2, <2>3, SumMore
  <2> QED
    BY <2>2, <2>4 DEF S
<1> QED
  BY <1>1, <1>2

\* Sums of wrapped sums: where each adds what takes the k-th total to the next.
LEMMA WrappedSum ==
  ASSUME NEW w \in Nat, NEW g \in [0 .. w - 1 -> Nat], NEW F \in [0 .. w -> Nat], F[0] = 0,
         \A u \in 0 .. w - 1 : \E s \in Nat : F[u + 1] = F[u] + s /\ g[u] = Checksum(s)
  PROVE  Checksum(SumFunction([t \in 0 .. w - 1 |-> g[t]])) = Checksum(F[w])
<1> DEFINE G(u) == SumFunction([t \in 0 .. u - 1 |-> g[t]])
           P == {u \in Nat : u <= w => G(u) \in Nat /\ Checksum(G(u)) = Checksum(F[u])}
<1>1. G(0) = 0
  BY RangeSum
<1>2. \A u \in 0 .. w - 1 : G(u) \in Nat /\ G(u + 1) = G(u) + g[u]
  BY RangeSum
<1> HIDE DEF G
<1>3. 0 \in P
  BY <1>1
<1>4. ASSUME NEW u \in Nat, u \in P PROVE u + 1 \in P
  <2> SUFFICES ASSUME u + 1 <= w PROVE G(u + 1) \in Nat /\ Checksum(G(u + 1)) = Checksum(F[u + 1])
    OBVIOUS
  <2>1. u \in 0 .. w - 1 /\ u \in 0 .. w /\ u + 1 \in 0 .. w /\ u <= w
    OBVIOUS
  <2>2. G(u) \in Nat /\ Checksum(G(u)) = Checksum(F[u]) /\ G(u + 1) = G(u) + g[u]
        /\ g[u] \in Nat /\ F[u] \in Nat
    BY <1>2, <1>4, <2>1
  <2>3. PICK s \in Nat : F[u + 1] = F[u] + s /\ g[u] = Checksum(s)
    BY <2>1
  <2>4. PICK x \in Nat, y \in Nat : x = G(u) /\ y = F[u]
    BY <2>2
  <2>5. Checksum(x + s) = Checksum(y + s)
    <3>1. Checksum(Checksum(x) + s) = Checksum(x + s) /\ Checksum(Checksum(y) + s) = Checksum(y + s)
      BY ChecksumValue
    <3>2. Checksum(x) = Checksum(y)
      BY <2>2, <2>4
    <3> QED
      BY <3>1, <3>2
  <2>6. Checksum(x + Checksum(s)) = Checksum(x + s)
    <3>1. Checksum(Checksum(s) + x) = Checksum(s + x) /\ Checksum(s) \in Nat
      BY ChecksumValue
    <3>2. Checksum(s) + x = x + Checksum(s) /\ s + x = x + s
      BY <3>1
    <3> QED
      BY <3>1, <3>2
  <2>7. G(u + 1) \in Nat
    <3>1. PICK z \in Nat : z = g[u]
      BY <2>2
    <3>2. x + z \in Nat
      OBVIOUS
    <3> QED
      BY <2>2, <2>4, <3>1, <3>2
  <2> QED
    BY <2>2, <2>3, <2>4, <2>5, <2>6, <2>7
<1>5. w \in P
  <2> HIDE DEF P
  <2> QED
    BY <1>3, <1>4, SetInduction
<1> QED
  BY <1>5 DEF G
=============================================================================
