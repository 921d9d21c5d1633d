--------------------------- MODULE ThreadedProofs ---------------------------
(***************************************************************************)
(* Proofs about module ThreadedWorker: however many threads there are and  *)
(* however they interleave, a thread goes through its own patterns, each   *)
(* once; what it adds up are the shares of their numbers; and the counter  *)
(* of all threads, with those on their way to it, is the number of those   *)
(* that went to the unbounded check.                                       *)
(***************************************************************************)
EXTENDS ThreadedWorker, CollatzProofs

-----------------------------------------------------------------------------
(* The numbers of the sieve, in the order of their patterns.               *)

\* The live numbers of the first k patterns, and the sum of their shares.
LiveBelow(k) == {PatternNumber(a) : a \in {c \in 0 .. k - 1 : IsLive(PatternNumber(c))}}
Total(k) == SumFunction([m \in LiveBelow(k) |-> Share(m)])

\* Sums over the patterns, one more at a time.
LEMMA TotalNext ==
  /\ Total(0) = 0
  /\ \A k \in Nat : k <= Pow2[Target] => Total(k) \in Nat
  /\ \A k \in 0 .. Pow2[Target] - 1 :
       Total(k + 1) = Total(k) + (IF IsLive(PatternNumber(k)) THEN Share(PatternNumber(k)) ELSE 0)
<1>1. ASSUME NEW k \in Nat
      PROVE  /\ IsFiniteSet(LiveBelow(k)) /\ LiveBelow(k) \subseteq Nat
             /\ [m \in LiveBelow(k) |-> Share(m)] \in [LiveBelow(k) -> Nat]
             /\ Total(k) \in Nat /\ (LiveBelow(k) = {} => Total(k) = 0)
  <2>1. PICK b \in Nat : b = 6 * Pow3[Target] + 2
    BY WidthsAssumption, PowerBounds
  <2>2. ASSUME NEW m \in LiveBelow(k) PROVE m \in 0 .. b
    <3>1. PICK a \in 0 .. k - 1 : m = PatternNumber(a)
      BY DEF LiveBelow
    <3>2. m \in Nat /\ m + 1 <= b
      BY <2>1, <3>1, PatternNumberValue
    <3> QED
      BY <3>2
  <2>3. IsFiniteSet(0 .. b) /\ LiveBelow(k) \subseteq 0 .. b
    BY <2>2, FS_Interval
  <2>4. IsFiniteSet(LiveBelow(k))
    BY <2>3, FS_Subset
  <2>5. LiveBelow(k) \subseteq Nat
    BY <2>3
  <2>6. [m \in LiveBelow(k) |-> Share(m)] \in [LiveBelow(k) -> Nat]
    BY <2>5, ShareType
  <2> QED
    BY <2>4, <2>5, <2>6, SumType DEF Total
<1>2. Total(0) = 0
  <2>1. LiveBelow(0) = {}
    BY DEF LiveBelow
  <2> QED
    BY <1>1, <2>1
<1>3. ASSUME NEW k \in 0 .. Pow2[Target] - 1
      PROVE  Total(k + 1) = Total(k) + (IF IsLive(PatternNumber(k)) THEN Share(PatternNumber(k)) ELSE 0)
  <2> DEFINE x == PatternNumber(k)
  <2>1. k \in Nat /\ k + 1 \in Nat /\ (k + 1) - 1 = k
    OBVIOUS
  <2>2. 0 .. k = (0 .. k - 1) \cup {k}
    BY <2>1
  <2>3. CASE IsLive(x)
    <3>1. LiveBelow(k + 1) = LiveBelow(k) \cup {x}
      BY <2>1, <2>2, <2>3 DEF LiveBelow
    <3>2. x \notin LiveBelow(k)
      <4>1. SUFFICES ASSUME x \in LiveBelow(k) PROVE FALSE
        OBVIOUS
      <4>2. PICK c \in 0 .. k - 1 : x = PatternNumber(c)
        BY <4>1 DEF LiveBelow
      <4>3. c \in 0 .. Pow2[Target] - 1 /\ c # k
        <5>1. Pow2[Target] \in Nat
          BY WidthsAssumption, PowerBounds
        <5> QED
          BY <2>1, <5>1
      <4> QED
        BY <4>2, <4>3, PatternNumberDistinct
    <3>3. x \in Nat
      BY <2>1, PatternNumberValue
    <3> DEFINE f == [m \in LiveBelow(k) |-> Share(m)]
               h == [m \in LiveBelow(k) \cup {x} |-> Share(m)]
    <3>4. f \in [LiveBelow(k) -> Nat] /\ h \in [LiveBelow(k) \cup {x} -> Nat]
          /\ h[x] = Share(x) /\ \A y \in LiveBelow(k) : h[y] = f[y]
      BY <1>1, <2>1, <3>3, ShareType
    <3>5. SumFunction(h) = SumFunction(f) + h[x]
      <4>1. IsFiniteSet(LiveBelow(k))
        BY <1>1, <2>1
      <4> HIDE DEF f, h, x
      <4> QED
        BY <3>2, <3>4, <4>1, SumInsert
    <3>6. Total(k + 1) = SumFunction(h) /\ Total(k) = SumFunction(f)
      BY <3>1 DEF Total
    <3> QED
      BY <2>3, <3>4, <3>5, <3>6
  <2>4. CASE ~IsLive(x)
    <3>1. LiveBelow(k + 1) = LiveBelow(k)
      BY <2>1, <2>2, <2>4 DEF LiveBelow
    <3>2. Total(k + 1) = Total(k) /\ Total(k) \in Nat
      BY <1>1, <2>1, <3>1 DEF Total
    <3> QED
      BY <2>4, <3>2
  <2> QED
    BY <2>3, <2>4
<1> QED
  BY <1>1, <1>2, <1>3

\* All patterns are those of the sieve.
LEMMA AllLive == LiveBelow(Pow2[Target]) = Sieved
<1> DEFINE p == Pow3[Target]
<1>1. Target \in Nat /\ p \in Nat \ {0} /\ Pow2[Target] \in Nat
  BY WidthsAssumption, PowerBounds
<1>2. ASSUME NEW a \in 0 .. Pow2[Target] - 1, IsLive(PatternNumber(a))
      PROVE  PatternNumber(a) \in Sieved
  <2> DEFINE m == PatternNumber(a)
  <2>1. a \in Nat
    BY <1>1
  <2>2. /\ m \in Nat /\ m % 4 = 3 /\ m + 1 <= 6 * p + 2 /\ m >= 4 * p + 3
        /\ \A e \in 0 .. Target - 1 : ((m \div 4) \div Pow3[e]) % 3 = Bit(a, e)
    BY <2>1, PatternNumberValue
  <2>3. \A e \in 0 .. Target - 1 : Bit(a, e) \in {0, 1}
    BY <1>1, <2>1, BitType
  <2> HIDE DEF m, p
  <2>4. m \in 4 * p .. 8 * p
    BY <1>1, <2>2
  <2> QED
    BY <1>2, <2>2, <2>3, <2>4 DEF Sieved, m, p
<1>3. ASSUME NEW m \in Sieved PROVE m \in LiveBelow(Pow2[Target])
  <2>1. /\ m \in 4 * p .. 8 * p /\ m % 4 = 3 /\ IsLive(m)
        /\ \A e \in 0 .. Target - 1 : ((m \div 4) \div Pow3[e]) % 3 \in {0, 1}
    BY DEF Sieved
  <2>2. m \in Nat /\ m \div 4 \in p .. 2 * p - 1
    <3> HIDE DEF p
    <3>1. m \in Nat /\ m >= 4 * p /\ m <= 8 * p
      BY <1>1, <2>1
    <3>2. PICK q \in Nat : m = 4 * q + 3 /\ m \div 4 = q
      BY <2>1, <3>1
    <3> QED
      BY <1>1, <3>1, <3>2
  <2>3. (m \div 4) \div p = 1
    <3> HIDE DEF p
    <3>1. PICK r \in 0 .. p - 1 : m \div 4 = p * 1 + r
      <4>1. (m \div 4) - p \in 0 .. p - 1 /\ m \div 4 = p * 1 + ((m \div 4) - p)
        BY <1>1, <2>2
      <4> QED
        BY <4>1
    <3> QED
      BY <1>1, <3>1, DivisionUnique
  <2>4. PICK a \in 0 .. Pow2[Target] - 1 : m = PatternNumber(a)
    BY <2>1, <2>2, <2>3, PatternNumberInverse
  <2> QED
    BY <2>1, <2>4 DEF LiveBelow
<1> QED
  BY <1>2, <1>3 DEF LiveBelow

-----------------------------------------------------------------------------
(* The rounds of check.                                                    *)

\* The factors of two of an iterate become factors of three.
LEMMA RoundUp ==
  ASSUME NEW x \in Nat, NEW k \in Nat, NEW v \in Nat \ {0}, Comes(x, k, v - 1),
         NEW a, a = Alpha(v, Half, LUT_SIZE64), NEW m, m = v \div Pow2[a],
         NEW y, y = m * Pow3[a]
  PROVE  /\ a \in Nat /\ m \in Nat \ {0} /\ y \in Nat \ {0} /\ v <= y
         /\ Comes(x, k + a, y - 1)
         /\ OddStepsIn(x, k + a) = OddStepsIn(x, k) + a
         /\ \A j \in k .. k + a : Iterate[j][x] <= y - 1
<1>1. a \in Nat /\ v = Pow2[a] * m /\ m \in Nat \ {0}
  <2>1. Half \in Nat \ {0} /\ LUT_SIZE64 \in Nat /\ LUT_SIZE64 > 1
    BY WidthsAssumption
  <2> QED
    BY <2>1, AlphaValue
<1>2. Pow3[a] \in Nat \ {0} /\ Pow2[a] \in Nat \ {0} /\ Pow2[a] <= Pow3[a]
  BY <1>1, PowerBounds
<1>3. y \in Nat \ {0} /\ v <= y
  <2>1. y \in Nat \ {0}
    BY <1>1, <1>2, ProductPositive
  <2>2. Pow2[a] * m <= Pow3[a] * m
    BY <1>1, <1>2, ProductOrder
  <2>3. Pow3[a] * m = m * Pow3[a]
    BY <1>1, <1>2, ProductLaws
  <2> QED
    BY <1>1, <2>1, <2>2, <2>3
<1>4. Comes(x, k, (Pow2[a] * m) - 1)
  BY <1>1
<1> QED
  BY <1>1, <1>3, <1>4, ComesRise

\* A round of the unbounded check.
LEMMA RoundWide ==
  ASSUME NEW x \in Nat \ {0}, NEW k \in Nat, NEW y \in Nat \ {0}, Comes(x, k, y)
  PROVE  LET m == OddPart(y)
             a == Ctz(m + 1, m + 1)
             u == (m + 1) \div Pow2[a]
         IN  /\ m < x => \E d \in Nat : /\ d > k /\ Descends(x, d)
                                        /\ OddStepsIn(x, d) = OddStepsIn(x, k)
             /\ m >= x => /\ a \in Nat /\ u \in Nat \ {0}
                          /\ \E l \in Nat : /\ Comes(x, l, (u * Pow3[a]) - 1)
                                            /\ OddStepsIn(x, l) = OddStepsIn(x, k) + a
             /\ m < x \/ m >= x
<1> DEFINE m == OddPart(y)
           a == Ctz(m + 1, m + 1)
           u == (m + 1) \div Pow2[a]
<1>1. m \in Nat \ {0}
  BY OddPartValue
<1>2. CASE m < x
  <2>1. \E d \in Nat : d > k /\ Descends(x, d) /\ OddStepsIn(x, d) = OddStepsIn(x, k)
    BY <1>2, ComesFall
  <2>2. ~(m >= x)
    BY <1>1, <1>2
  <2> QED
    BY <1>2, <2>1, <2>2
<1>3. CASE m >= x
  <2>1. PICK l \in Nat : l >= k /\ Comes(x, l, m) /\ OddStepsIn(x, l) = OddStepsIn(x, k)
    BY <1>3, ComesFall
  <2>2. ~(m < x)
    BY <1>1, <1>3
  <2> HIDE DEF m
  <2>4. a \in Nat /\ m + 1 = Pow2[a] * u /\ u \in Nat \ {0}
    <3>1. m + 1 \in Nat /\ m + 1 # 0
      BY <1>1
    <3>2. a \in 0 .. m + 1 /\ (m + 1) % Pow2[a] = 0
      BY <3>1, CtzValue, Zenon
    <3>3. a \in Nat /\ a \in 0 .. a
      BY <3>1, <3>2
    <3> HIDE DEF a
    <3> QED
      BY <3>1, <3>2, <3>3, LowerFactor
  <2> HIDE DEF a, u
  <2>5. Comes(x, l + a, (u * Pow3[a]) - 1) /\ OddStepsIn(x, l + a) = OddStepsIn(x, l) + a
    <3>1. Comes(x, l, (Pow2[a] * u) - 1)
      <4>1. (Pow2[a] * u) - 1 = m
        BY <1>1, <2>4
      <4> QED
        BY <2>1, <4>1
    <3> QED
      BY <2>4, <3>1, ComesRise
  <2>6. l + a \in Nat
    BY <2>4
  <2>7. \E h \in Nat : Comes(x, h, (u * Pow3[a]) - 1) /\ OddStepsIn(x, h) = OddStepsIn(x, k) + a
    BY <2>1, <2>5, <2>6
  <2> QED
    BY <1>3, <2>2, <2>4, <2>7 DEF a, u, m
<1>4. m < x \/ m >= x
  BY <1>1
<1> QED
  BY <1>2, <1>3, <1>4

-----------------------------------------------------------------------------
(* A thread.                                                               *)

Checking == {"rise", "fall", "count", "counting", "wide"}
Counted  == {"count", "counting", "wide"}

Locals == [pc : Checking \cup {"loop", "done"}, arr : Nat, i : Nat, n0 : Nat, n : Nat,
           alpha : Nat, Salpha : Nat, sum : Nat, loaded : Nat, over : SUBSET Nat]

\* The iterate that a thread's n stands for.
At(r) == IF r.pc = "rise" THEN r.n - 1
         ELSE IF r.pc = "fall" THEN r.n ELSE r.n * Pow3[r.alpha] - 1

\* A number whose check is complete: its trajectory stayed in 128 bits, or the
\* thread has noted that it gave it up.
Complete(m, r) == \E d \in Nat : /\ d > 0 /\ Descends(m, d)
                                 /\ PeakFrom(m, 0) <= UMax(Width) \/ m \in r.over

\* The place of thread t, with e patterns for each: at the arr-th pattern of
\* all, and i of its own are counted.
AtPlace(e, t, r, counts) ==
  /\ r \in Locals
  /\ r.arr >= t * e /\ r.arr <= (t * e) + e
  /\ r.i = (r.arr - (t * e)) + counts

\* Its past, up to this pattern.
Settled(e, t, r) ==
  \A a \in t * e .. r.arr - 1 : IsLive(PatternNumber(a)) => Complete(PatternNumber(a), r)

\* What it has given up are numbers of its own.
OwnOver(e, t, r, inCheck) ==
  /\ IsFiniteSet(r.over)
  /\ \A m \in r.over : \E a \in t * e .. r.arr : m = PatternNumber(a) /\ (a = r.arr => inCheck)

\* Its slot of the checksum: the shares of its past, and o odd steps.
SumIs(e, t, r, o) == \E s \in Nat : /\ Total(r.arr) = Total(t * e) + s
                                    /\ r.sum = Checksum(s + o)

\* The number it checks, after k steps.
Walks(e, t, r, k) ==
  /\ Comes(r.n0, k, At(r))
  /\ IF r.pc \in Counted
       THEN SumIs(e, t, r, OddStepsIn(r.n0, k))
       ELSE /\ SumIs(e, t, r, 0) /\ r.Salpha = OddStepsIn(r.n0, k)
            /\ \A j \in 0 .. k : Iterate[j][r.n0] <= UMax(Width) \/ Iterate[j][r.n0] <= At(r)

InCheck(r) ==
  /\ r.n0 = PatternNumber(r.arr) /\ IsLive(r.n0) /\ r.n > 0
  /\ r.pc = "fall" => r.n <= UMax(Width)
  /\ r.pc \in Counted => r.n0 \in r.over

ThreadInv(e, t, r) ==
  /\ AtPlace(e, t, r, IF r.pc \in Checking THEN 1 ELSE 0)
  /\ r.pc = "done" <=> r.arr = (t * e) + e
  /\ Settled(e, t, r) /\ OwnOver(e, t, r, r.pc \in Counted)
  /\ IF r.pc \in Checking THEN InCheck(r) /\ \E k \in Nat : Walks(e, t, r, k)
                          ELSE SumIs(e, t, r, 0)

\* A pattern is finished with.
Ready(e, t, r) ==
  /\ AtPlace(e, t, r, 1) /\ r.arr < (t * e) + e
  /\ Settled(e, t, r) /\ OwnOver(e, t, r, TRUE)
  /\ IsLive(PatternNumber(r.arr)) => Complete(PatternNumber(r.arr), r)
  /\ SumIs(e, t, r, IF IsLive(PatternNumber(r.arr)) THEN Share(PatternNumber(r.arr)) ELSE 0)

\* A place in a thread's patterns is one of all patterns.
LEMMA PlaceBounds ==
  ASSUME NEW e \in Nat \ {0}, NEW t \in Nat, NEW u \in Nat, t < u, u * e <= Pow2[Target],
         NEW a \in Nat, a >= t * e, a < (t * e) + e
  PROVE  /\ t * e \in Nat /\ a \in 0 .. Pow2[Target] - 1 /\ Pow2[Target] \in Nat
         /\ (a + 1) % e = 0 <=> a + 1 = (t * e) + e
<1>1. Pow2[Target] \in Nat /\ t * e \in Nat /\ (t + 1) * e <= u * e /\ (t + 1) * e = (t * e) + e
      /\ u * e \in Nat /\ t * e = e * t
  <2>1. Pow2[Target] \in Nat
    BY WidthsAssumption, PowerBounds
  <2>2. t + 1 \in Nat /\ t + 1 <= u /\ e * (t + 1) = (e * t) + (e * 1) /\ e * 1 = e
    BY ProductLaws
  <2>3. (t + 1) * e <= u * e /\ (t + 1) * e = e * (t + 1) /\ t * e = e * t
    BY <2>2, ProductOrder, ProductLaws
  <2>4. t * e \in Nat /\ u * e \in Nat
    BY ProductLaws
  <2> QED
    BY <2>1, <2>2, <2>3, <2>4
<1>2. PICK z \in Nat : z = t * e
  BY <1>1
<1>3. PICK r \in Nat : a + 1 = z + r /\ r \in 1 .. e
  <2>1. (a + 1) - z \in 1 .. e /\ a + 1 = z + ((a + 1) - z)
    BY <1>2
  <2> QED
    BY <2>1
<1>4. (a + 1) % e = 0 <=> r = e
  <2>1. CASE r = e
    <3>1. a + 1 = e * (t + 1) + 0
      BY <1>1, <1>2, <1>3, <2>1
    <3>2. t + 1 \in Nat /\ 0 \in 0 .. e - 1
      OBVIOUS
    <3>3. (e * (t + 1) + 0) % e = 0
      BY <3>2, DivisionUnique
    <3> QED
      BY <2>1, <3>1, <3>3
  <2>2. CASE r # e
    <3>1. r \in 0 .. e - 1 /\ a + 1 = e * t + r
      BY <1>1, <1>2, <1>3, <2>2
    <3>2. (e * t + r) % e = r
      BY <3>1, DivisionUnique
    <3> QED
      BY <1>3, <2>2, <3>1, <3>2
  <2> QED
    BY <2>1, <2>2
<1>5. a \in 0 .. Pow2[Target] - 1
  BY <1>1, <1>2
<1> QED
  BY <1>1, <1>2, <1>3, <1>4, <1>5

\* What the block of a thread is worth knowing.
Block(e, t) == e \in Nat \ {0} /\ t \in Nat
               /\ \E u \in Nat : t < u /\ u * e <= Pow2[Target]

\* The next pattern, or the end.
LEMMA NextPatternKeeps ==
  ASSUME NEW t, NEW r, Block(PatternsEach, t), Ready(PatternsEach, t, r)
  PROVE  ThreadInv(PatternsEach, t, NextPattern(r)) /\ NextPattern(r).over = r.over
         /\ NextPattern(r).pc \in {"loop", "done"}
<1> DEFINE e == PatternsEach
           p == NextPattern(r)
           z == t * e
           x == PatternNumber(r.arr)
<1>1. /\ e \in Nat \ {0} /\ t \in Nat /\ z \in Nat
      /\ r \in Locals /\ r.arr \in Nat /\ r.arr \in 0 .. Pow2[Target] - 1
      /\ (r.arr + 1) % e = 0 <=> r.arr + 1 = z + e
      /\ r.arr >= z /\ r.arr < z + e /\ r.i = (r.arr - z) + 1
  <2>1. PICK u \in Nat : t < u /\ u * e <= Pow2[Target]
    BY DEF Block
  <2>2. e \in Nat \ {0} /\ t \in Nat /\ r \in Locals /\ r.arr >= z /\ r.arr < z + e
        /\ r.i = (r.arr - z) + 1
    BY DEF Block, Ready, AtPlace
  <2>3. r.arr \in Nat
    BY <2>2 DEF Locals
  <2> HIDE DEF e
  <2> QED
    BY <2>1, <2>2, <2>3, PlaceBounds
<1>2. /\ p \in Locals /\ p.arr = r.arr + 1 /\ p.i = r.i /\ p.over = r.over /\ p.sum = r.sum
      /\ p.pc = IF r.arr + 1 = z + e THEN "done" ELSE "loop"
  <2>1. p = [r EXCEPT !.arr = r.arr + 1, !.pc = IF r.arr + 1 = z + e THEN "done" ELSE "loop"]
    BY <1>1 DEF NextPattern
  <2>2. r.arr + 1 \in Nat
    BY <1>1
  <2> HIDE DEF p, z, e
  <2> QED
    BY <1>1, <2>1, <2>2 DEF Locals
<1>3. Ready(e, t, r)
  OBVIOUS
<1> HIDE DEF p, e
<1>4. p.pc \notin Checking /\ (p.pc = "done" <=> p.arr = z + e) /\ p.pc \in {"loop", "done"}
  BY <1>2 DEF Checking
<1>5. AtPlace(e, t, p, 0)
  <2>1. p.i = (p.arr - z) + 0 /\ p.arr >= z /\ p.arr <= z + e
    <3> HIDE DEF z
    <3> QED
      BY <1>1, <1>2
  <2> QED
    BY <1>2, <2>1 DEF AtPlace
<1>6. Settled(e, t, p)
  <2>1. ASSUME NEW a \in z .. p.arr - 1 PROVE a \in z .. r.arr - 1 \/ a = r.arr
    <3>1. p.arr - 1 = r.arr
      BY <1>1, <1>2
    <3>2. a \in z .. r.arr
      BY <3>1
    <3> HIDE DEF z
    <3> QED
      BY <1>1, <3>2
  <2>2. \A m : Complete(m, r) => Complete(m, p)
    BY <1>2 DEF Complete
  <2> QED
    BY <1>3, <2>1, <2>2 DEF Settled, Ready
<1>7. OwnOver(e, t, p, p.pc \in Counted)
  <2>1. ASSUME NEW m \in p.over
        PROVE  \E a \in z .. p.arr : m = PatternNumber(a) /\ (a = p.arr => p.pc \in Counted)
    <3>1. PICK a \in z .. r.arr : m = PatternNumber(a)
      BY <1>2, <1>3, <2>1 DEF Ready, OwnOver
    <3>2. a \in z .. p.arr /\ a # p.arr
      <4> HIDE DEF z
      <4> QED
        BY <1>1, <1>2
    <3> QED
      BY <3>1, <3>2
  <2> QED
    BY <1>2, <1>3, <2>1 DEF Ready, OwnOver
<1>8. SumIs(e, t, p, 0)
  <2> DEFINE o == IF IsLive(x) THEN Share(x) ELSE 0
  <2>1. PICK s \in Nat : Total(r.arr) = Total(z) + s /\ r.sum = Checksum(s + o)
    BY <1>3 DEF Ready, SumIs
  <2>2. Total(p.arr) = Total(r.arr) + o /\ r.arr <= Pow2[Target] /\ z <= Pow2[Target]
    <3>1. Pow2[Target] \in Nat
      BY WidthsAssumption, PowerBounds
    <3> HIDE DEF z
    <3> QED
      BY <1>1, <1>2, <3>1, TotalNext
  <2>3. o \in Nat
    BY <1>1, PatternNumberValue, ShareType
  <2>4. Total(z) \in Nat
    BY <1>1, <2>2, TotalNext
  <2> HIDE DEF o, z
  <2>5. s + o \in Nat /\ Total(p.arr) = Total(z) + (s + o) /\ p.sum = Checksum((s + o) + 0)
    <3>1. (s + o) + 0 = s + o
      BY <2>3
    <3>2. \A v \in Nat : (v + s) + o = v + (s + o)
      BY <2>3
    <3> QED
      BY <1>2, <2>1, <2>2, <2>3, <2>4, <3>1, <3>2
  <2> QED
    BY <2>5 DEF SumIs, z
<1>9. ThreadInv(e, t, p)
  <2>1. (IF p.pc \in Checking THEN 1 ELSE 0) = 0
    BY <1>4
  <2> QED
    BY <1>4, <1>5, <1>6, <1>7, <1>8, <2>1 DEF ThreadInv
<1> QED
  BY <1>2, <1>4, <1>9 DEF p, e

\* Thread t goes on with its number, from r to s.
GoesOn(e, t, r, s) ==
  /\ ThreadInv(e, t, r) /\ r.pc \in Checking
  /\ s \in Locals /\ s.pc \in Checking
  /\ s.arr = r.arr /\ s.i = r.i /\ s.n0 = r.n0 /\ s.over = r.over
  /\ s.pc \in Counted <=> r.pc \in Counted
  /\ s.n > 0 /\ (s.pc = "fall" => s.n <= UMax(Width))
  /\ \E k \in Nat : Walks(e, t, s, k)

\* It keeps what is known of it.
LEMMA Carry ==
  ASSUME NEW e, NEW t, NEW r, NEW s, GoesOn(e, t, r, s)
  PROVE  ThreadInv(e, t, s)
<1>1. s.pc # "done" /\ r.pc # "done"
  BY DEF GoesOn, Checking
<1>2. AtPlace(e, t, s, 1) /\ ~(s.arr = (t * e) + e)
  BY <1>1 DEF GoesOn, ThreadInv, AtPlace
<1>3. Settled(e, t, s)
  BY DEF GoesOn, ThreadInv, Settled, Complete
<1>4. OwnOver(e, t, s, s.pc \in Counted)
  BY DEF GoesOn, ThreadInv, OwnOver
<1>5. InCheck(s)
  BY DEF GoesOn, ThreadInv, InCheck
<1> QED
  BY <1>1, <1>2, <1>3, <1>4, <1>5 DEF GoesOn, ThreadInv

\* A thread whose number has come below itself.
LEMMA Checked ==
  ASSUME NEW e, NEW t, NEW r, NEW s, ThreadInv(e, t, r), r.pc \in Checking,
         s \in Locals, s.arr = r.arr, s.i = r.i, s.over = r.over, t * e \in Nat, e \in Nat,
         Complete(r.n0, s), SumIs(e, t, s, Share(r.n0))
  PROVE  Ready(e, t, s)
<1>1. r.pc # "done" /\ r.n0 = PatternNumber(r.arr) /\ IsLive(r.n0)
  BY DEF Checking, ThreadInv, InCheck
<1>2. AtPlace(e, t, s, 1) /\ s.arr < (t * e) + e
  <2>1. AtPlace(e, t, r, 1) /\ ~(r.arr = (t * e) + e)
    BY <1>1 DEF ThreadInv
  <2>2. r.arr \in Nat
    BY <2>1 DEF AtPlace, Locals
  <2>3. s.arr < (t * e) + e
    BY <2>1, <2>2 DEF AtPlace
  <2> QED
    BY <2>1, <2>3 DEF AtPlace
<1>3. Settled(e, t, s)
  BY DEF ThreadInv, Settled, Complete
<1>4. OwnOver(e, t, s, TRUE)
  BY DEF ThreadInv, OwnOver
<1> QED
  BY <1>1, <1>2, <1>3, <1>4 DEF Ready

\* What is known of a thread that checks a number in 128 bits.
LEMMA NarrowFacts ==
  ASSUME NEW e, NEW t, NEW r, Block(e, t), ThreadInv(e, t, r), r.pc \in {"rise", "fall"}
  PROVE  /\ t * e \in Nat /\ e \in Nat /\ r \in Locals /\ r.arr \in Nat /\ r.n \in Nat \ {0}
         /\ r.n0 \in Nat /\ r.n0 >= 3 /\ r.sum \in Nat /\ r.Salpha \in Nat /\ UMax(Width) \in Nat
         /\ \E k \in Nat : Walks(e, t, r, k)
<1>1. r.pc \in Checking
  BY DEF Checking
<1>2. r \in Locals /\ r.n0 = PatternNumber(r.arr) /\ r.n > 0 /\ \E k \in Nat : Walks(e, t, r, k)
  BY <1>1 DEF ThreadInv, AtPlace, InCheck
<1>3. r.arr \in Nat /\ r.n \in Nat /\ r.n0 \in Nat /\ r.sum \in Nat /\ r.Salpha \in Nat
  BY <1>2 DEF Locals
<1>4. r.n0 >= 3
  <2>1. r.n0 >= 4 * Pow3[Target] + 3
    BY <1>2, <1>3, PatternNumberValue
  <2>2. Pow3[Target] \in Nat
    BY WidthsAssumption, PowerBounds
  <2> QED
    BY <1>3, <2>1, <2>2
<1>5. t * e \in Nat /\ e \in Nat
  BY ProductLaws DEF Block
<1>6. UMax(Width) \in Nat
  BY WidthsAssumption, PowerBounds DEF UMax
<1> QED
  BY <1>2, <1>3, <1>4, <1>5, <1>6

\* What the rounds of a thread make of it.
Numbered(r) ==
  LET p == [r EXCEPT !.i = @ + 1]
      x == PatternNumber(r.arr)
  IN  IF IsLive(x) THEN [p EXCEPT !.pc = "rise", !.n0 = x, !.n = x + 1, !.Salpha = 0]
                   ELSE NextPattern(p)

Fits(r) ==
  LET a == Alpha(r.n, Half, LUT_SIZE64)
  IN  r.n \div Pow2[a] <= UMax(Width) \div Pow2[2 * a]

Climbed(r) ==
  LET a == Alpha(r.n, Half, LUT_SIZE64)
      m == r.n \div Pow2[a]
      s == [r EXCEPT !.Salpha = @ + a]
  IN  IF Odd(m * Pow3[a]) THEN [s EXCEPT !.n = m * Pow3[a] - 1, !.pc = "fall"]
                          ELSE [s EXCEPT !.n = m * Pow3[a]]

GaveUp(r) ==
  LET a == Alpha(r.n, Half, LUT_SIZE64)
      m == r.n \div Pow2[a]
  IN  [r EXCEPT !.sum = Checksum(@ + r.Salpha + a), !.n = m,
                !.alpha = a, !.pc = "count", !.over = @ \cup {r.n0}]

Dropped(r) ==
  LET m == OddPart(r.n)
  IN  IF m < r.n0 THEN NextPattern([r EXCEPT !.sum = Checksum(@ + r.Salpha)])
                  ELSE [r EXCEPT !.n = m + 1, !.pc = "rise"]

AtCounter(r, p, c) == [r EXCEPT !.loaded = c, !.pc = p]

Widened(r) ==
  LET m == OddPart(r.n * Pow3[r.alpha] - 1)
      a == Ctz(m + 1, m + 1)
  IN  IF m < r.n0 THEN NextPattern(r)
                  ELSE [r EXCEPT !.alpha = a, !.sum = Checksum(@ + a),
                                 !.n = (m + 1) \div Pow2[a]]

\* NextNumber: the pattern's number is checked if the sieve keeps it.
LEMMA NumberAfter ==
  ASSUME NEW t, NEW r, Block(PatternsEach, t), ThreadInv(PatternsEach, t, r), r.pc = "loop"
  PROVE  /\ ThreadInv(PatternsEach, t, Numbered(r)) /\ Numbered(r).over = r.over
         /\ Numbered(r).pc \in {"loop", "done", "rise"}
<1> DEFINE e == PatternsEach
           z == t * e
           p == [r EXCEPT !.i = @ + 1]
           x == PatternNumber(r.arr)
           s == [p EXCEPT !.pc = "rise", !.n0 = x, !.n = x + 1, !.Salpha = 0]
<1> HIDE DEF e
<1>1. /\ r \in Locals /\ AtPlace(e, t, r, 0) /\ ~(r.arr = z + e)
      /\ Settled(e, t, r) /\ OwnOver(e, t, r, FALSE) /\ SumIs(e, t, r, 0)
  <2>1. r.pc \notin Checking /\ r.pc \notin Counted /\ r.pc # "done"
    BY DEF Checking, Counted
  <2>2. AtPlace(e, t, r, 0)
    BY <2>1 DEF ThreadInv, e
  <2>3. OwnOver(e, t, r, FALSE)
    BY <2>1 DEF ThreadInv, OwnOver, e
  <2> QED
    BY <2>1, <2>2, <2>3 DEF ThreadInv, AtPlace, e
<1>2. /\ r.arr \in Nat /\ r.i \in Nat /\ e \in Nat /\ z \in Nat /\ x \in Nat
      /\ r.arr >= z /\ r.arr < z + e /\ r.i = r.arr - z
  <2>1. r.arr \in Nat /\ r.i \in Nat
    BY <1>1 DEF Locals
  <2>2. e \in Nat /\ z \in Nat
    BY ProductLaws DEF Block, e
  <2>3. x \in Nat
    BY <2>1, PatternNumberValue
  <2>4. r.arr >= z /\ r.arr <= z + e /\ r.i = (r.arr - z) + 0
    BY <1>1 DEF AtPlace
  <2>5. r.arr < z + e /\ r.i = r.arr - z
    <3> HIDE DEF z
    <3> QED
      BY <1>1, <2>1, <2>2, <2>4
  <2> QED
    BY <2>1, <2>2, <2>3, <2>4, <2>5
<1>3. /\ p \in Locals /\ p.arr = r.arr /\ p.i = (r.arr - z) + 1 /\ p.over = r.over
      /\ p.sum = r.sum /\ p.pc = "loop"
  <2>1. p.i = r.i + 1 /\ r.i + 1 \in Nat
    BY <1>1, <1>2 DEF Locals
  <2> QED
    BY <1>1, <1>2, <2>1 DEF Locals
<1> HIDE DEF p
<1>4. CASE IsLive(x)
  <2>1. /\ s \in Locals /\ s.arr = r.arr /\ s.i = (r.arr - z) + 1 /\ s.over = r.over
        /\ s.sum = r.sum /\ s.pc = "rise" /\ s.n0 = x /\ s.n = x + 1 /\ s.Salpha = 0
    <3>1. x + 1 \in Nat /\ "rise" \in Checking
      BY <1>2 DEF Checking
    <3> HIDE DEF x
    <3> QED
      BY <1>2, <1>3, <3>1 DEF Locals
  <2> HIDE DEF s
  <2>2. s.pc \in Checking /\ s.pc \notin Counted /\ s.pc # "done" /\ s.pc # "fall"
    BY <2>1 DEF Checking, Counted
  <2>3. At(s) = x
    <3>1. At(s) = s.n - 1
      BY <2>1 DEF At
    <3>2. (x + 1) - 1 = x
      BY <1>2
    <3> QED
      BY <2>1, <3>1, <3>2
  <2>4. Walks(e, t, s, 0)
    <3>1. Comes(x, 0, x)
      <4>1. Iterate[0][x] = x /\ \A j \in 0 .. 0 : j = 0
        BY <1>2, IterateDefined
      <4> QED
        BY <1>2, <4>1 DEF Comes
    <3>2. SumIs(e, t, s, 0)
      BY <1>1, <2>1 DEF SumIs
    <3>3. OddStepsIn(x, 0) = 0
      BY <1>2, OddStepsNext
    <3>4. \A j \in 0 .. 0 : Iterate[j][x] <= x
      <4>1. Iterate[0][x] = x /\ \A j \in 0 .. 0 : j = 0
        BY <1>2, IterateDefined
      <4> QED
        BY <1>2, <4>1
    <3> QED
      BY <2>1, <2>2, <2>3, <3>1, <3>2, <3>3, <3>4 DEF Walks
  <2>5. AtPlace(e, t, s, 1)
    BY <1>2, <2>1 DEF AtPlace
  <2>6. Settled(e, t, s)
    BY <1>1, <2>1 DEF Settled, Complete
  <2>7. OwnOver(e, t, s, s.pc \in Counted)
    BY <1>1, <2>1 DEF OwnOver
  <2>8. InCheck(s)
    BY <1>2, <1>4, <2>1, <2>2 DEF InCheck
  <2>9. 0 \in Nat /\ ~(s.arr = z + e)
    BY <1>1, <2>1
  <2>10. ThreadInv(e, t, s)
    BY <2>2, <2>4, <2>5, <2>6, <2>7, <2>8, <2>9 DEF ThreadInv
  <2>11. Numbered(r) = s
    BY <1>4 DEF Numbered, s, p
  <2> QED
    BY <2>1, <2>10, <2>11 DEF e
<1>5. CASE ~IsLive(x)
  <2>1. Ready(e, t, p)
    <3>1. AtPlace(e, t, p, 1) /\ p.arr < z + e
      BY <1>2, <1>3 DEF AtPlace
    <3>2. Settled(e, t, p)
      BY <1>1, <1>3 DEF Settled, Complete
    <3>3. OwnOver(e, t, p, TRUE)
      BY <1>1, <1>3 DEF OwnOver
    <3>4. SumIs(e, t, p, 0)
      BY <1>1, <1>3 DEF SumIs
    <3> QED
      BY <1>3, <1>5, <3>1, <3>2, <3>3, <3>4 DEF Ready
  <2> QED
    <3>1. /\ ThreadInv(e, t, NextPattern(p)) /\ NextPattern(p).over = p.over
          /\ NextPattern(p).pc \in {"loop", "done"}
      BY <2>1, NextPatternKeeps DEF e
    <3>2. Numbered(r) = NextPattern(p)
      BY <1>5 DEF Numbered, p
    <3> QED
      BY <1>3, <3>1, <3>2 DEF e
<1> QED
  BY <1>4, <1>5

\* Climb: the factors of two become factors of three, in 128 bits.
LEMMA ClimbAfter ==
  ASSUME NEW e, NEW t, NEW r, Block(e, t), ThreadInv(e, t, r), r.pc = "rise", Fits(r)
  PROVE  /\ ThreadInv(e, t, Climbed(r)) /\ Climbed(r).over = r.over
         /\ Climbed(r).pc \in {"rise", "fall"}
<1>a. PICK a : a = Alpha(r.n, Half, LUT_SIZE64)
  OBVIOUS
<1>m. PICK m, s : m = r.n \div Pow2[a] /\ s = [r EXCEPT !.Salpha = @ + a]
  OBVIOUS
<1>q. PICK q : q = Climbed(r)
  OBVIOUS
<1>r. /\ q = IF Odd(m * Pow3[a]) THEN [s EXCEPT !.n = m * Pow3[a] - 1, !.pc = "fall"]
                                 ELSE [s EXCEPT !.n = m * Pow3[a]]
      /\ m <= UMax(Width) \div Pow2[2 * a]
  BY <1>a, <1>m, <1>q DEF Climbed, Fits
<1> SUFFICES ThreadInv(e, t, q) /\ q.over = r.over /\ q.pc \in {"rise", "fall"}
  BY <1>q
<1> USE <1>a, <1>m, <1>r
<1>1. /\ r \in Locals /\ r.n \in Nat \ {0} /\ r.n0 \in Nat /\ r.n0 >= 3 /\ r.Salpha \in Nat
      /\ UMax(Width) \in Nat /\ \E k \in Nat : Walks(e, t, r, k)
  BY NarrowFacts
<1>2. PICK k \in Nat : Walks(e, t, r, k)
  BY <1>1
<1>3. r.pc \notin Counted /\ At(r) = r.n - 1
  BY DEF Counted, At
<1>4. /\ Comes(r.n0, k, r.n - 1) /\ SumIs(e, t, r, 0) /\ r.Salpha = OddStepsIn(r.n0, k)
      /\ \A j \in 0 .. k : Iterate[j][r.n0] <= UMax(Width) \/ Iterate[j][r.n0] <= r.n - 1
  BY <1>2, <1>3 DEF Walks
<1>5. PICK y : y = m * Pow3[a]
  OBVIOUS
<1>6. /\ a \in Nat /\ m \in Nat \ {0} /\ y \in Nat \ {0} /\ r.n <= y
      /\ Comes(r.n0, k + a, y - 1) /\ OddStepsIn(r.n0, k + a) = OddStepsIn(r.n0, k) + a
      /\ \A j \in k .. k + a : Iterate[j][r.n0] <= y - 1
  <2>1. PICK x \in Nat, v \in Nat \ {0} : x = r.n0 /\ v = r.n
    BY <1>1
  <2> QED
    BY <1>4, <1>5, <2>1, RoundUp
<1>7. y <= UMax(Width)
  BY <1>1, <1>5, <1>6, ProductFits
<1>8. /\ q \in Locals /\ q.arr = r.arr /\ q.i = r.i /\ q.n0 = r.n0 /\ q.over = r.over
      /\ q.sum = r.sum /\ q.Salpha = r.Salpha + a
      /\ \/ Odd(y) /\ q.pc = "fall" /\ q.n = y - 1
         \/ ~Odd(y) /\ q.pc = "rise" /\ q.n = y
  <2>1. r.Salpha + a \in Nat /\ y - 1 \in Nat /\ "fall" \in Checking
    BY <1>1, <1>6 DEF Checking
  <2>2. s \in Locals /\ s.arr = r.arr /\ s.i = r.i /\ s.n0 = r.n0 /\ s.over = r.over
        /\ s.sum = r.sum /\ s.Salpha = r.Salpha + a /\ s.pc = "rise"
    BY <1>1, <2>1 DEF Locals
  <2>3. q = IF Odd(y) THEN [s EXCEPT !.n = y - 1, !.pc = "fall"] ELSE [s EXCEPT !.n = y]
    BY <1>5
  <2>4. CASE Odd(y)
    <3>1. q = [s EXCEPT !.n = y - 1, !.pc = "fall"]
      BY <2>3, <2>4
    <3> QED
      BY <2>1, <2>2, <2>4, <3>1 DEF Locals
  <2>5. CASE ~Odd(y)
    <3>1. q = [s EXCEPT !.n = y]
      BY <2>3, <2>5
    <3> QED
      BY <1>6, <2>2, <2>5, <3>1 DEF Locals
  <2> QED
    BY <2>4, <2>5
<1>9. q.pc \notin Counted /\ q.pc \in Checking /\ At(q) = y - 1 /\ q.pc \in {"rise", "fall"}
  BY <1>8 DEF Counted, Checking, At
<1>10. q.n > 0 /\ (q.pc = "fall" => q.n <= UMax(Width))
  <2>1. Odd(y) => y - 1 > 0
    <3>1. y - 1 >= 2
      <4>1. k + a \in 0 .. k + a /\ k + a \in Nat
        BY <1>6
      <4>2. y - 1 >= r.n0
        BY <1>6, <4>1 DEF Comes
      <4> QED
        BY <1>1, <1>6, <4>2
    <3> QED
      BY <1>6, <3>1
  <2> QED
    BY <1>1, <1>6, <1>7, <1>8, <2>1
<1>11. Walks(e, t, q, k + a)
  <2>1. SumIs(e, t, q, 0)
    BY <1>4, <1>8 DEF SumIs
  <2>2. ASSUME NEW j \in 0 .. k + a
        PROVE  Iterate[j][r.n0] <= UMax(Width) \/ Iterate[j][r.n0] <= y - 1
    <3>1. j \in 0 .. k \/ j \in k .. k + a
      BY <1>6
    <3>2. CASE j \in 0 .. k
      <4>1. PICK v \in Nat : v = Iterate[j][r.n0]
        BY <1>1, <3>2, IterateDefined
      <4>2. v <= UMax(Width) \/ v <= r.n - 1
        BY <1>4, <3>2, <4>1
      <4> QED
        BY <1>1, <1>6, <4>1, <4>2
    <3>3. CASE j \in k .. k + a
      BY <1>6, <3>3
    <3> QED
      BY <3>1, <3>2, <3>3
  <2> QED
    BY <1>4, <1>6, <1>8, <1>9, <2>1, <2>2 DEF Walks
<1>12. k + a \in Nat /\ r.pc \in Checking
  BY <1>6 DEF Checking
<1> QED
  <2>1. \E l \in Nat : Walks(e, t, q, l)
    BY <1>11, <1>12
  <2>2. q.pc \in Counted <=> r.pc \in Counted
    BY <1>3, <1>9
  <2>3. /\ q \in Locals /\ q.arr = r.arr /\ q.i = r.i /\ q.n0 = r.n0 /\ q.over = r.over
    BY <1>8
  <2>4. GoesOn(e, t, r, q)
    BY <1>9, <1>10, <1>12, <2>1, <2>2, <2>3 DEF GoesOn
  <2>5. ThreadInv(e, t, q)
    BY <2>4, Carry
  <2> QED
    BY <1>9, <2>3, <2>5

\* What is known of a thread that has given up its number.
GaveUpRight(e, t, r) ==
  /\ ThreadInv(e, t, GaveUp(r)) /\ GaveUp(r).over = r.over \cup {r.n0}
  /\ GaveUp(r).pc = "count"
  /\ r.n0 = PatternNumber(r.arr) /\ r.arr \in Nat /\ r.arr >= t * e /\ r.arr < (t * e) + e
  /\ \A x \in r.over : \E b \in t * e .. r.arr - 1 : x = PatternNumber(b)

\* GiveUp: what is added up so far, and the number becomes one of those given up.
LEMMA GiveUpAfter ==
  ASSUME NEW e, NEW t, NEW r, Block(e, t), ThreadInv(e, t, r), r.pc = "rise"
  PROVE  GaveUpRight(e, t, r)
<1>a. PICK a : a = Alpha(r.n, Half, LUT_SIZE64)
  OBVIOUS
<1>m. PICK m : m = r.n \div Pow2[a]
  OBVIOUS
<1>q. PICK q : q = GaveUp(r)
  OBVIOUS
<1>r. q = [r EXCEPT !.sum = Checksum(@ + r.Salpha + a), !.n = m,
                    !.alpha = a, !.pc = "count", !.over = @ \cup {r.n0}]
  BY <1>a, <1>m, <1>q DEF GaveUp
<1> SUFFICES
         /\ ThreadInv(e, t, q) /\ q.over = r.over \cup {r.n0} /\ q.pc = "count"
         /\ r.n0 = PatternNumber(r.arr) /\ r.arr \in Nat /\ r.arr >= t * e /\ r.arr < (t * e) + e
         /\ \A x \in r.over : \E b \in t * e .. r.arr - 1 : x = PatternNumber(b)
  BY <1>q DEF GaveUpRight
<1> USE <1>a, <1>m, <1>r
<1>1. /\ r \in Locals /\ r.n \in Nat \ {0} /\ r.n0 \in Nat /\ r.n0 >= 3 /\ r.Salpha \in Nat
      /\ UMax(Width) \in Nat /\ r.arr \in Nat /\ r.sum \in Nat /\ t * e \in Nat /\ e \in Nat
      /\ \E k \in Nat : Walks(e, t, r, k)
  BY NarrowFacts
<1>2. PICK k \in Nat : Walks(e, t, r, k)
  BY <1>1
<1>3. r.pc \notin Counted /\ At(r) = r.n - 1 /\ r.pc \in Checking /\ r.pc # "done"
  BY DEF Counted, At, Checking
<1>4. /\ Comes(r.n0, k, r.n - 1) /\ SumIs(e, t, r, 0) /\ r.Salpha = OddStepsIn(r.n0, k)
  BY <1>2, <1>3 DEF Walks
<1>5. PICK y : y = m * Pow3[a]
  OBVIOUS
<1>6. /\ a \in Nat /\ m \in Nat \ {0}
      /\ Comes(r.n0, k + a, y - 1) /\ OddStepsIn(r.n0, k + a) = OddStepsIn(r.n0, k) + a
  <2>1. PICK x \in Nat, v \in Nat \ {0} : x = r.n0 /\ v = r.n
    BY <1>1
  <2> QED
    BY <1>4, <1>5, <2>1, RoundUp
<1>7. r.n0 = PatternNumber(r.arr) /\ IsLive(r.n0) /\ AtPlace(e, t, r, 1) /\ r.arr < (t * e) + e
      /\ r.arr >= t * e
  <2>1. r.n0 = PatternNumber(r.arr) /\ IsLive(r.n0) /\ AtPlace(e, t, r, 1) /\ ~(r.arr = (t * e) + e)
    BY <1>3 DEF ThreadInv, InCheck
  <2> QED
    BY <1>1, <2>1 DEF AtPlace
<1>8. /\ q \in Locals /\ q.arr = r.arr /\ q.i = r.i /\ q.n0 = r.n0 /\ q.over = r.over \cup {r.n0}
      /\ q.sum = Checksum((r.sum + r.Salpha) + a) /\ q.alpha = a /\ q.n = m /\ q.pc = "count"
  <2>1. Checksum((r.sum + r.Salpha) + a) \in Nat
    <3>1. (r.sum + r.Salpha) + a \in Nat
      BY <1>1, <1>6
    <3> QED
      BY <3>1, ChecksumValue
  <2>2. "count" \in Checking /\ r.over \cup {r.n0} \in SUBSET Nat
    BY <1>1 DEF Checking, Locals
  <2> QED
    BY <1>1, <1>6, <2>1, <2>2 DEF Locals
<1>9. q.pc \in Counted /\ q.pc \in Checking /\ At(q) = y - 1 /\ q.pc # "done" /\ q.pc # "fall"
  BY <1>5, <1>8 DEF Counted, Checking, At
<1>10. SumIs(e, t, q, OddStepsIn(q.n0, k + a))
  <2>1. PICK h \in Nat : Total(r.arr) = Total(t * e) + h /\ r.sum = Checksum(h + 0)
    BY <1>4 DEF SumIs
  <2>2. Checksum(r.sum + (r.Salpha + a)) = Checksum(h + (r.Salpha + a))
    <3>1. r.sum = Checksum(h) /\ r.Salpha + a \in Nat
      BY <1>1, <1>6, <2>1
    <3> QED
      BY <3>1, ChecksumValue
  <2>3. (r.sum + r.Salpha) + a = r.sum + (r.Salpha + a)
    BY <1>1, <1>6
  <2>4. OddStepsIn(q.n0, k + a) = r.Salpha + a
    BY <1>4, <1>6, <1>8
  <2> QED
    BY <1>8, <2>1, <2>2, <2>3, <2>4 DEF SumIs
<1>11. Walks(e, t, q, k + a) /\ k + a \in Nat
  BY <1>6, <1>8, <1>9, <1>10 DEF Walks
<1>12. ASSUME NEW x \in r.over PROVE \E b \in t * e .. r.arr - 1 : x = PatternNumber(b)
  <2>1. PICK b \in t * e .. r.arr : x = PatternNumber(b) /\ b # r.arr
    BY <1>3, <1>12 DEF ThreadInv, OwnOver
  <2>2. b \in t * e .. r.arr - 1
    BY <1>1, <2>1
  <2> QED
    BY <2>1, <2>2
<1>13. OwnOver(e, t, q, q.pc \in Counted)
  <2>1. IsFiniteSet(q.over)
    BY <1>8, FS_AddElement DEF ThreadInv, OwnOver
  <2>2. ASSUME NEW x \in q.over PROVE \E b \in t * e .. q.arr : x = PatternNumber(b)
    <3>1. CASE x \in r.over
      BY <1>8, <3>1 DEF ThreadInv, OwnOver
    <3>2. CASE x = r.n0
      <4>1. r.arr \in t * e .. r.arr
        BY <1>1, <1>7
      <4> QED
        BY <1>7, <1>8, <3>2, <4>1
    <3> QED
      BY <1>8, <3>1, <3>2
  <2> QED
    BY <1>9, <2>1, <2>2 DEF OwnOver
<1>14. Settled(e, t, q)
  <2>1. \A x : Complete(x, r) => Complete(x, q)
    BY <1>8 DEF Complete
  <2> QED
    BY <1>8, <2>1 DEF ThreadInv, Settled
<1>15. InCheck(q) /\ AtPlace(e, t, q, 1) /\ ~(q.arr = (t * e) + e)
  <2>1. AtPlace(e, t, q, 1)
    BY <1>7, <1>8 DEF AtPlace
  <2>2. InCheck(q)
    BY <1>6, <1>7, <1>8, <1>9 DEF InCheck
  <2>3. ~(q.arr = (t * e) + e)
    BY <1>3, <1>8 DEF ThreadInv
  <2> QED
    BY <2>1, <2>2, <2>3
<1>16. ThreadInv(e, t, q)
  BY <1>9, <1>11, <1>13, <1>14, <1>15 DEF ThreadInv
<1> QED
  BY <1>1, <1>7, <1>8, <1>12, <1>16

\* Drop: the number is below itself, or a new round begins.
LEMMA DropAfter ==
  ASSUME NEW t, NEW r, Block(PatternsEach, t), ThreadInv(PatternsEach, t, r), r.pc = "fall"
  PROVE  /\ ThreadInv(PatternsEach, t, Dropped(r)) /\ Dropped(r).over = r.over
         /\ Dropped(r).pc \in {"loop", "done", "rise"}
<1>m. PICK m : m = OddPart(r.n)
  OBVIOUS
<1>q. PICK q : q = Dropped(r)
  OBVIOUS
<1>r. q = IF m < r.n0 THEN NextPattern([r EXCEPT !.sum = Checksum(@ + r.Salpha)])
                      ELSE [r EXCEPT !.n = m + 1, !.pc = "rise"]
  BY <1>m, <1>q DEF Dropped
<1> SUFFICES ThreadInv(PatternsEach, t, q) /\ q.over = r.over /\ q.pc \in {"loop", "done", "rise"}
  BY <1>q
<1> USE <1>m, <1>r
<1> DEFINE e == PatternsEach
           p == [r EXCEPT !.sum = Checksum(@ + r.Salpha)]
<1>0. q = IF m < r.n0 THEN NextPattern(p) ELSE [r EXCEPT !.n = m + 1, !.pc = "rise"]
  OBVIOUS
<1> HIDE DEF e
<1>1. /\ r \in Locals /\ r.n \in Nat \ {0} /\ r.n0 \in Nat /\ r.n0 >= 3 /\ r.Salpha \in Nat
      /\ UMax(Width) \in Nat /\ r.sum \in Nat /\ t * e \in Nat /\ e \in Nat
      /\ \E k \in Nat : Walks(e, t, r, k)
  BY NarrowFacts DEF e
<1>2. PICK k \in Nat : Walks(e, t, r, k)
  BY <1>1
<1>3. r.pc \notin Counted /\ At(r) = r.n /\ r.pc \in Checking
  BY DEF Counted, At, Checking
<1>4. /\ Comes(r.n0, k, r.n) /\ SumIs(e, t, r, 0) /\ r.Salpha = OddStepsIn(r.n0, k)
      /\ \A j \in 0 .. k : Iterate[j][r.n0] <= UMax(Width) \/ Iterate[j][r.n0] <= r.n
  BY <1>2, <1>3 DEF Walks
<1>5. r.n <= UMax(Width)
  BY <1>3 DEF ThreadInv, InCheck
<1>6. m \in Nat \ {0}
  BY <1>1, OddPartValue
<1>7. PICK x \in Nat, v \in Nat \ {0} : x = r.n0 /\ v = r.n
  BY <1>1
<1>8. ASSUME NEW j \in 0 .. k PROVE Iterate[j][x] <= UMax(Width)
  <2>1. PICK w \in Nat : w = Iterate[j][x]
    BY <1>7, IterateDefined
  <2>2. w <= UMax(Width) \/ w <= v
    BY <1>4, <1>7, <2>1
  <2> QED
    BY <1>1, <1>5, <1>7, <2>1, <2>2
<1>9. CASE m < x
  <2>1. PICK d \in Nat : /\ d > k /\ Descends(x, d) /\ OddStepsIn(x, d) = OddStepsIn(x, k)
                         /\ \A j \in k .. d - 1 : Iterate[j][x] <= v
    BY <1>4, <1>7, <1>9, ComesFall
  <2>2. d > 0 /\ Share(x) = r.Salpha
    BY <1>4, <1>7, <2>1, ShareType
  <2>3. PeakFrom(x, 0) <= UMax(Width)
    <3>1. PICK j \in 0 .. d - 1 : PeakFrom(x, 0) = Iterate[j][x]
      BY <2>1, <2>2, PeakOfTested
    <3>2. j \in 0 .. k \/ j \in k .. d - 1
      BY <2>1
    <3>3. PICK w \in Nat : w = Iterate[j][x]
      BY IterateDefined
    <3>4. w <= UMax(Width) \/ w <= v
      BY <1>8, <2>1, <3>2, <3>3
    <3> QED
      BY <1>1, <1>5, <1>7, <3>1, <3>3, <3>4
  <2>4. /\ p \in Locals /\ p.arr = r.arr /\ p.i = r.i /\ p.over = r.over
        /\ p.sum = Checksum(r.sum + r.Salpha)
    <3>1. Checksum(r.sum + r.Salpha) \in Nat
      <4>1. r.sum + r.Salpha \in Nat
        BY <1>1
      <4> QED
        BY <4>1, ChecksumValue
    <3> QED
      BY <1>1, <3>1 DEF Locals
  <2> HIDE DEF p
  <2>5. Complete(r.n0, p)
    BY <1>7, <2>1, <2>2, <2>3 DEF Complete
  <2>6. SumIs(e, t, p, Share(r.n0))
    <3>1. PICK h \in Nat : Total(r.arr) = Total(t * e) + h /\ r.sum = Checksum(h + 0)
      BY <1>4 DEF SumIs
    <3>2. r.sum = Checksum(h)
      BY <3>1
    <3>3. Checksum(r.sum + r.Salpha) = Checksum(h + r.Salpha)
      BY <1>1, <3>2, ChecksumValue
    <3> QED
      BY <1>7, <2>2, <2>4, <3>1, <3>3 DEF SumIs
  <2>7. Ready(e, t, p)
    BY <1>1, <1>3, <2>4, <2>5, <2>6, Checked DEF e
  <2>8. /\ ThreadInv(e, t, NextPattern(p)) /\ NextPattern(p).over = p.over
        /\ NextPattern(p).pc \in {"loop", "done"}
    BY <2>7, NextPatternKeeps DEF e
  <2>9. q = NextPattern(p)
    BY <1>0, <1>7, <1>9
  <2> QED
    BY <2>4, <2>8, <2>9 DEF e
<1>10. CASE m >= x
  <2>1. PICK l \in Nat : /\ l >= k /\ Comes(x, l, m) /\ OddStepsIn(x, l) = OddStepsIn(x, k)
                         /\ \A j \in k .. l : Iterate[j][x] <= v
    BY <1>4, <1>7, <1>10, ComesFall
  <2>2. q = [r EXCEPT !.n = m + 1, !.pc = "rise"]
    BY <1>0, <1>6, <1>7, <1>10
  <2>3. /\ q \in Locals /\ q.arr = r.arr /\ q.i = r.i /\ q.n0 = r.n0 /\ q.over = r.over
        /\ q.sum = r.sum /\ q.Salpha = r.Salpha /\ q.n = m + 1 /\ q.pc = "rise"
    <3>1. m + 1 \in Nat /\ "rise" \in Checking
      BY <1>6 DEF Checking
    <3> QED
      BY <1>1, <2>2, <3>1 DEF Locals
  <2>4. q.pc \notin Counted /\ q.pc \in Checking /\ q.pc # "fall" /\ At(q) = m
    <3>1. (m + 1) - 1 = m
      BY <1>6
    <3> QED
      BY <2>3, <3>1 DEF Counted, Checking, At
  <2>5. Walks(e, t, q, l)
    <3>1. SumIs(e, t, q, 0)
      BY <1>4, <2>3 DEF SumIs
    <3>2. ASSUME NEW j \in 0 .. l PROVE Iterate[j][x] <= UMax(Width)
      <4>1. j \in 0 .. k \/ j \in k .. l
        BY <2>1
      <4>2. PICK w \in Nat : w = Iterate[j][x]
        BY IterateDefined
      <4>3. w <= UMax(Width) \/ w <= v
        BY <1>8, <2>1, <4>1, <4>2
      <4> QED
        BY <1>1, <1>5, <1>7, <4>2, <4>3
    <3> QED
      BY <1>4, <1>7, <2>1, <2>3, <2>4, <3>1, <3>2 DEF Walks
  <2>6. q.n > 0
    BY <1>6, <2>3
  <2>7. GoesOn(e, t, r, q)
    BY <1>3, <2>3, <2>4, <2>5, <2>6 DEF GoesOn, e
  <2> QED
    BY <2>3, <2>7, Carry DEF e
<1>11. m < x \/ m >= x
  BY <1>6
<1> QED
  BY <1>9, <1>10, <1>11

\* A thread on its way to the counter, and past it.
LEMMA CountAfter ==
  ASSUME NEW e, NEW t, NEW r, ThreadInv(e, t, r), r.pc \in Counted,
         NEW p \in Counted, NEW c \in Nat
  PROVE  /\ ThreadInv(e, t, AtCounter(r, p, c)) /\ AtCounter(r, p, c).over = r.over
         /\ AtCounter(r, p, c).pc = p /\ AtCounter(r, p, c).loaded = c
<1>q. PICK q : q = AtCounter(r, p, c)
  OBVIOUS
<1>r. q = [r EXCEPT !.loaded = c, !.pc = p]
  BY <1>q DEF AtCounter
<1> SUFFICES ThreadInv(e, t, q) /\ q.over = r.over /\ q.pc = p /\ q.loaded = c
  BY <1>q
<1> USE <1>r
<1>1. r \in Locals /\ r.pc \in Checking /\ p \in Checking /\ p # "fall" /\ r.pc # "rise"
      /\ r.pc # "fall" /\ p # "rise"
  BY DEF ThreadInv, AtPlace, Counted, Checking
<1>2. /\ q \in Locals /\ q.arr = r.arr /\ q.i = r.i /\ q.n0 = r.n0 /\ q.over = r.over
      /\ q.sum = r.sum /\ q.alpha = r.alpha /\ q.n = r.n /\ q.pc = p /\ q.loaded = c
  BY <1>1 DEF Locals
<1>3. At(q) = At(r)
  BY <1>1, <1>2 DEF At
<1>4. \A k \in Nat : Walks(e, t, r, k) => Walks(e, t, q, k)
  BY <1>2, <1>3 DEF Walks, SumIs
<1>5. r.n > 0 /\ \E k \in Nat : Walks(e, t, r, k)
  BY <1>1 DEF ThreadInv, InCheck
<1>6. GoesOn(e, t, r, q)
  BY <1>1, <1>2, <1>4, <1>5 DEF GoesOn
<1> QED
  BY <1>2, <1>6, Carry

\* Wide: the same with numbers that have no bound.
LEMMA WideAfter ==
  ASSUME NEW t, NEW r, Block(PatternsEach, t), ThreadInv(PatternsEach, t, r), r.pc = "wide"
  PROVE  /\ ThreadInv(PatternsEach, t, Widened(r)) /\ Widened(r).over = r.over
         /\ Widened(r).pc \in {"loop", "done", "wide"}
<1>m. PICK m : m = OddPart(r.n * Pow3[r.alpha] - 1)
  OBVIOUS
<1>a. PICK a : a = Ctz(m + 1, m + 1)
  OBVIOUS
<1>q. PICK q : q = Widened(r)
  OBVIOUS
<1>r. q = IF m < r.n0 THEN NextPattern(r)
                      ELSE [r EXCEPT !.alpha = a, !.sum = Checksum(@ + a),
                                     !.n = (m + 1) \div Pow2[a]]
  BY <1>m, <1>a, <1>q DEF Widened
<1> SUFFICES ThreadInv(PatternsEach, t, q) /\ q.over = r.over /\ q.pc \in {"loop", "done", "wide"}
  BY <1>q
<1> DEFINE e == PatternsEach
<1> HIDE DEF e
<1>1. /\ r \in Locals /\ r.pc \in Checking /\ r.pc \in Counted
      /\ r.n0 = PatternNumber(r.arr) /\ r.n0 \in r.over
      /\ At(r) = r.n * Pow3[r.alpha] - 1
  BY DEF ThreadInv, AtPlace, InCheck, Counted, Checking, At
<1>2. r.arr \in Nat /\ r.n0 \in Nat \ {0} /\ r.sum \in Nat
  <2>1. r.arr \in Nat /\ r.n0 \in Nat /\ r.sum \in Nat
    BY <1>1 DEF Locals
  <2>2. r.n0 >= 4 * Pow3[Target] + 3 /\ Pow3[Target] \in Nat
    BY <1>1, <2>1, PatternNumberValue, WidthsAssumption, PowerBounds
  <2> QED
    BY <2>1, <2>2
<1>3. PICK k \in Nat : Walks(e, t, r, k)
  BY <1>1 DEF ThreadInv, e
<1>4. Comes(r.n0, k, At(r)) /\ SumIs(e, t, r, OddStepsIn(r.n0, k))
  BY <1>1, <1>3 DEF Walks
<1>5. PICK x \in Nat \ {0}, y \in {At(r)} : x = r.n0 /\ y = At(r)
  BY <1>2
<1>6. y \in Nat \ {0}
  <2>1. k \in 0 .. k
    OBVIOUS
  <2>2. Iterate[k][x] = y /\ Iterate[k][x] >= x /\ Iterate[k][x] \in Nat
    BY <1>4, <1>5, <2>1, IterateDefined DEF Comes
  <2> QED
    BY <2>2
<1>7. m = OddPart(y) /\ Comes(x, k, y)
  BY <1>m, <1>1, <1>4, <1>5
<1>8. PICK u : u = (m + 1) \div Pow2[a]
  OBVIOUS
<1>9. /\ m < x => \E d \in Nat : d > k /\ Descends(x, d) /\ OddStepsIn(x, d) = OddStepsIn(x, k)
      /\ m >= x => /\ a \in Nat /\ u \in Nat \ {0}
                   /\ \E l \in Nat : /\ Comes(x, l, (u * Pow3[a]) - 1)
                                     /\ OddStepsIn(x, l) = OddStepsIn(x, k) + a
      /\ m < x \/ m >= x
  BY <1>a, <1>6, <1>7, <1>8, RoundWide
<1>10. CASE m < x
  <2>1. PICK d \in Nat : d > k /\ Descends(x, d) /\ OddStepsIn(x, d) = OddStepsIn(x, k)
    BY <1>9, <1>10
  <2>2. d > 0 /\ Share(x) = OddStepsIn(x, k)
    BY <2>1, ShareType
  <2>3. Complete(r.n0, r)
    BY <1>1, <1>5, <2>1, <2>2 DEF Complete
  <2>4. SumIs(e, t, r, Share(r.n0))
    BY <1>4, <1>5, <2>2
  <2>5. t * e \in Nat /\ e \in Nat
    BY ProductLaws DEF Block, e
  <2>6. Ready(e, t, r)
    BY <1>1, <2>3, <2>4, <2>5, Checked DEF e
  <2>7. /\ ThreadInv(e, t, NextPattern(r)) /\ NextPattern(r).over = r.over
        /\ NextPattern(r).pc \in {"loop", "done"}
    BY <2>6, NextPatternKeeps DEF e
  <2>8. q = NextPattern(r)
    BY <1>r, <1>5, <1>10
  <2> QED
    BY <2>7, <2>8 DEF e
<1>11. CASE m >= x
  <2>1. PICK l \in Nat : /\ Comes(x, l, (u * Pow3[a]) - 1)
                         /\ OddStepsIn(x, l) = OddStepsIn(x, k) + a
    BY <1>9, <1>11
  <2>2. a \in Nat /\ u \in Nat \ {0} /\ OddStepsIn(x, k) \in Nat /\ Checksum(r.sum + a) \in Nat
    <3>1. a \in Nat /\ u \in Nat \ {0}
      BY <1>9, <1>11
    <3>2. r.sum + a \in Nat
      BY <1>2, <3>1
    <3> QED
      BY <3>1, <3>2, ChecksumValue, OddStepsNext
  <2>3. ~(m < r.n0)
    <3>1. m \in Nat
      BY <1>6, <1>7, OddPartValue
    <3> QED
      BY <1>5, <1>11, <3>1
  <2>4. q = [r EXCEPT !.alpha = a, !.sum = Checksum(r.sum + a), !.n = u]
    BY <1>r, <1>8, <2>3
  <2>5. /\ q \in Locals /\ q.arr = r.arr /\ q.i = r.i /\ q.n0 = r.n0 /\ q.over = r.over
        /\ q.sum = Checksum(r.sum + a) /\ q.alpha = a /\ q.n = u /\ q.pc = "wide"
    BY <1>1, <2>2, <2>4 DEF Locals
  <2>6. q.pc \in Counted /\ q.pc \in Checking /\ q.pc # "fall" /\ At(q) = (u * Pow3[a]) - 1
    BY <2>5 DEF Counted, Checking, At
  <2>7. SumIs(e, t, q, OddStepsIn(q.n0, l))
    <3>1. PICK h \in Nat : Total(r.arr) = Total(t * e) + h /\ r.sum = Checksum(h + OddStepsIn(x, k))
      BY <1>4, <1>5 DEF SumIs
    <3>2. PICK o \in Nat : o = OddStepsIn(x, k)
      BY <2>2
    <3>3. Checksum(r.sum + a) = Checksum(h + (o + a))
      <4>1. h + o \in Nat /\ (h + o) + a = h + (o + a)
        BY <2>2
      <4> QED
        BY <2>2, <3>1, <3>2, <4>1, ChecksumValue
    <3> QED
      BY <1>5, <2>1, <2>5, <3>1, <3>2, <3>3 DEF SumIs
  <2>8. Walks(e, t, q, l)
    BY <1>5, <2>1, <2>5, <2>6, <2>7 DEF Walks
  <2>9. q.n > 0
    BY <2>2, <2>5
  <2>10. GoesOn(e, t, r, q)
    BY <1>1, <2>5, <2>6, <2>8, <2>9 DEF GoesOn, e
  <2> QED
    BY <2>5, <2>10, Carry DEF e
<1> QED
  BY <1>9, <1>10, <1>11

-----------------------------------------------------------------------------
(* Sums over the threads.                                                  *)

\* Sums of equal numbers.
LEMMA EqualSum ==
  ASSUME NEW w \in Nat, NEW g \in [0 .. w - 1 -> Nat], NEW e \in Nat,
         \A u \in 0 .. w - 1 : g[u] = e
  PROVE  SumFunction([t \in 0 .. w - 1 |-> g[t]]) = w * e
<1> DEFINE G(u) == SumFunction([t \in 0 .. u - 1 |-> g[t]])
           P == {u \in Nat : u <= w => G(u) = u * e}
<1>1. G(0) = 0
  BY RangeSum
<1>2. \A u \in 0 .. w - 1 : G(u) \in Nat /\ G(u + 1) = G(u) + g[u]
  BY RangeSum
<1> HIDE DEF G
<1>3. 0 \in P
  BY <1>1
<1>4. ASSUME NEW u \in Nat, u \in P PROVE u + 1 \in P
  <2> SUFFICES ASSUME u + 1 <= w PROVE G(u + 1) = (u + 1) * e
    OBVIOUS
  <2>1. u \in 0 .. w - 1 /\ u <= w
    OBVIOUS
  <2>2. G(u) = u * e /\ G(u + 1) = G(u) + e
    BY <1>2, <1>4, <2>1
  <2>3. (u + 1) * e = (u * e) + e
    OBVIOUS
  <2> QED
    BY <2>2, <2>3
<1>5. w \in P
  <2> HIDE DEF P
  <2> QED
    BY <1>3, <1>4, SetInduction
<1> QED
  BY <1>5 DEF G

-----------------------------------------------------------------------------
(* All threads.                                                            *)

\* As many threads as patterns are shared among, or fewer.
Shape ==
  /\ threads \in Nat /\ PatternsEach \in Nat \ {0} /\ threads * PatternsEach = Pow2[Target]
  /\ team \in 1 .. threads /\ gmp \in BOOLEAN
  /\ thr \in [Tid -> Locals]
  /\ region \in {"parallel", "joined", "aborted"}

AllThreads == \A t \in Tid : ThreadInv(PatternsEach, t, thr[t])

\* The threads on their way to the counter, or at it.
Pending == {t \in Tid : thr[t].pc \in {"count", "counting"}}

\* The counter lacks those that are on their way to it, and the one at it has
\* read its value.
CountInv ==
  /\ counter \in Nat /\ IsFiniteSet(GivenUp)
  /\ inside = {t \in Tid : thr[t].pc = "counting"}
  /\ \A t \in inside : inside = {t} /\ thr[t].loaded = counter
  /\ counter + Cardinality(Pending) = Cardinality(GivenUp)

RegionInv ==
  /\ region = "joined" =>
       /\ team = threads /\ \A t \in Tid : thr[t].pc = "done"
       /\ reduced.checksum = Checksum(SumFunction([t \in Tid |-> thr[t].sum]))
  /\ region = "aborted" => ~(gmp /\ team = threads)

ThreadsInv == Shape /\ AllThreads /\ CountInv /\ RegionInv

\* The block of a thread is one of all patterns.
LEMMA ThreadBlock ==
  Shape => \A t \in Tid : Block(PatternsEach, t)
<1> SUFFICES ASSUME Shape, NEW t \in Tid PROVE Block(PatternsEach, t)
  OBVIOUS
<1>1. /\ PatternsEach \in Nat \ {0} /\ threads \in Nat /\ team \in 1 .. threads
      /\ threads * PatternsEach = Pow2[Target]
  BY DEF Shape
<1>2. t \in Nat /\ t < threads
  BY <1>1 DEF Tid
<1>3. Pow2[Target] \in Nat
  BY WidthsAssumption, PowerBounds
<1> HIDE DEF PatternsEach
<1> QED
  BY <1>1, <1>2, <1>3 DEF Block

\* Two threads share no pattern.
LEMMA BlocksDisjoint ==
  ASSUME NEW e \in Nat \ {0}, NEW t \in Nat, NEW v \in Nat, NEW a \in Nat,
         a >= t * e, a < (t * e) + e, a >= v * e, a < (v * e) + e
  PROVE  t = v
<1>1. t * e \in Nat /\ v * e \in Nat /\ t * e = e * t /\ v * e = e * v
  BY ProductLaws
<1>2. PICK y \in Nat, z \in Nat : y = t * e /\ z = v * e
  BY <1>1
<1>3. PICK r \in 0 .. e - 1, s \in 0 .. e - 1 : a = y + r /\ a = z + s
  <2>1. a - y \in 0 .. e - 1 /\ a - z \in 0 .. e - 1 /\ a = y + (a - y) /\ a = z + (a - z)
    BY <1>2
  <2> QED
    BY <2>1
<1>4. (e * t + r) \div e = t /\ (e * v + s) \div e = v
  BY DivisionUnique
<1>5. e * t + r = a /\ e * v + s = a
  BY <1>1, <1>2, <1>3
<1> QED
  BY <1>4, <1>5

\* The start.
LEMMA InitThreads == ThreadsInit => ThreadsInv
<1> SUFFICES ASSUME ThreadsInit PROVE ThreadsInv
  OBVIOUS
<1> DEFINE e == PatternsEach
<1>1. PICK k \in 0 .. Target : threads = Pow2[k]
  BY ThreadsAssumption DEF ThreadsInit
<1>2. /\ threads \in Nat /\ e \in Nat \ {0} /\ threads * e = Pow2[Target]
  <2>1. Target \in Nat /\ k \in Nat /\ k <= Target
    BY <1>1, WidthsAssumption
  <2>2. Target - k \in Nat /\ Pow2[Target] = Pow2[k] * Pow2[Target - k]
    BY <2>1, PowerSplit
  <2>3. Pow2[k] \in Nat \ {0} /\ Pow2[Target - k] \in Nat \ {0}
    BY <2>1, <2>2, PowerBounds
  <2>4. PICK x \in Nat \ {0}, y \in Nat \ {0} : x = Pow2[k] /\ y = Pow2[Target - k]
    BY <2>3
  <2>5. 0 \in 0 .. x - 1 /\ (x * y + 0) \div x = y
    <3>1. 0 \in 0 .. x - 1 /\ y \in Nat
      OBVIOUS
    <3> QED
      BY <3>1, DivisionUnique
  <2>6. x * y + 0 = x * y
    BY ProductLaws
  <2> QED
    BY <1>1, <2>2, <2>4, <2>5, <2>6 DEF PatternsEach
<1> HIDE DEF e
<1>3. team \in 1 .. threads /\ team \in Nat
  BY <1>2 DEF ThreadsInit
<1>4. ASSUME NEW t \in Tid
      PROVE  /\ ThreadInv(e, t, NewThread(t)) /\ NewThread(t) \in Locals
             /\ NewThread(t).pc = "loop" /\ NewThread(t).over = {}
  <2> DEFINE r == NewThread(t)
  <2>1. t \in Nat /\ t * e \in Nat
    <3>1. t \in Nat
      BY <1>3 DEF Tid
    <3> QED
      BY <1>2, <3>1, ProductLaws
  <2>2. /\ r \in Locals /\ r.pc = "loop" /\ r.arr = t * e /\ r.i = 0 /\ r.sum = 0
        /\ r.over = {}
    BY <2>1 DEF NewThread, Locals, Checking, e
  <2> HIDE DEF r
  <2>3. PICK z \in Nat : z = t * e
    BY <2>1
  <2>4. r.pc \notin Checking /\ r.pc \notin Counted /\ r.pc # "done"
    BY <2>2 DEF Checking, Counted
  <2>5. AtPlace(e, t, r, 0)
    <3>1. z >= z /\ z <= z + e /\ 0 = (z - z) + 0
      BY <1>2
    <3> QED
      BY <2>2, <2>3, <3>1 DEF AtPlace
  <2>6. r.arr # (t * e) + e
    BY <1>2, <2>2, <2>3
  <2>7. Settled(e, t, r)
    <3>1. z .. z - 1 = {}
      OBVIOUS
    <3> QED
      BY <2>2, <2>3, <3>1 DEF Settled
  <2>8. OwnOver(e, t, r, r.pc \in Counted)
    BY <2>2, FS_EmptySet DEF OwnOver
  <2>9. SumIs(e, t, r, 0)
    <3>1. Block(e, t)
      <4>1. t < threads
        <5>1. t <= team - 1 /\ team <= threads
          BY <1>3 DEF Tid
        <5> QED
          BY <1>2, <1>3, <2>1, <5>1
      <4>2. Pow2[Target] \in Nat
        BY WidthsAssumption, PowerBounds
      <4> QED
        BY <1>2, <2>1, <4>1, <4>2 DEF Block
    <3>2. Total(z) \in Nat
      <4>1. z >= t * e /\ z < (t * e) + e
        BY <1>2, <2>3
      <4>2. z \in 0 .. Pow2[Target] - 1 /\ Pow2[Target] \in Nat
        <5>1. PICK u \in Nat : t < u /\ u * e <= Pow2[Target]
          BY <3>1 DEF Block
        <5> QED
          BY <1>2, <2>1, <4>1, <5>1, PlaceBounds
      <4>3. z <= Pow2[Target]
        BY <4>2
      <4> QED
        BY <4>3, TotalNext
    <3>3. Checksum(0 + 0) = 0 /\ Total(z) = Total(z) + 0
      <4>1. 0 \in 0 .. UMax(SumBits)
        <5>1. SumBits \in Nat
          BY WidthsAssumption
        <5>2. Pow2[SumBits] \in Nat \ {0}
          BY <5>1, PowerBounds
        <5> QED
          BY <5>2 DEF UMax
      <4>2. Checksum(0) = 0
        BY <4>1, ChecksumValue
      <4> QED
        BY <3>2, <4>2
    <3> QED
      BY <2>2, <2>3, <3>3 DEF SumIs
  <2> QED
    BY <2>2, <2>4, <2>5, <2>6, <2>7, <2>8, <2>9 DEF ThreadInv, r
<1>5. thr \in [Tid -> Locals] /\ \A t \in Tid : thr[t] = NewThread(t)
  BY <1>4 DEF ThreadsInit
<1>6. Shape
  BY <1>2, <1>3, <1>5 DEF Shape, ThreadsInit, e
<1>7. AllThreads
  BY <1>4, <1>5 DEF AllThreads, e
<1>8. CountInv
  <2>1. GivenUp = {} /\ Pending = {} /\ {t \in Tid : thr[t].pc = "counting"} = {}
    BY <1>4, <1>5 DEF GivenUp, Pending
  <2>2. counter = 0 /\ inside = {}
    BY DEF ThreadsInit
  <2> QED
    BY <2>1, <2>2, FS_EmptySet DEF CountInv
<1>9. RegionInv
  BY DEF RegionInv, ThreadsInit
<1> QED
  BY <1>6, <1>7, <1>8, <1>9 DEF ThreadsInv

\* A thread moves.
LEMMA Moves ==
  ASSUME ThreadsInv, NEW t \in Tid, NEW q, ThreadInv(PatternsEach, t, q),
         thr' = [thr EXCEPT ![t] = q], UNCHANGED <<threads, team, gmp>>,
         region' \in {"parallel", "joined", "aborted"}
  PROVE  /\ Shape' /\ AllThreads'
         /\ Tid' = Tid /\ thr'[t] = q /\ \A v \in Tid \ {t} : thr'[v] = thr[v]
         /\ GivenUp' = (UNION {thr[v].over : v \in Tid \ {t}}) \cup q.over
<1>1. Tid' = Tid /\ PatternsEach' = PatternsEach
  BY DEF Tid, PatternsEach
<1>2. q \in Locals
  BY DEF ThreadInv, AtPlace
<1>3. thr \in [Tid -> Locals] /\ Shape /\ AllThreads
  BY DEF ThreadsInv, Shape
<1>4. /\ thr' \in [Tid -> Locals] /\ thr'[t] = q /\ \A v \in Tid \ {t} : thr'[v] = thr[v]
  BY <1>2, <1>3
<1>5. Shape'
  BY <1>1, <1>3, <1>4 DEF Shape
<1>6. AllThreads'
  <2>1. ASSUME NEW v \in Tid PROVE ThreadInv(PatternsEach, v, thr'[v])
    <3>1. CASE v = t
      BY <1>4, <3>1
    <3>2. CASE v # t
      BY <1>3, <1>4, <3>2 DEF AllThreads
    <3> QED
      BY <3>1, <3>2
  <2> QED
    BY <1>1, <2>1 DEF AllThreads
<1>7. GivenUp' = (UNION {thr[v].over : v \in Tid \ {t}}) \cup q.over
  BY <1>1, <1>4 DEF GivenUp
<1> QED
  BY <1>1, <1>4, <1>5, <1>6, <1>7

\* A move that has nothing to do with the counter.
LEMMA QuietMoves ==
  ASSUME ThreadsInv, NEW t \in Tid, NEW q, ThreadInv(PatternsEach, t, q),
         thr' = [thr EXCEPT ![t] = q], region = "parallel",
         UNCHANGED <<threads, team, gmp, inside, counter, reduced, region>>,
         q.over = thr[t].over, thr[t].pc \notin {"count", "counting"},
         q.pc \notin {"count", "counting"}
  PROVE  ThreadsInv'
<1>1. /\ Shape' /\ AllThreads'
      /\ Tid' = Tid /\ thr'[t] = q /\ \A v \in Tid \ {t} : thr'[v] = thr[v]
      /\ GivenUp' = (UNION {thr[v].over : v \in Tid \ {t}}) \cup q.over
  BY Moves
<1>2. GivenUp' = GivenUp
  BY <1>1 DEF GivenUp
<1>3. Pending' = Pending
  BY <1>1 DEF Pending
<1>4. {v \in Tid : thr[v].pc = "counting"}' = {v \in Tid : thr[v].pc = "counting"}
  BY <1>1
<1>5. CountInv'
  <2>1. \A v \in inside : v # t /\ v \in Tid
    BY DEF ThreadsInv, CountInv
  <2> QED
    BY <1>1, <1>2, <1>3, <1>4, <2>1 DEF ThreadsInv, CountInv
<1>6. RegionInv'
  BY DEF RegionInv
<1> QED
  BY <1>1, <1>5, <1>6 DEF ThreadsInv

\* The rounds that leave the counter alone.
LEMMA QuietStep ==
  ASSUME ThreadsInv, NEW t \in Tid, NextNumber(t) \/ Climb(t) \/ Drop(t) \/ Wide(t)
  PROVE  ThreadsInv'
<1>0. PICK r : r = thr[t]
  OBVIOUS
<1>1. Block(PatternsEach, t) /\ ThreadInv(PatternsEach, t, r)
  BY <1>0, ThreadBlock DEF ThreadsInv, AllThreads
<1>2. UNCHANGED <<threads, team, gmp, inside, counter, reduced, region>> /\ region = "parallel"
  BY DEF NextNumber, Climb, Drop, Wide, Thread
<1>3. PICK q : /\ thr' = [thr EXCEPT ![t] = q]
               /\ ThreadInv(PatternsEach, t, q) /\ q.over = r.over
               /\ r.pc \notin {"count", "counting"} /\ q.pc \notin {"count", "counting"}
  <2>1. CASE NextNumber(t)
    <3>1. r.pc = "loop" /\ thr' = [thr EXCEPT ![t] = Numbered(r)]
      <4>1. [r EXCEPT !.i = @ + 1].arr = r.arr
        BY <1>1 DEF ThreadInv, AtPlace, Locals
      <4> QED
        BY <1>0, <2>1, <4>1 DEF NextNumber, Thread, Numbered, PatternNumber
    <3>2. /\ ThreadInv(PatternsEach, t, Numbered(r)) /\ Numbered(r).over = r.over
          /\ Numbered(r).pc \in {"loop", "done", "rise"}
      BY <1>1, <3>1, NumberAfter
    <3> QED
      BY <3>1, <3>2
  <2>2. CASE Climb(t)
    <3>1. r.pc = "rise" /\ Fits(r) /\ thr' = [thr EXCEPT ![t] = Climbed(r)]
      BY <1>0, <2>2 DEF Climb, Thread, Fits, Climbed
    <3>2. /\ ThreadInv(PatternsEach, t, Climbed(r)) /\ Climbed(r).over = r.over
          /\ Climbed(r).pc \in {"rise", "fall"}
      BY <1>1, <3>1, ClimbAfter
    <3> QED
      BY <3>1, <3>2
  <2>3. CASE Drop(t)
    <3>1. r.pc = "fall" /\ thr' = [thr EXCEPT ![t] = Dropped(r)]
      BY <1>0, <2>3 DEF Drop, Thread, Dropped
    <3>2. /\ ThreadInv(PatternsEach, t, Dropped(r)) /\ Dropped(r).over = r.over
          /\ Dropped(r).pc \in {"loop", "done", "rise"}
      BY <1>1, <3>1, DropAfter
    <3> QED
      BY <3>1, <3>2
  <2>4. CASE Wide(t)
    <3>1. r.pc = "wide" /\ thr' = [thr EXCEPT ![t] = Widened(r)]
      BY <1>0, <2>4 DEF Wide, Thread, Widened
    <3>2. /\ ThreadInv(PatternsEach, t, Widened(r)) /\ Widened(r).over = r.over
          /\ Widened(r).pc \in {"loop", "done", "wide"}
      BY <1>1, <3>1, WideAfter
    <3> QED
      BY <3>1, <3>2
  <2> QED
    BY <2>1, <2>2, <2>3, <2>4
<1> QED
  BY <1>0, <1>2, <1>3, QuietMoves

\* The threads on their way are few enough to count.
LEMMA PendingFinite ==
  Shape => IsFiniteSet(Pending) /\ Cardinality(Pending) \in Nat
<1> SUFFICES ASSUME Shape PROVE IsFiniteSet(Pending) /\ Cardinality(Pending) \in Nat
  OBVIOUS
<1>1. team \in Int
  BY DEF Shape
<1>2. IsFiniteSet(Tid)
  BY <1>1, FS_Interval DEF Tid
<1>3. Pending \subseteq Tid
  BY DEF Pending
<1> QED
  BY <1>2, <1>3, FS_Subset, FS_CardinalityType

\* The counter is entered, and left.
LEMMA CountStep ==
  ASSUME ThreadsInv, NEW t \in Tid, LoadCounter(t) \/ StoreCounter(t)
  PROVE  ThreadsInv'
<1>0. PICK r : r = thr[t]
  OBVIOUS
<1>1. ThreadInv(PatternsEach, t, r)
  BY <1>0 DEF ThreadsInv, AllThreads
<1>2. CASE LoadCounter(t)
  <2>0. PICK c : c = counter
    OBVIOUS
  <2>q. PICK q : q = AtCounter(r, "counting", c)
    OBVIOUS
  <2>1. /\ r.pc = "count" /\ region = "parallel" /\ thr' = [thr EXCEPT ![t] = q]
        /\ inside = {} /\ inside' = {t}
        /\ UNCHANGED <<threads, team, gmp, counter, reduced, region>>
    BY <1>0, <1>2, <2>0, <2>q DEF LoadCounter, MayEnter, Thread, AtCounter
  <2>2. r.pc \in Counted /\ "counting" \in Counted /\ c \in Nat
    BY <2>0, <2>1 DEF Counted, ThreadsInv, CountInv
  <2>3. /\ ThreadInv(PatternsEach, t, q) /\ q.over = r.over /\ q.pc = "counting"
        /\ q.loaded = c
    BY <1>1, <2>q, <2>2, CountAfter
  <2>4. region' \in {"parallel", "joined", "aborted"}
    BY <2>1
  <2>5. /\ Shape' /\ AllThreads'
        /\ Tid' = Tid /\ thr'[t] = q /\ \A v \in Tid \ {t} : thr'[v] = thr[v]
        /\ GivenUp' = (UNION {thr[v].over : v \in Tid \ {t}}) \cup q.over
    BY <2>1, <2>3, <2>4, Moves
  <2>6. GivenUp' = GivenUp
    BY <1>0, <2>3, <2>5 DEF GivenUp
  <2>7. Pending' = Pending
    BY <1>0, <2>1, <2>3, <2>5 DEF Pending
  <2>8. {v \in Tid : thr[v].pc = "counting"}' = {t}
    <3>1. \A v \in Tid : thr[v].pc # "counting"
      BY <2>1 DEF ThreadsInv, CountInv
    <3> QED
      BY <2>3, <2>5, <3>1
  <2>9. CountInv'
    BY <2>0, <2>1, <2>3, <2>5, <2>6, <2>7, <2>8 DEF ThreadsInv, CountInv
  <2>10. RegionInv'
    BY <2>1 DEF RegionInv
  <2> QED
    BY <2>5, <2>9, <2>10 DEF ThreadsInv
<1>3. CASE StoreCounter(t)
  <2>0. PICK q : q = AtCounter(r, "wide", 0)
    OBVIOUS
  <2>1. /\ r.pc = "counting" /\ region = "parallel" /\ thr' = [thr EXCEPT ![t] = q]
        /\ counter' = r.loaded + 1 /\ inside' = inside \ {t}
        /\ UNCHANGED <<threads, team, gmp, reduced, region>>
    BY <1>0, <1>3, <2>0 DEF StoreCounter, Thread, AtCounter
  <2>2. r.pc \in Counted /\ "wide" \in Counted /\ 0 \in Nat
    BY <2>1 DEF Counted
  <2>3. ThreadInv(PatternsEach, t, q) /\ q.over = r.over /\ q.pc = "wide"
    BY <1>1, <2>0, <2>2, CountAfter
  <2>4. region' \in {"parallel", "joined", "aborted"}
    BY <2>1
  <2>5. /\ Shape' /\ AllThreads'
        /\ Tid' = Tid /\ thr'[t] = q /\ \A v \in Tid \ {t} : thr'[v] = thr[v]
        /\ GivenUp' = (UNION {thr[v].over : v \in Tid \ {t}}) \cup q.over
    BY <2>1, <2>3, <2>4, Moves
  <2>6. GivenUp' = GivenUp
    BY <1>0, <2>3, <2>5 DEF GivenUp
  <2>7. t \in inside /\ inside = {t} /\ r.loaded = counter /\ counter \in Nat
        /\ \A v \in Tid : thr[v].pc = "counting" => v = t
    BY <1>0, <2>1 DEF ThreadsInv, CountInv
  <2>8. Pending' = Pending \ {t} /\ t \in Pending
    BY <1>0, <2>1, <2>3, <2>5 DEF Pending
  <2>9. Cardinality(Pending') = Cardinality(Pending) - 1 /\ Cardinality(Pending) \in Nat
    BY <2>8, PendingFinite, FS_RemoveElement DEF ThreadsInv
  <2>10. {v \in Tid : thr[v].pc = "counting"}' = {}
    BY <2>3, <2>5, <2>7
  <2>11. inside' = {} /\ counter' = counter + 1
    BY <2>1, <2>7
  <2>12. counter' + Cardinality(Pending') = Cardinality(GivenUp')
    <3>1. counter + Cardinality(Pending) = Cardinality(GivenUp)
      BY DEF ThreadsInv, CountInv
    <3> QED
      BY <2>6, <2>7, <2>9, <2>11, <3>1
  <2>13. CountInv'
    <3>1. IsFiniteSet(GivenUp') /\ counter' \in Nat
      BY <2>6, <2>7, <2>11 DEF ThreadsInv, CountInv
    <3> QED
      BY <2>10, <2>11, <2>12, <3>1 DEF CountInv
  <2>14. RegionInv'
    BY <2>1 DEF RegionInv
  <2> QED
    BY <2>5, <2>13, <2>14 DEF ThreadsInv
<1> QED
  BY <1>2, <1>3

\* A number that is given up is one more.
LEMMA GiveUpStep ==
  ASSUME ThreadsInv, NEW t \in Tid, GiveUp(t)
  PROVE  ThreadsInv'
<1> DEFINE e == PatternsEach
<1>0. PICK r : r = thr[t]
  OBVIOUS
<1>q. PICK q : q = GaveUp(r)
  OBVIOUS
<1>1. Block(e, t) /\ ThreadInv(e, t, r)
  BY <1>0, ThreadBlock DEF ThreadsInv, AllThreads
<1>2. /\ r.pc = "rise" /\ region = "parallel" /\ thr' = [thr EXCEPT ![t] = q]
      /\ region' = IF gmp THEN region ELSE "aborted"
      /\ UNCHANGED <<threads, team, gmp, inside, counter, reduced>>
  BY <1>0, <1>q DEF GiveUp, Thread, GaveUp
<1>3. /\ ThreadInv(e, t, q) /\ q.over = r.over \cup {r.n0} /\ q.pc = "count"
      /\ r.n0 = PatternNumber(r.arr) /\ r.arr \in Nat /\ r.arr >= t * e /\ r.arr < (t * e) + e
      /\ \A x \in r.over : \E b \in t * e .. r.arr - 1 : x = PatternNumber(b)
  <2> HIDE DEF e
  <2>1. GaveUpRight(e, t, r)
    BY <1>1, <1>2, GiveUpAfter
  <2> QED
    BY <1>q, <2>1 DEF GaveUpRight
<1>4. region' \in {"parallel", "joined", "aborted"}
  BY <1>2
<1>5. /\ Shape' /\ AllThreads'
      /\ Tid' = Tid /\ thr'[t] = q /\ \A v \in Tid \ {t} : thr'[v] = thr[v]
      /\ GivenUp' = (UNION {thr[v].over : v \in Tid \ {t}}) \cup q.over
  BY <1>2, <1>3, <1>4, Moves
<1>6. e \in Nat \ {0} /\ \A v \in Tid : v \in Nat /\ Block(e, v) /\ v * e \in Nat
  <2>1. \A v \in Tid : Block(e, v)
    BY ThreadBlock DEF ThreadsInv
  <2> HIDE DEF e
  <2>2. e \in Nat \ {0} /\ \A v \in Tid : v \in Nat
    BY <2>1 DEF Block
  <2> QED
    BY <2>1, <2>2, ProductLaws
<1>7. ASSUME NEW v \in Tid, r.n0 \in thr[v].over PROVE FALSE
  <2>1. ThreadInv(e, v, thr[v])
    BY DEF ThreadsInv, AllThreads
  <2> HIDE DEF e
  <2>2. PICK u \in Nat : t < u /\ u * e <= Pow2[Target]
    BY <1>1 DEF Block
  <2>3. r.arr \in 0 .. Pow2[Target] - 1
    BY <1>3, <1>6, <2>2, PlaceBounds
  <2>4. PICK w \in Nat : v < w /\ w * e <= Pow2[Target]
    BY <1>6 DEF Block
  <2>5. PICK b \in v * e .. thr[v].arr : /\ r.n0 = PatternNumber(b)
                                         /\ b = thr[v].arr => thr[v].pc \in Counted
                                         /\ v = t => b < r.arr
    <3>1. CASE v = t
      <4>1. PICK b \in t * e .. r.arr - 1 : r.n0 = PatternNumber(b)
        BY <1>0, <1>3, <1>7, <3>1
      <4>2. t * e \in Nat
        BY <1>6
      <4>3. b \in t * e .. r.arr /\ b < r.arr /\ ~(b = r.arr)
        BY <1>3, <4>1, <4>2
      <4> QED
        BY <1>0, <3>1, <4>1, <4>3
    <3>2. CASE v # t
      BY <1>7, <2>1, <3>2 DEF ThreadInv, OwnOver
    <3> QED
      BY <3>1, <3>2
  <2>6. /\ thr[v].arr \in Nat /\ thr[v].arr <= (v * e) + e
        /\ thr[v].arr = (v * e) + e => thr[v].pc \notin Counted
    BY <2>1 DEF ThreadInv, AtPlace, Locals, Counted
  <2>7. b \in Nat /\ b >= v * e /\ b < (v * e) + e
    <3>1. PICK z \in Nat, k \in Nat : z = v * e /\ k = thr[v].arr
      BY <1>6, <2>6
    <3>2. b \in z .. k /\ k <= z + e /\ (k = z + e => b # k)
      BY <2>5, <2>6, <3>1
    <3>3. b \in Nat /\ b >= z /\ b < z + e
      BY <1>6, <3>2
    <3> QED
      BY <3>1, <3>3
  <2>8. b \in 0 .. Pow2[Target] - 1
    BY <1>6, <2>4, <2>7, PlaceBounds
  <2>9. b = r.arr
    BY <1>3, <2>3, <2>5, <2>8, PatternNumberDistinct
  <2>10. v = t
    BY <1>3, <1>6, <2>7, <2>9, BlocksDisjoint
  <2> QED
    BY <2>5, <2>7, <2>9, <2>10
<1>8. r.n0 \notin GivenUp /\ GivenUp' = GivenUp \cup {r.n0}
  <2>1. r.n0 \notin GivenUp
    BY <1>7 DEF GivenUp
  <2>2. GivenUp' = GivenUp \cup {r.n0}
    BY <1>0, <1>3, <1>5 DEF GivenUp
  <2> QED
    BY <2>1, <2>2
<1>9. IsFiniteSet(GivenUp') /\ Cardinality(GivenUp') = Cardinality(GivenUp) + 1
  <2>1. IsFiniteSet(GivenUp)
    BY DEF ThreadsInv, CountInv
  <2> QED
    BY <1>8, <2>1, FS_AddElement
<1>10. Pending' = Pending \cup {t} /\ t \notin Pending
  BY <1>0, <1>2, <1>3, <1>5 DEF Pending
<1>11. Cardinality(Pending') = Cardinality(Pending) + 1 /\ Cardinality(Pending) \in Nat
  BY <1>10, PendingFinite, FS_AddElement DEF ThreadsInv
<1>12. {v \in Tid : thr[v].pc = "counting"}' = {v \in Tid : thr[v].pc = "counting"}
  BY <1>0, <1>2, <1>3, <1>5
<1>13. counter' + Cardinality(Pending') = Cardinality(GivenUp')
  <2>1. counter \in Nat /\ counter + Cardinality(Pending) = Cardinality(GivenUp)
    BY DEF ThreadsInv, CountInv
  <2> QED
    BY <1>2, <1>9, <1>11, <2>1
<1>14. CountInv'
  <2>1. \A v \in inside : v # t /\ v \in Tid
    BY <1>0, <1>2 DEF ThreadsInv, CountInv
  <2> QED
    BY <1>2, <1>5, <1>9, <1>12, <1>13, <2>1 DEF ThreadsInv, CountInv
<1>15. RegionInv'
  BY <1>2 DEF RegionInv
<1> QED
  BY <1>5, <1>14, <1>15 DEF ThreadsInv

\* The end: all patterns are counted if all threads were there.
LEMMA JoinStep ==
  ASSUME ThreadsInv, Join
  PROVE  ThreadsInv'
<1> DEFINE e == PatternsEach
           g == [t \in Tid |-> thr[t].i]
<1>1. /\ \A t \in Tid : thr[t].pc = "done"
      /\ reduced' = [checksum |-> Checksum(SumFunction([t \in Tid |-> thr[t].sum])),
                     total |-> SumFunction(g)]
      /\ region' = IF SumFunction(g) = Pow2[Target] THEN "joined" ELSE "aborted"
      /\ UNCHANGED <<threads, team, gmp, thr, inside, counter>>
  BY DEF Join
<1>2. /\ threads \in Nat /\ e \in Nat \ {0} /\ threads * e = Pow2[Target] /\ team \in 1 .. threads
  BY DEF ThreadsInv, Shape
<1>3. ASSUME NEW t \in Tid PROVE thr[t].i = e
  <2>1. ThreadInv(e, t, thr[t])
    BY DEF ThreadsInv, AllThreads
  <2> HIDE DEF e
  <2>2. t \in Nat
    BY <1>2 DEF Tid
  <2>3. t * e \in Nat
    BY <1>2, <2>2, ProductLaws
  <2>4. thr[t].pc \notin Checking /\ thr[t].arr = (t * e) + e
    BY <1>1, <2>1 DEF ThreadInv, Checking
  <2>5. thr[t].i = (thr[t].arr - (t * e)) + 0
    BY <2>1, <2>4 DEF ThreadInv, AtPlace
  <2> QED
    BY <1>2, <2>3, <2>4, <2>5
<1>4. SumFunction(g) = team * e
  <2>1. team \in Nat /\ e \in Nat /\ Tid = 0 .. team - 1
    BY <1>2 DEF Tid
  <2>2. g \in [0 .. team - 1 -> Nat] /\ \A u \in 0 .. team - 1 : g[u] = e
    BY <1>3, <2>1
  <2>3. SumFunction([t \in 0 .. team - 1 |-> g[t]]) = team * e
    <3> HIDE DEF g, e
    <3> QED
      BY <2>1, <2>2, EqualSum
  <2>4. [t \in 0 .. team - 1 |-> g[t]] = g
    BY <2>1
  <2> QED
    BY <2>3, <2>4
<1>5. team * e = threads * e <=> team = threads
  <2> HIDE DEF e
  <2>1. ASSUME team # threads PROVE team * e # threads * e
    <3>1. team \in Nat /\ team + 1 \in Nat /\ team + 1 <= threads
      BY <1>2, <2>1
    <3>2. (team + 1) * e <= threads * e
      BY <1>2, <3>1, ProductOrder
    <3>3. (team + 1) * e = (team * e) + e /\ team * e \in Nat /\ threads * e \in Nat
      <4>1. e * (team + 1) = (e * team) + (e * 1) /\ e * 1 = e
        BY <1>2, <3>1, ProductLaws
      <4> QED
        BY <1>2, <3>1, <4>1, ProductLaws
    <3> QED
      BY <1>2, <3>2, <3>3
  <2> QED
    BY <2>1
<1>6. region' = (IF team = threads THEN "joined" ELSE "aborted")
  BY <1>1, <1>2, <1>4, <1>5
<1>7. Tid' = Tid /\ PatternsEach' = PatternsEach
  BY <1>1 DEF Tid, PatternsEach
<1>8. Shape' /\ AllThreads' /\ CountInv'
  <2>1. Shape'
    BY <1>1, <1>6, <1>7 DEF ThreadsInv, Shape
  <2>2. AllThreads'
    BY <1>1, <1>7 DEF ThreadsInv, AllThreads
  <2>3. CountInv'
    BY <1>1, <1>7 DEF ThreadsInv, CountInv, GivenUp, Pending
  <2> QED
    BY <2>1, <2>2, <2>3
<1>9. RegionInv'
  BY <1>1, <1>6, <1>7 DEF RegionInv
<1> QED
  BY <1>8, <1>9 DEF ThreadsInv

\* Every step.
LEMMA NextThreads == ThreadsInv /\ [ThreadsNext]_threadVars => ThreadsInv'
<1> SUFFICES ASSUME ThreadsInv, [ThreadsNext]_threadVars PROVE ThreadsInv'
  OBVIOUS
<1>1. CASE \E t \in Tid : NextNumber(t) \/ Climb(t) \/ Drop(t) \/ Wide(t)
  BY <1>1, QuietStep
<1>2. CASE \E t \in Tid : GiveUp(t)
  BY <1>2, GiveUpStep
<1>3. CASE \E t \in Tid : LoadCounter(t) \/ StoreCounter(t)
  BY <1>3, CountStep
<1>4. CASE Join
  BY <1>4, JoinStep
<1>5. CASE UNCHANGED threadVars
  <2>1. UNCHANGED <<threads, team, gmp, thr, inside, counter, reduced, region>>
    BY <1>5 DEF threadVars
  <2> QED
    BY <2>1 DEF ThreadsInv, Shape, AllThreads, CountInv, RegionInv, GivenUp, Pending, Tid,
                PatternsEach
<1> QED
  BY <1>1, <1>2, <1>3, <1>4, <1>5 DEF ThreadsNext

\* The threads' own totals, at the ends of their blocks.
EndTotals == [u \in 0 .. team |-> Total(u * PatternsEach)]

\* When all are done, the slots of the checksum make up the sum of all shares.
LEMMA SumOfAll ==
  ASSUME Shape, AllThreads, team = threads, \A t \in Tid : thr[t].pc = "done"
  PROVE  Checksum(SumFunction([t \in Tid |-> thr[t].sum])) = Checksum(Total(Pow2[Target]))
<1> DEFINE e == PatternsEach
           F == EndTotals
           g == [t \in Tid |-> thr[t].sum]
<1>1. /\ threads \in Nat /\ e \in Nat \ {0} /\ threads * e = Pow2[Target] /\ team \in Nat
      /\ Tid = 0 .. team - 1 /\ Pow2[Target] \in Nat
  <2>1. Pow2[Target] \in Nat
    BY WidthsAssumption, PowerBounds
  <2> QED
    BY <2>1 DEF Shape, Tid
<1>2. F \in [0 .. team -> Nat] /\ F[0] = 0 /\ F[team] = Total(Pow2[Target])
      /\ \A u \in 0 .. team : F[u] = Total(u * e)
  <2>1. ASSUME NEW u \in 0 .. team PROVE Total(u * e) \in Nat
    <3> HIDE DEF e
    <3>1. u \in Nat /\ u <= threads
      BY <1>1
    <3>2. u * e <= threads * e /\ u * e \in Nat
      BY <1>1, <3>1, ProductOrder, ProductLaws
    <3> QED
      BY <1>1, <3>2, TotalNext
  <2>2. 0 * e = 0 /\ Total(0) = 0
    BY <1>1, TotalNext
  <2>3. 0 \in 0 .. team /\ team \in 0 .. team
    BY <1>1
  <2> QED
    BY <1>1, <2>1, <2>2, <2>3 DEF EndTotals
<1>3. ASSUME NEW u \in 0 .. team - 1
      PROVE  thr[u].sum \in Nat /\ \E s \in Nat : F[u + 1] = F[u] + s /\ thr[u].sum = Checksum(s)
  <2>1. u \in Tid /\ u \in 0 .. team /\ u + 1 \in 0 .. team /\ u \in Nat
    BY <1>1
  <2>2. ThreadInv(e, u, thr[u]) /\ thr[u].pc = "done"
    BY <2>1 DEF AllThreads
  <2>3. thr[u].arr = (u * e) + e /\ SumIs(e, u, thr[u], 0) /\ thr[u] \in Locals
    <3> HIDE DEF e
    <3>1. thr[u].pc \notin Checking
      BY <2>2 DEF Checking
    <3> QED
      BY <2>2, <3>1 DEF ThreadInv, AtPlace
  <2>4. (u + 1) * e = (u * e) + e
    <3> HIDE DEF e
    <3>1. e * (u + 1) = (e * u) + (e * 1) /\ e * 1 = e
      BY <1>1, <2>1, ProductLaws
    <3> QED
      BY <1>1, <2>1, <3>1, ProductLaws
  <2>5. PICK s \in Nat : Total(thr[u].arr) = Total(u * e) + s /\ thr[u].sum = Checksum(s + 0)
    BY <2>3 DEF SumIs
  <2>6. s + 0 = s /\ thr[u].sum \in Nat
    BY <2>3 DEF Locals
  <2> QED
    BY <1>2, <2>1, <2>3, <2>4, <2>5, <2>6
<1>4. g \in [0 .. team - 1 -> Nat] /\ \A u \in 0 .. team - 1 : g[u] = thr[u].sum
  BY <1>1, <1>3
<1>5. Checksum(SumFunction([t \in 0 .. team - 1 |-> g[t]])) = Checksum(F[team])
  <2>1. \A u \in 0 .. team - 1 : \E s \in Nat : F[u + 1] = F[u] + s /\ g[u] = Checksum(s)
    BY <1>3, <1>4
  <2>2. PICK w, f, h : w = team /\ f = g /\ h = F
    OBVIOUS
  <2> HIDE DEF g, F, e
  <2>3. /\ w \in Nat /\ f \in [0 .. w - 1 -> Nat] /\ h \in [0 .. w -> Nat] /\ h[0] = 0
        /\ \A u \in 0 .. w - 1 : \E s \in Nat : h[u + 1] = h[u] + s /\ f[u] = Checksum(s)
    BY <1>1, <1>2, <1>4, <2>1, <2>2
  <2>4. Checksum(SumFunction([t \in 0 .. w - 1 |-> f[t]])) = Checksum(h[w])
    BY <2>3, WrappedSum
  <2> QED
    BY <2>2, <2>4
<1>6. [t \in 0 .. team - 1 |-> g[t]] = g
  BY <1>1
<1> QED
  BY <1>2, <1>5, <1>6

\* And every number of the sieve is complete.
LEMMA AllComplete ==
  ASSUME Shape, AllThreads, team = threads, \A t \in Tid : thr[t].pc = "done",
         NEW m \in Sieved
  PROVE  \E t \in Tid : Complete(m, thr[t])
<1> DEFINE e == PatternsEach
<1>1. /\ threads \in Nat /\ e \in Nat \ {0} /\ threads * e = Pow2[Target] /\ team \in Nat
      /\ Tid = 0 .. team - 1 /\ Pow2[Target] \in Nat
  <2>1. Pow2[Target] \in Nat
    BY WidthsAssumption, PowerBounds
  <2> QED
    BY <2>1 DEF Shape, Tid
<1> HIDE DEF e
<1>2. PICK a \in 0 .. Pow2[Target] - 1 : m = PatternNumber(a) /\ IsLive(PatternNumber(a))
  BY AllLive DEF LiveBelow
<1>3. PICK t \in Nat, s \in 0 .. e - 1 : a = e * t + s
  <2>1. a \in Nat
    BY <1>1
  <2>2. a \div e \in Nat /\ a % e \in 0 .. e - 1 /\ a = e * (a \div e) + (a % e)
    BY <1>1, <2>1, Division
  <2> QED
    BY <2>2
<1>4. t * e \in Nat /\ t * e = e * t /\ a >= t * e /\ a < (t * e) + e
  <2>1. PICK y \in Nat : y = e * t
    BY <1>1, ProductLaws
  <2>2. a >= y /\ a < y + e
    BY <1>1, <1>3, <2>1
  <2>3. t * e = e * t
    BY <1>1, ProductLaws
  <2> QED
    BY <2>1, <2>2, <2>3
<1>5. t \in Tid
  <2>1. SUFFICES ASSUME ~(t < threads) PROVE FALSE
    BY <1>1
  <2>2. threads * e <= t * e
    BY <1>1, <2>1, ProductOrder
  <2> QED
    BY <1>1, <1>2, <1>4, <2>2
<1>6. ThreadInv(e, t, thr[t]) /\ thr[t].pc = "done"
  BY <1>5 DEF AllThreads, e
<1>7. thr[t].arr = (t * e) + e /\ Settled(e, t, thr[t])
  BY <1>6 DEF ThreadInv
<1>8. a \in t * e .. thr[t].arr - 1
  <2>1. PICK y \in Nat, k \in {thr[t].arr} : y = t * e /\ k = thr[t].arr /\ k = y + e
    BY <1>4, <1>7
  <2>2. a \in y .. k - 1
    BY <1>1, <1>2, <1>4, <2>1
  <2> QED
    BY <2>1, <2>2
<1> QED
  BY <1>2, <1>5, <1>7, <1>8 DEF Settled

\* What the invariant says when main reports.
LEMMA AgreeAtEnd == ThreadsInv => ThreadsAgree
<1> SUFFICES ASSUME ThreadsInv PROVE ThreadsAgree
  OBVIOUS
<1>1. gmp /\ team = threads => region # "aborted"
  BY DEF ThreadsInv, RegionInv
<1>2. ASSUME region = "joined"
      PROVE  /\ reduced.checksum = Checksum(SumFunction([m \in Sieved |-> OddSteps(m)]))
             /\ counter = Cardinality(GivenUp)
             /\ {m \in Sieved : PeakFrom(m, 0) > UMax(Width)} \subseteq GivenUp
  <2>1. /\ Shape /\ AllThreads /\ team = threads /\ \A t \in Tid : thr[t].pc = "done"
        /\ reduced.checksum = Checksum(SumFunction([t \in Tid |-> thr[t].sum]))
    BY <1>2 DEF ThreadsInv, RegionInv
  <2>2. ASSUME NEW m \in Sieved
        PROVE  /\ m \in Nat /\ Share(m) = OddSteps(m)
               /\ PeakFrom(m, 0) > UMax(Width) => m \in GivenUp
    <3>1. PICK t \in Tid : Complete(m, thr[t])
      BY <2>1, AllComplete
    <3>2. PICK d \in Nat : /\ d > 0 /\ Descends(m, d)
                           /\ PeakFrom(m, 0) <= UMax(Width) \/ m \in thr[t].over
      BY <3>1 DEF Complete
    <3>3. m \in Nat
      <4>1. Target \in Nat /\ Pow3[Target] \in Nat
        BY WidthsAssumption, PowerBounds
      <4>2. m \in 4 * Pow3[Target] .. 8 * Pow3[Target]
        BY DEF Sieved
      <4> QED
        BY <4>1, <4>2
    <3>4. Share(m) = OddSteps(m)
      BY <3>2, <3>3, ShareType
    <3>5. ASSUME PeakFrom(m, 0) > UMax(Width) PROVE m \in GivenUp
      <4>1. PeakFrom(m, 0) \in Nat
        BY <3>2, <3>3, PeakOfTested
      <4>2. UMax(Width) \in Nat
        <5>1. Width \in Nat
          BY WidthsAssumption
        <5>2. Pow2[Width] \in Nat \ {0}
          BY <5>1, PowerBounds
        <5> QED
          BY <5>2 DEF UMax
      <4>3. m \in thr[t].over
        BY <3>2, <3>5, <4>1, <4>2
      <4> QED
        BY <4>3 DEF GivenUp
    <3> QED
      BY <3>3, <3>4, <3>5
  <2>3. reduced.checksum = Checksum(SumFunction([m \in Sieved |-> OddSteps(m)]))
    <3>1. Total(Pow2[Target]) = SumFunction([m \in Sieved |-> Share(m)])
      BY AllLive DEF Total
    <3>2. [m \in Sieved |-> Share(m)] = [m \in Sieved |-> OddSteps(m)]
      BY <2>2
    <3>3. Checksum(SumFunction([t \in Tid |-> thr[t].sum])) = Checksum(Total(Pow2[Target]))
      BY <2>1, SumOfAll
    <3> QED
      BY <2>1, <3>1, <3>2, <3>3
  <2>4. counter = Cardinality(GivenUp)
    <3>1. Pending = {}
      BY <2>1 DEF Pending
    <3>2. counter \in Nat /\ counter + Cardinality(Pending) = Cardinality(GivenUp)
      BY DEF ThreadsInv, CountInv
    <3> QED
      BY <3>1, <3>2, FS_EmptySet
  <2>5. {m \in Sieved : PeakFrom(m, 0) > UMax(Width)} \subseteq GivenUp
    BY <2>2
  <2> QED
    BY <2>3, <2>4, <2>5
<1> QED
  BY <1>1, <1>2 DEF ThreadsAgree

\* However many threads rs-worker has, and however their rounds and their
\* visits to the critical section interleave: when main reports, the sum of
\* the slots is the checksum over all numbers of the sieve, the counter is the
\* number of those that were given up, among them all that leave the width;
\* and with GMP and all of its threads, the process is not ended before that.
THEOREM ThreadsAgreeCorrect == ThreadsSpec => []ThreadsAgree
<1>1. ThreadsInit => ThreadsInv
  BY InitThreads
<1>2. ThreadsInv /\ [ThreadsNext]_threadVars => ThreadsInv'
  BY NextThreads
<1>3. ThreadsInv => ThreadsAgree
  BY AgreeAtEnd
<1> QED
  BY <1>1, <1>2, <1>3, PTL DEF ThreadsSpec

=============================================================================
