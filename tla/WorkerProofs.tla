---------------------------- MODULE WorkerProofs ----------------------------
(***************************************************************************)
(* Proofs about module Worker: a run goes through the numbers of its task, *)
(* each once; at every place between two rounds of check the number under  *)
(* test is on the trajectory of the number it was started with, and the    *)
(* checksum, the maximum and the overflows account for the steps behind    *)
(* it.                                                                     *)
(***************************************************************************)
EXTENDS Worker, CollatzProofs

-----------------------------------------------------------------------------
(* The numbers of a task.                                                  *)

Shares == Pow2[TASK_SIZE - SIEVE_LOGSIZE]

\* The h-th member in the task of the class of m.
Member(m, h) == Base + h * Pow2[SIEVE_LOGSIZE] + m

\* The build and its argument.
Job == /\ prog \in Programs /\ task \in Tasks
       /\ prog.kind = "residue" => task < Pow2[LogProcs]

\* What the assumptions say of the constants.
LEMMA WorkerConstants ==
  /\ SIEVE_LOGSIZE \in Nat /\ SIEVE_LOGSIZE >= 2 /\ SIEVE_LOGSIZE < Half
  /\ SIEVE_LOGSIZE <= LUT_SIZE64 - 1 /\ SIEVE_LOGSIZE - 2 \in Nat
  /\ LUT_SIZE64 \in Nat /\ LUT_SIZE64 > 1
  /\ Half \in Nat \ {0} /\ Half > 1 /\ Width \in Nat \ {0} /\ SumBits \in Nat
  /\ TASK_SIZE \in Nat /\ TASK_SIZE - SIEVE_LOGSIZE \in Nat /\ TASK_SIZE - 2 \in Nat
  /\ Target \in Nat /\ LogProcs \in Nat /\ LowBits \in Nat /\ LowBits + LogProcs = Target
  /\ Tasks \subseteq Nat
  /\ Shares \in Nat \ {0}
  /\ Pow2[SIEVE_LOGSIZE] = 4 * Pow2[SIEVE_LOGSIZE - 2]
  /\ Pow2[TASK_SIZE] = 4 * Pow2[TASK_SIZE - 2]
  /\ Pow2[TASK_SIZE] = Pow2[SIEVE_LOGSIZE] * Shares
  /\ Pow2[TASK_SIZE - 2] = Pow2[SIEVE_LOGSIZE - 2] * Shares
  /\ Pow2[Target] = Pow2[LowBits] * Pow2[LogProcs]
<1>1. /\ SIEVE_LOGSIZE \in Nat /\ SIEVE_LOGSIZE >= 2 /\ SIEVE_LOGSIZE < Half
      /\ LUT_SIZE64 \in Nat /\ LUT_SIZE64 > 1
      /\ Half \in Nat \ {0} /\ Half > 1 /\ Width \in Nat \ {0} /\ SumBits \in Nat
      /\ TASK_SIZE \in Nat /\ TASK_SIZE >= SIEVE_LOGSIZE /\ Target \in Nat
  BY WidthsAssumption
<1>2. /\ SIEVE_LOGSIZE < LUT_SIZE64 /\ LogProcs \in 0 .. Target /\ Tasks \subseteq Nat
  BY WorkerAssumption
<1>3. /\ SIEVE_LOGSIZE - 2 \in Nat /\ TASK_SIZE - 2 \in Nat /\ TASK_SIZE - SIEVE_LOGSIZE \in Nat
      /\ LogProcs \in Nat /\ LowBits \in Nat /\ LowBits + LogProcs = Target
  BY <1>1, <1>2 DEF LowBits
<1>4. Shares \in Nat \ {0}
  BY <1>3, PowerBounds DEF Shares
<1>5. Pow2[2] = 4
  BY SmallPowers
<1>6. Pow2[SIEVE_LOGSIZE] = 4 * Pow2[SIEVE_LOGSIZE - 2] /\ Pow2[TASK_SIZE] = 4 * Pow2[TASK_SIZE - 2]
  BY <1>1, <1>3, <1>5, PowerSplit
<1>7. Pow2[TASK_SIZE] = Pow2[SIEVE_LOGSIZE] * Shares
  BY <1>1, PowerSplit DEF Shares
<1>8. Pow2[TASK_SIZE - 2] = Pow2[SIEVE_LOGSIZE - 2] * Shares
  <2>1. (SIEVE_LOGSIZE - 2) + (TASK_SIZE - SIEVE_LOGSIZE) = TASK_SIZE - 2
    BY <1>1
  <2> QED
    BY <1>3, <2>1, PowerSum DEF Shares
<1>9. Pow2[Target] = Pow2[LowBits] * Pow2[LogProcs]
  <2>1. Pow2[LowBits + LogProcs] = Pow2[LowBits] * Pow2[LogProcs]
    BY <1>3, PowerSum, Zenon
  <2> QED
    BY <1>3, <2>1
<1> QED
  BY <1>1, <1>2, <1>3, <1>4, <1>6, <1>7, <1>8, <1>9

\* The bound of a task: the members of its classes, and what precalc makes of
\* them, fit 128 bits.
LEMMA TaskBoundIn ==
  ASSUME NEW z \in Nat, z <= TASK_SIZE, NEW s, s = Pow2[TASK_SIZE - z],
         NEW t \in Tasks, (t + 1) * s * Pow3[z] <= UMax(Width), NEW h \in 0 .. s - 1,
         NEW o \in 0 .. z, NEW l \in 0 .. Pow3[o] - 1
  PROVE  /\ (t * s + h) * Pow3[o] + l + 1 <= UMax(Width)
         /\ (t + 1) * Pow2[TASK_SIZE] <= UMax(Width)
<1>1. t \in Nat /\ s \in Nat \ {0} /\ h \in Nat /\ o \in Nat /\ z \in Nat
  BY WorkerConstants, PowerBounds
<1>2. PICK a \in Nat, b \in Nat, c \in Nat, e \in Nat :
        /\ a = Pow3[o] /\ b = Pow3[z] /\ c = Pow2[z] /\ a <= b /\ c <= b
        /\ e = UMax(Width) /\ a # 0
  <2>1. Width \in Nat /\ Pow2[Width] \in Nat \ {0}
    BY WorkerConstants, PowerBounds
  <2>2. UMax(Width) \in Nat
    BY <2>1 DEF UMax
  <2>3. /\ Pow3[o] \in Nat \ {0} /\ Pow3[z] \in Nat /\ Pow2[z] \in Nat
        /\ Pow2[z] <= Pow3[z]
    BY <1>1, PowerBounds
  <2>4. Pow3[o] <= Pow3[z]
    BY <1>1, PowerOrder
  <2> QED
    BY <2>2, <2>3, <2>4
<1>3. (t + 1) * s * b <= e
  BY <1>2
<1>4. PICK u \in Nat : u = (t + 1) * s /\ u = (t * s) + s
  BY <1>1, ProductLaws
<1>5. u * a <= e /\ u * c <= e
  <2>1. u * a <= u * b /\ u * c <= u * b /\ u * a \in Nat /\ u * b \in Nat /\ u * c \in Nat
    BY <1>2, ProductOrder, ProductLaws
  <2> QED
    BY <1>2, <1>3, <1>4, <2>1
<1>6. ((t * s) + h) * a + l + 1 <= u * a
  <2>1. PICK v \in Nat : v = (t * s) + h /\ v + 1 <= u
    <3>1. t * s \in Nat
      BY <1>1, ProductLaws
    <3> QED
      BY <1>1, <1>4, <3>1
  <2>2. (v + 1) * a <= u * a /\ (v + 1) * a = (v * a) + a /\ v * a \in Nat /\ u * a \in Nat
    <3>1. a * (v + 1) = (a * v) + (a * 1) /\ a * (v + 1) = (v + 1) * a /\ a * v = v * a /\ v * a \in Nat
          /\ u * a \in Nat
      BY <1>2, ProductLaws
    <3>2. (v + 1) * a <= u * a
      BY <1>2, <2>1, ProductOrder
    <3> QED
      BY <1>2, <3>1, <3>2
  <2>3. l + 1 <= a /\ l \in Nat
    BY <1>2
  <2> QED
    BY <1>2, <2>1, <2>2, <2>3
<1>7. (t + 1) * Pow2[TASK_SIZE] = u * c
  <2>1. Pow2[TASK_SIZE] = c * s
    BY <1>2, WorkerConstants, PowerSplit
  <2>2. (t + 1) * (c * s) = c * ((t + 1) * s) /\ c * u = u * c
    BY <1>1, <1>2, ProductLaws
  <2> QED
    BY <1>4, <2>1, <2>2
<1>8. (t * s + h) * a + l + 1 <= e
  <2>1. u * a \in Nat /\ l \in Nat
    BY <1>2, ProductLaws
  <2>2. PICK w \in Nat : w = ((t * s) + h) * a
    <3>1. (t * s) + h \in Nat
      BY <1>1, ProductLaws
    <3> QED
      BY <1>2, <3>1, ProductLaws
  <2> QED
    BY <1>2, <1>5, <1>6, <2>1, <2>2
<1> QED
  BY <1>2, <1>5, <1>7, <1>8

\* That is so with the sieve of the CPU worker.
LEMMA TaskBound ==
  ASSUME NEW t \in Tasks, NEW h \in 0 .. Shares - 1,
         NEW o \in 0 .. SIEVE_LOGSIZE, NEW l \in 0 .. Pow3[o] - 1
  PROVE  /\ (t * Shares + h) * Pow3[o] + l + 1 <= UMax(Width)
         /\ (t + 1) * Pow2[TASK_SIZE] <= UMax(Width)
<1>1. /\ SIEVE_LOGSIZE \in Nat /\ SIEVE_LOGSIZE <= TASK_SIZE
      /\ (t + 1) * Shares * Pow3[SIEVE_LOGSIZE] <= UMax(Width)
  BY WidthsAssumption, WorkerAssumption DEF Shares
<1> QED
  BY <1>1, TaskBoundIn DEF Shares

\* The kinds of build.
LEMMA JobKinds ==
  ASSUME Job
  PROVE  /\ task \in Nat /\ prog.kind \in {"worker", "residue"} /\ prog.mod \in {1, 3, 9}
         /\ prog.precalc \in BOOLEAN /\ prog.gmp \in BOOLEAN
         /\ prog.kind = "residue" => ~prog.precalc /\ prog.mod = 1 /\ task < Pow2[LogProcs]
         /\ prog.precalc => prog.kind = "worker"
         /\ Base \in Nat /\ Base = Pow2[SIEVE_LOGSIZE] * (task * Shares)
         /\ Base = 4 * (task * Pow2[TASK_SIZE - 2])
         /\ task * Shares \in Nat /\ task * Pow2[TASK_SIZE - 2] \in Nat
         /\ Base + Pow2[TASK_SIZE] <= UMax(Width)
         /\ Count \in Nat
<1>1. prog \in Program /\ task \in Nat
  BY WorkerAssumption DEF Job
<1>2. /\ prog.kind \in {"worker", "residue"} /\ prog.mod \in {1, 3, 9}
      /\ prog.precalc \in BOOLEAN /\ prog.gmp \in BOOLEAN
      /\ prog.kind = "residue" => ~prog.precalc /\ prog.mod = 1
      /\ prog.precalc => prog.kind = "worker"
  BY <1>1 DEF Program
<1>3. Pow2[TASK_SIZE] \in Nat /\ Pow2[SIEVE_LOGSIZE] \in Nat /\ Shares \in Nat
      /\ Pow2[TASK_SIZE - 2] \in Nat
  BY WorkerConstants, PowerBounds
<1>4. Base = Pow2[SIEVE_LOGSIZE] * (task * Shares) /\ task * Shares \in Nat /\ Base \in Nat
  <2>1. Base = task * (Pow2[SIEVE_LOGSIZE] * Shares)
    BY WorkerConstants DEF Base
  <2>2. /\ task * (Pow2[SIEVE_LOGSIZE] * Shares) = Pow2[SIEVE_LOGSIZE] * (task * Shares)
        /\ task * Shares \in Nat
    BY <1>1, <1>3, ProductLaws
  <2>3. Pow2[SIEVE_LOGSIZE] * (task * Shares) \in Nat
    BY <1>3, <2>2, ProductLaws
  <2> QED
    BY <2>1, <2>2, <2>3
<1>5. Base = 4 * (task * Pow2[TASK_SIZE - 2]) /\ task * Pow2[TASK_SIZE - 2] \in Nat
  <2>1. Base = task * (4 * Pow2[TASK_SIZE - 2])
    BY WorkerConstants DEF Base
  <2>2. /\ task * (4 * Pow2[TASK_SIZE - 2]) = 4 * (task * Pow2[TASK_SIZE - 2])
        /\ task * Pow2[TASK_SIZE - 2] \in Nat
    BY <1>1, <1>3, ProductLaws
  <2> QED
    BY <2>1, <2>2
<1>6. Base + Pow2[TASK_SIZE] <= UMax(Width)
  <2>1. /\ 0 \in 0 .. Shares - 1 /\ 0 \in 0 .. SIEVE_LOGSIZE /\ 0 \in 0 .. Pow3[0] - 1
    BY WorkerConstants, Pow3Defined
  <2>2. (task + 1) * Pow2[TASK_SIZE] <= UMax(Width)
    BY <2>1, TaskBound DEF Job
  <2>3. (task + 1) * Pow2[TASK_SIZE] = task * Pow2[TASK_SIZE] + Pow2[TASK_SIZE]
    <3>1. Pow2[TASK_SIZE] * (task + 1) = (Pow2[TASK_SIZE] * task) + (Pow2[TASK_SIZE] * 1)
      BY <1>1, <1>3, ProductLaws
    <3>2. Pow2[TASK_SIZE] * (task + 1) = (task + 1) * Pow2[TASK_SIZE]
          /\ Pow2[TASK_SIZE] * task = task * Pow2[TASK_SIZE]
      BY <1>1, <1>3, ProductLaws
    <3> QED
      BY <1>3, <3>1, <3>2
  <2> QED
    BY <2>2, <2>3 DEF Base
<1>7. Count \in Nat
  BY <1>1, <1>3, WorkerConstants, PowerBounds DEF Count
<1> QED
  BY <1>1, <1>2, <1>4, <1>5, <1>6, <1>7 DEF Job

\* The numbers of the outer loop: 3 modulo 4, and check's first increment fits.
LEMMA NumberFacts ==
  ASSUME Job, NEW k \in 0 .. Count - 1
  PROVE  /\ Number(k) \in Nat /\ Number(k) % 4 = 3 /\ Number(k) >= 3
         /\ prog.precalc => Number(k) = 3 + 4 * k /\ Number(k) < Pow2[SIEVE_LOGSIZE]
         /\ (~prog.precalc /\ prog.kind = "worker") =>
              Number(k) = Base + 3 + 4 * k /\ Number(k) < Base + Pow2[TASK_SIZE]
         /\ prog.kind = "residue" =>
              /\ Number(k) = PatternNumber((Pow2[LowBits] * task) + k)
              /\ (Pow2[LowBits] * task) + k \in 0 .. Pow2[Target] - 1
         /\ ~prog.precalc => Number(k) + 1 <= UMax(Width)
<1>1. k \in Nat /\ k < Count
  BY JobKinds
<1>2. CASE prog.precalc
  <2>1. Number(k) = 3 + 4 * k /\ Count = Pow2[SIEVE_LOGSIZE - 2]
    BY <1>2, JobKinds DEF Number, Count
  <2>2. Pow2[SIEVE_LOGSIZE] = 4 * Pow2[SIEVE_LOGSIZE - 2] /\ Pow2[SIEVE_LOGSIZE - 2] \in Nat
    BY WorkerConstants, PowerBounds
  <2> QED
    BY <1>1, <1>2, <2>1, <2>2, JobKinds
<1>3. CASE ~prog.precalc /\ prog.kind = "worker"
  <2>1. Number(k) = Base + 3 + 4 * k /\ Count = Pow2[TASK_SIZE - 2]
    BY <1>3 DEF Number, Count
  <2>2. Pow2[TASK_SIZE] = 4 * Pow2[TASK_SIZE - 2] /\ Pow2[TASK_SIZE - 2] \in Nat
    BY WorkerConstants, PowerBounds
  <2>3. PICK b \in Nat : Base = 4 * b
    BY JobKinds
  <2>4. Number(k) % 4 = 3
    BY <1>1, <2>1, <2>3
  <2>5. UMax(Width) \in Nat
    BY WorkerConstants, PowerBounds DEF UMax
  <2> QED
    BY <1>1, <1>3, <2>1, <2>2, <2>3, <2>4, <2>5, JobKinds
<1>4. CASE prog.kind = "residue"
  <2>1. Number(k) = PatternNumber(task * Pow2[LowBits] + k) /\ Count = Pow2[LowBits]
    BY <1>4, JobKinds DEF Number, Count, PatternNumber
  <2>2. ~prog.precalc /\ task \in Nat /\ task < Pow2[LogProcs]
    BY <1>4, JobKinds
  <2>3. /\ Pow2[LowBits] \in Nat \ {0} /\ Pow2[LogProcs] \in Nat
        /\ Pow2[Target] = Pow2[LowBits] * Pow2[LogProcs]
    BY WorkerConstants, PowerBounds
  <2> DEFINE a == (Pow2[LowBits] * task) + k
  <2>4. task * Pow2[LowBits] = Pow2[LowBits] * task /\ Pow2[LowBits] * task \in Nat
    BY <2>2, <2>3, ProductLaws
  <2>5. a \in 0 .. Pow2[Target] - 1
    <3>1. PICK u \in Nat : u = task + 1 /\ u <= Pow2[LogProcs]
      BY <2>2, <2>3
    <3>2. Pow2[LowBits] * u <= Pow2[LowBits] * Pow2[LogProcs]
      BY <2>3, <3>1, ProductOrder
    <3>3. Pow2[LowBits] * (task + 1) = (Pow2[LowBits] * task) + (Pow2[LowBits] * 1)
      <4>1. PICK p \in Nat, b \in Nat : p = Pow2[LowBits] /\ b = task
        BY <2>2, <2>3
      <4>2. p * (b + 1) = (p * b) + (p * 1)
        BY ProductLaws
      <4> QED
        BY <4>1, <4>2
    <3> QED
      BY <1>1, <2>1, <2>3, <2>4, <3>1, <3>2, <3>3
  <2>6. Number(k) = PatternNumber(a)
    BY <2>1, <2>4
  <2>7. a \in Nat
    BY <1>1, <2>4
  <2> HIDE DEF a
  <2>8. /\ PatternNumber(a) \in Nat /\ PatternNumber(a) % 4 = 3
        /\ PatternNumber(a) + 1 <= 6 * Pow3[Target] + 2
        /\ PatternNumber(a) >= 4 * Pow3[Target] + 3
    BY <2>7, PatternNumberValue
  <2>9. 6 * Pow3[Target] + 2 <= UMax(Width) /\ UMax(Width) \in Nat /\ Pow3[Target] \in Nat
    BY WorkerAssumption, WorkerConstants, PowerBounds DEF UMax
  <2>10. Number(k) >= 3 /\ Number(k) + 1 <= UMax(Width)
    BY <2>6, <2>8, <2>9
  <2> QED
    BY <1>4, <2>2, <2>5, <2>6, <2>8, <2>10 DEF a
<1> QED
  BY <1>2, <1>3, <1>4, JobKinds

\* They are different ones.
LEMMA NumberDistinct ==
  ASSUME Job, NEW k \in 0 .. Count - 1, NEW l \in 0 .. Count - 1, Number(k) = Number(l)
  PROVE  k = l
<1>1. k \in Nat /\ l \in Nat
  BY JobKinds
<1>2. CASE prog.precalc
  BY <1>1, <1>2, NumberFacts
<1>3. CASE ~prog.precalc /\ prog.kind = "worker"
  <2>1. Base + 3 + 4 * k = Base + 3 + 4 * l
    BY <1>3, NumberFacts
  <2> QED
    BY <1>1, <2>1, JobKinds
<1>4. CASE prog.kind = "residue"
  <2>1. (Pow2[LowBits] * task) + k = (Pow2[LowBits] * task) + l
    <3>1. /\ Number(k) = PatternNumber((Pow2[LowBits] * task) + k)
          /\ (Pow2[LowBits] * task) + k \in 0 .. Pow2[Target] - 1
          /\ Number(l) = PatternNumber((Pow2[LowBits] * task) + l)
          /\ (Pow2[LowBits] * task) + l \in 0 .. Pow2[Target] - 1
      BY <1>4, NumberFacts
    <3> QED
      BY <3>1, PatternNumberDistinct, Zenon
  <2>2. Pow2[LowBits] * task \in Nat
    BY JobKinds, WorkerConstants, PowerBounds, ProductLaws
  <2> QED
    BY <1>1, <2>1, <2>2
<1> QED
  BY <1>2, <1>3, <1>4, JobKinds

\* The members of a class in the task.
LEMMA MemberFactsIn ==
  ASSUME Job, NEW s \in Nat, s <= TASK_SIZE, NEW c, c = Pow2[TASK_SIZE - s],
         NEW m \in 0 .. Pow2[s] - 1, NEW h \in 0 .. c - 1,
         NEW x, x = Base + h * Pow2[s] + m
  PROVE  LET q == task * c + h IN
         /\ q \in Nat /\ m \in Nat /\ h \in Nat
         /\ x = (Pow2[s] * q) + m
         /\ x \in Nat /\ x >= m
         /\ (Base + h * Pow2[s]) \div Pow2[s] = q
         /\ x \div Pow2[s] = q
         /\ x % Pow2[s] = m
         /\ x >= Base
         /\ x < Base + Pow2[TASK_SIZE]
         /\ x + 1 <= UMax(Width)
         /\ IsLiveIn(x, s) <=> IsLiveIn(m, s)
<1> DEFINE p == Pow2[s]
           a == task * c
           q == a + h
<1>1. p \in Nat \ {0} /\ c \in Nat \ {0} /\ h \in Nat /\ m \in Nat /\ h + 1 <= c
  BY WorkerConstants, PowerBounds
<1>3. Pow2[TASK_SIZE] = p * c /\ Base + Pow2[TASK_SIZE] <= UMax(Width)
  <2>1. Pow2[TASK_SIZE] = p * c
    BY WorkerConstants, PowerSplit
  <2> QED
    BY <2>1, JobKinds
<1>2. a \in Nat /\ Base = p * a /\ q \in Nat /\ Base \in Nat
  <2>1. task \in Nat /\ Base \in Nat
    BY JobKinds
  <2>2. a \in Nat /\ task * (p * c) = p * (task * c)
    <3> HIDE DEF p
    <3> QED
      BY <1>1, <2>1, ProductLaws
  <2> QED
    BY <1>1, <1>3, <2>1, <2>2 DEF Base
<1>4. UMax(Width) \in Nat
  BY WorkerConstants, PowerBounds DEF UMax
<1>5. x = Base + h * p + m
  OBVIOUS
<1> HIDE DEF a, p
<1>6. p * (a + h) = (p * a) + (p * h) /\ h * p = p * h /\ p * h \in Nat /\ p * a \in Nat
  BY <1>1, <1>2, ProductLaws
<1>7. (p * h) + p <= p * c /\ p * c \in Nat
  <2>1. p * (h + 1) = (p * h) + (p * 1) /\ p * c \in Nat
    BY <1>1, ProductLaws
  <2>2. PICK u \in Nat : u = h + 1 /\ u <= c
    BY <1>1
  <2>3. p * u <= p * c
    BY <1>1, <2>2, ProductOrder
  <2> QED
    BY <1>1, <2>1, <2>2, <2>3
<1>8. m < p
  BY <1>1 DEF p
<1>9. /\ x = (p * q) + m /\ x \in Nat /\ x >= m
      /\ x >= Base /\ x < Base + Pow2[TASK_SIZE]
      /\ x + 1 <= UMax(Width)
  BY <1>1, <1>2, <1>3, <1>4, <1>5, <1>6, <1>7, <1>8
<1>10. ((p * q) + m) \div p = q /\ ((p * q) + m) % p = m /\ ((p * q) + 0) \div p = q
  <2>1. m \in 0 .. p - 1 /\ 0 \in 0 .. p - 1
    BY <1>1, <1>8
  <2> HIDE DEF q
  <2> QED
    BY <1>1, <1>2, <2>1, DivisionUnique
<1>11. Base + h * p = (p * q) + 0
  BY <1>2, <1>6
<1>12. m % p = m
  BY <1>1, <1>8
<1>13. IsLiveIn(x, s) <=> IsLiveIn(m, s)
  BY <1>9, <1>10, <1>12 DEF IsLiveIn, p
<1>14. (Base + h * p) \div p = q
  BY <1>10, <1>11
<1> QED
  BY <1>1, <1>2, <1>9, <1>10, <1>13, <1>14 DEF a, p

\* Of the classes of the CPU worker's sieve.
LEMMA MemberFacts ==
  ASSUME Job, NEW m \in 0 .. Pow2[SIEVE_LOGSIZE] - 1, NEW h \in 0 .. Shares - 1
  PROVE  LET q == task * Shares + h IN
         /\ q \in Nat /\ m \in Nat /\ h \in Nat
         /\ Member(m, h) = (Pow2[SIEVE_LOGSIZE] * q) + m
         /\ Member(m, h) \in Nat /\ Member(m, h) >= m
         /\ (Base + h * Pow2[SIEVE_LOGSIZE]) \div Pow2[SIEVE_LOGSIZE] = q
         /\ Member(m, h) \div Pow2[SIEVE_LOGSIZE] = q
         /\ Member(m, h) % Pow2[SIEVE_LOGSIZE] = m
         /\ Member(m, h) >= Base
         /\ Member(m, h) < Base + Pow2[TASK_SIZE]
         /\ Member(m, h) + 1 <= UMax(Width)
         /\ IsLive(Member(m, h)) <=> IsLive(m)
<1>1. PICK s, c, x : /\ s \in Nat /\ s = SIEVE_LOGSIZE /\ s <= TASK_SIZE /\ c = Shares
                     /\ c = Pow2[TASK_SIZE - s] /\ x = Member(m, h)
                     /\ x = Base + h * Pow2[s] + m
  BY WidthsAssumption DEF Member, Shares
<1>2. LET q == task * c + h IN
      /\ q \in Nat /\ m \in Nat /\ h \in Nat /\ x = (Pow2[s] * q) + m
      /\ x \in Nat /\ x >= m /\ (Base + h * Pow2[s]) \div Pow2[s] = q
      /\ x \div Pow2[s] = q /\ x % Pow2[s] = m /\ x >= Base /\ x < Base + Pow2[TASK_SIZE]
      /\ x + 1 <= UMax(Width) /\ (IsLiveIn(x, s) <=> IsLiveIn(m, s))
  BY <1>1, MemberFactsIn
<1> QED
  BY <1>1, <1>2, Zenon DEF IsLive

\* Different classes have different members, and a class has each once.
LEMMA MemberDistinct ==
  ASSUME Job, NEW m \in 0 .. Pow2[SIEVE_LOGSIZE] - 1, NEW h \in 0 .. Shares - 1,
         NEW l \in 0 .. Pow2[SIEVE_LOGSIZE] - 1, NEW g \in 0 .. Shares - 1,
         Member(m, h) = Member(l, g)
  PROVE  m = l /\ h = g
<1>1. /\ Member(m, h) \div Pow2[SIEVE_LOGSIZE] = task * Shares + h
      /\ Member(m, h) % Pow2[SIEVE_LOGSIZE] = m /\ h \in Nat
  BY MemberFacts
<1>2. /\ Member(l, g) \div Pow2[SIEVE_LOGSIZE] = task * Shares + g
      /\ Member(l, g) % Pow2[SIEVE_LOGSIZE] = l /\ g \in Nat
  BY MemberFacts
<1> QED
  BY <1>1, <1>2, JobKinds

-----------------------------------------------------------------------------
(* Where a run is.                                                         *)

Testing == pc \in {"rise", "even", "wide"}
InClass == prog.precalc /\ pc \notin {"solve", "halted"}

\* The steps behind a number when its test begins.
From == IF prog.precalc THEN SIEVE_LOGSIZE ELSE 0

\* The numbers the build checks.
Kept(m) == IsLive(m) /\ IsLiveInSieve(m, prog.mod)

\* The iterate that n stands for.
Cur == IF pc = "rise" THEN n - 1 ELSE IF pc = "even" THEN n ELSE n * Pow3[alpha] - 1

Peak == [n : Nat, n0 : Nat]

Typed ==
  /\ Job /\ pc \in Pcs /\ i \in 0 .. Count
  /\ pc = "halted" => i = Count
  /\ sum \in 0 .. UMax(SumBits) /\ over \in Nat /\ alpha \in Nat
  /\ max \in Peak /\ mpzMax \in Peak

\* precalc takes the steps of the class's least number.
ClassInv ==
  /\ pre \in [L : 0 .. UMax(Half), L0 : Nat, R : 0 .. SIEVE_LOGSIZE,
              Salpha : 0 .. LUT_SIZE64 - 1, h : 0 .. Shares]
  /\ pc \in {"precalc_rise", "precalc_fall", "calc"} => prog.precalc
  /\ InClass =>
       /\ i > 0 /\ pre.L0 = Number(i - 1) /\ IsLive(pre.L0)
       /\ pre.Salpha = OddStepsIn(pre.L0, SIEVE_LOGSIZE - pre.R)
       /\ IF pc \in {"precalc_rise", "precalc_fall"} THEN pre.h = 0 ELSE pre.R = 0
       /\ IF pc = "precalc_rise"
            THEN pre.L > 0 /\ Iterate[SIEVE_LOGSIZE - pre.R][pre.L0] = pre.L - 1
            ELSE Iterate[SIEVE_LOGSIZE - pre.R][pre.L0] = pre.L
       /\ Testing => pre.h > 0 /\ n0 = Member(pre.L0, pre.h - 1)

\* The number under test is on the trajectory of the one it was started with.
NumberInv ==
  /\ n \in Nat /\ n0 \in 0 .. UMax(Width)
  /\ pc # "wide" => n <= UMax(Width)
  /\ pc \in {"rise", "wide"} => n > 0
  /\ pc = "even" => n % 2 = 0
  /\ Testing => /\ n0 >= 3 /\ Kept(n0)
                /\ ~prog.precalc => i > 0 /\ n0 = Number(i - 1)
                /\ \E k \in Nat : k >= From /\ Comes(n0, k, Cur)

PlaceInv == Typed /\ ClassInv /\ NumberInv

\* A step of check takes the number from its k-th iterate to its l-th one, or
\* to the d-th, the first below itself.
Advance(k, l, o) ==
  /\ l >= k /\ Comes(n0, l, Cur')
  /\ OddStepsIn(n0, l) = OddStepsIn(n0, k) + o
  /\ \A j \in k .. l : Iterate[j][n0] <= Cur \/ Iterate[j][n0] <= Cur'

Finish(k, d) ==
  /\ d > k /\ Descends(n0, d)
  /\ OddStepsIn(n0, d) = OddStepsIn(n0, k)
  /\ \A j \in k .. d - 1 : Iterate[j][n0] <= Cur

\* Rounds of Rise.
LEMMA RiseWalk ==
  ASSUME PlaceInv, Rise, NEW k \in Nat, Comes(n0, k, Cur)
  PROVE  \/ pc' = "aborted" /\ n' \in Nat /\ n' <= UMax(Width)
         \/ /\ Testing' /\ n' \in Nat /\ Cur <= Cur'
            /\ pc' # "wide" => n' <= UMax(Width)
            /\ pc' \in {"rise", "wide"} => n' > 0
            /\ pc' = "even" => n' % 2 = 0
            /\ \E l \in Nat, o \in Nat : sum' = Checksum(sum + o) /\ Advance(k, l, o)
<1> DEFINE a == Alpha(n, Half, LUT_SIZE64)
           m == n \div Pow2[a]
           y == m * Pow3[a]
<1>1. n \in Nat /\ n > 0 /\ n <= UMax(Width) /\ Cur = n - 1 /\ alpha \in Nat
  BY DEF PlaceInv, NumberInv, Typed, Rise, Cur
<1>2. /\ a \in Nat /\ n = Pow2[a] * m /\ m \in Nat \ {0}
  <2>1. Half \in Nat \ {0} /\ LUT_SIZE64 \in Nat /\ LUT_SIZE64 > 1
    BY WorkerConstants
  <2> QED
    BY <1>1, <2>1, AlphaValue
<1>3. /\ sum' = Checksum(sum + a) /\ n0' = n0
      /\ IF m > UMax(Width) \div Pow2[2 * a]
           THEN /\ n' = m /\ alpha' = a
                /\ IF prog.gmp THEN pc' = "wide" ELSE pc' = "aborted"
           ELSE IF Odd(y) THEN n' = y - 1 /\ pc' = "even"
                          ELSE n' = y     /\ pc' = "rise"
  BY DEF Rise
<1> HIDE DEF a
<1>4. Pow3[a] \in Nat \ {0} /\ Pow2[a] \in Nat \ {0}
  BY <1>2, PowerBounds
<1> HIDE DEF m
<1>5. y \in Nat \ {0} /\ m <= n
  <2>1. y \in Nat \ {0}
    BY <1>2, <1>4, ProductPositive
  <2>2. 1 * m <= Pow2[a] * m
    <3>1. PICK p \in Nat \ {0} : p = Pow2[a]
      BY <1>4
    <3>2. 1 <= p /\ 1 \in Nat
      OBVIOUS
    <3> QED
      BY <1>2, <3>1, <3>2, ProductOrder
  <2> QED
    BY <1>1, <1>2, <2>1, <2>2
<1>6. /\ Comes(n0, k + a, y - 1)
      /\ OddStepsIn(n0, k + a) = OddStepsIn(n0, k) + a
      /\ \A j \in k .. k + a : Iterate[j][n0] <= y - 1
  <2>1. n0 \in Nat
    BY WorkerConstants, PowerBounds DEF PlaceInv, NumberInv
  <2>2. Comes(n0, k, (Pow2[a] * m) - 1)
    BY <1>1, <1>2
  <2> QED
    BY <1>2, <2>1, <2>2, ComesRise
<1> HIDE DEF y
<1>7. ASSUME Cur' = y - 1 PROVE Advance(k, k + a, a) /\ Cur <= Cur'
  <2>1. k + a >= k /\ k \in k .. k + a
    BY <1>2
  <2>2. Iterate[k][n0] = Cur
    BY DEF Comes
  <2> QED
    BY <1>6, <1>7, <2>1, <2>2, Zenon DEF Advance
<1>8. k + a \in Nat
  BY <1>2
<1>9. UMax(Width) \in Nat
  BY WorkerConstants, PowerBounds DEF UMax
<1>10. CASE m > UMax(Width) \div Pow2[2 * a]
  <2>1. n' = m /\ alpha' = a /\ (pc' = "wide" \/ pc' = "aborted")
    BY <1>3, <1>10
  <2>2. CASE pc' = "aborted"
    BY <1>1, <1>2, <1>5, <1>9, <2>1, <2>2
  <2>3. CASE pc' = "wide"
    <3>1. Cur' = y - 1
      BY <2>1, <2>3 DEF Cur, y
    <3>2. Cur <= Cur' /\ \E l \in Nat, o \in Nat : sum' = Checksum(sum + o) /\ Advance(k, l, o)
      BY <1>2, <1>3, <1>7, <1>8, <3>1
    <3> QED
      BY <1>2, <2>1, <2>3, <3>2 DEF Testing
  <2> QED
    BY <2>1, <2>2, <2>3
<1>11. CASE m <= UMax(Width) \div Pow2[2 * a]
  <2>0. ~(m > UMax(Width) \div Pow2[2 * a])
    <3>1. UMax(Width) \div Pow2[2 * a] \in Nat
      <4>1. 2 * a \in Nat
        BY <1>2
      <4>2. Pow2[2 * a] \in Nat \ {0}
        BY <4>1, PowerBounds
      <4> QED
        BY <1>9, <4>2, Division
    <3> QED
      BY <1>2, <1>11, <3>1
  <2>1. y <= UMax(Width)
    BY <1>2, <1>9, <1>11, ProductFits DEF y
  <2>2. CASE Odd(y)
    <3>1. n' = y - 1 /\ pc' = "even"
      BY <1>3, <2>0, <2>2
    <3>2. Cur' = y - 1
      BY <3>1 DEF Cur
    <3>3. (y - 1) % 2 = 0
      BY <1>5, <2>2 DEF Odd
    <3>4. Cur <= Cur' /\ \E l \in Nat, o \in Nat : sum' = Checksum(sum + o) /\ Advance(k, l, o)
      BY <1>2, <1>3, <1>7, <1>8, <3>2
    <3> QED
      BY <1>5, <1>9, <2>1, <3>1, <3>3, <3>4 DEF Testing
  <2>3. CASE ~Odd(y)
    <3>1. n' = y /\ pc' = "rise"
      BY <1>3, <2>0, <2>3
    <3>2. Cur' = y - 1
      BY <3>1 DEF Cur
    <3>4. Cur <= Cur' /\ \E l \in Nat, o \in Nat : sum' = Checksum(sum + o) /\ Advance(k, l, o)
      BY <1>2, <1>3, <1>7, <1>8, <3>2
    <3> QED
      BY <1>5, <1>9, <2>1, <3>1, <3>4 DEF Testing
  <2> QED
    BY <2>2, <2>3
<1>12. m > UMax(Width) \div Pow2[2 * a] \/ m <= UMax(Width) \div Pow2[2 * a]
  <2>1. 2 * a \in Nat
    BY <1>2
  <2>2. Pow2[2 * a] \in Nat \ {0}
    BY <2>1, PowerBounds
  <2>3. UMax(Width) \div Pow2[2 * a] \in Nat
    BY <1>9, <2>2, Division
  <2> QED
    BY <1>2, <2>3
<1> QED
  BY <1>10, <1>11, <1>12, Zenon

\* Rounds of Fall.
LEMMA FallWalk ==
  ASSUME PlaceInv, Fall, NEW k \in Nat, Comes(n0, k, Cur)
  PROVE  /\ sum' = sum
         /\ \/ /\ pc' = "rise" /\ tested' = tested
               /\ n' \in Nat /\ n' > 0 /\ n' <= UMax(Width)
               /\ \E l \in Nat : Advance(k, l, 0)
            \/ /\ pc' = (IF prog.precalc THEN "calc" ELSE "solve")
               /\ tested' = tested \cup {n0} /\ n' = 0
               /\ \E d \in Nat : Finish(k, d)
<1> DEFINE m == OddPart(n)
<1>1. /\ n \in Nat /\ n <= UMax(Width) /\ n % 2 = 0 /\ Cur = n /\ n0 \in Nat /\ n0 >= 3
      /\ UMax(Width) \in Nat
  <2>1. UMax(Width) \in Nat
    BY WorkerConstants, PowerBounds DEF UMax
  <2> QED
    BY <2>1 DEF PlaceInv, NumberInv, Fall, Cur, Testing
<1>2. n >= n0
  <2>1. k \in 0 .. k
    OBVIOUS
  <2> QED
    BY <1>1, <2>1 DEF Comes
<1>3. n \in Nat \ {0} /\ Comes(n0, k, n)
  BY <1>1, <1>2
<1>4. PICK z \in Nat : n = Pow2[z] * m /\ m \in Nat \ {0} /\ z > 0
  BY <1>1, <1>3, OddPartValue
<1>5. m + 1 <= n
  <2> HIDE DEF m
  <2>1. Pow2[z] >= 2
    <3>1. Pow2[z] \in Nat /\ Pow2[z] > z
      BY PowerBounds
    <3> QED
      BY <1>4, <3>1
  <2>2. PICK p \in Nat : p = Pow2[z] /\ 2 <= p
    BY <2>1, PowerBounds
  <2>3. 2 * m <= p * m
    <3>1. 2 \in Nat /\ m \in Nat
      BY <1>4
    <3> QED
      BY <2>2, <3>1, ProductOrder
  <2> QED
    BY <1>1, <1>4, <2>2, <2>3
<1>6. CASE m < n0
  <2>1. /\ pc' = (IF prog.precalc THEN "calc" ELSE "solve")
        /\ tested' = tested \cup {n0} /\ n' = 0 /\ sum' = sum
    BY <1>6 DEF Fall, Return
  <2>2. PICK d \in Nat : /\ d > k /\ Descends(n0, d)
                         /\ OddStepsIn(n0, d) = OddStepsIn(n0, k)
                         /\ \A j \in k .. d - 1 : Iterate[j][n0] <= n
    BY <1>1, <1>3, <1>6, ComesFall
  <2>3. Finish(k, d)
    BY <1>1, <2>2, Zenon DEF Finish
  <2> QED
    BY <2>1, <2>3
<1>7. CASE ~(m < n0)
  <2>1. pc' = "rise" /\ tested' = tested /\ n' = m + 1 /\ sum' = sum
    BY <1>7 DEF Fall
  <2>2. m >= n0
    BY <1>1, <1>4, <1>7
  <2>3. PICK l \in Nat : /\ l >= k /\ Comes(n0, l, m)
                         /\ OddStepsIn(n0, l) = OddStepsIn(n0, k)
                         /\ \A j \in k .. l : Iterate[j][n0] <= n
    BY <1>1, <1>3, <2>2, ComesFall
  <2> HIDE DEF m
  <2>4. Cur' = m
    BY <1>4, <2>1 DEF Cur
  <2>5. OddStepsIn(n0, k) + 0 = OddStepsIn(n0, k)
    BY <1>1, OddStepsNext
  <2>6. Advance(k, l, 0)
    BY <1>1, <2>3, <2>4, <2>5, Zenon DEF Advance
  <2>7. n' \in Nat /\ n' > 0 /\ n' <= UMax(Width)
    BY <1>1, <1>4, <1>5, <2>1
  <2> QED
    BY <2>1, <2>6, <2>7
<1> QED
  BY <1>6, <1>7

\* Rounds of the unbounded check.
LEMMA WideWalk ==
  ASSUME PlaceInv, WideStep, NEW k \in Nat, Comes(n0, k, Cur)
  PROVE  \/ /\ pc' = "wide" /\ tested' = tested
            /\ n' \in Nat /\ n' > 0 /\ alpha' \in Nat
            /\ \E l \in Nat, o \in Nat : sum' = Checksum(sum + o) /\ Advance(k, l, o)
         \/ /\ pc' = (IF prog.precalc THEN "calc" ELSE "solve")
            /\ tested' = tested \cup {n0} /\ n' = 0 /\ sum' = sum /\ alpha' = alpha
            /\ \E d \in Nat : Finish(k, d)
<1> DEFINE top == n * Pow3[alpha] - 1
           m == OddPart(top)
           a == Ctz(m + 1, m + 1)
           u == (m + 1) \div Pow2[a]
<1>1. n \in Nat /\ Cur = top /\ n0 \in Nat /\ n0 >= 3 /\ alpha \in Nat /\ n > 0
  <2>1. UMax(Width) \in Nat
    BY WorkerConstants, PowerBounds DEF UMax
  <2> QED
    BY <2>1 DEF PlaceInv, NumberInv, Typed, WideStep, Cur, Testing
<1>2. top \in Nat \ {0}
  <2>1. k \in 0 .. k
    OBVIOUS
  <2>2. Iterate[k][n0] = Cur /\ Iterate[k][n0] >= n0 /\ Iterate[k][n0] \in Nat
    BY <1>1, <2>1, IterateDefined DEF Comes
  <2> HIDE DEF top
  <2> QED
    BY <1>1, <2>2
<1>3. /\ IF m < n0 THEN Return /\ UNCHANGED <<alpha, sum>>
         ELSE /\ alpha' = a /\ sum' = Checksum(sum + a) /\ n' = u
              /\ UNCHANGED <<pc, tested>>
      /\ pc = "wide" /\ n0' = n0
  BY DEF WideStep
<1> HIDE DEF top
<1>4. m \in Nat \ {0} /\ Comes(n0, k, top)
  BY <1>1, <1>2, OddPartValue
<1>6. CASE m < n0
  <2>1. /\ pc' = (IF prog.precalc THEN "calc" ELSE "solve")
        /\ tested' = tested \cup {n0} /\ n' = 0 /\ sum' = sum /\ alpha' = alpha
    BY <1>3, <1>6 DEF Return
  <2>2. PICK d \in Nat : /\ d > k /\ Descends(n0, d)
                         /\ OddStepsIn(n0, d) = OddStepsIn(n0, k)
                         /\ \A j \in k .. d - 1 : Iterate[j][n0] <= top
    BY <1>1, <1>2, <1>4, <1>6, ComesFall
  <2>3. Finish(k, d)
    BY <1>1, <2>2, Zenon DEF Finish
  <2> QED
    BY <2>1, <2>3
<1>7. CASE ~(m < n0)
  <2>1. /\ alpha' = a /\ sum' = Checksum(sum + a) /\ n' = u
        /\ pc' = "wide" /\ tested' = tested
    BY <1>3, <1>7
  <2>2. m >= n0
    BY <1>1, <1>4, <1>7
  <2>3. PICK l \in Nat : /\ l >= k /\ Comes(n0, l, m)
                         /\ OddStepsIn(n0, l) = OddStepsIn(n0, k)
                         /\ \A j \in k .. l : Iterate[j][n0] <= top
    BY <1>1, <1>2, <1>4, <2>2, ComesFall
  <2> HIDE DEF m
  <2>4. a \in Nat /\ m + 1 = Pow2[a] * u /\ u \in Nat \ {0}
    <3>1. m + 1 \in Nat /\ m + 1 # 0
      BY <1>4
    <3>2. a \in 0 .. m + 1 /\ (m + 1) % Pow2[a] = 0
      BY <3>1, CtzValue, Zenon
    <3>3. a \in Nat /\ a \in 0 .. a
      BY <3>1, <3>2
    <3> HIDE DEF a
    <3> QED
      BY <3>1, <3>2, <3>3, LowerFactor
  <2> HIDE DEF a, u
  <2>5. /\ Comes(n0, l + a, (u * Pow3[a]) - 1)
        /\ OddStepsIn(n0, l + a) = OddStepsIn(n0, l) + a
        /\ \A j \in l .. l + a : Iterate[j][n0] <= (u * Pow3[a]) - 1
    <3>1. Comes(n0, l, (Pow2[a] * u) - 1)
      <4>1. (Pow2[a] * u) - 1 = m
        BY <1>4, <2>4
      <4> QED
        BY <2>3, <4>1
    <3> QED
      BY <1>1, <2>4, <3>1, ComesRise
  <2>6. Cur' = (u * Pow3[a]) - 1
    BY <2>1 DEF Cur
  <2>7. \A j \in k .. l + a : j \in k .. l \/ j \in l .. l + a
    BY <2>4
  <2>8. l + a >= k /\ l + a \in Nat
    BY <2>3, <2>4
  <2>9. Advance(k, l + a, a)
    BY <1>1, <2>3, <2>5, <2>6, <2>7, <2>8, Zenon DEF Advance
  <2> QED
    BY <2>1, <2>4, <2>8, <2>9
<1> QED
  BY <1>6, <1>7

\* One round of check, whichever it is.
LEMMA CheckStep ==
  ASSUME PlaceInv, Rise \/ Fall \/ WideStep, NEW k \in Nat, Comes(n0, k, Cur)
  PROVE  \/ pc' = "aborted"
         \/ /\ Testing' /\ tested' = tested
            /\ \E l \in Nat, o \in Nat : sum' = Checksum(sum + o) /\ Advance(k, l, o)
         \/ /\ pc' = (IF prog.precalc THEN "calc" ELSE "solve")
            /\ tested' = tested \cup {n0} /\ sum' = sum
            /\ \E d \in Nat : Finish(k, d)
<1>1. CASE Rise
  <2>1. tested' = tested
    BY <1>1 DEF Rise
  <2> QED
    BY <1>1, <2>1, RiseWalk
<1>2. CASE Fall
  <2>1. Checksum(sum + 0) = sum
    <3>1. sum \in 0 .. UMax(SumBits) /\ sum \in Nat /\ 0 \in Nat /\ sum + 0 = sum
      BY WorkerConstants, PowerBounds DEF PlaceInv, Typed, UMax
    <3> QED
      BY <3>1, ChecksumValue
  <2>2. 0 \in Nat
    OBVIOUS
  <2>3. pc' = "rise" => Testing'
    BY DEF Testing
  <2> QED
    BY <1>2, <2>1, <2>2, <2>3, FallWalk
<1>3. CASE WideStep
  <2>1. pc' = "wide" => Testing'
    BY DEF Testing
  <2> QED
    BY <1>3, <2>1, WideWalk
<1> QED
  BY <1>1, <1>2, <1>3

\* What depends on the build and its argument alone.
LEMMA SameJob ==
  ASSUME UNCHANGED <<prog, task>>
  PROVE  /\ Job' <=> Job
         /\ Base' = Base /\ Count' = Count /\ From' = From
         /\ \A k : Number(k)' = Number(k)
         /\ \A m, h : Member(m, h)' = Member(m, h)
         /\ \A m : Kept(m)' <=> Kept(m)
BY DEF Job, Base, Count, From, Number, Member, Kept

\* The rounds of check keep the place.
LEMMA CheckKeepsPlace ==
  ASSUME PlaceInv, Rise \/ Fall \/ WideStep
  PROVE  PlaceInv'
<1>1. /\ UNCHANGED <<prog, task, i, n0, pre>> /\ pc \in {"rise", "even", "wide"}
  BY DEF Rise, Fall, WideStep
<1>2. /\ Job' <=> Job
      /\ Base' = Base /\ Count' = Count /\ From' = From
      /\ \A k : Number(k)' = Number(k)
      /\ \A m, h : Member(m, h)' = Member(m, h)
      /\ \A m : Kept(m)' <=> Kept(m)
  BY <1>1, SameJob
<1>3. /\ Typed /\ ClassInv /\ NumberInv /\ Testing
  BY <1>1 DEF PlaceInv, Testing
<1>4. PICK k \in Nat : k >= From /\ Comes(n0, k, Cur)
  BY <1>3 DEF NumberInv
<1>5. /\ n \in Nat /\ n0 \in Nat /\ n0 >= 3 /\ alpha \in Nat /\ UMax(Width) \in Nat
      /\ prog.precalc \in BOOLEAN
  <2>1. UMax(Width) \in Nat
    BY WorkerConstants, PowerBounds DEF UMax
  <2>2. prog.precalc \in BOOLEAN
    BY <1>3, JobKinds DEF Typed
  <2> QED
    BY <1>3, <2>1, <2>2 DEF NumberInv, Typed
<1>6. \A m \in Nat, r \in Peak : Higher(m, r) \in Peak
  BY <1>5 DEF Higher, Peak
<1>7. pc = "wide" => n * Pow3[alpha] - 1 \in Nat
  <2>1. Pow3[alpha] \in Nat \ {0}
    BY <1>5, PowerBounds
  <2>2. ASSUME pc = "wide" PROVE n * Pow3[alpha] \in Nat \ {0}
    <3>1. n \in Nat \ {0}
      BY <1>3, <2>2 DEF NumberInv
    <3> QED
      BY <2>1, <3>1, ProductPositive
  <2> QED
    BY <2>2
<1>8. max' \in Peak /\ mpzMax' \in Peak /\ over' \in Nat
  BY <1>3, <1>5, <1>6, <1>7 DEF Rise, Fall, WideStep, Typed
<1>9. /\ pc' \in Pcs /\ pc' # "halted" /\ alpha' \in Nat
      /\ sum' \in 0 .. UMax(SumBits)
      /\ n' \in Nat /\ (pc' # "wide" => n' <= UMax(Width))
      /\ pc' \in {"rise", "wide"} => n' > 0
      /\ pc' = "even" => n' % 2 = 0
      /\ pc' \in {"rise", "even", "wide", "calc", "solve", "aborted"}
      /\ pc' = "calc" => prog.precalc
      /\ Testing' => \E l \in Nat : l >= From /\ Comes(n0, l, Cur')
  <2>0. \A o \in Nat : Checksum(sum + o) \in 0 .. UMax(SumBits)
    <3>1. sum \in Nat
      BY <1>3, WorkerConstants, PowerBounds DEF Typed, UMax
    <3> QED
      BY <3>1, ChecksumValue
  <2>1. \A l \in Nat, o \in Nat : Advance(k, l, o) => l >= From /\ Comes(n0, l, Cur')
    <3>1. From \in Nat
      BY WorkerConstants DEF From
    <3> QED
      BY <1>4, <3>1 DEF Advance
  <2>2. sum \in 0 .. UMax(SumBits)
    BY <1>3 DEF Typed
  <2>3. CASE Rise
    <3>1. alpha' \in Nat
      <4>1. Alpha(n, Half, LUT_SIZE64) \in Nat
        BY <1>5, WorkerConstants, AlphaValue
      <4> QED
        BY <1>5, <2>3, <4>1 DEF Rise
    <3>2. CASE pc' = "aborted"
      <4>1. sum' \in 0 .. UMax(SumBits)
        <5>1. sum' = Checksum(sum + Alpha(n, Half, LUT_SIZE64))
          BY <2>3 DEF Rise
        <5>2. Alpha(n, Half, LUT_SIZE64) \in Nat
          BY <1>5, WorkerConstants, AlphaValue
        <5> QED
          BY <2>0, <5>1, <5>2
      <4>2. n' \in Nat /\ n' <= UMax(Width)
        BY <1>4, <2>3, <3>2, RiseWalk DEF Testing
      <4> QED
        BY <3>1, <3>2, <4>1, <4>2 DEF Pcs, Testing
    <3>3. CASE pc' # "aborted"
      <4>1. /\ Testing' /\ n' \in Nat
            /\ pc' # "wide" => n' <= UMax(Width)
            /\ pc' \in {"rise", "wide"} => n' > 0
            /\ pc' = "even" => n' % 2 = 0
            /\ \E l \in Nat, o \in Nat : sum' = Checksum(sum + o) /\ Advance(k, l, o)
        BY <1>4, <2>3, <3>3, RiseWalk
      <4>2. pc' \in {"rise", "even", "wide"}
        BY <4>1 DEF Testing
      <4> QED
        BY <2>0, <2>1, <3>1, <4>1, <4>2 DEF Pcs
    <3> QED
      BY <3>2, <3>3
  <2>4. CASE Fall
    <3>1. alpha' = alpha
      BY <2>4 DEF Fall
    <3>2. sum' = sum
      BY <1>4, <2>4, FallWalk
    <3>3. CASE /\ pc' = "rise" /\ tested' = tested
               /\ n' \in Nat /\ n' > 0 /\ n' <= UMax(Width)
               /\ \E l \in Nat : Advance(k, l, 0)
      <4>1. 0 \in Nat
        OBVIOUS
      <4> QED
        BY <1>5, <2>1, <2>2, <3>1, <3>2, <3>3, <4>1 DEF Pcs
    <3>4. CASE /\ pc' = (IF prog.precalc THEN "calc" ELSE "solve") /\ n' = 0
      BY <1>5, <2>2, <3>1, <3>2, <3>4 DEF Pcs, Testing
    <3> QED
      BY <1>4, <2>4, <3>3, <3>4, FallWalk
  <2>5. CASE WideStep
    <3>1. CASE /\ pc' = "wide" /\ n' \in Nat /\ n' > 0 /\ alpha' \in Nat
               /\ \E l \in Nat, o \in Nat : sum' = Checksum(sum + o) /\ Advance(k, l, o)
      BY <2>0, <2>1, <3>1 DEF Pcs
    <3>2. CASE /\ pc' = (IF prog.precalc THEN "calc" ELSE "solve") /\ n' = 0
               /\ sum' = sum /\ alpha' = alpha
      BY <1>5, <2>2, <3>2 DEF Pcs, Testing
    <3> QED
      BY <1>4, <2>5, <3>1, <3>2, WideWalk
  <2> QED
    BY <2>3, <2>4, <2>5
<1>10. Typed'
  BY <1>1, <1>2, <1>3, <1>8, <1>9 DEF Typed
<1>11. ClassInv'
  <2>1. prog.precalc => InClass
    BY <1>1 DEF InClass
  <2>2. Testing
    BY <1>3
  <2> QED
    BY <1>1, <1>2, <1>3, <1>9, <2>1, <2>2 DEF ClassInv, InClass, Testing
<1>12. NumberInv'
  BY <1>1, <1>2, <1>3, <1>5, <1>9 DEF NumberInv
<1> QED
  BY <1>10, <1>11, <1>12 DEF PlaceInv

\* What precalc makes of a class fits 64 bits, and its powers the table.
LEMMA ClassFitsIn ==
  ASSUME NEW s \in Nat, s < LUT_SIZE64, NEW b \in 0 .. Pow2[s] - 1, NEW k \in 0 .. s
  PROVE  /\ Iterate[k][b] \in Nat /\ Iterate[k][b] + 1 <= UMax(Half)
         /\ OddStepsIn(b, k) \in 0 .. LUT_SIZE64 - 1 /\ OddStepsIn(b, k) \in 0 .. s
         /\ k = s => Iterate[k][b] < Pow3[OddStepsIn(b, k)]
<1> DEFINE o == OddStepsIn(b, k)
           v == Iterate[k][b]
<1>1. s \in Nat /\ Pow2[s] \in Nat \ {0} /\ b \in Nat /\ b < Pow2[s] /\ k \in Nat /\ s - k \in Nat
      /\ LUT_SIZE64 \in Nat /\ s <= LUT_SIZE64 - 1
  BY WorkerConstants, PowerBounds
<1>2. o \in 0 .. k /\ o \in Nat /\ v \in Nat
  BY <1>1, OddStepsNext, IterateDefined
<1>3. v < Pow2[s - k] * Pow3[o]
  BY <1>1, ClassBound
<1> HIDE DEF o, v
<1>4. Pow2[s - k] * Pow3[o] <= Pow3[s - k] * Pow3[o] /\ Pow2[s - k] * Pow3[o] \in Nat
      /\ Pow3[s - k] * Pow3[o] \in Nat
  <2>1. Pow2[s - k] \in Nat /\ Pow3[s - k] \in Nat /\ Pow3[o] \in Nat /\ Pow2[s - k] <= Pow3[s - k]
    BY <1>1, <1>2, PowerBounds
  <2> QED
    BY <2>1, ProductOrder, ProductLaws
<1>5. Pow3[s - k] * Pow3[o] = Pow3[(s - k) + o]
  BY <1>1, <1>2, PowerSum
<1>6. Pow3[(s - k) + o] <= Pow3[LUT_SIZE64 - 1] /\ Pow3[LUT_SIZE64 - 1] \in Nat
  <2>1. /\ (s - k) + o \in Nat /\ LUT_SIZE64 - 1 \in Nat
        /\ (s - k) + o <= LUT_SIZE64 - 1
    BY <1>1, <1>2
  <2> QED
    BY <2>1, PowerOrder, PowerBounds
<1>7. Pow3[LUT_SIZE64 - 1] < Pow2[Half] /\ Pow2[Half] \in Nat
  BY WidthsAssumption, WorkerConstants, PowerBounds
<1>8. v + 1 <= UMax(Half)
  BY <1>2, <1>3, <1>4, <1>5, <1>6, <1>7 DEF UMax
<1>9. ASSUME k = s PROVE v < Pow3[o]
  <2>1. s - k = 0 /\ Pow2[0] = 1 /\ Pow3[o] \in Nat
    <3>1. s - k = 0
      BY <1>1, <1>9
    <3> QED
      BY <1>2, <3>1, PowerBounds, Pow2Defined
  <2>2. Pow2[s - k] * Pow3[o] = Pow3[o]
    BY <2>1
  <2> QED
    BY <1>3, <2>2
<1>10. o \in 0 .. LUT_SIZE64 - 1 /\ o \in 0 .. s
  BY <1>1, <1>2
<1> QED
  BY <1>2, <1>8, <1>9, <1>10 DEF o, v

\* So they do in the sieve of the CPU worker.
LEMMA ClassFits ==
  ASSUME NEW b \in 0 .. Pow2[SIEVE_LOGSIZE] - 1, NEW k \in 0 .. SIEVE_LOGSIZE
  PROVE  /\ Iterate[k][b] \in Nat /\ Iterate[k][b] + 1 <= UMax(Half)
         /\ OddStepsIn(b, k) \in 0 .. LUT_SIZE64 - 1 /\ OddStepsIn(b, k) \in 0 .. SIEVE_LOGSIZE
         /\ k = SIEVE_LOGSIZE => Iterate[k][b] < Pow3[OddStepsIn(b, k)]
<1>1. SIEVE_LOGSIZE \in Nat /\ SIEVE_LOGSIZE < LUT_SIZE64
  BY WorkerConstants
<1> QED
  BY <1>1, ClassFitsIn

\* The start.
LEMMA InitPlace == Init => PlaceInv
<1> SUFFICES ASSUME Init PROVE PlaceInv
  OBVIOUS
<1>1. Job
  BY DEF Init, Job
<1>2. /\ UMax(SumBits) \in Nat /\ UMax(Width) \in Nat /\ UMax(Half) \in Nat
      /\ LUT_SIZE64 - 1 \in Nat /\ Shares \in Nat /\ Count \in Nat /\ SIEVE_LOGSIZE \in Nat
  BY <1>1, WorkerConstants, PowerBounds, JobKinds DEF UMax
<1>3. Typed
  BY <1>1, <1>2 DEF Init, Typed, Pcs, Peak
<1>4. ClassInv
  BY <1>2 DEF Init, ClassInv, NoPre, InClass, Testing
<1>5. NumberInv
  BY <1>2 DEF Init, NumberInv, Testing
<1> QED
  BY <1>3, <1>4, <1>5 DEF PlaceInv

\* The next number, or class.
LEMMA SolveKeepsPlace ==
  ASSUME PlaceInv, SolveTask
  PROVE  PlaceInv'
<1> DEFINE k == Number(i)
<1>1. /\ Typed /\ ClassInv /\ NumberInv /\ Job /\ i \in 0 .. Count /\ i < Count /\ pc = "solve"
      /\ i' = i + 1 /\ UNCHANGED <<prog, task, alpha, sum, over, max, mpzMax, tested>>
  BY DEF PlaceInv, Typed, SolveTask
<1>2. /\ Job' <=> Job
      /\ Base' = Base /\ Count' = Count /\ From' = From
      /\ \A x : Number(x)' = Number(x)
      /\ \A m, h : Member(m, h)' = Member(m, h)
      /\ \A m : Kept(m)' <=> Kept(m)
  BY <1>1, SameJob
<1>3. /\ i \in 0 .. Count - 1 /\ i \in Nat /\ Count \in Nat /\ i' \in 0 .. Count /\ i' > 0
      /\ i' - 1 = i
  BY <1>1, JobKinds
<1>4. /\ k \in Nat /\ k % 4 = 3 /\ k >= 3
      /\ prog.precalc => k < Pow2[SIEVE_LOGSIZE]
      /\ ~prog.precalc => k + 1 <= UMax(Width)
  BY <1>1, <1>3, NumberFacts
<1>5. Number(i - 1)' = k
  BY <1>2, <1>3
<1> HIDE DEF k
<1>7. ASSUME pc' \in Pcs, pc' # "halted" PROVE Typed'
  BY <1>1, <1>2, <1>3, <1>7 DEF Typed
<1>8. CASE pc' = pc /\ UNCHANGED <<n0, n, pre>>
  <2>1. Typed'
    BY <1>1, <1>7, <1>8 DEF Pcs
  <2>2. ClassInv'
    BY <1>1, <1>8 DEF ClassInv, InClass, Testing
  <2>3. NumberInv'
    BY <1>1, <1>8 DEF NumberInv, Testing
  <2> QED
    BY <2>1, <2>2, <2>3 DEF PlaceInv
<1>9. CASE /\ IsLive(k) /\ prog.precalc /\ pc' = "precalc_rise"
           /\ pre' = [NoPre EXCEPT !.L = k + 1, !.L0 = k, !.R = SIEVE_LOGSIZE]
           /\ UNCHANGED <<n0, n>>
  <2>1. Typed'
    BY <1>7, <1>9 DEF Pcs
  <2>2. /\ pre'.L = k + 1 /\ pre'.L0 = k /\ pre'.R = SIEVE_LOGSIZE /\ pre'.Salpha = 0 /\ pre'.h = 0
        /\ pre' = [L |-> k + 1, L0 |-> k, R |-> SIEVE_LOGSIZE, Salpha |-> 0, h |-> 0]
    BY <1>9 DEF NoPre
  <2>3. SIEVE_LOGSIZE \in Nat /\ SIEVE_LOGSIZE - SIEVE_LOGSIZE = 0 /\ UMax(Half) \in Nat
        /\ Shares \in Nat /\ LUT_SIZE64 - 1 \in Nat
    BY WorkerConstants, PowerBounds DEF UMax
  <2>4. Iterate[0][k] = k /\ OddStepsIn(k, 0) = 0
    BY <1>4, IterateDefined, OddStepsNext
  <2>5. k + 1 <= UMax(Half)
    <3>1. k \in 0 .. Pow2[SIEVE_LOGSIZE] - 1 /\ 0 \in 0 .. SIEVE_LOGSIZE
      BY <1>4, <1>9, <2>3, PowerBounds
    <3> QED
      BY <2>4, <3>1, ClassFits
  <2>6. pre' \in [L : 0 .. UMax(Half), L0 : Nat, R : 0 .. SIEVE_LOGSIZE,
                  Salpha : 0 .. LUT_SIZE64 - 1, h : 0 .. Shares]
    BY <1>4, <2>2, <2>3, <2>5
  <2>7. ClassInv'
    BY <1>1, <1>3, <1>4, <1>5, <1>9, <2>2, <2>3, <2>4, <2>6 DEF ClassInv, InClass, Testing
  <2>8. NumberInv'
    BY <1>1, <1>9 DEF NumberInv, Testing
  <2> QED
    BY <2>1, <2>7, <2>8 DEF PlaceInv
<1>10. CASE /\ IsLive(k) /\ IsLiveInSieve(k, prog.mod) /\ ~prog.precalc
            /\ Enter(k, k) /\ UNCHANGED pre
  <2>1. n0' = k /\ n' = k + 1 /\ pc' = "rise"
    <3>1. Odd(k)
      BY <1>4 DEF Odd
    <3> QED
      BY <1>10, <3>1 DEF Enter
  <2>2. Typed'
    BY <1>7, <2>1 DEF Pcs
  <2>3. ClassInv'
    BY <1>1, <1>10, <2>1 DEF ClassInv, InClass, Testing
  <2>4. Cur' = k /\ From' = 0
    BY <1>1, <1>4, <1>10, <2>1 DEF Cur, From
  <2>5. Comes(k, 0, k)
    BY <1>4, IterateDefined DEF Comes
  <2>6. \E l \in Nat : l >= From' /\ Comes(n0', l, Cur')
    BY <2>1, <2>4, <2>5
  <2>7. Kept(k) /\ Kept(n0)'
    BY <1>1, <1>10, <2>1 DEF Kept
  <2>8. UMax(Width) \in Nat
    BY WorkerConstants, PowerBounds DEF UMax
  <2>9. /\ n' \in Nat /\ n0' \in 0 .. UMax(Width) /\ n' <= UMax(Width) /\ n' > 0 /\ n0' >= 3
        /\ i' > 0 /\ n0' = Number(i - 1)'
    BY <1>3, <1>4, <1>5, <1>10, <2>1, <2>8
  <2>10. NumberInv'
    BY <2>1, <2>6, <2>7, <2>9 DEF NumberInv
  <2> QED
    BY <2>2, <2>3, <2>10 DEF PlaceInv
<1>11. prog.precalc \in BOOLEAN
  BY <1>1, JobKinds
<1>12. \/ pc' = pc /\ UNCHANGED <<n0, n, pre>>
       \/ /\ IsLive(k) /\ prog.precalc /\ pc' = "precalc_rise"
          /\ pre' = [NoPre EXCEPT !.L = k + 1, !.L0 = k, !.R = SIEVE_LOGSIZE]
          /\ UNCHANGED <<n0, n>>
       \/ /\ IsLive(k) /\ IsLiveInSieve(k, prog.mod) /\ ~prog.precalc
          /\ Enter(k, k) /\ UNCHANGED pre
  <2>1. IF ~IsLive(k) \/ (~prog.precalc /\ ~IsLiveInSieve(k, prog.mod))
          THEN UNCHANGED <<pc, n0, n, pre>>
        ELSE IF prog.precalc
          THEN /\ pc' = "precalc_rise"
               /\ pre' = [NoPre EXCEPT !.L = k + 1, !.L0 = k, !.R = SIEVE_LOGSIZE]
               /\ UNCHANGED <<n0, n>>
        ELSE Enter(k, k) /\ UNCHANGED pre
    BY DEF SolveTask, k
  <2> QED
    BY <1>11, <2>1
<1> QED
  BY <1>8, <1>9, <1>10, <1>12

\* The assignments to the locals of precalc, one after another.
LEMMA PreFields ==
  ASSUME NEW x \in [L : Nat, L0 : Nat, R : Nat, Salpha : Nat, h : Nat],
         NEW a, NEW b
  PROVE  /\ [x EXCEPT !.R = a]
              = [L |-> x.L, L0 |-> x.L0, R |-> a, Salpha |-> x.Salpha, h |-> x.h]
         /\ [x EXCEPT !.R = a, !.Salpha = b]
              = [L |-> x.L, L0 |-> x.L0, R |-> a, Salpha |-> b, h |-> x.h]
         /\ [x EXCEPT !.L = a]
              = [L |-> a, L0 |-> x.L0, R |-> x.R, Salpha |-> x.Salpha, h |-> x.h]
         /\ [x EXCEPT !.h = a]
              = [L |-> x.L, L0 |-> x.L0, R |-> x.R, Salpha |-> x.Salpha, h |-> a]
<1>1. PICK l \in Nat, l0 \in Nat, r \in Nat, s \in Nat, g \in Nat :
        x = [L |-> l, L0 |-> l0, R |-> r, Salpha |-> s, h |-> g]
  OBVIOUS
<1>2. x.L = l /\ x.L0 = l0 /\ x.R = r /\ x.Salpha = s /\ x.h = g
  BY <1>1
<1> DEFINE u == [x EXCEPT !.R = a]
           w == [u EXCEPT !.Salpha = b]
<1>3. u = [L |-> l, L0 |-> l0, R |-> a, Salpha |-> s, h |-> g]
  BY <1>1
<1>6. w = [x EXCEPT !.R = a, !.Salpha = b]
  BY Zenon
<1> HIDE DEF u
<1>4. w = [L |-> l, L0 |-> l0, R |-> a, Salpha |-> b, h |-> g]
  BY <1>3
<1> HIDE DEF w
<1>5. /\ [x EXCEPT !.L = a] = [L |-> a, L0 |-> l0, R |-> r, Salpha |-> s, h |-> g]
      /\ [x EXCEPT !.h = a] = [L |-> l, L0 |-> l0, R |-> r, Salpha |-> s, h |-> a]
  BY <1>1
<1> QED
  BY <1>2, <1>3, <1>4, <1>5, <1>6, Zenon DEF u

\* A run of precalc's steps: what it makes of the class.
LEMMA PrecalcPlace ==
  ASSUME PlaceInv, pc \in {"precalc_rise", "precalc_fall"}, UNCHANGED <<prog, task, i, n0, n>>,
         NEW a \in 0 .. pre.R, NEW l \in Nat, NEW s \in Nat,
         Iterate[(SIEVE_LOGSIZE - pre.R) + a][pre.L0] = l,
         s = OddStepsIn(pre.L0, (SIEVE_LOGSIZE - pre.R) + a),
         NEW z \in Nat,
         pre' = [L |-> z, L0 |-> pre.L0, R |-> pre.R - a, Salpha |-> s, h |-> pre.h],
         \/ pc' = "precalc_rise" /\ z = l + 1
         \/ pc' = "precalc_fall" /\ z = l
         \/ pc' = "calc" /\ z = l /\ pre.R - a = 0
  PROVE  ClassInv' /\ NumberInv' /\ ~Testing'
<1>0. /\ pre'.L = z /\ pre'.L0 = pre.L0 /\ pre'.R = pre.R - a /\ pre'.Salpha = s
      /\ pre'.h = pre.h
  OBVIOUS
<1>1. /\ ClassInv /\ NumberInv /\ Job /\ prog.precalc /\ InClass /\ i \in 0 .. Count
  BY DEF PlaceInv, Typed, ClassInv, InClass
<1>2. /\ Number(i - 1)' = Number(i - 1)
  BY SameJob
<1>3. /\ i > 0 /\ pre.L0 = Number(i - 1) /\ IsLive(pre.L0) /\ pre.h = 0
      /\ pre \in [L : 0 .. UMax(Half), L0 : Nat, R : 0 .. SIEVE_LOGSIZE,
                  Salpha : 0 .. LUT_SIZE64 - 1, h : 0 .. Shares]
  BY <1>1 DEF ClassInv
<1>4. pre.L0 \in 0 .. Pow2[SIEVE_LOGSIZE] - 1
  <2>1. i - 1 \in 0 .. Count - 1
    BY <1>1, <1>3, JobKinds
  <2>2. Number(i - 1) \in Nat /\ Number(i - 1) < Pow2[SIEVE_LOGSIZE]
    BY <1>1, <2>1, NumberFacts
  <2> QED
    BY <1>3, <2>2, WorkerConstants, PowerBounds
<1>5. /\ (SIEVE_LOGSIZE - pre.R) + a \in 0 .. SIEVE_LOGSIZE
      /\ SIEVE_LOGSIZE - (pre.R - a) = (SIEVE_LOGSIZE - pre.R) + a
      /\ pre.R - a \in 0 .. SIEVE_LOGSIZE
  BY <1>3, WorkerConstants
<1>6. l + 1 <= UMax(Half) /\ s \in 0 .. LUT_SIZE64 - 1 /\ UMax(Half) \in Nat
  BY <1>4, <1>5, ClassFits, WorkerConstants, PowerBounds DEF UMax
<1>7. 0 \in 0 .. Shares
  BY WorkerConstants
<1>8. pre' \in [L : 0 .. UMax(Half), L0 : Nat, R : 0 .. SIEVE_LOGSIZE,
                Salpha : 0 .. LUT_SIZE64 - 1, h : 0 .. Shares]
  <2>1. z \in 0 .. UMax(Half)
    BY <1>6
  <2>2. /\ pre.L0 \in Nat /\ pre.R - a \in 0 .. SIEVE_LOGSIZE /\ s \in 0 .. LUT_SIZE64 - 1
        /\ pre.h \in 0 .. Shares
    BY <1>3, <1>5, <1>6
  <2> QED
    BY <2>1, <2>2
<1>9. ClassInv'
  BY <1>0, <1>1, <1>2, <1>3, <1>5, <1>8 DEF ClassInv, InClass, Testing
<1>10. NumberInv' /\ ~Testing'
  BY <1>1 DEF NumberInv, Testing
<1> QED
  BY <1>9, <1>10

\* precalc's odd steps.
LEMMA PrecalcRiseKeepsPlace ==
  ASSUME PlaceInv, PrecalcRise
  PROVE  /\ PlaceInv' /\ ~Testing'
         /\ pc' = "calc" => ToCalc
         /\ pc' # "calc" => sum' = sum /\ pc' \in {"precalc_rise", "precalc_fall"}
         /\ pre'.h = 0 /\ UNCHANGED <<prog, task, i, n0, n, alpha, over, max, mpzMax, tested>>
<1> DEFINE a == Min({Ctz(pre.L, Half), pre.R, Half - 1, LUT_SIZE64 - 1})
           m == pre.L \div Pow2[a]
           y == m * Pow3[a]
           k == SIEVE_LOGSIZE - pre.R
           p == [pre EXCEPT !.R = @ - a, !.Salpha = @ + a]
<1>1. /\ Typed /\ ClassInv /\ NumberInv /\ Job /\ pc = "precalc_rise" /\ prog.precalc
      /\ pre \in [L : 0 .. UMax(Half), L0 : Nat, R : 0 .. SIEVE_LOGSIZE,
                  Salpha : 0 .. LUT_SIZE64 - 1, h : 0 .. Shares]
      /\ IsLive(pre.L0) /\ pre.L > 0 /\ Iterate[k][pre.L0] = pre.L - 1
      /\ pre.Salpha = OddStepsIn(pre.L0, k)
      /\ UNCHANGED <<prog, task, i, n0, n, alpha, over, max, mpzMax, tested>>
  BY DEF PlaceInv, Typed, ClassInv, PrecalcRise, InClass
<1>2. /\ SIEVE_LOGSIZE \in Nat /\ Half \in Nat /\ Half > 1 /\ LUT_SIZE64 \in Nat /\ LUT_SIZE64 > 1
      /\ pre.L \in Nat /\ pre.R \in Nat /\ k \in Nat /\ k \in 0 .. SIEVE_LOGSIZE
      /\ pre.R + k = SIEVE_LOGSIZE
  BY <1>1, WorkerConstants
<1>3. /\ a \in Nat /\ a <= pre.R /\ a <= Ctz(pre.L, Half) /\ Ctz(pre.L, Half) \in Nat
      /\ pre.L % Pow2[Ctz(pre.L, Half)] = 0
  <2>1. Ctz(pre.L, Half) \in 0 .. Half /\ pre.L % Pow2[Ctz(pre.L, Half)] = 0
    BY <1>2, CtzValue
  <2> DEFINE S == {Ctz(pre.L, Half), pre.R, Half - 1, LUT_SIZE64 - 1}
  <2>2. S \in SUBSET Nat /\ S # {}
    BY <1>2, <2>1
  <2>3. Min(S) \in S /\ \A z \in S : Min(S) <= z
    <3> HIDE DEF S
    <3> QED
      BY <2>2, LeastOfMore, Zenon
  <2>4. a = Min(S)
    OBVIOUS
  <2> QED
    BY <1>2, <2>1, <2>2, <2>3, <2>4
<1> HIDE DEF a
<1>4. pre.L = Pow2[a] * m /\ m \in Nat \ {0} /\ a \in 0 .. pre.R
  <2>1. a \in 0 .. Ctz(pre.L, Half)
    BY <1>3
  <2> QED
    BY <1>1, <1>2, <1>3, <2>1, LowerFactor
<1> HIDE DEF m, k
<1>5. Comes(pre.L0, k, (Pow2[a] * m) - 1)
  <2>1. \A j \in 0 .. k : Iterate[j][pre.L0] >= pre.L0
    <3>1. pre.L0 \in Nat
      BY <1>1
    <3>2. \A j \in 0 .. SIEVE_LOGSIZE : Iterate[j][pre.L0] >= pre.L0
      BY <1>1, <3>1, LiveStays
    <3> QED
      BY <1>2, <3>2
  <2> QED
    BY <1>1, <1>4, <2>1 DEF Comes
<1>6. /\ Iterate[k + a][pre.L0] = y - 1
      /\ OddStepsIn(pre.L0, k + a) = pre.Salpha + a
  <2>1. pre.L0 \in Nat
    BY <1>1
  <2>2. /\ Comes(pre.L0, k + a, (m * Pow3[a]) - 1)
        /\ OddStepsIn(pre.L0, k + a) = OddStepsIn(pre.L0, k) + a
    BY <1>2, <1>3, <1>4, <1>5, <2>1, ComesRise
  <2> QED
    BY <1>1, <2>2 DEF Comes
<1>7. y \in Nat \ {0}
  <2>1. Pow3[a] \in Nat \ {0}
    BY <1>3, PowerBounds
  <2> QED
    BY <1>4, <2>1, ProductPositive
<1> HIDE DEF y
<1>8. /\ p.R = pre.R - a
      /\ \A z \in Nat : [p EXCEPT !.L = z]
           = [L |-> z, L0 |-> pre.L0, R |-> pre.R - a, Salpha |-> pre.Salpha + a, h |-> pre.h]
  <2>1. pre \in [L : Nat, L0 : Nat, R : Nat, Salpha : Nat, h : Nat]
    <3>1. /\ 0 .. UMax(Half) \subseteq Nat /\ 0 .. SIEVE_LOGSIZE \subseteq Nat
          /\ 0 .. LUT_SIZE64 - 1 \subseteq Nat /\ 0 .. Shares \subseteq Nat
      OBVIOUS
    <3> HIDE DEF p
    <3> QED
      BY <1>1, <3>1
  <2>2. p = [L |-> pre.L, L0 |-> pre.L0, R |-> pre.R - a, Salpha |-> pre.Salpha + a, h |-> pre.h]
    <3> DEFINE r == pre.R - a
               s == pre.Salpha + a
    <3>1. p = [pre EXCEPT !.R = r, !.Salpha = s]
      BY Zenon
    <3> HIDE DEF p, r, s
    <3>2. p = [L |-> pre.L, L0 |-> pre.L0, R |-> r, Salpha |-> s, h |-> pre.h]
      BY <2>1, <3>1, PreFields, Zenon
    <3> QED
      BY <3>2 DEF r, s
  <2> HIDE DEF p
  <2> QED
    BY <2>2
<1> HIDE DEF p
<1>9. PICK z \in Nat :
        /\ pre' = [L |-> z, L0 |-> pre.L0, R |-> pre.R - a, Salpha |-> pre.Salpha + a, h |-> pre.h]
        /\ \/ pc' = "precalc_rise" /\ z = (y - 1) + 1 /\ sum' = sum
           \/ pc' = "precalc_fall" /\ z = y - 1 /\ sum' = sum
           \/ pc' = "calc" /\ z = y - 1 /\ pre.R - a = 0 /\ ToCalc
  <2>1. IF p.R = 0 THEN pre' = [p EXCEPT !.L = y - 1] /\ ToCalc
        ELSE IF Odd(y) THEN /\ pre' = [p EXCEPT !.L = y - 1]
                            /\ pc' = "precalc_fall" /\ UNCHANGED sum
        ELSE pre' = [p EXCEPT !.L = y] /\ UNCHANGED <<pc, sum>>
    BY DEF PrecalcRise, p, a, m, y
  <2>2. ToCalc => pc' = "calc"
    BY DEF ToCalc
  <2>3. y - 1 \in Nat /\ y \in Nat /\ (y - 1) + 1 = y
    BY <1>4, <1>7
  <2> QED
    BY <1>1, <1>8, <2>1, <2>2, <2>3
<1>10. ClassInv' /\ NumberInv' /\ ~Testing'
  <2>1. y - 1 \in Nat /\ pre.Salpha + a \in Nat
    BY <1>1, <1>2, <1>3, <1>4, <1>7
  <2>2. /\ pc \in {"precalc_rise", "precalc_fall"}
        /\ UNCHANGED <<prog, task, i, n0, n>>
    BY <1>1
  <2> QED
    BY <1>4, <1>6, <1>9, <2>1, <2>2, PrecalcPlace DEF k
<1>11. sum' \in 0 .. UMax(SumBits)
  <2>1. sum \in Nat
    BY <1>1, WorkerConstants, PowerBounds DEF Typed, UMax
  <2>2. pre'.Salpha * Pow2[TASK_SIZE - SIEVE_LOGSIZE] \in Nat
    <3>1. pre'.Salpha \in Nat
      BY <1>10, WorkerConstants DEF ClassInv
    <3> QED
      BY <3>1, WorkerConstants, ProductLaws DEF Shares
  <2>3. ToCalc => sum' \in 0 .. UMax(SumBits)
    <3>1. sum + pre'.Salpha * Pow2[TASK_SIZE - SIEVE_LOGSIZE] \in Nat
      BY <2>1, <2>2
    <3>2. Checksum(sum + pre'.Salpha * Pow2[TASK_SIZE - SIEVE_LOGSIZE]) \in 0 .. UMax(SumBits)
      BY <3>1, ChecksumValue
    <3> QED
      BY <1>1, <3>2 DEF ToCalc, Typed
  <2> QED
    BY <1>1, <1>9, <2>3 DEF Typed
<1>12. pc' \in {"precalc_rise", "precalc_fall", "calc"}
  BY <1>9
<1>13. Typed'
  <2>1. Job' /\ Count' = Count
    BY <1>1, SameJob
  <2> QED
    BY <1>1, <1>11, <1>12, <2>1 DEF Typed, Pcs
<1>14. pre'.h = 0
  <2>1. pre.h = 0
    BY <1>1 DEF ClassInv, InClass
  <2> QED
    BY <1>9, <2>1
<1> QED
  BY <1>1, <1>9, <1>10, <1>13, <1>14 DEF PlaceInv

\* precalc's even steps.
LEMMA PrecalcFallKeepsPlace ==
  ASSUME PlaceInv, PrecalcFall
  PROVE  /\ PlaceInv' /\ ~Testing'
         /\ pc' = "calc" => ToCalc
         /\ pc' # "calc" => sum' = sum /\ pc' \in {"precalc_rise", "precalc_fall"}
         /\ pre'.h = 0 /\ UNCHANGED <<prog, task, i, n0, n, alpha, over, max, mpzMax, tested>>
<1> DEFINE a == Min({Ctz(pre.L, Half), pre.R, Half - 1})
           m == pre.L \div Pow2[a]
           k == SIEVE_LOGSIZE - pre.R
           p == [pre EXCEPT !.R = @ - a]
<1>1. /\ Typed /\ ClassInv /\ NumberInv /\ Job /\ pc = "precalc_fall" /\ prog.precalc
      /\ pre \in [L : 0 .. UMax(Half), L0 : Nat, R : 0 .. SIEVE_LOGSIZE,
                  Salpha : 0 .. LUT_SIZE64 - 1, h : 0 .. Shares]
      /\ IsLive(pre.L0) /\ Iterate[k][pre.L0] = pre.L
      /\ pre.Salpha = OddStepsIn(pre.L0, k)
      /\ UNCHANGED <<prog, task, i, n0, n, alpha, over, max, mpzMax, tested>>
  BY DEF PlaceInv, Typed, ClassInv, PrecalcFall, InClass
<1>2. /\ SIEVE_LOGSIZE \in Nat /\ Half \in Nat /\ Half > 1
      /\ pre.L \in Nat /\ pre.R \in Nat /\ k \in Nat /\ k \in 0 .. SIEVE_LOGSIZE
      /\ pre.R + k = SIEVE_LOGSIZE /\ pre.Salpha \in Nat
  BY <1>1, WorkerConstants
<1>3. /\ a \in Nat /\ a <= pre.R /\ a <= Ctz(pre.L, Half) /\ Ctz(pre.L, Half) \in Nat
      /\ pre.L % Pow2[Ctz(pre.L, Half)] = 0
  <2>1. Ctz(pre.L, Half) \in 0 .. Half /\ pre.L % Pow2[Ctz(pre.L, Half)] = 0
    BY <1>2, CtzValue
  <2> DEFINE S == {Ctz(pre.L, Half), pre.R, Half - 1}
  <2>2. S \in SUBSET Nat /\ S # {}
    BY <1>2, <2>1
  <2>3. Min(S) \in S /\ \A z \in S : Min(S) <= z
    <3> HIDE DEF S
    <3> QED
      BY <2>2, LeastOfMore, Zenon
  <2>4. a = Min(S)
    OBVIOUS
  <2> QED
    BY <1>2, <2>1, <2>2, <2>3, <2>4
<1> HIDE DEF a
<1>4. pre.L = Pow2[a] * m /\ m \in Nat /\ a \in 0 .. pre.R
  <2>1. a \in 0 .. Ctz(pre.L, Half)
    BY <1>3
  <2> QED
    BY <1>1, <1>2, <1>3, <2>1, LowerFactor
<1> HIDE DEF m, k
<1>5. /\ Iterate[k + a][pre.L0] = m
      /\ OddStepsIn(pre.L0, k + a) = pre.Salpha
  <2>1. pre.L0 \in Nat
    BY <1>1
  <2>2. /\ Iterate[k + a][pre.L0] = Iterate[a][Iterate[k][pre.L0]]
        /\ OddStepsIn(pre.L0, k + a) = OddStepsIn(pre.L0, k) + OddStepsIn(Iterate[k][pre.L0], a)
    <3>1. PICK x \in Nat : x = pre.L0
      BY <2>1
    <3>0. k \in Nat /\ a \in Nat
      BY <1>2, <1>3
    <3>2. /\ Iterate[k + a][x] = Iterate[a][Iterate[k][x]]
          /\ OddStepsIn(x, k + a) = OddStepsIn(x, k) + OddStepsIn(Iterate[k][x], a)
      BY <3>0, IterateSum, OddStepsSum, Zenon
    <3> QED
      BY <3>1, <3>2
  <2>4. \A j \in 0 .. a : /\ Iterate[j][Pow2[a] * m] = Pow2[a - j] * m
                          /\ j < a => Iterate[j][Pow2[a] * m] % 2 = 0
    BY <1>3, <1>4, FallSteps
  <2>5. Iterate[a][pre.L] = m
    <3>1. a \in 0 .. a /\ a - a = 0 /\ Pow2[0] = 1 /\ 1 * m = m
      BY <1>3, <1>4, Pow2Defined
    <3> QED
      BY <1>4, <2>4, <3>1
  <2>6. OddStepsIn(pre.L, a) = 0
    <3>1. \A j \in 0 .. a - 1 : Iterate[j][pre.L] % 2 = 0
      BY <1>3, <1>4, <2>4
    <3> QED
      BY <1>2, <1>3, <3>1, OddStepsOfRun
  <2> QED
    BY <1>1, <1>2, <2>2, <2>5, <2>6
<1>8. /\ p.R = pre.R - a
      /\ \A z \in Nat : [p EXCEPT !.L = z]
           = [L |-> z, L0 |-> pre.L0, R |-> pre.R - a, Salpha |-> pre.Salpha, h |-> pre.h]
  <2>1. pre \in [L : Nat, L0 : Nat, R : Nat, Salpha : Nat, h : Nat]
    <3>1. /\ 0 .. UMax(Half) \subseteq Nat /\ 0 .. SIEVE_LOGSIZE \subseteq Nat
          /\ 0 .. LUT_SIZE64 - 1 \subseteq Nat /\ 0 .. Shares \subseteq Nat
      OBVIOUS
    <3> HIDE DEF p
    <3> QED
      BY <1>1, <3>1
  <2>2. p = [L |-> pre.L, L0 |-> pre.L0, R |-> pre.R - a, Salpha |-> pre.Salpha, h |-> pre.h]
    BY <2>1, PreFields, Zenon
  <2> HIDE DEF p
  <2> QED
    BY <2>2
<1> HIDE DEF p
<1>9. PICK z \in Nat :
        /\ pre' = [L |-> z, L0 |-> pre.L0, R |-> pre.R - a, Salpha |-> pre.Salpha, h |-> pre.h]
        /\ \/ pc' = "precalc_rise" /\ z = m + 1 /\ sum' = sum
           \/ pc' = "precalc_fall" /\ z = m /\ sum' = sum
           \/ pc' = "calc" /\ z = m /\ pre.R - a = 0 /\ ToCalc
  <2>1. IF p.R = 0 THEN pre' = [p EXCEPT !.L = m] /\ ToCalc
        ELSE IF Odd(m) THEN /\ pre' = [p EXCEPT !.L = m + 1]
                            /\ pc' = "precalc_rise" /\ UNCHANGED sum
        ELSE pre' = [p EXCEPT !.L = m] /\ UNCHANGED <<pc, sum>>
    BY DEF PrecalcFall, p, a, m
  <2>2. ToCalc => pc' = "calc"
    BY DEF ToCalc
  <2>3. m \in Nat /\ m + 1 \in Nat
    BY <1>4
  <2> QED
    BY <1>1, <1>8, <2>1, <2>2, <2>3
<1>10. ClassInv' /\ NumberInv' /\ ~Testing'
  <2>1. m \in Nat /\ pre.Salpha \in Nat
    BY <1>1, <1>2, <1>3, <1>4
  <2>2. /\ pc \in {"precalc_rise", "precalc_fall"}
        /\ UNCHANGED <<prog, task, i, n0, n>>
    BY <1>1
  <2> QED
    BY <1>4, <1>5, <1>9, <2>1, <2>2, PrecalcPlace DEF k
<1>11. sum' \in 0 .. UMax(SumBits)
  <2>1. sum \in Nat
    BY <1>1, WorkerConstants, PowerBounds DEF Typed, UMax
  <2>2. pre'.Salpha * Pow2[TASK_SIZE - SIEVE_LOGSIZE] \in Nat
    <3>1. pre'.Salpha \in Nat
      BY <1>10, WorkerConstants DEF ClassInv
    <3> QED
      BY <3>1, WorkerConstants, ProductLaws DEF Shares
  <2>3. ToCalc => sum' \in 0 .. UMax(SumBits)
    <3>1. sum + pre'.Salpha * Pow2[TASK_SIZE - SIEVE_LOGSIZE] \in Nat
      BY <2>1, <2>2
    <3>2. Checksum(sum + pre'.Salpha * Pow2[TASK_SIZE - SIEVE_LOGSIZE]) \in 0 .. UMax(SumBits)
      BY <3>1, ChecksumValue
    <3> QED
      BY <1>1, <3>2 DEF ToCalc, Typed
  <2> QED
    BY <1>1, <1>9, <2>3 DEF Typed
<1>12. pc' \in {"precalc_rise", "precalc_fall", "calc"}
  BY <1>9
<1>13. Typed'
  <2>1. Job' /\ Count' = Count
    BY <1>1, SameJob
  <2> QED
    BY <1>1, <1>11, <1>12, <2>1 DEF Typed, Pcs
<1>14. pre'.h = 0
  <2>1. pre.h = 0
    BY <1>1 DEF ClassInv, InClass
  <2> QED
    BY <1>9, <2>1
<1> QED
  BY <1>1, <1>9, <1>10, <1>13, <1>14 DEF PlaceInv

\* Where precalc leaves a member of a class.
LEMMA ClassValueIn ==
  ASSUME Job, NEW s \in Nat, s <= TASK_SIZE, s < LUT_SIZE64, NEW c, c = Pow2[TASK_SIZE - s],
         (task + 1) * c * Pow3[s] <= UMax(Width),
         NEW m \in 0 .. Pow2[s] - 1, NEW h \in 0 .. c - 1, IsLiveIn(m, s),
         NEW x, x = Base + h * Pow2[s] + m
  PROVE  LET o == OddStepsIn(m, s)
             v == ((task * c) + h) * Pow3[o] + Iterate[s][m]
         IN  /\ v \in Nat /\ v + 1 <= UMax(Width)
             /\ Comes(x, s, v)
             /\ OddStepsIn(x, s) = o
<1> DEFINE o == OddStepsIn(m, s)
           q == (task * c) + h
           l == Iterate[s][m]
           v == q * Pow3[o] + l
<1>1. s \in Nat /\ m \in Nat /\ q \in Nat /\ h \in Nat /\ task \in Tasks
  BY MemberFactsIn, WorkerConstants DEF Job
<1>2. s \in 0 .. s /\ s - s = 0
  BY <1>1
<1>3. o \in 0 .. s /\ l \in Nat /\ l < Pow3[o] /\ o \in Nat
  BY <1>1, <1>2, ClassFitsIn
<1>4. Pow3[o] \in Nat \ {0} /\ Pow2[0] = 1
  BY <1>3, PowerBounds, Pow2Defined
<1>5. /\ x = (Pow2[s] * q) + m /\ x \in Nat
      /\ IsLiveIn(x, s)
  BY MemberFactsIn
<1>6. /\ Iterate[s][(Pow2[s] * q) + m] = ((Pow2[s - s] * Pow3[o]) * q) + l
      /\ OddStepsIn((Pow2[s] * q) + m, s) = o
  <2> HIDE DEF q
  <2> QED
    BY <1>1, <1>2, ClassSteps
<1> HIDE DEF o, l
<1>7. q * Pow3[o] \in Nat /\ q * Pow3[o] = Pow3[o] * q
  <2> HIDE DEF q
  <2> QED
    BY <1>1, <1>4, ProductLaws
<1>8. v + 1 <= UMax(Width)
  <2>1. l \in 0 .. Pow3[o] - 1
    BY <1>3, <1>4
  <2>2. q * Pow3[o] + l + 1 <= UMax(Width)
    BY <1>1, <1>3, <2>1, TaskBoundIn
  <2> QED
    BY <1>3, <1>7, <2>2
<1>9. (Pow2[s - s] * Pow3[o]) * q = q * Pow3[o]
  <2> HIDE DEF q
  <2>1. 1 * Pow3[o] = Pow3[o]
    BY <1>4
  <2> QED
    BY <1>2, <1>4, <1>7, <2>1
<1>10. Iterate[s][x] = v /\ OddStepsIn(x, s) = o /\ v \in Nat
  <2> HIDE DEF q
  <2> QED
    BY <1>3, <1>5, <1>6, <1>7, <1>9
<1>11. Comes(x, s, v)
  BY <1>5, <1>10, LiveInStays DEF Comes
<1> QED
  BY <1>8, <1>10, <1>11 DEF o, l

\* In the sieve of the CPU worker.
LEMMA ClassValue ==
  ASSUME Job, NEW m \in 0 .. Pow2[SIEVE_LOGSIZE] - 1, NEW h \in 0 .. Shares - 1, IsLive(m)
  PROVE  LET o == OddStepsIn(m, SIEVE_LOGSIZE)
             v == ((task * Shares) + h) * Pow3[o] + Iterate[SIEVE_LOGSIZE][m]
         IN  /\ v \in Nat /\ v + 1 <= UMax(Width)
             /\ Comes(Member(m, h), SIEVE_LOGSIZE, v)
             /\ OddStepsIn(Member(m, h), SIEVE_LOGSIZE) = o
<1>1. PICK s, c, x : /\ s \in Nat /\ s = SIEVE_LOGSIZE /\ s <= TASK_SIZE /\ s < LUT_SIZE64
                     /\ c = Shares /\ c = Pow2[TASK_SIZE - s] /\ x = Member(m, h)
                     /\ x = Base + h * Pow2[s] + m
  BY WidthsAssumption, WorkerConstants DEF Member, Shares
<1>2. (task + 1) * c * Pow3[s] <= UMax(Width)
  BY <1>1, WorkerAssumption DEF Job
<1>3. LET o == OddStepsIn(m, s)
          v == ((task * c) + h) * Pow3[o] + Iterate[s][m]
      IN  /\ v \in Nat /\ v + 1 <= UMax(Width) /\ Comes(x, s, v) /\ OddStepsIn(x, s) = o
  BY <1>1, <1>2, ClassValueIn DEF IsLive
<1> QED
  BY <1>1, <1>3, Zenon

\* The member calc is at.
LEMMA CalcMember ==
  ASSUME PlaceInv, pc = "calc", pre.h # Pow2[TASK_SIZE - SIEVE_LOGSIZE]
  PROVE  LET H == Base + pre.h * Pow2[SIEVE_LOGSIZE]
             v == (H \div Pow2[SIEVE_LOGSIZE]) * Pow3[pre.Salpha] + pre.L
         IN  /\ prog.precalc /\ pre.h \in 0 .. Shares - 1 /\ pre.L0 \in 0 .. Pow2[SIEVE_LOGSIZE] - 1
             /\ H + pre.L0 = Member(pre.L0, pre.h)
             /\ H + pre.L0 \in Nat /\ H + pre.L0 <= UMax(Width) /\ H + pre.L0 >= 3
             /\ IsLive(H + pre.L0) /\ v \in Nat /\ v + 1 <= UMax(Width)
             /\ Comes(H + pre.L0, SIEVE_LOGSIZE, v)
             /\ OddStepsIn(H + pre.L0, SIEVE_LOGSIZE) = pre.Salpha
             /\ i > 0 /\ pre.L0 = Number(i - 1)
<1> DEFINE H == Base + pre.h * Pow2[SIEVE_LOGSIZE]
           v == (H \div Pow2[SIEVE_LOGSIZE]) * Pow3[pre.Salpha] + pre.L
<1>1. /\ Job /\ prog.precalc /\ i \in 0 .. Count /\ i > 0 /\ pre.L0 = Number(i - 1)
      /\ IsLive(pre.L0) /\ pre.R = 0 /\ pre.Salpha = OddStepsIn(pre.L0, SIEVE_LOGSIZE - pre.R)
      /\ Iterate[SIEVE_LOGSIZE - pre.R][pre.L0] = pre.L
      /\ pre.h \in 0 .. Shares
  BY DEF PlaceInv, Typed, ClassInv, InClass
<1>2. pre.h \in 0 .. Shares - 1
  BY <1>1, WorkerConstants DEF Shares
<1>3. /\ pre.L0 \in 0 .. Pow2[SIEVE_LOGSIZE] - 1 /\ pre.L0 >= 3
  <2>1. i - 1 \in 0 .. Count - 1
    BY <1>1, JobKinds
  <2>2. Number(i - 1) \in Nat /\ Number(i - 1) < Pow2[SIEVE_LOGSIZE] /\ Number(i - 1) >= 3
    BY <1>1, <2>1, NumberFacts
  <2> QED
    BY <1>1, <2>2, WorkerConstants, PowerBounds
<1>4. SIEVE_LOGSIZE - pre.R = SIEVE_LOGSIZE
  BY <1>1, WorkerConstants
<1>5. PICK m \in 0 .. Pow2[SIEVE_LOGSIZE] - 1, h \in 0 .. Shares - 1 : m = pre.L0 /\ h = pre.h
  BY <1>2, <1>3
<1>6. /\ Member(m, h) \in Nat /\ Member(m, h) >= m /\ Member(m, h) + 1 <= UMax(Width)
      /\ (Base + h * Pow2[SIEVE_LOGSIZE]) \div Pow2[SIEVE_LOGSIZE] = (task * Shares) + h
      /\ IsLive(Member(m, h)) /\ m \in Nat
  BY <1>1, <1>5, MemberFacts
<1>7. H + pre.L0 = Member(m, h)
  BY <1>5 DEF Member
<1>8. /\ H \div Pow2[SIEVE_LOGSIZE] = (task * Shares) + h
      /\ pre.Salpha = OddStepsIn(m, SIEVE_LOGSIZE) /\ pre.L = Iterate[SIEVE_LOGSIZE][m]
  BY <1>1, <1>4, <1>5, <1>6
<1>9. /\ v \in Nat /\ v + 1 <= UMax(Width)
      /\ Comes(Member(m, h), SIEVE_LOGSIZE, v)
      /\ OddStepsIn(Member(m, h), SIEVE_LOGSIZE) = pre.Salpha
  BY <1>1, <1>5, <1>8, ClassValue
<1>10. UMax(Width) \in Nat
  BY WorkerConstants, PowerBounds DEF UMax
<1>11. Member(m, h) <= UMax(Width) /\ Member(m, h) >= 3
  BY <1>3, <1>5, <1>6, <1>10
<1> HIDE DEF H, v
<1> QED
  BY <1>1, <1>2, <1>3, <1>5, <1>6, <1>7, <1>9, <1>11 DEF H, v

\* calc's loop.
LEMMA CalcKeepsPlace ==
  ASSUME PlaceInv, Calc
  PROVE  PlaceInv'
<1> DEFINE H == Base + pre.h * Pow2[SIEVE_LOGSIZE]
           N0 == H + pre.L0
           v == (H \div Pow2[SIEVE_LOGSIZE]) * Pow3[pre.Salpha] + pre.L
<1>1. /\ Typed /\ ClassInv /\ NumberInv /\ Job /\ pc = "calc" /\ prog.precalc /\ InClass
      /\ UNCHANGED <<prog, task, i, alpha, over, max, mpzMax, tested>>
  BY DEF PlaceInv, Typed, ClassInv, Calc, InClass
<1>2. /\ Job' <=> Job
      /\ Base' = Base /\ Count' = Count /\ From' = From
      /\ \A x : Number(x)' = Number(x)
      /\ \A m, h : Member(m, h)' = Member(m, h)
      /\ \A m : Kept(m)' <=> Kept(m)
  BY <1>1, SameJob
<1>3. /\ UMax(Width) \in Nat /\ Shares \in Nat /\ i \in 0 .. Count /\ Count \in Nat
      /\ sum \in Nat /\ sum \in 0 .. UMax(SumBits)
  BY <1>1, WorkerConstants, PowerBounds, JobKinds DEF UMax, Typed
<1>4. ASSUME pc' \in Pcs, pc' # "halted", sum' \in 0 .. UMax(SumBits) PROVE Typed'
  BY <1>1, <1>2, <1>4 DEF Typed
<1>5. CASE pre.h = Pow2[TASK_SIZE - SIEVE_LOGSIZE]
  <2>1. pc' = "solve" /\ UNCHANGED <<n0, n, pre, sum>>
    BY <1>5 DEF Calc
  <2>2. Typed'
    BY <1>3, <1>4, <2>1 DEF Pcs
  <2>3. ClassInv'
    BY <1>1, <2>1 DEF ClassInv, InClass, Testing
  <2>4. NumberInv'
    BY <1>1, <2>1 DEF NumberInv, Testing
  <2> QED
    BY <2>2, <2>3, <2>4 DEF PlaceInv
<1>6. CASE pre.h # Pow2[TASK_SIZE - SIEVE_LOGSIZE]
  <2>1. /\ pre.h \in 0 .. Shares - 1 /\ N0 = Member(pre.L0, pre.h)
        /\ N0 \in Nat /\ N0 <= UMax(Width) /\ N0 >= 3 /\ IsLive(N0) /\ v \in Nat
        /\ v + 1 <= UMax(Width) /\ Comes(N0, SIEVE_LOGSIZE, v)
    BY <1>1, <1>6, CalcMember
  <2>2. /\ pre' = [pre EXCEPT !.h = @ + 1]
        /\ IF ~IsLiveInSieve(N0, prog.mod)
             THEN UNCHANGED <<pc, n0, n, sum>>
             ELSE /\ sum' = IF prog.mod = 1 THEN sum ELSE Checksum(sum + pre.Salpha)
                  /\ Enter(v, N0)
    BY <1>6 DEF Calc
  <2> HIDE DEF N0, v
  <2>3. /\ pre'.L = pre.L /\ pre'.L0 = pre.L0 /\ pre'.R = pre.R /\ pre'.Salpha = pre.Salpha
        /\ pre'.h = pre.h + 1
        /\ pre' \in [L : 0 .. UMax(Half), L0 : Nat, R : 0 .. SIEVE_LOGSIZE,
                     Salpha : 0 .. LUT_SIZE64 - 1, h : 0 .. Shares]
    <3>1. pre \in [L : 0 .. UMax(Half), L0 : Nat, R : 0 .. SIEVE_LOGSIZE,
                   Salpha : 0 .. LUT_SIZE64 - 1, h : 0 .. Shares]
      BY <1>1 DEF ClassInv
    <3>2. pre.h + 1 \in 0 .. Shares
      BY <1>3, <2>1
    <3>3. pre'.h = pre.h + 1
      BY <2>2, <3>1
    <3> QED
      BY <2>2, <3>1, <3>2, <3>3
  <2>4. CASE ~IsLiveInSieve(N0, prog.mod)
    <3>1. UNCHANGED <<pc, n0, n, sum>>
      BY <2>2, <2>4
    <3>2. Typed'
      BY <1>1, <1>3, <1>4, <3>1 DEF Pcs
    <3>3. ClassInv'
      BY <1>1, <1>2, <2>3, <3>1 DEF ClassInv, InClass, Testing
    <3>4. NumberInv'
      BY <1>1, <3>1 DEF NumberInv, Testing
    <3> QED
      BY <3>2, <3>3, <3>4 DEF PlaceInv
  <2>5. CASE IsLiveInSieve(N0, prog.mod)
    <3>1. /\ sum' = IF prog.mod = 1 THEN sum ELSE Checksum(sum + pre.Salpha)
          /\ n0' = N0
          /\ IF Odd(v) THEN n' = v + 1 /\ pc' = "rise" ELSE n' = v /\ pc' = "even"
      BY <2>2, <2>5 DEF Enter
    <3>2. sum' \in 0 .. UMax(SumBits)
      <4>1. pre.Salpha \in Nat
        BY <1>1, WorkerConstants DEF ClassInv
      <4>2. Checksum(sum + pre.Salpha) \in 0 .. UMax(SumBits)
        <5>1. sum + pre.Salpha \in Nat
          BY <1>3, <4>1
        <5> QED
          BY <5>1, ChecksumValue
      <4> QED
        BY <1>3, <3>1, <4>2
    <3>3. Typed'
      BY <1>4, <3>1, <3>2 DEF Pcs
    <3>4. Testing' /\ pc' \in {"rise", "even"}
      BY <3>1 DEF Testing
    <3>5. n0' = Member(pre.L0, pre.h) /\ (pre.h + 1) - 1 = pre.h /\ pre.h + 1 > 0
      BY <2>1, <3>1
    <3>6. ClassInv'
      BY <1>1, <1>2, <2>3, <3>1, <3>4, <3>5 DEF ClassInv, InClass
    <3>7. Cur' = v /\ From' = SIEVE_LOGSIZE /\ SIEVE_LOGSIZE \in Nat
          /\ SIEVE_LOGSIZE >= SIEVE_LOGSIZE
      <4>1. (v + 1) - 1 = v
        BY <2>1
      <4> QED
        BY <1>1, <1>2, <3>1, <4>1, WorkerConstants DEF Cur, From
    <3>8. \E k \in Nat : k >= From' /\ Comes(n0', k, Cur')
      BY <2>1, <3>1, <3>7
    <3>9. /\ n' \in Nat /\ n' <= UMax(Width) /\ (pc' = "rise" => n' > 0)
          /\ pc' = "even" => n' % 2 = 0
      BY <1>3, <2>1, <3>1 DEF Odd
    <3>10. Kept(n0)' /\ n0' \in 0 .. UMax(Width) /\ n0' >= 3
      BY <1>1, <2>1, <2>5, <3>1 DEF Kept
    <3>11. prog'.precalc
      BY <1>1
    <3>12. NumberInv'
      <4>1. (~prog.precalc => i > 0 /\ n0 = Number(i - 1))'
        BY <3>11
      <4>2. (/\ n \in Nat /\ n0 \in 0 .. UMax(Width)
             /\ pc # "wide" => n <= UMax(Width)
             /\ pc \in {"rise", "wide"} => n > 0
             /\ pc = "even" => n % 2 = 0)'
        BY <3>4, <3>9, <3>10
      <4>3. (n0 >= 3 /\ Kept(n0))' /\ (\E k \in Nat : k >= From /\ Comes(n0, k, Cur))'
        BY <3>8, <3>10
      <4> QED
        BY <4>1, <4>2, <4>3, Zenon DEF NumberInv
    <3> QED
      BY <3>3, <3>6, <3>12 DEF PlaceInv
  <2> QED
    BY <2>4, <2>5
<1> QED
  BY <1>5, <1>6

\* Every step keeps the place.
LEMMA NextKeepsPlace ==
  ASSUME PlaceInv, [Next]_vars
  PROVE  PlaceInv'
<1>1. CASE Next
  <2>1. CASE Halt
    <3>1. /\ Typed /\ ClassInv /\ NumberInv /\ pc = "solve" /\ pc' = "halted" /\ i = Count
          /\ UNCHANGED <<prog, task, i, n0, n, alpha, pre, sum, over, mpzMax>>
          /\ max' \in {max, mpzMax}
      BY <2>1 DEF PlaceInv, Halt
    <3>2. Job' /\ Count' = Count
      BY <3>1, SameJob DEF Typed
    <3>3. Typed'
      BY <3>1, <3>2 DEF Typed, Pcs
    <3>4. ClassInv'
      BY <3>1 DEF ClassInv, InClass, Testing
    <3>5. NumberInv'
      BY <3>1 DEF NumberInv, Testing
    <3> QED
      BY <3>3, <3>4, <3>5 DEF PlaceInv
  <2> QED
    BY <1>1, <2>1, SolveKeepsPlace, PrecalcRiseKeepsPlace, PrecalcFallKeepsPlace,
       CalcKeepsPlace, CheckKeepsPlace DEF Next
<1>2. CASE UNCHANGED vars
  <2>1. /\ UNCHANGED <<prog, task, pc, i, n0, n, alpha, pre, sum, over, max, mpzMax>>
    BY <1>2 DEF vars
  <2>2. /\ Job' <=> Job
        /\ Base' = Base /\ Count' = Count /\ From' = From
        /\ \A x : Number(x)' = Number(x)
        /\ \A m, h : Member(m, h)' = Member(m, h)
        /\ \A m : Kept(m)' <=> Kept(m)
    BY <2>1, SameJob
  <2>3. Cur' = Cur /\ (Testing' <=> Testing) /\ (InClass' <=> InClass)
    BY <2>1 DEF Cur, Testing, InClass
  <2>4. Typed'
    BY <2>1, <2>2 DEF PlaceInv, Typed
  <2>5. ClassInv'
    BY <2>1, <2>2, <2>3 DEF PlaceInv, ClassInv
  <2>6. NumberInv'
    BY <2>1, <2>2, <2>3 DEF PlaceInv, NumberInv
  <2> QED
    BY <2>4, <2>5, <2>6 DEF PlaceInv
<1> QED
  BY <1>1, <1>2

\* The place in every state.
LEMMA PlaceHolds == Spec => []PlaceInv
<1> QED
  BY InitPlace, NextKeepsPlace, PTL DEF Spec

\* No 128-bit iterate, no offset of precalc and no index of the table of
\* powers is ever out of range, in any build and for any task.
THEOREM WorkerTypeOKCorrect == Spec => []TypeOK
<1>1. PlaceInv => TypeOK
  <2> SUFFICES ASSUME PlaceInv PROVE TypeOK
    OBVIOUS
  <2>1. Typed /\ ClassInv /\ NumberInv
    BY DEF PlaceInv
  <2>2. UMax(Width) \in Nat
    BY WorkerConstants, PowerBounds DEF UMax
  <2>3. prog \in Programs /\ task \in Tasks
    BY <2>1 DEF Typed, Job
  <2> QED
    BY <2>1, <2>2, <2>3 DEF TypeOK, Typed, ClassInv, NumberInv
<1> QED
  BY <1>1, PlaceHolds, PTL

-----------------------------------------------------------------------------
(* Which numbers have been tested.                                         *)

\* The numbers the loops have come past, the one under test included.
Behind(m) ==
  IF prog.precalc
    THEN \E k \in 0 .. i - 1, h \in 0 .. Shares - 1 :
           m = Member(Number(k), h) /\ (InClass /\ k = i - 1 => h < pre.h)
    ELSE \E k \in 0 .. i - 1 : m = Number(k)

TestedInv == pc # "aborted" =>
  \A m : m \in tested <=> Behind(m) /\ Kept(m) /\ (Testing => m # n0)

\* solve_task comes past a number, and begins its test, or past nothing: the
\* members of a dead class are not kept, those of a live one are to come.
LEMMA SolveKeepsTested ==
  ASSUME PlaceInv, TestedInv, SolveTask
  PROVE  TestedInv' /\ (Testing' => n0' \notin tested' /\ pc' = "rise" /\ n' = n0' + 1)
<1>1. /\ Job /\ pc = "solve" /\ ~Testing /\ ~InClass /\ i \in 0 .. Count - 1 /\ i \in Nat
      /\ Count \in Nat /\ i' = i + 1 /\ UNCHANGED <<prog, task, tested>>
  <2>1. Count \in Nat
    BY JobKinds DEF PlaceInv, Typed
  <2> QED
    BY <2>1 DEF PlaceInv, Typed, SolveTask, Testing, InClass
<1>2. /\ \A k : Number(k)' = Number(k)
      /\ \A m, h : Member(m, h)' = Member(m, h)
      /\ \A m : Kept(m)' <=> Kept(m)
  BY <1>1, SameJob
<1>3. Number(i) \in Nat /\ Number(i) % 4 = 3
  BY <1>1, NumberFacts
<1>4. \A m : m \in tested <=> Behind(m) /\ Kept(m)
  BY <1>1 DEF TestedInv
<1>5. /\ ~IsLive(Number(i)) => pc' = "solve"
      /\ IsLive(Number(i)) /\ prog.precalc =>
           pc' = "precalc_rise" /\ pre' = [NoPre EXCEPT !.L = Number(i) + 1, !.L0 = Number(i), !.R = SIEVE_LOGSIZE]
      /\ ~prog.precalc => IF Kept(Number(i)) THEN pc' = "rise" /\ n0' = Number(i) /\ n' = Number(i) + 1
                                             ELSE pc' = "solve"
  <2>1. Odd(Number(i))
    BY <1>3 DEF Odd
  <2> QED
    BY <1>1, <2>1 DEF SolveTask, Enter, Kept
<1>6. CASE ~prog.precalc
  <2>1. \A m : Behind(m)' <=> Behind(m) \/ m = Number(i)
    <3>1. \A k : k \in 0 .. i' - 1 <=> k \in 0 .. i - 1 \/ k = i
      BY <1>1
    <3> QED
      BY <1>1, <1>2, <1>6, <3>1 DEF Behind
  <2>2. ~Behind(Number(i))
    <3>1. ASSUME NEW k \in 0 .. i - 1, Number(i) = Number(k) PROVE FALSE
      <4>1. k \in 0 .. Count - 1 /\ k # i
        BY <1>1
      <4> QED
        BY <1>1, <3>1, <4>1, NumberDistinct
    <3> QED
      BY <1>6, <3>1 DEF Behind
  <2>3. CASE Kept(Number(i))
    <3>1. pc' = "rise" /\ n0' = Number(i) /\ n' = n0' + 1 /\ Testing'
      BY <1>5, <1>6, <2>3 DEF Testing
    <3> QED
      BY <1>1, <1>2, <1>4, <2>1, <2>2, <2>3, <3>1 DEF TestedInv
  <2>4. CASE ~Kept(Number(i))
    <3>1. pc' = "solve" /\ ~Testing'
      BY <1>5, <1>6, <2>4 DEF Testing
    <3> QED
      BY <1>1, <1>2, <1>4, <2>1, <2>4, <3>1 DEF TestedInv
  <2> QED
    BY <2>3, <2>4
<1>7. CASE prog.precalc
  <2>1. ASSUME NEW m, Kept(m) PROVE Behind(m)' <=> Behind(m)
    <3>1. ASSUME Behind(m) PROVE Behind(m)'
      <4>1. PICK k \in 0 .. i - 1, h \in 0 .. Shares - 1 : m = Member(Number(k), h)
        BY <1>7, <3>1 DEF Behind
      <4>2. k \in 0 .. i' - 1 /\ k # i' - 1
        BY <1>1
      <4>3. prog'.precalc
        BY <1>1, <1>7
      <4> QED
        BY <1>2, <4>1, <4>2, <4>3 DEF Behind, Shares
    <3>2. ASSUME Behind(m)' PROVE Behind(m)
      <4>1. PICK k \in 0 .. i' - 1, h \in 0 .. Shares - 1 :
              m = Member(Number(k), h) /\ (InClass' /\ k = i' - 1 => h < pre'.h)
        BY <1>1, <1>2, <1>7, <3>2 DEF Behind, Shares
      <4>2. CASE k = i
        <5>1. Number(i) \in 0 .. Pow2[SIEVE_LOGSIZE] - 1
          <6>1. Number(i) < Pow2[SIEVE_LOGSIZE]
            BY <1>1, <1>7, NumberFacts
          <6> QED
            BY <1>3, <6>1, WorkerConstants, PowerBounds
        <5>2. IsLive(Number(i))
          BY <1>1, <2>1, <4>1, <4>2, <5>1, MemberFacts DEF Kept
        <5>3. InClass' /\ pre'.h = 0 /\ k = i' - 1
          <6>1. pc' = "precalc_rise" /\ pre'.h = 0
            BY <1>5, <1>7, <5>2 DEF NoPre
          <6>2. k = i' - 1
            BY <1>1, <4>2
          <6> QED
            BY <1>1, <1>7, <6>1, <6>2 DEF InClass
        <5> QED
          BY <4>1, <5>3
      <4>3. CASE k # i
        <5>1. k \in 0 .. i - 1
          BY <1>1, <4>1, <4>3
        <5> QED
          BY <1>1, <1>7, <4>1, <5>1 DEF Behind
      <4> QED
        BY <4>2, <4>3
    <3> QED
      BY <3>1, <3>2
  <2>2. ~Testing'
    BY <1>5, <1>7 DEF Testing
  <2> QED
    BY <1>1, <1>2, <1>4, <2>1, <2>2 DEF TestedInv
<1> QED
  BY <1>6, <1>7

\* calc comes past one member of its class.
LEMMA CalcKeepsTested ==
  ASSUME PlaceInv, TestedInv, Calc
  PROVE  TestedInv' /\ (Testing' => n0' \notin tested')
<1> DEFINE N0 == Base + pre.h * Pow2[SIEVE_LOGSIZE] + pre.L0
<1>1. /\ Job /\ pc = "calc" /\ ~Testing /\ InClass /\ i \in 0 .. Count /\ i > 0 /\ prog.precalc
      /\ pre.L0 = Number(i - 1) /\ pre.h \in 0 .. Shares /\ IsLive(pre.L0)
      /\ UNCHANGED <<prog, task, i, tested>>
  BY DEF PlaceInv, Typed, ClassInv, Calc, Testing, InClass
<1>2. /\ \A k : Number(k)' = Number(k)
      /\ \A m, h : Member(m, h)' = Member(m, h)
      /\ \A m : Kept(m)' <=> Kept(m)
  BY <1>1, SameJob
<1>3. Count \in Nat /\ Shares \in Nat \ {0}
  BY <1>1, JobKinds, WorkerConstants
<1>4. \A m : m \in tested <=> Behind(m) /\ Kept(m)
  BY <1>1 DEF TestedInv
<1>5. CASE pre.h = Pow2[TASK_SIZE - SIEVE_LOGSIZE]
  <2>1. pc' = "solve" /\ ~InClass' /\ ~Testing'
    BY <1>5 DEF Calc, InClass, Testing
  <2>2. \A h \in 0 .. Shares - 1 : h < pre.h
    BY <1>3, <1>5 DEF Shares
  <2>3. \A m : Behind(m)' <=> Behind(m)
    BY <1>1, <1>2, <2>1, <2>2 DEF Behind, Shares
  <2> QED
    BY <1>1, <1>2, <1>4, <2>1, <2>3 DEF TestedInv
<1>6. CASE pre.h # Pow2[TASK_SIZE - SIEVE_LOGSIZE]
  <2>1. /\ pre.h \in 0 .. Shares - 1 /\ N0 = Member(pre.L0, pre.h)
        /\ pre.L0 \in 0 .. Pow2[SIEVE_LOGSIZE] - 1 /\ IsLive(N0)
    BY <1>1, <1>6, CalcMember
  <2>2. /\ pre' = [pre EXCEPT !.h = @ + 1]
        /\ IF ~IsLiveInSieve(N0, prog.mod)
             THEN UNCHANGED <<pc, n0, n, sum>>
             ELSE n0' = N0 /\ pc' \in {"rise", "even"}
    BY <1>6 DEF Calc, Enter
  <2> HIDE DEF N0
  <2>3. pre'.h = pre.h + 1 /\ InClass'
    <3>1. pre'.h = pre.h + 1
      BY <2>2 DEF PlaceInv, ClassInv
    <3> QED
      BY <1>1, <2>2, <3>1 DEF InClass
  <2>4. \A m : Behind(m)' <=> Behind(m) \/ m = N0
    <3> TAKE m
    <3>1. \A h \in 0 .. Shares - 1 : h < pre.h + 1 <=> h < pre.h \/ h = pre.h
      BY <1>1
    <3>2. i - 1 \in 0 .. i - 1
      BY <1>1
    <3>3. Behind(m)' <=> \E k \in 0 .. i - 1, h \in 0 .. Shares - 1 :
             m = Member(Number(k), h) /\ (k = i - 1 => h < pre.h + 1)
      BY <1>1, <1>2, <2>3 DEF Behind, Shares
    <3>4. Behind(m) <=> \E k \in 0 .. i - 1, h \in 0 .. Shares - 1 :
             m = Member(Number(k), h) /\ (k = i - 1 => h < pre.h)
      BY <1>1 DEF Behind
    <3> QED
      BY <1>1, <2>1, <3>1, <3>2, <3>3, <3>4
  <2>5. ~Behind(N0)
    <3> SUFFICES ASSUME NEW k \in 0 .. i - 1, NEW h \in 0 .. Shares - 1,
                        N0 = Member(Number(k), h), k = i - 1 => h < pre.h
                 PROVE  FALSE
      BY <1>1 DEF Behind
    <3>1. k \in 0 .. Count - 1 /\ i - 1 \in 0 .. Count - 1
      BY <1>1, <1>3
    <3>2. Number(k) \in 0 .. Pow2[SIEVE_LOGSIZE] - 1
      <4>1. Number(k) < Pow2[SIEVE_LOGSIZE] /\ Number(k) \in Nat
        BY <1>1, <3>1, NumberFacts
      <4> QED
        BY <4>1, WorkerConstants, PowerBounds
    <3>3. pre.L0 = Number(k) /\ pre.h = h
      <4>1. PICK a \in 0 .. Pow2[SIEVE_LOGSIZE] - 1, b \in 0 .. Shares - 1 : a = pre.L0 /\ b = pre.h
        BY <2>1
      <4>2. Member(a, b) = Member(Number(k), h)
        BY <2>1, <4>1
      <4> QED
        BY <1>1, <3>2, <4>1, <4>2, MemberDistinct
    <3>4. k = i - 1
      BY <1>1, <3>1, <3>3, NumberDistinct
    <3> QED
      BY <2>1, <3>3, <3>4
  <2>6. Kept(N0) <=> IsLiveInSieve(N0, prog.mod)
    BY <2>1 DEF Kept
  <2>7. IF Kept(N0) THEN n0' = N0 /\ Testing' ELSE ~Testing'
    BY <1>1, <2>2, <2>6 DEF Testing
  <2> QED
    BY <1>1, <1>2, <1>4, <2>4, <2>5, <2>7 DEF TestedInv
<1> QED
  BY <1>5, <1>6

\* The other steps come past nothing; check's last round adds its number.
LEMMA NextKeepsTested ==
  ASSUME PlaceInv, TestedInv, [Next]_vars
  PROVE  TestedInv'
<1>0. Job /\ i \in 0 .. Count
  BY DEF PlaceInv, Typed
<1>1. CASE PrecalcRise \/ PrecalcFall
  <2>1. /\ pre'.h = 0 /\ ~Testing' /\ UNCHANGED <<prog, task, i, tested>>
        /\ pc' \in {"precalc_rise", "precalc_fall", "calc"} /\ ~Testing
        /\ pc \in {"precalc_rise", "precalc_fall"}
    <3>1. pc \in {"precalc_rise", "precalc_fall"} /\ ~Testing
      BY <1>1 DEF PrecalcRise, PrecalcFall, Testing
    <3> QED
      BY <1>1, <3>1, PrecalcRiseKeepsPlace, PrecalcFallKeepsPlace
  <2>2. /\ \A k : Number(k)' = Number(k)
        /\ \A m, h : Member(m, h)' = Member(m, h)
        /\ \A m : Kept(m)' <=> Kept(m)
    BY <2>1, SameJob
  <2>3. InClass /\ InClass' /\ pre.h = 0
    BY <2>1 DEF PlaceInv, ClassInv, InClass
  <2>4. \A m : Behind(m)' <=> Behind(m)
    BY <2>1, <2>2, <2>3 DEF Behind, Shares
  <2> QED
    BY <2>1, <2>2, <2>4 DEF TestedInv
<1>2. CASE Rise \/ Fall \/ WideStep
  <2>1. UNCHANGED <<prog, task, i, n0, pre>> /\ Testing
    BY <1>2 DEF Rise, Fall, WideStep, Testing
  <2>2. /\ \A k : Number(k)' = Number(k)
        /\ \A m, h : Member(m, h)' = Member(m, h)
        /\ \A m : Kept(m)' <=> Kept(m)
    BY <2>1, SameJob
  <2>3. PICK k \in Nat : k >= From /\ Comes(n0, k, Cur)
    BY <2>1 DEF PlaceInv, NumberInv
  <2>4. prog.precalc \in BOOLEAN /\ Kept(n0)
    BY <1>0, <2>1, JobKinds DEF PlaceInv, NumberInv
  <2>5. Behind(n0)
    <3>1. CASE prog.precalc
      <4>1. /\ i > 0 /\ pre.L0 = Number(i - 1) /\ pre.h > 0 /\ pre.h \in 0 .. Shares
            /\ n0 = Member(pre.L0, pre.h - 1)
        BY <2>1, <3>1 DEF PlaceInv, ClassInv, InClass, Testing
      <4>2. i - 1 \in 0 .. i - 1 /\ pre.h - 1 \in 0 .. Shares - 1 /\ pre.h - 1 < pre.h
        BY <1>0, <4>1, WorkerConstants
      <4> QED
        BY <3>1, <4>1, <4>2 DEF Behind
    <3>2. CASE ~prog.precalc
      <4>1. i > 0 /\ n0 = Number(i - 1)
        BY <2>1, <3>2 DEF PlaceInv, NumberInv
      <4>2. i - 1 \in 0 .. i - 1
        BY <1>0, <4>1
      <4> QED
        BY <3>2, <4>1, <4>2 DEF Behind
    <3> QED
      BY <3>1, <3>2
  <2>6. ASSUME Testing' \/ pc' = (IF prog.precalc THEN "calc" ELSE "solve")
        PROVE  /\ pc' # "aborted"
               /\ \A m : Behind(m)' <=> Behind(m)
    <3>1. InClass' <=> InClass
      BY <2>1, <2>4, <2>6 DEF InClass, Testing
    <3>2. \A m : Behind(m)' <=> Behind(m)
      BY <2>1, <2>2, <3>1 DEF Behind, Shares
    <3>3. pc' # "aborted"
      BY <2>4, <2>6 DEF Testing
    <3> QED
      BY <3>2, <3>3
  <2>7. pc # "aborted"
    BY <2>1 DEF Testing
  <2>8. CASE pc' = "aborted"
    BY <2>8 DEF TestedInv
  <2>9. CASE Testing' /\ tested' = tested
    BY <2>1, <2>2, <2>6, <2>7, <2>9 DEF TestedInv
  <2>10. CASE pc' = (IF prog.precalc THEN "calc" ELSE "solve") /\ tested' = tested \cup {n0}
    <3>1. ~Testing'
      BY <2>4, <2>10 DEF Testing
    <3> QED
      BY <2>1, <2>2, <2>4, <2>5, <2>6, <2>7, <2>10, <3>1 DEF TestedInv
  <2> QED
    BY <1>2, <2>3, <2>8, <2>9, <2>10, CheckStep
<1>3. CASE Halt \/ UNCHANGED vars
  <2>1. /\ UNCHANGED <<prog, task, i, n0, pre, tested>>
        /\ pc' = pc \/ (pc = "solve" /\ pc' = "halted")
    BY <1>3 DEF Halt, vars
  <2>2. /\ \A k : Number(k)' = Number(k)
        /\ \A m, h : Member(m, h)' = Member(m, h)
        /\ \A m : Kept(m)' <=> Kept(m)
    BY <2>1, SameJob
  <2>3. /\ (InClass' <=> InClass) /\ (Testing' <=> Testing)
        /\ (pc' = "aborted" <=> pc = "aborted")
    BY <2>1 DEF InClass, Testing
  <2>4. \A m : Behind(m)' <=> Behind(m)
    BY <2>1, <2>2, <2>3 DEF Behind, Shares
  <2> QED
    BY <2>1, <2>2, <2>3, <2>4 DEF TestedInv
<1> QED
  BY <1>1, <1>2, <1>3, SolveKeepsTested, CalcKeepsTested DEF Next

\* The start.
LEMMA InitTested == Init => TestedInv
<1> SUFFICES ASSUME Init PROVE TestedInv
  OBVIOUS
<1>1. i = 0 /\ tested = {} /\ pc = "solve"
  BY DEF Init
<1>2. \A m : ~Behind(m)
  BY <1>1 DEF Behind
<1> QED
  BY <1>1, <1>2 DEF TestedInv

\* The outer loop and the definition of the task's numbers agree: the worker
\* without precalc,
LEMMA PlainTask ==
  ASSUME Job, prog.kind = "worker", ~prog.precalc, NEW m
  PROVE  (m \in Base .. Base + Pow2[TASK_SIZE] - 1 /\ m % 4 = 3)
           <=> \E k \in 0 .. Count - 1 : m = Number(k)
<1>1. /\ Base \in Nat /\ Count \in Nat /\ Pow2[TASK_SIZE] = 4 * Count
      /\ Count = Pow2[TASK_SIZE - 2]
  BY JobKinds, WorkerConstants DEF Count
<1>2. PICK c \in Nat : Base = 4 * c
  BY JobKinds
<1>3. ASSUME m \in Base .. Base + Pow2[TASK_SIZE] - 1, m % 4 = 3
      PROVE  \E k \in 0 .. Count - 1 : m = Number(k)
  <2>1. m \in Nat /\ m >= 4 * c /\ m < 4 * c + 4 * Count
    BY <1>1, <1>2, <1>3
  <2>2. PICK y \in Nat : m = 4 * y + 3
    BY <1>3, <2>1
  <2>3. y - c \in 0 .. Count - 1 /\ m = Base + 3 + 4 * (y - c)
    BY <1>1, <1>2, <2>1, <2>2
  <2>4. Number(y - c) = Base + 3 + 4 * (y - c)
    BY <2>3, NumberFacts
  <2> QED
    BY <2>3, <2>4
<1>4. ASSUME NEW k \in 0 .. Count - 1, m = Number(k)
      PROVE  m \in Base .. Base + Pow2[TASK_SIZE] - 1 /\ m % 4 = 3
  <2>1. /\ m = Base + 3 + 4 * k /\ m < Base + Pow2[TASK_SIZE] /\ m % 4 = 3 /\ m \in Nat
    BY <1>4, NumberFacts
  <2> QED
    BY <1>1, <2>1
<1> QED
  BY <1>3, <1>4

\* the worker with precalc,
LEMMA ClassTask ==
  ASSUME Job, prog.precalc, NEW m
  PROVE  (m \in Base .. Base + Pow2[TASK_SIZE] - 1 /\ m % 4 = 3)
           <=> \E k \in 0 .. Count - 1, h \in 0 .. Shares - 1 : m = Member(Number(k), h)
<1>1. /\ Base \in Nat /\ Count \in Nat /\ Pow2[SIEVE_LOGSIZE] = 4 * Count
      /\ Pow2[TASK_SIZE] = Pow2[SIEVE_LOGSIZE] * Shares /\ Shares \in Nat \ {0}
      /\ Count \in Nat \ {0}
  BY JobKinds, WorkerConstants, PowerBounds DEF Count
<1>2. PICK c \in Nat : Base = 4 * c
  BY JobKinds
<1>3. PICK p \in Nat \ {0} : p = Pow2[SIEVE_LOGSIZE] /\ p = 4 * Count
  BY <1>1
<1>4. ASSUME m \in Base .. Base + Pow2[TASK_SIZE] - 1, m % 4 = 3
      PROVE  \E k \in 0 .. Count - 1, h \in 0 .. Shares - 1 : m = Member(Number(k), h)
  <2>0. p * Shares \in Nat
    BY <1>1, ProductLaws
  <2>1. m \in Nat /\ m - Base \in Nat /\ m - Base < p * Shares
    BY <1>1, <1>3, <1>4, <2>0
  <2>2. PICK h \in Nat, l \in 0 .. p - 1 : m - Base = (p * h) + l
    BY <2>1, Division
  <2>3. p * h \in Nat /\ p * h = h * p
    BY ProductLaws
  <2>4. h < Shares
    <3>1. ASSUME Shares <= h PROVE FALSE
      <4>1. p * Shares <= p * h
        BY <1>1, <3>1, ProductOrder
      <4> QED
        BY <2>0, <2>1, <2>2, <2>3, <4>1
    <3> QED
      BY <1>1, <3>1
  <2>5. l % 4 = 3
    <3>1. p * h = 4 * (Count * h) /\ Count * h \in Nat
      <4>1. 4 * (Count * h) = (4 * Count) * h /\ Count * h \in Nat
        BY <1>1, ProductLaws
      <4> QED
        BY <1>3, <4>1
    <3>2. PICK x \in Nat : p * h = 4 * x
      BY <3>1
    <3>3. m = 4 * c + 4 * x + l /\ m \in Nat
      BY <1>2, <2>1, <2>2, <3>2
    <3> QED
      BY <1>4, <3>3
  <2>6. PICK k \in Nat : l = 3 + 4 * k
    BY <2>5
  <2>7. k \in 0 .. Count - 1
    BY <1>1, <1>3, <2>2, <2>6
  <2>8. Number(k) = l
    BY <2>6, <2>7, NumberFacts
  <2>9. m = Member(Number(k), h)
    BY <1>1, <1>3, <2>1, <2>2, <2>3, <2>8 DEF Member
  <2> QED
    BY <1>1, <2>4, <2>7, <2>9
<1>5. ASSUME NEW k \in 0 .. Count - 1, NEW h \in 0 .. Shares - 1, m = Member(Number(k), h)
      PROVE  m \in Base .. Base + Pow2[TASK_SIZE] - 1 /\ m % 4 = 3
  <2>1. Number(k) \in Nat /\ Number(k) < Pow2[SIEVE_LOGSIZE] /\ Number(k) % 4 = 3
    BY NumberFacts
  <2>2. PICK a \in 0 .. Pow2[SIEVE_LOGSIZE] - 1 : a = Number(k) /\ a % 4 = 3
    BY <1>3, <2>1
  <2>3. /\ m \in Nat /\ m >= Base /\ m < Base + Pow2[TASK_SIZE]
        /\ m = (Pow2[SIEVE_LOGSIZE] * ((task * Shares) + h)) + a
        /\ (task * Shares) + h \in Nat
    BY <1>5, <2>2, MemberFacts
  <2>4. PICK q \in Nat : m = (p * q) + a
    BY <1>3, <2>3
  <2>5. PICK x \in Nat : p * q = 4 * x
    <3>1. 4 * (Count * q) = (4 * Count) * q /\ Count * q \in Nat
      BY <1>1, ProductLaws
    <3> QED
      BY <1>3, <3>1
  <2>6. m % 4 = 3
    BY <2>2, <2>4, <2>5
  <2>7. Pow2[TASK_SIZE] \in Nat
    BY <1>1, <1>3, ProductLaws
  <2> QED
    BY <1>1, <2>3, <2>6, <2>7
<1> QED
  BY <1>4, <1>5

\* and the residue-sieve worker, whose patterns are read off ternary digits.
LEMMA PatternTask ==
  ASSUME Job, prog.kind = "residue", NEW m
  PROVE  (m \in Universe /\ m % 4 = 3 /\ InTask(m))
           <=> \E k \in 0 .. Count - 1 : m = Number(k)
<1> DEFINE q == m \div 4
           digit(e) == (q \div Pow3[e]) % 3
           base == Pow2[LowBits] * task
<1>1. /\ task \in Nat /\ task < Pow2[LogProcs] /\ Count = Pow2[LowBits] /\ LowBits \in Nat
      /\ LogProcs \in Nat /\ Target \in Nat /\ LowBits + LogProcs = Target
      /\ Pow2[LowBits] \in Nat \ {0} /\ Pow2[LogProcs] \in Nat
      /\ Pow2[Target] = Pow2[LowBits] * Pow2[LogProcs]
      /\ Target - LogProcs = LowBits
  BY JobKinds, WorkerConstants, PowerBounds DEF Count
<1>2. /\ Universe = 0 .. 8 * Pow3[Target] + 3
      /\ InTask(m) <=> /\ q \div Pow3[Target] = 1
                       /\ \A e \in 0 .. Target - 1 : digit(e) \in {0, 1}
                       /\ \A b \in 0 .. LogProcs - 1 : digit(LowBits + b) = (task \div Pow2[b]) % 2
  BY <1>1 DEF Universe, InTask
<1>3. \A k \in 0 .. Count - 1 : Number(k) = PatternNumber(base + k) /\ base + k \in 0 .. Pow2[Target] - 1
  BY NumberFacts
<1>4. ASSUME m \in Universe, m % 4 = 3, InTask(m)
      PROVE  \E k \in 0 .. Count - 1 : m = Number(k)
  <2>1. m \in Nat
    BY <1>2, <1>4
  <2>2. PICK arr \in 0 .. Pow2[Target] - 1 : m = PatternNumber(arr)
    BY <1>2, <1>4, <2>1, PatternNumberInverse
  <2>3. arr \in Nat /\ \A e \in 0 .. Target - 1 : digit(e) = Bit(arr, e)
    <3>1. arr \in Nat
      OBVIOUS
    <3> QED
      BY <2>2, <3>1, PatternNumberValue
  <2>4. PICK c \in Nat, w \in 0 .. Pow2[LowBits] - 1 : arr = (Pow2[LowBits] * c) + w
    <3>1. PICK x \in Nat \ {0} : x = Pow2[LowBits]
      BY <1>1
    <3>2. arr \in Nat
      OBVIOUS
    <3>3. arr \div x \in Nat /\ arr % x \in 0 .. x - 1 /\ arr = x * (arr \div x) + (arr % x)
      BY <3>2, Division
    <3> QED
      BY <3>1, <3>3
  <2>5. c < Pow2[LogProcs]
    <3>1. ASSUME Pow2[LogProcs] <= c PROVE FALSE
      <4>1. Pow2[LowBits] * Pow2[LogProcs] <= Pow2[LowBits] * c /\ Pow2[LowBits] * c \in Nat
            /\ Pow2[LowBits] * Pow2[LogProcs] \in Nat
        BY <1>1, <3>1, ProductOrder, ProductLaws
      <4>2. PICK x \in Nat, y \in Nat : x = Pow2[LowBits] * c /\ y = Pow2[Target] /\ y <= x
        BY <1>1, <4>1
      <4>3. arr = x + w /\ arr < y /\ w \in Nat
        BY <2>2, <2>4, <4>2
      <4> QED
        BY <4>2, <4>3
    <3> QED
      BY <1>1, <3>1
  <2>6. ASSUME NEW b \in 0 .. LogProcs - 1 PROVE Bit(c, b) = Bit(task, b)
    <3>1. LowBits + b \in 0 .. Target - 1 /\ b \in Nat
      BY <1>1
    <3>2. w \in Nat /\ w < Pow2[LowBits]
      BY <1>1
    <3>3. Bit((Pow2[LowBits] * c) + w, LowBits + b) = Bit(c, b)
      BY <1>1, <3>1, <3>2, LowBitsOf
    <3>4. digit(LowBits + b) = Bit(task, b)
      BY <1>2, <1>4 DEF Bit
    <3> QED
      BY <2>3, <2>4, <3>1, <3>3, <3>4
  <2>7. c = task
    <3>1. c \in 0 .. Pow2[LogProcs] - 1 /\ task \in 0 .. Pow2[LogProcs] - 1
      BY <1>1, <2>5
    <3> QED
      BY <1>1, <2>6, <3>1, BitsDetermine
  <2>8. w \in 0 .. Count - 1 /\ m = Number(w)
    BY <1>1, <1>3, <2>2, <2>4, <2>7
  <2> QED
    BY <2>8
<1>5. ASSUME NEW k \in 0 .. Count - 1, m = Number(k)
      PROVE  m \in Universe /\ m % 4 = 3 /\ InTask(m)
  <2>1. PICK arr \in Nat : arr = base + k /\ m = PatternNumber(arr)
    BY <1>3, <1>5
  <2>2. /\ m \in Nat /\ m % 4 = 3 /\ m + 1 <= 6 * Pow3[Target] + 2
        /\ q \div Pow3[Target] = 1
        /\ \A e \in 0 .. Target - 1 : digit(e) = Bit(arr, e)
    BY <2>1, PatternNumberValue
  <2>3. m \in Universe
    <3>1. Pow3[Target] \in Nat
      BY <1>1, PowerBounds
    <3> QED
      BY <1>2, <2>2, <3>1
  <2>4. \A e \in 0 .. Target - 1 : digit(e) \in {0, 1}
    <3> TAKE e \in 0 .. Target - 1
    <3>1. e \in Nat
      BY <1>1
    <3>2. Bit(arr, e) \in {0, 1}
      BY <3>1, BitType
    <3> QED
      BY <2>2, <3>2
  <2>5. ASSUME NEW b \in 0 .. LogProcs - 1 PROVE digit(LowBits + b) = (task \div Pow2[b]) % 2
    <3>1. LowBits + b \in 0 .. Target - 1 /\ b \in Nat
      BY <1>1
    <3>2. k \in Nat /\ k < Pow2[LowBits]
      BY <1>1
    <3>3. Bit((Pow2[LowBits] * task) + k, LowBits + b) = Bit(task, b)
      BY <1>1, <3>1, <3>2, LowBitsOf
    <3>4. digit(LowBits + b) = Bit(task, b)
      BY <2>1, <2>2, <3>1, <3>3
    <3> QED
      BY <3>4 DEF Bit
  <2> QED
    BY <1>2, <2>2, <2>3, <2>4, <2>5
<1> QED
  BY <1>4, <1>5

\* A finished run has tested the numbers of its task, all of them and no other.
LEMMA TestedAll ==
  ASSUME PlaceInv, TestedInv, Halted
  PROVE  tested = Selected
<1>1. Job /\ i = Count /\ ~InClass /\ ~Testing /\ pc # "aborted"
  BY DEF PlaceInv, Typed, Halted, InClass, Testing
<1>2. prog.kind \in {"worker", "residue"} /\ prog.precalc \in BOOLEAN /\ Count \in Nat
      /\ (prog.precalc => prog.kind = "worker") /\ (prog.kind = "residue" => prog.mod = 1)
  BY <1>1, JobKinds
<1>3. \A m : m \in tested <=> Behind(m) /\ Kept(m)
  BY <1>1 DEF TestedInv
<1>4. \A m : Behind(m) <=> IF prog.precalc
                             THEN \E k \in 0 .. Count - 1, h \in 0 .. Shares - 1 : m = Member(Number(k), h)
                             ELSE \E k \in 0 .. Count - 1 : m = Number(k)
  BY <1>1 DEF Behind
<1>5. ASSUME NEW m PROVE m \in tested <=> m \in Selected
  <2>1. CASE prog.kind = "worker"
    <3>1. Behind(m) <=> m \in Base .. Base + Pow2[TASK_SIZE] - 1 /\ m % 4 = 3
      BY <1>1, <1>2, <1>4, <2>1, PlainTask, ClassTask
    <3>2. m \in Selected <=> /\ m \in Base .. Base + Pow2[TASK_SIZE] - 1 /\ m % 4 = 3
                             /\ IsLive(m) /\ IsLiveInSieve(m, prog.mod)
      BY <2>1 DEF Selected, Universe, InTask
    <3> QED
      BY <1>3, <3>1, <3>2 DEF Kept
  <2>2. CASE prog.kind = "residue"
    <3>1. Behind(m) <=> m \in Universe /\ m % 4 = 3 /\ InTask(m)
      BY <1>1, <1>2, <1>4, <2>2, PatternTask
    <3>2. IsLiveInSieve(m, prog.mod)
      BY <1>2, <2>2 DEF IsLiveInSieve, Dead
    <3> QED
      BY <1>3, <3>1, <3>2 DEF Kept, Selected
  <2> QED
    BY <1>2, <2>1, <2>2
<1> QED
  BY <1>5

\* What is tested in every state.
LEMMA TestedHolds == Spec => [](PlaceInv /\ TestedInv)
<1>1. Init => PlaceInv /\ TestedInv
  BY InitPlace, InitTested
<1>2. PlaceInv /\ TestedInv /\ [Next]_vars => (PlaceInv /\ TestedInv)'
  BY NextKeepsPlace, NextKeepsTested
<1> QED
  BY <1>1, <1>2, PTL DEF Spec

\* Each process of the residue-sieve worker checks the numbers of its own task,
\* for any size of the sieve and any number of processes.
THEOREM PartCoveredCorrect == Spec => []PartCovered
<1>1. PlaceInv /\ TestedInv => PartCovered
  BY TestedAll DEF PartCovered
<1> QED
  BY <1>1, TestedHolds, PTL

-----------------------------------------------------------------------------
(* What the totals of a run stand for.                                     *)

\* The shares of the members calc has still to test: precalc has added them.
Ahead == IF prog.precalc /\ prog.mod = 1 /\ pc \in {"calc", "rise", "even", "wide"}
           THEN pre.Salpha * (Shares - pre.h) ELSE 0

\* A step between two tests.
Rests == /\ ~Testing /\ ~Testing' /\ UNCHANGED <<prog, tested, over>> /\ pc # "aborted"
         /\ pc' # "aborted"
         /\ Ahead' \in Nat
         /\ \E x \in Nat : sum' = Checksum(sum + x) /\ Ahead' = Ahead + x

\* A step that begins one.
Begins == /\ ~Testing /\ Testing' /\ pc' \in {"rise", "even"} /\ pc # "aborted"
          /\ UNCHANGED <<prog, tested, over, max, mpzMax>>
          /\ n0' \in Nat /\ n0' >= 3 /\ n0' \notin tested
          /\ Comes(n0', From, Cur') /\ Cur' <= UMax(Width)
          /\ Ahead' \in Nat
          /\ \E x \in Nat : /\ sum' = Checksum(sum + x)
                            /\ Ahead' + OddStepsIn(n0', From) = Ahead + x

\* The part of a checksum that is ahead is a number.
AheadFacts == /\ Ahead \in Nat /\ sum \in Nat /\ Checksum(sum + 0) = sum
              /\ ~prog.precalc => Ahead = 0
              /\ pc \in {"solve", "halted", "precalc_rise", "precalc_fall"} => Ahead = 0

\* What is ahead of a class is a number.
LEMMA AheadType == PlaceInv => AheadFacts
<1> SUFFICES ASSUME PlaceInv PROVE AheadFacts
  OBVIOUS
<1>1. sum \in 0 .. UMax(SumBits) /\ pre.Salpha \in Nat /\ pre.h \in 0 .. Shares /\ Shares \in Nat
  <2>1. 0 .. LUT_SIZE64 - 1 \subseteq Nat
    OBVIOUS
  <2> QED
    BY <2>1, WorkerConstants DEF PlaceInv, Typed, ClassInv
<1>2. pre.Salpha * (Shares - pre.h) \in Nat
  <2>1. Shares - pre.h \in Nat
    BY <1>1
  <2> QED
    BY <1>1, <2>1, ProductLaws
<1>3. sum \in Nat /\ sum + 0 = sum /\ 0 \in Nat
  BY <1>1
<1>4. Checksum(sum) = sum
  BY <1>1, <1>3, ChecksumValue
<1> QED
  BY <1>2, <1>3, <1>4 DEF Ahead, AheadFacts

\* So it is after a step.
LEMMA AheadTypeNext == PlaceInv' => AheadFacts'
BY AheadType, PTL

\* solve_task and calc begin tests,
LEMMA TestBegins ==
  ASSUME PlaceInv, TestedInv, SolveTask \/ Calc, Testing'
  PROVE  Begins
<1>1. PlaceInv' /\ TestedInv'
  BY SolveKeepsPlace, CalcKeepsPlace, SolveKeepsTested, CalcKeepsTested
<1>2. /\ Ahead \in Nat /\ Ahead' \in Nat /\ sum \in Nat /\ Checksum(sum + 0) = sum /\ Job
      /\ 0 \in Nat
  BY <1>1, AheadType, AheadTypeNext DEF PlaceInv, Typed, AheadFacts
<1>3. n0' \notin tested
  BY SolveKeepsTested, CalcKeepsTested DEF SolveTask, Calc
<1>4. UNCHANGED <<prog, tested, over, max, mpzMax>> /\ pc # "aborted" /\ ~Testing
  BY DEF SolveTask, Calc, Testing
<1>5. n0' \in Nat /\ n0' >= 3
  BY <1>1 DEF PlaceInv, NumberInv
<1>6. CASE SolveTask
  <2>1. pc' = "rise" /\ n' = n0' + 1 /\ sum' = sum
    BY <1>6, SolveKeepsTested DEF SolveTask
  <2>2. ~prog.precalc
    BY <1>6, <2>1 DEF SolveTask
  <2>3. Ahead = 0 /\ Ahead' = 0 /\ From = 0
    BY <1>1, <1>4, <2>2, AheadType, AheadTypeNext DEF From, AheadFacts
  <2>4. Cur' = n0'
    <3>1. (n0' + 1) - 1 = n0'
      <4>1. \A x \in Nat : (x + 1) - 1 = x
        OBVIOUS
      <4> QED
        BY <1>5, <4>1, Zenon
    <3> QED
      BY <2>1, <3>1 DEF Cur
  <2>5. Comes(n0', 0, n0')
    BY <1>5, IterateDefined DEF Comes
  <2>6. OddStepsIn(n0', 0) = 0
    BY <1>5, OddStepsNext
  <2>7. n0' <= UMax(Width)
    BY <1>1, WorkerConstants, PowerBounds DEF PlaceInv, NumberInv, UMax
  <2>8. sum' = Checksum(sum + 0) /\ Ahead' + OddStepsIn(n0', From) = Ahead + 0
    BY <1>2, <2>1, <2>3, <2>6
  <2> QED
    BY <1>2, <1>3, <1>4, <1>5, <2>1, <2>3, <2>4, <2>5, <2>7, <2>8 DEF Begins
<1>7. CASE Calc
  <2> DEFINE N0 == Base + pre.h * Pow2[SIEVE_LOGSIZE] + pre.L0
             v == ((Base + pre.h * Pow2[SIEVE_LOGSIZE]) \div Pow2[SIEVE_LOGSIZE])
                    * Pow3[pre.Salpha] + pre.L
  <2>1. pc = "calc" /\ pre.h # Pow2[TASK_SIZE - SIEVE_LOGSIZE] /\ IsLiveInSieve(N0, prog.mod)
    BY <1>7 DEF Calc, Testing
  <2>2. /\ prog.precalc /\ pre.h \in 0 .. Shares - 1
        /\ v \in Nat /\ v + 1 <= UMax(Width)
        /\ Comes(N0, SIEVE_LOGSIZE, v)
        /\ OddStepsIn(N0, SIEVE_LOGSIZE) = pre.Salpha
    BY <2>1, CalcMember
  <2>3. /\ pre' = [pre EXCEPT !.h = @ + 1]
        /\ sum' = IF prog.mod = 1 THEN sum ELSE Checksum(sum + pre.Salpha)
        /\ n0' = N0
        /\ IF Odd(v) THEN n' = v + 1 /\ pc' = "rise" ELSE n' = v /\ pc' = "even"
    BY <1>7, <2>1 DEF Calc, Enter
  <2> HIDE DEF N0, v
  <2>4. pre'.h = pre.h + 1 /\ pre'.Salpha = pre.Salpha /\ pre.Salpha \in Nat
    <3>1. 0 .. LUT_SIZE64 - 1 \subseteq Nat
      OBVIOUS
    <3> QED
      BY <2>3, <3>1 DEF PlaceInv, ClassInv
  <2>5. Cur' = v /\ From = SIEVE_LOGSIZE /\ v <= UMax(Width)
    <3>1. (v + 1) - 1 = v /\ UMax(Width) \in Nat
      BY <2>2, WorkerConstants, PowerBounds DEF UMax
    <3> QED
      BY <2>2, <2>3, <3>1 DEF Cur, From
  <2>6. \E x \in Nat : sum' = Checksum(sum + x) /\ Ahead' + OddStepsIn(n0', From) = Ahead + x
    <3>1. OddStepsIn(n0', From) = pre.Salpha
      BY <2>2, <2>3, <2>5
    <3>2. CASE prog.mod = 1
      <4>1. Ahead = pre.Salpha * (Shares - pre.h) /\ Ahead' = pre.Salpha * (Shares - (pre.h + 1))
        BY <1>4, <2>1, <2>2, <2>3, <2>4, <3>2 DEF Ahead, Shares
      <4>2. PICK r \in Nat : r + 1 = Shares - pre.h /\ r = Shares - (pre.h + 1)
        BY <2>2, WorkerConstants
      <4>3. pre.Salpha * (r + 1) = (pre.Salpha * r) + (pre.Salpha * 1) /\ pre.Salpha * r \in Nat
        BY <2>4, ProductLaws
      <4>4. Ahead' + pre.Salpha = Ahead + 0
        BY <2>4, <4>1, <4>2, <4>3
      <4> QED
        BY <1>2, <2>3, <3>1, <3>2, <4>4
    <3>3. CASE prog.mod # 1
      <4>1. Ahead = 0 /\ Ahead' = 0
        BY <1>4, <3>3 DEF Ahead
      <4> QED
        BY <2>3, <2>4, <3>1, <3>3, <4>1
    <3> QED
      BY <3>2, <3>3
  <2> QED
    BY <1>2, <1>3, <1>4, <1>5, <2>2, <2>3, <2>5, <2>6 DEF Begins
<1> QED
  BY <1>6, <1>7

\* and otherwise rest, as precalc and the end of a run do.
LEMMA TestRests ==
  ASSUME PlaceInv, TestedInv,
         \/ (SolveTask \/ Calc) /\ ~Testing'
         \/ PrecalcRise \/ PrecalcFall \/ Halt
  PROVE  /\ Rests
         /\ ~Halt => UNCHANGED <<max, mpzMax>> /\ pc' # "halted"
<1>1. PlaceInv'
  BY NextKeepsPlace DEF Next
<1>2. /\ Ahead \in Nat /\ Ahead' \in Nat /\ sum \in Nat /\ Checksum(sum + 0) = sum /\ Job
      /\ 0 \in Nat /\ Ahead + 0 = Ahead
  BY <1>1, AheadType, AheadTypeNext DEF PlaceInv, Typed, AheadFacts
<1>3. ASSUME sum' = sum, Ahead' = Ahead
      PROVE  \E x \in Nat : sum' = Checksum(sum + x) /\ Ahead' = Ahead + x
  BY <1>2, <1>3
<1>4. CASE SolveTask /\ ~Testing'
  <2>1. /\ UNCHANGED <<prog, tested, over, sum, max, mpzMax>> /\ pc = "solve"
        /\ pc' \in {"solve", "precalc_rise", "rise", "even"}
    BY <1>4 DEF SolveTask, Enter
  <2>2. pc' \in {"solve", "precalc_rise"}
    BY <1>4, <2>1 DEF Testing
  <2>3. Ahead = 0 /\ Ahead' = 0
    BY <1>1, <2>1, <2>2, AheadType, AheadTypeNext DEF AheadFacts
  <2> QED
    BY <1>2, <1>3, <1>4, <2>1, <2>2, <2>3 DEF Rests, Testing, Halt
<1>5. CASE Calc /\ ~Testing'
  <2>1. /\ UNCHANGED <<prog, tested, over, max, mpzMax>> /\ pc = "calc"
        /\ pc' \in {"solve", "calc", "rise", "even"}
    BY <1>5 DEF Calc, Enter
  <2>2. pc' \in {"solve", "calc"}
    BY <1>5, <2>1 DEF Testing
  <2>3. CASE pre.h = Pow2[TASK_SIZE - SIEVE_LOGSIZE]
    <3>1. pc' = "solve" /\ sum' = sum
      BY <1>5, <2>3 DEF Calc
    <3>2. Ahead = 0
      <4>1. pre.Salpha * (Shares - pre.h) = 0
        <5>1. pre.Salpha \in Nat /\ Shares - pre.h = 0
          <6>1. 0 .. LUT_SIZE64 - 1 \subseteq Nat
            OBVIOUS
          <6> QED
            BY <2>3, <6>1, WorkerConstants DEF PlaceInv, ClassInv, Shares
        <5> QED
          BY <5>1
      <4> QED
        BY <4>1 DEF Ahead
    <3>3. Ahead' = 0
      BY <1>1, <3>1, AheadType, AheadTypeNext DEF AheadFacts
    <3> QED
      BY <1>2, <1>3, <1>5, <2>1, <3>1, <3>2, <3>3 DEF Rests, Testing, Halt
  <2>4. CASE pre.h # Pow2[TASK_SIZE - SIEVE_LOGSIZE]
    <3>1. /\ ~IsLiveInSieve(Base + pre.h * Pow2[SIEVE_LOGSIZE] + pre.L0, prog.mod)
          /\ sum' = sum /\ pc' = "calc"
      BY <1>5, <2>2, <2>4 DEF Calc, Enter
    <3>2. prog.mod # 1
      BY <3>1 DEF IsLiveInSieve, Dead
    <3>3. Ahead = 0 /\ Ahead' = 0
      BY <2>1, <3>2 DEF Ahead
    <3> QED
      BY <1>2, <1>3, <1>5, <2>1, <3>1, <3>3 DEF Rests, Testing, Halt
  <2> QED
    BY <2>3, <2>4
<1>6. CASE PrecalcRise \/ PrecalcFall
  <2>1. /\ pre'.h = 0 /\ ~Testing' /\ UNCHANGED <<prog, tested, over, max, mpzMax>>
        /\ pc \in {"precalc_rise", "precalc_fall"}
        /\ pc' = "calc" => ToCalc
        /\ pc' # "calc" => sum' = sum /\ pc' \in {"precalc_rise", "precalc_fall"}
    <3>1. pc \in {"precalc_rise", "precalc_fall"}
      BY <1>6 DEF PrecalcRise, PrecalcFall
    <3> QED
      BY <1>6, <3>1, PrecalcRiseKeepsPlace, PrecalcFallKeepsPlace
  <2>2. Ahead = 0
    BY <2>1, AheadType, AheadTypeNext DEF AheadFacts
  <2>3. \E x \in Nat : sum' = Checksum(sum + x) /\ Ahead' = Ahead + x
    <3>1. CASE pc' # "calc"
      <4>1. Ahead' = 0
        BY <1>1, <2>1, <3>1, AheadType, AheadTypeNext DEF AheadFacts
      <4> QED
        BY <1>3, <2>1, <2>2, <3>1, <4>1
    <3>2. CASE pc' = "calc" /\ prog.mod # 1
      <4>1. Ahead' = 0 /\ sum' = sum
        BY <2>1, <3>2 DEF Ahead, ToCalc
      <4> QED
        BY <1>3, <2>2, <4>1
    <3>3. CASE pc' = "calc" /\ prog.mod = 1
      <4>1. sum' = Checksum(sum + pre'.Salpha * Shares)
        BY <2>1, <3>3 DEF ToCalc, Shares
      <4>2. prog.precalc
        BY <2>1 DEF PlaceInv, ClassInv
      <4>3. Ahead' = pre'.Salpha * Shares
        <5>1. Shares - 0 = Shares
          BY WorkerConstants
        <5> QED
          BY <2>1, <3>3, <4>2, <5>1 DEF Ahead, Shares
      <4> QED
        BY <1>2, <2>2, <4>1, <4>3
    <3> QED
      BY <3>1, <3>2, <3>3
  <2> QED
    BY <1>2, <2>1, <2>3 DEF Rests, Testing, Halt
<1>7. CASE Halt
  <2>1. /\ UNCHANGED <<prog, tested, over, sum>> /\ pc = "solve" /\ pc' = "halted"
    BY <1>7 DEF Halt
  <2>2. Ahead = 0 /\ Ahead' = 0
    BY <1>1, <2>1, AheadType, AheadTypeNext DEF AheadFacts
  <2> QED
    BY <1>2, <1>3, <1>7, <2>1, <2>2 DEF Rests, Testing
<1> QED
  BY <1>4, <1>5, <1>6, <1>7

\* The steps of a run, as the totals see them.
LEMMA StepKinds ==
  ASSUME PlaceInv, TestedInv, [Next]_vars
  PROVE  \/ Rests /\ (Halt \/ (UNCHANGED <<max, mpzMax>> /\ pc' # "halted"))
         \/ Begins
         \/ Rise \/ Fall \/ WideStep
         \/ UNCHANGED vars
<1>1. CASE SolveTask \/ Calc
  BY <1>1, TestBegins, TestRests
<1>2. CASE PrecalcRise \/ PrecalcFall \/ Halt
  BY <1>2, TestRests
<1> QED
  BY <1>1, <1>2 DEF Next

\* What a round of check leaves alone, besides what CheckStep says of it.
LEMMA RoundFacts ==
  ASSUME PlaceInv, TestedInv, Rise \/ Fall \/ WideStep
  PROVE  /\ Testing /\ pc # "aborted" /\ UNCHANGED <<prog, n0>> /\ n0 \in Nat /\ n0 >= 3
         /\ n0 \notin tested /\ From \in Nat /\ From' = From
         /\ \E k \in Nat : k >= From /\ Comes(n0, k, Cur)
         /\ pc' # "aborted" => Ahead' = Ahead /\ Ahead \in Nat
         /\ pc' = (IF prog.precalc THEN "calc" ELSE "solve") => ~Testing' /\ pc' # "aborted"
<1>1. /\ Testing /\ pc # "aborted" /\ UNCHANGED <<prog, n0, pre>>
  BY DEF Rise, Fall, WideStep, Testing
<1>2. n0 \in Nat /\ n0 >= 3 /\ \E k \in Nat : k >= From /\ Comes(n0, k, Cur)
  BY <1>1 DEF PlaceInv, NumberInv
<1>3. n0 \notin tested
  BY <1>1 DEF TestedInv
<1>4. From \in Nat /\ From' = From
  BY <1>1, WorkerConstants DEF From
<1>5. prog.precalc \in BOOLEAN
  BY JobKinds DEF PlaceInv, Typed
<1>6. pc' \in {"rise", "even", "wide", "aborted", IF prog.precalc THEN "calc" ELSE "solve"}
  BY DEF Rise, Fall, WideStep, Return
<1>7. ASSUME pc' # "aborted" PROVE Ahead' = Ahead /\ Ahead \in Nat
  <2>1. Ahead \in Nat
    BY AheadType DEF AheadFacts
  <2>2. CASE prog.precalc
    <3>1. pc \in {"calc", "rise", "even", "wide"} /\ pc' \in {"calc", "rise", "even", "wide"}
      BY <1>1, <1>6, <1>7, <2>2 DEF Testing
    <3>2. Shares' = Shares
      BY DEF Shares
    <3> QED
      BY <1>1, <2>1, <3>1, <3>2 DEF Ahead
  <2>3. CASE ~prog.precalc
    BY <1>1, <2>1, <2>3 DEF Ahead
  <2> QED
    BY <1>5, <2>1, <2>2, <2>3
<1>8. pc' = (IF prog.precalc THEN "calc" ELSE "solve") => ~Testing' /\ pc' # "aborted"
  BY <1>5 DEF Testing
<1> QED
  BY <1>1, <1>2, <1>3, <1>4, <1>7, <1>8

\* Every tested number came below itself after the steps precalc did.
DoneInv == /\ IsFiniteSet(tested) /\ tested \subseteq Nat
           /\ \A m \in tested : m >= 3 /\ \E d \in Nat : d > From /\ Descends(m, d)

\* The start: nothing is tested.
LEMMA InitDone == Init => DoneInv
BY FS_EmptySet DEF Init, DoneInv

\* Every step tests the numbers it has brought below themselves.
LEMMA NextKeepsDone ==
  ASSUME PlaceInv, TestedInv, DoneInv, [Next]_vars
  PROVE  DoneInv'
<1>1. CASE UNCHANGED <<prog, tested>>
  BY <1>1 DEF DoneInv, From
<1>2. CASE Rise \/ Fall \/ WideStep
  <2>1. /\ UNCHANGED <<prog, n0>> /\ n0 \in Nat /\ n0 >= 3 /\ From \in Nat /\ From' = From
        /\ \E k \in Nat : k >= From /\ Comes(n0, k, Cur)
    BY <1>2, RoundFacts
  <2>2. PICK k \in Nat : k >= From /\ Comes(n0, k, Cur)
    BY <2>1
  <2>3. CASE tested' = tested
    BY <1>1, <2>1, <2>3
  <2>4. CASE tested' = tested \cup {n0} /\ \E d \in Nat : Finish(k, d)
    <3>1. PICK d \in Nat : d > k /\ Descends(n0, d)
      BY <2>4 DEF Finish
    <3>2. d > From
      BY <2>1, <2>2, <3>1
    <3>3. IsFiniteSet(tested')
      BY <2>4, FS_AddElement DEF DoneInv
    <3> QED
      BY <2>1, <2>4, <3>1, <3>2, <3>3 DEF DoneInv
  <2>5. pc' = "aborted" => tested' = tested
    <3>1. ASSUME Fall \/ WideStep PROVE pc' # "aborted"
      BY <3>1 DEF Fall, WideStep, Return
    <3> QED
      BY <1>2, <3>1 DEF Rise
  <2> QED
    BY <1>2, <2>2, <2>3, <2>4, <2>5, CheckStep
<1>3. Rests \/ Begins \/ UNCHANGED vars => UNCHANGED <<prog, tested>>
  BY DEF Rests, Begins, vars
<1> QED
  BY <1>1, <1>2, <1>3, StepKinds

-----------------------------------------------------------------------------
(* The checksum.                                                           *)

Tally == SumFunction([m \in tested |-> OddSteps(m)])

\* The checksum is the sum of the tested numbers' shares, of what precalc has
\* added ahead, and of the odd steps of the number under test so far.
SumInv == pc # "aborted" =>
  \E o \in Nat : /\ sum = Checksum((Tally + Ahead) + o)
                 /\ IF Testing THEN \E k \in Nat : /\ k >= From /\ Comes(n0, k, Cur)
                                                   /\ o = OddStepsIn(n0, k)
                               ELSE o = 0

\* The shares of the tested numbers, and of one more.
LEMMA TallyNext ==
  ASSUME DoneInv
  PROVE  /\ Tally \in Nat
         /\ \A x \in Nat, d \in Nat :
              (x \notin tested /\ Descends(x, d) /\ tested' = tested \cup {x})
                => Tally' = Tally + OddStepsIn(x, d)
<1>0. From \in Nat
  BY WorkerConstants DEF From
<1>1. \A x \in Nat, d \in Nat : Descends(x, d) => OddSteps(x) = OddStepsIn(x, d) /\ OddSteps(x) \in Nat
  <2> SUFFICES ASSUME NEW x \in Nat, NEW d \in Nat, Descends(x, d)
               PROVE  OddSteps(x) = OddStepsIn(x, d) /\ OddSteps(x) \in Nat
    OBVIOUS
  <2>1. 0 \in 0 .. d
    OBVIOUS
  <2> QED
    BY <2>1, DescendsValue
<1>2. \A x \in tested : OddSteps(x) \in Nat
  BY <1>1 DEF DoneInv
<1>3. [m \in tested |-> OddSteps(m)] \in [tested -> Nat]
  BY <1>2
<1>4. Tally \in Nat
  <2>1. IsFiniteSet(tested)
    BY DEF DoneInv
  <2> HIDE DEF DoneInv
  <2> QED
    BY <1>3, <2>1, SumType DEF Tally
<1>5. ASSUME NEW x \in Nat, NEW d \in Nat, x \notin tested, Descends(x, d), tested' = tested \cup {x}
      PROVE  Tally' = Tally + OddStepsIn(x, d)
  <2> DEFINE f == [m \in tested |-> OddSteps(m)]
             g == [m \in tested \cup {x} |-> OddSteps(m)]
  <2>1. OddSteps(x) = OddStepsIn(x, d) /\ OddSteps(x) \in Nat
    BY <1>1, <1>5
  <2>2. g \in [tested \cup {x} -> Nat] /\ g[x] = OddSteps(x) /\ \A m \in tested : g[m] = f[m]
    BY <1>2, <2>1
  <2>3. Tally' = SumFunction(g) /\ Tally = SumFunction(f)
    BY <1>5 DEF Tally
  <2>4. IsFiniteSet(tested)
    BY DEF DoneInv
  <2>5. f \in [tested -> Nat]
    BY <1>3
  <2> HIDE DEF f, g
  <2>6. SumFunction(g) = SumFunction(f) + g[x]
    BY <1>5, <2>2, <2>4, <2>5, SumInsert
  <2> QED
    BY <2>1, <2>2, <2>3, <2>6
<1> QED
  BY <1>4, <1>5

\* The start: nothing is summed.
LEMMA InitSum == Init => SumInv
<1> SUFFICES ASSUME Init PROVE SumInv
  OBVIOUS
<1>1. tested = {} /\ pc = "solve" /\ sum = 0 /\ ~Testing
  BY DEF Init, Testing
<1>2. Tally = 0
  <2>1. [m \in {} |-> OddSteps(m)] \in [{} -> Nat] /\ IsFiniteSet({})
    BY FS_EmptySet
  <2> QED
    BY <1>1, <2>1, SumType DEF Tally
<1>3. Ahead = 0
  BY <1>1 DEF Ahead
<1>4. 0 \in Nat /\ (0 + 0) + 0 = 0 /\ Checksum(0) = 0
  <2>1. Checksum(sum + 0) = sum
    BY InitPlace, AheadType DEF AheadFacts
  <2> QED
    BY <1>1, <2>1
<1> QED
  BY <1>1, <1>2, <1>3, <1>4 DEF SumInv

\* Every step keeps the books of the checksum.
LEMMA NextKeepsSum ==
  ASSUME PlaceInv, TestedInv, DoneInv, SumInv, [Next]_vars
  PROVE  SumInv'
<1>0. Tally \in Nat /\ Ahead \in Nat /\ 0 \in Nat
  BY TallyNext, AheadType DEF AheadFacts
<1>1. CASE Rests
  <2>1. PICK x \in Nat : sum' = Checksum(sum + x) /\ Ahead' = Ahead + x
    BY <1>1 DEF Rests
  <2>2. sum = Checksum((Tally + Ahead) + 0) /\ Tally' = Tally /\ ~Testing' /\ Ahead' \in Nat
    BY <1>1 DEF Rests, SumInv, Tally
  <2>3. sum' = Checksum((Tally' + Ahead') + 0)
    <3>1. Tally + Ahead \in Nat /\ Tally + Ahead' \in Nat /\ (Tally + Ahead) + 0 + x = (Tally + Ahead') + 0
      BY <1>0, <2>1
    <3> QED
      BY <1>0, <2>1, <2>2, <3>1, ChecksumAdd
  <2> QED
    BY <1>0, <2>2, <2>3 DEF SumInv
<1>2. CASE Begins
  <2>1. PICK x \in Nat : sum' = Checksum(sum + x) /\ Ahead' + OddStepsIn(n0', From) = Ahead + x
    BY <1>2 DEF Begins
  <2>2. /\ sum = Checksum((Tally + Ahead) + 0) /\ Tally' = Tally /\ Testing' /\ Ahead' \in Nat
        /\ n0' \in Nat /\ Comes(n0', From, Cur') /\ From' = From /\ From \in Nat
    BY <1>2, WorkerConstants DEF Begins, SumInv, Tally, From
  <2>3. OddStepsIn(n0', From) \in Nat
    BY <2>2, OddStepsNext
  <2>4. sum' = Checksum((Tally' + Ahead') + OddStepsIn(n0', From))
    <3>1. PICK p \in Nat : p = OddStepsIn(n0', From)
      BY <2>3
    <3>2. PICK a \in Nat, b \in Nat, y \in Nat : a = Tally + y /\ b = Tally + Ahead' /\ y = Ahead
      <4>1. Tally + Ahead \in Nat
        BY <1>0
      <4>2. PICK z \in Nat : z = Ahead'
        BY <2>2
      <4>3. Tally + z \in Nat
        <5>1. \A u \in Nat, v \in Nat : u + v \in Nat
          OBVIOUS
        <5> QED
          BY <1>0, <5>1, Zenon
      <4> QED
        BY <1>0, <4>1, <4>2, <4>3
    <3>3. a + 0 + x = b + p
      <4>1. PICK z \in Nat : z = Ahead'
        BY <2>2
      <4> QED
        BY <1>0, <2>1, <3>1, <3>2, <4>1
    <3>4. Checksum(sum + x) = Checksum(b + p)
      <4>1. sum = Checksum(a + 0)
        BY <2>2, <3>2
      <4> QED
        BY <1>0, <3>3, <4>1, ChecksumAdd
    <3> QED
      BY <2>1, <2>2, <3>1, <3>2, <3>4
  <2>5. From' >= From'
    BY <2>2
  <2> QED
    BY <2>2, <2>3, <2>4, <2>5 DEF SumInv
<1>3. CASE Rise \/ Fall \/ WideStep
  <2>1. /\ Testing /\ pc # "aborted" /\ n0' = n0 /\ n0 \in Nat /\ n0 \notin tested
        /\ From \in Nat /\ From' = From /\ (pc' # "aborted" => Ahead' = Ahead)
        /\ pc' = (IF prog.precalc THEN "calc" ELSE "solve") => ~Testing' /\ pc' # "aborted"
    BY <1>3, RoundFacts
  <2>2. PICK k \in Nat : /\ k >= From /\ Comes(n0, k, Cur)
                         /\ sum = Checksum((Tally + Ahead) + OddStepsIn(n0, k))
    BY <2>1 DEF SumInv
  <2>3. OddStepsIn(n0, k) \in Nat /\ Tally + Ahead \in Nat
    <3>1. OddStepsIn(n0, k) \in Nat
      BY <2>1, OddStepsNext
    <3> QED
      BY <1>0, <3>1
  <2>4. CASE pc' = "aborted"
    BY <2>4 DEF SumInv
  <2>5. CASE /\ Testing' /\ tested' = tested
             /\ \E l \in Nat, o \in Nat : sum' = Checksum(sum + o) /\ Advance(k, l, o)
    <3>1. PICK l \in Nat, o \in Nat : sum' = Checksum(sum + o) /\ Advance(k, l, o)
      BY <2>5
    <3>2. l >= From' /\ Comes(n0', l, Cur') /\ OddStepsIn(n0', l) = OddStepsIn(n0, k) + o
          /\ OddStepsIn(n0', l) \in Nat
      BY <2>1, <2>2, <2>3, <3>1 DEF Advance
    <3>3. Tally' = Tally /\ pc' # "aborted" /\ Ahead' = Ahead
      BY <2>1, <2>5 DEF Tally, Testing
    <3>4. sum' = Checksum((Tally' + Ahead') + OddStepsIn(n0', l))
      <4>1. PICK a \in Nat, p \in Nat, q \in Nat :
              a = Tally + Ahead /\ p = OddStepsIn(n0, k) /\ q = OddStepsIn(n0', l)
        BY <2>3, <3>2
      <4>2. a + p + o = a + q /\ sum = Checksum(a + p)
        BY <2>2, <3>2, <4>1
      <4>3. Checksum(sum + o) = Checksum(a + q)
        BY <4>2, ChecksumAdd
      <4> QED
        BY <3>1, <3>3, <4>1, <4>3
    <3> QED
      BY <2>5, <3>2, <3>4 DEF SumInv
  <2>6. CASE /\ pc' = (IF prog.precalc THEN "calc" ELSE "solve")
             /\ tested' = tested \cup {n0} /\ sum' = sum
             /\ \E d \in Nat : Finish(k, d)
    <3>1. PICK d \in Nat : Descends(n0, d) /\ OddStepsIn(n0, d) = OddStepsIn(n0, k)
      BY <2>6 DEF Finish
    <3>2. Tally' = Tally + OddStepsIn(n0, k)
      BY <2>1, <2>6, <3>1, TallyNext
    <3>3. ~Testing' /\ pc' # "aborted" /\ Ahead' = Ahead
      BY <2>1, <2>6
    <3>4. (Tally + Ahead) + OddStepsIn(n0, k) = (Tally' + Ahead') + 0
      BY <1>0, <2>3, <3>2, <3>3
    <3> QED
      BY <1>0, <2>2, <2>6, <3>3, <3>4 DEF SumInv
  <2> QED
    BY <1>3, <2>2, <2>4, <2>5, <2>6, CheckStep
<1>4. CASE UNCHANGED vars
  <2>1. Tally' = Tally /\ Ahead' = Ahead /\ (Testing' <=> Testing) /\ Cur' = Cur /\ From' = From
    BY <1>4 DEF vars, Tally, Ahead, Testing, Cur, From, Shares
  <2> QED
    BY <1>4, <2>1 DEF vars, SumInv
<1> QED
  BY <1>1, <1>2, <1>3, <1>4, StepKinds

\* The books in every state.
LEMMA SumHolds == Spec => [](PlaceInv /\ TestedInv /\ DoneInv /\ SumInv)
<1>1. Init => PlaceInv /\ TestedInv /\ DoneInv /\ SumInv
  BY InitPlace, InitTested, InitDone, InitSum
<1>2. PlaceInv /\ TestedInv /\ DoneInv /\ SumInv /\ [Next]_vars
        => (PlaceInv /\ TestedInv /\ DoneInv /\ SumInv)'
  BY NextKeepsPlace, NextKeepsTested, NextKeepsDone, NextKeepsSum
<1> QED
  BY <1>1, <1>2, PTL DEF Spec

\* A finished run of any build reports the same checksum for a task: the sum of
\* its numbers' odd steps down to below themselves, as the server compares it.
THEOREM ChecksumAgreesCorrect == Spec => []ChecksumAgrees
<1>1. PlaceInv /\ TestedInv /\ DoneInv /\ SumInv => ChecksumAgrees
  <2> SUFFICES ASSUME PlaceInv, TestedInv, DoneInv, SumInv, Halted
               PROVE  sum = Checksum(SumFunction([m \in Selected |-> OddSteps(m)]))
    BY DEF ChecksumAgrees
  <2>1. tested = Selected
    BY TestedAll
  <2>2. pc = "halted" /\ ~Testing /\ Ahead = 0
    BY AheadType DEF Halted, Testing, AheadFacts
  <2>3. sum = Checksum((Tally + 0) + 0) /\ Tally \in Nat
    BY <2>2, TallyNext DEF SumInv
  <2>4. Tally = SumFunction([m \in Selected |-> OddSteps(m)])
    BY <2>1 DEF Tally
  <2>5. (Tally + 0) + 0 = Tally
    BY <2>3
  <2> QED
    BY <2>3, <2>4, <2>5
<1> QED
  BY <1>1, SumHolds, PTL

-----------------------------------------------------------------------------
(* The maximum.                                                            *)

Recorded(v) == v <= max.n \/ v <= mpzMax.n

Owned(r) == r.n = 0 \/ (r.n0 \in tested /\ r.n <= PeakFrom(r.n0, From))

\* The iterates of the number under test, from the From-th to the k-th, are in
\* the records or not above the present one.
Climbed(k) ==
  /\ k >= From /\ Comes(n0, k, Cur)
  /\ \A j \in From .. k : Recorded(Iterate[j][n0]) \/ Iterate[j][n0] <= Cur
  /\ \A r \in {max, mpzMax} :
       Owned(r) \/ (r.n0 = n0 /\ \E j \in From .. k : r.n = Iterate[j][n0])

\* The records are as high as any tested number climbed, and no higher than the
\* number they name.
MaxInv == (pc # "aborted" /\ prog.kind = "worker") =>
  /\ \A m \in tested : Recorded(PeakFrom(m, From))
  /\ pc = "halted" => mpzMax.n <= max.n
  /\ IF Testing THEN \E k \in Nat : Climbed(k) ELSE \A r \in {max, mpzMax} : Owned(r)

\* The start: there is no maximum.
LEMMA InitMax == Init => MaxInv
BY DEF Init, MaxInv, Testing, Owned

\* A round of check enters in the records where it came from, or climbs.
LEMMA RoundMax ==
  ASSUME PlaceInv, TestedInv, Rise \/ Fall \/ WideStep, prog.kind = "worker",
         NEW k \in Nat, k >= From, Comes(n0, k, Cur)
  PROVE  /\ \A v \in Nat : Recorded(v) => Recorded(v)'
         /\ \A r \in {max', mpzMax'} : r \in {max, mpzMax} \/ (r.n = Cur /\ r.n0 = n0)
         /\ pc' # "aborted" => \/ Cur <= max'.n
                             \/ Cur <= mpzMax'.n
                             \/ (Testing' /\ Cur <= Cur')
<1>1. n \in Nat /\ n0 \in Nat /\ max \in Peak /\ mpzMax \in Peak
  BY DEF PlaceInv, NumberInv, Typed, UMax
<1>2. Cur \in Nat
  <2>1. k \in 0 .. k
    OBVIOUS
  <2>2. Iterate[k][n0] = Cur /\ Iterate[k][n0] \in Nat
    BY <1>1, IterateDefined DEF Comes
  <2> QED
    BY <2>2
<1>3. \A v \in Nat, best \in Peak : /\ Higher(v, best).n >= best.n /\ Higher(v, best).n >= v
                                    /\ \/ Higher(v, best) = best
                                       \/ Higher(v, best).n = v /\ Higher(v, best).n0 = n0
  BY DEF Higher, Peak
<1>4. CASE Fall
  <2>1. Cur = n /\ max' = Higher(n, max) /\ mpzMax' = mpzMax
    BY <1>4 DEF Fall, Cur
  <2>2. /\ max'.n >= max.n /\ max'.n >= Cur
        /\ max' = max \/ (max'.n = Cur /\ max'.n0 = n0)
    BY <1>1, <1>2, <1>3, <2>1
  <2>3. max'.n \in Nat /\ max.n \in Nat
    <3>1. max' \in Peak
      BY <1>1, <1>2, <2>1 DEF Higher, Peak
    <3> QED
      BY <1>1, <3>1 DEF Peak
  <2>4. ASSUME NEW v \in Nat, Recorded(v) PROVE Recorded(v)'
    BY <2>1, <2>2, <2>3, <2>4 DEF Recorded
  <2> QED
    BY <1>2, <2>1, <2>2, <2>3, <2>4
<1>5. CASE WideStep
  <2>1. mpzMax' = Higher(Cur, mpzMax) /\ max' = max
    BY <1>5 DEF WideStep, Cur
  <2>2. /\ mpzMax'.n >= mpzMax.n /\ mpzMax'.n >= Cur
        /\ mpzMax' = mpzMax \/ (mpzMax'.n = Cur /\ mpzMax'.n0 = n0)
    BY <1>1, <1>2, <1>3, <2>1
  <2>3. mpzMax'.n \in Nat /\ mpzMax.n \in Nat
    <3>1. mpzMax' \in Peak
      BY <1>1, <1>2, <2>1 DEF Higher, Peak
    <3> QED
      BY <1>1, <3>1 DEF Peak
  <2>4. ASSUME NEW v \in Nat, Recorded(v) PROVE Recorded(v)'
    BY <2>1, <2>2, <2>3, <2>4 DEF Recorded
  <2> QED
    BY <1>2, <2>1, <2>2, <2>3, <2>4
<1>6. CASE Rise
  <2>1. max' = max /\ mpzMax' = mpzMax /\ n0' = n0
    BY <1>6 DEF Rise
  <2>2. pc' # "aborted" => Testing' /\ Cur <= Cur'
    BY <1>6, RiseWalk
  <2> QED
    BY <2>1, <2>2 DEF Recorded
<1> QED
  BY <1>4, <1>5, <1>6

\* Records stay those of tested numbers.
LEMMA OwnedStays ==
  ASSUME tested \subseteq tested', From' = From, NEW r, Owned(r)
  PROVE  Owned(r)'
BY DEF Owned

\* Every step keeps the records of the maximum.
LEMMA NextKeepsMax ==
  ASSUME PlaceInv, TestedInv, DoneInv, MaxInv, [Next]_vars
  PROVE  MaxInv'
<1>0. From \in Nat /\ max \in Peak /\ mpzMax \in Peak
  BY WorkerConstants DEF From, PlaceInv, Typed
<1>1. CASE Rests /\ (Halt \/ (UNCHANGED <<max, mpzMax>> /\ pc' # "halted"))
  <2> SUFFICES ASSUME prog.kind = "worker" PROVE MaxInv'
    BY <1>1 DEF Rests, MaxInv
  <2>1. /\ UNCHANGED <<prog, tested>> /\ ~Testing' /\ From' = From
        /\ \A m \in tested : Recorded(PeakFrom(m, From))
        /\ \A r \in {max, mpzMax} : Owned(r)
    BY <1>1 DEF Rests, MaxInv, From
  <2>2. \A r : Owned(r) => Owned(r)'
    BY <2>1, OwnedStays
  <2>3. CASE Halt
    <3>1. mpzMax' = mpzMax /\ max' = IF mpzMax.n > max.n THEN mpzMax ELSE max
      BY <2>3 DEF Halt
    <3>2. max.n \in Nat /\ mpzMax.n \in Nat
      BY <1>0 DEF Peak
    <3>3. max'.n >= max.n /\ max'.n >= mpzMax'.n /\ max'.n \in Nat /\ max' \in {max, mpzMax}
      BY <3>1, <3>2
    <3>4. ASSUME NEW m \in tested PROVE Recorded(PeakFrom(m, From))'
      <4>1. PeakFrom(m, From) \in Nat
        BY <1>0, PeakOfTested DEF DoneInv
      <4>2. PICK v \in Nat : v = PeakFrom(m, From)
        BY <4>1
      <4>3. v <= max.n \/ v <= mpzMax.n
        BY <2>1, <4>2 DEF Recorded
      <4>4. v <= max'.n
        BY <3>1, <3>2, <3>3, <4>3
      <4> QED
        BY <2>1, <4>2, <4>4 DEF Recorded
    <3> QED
      BY <2>1, <2>2, <3>1, <3>3, <3>4 DEF MaxInv
  <2>4. CASE UNCHANGED <<max, mpzMax>> /\ pc' # "halted"
    BY <2>1, <2>2, <2>4 DEF MaxInv, Recorded
  <2> QED
    BY <1>1, <2>3, <2>4
<1>2. CASE Begins
  <2> SUFFICES ASSUME prog.kind = "worker" PROVE MaxInv'
    BY <1>2 DEF Begins, MaxInv
  <2>1. /\ UNCHANGED <<prog, tested, max, mpzMax>> /\ Testing' /\ pc' \in {"rise", "even"}
        /\ n0' \in Nat /\ Comes(n0', From, Cur') /\ From' = From
        /\ \A m \in tested : Recorded(PeakFrom(m, From))
        /\ \A r \in {max, mpzMax} : Owned(r)
    BY <1>2 DEF Begins, MaxInv, From
  <2>2. \A r : Owned(r) => Owned(r)'
    BY <2>1, OwnedStays
  <2>3. Iterate[From][n0'] = Cur' /\ Cur' \in Nat
    BY <1>0, <2>1, IterateDefined DEF Comes
  <2>4. Climbed(From)'
    <3>1. From >= From /\ \A j \in From .. From : j = From
      BY <1>0
    <3>2. Cur' <= Cur'
      BY <2>3
    <3> QED
      BY <2>1, <2>2, <2>3, <3>1, <3>2 DEF Climbed
  <2>5. \A m \in tested' : Recorded(PeakFrom(m, From))'
    BY <2>1 DEF Recorded
  <2> QED
    BY <1>0, <2>1, <2>4, <2>5 DEF MaxInv
<1>3. CASE Rise \/ Fall \/ WideStep
  <2>1. /\ Testing /\ pc # "aborted" /\ UNCHANGED <<prog, n0>> /\ n0 \in Nat
        /\ From' = From
        /\ pc' = (IF prog.precalc THEN "calc" ELSE "solve") => ~Testing' /\ pc' # "aborted"
    BY <1>3, RoundFacts
  <2> SUFFICES ASSUME prog.kind = "worker", pc' # "aborted" PROVE MaxInv'
    BY <2>1 DEF MaxInv
  <2>2. PICK k \in Nat : Climbed(k)
    BY <2>1 DEF MaxInv
  <2>3. /\ k >= From /\ Comes(n0, k, Cur) /\ \A m \in tested : Recorded(PeakFrom(m, From))
        /\ Iterate[k][n0] = Cur /\ k \in From .. k /\ Cur \in Nat
    BY <1>0, <2>1, <2>2, IterateDefined DEF Climbed, MaxInv, Comes
  <2>4. /\ \A v \in Nat : Recorded(v) => Recorded(v)'
        /\ \A r \in {max', mpzMax'} : r \in {max, mpzMax} \/ (r.n = Cur /\ r.n0 = n0)
        /\ \/ Cur <= max'.n \/ Cur <= mpzMax'.n
           \/ (Testing' /\ Cur <= Cur')
    BY <1>3, <2>3, RoundMax
  <2>5. \A j \in Nat : Iterate[j][n0] \in Nat
    BY <2>1, IterateDefined
  <2>6. /\ pc' # "halted"
        /\ \/ tested' = tested /\ Testing' /\ \E l \in Nat, o \in Nat : Advance(k, l, o)
           \/ tested' = tested \cup {n0} /\ ~Testing' /\ \E d \in Nat : Finish(k, d)
    <3>1. pc' # "halted"
      BY <1>3 DEF Rise, Fall, WideStep, Return
    <3> QED
      BY <1>3, <2>1, <2>3, <3>1, CheckStep
  <2>7. ASSUME tested \subseteq tested' PROVE \A m \in tested : Recorded(PeakFrom(m, From))'
    <3> TAKE m \in tested
    <3>1. PICK v \in Nat : v = PeakFrom(m, From)
      BY <1>0, PeakOfTested DEF DoneInv
    <3>2. Recorded(v) /\ v = PeakFrom(m, From)'
      BY <2>1, <2>3, <3>1
    <3>3. Recorded(v)'
      BY <2>4, <3>2
    <3> QED
      BY <3>2, <3>3 DEF Recorded
  <2>8. ASSUME tested \subseteq tested', NEW r \in {max', mpzMax'}
        PROVE  Owned(r)' \/ (r.n0 = n0 /\ \E j \in From .. k : r.n = Iterate[j][n0])
    <3>1. CASE r \in {max, mpzMax}
      BY <2>1, <2>2, <2>8, <3>1, OwnedStays DEF Climbed
    <3>2. CASE r.n = Cur /\ r.n0 = n0
      BY <2>3, <3>2
    <3> QED
      BY <2>4, <3>1, <3>2
  <2>9. CASE tested' = tested /\ Testing' /\ \E l \in Nat, o \in Nat : Advance(k, l, o)
    <3>1. PICK l \in Nat : /\ l >= k /\ Comes(n0, l, Cur')
                           /\ \A j \in k .. l : Iterate[j][n0] <= Cur \/ Iterate[j][n0] <= Cur'
      BY <2>9 DEF Advance
    <3>2. Cur' \in Nat
      BY <2>1, <3>1, IterateDefined DEF Comes
    <3>3. ASSUME NEW j \in From .. l PROVE Recorded(Iterate[j][n0])' \/ Iterate[j][n0] <= Cur'
      <4>1. j \in From .. k \/ j \in k .. l
        BY <1>0, <2>3, <3>1
      <4>2. PICK v \in Nat : v = Iterate[j][n0]
        BY <1>0, <2>5
      <4>3. Recorded(v) \/ v <= Cur \/ v <= Cur'
        BY <2>2, <3>1, <4>1, <4>2 DEF Climbed
      <4>4. v <= Cur => v <= max'.n \/ v <= mpzMax'.n \/ v <= Cur'
        <5>1. max'.n \in Nat /\ mpzMax'.n \in Nat
          BY NextKeepsPlace DEF PlaceInv, Typed, Peak
        <5> QED
          BY <2>3, <2>4, <3>2, <5>1
      <4>5. Recorded(v) => v <= max'.n \/ v <= mpzMax'.n
        BY <2>4 DEF Recorded
      <4> QED
        BY <2>1, <4>2, <4>3, <4>4, <4>5 DEF Recorded
    <3>4. \A j \in From .. k : j \in From .. l
      BY <1>0, <2>3, <3>1
    <3>5. l >= From
      BY <1>0, <2>3, <3>1
    <3>6. Climbed(l)'
      BY <2>1, <2>8, <2>9, <3>1, <3>3, <3>4, <3>5 DEF Climbed
    <3> QED
      BY <2>1, <2>6, <2>7, <2>9, <3>6 DEF MaxInv
  <2>10. CASE tested' = tested \cup {n0} /\ ~Testing' /\ \E d \in Nat : Finish(k, d)
    <3>1. PICK d \in Nat : d > k /\ Descends(n0, d) /\ \A j \in k .. d - 1 : Iterate[j][n0] <= Cur
      BY <2>10 DEF Finish
    <3>2. /\ PeakFrom(n0, From) \in Nat
          /\ \A j \in From .. d - 1 : Iterate[j][n0] <= PeakFrom(n0, From)
          /\ \E j \in From .. d - 1 : PeakFrom(n0, From) = Iterate[j][n0]
      BY <1>0, <2>1, <2>3, <3>1, PeakOfTested
    <3>3. Cur <= max'.n \/ Cur <= mpzMax'.n
      BY <2>4, <2>10
    <3>4. ASSUME NEW j \in From .. d - 1
          PROVE  Iterate[j][n0] <= max'.n \/ Iterate[j][n0] <= mpzMax'.n
      <4>1. j \in From .. k \/ j \in k .. d - 1
        BY <1>0, <2>3, <3>1
      <4>2. PICK v \in Nat : v = Iterate[j][n0]
        BY <1>0, <2>5
      <4>3. Recorded(v) \/ v <= Cur
        BY <2>2, <3>1, <4>1, <4>2 DEF Climbed
      <4>4. v <= Cur => v <= max'.n \/ v <= mpzMax'.n
        <5>1. max'.n \in Nat /\ mpzMax'.n \in Nat
          BY NextKeepsPlace DEF PlaceInv, Typed, Peak
        <5> QED
          BY <2>3, <3>3, <5>1
      <4>5. Recorded(v) => v <= max'.n \/ v <= mpzMax'.n
        BY <2>4 DEF Recorded
      <4> QED
        BY <4>2, <4>3, <4>4, <4>5
    <3>5. Recorded(PeakFrom(n0, From))'
      <4>1. PICK v : v = PeakFrom(n0, From) /\ (v <= max'.n \/ v <= mpzMax'.n)
        BY <3>2, <3>4
      <4> QED
        BY <2>1, <4>1 DEF Recorded
    <3>6. \A m \in tested' : Recorded(PeakFrom(m, From))'
      BY <2>1, <2>7, <2>10, <3>5
    <3>7. \A r \in {max', mpzMax'} : Owned(r)'
      <4> TAKE r \in {max', mpzMax'}
      <4>1. CASE r.n0 = n0 /\ \E j \in From .. k : r.n = Iterate[j][n0]
        <5>1. r.n <= PeakFrom(n0, From)
          <6>1. \A j \in From .. k : j \in From .. d - 1
            BY <1>0, <2>3, <3>1
          <6> QED
            BY <3>2, <4>1, <6>1
        <5> QED
          BY <2>1, <2>10, <4>1, <5>1 DEF Owned
      <4> QED
        BY <2>8, <2>10, <4>1
    <3> QED
      BY <2>1, <2>6, <2>10, <3>6, <3>7 DEF MaxInv
  <2> QED
    BY <2>6, <2>9, <2>10
<1>4. CASE UNCHANGED vars
  <2>1. (Testing' <=> Testing) /\ Cur' = Cur /\ From' = From
    BY <1>4 DEF vars, Testing, Cur, From
  <2>2. \A k : Climbed(k)' <=> Climbed(k)
    BY <1>4, <2>1 DEF vars, Climbed, Recorded, Owned
  <2> QED
    BY <1>4, <2>1, <2>2 DEF vars, MaxInv, Recorded, Owned
<1> QED
  BY <1>1, <1>2, <1>3, <1>4, StepKinds

\* The records in every state.
LEMMA MaxHolds == Spec => [](PlaceInv /\ TestedInv /\ DoneInv /\ MaxInv)
<1>1. (PlaceInv /\ TestedInv /\ DoneInv) /\ MaxInv /\ [Next]_vars => MaxInv'
  BY NextKeepsMax
<1> QED
  BY <1>1, InitMax, SumHolds, PTL DEF Spec

\* The reported offset is that of a tested number whose trajectory climbs as
\* high as any, in 128 bits or beyond: report_maximum.
THEOREM MaximumIsHighestCorrect == Spec => []MaximumIsHighest
<1>1. PlaceInv /\ TestedInv /\ DoneInv /\ MaxInv => MaximumIsHighest
  <2> SUFFICES ASSUME PlaceInv, TestedInv, DoneInv, MaxInv,
                      Halted, prog.kind = "worker", tested # {}
               PROVE  /\ max.n0 \in tested
                      /\ PeakFrom(max.n0, From) = max.n
                      /\ \A m \in tested : PeakFrom(m, From) <= max.n
    BY DEF MaximumIsHighest, From
  <2>1. From \in Nat /\ max \in Peak /\ mpzMax \in Peak
    BY WorkerConstants DEF From, PlaceInv, Typed
  <2>2. max.n \in Nat /\ mpzMax.n \in Nat
    BY <2>1 DEF Peak
  <2>3. /\ \A m \in tested : Recorded(PeakFrom(m, From))
        /\ mpzMax.n <= max.n /\ Owned(max)
    BY DEF MaxInv, Halted, Testing
  <2>4. ASSUME NEW m \in tested
        PROVE  PeakFrom(m, From) \in Nat /\ PeakFrom(m, From) <= max.n /\ max.n # 0
    <3>1. /\ PeakFrom(m, From) \in Nat /\ m <= PeakFrom(m, From) /\ m \in Nat /\ m >= 3
      BY <2>1, PeakOfTested DEF DoneInv
    <3>2. PICK v \in Nat : v = PeakFrom(m, From)
      BY <3>1
    <3>3. v <= max.n
      BY <2>2, <2>3, <3>2 DEF Recorded
    <3> QED
      BY <2>2, <3>1, <3>2, <3>3
  <2>5. max.n # 0
    BY <2>4
  <2>6. max.n0 \in tested /\ max.n <= PeakFrom(max.n0, From)
    BY <2>3, <2>5 DEF Owned
  <2>7. PICK v \in Nat : v = PeakFrom(max.n0, From)
    BY <2>4, <2>6
  <2>8. v <= max.n /\ max.n <= v
    BY <2>4, <2>6, <2>7
  <2> QED
    BY <2>2, <2>4, <2>6, <2>7, <2>8
<1> QED
  BY <1>1, MaxHolds, PTL

-----------------------------------------------------------------------------
(* The overflow counter.                                                   *)

\* The tested numbers that leave 128 bits.
Large == {m \in tested : PeakFrom(m, From) > UMax(Width)}

\* The number under test has stayed in 128 bits until the k-th step.
Narrow(k) == /\ k >= From /\ Comes(n0, k, Cur)
             /\ \A j \in From .. k : Iterate[j][n0] <= UMax(Width)

\* A number that has gone to the unbounded check is counted before it is tested.
OverInv == pc # "aborted" =>
  /\ pc \in {"rise", "even"} => \E k \in Nat : Narrow(k)
  /\ IF pc = "wide" THEN over >= Cardinality(Large) + 1 ELSE over >= Cardinality(Large)

\* The start.
LEMMA InitOver == Init => OverInv
<1> SUFFICES ASSUME Init PROVE OverInv
  OBVIOUS
<1>1. Large = {} /\ over = 0 /\ pc = "solve"
  BY DEF Large, Init
<1>2. Cardinality({}) = 0
  BY FS_EmptySet
<1> QED
  BY <1>1, <1>2 DEF OverInv

\* The iterate under test in 128 bits.
LEMMA CurNarrow ==
  ASSUME PlaceInv, pc \in {"rise", "even"}
  PROVE  Cur \in Nat /\ Cur <= UMax(Width)
<1>1. n \in Nat /\ n <= UMax(Width) /\ (pc = "rise" => n > 0) /\ UMax(Width) \in Nat
  BY WorkerConstants, PowerBounds DEF PlaceInv, NumberInv, UMax
<1> QED
  BY <1>1 DEF Cur

\* The same after a step.
LEMMA CurNarrowNext ==
  (PlaceInv /\ pc \in {"rise", "even"} => Cur <= UMax(Width))'
<1>1. PlaceInv /\ pc \in {"rise", "even"} => Cur <= UMax(Width)
  BY CurNarrow
<1> QED
  BY <1>1, PTL

\* Every step counts what it has to.
LEMMA NextKeepsOver ==
  ASSUME PlaceInv, TestedInv, DoneInv, OverInv, [Next]_vars
  PROVE  OverInv'
<1>0. /\ From \in Nat /\ UMax(Width) \in Nat /\ over \in Nat /\ IsFiniteSet(Large)
      /\ Cardinality(Large) \in Nat
  <2>1. IsFiniteSet(Large)
    BY FS_Subset DEF Large, DoneInv
  <2>2. Cardinality(Large) \in Nat
    BY <2>1, FS_CardinalityType
  <2>3. UMax(Width) \in Nat
    BY WorkerConstants, PowerBounds DEF UMax
  <2> QED
    BY <2>1, <2>2, <2>3, WorkerConstants DEF From, PlaceInv, Typed
<1>1. CASE Rests
  <2>1. Large' = Large
    BY <1>1 DEF Rests, Large, From
  <2> QED
    BY <1>1, <2>1 DEF Rests, OverInv, Testing
<1>2. CASE Begins
  <2>1. Large' = Large /\ From' = From
    BY <1>2 DEF Begins, Large, From
  <2>2. PICK f \in Nat : f = From
    BY <1>0
  <2>3. Narrow(f)'
    <3>1. /\ n0' \in Nat /\ Comes(n0', f, Cur') /\ Cur' <= UMax(Width)
          /\ \A j \in f .. f : j = f
      BY <1>2, <2>2 DEF Begins
    <3>2. Iterate[f][n0'] <= UMax(Width)
      BY <3>1 DEF Comes
    <3> QED
      BY <2>1, <2>2, <3>1, <3>2 DEF Narrow
  <2> QED
    BY <1>2, <2>1, <2>3 DEF Begins, OverInv, Testing
<1>3. CASE Rise \/ Fall \/ WideStep
  <2>1. /\ Testing /\ pc # "aborted" /\ UNCHANGED <<prog, n0>> /\ n0 \in Nat
        /\ From' = From /\ n0 \notin tested
        /\ pc' = (IF prog.precalc THEN "calc" ELSE "solve") => ~Testing' /\ pc' # "aborted"
    BY <1>3, RoundFacts
  <2> SUFFICES ASSUME pc' # "aborted" PROVE OverInv'
    BY DEF OverInv
  <2>2. ASSUME pc \in {"rise", "even"}
        PROVE  /\ \E k \in Nat : Narrow(k) /\ Cur \in Nat /\ Cur <= UMax(Width)
    BY <2>1, <2>2, CurNarrow DEF OverInv
  <2>3. ASSUME tested' = tested PROVE Large' = Large
    BY <2>1, <2>3 DEF Large
  <2>4. ASSUME NEW k \in Nat, Narrow(k), Cur <= UMax(Width), Testing', pc' # "wide",
               \E l \in Nat, o \in Nat : Advance(k, l, o)
        PROVE  \E l \in Nat : Narrow(l)'
    <3>1. PICK l \in Nat : /\ l >= k /\ Comes(n0, l, Cur')
                           /\ \A j \in k .. l : Iterate[j][n0] <= Cur \/ Iterate[j][n0] <= Cur'
      BY <2>4 DEF Advance
    <3>2. Cur' <= UMax(Width)
      <4>1. pc' \in {"rise", "even"}
        BY <2>4 DEF Testing
      <4> QED
        BY <4>1, CurNarrowNext, NextKeepsPlace
    <3>3. Cur \in Nat /\ Cur' \in Nat /\ k >= From /\ \A j \in Nat : Iterate[j][n0] \in Nat
      BY <2>1, <2>4, <3>1, IterateDefined DEF Narrow, Comes
    <3>4. ASSUME NEW j \in From .. l PROVE Iterate[j][n0] <= UMax(Width)
      <4>1. PICK v \in Nat : v = Iterate[j][n0]
        BY <1>0, <3>3
      <4>2. j \in From .. k \/ j \in k .. l
        BY <1>0, <3>3
      <4>3. v <= UMax(Width) \/ v <= Cur \/ v <= Cur'
        BY <2>4, <3>1, <4>1, <4>2 DEF Narrow
      <4> QED
        BY <1>0, <2>4, <3>2, <3>3, <4>1, <4>3
    <3>5. l >= From
      BY <1>0, <3>1, <3>3
    <3> QED
      BY <2>1, <3>1, <3>4, <3>5 DEF Narrow
  <2>5. CASE Rise
    <3>1. tested' = tested /\ pc = "rise"
      BY <2>5 DEF Rise
    <3>2. PICK k \in Nat : Narrow(k) /\ Cur \in Nat /\ Cur <= UMax(Width)
      BY <2>2, <3>1
    <3>3. Testing' /\ \E l \in Nat, o \in Nat : Advance(k, l, o)
      BY <2>5, <3>2, RiseWalk DEF Narrow
    <3>4. IF pc' = "wide" THEN over' = over + 1 ELSE over' = over
      BY <2>5, <3>1 DEF Rise
    <3>5. over >= Cardinality(Large)
      BY <2>1, <3>1 DEF OverInv
    <3>6. over' >= Cardinality(Large) /\ (pc' = "wide" => over' >= Cardinality(Large) + 1)
      BY <1>0, <3>4, <3>5
    <3>7. pc' # "wide" => \E l \in Nat : Narrow(l)'
      BY <2>4, <3>2, <3>3
    <3> QED
      BY <2>3, <3>1, <3>6, <3>7 DEF OverInv
  <2>6. CASE Fall
    <3>1. pc = "even" /\ over' = over /\ over >= Cardinality(Large)
      BY <2>1, <2>6 DEF Fall, OverInv
    <3>2. PICK k \in Nat : Narrow(k) /\ Cur \in Nat /\ Cur <= UMax(Width)
      BY <2>2, <3>1
    <3>3. \/ pc' = "rise" /\ tested' = tested /\ \E l \in Nat : Advance(k, l, 0)
          \/ /\ ~Testing' /\ tested' = tested \cup {n0}
             /\ \E d \in Nat : Finish(k, d)
      BY <2>1, <2>6, <3>2, FallWalk DEF Narrow
    <3>4. CASE pc' = "rise" /\ tested' = tested /\ \E l \in Nat : Advance(k, l, 0)
      <4>1. 0 \in Nat /\ Testing' /\ pc' # "wide"
        BY <3>4 DEF Testing
      <4>2. \E l \in Nat : Narrow(l)'
        BY <2>4, <3>2, <3>4, <4>1
      <4> QED
        BY <2>3, <3>1, <3>4, <4>2 DEF OverInv
    <3>5. CASE ~Testing' /\ tested' = tested \cup {n0} /\ \E d \in Nat : Finish(k, d)
      <4>1. PICK d \in Nat : d > k /\ Descends(n0, d) /\ \A j \in k .. d - 1 : Iterate[j][n0] <= Cur
        BY <3>5 DEF Finish
      <4>2. k >= From /\ \A j \in Nat : Iterate[j][n0] \in Nat
        BY <2>1, <3>2, IterateDefined DEF Narrow
      <4>3. PeakFrom(n0, From) \in Nat /\ \E j \in From .. d - 1 : PeakFrom(n0, From) = Iterate[j][n0]
        <5>1. From < d
          BY <1>0, <4>1, <4>2
        <5> QED
          BY <1>0, <2>1, <4>1, <5>1, PeakOfTested
      <4>4. PICK j \in From .. d - 1 : PeakFrom(n0, From) = Iterate[j][n0]
        BY <4>3
      <4>5. PICK v \in Nat : v = Iterate[j][n0]
        BY <1>0, <4>2
      <4>6. j \in From .. k \/ j \in k .. d - 1
        BY <1>0, <4>1, <4>2
      <4>7. v <= UMax(Width) \/ v <= Cur
        BY <3>2, <4>1, <4>5, <4>6 DEF Narrow
      <4>8. v <= UMax(Width)
        BY <1>0, <3>2, <4>7
      <4>9. ~(PeakFrom(n0, From) > UMax(Width))
        BY <1>0, <4>4, <4>5, <4>8
      <4>10. Large' = Large
        BY <2>1, <3>5, <4>9 DEF Large
      <4> QED
        BY <3>1, <3>5, <4>10 DEF OverInv, Testing
    <3> QED
      BY <3>3, <3>4, <3>5
  <2>7. CASE WideStep
    <3>1. pc = "wide" /\ over' = over /\ over >= Cardinality(Large) + 1
      BY <2>1, <2>7 DEF WideStep, OverInv
    <3>2. \/ pc' = "wide" /\ tested' = tested
          \/ ~Testing' /\ tested' = tested \cup {n0}
      <4>1. PICK k \in Nat : Comes(n0, k, Cur)
        BY <2>7, RoundFacts
      <4> QED
        BY <2>1, <2>7, <4>1, WideWalk
    <3>3. CASE pc' = "wide" /\ tested' = tested
      BY <2>3, <3>1, <3>3 DEF OverInv
    <3>4. CASE ~Testing' /\ tested' = tested \cup {n0}
      <4>1. Large' \subseteq Large \cup {n0}
        BY <2>1, <3>4 DEF Large
      <4>2. /\ IsFiniteSet(Large \cup {n0})
            /\ Cardinality(Large \cup {n0}) \in {Cardinality(Large), Cardinality(Large) + 1}
        BY <1>0, FS_AddElement
      <4>3. Cardinality(Large') <= Cardinality(Large \cup {n0}) /\ Cardinality(Large') \in Nat
        BY <4>1, <4>2, FS_Subset, FS_CardinalityType
      <4>4. over' >= Cardinality(Large')
        BY <1>0, <3>1, <4>2, <4>3
      <4> QED
        BY <3>4, <4>4 DEF OverInv, Testing
    <3> QED
      BY <3>2, <3>3, <3>4
  <2> QED
    BY <1>3, <2>5, <2>6, <2>7
<1>4. CASE UNCHANGED vars
  <2>1. Cur' = Cur /\ From' = From /\ Large' = Large
    BY <1>4 DEF vars, Cur, From, Large
  <2>2. \A k : Narrow(k)' <=> Narrow(k)
    BY <1>4, <2>1 DEF vars, Narrow
  <2> QED
    BY <1>4, <2>1, <2>2 DEF vars, OverInv
<1> QED
  BY <1>1, <1>2, <1>3, <1>4, StepKinds

\* The overflow counter misses no number that leaves 128 bits: none comes to be
\* tested in the unbounded check without being counted at its giving up.
THEOREM OverflowCountedCorrect == Spec => []OverflowCounted
<1>1. (PlaceInv /\ TestedInv /\ DoneInv) /\ OverInv /\ [Next]_vars => OverInv'
  BY NextKeepsOver
<1>2. OverInv => OverflowCounted
  BY DEF OverInv, OverflowCounted, Halted, Large, From
<1> QED
  BY <1>1, <1>2, InitOver, SumHolds, PTL DEF Spec

-----------------------------------------------------------------------------
(* What a finished task has verified.                                      *)

\* A finished task is verified, however its numbers were sieved: whatever the
\* run leaves out is below itself within the sieve's steps, or then where a
\* smaller number is, or is reached from a smaller number.  The numbers must be
\* large enough for a dropped class to take its members below themselves: with
\* the sizes of the code all tasks but the first.
THEOREM TaskCoveredCorrect ==
  Spec => [](3 * Base >= SIEVE_LOGSIZE * Pow2[SIEVE_LOGSIZE] => TaskCovered)
<1>1. PlaceInv /\ TestedInv =>
        (3 * Base >= SIEVE_LOGSIZE * Pow2[SIEVE_LOGSIZE] => TaskCovered)
  <2> SUFFICES ASSUME PlaceInv, TestedInv, Halted, prog.kind = "worker",
                      3 * Base >= SIEVE_LOGSIZE * Pow2[SIEVE_LOGSIZE],
                      NEW m \in Universe \ {0, 1}, m \notin tested
               PROVE  \/ DropsWithin(m, SIEVE_LOGSIZE) \/ MeetsLower(m, SIEVE_LOGSIZE)
                      \/ ReachedFromBelow(m, 3)
    BY DEF TaskCovered
  <2>1. Job /\ prog.mod \in {1, 3, 9} /\ task \in Nat
    BY JobKinds, WorkerConstants DEF PlaceInv, Typed, Job
  <2>2. Base \in Nat /\ Pow2[TASK_SIZE] \in Nat
    <3>1. TASK_SIZE \in Nat
      BY WidthsAssumption
    <3>2. Pow2[TASK_SIZE] \in Nat
      BY <3>1, PowerBounds
    <3> QED
      BY <2>1, <3>2, ProductLaws DEF Base
  <2>3. m \in Base .. Base + Pow2[TASK_SIZE] - 1
    BY DEF Universe
  <2>4. m \in Nat /\ m >= Base /\ m > 1
    BY <2>2, <2>3
  <2>5. PICK y \in Nat : y = SIEVE_LOGSIZE * Pow2[SIEVE_LOGSIZE]
    <3>1. SIEVE_LOGSIZE \in Nat /\ Pow2[SIEVE_LOGSIZE] \in Nat
      BY WorkerConstants, PowerBounds
    <3> QED
      BY <3>1, ProductLaws
  <2>6. 3 * m >= SIEVE_LOGSIZE * Pow2[SIEVE_LOGSIZE]
    BY <2>2, <2>4, <2>5
  <2>7. m % 4 # 3 \/ ~IsLive(m) \/ ~IsLiveInSieve(m, prog.mod)
    <3>1. m \notin Selected
      BY TestedAll
    <3> QED
      BY <2>3, <3>1 DEF Selected, InTask
  <2>8. CASE m % 4 # 3
    BY <2>4, <2>8, OtherDescends, WorkerConstants
  <2>9. CASE ~IsLive(m)
    BY <2>4, <2>6, <2>9, DroppedBelow
  <2>10. CASE ~IsLiveInSieve(m, prog.mod)
    BY <2>1, <2>4, <2>10, DeadReached
  <2> QED
    BY <2>7, <2>8, <2>9, <2>10
<1> QED
  BY <1>1, TestedHolds, PTL

=============================================================================
