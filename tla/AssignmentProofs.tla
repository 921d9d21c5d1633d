-------------------------- MODULE AssignmentProofs --------------------------
(***************************************************************************)
(* Proofs about module Assignment: what the GPU worker computes, and what  *)
(* an accepted call of run_assignment has read, whichever worker it was    *)
(* and wherever workers were killed.                                       *)
(***************************************************************************)
EXTENDS Assignment, WorkerProofs

-----------------------------------------------------------------------------
(* The numbers of a task, in the order in which the kernels share them out:  *)
(* k is the kernel's build and b the base of the task.                       *)

\* Is there a build of kernel32-precalc?
Precalculates == \E k \in Kernels : k.precalc

\* What is known of the build that runs.
Built == {k \in Kernel : k.precalc => Precalculates}

\* Log2 of the classes kernel32-precalc goes through; without such a build each
\* number is a class of its own.
ClassLog == IF Precalculates THEN MapLog[TRUE] ELSE TASK_SIZE

ClassLive(m) == IsLiveIn(m, ClassLog)

\* The members of a class in the task: how many, and the h-th.
GShares       == Pow2[TASK_SIZE - ClassLog]
GMember(m, h) == Base + h * Pow2[ClassLog] + m

\* The numbers of a task that are 3 modulo 4; those of a work item; and the
\* classes of a work item of kernel32-precalc.
All       == Pow2[TASK_SIZE - 2]
Load      == Pow2[(TASK_SIZE - 2) - TaskUnits]
ClassLoad == Pow2[(ClassLog - 2) - TaskUnits]

\* The p-th of them: kernel32-precalc takes one class after the other.
GNumber(k, b, p) ==
  IF k.precalc THEN (b + (p % GShares) * Pow2[ClassLog]) + (3 + 4 * (p \div GShares))
               ELSE b + (3 + 4 * p)

\* Those the kernel checks.
GKept(k, m) == /\ IF k.precalc THEN ClassLive(m) ELSE IsLiveIn(m, MapLog[FALSE])
               /\ IsLiveInSieve(m, k.mod)

\* Those among the first p.
KeptBelow(k, b, p) ==
  {GNumber(k, b, j) : j \in {c \in 0 .. p - 1 : GKept(k, GNumber(k, b, c))}}

\* The sum of their shares.
GTotal(k, b, p) == SumFunction([m \in KeptBelow(k, b, p) |-> Share(m)])

\* The steps behind a number when its test begins.
GFrom(k) == IF k.precalc THEN ClassLog ELSE 0

\* What the assumptions say of the sizes.
LEMMA GpuConstants ==
  /\ ClassLog \in Nat /\ TASK_SIZE \in Nat /\ TaskUnits \in Nat /\ ClassLog <= TASK_SIZE
  /\ Quarter \in Nat \ {0} /\ LUT_SIZE32 \in Nat /\ LUT_SIZE32 > 1
  /\ Half \in Nat /\ Width \in Nat /\ SumBits \in Nat
  /\ UMax(Width) \in Nat /\ UMax(Half) \in Nat /\ UMax(SumBits) \in Nat
  /\ GShares \in Nat \ {0} /\ All \in Nat \ {0} /\ Load \in Nat \ {0} /\ ClassLoad \in Nat \ {0}
  /\ Pow2[TaskUnits] \in Nat \ {0} /\ Pow2[ClassLog] \in Nat \ {0}
  /\ Precalculates => /\ Pow2[ClassLog] <= UMax(Half) /\ ClassLog = MapLog[TRUE]
                      /\ ClassLog < LUT_SIZE64
  /\ Pow2[TaskUnits] * Load = All /\ ClassLoad * GShares = Load
  /\ Pow2[ClassLog] = 4 * (Pow2[TaskUnits] * ClassLoad)
  /\ Pow2[TASK_SIZE] = 4 * All /\ Pow2[TASK_SIZE] = Pow2[ClassLog] * GShares
  /\ ClassLog - 2 \in Nat /\ Pow2[ClassLog] = 4 * Pow2[ClassLog - 2]
  /\ Pow2[TASK_SIZE - TaskUnits] = 4 * Load
  /\ Pow2[ClassLog - TaskUnits] = 4 * ClassLoad
  /\ Pow2[TASK_SIZE - ClassLog] = GShares
<1>1. /\ TASK_SIZE \in Nat /\ Half \in Nat \ {0} /\ Width \in Nat /\ SumBits \in Nat
      /\ Quarter \in Nat \ {0} /\ LUT_SIZE32 \in Nat /\ LUT_SIZE32 > 1 /\ LUT_SIZE64 \in Nat
  BY WidthsAssumption
<1>2. /\ TaskUnits \in Nat /\ ClassLog \in Nat
      /\ TaskUnits + 2 <= ClassLog /\ ClassLog <= TASK_SIZE
      /\ Precalculates => ClassLog < LUT_SIZE64 /\ ClassLog = MapLog[TRUE]
  <2>1. /\ TaskUnits \in Nat /\ TaskUnits + 2 <= TASK_SIZE
        /\ MapLog[TRUE] \in Nat
        /\ Precalculates => /\ TaskUnits + 2 <= MapLog[TRUE] /\ MapLog[TRUE] <= TASK_SIZE
                            /\ MapLog[TRUE] < LUT_SIZE64
    BY GpuAssumption DEF Precalculates
  <2>2. CASE Precalculates
    <3>1. ClassLog = MapLog[TRUE]
      BY <2>2, Zenon DEF ClassLog
    <3>2. /\ TaskUnits + 2 <= MapLog[TRUE] /\ MapLog[TRUE] <= TASK_SIZE
          /\ MapLog[TRUE] < LUT_SIZE64
      BY <2>1, <2>2, Zenon
    <3> QED
      BY <2>1, <3>1, <3>2
  <2>3. CASE ~Precalculates
    <3>1. ClassLog = TASK_SIZE
      BY <2>3, Zenon DEF ClassLog
    <3>2. TASK_SIZE \in Nat /\ TASK_SIZE <= TASK_SIZE
      BY <1>1
    <3> QED
      BY <2>1, <2>3, <3>1, <3>2, Zenon
  <2> QED
    BY <2>2, <2>3
<1>3. /\ TASK_SIZE - 2 \in Nat /\ (TASK_SIZE - 2) - TaskUnits \in Nat
      /\ ClassLog - 2 \in Nat /\ (ClassLog - 2) - TaskUnits \in Nat
      /\ TASK_SIZE - ClassLog \in Nat
      /\ TASK_SIZE - TaskUnits \in Nat /\ ClassLog - TaskUnits \in Nat
      /\ ((ClassLog - 2) - TaskUnits) + (TASK_SIZE - ClassLog)
           = (TASK_SIZE - 2) - TaskUnits
      /\ (TASK_SIZE - TaskUnits) - 2 = (TASK_SIZE - 2) - TaskUnits
      /\ (ClassLog - TaskUnits) - 2 = (ClassLog - 2) - TaskUnits
      /\ 2 <= TASK_SIZE - TaskUnits /\ 2 <= ClassLog - TaskUnits /\ 2 <= TASK_SIZE
      /\ TaskUnits <= TASK_SIZE - 2 /\ TaskUnits <= ClassLog - 2
  BY <1>1, <1>2
<1>4. /\ All \in Nat \ {0} /\ Load \in Nat \ {0} /\ ClassLoad \in Nat \ {0}
      /\ GShares \in Nat \ {0}
      /\ Pow2[TaskUnits] \in Nat \ {0} /\ Pow2[ClassLog] \in Nat \ {0}
      /\ Pow2[Half] \in Nat \ {0} /\ Pow2[Width] \in Nat \ {0} /\ Pow2[SumBits] \in Nat \ {0}
  BY <1>1, <1>2, <1>3, PowerBounds DEF All, Load, ClassLoad, GShares
<1>5. UMax(Width) \in Nat /\ UMax(Half) \in Nat /\ UMax(SumBits) \in Nat
  BY <1>4 DEF UMax
<1>6. Precalculates => Pow2[ClassLog] <= UMax(Half)
  <2> SUFFICES ASSUME Precalculates PROVE Pow2[ClassLog] <= UMax(Half)
    OBVIOUS
  <2>1. ClassLog <= LUT_SIZE64 - 1 /\ LUT_SIZE64 - 1 \in Nat
    BY <1>1, <1>2
  <2>2. Pow2[ClassLog] <= Pow3[ClassLog] /\ Pow3[ClassLog] <= Pow3[LUT_SIZE64 - 1]
        /\ Pow3[ClassLog] \in Nat /\ Pow3[LUT_SIZE64 - 1] \in Nat
    BY <1>2, <2>1, PowerBounds, PowerOrder
  <2>3. Pow3[LUT_SIZE64 - 1] < Pow2[Half]
    BY WidthsAssumption
  <2> QED
    BY <1>4, <2>2, <2>3 DEF UMax
<1>7. Pow2[2] = 4
  BY SmallPowers
<1>8. Pow2[TaskUnits] * Load = All
  BY <1>2, <1>3, PowerSplit DEF All, Load
<1>9. ClassLoad * GShares = Load
  <2>1. Pow2[((ClassLog - 2) - TaskUnits) + (TASK_SIZE - ClassLog)]
          = Pow2[(ClassLog - 2) - TaskUnits] * Pow2[TASK_SIZE - ClassLog]
    BY <1>3, PowerSum
  <2> QED
    BY <1>3, <2>1 DEF Load, ClassLoad, GShares
<1>10. /\ Pow2[TASK_SIZE] = 4 * All /\ Pow2[TASK_SIZE - TaskUnits] = 4 * Load
       /\ Pow2[ClassLog - TaskUnits] = 4 * ClassLoad
  <2>1. 2 \in Nat
    OBVIOUS
  <2>2. Pow2[TASK_SIZE] = Pow2[2] * Pow2[TASK_SIZE - 2]
    BY <1>1, <1>3, <2>1, PowerSplit
  <2>3. Pow2[TASK_SIZE - TaskUnits] = Pow2[2] * Pow2[(TASK_SIZE - TaskUnits) - 2]
    BY <1>3, <2>1, PowerSplit
  <2>4. Pow2[ClassLog - TaskUnits] = Pow2[2] * Pow2[(ClassLog - TaskUnits) - 2]
    BY <1>3, <2>1, PowerSplit
  <2> QED
    BY <1>3, <1>7, <2>2, <2>3, <2>4 DEF All, Load, ClassLoad
<1>11. Pow2[ClassLog] = 4 * Pow2[ClassLog - 2]
  <2>1. 2 \in Nat /\ 2 <= ClassLog
    BY <1>2
  <2>2. Pow2[ClassLog] = Pow2[2] * Pow2[ClassLog - 2]
    BY <1>2, <1>3, <2>1, PowerSplit
  <2> QED
    BY <1>7, <2>2
<1>12. Pow2[TASK_SIZE] = Pow2[ClassLog] * GShares
  BY <1>1, <1>2, PowerSplit DEF GShares
<1>13. Pow2[ClassLog] = 4 * (Pow2[TaskUnits] * ClassLoad)
  <2>1. Pow2[ClassLog - 2] = Pow2[TaskUnits] * Pow2[(ClassLog - 2) - TaskUnits]
    BY <1>2, <1>3, PowerSplit
  <2> QED
    BY <1>11, <2>1 DEF ClassLoad
<1> QED
  BY <1>1, <1>2, <1>3, <1>4, <1>5, <1>6, <1>8, <1>9, <1>10, <1>11, <1>12, <1>13 DEF GShares

\* The members in the task of a class of the GPU's sieve.
LEMMA GMemberFacts ==
  ASSUME Job, NEW m \in 0 .. Pow2[ClassLog] - 1, NEW h \in 0 .. GShares - 1
  PROVE  LET q == task * GShares + h IN
         /\ q \in Nat /\ m \in Nat /\ h \in Nat
         /\ GMember(m, h) = (Pow2[ClassLog] * q) + m
         /\ GMember(m, h) \in Nat /\ GMember(m, h) >= m
         /\ (Base + h * Pow2[ClassLog]) \div Pow2[ClassLog] = q
         /\ GMember(m, h) \div Pow2[ClassLog] = q
         /\ GMember(m, h) % Pow2[ClassLog] = m
         /\ GMember(m, h) >= Base
         /\ GMember(m, h) < Base + Pow2[TASK_SIZE]
         /\ GMember(m, h) + 1 <= UMax(Width)
         /\ ClassLive(GMember(m, h)) <=> ClassLive(m)
<1>1. PICK s, c, x : /\ s \in Nat /\ s = ClassLog /\ s <= TASK_SIZE
                     /\ c = GShares /\ c = Pow2[TASK_SIZE - s] /\ x = GMember(m, h)
                     /\ x = Base + h * Pow2[s] + m
  BY GpuConstants DEF GMember, GShares
<1>2. LET q == task * c + h IN
      /\ q \in Nat /\ m \in Nat /\ h \in Nat /\ x = (Pow2[s] * q) + m
      /\ x \in Nat /\ x >= m /\ (Base + h * Pow2[s]) \div Pow2[s] = q
      /\ x \div Pow2[s] = q /\ x % Pow2[s] = m /\ x >= Base /\ x < Base + Pow2[TASK_SIZE]
      /\ x + 1 <= UMax(Width) /\ (IsLiveIn(x, s) <=> IsLiveIn(m, s))
  BY <1>1, MemberFactsIn
<1> QED
  BY <1>1, <1>2, Zenon DEF ClassLive

\* Different classes have different members, and a class has each once.
LEMMA GMemberDistinct ==
  ASSUME Job, NEW m \in 0 .. Pow2[ClassLog] - 1, NEW h \in 0 .. GShares - 1,
         NEW l \in 0 .. Pow2[ClassLog] - 1, NEW g \in 0 .. GShares - 1,
         GMember(m, h) = GMember(l, g)
  PROVE  m = l /\ h = g
<1>1. /\ GMember(m, h) \div Pow2[ClassLog] = task * GShares + h
      /\ GMember(m, h) % Pow2[ClassLog] = m /\ h \in Nat
  BY GMemberFacts
<1>2. /\ GMember(l, g) \div Pow2[ClassLog] = task * GShares + g
      /\ GMember(l, g) % Pow2[ClassLog] = l /\ g \in Nat
  BY GMemberFacts
<1>3. task * GShares \in Nat
  BY JobKinds, GpuConstants, ProductLaws
<1> QED
  BY <1>1, <1>2, <1>3

\* What precalc makes of a class fits 64 bits.
LEMMA GClassFits ==
  ASSUME Precalculates, NEW b \in 0 .. Pow2[ClassLog] - 1, NEW k \in 0 .. ClassLog
  PROVE  /\ Iterate[k][b] \in Nat /\ Iterate[k][b] + 1 <= UMax(Half)
         /\ OddStepsIn(b, k) \in 0 .. ClassLog
         /\ k = ClassLog => Iterate[k][b] < Pow3[OddStepsIn(b, k)]
<1>1. ClassLog \in Nat /\ ClassLog < LUT_SIZE64
  BY GpuConstants
<1> QED
  BY <1>1, ClassFitsIn

\* Where precalc leaves a member of a class.
LEMMA GClassValue ==
  ASSUME Job, Precalculates, NEW m \in 0 .. Pow2[ClassLog] - 1, NEW h \in 0 .. GShares - 1,
         ClassLive(m)
  PROVE  LET o == OddStepsIn(m, ClassLog)
             v == ((task * GShares) + h) * Pow3[o] + Iterate[ClassLog][m]
         IN  /\ v \in Nat /\ v + 1 <= UMax(Width)
             /\ Comes(GMember(m, h), ClassLog, v)
             /\ OddStepsIn(GMember(m, h), ClassLog) = o
<1>1. PICK s, c, x : /\ s \in Nat /\ s = ClassLog /\ s <= TASK_SIZE /\ s < LUT_SIZE64
                     /\ c = GShares /\ c = Pow2[TASK_SIZE - s] /\ x = GMember(m, h)
                     /\ x = Base + h * Pow2[s] + m /\ s = MapLog[TRUE]
  BY GpuConstants DEF GMember, GShares
<1>2. (task + 1) * c * Pow3[s] <= UMax(Width)
  BY <1>1, AssignmentAssumption DEF Job, Precalculates
<1>3. LET o == OddStepsIn(m, s)
          v == ((task * c) + h) * Pow3[o] + Iterate[s][m]
      IN  /\ v \in Nat /\ v + 1 <= UMax(Width) /\ Comes(x, s, v) /\ OddStepsIn(x, s) = o
  <2>1. IsLiveIn(m, s) /\ m \in 0 .. Pow2[s] - 1 /\ h \in 0 .. c - 1
    BY <1>1, Zenon DEF ClassLive
  <2>2. /\ s \in Nat /\ s <= TASK_SIZE /\ s < LUT_SIZE64 /\ c = Pow2[TASK_SIZE - s]
        /\ x = Base + h * Pow2[s] + m
    BY <1>1
  <2> HIDE DEF Job
  <2> QED
    BY <1>2, <2>1, <2>2, ClassValueIn, SMTT(60)
<1> QED
  BY <1>1, <1>3, Zenon

\* A live class stays above itself in the steps of precalc.
LEMMA ClassStays ==
  ASSUME NEW m \in Nat, ClassLive(m)
  PROVE  \A k \in 0 .. ClassLog : Iterate[k][m] >= m
BY GpuConstants, LiveInStays DEF ClassLive

\* The number of classes.
Classes == Pow2[TaskUnits] * ClassLoad

\* An item's share, as its first classes or as its first numbers.
LEMMA ShareBounds ==
  ASSUME NEW id \in Ids
  PROVE  /\ id \in Nat /\ id * Load \in Nat /\ id * ClassLoad \in Nat
         /\ (id + 1) * Load \in Nat /\ (id + 1) * ClassLoad \in Nat
         /\ (id + 1) * Load = (id * Load) + Load
         /\ (id + 1) * ClassLoad = (id * ClassLoad) + ClassLoad
         /\ (id + 1) * Load <= All /\ (id + 1) * ClassLoad <= Classes
         /\ (id * ClassLoad) * GShares = id * Load
         /\ ((id + 1) * ClassLoad) * GShares = (id + 1) * Load
         /\ Classes \in Nat /\ Classes * GShares = All /\ Pow2[ClassLog] = 4 * Classes
<1>1. /\ GShares \in Nat \ {0} /\ All \in Nat \ {0} /\ Load \in Nat \ {0}
      /\ ClassLoad \in Nat \ {0} /\ Pow2[TaskUnits] \in Nat \ {0}
      /\ Pow2[TaskUnits] * Load = All /\ ClassLoad * GShares = Load
  BY GpuConstants
<1>2. id \in Nat /\ id + 1 \in Nat /\ id + 1 <= Pow2[TaskUnits]
  BY <1>1 DEF Ids
<1>3. PICK e \in Nat : e = id + 1 /\ e <= Pow2[TaskUnits]
  BY <1>2
<1>4. e * Load <= All /\ e * ClassLoad <= Classes /\ Classes \in Nat
  BY <1>1, <1>3, ProductOrder, ProductLaws DEF Classes
<1>5. id * Load \in Nat /\ id * ClassLoad \in Nat /\ e * Load \in Nat /\ e * ClassLoad \in Nat
  BY <1>1, <1>2, <1>3, ProductLaws
<1>6. /\ (id * ClassLoad) * GShares = id * Load /\ (e * ClassLoad) * GShares = e * Load
      /\ Classes * GShares = All
  BY <1>1, <1>2, <1>3, ProductLaws DEF Classes
<1>7. e * Load = (id * Load) + Load /\ e * ClassLoad = (id * ClassLoad) + ClassLoad
  <2>1. ASSUME NEW x \in Nat PROVE (id + 1) * x = (id * x) + x
    <3>1. x * (id + 1) = (x * id) + (x * 1)
      BY <1>2, ProductLaws
    <3>2. x * (id + 1) = (id + 1) * x /\ x * id = id * x
      BY <1>2, ProductLaws
    <3> QED
      BY <3>1, <3>2
  <2> QED
    BY <1>1, <1>3, <2>1
<1>8. Pow2[ClassLog] = 4 * Classes
  BY GpuConstants DEF Classes
<1> QED
  BY <1>2, <1>3, <1>4, <1>5, <1>6, <1>7, <1>8

\* kernel32-precalc: the h-th member of the a-th class.
LEMMA GNumberAt ==
  ASSUME Job, NEW k \in Built, k.precalc, NEW a \in 0 .. Classes - 1, NEW h \in 0 .. GShares - 1
  PROVE  /\ 3 + 4 * a \in 0 .. Pow2[ClassLog] - 1
         /\ (a * GShares) + h \in 0 .. All - 1
         /\ GNumber(k, Base, (a * GShares) + h) = GMember(3 + 4 * a, h)
<1>1. /\ GShares \in Nat \ {0} /\ Classes \in Nat /\ All \in Nat \ {0}
      /\ Pow2[ClassLog] = 4 * Classes /\ Pow2[ClassLog] \in Nat
      /\ Classes * GShares = All
  <2>1. 0 \in Ids
    BY GpuConstants DEF Ids
  <2> QED
    BY <2>1, GpuConstants, ShareBounds
<1>2. a \in Nat /\ h \in Nat
  OBVIOUS
<1>3. ((GShares * a) + h) \div GShares = a /\ ((GShares * a) + h) % GShares = h
  BY <1>1, <1>2, DivisionUnique
<1>4. GShares * a = a * GShares /\ a * GShares \in Nat
  BY <1>1, <1>2, ProductLaws
<1>5. (a * GShares) + h \in 0 .. All - 1
  <2>1. PICK u \in Nat : u = a + 1 /\ u <= Classes
    BY <1>1, <1>2
  <2>2. u * GShares <= Classes * GShares /\ u * GShares \in Nat
    BY <1>1, <2>1, ProductOrder, ProductLaws
  <2>3. u * GShares = (a * GShares) + GShares
    <3>1. GShares * (a + 1) = (GShares * a) + (GShares * 1)
      BY <1>1, <1>2, ProductLaws
    <3>2. GShares * u = u * GShares
      BY <1>1, <2>1, ProductLaws
    <3> QED
      BY <1>1, <1>4, <2>1, <3>1, <3>2
  <2> QED
    BY <1>1, <1>2, <1>4, <2>2, <2>3
<1>6. GNumber(k, Base, (a * GShares) + h) = (Base + h * Pow2[ClassLog]) + (3 + 4 * a)
  BY <1>3, <1>4 DEF GNumber
<1>7. 3 + 4 * a \in 0 .. Pow2[ClassLog] - 1
  BY <1>1, <1>2
<1> QED
  BY <1>5, <1>6, <1>7 DEF GMember

\* Every place is one of a class.
LEMMA PlaceInClass ==
  ASSUME NEW p \in 0 .. All - 1
  PROVE  \E a \in 0 .. Classes - 1, h \in 0 .. GShares - 1 : p = (a * GShares) + h
<1>1. GShares \in Nat \ {0} /\ Classes \in Nat /\ Classes * GShares = All /\ All \in Nat
  <2>1. 0 \in Ids
    BY GpuConstants DEF Ids
  <2> QED
    BY <2>1, GpuConstants, ShareBounds
<1>2. PICK a \in Nat, h \in 0 .. GShares - 1 : p = (GShares * a) + h
  <2>1. p \in Nat
    BY <1>1
  <2>2. p \div GShares \in Nat /\ p % GShares \in 0 .. GShares - 1
        /\ p = (GShares * (p \div GShares)) + (p % GShares)
    BY <1>1, <2>1, Division
  <2> QED
    BY <2>2
<1>3. GShares * a = a * GShares /\ a * GShares \in Nat
  BY <1>1, ProductLaws
<1>4. a < Classes
  <2>1. SUFFICES ASSUME Classes <= a PROVE FALSE
    BY <1>1
  <2>2. Classes * GShares <= a * GShares
    BY <1>1, <2>1, ProductOrder
  <2> QED
    BY <1>1, <1>2, <1>3, <2>2
<1>5. a \in 0 .. Classes - 1 /\ p = (a * GShares) + h
  BY <1>1, <1>2, <1>3, <1>4
<1> QED
  BY <1>2, <1>5, Zenon

\* The numbers of a task.
LEMMA GNumberFacts ==
  ASSUME Job, NEW k \in Built, NEW p \in 0 .. All - 1
  PROVE  /\ GNumber(k, Base, p) \in Nat /\ GNumber(k, Base, p) >= 3
         /\ GNumber(k, Base, p) >= Base /\ GNumber(k, Base, p) < Base + Pow2[TASK_SIZE]
         /\ GNumber(k, Base, p) % 4 = 3 /\ GNumber(k, Base, p) + 1 <= UMax(Width)
<1>1. /\ Base \in Nat /\ Base + Pow2[TASK_SIZE] <= UMax(Width)
      /\ Pow2[TASK_SIZE] = 4 * All /\ All \in Nat /\ UMax(Width) \in Nat
  BY JobKinds, GpuConstants
<1>2. PICK x \in Nat : Base = 4 * x
  BY JobKinds
<1>3. CASE k.precalc
  <2>1. PICK a \in 0 .. Classes - 1, h \in 0 .. GShares - 1 : p = (a * GShares) + h
    BY PlaceInClass
  <2>2. /\ 3 + 4 * a \in 0 .. Pow2[ClassLog] - 1 /\ a \in Nat
        /\ GNumber(k, Base, p) = GMember(3 + 4 * a, h)
    BY <1>3, <2>1, GNumberAt
  <2>3. PICK m \in 0 .. Pow2[ClassLog] - 1 : m = 3 + 4 * a
    BY <2>2
  <2>4. /\ GMember(m, h) \in Nat /\ GMember(m, h) >= m /\ GMember(m, h) >= Base
        /\ GMember(m, h) < Base + Pow2[TASK_SIZE] /\ GMember(m, h) + 1 <= UMax(Width)
        /\ GMember(m, h) = (Pow2[ClassLog] * ((task * GShares) + h)) + m
        /\ (task * GShares) + h \in Nat
    BY GMemberFacts
  <2>5. PICK q \in Nat : GMember(m, h) = (Pow2[ClassLog] * q) + m
    BY <2>4
  <2>6. PICK y \in Nat : Pow2[ClassLog] * q = 4 * y
    <3>1. /\ Pow2[ClassLog] = 4 * Pow2[ClassLog - 2]
          /\ Pow2[ClassLog - 2] \in Nat /\ 4 \in Nat
      BY GpuConstants, PowerBounds
    <3>2. 4 * (Pow2[ClassLog - 2] * q) = (4 * Pow2[ClassLog - 2]) * q
          /\ Pow2[ClassLog - 2] * q \in Nat
      BY <3>1, ProductLaws
    <3> QED
      BY <3>1, <3>2
  <2>7. GMember(m, h) % 4 = 3
    BY <2>2, <2>3, <2>5, <2>6
  <2> QED
    BY <2>2, <2>3, <2>4, <2>7
<1>4. CASE ~k.precalc
  <2>1. GNumber(k, Base, p) = Base + (3 + 4 * p)
    BY <1>4 DEF GNumber
  <2> QED
    BY <1>1, <1>2, <2>1
<1>5. k.precalc \in BOOLEAN
  BY DEF Built, Kernel
<1> QED
  BY <1>3, <1>4, <1>5

\* They are different ones.
LEMMA GNumberDistinct ==
  ASSUME Job, NEW k \in Built, NEW p \in 0 .. All - 1, NEW q \in 0 .. All - 1,
         GNumber(k, Base, p) = GNumber(k, Base, q)
  PROVE  p = q
<1>1. CASE k.precalc
  <2>1. PICK a \in 0 .. Classes - 1, h \in 0 .. GShares - 1 : p = (a * GShares) + h
    BY PlaceInClass
  <2>2. PICK c \in 0 .. Classes - 1, g \in 0 .. GShares - 1 : q = (c * GShares) + g
    BY PlaceInClass
  <2>3. /\ 3 + 4 * a \in 0 .. Pow2[ClassLog] - 1 /\ GNumber(k, Base, p) = GMember(3 + 4 * a, h)
        /\ 3 + 4 * c \in 0 .. Pow2[ClassLog] - 1 /\ GNumber(k, Base, q) = GMember(3 + 4 * c, g)
    BY <1>1, <2>1, <2>2, GNumberAt
  <2>4. 3 + 4 * a = 3 + 4 * c /\ h = g
    <3>1. PICK u \in 0 .. Pow2[ClassLog] - 1, w \in 0 .. Pow2[ClassLog] - 1 :
            u = 3 + 4 * a /\ w = 3 + 4 * c
      BY <2>3
    <3>2. GMember(u, h) = GMember(w, g)
      BY <2>3, <3>1
    <3>3. u = w /\ h = g
      BY <3>2, GMemberDistinct
    <3> QED
      BY <3>1, <3>3
  <2>5. a = c
    BY <2>4
  <2> QED
    BY <2>1, <2>2, <2>4, <2>5
<1>2. CASE ~k.precalc
  <2>1. Base + (3 + 4 * p) = Base + (3 + 4 * q)
    BY <1>2 DEF GNumber
  <2> QED
    BY <2>1, JobKinds
<1>3. k.precalc \in BOOLEAN
  BY DEF Built, Kernel
<1> QED
  BY <1>1, <1>2, <1>3

\* And they are all that are 3 modulo 4.
LEMMA GNumberInverse ==
  ASSUME Job, NEW k \in Built, NEW m \in Base .. Base + Pow2[TASK_SIZE] - 1, m % 4 = 3
  PROVE  \E p \in 0 .. All - 1 : m = GNumber(k, Base, p)
<1>1. /\ Base \in Nat /\ Pow2[TASK_SIZE] = 4 * All /\ All \in Nat
      /\ Pow2[TASK_SIZE] = Pow2[ClassLog] * GShares /\ GShares \in Nat \ {0}
      /\ Pow2[ClassLog] = 4 * Classes /\ Classes \in Nat
  <2>1. 0 \in Ids
    BY GpuConstants DEF Ids
  <2> QED
    BY <2>1, JobKinds, GpuConstants, WorkerConstants, ShareBounds
<1>2. PICK c \in Nat : Base = 4 * c
  BY JobKinds
<1>3. CASE k.precalc
  <2>1. PICK u \in Nat \ {0} : u = Pow2[ClassLog] /\ u = 4 * Classes
    BY <1>1, GpuConstants
  <2>2. u * GShares \in Nat
    BY <1>1, <2>1, ProductLaws
  <2>3. m \in Nat /\ m - Base \in Nat /\ m - Base < u * GShares
    BY <1>1, <2>1, <2>2
  <2>4. PICK h \in Nat, l \in 0 .. u - 1 : m - Base = (u * h) + l
    BY <2>3, Division
  <2>5. u * h \in Nat /\ u * h = h * u
    BY ProductLaws
  <2>6. h < GShares
    <3>1. SUFFICES ASSUME GShares <= h PROVE FALSE
      BY <1>1
    <3>2. u * GShares <= u * h
      BY <1>1, <3>1, ProductOrder
    <3> QED
      BY <2>2, <2>3, <2>4, <2>5, <3>2
  <2>7. PICK x \in Nat : u * h = 4 * x
    <3>1. 4 * (Classes * h) = (4 * Classes) * h /\ Classes * h \in Nat
      BY <1>1, ProductLaws
    <3> QED
      BY <2>1, <3>1
  <2>8. l % 4 = 3
    <3>1. m = 4 * c + 4 * x + l /\ m \in Nat
      BY <1>2, <2>3, <2>4, <2>7
    <3> QED
      BY <3>1
  <2>9. PICK a \in Nat : l = 3 + 4 * a
    BY <2>8
  <2>10. a \in 0 .. Classes - 1 /\ h \in 0 .. GShares - 1
    BY <1>1, <2>1, <2>4, <2>6, <2>9
  <2>11. /\ (a * GShares) + h \in 0 .. All - 1
         /\ GNumber(k, Base, (a * GShares) + h) = GMember(3 + 4 * a, h)
    BY <1>3, <2>10, GNumberAt
  <2>12. m = GMember(3 + 4 * a, h)
    BY <1>1, <2>1, <2>3, <2>4, <2>5, <2>9 DEF GMember
  <2> QED
    BY <2>11, <2>12
<1>4. CASE ~k.precalc
  <2>1. m \in Nat /\ m >= 4 * c /\ m < 4 * c + 4 * All
    BY <1>1, <1>2
  <2>2. PICK y \in Nat : m = 4 * y + 3
    BY <2>1
  <2>3. y - c \in 0 .. All - 1 /\ m = Base + (3 + 4 * (y - c))
    BY <1>1, <1>2, <2>1, <2>2
  <2>4. GNumber(k, Base, y - c) = Base + (3 + 4 * (y - c))
    BY <1>4 DEF GNumber
  <2> QED
    BY <2>3, <2>4
<1>5. k.precalc \in BOOLEAN
  BY DEF Built, Kernel
<1> QED
  BY <1>3, <1>4, <1>5

-----------------------------------------------------------------------------
(* Sums over the numbers, one more at a time.                                *)

\* The next number adds its share if it is kept.
LEMMA GTotalNext ==
  ASSUME Job, NEW k \in Built
  PROVE  /\ GTotal(k, Base, 0) = 0
         /\ \A p \in 0 .. All : GTotal(k, Base, p) \in Nat
         /\ \A p \in 0 .. All - 1 :
              LET m == GNumber(k, Base, p)
              IN  GTotal(k, Base, p + 1)
                    = GTotal(k, Base, p) + (IF GKept(k, m) THEN Share(m) ELSE 0)
<1> DEFINE G(c) == GNumber(k, Base, c)
           B(p) == KeptBelow(k, Base, p)
<1>0. All \in Nat /\ UMax(Width) \in Nat
  BY GpuConstants
<1>1. ASSUME NEW p \in 0 .. All
      PROVE  /\ IsFiniteSet(B(p)) /\ B(p) \subseteq Nat
             /\ GTotal(k, Base, p) \in Nat /\ (B(p) = {} => GTotal(k, Base, p) = 0)
             /\ \A y \in B(p) : Share(y) \in Nat
  <2>1. ASSUME NEW m \in B(p) PROVE m \in 0 .. UMax(Width)
    <3>1. PICK c \in 0 .. p - 1 : m = G(c)
      BY DEF KeptBelow
    <3>2. c \in 0 .. All - 1
      BY <1>0
    <3>3. G(c) \in Nat /\ G(c) + 1 <= UMax(Width)
      BY <3>2, GNumberFacts
    <3> HIDE DEF G
    <3> QED
      BY <1>0, <3>1, <3>3
  <2>2. IsFiniteSet(0 .. UMax(Width)) /\ B(p) \subseteq 0 .. UMax(Width)
    BY <1>0, <2>1, FS_Interval
  <2> HIDE DEF B
  <2>3. IsFiniteSet(B(p)) /\ B(p) \subseteq Nat
    <3>1. B(p) \in SUBSET (0 .. UMax(Width))
      BY <2>2
    <3>2. IsFiniteSet(B(p))
      BY <2>2, <3>1, FS_Subset
    <3> QED
      BY <1>0, <2>2, <3>2
  <2>4. \A y \in B(p) : Share(y) \in Nat
    BY <2>3, ShareType
  <2>5. [m \in B(p) |-> Share(m)] \in [B(p) -> Nat]
    BY <2>4
  <2>6. /\ SumFunction([m \in B(p) |-> Share(m)]) \in Nat
        /\ B(p) = {} => SumFunction([m \in B(p) |-> Share(m)]) = 0
    BY <2>3, <2>5, SumType
  <2> QED
    BY <2>3, <2>4, <2>6 DEF GTotal, B
<1>2. GTotal(k, Base, 0) = 0
  <2>1. B(0) = {}
    BY DEF KeptBelow
  <2>2. 0 \in 0 .. All
    BY <1>0
  <2> QED
    BY <1>1, <2>1, <2>2
<1>3. ASSUME NEW p \in 0 .. All - 1
      PROVE  GTotal(k, Base, p + 1)
               = GTotal(k, Base, p) + (IF GKept(k, G(p)) THEN Share(G(p)) ELSE 0)
  <2>1. p \in Nat /\ (p + 1) - 1 = p /\ 0 .. p = (0 .. p - 1) \cup {p} /\ p \in 0 .. All
    BY <1>0
  <2>2. CASE GKept(k, G(p))
    <3>1. B(p + 1) = B(p) \cup {G(p)}
      BY <2>1, <2>2 DEF KeptBelow
    <3>2. G(p) \notin B(p)
      <4>1. SUFFICES ASSUME G(p) \in B(p) PROVE FALSE
        OBVIOUS
      <4>2. PICK c \in 0 .. p - 1 : G(p) = G(c)
        BY <4>1 DEF KeptBelow
      <4>3. c \in 0 .. All - 1 /\ c # p
        BY <1>0, <2>1
      <4> QED
        BY <4>2, <4>3, GNumberDistinct
    <3>3. G(p) \in Nat
      BY GNumberFacts
    <3> DEFINE g == [y \in Nat |-> Share(y)]
               S == B(p)
               x == G(p)
    <3>4. /\ \A y \in S \cup {x} : g[y] \in Nat /\ g[y] = Share(y)
          /\ IsFiniteSet(S) /\ x \notin S /\ S \subseteq Nat
      BY <1>1, <2>1, <3>2, <3>3, ShareType
    <3>5. [y \in S |-> g[y]] = [y \in S |-> Share(y)]
          /\ [y \in S \cup {x} |-> g[y]] = [y \in S \cup {x} |-> Share(y)]
      BY <3>4
    <3>6. SumFunction([y \in S \cup {x} |-> g[y]]) = SumFunction([y \in S |-> g[y]]) + g[x]
      <4> HIDE DEF S, x, g
      <4> QED
        BY <3>4, SumMore
    <3>7. GTotal(k, Base, p + 1) = SumFunction([y \in S \cup {x} |-> Share(y)])
      BY <3>1 DEF GTotal
    <3>8. GTotal(k, Base, p) = SumFunction([y \in S |-> Share(y)])
      BY DEF GTotal
    <3> HIDE DEF S, x, g
    <3> QED
      BY <2>2, <3>4, <3>5, <3>6, <3>7, <3>8 DEF x
  <2>3. CASE ~GKept(k, G(p))
    <3>1. B(p + 1) = B(p)
      BY <2>1, <2>3 DEF KeptBelow
    <3>2. GTotal(k, Base, p + 1) = GTotal(k, Base, p)
      BY <3>1 DEF GTotal
    <3>3. GTotal(k, Base, p) \in Nat
      BY <1>1, <2>1
    <3> QED
      BY <2>3, <3>2, <3>3
  <2> QED
    BY <2>2, <2>3
<1> QED
  BY <1>1, <1>2, <1>3

-----------------------------------------------------------------------------
(* The books of an item: id is its number, p the place it has come to, s its *)
(* sum, x what the sum has besides the shares of the numbers before p, v and *)
(* o its maximum and the number that is said to have it.                     *)

Ledger(k, b, id, p, s, x) ==
  \E w \in Nat : GTotal(k, b, p) = GTotal(k, b, id * Load) + w /\ s = Checksum(w + x)

\* The numbers before p came below themselves, and none climbed above v.
Passed(k, b, id, p, v) ==
  \A c \in id * Load .. p - 1 : GKept(k, GNumber(k, b, c)) =>
     /\ \E d \in Nat : d > GFrom(k) /\ Descends(GNumber(k, b, c), d)
     /\ PeakFrom(GNumber(k, b, c), GFrom(k)) <= v

\* The maximum is not above the peak of the number it is said to be of.
Named(k, b, id, p, v, o) ==
  v = 0 \/ \E c \in id * Load .. p - 1 : /\ o = GNumber(k, b, c) /\ GKept(k, o)
                                         /\ v <= PeakFrom(o, GFrom(k))

\* Between two numbers.
Between(k, b, id, p, s, x, v, o) ==
  /\ p \in Nat /\ id * Load <= p /\ p <= (id + 1) * Load
  /\ v \in Nat
  /\ Ledger(k, b, id, p, s, x) /\ Passed(k, b, id, p, v) /\ Named(k, b, id, p, v, o)

\* The p-th number, after c steps, has come to y.
Walks(k, b, id, p, c, y, s, x, v, o) ==
  LET m == GNumber(k, b, p) IN
  /\ p \in Nat /\ id * Load <= p /\ p < (id + 1) * Load
  /\ v \in Nat
  /\ GKept(k, m) /\ c \in Nat /\ c >= GFrom(k) /\ Comes(m, c, y)
  /\ Ledger(k, b, id, p, s, OddStepsIn(m, c) + x) /\ Passed(k, b, id, p, v)
  /\ \A j \in GFrom(k) .. c : Iterate[j][m] <= v \/ Iterate[j][m] <= y
  /\ \/ Named(k, b, id, p, v, o)
     \/ o = m /\ \E j \in GFrom(k) .. c : v = Iterate[j][m]

\* What is added to a sum may be added to the books.
LEMMA LedgerAdd ==
  ASSUME NEW k, NEW b, NEW id, NEW p, NEW s, NEW x \in Nat, NEW z \in Nat, NEW y \in Nat,
         Ledger(k, b, id, p, s, x), y = x + z
  PROVE  Ledger(k, b, id, p, Checksum(s + z), y)
<1>1. PICK w \in Nat : /\ GTotal(k, b, p) = GTotal(k, b, id * Load) + w
                       /\ s = Checksum(w + x)
  BY DEF Ledger
<1>2. w + x \in Nat /\ (w + x) + z = w + y
  OBVIOUS
<1>3. Checksum(Checksum(w + x) + z) = Checksum((w + x) + z)
  BY <1>2, ChecksumValue
<1> QED
  BY <1>1, <1>2, <1>3 DEF Ledger

\* A number that is not kept changes nothing.
LEMMA BetweenSkip ==
  ASSUME Job, NEW k \in Built, NEW b, b = Base, NEW id \in Ids, NEW p, NEW s, NEW x, NEW v, NEW o,
         Between(k, b, id, p, s, x, v, o), p < (id + 1) * Load, ~GKept(k, GNumber(k, b, p))
  PROVE  Between(k, b, id, p + 1, s, x, v, o)
<1>1. /\ id * Load \in Nat /\ (id + 1) * Load \in Nat /\ (id + 1) * Load <= All /\ All \in Nat
      /\ p \in Nat /\ id * Load <= p
  BY ShareBounds, GpuConstants DEF Between
<1>2. p \in 0 .. All - 1 /\ p + 1 <= (id + 1) * Load /\ id * Load <= p + 1 /\ p + 1 \in Nat
      /\ id * Load .. (p + 1) - 1 = (id * Load .. p - 1) \cup {p}
  BY <1>1
<1>3. GTotal(k, b, p + 1) = GTotal(k, b, p)
  <2>1. GTotal(k, b, p) \in Nat /\ p \in 0 .. All
    BY <1>1, <1>2, GTotalNext
  <2> QED
    BY <1>2, <2>1, GTotalNext
<1>4. Ledger(k, b, id, p + 1, s, x)
  BY <1>3 DEF Between, Ledger
<1>5. Passed(k, b, id, p + 1, v)
  BY <1>2 DEF Between, Passed
<1>6. Named(k, b, id, p + 1, v, o)
  BY <1>2 DEF Between, Named
<1> QED
  BY <1>2, <1>4, <1>5, <1>6 DEF Between

\* Nor do several.
LEMMA BetweenSkipMany ==
  ASSUME Job, NEW k \in Built, NEW b, b = Base, NEW id \in Ids, NEW p, NEW s, NEW x, NEW v, NEW o,
         NEW e \in Nat,
         Between(k, b, id, p, s, x, v, o), p + e <= (id + 1) * Load,
         \A h \in 0 .. e - 1 : ~GKept(k, GNumber(k, b, p + h))
  PROVE  Between(k, b, id, p + e, s, x, v, o)
<1> DEFINE S == {h \in Nat : h <= e => Between(k, b, id, p + h, s, x, v, o)}
<1>1. p \in Nat /\ (id + 1) * Load \in Nat
  BY ShareBounds DEF Between
<1>2. 0 \in S
  <2>1. p + 0 = p
    BY <1>1
  <2> QED
    BY <2>1
<1>3. ASSUME NEW h \in Nat, h \in S
      PROVE  h + 1 \in S
  <2> SUFFICES ASSUME h + 1 <= e PROVE Between(k, b, id, p + (h + 1), s, x, v, o)
    OBVIOUS
  <2>1. PICK q \in Nat : q = p + h /\ q + 1 = p + (h + 1) /\ q < (id + 1) * Load
    BY <1>1
  <2>2. Between(k, b, id, q, s, x, v, o) /\ ~GKept(k, GNumber(k, b, q))
    BY <1>3, <2>1
  <2>3. Between(k, b, id, q + 1, s, x, v, o)
    BY <2>1, <2>2, BetweenSkip
  <2> QED
    BY <2>1, <2>3
<1>4. \A h \in Nat : h \in S
  <2> HIDE DEF S
  <2> QED
    BY <1>2, <1>3, SetInduction
<1> QED
  BY <1>4

\* The maximum may rise.
LEMMA PassedMore ==
  ASSUME Job, NEW k \in Built, NEW b, b = Base, NEW id \in Ids, NEW p \in Nat,
         p <= (id + 1) * Load, NEW v \in Nat, NEW w \in Nat, v <= w, Passed(k, b, id, p, v)
  PROVE  Passed(k, b, id, p, w)
<1> SUFFICES ASSUME NEW c \in id * Load .. p - 1, GKept(k, GNumber(k, b, c))
             PROVE  /\ \E d \in Nat : d > GFrom(k) /\ Descends(GNumber(k, b, c), d)
                    /\ PeakFrom(GNumber(k, b, c), GFrom(k)) <= w
  BY DEF Passed
<1>1. /\ \E d \in Nat : d > GFrom(k) /\ Descends(GNumber(k, b, c), d)
      /\ PeakFrom(GNumber(k, b, c), GFrom(k)) <= v
  BY DEF Passed
<1>2. PICK m \in Nat : m = GNumber(k, b, c)
  <2>1. id * Load \in Nat /\ (id + 1) * Load \in Nat /\ (id + 1) * Load <= All /\ All \in Nat
    BY ShareBounds, GpuConstants
  <2>2. c \in 0 .. All - 1
    BY <2>1
  <2> QED
    BY <2>2, GNumberFacts
<1>3. PICK f \in Nat : f = GFrom(k)
  BY GpuConstants DEF GFrom
<1>4. PICK d \in Nat : d > f /\ Descends(m, d)
  BY <1>1, <1>2, <1>3
<1>5. PeakFrom(m, f) \in Nat
  BY <1>4, PeakOfTested
<1>6. PeakFrom(m, f) <= w
  BY <1>1, <1>2, <1>3, <1>5
<1> QED
  BY <1>1, <1>2, <1>3, <1>6

\* What is known of the number under test.
LEMMA WalkFacts ==
  ASSUME Job, NEW k \in Built, NEW b, b = Base, NEW id \in Ids, NEW p, NEW c, NEW y, NEW s, NEW x,
         NEW v, NEW o, Walks(k, b, id, p, c, y, s, x, v, o)
  PROVE  /\ p \in 0 .. All - 1 /\ p + 1 <= (id + 1) * Load /\ (id + 1) * Load \in Nat
         /\ id * Load \in Nat /\ id * Load <= p
         /\ GNumber(k, b, p) \in Nat /\ GNumber(k, b, p) >= 3 /\ GFrom(k) \in Nat
         /\ y \in Nat /\ y >= GNumber(k, b, p) /\ Iterate[c][GNumber(k, b, p)] = y
         /\ OddStepsIn(GNumber(k, b, p), c) \in Nat
         /\ c \in Nat /\ c >= GFrom(k) /\ v \in Nat
<1>1. p \in 0 .. All - 1 /\ p + 1 <= (id + 1) * Load /\ (id + 1) * Load \in Nat
      /\ id * Load \in Nat /\ id * Load <= p
  BY ShareBounds, GpuConstants DEF Walks
<1>2. PICK m \in Nat : m = GNumber(k, b, p) /\ m >= 3
  BY <1>1, GNumberFacts
<1>3. c \in Nat /\ Comes(m, c, y)
  BY <1>2 DEF Walks
<1>4. Iterate[c][m] = y /\ y \in Nat /\ y >= m
  <2>1. c \in 0 .. c
    BY <1>3
  <2> QED
    BY <1>3, <2>1, IterateDefined DEF Comes
<1>5. OddStepsIn(m, c) \in Nat
  BY <1>3, OddStepsNext
<1>6. GFrom(k) \in Nat
  BY GpuConstants DEF GFrom
<1>7. c >= GFrom(k) /\ v \in Nat
  BY DEF Walks
<1> QED
  BY <1>1, <1>2, <1>3, <1>4, <1>5, <1>6, <1>7

\* A test begins.
LEMMA WalkBegin ==
  ASSUME Job, NEW k \in Built, NEW b, b = Base, NEW id \in Ids, NEW p, NEW s, NEW x, NEW v, NEW o,
         Between(k, b, id, p, s, x, v, o), p < (id + 1) * Load, GKept(k, GNumber(k, b, p)),
         NEW y \in Nat, Comes(GNumber(k, b, p), GFrom(k), y),
         NEW t, NEW z, Ledger(k, b, id, p, t, OddStepsIn(GNumber(k, b, p), GFrom(k)) + z)
  PROVE  Walks(k, b, id, p, GFrom(k), y, t, z, v, o)
<1>1. PICK f \in Nat : f = GFrom(k) /\ f .. f = {f}
  BY GpuConstants DEF GFrom
<1>2. \A j \in f .. f : Iterate[j][GNumber(k, b, p)] <= y
  BY <1>1 DEF Comes
<1> QED
  BY <1>1, <1>2 DEF Between, Walks

\* Factors of two become factors of three.
LEMMA WalkRise ==
  ASSUME Job, NEW k \in Built, NEW b, b = Base, NEW id \in Ids, NEW p, NEW c, NEW y, NEW s,
         NEW x \in Nat, NEW v, NEW o, Walks(k, b, id, p, c, y, s, x, v, o),
         NEW a \in Nat, NEW u \in Nat \ {0}, y = (Pow2[a] * u) - 1,
         NEW z, z = (u * Pow3[a]) - 1
  PROVE  Walks(k, b, id, p, c + a, z, Checksum(s + a), x, v, o) /\ y <= z
<1>1. /\ p \in 0 .. All - 1 /\ GNumber(k, b, p) \in Nat /\ GFrom(k) \in Nat /\ c \in Nat
      /\ OddStepsIn(GNumber(k, b, p), c) \in Nat /\ c >= GFrom(k)
      /\ Iterate[c][GNumber(k, b, p)] = y
  BY WalkFacts
<1>2. PICK m \in Nat, f \in Nat, e \in Nat : m = GNumber(k, b, p) /\ f = GFrom(k)
                                             /\ e = OddStepsIn(m, c)
  BY <1>1
<1>3. Comes(m, c, (Pow2[a] * u) - 1)
  BY <1>2 DEF Walks
<1>4. /\ Comes(m, c + a, z) /\ OddStepsIn(m, c + a) = e + a
      /\ \A j \in c .. c + a : Iterate[j][m] <= z
  <2>1. c \in Nat
    BY <1>1
  <2>2. /\ Comes(m, c + a, (u * Pow3[a]) - 1)
        /\ OddStepsIn(m, c + a) = OddStepsIn(m, c) + a
        /\ \A j \in c .. c + a : Iterate[j][m] <= (u * Pow3[a]) - 1
    BY <2>1, <1>3, ComesRise, Zenon
  <2> QED
    BY <1>2, <2>2, Zenon
<1>5. y <= z
  <2>1. c \in c .. c + a
    BY <1>1
  <2> QED
    BY <1>1, <1>2, <1>4, <2>1
<1>6. Ledger(k, b, id, p, Checksum(s + a), OddStepsIn(m, c + a) + x)
  <2>1. Ledger(k, b, id, p, s, e + x) /\ e + x \in Nat /\ (e + a) + x \in Nat
        /\ (e + a) + x = (e + x) + a
    BY <1>2 DEF Walks
  <2> QED
    BY <1>4, <2>1, LedgerAdd
<1>7. z \in Nat /\ y \in Nat
  <2>1. c + a \in Nat
    BY <1>1
  <2> QED
    BY <1>1, <1>2, <1>4, <2>1, IterateDefined DEF Comes
<1>8. \A j \in f .. c + a : Iterate[j][m] <= v \/ Iterate[j][m] <= z
  <2> SUFFICES ASSUME NEW j \in f .. c + a
               PROVE  Iterate[j][m] <= v \/ Iterate[j][m] <= z
    OBVIOUS
  <2>1. j \in f .. c \/ j \in c .. c + a
    BY <1>1
  <2>2. PICK i1 \in Nat : i1 = Iterate[j][m]
    <3>1. j \in Nat
      BY <1>1, <1>2
    <3> QED
      BY <3>1, IterateDefined
  <2>3. j \in f .. c => i1 <= v \/ i1 <= y
    BY <1>2, <2>2 DEF Walks
  <2>4. j \in c .. c + a => i1 <= z
    BY <1>4, <2>2
  <2> QED
    BY <1>5, <1>7, <2>1, <2>2, <2>3, <2>4
<1>9. \A j \in f .. c : j \in f .. c + a
  BY <1>1
<1>10. c + a \in Nat /\ c + a >= f
  BY <1>1, <1>2
<1>11. \/ Named(k, b, id, p, v, o)
       \/ o = m /\ \E j \in f .. c + a : v = Iterate[j][m]
  BY <1>2, <1>9 DEF Walks
<1> QED
  BY <1>2, <1>4, <1>5, <1>6, <1>8, <1>10, <1>11 DEF Walks

\* The maximum is noted.
LEMMA WalkNote ==
  ASSUME Job, NEW k \in Built, NEW b, b = Base, NEW id \in Ids, NEW p, NEW c, NEW y, NEW s,
         NEW x, NEW v, NEW o, Walks(k, b, id, p, c, y, s, x, v, o),
         NEW w, w = IF y > v THEN y ELSE v,
         NEW q, q = IF y > v THEN GNumber(k, b, p) ELSE o
  PROVE  Walks(k, b, id, p, c, y, s, x, w, q) /\ y <= w /\ w \in {y, v}
<1>1. /\ p \in Nat /\ p <= (id + 1) * Load /\ GNumber(k, b, p) \in Nat /\ GFrom(k) \in Nat /\ c \in Nat
      /\ c >= GFrom(k) /\ Iterate[c][GNumber(k, b, p)] = y /\ y \in Nat /\ v \in Nat
  BY WalkFacts
<1>2. PICK m \in Nat, f \in Nat : m = GNumber(k, b, p) /\ f = GFrom(k)
  BY <1>1
<1>3. w \in Nat /\ v <= w /\ y <= w
  BY <1>1
<1>4. Passed(k, b, id, p, w)
  BY <1>1, <1>3, PassedMore DEF Walks
<1>5. \A j \in f .. c : Iterate[j][m] <= w \/ Iterate[j][m] <= y
  <2> SUFFICES ASSUME NEW j \in f .. c
               PROVE  Iterate[j][m] <= w \/ Iterate[j][m] <= y
    OBVIOUS
  <2>1. PICK i1 \in Nat : i1 = Iterate[j][m]
    <3>1. j \in Nat
      BY <1>1, <1>2
    <3> QED
      BY <3>1, IterateDefined
  <2>2. i1 <= v \/ i1 <= y
    BY <1>2, <2>1 DEF Walks
  <2> QED
    BY <1>1, <1>3, <2>1, <2>2
<1>6. \/ Named(k, b, id, p, w, q)
      \/ q = m /\ \E j \in f .. c : w = Iterate[j][m]
  <2>1. c \in f .. c
    BY <1>1, <1>2
  <2>2. CASE y > v
    BY <1>1, <1>2, <2>1, <2>2
  <2>3. CASE ~(y > v)
    BY <1>2, <2>3 DEF Walks
  <2> QED
    BY <2>2, <2>3
<1> QED
  BY <1>1, <1>2, <1>3, <1>4, <1>5, <1>6 DEF Walks

\* Even steps, some or all: the number goes on, or the next one is to come.
LEMMA WalkFall ==
  ASSUME Job, NEW k \in Built, NEW b, b = Base, NEW id \in Ids, NEW p, NEW c, NEW y, NEW s,
         NEW x \in Nat, NEW v, NEW o, Walks(k, b, id, p, c, y, s, x, v, o), y <= v,
         NEW z \in Nat, NEW u \in Nat \ {0}, y = Pow2[z] * u
  PROVE  /\ u >= GNumber(k, b, p) => \E l \in Nat : Walks(k, b, id, p, l, u, s, x, v, o)
         /\ u < GNumber(k, b, p) => Between(k, b, id, p + 1, s, x, v, o)
<1>1. /\ p \in 0 .. All - 1 /\ GNumber(k, b, p) \in Nat /\ GFrom(k) \in Nat /\ c \in Nat
      /\ OddStepsIn(GNumber(k, b, p), c) \in Nat /\ c >= GFrom(k)
      /\ Iterate[c][GNumber(k, b, p)] = y /\ y \in Nat /\ v \in Nat
      /\ p + 1 <= (id + 1) * Load /\ id * Load <= p /\ id * Load \in Nat /\ (id + 1) * Load \in Nat
  BY WalkFacts
<1>2. PICK m \in Nat, f \in Nat, e \in Nat : m = GNumber(k, b, p) /\ f = GFrom(k)
                                             /\ e = OddStepsIn(m, c)
  BY <1>1
<1>3. \A j \in f .. c : Iterate[j][m] <= v
  <2> SUFFICES ASSUME NEW j \in f .. c
               PROVE  Iterate[j][m] <= v
    OBVIOUS
  <2>1. PICK i1 \in Nat : i1 = Iterate[j][m]
    <3>1. j \in Nat
      BY <1>1, <1>2
    <3> QED
      BY <3>1, IterateDefined
  <2>2. i1 <= v \/ i1 <= y
    BY <1>2, <2>1 DEF Walks
  <2> QED
    BY <1>1, <2>1, <2>2
<1>4. ASSUME u >= m
      PROVE  \E l \in Nat : Walks(k, b, id, p, l, u, s, x, v, o)
  <2>1. PICK l \in Nat : /\ l >= c /\ Comes(m, l, u) /\ OddStepsIn(m, l) = e
                         /\ \A j \in c .. l : Iterate[j][m] <= y
    <3>1. c \in Nat /\ y \in Nat /\ Comes(m, c, y)
      BY <1>1, <1>2 DEF Walks
    <3>2. \E l \in Nat : /\ l >= c /\ Comes(m, l, u) /\ OddStepsIn(m, l) = OddStepsIn(m, c)
                         /\ \A j \in c .. l : Iterate[j][m] <= y
      BY <3>1, <1>4, ComesHalves, Zenon
    <3> QED
      BY <1>2, <3>2, Zenon
  <2>2. \A j \in f .. l : Iterate[j][m] <= v
    <3> SUFFICES ASSUME NEW j \in f .. l
                 PROVE  Iterate[j][m] <= v
      OBVIOUS
    <3>1. j \in f .. c \/ j \in c .. l
      BY <1>1
    <3>2. PICK i1 \in Nat : i1 = Iterate[j][m]
      <4>1. j \in Nat
        BY <1>1, <1>2
      <4> QED
        BY <4>1, IterateDefined
    <3> QED
      BY <1>1, <1>3, <2>1, <3>1, <3>2
  <2>3. \A j \in f .. c : j \in f .. l
    BY <1>1, <2>1
  <2>4. \/ Named(k, b, id, p, v, o)
        \/ o = m /\ \E j \in f .. l : v = Iterate[j][m]
    BY <1>2, <2>3 DEF Walks
  <2>5. l >= f
    BY <1>1, <1>2, <2>1
  <2> QED
    BY <1>2, <2>1, <2>2, <2>4, <2>5 DEF Walks
<1>5. ASSUME u < m
      PROVE  Between(k, b, id, p + 1, s, x, v, o)
  <2>1. PICK d \in Nat : /\ d > c /\ Descends(m, d) /\ OddStepsIn(m, d) = e
                         /\ \A j \in c .. d - 1 : Iterate[j][m] <= y
    <3>1. c \in Nat /\ y \in Nat /\ Comes(m, c, y)
      BY <1>1, <1>2 DEF Walks
    <3>2. \E d \in Nat : /\ d > c /\ Descends(m, d) /\ OddStepsIn(m, d) = OddStepsIn(m, c)
                         /\ \A j \in c .. d - 1 : Iterate[j][m] <= y
      BY <3>1, <1>5, ComesHalves, Zenon
    <3> QED
      BY <1>2, <3>2, Zenon
  <2>2. f < d
    BY <1>1, <1>2, <2>1
  <2>3. /\ PeakFrom(m, f) \in Nat
        /\ \A j \in f .. d - 1 : Iterate[j][m] <= PeakFrom(m, f)
        /\ \E j \in f .. d - 1 : PeakFrom(m, f) = Iterate[j][m]
    BY <2>1, <2>2, PeakOfTested
  <2>4. PeakFrom(m, f) <= v
    <3>1. PICK j \in f .. d - 1 : PeakFrom(m, f) = Iterate[j][m]
      BY <2>3
    <3>2. j \in f .. c \/ j \in c .. d - 1
      BY <1>1, <2>1
    <3> QED
      BY <1>1, <1>3, <2>1, <2>3, <3>1, <3>2
  <2>5. id * Load .. (p + 1) - 1 = (id * Load .. p - 1) \cup {p}
    BY <1>1
  <2>6. Passed(k, b, id, p + 1, v)
    BY <1>2, <2>1, <2>2, <2>4, <2>5 DEF Walks, Passed
  <2>7. Named(k, b, id, p + 1, v, o)
    <3>1. CASE Named(k, b, id, p, v, o)
      BY <2>5, <3>1 DEF Named
    <3>2. CASE o = m /\ \E j \in f .. c : v = Iterate[j][m]
      <4>1. \A j \in f .. c : j \in f .. d - 1
        BY <1>1, <2>1
      <4>2. v <= PeakFrom(m, f)
        BY <2>3, <3>2, <4>1
      <4>3. p \in id * Load .. (p + 1) - 1 /\ GKept(k, m)
        BY <1>2, <2>5 DEF Walks
      <4> QED
        BY <1>2, <3>2, <4>2, <4>3 DEF Named
    <3> QED
      BY <1>2, <3>1, <3>2 DEF Walks
  <2>8. Ledger(k, b, id, p + 1, s, x)
    <3>1. PICK w \in Nat : /\ GTotal(k, b, p) = GTotal(k, b, id * Load) + w
                           /\ s = Checksum(w + (e + x))
      BY <1>2 DEF Walks, Ledger
    <3>2. GTotal(k, b, p + 1) = GTotal(k, b, p) + Share(m)
      BY <1>1, <1>2, GTotalNext DEF Walks
    <3>3. Share(m) = e
      BY <2>1, ShareType
    <3>4. GTotal(k, b, id * Load) \in Nat
      <4>1. id * Load \in 0 .. All
        BY <1>1, GpuConstants
      <4> QED
        BY <4>1, GTotalNext
    <3>5. /\ w + e \in Nat /\ w + (e + x) = (w + e) + x
          /\ GTotal(k, b, p + 1) = GTotal(k, b, id * Load) + (w + e)
      BY <3>1, <3>2, <3>3, <3>4
    <3> QED
      BY <3>1, <3>5 DEF Ledger
  <2> QED
    BY <1>1, <2>6, <2>7, <2>8 DEF Between
<1> QED
  BY <1>2, <1>4, <1>5

-----------------------------------------------------------------------------
(* A work item.                                                              *)

GPcs == {"for", "round", "barrier", "precalc_rise", "precalc_fall", "calc", "rise", "end"}

Items == [pc : GPcs, n0 : Nat, n : 0 .. UMax(Width), N0 : Nat, L : 0 .. UMax(Half),
          R : 0 .. ClassLog, Salpha : Nat, h : Nat, barriers : Nat,
          sum : 0 .. UMax(SumBits), max : 0 .. UMax(Width), max0 : Int]

\* It has dealt with the numbers before p.
Books(k, b, id, p, x, r) == Between(k, b, id, p, r.sum, x, r.max, r.max0)

\* It checks the p-th number, which has come to y.
Test(k, b, id, p, y, x, r) ==
  /\ r.N0 = GNumber(k, b, p) /\ y + 1 <= UMax(Width)
  /\ \E c \in Nat : Walks(k, b, id, p, c, y, r.sum, x, r.max, r.max0)

\* kernel32, at its p-th number.
GPlain(k, b, id, p, r) ==
  /\ r.n0 = b + (3 + 4 * p)
  /\ \/ r.pc = "for" /\ Books(k, b, id, p, 0, r)
     \/ r.pc = "round" /\ Test(k, b, id, p, r.n, 0, r)

\* The odd steps of a class that are counted and not yet anyone's.
GAhead(k, r) == IF k.mod = 1 THEN r.Salpha * (GShares - r.h) ELSE 0

\* The class itself, some steps on.
ClassAt(r, v) == /\ Iterate[ClassLog - r.R][r.n0] = v
                 /\ r.Salpha = OddStepsIn(r.n0, ClassLog - r.R)

\* kernel32-precalc, at the a-th class.
GClass(k, b, id, a, r) ==
  /\ r.n0 = 3 + 4 * a /\ id * ClassLoad <= a /\ a <= (id + 1) * ClassLoad
  /\ \/ r.pc = "for" /\ Books(k, b, id, a * GShares, 0, r)
     \/ /\ a < (id + 1) * ClassLoad /\ ClassLive(r.n0)
        /\ \/ r.pc = "barrier" /\ Books(k, b, id, a * GShares, 0, r)
           \/ /\ r.pc = "precalc_rise" /\ r.h = 0 /\ r.L > 0 /\ ClassAt(r, r.L - 1)
              /\ Books(k, b, id, a * GShares, 0, r)
           \/ /\ r.pc = "precalc_fall" /\ r.h = 0 /\ ClassAt(r, r.L)
              /\ Books(k, b, id, a * GShares, 0, r)
           \/ /\ r.pc = "calc" /\ r.R = 0 /\ ClassAt(r, r.L) /\ r.h <= GShares
              /\ Books(k, b, id, (a * GShares) + r.h, GAhead(k, r), r)
           \/ /\ r.pc = "rise" /\ r.R = 0 /\ ClassAt(r, r.L) /\ r.h >= 1 /\ r.h <= GShares
              /\ r.n > 0
              /\ Test(k, b, id, (a * GShares) + (r.h - 1), r.n - 1, GAhead(k, r), r)

\* It has come to the end of its share; it has given up.
GDone(k, b, id, r)  == r.pc = "end" /\ Books(k, b, id, (id + 1) * Load, 0, r)
GaveItUp(r)         == r.pc = "end" /\ r.sum = 0

\* What is true of an item between two of its steps.
ItemInv(k, b, id, r) ==
  /\ r \in Items
  /\ \/ GDone(k, b, id, r)
     \/ GaveItUp(r)
     \/ ~k.precalc /\ \E p \in Nat : GPlain(k, b, id, p, r)
     \/ k.precalc /\ \E a \in Nat : GClass(k, b, id, a, r)

\* The kernel of the task, and an item as it should be.
GJob(id) == /\ Job /\ gtask = task /\ kernel \in Built /\ id \in Ids
            /\ item \in [Ids -> Items] /\ ItemInv(kernel, Base, id, item[id])

\* It moves, and is still as it should be.
GMoves(id) == \E q : Go(id, q) /\ ItemInv(kernel, Base, id, q)

\* An overflow leaves the mark of one.
LEMMA OverflowMoves ==
  ASSUME NEW id, GJob(id), Overflow(id)
  PROVE  GMoves(id)
<1>1. PICK r : r = item[id] /\ r \in Items
  BY DEF GJob
<1>2. PICK q : q = [r EXCEPT !.pc = "end", !.sum = 0]
  OBVIOUS
<1>3. 0 \in 0 .. UMax(SumBits) /\ "end" \in GPcs
  BY GpuConstants DEF GPcs
<1>4. q \in Items /\ q.pc = "end" /\ q.sum = 0
  BY <1>1, <1>2, <1>3 DEF Items
<1>5. Go(id, q)
  BY <1>1, <1>2 DEF Overflow
<1> QED
  BY <1>4, <1>5 DEF GMoves, ItemInv, GaveItUp

\* A number y, with a factors of two above it, that climbs to z.
Climb(a, u, y, z) == /\ a \in Nat /\ u \in Nat \ {0}
                     /\ y = (Pow2[a] * u) - 1 /\ z = (u * Pow3[a]) - 1

\* The odd steps of a round.
LEMMA WalkClimbs ==
  ASSUME Job, NEW k \in Built, NEW b, b = Base, NEW id \in Ids, NEW p, NEW c, NEW y, NEW s,
         NEW x \in Nat, NEW v, NEW o, Walks(k, b, id, p, c, y, s, x, v, o),
         NEW a, NEW u, NEW z, Climb(a, u, y, z)
  PROVE  Walks(k, b, id, p, c + a, z, Checksum(s + a), x, v, o) /\ y <= z
<1>1. a \in Nat /\ u \in Nat \ {0} /\ y = (Pow2[a] * u) - 1 /\ z = (u * Pow3[a]) - 1
  BY DEF Climb
<1> QED
  BY <1>1, WalkRise

\* The maximum v, said to be o's, and what becomes of it at y, of the number m;
\* y has z factors of two.
Noted(y, v, o, m, w, q) == /\ w = IF y > v THEN y ELSE v
                           /\ q = IF y > v THEN m ELSE o
Evens(y, z, u)          == z \in Nat /\ u \in Nat \ {0} /\ y = Pow2[z] * u

\* The maximum is noted and the even steps are done.
LEMMA Halved ==
  ASSUME Job, NEW k \in Built, NEW b, b = Base, NEW id \in Ids, NEW p, NEW c, NEW y, NEW s,
         NEW x \in Nat, NEW v, NEW o, Walks(k, b, id, p, c, y, s, x, v, o),
         NEW w, NEW q, Noted(y, v, o, GNumber(k, b, p), w, q),
         NEW z, NEW u, Evens(y, z, u)
  PROVE  /\ u >= GNumber(k, b, p) => \E l \in Nat : Walks(k, b, id, p, l, u, s, x, w, q)
         /\ u < GNumber(k, b, p) => Between(k, b, id, p + 1, s, x, w, q)
<1> USE DEF Noted, Evens
<1>1. Walks(k, b, id, p, c, y, s, x, w, q) /\ y <= w
  BY WalkNote
<1>2. ASSUME u >= GNumber(k, b, p)
      PROVE  \E l \in Nat : Walks(k, b, id, p, l, u, s, x, w, q)
  BY <1>1, <1>2, WalkFall
<1>3. ASSUME u < GNumber(k, b, p)
      PROVE  Between(k, b, id, p + 1, s, x, w, q)
  BY <1>1, <1>3, WalkFall
<1> QED
  BY <1>2, <1>3

\* What Halve makes of an item.
HalvedItem(s, y, again, q) ==
  /\ q \in Items /\ q.sum = s.sum /\ q.N0 = s.N0 /\ q.L = s.L /\ q.R = s.R
  /\ q.Salpha = s.Salpha /\ q.h = s.h
  /\ q.max = (IF y > s.max THEN y ELSE s.max)
  /\ q.max0 = (IF y > s.max THEN s.N0 ELSE s.max0)
  /\ \E z \in Nat, u \in Nat \ {0} :
       /\ y = Pow2[z] * u /\ u <= y
       /\ \/ u >= s.N0 /\ q.pc = again /\ q.n = u /\ q.n0 = s.n0
          \/ u < s.N0 /\ kernel.precalc /\ q.pc = "calc" /\ q.n0 = s.n0
          \/ u < s.N0 /\ ~kernel.precalc /\ q.pc = "for" /\ q.n0 = s.n0 + 4

\* Halve does make that of it.
LEMMA HalveFields ==
  ASSUME NEW s \in Items, NEW y \in 0 .. UMax(Width), y > 0, NEW again \in {"round", "rise"},
         kernel \in Built
  PROVE  HalvedItem(s, y, again, Halve(s, y, again))
<1> DEFINE t == IF y > s.max THEN [s EXCEPT !.max = y, !.max0 = s.N0] ELSE s
           m == IF kernel.precalc THEN OddPart(y) ELSE y \div Pow2[Ctz(y, Quarter)]
<1>1. UMax(Width) \in Nat /\ Quarter \in Nat \ {0} /\ y \in Nat \ {0} /\ kernel.precalc \in BOOLEAN
  BY GpuConstants DEF Built, Kernel
<1>2. PICK z \in Nat : y = Pow2[z] * m /\ m \in Nat \ {0}
  <2>1. CASE kernel.precalc
    BY <1>1, <2>1, OddPartValue
  <2>2. CASE ~kernel.precalc
    <3>1. Ctz(y, Quarter) \in 0 .. Quarter /\ y % Pow2[Ctz(y, Quarter)] = 0
      BY <1>1, CtzValue
    <3>2. PICK z \in Nat : z = Ctz(y, Quarter) /\ z \in 0 .. z
      BY <1>1, <3>1
    <3>3. y = Pow2[z] * (y \div Pow2[z]) /\ y \div Pow2[z] \in Nat /\ y \div Pow2[z] # 0
      BY <1>1, <3>1, <3>2, LowerFactor
    <3> QED
      BY <2>2, <3>2, <3>3
  <2> QED
    BY <1>1, <2>1, <2>2
<1>3. PICK u : u = m
  OBVIOUS
<1>4. u <= y
  <2>1. Pow2[z] \in Nat \ {0}
    BY PowerBounds
  <2>2. 1 * u <= Pow2[z] * u /\ 1 * u = u
    BY <1>2, <1>3, <2>1, ProductOrder
  <2> QED
    BY <1>2, <1>3, <2>2
<1>5. /\ t \in Items /\ t.sum = s.sum /\ t.N0 = s.N0 /\ t.L = s.L /\ t.R = s.R /\ t.n0 = s.n0
      /\ t.Salpha = s.Salpha /\ t.h = s.h
      /\ t.max = (IF y > s.max THEN y ELSE s.max)
      /\ t.max0 = (IF y > s.max THEN s.N0 ELSE s.max0)
  <2>1. CASE y > s.max
    <3>1. PICK f, g : f = [s EXCEPT !.max = y] /\ g = [f EXCEPT !.max0 = s.N0]
      OBVIOUS
    <3>2. t = g
      BY <2>1, <3>1
    <3>3. s.N0 \in Int
      BY DEF Items
    <3>4. /\ f \in Items /\ f.sum = s.sum /\ f.N0 = s.N0 /\ f.L = s.L /\ f.R = s.R /\ f.n0 = s.n0
          /\ f.Salpha = s.Salpha /\ f.h = s.h /\ f.max = y
      BY <3>1 DEF Items
    <3>5. /\ g \in Items /\ g.sum = f.sum /\ g.N0 = f.N0 /\ g.L = f.L /\ g.R = f.R /\ g.n0 = f.n0
          /\ g.Salpha = f.Salpha /\ g.h = f.h /\ g.max = f.max /\ g.max0 = s.N0
      <4>1. PICK e : e = s.N0
        OBVIOUS
      <4>2. g = [f EXCEPT !.max0 = e] /\ e \in Int
        BY <3>1, <3>3, <4>1
      <4>3. /\ g \in Items /\ g.sum = f.sum /\ g.N0 = f.N0 /\ g.L = f.L /\ g.R = f.R /\ g.n0 = f.n0
            /\ g.Salpha = f.Salpha /\ g.h = f.h /\ g.max = f.max /\ g.max0 = e
        BY <3>4, <4>2 DEF Items
      <4> QED
        BY <4>1, <4>3
    <3> QED
      BY <2>1, <3>2, <3>4, <3>5
  <2>2. CASE ~(y > s.max)
    BY <2>2
  <2> QED
    BY <2>1, <2>2
<1>6. PICK q : q = Halve(s, y, again)
  OBVIOUS
<1>7. q = IF u >= s.N0 THEN [t EXCEPT !.pc = again, !.n = u]
          ELSE IF kernel.precalc THEN [t EXCEPT !.pc = "calc", !.n = 0]
          ELSE [t EXCEPT !.pc = "for", !.n0 = @ + 4, !.n = 0]
  BY <1>3, <1>6 DEF Halve
<1> HIDE DEF t, m
<1>8. /\ u \in 0 .. UMax(Width) /\ 0 \in 0 .. UMax(Width) /\ again \in GPcs /\ "calc" \in GPcs
      /\ "for" \in GPcs /\ s.n0 + 4 \in Nat /\ s.N0 \in Nat /\ u \in Nat
  BY <1>1, <1>2, <1>3, <1>4 DEF GPcs, Items
<1>9. CASE u >= s.N0
  <2>1. q = [t EXCEPT !.pc = again, !.n = u]
    BY <1>7, <1>9
  <2>2. /\ q \in Items /\ q.sum = t.sum /\ q.N0 = t.N0 /\ q.L = t.L /\ q.R = t.R /\ q.n0 = t.n0
        /\ q.Salpha = t.Salpha /\ q.h = t.h /\ q.max = t.max /\ q.max0 = t.max0
        /\ q.pc = again /\ q.n = u
    BY <1>5, <1>8, <2>1 DEF Items
  <2> QED
    BY <1>2, <1>3, <1>4, <1>5, <1>6, <1>9, <2>2 DEF HalvedItem
<1>10. CASE ~(u >= s.N0) /\ kernel.precalc
  <2>1. q = [t EXCEPT !.pc = "calc", !.n = 0]
    BY <1>7, <1>10
  <2>2. /\ q \in Items /\ q.sum = t.sum /\ q.N0 = t.N0 /\ q.L = t.L /\ q.R = t.R /\ q.n0 = t.n0
        /\ q.Salpha = t.Salpha /\ q.h = t.h /\ q.max = t.max /\ q.max0 = t.max0
        /\ q.pc = "calc"
    BY <1>5, <1>8, <2>1 DEF Items
  <2>3. u < s.N0
    BY <1>8, <1>10
  <2> QED
    BY <1>2, <1>3, <1>4, <1>5, <1>6, <1>10, <2>2, <2>3 DEF HalvedItem
<1>11. CASE ~(u >= s.N0) /\ ~kernel.precalc
  <2>1. q = [t EXCEPT !.pc = "for", !.n0 = @ + 4, !.n = 0]
    BY <1>7, <1>11
  <2>2. t.n0 + 4 = s.n0 + 4
    BY <1>5
  <2>3. /\ q \in Items /\ q.sum = t.sum /\ q.N0 = t.N0 /\ q.L = t.L /\ q.R = t.R
        /\ q.Salpha = t.Salpha /\ q.h = t.h /\ q.max = t.max /\ q.max0 = t.max0
        /\ q.pc = "for" /\ q.n0 = s.n0 + 4
    BY <1>5, <1>8, <2>1, <2>2 DEF Items
  <2>4. u < s.N0
    BY <1>8, <1>11
  <2> QED
    BY <1>2, <1>3, <1>4, <1>5, <1>6, <1>11, <2>3, <2>4 DEF HalvedItem
<1> QED
  BY <1>1, <1>9, <1>10, <1>11

\* The sieve of the build that runs.
LEMMA SieveOfBuild ==
  ASSUME kernel \in Built
  PROVE  /\ kernel.precalc \in BOOLEAN
         /\ kernel.precalc => /\ Precalculates /\ SieveLog = ClassLog
                              /\ Pow2[ClassLog] <= UMax(Half)
         /\ ~kernel.precalc => SieveLog = MapLog[FALSE]
<1>1. kernel.precalc \in BOOLEAN /\ (kernel.precalc => Precalculates)
  BY DEF Built, Kernel
<1>2. CASE kernel.precalc
  <2>1. Precalculates /\ ClassLog = MapLog[TRUE] /\ Pow2[ClassLog] <= UMax(Half)
    BY <1>1, <1>2, GpuConstants
  <2>2. kernel.precalc = TRUE
    BY <1>1, <1>2
  <2> QED
    BY <1>1, <1>2, <2>1, <2>2 DEF SieveLog
<1>3. CASE ~kernel.precalc
  <2>1. kernel.precalc = FALSE
    BY <1>1, <1>3
  <2> QED
    BY <1>1, <1>3, <2>1 DEF SieveLog
<1> QED
  BY <1>2, <1>3

\* Where an item's share begins and ends.
LEMMA ShareEnds ==
  ASSUME Job, gtask = task, kernel \in Built, NEW id \in Ids
  PROVE  /\ ~kernel.precalc => /\ Supremum(id) = Base + (3 + 4 * ((id + 1) * Load))
                               /\ FirstItem(id).n0 = Base + (3 + 4 * (id * Load))
         /\ kernel.precalc => /\ Supremum(id) = 3 + 4 * ((id + 1) * ClassLoad)
                              /\ FirstItem(id).n0 = 3 + 4 * (id * ClassLoad)
         /\ GBase = Base
<1>1. /\ id \in Nat /\ Load \in Nat /\ ClassLoad \in Nat /\ id + 1 \in Nat
      /\ (id + 1) * Load \in Nat /\ (id + 1) * ClassLoad \in Nat
      /\ id * Load \in Nat /\ id * ClassLoad \in Nat
      /\ Pow2[TASK_SIZE - TaskUnits] = 4 * Load
      /\ Pow2[ClassLog - TaskUnits] = 4 * ClassLoad
  BY ShareBounds, GpuConstants
<1>2. ASSUME NEW x \in Nat
      PROVE  id * (4 * x) = 4 * (id * x) /\ (id + 1) * (4 * x) = 4 * ((id + 1) * x)
  <2>1. PICK e \in Nat : e = id + 1
    BY <1>1
  <2>2. 4 \in Nat
    OBVIOUS
  <2>3. id * (4 * x) = 4 * (id * x) /\ e * (4 * x) = 4 * (e * x)
    BY <1>1, <2>2, ProductLaws
  <2> QED
    BY <2>1, <2>3
<1>3. GBase = Base /\ Base \in Nat
  BY JobKinds DEF GBase, Base
<1>4. FirstItem(id).n0 = Lowest + id * Pow2[ShareLog] + 3
  BY DEF FirstItem
<1>5. CASE ~kernel.precalc
  <2>1. Lowest = Base /\ Pow2[ShareLog] = 4 * Load
    BY <1>1, <1>3, <1>5 DEF Lowest, ShareLog
  <2>2. /\ id * Pow2[ShareLog] = 4 * (id * Load)
        /\ (id + 1) * Pow2[ShareLog] = 4 * ((id + 1) * Load)
    BY <1>1, <1>2, <2>1
  <2>3. PICK x \in Nat, y \in Nat : x = id * Load /\ y = (id + 1) * Load
    BY <1>1
  <2>4. /\ (Base + 4 * y) + 3 = Base + (3 + 4 * y)
        /\ (Base + 4 * x) + 3 = Base + (3 + 4 * x)
    BY <1>3
  <2> QED
    BY <1>3, <1>4, <1>5, <2>1, <2>2, <2>3, <2>4 DEF Supremum
<1>6. CASE kernel.precalc
  <2>1. Lowest = 0 /\ Pow2[ShareLog] = 4 * ClassLoad
    BY <1>1, <1>6, SieveOfBuild DEF Lowest, ShareLog
  <2>2. /\ id * Pow2[ShareLog] = 4 * (id * ClassLoad)
        /\ (id + 1) * Pow2[ShareLog] = 4 * ((id + 1) * ClassLoad)
    BY <1>1, <1>2, <2>1
  <2>3. PICK x \in Nat, y \in Nat : x = id * ClassLoad /\ y = (id + 1) * ClassLoad
    BY <1>1
  <2>4. (0 + 4 * y) + 3 = 3 + 4 * y /\ (0 + 4 * x) + 3 = 3 + 4 * x
    OBVIOUS
  <2> QED
    BY <1>3, <1>4, <1>6, <2>1, <2>2, <2>3, <2>4 DEF Supremum
<1>7. kernel.precalc \in BOOLEAN
  BY DEF Built, Kernel
<1> QED
  BY <1>3, <1>5, <1>6, <1>7

\* The members of a class, among an item's numbers.
LEMMA ClassPlaces ==
  ASSUME NEW id \in Ids, NEW a \in Nat, id * ClassLoad <= a, a < (id + 1) * ClassLoad
  PROVE  /\ a \in 0 .. Classes - 1 /\ a + 1 <= (id + 1) * ClassLoad /\ id * ClassLoad <= a + 1
         /\ 3 + 4 * a \in 0 .. Pow2[ClassLog] - 1
         /\ a * GShares \in Nat /\ id * Load <= a * GShares
         /\ (a + 1) * GShares = (a * GShares) + GShares
         /\ (a * GShares) + GShares <= (id + 1) * Load /\ (id + 1) * Load \in Nat
         /\ GShares \in Nat \ {0}
<1>1. /\ (id + 1) * ClassLoad <= Classes /\ Classes \in Nat /\ Pow2[ClassLog] = 4 * Classes
      /\ (id * ClassLoad) * GShares = id * Load /\ id * ClassLoad \in Nat
      /\ (id + 1) * ClassLoad \in Nat /\ (id + 1) * Load \in Nat
      /\ ((id + 1) * ClassLoad) * GShares = (id + 1) * Load
      /\ GShares \in Nat \ {0}
  BY ShareBounds, GpuConstants
<1>2. PICK x \in Nat, y \in Nat, e \in Nat :
        x = id * ClassLoad /\ y = (id + 1) * ClassLoad /\ e = a + 1
  BY <1>1
<1>3. x <= a /\ e <= y
  BY <1>2
<1>4. /\ x * GShares <= a * GShares /\ e * GShares <= y * GShares /\ a * GShares \in Nat
  BY <1>1, <1>3, ProductOrder, ProductLaws
<1>5. e * GShares = (a * GShares) + GShares
  <2>1. GShares * (a + 1) = (GShares * a) + (GShares * 1)
    BY <1>1, ProductLaws
  <2>2. GShares * e = e * GShares /\ GShares * a = a * GShares
    BY <1>1, ProductLaws
  <2> QED
    BY <1>1, <1>2, <2>1, <2>2
<1>6. a \in 0 .. Classes - 1 /\ e <= y /\ x <= e /\ 3 + 4 * a \in 0 .. Pow2[ClassLog] - 1
  BY <1>1, <1>2
<1> QED
  BY <1>1, <1>2, <1>4, <1>5, <1>6

\* A number is where its test begins.
LEMMA TestBeginsPlain ==
  ASSUME Job, NEW k \in Built, ~k.precalc, NEW b, b = Base, NEW id \in Ids, NEW p, NEW s,
         NEW v, NEW o, Between(k, b, id, p, s, 0, v, o), p < (id + 1) * Load,
         GKept(k, GNumber(k, b, p))
  PROVE  Walks(k, b, id, p, 0, GNumber(k, b, p), s, 0, v, o)
<1>1. p \in 0 .. All - 1 /\ All \in Nat
  <2>1. id * Load \in Nat /\ (id + 1) * Load \in Nat /\ (id + 1) * Load <= All /\ All \in Nat
    BY ShareBounds, GpuConstants
  <2> QED
    BY <2>1 DEF Between
<1>2. PICK m \in Nat : m = GNumber(k, b, p)
  BY <1>1, GNumberFacts
<1>3. GFrom(k) = 0
  BY DEF GFrom
<1>4. Comes(m, 0, m)
  <2>1. Iterate[0][m] = m /\ \A j \in 0 .. 0 : j = 0
    BY IterateDefined
  <2> QED
    BY <2>1 DEF Comes
<1>5. OddStepsIn(m, 0) + 0 = 0
  BY OddStepsNext
<1>6. Ledger(k, b, id, p, s, OddStepsIn(m, GFrom(k)) + 0)
  BY <1>3, <1>5 DEF Between
<1> QED
  BY <1>2, <1>3, <1>4, <1>6, WalkBegin

\* The loop, in kernel32.
LEMMA ForLivePlain ==
  ASSUME NEW id, GJob(id), ForLive(id), ~kernel.precalc
  PROVE  GMoves(id)
<1>1. PICK r : r = item[id] /\ r \in Items /\ r.pc = "for"
  BY DEF GJob, ForLive
<1>2. PICK k, b : k = kernel /\ b = Base
  OBVIOUS
<1>3. Job /\ gtask = task /\ k \in Built /\ id \in Ids /\ ~k.precalc /\ kernel \in Built
  BY <1>2 DEF GJob
<1>4. PICK p \in Nat : r.n0 = b + (3 + 4 * p) /\ Books(k, b, id, p, 0, r)
  <2>1. ItemInv(k, b, id, r)
    BY <1>1, <1>2 DEF GJob
  <2> QED
    BY <1>1, <1>3, <2>1 DEF ItemInv, GDone, GaveItUp, GPlain
<1>5. /\ Base \in Nat /\ (id + 1) * Load \in Nat /\ id * Load <= p /\ p <= (id + 1) * Load
      /\ (id + 1) * Load <= All /\ All \in Nat /\ id * Load \in Nat
      /\ Between(k, b, id, p, r.sum, 0, r.max, r.max0)
  BY <1>3, <1>4, ShareBounds, GpuConstants, JobKinds DEF Books, Between
<1>6. Supremum(id) = b + (3 + 4 * ((id + 1) * Load))
  BY <1>2, <1>3, ShareEnds
<1>7. GNumber(k, b, p) = r.n0
  BY <1>3, <1>4 DEF GNumber
<1>8. r.n0 >= Supremum(id) <=> p = (id + 1) * Load
  <2>1. PICK y \in Nat : y = (id + 1) * Load
    BY <1>5
  <2>2. r.n0 >= b + (3 + 4 * y) <=> p = y
    BY <1>2, <1>4, <1>5, <2>1
  <2> QED
    BY <1>6, <2>1, <2>2
<1>9. PICK q : /\ Go(id, q)
               /\ q = IF r.n0 >= Supremum(id) THEN [r EXCEPT !.pc = "end"]
                      ELSE IF ~GKept(k, r.n0) THEN [r EXCEPT !.n0 = @ + 4]
                      ELSE [r EXCEPT !.pc = "round", !.n = r.n0, !.N0 = r.n0]
  <2>1. SieveLog = MapLog[FALSE]
    BY <1>2, <1>3, SieveOfBuild
  <2> QED
    BY <1>1, <1>2, <1>3, <2>1, Zenon DEF ForLive, GKept
<1>10. "end" \in GPcs /\ "round" \in GPcs /\ r.n0 \in Nat /\ r.n0 + 4 \in Nat
  BY <1>1 DEF Items, GPcs
<1>11. ItemInv(k, b, id, q)
  <2>1. CASE r.n0 >= Supremum(id)
    <3>1. q = [r EXCEPT !.pc = "end"]
      BY <1>9, <2>1
    <3>2. q \in Items /\ q.pc = "end" /\ q.sum = r.sum /\ q.max = r.max /\ q.max0 = r.max0
      BY <1>1, <1>10, <3>1 DEF Items
    <3>3. GDone(k, b, id, q)
      BY <1>5, <1>8, <2>1, <3>2 DEF GDone, Books
    <3> QED
      BY <3>2, <3>3 DEF ItemInv
  <2>2. CASE ~(r.n0 >= Supremum(id)) /\ ~GKept(k, r.n0)
    <3>1. q = [r EXCEPT !.n0 = @ + 4]
      BY <1>9, <2>2
    <3>2. /\ q \in Items /\ q.pc = "for" /\ q.sum = r.sum /\ q.max = r.max /\ q.max0 = r.max0
          /\ q.n0 = r.n0 + 4
      BY <1>1, <1>10, <3>1 DEF Items
    <3>3. p < (id + 1) * Load
      BY <1>5, <1>8, <2>2
    <3>4. Between(k, b, id, p + 1, r.sum, 0, r.max, r.max0)
      BY <1>2, <1>3, <1>5, <1>7, <2>2, <3>3, BetweenSkip
    <3>5. r.n0 + 4 = b + (3 + 4 * (p + 1)) /\ p + 1 \in Nat
      BY <1>2, <1>4, <1>5
    <3>6. GPlain(k, b, id, p + 1, q)
      BY <3>2, <3>4, <3>5 DEF GPlain, Books
    <3> QED
      BY <1>3, <3>2, <3>5, <3>6 DEF ItemInv
  <2>3. CASE ~(r.n0 >= Supremum(id)) /\ GKept(k, r.n0)
    <3>1. q = [r EXCEPT !.pc = "round", !.n = r.n0, !.N0 = r.n0]
      BY <1>9, <2>3
    <3>2. p < (id + 1) * Load /\ p \in 0 .. All - 1
      BY <1>5, <1>8, <2>3
    <3>3. r.n0 + 1 <= UMax(Width) /\ r.n0 \in 0 .. UMax(Width)
      BY <1>2, <1>3, <1>7, <1>10, <3>2, GNumberFacts, GpuConstants
    <3>4. /\ q \in Items /\ q.pc = "round" /\ q.sum = r.sum /\ q.max = r.max /\ q.max0 = r.max0
          /\ q.n0 = r.n0 /\ q.n = r.n0 /\ q.N0 = r.n0
      <4>1. PICK e : e = r.n0
        OBVIOUS
      <4>2. q = [r EXCEPT !.pc = "round", !.n = e, !.N0 = e] /\ e \in 0 .. UMax(Width) /\ e \in Nat
        BY <1>10, <3>1, <3>3, <4>1
      <4>3. PICK f, g : f = [r EXCEPT !.pc = "round"] /\ g = [f EXCEPT !.n = e]
        OBVIOUS
      <4>4. q = [g EXCEPT !.N0 = e]
        BY <4>2, <4>3
      <4>5. f \in Items /\ f.pc = "round" /\ f.sum = r.sum /\ f.max = r.max /\ f.max0 = r.max0
            /\ f.n0 = r.n0
        BY <1>1, <1>10, <4>3 DEF Items
      <4>6. g \in Items /\ g.pc = "round" /\ g.sum = r.sum /\ g.max = r.max /\ g.max0 = r.max0
            /\ g.n0 = r.n0 /\ g.n = e
        BY <4>2, <4>3, <4>5 DEF Items
      <4>7. q \in Items /\ q.pc = "round" /\ q.sum = r.sum /\ q.max = r.max /\ q.max0 = r.max0
            /\ q.n0 = r.n0 /\ q.n = e /\ q.N0 = e
        BY <4>2, <4>4, <4>6 DEF Items
      <4> QED
        BY <4>1, <4>7
    <3>5. Walks(k, b, id, p, 0, r.n0, r.sum, 0, r.max, r.max0)
      <4>1. GKept(k, GNumber(k, b, p))
        BY <1>7, <2>3
      <4>2. Walks(k, b, id, p, 0, GNumber(k, b, p), r.sum, 0, r.max, r.max0)
        BY <1>2, <1>3, <1>5, <3>2, <4>1, TestBeginsPlain
      <4> QED
        BY <1>7, <4>2
    <3>6. Test(k, b, id, p, q.n, 0, q)
      <4>1. 0 \in Nat
        OBVIOUS
      <4> QED
        BY <1>7, <3>3, <3>4, <3>5, <4>1 DEF Test
    <3>7. GPlain(k, b, id, p, q)
      BY <1>4, <3>4, <3>6 DEF GPlain
    <3> QED
      BY <1>3, <3>4, <3>7 DEF ItemInv
  <2> QED
    BY <2>1, <2>2, <2>3
<1> QED
  BY <1>2, <1>9, <1>11 DEF GMoves

\* The loop, in kernel32-precalc.
LEMMA ForLiveClass ==
  ASSUME NEW id, GJob(id), ForLive(id), kernel.precalc
  PROVE  GMoves(id)
<1>1. PICK r : r = item[id] /\ r \in Items /\ r.pc = "for"
  BY DEF GJob, ForLive
<1>2. PICK k, b : k = kernel /\ b = Base
  OBVIOUS
<1>3. Job /\ gtask = task /\ k \in Built /\ id \in Ids /\ k.precalc /\ kernel \in Built
  BY <1>2 DEF GJob
<1>4. PICK a \in Nat : /\ r.n0 = 3 + 4 * a /\ id * ClassLoad <= a /\ a <= (id + 1) * ClassLoad
                       /\ Books(k, b, id, a * GShares, 0, r)
  <2>1. ItemInv(k, b, id, r)
    BY <1>1, <1>2 DEF GJob
  <2> QED
    BY <1>1, <1>3, <2>1 DEF ItemInv, GDone, GaveItUp, GClass
<1>5. /\ (id + 1) * ClassLoad \in Nat
      /\ ((id + 1) * ClassLoad) * GShares = (id + 1) * Load
      /\ Between(k, b, id, a * GShares, r.sum, 0, r.max, r.max0)
  BY <1>3, <1>4, ShareBounds DEF Books
<1>6. Supremum(id) = 3 + 4 * ((id + 1) * ClassLoad)
  BY <1>2, <1>3, ShareEnds
<1>7. r.n0 >= Supremum(id) <=> a = (id + 1) * ClassLoad
  <2>1. PICK y \in Nat : y = (id + 1) * ClassLoad
    BY <1>5
  <2>2. r.n0 >= 3 + 4 * y <=> a = y
    BY <1>4, <2>1
  <2> QED
    BY <1>6, <2>1, <2>2
<1>8. PICK q : /\ Go(id, q)
               /\ q = IF r.n0 >= Supremum(id) THEN [r EXCEPT !.pc = "end"]
                      ELSE IF ~ClassLive(r.n0) THEN [r EXCEPT !.n0 = @ + 4]
                      ELSE [r EXCEPT !.pc = "barrier", !.barriers = @ + 1]
  <2>1. SieveLog = ClassLog
    BY <1>2, <1>3, SieveOfBuild
  <2> QED
    BY <1>1, <1>2, <1>3, <2>1, Zenon DEF ForLive, ClassLive
<1>9. "end" \in GPcs /\ "barrier" \in GPcs /\ r.n0 \in Nat /\ r.n0 + 4 \in Nat
      /\ r.barriers + 1 \in Nat
  BY <1>1 DEF Items, GPcs
<1>10. ItemInv(k, b, id, q)
  <2>1. CASE r.n0 >= Supremum(id)
    <3>1. q = [r EXCEPT !.pc = "end"]
      BY <1>8, <2>1
    <3>2. q \in Items /\ q.pc = "end" /\ q.sum = r.sum /\ q.max = r.max /\ q.max0 = r.max0
      BY <1>1, <1>9, <3>1 DEF Items
    <3>3. a * GShares = (id + 1) * Load
      BY <1>5, <1>7, <2>1
    <3>4. GDone(k, b, id, q)
      BY <1>5, <3>2, <3>3 DEF GDone, Books
    <3> QED
      BY <3>2, <3>4 DEF ItemInv
  <2>2. a < (id + 1) * ClassLoad \/ r.n0 >= Supremum(id)
    BY <1>4, <1>5, <1>7
  <2>3. CASE ~(r.n0 >= Supremum(id)) /\ ~ClassLive(r.n0)
    <3>1. q = [r EXCEPT !.n0 = @ + 4]
      BY <1>8, <2>3
    <3>2. /\ q \in Items /\ q.pc = "for" /\ q.sum = r.sum /\ q.max = r.max /\ q.max0 = r.max0
          /\ q.n0 = r.n0 + 4
      BY <1>1, <1>9, <3>1 DEF Items
    <3>3. a < (id + 1) * ClassLoad
      BY <2>2, <2>3
    <3>4. /\ a \in 0 .. Classes - 1 /\ a + 1 <= (id + 1) * ClassLoad /\ id * ClassLoad <= a + 1
          /\ a * GShares \in Nat /\ (a + 1) * GShares = (a * GShares) + GShares
          /\ (a * GShares) + GShares <= (id + 1) * Load /\ GShares \in Nat \ {0}
      BY <1>3, <1>4, <3>3, ClassPlaces
    <3>5. ASSUME NEW h \in 0 .. GShares - 1
          PROVE  ~GKept(k, GNumber(k, b, (a * GShares) + h))
      <4>1. PICK x \in 0 .. Pow2[ClassLog] - 1 :
              x = r.n0 /\ GNumber(k, b, (a * GShares) + h) = GMember(x, h)
        BY <1>2, <1>3, <1>4, <3>4, GNumberAt
      <4>2. ClassLive(GMember(x, h)) <=> ClassLive(x)
        BY <1>3, GMemberFacts
      <4>3. ~ClassLive(GNumber(k, b, (a * GShares) + h))
        BY <2>3, <4>1, <4>2, Zenon
      <4> QED
        BY <1>3, <4>3, Zenon DEF GKept
    <3>6. Between(k, b, id, (a + 1) * GShares, r.sum, 0, r.max, r.max0)
      <4>1. PICK p, e \in Nat : p = a * GShares /\ e = GShares
        BY <3>4
      <4>2. Between(k, b, id, p + e, r.sum, 0, r.max, r.max0)
        BY <1>2, <1>3, <1>5, <3>4, <3>5, <4>1, BetweenSkipMany
      <4> QED
        BY <3>4, <4>1, <4>2
    <3>7. r.n0 + 4 = 3 + 4 * (a + 1) /\ a + 1 \in Nat
      BY <1>4
    <3>8. GClass(k, b, id, a + 1, q)
      BY <3>2, <3>4, <3>6, <3>7 DEF GClass, Books
    <3> QED
      BY <1>3, <3>2, <3>7, <3>8 DEF ItemInv
  <2>4. CASE ~(r.n0 >= Supremum(id)) /\ ClassLive(r.n0)
    <3>1. q = [r EXCEPT !.pc = "barrier", !.barriers = @ + 1]
      BY <1>8, <2>4
    <3>2. /\ q \in Items /\ q.pc = "barrier" /\ q.sum = r.sum /\ q.max = r.max /\ q.max0 = r.max0
          /\ q.n0 = r.n0
      BY <1>1, <1>9, <3>1 DEF Items
    <3>3. GClass(k, b, id, a, q)
      BY <1>4, <1>5, <2>2, <2>4, <3>2 DEF GClass, Books
    <3> QED
      BY <1>3, <3>2, <3>3 DEF ItemInv
  <2> QED
    BY <2>1, <2>3, <2>4
<1> QED
  BY <1>2, <1>8, <1>10 DEF GMoves

\* The factors of two a round takes out.
LEMMA AlphaOf ==
  ASSUME NEW e \in Nat, NEW a, a = Alpha(e, Quarter, LUT_SIZE32)
  PROVE  /\ a \in Nat /\ e = Pow2[a] * (e \div Pow2[a]) /\ e \div Pow2[a] \in Nat
         /\ e # 0 => e \div Pow2[a] # 0
<1>1. Quarter \in Nat \ {0} /\ LUT_SIZE32 \in Nat /\ LUT_SIZE32 > 1
  BY GpuConstants
<1>2. LET z == Alpha(e, Quarter, LUT_SIZE32) IN
      /\ z \in 0 .. LUT_SIZE32 - 1 /\ e % Pow2[z] = 0 /\ z \in Nat
      /\ e = Pow2[z] * (e \div Pow2[z]) /\ e \div Pow2[z] \in Nat
      /\ e # 0 => e \div Pow2[z] # 0
      /\ e % 2 = 0 => z > 0
  BY <1>1, AlphaValue, Zenon
<1> QED
  BY <1>2, Zenon

\* kernel32's round: an odd number climbs, an even one has its steps.
LEMMA RoundMoves ==
  ASSUME NEW id, GJob(id), Round(id)
  PROVE  GMoves(id)
<1>1. PICK r : r = item[id] /\ r \in Items /\ r.pc = "round"
  BY DEF GJob, Round
<1>2. PICK k, b : k = kernel /\ b = Base
  OBVIOUS
<1>3. ItemInv(k, b, id, r) /\ k.precalc \in BOOLEAN /\ k \in Built /\ Job /\ id \in Ids
  BY <1>1, <1>2 DEF GJob, Built, Kernel
<1>4. ~k.precalc /\ \E p \in Nat : GPlain(k, b, id, p, r)
  BY <1>1, <1>3 DEF ItemInv, GDone, GaveItUp, GClass
<1>5. PICK p \in Nat : r.n0 = b + (3 + 4 * p) /\ Test(k, b, id, p, r.n, 0, r)
  BY <1>1, <1>4 DEF GPlain
<1>6. PICK c \in Nat : Walks(k, b, id, p, c, r.n, r.sum, 0, r.max, r.max0)
  BY <1>5 DEF Test
<1>7. /\ r.N0 = GNumber(k, b, p) /\ r.n + 1 <= UMax(Width) /\ UMax(Width) \in Nat
      /\ r.n \in Nat /\ r.sum \in Nat /\ r.N0 \in Nat /\ r.max \in Nat
  BY <1>1, <1>5, GpuConstants DEF Test, Items
<1>8. p \in Nat /\ r.n >= r.N0 /\ r.N0 >= 3
  BY <1>2, <1>3, <1>6, <1>7, WalkFacts
<1>9. PICK a, m : a = Alpha(r.n + 1, Quarter, LUT_SIZE32) /\ m = (r.n + 1) \div Pow2[a]
  OBVIOUS
<1>10. a \in Nat /\ m \in Nat \ {0} /\ r.n + 1 = Pow2[a] * m
  <2>1. PICK e \in Nat : e = r.n + 1 /\ e # 0
    BY <1>7
  <2>2. a = Alpha(e, Quarter, LUT_SIZE32) /\ m = e \div Pow2[a]
    BY <1>9, <2>1
  <2>3. a \in Nat /\ e = Pow2[a] * (e \div Pow2[a]) /\ e \div Pow2[a] \in Nat
        /\ e \div Pow2[a] # 0
    BY <2>1, <2>2, AlphaOf
  <2> QED
    BY <2>1, <2>2, <2>3
<1>11. CASE m > UMax(Width) \div Pow2[2 * a]
  <2>1. Overflow(id)
    BY <1>1, <1>9, <1>11 DEF Round
  <2> QED
    BY <2>1, OverflowMoves
<1>12. CASE ~(m > UMax(Width) \div Pow2[2 * a])
  <2>1. PICK s, y, q : /\ s = [r EXCEPT !.sum = Checksum(@ + a)]
                       /\ y = m * Pow3[a] - 1 /\ q = Halve(s, y, "round") /\ Go(id, q)
    BY <1>1, <1>9, <1>12, Zenon DEF Round
  <2>2. /\ s \in Items /\ s.sum = Checksum(r.sum + a) /\ s.max = r.max /\ s.max0 = r.max0
        /\ s.N0 = r.N0 /\ s.n0 = r.n0
    <3>1. PICK e \in Nat : e = r.sum + a
      BY <1>7, <1>10
    <3>2. Checksum(e) \in 0 .. UMax(SumBits)
      BY <3>1, ChecksumValue
    <3>3. s = [r EXCEPT !.sum = Checksum(e)]
      BY <2>1, <3>1
    <3>4. PICK g \in 0 .. UMax(SumBits) : g = Checksum(e)
      BY <3>2
    <3>5. s = [r EXCEPT !.sum = g]
      BY <3>3, <3>4
    <3>6. s \in Items /\ s.sum = g /\ s.max = r.max /\ s.max0 = r.max0 /\ s.N0 = r.N0 /\ s.n0 = r.n0
      BY <1>1, <3>5 DEF Items
    <3> QED
      BY <3>1, <3>4, <3>6
  <2>3. Walks(k, b, id, p, c + a, y, s.sum, 0, r.max, r.max0) /\ r.n <= y
    <3>1. r.n = (Pow2[a] * m) - 1 /\ 0 \in Nat
      BY <1>7, <1>10
    <3>2. PICK u, v, g, w, o : /\ u = r.n /\ v = (m * Pow3[a]) - 1
                               /\ g = r.sum /\ w = r.max /\ o = r.max0
      OBVIOUS
    <3>3. Walks(k, b, id, p, c, u, g, 0, w, o) /\ u = (Pow2[a] * m) - 1
      BY <1>6, <3>1, <3>2
    <3>4. Walks(k, b, id, p, c + a, v, Checksum(g + a), 0, w, o) /\ u <= v
      <4>1. PICK x \in Nat : x = 0
        OBVIOUS
      <4>2. /\ Job /\ k \in Built /\ b = Base /\ id \in Ids
            /\ a \in Nat /\ m \in Nat \ {0} /\ v = (m * Pow3[a]) - 1
        BY <1>2, <1>3, <1>10, <3>2
      <4>3. Walks(k, b, id, p, c, u, g, x, w, o) /\ u = (Pow2[a] * m) - 1
        BY <3>3, <4>1
      <4>4. Walks(k, b, id, p, c + a, v, Checksum(g + a), x, w, o) /\ u <= v
        <5>1. Climb(a, m, u, v)
          BY <4>2, <4>3 DEF Climb
        <5>2. Job /\ k \in Built /\ b = Base /\ id \in Ids
          BY <4>2
        <5>3. Walks(k, b, id, p, c, u, g, x, w, o)
          BY <4>3
        <5> QED
          BY <5>1, <5>2, <5>3, WalkClimbs, Zenon
      <4> QED
        BY <4>1, <4>4
    <3> QED
      BY <2>1, <2>2, <3>2, <3>4
  <2>4. y \in 0 .. UMax(Width) /\ y + 1 <= UMax(Width) /\ y > 0
    <3>1. m <= UMax(Width) \div Pow2[2 * a]
      <4>1. PICK d \in Nat : d = Pow2[2 * a] /\ d # 0
        BY <1>10, PowerBounds
      <4>2. UMax(Width) \div d \in Nat
        BY <1>7, <4>1
      <4> QED
        BY <1>10, <1>12, <4>1, <4>2
    <3>2. m * Pow3[a] <= UMax(Width) /\ m * Pow3[a] \in Nat
      BY <1>7, <1>10, <3>1, ProductFits, PowerBounds, ProductLaws
    <3>3. PICK u \in Nat : u = m * Pow3[a]
      BY <3>2
    <3> QED
      BY <1>7, <1>8, <2>1, <2>3, <3>2, <3>3
  <2>5. HalvedItem(s, y, "round", q)
    BY <1>2, <1>3, <2>1, <2>2, <2>4, HalveFields
  <2>6. PICK z \in Nat, u \in Nat \ {0} :
          /\ y = Pow2[z] * u /\ u <= y
          /\ \/ u >= r.N0 /\ q.pc = "round" /\ q.n = u /\ q.n0 = r.n0
             \/ u < r.N0 /\ q.pc = "for" /\ q.n0 = r.n0 + 4
    BY <1>2, <1>4, <2>2, <2>5 DEF HalvedItem
  <2>7. /\ q \in Items /\ q.sum = s.sum /\ q.N0 = r.N0
        /\ q.max = (IF y > r.max THEN y ELSE r.max)
        /\ q.max0 = (IF y > r.max THEN GNumber(k, b, p) ELSE r.max0)
    BY <1>7, <2>2, <2>5 DEF HalvedItem
  <2>8. /\ u >= GNumber(k, b, p) =>
              \E l \in Nat : Walks(k, b, id, p, l, u, q.sum, 0, q.max, q.max0)
        /\ u < GNumber(k, b, p) => Between(k, b, id, p + 1, q.sum, 0, q.max, q.max0)
    <3>1. PICK w, o, g, v, e : w = q.max /\ o = q.max0 /\ g = q.sum /\ v = r.max /\ e = r.max0
      OBVIOUS
    <3>2. 0 \in Nat /\ Walks(k, b, id, p, c + a, y, g, 0, v, e)
      BY <2>3, <2>7, <3>1
    <3>3. /\ u >= GNumber(k, b, p) => \E l \in Nat : Walks(k, b, id, p, l, u, g, 0, w, o)
          /\ u < GNumber(k, b, p) => Between(k, b, id, p + 1, g, 0, w, o)
      <4>1. w = (IF y > v THEN y ELSE v) /\ o = (IF y > v THEN GNumber(k, b, p) ELSE e)
        BY <2>7, <3>1
      <4>2. y = Pow2[z] * u
        BY <2>6
      <4>3. PICK d, x : d = c + a /\ x = 0
        OBVIOUS
      <4>4. Walks(k, b, id, p, d, y, g, x, v, e) /\ x \in Nat
        BY <3>2, <4>3
      <4>5. /\ u >= GNumber(k, b, p) => \E l \in Nat : Walks(k, b, id, p, l, u, g, x, w, o)
            /\ u < GNumber(k, b, p) => Between(k, b, id, p + 1, g, x, w, o)
        <5>1. /\ Job /\ k \in Built /\ b = Base /\ id \in Ids
              /\ z \in Nat /\ u \in Nat \ {0}
          BY <1>2, <1>3
        <5> QED
          <6>1. Noted(y, v, e, GNumber(k, b, p), w, o) /\ Evens(y, z, u)
            BY <4>1, <4>2, <5>1, Zenon DEF Noted, Evens
          <6> QED
            BY <4>4, <5>1, <6>1, Halved
      <4> QED
        BY <4>3, <4>5
    <3> QED
      BY <3>1, <3>3
  <2>9. \E d \in Nat : GPlain(k, b, id, d, q)
    <3>1. CASE u >= r.N0 /\ q.pc = "round" /\ q.n = u /\ q.n0 = r.n0
      <4>1. u + 1 <= UMax(Width)
        BY <1>7, <2>4, <2>6
      <4>2. Test(k, b, id, p, q.n, 0, q)
        BY <1>7, <2>7, <2>8, <3>1, <4>1 DEF Test
      <4> QED
        BY <1>5, <3>1, <4>2 DEF GPlain
    <3>2. CASE u < r.N0 /\ q.pc = "for" /\ q.n0 = r.n0 + 4
      <4>1. Books(k, b, id, p + 1, 0, q)
        BY <1>7, <2>8, <3>2 DEF Books
      <4>2. q.n0 = b + (3 + 4 * (p + 1)) /\ p + 1 \in Nat
        BY <1>2, <1>3, <1>5, <3>2, JobKinds
      <4>3. GPlain(k, b, id, p + 1, q)
        BY <3>2, <4>1, <4>2 DEF GPlain
      <4> QED
        BY <4>2, <4>3
    <3> QED
      BY <2>6, <3>1, <3>2
  <2>10. ItemInv(k, b, id, q)
    BY <1>4, <2>7, <2>9 DEF ItemInv
  <2> QED
    BY <1>2, <2>1, <2>10 DEF GMoves
<1> QED
  BY <1>11, <1>12

-----------------------------------------------------------------------------
(* kernel32-precalc's classes.                                               *)

\* An item with a class in hand whose members are all still to come.
AtClass(k, b, id, a, r) ==
  /\ r.n0 = 3 + 4 * a /\ id * ClassLoad <= a /\ a < (id + 1) * ClassLoad
  /\ ClassLive(r.n0) /\ r.h = 0 /\ Books(k, b, id, a * GShares, 0, r)

\* What a round of precalc assigns.
Assigned(s, q, z, v, c) ==
  /\ q \in Items /\ q.L = z /\ q.pc = v /\ q.sum = c
  /\ q.n0 = s.n0 /\ q.h = s.h /\ q.max = s.max /\ q.max0 = s.max0
  /\ q.R = s.R /\ q.Salpha = s.Salpha

\* Where the class has come to is assigned; and where the item is; and its sum.
LEMMA PreSet ==
  ASSUME NEW t \in Items, NEW z \in 0 .. UMax(Half), NEW g, g = [t EXCEPT !.L = z]
  PROVE  Assigned(t, g, z, t.pc, t.sum)
BY DEF Assigned, Items

\* The item goes elsewhere.
LEMMA PreSetPc ==
  ASSUME NEW t \in Items, NEW z \in 0 .. UMax(Half), NEW g, Assigned(t, g, z, t.pc, t.sum),
         NEW v \in GPcs, NEW p, p = [g EXCEPT !.pc = v]
  PROVE  Assigned(t, p, z, v, t.sum)
BY DEF Assigned, Items

\* Its sum changes.
LEMMA PreSetSum ==
  ASSUME NEW t \in Items, NEW z \in 0 .. UMax(Half), NEW v \in GPcs, NEW p,
         Assigned(t, p, z, v, t.sum),
         NEW c \in 0 .. UMax(SumBits), NEW o, o = [p EXCEPT !.sum = c]
  PROVE  Assigned(t, o, z, v, c)
BY DEF Assigned, Items

\* What is known of the class.
LEMMA ClassFacts ==
  ASSUME Precalculates, NEW id \in Ids, NEW k, NEW b, NEW a \in Nat, NEW r \in Items,
         AtClass(k, b, id, a, r)
  PROVE  /\ r.n0 \in 0 .. Pow2[ClassLog] - 1 /\ r.n0 \in Nat
         /\ r.R \in 0 .. ClassLog /\ r.R \in Nat /\ ClassLog - r.R \in 0 .. ClassLog
         /\ ClassLog - r.R \in Nat /\ r.L \in Nat /\ r.Salpha \in Nat /\ r.sum \in Nat
         /\ \A j \in 0 .. ClassLog : /\ Iterate[j][r.n0] >= r.n0
                                          /\ Iterate[j][r.n0] \in Nat
                                          /\ Iterate[j][r.n0] + 1 <= UMax(Half)
<1>1. r.n0 \in 0 .. Pow2[ClassLog] - 1 /\ ClassLive(r.n0) /\ r.n0 \in Nat
  BY ClassPlaces DEF AtClass
<1>2. ClassLog \in Nat /\ UMax(SumBits) \in Nat /\ UMax(Half) \in Nat
  BY GpuConstants
<1>3. r.R \in 0 .. ClassLog /\ r.L \in 0 .. UMax(Half) /\ r.Salpha \in Nat
      /\ r.sum \in 0 .. UMax(SumBits)
  BY DEF Items
<1>4. PICK x \in 0 .. Pow2[ClassLog] - 1 : x = r.n0
  BY <1>1
<1>5. \A j \in 0 .. ClassLog : Iterate[j][x] >= x
  BY <1>1, <1>4, ClassStays
<1>6. \A j \in 0 .. ClassLog : Iterate[j][x] \in Nat /\ Iterate[j][x] + 1 <= UMax(Half)
  BY GClassFits
<1> QED
  BY <1>1, <1>2, <1>3, <1>4, <1>5, <1>6

\* The steps of the class are counted for its members, when none is left out.
LEMMA ClassCounted ==
  ASSUME Job, NEW k \in Built, NEW b, b = Base, NEW id \in Ids, NEW a \in Nat, NEW r \in Items,
         AtClass(k, b, id, a, r), NEW u \in Nat,
         NEW q, q.Salpha = u, q.h = 0, q.max = r.max, q.max0 = r.max0,
         q.sum = IF k.mod = 1 THEN Checksum(r.sum + u * GShares) ELSE r.sum
  PROVE  Books(k, b, id, (a * GShares) + q.h, GAhead(k, q), q)
<1>1. a * GShares \in Nat /\ GShares \in Nat /\ u * GShares \in Nat /\ (a * GShares) + 0 = a * GShares
      /\ GShares - 0 = GShares
  BY ClassPlaces, ProductLaws DEF AtClass
<1>2. Between(k, b, id, a * GShares, r.sum, 0, r.max, r.max0)
  BY DEF AtClass, Books
<1>3. PICK p, s, z, x : p = a * GShares /\ s = r.sum /\ z = u * GShares /\ x = GAhead(k, q)
  OBVIOUS
<1>4. Ledger(k, b, id, p, q.sum, x)
  <2>1. Ledger(k, b, id, p, s, 0)
    BY <1>2, <1>3 DEF Between
  <2>2. CASE k.mod = 1
    <3>1. x = z /\ q.sum = Checksum(s + z) /\ z \in Nat /\ z = 0 + z
      BY <1>1, <1>3, <2>2 DEF GAhead
    <3>2. 0 \in Nat
      OBVIOUS
    <3>3. Ledger(k, b, id, p, Checksum(s + z), z)
      BY <2>1, <3>1, <3>2, LedgerAdd
    <3> QED
      BY <3>1, <3>3
  <2>3. CASE k.mod # 1
    BY <1>3, <2>1, <2>3 DEF GAhead
  <2> QED
    BY <2>2, <2>3
<1> QED
  BY <1>1, <1>2, <1>3, <1>4 DEF Between, Books

\* A run of its steps: what becomes of the item.
LEMMA ClassGoes ==
  ASSUME Job, NEW k \in Built, k.precalc, NEW b, b = Base, NEW id \in Ids, NEW a \in Nat,
         NEW r \in Items, AtClass(k, b, id, a, r),
         NEW e \in 0 .. r.R, NEW l \in Nat, NEW u \in Nat,
         Iterate[(ClassLog - r.R) + e][r.n0] = l,
         u = OddStepsIn(r.n0, (ClassLog - r.R) + e),
         NEW q \in Items, q.n0 = r.n0, q.R = r.R - e, q.Salpha = u, q.h = r.h, q.max = r.max,
         q.max0 = r.max0,
         \/ q.pc = "precalc_rise" /\ q.L = l + 1 /\ q.sum = r.sum
         \/ q.pc = "precalc_fall" /\ q.L = l /\ q.sum = r.sum
         \/ /\ q.pc = "calc" /\ q.L = l /\ r.R - e = 0
            /\ q.sum = IF k.mod = 1 THEN Checksum(r.sum + u * GShares) ELSE r.sum
  PROVE  ItemInv(k, b, id, q)
<1>1. /\ r.R \in 0 .. ClassLog /\ ClassLog \in Nat
      /\ ClassLog - (r.R - e) = (ClassLog - r.R) + e
  <2>1. r.R \in 0 .. ClassLog /\ ClassLog \in Nat
    BY GpuConstants DEF Items
  <2> QED
    BY <2>1
<1>2. ClassAt(q, l)
  BY <1>1 DEF ClassAt
<1>3. /\ q.n0 = 3 + 4 * a /\ id * ClassLoad <= a /\ a < (id + 1) * ClassLoad
      /\ ClassLive(q.n0) /\ q.h = 0 /\ a <= (id + 1) * ClassLoad
  BY ShareBounds DEF AtClass
<1>4. CASE q.sum = r.sum /\ (\/ q.pc = "precalc_rise" /\ q.L = l + 1
                             \/ q.pc = "precalc_fall" /\ q.L = l)
  <2>1. Books(k, b, id, a * GShares, 0, q)
    BY <1>4 DEF AtClass, Books
  <2>2. (l + 1) - 1 = l /\ l + 1 > 0
    OBVIOUS
  <2>3. GClass(k, b, id, a, q)
    BY <1>2, <1>3, <1>4, <2>1, <2>2 DEF GClass
  <2> QED
    BY <2>3 DEF ItemInv
<1>5. CASE /\ q.pc = "calc" /\ q.L = l /\ r.R - e = 0
           /\ q.sum = IF k.mod = 1 THEN Checksum(r.sum + u * GShares) ELSE r.sum
  <2>1. Books(k, b, id, (a * GShares) + q.h, GAhead(k, q), q)
    BY <1>3, <1>5, ClassCounted
  <2>2. 0 <= GShares
    BY GpuConstants
  <2>3. GClass(k, b, id, a, q)
    BY <1>2, <1>3, <1>5, <2>1, <2>2 DEF GClass
  <2> QED
    BY <2>3 DEF ItemInv
<1> QED
  BY <1>4, <1>5

\* The sum when a class's odd steps are counted for its members.
LEMMA SumWithClass ==
  ASSUME NEW k, NEW s \in 0 .. UMax(SumBits), NEW w \in Nat
  PROVE  (IF k.mod = 1 THEN Checksum(s + w * GShares) ELSE s) \in 0 .. UMax(SumBits)
<1>1. s \in Nat /\ w * GShares \in Nat
  BY GpuConstants, ProductLaws
<1>2. PICK z \in Nat : z = s + w * GShares
  BY <1>1
<1>3. Checksum(z) \in 0 .. UMax(SumBits)
  BY ChecksumValue
<1> QED
  BY <1>2, <1>3

\* All items that get this far pass the barrier; the class is taken up.
LEMMA BarrierMoves ==
  ASSUME NEW id, GJob(id), Barrier(id)
  PROVE  GMoves(id)
<1>1. PICK r : r = item[id] /\ r \in Items /\ r.pc = "barrier"
  BY DEF GJob, Barrier
<1>2. PICK k, b : k = kernel /\ b = Base
  OBVIOUS
<1>3. ItemInv(k, b, id, r) /\ k.precalc \in BOOLEAN /\ k \in Built /\ Job /\ id \in Ids
  BY <1>1, <1>2 DEF GJob, Built, Kernel
<1>4. k.precalc /\ \E a \in Nat : GClass(k, b, id, a, r)
  BY <1>1, <1>3 DEF ItemInv, GDone, GaveItUp, GPlain
<1>5. PICK a \in Nat : /\ r.n0 = 3 + 4 * a /\ id * ClassLoad <= a /\ a < (id + 1) * ClassLoad
                       /\ ClassLive(r.n0) /\ Books(k, b, id, a * GShares, 0, r)
  BY <1>1, <1>4 DEF GClass
<1>6. PICK q : Go(id, q) /\ q = [r EXCEPT !.pc = "precalc_rise", !.L = r.n0 + 1,
                                          !.R = ClassLog, !.Salpha = 0, !.h = 0]
  <2>1. SieveLog = ClassLog
    BY <1>2, <1>3, <1>4, SieveOfBuild
  <2> QED
    BY <1>1, <2>1, Zenon DEF Barrier
<1>7. /\ r.n0 + 1 \in 0 .. UMax(Half) /\ r.n0 \in Nat /\ ClassLog \in 0 .. ClassLog
      /\ "precalc_rise" \in GPcs /\ a <= (id + 1) * ClassLoad
  <2>1. 3 + 4 * a \in 0 .. Pow2[ClassLog] - 1
    BY <1>3, <1>5, ClassPlaces
  <2>2. (id + 1) * ClassLoad \in Nat
    BY <1>3, ShareBounds
  <2>3. Pow2[ClassLog] <= UMax(Half)
    BY <1>2, <1>3, <1>4, SieveOfBuild
  <2> QED
    BY <1>5, <2>1, <2>2, <2>3, GpuConstants DEF GPcs
<1>8. PICK z : z = r.n0 + 1
  OBVIOUS
<1>9. PICK f1, f2, f3, f4 : /\ f1 = [r EXCEPT !.pc = "precalc_rise"]
                            /\ f2 = [f1 EXCEPT !.L = z]
                            /\ f3 = [f2 EXCEPT !.R = ClassLog]
                            /\ f4 = [f3 EXCEPT !.Salpha = 0]
  OBVIOUS
<1>10. q = [f4 EXCEPT !.h = 0]
  BY <1>6, <1>8, <1>9, Zenon
<1>11. /\ f1 \in Items /\ f1.pc = "precalc_rise" /\ f1.n0 = r.n0 /\ f1.sum = r.sum
       /\ f1.max = r.max /\ f1.max0 = r.max0
  BY <1>1, <1>7, <1>9 DEF Items
<1>12. /\ f2 \in Items /\ f2.pc = "precalc_rise" /\ f2.n0 = r.n0 /\ f2.sum = r.sum
       /\ f2.max = r.max /\ f2.max0 = r.max0 /\ f2.L = z
  BY <1>7, <1>8, <1>9, <1>11 DEF Items
<1>13. /\ f3 \in Items /\ f3.pc = "precalc_rise" /\ f3.n0 = r.n0 /\ f3.sum = r.sum
       /\ f3.max = r.max /\ f3.max0 = r.max0 /\ f3.L = z /\ f3.R = ClassLog
  BY <1>7, <1>9, <1>12 DEF Items
<1>14. /\ f4 \in Items /\ f4.pc = "precalc_rise" /\ f4.n0 = r.n0 /\ f4.sum = r.sum
       /\ f4.max = r.max /\ f4.max0 = r.max0 /\ f4.L = z /\ f4.R = ClassLog
       /\ f4.Salpha = 0
  BY <1>9, <1>13 DEF Items
<1>15. /\ q \in Items /\ q.pc = "precalc_rise" /\ q.n0 = r.n0 /\ q.sum = r.sum
       /\ q.max = r.max /\ q.max0 = r.max0 /\ q.L = z /\ q.R = ClassLog
       /\ q.Salpha = 0 /\ q.h = 0
  BY <1>10, <1>14 DEF Items
<1>16. ClassAt(q, q.L - 1)
  <2>1. Iterate[0][r.n0] = r.n0 /\ OddStepsIn(r.n0, 0) = 0
    BY <1>7, IterateDefined, OddStepsNext
  <2>2. ClassLog - q.R = 0 /\ q.L - 1 = r.n0
    BY <1>7, <1>8, <1>15, GpuConstants
  <2> QED
    BY <1>15, <2>1, <2>2 DEF ClassAt
<1>17. GClass(k, b, id, a, q)
  <2>1. Books(k, b, id, a * GShares, 0, q) /\ q.L > 0
    BY <1>5, <1>7, <1>8, <1>15 DEF Books
  <2> QED
    BY <1>5, <1>7, <1>15, <1>16, <2>1 DEF GClass
<1> QED
  BY <1>2, <1>4, <1>6, <1>15, <1>17 DEF GMoves, ItemInv

\* A run of e steps of the class to l, w of all the class's steps being odd.
ClassRuns(r, e, l, w) ==
  /\ e \in 0 .. r.R /\ l \in Nat /\ w \in Nat /\ l + 1 <= UMax(Half)
  /\ Iterate[(ClassLog - r.R) + e][r.n0] = l
  /\ w = OddStepsIn(r.n0, (ClassLog - r.R) + e)

\* The item with these steps counted.
Counted(r, e, w, t) ==
  /\ t \in Items /\ t.R = r.R - e /\ t.Salpha = w /\ t.n0 = r.n0 /\ t.h = r.h
  /\ t.sum = r.sum /\ t.max = r.max /\ t.max0 = r.max0

\* What becomes of it.
Becomes(t, l, q) ==
  \/ t.R = 0 /\ q = Lcalc([t EXCEPT !.L = l])
  \/ q = [t EXCEPT !.L = l + 1, !.pc = "precalc_rise"]
  \/ q = [t EXCEPT !.L = l, !.pc = "precalc_fall"]
  \/ t.pc = "precalc_rise" /\ q = [t EXCEPT !.L = l + 1]
  \/ t.pc = "precalc_fall" /\ q = [t EXCEPT !.L = l]

\* A run of its steps, as the kernel assigns it.
LEMMA ClassMoves ==
  ASSUME NEW id \in Ids, Job, kernel \in Built, kernel.precalc,
         NEW a \in Nat, NEW r \in Items, AtClass(kernel, Base, id, a, r),
         NEW e, NEW l, NEW w, ClassRuns(r, e, l, w), NEW t, Counted(r, e, w, t),
         NEW q, Becomes(t, l, q)
  PROVE  ItemInv(kernel, Base, id, q)
<1> USE DEF ClassRuns, Counted, Becomes
<1> PICK k, b : k = kernel /\ b = Base
  OBVIOUS
<1>1. PICK z1, z2 \in 0 .. UMax(Half) : z1 = l /\ z2 = l + 1
  BY GpuConstants
<1>2. PICK v1, v2, v3 \in GPcs : v1 = "precalc_rise" /\ v2 = "precalc_fall" /\ v3 = "calc"
  BY DEF GPcs
<1>3. r.sum \in 0 .. UMax(SumBits)
  BY DEF Items
<1>4. PICK s \in 0 .. UMax(SumBits) :
        s = IF k.mod = 1 THEN Checksum(r.sum + w * GShares) ELSE r.sum
  BY <1>3, SumWithClass
<1>5. PICK g1, g2 : g1 = [t EXCEPT !.L = z1] /\ g2 = [t EXCEPT !.L = z2]
  OBVIOUS
<1>6. Assigned(t, g1, z1, t.pc, t.sum) /\ Assigned(t, g2, z2, t.pc, t.sum)
  BY <1>5, PreSet
<1>7. \/ Assigned(t, q, z2, v1, r.sum)
      \/ Assigned(t, q, z1, v2, r.sum)
      \/ Assigned(t, q, z1, v3, s) /\ r.R - e = 0
  <2>1. CASE t.R = 0 /\ q = Lcalc([t EXCEPT !.L = l])
    <3>1. PICK p, o : p = [g1 EXCEPT !.pc = v3] /\ o = [p EXCEPT !.sum = s]
      OBVIOUS
    <3>2. Assigned(t, p, z1, v3, t.sum)
      BY <1>6, <3>1, PreSetPc
    <3>3. Assigned(t, o, z1, v3, s)
      BY <3>1, <3>2, PreSetSum
    <3>4. g1.Salpha = w /\ g1.sum = r.sum
      BY <1>6 DEF Assigned
    <3>5. q = [g1 EXCEPT !.pc = "calc",
                         !.sum = IF k.mod = 1
                                   THEN Checksum(g1.sum + g1.Salpha * GShares) ELSE g1.sum]
      <4>1. q = Lcalc(g1)
        BY <1>1, <1>5, <2>1
      <4> QED
        BY <4>1, SieveOfBuild DEF Lcalc, GShares
    <3>6. s = IF k.mod = 1 THEN Checksum(g1.sum + g1.Salpha * GShares) ELSE g1.sum
      BY <1>4, <3>4, Zenon
    <3>7. q = o
      BY <1>2, <3>1, <3>5, <3>6, Zenon
    <3> QED
      BY <2>1, <3>3, <3>7
  <2>2. CASE q = [t EXCEPT !.L = l + 1, !.pc = "precalc_rise"]
    <3>1. q = [g2 EXCEPT !.pc = v1]
      BY <1>1, <1>2, <1>5, <2>2, Zenon
    <3>2. Assigned(t, q, z2, v1, t.sum)
      BY <1>6, <3>1, PreSetPc
    <3> QED
      BY <3>2
  <2>3. CASE q = [t EXCEPT !.L = l, !.pc = "precalc_fall"]
    <3>1. q = [g1 EXCEPT !.pc = v2]
      BY <1>1, <1>2, <1>5, <2>3, Zenon
    <3>2. Assigned(t, q, z1, v2, t.sum)
      BY <1>6, <3>1, PreSetPc
    <3> QED
      BY <3>2
  <2>4. CASE t.pc = "precalc_rise" /\ q = [t EXCEPT !.L = l + 1]
    BY <1>1, <1>2, <1>5, <1>6, <2>4
  <2>5. CASE t.pc = "precalc_fall" /\ q = [t EXCEPT !.L = l]
    BY <1>1, <1>2, <1>5, <1>6, <2>5
  <2> QED
    BY <2>1, <2>2, <2>3, <2>4, <2>5
<1>8. /\ q \in Items /\ q.n0 = r.n0 /\ q.R = r.R - e /\ q.Salpha = w /\ q.h = r.h
      /\ q.max = r.max /\ q.max0 = r.max0
      /\ \/ q.pc = "precalc_rise" /\ q.L = l + 1 /\ q.sum = r.sum
         \/ q.pc = "precalc_fall" /\ q.L = l /\ q.sum = r.sum
         \/ /\ q.pc = "calc" /\ q.L = l /\ r.R - e = 0
            /\ q.sum = IF k.mod = 1 THEN Checksum(r.sum + w * GShares) ELSE r.sum
  BY <1>1, <1>2, <1>4, <1>7 DEF Assigned
<1>9. k \in Built /\ k.precalc /\ AtClass(k, b, id, a, r)
  OBVIOUS
<1>10. ItemInv(k, b, id, q)
  BY <1>8, <1>9, ClassGoes
<1> QED
  BY <1>10

\* Odd steps of the class, in 64 bits.
LEMMA GPrecalcRiseMoves ==
  ASSUME NEW id, GJob(id), GPrecalcRise(id)
  PROVE  GMoves(id)
<1>1. PICK r : r = item[id] /\ r \in Items /\ r.pc = "precalc_rise"
  BY DEF GJob, GPrecalcRise
<1>2. PICK k, b : k = kernel /\ b = Base
  OBVIOUS
<1>3. ItemInv(k, b, id, r) /\ k.precalc \in BOOLEAN /\ k \in Built /\ Job /\ id \in Ids
  BY <1>1, <1>2 DEF GJob, Built, Kernel
<1>4. k.precalc /\ \E a \in Nat : GClass(k, b, id, a, r)
  BY <1>1, <1>3 DEF ItemInv, GDone, GaveItUp, GPlain
<1>5. PICK a \in Nat : AtClass(k, b, id, a, r) /\ r.L > 0 /\ ClassAt(r, r.L - 1)
  BY <1>1, <1>4 DEF GClass, AtClass
<1>6. /\ r.n0 \in Nat /\ r.R \in Nat /\ r.R \in 0 .. ClassLog /\ r.L \in Nat
      /\ r.Salpha \in Nat /\ r.sum \in Nat /\ ClassLog - r.R \in Nat
      /\ \A j \in 0 .. ClassLog : /\ Iterate[j][r.n0] >= r.n0
                                       /\ Iterate[j][r.n0] \in Nat
                                       /\ Iterate[j][r.n0] + 1 <= UMax(Half)
  <2>1. Precalculates
    BY <1>2, <1>3, <1>4, SieveOfBuild
  <2> QED
    BY <1>1, <1>3, <1>5, <2>1, ClassFacts
<1>7. PICK c \in Nat : c = ClassLog - r.R
  BY <1>6
<1>8. PICK x \in Nat, v \in Nat \ {0} : x = r.n0 /\ v = r.L
  BY <1>5, <1>6
<1>9. PICK e, m : /\ e = Min({Ctz(r.L, Quarter), LUT_SIZE32 - 1, r.R}) /\ m = r.L \div Pow2[e]
  OBVIOUS
<1>10. e \in Nat /\ e \in 0 .. r.R /\ v = Pow2[e] * m /\ m \in Nat \ {0}
  <2>1. Quarter \in Nat /\ LUT_SIZE32 - 1 \in Nat
    BY GpuConstants
  <2>2. Ctz(v, Quarter) \in 0 .. Quarter /\ v % Pow2[Ctz(v, Quarter)] = 0
    BY <2>1, CtzValue
  <2>3. PICK S : S = {Ctz(r.L, Quarter), LUT_SIZE32 - 1, r.R}
    OBVIOUS
  <2>4. S \in SUBSET Nat /\ S # {}
    BY <1>6, <1>8, <2>1, <2>2, <2>3
  <2>5. e \in S /\ \A z \in S : e <= z
    BY <1>9, <2>3, <2>4, LeastOfMore, Zenon
  <2>6. e \in Nat /\ e <= r.R /\ e <= Ctz(v, Quarter) /\ Ctz(v, Quarter) \in Nat
    BY <1>8, <2>1, <2>2, <2>3, <2>4, <2>5
  <2>7. PICK z \in Nat : z = Ctz(v, Quarter) /\ e \in 0 .. z /\ v % Pow2[z] = 0
    BY <2>2, <2>6
  <2>8. v = Pow2[e] * (v \div Pow2[e]) /\ v \div Pow2[e] \in Nat /\ v \div Pow2[e] # 0
    BY <2>7, LowerFactor
  <2> QED
    BY <1>6, <1>8, <1>9, <2>6, <2>8
<1>11. PICK y : y = m * Pow3[e]
  OBVIOUS
<1>12. y \in Nat \ {0}
  BY <1>10, <1>11, PowerBounds, ProductPositive
<1>13. Iterate[c + e][x] = y - 1 /\ OddStepsIn(x, c + e) = r.Salpha + e
  <2>1. Comes(x, c, (Pow2[e] * m) - 1)
    <3>1. \A j \in 0 .. c : j \in 0 .. ClassLog
      BY <1>6, <1>7, GpuConstants
    <3>2. Iterate[c][x] = (Pow2[e] * m) - 1
      BY <1>5, <1>7, <1>8, <1>10 DEF ClassAt
    <3> QED
      BY <1>6, <1>8, <3>1, <3>2 DEF Comes
  <2>2. /\ Comes(x, c + e, (m * Pow3[e]) - 1)
        /\ OddStepsIn(x, c + e) = OddStepsIn(x, c) + e
    BY <1>10, <2>1, ComesRise
  <2>3. OddStepsIn(x, c) = r.Salpha
    BY <1>5, <1>7, <1>8 DEF ClassAt
  <2> QED
    BY <1>11, <2>2, <2>3 DEF Comes
<1>14. c + e \in 0 .. ClassLog /\ r.R - e \in 0 .. ClassLog /\ r.Salpha + e \in Nat
       /\ y - 1 \in Nat /\ y <= UMax(Half) /\ (y - 1) + 1 = y
       /\ y - 1 \in 0 .. UMax(Half) /\ y \in 0 .. UMax(Half)
  <2>1. c + e \in 0 .. ClassLog /\ r.R - e \in 0 .. ClassLog /\ r.Salpha + e \in Nat
    BY <1>6, <1>7, <1>10, GpuConstants
  <2>2. Iterate[c + e][x] + 1 <= UMax(Half)
    BY <1>6, <1>8, <2>1
  <2> QED
    BY <1>12, <1>13, <2>1, <2>2, GpuConstants
<1>15. CASE m > UMax(Half) \div Pow2[2 * e]
  <2>1. Overflow(id)
    BY <1>1, <1>9, <1>15 DEF GPrecalcRise
  <2> QED
    BY <2>1, OverflowMoves
<1>16. CASE ~(m > UMax(Half) \div Pow2[2 * e])
  <2>1. PICK t, q : /\ t = [r EXCEPT !.R = @ - e, !.Salpha = @ + e] /\ Go(id, q)
                    /\ q = IF t.R = 0 THEN Lcalc([t EXCEPT !.L = y - 1])
                           ELSE IF Odd(y) THEN [t EXCEPT !.L = y - 1, !.pc = "precalc_fall"]
                           ELSE [t EXCEPT !.L = y]
    BY <1>1, <1>9, <1>11, <1>16, Zenon DEF GPrecalcRise
  <2>2. /\ t \in Items /\ t.R = r.R - e /\ t.Salpha = r.Salpha + e /\ t.n0 = r.n0 /\ t.h = r.h
        /\ t.sum = r.sum /\ t.max = r.max /\ t.max0 = r.max0 /\ t.pc = r.pc
    <3>1. PICK g, d, f : g = r.R - e /\ d = r.Salpha + e /\ f = [r EXCEPT !.R = g]
      OBVIOUS
    <3>2. t = [f EXCEPT !.Salpha = d]
      <4>1. t = [r EXCEPT !.R = r.R - e, !.Salpha = r.Salpha + e]
        BY <2>1, <1>1, <1>6, <3>1 DEF Items
      <4> QED
        BY <4>1, <3>1, Zenon
    <3>3. /\ f \in Items /\ f.R = g /\ f.n0 = r.n0 /\ f.h = r.h
          /\ f.sum = r.sum /\ f.max = r.max /\ f.max0 = r.max0 /\ f.pc = r.pc
      BY <1>1, <1>14, <3>1 DEF Items
    <3>4. /\ t \in Items /\ t.R = g /\ t.n0 = r.n0 /\ t.h = r.h /\ t.Salpha = d
          /\ t.sum = r.sum /\ t.max = r.max /\ t.max0 = r.max0 /\ t.pc = r.pc
      BY <1>14, <3>1, <3>2, <3>3 DEF Items
    <3> QED
      BY <3>1, <3>4
  <2>3. PICK l, w \in Nat : l = y - 1 /\ l + 1 = y /\ w = r.Salpha + e
    BY <1>14
  <2>4. Becomes(t, l, q)
    BY <1>1, <2>1, <2>2, <2>3 DEF Becomes
  <2>5. ClassRuns(r, e, l, w)
    BY <1>7, <1>8, <1>10, <1>13, <1>14, <2>3 DEF ClassRuns
  <2>6. Counted(r, e, w, t)
    BY <2>2, <2>3 DEF Counted
  <2>7. Job /\ kernel \in Built /\ kernel.precalc /\ AtClass(kernel, Base, id, a, r)
    BY <1>2, <1>3, <1>4, <1>5
  <2>8. ItemInv(kernel, Base, id, q)
    BY <1>1, <1>3, <2>4, <2>5, <2>6, <2>7, ClassMoves
  <2> QED
    BY <2>1, <2>8 DEF GMoves
<1> QED
  BY <1>15, <1>16

\* Its even steps.
LEMMA GPrecalcFallMoves ==
  ASSUME NEW id, GJob(id), GPrecalcFall(id)
  PROVE  GMoves(id)
<1>1. PICK r : r = item[id] /\ r \in Items /\ r.pc = "precalc_fall"
  BY DEF GJob, GPrecalcFall
<1>2. PICK k, b : k = kernel /\ b = Base
  OBVIOUS
<1>3. ItemInv(k, b, id, r) /\ k.precalc \in BOOLEAN /\ k \in Built /\ Job /\ id \in Ids
  BY <1>1, <1>2 DEF GJob, Built, Kernel
<1>4. k.precalc /\ \E a \in Nat : GClass(k, b, id, a, r)
  BY <1>1, <1>3 DEF ItemInv, GDone, GaveItUp, GPlain
<1>5. PICK a \in Nat : AtClass(k, b, id, a, r) /\ ClassAt(r, r.L)
  BY <1>1, <1>4 DEF GClass, AtClass
<1>6. /\ r.n0 \in Nat /\ r.R \in Nat /\ r.R \in 0 .. ClassLog /\ r.L \in Nat
      /\ r.Salpha \in Nat /\ r.sum \in Nat /\ ClassLog - r.R \in Nat
      /\ \A j \in 0 .. ClassLog : /\ Iterate[j][r.n0] >= r.n0
                                       /\ Iterate[j][r.n0] \in Nat
                                       /\ Iterate[j][r.n0] + 1 <= UMax(Half)
  <2>1. Precalculates
    BY <1>2, <1>3, <1>4, SieveOfBuild
  <2> QED
    BY <1>1, <1>3, <1>5, <2>1, ClassFacts
<1>7. PICK c \in Nat : c = ClassLog - r.R
  BY <1>6
<1>8. PICK x, v \in Nat : x = r.n0 /\ v = r.L
  BY <1>6
<1>9. PICK e, y : /\ e = Min({Ctz(r.L, Quarter), r.R}) /\ y = r.L \div Pow2[e]
  OBVIOUS
<1>10. e \in Nat /\ e \in 0 .. r.R /\ v = Pow2[e] * y /\ y \in Nat
  <2>1. Quarter \in Nat
    BY GpuConstants
  <2>2. Ctz(v, Quarter) \in 0 .. Quarter /\ v % Pow2[Ctz(v, Quarter)] = 0
    BY <2>1, CtzValue
  <2>3. PICK S : S = {Ctz(r.L, Quarter), r.R}
    OBVIOUS
  <2>4. S \in SUBSET Nat /\ S # {}
    BY <1>6, <1>8, <2>1, <2>2, <2>3
  <2>5. e \in S /\ \A z \in S : e <= z
    BY <1>9, <2>3, <2>4, LeastOfMore, Zenon
  <2>6. e \in Nat /\ e <= r.R /\ e <= Ctz(v, Quarter) /\ Ctz(v, Quarter) \in Nat
    BY <1>8, <2>1, <2>2, <2>3, <2>4, <2>5
  <2>7. PICK z \in Nat : z = Ctz(v, Quarter) /\ e \in 0 .. z /\ v % Pow2[z] = 0
    BY <2>2, <2>6
  <2>8. v = Pow2[e] * (v \div Pow2[e]) /\ v \div Pow2[e] \in Nat
    BY <2>7, LowerFactor
  <2> QED
    BY <1>6, <1>8, <1>9, <2>6, <2>8
<1>11. Iterate[c + e][x] = y /\ OddStepsIn(x, c + e) = r.Salpha
  <2>1. Iterate[c][x] = v /\ OddStepsIn(x, c) = r.Salpha
    BY <1>5, <1>7, <1>8 DEF ClassAt
  <2>2. /\ Iterate[c + e][x] = Iterate[e][Iterate[c][x]]
        /\ OddStepsIn(x, c + e) = OddStepsIn(x, c) + OddStepsIn(Iterate[c][x], e)
    <3>1. c \in Nat /\ x \in Nat /\ e \in Nat
      BY <1>10
    <3> QED
      BY <3>1, IterateSum, OddStepsSum, Zenon
  <2>3. \A j \in 0 .. e : /\ Iterate[j][Pow2[e] * y] = Pow2[e - j] * y
                          /\ j < e => Iterate[j][Pow2[e] * y] % 2 = 0
    BY <1>10, FallSteps
  <2>4. Iterate[e][v] = y
    <3>1. e \in 0 .. e /\ e - e = 0 /\ Pow2[0] = 1 /\ 1 * y = y
      BY <1>10, Pow2Defined
    <3> QED
      BY <1>10, <2>3, <3>1
  <2>5. OddStepsIn(v, e) = 0
    <3>1. \A j \in 0 .. e - 1 : Iterate[j][v] % 2 = 0
      BY <1>10, <2>3
    <3> QED
      BY <1>8, <1>10, <3>1, OddStepsOfRun
  <2> QED
    BY <1>6, <2>1, <2>2, <2>4, <2>5
<1>12. c + e \in 0 .. ClassLog /\ r.R - e \in 0 .. ClassLog /\ y + 1 <= UMax(Half)
  <2>1. c + e \in 0 .. ClassLog /\ r.R - e \in 0 .. ClassLog
    BY <1>6, <1>7, <1>10, GpuConstants
  <2> QED
    BY <1>6, <1>8, <1>11, <2>1
<1>13. PICK t, q : /\ t = [r EXCEPT !.R = @ - e] /\ Go(id, q)
                   /\ q = IF t.R = 0 THEN Lcalc([t EXCEPT !.L = y])
                          ELSE IF Odd(y) THEN [t EXCEPT !.L = y + 1, !.pc = "precalc_rise"]
                          ELSE [t EXCEPT !.L = y]
  BY <1>1, <1>9, Zenon DEF GPrecalcFall
<1>14. /\ t \in Items /\ t.R = r.R - e /\ t.Salpha = r.Salpha /\ t.n0 = r.n0 /\ t.h = r.h
       /\ t.sum = r.sum /\ t.max = r.max /\ t.max0 = r.max0 /\ t.pc = r.pc
  <2>1. PICK g : g = r.R - e
    OBVIOUS
  <2>2. t = [r EXCEPT !.R = g]
    BY <1>13, <2>1
  <2> QED
    BY <1>1, <1>12, <2>1, <2>2 DEF Items
<1>15. PICK l, w \in Nat : l = y /\ w = r.Salpha
  BY <1>6, <1>10
<1>16. Becomes(t, l, q)
  BY <1>1, <1>13, <1>14, <1>15 DEF Becomes
<1>17. ClassRuns(r, e, l, w)
  BY <1>7, <1>8, <1>10, <1>11, <1>12, <1>15 DEF ClassRuns
<1>18. Counted(r, e, w, t)
  BY <1>14, <1>15 DEF Counted
<1>19. Job /\ kernel \in Built /\ kernel.precalc /\ AtClass(kernel, Base, id, a, r)
  BY <1>2, <1>3, <1>4, <1>5
<1>20. ItemInv(kernel, Base, id, q)
  BY <1>1, <1>3, <1>16, <1>17, <1>18, <1>19, ClassMoves
<1> QED
  BY <1>13, <1>20 DEF GMoves

\* The members of a class before the first number's test; after the last.
LEMMA AheadOf ==
  ASSUME NEW k, NEW r, r.Salpha \in Nat, r.h \in Nat, r.h <= GShares
  PROVE  /\ GAhead(k, r) \in Nat
         /\ r.h = GShares => GAhead(k, r) = 0
         /\ k.mod # 1 => GAhead(k, r) = 0
         /\ \A q : (k.mod = 1 /\ r.h < GShares /\ q.h = r.h + 1 /\ q.Salpha = r.Salpha)
                     => GAhead(k, r) = r.Salpha + GAhead(k, q)
<1>1. PICK w, h, n3 \in Nat : w = r.Salpha /\ h = r.h /\ n3 = GShares - r.h
  BY GpuConstants
<1>2. w * n3 \in Nat
  BY <1>1, ProductLaws
<1>3. r.h = GShares => w * n3 = 0
  <2>1. r.h = GShares => n3 = 0
    BY <1>1
  <2>2. w * 0 = 0
    OBVIOUS
  <2> QED
    BY <2>1, <2>2
<1>4. ASSUME NEW q, k.mod = 1, r.h < GShares, q.h = r.h + 1, q.Salpha = r.Salpha
      PROVE  GAhead(k, r) = r.Salpha + GAhead(k, q)
  <2>1. PICK g \in Nat : g = GShares - q.h /\ n3 = 1 + g
    BY <1>1, <1>4, GpuConstants
  <2>2. w * (1 + g) = (w * 1) + (w * g) /\ w * 1 = w
    BY <1>1, <2>1, ProductLaws
  <2> QED
    BY <1>1, <1>4, <2>1, <2>2 DEF GAhead
<1> QED
  BY <1>1, <1>2, <1>3, <1>4 DEF GAhead

\* The loop over the members.
LEMMA CalcBegins ==
  ASSUME Job, NEW k \in Built, k.precalc, NEW b, b = Base, NEW id \in Ids,
         NEW a \in 0 .. Classes - 1, NEW h \in 0 .. GShares - 1,
         NEW p, p = (a * GShares) + h, p < (id + 1) * Load,
         NEW m, m = 3 + 4 * a, GKept(k, GNumber(k, b, p)),
         NEW w, w = OddStepsIn(m, ClassLog),
         NEW s, NEW x, NEW v, NEW o, Between(k, b, id, p, s, x, v, o),
         NEW t, NEW z, Ledger(k, b, id, p, t, w + z),
         NEW y, y = ((task * GShares) + h) * Pow3[w] + Iterate[ClassLog][m]
  PROVE  /\ y \in Nat /\ y + 1 <= UMax(Width)
         /\ Walks(k, b, id, p, ClassLog, y, t, z, v, o)
<1>1. /\ m \in 0 .. Pow2[ClassLog] - 1
      /\ GNumber(k, b, p) = GMember(m, h)
  BY GNumberAt
<1>2. ClassLive(m)
  <2>1. ClassLive(GMember(m, h)) <=> ClassLive(m)
    BY <1>1, GMemberFacts
  <2> QED
    BY <1>1, <2>1 DEF GKept
<1>3. LET g == OddStepsIn(m, ClassLog)
          u == ((task * GShares) + h) * Pow3[g] + Iterate[ClassLog][m]
      IN  /\ u \in Nat /\ u + 1 <= UMax(Width)
          /\ Comes(GMember(m, h), ClassLog, u)
          /\ OddStepsIn(GMember(m, h), ClassLog) = g
  <2>1. Precalculates
    BY DEF Built
  <2> QED
    BY <1>1, <1>2, <2>1, GClassValue, Zenon
<1>4. /\ y \in Nat /\ y + 1 <= UMax(Width)
      /\ Comes(GMember(m, h), ClassLog, y)
      /\ OddStepsIn(GMember(m, h), ClassLog) = w
  BY <1>3, Zenon
<1>5. GFrom(k) = ClassLog
  BY DEF GFrom
<1>6. Comes(GNumber(k, b, p), GFrom(k), y)
  BY <1>1, <1>4, <1>5
<1>7. Ledger(k, b, id, p, t, OddStepsIn(GNumber(k, b, p), GFrom(k)) + z)
  BY <1>1, <1>4, <1>5
<1>8. Walks(k, b, id, p, GFrom(k), y, t, z, v, o)
  BY <1>4, <1>6, <1>7, WalkBegin
<1> QED
  BY <1>4, <1>5, <1>8

\* The members of the class in hand: each is left out, or its test begins.
LEMMA GCalcMoves ==
  ASSUME NEW id, GJob(id), GCalc(id)
  PROVE  GMoves(id)
<1>1. PICK r : r = item[id] /\ r \in Items /\ r.pc = "calc"
  BY DEF GJob, GCalc
<1>2. PICK k, b : k = kernel /\ b = Base
  OBVIOUS
<1>3. ItemInv(k, b, id, r) /\ k.precalc \in BOOLEAN /\ k \in Built /\ Job /\ id \in Ids
      /\ gtask = task /\ kernel \in Built
  BY <1>1, <1>2 DEF GJob, Built, Kernel
<1>4. k.precalc /\ \E a \in Nat : GClass(k, b, id, a, r)
  BY <1>1, <1>3 DEF ItemInv, GDone, GaveItUp, GPlain
<1>5. PICK a \in Nat : /\ r.n0 = 3 + 4 * a /\ id * ClassLoad <= a /\ a < (id + 1) * ClassLoad
                       /\ ClassLive(r.n0) /\ r.R = 0 /\ ClassAt(r, r.L) /\ r.h <= GShares
                       /\ Books(k, b, id, (a * GShares) + r.h, GAhead(k, r), r)
  BY <1>1, <1>4 DEF GClass
<1>6. PICK h, w, l \in Nat : h = r.h /\ w = r.Salpha /\ l = r.L /\ h <= GShares
  BY <1>1, <1>5 DEF Items
<1>7. PICK p, x : p = (a * GShares) + h /\ x = GAhead(k, r)
  OBVIOUS
<1>8. Between(k, b, id, p, r.sum, x, r.max, r.max0)
  BY <1>5, <1>6, <1>7 DEF Books
<1>9. /\ a \in 0 .. Classes - 1 /\ a + 1 <= (id + 1) * ClassLoad /\ id * ClassLoad <= a + 1
      /\ 3 + 4 * a \in 0 .. Pow2[ClassLog] - 1
      /\ a * GShares \in Nat /\ (a + 1) * GShares = (a * GShares) + GShares
      /\ (a * GShares) + GShares <= (id + 1) * Load /\ (id + 1) * Load \in Nat
      /\ GShares \in Nat \ {0}
  BY <1>3, <1>5, ClassPlaces
<1>10. /\ x \in Nat /\ (h = GShares => x = 0) /\ (k.mod # 1 => x = 0)
       /\ \A q : (k.mod = 1 /\ h < GShares /\ q.h = h + 1 /\ q.Salpha = w)
                     => x = w + GAhead(k, q)
  BY <1>5, <1>6, <1>7, AheadOf
<1>11. w = OddStepsIn(r.n0, ClassLog) /\ l = Iterate[ClassLog][r.n0]
  <2>1. ClassLog - r.R = ClassLog
    BY <1>5, GpuConstants
  <2> QED
    BY <1>5, <1>6, <2>1 DEF ClassAt
<1>12. CASE h = GShares
  <2>1. PICK q : Go(id, q) /\ q = [r EXCEPT !.pc = "for", !.n0 = @ + 4, !.L = 0, !.Salpha = 0, !.h = 0]
    <3>1. SieveLog = ClassLog
      BY <1>2, <1>3, <1>4, SieveOfBuild
    <3> QED
      BY <1>1, <1>6, <1>12, <3>1, Zenon DEF GCalc, GShares
  <2>2. /\ q \in Items /\ q.pc = "for" /\ q.n0 = r.n0 + 4 /\ q.sum = r.sum /\ q.max = r.max
        /\ q.max0 = r.max0
    <3>1. "for" \in GPcs /\ 0 \in 0 .. UMax(Half) /\ r.n0 \in Nat
      BY <1>1, GpuConstants DEF GPcs, Items
    <3>2. PICK u \in Nat : u = r.n0 + 4
      BY <3>1
    <3>3. PICK f1, f2, f3, f4 : /\ f1 = [r EXCEPT !.pc = "for"]
                                /\ f2 = [f1 EXCEPT !.n0 = u] /\ f3 = [f2 EXCEPT !.L = 0]
                                /\ f4 = [f3 EXCEPT !.Salpha = 0]
      OBVIOUS
    <3>4. q = [f4 EXCEPT !.h = 0]
      BY <2>1, <3>2, <3>3, Zenon
    <3>5. f1 \in Items /\ f1.pc = "for" /\ f1.sum = r.sum /\ f1.max = r.max /\ f1.max0 = r.max0
      BY <1>1, <3>1, <3>3 DEF Items
    <3>6. /\ f2 \in Items /\ f2.pc = "for" /\ f2.sum = r.sum /\ f2.max = r.max
          /\ f2.max0 = r.max0 /\ f2.n0 = u
      BY <3>3, <3>5 DEF Items
    <3>7. /\ f3 \in Items /\ f3.pc = "for" /\ f3.sum = r.sum /\ f3.max = r.max
          /\ f3.max0 = r.max0 /\ f3.n0 = u
      BY <3>1, <3>3, <3>6 DEF Items
    <3>8. /\ f4 \in Items /\ f4.pc = "for" /\ f4.sum = r.sum /\ f4.max = r.max
          /\ f4.max0 = r.max0 /\ f4.n0 = u
      BY <3>3, <3>7 DEF Items
    <3>9. /\ q \in Items /\ q.pc = "for" /\ q.sum = r.sum /\ q.max = r.max
          /\ q.max0 = r.max0 /\ q.n0 = u
      BY <3>4, <3>8 DEF Items
    <3> QED
      BY <3>2, <3>9
  <2>3. a + 1 \in Nat /\ q.n0 = 3 + 4 * (a + 1) /\ p = (a + 1) * GShares
    BY <1>5, <1>7, <1>9, <1>12, <2>2
  <2>4. Books(k, b, id, (a + 1) * GShares, 0, q)
    BY <1>8, <1>10, <1>12, <2>2, <2>3 DEF Books
  <2>5. GClass(k, b, id, a + 1, q)
    BY <1>9, <2>2, <2>3, <2>4 DEF GClass
  <2>6. ItemInv(k, b, id, q)
    BY <1>4, <2>2, <2>3, <2>5 DEF ItemInv
  <2> QED
    BY <1>2, <2>1, <2>6 DEF GMoves
<1>13. CASE h # GShares
  <2>1. h \in 0 .. GShares - 1 /\ h < GShares /\ h + 1 <= GShares /\ h + 1 >= 1 /\ h + 1 \in Nat
        /\ (a * GShares) + ((h + 1) - 1) = p
        /\ p + 1 = (a * GShares) + (h + 1) /\ p < (id + 1) * Load /\ p \in Nat
    BY <1>6, <1>7, <1>9, <1>13
  <2>2. PICK m \in 0 .. Pow2[ClassLog] - 1 : m = r.n0 /\ m = 3 + 4 * a
    BY <1>5, <1>9
  <2>3. PICK q0, N0 \in Nat : /\ q0 = (task * GShares) + h
                      /\ N0 = GMember(m, h) /\ N0 = GNumber(k, b, p)
                      /\ (GBase + r.h * Pow2[ClassLog]) \div Pow2[ClassLog] = q0
                      /\ N0 = (GBase + r.h * Pow2[ClassLog]) + r.n0
                      /\ ClassLive(N0)
    <3>1. GNumber(k, b, p) = GMember(m, h)
      BY <1>2, <1>3, <1>4, <1>7, <1>9, <2>1, <2>2, GNumberAt
    <3>2. LET q == task * GShares + h IN
          /\ q \in Nat
          /\ GMember(m, h) \in Nat
          /\ (Base + h * Pow2[ClassLog]) \div Pow2[ClassLog] = q
          /\ ClassLive(GMember(m, h)) <=> ClassLive(m)
      BY <1>3, <2>1, GMemberFacts, Zenon
    <3>3. GBase = Base
      BY <1>3 DEF GBase, Base
    <3> QED
      BY <1>5, <1>6, <2>2, <3>1, <3>2, <3>3 DEF GMember
  <2>4. PICK t : t = [r EXCEPT !.h = @ + 1]
    OBVIOUS
  <2>5. /\ t \in Items /\ t.h = h + 1 /\ t.pc = "calc" /\ t.n0 = r.n0 /\ t.L = r.L /\ t.R = r.R
        /\ t.Salpha = w /\ t.sum = r.sum /\ t.max = r.max /\ t.max0 = r.max0
    BY <1>1, <1>6, <2>1, <2>4 DEF Items
  <2>10. IF ~IsLiveInSieve(N0, k.mod) THEN Go(id, t)
         ELSE IF Multiply(q0, w) + l > UMax(Width) THEN Overflow(id)
         ELSE Go(id, [t EXCEPT !.pc = "rise", !.n = (Multiply(q0, w) + l) + 1, !.N0 = N0,
                        !.sum = IF k.mod = 1 THEN @ ELSE Checksum(@ + w)])
    <3>1. IF ~IsLiveInSieve((GBase + r.h * Pow2[ClassLog]) + r.n0, kernel.mod) THEN Go(id, t)
         ELSE IF Multiply((GBase + r.h * Pow2[ClassLog]) \div Pow2[ClassLog], r.Salpha)
                   + r.L > UMax(Width) THEN Overflow(id)
         ELSE Go(id, [t EXCEPT !.pc = "rise",
                        !.n = (Multiply((GBase + r.h * Pow2[ClassLog])
                                          \div Pow2[ClassLog], r.Salpha) + r.L) + 1,
                        !.N0 = (GBase + r.h * Pow2[ClassLog]) + r.n0,
                        !.sum = IF kernel.mod = 1 THEN @ ELSE Checksum(@ + r.Salpha)])
      <4>1. SieveLog = ClassLog
        BY <1>2, <1>3, <1>4, SieveOfBuild
      <4> QED
        BY <1>1, <1>6, <1>13, <2>4, <4>1, Zenon DEF GCalc, GShares
    <3> QED
      BY <1>2, <1>6, <2>3, <3>1, Zenon
  <2>6. CASE ~IsLiveInSieve(N0, k.mod)
    <3>1. Go(id, t)
      BY <2>6, <2>10
    <3>2. k.mod # 1
      <4>1. Dead(1) = {}
        BY DEF Dead
      <4> QED
        BY <2>6, <4>1 DEF IsLiveInSieve
    <3>3. ~GKept(k, GNumber(k, b, p))
      BY <2>3, <2>6 DEF GKept
    <3>4. Between(k, b, id, p + 1, r.sum, x, r.max, r.max0)
      BY <1>2, <1>3, <1>8, <2>1, <3>3, BetweenSkip
    <3>5. GAhead(k, t) = x
      BY <1>10, <3>2 DEF GAhead
    <3>6. Books(k, b, id, (a * GShares) + t.h, GAhead(k, t), t)
      BY <2>1, <2>5, <3>4, <3>5 DEF Books
    <3>7. ClassAt(t, t.L)
      BY <1>5, <1>6, <2>5 DEF ClassAt
    <3>8. GClass(k, b, id, a, t)
      <4>1. /\ t.n0 = 3 + 4 * a /\ id * ClassLoad <= a /\ a < (id + 1) * ClassLoad
            /\ a <= (id + 1) * ClassLoad /\ ClassLive(t.n0) /\ t.R = 0 /\ t.h <= GShares
        BY <1>3, <1>5, <2>1, <2>5, ShareBounds
      <4> QED
        BY <2>5, <3>6, <3>7, <4>1 DEF GClass
    <3>9. ItemInv(k, b, id, t)
      BY <1>4, <2>5, <3>8 DEF ItemInv
    <3> QED
      BY <1>2, <3>1, <3>9 DEF GMoves
  <2>7. CASE IsLiveInSieve(N0, k.mod)
    <3>1. PICK N : N = Multiply(q0, w) + l
      OBVIOUS
    <3>2. IF N > UMax(Width) THEN Overflow(id)
          ELSE Go(id, [t EXCEPT !.pc = "rise", !.n = N + 1, !.N0 = N0,
                        !.sum = IF k.mod = 1 THEN @ ELSE Checksum(@ + w)])
      BY <2>7, <2>10, <3>1
    <3>3. CASE N > UMax(Width)
      BY <3>2, <3>3, OverflowMoves
    <3>4. CASE ~(N > UMax(Width))
      <4>1. N = (q0 * Pow3[w]) + l
        <5>1. Multiply(q0, w) \in {q0 * Pow3[w], UMax(Width) + 1}
          BY DEF Multiply
        <5>2. ASSUME Multiply(q0, w) = UMax(Width) + 1
              PROVE  FALSE
          BY <3>1, <3>4, <5>2, GpuConstants
        <5> QED
          BY <3>1, <5>1, <5>2
      <4>2. PICK s : s = (IF k.mod = 1 THEN r.sum ELSE Checksum(r.sum + w))
        OBVIOUS
      <4>3. PICK u : u = [t EXCEPT !.pc = "rise", !.n = N + 1, !.N0 = N0, !.sum = s]
        OBVIOUS
      <4>4. Go(id, u)
        BY <2>5, <3>2, <3>4, <4>2, <4>3, Zenon
      <4>5. GKept(k, GNumber(k, b, p))
        <5>1. IsLiveInSieve(GNumber(k, b, p), k.mod) /\ ClassLive(GNumber(k, b, p))
          BY <2>3, <2>7, Zenon
        <5> QED
          BY <1>4, <5>1, Zenon DEF GKept
      <4>6. r.sum \in Nat /\ s \in 0 .. UMax(SumBits)
        <5>1. r.sum \in 0 .. UMax(SumBits) /\ r.sum \in Nat
          BY <1>1 DEF Items
        <5>2. PICK e \in Nat : e = r.sum + w
          BY <5>1
        <5>3. Checksum(e) \in 0 .. UMax(SumBits)
          BY <5>2, ChecksumValue
        <5> QED
          BY <4>2, <5>1, <5>2, <5>3
      <4>7. N \in Nat /\ N + 1 <= UMax(Width) /\ N + 1 \in 0 .. UMax(Width)
        <5>1. LET o == OddStepsIn(m, ClassLog)
                  v == ((task * GShares) + h) * Pow3[o] + Iterate[ClassLog][m]
              IN  v \in Nat /\ v + 1 <= UMax(Width)
          <6>1. ClassLive(m) /\ Precalculates
            BY <1>2, <1>3, <1>4, <1>5, <2>2, SieveOfBuild
          <6> QED
            BY <1>3, <2>1, <2>2, <6>1, GClassValue, Zenon
        <5>2. w = OddStepsIn(m, ClassLog) /\ l = Iterate[ClassLog][m]
          BY <1>11, <2>2
        <5>3. /\ ((task * GShares) + h) * Pow3[w] + l \in Nat
              /\ (((task * GShares) + h) * Pow3[w] + l) + 1 <= UMax(Width)
          BY <5>1, <5>2, Zenon
        <5>4. N \in Nat /\ N + 1 <= UMax(Width)
          BY <2>3, <4>1, <5>3, Zenon
        <5> QED
          BY <5>4, GpuConstants
      <4>8. /\ u \in Items /\ u.pc = "rise" /\ u.n = N + 1 /\ u.N0 = N0 /\ u.sum = s
            /\ u.h = h + 1 /\ u.n0 = r.n0 /\ u.L = r.L /\ u.R = r.R /\ u.Salpha = w
            /\ u.max = r.max /\ u.max0 = r.max0
        <5>1. PICK e \in 0 .. UMax(Width) : e = N + 1
          BY <4>7
        <5>2. PICK f1, f2, f3 : /\ f1 = [t EXCEPT !.pc = "rise"] /\ f2 = [f1 EXCEPT !.n = e]
                                /\ f3 = [f2 EXCEPT !.N0 = N0]
          OBVIOUS
        <5>3. u = [f3 EXCEPT !.sum = s]
          BY <4>3, <5>1, <5>2, Zenon
        <5>4. "rise" \in GPcs
          BY DEF GPcs
        <5>5. /\ f1 \in Items /\ f1.pc = "rise" /\ f1.h = h + 1 /\ f1.n0 = r.n0 /\ f1.L = r.L
              /\ f1.R = r.R /\ f1.Salpha = w /\ f1.max = r.max /\ f1.max0 = r.max0
          BY <2>5, <5>2, <5>4 DEF Items
        <5>6. /\ f2 \in Items /\ f2.pc = "rise" /\ f2.h = h + 1 /\ f2.n0 = r.n0 /\ f2.L = r.L
              /\ f2.R = r.R /\ f2.Salpha = w /\ f2.max = r.max /\ f2.max0 = r.max0
              /\ f2.n = e
          BY <5>1, <5>2, <5>5 DEF Items
        <5>7. /\ f3 \in Items /\ f3.pc = "rise" /\ f3.h = h + 1 /\ f3.n0 = r.n0 /\ f3.L = r.L
              /\ f3.R = r.R /\ f3.Salpha = w /\ f3.max = r.max /\ f3.max0 = r.max0
              /\ f3.n = e /\ f3.N0 = N0
          BY <5>2, <5>6 DEF Items
        <5>8. /\ u \in Items /\ u.pc = "rise" /\ u.h = h + 1 /\ u.n0 = r.n0 /\ u.L = r.L
              /\ u.R = r.R /\ u.Salpha = w /\ u.max = r.max /\ u.max0 = r.max0
              /\ u.n = e /\ u.N0 = N0 /\ u.sum = s
          BY <4>6, <5>3, <5>7 DEF Items
        <5> QED
          BY <5>1, <5>8
      <4>9. PICK z \in Nat : z = GAhead(k, u)
        BY <1>6, <2>1, <4>8, AheadOf
      <4>10. Ledger(k, b, id, p, s, w + z)
        <5>1. PICK c : c = r.sum /\ Ledger(k, b, id, p, c, x)
          BY <1>8 DEF Between
        <5>2. CASE k.mod = 1
          <6>1. x = w + z
            BY <1>10, <2>1, <4>8, <4>9, <5>2
          <6> QED
            BY <4>2, <5>1, <5>2, <6>1
        <5>3. CASE k.mod # 1
          <6>1. x = 0 /\ w = 0 + w /\ 0 \in Nat
            BY <1>6, <1>10, <5>3
          <6>2. Ledger(k, b, id, p, c, 0)
            BY <5>1, <6>1
          <6>3. Ledger(k, b, id, p, Checksum(c + w), w)
            BY <1>6, <6>1, <6>2, LedgerAdd
          <6>4. z = 0 /\ w + z = w
            BY <1>6, <4>9, <5>3 DEF GAhead
          <6> QED
            BY <4>2, <5>1, <5>3, <6>3, <6>4
        <5> QED
          BY <5>2, <5>3
      <4>11. Walks(k, b, id, p, ClassLog, N, s, z, r.max, r.max0)
        <5>1. PICK c, v, o : c = r.sum /\ v = r.max /\ o = r.max0
          OBVIOUS
        <5>2. Between(k, b, id, p, c, x, v, o)
          BY <1>8, <5>1
        <5>3. w = OddStepsIn(m, ClassLog)
          BY <1>11, <2>2
        <5>4. N = ((task * GShares) + h) * Pow3[w] + Iterate[ClassLog][m]
          BY <1>11, <2>2, <2>3, <4>1
        <5>5. Walks(k, b, id, p, ClassLog, N, s, z, v, o)
          BY <1>2, <1>3, <1>4, <1>7, <1>9, <2>1, <2>2, <4>5, <4>10, <5>2, <5>3, <5>4, CalcBegins
        <5> QED
          BY <5>1, <5>5
      <4>12. Test(k, b, id, (a * GShares) + (u.h - 1), u.n - 1, GAhead(k, u), u)
        <5>1. (a * GShares) + (u.h - 1) = p /\ u.n - 1 = N /\ ClassLog \in Nat
          BY <2>1, <4>7, <4>8, GpuConstants
        <5>2. Walks(k, b, id, p, ClassLog, N, u.sum, z, u.max, u.max0)
          BY <4>8, <4>11
        <5>3. Test(k, b, id, p, N, z, u)
          BY <2>3, <4>7, <4>8, <5>1, <5>2 DEF Test
        <5> QED
          BY <4>9, <5>1, <5>3
      <4>13. ClassAt(u, u.L)
        BY <1>5, <1>6, <4>8 DEF ClassAt
      <4>14. GClass(k, b, id, a, u)
        <5>1. /\ u.n0 = 3 + 4 * a /\ id * ClassLoad <= a /\ a < (id + 1) * ClassLoad
              /\ a <= (id + 1) * ClassLoad /\ ClassLive(u.n0) /\ u.R = 0 /\ u.h <= GShares
              /\ u.h >= 1 /\ u.n > 0
          BY <1>3, <1>5, <2>1, <4>7, <4>8, ShareBounds
        <5> QED
          BY <4>8, <4>12, <4>13, <5>1 DEF GClass
      <4>15. ItemInv(k, b, id, u)
        BY <1>4, <4>8, <4>14 DEF ItemInv
      <4> QED
        BY <1>2, <4>4, <4>15 DEF GMoves
    <3> QED
      BY <3>3, <3>4
  <2> QED
    BY <2>6, <2>7
<1> QED
  BY <1>12, <1>13

\* kernel32-precalc's round.
LEMMA GRiseMoves ==
  ASSUME NEW id, GJob(id), GRise(id)
  PROVE  GMoves(id)
<1>1. PICK r : r = item[id] /\ r \in Items /\ r.pc = "rise"
  BY DEF GJob, GRise
<1>2. PICK k, b : k = kernel /\ b = Base
  OBVIOUS
<1>3. ItemInv(k, b, id, r) /\ k.precalc \in BOOLEAN /\ k \in Built /\ Job /\ id \in Ids
      /\ kernel \in Built
  BY <1>1, <1>2 DEF GJob, Built, Kernel
<1>4. k.precalc /\ \E g \in Nat : GClass(k, b, id, g, r)
  BY <1>1, <1>3 DEF ItemInv, GDone, GaveItUp, GPlain
<1>5. PICK g \in Nat : /\ r.n0 = 3 + 4 * g /\ id * ClassLoad <= g /\ g < (id + 1) * ClassLoad
                       /\ g <= (id + 1) * ClassLoad
                       /\ ClassLive(r.n0) /\ r.R = 0 /\ ClassAt(r, r.L) /\ r.h >= 1
                       /\ r.h <= GShares /\ r.n > 0
                       /\ Test(k, b, id, (g * GShares) + (r.h - 1), r.n - 1, GAhead(k, r), r)
  BY <1>1, <1>4 DEF GClass
<1>6. PICK p, y0, x : p = (g * GShares) + (r.h - 1) /\ y0 = r.n - 1 /\ x = GAhead(k, r)
  OBVIOUS
<1>7. Test(k, b, id, p, y0, x, r)
  BY <1>5, <1>6
<1>8. x \in Nat
  BY <1>1, <1>5, <1>6, AheadOf DEF Items
<1>9. PICK c \in Nat : Walks(k, b, id, p, c, y0, r.sum, x, r.max, r.max0)
  BY <1>7 DEF Test
<1>10. /\ r.N0 = GNumber(k, b, p) /\ y0 + 1 <= UMax(Width) /\ UMax(Width) \in Nat
       /\ r.n \in Nat \ {0} /\ y0 \in Nat /\ r.n = y0 + 1
       /\ r.sum \in Nat /\ r.N0 \in Nat /\ r.max \in Nat /\ r.h \in Nat
  BY <1>1, <1>5, <1>6, <1>7, GpuConstants DEF Test, Items
<1>11. p \in Nat /\ y0 >= r.N0 /\ r.N0 >= 3
  BY <1>2, <1>3, <1>9, <1>10, WalkFacts
<1>12. p + 1 = (g * GShares) + r.h
  <2>1. g * GShares \in Nat
    BY GpuConstants, ProductLaws
  <2> QED
    BY <1>6, <1>10, <2>1
<1>13. PICK a, m : a = Alpha(r.n, Quarter, LUT_SIZE32) /\ m = r.n \div Pow2[a]
  OBVIOUS
<1>14. a \in Nat /\ m \in Nat \ {0} /\ r.n = Pow2[a] * m
  <2>1. PICK e \in Nat : e = r.n /\ e # 0
    BY <1>10
  <2>2. a = Alpha(e, Quarter, LUT_SIZE32) /\ m = e \div Pow2[a]
    BY <1>13, <2>1
  <2>3. a \in Nat /\ e = Pow2[a] * (e \div Pow2[a]) /\ e \div Pow2[a] \in Nat
        /\ e \div Pow2[a] # 0
    BY <2>1, <2>2, AlphaOf
  <2> QED
    BY <2>1, <2>2, <2>3
<1>15. CASE m > UMax(Width) \div Pow2[2 * a]
  <2>1. Overflow(id)
    BY <1>1, <1>13, <1>15 DEF GRise
  <2> QED
    BY <2>1, OverflowMoves
<1>16. CASE ~(m > UMax(Width) \div Pow2[2 * a])
  <2>1. PICK s, f, y, u :
          /\ s = [r EXCEPT !.sum = Checksum(@ + a)] /\ f = m * Pow3[a]
          /\ y = f - 1 /\ u = Halve(s, y, "rise")
          /\ ~Odd(f) => Go(id, [s EXCEPT !.n = f])
          /\ Odd(f) => Go(id, IF u.pc = "rise" THEN [u EXCEPT !.n = @ + 1] ELSE u)
    BY <1>1, <1>13, <1>16, Zenon DEF GRise
  <2>2. /\ s \in Items /\ s.sum = Checksum(r.sum + a) /\ s.max = r.max /\ s.max0 = r.max0
        /\ s.N0 = r.N0 /\ s.n0 = r.n0 /\ s.pc = "rise" /\ s.h = r.h /\ s.L = r.L /\ s.R = r.R
        /\ s.Salpha = r.Salpha
    <3>1. PICK e \in Nat : e = r.sum + a
      BY <1>10, <1>14
    <3>2. Checksum(e) \in 0 .. UMax(SumBits)
      BY <3>1, ChecksumValue
    <3>3. s = [r EXCEPT !.sum = Checksum(e)]
      BY <2>1, <3>1
    <3>4. PICK d \in 0 .. UMax(SumBits) : d = Checksum(e)
      BY <3>2
    <3>5. s = [r EXCEPT !.sum = d]
      BY <3>3, <3>4
    <3>6. /\ s \in Items /\ s.sum = d /\ s.max = r.max /\ s.max0 = r.max0 /\ s.N0 = r.N0
          /\ s.n0 = r.n0 /\ s.pc = "rise" /\ s.h = r.h /\ s.L = r.L /\ s.R = r.R
          /\ s.Salpha = r.Salpha
      BY <1>1, <3>5 DEF Items
    <3> QED
      BY <3>1, <3>4, <3>6
  <2>3. PICK d : d = c + a /\ Walks(k, b, id, p, d, y, s.sum, x, r.max, r.max0) /\ y0 <= y
    <3>1. y0 = (Pow2[a] * m) - 1
      BY <1>10, <1>14
    <3>2. PICK v, h, w, o : v = (m * Pow3[a]) - 1 /\ h = r.sum /\ w = r.max /\ o = r.max0
      OBVIOUS
    <3>3. Walks(k, b, id, p, c, y0, h, x, w, o)
      BY <1>9, <3>2
    <3>4. Walks(k, b, id, p, c + a, v, Checksum(h + a), x, w, o) /\ y0 <= v
      BY <1>2, <1>3, <1>8, <1>14, <3>1, <3>2, <3>3, WalkRise
    <3> QED
      BY <2>1, <2>2, <3>2, <3>4
  <2>4. /\ y \in 0 .. UMax(Width) /\ y + 1 <= UMax(Width) /\ y > 0 /\ f = y + 1
        /\ f \in 0 .. UMax(Width) /\ d \in Nat
    <3>1. m <= UMax(Width) \div Pow2[2 * a]
      <4>1. PICK e \in Nat : e = Pow2[2 * a] /\ e # 0
        BY <1>14, PowerBounds
      <4>2. UMax(Width) \div e \in Nat
        BY <1>10, <4>1
      <4> QED
        BY <1>14, <1>16, <4>1, <4>2
    <3>2. m * Pow3[a] <= UMax(Width) /\ m * Pow3[a] \in Nat
      BY <1>10, <1>14, <3>1, ProductFits, PowerBounds, ProductLaws
    <3>3. f \in Nat /\ f <= UMax(Width) /\ y = f - 1
      BY <2>1, <3>2
    <3> QED
      BY <1>10, <1>11, <1>14, <2>3, <3>3
  <2>7. ASSUME NEW q \in Items, q.n0 = r.n0, q.pc = "rise", q.h = r.h, q.L = r.L, q.R = r.R,
               q.Salpha = r.Salpha, q.n > 0, Test(k, b, id, p, q.n - 1, x, q)
        PROVE  ItemInv(k, b, id, q)
    <3>1. GAhead(k, q) = x /\ ClassAt(q, q.L)
      BY <1>5, <1>6, <2>7 DEF GAhead, ClassAt
    <3>2. Test(k, b, id, (g * GShares) + (q.h - 1), q.n - 1, GAhead(k, q), q)
      BY <1>6, <2>7, <3>1
    <3>3. GClass(k, b, id, g, q)
      BY <1>5, <2>7, <3>1, <3>2 DEF GClass
    <3> QED
      BY <1>4, <3>3 DEF ItemInv
  <2>5. CASE ~Odd(f)
    <3>1. PICK q : Go(id, q) /\ q = [s EXCEPT !.n = f]
      BY <2>1, <2>5
    <3>2. /\ q \in Items /\ q.sum = s.sum /\ q.max = r.max /\ q.max0 = r.max0 /\ q.n = f
          /\ q.N0 = r.N0 /\ q.n0 = r.n0 /\ q.pc = "rise" /\ q.h = r.h /\ q.L = r.L /\ q.R = r.R
          /\ q.Salpha = r.Salpha
      BY <2>2, <2>4, <3>1 DEF Items
    <3>3. Test(k, b, id, p, y, x, q)
      BY <1>10, <2>3, <2>4, <3>2 DEF Test
    <3>4. q.n > 0 /\ q.n - 1 = y
      BY <2>4, <3>2
    <3>5. ItemInv(k, b, id, q)
      BY <2>7, <3>2, <3>3, <3>4
    <3> QED
      BY <1>2, <3>1, <3>5 DEF GMoves
  <2>6. CASE Odd(f)
    <3>1. PICK q : Go(id, q) /\ q = IF u.pc = "rise" THEN [u EXCEPT !.n = @ + 1] ELSE u
      BY <2>1, <2>6
    <3>2. HalvedItem(s, y, "rise", u)
      BY <1>2, <1>3, <2>1, <2>2, <2>4, HalveFields
    <3>3. PICK z \in Nat, v \in Nat \ {0} :
            /\ y = Pow2[z] * v /\ v <= y
            /\ \/ v >= r.N0 /\ u.pc = "rise" /\ u.n = v /\ u.n0 = r.n0
               \/ v < r.N0 /\ u.pc = "calc" /\ u.n0 = r.n0
      BY <1>2, <1>4, <2>2, <3>2 DEF HalvedItem
    <3>4. /\ u \in Items /\ u.sum = s.sum /\ u.N0 = r.N0 /\ u.h = r.h /\ u.L = r.L
          /\ u.R = r.R /\ u.Salpha = r.Salpha
          /\ u.max = (IF y > r.max THEN y ELSE r.max)
          /\ u.max0 = (IF y > r.max THEN GNumber(k, b, p) ELSE r.max0)
      BY <1>10, <2>2, <3>2 DEF HalvedItem
    <3>6. /\ v >= GNumber(k, b, p) =>
                \E l \in Nat : Walks(k, b, id, p, l, v, u.sum, x, u.max, u.max0)
          /\ v < GNumber(k, b, p) => Between(k, b, id, p + 1, u.sum, x, u.max, u.max0)
      <4>1. PICK w, o, h, j, e : w = u.max /\ o = u.max0 /\ h = u.sum /\ j = r.max /\ e = r.max0
        OBVIOUS
      <4>2. Walks(k, b, id, p, d, y, h, x, j, e)
        BY <2>3, <3>4, <4>1
      <4>3. w = (IF y > j THEN y ELSE j) /\ o = (IF y > j THEN GNumber(k, b, p) ELSE e)
        BY <3>4, <4>1
      <4>4. y = Pow2[z] * v
        BY <3>3
      <4>5. /\ v >= GNumber(k, b, p) => \E l \in Nat : Walks(k, b, id, p, l, v, h, x, w, o)
            /\ v < GNumber(k, b, p) => Between(k, b, id, p + 1, h, x, w, o)
        <5>1. Noted(y, j, e, GNumber(k, b, p), w, o) /\ Evens(y, z, v)
          BY <4>3, <4>4, Zenon DEF Noted, Evens
        <5> QED
          BY <1>2, <1>3, <1>8, <4>2, <5>1, Halved
      <4> QED
        BY <4>1, <4>5
    <3>5. ItemInv(k, b, id, q)
      <4>1. CASE v >= r.N0 /\ u.pc = "rise" /\ u.n = v /\ u.n0 = r.n0
        <5>1. PICK e \in 0 .. UMax(Width) : e = v + 1 /\ e - 1 = v /\ e > 0
          BY <1>10, <2>4, <3>3
        <5>2. q = [u EXCEPT !.n = e]
          BY <3>1, <4>1, <5>1
        <5>3. /\ q \in Items /\ q.sum = u.sum /\ q.max = u.max /\ q.max0 = u.max0 /\ q.n = e
              /\ q.N0 = r.N0 /\ q.n0 = r.n0 /\ q.pc = "rise" /\ q.h = r.h /\ q.L = r.L
              /\ q.R = r.R /\ q.Salpha = r.Salpha
          BY <3>4, <4>1, <5>1, <5>2 DEF Items
        <5>4. Test(k, b, id, p, v, x, q)
          BY <1>10, <2>4, <3>3, <3>6, <4>1, <5>3 DEF Test
        <5>5. q.n > 0 /\ q.n - 1 = v
          BY <5>1, <5>3
        <5> QED
          BY <2>7, <5>3, <5>4, <5>5
      <4>2. CASE v < r.N0 /\ u.pc = "calc" /\ u.n0 = r.n0
        <5>1. q = u
          BY <3>1, <4>2
        <5>2. GAhead(k, q) = x /\ ClassAt(q, q.L)
          BY <1>5, <1>6, <3>4, <4>2, <5>1 DEF GAhead, ClassAt
        <5>3. Books(k, b, id, (g * GShares) + q.h, GAhead(k, q), q)
          BY <1>10, <1>12, <3>4, <3>6, <4>2, <5>1, <5>2 DEF Books
        <5>4. GClass(k, b, id, g, q)
          BY <1>5, <3>4, <4>2, <5>1, <5>2, <5>3 DEF GClass
        <5> QED
          BY <1>4, <3>4, <5>1, <5>4 DEF ItemInv
      <4> QED
        BY <3>3, <4>1, <4>2
    <3> QED
      BY <1>2, <3>1, <3>5 DEF GMoves
  <2> QED
    BY <2>5, <2>6
<1> QED
  BY <1>15, <1>16

-----------------------------------------------------------------------------
(* The kernel and the host.                                                  *)

\* The item's share of the numbers is dealt with.
Shared(k, b, id, r) ==
  /\ Ledger(k, b, id, (id + 1) * Load, r.sum, 0)
  /\ Passed(k, b, id, (id + 1) * Load, r.max)
  /\ \E c \in id * Load .. (id + 1) * Load - 1 :
       /\ r.max0 = GNumber(k, b, c) /\ GKept(k, r.max0)
       /\ r.max <= PeakFrom(r.max0, GFrom(k))

\* An item that has ended with a sum other than zero has dealt with its share,
\* and there was a number in it.
LEMMA SharedAtEnd ==
  ASSUME Job, NEW k \in Built, NEW b, b = Base, NEW id \in Ids, NEW r,
         ItemInv(k, b, id, r), r.pc = "end", r.sum # 0
  PROVE  Shared(k, b, id, r) /\ r \in Items
<1>1. Books(k, b, id, (id + 1) * Load, 0, r) /\ r \in Items
  BY DEF ItemInv, GDone, GaveItUp, GPlain, GClass
<1>2. PICK p, s, v, o : p = (id + 1) * Load /\ s = r.sum /\ v = r.max /\ o = r.max0
  OBVIOUS
<1>3. Ledger(k, b, id, p, s, 0) /\ Passed(k, b, id, p, v) /\ Named(k, b, id, p, v, o) /\ v \in Nat
  BY <1>1, <1>2 DEF Books, Between
<1>4. /\ id * Load \in Nat /\ p \in Nat /\ p = (id * Load) + Load /\ Load \in Nat \ {0} /\ p <= All
      /\ All \in Nat
  BY <1>2, ShareBounds, GpuConstants
<1>5. PICK f \in Nat : f = id * Load /\ p = f + Load
  BY <1>4
<1>6. \E c \in f .. p - 1 : GKept(k, GNumber(k, b, c))
  <2> SUFFICES ASSUME \A c \in f .. p - 1 : ~GKept(k, GNumber(k, b, c))
               PROVE  FALSE
    OBVIOUS
  <2>1. PICK z : z = 0
    OBVIOUS
  <2>2. Checksum(0) = 0
    BY ChecksumValue, GpuConstants
  <2>3. Between(k, b, id, f, z, z, z, o)
    <3>1. GTotal(k, b, f) = GTotal(k, b, id * Load) + 0
      BY <1>4, <1>5, GTotalNext
    <3>2. Ledger(k, b, id, f, z, z)
      BY <2>1, <2>2, <3>1 DEF Ledger
    <3>3. id * Load .. f - 1 = {}
      BY <1>4, <1>5
    <3> QED
      BY <1>4, <1>5, <2>1, <3>2, <3>3, ShareBounds DEF Between, Passed, Named
  <2>4. Between(k, b, id, f + Load, z, z, z, o)
    <3>1. PICK e \in Nat : e = Load /\ f + e <= (id + 1) * Load
      BY <1>2, <1>4, <1>5
    <3>2. \A h \in 0 .. e - 1 : ~GKept(k, GNumber(k, b, f + h))
      BY <1>5, <3>1
    <3> QED
      BY <2>3, <3>1, <3>2, BetweenSkipMany
  <2>5. Ledger(k, b, id, p, 0, 0)
    BY <1>5, <2>1, <2>4 DEF Between
  <2>6. PICK w \in Nat : /\ GTotal(k, b, p) = GTotal(k, b, id * Load) + w
                         /\ 0 = Checksum(w + 0)
    BY <2>5 DEF Ledger
  <2>7. PICK u \in Nat : /\ GTotal(k, b, p) = GTotal(k, b, id * Load) + u
                         /\ s = Checksum(u + 0)
    BY <1>3 DEF Ledger
  <2>8. GTotal(k, b, id * Load) \in Nat
    BY <1>4, GTotalNext
  <2>9. w = u
    BY <2>6, <2>7, <2>8
  <2> QED
    BY <1>2, <2>6, <2>7, <2>9
<1>7. PICK c \in f .. p - 1 : GKept(k, GNumber(k, b, c))
  BY <1>6
<1>8. PICK m, g \in Nat : m = GNumber(k, b, c) /\ m >= 3 /\ g = GFrom(k)
  <2>1. c \in 0 .. All - 1
    BY <1>4, <1>5
  <2>2. GNumber(k, b, c) \in Nat /\ GNumber(k, b, c) >= 3
    BY <2>1, GNumberFacts
  <2>3. GFrom(k) \in Nat
    BY GpuConstants DEF GFrom
  <2> QED
    BY <2>2, <2>3
<1>9. v # 0
  <2>1. /\ \E d \in Nat : d > g /\ Descends(m, d)
        /\ PeakFrom(m, g) <= v
    BY <1>3, <1>5, <1>7, <1>8 DEF Passed
  <2>2. PICK d \in Nat : d > g /\ Descends(m, d)
    BY <2>1
  <2>3. PeakFrom(m, g) \in Nat /\ m <= PeakFrom(m, g)
    BY <1>8, <2>2, PeakOfTested
  <2> QED
    BY <1>8, <2>1, <2>3
<1>10. \E e \in id * Load .. p - 1 : /\ o = GNumber(k, b, e) /\ GKept(k, o)
                                     /\ v <= PeakFrom(o, GFrom(k))
  BY <1>3, <1>9 DEF Named
<1> QED
  BY <1>1, <1>2, <1>3, <1>10 DEF Shared

\* Each number of the task is some item's.
LEMMA ShareOfPlace ==
  ASSUME NEW p \in 0 .. All - 1
  PROVE  \E id \in Ids : id * Load <= p /\ p <= (id + 1) * Load - 1 /\ p \in id * Load .. (id + 1) * Load - 1
<1>1. /\ Pow2[TaskUnits] * Load = All /\ Load \in Nat \ {0} /\ Pow2[TaskUnits] \in Nat \ {0}
      /\ p \in Nat /\ All \in Nat
  BY GpuConstants
<1>2. PICK id \in Nat, r \in 0 .. Load - 1 : p = Load * id + r
  <2>1. /\ p \div Load \in Nat /\ p % Load \in 0 .. Load - 1
        /\ p = Load * (p \div Load) + (p % Load)
    BY <1>1, Division
  <2> QED
    BY <2>1, Zenon
<1>3. Load * id = id * Load /\ id * Load \in Nat
  BY <1>1, ProductLaws
<1>4. id < Pow2[TaskUnits]
  <2> SUFFICES ASSUME Pow2[TaskUnits] <= id PROVE FALSE
    BY <1>1
  <2>1. Pow2[TaskUnits] * Load <= id * Load
    BY <1>1, ProductOrder
  <2> QED
    BY <1>1, <1>2, <1>3, <2>1
<1>5. id \in Ids
  BY <1>1, <1>4 DEF Ids
<1>6. (id + 1) * Load = (id * Load) + Load /\ (id + 1) * Load \in Nat
  BY <1>5, ShareBounds
<1>7. PICK y, z \in Nat : y = id * Load /\ z = (id + 1) * Load /\ z = y + Load
  BY <1>3, <1>6
<1>8. y <= p /\ p <= z - 1 /\ p \in y .. z - 1
  BY <1>1, <1>2, <1>3, <1>7
<1> QED
  BY <1>5, <1>7, <1>8

\* What the host of the build k reports of the task from b on, when it halts:
\* what the items r say, summed up.
HostReports(k, b, r, s, m) ==
  /\ \A id \in Ids : r[id].pc = "end" /\ r[id].max0 # Unset
  /\ s = Checksum(GTotal(k, b, All))
  /\ \E p \in 0 .. All - 1 : m.n0 = GNumber(k, b, p) /\ GKept(k, m.n0)
  /\ \A p \in 0 .. All - 1 : GKept(k, GNumber(k, b, p)) =>
       /\ \E d \in Nat : d > GFrom(k) /\ Descends(GNumber(k, b, p), d)
       /\ PeakFrom(GNumber(k, b, p), GFrom(k)) <= UMax(Width)
       /\ ~k.precalc => PeakFrom(GNumber(k, b, p), 0) <= PeakFrom(m.n0, 0)

\* The inductive invariant of the GPU worker, and of the CPU worker's argument.
GpuInv ==
  /\ Job /\ gtask = task /\ kernel \in Built /\ item \in [Ids -> Items]
  /\ \A id \in Ids : ItemInv(kernel, Base, id, item[id])
  /\ host \in {"kernel", "halted", "aborted", "no_gpu", "failed"}
  /\ host = "halted" => HostReports(kernel, Base, item, gsum, gmax)

\* It holds when the kernel is started.
LEMMA GpuStarts ==
  ASSUME Job, gtask = task, GpuInit
  PROVE  GpuInv
<1>1. kernel \in Built /\ kernel.precalc \in BOOLEAN /\ host = "kernel"
  <2>1. kernel \in Kernels /\ host = "kernel"
    BY DEF GpuInit
  <2>2. kernel \in Kernel
    BY <2>1, GpuAssumption
  <2>3. kernel.precalc => Precalculates
    BY <2>1, Zenon DEF Precalculates
  <2> QED
    BY <2>1, <2>2, <2>3 DEF Built, Kernel
<1>2. ASSUME NEW id \in Ids
      PROVE  /\ item[id] \in Items /\ ItemInv(kernel, Base, id, item[id])
  <2>1. PICK r, k, b : r = item[id] /\ k = kernel /\ b = Base
    OBVIOUS
  <2>2. r = FirstItem(id)
    BY <2>1 DEF GpuInit
  <2>3. /\ ~k.precalc => r.n0 = b + (3 + 4 * (id * Load))
        /\ k.precalc => r.n0 = 3 + 4 * (id * ClassLoad)
    BY <1>1, <2>1, <2>2, ShareEnds
  <2>4. /\ id * Load \in Nat /\ id * ClassLoad \in Nat /\ Base \in Nat
        /\ (id + 1) * Load = (id * Load) + Load /\ (id + 1) * ClassLoad = (id * ClassLoad) + ClassLoad
        /\ (id * ClassLoad) * GShares = id * Load /\ (id + 1) * Load <= All
        /\ Load \in Nat /\ ClassLoad \in Nat /\ All \in Nat
    BY ShareBounds, GpuConstants, JobKinds
  <2>5. r.n0 \in Nat
    BY <1>1, <2>1, <2>3, <2>4
  <2>6. /\ r.pc = "for" /\ r.sum = 0 /\ r.max = 0 /\ r.max0 \in Int /\ r \in Items
    <3>1. GBase = Base /\ "for" \in GPcs /\ GBase \in Int
      BY <2>4 DEF GBase, Base, GPcs
    <3>2. 0 \in 0 .. UMax(Width) /\ 0 \in 0 .. UMax(Half) /\ 0 \in 0 .. ClassLog
          /\ 0 \in 0 .. UMax(SumBits) /\ 0 \in Nat /\ Unset \in Int
      BY GpuConstants DEF Unset
    <3>3. PICK z : z = IF kernel.precalc THEN GBase ELSE Unset
      OBVIOUS
    <3>4. z \in Int
      BY <3>1, <3>2, <3>3
    <3>5. PICK y : y = Lowest + id * Pow2[ShareLog] + 3
      OBVIOUS
    <3>6. r = [pc |-> "for", n0 |-> y, n |-> 0, N0 |-> 0,
               L |-> 0, R |-> 0, Salpha |-> 0, h |-> 0, barriers |-> 0, sum |-> 0, max |-> 0,
               max0 |-> z]
      BY <2>2, <3>3, <3>5, Zenon DEF FirstItem
    <3>7. y \in Nat
      BY <2>5, <3>6
    <3> QED
      BY <3>1, <3>2, <3>4, <3>6, <3>7 DEF Items
  <2>7. Between(k, b, id, id * Load, r.sum, 0, r.max, r.max0)
    <3>1. PICK f : f = id * Load
      OBVIOUS
    <3>2. GTotal(k, b, f) \in Nat
      BY <1>1, <2>1, <2>4, <3>1, GTotalNext
    <3>3. Checksum(0 + 0) = 0
      BY ChecksumValue, GpuConstants
    <3>4. Ledger(k, b, id, f, 0, 0)
      <4>1. GTotal(k, b, f) = GTotal(k, b, id * Load) + 0
        BY <3>1, <3>2
      <4> QED
        BY <3>3, <4>1 DEF Ledger
    <3>5. id * Load .. f - 1 = {} /\ f \in Nat /\ f <= (id + 1) * Load
      BY <2>4, <3>1
    <3>6. Passed(k, b, id, f, 0) /\ Named(k, b, id, f, 0, r.max0)
      BY <3>5 DEF Passed, Named
    <3>7. Between(k, b, id, f, 0, 0, 0, r.max0)
      BY <3>1, <3>4, <3>5, <3>6 DEF Between
    <3> QED
      BY <2>6, <3>1, <3>7
  <2>8. CASE ~kernel.precalc
    <3>1. GPlain(k, b, id, id * Load, r)
      BY <2>1, <2>3, <2>6, <2>7, <2>8 DEF GPlain, Books
    <3> QED
      BY <2>1, <2>4, <2>6, <2>8, <3>1 DEF ItemInv
  <2>9. CASE kernel.precalc
    <3>1. Books(k, b, id, (id * ClassLoad) * GShares, 0, r)
      BY <2>4, <2>7 DEF Books
    <3>2. id * ClassLoad <= id * ClassLoad /\ id * ClassLoad <= (id + 1) * ClassLoad
      BY <2>4
    <3>3. r.n0 = 3 + 4 * (id * ClassLoad)
      BY <2>1, <2>3, <2>9
    <3>4. GClass(k, b, id, id * ClassLoad, r)
      BY <2>6, <3>1, <3>2, <3>3 DEF GClass
    <3> QED
      BY <2>1, <2>4, <2>6, <2>9, <3>4 DEF ItemInv
  <2> QED
    BY <1>1, <2>8, <2>9
<1>3. item \in [Ids -> Items]
  BY <1>2 DEF GpuInit
<1> QED
  BY <1>1, <1>2, <1>3 DEF GpuInv

\* An item's share, number by number.
LEMMA SharedFacts ==
  ASSUME Job, NEW k \in Built, NEW b, b = Base, NEW id \in Ids, NEW r \in Items,
         Shared(k, b, id, r)
  PROVE  /\ r.max \in Nat /\ r.max <= UMax(Width)
         /\ \E c \in 0 .. All - 1 : r.max0 = GNumber(k, b, c) /\ GKept(k, r.max0)
         /\ r.max0 # Unset /\ r.max <= PeakFrom(r.max0, GFrom(k))
         /\ PeakFrom(r.max0, 0) \in Nat
         /\ \A c \in id * Load .. (id + 1) * Load - 1 : GKept(k, GNumber(k, b, c)) =>
              /\ \E d \in Nat : d > GFrom(k) /\ Descends(GNumber(k, b, c), d)
              /\ PeakFrom(GNumber(k, b, c), GFrom(k)) <= r.max
              /\ PeakFrom(GNumber(k, b, c), GFrom(k)) \in Nat
<1>1. PICK f, e \in Nat : f = id * Load /\ e = (id + 1) * Load /\ e <= All /\ All \in Nat
  BY ShareBounds, GpuConstants
<1>2. PICK g \in Nat : g = GFrom(k)
  BY GpuConstants DEF GFrom
<1>3. Passed(k, b, id, e, r.max)
  BY <1>1 DEF Shared
<1>4. r.max \in Nat /\ r.max <= UMax(Width)
  <2>1. r.max \in 0 .. UMax(Width) /\ UMax(Width) \in Nat
    BY GpuConstants DEF Items
  <2> QED
    BY <2>1
<1>5. ASSUME NEW c \in f .. e - 1, GKept(k, GNumber(k, b, c))
      PROVE  /\ \E d \in Nat : d > g /\ Descends(GNumber(k, b, c), d)
             /\ PeakFrom(GNumber(k, b, c), g) <= r.max
             /\ PeakFrom(GNumber(k, b, c), g) \in Nat
             /\ PeakFrom(GNumber(k, b, c), 0) \in Nat
             /\ GNumber(k, b, c) \in Nat
  <2>1. /\ \E d \in Nat : d > g /\ Descends(GNumber(k, b, c), d)
        /\ PeakFrom(GNumber(k, b, c), g) <= r.max
    BY <1>1, <1>2, <1>3, <1>5 DEF Passed
  <2>2. PICK d \in Nat : d > g /\ Descends(GNumber(k, b, c), d)
    BY <2>1
  <2>3. PICK m \in Nat : m = GNumber(k, b, c)
    <3>1. c \in 0 .. All - 1
      BY <1>1
    <3> QED
      BY <3>1, GNumberFacts
  <2>4. PICK z : z = 0
    OBVIOUS
  <2>5. PeakFrom(m, g) \in Nat
    BY <2>2, <2>3, PeakOfTested
  <2>6. z \in Nat /\ z < d
    BY <2>2, <2>4
  <2>7. PeakFrom(m, z) \in Nat
    BY <2>2, <2>3, <2>6, PeakOfTested
  <2> QED
    BY <2>1, <2>3, <2>4, <2>5, <2>7
<1>6. PICK c \in f .. e - 1 : /\ r.max0 = GNumber(k, b, c) /\ GKept(k, r.max0)
                              /\ r.max <= PeakFrom(r.max0, g)
  BY <1>1, <1>2 DEF Shared
<1>7. c \in 0 .. All - 1
  BY <1>1
<1>8. PeakFrom(r.max0, 0) \in Nat /\ r.max0 \in Nat
  BY <1>5, <1>6
<1>9. r.max0 # Unset
  BY <1>8 DEF Unset
<1> QED
  BY <1>1, <1>2, <1>4, <1>5, <1>6, <1>7, <1>8, <1>9

\* The host's sum is that of the task's numbers.
LEMMA HostTotal ==
  ASSUME Job, NEW k \in Built, NEW b, b = Base, NEW r \in [Ids -> Items],
         \A id \in Ids : Shared(k, b, id, r[id])
  PROVE  Checksum(SumFunction([id \in Ids |-> r[id].sum])) = Checksum(GTotal(k, b, All))
<1>1. PICK w, a \in Nat : /\ w = Pow2[TaskUnits] /\ a = Load /\ Ids = 0 .. w - 1 /\ w * a = All
                          /\ All \in Nat
  BY GpuConstants DEF Ids
<1>2. PICK g : g = [id \in 0 .. w - 1 |-> r[id].sum]
  OBVIOUS
<1>3. PICK F : F = [u \in 0 .. w |-> GTotal(k, b, u * a)]
  OBVIOUS
<1>4. g \in [0 .. w - 1 -> Nat]
  <2>1. ASSUME NEW id \in 0 .. w - 1 PROVE r[id].sum \in Nat
    <3>1. r[id] \in Items
      BY <1>1
    <3>2. r[id].sum \in 0 .. UMax(SumBits) /\ UMax(SumBits) \in Nat
      BY <3>1, GpuConstants DEF Items
    <3> QED
      BY <3>2
  <2> QED
    BY <1>2, <2>1
<1>5. \A u \in 0 .. w : u * a \in 0 .. All
  <2> TAKE u \in 0 .. w
  <2>1. u * a \in Nat
    BY <1>1, ProductLaws
  <2>2. u \in Nat /\ u <= w
    BY <1>1
  <2>3. u * a <= w * a
    BY <1>1, <2>2, ProductOrder
  <2> QED
    BY <1>1, <2>1, <2>3
<1>6. F \in [0 .. w -> Nat]
  <2>1. ASSUME NEW u \in 0 .. w PROVE GTotal(k, b, u * a) \in Nat
    BY <1>5, GTotalNext
  <2> QED
    BY <1>3, <2>1
<1>7. F[0] = 0
  <2>1. 0 * a = 0 /\ 0 \in 0 .. w
    BY <1>1
  <2>2. GTotal(k, b, 0) = 0
    BY GTotalNext
  <2> QED
    BY <1>3, <2>1, <2>2
<1>8. \A u \in 0 .. w - 1 : \E s \in Nat : F[u + 1] = F[u] + s /\ g[u] = Checksum(s)
  <2> TAKE u \in 0 .. w - 1
  <2>1. u \in Ids /\ u \in 0 .. w /\ u + 1 \in 0 .. w
    BY <1>1
  <2>2. Ledger(k, b, u, (u + 1) * Load, r[u].sum, 0)
    BY <2>1 DEF Shared
  <2>3. PICK s \in Nat : /\ GTotal(k, b, (u + 1) * a) = GTotal(k, b, u * a) + s
                         /\ r[u].sum = Checksum(s + 0)
    BY <1>1, <2>2 DEF Ledger
  <2>4. s + 0 = s
    OBVIOUS
  <2> QED
    BY <1>2, <1>3, <2>1, <2>3, <2>4
<1>9. Checksum(SumFunction([t \in 0 .. w - 1 |-> g[t]])) = Checksum(F[w])
  BY <1>4, <1>6, <1>7, <1>8, WrappedSum
<1>10. F[w] = GTotal(k, b, All)
  BY <1>1, <1>3
<1>11. [id \in Ids |-> r[id].sum] = [t \in 0 .. w - 1 |-> g[t]]
  BY <1>1, <1>2
<1> QED
  BY <1>9, <1>10, <1>11

\* Of finitely many peaks one is the highest, and of those the first is taken.
LEMMA BestOf ==
  ASSUME NEW f \in [Ids -> Nat], NEW u \in Nat, \A j \in Ids : f[j] <= u,
         NEW o, o = Min({id \in Ids : \A j \in Ids : f[j] <= f[id]})
  PROVE  o \in Ids /\ \A j \in Ids : f[j] <= f[o]
<1> DEFINE S == {f[j] : j \in Ids}
           B == {id \in Ids : \A j \in Ids : f[j] <= f[id]}
<1>1. 0 \in Ids /\ Ids \in SUBSET Nat
  <2>1. PICK w \in Nat \ {0} : w = Pow2[TaskUnits]
    BY GpuConstants
  <2>2. Ids = 0 .. w - 1
    BY <2>1 DEF Ids
  <2> QED
    BY <2>1, <2>2
<1>2. S \in SUBSET Nat /\ S # {} /\ \A y \in S : y <= u
  BY <1>1
<1>3. Max(S) \in S /\ \A y \in S : y <= Max(S)
  <2> HIDE DEF S
  <2> QED
    BY <1>2, GreatestOfMore
<1>4. B # {}
  BY <1>3
<1>5. B \in SUBSET Nat
  BY <1>1
<1>6. Min(B) \in B
  <2> HIDE DEF B
  <2> QED
    BY <1>4, <1>5, LeastOfMore
<1> QED
  BY <1>6

\* What the host reports when it has summed the items up.
LEMMA HostSumsUp ==
  ASSUME GpuInv, HostSums, host' = "halted"
  PROVE  HostReports(kernel, Base, item, gsum', gmax')
<1>1. PICK k, b, r : k = kernel /\ b = Base /\ r = item
  OBVIOUS
<1>2. Job /\ k \in Built /\ b = Base /\ r \in [Ids -> Items]
  BY <1>1 DEF GpuInv
<1>3. /\ \A id \in Ids : r[id].pc = "end" /\ r[id].sum # 0 /\ ~GetMaxFails(r[id].max0)
      /\ gsum' = Checksum(SumFunction([id \in Ids |-> r[id].sum]))
      /\ gmax'.n0 = r[Min({id \in Ids : \A j \in Ids :
                         PeakFrom(r[j].max0, 0) <= PeakFrom(r[id].max0, 0)})].max0
  BY <1>1 DEF HostSums
<1>4. \A id \in Ids : Shared(k, b, id, r[id]) /\ r[id] \in Items
  <2> TAKE id \in Ids
  <2>1. PICK e : e = r[id]
    OBVIOUS
  <2>2. ItemInv(k, b, id, e)
    BY <1>1, <2>1 DEF GpuInv
  <2> QED
    BY <1>2, <1>3, <2>1, <2>2, SharedAtEnd
<1>5. PICK f : f = [id \in Ids |-> PeakFrom(r[id].max0, 0)]
  OBVIOUS
<1>6. \A id \in Ids : f[id] \in Nat /\ f[id] <= UMax(Width)
  <2> TAKE id \in Ids
  <2>1. PICK e \in Items : e = r[id] /\ Shared(k, b, id, e)
    BY <1>4
  <2>2. PeakFrom(e.max0, 0) \in Nat
    BY <1>2, <2>1, SharedFacts
  <2>3. ~(PeakFrom(e.max0, 0) >= UMax(Width))
    BY <1>3, <2>1 DEF GetMaxFails
  <2>4. UMax(Width) \in Nat
    BY GpuConstants
  <2>5. f[id] = PeakFrom(e.max0, 0)
    BY <1>5, <2>1
  <2> QED
    BY <2>2, <2>3, <2>4, <2>5
<1>7. PICK o : o = Min({id \in Ids : \A j \in Ids : f[j] <= f[id]})
  OBVIOUS
<1>8. o \in Ids /\ \A j \in Ids : f[j] <= f[o]
  <2>1. f \in [Ids -> Nat] /\ UMax(Width) \in Nat
    BY <1>5, <1>6, GpuConstants
  <2> QED
    BY <1>6, <1>7, <2>1, BestOf
<1>9. gmax'.n0 = r[o].max0
  <2>1. {id \in Ids : \A j \in Ids : PeakFrom(r[j].max0, 0) <= PeakFrom(r[id].max0, 0)}
          = {id \in Ids : \A j \in Ids : f[j] <= f[id]}
    BY <1>5
  <2> QED
    BY <1>3, <1>7, <2>1
<1>10. \E p \in 0 .. All - 1 : gmax'.n0 = GNumber(k, b, p) /\ GKept(k, gmax'.n0)
  <2>1. PICK e \in Items : e = r[o] /\ Shared(k, b, o, e)
    BY <1>4, <1>8
  <2>2. \E c \in 0 .. All - 1 : e.max0 = GNumber(k, b, c) /\ GKept(k, e.max0)
    BY <1>2, <1>8, <2>1, SharedFacts
  <2> QED
    BY <1>9, <2>1, <2>2
<1>11. \A id \in Ids : r[id].max0 # Unset
  <2> TAKE id \in Ids
  <2>1. PICK e \in Items : e = r[id] /\ Shared(k, b, id, e)
    BY <1>4
  <2>2. e.max0 # Unset
    BY <1>2, <2>1, SharedFacts
  <2> QED
    BY <2>1, <2>2
<1>12. gsum' = Checksum(GTotal(k, b, All))
  <2>1. Checksum(SumFunction([id \in Ids |-> r[id].sum])) = Checksum(GTotal(k, b, All))
    BY <1>2, <1>4, HostTotal
  <2> QED
    BY <1>3, <2>1
<1>13. ASSUME NEW p \in 0 .. All - 1, GKept(k, GNumber(k, b, p))
       PROVE  /\ \E d \in Nat : d > GFrom(k) /\ Descends(GNumber(k, b, p), d)
              /\ PeakFrom(GNumber(k, b, p), GFrom(k)) <= UMax(Width)
              /\ ~k.precalc => PeakFrom(GNumber(k, b, p), 0) <= PeakFrom(gmax'.n0, 0)
  <2>1. PICK id \in Ids : p \in id * Load .. (id + 1) * Load - 1
    BY ShareOfPlace
  <2>2. PICK e \in Items : e = r[id] /\ Shared(k, b, id, e)
    BY <1>4
  <2>3. /\ e.max \in Nat /\ e.max <= UMax(Width) /\ e.max <= PeakFrom(e.max0, GFrom(k))
        /\ PeakFrom(e.max0, 0) \in Nat
        /\ \A c \in id * Load .. (id + 1) * Load - 1 : GKept(k, GNumber(k, b, c)) =>
              /\ \E d \in Nat : d > GFrom(k) /\ Descends(GNumber(k, b, c), d)
              /\ PeakFrom(GNumber(k, b, c), GFrom(k)) <= e.max
              /\ PeakFrom(GNumber(k, b, c), GFrom(k)) \in Nat
    BY <1>2, <2>2, SharedFacts
  <2>4. /\ \E d \in Nat : d > GFrom(k) /\ Descends(GNumber(k, b, p), d)
        /\ PeakFrom(GNumber(k, b, p), GFrom(k)) <= e.max
        /\ PeakFrom(GNumber(k, b, p), GFrom(k)) \in Nat
    BY <1>13, <2>1, <2>3
  <2>5. PeakFrom(GNumber(k, b, p), GFrom(k)) <= UMax(Width)
    BY <2>3, <2>4, GpuConstants
  <2>6. ASSUME ~k.precalc
        PROVE  PeakFrom(GNumber(k, b, p), 0) <= PeakFrom(gmax'.n0, 0)
    <3>1. GFrom(k) = 0
      BY <2>6 DEF GFrom
    <3>2. f[id] = PeakFrom(e.max0, 0) /\ f[o] = PeakFrom(gmax'.n0, 0) /\ f[id] <= f[o]
          /\ f[id] \in Nat /\ f[o] \in Nat
      BY <1>5, <1>6, <1>8, <1>9, <2>2
    <3>3. PICK x, y, z \in Nat : x = PeakFrom(GNumber(k, b, p), 0) /\ y = e.max /\ z = f[id]
      BY <2>3, <2>4, <3>1, <3>2
    <3>4. x <= y /\ y <= z /\ z <= f[o]
      BY <2>3, <2>4, <3>1, <3>2, <3>3
    <3>5. x <= f[o]
      BY <3>2, <3>4
    <3> QED
      BY <3>2, <3>3, <3>5
  <2> QED
    BY <2>4, <2>5, <2>6
<1>14. HostReports(k, b, r, gsum', gmax')
  BY <1>3, <1>10, <1>11, <1>12, <1>13 DEF HostReports
<1> QED
  BY <1>1, <1>14

\* What a work item does leaves it as it should be, and has not ended it before.
LEMMA ItemMoves ==
  ASSUME GpuInv, NEW id \in Ids,
         \/ ForLive(id) \/ Round(id) \/ Barrier(id) \/ GPrecalcRise(id)
         \/ GPrecalcFall(id) \/ GCalc(id) \/ GRise(id)
  PROVE  GMoves(id) /\ item[id].pc # "end"
<1>1. GJob(id)
  BY DEF GpuInv, GJob
<1>2. CASE ForLive(id)
  <2>1. item[id].pc = "for"
    BY <1>2, Zenon DEF ForLive
  <2> QED
    BY <1>1, <1>2, <2>1, ForLivePlain, ForLiveClass
<1>3. CASE Round(id)
  <2>1. item[id].pc # "end"
    BY <1>3 DEF Round
  <2> QED
    BY <1>1, <1>3, <2>1, RoundMoves
<1>4. CASE Barrier(id)
  <2>1. item[id].pc # "end"
    BY <1>4 DEF Barrier
  <2> QED
    BY <1>1, <1>4, <2>1, BarrierMoves
<1>5. CASE GPrecalcRise(id)
  <2>1. item[id].pc # "end"
    BY <1>5 DEF GPrecalcRise
  <2> QED
    BY <1>1, <1>5, <2>1, GPrecalcRiseMoves
<1>6. CASE GPrecalcFall(id)
  <2>1. item[id].pc # "end"
    BY <1>6 DEF GPrecalcFall
  <2> QED
    BY <1>1, <1>6, <2>1, GPrecalcFallMoves
<1>7. CASE GCalc(id)
  <2>1. item[id].pc # "end"
    BY <1>7 DEF GCalc
  <2> QED
    BY <1>1, <1>7, <2>1, GCalcMoves
<1>8. CASE GRise(id)
  <2>1. item[id].pc = "rise"
    BY <1>8, Zenon DEF GRise
  <2> QED
    BY <1>1, <1>8, <2>1, GRiseMoves
<1> QED
  BY <1>2, <1>3, <1>4, <1>5, <1>6, <1>7, <1>8

\* The GPU worker's steps, and those of the others, keep its invariant; what
\* the host has reported stays.
LEMMA GpuMoves ==
  ASSUME GpuInv, GpuNext \/ UNCHANGED gpuVars, UNCHANGED <<prog, task>>
  PROVE  /\ GpuInv'
         /\ host # "kernel" => host' = host /\ gsum' = gsum /\ gmax' = gmax
         /\ kernel' = kernel /\ gtask' = gtask
<1>1. /\ Job /\ gtask = task /\ kernel \in Built /\ item \in [Ids -> Items]
      /\ \A id \in Ids : ItemInv(kernel, Base, id, item[id])
      /\ host \in {"kernel", "halted", "aborted", "no_gpu", "failed"}
      /\ host = "halted" => HostReports(kernel, Base, item, gsum, gmax)
  BY DEF GpuInv
<1>2. Job' /\ Base' = Base
  BY <1>1, SameJob
<1>3. CASE UNCHANGED gpuVars
  <2>1. UNCHANGED <<kernel, gtask, item, host, gsum, gmax>>
    BY <1>3 DEF gpuVars
  <2>2. GpuInv'
    BY <1>1, <1>2, <2>1 DEF GpuInv
  <2> QED
    BY <2>1, <2>2
<1>4. CASE HostSums
  <2>1. /\ host = "kernel" /\ UNCHANGED <<kernel, gtask, item>> /\ host' \in {"halted", "aborted"}
    BY <1>4 DEF HostSums
  <2>2. host' = "halted" => HostReports(kernel, Base, item, gsum', gmax')
    BY <1>4, HostSumsUp
  <2>3. (host = "halted" => HostReports(kernel, Base, item, gsum, gmax))'
    BY <1>2, <2>1, <2>2
  <2>4. GpuInv'
    BY <1>1, <1>2, <2>1, <2>3 DEF GpuInv
  <2> QED
    BY <2>1, <2>4
<1>5. CASE HostGivesUp
  <2>1. /\ host = "kernel" /\ UNCHANGED <<kernel, gtask, item, gsum, gmax>>
        /\ host' \in {"no_gpu", "failed"}
    BY <1>5 DEF HostGivesUp
  <2>2. GpuInv'
    BY <1>1, <1>2, <2>1 DEF GpuInv
  <2> QED
    BY <2>1, <2>2
<1>6. ASSUME NEW id \in Ids,
             \/ ForLive(id) \/ Round(id) \/ Barrier(id) \/ GPrecalcRise(id)
             \/ GPrecalcFall(id) \/ GCalc(id) \/ GRise(id)
      PROVE  /\ GpuInv' /\ UNCHANGED <<kernel, gtask, host, gsum, gmax>>
  <2>1. GMoves(id) /\ item[id].pc # "end"
    BY <1>6, ItemMoves
  <2>2. PICK q : Go(id, q) /\ ItemInv(kernel, Base, id, q)
    BY <2>1 DEF GMoves
  <2>3. item' = [item EXCEPT ![id] = q] /\ UNCHANGED <<kernel, gtask, host, gsum, gmax>>
    BY <2>2 DEF Go
  <2>4. q \in Items
    BY <2>2 DEF ItemInv
  <2>5. host # "halted"
    BY <1>1, <2>1 DEF HostReports
  <2>6. item' \in [Ids -> Items] /\ \A j \in Ids : item'[j] = (IF j = id THEN q ELSE item[j])
    BY <1>1, <2>3, <2>4
  <2>7. \A j \in Ids : ItemInv(kernel, Base, j, item'[j])
    BY <1>1, <2>2, <2>6
  <2>8. GpuInv'
    BY <1>1, <1>2, <2>3, <2>5, <2>6, <2>7 DEF GpuInv
  <2> QED
    BY <2>3, <2>8
<1>7. CASE GpuNext
  <2>1. HostSums \/ HostGivesUp \/
        \E id \in Ids : \/ ForLive(id) \/ Round(id) \/ Barrier(id) \/ GPrecalcRise(id)
                        \/ GPrecalcFall(id) \/ GCalc(id) \/ GRise(id)
    BY <1>7 DEF GpuNext
  <2> QED
    BY <1>4, <1>5, <1>6, <2>1
<1> QED
  BY <1>3, <1>7

-----------------------------------------------------------------------------
(* The client.                                                               *)

\* What a worker prints, told apart by how it has ended.
LinesFacts(l) ==
  /\ Lines(l)[1] = "TASK_SIZE" /\ Lines(l)[2] = "TASK_ID"
  /\ ~Ended(l) => Len(Lines(l)) = 2
  /\ (Ended(l) /\ Outcome(l) = "halted") =>
       /\ Len(Lines(l)) = 6 /\ Lines(l)[3] = "OVERFLOW" /\ Lines(l)[4] = "CHECKSUM"
       /\ Lines(l)[5] = "MAXIMUM_OFFSET" /\ Lines(l)[6] = "HALTED"
  /\ (Ended(l) /\ Outcome(l) = "aborted") =>
       Len(Lines(l)) = 3 /\ Lines(l)[3] = "ABORTED_DUE_TO_OVERFLOW"
  /\ (Ended(l) /\ Outcome(l) = "no_gpu") =>
       Len(Lines(l)) = 4 /\ Lines(l)[3] = "NO_GPU_FOUND" /\ Lines(l)[4] = "ERROR"
  /\ (Ended(l) /\ Outcome(l) \notin {"halted", "aborted", "no_gpu"}) =>
       Len(Lines(l)) = 3 /\ Lines(l)[3] = "ERROR"

\* These are the lines.
LEMMA LinesAlways == \A l : LinesFacts(l)
<1> TAKE l
<1>1. PICK s : s = Lines(l)
  OBVIOUS
<1>2. CASE ~Ended(l)
  <2>1. s = <<"TASK_SIZE", "TASK_ID">> \o <<>>
    BY <1>1, <1>2, Zenon DEF Lines
  <2>2. Len(s) = 2 /\ s[1] = "TASK_SIZE" /\ s[2] = "TASK_ID"
    BY <2>1
  <2> QED
    BY <1>1, <1>2, <2>2 DEF LinesFacts
<1>3. CASE Ended(l) /\ Outcome(l) = "halted"
  <2>1. s = <<"TASK_SIZE", "TASK_ID">> \o <<"OVERFLOW", "CHECKSUM", "MAXIMUM_OFFSET", "HALTED">>
    BY <1>1, <1>3 DEF Lines
  <2>2. /\ Len(s) = 6 /\ s[1] = "TASK_SIZE" /\ s[2] = "TASK_ID" /\ s[3] = "OVERFLOW"
        /\ s[4] = "CHECKSUM" /\ s[5] = "MAXIMUM_OFFSET" /\ s[6] = "HALTED"
    BY <2>1
  <2> QED
    BY <1>1, <1>3, <2>2 DEF LinesFacts
<1>4. CASE Ended(l) /\ Outcome(l) = "aborted"
  <2>1. s = <<"TASK_SIZE", "TASK_ID">> \o <<"ABORTED_DUE_TO_OVERFLOW">>
    BY <1>1, <1>4 DEF Lines
  <2>2. /\ Len(s) = 3 /\ s[1] = "TASK_SIZE" /\ s[2] = "TASK_ID"
        /\ s[3] = "ABORTED_DUE_TO_OVERFLOW"
    BY <2>1
  <2> QED
    BY <1>1, <1>4, <2>2 DEF LinesFacts
<1>5. CASE Ended(l) /\ Outcome(l) = "no_gpu"
  <2>1. s = <<"TASK_SIZE", "TASK_ID">> \o <<"NO_GPU_FOUND", "ERROR">>
    BY <1>1, <1>5 DEF Lines
  <2>2. /\ Len(s) = 4 /\ s[1] = "TASK_SIZE" /\ s[2] = "TASK_ID" /\ s[3] = "NO_GPU_FOUND"
        /\ s[4] = "ERROR"
    BY <2>1
  <2> QED
    BY <1>1, <1>5, <2>2 DEF LinesFacts
<1>6. CASE Ended(l) /\ Outcome(l) \notin {"halted", "aborted", "no_gpu"}
  <2>1. s = <<"TASK_SIZE", "TASK_ID">> \o <<"ERROR">>
    BY <1>1, <1>6 DEF Lines
  <2>2. Len(s) = 3 /\ s[1] = "TASK_SIZE" /\ s[2] = "TASK_ID" /\ s[3] = "ERROR"
    BY <2>1
  <2> QED
    BY <1>1, <1>6, <2>2 DEF LinesFacts
<1> QED
  BY <1>2, <1>3, <1>4, <1>5, <1>6

\* So they are after a step.
LEMMA LinesNext == (\A l : LinesFacts(l))'
BY LinesAlways, PTL

\* What the workers leave alone once they have ended.
Still == /\ pc \in {"halted", "aborted"} => UNCHANGED <<pc, over, sum, max>>
         /\ host # "kernel" => UNCHANGED <<host, gsum, gmax>>
         /\ UNCHANGED <<prog, task, gtask>>

\* The kinds of steps of the two workers.
LEMMA WorkersStep ==
  ASSUME AssignmentNext \/ UNCHANGED avars
  PROVE  /\ [Next]_vars /\ (GpuNext \/ UNCHANGED gpuVars) /\ UNCHANGED <<prog, task>>
         /\ pc \in {"halted", "aborted"} => UNCHANGED vars
<1>1. ASSUME Next PROVE pc \notin {"halted", "aborted"} /\ UNCHANGED <<prog, task>>
  BY <1>1 DEF Next, SolveTask, PrecalcRise, PrecalcFall, Calc, Rise, Fall, WideStep, Halt
<1>2. ASSUME UNCHANGED vars PROVE UNCHANGED <<prog, task>>
  BY <1>2 DEF vars
<1>3. CASE WorkerRuns
  BY <1>1, <1>3 DEF WorkerRuns
<1>4. CASE KernelRuns
  BY <1>2, <1>4 DEF KernelRuns
<1>5. CASE UNCHANGED avars
  BY <1>2, <1>5 DEF avars
<1>6. ASSUME NEW l \in Levels, \/ PrintLine(l) \/ Terminate(l) \/ Killed(l) \/ ExecFails(l)
                               \/ Spawn(l) \/ ReadLine(l) \/ Pclose(l)
      PROVE  UNCHANGED vars /\ UNCHANGED gpuVars
  BY <1>6 DEF PrintLine, Terminate, Killed, ExecFails, SetProc, Spawn, ReadLine, Pclose
<1>7. CASE NestedReturns
  BY <1>2, <1>7 DEF NestedReturns
<1> QED
  BY <1>2, <1>3, <1>4, <1>5, <1>6, <1>7 DEF AssignmentNext, Progress

\* A worker that has ended reports what it reported.
LEMMA WorkersStay ==
  ASSUME GpuInv, AssignmentNext \/ UNCHANGED avars
  PROVE  Still
<1>1. GpuNext \/ UNCHANGED gpuVars
  BY WorkersStep
<1>2. UNCHANGED <<prog, task>> /\ (pc \in {"halted", "aborted"} => UNCHANGED vars)
  BY WorkersStep
<1>3. (host # "kernel" => host' = host /\ gsum' = gsum /\ gmax' = gmax) /\ gtask' = gtask
  BY <1>1, <1>2, GpuMoves
<1> QED
  BY <1>2, <1>3 DEF Still, vars

\* A call runs the CPU worker as it is specified: every behaviour of the call is one
\* of the worker, so the theorems about the worker hold of it.
THEOREM UsesWorker == AssignmentSpec => Spec
<1>1. AssignmentInit => Init
  BY DEF AssignmentInit
<1>2. [AssignmentNext]_avars => [Next]_vars
  BY WorkersStep
<1> QED
  BY <1>1, <1>2, PTL DEF AssignmentSpec, Spec

\* The GPU worker's invariant holds throughout.
LEMMA GpuHolds == AssignmentSpec => []GpuInv
<1>1. AssignmentInit => GpuInv
  <2> SUFFICES ASSUME AssignmentInit PROVE GpuInv
    OBVIOUS
  <2>1. Job
    BY DEF AssignmentInit, Init, Job
  <2> QED
    BY <2>1, GpuStarts DEF AssignmentInit
<1>2. GpuInv /\ [AssignmentNext]_avars => GpuInv'
  BY WorkersStep, GpuMoves
<1> QED
  BY <1>1, <1>2, PTL DEF AssignmentSpec

-----------------------------------------------------------------------------
(* The calls of run_assignment and the workers' output.                      *)

\* A worker's process and a call, as records.
Procs == [st : {"none", "running", "exited", "killed"}, printed : 0 .. 6, read : 0 .. 6]
Calls == [pc : {"none", "called", "reading", "nested", "returned"}, success : BOOLEAN,
          ret : {-1, 0}]

\* The types of the client's variables.
ClientTypes ==
  /\ mode \in Levels /\ size \in Sizes /\ quit \in BOOLEAN
  /\ proc \in [Levels -> Procs] /\ run \in [Levels -> Calls]
  /\ result = [overflow |-> result.overflow, checksum |-> result.checksum,
               mxoffset |-> result.mxoffset]

\* A call and the output it reads.
CallInv(l) ==
  /\ proc[l].read <= proc[l].printed /\ proc[l].printed <= Len(Lines(l))
  /\ run[l].pc \in {"none", "called"} => proc[l] = NoProc /\ ~run[l].success
  /\ (run[l].pc \in {"reading", "nested"} /\ proc[l].read >= 1) => size = TASK_SIZE
  /\ (run[l].pc = "returned" /\ run[l].ret = 0) => run[l].success

\* The two calls: the CPU's is nested in the GPU's only when the GPU worker
\* has given up, and success has been reported by one worker.
BothInv ==
  /\ mode = "cpu" => run["gpu"].pc = "none"
  /\ (mode = "gpu" /\ run["cpu"].pc # "none") => host = "aborted" /\ proc["gpu"].read = 3
  /\ run["cpu"].pc # "nested"
  /\ run["cpu"].success => pc = "halted" /\ proc["cpu"].read = 6 /\ size = TASK_SIZE
  /\ run["gpu"].success =>
       /\ mode = "gpu" /\ size = TASK_SIZE
       /\ \/ host = "halted" /\ proc["gpu"].read = 6 /\ run["cpu"].pc = "none"
          \/ run["cpu"].pc = "returned" /\ run["cpu"].ret = 0

\* What has been read of a result is the worker's.
CpuRead ==
  pc = "halted" =>
    /\ proc["cpu"].read >= 3 => result.overflow = over
    /\ proc["cpu"].read >= 4 => result.checksum = sum
    /\ proc["cpu"].read >= 5 => result.mxoffset = max.n0 - Base
GpuRead ==
  (mode = "gpu" /\ run["cpu"].pc = "none" /\ host = "halted") =>
    /\ proc["gpu"].read >= 3 => result.overflow = 0
    /\ proc["gpu"].read >= 4 => result.checksum = gsum
    /\ proc["gpu"].read >= 5 => result.mxoffset = gmax.n0 - GBase

\* What is true of the client between two of its steps.
ClientInv == /\ ClientTypes /\ CallInv("cpu") /\ CallInv("gpu") /\ BothInv
             /\ CpuRead /\ GpuRead

\* It holds when the call is made.
LEMMA ClientStarts == AssignmentInit => ClientInv
<1> SUFFICES ASSUME AssignmentInit PROVE ClientInv
  OBVIOUS
<1>1. /\ mode \in Levels /\ size \in Sizes /\ quit = FALSE
      /\ proc = [l \in Levels |-> NoProc]
      /\ run = [l \in Levels |-> IF l = mode THEN [NoRun EXCEPT !.pc = "called"] ELSE NoRun]
      /\ result = [overflow |-> 0, checksum |-> 0, mxoffset |-> 0]
  BY DEF AssignmentInit
<1>2. pc = "solve"
  BY DEF AssignmentInit, Init
<1>3. ClientTypes
  <2>1. NoProc \in Procs
    BY DEF NoProc, Procs
  <2>2. NoRun \in Calls /\ [NoRun EXCEPT !.pc = "called"] \in Calls
    BY DEF NoRun, Calls
  <2>3. proc \in [Levels -> Procs] /\ run \in [Levels -> Calls]
    BY <1>1, <2>1, <2>2
  <2>4. result = [overflow |-> result.overflow, checksum |-> result.checksum,
                  mxoffset |-> result.mxoffset]
    BY <1>1
  <2> QED
    BY <1>1, <2>3, <2>4 DEF ClientTypes
<1>4. \A l \in Levels : proc[l] = NoProc /\ ~run[l].success /\ run[l].pc \in {"none", "called"}
  BY <1>1 DEF NoRun
<1>5. \A l \in Levels : CallInv(l)
  <2> TAKE l \in Levels
  <2>1. Len(Lines(l)) >= 2
    BY LinesAlways DEF LinesFacts
  <2> QED
    BY <1>4, <2>1 DEF CallInv, NoProc
<1>6. BothInv
  BY <1>1, <1>4 DEF BothInv, Levels, NoRun
<1>7. CpuRead /\ GpuRead
  BY <1>2, <1>4 DEF CpuRead, GpuRead, Levels, NoProc
<1> QED
  BY <1>3, <1>5, <1>6, <1>7 DEF ClientInv, Levels

\* More lines are printed as a worker goes on; none is read of its results
\* before it has ended.
LEMMA LinesGrow ==
  ASSUME Still, NEW l \in Levels
  PROVE  /\ Len(Lines(l)) \in 2 .. 6 /\ Len(Lines(l))' \in 2 .. 6
         /\ Len(Lines(l)) <= Len(Lines(l))'
         /\ Len(Lines(l)) > 2 => Ended(l)
<1>1. LinesFacts(l) /\ LinesFacts(l)'
  BY LinesAlways, LinesNext
<1>2. Len(Lines(l)) \in 2 .. 6 /\ Len(Lines(l))' \in 2 .. 6 /\ (Len(Lines(l)) > 2 => Ended(l))
  <2>1. Len(Lines(l)) \in 2 .. 6
    BY <1>1 DEF LinesFacts
  <2>2. Len(Lines(l))' \in {2, 3, 4, 6}
    BY <1>1, Zenon DEF LinesFacts
  <2>3. ~Ended(l) => Len(Lines(l)) = 2
    BY <1>1, Zenon DEF LinesFacts
  <2>4. PICK k, z : k = Len(Lines(l)) /\ z = Len(Lines(l))'
    OBVIOUS
  <2>6. z \in {2, 3, 4, 6} /\ (~Ended(l) => k = 2) /\ k \in 2 .. 6
    BY <2>1, <2>2, <2>3, <2>4, Zenon
  <2>5. z \in 2 .. 6 /\ (k > 2 => Ended(l))
    BY <2>6
  <2> QED
    BY <2>1, <2>4, <2>5
<1>3. Ended(l) => Ended(l)' /\ Outcome(l)' = Outcome(l)
  BY DEF Still, Ended, Outcome, Levels
<1>4. Len(Lines(l)) <= Len(Lines(l))'
  BY <1>1, <1>2, <1>3 DEF LinesFacts
<1> QED
  BY <1>2, <1>4

\* The workers' own steps.
LEMMA WorkersKeepClient ==
  ASSUME ClientInv, Still, UNCHANGED <<mode, size, proc, run, result, quit>>
  PROVE  ClientInv'
<1>1. /\ mode' = mode /\ size' = size /\ proc' = proc /\ run' = run /\ result' = result
      /\ quit' = quit /\ Base' = Base /\ GBase' = GBase
  BY DEF Still, Base, GBase
<1>2. /\ ClientTypes /\ \A l \in Levels : CallInv(l)
      /\ BothInv /\ CpuRead /\ GpuRead
  BY DEF ClientInv, Levels
<1>3. ClientTypes'
  BY <1>1, <1>2 DEF ClientTypes
<1>4. \A l \in Levels : proc[l].read \in Nat /\ proc[l].printed \in Nat
  BY <1>2 DEF ClientTypes, Procs
<1>5. \A l \in Levels : CallInv(l)'
  <2> TAKE l \in Levels
  <2>1. /\ Len(Lines(l)) \in 2 .. 6 /\ Len(Lines(l))' \in 2 .. 6
        /\ Len(Lines(l)) <= Len(Lines(l))'
    BY LinesGrow
  <2> QED
    BY <1>1, <1>2, <1>4, <2>1 DEF CallInv
<1>6. BothInv'
  BY <1>1, <1>2 DEF BothInv, Still
<1>7. \A l \in Levels : proc[l].read >= 3 => Ended(l)
  <2> TAKE l \in Levels
  <2>1. Len(Lines(l)) \in 2 .. 6 /\ (Len(Lines(l)) > 2 => Ended(l))
    BY LinesGrow
  <2> QED
    BY <1>2, <1>4, <2>1 DEF CallInv
<1>8. CpuRead' /\ GpuRead'
  <2>1. (proc["cpu"].read >= 3 => pc \in {"halted", "aborted"})
        /\ (proc["gpu"].read >= 3 => host # "kernel")
        /\ proc["cpu"].read \in Nat /\ proc["gpu"].read \in Nat
    BY <1>4, <1>7 DEF Ended, Levels
  <2>2. CpuRead'
    BY <1>1, <1>2, <2>1 DEF CpuRead, Still
  <2>3. GpuRead'
    BY <1>1, <1>2, <2>1 DEF GpuRead, Still
  <2> QED
    BY <2>2, <2>3
<1> QED
  BY <1>3, <1>5, <1>6, <1>8 DEF ClientInv, Levels

\* A worker's process that prints or ends.
LEMMA ProcKeepsClient ==
  ASSUME ClientInv, NEW l \in Levels, NEW q \in Procs, SetProc(l, q), proc[l].st # "none",
         q.read = proc[l].read, q.read <= q.printed, q.printed <= Len(Lines(l))
  PROVE  ClientInv'
<1>1. /\ mode' = mode /\ size' = size /\ run' = run /\ result' = result /\ quit' = quit
      /\ proc' = [proc EXCEPT ![l] = q] /\ UNCHANGED vars /\ UNCHANGED gpuVars
  BY DEF SetProc
<1>2. /\ ClientTypes /\ \A k \in Levels : CallInv(k)
      /\ BothInv /\ CpuRead /\ GpuRead
  BY DEF ClientInv, Levels
<1>3. /\ proc' \in [Levels -> Procs]
      /\ \A k \in Levels : proc'[k] = IF k = l THEN q ELSE proc[k]
  BY <1>1, <1>2 DEF ClientTypes
<1>4. ClientTypes'
  BY <1>1, <1>2, <1>3 DEF ClientTypes
<1>5. /\ pc' = pc /\ over' = over /\ sum' = sum /\ max' = max /\ Base' = Base /\ GBase' = GBase
      /\ host' = host /\ gsum' = gsum /\ gmax' = gmax
  BY <1>1 DEF vars, gpuVars, Base, GBase
<1>6. \A k \in Levels : CallInv(k)'
  <2> TAKE k \in Levels
  <2>1. Lines(k)' = Lines(k)
    BY <1>5 DEF Lines, Ended, Outcome
  <2>2. proc'[k].read = proc[k].read
    BY <1>3
  <2>3. run[l].pc \notin {"none", "called"}
    BY <1>2 DEF CallInv, NoProc
  <2>4. proc'[k].read <= proc'[k].printed /\ proc'[k].printed <= Len(Lines(k))'
    BY <1>2, <1>3, <2>1 DEF CallInv
  <2> QED
    BY <1>1, <1>2, <1>3, <2>2, <2>3, <2>4 DEF CallInv
<1>7. proc'["cpu"].read = proc["cpu"].read /\ proc'["gpu"].read = proc["gpu"].read
  BY <1>3 DEF Levels
<1>8. BothInv'
  BY <1>1, <1>2, <1>5, <1>7 DEF BothInv
<1>9. CpuRead' /\ GpuRead'
  BY <1>1, <1>2, <1>5, <1>7 DEF CpuRead, GpuRead
<1> QED
  BY <1>4, <1>6, <1>8, <1>9 DEF ClientInv, Levels

\* Printing, ending, being killed.
LEMMA ProcsKeepClient ==
  ASSUME ClientInv, NEW l \in Levels, PrintLine(l) \/ Terminate(l) \/ Killed(l) \/ ExecFails(l)
  PROVE  ClientInv'
<1>1. PICK r : r = proc[l]
  OBVIOUS
<1>2. /\ r \in Procs /\ r.st = "running" /\ r.read \in 0 .. 6 /\ r.printed \in 0 .. 6
      /\ r.read <= r.printed /\ r.printed <= Len(Lines(l))
  <2>1. CallInv(l) /\ proc \in [Levels -> Procs]
    BY DEF ClientInv, ClientTypes, Levels
  <2>2. r.st = "running"
    BY <1>1 DEF PrintLine, Terminate, Killed, ExecFails, Running
  <2> QED
    BY <1>1, <2>1, <2>2 DEF CallInv, Procs
<1>3. Len(Lines(l)) \in 2 .. 6
  BY LinesAlways DEF LinesFacts
<1>4. CASE PrintLine(l)
  <2>1. PICK q : q = [r EXCEPT !.printed = @ + 1]
    OBVIOUS
  <2>2. r.printed < Len(Lines(l)) /\ SetProc(l, q)
    BY <1>1, <1>4, <2>1 DEF PrintLine
  <2>3. r.printed + 1 \in 0 .. 6
    <3>1. PICK k \in 2 .. 6 : k = Len(Lines(l))
      BY <1>3
    <3>2. PICK z \in 0 .. 6 : z = r.printed
      BY <1>2
    <3>3. z < k
      BY <2>2, <3>1, <3>2
    <3>4. z + 1 \in 0 .. 6
      BY <3>3
    <3> QED
      BY <3>2, <3>4
  <2>4. q \in Procs /\ q.read = r.read /\ q.printed = r.printed + 1
    BY <1>2, <2>1, <2>3 DEF Procs
  <2>5. q.read <= q.printed /\ q.printed <= Len(Lines(l))
    BY <1>2, <1>3, <2>2, <2>4
  <2> QED
    BY <1>1, <1>2, <2>2, <2>4, <2>5, ProcKeepsClient
<1>5. CASE Terminate(l) \/ Killed(l) \/ ExecFails(l)
  <2>1. PICK s, q : s \in {"exited", "killed"} /\ q = [r EXCEPT !.st = s] /\ SetProc(l, q)
    BY <1>1, <1>5, Zenon DEF Terminate, Killed, ExecFails
  <2>2. q \in Procs /\ q.read = r.read /\ q.printed = r.printed
    BY <1>2, <2>1 DEF Procs
  <2>3. q.read <= q.printed /\ q.printed <= Len(Lines(l))
    BY <1>2, <2>2
  <2> QED
    BY <1>1, <1>2, <2>1, <2>2, <2>3, ProcKeepsClient
<1> QED
  BY <1>4, <1>5

\* What a step of the client alone leaves as it is.
Idle == /\ mode' = mode /\ size' = size /\ pc' = pc /\ over' = over /\ sum' = sum
        /\ max' = max /\ Base' = Base /\ GBase' = GBase /\ host' = host /\ gsum' = gsum
        /\ gmax' = gmax /\ \A l : Lines(l)' = Lines(l)

\* The workers and the parameters are left alone.
LEMMA ClientIdle ==
  ASSUME UNCHANGED <<vars, gpuVars, mode, size>>
  PROVE  Idle
<1>1. /\ mode' = mode /\ size' = size /\ pc' = pc /\ over' = over /\ sum' = sum
      /\ max' = max /\ host' = host /\ gsum' = gsum /\ gmax' = gmax
      /\ task' = task /\ gtask' = gtask
  BY DEF vars, gpuVars
<1>2. Base' = Base /\ GBase' = GBase
  BY <1>1 DEF Base, GBase
<1>3. \A l : Lines(l)' = Lines(l)
  BY <1>1 DEF Lines, Ended, Outcome
<1> QED
  BY <1>1, <1>2, <1>3 DEF Idle

\* The call of a level becomes c.
Calls1(l, c) == /\ run' \in [Levels -> Calls] /\ run'[l] = c
                /\ \A k \in Levels : k # l => run'[k] = run[k]

\* So an assignment to one of the calls does.
LEMMA CallSet ==
  ASSUME run \in [Levels -> Calls], NEW l \in Levels, NEW c \in Calls,
         run' = [run EXCEPT ![l] = c]
  PROVE  Calls1(l, c)
BY DEF Calls1

\* A worker is started, or cannot be.
LEMMA SpawnKeepsClient ==
  ASSUME ClientInv, NEW l \in Levels, Spawn(l)
  PROVE  ClientInv'
<1>1. Idle /\ result' = result /\ quit' = quit
  <2>1. UNCHANGED <<vars, gpuVars, mode, size>> /\ result' = result /\ quit' = quit
    BY DEF Spawn
  <2> QED
    BY <2>1, ClientIdle
<1>2. /\ ClientTypes /\ \A k \in Levels : CallInv(k)
      /\ BothInv /\ CpuRead /\ GpuRead
  BY DEF ClientInv, Levels
<1>3. PICK r \in Calls : r = run[l] /\ r.pc = "called" /\ ~r.success
  BY <1>2 DEF ClientTypes, Spawn, CallInv
<1>4. proc[l] = NoProc
  BY <1>2, <1>3 DEF CallInv
<1>5. \A k \in Levels : Len(Lines(k)) \in 2 .. 6
  BY LinesAlways DEF LinesFacts
<1>6. CASE /\ run' = [run EXCEPT ![l].pc = "reading"]
           /\ proc' = [proc EXCEPT ![l].st = "running"]
  <2>1. PICK c : c = [r EXCEPT !.pc = "reading"]
    OBVIOUS
  <2>2. c \in Calls /\ c.pc = "reading" /\ ~c.success
    BY <1>3, <2>1 DEF Calls
  <2>3. run' = [run EXCEPT ![l] = c]
    BY <1>3, <1>6, <2>1
  <2>4. Calls1(l, c)
    BY <1>2, <2>2, <2>3, CallSet DEF ClientTypes
  <2>5. PICK q : q = [NoProc EXCEPT !.st = "running"]
    OBVIOUS
  <2>6. q \in Procs /\ q.read = 0 /\ q.printed = 0
    BY <2>5 DEF NoProc, Procs
  <2>7. proc' = [proc EXCEPT ![l] = q]
    BY <1>4, <1>6, <2>5
  <2>8. /\ proc' \in [Levels -> Procs] /\ proc'[l] = q
        /\ \A k \in Levels : k # l => proc'[k] = proc[k]
    BY <1>2, <2>6, <2>7 DEF ClientTypes
  <2>9. ClientTypes'
    BY <1>1, <1>2, <2>4, <2>8 DEF ClientTypes, Idle, Calls1
  <2>10. \A k \in Levels : CallInv(k)'
    <3> TAKE k \in Levels
    <3>1. CASE k = l
      BY <1>1, <1>5, <2>2, <2>4, <2>6, <2>8, <3>1 DEF CallInv, Idle, Calls1
    <3>2. CASE k # l
      BY <1>1, <1>2, <2>4, <2>8, <3>2 DEF CallInv, Idle, Calls1
    <3> QED
      BY <3>1, <3>2
  <2>11. BothInv'
    <3>1. CASE l = "cpu"
      <4>1. ~run["gpu"].success /\ run'["gpu"] = run["gpu"] /\ proc'["gpu"] = proc["gpu"]
        BY <1>2, <1>3, <2>4, <2>8, <3>1 DEF BothInv, Calls1, Levels
      <4> QED
        BY <1>1, <1>2, <1>3, <2>2, <2>4, <3>1, <4>1 DEF BothInv, Idle, Calls1
    <3>2. CASE l = "gpu"
      <4>1. mode # "cpu" /\ run'["cpu"] = run["cpu"] /\ proc'["cpu"] = proc["cpu"]
        BY <1>2, <1>3, <2>4, <2>8, <3>2 DEF BothInv, Calls1, Levels
      <4>2. proc["gpu"].read = 0
        BY <1>4, <3>2 DEF NoProc
      <4> QED
        BY <1>1, <1>2, <1>3, <2>2, <2>4, <3>2, <4>1, <4>2 DEF BothInv, Idle, Calls1
    <3> QED
      BY <3>1, <3>2 DEF Levels
  <2>12. CpuRead'
    BY <1>1, <1>2, <2>6, <2>8 DEF CpuRead, Idle, Levels
  <2>13. GpuRead'
    BY <1>1, <1>2, <1>3, <2>2, <2>4, <2>6, <2>8 DEF GpuRead, Idle, Calls1, Levels
  <2> QED
    BY <2>9, <2>10, <2>11, <2>12, <2>13 DEF ClientInv, Levels
<1>7. CASE /\ run' = [run EXCEPT ![l].pc = "returned", ![l].ret = -1]
           /\ UNCHANGED proc
  <2>6. PICK v : v = -1
    OBVIOUS
  <2>1. PICK c : c = [r EXCEPT !.pc = "returned", !.ret = v]
    OBVIOUS
  <2>5. v \in {-1, 0} /\ v # 0
    BY <2>6
  <2>2. c \in Calls /\ c.pc = "returned" /\ ~c.success /\ c.ret # 0
    <3>1. c.success = r.success /\ c.ret = v /\ c.pc = "returned"
      BY <1>3, <2>1 DEF Calls
    <3>2. c \in Calls
      BY <1>3, <2>1, <2>5 DEF Calls
    <3> QED
      BY <1>3, <2>5, <3>1, <3>2
  <2>3. run' = [run EXCEPT ![l] = c]
    BY <1>2, <1>3, <1>7, <2>1, <2>6 DEF ClientTypes
  <2>4. Calls1(l, c)
    BY <1>2, <2>2, <2>3, CallSet DEF ClientTypes
  <2>9. ClientTypes'
    BY <1>1, <1>2, <1>7, <2>4 DEF ClientTypes, Idle, Calls1
  <2>10. \A k \in Levels : CallInv(k)'
    BY <1>1, <1>2, <1>7, <2>2, <2>4 DEF CallInv, Idle, Calls1
  <2>11. BothInv'
    BY <1>1, <1>2, <1>3, <1>7, <2>2, <2>4 DEF BothInv, Idle, Calls1, Levels
  <2>12. CpuRead'
    BY <1>1, <1>2, <1>7 DEF CpuRead, Idle
  <2>13. GpuRead'
    BY <1>1, <1>2, <1>3, <1>7, <2>2, <2>4 DEF GpuRead, Idle, Calls1, Levels
  <2> QED
    BY <2>9, <2>10, <2>11, <2>12, <2>13 DEF ClientInv, Levels
<1> QED
  BY <1>6, <1>7 DEF Spawn

\* The end of the output.
LEMMA PcloseKeepsClient ==
  ASSUME ClientInv, NEW l \in Levels, Pclose(l)
  PROVE  ClientInv'
<1>1. Idle /\ result' = result /\ quit' = quit /\ proc' = proc
  <2>1. UNCHANGED <<vars, gpuVars, mode, size>> /\ result' = result /\ quit' = quit /\ proc' = proc
    BY DEF Pclose
  <2> QED
    BY <2>1, ClientIdle
<1>2. /\ ClientTypes /\ \A k \in Levels : CallInv(k)
      /\ BothInv /\ CpuRead /\ GpuRead
  BY DEF ClientInv, Levels
<1>3. PICK r \in Calls : r = run[l] /\ r.pc = "reading"
  BY <1>2 DEF ClientTypes, Pclose
<1>4. PICK v \in {-1, 0} : /\ run' = [run EXCEPT ![l].pc = "returned", ![l].ret = v]
                           /\ v = 0 => r.success
  <2>1. PICK v : /\ run' = [run EXCEPT ![l].pc = "returned", ![l].ret = v]
                 /\ v = IF run[l].success /\ (proc[l].st = "exited" \/ l = "gpu") THEN 0 ELSE -1
    BY Zenon DEF Pclose
  <2>2. v \in {-1, 0} /\ (v = 0 => r.success)
    BY <1>3, <2>1
  <2> QED
    BY <2>1, <2>2
<1>5. PICK c : c = [r EXCEPT !.pc = "returned", !.ret = v]
  OBVIOUS
<1>6. c \in Calls /\ c.pc = "returned" /\ c.success = r.success /\ c.ret = v
  BY <1>3, <1>4, <1>5 DEF Calls
<1>7. run' = [run EXCEPT ![l] = c]
  BY <1>2, <1>3, <1>4, <1>5 DEF ClientTypes
<1>8. Calls1(l, c)
  BY <1>2, <1>6, <1>7, CallSet DEF ClientTypes
<1>9. ClientTypes'
  BY <1>1, <1>2, <1>8 DEF ClientTypes, Idle, Calls1
<1>10. \A k \in Levels : CallInv(k)'
  BY <1>1, <1>2, <1>4, <1>6, <1>8 DEF CallInv, Idle, Calls1
<1>11. BothInv'
  BY <1>1, <1>2, <1>3, <1>6, <1>8 DEF BothInv, Idle, Calls1, Levels
<1>12. CpuRead'
  BY <1>1, <1>2 DEF CpuRead, Idle
<1>13. GpuRead'
  BY <1>1, <1>2, <1>3, <1>6, <1>8 DEF GpuRead, Idle, Calls1, Levels
<1> QED
  BY <1>9, <1>10, <1>11, <1>12, <1>13 DEF ClientInv, Levels

\* The nested call returns.
LEMMA NestedKeepsClient ==
  ASSUME ClientInv, NestedReturns
  PROVE  ClientInv'
<1>1. Idle /\ result' = result /\ quit' = quit /\ proc' = proc
  <2>1. UNCHANGED <<vars, gpuVars, mode, size>> /\ result' = result /\ quit' = quit /\ proc' = proc
    BY DEF NestedReturns
  <2> QED
    BY <2>1, ClientIdle
<1>2. /\ ClientTypes /\ \A k \in Levels : CallInv(k)
      /\ BothInv /\ CpuRead /\ GpuRead
  BY DEF ClientInv, Levels
<1>3. PICK r \in Calls : /\ r = run["gpu"] /\ r.pc = "nested"
                         /\ run["cpu"].pc = "returned" /\ run["cpu"].ret \in {-1, 0}
  BY <1>2 DEF ClientTypes, NestedReturns, Calls, Levels
<1>4. PICK c : /\ c = IF run["cpu"].ret < 0 THEN [r EXCEPT !.pc = "returned", !.ret = -1]
                                            ELSE [r EXCEPT !.pc = "reading", !.success = TRUE]
               /\ run' = [run EXCEPT !["gpu"] = c]
  BY <1>3, Zenon DEF NestedReturns
<1>5. c \in Calls /\ \/ c.pc = "returned" /\ c.ret # 0 /\ c.success = r.success
                     \/ c.pc = "reading" /\ run["cpu"].ret = 0
  <2>1. CASE run["cpu"].ret < 0
    <3>5. PICK v : v = -1
      OBVIOUS
    <3>1. c = [r EXCEPT !.pc = "returned", !.ret = v]
      BY <1>4, <2>1, <3>5
    <3>2. v \in {-1, 0} /\ v # 0
      BY <3>5
    <3>3. c.success = r.success /\ c.ret = v /\ c.pc = "returned"
      BY <1>3, <3>1 DEF Calls
    <3>4. c \in Calls
      BY <1>3, <3>1, <3>2 DEF Calls
    <3> QED
      BY <3>2, <3>3, <3>4
  <2>2. CASE ~(run["cpu"].ret < 0)
    <3>1. c = [r EXCEPT !.pc = "reading", !.success = TRUE]
      BY <1>4, <2>2
    <3>2. c \in Calls /\ c.pc = "reading"
      BY <1>3, <3>1 DEF Calls
    <3>3. run["cpu"].ret = 0
      BY <1>3, <2>2
    <3> QED
      BY <3>2, <3>3
  <2> QED
    BY <2>1, <2>2
<1>6. Calls1("gpu", c)
  BY <1>2, <1>4, <1>5, CallSet DEF ClientTypes, Levels
<1>7. mode = "gpu" /\ host = "aborted" /\ proc["gpu"].read = 3 /\ size = TASK_SIZE
  BY <1>2, <1>3 DEF ClientTypes, CallInv, BothInv, Levels
<1>9. ClientTypes'
  BY <1>1, <1>2, <1>6 DEF ClientTypes, Idle, Calls1
<1>10. \A k \in Levels : CallInv(k)'
  BY <1>1, <1>2, <1>3, <1>5, <1>6, <1>7 DEF CallInv, Idle, Calls1
<1>11. BothInv'
  BY <1>1, <1>2, <1>3, <1>5, <1>6, <1>7 DEF BothInv, Idle, Calls1, Levels
<1>12. CpuRead'
  BY <1>1, <1>2 DEF CpuRead, Idle
<1>13. GpuRead'
  BY <1>1, <1>7 DEF GpuRead, Idle
<1> QED
  BY <1>9, <1>10, <1>11, <1>12, <1>13 DEF ClientInv, Levels

\* The kinds of steps that reading the k-th line may be.
ReadKinds(l, k) ==
  \/ k = 1 /\ result' = result /\ IF size = TASK_SIZE THEN run' = run
             ELSE run' = [run EXCEPT ![l].pc = "returned", ![l].ret = -1]
  \/ k = 2 /\ result' = result /\ run' = run
  \/ /\ Ended(l) /\ Outcome(l) = "halted"
     /\ \/ /\ k = 3 /\ run' = run
           /\ result' = [result EXCEPT !.overflow = IF l = "cpu" THEN over ELSE 0]
        \/ /\ k = 4 /\ run' = run
           /\ result' = [result EXCEPT !.checksum = IF l = "cpu" THEN sum ELSE gsum]
        \/ k = 5 /\ run' = run /\ result' = [result EXCEPT !.mxoffset = Offset(l)]
        \/ k = 6 /\ run' = [run EXCEPT ![l].success = TRUE] /\ result' = result
  \/ k = 3 /\ Ended(l) /\ Outcome(l) = "aborted" /\ result' = result /\ Overflown(l)
  \/ k = 3 /\ Ended(l) /\ Outcome(l) = "no_gpu" /\ result' = result
       /\ run' = [run EXCEPT ![l].success = FALSE]
  \/ k >= 3 /\ Ended(l) /\ Outcome(l) # "halted" /\ result' = result /\ run' = run

\* The k-th line is read.
LEMMA ReadLineKinds ==
  ASSUME ClientInv, NEW l \in Levels, ReadLine(l), NEW k, k = proc[l].read + 1
  PROVE  /\ k \in 1 .. 6 /\ k <= proc[l].printed /\ k <= Len(Lines(l))
         /\ ReadKinds(l, k) /\ quit' \in BOOLEAN
<1>1. PICK r \in Procs : r = proc[l] /\ r.read < r.printed /\ r.printed <= Len(Lines(l))
  <2>1. proc[l] \in Procs /\ CallInv(l)
    BY DEF ClientInv, ClientTypes, Levels
  <2> QED
    BY <2>1 DEF ReadLine, CallInv
<1>2. PICK y, z \in 0 .. 6 : y = r.read /\ z = r.printed
  BY <1>1 DEF Procs
<1>3. LinesFacts(l)
  BY LinesAlways
<1>4. PICK e : e = Len(Lines(l))
  OBVIOUS
<1>5. e \in {2, 3, 4, 6}
  BY <1>3, <1>4, Zenon DEF LinesFacts
<1>6. k \in 1 .. 6 /\ k <= z /\ k <= e /\ k = y + 1
  <2>1. k = y + 1 /\ y < z
    BY <1>1, <1>2
  <2>2. z <= e
    BY <1>1, <1>2, <1>4, Zenon
  <2> QED
    BY <1>5, <2>1, <2>2
<1>7. quit \in BOOLEAN
  BY DEF ClientInv, ClientTypes
<1>8. PICK s : s = Lines(l)[k] /\ Got(l, s)
  BY Zenon DEF ReadLine, Line
<1>9. ASSUME s = "TASK_SIZE"
      PROVE  /\ result' = result /\ quit' = quit
             /\ run' = IF size = TASK_SIZE THEN run
                       ELSE [run EXCEPT ![l].pc = "returned", ![l].ret = -1]
  BY <1>8, <1>9 DEF Got
<1>10. ASSUME s \in {"TASK_ID", "ERROR"}
       PROVE  result' = result /\ quit' = quit /\ run' = run
  BY <1>8, <1>10 DEF Got
<1>11. ASSUME s = "OVERFLOW"
       PROVE  /\ result' = [result EXCEPT !.overflow = IF l = "cpu" THEN over ELSE 0]
              /\ quit' = quit /\ run' = run
  BY <1>8, <1>11 DEF Got
<1>12. ASSUME s = "CHECKSUM"
       PROVE  /\ result' = [result EXCEPT !.checksum = IF l = "cpu" THEN sum ELSE gsum]
              /\ quit' = quit /\ run' = run
  BY <1>8, <1>12 DEF Got
<1>13. ASSUME s = "MAXIMUM_OFFSET"
       PROVE  result' = [result EXCEPT !.mxoffset = Offset(l)] /\ quit' = quit /\ run' = run
  BY <1>8, <1>13 DEF Got
<1>14. ASSUME s = "HALTED"
       PROVE  result' = result /\ quit' = quit /\ run' = [run EXCEPT ![l].success = TRUE]
  BY <1>8, <1>14 DEF Got
<1>15. ASSUME s = "ABORTED_DUE_TO_OVERFLOW"
       PROVE  result' = result /\ quit' = quit /\ Overflown(l)
  BY <1>8, <1>15 DEF Got
<1>16. ASSUME s = "NO_GPU_FOUND"
       PROVE  result' = result /\ quit' = TRUE /\ run' = [run EXCEPT ![l].success = FALSE]
  BY <1>8, <1>16 DEF Got
<1>17. CASE k <= 2
  <2>1. \/ k = 1 /\ s = "TASK_SIZE"
        \/ k = 2 /\ s = "TASK_ID"
    BY <1>3, <1>6, <1>8, <1>17 DEF LinesFacts
  <2>2. ReadKinds(l, k) /\ quit' = quit
    BY <1>9, <1>10, <2>1 DEF ReadKinds
  <2> QED
    BY <1>1, <1>2, <1>4, <1>6, <1>7, <2>2
<1>18. CASE k >= 3
  <2>1. Ended(l)
    BY <1>3, <1>4, <1>6, <1>18 DEF LinesFacts
  <2>2. CASE Outcome(l) = "halted"
    <3>1. \/ k = 3 /\ s = "OVERFLOW"
          \/ k = 4 /\ s = "CHECKSUM"
          \/ k = 5 /\ s = "MAXIMUM_OFFSET"
          \/ k = 6 /\ s = "HALTED"
      BY <1>3, <1>6, <1>8, <1>18, <2>1, <2>2 DEF LinesFacts
    <3>2. ReadKinds(l, k) /\ quit' = quit
      BY <1>11, <1>12, <1>13, <1>14, <2>1, <2>2, <3>1 DEF ReadKinds
    <3> QED
      BY <1>1, <1>2, <1>4, <1>6, <1>7, <3>2
  <2>3. CASE Outcome(l) = "aborted"
    <3>1. k = 3 /\ s = "ABORTED_DUE_TO_OVERFLOW"
      BY <1>3, <1>4, <1>6, <1>8, <1>18, <2>1, <2>3 DEF LinesFacts
    <3>2. ReadKinds(l, k) /\ quit' = quit
      BY <1>15, <2>1, <2>3, <3>1 DEF ReadKinds
    <3> QED
      BY <1>1, <1>2, <1>4, <1>6, <1>7, <3>2
  <2>4. CASE Outcome(l) = "no_gpu"
    <3>1. \/ k = 3 /\ s = "NO_GPU_FOUND"
          \/ k = 4 /\ s = "ERROR"
      BY <1>3, <1>4, <1>6, <1>8, <1>18, <2>1, <2>4 DEF LinesFacts
    <3>2. ReadKinds(l, k) /\ quit' \in BOOLEAN
      <4>1. CASE k = 3 /\ s = "NO_GPU_FOUND"
        <5>1. result' = result /\ quit' = TRUE /\ run' = [run EXCEPT ![l].success = FALSE]
          BY <1>16, <4>1
        <5> QED
          BY <2>1, <2>4, <4>1, <5>1, Zenon DEF ReadKinds
      <4>2. CASE k = 4 /\ s = "ERROR"
        <5>1. result' = result /\ quit' = quit /\ run' = run
          BY <1>10, <4>2
        <5>2. Outcome(l) # "halted" /\ k >= 3
          BY <2>4, <4>2
        <5> QED
          BY <1>7, <2>1, <5>1, <5>2, Zenon DEF ReadKinds
      <4> QED
        BY <3>1, <4>1, <4>2
    <3> QED
      BY <1>1, <1>2, <1>4, <1>6, <1>7, <3>2
  <2>5. CASE Outcome(l) \notin {"halted", "aborted", "no_gpu"}
    <3>1. k = 3 /\ s = "ERROR"
      BY <1>3, <1>4, <1>6, <1>8, <1>18, <2>1, <2>5 DEF LinesFacts
    <3>2. ReadKinds(l, k) /\ quit' = quit
      BY <1>10, <2>1, <2>5, <3>1 DEF ReadKinds
    <3> QED
      BY <1>1, <1>2, <1>4, <1>6, <1>7, <3>2
  <2> QED
    BY <2>2, <2>3, <2>4, <2>5
<1> QED
  BY <1>6, <1>17, <1>18

\* When a line is read, its worker is the one that works for the call, and
\* nothing has been accepted of it yet.
LEMMA ReadingFacts ==
  ASSUME ClientInv, NEW l \in Levels, run[l].pc = "reading", proc[l].read < proc[l].printed
  PROVE  /\ ~run["cpu"].success /\ ~run["gpu"].success
         /\ l = "gpu" => mode = "gpu" /\ run["cpu"].pc = "none" /\ proc["cpu"] = NoProc
         /\ l = "cpu" /\ mode = "cpu" => run["gpu"].pc = "none"
<1>1. /\ ClientTypes /\ \A k \in Levels : CallInv(k) /\ LinesFacts(k)
      /\ BothInv
  BY LinesAlways DEF ClientInv, Levels
<1>2. /\ proc[l].read \in Nat /\ proc[l].printed \in Nat /\ proc[l].printed <= 6
  BY <1>1 DEF ClientTypes, Procs
<1>3. proc[l].read # 6
  BY <1>2
<1>4. CASE l = "gpu"
  <2>1. mode = "gpu"
    BY <1>1, <1>4 DEF BothInv, ClientTypes, Levels
  <2>2. ~(host = "aborted" /\ proc["gpu"].read = 3)
    <3> SUFFICES ASSUME host = "aborted", proc["gpu"].read = 3 PROVE FALSE
      OBVIOUS
    <3>1. Ended("gpu") /\ Outcome("gpu") = "aborted"
      BY DEF Ended, Outcome
    <3>2. Len(Lines("gpu")) = 3
      BY <1>1, <3>1 DEF LinesFacts, Levels
    <3>3. proc["gpu"].printed <= 3
      BY <1>1, <1>4, <3>2 DEF CallInv
    <3> QED
      BY <1>2, <1>4, <3>3
  <2>3. run["cpu"].pc = "none"
    BY <1>1, <2>1, <2>2 DEF BothInv
  <2>4. proc["cpu"] = NoProc /\ ~run["cpu"].success
    BY <1>1, <2>3 DEF CallInv, Levels
  <2>5. ~run["gpu"].success
    BY <1>1, <1>3, <1>4, <2>3 DEF BothInv
  <2> QED
    BY <1>4, <2>1, <2>3, <2>4, <2>5
<1>5. CASE l = "cpu"
  BY <1>1, <1>3, <1>5 DEF BothInv
<1> QED
  BY <1>4, <1>5 DEF Levels

\* A line is read.
LEMMA ReadKeepsClient ==
  ASSUME ClientInv, NEW l \in Levels, ReadLine(l)
  PROVE  ClientInv'
<1>1. Idle /\ run[l].pc = "reading" /\ proc[l].read < proc[l].printed
  <2>1. UNCHANGED <<vars, gpuVars, mode, size>>
    BY DEF ReadLine
  <2> QED
    BY <2>1, ClientIdle DEF ReadLine
<1>2. /\ ClientTypes /\ \A k \in Levels : CallInv(k)
      /\ BothInv /\ CpuRead /\ GpuRead
  BY DEF ClientInv, Levels
<1>3. PICK k : k = proc[l].read + 1
  OBVIOUS
<1>4. /\ k \in 1 .. 6 /\ k <= proc[l].printed /\ k <= Len(Lines(l))
      /\ ReadKinds(l, k) /\ quit' \in BOOLEAN
  BY <1>3, ReadLineKinds
<1>5. /\ ~run["cpu"].success /\ ~run["gpu"].success
      /\ l = "gpu" => mode = "gpu" /\ run["cpu"].pc = "none" /\ proc["cpu"] = NoProc
      /\ l = "cpu" /\ mode = "cpu" => run["gpu"].pc = "none"
  BY <1>1, ReadingFacts
<1>6. /\ proc' \in [Levels -> Procs] /\ proc'[l].read = k /\ proc'[l].printed = proc[l].printed
      /\ \A j \in Levels : j # l => proc'[j] = proc[j]
  <2>1. PICK r \in Procs : r = proc[l]
    BY <1>2 DEF ClientTypes
  <2>2. PICK q : q = [r EXCEPT !.read = k]
    OBVIOUS
  <2>3. proc' = [proc EXCEPT ![l] = q]
    BY <1>3, <2>1, <2>2 DEF ReadLine
  <2>4. q \in Procs /\ q.read = k /\ q.printed = r.printed
    BY <1>4, <2>1, <2>2 DEF Procs
  <2> QED
    BY <1>2, <2>1, <2>3, <2>4 DEF ClientTypes
<1>7. PICK r \in Calls : r = run[l] /\ r.pc = "reading" /\ ~r.success
  BY <1>1, <1>2, <1>5 DEF ClientTypes, Levels
<1>8. k > 1 => size = TASK_SIZE
  <2>1. proc[l].read \in Nat
    BY <1>2 DEF ClientTypes, Procs
  <2>2. k > 1 => proc[l].read >= 1
    BY <1>3, <2>1
  <2> QED
    BY <1>1, <1>2, <2>2 DEF CallInv
<1>9. /\ proc[l].printed <= Len(Lines(l)) /\ Lines(l)' = Lines(l) /\ k <= proc'[l].printed
  BY <1>1, <1>2, <1>4, <1>6 DEF CallInv, Idle
<1>10. ASSUME NEW c \in Calls, Calls1(l, c), c.pc \in {"reading", "returned"},
              (c.pc = "reading" /\ k = 1) => size = TASK_SIZE,
              c.pc = "returned" => c.ret # 0
       PROVE  \A j \in Levels : CallInv(j)'
  <2> TAKE j \in Levels
  <2>1. CASE j = l
    BY <1>1, <1>4, <1>6, <1>8, <1>9, <1>10, <2>1 DEF CallInv, Calls1, Idle
  <2>2. CASE j # l
    BY <1>1, <1>2, <1>6, <1>10, <2>2 DEF CallInv, Calls1, Idle
  <2> QED
    BY <2>1, <2>2
<1>11. ASSUME NEW c \in Calls, Calls1(l, c), c.pc \in {"reading", "returned"},
              c.success => /\ Outcome(l) = "halted" /\ k = 6
       PROVE  BothInv'
  <2>1. CASE l = "gpu"
    <3>1. run'["cpu"] = run["cpu"] /\ run'["gpu"] = c /\ proc'["gpu"].read = k
      BY <1>6, <1>11, <2>1 DEF Calls1, Levels
    <3>2. c.success => host = "halted" /\ k = 6 /\ size = TASK_SIZE
      BY <1>8, <1>11, <2>1 DEF Outcome
    <3> QED
      BY <1>1, <1>2, <1>5, <2>1, <3>1, <3>2 DEF BothInv, Idle
  <2>2. CASE l = "cpu"
    <3>1. run'["gpu"] = run["gpu"] /\ run'["cpu"] = c /\ proc'["cpu"].read = k
          /\ proc'["gpu"] = proc["gpu"]
      BY <1>6, <1>11, <2>2 DEF Calls1, Levels
    <3>2. c.success => pc = "halted" /\ k = 6 /\ size = TASK_SIZE
      BY <1>8, <1>11, <2>2 DEF Outcome
    <3> QED
      BY <1>1, <1>2, <1>5, <1>7, <1>11, <2>2, <3>1, <3>2 DEF BothInv, Idle
  <2> QED
    BY <2>1, <2>2 DEF Levels
<1>12. ASSUME result' = result,
              (k >= 3 /\ Outcome(l) = "halted") => k = 6,
              run' \in [Levels -> Calls],
              l = "cpu" => run'["cpu"].pc # "none"
       PROVE  CpuRead' /\ GpuRead'
  <2>1. CASE l = "gpu"
    <3>1. proc'["cpu"].read = 0 /\ proc'["gpu"].read = k /\ proc["gpu"].read = k - 1
      BY <1>2, <1>3, <1>5, <1>6, <2>1 DEF Levels, NoProc, ClientTypes, Procs
    <3>2. CpuRead'
      BY <3>1 DEF CpuRead
    <3>3. host = "halted" => Outcome(l) = "halted"
      BY <2>1 DEF Outcome
    <3>4. GpuRead'
      BY <1>1, <1>2, <1>4, <1>5, <1>12, <2>1, <3>1, <3>3 DEF GpuRead, Idle
    <3> QED
      BY <3>2, <3>4
  <2>2. CASE l = "cpu"
    <3>1. proc'["cpu"].read = k /\ proc["cpu"].read = k - 1
      BY <1>2, <1>3, <1>6, <2>2 DEF Levels, ClientTypes, Procs
    <3>2. pc = "halted" => Outcome(l) = "halted"
      BY <2>2 DEF Outcome
    <3>3. CpuRead'
      BY <1>1, <1>2, <1>4, <1>12, <3>1, <3>2 DEF CpuRead, Idle
    <3>4. GpuRead'
      BY <1>12, <2>2 DEF GpuRead
    <3> QED
      BY <3>3, <3>4
  <2> QED
    BY <2>1, <2>2 DEF Levels
<1>13. ASSUME run' \in [Levels -> Calls],
              result' = [overflow |-> result'.overflow, checksum |-> result'.checksum,
                         mxoffset |-> result'.mxoffset]
       PROVE  ClientTypes'
  BY <1>1, <1>2, <1>4, <1>6, <1>13 DEF ClientTypes, Idle
<1>14. run' = run => Calls1(l, r)
  BY <1>2, <1>7 DEF Calls1, ClientTypes
<1>15. CASE k = 1
  <2>1. result' = result /\ IF size = TASK_SIZE THEN run' = run
             ELSE run' = [run EXCEPT ![l].pc = "returned", ![l].ret = -1]
    BY <1>4, <1>15 DEF ReadKinds
  <2>2. PICK c \in Calls : /\ Calls1(l, c) /\ ~c.success /\ c.pc \in {"reading", "returned"}
                           /\ c.pc = "reading" => size = TASK_SIZE
                           /\ c.pc = "returned" => c.ret # 0
    <3>1. CASE size = TASK_SIZE
      <4>1. Calls1(l, r)
        BY <1>14, <2>1, <3>1
      <4> QED
        BY <1>7, <3>1, <4>1
    <3>2. CASE size # TASK_SIZE
      <4>1. PICK v : v = -1
        OBVIOUS
      <4>2. PICK c : c = [r EXCEPT !.pc = "returned", !.ret = v]
        OBVIOUS
      <4>3. v \in {-1, 0} /\ v # 0
        BY <4>1
      <4>4. c \in Calls
        BY <1>7, <4>2, <4>3 DEF Calls
      <4>5. c.pc = "returned" /\ ~c.success /\ c.ret # 0
        BY <1>7, <4>2, <4>3 DEF Calls
      <4>6. run' = [run EXCEPT ![l] = c]
        BY <1>2, <1>7, <2>1, <3>2, <4>1, <4>2 DEF ClientTypes
      <4>7. Calls1(l, c)
        BY <1>2, <4>4, <4>6, CallSet DEF ClientTypes
      <4> QED
        BY <4>4, <4>5, <4>7
    <3> QED
      BY <3>1, <3>2
  <2>3. run' \in [Levels -> Calls] /\ (l = "cpu" => run'["cpu"].pc # "none")
    BY <2>2 DEF Calls1
  <2>4. CpuRead' /\ GpuRead'
    BY <1>12, <1>15, <2>1, <2>3
  <2>5. ClientTypes'
    BY <1>2, <1>13, <2>1, <2>3 DEF ClientTypes
  <2>6. BothInv' /\ \A j \in Levels : CallInv(j)'
    BY <1>10, <1>11, <2>2
  <2> QED
    BY <2>4, <2>5, <2>6 DEF ClientInv, Levels
<1>16. CASE run' = run /\ result' = result /\ k # 1 /\ (k >= 3 => Outcome(l) # "halted")
  <2>1. CpuRead' /\ GpuRead'
    BY <1>2, <1>7, <1>12, <1>16 DEF ClientTypes
  <2>2. ClientTypes'
    BY <1>2, <1>13, <1>16 DEF ClientTypes
  <2>3. BothInv' /\ \A j \in Levels : CallInv(j)'
    BY <1>7, <1>10, <1>11, <1>14, <1>16
  <2> QED
    BY <2>1, <2>2, <2>3 DEF ClientInv, Levels
<1>17. CASE /\ run' = [run EXCEPT ![l].success = TRUE] /\ result' = result
            /\ k = 6 /\ Outcome(l) = "halted"
  <2>1. PICK c : c = [r EXCEPT !.success = TRUE]
    OBVIOUS
  <2>2. c \in Calls /\ c.pc = "reading"
    BY <1>7, <2>1 DEF Calls
  <2>3. run' = [run EXCEPT ![l] = c]
    BY <1>7, <1>17, <2>1
  <2>4. Calls1(l, c)
    BY <1>2, <2>2, <2>3, CallSet DEF ClientTypes
  <2>5. run' \in [Levels -> Calls] /\ (l = "cpu" => run'["cpu"].pc # "none")
    BY <2>2, <2>4 DEF Calls1
  <2>6. CpuRead' /\ GpuRead'
    BY <1>12, <1>17, <2>5
  <2>7. ClientTypes'
    BY <1>2, <1>13, <1>17, <2>5 DEF ClientTypes
  <2>8. BothInv' /\ \A j \in Levels : CallInv(j)'
    BY <1>10, <1>11, <1>17, <2>2, <2>4
  <2> QED
    BY <2>6, <2>7, <2>8 DEF ClientInv, Levels
<1>18. CASE /\ run' = [run EXCEPT ![l].success = FALSE] /\ result' = result
            /\ k = 3 /\ Outcome(l) = "no_gpu"
  <2>1. PICK c : c = [r EXCEPT !.success = FALSE]
    OBVIOUS
  <2>2. c \in Calls /\ c.pc = "reading" /\ ~c.success
    BY <1>7, <2>1 DEF Calls
  <2>3. run' = [run EXCEPT ![l] = c]
    BY <1>7, <1>18, <2>1
  <2>4. Calls1(l, c)
    BY <1>2, <2>2, <2>3, CallSet DEF ClientTypes
  <2>5. run' \in [Levels -> Calls] /\ (l = "cpu" => run'["cpu"].pc # "none")
    BY <2>2, <2>4 DEF Calls1
  <2>6. CpuRead' /\ GpuRead'
    BY <1>12, <1>18, <2>5
  <2>7. ClientTypes'
    BY <1>2, <1>13, <1>18, <2>5 DEF ClientTypes
  <2>8. BothInv' /\ \A j \in Levels : CallInv(j)'
    BY <1>10, <1>11, <1>18, <2>2, <2>4
  <2> QED
    BY <2>6, <2>7, <2>8 DEF ClientInv, Levels
<1>19. CASE k = 3 /\ l = "gpu" /\ Outcome(l) = "aborted" /\ result' = result /\ Overflown(l)
  <2>1. PICK c : c = [r EXCEPT !.pc = "nested"]
    OBVIOUS
  <2>2. PICK s \in Calls : s = run["cpu"] /\ s.pc = "none" /\ ~s.success
    BY <1>2, <1>5, <1>19 DEF ClientTypes, Levels
  <2>3. PICK d : d = [s EXCEPT !.pc = "called"]
    OBVIOUS
  <2>4. c \in Calls /\ c.pc = "nested" /\ ~c.success
    BY <1>7, <2>1 DEF Calls
  <2>5. d \in Calls /\ d.pc = "called" /\ ~d.success
    BY <2>2, <2>3 DEF Calls
  <2>6. run' = [run EXCEPT !["gpu"].pc = "nested", !["cpu"].pc = "called"]
    BY <1>19 DEF Overflown
  <2>7. run' \in [Levels -> Calls] /\ run'["gpu"] = c /\ run'["cpu"] = d
    BY <1>2, <1>7, <1>19, <2>1, <2>2, <2>3, <2>4, <2>5, <2>6 DEF ClientTypes, Levels
  <2>8. host = "aborted" /\ mode = "gpu" /\ proc["cpu"] = NoProc /\ size = TASK_SIZE
        /\ proc'["cpu"] = proc["cpu"] /\ proc'["gpu"].read = 3
    BY <1>5, <1>6, <1>8, <1>19 DEF Outcome, Levels
  <2>9. CpuRead' /\ GpuRead'
    BY <1>12, <1>19, <2>5, <2>7
  <2>10. ClientTypes'
    BY <1>2, <1>13, <1>19, <2>7 DEF ClientTypes
  <2>11. CallInv("gpu")'
    BY <1>1, <1>4, <1>6, <1>9, <1>19, <2>4, <2>7, <2>8 DEF CallInv, Idle
  <2>12. CallInv("cpu")'
    <3>1. CallInv("cpu") /\ Lines("cpu")' = Lines("cpu")
      BY <1>1, <1>2 DEF Levels, Idle
    <3> QED
      BY <2>5, <2>7, <2>8, <3>1 DEF CallInv
  <2>13. BothInv'
    BY <1>1, <2>4, <2>5, <2>7, <2>8 DEF BothInv, Idle
  <2> QED
    BY <2>9, <2>10, <2>11, <2>12, <2>13 DEF ClientInv
<1>20. CASE Outcome(l) = "halted" /\ run' = run /\ k \in {3, 4, 5}
  <2>1. BothInv' /\ \A j \in Levels : CallInv(j)'
    BY <1>7, <1>10, <1>11, <1>14, <1>20
  <2>2. PICK a, b, c : result = [overflow |-> a, checksum |-> b, mxoffset |-> c]
    BY <1>2 DEF ClientTypes
  <2>3. \/ k = 3 /\ result' = [result EXCEPT !.overflow = IF l = "cpu" THEN over ELSE 0]
        \/ k = 4 /\ result' = [result EXCEPT !.checksum = IF l = "cpu" THEN sum ELSE gsum]
        \/ k = 5 /\ result' = [result EXCEPT !.mxoffset = Offset(l)]
    BY <1>4, <1>20 DEF ReadKinds
  <2>4. PICK x, y, z : /\ result' = [overflow |-> x, checksum |-> y, mxoffset |-> z]
                       /\ \/ k = 3 /\ x = IF l = "cpu" THEN over ELSE 0
                          \/ k = 4 /\ x = a /\ y = IF l = "cpu" THEN sum ELSE gsum
                          \/ k = 5 /\ x = a /\ y = b /\ z = Offset(l)
    BY <2>2, <2>3
  <2>5. ClientTypes'
    BY <1>2, <1>13, <1>20, <2>4 DEF ClientTypes
  <2>6. /\ result.overflow = a /\ result.checksum = b /\ result.mxoffset = c
        /\ result'.overflow = x /\ result'.checksum = y /\ result'.mxoffset = z
    BY <2>2, <2>4
  <2>7. CpuRead' /\ GpuRead'
    <3>1. CASE l = "gpu"
      <4>1. proc'["cpu"].read = 0 /\ proc'["gpu"].read = k /\ proc["gpu"].read = k - 1
            /\ host = "halted"
        BY <1>2, <1>3, <1>5, <1>6, <1>20, <3>1 DEF Levels, NoProc, ClientTypes, Procs, Outcome
      <4>2. CpuRead'
        BY <4>1 DEF CpuRead
      <4>3. GpuRead'
        BY <1>1, <1>2, <1>5, <1>20, <2>4, <2>6, <3>1, <4>1 DEF GpuRead, Idle, Offset
      <4> QED
        BY <4>2, <4>3
    <3>2. CASE l = "cpu"
      <4>1. proc'["cpu"].read = k /\ proc["cpu"].read = k - 1 /\ pc = "halted"
        BY <1>2, <1>3, <1>6, <1>20, <3>2 DEF Levels, ClientTypes, Procs, Outcome
      <4>2. CpuRead'
        BY <1>1, <1>2, <1>20, <2>4, <2>6, <3>2, <4>1 DEF CpuRead, Idle, Offset
      <4>3. GpuRead'
        BY <1>7, <1>20, <3>2 DEF GpuRead
      <4> QED
        BY <4>2, <4>3
    <3> QED
      BY <3>1, <3>2 DEF Levels
  <2> QED
    BY <2>1, <2>5, <2>7 DEF ClientInv, Levels
<1>21. CASE l = "cpu" /\ k = 3 /\ Outcome(l) = "aborted" /\ result' = result /\ Overflown(l)
  <2>1. run' = run
    BY <1>21 DEF Overflown
  <2> QED
    BY <1>16, <1>21, <2>1
<1>22. /\ k = 2 => run' = run /\ result' = result
       /\ k \in {3, 4, 5, 6} =>
            \/ Outcome(l) = "halted" /\ k \in {3, 4, 5} /\ run' = run
            \/ /\ run' = [run EXCEPT ![l].success = TRUE] /\ result' = result
               /\ k = 6 /\ Outcome(l) = "halted"
            \/ k = 3 /\ Outcome(l) = "aborted" /\ result' = result /\ Overflown(l)
            \/ /\ run' = [run EXCEPT ![l].success = FALSE] /\ result' = result
               /\ k = 3 /\ Outcome(l) = "no_gpu"
            \/ run' = run /\ result' = result /\ Outcome(l) # "halted"
  <2>1. ReadKinds(l, k)
    BY <1>4
  <2>2. CASE k = 2
    BY <2>1, <2>2 DEF ReadKinds
  <2>3. CASE k \in {3, 4, 5, 6}
    BY <2>1, <2>3 DEF ReadKinds
  <2> QED
    BY <2>2, <2>3
<1>23. k \in {1, 2, 3, 4, 5, 6}
  BY <1>4
<1> QED
  BY <1>15, <1>16, <1>17, <1>18, <1>19, <1>20, <1>21, <1>22, <1>23 DEF Levels

\* The client's invariant holds throughout.
LEMMA ClientHolds == AssignmentSpec => []ClientInv
<1>1. GpuInv /\ ClientInv /\ [AssignmentNext]_avars => ClientInv'
  <2> SUFFICES ASSUME GpuInv, ClientInv, [AssignmentNext]_avars PROVE ClientInv'
    OBVIOUS
  <2>1. Still
    BY WorkersStay
  <2>2. CASE WorkerRuns \/ KernelRuns \/ UNCHANGED avars
    <3>1. UNCHANGED <<mode, size, proc, run, result, quit>>
      BY <2>2 DEF WorkerRuns, KernelRuns, avars
    <3> QED
      BY <2>1, <3>1, WorkersKeepClient
  <2>3. ASSUME NEW l \in Levels, PrintLine(l) \/ Terminate(l) \/ Killed(l) \/ ExecFails(l)
        PROVE  ClientInv'
    BY <2>3, ProcsKeepClient
  <2>4. ASSUME NEW l \in Levels, Spawn(l) \/ ReadLine(l) \/ Pclose(l)
        PROVE  ClientInv'
    BY <2>4, SpawnKeepsClient, ReadKeepsClient, PcloseKeepsClient
  <2>5. CASE NestedReturns
    BY <2>5, NestedKeepsClient
  <2> QED
    BY <2>2, <2>3, <2>4, <2>5 DEF AssignmentNext, Progress
<1> QED
  BY <1>1, ClientStarts, GpuHolds, PTL DEF AssignmentSpec

-----------------------------------------------------------------------------
(* What the properties of Assignment say.                                    *)

\* No field of a work item wraps, the host reads no maximum that was never
\* set, and the client reads no more lines than a worker has printed, which
\* prints no more than it has.
THEOREM GpuTypeOKCorrect == AssignmentSpec => []GpuTypeOK
<1>1. GpuInv /\ ClientInv => GpuTypeOK
  <2> SUFFICES ASSUME GpuInv, ClientInv PROVE GpuTypeOK
    OBVIOUS
  <2>1. \A id \in Ids :
          /\ item[id].n \in 0 .. UMax(Width) /\ item[id].max \in 0 .. UMax(Width)
          /\ item[id].L \in 0 .. UMax(Half) /\ item[id].sum \in 0 .. UMax(SumBits)
          /\ kernel.precalc => item[id].R \in 0 .. SieveLog
    <3> TAKE id \in Ids
    <3>1. item[id] \in Items /\ (kernel.precalc => SieveLog = ClassLog)
      BY SieveOfBuild DEF GpuInv
    <3> QED
      BY <3>1 DEF Items
  <2>2. host = "halted" => \A id \in Ids : item[id].max0 # Unset
    BY DEF GpuInv, HostReports
  <2>3. /\ size \in Sizes /\ quit \in BOOLEAN
        /\ \A l \in Levels : proc[l].read <= proc[l].printed /\ proc[l].printed <= Len(Lines(l))
    BY DEF ClientInv, ClientTypes, CallInv, Levels
  <2> QED
    BY <2>1, <2>2, <2>3, Zenon DEF GpuTypeOK
<1> QED
  BY <1>1, GpuHolds, ClientHolds, PTL

\* The numbers of the task the CPU worker tests are those its sieves leave.
LEMMA SelectedIs ==
  ASSUME Job
  PROVE  /\ prog.kind = "worker" /\ Selected = SelectedByCpu
         /\ \A z, y : SelectedBy(z, y) \in SUBSET Nat /\ IsFiniteSet(SelectedBy(z, y))
         /\ SelectedByCpu \in SUBSET Nat /\ IsFiniteSet(SelectedByCpu)
         /\ SelectedByGpu \in SUBSET Nat /\ IsFiniteSet(SelectedByGpu)
         /\ Universe = Base .. Base + Pow2[TASK_SIZE] - 1
<1>1. prog.kind = "worker"
  BY AssignmentAssumption DEF Job
<1>2. Selected = SelectedByCpu
  BY <1>1 DEF Selected, SelectedByCpu, SelectedBy, InTask, Universe, IsLive
<1>3. Universe = Base .. Base + Pow2[TASK_SIZE] - 1
  BY <1>1 DEF Universe
<1>4. PICK a, e : a = Base /\ e = Base + Pow2[TASK_SIZE] - 1 /\ a \in Nat /\ e \in Int
  <2>1. Base \in Nat /\ Pow2[TASK_SIZE] \in Nat
    BY JobKinds, WorkerConstants, PowerBounds
  <2> QED
    BY <2>1
<1>5. IsFiniteSet(Universe) /\ Universe \in SUBSET Nat
  BY <1>3, <1>4, FS_Interval
<1>6. ASSUME NEW z, NEW y
      PROVE  SelectedBy(z, y) \in SUBSET Nat /\ IsFiniteSet(SelectedBy(z, y))
  <2>1. SelectedBy(z, y) \in SUBSET Universe
    BY DEF SelectedBy
  <2> QED
    BY <1>5, <2>1, FS_Subset
<1> QED
  BY <1>1, <1>2, <1>3, <1>6 DEF SelectedByCpu, SelectedByGpu

\* No power of two is a multiple of three.
LEMMA PowerNotThird ==
  ASSUME NEW k \in Nat
  PROVE  Pow2[k] % 3 # 0
<1> DEFINE P == {j \in Nat : Pow2[j] % 3 # 0}
<1>1. 0 \in P
  <2>1. Pow2[0] = 1
    BY Pow2Defined
  <2> QED
    BY <2>1
<1>2. ASSUME NEW j \in Nat, j \in P PROVE j + 1 \in P
  <2>1. PICK a, b : a = Pow2[j] /\ b = Pow2[j + 1]
    OBVIOUS
  <2>2. a \in Nat /\ a % 3 # 0 /\ b = 2 * a
    BY <1>2, <2>1, Pow2Defined, PowerBounds
  <2>3. b % 3 # 0
    BY <2>2
  <2> QED
    BY <2>1, <2>3
<1>3. k \in P
  <2> HIDE DEF P
  <2> QED
    BY <1>1, <1>2, SetInduction
<1> QED
  BY <1>3

\* Odd steps keep the order of two numbers.
LEMMA OddRunOrder ==
  ASSUME NEW b \in Nat, NEW c \in Nat, c < b, NEW k \in Nat,
         OddStepsIn(b, k) = k, OddStepsIn(c, k) = k
  PROVE  Iterate[k][c] < Iterate[k][b]
<1> DEFINE Run(j) == OddStepsIn(b, j) = j /\ OddStepsIn(c, j) = j
           P == {j \in Nat : Run(j) => Iterate[j][c] < Iterate[j][b]}
<1>1. 0 \in P
  BY IterateDefined
<1>2. ASSUME NEW j \in Nat, j \in P, Run(j + 1) PROVE Iterate[j + 1][c] < Iterate[j + 1][b]
  <2>1. /\ OddStepsIn(b, j) \in 0 .. j /\ OddStepsIn(c, j) \in 0 .. j
        /\ OddStepsIn(b, j + 1) = OddStepsIn(b, j) + (Iterate[j][b] % 2)
        /\ OddStepsIn(c, j + 1) = OddStepsIn(c, j) + (Iterate[j][c] % 2)
    BY OddStepsNext
  <2>2. PICK x \in Nat, y \in Nat : x = Iterate[j][b] /\ y = Iterate[j][c]
    BY IterateDefined
  <2>3. x % 2 = 1 /\ y % 2 = 1 /\ Run(j)
    <3>1. PICK e, f : e = OddStepsIn(b, j) /\ f = OddStepsIn(c, j)
      OBVIOUS
    <3>2. /\ e \in 0 .. j /\ f \in 0 .. j /\ e + (x % 2) = j + 1 /\ f + (y % 2) = j + 1
          /\ x % 2 \in {0, 1} /\ y % 2 \in {0, 1}
      BY <1>2, <2>1, <2>2, <3>1
    <3>3. e = j /\ f = j /\ x % 2 = 1 /\ y % 2 = 1
      BY <3>2
    <3> QED
      BY <3>1, <3>3
  <2>4. y < x
    BY <1>2, <2>2, <2>3
  <2>5. Iterate[j + 1][b] = T[x] /\ Iterate[j + 1][c] = T[y]
    BY <2>2, IterateDefined
  <2>6. T[x] = (3 * x + 1) \div 2 /\ T[y] = (3 * y + 1) \div 2
    BY <2>3 DEF T, Odd
  <2>7. (3 * y + 1) \div 2 < (3 * x + 1) \div 2
    BY <2>3, <2>4
  <2> QED
    BY <2>5, <2>6, <2>7
<1>3. \A j \in Nat : j \in P => j + 1 \in P
  BY <1>2
<1>4. k \in P
  <2> HIDE DEF P
  <2> QED
    BY <1>1, <1>3, SetInduction
<1> QED
  BY <1>4

\* The sieve of the classes keeps the last class: its members only rise, and no
\* lower class does so and comes to the same number.
LEMMA LastClassIsLive == IsLive(Pow2[SIEVE_LOGSIZE] - 1)
<1>1. PICK S, p : S = SIEVE_LOGSIZE /\ p = Pow2[S]
  OBVIOUS
<1>2. S \in Nat /\ p \in Nat \ {0}
  BY <1>1, WorkerConstants, PowerBounds
<1>3. \A j \in 0 .. S : j < S => Iterate[j][(Pow2[S] * 1) - 1] % 2 = 1
  BY <1>2, RiseSteps
<1>4. p * 1 - 1 = p - 1 /\ p - 1 \in Nat
  BY <1>2
<1>5. \A j \in 0 .. S - 1 : Iterate[j][p - 1] % 2 = 1
  BY <1>1, <1>2, <1>3, <1>4
<1>6. ASSUME NEW k \in 1 .. S PROVE k \in Nat /\ OddStepsIn(p - 1, k) = k
  <2>1. k \in Nat /\ \A j \in 0 .. k - 1 : Iterate[j][p - 1] % 2 = 1
    BY <1>2, <1>5
  <2> QED
    BY <1>4, <2>1, OddStepsOfRun
<1>7. ASSUME NEW k \in 1 .. S PROVE ~Sinks(p - 1, k)
  <2>1. Pow3[k] >= Pow2[k] /\ Pow3[k] \in Nat /\ Pow2[k] \in Nat
    BY <1>6, PowerBounds
  <2> QED
    BY <1>6, <2>1 DEF Sinks
<1>8. ASSUME NEW k \in 1 .. S, NEW c \in 0 .. (p - 1) - 1 PROVE ~Coalesces(p - 1, c, k)
  <2> SUFFICES ASSUME Coalesces(p - 1, c, k) PROVE FALSE
    OBVIOUS
  <2>1. PICK b \in Nat : b = p - 1 /\ c \in Nat /\ c < b
    BY <1>4
  <2>2. k \in Nat /\ OddStepsIn(b, k) = k /\ OddStepsIn(c, k) = k /\ Iterate[k][b] = Iterate[k][c]
    BY <1>6, <2>1 DEF Coalesces
  <2>3. Iterate[k][c] < Iterate[k][b] /\ Iterate[k][b] \in Nat
    BY <2>1, <2>2, OddRunOrder, IterateDefined
  <2> QED
    BY <2>2, <2>3
<1>9. (p - 1) % p = p - 1
  BY <1>2
<1>10. IsLiveIn(p - 1, S)
  BY <1>1, <1>7, <1>8, <1>9 DEF IsLiveIn
<1> QED
  BY <1>1, <1>10 DEF IsLive

\* The sieves never dismiss all of a task that has four members of each class:
\* of the members of the last class one in three is a multiple of three.
LEMMA SomeLeft ==
  ASSUME Job, TASK_SIZE >= SIEVE_LOGSIZE + 2, NEW y \in {1, 3, 9}
  PROVE  SelectedBy(SIEVE_LOGSIZE, y) # {}
<1>1. PICK p, r, b, t, m : /\ p = Pow2[SIEVE_LOGSIZE] /\ r = Pow2[SIEVE_LOGSIZE - 2]
                           /\ b = Base /\ t = task * Pow2[TASK_SIZE - 2] /\ m = p - 1
  OBVIOUS
<1>2. /\ p \in Nat \ {0} /\ p = 4 * r /\ p % 3 # 0 /\ r \in Nat
      /\ b \in Nat /\ b = 4 * t /\ t \in Nat
      /\ m = p - 1 /\ m \in 0 .. p - 1 /\ m \in Nat
  <2>1. p \in Nat \ {0} /\ r \in Nat /\ p % 3 # 0 /\ p = 4 * r
    BY <1>1, WorkerConstants, PowerBounds, PowerNotThird
  <2>2. b \in Nat /\ b = 4 * t /\ t \in Nat
    BY <1>1, JobKinds
  <2> QED
    BY <1>1, <2>1, <2>2
<1>3. IsLive(m)
  BY <1>1, LastClassIsLive
<1>4. Shares \in Nat /\ Shares >= 4
  <2>1. PICK e : e = TASK_SIZE - SIEVE_LOGSIZE
    OBVIOUS
  <2>2. e \in Nat /\ 2 <= e
    BY <2>1, WorkerConstants
  <2>3. Pow2[2] <= Pow2[e]
    BY <2>2, PowerOrder
  <2>4. Pow2[2] = 4
    <3>1. Pow2[0] = 1 /\ Pow2[0 + 1] = 2 * Pow2[0] /\ Pow2[1 + 1] = 2 * Pow2[1]
      BY Pow2Defined
    <3> QED
      BY <3>1
  <2> QED
    BY <2>1, <2>3, <2>4, WorkerConstants DEF Shares
<1>5. PICK h \in {0, 1, 2} : (b + h * p + m) % 3 = 0
  <2>1. PICK x : x = b + m
    OBVIOUS
  <2>2. x \in Nat
    BY <1>2, <2>1
  <2>3. x % 3 = 0 \/ (x + p) % 3 = 0 \/ (x + 2 * p) % 3 = 0
    BY <1>2, <2>2
  <2>4. x = b + 0 * p + m /\ x + p = b + 1 * p + m /\ x + 2 * p = b + 2 * p + m
    BY <1>2, <2>1
  <2> QED
    BY <2>3, <2>4
<1>6. PICK o : o = Member(m, h)
  OBVIOUS
<1>7. o = b + h * p + m
  BY <1>1, <1>6 DEF Member
<1>8. o \in Nat /\ o >= b /\ o < b + Pow2[TASK_SIZE] /\ IsLive(o)
  <2>1. m \in 0 .. Pow2[SIEVE_LOGSIZE] - 1 /\ h \in 0 .. Shares - 1
    BY <1>1, <1>2, <1>4
  <2>2. o \in Nat /\ o >= Base /\ o < Base + Pow2[TASK_SIZE] /\ (IsLive(o) <=> IsLive(m))
    BY <1>6, <2>1, MemberFacts
  <2> QED
    BY <1>1, <1>3, <2>2
<1>9. o % 4 = 3
  BY <1>2, <1>7
<1>10. IsLiveInSieve(o, y)
  <2>1. o % 3 = 0
    BY <1>5, <1>7
  <2>2. o % 9 \in {0, 3, 6}
    BY <1>8, <2>1
  <2>3. y \in {1, 3, 9} /\ Dead(1) = {} /\ Dead(3) = {2} /\ Dead(9) = {2, 4, 5, 8}
    BY DEF Dead
  <2>4. CASE y = 1
    BY <2>3, <2>4 DEF IsLiveInSieve
  <2>5. CASE y = 3
    BY <2>1, <2>3, <2>5 DEF IsLiveInSieve
  <2>6. CASE y = 9
    BY <2>2, <2>3, <2>6 DEF IsLiveInSieve
  <2> QED
    BY <2>4, <2>5, <2>6
<1>11. o \in Universe
  <2>1. PICK e : e = Pow2[TASK_SIZE]
    OBVIOUS
  <2>2. Universe = b .. b + e - 1
    BY <1>1, <2>1, SelectedIs
  <2>3. e \in Nat /\ o < b + e
    BY <1>8, <2>1, WorkerConstants, PowerBounds
  <2>4. o \in b .. b + e - 1
    BY <1>2, <1>8, <2>3
  <2> QED
    BY <2>2, <2>4, Zenon
<1> QED
  BY <1>8, <1>9, <1>10, <1>11 DEF SelectedBy, IsLive

\* The kernel's numbers are those its sieve leaves.
LEMMA KeptAre ==
  ASSUME Job, kernel \in Built, NEW k, k = kernel, NEW m
  PROVE  m \in SelectedByGpu
           <=> \E p \in 0 .. All - 1 : m = GNumber(k, Base, p) /\ GKept(k, m)
<1>0. /\ k \in Built
      /\ \A y : m = y => (GKept(k, m) <=> IsLiveIn(m, SieveLog) /\ IsLiveInSieve(m, k.mod))
  BY SieveOfBuild DEF GKept, ClassLive
<1>1. Universe = Base .. Base + Pow2[TASK_SIZE] - 1
  BY SelectedIs
<1>2. ASSUME m \in SelectedByGpu
      PROVE  \E p \in 0 .. All - 1 : m = GNumber(k, Base, p) /\ GKept(k, m)
  <2>1. /\ m \in Base .. Base + Pow2[TASK_SIZE] - 1 /\ m % 4 = 3 /\ GKept(k, m)
    BY <1>0, <1>1, <1>2 DEF SelectedByGpu, SelectedBy
  <2>2. \E p \in 0 .. All - 1 : m = GNumber(k, Base, p)
    BY <1>0, <2>1, GNumberInverse
  <2> QED
    BY <2>1, <2>2
<1>3. ASSUME NEW p \in 0 .. All - 1, m = GNumber(k, Base, p), GKept(k, m)
      PROVE  m \in SelectedByGpu
  <2>1. /\ m \in Nat /\ m >= Base /\ m < Base + Pow2[TASK_SIZE] /\ m % 4 = 3
    BY <1>0, <1>3, GNumberFacts
  <2>2. Base \in Nat /\ Pow2[TASK_SIZE] \in Nat
    BY JobKinds, WorkerConstants, PowerBounds
  <2>3. m \in Universe
    BY <1>1, <2>1, <2>2
  <2> QED
    BY <1>0, <1>3, <2>1, <2>3 DEF SelectedByGpu, SelectedBy
<1> QED
  BY <1>2, <1>3

\* The checksum over the numbers a sieve leaves, and a number that climbs as
\* high as any of a set.
Full(S)       == Checksum(SumFunction([m \in S |-> OddSteps(m)]))
Highest(m, U) == \A o \in U : PeakFrom(o, 0) <= PeakFrom(m, 0)

\* What the host reports is about these numbers.
LEMMA HostReportsAll ==
  ASSUME GpuInv, host = "halted"
  PROVE  /\ gsum = Full(SelectedByGpu) /\ gmax.n0 \in SelectedByGpu
         /\ ~kernel.precalc => Highest(gmax.n0, SelectedByGpu)
         /\ \A m \in SelectedByGpu :
              /\ \E d \in Nat : d > GFrom(kernel) /\ Descends(m, d)
              /\ PeakFrom(m, GFrom(kernel)) <= UMax(Width)
<1>1. PICK k : k = kernel /\ kernel \in Built
  BY DEF GpuInv
<1>2. Job /\ HostReports(k, Base, item, gsum, gmax)
  BY <1>1 DEF GpuInv
<1>3. \A m \in SelectedByGpu :
        /\ \E d \in Nat : d > GFrom(k) /\ Descends(m, d)
        /\ PeakFrom(m, GFrom(k)) <= UMax(Width)
        /\ ~k.precalc => PeakFrom(m, 0) <= PeakFrom(gmax.n0, 0)
  <2> TAKE m \in SelectedByGpu
  <2>1. PICK p \in 0 .. All - 1 : m = GNumber(k, Base, p) /\ GKept(k, m)
    BY <1>1, <1>2, KeptAre
  <2>2. \A c \in 0 .. All - 1 : GKept(k, GNumber(k, Base, c)) =>
          /\ \E d \in Nat : d > GFrom(k) /\ Descends(GNumber(k, Base, c), d)
          /\ PeakFrom(GNumber(k, Base, c), GFrom(k)) <= UMax(Width)
          /\ ~k.precalc => PeakFrom(GNumber(k, Base, c), 0) <= PeakFrom(gmax.n0, 0)
    BY <1>2, Zenon DEF HostReports
  <2> QED
    BY <2>1, <2>2, Zenon
<1>4. gmax.n0 \in SelectedByGpu
  BY <1>1, <1>2, KeptAre DEF HostReports
<1>5. KeptBelow(k, Base, All) = SelectedByGpu
  <2>1. \A m : m \in KeptBelow(k, Base, All)
                 <=> \E p \in 0 .. All - 1 : m = GNumber(k, Base, p) /\ GKept(k, m)
    BY DEF KeptBelow
  <2> QED
    BY <1>1, <1>2, <2>1, KeptAre
<1>6. \A m \in SelectedByGpu : Share(m) = OddSteps(m)
  <2> TAKE m \in SelectedByGpu
  <2>1. m \in Nat
    BY <1>2, SelectedIs
  <2>2. \E d \in Nat : Descends(m, d)
    BY <1>3
  <2> QED
    BY <2>1, <2>2, ShareType
<1>7. gsum = Full(SelectedByGpu)
  <2>1. gsum = Checksum(GTotal(k, Base, All))
    BY <1>2 DEF HostReports
  <2>2. [m \in SelectedByGpu |-> Share(m)] = [m \in SelectedByGpu |-> OddSteps(m)]
    BY <1>6
  <2>3. GTotal(k, Base, All) = SumFunction([m \in SelectedByGpu |-> Share(m)])
    BY <1>5 DEF GTotal
  <2> QED
    BY <2>1, <2>2, <2>3 DEF Full
<1>8. ~k.precalc => Highest(gmax.n0, SelectedByGpu)
  BY <1>3 DEF Highest
<1> QED
  BY <1>1, <1>3, <1>4, <1>7, <1>8

\* Which worker an accepted result is of.
LEMMA AcceptedIs ==
  ASSUME ClientInv, Accepted
  PROVE  /\ size = TASK_SIZE
         /\ \/ /\ mode = "gpu" /\ host = "halted" /\ result.overflow = 0
               /\ result.checksum = gsum /\ result.mxoffset = gmax.n0 - GBase
            \/ /\ run["cpu"].pc = "returned" /\ pc = "halted" /\ result.overflow = over
               /\ result.checksum = sum /\ result.mxoffset = max.n0 - Base
<1>1. /\ mode \in Levels /\ CallInv("cpu") /\ CallInv("gpu") /\ BothInv /\ CpuRead /\ GpuRead
  BY DEF ClientInv, ClientTypes
<1>2. ASSUME run["cpu"].pc = "returned", run["cpu"].ret = 0
      PROVE  /\ size = TASK_SIZE /\ pc = "halted" /\ result.overflow = over
             /\ result.checksum = sum /\ result.mxoffset = max.n0 - Base
  <2>1. run["cpu"].success
    BY <1>1, <1>2 DEF CallInv
  <2>2. pc = "halted" /\ proc["cpu"].read = 6 /\ size = TASK_SIZE
    BY <1>1, <2>1 DEF BothInv
  <2> QED
    BY <1>1, <2>2 DEF CpuRead
<1>3. CASE mode = "cpu"
  BY <1>2, <1>3 DEF Accepted, Returned
<1>4. CASE mode = "gpu"
  <2>1. run["gpu"].success
    BY <1>1, <1>4 DEF Accepted, Returned, CallInv
  <2>2. /\ size = TASK_SIZE
        /\ \/ host = "halted" /\ proc["gpu"].read = 6 /\ run["cpu"].pc = "none"
           \/ run["cpu"].pc = "returned" /\ run["cpu"].ret = 0
    BY <1>1, <2>1 DEF BothInv
  <2>3. CASE host = "halted" /\ proc["gpu"].read = 6 /\ run["cpu"].pc = "none"
    BY <1>1, <1>4, <2>2, <2>3 DEF GpuRead
  <2> QED
    BY <1>2, <2>2, <2>3
<1> QED
  BY <1>1, <1>3, <1>4 DEF Levels

\* What one of the workers has to have reported: for byGpu and byCpu.
OfGpu == /\ mode = "gpu" /\ host = "halted"
         /\ result.checksum = Full(SelectedByGpu) /\ result.overflow = 0
         /\ Base + result.mxoffset \in SelectedByGpu
         /\ ~kernel.precalc => Highest(Base + result.mxoffset, SelectedByGpu)
OfCpu == /\ result.checksum = Full(SelectedByCpu) /\ result.overflow = over
         /\ Base + result.mxoffset \in SelectedByCpu
         /\ ~prog.precalc => Highest(Base + result.mxoffset, SelectedByCpu)

\* An accepted result is that of one worker, whole, provided that the CPU
\* worker's sieves leave a number of the task: whichever worker computed it,
\* whether the GPU worker had given up, and wherever a worker was killed.
THEOREM ResultIsTheTasksCorrect ==
  AssignmentSpec => [](SelectedByCpu # {} => ResultIsTheTasks)
<1>1. /\ GpuInv /\ ClientInv /\ PlaceInv /\ TestedInv /\ ChecksumAgrees /\ MaximumIsHighest
      => (SelectedByCpu # {} => ResultIsTheTasks)
  <2> SUFFICES ASSUME GpuInv, ClientInv, PlaceInv, TestedInv, ChecksumAgrees, MaximumIsHighest,
                      SelectedByCpu # {}
               PROVE  ResultIsTheTasks
    OBVIOUS
  <2>1. Job /\ gtask = task
    BY DEF GpuInv
  <2>2. Base \in Nat /\ GBase = Base
    BY <2>1, JobKinds DEF Base, GBase
  <2>3. /\ prog.kind = "worker" /\ Selected = SelectedByCpu
        /\ SelectedByGpu \in SUBSET Nat /\ SelectedByCpu \in SUBSET Nat
    BY <2>1, SelectedIs
  <2>4. ASSUME Accepted
        PROVE  size = TASK_SIZE /\ (OfGpu \/ OfCpu)
    <3>1. size = TASK_SIZE
      BY <2>4, AcceptedIs
    <3>2. CASE /\ mode = "gpu" /\ host = "halted" /\ result.overflow = 0
               /\ result.checksum = gsum /\ result.mxoffset = gmax.n0 - GBase
      <4>1. /\ gsum = Full(SelectedByGpu) /\ gmax.n0 \in SelectedByGpu
            /\ ~kernel.precalc => Highest(gmax.n0, SelectedByGpu)
        BY <3>2, HostReportsAll
      <4>2. Base + result.mxoffset = gmax.n0
        <5>1. gmax.n0 \in Nat
          BY <2>3, <4>1
        <5> QED
          BY <2>2, <3>2, <5>1
      <4>3. OfGpu
        BY <3>2, <4>1, <4>2 DEF OfGpu
      <4> QED
        BY <3>1, <4>3
    <3>3. CASE /\ run["cpu"].pc = "returned" /\ pc = "halted" /\ result.overflow = over
               /\ result.checksum = sum /\ result.mxoffset = max.n0 - Base
      <4>1. Halted
        BY <3>3 DEF Halted
      <4>2. tested = Selected
        BY <4>1, TestedAll
      <4>3. sum = Full(SelectedByCpu)
        BY <2>3, <4>1 DEF ChecksumAgrees, Full
      <4>4. PICK f : /\ f = IF prog.precalc THEN SIEVE_LOGSIZE ELSE 0
                     /\ max.n0 \in tested /\ PeakFrom(max.n0, f) = max.n
                     /\ \A m \in tested : PeakFrom(m, f) <= max.n
        BY <2>3, <4>1, <4>2, Zenon DEF MaximumIsHighest
      <4>5. Base + result.mxoffset = max.n0
        <5>1. max.n0 \in Nat
          BY <2>3, <4>2, <4>4
        <5> QED
          BY <2>2, <3>3, <5>1
      <4>6. ~prog.precalc => Highest(max.n0, SelectedByCpu)
        BY <2>3, <4>2, <4>4 DEF Highest
      <4>7. OfCpu
        BY <2>3, <3>3, <4>2, <4>3, <4>4, <4>5, <4>6 DEF OfCpu
      <4> QED
        BY <3>1, <4>7
    <3> QED
      BY <2>4, <3>2, <3>3, AcceptedIs
  <2> QED
    BY <2>4, Zenon DEF ResultIsTheTasks, OfGpu, OfCpu, Full, Highest
<1>2. AssignmentSpec => []ChecksumAgrees
  BY UsesWorker, ChecksumAgreesCorrect, PTL
<1>3. AssignmentSpec => []MaximumIsHighest
  BY UsesWorker, MaximumIsHighestCorrect, PTL
<1>4. AssignmentSpec => [](PlaceInv /\ TestedInv)
  BY UsesWorker, TestedHolds, PTL
<1> QED
  BY <1>1, <1>2, <1>3, <1>4, GpuHolds, ClientHolds, PTL

\* A number that a sieve keeps comes below itself after the sieve's steps only;
\* its highest iterate from there on is no higher than that from an earlier
\* step on.
LEMMA PeakLater ==
  ASSUME NEW s \in Nat, NEW z \in Nat, z <= s, NEW m \in Nat, IsLiveIn(m, s),
         NEW d \in Nat, Descends(m, d)
  PROVE  /\ d > s
         /\ PeakFrom(m, s) \in Nat /\ PeakFrom(m, z) \in Nat
         /\ PeakFrom(m, s) <= PeakFrom(m, z)
<1>2. d > s
  <2>1. \A k \in 0 .. s : Iterate[k][m] >= m
    BY LiveInStays
  <2>2. Iterate[d][m] < m /\ Iterate[d][m] \in Nat
    BY IterateDefined DEF Descends
  <2>3. d \notin 0 .. s
    BY <2>1, <2>2
  <2> QED
    BY <2>3
<1>3. z < d
  BY <1>2
<1>4. /\ PeakFrom(m, s) \in Nat
      /\ \E j \in s .. d - 1 : PeakFrom(m, s) = Iterate[j][m]
  BY <1>2, PeakOfTested
<1>5. /\ PeakFrom(m, z) \in Nat
      /\ \A j \in z .. d - 1 : Iterate[j][m] <= PeakFrom(m, z)
  BY <1>3, PeakOfTested
<1>6. PICK j \in s .. d - 1 : PeakFrom(m, s) = Iterate[j][m]
  BY <1>4
<1>7. j \in z .. d - 1
  BY <1>3
<1> QED
  BY <1>2, <1>4, <1>5, <1>6, <1>7

\* With four members of each class in a task the result is the task's whenever
\* one is accepted.  The code's tasks have 2^8.
THEOREM ResultIsAlwaysTheTasks ==
  ASSUME TASK_SIZE >= SIEVE_LOGSIZE + 2
  PROVE  AssignmentSpec => []ResultIsTheTasks
<1>1. GpuInv => SelectedByCpu # {}
  <2>1. GpuInv => Job
    BY DEF GpuInv
  <2>2. ASSUME Job PROVE SelectedByCpu # {}
    <3>1. prog.mod \in {1, 3, 9}
      BY <2>2, JobKinds
    <3> QED
      BY <2>2, <3>1, SomeLeft DEF SelectedByCpu
  <2> QED
    BY <2>1, <2>2
<1> QED
  BY <1>1, GpuHolds, ResultIsTheTasksCorrect, PTL

\* When a number that both workers test leaves 128 bits nothing is accepted of
\* the GPU worker, and the CPU worker's result counts an overflow.
THEOREM OverflowGoesToTheCpuCorrect == AssignmentSpec => []OverflowGoesToTheCpu
<1>1. /\ GpuInv /\ ClientInv /\ PlaceInv /\ TestedInv /\ DoneInv /\ OverflowCounted /\ TypeOK
      => OverflowGoesToTheCpu
  <2> SUFFICES ASSUME GpuInv, ClientInv, PlaceInv, TestedInv, DoneInv, OverflowCounted, TypeOK,
                      Accepted,
                      NEW m \in SelectedByGpu \cap SelectedByCpu,
                      PeakFrom(m, Max({SIEVE_LOGSIZE, SieveLog})) > UMax(Width)
               PROVE  run["cpu"].pc = "returned" /\ result.overflow > 0
    BY DEF OverflowGoesToTheCpu
  <2>1. Job /\ kernel \in Built
    BY DEF GpuInv
  <2>2. /\ prog.kind = "worker" /\ Selected = SelectedByCpu
        /\ m \in Nat /\ IsFiniteSet(SelectedByCpu)
    BY <2>1, SelectedIs
  <2>3. PICK S \in Nat : /\ S = Max({SIEVE_LOGSIZE, SieveLog}) /\ IsLiveIn(m, S)
                         /\ SIEVE_LOGSIZE \in 0 .. S /\ SieveLog \in 0 .. S
                         /\ UMax(Width) \in Nat
    <3>1. SIEVE_LOGSIZE \in Nat /\ UMax(Width) \in Nat
      BY WorkerConstants, GpuConstants
    <3>2. SieveLog \in Nat
      BY <2>1, SieveOfBuild, GpuConstants, GpuAssumption
    <3>3. IsLiveIn(m, SIEVE_LOGSIZE) /\ IsLiveIn(m, SieveLog)
      BY DEF SelectedByGpu, SelectedByCpu, SelectedBy
    <3>4. PICK x, y : x = SIEVE_LOGSIZE /\ y = SieveLog
      OBVIOUS
    <3>5. Max({x, y}) \in {x, y} /\ \A e \in {x, y} : Max({x, y}) >= e
      <4>1. \E f \in {x, y} : \A e \in {x, y} : f >= e
        <5>1. x \in Nat /\ y \in Nat
          BY <3>1, <3>2, <3>4
        <5>2. CASE x >= y
          BY <5>1, <5>2
        <5>3. CASE y >= x
          BY <5>1, <5>3
        <5> QED
          BY <5>1, <5>2, <5>3
      <4> QED
        BY <4>1, Zenon DEF Max
    <3> QED
      BY <3>1, <3>2, <3>3, <3>4, <3>5
  <2>4. \/ mode = "gpu" /\ host = "halted"
        \/ run["cpu"].pc = "returned" /\ pc = "halted" /\ result.overflow = over
    BY AcceptedIs
  <2>5. ~(host = "halted")
    <3> SUFFICES ASSUME host = "halted" PROVE FALSE
      OBVIOUS
    <3>1. /\ \E d \in Nat : d > GFrom(kernel) /\ Descends(m, d)
          /\ PeakFrom(m, GFrom(kernel)) <= UMax(Width)
      BY HostReportsAll
    <3>2. PICK d \in Nat : Descends(m, d)
      BY <3>1
    <3>3. PICK f \in Nat : f = GFrom(kernel) /\ f <= S
      BY <2>1, <2>3, SieveOfBuild DEF GFrom
    <3>4. /\ PeakFrom(m, S) \in Nat /\ PeakFrom(m, f) \in Nat
          /\ PeakFrom(m, S) <= PeakFrom(m, f)
      BY <2>2, <2>3, <3>2, <3>3, PeakLater
    <3> QED
      BY <2>3, <3>1, <3>3, <3>4
  <2>6. run["cpu"].pc = "returned" /\ pc = "halted" /\ result.overflow = over
    BY <2>4, <2>5
  <2>7. Halted /\ tested = SelectedByCpu
    BY <2>2, <2>6, TestedAll DEF Halted
  <2>8. PICK f : f = IF prog.precalc THEN SIEVE_LOGSIZE ELSE 0
    OBVIOUS
  <2>9. PeakFrom(m, f) > UMax(Width)
    <3>1. PICK d \in Nat : Descends(m, d)
      BY <2>7 DEF DoneInv
    <3>2. f \in Nat /\ f <= S
      BY <2>3, <2>8
    <3>3. /\ PeakFrom(m, S) \in Nat /\ PeakFrom(m, f) \in Nat
          /\ PeakFrom(m, S) <= PeakFrom(m, f)
      BY <2>2, <2>3, <3>1, <3>2, PeakLater
    <3> QED
      BY <2>3, <3>3
  <2>10. PICK U : U = {o \in tested : PeakFrom(o, f) > UMax(Width)}
    OBVIOUS
  <2>11. over >= Cardinality(U)
    BY <2>7, <2>8, <2>10 DEF OverflowCounted
  <2>12. IsFiniteSet(U) /\ m \in U
    <3>1. U \in SUBSET tested /\ m \in U
      BY <2>7, <2>9, <2>10
    <3> QED
      BY <2>2, <2>7, <3>1, FS_Subset
  <2>13. Cardinality(U) \in Nat /\ Cardinality(U) # 0
    <3>1. U # {}
      BY <2>12
    <3> QED
      BY <2>12, <3>1, FS_CardinalityType, FS_EmptySet
  <2>14. over \in Nat
    BY DEF TypeOK
  <2> QED
    BY <2>6, <2>11, <2>13, <2>14
<1>2. AssignmentSpec => [](PlaceInv /\ TestedInv /\ DoneInv /\ SumInv)
  BY UsesWorker, SumHolds, PTL
<1>3. AssignmentSpec => []OverflowCounted
  BY UsesWorker, OverflowCountedCorrect, PTL
<1>4. AssignmentSpec => []TypeOK
  BY UsesWorker, WorkerTypeOKCorrect, PTL
<1> QED
  BY <1>1, <1>2, <1>3, <1>4, GpuHolds, ClientHolds, PTL

=============================================================================
