------------------------------ MODULE Collatz ------------------------------
(* The arithmetic the workers share, and the reference they are held to.     *)
(*                                                                           *)
(* The code works on 128-bit numbers, finds factors of two in their low 64   *)
(* (CPU) or 32 (GPU) bits and looks powers of three up in tables of 41 or 21 *)
(* entries, the powers that fit such a word.  Here the three widths and the  *)
(* two table sizes are parameters that keep this relation.                   *)
EXTENDS Integers, FiniteSets, FiniteSetsExt, Functions

CONSTANTS Width,          \* bits of uint128_t
          Half,           \* bits of uint64_t
          Quarter,        \* bits of uint (OpenCL)
          LUT_SIZE64, LUT_SIZE32,
          SumBits,        \* bits of a checksum
          SIEVE_LOGSIZE,  \* log2 of the number of classes of the sieve
          TASK_SIZE,      \* log2 of the numbers of a task
          Target          \* TARGET: log2 of the numbers of the residue sieve

\* Powers: the shifts, and pow3 with the tables made of it.
Pow2[k \in Nat] == IF k = 0 THEN 1 ELSE 2 * Pow2[k - 1]
Pow3[k \in Nat] == IF k = 0 THEN 1 ELSE 3 * Pow3[k - 1]

ASSUME WidthsAssumption ==
  /\ {Width, Half, Quarter, LUT_SIZE64, LUT_SIZE32, SumBits, SIEVE_LOGSIZE}
       \subseteq Nat \ {0}
  /\ Quarter < Half /\ Half < Width
  /\ LUT_SIZE32 > 1 /\ LUT_SIZE64 > 1
  /\ Pow3[LUT_SIZE64 - 1] < Pow2[Half]
  /\ Pow3[LUT_SIZE32 - 1] < Pow2[Quarter]
  /\ SIEVE_LOGSIZE \in 2 .. Half - 1
  /\ TASK_SIZE \in Nat /\ TASK_SIZE >= SIEVE_LOGSIZE
  /\ Target \in Nat \ {0}

UMax(w) == Pow2[w] - 1

Checksum(s) == s % Pow2[SumBits]

-----------------------------------------------------------------------------
\* Count trailing zeros of the low w bits of n; w when these are all zero.
Ctz(n, w) == CHOOSE z \in 0 .. w :
               /\ n % Pow2[z] = 0
               /\ z < w => (n \div Pow2[z]) % 2 = 1

Odd(n) == n % 2 = 1

\* n without its factors of two: what the loop on ctz leaves of a positive n.
OddPart(n) == n \div Pow2[Ctz(n, n)]

\* How many factors of two one round of a worker takes out of n.
Alpha(n, w, lut) == Min({Ctz(n, w), lut - 1})

-----------------------------------------------------------------------------
(* The sieves.                                                               *)

\* One step of the Collatz function with the halving that follows an odd step.
T[n \in Nat] == IF Odd(n) THEN (3 * n + 1) \div 2 ELSE n \div 2

\* n after k steps.
Iterate[k \in Nat] == [n \in Nat |-> IF k = 0 THEN n ELSE T[Iterate[k - 1][n]]]

OddStepsIn(n, k) == Cardinality({j \in 0 .. k - 1 : Odd(Iterate[j][n])})

\* A prefix of its steps takes every large member of class b below itself.
Sinks(b, k) == Pow3[OddStepsIn(b, k)] < Pow2[k]

\* Class b meets the lower class c after k steps that have as many odd ones:
\* every member then meets the member of c next below it.
Coalesces(b, c, k) ==
  Iterate[k][b] = Iterate[k][c] /\ OddStepsIn(b, k) = OddStepsIn(c, k)

\* Is the class of n modulo 2^s marked in the map file of that size?
IsLiveIn(n, s) ==
  LET b == n % Pow2[s]
  IN  \A k \in 1 .. s : ~Sinks(b, k) /\ \A c \in 0 .. b - 1 : ~Coalesces(b, c, k)

IsLive(n) == IsLiveIn(n, SIEVE_LOGSIZE)

\* [mistake] one class more modulo 9
DeadAndSeven(m) == IF m = 9 THEN {2, 4, 5, 7, 8} ELSE IF m = 3 THEN {2} ELSE {}

\* is_live_in_sieve3 and is_live_in_sieve9 (m = 1: built without either).
Dead(m) == CASE m = 3 -> {2}
             [] m = 9 -> {2, 4, 5, 8}
             [] OTHER -> {}

IsLiveInSieve(n, m) == n % m \notin Dead(m)

\* b_evaluate: the exponents of the powers of three a pattern of bits selects.
BEvaluate(arr) ==
  4 * SumFunction([e \in 0 .. Target - 1 |-> Pow3[e] * ((arr \div Pow2[e]) % 2)])

-----------------------------------------------------------------------------
(* The reference: the Collatz iteration, step by step.                       *)

\* The first step, from the k-th on, after which n0 is below itself.
Descent[k \in Nat] ==
  [n0 \in Nat |-> IF Iterate[k][n0] < n0 THEN k ELSE Descent[k + 1][n0]]

\* The number's share of a checksum: its odd steps down to below itself.
OddSteps(n0) == OddStepsIn(n0, Descent[0][n0])

\* The highest iterate of n0, from the k-th on until it is below itself.
PeakFrom(n0, k) == Max({0} \cup {Iterate[j][n0] : j \in k .. Descent[k][n0] - 1})

\* Some number below n has n on its trajectory (and needs at most k steps).
ReachedFromBelow(n, k) == \E m \in 1 .. n - 1, j \in 1 .. k : Iterate[j][m] = n

\* After at most k steps n is where a smaller number is after as many.
MeetsLower(n, k) == \E m \in 0 .. n - 1, j \in 1 .. k : Iterate[j][m] = Iterate[j][n]

\* n is below itself after at most k steps.
DropsWithin(n, k) == \E j \in 1 .. k : Iterate[j][n] < n
=============================================================================
