------------------------------- MODULE Worker -------------------------------
(* The programs that check numbers on a CPU: worker (worker/worker.c), built *)
(* with or without USE_PRECALC, USE_SIEVE3, USE_SIEVE9 and GMP, and the      *)
(* residue-sieve worker (rs-worker/rs-worker-sc.c), which has the same check *)
(* and chooses its numbers otherwise.                                        *)
EXTENDS Collatz

CONSTANTS Programs,   \* the builds that may run
          Tasks,      \* task_id, or g_tid of the residue-sieve worker
          LogProcs    \* log2 of g_no_procs of the residue-sieve worker

\* precalc: USE_PRECALC; mod: 9, 3 or 1 for USE_SIEVE9, USE_SIEVE3 or neither,
\* all of them options of the worker alone.
Program == [kind : {"worker"}, precalc : BOOLEAN, mod : {1, 3, 9}, gmp : BOOLEAN]
             \cup [kind : {"residue"}, precalc : {FALSE}, mod : {1}, gmp : BOOLEAN]

ASSUME WorkerAssumption ==
  /\ Programs \subseteq Program
  /\ Tasks \subseteq Nat
  /\ LogProcs \in 0 .. Target
  /\ SIEVE_LOGSIZE < LUT_SIZE64
  /\ \A t \in Tasks :
       (t + 1) * Pow2[TASK_SIZE - SIEVE_LOGSIZE] * Pow3[SIEVE_LOGSIZE] <= UMax(Width)
  /\ 6 * Pow3[Target] + 2 <= UMax(Width)

VARIABLES
  prog,     \* the build that runs
  task,     \* its argument
  pc,       \* where it is
  i,        \* the outer loop's count of numbers, or of classes (precalc)
  n0, n,    \* the number under test and its current iterate
  alpha,    \* the factors of two taken out when check gave up
  pre,      \* the locals of precalc and calc
  sum,      \* g_checksum_alpha
  over,     \* g_overflow_counter
  max,      \* g_max_n and g_max_n0
  mpzMax,   \* g_mpz_max_n and g_mpz_max_n0
  tested    \* history: the numbers check has returned from

vars == <<prog, task, pc, i, n0, n, alpha, pre, sum, over, max, mpzMax, tested>>

Pcs == {"solve", "rise", "wide", "even", "precalc_rise", "precalc_fall", "calc",
        "halted", "aborted"}

NoPre == [L |-> 0, L0 |-> 0, R |-> 0, Salpha |-> 0, h |-> 0]

-----------------------------------------------------------------------------
(* Which numbers a run goes through.                                         *)

Base == task * Pow2[TASK_SIZE]

\* [mistake] every process goes through all patterns from its own on
LowBitsOfAll == Target

LowBits == Target - LogProcs

\* The k-th number of the outer loop.
Number(k) ==
  CASE prog.kind = "residue" -> 4 * Pow3[Target] + 3 + BEvaluate(task * Pow2[LowBits] + k)
    [] prog.precalc          -> 3 + 4 * k
    [] OTHER                 -> Base + 3 + 4 * k

Count ==
  CASE prog.kind = "residue" -> Pow2[LowBits]
    [] prog.precalc          -> Pow2[SIEVE_LOGSIZE - 2]
    [] OTHER                 -> Pow2[TASK_SIZE - 2]

-----------------------------------------------------------------------------
(* check(n, n0) and its callees.                                             *)

\* The entry of check: an odd n is stepped to n + 1, an even one is halved.
Enter(m, m0) == /\ n0' = m0
                /\ IF Odd(m) THEN n' = m + 1 /\ pc' = "rise"
                             ELSE n' = m     /\ pc' = "even"

\* check returns, and its n is gone: to calc's loop when precalc called it, else
\* to solve_task's.
Return == /\ pc' = IF prog.precalc THEN "calc" ELSE "solve"
          /\ tested' = tested \cup {n0}
          /\ n' = 0

\* [mistake] the bound forgets that 3^a is larger than 2^a
RiseLoosely ==
  LET a == Alpha(n, Half, LUT_SIZE64)
      m == n \div Pow2[a]
  IN  /\ pc = "rise"
      /\ sum' = Checksum(sum + a)
      /\ IF m > UMax(Width) \div Pow2[a]
           THEN /\ n' = m
                /\ alpha' = a
                /\ IF prog.gmp THEN pc' = "wide" /\ over' = over + 1
                               ELSE pc' = "aborted" /\ UNCHANGED over
           ELSE /\ IF Odd(m * Pow3[a]) THEN n' = m * Pow3[a] - 1 /\ pc' = "even"
                                   ELSE n' = m * Pow3[a]     /\ UNCHANGED pc
                /\ UNCHANGED <<alpha, over>>
      /\ UNCHANGED <<prog, task, i, n0, pre, max, mpzMax, tested>>

\* One round of the inner loop: m is n without some factors of two.
Rise ==
  LET a == Alpha(n, Half, LUT_SIZE64)
      m == n \div Pow2[a]
  IN  /\ pc = "rise"
      /\ sum' = Checksum(sum + a)
      /\ IF m > UMax(Width) \div Pow2[2 * a]
           THEN /\ n' = m
                /\ alpha' = a
                /\ IF prog.gmp THEN pc' = "wide" /\ over' = over + 1
                               ELSE pc' = "aborted" /\ UNCHANGED over
           ELSE /\ IF Odd(m * Pow3[a]) THEN n' = m * Pow3[a] - 1 /\ pc' = "even"
                                   ELSE n' = m * Pow3[a]     /\ UNCHANGED pc
                /\ UNCHANGED <<alpha, over>>
      /\ UNCHANGED <<prog, task, i, n0, pre, max, mpzMax, tested>>

Higher(m, best) == IF prog.kind = "worker" /\ m > best.n
                     THEN [n |-> m, n0 |-> n0] ELSE best

\* From the label even to the end of the round.
Fall ==
  LET m == OddPart(n)
  IN  /\ pc = "even"
      /\ max' = Higher(n, max)
      /\ IF m < n0 THEN Return
                   ELSE n' = m + 1 /\ pc' = "rise" /\ UNCHANGED tested
      /\ UNCHANGED <<prog, task, i, n0, alpha, pre, sum, over, mpzMax>>

\* One round of mpz_check2, whose numbers have no bound.
WideStep ==
  LET top == n * Pow3[alpha] - 1
      m   == OddPart(top)
      a   == Ctz(m + 1, m + 1)
  IN  /\ pc = "wide"
      /\ mpzMax' = Higher(top, mpzMax)
      /\ IF m < n0
           THEN Return /\ UNCHANGED <<alpha, sum>>
           ELSE /\ alpha' = a
                /\ sum' = Checksum(sum + a)
                /\ n' = (m + 1) \div Pow2[a]
                /\ UNCHANGED <<pc, tested>>
      /\ UNCHANGED <<prog, task, i, n0, pre, over, max>>

-----------------------------------------------------------------------------
(* solve_task, precalc and calc.                                             *)

\* solve_task, and the loop of the residue-sieve worker's main: a number the
\* sieves keep is checked, or its class handed to precalc.
SolveTask ==
  LET k == Number(i)
  IN  /\ pc = "solve" /\ i < Count
      /\ i' = i + 1
      /\ IF ~IsLive(k) \/ (~prog.precalc /\ ~IsLiveInSieve(k, prog.mod))
           THEN UNCHANGED <<pc, n0, n, pre>>
         ELSE IF prog.precalc
           THEN /\ pc' = "precalc_rise"
                /\ pre' = [NoPre EXCEPT !.L = k + 1, !.L0 = k, !.R = SIEVE_LOGSIZE]
                /\ UNCHANGED <<n0, n>>
         ELSE Enter(k, k) /\ UNCHANGED pre
      /\ UNCHANGED <<prog, task, alpha, sum, over, max, mpzMax, tested>>

\* precalc hands over to calc: without a mod-3 sieve every member of the class
\* is going to be checked, and the odd steps done so far count for each.
ToCalc == /\ pc' = "calc"
          /\ sum' = IF prog.mod = 1
                      THEN Checksum(sum + pre'.Salpha * Pow2[TASK_SIZE - SIEVE_LOGSIZE])
                      ELSE sum

PrecalcRise ==
  LET a == Min({Ctz(pre.L, Half), pre.R, Half - 1, LUT_SIZE64 - 1})
      L == (pre.L \div Pow2[a]) * Pow3[a]
      p == [pre EXCEPT !.R = @ - a, !.Salpha = @ + a]
  IN  /\ pc = "precalc_rise"
      /\ IF p.R = 0 THEN pre' = [p EXCEPT !.L = L - 1] /\ ToCalc
         ELSE IF Odd(L) THEN /\ pre' = [p EXCEPT !.L = L - 1]
                             /\ pc' = "precalc_fall" /\ UNCHANGED sum
         ELSE pre' = [p EXCEPT !.L = L] /\ UNCHANGED <<pc, sum>>
      /\ UNCHANGED <<prog, task, i, n0, n, alpha, over, max, mpzMax, tested>>

PrecalcFall ==
  LET b == Min({Ctz(pre.L, Half), pre.R, Half - 1})
      L == pre.L \div Pow2[b]
      p == [pre EXCEPT !.R = @ - b]
  IN  /\ pc = "precalc_fall"
      /\ IF p.R = 0 THEN pre' = [p EXCEPT !.L = L] /\ ToCalc
         ELSE IF Odd(L) THEN /\ pre' = [p EXCEPT !.L = L + 1]
                             /\ pc' = "precalc_rise" /\ UNCHANGED sum
         ELSE pre' = [p EXCEPT !.L = L] /\ UNCHANGED <<pc, sum>>
      /\ UNCHANGED <<prog, task, i, n0, n, alpha, over, max, mpzMax, tested>>

\* [mistake] calc leaves the members of a dead class modulo 3 or 9 in
CalcUnsieved ==
  LET H  == Base + pre.h * Pow2[SIEVE_LOGSIZE]
      N0 == H + pre.L0
  IN  /\ pc = "calc"
      /\ IF pre.h = Pow2[TASK_SIZE - SIEVE_LOGSIZE]
           THEN pc' = "solve" /\ UNCHANGED <<n0, n, pre, sum>>
         ELSE /\ pre' = [pre EXCEPT !.h = @ + 1]
              /\ sum' = Checksum(sum + pre.Salpha)
              /\ Enter((H \div Pow2[SIEVE_LOGSIZE]) * Pow3[pre.Salpha] + pre.L, N0)
      /\ UNCHANGED <<prog, task, i, alpha, over, max, mpzMax, tested>>

\* calc: the members of the class in this task, from where precalc left them.
Calc ==
  LET H  == Base + pre.h * Pow2[SIEVE_LOGSIZE]
      N0 == H + pre.L0
  IN  /\ pc = "calc"
      /\ IF pre.h = Pow2[TASK_SIZE - SIEVE_LOGSIZE]
           THEN pc' = "solve" /\ UNCHANGED <<n0, n, pre, sum>>
         ELSE /\ pre' = [pre EXCEPT !.h = @ + 1]
              /\ IF ~IsLiveInSieve(N0, prog.mod)
                   THEN UNCHANGED <<pc, n0, n, sum>>
                   ELSE /\ sum' = IF prog.mod = 1 THEN sum
                                  ELSE Checksum(sum + pre.Salpha)
                        /\ Enter((H \div Pow2[SIEVE_LOGSIZE]) * Pow3[pre.Salpha] + pre.L, N0)
      /\ UNCHANGED <<prog, task, i, alpha, over, max, mpzMax, tested>>

\* [mistake] the maximum of the 128-bit part alone is reported
HaltNarrow ==
  /\ pc = "solve" /\ i = Count
  /\ pc' = "halted"
  /\ UNCHANGED <<prog, task, i, n0, n, alpha, pre, sum, over, max, mpzMax, tested>>

\* report_maximum compares the two maxima; HALTED is printed.
Halt ==
  /\ pc = "solve" /\ i = Count
  /\ pc' = "halted"
  /\ max' = IF mpzMax.n > max.n THEN mpzMax ELSE max
  /\ UNCHANGED <<prog, task, i, n0, n, alpha, pre, sum, over, mpzMax, tested>>

Init ==
  /\ prog \in Programs
  /\ task \in Tasks /\ (prog.kind = "residue" => task < Pow2[LogProcs])
  /\ pc = "solve" /\ i = 0
  /\ n0 = 0 /\ n = 0 /\ alpha = 0 /\ pre = NoPre
  /\ sum = 0 /\ over = 0
  /\ max = [n |-> 0, n0 |-> 0] /\ mpzMax = [n |-> 0, n0 |-> 0]
  /\ tested = {}

Next == SolveTask \/ PrecalcRise \/ PrecalcFall \/ Calc \/ Rise \/ Fall
          \/ WideStep \/ Halt

Spec == Init /\ [][Next]_vars

-----------------------------------------------------------------------------
(* Properties.                                                               *)

Halted == pc = "halted"

\* The numbers of the task that its sieves leave, said without the program's
\* enumeration: of the residue-sieve worker, 4q + 3 with q in ternary a one,
\* Target digits 0 or 1, and the task's number in the highest of them.
InTask(m) ==
  IF prog.kind = "worker"
    THEN m \in Base .. Base + Pow2[TASK_SIZE] - 1 /\ IsLiveInSieve(m, prog.mod)
    ELSE LET q        == m \div 4
             digit(e) == (q \div Pow3[e]) % 3
         IN  /\ q \div Pow3[Target] = 1
             /\ \A e \in 0 .. Target - 1 : digit(e) \in {0, 1}
             /\ \A b \in 0 .. LogProcs - 1 :
                  digit(Target - LogProcs + b) = (task \div Pow2[b]) % 2

Universe == IF prog.kind = "worker" THEN Base .. Base + Pow2[TASK_SIZE] - 1
                                    ELSE 0 .. 8 * Pow3[Target] + 3

Selected == {m \in Universe : m % 4 = 3 /\ IsLive(m) /\ InTask(m)}

\* Types, and no operation wraps: a 128-bit iterate stays in 128 bits after
\* every multiplication and increment (g_max_ns), an offset of precalc in 64,
\* and the powers looked up are in the table (the assertion of calc).
TypeOK ==
  /\ prog \in Programs /\ task \in Tasks /\ pc \in Pcs /\ i \in 0 .. Count
  /\ sum \in 0 .. UMax(SumBits) /\ over \in Nat
  /\ pc # "wide" => n \in 0 .. UMax(Width)
  /\ n0 \in 0 .. UMax(Width)
  /\ pre.L \in 0 .. UMax(Half) /\ pre.R \in 0 .. SIEVE_LOGSIZE
  /\ pre.Salpha \in 0 .. LUT_SIZE64 - 1

\* A finished run reports the sum over the task's numbers of their odd steps
\* down to below themselves: with or without precalc, through or without the
\* unbounded arithmetic, whatever the tables cap.  Two clients' results of a
\* task can only be compared by the server because of this.
ChecksumAgrees ==
  Halted => sum = Checksum(SumFunction([m \in Selected |-> OddSteps(m)]))

\* A finished task is verified: each of its numbers was checked down to below
\* itself, or comes below itself within the sieve's steps, or is after some of
\* them where a smaller number is, or lies on the trajectory of a smaller
\* number.  No sieve drops a number without reason.
TaskCovered ==
  (Halted /\ prog.kind = "worker") =>
     \A m \in Universe \ {0, 1} : \/ m \in tested
                                 \/ DropsWithin(m, SIEVE_LOGSIZE)
                                 \/ MeetsLower(m, SIEVE_LOGSIZE)
                                 \/ ReachedFromBelow(m, 3)

\* The processes of the residue-sieve worker check the numbers of their own
\* task, each once and no other's.
PartCovered == (Halted /\ prog.kind = "residue") => tested = Selected

\* The reported offset is that of a tested number whose trajectory climbs as
\* high as any, whether it did so in 128 bits or beyond; precalc does not see
\* the first SIEVE_LOGSIZE steps.
MaximumIsHighest ==
  LET Peak(m) == PeakFrom(m, IF prog.precalc THEN SIEVE_LOGSIZE ELSE 0)
  IN  (Halted /\ prog.kind = "worker" /\ tested # {}) =>
         /\ max.n0 \in tested
         /\ Peak(max.n0) = max.n
         /\ \A m \in tested : Peak(m) <= max.n

\* The overflow counter misses no number: at least those are counted whose
\* trajectory leaves 128 bits (the bound g_max_ns may count others).
OverflowCounted ==
  Halted => over >= Cardinality({m \in tested :
      PeakFrom(m, IF prog.precalc THEN SIEVE_LOGSIZE ELSE 0) > UMax(Width)})
=============================================================================
