----------------------------- MODULE GpuWorker -----------------------------
(* The GPU worker: the kernels kernel32.cl and kernel32-precalc.cl, whose    *)
(* work items share a task's numbers, and the host program gpuworker.c that  *)
(* sums the items' results up.  A kernel has no unbounded arithmetic: an     *)
(* item that would leave 128 bits reports a sum of zero and stops, and the   *)
(* host gives up on the task when any item's sum is zero.                    *)
EXTENDS Collatz

CONSTANTS Kernels,     \* the builds that may run
          MapLog,      \* SIEVE_LOGSIZE of the builds of either kernel
          TaskUnits    \* log2 of the number of work items (task_units)

Kernel == [precalc : BOOLEAN, mod : {1, 3, 9}]

\* The host asserts that an item of kernel32 has at least four numbers.  Of the
\* two kernels only kernel32-precalc goes through the map class by class, each
\* item every fourth of its classes: it must have four of them (2^12 and more in
\* the code's builds), 3^MapLog must fit 64 bits, and a class have a member in
\* the task.
ASSUME GpuAssumption ==
  /\ Kernels \subseteq Kernel
  /\ MapLog \in [BOOLEAN -> Nat]
  /\ TaskUnits \in Nat /\ TaskUnits + 2 <= TASK_SIZE
  /\ (\E k \in Kernels : k.precalc) =>
       /\ TaskUnits + 2 <= MapLog[TRUE] /\ MapLog[TRUE] <= TASK_SIZE
       /\ MapLog[TRUE] < LUT_SIZE64

VARIABLES
  kernel,   \* the build that runs
  gtask,    \* task_id
  strict,   \* does a barrier wait for the items that have ended?
  item,     \* the work items
  host,     \* where the host program is
  gsum,     \* g_checksum_alpha of the host
  gmax      \* g_max_n and g_max_n0 of the host

gpuVars == <<kernel, gtask, strict, item, host, gsum, gmax>>

Ids == 0 .. Pow2[TaskUnits] - 1

GBase == gtask * Pow2[TASK_SIZE]

\* SIEVE_LOGSIZE of the build that runs; a GPU and a CPU worker differ in it.
SieveLog == MapLog[kernel.precalc]

\* Log2 of the numbers (kernel32) or of the classes (precalc) of one item.
ShareLog == (IF kernel.precalc THEN SieveLog ELSE TASK_SIZE) - TaskUnits
Lowest   == IF kernel.precalc THEN 0 ELSE GBase
Supremum(id) == Lowest + (id + 1) * Pow2[ShareLog] + 3

\* max_n0 of kernel32 has no initial value.
Unset == -1

FirstItem(id) ==
  [pc |-> "for", n0 |-> Lowest + id * Pow2[ShareLog] + 3, n |-> 0, N0 |-> 0,
   L |-> 0, R |-> 0, Salpha |-> 0, h |-> 0, barriers |-> 0, sum |-> 0, max |-> 0,
   max0 |-> IF kernel.precalc THEN GBase ELSE Unset]

Go(id, new) == /\ item' = [item EXCEPT ![id] = new]
               /\ UNCHANGED <<kernel, gtask, strict, host, gsum, gmax>>

\* goto end on an overflow: the sum becomes the mark of one.
Overflow(id) == Go(id, [item[id] EXCEPT !.pc = "end", !.sum = 0])

-----------------------------------------------------------------------------
(* Steps both kernels have.                                                  *)

\* The loop over the item's numbers or classes: the next that is live, unless
\* the supremum is reached (kernel32 only looks once it has found one).
ForLive(id) ==
  LET s    == item[id]
      live == IsLiveIn(s.n0, SieveLog) /\ (kernel.precalc \/ IsLiveInSieve(s.n0, kernel.mod))
  IN  /\ s.pc = "for"
      /\ Go(id, IF s.n0 >= Supremum(id) THEN [s EXCEPT !.pc = "end"]
                ELSE IF ~live           THEN [s EXCEPT !.n0 = @ + 4]
                ELSE IF kernel.precalc  THEN [s EXCEPT !.pc = "barrier",
                                                       !.barriers = @ + 1]
                ELSE [s EXCEPT !.pc = "round", !.n = s.n0, !.N0 = s.n0])

\* A new iterate that has all its odd steps done: the maximum, the even steps
\* as far as ctz of 32 bits sees them, and the test against the number itself.
Halve(s, n, again) ==
  LET t == IF n > s.max THEN [s EXCEPT !.max = n, !.max0 = s.N0] ELSE s
      m == IF kernel.precalc THEN OddPart(n) ELSE n \div Pow2[Ctz(n, Quarter)]
  IN  IF m >= s.N0 THEN [t EXCEPT !.pc = again, !.n = m]
      ELSE IF kernel.precalc THEN [t EXCEPT !.pc = "calc", !.n = 0]
      ELSE [t EXCEPT !.pc = "for", !.n0 = @ + 4, !.n = 0]

-----------------------------------------------------------------------------
(* kernel32: one factor-out per round, odd or not.                           *)

\* [mistake] the bound forgets that 3^a is larger than 2^a
RoundLoosely(id) ==
  LET s == item[id]
      a == Alpha(s.n + 1, Quarter, LUT_SIZE32)
      m == (s.n + 1) \div Pow2[a]
  IN  /\ s.pc = "round"
      /\ IF m > UMax(Width) \div Pow2[a]
           THEN Overflow(id)
           ELSE Go(id, Halve([s EXCEPT !.sum = Checksum(@ + a)], m * Pow3[a] - 1, "round"))

Round(id) ==
  LET s == item[id]
      a == Alpha(s.n + 1, Quarter, LUT_SIZE32)
      m == (s.n + 1) \div Pow2[a]
  IN  /\ s.pc = "round"
      /\ IF m > UMax(Width) \div Pow2[2 * a]
           THEN Overflow(id)
           ELSE Go(id, Halve([s EXCEPT !.sum = Checksum(@ + a)], m * Pow3[a] - 1, "round"))

-----------------------------------------------------------------------------
(* kernel32-precalc.                                                         *)

\* The barrier in the loop: all items are to pass it together.  They do not
\* meet it equally often, which OpenCL leaves undefined: a build that does not
\* wait for the items that have ended goes on, one that does waits for ever.
Barrier(id) ==
  LET s == item[id]
  IN  /\ s.pc = "barrier"
      /\ \A j \in Ids : \/ item[j].barriers >= s.barriers
                        \/ item[j].pc = "end" /\ ~strict
      /\ Go(id, [s EXCEPT !.pc = "precalc_rise", !.L = s.n0 + 1,
                          !.R = SieveLog, !.Salpha = 0, !.h = 0])

\* lcalc: Salpha + Sbeta is SieveLog, and without a mod-3 sieve the odd
\* steps of the class count for all its members in the task.
Lcalc(s) ==
  [s EXCEPT !.pc = "calc",
     !.sum = IF kernel.mod = 1
               THEN Checksum(@ + s.Salpha * Pow2[TASK_SIZE - SieveLog]) ELSE @]

GPrecalcRise(id) ==
  LET s == item[id]
      a == Min({Ctz(s.L, Quarter), LUT_SIZE32 - 1, s.R})
      m == s.L \div Pow2[a]
      L == m * Pow3[a]
      t == [s EXCEPT !.R = @ - a, !.Salpha = @ + a]
  IN  /\ s.pc = "precalc_rise"
      /\ IF m > UMax(Half) \div Pow2[2 * a] THEN Overflow(id)
         ELSE Go(id, IF t.R = 0   THEN Lcalc([t EXCEPT !.L = L - 1])
                     ELSE IF Odd(L) THEN [t EXCEPT !.L = L - 1, !.pc = "precalc_fall"]
                     ELSE [t EXCEPT !.L = L])

GPrecalcFall(id) ==
  LET s == item[id]
      b == Min({Ctz(s.L, Quarter), s.R})
      L == s.L \div Pow2[b]
      t == [s EXCEPT !.R = @ - b]
  IN  /\ s.pc = "precalc_fall"
      /\ Go(id, IF t.R = 0   THEN Lcalc([t EXCEPT !.L = L])
                ELSE IF Odd(L) THEN [t EXCEPT !.L = L + 1, !.pc = "precalc_rise"]
                ELSE [t EXCEPT !.L = L])

\* N times 3^S, in factors that the table has: the bound is tested at each.
Multiply(N, S) ==
  LET c         == LUT_SIZE32 - 1
      factor(j) == Min({c, S - j * c})
  IN  IF \A j \in 0 .. S \div c : N * Pow3[j * c] <= UMax(Width) \div Pow2[2 * factor(j)]
        THEN N * Pow3[S] ELSE UMax(Width) + 1

\* The loop over the members of the class in this task.
GCalc(id) ==
  LET s  == item[id]
      H  == GBase + s.h * Pow2[SieveLog]
      N0 == H + s.n0
      N  == Multiply(H \div Pow2[SieveLog], s.Salpha) + s.L
      t  == [s EXCEPT !.h = @ + 1]
  IN  /\ s.pc = "calc"
      /\ IF s.h = Pow2[TASK_SIZE - SieveLog]
           THEN Go(id, [s EXCEPT !.pc = "for", !.n0 = @ + 4, !.L = 0, !.Salpha = 0, !.h = 0])
         ELSE IF ~IsLiveInSieve(N0, kernel.mod) THEN Go(id, t)
         ELSE IF N > UMax(Width) THEN Overflow(id)
         ELSE Go(id, [t EXCEPT !.pc = "rise", !.n = N + 1, !.N0 = N0,
                        !.sum = IF kernel.mod = 1 THEN @ ELSE Checksum(@ + s.Salpha)])

\* One round of the inner loop; again: n - 1, to be stepped to n + 1.
GRise(id) ==
  LET s == item[id]
      a == Alpha(s.n, Quarter, LUT_SIZE32)
      m == s.n \div Pow2[a]
      t == [s EXCEPT !.sum = Checksum(@ + a)]
      u == Halve(t, m * Pow3[a] - 1, "rise")
  IN  /\ s.pc = "rise"
      /\ IF m > UMax(Width) \div Pow2[2 * a] THEN Overflow(id)
         ELSE IF ~Odd(m * Pow3[a]) THEN Go(id, [t EXCEPT !.n = m * Pow3[a]])
         ELSE Go(id, IF u.pc = "rise" THEN [u EXCEPT !.n = @ + 1] ELSE u)

-----------------------------------------------------------------------------
(* The host.                                                                 *)

\* get_max leaves 128 bits (it tests n * 3^a itself and asserts).
GetMaxFails(m) == PeakFrom(m, 0) >= UMax(Width)

\* The results are read when the kernel has finished: the host gives up on the
\* task, with ABORTED_DUE_TO_OVERFLOW, or sums the items up and takes the
\* first of the highest maxima.
HostSums ==
  /\ host = "kernel" /\ \A id \in Ids : item[id].pc = "end"
  /\ IF \E id \in Ids : item[id].sum = 0 \/ GetMaxFails(item[id].max0)
       THEN host' = "aborted" /\ UNCHANGED <<gsum, gmax>>
       ELSE LET peak(id) == PeakFrom(item[id].max0, 0)
                best == Min({id \in Ids : \A j \in Ids : peak(j) <= peak(id)})
            IN  /\ host' = "halted"
                /\ gsum' = Checksum(SumFunction([id \in Ids |-> item[id].sum]))
                /\ gmax' = [n |-> peak(best), n0 |-> item[best].max0]
  /\ UNCHANGED <<kernel, gtask, strict, item>>

\* No device, or an OpenCL call that fails, before the kernel or after it.
HostGivesUp ==
  /\ host = "kernel"
  /\ \/ /\ \A id \in Ids : item[id] = FirstItem(id)
        /\ host' \in {"no_gpu", "failed"}
     \/ /\ \A id \in Ids : item[id].pc = "end"
        /\ host' = "failed"
  /\ UNCHANGED <<kernel, gtask, strict, item, gsum, gmax>>

GpuInit ==
  /\ kernel \in Kernels
  /\ strict \in IF kernel.precalc THEN BOOLEAN ELSE {FALSE}
  /\ item = [id \in Ids |-> FirstItem(id)]
  /\ host = "kernel" /\ gsum = 0 /\ gmax = [n |-> 0, n0 |-> 0]

GpuNext ==
  \/ HostSums \/ HostGivesUp
  \/ \E id \in Ids : ForLive(id) \/ Round(id) \/ Barrier(id) \/ GPrecalcRise(id)
                       \/ GPrecalcFall(id) \/ GCalc(id) \/ GRise(id)
=============================================================================
