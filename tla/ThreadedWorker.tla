--------------------------- MODULE ThreadedWorker ---------------------------
(* rs-worker.c: all numbers of the residue sieve in one process, shared out  *)
(* among OpenMP threads.  A thread has a slot of arr and of g_checksum_alpha *)
(* to itself; the counter of overflows belongs to all, and so does abort().  *)
EXTENDS Collatz

CONSTANT Threads   \* the numbers of threads OpenMP may start

\* main asserts this.
ASSUME ThreadsAssumption == Threads \subseteq {Pow2[k] : k \in 0 .. Target}

VARIABLES
  threads,   \* threads: as many as a first parallel region had
  team,      \* as many as the second one got
  gmp,       \* built with GMP
  thr,       \* the locals of each thread, its slots of the two arrays, its place;
             \* and over, a history: its numbers that check gave to mpz_check2
  inside,    \* the threads in the critical section
  counter,   \* g_overflow_counter
  reduced,   \* the reductions: checksum and total_i
  region     \* of main: "parallel", then "joined" or "aborted"

threadVars == <<threads, team, gmp, thr, inside, counter, reduced, region>>

Tid == 0 .. team - 1

\* The patterns a thread goes through: all with its number in the high bits.
PatternsEach == Pow2[Target] \div threads

NewThread(t) == [pc |-> "loop", arr |-> t * PatternsEach, i |-> 0, n0 |-> 0, n |-> 0,
                 alpha |-> 0, Salpha |-> 0, sum |-> 0, loaded |-> 0,
                 over |-> {}]

\* A thread that is at place p changes what it has.
Thread(t, p, after) ==
  /\ region = "parallel"
  /\ thr[t].pc = p
  /\ thr' = [thr EXCEPT ![t] = after]

\* The end of the loop's body: arr is incremented, and the thread leaves the
\* loop when the low bits are all zero again.
NextPattern(r) ==
  [r EXCEPT !.arr = @ + 1,
            !.pc = IF (r.arr + 1) % PatternsEach = 0 THEN "done" ELSE "loop"]

\* A round of main's loop: the next number; check, which counts from n + 1 as
\* the number is odd, if the sieve keeps it.
NextNumber(t) ==
  LET r == [thr[t] EXCEPT !.i = @ + 1]
      k == 4 * Pow3[Target] + 3 + BEvaluate(r.arr)
  IN  /\ Thread(t, "loop", IF IsLive(k) THEN [r EXCEPT !.pc = "rise", !.n0 = k,
                                                      !.n = k + 1, !.Salpha = 0]
                                        ELSE NextPattern(r))
      /\ UNCHANGED <<threads, team, gmp, inside, counter, reduced, region>>

\* check: a round of its inner loop that stays in 128 bits.
Climb(t) ==
  LET r == thr[t]
      a == Alpha(r.n, Half, LUT_SIZE64)
      m == r.n \div Pow2[a]
      s == [r EXCEPT !.Salpha = @ + a]
  IN  /\ Thread(t, "rise", IF Odd(m * Pow3[a]) THEN [s EXCEPT !.n = m * Pow3[a] - 1, !.pc = "fall"]
                                           ELSE [s EXCEPT !.n = m * Pow3[a]])
      /\ m <= UMax(Width) \div Pow2[2 * a]
      /\ UNCHANGED <<threads, team, gmp, inside, counter, reduced, region>>

\* A round that would not: check adds up what it has and calls mpz_check2,
\* which without GMP ends the process with all its threads.
GiveUp(t) ==
  LET r == thr[t]
      a == Alpha(r.n, Half, LUT_SIZE64)
      m == r.n \div Pow2[a]
  IN  /\ Thread(t, "rise", [r EXCEPT !.sum = Checksum(@ + r.Salpha + a), !.n = m,
                                     !.alpha = a, !.pc = "count", !.over = @ \cup {r.n0}])
      /\ m > UMax(Width) \div Pow2[2 * a]
      /\ region' = IF gmp THEN region ELSE "aborted"
      /\ UNCHANGED <<threads, team, gmp, inside, counter, reduced>>

\* From the label even: check returns, or starts over.
Drop(t) ==
  LET r == thr[t]
      m == OddPart(r.n)
  IN  /\ Thread(t, "fall", IF m < r.n0
                             THEN NextPattern([r EXCEPT !.sum = Checksum(@ + r.Salpha)])
                             ELSE [r EXCEPT !.n = m + 1, !.pc = "rise"])
      /\ UNCHANGED <<threads, team, gmp, inside, counter, reduced, region>>

\* [mistake] the increment without the pragma
MayEnterAlways == TRUE

\* omp critical
MayEnter == inside = {}

\* g_overflow_counter++ is a load and a store, which the section keeps together.
LoadCounter(t) ==
  /\ MayEnter
  /\ Thread(t, "count", [thr[t] EXCEPT !.loaded = counter, !.pc = "counting"])
  /\ inside' = inside \cup {t}
  /\ UNCHANGED <<threads, team, gmp, counter, reduced, region>>

StoreCounter(t) ==
  /\ Thread(t, "counting", [thr[t] EXCEPT !.loaded = 0, !.pc = "wide"])
  /\ counter' = thr[t].loaded + 1
  /\ inside' = inside \ {t}
  /\ UNCHANGED <<threads, team, gmp, reduced, region>>

\* A round of mpz_check2, whose numbers have no bound.
Wide(t) ==
  LET r == thr[t]
      m == OddPart(r.n * Pow3[r.alpha] - 1)
      a == Ctz(m + 1, m + 1)
  IN  /\ Thread(t, "wide", IF m < r.n0
                             THEN NextPattern(r)
                             ELSE [r EXCEPT !.alpha = a, !.sum = Checksum(@ + a),
                                            !.n = (m + 1) \div Pow2[a]])
      /\ UNCHANGED <<threads, team, gmp, inside, counter, reduced, region>>

\* The end of the parallel region: both sums are reduced, and main asserts
\* that all patterns were counted; OpenMP may have started fewer threads than
\* num_threads asks for.
Join ==
  LET total == SumFunction([t \in Tid |-> thr[t].i])
  IN  /\ region = "parallel" /\ \A t \in Tid : thr[t].pc = "done"
      /\ reduced' = [checksum |-> Checksum(SumFunction([t \in Tid |-> thr[t].sum])),
                     total |-> total]
      /\ region' = IF total = Pow2[Target] THEN "joined" ELSE "aborted"
      /\ UNCHANGED <<threads, team, gmp, thr, inside, counter>>

ThreadsInit ==
  /\ threads \in Threads /\ team \in 1 .. threads
  /\ gmp \in BOOLEAN
  /\ thr = [t \in Tid |-> NewThread(t)]
  /\ inside = {} /\ counter = 0
  /\ reduced = [checksum |-> 0, total |-> 0]
  /\ region = "parallel"

ThreadsNext ==
  \/ \E t \in Tid : \/ NextNumber(t) \/ Climb(t) \/ GiveUp(t) \/ Drop(t)
                    \/ LoadCounter(t) \/ StoreCounter(t) \/ Wide(t)
  \/ Join

ThreadsSpec == ThreadsInit /\ [][ThreadsNext]_threadVars

-----------------------------------------------------------------------------
(* Properties.                                                               *)

\* The live numbers of the sieve, said without the program's patterns: 4q + 3
\* where q has a one and then Target digits 0 or 1 in ternary.
Sieved == {m \in 4 * Pow3[Target] .. 8 * Pow3[Target] :
             /\ m % 4 = 3 /\ IsLive(m)
             /\ \A e \in 0 .. Target - 1 : ((m \div 4) \div Pow3[e]) % 3 \in {0, 1}}

GivenUp == UNION {thr[t].over : t \in Tid}

\* However many threads there are and however they interleave, a run reports
\* what one thread would: the sum over all numbers of their odd steps, and one
\* overflow for each that was checked beyond 128 bits, which are at least the
\* numbers whose trajectory leaves them.
\* NEW_LIMIT, and the comparison of the results of two machines, rest on this.
\* With GMP the program gets there if it has its threads.
ThreadsAgree ==
  /\ region = "joined" =>
       /\ reduced.checksum = Checksum(SumFunction([m \in Sieved |-> OddSteps(m)]))
       /\ counter = Cardinality(GivenUp)
       /\ {m \in Sieved : PeakFrom(m, 0) > UMax(Width)} \subseteq GivenUp
  /\ gmp /\ team = threads => region # "aborted"
=============================================================================
