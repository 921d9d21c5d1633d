----------------------------- MODULE Mod3Sieve -----------------------------
(* mod3-sieve: finds the classes modulo powers of three all of whose members *)
(* lie on the trajectory of a smaller number.  Its output is what USE_SIEVE3 *)
(* and USE_SIEVE9 of the workers have written out.                           *)
EXTENDS Collatz

CONSTANTS LOG2, LOG3   \* the moduli: up to 2^LOG2 (excluded) and 3^LOG3

\* The moduli reach those the workers have tables for.
ASSUME Mod3Assumption == LOG2 \in Nat /\ LOG2 > 3 /\ LOG3 \in Nat /\ LOG3 > 1

VARIABLES pair0,   \* the class main's loops are at: a * n + b
          pair,    \* its image so far
          tab,     \* tab[k]: the classes modulo 3^k found dead
          stage

sieveVars == <<pair0, pair, tab, stage>>

IndeterminateP(p) == Odd(p.a)

\* The code's step, on a pair whose members have one parity.
Step(p) == IF Odd(p.b) THEN [a |-> (3 * p.a) \div 2, b |-> (3 * p.b + 1) \div 2]
                       ELSE [a |-> p.a \div 2, b |-> p.b \div 2]

\* [mistake] any step may kill, a class that moves down too
KillAlways(p, q) == [k \in 1 .. LOG3 |-> tab[k] \cup (IF q.a = Pow3[k] THEN {q.b} ELSE {})]

\* less and kill: p came from a smaller number, for sufficiently large n.
Kill(p, q) ==
  [k \in 1 .. LOG3 |->
     tab[k] \cup (IF p.a < q.a /\ q.a = Pow3[k] THEN {q.b} ELSE {})]

StepPair ==
  /\ stage = "main" /\ ~IndeterminateP(pair)
  /\ pair' = Step(pair)
  /\ tab' = Kill(pair0, pair')
  /\ UNCHANGED <<pair0, stage>>

\* The loops of main: odd b below a, a over the powers of two.
NextPair ==
  /\ stage = "main" /\ IndeterminateP(pair)
  /\ pair0' = IF pair0.b + 2 < pair0.a THEN [pair0 EXCEPT !.b = @ + 2]
                                       ELSE [a |-> 2 * pair0.a, b |-> 1]
  /\ pair' = pair0'
  /\ stage' = IF pair0'.a < Pow2[LOG2] THEN "main" ELSE "dump"
  /\ UNCHANGED tab

\* [mistake] a class is handed down one power only
DumpOnce ==
  /\ stage = "dump" /\ stage' = "done"
  /\ tab' = [k \in 1 .. LOG3 |-> {r \in 0 .. Pow3[k] - 1 :
               \E j \in {k, k - 1} \ {0} : r % Pow3[j] \in tab[j]}]
  /\ UNCHANGED <<pair0, pair>>

\* dump: a class that is dead is so modulo every higher power.
Dump ==
  /\ stage = "dump" /\ stage' = "done"
  /\ tab' = [k \in 1 .. LOG3 |-> {r \in 0 .. Pow3[k] - 1 :
               \E j \in 1 .. k : r % Pow3[j] \in tab[j]}]
  /\ UNCHANGED <<pair0, pair>>

SieveInit ==
  /\ stage = "main"
  /\ pair0 = [a |-> 2, b |-> 1] /\ pair = pair0
  /\ tab = [k \in 1 .. LOG3 |-> {}]

SieveNext == StepPair \/ NextPair \/ Dump

SieveSpec == SieveInit /\ [][SieveNext]_sieveVars

-----------------------------------------------------------------------------
CONSTANT Members   \* how many members of a class are looked at

ASSUME MembersAssumption == Members \in Nat

\* Every dead class is dead for a reason: its members (the smallest few are
\* looked at, the least one too) lie on a smaller number's trajectory.  And no
\* index leaves a table: the offset stays below the modulus.
SieveSound ==
  /\ pair.b < pair.a
  /\ \A k \in 1 .. LOG3 : \A r \in tab[k] : \A q \in 0 .. Members - 1 :
       LET m == Pow3[k] * q + r IN ReachedFromBelow(m, LOG2)

\* What the workers have compiled in is what the sieve prints: {2} modulo 3
\* and {2, 4, 5, 8} modulo 9; and dead classes stay dead in higher moduli.
WorkersUseTheSieve ==
  stage = "done" =>
    /\ tab[1] = Dead(3) /\ tab[2] = Dead(9)
    /\ \A k \in 1 .. LOG3 - 1 : \A r \in 0 .. Pow3[LOG3] - 1 :
         r % Pow3[k] \in tab[k] => r \in tab[LOG3]
=============================================================================
