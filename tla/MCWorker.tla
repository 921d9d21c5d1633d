------------------------------ MODULE MCWorker ------------------------------
(* One run of a worker, of the residue worker with threads, or of the        *)
(* program that made the mod-3 sieve, on numbers of 15 bits: 703 leaves      *)
(* them, and of the residue sieve's 1023 and 1407; 27 climbs to 4616.        *)
EXTENDS Worker, Mod3Sieve, ThreadedWorker

Builds == [kind : {"worker"}, precalc : BOOLEAN, mod : {1, 3, 9}, gmp : {TRUE}]
            \cup [kind : {"residue"}, precalc : {FALSE}, mod : {1}, gmp : BOOLEAN]
            \cup [kind : {"worker"}, precalc : BOOLEAN, mod : {9}, gmp : {FALSE}]
SomeTasks == 0 .. 11

NoSieve == stage = "idle" /\ tab = [k \in 1 .. LOG3 |-> {}]
             /\ pair0 = [a |-> 2, b |-> 1] /\ pair = pair0

NoWorker == /\ pc = "aborted" /\ task = 0 /\ i = 0 /\ n0 = 0 /\ n = 0 /\ alpha = 0
            /\ prog = [kind |-> "residue", precalc |-> FALSE, mod |-> 1, gmp |-> FALSE]
            /\ pre = NoPre /\ sum = 0 /\ over = 0 /\ tested = {}
            /\ max = [n |-> 0, n0 |-> 0] /\ mpzMax = max

NoThreads == /\ region = "aborted" /\ threads = 1 /\ team = 1 /\ gmp = FALSE /\ thr = <<>>
             /\ inside = {} /\ counter = 0 /\ reduced = [checksum |-> 0, total |-> 0]

MCInit == \/ Init /\ NoSieve /\ NoThreads
          \/ NoWorker /\ SieveInit /\ NoThreads
          \/ NoWorker /\ NoSieve /\ ThreadsInit
MCNext == \/ Next /\ UNCHANGED <<sieveVars, threadVars>>
          \/ SieveNext /\ UNCHANGED <<vars, threadVars>>
          \/ ThreadsNext /\ UNCHANGED <<vars, sieveVars>>
MCSpec == MCInit /\ [][MCNext]_<<vars, sieveVars, threadVars>>
=============================================================================
