---------------------------- MODULE MCAssignment ----------------------------
(* Assignment with the sieves scripts/bootstrap.sh builds: modulo 9 on the   *)
(* CPU, modulo 3 on the GPU, on numbers of 12 bits: the trajectory of 159,   *)
(* in task 4, leaves them; none does of task 5.  The sieve has 2^4 classes on *)
(* the CPU and 2^3 in kernel32-precalc; in kernel32 it has 2^2, fewer than    *)
(* TaskUnits + 2 bits, as in its builds with SIEVE_LOGSIZE = TASK_UNITS = 16. *)
EXTENDS Assignment

Builds == [kind : {"worker"}, precalc : {TRUE}, mod : {9}, gmp : BOOLEAN]
GpuBuilds == [precalc : BOOLEAN, mod : {3}] \cup {[precalc |-> TRUE, mod |-> 1]}
MapLogs == [precalc \in BOOLEAN |-> IF precalc THEN 3 ELSE 2]
SomeTasks == {4, 5}
SomeSizes == {TASK_SIZE, TASK_SIZE + 1}

\* Every value of each parameter, not every combination: a wrong size and a
\* CPU worker without GMP are tried with one kernel, a waiting barrier with
\* the other.
MCInit == /\ AssignmentInit
          /\ size # TASK_SIZE \/ ~prog.gmp => ~kernel.precalc
          /\ strict => kernel.mod = 3
          /\ mode = "cpu" => ~kernel.precalc

MCSpec == MCInit /\ [][AssignmentNext]_avars /\ WF_avars(Progress)
=============================================================================
