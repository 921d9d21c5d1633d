----------------------------- MODULE Assignment -----------------------------
(* How the client gets an assignment computed (run_assignment): it starts a  *)
(* worker, CPU or GPU, reads the lines the worker prints and waits for its   *)
(* end.  When the GPU worker reports an overflow the function calls itself   *)
(* for the CPU worker, which fills the same variables.  The workers are      *)
(* those of Worker and GpuWorker; they may be killed at any time (by their   *)
(* alarm, the batch system, a crash).                                        *)
EXTENDS Worker, GpuWorker, Sequences

CONSTANT Sizes   \* the task sizes a server may ask for

\* The client runs the worker that checks whole tasks; these are small enough
\* for the GPU's sieve too (see WorkerAssumption).
ASSUME AssignmentAssumption ==
  /\ Sizes \subseteq Nat
  /\ \A p \in Programs : p.kind = "worker"
  /\ (\E k \in Kernels : k.precalc) =>
       \A t \in Tasks :
         (t + 1) * Pow2[TASK_SIZE - MapLog[TRUE]] * Pow3[MapLog[TRUE]] <= UMax(Width)

VARIABLES
  mode,     \* gpu_mode of the call: "gpu" or "cpu"
  size,     \* task_size of the call
  proc,     \* the worker processes: what they have printed, how they ended
  run,      \* the calls of run_assignment, the outer and the nested one
  result,   \* what the pointers p_overflow, p_checksum and p_mxoffset point to
  quit      \* the client's flag

avars == <<vars, gpuVars, mode, size, proc, run, result, quit>>

Levels == {"gpu", "cpu"}

NoProc == [st |-> "none", printed |-> 0, read |-> 0]
NoRun  == [pc |-> "none", success |-> FALSE, ret |-> 0]

-----------------------------------------------------------------------------
(* The workers as processes.                                                 *)

Running(l) == proc[l].st = "running"

Ended(l) == IF l = "cpu" THEN pc \in {"halted", "aborted"} ELSE host # "kernel"

Outcome(l) == IF l = "cpu" THEN pc ELSE host

\* The lines the client acts on, in the order the worker prints them.
Lines(l) ==
  <<"TASK_SIZE", "TASK_ID">> \o
    (IF ~Ended(l) THEN <<>>
     ELSE CASE Outcome(l) = "halted"  -> <<"OVERFLOW", "CHECKSUM", "MAXIMUM_OFFSET", "HALTED">>
            [] Outcome(l) = "aborted" -> <<"ABORTED_DUE_TO_OVERFLOW">>
            [] Outcome(l) = "no_gpu"  -> <<"NO_GPU_FOUND", "ERROR">>
            [] OTHER                  -> <<"ERROR">>)

\* The prologue is printed before anything is computed.
Computes(l) == Running(l) /\ proc[l].printed >= 2

WorkerRuns == /\ Computes("cpu") /\ Next
              /\ UNCHANGED <<gpuVars, mode, size, proc, run, result, quit>>

KernelRuns == /\ Computes("gpu") /\ GpuNext
              /\ UNCHANGED <<vars, mode, size, proc, run, result, quit>>

SetProc(l, p) == /\ proc' = [proc EXCEPT ![l] = p]
                 /\ UNCHANGED <<vars, gpuVars, mode, size, run, result, quit>>

PrintLine(l) == /\ Running(l) /\ proc[l].printed < Len(Lines(l))
                /\ SetProc(l, [proc[l] EXCEPT !.printed = @ + 1])

\* return 0 of main, or abort().
Terminate(l) ==
  /\ Running(l) /\ Ended(l) /\ proc[l].printed = Len(Lines(l))
  /\ SetProc(l, [proc[l] EXCEPT !.st = IF Outcome(l) = "halted" THEN "exited" ELSE "killed"])

Killed(l) == Running(l) /\ SetProc(l, [proc[l] EXCEPT !.st = "killed"])

\* The shell popen started finds no worker: the directory is the process's,
\* and another thread's call may have changed it since this one's chdir.
ExecFails(l) == /\ Running(l) /\ proc[l].printed = 0
                /\ SetProc(l, [proc[l] EXCEPT !.st = "exited"])

-----------------------------------------------------------------------------
(* run_assignment.                                                           *)

\* The call: the worker is started, unless chdir or popen fails.
Spawn(l) ==
  /\ run[l].pc = "called"
  /\ \/ /\ run' = [run EXCEPT ![l].pc = "reading"]
        /\ proc' = [proc EXCEPT ![l].st = "running"]
     \/ /\ run' = [run EXCEPT ![l].pc = "returned", ![l].ret = -1]
        /\ UNCHANGED proc
  /\ UNCHANGED <<vars, gpuVars, mode, size, result, quit>>

Line(l) == Lines(l)[proc[l].read + 1]

Offset(l) == IF l = "cpu" THEN max.n0 - Base ELSE gmax.n0 - GBase

\* [mistake] the overflow is taken for the end of the run
OverflownIsDone(l) == run' = [run EXCEPT ![l].success = TRUE]

\* The GPU worker has given up: the task is run on the CPU.
Overflown(l) ==
  run' = IF l = "gpu" THEN [run EXCEPT !["gpu"].pc = "nested", !["cpu"].pc = "called"]
                      ELSE run

\* What a line of the worker's output does; a line that is not listed only
\* has a message printed.
Got(l, line) ==
  CASE line = "TASK_SIZE" ->
         /\ run' = IF size = TASK_SIZE THEN run
                   ELSE [run EXCEPT ![l].pc = "returned", ![l].ret = -1]
         /\ UNCHANGED <<result, quit>>
    [] line = "OVERFLOW" ->
         /\ result' = [result EXCEPT !.overflow = IF l = "cpu" THEN over ELSE 0]
         /\ UNCHANGED <<run, quit>>
    [] line = "CHECKSUM" ->
         /\ result' = [result EXCEPT !.checksum = IF l = "cpu" THEN sum ELSE gsum]
         /\ UNCHANGED <<run, quit>>
    [] line = "MAXIMUM_OFFSET" ->
         /\ result' = [result EXCEPT !.mxoffset = Offset(l)]
         /\ UNCHANGED <<run, quit>>
    [] line = "HALTED" ->
         /\ run' = [run EXCEPT ![l].success = TRUE]
         /\ UNCHANGED <<result, quit>>
    [] line = "ABORTED_DUE_TO_OVERFLOW" ->
         Overflown(l) /\ UNCHANGED <<result, quit>>
    [] line = "NO_GPU_FOUND" ->
         /\ quit' = TRUE
         /\ run' = [run EXCEPT ![l].success = FALSE]
         /\ UNCHANGED result
    [] OTHER -> UNCHANGED <<run, result, quit>>

ReadLine(l) ==
  /\ run[l].pc = "reading" /\ proc[l].read < proc[l].printed
  /\ Got(l, Line(l))
  /\ proc' = [proc EXCEPT ![l].read = @ + 1]
  /\ UNCHANGED <<vars, gpuVars, mode, size>>

\* [mistake] only a nested call that succeeded is noticed
NestedSucceeds ==
  /\ run["gpu"].pc = "nested" /\ run["cpu"].pc = "returned" /\ run["cpu"].ret = 0
  /\ run' = [run EXCEPT !["gpu"] = [@ EXCEPT !.pc = "reading", !.success = TRUE]]
  /\ UNCHANGED <<vars, gpuVars, mode, size, proc, result, quit>>

\* The nested call has returned: its failure is returned at once.
NestedReturns ==
  /\ run["gpu"].pc = "nested" /\ run["cpu"].pc = "returned"
  /\ run' = [run EXCEPT !["gpu"] =
               IF run["cpu"].ret < 0 THEN [@ EXCEPT !.pc = "returned", !.ret = -1]
                                     ELSE [@ EXCEPT !.pc = "reading", !.success = TRUE]]
  /\ UNCHANGED <<vars, gpuVars, mode, size, proc, result, quit>>

\* [mistake] in the GPU mode a killed worker need not have finished
PcloseLenient(l) ==
  /\ run[l].pc = "reading" /\ proc[l].read = proc[l].printed
  /\ proc[l].st \in {"exited", "killed"}
  /\ LET ok == (run[l].success /\ proc[l].st = "exited") \/ l = "gpu"
     IN  run' = [run EXCEPT ![l].pc = "returned", ![l].ret = IF ok THEN 0 ELSE -1]
  /\ UNCHANGED <<vars, gpuVars, mode, size, proc, result, quit>>

\* End of the output, and pclose: a worker that was killed is accepted in the
\* GPU mode alone, for it kills itself after an overflow.
Pclose(l) ==
  /\ run[l].pc = "reading" /\ proc[l].read = proc[l].printed
  /\ proc[l].st \in {"exited", "killed"}
  /\ LET ok == run[l].success /\ (proc[l].st = "exited" \/ l = "gpu")
     IN  run' = [run EXCEPT ![l].pc = "returned", ![l].ret = IF ok THEN 0 ELSE -1]
  /\ UNCHANGED <<vars, gpuVars, mode, size, proc, result, quit>>

-----------------------------------------------------------------------------
\* run_assignments_in_parallel has zeroed the results before it calls.
AssignmentInit ==
  /\ Init /\ gtask = task /\ GpuInit
  /\ mode \in Levels /\ size \in Sizes
  /\ proc = [l \in Levels |-> NoProc]
  /\ run = [l \in Levels |-> IF l = mode THEN [NoRun EXCEPT !.pc = "called"] ELSE NoRun]
  /\ result = [overflow |-> 0, checksum |-> 0, mxoffset |-> 0]
  /\ quit = FALSE

Progress == \/ WorkerRuns \/ KernelRuns \/ NestedReturns
            \/ \E l \in Levels : \/ PrintLine(l) \/ Terminate(l) \/ Spawn(l)
                                 \/ ReadLine(l) \/ Pclose(l)

AssignmentNext == Progress \/ \E l \in Levels : Killed(l) \/ ExecFails(l)

\* The workers and the client run as long as they can; nothing need be killed.
AssignmentSpec == AssignmentInit /\ [][AssignmentNext]_avars /\ WF_avars(Progress)

-----------------------------------------------------------------------------
(* Properties.                                                               *)

Returned == run[mode].pc = "returned"
Accepted == Returned /\ run[mode].ret = 0

\* The numbers of the task that the sieves of the build leave.
SelectedBy(s, mod) == {m \in Universe : m % 4 = 3 /\ IsLiveIn(m, s) /\ IsLiveInSieve(m, mod)}
SelectedByGpu == SelectedBy(SieveLog, kernel.mod)
SelectedByCpu == SelectedBy(SIEVE_LOGSIZE, prog.mod)

\* Sums of items do not wrap, and the host never reads the maximum of an item
\* that has none.
GpuTypeOK ==
  /\ \A id \in Ids : LET s == item[id] IN
       /\ s.n \in 0 .. UMax(Width) /\ s.max \in 0 .. UMax(Width) /\ s.L \in 0 .. UMax(Half)
       /\ s.sum \in 0 .. UMax(SumBits) /\ (kernel.precalc => s.R \in 0 .. SieveLog)
  /\ host = "halted" => \A id \in Ids : item[id].max0 # Unset
  /\ size \in Sizes /\ quit \in BOOLEAN
  /\ \A l \in Levels : proc[l].read <= proc[l].printed /\ proc[l].printed <= Len(Lines(l))

\* An accepted result is one worker's, whole: the checksum over the numbers of
\* the sieve that worker was built with, its overflows, and a number of the
\* task whose trajectory climbs as high as any of those it checked.  So it is
\* when the GPU worker gave up and the CPU worker wrote the same variables,
\* and when a worker was killed between two lines.
ResultIsTheTasks ==
  LET full(S)    == Checksum(SumFunction([m \in S |-> OddSteps(m)]))
      best(m, S) == \A o \in S : PeakFrom(o, 0) <= PeakFrom(m, 0)
      byGpu == /\ mode = "gpu" /\ host = "halted"
               /\ result.checksum = full(SelectedByGpu) /\ result.overflow = 0
               /\ Base + result.mxoffset \in SelectedByGpu
               /\ ~kernel.precalc => best(Base + result.mxoffset, SelectedByGpu)
      byCpu == /\ result.checksum = full(SelectedByCpu) /\ result.overflow = over
               /\ Base + result.mxoffset \in SelectedByCpu
               /\ ~prog.precalc => best(Base + result.mxoffset, SelectedByCpu)
  IN  Accepted => size = TASK_SIZE /\ (byGpu \/ byCpu)

\* Nothing the GPU worker prints is taken when one of its numbers leaves 128
\* bits: the accepted result is then the CPU worker's, which counts overflows.
OverflowGoesToTheCpu ==
  (Accepted /\ \E m \in SelectedByGpu \cap SelectedByCpu :
                  PeakFrom(m, Max({SIEVE_LOGSIZE, SieveLog})) > UMax(Width))
     => run["cpu"].pc = "returned" /\ result.overflow > 0

\* The call returns, whatever ends the workers, unless the build's barrier
\* waits for work items that have ended.
CallReturns == ~strict => <>Returned
=============================================================================
