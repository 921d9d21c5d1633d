# Verification of the Collatz convergence project

This directory holds TLA+ specifications of the distributed search in this
repository (`src/` below is the repository's own `src/` directory), the TLC
configurations that check them on small instances, and TLAPS proofs.

## 1. The system

The project verifies that all numbers up to a growing bound reach 1. The search
space is cut into 2^32 *tasks* of 2^40 numbers. A server hands tasks to clients;
a client runs one worker process per thread and returns the results.

| part | code | state | operations |
|---|---|---|---|
| server | `src/server/server.c` | two bitmaps and five arrays in files mapped `MAP_SHARED`; two global pointers | REQ, MRQ, req (grants), RET, INT (reports), LOI, HIR, PNG (queries), MUL (a batch); start-up with `-m -i -z -f -r -c` |
| client | `src/mclient/mclient.c` | task IDs, client IDs and results, one per thread | request, run workers, return or revoke; retries |
| backup | `src/server/backup.sh` | copies of the server's files | copy file by file |
| query tool | `src/query/query.c` | none | LOI, HIR, PNG |
| CPU worker | `src/worker/worker.c`, `src/common` | sums and maxima | trajectories with 128-bit and unbounded arithmetic, sieves |
| GPU worker | `src/gpuworker` | the same per work item | OpenCL kernels, reduction, overflow marks |
| residue-sieve server | `src/rs-server/rs-server.c` | as the server, for 2^12 tasks, without client IDs | the same protocol; a table that is used up; start-up with `-c -f -i` |
| residue-sieve client, worker | `src/rs-client`, `src/rs-worker` | as the client and the CPU worker | empty assignments; numbers chosen by ternary digits |
| mod-3 sieve | `src/mod3-sieve` | tables of classes mod 3^k | finds the classes that need no check |
| offline tools | `chk-tool`, `verify-result`, `find-maxima`, `max-report`, `rs-map`, `rs-query`, `rs-summary`, `rs-verify-result`, `src/steps` | none | read the files and print, or print trajectories |
| launcher, scripts | `spawn.sh`, `scripts/` | a lock file | start clients |

**Interactions.** A client opens a TCP connection for every exchange and sends
either one plain message or a batch: MUL announces how many messages follow and
the server numbers them (the thread ID), MRQ asks for several tasks at once. The
server is one thread; it serves one connection to its end before it accepts the
next. Grants are answered. RET and INT are *not*: the client is done when its
writes succeeded, and the server reads them later, or never. The server knows a
task's owner by the 64-bit client ID that each client thread drew at random.

**What is hard here.** Messages that are lost, repeated after a broken connection, or
processed long after they were sent; batches that break off half way; replies that reach a
client before the server has stored whose task it is; a kill between two stores of one handler
(the files survive, the pointers do not); `req`, which hands out tasks that others are
running; pointers that are cached and updated locally; six start options that edit the tables
one after the other; backups taken while the server writes. In the residue sieve, no owner
that would tell a late message from a fresh one. In the workers, the boundary of 128 bits,
tables that cap every step, two ways to start a trajectory, sieves copied by hand from another
program's output; on the GPU a mark of overflow that is also a legal sum, and a barrier that
not all work items reach. In the client, a worker that dies in the middle of its report, and a
call that is repeated inside itself.

**What makes each part correct.** Server: the pointers are exact; nothing
completed is taken back while it runs; only an owner changes its task. Server
with clients: only what a worker computed becomes complete; nobody's task is
freed or given away behind its back; a recorded result is final; in the end all
tasks are done. Start-up and backup: whatever the tables were, `-f` makes them
agree; a backup that claims more than was recorded shows it. Workers: the sieves skip
only numbers that another number covers; the sums and maxima are those of the
plain trajectories; the work is cut into disjoint parts that cover a task.

## 2. The modules

    TaskTable          what the server promises, abstractly
       ^ implemented by (ImplementsTaskTable; theorem Refinement)
    ServerHistory      Server with the message it served last as a history
       ^
       |--EXTENDS--
    Server  <--EXTENDS--  System (clients + network + crashes)
       ^  ^---EXTENDS---  Backup (backup.sh, restore, repairs)
       |
    ServerProofs       theorems about Server and ServerHistory
       ^  ^--EXTENDS--  BackupProofs   theorems about Backup
       |--EXTENDS--  SystemProofs      theorems about System

    ResidueServer  <--EXTENDS--  ResidueSystem (clients + network + crashes)
       ^
    ResidueSystemProofs   theorems about both

    Collatz            arithmetic, sieves, and the reference for the workers
       ^  ^  ^--EXTENDS--  Mod3Sieve (the program that found the mod-3 sieves)
       |  |  ^--EXTENDS--  ThreadedWorker (the residue worker with threads)
       |  |
    Worker GpuWorker   the programs that check a task
       ^  ^
    Assignment         a client's call that runs one, or one after the other

    CollatzProofs      lemmas about Collatz, theorems about Mod3Sieve
       ^  ^--EXTENDS--  WorkerProofs      theorems about Worker
       |                   ^--EXTENDS--  AssignmentProofs   theorems about
       |                                 Assignment, with what GpuWorker computes
       |--EXTENDS--     ThreadedProofs    theorems about ThreadedWorker

    MCServer, MCSystem, MCBackup, MCResidueServer, MCResidueSystem, MCWorker
    (Worker, Mod3Sieve, ThreadedWorker), MCAssignment      instances for TLC

### Server.tla - `src/server/server.c`

| TLA+ | code |
|---|---|
| `assigned`, `complete` | the set bits of `assigned.map`, `complete.map` |
| `record` | `checksums.dat`, `usertimes.dat`, `overflows.dat`, `mxoffsets.dat`, a record per task |
| `clientid` | `clientids.dat`; `NoId` is the 0 that means nobody |
| `lu`, `li` | `g_lowest_unassigned`, `g_lowest_incomplete` |
| `up`, `conn` | whether the process runs; the batch it serves: kind, size, thread ID of the next message, tasks handed out so far |
| `Scan` | the `for` loops over a bitmap |
| `GetAssignment`, `GetMissedAssignment`, `UnsetAssignment`, `SetComplete` | the functions of these names |
| `RequestServed`, `RequestWriteFails`, `RequestReadFails` | REQ and the places where it returns -1, each with what it leaves behind |
| `BatchRequestServed` | one task of MRQ, whose ID is recorded before the write |
| `MissedServed`, `MissedFails` | req |
| `ReturnForeign`, `ReturnZero`, `ReturnSuspicious`, `ReturnUnassigned`, `ReturnAccepted` | the ways through RET |
| `InterruptForeign`, `InterruptAccepted` | INT |
| `Accept`, `Abort`, `Close` | the loop of `main` and the failures that change no table |
| `Die`, `DieInReturn`, `DieInInterrupt`, `DieInRequest`, `DieInMissed` | a signal or kill: between handlers, or after some stores of a handler |
| `Start` | everything `main` does to the tables before it listens |

One message is one action, because the server is single-threaded; kills inside
a handler are actions of their own that leave its first stores. Clients
are an open environment: any ID may send any message about any task, so what is
shown here does not depend on how clients behave.

### TaskTable.tla and ServerHistory.tla - the abstract table

Tasks are taken or not, done or not, and may have a holder. What the table is
asked is a message, and the message and the table determine the answer: "take"
(REQ, MRQ) is given the lowest task that is not taken and no other; "retake" (req)
of thread t the task that is not done with t such tasks below it; "finish" (RET) and
"free" (INT) have their effect exactly if they name the holder of the task, a result
also depends on its class (`good`, `bad`, `none`) and on the task being taken, and
everything else is ignored. A request that was not heard (its client ID did not
arrive) leaves the holder as it is and the task taken or as before. When the service
stops, the message being answered may be half done: the bitmaps may have changed, the
holder has not. Only a start takes a task out of the done ones.

`ServerHistory` adds to `Server` the variable `asked`, the message about the table
that the last step served; it changes nothing else. `ImplementsTaskTable` maps
`taken`, `done`, `holder` to the bitmaps and the ID array. `lu`, `li`, batches,
results and the places where reads and writes fail do not exist in the table. A
server that obeys the INT of a foreign client, or whose REQ hands out a task that
is taken or skips a free one, does not implement it.

### System.tla - the server with `src/mclient/mclient.c`

A client is a process with a phase of `main`'s loop (idle, asking, running,
returning, revoking, stopped), a task and a result per thread. `queue` holds the
connections made but not accepted, first come first served; `cur` is the client
end of the one being served. `Ask`, `AskFails` are the request and its retry;
`RunSucceeds`, `RunFails` stand for `run_assignments_in_parallel`; `ReportSent`,
`ReportFails` for returning and revoking, where `ReportFails` leaves a batch
with only its first messages in the queue and the client repeats it whole.
`Orphan` is what a client leaves on a connection it lost: of a MUL batch only the
request it was waiting for, of MRQ all, since that client writes first.
`ServerDies` resets every connection, reports in the backlog are lost. The
server's part reuses the actions of `Server` with the arguments that the message
carries. `verified` is a history variable: the tasks some worker finished.

REQ and req write the task and `TASK_SIZE` before they read the client ID, and the
client, which writes its ID and gets no answer to it, runs the task as soon as it has
read the last reply. So the client may work although the handler fails or the server
is killed afterwards: `ServeUnheard` is a failure of the last read of a batch after the
replies were written, `ServerDiesAfterReply` a kill before or after the store of the
ID. (`Serve` and `ServerDies` are the cases in which the replies did not arrive.) The
history variable `unheard` holds the clients whose last thread runs a task for which
the server never stored its ID; a REQ that is not heard frees the task again
(`unset_assignment`), so somebody else may be given it. For an earlier thread of a batch
this does not happen: its failure ends the batch before the client has all replies,
and the client starts over.

### Backup.tla - `src/server/backup.sh` and repairs

`CopyNext` copies the next of the seven files in the order of the script while
the server goes on working, `Restore` puts a finished copy in place while the
server is down, and `Start` then repairs it. RET is not one step here: `BeginReturn`
sets the complete bit, `StoreNext` makes the stores of the record (all four, or those
up to the next number in `StoreBreak`), `EndReturn` clears the client ID; copies and kills
(`BackupDie`) come anywhere in between. `torn` is a history variable: the tasks whose
complete bit was set but whose checksum was not stored when the server was killed, or when
a copy was made that is then put back.

### ResidueServer.tla - `src/rs-server/rs-server.c`

The variables are those of `Server` without `clientid`; `opts` remembers the
options of the last start for the property about it. What differs from `Server`
is what differs in the code:

* RET and INT have no owner check. RET accepts any task whose bit in the map of
  assigned tasks is set, and INT frees any task, a complete one too (the code
  warns and goes on).
* When no task is left the reply is 0, 0, 0, the value `Empty`. Sent back in a
  RET or INT it has the wrong target, and the server drops the rest of the batch
  (`ReturnRefused`, `InterruptRefused`).
* `get_missed_assignment` catches only the number one past the table. A thread of
  a `req` batch that is further beyond sets a bit past the end of the map of 512
  bytes. The file is mapped, so that bit lies in the rest of its page: it can be
  read back while the process lives, and may be lost when it ends
  (`PastTheEnd`, `ProcessEnds`). The scan that follows has no bound either
  (`OpenScan`).
* `Start` is `main` up to `listen`: `-i`, `-f` (`Fixed`), the scans, `-c`.
  `DieInReturn` is a kill between the stores of RET.

### ResidueSystem.tla - the residue server with `src/rs-client/rs-client.c`

As `System`, without client IDs. Each client asks in a `mode` of its own: REQ,
MRQ (`-B`) or req (`-l`). A client neither runs nor returns an empty assignment,
so a batch of results may have fewer messages than it announced, at which the
server reads end of file (`EndOfBatch`); but it revokes empty ones, at which the
server gives up. `computed` and `calm` are history variables: which tasks some
worker finished, and that nothing was lost and nobody died yet. Without owners
nothing can be promised once something is lost, so two of the properties are
about calm behaviours, and one (`RecordedWasComputed`) about all.

### Collatz.tla - the arithmetic, and what it is held to

The code's numbers have 128 bits, their low halves 64 (CPU) or 32 (GPU), its
tables of powers of three 41 and 21 entries. These five numbers are constants
here, with what relates them (a table holds powers that fit its word) as an
assumption; so all caps, carries and bounds occur with small numbers. The powers
are recursive functions, about which TLAPS can reason. The second
half is the reference: the Collatz iteration itself, a step at a time, in terms
of which every property of the workers is stated. `IsLiveIn` is the rule of the map
files: of the classes modulo 2^k, those are left out that come below themselves in a
prefix of their k steps (`Sinks`), and those that after some of them are where a
lower class is, with as many odd steps (`Coalesces`): 15 modulo 64 meets 14. The
rule was read off `dict` in the workers, the 50 patterns of 64 classes that occur in a
map with `USE_LUT50`, and off `src/rs-worker/esieve-24.lut50.map`, the map of 24 bits
in the repository: it marks 234156 of the 2^24 classes, exactly those of the rule. The
maps of other sizes, which the scripts unpack from a directory beside the repository,
are taken to follow the same rule. The GPU worker is built with a sieve size of its
own. The tests of digit sums in `is_live_in_sieve3` and `9` are
modelled as the remainders they compute. `Descent` is the first step that takes a
number below itself, if one does: that every number has one is what the program
looks for, and nothing here assumes it. `OddSteps` and `PeakFrom` are what a checksum
and a maximum owe to a number.

### Worker.tla - `src/worker/worker.c`, `src/rs-worker/rs-worker-sc.c`

`pc` is the place in the call chain `solve_task` - `precalc` - `calc` - `check` -
`mpz_check2`; an action is a round of the loop at that place: `SolveTask` finds
the next number or class, `PrecalcRise` and `PrecalcFall` step a class modulo
2^`SIEVE_LOGSIZE`, `Calc` resumes a member of it, `Rise` and `Fall` are the two
halves of `check`, `WideStep` a round of `mpz_check2`, `Halt` the report. `prog`
is the build: with or without precalculation, the mod 3 and mod 9 sieves, and
GMP (without it the program aborts on an overflow). The residue-sieve worker has
the same check and takes its numbers from `BEvaluate`, and its task is a process of
`rs-worker-sc.c`. `tested` is a history variable. `n` is forgotten when `check`
returns, as the local it is. `WorkerAssumption` says which sizes the code is written
for: the last number of a task and the image of its class after the sieve's
steps fit the width (40 + 32 bits of task and 51 of 3^32 are below 128), so do the
residue sieve's numbers, and the assertion of `calc` that precalculation needs no
power beyond the table.

### ThreadedWorker.tla - `src/rs-worker/rs-worker.c`

The whole residue sieve in one process with OpenMP threads. `thr` holds the
locals of each thread with its slots of `arr` and `g_checksum_alpha`; rounds of
`NextNumber`, `Climb`, `Drop` and `Wide` of different threads interleave freely.
`g_overflow_counter++` is `LoadCounter` and `StoreCounter`, and `inside` the
critical section around them. Without GMP the first `GiveUp` aborts the process.
`team` may be smaller than `threads`, as OpenMP need not start as many threads as
the split of the patterns counts on; the assertion in `Join` notices.
`thr[t].over` is a history.

### Mod3Sieve.tla - `src/mod3-sieve/main.c`

The program whose output was copied into the workers: classes a n + b are stepped
while their parity is known, a class that has come from a smaller number and
reached modulus 3^k is dead.

### GpuWorker.tla - `src/gpuworker/gpuworker.c`, `kernel32.cl`, `kernel32-precalc.cl`

A function of work items, interleaved freely. Each has its share of the numbers
(kernel32) or of the classes (kernel32-precalc), its sum, maximum and offset. An
item that would leave 128 bits sets its sum to 0 and ends (`Overflow`).
`HostSums` is the reduction by the host, which gives up on the task when any sum
is 0. `max_n0` of kernel32 has no initial value (`Unset`). kernel32-precalc has a
`barrier()` in the loop over live classes, which the items do not meet equally
often; OpenCL leaves that undefined, so both outcomes are in the model: `strict`
builds wait for items that have ended, others do not. `MapLog` is the `SIEVE_LOGSIZE` of
the builds of either kernel, which need not be the CPU worker's: `scripts/bootstrap.sh`
(76-77) builds 24 bits next to 34. Of kernel32 nothing is assumed but what the host
asserts, `task_units + 2 <= task_size`, so a build with `SIEVE_LOGSIZE` and `TASK_UNITS`
both 16, as the Makefile's default and `test-16-0-e.sh`, is among them. kernel32-precalc
shifts classes by `SIEVE_LOGSIZE - task_units` and takes every fourth of an item's, so
`GpuAssumption` gives each item at least four classes: the builds in `gpuworker/test` have
2^12 and more.

### Assignment.tla - `run_assignment` of `src/mclient/mclient.c`

The two workers as processes that print lines and end, and the call that starts
one, reads its lines and closes the pipe. `printed` and `read` are how far each
side has come; `Killed` is possible at every point, `ExecFails` before the first
line (the threads of a client share one working directory, and another thread
may have changed it between this one's `chdir` and `popen`). `Overflown` is the
nested call for the CPU after `ABORTED_DUE_TO_OVERFLOW`: it writes the same
`result`, and the outer call then reads on in the output of the GPU worker, which
has killed itself. `System` and `ResidueSystem` use the outcome of this call:
`RunSucceeds` or `RunFails`, for all threads of a client at once.

## 3. The runs

| run | instance | shows |
|---|---|---|
| `server` | 3 tasks, 2 client IDs (symmetric), batches of up to 2, three classes of results, options none, `-f`, `-f -c`, `-z -r` | `TypeOK`, `PointersExact`, `MissedBatchIsLowest`, `FrontierNeverRetreats`, `ImplementsTaskTable` |
| `backup` | 2 tasks, one ID, REQ, RET and INT of one message each, RET with kills and copies before and after its stores, `-f -c` with nothing, `-m -i`, `-z -r` | `BackupRecorded`, `StartRepairs`, `ClearReturnsToFrontier` |
| `system` | 3 tasks, a REQ client with 2 threads and a `req` client whose results are accepted or rejected, backlog of 1, server killed at any time, between reply and store too | `CompleteWasVerified`, `CompleteIsAssigned`, `LeaseKept`, `TornIsMarked`, `RecordedOnce` |
| `exclusive` | 2 tasks, an MRQ client with 2 threads and a REQ client, each started twice, backlog of 2, the same kills | `ExclusiveWork` |
| `progress` | 2 tasks, a REQ client without an ID of its own (`Unlucky`) and a fair `req` client whose results may be rejected | `AllCompleted` |
| `residue` | 3 tasks, batches of up to 2, results sound, with overflows, and zero, options none, `-f -c`, `-i` | `TypeOK`, `PointersExact`, `EmptyComesLast`, `MissedBatchIsLowest`, `ClearedAfterFix`, `FrontierNeverRetreats` of `ResidueServer` |
| `residue_system` | 2 tasks, a client with 2 threads and one with 1, each in any of the three modes, backlog of 2, faults at any time | `RecordedWasComputed`, `NothingStranded`, `ExclusiveWhenCalm` |
| `residue_progress` | the same instance without faults (`CalmSpec`) | `AllCompleted` of `ResidueSystem` |
| `worker` | 15 bits for 128, every build of the worker on tasks 0 to 11, the residue worker on 4 parts of 2^3 numbers, the same 2^5 numbers on 1 or 2 threads, the mod-3 sieve up to 2^6 and 3^3 | `TypeOK`, `ChecksumAgrees`, `TaskCovered`, `PartCovered`, `MaximumIsHighest`, `OverflowCounted`, `SieveSound`, `WorkersUseTheSieve`, `ThreadsAgree` |
| `assignment` | 12 bits for 128, a task with an overflow and one without, 2 work items, three kernels, the CPU worker with and without GMP | `GpuTypeOK`, `ResultIsTheTasks`, `OverflowGoesToTheCpu`, `CallReturns` |
| `highest` | as `server`, no options | finding: `HighestRequested` is violated |
| `clear` | as `server`, `-c` only | finding: `AllIncompleteCleared` is violated |

Deadlock is checked in all of them but `worker` and `assignment`, whose programs
end.

**Bounds and why they are enough.** `NumTasks` 3 gives a task below, at and above a pointer,
and a gap between two others; it stands for a window in which all bits above are clear. When
it is used up a grant is not enabled and the connection ends by `Abort`, which is what a
client would see of a failing server. Two clients are enough for every conflict over one task,
and two threads for a batch that breaks in its middle. In `exclusive` a client may die, with
its messages on their way, and come back with new IDs (`MaxLives` 2), and the two tasks are
fewer than the three threads that want them. In `system` and `progress` a client that died
stays away (`MaxLives` 1), but what it sent is still served; the proofs allow any number of
lives. A report overtakes nothing, it can only wait behind another: a backlog (`MaxQueue`) of
2 beside the connection being served holds the request of one client and the repeated report
of the other. `system` makes do with 1, for the sake of its number of states, as its second
class of results already lets a task return to a client that has it. Client IDs are distinct
(they are 64 random bits), except in `progress`: there the REQ client is `Unlucky`, it could
not read `/dev/urandom` and its ID is 0, so that its tasks look as if nobody had them. All
tasks are completed even then. The safety properties do need distinct IDs: an INT with ID 0
passes the owner check of a finished task. Results are one of each class the server tells
apart: known checksum, unknown checksum, zero. In `system` and `progress` the REQ client
computes a known checksum, the `req` client another known one or an unknown one. In `backup`
there is one client ID, as only ID or no ID matters to the repairs, and `StoreBreak` is {4}:
RET is watched before its first and after its last store, as only the first, of the checksum,
matters to the property (the proofs allow any subset of the stores). `-r` is given superblocks
of one task that end inside the table.

`residue` has a table of 3 tasks that is used up and batches of 2, so that a batch
is half empty, and a `req` batch sets a bit past the end; `residue_system` has 2
tasks for 3 threads, so that one of them is always empty.

In `worker`, numbers have 15 bits, words 10 and 4, the tables of powers of three 7 and 3
entries, the sieve 2^6 classes, the fewest of which one is dropped because it coalesces with
another (15), and a task has 2^7 numbers. The trajectory of 703 (task 5) leaves 15 bits, and
of the 32 numbers of the residue sieve those of 1023 and 1407, one in each thread's share,
while five are checked beyond 15 bits, so that the counter is contended; 27 (task 0) climbs to
4616 and needs several rounds for its factors of two. The tables cap rounds in `check` and in
`precalc`, the remaining bits cap rounds in `precalc`. Checksums wrap at 8 bits. In
`assignment`, numbers have 12 bits, so that 159 in task 4 leaves them while no number of task
5 does. The sieve has 4 bits on the CPU, 3 in the kernel with precalculation and 2 in the
other one, where that is less than the 3 bits `TaskUnits + 2` (as in a build with 16 and 16),
and `MCInit` takes every value of each parameter but not all combinations: the wrong task
size, for example, is tried with one kernel only, as it is noticed before the kernel runs. Two
work items suffice for each way a sum, a mark or a barrier of one meets those of another.

**Assumptions about the environment.** Connections are accepted in the order in which they
were made. Stores to a `MAP_SHARED` mapping are seen after the death of the process in program
order; a loss of power is not modelled. A copy of one file is atomic in `Backup`, while RET
goes through the files a store at a time; the properties compare files, not two tasks of one
file. Start-up is one step: a kill during it leaves tables that the same options bring to the
same end.

**Fairness** (`System!FairSpec`, only for `progress`). The server goes on working and a silent
client times out after 10 s (`SO_RCVTIMEO`), so the steps of the server have weak fairness.
Every exchange can fail, so nothing stronger than strong fairness holds for a `req` client: a
request, a return and its acceptance (`ReportServed`, of a known checksum and while the ID is
still the task's) each happen again and again if they are possible again and again. A run ends
(`RunEnds`), and one of a task that the server has recorded for the client ends with a known
checksum if there are such runs again and again (`RunGood`): not all of those that count fail.
Kills of the server (`ServerDies`, `ServerDiesAfterReply`) come to an end, and the connection
under a waiting `req` client is not reset for ever. The other client has no fairness at all.
The conclusion is that all tasks are completed, unless the `req` client stops for good.

`ResidueSystem!CalmSpec` (for `residue_progress`) takes the behaviours without
faults. The server's steps have weak fairness; a client's request and report have
strong fairness, as the backlog may be full each time it looks; and a worker that
runs the same task again and again succeeds at some time. `req` clients are
excluded by the property, as with them it is false: such a client, if its worker
fails again and again, frees the task that another one runs, whose result is then
refused because the task is not assigned.

`Assignment!AssignmentSpec` (`CallReturns`) has weak fairness of `Progress`: the
worker, the kernel and the client go on while they can. Nothing need be killed.
Builds with a `strict` barrier are excluded, because they hang.

**Findings.** (1) HIR, "Query Highest Requested" in `doc/PROTOCOL.md`, replies
`g_lowest_unassigned`, which lies below requested tasks after an INT. (2) `-c`
logs "incomplete assignments have been cleared!" but only clears tasks below
`g_lowest_unassigned`: above a freed task, assigned and incomplete ones stay as
they are.

Each property has a mutant: an operator marked `[mistake]` next to the definition
it would replace, a plausible error in the code with which the property fails.

## 4. The proofs

`ServerProofs.tla` proves, for every `NumTasks`, set of IDs, batch size, result
set and set of options:

* `TypeCorrect`: `Spec => []TypeOK`.
* `PointersCorrect`: `Spec => []PointersExact`. The invariant is
  `TypeOK /\ PointersExact`, inductive as it stands: every handler changes one
  bit, and `ScanOn` (a bit is set), `ScanBack` (a bit is cleared) and
  `ScanCleared` (`-c`) say where a scan from 0 then ends. They follow from
  `ScanSpec` and `ScanUnique`: a scan ends (`LeastNumber`, by the
  well-foundedness of `<`) and at one place only.
* `FrontierCorrect`: `Spec => FrontierNeverRetreats`, from `TypeOK`.
* `BatchCorrect`: `Spec => []MissedBatchIsLowest`. Not inductive as it stands,
  since it does not say where the next task of a batch will lie; `BatchInv` does:
  the i-th task has i - 1 incomplete ones between the frontier and itself.
  `MissedInOrder` counts them (`FiniteSetTheorems`), and `IdleWhenDown` keeps a
  batch from surviving a restart that resets complete tasks.
* `Refinement`: `HistorySpec => ImplementsTaskTable`, from types and pointers: every
  handler, and every kill inside one, answers the message it serves as the table
  prescribes. `PointersExact` is what makes a REQ take the *lowest* free task (`TakeIsDue`),
  and makes the REQ that is not heard, which sets and clears its bit, leave the table as it
  was; `RetakeIsDue` is the order of a `req` batch. The owner checks of RET and INT are
  needed as well: the table lets only a message that names the holder finish or
  free a task. `HistoryIsServer` (`HistorySpec => Spec`) makes the invariants available, and
  `StartFacts` collects what any combination of options guarantees.

`ResidueSystemProofs.tla` begins with the same for the residue server, for every `NumTasks`,
batch size, result set and set of options, and what its differences need:

* `ResidueTypeCorrect`, `ResiduePointersCorrect`: the invariant is
  `TableInv == TypeOK /\ PointersExact`, and here each half needs the other. The
  scan of `get_missed_assignment` has no bound; it stays in the table, or ends
  just behind it, because the bit behind the table is clear (`OpenScanStops`),
  which is a part of `PointersExact`; and that bit stays clear since a `req` batch
  sets bits only further on, none from `LastBit` on: `MissedBounded` counts with
  `Cardinality` the incomplete tasks below a missed one.
* `ResidueFrontierCorrect`: no step of a running server takes a task out of the
  complete ones, although its INT has no owner check.
* `ResidueFixCorrect`: `-f` and `-c` together, from any tables (`StartFacts`).
* `ResidueEmptiesCorrect`, `ResidueBatchCorrect`: strengthened to `BatchInv`,
  which says for a REQ or MRQ batch that an empty assignment means a full table,
  and for a `req` batch how many incomplete tasks lie below each task handed out
  (`ServedFor`, `MissedInOrder`).

Both begin with `LeastNumber` (a non-empty set of naturals has a least element) and
`OneMore` (a sequence with one element appended).

`SystemProofs.tla` is about the server with its clients, for every number of
clients, threads, tasks, process lives and waiting connections, all modes and
every set of options. The clients that ask, wait, time out, repeat and die, and the server
that answers late or dies, meet in one place, the line of connections: `Places`
numbers it, 0 is the one being served, and `At` is the connection at a place.

* `LineCorrect`: `SysSpec => []LineInv`, inductive as it stands. Besides the types it says
  that a connection holds what the client that made it sent (`LinkGood`), that a
  client waits for one answer at most (`OneAnswer`), that the batch handed out so
  far is what the waiting client will read (`ConnOK`), and that what a client
  returns was computed. `ServerMoves` and `ForsakeMoves` say how each step moves
  the line: one place on, or not at all but for a connection cut short.
* `SysTypeCorrect`, `VerifiedCorrect`: parts of `LineInv`. `CompleteWasVerified`
  could not be shown alone: a task becomes complete long after its worker
  finished, by a message that only the line knows of.
* `UsesServer`: `SysSpec => Spec`. Every step of the system is a step of `Server`
  or leaves its tables alone, so what is proved above of `Spec` (types, pointers, frontier,
  batches) holds of the system.

Its second half is for client IDs that tell processes apart, `Unlucky = {}`.
The hypothesis is needed: an INT with ID 0 passes the owner check of a finished
task. Who holds a task is a matter of order: a client reports twice, or asks
again, while old reports wait.

* `RoundCorrect`: `LineInv`, `PointersExact` and `RoundInv`. `InOrder`: a client
  that asks has no report of its own behind its request, because the line is
  first come first served. `OneRound`: all its reports on their way are of the
  round it is in. `TornMsg`, `TornWork`: a complete task that still has an ID
  (a kill in the middle of RET) meets only the retry of the same result.
  `HandedFresh`: what is being handed out is assigned and not complete.
* `CompleteIsAssignedCorrect`: a part of it. Without `TornMsg` it is not
  inductive: an INT of the same client would free the torn task.
* `RecordedOnceCorrect`: an action property, from the same invariant: a
  complete task without an ID refuses every report.
* `TornIsMarkedCorrect`: if no start uses `-f`. The hypothesis is needed: `-f` clears the
  IDs of complete tasks but does not look at their checksums, so a torn task stays
  complete, without a checksum and without the mark.
* `LeaseKeptCorrect`: for `LeaseOptions`, which exclude `-r` and `-c`, as they
  take tasks from their workers, and `-m`, `-i`, `-z` without `-f`. It is about threads
  that the server has heard (`Heard`), all but the last one of an unheard batch. The exception is
  real: a suspicious result frees a task but leaves the ID; if the client is given the
  task again and the server then fails to read the ID, it frees the task, whose
  stored ID is that of the thread at work on it.
* `ExclusiveWorkCorrect`: if starts use `-f` or nothing. `HeldInv` adds that without `req` a
  task that a heard thread was given is recorded under the ID of that thread from the moment
  it is handed out until it is returned. One ID per task then makes one worker per task. Two
  workers on one task are possible if the server has not heard one of them: it has freed the
  task that this one runs.

`BackupProofs.tla`, for every traffic and every set of options:

* `BackupTypeCorrect`, `BackupRecordedCorrect`: `BackupInv` follows the copy file
  by file. A complete task is `Accounted` for by its checksum, by RET being about to store it
  (`InFlight`), or as torn. `ImageAccounted` says which files account for what the
  copy of `complete.map` names: the server's, as long as the client IDs are to be copied;
  then the checksum in the server's file, or the ID in the copy; at last those in the copy.
  It holds because the copy and RET go the same way, from the complete bit
  over the checksum to the client ID (`RetInv`), and nothing erases a checksum.
* `StartRepairsCorrect` needs `-f` in every set of options: complete tasks are assigned and
  without an ID, and all but the torn ones have a checksum, because `-f` does not look at
  checksums and gives a torn task none. `ClearReturnsToFrontierCorrect` needs `-c` as well;
  the other options are free.

All four assume that no client has the ID 0: what `BackupInv` knows of a RET that was caught in
the middle, it knows by the client ID.

`ResidueSystemProofs.tla` goes on to the residue server with its clients. There are
no IDs, and no message says who sent it.

* `ResidueLineCorrect`, `ResidueSysTypeCorrect`, `RecordedCorrect`,
  `UsesResidueServer`: as for `System`, whatever fails. `RecordedCorrect` is
  more than its counterpart: the record is the result of *this* task, although a
  return with holes is shorter than announced (`Nonempty`).
* `CalmCorrect`: while nothing has failed. A task is *carried* by a token: a thread
  (`WorkToken`), a slot of the batch handed out (`HandedToken`) or an unread message
  (`MsgToken`). `CalmInv`: every assigned task that is not complete has a token.
  `SingleInv`: if nobody uses `req`, it has one only, and tasks with a token
  are assigned. `TidyInv` is needed for both: in a revocation, no task follows an empty
  assignment, so that what the server drops carries nothing. It rests on
  `EmptyComesLast` of the server and on the order of threads in a batch. There is a
  lemma for each way a token moves (`AskTokens`, `BatchTokens`, `AcceptTokens`,
  `ReadToken`, `HandToken`, `DropTokens`, `DeliverTokens`, `ReportTokens`).
* `NothingStrandedCorrect`, `ExclusiveWhenCalmCorrect`: what the two say about tasks
  in messages and threads.

`CollatzProofs.tla` holds the arithmetic the proofs about the workers stand on: powers and
division; sums over finite sets (`SumInsert`, from the definition of the fold); trailing
zeros; what a round does to an iterate (`ComesRise`, `ComesFall`: so many steps, so many odd
ones, none below the start); the class of a number modulo 2^k determines its next k steps
(`ClassSteps`); a class that does not sink stays above its members (`LiveInStays`), one that
sinks takes large members below themselves (`SunkDescends`), and one that coalesces takes each
member to where a smaller number is (`CoalescedMeets`); the patterns of the residue sieve are
its numbers (`PatternNumberInverse`). Recursive functions are unfolded, and inductions made,
with the least counterexample (`SetInduction`). Its theorems:

* `SieveSoundCorrect`: every class the mod-3 sieve prints is dead because each of its
  members, not only large ones, has a smaller number before it. `SieveInv`: the pair is the image of
  its first class after some steps, with at most that many factors of two lost.
* `WorkersUseTheSieveCorrect`: for moduli up to any power, the tables for 3 and 9 are
  {2} and {2, 4, 5, 8}. `TableInv` lists the six images of classes modulo 2, 4 and 8
  that fill them, and shows that no later class adds anything.

`WorkerProofs.tla` is about every build of the worker, every width, table size, task
and sieve size that `WorkerAssumption` allows.

* `WorkerTypeOKCorrect`: nothing wraps and no table is left. `PlaceInv`: wherever the
  program is, `n` stands for an iterate of the number under test with none below
  it before (`Comes`), and what `precalc` holds is the class's image after the steps
  taken. That an increment never overflows is the bound in `Rise` for later rounds, and
  `ClassFits` for the first one.
* `PartCoveredCorrect`, from `TestedInv`: tested are exactly the numbers the loops have
  come past and the sieves keep.
* `ChecksumAgreesCorrect`, from `SumInv`: the checksum is the shares of what was tested,
  plus the odd steps of the number under test, plus what `precalc` has added ahead
  for the members of a class that are still to come.
* `MaximumIsHighestCorrect`, from `MaxInv`, about both records and the peaks between two
  entries in them; `OverflowCountedCorrect`, from `OverInv`.
* `TaskCoveredCorrect`: for a task with `3 * Base >= SIEVE_LOGSIZE * Pow2[SIEVE_LOGSIZE]`.
  What a task does not test is below itself within the sieve's steps, or then where a smaller
  number is after as many, or is reached from a smaller number. The map drops sinking classes
  for their *large* members, hence the bound. With the sizes of the code that is all tasks but
  task 0; for the small numbers of task 0 the claim depends on the map, and TLC checks it.

`ThreadedProofs.tla` proves `ThreadsAgreeCorrect` for any number of threads, any
interleaving, with and without GMP. `ThreadsInv`: the shape of the state; each thread
alone (`ThreadInv`: its place in its own patterns, its past, its part of the sum);
`CountInv`, which holds the threads together: the counter plus those on their way to it is the
number of numbers given up, and a thread in the critical section has loaded
the present value; and `RegionInv`. The blocks of the threads partition the patterns, also when
the team is smaller than the split, where `Join` finds numbers missing.

`AssignmentProofs.tla` is about a call of `run_assignment`, for all widths, table sizes,
kernels, numbers of work items and tasks, sieve sizes of the CPU worker and of each kernel,
`strict` barriers included.

* `UsesWorker`: `AssignmentSpec => Spec`. A call starts the CPU worker at most once and
  the other steps leave it alone, so the theorems above hold inside a call.
* The kernels: `ItemInv` keeps the books of one work item. `Ledger`: its sum is the
  shares of the numbers it has passed, plus what it has counted ahead for the
  class it is in (`GAhead`), up to whole turns of the checksum. `Passed` and `Named`:
  those numbers came below themselves, none climbed above the item's
  maximum, and the number it names did climb that high. `GNumber` is the order of a
  kernel: one number after the other, or one class after the other. An item whose sum is 0 may
  have given up, and nothing more is said of it (`GaveItUp`). `GpuMoves` is one lemma per step of a
  kernel, and `HostSumsUp` adds up the books: when no sum is 0 the shares of the
  items are the task. So the host may give up without need, on a sum that is 0 by
  chance, but does not report without right.
* The client: `ClientInv`. `CallInv` relates a call to the lines its worker printed;
  `BothInv` says that the two calls of one run are never of use at once: the CPU
  worker's is inside the GPU worker's only after that one has given up, at its third
  line, and it is then the inner call that is successful. `CpuRead` and
  `GpuRead` say which fields of `result`, which the two share, are whose.
* `GpuTypeOKCorrect`: parts of the two invariants.
* `ResultIsTheTasksCorrect`: with `ChecksumAgrees` and `MaximumIsHighest` of the worker.
  The hypothesis is that the sieves leave some number of the task, as a
  maximum of none has no offset. `ResultIsAlwaysTheTasks` shows that this is so
  if `TASK_SIZE >= SIEVE_LOGSIZE + 2` (40 and 32 in the code): the last class of the
  sieve only rises, and one in three of its members is a multiple of 3 (`SomeLeft`).
* `OverflowGoesToTheCpuCorrect`: an item that has come to its end has passed no number
  that leaves the width, and `OverflowCounted` holds of the CPU worker.

TLC checked each of these invariants on the instances of section 3, or on a part of
one, before its proof.

The assumptions are the named `ASSUME`s of the modules, which TLC evaluates in every run:
sizes are positive, tasks and results are what they should be, client IDs differ from thread
to thread and life to life (`IdsAssumption`; they are 64 random bits), the traffic of `Backup`
consists of kinds of connections (`TrafficAssumption`) and RET makes all stores in the end
(`StoreBreakAssumption`); the tables hold powers that fit their words and the numbers of a
task fit the width (`WidthsAssumption`, `WorkerAssumption`), a work item has at least four
numbers, as the host asserts, and in kernel32-precalc four classes (`GpuAssumption`); a call
runs `worker`, not the residue worker, and the images of kernel32-precalc's classes fit the
width as those of the CPU worker do (`AssignmentAssumption`). The theorems have no other
hypotheses than those named above: on `Unlucky`, `NoId` and `Options`, on `Base` in
`TaskCoveredCorrect`, and that the sieves leave a number in `ResultIsTheTasksCorrect`.

What stays with TLC: the liveness properties (`AllCompleted`, `CallReturns`), as the
prover knows neither fairness nor ENABLED; and `TaskCovered` for the small numbers of
task 0, which depends on the map of the sieve. Every other property of a passing run is a
theorem.

## 5. Not modelled

* Of the servers: PNG changes nothing; logging, byte order and layout of messages,
  protocol versions (an unknown one ends the batch like a failed read), a wrong
  `TASK_SIZE` in a message (the same), the buffers that MRQ leaks when it fails.
* Of the client: its check of the line `TASK_ID` (`mclient.c:329`), as a worker prints the ID
  it was started with, and of `pclose` returning -1 (453); what happens to a worker that is
  left running after it reported a wrong `TASK_SIZE`; the wait on a server whose machine
  vanished, as the client's sockets have no timeout; user times; the sleep of an empty
  assignment.
* Of the workers: times, the alarm (a worker may be killed at any time), the
  set-up of OpenCL except that it may fail, cycle offsets. `Sbeta` of the kernels
  is `SIEVE_LOGSIZE - Salpha` and has no variable.
* The offline tools of both servers map the files read-only and print. The
  programs in `src/steps` print trajectories. They keep no state.
* The launcher `spawn.sh` holds a lock so that one client runs per directory. If
  it fails there are two clients, which both systems have anyway. The scripts for
  batch systems build and start clients.
* A loss of power, and the death of the server during start-up.

## 6. What could follow

1. A model of the client's threads with their common working directory: the order of
   `chdir`, `popen` and `fgets`, of which `ExecFails` of `Assignment` is the outcome, and
   of the lock files of the launchers.
2. `ThreadedWorker` with the residue system: a run of `rs-worker` as the outcome that
   `ResidueSystem` takes from it.
3. The small numbers of task 0: that the map drops none of them wrongly is a
   statement about the map file. The one of 24 bits is in the repository; the others are not.
