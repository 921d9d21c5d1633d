------------------------------- MODULE Server -------------------------------
(***************************************************************************)
(* The server of the convergence project (src/server/server.c).            *)
(*                                                                         *)
(* The search space is cut into tasks of 2^40 numbers.  The server hands   *)
(* tasks to clients, takes their results and publishes the frontier: the   *)
(* lowest task that is not complete.  It is one thread that serves one     *)
(* connection at a time.  Its tables (two bitmaps and five arrays) are     *)
(* files mapped MAP_SHARED, so they survive the death of the process; the  *)
(* two pointers g_lowest_unassigned and g_lowest_incomplete are globals,   *)
(* recomputed at every start.                                              *)
(*                                                                         *)
(* Clients are an open environment here: any client ID may send any        *)
(* message about any task.  Module System closes it with the real client.  *)
(***************************************************************************)
EXTENDS Integers, Sequences, FiniteSets

CONSTANTS
  NumTasks,      \* Bound: tasks 0 .. NumTasks-1 of the 2^32 are in play
  ClientId,      \* the IDs that clients draw from /dev/urandom
  NoId,          \* the ID 0: "no client", also what a failed draw leaves
  Result,        \* the results a RET message may carry
  KnownChecksum, \* the checksums whose leading digits the server recognises
  MaxThreads,    \* Bound: messages in one MUL or MRQ batch
  SuperBlock,    \* tasks in a superblock (2^20 in the code)
  Options        \* the sets of command line options the server is started with

Task == 0 .. NumTasks - 1

\* What checksums.dat, usertimes.dat, overflows.dat and mxoffsets.dat hold
\* for one task; a file grown by ftruncate reads as zero.
Record == [checksum: Nat, usertime: Nat, overflow: Nat, mxoffset: Nat]
NoRecord == [checksum |-> 0, usertime |-> 0, overflow |-> 0, mxoffset |-> 0]

Option == {"m", "i", "z", "f", "r", "c"}

ASSUME NumTasksAssumption == NumTasks \in Nat \ {0}
ASSUME ClientIdAssumption == ClientId # {}
ASSUME ResultAssumption == Result \subseteq Record
ASSUME KnownChecksumAssumption == KnownChecksum \subseteq Nat \ {0}
ASSUME MaxThreadsAssumption == MaxThreads \in Nat \ {0}
ASSUME SuperBlockAssumption == SuperBlock \in Nat \ {0}
ASSUME OptionsAssumption == Options \subseteq SUBSET Option

VARIABLES
  up,        \* is the process running?
  assigned,  \* g_map_assigned: the tasks whose bit is set
  complete,  \* g_map_complete
  record,    \* the four result arrays
  clientid,  \* g_clientids
  lu,        \* g_lowest_unassigned
  li,        \* g_lowest_incomplete
  conn       \* the connection being served

files == <<assigned, complete, record, clientid>>
vars == <<up, files, lu, li, conn>>

-----------------------------------------------------------------------------
(* The connection.  A client sends batches of one kind: MUL announces the  *)
(* number of messages and numbers them with a thread ID, a plain message   *)
(* is a batch of one with thread ID 0.                                     *)

GrantKind == {"REQ", "MRQ", "req"}
ReportKind == {"RET", "INT"}
QueryKind == {"LOI", "HIR"}

Conn == [kind: GrantKind \cup ReportKind \cup QueryKind \cup {"none"},
         size: 0 .. MaxThreads, tid: 0 .. MaxThreads, handed: Seq(Nat)]

NoConn == [kind |-> "none", size |-> 0, tid |-> 0, handed |-> <<>>]

\* [mistake] the loop over the batch runs once too often
ServingOneMore(k) == up /\ conn.kind = k /\ conn.tid <= conn.size

\* The next message of the batch is of kind k and has not been served.
Serving(k) == up /\ conn.kind = k /\ conn.tid < conn.size

\* The handler returns 0: on to the next message; `reply' was written.
NextMessage(reply) ==
  conn' = [conn EXCEPT !.tid = @ + 1, !.handed = @ \o reply]

\* The handler returns -1: the rest of the batch is not read.
GiveUp == conn' = NoConn

-----------------------------------------------------------------------------
(* The task table. *)

\* for (; IS_SET(p); ++p) started at k; bits from NumTasks on are clear.
Scan(S, k) ==
  CHOOSE n \in k .. NumTasks : n \notin S /\ \A m \in k .. n - 1 : m \in S

\* [mistake] one step instead of the loop that advances g_lowest_incomplete
SetCompleteOneStep(n) ==
  /\ complete' = complete \cup {n}
  /\ li' = IF n = li THEN li + 1 ELSE li

\* set_complete, when it returns 0
SetComplete(n) ==
  /\ complete' = complete \cup {n}
  /\ li' = IF n = li THEN Scan(complete', li) ELSE li

\* get_assignment: the task handed out is lu
GetAssignment ==
  /\ lu \in Task
  /\ assigned' = assigned \cup {lu}
  /\ lu' = Scan(assigned', lu)

\* [mistake] g_lowest_unassigned is not moved back
UnsetAssignmentOnly(n) ==
  /\ assigned' = assigned \ {n}
  /\ UNCHANGED lu

\* unset_assignment
UnsetAssignment(n) ==
  /\ assigned' = assigned \ {n}
  /\ lu' = IF lu > n THEN n ELSE lu

\* [mistake] complete tasks are not skipped between two threads
IsMissedAdjacent(n, t) == n = li + t

\* [mistake] the lowest task that nobody has instead of the lowest incomplete
IsMissedFree(n, t) == n = lu

\* get_missed_assignment: n is the incomplete task that has t incomplete
\* ones between li and itself.
IsMissed(n, t) ==
  /\ n >= li /\ n \notin complete
  /\ Cardinality((li .. n - 1) \ complete) = t

\* [mistake] the task handed out again is not marked as assigned
GetMissedUnmarked(n) ==
  /\ IsMissed(n, conn.tid)
  /\ UNCHANGED <<assigned, lu>>

GetMissedAssignment(n) ==
  /\ IsMissed(n, conn.tid)
  /\ assigned' = assigned \cup {n}
  /\ lu' = IF n = lu THEN Scan(assigned', lu) ELSE lu

SetClientId(n, c) == clientid' = [clientid EXCEPT ![n] = c]

-----------------------------------------------------------------------------
(* Requests: the branches REQ, MRQ and req of read_message. *)

\* REQ: the task is written, then the client ID is read and recorded.
RequestServed(c) ==
  /\ Serving("REQ")
  /\ GetAssignment
  /\ SetClientId(lu, c)
  /\ NextMessage(<<lu>>)
  /\ UNCHANGED <<up, complete, record, li>>

\* REQ: a write fails; the task stays assigned and nobody has it.
RequestWriteFails ==
  /\ Serving("REQ")
  /\ GetAssignment
  /\ GiveUp
  /\ UNCHANGED <<up, complete, record, clientid, li>>

\* REQ: the client ID cannot be read; the task is unassigned again.
RequestReadFails ==
  /\ Serving("REQ")
  /\ lu \in Task
  /\ assigned' = (assigned \cup {lu}) \ {lu}
  /\ LET l == Scan(assigned \cup {lu}, lu)
     IN  lu' = IF l > lu THEN lu ELSE l
  /\ GiveUp
  /\ UNCHANGED <<up, complete, record, clientid, li>>

\* MRQ: the client IDs came first; each task is recorded, then written.
BatchRequestServed(c) ==
  /\ Serving("MRQ")
  /\ GetAssignment
  /\ SetClientId(lu, c)
  /\ \/ NextMessage(<<lu>>)
     \/ GiveUp
  /\ UNCHANGED <<up, complete, record, li>>

\* req: the lowest incomplete tasks, whether another client has them or not.
MissedServed(n, c) ==
  /\ Serving("req")
  /\ GetMissedAssignment(n)
  /\ SetClientId(n, c)
  /\ NextMessage(<<n>>)
  /\ UNCHANGED <<up, complete, record, li>>

\* req: a write or the read fails; the task stays assigned as it was.
MissedFails(n) ==
  /\ Serving("req")
  /\ GetMissedAssignment(n)
  /\ GiveUp
  /\ UNCHANGED <<up, complete, record, clientid, li>>

-----------------------------------------------------------------------------
(* Results: the branch RET of read_message, one action for each way out. *)

\* The task has another client ID: ignored, the batch goes on.
ReturnForeign(n, c) ==
  /\ Serving("RET")
  /\ clientid[n] # c
  /\ NextMessage(<<>>)
  /\ UNCHANGED <<up, files, lu, li>>

\* A zero checksum: -1, so the rest of the batch is dropped as well.
ReturnZero(n, c, r) ==
  /\ Serving("RET")
  /\ clientid[n] = c
  /\ r.checksum = 0
  /\ GiveUp
  /\ UNCHANGED <<up, files, lu, li>>

\* An unknown checksum: the task is unassigned, its client ID stays.
ReturnSuspicious(n, c, r) ==
  /\ Serving("RET")
  /\ clientid[n] = c
  /\ r.checksum \notin KnownChecksum \cup {0}
  /\ UnsetAssignment(n)
  /\ NextMessage(<<>>)
  /\ UNCHANGED <<up, complete, record, clientid, li>>

\* set_complete refuses a task that is not assigned.
ReturnUnassigned(n, c, r) ==
  /\ Serving("RET")
  /\ clientid[n] = c
  /\ r.checksum \in KnownChecksum
  /\ n \notin assigned
  /\ NextMessage(<<>>)
  /\ UNCHANGED <<up, files, lu, li>>

\* The stores of an accepted result, in program order; s of them are made.
Stored(old, r, s) ==
  [checksum |-> IF s >= 1 THEN r.checksum ELSE old.checksum,
   usertime |-> IF s >= 2 THEN r.usertime ELSE old.usertime,
   overflow |-> IF s >= 3 THEN r.overflow ELSE old.overflow,
   mxoffset |-> IF s >= 4 THEN r.mxoffset ELSE old.mxoffset]

\* [mistake] the client ID is not compared
AcceptableFromAnyone(n, c, r) ==
  /\ Serving("RET")
  /\ r.checksum \in KnownChecksum
  /\ n \in assigned

AcceptableReturn(n, c, r) ==
  /\ Serving("RET")
  /\ clientid[n] = c
  /\ r.checksum \in KnownChecksum
  /\ n \in assigned

ReturnAccepted(n, c, r) ==
  /\ AcceptableReturn(n, c, r)
  /\ SetComplete(n)
  /\ record' = [record EXCEPT ![n] = Stored(@, r, 4)]
  /\ SetClientId(n, NoId)
  /\ NextMessage(<<>>)
  /\ UNCHANGED <<up, assigned, lu>>

-----------------------------------------------------------------------------
(* Revocations and queries: the branches INT, LOI and HIR. *)

InterruptForeign(n, c) ==
  /\ Serving("INT")
  /\ clientid[n] # c
  /\ NextMessage(<<>>)
  /\ UNCHANGED <<up, files, lu, li>>

\* [mistake] the client ID is not compared
InterruptFromAnyone(n, c) ==
  /\ Serving("INT")
  /\ UnsetAssignment(n)
  /\ SetClientId(n, NoId)
  /\ NextMessage(<<>>)
  /\ UNCHANGED <<up, complete, record, li>>

\* [mistake] an interrupted task is made incomplete as well
InterruptResets(n, c) ==
  /\ Serving("INT")
  /\ clientid[n] = c
  /\ UnsetAssignment(n)
  /\ complete' = complete \ {n}
  /\ li' = IF li > n THEN n ELSE li
  /\ SetClientId(n, NoId)
  /\ NextMessage(<<>>)
  /\ UNCHANGED <<up, record>>

InterruptAccepted(n, c) ==
  /\ Serving("INT")
  /\ clientid[n] = c
  /\ UnsetAssignment(n)
  /\ SetClientId(n, NoId)
  /\ NextMessage(<<>>)
  /\ UNCHANGED <<up, complete, record, li>>

QueryServed ==
  /\ \/ Serving("LOI") /\ NextMessage(<<li>>)
     \/ Serving("HIR") /\ NextMessage(<<lu>>)
  /\ UNCHANGED <<up, files, lu, li>>

-----------------------------------------------------------------------------
(* The accept loop of main. *)

Accept(kind, size) ==
  /\ up /\ conn = NoConn
  /\ conn' = [kind |-> kind, size |-> size, tid |-> 0, handed |-> <<>>]
  /\ UNCHANGED <<up, files, lu, li>>

\* A read or write fails, or times out after 10 s, where nothing is undone.
\* MRQ reads all client IDs before the first task; later it can fail like
\* this only where the bound NumTasks stops it.
Abort ==
  /\ up /\ conn.tid < conn.size
  /\ conn.kind = "MRQ" => conn.tid = 0 \/ lu = NumTasks
  /\ GiveUp
  /\ UNCHANGED <<up, files, lu, li>>

\* All messages of the batch are served: close(cl_fd).
Close ==
  /\ up /\ conn # NoConn /\ conn.tid = conn.size
  /\ GiveUp
  /\ UNCHANGED <<up, files, lu, li>>

-----------------------------------------------------------------------------
(* Death and start of the process. *)

ProcessEnds ==
  /\ up' = FALSE
  /\ lu' = 0
  /\ li' = 0
  /\ conn' = NoConn

\* Killed between two handlers, or told to quit by a signal.
Die ==
  /\ up
  /\ ProcessEnds
  /\ UNCHANGED files

\* [mistake] RET clears the client ID before it stores the record
DieInReturnCleared(n, c, r, s) ==
  /\ AcceptableReturn(n, c, r)
  /\ complete' = complete \cup {n}
  /\ record' = [record EXCEPT ![n] = Stored(@, r, s)]
  /\ SetClientId(n, NoId)
  /\ ProcessEnds
  /\ UNCHANGED assigned

\* Killed inside RET, after SET_COMPLETE and s of the record stores.
DieInReturn(n, c, r, s) ==
  /\ AcceptableReturn(n, c, r)
  /\ complete' = complete \cup {n}
  /\ record' = [record EXCEPT ![n] = Stored(@, r, s)]
  /\ ProcessEnds
  /\ UNCHANGED <<assigned, clientid>>

\* Killed inside INT, after SET_UNASSIGNED and before the ID is cleared.
DieInInterrupt(n, c) ==
  /\ Serving("INT")
  /\ clientid[n] = c
  /\ assigned' = assigned \ {n}
  /\ ProcessEnds
  /\ UNCHANGED <<complete, record, clientid>>

\* Killed inside REQ or MRQ, after SET_ASSIGNED and before the ID is recorded.
DieInRequest ==
  /\ Serving("REQ") \/ Serving("MRQ")
  /\ lu \in Task
  /\ assigned' = assigned \cup {lu}
  /\ ProcessEnds
  /\ UNCHANGED <<complete, record, clientid>>

\* The same inside req.
DieInMissed(n) ==
  /\ Serving("req")
  /\ IsMissed(n, conn.tid)
  /\ assigned' = assigned \cup {n}
  /\ ProcessEnds
  /\ UNCHANGED <<complete, record, clientid>>

\* The tasks that -i and -z reset; -m names its own in max-assignments.txt.
Overflown == {n \in Task : record[n].overflow # 0}
Outdated ==
  {n \in Task :
     \/ /\ record[n].checksum # 0
        /\ record[n].usertime = 0 \/ record[n].mxoffset = 0
     \/ record[n].usertime > 60 * 60}

\* -r sb resets the tasks without a checksum up to the end of superblock sb.
Unrecorded(sb) ==
  {n \in Task : n < (sb + 1) * SuperBlock /\ record[n].checksum = 0}

\* The tasks of S if the option is on
Given(on, S) == IF on THEN S ELSE {}

\* [mistake] complete tasks keep their client ID
LostHolderUnassigned(done, taken) == Task \ taken

\* -f: complete ==> zero clid, not assigned ==> no clid
LostHolder(done, taken) == done \cup (Task \ taken)

\* [mistake] the bits are cleared but the pointer stays
ClearedPointerStays(l, h) == h

\* -c: where lu ends up when it walks down from h to l
ClearedPointer(l, h) == IF h > l THEN l ELSE h

\* Start-up with the options opts, in the order of main: -m -i -z reset
\* tasks, -f repairs the tables, -r resets tasks, the pointers are computed,
\* and -c walks lu down to li and unassigns what is not complete.
Start(opts, listed, sb) ==
  LET reset == Given("m" \in opts, listed) \cup Given("i" \in opts, Overflown)
                 \cup Given("z" \in opts, Outdated)
      complete1 == complete \ reset
      assigned1 == (assigned \ reset) \cup Given("f" \in opts, complete1)
      lost == Given("f" \in opts, LostHolder(complete1, assigned1))
      reset2 == Given("r" \in opts, Unrecorded(sb))
      complete2 == complete1 \ reset2
      assigned2 == assigned1 \ reset2
      lu2 == Scan(assigned2, 0)
      li2 == Scan(complete2, 0)
      cleared == Given("c" \in opts, (li2 .. lu2 - 1) \ complete2)
  IN  /\ ~up
      /\ up' = TRUE
      /\ complete' = complete2
      /\ assigned' = assigned2 \ cleared
      /\ clientid' = [n \in Task |-> IF n \in lost THEN NoId ELSE clientid[n]]
      /\ lu' = IF "c" \in opts THEN ClearedPointer(li2, lu2) ELSE lu2
      /\ li' = li2
      /\ UNCHANGED <<record, conn>>

-----------------------------------------------------------------------------
Init ==
  /\ up = FALSE
  /\ assigned = {}
  /\ complete = {}
  /\ record = [n \in Task |-> NoRecord]
  /\ clientid = [n \in Task |-> NoId]
  /\ lu = 0
  /\ li = 0
  /\ conn = NoConn

Grant ==
  \/ \E c \in ClientId : RequestServed(c) \/ BatchRequestServed(c)
  \/ RequestWriteFails
  \/ RequestReadFails
  \/ \E n \in Task : MissedFails(n) \/ \E c \in ClientId : MissedServed(n, c)

\* All ways out of RET and INT that record no result.
ReportUnrecorded ==
  \E n \in Task, c \in ClientId :
    \/ ReturnForeign(n, c)
    \/ InterruptForeign(n, c)
    \/ InterruptAccepted(n, c)
    \/ \E r \in Result :
         \/ ReturnZero(n, c, r)
         \/ ReturnSuspicious(n, c, r)
         \/ ReturnUnassigned(n, c, r)

Report ==
  \/ ReportUnrecorded
  \/ \E n \in Task, c \in ClientId, r \in Result : ReturnAccepted(n, c, r)

Loop ==
  \/ \E k \in GrantKind \cup ReportKind, s \in 1 .. MaxThreads : Accept(k, s)
  \/ \E k \in QueryKind : Accept(k, 1)
  \/ QueryServed
  \/ Abort
  \/ Close

\* Killed, but not between the stores of a result.
DeathElsewhere ==
  \/ Die
  \/ DieInRequest
  \/ \E n \in Task : DieInMissed(n) \/ \E c \in ClientId : DieInInterrupt(n, c)

Death ==
  \/ DeathElsewhere
  \/ \E n \in Task, c \in ClientId, r \in Result, s \in 0 .. 4 : DieInReturn(n, c, r, s)

Restart ==
  \E opts \in Options, listed \in SUBSET Task, sb \in 0 .. NumTasks - 1 :
    /\ "m" \notin opts => listed = {}
    /\ IF "r" \in opts THEN (sb + 1) * SuperBlock <= NumTasks ELSE sb = 0
    /\ Start(opts, listed, sb)

Next == Grant \/ Report \/ Loop \/ Death \/ Restart

Spec == Init /\ [][Next]_vars

-----------------------------------------------------------------------------
(* Properties. *)

TypeOK ==
  /\ up \in BOOLEAN
  /\ assigned \subseteq Task
  /\ complete \subseteq Task
  /\ record \in [Task -> Record]
  /\ clientid \in [Task -> ClientId \cup {NoId}]
  /\ lu \in 0 .. NumTasks
  /\ li \in 0 .. NumTasks
  /\ conn \in Conn

\* While the server runs, the two cached pointers are what a scan of the
\* bitmaps from 0 would find: the handlers keep them so with local updates.
\* For li this is the server's claim "all numbers below are convergent".
PointersExact ==
  up => lu = Scan(assigned, 0) /\ li = Scan(complete, 0)

\* A multi-threaded `req' batch hands out exactly the lowest incomplete
\* tasks, each to one thread: get_missed_assignment starts from li for every
\* thread, and no task completes while the batch is served.
MissedBatchIsLowest ==
  conn.kind = "req" =>
    /\ \A i, j \in 1 .. Len(conn.handed) :
         i < j => conn.handed[i] < conn.handed[j]
    /\ \A i \in 1 .. Len(conn.handed) : \A m \in 0 .. conn.handed[i] :
         m \in complete <=> \A j \in 1 .. i : conn.handed[j] # m

\* While the server runs, a task never stops being complete, whatever is
\* interrupted or rejected, and the published frontier never moves back.
FrontierNeverRetreats ==
  [][up /\ up' => complete \subseteq complete' /\ li <= li']_vars

-----------------------------------------------------------------------------
(* Two claims of the repository that the code does not keep. *)

\* HIR is called "Query Highest Requested" (doc/PROTOCOL.md) but replies
\* lu, the lowest task that is not assigned: after an INT or a rejected
\* result, tasks above it are requested too.
HighestRequested ==
  conn.kind = "HIR" /\ conn.handed # <<>> =>
    \A n \in assigned : n < conn.handed[1]

\* At the end of -c the server logs "incomplete assignments have been
\* cleared!", but the walk only clears those between li and lu.
AllIncompleteCleared == [][~up /\ up' => assigned' \subseteq complete']_vars

=============================================================================
