---------------------------- MODULE ResidueServer ----------------------------
(***************************************************************************)
(* The server of the residue sieve (src/rs-server/rs-server.c).            *)
(*                                                                         *)
(* It hands out the 2^12 parts of one computation (TARGET 40, DELTA 28).   *)
(* It differs from the convergence server in three ways.  Tasks have no    *)
(* owners: RET and INT are believed whoever sends them.  The table is used *)
(* up in the end, and then requests are answered with an empty assignment. *)
(* And the bitmap of 512 bytes is mapped into a page of 4096, so a bit set *)
(* past its end does no visible harm: it is a bit of the same page, which  *)
(* may or may not be there again for the next process.                     *)
(***************************************************************************)
EXTENDS Integers, Sequences, FiniteSets

CONSTANTS
  NumTasks,   \* ASSIGNMENTS_NO
  MaxThreads, \* Bound: messages in one MUL or MRQ batch
  Result,     \* the results a RET message may carry
  Options     \* the sets of command line options the server is started with

Task == 0 .. NumTasks - 1
Empty == NumTasks                    \* the reply 0, 0, 0
LastBit == NumTasks + MaxThreads     \* no bit from here on is ever set
PastTheEnd == NumTasks .. LastBit - 1

Record == [sum: Nat, over: Nat]
NoRecord == [sum |-> 0, over |-> 0]
Option == {"c", "f", "i"}

ASSUME NumTasksAssumption == NumTasks \in Nat \ {0}
ASSUME MaxThreadsAssumption == MaxThreads \in Nat \ {0}
ASSUME ResultAssumption == Result \subseteq Record
ASSUME OptionsAssumption == Options \subseteq SUBSET Option

VARIABLES
  up,        \* is the process running?
  opts,      \* the options it was started with
  assigned,  \* g_map_assigned, with the bits of its page past the end
  complete,  \* g_map_complete
  record,    \* g_checksums and g_overflows
  lu,        \* g_lowest_unassigned
  li,        \* g_lowest_incomplete
  conn       \* the connection being served

vars == <<up, opts, assigned, complete, record, lu, li, conn>>

-----------------------------------------------------------------------------
RequestKind == {"REQ", "MRQ", "req"}
ReportKind == {"RET", "INT"}
QueryKind == {"LOI", "HIR", "PNG"}

Conn == [kind: RequestKind \cup ReportKind \cup QueryKind \cup {"none"},
         size: 0 .. MaxThreads, tid: 0 .. MaxThreads, handed: Seq(0 .. NumTasks)]
NoConn == [kind |-> "none", size |-> 0, tid |-> 0, handed |-> <<>>]

Serving(kinds) == up /\ conn.kind \in kinds /\ conn.tid < conn.size

\* The handler returns 0, with `reply' written.
NextMessage(reply) ==
  conn' = [conn EXCEPT !.tid = @ + 1, !.handed = @ \o reply]

\* The handler returns -1: the rest of the batch is not read.
GiveUp == conn' = NoConn

-----------------------------------------------------------------------------
(* The task table. *)

\* for (; p < ASSIGNMENTS_NO && IS_SET(p); ++p) from k
Scan(S, k) ==
  CHOOSE n \in k .. NumTasks :
    /\ n = NumTasks \/ n \notin S
    /\ \A m \in k .. n - 1 : m \in S

\* for (; IS_SET(p); ++p) from k, which may run past the end of the map
OpenScan(S, k) ==
  CHOOSE n \in k .. LastBit : n \notin S /\ \A m \in k .. n - 1 : m \in S

\* set_complete, when it returns 0
SetComplete(n) ==
  /\ complete' = complete \cup {n}
  /\ li' = IF n = li THEN Scan(complete', li) ELSE li

\* [mistake] when all tasks are given out, start again with the unfinished
GetAssignmentAgain ==
  IF lu = NumTasks
  THEN lu' = li /\ UNCHANGED assigned
  ELSE /\ assigned' = assigned \cup {lu}
       /\ lu' = Scan(assigned', lu)

\* get_assignment: the task handed out is lu, or none is left
GetAssignment ==
  IF lu = NumTasks
  THEN UNCHANGED <<assigned, lu>>
  ELSE /\ assigned' = assigned \cup {lu}
       /\ lu' = Scan(assigned', lu)

\* [mistake] g_lowest_unassigned is not moved back
UnsetAssignmentOnly(n) ==
  /\ assigned' = assigned \ {n}
  /\ UNCHANGED lu

\* unset_assignment
UnsetAssignment(n) ==
  /\ assigned' = assigned \ {n}
  /\ lu' = IF lu > n THEN n ELSE lu

\* [mistake] complete tasks are not skipped between two threads
IsMissedAdjacent(n, t) == n = li + t

\* The walk of get_missed_assignment ends at n for thread t: t numbers from
\* li on, below n, are not complete tasks.  Numbers past the table are not.
IsMissed(n, t) ==
  /\ n >= li /\ n \notin complete
  /\ Cardinality((li .. n - 1) \ complete) = t

\* [mistake] the end of the table is not looked at
GetMissedUnchecked(n) ==
  /\ IsMissed(n, conn.tid)
  /\ assigned' = assigned \cup {n}
  /\ lu' = IF n = lu THEN OpenScan(assigned', lu) ELSE lu

\* get_missed_assignment: only n = ASSIGNMENTS_NO is caught, not what is
\* above, so a thread may set a bit past the end.
GetMissedAssignment(n) ==
  /\ IsMissed(n, conn.tid)
  /\ IF n = NumTasks
     THEN UNCHANGED <<assigned, lu>>
     ELSE /\ assigned' = assigned \cup {n}
          /\ lu' = IF n = lu THEN OpenScan(assigned', lu) ELSE lu

\* if (task_id >= ASSIGNMENTS_NO) the empty assignment is served
Reply(n) == IF n >= NumTasks THEN Empty ELSE n

-----------------------------------------------------------------------------
(* read_message, one action for each way through a branch. *)

RequestServed ==
  /\ Serving({"REQ", "MRQ"})
  /\ GetAssignment
  /\ NextMessage(<<Reply(lu)>>)
  /\ UNCHANGED <<up, opts, complete, record, li>>

\* A write fails; the task stays assigned and nobody has it.
RequestFails ==
  /\ Serving({"REQ", "MRQ"})
  /\ GetAssignment
  /\ GiveUp
  /\ UNCHANGED <<up, opts, complete, record, li>>

MissedServed(n) ==
  /\ Serving({"req"})
  /\ GetMissedAssignment(n)
  /\ NextMessage(<<Reply(n)>>)
  /\ UNCHANGED <<up, opts, complete, record, li>>

MissedFails(n) ==
  /\ Serving({"req"})
  /\ GetMissedAssignment(n)
  /\ GiveUp
  /\ UNCHANGED <<up, opts, complete, record, li>>

\* A zero checksum, or the triple 0, 0, 0 of an empty assignment.
ReturnRefused(n, r) ==
  /\ Serving({"RET"})
  /\ r.sum = 0 \/ n = Empty
  /\ GiveUp
  /\ UNCHANGED <<up, opts, assigned, complete, record, lu, li>>

\* set_complete refuses a task that is not assigned; the batch goes on.
ReturnUnassigned(n, r) ==
  /\ Serving({"RET"})
  /\ r.sum # 0 /\ n \in Task \ assigned
  /\ NextMessage(<<>>)
  /\ UNCHANGED <<up, opts, assigned, complete, record, lu, li>>

\* A result for a task that is complete replaces the one that was there.
ReturnAccepted(n, r) ==
  /\ Serving({"RET"})
  /\ r.sum # 0 /\ n \in Task \cap assigned
  /\ SetComplete(n)
  /\ record' = [record EXCEPT ![n] = r]
  /\ NextMessage(<<>>)
  /\ UNCHANGED <<up, opts, assigned, lu>>

\* The empty assignment has the wrong target: the batch ends.
InterruptRefused(n) ==
  /\ Serving({"INT"})
  /\ n = Empty
  /\ GiveUp
  /\ UNCHANGED <<up, opts, assigned, complete, record, lu, li>>

\* [mistake] an interrupted task is made incomplete as well
InterruptResets(n) ==
  /\ Serving({"INT"})
  /\ n \in Task
  /\ UnsetAssignment(n)
  /\ complete' = complete \ {n}
  /\ li' = IF li > n THEN n ELSE li
  /\ NextMessage(<<>>)
  /\ UNCHANGED <<up, opts, record>>

\* A task that is complete is warned about and made unassigned all the same.
InterruptAccepted(n) ==
  /\ Serving({"INT"})
  /\ n \in Task
  /\ UnsetAssignment(n)
  /\ NextMessage(<<>>)
  /\ UNCHANGED <<up, opts, complete, record, li>>

QueryServed ==
  /\ Serving(QueryKind)
  /\ NextMessage(IF conn.kind = "LOI" THEN <<li>>
                 ELSE IF conn.kind = "HIR" THEN <<lu>> ELSE <<0>>)
  /\ UNCHANGED <<up, opts, assigned, complete, record, lu, li>>

-----------------------------------------------------------------------------
(* main: the accept loop, the end of the process and its start. *)

Accept(kind, size) ==
  /\ up /\ conn = NoConn
  /\ conn' = [kind |-> kind, size |-> size, tid |-> 0, handed |-> <<>>]
  /\ UNCHANGED <<up, opts, assigned, complete, record, lu, li>>

\* A read fails or times out after 10 s.  MRQ reads nothing between tasks.
Abort ==
  /\ up /\ conn.tid < conn.size
  /\ conn.kind = "MRQ" => conn.tid = 0
  /\ GiveUp
  /\ UNCHANGED <<up, opts, assigned, complete, record, lu, li>>

Close ==
  /\ up /\ conn # NoConn /\ conn.tid = conn.size
  /\ GiveUp
  /\ UNCHANGED <<up, opts, assigned, complete, record, lu, li>>

\* Bits past the end of a mapped file may be lost with the process.
ProcessEnds ==
  /\ up' = FALSE /\ opts' = {}
  /\ \E lost \in SUBSET (PastTheEnd \cap assigned) : assigned' = assigned \ lost
  /\ lu' = 0 /\ li' = 0
  /\ conn' = NoConn

Die ==
  /\ up
  /\ ProcessEnds
  /\ UNCHANGED <<complete, record>>

\* Killed in RET between the complete bit and the last of its stores.
DieInReturn(n, r, sumStored) ==
  /\ Serving({"RET"})
  /\ r.sum # 0 /\ n \in Task \cap assigned
  /\ complete' = complete \cup {n}
  /\ record' = IF sumStored THEN [record EXCEPT ![n].sum = r.sum] ELSE record
  /\ ProcessEnds

\* [mistake] -f does not give complete tasks their assigned bit back
FixedWithoutBits(o, a, c) ==
  IF "f" \in o THEN <<a, {n \in c : record[n].sum # 0}>> ELSE <<a, c>>

\* -f: complete tasks become assigned, those without checksum incomplete.
Fixed(o, a, c) ==
  IF "f" \in o THEN <<a \cup c, {n \in c : record[n].sum # 0}>> ELSE <<a, c>>

\* -i: tasks with overflows are neither assigned nor complete.
Overflown(o) == IF "i" \in o THEN {n \in Task : record[n].over # 0} ELSE {}

\* main up to listen(): -i, -f, the two scans, -c
Start(o) ==
  LET fixed == Fixed(o, assigned \ Overflown(o), complete \ Overflown(o))
      first == Scan(fixed[1], 0)
      frontier == Scan(fixed[2], 0)
      clears == "c" \in o /\ first > frontier
  IN  /\ ~up /\ up' = TRUE
      /\ opts' = o
      /\ assigned' = IF clears
                     THEN fixed[1] \ ((frontier .. first - 1) \ fixed[2])
                     ELSE fixed[1]
      /\ complete' = fixed[2]
      /\ lu' = IF clears THEN frontier ELSE first
      /\ li' = frontier
      /\ UNCHANGED <<record, conn>>

-----------------------------------------------------------------------------
Init ==
  /\ up = FALSE /\ opts = {}
  /\ assigned = {} /\ complete = {}
  /\ record = [n \in Task |-> NoRecord]
  /\ lu = 0 /\ li = 0
  /\ conn = NoConn

Request ==
  \/ RequestServed \/ RequestFails
  \/ \E n \in 0 .. LastBit : MissedServed(n) \/ MissedFails(n)

Report ==
  \E n \in 0 .. NumTasks :
    \/ InterruptRefused(n) \/ InterruptAccepted(n)
    \/ \E r \in Result :
         \/ ReturnRefused(n, r) \/ ReturnUnassigned(n, r) \/ ReturnAccepted(n, r)
         \/ \E s \in BOOLEAN : DieInReturn(n, r, s)

Loop ==
  \/ \E k \in RequestKind \cup ReportKind, s \in 1 .. MaxThreads : Accept(k, s)
  \/ \E k \in QueryKind : Accept(k, 1)
  \/ QueryServed \/ Abort \/ Close \/ Die
  \/ \E o \in Options : Start(o)

Next == Request \/ Report \/ Loop

Spec == Init /\ [][Next]_vars

-----------------------------------------------------------------------------
(* Properties. *)

TypeOK ==
  /\ up \in BOOLEAN /\ opts \in SUBSET Option
  /\ assigned \subseteq 0 .. LastBit - 1
  /\ complete \subseteq Task
  /\ record \in [Task -> Record]
  /\ lu \in 0 .. NumTasks /\ li \in 0 .. NumTasks
  /\ conn \in Conn

\* The pointers are what a scan from 0 would find, although threads of a
\* `req' batch set bits past the end of the map and the scan of
\* get_missed_assignment does not look for the end: it stops at the bit just
\* behind the table, the only one there that is never set.
PointersExact ==
  /\ up => lu = Scan(assigned, 0) /\ li = Scan(complete, 0)
  /\ NumTasks \notin assigned

\* In a batch, an empty assignment is followed by empty ones only, so that a
\* client that revokes its batch in order, up to the empty one at which the
\* server gives up, revokes every task it has.
EmptyComesLast ==
  \A i, j \in DOMAIN conn.handed :
    conn.kind \in RequestKind /\ i < j /\ conn.handed[i] = Empty =>
      conn.handed[j] = Empty

\* A `req' batch hands out the lowest incomplete tasks, one to each thread,
\* and serves empty assignments only when there are no more.
MissedBatchIsLowest ==
  conn.kind = "req" =>
    LET handed == {conn.handed[i] : i \in DOMAIN conn.handed} \ {Empty}
    IN  /\ handed \cap complete = {}
        /\ \A n \in Task \ complete :
             n \notin handed =>
               /\ \A m \in handed : m < n
               /\ \A i \in DOMAIN conn.handed : conn.handed[i] # Empty
        /\ \A i, j \in DOMAIN conn.handed :
             i # j => conn.handed[i] # conn.handed[j] \/ conn.handed[i] = Empty

\* Started with -f and -c the server continues where it stopped: the lowest
\* incomplete task is free, whatever bits were left by interrupted complete
\* tasks, by a kill inside RET or by requests that nobody answered.
ClearedAfterFix ==
  [][up' /\ {"f", "c"} \subseteq opts' /\ ~up =>
       /\ lu' = li'
       /\ \A n \in complete' : n \in assigned' /\ record'[n].sum # 0]_vars

\* While the server runs nothing that is complete is taken back, not even by
\* the interrupts of complete tasks, and the claim "all assignments below
\* are convergent" about the frontier stays true.
FrontierNeverRetreats ==
  [][up /\ up' => complete \subseteq complete' /\ li <= li']_vars
=============================================================================
