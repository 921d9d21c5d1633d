---------------------------- MODULE ResidueSystem ----------------------------
(***************************************************************************)
(* The residue server together with its clients (src/rs-client).           *)
(*                                                                         *)
(* The loop of the client is that of module System, but there are no       *)
(* client IDs to tell a late or repeated message from a fresh one, and a   *)
(* client may hold empty assignments: it does not run or return them, but  *)
(* it revokes them.  `calm' is a history variable: nothing was lost and    *)
(* nobody died so far.                                                     *)
(***************************************************************************)
EXTENDS ResidueServer

CONSTANTS
  Client,     \* the client processes
  nobody,     \* stands for a client that is gone or does not wait
  Threads,    \* the number of worker threads of each client
  Truth,      \* what the worker computes for each task
  MaxQueue    \* Bound: connections waiting in the listen backlog

ASSUME ResidueSystemAssumption ==
  /\ nobody \notin Client
  /\ Threads \in [Client -> 1 .. MaxThreads]
  /\ Truth \in [Task -> Result] /\ \A n \in Task : Truth[n].sum # 0
  /\ MaxQueue \in Nat \ {0}

VARIABLES
  mode,      \* REQ, MRQ (option -B) or req (-l), for each client
  phase,     \* where each client is in the loop of main
  work,      \* its array task_id
  queue,     \* the connections the server has not accepted yet
  cur,       \* the client's end of the connection being served
  computed,  \* history: the tasks that some worker has finished
  calm       \* history: no crash, no failed connection so far

sysVars == <<vars, mode, phase, work, queue, cur, computed, calm>>

Phase == {"idle", "asking", "running", "returning", "revoking", "stopped"}

Message == [task: Task \cup {Empty}, result: Result \cup {NoRecord}]
NoMessage == [task |-> Empty, result |-> NoRecord]
Link == [cl: Client \cup {nobody}, kind: RequestKind \cup ReportKind,
         size: 1 .. MaxThreads, msgs: Seq(Message)]
NoLink == [cl |-> nobody, kind |-> "none", size |-> 0, msgs |-> <<>>]

Connect(link) ==
  /\ up /\ Len(queue) < MaxQueue
  /\ queue' = Append(queue, link)

\* p no longer waits on a connection.  Of a MUL batch of requests the server
\* then has the first `sent' ones, as each waits for the reply to the last.
Orphan(link, sent, p) ==
  IF link.cl # p THEN link
  ELSE [link EXCEPT !.cl = nobody,
                    !.msgs = IF link.kind = "MRQ" \/ Len(@) < sent THEN @
                             ELSE SubSeq(@, 1, sent)]
Forsake(p) ==
  /\ queue' = [i \in DOMAIN queue |-> Orphan(queue[i], 1, p)]
  /\ cur' = Orphan(cur, conn.tid + 1, p)

Fault == calm' = FALSE

-----------------------------------------------------------------------------
(* The client. *)

\* open_socket_and_request_multiple_assignments_wrapper
Ask(p) ==
  /\ phase[p] = "idle"
  /\ Connect([cl |-> p, kind |-> mode[p], size |-> Threads[p],
              msgs |-> [t \in 1 .. Threads[p] |-> NoMessage]])
  /\ phase' = [phase EXCEPT ![p] = "asking"]
  /\ UNCHANGED <<vars, mode, work, cur, computed, calm>>

\* The connection breaks under the client, which will retry.
AskFails(p) ==
  /\ phase[p] = "asking"
  /\ Forsake(p)
  /\ phase' = [phase EXCEPT ![p] = "idle"]
  /\ Fault
  /\ UNCHANGED <<vars, mode, work, computed>>

\* run_assignments_in_parallel: every worker succeeds; an empty assignment
\* sleeps and counts as a success.
RunSucceeds(p) ==
  /\ phase[p] = "running"
  /\ computed' = computed \cup ({work[p][t] : t \in 1 .. Threads[p]} \ {Empty})
  /\ phase' = [phase EXCEPT ![p] = "returning"]
  /\ UNCHANGED <<vars, mode, work, queue, cur, calm>>

\* A worker that has a task fails: the whole batch will be revoked.
RunFails(p) ==
  /\ phase[p] = "running"
  /\ \E t \in 1 .. Threads[p] : work[p][t] # Empty
  /\ phase' = [phase EXCEPT ![p] = "revoking"]
  /\ UNCHANGED <<vars, mode, work, queue, cur, computed, calm>>

\* The threads of p, from 1 to k, that have something to return, in order.
Nonempty(p, k) ==
  LET S == {t \in 1 .. k : work[p][t] # Empty}
  IN  [i \in 1 .. Cardinality(S) |->
         CHOOSE t \in S : Cardinality({u \in S : u < t}) = i - 1]

\* [mistake] the results are indexed by message, the tasks by thread
ReturnsByMessage(p, k) ==
  LET ts == Nonempty(p, k)
  IN  [i \in DOMAIN ts |->
         [task |-> work[p][ts[i]],
          result |-> IF i < Len(ts) THEN Truth[work[p][ts[i + 1]]]
                     ELSE Truth[work[p][ts[i]]]]]

\* return_assignment: an empty assignment is "nothing to return".
Returns(p, k) ==
  LET ts == Nonempty(p, k)
  IN  [i \in DOMAIN ts |-> [task |-> work[p][ts[i]], result |-> Truth[work[p][ts[i]]]]]

\* [mistake] the last thread, whose worker was still at work, is forgotten
RevocationsButLast(p, k) ==
  [t \in 1 .. (IF k > 1 THEN k - 1 ELSE k) |->
     [task |-> work[p][t], result |-> NoRecord]]

\* revoke_assignment: of all threads, in order.
Revocations(p, k) == [t \in 1 .. k |-> [task |-> work[p][t], result |-> NoRecord]]

\* open_socket_and_return/revoke_multiple_assignments, up to thread k.  The
\* number announced is that of the threads.
Batch(p, k) ==
  [cl |-> nobody, size |-> Threads[p],
   kind |-> IF phase[p] = "returning" THEN "RET" ELSE "INT",
   msgs |-> IF phase[p] = "returning" THEN Returns(p, k) ELSE Revocations(p, k)]

ReportSent(p) ==
  /\ phase[p] \in {"returning", "revoking"}
  /\ Connect(Batch(p, Threads[p]))
  /\ phase' = [phase EXCEPT ![p] = "idle"]
  /\ work' = [work EXCEPT ![p] = <<>>]
  /\ UNCHANGED <<vars, mode, cur, computed, calm>>

\* It fails after k threads, and is retried from the first one.
ReportFails(p, k) ==
  /\ phase[p] \in {"returning", "revoking"}
  /\ Connect(Batch(p, k))
  /\ Fault
  /\ UNCHANGED <<vars, mode, phase, work, cur, computed>>

\* The process ends in the middle of something.
ClientStops(p) ==
  /\ phase[p] # "stopped"
  /\ Forsake(p)
  /\ phase' = [phase EXCEPT ![p] = "stopped"]
  /\ work' = [work EXCEPT ![p] = <<>>]
  /\ Fault
  /\ UNCHANGED <<vars, mode, computed>>

ClientStarts(p) ==
  /\ phase[p] = "stopped"
  /\ phase' = [phase EXCEPT ![p] = "idle"]
  /\ UNCHANGED <<vars, mode, work, queue, cur, computed, calm>>

-----------------------------------------------------------------------------
(* The server, fed by the connections. *)

AcceptNext ==
  /\ queue # <<>>
  /\ Accept(Head(queue).kind, Head(queue).size)
  /\ cur' = Head(queue)
  /\ queue' = Tail(queue)
  /\ UNCHANGED <<mode, phase, work, computed, calm>>

\* When the server gives up, the client that waits reads end of file.
Notify ==
  IF conn' = NoConn
  THEN /\ cur' = NoLink
       /\ phase' = [p \in Client |-> IF p = cur.cl THEN "idle" ELSE phase[p]]
  ELSE UNCHANGED <<cur, phase>>

NextMsg == cur.msgs[conn.tid + 1]

Handled(m) ==
  \/ RequestServed
  \/ \E n \in 0 .. LastBit : MissedServed(n)
  \/ ReturnRefused(m.task, m.result)
  \/ ReturnUnassigned(m.task, m.result)
  \/ ReturnAccepted(m.task, m.result)
  \/ InterruptRefused(m.task) \/ InterruptAccepted(m.task)

Serve ==
  /\ conn.tid < Len(cur.msgs)
  /\ Handled(NextMsg)
  /\ Notify
  /\ UNCHANGED <<mode, work, queue, computed, calm>>

\* A reply cannot be written.
ReplyFails ==
  /\ conn.tid < Len(cur.msgs)
  /\ RequestFails \/ \E n \in 0 .. LastBit : MissedFails(n)
  /\ Notify
  /\ Fault
  /\ UNCHANGED <<mode, work, queue, computed>>

\* The batch was shorter than announced: the server reads end of file.
EndOfBatch ==
  /\ conn.tid = Len(cur.msgs)
  /\ Abort
  /\ Notify
  /\ UNCHANGED <<mode, work, queue, computed, calm>>

ConnectionFails ==
  /\ conn.tid < Len(cur.msgs)
  /\ Abort
  /\ Notify
  /\ Fault
  /\ UNCHANGED <<mode, work, queue, computed>>

CloseAndDeliver ==
  /\ Close
  /\ cur' = NoLink
  /\ IF cur.cl # nobody
     THEN /\ work' = [work EXCEPT ![cur.cl] = conn.handed]
          /\ phase' = [phase EXCEPT ![cur.cl] = "running"]
     ELSE UNCHANGED <<work, phase>>
  /\ UNCHANGED <<mode, queue, computed, calm>>

ServerDies ==
  /\ \/ Die
     \/ /\ conn.tid < Len(cur.msgs)
        /\ \E s \in BOOLEAN : DieInReturn(NextMsg.task, NextMsg.result, s)
  /\ queue' = <<>>
  /\ cur' = NoLink
  /\ phase' = [p \in Client |-> IF phase[p] = "asking" THEN "idle" ELSE phase[p]]
  /\ Fault
  /\ UNCHANGED <<mode, work, computed>>

ServerStarts ==
  /\ \E o \in Options : Start(o)
  /\ UNCHANGED <<mode, phase, work, queue, cur, computed, calm>>

-----------------------------------------------------------------------------
SysInit ==
  /\ Init
  /\ mode \in [Client -> RequestKind]
  /\ phase = [p \in Client |-> "idle"]
  /\ work = [p \in Client |-> <<>>]
  /\ queue = <<>> /\ cur = NoLink
  /\ computed = {} /\ calm = TRUE

ClientStep(p) ==
  \/ Ask(p) \/ AskFails(p) \/ RunSucceeds(p) \/ RunFails(p) \/ ReportSent(p)
  \/ \E k \in 1 .. Threads[p] - 1 : ReportFails(p, k)
  \/ ClientStops(p) \/ ClientStarts(p)

ServerStep ==
  \/ AcceptNext \/ Serve \/ ReplyFails \/ EndOfBatch \/ ConnectionFails
  \/ CloseAndDeliver \/ ServerDies \/ ServerStarts

SysNext == ServerStep \/ \E p \in Client : ClientStep(p)

SysSpec == SysInit /\ [][SysNext]_sysVars

-----------------------------------------------------------------------------
(* Properties. *)

SysTypeOK ==
  /\ TypeOK
  /\ mode \in [Client -> RequestKind]
  /\ phase \in [Client -> Phase]
  /\ \A p \in Client : phase[p] \in {"running", "returning", "revoking"} =>
       work[p] \in [1 .. Threads[p] -> 0 .. NumTasks]
  /\ queue \in Seq(Link) /\ Len(queue) <= MaxQueue
  /\ cur \in Link \cup {NoLink}
  /\ computed \subseteq Task /\ calm \in BOOLEAN

\* What the server has recorded for a task is what a worker computed for that
\* task, and nothing else is ever complete, although results come from
\* anyone, any number of times, in batches with holes.
RecordedWasComputed ==
  /\ complete \subseteq computed
  /\ \A n \in Task : record[n].sum # 0 =>
       n \in computed /\ record[n].sum = Truth[n].sum

\* The tasks that client p has, or that are on their way to or from it.
Carried(link) == {link.msgs[i].task : i \in DOMAIN link.msgs}
OnTheWay ==
  (UNION {Carried(queue[i]) : i \in DOMAIN queue})
    \cup {cur.msgs[i].task : i \in {j \in DOMAIN cur.msgs : j > conn.tid}}
    \cup {conn.handed[i] : i \in DOMAIN conn.handed}
Held(p) == {work[p][t] : t \in DOMAIN work[p]}

\* As long as nothing is lost and nobody dies, no task is forgotten: one that
\* is assigned and not complete is with a client or on its way.  A batch that
\* the server drops half way, as it does at the revocation of an empty
\* assignment, has no task in the part that is dropped.
NothingStranded ==
  calm => \A n \in (Task \cap assigned) \ complete :
            n \in OnTheWay \/ \E p \in Client : n \in Held(p)

\* As long as nothing is lost and nobody dies, two workers run the same task
\* only if a client asked for missed tasks: without client IDs this rests on
\* each revocation being sent once and read before the next request.
ExclusiveWhenCalm ==
  calm /\ (\A p \in Client : mode[p] # "req") =>
    \A p, q \in Client : \A t \in DOMAIN work[p], u \in DOMAIN work[q] :
      work[p][t] = work[q][u] /\ work[p][t] # Empty => p = q /\ t = u

-----------------------------------------------------------------------------
(* Liveness.  The server goes on, and a worker does not fail each time for *)
(* ever.                                                                   *)

Fairness ==
  /\ WF_sysVars(AcceptNext \/ Serve \/ EndOfBatch \/ CloseAndDeliver \/ ServerStarts)
  /\ \A p \in Client :
       /\ SF_sysVars(Ask(p)) /\ SF_sysVars(ReportSent(p))
       /\ \A n \in Task : SF_sysVars(RunSucceeds(p) /\ n \in Held(p))

\* The behaviours without faults.
CalmSpec == SysInit /\ [][SysNext /\ calm']_sysVars /\ Fairness

\* Without faults and without `req' clients every task is completed, although
\* each revocation may take a batch apart and scatter it over other clients.
\* With `req' clients it need not be: one that fails again and again frees
\* the task that another runs, whose result is then refused.
AllCompleted == (\A p \in Client : mode[p] # "req") => <>(complete = Task)
=============================================================================
