------------------------------- MODULE System -------------------------------
(***************************************************************************)
(* The server together with its clients (src/mclient/mclient.c).           *)
(*                                                                         *)
(* A client process runs one worker per thread.  It asks for as many tasks *)
(* as it has threads, runs the workers, and returns all results, or        *)
(* revokes all tasks as soon as one worker failed.  Every exchange is a    *)
(* TCP connection of its own.  Results and revocations are not answered:   *)
(* the client is done when its writes succeed, the server reads them       *)
(* later, in the order in which the connections were made, or never.       *)
(***************************************************************************)
EXTENDS Server

CONSTANTS
  Client,    \* the client processes
  nobody,    \* stands for a client that is gone or does not wait
  Mode,      \* how each client asks: "REQ", "MRQ" (option -B) or "req" (-l)
  Threads,   \* the number of worker threads of each client
  Outcome,   \* the results the worker of each client may print
  Unlucky,   \* the clients that could not read /dev/urandom
  MaxLives,  \* Bound: how often a client process is started
  MaxQueue   \* Bound: connections waiting in the listen backlog

ASSUME SystemAssumption ==
  /\ nobody \notin Client
  /\ Mode \in [Client -> GrantKind]
  /\ Threads \in [Client -> 1 .. MaxThreads]
  /\ Outcome \in [Client -> SUBSET Result]
  /\ Unlucky \subseteq Client
  /\ MaxLives \in Nat \ {0} /\ MaxQueue \in Nat \ {0}

\* The client ID of thread t in the l-th process of client p.
Id(p, l, t) == IF p \in Unlucky THEN NoId ELSE <<p, l, t>>

\* IDs that were drawn are not 0.
ASSUME IdsAssumption ==
  \A p \in Client, l \in 1 .. MaxLives, t \in 1 .. MaxThreads :
    /\ Id(p, l, t) \in ClientId
    /\ p \notin Unlucky => Id(p, l, t) # NoId

VARIABLES
  phase,     \* where each client is in the loop of main
  life,      \* which process of the client this is
  work,      \* the array task_id of each client
  outcome,   \* the results its workers printed
  queue,     \* the connections the server has not accepted yet
  cur,       \* the client's end of the connection being served
  verified,  \* history: the tasks that some worker has completed
  unheard    \* history: the clients that were given their last task by a
             \* server that did not record the client ID for it

clients == <<phase, life, work, outcome>>
sysVars == <<vars, clients, queue, cur, verified, unheard>>

Phase == {"idle", "asking", "running", "returning", "revoking", "stopped"}

\* A message carries the ID of a thread and, in a report, task and result.
Message == [id: ClientId, task: Task \cup {NumTasks}, result: Result \cup {NoRecord}]
Link == [cl: Client \cup {nobody}, kind: GrantKind \cup ReportKind,
         size: 1 .. MaxThreads, msgs: Seq(Message)]
NoLink == [cl |-> nobody, kind |-> "none", size |-> 0, msgs |-> <<>>]

Connect(link) ==
  /\ up /\ Len(queue) < MaxQueue
  /\ queue' = Append(queue, link)

\* p no longer waits on a connection, which the server may still serve.  Of
\* a MUL batch the server has at most the first `sent' requests then, as the
\* client reads the reply to one before it writes the next.
Orphan(link, sent, p) ==
  IF link.cl # p THEN link
  ELSE [link EXCEPT !.cl = nobody,
                    !.msgs = IF link.kind = "MRQ" \/ Len(@) < sent THEN @
                             ELSE SubSeq(@, 1, sent)]
Forsake(p) ==
  /\ queue' = [i \in DOMAIN queue |-> Orphan(queue[i], 1, p)]
  /\ cur' = Orphan(cur, conn.tid + 1, p)

-----------------------------------------------------------------------------
(* The client. *)

\* open_socket_and_request_multiple_assignments_wrapper: the request is sent.
Ask(p) ==
  /\ phase[p] = "idle"
  /\ Connect([cl |-> p, kind |-> Mode[p], size |-> Threads[p],
              msgs |-> [t \in 1 .. Threads[p] |->
                [id |-> Id(p, life[p], t), task |-> NumTasks, result |-> NoRecord]]])
  /\ phase' = [phase EXCEPT ![p] = "asking"]
  /\ UNCHANGED <<vars, life, work, outcome, cur, verified, unheard>>

\* The connection breaks under the client, which will retry.
AskFails(p) ==
  /\ phase[p] = "asking"
  /\ Forsake(p)
  /\ phase' = [phase EXCEPT ![p] = "idle"]
  /\ UNCHANGED <<vars, life, work, outcome, verified, unheard>>

\* [mistake] only the last thread's success is looked at
RunLastSucceeds(p, r) ==
  /\ phase[p] = "running"
  /\ outcome' = [outcome EXCEPT ![p] = r]
  /\ verified' = verified \cup {work[p][Threads[p]]}
  /\ phase' = [phase EXCEPT ![p] = "returning"]
  /\ UNCHANGED <<vars, life, work, queue, cur, unheard>>

\* run_assignments_in_parallel, all workers succeed: r are their results.
RunSucceeds(p, r) ==
  /\ phase[p] = "running"
  /\ outcome' = [outcome EXCEPT ![p] = r]
  /\ verified' = verified \cup {work[p][t] : t \in 1 .. Threads[p]}
  /\ phase' = [phase EXCEPT ![p] = "returning"]
  /\ UNCHANGED <<vars, life, work, queue, cur, unheard>>

\* One worker fails: all tasks of the client will be revoked.
RunFails(p) ==
  /\ phase[p] = "running"
  /\ phase' = [phase EXCEPT ![p] = "revoking"]
  /\ UNCHANGED <<vars, life, work, outcome, queue, cur, verified, unheard>>

\* The batch of RET or INT messages, of which the first k were written.
Batch(p, k) ==
  [cl |-> nobody, kind |-> IF phase[p] = "returning" THEN "RET" ELSE "INT",
   size |-> Threads[p],
   msgs |-> [t \in 1 .. k |->
     [id |-> Id(p, life[p], t), task |-> work[p][t],
      result |-> IF phase[p] = "returning" THEN outcome[p][t] ELSE NoRecord]]]

\* open_socket_and_return/revoke_multiple_assignments succeeds.
ReportSent(p) ==
  /\ phase[p] \in {"returning", "revoking"}
  /\ Connect(Batch(p, Threads[p]))
  /\ phase' = [phase EXCEPT ![p] = "idle"]
  /\ work' = [work EXCEPT ![p] = <<>>]
  /\ outcome' = [outcome EXCEPT ![p] = <<>>]
  /\ unheard' = unheard \ {p}
  /\ UNCHANGED <<vars, life, cur, verified>>

\* It fails after k messages, and is retried from the first one.
ReportFails(p, k) ==
  /\ phase[p] \in {"returning", "revoking"}
  /\ Connect(Batch(p, k))
  /\ UNCHANGED <<vars, clients, cur, verified, unheard>>

\* The process ends: quit, -1, killed, or its machine stops.
ClientStops(p) ==
  /\ phase[p] # "stopped"
  /\ Forsake(p)
  /\ phase' = [phase EXCEPT ![p] = "stopped"]
  /\ work' = [work EXCEPT ![p] = <<>>]
  /\ outcome' = [outcome EXCEPT ![p] = <<>>]
  /\ unheard' = unheard \ {p}
  /\ UNCHANGED <<vars, life, verified>>

\* main: a new process draws new client IDs.
ClientStarts(p) ==
  /\ phase[p] = "stopped" /\ life[p] < MaxLives
  /\ life' = [life EXCEPT ![p] = @ + 1]
  /\ phase' = [phase EXCEPT ![p] = "idle"]
  /\ UNCHANGED <<vars, work, outcome, queue, cur, verified, unheard>>

-----------------------------------------------------------------------------
(* The server, fed by the connections. *)

AcceptNext ==
  /\ queue # <<>>
  /\ Accept(Head(queue).kind, Head(queue).size)
  /\ cur' = Head(queue)
  /\ queue' = Tail(queue)
  /\ UNCHANGED <<clients, verified, unheard>>

\* When the server gives up, the client that waits reads end of file.
Notify ==
  IF conn' = NoConn
  THEN /\ cur' = NoLink
       /\ phase' = [p \in Client |-> IF p = cur.cl THEN "idle" ELSE phase[p]]
  ELSE UNCHANGED <<cur, phase>>

Handle(m) ==
  \/ RequestServed(m.id) \/ RequestWriteFails \/ RequestReadFails
  \/ BatchRequestServed(m.id)
  \/ \E n \in Task : MissedServed(n, m.id) \/ MissedFails(n)
  \/ /\ m.task \in Task
     /\ \/ ReturnForeign(m.task, m.id)
        \/ ReturnZero(m.task, m.id, m.result)
        \/ ReturnSuspicious(m.task, m.id, m.result)
        \/ ReturnUnassigned(m.task, m.id, m.result)
        \/ ReturnAccepted(m.task, m.id, m.result)
        \/ InterruptForeign(m.task, m.id)
        \/ InterruptAccepted(m.task, m.id)

NextMsg == cur.msgs[conn.tid + 1]

Serve ==
  /\ conn.tid < Len(cur.msgs)
  /\ Handle(NextMsg)
  /\ Notify
  /\ UNCHANGED <<life, work, outcome, queue, verified, unheard>>

\* The client that waits has read all task IDs and goes to work.
Deliver(tasks) ==
  /\ cur' = NoLink
  /\ IF cur.cl # nobody
     THEN /\ work' = [work EXCEPT ![cur.cl] = tasks]
          /\ phase' = [phase EXCEPT ![cur.cl] = "running"]
     ELSE UNCHANGED <<work, phase>>

\* REQ and req write the task before they read the client ID, and the client
\* waits for nothing else: if the read fails for the last thread, the client
\* works on a task that the server has freed, or keeps under an older ID.
ServeUnheard ==
  /\ cur.cl # nobody /\ conn.tid + 1 = conn.size
  /\ \E n \in Task : /\ (RequestReadFails /\ n = lu) \/ MissedFails(n)
                     /\ Deliver(Append(conn.handed, n))
  /\ unheard' = unheard \cup {cur.cl}
  /\ UNCHANGED <<life, outcome, queue, verified>>

\* [mistake] the client takes a batch cut short for a complete one
ConnectionFailsUnnoticed ==
  /\ Abort
  /\ Deliver(conn.handed)
  /\ UNCHANGED <<life, outcome, queue, verified, unheard>>

ConnectionFails ==
  /\ Abort
  /\ Notify
  /\ UNCHANGED <<life, work, outcome, queue, verified, unheard>>

CloseAndDeliver ==
  /\ Close
  /\ Deliver(conn.handed)
  /\ UNCHANGED <<life, outcome, queue, verified, unheard>>

\* The process dies: every connection it had is reset.
ServerDies ==
  /\ \/ Die
     \/ DieInRequest
     \/ \E n \in Task : DieInMissed(n)
     \/ /\ conn.tid < Len(cur.msgs) /\ NextMsg.task \in Task
        /\ \/ DieInInterrupt(NextMsg.task, NextMsg.id)
           \/ \E s \in 0 .. 4 : DieInReturn(NextMsg.task, NextMsg.id, NextMsg.result, s)
  /\ queue' = <<>>
  /\ cur' = NoLink
  /\ phase' = [p \in Client |-> IF phase[p] = "asking" THEN "idle" ELSE phase[p]]
  /\ UNCHANGED <<life, work, outcome, verified, unheard>>

\* It dies when the reply for the last thread is on its way, before or after
\* it recorded the client ID: the client goes to work.
ServerDiesAfterReply ==
  /\ cur.cl # nobody
  /\ \/ /\ Die /\ conn.tid = conn.size
        /\ work' = [work EXCEPT ![cur.cl] = conn.handed]
        /\ UNCHANGED unheard
     \/ /\ conn.kind # "MRQ" /\ conn.tid + 1 = conn.size
        /\ \E n \in Task :
             /\ (DieInRequest /\ n = lu) \/ DieInMissed(n)
             /\ work' = [work EXCEPT ![cur.cl] = Append(conn.handed, n)]
        /\ unheard' = unheard \cup {cur.cl}
  /\ queue' = <<>>
  /\ cur' = NoLink
  /\ phase' = [p \in Client |-> IF phase[p] # "asking" THEN phase[p]
                                ELSE IF p = cur.cl THEN "running" ELSE "idle"]
  /\ UNCHANGED <<life, outcome, verified>>

ServerStarts ==
  /\ Restart
  /\ UNCHANGED <<clients, queue, cur, verified, unheard>>

-----------------------------------------------------------------------------
SysInit ==
  /\ Init
  /\ phase = [p \in Client |-> "idle"]
  /\ life = [p \in Client |-> 1]
  /\ work = [p \in Client |-> <<>>]
  /\ outcome = [p \in Client |-> <<>>]
  /\ queue = <<>>
  /\ cur = NoLink
  /\ verified = {} /\ unheard = {}

ClientStep(p) ==
  \/ Ask(p) \/ AskFails(p)
  \/ \E r \in [1 .. Threads[p] -> Outcome[p]] : RunSucceeds(p, r)
  \/ RunFails(p)
  \/ ReportSent(p)
  \/ \E k \in 1 .. Threads[p] - 1 : ReportFails(p, k)
  \/ ClientStops(p) \/ ClientStarts(p)

ServerStep ==
  \/ AcceptNext \/ Serve \/ ServeUnheard \/ ConnectionFails \/ CloseAndDeliver
  \/ ServerDies \/ ServerDiesAfterReply \/ ServerStarts

SysNext == ServerStep \/ \E p \in Client : ClientStep(p)

SysSpec == SysInit /\ [][SysNext]_sysVars

-----------------------------------------------------------------------------
(* Safety. *)

SysTypeOK ==
  /\ TypeOK
  /\ phase \in [Client -> Phase]
  /\ life \in [Client -> 1 .. MaxLives]
  /\ \A p \in Client :
       /\ phase[p] \in {"running", "returning", "revoking"} =>
            work[p] \in [1 .. Threads[p] -> Task]
       /\ phase[p] = "returning" => outcome[p] \in [1 .. Threads[p] -> Result]
  /\ queue \in Seq(Link) /\ Len(queue) <= MaxQueue
  /\ cur \in Link \cup {NoLink}
  /\ verified \subseteq Task /\ unheard \subseteq Client

\* The server believes only what was computed: a task is complete only if
\* some worker ran it to the end, whatever was lost, repeated or stolen.
CompleteWasVerified == complete \subseteq verified

\* A complete task stays reserved, so REQ never hands it out again: "complete
\* ==> assigned" (server.c, at the option -f), although INT frees tasks
\* without asking whether they are complete.
CompleteIsAssigned == complete \subseteq assigned

\* The server got the client ID of thread t for the task it was given.
Heard(p, t) == p \notin unheard \/ t # Threads[p]

\* A worker whose ID the server still has for its task runs a reserved task:
\* nothing but another client's `req' takes it away, so its result will not
\* be refused as "was not assigned".  The exception is a last thread that was
\* unheard: a suspicious result frees a task and leaves the ID, the client is
\* given the task again, and it is freed again when the read times out.
LeaseKept ==
  \A p \in Client : \A t \in 1 .. Threads[p] :
    /\ \/ phase[p] = "running"
       \/ phase[p] = "returning" /\ outcome[p][t].checksum \in KnownChecksum
    /\ Heard(p, t)
    /\ clientid[work[p][t]] = Id(p, life[p], t)
    => work[p][t] \in assigned

\* Without `req' clients, two workers run the same task at a time only if the
\* server did not hear from one of them: never because of a repeated
\* revocation, the second copy of which names a task that may be someone
\* else's by now, nor because of a kill or of a batch that was cut short.
ExclusiveWork ==
  (\A p \in Client : Mode[p] # "req") =>
    \A p, q \in Client : \A t \in 1 .. Threads[p], u \in 1 .. Threads[q] :
      /\ phase[p] = "running" /\ phase[q] = "running"
      /\ Heard(p, t) /\ Heard(q, u)
      /\ work[p][t] = work[q][u]
      => p = q /\ t = u

\* Only a kill inside RET leaves a complete task without its checksum, and
\* then the client ID is still there to show it, and to let a retry in.
TornIsMarked ==
  \A n \in complete : clientid[n] = NoId => record[n].checksum \in KnownChecksum

\* A recorded result is final: no retry, late answer or second worker of the
\* same task changes it while the server runs.
RecordedOnce ==
  [][\A n \in complete : clientid[n] = NoId =>
       record'[n] = record[n] /\ clientid'[n] = NoId]_sysVars
-----------------------------------------------------------------------------
(* Liveness.  Every step below can fail, be repeated or be undone by a     *)
(* crash any number of times; fairness only says that it does not fail     *)
(* each time for ever.                                                     *)

GrantServed(p) == Serve /\ cur'.cl = p
KnownResult(r) == r.checksum \in KnownChecksum
RunEnds(p) == RunFails(p) \/ \E r \in [1 .. Threads[p] -> Outcome[p]] : RunSucceeds(p, r)
RunGood(p) ==
  /\ p \notin unheard
  /\ \E r \in [1 .. Threads[p] -> {o \in Outcome[p] : KnownResult(o)}] : RunSucceeds(p, r)
ReportServed(p) ==
  /\ Serve /\ conn'.kind = "RET"
  /\ NextMsg.id = Id(p, life[p], 1) /\ clientid[NextMsg.task] = NextMsg.id
  /\ KnownResult(NextMsg.result)

\* The server is not killed for ever, nor is the connection of a fair client
\* reset for ever while it waits.  Its workers end, and of those that run
\* what the server recorded not all fail.
Fairness ==
  /\ <>[][~ServerDies /\ ~ServerDiesAfterReply]_sysVars
  /\ WF_sysVars(Serve \/ ConnectionFails) \* a silent client times out
  /\ WF_sysVars(AcceptNext \/ CloseAndDeliver \/ ServerStarts)
  /\ \A p \in Client : Mode[p] = "req" =>
       /\ <>[][~AskFails(p)]_sysVars
       /\ SF_sysVars(Ask(p))
       /\ SF_sysVars(GrantServed(p))
       /\ WF_sysVars(RunEnds(p))
       /\ SF_sysVars(RunGood(p))
       /\ SF_sysVars(ReportSent(p))
       /\ SF_sysVars(ReportServed(p))

FairSpec == SysSpec /\ Fairness

\* Tasks lost by REQ clients (a reply that did not arrive, a client that
\* died, a result lost in the backlog) do not hold up the project for ever:
\* with one fair client that runs with -l, every task is completed in the
\* end, unless that client is stopped for good.
AllCompleted ==
  \/ <>(complete = Task)
  \/ \E p \in Client : Mode[p] = "req" /\ <>[](phase[p] = "stopped")
=============================================================================
