---------------------------- MODULE SystemProofs ----------------------------
(***************************************************************************)
(* Proofs about module System: the line of connections between clients and *)
(* server is kept, the server is used as module Server allows, and what it *)
(* calls complete was computed, for every number of clients, threads,      *)
(* tasks, process lives and waiting connections, in spite of lost,         *)
(* repeated and late messages and of kills.                                *)
(***************************************************************************)
EXTENDS System, ServerProofs

-----------------------------------------------------------------------------
(* The line of connections: the one being served is at place 0, those that *)
(* wait are behind it in the order in which they were made.                *)

Places == 0 .. Len(queue)

At(i) == IF i = 0 THEN cur ELSE queue[i]

\* What holds of every connection: reports are not waited for, and a client
\* that waits does so for the answer to its own request.
LinkOK(k) ==
  /\ k \in Link \cup {NoLink}
  /\ k.kind \in GrantKind => \E p \in Client : k.kind = Mode[p]
  /\ k.cl # nobody =>
       /\ k.cl \in Client /\ phase[k.cl] = "asking"
       /\ k.kind \in GrantKind /\ k.size = Threads[k.cl]
       /\ \A t \in 1 .. Len(k.msgs) : k.msgs[t].id = Id(k.cl, life[k.cl], t)

\* And of every message: a result was computed before it was sent.
MsgOK(k, m) ==
  /\ k.kind \in ReportKind => m.task \in Task
  /\ k.kind = "RET" => m.result \in Result /\ m.task \in verified

LinkGood(k) == LinkOK(k) /\ \A j \in 1 .. Len(k.msgs) : MsgOK(k, k.msgs[j])

\* A client waits for one answer at a time.
OneAnswer ==
  \A i, j \in Places : i # j /\ At(i).cl # nobody => At(j).cl # At(i).cl

\* The server's view of the connection and the client's belong together.
ConnOK ==
  /\ ~up => queue = <<>> /\ conn = NoConn
  /\ conn = NoConn => cur = NoLink
  /\ conn # NoConn => /\ cur \in Link
                      /\ conn.kind = cur.kind /\ conn.size = cur.size
                      /\ conn.tid <= conn.size
  /\ conn.kind \in GrantKind => /\ Len(conn.handed) = conn.tid
                                /\ \A t \in 1 .. conn.tid : conn.handed[t] \in Task

LineInv ==
  /\ SysTypeOK
  /\ work = [p \in Client |-> work[p]]
  /\ outcome = [p \in Client |-> outcome[p]]
  /\ ConnOK
  /\ \A i \in Places : LinkGood(At(i))
  /\ OneAnswer
  /\ \A p \in Client : phase[p] = "returning" =>
       \A t \in 1 .. Threads[p] : work[p][t] \in verified
  /\ CompleteWasVerified

\* The server's death, as the client that waits sees it.
Dies == ServerDies \/ ServerDiesAfterReply

\* Client p gets its tasks: those the batch handed out or, if the server did
\* not hear from the last thread, one more.
Delivered(p) ==
  /\ p = cur.cl /\ conn # NoConn /\ conn.kind \in GrantKind /\ Len(conn.handed) = conn.tid
  /\ conn.handed \in Seq(Nat)
  /\ conn' = NoConn /\ cur' = NoLink /\ queue' \in {queue, <<>>}
  /\ UNCHANGED <<complete, clientid>>
  /\ work'[p] \in [1 .. Threads[p] -> Task]
  /\ \/ conn.tid = Threads[p] /\ work'[p] = conn.handed /\ UNCHANGED assigned
     \/ /\ conn.tid + 1 = Threads[p] /\ p \in unheard'
        /\ \E n \in Task : /\ work'[p] = Append(conn.handed, n)
                           /\ n = lu \/ n \notin complete

-----------------------------------------------------------------------------
(* The server is used as module Server allows. *)

\* The kinds are different.
LEMMA Kinds ==
  /\ GrantKind \cap ReportKind = {} /\ NoLink.kind \notin GrantKind \cup ReportKind
  /\ NoLink.msgs = <<>> /\ NoLink.cl = nobody /\ NoConn.kind \notin GrantKind \cup ReportKind
  /\ NoConn.tid = 0 /\ NoConn.size = 0 /\ NoConn \in Conn
  BY MaxThreadsAssumption DEF GrantKind, ReportKind, NoLink, NoConn, Conn

\* What the server reads next comes from a client, and a result among it
\* was computed.
LEMMA NextMsgFacts ==
  ASSUME LineInv, conn.tid < Len(cur.msgs)
  PROVE  /\ up /\ conn # NoConn /\ cur \in Link /\ conn.kind = cur.kind
         /\ conn.kind \in GrantKind \cup ReportKind
         /\ conn.tid + 1 \in 1 .. Len(cur.msgs)
         /\ NextMsg \in Message /\ NextMsg.id \in ClientId
         /\ MsgOK(cur, NextMsg)
<1>1. conn # NoConn
  <2>1. SUFFICES ASSUME conn = NoConn PROVE FALSE
    OBVIOUS
  <2>2. cur = NoLink
    BY <2>1 DEF LineInv, ConnOK
  <2> QED
    BY <2>1, <2>2, Kinds
<1>2. up /\ cur \in Link /\ conn.kind = cur.kind /\ conn \in Conn
  BY <1>1 DEF LineInv, ConnOK, SysTypeOK, TypeOK
<1>3. conn.kind \in GrantKind \cup ReportKind /\ cur.msgs \in Seq(Message) /\ conn.tid \in Nat
  BY <1>2, MaxThreadsAssumption DEF Link, Conn
<1>4. conn.tid + 1 \in 1 .. Len(cur.msgs)
  BY <1>3
<1>5. NextMsg \in Message
  BY <1>3, <1>4 DEF NextMsg
<1>6. MsgOK(cur, NextMsg)
  <2>1. 0 \in Places /\ At(0) = cur
    BY DEF Places, At, LineInv, SysTypeOK
  <2> QED
    BY <1>4, <2>1 DEF LineInv, LinkGood, NextMsg
<1> QED
  BY <1>1, <1>2, <1>3, <1>4, <1>5, <1>6 DEF Message

\* Every step of the system is a step of the server or leaves it alone.
LEMMA ServerAction ==
  ASSUME LineInv, [SysNext]_sysVars
  PROVE  [Next]_vars
<1>1. ASSUME AcceptNext
      PROVE  Next
  <2>1. queue \in Seq(Link) /\ queue # <<>>
    BY <1>1 DEF AcceptNext, LineInv, SysTypeOK
  <2>2. Head(queue) \in Link
    BY <2>1
  <2>3. Head(queue).kind \in GrantKind \cup ReportKind /\ Head(queue).size \in 1 .. MaxThreads
    BY <2>2 DEF Link
  <2>4. Loop
    BY <1>1, <2>3 DEF AcceptNext, Loop
  <2> QED
    BY <2>4 DEF Next
<1>2. ASSUME Serve
      PROVE  Next
  <2> DEFINE m == NextMsg
  <2>1. m.id \in ClientId /\ (conn.kind = "RET" => m.result \in Result)
    BY <1>2, NextMsgFacts DEF Serve, MsgOK
  <2>2. Handle(m)
    BY <1>2 DEF Serve
  <2> HIDE DEF m
  <2>3. ASSUME \/ RequestServed(m.id) \/ RequestWriteFails \/ RequestReadFails
               \/ BatchRequestServed(m.id)
               \/ \E n \in Task : MissedServed(n, m.id) \/ MissedFails(n)
        PROVE  Grant
    BY <2>1, <2>3 DEF Grant
  <2>4. ASSUME m.task \in Task,
               \/ ReturnForeign(m.task, m.id) \/ InterruptForeign(m.task, m.id)
               \/ InterruptAccepted(m.task, m.id)
        PROVE  Report
    BY <2>1, <2>4 DEF Report, ReportUnrecorded
  <2>5. ASSUME m.task \in Task,
               \/ ReturnZero(m.task, m.id, m.result) \/ ReturnSuspicious(m.task, m.id, m.result)
               \/ ReturnUnassigned(m.task, m.id, m.result)
               \/ ReturnAccepted(m.task, m.id, m.result)
        PROVE  Report
    <3>1. conn.kind = "RET"
      BY <2>5 DEF ReturnZero, ReturnSuspicious, ReturnUnassigned, ReturnAccepted,
                  AcceptableReturn, Serving
    <3> QED
      BY <2>1, <2>5, <3>1 DEF Report, ReportUnrecorded
  <2> QED
    BY <2>2, <2>3, <2>4, <2>5 DEF Handle, Next
<1>3. ASSUME ConnectionFails \/ CloseAndDeliver
      PROVE  Next
  BY <1>3 DEF ConnectionFails, CloseAndDeliver, Loop, Next
<1>8. ASSUME ServeUnheard \/ ServerDiesAfterReply
      PROVE  Next
  <2>1. ServeUnheard => RequestReadFails \/ \E n \in Task : MissedFails(n)
    BY DEF ServeUnheard
  <2>2. ServerDiesAfterReply => Die \/ DieInRequest \/ \E n \in Task : DieInMissed(n)
    BY DEF ServerDiesAfterReply
  <2> QED
    BY <1>8, <2>1, <2>2 DEF Grant, Death, DeathElsewhere, Next
<1>4. ASSUME ServerDies
      PROVE  Next
  <2> DEFINE m == NextMsg
  <2>1. ASSUME conn.tid < Len(cur.msgs), m.task \in Task,
               \/ DieInInterrupt(m.task, m.id)
               \/ \E s \in 0 .. 4 : DieInReturn(m.task, m.id, m.result, s)
        PROVE  Death
    <3>1. m.id \in ClientId /\ (conn.kind = "RET" => m.result \in Result)
      BY <2>1, NextMsgFacts DEF MsgOK
    <3> HIDE DEF m
    <3>2. (\E s \in 0 .. 4 : DieInReturn(m.task, m.id, m.result, s)) => conn.kind = "RET"
      BY DEF DieInReturn, AcceptableReturn, Serving
    <3> QED
      BY <2>1, <3>1, <3>2 DEF Death, DeathElsewhere
  <2>2. Die \/ DieInRequest \/ (\E n \in Task : DieInMissed(n)) => Death
    BY DEF Death, DeathElsewhere
  <2> QED
    BY <1>4, <2>1, <2>2 DEF ServerDies, Next
<1>5. ASSUME ServerStarts
      PROVE  Next
  BY <1>5 DEF ServerStarts, Next
<1>6. ASSUME NEW p \in Client, ClientStep(p)
      PROVE  UNCHANGED vars
  BY <1>6 DEF ClientStep, Ask, AskFails, RunSucceeds, RunFails, ReportSent, ReportFails,
              ClientStops, ClientStarts
<1>7. UNCHANGED sysVars => UNCHANGED vars
  BY DEF sysVars
<1> QED
  BY <1>1, <1>2, <1>3, <1>4, <1>5, <1>6, <1>7, <1>8 DEF SysNext, ServerStep

-----------------------------------------------------------------------------
(* How the line of connections moves. *)

\* The places of the line.
LEMMA LineFacts ==
  ASSUME LineInv
  PROVE  /\ queue \in Seq(Link) /\ Len(queue) \in Nat
         /\ Places \subseteq Nat /\ 0 \in Places /\ At(0) = cur
         /\ \A i \in Places : At(i) \in Link \cup {NoLink}
         /\ \A i \in Places : i # 0 => i \in 1 .. Len(queue) /\ At(i) = queue[i] /\ At(i) \in Link
  BY DEF LineInv, SysTypeOK, Places, At

\* The server's steps take connections out of the line and put none in: what
\* is at a place now was there or at the next place.
LEMMA ServerMoves ==
  ASSUME LineInv, ServerStep
  PROVE  /\ queue' \in Seq(Link) /\ Len(queue') <= MaxQueue /\ cur' \in Link \cup {NoLink}
         /\ \E s \in {0, 1} : \A i \in Places' :
              At(i)' = NoLink \/ (i + s \in Places /\ At(i)' = At(i + s))
<1>1. /\ queue \in Seq(Link) /\ Len(queue) \in Nat /\ Len(queue) <= MaxQueue
      /\ cur \in Link \cup {NoLink}
  BY DEF LineInv, SysTypeOK
<1>2. ASSUME AcceptNext
      PROVE  /\ queue' \in Seq(Link) /\ Len(queue') <= MaxQueue /\ cur' \in Link
             /\ \A i \in Places' : i + 1 \in Places /\ At(i)' = At(i + 1)
  <2>1. queue # <<>> /\ cur' = Head(queue) /\ queue' = Tail(queue)
    BY <1>2 DEF AcceptNext
  <2>2. /\ Head(queue) = queue[1] /\ Head(queue) \in Link
        /\ Tail(queue) \in Seq(Link) /\ Len(Tail(queue)) = Len(queue) - 1
        /\ \A i \in 1 .. Len(queue) - 1 : Tail(queue)[i] = queue[i + 1]
    BY <1>1, <2>1
  <2>3. ASSUME NEW i \in Places'
        PROVE  i + 1 \in Places /\ At(i)' = At(i + 1)
    <3>1. i \in 0 .. Len(queue) - 1
      BY <2>1, <2>2 DEF Places
    <3> QED
      BY <1>1, <2>1, <2>2, <3>1 DEF Places, At
  <2>4. Len(queue) - 1 <= MaxQueue
    BY <1>1, SystemAssumption
  <2> QED
    BY <2>1, <2>2, <2>3, <2>4
<1>3. ASSUME queue' \in {queue, <<>>}, cur' \in {cur, NoLink}
      PROVE  /\ queue' \in Seq(Link) /\ Len(queue') <= MaxQueue /\ cur' \in Link \cup {NoLink}
             /\ \A i \in Places' : At(i)' = NoLink \/ (i + 0 \in Places /\ At(i)' = At(i + 0))
  <2>1. queue' \in Seq(Link) /\ Len(queue') <= MaxQueue
    <3>1. <<>> \in Seq(Link) /\ Len(<<>>) = 0 /\ 0 <= MaxQueue
      BY SystemAssumption
    <3> QED
      BY <1>1, <1>3, <3>1
  <2>2. ASSUME NEW i \in Places'
        PROVE  At(i)' = NoLink \/ (i + 0 \in Places /\ At(i)' = At(i + 0))
    <3>1. i \in 0 .. Len(queue') /\ Len(queue') <= Len(queue)
      BY <1>1, <1>3 DEF Places
    <3>2. CASE i = 0
      BY <1>1, <1>3, <3>2 DEF Places, At
    <3>3. CASE i # 0
      BY <1>1, <1>3, <3>1, <3>3 DEF Places, At
    <3> QED
      BY <3>2, <3>3
  <2> QED
    BY <1>1, <1>3, <2>1, <2>2
<1>4. ASSUME ~ AcceptNext
      PROVE  queue' \in {queue, <<>>} /\ cur' \in {cur, NoLink}
  BY <1>4 DEF ServerStep, Serve, Notify, ServeUnheard, Deliver, ConnectionFails, CloseAndDeliver,
              ServerDies, ServerDiesAfterReply, ServerStarts
<1> QED
  BY <1>2, <1>3, <1>4

\* They do not leave a client behind that waits for nothing, or the other
\* way round, and do not touch what the clients computed.
LEMMA ServerWaiters ==
  ASSUME LineInv, ServerStep
  PROVE  /\ UNCHANGED <<life, outcome, verified>>
         /\ phase' \in [Client -> Phase]
         /\ \A i \in Places' : At(i)'.cl # nobody => phase'[At(i)'.cl] = "asking"
         /\ \A p \in Client : phase'[p] # phase[p] =>
              /\ phase[p] = "asking" /\ phase'[p] \in {"idle", "running"}
              /\ \A i \in Places' : At(i)'.cl # p
<1>1. UNCHANGED <<life, outcome, verified>>
  BY DEF ServerStep, AcceptNext, Serve, ServeUnheard, ConnectionFails, CloseAndDeliver, ServerDies,
         ServerDiesAfterReply, ServerStarts, clients
<1>2. phase \in [Client -> Phase] /\ nobody \notin Client /\ "idle" \in Phase /\ "running" \in Phase
  BY SystemAssumption DEF LineInv, SysTypeOK, Phase
<1>3. \A i \in Places : At(i).cl # nobody => At(i).cl \in Client /\ phase[At(i).cl] = "asking"
  BY DEF LineInv, LinkGood, LinkOK
<1>4. PICK s \in {0, 1} : \A i \in Places' :
        At(i)' = NoLink \/ (i + s \in Places /\ At(i)' = At(i + s))
  BY ServerMoves
<1>5. CASE UNCHANGED phase
  BY <1>1, <1>2, <1>3, <1>4, <1>5, Kinds
<1>6. CASE /\ cur' = NoLink /\ queue' = queue
           /\ \E w \in {"idle", "running"} :
                phase' = [p \in Client |-> IF p = cur.cl THEN w ELSE phase[p]]
  <2>1. PICK w \in {"idle", "running"} :
          phase' = [p \in Client |-> IF p = cur.cl THEN w ELSE phase[p]]
    BY <1>6
  <2>2. ASSUME NEW i \in Places'
        PROVE  At(i)'.cl # nobody =>
                 At(i)'.cl # cur.cl /\ At(i)'.cl \in Client /\ phase[At(i)'.cl] = "asking"
    <3>1. CASE i = 0
      BY <1>6, <3>1, Kinds DEF At
    <3>2. CASE i # 0
      <4>1. At(i)' = At(i) /\ i \in Places
        BY <1>6, <3>2 DEF At, Places
      <4>2. At(i).cl # nobody => At(i).cl # At(0).cl
        BY <3>2, <4>1, LineFacts DEF LineInv, OneAnswer
      <4> QED
        BY <1>3, <4>1, <4>2, LineFacts
    <3> QED
      BY <3>1, <3>2
  <2>3. phase[cur.cl] = "asking" \/ cur.cl \notin Client
    BY <1>3, <1>2, LineFacts
  <2>4. \A i \in Places' : At(i)'.cl \in Client => At(i)'.cl # cur.cl
    BY <1>2, <2>2
  <2> QED
    BY <1>1, <1>2, <2>1, <2>2, <2>3, <2>4
<1>7. CASE Dies
  <2>1. /\ queue' = <<>> /\ cur' = NoLink
        /\ \E c : phase' = [p \in Client |-> IF phase[p] # "asking" THEN phase[p]
                                             ELSE IF p = c THEN "running" ELSE "idle"]
    <3>1. ServerDies => phase' = [p \in Client |-> IF phase[p] # "asking" THEN phase[p]
                                                   ELSE IF p = nobody THEN "running" ELSE "idle"]
      BY <1>2 DEF ServerDies
    <3>2. ServerDiesAfterReply =>
            phase' = [p \in Client |-> IF phase[p] # "asking" THEN phase[p]
                                       ELSE IF p = cur.cl THEN "running" ELSE "idle"]
      BY DEF ServerDiesAfterReply
    <3>3. queue' = <<>> /\ cur' = NoLink
      BY <1>7 DEF Dies, ServerDies, ServerDiesAfterReply
    <3>4. CASE ServerDies
      BY <3>1, <3>3, <3>4
    <3>5. CASE ServerDiesAfterReply
      BY <3>2, <3>3, <3>5
    <3> QED
      BY <1>7, <3>4, <3>5 DEF Dies
  <2>2. \A i \in Places' : At(i)' = NoLink
    BY <2>1 DEF Places, At
  <2> QED
    BY <1>1, <1>2, <2>1, <2>2, Kinds
<1>8. ASSUME ServerStep, ~ UNCHANGED phase, ~ Dies
      PROVE  /\ cur' = NoLink /\ queue' = queue
             /\ \E w \in {"idle", "running"} :
                  phase' = [p \in Client |-> IF p = cur.cl THEN w ELSE phase[p]]
  <2>1. ASSUME Notify, ~ UNCHANGED phase
        PROVE  cur' = NoLink /\ \E w \in {"idle", "running"} :
                 phase' = [p \in Client |-> IF p = cur.cl THEN w ELSE phase[p]]
    BY <2>1 DEF Notify
  <2>2. ASSUME NEW tasks, Deliver(tasks)
        PROVE  cur' = NoLink /\ \E w \in {"idle", "running"} :
                 phase' = [p \in Client |-> IF p = cur.cl THEN w ELSE phase[p]]
    BY <1>2, <1>8, <2>2 DEF Deliver
  <2>3. AcceptNext \/ ServerStarts => UNCHANGED phase
    BY DEF AcceptNext, ServerStarts, clients
  <2>4. Serve \/ ServeUnheard \/ ConnectionFails \/ CloseAndDeliver
    BY <1>8, <2>3 DEF ServerStep, Dies
  <2>5. queue' = queue
    BY <2>4 DEF Serve, ServeUnheard, ConnectionFails, CloseAndDeliver
  <2>6. ServeUnheard \/ CloseAndDeliver => \E tasks : Deliver(tasks)
    BY DEF ServeUnheard, CloseAndDeliver
  <2> QED
    BY <1>8, <2>1, <2>2, <2>4, <2>5, <2>6 DEF Serve, ConnectionFails
<1> QED
  BY <1>5, <1>6, <1>7, <1>8

\* What becomes of a connection when p gives up: unless it is p's it stays,
\* and else nobody waits and some of its messages are missing at the end.
LEMMA OrphanFacts ==
  ASSUME NEW k \in Link \cup {NoLink}, NEW sent \in Nat, NEW p \in Client
  PROVE  LET o == Orphan(k, sent, p)
         IN  /\ o \in Link \cup {NoLink} /\ (k \in Link => o \in Link) /\ (k = NoLink => o = NoLink)
             /\ o.kind = k.kind /\ o.size = k.size
             /\ o.cl # p /\ (o.cl # nobody => o = k)
             /\ Len(o.msgs) \in Nat /\ Len(o.msgs) <= Len(k.msgs)
             /\ Len(o.msgs) = Len(k.msgs) \/ Len(o.msgs) = sent
             /\ \A u \in 1 .. Len(o.msgs) : u \in 1 .. Len(k.msgs) /\ o.msgs[u] = k.msgs[u]
<1> DEFINE o == Orphan(k, sent, p)
<1>1. nobody # p /\ (k.cl = p => k \in Link)
  BY SystemAssumption DEF NoLink
<1>2. CASE k.cl # p
  <2>1. o = k /\ Len(k.msgs) \in Nat
    BY <1>2, Kinds DEF Orphan, Link
  <2> QED
    BY <1>1, <1>2, <2>1
<1>3. CASE k.cl = p
  <2> DEFINE cut == IF k.kind = "MRQ" \/ Len(k.msgs) < sent THEN k.msgs
                    ELSE SubSeq(k.msgs, 1, sent)
  <2>1. o = [k EXCEPT !.cl = nobody, !.msgs = cut] /\ k \in Link /\ k.msgs \in Seq(Message)
    BY <1>1, <1>3 DEF Orphan, Link
  <2>2. /\ cut \in Seq(Message) /\ Len(cut) <= Len(k.msgs)
        /\ Len(cut) = Len(k.msgs) \/ Len(cut) = sent
        /\ \A u \in 1 .. Len(cut) : cut[u] = k.msgs[u]
    <3>1. CASE k.kind = "MRQ" \/ Len(k.msgs) < sent
      BY <2>1, <3>1
    <3>2. CASE ~ (k.kind = "MRQ" \/ Len(k.msgs) < sent)
      <4>1. cut = SubSeq(k.msgs, 1, sent) /\ sent <= Len(k.msgs)
        BY <2>1, <3>2
      <4>2. /\ SubSeq(k.msgs, 1, sent) \in Seq(Message) /\ Len(SubSeq(k.msgs, 1, sent)) = sent
            /\ \A u \in 1 .. sent : SubSeq(k.msgs, 1, sent)[u] = k.msgs[u]
        BY <2>1, <4>1
      <4> QED
        BY <4>1, <4>2
    <3> QED
      BY <3>1, <3>2
  <2> HIDE DEF cut
  <2>3. o \in Link /\ o.cl = nobody /\ o.kind = k.kind /\ o.size = k.size /\ o.msgs = cut
    BY <2>1, <2>2 DEF Link
  <2>4. Len(cut) \in Nat /\ Len(k.msgs) \in Nat /\ k # NoLink
    BY <1>1, <1>3, <2>1, <2>2, Kinds
  <2> QED
    BY <1>1, <2>1, <2>2, <2>3, <2>4
<1> QED
  BY <1>2, <1>3

\* A client that loses its connection leaves the line as long as it was;
\* each connection in it is as before or cut short.
LEMMA ForsakeMoves ==
  ASSUME LineInv, NEW p \in Client, Forsake(p)
  PROVE  /\ queue' \in Seq(Link) /\ Len(queue') = Len(queue) /\ Places' = Places
         /\ cur' \in Link \cup {NoLink} /\ cur'.kind = cur.kind /\ cur'.size = cur.size
         /\ (cur = NoLink => cur' = NoLink) /\ (cur \in Link => cur' \in Link)
         /\ \A i \in Places : \E s \in Nat : At(i)' = Orphan(At(i), s, p)
<1>1. /\ queue \in Seq(Link) /\ Len(queue) \in Nat /\ DOMAIN queue = 1 .. Len(queue)
      /\ \A i \in 1 .. Len(queue) : queue[i] \in Link
      /\ cur \in Link \cup {NoLink}
  BY DEF LineInv, SysTypeOK
<1>2. conn.tid + 1 \in Nat /\ 1 \in Nat
  BY DEF LineInv, SysTypeOK, TypeOK, Conn
<1>3. /\ queue' = [i \in 1 .. Len(queue) |-> Orphan(queue[i], 1, p)]
      /\ cur' = Orphan(cur, conn.tid + 1, p)
  BY <1>1 DEF Forsake
<1>4. queue' \in Seq(Link) /\ Len(queue') = Len(queue)
  <2>1. \A i \in 1 .. Len(queue) : Orphan(queue[i], 1, p) \in Link
    BY <1>1, OrphanFacts
  <2> QED
    BY <1>1, <1>3, <2>1
<1>5. ASSUME NEW i \in Places
      PROVE  \E s \in Nat : At(i)' = Orphan(At(i), s, p)
  BY <1>1, <1>2, <1>3 DEF At, Places
<1>6. Places' = Places
  BY <1>4 DEF Places
<1> QED
  BY <1>1, <1>2, <1>3, <1>4, <1>5, <1>6, OrphanFacts

\* A new connection waits behind all others.
LEMMA ConnectMoves ==
  ASSUME LineInv, NEW k \in Link, Connect(k), UNCHANGED cur
  PROVE  /\ queue' \in Seq(Link) /\ Len(queue') <= MaxQueue
         /\ Places' = Places \cup {Len(queue) + 1}
         /\ \A i \in Places : At(i)' = At(i) /\ i < Len(queue) + 1
         /\ \A i \in Places' : i \notin Places => i = Len(queue) + 1 /\ At(i)' = k
<1>1. queue \in Seq(Link) /\ Len(queue) \in Nat /\ Len(queue) < MaxQueue /\ MaxQueue \in Nat
  BY SystemAssumption DEF LineInv, SysTypeOK, Connect
<1>2. /\ queue' = Append(queue, k) /\ Len(queue') = Len(queue) + 1
      /\ queue' \in Seq(Link)
      /\ \A i \in 1 .. Len(queue) : queue'[i] = queue[i]
      /\ queue'[Len(queue) + 1] = k
  BY <1>1 DEF Connect
<1>3. Places' = Places \cup {Len(queue) + 1}
  BY <1>1, <1>2 DEF Places
<1>4. \A i \in Places : At(i)' = At(i) /\ i < Len(queue) + 1
  BY <1>1, <1>2 DEF Places, At
<1>5. \A i \in Places' : i \notin Places => i = Len(queue) + 1 /\ At(i)' = k
  BY <1>1, <1>2, <1>3 DEF At
<1> QED
  BY <1>1, <1>2, <1>3, <1>4, <1>5

-----------------------------------------------------------------------------
(* The line stays good. *)

\* A connection stays good while its client waits and is not started anew.
LEMMA LinkKeeps ==
  ASSUME NEW k, LinkGood(k), verified \subseteq verified',
         k.cl # nobody => phase'[k.cl] = "asking" /\ life'[k.cl] = life[k.cl]
  PROVE  LinkGood(k)'
<1>1. LinkOK(k)'
  BY DEF LinkGood, LinkOK
<1>2. \A j \in 1 .. Len(k.msgs) : MsgOK(k, k.msgs[j])'
  BY DEF LinkGood, MsgOK
<1> QED
  BY <1>1, <1>2 DEF LinkGood

\* What is left of it when the client gave up is good as well.
LEMMA OrphanKeeps ==
  ASSUME NEW k \in Link \cup {NoLink}, LinkGood(k), NEW sent \in Nat, NEW p \in Client
  PROVE  LinkGood(Orphan(k, sent, p))
<1> DEFINE o == Orphan(k, sent, p)
<1>1. /\ o \in Link \cup {NoLink} /\ o.kind = k.kind /\ (o.cl # nobody => o = k)
      /\ \A u \in 1 .. Len(o.msgs) : u \in 1 .. Len(k.msgs) /\ o.msgs[u] = k.msgs[u]
  BY OrphanFacts
<1> HIDE DEF o
<1>2. LinkOK(o)
  BY <1>1 DEF LinkGood, LinkOK
<1>3. \A u \in 1 .. Len(o.msgs) : MsgOK(o, o.msgs[u])
  BY <1>1 DEF LinkGood, MsgOK
<1>4. LinkGood(o)
  BY <1>2, <1>3 DEF LinkGood
<1> QED
  BY <1>4 DEF o

\* A handler goes on with the batch, with one more task handed out if it is
\* a request, or gives it up; what it completes was computed.
LEMMA ServeConn ==
  ASSUME LineInv, Serve
  PROVE  /\ up /\ up' /\ complete' \subseteq complete \cup verified
         /\ \/ conn' = NoConn /\ cur' = NoLink
            \/ /\ cur' = cur /\ conn.tid < conn.size
               /\ \E reply : /\ NextMessage(reply)
                             /\ conn.kind \in GrantKind => \E n \in Task : reply = <<n>>
                             /\ conn.kind \in ReportKind => reply = <<>>
<1> DEFINE m == NextMsg
           Goes(reply) == conn.tid < conn.size /\ NextMessage(reply)
<1>1. /\ up /\ conn # NoConn /\ conn \in Conn /\ conn.kind = cur.kind
      /\ conn.kind \in GrantKind \cup ReportKind
      /\ conn.kind = "RET" => m.task \in verified
  BY NextMsgFacts DEF Serve, MsgOK, LineInv, SysTypeOK, TypeOK
<1>2. Handle(m) /\ Notify
  BY DEF Serve
<1> HIDE DEF m
<1>3. ASSUME \/ RequestServed(m.id) \/ RequestWriteFails \/ RequestReadFails
             \/ BatchRequestServed(m.id)
             \/ \E n \in Task : MissedServed(n, m.id) \/ MissedFails(n)
      PROVE  /\ up' = up /\ complete' = complete
             /\ GiveUp \/ (conn.kind \in GrantKind /\ \E n \in Task : Goes(<<n>>))
  BY <1>3 DEF RequestServed, RequestWriteFails, RequestReadFails, BatchRequestServed,
              MissedServed, MissedFails, GetAssignment, Serving, GrantKind
<1>4. ASSUME \/ ReturnForeign(m.task, m.id) \/ ReturnZero(m.task, m.id, m.result)
             \/ ReturnSuspicious(m.task, m.id, m.result)
             \/ ReturnUnassigned(m.task, m.id, m.result)
             \/ ReturnAccepted(m.task, m.id, m.result)
      PROVE  /\ up' = up /\ complete' \subseteq complete \cup {m.task}
             /\ conn.kind = "RET" /\ (GiveUp \/ Goes(<<>>))
  BY <1>4 DEF ReturnForeign, ReturnZero, ReturnSuspicious, ReturnUnassigned, ReturnAccepted,
              AcceptableReturn, SetComplete, Serving, files
<1>5. ASSUME InterruptForeign(m.task, m.id) \/ InterruptAccepted(m.task, m.id)
      PROVE  up' = up /\ complete' = complete /\ Goes(<<>>) /\ conn.kind = "INT"
  BY <1>5 DEF InterruptForeign, InterruptAccepted, Serving, files
<1>6. /\ up' = up /\ complete' \subseteq complete \cup verified
      /\ \/ GiveUp
         \/ \E reply : /\ Goes(reply)
                       /\ conn.kind \in GrantKind => \E n \in Task : reply = <<n>>
                       /\ conn.kind \in ReportKind => reply = <<>>
  <2> HIDE DEF Goes
  <2>1. \/ complete' = complete
        \/ conn.kind = "RET" /\ complete' \subseteq complete \cup {m.task}
    BY <1>2, <1>3, <1>4, <1>5 DEF Handle
  <2>2. up' = up
    BY <1>2, <1>3, <1>4, <1>5 DEF Handle
  <2>3. \/ GiveUp
        \/ conn.kind \in GrantKind /\ \E n \in Task : Goes(<<n>>)
        \/ conn.kind \in ReportKind /\ Goes(<<>>)
    BY <1>2, <1>3, <1>4, <1>5 DEF Handle, ReportKind
  <2> QED
    BY <1>1, <2>1, <2>2, <2>3, Kinds
<1>7. GiveUp => conn' = NoConn /\ cur' = NoLink
  BY <1>2 DEF GiveUp, Notify
<1>8. ASSUME NEW reply, NextMessage(reply)
      PROVE  cur' = cur
  <2>1. conn'.kind = conn.kind
    BY <1>1, <1>8 DEF NextMessage, Conn
  <2>2. conn' # NoConn
    BY <1>1, <2>1, Kinds
  <2> QED
    BY <1>2, <2>2 DEF Notify
<1> QED
  BY <1>1, <1>6, <1>7, <1>8

\* The server's connection and the client's stay together.
LEMMA ServerConnOK ==
  ASSUME LineInv, ServerStep
  PROVE  ConnOK'
<1>1. /\ conn \in Conn /\ cur \in Link \cup {NoLink} /\ queue \in Seq(Link)
      /\ NoConn.kind \notin GrantKind /\ NoLink.kind \notin GrantKind
  BY Kinds DEF LineInv, SysTypeOK, TypeOK
<1>2. ASSUME AcceptNext
      PROVE  ConnOK'
  <2>1. /\ up' = up /\ up /\ cur' = Head(queue) /\ Head(queue) \in Link
        /\ conn' = [kind |-> cur'.kind, size |-> cur'.size, tid |-> 0, handed |-> <<>>]
    BY <1>1, <1>2 DEF AcceptNext, Accept
  <2>2. cur'.size \in Nat /\ cur'.kind \in GrantKind \cup ReportKind /\ Len(<<>>) = 0
    BY <2>1 DEF Link
  <2> QED
    BY <2>1, <2>2, Kinds DEF ConnOK
<1>3. ASSUME Serve
      PROVE  ConnOK'
  <2>1. CASE conn' = NoConn /\ cur' = NoLink
    BY <1>1, <1>3, <2>1, ServeConn DEF ConnOK
  <2>2. CASE conn' # NoConn \/ cur' # NoLink
    <3>1. up' /\ cur' = cur /\ conn.tid < conn.size
      BY <1>3, <2>2, ServeConn
    <3>2. PICK reply : /\ NextMessage(reply)
                       /\ conn.kind \in GrantKind => \E n \in Task : reply = <<n>>
                       /\ conn.kind \in ReportKind => reply = <<>>
      BY <1>3, <2>2, ServeConn
    <3>3. /\ conn # NoConn /\ cur \in Link /\ conn.kind = cur.kind /\ conn.size = cur.size
          /\ conn.kind \in GrantKind \cup ReportKind
      BY <1>3, NextMsgFacts DEF Serve, LineInv, ConnOK
    <3>4. /\ conn'.kind = conn.kind /\ conn'.size = conn.size /\ conn'.tid = conn.tid + 1
          /\ conn'.handed = conn.handed \o reply
      BY <1>1, <3>2 DEF NextMessage, Conn
    <3>5. conn.tid \in Nat /\ conn.size \in Nat /\ conn.handed \in Seq(Nat)
      BY <1>1 DEF Conn
    <3>6. ASSUME conn.kind \in GrantKind
          PROVE  /\ Len(conn'.handed) = conn'.tid
                 /\ \A t \in 1 .. conn'.tid : conn'.handed[t] \in Task
      <4>1. PICK n \in Task : reply = <<n>>
        BY <3>2, <3>6
      <4>2. n \in Nat /\ Len(conn.handed) = conn.tid
            /\ \A t \in 1 .. conn.tid : conn.handed[t] \in Task
        BY <3>6 DEF LineInv, ConnOK, Task
      <4> DEFINE h == conn.handed
      <4>3. /\ Len(h \o <<n>>) = conn.tid + 1
            /\ \A t \in 1 .. conn.tid : (h \o <<n>>)[t] = h[t]
            /\ (h \o <<n>>)[conn.tid + 1] = n
        BY <3>5, <4>2, OneMore
      <4>4. \A t \in 1 .. conn.tid + 1 : t \in 1 .. conn.tid \/ t = conn.tid + 1
        BY <3>5
      <4> QED
        BY <3>4, <4>1, <4>2, <4>3, <4>4
    <3>7. conn'.tid <= conn'.size
      BY <3>1, <3>4, <3>5
    <3>8. conn' # NoConn /\ cur' \in Link /\ conn'.kind = cur'.kind /\ conn'.size = cur'.size
      BY <3>1, <3>3, <3>4, Kinds
    <3> QED
      BY <3>1, <3>4, <3>6, <3>7, <3>8 DEF ConnOK
  <2> QED
    BY <2>1, <2>2
<1>4. ASSUME ConnectionFails \/ CloseAndDeliver \/ ServeUnheard
      PROVE  ConnOK'
  <2>1. up' /\ conn' = NoConn /\ cur' = NoLink
    BY <1>4 DEF ConnectionFails, CloseAndDeliver, ServeUnheard, Deliver, Abort, Close, GiveUp, Notify,
                RequestReadFails, MissedFails, Serving
  <2> QED
    BY <1>1, <2>1 DEF ConnOK
<1>5. ASSUME Dies
      PROVE  ConnOK'
  <2>1. conn' = NoConn /\ cur' = NoLink /\ queue' = <<>>
    BY <1>5 DEF Dies, ServerDies, ServerDiesAfterReply, Die, DieInRequest, DieInMissed, DieInInterrupt,
                DieInReturn, ProcessEnds
  <2> QED
    BY <1>1, <2>1 DEF ConnOK
<1>6. ASSUME ServerStarts
      PROVE  ConnOK'
  <2>1. up' /\ UNCHANGED <<conn, queue, cur>>
    BY <1>6 DEF ServerStarts, Restart, Start
  <2> QED
    BY <2>1 DEF ConnOK, LineInv
<1> QED
  BY <1>2, <1>3, <1>4, <1>5, <1>6 DEF ServerStep, Dies

\* A client gets tasks only when all it asked for were handed out or, for the
\* last one, at least written.
LEMMA ServerWork ==
  ASSUME LineInv, ServerStep
  PROVE  /\ work' = [p \in Client |-> work'[p]]
         /\ unheard' \subseteq Client /\ unheard \subseteq unheard'
         /\ \A p \in Client : work'[p] = work[p] \/ phase'[p] = "running"
         /\ \A p \in Client : phase'[p] = "running" =>
              \/ phase[p] = "running" /\ work'[p] = work[p] /\ (p \in unheard => p \in unheard')
              \/ Delivered(p)
<1>1. work = [p \in Client |-> work[p]] /\ phase \in [Client -> Phase] /\ unheard \subseteq Client
  BY DEF LineInv, SysTypeOK
<1> DEFINE Delivers == \/ CloseAndDeliver \/ ServeUnheard \/ ServerDiesAfterReply
<1>2. ASSUME cur.cl # nobody, conn # NoConn
      PROVE  /\ cur.cl \in Client /\ phase[cur.cl] = "asking" /\ conn.kind \in GrantKind
             /\ conn.size = Threads[cur.cl] /\ conn.tid \in Nat /\ Len(conn.handed) = conn.tid
             /\ conn.handed \in Seq(Task) /\ conn.handed \in Seq(Nat)
  <2>1. /\ cur.cl \in Client /\ phase[cur.cl] = "asking" /\ cur.kind \in GrantKind
        /\ cur.size = Threads[cur.cl]
    BY <1>2, LineFacts DEF LineInv, LinkGood, LinkOK
  <2>2. /\ conn.kind = cur.kind /\ conn.size = cur.size /\ Len(conn.handed) = conn.tid
        /\ \A t \in 1 .. conn.tid : conn.handed[t] \in Task
    BY <1>2, <2>1 DEF LineInv, ConnOK
  <2>3. conn.handed \in Seq(Nat) /\ conn.tid \in Nat
    BY DEF LineInv, SysTypeOK, TypeOK, Conn
  <2>4. conn.handed \in Seq(Task)
    <3>1. PICK h : h = conn.handed
      OBVIOUS
    <3>2. h \in Seq(Nat) /\ \A t \in 1 .. Len(h) : h[t] \in Task
      BY <2>2, <2>3, <3>1
    <3>4. h \in [1 .. Len(h) -> Task] /\ Len(h) \in Nat
      BY <3>2
    <3>3. h \in Seq(Task)
      BY <3>4
    <3> QED
      BY <3>1, <3>3
  <2> QED
    BY <2>1, <2>2, <2>3, <2>4
<1>3. ASSUME cur.cl # nobody, conn # NoConn, NEW tasks \in Seq(Task), Len(tasks) = Threads[cur.cl]
      PROVE  tasks \in [1 .. Threads[cur.cl] -> Task]
  BY <1>3
<1>4. ASSUME CloseAndDeliver, cur.cl # nobody
      PROVE  /\ Delivered(cur.cl) /\ cur.cl \in Client /\ UNCHANGED unheard
             /\ \E tasks : work' = [work EXCEPT ![cur.cl] = tasks]
             /\ \A p \in Client : p # cur.cl => phase'[p] = phase[p]
             /\ phase'[cur.cl] = "running"
  <2>1. /\ conn # NoConn /\ conn.tid = conn.size /\ conn' = NoConn /\ cur' = NoLink /\ queue' = queue
        /\ work' = [work EXCEPT ![cur.cl] = conn.handed] /\ phase' = [phase EXCEPT ![cur.cl] = "running"]
        /\ UNCHANGED <<complete, clientid, assigned, unheard>>
    BY <1>4 DEF CloseAndDeliver, Deliver, Close, GiveUp, files
  <2>2. cur.cl \in Client /\ work'[cur.cl] = conn.handed
    BY <1>1, <1>2, <1>4, <2>1
  <2> QED
    BY <1>1, <1>2, <1>3, <1>4, <2>1, <2>2 DEF Delivered
<1>5. ASSUME cur.cl # nobody, conn # NoConn, conn.tid + 1 = conn.size, NEW n \in Task
      PROVE  /\ Append(conn.handed, n) \in [1 .. Threads[cur.cl] -> Task]
             /\ cur.cl \in Client /\ conn.tid + 1 = Threads[cur.cl]
  <2>1. conn.handed \in Seq(Task) /\ Len(conn.handed) + 1 = Threads[cur.cl]
    BY <1>2, <1>5
  <2>2. /\ Append(conn.handed, n) \in Seq(Task)
        /\ Len(Append(conn.handed, n)) = Threads[cur.cl]
    BY <2>1
  <2> QED
    BY <1>2, <1>3, <1>5, <2>2
<1>6. ASSUME ServeUnheard
      PROVE  /\ Delivered(cur.cl) /\ cur.cl \in Client /\ unheard' = unheard \cup {cur.cl}
             /\ \E tasks : work' = [work EXCEPT ![cur.cl] = tasks]
             /\ \A p \in Client : p # cur.cl => phase'[p] = phase[p]
             /\ phase'[cur.cl] = "running"
  <2>1. PICK n \in Task : /\ (RequestReadFails /\ n = lu) \/ MissedFails(n)
                          /\ Deliver(Append(conn.handed, n))
    BY <1>6 DEF ServeUnheard
  <2>2. /\ cur.cl # nobody /\ conn.tid + 1 = conn.size /\ unheard' = unheard \cup {cur.cl}
        /\ queue' = queue
    BY <1>6 DEF ServeUnheard
  <2>3. /\ conn # NoConn /\ conn' = NoConn /\ UNCHANGED <<complete, clientid>>
        /\ n = lu \/ n \notin complete
    BY <2>1, Kinds DEF RequestReadFails, MissedFails, GetMissedAssignment, IsMissed, GiveUp, Serving,
                       GrantKind
  <2>4. /\ cur' = NoLink /\ work' = [work EXCEPT ![cur.cl] = Append(conn.handed, n)]
        /\ phase' = [phase EXCEPT ![cur.cl] = "running"]
    BY <2>1, <2>2 DEF Deliver
  <2>5. /\ Append(conn.handed, n) \in [1 .. Threads[cur.cl] -> Task]
        /\ cur.cl \in Client /\ conn.tid + 1 = Threads[cur.cl]
    BY <1>5, <2>2, <2>3
  <2>6. work'[cur.cl] = Append(conn.handed, n)
    BY <1>1, <2>4, <2>5
  <2>7. Delivered(cur.cl)
    BY <1>2, <2>2, <2>3, <2>4, <2>5, <2>6 DEF Delivered
  <2> QED
    BY <1>1, <2>2, <2>4, <2>5, <2>7
<1>7. ASSUME ServerDiesAfterReply
      PROVE  /\ Delivered(cur.cl) /\ cur.cl \in Client /\ unheard' \in {unheard, unheard \cup {cur.cl}}
             /\ \E tasks : work' = [work EXCEPT ![cur.cl] = tasks]
             /\ \A p \in Client : p # cur.cl => phase'[p] = phase[p] \/ phase'[p] = "idle"
             /\ phase'[cur.cl] = "running"
  <2>1. cur.cl # nobody /\ queue' = <<>> /\ cur' = NoLink
    BY <1>7 DEF ServerDiesAfterReply
  <2>2. conn # NoConn
    <3>1. cur # NoLink
      BY <2>1, Kinds
    <3> QED
      BY <3>1 DEF LineInv, ConnOK
  <2>3. /\ cur.cl \in Client /\ phase[cur.cl] = "asking"
    BY <1>2, <2>1, <2>2
  <2>4. /\ phase'[cur.cl] = "running"
        /\ \A p \in Client : p # cur.cl => phase'[p] = phase[p] \/ phase'[p] = "idle"
    BY <1>7, <2>3 DEF ServerDiesAfterReply
  <2>5. ASSUME Die, conn.tid = conn.size, work' = [work EXCEPT ![cur.cl] = conn.handed],
               UNCHANGED unheard
        PROVE  Delivered(cur.cl)
    <3>1. work'[cur.cl] = conn.handed /\ conn' = NoConn /\ UNCHANGED <<complete, clientid, assigned>>
      BY <1>1, <2>3, <2>5 DEF Die, ProcessEnds, files
    <3> QED
      BY <1>2, <1>3, <2>1, <2>2, <2>5, <3>1 DEF Delivered
  <2>6. ASSUME conn.tid + 1 = conn.size, NEW n \in Task, (DieInRequest /\ n = lu) \/ DieInMissed(n),
               work' = [work EXCEPT ![cur.cl] = Append(conn.handed, n)],
               unheard' = unheard \cup {cur.cl}
        PROVE  Delivered(cur.cl)
    <3>1. /\ conn' = NoConn /\ UNCHANGED <<complete, clientid>> /\ (n = lu \/ n \notin complete)
      BY <2>6 DEF DieInRequest, DieInMissed, IsMissed, ProcessEnds
    <3>2. work'[cur.cl] = Append(conn.handed, n)
      BY <1>1, <2>3, <2>6
    <3>3. /\ Append(conn.handed, n) \in [1 .. Threads[cur.cl] -> Task]
          /\ conn.tid + 1 = Threads[cur.cl]
      BY <1>5, <2>1, <2>2, <2>6
    <3> QED
      BY <1>2, <2>1, <2>2, <2>6, <3>1, <3>2, <3>3 DEF Delivered
  <2> QED
    BY <1>1, <1>7, <2>3, <2>4, <2>5, <2>6 DEF ServerDiesAfterReply
<1>8. ASSUME ~ (Delivers /\ cur.cl # nobody)
      PROVE  /\ work' = work /\ unheard' = unheard
             /\ \A p \in Client : phase'[p] = phase[p] \/ phase'[p] # "running"
  <2>1. ~ ServeUnheard /\ ~ ServerDiesAfterReply
    BY <1>8 DEF ServeUnheard, ServerDiesAfterReply
  <2>2. work' = work /\ unheard' = unheard
    BY <1>8, <2>1 DEF ServerStep, AcceptNext, Serve, ConnectionFails, CloseAndDeliver, Deliver,
                      ServerDies, ServerStarts, clients
  <2>3. Serve \/ ConnectionFails => \A p \in Client : phase'[p] = phase[p] \/ phase'[p] # "running"
    BY DEF Serve, ConnectionFails, Notify
  <2>4. ServerDies => \A p \in Client : phase'[p] = phase[p] \/ phase'[p] # "running"
    BY DEF ServerDies
  <2>5. AcceptNext \/ ServerStarts \/ CloseAndDeliver => phase' = phase
    BY <1>8 DEF AcceptNext, ServerStarts, CloseAndDeliver, Deliver, clients
  <2> QED
    BY <2>1, <2>2, <2>3, <2>4, <2>5 DEF ServerStep
<1>9. CASE Delivers /\ cur.cl # nobody
  <2>1. /\ Delivered(cur.cl) /\ cur.cl \in Client /\ unheard \subseteq unheard'
        /\ unheard' \subseteq unheard \cup {cur.cl}
        /\ \E tasks : work' = [work EXCEPT ![cur.cl] = tasks]
        /\ \A p \in Client : p # cur.cl => phase'[p] = phase[p] \/ phase'[p] = "idle"
        /\ phase'[cur.cl] = "running"
    BY <1>4, <1>6, <1>7, <1>9
  <2>2. PICK tasks : work' = [work EXCEPT ![cur.cl] = tasks]
    BY <2>1
  <2>3. work' = [p \in Client |-> work'[p]] /\ \A p \in Client : p # cur.cl => work'[p] = work[p]
    BY <1>1, <2>2
  <2> QED
    BY <1>1, <2>1, <2>3
<1>10. CASE ~ (Delivers /\ cur.cl # nobody)
  BY <1>1, <1>8, <1>10
<1> QED
  BY <1>9, <1>10

\* A step that leaves the line as it is, but for connections taken out or
\* given up, keeps it good.
LEMMA ServerLine ==
  ASSUME LineInv, ServerStep
  PROVE  /\ \A i \in Places' : LinkGood(At(i))'
         /\ OneAnswer'
<1>1. PICK s \in {0, 1} : \A i \in Places' :
        At(i)' = NoLink \/ (i + s \in Places /\ At(i)' = At(i + s))
  BY ServerMoves
<1>2. Places' \subseteq Nat
  BY ServerMoves DEF Places
<1>3. UNCHANGED <<life, verified>>
  BY ServerWaiters
<1>4. ASSUME NEW i \in Places'
      PROVE  LinkGood(At(i))'
  <2>1. At(i)'.cl # nobody => phase'[At(i)'.cl] = "asking"
    BY ServerWaiters
  <2>2. CASE At(i)' = NoLink
    <3>1. At(i)'.kind \notin GrantKind \cup ReportKind /\ At(i)'.cl = nobody /\ At(i)'.msgs = <<>>
      BY <2>2, Kinds
    <3>2. LinkOK(At(i))'
      BY <2>2, <3>1 DEF LinkOK
    <3>3. \A j \in 1 .. Len(At(i)'.msgs) : FALSE
      BY <3>1
    <3> QED
      BY <3>2, <3>3 DEF LinkGood
  <2>3. CASE i + s \in Places /\ At(i)' = At(i + s)
    <3>1. \E k : k = At(i + s)
      OBVIOUS
    <3>2. PICK k : k = At(i + s)
      BY <3>1
    <3>3. LinkGood(k)
      BY <2>3, <3>2 DEF LineInv
    <3>4. LinkGood(k)'
      BY <1>3, <2>1, <2>3, <3>2, <3>3, LinkKeeps
    <3>5. At(i)' = k
      BY <2>3, <3>2
    <3> QED
      BY <3>4, <3>5
  <2> QED
    BY <1>1, <2>2, <2>3
<1>5. OneAnswer'
  <2>1. SUFFICES ASSUME NEW i \in Places', NEW j \in Places', i # j, At(i)'.cl # nobody
                 PROVE  At(j)'.cl # At(i)'.cl
    BY DEF OneAnswer
  <2>2. i + s \in Places /\ At(i)' = At(i + s)
    BY <1>1, <2>1, Kinds
  <2>3. CASE At(j)' = NoLink
    BY <2>1, <2>3, Kinds
  <2>4. CASE j + s \in Places /\ At(j)' = At(j + s)
    <3>1. i + s # j + s
      BY <1>2, <2>1
    <3> QED
      BY <2>1, <2>2, <2>4, <3>1 DEF LineInv, OneAnswer
  <2> QED
    BY <1>1, <2>3, <2>4
<1> QED
  BY <1>4, <1>5

\* Only what was computed is complete.
LEMMA ServerVerified ==
  ASSUME LineInv, ServerStep
  PROVE  CompleteWasVerified'
<1>1. verified' = verified /\ complete \subseteq verified
  BY ServerWaiters DEF LineInv, CompleteWasVerified
<1>2. Serve => complete' \subseteq complete \cup verified
  BY ServeConn
<1>3. AcceptNext \/ ConnectionFails \/ CloseAndDeliver \/ ServeUnheard => complete' = complete
  BY DEF AcceptNext, Accept, ConnectionFails, Abort, CloseAndDeliver, Close, files, ServeUnheard,
         RequestReadFails, MissedFails
<1>6. ServerDiesAfterReply => complete' = complete
  BY DEF ServerDiesAfterReply, Die, DieInRequest, DieInMissed, files
<1>4. ASSUME ServerDies
      PROVE  complete' \subseteq complete \cup verified
  <2> DEFINE m == NextMsg
  <2>1. ASSUME conn.tid < Len(cur.msgs), m.task \in Task,
               NEW s \in 0 .. 4, DieInReturn(m.task, m.id, m.result, s)
        PROVE  complete' \subseteq complete \cup verified
    <3>1. conn.kind = "RET" => m.task \in verified
      BY <2>1, NextMsgFacts DEF MsgOK
    <3> HIDE DEF m
    <3> QED
      BY <2>1, <3>1 DEF DieInReturn, AcceptableReturn, Serving
  <2> HIDE DEF m
  <2>2. \A n, c : Die \/ DieInRequest \/ DieInMissed(n) \/ DieInInterrupt(n, c)
                    => complete' = complete
    BY DEF Die, DieInRequest, DieInMissed, DieInInterrupt, files
  <2> QED
    BY <1>4, <2>1, <2>2 DEF ServerDies, m
<1>5. ServerStarts => complete' \subseteq complete
  <2>1. TypeOK
    BY DEF LineInv, SysTypeOK
  <2> QED
    BY <2>1, StartFacts DEF ServerStarts, Restart
<1> QED
  BY <1>1, <1>2, <1>3, <1>4, <1>5, <1>6 DEF ServerStep, CompleteWasVerified

\* So the server's steps keep all of it.
LEMMA ServerLineStep ==
  ASSUME LineInv, ServerStep, TypeOK'
  PROVE  LineInv'
<1>1. SysTypeOK /\ \A p \in Client : phase[p] = "returning" =>
        \A t \in 1 .. Threads[p] : work[p][t] \in verified
  BY DEF LineInv
<1>2. /\ UNCHANGED <<life, outcome, verified>> /\ phase' \in [Client -> Phase]
      /\ \A p \in Client : phase'[p] # phase[p] =>
           phase[p] = "asking" /\ phase'[p] \in {"idle", "running"}
  BY ServerWaiters
<1>3. \A p \in Client : /\ work'[p] = work[p] \/ phase'[p] = "running"
                        /\ phase'[p] = "running" =>
                             \/ phase[p] = "running" /\ work'[p] = work[p]
                             \/ work'[p] \in [1 .. Threads[p] -> Task]
  BY ServerWork DEF Delivered
<1>4. \A p \in Client :
        /\ phase'[p] \in {"running", "returning", "revoking"} =>
             work'[p] \in [1 .. Threads[p] -> Task]
        /\ phase'[p] = "returning" =>
             phase[p] = "returning" /\ work'[p] = work[p]
             /\ outcome'[p] \in [1 .. Threads[p] -> Result]
  BY <1>1, <1>2, <1>3 DEF SysTypeOK
<1>5. SysTypeOK'
  BY <1>1, <1>2, <1>4, ServerMoves, ServerWork DEF SysTypeOK
<1>6. work' = [p \in Client |-> work'[p]] /\ outcome' = [p \in Client |-> outcome'[p]]
  BY <1>2, ServerWork DEF LineInv
<1>7. \A p \in Client : phase'[p] = "returning" =>
        \A t \in 1 .. Threads[p] : work'[p][t] \in verified'
  BY <1>1, <1>2, <1>4
<1> QED
  BY <1>5, <1>6, <1>7, ServerLine, ServerConnOK, ServerVerified DEF LineInv

\* A step of client p does not concern those who wait, if p does not.
LEMMA ClientLine ==
  ASSUME LineInv, NEW p \in Client, verified \subseteq verified',
         \A q \in Client : q # p => phase'[q] = phase[q] /\ life'[q] = life[q],
         \/ UNCHANGED <<queue, cur>> /\ phase[p] # "asking"
         \/ Forsake(p) /\ UNCHANGED life
         \/ \E k \in Link : /\ Connect(k) /\ UNCHANGED cur /\ phase[p] # "asking"
                            /\ LinkGood(k)' /\ k.cl \in {p, nobody}
  PROVE  /\ \A i \in Places' : LinkGood(At(i))'
         /\ OneAnswer'
<1>1. /\ \A i \in Places : LinkGood(At(i)) /\ At(i) \in Link \cup {NoLink}
      /\ \A i \in Places : At(i).cl # nobody => At(i).cl \in Client /\ phase[At(i).cl] = "asking"
      /\ OneAnswer
  BY LineFacts DEF LineInv, LinkGood, LinkOK
<1>2. ASSUME NEW k, LinkGood(k), k.cl # p
      PROVE  LinkGood(k)'
  <2>1. k.cl # nobody => phase'[k.cl] = "asking" /\ life'[k.cl] = life[k.cl]
    BY <1>2 DEF LinkGood, LinkOK
  <2> QED
    BY <1>2, <2>1, LinkKeeps
<1>3. ASSUME NEW i \in Places, NEW k, k = At(i), phase[p] # "asking", At(i)' = At(i)
      PROVE  LinkGood(At(i))'
  <2>1. LinkGood(k) /\ k.cl # p
    BY <1>1, <1>3, SystemAssumption
  <2>2. LinkGood(k)'
    BY <1>2, <2>1
  <2>3. At(i)' = k
    BY <1>3
  <2> QED
    BY <2>2, <2>3
<1>4. CASE UNCHANGED <<queue, cur>> /\ phase[p] # "asking"
  <2>1. Places' = Places /\ \A i \in Places : At(i)' = At(i)
    BY <1>4 DEF Places, At
  <2>2. \A i \in Places' : LinkGood(At(i))'
    BY <1>3, <1>4, <2>1
  <2> QED
    BY <1>1, <2>1, <2>2 DEF OneAnswer
<1>5. CASE Forsake(p) /\ UNCHANGED life
  <2>1. Places' = Places /\ \A i \in Places : \E s \in Nat : At(i)' = Orphan(At(i), s, p)
    BY <1>5, ForsakeMoves
  <2>2. \A i \in Places : At(i)'.cl # nobody => At(i)' = At(i)
    BY <1>1, <2>1, OrphanFacts
  <2>3. ASSUME NEW i \in Places'
        PROVE  LinkGood(At(i))'
    <3>1. PICK s \in Nat : At(i)' = Orphan(At(i), s, p)
      BY <2>1
    <3>2. PICK k : k = Orphan(At(i), s, p)
      OBVIOUS
    <3>3. LinkGood(k) /\ k.cl # p
      BY <1>1, <2>1, <3>2, OrphanKeeps, OrphanFacts
    <3>4. LinkGood(k)'
      BY <1>2, <3>3
    <3>5. At(i)' = k
      BY <3>1, <3>2
    <3> QED
      BY <3>4, <3>5
  <2>4. OneAnswer'
    <3>1. SUFFICES ASSUME NEW i \in Places, NEW j \in Places, i # j, At(i)'.cl # nobody
                   PROVE  At(j)'.cl # At(i)'.cl
      BY <2>1 DEF OneAnswer
    <3>2. At(i)' = At(i) /\ (At(j)'.cl = nobody \/ At(j)' = At(j))
      BY <2>2, <3>1
    <3> QED
      BY <1>1, <3>1, <3>2 DEF OneAnswer
  <2> QED
    BY <2>3, <2>4
<1>6. ASSUME NEW k \in Link, Connect(k), UNCHANGED cur, phase[p] # "asking",
             LinkGood(k)', k.cl \in {p, nobody}
      PROVE  (\A i \in Places' : LinkGood(At(i))') /\ OneAnswer'
  <2>1. /\ \A i \in Places : At(i)' = At(i)
        /\ \A i \in Places' : i \notin Places => i = Len(queue) + 1 /\ At(i)' = k
    BY <1>6, ConnectMoves
  <2>2. ASSUME NEW i \in Places'
        PROVE  LinkGood(At(i))'
    <3>1. CASE i \in Places
      BY <1>3, <1>6, <2>1, <3>1
    <3>2. CASE i \notin Places
      BY <1>6, <2>1, <3>2
    <3> QED
      BY <3>1, <3>2
  <2>3. \A i \in Places : At(i)'.cl # p
    BY <1>1, <1>6, <2>1, SystemAssumption
  <2>4. OneAnswer'
    <3>1. SUFFICES ASSUME NEW i \in Places', NEW j \in Places', i # j, At(i)'.cl # nobody
                   PROVE  At(j)'.cl # At(i)'.cl
      BY DEF OneAnswer
    <3>2. CASE i \in Places /\ j \in Places
      BY <1>1, <2>1, <3>1, <3>2 DEF OneAnswer
    <3>3. CASE i \in Places /\ j \notin Places
      BY <1>6, <2>1, <2>3, <3>1, <3>3
    <3>4. CASE i \notin Places /\ j \in Places
      BY <1>6, <2>1, <2>3, <3>1, <3>4
    <3> QED
      BY <2>1, <3>1, <3>2, <3>3, <3>4
  <2> QED
    BY <2>2, <2>4
<1> QED
  BY <1>4, <1>5, <1>6

\* What a client sends are connections of the right type.
LEMMA RequestGood ==
  ASSUME LineInv, NEW p \in Client, NEW k, phase'[p] = "asking", life' = life,
         k = [cl |-> p, kind |-> Mode[p], size |-> Threads[p],
              msgs |-> [t \in 1 .. Threads[p] |->
                [id |-> Id(p, life[p], t), task |-> NumTasks, result |-> NoRecord]]]
  PROVE  k \in Link /\ LinkGood(k)'
<1>1. /\ Threads[p] \in 1 .. MaxThreads /\ Mode[p] \in GrantKind /\ MaxThreads \in Nat
      /\ life[p] \in 1 .. MaxLives
  BY SystemAssumption, MaxThreadsAssumption DEF LineInv, SysTypeOK
<1>2. \A t \in 1 .. Threads[p] :
        [id |-> Id(p, life[p], t), task |-> NumTasks, result |-> NoRecord] \in Message
  BY <1>1, IdsAssumption DEF Message
<1>3. k.msgs \in Seq(Message) /\ Len(k.msgs) = Threads[p]
  <2> DEFINE m(t) == [id |-> Id(p, life[p], t), task |-> NumTasks, result |-> NoRecord]
  <2>1. \A t \in 1 .. Threads[p] : m(t) \in Message
    BY <1>2
  <2>2. k.msgs = [t \in 1 .. Threads[p] |-> m(t)]
    OBVIOUS
  <2> HIDE DEF m
  <2>3. PICK n, ms : n = Threads[p] /\ ms = k.msgs
    OBVIOUS
  <2>4. n \in Nat /\ ms = [t \in 1 .. n |-> m(t)] /\ \A t \in 1 .. n : m(t) \in Message
    BY <1>1, <2>1, <2>2, <2>3
  <2>6. ms \in Seq(Message) /\ Len(ms) = n
    BY <2>4
  <2> QED
    BY <2>3, <2>6
<1>4. k \in Link
  BY <1>1, <1>3 DEF Link
<1>5. LinkOK(k)'
  BY <1>1, <1>3, <1>4 DEF LinkOK
<1>6. \A j \in 1 .. Len(k.msgs) : MsgOK(k, k.msgs[j])'
  BY <1>1, Kinds DEF MsgOK, GrantKind, ReportKind
<1> QED
  BY <1>4, <1>5, <1>6 DEF LinkGood

\* A batch that a client sends to report on its work fits its tasks and, if
\* it returns them, its results.
LEMMA ReportGood ==
  ASSUME LineInv, NEW p \in Client, phase[p] \in {"returning", "revoking"},
         NEW n \in 1 .. Threads[p], verified' = verified, NEW k, k = Batch(p, n)
  PROVE  /\ k \in Link /\ LinkGood(k)' /\ k.cl = nobody
         /\ k.kind = (IF phase[p] = "returning" THEN "RET" ELSE "INT")
         /\ Len(k.msgs) = n
         /\ \A t \in 1 .. n : /\ k.msgs[t].id = Id(p, life[p], t)
                              /\ k.msgs[t].task = work[p][t]
                              /\ phase[p] = "returning" => k.msgs[t].result = outcome[p][t]
<1> DEFINE m(t) == [id |-> Id(p, life[p], t), task |-> work[p][t],
                    result |-> IF phase[p] = "returning" THEN outcome[p][t] ELSE NoRecord]
<1>1. /\ Threads[p] \in 1 .. MaxThreads /\ MaxThreads \in Nat /\ life[p] \in 1 .. MaxLives
      /\ work[p] \in [1 .. Threads[p] -> Task]
      /\ phase[p] = "returning" =>
           /\ outcome[p] \in [1 .. Threads[p] -> Result]
           /\ \A t \in 1 .. Threads[p] : work[p][t] \in verified
  BY SystemAssumption, MaxThreadsAssumption DEF LineInv, SysTypeOK
<1>2. \A t \in 1 .. n : m(t) \in Message
  BY <1>1, IdsAssumption DEF Message
<1> HIDE DEF m
<1>3. /\ k.cl = nobody /\ k.kind = (IF phase[p] = "returning" THEN "RET" ELSE "INT")
      /\ k.size = Threads[p] /\ k.msgs = [t \in 1 .. n |-> m(t)]
  BY DEF Batch, m
<1>4. k.msgs \in Seq(Message) /\ Len(k.msgs) = n
  BY <1>1, <1>2, <1>3
<1>5. k \in Link /\ k.kind \in ReportKind
  BY <1>1, <1>3, <1>4 DEF Link, Batch, ReportKind
<1>6. LinkOK(k)'
  BY <1>3, <1>5, Kinds DEF LinkOK
<1>7. \A t \in 1 .. n : /\ k.msgs[t].id = Id(p, life[p], t)
                        /\ k.msgs[t].task = work[p][t]
                        /\ phase[p] = "returning" => k.msgs[t].result = outcome[p][t]
  BY <1>3 DEF m
<1>8. ASSUME NEW j \in 1 .. Len(k.msgs)
      PROVE  MsgOK(k, k.msgs[j])'
  <2>1. j \in 1 .. n /\ j \in 1 .. Threads[p]
    BY <1>1, <1>4
  <2>2. work[p][j] \in Task
    BY <1>1, <2>1
  <2>3. phase[p] = "returning" => outcome[p][j] \in Result /\ work[p][j] \in verified
    BY <1>1, <2>1
  <2>4. k.kind = "RET" => phase[p] = "returning"
    BY <1>3
  <2> QED
    BY <1>7, <2>1, <2>2, <2>3, <2>4 DEF MsgOK
<1> QED
  BY <1>3, <1>4, <1>5, <1>6, <1>7, <1>8 DEF LinkGood

\* What the clients do behind its back leaves the server's connection alone.
LEMMA ClientConnOK ==
  ASSUME LineInv, NEW p \in Client, UNCHANGED vars,
         \/ UNCHANGED <<queue, cur>>
         \/ Forsake(p)
         \/ \E k \in Link : Connect(k) /\ UNCHANGED cur
  PROVE  /\ ConnOK'
         /\ queue' \in Seq(Link) /\ Len(queue') <= MaxQueue /\ cur' \in Link \cup {NoLink}
<1>1. UNCHANGED <<up, conn>> /\ ConnOK
  BY DEF vars, LineInv
<1>2. queue \in Seq(Link) /\ Len(queue) <= MaxQueue /\ cur \in Link \cup {NoLink}
  BY DEF LineInv, SysTypeOK
<1>3. CASE UNCHANGED <<queue, cur>>
  BY <1>1, <1>2, <1>3 DEF ConnOK
<1>4. CASE Forsake(p)
  <2>1. /\ queue' \in Seq(Link) /\ Len(queue') = Len(queue)
        /\ cur' \in Link \cup {NoLink} /\ cur'.kind = cur.kind /\ cur'.size = cur.size
        /\ (cur = NoLink => cur' = NoLink) /\ (cur \in Link => cur' \in Link)
    BY <1>4, ForsakeMoves
  <2>2. queue = <<>> => queue' = <<>>
    <3>1. Len(<<>>) = 0
      OBVIOUS
    <3>2. Len(queue') = 0 => queue' = <<>>
      BY <2>1
    <3> QED
      BY <2>1, <3>1, <3>2
  <2> QED
    BY <1>1, <1>2, <2>1, <2>2 DEF ConnOK
<1>5. ASSUME NEW k \in Link, Connect(k), UNCHANGED cur
      PROVE  ConnOK' /\ queue' \in Seq(Link) /\ Len(queue') <= MaxQueue
  <2>1. up
    BY <1>5 DEF Connect
  <2> QED
    BY <1>1, <1>5, <2>1, ConnectMoves DEF ConnOK
<1> QED
  BY <1>2, <1>3, <1>4, <1>5

\* Nor do they concern the other clients.
LEMMA ClientOthers ==
  ASSUME LineInv, NEW p \in Client, ClientStep(p)
  PROVE  /\ UNCHANGED vars /\ verified \subseteq verified' /\ unheard' \subseteq Client
         /\ phase' \in [Client -> Phase] /\ life' \in [Client -> 1 .. MaxLives]
         /\ work' = [q \in Client |-> work'[q]] /\ outcome' = [q \in Client |-> outcome'[q]]
         /\ \A q \in Client : q # p =>
              /\ phase'[q] = phase[q] /\ life'[q] = life[q]
              /\ work'[q] = work[q] /\ outcome'[q] = outcome[q]
<1>1. /\ phase \in [Client -> Phase] /\ life \in [Client -> 1 .. MaxLives]
      /\ work = [q \in Client |-> work[q]] /\ outcome = [q \in Client |-> outcome[q]]
      /\ {"idle", "asking", "running", "returning", "revoking", "stopped"} = Phase
  BY DEF LineInv, SysTypeOK, Phase
<1> HIDE DEF Phase
<1>11. unheard' \subseteq unheard
  BY DEF ClientStep, Ask, AskFails, RunSucceeds, RunFails, ReportSent, ReportFails,
         ClientStops, ClientStarts
<1>12. unheard' \subseteq Client
  BY <1>11 DEF LineInv, SysTypeOK
<1>2. UNCHANGED vars /\ verified \subseteq verified'
  BY DEF ClientStep, Ask, AskFails, RunSucceeds, RunFails, ReportSent, ReportFails,
         ClientStops, ClientStarts
<1>3. UNCHANGED phase \/ \E w \in Phase : phase' = [phase EXCEPT ![p] = w]
  BY <1>1 DEF ClientStep, Ask, AskFails, RunSucceeds, RunFails, ReportSent, ReportFails,
              ClientStops, ClientStarts, clients
<1>4. UNCHANGED life \/ (life[p] < MaxLives /\ life' = [life EXCEPT ![p] = life[p] + 1])
  BY DEF ClientStep, Ask, AskFails, RunSucceeds, RunFails, ReportSent, ReportFails,
         ClientStops, ClientStarts, clients
<1>5. UNCHANGED work \/ work' = [work EXCEPT ![p] = <<>>]
  BY DEF ClientStep, Ask, AskFails, RunSucceeds, RunFails, ReportSent, ReportFails,
         ClientStops, ClientStarts, clients
<1>6. UNCHANGED outcome \/ \E r : outcome' = [outcome EXCEPT ![p] = r]
  BY DEF ClientStep, Ask, AskFails, RunSucceeds, RunFails, ReportSent, ReportFails,
         ClientStops, ClientStarts, clients
<1>7. life' \in [Client -> 1 .. MaxLives] /\ \A q \in Client : q # p => life'[q] = life[q]
  BY <1>1, <1>4, SystemAssumption
<1>8. phase' \in [Client -> Phase] /\ \A q \in Client : q # p => phase'[q] = phase[q]
  BY <1>1, <1>3
<1>9. work' = [q \in Client |-> work'[q]] /\ \A q \in Client : q # p => work'[q] = work[q]
  BY <1>1, <1>5
<1>10. /\ outcome' = [q \in Client |-> outcome'[q]]
       /\ \A q \in Client : q # p => outcome'[q] = outcome[q]
  BY <1>1, <1>6
<1> QED
  BY <1>2, <1>7, <1>8, <1>9, <1>10, <1>12

\* A process has as many tasks and results as threads, and what it is about
\* to return it computed.
LEMMA ClientOwn ==
  ASSUME LineInv, NEW p \in Client, ClientStep(p)
  PROVE  /\ verified' \subseteq Task
         /\ phase'[p] \in {"running", "returning", "revoking"} =>
              phase[p] \in {"running", "returning", "revoking"} /\ work'[p] = work[p]
              /\ work'[p] \in [1 .. Threads[p] -> Task]
         /\ phase'[p] = "returning" =>
              /\ outcome'[p] \in [1 .. Threads[p] -> Result]
              /\ \A t \in 1 .. Threads[p] : work'[p][t] \in verified'
<1>1. /\ phase \in [Client -> Phase] /\ verified \subseteq Task
      /\ phase[p] \in {"running", "returning", "revoking"} => work[p] \in [1 .. Threads[p] -> Task]
      /\ phase[p] = "returning" => /\ outcome[p] \in [1 .. Threads[p] -> Result]
                                   /\ \A t \in 1 .. Threads[p] : work[p][t] \in verified
      /\ outcome = [q \in Client |-> outcome[q]]
  BY DEF LineInv, SysTypeOK
<1>2. ASSUME NEW r \in [1 .. Threads[p] -> Outcome[p]], RunSucceeds(p, r)
      PROVE  /\ verified' \subseteq Task /\ phase[p] = "running" /\ work' = work
             /\ outcome'[p] \in [1 .. Threads[p] -> Result]
             /\ \A t \in 1 .. Threads[p] : work'[p][t] \in verified'
  <2>1. /\ phase[p] = "running" /\ work' = work /\ outcome' = [outcome EXCEPT ![p] = r]
        /\ verified' = verified \cup {work[p][t] : t \in 1 .. Threads[p]}
    BY <1>2 DEF RunSucceeds
  <2>2. outcome'[p] = r
    BY <1>1, <2>1
  <2>3. Outcome[p] \subseteq Result
    BY SystemAssumption
  <2>4. r \in [1 .. Threads[p] -> Result]
    BY <2>3
  <2>5. verified' \subseteq Task
    BY <1>1, <2>1
  <2> QED
    BY <2>1, <2>2, <2>4, <2>5
<1>3. ASSUME RunFails(p) \/ \E k \in 1 .. Threads[p] - 1 : ReportFails(p, k)
      PROVE  /\ UNCHANGED <<work, outcome, verified>>
             /\ phase[p] \in {"running", "returning", "revoking"}
             /\ phase'[p] = "returning" => phase[p] = "returning"
  BY <1>1, <1>3 DEF RunFails, ReportFails, clients
<1>4. ASSUME Ask(p) \/ AskFails(p) \/ ReportSent(p) \/ ClientStops(p) \/ ClientStarts(p)
      PROVE  UNCHANGED verified /\ phase'[p] \in {"idle", "asking", "stopped"}
  BY <1>1, <1>4 DEF Ask, AskFails, ReportSent, ClientStops, ClientStarts
<1>5. CASE \E r \in [1 .. Threads[p] -> Outcome[p]] : RunSucceeds(p, r)
  BY <1>1, <1>2, <1>5
<1>6. CASE RunFails(p) \/ \E k \in 1 .. Threads[p] - 1 : ReportFails(p, k)
  BY <1>1, <1>3, <1>6
<1>7. CASE Ask(p) \/ AskFails(p) \/ ReportSent(p) \/ ClientStops(p) \/ ClientStarts(p)
  BY <1>1, <1>4, <1>7
<1> QED
  BY <1>5, <1>6, <1>7 DEF ClientStep

\* What a client does to the line: it may leave it, or stand in it anew.
LEMMA ClientMoves ==
  ASSUME LineInv, NEW p \in Client, ClientStep(p)
  PROVE  \/ UNCHANGED <<queue, cur>> /\ phase[p] # "asking"
         \/ Forsake(p) /\ UNCHANGED life
         \/ \E k \in Link : /\ Connect(k) /\ UNCHANGED cur /\ phase[p] # "asking"
                            /\ LinkGood(k)' /\ k.cl \in {p, nobody}
<1>1. phase \in [Client -> Phase] /\ Threads[p] \in 1 .. MaxThreads /\ MaxThreads \in Nat
  BY SystemAssumption, MaxThreadsAssumption DEF LineInv, SysTypeOK
<1>2. ASSUME Ask(p)
      PROVE  \E k \in Link : /\ Connect(k) /\ UNCHANGED cur /\ phase[p] # "asking"
                             /\ LinkGood(k)' /\ k.cl \in {p, nobody}
  <2>1. PICK k : k = [cl |-> p, kind |-> Mode[p], size |-> Threads[p],
                      msgs |-> [t \in 1 .. Threads[p] |->
                        [id |-> Id(p, life[p], t), task |-> NumTasks, result |-> NoRecord]]]
    OBVIOUS
  <2>2. /\ Connect(k) /\ UNCHANGED <<cur, life>> /\ phase[p] = "idle"
        /\ phase' = [phase EXCEPT ![p] = "asking"]
    BY <1>2, <2>1 DEF Ask
  <2>3. phase'[p] = "asking"
    BY <1>1, <2>2
  <2>4. k \in Link /\ LinkGood(k)'
    BY <2>1, <2>2, <2>3, RequestGood
  <2> QED
    BY <2>1, <2>2, <2>4
<1>3. ASSUME NEW n \in 1 .. Threads[p], phase[p] \in {"returning", "revoking"},
             Connect(Batch(p, n)), UNCHANGED <<cur, verified>>
      PROVE  \E k \in Link : /\ Connect(k) /\ UNCHANGED cur /\ phase[p] # "asking"
                             /\ LinkGood(k)' /\ k.cl \in {p, nobody}
  <2>1. PICK k : k = Batch(p, n)
    OBVIOUS
  <2>2. k \in Link /\ LinkGood(k)' /\ k.cl = nobody
    BY <1>3, <2>1, ReportGood
  <2>3. Connect(k)
    BY <1>3, <2>1
  <2> QED
    BY <1>3, <2>2, <2>3
<1>4. ReportSent(p) => /\ phase[p] \in {"returning", "revoking"}
                       /\ Connect(Batch(p, Threads[p])) /\ UNCHANGED <<cur, verified>>
  BY DEF ReportSent
<1>5. \A k : ReportFails(p, k) => /\ phase[p] \in {"returning", "revoking"}
                                  /\ Connect(Batch(p, k)) /\ UNCHANGED <<cur, verified>>
  BY DEF ReportFails
<1>6. AskFails(p) \/ ClientStops(p) => Forsake(p) /\ UNCHANGED life
  BY DEF AskFails, ClientStops
<1>7. RunFails(p) \/ ClientStarts(p) \/ (\E r : RunSucceeds(p, r)) =>
        UNCHANGED <<queue, cur>> /\ phase[p] # "asking"
  BY DEF RunFails, ClientStarts, RunSucceeds
<1>8. Threads[p] \in 1 .. Threads[p] /\ 1 .. Threads[p] - 1 \subseteq 1 .. Threads[p]
  BY <1>1
<1> QED
  BY <1>2, <1>3, <1>4, <1>5, <1>6, <1>7, <1>8 DEF ClientStep

\* No step of a client breaks the invariant of the line.
LEMMA ClientLineStep ==
  ASSUME LineInv, NEW p \in Client, ClientStep(p)
  PROVE  LineInv'
<1>1. ConnOK' /\ queue' \in Seq(Link) /\ Len(queue') <= MaxQueue /\ cur' \in Link \cup {NoLink}
  BY ClientOthers, ClientMoves, ClientConnOK
<1>2. (\A i \in Places' : LinkGood(At(i))') /\ OneAnswer'
  BY ClientOthers, ClientMoves, ClientLine
<1>3. TypeOK' /\ complete' = complete
  BY ClientOthers, TypeStep DEF LineInv, SysTypeOK, vars, files
<1>4. \A q \in Client :
        /\ phase'[q] \in {"running", "returning", "revoking"} =>
             work'[q] \in [1 .. Threads[q] -> Task]
        /\ phase'[q] = "returning" =>
             /\ outcome'[q] \in [1 .. Threads[q] -> Result]
             /\ \A t \in 1 .. Threads[q] : work'[q][t] \in verified'
  <2>1. \A q \in Client : q # p =>
          /\ phase'[q] = phase[q] /\ work'[q] = work[q] /\ outcome'[q] = outcome[q]
    BY ClientOthers
  <2>2. verified \subseteq verified'
    BY ClientOthers
  <2>3. \A q \in Client :
          /\ phase[q] \in {"running", "returning", "revoking"} =>
               work[q] \in [1 .. Threads[q] -> Task]
          /\ phase[q] = "returning" =>
               /\ outcome[q] \in [1 .. Threads[q] -> Result]
               /\ \A t \in 1 .. Threads[q] : work[q][t] \in verified
    BY DEF LineInv, SysTypeOK
  <2> TAKE q \in Client
  <2>4. CASE q = p
    BY <2>4, ClientOwn
  <2>5. CASE q # p
    BY <2>1, <2>2, <2>3, <2>5
  <2> QED
    BY <2>4, <2>5
<1>5. SysTypeOK'
  BY <1>1, <1>3, <1>4, ClientOthers, ClientOwn DEF SysTypeOK
<1>6. CompleteWasVerified'
  BY <1>3, ClientOthers DEF LineInv, CompleteWasVerified
<1> QED
  BY <1>1, <1>2, <1>4, <1>5, <1>6, ClientOthers DEF LineInv

\* At the start nobody is in the line.
LEMMA LineInit ==
  ASSUME SysInit
  PROVE  LineInv
<1>1. /\ Init /\ queue = <<>> /\ cur = NoLink /\ verified = {} /\ Len(<<>>) = 0
      /\ up = FALSE /\ conn = NoConn /\ complete = {}
  BY DEF SysInit, Init
<1>2. TypeOK
  BY <1>1, InitType
<1>3. 1 \in 1 .. MaxLives /\ 0 <= MaxQueue /\ <<>> \in Seq(Link)
  BY SystemAssumption
<1>4. SysTypeOK
  BY <1>1, <1>2, <1>3 DEF SysInit, SysTypeOK, Phase
<1>5. Places = {0} /\ At(0) = NoLink
  BY <1>1 DEF Places, At
<1>6. LinkGood(NoLink)
  BY Kinds DEF LinkGood, LinkOK, NoLink
<1>7. ConnOK
  BY <1>1, Kinds DEF ConnOK
<1>8. \A p \in Client : phase[p] # "returning"
  BY DEF SysInit
<1>9. work = [p \in Client |-> work[p]] /\ outcome = [p \in Client |-> outcome[p]]
  BY DEF SysInit
<1> QED
  BY <1>1, <1>4, <1>5, <1>6, <1>7, <1>8, <1>9 DEF LineInv, OneAnswer, CompleteWasVerified

\* Nor does any other step.
LEMMA LineStep ==
  ASSUME LineInv, [SysNext]_sysVars
  PROVE  LineInv'
<1>1. TypeOK'
  BY ServerAction, TypeStep DEF LineInv, SysTypeOK
<1>2. ASSUME ServerStep
      PROVE  LineInv'
  BY <1>1, <1>2, ServerLineStep
<1>3. ASSUME NEW p \in Client, ClientStep(p)
      PROVE  LineInv'
  BY <1>3, ClientLineStep
<1>4. ASSUME UNCHANGED sysVars
      PROVE  LineInv'
  <2>1. UNCHANGED <<phase, life, work, outcome, queue, cur, verified, unheard, conn, up, complete>>
    BY <1>4 DEF sysVars, clients, vars, files
  <2>2. Places' = Places /\ \A i \in Places : At(i)' = At(i)
    BY <2>1 DEF Places, At
  <2>3. \A i \in Places : LinkGood(At(i))' <=> LinkGood(At(i))
    BY <2>1, <2>2 DEF LinkGood, LinkOK, MsgOK
  <2>4. OneAnswer'
    BY <2>2 DEF LineInv, OneAnswer
  <2>5. ConnOK' /\ CompleteWasVerified' /\ SysTypeOK'
    BY <1>1, <2>1 DEF LineInv, ConnOK, CompleteWasVerified, SysTypeOK
  <2> QED
    BY <2>1, <2>2, <2>3, <2>4, <2>5 DEF LineInv
<1> QED
  BY <1>2, <1>3, <1>4 DEF SysNext

\* The strengthening of the next two theorems: at any moment, the connections
\* of the backlog and the one being served are what the clients sent, and
\* each client that waits does so for one of them.
THEOREM LineCorrect == SysSpec => []LineInv
  BY LineInit, LineStep, PTL DEF SysSpec

\* The clients use the server as module Server lets anyone use it, so what
\* is proved of Server holds of the system: exact pointers, a frontier that
\* never retreats, batches without gaps.
THEOREM UsesServer == SysSpec => Spec
<1>1. SysInit => Init
  BY DEF SysInit
<1>2. LineInv /\ [SysNext]_sysVars => [Next]_vars
  BY ServerAction
<1> QED
  BY <1>1, <1>2, LineCorrect, PTL DEF SysSpec, Spec

\* No client ever runs or returns anything but as many tasks as it has
\* threads, however its batch was cut short and whatever it read.
THEOREM SysTypeCorrect == SysSpec => []SysTypeOK
<1>1. LineInv => SysTypeOK
  BY DEF LineInv
<1> QED
  BY <1>1, LineCorrect, PTL

\* The server believes only what was computed, whatever was lost, repeated,
\* delayed or stolen, and even if client IDs are all 0.
THEOREM VerifiedCorrect == SysSpec => []CompleteWasVerified
<1>1. LineInv => CompleteWasVerified
  BY DEF LineInv
<1> QED
  BY <1>1, LineCorrect, PTL

-----------------------------------------------------------------------------
(* From here on clients can be told apart: what the tables say of a task   *)
(* agrees with the workers that have it.  Reports arrive late, twice, or   *)
(* after the task went to someone else; a retry meets the trace of a kill. *)
(* That nothing goes wrong rests on the order of the line: a client that   *)
(* asks again has all its reports before it.                               *)

-----------------------------------------------------------------------------
(* Client IDs tell processes apart if they were drawn.                     *)

\* A report of the process that client p now is, and of its thread t.
ReportOf(k, m, p, t) == k.kind \in ReportKind /\ m.id = Id(p, life[p], t)

\* First come, first served: behind a request that a client waits for there
\* is no report of an earlier round.
InOrder ==
  \A i, j \in Places : i < j /\ At(i).cl # nobody =>
    \A u \in 1 .. Len(At(j).msgs), t \in 1 .. Threads[At(i).cl] :
      ~ReportOf(At(j), At(j).msgs[u], At(i).cl, t)

\* So the reports of a process are all of one round, and gone when the next
\* one runs.
OneRound(k, m) ==
  \A p \in Client : \A t \in 1 .. Threads[p] : ReportOf(k, m, p, t) =>
    /\ phase[p] # "running"
    /\ phase[p] = "returning" =>
         k.kind = "RET" /\ m.task = work[p][t] /\ m.result = outcome[p][t]
    /\ phase[p] = "revoking" => k.kind = "INT"

\* A complete task with an ID is one whose RET was killed: nothing is sent
\* about it any more, or will be, but the same result again.
TornMsg(k, m) ==
  /\ m.id # NoId
  /\ k.kind \in ReportKind /\ m.task \in complete /\ clientid[m.task] = m.id
     => k.kind = "RET" /\ m.result.checksum \in KnownChecksum

TornWork ==
  \A p \in Client : \A t \in 1 .. Threads[p] :
    /\ phase[p] \in {"running", "returning", "revoking"}
    /\ work[p][t] \in complete
    /\ clientid[work[p][t]] = Id(p, life[p], t)
    => phase[p] = "returning" /\ outcome[p][t].checksum \in KnownChecksum

\* What holds of the messages in the line.
MsgsInv ==
  \A i \in Places : \A j \in 1 .. Len(At(i).msgs) :
    OneRound(At(i), At(i).msgs[j]) /\ TornMsg(At(i), At(i).msgs[j])

\* What the batch being served was given is reserved and still to do.
HandedFresh ==
  conn.kind \in GrantKind =>
    \A t \in 1 .. conn.tid : conn.handed[t] \in assigned \ complete

RoundInv ==
  /\ InOrder
  /\ MsgsInv
  /\ TornWork
  /\ HandedFresh
  /\ CompleteIsAssigned

-----------------------------------------------------------------------------
\* A thread holds task n if the server knows it by the ID c of the thread.
Held(n, c) == n \in assigned \ complete /\ clientid[n] = c

\* Without `req' a task given to a thread is held by that thread, from the
\* time it was handed out until it is returned.
HandedHeld ==
  conn.kind \in GrantKind =>
    \A t \in 1 .. conn.tid :
      t \in 1 .. Len(cur.msgs) /\ Held(conn.handed[t], cur.msgs[t].id)

RunningHeld ==
  \A p \in Client : \A t \in 1 .. Threads[p] :
    phase[p] = "running" /\ Heard(p, t) => Held(work[p][t], Id(p, life[p], t))

NoMissed == \A p \in Client : Mode[p] # "req"

HeldInv == NoMissed => HandedHeld /\ RunningHeld

-----------------------------------------------------------------------------
(* What a handler does to the tables, for the message m. *)

Granted(n, m) ==
  /\ conn.kind \in GrantKind
  /\ n \in Task
  /\ IF conn.kind = "req" THEN n \notin complete ELSE n \notin assigned
  /\ assigned' = assigned \cup {n}
  /\ UNCHANGED <<complete, record>>
  /\ \/ conn' = NoConn /\ UNCHANGED clientid
     \/ (conn' = NoConn \/ NextMessage(<<n>>)) /\ SetClientId(n, m.id)

Freed(m) ==
  /\ m.task \in Task /\ clientid[m.task] = m.id
  /\ assigned' = assigned \ {m.task}
  /\ UNCHANGED <<complete, record>>
  /\ \/ /\ conn.kind = "RET" /\ m.result.checksum \notin KnownChecksum
        /\ UNCHANGED clientid
     \/ conn.kind = "INT" /\ (SetClientId(m.task, NoId) \/ UNCHANGED clientid)

Finished(m, s) ==
  /\ conn.kind = "RET" /\ m.result.checksum \in KnownChecksum
  /\ m.task \in assigned /\ m.task \in Task /\ clientid[m.task] = m.id
  /\ complete' = complete \cup {m.task}
  /\ record' = [record EXCEPT ![m.task] = Stored(@, m.result, s)]
  /\ UNCHANGED assigned

\* Nothing else happens to them while the server runs.
LEMMA ServeEffect ==
  ASSUME LineInv, PointersExact, Serve
  PROVE  \/ UNCHANGED files /\ (conn' = NoConn \/ conn.kind \in ReportKind)
         \/ \E n : Granted(n, NextMsg)
         \/ conn.kind \in ReportKind /\ Freed(NextMsg)
              /\ (conn.kind = "INT" => SetClientId(NextMsg.task, NoId))
         \/ Finished(NextMsg, 4) /\ SetClientId(NextMsg.task, NoId)
<1> DEFINE m == NextMsg
<1>1. Handle(m) /\ assigned \in SUBSET Task /\ 0 \in 0 .. NumTasks
  BY NumTasksAssumption DEF Serve, LineInv, SysTypeOK, TypeOK
<1>2. up => lu \notin assigned
  BY <1>1, ScanSpec DEF PointersExact, IsFirstFree
<1> HIDE DEF m
<1>3. ASSUME RequestServed(m.id) \/ BatchRequestServed(m.id)
      PROVE  Granted(lu, m)
  BY <1>2, <1>3 DEF RequestServed, BatchRequestServed, GetAssignment, GiveUp, Serving,
                    GrantKind, Granted
<1>4. ASSUME RequestWriteFails
      PROVE  Granted(lu, m)
  BY <1>2, <1>4 DEF RequestWriteFails, GetAssignment, GiveUp, Serving, GrantKind, Granted
<1>5. ASSUME RequestReadFails
      PROVE  UNCHANGED files /\ conn' = NoConn
  BY <1>2, <1>5 DEF RequestReadFails, GiveUp, Serving, files
<1>6. ASSUME NEW n \in Task, MissedServed(n, m.id) \/ MissedFails(n)
      PROVE  Granted(n, m)
  BY <1>6 DEF MissedServed, MissedFails, GetMissedAssignment, IsMissed, GiveUp, Serving,
              GrantKind, Granted
<1>7. ASSUME \/ ReturnForeign(m.task, m.id) \/ ReturnZero(m.task, m.id, m.result)
             \/ ReturnUnassigned(m.task, m.id, m.result) \/ InterruptForeign(m.task, m.id)
      PROVE  UNCHANGED files /\ conn.kind \in ReportKind
  BY <1>7 DEF ReturnForeign, ReturnZero, ReturnUnassigned, InterruptForeign, Serving, ReportKind
<1>8. ASSUME m.task \in Task,
             ReturnSuspicious(m.task, m.id, m.result) \/ InterruptAccepted(m.task, m.id)
      PROVE  /\ conn.kind \in ReportKind /\ Freed(m)
             /\ conn.kind = "INT" => SetClientId(m.task, NoId)
  BY <1>8 DEF ReturnSuspicious, InterruptAccepted, UnsetAssignment, Serving, ReportKind, Freed
<1>9. ASSUME m.task \in Task, ReturnAccepted(m.task, m.id, m.result)
      PROVE  Finished(m, 4) /\ SetClientId(m.task, NoId)
  BY <1>9 DEF ReturnAccepted, AcceptableReturn, SetComplete, Serving, Finished
<1> QED
  BY <1>1, <1>3, <1>4, <1>5, <1>6, <1>7, <1>8, <1>9 DEF Handle, m

\* If it hears nothing of a client it may reserve a task, and no more.
LEMMA UnheardEffect ==
  ASSUME LineInv, PointersExact, ServeUnheard
  PROVE  /\ conn' = NoConn /\ UNCHANGED <<complete, record, clientid>>
         /\ assigned \subseteq assigned'
<1>1. assigned \in SUBSET Task /\ 0 \in 0 .. NumTasks
  BY NumTasksAssumption DEF LineInv, SysTypeOK, TypeOK
<1>2. up => lu \notin assigned
  BY <1>1, ScanSpec DEF PointersExact, IsFirstFree
<1>3. RequestReadFails \/ \E n \in Task : MissedFails(n)
  BY DEF ServeUnheard
<1> QED
  BY <1>2, <1>3 DEF RequestReadFails, MissedFails, GetMissedAssignment, GiveUp, Serving

\* So when it dies, unless it dies inside a report.
LEMMA DeathEffect ==
  ASSUME LineInv, Dies
  PROVE  /\ queue' = <<>> /\ cur' = NoLink /\ conn' = NoConn
         /\ \/ UNCHANGED <<complete, record, clientid>> /\ assigned \subseteq assigned'
            \/ /\ ServerDies /\ conn.tid < Len(cur.msgs) /\ UNCHANGED clientid
               /\ \/ conn.kind = "INT" /\ Freed(NextMsg)
                  \/ \E s : Finished(NextMsg, s)
<1> DEFINE m == NextMsg
<1> HIDE DEF m
<1>1. ASSUME NEW s, m.task \in Task, DieInReturn(m.task, m.id, m.result, s)
      PROVE  conn' = NoConn /\ UNCHANGED clientid /\ Finished(m, s)
  BY <1>1 DEF DieInReturn, AcceptableReturn, ProcessEnds, Serving, Finished
<1>2. ASSUME m.task \in Task, DieInInterrupt(m.task, m.id)
      PROVE  conn' = NoConn /\ UNCHANGED clientid /\ conn.kind = "INT" /\ Freed(m)
  BY <1>2 DEF DieInInterrupt, ProcessEnds, Serving, Freed
<1>3. ASSUME Die \/ DieInRequest \/ \E n \in Task : DieInMissed(n)
      PROVE  /\ conn' = NoConn /\ UNCHANGED <<complete, record, clientid>>
             /\ assigned \subseteq assigned'
  BY <1>3 DEF Die, DieInRequest, DieInMissed, ProcessEnds, files
<1>4. CASE ServerDies
  BY <1>1, <1>2, <1>3, <1>4 DEF ServerDies, m
<1>5. CASE ServerDiesAfterReply
  <2>1. Die \/ DieInRequest \/ \E n \in Task : DieInMissed(n)
    BY <1>5 DEF ServerDiesAfterReply
  <2> QED
    BY <1>3, <1>5, <2>1 DEF ServerDiesAfterReply
<1> QED
  BY <1>4, <1>5 DEF Dies

\* Between handlers they are left alone.
LEMMA OtherEffect ==
  ASSUME AcceptNext \/ ConnectionFails \/ CloseAndDeliver
  PROVE  UNCHANGED files /\ (conn' = NoConn \/ conn'.tid = 0)
  BY DEF AcceptNext, Accept, ConnectionFails, Abort, CloseAndDeliver, Close, GiveUp

\* A start neither makes a complete task free, nor lets one lose its task but
\* by losing its ID.
LEMMA StartKeeps ==
  ASSUME TypeOK, CompleteIsAssigned, ServerStarts
  PROVE  /\ CompleteIsAssigned' /\ complete' \subseteq complete
         /\ \A n \in Task : clientid'[n] \in {clientid[n], NoId}
         /\ UNCHANGED <<record, conn, queue, cur, work, phase>> /\ ~up
<1>1. PICK opts, listed, sb : Start(opts, listed, sb)
  BY DEF ServerStarts, Restart
<1>2. complete' \subseteq assigned'
  <2> DEFINE reset == Given("m" \in opts, listed) \cup Given("i" \in opts, Overflown)
                        \cup Given("z" \in opts, Outdated)
             complete1 == complete \ reset
             assigned1 == (assigned \ reset) \cup Given("f" \in opts, complete1)
             reset2 == Given("r" \in opts, Unrecorded(sb))
             complete2 == complete1 \ reset2
             assigned2 == assigned1 \ reset2
             lu2 == Scan(assigned2, 0)
             li2 == Scan(complete2, 0)
  <2>1. /\ complete' = complete2
        /\ assigned' = assigned2 \ Given("c" \in opts, (li2 .. lu2 - 1) \ complete2)
    BY <1>1 DEF Start
  <2> HIDE DEF reset, reset2, lu2, li2
  <2>2. complete2 \subseteq assigned2
    BY DEF CompleteIsAssigned
  <2> HIDE DEF complete2, assigned2
  <2> QED
    BY <2>1, <2>2 DEF Given
<1> QED
  BY <1>1, <1>2, StartFacts DEF CompleteIsAssigned, ServerStarts, clients

\* A client is given what is not complete, and the tables stay as they are.
LEMMA DeliveredKeeps ==
  ASSUME LineInv, PointersExact, CompleteIsAssigned, HandedFresh, NEW p \in Client, Delivered(p),
         NEW t \in 1 .. Threads[p]
  PROVE  /\ work'[p][t] \notin complete
         /\ Heard(p, t)' => t \in 1 .. conn.tid /\ work'[p][t] = conn.handed[t]
<1>1. conn.tid \in Nat /\ conn.handed \in Seq(Nat) /\ Len(conn.handed) = conn.tid
  BY DEF Delivered, LineInv, SysTypeOK, TypeOK, Conn
<1>2. \A u \in 1 .. conn.tid : conn.handed[u] \notin complete
  BY DEF HandedFresh, Delivered
<1>3. CASE conn.tid = Threads[p] /\ work'[p] = conn.handed
  BY <1>2, <1>3
<1>4. CASE /\ conn.tid + 1 = Threads[p] /\ p \in unheard'
           /\ \E n \in Task : work'[p] = Append(conn.handed, n) /\ (n = lu \/ n \notin complete)
  <2>1. PICK n \in Task : work'[p] = Append(conn.handed, n) /\ (n = lu \/ n \notin complete)
    BY <1>4
  <2>2. PICK h : h = conn.handed
    OBVIOUS
  <2>3. n \in Nat /\ h \in Seq(Nat) /\ Len(h) = conn.tid /\ work'[p] = Append(h, n)
    BY <1>1, <2>1, <2>2 DEF Task
  <2>4. /\ \A u \in 1 .. conn.tid : work'[p][u] = h[u]
        /\ work'[p][conn.tid + 1] = n
    BY <1>1, <2>3
  <2>5. n \notin complete
    <3>1. assigned \in SUBSET Task /\ 0 \in 0 .. NumTasks
      BY NumTasksAssumption DEF LineInv, SysTypeOK, TypeOK
    <3>2. up
      BY DEF Delivered, LineInv, ConnOK
    <3>3. lu \notin assigned
      BY <3>1, <3>2, ScanSpec DEF PointersExact, IsFirstFree
    <3> QED
      BY <2>1, <3>3 DEF CompleteIsAssigned
  <2>6. CASE t = conn.tid + 1
    BY <1>4, <2>4, <2>5, <2>6 DEF Heard
  <2>7. CASE t \in 1 .. conn.tid
    BY <1>2, <2>2, <2>4, <2>7
  <2>8. t = conn.tid + 1 \/ t \in 1 .. conn.tid
    BY <1>1, <1>4
  <2> QED
    BY <2>6, <2>7, <2>8
<1> QED
  BY <1>3, <1>4 DEF Delivered

-----------------------------------------------------------------------------
(* The rounds of a client. *)

\* IDs that were drawn tell threads, processes and clients apart.
LEMMA IdsDiffer ==
  ASSUME Unlucky = {}
  PROVE  \A p, q, l, k, t, u : Id(p, l, t) = Id(q, k, u) => p = q /\ l = k /\ t = u
  BY DEF Id

\* None of them is 0.
LEMMA IdsDrawn ==
  ASSUME LineInv, Unlucky = {}, NEW p \in Client, NEW t \in 1 .. Threads[p]
  PROVE  Id(p, life[p], t) # NoId
<1>1. life[p] \in 1 .. MaxLives /\ t \in 1 .. MaxThreads
  BY SystemAssumption, MaxThreadsAssumption DEF LineInv, SysTypeOK
<1> QED
  BY <1>1, IdsAssumption

\* The server's steps keep the order of the line and the rounds apart.
LEMMA ServerRounds ==
  ASSUME LineInv, InOrder, ServerStep,
         \A i \in Places : \A j \in 1 .. Len(At(i).msgs) : OneRound(At(i), At(i).msgs[j])
  PROVE  /\ InOrder'
         /\ \A i \in Places' : \A j \in 1 .. Len(At(i)'.msgs) : OneRound(At(i), At(i).msgs[j])'
<1>1. PICK s \in {0, 1} : \A i \in Places' :
        At(i)' = NoLink \/ (i + s \in Places /\ At(i)' = At(i + s))
  BY ServerMoves
<1>2. Places' \subseteq Nat /\ NoLink.cl = nobody /\ Len(NoLink.msgs) = 0
  BY ServerMoves, Kinds DEF Places
<1>3. /\ UNCHANGED <<life, outcome>> /\ phase \in [Client -> Phase] /\ phase' \in [Client -> Phase]
      /\ \A p \in Client : phase'[p] # phase[p] => phase'[p] \in {"idle", "running"}
  BY ServerWaiters DEF LineInv, SysTypeOK
<1>4. \A k, m, p, t : ReportOf(k, m, p, t)' <=> ReportOf(k, m, p, t)
  BY <1>3 DEF ReportOf
<1>5. InOrder'
  <2>1. SUFFICES ASSUME NEW i \in Places', NEW j \in Places', i < j, At(i)'.cl # nobody,
                        NEW u \in 1 .. Len(At(j)'.msgs), NEW t \in 1 .. Threads[At(i)'.cl]
                 PROVE  ~ ReportOf(At(j), At(j).msgs[u], At(i).cl, t)'
    BY DEF InOrder
  <2>2. i + s \in Places /\ At(i)' = At(i + s) /\ j + s \in Places /\ At(j)' = At(j + s)
    <3>1. At(j)' # NoLink
      BY <1>2, <2>1
    <3> QED
      BY <1>1, <1>2, <2>1, <3>1
  <2>3. i + s < j + s
    BY <1>2, <2>1
  <2>4. ~ ReportOf(At(j + s), At(j + s).msgs[u], At(i + s).cl, t)
    BY <2>1, <2>2, <2>3 DEF InOrder
  <2> QED
    BY <1>3, <2>2, <2>4 DEF ReportOf
<1>6. ASSUME NEW i \in Places', NEW j \in 1 .. Len(At(i)'.msgs)
      PROVE  OneRound(At(i), At(i).msgs[j])'
  <2>1. i + s \in Places /\ At(i)' = At(i + s)
    BY <1>1, <1>2, <1>6
  <2>2. PICK k, m : k = At(i + s) /\ m = At(i + s).msgs[j]
    OBVIOUS
  <2>3. OneRound(k, m)
    BY <1>6, <2>1, <2>2
  <2>4. ASSUME NEW p \in Client, NEW t \in 1 .. Threads[p], ReportOf(k, m, p, t)
        PROVE  /\ phase'[p] # "running"
               /\ phase'[p] = "returning" =>
                    k.kind = "RET" /\ m.task = work'[p][t] /\ m.result = outcome'[p][t]
               /\ phase'[p] = "revoking" => k.kind = "INT"
    <3>1. phase[p] # "running"
      BY <2>3, <2>4 DEF OneRound
    <3>2. phase'[p] # "running"
      <4>1. SUFFICES ASSUME phase'[p] = "running"
                     PROVE  FALSE
        OBVIOUS
      <4>2. p = cur.cl /\ cur' = NoLink /\ queue' \in {queue, <<>>}
        BY <3>1, <4>1, ServerWork DEF Delivered
      <4>3. i # 0
        BY <1>2, <1>6, <4>2 DEF At
      <4>4. i # 0 /\ At(i)' = At(i) /\ i \in Places
        <5>1. queue' = queue
          BY <1>6, <4>2, <4>3 DEF Places
        <5> QED
          BY <1>6, <4>3, <5>1 DEF At, Places
      <4>5. k = At(i) /\ m = At(i).msgs[j] /\ j \in 1 .. Len(At(i).msgs)
        BY <1>6, <2>1, <2>2, <4>4
      <4>6. 0 < i /\ At(0).cl = p /\ p # nobody
        BY <1>2, <1>6, <4>2, <4>4, LineFacts, SystemAssumption
      <4>7. ~ ReportOf(At(i), At(i).msgs[j], p, t)
        BY <2>4, <4>4, <4>5, <4>6, LineFacts DEF InOrder
      <4> QED
        BY <2>4, <4>5, <4>7
    <3>3. phase'[p] \in {"returning", "revoking"} => phase'[p] = phase[p] /\ work'[p] = work[p]
      BY <1>3, <3>2, ServerWork
    <3> QED
      BY <1>3, <2>3, <2>4, <3>2, <3>3 DEF OneRound
  <2>5. OneRound(k, m)'
    BY <1>4, <2>4 DEF OneRound
  <2>6. At(i)' = k /\ At(i)'.msgs[j] = m
    BY <2>1, <2>2
  <2> QED
    BY <2>5, <2>6
<1> QED
  BY <1>5, <1>6

\* What client p does is in accord with the reports it sent before.
LEMMA RoundKeeps ==
  ASSUME LineInv, NEW p \in Client, ClientStep(p), NEW k, NEW m, OneRound(k, m)
  PROVE  OneRound(k, m)'
<1>1. \A q \in Client : q # p => /\ phase'[q] = phase[q] /\ life'[q] = life[q]
                                 /\ work'[q] = work[q] /\ outcome'[q] = outcome[q]
  BY ClientOthers
<1>2. phase \in [Client -> Phase]
  BY DEF LineInv, SysTypeOK
<1>3. \/ phase'[p] \in {"idle", "asking", "stopped"}
      \/ phase[p] = "running" /\ life' = life
      \/ UNCHANGED clients
  <2>1. Ask(p) \/ AskFails(p) \/ ReportSent(p) \/ ClientStops(p) \/ ClientStarts(p)
          => phase'[p] \in {"idle", "asking", "stopped"}
    BY <1>2 DEF Ask, AskFails, ReportSent, ClientStops, ClientStarts
  <2>2. RunFails(p) \/ (\E r : RunSucceeds(p, r)) => phase[p] = "running" /\ life' = life
    BY DEF RunFails, RunSucceeds
  <2>3. (\E n : ReportFails(p, n)) => UNCHANGED clients
    BY DEF ReportFails
  <2> QED
    BY <2>1, <2>2, <2>3 DEF ClientStep
<1>4. SUFFICES ASSUME NEW q \in Client, NEW t \in 1 .. Threads[q], ReportOf(k, m, q, t)'
               PROVE  /\ phase'[q] # "running"
                      /\ phase'[q] = "returning" =>
                           k.kind = "RET" /\ m.task = work'[q][t] /\ m.result = outcome'[q][t]
                      /\ phase'[q] = "revoking" => k.kind = "INT"
  BY DEF OneRound
<1>5. life'[q] = life[q] => ReportOf(k, m, q, t)
  BY <1>4 DEF ReportOf
<1>6. CASE q # p
  BY <1>1, <1>5, <1>6 DEF OneRound
<1>7. CASE q = p /\ phase'[p] \in {"idle", "asking", "stopped"}
  BY <1>7
<1>8. CASE q = p /\ phase[p] = "running" /\ life' = life
  BY <1>5, <1>8 DEF OneRound
<1>9. CASE q = p /\ UNCHANGED clients
  BY <1>5, <1>9 DEF OneRound, clients
<1> QED
  BY <1>3, <1>6, <1>7, <1>8, <1>9

\* It does not run a task that is complete and still has its ID.
LEMMA TornWorkKeeps ==
  ASSUME LineInv, NEW p \in Client, ClientStep(p), TornWork
  PROVE  TornWork'
<1>1. /\ UNCHANGED <<complete, clientid>>
      /\ \A q \in Client : q # p => /\ phase'[q] = phase[q] /\ life'[q] = life[q]
                                    /\ work'[q] = work[q] /\ outcome'[q] = outcome[q]
  BY ClientOthers DEF vars, files
<1>2. phase \in [Client -> Phase]
  BY DEF LineInv, SysTypeOK
<1>3. \/ phase'[p] \in {"idle", "asking", "stopped"}
      \/ phase[p] = "running" /\ UNCHANGED <<life, work>>
      \/ UNCHANGED clients
  <2>1. Ask(p) \/ AskFails(p) \/ ReportSent(p) \/ ClientStops(p) \/ ClientStarts(p)
          => phase'[p] \in {"idle", "asking", "stopped"}
    BY <1>2 DEF Ask, AskFails, ReportSent, ClientStops, ClientStarts
  <2>2. RunFails(p) \/ (\E r : RunSucceeds(p, r)) => phase[p] = "running" /\ UNCHANGED <<life, work>>
    BY DEF RunFails, RunSucceeds
  <2>3. (\E n : ReportFails(p, n)) => UNCHANGED clients
    BY DEF ReportFails
  <2> QED
    BY <2>1, <2>2, <2>3 DEF ClientStep
<1>4. SUFFICES ASSUME NEW q \in Client, NEW t \in 1 .. Threads[q],
                      phase'[q] \in {"running", "returning", "revoking"},
                      work'[q][t] \in complete, clientid[work'[q][t]] = Id(q, life'[q], t)
               PROVE  phase'[q] = "returning" /\ outcome'[q][t].checksum \in KnownChecksum
  BY <1>1 DEF TornWork
<1>5. CASE q # p
  BY <1>1, <1>4, <1>5 DEF TornWork
<1>6. CASE q = p /\ phase[p] = "running" /\ UNCHANGED <<life, work>>
  BY <1>4, <1>6 DEF TornWork
<1>7. CASE q = p /\ UNCHANGED clients
  BY <1>4, <1>7 DEF TornWork, clients
<1> QED
  BY <1>3, <1>4, <1>5, <1>6, <1>7

\* A request or a report that p adds to the line.
LEMMA NewMsgs ==
  ASSUME LineInv, Unlucky = {}, NEW p \in Client, TornWork,
         Ask(p) \/ ReportSent(p) \/ \E n \in 1 .. Threads[p] - 1 : ReportFails(p, n)
  PROVE  \E k \in Link :
           /\ Connect(k) /\ UNCHANGED cur
           /\ \A j \in 1 .. Len(k.msgs) : /\ OneRound(k, k.msgs[j])' /\ TornMsg(k, k.msgs[j])'
                                          /\ \A q \in Client : \A t \in 1 .. Threads[q] :
                                               q # p => ~ ReportOf(k, k.msgs[j], q, t)
           /\ k.cl \in {p, nobody}
<1>1. /\ phase \in [Client -> Phase] /\ Threads[p] \in 1 .. MaxThreads /\ MaxThreads \in Nat
      /\ life[p] \in 1 .. MaxLives
  BY SystemAssumption, MaxThreadsAssumption DEF LineInv, SysTypeOK
<1>2. \A t \in 1 .. Threads[p] : Id(p, life[p], t) # NoId
  BY IdsDrawn
<1>3. ASSUME Ask(p)
      PROVE  \E k \in Link :
               /\ Connect(k) /\ UNCHANGED cur /\ k.cl = p /\ k.kind \notin ReportKind
               /\ \A j \in 1 .. Len(k.msgs) : k.msgs[j].id # NoId
  <2>1. PICK k : k = [cl |-> p, kind |-> Mode[p], size |-> Threads[p],
                      msgs |-> [t \in 1 .. Threads[p] |->
                        [id |-> Id(p, life[p], t), task |-> NumTasks, result |-> NoRecord]]]
    OBVIOUS
  <2>2. /\ Connect(k) /\ UNCHANGED <<cur, life>> /\ phase[p] = "idle"
        /\ phase' = [phase EXCEPT ![p] = "asking"]
    BY <1>3, <2>1 DEF Ask
  <2>3. phase'[p] = "asking"
    BY <1>1, <2>2
  <2>4. k \in Link /\ LinkGood(k)'
    BY <2>1, <2>2, <2>3, RequestGood
  <2>5. k.cl = p /\ k.kind \notin ReportKind /\ Len(k.msgs) = Threads[p]
    BY <1>1, <2>1, Kinds, SystemAssumption
  <2>6. \A j \in 1 .. Threads[p] : k.msgs[j].id = Id(p, life[p], j)
    BY <2>1
  <2> QED
    BY <1>2, <2>2, <2>4, <2>5, <2>6
<1>4. ASSUME NEW k, k.kind \notin ReportKind, NEW j, k.msgs[j].id # NoId
      PROVE  /\ OneRound(k, k.msgs[j])' /\ TornMsg(k, k.msgs[j])'
             /\ \A q, t : ~ ReportOf(k, k.msgs[j], q, t)
  BY <1>4 DEF OneRound, TornMsg, ReportOf
<1>5. ASSUME NEW n \in 1 .. Threads[p], phase[p] \in {"returning", "revoking"},
             Connect(Batch(p, n)), UNCHANGED <<cur, verified, life, clientid, complete>>,
             phase'[p] = "idle" \/ UNCHANGED clients
      PROVE  \E k \in Link :
               /\ Connect(k) /\ UNCHANGED cur /\ k.cl = nobody
               /\ \A j \in 1 .. Len(k.msgs) :
                    /\ OneRound(k, k.msgs[j])' /\ TornMsg(k, k.msgs[j])'
                    /\ \A q \in Client : \A t \in 1 .. Threads[q] :
                         q # p => ~ ReportOf(k, k.msgs[j], q, t)
  <2>1. PICK k : k = Batch(p, n)
    OBVIOUS
  <2>2. /\ k \in Link /\ k.cl = nobody
        /\ k.kind = (IF phase[p] = "returning" THEN "RET" ELSE "INT")
        /\ Len(k.msgs) = n
        /\ \A t \in 1 .. n : /\ k.msgs[t].id = Id(p, life[p], t)
                             /\ k.msgs[t].task = work[p][t]
                             /\ phase[p] = "returning" => k.msgs[t].result = outcome[p][t]
    BY <1>5, <2>1, ReportGood
  <2>3. ASSUME NEW j \in 1 .. n
        PROVE  /\ OneRound(k, k.msgs[j])' /\ TornMsg(k, k.msgs[j])'
               /\ \A q \in Client : \A t \in 1 .. Threads[q] : q # p => ~ ReportOf(k, k.msgs[j], q, t)
    <3>1. j \in 1 .. Threads[p] /\ k.msgs[j].id = Id(p, life[p], j)
      BY <1>1, <2>2
    <3>2. \A q, t : (k.msgs[j].id = Id(q, life'[q], t) \/ k.msgs[j].id = Id(q, life[q], t))
            => q = p /\ t = j
      BY <3>1, IdsDiffer
    <3>3. OneRound(k, k.msgs[j])'
      <4>1. PICK m : m = k.msgs[j]
        OBVIOUS
      <4>2. \A q, t : ReportOf(k, m, q, t)' => q = p /\ t = j
        BY <3>2, <4>1 DEF ReportOf
      <4>3. /\ phase'[p] # "running"
            /\ phase'[p] = "returning" =>
                 k.kind = "RET" /\ m.task = work'[p][j] /\ m.result = outcome'[p][j]
            /\ phase'[p] = "revoking" => k.kind = "INT"
        BY <1>5, <2>2, <4>1 DEF clients
      <4>4. OneRound(k, m)'
        BY <4>2, <4>3 DEF OneRound
      <4> QED
        BY <4>1, <4>4
    <3>4. TornMsg(k, k.msgs[j])'
      BY <1>2, <1>5, <2>2, <3>1 DEF TornMsg, TornWork
    <3> QED
      BY <3>2, <3>3, <3>4 DEF ReportOf
  <2>4. Connect(k)
    BY <1>5, <2>1
  <2> QED
    BY <1>5, <2>2, <2>3, <2>4
<1>6. ASSUME ReportSent(p) \/ \E n \in 1 .. Threads[p] - 1 : ReportFails(p, n)
      PROVE  \E n \in 1 .. Threads[p] :
               /\ phase[p] \in {"returning", "revoking"} /\ Connect(Batch(p, n))
               /\ UNCHANGED <<cur, verified, life, clientid, complete>>
               /\ phase'[p] = "idle" \/ UNCHANGED clients
  BY <1>1, <1>6 DEF ReportSent, ReportFails, clients, vars, files
<1> QED
  BY <1>3, <1>4, <1>5, <1>6

\* A client's step keeps the rounds apart, whether it leaves the line as it
\* is, gives up its place or takes a new one.
LEMMA ClientRounds ==
  ASSUME LineInv, Unlucky = {}, RoundInv, NEW p \in Client, ClientStep(p)
  PROVE  InOrder' /\ MsgsInv'
<1>1. /\ Places \subseteq Nat /\ InOrder
      /\ \A i \in Places : At(i) \in Link \cup {NoLink}
      /\ \A i \in Places : At(i).cl # nobody => At(i).cl \in Client /\ phase[At(i).cl] = "asking"
  BY LineFacts DEF LineInv, LinkGood, LinkOK, RoundInv
<1>2. /\ UNCHANGED <<complete, clientid>> /\ \A q \in Client : q # p => life'[q] = life[q]
  BY ClientOthers DEF vars, files
<1>3. ASSUME NEW k, NEW m, OneRound(k, m), TornMsg(k, m)
      PROVE  OneRound(k, m)' /\ TornMsg(k, m)'
  BY <1>2, <1>3, RoundKeeps DEF TornMsg
<1>4. \A k, m, q, t : life'[q] = life[q] => (ReportOf(k, m, q, t)' <=> ReportOf(k, m, q, t))
  BY DEF ReportOf
<1>5. ASSUME NEW i \in Places, NEW k, At(i)' = k,
             NEW j \in 1 .. Len(At(i).msgs), NEW u, k.kind = At(i).kind, k.msgs[u] = At(i).msgs[j]
      PROVE  OneRound(At(i), At(i).msgs[u])' /\ TornMsg(At(i), At(i).msgs[u])'
  <2>1. PICK l, m : l = At(i) /\ m = At(i).msgs[j]
    OBVIOUS
  <2>2. OneRound(l, m) /\ TornMsg(l, m)
    BY <2>1 DEF RoundInv, MsgsInv
  <2>3. OneRound(l, m)' /\ TornMsg(l, m)'
    BY <1>3, <2>2
  <2>4. l.kind = k.kind
    BY <1>5, <2>1
  <2>5. OneRound(k, m)' /\ TornMsg(k, m)'
    BY <2>3, <2>4 DEF OneRound, TornMsg, ReportOf
  <2>6. At(i)' = k /\ At(i)'.msgs[u] = m
    BY <1>5, <2>1
  <2> QED
    BY <2>5, <2>6
<1>6. ASSUME NEW i \in Places, NEW j \in Places, i < j, At(i)' = At(i), At(i).cl # nobody,
             life'[At(i).cl] = life[At(i).cl], NEW t \in 1 .. Threads[At(i).cl],
             NEW u \in 1 .. Len(At(j).msgs), At(j)'.kind = At(j).kind,
             At(j)'.msgs[u] = At(j).msgs[u]
      PROVE  ~ ReportOf(At(j), At(j).msgs[u], At(i).cl, t)'
  <2>1. ~ ReportOf(At(j), At(j).msgs[u], At(i).cl, t)
    BY <1>1, <1>6 DEF InOrder
  <2> QED
    BY <1>6, <2>1 DEF ReportOf
<1>7. ASSUME UNCHANGED <<queue, cur>>, phase[p] # "asking"
      PROVE  InOrder' /\ MsgsInv'
  <2>1. Places' = Places /\ \A i \in Places : At(i)' = At(i)
    BY <1>7 DEF Places, At
  <2>2. InOrder'
    <3>1. \A i \in Places : At(i).cl # nobody => life'[At(i).cl] = life[At(i).cl]
      BY <1>1, <1>2, <1>7
    <3> QED
      BY <1>6, <2>1, <3>1 DEF InOrder
  <2> QED
    BY <1>5, <2>1, <2>2 DEF MsgsInv
<1>8. ASSUME Forsake(p), UNCHANGED life
      PROVE  InOrder' /\ MsgsInv'
  <2>1. Places' = Places /\ \A i \in Places : \E s \in Nat : At(i)' = Orphan(At(i), s, p)
    BY <1>8, ForsakeMoves
  <2>2. \A i \in Places :
          /\ At(i)'.kind = At(i).kind /\ (At(i)'.cl # nobody => At(i)' = At(i))
          /\ \A u \in 1 .. Len(At(i)'.msgs) :
               u \in 1 .. Len(At(i).msgs) /\ At(i)'.msgs[u] = At(i).msgs[u]
    BY <1>1, <2>1, OrphanFacts
  <2>3. InOrder'
    BY <1>6, <1>8, <2>1, <2>2 DEF InOrder
  <2>4. MsgsInv'
    BY <1>5, <2>1, <2>2 DEF MsgsInv
  <2> QED
    BY <2>3, <2>4
<1>9. ASSUME Ask(p) \/ ReportSent(p) \/ \E n \in 1 .. Threads[p] - 1 : ReportFails(p, n)
      PROVE  InOrder' /\ MsgsInv'
  <2>1. PICK k \in Link :
          /\ Connect(k) /\ UNCHANGED cur
          /\ \A j \in 1 .. Len(k.msgs) : /\ OneRound(k, k.msgs[j])' /\ TornMsg(k, k.msgs[j])'
                                         /\ \A q \in Client : \A t \in 1 .. Threads[q] :
                                              q # p => ~ ReportOf(k, k.msgs[j], q, t)
          /\ k.cl \in {p, nobody}
    BY <1>9, NewMsgs DEF RoundInv
  <2>2. /\ Places' = Places \cup {Len(queue) + 1}
        /\ \A i \in Places : At(i)' = At(i) /\ i < Len(queue) + 1
        /\ \A i \in Places' : i \notin Places => i = Len(queue) + 1 /\ At(i)' = k
    BY <2>1, ConnectMoves
  <2>3. phase[p] # "asking"
    BY <1>9 DEF Ask, ReportSent, ReportFails
  <2>4. \A i \in Places : At(i).cl # nobody =>
          At(i).cl \in Client /\ At(i).cl # p /\ life'[At(i).cl] = life[At(i).cl]
    BY <1>1, <1>2, <2>3
  <2>5. InOrder'
    <3>1. SUFFICES ASSUME NEW i \in Places', NEW j \in Places', i < j, At(i)'.cl # nobody,
                          NEW u \in 1 .. Len(At(j)'.msgs), NEW t \in 1 .. Threads[At(i)'.cl]
                   PROVE  ~ ReportOf(At(j), At(j).msgs[u], At(i).cl, t)'
      BY DEF InOrder
    <3>2. i \in Places
      <4>1. Len(queue) \in Nat
        BY LineFacts
      <4> QED
        BY <1>1, <2>2, <3>1, <4>1
    <3>3. CASE j \in Places
      BY <1>6, <2>2, <2>4, <3>1, <3>2, <3>3
    <3>4. CASE j \notin Places
      <4>1. At(j)' = k
        BY <2>2, <3>4
      <4>2. ~ ReportOf(k, k.msgs[u], At(i).cl, t)
        BY <2>1, <2>2, <2>4, <3>1, <3>2, <4>1
      <4> QED
        BY <2>2, <2>4, <3>1, <3>2, <4>1, <4>2 DEF ReportOf
    <3> QED
      BY <3>3, <3>4
  <2>6. ASSUME NEW i \in Places', NEW j \in 1 .. Len(At(i)'.msgs)
        PROVE  OneRound(At(i), At(i).msgs[j])' /\ TornMsg(At(i), At(i).msgs[j])'
    <3>1. CASE i \in Places
      BY <1>5, <2>2, <2>6, <3>1
    <3>2. CASE i \notin Places
      <4>1. At(i)' = k
        BY <2>2, <3>2
      <4> QED
        BY <2>1, <2>6, <4>1
    <3> QED
      BY <3>1, <3>2
  <2> QED
    BY <2>5, <2>6 DEF MsgsInv
<1>10. RunFails(p) \/ ClientStarts(p) \/ (\E r : RunSucceeds(p, r)) =>
        UNCHANGED <<queue, cur>> /\ phase[p] # "asking"
  BY DEF RunFails, ClientStarts, RunSucceeds
<1>11. AskFails(p) \/ ClientStops(p) => Forsake(p) /\ UNCHANGED life
  BY DEF AskFails, ClientStops
<1> QED
  BY <1>7, <1>8, <1>9, <1>10, <1>11 DEF ClientStep

-----------------------------------------------------------------------------
(* The tables. *)

\* The message served next is in accord with its sender and the table.
LEMMA NextMsgRound ==
  ASSUME LineInv, MsgsInv, conn.tid < Len(cur.msgs)
  PROVE  OneRound(cur, NextMsg) /\ TornMsg(cur, NextMsg) /\ cur.kind = conn.kind
<1>1. conn.tid + 1 \in 1 .. Len(cur.msgs) /\ cur.kind = conn.kind
  BY NextMsgFacts
<1>2. 0 \in Places /\ At(0) = cur
  BY LineFacts
<1> QED
  BY <1>1, <1>2 DEF MsgsInv, NextMsg

\* So no complete task is freed.
LEMMA FreedIncomplete ==
  ASSUME LineInv, MsgsInv, conn.tid < Len(cur.msgs), Freed(NextMsg)
  PROVE  NextMsg.task \in Task \ complete
<1> DEFINE m == NextMsg
<1>1. TornMsg(cur, m) /\ cur.kind = conn.kind
  BY NextMsgRound
<1> HIDE DEF m
<1>2. /\ m.task \in Task /\ clientid[m.task] = m.id
      /\ conn.kind = "INT" \/ (conn.kind = "RET" /\ m.result.checksum \notin KnownChecksum)
  BY DEF Freed, m
<1>3. m.task \notin complete
  BY <1>1, <1>2 DEF TornMsg, ReportKind
<1> QED
  BY <1>2, <1>3 DEF m

\* While the server lives, a task that becomes complete loses its ID, and one
\* that is complete gets none.
LEMMA CompleteStep ==
  ASSUME LineInv, PointersExact, MsgsInv, CompleteIsAssigned, ServerStep, ~ Dies
  PROVE  /\ CompleteIsAssigned'
         /\ \A n \in complete' : \/ clientid'[n] = NoId
                                 \/ n \in complete /\ clientid'[n] = clientid[n]
<1>1. TypeOK /\ complete \subseteq assigned /\ clientid \in [Task -> ClientId \cup {NoId}]
      /\ complete \subseteq Task
  BY DEF LineInv, SysTypeOK, TypeOK, CompleteIsAssigned
<1>2. CASE UNCHANGED files
  BY <1>1, <1>2 DEF files, CompleteIsAssigned
<1>3. CASE Serve
  <2> DEFINE m == NextMsg
  <2>1. conn.tid < Len(cur.msgs)
    BY <1>3 DEF Serve
  <2>2. Freed(m) => m.task \in Task \ complete
    BY <2>1, FreedIncomplete
  <2> HIDE DEF m
  <2>3. ASSUME NEW n, Granted(n, m)
        PROVE  /\ complete' = complete /\ complete \subseteq assigned'
               /\ \A k \in complete : clientid'[k] = clientid[k]
    <3>1. n \in Task /\ n \notin complete /\ complete' = complete /\ assigned' = assigned \cup {n}
          /\ (UNCHANGED clientid \/ SetClientId(n, m.id))
      BY <1>1, <2>3 DEF Granted
    <3> QED
      BY <1>1, <3>1 DEF SetClientId
  <2>4. ASSUME Freed(m)
        PROVE  /\ complete' = complete /\ complete \subseteq assigned'
               /\ \A k \in complete : clientid'[k] = clientid[k]
    <3>1. /\ m.task \notin complete /\ complete' = complete /\ assigned' = assigned \ {m.task}
          /\ (UNCHANGED clientid \/ SetClientId(m.task, NoId))
      BY <2>2, <2>4 DEF Freed
    <3> QED
      BY <1>1, <3>1 DEF SetClientId
  <2>5. ASSUME Finished(m, 4), SetClientId(m.task, NoId)
        PROVE  /\ complete' \subseteq assigned'
               /\ \A k \in complete' : \/ clientid'[k] = NoId
                                       \/ k \in complete /\ clientid'[k] = clientid[k]
    <3>1. /\ complete' = complete \cup {m.task} /\ assigned' = assigned /\ m.task \in assigned
          /\ m.task \in Task /\ clientid' = [clientid EXCEPT ![m.task] = NoId]
      BY <2>5 DEF Finished, SetClientId
    <3> QED
      BY <1>1, <3>1
  <2>6. \/ UNCHANGED files \/ (\E n : Granted(n, m)) \/ Freed(m)
        \/ (Finished(m, 4) /\ SetClientId(m.task, NoId))
    BY <1>3, ServeEffect DEF m
  <2> QED
    BY <1>2, <2>3, <2>4, <2>5, <2>6 DEF CompleteIsAssigned
<1>4. CASE ServerStarts
  BY <1>1, <1>4, StartKeeps
<1>5. AcceptNext \/ ConnectionFails \/ CloseAndDeliver => UNCHANGED files
  BY OtherEffect
<1>6. CASE ServeUnheard
  BY <1>1, <1>6, UnheardEffect DEF CompleteIsAssigned
<1> QED
  BY <1>2, <1>3, <1>4, <1>5, <1>6 DEF ServerStep, Dies

\* When it dies, it may leave one complete task with its ID behind: that of
\* the RET it was about to finish.
LEMMA CompleteDeath ==
  ASSUME LineInv, MsgsInv, CompleteIsAssigned, Dies
  PROVE  /\ CompleteIsAssigned' /\ UNCHANGED clientid
         /\ \/ complete' = complete
            \/ /\ ServerDies
               /\ conn.tid < Len(cur.msgs) /\ complete' = complete \cup {NextMsg.task}
               /\ clientid[NextMsg.task] = NextMsg.id
               /\ conn.kind = "RET" /\ NextMsg.result.checksum \in KnownChecksum
<1> DEFINE m == NextMsg
<1>1. conn.tid < Len(cur.msgs) /\ Freed(m) => m.task \notin complete
  BY FreedIncomplete
<1>2. \/ UNCHANGED <<complete, record, clientid>> /\ assigned \subseteq assigned'
      \/ /\ ServerDies /\ conn.tid < Len(cur.msgs) /\ UNCHANGED clientid
         /\ (conn.kind = "INT" /\ Freed(m)) \/ \E s : Finished(m, s)
  BY DeathEffect
<1> HIDE DEF m
<1>3. ASSUME conn.tid < Len(cur.msgs), Freed(m)
      PROVE  complete' = complete /\ CompleteIsAssigned'
  BY <1>1, <1>3 DEF Freed, CompleteIsAssigned
<1>4. ASSUME NEW s, Finished(m, s)
      PROVE  /\ complete' = complete \cup {m.task} /\ clientid[m.task] = m.id
             /\ conn.kind = "RET" /\ m.result.checksum \in KnownChecksum
             /\ CompleteIsAssigned'
  BY <1>4 DEF Finished, CompleteIsAssigned
<1>5. assigned \subseteq assigned' /\ UNCHANGED <<complete, record, clientid>>
        => complete' = complete /\ UNCHANGED clientid /\ CompleteIsAssigned'
  BY DEF CompleteIsAssigned
<1> QED
  BY <1>2, <1>3, <1>4, <1>5 DEF m

\* No step of the server makes a report on its way contradict a torn task:
\* a task becomes torn only when a kill hits the report that is served.
LEMMA TornMsgsStep ==
  ASSUME LineInv, PointersExact, RoundInv, ServerStep
  PROVE  \A i \in Places' : \A j \in 1 .. Len(At(i)'.msgs) : TornMsg(At(i), At(i).msgs[j])'
<1>1. SUFFICES ASSUME NEW i \in Places', NEW j \in 1 .. Len(At(i)'.msgs)
               PROVE  TornMsg(At(i), At(i).msgs[j])'
  OBVIOUS
<1>2. At(i)' # NoLink
  BY <1>1, Kinds
<1>3. ~ Dies
  BY <1>1, <1>2, DeathEffect DEF Places, At
<1>4. PICK s \in {0, 1} : i + s \in Places /\ At(i)' = At(i + s)
  BY <1>1, <1>2, ServerMoves
<1>5. PICK k, m : k = At(i + s) /\ m = At(i + s).msgs[j]
  OBVIOUS
<1>6. TornMsg(k, m)
  BY <1>1, <1>4, <1>5 DEF RoundInv, MsgsInv
<1>7. \A n \in complete' : clientid'[n] = NoId \/ (n \in complete /\ clientid'[n] = clientid[n])
  BY <1>3, CompleteStep DEF RoundInv
<1>8. TornMsg(k, m)'
  BY <1>6, <1>7 DEF TornMsg
<1>9. At(i)' = k /\ At(i)'.msgs[j] = m
  BY <1>4, <1>5
<1> QED
  BY <1>8, <1>9

\* Nor does it contradict the worker that still has the task.
LEMMA TornWorkStep ==
  ASSUME LineInv, LineInv', Unlucky = {}, PointersExact, RoundInv, ServerStep
  PROVE  TornWork'
<1>1. SUFFICES ASSUME NEW p \in Client, NEW t \in 1 .. Threads[p],
                      phase'[p] \in {"running", "returning", "revoking"},
                      work'[p][t] \in complete', clientid'[work'[p][t]] = Id(p, life'[p], t)
               PROVE  phase'[p] = "returning" /\ outcome'[p][t].checksum \in KnownChecksum
  BY DEF TornWork
<1>2. UNCHANGED <<life, outcome>> /\ Id(p, life[p], t) # NoId
  BY ServerWaiters, IdsDrawn
<1>3. \/ phase'[p] = phase[p] /\ work'[p] = work[p]
      \/ Delivered(p)
  BY <1>1, ServerWork, ServerWaiters
<1>6. ~ Delivered(p)
  BY <1>1, DeliveredKeeps DEF Delivered, RoundInv
<1>4. CASE ~ Dies
  <2>1. work'[p][t] \in complete /\ clientid[work'[p][t]] = Id(p, life[p], t)
    BY <1>1, <1>2, <1>4, CompleteStep DEF RoundInv
  <2> QED
    BY <1>1, <1>2, <1>3, <1>6, <2>1 DEF RoundInv, TornWork
<1>5. CASE Dies
  <2> DEFINE m == NextMsg
  <2>1. phase'[p] = phase[p] /\ work'[p] = work[p]
    BY <1>3, <1>6
  <2>2. CASE work[p][t] \in complete
    BY <1>1, <1>2, <1>5, <2>1, <2>2, CompleteDeath DEF RoundInv, TornWork
  <2>3. CASE work[p][t] \notin complete
    <3>1. /\ conn.tid < Len(cur.msgs) /\ work[p][t] = m.task /\ clientid[m.task] = m.id
          /\ conn.kind = "RET" /\ m.result.checksum \in KnownChecksum /\ UNCHANGED clientid
      BY <1>1, <1>5, <2>1, <2>3, CompleteDeath DEF RoundInv
    <3>2. OneRound(cur, m) /\ cur.kind = conn.kind
      BY <3>1, NextMsgRound DEF RoundInv
    <3> HIDE DEF m
    <3>3. ReportOf(cur, m, p, t)
      BY <1>1, <1>2, <2>1, <3>1, <3>2 DEF ReportOf, ReportKind
    <3> QED
      BY <1>1, <1>2, <2>1, <3>1, <3>2, <3>3 DEF OneRound
  <2> QED
    BY <2>2, <2>3
<1> QED
  BY <1>4, <1>5

\* A batch hands out what is free or, for `req', not yet complete; nothing is
\* completed or freed before the batch is over.
LEMMA HandedStep ==
  ASSUME LineInv, PointersExact, RoundInv, ServerStep
  PROVE  HandedFresh'
<1>1. /\ conn \in Conn /\ conn.tid \in Nat /\ NoConn.kind \notin GrantKind
      /\ complete \subseteq assigned
  BY Kinds DEF LineInv, SysTypeOK, TypeOK, Conn, RoundInv, CompleteIsAssigned
<1>2. CASE conn' = NoConn
  BY <1>1, <1>2 DEF HandedFresh
<1>3. CASE Serve /\ conn' # NoConn
  <2> DEFINE m == NextMsg
  <2>1. PICK reply : /\ NextMessage(reply)
                     /\ conn.kind \in ReportKind => reply = <<>>
    BY <1>3, ServeConn
  <2>2. conn'.kind = conn.kind /\ conn'.tid = conn.tid + 1 /\ conn'.handed = conn.handed \o reply
    BY <1>1, <2>1 DEF NextMessage, Conn
  <2> HIDE DEF m
  <2>3. ASSUME NEW n, Granted(n, m)
        PROVE  HandedFresh'
    <3>1. /\ NextMessage(<<n>>) /\ n \in Nat /\ n \notin complete /\ conn.kind \in GrantKind
          /\ assigned' = assigned \cup {n} /\ complete' = complete
      BY <1>1, <1>3, <2>3 DEF Granted, Task
    <3>2. conn' = [conn EXCEPT !.tid = conn.tid + 1, !.handed = conn.handed \o <<n>>]
      BY <3>1 DEF NextMessage
    <3> DEFINE h == conn.handed
    <3>3. /\ h \in Seq(Nat) /\ Len(h) = conn.tid
          /\ \A t \in 1 .. conn.tid : h[t] \in assigned \ complete
      BY <1>1, <3>1 DEF Conn, RoundInv, HandedFresh, LineInv, ConnOK
    <3>4. conn'.tid = conn.tid + 1 /\ conn'.handed = h \o <<n>>
      BY <1>1, <3>2 DEF Conn
    <3>5. /\ \A t \in 1 .. conn.tid : (h \o <<n>>)[t] = h[t]
          /\ (h \o <<n>>)[conn.tid + 1] = n
      BY <3>1, <3>3, OneMore
    <3>6. \A t \in 1 .. conn.tid + 1 : t \in 1 .. conn.tid \/ t = conn.tid + 1
      BY <1>1
    <3> HIDE DEF h
    <3> QED
      BY <3>1, <3>3, <3>4, <3>5, <3>6 DEF HandedFresh
  <2>4. ASSUME conn.kind \in ReportKind
        PROVE  HandedFresh'
    BY <2>2, <2>4, Kinds DEF HandedFresh
  <2>5. (\E n : Granted(n, m)) \/ conn.kind \in ReportKind
    BY <1>3, ServeEffect DEF m, Finished, ReportKind
  <2> QED
    BY <2>3, <2>4, <2>5
<1>4. CASE AcceptNext
  <2>1. conn'.tid = 0
    BY <1>4 DEF AcceptNext, Accept
  <2> QED
    BY <2>1 DEF HandedFresh
<1>5. ConnectionFails \/ CloseAndDeliver \/ ServeUnheard \/ Dies => conn' = NoConn
  BY DeathEffect, UnheardEffect DEF ConnectionFails, CloseAndDeliver, Abort, Close, GiveUp
<1>6. ServerStarts => conn' = NoConn
  BY StartKeeps DEF LineInv, SysTypeOK, RoundInv, ConnOK
<1> QED
  BY <1>2, <1>3, <1>4, <1>5, <1>6 DEF ServerStep, Dies

\* At the start nothing is on its way.
LEMMA RoundInit ==
  ASSUME SysInit
  PROVE  RoundInv
<1>1. /\ conn = NoConn /\ complete = {} /\ queue = <<>> /\ cur = NoLink /\ Len(<<>>) = 0
      /\ \A p \in Client : phase[p] = "idle"
  BY DEF SysInit, Init
<1>2. Places = {0} /\ At(0) = NoLink
  BY <1>1 DEF Places, At
<1>3. InOrder /\ MsgsInv
  BY <1>2, Kinds DEF InOrder, MsgsInv
<1>4. TornWork /\ HandedFresh /\ CompleteIsAssigned
  BY <1>1, Kinds DEF TornWork, HandedFresh, CompleteIsAssigned
<1> QED
  BY <1>3, <1>4 DEF RoundInv

\* Every step keeps what is on its way of one round.
LEMMA RoundStep ==
  ASSUME LineInv, LineInv', Unlucky = {}, PointersExact, RoundInv, [SysNext]_sysVars
  PROVE  RoundInv'
<1>1. ASSUME ServerStep
      PROVE  RoundInv'
  <2>1. InOrder /\ \A i \in Places : \A j \in 1 .. Len(At(i).msgs) : OneRound(At(i), At(i).msgs[j])
    BY DEF RoundInv, MsgsInv
  <2>2. InOrder' /\ MsgsInv'
    BY <1>1, <2>1, ServerRounds, TornMsgsStep DEF MsgsInv
  <2>3. CompleteIsAssigned'
    BY <1>1, CompleteStep, CompleteDeath DEF RoundInv
  <2> QED
    BY <1>1, <2>2, <2>3, TornWorkStep, HandedStep DEF RoundInv
<1>2. ASSUME NEW p \in Client, ClientStep(p)
      PROVE  RoundInv'
  <2>1. UNCHANGED <<assigned, complete, conn>>
    BY <1>2, ClientOthers DEF vars, files
  <2>2. HandedFresh' /\ CompleteIsAssigned'
    BY <2>1 DEF RoundInv, HandedFresh, CompleteIsAssigned
  <2> QED
    BY <1>2, <2>2, ClientRounds, TornWorkKeeps DEF RoundInv
<1>3. ASSUME UNCHANGED sysVars
      PROVE  RoundInv'
  <2>1. UNCHANGED <<phase, life, work, outcome, queue, cur, conn, assigned, complete, clientid>>
    BY <1>3 DEF sysVars, clients, vars, files
  <2>2. Places' = Places /\ \A i \in Places : At(i)' = At(i)
    BY <2>1 DEF Places, At
  <2>3. \A k, m : /\ OneRound(k, m)' <=> OneRound(k, m)
                  /\ TornMsg(k, m)' <=> TornMsg(k, m)
    BY <2>1 DEF OneRound, TornMsg, ReportOf
  <2>4. InOrder'
    BY <2>1, <2>2 DEF RoundInv, InOrder, ReportOf
  <2>5. MsgsInv'
    BY <2>2, <2>3 DEF RoundInv, MsgsInv
  <2> QED
    BY <2>1, <2>4, <2>5 DEF RoundInv, TornWork, HandedFresh, CompleteIsAssigned
<1> QED
  BY <1>1, <1>2, <1>3 DEF SysNext

\* The strengthening of the theorems below: what is on its way to the server
\* agrees with what its sender has and with what the tables say.
THEOREM RoundCorrect ==
  ASSUME Unlucky = {}
  PROVE  SysSpec => [](LineInv /\ PointersExact /\ RoundInv)
<1>1. SysInit => RoundInv
  BY RoundInit
<1>2. LineInv /\ LineInv' /\ PointersExact /\ RoundInv /\ [SysNext]_sysVars => RoundInv'
  BY RoundStep
<1>3. SysSpec => []PointersExact
  BY UsesServer, PointersCorrect, PTL
<1> QED
  BY <1>1, <1>2, <1>3, LineCorrect, PTL DEF SysSpec

\* Complete tasks stay reserved: no late, repeated or foreign INT, suspicious
\* result, kill or start ever frees one, so REQ never hands it out again.
THEOREM CompleteIsAssignedCorrect ==
  ASSUME Unlucky = {}
  PROVE  SysSpec => []CompleteIsAssigned
<1>1. RoundInv => CompleteIsAssigned
  BY DEF RoundInv
<1> QED
  BY <1>1, RoundCorrect, PTL

\* A complete task without an owner keeps its record and gets no owner.
LEMMA RecordedStep ==
  ASSUME LineInv, PointersExact, RoundInv, [SysNext]_sysVars,
         NEW n \in complete, clientid[n] = NoId
  PROVE  record'[n] = record[n] /\ clientid'[n] = NoId
<1>1. /\ record \in [Task -> Record] /\ clientid \in [Task -> ClientId \cup {NoId}]
      /\ n \in Task /\ n \in assigned
  BY DEF LineInv, SysTypeOK, TypeOK, RoundInv, CompleteIsAssigned
<1>2. CASE UNCHANGED files
  BY <1>2 DEF files
<1> DEFINE m == NextMsg
<1>3. conn.tid < Len(cur.msgs) => /\ m.id # NoId
                                  /\ Freed(m) => m.task \notin complete
  BY NextMsgRound, FreedIncomplete DEF RoundInv, TornMsg
<1> HIDE DEF m
<1>4. ASSUME conn.tid < Len(cur.msgs), Freed(m)
      PROVE  record'[n] = record[n] /\ clientid'[n] = NoId
  <2>1. /\ m.task # n /\ record' = record
        /\ UNCHANGED clientid \/ SetClientId(m.task, NoId)
    BY <1>3, <1>4 DEF Freed
  <2> QED
    BY <1>1, <2>1 DEF SetClientId
<1>5. ASSUME conn.tid < Len(cur.msgs), NEW s, Finished(m, s),
             UNCHANGED clientid \/ SetClientId(m.task, NoId)
      PROVE  record'[n] = record[n] /\ clientid'[n] = NoId
  <2>1. /\ m.task # n /\ record' = [record EXCEPT ![m.task] = Stored(@, m.result, s)]
    BY <1>3, <1>5 DEF Finished
  <2> QED
    BY <1>1, <1>5, <2>1 DEF SetClientId
<1>6. ASSUME NEW k, Granted(k, m)
      PROVE  record'[n] = record[n] /\ clientid'[n] = NoId
  <2>1. k # n /\ record' = record /\ (UNCHANGED clientid \/ SetClientId(k, m.id))
    BY <1>1, <1>6 DEF Granted
  <2> QED
    BY <1>1, <2>1 DEF SetClientId
<1>7. CASE Serve
  <2>1. conn.tid < Len(cur.msgs)
    BY <1>7 DEF Serve
  <2>2. \/ UNCHANGED files \/ (\E k : Granted(k, m)) \/ Freed(m)
        \/ (Finished(m, 4) /\ SetClientId(m.task, NoId))
    BY <1>7, ServeEffect DEF m
  <2> QED
    BY <1>2, <1>4, <1>5, <1>6, <2>1, <2>2
<1>12. ServeUnheard => UNCHANGED <<record, clientid>>
  BY UnheardEffect
<1>8. CASE Dies
  <2>1. \/ UNCHANGED <<record, clientid>>
        \/ /\ conn.tid < Len(cur.msgs) /\ UNCHANGED clientid
           /\ Freed(m) \/ \E s : Finished(m, s)
    BY <1>8, DeathEffect DEF m
  <2> QED
    BY <1>2, <1>4, <1>5, <2>1
<1>9. CASE ServerStarts
  BY <1>1, <1>9, StartKeeps DEF LineInv, SysTypeOK, RoundInv
<1>10. AcceptNext \/ ConnectionFails \/ CloseAndDeliver => UNCHANGED files
  BY OtherEffect
<1>11. (\E p \in Client : ClientStep(p)) \/ UNCHANGED sysVars => UNCHANGED files
  BY ClientOthers DEF sysVars, vars
<1> QED
  BY <1>2, <1>7, <1>8, <1>9, <1>10, <1>11, <1>12 DEF SysNext, ServerStep, Dies

\* A recorded result is final: no retry, late answer or second worker of the
\* same task changes it, and no start.
THEOREM RecordedOnceCorrect ==
  ASSUME Unlucky = {}
  PROVE  SysSpec => RecordedOnce
<1>1. LineInv /\ PointersExact /\ RoundInv /\ [SysNext]_sysVars =>
        [\A n \in complete : clientid[n] = NoId =>
           record'[n] = record[n] /\ clientid'[n] = NoId]_sysVars
  BY RecordedStep
<1> QED
  BY <1>1, RoundCorrect, PTL DEF SysSpec, RecordedOnce

-----------------------------------------------------------------------------
(* The trace of a kill. *)

\* Without -f the client IDs survive a start.
LEMMA StartWithoutRepair ==
  ASSUME TypeOK, ServerStarts, \A o \in Options : "f" \notin o
  PROVE  \A n \in Task : clientid'[n] = clientid[n]
<1>1. PICK opts \in Options, listed \in SUBSET Task, sb \in 0 .. NumTasks - 1 :
        Start(opts, listed, sb)
  BY DEF ServerStarts, Restart
<1> DEFINE lost(a, b) == Given("f" \in opts, LostHolder(a, b))
<1>2. \A a, b : lost(a, b) = {}
  BY DEF Given
<1>3. \E a, b : clientid' = [n \in Task |-> IF n \in lost(a, b) THEN NoId ELSE clientid[n]]
  BY <1>1 DEF Start
<1> HIDE DEF lost
<1> QED
  BY <1>2, <1>3

\* A kill leaves the mark of the owner behind, and only -f removes it.
LEMMA TornIsMarkedStep ==
  ASSUME LineInv, PointersExact, RoundInv, \A o \in Options : "f" \notin o,
         TornIsMarked, [SysNext]_sysVars
  PROVE  TornIsMarked'
<1>1. /\ record \in [Task -> Record] /\ clientid \in [Task -> ClientId \cup {NoId}]
      /\ complete \subseteq Task /\ complete \subseteq assigned /\ TypeOK
  BY DEF LineInv, SysTypeOK, TypeOK, RoundInv, CompleteIsAssigned
<1>2. ASSUME UNCHANGED files
      PROVE  TornIsMarked'
  BY <1>2 DEF files, TornIsMarked
<1> DEFINE m == NextMsg
<1>3. conn.tid < Len(cur.msgs) => m.id # NoId /\ (Freed(m) => m.task \notin complete)
  BY NextMsgRound, FreedIncomplete DEF RoundInv, TornMsg
<1> HIDE DEF m
<1>4. ASSUME NEW k \in Task, k \notin complete, UNCHANGED <<complete, record>>,
             UNCHANGED clientid \/ \E c : SetClientId(k, c)
      PROVE  TornIsMarked'
  BY <1>1, <1>4 DEF SetClientId, TornIsMarked
<1>5. ASSUME Finished(m, 4), SetClientId(m.task, NoId)
      PROVE  TornIsMarked'
  <2>1. /\ m.task \in Task /\ m.result.checksum \in KnownChecksum
        /\ complete' = complete \cup {m.task} /\ clientid' = [clientid EXCEPT ![m.task] = NoId]
        /\ record' = [record EXCEPT ![m.task] = Stored(record[m.task], m.result, 4)]
    BY <1>5 DEF Finished, SetClientId
  <2>2. Stored(record[m.task], m.result, 4).checksum = m.result.checksum
    BY DEF Stored
  <2>3. \A n \in complete' : \/ n = m.task /\ record'[n].checksum \in KnownChecksum
                             \/ n \in complete /\ record'[n] = record[n] /\ clientid'[n] = clientid[n]
    BY <1>1, <2>1, <2>2
  <2> QED
    BY <2>3 DEF TornIsMarked
<1>6. ASSUME conn.tid < Len(cur.msgs), NEW s, Finished(m, s), UNCHANGED clientid
      PROVE  TornIsMarked'
  <2>1. /\ m.task \in Task /\ clientid[m.task] # NoId
        /\ complete' = complete \cup {m.task}
        /\ record' = [record EXCEPT ![m.task] = Stored(record[m.task], m.result, s)]
    BY <1>3, <1>6 DEF Finished
  <2>2. \A n \in complete' : clientid'[n] = NoId => n \in complete /\ record'[n] = record[n]
    BY <1>1, <1>6, <2>1
  <2> QED
    BY <1>6, <2>2 DEF TornIsMarked
<1>7. CASE Serve
  <2>1. conn.tid < Len(cur.msgs)
    BY <1>7 DEF Serve
  <2>2. \/ UNCHANGED files \/ (\E k : Granted(k, m)) \/ Freed(m)
        \/ (Finished(m, 4) /\ SetClientId(m.task, NoId))
    BY <1>7, ServeEffect DEF m
  <2>3. \A k : Granted(k, m) => /\ k \in Task /\ k \notin complete /\ UNCHANGED <<complete, record>>
                                /\ UNCHANGED clientid \/ \E c : SetClientId(k, c)
    BY <1>1 DEF Granted
  <2>4. Freed(m) => /\ m.task \in Task /\ m.task \notin complete /\ UNCHANGED <<complete, record>>
                    /\ UNCHANGED clientid \/ \E c : SetClientId(m.task, c)
    BY <1>3, <2>1 DEF Freed
  <2> QED
    BY <1>2, <1>4, <1>5, <2>2, <2>3, <2>4
<1>12. ServeUnheard => TornIsMarked'
  BY UnheardEffect DEF TornIsMarked
<1>8. CASE Dies
  <2>1. \/ UNCHANGED <<complete, record, clientid>>
        \/ /\ conn.tid < Len(cur.msgs) /\ UNCHANGED clientid
           /\ \E s : Finished(m, s)
    BY <1>8, DeathEffect DEF m, Freed, files
  <2> QED
    BY <1>6, <2>1 DEF TornIsMarked
<1>9. CASE ServerStarts
  <2>1. /\ complete' \subseteq complete /\ record' = record
        /\ \A n \in Task : clientid'[n] = clientid[n]
    BY <1>1, <1>9, StartKeeps, StartWithoutRepair DEF RoundInv
  <2> QED
    BY <1>1, <2>1 DEF TornIsMarked
<1>10. AcceptNext \/ ConnectionFails \/ CloseAndDeliver => UNCHANGED files
  BY OtherEffect
<1>11. (\E p \in Client : ClientStep(p)) \/ UNCHANGED sysVars => UNCHANGED files
  BY ClientOthers DEF sysVars, vars
<1> QED
  BY <1>2, <1>7, <1>8, <1>9, <1>10, <1>11, <1>12 DEF SysNext, ServerStep, Dies

\* A kill inside RET may leave a complete task without its checksum, but then
\* the client ID is still there to show it.  Only -f, which clears the IDs of
\* complete tasks, can hide it.
THEOREM TornIsMarkedCorrect ==
  ASSUME Unlucky = {}, \A o \in Options : "f" \notin o
  PROVE  SysSpec => []TornIsMarked
<1>1. SysInit => TornIsMarked
  BY DEF SysInit, Init, TornIsMarked
<1>2. LineInv /\ PointersExact /\ RoundInv /\ TornIsMarked /\ [SysNext]_sysVars => TornIsMarked'
  BY TornIsMarkedStep
<1> QED
  BY <1>1, <1>2, RoundCorrect, PTL DEF SysSpec

-----------------------------------------------------------------------------
(* Leases. *)

\* The option sets that take no task from a thread and leave it the ID: what
\* -m, -i or -z reset, -f must repair; -r and -c come after the repair.
LeaseOptions ==
  \A o \in Options : o \cap {"r", "c"} = {} /\ (o \cap {"m", "i", "z"} # {} => "f" \in o)

\* After a start with them, a task that has an ID still has it for a reason.
LEMMA StartLease ==
  ASSUME TypeOK, LeaseOptions, ServerStarts, NEW n \in assigned, clientid'[n] # NoId
  PROVE  n \in assigned'
<1>1. PICK opts \in Options, listed \in SUBSET Task, sb \in 0 .. NumTasks - 1 :
        Start(opts, listed, sb)
  BY DEF ServerStarts, Restart
<1> DEFINE reset == Given("m" \in opts, listed) \cup Given("i" \in opts, Overflown)
                      \cup Given("z" \in opts, Outdated)
           complete1 == complete \ reset
           assigned1 == (assigned \ reset) \cup Given("f" \in opts, complete1)
           lost == Given("f" \in opts, LostHolder(complete1, assigned1))
           reset2 == Given("r" \in opts, Unrecorded(sb))
           complete2 == complete1 \ reset2
           assigned2 == assigned1 \ reset2
           lu2 == Scan(assigned2, 0)
           li2 == Scan(complete2, 0)
           cleared == Given("c" \in opts, (li2 .. lu2 - 1) \ complete2)
<1>2. /\ assigned' = assigned2 \ cleared
      /\ clientid' = [k \in Task |-> IF k \in lost THEN NoId ELSE clientid[k]]
  BY <1>1 DEF Start
<1>3. n \in Task /\ "r" \notin opts /\ "c" \notin opts
      /\ (opts \cap {"m", "i", "z"} # {} => "f" \in opts)
  BY DEF LeaseOptions, TypeOK
<1>4. reset2 = {} /\ cleared = {}
  BY <1>3 DEF Given
<1>5. assigned' = assigned1
  <2> HIDE DEF assigned1, reset2, cleared
  <2> QED
    BY <1>2, <1>4
<1>6. n \notin lost
  <2> HIDE DEF lost
  <2> QED
    BY <1>2, <1>3
<1>7. CASE "f" \in opts
  <2>1. lost = complete1 \cup (Task \ assigned1)
    BY <1>7 DEF Given, LostHolder
  <2> HIDE DEF lost, complete1, assigned1
  <2> QED
    BY <1>3, <1>5, <1>6, <2>1
<1>8. CASE "f" \notin opts
  <2>1. reset = {}
    BY <1>3, <1>8 DEF Given
  <2> QED
    BY <1>5, <2>1
<1> QED
  BY <1>7, <1>8

\* A thread that runs a task or has a good result for it, and whose ID the
\* server has for the task.
Holds(p, t) ==
  /\ phase[p] = "running" \/ (phase[p] = "returning" /\ outcome[p][t].checksum \in KnownChecksum)
  /\ Heard(p, t)
  /\ clientid[work[p][t]] = Id(p, life[p], t)

\* Its own reports do not take the task away: they are good results.
LEMMA OwnReport ==
  ASSUME LineInv, MsgsInv, conn.tid < Len(cur.msgs), Freed(NextMsg),
         NEW p \in Client, NEW t \in 1 .. Threads[p], Holds(p, t)
  PROVE  work[p][t] # NextMsg.task
<1> DEFINE m == NextMsg
<1>1. OneRound(cur, m) /\ cur.kind = conn.kind
  BY NextMsgRound
<1> HIDE DEF m
<1>2. SUFFICES ASSUME work[p][t] = m.task
               PROVE  FALSE
  BY DEF m
<1>3. /\ m.id = Id(p, life[p], t)
      /\ conn.kind = "INT" \/ (conn.kind = "RET" /\ m.result.checksum \notin KnownChecksum)
  BY <1>2 DEF Freed, Holds, m
<1>4. ReportOf(cur, m, p, t)
  BY <1>1, <1>3 DEF ReportOf, ReportKind
<1> QED
  BY <1>1, <1>3, <1>4 DEF OneRound, Holds

\* No step frees a task that a worker runs and the server knows it by.
LEMMA LeaseStep ==
  ASSUME LineInv, LineInv', Unlucky = {}, LeaseOptions, PointersExact, RoundInv, LeaseKept,
         [SysNext]_sysVars
  PROVE  LeaseKept'
<1>1. SUFFICES ASSUME NEW p \in Client, NEW t \in 1 .. Threads[p], Holds(p, t)'
               PROVE  work'[p][t] \in assigned'
  BY DEF LeaseKept, Holds
<1>2. Holds(p, t) => work[p][t] \in assigned
  BY DEF LeaseKept, Holds
<1>3. Id(p, life'[p], t) # NoId
  <2>1. life'[p] \in 1 .. MaxLives /\ t \in 1 .. MaxThreads
    BY SystemAssumption, MaxThreadsAssumption DEF LineInv, SysTypeOK
  <2> QED
    BY <2>1, IdsAssumption
<1>4. /\ clientid \in [Task -> ClientId \cup {NoId}] /\ assigned \subseteq Task
      /\ phase[p] \in {"running", "returning"} => work[p][t] \in Task
  BY DEF LineInv, SysTypeOK, TypeOK
<1>5. ASSUME ClientStep(p) \/ (\E q \in Client : q # p /\ ClientStep(q)) \/ UNCHANGED sysVars
      PROVE  work'[p][t] \in assigned'
  <2>1. UNCHANGED files
    BY <1>5, ClientOthers DEF sysVars, vars
  <2>5. phase'[p] \in {"running", "returning"} => (p \in unheard' <=> p \in unheard)
    <3>1. CASE ClientStep(p)
      <4>1. \/ UNCHANGED unheard
            \/ phase'[p] \in {"idle", "stopped"}
        BY <3>1 DEF ClientStep, Ask, AskFails, RunSucceeds, RunFails, ReportSent, ReportFails,
                    ClientStops, ClientStarts, LineInv, SysTypeOK
      <4> QED
        BY <4>1
    <3>2. \A q \in Client : q # p /\ ClientStep(q) => (p \in unheard' <=> p \in unheard)
      BY DEF ClientStep, Ask, AskFails, RunSucceeds, RunFails, ReportSent, ReportFails,
             ClientStops, ClientStarts
    <3> QED
      BY <1>5, <3>1, <3>2 DEF sysVars
  <2>2. CASE UNCHANGED <<phase[p], life[p], work[p], outcome[p]>>
    BY <1>1, <1>2, <2>1, <2>2, <2>5 DEF Holds, Heard, files
  <2>3. (\E q \in Client : q # p /\ ClientStep(q)) \/ UNCHANGED sysVars =>
          UNCHANGED <<phase[p], life[p], work[p], outcome[p]>>
    BY ClientOthers DEF sysVars, clients
  <2>4. CASE ClientStep(p)
    <3>1. phase \in [Client -> Phase]
      BY DEF LineInv, SysTypeOK
    <3>2. Ask(p) \/ AskFails(p) \/ RunFails(p) \/ ReportSent(p) \/ ClientStops(p) \/ ClientStarts(p)
            => phase'[p] \notin {"running", "returning"}
      BY <3>1 DEF Ask, AskFails, RunFails, ReportSent, ClientStops, ClientStarts
    <3>3. (\E r : RunSucceeds(p, r)) => phase[p] = "running" /\ UNCHANGED <<life, work>>
      BY DEF RunSucceeds
    <3>4. (\E n : ReportFails(p, n)) => UNCHANGED clients
      BY DEF ReportFails
    <3>5. UNCHANGED clients => UNCHANGED <<phase[p], life[p], work[p], outcome[p]>>
      BY DEF clients
    <3>6. CASE phase[p] = "running" /\ UNCHANGED <<life, work>>
      BY <1>1, <1>2, <2>1, <2>5, <3>6 DEF Holds, Heard, files
    <3> QED
      BY <1>1, <2>2, <2>4, <3>2, <3>3, <3>4, <3>5, <3>6 DEF ClientStep, Holds
  <2> QED
    BY <1>5, <2>2, <2>3, <2>4
<1>6. ASSUME ServerStep, Delivered(p)
      PROVE  work'[p][t] \in assigned'
  <2>1. assigned \subseteq assigned'
    <3>1. ServeUnheard \/ AcceptNext \/ ConnectionFails \/ CloseAndDeliver => assigned \subseteq assigned'
      BY UnheardEffect, OtherEffect DEF files
    <3>2. conn.kind \notin ReportKind /\ conn # NoConn /\ up
      BY <1>6, Kinds DEF Delivered, LineInv, ConnOK
    <3>3. Dies => assigned \subseteq assigned'
      BY <3>2, DeathEffect DEF Finished, ReportKind
    <3>4. Serve => assigned \subseteq assigned'
      BY <3>2, ServeEffect DEF Granted, Finished, ReportKind, files
    <3>5. ~ ServerStarts
      BY <3>2 DEF ServerStarts, Restart, Start
    <3> QED
      BY <1>6, <3>1, <3>3, <3>4, <3>5 DEF ServerStep, Dies
  <2>2. t \in 1 .. conn.tid /\ work'[p][t] = conn.handed[t]
    BY <1>1, <1>6, DeliveredKeeps DEF Holds, RoundInv
  <2> QED
    BY <1>6, <2>1, <2>2 DEF RoundInv, HandedFresh, Delivered
<1>7. ASSUME ServerStep, phase'[p] = phase[p], work'[p] = work[p], p \in unheard => p \in unheard'
      PROVE  work'[p][t] \in assigned'
  <2> DEFINE n == work[p][t]
             m == NextMsg
  <2>1. UNCHANGED <<life, outcome>>
    BY <1>7, ServerWaiters
  <2>2. /\ n \in Task /\ clientid'[n] # NoId /\ (clientid'[n] = clientid[n] => Holds(p, t))
        /\ clientid'[n] = clientid[n] => n \in assigned
    BY <1>1, <1>2, <1>3, <1>4, <1>7, <2>1 DEF Holds, Heard
  <2>3. Freed(m) /\ conn.tid < Len(cur.msgs) /\ Holds(p, t) => n # m.task
    BY OwnReport DEF RoundInv
  <2> SUFFICES n \in assigned'
    BY <1>7
  <2> HIDE DEF n, m
  <2>4. ASSUME UNCHANGED clientid, assigned \subseteq assigned'
        PROVE  n \in assigned'
    BY <2>2, <2>4
  <2>5. ASSUME conn.tid < Len(cur.msgs), Freed(m)
        PROVE  n \in assigned'
    <3>1. /\ assigned' = assigned \ {m.task} /\ m.task \in Task
          /\ UNCHANGED clientid \/ SetClientId(m.task, NoId)
      BY <2>5 DEF Freed
    <3>2. clientid'[n] = clientid[n]
      BY <1>4, <2>2, <3>1 DEF SetClientId
    <3> QED
      BY <2>2, <2>3, <2>5, <3>1, <3>2
  <2>6. ASSUME NEW k, Granted(k, m)
        PROVE  n \in assigned'
    BY <1>4, <2>2, <2>6 DEF Granted, SetClientId
  <2>7. ASSUME Finished(m, 4), SetClientId(m.task, NoId)
        PROVE  n \in assigned'
    BY <1>4, <2>2, <2>7 DEF Finished, SetClientId
  <2>8. CASE Serve
    <3>1. conn.tid < Len(cur.msgs)
      BY <2>8 DEF Serve
    <3>2. \/ UNCHANGED files \/ (\E k : Granted(k, m)) \/ Freed(m)
          \/ (Finished(m, 4) /\ SetClientId(m.task, NoId))
      BY <2>8, ServeEffect DEF m
    <3> QED
      BY <2>4, <2>5, <2>6, <2>7, <3>1, <3>2 DEF files
  <2>12. CASE ServeUnheard
    BY <2>4, <2>12, UnheardEffect
  <2>9. CASE Dies
    <3>1. \/ UNCHANGED clientid /\ assigned \subseteq assigned'
          \/ conn.tid < Len(cur.msgs) /\ Freed(m)
      BY <2>9, DeathEffect DEF m, Finished, files
    <3> QED
      BY <2>4, <2>5, <3>1
  <2>10. CASE ServerStarts
    <3>1. TypeOK /\ CompleteIsAssigned
      BY DEF LineInv, SysTypeOK, RoundInv
    <3>2. clientid'[n] = clientid[n]
      BY <2>2, <2>10, <3>1, StartKeeps
    <3> QED
      BY <2>2, <2>10, <3>1, <3>2, StartLease
  <2>11. AcceptNext \/ ConnectionFails \/ CloseAndDeliver => UNCHANGED files
    BY OtherEffect
  <2> QED
    BY <1>7, <2>4, <2>8, <2>9, <2>10, <2>11, <2>12 DEF ServerStep, Dies, files
<1>8. ASSUME ServerStep
      PROVE  \/ phase'[p] = phase[p] /\ work'[p] = work[p] /\ (p \in unheard => p \in unheard')
             \/ Delivered(p)
  <2>1. phase'[p] \in {"running", "returning"}
    BY <1>1 DEF Holds
  <2> QED
    BY <1>8, <2>1, ServerWork, ServerWaiters
<1> QED
  BY <1>5, <1>6, <1>7, <1>8 DEF SysNext

\* A worker that the server knows of does not work in vain: whoever else
\* returns, interrupts or is killed, its result will not be refused as "was
\* not assigned".
THEOREM LeaseKeptCorrect ==
  ASSUME Unlucky = {}, LeaseOptions
  PROVE  SysSpec => []LeaseKept
<1>1. SysInit => LeaseKept
  BY DEF SysInit, LeaseKept
<1>2. /\ LineInv /\ LineInv' /\ PointersExact /\ RoundInv /\ LeaseKept /\ [SysNext]_sysVars
      => LeaseKept'
  BY LeaseStep
<1> QED
  BY <1>1, <1>2, RoundCorrect, PTL DEF SysSpec

-----------------------------------------------------------------------------
(* Exclusive work. *)

\* After a start with no option or -f, what is reserved and not complete is
\* as it was.
LEMMA StartHeld ==
  ASSUME TypeOK, \A o \in Options : o \subseteq {"f"}, ServerStarts, NEW n \in assigned \ complete
  PROVE  n \in assigned' \ complete' /\ clientid'[n] = clientid[n]
<1>1. PICK opts \in Options, listed \in SUBSET Task, sb \in 0 .. NumTasks - 1 :
        Start(opts, listed, sb)
  BY DEF ServerStarts, Restart
<1> DEFINE reset == Given("m" \in opts, listed) \cup Given("i" \in opts, Overflown)
                      \cup Given("z" \in opts, Outdated)
           complete1 == complete \ reset
           assigned1 == (assigned \ reset) \cup Given("f" \in opts, complete1)
           lost == Given("f" \in opts, LostHolder(complete1, assigned1))
           reset2 == Given("r" \in opts, Unrecorded(sb))
           complete2 == complete1 \ reset2
           assigned2 == assigned1 \ reset2
           lu2 == Scan(assigned2, 0)
           li2 == Scan(complete2, 0)
           cleared == Given("c" \in opts, (li2 .. lu2 - 1) \ complete2)
<1>2. /\ complete' = complete2 /\ assigned' = assigned2 \ cleared
      /\ clientid' = [k \in Task |-> IF k \in lost THEN NoId ELSE clientid[k]]
  BY <1>1 DEF Start
<1>3. n \in Task /\ opts \cap {"m", "i", "z", "r", "c"} = {}
  BY DEF TypeOK
<1>4. reset = {} /\ reset2 = {} /\ cleared = {}
  BY <1>3 DEF Given
<1>5. complete' = complete1 /\ assigned' = assigned1 /\ complete1 = complete
  <2> HIDE DEF reset, reset2, cleared
  <2> QED
    BY <1>2, <1>4
<1>6. n \in assigned1 /\ n \notin complete1
  <2> HIDE DEF reset
  <2> QED
    BY <1>4
<1>7. n \notin lost
  <2> HIDE DEF complete1, assigned1
  <2> QED
    BY <1>6 DEF Given, LostHolder
<1> HIDE DEF complete1, assigned1, lost, complete2, assigned2, cleared
<1> QED
  BY <1>2, <1>3, <1>5, <1>6, <1>7

\* No step of the server takes a task from the thread that holds it but by a
\* report with its ID.
LEMMA HeldStays ==
  ASSUME LineInv, PointersExact, RoundInv, ServerStep, \A o \in Options : o \subseteq {"f"},
         conn.kind # "req", NEW n \in Task, NEW c, Held(n, c),
         conn.tid < Len(cur.msgs) /\ conn.kind \in ReportKind => NextMsg.id # c
  PROVE  Held(n, c)'
<1> DEFINE m == NextMsg
<1>1. /\ TypeOK /\ CompleteIsAssigned /\ clientid \in [Task -> ClientId \cup {NoId}]
      /\ n \in assigned /\ n \notin complete /\ clientid[n] = c
  BY DEF LineInv, SysTypeOK, TypeOK, RoundInv, Held
<1>2. conn.tid < Len(cur.msgs) /\ conn.kind \in ReportKind => m.id # c
  OBVIOUS
<1> HIDE DEF m
<1>3. ASSUME UNCHANGED <<complete, clientid>>, assigned \subseteq assigned'
      PROVE  Held(n, c)'
  BY <1>1, <1>3 DEF Held
<1>4. ASSUME conn.tid < Len(cur.msgs), Freed(m)
      PROVE  Held(n, c)'
  <2>1. m.task # n /\ m.task \in Task /\ complete' = complete /\ assigned' = assigned \ {m.task}
        /\ (UNCHANGED clientid \/ SetClientId(m.task, NoId))
    BY <1>1, <1>2, <1>4 DEF Freed, ReportKind
  <2> QED
    BY <1>1, <2>1 DEF SetClientId, Held
<1>5. ASSUME conn.tid < Len(cur.msgs), NEW s, Finished(m, s),
             UNCHANGED clientid \/ SetClientId(m.task, NoId)
      PROVE  Held(n, c)'
  <2>1. m.task # n /\ m.task \in Task /\ complete' = complete \cup {m.task} /\ assigned' = assigned
    BY <1>1, <1>2, <1>5 DEF Finished, ReportKind
  <2> QED
    BY <1>1, <1>5, <2>1 DEF SetClientId, Held
<1>6. ASSUME NEW k, Granted(k, m)
      PROVE  Held(n, c)'
  <2>1. k # n /\ k \in Task /\ complete' = complete /\ assigned' = assigned \cup {k}
        /\ (UNCHANGED clientid \/ SetClientId(k, m.id))
    BY <1>1, <1>6 DEF Granted
  <2> QED
    BY <1>1, <2>1 DEF SetClientId, Held
<1>7. CASE Serve
  <2>1. conn.tid < Len(cur.msgs)
    BY <1>7 DEF Serve
  <2>2. \/ UNCHANGED files \/ (\E k : Granted(k, m)) \/ Freed(m)
        \/ (Finished(m, 4) /\ SetClientId(m.task, NoId))
    BY <1>7, ServeEffect DEF m
  <2> QED
    BY <1>3, <1>4, <1>5, <1>6, <2>1, <2>2 DEF files
<1>11. CASE ServeUnheard
  BY <1>3, <1>11, UnheardEffect
<1>8. CASE Dies
  <2>1. \/ UNCHANGED <<complete, clientid>> /\ assigned \subseteq assigned'
        \/ conn.tid < Len(cur.msgs) /\ UNCHANGED clientid /\ (Freed(m) \/ \E s : Finished(m, s))
    BY <1>8, DeathEffect DEF m, files
  <2> QED
    BY <1>3, <1>4, <1>5, <2>1
<1>9. CASE ServerStarts
  BY <1>1, <1>9, StartHeld DEF Held
<1>10. AcceptNext \/ ConnectionFails \/ CloseAndDeliver => UNCHANGED files
  BY OtherEffect
<1> QED
  BY <1>3, <1>7, <1>8, <1>9, <1>10, <1>11 DEF ServerStep, Dies, files

\* Without clients that run with -l there are no `req' connections.
LEMMA NoMissedConn ==
  ASSUME LineInv, NoMissed
  PROVE  conn.kind # "req"
<1>1. SUFFICES ASSUME conn.kind = "req"
               PROVE  FALSE
  OBVIOUS
<1>2. conn # NoConn
  BY <1>1 DEF NoConn
<1>3. cur.kind = "req" /\ LinkOK(cur)
  BY <1>1, <1>2, LineFacts DEF LineInv, ConnOK, LinkGood
<1>4. \E p \in Client : cur.kind = Mode[p]
  BY <1>3 DEF LinkOK, GrantKind
<1> QED
  BY <1>3, <1>4 DEF NoMissed

\* A running thread has no report on its way.
LEMMA NoRunningReport ==
  ASSUME LineInv, MsgsInv, NEW p \in Client, NEW t \in 1 .. Threads[p], phase[p] = "running",
         conn.tid < Len(cur.msgs), conn.kind \in ReportKind
  PROVE  NextMsg.id # Id(p, life[p], t)
<1> DEFINE m == NextMsg
<1>1. OneRound(cur, m) /\ cur.kind = conn.kind
  BY NextMsgRound
<1> HIDE DEF m
<1>2. m.id # Id(p, life[p], t)
  BY <1>1 DEF OneRound, ReportOf
<1> QED
  BY <1>2 DEF m

\* What a batch was given is held by the threads that ask.
LEMMA HandedHeldStep ==
  ASSUME LineInv, PointersExact, RoundInv, ServerStep, \A o \in Options : o \subseteq {"f"},
         NoMissed, HandedHeld
  PROVE  HandedHeld'
<1>1. /\ conn \in Conn /\ conn.tid \in Nat /\ conn.kind # "req" /\ NoConn.kind \notin GrantKind
      /\ complete \subseteq assigned
  BY NoMissedConn, Kinds DEF LineInv, SysTypeOK, TypeOK, Conn, RoundInv, CompleteIsAssigned
<1>2. CASE conn' = NoConn
  BY <1>1, <1>2 DEF HandedHeld
<1>3. CASE conn'.tid = 0
  BY <1>3 DEF HandedHeld
<1>4. CASE Serve /\ conn' # NoConn
  <2>1. PICK h, ms, m : h = conn.handed /\ ms = cur.msgs /\ m = NextMsg
    OBVIOUS
  <2>2. /\ cur' = cur /\ conn.tid < Len(ms) /\ Len(ms) \in Nat /\ cur'.msgs = ms
        /\ conn.kind \in GrantKind \cup ReportKind /\ conn.tid + 1 \in 1 .. Len(ms)
        /\ m = ms[conn.tid + 1]
    BY <1>4, <2>1, ServeConn, NextMsgFacts DEF Serve, Link, NextMsg
  <2>3. PICK reply : NextMessage(reply)
    BY <1>4, ServeConn
  <2>4. conn'.kind = conn.kind
    BY <1>1, <2>3 DEF NextMessage, Conn
  <2>5. CASE conn.kind \in ReportKind
    BY <2>4, <2>5, Kinds DEF HandedHeld
  <2>6. CASE conn.kind \in GrantKind
    <3>1. PICK n : Granted(n, m)
      BY <1>4, <2>1, <2>6, ServeEffect, Kinds DEF Finished, ReportKind
    <3>2. /\ NextMessage(<<n>>) /\ n \in Task /\ n \in Nat /\ n \notin complete
          /\ assigned' = assigned \cup {n} /\ complete' = complete /\ SetClientId(n, m.id)
      BY <1>1, <1>4, <3>1 DEF Granted, Task
    <3>3. Held(n, m.id)'
      BY <3>2 DEF Held, SetClientId, LineInv, SysTypeOK, TypeOK
    <3>4. /\ h \in Seq(Nat) /\ Len(h) = conn.tid
          /\ \A t \in 1 .. conn.tid : t \in 1 .. Len(ms) /\ h[t] \in Task /\ Held(h[t], ms[t].id)
      BY <1>1, <2>1, <2>6 DEF Conn, LineInv, ConnOK, HandedHeld
    <3>5. \A t \in 1 .. conn.tid : Held(h[t], ms[t].id)'
      <4>1. conn.kind \notin ReportKind
        BY <2>6, Kinds
      <4> QED
        BY <1>1, <3>4, <4>1, HeldStays
    <3>6. conn' = [conn EXCEPT !.tid = conn.tid + 1, !.handed = h \o <<n>>]
      BY <2>1, <3>2 DEF NextMessage
    <3>7. conn'.tid = conn.tid + 1 /\ conn'.handed = h \o <<n>>
      BY <1>1, <3>6 DEF Conn
    <3>8. /\ \A t \in 1 .. conn.tid : (h \o <<n>>)[t] = h[t]
          /\ (h \o <<n>>)[conn.tid + 1] = n
      BY <3>2, <3>4, OneMore
    <3>9. SUFFICES ASSUME NEW t \in 1 .. conn.tid + 1
                   PROVE  t \in 1 .. Len(ms) /\ Held(conn.handed[t], ms[t].id)'
      BY <2>2, <3>7 DEF HandedHeld
    <3>10. CASE t = conn.tid + 1
      BY <2>2, <3>3, <3>7, <3>8, <3>10
    <3>11. CASE t \in 1 .. conn.tid
      BY <3>4, <3>5, <3>7, <3>8, <3>11
    <3> QED
      BY <1>1, <3>9, <3>10, <3>11
  <2> QED
    BY <2>2, <2>5, <2>6
<1>5. AcceptNext => conn'.tid = 0
  BY DEF AcceptNext, Accept
<1>6. ConnectionFails \/ CloseAndDeliver \/ ServeUnheard \/ Dies => conn' = NoConn
  BY DeathEffect, UnheardEffect DEF ConnectionFails, CloseAndDeliver, Abort, Close, GiveUp
<1>7. ServerStarts => conn' = NoConn
  BY StartKeeps DEF LineInv, SysTypeOK, RoundInv, ConnOK
<1> QED
  BY <1>2, <1>3, <1>4, <1>5, <1>6, <1>7 DEF ServerStep, Dies

\* The threads that run have what the batch was given, and keep it.
LEMMA RunningHeldStep ==
  ASSUME LineInv, PointersExact, RoundInv, ServerStep, \A o \in Options : o \subseteq {"f"},
         NoMissed, HandedHeld, RunningHeld
  PROVE  RunningHeld'
<1>1. SUFFICES ASSUME NEW p \in Client, NEW t \in 1 .. Threads[p], phase'[p] = "running",
                      Heard(p, t)'
               PROVE  Held(work[p][t], Id(p, life[p], t))'
  BY DEF RunningHeld
<1>2. PICK c : c = Id(p, life[p], t)
  OBVIOUS
<1>3. Id(p, life'[p], t) = c
  BY <1>2, ServerWaiters
<1>4. CASE phase[p] = "running" /\ work'[p] = work[p] /\ (p \in unheard => p \in unheard')
  <2>1. PICK n : n = work[p][t]
    OBVIOUS
  <2>2. n \in Task /\ Held(n, c) /\ conn.kind # "req"
    BY <1>1, <1>2, <1>4, <2>1, NoMissedConn DEF LineInv, SysTypeOK, RunningHeld, Heard
  <2>3. conn.tid < Len(cur.msgs) /\ conn.kind \in ReportKind => NextMsg.id # c
    BY <1>2, <1>4, NoRunningReport DEF RoundInv
  <2>4. Held(n, c)'
    BY <2>2, <2>3, HeldStays
  <2> QED
    BY <1>3, <1>4, <2>1, <2>4
<1>5. CASE Delivered(p)
  <2>1. PICK n : n = conn.handed[t]
    OBVIOUS
  <2>5. t \in 1 .. conn.tid /\ work'[p][t] = conn.handed[t]
    BY <1>1, <1>5, DeliveredKeeps DEF RoundInv
  <2>2. Held(n, cur.msgs[t].id) /\ t \in 1 .. Len(cur.msgs)
    BY <1>5, <2>1, <2>5 DEF HandedHeld, Delivered
  <2>3. cur.msgs[t].id = c
    <3>1. p = cur.cl /\ cur.cl # nobody
      BY <1>5, SystemAssumption DEF Delivered
    <3>2. LinkOK(cur)
      BY LineFacts DEF LineInv, LinkGood
    <3>3. \A u \in 1 .. Len(cur.msgs) : cur.msgs[u].id = Id(cur.cl, life[cur.cl], u)
      BY <3>1, <3>2 DEF LinkOK
    <3> QED
      BY <1>2, <2>2, <3>1, <3>3
  <2>4. Held(n, c)'
    <3>1. conn.kind \in GrantKind /\ conn.kind # "req" /\ n \in Task
      BY <1>5, <2>1, <2>5, NoMissedConn DEF LineInv, ConnOK, Delivered
    <3>2. conn.kind \notin ReportKind
      BY <3>1, Kinds
    <3> QED
      BY <2>2, <2>3, <3>1, <3>2, HeldStays
  <2> QED
    BY <1>3, <1>5, <2>1, <2>4, <2>5
<1> QED
  BY <1>1, <1>4, <1>5, ServerWork

\* What a client does leaves the tables alone; only the end of its own batch
\* may be lost, beyond what was served.
LEMMA ClientHeld ==
  ASSUME LineInv, NEW p \in Client, ClientStep(p), HandedHeld, RunningHeld
  PROVE  HandedHeld' /\ RunningHeld'
<1>1. UNCHANGED <<assigned, complete, clientid, conn>> /\ conn.tid \in Nat
  BY ClientOthers DEF vars, files, LineInv, SysTypeOK, TypeOK, Conn
<1>2. \A n, c : Held(n, c) => Held(n, c)'
  BY <1>1 DEF Held
<1>3. HandedHeld'
  <2>1. PICK h, ms : h = conn.handed /\ ms = cur.msgs
    OBVIOUS
  <2>2. \A t \in 1 .. conn.tid : t \in 1 .. Len(ms) => t \in 1 .. Len(cur'.msgs) /\ cur'.msgs[t] = ms[t]
    <3>1. CASE cur' = cur
      BY <2>1, <3>1
    <3>2. CASE Forsake(p)
      <4>1. cur' = Orphan(cur, conn.tid + 1, p) /\ cur \in Link \cup {NoLink} /\ conn.tid + 1 \in Nat
        BY <1>1, <3>2 DEF Forsake, LineInv, SysTypeOK
      <4>2. /\ Len(cur'.msgs) \in Nat
            /\ Len(cur'.msgs) = Len(ms) \/ Len(cur'.msgs) = conn.tid + 1
            /\ \A u \in 1 .. Len(cur'.msgs) : cur'.msgs[u] = ms[u]
        BY <2>1, <4>1, OrphanFacts
      <4> QED
        BY <1>1, <4>2
    <3> QED
      BY <3>1, <3>2, ClientMoves
  <2>3. conn.kind \in GrantKind =>
          \A t \in 1 .. conn.tid : t \in 1 .. Len(ms) /\ Held(h[t], ms[t].id)
    BY <2>1 DEF HandedHeld
  <2>4. conn'.handed = h /\ conn'.tid = conn.tid /\ conn'.kind = conn.kind
    BY <1>1, <2>1
  <2>5. SUFFICES ASSUME conn.kind \in GrantKind, NEW t \in 1 .. conn.tid
                 PROVE  t \in 1 .. Len(cur'.msgs) /\ Held(h[t], cur.msgs[t].id)'
    BY <2>4 DEF HandedHeld
  <2>6. Held(h[t], ms[t].id)'
    BY <1>2, <2>3, <2>5
  <2> QED
    BY <2>2, <2>3, <2>5, <2>6
<1>4. RunningHeld'
  <2>1. SUFFICES ASSUME NEW q \in Client, NEW t \in 1 .. Threads[q], phase'[q] = "running",
                        Heard(q, t)'
                 PROVE  Held(work[q][t], Id(q, life[q], t))'
    BY DEF RunningHeld
  <2>7. q \in unheard' <=> q \in unheard
    <3>1. q # p => (q \in unheard' <=> q \in unheard)
      BY DEF ClientStep, Ask, AskFails, RunSucceeds, RunFails, ReportSent, ReportFails,
             ClientStops, ClientStarts
    <3>2. UNCHANGED unheard \/ phase'[p] \in {"idle", "stopped"}
      BY DEF ClientStep, Ask, AskFails, RunSucceeds, RunFails, ReportSent, ReportFails,
             ClientStops, ClientStarts, LineInv, SysTypeOK
    <3> QED
      BY <2>1, <3>1, <3>2
  <2>2. UNCHANGED <<phase[q], life[q], work[q]>>
    <3>1. CASE q # p
      BY <3>1, ClientOthers
    <3>2. CASE UNCHANGED clients
      BY <3>2 DEF clients
    <3>3. phase \in [Client -> Phase]
      BY DEF LineInv, SysTypeOK
    <3>4. \/ phase'[p] # "running"
          \/ UNCHANGED clients
      BY <3>3 DEF ClientStep, Ask, AskFails, RunSucceeds, RunFails, ReportSent, ReportFails,
                  ClientStops, ClientStarts
    <3> QED
      BY <2>1, <3>1, <3>2, <3>4
  <2>3. PICK n, c : n = work[q][t] /\ c = Id(q, life[q], t)
    OBVIOUS
  <2>4. Held(n, c)
    BY <2>1, <2>2, <2>3, <2>7 DEF RunningHeld, Heard
  <2>5. Held(n, c)'
    BY <1>2, <2>4
  <2>6. Id(q, life'[q], t) = c /\ work'[q][t] = n
    BY <2>2, <2>3
  <2> QED
    BY <2>5, <2>6
<1> QED
  BY <1>3, <1>4

\* Whoever runs a task holds it.
LEMMA HeldStep ==
  ASSUME LineInv, PointersExact, RoundInv, \A o \in Options : o \subseteq {"f"}, HeldInv,
         [SysNext]_sysVars
  PROVE  HeldInv'
<1>1. SUFFICES ASSUME NoMissed
               PROVE  HandedHeld' /\ RunningHeld'
  BY DEF HeldInv, NoMissed
<1>2. HandedHeld /\ RunningHeld
  BY <1>1 DEF HeldInv
<1>3. ASSUME UNCHANGED sysVars
      PROVE  HandedHeld' /\ RunningHeld'
  <2>1. /\ UNCHANGED <<assigned, complete, clientid, conn, cur, phase, life, work, unheard>>
    BY <1>3 DEF sysVars, vars, files, clients
  <2> QED
    BY <1>2, <2>1 DEF HandedHeld, RunningHeld, Held, Heard
<1> QED
  BY <1>1, <1>2, <1>3, HandedHeldStep, RunningHeldStep, ClientHeld DEF SysNext

\* At the start nobody has a task.
LEMMA HeldInit ==
  ASSUME SysInit
  PROVE  HeldInv
<1>1. conn = NoConn /\ \A p \in Client : phase[p] = "idle"
  BY DEF SysInit, Init
<1> QED
  BY <1>1, Kinds DEF HeldInv, HandedHeld, RunningHeld

\* Two threads that hold the same task have the same ID.
LEMMA HeldIsExclusive ==
  ASSUME Unlucky = {}, HeldInv
  PROVE  ExclusiveWork
<1>1. SUFFICES ASSUME NoMissed, NEW p \in Client, NEW q \in Client,
                      NEW t \in 1 .. Threads[p], NEW u \in 1 .. Threads[q],
                      phase[p] = "running", phase[q] = "running", Heard(p, t), Heard(q, u),
                      work[p][t] = work[q][u]
               PROVE  p = q /\ t = u
  BY DEF ExclusiveWork, NoMissed
<1>2. Id(p, life[p], t) = Id(q, life[q], u)
  BY <1>1 DEF HeldInv, RunningHeld, Held
<1> QED
  BY <1>2, IdsDiffer

\* No two workers run the same task at a time where no client runs with -l,
\* whatever is lost, repeated or late, as long as the server is not started
\* with an option that frees tasks (-f does not).
THEOREM ExclusiveWorkCorrect ==
  ASSUME Unlucky = {}, \A o \in Options : o \subseteq {"f"}
  PROVE  SysSpec => []ExclusiveWork
<1>1. SysInit => HeldInv
  BY HeldInit
<1>2. LineInv /\ PointersExact /\ RoundInv /\ HeldInv /\ [SysNext]_sysVars => HeldInv'
  BY HeldStep
<1>3. HeldInv => ExclusiveWork
  BY HeldIsExclusive
<1> QED
  BY <1>1, <1>2, <1>3, RoundCorrect, PTL DEF SysSpec
=============================================================================
