----------------------------- MODULE TaskTable -----------------------------
(***************************************************************************)
(* What the server promises about tasks: how the table of tasks answers    *)
(* each message, with no pointers, no connections, no batches and no       *)
(* record of results.  The table is a set of tasks that are taken, a set   *)
(* of tasks that are done, and the holder of each task.  The message fixes *)
(* the answer: which task, and whether anything happens at all.  Module    *)
(* ServerHistory shows that the server implements it.                      *)
(***************************************************************************)
EXTENDS Integers, FiniteSets

CONSTANTS Task, ClientId, NoId, Thread

VARIABLES
  open, taken, done, holder,
  asked  \* the message that the last step answered

vars == <<open, taken, done, holder, asked>>

\* "take" asks for a task nobody has, "retake" for a task that is not done,
\* as thread number `thread'; its sender is heard if its ID arrived.
\* "finish" and "free" are about a task; a result is good or not.
Message ==
  [kind: {"take", "retake"}, thread: Thread, id: ClientId \cup {NoId}, heard: BOOLEAN]
    \cup [kind: {"finish"}, task: Task, id: ClientId, result: {"good", "bad", "none"}]
    \cup [kind: {"free"}, task: Task, id: ClientId]
    \cup [kind: {"nothing"}]

Init ==
  /\ open = FALSE
  /\ taken = {} /\ done = {}
  /\ holder = [n \in Task |-> NoId]
  /\ asked = [kind |-> "nothing"]

\* The only task that message m may be answered with: the lowest one that
\* nobody took, or the undone task with m.thread undone ones below it.
Due(m, n) ==
  \/ /\ m.kind = "take"
     /\ n \in Task \ taken /\ \A k \in Task \ taken : n <= k
  \/ /\ m.kind = "retake"
     /\ n \in Task \ done /\ Cardinality({k \in Task \ done : k < n}) = m.thread

\* The task goes to the sender.  One that was not heard is not the holder,
\* and the task is lost or free as before.
Grant(m) ==
  \E n \in Task :
    /\ Due(m, n)
    /\ IF m.heard
       THEN /\ taken' = taken \cup {n}
            /\ holder' = [holder EXCEPT ![n] = m.id]
       ELSE /\ taken' \in {taken, taken \cup {n}}
            /\ UNCHANGED holder
    /\ UNCHANGED done

FromHolder(m) == holder[m.task] = m.id

\* The holder, and nobody else, finishes a task that is taken.
Finishes(m) ==
  m.kind = "finish" /\ FromHolder(m) /\ m.result = "good" /\ m.task \in taken

\* The holder, and nobody else, gives a task up; it stays done if it was.
GivesUp(m) ==
  /\ m.kind = "free" \/ (m.kind = "finish" /\ m.result = "bad")
  /\ FromHolder(m)

Finish(m) ==
  /\ Finishes(m)
  /\ done' = done \cup {m.task}
  /\ holder' = [holder EXCEPT ![m.task] = NoId]
  /\ UNCHANGED taken

\* After a bad result the holder stays, after a revocation it does not.
Free(m) ==
  /\ GivesUp(m)
  /\ taken' = taken \ {m.task}
  /\ holder' = IF m.kind = "free" THEN [holder EXCEPT ![m.task] = NoId] ELSE holder
  /\ UNCHANGED done

\* Everything else changes nothing.
Ignore(m) ==
  /\ m.kind \notin {"take", "retake"}
  /\ ~Finishes(m) /\ ~GivesUp(m)
  /\ UNCHANGED <<taken, done, holder>>

\* The service stops.  The message it was answering may be left half done:
\* what it does to taken and done has happened, to the holder it has not.
Stop(m) ==
  /\ \/ UNCHANGED <<taken, done>>
     \/ \E n \in Task : Due(m, n) /\ taken' = taken \cup {n} /\ UNCHANGED done
     \/ Finishes(m) /\ done' = done \cup {m.task} /\ UNCHANGED taken
     \/ m.kind = "free" /\ GivesUp(m) /\ taken' = taken \ {m.task} /\ UNCHANGED done
  /\ UNCHANGED holder

\* Only a start may take a task out of the done ones, and a task is then
\* free; a holder is forgotten or stays.
Resume ==
  /\ asked' = [kind |-> "nothing"]
  /\ done' \subseteq done
  /\ taken' \subseteq taken \cup done'
  /\ (done \ done') \cap taken' = {}
  /\ \A n \in Task : holder'[n] \in {holder[n], NoId}
  /\ holder' \in [Task -> ClientId \cup {NoId}]

Next ==
  /\ asked' \in Message
  /\ \/ open /\ open' /\ (Grant(asked') \/ Finish(asked') \/ Free(asked') \/ Ignore(asked'))
     \/ open /\ ~open' /\ Stop(asked')
     \/ ~open /\ open' /\ Resume

Spec == Init /\ [][Next]_vars

=============================================================================
