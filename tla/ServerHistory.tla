--------------------------- MODULE ServerHistory ---------------------------
(***************************************************************************)
(* Module Server with a history variable: the message about the table of   *)
(* tasks that the last step served.  It adds nothing to what the server    *)
(* does; it makes the messages visible to module TaskTable, which says     *)
(* what each of them may change.                                           *)
(***************************************************************************)
EXTENDS Server

VARIABLE asked  \* history: the message served by the last step

historyVars == <<vars, asked>>

\* No message about the table: accepting, closing, a query, a start.
Nothing == [kind |-> "nothing"]

\* A request: kind "take" is REQ or MRQ, "retake" is req.  The client ID
\* arrived with it.
Request(kind, c) == [kind |-> kind, thread |-> conn.tid, id |-> c, heard |-> TRUE]

\* One whose client ID was not read before something failed.
Unheard(kind) == [kind |-> kind, thread |-> conn.tid, id |-> NoId, heard |-> FALSE]

\* A result by what its checksum says, and a revocation.
Verdict(r) ==
  CASE r.checksum \in KnownChecksum -> "good"
    [] r.checksum = 0 -> "none"
    [] OTHER -> "bad"
Return(n, c, r) == [kind |-> "finish", task |-> n, id |-> c, result |-> Verdict(r)]
Interrupt(n, c) == [kind |-> "free", task |-> n, id |-> c]

HistoryGrant ==
  \/ \E c \in ClientId :
       /\ RequestServed(c) \/ BatchRequestServed(c)
       /\ asked' = Request("take", c)
  \/ (RequestWriteFails \/ RequestReadFails) /\ asked' = Unheard("take")
  \/ \E n \in Task :
       \/ MissedFails(n) /\ asked' = Unheard("retake")
       \/ \E c \in ClientId : MissedServed(n, c) /\ asked' = Request("retake", c)

HistoryReport ==
  \E n \in Task, c \in ClientId :
    \/ /\ InterruptForeign(n, c) \/ InterruptAccepted(n, c)
       /\ asked' = Interrupt(n, c)
    \/ \E r \in Result :
         /\ \/ ReturnForeign(n, c) \/ ReturnZero(n, c, r) \/ ReturnSuspicious(n, c, r)
            \/ ReturnUnassigned(n, c, r) \/ ReturnAccepted(n, c, r)
         /\ asked' = Return(n, c, r)

HistoryDeath ==
  \/ Die /\ asked' = Nothing
  \/ DieInRequest /\ asked' = Unheard("take")
  \/ \E n \in Task : DieInMissed(n) /\ asked' = Unheard("retake")
  \/ \E n \in Task, c \in ClientId :
       \/ DieInInterrupt(n, c) /\ asked' = Interrupt(n, c)
       \/ \E r \in Result, s \in 0 .. 4 :
            DieInReturn(n, c, r, s) /\ asked' = Return(n, c, r)

HistoryInit == Init /\ asked = Nothing

HistoryNext ==
  \/ HistoryGrant \/ HistoryReport \/ HistoryDeath
  \/ (Loop \/ Restart) /\ asked' = Nothing

HistorySpec == HistoryInit /\ [][HistoryNext]_historyVars

-----------------------------------------------------------------------------
\* The server answers every message as the abstract table does, in spite of
\* cached pointers, batches, failures and kills inside a handler: REQ hands
\* out the lowest free task and no other, thread t of a req batch gets the
\* incomplete task with t incomplete ones below it, a result or a revocation
\* counts only if it names the holder of the task, and then it always does.
Table == INSTANCE TaskTable
           WITH open <- up, taken <- assigned, done <- complete, holder <- clientid,
                Thread <- 0 .. MaxThreads - 1
ImplementsTaskTable == Table!Spec

=============================================================================
