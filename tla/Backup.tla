------------------------------- MODULE Backup -------------------------------
(***************************************************************************)
(* src/server/backup.sh next to the running server: the files are copied   *)
(* one after the other while tasks are granted and completed, so a backup  *)
(* is a mix of moments.  A backup may be put back while the server is      *)
(* down; the server is then started with the options that repair it.       *)
(* A file is copied at once here: what the properties say of one task      *)
(* depends only on the order in which the files reach that task.           *)
(***************************************************************************)
EXTENDS Server

CONSTANTS
  Traffic,    \* Bound: the kinds of connections made to the server
  StoreBreak  \* Bound: after how many stores of a result RET may be watched

ASSUME TrafficAssumption == Traffic \subseteq GrantKind \cup ReportKind \cup QueryKind
ASSUME StoreBreakAssumption == StoreBreak \subseteq 1 .. 4 /\ 4 \in StoreBreak

\* RET is storing nothing.
NoReturn == [task |-> -1, id |-> NoId, result |-> NoRecord, stored |-> 0]

VARIABLES
  copied,  \* the number of files copied since the script was started
  image,   \* the copies, the last complete or partial backup
  ret,     \* the accepted result that RET is storing
  torn     \* history: the tasks whose result a kill, or a copy that was put
           \* back, has caught between the complete bit and the checksum

backupVars == <<vars, copied, image, ret, torn>>

\* [mistake] the DATS are copied before the MAPS
FileRecordsFirst ==
  <<"clientid", "checksum", "mxoffset", "overflow", "usertime", "assigned", "complete">>

\* MAPS, then DATS
File == <<"assigned", "complete", "clientid", "checksum", "mxoffset", "overflow", "usertime">>

Finished == copied = Len(File)

-----------------------------------------------------------------------------
\* Copies of the four result arrays, one field of the records each.
CopyField(f) ==
  image' = [image EXCEPT !.record =
              [n \in Task |-> [image.record[n] EXCEPT ![f] = record[n][f]]]]

CopyNext ==
  /\ ~Finished
  /\ copied' = copied + 1
  /\ LET f == File[copied + 1] IN
       \/ f = "assigned" /\ image' = [image EXCEPT !.assigned = assigned]
       \/ f = "complete" /\ image' = [image EXCEPT !.complete = complete]
       \/ f = "clientid" /\ image' = [image EXCEPT !.clientid = clientid]
       \/ f \in DOMAIN NoRecord /\ CopyField(f)
  /\ UNCHANGED <<vars, ret, torn>>

NoImage == [assigned |-> {}, complete |-> {},
            clientid |-> [n \in Task |-> NoId], record |-> [n \in Task |-> NoRecord]]

\* The script is run again: the previous copies are renamed away.
BackupAgain ==
  /\ Finished
  /\ copied' = 0
  /\ image' = NoImage
  /\ UNCHANGED <<vars, ret, torn>>

\* The operator puts a finished backup back.
Restore ==
  /\ ~up /\ Finished
  /\ assigned' = image.assigned
  /\ complete' = image.complete
  /\ clientid' = image.clientid
  /\ record' = image.record
  /\ torn' = torn \cup {n \in image.complete : image.record[n].checksum = 0}
  /\ UNCHANGED <<up, lu, li, conn, copied, image, ret>>

-----------------------------------------------------------------------------
(* The server in between.  What RET does to the files takes several steps:  *)
(* the bit in complete.map, the four stores, the client ID.                 *)

\* RET accepts a result: set_complete.
BeginReturn(n, c, r) ==
  /\ ret = NoReturn
  /\ AcceptableReturn(n, c, r)
  /\ SetComplete(n)
  /\ ret' = [task |-> n, id |-> c, result |-> r, stored |-> 0]
  /\ UNCHANGED <<up, assigned, record, clientid, lu, conn>>

\* More stores of the record: s of the four are made.
StoreNext ==
  /\ ret # NoReturn
  /\ \E s \in StoreBreak :
       /\ s > ret.stored
       /\ ret' = [ret EXCEPT !.stored = s]
       /\ record' = [record EXCEPT ![ret.task] = Stored(@, ret.result, s)]
  /\ UNCHANGED <<up, assigned, complete, clientid, lu, li, conn>>

\* The client ID is cleared and RET returns.
EndReturn ==
  /\ ret # NoReturn /\ ret.stored = 4
  /\ SetClientId(ret.task, NoId)
  /\ NextMessage(<<>>)
  /\ ret' = NoReturn
  /\ UNCHANGED <<up, assigned, complete, record, lu, li>>

\* A kill leaves what has been stored.
BackupDie ==
  /\ \/ ret = NoReturn /\ DeathElsewhere
     \/ Die
  /\ ret' = NoReturn
  /\ torn' = torn \cup IF ret # NoReturn /\ ret.stored = 0 THEN {ret.task} ELSE {}

ServerMoves ==
  \/ /\ ret = NoReturn
     /\ \/ Grant \/ ReportUnrecorded \/ Abort \/ Close
        \/ \E k \in Traffic : Accept(k, 1)
     /\ UNCHANGED <<ret, torn>>
  \/ /\ \/ \E n \in Task, c \in ClientId, r \in Result : BeginReturn(n, c, r)
        \/ StoreNext \/ EndReturn
     /\ UNCHANGED torn
  \/ BackupDie
  \/ Restart /\ UNCHANGED <<ret, torn>>

-----------------------------------------------------------------------------
BackupInit ==
  /\ Init
  /\ copied = Len(File)
  /\ image = NoImage
  /\ ret = NoReturn
  /\ torn = {}

BackupNext ==
  \/ ServerMoves /\ UNCHANGED <<copied, image>>
  \/ CopyNext \/ BackupAgain \/ Restore

BackupSpec == BackupInit /\ [][BackupNext]_backupVars

-----------------------------------------------------------------------------
\* A task that is complete in a finished backup has its checksum there, or
\* its client ID, which tells that RET was storing its result; only a task
\* that was torn before has neither.  The server completes tasks between the
\* copies and is killed inside RET: complete.map is copied before
\* clientids.dat, and that before checksums.dat, while RET goes the same way,
\* from the complete bit over the checksum to the client ID (server.c).
BackupRecorded ==
  Finished => \A n \in image.complete :
    \/ image.record[n].checksum \in KnownChecksum
    \/ image.clientid[n] # NoId
    \/ n \in torn

\* Whatever backup was put back, whatever kills left and whatever the other
\* options reset: after a start with -f a complete task is assigned and has
\* no owner.  It has its checksum too, but for the torn tasks: -f does not
\* look at checksums.
StartRepairs ==
  [][~up /\ up' => \A n \in complete' :
       /\ n \in assigned' /\ clientid'[n] = NoId
       /\ record'[n].checksum \in KnownChecksum \/ n \in torn']_backupVars

\* After a start with -f and -c the next REQ hands out the frontier itself,
\* and no task below it is free.
ClearReturnsToFrontier == [][~up /\ up' => lu' = li']_backupVars
=============================================================================
