---------------------------- MODULE BackupProofs ----------------------------
(***************************************************************************)
(* Proofs about module Backup: what copies that were made at different     *)
(* moments of a running server still agree on, for every number of tasks   *)
(* and every traffic, and what a start makes of them.                      *)
(***************************************************************************)
EXTENDS Backup, ServerProofs

-----------------------------------------------------------------------------
(* The invariant. *)

\* The copies have the types of the files.
ImageType ==
  /\ copied \in 0 .. Len(File)
  /\ image.assigned \subseteq Task /\ image.complete \subseteq Task
  /\ image.clientid \in [Task -> ClientId \cup {NoId}]
  /\ image.record \in [Task -> Record]
  /\ image = [assigned |-> image.assigned, complete |-> image.complete,
              clientid |-> image.clientid, record |-> image.record]

\* The checksum that the records rec have for a task is one of the server's.
Recorded(rec, n) == rec[n].checksum \in KnownChecksum

\* Checksums come from accepted results and from nowhere else.
ChecksumType ==
  \A n \in Task : /\ record[n].checksum \in KnownChecksum \cup {0}
                  /\ image.record[n].checksum \in KnownChecksum \cup {0}

\* RET, between set_complete and its return.
RetInv ==
  /\ ret \in {NoReturn} \cup [task: Task, id: ClientId, result: Result, stored: 0 .. 4]
  /\ ret # NoReturn =>
       /\ Serving("RET")
       /\ clientid[ret.task] = ret.id /\ ret.id # NoId
       /\ ret.result.checksum \in KnownChecksum
       /\ ret.stored # 0 => Recorded(record, ret.task)

\* The complete bit of n is set and its checksum is about to be stored.
InFlight(n) == ret # NoReturn /\ ret.task = n /\ ret.stored = 0

\* There is a checksum, or the reason why not is known.
Accounted(n) == Recorded(record, n) \/ n \in torn \/ InFlight(n)

\* complete.map is copied before the client IDs and these before the
\* checksums: what the copy names as complete is accounted for by the files
\* that are still to be copied, or by their copies.
ImageAccounted ==
  \A n \in image.complete :
    /\ copied < 3 => Accounted(n)
    /\ copied = 3 => Recorded(record, n) \/ n \in torn \/ image.clientid[n] # NoId
    /\ copied > 3 => Recorded(image.record, n) \/ n \in torn \/ image.clientid[n] # NoId

TableAccounted == \A n \in complete : Accounted(n)

BackupInv ==
  /\ TypeOK /\ PointersExact /\ ImageType /\ ChecksumType /\ RetInv
  /\ TableAccounted /\ ImageAccounted

\* The files and their order.
LEMMA FileFacts ==
  /\ Len(File) = 7
  /\ File[1] = "assigned" /\ File[2] = "complete" /\ File[3] = "clientid"
  /\ File[4] = "checksum" /\ File[5] = "mxoffset" /\ File[6] = "overflow"
  /\ File[7] = "usertime"
  /\ \A f \in DOMAIN NoRecord : f \in {"checksum", "mxoffset", "overflow", "usertime"}
  BY DEF File, NoRecord

\* Handlers that record no result, and kills outside of one.
PlainMoves ==
  \/ Grant \/ ReportUnrecorded \/ Abort \/ Close \/ DeathElsewhere \/ Restart
  \/ \E k \in Traffic : Accept(k, 1)

\* They are steps of module Server.
LEMMA PlainMovesAreSteps == PlainMoves => Next
<1>1. 1 \in 1 .. MaxThreads
  BY MaxThreadsAssumption
<1> QED
  BY <1>1, TrafficAssumption DEF PlainMoves, Next, Loop, Death, Report

\* They store no result and complete no task.
LEMMA PlainMovesKeep ==
  ASSUME TypeOK, PlainMoves
  PROVE  UNCHANGED record /\ complete' \subseteq complete
<1>1. Restart => UNCHANGED record /\ complete' \subseteq complete
  BY StartFacts DEF Restart
<1>2. DeathElsewhere => UNCHANGED record /\ complete' \subseteq complete
  BY DEF DeathElsewhere, Die, DieInRequest, DieInMissed, DieInInterrupt, files
<1>3. Abort \/ Close \/ (\E k \in Traffic : Accept(k, 1))
        => UNCHANGED record /\ complete' \subseteq complete
  BY DEF Abort, Close, Accept, files
<1>4. Grant => UNCHANGED record /\ complete' \subseteq complete
  BY DEF Grant, RequestServed, BatchRequestServed, RequestWriteFails, RequestReadFails,
         MissedServed, MissedFails
<1>5. ReportUnrecorded => UNCHANGED record /\ complete' \subseteq complete
  BY DEF ReportUnrecorded, ReturnForeign, InterruptForeign, InterruptAccepted, ReturnZero,
         ReturnSuspicious, ReturnUnassigned, files
<1> QED
  BY <1>1, <1>2, <1>3, <1>4, <1>5 DEF PlainMoves

\* RET while it is watched, one step of ServerMoves each.
ReturnMoves ==
  (\E n \in Task, c \in ClientId, r \in Result : BeginReturn(n, c, r)) \/ StoreNext \/ EndReturn

\* The server's steps by what they do to a result that is being stored.
LEMMA MovesByKind ==
  ASSUME RetInv, ServerMoves
  PROVE  \/ ret = NoReturn /\ PlainMoves /\ ret' = NoReturn /\ torn' = torn
         \/ ReturnMoves /\ torn' = torn
         \/ /\ Die /\ ret' = NoReturn
            /\ torn' = torn \cup IF ret # NoReturn /\ ret.stored = 0 THEN {ret.task} ELSE {}
<1>1. Restart => ret = NoReturn
  <2>1. Restart => ~up
    BY DEF Restart, Start
  <2> QED
    BY <2>1 DEF RetInv, Serving
<1>2. CASE BackupDie
  BY <1>2 DEF BackupDie, PlainMoves
<1> QED
  BY <1>1, <1>2 DEF ServerMoves, PlainMoves, ReturnMoves

\* The types of the tables and the pointers, in the middle of RET too.
LEMMA MovesType ==
  ASSUME TypeOK, PointersExact, RetInv, ServerMoves
  PROVE  TypeOK' /\ PointersExact'
<1>1. CASE PlainMoves \/ Die
  <2>1. PlainMoves
    BY <1>1 DEF PlainMoves, DeathElsewhere
  <2> QED
    BY <2>1, PlainMovesAreSteps, TypeStep, PointersStep
<1>2. ASSUME NEW n \in Task, NEW c \in ClientId, NEW r \in Result, BeginReturn(n, c, r)
      PROVE  TypeOK' /\ PointersExact'
  <2>1. /\ up /\ SetComplete(n) /\ UNCHANGED <<up, assigned, record, clientid, lu, conn>>
    BY <1>2 DEF BeginReturn, AcceptableReturn, Serving
  <2>2. complete' = complete \cup {n} /\ li' \in {li, Scan(complete', li)}
    BY <2>1 DEF SetComplete
  <2>3. li' = Scan(complete', 0)
    BY <2>1, SetCompleteExact
  <2>4. complete' \in SUBSET Task /\ 0 \in 0 .. NumTasks
    BY <2>2, NumTasksAssumption DEF TypeOK
  <2>5. li' \in 0 .. NumTasks
    BY <2>3, <2>4, ScanSpec
  <2> QED
    BY <2>1, <2>3, <2>4, <2>5 DEF TypeOK, PointersExact
<1>3. CASE StoreNext
  <2>1. PICK s \in StoreBreak : record' = [record EXCEPT ![ret.task] = Stored(@, ret.result, s)]
    BY <1>3 DEF StoreNext
  <2>2. ret.task \in Task /\ ret.result \in Result
    BY <1>3 DEF StoreNext, RetInv
  <2>3. Stored(record[ret.task], ret.result, s) \in Record
    BY <2>2, StoredType DEF TypeOK
  <2>4. record' \in [Task -> Record]
    BY <2>1, <2>3 DEF TypeOK
  <2> QED
    BY <1>3, <2>4 DEF StoreNext, TypeOK, PointersExact
<1>4. CASE EndReturn
  <2>1. ret # NoReturn /\ ret.task \in Task /\ Serving("RET") /\ <<>> \in Seq(Nat)
    BY <1>4 DEF EndReturn, RetInv
  <2>2. conn' \in Conn
    BY <1>4, <2>1, ConnType DEF EndReturn
  <2>3. clientid' \in [Task -> ClientId \cup {NoId}]
    BY <1>4, <2>1 DEF EndReturn, SetClientId, TypeOK
  <2> QED
    BY <1>4, <2>2, <2>3 DEF EndReturn, TypeOK, PointersExact
<1> QED
  BY <1>1, <1>2, <1>3, <1>4, MovesByKind DEF ReturnMoves

\* What is accounted for stays so, what becomes complete is, and what RET
\* knows of its own result stays true.
LEMMA MovesAccount ==
  ASSUME TypeOK, RetInv, ChecksumType, NoId \notin ClientId, ServerMoves
  PROVE  /\ RetInv' /\ torn \subseteq torn'
         /\ \A n \in Task :
              /\ Recorded(record, n) => Recorded(record', n)
              /\ Accounted(n) => Accounted(n)'
              /\ n \in complete' => n \in complete \/ Accounted(n)'
              /\ record'[n].checksum \in KnownChecksum \cup {0}
<1>1. CASE ret = NoReturn /\ PlainMoves /\ ret' = NoReturn /\ torn' = torn
  BY <1>1, PlainMovesKeep DEF RetInv, Accounted, InFlight, Recorded, ChecksumType
<1>2. CASE /\ Die /\ ret' = NoReturn
           /\ torn' = torn \cup IF ret # NoReturn /\ ret.stored = 0 THEN {ret.task} ELSE {}
  <2>1. UNCHANGED <<record, complete>> /\ torn \subseteq torn'
    BY <1>2 DEF Die, files
  <2>2. \A n : InFlight(n) => n \in torn'
    BY <1>2 DEF InFlight
  <2> QED
    BY <1>2, <2>1, <2>2 DEF RetInv, Accounted, Recorded, ChecksumType
<1>3. ASSUME NEW n \in Task, NEW c \in ClientId, NEW r \in Result, BeginReturn(n, c, r),
             torn' = torn
      PROVE  /\ RetInv' /\ record' = record /\ complete' = complete \cup {n}
             /\ ret = NoReturn /\ InFlight(n)'
  <2>1. /\ ret = NoReturn /\ ret' = [task |-> n, id |-> c, result |-> r, stored |-> 0]
        /\ complete' = complete \cup {n} /\ UNCHANGED <<up, record, clientid, conn>>
        /\ Serving("RET") /\ clientid[n] = c /\ r.checksum \in KnownChecksum
    BY <1>3 DEF BeginReturn, AcceptableReturn, SetComplete
  <2>2. /\ ret' # NoReturn /\ ret'.task = n /\ ret'.id = c /\ ret'.result = r /\ ret'.stored = 0
        /\ ret' \in [task: Task, id: ClientId, result: Result, stored: 0 .. 4]
    <3>1. ret'.task = n /\ NoReturn.task = -1 /\ n # -1
      BY <2>1 DEF NoReturn, Task
    <3> QED
      BY <2>1, <3>1
  <2> QED
    BY <2>1, <2>2 DEF RetInv, InFlight, Serving, Recorded
<1>4. ASSUME StoreNext, torn' = torn
      PROVE  /\ RetInv' /\ complete' = complete
             /\ ret # NoReturn /\ ret.task \in Task /\ Recorded(record', ret.task)
             /\ \A m \in Task : m # ret.task => record'[m] = record[m]
  <2>1. PICK s \in StoreBreak :
          /\ s > ret.stored /\ ret' = [ret EXCEPT !.stored = s]
          /\ record' = [record EXCEPT ![ret.task] = Stored(record[ret.task], ret.result, s)]
    BY <1>4 DEF StoreNext
  <2>2. /\ ret # NoReturn /\ ret \in [task: Task, id: ClientId, result: Result, stored: 0 .. 4]
        /\ s \in 1 .. 4 /\ UNCHANGED <<up, complete, clientid, conn>>
    BY <1>4, StoreBreakAssumption DEF StoreNext, RetInv
  <2>3. Stored(record[ret.task], ret.result, s).checksum = ret.result.checksum
    BY <2>2 DEF Stored
  <2>4. Recorded(record', ret.task) /\ \A m \in Task : m # ret.task => record'[m] = record[m]
    BY <2>1, <2>2, <2>3 DEF Recorded, RetInv, TypeOK
  <2>5. /\ ret'.task = ret.task /\ ret'.id = ret.id /\ ret'.result = ret.result /\ ret'.stored = s
        /\ ret' \in [task: Task, id: ClientId, result: Result, stored: 0 .. 4]
    BY <2>1, <2>2
  <2>6. RetInv'
    BY <2>2, <2>4, <2>5 DEF RetInv, Serving
  <2> QED
    BY <2>2, <2>4, <2>6
<1>5. ASSUME EndReturn, torn' = torn
      PROVE  /\ RetInv' /\ UNCHANGED <<complete, record>> /\ \A m : ~ InFlight(m)
  BY <1>5 DEF EndReturn, RetInv, InFlight
<1>6. CASE ReturnMoves /\ torn' = torn
  <2>1. CASE StoreNext
    BY <1>4, <1>6, <2>1 DEF Accounted, InFlight, Recorded, ChecksumType
  <2>2. CASE EndReturn
    BY <1>5, <1>6, <2>2 DEF Accounted, Recorded, ChecksumType
  <2>3. CASE \E n \in Task, c \in ClientId, r \in Result : BeginReturn(n, c, r)
    <3>1. PICK n \in Task, c \in ClientId, r \in Result : BeginReturn(n, c, r)
      BY <2>3
    <3>2. /\ RetInv' /\ record' = record /\ complete' = complete \cup {n}
          /\ ret = NoReturn /\ InFlight(n)'
      BY <1>3, <1>6, <3>1
    <3>3. \A m : ~ InFlight(m)
      BY <3>2 DEF InFlight
    <3> QED
      BY <1>6, <3>2, <3>3 DEF Accounted, Recorded, ChecksumType
  <2> QED
    BY <1>6, <2>1, <2>2, <2>3 DEF ReturnMoves
<1> QED
  BY <1>1, <1>2, <1>6, MovesByKind

\* What a copy leaves alone.
LEMMA ServerStands ==
  ASSUME TypeOK, PointersExact, RetInv, TableAccounted, UNCHANGED <<vars, ret, torn>>
  PROVE  /\ TypeOK' /\ PointersExact' /\ RetInv' /\ TableAccounted'
         /\ UNCHANGED <<complete, record, clientid>>
         /\ \A n : Accounted(n)' <=> Accounted(n)
  BY DEF TypeOK, PointersExact, RetInv, TableAccounted, Accounted, InFlight, Recorded, Serving,
         vars, files

\* The next file is copied.
LEMMA CopyStep ==
  ASSUME BackupInv, CopyNext
  PROVE  BackupInv'
<1>1. /\ UNCHANGED <<vars, ret, torn>> /\ copied \in 0 .. 6 /\ copied' = copied + 1
      /\ copied' \in 0 .. 7
  BY FileFacts DEF CopyNext, Finished, BackupInv, ImageType
<1>2. /\ TypeOK' /\ PointersExact' /\ RetInv' /\ TableAccounted'
      /\ UNCHANGED <<complete, record, clientid>>
      /\ \A n : Accounted(n)' <=> Accounted(n)
      /\ record \in [Task -> Record] /\ assigned \subseteq Task /\ complete \subseteq Task
      /\ clientid \in [Task -> ClientId \cup {NoId}] /\ torn' = torn
  BY <1>1, ServerStands DEF BackupInv, TypeOK
<1>3. /\ ChecksumType /\ ImageAccounted /\ ImageType /\ TableAccounted /\ RetInv
  BY DEF BackupInv
<1> DEFINE f == File[copied + 1]
<1>4. ASSUME NEW A, NEW C, NEW I, NEW R, image' = [assigned |-> A, complete |-> C,
                                                   clientid |-> I, record |-> R],
             A \subseteq Task, C \subseteq Task, I \in [Task -> ClientId \cup {NoId}],
             R \in [Task -> Record],
             \A n \in Task : R[n].checksum \in KnownChecksum \cup {0},
             \A n \in C :
               /\ copied' < 3 => Accounted(n)
               /\ copied' = 3 => Recorded(record, n) \/ n \in torn \/ I[n] # NoId
               /\ copied' > 3 => Recorded(R, n) \/ n \in torn \/ I[n] # NoId
      PROVE  BackupInv'
  <2>1. image'.assigned = A /\ image'.complete = C /\ image'.clientid = I /\ image'.record = R
    BY <1>4
  <2>2. ImageType'
    BY <1>1, <1>4, <2>1, FileFacts DEF ImageType
  <2>3. ChecksumType'
    BY <1>2, <1>3, <1>4, <2>1 DEF ChecksumType
  <2>4. ImageAccounted'
    BY <1>2, <1>4, <2>1 DEF ImageAccounted
  <2> QED
    BY <1>2, <2>2, <2>3, <2>4 DEF BackupInv
<1>5. \A n \in Task : image.record[n].checksum \in KnownChecksum \cup {0}
  BY <1>3 DEF ChecksumType
<1>6. CASE f = "assigned" /\ image' = [image EXCEPT !.assigned = assigned]
  <2>1. image' = [assigned |-> assigned, complete |-> image.complete,
                  clientid |-> image.clientid, record |-> image.record]
    BY <1>3, <1>6 DEF ImageType
  <2>2. copied = 0
    BY <1>1, <1>6, FileFacts
  <2>3. \A n \in image.complete : Accounted(n)
    BY <1>3, <2>2 DEF ImageAccounted
  <2> QED
    BY <1>1, <1>2, <1>3, <1>4, <1>5, <2>1, <2>2, <2>3 DEF ImageType
<1>7. CASE f = "complete" /\ image' = [image EXCEPT !.complete = complete]
  <2>1. image' = [assigned |-> image.assigned, complete |-> complete,
                  clientid |-> image.clientid, record |-> image.record]
    BY <1>3, <1>7 DEF ImageType
  <2>2. copied = 1
    BY <1>1, <1>7, FileFacts
  <2>3. \A n \in complete : Accounted(n)
    BY <1>3 DEF TableAccounted
  <2> QED
    BY <1>1, <1>2, <1>3, <1>4, <1>5, <2>1, <2>2, <2>3 DEF ImageType
<1>8. CASE f = "clientid" /\ image' = [image EXCEPT !.clientid = clientid]
  <2>1. image' = [assigned |-> image.assigned, complete |-> image.complete,
                  clientid |-> clientid, record |-> image.record]
    BY <1>3, <1>8 DEF ImageType
  <2>2. copied = 2
    BY <1>1, <1>8, FileFacts
  <2>3. \A n \in image.complete : Accounted(n)
    BY <1>3, <2>2 DEF ImageAccounted
  <2>4. \A n : InFlight(n) => clientid[n] # NoId
    BY <1>3 DEF InFlight, RetInv
  <2>5. \A n \in image.complete : Recorded(record, n) \/ n \in torn \/ clientid[n] # NoId
    BY <2>3, <2>4 DEF Accounted
  <2> QED
    BY <1>1, <1>2, <1>3, <1>4, <1>5, <2>1, <2>2, <2>5 DEF ImageType
<1>9. CASE f \in DOMAIN NoRecord /\ CopyField(f)
  <2> DEFINE rec == [n \in Task |-> [image.record[n] EXCEPT ![f] = record[n][f]]]
  <2>1. f \in {"checksum", "mxoffset", "overflow", "usertime"}
    BY <1>9, FileFacts
  <2>2. rec \in [Task -> Record]
    BY <1>2, <1>3, <2>1 DEF ImageType, Record
  <2>3. \A n \in Task : rec[n].checksum = IF f = "checksum" THEN record[n].checksum
                                          ELSE image.record[n].checksum
    BY <1>2, <1>3, <2>1 DEF ImageType, Record
  <2>4. image' = [image EXCEPT !.record = rec]
    BY <1>9 DEF CopyField
  <2>5. copied \in 3 .. 6 /\ (f = "checksum" <=> copied = 3)
    BY <1>1, <2>1, FileFacts
  <2> HIDE DEF rec, f
  <2>6. image' = [assigned |-> image.assigned, complete |-> image.complete,
                  clientid |-> image.clientid, record |-> rec]
    BY <1>3, <2>4 DEF ImageType
  <2>7. \A n \in Task : rec[n].checksum \in KnownChecksum \cup {0}
    BY <1>3, <1>5, <2>3 DEF ChecksumType
  <2>8. \A n \in image.complete : Recorded(rec, n) \/ n \in torn \/ image.clientid[n] # NoId
    BY <1>3, <2>3, <2>5 DEF ImageType, ImageAccounted, Recorded
  <2> QED
    BY <1>1, <1>2, <1>3, <1>4, <2>2, <2>5, <2>6, <2>7, <2>8 DEF ImageType
<1> QED
  BY <1>6, <1>7, <1>8, <1>9 DEF CopyNext

\* Every step keeps the invariant.
LEMMA BackupStep ==
  ASSUME BackupInv, NoId \notin ClientId, [BackupNext]_backupVars
  PROVE  BackupInv'
<1>0. /\ TypeOK /\ PointersExact /\ ImageType /\ ChecksumType /\ RetInv
      /\ TableAccounted /\ ImageAccounted
  BY DEF BackupInv
<1>1. CASE UNCHANGED backupVars
  <2>1. /\ TypeOK' /\ PointersExact' /\ RetInv' /\ TableAccounted'
        /\ UNCHANGED <<complete, record, clientid>>
        /\ \A n : Accounted(n)' <=> Accounted(n)
    BY <1>0, <1>1, ServerStands DEF backupVars
  <2>2. UNCHANGED <<copied, image, torn>>
    BY <1>1 DEF backupVars
  <2> QED
    BY <1>0, <2>1, <2>2 DEF BackupInv, ImageType, ChecksumType, ImageAccounted
<1>2. CASE ServerMoves /\ UNCHANGED <<copied, image>>
  <2>1. TypeOK' /\ PointersExact'
    BY <1>0, <1>2, MovesType
  <2>2. /\ RetInv' /\ torn \subseteq torn'
        /\ \A n \in Task :
             /\ Recorded(record, n) => Recorded(record', n)
             /\ Accounted(n) => Accounted(n)'
             /\ n \in complete' => n \in complete \/ Accounted(n)'
             /\ record'[n].checksum \in KnownChecksum \cup {0}
    BY <1>0, <1>2, MovesAccount
  <2>3. copied' = copied /\ image' = image
    BY <1>2
  <2>4. ImageType'
    BY <1>0, <2>3 DEF ImageType
  <2>5. ChecksumType'
    BY <1>0, <2>2, <2>3 DEF ChecksumType
  <2>6. TableAccounted'
    <3>1. complete' \subseteq Task /\ \A n \in complete : Accounted(n)
      BY <1>0, <2>1 DEF TypeOK, TableAccounted
    <3>2. \A n \in complete' : Accounted(n)'
      BY <2>2, <3>1
    <3> QED
      BY <3>2 DEF TableAccounted
  <2>7. ImageAccounted'
    <3>1. \A n \in image.complete : n \in Task /\ (copied < 3 => Accounted(n)')
      BY <1>0, <2>2 DEF ImageAccounted, ImageType
    <3>2. \A n \in image.complete :
            /\ copied = 3 => Recorded(record', n) \/ n \in torn' \/ image.clientid[n] # NoId
            /\ copied > 3 => Recorded(image.record, n) \/ n \in torn' \/ image.clientid[n] # NoId
      BY <1>0, <2>2 DEF ImageAccounted, ImageType
    <3> QED
      BY <2>3, <3>1, <3>2 DEF ImageAccounted
  <2> QED
    BY <2>1, <2>2, <2>4, <2>5, <2>6, <2>7 DEF BackupInv
<1>3. CASE CopyNext
  BY <1>3, CopyStep
<1>4. CASE BackupAgain
  <2>1. UNCHANGED <<vars, ret, torn>> /\ copied' = 0 /\ image' = NoImage /\ NoRecord \in Record
    BY <1>4 DEF BackupAgain, NoRecord, Record
  <2>2. TypeOK' /\ PointersExact' /\ RetInv' /\ TableAccounted' /\ UNCHANGED record
    BY <1>0, <2>1, ServerStands
  <2>3. ImageType'
    BY <2>1, FileFacts DEF ImageType, NoImage
  <2>4. ChecksumType' /\ ImageAccounted'
    BY <1>0, <2>1, <2>2 DEF ChecksumType, ImageAccounted, NoImage, NoRecord
  <2> QED
    BY <2>2, <2>3, <2>4 DEF BackupInv
<1>5. CASE Restore
  <2>1. /\ ~up /\ up' = up /\ copied = 7 /\ UNCHANGED <<lu, li, conn, copied, image, ret>>
        /\ assigned' = image.assigned /\ complete' = image.complete
        /\ clientid' = image.clientid /\ record' = image.record
        /\ torn' = torn \cup {n \in image.complete : image.record[n].checksum = 0}
    BY <1>5, FileFacts DEF Restore, Finished
  <2>2. ret = NoReturn
    BY <1>0, <2>1 DEF RetInv, Serving
  <2>3. TypeOK' /\ PointersExact' /\ ImageType' /\ ChecksumType' /\ RetInv'
    BY <1>0, <2>1, <2>2 DEF TypeOK, PointersExact, ImageType, ChecksumType, RetInv
  <2>4. \A n \in image.complete : Recorded(image.record, n) \/ n \in torn'
    BY <1>0, <2>1 DEF ImageType, ChecksumType, Recorded
  <2>5. TableAccounted'
    BY <2>1, <2>4 DEF TableAccounted, Accounted, Recorded
  <2>6. ImageAccounted'
    BY <2>1, <2>4 DEF ImageAccounted, Recorded
  <2> QED
    BY <2>3, <2>5, <2>6 DEF BackupInv
<1> QED
  BY <1>1, <1>2, <1>3, <1>4, <1>5 DEF BackupNext

\* At every moment of a backup, and after it was put back.
LEMMA BackupInvCorrect ==
  ASSUME NoId \notin ClientId
  PROVE  BackupSpec => []BackupInv
<1>1. BackupInit => BackupInv
  <2>1. NoRecord \in Record /\ NoRecord.checksum = 0 /\ (Init => TypeOK)
    BY InitType DEF NoRecord, Record
  <2>2. BackupInit => ImageType /\ ChecksumType /\ ImageAccounted
    BY <2>1, FileFacts DEF BackupInit, ImageType, ChecksumType, ImageAccounted, Init, NoImage,
                           NoRecord, Record
  <2>3. BackupInit => TypeOK /\ PointersExact
    BY <2>1 DEF BackupInit, PointersExact, Init
  <2>4. BackupInit => RetInv /\ TableAccounted
    BY DEF BackupInit, RetInv, TableAccounted, Init
  <2> QED
    BY <2>2, <2>3, <2>4 DEF BackupInv
<1>2. BackupInv /\ [BackupNext]_backupVars => BackupInv'
  BY BackupStep
<1> QED
  BY <1>1, <1>2, PTL DEF BackupSpec

-----------------------------------------------------------------------------
(* What the backup is good for. *)

\* The types of the tables survive a backup of any moments put back.
THEOREM BackupTypeCorrect ==
  ASSUME NoId \notin ClientId
  PROVE  BackupSpec => [](TypeOK /\ PointersExact)
<1>1. BackupInv => TypeOK /\ PointersExact
  BY DEF BackupInv
<1> QED
  BY <1>1, BackupInvCorrect, PTL

\* However many tasks are completed, taken back by a start or completed again
\* between the copies, and wherever RET is killed: a task that a finished
\* backup calls complete has its checksum in it, or the client ID of the
\* result that was being stored, or was torn before.
THEOREM BackupRecordedCorrect ==
  ASSUME NoId \notin ClientId
  PROVE  BackupSpec => []BackupRecorded
<1>1. BackupInv => BackupRecorded
  BY FileFacts DEF BackupInv, ImageAccounted, Recorded, BackupRecorded, Finished
<1> QED
  BY <1>1, BackupInvCorrect, PTL

\* Only a start brings the server up.
LEMMA OnlyStartsBringUp ==
  ASSUME RetInv, [BackupNext]_backupVars, ~up, up'
  PROVE  Restart /\ torn' = torn
<1>1. Grant \/ ReportUnrecorded => up
  BY DEF Grant, ReportUnrecorded, RequestServed, BatchRequestServed, RequestWriteFails,
         RequestReadFails, MissedServed, MissedFails, ReturnForeign, InterruptForeign,
         InterruptAccepted, ReturnZero, ReturnSuspicious, ReturnUnassigned, Serving
<1>2. Abort \/ Close \/ (\E k \in Traffic : Accept(k, 1)) => up
  BY DEF Abort, Close, Accept
<1>3. BackupDie => ~up'
  BY DEF BackupDie, DeathElsewhere, Die, DieInRequest, DieInMissed, DieInInterrupt, ProcessEnds
<1>4. CopyNext \/ BackupAgain \/ Restore \/ UNCHANGED backupVars => up' = up
  BY DEF CopyNext, BackupAgain, Restore, backupVars, vars
<1>5. StoreNext \/ EndReturn => up' = up
  BY DEF StoreNext, EndReturn
<1>6. (\E n \in Task, c \in ClientId, r \in Result : BeginReturn(n, c, r)) => up
  BY DEF BeginReturn, AcceptableReturn, Serving
<1> QED
  BY <1>1, <1>2, <1>3, <1>4, <1>5, <1>6 DEF BackupNext, ServerMoves

\* A start with -f leaves the two bitmaps and the IDs in accord, whatever was
\* put back and whatever the other options reset.
LEMMA StartWithRepair ==
  ASSUME TypeOK, \A o \in Options : "f" \in o, Restart
  PROVE  /\ complete' \subseteq assigned' /\ complete' \subseteq complete
         /\ \A n \in complete' : clientid'[n] = NoId
         /\ lu' = Scan(assigned', 0) /\ li' = Scan(complete', 0)
         /\ record' = record
<1>1. PICK opts \in Options, listed \in SUBSET Task, sb \in 0 .. NumTasks - 1 :
        Start(opts, listed, sb)
  BY DEF Restart
<1> DEFINE reset == Given("m" \in opts, listed) \cup Given("i" \in opts, Overflown)
                      \cup Given("z" \in opts, Outdated)
           complete1 == complete \ reset
           assigned1 == (assigned \ reset) \cup Given("f" \in opts, complete1)
           lost == Given("f" \in opts, LostHolder(complete1, assigned1))
           reset2 == Given("r" \in opts, Unrecorded(sb))
           complete2 == complete1 \ reset2
           assigned2 == assigned1 \ reset2
           lu2 == Scan(assigned2, 0)
           li2 == Scan(complete2, 0)
           cleared == Given("c" \in opts, (li2 .. lu2 - 1) \ complete2)
<1>2. /\ complete' = complete2 /\ assigned' = assigned2 \ cleared
      /\ clientid' = [n \in Task |-> IF n \in lost THEN NoId ELSE clientid[n]]
  BY <1>1 DEF Start
<1>3. complete1 \subseteq assigned1 /\ complete1 \subseteq lost /\ complete1 \subseteq Task
  <2> HIDE DEF reset
  <2> QED
    BY DEF Given, LostHolder, TypeOK
<1>4. cleared \cap complete2 = {}
  <2> HIDE DEF complete2, li2, lu2
  <2> QED
    BY DEF Given
<1>5. complete2 \subseteq complete1 /\ complete2 \subseteq assigned2 /\ complete1 \subseteq complete
  <2> HIDE DEF reset, reset2, assigned1
  <2> QED
    BY <1>3
<1>6. /\ lu' = Scan(assigned', 0) /\ li' = Scan(complete', 0) /\ record' = record
  BY <1>1, StartFacts
<1> HIDE DEF complete1, assigned1, lost, complete2, assigned2, cleared
<1> QED
  BY <1>2, <1>3, <1>4, <1>5, <1>6

\* Started with -f the server makes the bitmaps and the IDs of every backup,
\* and every trace of a kill, agree; and only a kill inside RET, or a copy
\* made there, can leave it with a complete task that has no checksum.
THEOREM StartRepairsCorrect ==
  ASSUME NoId \notin ClientId, \A o \in Options : "f" \in o
  PROVE  BackupSpec => StartRepairs
<1>1. ASSUME BackupInv, [BackupNext]_backupVars, ~up, up'
      PROVE  \A n \in complete' : /\ n \in assigned' /\ clientid'[n] = NoId
                                  /\ record'[n].checksum \in KnownChecksum \/ n \in torn'
  <2>1. RetInv /\ TypeOK /\ TableAccounted
    BY <1>1 DEF BackupInv
  <2>2. Restart /\ torn' = torn
    BY <1>1, <2>1, OnlyStartsBringUp
  <2>3. ret = NoReturn
    BY <1>1, <2>1 DEF RetInv, Serving
  <2>4. \A n \in complete : record[n].checksum \in KnownChecksum \/ n \in torn
    BY <2>1, <2>3 DEF TableAccounted, Accounted, Recorded, InFlight
  <2> QED
    BY <2>1, <2>2, <2>4, StartWithRepair
<1>2. BackupInv /\ [BackupNext]_backupVars =>
        [~up /\ up' => \A n \in complete' :
           /\ n \in assigned' /\ clientid'[n] = NoId
           /\ record'[n].checksum \in KnownChecksum \/ n \in torn']_backupVars
  BY <1>1
<1> QED
  BY <1>2, BackupInvCorrect, PTL DEF BackupSpec, StartRepairs

\* Started with -f and -c it goes on at the frontier: the lowest task that is
\* not complete is free and the next to be handed out.
THEOREM ClearReturnsToFrontierCorrect ==
  ASSUME NoId \notin ClientId, \A o \in Options : {"f", "c"} \subseteq o
  PROVE  BackupSpec => ClearReturnsToFrontier
<1> DEFINE Returned == ~up /\ up' => lu' = li'
<1>1. ASSUME BackupInv, [BackupNext]_backupVars
      PROVE  Returned
  <2>1. SUFFICES ASSUME ~up, up'
                 PROVE  lu' = li'
    OBVIOUS
  <2>2. Restart /\ TypeOK
    BY <1>1, <2>1, OnlyStartsBringUp DEF BackupInv
  <2>3. PICK opts \in Options, listed \in SUBSET Task, sb \in 0 .. NumTasks - 1 :
          Start(opts, listed, sb)
    BY <2>2 DEF Restart
  <2>4. "c" \in opts
    OBVIOUS
  <2>5. PICK S, h : lu' = ClearedPointer(li', h) /\ h = Scan(S, 0) /\ complete' \subseteq S /\ S \subseteq Task
    <3> DEFINE reset == Given("m" \in opts, listed) \cup Given("i" \in opts, Overflown)
                          \cup Given("z" \in opts, Outdated)
               complete1 == complete \ reset
               assigned1 == (assigned \ reset) \cup Given("f" \in opts, complete1)
               reset2 == Given("r" \in opts, Unrecorded(sb))
               complete2 == complete1 \ reset2
               assigned2 == assigned1 \ reset2
    <3>1. /\ lu' = ClearedPointer(li', Scan(assigned2, 0)) /\ complete' = complete2
      BY <2>3, <2>4 DEF Start
    <3>2. complete2 \subseteq assigned2 /\ assigned2 \subseteq Task
      <4>1. "f" \in opts
        OBVIOUS
      <4>2. complete1 \subseteq assigned1 /\ assigned1 \subseteq Task
        <5> HIDE DEF reset
        <5> QED
          BY <2>2, <4>1 DEF Given, TypeOK
      <4> HIDE DEF complete1, assigned1, reset2
      <4> QED
        BY <4>2
    <3> HIDE DEF complete2, assigned2
    <3> QED
      BY <3>1, <3>2
  <2>6. li' = Scan(complete', 0) /\ complete' \subseteq Task
    BY <2>2, StartFacts, <2>3 DEF TypeOK
  <2>7. PICK C, l : C = complete' /\ l = li'
    OBVIOUS
  <2>8. C \in SUBSET Task /\ S \in SUBSET Task /\ C \subseteq S /\ 0 \in 0 .. NumTasks
        /\ l = Scan(C, 0) /\ h = Scan(S, 0)
    BY <2>5, <2>6, <2>7, NumTasksAssumption
  <2>9. l <= h
    BY <2>8, ScanSpec, NumTasksAssumption DEF IsFirstFree
  <2>10. l \in Nat /\ h \in Nat
    BY <2>8, ScanSpec, NumTasksAssumption
  <2> QED
    BY <2>5, <2>7, <2>9, <2>10 DEF ClearedPointer
<1>2. BackupInv /\ [BackupNext]_backupVars => [~up /\ up' => lu' = li']_backupVars
  BY <1>1
<1> QED
  BY <1>2, BackupInvCorrect, PTL DEF BackupSpec, ClearReturnsToFrontier

=============================================================================
