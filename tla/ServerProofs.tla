---------------------------- MODULE ServerProofs ----------------------------
(***************************************************************************)
(* Proofs about module Server, for every number of tasks, every set of     *)
(* client IDs, every batch size and every set of start options: its types, *)
(* the exactness of the two cached pointers, the frontier that never       *)
(* retreats, and the refinement of module TaskTable.                       *)
(***************************************************************************)
EXTENDS ServerHistory, FiniteSetTheorems, WellFoundedInduction, TLAPS

-----------------------------------------------------------------------------
(* Numbers and sequences. *)

\* Every nonempty set of numbers has a least element.
LEMMA LeastNumber ==
  ASSUME NEW S \in SUBSET Nat, S # {}
  PROVE  \E m \in S : \A n \in S : m <= n
<1> DEFINE R == OpToRel(<, Nat)
<1>1. IsWellFoundedOn(R, Nat)
  BY NatLessThanWellFounded
<1>2. \A x, y \in Nat : (<<y, x>> \in R) <=> y < x
  BY DEF OpToRel
<1> HIDE DEF R
<1>3. PICK x \in S : \A y \in S : ~ (<<y, x>> \in R)
  BY <1>1, WFMin
<1>4. \A y \in S : ~ (y < x)
  BY <1>2, <1>3
<1>5. \A y \in S : x <= y
  BY <1>4
<1> QED
  BY <1>5

\* A sequence with one more element.
LEMMA OneMore ==
  ASSUME NEW T, NEW s \in Seq(T), NEW x \in T
  PROVE  /\ Len(s \o <<x>>) = Len(s) + 1
         /\ (s \o <<x>>)[Len(s) + 1] = x
         /\ \A i \in 1 .. Len(s) : (s \o <<x>>)[i] = s[i]
  OBVIOUS

-----------------------------------------------------------------------------
(* What the loops over the bitmaps find. *)

\* n is the first number from k on that is not in S.
IsFirstFree(S, k, n) ==
  /\ n \in k .. NumTasks
  /\ n \notin S
  /\ \A m \in k .. n - 1 : m \in S

\* The scans of the code end: they find the first clear bit.
LEMMA ScanSpec ==
  ASSUME NEW S \in SUBSET Task, NEW k \in 0 .. NumTasks
  PROVE  /\ IsFirstFree(S, k, Scan(S, k))
         /\ Scan(S, k) \in k .. NumTasks
         /\ Scan(S, k) \in 0 .. NumTasks
<1> DEFINE Free == {n \in k .. NumTasks : n \notin S}
<1>1. Free \in SUBSET Nat /\ NumTasks \in Free
  BY NumTasksAssumption DEF Task
<1>2. PICK n \in Free : \A m \in Free : n <= m
  BY <1>1, LeastNumber
<1>3. \A m \in k .. n - 1 : m \in S
  BY <1>2, NumTasksAssumption
<1>4. \E i \in k .. NumTasks : i \notin S /\ \A m \in k .. i - 1 : m \in S
  BY <1>2, <1>3
<1>5. IsFirstFree(S, k, Scan(S, k))
  BY <1>4 DEF Scan, IsFirstFree
<1> QED
  BY <1>5, NumTasksAssumption DEF IsFirstFree

\* They find nothing else.
LEMMA ScanUnique ==
  ASSUME NEW S \in SUBSET Task, NEW k \in 0 .. NumTasks, NEW n, IsFirstFree(S, k, n)
  PROVE  n = Scan(S, k)
<1>1. IsFirstFree(S, k, Scan(S, k))
  BY ScanSpec
<1> QED
  BY <1>1, NumTasksAssumption DEF IsFirstFree, Task

\* set_complete and the two get functions scan on from the old pointer: the
\* result is the one of a scan from 0 in the new bitmap.
LEMMA ScanOn ==
  ASSUME NEW S \in SUBSET Task, NEW n \in Task,
         NEW p \in 0 .. NumTasks, p = Scan(S, 0)
  PROVE  Scan(S \cup {n}, 0) = IF n = p THEN Scan(S \cup {n}, p) ELSE p
<1> DEFINE T == S \cup {n}
<1>1. T \in SUBSET Task /\ 0 \in 0 .. NumTasks
  BY NumTasksAssumption
<1>2. IsFirstFree(S, 0, p)
  BY <1>1, ScanSpec
<1>3. CASE n = p
  <2>1. IsFirstFree(T, p, Scan(T, p))
    BY <1>1, ScanSpec
  <2>2. IsFirstFree(T, 0, Scan(T, p))
    BY <1>2, <2>1, NumTasksAssumption DEF IsFirstFree
  <2> QED
    BY <1>1, <1>3, <2>2, ScanUnique
<1>4. CASE n # p
  <2>1. IsFirstFree(T, 0, p)
    BY <1>2, <1>4, NumTasksAssumption DEF IsFirstFree
  <2> QED
    BY <1>1, <1>4, <2>1, ScanUnique
<1> QED
  BY <1>3, <1>4

\* unset_assignment moves the pointer back to where a scan from 0 stops.
LEMMA ScanBack ==
  ASSUME NEW S \in SUBSET Task, NEW n \in Task,
         NEW p \in 0 .. NumTasks, p = Scan(S, 0)
  PROVE  Scan(S \ {n}, 0) = IF p > n THEN n ELSE p
<1> DEFINE T == S \ {n}
<1>1. T \in SUBSET Task /\ 0 \in 0 .. NumTasks
  BY NumTasksAssumption
<1>2. IsFirstFree(S, 0, p)
  BY <1>1, ScanSpec
<1>3. IsFirstFree(T, 0, IF p > n THEN n ELSE p)
  BY <1>2, NumTasksAssumption DEF IsFirstFree, Task
<1> QED
  BY <1>1, <1>3, ScanUnique

\* -c: clearing what is not complete below lu brings lu down to li.
LEMMA ScanCleared ==
  ASSUME NEW S \in SUBSET Task, NEW C \in SUBSET Task,
         NEW l \in 0 .. NumTasks, l = Scan(C, 0),
         NEW h \in 0 .. NumTasks, h = Scan(S, 0)
  PROVE  Scan(S \ ((l .. h - 1) \ C), 0) = ClearedPointer(l, h)
<1> DEFINE T == S \ ((l .. h - 1) \ C)
<1>1. T \in SUBSET Task /\ 0 \in 0 .. NumTasks
  BY NumTasksAssumption
<1>2. IsFirstFree(S, 0, h) /\ IsFirstFree(C, 0, l)
  BY <1>1, ScanSpec
<1>3. IsFirstFree(T, 0, IF h > l THEN l ELSE h)
  BY <1>2, NumTasksAssumption DEF IsFirstFree, Task
<1> QED
  BY <1>1, <1>3, ScanUnique DEF ClearedPointer

-----------------------------------------------------------------------------
(* Types. *)

\* Giving up a batch and going on with it keep the type of the connection.
LEMMA ConnType ==
  ASSUME TypeOK
  PROVE  /\ GiveUp => conn' \in Conn
         /\ ProcessEnds => up' \in BOOLEAN /\ conn' \in Conn
                           /\ lu' \in 0 .. NumTasks /\ li' \in 0 .. NumTasks
         /\ \A k, reply : Serving(k) /\ reply \in Seq(Nat) /\ NextMessage(reply)
                         => conn' \in Conn
<1>1. NoConn \in Conn
  BY MaxThreadsAssumption DEF NoConn, Conn
<1>2. ASSUME NEW k, NEW reply, Serving(k), reply \in Seq(Nat), NextMessage(reply)
      PROVE  conn' \in Conn
  <2>1. conn \in Conn /\ conn.tid < conn.size
    BY <1>2 DEF TypeOK, Serving
  <2>2. conn.tid + 1 \in 0 .. MaxThreads /\ conn.handed \o reply \in Seq(Nat)
    BY <1>2, <2>1, MaxThreadsAssumption DEF Conn
  <2> QED
    BY <1>2, <2>1, <2>2 DEF NextMessage, Conn
<1>3. GiveUp => conn' \in Conn
  BY <1>1 DEF GiveUp
<1>4. 0 \in 0 .. NumTasks
  BY NumTasksAssumption
<1>5. ProcessEnds => up' \in BOOLEAN /\ conn' \in Conn
                     /\ lu' \in 0 .. NumTasks /\ li' \in 0 .. NumTasks
  BY <1>1, <1>4 DEF ProcessEnds
<1> QED
  BY <1>2, <1>3, <1>5

\* get_assignment and get_missed_assignment keep the types of the table.
LEMMA GetType ==
  ASSUME TypeOK, GetAssignment \/ \E n \in Task : GetMissedAssignment(n)
  PROVE  assigned' \subseteq Task /\ lu' \in 0 .. NumTasks
<1>1. PICK n \in Task : assigned' = assigned \cup {n} /\ lu' \in {lu, Scan(assigned', lu)}
  BY DEF GetAssignment, GetMissedAssignment
<1>2. assigned' \subseteq Task /\ lu \in 0 .. NumTasks
  BY <1>1 DEF TypeOK
<1> QED
  BY <1>1, <1>2, ScanSpec

\* So does unset_assignment.
LEMMA UnsetType ==
  ASSUME TypeOK, NEW n \in Task, UnsetAssignment(n)
  PROVE  assigned' \subseteq Task /\ lu' \in 0 .. NumTasks
  BY NumTasksAssumption DEF TypeOK, UnsetAssignment, Task

\* A result may be stored in part and still be a record.
LEMMA StoredType ==
  ASSUME NEW old \in Record, NEW r \in Result, NEW s
  PROVE  Stored(old, r, s) \in Record
<1>1. r \in Record
  BY ResultAssumption
<1> QED
  BY <1>1 DEF Stored, Record

\* What a start leaves behind, whatever its options.
LEMMA StartFacts ==
  ASSUME TypeOK, NEW opts, NEW listed, NEW sb, Start(opts, listed, sb)
  PROVE  /\ ~up /\ up' /\ up' \in BOOLEAN
         /\ complete' \subseteq complete
         /\ assigned' \subseteq assigned \cup complete'
         /\ (complete \ complete') \cap assigned' = {}
         /\ clientid' \in [Task -> ClientId \cup {NoId}]
         /\ \A n \in Task : clientid'[n] \in {clientid[n], NoId}
         /\ lu' = Scan(assigned', 0) /\ lu' \in 0 .. NumTasks
         /\ li' = Scan(complete', 0) /\ li' \in 0 .. NumTasks
         /\ record' = record /\ conn' = conn
<1> DEFINE reset == Given("m" \in opts, listed) \cup Given("i" \in opts, Overflown)
                      \cup Given("z" \in opts, Outdated)
           complete1 == complete \ reset
           assigned1 == (assigned \ reset) \cup Given("f" \in opts, complete1)
           lost == Given("f" \in opts, LostHolder(complete1, assigned1))
           reset2 == Given("r" \in opts, Unrecorded(sb))
           complete2 == complete1 \ reset2
           assigned2 == assigned1 \ reset2
           lu2 == Scan(assigned2, 0)
           li2 == Scan(complete2, 0)
           cleared == Given("c" \in opts, (li2 .. lu2 - 1) \ complete2)
<1>1. /\ ~up /\ up' = TRUE
      /\ complete' = complete2
      /\ assigned' = assigned2 \ cleared
      /\ clientid' = [n \in Task |-> IF n \in lost THEN NoId ELSE clientid[n]]
      /\ lu' = IF "c" \in opts THEN ClearedPointer(li2, lu2) ELSE lu2
      /\ li' = li2
      /\ record' = record /\ conn' = conn
  BY DEF Start
<1>2. complete1 \subseteq complete /\ Given("f" \in opts, complete1) \subseteq complete1
  BY DEF Given
<1>3. /\ complete2 \subseteq complete /\ assigned2 \subseteq assigned \cup complete2
      /\ (complete \ complete2) \cap assigned2 = {}
  <2> HIDE DEF reset, reset2
  <2>1. assigned1 \subseteq assigned \cup complete1 /\ (complete \ complete1) \cap assigned1 = {}
    BY <1>2
  <2> HIDE DEF complete1, assigned1
  <2> QED
    BY <1>2, <2>1
<1>4. complete2 \in SUBSET Task /\ assigned2 \in SUBSET Task
  <2> HIDE DEF complete2, assigned2
  <2> QED
    BY <1>3 DEF TypeOK
<1>5. lu2 \in 0 .. NumTasks /\ li2 \in 0 .. NumTasks
  <2> HIDE DEF complete2, assigned2
  <2>1. 0 \in 0 .. NumTasks
    BY NumTasksAssumption
  <2> QED
    BY <1>4, <2>1, ScanSpec
<1> HIDE DEF complete2, assigned2
<1>6. lu' = Scan(assigned', 0) /\ lu' \in 0 .. NumTasks
  <2>1. CASE "c" \in opts
    <3>1. Scan(assigned2 \ ((li2 .. lu2 - 1) \ complete2), 0) = ClearedPointer(li2, lu2)
      BY <1>4, <1>5, ScanCleared
    <3>2. ClearedPointer(li2, lu2) \in 0 .. NumTasks
      BY <1>5 DEF ClearedPointer
    <3> QED
      BY <1>1, <2>1, <3>1, <3>2 DEF Given
  <2>2. CASE "c" \notin opts
    BY <1>1, <1>5, <2>2 DEF Given
  <2> QED
    BY <2>1, <2>2
<1>7. assigned' \subseteq assigned2
  BY <1>1
<1>8. /\ clientid' \in [Task -> ClientId \cup {NoId}]
      /\ \A n \in Task : clientid'[n] \in {clientid[n], NoId}
  <2> HIDE DEF lost
  <2> QED
    BY <1>1 DEF TypeOK
<1> QED
  BY <1>1, <1>3, <1>5, <1>6, <1>7, <1>8

\* Every step preserves the types.
LEMMA TypeStep ==
  ASSUME TypeOK, [Next]_vars
  PROVE  TypeOK'
<1> USE DEF TypeOK
<1>1. /\ 0 \in 0 .. NumTasks /\ <<>> \in Seq(Nat)
      /\ \A n \in 0 .. NumTasks : <<n>> \in Seq(Nat)
  BY NumTasksAssumption
<1>2. \A n \in Task, c \in ClientId :
        SetClientId(n, c) \/ SetClientId(n, NoId)
          => clientid' \in [Task -> ClientId \cup {NoId}]
  BY DEF SetClientId
<1>3. ASSUME NEW c \in ClientId, RequestServed(c) \/ BatchRequestServed(c)
      PROVE  TypeOK'
  <2>1. GetAssignment /\ SetClientId(lu, c) /\ lu \in Task
    BY <1>3 DEF RequestServed, BatchRequestServed, GetAssignment
  <2>2. conn' \in Conn
    BY <1>1, <1>3, ConnType DEF RequestServed, BatchRequestServed
  <2> QED
    BY <1>2, <1>3, <2>1, <2>2, GetType DEF RequestServed, BatchRequestServed
<1>4. ASSUME RequestWriteFails
      PROVE  TypeOK'
  BY <1>4, ConnType, GetType DEF RequestWriteFails
<1>5. ASSUME RequestReadFails
      PROVE  TypeOK'
  <2>1. assigned' \subseteq Task /\ assigned \cup {lu} \in SUBSET Task
    BY <1>5 DEF RequestReadFails
  <2>2. lu' \in 0 .. NumTasks
    BY <1>5, <2>1, ScanSpec DEF RequestReadFails
  <2> QED
    BY <1>5, <2>1, <2>2, ConnType DEF RequestReadFails
<1>6. ASSUME NEW n \in Task, MissedFails(n)
      PROVE  TypeOK'
  BY <1>6, ConnType, GetType DEF MissedFails
<1>7. ASSUME NEW n \in Task, NEW c \in ClientId, MissedServed(n, c)
      PROVE  TypeOK'
  <2>1. GetMissedAssignment(n) /\ SetClientId(n, c)
    BY <1>7 DEF MissedServed
  <2>2. Serving("req") /\ NextMessage(<<n>>) /\ <<n>> \in Seq(Nat)
    BY <1>7 DEF MissedServed, Task
  <2>3. conn' \in Conn
    BY <2>2, ConnType
  <2> QED
    BY <1>2, <1>7, <2>1, <2>3, GetType DEF MissedServed
<1>8. ASSUME NEW n \in Task, NEW c \in ClientId,
             \/ ReturnForeign(n, c) \/ InterruptForeign(n, c)
             \/ \E r \in Result : ReturnUnassigned(n, c, r) \/ ReturnZero(n, c, r)
      PROVE  TypeOK'
  <2>1. conn' \in Conn
    BY <1>1, <1>8, ConnType DEF ReturnForeign, InterruptForeign, ReturnUnassigned, ReturnZero
  <2>2. UNCHANGED <<up, files, lu, li>>
    BY <1>8 DEF ReturnForeign, InterruptForeign, ReturnUnassigned, ReturnZero
  <2> QED
    BY <2>1, <2>2 DEF files
<1>9. ASSUME NEW n \in Task, NEW c \in ClientId, NEW r \in Result,
             ReturnSuspicious(n, c, r)
      PROVE  TypeOK'
  <2>1. conn' \in Conn
    BY <1>1, <1>9, ConnType DEF ReturnSuspicious
  <2> QED
    BY <1>9, <2>1, UnsetType DEF ReturnSuspicious
<1>10. ASSUME NEW n \in Task, NEW c \in ClientId, NEW r \in Result,
              ReturnAccepted(n, c, r)
       PROVE  TypeOK'
  <2>1. conn' \in Conn
    BY <1>1, <1>10, ConnType DEF ReturnAccepted, AcceptableReturn
  <2>2. complete' \in SUBSET Task
    BY <1>10 DEF ReturnAccepted, SetComplete
  <2>3. li' \in 0 .. NumTasks
    BY <1>10, <2>2, ScanSpec DEF ReturnAccepted, SetComplete
  <2>4. record' \in [Task -> Record]
    BY <1>10, StoredType DEF ReturnAccepted
  <2> QED
    BY <1>2, <1>10, <2>1, <2>2, <2>3, <2>4 DEF ReturnAccepted
<1>11. ASSUME NEW n \in Task, NEW c \in ClientId, InterruptAccepted(n, c)
       PROVE  TypeOK'
  <2>1. conn' \in Conn
    BY <1>1, <1>11, ConnType DEF InterruptAccepted
  <2> QED
    BY <1>2, <1>11, <2>1, UnsetType DEF InterruptAccepted
<1>12. ASSUME Loop
       PROVE  TypeOK'
  <2>1. UNCHANGED <<up, files, lu, li>>
    BY <1>12 DEF Loop, Accept, QueryServed, Abort, Close
  <2>2. ASSUME NEW k \in GrantKind \cup ReportKind \cup QueryKind,
               NEW s \in 1 .. MaxThreads, Accept(k, s)
        PROVE  conn' \in Conn
    BY <2>2, MaxThreadsAssumption DEF Accept, Conn
  <2>3. 1 \in 1 .. MaxThreads
    BY MaxThreadsAssumption
  <2>4. QueryServed => conn' \in Conn
    BY <1>1, ConnType DEF QueryServed
  <2>5. Abort \/ Close => conn' \in Conn
    BY ConnType DEF Abort, Close
  <2>6. conn' \in Conn
    BY <1>12, <2>2, <2>3, <2>4, <2>5 DEF Loop
  <2> QED
    BY <2>1, <2>6 DEF files
<1>13. ASSUME Die
       PROVE  TypeOK'
  BY <1>13, ConnType DEF Die, files
<1>14. ASSUME NEW n \in Task, NEW c \in ClientId, DieInInterrupt(n, c)
       PROVE  TypeOK'
  BY <1>14, ConnType DEF DieInInterrupt
<1>15. ASSUME NEW n \in Task, NEW c \in ClientId, NEW r \in Result,
              NEW s \in 0 .. 4, DieInReturn(n, c, r, s)
       PROVE  TypeOK'
  <2>1. record' \in [Task -> Record]
    BY <1>15, StoredType DEF DieInReturn
  <2> QED
    BY <1>15, <2>1, ConnType DEF DieInReturn
<1>16. ASSUME DieInRequest \/ \E n \in Task : DieInMissed(n)
       PROVE  TypeOK'
  BY <1>16, ConnType DEF DieInRequest, DieInMissed
<1>17. ASSUME Restart
       PROVE  TypeOK'
  <2>1. PICK opts, listed, sb : Start(opts, listed, sb)
    BY <1>17 DEF Restart
  <2> QED
    BY <2>1, StartFacts
<1>18. ASSUME UNCHANGED vars
       PROVE  TypeOK'
  BY <1>18 DEF vars, files
<1> HIDE DEF TypeOK
<1> QED
  BY <1>3, <1>4, <1>5, <1>6, <1>7, <1>8, <1>9, <1>10, <1>11, <1>12, <1>13, <1>14,
     <1>15, <1>16, <1>17, <1>18
  DEF Next, Grant, Report, ReportUnrecorded, Death, DeathElsewhere

\* The files of a new project have the types.
LEMMA InitType ==
  ASSUME Init
  PROVE  TypeOK
<1>1. NoRecord \in Record
  BY DEF NoRecord, Record
<1>2. NoConn \in Conn
  BY MaxThreadsAssumption DEF NoConn, Conn
<1>3. 0 \in 0 .. NumTasks
  BY NumTasksAssumption
<1> QED
  BY <1>1, <1>2, <1>3 DEF Init, TypeOK

\* The tables, the pointers and the connection always have their types: no
\* sequence of messages, failures, kills and restarts drives a pointer out
\* of the table or a batch past its size.
THEOREM TypeCorrect == Spec => []TypeOK
<1>1. Init => TypeOK
  BY InitType
<1>2. TypeOK /\ [Next]_vars => TypeOK'
  BY TypeStep
<1> QED
  BY <1>1, <1>2, PTL DEF Spec

-----------------------------------------------------------------------------
(* The pointers. *)

\* A handler that sets a bit of the bitmap leaves lu where a scan stops.
LEMMA GetExact ==
  ASSUME TypeOK, PointersExact, up,
         GetAssignment \/ \E n \in Task : GetMissedAssignment(n)
  PROVE  lu' = Scan(assigned', 0)
<1>1. PICK n \in Task : /\ assigned' = assigned \cup {n}
                        /\ lu' = IF n = lu THEN Scan(assigned', lu) ELSE lu
  BY DEF GetAssignment, GetMissedAssignment
<1>2. Scan(assigned', 0) = IF n = lu THEN Scan(assigned', lu) ELSE lu
  BY <1>1, ScanOn DEF TypeOK, PointersExact
<1> QED
  BY <1>1, <1>2

\* A handler that clears a bit does, too.
LEMMA UnsetExact ==
  ASSUME TypeOK, PointersExact, up, NEW n \in Task, UnsetAssignment(n)
  PROVE  lu' = Scan(assigned', 0)
  BY ScanBack DEF TypeOK, PointersExact, UnsetAssignment

\* set_complete leaves li where a scan stops.
LEMMA SetCompleteExact ==
  ASSUME TypeOK, PointersExact, up, NEW n \in Task, SetComplete(n)
  PROVE  li' = Scan(complete', 0)
<1>1. Scan(complete', 0) = IF n = li THEN Scan(complete', li) ELSE li
  BY ScanOn DEF TypeOK, PointersExact, SetComplete
<1> QED
  BY <1>1 DEF SetComplete

\* Every step preserves the exactness of the pointers.
LEMMA PointersStep ==
  ASSUME TypeOK, PointersExact, [Next]_vars
  PROVE  PointersExact'
<1>1. ASSUME NEW c, \/ RequestServed(c) \/ BatchRequestServed(c) \/ RequestWriteFails
                    \/ \E n \in Task : MissedServed(n, c) \/ MissedFails(n)
      PROVE  PointersExact'
  <2>1. /\ up /\ UNCHANGED <<complete, li>>
        /\ GetAssignment \/ \E n \in Task : GetMissedAssignment(n)
    BY <1>1 DEF RequestServed, BatchRequestServed, RequestWriteFails,
                MissedServed, MissedFails, Serving
  <2> QED
    BY <2>1, GetExact DEF PointersExact
<1>2. ASSUME RequestReadFails
      PROVE  PointersExact'
  <2>1. /\ up /\ lu \in Task /\ UNCHANGED <<complete, li>>
        /\ assigned' = (assigned \cup {lu}) \ {lu}
        /\ lu' = IF Scan(assigned \cup {lu}, lu) > lu THEN lu ELSE Scan(assigned \cup {lu}, lu)
    BY <1>2 DEF RequestReadFails, Serving
  <2>2. /\ assigned \in SUBSET Task /\ assigned \cup {lu} \in SUBSET Task
        /\ lu \in 0 .. NumTasks /\ 0 \in 0 .. NumTasks
    BY <2>1, NumTasksAssumption DEF TypeOK
  <2>3. lu \notin assigned
    BY <2>1, <2>2, ScanSpec DEF IsFirstFree, PointersExact
  <2>4. /\ Scan(assigned \cup {lu}, lu) \in lu .. NumTasks
        /\ Scan(assigned \cup {lu}, lu) \notin assigned \cup {lu}
    BY <2>2, ScanSpec DEF IsFirstFree
  <2>5. assigned' = assigned /\ lu' = lu
    BY <2>1, <2>2, <2>3, <2>4
  <2> QED
    BY <2>1, <2>5 DEF PointersExact
<1>3. ASSUME NEW n \in Task, NEW c, NEW r,
             \/ ReturnForeign(n, c) \/ InterruptForeign(n, c)
             \/ ReturnUnassigned(n, c, r) \/ ReturnZero(n, c, r)
      PROVE  PointersExact'
  BY <1>3 DEF PointersExact, files,
              ReturnForeign, InterruptForeign, ReturnUnassigned, ReturnZero
<1>4. ASSUME NEW n \in Task, NEW c, NEW r,
             ReturnSuspicious(n, c, r) \/ InterruptAccepted(n, c)
      PROVE  PointersExact'
  <2>1. up /\ UnsetAssignment(n) /\ UNCHANGED <<up, complete, li>>
    BY <1>4 DEF ReturnSuspicious, InterruptAccepted, Serving
  <2> QED
    BY <2>1, UnsetExact DEF PointersExact
<1>5. ASSUME NEW n \in Task, NEW c, NEW r, ReturnAccepted(n, c, r)
      PROVE  PointersExact'
  <2>1. up /\ SetComplete(n) /\ UNCHANGED <<up, assigned, lu>>
    BY <1>5 DEF ReturnAccepted, AcceptableReturn, Serving
  <2> QED
    BY <2>1, SetCompleteExact DEF PointersExact
<1>6. ASSUME Loop
      PROVE  PointersExact'
  <2>1. UNCHANGED <<up, files, lu, li>>
    BY <1>6 DEF Loop, Accept, QueryServed, Abort, Close
  <2> QED
    BY <2>1 DEF PointersExact, files
<1>7. ASSUME Death
      PROVE  PointersExact'
  <2>1. up' = FALSE
    BY <1>7 DEF Death, DeathElsewhere, Die, DieInInterrupt, DieInReturn, DieInRequest, DieInMissed, ProcessEnds
  <2> QED
    BY <2>1 DEF PointersExact
<1>8. ASSUME Restart
      PROVE  PointersExact'
  <2>1. PICK opts, listed, sb : Start(opts, listed, sb)
    BY <1>8 DEF Restart
  <2> QED
    BY <2>1, StartFacts DEF PointersExact
<1>9. ASSUME UNCHANGED vars
      PROVE  PointersExact'
  BY <1>9 DEF PointersExact, vars, files
<1> QED
  BY <1>1, <1>2, <1>3, <1>4, <1>5, <1>6, <1>7, <1>8, <1>9
  DEF Next, Grant, Report, ReportUnrecorded

\* The two cached pointers are exact whenever the server runs, although no
\* handler looks at the whole bitmap: "all numbers below li are convergent"
\* claims no task that is not complete, and REQ never skips a free task.
THEOREM PointersCorrect == Spec => []PointersExact
<1>1. Init => PointersExact
  BY DEF Init, PointersExact
<1>2. TypeOK /\ PointersExact /\ [Next]_vars => PointersExact'
  BY PointersStep
<1> QED
  BY <1>1, <1>2, TypeCorrect, PTL DEF Spec

\* While the process runs nothing takes back a completed task or the
\* published frontier: the handlers only add to the complete tasks.
THEOREM FrontierCorrect == Spec => FrontierNeverRetreats
<1> DEFINE Kept == complete \subseteq complete' /\ li <= li'
<1>1. ASSUME TypeOK, Next, up, up'
      PROVE  Kept
  <2>1. ASSUME UNCHANGED <<complete, li>>
        PROVE  Kept
    BY <1>1, <2>1 DEF TypeOK
  <2>2. ASSUME NEW n \in Task, NEW c, NEW r, ReturnAccepted(n, c, r)
        PROVE  Kept
    <3>1. complete' \in SUBSET Task /\ complete \subseteq complete'
      BY <1>1, <2>2 DEF TypeOK, ReturnAccepted, SetComplete
    <3>2. li' \in {li, Scan(complete', li)}
      BY <2>2 DEF ReturnAccepted, SetComplete
    <3>3. Scan(complete', li) \in li .. NumTasks /\ li \in 0 .. NumTasks
      BY <1>1, <3>1, ScanSpec DEF TypeOK
    <3> QED
      BY <3>1, <3>2, <3>3
  <2>3. ASSUME Death \/ Restart
        PROVE  FALSE
    BY <1>1, <2>3 DEF Death, DeathElsewhere, Die, DieInInterrupt, DieInReturn, DieInRequest, DieInMissed,
                      ProcessEnds, Restart, Start
  <2>4. ASSUME Grant
        PROVE  Kept
    BY <2>1, <2>4 DEF Grant, RequestServed, BatchRequestServed, RequestWriteFails,
                      RequestReadFails, MissedServed, MissedFails
  <2>5. ASSUME Loop
        PROVE  Kept
    BY <2>1, <2>5 DEF Loop, Accept, QueryServed, Abort, Close, files
  <2>6. ASSUME Report
        PROVE  Kept
    BY <2>1, <2>2, <2>6 DEF Report, ReportUnrecorded, ReturnForeign, InterruptForeign, InterruptAccepted,
                            ReturnZero, ReturnSuspicious, ReturnUnassigned, files
  <2> QED
    BY <1>1, <2>3, <2>4, <2>5, <2>6 DEF Next
<1>2. TypeOK /\ [Next]_vars => [up /\ up' => complete \subseteq complete' /\ li <= li']_vars
  BY <1>1
<1> QED
  BY <1>2, TypeCorrect, PTL DEF Spec, FrontierNeverRetreats

-----------------------------------------------------------------------------
(* Batches of `req'. *)

\* The incomplete tasks that get_missed_assignment passes on the way to n.
Passed(n) == (li .. n - 1) \ complete

\* There are finitely many, and no fewer on a longer way.
LEMMA PassedCount ==
  ASSUME TypeOK, NEW n \in Int
  PROVE  IsFiniteSet(Passed(n)) /\ Cardinality(Passed(n)) \in Nat
<1>1. IsFiniteSet(li .. n - 1)
  BY FS_Interval DEF TypeOK
<1> QED
  BY <1>1, FS_Subset, FS_CardinalityType DEF Passed

\* Two threads get tasks in the order of their numbers.
LEMMA MissedInOrder ==
  ASSUME TypeOK, NEW n \in Int, NEW m \in Int, NEW t \in Int, NEW u \in Int,
         IsMissed(n, t), IsMissed(m, u), n < m
  PROVE  t < u /\ t \in Nat /\ u \in Nat
<1>1. /\ IsFiniteSet(Passed(n)) /\ t = Cardinality(Passed(n)) /\ t \in Nat
      /\ IsFiniteSet(Passed(m)) /\ u = Cardinality(Passed(m)) /\ u \in Nat
  BY PassedCount DEF IsMissed, Passed
<1>2. n \notin Passed(n) /\ Passed(n) \cup {n} \subseteq Passed(m)
  BY DEF IsMissed, Passed, TypeOK
<1>3. Cardinality(Passed(n) \cup {n}) = t + 1
  BY <1>1, <1>2, FS_AddElement
<1>4. Cardinality(Passed(n) \cup {n}) <= u
  BY <1>1, <1>2, FS_Subset
<1> QED
  BY <1>1, <1>3, <1>4

\* The strengthening of MissedBatchIsLowest: the i-th task of the batch is
\* the one with i - 1 incomplete tasks between the frontier and itself.
BatchInv ==
  conn.kind = "req" =>
    /\ Len(conn.handed) = conn.tid
    /\ \A i \in 1 .. conn.tid : conn.handed[i] \in Task /\ IsMissed(conn.handed[i], i - 1)

\* No connection outlives the process.
IdleWhenDown == ~up => conn = NoConn

\* A server that goes down leaves no batch behind.
LEMMA IdleStep ==
  ASSUME IdleWhenDown, [Next]_vars
  PROVE  IdleWhenDown'
<1>1. ASSUME up, up' = up
      PROVE  IdleWhenDown'
  BY <1>1 DEF IdleWhenDown
<1>2. ASSUME Grant
      PROVE  up /\ up' = up
  BY <1>2 DEF Grant, RequestServed, BatchRequestServed, RequestWriteFails, RequestReadFails,
              MissedServed, MissedFails, Serving
<1>3. ASSUME Report
      PROVE  up /\ up' = up
  BY <1>3 DEF Report, ReportUnrecorded, ReturnForeign, ReturnZero, ReturnSuspicious, ReturnUnassigned,
              ReturnAccepted, AcceptableReturn, InterruptForeign, InterruptAccepted, Serving
<1>4. ASSUME Loop
      PROVE  up /\ up' = up
  BY <1>4 DEF Loop, Accept, QueryServed, Abort, Close, Serving
<1>5. ASSUME Death
      PROVE  IdleWhenDown'
  <2>1. conn' = NoConn
    BY <1>5 DEF Death, DeathElsewhere, Die, DieInInterrupt, DieInReturn, DieInRequest, DieInMissed, ProcessEnds
  <2> QED
    BY <2>1 DEF IdleWhenDown
<1>6. ASSUME Restart
      PROVE  IdleWhenDown'
  <2>1. up'
    BY <1>6 DEF Restart, Start
  <2> QED
    BY <2>1 DEF IdleWhenDown
<1>7. ASSUME UNCHANGED vars
      PROVE  IdleWhenDown'
  BY <1>7 DEF vars, files, IdleWhenDown
<1> QED
  BY <1>1, <1>2, <1>3, <1>4, <1>5, <1>6, <1>7 DEF Next

\* Every step keeps the count of what the batch has been given.
LEMMA BatchStep ==
  ASSUME TypeOK, IdleWhenDown, BatchInv, [Next]_vars
  PROVE  BatchInv'
<1>1. ASSUME NEW n \in Task, NEW c \in ClientId, MissedServed(n, c)
      PROVE  BatchInv'
  <2>1. /\ conn.kind = "req" /\ UNCHANGED <<complete, li>> /\ IsMissed(n, conn.tid)
        /\ conn' = [conn EXCEPT !.tid = conn.tid + 1, !.handed = conn.handed \o <<n>>]
    BY <1>1 DEF MissedServed, Serving, NextMessage, GetMissedAssignment
  <2> DEFINE h == conn.handed
  <2>2. /\ conn \in Conn /\ h \in Seq(Nat) /\ conn.tid \in Nat /\ n \in Nat
        /\ Len(h) = conn.tid
        /\ \A i \in 1 .. conn.tid : h[i] \in Task /\ IsMissed(h[i], i - 1)
    BY <2>1 DEF TypeOK, Conn, BatchInv, Task
  <2>3. conn'.tid = conn.tid + 1 /\ conn'.handed = h \o <<n>>
    BY <2>1, <2>2 DEF Conn
  <2>4. Len(h \o <<n>>) = conn.tid + 1
    BY <2>2, OneMore
  <2>5. ASSUME NEW i \in 1 .. conn.tid + 1
        PROVE  (h \o <<n>>)[i] \in Task /\ IsMissed((h \o <<n>>)[i], i - 1)
    <3>1. CASE i = conn.tid + 1
      <4>1. (h \o <<n>>)[Len(h) + 1] = n
        BY <2>2, OneMore
      <4>2. i = Len(h) + 1 /\ i - 1 = conn.tid
        BY <2>2, <3>1
      <4> QED
        BY <2>1, <4>1, <4>2
    <3>2. CASE i \in 1 .. conn.tid
      <4>1. (h \o <<n>>)[i] = h[i]
        BY <2>2, <3>2, OneMore
      <4> QED
        BY <2>2, <3>2, <4>1
    <3> QED
      BY <2>2, <3>1, <3>2
  <2>6. \A k, t : IsMissed(k, t)' <=> IsMissed(k, t)
    BY <2>1 DEF IsMissed
  <2> HIDE DEF h
  <2> QED
    BY <2>3, <2>4, <2>5, <2>6 DEF BatchInv
<1>2. ASSUME NEW k, Serving(k), k # "req", NEW reply, NextMessage(reply)
      PROVE  BatchInv'
  <2>1. conn'.kind = k
    BY <1>2 DEF NextMessage, Serving, TypeOK, Conn
  <2> QED
    BY <1>2, <2>1 DEF BatchInv
<1>3. ASSUME GiveUp
      PROVE  BatchInv'
  BY <1>3 DEF GiveUp, NoConn, BatchInv
<1>4. ASSUME NEW k, NEW s, Accept(k, s)
      PROVE  BatchInv'
  BY <1>4 DEF Accept, BatchInv
<1>5. ASSUME UNCHANGED <<complete, li, conn>>
      PROVE  BatchInv'
  BY <1>5 DEF BatchInv, IsMissed
<1>6. ASSUME Grant
      PROVE  BatchInv'
  BY <1>1, <1>2, <1>3, <1>6
  DEF Grant, RequestServed, BatchRequestServed, RequestWriteFails, RequestReadFails, MissedFails
<1>7. ASSUME Report
      PROVE  BatchInv'
  BY <1>2, <1>3, <1>7
  DEF Report, ReportUnrecorded, ReturnForeign, ReturnZero, ReturnSuspicious, ReturnUnassigned, ReturnAccepted,
      AcceptableReturn, InterruptForeign, InterruptAccepted
<1>8. ASSUME Loop
      PROVE  BatchInv'
  BY <1>2, <1>3, <1>4, <1>8 DEF Loop, QueryServed, Abort, Close
<1>9. ASSUME Death
      PROVE  BatchInv'
  BY <1>9 DEF Death, DeathElsewhere, Die, DieInInterrupt, DieInReturn, DieInRequest, DieInMissed, ProcessEnds,
              NoConn, BatchInv
<1>10. ASSUME Restart
       PROVE  BatchInv'
  <2>1. conn' = NoConn
    BY <1>10 DEF Restart, Start, IdleWhenDown
  <2> QED
    BY <2>1 DEF NoConn, BatchInv
<1>11. ASSUME UNCHANGED vars
       PROVE  BatchInv'
  BY <1>5, <1>11 DEF vars, files
<1> QED
  BY <1>6, <1>7, <1>8, <1>9, <1>10, <1>11 DEF Next

\* What the strengthening is for: the tasks of a batch are the lowest
\* incomplete ones, without a gap and each for one thread.
LEMMA BatchLowest ==
  ASSUME TypeOK, PointersExact, IdleWhenDown, BatchInv
  PROVE  MissedBatchIsLowest
<1> DEFINE h == conn.handed
<1>1. SUFFICES ASSUME conn.kind = "req"
               PROVE  /\ \A i, j \in 1 .. Len(h) : i < j => h[i] < h[j]
                      /\ \A i \in 1 .. Len(h) : \A m \in 0 .. h[i] :
                           m \in complete <=> \A j \in 1 .. i : h[j] # m
  BY DEF MissedBatchIsLowest
<1>2. /\ up /\ Len(h) \in Nat
      /\ \A i \in 1 .. Len(h) : h[i] \in Task /\ h[i] \in Int /\ IsMissed(h[i], i - 1)
  BY <1>1 DEF BatchInv, IdleWhenDown, NoConn, TypeOK, Conn, Task
<1>3. li \in 0 .. NumTasks /\ \A m \in 0 .. li - 1 : m \in complete
  <2>1. complete \in SUBSET Task /\ 0 \in 0 .. NumTasks
    BY NumTasksAssumption DEF TypeOK
  <2> QED
    BY <1>2, <2>1, ScanSpec DEF IsFirstFree, PointersExact
<1> HIDE DEF h
<1>4. ASSUME NEW i \in 1 .. Len(h), NEW j \in 1 .. Len(h), i < j
      PROVE  h[i] < h[j]
  <2>1. ~ (h[j] < h[i])
    <3>1. SUFFICES ASSUME h[j] < h[i] PROVE FALSE
      OBVIOUS
    <3>2. /\ h[i] \in Int /\ IsMissed(h[i], i - 1)
          /\ h[j] \in Int /\ IsMissed(h[j], j - 1)
          /\ i - 1 \in Int /\ j - 1 \in Int
      BY <1>2
    <3>3. j - 1 < i - 1
      BY <3>1, <3>2, MissedInOrder
    <3> QED
      BY <1>2, <1>4, <3>3
  <2>2. h[i] # h[j]
    <3>1. IsMissed(h[i], i - 1) /\ IsMissed(h[j], j - 1)
      BY <1>2
    <3>2. h[i] = h[j] => i - 1 = j - 1
      BY <3>1 DEF IsMissed
    <3> QED
      BY <1>2, <1>4, <3>2
  <2> QED
    BY <1>2, <2>1, <2>2
<1>5. ASSUME NEW i \in 1 .. Len(h), NEW m \in 0 .. h[i], m \notin complete
      PROVE  \E j \in 1 .. i : h[j] = m
  <2> DEFINE t == Cardinality(Passed(m))
  <2>1. m \in Int /\ m >= li /\ t \in Nat
    BY <1>2, <1>3, <1>5, PassedCount
  <2>2. IsMissed(m, t)
    BY <1>5, <2>1 DEF IsMissed, Passed
  <2> HIDE DEF t
  <2>3. CASE m = h[i]
    BY <1>2, <2>3
  <2>4. CASE m < h[i]
    <3>1. t < i - 1
      BY <1>2, <2>1, <2>2, <2>4, MissedInOrder
    <3>2. t + 1 \in 1 .. i /\ t + 1 \in 1 .. Len(h) /\ (t + 1) - 1 = t
      BY <1>2, <2>1, <3>1
    <3>3. h[t + 1] \in Int /\ IsMissed(h[t + 1], t)
      BY <1>2, <3>2
    <3>4. ~ (h[t + 1] < m) /\ ~ (m < h[t + 1])
      <4>1. t \in Int /\ ~ (t < t)
        BY <2>1
      <4> QED
        BY <2>1, <2>2, <3>3, <4>1, MissedInOrder
    <3>5. h[t + 1] = m
      BY <2>1, <3>3, <3>4
    <3> QED
      BY <3>2, <3>5
  <2> QED
    BY <1>2, <2>1, <2>3, <2>4
<1>6. ASSUME NEW i \in 1 .. Len(h), NEW m \in 0 .. h[i], m \in complete, NEW j \in 1 .. i
      PROVE  h[j] # m
  <2>1. j \in 1 .. Len(h)
    BY <1>2
  <2> QED
    BY <1>2, <1>6, <2>1 DEF IsMissed
<1> QED
  BY <1>4, <1>5, <1>6

\* A multi-threaded req batch never gives two threads the same task and
\* leaves out no incomplete task, however many complete ones lie between.
THEOREM BatchCorrect == Spec => []MissedBatchIsLowest
<1>1. Init => IdleWhenDown /\ BatchInv
  BY DEF Init, IdleWhenDown, BatchInv, NoConn
<1>2. TypeOK /\ IdleWhenDown /\ BatchInv /\ [Next]_vars => IdleWhenDown' /\ BatchInv'
  BY BatchStep, IdleStep
<1>3. TypeOK /\ PointersExact /\ IdleWhenDown /\ BatchInv => MissedBatchIsLowest
  BY BatchLowest
<1> QED
  BY <1>1, <1>2, <1>3, TypeCorrect, PointersCorrect, PTL DEF Spec

-----------------------------------------------------------------------------
(* The server implements the table of tasks. *)

\* A message that is served carries the number of a thread of its batch.
LEMMA ThreadServed ==
  ASSUME TypeOK, NEW k, Serving(k)
  PROVE  conn.tid \in 0 .. MaxThreads - 1
  BY MaxThreadsAssumption DEF TypeOK, Serving, Conn

\* The reports of the history are messages of the table.
LEMMA Reports ==
  ASSUME NEW n \in Task, NEW c \in ClientId, NEW r \in Result
  PROVE  /\ Return(n, c, r) \in Table!Message
         /\ Interrupt(n, c) \in Table!Message
<1>1. Verdict(r) \in {"good", "bad", "none"}
  BY DEF Verdict
<1> QED
  BY <1>1 DEF Table!Message, Return, Interrupt

\* What REQ and MRQ hand out is due to them: the cached pointer is the lowest
\* free task.
LEMMA TakeIsDue ==
  ASSUME TypeOK, PointersExact, up, lu \in Task, NEW m, m.kind = "take"
  PROVE  Table!Due(m, lu)
<1>1. lu \notin assigned /\ \A k \in 0 .. lu - 1 : k \in assigned
  <2>1. assigned \in SUBSET Task /\ 0 \in 0 .. NumTasks
    BY NumTasksAssumption DEF TypeOK
  <2> QED
    BY <2>1, ScanSpec DEF IsFirstFree, PointersExact
<1>2. \A k \in Task \ assigned : lu <= k
  BY <1>1 DEF Task
<1> QED
  BY <1>1, <1>2 DEF Table!Due

\* What req hands out is due to it: all tasks below the frontier are done.
LEMMA RetakeIsDue ==
  ASSUME TypeOK, PointersExact, up, NEW n \in Task, NEW m, m.kind = "retake",
         IsMissed(n, m.thread)
  PROVE  Table!Due(m, n)
<1>1. li \in 0 .. NumTasks /\ \A k \in 0 .. li - 1 : k \in complete
  <2>1. complete \in SUBSET Task /\ 0 \in 0 .. NumTasks
    BY NumTasksAssumption DEF TypeOK
  <2> QED
    BY <2>1, ScanSpec DEF IsFirstFree, PointersExact
<1>2. {k \in Task \ complete : k < n} = (li .. n - 1) \ complete
  BY <1>1, NumTasksAssumption DEF Task
<1>3. n \in Task \ complete /\ Cardinality({k \in Task \ complete : k < n}) = m.thread
  BY <1>2, Zenon DEF IsMissed
<1> QED
  BY <1>3, Zenon DEF Table!Due, Table!Cardinality, Cardinality

\* A request that is served, or fails at any point, is a grant of the table.
LEMMA GrantRefines ==
  ASSUME TypeOK, up, up', complete' = complete, NEW n \in Task,
         asked' \in Table!Message, Table!Due(asked', n),
         \/ asked'.heard /\ assigned' = assigned \cup {n} /\ SetClientId(n, asked'.id)
         \/ /\ ~asked'.heard
            /\ assigned' \in {assigned, assigned \cup {n}} /\ clientid' = clientid
  PROVE  Table!Next
<1>1. Table!Grant(asked')
  BY DEF Table!Grant, SetClientId
<1> QED
  BY <1>1 DEF Table!Next

\* A kill inside a request may leave the task taken.
LEMMA TakenRefines ==
  ASSUME TypeOK, up, ~up', complete' = complete, NEW n \in Task,
         asked' \in Table!Message, Table!Due(asked', n),
         assigned' = assigned \cup {n}, clientid' = clientid
  PROVE  Table!Next
<1>1. Table!Stop(asked')
  BY DEF Table!Stop
<1> QED
  BY <1>1 DEF Table!Next

\* A step that serves no message about the table leaves it alone.
LEMMA NothingRefines ==
  ASSUME up, up', asked' = Nothing, UNCHANGED <<assigned, complete, clientid>>
  PROVE  Table!Next
<1>1. Nothing \in Table!Message /\ Nothing.kind = "nothing"
  BY DEF Nothing, Table!Message
<1>2. Table!Ignore(asked')
  BY <1>1 DEF Table!Ignore, Table!Finishes, Table!GivesUp
<1> QED
  BY <1>1, <1>2 DEF Table!Next

\* What REQ, MRQ and req do to the table, served or failed or killed.
LEMMA HistoryGrantRefines ==
  ASSUME TypeOK, PointersExact, HistoryGrant
  PROVE  Table!Next
<1>1. ASSUME NEW c \in ClientId, RequestServed(c) \/ BatchRequestServed(c),
             asked' = Request("take", c)
      PROVE  Table!Next
  <2>1. /\ up /\ up' /\ lu \in Task /\ complete' = complete
        /\ assigned' = assigned \cup {lu} /\ SetClientId(lu, c)
        /\ conn.tid \in 0 .. MaxThreads - 1
    BY <1>1, ThreadServed
    DEF RequestServed, BatchRequestServed, GetAssignment, Serving
  <2>2. /\ asked' \in Table!Message /\ asked'.kind = "take"
        /\ asked'.heard /\ asked'.id = c
    BY <1>1, <2>1 DEF Table!Message, Request
  <2>3. Table!Due(asked', lu)
    BY <2>1, <2>2, TakeIsDue
  <2> QED
    BY <2>1, <2>2, <2>3, GrantRefines
<1>2. ASSUME RequestWriteFails \/ RequestReadFails, asked' = Unheard("take")
      PROVE  Table!Next
  <2>1. /\ up /\ up' /\ lu \in Task /\ complete' = complete /\ clientid' = clientid
        /\ assigned' \in {assigned \ {lu}, assigned \cup {lu}}
        /\ conn.tid \in 0 .. MaxThreads - 1
    <3>1. conn.tid \in 0 .. MaxThreads - 1
      BY <1>2, ThreadServed DEF RequestWriteFails, RequestReadFails
    <3> QED
      BY <1>2, <3>1 DEF RequestWriteFails, RequestReadFails, GetAssignment, Serving
  <2>2. asked' \in Table!Message /\ asked'.kind = "take" /\ ~asked'.heard
    BY <1>2, <2>1 DEF Table!Message, Unheard
  <2>3. Table!Due(asked', lu)
    BY <2>1, <2>2, TakeIsDue
  <2>4. assigned \ {lu} = assigned
    BY <2>2, <2>3 DEF Table!Due
  <2> QED
    BY <2>1, <2>2, <2>3, <2>4, GrantRefines
<1>3. ASSUME NEW n \in Task, NEW c \in ClientId, MissedServed(n, c),
             asked' = Request("retake", c)
      PROVE  Table!Next
  <2>1. /\ up /\ up' /\ complete' = complete /\ IsMissed(n, conn.tid)
        /\ assigned' = assigned \cup {n} /\ SetClientId(n, c)
        /\ conn.tid \in 0 .. MaxThreads - 1
    BY <1>3, ThreadServed DEF MissedServed, GetMissedAssignment, Serving
  <2>2. /\ asked' \in Table!Message /\ asked'.kind = "retake"
        /\ asked'.heard /\ asked'.id = c /\ asked'.thread = conn.tid
    BY <1>3, <2>1 DEF Table!Message, Request
  <2>3. Table!Due(asked', n)
    BY <2>1, <2>2, RetakeIsDue
  <2> QED
    BY <2>1, <2>2, <2>3, GrantRefines
<1>4. ASSUME NEW n \in Task, MissedFails(n), asked' = Unheard("retake")
      PROVE  Table!Next
  <2>1. /\ up /\ up' /\ complete' = complete /\ IsMissed(n, conn.tid)
        /\ assigned' = assigned \cup {n} /\ clientid' = clientid
        /\ conn.tid \in 0 .. MaxThreads - 1
    BY <1>4, ThreadServed DEF MissedFails, GetMissedAssignment, Serving
  <2>2. /\ asked' \in Table!Message /\ asked'.kind = "retake"
        /\ ~asked'.heard /\ asked'.thread = conn.tid
    BY <1>4, <2>1 DEF Table!Message, Unheard
  <2>3. Table!Due(asked', n)
    BY <2>1, <2>2, RetakeIsDue
  <2> QED
    BY <2>1, <2>2, <2>3, GrantRefines
<1> QED
  BY <1>1, <1>2, <1>3, <1>4 DEF HistoryGrant

\* What a result or a revocation does to the table.
LEMMA HistoryReportRefines ==
  ASSUME TypeOK, HistoryReport
  PROVE  Table!Next
<1>1. ASSUME NEW n \in Task, NEW c \in ClientId, asked' = Interrupt(n, c),
             InterruptForeign(n, c) \/ InterruptAccepted(n, c)
      PROVE  Table!Next
  <2>1. /\ asked' \in Table!Message /\ up /\ up' /\ complete' = complete
        /\ asked'.kind = "free" /\ asked'.task = n /\ asked'.id = c
    <3>1. Interrupt(n, c) \in Table!Message
      BY <1>1 DEF Table!Message, Interrupt
    <3> QED
      BY <1>1, <3>1 DEF Interrupt, InterruptForeign, InterruptAccepted, Serving, files
  <2>2. CASE InterruptForeign(n, c)
    <3>1. Table!Ignore(asked')
      BY <2>1, <2>2 DEF InterruptForeign, files, Table!Ignore, Table!Finishes,
                        Table!GivesUp, Table!FromHolder
    <3> QED
      BY <2>1, <3>1 DEF Table!Next
  <2>3. CASE InterruptAccepted(n, c)
    <3>1. Table!Free(asked')
      BY <2>1, <2>3 DEF InterruptAccepted, UnsetAssignment, SetClientId, Table!Free,
                        Table!GivesUp, Table!FromHolder
    <3> QED
      BY <2>1, <3>1 DEF Table!Next
  <2> QED
    BY <1>1, <2>2, <2>3
<1>2. ASSUME NEW n \in Task, NEW c \in ClientId, NEW r \in Result,
             asked' = Return(n, c, r),
             \/ ReturnForeign(n, c) \/ ReturnZero(n, c, r) \/ ReturnSuspicious(n, c, r)
             \/ ReturnUnassigned(n, c, r) \/ ReturnAccepted(n, c, r)
      PROVE  Table!Next
  <2>1. /\ asked' \in Table!Message /\ up /\ up'
        /\ asked'.kind = "finish" /\ asked'.task = n /\ asked'.id = c
        /\ asked'.result = Verdict(r)
    <3>1. Return(n, c, r) \in Table!Message
      BY <1>2, Reports
    <3>2. up /\ up'
      BY <1>2 DEF ReturnForeign, ReturnZero, ReturnSuspicious, ReturnUnassigned,
                  ReturnAccepted, AcceptableReturn, Serving
    <3> QED
      BY <1>2, <3>1, <3>2 DEF Return
  <2>2. /\ Verdict(r) = "good" <=> r.checksum \in KnownChecksum
        /\ Verdict(r) = "bad" <=> r.checksum \notin KnownChecksum \cup {0}
    BY KnownChecksumAssumption DEF Verdict
  <2>3. CASE ReturnForeign(n, c) \/ ReturnZero(n, c, r) \/ ReturnUnassigned(n, c, r)
    <3>1. UNCHANGED <<assigned, complete, clientid>>
      BY <2>3 DEF ReturnForeign, ReturnZero, ReturnUnassigned, files
    <3>2. ~Table!Finishes(asked') /\ ~Table!GivesUp(asked')
      BY <2>1, <2>2, <2>3, KnownChecksumAssumption
      DEF ReturnForeign, ReturnZero, ReturnUnassigned, Table!Finishes, Table!GivesUp,
          Table!FromHolder
    <3>3. Table!Ignore(asked')
      BY <2>1, <3>1, <3>2 DEF Table!Ignore
    <3> QED
      BY <2>1, <3>3 DEF Table!Next
  <2>4. CASE ReturnSuspicious(n, c, r)
    <3>1. Table!Free(asked')
      BY <2>1, <2>2, <2>4 DEF ReturnSuspicious, UnsetAssignment, Table!Free, Table!GivesUp,
                              Table!FromHolder
    <3> QED
      BY <2>1, <3>1 DEF Table!Next
  <2>5. CASE ReturnAccepted(n, c, r)
    <3>1. Table!Finish(asked')
      BY <2>1, <2>2, <2>5 DEF ReturnAccepted, AcceptableReturn, SetComplete, SetClientId,
                              Table!Finish, Table!Finishes, Table!FromHolder
    <3> QED
      BY <2>1, <3>1 DEF Table!Next
  <2> QED
    BY <1>2, <2>3, <2>4, <2>5
<1> QED
  BY <1>1, <1>2 DEF HistoryReport

\* What a kill leaves of the message that was served.
LEMMA HistoryDeathRefines ==
  ASSUME TypeOK, PointersExact, HistoryDeath
  PROVE  Table!Next
<1>1. ASSUME Die, asked' = Nothing
      PROVE  Table!Next
  <2>1. Nothing \in Table!Message
    BY DEF Nothing, Table!Message
  <2>2. up /\ ~up' /\ Table!Stop(asked')
    BY <1>1 DEF Die, ProcessEnds, files, Table!Stop
  <2> QED
    BY <1>1, <2>1, <2>2 DEF Table!Next
<1>2. ASSUME DieInRequest, asked' = Unheard("take")
      PROVE  Table!Next
  <2>1. /\ up /\ ~up' /\ lu \in Task /\ complete' = complete /\ clientid' = clientid
        /\ assigned' = assigned \cup {lu} /\ conn.tid \in 0 .. MaxThreads - 1
    BY <1>2, ThreadServed DEF DieInRequest, ProcessEnds, Serving
  <2>2. asked' \in Table!Message /\ asked'.kind = "take"
    BY <1>2, <2>1 DEF Table!Message, Unheard
  <2>3. Table!Due(asked', lu)
    BY <2>1, <2>2, TakeIsDue
  <2> QED
    BY <2>1, <2>2, <2>3, TakenRefines
<1>3. ASSUME NEW n \in Task, DieInMissed(n), asked' = Unheard("retake")
      PROVE  Table!Next
  <2>1. /\ up /\ ~up' /\ complete' = complete /\ clientid' = clientid
        /\ IsMissed(n, conn.tid)
        /\ assigned' = assigned \cup {n} /\ conn.tid \in 0 .. MaxThreads - 1
    BY <1>3, ThreadServed DEF DieInMissed, ProcessEnds, Serving
  <2>2. /\ asked' \in Table!Message /\ asked'.kind = "retake"
        /\ asked'.thread = conn.tid
    BY <1>3, <2>1 DEF Table!Message, Unheard
  <2>3. Table!Due(asked', n)
    BY <2>1, <2>2, RetakeIsDue
  <2> QED
    BY <2>1, <2>2, <2>3, TakenRefines
<1>4. ASSUME NEW n \in Task, NEW c \in ClientId, DieInInterrupt(n, c),
             asked' = Interrupt(n, c)
      PROVE  Table!Next
  <2>1. /\ asked' \in Table!Message
        /\ asked'.kind = "free" /\ asked'.task = n /\ asked'.id = c
    <3>1. Interrupt(n, c) \in Table!Message
      BY <1>4 DEF Table!Message, Interrupt
    <3> QED
      BY <1>4, <3>1 DEF Interrupt
  <2>2. up /\ ~up' /\ Table!Stop(asked')
    BY <1>4, <2>1 DEF DieInInterrupt, ProcessEnds, Serving, Table!Stop, Table!GivesUp,
                      Table!FromHolder
  <2> QED
    BY <2>1, <2>2 DEF Table!Next
<1>5. ASSUME NEW n \in Task, NEW c \in ClientId, NEW r \in Result, NEW s,
             DieInReturn(n, c, r, s), asked' = Return(n, c, r)
      PROVE  Table!Next
  <2>1. /\ asked' \in Table!Message
        /\ asked'.kind = "finish" /\ asked'.task = n /\ asked'.id = c
        /\ asked'.result = Verdict(r)
    <3>1. Return(n, c, r) \in Table!Message
      BY <1>5, Reports
    <3> QED
      BY <1>5, <3>1 DEF Return
  <2>2. Verdict(r) = "good"
    BY <1>5, KnownChecksumAssumption DEF DieInReturn, AcceptableReturn, Verdict
  <2>3. up /\ ~up' /\ Table!Stop(asked')
    BY <1>5, <2>1, <2>2 DEF DieInReturn, AcceptableReturn, ProcessEnds, Serving,
                            Table!Stop, Table!Finishes, Table!FromHolder
  <2> QED
    BY <2>1, <2>3 DEF Table!Next
<1> QED
  BY <1>1, <1>2, <1>3, <1>4, <1>5 DEF HistoryDeath

\* Every step of the server answers its message as the table does.
LEMMA TableStep ==
  ASSUME TypeOK, PointersExact, [HistoryNext]_historyVars
  PROVE  [Table!Next]_(Table!vars)
<1>1. ASSUME Loop, asked' = Nothing
      PROVE  Table!Next
  <2>1. up /\ up' /\ UNCHANGED <<assigned, complete, clientid>>
    BY <1>1 DEF Loop, Accept, QueryServed, Abort, Close, Serving, files
  <2> QED
    BY <1>1, <2>1, NothingRefines
<1>2. ASSUME Restart, asked' = Nothing
      PROVE  Table!Next
  <2>1. PICK opts, listed, sb : Start(opts, listed, sb)
    BY <1>2 DEF Restart
  <2>2. ~up /\ up' /\ Table!Resume
    BY <1>2, <2>1, StartFacts DEF Table!Resume, Nothing
  <2>3. asked' \in Table!Message
    BY <1>2 DEF Nothing, Table!Message
  <2> QED
    BY <2>2, <2>3 DEF Table!Next
<1>3. ASSUME UNCHANGED historyVars
      PROVE  UNCHANGED Table!vars
  BY <1>3 DEF historyVars, vars, files, Table!vars
<1> QED
  BY <1>1, <1>2, <1>3, HistoryGrantRefines, HistoryReportRefines, HistoryDeathRefines
  DEF HistoryNext

\* With its messages made visible the server is still the server.
LEMMA HistoryIsServer == HistorySpec => Spec
<1>1. HistoryInit => Init
  BY DEF HistoryInit
<1>2. [HistoryNext]_historyVars => [Next]_vars
  BY DEF HistoryNext, historyVars, HistoryGrant, HistoryReport, HistoryDeath,
         Next, Grant, Report, ReportUnrecorded, Death, DeathElsewhere
<1> QED
  BY <1>1, <1>2, PTL DEF HistorySpec, Spec

\* Pointers, batches, failures at any read or write and kills inside the
\* handlers are invisible in the table: each message gets the answer that it
\* and the table determine, for any number of tasks, clients and threads.
THEOREM Refinement == HistorySpec => ImplementsTaskTable
<1>1. HistoryInit => Table!Init
  BY DEF HistoryInit, Init, Nothing, Table!Init
<1>2. TypeOK /\ PointersExact /\ [HistoryNext]_historyVars => [Table!Next]_(Table!vars)
  BY TableStep
<1> QED
  BY <1>1, <1>2, HistoryIsServer, TypeCorrect, PointersCorrect, PTL
  DEF HistorySpec, ImplementsTaskTable, Table!Spec

=============================================================================
