------------------------ MODULE ResidueSystemProofs ------------------------
(***************************************************************************)
(* Proofs about the modules ResidueServer and ResidueSystem, for every     *)
(* number of tasks, clients and threads, batch size, set of results and    *)
(* set of start options.  First the server alone: types, the two cached    *)
(* pointers, what batches hand out, the frontier, and the start with -f    *)
(* -c.  Then the server and its clients: nothing in a message says who     *)
(* sent it, so all rests on where a task is: with a worker, in the batch   *)
(* being handed out, or in a connection of the line; what holds whatever   *)
(* fails, and then what holds as long as nothing has failed.               *)
(***************************************************************************)
EXTENDS ResidueSystem, FiniteSetTheorems, WellFoundedInduction, TLAPS

-----------------------------------------------------------------------------
(* Numbers and sequences. *)

\* Every nonempty set of numbers has a least element.
LEMMA LeastNumber ==
  ASSUME NEW S \in SUBSET Nat, S # {}
  PROVE  \E m \in S : \A n \in S : m <= n
<1> DEFINE R == OpToRel(<, Nat)
<1>1. IsWellFoundedOn(R, Nat)
  BY NatLessThanWellFounded
<1>2. \A x, y \in Nat : (<<y, x>> \in R) <=> y < x
  BY DEF OpToRel
<1> HIDE DEF R
<1>3. PICK x \in S : \A y \in S : ~ (<<y, x>> \in R)
  BY <1>1, WFMin
<1>4. \A y \in S : ~ (y < x)
  BY <1>2, <1>3
<1>5. \A y \in S : x <= y
  BY <1>4
<1> QED
  BY <1>5

\* A sequence with one more element.
LEMMA OneMore ==
  ASSUME NEW T, NEW s \in Seq(T), NEW x \in T
  PROVE  /\ Len(s \o <<x>>) = Len(s) + 1
         /\ (s \o <<x>>)[Len(s) + 1] = x
         /\ \A i \in 1 .. Len(s) : (s \o <<x>>)[i] = s[i]
  OBVIOUS

-----------------------------------------------------------------------------
(* What the loops over the bitmaps find. *)

\* n is the end of a scan from k on: a clear bit, or the end of the table.
IsEnd(S, k, n) ==
  /\ n \in k .. NumTasks
  /\ n = NumTasks \/ n \notin S
  /\ \A m \in k .. n - 1 : m \in S

\* The scans of the code end, inside the table.
LEMMA ScanSpec ==
  ASSUME NEW S, NEW k \in 0 .. NumTasks
  PROVE  /\ IsEnd(S, k, Scan(S, k))
         /\ Scan(S, k) \in k .. NumTasks
         /\ Scan(S, k) \in 0 .. NumTasks
<1> DEFINE Ends == {n \in k .. NumTasks : n = NumTasks \/ n \notin S}
<1>1. Ends \in SUBSET Nat /\ NumTasks \in Ends
  BY NumTasksAssumption
<1>2. PICK n \in Ends : \A m \in Ends : n <= m
  BY <1>1, LeastNumber
<1>3. \A m \in k .. n - 1 : m \in S
  BY <1>2, NumTasksAssumption
<1>4. \E e \in k .. NumTasks : /\ e = NumTasks \/ e \notin S
                               /\ \A m \in k .. e - 1 : m \in S
  BY <1>2, <1>3
<1>5. IsEnd(S, k, Scan(S, k))
  BY <1>4 DEF Scan, IsEnd
<1> QED
  BY <1>5, NumTasksAssumption DEF IsEnd

\* They find nothing else.
LEMMA ScanUnique ==
  ASSUME NEW S, NEW k \in 0 .. NumTasks, NEW n, IsEnd(S, k, n)
  PROVE  n = Scan(S, k)
<1>1. IsEnd(S, k, Scan(S, k))
  BY ScanSpec
<1> QED
  BY <1>1, NumTasksAssumption DEF IsEnd

\* The scan without a bound stops where the others do, at the end of the
\* table at the latest, provided that the bit just behind it is clear.
LEMMA OpenScanStops ==
  ASSUME NEW S, NEW k \in 0 .. NumTasks, NumTasks \notin S
  PROVE  OpenScan(S, k) = Scan(S, k)
<1>1. /\ Scan(S, k) \in k .. NumTasks /\ Scan(S, k) \notin S
      /\ \A m \in k .. Scan(S, k) - 1 : m \in S
  BY ScanSpec DEF IsEnd
<1>2. Scan(S, k) \in k .. LastBit
  BY <1>1, NumTasksAssumption, MaxThreadsAssumption DEF LastBit
<1>3. /\ OpenScan(S, k) \in k .. LastBit /\ OpenScan(S, k) \notin S
      /\ \A m \in k .. OpenScan(S, k) - 1 : m \in S
  BY <1>1, <1>2 DEF OpenScan
<1>4. LastBit \in Int
  BY NumTasksAssumption, MaxThreadsAssumption DEF LastBit
<1> HIDE DEF LastBit
<1> QED
  BY <1>1, <1>3, <1>4, NumTasksAssumption

\* set_complete and the two get functions scan on from the old pointer: the
\* result is that of a scan from 0 of the new bitmap.
LEMMA ScanOn ==
  ASSUME NEW S, NEW n \in Nat, NEW p \in 0 .. NumTasks, p = Scan(S, 0)
  PROVE  Scan(S \cup {n}, 0) = IF n = p THEN Scan(S \cup {n}, p) ELSE p
<1> DEFINE U == S \cup {n}
<1>1. 0 \in 0 .. NumTasks
  BY NumTasksAssumption
<1>2. IsEnd(S, 0, p)
  BY <1>1, ScanSpec
<1>3. CASE n = p
  <2>1. PICK e : e = Scan(U, p) /\ IsEnd(U, p, e)
    BY ScanSpec
  <2>2. ASSUME NEW m \in 0 .. e - 1
        PROVE  m \in U
    <3>1. m \in Int /\ e \in Int /\ m < e /\ 0 <= m
      BY <2>1, NumTasksAssumption DEF IsEnd
    <3>2. CASE m < p
      BY <1>2, <3>1, <3>2 DEF IsEnd
    <3>3. CASE m >= p
      <4>1. m \in p .. e - 1
        BY <3>1, <3>3
      <4> QED
        BY <2>1, <4>1 DEF IsEnd
    <3> QED
      BY <3>1, <3>2, <3>3
  <2>3. IsEnd(U, 0, Scan(U, p))
    BY <1>2, <2>1, <2>2, NumTasksAssumption DEF IsEnd
  <2> QED
    BY <1>1, <1>3, <2>3, ScanUnique
<1>4. CASE n # p
  <2>1. IsEnd(U, 0, p)
    BY <1>2, <1>4, NumTasksAssumption DEF IsEnd
  <2> QED
    BY <1>1, <1>4, <2>1, ScanUnique
<1> QED
  BY <1>3, <1>4

\* unset_assignment moves the pointer back to where a scan from 0 stops.
LEMMA ScanBack ==
  ASSUME NEW S, NEW n \in Task, NEW p \in 0 .. NumTasks, p = Scan(S, 0)
  PROVE  Scan(S \ {n}, 0) = IF p > n THEN n ELSE p
<1>1. 0 \in 0 .. NumTasks
  BY NumTasksAssumption
<1>2. IsEnd(S, 0, p)
  BY <1>1, ScanSpec
<1>3. IsEnd(S \ {n}, 0, IF p > n THEN n ELSE p)
  BY <1>2, NumTasksAssumption DEF IsEnd, Task
<1> QED
  BY <1>1, <1>3, ScanUnique

\* -c: the tasks cleared between the pointers bring the higher one down.
LEMMA ScanCleared ==
  ASSUME NEW S, NEW C, NEW l \in 0 .. NumTasks, l = Scan(C, 0),
         NEW h \in 0 .. NumTasks, h = Scan(S, 0), h > l
  PROVE  Scan(S \ ((l .. h - 1) \ C), 0) = l
<1> DEFINE U == S \ ((l .. h - 1) \ C)
<1>1. 0 \in 0 .. NumTasks
  BY NumTasksAssumption
<1>2. IsEnd(S, 0, h) /\ IsEnd(C, 0, l)
  BY <1>1, ScanSpec
<1>3. IsEnd(U, 0, l)
  BY <1>2, NumTasksAssumption DEF IsEnd
<1> QED
  BY <1>1, <1>3, ScanUnique

-----------------------------------------------------------------------------
(* Types and pointers.  They need each other: that the unbounded scan stays  *)
(* in the table rests on the clear bit behind it.                            *)

\* The numbers that get_missed_assignment passes on the way to n.
Passed(n) == (li .. n - 1) \ complete

\* There are finitely many.
LEMMA PassedCount ==
  ASSUME TypeOK, NEW n \in Int
  PROVE  IsFiniteSet(Passed(n)) /\ Cardinality(Passed(n)) \in Nat
<1>1. IsFiniteSet(li .. n - 1)
  BY FS_Interval DEF TypeOK
<1> QED
  BY <1>1, FS_Subset, FS_CardinalityType DEF Passed

\* A batch runs at most as far past the table as it has threads, as each
\* number there counts for one: no bit from LastBit on is set.
LEMMA MissedBounded ==
  ASSUME TypeOK, NEW n \in 0 .. LastBit, IsMissed(n, conn.tid), Serving({"req"})
  PROVE  n \in 0 .. LastBit - 1
<1>1. /\ li \in 0 .. NumTasks /\ complete \subseteq Task /\ NumTasks \in Nat
      /\ conn.tid \in Nat /\ conn.tid < MaxThreads /\ MaxThreads \in Nat
  BY NumTasksAssumption, MaxThreadsAssumption DEF TypeOK, Conn, Serving
<1>2. n \in Int /\ n - 1 \in Int
  BY <1>1 DEF LastBit
<1>3. NumTasks .. n - 1 \subseteq Passed(n)
  BY <1>1, <1>2 DEF Passed, Task
<1>4. IsFiniteSet(Passed(n)) /\ Cardinality(Passed(n)) = conn.tid
  BY <1>2, PassedCount DEF IsMissed, Passed
<1>5. Cardinality(NumTasks .. n - 1) <= conn.tid
  BY <1>3, <1>4, FS_Subset
<1>6. CASE n > NumTasks
  <2>1. Cardinality(NumTasks .. n - 1) = n - NumTasks
    BY <1>1, <1>2, <1>6, FS_Interval
  <2> QED
    BY <1>1, <1>2, <1>5, <1>6, <2>1 DEF LastBit
<1>7. CASE n <= NumTasks
  BY <1>1, <1>7 DEF LastBit
<1> QED
  BY <1>1, <1>2, <1>6, <1>7

\* A request is answered, or not, with this effect on the table: a bit is set
\* and lu moves on from it, or the table is used up.
LEMMA GetExact ==
  ASSUME TypeOK, PointersExact, up,
         \/ GetAssignment
         \/ \E n \in 0 .. LastBit : GetMissedAssignment(n) /\ Serving({"req"})
  PROVE  /\ assigned' \subseteq 0 .. LastBit - 1
         /\ lu' \in 0 .. NumTasks
         /\ lu' = Scan(assigned', 0)
         /\ NumTasks \notin assigned'
<1>1. /\ lu \in 0 .. NumTasks /\ lu = Scan(assigned, 0) /\ NumTasks \notin assigned
      /\ assigned \subseteq 0 .. LastBit - 1
      /\ NumTasks \in Nat /\ MaxThreads \in Nat \ {0}
  BY NumTasksAssumption, MaxThreadsAssumption DEF TypeOK, PointersExact
<1>2. CASE UNCHANGED <<assigned, lu>>
  BY <1>1, <1>2
<1>3. ASSUME NEW n \in 0 .. LastBit - 1, n # NumTasks,
             assigned' = assigned \cup {n},
             lu' = IF n = lu THEN Scan(assigned', lu) ELSE lu
      PROVE  /\ assigned' \subseteq 0 .. LastBit - 1
             /\ lu' \in 0 .. NumTasks
             /\ lu' = Scan(assigned', 0)
             /\ NumTasks \notin assigned'
  <2>1. n \in Nat
    BY <1>1, <1>3 DEF LastBit
  <2>2. Scan(assigned', 0) = IF n = lu THEN Scan(assigned', lu) ELSE lu
    BY <1>1, <1>3, <2>1, ScanOn
  <2>3. Scan(assigned', 0) \in 0 .. NumTasks
    BY <1>1, ScanSpec
  <2> QED
    BY <1>1, <1>3, <2>2, <2>3
<1>4. CASE GetAssignment
  <2>1. CASE lu = NumTasks
    BY <1>2, <1>4, <2>1 DEF GetAssignment
  <2>2. CASE lu # NumTasks
    <3>1. lu \in 0 .. LastBit - 1
      BY <1>1, <2>2 DEF LastBit
    <3> QED
      BY <1>3, <1>4, <2>2, <3>1 DEF GetAssignment
  <2> QED
    BY <2>1, <2>2
<1>5. ASSUME NEW n \in 0 .. LastBit, GetMissedAssignment(n), Serving({"req"})
      PROVE  /\ assigned' \subseteq 0 .. LastBit - 1
             /\ lu' \in 0 .. NumTasks
             /\ lu' = Scan(assigned', 0)
             /\ NumTasks \notin assigned'
  <2>1. CASE n = NumTasks
    BY <1>2, <1>5, <2>1 DEF GetMissedAssignment
  <2>2. CASE n # NumTasks
    <3>1. n \in 0 .. LastBit - 1
      BY <1>5, MissedBounded DEF GetMissedAssignment
    <3>2. /\ assigned' = assigned \cup {n}
          /\ lu' = IF n = lu THEN OpenScan(assigned', lu) ELSE lu
      BY <1>5, <2>2 DEF GetMissedAssignment
    <3>3. NumTasks \notin assigned'
      BY <1>1, <2>2, <3>2
    <3>4. OpenScan(assigned', lu) = Scan(assigned', lu)
      BY <1>1, <3>3, OpenScanStops
    <3> QED
      BY <1>3, <2>2, <3>1, <3>2, <3>4
  <2> QED
    BY <2>1, <2>2
<1> QED
  BY <1>4, <1>5

\* Going on with a batch, or giving it up, keeps the type of the connection.
LEMMA ConnType ==
  ASSUME TypeOK
  PROVE  /\ NoConn \in Conn
         /\ GiveUp => conn' \in Conn
         /\ \A k, reply : Serving(k) /\ reply \in Seq(0 .. NumTasks) /\ NextMessage(reply)
                            => conn' \in Conn
<1>1. NoConn \in Conn
  BY MaxThreadsAssumption DEF NoConn, Conn
<1>2. ASSUME NEW k, NEW reply, Serving(k), reply \in Seq(0 .. NumTasks), NextMessage(reply)
      PROVE  conn' \in Conn
  <2>1. conn \in Conn /\ conn.tid < conn.size
    BY <1>2 DEF TypeOK, Serving
  <2>2. conn.tid + 1 \in 0 .. MaxThreads /\ conn.handed \o reply \in Seq(0 .. NumTasks)
    BY <1>2, <2>1, MaxThreadsAssumption DEF Conn
  <2> QED
    BY <1>2, <2>1, <2>2 DEF NextMessage, Conn
<1> QED
  BY <1>1, <1>2 DEF GiveUp

\* What a start leaves behind, whatever its options.
LEMMA StartFacts ==
  ASSUME TypeOK, PointersExact, NEW o \in Options, Start(o)
  PROVE  /\ ~up /\ up' = TRUE
         /\ opts' = o /\ record' = record /\ conn' = conn
         /\ complete' \subseteq complete
         /\ assigned' \subseteq assigned \cup complete
         /\ lu' = Scan(assigned', 0) /\ lu' \in 0 .. NumTasks
         /\ li' = Scan(complete', 0) /\ li' \in 0 .. NumTasks
         /\ {"f", "c"} \subseteq o =>
              /\ lu' = li'
              /\ \A n \in complete' : n \in assigned' /\ record[n].sum # 0
<1> DEFINE a == assigned \ Overflown(o)
           c == complete \ Overflown(o)
           a1 == Fixed(o, a, c)[1]
           c1 == Fixed(o, a, c)[2]
           first == Scan(a1, 0)
           frontier == Scan(c1, 0)
           clears == "c" \in o /\ first > frontier
<1>1. /\ ~up /\ up' = TRUE /\ opts' = o /\ record' = record /\ conn' = conn
      /\ assigned' = IF clears THEN a1 \ ((frontier .. first - 1) \ c1) ELSE a1
      /\ complete' = c1
      /\ lu' = IF clears THEN frontier ELSE first
      /\ li' = frontier
  BY DEF Start
<1>2. /\ a1 = IF "f" \in o THEN a \cup c ELSE a
      /\ c1 = IF "f" \in o THEN {n \in c : record[n].sum # 0} ELSE c
  BY DEF Fixed
<1>3. a1 \subseteq assigned \cup complete /\ c1 \subseteq complete
  BY <1>2
<1>4. "f" \in o => c1 \subseteq a1 /\ \A n \in c1 : record[n].sum # 0
  BY <1>2
<1> HIDE DEF a1, c1
<1>5. /\ 0 \in 0 .. NumTasks
      /\ first \in 0 .. NumTasks /\ frontier \in 0 .. NumTasks
      /\ IsEnd(a1, 0, first) /\ IsEnd(c1, 0, frontier)
  <2>1. 0 \in 0 .. NumTasks
    BY NumTasksAssumption
  <2> QED
    BY <2>1, ScanSpec
<1>6. clears => Scan(a1 \ ((frontier .. first - 1) \ c1), 0) = frontier
  BY <1>5, ScanCleared
<1>7. lu' = Scan(assigned', 0) /\ lu' \in 0 .. NumTasks
  BY <1>1, <1>5, <1>6
<1>8. ASSUME {"f", "c"} \subseteq o
      PROVE  /\ lu' = li'
             /\ \A n \in complete' : n \in assigned' /\ record[n].sum # 0
  <2>1. ~ (first < frontier)
    <3>1. SUFFICES ASSUME first < frontier PROVE FALSE
      OBVIOUS
    <3>2. first \in c1 /\ first # NumTasks
      BY <1>5, <3>1 DEF IsEnd
    <3>3. first \notin a1
      BY <1>5, <3>2 DEF IsEnd
    <3> QED
      BY <1>4, <1>8, <3>2, <3>3
  <2>2. first \in Int /\ frontier \in Int
    BY <1>5
  <2> HIDE DEF first, frontier
  <2> QED
    BY <1>1, <1>4, <1>8, <2>1, <2>2
<1> QED
  BY <1>1, <1>3, <1>5, <1>7, <1>8

\* The invariant: types and pointers together.
TableInv == TypeOK /\ PointersExact

\* Every step preserves it.
LEMMA TableStep ==
  ASSUME TableInv, [Next]_vars
  PROVE  TableInv'
<1> USE DEF TableInv, TypeOK
<1>1. /\ 0 \in 0 .. NumTasks /\ NumTasks \in 0 .. NumTasks /\ <<>> \in Seq(0 .. NumTasks)
      /\ \A n \in 0 .. NumTasks : <<n>> \in Seq(0 .. NumTasks)
      /\ Task \subseteq 0 .. NumTasks
  BY NumTasksAssumption DEF Task
<1>2. ASSUME UNCHANGED <<up, opts, assigned, complete, record, lu, li>>, conn' \in Conn
      PROVE  TableInv'
  BY <1>2 DEF PointersExact
<1>3. ASSUME RequestServed
      PROVE  TableInv'
  <2>1. up /\ Serving({"REQ", "MRQ"}) /\ GetAssignment
    BY <1>3 DEF RequestServed, Serving
  <2>2. Reply(lu) \in 0 .. NumTasks
    BY <1>1 DEF Reply, Empty
  <2>3. conn' \in Conn
    BY <1>1, <1>3, <2>1, <2>2, ConnType DEF RequestServed
  <2> QED
    BY <1>3, <2>1, <2>3, GetExact DEF RequestServed, PointersExact
<1>4. ASSUME RequestFails
      PROVE  TableInv'
  <2>1. up /\ GetAssignment
    BY <1>4 DEF RequestFails, Serving
  <2> QED
    BY <1>4, <2>1, GetExact, ConnType DEF RequestFails, PointersExact
<1>5. ASSUME NEW n \in 0 .. LastBit, MissedServed(n)
      PROVE  TableInv'
  <2>1. up /\ Serving({"req"}) /\ GetMissedAssignment(n)
    BY <1>5 DEF MissedServed, Serving
  <2>2. Reply(n) \in 0 .. NumTasks
    BY NumTasksAssumption, MaxThreadsAssumption DEF Reply, Empty, LastBit
  <2>3. conn' \in Conn
    BY <1>1, <1>5, <2>1, <2>2, ConnType DEF MissedServed
  <2> QED
    BY <1>5, <2>1, <2>3, GetExact DEF MissedServed, PointersExact
<1>6. ASSUME NEW n \in 0 .. LastBit, MissedFails(n)
      PROVE  TableInv'
  <2>1. up /\ Serving({"req"}) /\ GetMissedAssignment(n)
    BY <1>6 DEF MissedFails, Serving
  <2> QED
    BY <1>6, <2>1, GetExact, ConnType DEF MissedFails, PointersExact
<1>7. ASSUME NEW n \in 0 .. NumTasks,
             \/ InterruptRefused(n)
             \/ \E r \in Result : ReturnRefused(n, r) \/ ReturnUnassigned(n, r)
      PROVE  TableInv'
  <2>1. conn' \in Conn
    BY <1>1, <1>7, ConnType DEF ReturnRefused, ReturnUnassigned, InterruptRefused
  <2> QED
    BY <1>2, <1>7, <2>1 DEF ReturnRefused, ReturnUnassigned, InterruptRefused
<1>8. ASSUME NEW n \in 0 .. NumTasks, NEW r \in Result, ReturnAccepted(n, r)
      PROVE  TableInv'
  <2>1. /\ up /\ n \in Task /\ n \in Nat /\ SetComplete(n)
        /\ li \in 0 .. NumTasks /\ li = Scan(complete, 0)
    BY <1>8 DEF ReturnAccepted, Serving, PointersExact, Task
  <2>2. complete' = complete \cup {n} /\ complete' \subseteq Task
    BY <2>1 DEF SetComplete
  <2>3. li' = Scan(complete', 0) /\ li' \in 0 .. NumTasks
    <3>1. Scan(complete', 0) = IF n = li THEN Scan(complete', li) ELSE li
      BY <2>1, <2>2, ScanOn
    <3>2. Scan(complete', 0) \in 0 .. NumTasks
      BY <1>1, ScanSpec
    <3> QED
      BY <2>1, <3>1, <3>2 DEF SetComplete
  <2>4. record' \in [Task -> Record]
    BY <1>8, ResultAssumption DEF ReturnAccepted
  <2>5. conn' \in Conn
    BY <1>1, <1>8, ConnType DEF ReturnAccepted
  <2> QED
    BY <1>8, <2>1, <2>2, <2>3, <2>4, <2>5 DEF ReturnAccepted, PointersExact
<1>9. ASSUME NEW n \in 0 .. NumTasks, InterruptAccepted(n)
      PROVE  TableInv'
  <2>1. /\ up /\ n \in Task /\ UnsetAssignment(n)
        /\ lu \in 0 .. NumTasks /\ lu = Scan(assigned, 0)
    BY <1>9 DEF InterruptAccepted, Serving, PointersExact
  <2>2. lu' = Scan(assigned', 0)
    BY <2>1, ScanBack DEF UnsetAssignment
  <2>3. lu' \in 0 .. NumTasks
    BY <1>1, <2>1 DEF UnsetAssignment
  <2>4. conn' \in Conn
    BY <1>1, <1>9, ConnType DEF InterruptAccepted
  <2> QED
    BY <1>9, <2>1, <2>2, <2>3, <2>4 DEF InterruptAccepted, UnsetAssignment, PointersExact
<1>10. ASSUME NEW n \in 0 .. NumTasks, NEW r \in Result, NEW s \in BOOLEAN,
              DieInReturn(n, r, s)
       PROVE  TableInv'
  <2>1. record' \in [Task -> Record]
    <3>1. r \in Record /\ n \in Task
      BY <1>10, ResultAssumption DEF DieInReturn
    <3>2. \A old \in Record : [old EXCEPT !.sum = r.sum] \in Record
      BY <3>1 DEF Record
    <3>3. record[n] \in Record
      BY <3>1
    <3>4. [record EXCEPT ![n].sum = r.sum] = [record EXCEPT ![n] = [record[n] EXCEPT !.sum = r.sum]]
      OBVIOUS
    <3> QED
      BY <1>10, <3>1, <3>2, <3>3, <3>4 DEF DieInReturn
  <2> QED
    BY <1>1, <1>10, <2>1, ConnType DEF DieInReturn, ProcessEnds, PointersExact
<1>11. ASSUME Die
       PROVE  TableInv'
  BY <1>1, <1>11, ConnType DEF Die, ProcessEnds, PointersExact
<1>12. ASSUME NEW o \in Options, Start(o)
       PROVE  TableInv'
  <2>1. assigned' \subseteq 0 .. LastBit - 1 /\ NumTasks \notin assigned'
    <3>1. Task \subseteq 0 .. LastBit - 1 /\ NumTasks \notin Task
      BY NumTasksAssumption, MaxThreadsAssumption DEF Task, LastBit
    <3> QED
      BY <1>12, <3>1, StartFacts DEF PointersExact
  <2>2. o \subseteq Option
    BY OptionsAssumption
  <2> HIDE DEF Option
  <2> QED
    BY <1>12, <2>1, <2>2, StartFacts DEF PointersExact
<1>13. ASSUME NEW k \in RequestKind \cup ReportKind \cup QueryKind,
              NEW s \in 1 .. MaxThreads, Accept(k, s)
       PROVE  TableInv'
  <2>1. conn' \in Conn
    BY <1>13, MaxThreadsAssumption DEF Accept, Conn
  <2> QED
    BY <1>2, <1>13, <2>1 DEF Accept
<1>14. ASSUME QueryServed
       PROVE  TableInv'
  <2>1. conn' \in Conn
    BY <1>1, <1>14, ConnType DEF QueryServed
  <2> QED
    BY <1>2, <1>14, <2>1 DEF QueryServed
<1>15. ASSUME Abort \/ Close
       PROVE  TableInv'
  <2>1. conn' \in Conn
    BY <1>15, ConnType DEF Abort, Close
  <2> QED
    BY <1>2, <1>15, <2>1 DEF Abort, Close
<1>16. 1 \in 1 .. MaxThreads
  BY MaxThreadsAssumption
<1>17. ASSUME UNCHANGED vars
       PROVE  TableInv'
  BY <1>2, <1>17 DEF vars
<1> HIDE DEF TableInv, TypeOK
<1>18. Request => TableInv'
  BY <1>3, <1>4, <1>5, <1>6 DEF Request
<1>19. Report => TableInv'
  BY <1>7, <1>8, <1>9, <1>10 DEF Report
<1>20. Loop => TableInv'
  BY <1>11, <1>12, <1>13, <1>14, <1>15, <1>16 DEF Loop
<1> QED
  BY <1>17, <1>18, <1>19, <1>20 DEF Next

\* It holds at the start.
LEMMA TableInit ==
  ASSUME Init
  PROVE  TableInv
<1>1. NoRecord \in Record
  BY DEF NoRecord, Record
<1>2. NoConn \in Conn
  BY MaxThreadsAssumption DEF NoConn, Conn
<1>3. 0 \in 0 .. NumTasks
  BY NumTasksAssumption
<1> QED
  BY <1>1, <1>2, <1>3 DEF Init, TableInv, TypeOK, PointersExact

\* So it holds always.
LEMMA TableCorrect == Spec => []TableInv
  BY TableInit, TableStep, PTL DEF Spec

\* No sequence of messages, from whomever, and no kill or restart drives a
\* pointer out of the table or sets a bit further past it than a batch is big.
THEOREM ResidueTypeCorrect == Spec => []TypeOK
<1>1. TableInv => TypeOK
  BY DEF TableInv
<1> QED
  BY <1>1, TableCorrect, PTL

\* The cached pointers are exact whenever the server runs, although `req'
\* batches set bits past the end of the map: no task is skipped, and the bit
\* at which the unbounded scan has to stop is never set.
THEOREM ResiduePointersCorrect == Spec => []PointersExact
<1>1. TableInv => PointersExact
  BY DEF TableInv
<1> QED
  BY <1>1, TableCorrect, PTL

-----------------------------------------------------------------------------
(* What a step may not do. *)

\* While the process runs nothing takes back a complete task or the published
\* frontier, although any INT of a complete task is obeyed.
THEOREM ResidueFrontierCorrect == Spec => FrontierNeverRetreats
<1> DEFINE Kept == complete \subseteq complete' /\ li <= li'
<1>1. ASSUME TypeOK, Next, up, up'
      PROVE  Kept
  <2>1. ASSUME UNCHANGED <<complete, li>>
        PROVE  Kept
    BY <1>1, <2>1 DEF TypeOK
  <2>2. ASSUME NEW n, NEW r, ReturnAccepted(n, r)
        PROVE  Kept
    <3>1. complete \subseteq complete' /\ li' \in {li, Scan(complete', li)}
      BY <2>2 DEF ReturnAccepted, SetComplete
    <3>2. Scan(complete', li) \in li .. NumTasks /\ li \in 0 .. NumTasks
      BY <1>1, ScanSpec DEF TypeOK
    <3> QED
      BY <3>1, <3>2
  <2>3. ASSUME Request
        PROVE  Kept
    BY <2>1, <2>3 DEF Request, RequestServed, RequestFails, MissedServed, MissedFails
  <2>4. ASSUME Report
        PROVE  Kept
    BY <1>1, <2>1, <2>2, <2>4
    DEF Report, InterruptRefused, InterruptAccepted, ReturnRefused, ReturnUnassigned,
        DieInReturn, ProcessEnds
  <2>5. ASSUME Loop
        PROVE  Kept
    BY <1>1, <2>1, <2>5 DEF Loop, Accept, QueryServed, Abort, Close, Die, ProcessEnds, Start
  <2> QED
    BY <1>1, <2>3, <2>4, <2>5 DEF Next
<1>2. TypeOK /\ [Next]_vars => [up /\ up' => complete \subseteq complete' /\ li <= li']_vars
  BY <1>1
<1> QED
  BY <1>2, ResidueTypeCorrect, PTL DEF Spec, FrontierNeverRetreats

\* A start with -f and -c repairs whatever tables it finds: the frontier is
\* free to be handed out, and what is complete is assigned and has a checksum.
THEOREM ResidueFixCorrect == Spec => ClearedAfterFix
<1> DEFINE Repaired == /\ lu' = li'
                       /\ \A n \in complete' : n \in assigned' /\ record'[n].sum # 0
<1>1. ASSUME TableInv, Next, up', {"f", "c"} \subseteq opts', ~up
      PROVE  Repaired
  <2>1. ~ Request /\ ~ Report
    BY <1>1 DEF Request, RequestServed, RequestFails, MissedServed, MissedFails,
                Report, InterruptRefused, InterruptAccepted, ReturnRefused,
                ReturnUnassigned, ReturnAccepted, DieInReturn, Serving
  <2>2. PICK o \in Options : Start(o)
    BY <1>1, <2>1 DEF Next, Loop, Accept, QueryServed, Abort, Close, Die, Serving
  <2> QED
    BY <1>1, <2>2, StartFacts DEF TableInv
<1>2. TableInv /\ [Next]_vars =>
        [up' /\ {"f", "c"} \subseteq opts' /\ ~up =>
           /\ lu' = li'
           /\ \A n \in complete' : n \in assigned' /\ record'[n].sum # 0]_vars
  BY <1>1
<1> QED
  BY <1>2, TableCorrect, PTL DEF Spec, ClearedAfterFix

-----------------------------------------------------------------------------
(* Batches of requests. *)

\* Two threads of a `req' batch get numbers in the order of the threads.
LEMMA MissedInOrder ==
  ASSUME TypeOK, NEW n \in Int, NEW m \in Int, NEW t \in Int, NEW u \in Int,
         IsMissed(n, t), IsMissed(m, u), n < m
  PROVE  t < u /\ t \in Nat /\ u \in Nat
<1>1. /\ IsFiniteSet(Passed(n)) /\ t = Cardinality(Passed(n)) /\ t \in Nat
      /\ IsFiniteSet(Passed(m)) /\ u = Cardinality(Passed(m)) /\ u \in Nat
  BY PassedCount DEF IsMissed, Passed
<1>2. n \notin Passed(n) /\ Passed(n) \cup {n} \subseteq Passed(m)
  BY DEF IsMissed, Passed, TypeOK
<1>3. Cardinality(Passed(n) \cup {n}) = t + 1
  BY <1>1, <1>2, FS_AddElement
<1>4. Cardinality(Passed(n) \cup {n}) <= u
  BY <1>1, <1>2, FS_Subset
<1> QED
  BY <1>1, <1>3, <1>4

\* Thread i of a `req' batch was answered for the number n that has i - 1
\* incomplete ones, of the table or past it, between the frontier and itself.
ServedFor(i, n) == IsMissed(n, i - 1) /\ conn.handed[i] = Reply(n)

\* The strengthening of the two properties about batches.
BatchInv ==
  /\ conn # NoConn => up
  /\ conn.kind \in {"REQ", "MRQ"} =>
       /\ \A i \in DOMAIN conn.handed : conn.handed[i] = Empty => lu = NumTasks
       /\ EmptyComesLast
  /\ conn.kind = "req" =>
       /\ Len(conn.handed) = conn.tid
       /\ \A i \in 1 .. conn.tid : \E n \in 0 .. LastBit : ServedFor(i, n)

\* A sequence of replies with one more.
LEMMA OneReply ==
  ASSUME TypeOK, NEW x \in 0 .. NumTasks, NextMessage(<<x>>)
  PROVE  /\ conn'.kind = conn.kind /\ conn'.tid = conn.tid + 1
         /\ conn'.handed \in Seq(0 .. NumTasks)
         /\ Len(conn'.handed) = Len(conn.handed) + 1
         /\ conn'.handed[Len(conn.handed) + 1] = x
         /\ \A i \in 1 .. Len(conn.handed) : conn'.handed[i] = conn.handed[i]
         /\ Len(conn.handed) \in Nat /\ conn.tid \in Nat
         /\ DOMAIN conn.handed = 1 .. Len(conn.handed)
         /\ DOMAIN conn'.handed = 1 .. Len(conn'.handed)
<1>1. conn \in Conn /\ conn.handed \in Seq(0 .. NumTasks)
  BY DEF TypeOK, Conn
<1>2. conn'.kind = conn.kind /\ conn'.tid = conn.tid + 1 /\ conn'.handed = conn.handed \o <<x>>
  BY <1>1 DEF NextMessage, Conn
<1>3. /\ Len(conn.handed \o <<x>>) = Len(conn.handed) + 1
      /\ (conn.handed \o <<x>>)[Len(conn.handed) + 1] = x
      /\ \A i \in 1 .. Len(conn.handed) : (conn.handed \o <<x>>)[i] = conn.handed[i]
  BY <1>1, OneMore
<1>4. conn.tid \in Nat
  BY <1>1, MaxThreadsAssumption DEF Conn
<1>5. conn.handed \o <<x>> \in Seq(0 .. NumTasks)
  BY <1>1
<1> QED
  BY <1>1, <1>2, <1>3, <1>4, <1>5

\* Every step preserves the strengthening.
LEMMA BatchStep ==
  ASSUME TypeOK, BatchInv, [Next]_vars
  PROVE  BatchInv'
<1> DEFINE h == conn.handed
<1>1. ASSUME RequestServed
      PROVE  BatchInv'
  <2>1. /\ up /\ up' /\ conn.kind \in {"REQ", "MRQ"}
        /\ GetAssignment /\ NextMessage(<<Reply(lu)>>)
    BY <1>1 DEF RequestServed, Serving
  <2>2. Reply(lu) = lu /\ lu \in 0 .. NumTasks
    BY NumTasksAssumption DEF TypeOK, Reply, Empty
  <2>3. lu = NumTasks => lu' = NumTasks
    BY <2>1 DEF GetAssignment
  <2>4. /\ conn'.kind = conn.kind
        /\ Len(h)' = Len(h) + 1 /\ Len(h) \in Nat
        /\ DOMAIN h = 1 .. Len(h) /\ DOMAIN h' = 1 .. Len(h) + 1
        /\ h'[Len(h) + 1] = lu
        /\ \A i \in 1 .. Len(h) : h'[i] = h[i]
    BY <2>1, <2>2, OneReply
  <2>5. /\ \A i \in DOMAIN h : h[i] = Empty => lu = NumTasks
        /\ EmptyComesLast
    BY <2>1 DEF BatchInv
  <2> HIDE DEF h
  <2>6. ASSUME NEW i \in DOMAIN h', h'[i] = Empty
        PROVE  lu' = NumTasks
    <3>1. CASE i = Len(h) + 1
      BY <2>3, <2>4, <2>6, <3>1 DEF Empty
    <3>2. CASE i \in 1 .. Len(h)
      BY <2>3, <2>4, <2>5, <2>6, <3>2
    <3> QED
      BY <2>4, <2>6, <3>1, <3>2
  <2>7. ASSUME NEW i \in DOMAIN h', NEW j \in DOMAIN h', i < j, h'[i] = Empty
        PROVE  h'[j] = Empty
    <3>1. i \in 1 .. Len(h) /\ h[i] = Empty
      BY <2>4, <2>7
    <3>2. CASE j = Len(h) + 1
      BY <2>4, <2>5, <3>1, <3>2 DEF Empty
    <3>3. CASE j \in 1 .. Len(h)
      BY <2>1, <2>4, <2>5, <2>7, <3>1, <3>3 DEF EmptyComesLast, RequestKind, h
    <3> QED
      BY <2>4, <2>7, <3>2, <3>3
  <2>8. EmptyComesLast'
    BY <2>7 DEF EmptyComesLast, h
  <2> QED
    BY <2>1, <2>4, <2>6, <2>8 DEF BatchInv, h
<1>2. ASSUME NEW n \in 0 .. LastBit, MissedServed(n)
      PROVE  BatchInv'
  <2>1. /\ up /\ up' /\ conn.kind = "req"
        /\ IsMissed(n, conn.tid) /\ NextMessage(<<Reply(n)>>)
        /\ UNCHANGED <<complete, li>>
    BY <1>2 DEF MissedServed, Serving, GetMissedAssignment
  <2>2. Reply(n) \in 0 .. NumTasks
    BY NumTasksAssumption, MaxThreadsAssumption DEF Reply, Empty, LastBit
  <2>3. /\ conn'.kind = conn.kind /\ conn'.tid = conn.tid + 1 /\ conn.tid \in Nat
        /\ Len(h)' = Len(h) + 1
        /\ h'[Len(h) + 1] = Reply(n)
        /\ \A i \in 1 .. Len(h) : h'[i] = h[i]
    BY <2>1, <2>2, OneReply
  <2>4. /\ Len(h) = conn.tid
        /\ \A i \in 1 .. conn.tid : \E m \in 0 .. LastBit : ServedFor(i, m)
    BY <2>1 DEF BatchInv
  <2>5. \A k, u : IsMissed(k, u)' <=> IsMissed(k, u)
    BY <2>1 DEF IsMissed
  <2>6. ASSUME NEW i \in 1 .. conn.tid + 1
        PROVE  \E m \in 0 .. LastBit : IsMissed(m, i - 1) /\ h'[i] = Reply(m)
    <3>1. CASE i = conn.tid + 1
      <4>1. i - 1 = conn.tid /\ h'[i] = Reply(n)
        BY <2>3, <2>4, <3>1
      <4> QED
        BY <2>1, <4>1
    <3>2. CASE i \in 1 .. conn.tid
      BY <2>3, <2>4, <3>2 DEF ServedFor
    <3> QED
      BY <2>3, <3>1, <3>2
  <2>7. \A i \in 1 .. conn.tid + 1 : \E m \in 0 .. LastBit : ServedFor(i, m)'
    BY <2>5, <2>6 DEF ServedFor, Reply
  <2> QED
    BY <2>1, <2>3, <2>4, <2>7 DEF BatchInv, LastBit
<1>3. ASSUME up, up', conn'.kind = conn.kind, conn.kind \notin RequestKind
      PROVE  BatchInv'
  BY <1>3 DEF BatchInv, RequestKind
<1>4. ASSUME conn' = NoConn
      PROVE  BatchInv'
  BY <1>4 DEF BatchInv, NoConn
<1>5. ASSUME NEW k, NEW s, Accept(k, s)
      PROVE  BatchInv'
  BY <1>5 DEF Accept, BatchInv, EmptyComesLast
<1>6. ASSUME NEW k, Serving(k), k \cap RequestKind = {}, NEW reply, NextMessage(reply),
             UNCHANGED up
      PROVE  BatchInv'
  <2>1. conn \in Conn /\ up /\ conn.kind \notin RequestKind
    BY <1>6 DEF TypeOK, Serving
  <2>2. conn'.kind = conn.kind
    BY <1>6, <2>1 DEF NextMessage, Conn
  <2> QED
    BY <1>3, <1>6, <2>1, <2>2
<1>7. ReportKind \cap RequestKind = {} /\ QueryKind \cap RequestKind = {}
  BY DEF ReportKind, RequestKind, QueryKind
<1>8. {"RET"} \cap RequestKind = {} /\ {"INT"} \cap RequestKind = {}
  BY DEF RequestKind
<1>9. ASSUME Request
      PROVE  BatchInv'
  BY <1>1, <1>2, <1>4, <1>9 DEF Request, RequestFails, MissedFails, GiveUp
<1>10. ASSUME Report
       PROVE  BatchInv'
  BY <1>4, <1>6, <1>8, <1>10
  DEF Report, InterruptRefused, InterruptAccepted, ReturnRefused, ReturnUnassigned,
      ReturnAccepted, DieInReturn, ProcessEnds, GiveUp
<1>11. ASSUME NEW o \in Options, Start(o)
       PROVE  BatchInv'
  <2>1. conn' = NoConn
    BY <1>11 DEF Start, BatchInv
  <2> QED
    BY <1>4, <2>1
<1>12. ASSUME QueryServed
       PROVE  BatchInv'
  BY <1>6, <1>7, <1>12 DEF QueryServed
<1>13. ASSUME Loop
       PROVE  BatchInv'
  BY <1>4, <1>5, <1>11, <1>12, <1>13 DEF Loop, Abort, Close, Die, ProcessEnds, GiveUp
<1>14. ASSUME UNCHANGED vars
       PROVE  BatchInv'
  <2>1. UNCHANGED <<up, conn, complete, li, lu>>
    BY <1>14 DEF vars
  <2> QED
    BY <2>1 DEF BatchInv, EmptyComesLast, ServedFor, IsMissed
<1> QED
  BY <1>9, <1>10, <1>13, <1>14 DEF Next

\* The tables and the batch in every state.
LEMMA BatchInvCorrect == Spec => []BatchInv
<1>1. Init => BatchInv
  BY DEF Init, BatchInv, NoConn
<1>2. TypeOK /\ BatchInv /\ [Next]_vars => BatchInv'
  BY BatchStep
<1> QED
  BY <1>1, <1>2, ResidueTypeCorrect, PTL DEF Spec

\* Of two threads of a `req' batch the second was answered for a higher number.
LEMMA MissedDistinct ==
  ASSUME TypeOK, NEW i \in Nat \ {0}, NEW j \in Nat \ {0}, i < j,
         NEW n \in Int, NEW m \in Int, ServedFor(i, n), ServedFor(j, m)
  PROVE  n < m
<1>1. IsMissed(n, i - 1) /\ IsMissed(m, j - 1) /\ i - 1 \in Int /\ j - 1 \in Int
  BY DEF ServedFor
<1>2. ~ (m < n)
  <2>1. SUFFICES ASSUME m < n PROVE FALSE
    OBVIOUS
  <2>2. j - 1 < i - 1
    BY <1>1, <2>1, MissedInOrder
  <2> QED
    BY <2>2
<1>3. n # m
  <2>1. SUFFICES ASSUME n = m PROVE FALSE
    OBVIOUS
  <2>2. i - 1 = j - 1
    BY <1>1, <2>1 DEF IsMissed
  <2> QED
    BY <2>2
<1> QED
  BY <1>2, <1>3

\* In no batch is an empty assignment followed by a task: the revocation of a
\* batch in order, which the server drops at the first empty one, reaches all
\* its tasks, however large the batch is.
THEOREM ResidueEmptiesCorrect == Spec => []EmptyComesLast
<1>1. ASSUME TypeOK, BatchInv
      PROVE  EmptyComesLast
  <2>1. CASE conn.kind # "req"
    BY <1>1, <2>1 DEF BatchInv, EmptyComesLast, RequestKind
  <2>2. ASSUME conn.kind = "req", NEW i \in DOMAIN conn.handed, NEW j \in DOMAIN conn.handed,
               i < j, conn.handed[i] = Empty
        PROVE  conn.handed[j] = Empty
    <3>1. /\ DOMAIN conn.handed = 1 .. conn.tid /\ conn.tid \in Nat
          /\ \A k \in 1 .. conn.tid : \E n \in 0 .. LastBit : ServedFor(k, n)
      BY <1>1, <2>2, MaxThreadsAssumption DEF BatchInv, TypeOK, Conn
    <3>2. i \in Nat \ {0} /\ j \in Nat \ {0}
      BY <3>1, <2>2
    <3>3. PICK n \in 0 .. LastBit : ServedFor(i, n)
      BY <3>1, <2>2
    <3>4. PICK m \in 0 .. LastBit : ServedFor(j, m)
      BY <3>1, <2>2
    <3>5. n \in Int /\ m \in Int
      BY NumTasksAssumption, MaxThreadsAssumption DEF LastBit
    <3>6. n < m
      BY <1>1, <2>2, <3>2, <3>3, <3>4, <3>5, MissedDistinct
    <3>7. n >= NumTasks
      BY <2>2, <3>3, <3>5, NumTasksAssumption DEF ServedFor, Reply, Empty
    <3>8. m >= NumTasks
      BY <3>5, <3>6, <3>7, NumTasksAssumption
    <3> QED
      BY <3>4, <3>8 DEF ServedFor, Reply
  <2> QED
    BY <2>1, <2>2 DEF EmptyComesLast
<1> QED
  BY <1>1, ResidueTypeCorrect, BatchInvCorrect, PTL

\* A `req' batch of any size hands out the lowest incomplete tasks, one to
\* each thread, and is empty for a thread only when there are no more.
THEOREM ResidueBatchCorrect == Spec => []MissedBatchIsLowest
<1>1. ASSUME TypeOK, PointersExact, BatchInv, conn.kind = "req"
      PROVE  MissedBatchIsLowest
  <2> DEFINE h == conn.handed
             handed == {h[i] : i \in DOMAIN h} \ {Empty}
  <2>1. /\ DOMAIN h = 1 .. conn.tid /\ conn.tid \in Nat
        /\ \A k \in 1 .. conn.tid : \E n \in 0 .. LastBit : ServedFor(k, n)
        /\ \A k \in DOMAIN h : k \in Nat \ {0}
    BY <1>1, MaxThreadsAssumption DEF BatchInv, TypeOK, Conn
  <2>2. LastBit \in Nat /\ NumTasks \in Nat
    BY NumTasksAssumption, MaxThreadsAssumption DEF LastBit
  <2>3. li \in 0 .. NumTasks /\ \A m \in 0 .. li - 1 : m \in complete
    <3>1. 0 \in 0 .. NumTasks /\ up
      BY <1>1, NumTasksAssumption DEF BatchInv, NoConn
    <3> QED
      BY <1>1, <3>1, ScanSpec DEF IsEnd, PointersExact
  <2>4. \A k \in 1 .. conn.tid, n \in 0 .. LastBit :
          ServedFor(k, n) => IF n >= NumTasks THEN h[k] = Empty
                             ELSE h[k] = n /\ h[k] # Empty /\ n \notin complete
    BY <2>2 DEF ServedFor, Reply, Empty, IsMissed
  <2>5. handed \cap complete = {}
    <3>1. SUFFICES ASSUME NEW k \in 1 .. conn.tid, h[k] # Empty PROVE h[k] \notin complete
      BY <2>1
    <3>2. PICK n \in 0 .. LastBit : ServedFor(k, n)
      BY <2>1
    <3> QED
      BY <2>4, <3>1, <3>2
  <2>6. ASSUME NEW n \in Task \ complete, n \notin handed, NEW i \in 1 .. conn.tid
        PROVE  h[i] < n /\ h[i] # Empty
    <3> DEFINE t == Cardinality(Passed(n))
    <3>1. n \in Int /\ n >= li /\ t \in Nat /\ n < NumTasks
      <4>1. n \in Int /\ n >= 0 /\ n < NumTasks
        BY <2>2, <2>6 DEF Task
      <4>2. n >= li
        BY <2>2, <2>3, <2>6, <4>1
      <4> QED
        BY <1>1, <4>1, <4>2, PassedCount
    <3>2. IsMissed(n, t)
      BY <2>6, <3>1 DEF IsMissed, Passed
    <3> HIDE DEF t
    <3>3. PICK m \in 0 .. LastBit : ServedFor(i, m)
      BY <2>1
    <3>4. m \in Int /\ IsMissed(m, i - 1) /\ i - 1 \in Int /\ i \in Nat \ {0}
      BY <2>1, <2>2, <3>3 DEF ServedFor
    <3>5. \A k \in 1 .. conn.tid : h[k] # n
      BY <2>1, <2>6, <3>1, <2>2 DEF Empty
    <3>6. m # n
      BY <2>2, <2>4, <3>1, <3>3, <3>5
    <3>7. ~ (n < m)
      <4>1. SUFFICES ASSUME n < m PROVE FALSE
        OBVIOUS
      <4>2. t < i - 1
        BY <1>1, <3>1, <3>2, <3>4, <4>1, MissedInOrder
      <4>3. t + 1 \in 1 .. conn.tid /\ (t + 1) - 1 = t
        BY <2>1, <3>1, <3>4, <4>2
      <4>4. PICK e \in 0 .. LastBit : ServedFor(t + 1, e)
        BY <2>1, <4>3
      <4>5. e \in Int /\ IsMissed(e, t)
        BY <2>2, <4>3, <4>4 DEF ServedFor
      <4>6. ~ (e < n) /\ ~ (n < e)
        <5>1. t \in Int /\ ~ (t < t)
          BY <3>1
        <5> QED
          BY <1>1, <3>1, <3>2, <4>5, <5>1, MissedInOrder
      <4>7. e = n
        BY <3>1, <4>5, <4>6
      <4> QED
        BY <2>2, <2>4, <3>1, <3>5, <4>3, <4>4, <4>7
    <3>8. m < n
      BY <3>1, <3>4, <3>6, <3>7
    <3>9. m < NumTasks
      BY <2>2, <3>1, <3>4, <3>8
    <3> QED
      BY <2>2, <2>4, <3>3, <3>4, <3>8, <3>9
  <2>7. ASSUME NEW i \in DOMAIN h, NEW j \in DOMAIN h, i < j
        PROVE  h[i] # h[j] \/ h[i] = Empty
    <3>1. PICK n \in 0 .. LastBit : ServedFor(i, n)
      BY <2>1
    <3>2. PICK m \in 0 .. LastBit : ServedFor(j, m)
      BY <2>1
    <3>3. n < m /\ n \in Int /\ m \in Int
      BY <1>1, <2>1, <2>2, <2>7, <3>1, <3>2, MissedDistinct
    <3> QED
      BY <2>1, <2>2, <2>4, <3>1, <3>2, <3>3 DEF Empty
  <2>8. ASSUME NEW i \in DOMAIN h, NEW j \in DOMAIN h, i # j
        PROVE  h[i] # h[j] \/ h[i] = Empty
    <3>1. i < j \/ j < i
      BY <2>1, <2>8
    <3> QED
      BY <2>7, <2>8, <3>1
  <2>9. ASSUME NEW n \in Task \ complete, n \notin handed
        PROVE  /\ \A m \in handed : m < n
               /\ \A i \in DOMAIN h : h[i] # Empty
    BY <2>1, <2>6, <2>9
  <2> QED
    BY <2>5, <2>8, <2>9 DEF MissedBatchIsLowest
<1>2. TypeOK /\ PointersExact /\ BatchInv => MissedBatchIsLowest
  BY <1>1 DEF MissedBatchIsLowest
<1> QED
  BY <1>2, ResidueTypeCorrect, ResiduePointersCorrect, BatchInvCorrect, PTL

-----------------------------------------------------------------------------
(* The invariant of the line. *)

\* The connections: the one being served, and those that wait behind it.
Places == 0 .. Len(queue)
At(i) == IF i = 0 THEN cur ELSE queue[i]

\* What the server may rely on of a connection, although it never checks:
\* who waits, does so for the answer to its own request.
LinkOK(k) ==
  /\ k \in Link \cup {NoLink}
  /\ Len(k.msgs) <= k.size
  /\ k.cl # nobody =>
       /\ k.cl \in Client /\ phase[k.cl] = "asking"
       /\ k.kind \in RequestKind /\ k.kind = mode[k.cl] /\ k.size = Threads[k.cl]

\* And of every message: a request names no task, a result is that of its task.
MsgOK(k, m) ==
  /\ k.kind \in RequestKind => m.task = Empty
  /\ k.kind = "RET" => m.task \in computed /\ m.result = Truth[m.task]

LinkGood(k) == LinkOK(k) /\ \A j \in 1 .. Len(k.msgs) : MsgOK(k, k.msgs[j])

\* A client waits for one answer at a time.
OneAnswer ==
  \A i, j \in Places : i # j /\ At(i).cl # nobody => At(j).cl # At(i).cl

\* The server's view of the connection and the client's belong together.
ConnOK ==
  /\ ~up => queue = <<>> /\ conn = NoConn
  /\ conn = NoConn => cur = NoLink
  /\ conn # NoConn => /\ cur \in Link
                      /\ conn.kind = cur.kind /\ conn.size = cur.size
                      /\ conn.tid <= conn.size
  /\ conn.kind \in RequestKind => Len(conn.handed) = conn.tid
  /\ conn.kind \notin RequestKind => conn.handed = <<>>

\* What a client is about to return it has computed.
ReturnsComputed ==
  \A p \in Client : phase[p] = "returning" =>
    \A t \in 1 .. Threads[p] : work[p][t] # Empty => work[p][t] \in computed

LineInv ==
  /\ SysTypeOK /\ PointersExact
  /\ work = [p \in Client |-> work[p]]
  /\ ConnOK
  /\ \A i \in Places : LinkGood(At(i))
  /\ OneAnswer
  /\ ReturnsComputed
  /\ RecordedWasComputed

-----------------------------------------------------------------------------
(* The server is used as module ResidueServer allows. *)

\* The kinds are different.
LEMMA Kinds ==
  /\ RequestKind \cap ReportKind = {} /\ NoLink.kind \notin RequestKind \cup ReportKind
  /\ NoLink.msgs = <<>> /\ NoLink.cl = nobody /\ NoConn.kind \notin RequestKind \cup ReportKind
  /\ NoConn.tid = 0 /\ NoConn.size = 0 /\ NoConn.handed = <<>> /\ NoConn \in Conn
  BY MaxThreadsAssumption DEF RequestKind, ReportKind, NoLink, NoConn, Conn

\* A message names a task or none.
LEMMA Numbers ==
  /\ NumTasks \in Nat /\ Task \cup {Empty} = 0 .. NumTasks /\ Empty \notin Task
  /\ \A n \in Task : Truth[n] \in Result /\ Truth[n].sum # 0
  BY NumTasksAssumption, ResidueSystemAssumption DEF Task, Empty

\* What the server reads next comes from a client, and a result among it
\* was computed.
LEMMA NextMsgFacts ==
  ASSUME LineInv, conn.tid < Len(cur.msgs)
  PROVE  /\ up /\ conn # NoConn /\ cur \in Link /\ conn.kind = cur.kind
         /\ conn.kind \in RequestKind \cup ReportKind
         /\ conn.tid + 1 \in 1 .. Len(cur.msgs) /\ Len(cur.msgs) <= conn.size
         /\ NextMsg \in Message /\ NextMsg.task \in 0 .. NumTasks
         /\ MsgOK(cur, NextMsg)
         /\ conn.kind = "RET" => /\ NextMsg.task \in computed /\ NextMsg.task \in Task
                                 /\ NextMsg.result = Truth[NextMsg.task]
                                 /\ NextMsg.result \in Result
<1>1. conn # NoConn
  <2>1. SUFFICES ASSUME conn = NoConn PROVE FALSE
    OBVIOUS
  <2>2. cur = NoLink
    BY <2>1 DEF LineInv, ConnOK
  <2> QED
    BY <2>1, <2>2, Kinds
<1>2. up /\ cur \in Link /\ conn.kind = cur.kind /\ conn.size = cur.size /\ conn \in Conn
  BY <1>1 DEF LineInv, ConnOK, SysTypeOK, TypeOK
<1>3. conn.kind \in RequestKind \cup ReportKind /\ cur.msgs \in Seq(Message) /\ conn.tid \in Nat
  BY <1>2, MaxThreadsAssumption DEF Link, Conn
<1>4. conn.tid + 1 \in 1 .. Len(cur.msgs)
  BY <1>3
<1>5. NextMsg \in Message
  BY <1>3, <1>4 DEF NextMsg
<1>6. MsgOK(cur, NextMsg) /\ Len(cur.msgs) <= cur.size
  <2>1. 0 \in Places /\ At(0) = cur
    BY DEF Places, At, LineInv, SysTypeOK
  <2> QED
    BY <1>4, <2>1 DEF LineInv, LinkGood, LinkOK, NextMsg
<1>7. NextMsg.task \in 0 .. NumTasks
  BY <1>5, Numbers DEF Message
<1>8. conn.kind = "RET" => NextMsg.task \in computed /\ NextMsg.result = Truth[NextMsg.task]
  BY <1>2, <1>6 DEF MsgOK
<1>9. computed \subseteq Task
  BY DEF LineInv, SysTypeOK
<1> QED
  BY <1>1, <1>2, <1>3, <1>4, <1>5, <1>6, <1>7, <1>8, <1>9, Numbers

\* Every step of the system is a step of the server or leaves it alone.
LEMMA ServerAction ==
  ASSUME LineInv, [SysNext]_sysVars
  PROVE  [Next]_vars
<1>1. ASSUME AcceptNext
      PROVE  Next
  <2>1. queue \in Seq(Link) /\ queue # <<>>
    BY <1>1 DEF AcceptNext, LineInv, SysTypeOK
  <2>2. Head(queue) \in Link
    BY <2>1
  <2>3. Head(queue).kind \in RequestKind \cup ReportKind /\ Head(queue).size \in 1 .. MaxThreads
    BY <2>2 DEF Link
  <2>4. Loop
    BY <1>1, <2>3 DEF AcceptNext, Loop
  <2> QED
    BY <2>4 DEF Next
<1>2. ASSUME Serve
      PROVE  Next
  <2> DEFINE m == NextMsg
  <2>1. m.task \in 0 .. NumTasks /\ (conn.kind = "RET" => m.result \in Result)
    BY <1>2, NextMsgFacts DEF Serve
  <2>2. Handled(m)
    BY <1>2 DEF Serve
  <2> HIDE DEF m
  <2>3. ASSUME RequestServed \/ \E n \in 0 .. LastBit : MissedServed(n)
        PROVE  Request
    BY <2>3 DEF Request
  <2>4. ASSUME InterruptRefused(m.task) \/ InterruptAccepted(m.task)
        PROVE  Report
    BY <2>1, <2>4 DEF Report
  <2>5. ASSUME \/ ReturnRefused(m.task, m.result) \/ ReturnUnassigned(m.task, m.result)
               \/ ReturnAccepted(m.task, m.result)
        PROVE  Report
    <3>1. conn.kind = "RET"
      BY <2>5 DEF ReturnRefused, ReturnUnassigned, ReturnAccepted, Serving
    <3> QED
      BY <2>1, <2>5, <3>1 DEF Report
  <2> QED
    BY <2>2, <2>3, <2>4, <2>5 DEF Handled, Next
<1>3. ASSUME EndOfBatch \/ ConnectionFails \/ CloseAndDeliver
      PROVE  Next
  BY <1>3 DEF EndOfBatch, ConnectionFails, CloseAndDeliver, Loop, Next
<1>4. ASSUME ReplyFails
      PROVE  Next
  BY <1>4 DEF ReplyFails, Request, Next
<1>5. ASSUME ServerDies
      PROVE  Next
  <2> DEFINE m == NextMsg
  <2>1. ASSUME conn.tid < Len(cur.msgs), \E s \in BOOLEAN : DieInReturn(m.task, m.result, s)
        PROVE  Report
    <3>1. m.task \in 0 .. NumTasks /\ (conn.kind = "RET" => m.result \in Result)
      BY <2>1, NextMsgFacts
    <3> HIDE DEF m
    <3>2. conn.kind = "RET"
      BY <2>1 DEF DieInReturn, Serving
    <3> QED
      BY <2>1, <3>1, <3>2 DEF Report
  <2>2. Die => Loop
    BY DEF Loop
  <2> QED
    BY <1>5, <2>1, <2>2 DEF ServerDies, Next
<1>6. ASSUME ServerStarts
      PROVE  Next
  BY <1>6 DEF ServerStarts, Loop, Next
<1>7. ASSUME NEW p \in Client, ClientStep(p)
      PROVE  UNCHANGED vars
  BY <1>7 DEF ClientStep, Ask, AskFails, RunSucceeds, RunFails, ReportSent, ReportFails,
              ClientStops, ClientStarts
<1>8. UNCHANGED sysVars => UNCHANGED vars
  BY DEF sysVars
<1> QED
  BY <1>1, <1>2, <1>3, <1>4, <1>5, <1>6, <1>7, <1>8 DEF SysNext, ServerStep

-----------------------------------------------------------------------------
(* How the line of connections moves. *)

\* The places of the line.
LEMMA LineFacts ==
  ASSUME LineInv
  PROVE  /\ queue \in Seq(Link) /\ Len(queue) \in Nat
         /\ Places \subseteq Nat /\ 0 \in Places /\ At(0) = cur
         /\ \A i \in Places : At(i) \in Link \cup {NoLink}
         /\ \A i \in Places : i # 0 => i \in 1 .. Len(queue) /\ At(i) = queue[i] /\ At(i) \in Link
  BY DEF LineInv, SysTypeOK, Places, At

\* How each of the server's steps moves it: one connection on, or not at all.
LEMMA ServerMoves ==
  ASSUME LineInv, ServerStep
  PROVE  /\ queue' \in Seq(Link) /\ Len(queue') <= MaxQueue /\ cur' \in Link \cup {NoLink}
         /\ AcceptNext => /\ cur' \in Link
                          /\ \A i \in Places' : i + 1 \in Places /\ At(i)' = At(i + 1)
                          /\ \A i \in Places : i # 0 => i - 1 \in Places'
         /\ ~ AcceptNext =>
              /\ queue' \in {queue, <<>>} /\ cur' \in {cur, NoLink}
              /\ \A i \in Places' : At(i)' = NoLink \/ (i \in Places /\ At(i)' = At(i))
         /\ \E s \in {0, 1} : \A i \in Places' :
              At(i)' = NoLink \/ (i + s \in Places /\ At(i)' = At(i + s))
<1>1. /\ queue \in Seq(Link) /\ Len(queue) \in Nat /\ Len(queue) <= MaxQueue
      /\ cur \in Link \cup {NoLink} /\ Places \subseteq Nat
  BY DEF LineInv, SysTypeOK, Places
<1>2. ASSUME AcceptNext
      PROVE  /\ queue' \in Seq(Link) /\ Len(queue') <= MaxQueue /\ cur' \in Link
             /\ \A i \in Places' : i + 1 \in Places /\ At(i)' = At(i + 1)
             /\ \A i \in Places : i # 0 => i - 1 \in Places'
  <2>1. queue # <<>> /\ cur' = Head(queue) /\ queue' = Tail(queue)
    BY <1>2 DEF AcceptNext
  <2>2. /\ Head(queue) = queue[1] /\ Head(queue) \in Link
        /\ Tail(queue) \in Seq(Link) /\ Len(Tail(queue)) = Len(queue) - 1
        /\ \A i \in 1 .. Len(queue) - 1 : Tail(queue)[i] = queue[i + 1]
    BY <1>1, <2>1
  <2>3. ASSUME NEW i \in Places'
        PROVE  i + 1 \in Places /\ At(i)' = At(i + 1)
    <3>1. i \in 0 .. Len(queue) - 1
      BY <2>1, <2>2 DEF Places
    <3> QED
      BY <1>1, <2>1, <2>2, <3>1 DEF Places, At
  <2>4. Len(queue) - 1 <= MaxQueue
    BY <1>1, ResidueSystemAssumption
  <2>5. \A i \in Places : i # 0 => i - 1 \in Places'
    BY <1>1, <2>1, <2>2 DEF Places
  <2> QED
    BY <2>1, <2>2, <2>3, <2>4, <2>5
<1>3. ASSUME queue' \in {queue, <<>>}, cur' \in {cur, NoLink}
      PROVE  /\ queue' \in Seq(Link) /\ Len(queue') <= MaxQueue /\ cur' \in Link \cup {NoLink}
             /\ \A i \in Places' : At(i)' = NoLink \/ (i \in Places /\ At(i)' = At(i))
  <2>1. queue' \in Seq(Link) /\ Len(queue') <= MaxQueue
    <3>1. <<>> \in Seq(Link) /\ Len(<<>>) = 0 /\ 0 <= MaxQueue
      BY ResidueSystemAssumption
    <3> QED
      BY <1>1, <1>3, <3>1
  <2>2. ASSUME NEW i \in Places'
        PROVE  At(i)' = NoLink \/ (i \in Places /\ At(i)' = At(i))
    <3>1. i \in 0 .. Len(queue') /\ Len(queue') <= Len(queue)
      BY <1>1, <1>3 DEF Places
    <3>2. CASE i = 0
      BY <1>1, <1>3, <3>2 DEF Places, At
    <3>3. CASE i # 0
      BY <1>1, <1>3, <3>1, <3>3 DEF Places, At
    <3> QED
      BY <3>2, <3>3
  <2> QED
    BY <1>1, <1>3, <2>1, <2>2
<1>4. ASSUME ~ AcceptNext
      PROVE  queue' \in {queue, <<>>} /\ cur' \in {cur, NoLink}
  BY <1>4 DEF ServerStep, Serve, ReplyFails, EndOfBatch, Notify, ConnectionFails,
              CloseAndDeliver, ServerDies, ServerStarts
<1>5. CASE AcceptNext
  BY <1>2, <1>5
<1>6. CASE ~ AcceptNext
  <2>1. \A i \in Places' : At(i)' = NoLink \/ (i + 0 \in Places /\ At(i)' = At(i + 0))
    <3>1. \A i \in Places : i + 0 = i
      BY <1>1
    <3> QED
      BY <1>3, <1>4, <1>6, <3>1
  <2> QED
    BY <1>3, <1>4, <1>6, <2>1
<1> QED
  BY <1>5, <1>6

\* They do not leave a client behind that waits for nothing, or the other
\* way round, and do not touch what the clients computed.
LEMMA ServerWaiters ==
  ASSUME LineInv, ServerStep
  PROVE  /\ UNCHANGED <<mode, computed>>
         /\ phase' \in [Client -> Phase]
         /\ \A i \in Places' : At(i)'.cl # nobody => phase'[At(i)'.cl] = "asking"
         /\ \A p \in Client : phase'[p] # phase[p] =>
              /\ phase[p] = "asking" /\ phase'[p] \in {"idle", "running"}
              /\ \A i \in Places' : At(i)'.cl # p
<1>1. UNCHANGED <<mode, computed>>
  BY DEF ServerStep, AcceptNext, Serve, ReplyFails, EndOfBatch, ConnectionFails,
         CloseAndDeliver, ServerDies, ServerStarts
<1>2. phase \in [Client -> Phase] /\ nobody \notin Client /\ "idle" \in Phase /\ "running" \in Phase
  BY ResidueSystemAssumption DEF LineInv, SysTypeOK, Phase
<1>3. \A i \in Places : At(i).cl # nobody => At(i).cl \in Client /\ phase[At(i).cl] = "asking"
  BY DEF LineInv, LinkGood, LinkOK
<1>4. PICK s \in {0, 1} : \A i \in Places' :
        At(i)' = NoLink \/ (i + s \in Places /\ At(i)' = At(i + s))
  BY ServerMoves
<1>5. CASE UNCHANGED phase
  BY <1>1, <1>2, <1>3, <1>4, <1>5, Kinds
<1>6. CASE /\ cur' = NoLink /\ queue' = queue
           /\ \E w \in {"idle", "running"} :
                phase' = [p \in Client |-> IF p = cur.cl THEN w ELSE phase[p]]
  <2>1. PICK w \in {"idle", "running"} :
          phase' = [p \in Client |-> IF p = cur.cl THEN w ELSE phase[p]]
    BY <1>6
  <2>2. ASSUME NEW i \in Places'
        PROVE  At(i)'.cl # nobody =>
                 At(i)'.cl # cur.cl /\ At(i)'.cl \in Client /\ phase[At(i)'.cl] = "asking"
    <3>1. CASE i = 0
      BY <1>6, <3>1, Kinds DEF At
    <3>2. CASE i # 0
      <4>1. At(i)' = At(i) /\ i \in Places
        BY <1>6, <3>2 DEF At, Places
      <4>2. At(i).cl # nobody => At(i).cl # At(0).cl
        BY <3>2, <4>1, LineFacts DEF LineInv, OneAnswer
      <4> QED
        BY <1>3, <4>1, <4>2, LineFacts
    <3> QED
      BY <3>1, <3>2
  <2>3. phase[cur.cl] = "asking" \/ cur.cl \notin Client
    BY <1>3, <1>2, LineFacts
  <2>4. \A i \in Places' : At(i)'.cl \in Client => At(i)'.cl # cur.cl
    BY <1>2, <2>2
  <2> QED
    BY <1>1, <1>2, <2>1, <2>2, <2>3, <2>4
<1>7. CASE ServerDies
  <2>1. /\ queue' = <<>> /\ cur' = NoLink
        /\ phase' = [p \in Client |-> IF phase[p] = "asking" THEN "idle" ELSE phase[p]]
    BY <1>7 DEF ServerDies
  <2>2. \A i \in Places' : At(i)' = NoLink
    BY <2>1 DEF Places, At
  <2> QED
    BY <1>1, <1>2, <2>1, <2>2, Kinds
<1>8. ASSUME ServerStep, ~ UNCHANGED phase, ~ ServerDies
      PROVE  /\ cur' = NoLink /\ queue' = queue
             /\ \E w \in {"idle", "running"} :
                  phase' = [p \in Client |-> IF p = cur.cl THEN w ELSE phase[p]]
  <2>1. ASSUME Notify, ~ UNCHANGED phase
        PROVE  cur' = NoLink /\ \E w \in {"idle", "running"} :
                 phase' = [p \in Client |-> IF p = cur.cl THEN w ELSE phase[p]]
    BY <2>1 DEF Notify
  <2>2. ASSUME CloseAndDeliver
        PROVE  cur' = NoLink /\ \E w \in {"idle", "running"} :
                 phase' = [p \in Client |-> IF p = cur.cl THEN w ELSE phase[p]]
    BY <1>2, <1>8, <2>2 DEF CloseAndDeliver
  <2>3. AcceptNext \/ ServerStarts => UNCHANGED phase
    BY DEF AcceptNext, ServerStarts
  <2>4. Serve \/ ReplyFails \/ EndOfBatch \/ ConnectionFails \/ CloseAndDeliver
    BY <1>8, <2>3 DEF ServerStep
  <2>5. queue' = queue
    BY <2>4 DEF Serve, ReplyFails, EndOfBatch, ConnectionFails, CloseAndDeliver
  <2> QED
    BY <1>8, <2>1, <2>2, <2>4, <2>5 DEF Serve, ReplyFails, EndOfBatch, ConnectionFails
<1> QED
  BY <1>5, <1>6, <1>7, <1>8

\* What becomes of a connection when p gives up: unless it is p's it stays,
\* and else nobody waits and some of its messages are missing at the end.
LEMMA OrphanFacts ==
  ASSUME NEW k \in Link \cup {NoLink}, NEW sent \in Nat, NEW p \in Client
  PROVE  LET o == Orphan(k, sent, p)
         IN  /\ o \in Link \cup {NoLink} /\ (k \in Link => o \in Link) /\ (k = NoLink => o = NoLink)
             /\ o.kind = k.kind /\ o.size = k.size
             /\ o.cl # p /\ (o.cl # nobody => o = k)
             /\ Len(o.msgs) \in Nat /\ Len(o.msgs) <= Len(k.msgs)
             /\ Len(o.msgs) = Len(k.msgs) \/ Len(o.msgs) = sent
             /\ \A u \in 1 .. Len(o.msgs) : u \in 1 .. Len(k.msgs) /\ o.msgs[u] = k.msgs[u]
<1> DEFINE o == Orphan(k, sent, p)
<1>1. nobody # p /\ (k.cl = p => k \in Link)
  BY ResidueSystemAssumption DEF NoLink
<1>2. CASE k.cl # p
  <2>1. o = k /\ Len(k.msgs) \in Nat
    BY <1>2, Kinds DEF Orphan, Link
  <2> QED
    BY <1>1, <1>2, <2>1
<1>3. CASE k.cl = p
  <2> DEFINE cut == IF k.kind = "MRQ" \/ Len(k.msgs) < sent THEN k.msgs
                    ELSE SubSeq(k.msgs, 1, sent)
  <2>1. o = [k EXCEPT !.cl = nobody, !.msgs = cut] /\ k \in Link /\ k.msgs \in Seq(Message)
    BY <1>1, <1>3 DEF Orphan, Link
  <2>2. /\ cut \in Seq(Message) /\ Len(cut) <= Len(k.msgs)
        /\ Len(cut) = Len(k.msgs) \/ Len(cut) = sent
        /\ \A u \in 1 .. Len(cut) : cut[u] = k.msgs[u]
    <3>1. CASE k.kind = "MRQ" \/ Len(k.msgs) < sent
      BY <2>1, <3>1
    <3>2. CASE ~ (k.kind = "MRQ" \/ Len(k.msgs) < sent)
      <4>1. cut = SubSeq(k.msgs, 1, sent) /\ sent <= Len(k.msgs)
        BY <2>1, <3>2
      <4>2. /\ SubSeq(k.msgs, 1, sent) \in Seq(Message) /\ Len(SubSeq(k.msgs, 1, sent)) = sent
            /\ \A u \in 1 .. sent : SubSeq(k.msgs, 1, sent)[u] = k.msgs[u]
        BY <2>1, <4>1
      <4> QED
        BY <4>1, <4>2
    <3> QED
      BY <3>1, <3>2
  <2> HIDE DEF cut
  <2>3. o \in Link /\ o.cl = nobody /\ o.kind = k.kind /\ o.size = k.size /\ o.msgs = cut
    BY <2>1, <2>2 DEF Link
  <2>4. Len(cut) \in Nat /\ Len(k.msgs) \in Nat /\ k # NoLink
    BY <1>1, <1>3, <2>1, <2>2, Kinds
  <2> QED
    BY <1>1, <2>1, <2>2, <2>3, <2>4
<1> QED
  BY <1>2, <1>3

\* When p gives up, every place of the line stays, with or without p.
LEMMA ForsakeMoves ==
  ASSUME LineInv, NEW p \in Client, Forsake(p)
  PROVE  /\ queue' \in Seq(Link) /\ Len(queue') = Len(queue) /\ Places' = Places
         /\ cur' \in Link \cup {NoLink} /\ cur'.kind = cur.kind /\ cur'.size = cur.size
         /\ (cur = NoLink => cur' = NoLink) /\ (cur \in Link => cur' \in Link)
         /\ \A i \in Places : \E s \in Nat : At(i)' = Orphan(At(i), s, p)
<1>1. /\ queue \in Seq(Link) /\ Len(queue) \in Nat /\ DOMAIN queue = 1 .. Len(queue)
      /\ \A i \in 1 .. Len(queue) : queue[i] \in Link
      /\ cur \in Link \cup {NoLink}
  BY DEF LineInv, SysTypeOK
<1>2. conn.tid + 1 \in Nat /\ 1 \in Nat
  BY DEF LineInv, SysTypeOK, TypeOK, Conn
<1>3. /\ queue' = [i \in 1 .. Len(queue) |-> Orphan(queue[i], 1, p)]
      /\ cur' = Orphan(cur, conn.tid + 1, p)
  BY <1>1 DEF Forsake
<1>4. queue' \in Seq(Link) /\ Len(queue') = Len(queue)
  <2>1. \A i \in 1 .. Len(queue) : Orphan(queue[i], 1, p) \in Link
    BY <1>1, OrphanFacts
  <2> QED
    BY <1>1, <1>3, <2>1
<1>5. ASSUME NEW i \in Places
      PROVE  \E s \in Nat : At(i)' = Orphan(At(i), s, p)
  BY <1>1, <1>2, <1>3 DEF At, Places
<1>6. Places' = Places
  BY <1>4 DEF Places
<1> QED
  BY <1>1, <1>2, <1>3, <1>4, <1>5, <1>6, OrphanFacts

\* A new connection waits behind all others.
LEMMA ConnectMoves ==
  ASSUME LineInv, NEW k \in Link, Connect(k), UNCHANGED cur
  PROVE  /\ queue' \in Seq(Link) /\ Len(queue') <= MaxQueue
         /\ Places' = Places \cup {Len(queue) + 1}
         /\ \A i \in Places : At(i)' = At(i) /\ i < Len(queue) + 1
         /\ \A i \in Places' : i \notin Places => i = Len(queue) + 1 /\ At(i)' = k
<1>1. queue \in Seq(Link) /\ Len(queue) \in Nat /\ Len(queue) < MaxQueue /\ MaxQueue \in Nat
  BY ResidueSystemAssumption DEF LineInv, SysTypeOK, Connect
<1>2. /\ queue' = Append(queue, k) /\ Len(queue') = Len(queue) + 1
      /\ queue' \in Seq(Link)
      /\ \A i \in 1 .. Len(queue) : queue'[i] = queue[i]
      /\ queue'[Len(queue) + 1] = k
  BY <1>1 DEF Connect
<1>3. Places' = Places \cup {Len(queue) + 1}
  BY <1>1, <1>2 DEF Places
<1>4. \A i \in Places : At(i)' = At(i) /\ i < Len(queue) + 1
  BY <1>1, <1>2 DEF Places, At
<1>5. \A i \in Places' : i \notin Places => i = Len(queue) + 1 /\ At(i)' = k
  BY <1>1, <1>2, <1>3 DEF At
<1> QED
  BY <1>1, <1>2, <1>3, <1>4, <1>5

-----------------------------------------------------------------------------
(* The line stays good. *)

\* A connection stays good while its client waits.
LEMMA LinkKeeps ==
  ASSUME NEW k, LinkGood(k), computed \subseteq computed', UNCHANGED mode,
         k.cl # nobody => phase'[k.cl] = "asking"
  PROVE  LinkGood(k)'
<1>1. LinkOK(k)'
  BY DEF LinkGood, LinkOK
<1>2. \A j \in 1 .. Len(k.msgs) : MsgOK(k, k.msgs[j])'
  BY DEF LinkGood, MsgOK
<1> QED
  BY <1>1, <1>2 DEF LinkGood

\* What is left of it when the client gave up is good as well.
LEMMA OrphanKeeps ==
  ASSUME NEW k \in Link \cup {NoLink}, LinkGood(k), NEW sent \in Nat, NEW p \in Client
  PROVE  LinkGood(Orphan(k, sent, p))
<1> DEFINE o == Orphan(k, sent, p)
<1>1. /\ o \in Link \cup {NoLink} /\ o.kind = k.kind /\ (o.cl # nobody => o = k)
      /\ o.size = k.size /\ Len(o.msgs) \in Nat /\ Len(o.msgs) <= Len(k.msgs)
      /\ \A u \in 1 .. Len(o.msgs) : u \in 1 .. Len(k.msgs) /\ o.msgs[u] = k.msgs[u]
  BY OrphanFacts
<1> HIDE DEF o
<1>2. LinkOK(o)
  <2>1. Len(k.msgs) \in Int /\ k.size \in Int /\ Len(k.msgs) <= k.size
    BY Kinds, MaxThreadsAssumption DEF LinkGood, LinkOK, Link, NoLink
  <2>2. Len(o.msgs) <= o.size
    BY <1>1, <2>1
  <2> QED
    BY <1>1, <2>2 DEF LinkGood, LinkOK
<1>3. \A u \in 1 .. Len(o.msgs) : MsgOK(o, o.msgs[u])
  BY <1>1 DEF LinkGood, MsgOK
<1>4. LinkGood(o)
  BY <1>2, <1>3 DEF LinkGood
<1> QED
  BY <1>4 DEF o

\* A handler goes on with the batch, with one more reply if it is a request,
\* or gives it up.
LEMMA ServeConn ==
  ASSUME LineInv, Serve
  PROVE  /\ up /\ up'
         /\ \/ conn' = NoConn /\ cur' = NoLink
            \/ /\ cur' = cur /\ phase' = phase /\ conn.tid < conn.size
               /\ \E reply : /\ NextMessage(reply)
                             /\ conn.kind \in RequestKind => \E n \in 0 .. NumTasks : reply = <<n>>
                             /\ conn.kind \in ReportKind => reply = <<>>
<1> DEFINE m == NextMsg
           Goes(reply) == conn.tid < conn.size /\ NextMessage(reply)
<1>1. /\ up /\ conn # NoConn /\ conn \in Conn /\ conn.kind \in RequestKind \cup ReportKind
      /\ lu \in 0 .. NumTasks /\ NumTasks \in Nat
  BY NextMsgFacts, Numbers DEF Serve, LineInv, SysTypeOK, TypeOK
<1>2. Handled(m) /\ Notify
  BY DEF Serve
<1> HIDE DEF m
<1>3. \A n \in 0 .. LastBit : Reply(n) \in 0 .. NumTasks /\ Reply(lu) \in 0 .. NumTasks
  BY <1>1, MaxThreadsAssumption DEF Reply, LastBit, Empty
<1>4. ASSUME RequestServed \/ \E n \in 0 .. LastBit : MissedServed(n)
      PROVE  up' = up /\ conn.kind \in RequestKind /\ \E n \in 0 .. NumTasks : Goes(<<n>>)
  <2>1. 0 \in 0 .. LastBit
    BY <1>1, MaxThreadsAssumption DEF LastBit
  <2> QED
    BY <1>3, <1>4, <2>1 DEF RequestServed, MissedServed, Serving, RequestKind
<1>5. ASSUME \/ ReturnRefused(m.task, m.result) \/ ReturnUnassigned(m.task, m.result)
             \/ ReturnAccepted(m.task, m.result)
             \/ InterruptRefused(m.task) \/ InterruptAccepted(m.task)
      PROVE  up' = up /\ conn.kind \in ReportKind /\ (GiveUp \/ Goes(<<>>))
  BY <1>5 DEF ReturnRefused, ReturnUnassigned, ReturnAccepted, InterruptRefused,
              InterruptAccepted, Serving, ReportKind
<1>6. /\ up' = up
      /\ \/ GiveUp
         \/ \E reply : /\ Goes(reply)
                       /\ conn.kind \in RequestKind => \E n \in 0 .. NumTasks : reply = <<n>>
                       /\ conn.kind \in ReportKind => reply = <<>>
  <2> HIDE DEF Goes
  <2> QED
    BY <1>2, <1>4, <1>5, Kinds DEF Handled
<1>7. GiveUp => conn' = NoConn /\ cur' = NoLink
  BY <1>2 DEF GiveUp, Notify
<1>8. ASSUME NEW reply, NextMessage(reply)
      PROVE  cur' = cur /\ phase' = phase
  <2>1. conn'.kind = conn.kind
    BY <1>1, <1>8 DEF NextMessage, Conn
  <2>2. conn' # NoConn
    BY <1>1, <2>1, Kinds
  <2> QED
    BY <1>2, <2>2 DEF Notify
<1> QED
  BY <1>1, <1>6, <1>7, <1>8

\* The server's connection and the client's stay together.
LEMMA ServerConnOK ==
  ASSUME LineInv, ServerStep
  PROVE  ConnOK'
<1>1. /\ conn \in Conn /\ cur \in Link \cup {NoLink} /\ queue \in Seq(Link)
      /\ NoConn.kind \notin RequestKind /\ NoLink.kind \notin RequestKind
      /\ NoConn.handed = <<>>
  BY Kinds DEF LineInv, SysTypeOK, TypeOK
<1>2. ASSUME AcceptNext
      PROVE  ConnOK'
  <2>1. /\ up' = up /\ up /\ cur' = Head(queue) /\ Head(queue) \in Link
        /\ conn' = [kind |-> cur'.kind, size |-> cur'.size, tid |-> 0, handed |-> <<>>]
    BY <1>1, <1>2 DEF AcceptNext, Accept
  <2>2. cur'.size \in Nat /\ cur'.kind \in RequestKind \cup ReportKind /\ Len(<<>>) = 0
    BY <2>1 DEF Link
  <2> QED
    BY <2>1, <2>2, Kinds DEF ConnOK
<1>3. ASSUME Serve
      PROVE  ConnOK'
  <2>1. CASE conn' = NoConn /\ cur' = NoLink
    BY <1>1, <1>3, <2>1, ServeConn DEF ConnOK
  <2>2. CASE conn' # NoConn \/ cur' # NoLink
    <3>1. up' /\ cur' = cur /\ conn.tid < conn.size
      BY <1>3, <2>2, ServeConn
    <3>2. PICK reply : /\ NextMessage(reply)
                       /\ conn.kind \in RequestKind => \E n \in 0 .. NumTasks : reply = <<n>>
                       /\ conn.kind \in ReportKind => reply = <<>>
      BY <1>3, <2>2, ServeConn
    <3>3. /\ conn # NoConn /\ cur \in Link /\ conn.kind = cur.kind /\ conn.size = cur.size
          /\ conn.kind \in RequestKind \cup ReportKind
      BY <1>3, NextMsgFacts DEF Serve, LineInv, ConnOK
    <3>4. /\ conn'.kind = conn.kind /\ conn'.size = conn.size /\ conn'.tid = conn.tid + 1
          /\ conn'.handed = conn.handed \o reply
      BY <1>1, <3>2 DEF NextMessage, Conn
    <3>5. conn.tid \in Nat /\ conn.size \in Nat /\ conn.handed \in Seq(0 .. NumTasks)
      BY <1>1, MaxThreadsAssumption DEF Conn
    <3>6. ASSUME conn.kind \in RequestKind
          PROVE  Len(conn'.handed) = conn'.tid
      <4>1. PICK n \in 0 .. NumTasks : reply = <<n>>
        BY <3>2, <3>6
      <4>2. Len(conn.handed) = conn.tid
        BY <3>6 DEF LineInv, ConnOK
      <4> QED
        BY <3>4, <3>5, <4>1, <4>2, OneMore
    <3>7. ASSUME conn.kind \in ReportKind
          PROVE  conn'.handed = <<>>
      <4>1. reply = <<>> /\ conn.handed = <<>>
        BY <3>2, <3>7, Kinds DEF LineInv, ConnOK
      <4> QED
        BY <3>4, <4>1
    <3>8. conn'.tid <= conn'.size
      BY <3>1, <3>4, <3>5
    <3>9. conn' # NoConn /\ cur' \in Link /\ conn'.kind = cur'.kind /\ conn'.size = cur'.size
      BY <3>1, <3>3, <3>4, Kinds
    <3> QED
      BY <3>1, <3>3, <3>4, <3>6, <3>7, <3>8, <3>9 DEF ConnOK
  <2> QED
    BY <2>1, <2>2
<1>4. ASSUME ReplyFails \/ EndOfBatch \/ ConnectionFails \/ CloseAndDeliver
      PROVE  ConnOK'
  <2>1. up' /\ conn' = NoConn /\ cur' = NoLink
    BY <1>4 DEF ReplyFails, RequestFails, MissedFails, Serving, EndOfBatch, ConnectionFails,
                CloseAndDeliver, Abort, Close, GiveUp, Notify
  <2> QED
    BY <1>1, <2>1 DEF ConnOK
<1>5. ASSUME ServerDies
      PROVE  ConnOK'
  <2>1. conn' = NoConn /\ cur' = NoLink /\ queue' = <<>>
    BY <1>5 DEF ServerDies, Die, DieInReturn, ProcessEnds
  <2> QED
    BY <1>1, <2>1 DEF ConnOK
<1>6. ASSUME ServerStarts
      PROVE  ConnOK'
  <2>1. up' /\ UNCHANGED <<conn, queue, cur>>
    BY <1>6 DEF ServerStarts, Start
  <2> QED
    BY <2>1 DEF ConnOK, LineInv
<1> QED
  BY <1>2, <1>3, <1>4, <1>5, <1>6 DEF ServerStep

\* A client gets assignments only when all it asked for were handed out.
LEMMA ServerWork ==
  ASSUME LineInv, ServerStep
  PROVE  /\ work' = [p \in Client |-> work'[p]]
         /\ \A p \in Client : work'[p] = work[p] \/ phase'[p] = "running"
         /\ \A p \in Client : phase'[p] = "running" =>
              \/ phase[p] = "running" /\ work'[p] = work[p]
              \/ /\ CloseAndDeliver /\ p = cur.cl /\ conn.kind \in RequestKind
                 /\ conn.tid = Threads[p] /\ Len(conn.handed) = Threads[p]
                 /\ work'[p] = conn.handed /\ work'[p] \in [1 .. Threads[p] -> 0 .. NumTasks]
<1>1. work = [p \in Client |-> work[p]] /\ phase \in [Client -> Phase]
  BY DEF LineInv, SysTypeOK
<1>2. ASSUME CloseAndDeliver, cur.cl # nobody
      PROVE  /\ cur.cl \in Client /\ phase[cur.cl] = "asking" /\ conn.kind \in RequestKind
             /\ conn.tid = Threads[cur.cl] /\ Len(conn.handed) = Threads[cur.cl]
             /\ conn.handed \in [1 .. Threads[cur.cl] -> 0 .. NumTasks]
             /\ work' = [work EXCEPT ![cur.cl] = conn.handed]
             /\ phase' = [phase EXCEPT ![cur.cl] = "running"]
  <2>1. /\ cur.cl \in Client /\ phase[cur.cl] = "asking" /\ cur.kind \in RequestKind
        /\ cur.size = Threads[cur.cl]
    BY <1>2, LineFacts DEF LineInv, LinkGood, LinkOK
  <2>2. conn # NoConn /\ conn.tid = conn.size
    BY <1>2 DEF CloseAndDeliver, Close
  <2>3. conn.kind = cur.kind /\ conn.size = cur.size /\ Len(conn.handed) = conn.tid
    BY <2>1, <2>2 DEF LineInv, ConnOK
  <2>4. conn.handed \in Seq(0 .. NumTasks)
    BY DEF LineInv, SysTypeOK, TypeOK, Conn
  <2>5. conn.handed \in [1 .. Len(conn.handed) -> 0 .. NumTasks]
    <3>1. ASSUME NEW T, NEW h \in Seq(T)
          PROVE  h \in [1 .. Len(h) -> T]
      OBVIOUS
    <3> QED
      BY <2>4, <3>1
  <2> QED
    BY <1>2, <2>1, <2>2, <2>3, <2>5 DEF CloseAndDeliver
<1>3. ASSUME ~ (CloseAndDeliver /\ cur.cl # nobody)
      PROVE  work' = work /\ \A p \in Client : phase'[p] = phase[p] \/ phase'[p] # "running"
  <2>1. work' = work
    BY <1>3 DEF ServerStep, AcceptNext, Serve, ReplyFails, EndOfBatch, ConnectionFails,
                CloseAndDeliver, ServerDies, ServerStarts
  <2>2. Serve \/ ReplyFails \/ EndOfBatch \/ ConnectionFails =>
          \A p \in Client : phase'[p] = phase[p] \/ phase'[p] # "running"
    BY DEF Serve, ReplyFails, EndOfBatch, ConnectionFails, Notify
  <2>3. ServerDies => \A p \in Client : phase'[p] = phase[p] \/ phase'[p] # "running"
    BY DEF ServerDies
  <2>4. AcceptNext \/ ServerStarts \/ CloseAndDeliver => phase' = phase
    BY <1>3 DEF AcceptNext, ServerStarts, CloseAndDeliver
  <2> QED
    BY <2>1, <2>2, <2>3, <2>4 DEF ServerStep
<1>4. CASE CloseAndDeliver /\ cur.cl # nobody
  BY <1>1, <1>2, <1>4
<1>5. CASE ~ (CloseAndDeliver /\ cur.cl # nobody)
  BY <1>1, <1>3, <1>5
<1> QED
  BY <1>4, <1>5

\* A step that leaves the line as it is, but for connections taken out or
\* given up, keeps it good.
LEMMA ServerLine ==
  ASSUME LineInv, ServerStep
  PROVE  /\ \A i \in Places' : LinkGood(At(i))'
         /\ OneAnswer'
<1>1. PICK s \in {0, 1} : \A i \in Places' :
        At(i)' = NoLink \/ (i + s \in Places /\ At(i)' = At(i + s))
  BY ServerMoves
<1>2. Places' \subseteq Nat
  BY ServerMoves DEF Places
<1>3. UNCHANGED <<mode, computed>>
  BY ServerWaiters
<1>4. ASSUME NEW i \in Places'
      PROVE  LinkGood(At(i))'
  <2>1. At(i)'.cl # nobody => phase'[At(i)'.cl] = "asking"
    BY ServerWaiters
  <2>2. CASE At(i)' = NoLink
    <3>1. At(i)'.kind \notin RequestKind \cup ReportKind /\ At(i)'.cl = nobody /\ At(i)'.msgs = <<>>
      BY <2>2, Kinds
    <3>2. LinkOK(At(i))'
      <4>1. Len(<<>>) <= NoLink.size
        BY DEF NoLink
      <4> QED
        BY <2>2, <3>1, <4>1 DEF LinkOK
    <3>3. \A j \in 1 .. Len(At(i)'.msgs) : FALSE
      BY <3>1
    <3> QED
      BY <3>2, <3>3 DEF LinkGood
  <2>3. CASE i + s \in Places /\ At(i)' = At(i + s)
    <3>1. \E k : k = At(i + s)
      OBVIOUS
    <3>2. PICK k : k = At(i + s)
      BY <3>1
    <3>3. LinkGood(k)
      BY <2>3, <3>2 DEF LineInv
    <3>4. LinkGood(k)'
      BY <1>3, <2>1, <2>3, <3>2, <3>3, LinkKeeps
    <3>5. At(i)' = k
      BY <2>3, <3>2
    <3> QED
      BY <3>4, <3>5
  <2> QED
    BY <1>1, <2>2, <2>3
<1>5. OneAnswer'
  <2>1. SUFFICES ASSUME NEW i \in Places', NEW j \in Places', i # j, At(i)'.cl # nobody
                 PROVE  At(j)'.cl # At(i)'.cl
    BY DEF OneAnswer
  <2>2. i + s \in Places /\ At(i)' = At(i + s)
    BY <1>1, <2>1, Kinds
  <2>3. CASE At(j)' = NoLink
    BY <2>1, <2>3, Kinds
  <2>4. CASE j + s \in Places /\ At(j)' = At(j + s)
    <3>1. i + s # j + s
      BY <1>2, <2>1
    <3> QED
      BY <2>1, <2>2, <2>4, <3>1 DEF LineInv, OneAnswer
  <2> QED
    BY <1>1, <2>3, <2>4
<1> QED
  BY <1>4, <1>5

\* A result is stored where it belongs, or half of it when the server is
\* killed in the middle, and no other task becomes complete.
LEMMA StoredWasComputed ==
  ASSUME LineInv, NEW n \in Task, NEW r, n \in computed, r = Truth[n], UNCHANGED computed,
         complete' = complete \cup {n},
         record' \in {record, [record EXCEPT ![n] = r], [record EXCEPT ![n].sum = r.sum]}
  PROVE  RecordedWasComputed'
<1>1. record \in [Task -> Record] /\ r \in Record
  <2>1. Result \subseteq Record
    BY ResultAssumption
  <2> QED
    BY <2>1, Numbers DEF LineInv, SysTypeOK, TypeOK
<1>2. \A m \in Task : record'[m] = record[m] \/ (m = n /\ record'[m].sum = Truth[m].sum)
  BY <1>1 DEF Record
<1>3. complete' \subseteq computed'
  BY DEF LineInv, RecordedWasComputed
<1>4. ASSUME NEW m \in Task, record'[m].sum # 0
      PROVE  m \in computed' /\ record'[m].sum = Truth[m].sum
  BY <1>2, <1>4 DEF LineInv, RecordedWasComputed
<1> QED
  BY <1>3, <1>4 DEF RecordedWasComputed

\* Only what was computed is complete or recorded.
LEMMA ServerRecorded ==
  ASSUME LineInv, ServerStep
  PROVE  RecordedWasComputed'
<1>1. computed' = computed /\ RecordedWasComputed
  BY ServerWaiters DEF LineInv
<1>2. ASSUME complete' \subseteq complete, record' = record
      PROVE  RecordedWasComputed'
  BY <1>1, <1>2 DEF RecordedWasComputed
<1> DEFINE m == NextMsg
<1>3. ASSUME Serve
      PROVE  RecordedWasComputed'
  <2>1. CASE ReturnAccepted(m.task, m.result)
    <3>1. conn.kind = "RET" => m.task \in computed /\ m.result = Truth[m.task]
      BY <1>3, NextMsgFacts DEF Serve
    <3> HIDE DEF m
    <3>2. /\ m.task \in Task /\ m.task \in computed /\ m.result = Truth[m.task]
          /\ complete' = complete \cup {m.task}
          /\ record' = [record EXCEPT ![m.task] = m.result]
      BY <2>1, <3>1 DEF ReturnAccepted, SetComplete, Serving
    <3> QED
      BY <1>1, <3>2, StoredWasComputed
  <2>2. CASE ~ ReturnAccepted(m.task, m.result)
    <3>1. complete' = complete /\ record' = record
      BY <1>3, <2>2 DEF Serve, Handled, RequestServed, MissedServed, ReturnRefused,
                        ReturnUnassigned, InterruptRefused, InterruptAccepted
    <3> QED
      BY <1>2, <3>1
  <2> QED
    BY <2>1, <2>2
<1>4. AcceptNext \/ ReplyFails \/ EndOfBatch \/ ConnectionFails \/ CloseAndDeliver =>
        complete' = complete /\ record' = record
  BY DEF AcceptNext, Accept, ReplyFails, RequestFails, MissedFails, EndOfBatch,
         ConnectionFails, Abort, CloseAndDeliver, Close
<1>5. ASSUME ServerDies
      PROVE  RecordedWasComputed'
  <2>1. CASE Die
    BY <1>2, <2>1 DEF Die
  <2>2. ASSUME conn.tid < Len(cur.msgs), NEW s \in BOOLEAN, DieInReturn(m.task, m.result, s)
        PROVE  RecordedWasComputed'
    <3>1. conn.kind = "RET" => m.task \in computed /\ m.result = Truth[m.task]
      BY <2>2, NextMsgFacts
    <3> HIDE DEF m
    <3>2. /\ m.task \in Task /\ m.task \in computed /\ m.result = Truth[m.task]
          /\ complete' = complete \cup {m.task}
          /\ record' \in {record, [record EXCEPT ![m.task].sum = m.result.sum]}
      BY <2>2, <3>1 DEF DieInReturn, Serving
    <3> QED
      BY <1>1, <3>2, StoredWasComputed
  <2> QED
    BY <1>5, <2>1, <2>2 DEF ServerDies
<1>6. ASSUME ServerStarts
      PROVE  complete' \subseteq complete /\ record' = record
  BY <1>6, StartFacts DEF ServerStarts, LineInv, SysTypeOK
<1> QED
  BY <1>2, <1>3, <1>4, <1>5, <1>6 DEF ServerStep

\* So the server's steps keep all of it.
LEMMA ServerLineStep ==
  ASSUME LineInv, ServerStep, TypeOK', PointersExact', calm' \in BOOLEAN
  PROVE  LineInv'
<1>1. SysTypeOK /\ ReturnsComputed
  BY DEF LineInv
<1>2. /\ UNCHANGED <<mode, computed>> /\ phase' \in [Client -> Phase]
      /\ \A p \in Client : phase'[p] # phase[p] =>
           phase[p] = "asking" /\ phase'[p] \in {"idle", "running"}
  BY ServerWaiters
<1>3. \A p \in Client : /\ work'[p] = work[p] \/ phase'[p] = "running"
                        /\ phase'[p] = "running" =>
                             \/ phase[p] = "running" /\ work'[p] = work[p]
                             \/ work'[p] \in [1 .. Threads[p] -> 0 .. NumTasks]
  BY ServerWork
<1>4. \A p \in Client :
        /\ phase'[p] \in {"running", "returning", "revoking"} =>
             work'[p] \in [1 .. Threads[p] -> 0 .. NumTasks]
        /\ phase'[p] = "returning" => phase[p] = "returning" /\ work'[p] = work[p]
  BY <1>1, <1>2, <1>3 DEF SysTypeOK
<1>5. SysTypeOK'
  BY <1>1, <1>2, <1>4, ServerMoves DEF SysTypeOK
<1>6. work' = [p \in Client |-> work'[p]]
  BY ServerWork
<1>7. ReturnsComputed'
  BY <1>1, <1>2, <1>4 DEF ReturnsComputed
<1> QED
  BY <1>5, <1>6, <1>7, ServerLine, ServerConnOK, ServerRecorded DEF LineInv

\* The threads with something to return can be counted off in order.
LEMMA Ranked ==
  ASSUME NEW k \in Nat, NEW S \in SUBSET (1 .. k)
  PROVE  LET rank(t) == Cardinality({u \in S : u < t})
         IN  /\ IsFiniteSet(S) /\ Cardinality(S) \in Nat /\ Cardinality(S) <= k
             /\ \A i \in 1 .. Cardinality(S) : \E t \in S : rank(t) = i - 1
             /\ \A t \in S : rank(t) \in 0 .. Cardinality(S) - 1
             /\ \A t, u \in S : t < u => rank(t) < rank(u)
<1> DEFINE Below(t) == {u \in S : u < t}
           rank(t) == Cardinality(Below(t))
<1>0. S \subseteq Int /\ S \in SUBSET Nat
  OBVIOUS
<1>1. IsFiniteSet(1 .. k) /\ Cardinality(1 .. k) = k
  BY FS_Interval
<1>2. /\ IsFiniteSet(S) /\ Cardinality(S) \in Nat /\ Cardinality(S) <= k
      /\ \A T \in SUBSET S : IsFiniteSet(T) /\ Cardinality(T) \in Nat
                             /\ Cardinality(T) <= Cardinality(S)
  BY <1>1, FS_Subset, FS_CardinalityType
<1>3. ASSUME NEW T \in SUBSET S, NEW t \in S \ T
      PROVE  Cardinality(T \cup {t}) = Cardinality(T) + 1 /\ Cardinality(T) < Cardinality(S)
  <2>1. Cardinality(T \cup {t}) = Cardinality(T) + 1
    BY <1>2, FS_AddElement
  <2>2. T \cup {t} \in SUBSET S
    OBVIOUS
  <2> QED
    BY <1>2, <2>1, <2>2
<1>4. \A t \in S : rank(t) \in 0 .. Cardinality(S) - 1
  <2> TAKE t \in S
  <2>1. Below(t) \in SUBSET S /\ t \notin Below(t)
    OBVIOUS
  <2> HIDE DEF Below
  <2>2. Cardinality(Below(t)) \in Nat /\ Cardinality(Below(t)) < Cardinality(S)
    BY <1>2, <1>3, <2>1
  <2> QED
    BY <1>2, <2>2
<1>5. \A t, u \in S : t < u => rank(t) < rank(u)
  <2> SUFFICES ASSUME NEW t \in S, NEW u \in S, t < u PROVE rank(t) < rank(u)
    OBVIOUS
  <2>1. /\ Below(t) \in SUBSET S /\ t \in S \ Below(t)
        /\ Below(t) \cup {t} \subseteq Below(u) /\ Below(u) \in SUBSET S
    <3>1. \A v \in S : v < t => v < u
      BY <1>0
    <3>2. ~ (t < t)
      BY <1>0
    <3> QED
      BY <3>1, <3>2
  <2> HIDE DEF Below
  <2>2. Cardinality(Below(t) \cup {t}) <= Cardinality(Below(u))
    BY <1>2, <2>1, FS_Subset
  <2>3. Cardinality(Below(t) \cup {t}) = Cardinality(Below(t)) + 1
    BY <1>3, <2>1
  <2> QED
    BY <1>2, <2>1, <2>2, <2>3
<1>6. ASSUME NEW T \in SUBSET S, Cardinality(T) < Cardinality(S),
             \A t \in T : Below(t) \subseteq T
      PROVE  \E t \in S : Below(t) = T
  <2>1. S \ T \in SUBSET Nat /\ S \ T # {}
    <3>1. T # S
      BY <1>2, <1>6
    <3> QED
      BY <1>0, <1>6, <3>1
  <2>2. PICK t \in S \ T : \A u \in S \ T : t <= u
    BY <2>1, LeastNumber
  <2>3. Below(t) \subseteq T
    <3>1. \A u \in S \ T : ~ (u < t)
      BY <1>0, <2>2
    <3> QED
      BY <3>1
  <2>4. ASSUME NEW u \in T
        PROVE  u \in Below(t)
    <3>1. t \notin Below(u) /\ t # u
      BY <1>6, <2>2, <2>4
    <3> QED
      BY <2>2, <2>4, <3>1
  <2> QED
    BY <2>2, <2>3, <2>4
<1>7. ASSUME NEW i \in 1 .. Cardinality(S)
      PROVE  \E t \in S : rank(t) = i - 1
  <2> DEFINE Bad == {j \in 1 .. Cardinality(S) : \A t \in S : rank(t) # j - 1}
  <2>1. SUFFICES ASSUME i \in Bad PROVE FALSE
    OBVIOUS
  <2>2. Bad \in SUBSET Nat /\ Bad # {}
    BY <2>1
  <2>3. PICK j \in Bad : \A b \in Bad : j <= b
    BY <2>2, LeastNumber
  <2>4. j \in 1 .. Cardinality(S) /\ \A t \in S : rank(t) # j - 1
    BY <2>3
  <2>5. CASE j = 1
    <3>1. {} \in SUBSET S /\ Cardinality({}) = 0 /\ \A t \in {} : Below(t) \subseteq {}
      BY FS_EmptySet
    <3>2. 0 < Cardinality(S)
      BY <1>2, <2>4
    <3> HIDE DEF Below
    <3>3. \E t \in S : Below(t) = {}
      BY <1>6, <3>1, <3>2
    <3> QED
      BY <2>4, <2>5, <3>1, <3>3
  <2>6. CASE j # 1
    <3>1. j - 1 \in 1 .. Cardinality(S) /\ j - 1 \notin Bad
      BY <1>2, <2>3, <2>4, <2>6
    <3>2. PICK t \in S : rank(t) = j - 1 - 1
      BY <3>1
    <3> DEFINE T == Below(t) \cup {t}
    <3>3. T \in SUBSET S /\ t \in S \ Below(t) /\ Below(t) \in SUBSET S
      OBVIOUS
    <3>4. \A u \in T : Below(u) \subseteq T
      <4>1. \A u, v \in S : v < u /\ u < t => v < t
        BY <1>0
      <4> QED
        BY <4>1
    <3>5. Cardinality(T) = j - 1
      <4> HIDE DEF Below
      <4>1. Cardinality(T) = Cardinality(Below(t)) + 1
        BY <1>3, <3>3
      <4> QED
        BY <1>2, <2>4, <3>2, <4>1
    <3>6. j - 1 < Cardinality(S)
      BY <1>2, <2>4
    <3> HIDE DEF Below, T
    <3>7. \E u \in S : Below(u) = T
      BY <1>6, <3>3, <3>4, <3>5, <3>6
    <3> QED
      BY <2>4, <3>5, <3>7
  <2> QED
    BY <2>5, <2>6
<1> QED
  BY <1>2, <1>4, <1>5, <1>7

\* What the threads of p return: each thread that has a task once, and the
\* others not at all.
LEMMA NonemptyFacts ==
  ASSUME NEW p, NEW k \in Nat
  PROVE  LET ts == Nonempty(p, k)
         IN  /\ ts \in Seq(1 .. k) /\ Len(ts) \in Nat /\ Len(ts) <= k
             /\ \A i \in 1 .. Len(ts) : ts[i] \in 1 .. k /\ work[p][ts[i]] # Empty
             /\ \A t \in 1 .. k : work[p][t] # Empty => \E i \in 1 .. Len(ts) : ts[i] = t
             /\ \A i, j \in 1 .. Len(ts) : ts[i] = ts[j] => i = j
<1> DEFINE S == {t \in 1 .. k : work[p][t] # Empty}
           rank(t) == Cardinality({u \in S : u < t})
<1>1. Nonempty(p, k) = [i \in 1 .. Cardinality(S) |-> CHOOSE t \in S : rank(t) = i - 1]
  BY DEF Nonempty
<1>2. S \in SUBSET (1 .. k)
  OBVIOUS
<1>3. /\ Cardinality(S) \in Nat /\ Cardinality(S) <= k
      /\ \A i \in 1 .. Cardinality(S) : \E t \in S : rank(t) = i - 1
      /\ \A t \in S : rank(t) \in 0 .. Cardinality(S) - 1
      /\ \A t, u \in S : t < u => rank(t) < rank(u)
  <2> HIDE DEF S
  <2> QED
    BY <1>2, Ranked
<1>4. \A t \in 1 .. k : work[p][t] # Empty <=> t \in S
  OBVIOUS
<1> HIDE DEF S, rank
<1>5. PICK ts : ts = Nonempty(p, k)
  OBVIOUS
<1>6. /\ ts = [i \in 1 .. Cardinality(S) |-> ts[i]]
      /\ \A i \in 1 .. Cardinality(S) : ts[i] \in S /\ rank(ts[i]) = i - 1
  BY <1>1, <1>3, <1>5
<1>7. ts \in Seq(1 .. k) /\ Len(ts) = Cardinality(S)
  <2>1. ASSUME NEW T, NEW n \in Nat, NEW f \in [1 .. n -> T]
        PROVE  f \in Seq(T) /\ Len(f) = n
    OBVIOUS
  <2>2. ts \in [1 .. Cardinality(S) -> 1 .. k]
    BY <1>2, <1>6
  <2> QED
    BY <1>3, <2>1, <2>2
<1>8. ASSUME NEW t \in S
      PROVE  \E i \in 1 .. Len(ts) : ts[i] = t
  <2>1. PICK i \in 1 .. Cardinality(S) : rank(t) = i - 1
    <3>1. rank(t) \in 0 .. Cardinality(S) - 1
      BY <1>3, <1>8
    <3>2. rank(t) + 1 \in 1 .. Cardinality(S) /\ rank(t) = (rank(t) + 1) - 1
      BY <1>3, <3>1
    <3> QED
      BY <3>2
  <2>2. ts[i] \in S /\ rank(ts[i]) = rank(t)
    BY <1>6, <2>1
  <2>3. S \subseteq Int
    BY <1>2
  <2>4. t \in Int /\ ts[i] \in Int
    BY <1>8, <2>2, <2>3
  <2>5. rank(t) \in Int
    BY <2>1
  <2>6. ts[i] = t
    BY <1>3, <1>8, <2>2, <2>4, <2>5
  <2> QED
    BY <1>7, <2>1, <2>6
<1>9. \A i, j \in 1 .. Len(ts) : ts[i] = ts[j] => i = j
  BY <1>3, <1>6, <1>7
<1> QED
  BY <1>2, <1>3, <1>4, <1>5, <1>6, <1>7, <1>8, <1>9

\* A step of client p does not concern those who wait, if p does not.
LEMMA ClientLine ==
  ASSUME LineInv, NEW p \in Client, computed \subseteq computed', UNCHANGED mode,
         \A q \in Client : q # p => phase'[q] = phase[q],
         \/ UNCHANGED <<queue, cur>> /\ phase[p] # "asking"
         \/ Forsake(p)
         \/ \E k \in Link : /\ Connect(k) /\ UNCHANGED cur /\ phase[p] # "asking"
                            /\ LinkGood(k)' /\ k.cl \in {p, nobody}
  PROVE  /\ \A i \in Places' : LinkGood(At(i))'
         /\ OneAnswer'
<1>1. /\ \A i \in Places : LinkGood(At(i)) /\ At(i) \in Link \cup {NoLink}
      /\ \A i \in Places : At(i).cl # nobody => At(i).cl \in Client /\ phase[At(i).cl] = "asking"
      /\ OneAnswer
  BY LineFacts DEF LineInv, LinkGood, LinkOK
<1>2. ASSUME NEW k, LinkGood(k), k.cl # p
      PROVE  LinkGood(k)'
  <2>1. k.cl # nobody => phase'[k.cl] = "asking"
    BY <1>2 DEF LinkGood, LinkOK
  <2> QED
    BY <1>2, <2>1, LinkKeeps
<1>3. ASSUME NEW i \in Places, NEW k, k = At(i), phase[p] # "asking", At(i)' = At(i)
      PROVE  LinkGood(At(i))'
  <2>1. LinkGood(k) /\ k.cl # p
    BY <1>1, <1>3, ResidueSystemAssumption
  <2>2. LinkGood(k)'
    BY <1>2, <2>1
  <2>3. At(i)' = k
    BY <1>3
  <2> QED
    BY <2>2, <2>3
<1>4. CASE UNCHANGED <<queue, cur>> /\ phase[p] # "asking"
  <2>1. Places' = Places /\ \A i \in Places : At(i)' = At(i)
    BY <1>4 DEF Places, At
  <2>2. \A i \in Places' : LinkGood(At(i))'
    BY <1>3, <1>4, <2>1
  <2> QED
    BY <1>1, <2>1, <2>2 DEF OneAnswer
<1>5. CASE Forsake(p)
  <2>1. Places' = Places /\ \A i \in Places : \E s \in Nat : At(i)' = Orphan(At(i), s, p)
    BY <1>5, ForsakeMoves
  <2>2. \A i \in Places : At(i)'.cl # nobody => At(i)' = At(i)
    BY <1>1, <2>1, OrphanFacts
  <2>3. ASSUME NEW i \in Places'
        PROVE  LinkGood(At(i))'
    <3>1. PICK s \in Nat : At(i)' = Orphan(At(i), s, p)
      BY <2>1
    <3>2. PICK k : k = Orphan(At(i), s, p)
      OBVIOUS
    <3>3. LinkGood(k) /\ k.cl # p
      BY <1>1, <2>1, <3>2, OrphanKeeps, OrphanFacts
    <3>4. LinkGood(k)'
      BY <1>2, <3>3
    <3>5. At(i)' = k
      BY <3>1, <3>2
    <3> QED
      BY <3>4, <3>5
  <2>4. OneAnswer'
    <3>1. SUFFICES ASSUME NEW i \in Places, NEW j \in Places, i # j, At(i)'.cl # nobody
                   PROVE  At(j)'.cl # At(i)'.cl
      BY <2>1 DEF OneAnswer
    <3>2. At(i)' = At(i) /\ (At(j)'.cl = nobody \/ At(j)' = At(j))
      BY <2>2, <3>1
    <3> QED
      BY <1>1, <3>1, <3>2 DEF OneAnswer
  <2> QED
    BY <2>3, <2>4
<1>6. ASSUME NEW k \in Link, Connect(k), UNCHANGED cur, phase[p] # "asking",
             LinkGood(k)', k.cl \in {p, nobody}
      PROVE  (\A i \in Places' : LinkGood(At(i))') /\ OneAnswer'
  <2>1. /\ \A i \in Places : At(i)' = At(i)
        /\ \A i \in Places' : i \notin Places => i = Len(queue) + 1 /\ At(i)' = k
    BY <1>6, ConnectMoves
  <2>2. ASSUME NEW i \in Places'
        PROVE  LinkGood(At(i))'
    <3>1. CASE i \in Places
      BY <1>3, <1>6, <2>1, <3>1
    <3>2. CASE i \notin Places
      BY <1>6, <2>1, <3>2
    <3> QED
      BY <3>1, <3>2
  <2>3. \A i \in Places : At(i)'.cl # p
    BY <1>1, <1>6, <2>1, ResidueSystemAssumption
  <2>4. OneAnswer'
    <3>1. SUFFICES ASSUME NEW i \in Places', NEW j \in Places', i # j, At(i)'.cl # nobody
                   PROVE  At(j)'.cl # At(i)'.cl
      BY DEF OneAnswer
    <3>2. CASE i \in Places /\ j \in Places
      BY <1>1, <2>1, <3>1, <3>2 DEF OneAnswer
    <3>3. CASE i \in Places /\ j \notin Places
      BY <1>6, <2>1, <2>3, <3>1, <3>3
    <3>4. CASE i \notin Places /\ j \in Places
      BY <1>6, <2>1, <2>3, <3>1, <3>4
    <3> QED
      BY <2>1, <3>1, <3>2, <3>3, <3>4
  <2> QED
    BY <2>2, <2>4
<1> QED
  BY <1>4, <1>5, <1>6
\* What the clients do behind its back leaves the server's connection alone.
LEMMA ClientConnOK ==
  ASSUME LineInv, NEW p \in Client, UNCHANGED vars,
         \/ UNCHANGED <<queue, cur>>
         \/ Forsake(p)
         \/ \E k \in Link : Connect(k) /\ UNCHANGED cur
  PROVE  /\ ConnOK'
         /\ queue' \in Seq(Link) /\ Len(queue') <= MaxQueue /\ cur' \in Link \cup {NoLink}
<1>1. UNCHANGED <<up, conn>> /\ ConnOK
  BY DEF vars, LineInv
<1>2. queue \in Seq(Link) /\ Len(queue) <= MaxQueue /\ cur \in Link \cup {NoLink}
  BY DEF LineInv, SysTypeOK
<1>3. CASE UNCHANGED <<queue, cur>>
  BY <1>1, <1>2, <1>3 DEF ConnOK
<1>4. CASE Forsake(p)
  <2>1. /\ queue' \in Seq(Link) /\ Len(queue') = Len(queue)
        /\ cur' \in Link \cup {NoLink} /\ cur'.kind = cur.kind /\ cur'.size = cur.size
        /\ (cur = NoLink => cur' = NoLink) /\ (cur \in Link => cur' \in Link)
    BY <1>4, ForsakeMoves
  <2>2. queue = <<>> => queue' = <<>>
    <3>1. Len(<<>>) = 0
      OBVIOUS
    <3>2. Len(queue') = 0 => queue' = <<>>
      BY <2>1
    <3> QED
      BY <2>1, <3>1, <3>2
  <2> QED
    BY <1>1, <1>2, <2>1, <2>2 DEF ConnOK
<1>5. ASSUME NEW k \in Link, Connect(k), UNCHANGED cur
      PROVE  ConnOK' /\ queue' \in Seq(Link) /\ Len(queue') <= MaxQueue
  <2>1. up
    BY <1>5 DEF Connect
  <2> QED
    BY <1>1, <1>5, <2>1, ConnectMoves DEF ConnOK
<1> QED
  BY <1>2, <1>3, <1>4, <1>5



\* A request names no task and waits for its own answer.
LEMMA RequestGood ==
  ASSUME LineInv, NEW p \in Client, UNCHANGED mode, phase'[p] = "asking",
         NEW k, k = [cl |-> p, kind |-> mode[p], size |-> Threads[p],
                     msgs |-> [t \in 1 .. Threads[p] |-> NoMessage]]
  PROVE  k \in Link /\ LinkGood(k)'
<1>1. /\ Threads[p] \in 1 .. MaxThreads /\ Threads[p] \in Nat /\ mode[p] \in RequestKind
      /\ MaxThreads \in Nat
  BY ResidueSystemAssumption, MaxThreadsAssumption DEF LineInv, SysTypeOK
<1>2. NoMessage \in Message /\ NoMessage.task = Empty
  BY DEF Message, NoMessage
<1>3. /\ k.cl = p /\ k.kind = mode[p] /\ k.size = Threads[p]
      /\ k.msgs = [t \in 1 .. Threads[p] |-> NoMessage]
  OBVIOUS
<1>4. k.msgs \in Seq(Message) /\ Len(k.msgs) = Threads[p]
  BY <1>1, <1>2, <1>3
<1>5. k \in Link
  BY <1>1, <1>3, <1>4 DEF Link
<1>6. LinkOK(k)'
  BY <1>1, <1>3, <1>4, <1>5 DEF LinkOK
<1>7. \A j \in 1 .. Len(k.msgs) : MsgOK(k, k.msgs[j])'
  BY <1>1, <1>2, <1>3, <1>4, Kinds DEF MsgOK, ReportKind
<1> QED
  BY <1>5, <1>6, <1>7 DEF LinkGood

\* A report names what its threads had, and is not waited for.
LEMMA ReportGood ==
  ASSUME LineInv, NEW p \in Client, NEW n \in 1 .. Threads[p],
         phase[p] \in {"returning", "revoking"}, computed \subseteq computed',
         NEW k, k = Batch(p, n)
  PROVE  /\ k \in Link /\ LinkGood(k)' /\ k.cl = nobody
         /\ k.kind = IF phase[p] = "returning" THEN "RET" ELSE "INT"
<1>1. /\ Threads[p] \in 1 .. MaxThreads /\ MaxThreads \in Nat /\ n \in Nat
      /\ n <= Threads[p] /\ Threads[p] \in Nat
      /\ work[p] \in [1 .. Threads[p] -> 0 .. NumTasks]
      /\ phase[p] = "returning" =>
           \A t \in 1 .. Threads[p] : work[p][t] # Empty => work[p][t] \in computed
      /\ computed \subseteq Task
  BY ResidueSystemAssumption, MaxThreadsAssumption DEF LineInv, SysTypeOK, ReturnsComputed
<1>2. /\ k.cl = nobody /\ k.kind = (IF phase[p] = "returning" THEN "RET" ELSE "INT")
      /\ k.size = Threads[p]
      /\ k.msgs = (IF phase[p] = "returning" THEN Returns(p, n) ELSE Revocations(p, n))
  BY DEF Batch
<1>3. k.kind \in ReportKind /\ k.kind \notin RequestKind
  BY <1>2, Kinds DEF ReportKind
<1>4. ASSUME NEW f, NEW c \in Nat, f = [i \in 1 .. c |-> f[i]],
             \A i \in 1 .. c : f[i] \in Message
      PROVE  f \in Seq(Message) /\ Len(f) = c
  <2>1. f \in [1 .. c -> Message]
    BY <1>4
  <2> QED
    BY <1>4, <2>1
<1>5. CASE phase[p] = "returning"
  <2>1. PICK ts : ts = Nonempty(p, n)
    OBVIOUS
  <2>2. /\ ts \in Seq(1 .. n) /\ Len(ts) \in Nat /\ Len(ts) <= n
        /\ \A i \in 1 .. Len(ts) : ts[i] \in 1 .. n /\ work[p][ts[i]] # Empty
    BY <1>1, <2>1, NonemptyFacts
  <2>3. DOMAIN ts = 1 .. Len(ts)
    BY <2>2
  <2>4. k.msgs = [i \in 1 .. Len(ts) |->
                    [task |-> work[p][ts[i]], result |-> Truth[work[p][ts[i]]]]]
    BY <1>2, <1>5, <2>1, <2>3 DEF Returns
  <2>5. \A i \in 1 .. Len(ts) : work[p][ts[i]] \in computed
    <3>1. \A t \in 1 .. n : t \in 1 .. Threads[p]
      BY <1>1
    <3> QED
      BY <1>1, <1>5, <2>2, <3>1
  <2>6. \A i \in 1 .. Len(ts) : /\ k.msgs[i].task = work[p][ts[i]]
                                /\ k.msgs[i].result = Truth[work[p][ts[i]]]
                                /\ k.msgs[i] \in Message
    BY <1>1, <2>4, <2>5, Numbers DEF Message
  <2>7. k.msgs \in Seq(Message) /\ Len(k.msgs) = Len(ts)
    BY <1>4, <2>2, <2>4, <2>6
  <2>8. Len(k.msgs) <= k.size
    BY <1>1, <1>2, <2>2, <2>7
  <2>9. k \in Link
    BY <1>1, <1>2, <1>3, <2>7 DEF Link, Batch
  <2>10. LinkOK(k)'
    BY <1>2, <2>8, <2>9 DEF LinkOK
  <2>11. \A j \in 1 .. Len(k.msgs) : MsgOK(k, k.msgs[j])'
    BY <1>1, <1>3, <2>5, <2>6, <2>7 DEF MsgOK
  <2> QED
    BY <1>2, <2>9, <2>10, <2>11 DEF LinkGood
<1>6. CASE phase[p] # "returning"
  <2>1. k.msgs = [t \in 1 .. n |-> [task |-> work[p][t], result |-> NoRecord]]
    BY <1>2, <1>6 DEF Revocations
  <2>2. \A t \in 1 .. n : work[p][t] \in Task \cup {Empty}
    BY <1>1, Numbers
  <2>3. \A t \in 1 .. n : k.msgs[t] \in Message
    BY <2>1, <2>2 DEF Message
  <2>4. k.msgs \in Seq(Message) /\ Len(k.msgs) = n
    BY <1>1, <1>4, <2>1, <2>3
  <2>5. k \in Link
    BY <1>1, <1>2, <1>3, <2>4 DEF Link, Batch
  <2>6. LinkOK(k)'
    BY <1>1, <1>2, <2>4, <2>5 DEF LinkOK
  <2>7. \A j \in 1 .. Len(k.msgs) : MsgOK(k, k.msgs[j])'
    BY <1>2, <1>3, <1>6 DEF MsgOK
  <2> QED
    BY <1>2, <2>5, <2>6, <2>7 DEF LinkGood
<1> QED
  BY <1>5, <1>6

\* The other clients are not concerned.
LEMMA ClientOthers ==
  ASSUME LineInv, NEW p \in Client, ClientStep(p)
  PROVE  /\ UNCHANGED vars /\ UNCHANGED mode /\ computed \subseteq computed'
         /\ calm' \in {calm, FALSE}
         /\ phase' \in [Client -> Phase]
         /\ work' = [q \in Client |-> work'[q]]
         /\ \A q \in Client : q # p => phase'[q] = phase[q] /\ work'[q] = work[q]
<1>1. /\ phase \in [Client -> Phase] /\ work = [q \in Client |-> work[q]]
      /\ {"idle", "asking", "running", "returning", "revoking", "stopped"} = Phase
  BY DEF LineInv, SysTypeOK, Phase
<1> HIDE DEF Phase
<1>2. UNCHANGED vars /\ UNCHANGED mode /\ computed \subseteq computed' /\ calm' \in {calm, FALSE}
  BY DEF ClientStep, Ask, AskFails, RunSucceeds, RunFails, ReportSent, ReportFails,
         ClientStops, ClientStarts, Fault
<1>3. UNCHANGED phase \/ \E w \in Phase : phase' = [phase EXCEPT ![p] = w]
  BY <1>1 DEF ClientStep, Ask, AskFails, RunSucceeds, RunFails, ReportSent, ReportFails,
              ClientStops, ClientStarts
<1>4. UNCHANGED work \/ work' = [work EXCEPT ![p] = <<>>]
  BY DEF ClientStep, Ask, AskFails, RunSucceeds, RunFails, ReportSent, ReportFails,
         ClientStops, ClientStarts
<1>5. phase' \in [Client -> Phase] /\ \A q \in Client : q # p => phase'[q] = phase[q]
  BY <1>1, <1>3
<1>6. work' = [q \in Client |-> work'[q]] /\ \A q \in Client : q # p => work'[q] = work[q]
  BY <1>1, <1>4
<1> QED
  BY <1>2, <1>5, <1>6

\* A process has as many assignments as threads, and what it is about to
\* return it computed.
LEMMA ClientOwn ==
  ASSUME LineInv, NEW p \in Client, ClientStep(p)
  PROVE  /\ computed' \subseteq Task
         /\ phase'[p] \in {"running", "returning", "revoking"} =>
              phase[p] \in {"running", "returning", "revoking"} /\ work'[p] = work[p]
         /\ phase'[p] = "returning" =>
              \A t \in 1 .. Threads[p] : work'[p][t] # Empty => work'[p][t] \in computed'
<1>1. /\ phase \in [Client -> Phase] /\ computed \subseteq Task
      /\ phase[p] \in {"running", "returning", "revoking"} =>
           work[p] \in [1 .. Threads[p] -> 0 .. NumTasks]
      /\ phase[p] = "returning" =>
           \A t \in 1 .. Threads[p] : work[p][t] # Empty => work[p][t] \in computed
  BY DEF LineInv, SysTypeOK, ReturnsComputed
<1>2. ASSUME RunSucceeds(p)
      PROVE  /\ computed' \subseteq Task /\ phase[p] = "running" /\ work' = work
             /\ \A t \in 1 .. Threads[p] : work'[p][t] # Empty => work'[p][t] \in computed'
  <2>1. /\ phase[p] = "running" /\ work' = work
        /\ computed' = computed \cup ({work[p][t] : t \in 1 .. Threads[p]} \ {Empty})
    BY <1>2 DEF RunSucceeds
  <2>2. \A t \in 1 .. Threads[p] : work[p][t] \in Task \cup {Empty}
    BY <1>1, <2>1, Numbers
  <2> QED
    BY <1>1, <2>1, <2>2
<1>3. ASSUME RunFails(p) \/ \E k \in 1 .. Threads[p] - 1 : ReportFails(p, k)
      PROVE  /\ UNCHANGED <<work, computed>>
             /\ phase[p] \in {"running", "returning", "revoking"}
             /\ phase'[p] = "returning" => phase[p] = "returning"
  BY <1>1, <1>3 DEF RunFails, ReportFails
<1>4. ASSUME Ask(p) \/ AskFails(p) \/ ReportSent(p) \/ ClientStops(p) \/ ClientStarts(p)
      PROVE  UNCHANGED computed /\ phase'[p] \in {"idle", "asking", "stopped"}
  BY <1>1, <1>4 DEF Ask, AskFails, ReportSent, ClientStops, ClientStarts
<1>5. CASE RunSucceeds(p)
  BY <1>1, <1>2, <1>5
<1>6. CASE RunFails(p) \/ \E k \in 1 .. Threads[p] - 1 : ReportFails(p, k)
  BY <1>1, <1>3, <1>6
<1>7. CASE Ask(p) \/ AskFails(p) \/ ReportSent(p) \/ ClientStops(p) \/ ClientStarts(p)
  BY <1>1, <1>4, <1>7
<1> QED
  BY <1>5, <1>6, <1>7 DEF ClientStep

\* What a client does to the line: it may leave it, or stand in it anew.
LEMMA ClientMoves ==
  ASSUME LineInv, NEW p \in Client, ClientStep(p)
  PROVE  \/ UNCHANGED <<queue, cur>> /\ phase[p] # "asking"
         \/ Forsake(p)
         \/ \E k \in Link : /\ Connect(k) /\ UNCHANGED cur /\ phase[p] # "asking"
                            /\ LinkGood(k)' /\ k.cl \in {p, nobody}
<1>1. phase \in [Client -> Phase] /\ Threads[p] \in 1 .. MaxThreads /\ MaxThreads \in Nat
  BY ResidueSystemAssumption, MaxThreadsAssumption DEF LineInv, SysTypeOK
<1>2. ASSUME Ask(p)
      PROVE  \E k \in Link : /\ Connect(k) /\ UNCHANGED cur /\ phase[p] # "asking"
                             /\ LinkGood(k)' /\ k.cl \in {p, nobody}
  <2>1. PICK k : k = [cl |-> p, kind |-> mode[p], size |-> Threads[p],
                      msgs |-> [t \in 1 .. Threads[p] |-> NoMessage]]
    OBVIOUS
  <2>2. /\ Connect(k) /\ UNCHANGED <<cur, mode>> /\ phase[p] = "idle"
        /\ phase' = [phase EXCEPT ![p] = "asking"]
    BY <1>2, <2>1 DEF Ask
  <2>3. phase'[p] = "asking"
    BY <1>1, <2>2
  <2>4. k \in Link /\ LinkGood(k)'
    BY <2>1, <2>2, <2>3, RequestGood
  <2> QED
    BY <2>1, <2>2, <2>4
<1>3. ASSUME NEW n \in 1 .. Threads[p], phase[p] \in {"returning", "revoking"},
             Connect(Batch(p, n)), UNCHANGED <<cur, computed>>
      PROVE  \E k \in Link : /\ Connect(k) /\ UNCHANGED cur /\ phase[p] # "asking"
                             /\ LinkGood(k)' /\ k.cl \in {p, nobody}
  <2>1. PICK k : k = Batch(p, n)
    OBVIOUS
  <2>2. k \in Link /\ LinkGood(k)' /\ k.cl = nobody
    BY <1>3, <2>1, ReportGood
  <2>3. Connect(k)
    BY <1>3, <2>1
  <2> QED
    BY <1>3, <2>2, <2>3
<1>4. ReportSent(p) => /\ phase[p] \in {"returning", "revoking"}
                       /\ Connect(Batch(p, Threads[p])) /\ UNCHANGED <<cur, computed>>
  BY DEF ReportSent
<1>5. \A k : ReportFails(p, k) => /\ phase[p] \in {"returning", "revoking"}
                                  /\ Connect(Batch(p, k)) /\ UNCHANGED <<cur, computed>>
  BY DEF ReportFails
<1>6. AskFails(p) \/ ClientStops(p) => Forsake(p)
  BY DEF AskFails, ClientStops
<1>7. RunFails(p) \/ ClientStarts(p) \/ RunSucceeds(p) =>
        UNCHANGED <<queue, cur>> /\ phase[p] # "asking"
  BY DEF RunFails, ClientStarts, RunSucceeds
<1>8. Threads[p] \in 1 .. Threads[p] /\ 1 .. Threads[p] - 1 \subseteq 1 .. Threads[p]
  BY <1>1
<1> QED
  BY <1>2, <1>3, <1>4, <1>5, <1>6, <1>7, <1>8 DEF ClientStep

\* So the clients' steps keep all of it.
LEMMA ClientLineStep ==
  ASSUME LineInv, NEW p \in Client, ClientStep(p), TypeOK', PointersExact'
  PROVE  LineInv'
<1>1. ConnOK' /\ queue' \in Seq(Link) /\ Len(queue') <= MaxQueue /\ cur' \in Link \cup {NoLink}
  BY ClientOthers, ClientMoves, ClientConnOK
<1>2. (\A i \in Places' : LinkGood(At(i))') /\ OneAnswer'
  BY ClientOthers, ClientMoves, ClientLine
<1>3. complete' = complete /\ record' = record /\ calm' \in BOOLEAN
  BY ClientOthers DEF LineInv, SysTypeOK, vars
<1>4. \A q \in Client :
        /\ phase'[q] \in {"running", "returning", "revoking"} =>
             work'[q] \in [1 .. Threads[q] -> 0 .. NumTasks]
        /\ phase'[q] = "returning" =>
             \A t \in 1 .. Threads[q] : work'[q][t] # Empty => work'[q][t] \in computed'
  BY ClientOthers, ClientOwn DEF LineInv, SysTypeOK, ReturnsComputed
<1>5. SysTypeOK'
  BY <1>1, <1>3, <1>4, ClientOthers, ClientOwn DEF SysTypeOK, LineInv
<1>6. RecordedWasComputed'
  BY <1>3, ClientOthers DEF LineInv, RecordedWasComputed
<1> QED
  BY <1>1, <1>2, <1>4, <1>5, <1>6, ClientOthers DEF LineInv, ReturnsComputed

\* It holds at the start.
LEMMA LineInit ==
  ASSUME SysInit
  PROVE  LineInv
<1>1. /\ Init /\ queue = <<>> /\ cur = NoLink /\ computed = {} /\ Len(<<>>) = 0
      /\ up = FALSE /\ conn = NoConn /\ complete = {} /\ assigned = {}
      /\ record = [n \in Task |-> NoRecord] /\ NoRecord.sum = 0
  BY DEF SysInit, Init, NoRecord
<1>2. TypeOK /\ PointersExact
  BY <1>1, TableInit DEF TableInv
<1>3. 0 <= MaxQueue /\ <<>> \in Seq(Link)
  BY ResidueSystemAssumption
<1>4. SysTypeOK
  BY <1>1, <1>2, <1>3 DEF SysInit, SysTypeOK, Phase
<1>5. Places = {0} /\ At(0) = NoLink
  BY <1>1 DEF Places, At
<1>6. LinkGood(NoLink)
  BY Kinds DEF LinkGood, LinkOK, NoLink
<1>7. ConnOK
  BY <1>1, Kinds DEF ConnOK
<1>8. \A p \in Client : phase[p] # "returning"
  BY DEF SysInit
<1>9. work = [p \in Client |-> work[p]]
  BY DEF SysInit
<1>10. RecordedWasComputed
  BY <1>1 DEF RecordedWasComputed
<1> QED
  BY <1>1, <1>2, <1>4, <1>5, <1>6, <1>7, <1>8, <1>9, <1>10
  DEF LineInv, OneAnswer, ReturnsComputed

\* Every step keeps it.
LEMMA LineStep ==
  ASSUME LineInv, [SysNext]_sysVars
  PROVE  LineInv'
<1>1. TypeOK' /\ PointersExact'
  BY ServerAction, TableStep DEF LineInv, SysTypeOK, TableInv
<1>2. ASSUME ServerStep
      PROVE  LineInv'
  <2>1. calm' \in BOOLEAN
    BY <1>2 DEF ServerStep, AcceptNext, Serve, ReplyFails, EndOfBatch, ConnectionFails,
                CloseAndDeliver, ServerDies, ServerStarts, Fault, LineInv, SysTypeOK
  <2> QED
    BY <1>1, <1>2, <2>1, ServerLineStep
<1>3. ASSUME NEW p \in Client, ClientStep(p)
      PROVE  LineInv'
  BY <1>1, <1>3, ClientLineStep
<1>4. ASSUME UNCHANGED sysVars
      PROVE  LineInv'
  <2>1. UNCHANGED <<mode, phase, work, queue, cur, computed, calm, conn, up, complete, record>>
    BY <1>4 DEF sysVars, vars
  <2>2. Places' = Places /\ \A i \in Places : At(i)' = At(i)
    BY <2>1 DEF Places, At
  <2>3. \A i \in Places : LinkGood(At(i))' <=> LinkGood(At(i))
    BY <2>1, <2>2 DEF LinkGood, LinkOK, MsgOK
  <2>4. OneAnswer'
    BY <2>2 DEF LineInv, OneAnswer
  <2>5. ConnOK' /\ RecordedWasComputed' /\ SysTypeOK' /\ ReturnsComputed'
    BY <1>1, <2>1 DEF LineInv, ConnOK, RecordedWasComputed, SysTypeOK, ReturnsComputed
  <2> QED
    BY <1>1, <2>1, <2>2, <2>3, <2>4, <2>5 DEF LineInv
<1> QED
  BY <1>2, <1>3, <1>4 DEF SysNext

\* The strengthening of the next three theorems: who waits in the line does
\* so for the answer to its own request, and a result on its way is that of
\* its task.
THEOREM ResidueLineCorrect == SysSpec => []LineInv
  BY LineInit, LineStep, PTL DEF SysSpec

\* The clients use the residue server as its module lets anyone use it, so
\* its theorems hold of the system: exact pointers, ordered batches, a
\* frontier that never retreats.
THEOREM UsesResidueServer == SysSpec => Spec
<1>1. SysInit => Init
  BY DEF SysInit
<1>2. LineInv /\ [SysNext]_sysVars => [Next]_vars
  BY ServerAction
<1> QED
  BY <1>1, <1>2, ResidueLineCorrect, PTL DEF SysSpec, Spec

\* No client runs, returns or revokes anything but as many assignments as it
\* has threads, and no message names a task that does not exist.
THEOREM ResidueSysTypeCorrect == SysSpec => []SysTypeOK
<1>1. LineInv => SysTypeOK
  BY DEF LineInv
<1> QED
  BY <1>1, ResidueLineCorrect, PTL

\* What the server records for a task was computed for that task, although
\* it never asks who reports what, batches have holes, are sent again from
\* the start or cut short, and kills leave half a record.
THEOREM RecordedCorrect == SysSpec => []RecordedWasComputed
<1>1. LineInv => RecordedWasComputed
  BY DEF LineInv
<1> QED
  BY <1>1, ResidueLineCorrect, PTL

-----------------------------------------------------------------------------
(* Where the tasks are.  A token is a place that holds one task: a thread's *)
(* assignment, a reply of the batch being handed out, or a message that was *)
(* not served yet.                                                          *)

WorkToken(x, n) ==
  \E p \in Client : \E t \in DOMAIN work[p] : x = <<"work", p, t>> /\ n = work[p][t]
HandedToken(x, n) ==
  \E i \in DOMAIN conn.handed : x = <<"handed", 0, i>> /\ n = conn.handed[i]
MsgToken(x, n) ==
  \E i \in Places : \E j \in 1 .. Len(At(i).msgs) :
    x = <<"msg", i, j>> /\ (i = 0 => j > conn.tid) /\ n = At(i).msgs[j].task

Carries(x, n) == WorkToken(x, n) \/ HandedToken(x, n) \/ MsgToken(x, n)

Somewhere(n) == \E x : Carries(x, n)
Lone(n) == \A x, y : Carries(x, n) /\ Carries(y, n) => x = y

\* Empty assignments come last in s.
EmptiesLast(s) == \A i, j \in DOMAIN s : i < j /\ s[i] = Empty => s[j] = Empty

\* As in a revocation: the server gives it up only where no task follows.
RevokesFirst(k) ==
  k.kind = "INT" => \A i, j \in 1 .. Len(k.msgs) :
    i < j /\ k.msgs[i].task = Empty => k.msgs[j].task = Empty

\* A client has no tasks but between a request and its report.
NoWorkKept ==
  \A p \in Client : phase[p] \notin {"running", "returning", "revoking"} => work[p] = <<>>

TidyInv ==
  /\ \A i \in Places : RevokesFirst(At(i))
  /\ \A p \in Client : EmptiesLast(work[p])
  /\ NoWorkKept

\* Without faults who asks waits until it is answered in full, and no
\* assigned task is lost out of sight.
AskedInFull(k) == k.kind \in RequestKind => k.cl # nobody /\ Len(k.msgs) = k.size
InSight(n) == n \in assigned \ complete => Somewhere(n)
NoneLost == \A n \in Task : InSight(n)

CalmInv ==
  calm => /\ ~up => assigned = {} /\ complete = {}
          /\ \A i \in Places : AskedInFull(At(i))
          /\ NoneLost

\* And if nobody asks for missed tasks, each is in one place only, and is
\* not free to be handed out once more.
NoMissed == \A p \in Client : mode[p] # "req"
Once(n) == Lone(n) /\ (Somewhere(n) => n \in assigned)
NoneTwice == \A n \in Task : Once(n)

SingleInv == calm /\ NoMissed => NoneTwice

-----------------------------------------------------------------------------
(* Empty assignments come last everywhere. *)

\* A revocation keeps the order of the threads.
LEMMA ReportTidy ==
  ASSUME LineInv, TidyInv, NEW p \in Client, NEW n \in 1 .. Threads[p],
         phase[p] \in {"returning", "revoking"},
         NEW k, k = Batch(p, n)
  PROVE  RevokesFirst(k)
<1>1. CASE phase[p] = "returning"
  BY <1>1 DEF Batch, RevokesFirst
<1>2. CASE phase[p] # "returning"
  <2>1. /\ work[p] \in [1 .. Threads[p] -> 0 .. NumTasks] /\ EmptiesLast(work[p])
        /\ Threads[p] \in Nat /\ n \in Nat /\ n <= Threads[p]
    BY ResidueSystemAssumption, MaxThreadsAssumption DEF LineInv, SysTypeOK, TidyInv
  <2>2. k.msgs = [t \in 1 .. n |-> [task |-> work[p][t], result |-> NoRecord]]
    BY <1>2 DEF Batch, Revocations
  <2>3. Len(k.msgs) = n /\ \A t \in 1 .. n : k.msgs[t].task = work[p][t]
    <3>1. ASSUME NEW f, f = [t \in 1 .. n |-> [task |-> work[p][t], result |-> NoRecord]]
          PROVE  Len(f) = n
      BY <2>1, <3>1
    <3> QED
      BY <2>2, <3>1
  <2>4. \A t \in 1 .. n : t \in DOMAIN work[p]
    BY <2>1
  <2> QED
    BY <2>1, <2>3, <2>4 DEF RevokesFirst, EmptiesLast
<1> QED
  BY <1>1, <1>2

\* A batch is delivered in the order in which it was handed out, and what a
\* client gives up stays in order: the beginning of it.
LEMMA TidyStep ==
  ASSUME LineInv, TidyInv, EmptyComesLast, [SysNext]_sysVars
  PROVE  TidyInv'
<1>1. /\ \A i \in Places : RevokesFirst(At(i)) /\ At(i) \in Link \cup {NoLink}
      /\ \A p \in Client : EmptiesLast(work[p])
      /\ NoWorkKept /\ phase \in [Client -> Phase] /\ work = [p \in Client |-> work[p]]
  BY LineFacts DEF TidyInv, LineInv, SysTypeOK
<1>2. EmptiesLast(<<>>) /\ RevokesFirst(NoLink)
  BY DEF EmptiesLast, RevokesFirst, NoLink
<1>3. \A k : RevokesFirst(k)' <=> RevokesFirst(k)
  BY DEF RevokesFirst
<1>4. \A s : EmptiesLast(s)' <=> EmptiesLast(s)
  BY DEF EmptiesLast
<1>5. ASSUME ServerStep
      PROVE  TidyInv'
  <2>1. PICK s \in {0, 1} : \A i \in Places' :
          At(i)' = NoLink \/ (i + s \in Places /\ At(i)' = At(i + s))
    BY <1>5, ServerMoves
  <2>2. \A i \in Places' : RevokesFirst(At(i))'
    BY <1>1, <1>2, <2>1 DEF RevokesFirst
  <2>3. ASSUME NEW p \in Client
        PROVE  /\ EmptiesLast(work[p])'
               /\ phase'[p] \notin {"running", "returning", "revoking"} => work'[p] = <<>>
    <3>1. CASE work'[p] = work[p]
      <4>1. EmptiesLast(work[p])'
        BY <1>1, <3>1 DEF EmptiesLast
      <4>2. phase'[p] = phase[p] \/ phase[p] = "asking"
        BY <1>5, ServerWaiters
      <4> QED
        BY <1>1, <3>1, <4>1, <4>2 DEF NoWorkKept
    <3>2. CASE work'[p] # work[p]
      <4>1. phase'[p] = "running" /\ conn.kind \in RequestKind /\ work'[p] = conn.handed
        BY <1>5, <3>2, ServerWork
      <4> QED
        BY <4>1 DEF EmptiesLast, EmptyComesLast
    <3> QED
      BY <3>1, <3>2
  <2> QED
    BY <2>2, <2>3 DEF TidyInv, NoWorkKept
<1>6. ASSUME NEW p \in Client, ClientStep(p)
      PROVE  TidyInv'
  <2>1. /\ \A q \in Client : q # p => phase'[q] = phase[q] /\ work'[q] = work[q]
        /\ phase' \in [Client -> Phase]
    BY <1>6, ClientOthers
  <2>2. \/ work'[p] = work[p] /\ (phase[p] \in {"running", "returning", "revoking"} =>
                                   phase'[p] \in {"running", "returning", "revoking"})
        \/ work'[p] = <<>>
    BY <1>1, <1>6 DEF ClientStep, Ask, AskFails, RunSucceeds, RunFails, ReportSent, ReportFails,
                      ClientStops, ClientStarts
  <2>3. \A q \in Client : EmptiesLast(work[q])'
    BY <1>1, <1>2, <2>1, <2>2 DEF EmptiesLast
  <2>4. NoWorkKept'
    BY <1>1, <2>1, <2>2 DEF NoWorkKept
  <2>5. CASE UNCHANGED <<queue, cur>>
    <3>1. Places' = Places /\ \A i \in Places : At(i)' = At(i)
      BY <2>5 DEF Places, At
    <3>2. \A i \in Places' : RevokesFirst(At(i))'
      BY <1>1, <3>1 DEF RevokesFirst
    <3> QED
      BY <2>3, <2>4, <3>2 DEF TidyInv
  <2>6. CASE Forsake(p)
    <3>1. Places' = Places /\ \A i \in Places : \E s \in Nat : At(i)' = Orphan(At(i), s, p)
      BY <2>6, ForsakeMoves
    <3>2. ASSUME NEW i \in Places'
          PROVE  RevokesFirst(At(i))'
      <4>1. PICK s \in Nat : At(i)' = Orphan(At(i), s, p)
        BY <3>1
      <4>2. PICK k, o : k = At(i) /\ o = Orphan(k, s, p)
        OBVIOUS
      <4>3. RevokesFirst(k) /\ k \in Link \cup {NoLink}
        BY <1>1, <3>1, <4>2
      <4>4. /\ o.kind = k.kind
            /\ \A u \in 1 .. Len(o.msgs) : u \in 1 .. Len(k.msgs) /\ o.msgs[u] = k.msgs[u]
        BY <4>2, <4>3, OrphanFacts
      <4>5. RevokesFirst(o)
        BY <4>3, <4>4 DEF RevokesFirst
      <4>6. At(i)' = o
        BY <4>1, <4>2
      <4> QED
        BY <4>5, <4>6 DEF RevokesFirst
    <3> QED
      BY <2>3, <2>4, <3>2 DEF TidyInv
  <2>7. ASSUME NEW k \in Link, Connect(k), UNCHANGED cur, RevokesFirst(k)
        PROVE  TidyInv'
    <3>1. /\ \A i \in Places : At(i)' = At(i)
          /\ \A i \in Places' : i \notin Places => At(i)' = k
      BY <2>7, ConnectMoves
    <3>2. \A i \in Places' : RevokesFirst(At(i))'
      BY <1>1, <2>7, <3>1 DEF RevokesFirst
    <3> QED
      BY <2>3, <2>4, <3>2 DEF TidyInv
  <2>8. ASSUME NEW n \in 1 .. Threads[p], phase[p] \in {"returning", "revoking"},
               Connect(Batch(p, n)), UNCHANGED <<cur, computed>>
        PROVE  TidyInv'
    <3>1. PICK k : k = Batch(p, n)
      OBVIOUS
    <3> QED
      BY <2>7, <2>8, <3>1, ReportGood, ReportTidy
  <2>9. ASSUME Ask(p)
        PROVE  TidyInv'
    <3>1. PICK k : k = [cl |-> p, kind |-> mode[p], size |-> Threads[p],
                        msgs |-> [t \in 1 .. Threads[p] |-> NoMessage]]
      OBVIOUS
    <3>2. phase'[p] = "asking" /\ UNCHANGED <<cur, mode>> /\ Connect(k)
      BY <1>1, <2>9, <3>1 DEF Ask
    <3>3. k \in Link
      BY <3>1, <3>2, RequestGood
    <3>4. k.kind # "INT"
      BY <3>1, Kinds DEF LineInv, SysTypeOK, ReportKind
    <3> QED
      BY <2>7, <3>2, <3>3, <3>4 DEF RevokesFirst
  <2>10. Threads[p] \in 1 .. Threads[p] /\ 1 .. Threads[p] - 1 \subseteq 1 .. Threads[p]
    BY ResidueSystemAssumption, MaxThreadsAssumption
  <2>11. ReportSent(p) => TidyInv'
    BY <2>8, <2>10 DEF ReportSent
  <2>12. (\E k \in 1 .. Threads[p] - 1 : ReportFails(p, k)) => TidyInv'
    BY <2>8, <2>10 DEF ReportFails
  <2>13. AskFails(p) \/ ClientStops(p) => TidyInv'
    BY <2>6 DEF AskFails, ClientStops
  <2>14. RunSucceeds(p) \/ RunFails(p) \/ ClientStarts(p) => TidyInv'
    BY <2>5 DEF RunSucceeds, RunFails, ClientStarts
  <2> QED
    BY <1>6, <2>9, <2>11, <2>12, <2>13, <2>14 DEF ClientStep
<1>7. ASSUME UNCHANGED sysVars
      PROVE  TidyInv'
  <2>1. UNCHANGED <<queue, cur, work, phase>>
    BY <1>7 DEF sysVars
  <2>2. Places' = Places /\ \A i \in Places : At(i)' = At(i)
    BY <2>1 DEF Places, At
  <2>3. \A i \in Places' : RevokesFirst(At(i))'
    BY <1>1, <2>2 DEF RevokesFirst
  <2>4. \A p \in Client : EmptiesLast(work[p])'
    BY <1>1, <2>1 DEF EmptiesLast
  <2> QED
    BY <1>1, <2>1, <2>3, <2>4 DEF TidyInv, NoWorkKept
<1> QED
  BY <1>5, <1>6, <1>7 DEF SysNext

-----------------------------------------------------------------------------
(* How tokens move. *)

\* The three kinds of token are different, and a message's token is one.
LEMMA TokenFacts ==
  ASSUME NEW p, NEW q, NEW t, NEW u
  PROVE  /\ <<"work", p, t>> # <<"msg", q, u>> /\ <<"work", p, t>> # <<"handed", q, u>>
         /\ <<"handed", p, t>> # <<"msg", q, u>>
         /\ <<"work", p, t>> = <<"work", q, u>> => p = q /\ t = u
         /\ <<"handed", p, t>> = <<"handed", q, u>> => p = q /\ t = u
         /\ <<"msg", p, t>> = <<"msg", q, u>> => p = q /\ t = u
  OBVIOUS

\* If the tokens of tasks are what they were, so is all that depends on them.
SameTokens == \A x : \A n \in Task : Carries(x, n)' <=> Carries(x, n)

\* Then each task is where it was.
LEMMA SameStays ==
  ASSUME SameTokens, NEW n \in Task
  PROVE  (Somewhere(n)' <=> Somewhere(n)) /\ (Lone(n)' <=> Lone(n))
  BY DEF SameTokens, Somewhere, Lone

\* Where no task moves and none is freed or completed, nothing is lost or
\* doubled.
LEMMA NothingMoves ==
  ASSUME NEW n \in Task, Somewhere(n)' <=> Somewhere(n), Lone(n) => Lone(n)',
         n \in assigned' <=> n \in assigned, n \in complete' <=> n \in complete
  PROVE  (InSight(n) => InSight(n)') /\ (Once(n) => Once(n)')
  BY DEF InSight, Once

\* The steps inside a worker.
LEMMA QuietTokens ==
  ASSUME LineInv, UNCHANGED <<work, queue, cur, conn>>
  PROVE  SameTokens
<1>1. Places' = Places /\ \A i \in Places : At(i)' = At(i)
  BY DEF Places, At
<1>2. \A x, n : /\ WorkToken(x, n)' <=> WorkToken(x, n)
                /\ HandedToken(x, n)' <=> HandedToken(x, n)
                /\ MsgToken(x, n)' <=> MsgToken(x, n)
  BY <1>1 DEF WorkToken, HandedToken, MsgToken
<1> QED
  BY <1>2 DEF SameTokens, Carries

\* A new connection brings its messages and leaves all others alone.
LEMMA ConnectTokens ==
  ASSUME LineInv, NEW k \in Link, Connect(k), UNCHANGED <<cur, conn>>
  PROVE  LET last == Len(queue) + 1
         IN  \A x, n :
               /\ HandedToken(x, n)' <=> HandedToken(x, n)
               /\ MsgToken(x, n)' <=>
                    \/ MsgToken(x, n)
                    \/ \E j \in 1 .. Len(k.msgs) : x = <<"msg", last, j>> /\ n = k.msgs[j].task
               /\ MsgToken(x, n) => \A j : x # <<"msg", last, j>>
<1>0. PICK last : last = Len(queue) + 1
  OBVIOUS
<1>1. /\ Places' = Places \cup {last}
      /\ \A i \in Places : At(i)' = At(i) /\ i < last
      /\ \A i \in Places' : i \notin Places => i = last /\ At(i)' = k
  BY <1>0, ConnectMoves
<1>2. last \in Nat /\ last # 0 /\ last \notin Places /\ Places \subseteq Nat
  BY <1>0, LineFacts DEF Places
<1>3. At(last)' = k
  BY <1>1, <1>2
<1>4. ASSUME NEW x, NEW n
      PROVE  /\ HandedToken(x, n)' <=> HandedToken(x, n)
             /\ MsgToken(x, n)' <=>
                  \/ MsgToken(x, n)
                  \/ \E j \in 1 .. Len(k.msgs) : x = <<"msg", last, j>> /\ n = k.msgs[j].task
             /\ MsgToken(x, n) => \A j : x # <<"msg", last, j>>
  <2>1. HandedToken(x, n)' <=> HandedToken(x, n)
    BY DEF HandedToken
  <2>2. MsgToken(x, n) => MsgToken(x, n)' /\ \A j : x # <<"msg", last, j>>
    <3>1. SUFFICES ASSUME NEW i \in Places, NEW j \in 1 .. Len(At(i).msgs),
                          x = <<"msg", i, j>>, i = 0 => j > conn.tid, n = At(i).msgs[j].task
                   PROVE  MsgToken(x, n)' /\ \A u : x # <<"msg", last, u>>
      BY DEF MsgToken
    <3>2. i \in Places' /\ At(i)' = At(i) /\ i # last
      BY <1>1, <1>2
    <3>3. conn.tid' = conn.tid
      OBVIOUS
    <3>4. MsgToken(x, n)'
      BY <3>1, <3>2, <3>3 DEF MsgToken
    <3> QED
      BY <3>1, <3>2, <3>4
  <2>3. ASSUME NEW j \in 1 .. Len(k.msgs), x = <<"msg", last, j>>, n = k.msgs[j].task
        PROVE  MsgToken(x, n)'
    <3>1. last \in Places'
      BY <1>1
    <3> QED
      BY <1>2, <1>3, <2>3, <3>1 DEF MsgToken
  <2>4. ASSUME MsgToken(x, n)'
        PROVE  \/ MsgToken(x, n)
               \/ \E j \in 1 .. Len(k.msgs) : x = <<"msg", last, j>> /\ n = k.msgs[j].task
    <3>1. PICK i \in Places' : \E j \in 1 .. Len(At(i)'.msgs) :
            x = <<"msg", i, j>> /\ (i = 0 => j > conn.tid') /\ n = At(i)'.msgs[j].task
      BY <2>4 DEF MsgToken
    <3>2. CASE i \in Places
      <4>1. At(i)' = At(i) /\ conn.tid' = conn.tid
        BY <1>1, <3>2
      <4> QED
        BY <3>1, <3>2, <4>1 DEF MsgToken
    <3>3. CASE i \notin Places
      <4>1. i = last /\ At(i)' = k
        BY <1>1, <3>3
      <4> QED
        BY <3>1, <4>1
    <3> QED
      BY <3>2, <3>3
  <2> QED
    BY <2>1, <2>2, <2>3, <2>4
<1> QED
  BY <1>0, <1>4

\* A request has no tasks.
LEMMA AskTokens ==
  ASSUME LineInv, NEW p \in Client, Ask(p)
  PROVE  SameTokens /\ (\A i \in Places' : i \notin Places => AskedInFull(At(i))')
<1>1. PICK k : k = [cl |-> p, kind |-> mode[p], size |-> Threads[p],
                    msgs |-> [t \in 1 .. Threads[p] |-> NoMessage]]
  OBVIOUS
<1>2. /\ phase'[p] = "asking" /\ UNCHANGED <<cur, conn, mode, work>> /\ Connect(k)
      /\ Threads[p] \in Nat
  <2>1. UNCHANGED <<cur, conn, mode, work>> /\ Connect(k)
    BY <1>1 DEF Ask, vars
  <2>2. phase' = [phase EXCEPT ![p] = "asking"] /\ phase \in [Client -> Phase]
    BY DEF Ask, LineInv, SysTypeOK
  <2>3. Threads[p] \in Nat
    BY ResidueSystemAssumption, MaxThreadsAssumption
  <2> QED
    BY <2>1, <2>2, <2>3
<1>3. k \in Link
  BY <1>1, <1>2, RequestGood
<1>4. Len(k.msgs) = Threads[p] /\ \A j \in 1 .. Len(k.msgs) : k.msgs[j].task = Empty
  <2>1. ASSUME NEW f, f = [t \in 1 .. Threads[p] |-> NoMessage]
        PROVE  Len(f) = Threads[p] /\ \A j \in 1 .. Len(f) : f[j].task = Empty
    BY <1>2, <2>1 DEF NoMessage
  <2> QED
    BY <1>1, <2>1
<1>5. \A x, n : WorkToken(x, n)' <=> WorkToken(x, n)
  BY <1>2 DEF WorkToken
<1>6. ASSUME NEW x, NEW n \in Task
      PROVE  Carries(x, n)' <=> Carries(x, n)
  <2>1. n # Empty
    BY Numbers
  <2> QED
    BY <1>2, <1>3, <1>4, <1>5, <2>1, ConnectTokens DEF Carries
<1>7. \A i \in Places' : i \notin Places => At(i)' = k
  BY <1>2, <1>3, ConnectMoves
<1>8. k.cl = p /\ k.size = Threads[p] /\ p # nobody
  BY <1>1, ResidueSystemAssumption
<1> QED
  BY <1>4, <1>6, <1>7, <1>8 DEF SameTokens, AskedInFull

\* Message j of connection k carries the task of thread g[j] of p, and every
\* task is in one.
SentFor(g, k, p) ==
  /\ \A j \in 1 .. Len(k.msgs) :
       g[j] \in DOMAIN work[p] /\ k.msgs[j].task = work[p][g[j]]
  /\ \A i, j \in 1 .. Len(k.msgs) : g[i] = g[j] => i = j
  /\ \A t \in DOMAIN work[p] : work[p][t] # Empty =>
       \E j \in 1 .. Len(k.msgs) : g[j] = t

\* A whole report carries the tasks of all threads, each once.
LEMMA BatchTokens ==
  ASSUME LineInv, NEW p \in Client, phase[p] \in {"returning", "revoking"},
         NEW k, k = Batch(p, Threads[p])
  PROVE  \E g : SentFor(g, k, p)
<1>1. Threads[p] \in Nat /\ DOMAIN work[p] = 1 .. Threads[p]
  BY ResidueSystemAssumption, MaxThreadsAssumption DEF LineInv, SysTypeOK
<1>2. ASSUME NEW f, NEW c \in Nat, f = [i \in 1 .. c |-> f[i]]
      PROVE  Len(f) = c
  BY <1>2
<1>3. CASE phase[p] = "returning"
  <2>1. PICK ts : ts = Nonempty(p, Threads[p])
    OBVIOUS
  <2>2. /\ ts \in Seq(1 .. Threads[p]) /\ Len(ts) \in Nat /\ Len(ts) <= Threads[p]
        /\ \A i \in 1 .. Len(ts) : ts[i] \in 1 .. Threads[p] /\ work[p][ts[i]] # Empty
        /\ \A t \in 1 .. Threads[p] : work[p][t] # Empty => \E i \in 1 .. Len(ts) : ts[i] = t
        /\ \A i, j \in 1 .. Len(ts) : ts[i] = ts[j] => i = j
    BY <1>1, <2>1, NonemptyFacts
  <2>3. DOMAIN ts = 1 .. Len(ts)
    BY <2>2
  <2>4. k.msgs = [i \in 1 .. Len(ts) |->
                    [task |-> work[p][ts[i]], result |-> Truth[work[p][ts[i]]]]]
    BY <1>3, <2>1, <2>3 DEF Batch, Returns
  <2>5. Len(k.msgs) = Len(ts) /\ \A j \in 1 .. Len(ts) : k.msgs[j].task = work[p][ts[j]]
    BY <1>2, <2>2, <2>4
  <2>6. SentFor(ts, k, p)
    BY <1>1, <2>2, <2>5 DEF SentFor
  <2> QED
    BY <2>6
<1>4. CASE phase[p] # "returning"
  <2> DEFINE g == [j \in 1 .. Threads[p] |-> j]
  <2>1. k.msgs = [t \in 1 .. Threads[p] |-> [task |-> work[p][t], result |-> NoRecord]]
    BY <1>4 DEF Batch, Revocations
  <2>2. /\ Len(k.msgs) = Threads[p]
        /\ \A j \in 1 .. Threads[p] : k.msgs[j].task = work[p][j]
    BY <1>1, <1>2, <2>1
  <2>3. \A j \in 1 .. Threads[p] : g[j] = j
    OBVIOUS
  <2> HIDE DEF g
  <2>4. SentFor(g, k, p)
    BY <1>1, <2>2, <2>3 DEF SentFor
  <2> QED
    BY <2>4
<1> QED
  BY <1>3, <1>4

\* A report moves each task of the worker into a message of its own.
LEMMA ReportTokens ==
  ASSUME LineInv, NEW p \in Client, ReportSent(p), NEW n \in Task
  PROVE  /\ Somewhere(n)' <=> Somewhere(n)
         /\ Lone(n) => Lone(n)'
<1>1. PICK k : k = Batch(p, Threads[p])
  OBVIOUS
<1>2. /\ phase[p] \in {"returning", "revoking"} /\ Connect(k) /\ UNCHANGED <<cur, conn, computed>>
      /\ work' = [work EXCEPT ![p] = <<>>]
  BY <1>1 DEF ReportSent, vars
<1>3. k \in Link
  <2>1. Threads[p] \in 1 .. Threads[p]
    BY ResidueSystemAssumption, MaxThreadsAssumption
  <2> QED
    BY <1>1, <1>2, <2>1, ReportGood
<1>3a. PICK g : SentFor(g, k, p)
  BY <1>1, <1>2, BatchTokens
<1>4. /\ \A j \in 1 .. Len(k.msgs) :
           g[j] \in DOMAIN work[p] /\ k.msgs[j].task = work[p][g[j]]
      /\ \A i, j \in 1 .. Len(k.msgs) : g[i] = g[j] => i = j
      /\ \A t \in DOMAIN work[p] : work[p][t] # Empty =>
           \E j \in 1 .. Len(k.msgs) : g[j] = t
  BY <1>3a DEF SentFor
<1>5. n # Empty
  BY Numbers
<1>6. PICK last : last = Len(queue) + 1
  OBVIOUS
<1> DEFINE New(x, j) == x = <<"msg", last, j>> /\ n = k.msgs[j].task
           Kept(x) == \/ \E q \in Client \ {p} : \E t \in DOMAIN work[q] :
                           x = <<"work", q, t>> /\ n = work[q][t]
                      \/ HandedToken(x, n) \/ MsgToken(x, n)
<1>7. \A q \in Client : work'[q] = IF q = p THEN <<>> ELSE work[q]
  BY <1>2 DEF LineInv
<1>8. DOMAIN <<>> = {}
  OBVIOUS
<1>9. ASSUME NEW x
      PROVE  Carries(x, n)' <=> Kept(x) \/ \E j \in 1 .. Len(k.msgs) : New(x, j)
  <2>1. WorkToken(x, n)' <=> \E q \in Client \ {p} : \E t \in DOMAIN work[q] :
                               x = <<"work", q, t>> /\ n = work[q][t]
    BY <1>7, <1>8 DEF WorkToken
  <2> QED
    BY <1>2, <1>3, <1>6, <2>1, ConnectTokens DEF Carries
<1>10. ASSUME NEW x
       PROVE  /\ Carries(x, n) <=> Kept(x) \/ \E t \in DOMAIN work[p] :
                                     x = <<"work", p, t>> /\ n = work[p][t]
              /\ Kept(x) => \A t : x # <<"work", p, t>>
  <2>1. WorkToken(x, n) <=> \/ \E q \in Client \ {p} : \E t \in DOMAIN work[q] :
                                 x = <<"work", q, t>> /\ n = work[q][t]
                            \/ \E t \in DOMAIN work[p] : x = <<"work", p, t>> /\ n = work[p][t]
    BY DEF WorkToken
  <2>2. HandedToken(x, n) \/ MsgToken(x, n) => \A t : x # <<"work", p, t>>
    BY TokenFacts DEF HandedToken, MsgToken
  <2>3. \A q \in Client \ {p} : \A t, u : <<"work", q, t>> # <<"work", p, u>>
    BY TokenFacts
  <2> QED
    BY <2>1, <2>2, <2>3 DEF Carries
<1> HIDE DEF Kept
<1>11. ASSUME NEW x, NEW j \in 1 .. Len(k.msgs), New(x, j)
       PROVE  Carries(<<"work", p, g[j]>>, n)
  BY <1>4, <1>10, <1>11
<1>12. Somewhere(n) => Somewhere(n)'
  <2>1. SUFFICES ASSUME NEW x, Carries(x, n) PROVE \E y : Carries(y, n)'
    BY DEF Somewhere
  <2>2. CASE Kept(x)
    BY <1>9, <2>2
  <2>3. ASSUME NEW t \in DOMAIN work[p], x = <<"work", p, t>>, n = work[p][t]
        PROVE  \E y : Carries(y, n)'
    <3>1. PICK j \in 1 .. Len(k.msgs) : g[j] = t
      BY <1>4, <1>5, <2>3
    <3>2. New(<<"msg", last, j>>, j)
      BY <1>4, <2>3, <3>1
    <3> QED
      BY <1>9, <3>2
  <2> QED
    BY <1>10, <2>1, <2>2, <2>3
<1>13. Somewhere(n)' => Somewhere(n)
  <2>1. SUFFICES ASSUME NEW x, Carries(x, n)' PROVE \E y : Carries(y, n)
    BY DEF Somewhere
  <2> QED
    BY <1>9, <1>10, <1>11, <2>1
<1>14. ASSUME Lone(n), NEW x, NEW y, Carries(x, n)', Carries(y, n)'
       PROVE  x = y
  <2>1. \A z, w : Carries(z, n) /\ Carries(w, n) => z = w
    BY <1>14 DEF Lone
  <2>2. CASE Kept(x) /\ Kept(y)
    BY <1>10, <2>1, <2>2
  <2>3. ASSUME NEW z, NEW w, Kept(z), NEW j \in 1 .. Len(k.msgs), New(w, j)
        PROVE  FALSE
    BY <1>10, <1>11, <2>1, <2>3
  <2>4. ASSUME NEW i \in 1 .. Len(k.msgs), NEW j \in 1 .. Len(k.msgs), New(x, i), New(y, j)
        PROVE  x = y
    <3>1. <<"work", p, g[i]>> = <<"work", p, g[j]>>
      BY <1>11, <2>1, <2>4
    <3>2. g[i] = g[j]
      BY <3>1
    <3>3. i = j
      BY <1>4, <3>2
    <3> QED
      BY <2>4, <3>3
  <2> QED
    BY <1>9, <1>14, <2>2, <2>3, <2>4
<1> QED
  BY <1>12, <1>13, <1>14 DEF Lone

\* Accepting the next connection moves the line on by one place; the
\* connection before it was closed.
LEMMA AcceptTokens ==
  ASSUME LineInv, AcceptNext, NEW n \in Task
  PROVE  /\ Somewhere(n)' <=> Somewhere(n)
         /\ Lone(n) => Lone(n)'
<1>1. /\ conn = NoConn /\ UNCHANGED work
      /\ conn'.handed = <<>> /\ conn'.tid = 0
  BY DEF AcceptNext, Accept
<1>2. cur = NoLink /\ conn.handed = <<>> /\ At(0).msgs = <<>>
  BY <1>1, Kinds, LineFacts DEF LineInv, ConnOK
<1>3. /\ \A i \in Places' : i + 1 \in Places /\ At(i)' = At(i + 1) /\ i \in Nat
      /\ \A i \in Places : i # 0 => i - 1 \in Places' /\ i \in Nat
  <2>1. ServerStep
    BY DEF ServerStep
  <2>2. Places' \subseteq Nat
    BY DEF Places
  <2> QED
    BY <2>1, <2>2, ServerMoves, LineFacts
<1> DEFINE Next1(x) == \E i \in Places' : \E j \in 1 .. Len(At(i + 1).msgs) :
                         x = <<"msg", i, j>> /\ n = At(i + 1).msgs[j].task
           Next0(x) == \E i \in Places' : \E j \in 1 .. Len(At(i + 1).msgs) :
                         x = <<"msg", i + 1, j>> /\ n = At(i + 1).msgs[j].task
<1>4. ASSUME NEW x
      PROVE  Carries(x, n)' <=> WorkToken(x, n) \/ Next1(x)
  <2>1. ~ HandedToken(x, n)'
    BY <1>1 DEF HandedToken
  <2>2. WorkToken(x, n)' <=> WorkToken(x, n)
    BY <1>1 DEF WorkToken
  <2>3. MsgToken(x, n)' => Next1(x)
    BY <1>3 DEF MsgToken
  <2>4. ASSUME NEW i \in Places', NEW j \in 1 .. Len(At(i + 1).msgs),
               x = <<"msg", i, j>>, n = At(i + 1).msgs[j].task
        PROVE  MsgToken(x, n)'
    <3>1. At(i)' = At(i + 1) /\ conn'.tid = 0 /\ j > 0
      BY <1>1, <1>3
    <3>2. j \in 1 .. Len(At(i)'.msgs) /\ n = At(i)'.msgs[j].task
      BY <2>4, <3>1
    <3> QED
      BY <2>4, <3>1, <3>2 DEF MsgToken
  <2> QED
    BY <2>1, <2>2, <2>3, <2>4 DEF Carries
<1>5. ASSUME NEW x
      PROVE  Carries(x, n) <=> WorkToken(x, n) \/ Next0(x)
  <2>1. ~ HandedToken(x, n)
    BY <1>2 DEF HandedToken
  <2>2. ASSUME MsgToken(x, n)
        PROVE  Next0(x)
    <3>1. PICK i \in Places : \E j \in 1 .. Len(At(i).msgs) :
            x = <<"msg", i, j>> /\ n = At(i).msgs[j].task
      BY <2>2 DEF MsgToken
    <3>2. i # 0
      <4>1. 1 .. Len(<<>>) = {}
        OBVIOUS
      <4> QED
        BY <1>2, <3>1, <4>1
    <3>3. PICK h \in Places' : h = i - 1
      BY <1>3, <3>2
    <3>4. h + 1 = i
      BY <1>3, <3>2, <3>3
    <3> QED
      BY <3>1, <3>4
  <2>3. ASSUME Next0(x)
        PROVE  MsgToken(x, n)
    <3>1. PICK i \in Places' : \E j \in 1 .. Len(At(i + 1).msgs) :
            x = <<"msg", i + 1, j>> /\ n = At(i + 1).msgs[j].task
      BY <2>3
    <3>2. PICK h : h = i + 1
      OBVIOUS
    <3>3. h \in Places /\ h # 0
      BY <1>3, <3>2
    <3> QED
      BY <3>1, <3>2, <3>3 DEF MsgToken
  <2> QED
    BY <2>1, <2>2, <2>3 DEF Carries
<1>6. Somewhere(n)' => Somewhere(n)
  <2>1. SUFFICES ASSUME NEW x, Carries(x, n)' PROVE \E y : Carries(y, n)
    BY DEF Somewhere
  <2>2. Next1(x) => \E y : Next0(y)
    OBVIOUS
  <2> QED
    BY <1>4, <1>5, <2>1, <2>2
<1>7. Somewhere(n) => Somewhere(n)'
  <2>1. SUFFICES ASSUME NEW x, Carries(x, n) PROVE \E y : Carries(y, n)'
    BY DEF Somewhere
  <2>2. Next0(x) => \E y : Next1(y)
    OBVIOUS
  <2> QED
    BY <1>4, <1>5, <2>1, <2>2
<1>8. ASSUME Lone(n), NEW x, NEW y, Carries(x, n)', Carries(y, n)'
      PROVE  x = y
  <2>1. \A z, w : Carries(z, n) /\ Carries(w, n) => z = w
    BY <1>8 DEF Lone
  <2>2. CASE WorkToken(x, n) /\ WorkToken(y, n)
    BY <2>1, <2>2 DEF Carries
  <2>3. ASSUME NEW z, NEW w, WorkToken(z, n), Next1(w)
        PROVE  FALSE
    <3>1. PICK i \in Places' : \E j \in 1 .. Len(At(i + 1).msgs) :
            w = <<"msg", i, j>> /\ n = At(i + 1).msgs[j].task
      BY <2>3
    <3>2. PICK j \in 1 .. Len(At(i + 1).msgs) : n = At(i + 1).msgs[j].task
      BY <3>1
    <3>3. Carries(<<"msg", i + 1, j>>, n) /\ Carries(z, n)
      BY <1>5, <2>3, <3>2
    <3> QED
      BY <2>1, <2>3, <3>3 DEF WorkToken
  <2>4. ASSUME Next1(x), Next1(y)
        PROVE  x = y
    <3>1. PICK i \in Places' : \E j \in 1 .. Len(At(i + 1).msgs) :
            x = <<"msg", i, j>> /\ n = At(i + 1).msgs[j].task
      BY <2>4
    <3>2. PICK j \in 1 .. Len(At(i + 1).msgs) : x = <<"msg", i, j>> /\ n = At(i + 1).msgs[j].task
      BY <3>1
    <3>3. PICK h \in Places' : \E k \in 1 .. Len(At(h + 1).msgs) :
            y = <<"msg", h, k>> /\ n = At(h + 1).msgs[k].task
      BY <2>4
    <3>4. PICK k \in 1 .. Len(At(h + 1).msgs) : y = <<"msg", h, k>> /\ n = At(h + 1).msgs[k].task
      BY <3>3
    <3>5. Carries(<<"msg", i + 1, j>>, n) /\ Carries(<<"msg", h + 1, k>>, n)
      BY <1>5, <3>2, <3>4
    <3>6. <<"msg", i + 1, j>> = <<"msg", h + 1, k>>
      BY <2>1, <3>5
    <3>7. i + 1 = h + 1 /\ j = k
      BY <3>6
    <3>8. i = h
      BY <1>3, <3>7
    <3> QED
      BY <3>2, <3>4, <3>7, <3>8
  <2> QED
    BY <1>4, <1>8, <2>2, <2>3, <2>4
<1> QED
  BY <1>6, <1>7, <1>8 DEF Lone

\* Reading a message uses up its token.
LEMMA ReadToken ==
  ASSUME LineInv, conn.tid < Len(cur.msgs), UNCHANGED <<queue, cur>>,
         conn'.tid = conn.tid + 1
  PROVE  LET read == <<"msg", 0, conn.tid + 1>>
         IN  /\ \A x, n : MsgToken(x, n)' <=> MsgToken(x, n) /\ x # read
             /\ \A n : Carries(read, n) <=> n = NextMsg.task
<1>1. PICK c : c = conn.tid
  OBVIOUS
<1>2. c \in Nat /\ c + 1 \in 1 .. Len(cur.msgs) /\ cur.msgs \in Seq(Message)
  BY <1>1, NextMsgFacts DEF LineInv, SysTypeOK, TypeOK, Conn, Link
<1>3. Places' = Places /\ (\A i \in Places : At(i)' = At(i)) /\ 0 \in Places /\ At(0) = cur
  BY LineFacts DEF Places, At
<1>4. ASSUME NEW x, NEW n
      PROVE  MsgToken(x, n)' <=> MsgToken(x, n) /\ x # <<"msg", 0, c + 1>>
  <2>1. ASSUME MsgToken(x, n)'
        PROVE  MsgToken(x, n) /\ x # <<"msg", 0, c + 1>>
    <3>1. PICK i \in Places : \E j \in 1 .. Len(At(i).msgs) :
            x = <<"msg", i, j>> /\ (i = 0 => j > c + 1) /\ n = At(i).msgs[j].task
      BY <1>1, <1>3, <2>1 DEF MsgToken
    <3>2. PICK j \in 1 .. Len(At(i).msgs) :
            x = <<"msg", i, j>> /\ (i = 0 => j > c + 1) /\ n = At(i).msgs[j].task
      BY <3>1
    <3>3. i = 0 => j > c /\ j # c + 1
      BY <1>2, <3>2
    <3>4. x # <<"msg", 0, c + 1>>
      BY <3>2, <3>3, TokenFacts
    <3> QED
      BY <1>1, <3>2, <3>3, <3>4 DEF MsgToken
  <2>2. ASSUME MsgToken(x, n), x # <<"msg", 0, c + 1>>
        PROVE  MsgToken(x, n)'
    <3>1. PICK i \in Places : \E j \in 1 .. Len(At(i).msgs) :
            x = <<"msg", i, j>> /\ (i = 0 => j > c) /\ n = At(i).msgs[j].task
      BY <1>1, <2>2 DEF MsgToken
    <3>2. PICK j \in 1 .. Len(At(i).msgs) :
            x = <<"msg", i, j>> /\ (i = 0 => j > c) /\ n = At(i).msgs[j].task
      BY <3>1
    <3>3. i = 0 => j > c + 1
      BY <1>2, <2>2, <3>2
    <3>4. i \in Places' /\ At(i)' = At(i) /\ conn'.tid = c + 1
      BY <1>1, <1>3
    <3> QED
      BY <3>2, <3>3, <3>4 DEF MsgToken
  <2> QED
    BY <2>1, <2>2
<1>5. ASSUME NEW n
      PROVE  Carries(<<"msg", 0, c + 1>>, n) <=> n = NextMsg.task
  <2>1. NextMsg = cur.msgs[c + 1]
    BY <1>1 DEF NextMsg
  <2>2. ~ WorkToken(<<"msg", 0, c + 1>>, n) /\ ~ HandedToken(<<"msg", 0, c + 1>>, n)
    BY TokenFacts DEF WorkToken, HandedToken
  <2>3. MsgToken(<<"msg", 0, c + 1>>, n) => n = NextMsg.task
    <3>1. SUFFICES ASSUME NEW i \in Places, NEW j \in 1 .. Len(At(i).msgs),
                          <<"msg", 0, c + 1>> = <<"msg", i, j>>, n = At(i).msgs[j].task
                   PROVE  n = NextMsg.task
      BY DEF MsgToken
    <3>2. i = 0 /\ j = c + 1
      BY <3>1
    <3> QED
      BY <1>3, <2>1, <3>1, <3>2
  <2>4. c + 1 > conn.tid
    BY <1>1, <1>2
  <2>5. n = NextMsg.task => MsgToken(<<"msg", 0, c + 1>>, n)
    BY <1>2, <1>3, <2>1, <2>4 DEF MsgToken
  <2> QED
    BY <2>2, <2>3, <2>5 DEF Carries
<1> QED
  BY <1>1, <1>4, <1>5

\* Handing out n makes a token.
LEMMA HandToken ==
  ASSUME LineInv, NEW r \in 0 .. NumTasks, NextMessage(<<r>>)
  PROVE  \A x, n : HandedToken(x, n)' <=>
           HandedToken(x, n) \/ (x = <<"handed", 0, Len(conn.handed) + 1>> /\ n = r)
<1>1. PICK h, g : h = conn.handed /\ g = conn'.handed
  OBVIOUS
<1>2. /\ Len(g) = Len(h) + 1 /\ g[Len(h) + 1] = r /\ Len(h) \in Nat
      /\ \A i \in 1 .. Len(h) : g[i] = h[i]
      /\ DOMAIN h = 1 .. Len(h) /\ DOMAIN g = 1 .. Len(g)
  BY <1>1, OneReply DEF LineInv, SysTypeOK
<1>3. DOMAIN g = DOMAIN h \cup {Len(h) + 1}
  BY <1>2
<1>4. ASSUME NEW x, NEW n
      PROVE  (\E i \in DOMAIN g : x = <<"handed", 0, i>> /\ n = g[i]) <=>
               \/ \E i \in DOMAIN h : x = <<"handed", 0, i>> /\ n = h[i]
               \/ x = <<"handed", 0, Len(h) + 1>> /\ n = r
  BY <1>2, <1>3
<1>5. ASSUME NEW x, NEW n
      PROVE  /\ HandedToken(x, n)' <=> \E i \in DOMAIN g : x = <<"handed", 0, i>> /\ n = g[i]
             /\ HandedToken(x, n) <=> \E i \in DOMAIN h : x = <<"handed", 0, i>> /\ n = h[i]
  BY <1>1 DEF HandedToken
<1> HIDE DEF HandedToken
<1> QED
  BY <1>1, <1>4, <1>5

\* A connection is closed or given up when no task is left in it.
LEMMA DropTokens ==
  ASSUME LineInv, conn' = NoConn, cur' = NoLink, UNCHANGED <<work, queue>>,
         conn.handed = <<>>,
         \A j \in 1 .. Len(cur.msgs) : j > conn.tid => cur.msgs[j].task = Empty
  PROVE  SameTokens
<1>1. Places' = Places /\ (\A i \in Places : i # 0 => At(i)' = At(i)) /\ At(0)' = NoLink
  BY DEF Places, At
<1>2. At(0) = cur /\ NoLink.msgs = <<>> /\ conn'.handed = <<>> /\ 1 .. Len(<<>>) = {}
  BY Kinds, LineFacts
<1>3. ASSUME NEW x, NEW n \in Task
      PROVE  Carries(x, n)' <=> Carries(x, n)
  <2>1. WorkToken(x, n)' <=> WorkToken(x, n)
    BY DEF WorkToken
  <2>2. ~ HandedToken(x, n) /\ ~ HandedToken(x, n)'
    BY <1>2 DEF HandedToken
  <2>3. n # Empty
    BY Numbers
  <2>4. ASSUME MsgToken(x, n)
        PROVE  MsgToken(x, n)'
    <3>1. PICK i \in Places : \E j \in 1 .. Len(At(i).msgs) :
            x = <<"msg", i, j>> /\ (i = 0 => j > conn.tid) /\ n = At(i).msgs[j].task
      BY <2>4 DEF MsgToken
    <3>2. i # 0
      BY <1>2, <2>3, <3>1
    <3> QED
      BY <1>1, <3>1, <3>2 DEF MsgToken
  <2>5. ASSUME MsgToken(x, n)'
        PROVE  MsgToken(x, n)
    <3>1. PICK i \in Places' : \E j \in 1 .. Len(At(i)'.msgs) :
            x = <<"msg", i, j>> /\ n = At(i)'.msgs[j].task
      BY <2>5 DEF MsgToken
    <3>2. i # 0
      BY <1>1, <1>2, <3>1
    <3> QED
      BY <1>1, <3>1, <3>2 DEF MsgToken
  <2> QED
    BY <2>1, <2>2, <2>4, <2>5 DEF Carries
<1> QED
  BY <1>3 DEF SameTokens

\* A delivery moves the batch that was handed out to the threads.
LEMMA DeliverTokens ==
  ASSUME LineInv, TidyInv, CloseAndDeliver, cur.cl # nobody, NEW n \in Task
  PROVE  /\ Somewhere(n)' <=> Somewhere(n)
         /\ Lone(n) => Lone(n)'
<1>1. PICK p : p = cur.cl
  OBVIOUS
<1>2. /\ p \in Client /\ phase[p] = "asking" /\ work[p] = <<>>
      /\ work' = [work EXCEPT ![p] = conn.handed]
      /\ cur' = NoLink /\ conn' = NoConn /\ UNCHANGED queue
      /\ conn.tid = conn.size /\ conn # NoConn
  <2>1. p \in Client /\ phase[p] = "asking"
    BY <1>1, LineFacts DEF LineInv, LinkGood, LinkOK
  <2> QED
    BY <1>1, <2>1 DEF TidyInv, NoWorkKept, CloseAndDeliver, Close, GiveUp
<1>3. /\ Places' = Places /\ (\A i \in Places : i # 0 => At(i)' = At(i)) /\ At(0)' = NoLink
      /\ At(0) = cur /\ NoLink.msgs = <<>> /\ conn'.handed = <<>>
      /\ 1 .. Len(<<>>) = {} /\ DOMAIN <<>> = {}
  BY <1>2, Kinds, LineFacts DEF Places, At
<1>4. ASSUME NEW j \in 1 .. Len(cur.msgs)
      PROVE  ~ (j > conn.tid)
  <2>1. Len(cur.msgs) <= cur.size /\ cur.size = conn.size /\ cur \in Link
    BY <1>2, LineFacts DEF LineInv, LinkGood, LinkOK, ConnOK
  <2>2. cur.size \in Int /\ Len(cur.msgs) \in Int
    BY <2>1 DEF Link
  <2> QED
    BY <1>2, <2>1, <2>2
<1> DEFINE Other(x) == \E q \in Client \ {p} : \E t \in DOMAIN work[q] :
                         x = <<"work", q, t>> /\ n = work[q][t]
           Far(x) == \E i \in Places \ {0} : \E j \in 1 .. Len(At(i).msgs) :
                       x = <<"msg", i, j>> /\ n = At(i).msgs[j].task
           Given(x) == \E t \in DOMAIN conn.handed :
                         x = <<"work", p, t>> /\ n = conn.handed[t]
<1>5. ASSUME NEW x
      PROVE  Carries(x, n) <=> Other(x) \/ Far(x) \/ HandedToken(x, n)
  <2>1. WorkToken(x, n) <=> Other(x)
    BY <1>2, <1>3 DEF WorkToken
  <2>2. MsgToken(x, n) <=> Far(x)
    BY <1>3, <1>4 DEF MsgToken
  <2> QED
    BY <2>1, <2>2 DEF Carries
<1>6. ASSUME NEW x
      PROVE  Carries(x, n)' <=> Other(x) \/ Far(x) \/ Given(x)
  <2>1. \A q \in Client : work'[q] = IF q = p THEN conn.handed ELSE work[q]
    BY <1>2 DEF LineInv
  <2>2. WorkToken(x, n)' <=> Other(x) \/ Given(x)
    BY <1>2, <2>1 DEF WorkToken
  <2>3. MsgToken(x, n)' => Far(x)
    <3>1. SUFFICES ASSUME NEW i \in Places', NEW j \in 1 .. Len(At(i)'.msgs),
                          x = <<"msg", i, j>>, n = At(i)'.msgs[j].task
                   PROVE  Far(x)
      BY DEF MsgToken
    <3>2. i # 0
      BY <1>3, <3>1
    <3> QED
      BY <1>3, <3>1, <3>2
  <2>4. Far(x) => MsgToken(x, n)'
    BY <1>3 DEF MsgToken
  <2>5. ~ HandedToken(x, n)'
    BY <1>3 DEF HandedToken
  <2> QED
    BY <2>2, <2>3, <2>4, <2>5 DEF Carries
<1>7. ASSUME NEW x, Given(x)
      PROVE  \E t : x = <<"work", p, t>> /\ Carries(<<"handed", 0, t>>, n)
  BY <1>5, <1>7 DEF HandedToken
<1>8. ASSUME NEW x, HandedToken(x, n)
      PROVE  \E y : Given(y)
  BY <1>8 DEF HandedToken
<1>9. ASSUME NEW x, Other(x) \/ Far(x)
      PROVE  \A t : x # <<"handed", 0, t>>
  BY <1>9, TokenFacts
<1> HIDE DEF Other, Far, Given
<1>10. Somewhere(n)' <=> Somewhere(n)
  BY <1>5, <1>6, <1>7, <1>8 DEF Somewhere
<1>11. ASSUME Lone(n), NEW x, NEW y, Carries(x, n)', Carries(y, n)'
       PROVE  x = y
  <2>1. \A z, w : Carries(z, n) /\ Carries(w, n) => z = w
    BY <1>11 DEF Lone
  <2>2. CASE (Other(x) \/ Far(x)) /\ (Other(y) \/ Far(y))
    BY <1>5, <2>1, <2>2
  <2>3. ASSUME NEW z, NEW w, Other(z) \/ Far(z), Given(w)
        PROVE  FALSE
    BY <1>5, <1>7, <1>9, <2>1, <2>3
  <2>4. ASSUME Given(x), Given(y)
        PROVE  x = y
    <3>1. PICK t : x = <<"work", p, t>> /\ Carries(<<"handed", 0, t>>, n)
      BY <1>7, <2>4
    <3>2. PICK u : y = <<"work", p, u>> /\ Carries(<<"handed", 0, u>>, n)
      BY <1>7, <2>4
    <3>3. <<"handed", 0, t>> = <<"handed", 0, u>>
      BY <2>1, <3>1, <3>2
    <3> QED
      BY <3>1, <3>2, <3>3, TokenFacts
  <2> QED
    BY <1>6, <1>11, <2>2, <2>3, <2>4
<1> QED
  BY <1>10, <1>11 DEF Lone

-----------------------------------------------------------------------------
(* Nothing is lost, and nothing is doubled. *)

\* Without faults only whole requests stand in the line, and the server
\* does not stop once it has begun.
LEMMA CalmLine ==
  ASSUME LineInv, CalmInv, [SysNext]_sysVars, calm'
  PROVE  /\ calm /\ UNCHANGED mode
         /\ ~up' => assigned' = {} /\ complete' = {}
         /\ \A i \in Places' : AskedInFull(At(i))'
<1>1. calm /\ UNCHANGED mode
  <2>1. ServerStep => calm' \in {calm, FALSE}
    BY DEF ServerStep, AcceptNext, Serve, ReplyFails, EndOfBatch, ConnectionFails,
           CloseAndDeliver, ServerDies, ServerStarts, Fault
  <2>2. calm' \in {calm, FALSE}
    BY <2>1, ClientOthers DEF SysNext, sysVars
  <2> QED
    BY <2>2, ServerWaiters, ClientOthers DEF SysNext, sysVars
<1>2. /\ ~up => assigned = {} /\ complete = {}
      /\ \A i \in Places : AskedInFull(At(i))
  BY <1>1 DEF CalmInv
<1>3. AskedInFull(NoLink)
  BY Kinds DEF AskedInFull
<1>4. ASSUME ServerStep
      PROVE  up' /\ \A i \in Places' : AskedInFull(At(i))'
  <2>1. ~ ServerDies
    BY DEF ServerDies, Fault
  <2>2. up'
    <3>1. AcceptNext \/ EndOfBatch \/ ConnectionFails \/ CloseAndDeliver => up' = up /\ up
      BY DEF AcceptNext, Accept, EndOfBatch, ConnectionFails, CloseAndDeliver, Abort, Close
    <3>2. ReplyFails => up'
      BY DEF ReplyFails, RequestFails, MissedFails, Serving
    <3>3. ServerStarts => up'
      BY DEF ServerStarts, Start
    <3> QED
      BY <1>4, <2>1, <3>1, <3>2, <3>3, ServeConn DEF ServerStep
  <2>3. PICK s \in {0, 1} : \A i \in Places' :
          At(i)' = NoLink \/ (i + s \in Places /\ At(i)' = At(i + s))
    BY <1>4, ServerMoves
  <2> QED
    BY <1>2, <1>3, <2>2, <2>3 DEF AskedInFull
<1>5. ASSUME NEW p \in Client, ClientStep(p)
      PROVE  /\ UNCHANGED <<up, assigned, complete>>
             /\ \A i \in Places' : AskedInFull(At(i))'
  <2>1. UNCHANGED <<up, assigned, complete, conn>>
    BY <1>5, ClientOthers DEF vars
  <2>2. CASE UNCHANGED <<queue, cur>>
    <3>1. Places' = Places /\ \A i \in Places : At(i)' = At(i)
      BY <2>2 DEF Places, At
    <3> QED
      BY <1>2, <2>1, <3>1 DEF AskedInFull
  <2>3. ASSUME NEW k \in Link, Connect(k), UNCHANGED cur, AskedInFull(k)
        PROVE  \A i \in Places' : AskedInFull(At(i))'
    <3>1. /\ \A i \in Places : At(i)' = At(i)
          /\ \A i \in Places' : i \notin Places => At(i)' = k
      BY <2>3, ConnectMoves
    <3> QED
      BY <1>2, <2>3, <3>1 DEF AskedInFull
  <2>4. ASSUME Ask(p)
        PROVE  \A i \in Places' : AskedInFull(At(i))'
    <3>1. PICK k : k = [cl |-> p, kind |-> mode[p], size |-> Threads[p],
                        msgs |-> [t \in 1 .. Threads[p] |-> NoMessage]]
      OBVIOUS
    <3>2. UNCHANGED cur /\ Connect(k)
      BY <2>4, <3>1 DEF Ask
    <3>3. phase'[p] = "asking" /\ Threads[p] \in Nat
      <4>1. phase' = [phase EXCEPT ![p] = "asking"] /\ phase \in [Client -> Phase]
        BY <2>4 DEF Ask, LineInv, SysTypeOK
      <4>2. Threads[p] \in Nat
        BY ResidueSystemAssumption, MaxThreadsAssumption
      <4> QED
        BY <4>1, <4>2
    <3>4. k \in Link
      BY <1>1, <3>1, <3>3, RequestGood
    <3>5. Len(k.msgs) = Threads[p]
      <4>1. ASSUME NEW f, f = [t \in 1 .. Threads[p] |-> NoMessage]
            PROVE  Len(f) = Threads[p]
        BY <3>3, <4>1
      <4> QED
        BY <3>1, <4>1
    <3>6. k.cl = p /\ k.size = Threads[p] /\ p # nobody
      BY <3>1, ResidueSystemAssumption
    <3>7. AskedInFull(k)
      BY <3>5, <3>6 DEF AskedInFull
    <3> QED
      BY <2>3, <3>2, <3>4, <3>7
  <2>5. ASSUME ReportSent(p)
        PROVE  \A i \in Places' : AskedInFull(At(i))'
    <3>1. PICK k : k = Batch(p, Threads[p])
      OBVIOUS
    <3>2. Threads[p] \in 1 .. Threads[p]
      BY ResidueSystemAssumption, MaxThreadsAssumption
    <3>3. Connect(k) /\ UNCHANGED <<cur, computed>> /\ phase[p] \in {"returning", "revoking"}
      BY <2>5, <3>1 DEF ReportSent
    <3>4. k \in Link /\ k.kind \in ReportKind
      BY <3>1, <3>2, <3>3, ReportGood DEF ReportKind
    <3>5. AskedInFull(k)
      BY <3>4, Kinds DEF AskedInFull
    <3> QED
      BY <2>3, <3>3, <3>4, <3>5
  <2>6. ~ AskFails(p) /\ ~ ClientStops(p) /\ \A k : ~ ReportFails(p, k)
    BY DEF AskFails, ClientStops, ReportFails, Fault
  <2>7. RunSucceeds(p) \/ RunFails(p) \/ ClientStarts(p) => UNCHANGED <<queue, cur>>
    BY DEF RunSucceeds, RunFails, ClientStarts
  <2> QED
    BY <1>5, <2>1, <2>2, <2>4, <2>5, <2>6, <2>7 DEF ClientStep
<1>6. ASSUME UNCHANGED sysVars
      PROVE  /\ UNCHANGED <<up, assigned, complete>>
             /\ \A i \in Places' : AskedInFull(At(i))'
  <2>1. UNCHANGED <<up, assigned, complete, queue, cur>>
    BY <1>6 DEF sysVars, vars
  <2>2. Places' = Places /\ \A i \in Places : At(i)' = At(i)
    BY <2>1 DEF Places, At
  <2> QED
    BY <1>2, <2>1, <2>2 DEF AskedInFull
<1> QED
  BY <1>1, <1>2, <1>4, <1>5, <1>6 DEF SysNext

\* Handing out a task puts the one just assigned in sight; unless missed
\* tasks are asked for it was free before, and so in no other place.
LEMMA HandedOutTokens ==
  ASSUME LineInv, Serve, RequestServed \/ \E m \in 0 .. LastBit : MissedServed(m),
         NEW n \in Task
  PROVE  /\ InSight(n) => InSight(n)'
         /\ Once(n) /\ conn.kind # "req" => Once(n)'
<1>1. /\ conn.tid < Len(cur.msgs) /\ UNCHANGED work /\ UNCHANGED queue
      /\ conn.kind \in RequestKind /\ NumTasks \in Nat /\ MaxThreads \in Nat
      /\ lu \in 0 .. NumTasks /\ lu = Scan(assigned, 0) /\ n # Empty
  BY Numbers, MaxThreadsAssumption
  DEF Serve, RequestServed, MissedServed, Serving, RequestKind,
      LineInv, PointersExact, SysTypeOK, TypeOK
<1>2. PICK r \in 0 .. NumTasks :
        /\ NextMessage(<<r>>)
        /\ \/ assigned' = assigned \/ assigned' = assigned \cup {r}
           \/ \E i : i > NumTasks /\ i \in Nat /\ assigned' = assigned \cup {i}
        /\ complete' = complete
        /\ conn.kind # "req" => r = lu /\ (r # Empty => r \in assigned')
  <2>1. CASE RequestServed
    <3>1. Reply(lu) = lu
      BY <1>1 DEF Reply, Empty
    <3>2. NextMessage(<<lu>>) /\ GetAssignment /\ complete' = complete
      BY <2>1, <3>1 DEF RequestServed
    <3> QED
      BY <1>1, <3>2 DEF GetAssignment, Empty
  <2>2. ASSUME NEW m \in 0 .. LastBit, MissedServed(m)
        PROVE  \E r \in 0 .. NumTasks :
        /\ NextMessage(<<r>>)
        /\ \/ assigned' = assigned \/ assigned' = assigned \cup {r}
           \/ \E i : i > NumTasks /\ i \in Nat /\ assigned' = assigned \cup {i}
        /\ complete' = complete
        /\ conn.kind # "req" => r = lu /\ (r # Empty => r \in assigned')
    <3>1. conn.kind = "req" /\ NextMessage(<<Reply(m)>>) /\ complete' = complete
      BY <2>2 DEF MissedServed, Serving
    <3>2. (assigned' = assigned /\ m = NumTasks) \/ assigned' = assigned \cup {m}
      BY <2>2 DEF MissedServed, GetMissedAssignment
    <3>3. m \in Nat
      BY <1>1 DEF LastBit
    <3>4. CASE m <= NumTasks
      <4>1. Reply(m) = m /\ m \in 0 .. NumTasks
        BY <1>1, <3>3, <3>4 DEF Reply, Empty
      <4> QED
        BY <3>1, <3>2, <4>1
    <3>5. CASE m > NumTasks
      <4>1. Reply(m) = NumTasks /\ NumTasks \in 0 .. NumTasks
        BY <1>1, <3>3, <3>5 DEF Reply, Empty
      <4> QED
        BY <3>1, <3>2, <3>3, <3>5, <4>1
    <3> QED
      BY <1>1, <3>3, <3>4, <3>5
  <2> QED
    BY <2>1, <2>2
<1>3. /\ UNCHANGED cur /\ conn'.tid = conn.tid + 1 /\ NextMsg.task = Empty
  <2>1. conn'.tid = conn.tid + 1 /\ conn'.kind = conn.kind
    BY <1>2, OneReply DEF LineInv, SysTypeOK
  <2>2. conn' # NoConn
    BY <1>1, <2>1, Kinds
  <2>3. UNCHANGED cur
    BY <2>2 DEF Serve, Notify
  <2> QED
    BY <1>1, <2>1, <2>3, NextMsgFacts DEF MsgOK
<1>4. PICK new : new = <<"handed", 0, Len(conn.handed) + 1>>
  OBVIOUS
<1>5. ASSUME NEW x
      PROVE  Carries(x, n)' <=> Carries(x, n) \/ (x = new /\ n = r)
  <2>1. WorkToken(x, n)' <=> WorkToken(x, n)
    BY <1>1 DEF WorkToken
  <2>2. HandedToken(x, n)' <=> HandedToken(x, n) \/ (x = new /\ n = r)
    BY <1>2, <1>4, HandToken
  <2>3. PICK read : read = <<"msg", 0, conn.tid + 1>>
    OBVIOUS
  <2>4. /\ MsgToken(x, n)' <=> MsgToken(x, n) /\ x # read
        /\ Carries(read, n) <=> n = NextMsg.task
    BY <1>1, <1>3, <2>3, ReadToken
  <2>5. MsgToken(x, n) => x # read
    BY <1>1, <1>3, <2>4 DEF Carries
  <2> QED
    BY <2>1, <2>2, <2>4, <2>5 DEF Carries
<1>6. n \in assigned' => n \in assigned \/ n = r
  BY <1>1, <1>2 DEF Task
<1>7. InSight(n) => InSight(n)'
  <2>1. SUFFICES ASSUME InSight(n), n \in assigned', n \notin complete'
                 PROVE  Somewhere(n)'
    BY DEF InSight
  <2>2. CASE n = r
    <3>1. Carries(new, n)'
      BY <1>5, <2>2
    <3> QED
      BY <3>1 DEF Somewhere
  <2>3. CASE n # r
    <3>1. Somewhere(n)
      BY <1>2, <1>6, <2>1, <2>3 DEF InSight
    <3> QED
      BY <1>5, <3>1 DEF Somewhere
  <2> QED
    BY <2>2, <2>3
<1>8. ASSUME Once(n), conn.kind # "req"
      PROVE  Once(n)'
  <2>1. CASE n = r
    <3>1. r = lu /\ r \in assigned'
      BY <1>1, <1>2, <1>8, <2>1
    <3>2. lu \notin assigned
      <4>1. 0 \in 0 .. NumTasks /\ lu # NumTasks
        BY <1>1, <2>1, <3>1 DEF Empty
      <4> QED
        BY <1>1, <4>1, ScanSpec DEF IsEnd
    <3>3. \A x : ~ Carries(x, n)
      BY <1>8, <2>1, <3>1, <3>2 DEF Once, Somewhere
    <3>4. \A x : Carries(x, n)' => x = new
      BY <1>5, <3>3
    <3> QED
      BY <2>1, <3>1, <3>4 DEF Once, Lone
  <2>2. CASE n # r
    <3>1. \A x : Carries(x, n)' <=> Carries(x, n)
      BY <1>5, <2>2
    <3>2. n \in assigned => n \in assigned'
      BY <1>2
    <3> QED
      BY <1>8, <3>1, <3>2 DEF Once, Lone, Somewhere
  <2> QED
    BY <2>1, <2>2
<1> QED
  BY <1>7, <1>8

\* A report that is read settles the fate of its task: it is complete, or
\* free again, or was not assigned at all.
LEMMA SettledTokens ==
  ASSUME LineInv, Serve,
         \/ ReturnUnassigned(NextMsg.task, NextMsg.result)
         \/ ReturnAccepted(NextMsg.task, NextMsg.result)
         \/ InterruptAccepted(NextMsg.task),
         NEW n \in Task
  PROVE  (InSight(n) => InSight(n)') /\ (Once(n) => Once(n)')
<1>1. PICK m, r : m = NextMsg.task /\ r = NextMsg.result
  OBVIOUS
<1>2. /\ conn.kind \in ReportKind /\ NextMessage(<<>>)
      /\ assigned' = assigned \/ assigned' = assigned \ {m}
      /\ complete' = complete \/ complete' = complete \cup {m}
      /\ m \notin assigned' \/ m \in complete'
      /\ conn.tid < Len(cur.msgs) /\ UNCHANGED <<work, queue>> /\ Notify
  <2>1. ReturnUnassigned(m, r) \/ ReturnAccepted(m, r) \/ InterruptAccepted(m)
    BY <1>1
  <2>2. conn.tid < Len(cur.msgs) /\ UNCHANGED <<work, queue>> /\ Notify
    BY DEF Serve
  <2> QED
    BY <2>1, <2>2 DEF ReturnUnassigned, ReturnAccepted, InterruptAccepted, SetComplete,
                      UnsetAssignment, Serving, ReportKind
<1>3. UNCHANGED cur /\ conn'.tid = conn.tid + 1 /\ conn'.handed = conn.handed
  <2>1. conn \in Conn
    BY DEF LineInv, SysTypeOK, TypeOK
  <2>2. /\ conn'.tid = conn.tid + 1 /\ conn'.kind = conn.kind
        /\ conn'.handed = conn.handed \o <<>> /\ conn.handed = <<>>
    BY <1>2, <2>1, Kinds DEF NextMessage, Conn, LineInv, ConnOK
  <2>3. conn' # NoConn
    BY <1>2, <2>2, Kinds
  <2> QED
    BY <1>2, <2>2, <2>3 DEF Notify
<1>4. PICK read : read = <<"msg", 0, conn.tid + 1>>
  OBVIOUS
<1>5. \A x, i : MsgToken(x, i)' <=> MsgToken(x, i) /\ x # read
  BY <1>2, <1>3, <1>4, ReadToken
<1>6. \A i : Carries(read, i) <=> i = m
  BY <1>1, <1>2, <1>3, <1>4, ReadToken
<1>7. ASSUME NEW x
      PROVE  Carries(x, n)' <=> Carries(x, n) /\ x # read
  <2>1. WorkToken(x, n)' <=> WorkToken(x, n)
    BY <1>2 DEF WorkToken
  <2>2. HandedToken(x, n)' <=> HandedToken(x, n)
    BY <1>3 DEF HandedToken
  <2>3. WorkToken(x, n) \/ HandedToken(x, n) => x # read
    BY <1>4, TokenFacts DEF WorkToken, HandedToken
  <2> QED
    BY <1>5, <2>1, <2>2, <2>3 DEF Carries
<1>8. CASE n = m
  <2>1. InSight(n)'
    BY <1>2, <1>8 DEF InSight
  <2>2. Lone(n) => ~ Somewhere(n)'
    BY <1>6, <1>7, <1>8 DEF Lone, Somewhere
  <2>3. Lone(n) => Lone(n)'
    BY <1>7 DEF Lone
  <2> QED
    BY <2>1, <2>2, <2>3 DEF Once
<1>9. CASE n # m
  <2>1. \A x : Carries(x, n)' <=> Carries(x, n)
    BY <1>6, <1>7, <1>9
  <2>2. (Somewhere(n)' <=> Somewhere(n)) /\ (Lone(n)' <=> Lone(n))
    BY <2>1 DEF Somewhere, Lone
  <2>3. (n \in assigned' <=> n \in assigned) /\ (n \in complete' <=> n \in complete)
    BY <1>2, <1>9
  <2> QED
    BY <2>2, <2>3, NothingMoves
<1> QED
  BY <1>8, <1>9

\* The server loses no task out of sight, and doubles none.
LEMMA ServerCalmStep ==
  ASSUME LineInv, TidyInv, CalmInv, ServerStep, calm, calm', NEW n \in Task
  PROVE  /\ InSight(n) => InSight(n)'
         /\ Once(n) /\ NoMissed => Once(n)'
<1>1. \A i \in Places : AskedInFull(At(i)) /\ RevokesFirst(At(i)) /\ LinkOK(At(i))
  BY DEF CalmInv, TidyInv, LineInv, LinkGood
<1>2. AskedInFull(cur) /\ RevokesFirst(cur) /\ LinkOK(cur)
  BY <1>1, LineFacts
<1>3. ASSUME SameTokens, assigned' = assigned, complete' = complete
      PROVE  (InSight(n) => InSight(n)') /\ (Once(n) => Once(n)')
  BY <1>3, SameStays, NothingMoves
<1>4. ASSUME AcceptNext
      PROVE  (InSight(n) => InSight(n)') /\ (Once(n) => Once(n)')
  <2>1. UNCHANGED <<assigned, complete>>
    BY <1>4 DEF AcceptNext, Accept
  <2> QED
    BY <1>4, <2>1, AcceptTokens, NothingMoves
<1>5. ASSUME Serve
      PROVE  /\ InSight(n) => InSight(n)'
             /\ Once(n) /\ NoMissed => Once(n)'
  <2> DEFINE m == NextMsg
  <2>1. CASE RequestServed \/ \E i \in 0 .. LastBit : MissedServed(i)
    <3>1. ASSUME conn.kind = "req"
          PROVE  ~ NoMissed
      <4>1. cur.kind = "req"
        BY <1>5, <3>1, NextMsgFacts DEF Serve
      <4>2. "req" \in RequestKind
        BY DEF RequestKind
      <4> QED
        BY <1>2, <4>1, <4>2 DEF AskedInFull, LinkOK, NoMissed
    <3> QED
      BY <1>5, <2>1, <3>1, HandedOutTokens
  <2>2. CASE \/ ReturnUnassigned(m.task, m.result) \/ ReturnAccepted(m.task, m.result)
             \/ InterruptAccepted(m.task)
    BY <1>5, <2>2, SettledTokens
  <2>3. ~ ReturnRefused(m.task, m.result)
    <3>1. conn.kind = "RET" => m.task \in Task /\ m.result = Truth[m.task]
      BY <1>5, NextMsgFacts DEF Serve
    <3> HIDE DEF m
    <3> QED
      BY <3>1, Numbers DEF ReturnRefused, Serving
  <2>4. CASE InterruptRefused(m.task)
    <3>1. /\ conn.kind = "INT" /\ m.task = Empty /\ GiveUp
          /\ UNCHANGED <<assigned, complete>>
      BY <2>4 DEF InterruptRefused, Serving
    <3>2. conn' = NoConn /\ cur' = NoLink /\ UNCHANGED <<work, queue>>
      BY <1>5, <3>1 DEF Serve, Notify, GiveUp
    <3>3. conn.handed = <<>> /\ cur.kind = "INT"
      BY <1>5, <3>1, NextMsgFacts, Kinds DEF Serve, LineInv, ConnOK, ReportKind
    <3>4. PICK c : c = conn.tid
      OBVIOUS
    <3>5. c \in Nat /\ c + 1 \in 1 .. Len(cur.msgs) /\ cur.msgs[c + 1].task = Empty
      BY <1>5, <3>1, <3>4, NextMsgFacts DEF Serve, NextMsg, LineInv, SysTypeOK, TypeOK, Conn
    <3>6. ASSUME NEW j \in 1 .. Len(cur.msgs), j > conn.tid
          PROVE  cur.msgs[j].task = Empty
      <4>1. j = c + 1 \/ c + 1 < j
        BY <3>4, <3>5, <3>6
      <4> QED
        BY <1>2, <3>3, <3>5, <4>1 DEF RevokesFirst
    <3>7. SameTokens
      BY <3>2, <3>3, <3>6, DropTokens
    <3> QED
      BY <1>3, <3>1, <3>7
  <2> QED
    BY <1>5, <2>1, <2>2, <2>3, <2>4 DEF Serve, Handled
<1>6. ASSUME EndOfBatch
      PROVE  (InSight(n) => InSight(n)') /\ (Once(n) => Once(n)')
  <2>1. /\ conn.tid = Len(cur.msgs) /\ conn.tid < conn.size /\ Notify /\ GiveUp
        /\ UNCHANGED <<work, queue, assigned, complete>>
    BY <1>6 DEF EndOfBatch, Abort
  <2>2. conn' = NoConn /\ cur' = NoLink
    BY <2>1 DEF Notify, GiveUp
  <2>3. conn # NoConn
    BY <2>1, Kinds
  <2>4. conn.kind = cur.kind /\ conn.size = cur.size /\ conn \in Conn
    BY <2>3 DEF LineInv, ConnOK, SysTypeOK, TypeOK
  <2>5. conn.kind \notin RequestKind
    <3>1. conn.tid \in Int /\ conn.size \in Int
      BY <2>4, MaxThreadsAssumption DEF Conn
    <3> QED
      BY <1>2, <2>1, <2>4, <3>1 DEF AskedInFull
  <2>6. conn.handed = <<>>
    BY <2>5 DEF LineInv, ConnOK
  <2>7. \A j \in 1 .. Len(cur.msgs) : ~ (j > conn.tid)
    BY <2>1, <2>4, MaxThreadsAssumption DEF Conn
  <2>8. SameTokens
    BY <2>1, <2>2, <2>6, <2>7, DropTokens
  <2> QED
    BY <1>3, <2>1, <2>8
<1>7. ASSUME CloseAndDeliver
      PROVE  (InSight(n) => InSight(n)') /\ (Once(n) => Once(n)')
  <2>1. /\ conn.tid = conn.size /\ conn # NoConn /\ conn' = NoConn /\ cur' = NoLink
        /\ UNCHANGED <<queue, assigned, complete>>
    BY <1>7 DEF CloseAndDeliver, Close, GiveUp
  <2>2. CASE cur.cl # nobody
    BY <1>7, <2>1, <2>2, DeliverTokens, NothingMoves
  <2>3. CASE cur.cl = nobody
    <3>1. conn.kind = cur.kind /\ conn.size = cur.size /\ cur \in Link
      BY <2>1 DEF LineInv, ConnOK
    <3>2. conn.kind \notin RequestKind
      BY <1>2, <2>3, <3>1 DEF AskedInFull
    <3>3. conn.handed = <<>>
      BY <3>2 DEF LineInv, ConnOK
    <3>4. \A j \in 1 .. Len(cur.msgs) : ~ (j > conn.tid)
      <4>1. Len(cur.msgs) <= cur.size /\ cur.size \in Int /\ Len(cur.msgs) \in Int
        BY <1>2, <3>1 DEF LinkOK, Link
      <4> QED
        BY <2>1, <3>1, <4>1
    <3>5. UNCHANGED work
      BY <1>7, <2>3 DEF CloseAndDeliver
    <3>6. SameTokens
      BY <2>1, <3>3, <3>4, <3>5, DropTokens
    <3> QED
      BY <1>3, <2>1, <3>6
  <2> QED
    BY <2>2, <2>3
<1>8. ASSUME ServerStarts
      PROVE  (InSight(n) => InSight(n)') /\ (Once(n) => Once(n)')
  <2>1. PICK o \in Options : Start(o)
    BY <1>8 DEF ServerStarts
  <2>2. ~up /\ assigned' \subseteq assigned \cup complete /\ conn' = conn
    BY <2>1, StartFacts DEF LineInv, SysTypeOK
  <2>3. assigned = {} /\ complete = {}
    BY <2>2 DEF CalmInv
  <2>4. n \notin assigned' /\ n \notin assigned
    BY <2>2, <2>3
  <2>5. SameTokens
    BY <1>8, <2>2, QuietTokens DEF ServerStarts
  <2>6. (Somewhere(n)' <=> Somewhere(n)) /\ (Lone(n)' <=> Lone(n))
    BY <2>5, SameStays
  <2> QED
    BY <2>4, <2>6 DEF InSight, Once
<1>9. ~ ReplyFails /\ ~ ConnectionFails /\ ~ ServerDies
  BY DEF ReplyFails, ConnectionFails, ServerDies, Fault
<1> QED
  BY <1>4, <1>5, <1>6, <1>7, <1>8, <1>9 DEF ServerStep

\* Nor does a client.
LEMMA ClientCalmStep ==
  ASSUME LineInv, NEW p \in Client, ClientStep(p), calm', NEW n \in Task
  PROVE  (InSight(n) => InSight(n)') /\ (Once(n) => Once(n)')
<1>1. UNCHANGED <<assigned, complete, conn>>
  BY ClientOthers DEF vars
<1>2. ~ AskFails(p) /\ ~ ClientStops(p) /\ \A k : ~ ReportFails(p, k)
  BY DEF AskFails, ClientStops, ReportFails, Fault
<1>3. ASSUME SameTokens
      PROVE  (InSight(n) => InSight(n)') /\ (Once(n) => Once(n)')
  BY <1>1, <1>3, SameStays, NothingMoves
<1>4. RunSucceeds(p) \/ RunFails(p) \/ ClientStarts(p) => SameTokens
  BY <1>1, QuietTokens DEF RunSucceeds, RunFails, ClientStarts
<1>5. Ask(p) => SameTokens
  BY AskTokens
<1>6. ReportSent(p) => (InSight(n) => InSight(n)') /\ (Once(n) => Once(n)')
  BY <1>1, ReportTokens, NothingMoves
<1> QED
  BY <1>2, <1>3, <1>4, <1>5, <1>6 DEF ClientStep

\* So every step keeps track of the tasks.
LEMMA CalmStep ==
  ASSUME LineInv, TidyInv, CalmInv, SingleInv, [SysNext]_sysVars
  PROVE  CalmInv' /\ SingleInv'
<1>1. SUFFICES ASSUME calm' PROVE CalmInv' /\ SingleInv'
  BY DEF CalmInv, SingleInv
<1>2. /\ calm /\ UNCHANGED mode
      /\ ~up' => assigned' = {} /\ complete' = {}
      /\ \A i \in Places' : AskedInFull(At(i))'
  BY <1>1, CalmLine
<1>3. ASSUME NEW n \in Task
      PROVE  /\ InSight(n) => InSight(n)'
             /\ Once(n) /\ NoMissed => Once(n)'
  <2>1. ASSUME UNCHANGED sysVars
        PROVE  (InSight(n) => InSight(n)') /\ (Once(n) => Once(n)')
    <3>1. UNCHANGED <<work, queue, cur, conn, assigned, complete>>
      BY <2>1 DEF sysVars, vars
    <3>2. SameTokens
      BY <3>1, QuietTokens
    <3> QED
      BY <3>1, <3>2, SameStays, NothingMoves
  <2>2. ServerStep => /\ InSight(n) => InSight(n)'
                      /\ Once(n) /\ NoMissed => Once(n)'
    BY <1>1, <1>2, ServerCalmStep
  <2>3. ASSUME NEW p \in Client, ClientStep(p)
        PROVE  (InSight(n) => InSight(n)') /\ (Once(n) => Once(n)')
    BY <1>1, <2>3, ClientCalmStep
  <2> QED
    BY <2>1, <2>2, <2>3 DEF SysNext
<1>4. CalmInv'
  <2>1. NoneLost'
    BY <1>2, <1>3 DEF CalmInv, NoneLost
  <2> QED
    BY <1>2, <2>1 DEF CalmInv
<1>5. SingleInv'
  <2>1. SUFFICES ASSUME NoMissed' PROVE NoneTwice'
    BY DEF SingleInv
  <2>2. NoMissed
    BY <1>2, <2>1 DEF NoMissed
  <2>3. NoneTwice
    BY <1>2, <2>2 DEF SingleInv
  <2> QED
    BY <1>3, <2>2, <2>3 DEF NoneTwice
<1> QED
  BY <1>4, <1>5

\* They hold at the start: nobody has a task.
LEMMA CalmInit ==
  ASSUME SysInit
  PROVE  TidyInv /\ CalmInv /\ SingleInv
<1>1. /\ work = [p \in Client |-> <<>>] /\ queue = <<>> /\ cur = NoLink
      /\ conn = NoConn /\ assigned = {} /\ complete = {}
      /\ Len(<<>>) = 0 /\ DOMAIN <<>> = {} /\ 1 .. 0 = {}
  BY DEF SysInit, Init
<1>2. Places = {0} /\ At(0) = NoLink
  BY <1>1 DEF Places, At
<1>3. TidyInv
  BY <1>1, <1>2 DEF TidyInv, RevokesFirst, EmptiesLast, NoWorkKept, NoLink
<1>4. \A x, n : ~ Carries(x, n)
  <2>1. \A x, n : ~ WorkToken(x, n)
    BY <1>1 DEF WorkToken
  <2>2. \A x, n : ~ HandedToken(x, n)
    BY <1>1, Kinds DEF HandedToken
  <2>3. \A x, n : ~ MsgToken(x, n)
    BY <1>1, <1>2, Kinds DEF MsgToken
  <2> QED
    BY <2>1, <2>2, <2>3 DEF Carries
<1>5. CalmInv
  BY <1>1, <1>2, Kinds DEF CalmInv, AskedInFull, NoneLost, InSight
<1>6. SingleInv
  BY <1>4 DEF SingleInv, NoneTwice, Once, Lone, Somewhere
<1> QED
  BY <1>3, <1>5, <1>6

\* The strengthening of the next two theorems: at any moment without a
\* fault so far, every assigned task that is not complete is in a thread, a
\* batch or a message, and, if nobody asks for missed tasks, in one only.
THEOREM CalmCorrect == SysSpec => [](TidyInv /\ CalmInv /\ SingleInv)
<1>1. TidyInv /\ CalmInv /\ SingleInv /\ LineInv /\ EmptyComesLast /\ [SysNext]_sysVars
        => (TidyInv /\ CalmInv /\ SingleInv)'
  BY TidyStep, CalmStep
<1>2. SysSpec => []EmptyComesLast
  BY UsesResidueServer, ResidueEmptiesCorrect
<1> QED
  BY <1>1, <1>2, CalmInit, ResidueLineCorrect, PTL DEF SysSpec

\* As long as nothing fails no assigned task is forgotten, although the
\* server drops the rest of a revocation at the first empty assignment in it
\* and a report has holes where a thread had nothing to do.
THEOREM NothingStrandedCorrect == SysSpec => []NothingStranded
<1>1. ASSUME LineInv, CalmInv, calm, NEW n \in (Task \cap assigned) \ complete
      PROVE  n \in OnTheWay \/ \E p \in Client : n \in Held(p)
  <2>1. PICK x : Carries(x, n)
    BY <1>1 DEF CalmInv, NoneLost, InSight, Somewhere
  <2>2. CASE WorkToken(x, n)
    BY <2>2 DEF WorkToken, Held
  <2>3. CASE HandedToken(x, n)
    <3>1. PICK i \in DOMAIN conn.handed : conn.handed[i] = n
      BY <2>3 DEF HandedToken
    <3>2. n \in {conn.handed[h] : h \in DOMAIN conn.handed}
      BY <3>1, Zenon
    <3> QED
      BY <3>2, Zenon DEF OnTheWay
  <2>4. CASE MsgToken(x, n)
    <3>1. PICK i \in Places : \E j \in 1 .. Len(At(i).msgs) :
            (i = 0 => j > conn.tid) /\ n = At(i).msgs[j].task
      BY <2>4 DEF MsgToken
    <3>2. PICK j \in 1 .. Len(At(i).msgs) : (i = 0 => j > conn.tid) /\ n = At(i).msgs[j].task
      BY <3>1
    <3>3. j \in DOMAIN At(i).msgs
      <4>1. At(i) \in Link \/ At(i) = NoLink
        BY <1>1, LineFacts
      <4>2. At(i).msgs \in Seq(Message)
        BY <4>1 DEF Link, NoLink
      <4> QED
        BY <3>2, <4>2
    <3>4. CASE i = 0
      <4>1. At(i) = cur
        BY <1>1, <3>4, LineFacts
      <4>2. j \in {h \in DOMAIN cur.msgs : h > conn.tid} /\ n = cur.msgs[j].task
        BY <3>2, <3>3, <3>4, <4>1
      <4>3. n \in {cur.msgs[h].task : h \in {h \in DOMAIN cur.msgs : h > conn.tid}}
        BY <4>2, Zenon
      <4> QED
        BY <4>3, Zenon DEF OnTheWay
    <3>5. CASE i # 0
      <4>1. At(i) = queue[i] /\ i \in DOMAIN queue
        BY <1>1, <3>5, LineFacts
      <4>2. n \in Carried(queue[i])
        BY <3>2, <3>3, <4>1 DEF Carried
      <4> QED
        BY <4>1, <4>2 DEF OnTheWay
    <3> QED
      BY <3>4, <3>5
  <2> QED
    BY <2>1, <2>2, <2>3, <2>4 DEF Carries
<1>2. LineInv /\ CalmInv => NothingStranded
  BY <1>1 DEF NothingStranded
<1> QED
  BY <1>2, ResidueLineCorrect, CalmCorrect, PTL

\* As long as nothing fails and nobody asks for missed tasks, two workers
\* never run the same task, although the server knows no owners: each
\* revocation is sent once and read before the task is handed out again.
THEOREM ExclusiveWhenCalmCorrect == SysSpec => []ExclusiveWhenCalm
<1>1. ASSUME LineInv, TidyInv, SingleInv, calm, NoMissed,
             NEW p \in Client, NEW q \in Client,
             NEW t \in DOMAIN work[p], NEW u \in DOMAIN work[q],
             work[p][t] = work[q][u], work[p][t] # Empty
      PROVE  p = q /\ t = u
  <2>1. PICK n : n = work[p][t]
    OBVIOUS
  <2>2. n \in Task
    <3>1. DOMAIN <<>> = {}
      OBVIOUS
    <3>2. phase[p] \in {"running", "returning", "revoking"}
      BY <1>1, <3>1 DEF TidyInv, NoWorkKept
    <3>3. work[p] \in [1 .. Threads[p] -> 0 .. NumTasks]
      BY <1>1, <3>2 DEF LineInv, SysTypeOK
    <3> QED
      BY <1>1, <2>1, <3>3, Numbers
  <2>3. Carries(<<"work", p, t>>, n) /\ Carries(<<"work", q, u>>, n)
    BY <1>1, <2>1 DEF Carries, WorkToken
  <2>4. Lone(n)
    BY <1>1, <2>2 DEF SingleInv, NoneTwice, Once
  <2>5. <<"work", p, t>> = <<"work", q, u>>
    BY <2>3, <2>4 DEF Lone
  <2> QED
    BY <2>5, TokenFacts
<1>2. LineInv /\ TidyInv /\ SingleInv => ExclusiveWhenCalm
  BY <1>1 DEF ExclusiveWhenCalm, NoMissed
<1> QED
  BY <1>2, ResidueLineCorrect, CalmCorrect, PTL

=============================================================================
