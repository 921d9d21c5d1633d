------------------------------ MODULE MCSystem ------------------------------
EXTENDS System, TLC
CONSTANTS A, B, none
Ids == {Id(p, l, t) : p \in Client, l \in 1 .. MaxLives, t \in 1 .. MaxThreads}
Good == [checksum |-> 1, usertime |-> 0, overflow |-> 0, mxoffset |-> 0]
OtherGood == [Good EXCEPT !.checksum = 2]
Odd == [Good EXCEPT !.checksum = 9]
Zero == [Good EXCEPT !.checksum = 0]
Results == {Good, OtherGood, Odd, Zero}
OutcomeGood == A :> {Good} @@ B :> {Good}
OutcomeAB == A :> {Good} @@ B :> {OtherGood, Odd}
Known == {1, 2}
Plain == {{}}
ModeAB == A :> "REQ" @@ B :> "req"
ModeBatch == A :> "MRQ" @@ B :> "REQ"
ThreadsAB == A :> 2 @@ B :> 1
ThreadsOne == A :> 1 @@ B :> 1
=============================================================================
