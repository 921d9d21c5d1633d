--------------------------- MODULE MCResidueSystem ---------------------------
(* ResidueSystem on a small instance: a client with two threads and one with *)
(* one, each asking in any of the three ways. *)
EXTENDS ResidueSystem, TLC
CONSTANTS A, B
SumOf(n) == [sum |-> n + 1, over |-> 0]
TrueSums == [n \in Task |-> SumOf(n)]
Results == {SumOf(n) : n \in Task}
ThreadsAB == A :> 2 @@ B :> 1
FixAndClear == {{"f", "c"}}
=============================================================================
