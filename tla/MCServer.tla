------------------------------ MODULE MCServer ------------------------------
(* ServerHistory on a small instance: two client IDs and results of three classes. *)
EXTENDS ServerHistory, TLC

CONSTANTS a, b, none

Ids == {a, b}
Symmetry == Permutations(Ids)

Good == [checksum |-> 1, usertime |-> 0, overflow |-> 0, mxoffset |-> 0]
Zero == [Good EXCEPT !.checksum = 0]
Odd == [Good EXCEPT !.checksum = 9]
Results == {Good, Zero, Odd}
Known == {1}

\* The options with which the server is restarted here.
SomeOptions == {{}, {"f"}, {"f", "c"}, {"z", "r"}}
ClearOnly == {{"c"}}
Plain == {{}}
=============================================================================
