--------------------------- MODULE MCResidueServer ---------------------------
(* ResidueServer on a small instance. *)
EXTENDS ResidueServer
Sound == [sum |-> 1, over |-> 0]
WithOverflow == [sum |-> 2, over |-> 1]
ZeroSum == [sum |-> 0, over |-> 0]
Results == {Sound, WithOverflow, ZeroSum}
SomeOptions == {{}, {"f", "c"}, {"i"}}
=============================================================================
