-------------------------- MODULE MCMessageReader --------------------------
(* A byte of three values: lengths 0 to 8, of which 7 and 8 overflow.       *)
EXTENDS MessageReader

MCEncodings == {<<>>, <<2>>, <<0, 1, 0>>, <<1, 0, 0, 1, 2, 0, 1>>, [i \in 1..8 |-> 1]}
MCGarbage == {<<1, 1>>}
=============================================================================
