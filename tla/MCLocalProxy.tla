---------------------------- MODULE MCLocalProxy ----------------------------
(* Streams, and connections, are interchangeable in safety runs.            *)
EXTENDS LocalProxy, TLC

Symmetry == Permutations(StreamIDs) \cup Permutations(Cons)
=============================================================================
