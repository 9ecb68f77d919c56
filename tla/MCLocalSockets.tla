--------------------------- MODULE MCLocalSockets ---------------------------
(* Connections and threads are interchangeable in safety runs.              *)
EXTENDS LocalSockets, TLC

Symmetry == Permutations(Cons) \cup Permutations(Threads) \cup Permutations(StreamIDs)
=============================================================================
