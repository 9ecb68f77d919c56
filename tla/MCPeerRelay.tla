---------------------------- MODULE MCPeerRelay ----------------------------
(* Connections of one mode are interchangeable.                             *)
EXTENDS PeerRelay, TLC

Symmetry == Permutations(Sources)
=============================================================================
