-------------------------- MODULE MCTunnelQueries --------------------------
(* Requests, queries, tunnels and client tokens are interchangeable.        *)
EXTENDS TunnelQueries, TLC

Symmetry ==
    Permutations(Requests) \cup Permutations(Queries) \cup Permutations(Tunnels)
        \cup Permutations(Clients)
=============================================================================
