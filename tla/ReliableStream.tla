--------------------------- MODULE ReliableStream ---------------------------
(***************************************************************************)
(* What the local proxy promises in destination mode (the comments of Run, *)
(* LocalSocketManager and localSocket in proxy/): a StreamID serves one    *)
(* local connection at a time, a connection serves one stream in its life, *)
(* and what it gets is a prefix of what the peer sent since this stream    *)
(* started: nothing of an earlier one, nothing missing in between, nothing *)
(* made up.  Without sessions, workers, queues, goroutines and locks.      *)
(***************************************************************************)
EXTENDS Naturals, Sequences

CONSTANTS StreamIDs, Cons, None

VARIABLES
    sent,    \* Data the peer sent on a stream since it started
    serves,  \* the connection that can get it
    bound,   \* connections that serve or served a stream
    got      \* what a connection got: the numbers of the Data

vars == <<sent, serves, bound, got>>

Init ==
    /\ sent = [s \in StreamIDs |-> 0]
    /\ serves = [s \in StreamIDs |-> None]
    /\ bound = {}
    /\ got = [k \in Cons |-> <<>>]

(* The peer starts a stream; a StreamID is used again when it is free.     *)
Start(s) ==
    /\ serves[s] = None
    /\ sent' = [sent EXCEPT ![s] = 0]
    /\ UNCHANGED <<serves, bound, got>>

(* It gets a fresh connection before anything was sent.                    *)
Bind(s, k) ==
    /\ serves[s] = None
    /\ sent[s] = 0
    /\ k \notin bound
    /\ serves' = [serves EXCEPT ![s] = k]
    /\ bound' = bound \cup {k}
    /\ UNCHANGED <<sent, got>>

Send(s) ==
    /\ sent' = [sent EXCEPT ![s] = @ + 1]
    /\ UNCHANGED <<serves, bound, got>>

(* The connection gets the first Data that it has not got.                 *)
Deliver(s) ==
    /\ serves[s] # None
    /\ Len(got[serves[s]]) < sent[s]
    /\ got' = [got EXCEPT ![serves[s]] = Append(@, Len(@) + 1)]
    /\ UNCHANGED <<sent, serves, bound>>

(* The connection is closed by either side, for good.                      *)
Break(s) ==
    /\ serves[s] # None
    /\ serves' = [serves EXCEPT ![s] = None]
    /\ UNCHANGED <<sent, bound, got>>

Next ==
    \E s \in StreamIDs :
        Start(s) \/ Send(s) \/ Deliver(s) \/ Break(s) \/ \E k \in Cons : Bind(s, k)

Spec == Init /\ [][Next]_vars
=============================================================================
