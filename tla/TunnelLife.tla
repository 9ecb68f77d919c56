----------------------------- MODULE TunnelLife -----------------------------
(***************************************************************************)
(* What the tunnel service promises (the comments of OpenTunnel,           *)
(* CloseTunnel and TunnelConnect in misc/server): a tunnel is made once,   *)
(* is alive until it is closed or deleted, and connections are admitted to *)
(* living tunnels only, each once.  A close takes effect at one instant;   *)
(* who was admitted before it stays until it leaves.  Without revisions,   *)
(* copies and clocks.                                                      *)
(***************************************************************************)
CONSTANTS
    Requests,  \* requests to connect, and the connections they become
    Tunnels,
    None

VARIABLES
    made,    \* tunnels made so far
    closed,  \* those that were closed or deleted
    member,  \* the tunnel that a connection was admitted to
    ended    \* connections that ended

vars == <<made, closed, member, ended>>

Init ==
    /\ made = {}
    /\ closed = {}
    /\ member = [r \in Requests |-> None]
    /\ ended = {}

Open(t) ==
    /\ t \notin made
    /\ made' = made \cup {t}
    /\ UNCHANGED <<closed, member, ended>>

Close(t) ==
    /\ t \in made
    /\ t \notin closed
    /\ closed' = closed \cup {t}
    /\ UNCHANGED <<made, member, ended>>

Admit(r, t) ==
    /\ t \in made
    /\ t \notin closed
    /\ member[r] = None
    /\ member' = [member EXCEPT ![r] = t]
    /\ UNCHANGED <<made, closed, ended>>

Leave(r) ==
    /\ member[r] # None
    /\ r \notin ended
    /\ ended' = ended \cup {r}
    /\ UNCHANGED <<made, closed, member>>

Next ==
    \/ \E t \in Tunnels : Open(t) \/ Close(t)
    \/ \E r \in Requests : Leave(r) \/ \E t \in Tunnels : Admit(r, t)

Spec == Init /\ [][Next]_vars
=============================================================================
