--------------------------- MODULE TunnelService ---------------------------
(***************************************************************************)
(* misc/server: the handlers that open, connect to and close a tunnel, and *)
(* the store they share (store_memory.go).  A handler reads a tunnel, goes *)
(* on with its copy and writes the copy back if the revision is unchanged; *)
(* each call of the store is one step under the table's lock.  The two     *)
(* Peer records of a tunnel are pointers: all copies of a tunnel share     *)
(* them, and handlers change them outside any lock.                        *)
(*                                                                         *)
(* Tunnel and connection ids are fresh random strings here (id.go); an     *)
(* access token is the tunnel and the mode it was made for.  Of NumOfConn  *)
(* only whether it is 0 is read.  What a connection does while it is up is *)
(* module PeerRelay.                                                       *)
(***************************************************************************)
EXTENDS Naturals

CONSTANTS
    Requests,   \* HTTP requests; a connect's is also its ConnectionID
    Tunnels,    \* tunnel ids
    Clients,    \* client tokens
    Lifetimes,  \* what TimeoutMinutes may say, in ticks
    MaxTime,    \* bound: the clock
    None

ASSUME ConstantsAssumption ==
    /\ Lifetimes \subseteq Nat
    /\ MaxTime \in Nat
    /\ None \notin Tunnels \cup [rev : Nat, lifetimeAt : Nat]

Modes == {"source", "destination"}

VARIABLES
    now,        \* time.Now()
    generated,  \* tunnel ids made so far
    tunnels,    \* tunnelTable: revision and LifetimeAt
    peers,      \* the Peer records of a tunnel, shared by its copies
    conns,      \* connectionTable: the status of a connection
    pc,         \* where a request's handler is
    args,       \* its tunnel and parameters, and when a close read the clock
    copy        \* the Tunnel it read

vars == <<now, generated, tunnels, peers, conns, pc, args, copy>>

Tunnel == [rev : Nat, lifetimeAt : Nat]
Peer == [con : Requests \cup {None}, client : Clients \cup {None}, used : BOOLEAN]

Init ==
    /\ now = 0
    /\ generated = {}
    /\ tunnels = [t \in Tunnels |-> None]
    /\ peers = [t \in Tunnels |-> [m \in Modes |-> [con |-> None, client |-> None, used |-> FALSE]]]
    /\ conns = [r \in Requests |-> "none"]
    /\ pc = [r \in Requests |-> "new"]
    /\ args = [r \in Requests |-> None]
    /\ copy = [r \in Requests |-> None]

(* Tunnel.Open.  The clock is read at distinct instants, so LifetimeAt is  *)
(* never now itself, which the code would still call open.                 *)
Open(tunnel) == now < tunnel.lifetimeAt

Goes(r, from, to) == pc[r] = from /\ pc' = [pc EXCEPT ![r] = to]

T(r) == args[r].tunnel
M(r) == args[r].mode

Tick ==
    /\ now < MaxTime
    /\ now' = now + 1
    /\ UNCHANGED <<generated, tunnels, peers, conns, pc, args, copy>>

-----------------------------------------------------------------------------
(* The store: update succeeds only on the revision that was read.  Mutants:*)
(* any revision will do; the revision is not counted up.                   *)
UpdateAllowedAny(r) == tunnels[T(r)] # None
RevStays(rev) == rev

UpdateAllowed(r) == tunnels[T(r)] # None /\ tunnels[T(r)].rev = copy[r].rev
NextRev(rev) == rev + 1

UpdateTunnel(r, lifetimeAt) ==
    /\ UpdateAllowed(r)
    /\ tunnels' = [tunnels EXCEPT ![T(r)] =
                      [rev |-> NextRev(copy[r].rev), lifetimeAt |-> lifetimeAt]]

DeleteTunnel(t) == tunnels' = [tunnels EXCEPT ![t] = None]

-----------------------------------------------------------------------------
(* OpenTunnel: add the tunnel, then notify the device of it.               *)
OpenAdd(r, t, lifetime) ==
    /\ Goes(r, "new", "notify")
    /\ t \notin generated
    /\ generated' = generated \cup {t}
    /\ tunnels' = [tunnels EXCEPT ![t] = [rev |-> 1, lifetimeAt |-> now + lifetime]]
    /\ args' = [args EXCEPT ![r] = [tunnel |-> t]]
    /\ UNCHANGED <<now, peers, conns, copy>>

OpenNotified(r) ==
    /\ Goes(r, "notify", "done")
    /\ UNCHANGED <<now, generated, tunnels, peers, conns, args, copy>>

OpenNotifyFails(r) ==
    /\ Goes(r, "notify", "done")
    /\ DeleteTunnel(T(r))
    /\ UNCHANGED <<now, generated, peers, conns, args, copy>>

-----------------------------------------------------------------------------
(* TunnelConnect: read the tunnel and check the access token ...           *)
ConnectRead(r, t, mode, token, client) ==
    /\ pc[r] = "new"
    /\ pc' = [pc EXCEPT ![r] = IF tunnels[t] # None /\ token = mode THEN "check" ELSE "refused"]
    /\ args' = [args EXCEPT ![r] = [tunnel |-> t, mode |-> mode, client |-> client]]
    /\ copy' = [copy EXCEPT ![r] = tunnels[t]]
    /\ UNCHANGED <<now, generated, tunnels, peers, conns>>

(* ... the client token, and that the tunnel is open (mutant: only the     *)
(* token) ...                                                              *)
ConnectCheckToken(r) ==
    /\ pc[r] = "check"
    /\ LET peer == peers[T(r)][M(r)]
       IN pc' = [pc EXCEPT ![r] =
                    IF peer.used => peer.client = args[r].client THEN "add" ELSE "refused"]
    /\ UNCHANGED <<now, generated, tunnels, peers, conns, args, copy>>

ConnectCheck(r) ==
    /\ pc[r] = "check"
    /\ LET peer == peers[T(r)][M(r)]
       IN pc' = [pc EXCEPT ![r] =
                    IF (peer.used => peer.client = args[r].client) /\ Open(copy[r])
                    THEN "add" ELSE "refused"]
    /\ UNCHANGED <<now, generated, tunnels, peers, conns, args, copy>>

(* ... record the connection ...                                           *)
ConnectAdd(r) ==
    /\ Goes(r, "add", "peerCon")
    /\ conns' = [conns EXCEPT ![r] = "CONNECTED"]
    /\ UNCHANGED <<now, generated, tunnels, peers, args, copy>>

(* ... change the shared Peer, unlocked (mutant: with its two ids mixed    *)
(* up) ...                                                                 *)
ConnectSetConMixed(r) ==
    /\ Goes(r, "peerCon", "peerClient")
    /\ peers' = [peers EXCEPT ![T(r)][M(r)].con = args[r].client]
    /\ UNCHANGED <<now, generated, tunnels, conns, args, copy>>

ConnectSetCon(r) ==
    /\ Goes(r, "peerCon", "peerClient")
    /\ peers' = [peers EXCEPT ![T(r)][M(r)].con = r]
    /\ UNCHANGED <<now, generated, tunnels, conns, args, copy>>

(* The ClientToken is read only together with NumOfConn > 0.               *)
ConnectSetClient(r) ==
    /\ Goes(r, "peerClient", "update")
    /\ peers' = [peers EXCEPT ![T(r)][M(r)].client = args[r].client, ![T(r)][M(r)].used = TRUE]
    /\ UNCHANGED <<now, generated, tunnels, conns, args, copy>>

(* ... and write the tunnel back (mutant: whose error is only logged).  A  *)
(* request refused here leaves its connection and the peer as they are.    *)
ConnectUpdateIgnored(r) ==
    /\ Goes(r, "update", "upgrade")
    /\ UNCHANGED <<now, generated, tunnels, peers, conns, args, copy>>

ConnectUpdate(r) ==
    /\ Goes(r, "update", "upgrade")
    /\ UpdateTunnel(r, copy[r].lifetimeAt)
    /\ UNCHANGED <<now, generated, peers, conns, args, copy>>

ConnectConflict(r) ==
    /\ Goes(r, "update", "refused")
    /\ ~UpdateAllowed(r)
    /\ UNCHANGED <<now, generated, tunnels, peers, conns, args, copy>>

(* Mutant: the deferred function is set up after the upgrade.              *)
UpgradeFailsSilent(r) ==
    /\ Goes(r, "upgrade", "done")
    /\ UNCHANGED <<now, generated, tunnels, peers, conns, args, copy>>

Upgraded(r) ==
    /\ Goes(r, "upgrade", "connected")
    /\ UNCHANGED <<now, generated, tunnels, peers, conns, args, copy>>

UpgradeFails(r) ==
    /\ Goes(r, "upgrade", "leave")
    /\ UNCHANGED <<now, generated, tunnels, peers, conns, args, copy>>

(* peerConManager.connect returns.                                         *)
ConnectionEnds(r) ==
    /\ Goes(r, "connected", "leave")
    /\ UNCHANGED <<now, generated, tunnels, peers, conns, args, copy>>

(* The deferred function: no other handler writes this record, so its get  *)
(* and update are one step and never conflict.                             *)
ConnectLeave(r) ==
    /\ Goes(r, "leave", "done")
    /\ conns' = [conns EXCEPT ![r] = "DISCONNECTED"]
    /\ UNCHANGED <<now, generated, tunnels, peers, args, copy>>

-----------------------------------------------------------------------------
(* CloseTunnel: read the tunnel; LifetimeAt becomes the time of that.      *)
CloseRead(r, t, delete) ==
    /\ pc[r] = "new"
    /\ pc' = [pc EXCEPT ![r] = IF tunnels[t] # None THEN "close" ELSE "refused"]
    /\ args' = [args EXCEPT ![r] = [tunnel |-> t, delete |-> delete, at |-> now]]
    /\ copy' = [copy EXCEPT ![r] = tunnels[t]]
    /\ UNCHANGED <<now, generated, tunnels, peers, conns>>

CloseUpdate(r) ==
    /\ Goes(r, "close", IF args[r].delete THEN "delete" ELSE "done")
    /\ UpdateTunnel(r, args[r].at)
    /\ UNCHANGED <<now, generated, peers, conns, args, copy>>

CloseConflict(r) ==
    /\ Goes(r, "close", "refused")
    /\ ~UpdateAllowed(r)
    /\ UNCHANGED <<now, generated, tunnels, peers, conns, args, copy>>

CloseDelete(r) ==
    /\ Goes(r, "delete", "done")
    /\ DeleteTunnel(T(r))
    /\ UNCHANGED <<now, generated, peers, conns, args, copy>>

-----------------------------------------------------------------------------
OpenStep(r) == OpenNotified(r) \/ OpenNotifyFails(r)

ConnectStep(r) ==
    \/ ConnectCheck(r) \/ ConnectAdd(r) \/ ConnectSetCon(r) \/ ConnectSetClient(r)
    \/ ConnectUpdate(r) \/ ConnectConflict(r)
    \/ Upgraded(r) \/ UpgradeFails(r) \/ ConnectionEnds(r) \/ ConnectLeave(r)

CloseStep(r) == CloseUpdate(r) \/ CloseConflict(r) \/ CloseDelete(r)

Begin(r) ==
    \E t \in Tunnels :
        \/ \E lifetime \in Lifetimes : OpenAdd(r, t, lifetime)
        \/ \E mode, token \in Modes, client \in Clients : ConnectRead(r, t, mode, token, client)
        \/ \E delete \in BOOLEAN : CloseRead(r, t, delete)

Next == Tick \/ \E r \in Requests : Begin(r) \/ OpenStep(r) \/ ConnectStep(r) \/ CloseStep(r)

Spec == Init /\ [][Next]_vars

-----------------------------------------------------------------------------
ConnectPCs == {"check", "add", "peerCon", "peerClient", "update", "upgrade", "connected", "leave"}

Args ==
    [tunnel : Tunnels] \cup [tunnel : Tunnels, mode : Modes, client : Clients]
        \cup [tunnel : Tunnels, delete : BOOLEAN, at : Nat]

TypeOK ==
    /\ now \in 0..MaxTime
    /\ generated \subseteq Tunnels
    /\ tunnels \in [Tunnels -> Tunnel \cup {None}]
    /\ peers \in [Tunnels -> [Modes -> Peer]]
    /\ conns \in [Requests -> {"none", "CONNECTED", "DISCONNECTED"}]
    /\ pc \in [Requests -> ConnectPCs \cup {"new", "notify", "close", "delete", "done", "refused"}]
    /\ args \in [Requests -> Args \cup {None}]
    /\ copy \in [Requests -> Tunnel \cup {None}]

Closed(t) == t \in generated /\ (tunnels[t] # None => ~Open(tunnels[t]))

(* store_memory.go:176-199: whoever writes a tunnel back has read its      *)
(* latest version, so no handler undoes what another one wrote.            *)
NoLostUpdate ==
    [][\A t \in Tunnels :
          tunnels[t] # None /\ tunnels'[t] \notin {None, tunnels[t]} =>
              \E r \in Requests : pc'[r] # pc[r] /\ T(r) = t /\ copy[r] = tunnels[t]]_vars

(* services_closetunnel.go:22, tunnel.go:64-75: a tunnel that expired, was *)
(* closed or deleted never opens again, whatever the handlers that read it *)
(* before write back.                                                      *)
ClosedStaysClosed == [][\A t \in Tunnels : Closed(t) => Closed(t)']_vars

(* services_connect.go:144-161: when the handler of an accepted connection *)
(* has ended, however it ended, the connection is recorded DISCONNECTED.   *)
RecordsEnd == \A r \in Requests : pc[r] = "done" => conns[r] # "CONNECTED"

(* A close of the tunnel has been written.                                 *)
ClosedBy(r, t) ==
    pc[r] \in {"delete", "done"} /\ args[r] \in [tunnel : {t}, delete : BOOLEAN, at : Nat]

(* The connections that passed every check.                                *)
Admitted(r) == pc[r] \in {"upgrade", "connected", "leave"} \/ conns[r] = "DISCONNECTED"

Life == INSTANCE TunnelLife WITH
    made <- generated,
    closed <- {t \in generated : tunnels[t] = None \/ \E r \in Requests : ClosedBy(r, t)},
    member <- [r \in Requests |-> IF Admitted(r) THEN T(r) ELSE None],
    ended <- {r \in Requests : conns[r] = "DISCONNECTED"}

(* services_closetunnel.go:22-56, services_connect.go:137-143,             *)
(* store_memory.go:176-199: a close takes effect at one instant.  A        *)
(* connect that was checked before and is still under way is refused, also *)
(* one that has recorded its connection and changed the shared Peer, and a *)
(* deleted tunnel is not made again by a late update.                      *)
ImplementsTunnelLife == Life!Spec
=============================================================================
