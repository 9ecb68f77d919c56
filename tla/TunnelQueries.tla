--------------------------- MODULE TunnelQueries ---------------------------
(***************************************************************************)
(* misc/server/services_describetunnel.go and services_listtunnels.go: the *)
(* requests that only look, beside those of TunnelService.  DescribeTunnel *)
(* reads the store three times and the shared Peer records in between; a   *)
(* list is seen through one of its tunnels.  Neither is a snapshot.        *)
(*                                                                         *)
(* told, late and ended remember what was answered and when, so that       *)
(* answers given at different times can be compared.                       *)
(***************************************************************************)
EXTENDS TunnelService

CONSTANT Queries

ASSUME QueriesApart == Requests \cap Queries = {}

VARIABLES
    queryPC,  \* where the handler of a query is
    asked,    \* the tunnel it asks for
    found,    \* the copy of it that it read
    answer,   \* its response so far
    told,     \* history: tunnels some client was told are closed or gone
    late,     \* history: requests and queries about a tunnel already in told
    ended     \* history: requests whose handler had ended when the query began

queryVars == <<queryPC, asked, found, answer, ended>>
allVars == <<vars, queryVars, told, late>>

Unanswered == [field \in {"status"} \cup Modes |-> "none"]

QueryInit ==
    /\ Init
    /\ queryPC = [q \in Queries |-> "new"]
    /\ asked = [q \in Queries |-> None]
    /\ found = [q \in Queries |-> None]
    /\ answer = [q \in Queries |-> Unanswered]
    /\ told = {}
    /\ late = {}
    /\ ended = [q \in Queries |-> {}]

(* A handler of TunnelService goes on; CloseTunnel answers at its end.     *)
Closes(r) == pc[r] \in {"close", "delete"} /\ pc'[r] = "done"
Begins(r) == pc[r] = "new" /\ pc'[r] # "new"

Serve ==
    /\ Next
    /\ told' = told \cup {T(r) : r \in {x \in Requests : Closes(x)}}
    /\ late' = late \cup {r \in Requests : Begins(r) /\ T(r)' \in told}
    /\ UNCHANGED queryVars

QueryGoes(q, from, to) == queryPC[q] = from /\ queryPC' = [queryPC EXCEPT ![q] = to]

HandlerEnded(r) == pc[r] \in {"done", "refused"}

(* GetTunnel, or GetTunnels and one of its results.                        *)
QueryRead(q, t, kind) ==
    /\ QueryGoes(q, "new", kind)
    /\ tunnels[t] # None
    /\ asked' = [asked EXCEPT ![q] = t]
    /\ found' = [found EXCEPT ![q] = tunnels[t]]
    /\ ended' = [ended EXCEPT ![q] = {r \in Requests : HandlerEnded(r)}]
    /\ late' = late \cup (IF t \in told THEN {q} ELSE {})
    /\ UNCHANGED <<vars, answer, told>>

(* Not found: it has been deleted, unless there never was one.             *)
QueryMissing(q, t) ==
    /\ QueryGoes(q, "new", "done")
    /\ tunnels[t] = None
    /\ told' = told \cup ({t} \cap generated)
    /\ UNCHANGED <<vars, asked, found, answer, late, ended>>

(* Tunnel.Status looks at the clock, some time after the read.             *)
QueryStatus(q) ==
    /\ queryPC[q] \in {"list", "describe"}
    /\ QueryGoes(q, queryPC[q], IF queryPC[q] = "list" THEN "respond" ELSE "destination")
    /\ answer' = [answer EXCEPT ![q].status = IF Open(found[q]) THEN "OPEN" ELSE "CLOSED"]
    /\ found' = [found EXCEPT ![q] = None]
    /\ UNCHANGED <<vars, asked, told, late, ended>>

(* The Peer's ConnectionID is read without a lock.  A string of two words  *)
(* that is being written may be read as the empty one, or as a nil pointer *)
(* with a length, on which the handler panics; net/http recovers.  Mutant: *)
(* the other mode's id.                                                    *)
Torn(t, m) == \E r \in Requests : pc[r] = "peerCon" /\ T(r) = t /\ M(r) = m

ConnectionIDsSwapped(t, m) ==
    {peers[t][n].con : n \in Modes \ {m}} \cup (IF Torn(t, m) THEN {None} ELSE {})

ConnectionIDs(t, m) == {peers[t][m].con} \cup (IF Torn(t, m) THEN {None} ELSE {})

(* The destination's connection, then the source's.                        *)
DescribeConnection(q, m) ==
    /\ QueryGoes(q, m, IF m = "destination" THEN "source" ELSE "respond")
    /\ \E id \in ConnectionIDs(asked[q], m) :
          answer' = [answer EXCEPT ![q][m] =
                        IF id # None /\ conns[id] = "CONNECTED" THEN "CONNECTED" ELSE "DISCONNECTED"]
    /\ UNCHANGED <<vars, asked, found, told, late, ended>>

(* The end of a query, of which only told remains.                         *)
QueryEnds(q) ==
    /\ queryPC' = [queryPC EXCEPT ![q] = "done"]
    /\ asked' = [asked EXCEPT ![q] = None]
    /\ answer' = [answer EXCEPT ![q] = Unanswered]
    /\ ended' = [ended EXCEPT ![q] = {}]
    /\ late' = late \ {q}
    /\ UNCHANGED <<vars, found>>

Respond(q) ==
    /\ queryPC[q] = "respond"
    /\ QueryEnds(q)
    /\ told' = told \cup (IF answer[q].status = "CLOSED" THEN {asked[q]} ELSE {})

DescribePanics(q) ==
    /\ queryPC[q] \in Modes /\ Torn(asked[q], queryPC[q])
    /\ QueryEnds(q)
    /\ UNCHANGED told

QueryStep(q) ==
    \/ \E t \in Tunnels :
          QueryMissing(q, t) \/ \E kind \in {"describe", "list"} : QueryRead(q, t, kind)
    \/ QueryStatus(q) \/ Respond(q)
    \/ (\E m \in Modes : DescribeConnection(q, m)) \/ DescribePanics(q)

QueriesNext == Serve \/ \E q \in Queries : QueryStep(q)

QueriesSpec == QueryInit /\ [][QueriesNext]_allVars

-----------------------------------------------------------------------------
Statuses == {"none", "OPEN", "CLOSED", "CONNECTED", "DISCONNECTED"}

QueryTypeOK ==
    /\ queryPC \in [Queries -> {"new", "list", "describe", "respond", "done"} \cup Modes]
    /\ asked \in [Queries -> Tunnels \cup {None}]
    /\ found \in [Queries -> Tunnel \cup {None}]
    /\ answer \in [Queries -> [{"status"} \cup Modes -> Statuses]]
    /\ told \subseteq Tunnels
    /\ late \subseteq Requests \cup Queries
    /\ ended \in [Queries -> SUBSET Requests]

(* services_closetunnel.go:22-56, services_describetunnel.go:38-74,        *)
(* services_connect.go:96-101: once one client was told that a tunnel is   *)
(* closed or gone, no client that asks later is told that it is open, and  *)
(* no connection that is asked for later is accepted.                      *)
ToldClosed ==
    /\ \A r \in late \cap Requests : conns[r] = "none"
    /\ \A q \in late \cap Queries : answer[q].status # "OPEN"

(* services_connect.go:111-142: the handler was refused when it wrote the  *)
(* tunnel back, after it had recorded its connection and before it set up  *)
(* the function that corrects the record.                                  *)
LeftConnected(r) == pc[r] = "refused" /\ conns[r] = "CONNECTED"

(* A connection of the tunnel and mode that q found.                       *)
Accounts(r, q, m) == conns[r] # "none" /\ T(r) = asked[q] /\ M(r) = m

(* services_describetunnel.go:58-72, services_connect.go:144-161: a mode   *)
(* is described CONNECTED only for a connection of this tunnel and mode,   *)
(* and if its handler had ended before the query came, it was refused and  *)
(* never served: its record is stale for ever.  Of a connection that was   *)
(* served and is over, no query that comes later hears, also when another  *)
(* handler has changed the Peer meanwhile.                                 *)
DescribesLivingOrLeft ==
    \A q \in Queries, m \in Modes :
        answer[q][m] = "CONNECTED" =>
            \E r \in Requests : Accounts(r, q, m) /\ (r \in ended[q] => LeftConnected(r))

(* services_describetunnel.go:58-72: CONNECTED means that a handler was    *)
(* there when the query came.  Not so in the code: the README says how to  *)
(* see it.                                                                 *)
DescribesLiving ==
    \A q \in Queries, m \in Modes :
        answer[q][m] = "CONNECTED" => \E r \in Requests \ ended[q] : Accounts(r, q, m)
=============================================================================
