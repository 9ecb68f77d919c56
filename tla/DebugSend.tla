----------------------------- MODULE DebugSend -----------------------------
(***************************************************************************)
(* misc/server/services_debugsend.go and sendToPeer of peerconmanager.go:  *)
(* debug requests that put a message into the channel of a connection of   *)
(* PeerRelay.  They take no lock: they look the connection up while        *)
(* handlers may be changing the map, and send to it although it may have   *)
(* gone.  A debug message is nobody's: it counts as number 0 of the        *)
(* connection it is sent to.                                               *)
(***************************************************************************)
EXTENDS PeerRelay

CONSTANTS
    DebugRequests,
    DebugMode       \* the connections of the mode that they name

ASSUME DebugAssumption == DebugMode \in {Sources, Destinations}

VARIABLES
    debugPC,  \* where the handler of a debug request is
    target    \* the connection it found

debugVars == <<debugPC, target>>
relayVars == <<handler, reader, writer, expired, sweep, conVars>>

DebugInit ==
    /\ Init
    /\ debugPC = [d \in DebugRequests |-> "new"]
    /\ target = [d \in DebugRequests |-> None]

DebugGoes(d, from, to) == debugPC[d] = from /\ debugPC' = [debugPC EXCEPT ![d] = to]

DebugFinds(d, c) ==
    /\ c \in mapped \cap DebugMode
    /\ DebugGoes(d, "new", "sending")
    /\ target' = [target EXCEPT ![d] = c]
    /\ UNCHANGED vars

DebugNotFound(d) ==
    /\ mapped \cap DebugMode = {}
    /\ DebugGoes(d, "new", "done")
    /\ UNCHANGED <<target, vars>>

(* The runtime ends the process when it sees a map read while it is being  *)
(* written: by connect, or by a leaving connection that is registered.     *)
WritesMap(c) == handler[c] = "associate" \/ (handler[c] = "unlink" /\ c \in mapped)

DebugRaces(d) ==
    /\ debugPC[d] = "new"
    /\ \E c \in Cons : WritesMap(c)
    /\ crashed' = TRUE
    /\ UNCHANGED <<debugVars, relayVars, queueVars>>

DebugSends(d) ==
    /\ DebugGoes(d, "sending", "done")
    /\ LET c == target[d]
       IN /\ ~chClosed[c]
          /\ Len(chMessage[c]) < Capacity
          /\ chMessage' = [chMessage EXCEPT ![c] = Append(@, [from |-> c, number |-> 0])]
    /\ target' = [target EXCEPT ![d] = None]
    /\ UNCHANGED <<crashed, relayVars, inHand, chClosed, read, delivered>>

(* The send on a closed channel panics; net/http recovers.                 *)
DebugPanics(d) ==
    /\ DebugGoes(d, "sending", "done")
    /\ chClosed[target[d]]
    /\ target' = [target EXCEPT ![d] = None]
    /\ UNCHANGED vars

Lookup(d) == DebugRaces(d) \/ DebugNotFound(d) \/ \E c \in DebugMode : DebugFinds(d, c)

Send(d) == DebugSends(d) \/ DebugPanics(d)

DebugNext ==
    \/ Next /\ UNCHANGED debugVars
    \/ ~crashed /\ \E d \in DebugRequests : Lookup(d) \/ Send(d)

DebugSpec == DebugInit /\ [][DebugNext]_<<vars, debugVars>>

FairDebugSpec ==
    /\ DebugSpec
    /\ Fairness
    /\ \A d \in DebugRequests : WF_<<vars, debugVars>>(~crashed /\ Send(d))

-----------------------------------------------------------------------------
DebugTypeOK ==
    /\ debugPC \in [DebugRequests -> {"new", "sending", "done"}]
    /\ target \in [DebugRequests -> Cons \cup {None}]
    /\ \A d \in DebugRequests : debugPC[d] = "sending" => target[d] \in Cons

(* sendServiceIDs failed, so nobody empties or closes chMessage.           *)
Abandoned == {c \in Cons : reader[c] = "none" /\ handler[c] \in {"leave", "unlink", "done"}}

(* peerconmanager.go:94-100, peerconnection.go:64-70: a debug request that *)
(* waits for room in a channel gets it or sees the channel closed, also    *)
(* when the connection is replaced or ends meanwhile, unless the process   *)
(* panics, a reader is stuck for ever or the channel was abandoned.        *)
DebugReturns ==
    \A d \in DebugRequests :
        (debugPC[d] = "sending" ~> debugPC[d] = "done" \/ crashed \/ target[d] \in Abandoned)
            \/ <>[]ReaderStuck
=============================================================================
