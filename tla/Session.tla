------------------------------ MODULE Session ------------------------------
(***************************************************************************)
(* What AWSClient.Run promises (client/awsclient.go:59-68): it keeps a     *)
(* session with the service, helps it with a reading and a pinging         *)
(* goroutine that live only as long as the session, and returns only when  *)
(* the caller's context is done, the service refuses with 400-499, or the  *)
(* tunnel is closed; and in the first case it does return.                 *)
(***************************************************************************)
CONSTANT None

VARIABLES
    ctxDone,  \* the caller's context is done
    phase,    \* away, connected, serving (with its goroutines) or returned
    helpers,  \* goroutines of the session that run
    result    \* why Run returned

vars == <<ctxDone, phase, helpers, result>>

Init ==
    /\ ctxDone = FALSE
    /\ phase = "away"
    /\ helpers = {}
    /\ result = None

CancelCtx ==
    /\ ~ctxDone
    /\ ctxDone' = TRUE
    /\ UNCHANGED <<phase, helpers, result>>

Connect ==
    /\ phase = "away"
    /\ phase' = "connected"
    /\ UNCHANGED <<ctxDone, helpers, result>>

(* Reader and ping start together, once per session, and end one by one.   *)
Help ==
    /\ phase = "connected"
    /\ phase' = "serving"
    /\ helpers' = {"reader", "ping"}
    /\ UNCHANGED <<ctxDone, result>>

HelperEnds(h) ==
    /\ h \in helpers
    /\ helpers' = helpers \ {h}
    /\ UNCHANGED <<ctxDone, phase, result>>

Disconnect ==
    /\ phase = "serving"
    /\ helpers = {}
    /\ phase' = "away"
    /\ UNCHANGED <<ctxDone, helpers, result>>

ReturnCtx ==
    /\ ctxDone
    /\ phase # "returned"
    /\ helpers = {}
    /\ phase' = "returned"
    /\ result' = "ctx"
    /\ UNCHANGED <<ctxDone, helpers>>

(* The service refused the handshake.                                      *)
ReturnRefused(r) ==
    /\ phase = "away"
    /\ phase' = "returned"
    /\ result' = r
    /\ UNCHANGED <<ctxDone, helpers>>

Next ==
    \/ CancelCtx
    \/ Connect
    \/ Help
    \/ \E h \in {"reader", "ping"} : HelperEnds(h)
    \/ Disconnect
    \/ ReturnCtx
    \/ \E r \in {"refused", "tunnelClosed"} : ReturnRefused(r)

Spec == Init /\ [][Next]_vars

(* A context that is done ends the session and Run.                        *)
FairSpec == Spec /\ (ctxDone ~> phase = "returned")
=============================================================================
