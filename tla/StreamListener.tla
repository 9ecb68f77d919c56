--------------------------- MODULE StreamListener ---------------------------
(***************************************************************************)
(* What AWSMessageListener (client/awsclient.go) may rely on.  While a     *)
(* stream is open every Data and StreamReset that arrives for it is kept;  *)
(* its callbacks are called for what was kept, one at a time, in order,    *)
(* none left out, and for messages of no other stream.  After it closed    *)
(* they may go on with what is left or end.  Without locks, goroutines,    *)
(* sessions and channels.                                                  *)
(***************************************************************************)
EXTENDS Naturals, Sequences

CONSTANTS StreamIDs, Messages, None

VARIABLES
    received, \* how many messages arrived
    arrived,  \* the one that is being dispatched
    open,     \* streams whose messages are kept
    pending,  \* kept, and not called for yet
    busy      \* the message whose callback runs

vars == <<received, arrived, open, pending, busy>>

Init ==
    /\ received = 0
    /\ arrived = None
    /\ open = {}
    /\ pending = [s \in StreamIDs |-> <<>>]
    /\ busy = [s \in StreamIDs |-> None]

(* Messages arrive, and are dispatched, one after the other.               *)
Arrive(m) ==
    /\ arrived = None
    /\ m.seq = received + 1
    /\ received' = received + 1
    /\ arrived' = m
    /\ UNCHANGED <<open, pending, busy>>

(* Whatever it is, the message is dispatched ...                           *)
Dispatch ==
    /\ arrived # None
    /\ arrived' = None
    /\ UNCHANGED <<received, open, busy>>

(* ... and kept if it is for an open stream.                               *)
Kept == arrived.type \in {"data", "reset"} /\ arrived.stream \in open

Keep ==
    /\ Dispatch
    /\ Kept
    /\ pending' = [pending EXCEPT ![arrived.stream] = Append(@, arrived)]

Pass ==
    /\ Dispatch
    /\ ~Kept
    /\ UNCHANGED pending

(* A stream starts with nothing left of an earlier one.                    *)
Open(s) ==
    /\ s \notin open
    /\ pending[s] = <<>>
    /\ busy[s] = None
    /\ open' = open \cup {s}
    /\ UNCHANGED <<received, arrived, pending, busy>>

Close(s) ==
    /\ s \in open
    /\ open' = open \ {s}
    /\ UNCHANGED <<received, arrived, pending, busy>>

Call(s) ==
    /\ busy[s] = None
    /\ pending[s] # <<>>
    /\ busy' = [busy EXCEPT ![s] = Head(pending[s])]
    /\ pending' = [pending EXCEPT ![s] = Tail(@)]
    /\ UNCHANGED <<received, arrived, open>>

Return(s) ==
    /\ busy[s] # None
    /\ busy' = [busy EXCEPT ![s] = None]
    /\ UNCHANGED <<received, arrived, open, pending>>

Discard(s) ==
    /\ s \notin open
    /\ busy[s] = None
    /\ pending' = [pending EXCEPT ![s] = <<>>]
    /\ UNCHANGED <<received, arrived, open, busy>>

Next ==
    \/ \E m \in Messages : Arrive(m)
    \/ Keep \/ Pass
    \/ \E s \in StreamIDs : Open(s) \/ Close(s) \/ Call(s) \/ Return(s) \/ Discard(s)

Spec == Init /\ [][Next]_vars
=============================================================================
