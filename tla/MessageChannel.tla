--------------------------- MODULE MessageChannel ---------------------------
(***************************************************************************)
(* What aws.MessageReader promises (aws/messagerw.go:12-15, 87-93): Next   *)
(* returns the messages the sender serialized, each once and in order,     *)
(* whatever the websocket made of their bytes, until it returns an error.  *)
(***************************************************************************)
EXTENDS Naturals, Sequences

CONSTANT Messages  \* what the peer may serialize

VARIABLES
    sent,      \* messages given to SerializeMessage and written
    returned,  \* messages returned by Next
    failed     \* Next returned an error

vars == <<sent, returned, failed>>

Init == sent = <<>> /\ returned = <<>> /\ failed = FALSE

Send(message) ==
    /\ sent' = Append(sent, message)
    /\ UNCHANGED <<returned, failed>>

Return ==
    /\ ~failed
    /\ Len(returned) < Len(sent)
    /\ returned' = Append(returned, sent[Len(returned) + 1])
    /\ UNCHANGED <<sent, failed>>

Fail == ~failed /\ failed' = TRUE /\ UNCHANGED <<sent, returned>>

Next == (\E message \in Messages : Send(message)) \/ Return \/ Fail

(* A message that was sent is returned unless the reader fails.            *)
Spec == Init /\ [][Next]_vars /\ WF_vars(Return)
=============================================================================
