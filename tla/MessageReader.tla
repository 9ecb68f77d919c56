--------------------------- MODULE MessageReader ---------------------------
(***************************************************************************)
(* aws/messagerw.go: messages travel as a two-byte length and a protobuf   *)
(* body.  The websocket may cut and join these bytes anywhere; Next puts   *)
(* them together again.  A byte has Base values, so that lengths live in   *)
(* uint16 arithmetic modulo Base * Base.                                   *)
(***************************************************************************)
EXTENDS Naturals, Sequences

CONSTANTS
    Base,        \* 256 in the code
    Encodings,   \* bodies that proto.Unmarshal accepts
    Garbage,     \* bodies it refuses
    MaxMessages  \* bound: messages written

Byte == 0..(Base - 1)

ASSUME ConstantsAssumption ==
    /\ Base \in Nat /\ Base > 1
    /\ Encodings \cup Garbage \subseteq Seq(Byte)
    /\ Encodings \cap Garbage = {}
    /\ MaxMessages \in Nat

VARIABLES
    sent,        \* history: bodies written to the websocket
    wire,        \* bytes written and not yet read, in order
    messageBin,  \* bytes read and not yet consumed
    messageSize, \* the length field of the message being read
    pc,          \* where Next is: size, body; failed: it returned an error; panicked
    returned     \* history: bodies of the messages Next returned

vars == <<sent, wire, messageBin, messageSize, pc, returned>>

SizeOfMessageSize == 2

(* Mutants: the low byte is not masked; the bytes are read swapped.        *)
PutUnmasked(n) == <<n \div Base, n>>
LittleEndian(bytes) == bytes[2] * Base + bytes[1]

(* uint16(n), and the two bytes of binary.BigEndian.                       *)
Uint16(n) == n % (Base * Base)
PutUint16(n) == <<n \div Base, n % Base>>
GetUint16(bytes) == bytes[1] * Base + bytes[2]

SerializeMessage(body) == PutUint16(Uint16(Len(body))) \o body

(* Both operands are uint16, and so is their sum.                          *)
EndOfMessage == Uint16(SizeOfMessageSize + messageSize)

LeastSize == IF pc = "size" THEN SizeOfMessageSize ELSE EndOfMessage

Reading == pc \in {"size", "body"}

Init ==
    /\ sent = <<>>
    /\ wire = <<>>
    /\ messageBin = <<>>
    /\ messageSize = 0
    /\ pc = "size"
    /\ returned = <<>>

(* The peer writes a message.                                              *)
Send(body) ==
    /\ Len(sent) < MaxMessages
    /\ sent' = Append(sent, body)
    /\ wire' = wire \o SerializeMessage(body)
    /\ UNCHANGED <<messageBin, messageSize, pc, returned>>

(* readAtLeast takes a websocket message with the next n bytes; n may be 0.*)
ReadFrame(n) ==
    /\ Reading
    /\ Len(messageBin) < LeastSize
    /\ n <= Len(wire)
    /\ messageBin' = messageBin \o SubSeq(wire, 1, n)
    /\ wire' = SubSeq(wire, n + 1, Len(wire))
    /\ UNCHANGED <<sent, messageSize, pc, returned>>

(* The connection fails or delivers a message that is not binary.          *)
ReadFails ==
    /\ Reading
    /\ Len(messageBin) < LeastSize
    /\ pc' = "failed"
    /\ UNCHANGED <<sent, wire, messageBin, messageSize, returned>>

TakeSize ==
    /\ pc = "size"
    /\ Len(messageBin) >= SizeOfMessageSize
    /\ messageSize' = GetUint16(messageBin)
    /\ pc' = "body"
    /\ UNCHANGED <<sent, wire, messageBin, returned>>

(* messageBin[SizeOfMessageSize:endOfMessagePosition] with its bounds      *)
(* reversed.                                                               *)
Panic ==
    /\ pc = "body"
    /\ EndOfMessage < SizeOfMessageSize
    /\ Len(messageBin) >= EndOfMessage
    /\ pc' = "panicked"
    /\ UNCHANGED <<sent, wire, messageBin, messageSize, returned>>

(* Mutant: the bytes of the next message are dropped with this one's.      *)
RestDropped == <<>>

(* What stays for the following call.                                      *)
Rest == SubSeq(messageBin, EndOfMessage + 1, Len(messageBin))

(* The body is complete: consume it, then deserialize.                     *)
TakeBody ==
    /\ pc = "body"
    /\ EndOfMessage >= SizeOfMessageSize
    /\ Len(messageBin) >= EndOfMessage
    /\ messageBin' = Rest
    /\ messageSize' = 0
    /\ LET body == SubSeq(messageBin, SizeOfMessageSize + 1, EndOfMessage)
       IN \/ /\ body \in Encodings
             /\ pc' = "size"
             /\ returned' = Append(returned, body)
          \/ /\ body \notin Encodings
             /\ pc' = "failed"
             /\ UNCHANGED returned
    /\ UNCHANGED <<sent, wire>>

Next ==
    \/ \E body \in Encodings \cup Garbage : Send(body)
    \/ \E n \in 0..Len(wire) : ReadFrame(n)
    \/ ReadFails
    \/ TakeSize
    \/ Panic
    \/ TakeBody

(* Bytes that were written arrive, and Next runs on.                       *)
Fairness ==
    /\ WF_vars(\E n \in 1..Len(wire) : ReadFrame(n))
    /\ WF_vars(TakeSize \/ Panic \/ TakeBody)

Spec == Init /\ [][Next]_vars /\ Fairness

-----------------------------------------------------------------------------
TypeOK ==
    /\ sent \in Seq(Encodings \cup Garbage) /\ Len(sent) <= MaxMessages
    /\ wire \in Seq(Byte)
    /\ messageBin \in Seq(Byte)
    /\ messageSize \in 0..(Base * Base - 1)
    /\ pc \in {"size", "body", "failed", "panicked"}
    /\ returned \in Seq(Encodings)

(* messagerw.go:87-93: Next returns the messages that were sent, in order  *)
(* and whole, for every way the websocket cuts and joins their bytes, and  *)
(* every one of them unless it fails.                                      *)
Channel == INSTANCE MessageChannel
           WITH Messages <- Encodings \cup Garbage, failed <- ~Reading
ImplementsChannel == Channel!Spec

(* messagerw.go:124-127: Next reports a malformed message only where the   *)
(* peer sent one, never because it looked at the wrong bytes.              *)
FailsOnGarbageOnly ==
    [][TakeBody /\ pc' = "failed" => sent[Len(returned) + 1] \in Garbage]_vars

(* messagerw.go:95-98: a message is a two-byte length and as many bytes of *)
(* body, whatever the length.  The code panics for the two largest: the    *)
(* README says how to see it.                                              *)
EveryLengthReadable == pc # "panicked"
=============================================================================
