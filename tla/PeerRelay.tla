----------------------------- MODULE PeerRelay -----------------------------
(***************************************************************************)
(* misc/server/peerconmanager.go and peerconnection.go: the relay between  *)
(* the two local proxies of one tunnel.  A connection's handler goroutine  *)
(* (connect and run) registers it, starts its reading and its writing      *)
(* goroutine, and takes both down when one of them ends.  A reader puts    *)
(* what its proxy sent into the channel of the associated connection,      *)
(* holding its own connection's read lock; a writer empties its            *)
(* connection's channel.  The sweeper closes the connections of a tunnel   *)
(* that is no longer open.                                                 *)
(*                                                                         *)
(* The manager's lock and the connections' RWMutexes are not variables:    *)
(* who holds one follows from where the goroutines are.  A panic on a      *)
(* closed channel ends the process.  sendToPeer is module DebugSend.       *)
(***************************************************************************)
EXTENDS Naturals, Sequences, FiniteSetsExt

CONSTANTS
    Sources,       \* connections that ask for source mode
    Destinations,  \* connections that ask for destination mode
    Capacity,      \* capacity of chMessage; 10 in newPeerConnection
    MaxMessages,   \* bound: messages the proxies send
    None

Cons == Sources \cup Destinations

ASSUME ConstantsAssumption ==
    /\ Sources \cap Destinations = {}
    /\ None \notin Cons
    /\ Capacity \in Nat \ {0}
    /\ MaxMessages \in Nat

VARIABLES
    ws,         \* "none", "open", "dropped" by the proxy, or "closed" by us
    handler,    \* where connect and run are
    reader,     \* the reading goroutine
    writer,     \* the writing goroutine
    inHand,     \* the message it is writing
    assoc,      \* associatedCon; None is the nilConWriter
    closed,     \* the closed flag
    chMessage,  \* messages, each the connection it came from and its number
    chClosed,   \* chMessage is closed
    mapped,     \* the connections in peerConMap
    read,       \* messages read from a connection
    delivered,  \* the last message of one connection written to another
    expired,    \* the tunnel is no longer open
    sweep,      \* connections closeExpiredConnection has still to close
    crashed     \* a goroutine panicked

conVars == <<ws, assoc, closed, mapped>>
queueVars == <<inHand, chMessage, chClosed, read, delivered>>
vars == <<handler, reader, writer, expired, sweep, crashed, conVars, queueVars>>

SameMode(c) == IF c \in Sources THEN Sources ELSE Destinations
OtherMode(c) == Cons \ SameMode(c)

Init ==
    /\ ws = [c \in Cons |-> "none"]
    /\ handler = [c \in Cons |-> "new"]
    /\ reader = [c \in Cons |-> "none"]
    /\ writer = [c \in Cons |-> "none"]
    /\ inHand = [c \in Cons |-> None]
    /\ assoc = [c \in Cons |-> None]
    /\ closed = [c \in Cons |-> FALSE]
    /\ chMessage = [c \in Cons |-> <<>>]
    /\ chClosed = [c \in Cons |-> FALSE]
    /\ mapped = {}
    /\ read = [c \in Cons |-> 0]
    /\ delivered = [to \in Cons |-> [from \in Cons |-> 0]]
    /\ expired = FALSE
    /\ sweep = {}
    /\ crashed = FALSE

-----------------------------------------------------------------------------
(* The locks.  Writers of the manager's lock are handlers that register or *)
(* unregister, its reader is the sweeper; a connection's read lock is held *)
(* by its reader while it sends.                                           *)
Registering(c) == handler[c] \in {"evict", "associate", "unlink"}

ManagerUnlocked == \A c \in Cons : ~Registering(c)

CanLockManager == ManagerUnlocked /\ sweep = {}

CanLock(c) == reader[c] # "sending"

(* The context of run was cancelled.  Mutant: not when the reader ends.    *)
CancelledByWriter(c) == handler[c] = "waitReader"
Cancelled(c) == handler[c] \in {"waitReader", "waitWriter"}

(* peerConnection.close, with its lock.  The close frame is not written    *)
(* when the proxy is gone, or when the writer holds the websocket's write  *)
(* mutex for longer than a second; the websocket then stays as it is.      *)
Close(c) ==
    /\ CanLock(c)
    /\ closed' = [closed EXCEPT ![c] = TRUE]
    /\ \/ ~closed[c] /\ ws' = [ws EXCEPT ![c] = "closed"]
       \/ (closed[c] \/ ws[c] = "dropped" \/ writer[c] = "writing") /\ ws' = ws

HandlerGoes(c, from, to) == handler[c] = from /\ handler' = [handler EXCEPT ![c] = to]

-----------------------------------------------------------------------------
(* peerConManager.connect: the upgraded websocket, then the manager's lock.*)
Upgrade(c) ==
    /\ HandlerGoes(c, "new", "lock")
    /\ ws' = [ws EXCEPT ![c] = "open"]
    /\ UNCHANGED <<reader, writer, assoc, closed, mapped, expired, sweep, crashed, queueVars>>

ConnectLock(c) ==
    /\ CanLockManager
    /\ HandlerGoes(c, "lock", IF mapped \cap SameMode(c) = {} THEN "associate" ELSE "evict")
    /\ UNCHANGED <<reader, writer, expired, sweep, crashed, conVars, queueVars>>

(* Mutant: the connection that is replaced is only forgotten.              *)
EvictForgets(c) ==
    /\ HandlerGoes(c, "evict", "associate")
    /\ UNCHANGED <<reader, writer, expired, sweep, crashed, conVars, queueVars>>

Evict(c) ==
    /\ HandlerGoes(c, "evict", "associate")
    /\ \E existed \in mapped \cap SameMode(c) : Close(existed)
    /\ UNCHANGED <<reader, writer, assoc, mapped, expired, sweep, crashed, queueVars>>

Associate(c) ==
    /\ HandlerGoes(c, "associate", "serviceIDs")
    /\ LET others == mapped \cap OtherMode(c)
       IN /\ \A o \in others : CanLock(o)
          /\ assoc' = [x \in Cons |->
                IF x \in others THEN c
                ELSE IF x = c /\ others # {} THEN CHOOSE o \in others : TRUE
                ELSE assoc[x]]
    /\ mapped' = (mapped \ SameMode(c)) \cup {c}
    /\ UNCHANGED <<reader, writer, ws, closed, expired, sweep, crashed, queueVars>>

(* run: send the service ids and start the two goroutines ...              *)
SendServiceIDs(c) ==
    /\ HandlerGoes(c, "serviceIDs", "run")
    /\ ws[c] # "closed"
    /\ reader' = [reader EXCEPT ![c] = "next"]
    /\ writer' = [writer EXCEPT ![c] = "select"]
    /\ UNCHANGED <<expired, sweep, crashed, conVars, queueVars>>

(* ... or fail, because the websocket is broken or an id is not UTF-8,     *)
(* before close and close(chMessage) are deferred.                         *)
SendServiceIDsFails(c) ==
    /\ HandlerGoes(c, "serviceIDs", "leave")
    /\ UNCHANGED <<reader, writer, expired, sweep, crashed, conVars, queueVars>>

(* The select of run, whichever goroutine ends first: a reader's end       *)
(* cancels the writer, a writer's end closes the websocket for the reader. *)
RunReadErr(c) ==
    /\ reader[c] = "ended"
    /\ HandlerGoes(c, "run", "waitWriter")
    /\ UNCHANGED <<reader, writer, expired, sweep, crashed, conVars, queueVars>>

RunWriteErr(c) ==
    /\ writer[c] = "ended"
    /\ HandlerGoes(c, "run", "waitReader")
    /\ Close(c)
    /\ UNCHANGED <<reader, writer, assoc, mapped, expired, sweep, crashed, queueVars>>

(* Mutant: chMessage is not closed.                                        *)
RunReturnsLeavesOpen(c) ==
    /\ handler[c] \in {"waitReader", "waitWriter"}
    /\ reader[c] = "ended" /\ writer[c] = "ended"
    /\ handler' = [handler EXCEPT ![c] = "leave"]
    /\ Close(c)
    /\ UNCHANGED <<reader, writer, assoc, mapped, expired, sweep, crashed, queueVars>>

(* Once the other goroutine has ended too, the deferred function of run    *)
(* closes the websocket and chMessage, on which a blocked reader panics;   *)
(* nobody receives what was left in it.                                    *)
RunReturns(c) ==
    /\ handler[c] \in {"waitReader", "waitWriter"}
    /\ reader[c] = "ended" /\ writer[c] = "ended"
    /\ handler' = [handler EXCEPT ![c] = "leave"]
    /\ Close(c)
    /\ chClosed' = [chClosed EXCEPT ![c] = TRUE]
    /\ chMessage' = [chMessage EXCEPT ![c] = <<>>]
    /\ crashed' = \E o \in Cons : reader[o] = "sending" /\ assoc[o] = c
    /\ UNCHANGED <<reader, writer, assoc, mapped, expired, sweep, inHand, read, delivered>>

LeaveLock(c) ==
    /\ CanLockManager
    /\ HandlerGoes(c, "leave", "unlink")
    /\ UNCHANGED <<reader, writer, expired, sweep, crashed, conVars, queueVars>>

(* Mutant: the other peer is dissociated without the check that this is    *)
(* still the registered connection.                                        *)
UnlinkDissociates(c) ==
    /\ HandlerGoes(c, "unlink", "done")
    /\ \A o \in mapped \cap OtherMode(c) : CanLock(o)
    /\ assoc' = [x \in Cons |-> IF x \in mapped \cap OtherMode(c) THEN None ELSE assoc[x]]
    /\ mapped' = mapped \ {c}
    /\ ws' = [ws EXCEPT ![c] = "closed"]
    /\ UNCHANGED <<reader, writer, closed, expired, sweep, crashed, queueVars>>

(* TunnelConnect closes the websocket when connect has returned.           *)
Unlink(c) ==
    /\ HandlerGoes(c, "unlink", "done")
    /\ LET others == IF c \in mapped THEN mapped \cap OtherMode(c) ELSE {}
       IN /\ \A o \in others : CanLock(o)
          /\ assoc' = [x \in Cons |-> IF x \in others THEN None ELSE assoc[x]]
    /\ mapped' = mapped \ {c}
    /\ ws' = [ws EXCEPT ![c] = "closed"]
    /\ UNCHANGED <<reader, writer, closed, expired, sweep, crashed, queueVars>>

-----------------------------------------------------------------------------
(* Next may still return what was buffered before the websocket ended.     *)
ReaderNext(c) ==
    /\ reader[c] = "next"
    /\ MapThenSumSet(LAMBDA x : read[x], Cons) < MaxMessages
    /\ read' = [read EXCEPT ![c] = @ + 1]
    /\ reader' = [reader EXCEPT ![c] = "sending"]
    /\ UNCHANGED <<handler, writer, expired, sweep, crashed, conVars, inHand, chMessage, chClosed, delivered>>

ReaderErr(c) ==
    /\ reader[c] = "next"
    /\ ws[c] # "open"
    /\ reader' = [reader EXCEPT ![c] = "ended"]
    /\ UNCHANGED <<handler, writer, expired, sweep, crashed, conVars, queueVars>>

(* A frame that cannot be parsed; or the reader started so late that its   *)
(* context, which it looks at once before the first read, was cancelled.   *)
ReaderBadMessage(c) ==
    /\ reader[c] = "next"
    /\ ws[c] = "open"
    /\ reader' = [reader EXCEPT ![c] = "ended"]
    /\ UNCHANGED <<handler, writer, expired, sweep, crashed, conVars, queueVars>>

(* writeToAssociated: into the nilConWriter, ...                           *)
ReaderDrops(c) ==
    /\ reader[c] = "sending"
    /\ assoc[c] = None
    /\ reader' = [reader EXCEPT ![c] = "next"]
    /\ UNCHANGED <<handler, writer, expired, sweep, crashed, conVars, queueVars>>

(* ... into a channel with room (mutant: room is made), ...                *)
ReaderSendsAnyway(c) ==
    /\ reader[c] = "sending"
    /\ assoc[c] # None
    /\ ~chClosed[assoc[c]]
    /\ chMessage' = [chMessage EXCEPT ![assoc[c]] = Append(@, [from |-> c, number |-> read[c]])]
    /\ reader' = [reader EXCEPT ![c] = "next"]
    /\ UNCHANGED <<handler, writer, expired, sweep, crashed, conVars, inHand, chClosed, read, delivered>>

ReaderSends(c) ==
    /\ reader[c] = "sending"
    /\ assoc[c] # None
    /\ LET o == assoc[c]
       IN /\ ~chClosed[o]
          /\ Len(chMessage[o]) < Capacity
          /\ chMessage' = [chMessage EXCEPT ![o] = Append(@, [from |-> c, number |-> read[c]])]
    /\ reader' = [reader EXCEPT ![c] = "next"]
    /\ UNCHANGED <<handler, writer, expired, sweep, crashed, conVars, inHand, chClosed, read, delivered>>

(* ... or into one that its connection has closed.                         *)
ReaderPanics(c) ==
    /\ reader[c] = "sending"
    /\ assoc[c] # None
    /\ chClosed[assoc[c]]
    /\ crashed' = TRUE
    /\ UNCHANGED <<handler, reader, writer, expired, sweep, conVars, queueVars>>

-----------------------------------------------------------------------------
(* The select of startWritingMessage takes either ready case.              *)
WriterCancelled(c) ==
    /\ writer[c] = "select"
    /\ Cancelled(c)
    /\ writer' = [writer EXCEPT ![c] = "ended"]
    /\ UNCHANGED <<handler, reader, expired, sweep, crashed, conVars, queueVars>>

(* Mutant: the youngest message first.                                     *)
WriterTakesLast(c) ==
    /\ writer[c] = "select"
    /\ chMessage[c] # <<>>
    /\ inHand' = [inHand EXCEPT ![c] = chMessage[c][Len(chMessage[c])]]
    /\ chMessage' = [chMessage EXCEPT ![c] = SubSeq(@, 1, Len(@) - 1)]
    /\ writer' = [writer EXCEPT ![c] = "writing"]
    /\ UNCHANGED <<handler, reader, expired, sweep, crashed, conVars, chClosed, read, delivered>>

WriterTakes(c) ==
    /\ writer[c] = "select"
    /\ chMessage[c] # <<>>
    /\ inHand' = [inHand EXCEPT ![c] = Head(chMessage[c])]
    /\ chMessage' = [chMessage EXCEPT ![c] = Tail(@)]
    /\ writer' = [writer EXCEPT ![c] = "writing"]
    /\ UNCHANGED <<handler, reader, expired, sweep, crashed, conVars, chClosed, read, delivered>>

(* A write to a proxy that is gone may still succeed, to no effect.        *)
WriterWritten(c) ==
    /\ writer[c] = "writing"
    /\ ws[c] # "closed"
    /\ writer' = [writer EXCEPT ![c] = "select"]
    /\ inHand' = [inHand EXCEPT ![c] = None]
    /\ delivered' = IF ws[c] = "open"
                    THEN [delivered EXCEPT ![c][inHand[c].from] = inHand[c].number]
                    ELSE delivered
    /\ UNCHANGED <<handler, reader, expired, sweep, crashed, conVars, chMessage, chClosed, read>>

WriterErr(c) ==
    /\ writer[c] = "writing"
    /\ ws[c] # "open"
    /\ writer' = [writer EXCEPT ![c] = "ended"]
    /\ inHand' = [inHand EXCEPT ![c] = None]
    /\ UNCHANGED <<handler, reader, expired, sweep, crashed, conVars, chMessage, chClosed, read, delivered>>

-----------------------------------------------------------------------------
(* closeExpiredConnection, under the manager's read lock; a sweep of an    *)
(* open tunnel changes nothing.  Mutant: looks under one key of the tunnel.*)
SweepSources ==
    /\ expired
    /\ ManagerUnlocked
    /\ sweep = {}
    /\ sweep' = mapped \cap Sources
    /\ UNCHANGED <<handler, reader, writer, expired, crashed, conVars, queueVars>>

Sweep ==
    /\ expired
    /\ ManagerUnlocked
    /\ sweep = {}
    /\ sweep' = mapped
    /\ UNCHANGED <<handler, reader, writer, expired, crashed, conVars, queueVars>>

SweepCloses(c) ==
    /\ c \in sweep
    /\ Close(c)
    /\ sweep' = sweep \ {c}
    /\ UNCHANGED <<handler, reader, writer, assoc, mapped, expired, crashed, queueVars>>

(* The tunnel is closed, deleted or expires (TunnelService).               *)
Expire ==
    /\ ~expired
    /\ expired' = TRUE
    /\ UNCHANGED <<handler, reader, writer, sweep, crashed, conVars, queueVars>>

(* The proxy's end of the websocket goes away.                             *)
Drop(c) ==
    /\ ws[c] = "open"
    /\ ws' = [ws EXCEPT ![c] = "dropped"]
    /\ UNCHANGED <<handler, reader, writer, assoc, closed, mapped, expired, sweep, crashed, queueVars>>

-----------------------------------------------------------------------------
HandlerStep(c) ==
    \/ ConnectLock(c) \/ Evict(c) \/ Associate(c)
    \/ SendServiceIDs(c) \/ SendServiceIDsFails(c)
    \/ RunReadErr(c) \/ RunWriteErr(c) \/ RunReturns(c)
    \/ LeaveLock(c) \/ Unlink(c)

ReaderStep(c) == ReaderErr(c) \/ ReaderDrops(c) \/ ReaderSends(c) \/ ReaderPanics(c)

WriterStep(c) == WriterCancelled(c) \/ WriterTakes(c) \/ WriterWritten(c) \/ WriterErr(c)

SweepStep == Sweep \/ \E c \in Cons : SweepCloses(c)

Next ==
    /\ ~crashed
    /\ \/ SweepStep \/ Expire
       \/ \E c \in Cons :
             \/ Upgrade(c) \/ Drop(c)
             \/ HandlerStep(c) \/ WriterStep(c)
             \/ ReaderStep(c) \/ ReaderNext(c) \/ ReaderBadMessage(c)

Spec == Init /\ [][Next]_vars

(* Every goroutine that can go on does, locks are handed out fairly (an    *)
(* RWMutex lets no reader pass a waiting writer), the sweeper comes back   *)
(* every minute, and a write to a websocket returns.  Nothing makes a      *)
(* proxy send, drop or expire.                                             *)
Fairness ==
    /\ \A c \in Cons :
          /\ SF_vars(~crashed /\ HandlerStep(c))
          /\ WF_vars(~crashed /\ ReaderStep(c))
          /\ WF_vars(~crashed /\ WriterStep(c))
          /\ SF_vars(~crashed /\ SweepCloses(c))
    /\ SF_vars(~crashed /\ Sweep)

-----------------------------------------------------------------------------
Message == [from : Cons, number : Nat]

HandlerPCs ==
    {"new", "lock", "evict", "associate", "serviceIDs", "run",
     "waitReader", "waitWriter", "leave", "unlink", "done"}

TypeOK ==
    /\ ws \in [Cons -> {"none", "open", "dropped", "closed"}]
    /\ handler \in [Cons -> HandlerPCs]
    /\ reader \in [Cons -> {"none", "next", "sending", "ended"}]
    /\ writer \in [Cons -> {"none", "select", "writing", "ended"}]
    /\ inHand \in [Cons -> Message \cup {None}]
    /\ \A c \in Cons : writer[c] = "writing" => inHand[c] \in Message
    /\ assoc \in [Cons -> Cons \cup {None}]
    /\ closed \in [Cons -> BOOLEAN]
    /\ chMessage \in [Cons -> Seq(Message)]
    /\ \A c \in Cons : Len(chMessage[c]) <= Capacity
    /\ chClosed \in [Cons -> BOOLEAN]
    /\ mapped \in SUBSET Cons
    /\ read \in [Cons -> Nat]
    /\ delivered \in [Cons -> [Cons -> Nat]]
    /\ expired \in BOOLEAN
    /\ sweep \in SUBSET Cons
    /\ crashed \in BOOLEAN

(* peerconmanager.go:36-64, 68-82: whenever the manager is not locked, at  *)
(* most one connection of each mode is registered, and the two that are    *)
(* send to each other and to nobody else, however connections came, were   *)
(* replaced and left.                                                      *)
Paired ==
    ManagerUnlocked =>
        \A c \in mapped :
            /\ mapped \cap SameMode(c) = {c}
            /\ assoc[c] \in (mapped \cap OtherMode(c)) \cup {None}
            /\ assoc[c] = None => mapped \cap OtherMode(c) = {}

(* peerconmanager.go:42-51: a connection that is not registered any more   *)
(* has been told to close: no two proxies of one mode are both served      *)
(* unless the close failed.                                                *)
ReplacedIsClosed ==
    \A c \in Cons :
        ManagerUnlocked /\ handler[c] \notin {"new", "lock"} /\ c \notin mapped => closed[c] \/ ws[c] = "closed"

(* peerconnection.go:120-180: what one proxy sends reaches the other in    *)
(* order; once its first message got through none is lost or repeated, as  *)
(* long as the other's connection lives.                                   *)
RelayInOrder ==
    [][\A to, from \in Cons :
          delivered'[to][from] # delivered[to][from] =>
              delivered[to][from] \in {0, delivered'[to][from] - 1}]_delivered

(* A reader waits, with its connection's read lock, for room in a channel  *)
(* whose writer is not running: with that lock and the manager's the whole *)
(* relay may stand still.                                                  *)
ReaderStuck ==
    \E c \in Cons :
        /\ reader[c] = "sending"
        /\ assoc[c] # None
        /\ ~chClosed[assoc[c]]
        /\ Len(chMessage[assoc[c]]) = Capacity
        /\ writer[assoc[c]] \in {"none", "ended"}

(* peerconnection.go:64-97, peerconmanager.go:66-82: a connection whose    *)
(* websocket ended is taken out and its handler returns, unless the        *)
(* process panics or a reader is stuck for ever.                           *)
HandlerReturns ==
    \A c \in Cons :
        (handler[c] # "new" /\ ws[c] # "open" ~> handler[c] = "done" \/ crashed) \/ <>[]ReaderStuck

(* services.go:74-80: the connections of a tunnel that is not open any     *)
(* more are disconnected, also those accepted while it was being closed;   *)
(* the exceptions are those of HandlerReturns and a close frame that could *)
(* not be written.                                                         *)
SweepDisconnects ==
    \A c \in Cons :
        (expired /\ handler[c] \notin {"new", "done"}
            ~> handler[c] = "done" \/ crashed \/ (closed[c] /\ ws[c] = "open")) \/ <>[]ReaderStuck
=============================================================================
