---------------------------- MODULE LocalSockets ----------------------------
(***************************************************************************)
(* proxy/socket.go and proxy/socket_manager.go: the local connections of a *)
(* proxy by StreamID, each with a goroutine that sucks its data.  Starting *)
(* takes the manager's lock for one step; Write takes it to look the       *)
(* socket up and writes without it; StopSocket and StopAll hold it while   *)
(* they wait for the goroutines of the sockets they close.                 *)
(***************************************************************************)
CONSTANTS
    StreamIDs,
    Cons,      \* local TCP connections
    Threads,   \* goroutines that call the manager
    None

ASSUME NoneAssumption == None \notin StreamIDs \cup Cons \cup Threads

VARIABLES
    con,       \* new, open, or closed by us
    local,     \* the local peer: there, gone, or its end of the connection reset
    socketMap, \* connection of a StreamID
    streamOf,  \* localSocket.streamID of a connection
    suck,      \* where the goroutine of a connection is
    holder,    \* the thread that has the manager's write lock
    toStop,    \* StreamIDs it has yet to stop
    closing,   \* the one whose goroutine it waits for
    writing    \* connection a thread looked up and writes to

vars == <<con, local, socketMap, streamOf, suck, holder, toStop, closing, writing>>

Mapped == {s \in StreamIDs : socketMap[s] # None}

Init ==
    /\ con = [k \in Cons |-> "new"]
    /\ local = [k \in Cons |-> "there"]
    /\ socketMap = [s \in StreamIDs |-> None]
    /\ streamOf = [k \in Cons |-> None]
    /\ suck = [k \in Cons |-> "none"]
    /\ holder = None
    /\ toStop = {}
    /\ closing = None
    /\ writing = [t \in Threads |-> None]

(* No thread holds the lock: RLock and Lock do not block.                  *)
Unlocked == holder = None

-----------------------------------------------------------------------------
(* Mutants: the socket is forgotten before its goroutine ends; it is       *)
(* waited for but not closed; the old socket of a StreamID is overwritten. *)
StopCloseForgets(t, s) ==
    /\ holder = t
    /\ s \in toStop
    /\ closing = None
    /\ con' = [con EXCEPT ![socketMap[s]] = "closed"]
    /\ socketMap' = [socketMap EXCEPT ![s] = None]
    /\ toStop' = toStop \ {s}
    /\ UNCHANGED <<local, streamOf, suck, holder, closing, writing>>

StopCloseWaits(t, s) ==
    /\ holder = t
    /\ closing = None
    /\ s \in toStop
    /\ closing' = s
    /\ UNCHANGED <<con, local, socketMap, streamOf, suck, holder, toStop, writing>>

StartSocketOverwrites(s, k) ==
    /\ Unlocked
    /\ con[k] = "open" /\ streamOf[k] = None
    /\ socketMap' = [socketMap EXCEPT ![s] = k]
    /\ streamOf' = [streamOf EXCEPT ![k] = s]
    /\ suck' = [suck EXCEPT ![k] = "read"]
    /\ UNCHANGED <<con, local, holder, toStop, closing, writing>>

-----------------------------------------------------------------------------
(* A connection is dialed or accepted.                                     *)
Open(k) ==
    /\ con[k] = "new"
    /\ con' = [con EXCEPT ![k] = "open"]
    /\ UNCHANGED <<local, socketMap, streamOf, suck, holder, toStop, closing, writing>>

(* An accepted connection is closed by the handler that cannot use it.     *)
Abandon(k) ==
    /\ con[k] = "open" /\ streamOf[k] = None
    /\ con' = [con EXCEPT ![k] = "closed"]
    /\ UNCHANGED <<local, socketMap, streamOf, suck, holder, toStop, closing, writing>>

(* StartSocket, when the StreamID is free.                                 *)
StartSocket(s, k) ==
    /\ Unlocked
    /\ con[k] = "open" /\ streamOf[k] = None
    /\ socketMap[s] = None
    /\ socketMap' = [socketMap EXCEPT ![s] = k]
    /\ streamOf' = [streamOf EXCEPT ![k] = s]
    /\ suck' = [suck EXCEPT ![k] = "read"]
    /\ UNCHANGED <<con, local, holder, toStop, closing, writing>>

(* Write: the lookup under RLock ...                                       *)
WriteLookup(t, s) ==
    /\ Unlocked
    /\ socketMap[s] # None
    /\ writing' = [writing EXCEPT ![t] = socketMap[s]]
    /\ UNCHANGED <<con, local, socketMap, streamOf, suck, holder, toStop, closing>>

(* ... and the write, which may fail once either side has closed, and does *)
(* ever after.                                                             *)
WriteOk(t) ==
    /\ writing[t] # None
    /\ con[writing[t]] = "open" /\ local[writing[t]] # "reset"
    /\ writing' = [writing EXCEPT ![t] = None]
    /\ UNCHANGED <<con, local, socketMap, streamOf, suck, holder, toStop, closing>>

WriteErr(t) ==
    /\ writing[t] # None
    /\ con[writing[t]] = "closed" \/ local[writing[t]] # "there"
    /\ local' = IF con[writing[t]] = "closed" THEN local
                ELSE [local EXCEPT ![writing[t]] = "reset"]
    /\ writing' = [writing EXCEPT ![t] = None]
    /\ UNCHANGED <<con, socketMap, streamOf, suck, holder, toStop, closing>>

(* StopSocket and StopAll take the lock ...                                *)
StopBegin(t, streams) ==
    /\ Unlocked
    /\ holder' = t
    /\ toStop' = streams \cap Mapped
    /\ UNCHANGED <<con, local, socketMap, streamOf, suck, closing, writing>>

(* ... close a socket, in any order ...                                    *)
StopClose(t, s) ==
    /\ holder = t
    /\ closing = None
    /\ s \in toStop
    /\ con' = [con EXCEPT ![socketMap[s]] = "closed"]
    /\ closing' = s
    /\ UNCHANGED <<local, socketMap, streamOf, suck, holder, toStop, writing>>

(* ... wait for its goroutine and delete it ...                            *)
StopWaited(t) ==
    /\ holder = t
    /\ closing # None
    /\ suck[socketMap[closing]] = "done"
    /\ socketMap' = [socketMap EXCEPT ![closing] = None]
    /\ toStop' = toStop \ {closing}
    /\ closing' = None
    /\ UNCHANGED <<con, local, streamOf, suck, holder, writing>>

(* ... and return.                                                         *)
StopReturns(t) ==
    /\ holder = t
    /\ toStop = {}
    /\ holder' = None
    /\ UNCHANGED <<con, local, socketMap, streamOf, suck, toStop, closing, writing>>

-----------------------------------------------------------------------------
SuckMoves(k, from, to) ==
    /\ suck[k] = from
    /\ suck' = [suck EXCEPT ![k] = to]
    /\ UNCHANGED <<con, local, socketMap, streamOf, holder, toStop, closing, writing>>

(* Read returns data: OnReadData runs.                                     *)
ReadOk(k) == con[k] = "open" /\ local[k] # "reset" /\ SuckMoves(k, "read", "deliver")

(* Read fails: OnReadError runs.                                           *)
ReadErr(k) == (con[k] = "closed" \/ local[k] # "there") /\ SuckMoves(k, "read", "report")

DeliverOk(k) == SuckMoves(k, "deliver", "read")
DeliverErr(k) == SuckMoves(k, "deliver", "close")
Reported(k) == SuckMoves(k, "report", "close")

SuckEnd(k) ==
    /\ suck[k] = "close"
    /\ suck' = [suck EXCEPT ![k] = "done"]
    /\ con' = [con EXCEPT ![k] = "closed"]
    /\ UNCHANGED <<local, socketMap, streamOf, holder, toStop, closing, writing>>

(* The local peer closes or dies.                                          *)
LocalEnds(k) ==
    /\ con[k] = "open" /\ local[k] = "there"
    /\ local' = [local EXCEPT ![k] = "gone"]
    /\ UNCHANGED <<con, socketMap, streamOf, suck, holder, toStop, closing, writing>>

-----------------------------------------------------------------------------
(* The proxy's goroutines may call anything.                               *)
StopStep(t) == (\E s \in StreamIDs : StopClose(t, s)) \/ StopWaited(t) \/ StopReturns(t)

SuckStep(k) ==
    ReadOk(k) \/ ReadErr(k) \/ DeliverOk(k) \/ DeliverErr(k) \/ Reported(k) \/ SuckEnd(k)

Call(t) ==
    /\ holder # t /\ writing[t] = None
    /\ \/ \E s \in StreamIDs : WriteLookup(t, s) \/ StopBegin(t, {s})
       \/ StopBegin(t, StreamIDs)

Next ==
    \/ \E k \in Cons : Open(k) \/ Abandon(k) \/ SuckStep(k) \/ LocalEnds(k)
    \/ \E s \in StreamIDs, k \in Cons : StartSocket(s, k)
    \/ \E t \in Threads : Call(t) \/ WriteOk(t) \/ WriteErr(t) \/ StopStep(t)

Spec == Init /\ [][Next]_vars

(* Goroutines run on, OnReadData and OnReadError return.  A closed         *)
(* connection is never read: ReadOk is disabled then.                      *)
FairSpec ==
    /\ Spec
    /\ \A k \in Cons : WF_vars(SuckStep(k))
    /\ \A t \in Threads : WF_vars(StopStep(t))

-----------------------------------------------------------------------------
TypeOK ==
    /\ con \in [Cons -> {"new", "open", "closed"}]
    /\ local \in [Cons -> {"there", "gone", "reset"}]
    /\ socketMap \in [StreamIDs -> Cons \cup {None}]
    /\ streamOf \in [Cons -> StreamIDs \cup {None}]
    /\ suck \in [Cons -> {"none", "read", "deliver", "report", "close", "done"}]
    /\ holder \in Threads \cup {None}
    /\ toStop \subseteq StreamIDs
    /\ closing \in toStop \cup {None}
    /\ writing \in [Threads -> Cons \cup {None}]

Running(k) == suck[k] \notin {"none", "done"}

(* socket_manager.go:73-98: a goroutine that runs is in the map under its  *)
(* StreamID, so that StopSocket and StopAll reach it, and nothing is read  *)
(* from or reported about a socket after the call that stopped it.         *)
RunningIsMapped == \A k \in Cons : Running(k) => /\ streamOf[k] \in StreamIDs
                                                 /\ socketMap[streamOf[k]] = k

(* socket.go:58-68, 138-147: what is not in the map any more was closed.   *)
UnmappedIsClosed ==
    \A k \in Cons : streamOf[k] # None /\ socketMap[streamOf[k]] # k => con[k] = "closed"

(* socket_manager.go:88: "wait for all LocalSocket to terminate": a stop   *)
(* does return, and so does everyone who waits for the lock.               *)
StopsReturn == \A t \in Threads : holder = t ~> holder # t
=============================================================================
