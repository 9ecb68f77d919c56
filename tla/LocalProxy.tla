----------------------------- MODULE LocalProxy -----------------------------
(***************************************************************************)
(* proxy/localproxy.go: the event handlers that tie the tunnel to the      *)
(* local connections (module LocalSockets).  The AWS client is seen from   *)
(* its listener (client/awsclient.go:26-54): one reader at a time calls    *)
(* OnStreamStart, OnSessionReset and OnServiceIDs, a worker per StreamID   *)
(* calls OnData and OnStreamReset one after the other, a stop asked for    *)
(* takes effect later, and Send* fail when the connection is gone.         *)
(* Modules AwsClient and WorkerManager model that part in detail.          *)
(*                                                                         *)
(* The environment: local applications and services, and a remote peer     *)
(* that sends Data and StreamReset only on streams it holds open.  When    *)
(* the connection drops the service does not tell the peer, and what was   *)
(* under way to it may be lost.                                            *)
(***************************************************************************)
EXTENDS Naturals, Sequences, FiniteSets

CONSTANTS
    StreamIDs, Cons, None,
    Modes,        \* source, destination or both: one is chosen at the start
    Reuse,        \* may a peer use a StreamID again once all is quiet?
    MaxSessions,  \* bound: successful connects
    MaxMessages   \* bound: messages the reader receives

Main == "main"  \* Run and the reader, which take turns

ASSUME ModesAssumption == Modes \subseteq {"source", "destination"} /\ Reuse \in BOOLEAN
ASSUME BoundsAssumption == MaxSessions \in Nat /\ MaxMessages \in Nat
ASSUME NamesApart == Main \notin StreamIDs /\ None \notin {Main} \cup StreamIDs \cup Cons

VARIABLES
    con, local, socketMap, streamOf, suck, holder, toStop, closing, writing,
    session,     \* where Run is
    up,          \* the websocket works
    connects,    \* how many sessions there were
    readerPC,    \* idle, or in a handler
    startID,     \* StreamID of the OnStreamStart that runs
    dialed,      \* and its connection
    worker,      \* StreamIDs that have a worker
    queue,       \* what it has to do; the head is what it does
    fn,          \* where the head's function is
    stopAsked,   \* StreamIDs with a pending stop
    accept,      \* where the accept handler of a connection is
    acceptID,    \* its StreamID
    servers,     \* none in destination mode; else idle, then listening
    used,        \* StreamIDs of streams so far
    startedIn,   \* history: the session in which a stream started
    peer,        \* the remote peer's view of a stream
    peerSent,    \* Data it has sent on it
    outReset,    \* our StreamReset is on its way
    received,    \* messages received
    written      \* history: Data written to a connection

sockVars == <<con, local, socketMap, streamOf, suck, holder, toStop, closing, writing>>
runVars == <<session, connects>>
readVars == <<readerPC, startID, dialed>>
workVars == <<worker, queue, fn>>
acceptVars == <<accept, acceptID, servers>>
idVars == <<used, startedIn>>
peerVars == <<peer, peerSent, received>>
vars == <<sockVars, runVars, up, readVars, workVars, stopAsked, acceptVars, idVars, peerVars,
          outReset, written>>

(* The threads that use the socket manager are Main and the workers.       *)
(* Accept handlers only call StartSocket.                                  *)
S == INSTANCE LocalSockets WITH Threads <- {Main} \cup StreamIDs

Init ==
    /\ S!Init
    /\ session = "away" /\ up = FALSE /\ connects = 0
    /\ readerPC = "idle" /\ startID = None /\ dialed = None
    /\ worker = {}
    /\ queue = [s \in StreamIDs |-> <<>>]
    /\ fn = [s \in StreamIDs |-> "idle"]
    /\ stopAsked = {}
    /\ accept = [k \in Cons |-> "none"]
    /\ acceptID = [k \in Cons |-> None]
    /\ servers \in {IF m = "source" THEN "idle" ELSE "none" : m \in Modes}
    /\ used = {}
    /\ startedIn = [s \in StreamIDs |-> 0]
    /\ peer = [s \in StreamIDs |-> "closed"]
    /\ peerSent = [s \in StreamIDs |-> 0]
    /\ outReset = {}
    /\ received = 0
    /\ written = [k \in Cons |-> <<>>]

-----------------------------------------------------------------------------
(* SendStreamReset: a stop is asked for; the message goes out if it can.   *)
SendStreamReset(s) ==
    /\ stopAsked' = stopAsked \cup {s}
    /\ outReset' = IF up THEN outReset \cup {s} ELSE outReset

(* Mutants: OnReadError does not reset the stream; OnConnected keeps the   *)
(* connections; Data overtakes what is queued; the accept handler keeps    *)
(* what it cannot announce; the cleanup at the end does not wait.          *)
ReportSilent(k) ==
    /\ S!Reported(k)
    /\ UNCHANGED <<runVars, up, readVars, workVars, stopAsked, outReset, acceptVars, idVars,
                   peerVars, written>>

OnConnectedKeeps ==
    /\ session = "connected"
    /\ session' = "serve"
    /\ UNCHANGED <<sockVars, connects, up, readVars, workVars, stopAsked, acceptVars, idVars,
                   peerVars, outReset, written>>

Overtake(s, m) == <<m>> \o queue[s]

StartFailsKeeps(k) ==
    /\ accept[k] = "start"
    /\ ~up
    /\ stopAsked' = stopAsked \cup {acceptID[k]}
    /\ accept' = [accept EXCEPT ![k] = "none"]
    /\ UNCHANGED <<sockVars, runVars, up, readVars, workVars, acceptID, servers, idVars,
                   peerVars, outReset, written>>

CleanupAbandons ==
    /\ session = "cleanup"
    /\ holder' = None
    /\ session' = "returned"
    /\ UNCHANGED <<con, local, socketMap, streamOf, suck, toStop, closing, writing, connects, up,
                   readVars, workVars, stopAsked, acceptVars, idVars, peerVars, outReset,
                   written>>

-----------------------------------------------------------------------------
(* Run: connect, serve, reconnect; clean up before returning.              *)
RunUnchanged ==
    UNCHANGED <<readVars, workVars, stopAsked, acceptVars, idVars, written>>

Connect ==
    /\ session = "away"
    /\ connects < MaxSessions
    /\ session' = "connected"
    /\ up' = TRUE
    /\ connects' = connects + 1
    /\ RunUnchanged
    /\ UNCHANGED <<sockVars, peerVars, outReset>>

(* OnConnected: StopAll.                                                   *)
OnConnected ==
    /\ session = "connected"
    /\ S!StopBegin(Main, StreamIDs)
    /\ session' = "dropping"
    /\ RunUnchanged
    /\ UNCHANGED <<connects, up, peerVars, outReset>>

OnConnectedReturns ==
    /\ session = "dropping"
    /\ S!StopReturns(Main)
    /\ session' = "serve"
    /\ RunUnchanged
    /\ UNCHANGED <<connects, up, peerVars, outReset>>

(* The network fails, or Run closes because its context is done.           *)
Drop ==
    /\ up
    /\ up' = FALSE
    /\ outReset' \in SUBSET outReset
    /\ RunUnchanged
    /\ UNCHANGED <<sockVars, runVars, peerVars>>

(* The reader ends between two messages.                                   *)
ServeEnds ==
    /\ session = "serve"
    /\ ~up
    /\ readerPC = "idle"
    /\ session' = "ending"
    /\ RunUnchanged
    /\ UNCHANGED <<sockVars, connects, up, peerVars, outReset>>

(* The workers have been stopped: dial again, or return.                   *)
SessionEnds ==
    /\ session = "ending"
    /\ worker = {}
    /\ session' \in {"away", "leaving"}
    /\ RunUnchanged
    /\ UNCHANGED <<sockVars, connects, up, peerVars, outReset>>

(* The service refuses, or the context is done meanwhile.                  *)
GiveUp ==
    /\ session = "away"
    /\ session' = "leaving"
    /\ RunUnchanged
    /\ UNCHANGED <<sockVars, connects, up, peerVars, outReset>>

Cleanup ==
    /\ session = "leaving"
    /\ S!StopBegin(Main, StreamIDs)
    /\ session' = "cleanup"
    /\ RunUnchanged
    /\ UNCHANGED <<connects, up, peerVars, outReset>>

CleanupReturns ==
    /\ session = "cleanup"
    /\ S!StopReturns(Main)
    /\ session' = "returned"
    /\ RunUnchanged
    /\ UNCHANGED <<connects, up, peerVars, outReset>>

-----------------------------------------------------------------------------
(* The reader.                                                             *)
Receive ==
    /\ session = "serve" /\ up
    /\ readerPC = "idle"
    /\ received < MaxMessages
    /\ received' = received + 1
    /\ UNCHANGED <<runVars, up, accept, acceptID, outReset, written>>

(* Nobody uses the StreamID any more.                                      *)
Quiet(s) ==
    /\ s \notin worker \cup stopAsked \cup outReset
    /\ \A k \in Cons : streamOf[k] = s => suck[k] = "done"

(* StreamStart: a worker, then OnStreamStart dials ...                     *)
ReceiveStart(s) ==
    /\ Receive
    /\ servers = "none"
    /\ peer[s] = "closed"
    /\ s \notin used \/ (Reuse /\ Quiet(s))
    /\ used' = used \cup {s}
    /\ startedIn' = [startedIn EXCEPT ![s] = connects]
    /\ peer' = [peer EXCEPT ![s] = "open"]
    /\ peerSent' = [peerSent EXCEPT ![s] = 0]
    /\ worker' = worker \cup {s}
    /\ startID' = s
    /\ \/ \E k \in Cons : S!Open(k) /\ dialed' = k /\ readerPC' = "start"
       \/ readerPC' = "refuse" /\ UNCHANGED <<sockVars, dialed>>
    /\ UNCHANGED <<queue, fn, stopAsked, servers>>

HandlerUnchanged ==
    UNCHANGED <<runVars, up, workVars, acceptVars, idVars, peerVars, written>>

(* ... and starts a socket ...                                             *)
OnStreamStartOk ==
    /\ readerPC = "start"
    /\ S!StartSocket(startID, dialed)
    /\ readerPC' = "idle"
    /\ startID' = None /\ dialed' = None
    /\ HandlerUnchanged
    /\ UNCHANGED <<stopAsked, outReset>>

(* ... unless the StreamID has one: the connection is left alone.          *)
OnStreamStartExists ==
    /\ readerPC = "start"
    /\ S!Unlocked
    /\ socketMap[startID] # None
    /\ readerPC' = "refuse"
    /\ dialed' = None
    /\ HandlerUnchanged
    /\ UNCHANGED <<sockVars, startID, stopAsked, outReset>>

Refuse ==
    /\ readerPC = "refuse"
    /\ SendStreamReset(startID)
    /\ readerPC' = "idle"
    /\ startID' = None
    /\ HandlerUnchanged
    /\ UNCHANGED <<sockVars, dialed>>

Enqueue(s, m) == Append(queue[s], m)

(* Data and StreamReset go to the worker, if there is one.                 *)
ReceiveForWorker(s, m) ==
    /\ Receive
    /\ peer[s] = "open"
    /\ queue' = IF s \in worker THEN [queue EXCEPT ![s] = Enqueue(s, m)] ELSE queue
    /\ UNCHANGED <<sockVars, readVars, worker, fn, stopAsked, servers, idVars>>

ReceiveData(s) ==
    /\ ReceiveForWorker(s, [type |-> "data", n |-> peerSent[s] + 1])
    /\ peerSent' = [peerSent EXCEPT ![s] = @ + 1]
    /\ UNCHANGED peer

ReceiveReset(s) ==
    /\ ReceiveForWorker(s, [type |-> "reset", n |-> 0])
    /\ peer' = [peer EXCEPT ![s] = "closed"]
    /\ UNCHANGED peerSent

(* SessionReset: StopAll on the reader.                                    *)
ReceiveSessionReset ==
    /\ Receive
    /\ S!StopBegin(Main, StreamIDs)
    /\ readerPC' = "sync"
    /\ peer' = [s \in StreamIDs |-> "closed"]
    /\ UNCHANGED <<startID, dialed, workVars, stopAsked, servers, idVars, peerSent>>

OnSessionResetReturns ==
    /\ readerPC = "sync"
    /\ S!StopReturns(Main)
    /\ readerPC' = "idle"
    /\ HandlerUnchanged
    /\ UNCHANGED <<startID, dialed, stopAsked, outReset>>

(* ServiceIDs: the local servers start accepting, once.                    *)
ReceiveServiceIDs ==
    /\ Receive
    /\ servers # "none"
    /\ servers' = "listening"
    /\ UNCHANGED <<sockVars, readVars, workVars, stopAsked, idVars, peer, peerSent>>

-----------------------------------------------------------------------------
(* Workers.                                                                *)
Busy(s, type) == s \in worker /\ fn[s] = "idle" /\ queue[s] # <<>> /\ Head(queue[s]).type = type

Goes(s, to) ==
    /\ fn' = [fn EXCEPT ![s] = to]
    /\ UNCHANGED <<queue, worker, runVars, up, readVars, acceptVars, idVars, peerVars>>

Returns(s) ==
    /\ fn' = [fn EXCEPT ![s] = "idle"]
    /\ queue' = [queue EXCEPT ![s] = Tail(@)]
    /\ UNCHANGED <<worker, runVars, up, readVars, acceptVars, idVars, peerVars>>


WorkerStopsLeaves(s) ==
    /\ s \in stopAsked \/ (session = "ending" /\ s \in worker)
    /\ fn[s] = "idle"
    /\ worker' = worker \ {s}
    /\ stopAsked' = stopAsked \ {s}
    /\ UNCHANGED <<sockVars, queue, fn, runVars, up, readVars, acceptVars, idVars, peerVars,
                   outReset, written>>

(* OnData: look the socket up ...                                          *)
OnData(s) ==
    /\ Busy(s, "data")
    /\ S!WriteLookup(s, s)
    /\ Goes(s, "write")
    /\ UNCHANGED <<stopAsked, outReset, written>>

OnDataUnknown(s) ==
    /\ Busy(s, "data")
    /\ S!Unlocked /\ socketMap[s] = None
    /\ Goes(s, "failed")
    /\ UNCHANGED <<sockVars, stopAsked, outReset, written>>

(* ... and write; when either fails the stream is reset.                   *)
OnDataWritten(s) ==
    /\ fn[s] = "write"
    /\ S!WriteOk(s)
    /\ written' = [written EXCEPT ![writing[s]] = Append(@, Head(queue[s]).n)]
    /\ Returns(s)
    /\ UNCHANGED <<stopAsked, outReset>>

OnDataWriteFails(s) ==
    /\ fn[s] = "write"
    /\ S!WriteErr(s)
    /\ Goes(s, "failed")
    /\ UNCHANGED <<stopAsked, outReset, written>>

OnDataFailed(s) ==
    /\ fn[s] = "failed"
    /\ SendStreamReset(s)
    /\ Returns(s)
    /\ UNCHANGED <<sockVars, written>>

OnStreamReset(s) ==
    /\ Busy(s, "reset")
    /\ S!StopBegin(s, {s})
    /\ Goes(s, "stop")
    /\ UNCHANGED <<stopAsked, outReset, written>>

OnStreamResetReturns(s) ==
    /\ fn[s] = "stop"
    /\ S!StopReturns(s)
    /\ stopAsked' = stopAsked \cup {s}
    /\ Returns(s)
    /\ UNCHANGED <<outReset, written>>

(* A stop that was asked for, or the sweep at the end of a session; either *)
(* waits for the running function.                                         *)
WorkerStops(s) ==
    /\ s \in stopAsked \/ (session = "ending" /\ s \in worker)
    /\ fn[s] = "idle"
    /\ worker' = worker \ {s}
    /\ queue' = [queue EXCEPT ![s] = <<>>]
    /\ stopAsked' = stopAsked \ {s}
    /\ UNCHANGED <<sockVars, fn, runVars, up, readVars, acceptVars, idVars, peerVars, outReset,
                   written>>

-----------------------------------------------------------------------------
(* Sockets: SocketReader's callbacks.                                      *)
SocketUnchanged ==
    UNCHANGED <<runVars, up, readVars, workVars, acceptVars, idVars, peerVars, written>>

(* OnReadData: SendData.                                                   *)
OnReadData(k) ==
    /\ IF up THEN S!DeliverOk(k) ELSE S!DeliverErr(k)
    /\ SocketUnchanged
    /\ UNCHANGED <<stopAsked, outReset>>

OnReadError(k) ==
    /\ S!Reported(k)
    /\ SendStreamReset(streamOf[k])
    /\ SocketUnchanged

SocketGoes(k) ==
    /\ S!ReadOk(k) \/ S!ReadErr(k) \/ S!SuckEnd(k)
    /\ SocketUnchanged
    /\ UNCHANGED <<stopAsked, outReset>>

SocketFails(k) == S!ReadErr(k) /\ SocketGoes(k)

LocalEnds(k) ==
    /\ S!LocalEnds(k)
    /\ SocketUnchanged
    /\ UNCHANGED <<stopAsked, outReset>>

StopGoes ==
    /\ \E t \in {Main} \cup StreamIDs :
          S!StopWaited(t) \/ \E s \in StreamIDs : S!StopClose(t, s)
    /\ SocketUnchanged
    /\ UNCHANGED <<stopAsked, outReset>>

-----------------------------------------------------------------------------
(* Accept handlers: a new StreamID and its worker ...                      *)
Accept(k, s) ==
    /\ servers = "listening"
    /\ s \notin used
    /\ S!Open(k)
    /\ accept' = [accept EXCEPT ![k] = "start"]
    /\ acceptID' = [acceptID EXCEPT ![k] = s]
    /\ used' = used \cup {s}
    /\ worker' = worker \cup {s}
    /\ UNCHANGED <<runVars, up, readVars, queue, fn, stopAsked, servers, startedIn, peerVars,
                   outReset, written>>

(* ... announced to the peer ...                                           *)
StartSent(k) ==
    /\ accept[k] = "start"
    /\ up
    /\ accept' = [accept EXCEPT ![k] = "sent"]
    /\ startedIn' = [startedIn EXCEPT ![acceptID[k]] = connects]
    /\ peer' = [peer EXCEPT ![acceptID[k]] = "open"]
    /\ UNCHANGED <<sockVars, runVars, up, readVars, workVars, stopAsked, acceptID, servers,
                   used, peerSent, received, outReset, written>>

StartFails(k) ==
    /\ accept[k] = "start"
    /\ ~up
    /\ S!Abandon(k)
    /\ stopAsked' = stopAsked \cup {acceptID[k]}
    /\ accept' = [accept EXCEPT ![k] = "none"]
    /\ UNCHANGED <<runVars, up, readVars, workVars, acceptID, servers, idVars, peerVars,
                   outReset, written>>

(* ... and only then a socket; the id is new, so it cannot exist.          *)
AcceptStarts(k) ==
    /\ accept[k] = "sent"
    /\ S!StartSocket(acceptID[k], k)
    /\ accept' = [accept EXCEPT ![k] = "none"]
    /\ UNCHANGED <<runVars, up, readVars, workVars, stopAsked, acceptID, servers, idVars,
                   peerVars, outReset, written>>

PeerGetsReset(s) ==
    /\ s \in outReset
    /\ outReset' = outReset \ {s}
    /\ peer' = [peer EXCEPT ![s] = "closed"]
    /\ UNCHANGED <<sockVars, runVars, up, readVars, workVars, stopAsked, acceptVars, idVars,
                   peerSent, received, written>>
-----------------------------------------------------------------------------
RunStep ==
    \/ Connect \/ OnConnected \/ OnConnectedReturns \/ ServeEnds \/ SessionEnds
    \/ GiveUp \/ Cleanup \/ CleanupReturns

HandlerStep == OnStreamStartOk \/ OnStreamStartExists \/ Refuse \/ OnSessionResetReturns

WorkerStep(s) ==
    \/ OnData(s) \/ OnDataUnknown(s) \/ OnDataWritten(s) \/ OnDataWriteFails(s)
    \/ OnDataFailed(s) \/ OnStreamReset(s) \/ OnStreamResetReturns(s)

SocketStep(k) == OnReadData(k) \/ OnReadError(k) \/ SocketGoes(k)

AcceptStep(k) == StartSent(k) \/ StartFails(k) \/ AcceptStarts(k)

Next ==
    \/ RunStep \/ Drop \/ HandlerStep \/ StopGoes
    \/ ReceiveSessionReset \/ ReceiveServiceIDs
    \/ \E s \in StreamIDs : ReceiveStart(s) \/ ReceiveData(s) \/ ReceiveReset(s)
    \/ \E s \in StreamIDs : WorkerStep(s) \/ WorkerStops(s) \/ PeerGetsReset(s)
    \/ \E k \in Cons : SocketStep(k) \/ LocalEnds(k) \/ AcceptStep(k)
    \/ \E k \in Cons, s \in StreamIDs : Accept(k, s)

Spec == Init /\ [][Next]_vars

(***************************************************************************)
(* Goroutines run on; a dial has an outcome; what was sent arrives; a lock *)
(* that is free again and again is obtained (Go's RWMutex does not starve  *)
(* a waiter); a local peer that is gone has only so much left to read.     *)
(* con.Write to a local connection (socket.go:107), which has no deadline, *)
(* is assumed to return: the local side reads, or ends.                    *)
(***************************************************************************)
Fairness ==
    /\ SF_vars(RunStep) /\ SF_vars(HandlerStep) /\ WF_vars(StopGoes)
    /\ \A s \in StreamIDs :
          SF_vars(WorkerStep(s)) /\ SF_vars(WorkerStops(s)) /\ WF_vars(PeerGetsReset(s))
    /\ \A k \in Cons :
          WF_vars(SocketStep(k)) /\ SF_vars(SocketFails(k)) /\ SF_vars(AcceptStep(k))

FairSpec == Spec /\ Fairness
-----------------------------------------------------------------------------
(* The connection of a stream, if a write to it may still succeed.         *)
Live(s) == socketMap[s] # None /\ con[socketMap[s]] = "open" /\ local[socketMap[s]] # "reset"

Serves == [s \in StreamIDs |-> IF Live(s) THEN socketMap[s] ELSE None]

Bound == {k \in Cons : streamOf[k] # None}

R == INSTANCE ReliableStream WITH sent <- peerSent, serves <- Serves, bound <- Bound, got <- written

TypeOK ==
    /\ S!TypeOK
    /\ session \in {"away", "connected", "dropping", "serve", "ending", "leaving", "cleanup",
                    "returned"}
    /\ up \in BOOLEAN
    /\ connects \in 0..MaxSessions
    /\ readerPC \in {"idle", "start", "refuse", "sync"}
    /\ startID \in StreamIDs \cup {None} /\ dialed \in Cons \cup {None}
    /\ worker \subseteq StreamIDs
    /\ queue \in [StreamIDs -> Seq([type : {"data", "reset"}, n : 0..MaxMessages])]
    /\ fn \in [StreamIDs -> {"idle", "write", "failed", "stop"}]
    /\ stopAsked \subseteq StreamIDs
    /\ accept \in [Cons -> {"none", "start", "sent"}]
    /\ acceptID \in [Cons -> StreamIDs \cup {None}]
    /\ servers \in {"none", "idle", "listening"}
    /\ used \subseteq StreamIDs
    /\ startedIn \in [StreamIDs -> 0..MaxSessions]
    /\ peer \in [StreamIDs -> {"closed", "open"}]
    /\ peerSent \in [StreamIDs -> 0..MaxMessages]
    /\ outReset \subseteq StreamIDs
    /\ received \in 0..MaxMessages
    /\ written \in [Cons -> Seq(1..MaxMessages)]
    /\ \A s \in StreamIDs : fn[s] = "write" <=> writing[s] # None

(* The handlers use the socket manager as LocalSockets allows, so what is  *)
(* proved of it holds here.                                                *)
UsesLocalSockets == S!Spec

(* localproxy.go:165, 224, 246; workermanager.go:16, 45: in destination    *)
(* mode workers, queues, sessions and locks amount to a reliable stream:   *)
(* a local connection gets what the peer sent on this stream, never what   *)
(* was left of an earlier one with its StreamID.  (In source mode Data     *)
(* between SendStreamStart and StartSocket are lost.)                      *)
ImplementsReliableStream == R!Spec

(* localproxy.go:160, 165: a local connection gets the messages of its     *)
(* stream in order and without a gap.                                      *)
DataPrefix == \A k \in Cons : \A i \in DOMAIN written[k] : written[k][i] = i

(* socket_manager.go:88, localproxy.go:198: an open connection is in the   *)
(* map, where StopAll finds it, or in the hands of a handler.              *)
NoOrphan ==
    \A k \in Cons : con[k] = "open" =>
        \/ \E s \in StreamIDs : socketMap[s] = k
        \/ dialed = k
        \/ accept[k] # "none"

(* localproxy.go:177, 198: connections do not outlive the session that     *)
(* opened them, nor Run.                                                   *)
OfThisSession ==
    session \in {"serve", "returned"} =>
        \A s \in StreamIDs :
            socketMap[s] # None /\ con[socketMap[s]] = "open" =>
                session = "serve" /\ startedIn[s] = connects

(* localproxy.go:346-355: when a local connection ends in the session in   *)
(* which its stream began, the peer learns that the stream is over, or the *)
(* websocket drops.                                                        *)
PeerLearns ==
    \A k \in Cons, s \in StreamIDs :
        streamOf[k] = s /\ suck[k] = "done" ~>
            (peer[s] = "closed" \/ ~up \/ startedIn[s] # connects)

(* The same whatever becomes of the websocket.  Not so in the code: the    *)
(* README says how to see it.                                              *)
PeerAlwaysLearns ==
    \A k \in Cons, s \in StreamIDs :
        streamOf[k] = s /\ suck[k] = "done" ~> peer[s] = "closed"

=============================================================================
