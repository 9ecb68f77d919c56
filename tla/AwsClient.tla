----------------------------- MODULE AwsClient -----------------------------
(***************************************************************************)
(* client/awsclient.go: Run connects, spawns a reading and a pinging       *)
(* goroutine, waits for the reader or the caller's context, closes, stops  *)
(* all workers and reconnects.  The reader dispatches messages to the      *)
(* worker manager (module WorkerManager); worker functions call the        *)
(* listener and, like accept handlers and socket goroutines, send          *)
(* messages back.                                                          *)
(*                                                                         *)
(* The service and the remote peer are the environment: the peer keeps the *)
(* stream protocol (Data and StreamReset only on a stream it holds open,   *)
(* StreamStart only on one it does not), messages arrive in order, and the *)
(* connection may drop at any moment.                                      *)
(***************************************************************************)
EXTENDS Naturals, Sequences, FiniteSets

CONSTANTS
    StreamIDs, Workers, BufSize, MaxStops, ReuseUnsettled, None,
    MaxSessions,  \* bound: successful connects
    MaxMessages,  \* bound: messages the reader receives
    Modes,        \* source opens streams, destination has them opened (aws/mode.go):
                  \* who may open the streams of the run
    CloseMayFail  \* may WriteControl(CloseMessage) time out on a live connection?

ASSUME ModesAssumption == Modes \subseteq {"source", "destination"}

Message ==
    [type : {"start", "data", "reset"}, stream : StreamIDs, seq : 1..MaxMessages]
        \cup [type : {"sync"}, stream : {None}, seq : 1..MaxMessages]

ASSUME BoundsAssumption ==
    /\ BufSize \in Nat \ {0} /\ MaxStops \in Nat /\ MaxSessions \in Nat /\ MaxMessages \in Nat
    /\ ReuseUnsettled \in BOOLEAN /\ CloseMayFail \in BOOLEAN
ASSUME NamesApart ==
    None \notin StreamIDs /\ None \notin Workers /\ None \notin Message /\ None # "ctx"

VARIABLES
    workerMap, owner, status, cancelled, chExec, current, stops, stopping, sending,
    sendFunc, sweepOn, sweepTodo, sweepWait, sweeps, swept, asked, unsettled,
    ctxDone,    \* the context given to Run is done
    runPC,      \* where Run / start is
    startErr,   \* the error start will return: ctx.Err() or a read error
    result,     \* why Run returned
    con,        \* client.con: none, up, down (peer or network gone), closed
    sessions,   \* how many sessions there were
    firstSeq,   \* the first message of the current session
    readerPC,   \* where keepReadingMessages is
    msg,        \* the message the reader dispatches
    started,    \* the worker of the stream whose OnStreamStart is running
    received,   \* how many messages were received
    pingOn,     \* keepSendingPing runs
    fnPC,       \* where a worker's function is: in the listener, or past stop
    sockets,    \* streams (by worker) the listener may still give up once
    starting,   \* SendStreamStart has started the worker, not sent yet
    resetting,  \* SendStreamReset of a socket has called stop, not sent yet
    peer,       \* the remote peer's view of a stream
    outReset,   \* our StreamReset is on its way to the peer
    carried,    \* history: streams the peer has held open since an earlier session
    lastData    \* history: the last Data whose OnData was called

wmVars == <<workerMap, owner, status, cancelled, chExec, current, stops, stopping, sending,
            sendFunc, sweepOn, sweepTodo, sweepWait, sweeps, swept, asked, unsettled>>
runVars == <<runPC, startErr, result, sessions, firstSeq>>
readVars == <<readerPC, msg, started, received>>
localVars == <<sockets, starting, resetting>>
peerVars == <<peer, outReset, carried>>
vars == <<wmVars, ctxDone, runVars, con, readVars, pingOn, fnPC, localVars, peerVars, lastData>>

WM == INSTANCE WorkerManager WITH Funcs <- Message, MaxSweeps <- MaxSessions

Init ==
    /\ WM!Init
    /\ ctxDone = FALSE
    /\ runPC = "dial"
    /\ startErr = None
    /\ result = None
    /\ con = "none"
    /\ sessions = 0
    /\ firstSeq = 1
    /\ readerPC = "off"
    /\ msg = None
    /\ started = None
    /\ received = 0
    /\ pingOn = FALSE
    /\ fnPC = [w \in Workers |-> "idle"]
    /\ sockets = {}
    /\ starting = {}
    /\ resetting = {}
    /\ peer = [s \in StreamIDs |-> "closed"]
    /\ outReset = {}
    /\ carried = {}
    /\ lastData = [s \in StreamIDs |-> 0]

-----------------------------------------------------------------------------
(* Mutants: plausible bugs, each refuted by a property below.              *)

(* start does not wait for the reader: no <-chReadMessageResult *)
WaitReaderSkipped ==
    /\ runPC = "waitReader"
    /\ startErr' = "ctx"
    /\ runPC' = "waitPing"
    /\ UNCHANGED <<wmVars, ctxDone, result, sessions, firstSeq, con, readVars, pingOn, fnPC,
                   localVars, peerVars, lastData>>

(* ... nor for the pinging goroutine: no <-chSendPingTerminate *)
WaitPingSkipped ==
    /\ runPC = "waitPing"
    /\ WM!Snapshot
    /\ runPC' = "sweep"
    /\ UNCHANGED <<ctxDone, startErr, result, sessions, firstSeq, con, readVars, pingOn, fnPC,
                   localVars, peerVars, lastData>>

(* the connection is not closed when the context is done *)
CloseForgotten == con' = con

(* SendStreamReset stops the worker but does not send *)
SendResetForgotten(s) == UNCHANGED peerVars

(* a message that finds the channel of its worker full is dropped *)
DispatchDroppedFull ==
    /\ readerPC = "dispatch"
    /\ msg.type \in {"data", "reset"}
    /\ WM!CanRLock
    /\ workerMap[msg.stream] # None => Len(chExec[workerMap[msg.stream]]) = BufSize
    /\ readerPC' = "check"
    /\ msg' = None
    /\ UNCHANGED <<wmVars, ctxDone, runVars, con, started, received, pingOn, fnPC, localVars,
                   peerVars, lastData>>

(* the function returned, its frame is still thought to run *)
OnDataOkForgotten(w) ==
    /\ fnPC[w] = "called"
    /\ current[w].type = "data"
    /\ WM!WorkerFinish(w)
    /\ UNCHANGED <<ctxDone, runVars, con, readVars, pingOn, localVars, fnPC, peerVars, lastData>>

-----------------------------------------------------------------------------
(* innerCtx: cancelled with the caller's context and when the reader ends. *)
InnerDone == ctxDone \/ readerPC = "ended"

CancelCtx ==
    /\ ~ctxDone
    /\ ctxDone' = TRUE
    /\ UNCHANGED <<wmVars, runVars, con, readVars, pingOn, fnPC, localVars, peerVars, lastData>>

(* The dialer returns a connection; client.con is replaced.                *)
DialOk ==
    /\ runPC = "dial"
    /\ sessions < MaxSessions
    /\ con' = "up"
    /\ runPC' = "handlers"
    /\ sessions' = sessions + 1
    /\ firstSeq' = received + 1
    /\ carried' = {s \in StreamIDs : peer[s] = "open"}
    /\ UNCHANGED <<wmVars, ctxDone, startErr, result, readVars, pingOn, fnPC, localVars, peer,
                   outReset, lastData>>

(* No response, or one that is neither 400-499 nor "tunnel closed".        *)
DialRetry ==
    /\ runPC = "dial"
    /\ runPC' = "backoff"
    /\ UNCHANGED <<wmVars, ctxDone, startErr, result, con, sessions, firstSeq, readVars, pingOn,
                   fnPC, localVars, peerVars, lastData>>

DialRefused ==
    /\ runPC = "dial"
    /\ runPC' = "returned"
    /\ result' \in {"refused", "tunnelClosed"}
    /\ UNCHANGED <<wmVars, ctxDone, startErr, con, sessions, firstSeq, readVars, pingOn, fnPC,
                   localVars, peerVars, lastData>>

(* The connect handlers have run; the session's goroutines start.          *)
Spawn ==
    /\ runPC = "handlers"
    /\ runPC' = "wait"
    /\ readerPC' = "check"
    /\ pingOn' = TRUE
    /\ UNCHANGED <<wmVars, ctxDone, startErr, result, sessions, firstSeq, con, msg, started,
                   received, fnPC, localVars, peerVars, lastData>>

(* close: WriteControl, and only if that works con.Close.                  *)
Close ==
    \/ con' = "closed"
    \/ (con = "down" \/ CloseMayFail) /\ con' = con

(* select takes ctx.Done().                                                *)
WaitCtx ==
    /\ runPC = "wait"
    /\ ctxDone
    /\ Close
    /\ runPC' = "waitReader"
    /\ UNCHANGED <<wmVars, ctxDone, startErr, result, sessions, firstSeq, readVars, pingOn, fnPC,
                   localVars, peerVars, lastData>>

WaitReader ==
    /\ runPC = "waitReader"
    /\ readerPC = "ended"
    /\ startErr' = "ctx"
    /\ runPC' = "waitPing"
    /\ UNCHANGED <<wmVars, ctxDone, result, sessions, firstSeq, con, readVars, pingOn, fnPC,
                   localVars, peerVars, lastData>>

(* select takes the reader's result, which startErr already holds.         *)
WaitErr ==
    /\ runPC = "wait"
    /\ readerPC = "ended"
    /\ Close
    /\ runPC' = "waitPing"
    /\ UNCHANGED <<wmVars, ctxDone, startErr, result, sessions, firstSeq, readVars, pingOn, fnPC,
                   localVars, peerVars, lastData>>

(* The pinging goroutine has ended: stopAll takes its snapshot.            *)
WaitPing ==
    /\ runPC = "waitPing"
    /\ ~pingOn
    /\ WM!Snapshot
    /\ runPC' = "sweep"
    /\ UNCHANGED <<ctxDone, startErr, result, sessions, firstSeq, con, readVars, pingOn, fnPC,
                   localVars, peerVars, lastData>>

SweepWorkers ==
    /\ \/ \E w \in Workers : WM!StopAllCancel(w) \/ WM!StopAllSkip(w)
       \/ WM!StopAllWaited
    /\ UNCHANGED <<ctxDone, runVars, con, readVars, pingOn, fnPC, localVars, peerVars, lastData>>

(* start returns: Run returns nil if the error is the context's.           *)
SweepDone ==
    /\ WM!StopAllDone
    /\ IF startErr = "ctx" THEN runPC' = "returned" /\ result' = "ctx"
                           ELSE runPC' = "backoff" /\ result' = result
    /\ readerPC' = "off"
    /\ UNCHANGED <<ctxDone, startErr, sessions, firstSeq, con, msg, started, received, pingOn,
                   fnPC, localVars, peerVars, lastData>>

(* The wait for the reconnect interval is interrupted by the context ...   *)
BackoffCtx ==
    /\ runPC = "backoff"
    /\ ctxDone
    /\ runPC' = "returned"
    /\ result' = "ctx"
    /\ UNCHANGED <<wmVars, ctxDone, startErr, sessions, firstSeq, con, readVars, pingOn, fnPC,
                   localVars, peerVars, lastData>>

(* ... or over: select takes either when both are ready.                   *)
BackoffOver ==
    /\ runPC = "backoff"
    /\ runPC' = "dial"
    /\ UNCHANGED <<wmVars, ctxDone, startErr, result, sessions, firstSeq, con, readVars, pingOn,
                   fnPC, localVars, peerVars, lastData>>

PingEnds ==
    /\ pingOn
    /\ InnerDone
    /\ pingOn' = FALSE
    /\ UNCHANGED <<wmVars, ctxDone, runVars, con, readVars, fnPC, localVars, peerVars, lastData>>

(* The peer vanishes, or the network does, with what was under way to it.  *)
(* The service does not reset the peer's streams.                          *)
Drop ==
    /\ con = "up"
    /\ con' = "down"
    /\ outReset' \in SUBSET outReset
    /\ UNCHANGED <<wmVars, ctxDone, runVars, readVars, pingOn, fnPC, localVars, peer, carried,
                   lastData>>
-----------------------------------------------------------------------------
(* Reading and dispatching: keepReadingMessages and invokeEvent.           *)

ReaderUnchanged == UNCHANGED <<ctxDone, runPC, result, sessions, firstSeq, con, pingOn>>

ReaderCheck ==
    /\ readerPC = "check"
    /\ IF InnerDone THEN readerPC' = "ended" /\ startErr' = "ctx"
                    ELSE readerPC' = "next" /\ startErr' = startErr
    /\ ReaderUnchanged
    /\ UNCHANGED <<wmVars, msg, started, received, fnPC, localVars, peerVars, lastData>>

ReaderEnds ==
    /\ readerPC = "next"
    /\ readerPC' = "ended"
    /\ startErr' = "read"
    /\ ReaderUnchanged
    /\ UNCHANGED <<wmVars, msg, started, received, fnPC, localVars, peerVars, lastData>>

(* The connection was dropped, or closed by start.                         *)
ReaderFails == con # "up" /\ ReaderEnds

(* A frame that is no binary message or does not parse.                    *)
ReaderRejects == con = "up" /\ ReaderEnds

(* Nobody uses the StreamID any more, on this side.                        *)
Quiet(s) ==
    /\ WM!Settled(s)
    /\ \A w \in sockets \cup starting \cup resetting : owner[w] # s

(* What a peer that keeps the protocol may send next.                      *)
PeerMaySend(m) ==
    \/ /\ m.type = "start"
       /\ "destination" \in Modes
       /\ peer[m.stream] = "closed"
       /\ ReuseUnsettled \/ Quiet(m.stream)
       /\ \E w \in Workers : status[w] = "new"
    \/ m.type \in {"data", "reset"} /\ peer[m.stream] = "open"
    \/ m.type = "sync"

ReaderGets(m) ==
    /\ readerPC = "next"
    /\ con = "up"
    /\ m.seq = received + 1
    /\ PeerMaySend(m)
    /\ peer' = CASE m.type = "start" -> [peer EXCEPT ![m.stream] = "open"]
                 [] m.type = "reset" -> [peer EXCEPT ![m.stream] = "closed"]
                 [] OTHER -> peer
    /\ carried' = IF m.type = "reset" THEN carried \ {m.stream} ELSE carried
    /\ msg' = m
    /\ received' = received + 1
    /\ readerPC' = "dispatch"
    /\ ReaderUnchanged
    /\ UNCHANGED <<wmVars, startErr, started, fnPC, localVars, outReset, lastData>>

Dispatched ==
    /\ readerPC' = "check"
    /\ msg' = None

(* StreamStart: the worker first, then the listener, on the reader.        *)
DispatchStart(w) ==
    /\ readerPC = "dispatch"
    /\ msg.type = "start"
    /\ WM!Start(msg.stream, w)
    /\ started' = w
    /\ readerPC' = "onStart"
    /\ ReaderUnchanged
    /\ UNCHANGED <<startErr, msg, received, fnPC, localVars, peerVars, lastData>>

OnStreamStartOk ==
    /\ readerPC = "onStart"
    /\ sockets' = sockets \cup {started}
    /\ started' = None
    /\ Dispatched
    /\ ReaderUnchanged
    /\ UNCHANGED <<wmVars, startErr, received, fnPC, starting, resetting, peerVars, lastData>>

(* The listener refuses the stream: SendStreamReset stops, then sends.     *)
OnStreamStartErr ==
    /\ readerPC = "onStart"
    /\ WM!Stop(msg.stream)
    /\ started' = None
    /\ readerPC' = "sendReset"
    /\ ReaderUnchanged
    /\ UNCHANGED <<startErr, msg, received, fnPC, localVars, peerVars, lastData>>

(* sendMessage(StreamReset) succeeds only on a live connection.            *)
SendReset(s) ==
    /\ outReset' = IF con = "up" THEN outReset \cup {s} ELSE outReset
    /\ UNCHANGED <<peer, carried>>

ReaderSendReset ==
    /\ readerPC = "sendReset"
    /\ SendReset(msg.stream)
    /\ Dispatched
    /\ ReaderUnchanged
    /\ UNCHANGED <<wmVars, startErr, started, received, fnPC, localVars, lastData>>

(* Data and StreamReset are queued to the worker of their stream ...       *)
DispatchExec ==
    /\ readerPC = "dispatch"
    /\ msg.type \in {"data", "reset"}
    /\ WM!ExecLookup(msg.stream, msg)
    /\ readerPC' = "exec"
    /\ ReaderUnchanged
    /\ UNCHANGED <<startErr, msg, started, received, fnPC, localVars, peerVars, lastData>>

DispatchExecReturns ==
    /\ readerPC = "exec"
    /\ WM!ExecSend
    /\ Dispatched
    /\ ReaderUnchanged
    /\ UNCHANGED <<startErr, started, received, fnPC, localVars, peerVars, lastData>>

(* ... and dropped when it has none.                                       *)
DispatchDropped ==
    /\ readerPC = "dispatch"
    /\ msg.type \in {"data", "reset"}
    /\ WM!CanRLock
    /\ workerMap[msg.stream] = None
    /\ Dispatched
    /\ ReaderUnchanged
    /\ UNCHANGED <<wmVars, startErr, started, received, fnPC, localVars, peerVars, lastData>>

(* SessionReset, ServiceIDs and unknown types are handled on the reader.   *)
DispatchSync ==
    /\ readerPC = "dispatch"
    /\ msg.type = "sync"
    /\ Dispatched
    /\ ReaderUnchanged
    /\ UNCHANGED <<wmVars, startErr, started, received, fnPC, localVars, peerVars, lastData>>

-----------------------------------------------------------------------------
(* Workers and stop goroutines.                                            *)

FnUnchanged == UNCHANGED <<ctxDone, runVars, con, readVars, pingOn, localVars>>

(* The worker calls the listener.                                          *)
Take(w) ==
    /\ WM!WorkerTake(w)
    /\ fnPC' = [fnPC EXCEPT ![w] = "called"]
    /\ LET m == current'[w] IN
         lastData' = IF m.type = "data" THEN [lastData EXCEPT ![m.stream] = m.seq] ELSE lastData
    /\ FnUnchanged
    /\ UNCHANGED peerVars

OnDataOk(w) ==
    /\ fnPC[w] = "called"
    /\ current[w].type = "data"
    /\ WM!WorkerFinish(w)
    /\ fnPC' = [fnPC EXCEPT ![w] = "idle"]
    /\ FnUnchanged
    /\ UNCHANGED <<peerVars, lastData>>

(* OnData fails and SendStreamReset calls stop; or OnStreamReset returned. *)
FnStop(w) ==
    /\ fnPC[w] = "called"
    /\ WM!Stop(current[w].stream)
    /\ fnPC' = [fnPC EXCEPT ![w] = "stopped"]
    /\ FnUnchanged
    /\ UNCHANGED <<peerVars, lastData>>

(* SendStreamReset, if it is one, sends; the function returns.             *)
FnReturn(w) ==
    /\ fnPC[w] = "stopped"
    /\ IF current[w].type = "data" THEN SendReset(current[w].stream) ELSE UNCHANGED peerVars
    /\ WM!WorkerFinish(w)
    /\ fnPC' = [fnPC EXCEPT ![w] = "idle"]
    /\ FnUnchanged
    /\ UNCHANGED lastData

Exit(w) ==
    /\ WM!WorkerExit(w)
    /\ FnUnchanged
    /\ UNCHANGED <<fnPC, peerVars, lastData>>

StopGoroutine ==
    /\ (\E s \in StreamIDs : WM!StopStep(s)) \/ WM!StopDone
    /\ FnUnchanged
    /\ UNCHANGED <<fnPC, peerVars, lastData>>

-----------------------------------------------------------------------------
(* Calls from outside: accept handlers and socket goroutines.              *)

LocalUnchanged == UNCHANGED <<ctxDone, runVars, con, readVars, pingOn, fnPC, lastData>>

(* SendStreamStart, after a first connect: client.con must not be nil.     *)
LocalStart(s, w) ==
    /\ "source" \in Modes
    /\ con # "none"
    /\ peer[s] = "closed"
    /\ WM!StartLocal(s, w)
    /\ starting' = starting \cup {w}
    /\ LocalUnchanged
    /\ UNCHANGED <<sockets, resetting, peerVars>>

LocalStartSent(w) ==
    /\ w \in starting
    /\ con = "up"
    /\ starting' = starting \ {w}
    /\ sockets' = sockets \cup {w}
    /\ peer' = [peer EXCEPT ![owner[w]] = "open"]
    /\ LocalUnchanged
    /\ UNCHANGED <<wmVars, resetting, outReset, carried>>

LocalStartFails(w) ==
    /\ w \in starting
    /\ con # "up"
    /\ WM!Stop(owner[w])
    /\ starting' = starting \ {w}
    /\ LocalUnchanged
    /\ UNCHANGED <<sockets, resetting, peerVars>>

(* A local connection ended: SendStreamReset.                              *)
LocalReset(w) ==
    /\ w \in sockets
    /\ WM!Stop(owner[w])
    /\ sockets' = sockets \ {w}
    /\ resetting' = resetting \cup {w}
    /\ LocalUnchanged
    /\ UNCHANGED <<starting, peerVars>>

LocalResetSent(w) ==
    /\ w \in resetting
    /\ SendReset(owner[w])
    /\ resetting' = resetting \ {w}
    /\ LocalUnchanged
    /\ UNCHANGED <<wmVars, sockets, starting>>

(* The peer receives our StreamReset and forgets the stream.               *)
PeerGetsReset(s) ==
    /\ s \in outReset
    /\ outReset' = outReset \ {s}
    /\ peer' = [peer EXCEPT ![s] = "closed"]
    /\ carried' = carried \ {s}
    /\ LocalUnchanged
    /\ UNCHANGED <<wmVars, localVars>>

-----------------------------------------------------------------------------
RunStep ==
    \/ DialOk \/ DialRetry \/ DialRefused \/ Spawn
    \/ WaitCtx \/ WaitReader \/ WaitErr \/ WaitPing
    \/ SweepWorkers \/ SweepDone
    \/ BackoffCtx \/ BackoffOver

(* What the reader does once it has a message, or cannot get one.          *)
ReaderStep ==
    \/ ReaderCheck \/ ReaderFails
    \/ \E w \in Workers : DispatchStart(w)
    \/ OnStreamStartOk \/ OnStreamStartErr \/ ReaderSendReset
    \/ DispatchExec \/ DispatchExecReturns \/ DispatchDropped \/ DispatchSync

WorkerStep(w) == Take(w) \/ OnDataOk(w) \/ FnStop(w) \/ FnReturn(w) \/ Exit(w)

LocalStep(w) == LocalStartSent(w) \/ LocalStartFails(w) \/ LocalResetSent(w)

Next ==
    \/ CancelCtx \/ Drop \/ RunStep \/ PingEnds
    \/ ReaderStep \/ ReaderRejects \/ \E m \in Message : ReaderGets(m)
    \/ \E w \in Workers : WorkerStep(w) \/ LocalStep(w) \/ LocalReset(w)
    \/ \E s \in StreamIDs, w \in Workers : LocalStart(s, w)
    \/ \E s \in StreamIDs : PeerGetsReset(s)
    \/ StopGoroutine

(***************************************************************************)
(* Every goroutine that can go on does; dialing ends (dialTimeout);        *)
(* listener callbacks return.  Nothing obliges the peer to send, the       *)
(* network to fail, the context to end or a socket to give up, but what    *)
(* was sent to the peer arrives if the connection stays.  Run does not     *)
(* choose the timer for ever: select chooses at random.                    *)
(***************************************************************************)
Fairness ==
    /\ WF_vars(RunStep) /\ SF_vars(BackoffCtx)
    /\ WF_vars(PingEnds)
    /\ WF_vars(ReaderStep)
    /\ \A w \in Workers : WF_vars(WorkerStep(w)) /\ WF_vars(LocalStep(w))
    /\ \A s \in StreamIDs : WF_vars(PeerGetsReset(s)) /\ SF_vars(WM!StopStep(s) /\ StopGoroutine)
    /\ WF_vars(StopGoroutine)

Spec == Init /\ [][Next]_vars
FairSpec == Spec /\ Fairness

-----------------------------------------------------------------------------
TypeOK ==
    /\ ctxDone \in BOOLEAN
    /\ runPC \in {"dial", "handlers", "wait", "waitReader", "waitPing", "sweep", "backoff",
                  "returned"}
    /\ startErr \in {None, "ctx", "read"}
    /\ result \in {None, "ctx", "refused", "tunnelClosed"}
    /\ con \in {"none", "up", "down", "closed"}
    /\ sessions \in 0..MaxSessions
    /\ firstSeq \in 1..(MaxMessages + 1)
    /\ readerPC \in {"off", "check", "next", "dispatch", "onStart", "sendReset", "exec", "ended"}
    /\ msg \in Message \cup {None}
    /\ started \in Workers \cup {None}
    /\ received \in 0..MaxMessages
    /\ pingOn \in BOOLEAN
    /\ fnPC \in [Workers -> {"idle", "called", "stopped"}]
    /\ sockets \subseteq Workers /\ starting \subseteq Workers /\ resetting \subseteq Workers
    /\ peer \in [StreamIDs -> {"closed", "open"}]
    /\ outReset \subseteq StreamIDs
    /\ carried \subseteq StreamIDs
    /\ lastData \in [StreamIDs -> 0..MaxMessages]
    /\ msg # None <=> readerPC \in {"dispatch", "onStart", "sendReset", "exec"}
    /\ \A w \in Workers : fnPC[w] # "idle" <=> current[w] # None

(* awsclient.go:223-286: whatever the reader, Run and the listener do, the *)
(* worker manager is used as it must be: exec never overlaps with stopAll. *)
UsesWorkerManager == WM!Spec

(* awsclient.go:59-68: Run behaves as its documentation says, except that  *)
(* its return is not promised here.                                        *)
S == INSTANCE Session WITH
        phase <- CASE runPC \in {"dial", "backoff"} -> "away"
                   [] runPC = "handlers" -> "connected"
                   [] runPC = "returned" -> "returned"
                   [] OTHER -> "serving",
        helpers <- (IF readerPC \in {"off", "ended"} THEN {} ELSE {"reader"})
                   \cup (IF pingOn THEN {"ping"} ELSE {})

ImplementsSession == S!Spec

Served(s) == workerMap[s] # None /\ ~cancelled[workerMap[s]]

(* The goroutines that serve a StreamID.                                   *)
Goroutines(s) == {w \in Workers : status[w] = "running" /\ owner[w] = s}

(* What f says of the goroutine of a StreamID, or what is said of none.    *)
OfGoroutine(f, none) ==
    [s \in StreamIDs |->
        LET serving == Goroutines(s) IN
          IF serving = {} THEN none ELSE f[CHOOSE w \in serving : TRUE]]

OpenStreams == {s \in StreamIDs : Served(s)}
Pending == OfGoroutine(chExec, <<>>)
Busy == OfGoroutine(current, None)

L == INSTANCE StreamListener WITH
        Messages <- Message, arrived <- msg, open <- OpenStreams, pending <- Pending, busy <- Busy

(* awsclient.go:25-54, 423-461: whatever workers, channels and stopAll do, *)
(* the listener gets every message of a stream that is served, one at a    *)
(* time, in order, and nothing of an earlier stream with its StreamID.     *)
ImplementsStreamListener == L!Spec

(* awsclient.go:63-65: once the caller's context is done, Run returns.     *)
(* Not so in the code: the run AwsClient_ctx_hang.                         *)
CtxDoneReturns == ctxDone ~> runPC = "returned"

(* awsclient.go:63-65, over all sessions: once the context is done, Run    *)
(* returns, whatever reader, ping, workers and stop goroutines are doing,  *)
(* unless exec waits for a worker that stopAll ended and left in the map.  *)
CtxDoneReturnsOrStuck == ctxDone ~> (runPC = "returned" \/ sending \in swept)

OnData(w) == fnPC[w] = "called" /\ current[w].type = "data"

(* awsclient.go:423-442: OnData is called in the order the Data messages   *)
(* of a stream arrived, and for one message of a stream at a time.         *)
DataInOrder ==
    [][\A w \in Workers :
          OnData(w)' /\ current'[w] # current[w] =>
              /\ current'[w].seq > lastData[current'[w].stream]
              /\ \A v \in Workers \ {w} : OnData(v)' => current'[v].stream # current'[w].stream]_vars

(* awsclient.go:279-285: stopAll separates sessions: a listener callback   *)
(* for a message of an earlier session never runs beside one of this one.  *)
SessionsApart ==
    \A v, w \in Workers :
        current[v] # None /\ current[w] # None =>
            (current[v].seq < firstSeq <=> current[w].seq < firstSeq)

(* awsclient.go:28, with a peer that reuses a StreamID as soon as it has   *)
(* seen our StreamReset or sent its own, as awsclient_test.go does.  Not   *)
(* so in the code, nor the next: the README says how to see it.            *)
OneGoroutinePerStream ==
    \A v, w \in Workers :
        status[v] = "running" /\ status[w] = "running" /\ owner[v] = owner[w] => v = w

(* workermanager.go:47-49, "The timing to stop the Worker does not have to *)
(* be exact", with such a peer.                                            *)
OnlyAskedWorkersStop == \A w \in Workers : cancelled[w] => w \in asked \cup swept

(* awsclient.go:512-525: in the session in which a stream began, the peer  *)
(* does not go on for ever with a stream nobody serves here: it learns, or *)
(* the connection ends.                                                    *)
Unserved(s) == peer[s] = "open" /\ ~Served(s)

(* The stream, or what is left of its worker, is of an earlier session.    *)
Inherited(s) == s \in carried \/ workerMap[s] \in swept

PeerLearns ==
    \A s \in StreamIDs :
        (Unserved(s) /\ ~Inherited(s)) ~> (~Unserved(s) \/ con # "up" \/ Inherited(s))

(* The same of every stream.  Not so in the code: the README says how to   *)
(* see it.                                                                 *)
PeerAlwaysLearns ==
    \A s \in StreamIDs : Unserved(s) ~> (~Unserved(s) \/ con # "up")
=============================================================================
