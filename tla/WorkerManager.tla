--------------------------- MODULE WorkerManager ---------------------------
(***************************************************************************)
(* client/worker.go and client/workermanager.go: one goroutine and one     *)
(* buffered channel per StreamID, kept in a map guarded by a RWMutex.      *)
(*                                                                         *)
(* Who runs what.  The goroutine that reads the websocket ("the reader")   *)
(* calls start and exec.  Accept handlers of the proxy call start with a   *)
(* StreamID nobody used before.  Any goroutine calls stop, which only      *)
(* spawns a goroutine that takes the lock later.  awsClient.start calls    *)
(* stopAll once the reader has ended, so exec never overlaps with it.      *)
(*                                                                         *)
(* The RWMutex is not a variable: it is held for longer than one step only *)
(* by a stop goroutine that waits for a worker (stopping # None, write     *)
(* lock) and by an exec blocked on a full channel (sending # None, read    *)
(* lock).                                                                  *)
(***************************************************************************)
EXTENDS Naturals, Sequences

CONSTANTS
    StreamIDs,      \* keys of workerMap
    Workers,        \* identities of *Worker values: bounds how many are made
    Funcs,          \* the functions handed to exec
    BufSize,        \* workerManager.bufSize (channelBufSizePerStreamID)
    MaxStops,       \* bound: pending stop goroutines per StreamID
    MaxSweeps,      \* bound: calls of stopAll, one per websocket session
    ReuseUnsettled, \* may a StreamID be started again before it settled?
    None

ASSUME ConstantsAssumption ==
    /\ BufSize \in Nat \ {0}
    /\ MaxStops \in Nat
    /\ MaxSweeps \in Nat
    /\ ReuseUnsettled \in BOOLEAN
    /\ None \notin StreamIDs
    /\ None \notin Workers
    /\ None \notin Funcs

VARIABLES
    workerMap,  \* workerManager.workerMap
    owner,      \* the StreamID a worker was made for
    status,     \* a worker's goroutine: not made, running, ended
    cancelled,  \* chCancel has been received from and closed
    chExec,     \* Worker.chExec
    current,    \* the function the goroutine is executing
    stops,      \* stop goroutines that have not finished, per StreamID
    stopping,   \* StreamID whose stop goroutine waits with the write lock
    sending,    \* worker the reader's exec is sending to, read lock held
    sendFunc,   \* the function that exec is sending
    sweepOn,    \* stopAll is running
    sweepTodo,  \* the rest of stopAll's slice of workers
    sweepWait,  \* the worker stopAll waits for
    sweeps,     \* how often stopAll was called
    swept,      \* history: workers that stopAll cancelled
    asked,      \* history: workers registered when stop(streamID) was called
    unsettled   \* history: workers started before their StreamID had settled

workerVars == <<owner, status, cancelled, chExec, current>>
stopVars == <<stops, stopping, asked, unsettled>>
execVars == <<sending, sendFunc>>
sweepVars == <<sweepOn, sweepTodo, sweepWait, sweeps, swept>>
vars == <<workerMap, workerVars, stopVars, execVars, sweepVars>>

Init ==
    /\ workerMap = [s \in StreamIDs |-> None]
    /\ owner = [w \in Workers |-> None]
    /\ status = [w \in Workers |-> "new"]
    /\ cancelled = [w \in Workers |-> FALSE]
    /\ chExec = [w \in Workers |-> <<>>]
    /\ current = [w \in Workers |-> None]
    /\ stops = [s \in StreamIDs |-> 0]
    /\ stopping = None
    /\ sending = None
    /\ sendFunc = None
    /\ sweepOn = FALSE
    /\ sweepTodo = {}
    /\ sweepWait = None
    /\ sweeps = 0
    /\ swept = {}
    /\ asked = {}
    /\ unsettled = {}

-----------------------------------------------------------------------------
(* Lock() succeeds.                                                        *)
CanLock == stopping = None /\ sending = None

(* RLock() succeeds: only a writer excludes it.                            *)
CanRLock == stopping = None

(* Nothing is left of the stream that used this StreamID before.           *)
Settled(s) ==
    /\ stops[s] = 0
    /\ workerMap[s] # None => status[workerMap[s]] = "terminated"

(* The StreamID was never used: what the id generator promises.            *)
Fresh(s) ==
    /\ stops[s] = 0
    /\ \A w \in Workers : owner[w] # s

(***************************************************************************)
(* Mutants: plausible bugs, each refuted by a property below.              *)
(***************************************************************************)
(* an id generator that returns a StreamID again                           *)
StartLocalReused(s, w) ==
    /\ CanLock
    /\ status[w] = "new"
    /\ owner' = [owner EXCEPT ![w] = s]
    /\ status' = [status EXCEPT ![w] = "running"]
    /\ workerMap' = [workerMap EXCEPT ![s] = w]
    /\ UNCHANGED <<cancelled, chExec, current, stopVars, execVars, sweepVars>>

(* the lock is given up before the worker has ended *)
StopCancelUnlocked(s) ==
    /\ CanLock
    /\ stops[s] > 0
    /\ workerMap[s] # None
    /\ ~cancelled[workerMap[s]]
    /\ cancelled' = [cancelled EXCEPT ![workerMap[s]] = TRUE]
    /\ stops' = [stops EXCEPT ![s] = @ - 1]
    /\ UNCHANGED <<workerMap, owner, status, chExec, current, stopping, asked, unsettled, execVars,
                   sweepVars>>

(* the entry goes before the goroutine has ended: no <-chTerminate *)
StopDoneEarly ==
    /\ stopping # None
    /\ workerMap' = [workerMap EXCEPT ![stopping] = None]
    /\ stops' = [stops EXCEPT ![stopping] = @ - 1]
    /\ stopping' = None
    /\ UNCHANGED <<workerVars, asked, unsettled, execVars, sweepVars>>

(* the entry is not deleted *)
StopDoneKeeps ==
    /\ stopping # None
    /\ status[workerMap[stopping]] = "terminated"
    /\ stops' = [stops EXCEPT ![stopping] = @ - 1]
    /\ stopping' = None
    /\ UNCHANGED <<workerMap, workerVars, asked, unsettled, execVars, sweepVars>>

(* stopAll does not wait: no <-chTerminate *)
StopAllWaitedEarly ==
    /\ sweepWait # None
    /\ sweepWait' = None
    /\ UNCHANGED <<workerMap, workerVars, stopVars, execVars, sweepOn, sweepTodo, sweeps, swept>>

(* Worker.Stop forgets close(chCancel): a second Stop waits for ever *)
StopAllSkipBlocked(w) == FALSE

-----------------------------------------------------------------------------
(* start: a new worker replaces whatever the map holds for the StreamID.   *)
Start(s, w) ==
    /\ CanLock
    /\ status[w] = "new"
    /\ owner' = [owner EXCEPT ![w] = s]
    /\ status' = [status EXCEPT ![w] = "running"]
    /\ workerMap' = [workerMap EXCEPT ![s] = w]
    /\ unsettled' = IF Settled(s) THEN unsettled ELSE unsettled \cup {w}
    /\ UNCHANGED <<cancelled, chExec, current, stops, stopping, asked, execVars, sweepVars>>

(* The reader starts the worker of a stream the remote peer opened.        *)
StartRemote(s, w) ==
    /\ ~sweepOn
    /\ ReuseUnsettled \/ Settled(s)
    /\ Start(s, w)

(* SendStreamStart, from an accept handler, with a generated StreamID.     *)
StartLocal(s, w) ==
    /\ Fresh(s)
    /\ Start(s, w)

(* exec finds the worker and starts to send.  Without an entry it returns  *)
(* false and changes nothing.                                              *)
ExecLookup(s, f) ==
    /\ CanRLock
    /\ workerMap[s] # None
    /\ sending' = workerMap[s]
    /\ sendFunc' = f
    /\ UNCHANGED <<workerMap, workerVars, stopVars, sweepVars>>

(* The only caller is the reader, which stopAll has seen ended.            *)
ExecBegin(s, f) ==
    /\ ~sweepOn
    /\ sending = None
    /\ ExecLookup(s, f)

(* The channel has room: Worker.Exec returns and the read lock is freed.   *)
ExecSend ==
    /\ sending # None
    /\ Len(chExec[sending]) < BufSize
    /\ chExec' = [chExec EXCEPT ![sending] = Append(@, sendFunc)]
    /\ sending' = None
    /\ sendFunc' = None
    /\ UNCHANGED <<workerMap, owner, status, cancelled, current, stopVars, sweepVars>>

-----------------------------------------------------------------------------
(* stop: only spawns the goroutine.                                        *)
Stop(s) ==
    /\ stops[s] < MaxStops
    /\ stops' = [stops EXCEPT ![s] = @ + 1]
    /\ asked' = asked \cup ({workerMap[s]} \ {None})
    /\ UNCHANGED <<workerMap, workerVars, stopping, unsettled, execVars, sweepVars>>

(* The stop goroutine gets the lock and finds no entry.                    *)
StopMissing(s) ==
    /\ CanLock
    /\ stops[s] > 0
    /\ workerMap[s] = None
    /\ stops' = [stops EXCEPT ![s] = @ - 1]
    /\ UNCHANGED <<workerMap, workerVars, stopping, asked, unsettled, execVars, sweepVars>>

(* Another Stop already closed chCancel: Worker.Stop returns at once.      *)
StopAgain(s) ==
    /\ CanLock
    /\ stops[s] > 0
    /\ workerMap[s] # None
    /\ cancelled[workerMap[s]]
    /\ workerMap' = [workerMap EXCEPT ![s] = None]
    /\ stops' = [stops EXCEPT ![s] = @ - 1]
    /\ UNCHANGED <<workerVars, stopping, asked, unsettled, execVars, sweepVars>>

(* It cancels the worker and waits for its goroutine, keeping the lock.    *)
StopCancel(s) ==
    /\ CanLock
    /\ stops[s] > 0
    /\ workerMap[s] # None
    /\ ~cancelled[workerMap[s]]
    /\ cancelled' = [cancelled EXCEPT ![workerMap[s]] = TRUE]
    /\ stopping' = s
    /\ UNCHANGED <<workerMap, owner, status, chExec, current, stops, asked, unsettled, execVars,
                   sweepVars>>

(* The worker has ended: the entry goes and the lock is freed.             *)
StopDone ==
    /\ stopping # None
    /\ status[workerMap[stopping]] = "terminated"
    /\ workerMap' = [workerMap EXCEPT ![stopping] = None]
    /\ stops' = [stops EXCEPT ![stopping] = @ - 1]
    /\ stopping' = None
    /\ UNCHANGED <<workerVars, asked, unsettled, execVars, sweepVars>>

StopStep(s) == StopMissing(s) \/ StopAgain(s) \/ StopCancel(s)

-----------------------------------------------------------------------------
(* The goroutine takes a function.  select chooses at random when ctx is   *)
(* done as well, so a cancelled worker may still take queued functions.    *)
WorkerTake(w) ==
    /\ status[w] = "running"
    /\ current[w] = None
    /\ chExec[w] # <<>>
    /\ current' = [current EXCEPT ![w] = Head(chExec[w])]
    /\ chExec' = [chExec EXCEPT ![w] = Tail(@)]
    /\ UNCHANGED <<workerMap, owner, status, cancelled, stopVars, execVars, sweepVars>>

(* fnc(ctx) returns.                                                       *)
WorkerFinish(w) ==
    /\ current[w] # None
    /\ current' = [current EXCEPT ![w] = None]
    /\ UNCHANGED <<workerMap, owner, status, cancelled, chExec, stopVars, execVars, sweepVars>>

(* <-ctx.Done() is chosen: the goroutine closes chTerminate and ends.      *)
WorkerExit(w) ==
    /\ status[w] = "running"
    /\ current[w] = None
    /\ cancelled[w]
    /\ status' = [status EXCEPT ![w] = "terminated"]
    /\ UNCHANGED <<workerMap, owner, cancelled, chExec, current, stopVars, execVars, sweepVars>>

-----------------------------------------------------------------------------
(* stopAll: getAll copies the registered workers under the read lock.      *)
Snapshot ==
    /\ CanRLock
    /\ sweepOn' = TRUE
    /\ sweepTodo' = {workerMap[s] : s \in StreamIDs} \ {None}
    /\ sweeps' = sweeps + 1
    /\ UNCHANGED <<workerMap, workerVars, stopVars, execVars, sweepWait, swept>>

(* awsClient.start calls stopAll when no reader is left that could exec.   *)
GetAll ==
    /\ ~sweepOn
    /\ sweeps < MaxSweeps
    /\ sending = None
    /\ Snapshot

(* Worker.Stop on the next one, with no lock held.                         *)
StopAllCancel(w) ==
    /\ w \in sweepTodo
    /\ sweepWait = None
    /\ ~cancelled[w]
    /\ cancelled' = [cancelled EXCEPT ![w] = TRUE]
    /\ sweepTodo' = sweepTodo \ {w}
    /\ sweepWait' = w
    /\ swept' = swept \cup {w}
    /\ UNCHANGED <<workerMap, owner, status, chExec, current, stopVars, execVars, sweepOn,
                   sweeps>>

(* Its chCancel is closed: Worker.Stop returns without waiting.            *)
StopAllSkip(w) ==
    /\ w \in sweepTodo
    /\ sweepWait = None
    /\ cancelled[w]
    /\ sweepTodo' = sweepTodo \ {w}
    /\ UNCHANGED <<workerMap, workerVars, stopVars, execVars, sweepOn, sweepWait, sweeps, swept>>

StopAllWaited ==
    /\ sweepWait # None
    /\ status[sweepWait] = "terminated"
    /\ sweepWait' = None
    /\ UNCHANGED <<workerMap, workerVars, stopVars, execVars, sweepOn, sweepTodo, sweeps, swept>>

(* stopAll returns.  The entries stay in workerMap.                        *)
StopAllDone ==
    /\ sweepOn
    /\ sweepTodo = {}
    /\ sweepWait = None
    /\ sweepOn' = FALSE
    /\ UNCHANGED <<workerMap, workerVars, stopVars, execVars, sweepTodo, sweepWait, sweeps, swept>>

SweepStep ==
    \/ \E w \in Workers : StopAllCancel(w) \/ StopAllSkip(w)
    \/ StopAllWaited
    \/ StopAllDone

WorkerStep(w) == WorkerTake(w) \/ WorkerFinish(w) \/ WorkerExit(w)

Next ==
    \/ \E s \in StreamIDs, w \in Workers : StartRemote(s, w) \/ StartLocal(s, w)
    \/ \E s \in StreamIDs, f \in Funcs : ExecBegin(s, f)
    \/ ExecSend
    \/ \E s \in StreamIDs : Stop(s) \/ StopStep(s)
    \/ StopDone
    \/ \E w \in Workers : WorkerStep(w)
    \/ GetAll
    \/ SweepStep

(***************************************************************************)
(* Go schedules every runnable goroutine, functions return (the listener's *)
(* callbacks come back), and a RWMutex never lets readers starve a waiting *)
(* writer: a stop goroutine that can get the lock again and again gets it  *)
(* (strong fairness).  Nobody is obliged to call start, exec or stop.      *)
(***************************************************************************)
Fairness ==
    /\ WF_vars(ExecSend)
    /\ WF_vars(StopDone)
    /\ \A s \in StreamIDs : SF_vars(StopStep(s))
    /\ \A w \in Workers : WF_vars(WorkerStep(w))
    /\ WF_vars(SweepStep)

Spec == Init /\ [][Next]_vars
FairSpec == Spec /\ Fairness

-----------------------------------------------------------------------------
TypeOK ==
    /\ workerMap \in [StreamIDs -> Workers \cup {None}]
    /\ owner \in [Workers -> StreamIDs \cup {None}]
    /\ status \in [Workers -> {"new", "running", "terminated"}]
    /\ cancelled \in [Workers -> BOOLEAN]
    /\ chExec \in [Workers -> Seq(Funcs)]
    /\ \A w \in Workers : Len(chExec[w]) <= BufSize
    /\ current \in [Workers -> Funcs \cup {None}]
    /\ stops \in [StreamIDs -> 0..MaxStops]
    /\ stopping \in StreamIDs \cup {None}
    /\ sending \in Workers \cup {None}
    /\ sendFunc \in Funcs \cup {None}
    /\ sending = None <=> sendFunc = None
    /\ sweepOn \in BOOLEAN
    /\ sweepTodo \subseteq Workers
    /\ sweepWait \in Workers \cup {None}
    /\ sweeps \in 0..MaxSweeps
    /\ swept \subseteq Workers
    /\ asked \subseteq Workers
    /\ unsettled \subseteq Workers

Registered(w) == owner[w] # None /\ workerMap[owner[w]] = w

(* workermanager.go:32-37: exec never blocks on the channel of a worker    *)
(* that a stop goroutine has cancelled, for nobody would drain it and the  *)
(* read lock would be held for ever.  (A worker that stopAll cancelled is  *)
(* not covered: it stays in the map.)                                      *)
ExecTargetsLiveWorker ==
    sending # None /\ sending \notin swept => ~cancelled[sending]

(* The peer has once started a stream with this StreamID before the one    *)
(* before it had settled.                                                  *)
Hurried(s) == \E w \in unsettled : owner[w] = s

(* awsclient.go:28, "AWSClient generates one goroutine for each StreamID": *)
(* two goroutines never serve one StreamID, or Data would be written out   *)
(* of order, unless the peer did not let it settle.                        *)
OneGoroutinePerStream ==
    \A v, w \in Workers :
        status[v] = "running" /\ status[w] = "running" /\ owner[v] = owner[w] =>
            v = w \/ Hurried(owner[w])

(* workermanager.go:47-49: stop acts later and looks its worker up by      *)
(* StreamID then.  It ends a worker nobody asked to stop only if that      *)
(* worker was itself started while a stop of its StreamID was pending or   *)
(* its predecessor ran, whatever became of the StreamID before.            *)
OnlyAskedWorkersStop ==
    \A w \in Workers : cancelled[w] => w \in asked \cup swept \cup unsettled

(* workermanager.go:44-61: a worker that was asked to stop leaves the map, *)
(* whatever exec, stopAll and the other stops do meanwhile.  (Not if exec  *)
(* waits for a worker that stopAll ended: it then keeps the read lock.)    *)
StopRemoves ==
    \A w \in Workers :
        (Registered(w) /\ w \in asked) ~> (~Registered(w) \/ sending \in swept)

(* worker.go:58-60: the reader's send to a worker that stopAll has not     *)
(* cancelled completes, so one slow stream delays the others only.         *)
ExecReturns ==
    \A w \in Workers : (sending = w /\ w \notin swept) ~> (sending # w \/ w \in swept)

(* workermanager.go:79-86: stopAll comes to an end, whatever the stop      *)
(* goroutines that run at the same time take from under it.                *)
StopAllReturns == sweepOn ~> ~sweepOn
=============================================================================
