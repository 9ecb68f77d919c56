--------------------------- MODULE AwsClientProofs ---------------------------
(***************************************************************************)
(* AWSClient.Run, its reader and its workers for any number of streams,    *)
(* workers, sessions and messages, and any size of the buffers.            *)
(***************************************************************************)
EXTENDS AwsClient, Integers, TLAPS

P == INSTANCE WorkerManagerProofs WITH Funcs <- Message, MaxSweeps <- MaxSessions

(* Where the reader and the pinging goroutine are while Run is somewhere.  *)
RunOK ==
    /\ sweepOn <=> runPC = "sweep"
    /\ readerPC # "off" <=> runPC \in {"wait", "waitReader", "waitPing", "sweep"}
    /\ runPC \in {"waitPing", "sweep"} => readerPC = "ended"
    /\ pingOn => runPC \in {"wait", "waitReader", "waitPing"}
    /\ runPC = "waitReader" \/ startErr = "ctx" => ctxDone

InSession == runPC \in {"handlers", "wait", "waitReader", "waitPing"}

(* stopAll runs once per session.                                          *)
CountsOK ==
    /\ InSession => sessions = sweeps + 1
    /\ ~InSession => sessions = sweeps
    /\ firstSeq <= received + 1

(* What the reader dispatches.                                             *)
ReaderOK ==
    /\ msg # None => msg.seq = received /\ msg.seq >= firstSeq
    /\ readerPC = "onStart" => started \in Workers /\ owner[started] = msg.stream
    /\ readerPC \in {"onStart", "sendReset"} =>
          msg.type = "start" /\ \E w \in Workers : owner[w] = msg.stream
    /\ readerPC = "exec" => msg.type \in {"data", "reset"} /\ sendFunc = msg
    /\ sending # None <=> readerPC = "exec"
    /\ sending # None => owner[sending] = msg.stream

(* A worker gets the Data and StreamReset of its stream.                   *)
ForWorker(m, w) == m.type \in {"data", "reset"} /\ m.stream = owner[w]

QueuesOK ==
    \A w \in Workers :
        /\ \A i \in 1..Len(chExec[w]) : ForWorker(chExec[w][i], w)
        /\ current[w] # None => ForWorker(current[w], w)
        /\ status[w] = "new" => chExec[w] = <<>>

(* A socket or an accept handler has a worker; a StreamReset was sent for  *)
(* one.                                                                    *)
LocalOK ==
    /\ \A w \in sockets \cup starting \cup resetting : owner[w] # None
    /\ \A s \in outReset : \E w \in Workers : owner[w] = s

(* Nobody uses the StreamID of a stream that starts.                       *)
StartOK ==
    readerPC = "dispatch" /\ msg.type = "start" =>
        /\ ReuseUnsettled \/ Quiet(msg.stream)
        /\ peer[msg.stream] = "open" \/ \E w \in Workers : owner[w] = msg.stream

Control == RunOK /\ CountsOK /\ ReaderOK /\ QueuesOK /\ LocalOK /\ StartOK

IInv ==
    /\ P!IInv
    /\ ReuseUnsettled \/ P!SettledInv
    /\ TypeOK
    /\ Control

-----------------------------------------------------------------------------
(* The assumptions of WorkerManager hold here.                             *)
LEMMA ManagersConstants == P!ConstantsAssumption
BY BoundsAssumption, NamesApart DEF P!ConstantsAssumption

(* The two instances are one.                                              *)
LEMMA SameManager ==
    /\ WM!Init = P!Init
    /\ WM!Next = P!Next
    /\ WM!vars = P!vars
    /\ P!vars' = P!vars <=> wmVars' = wmVars
<1>1. WM!Next = P!Next
  BY DEF WM!Next, P!Next, WM!StartRemote, P!StartRemote, WM!StartLocal, P!StartLocal, WM!Start,
     P!Start, WM!Settled, P!Settled, WM!Fresh, P!Fresh, WM!CanLock, P!CanLock, WM!CanRLock,
     P!CanRLock, WM!ExecBegin, P!ExecBegin, WM!ExecLookup, P!ExecLookup, WM!ExecSend, P!ExecSend,
     WM!Stop, P!Stop, WM!StopStep, P!StopStep, WM!StopMissing, P!StopMissing, WM!StopAgain,
     P!StopAgain, WM!StopCancel, P!StopCancel, WM!StopDone, P!StopDone, WM!WorkerStep,
     P!WorkerStep, WM!WorkerTake, P!WorkerTake, WM!WorkerFinish, P!WorkerFinish, WM!WorkerExit,
     P!WorkerExit, WM!GetAll, P!GetAll, WM!Snapshot, P!Snapshot, WM!SweepStep, P!SweepStep,
     WM!StopAllCancel, P!StopAllCancel, WM!StopAllSkip, P!StopAllSkip, WM!StopAllWaited,
     P!StopAllWaited, WM!StopAllDone, P!StopAllDone, WM!workerVars, P!workerVars, WM!stopVars,
     P!stopVars, WM!execVars, P!execVars, WM!sweepVars, P!sweepVars
<1>2. WM!vars = P!vars
  BY DEF WM!vars, P!vars, WM!workerVars, P!workerVars, WM!stopVars,
     P!stopVars, WM!execVars, P!execVars, WM!sweepVars, P!sweepVars
<1>3. P!vars' = P!vars <=> wmVars' = wmVars
  BY DEF P!vars, P!workerVars, P!stopVars, P!execVars, P!sweepVars, wmVars
<1> QED BY <1>1, <1>2, <1>3 DEF WM!Init, P!Init

(* A peer that lets StreamIDs settle: one goroutine for each StreamID, and *)
(* it is in the map or the one stopAll waits for.                          *)
LEMMA AllSettled ==
    ASSUME ~ReuseUnsettled, P!SettledInv
    PROVE  /\ \A v, w \in Workers :
                 status[v] = "running" /\ status[w] = "running" /\ owner[v] = owner[w] => v = w
           /\ \A w \in Workers : status[w] = "running" /\ ~P!Registered(w) => w = sweepWait
BY DEF P!SettledInv, P!LeftoverInv, P!OneGoroutinePerStream, P!Hurried

-----------------------------------------------------------------------------
(* Who steps, and what each leaves alone.                                  *)
RunSide == CancelCtx \/ Drop \/ RunStep \/ PingEnds
ReadSide == ReaderStep \/ ReaderRejects \/ \E m \in Message : ReaderGets(m)
LocalSide(w) == LocalStep(w) \/ LocalReset(w) \/ \E s \in StreamIDs : LocalStart(s, w)

(* The steps by name.                                                      *)
LEMMA Steps ==
    ASSUME [Next]_vars
    PROVE  \/ RunSide \/ ReadSide \/ StopGoroutine \/ UNCHANGED vars
           \/ \E w \in Workers : WorkerStep(w) \/ LocalSide(w)
           \/ \E s \in StreamIDs : PeerGetsReset(s)
BY DEF Next, RunSide, ReadSide, LocalSide

(* Run, and what happens to its context and connection.                    *)
LEMMA RunFrame ==
    ASSUME RunSide
    PROVE  /\ UNCHANGED <<msg, started, received, fnPC, localVars, peer, lastData>>
           /\ UNCHANGED <<workerMap, owner, status, chExec, current, stops, stopping>>
           /\ UNCHANGED <<sending, sendFunc, asked, unsettled>>
           /\ outReset' \subseteq outReset
BY DEF RunSide, CancelCtx, Drop, RunStep, PingEnds, DialOk, DialRetry, DialRefused, Spawn, WaitCtx,
       WaitReader, WaitErr, WaitPing, SweepWorkers, SweepDone, BackoffCtx, BackoffOver, readVars,
       peerVars, wmVars, WM!Snapshot, WM!StopAllCancel, WM!StopAllSkip, WM!StopAllWaited, WM!StopAllDone,
       WM!workerVars, WM!stopVars, WM!execVars

(* The reader.                                                             *)
LEMMA ReadFrame ==
    ASSUME ReadSide
    PROVE  /\ UNCHANGED <<ctxDone, runPC, result, sessions, firstSeq, con, pingOn, fnPC, starting>>
           /\ UNCHANGED <<resetting, lastData, current, cancelled, stopping>>
           /\ UNCHANGED <<sweepOn, sweepTodo, sweepWait, sweeps, swept>>
BY DEF ReadSide, ReaderStep, ReaderRejects, ReaderGets, ReaderCheck, ReaderFails, ReaderEnds,
       DispatchStart, OnStreamStartOk, OnStreamStartErr, ReaderSendReset, DispatchExec,
       DispatchExecReturns, DispatchDropped, DispatchSync, ReaderUnchanged, localVars, wmVars,
       WM!Start, WM!Stop, WM!ExecLookup, WM!ExecSend, WM!workerVars, WM!stopVars, WM!sweepVars

(* A worker's goroutine.                                                   *)
LEMMA WorkerFrame ==
    ASSUME NEW w \in Workers, WorkerStep(w)
    PROVE  /\ UNCHANGED <<ctxDone, runVars, con, readVars, pingOn, localVars, peer>>
           /\ UNCHANGED <<workerMap, owner, cancelled, stopping, sending, sendFunc>>
           /\ UNCHANGED <<sweepOn, sweepTodo, sweepWait, sweeps, swept>>
BY DEF WorkerStep, Take, OnDataOk, FnStop, FnReturn, Exit, FnUnchanged, SendReset, peerVars,
       WM!WorkerTake, WM!WorkerFinish, WM!WorkerExit, WM!Stop, WM!workerVars, WM!stopVars,
       WM!execVars, WM!sweepVars

(* The goroutines that stop spawned.                                       *)
LEMMA StopFrame ==
    ASSUME StopGoroutine
    PROVE  /\ UNCHANGED <<ctxDone, runVars, con, readVars, pingOn, localVars, peerVars, fnPC>>
           /\ UNCHANGED <<lastData, owner, status, chExec, current, sending, sendFunc, asked>>
           /\ UNCHANGED <<unsettled, sweepOn, sweepTodo, sweepWait, sweeps, swept>>
BY DEF StopGoroutine, FnUnchanged, WM!StopStep, WM!StopMissing, WM!StopAgain, WM!StopCancel,
       WM!StopDone, WM!workerVars, WM!execVars, WM!sweepVars

(* Accept handlers and socket goroutines.                                  *)
LEMMA LocalFrame ==
    ASSUME NEW w \in Workers, LocalSide(w)
    PROVE  /\ UNCHANGED <<ctxDone, runVars, con, readVars, pingOn, fnPC, lastData>>
           /\ UNCHANGED <<cancelled, chExec, current, stopping, sending, sendFunc>>
           /\ UNCHANGED <<sweepOn, sweepTodo, sweepWait, sweeps, swept>>
BY DEF LocalSide, LocalStep, LocalStartSent, LocalStartFails, LocalResetSent, LocalReset,
       LocalStart, LocalUnchanged, wmVars, WM!StartLocal, WM!Start, WM!Stop, WM!workerVars,
       WM!stopVars, WM!execVars, WM!sweepVars

(* The peer.                                                               *)
LEMMA PeerFrame ==
    ASSUME NEW s \in StreamIDs, PeerGetsReset(s)
    PROVE  UNCHANGED <<ctxDone, runVars, con, readVars, pingOn, fnPC, lastData, wmVars, localVars>>
BY DEF PeerGetsReset, LocalUnchanged

-----------------------------------------------------------------------------
(* Every step is one that WorkerManager allows, or leaves it alone.        *)
LEMMA StepUsesManager == ASSUME IInv, [Next]_vars PROVE [WM!Next]_wmVars
<1> USE DEF IInv, Control
<1>1. CASE RunSide
  <2>1. CASE WaitPing
    <3>1. ~sweepOn /\ sending = None /\ sweeps < MaxSessions
      BY <2>1, BoundsAssumption DEF WaitPing, RunOK, CountsOK, ReaderOK, InSession, TypeOK, P!IInv,
         P!TypeOK
    <3> QED BY <2>1, <3>1 DEF WaitPing, WM!Next, WM!GetAll
  <2>2. CASE SweepWorkers \/ SweepDone
    BY <2>2 DEF SweepWorkers, SweepDone, WM!Next, WM!SweepStep
  <2>3. CASE ~(WaitPing \/ SweepWorkers \/ SweepDone)
    BY <1>1, <2>3 DEF RunSide, CancelCtx, Drop, RunStep, PingEnds, DialOk, DialRetry, DialRefused,
       Spawn, WaitCtx, WaitReader, WaitErr, BackoffCtx, BackoffOver
  <2> QED BY <2>1, <2>2, <2>3
<1>2. CASE ReadSide
  <2>1. msg # None => msg \in Message
    BY DEF TypeOK
  <2>2. readerPC \in {"dispatch", "onStart", "exec"} => msg # None /\ ~sweepOn
    BY DEF TypeOK, RunOK
  <2>3. ASSUME NEW w \in Workers, DispatchStart(w) PROVE WM!Next
    <3>1. msg.stream \in StreamIDs
      BY <2>1, <2>2, <2>3 DEF DispatchStart, Message
    <3>2. ReuseUnsettled \/ WM!Settled(msg.stream)
      BY <2>3 DEF DispatchStart, StartOK, Quiet
    <3>3. WM!StartRemote(msg.stream, w)
      BY <2>2, <2>3, <3>2 DEF DispatchStart, WM!StartRemote
    <3> QED BY <3>1, <3>3 DEF WM!Next
  <2>4. CASE OnStreamStartErr
    <3>1. msg.stream \in StreamIDs
      BY <2>1, <2>2, <2>4 DEF OnStreamStartErr, Message, ReaderOK
    <3> QED BY <2>4, <3>1 DEF OnStreamStartErr, WM!Next
  <2>5. CASE DispatchExec
    <3>1. msg.stream \in StreamIDs /\ msg \in Message
      BY <2>1, <2>2, <2>5 DEF DispatchExec, Message
    <3>2. ~sweepOn /\ sending = None
      BY <2>2, <2>5 DEF DispatchExec, ReaderOK
    <3>3. WM!ExecBegin(msg.stream, msg)
      BY <2>5, <3>2 DEF DispatchExec, WM!ExecBegin
    <3> QED BY <3>1, <3>3 DEF WM!Next
  <2>6. CASE DispatchExecReturns
    BY <2>6 DEF DispatchExecReturns, WM!Next
  <2>7. CASE ~(OnStreamStartErr \/ DispatchExec \/ DispatchExecReturns)
             /\ ~\E w \in Workers : DispatchStart(w)
    BY <1>2, <2>7 DEF ReadSide, ReaderStep, ReaderRejects, ReaderGets, ReaderCheck, ReaderFails,
       ReaderEnds, OnStreamStartOk, ReaderSendReset, DispatchDropped, DispatchSync
  <2> QED BY <2>3, <2>4, <2>5, <2>6, <2>7
<1>3. CASE StopGoroutine
  BY <1>3 DEF StopGoroutine, WM!Next
<1>4. ASSUME NEW w \in Workers, WorkerStep(w) PROVE [WM!Next]_wmVars
  <2>1. CASE FnStop(w)
    <3>1. current[w] \in Message /\ current[w].type \in {"data", "reset"}
      BY <2>1 DEF FnStop, TypeOK, QueuesOK, ForWorker, P!IInv, P!TypeOK
    <3>2. current[w].stream \in StreamIDs
      BY <3>1 DEF Message
    <3> QED BY <2>1, <3>2 DEF FnStop, WM!Next
  <2>2. CASE ~FnStop(w)
    BY <1>4, <2>2 DEF WorkerStep, Take, OnDataOk, FnReturn, Exit, WM!Next, WM!WorkerStep
  <2> QED BY <2>1, <2>2
<1>5. ASSUME NEW w \in Workers, LocalSide(w) PROVE [WM!Next]_wmVars
  <2>1. CASE LocalStartFails(w) \/ LocalReset(w)
    <3>1. w \in sockets \cup starting
      BY <2>1 DEF LocalStartFails, LocalReset
    <3>2. owner[w] \in StreamIDs
      BY <3>1 DEF LocalOK, P!IInv, P!TypeOK
    <3> QED BY <2>1, <3>2 DEF LocalStartFails, LocalReset, WM!Next
  <2>2. CASE LocalStartSent(w) \/ LocalResetSent(w)
    BY <2>2 DEF LocalStartSent, LocalResetSent
  <2>3. ASSUME NEW s \in StreamIDs, LocalStart(s, w) PROVE WM!Next
    BY <2>3 DEF LocalStart, WM!Next
  <2> QED BY <1>5, <2>1, <2>2, <2>3 DEF LocalSide, LocalStep
<1>6. ASSUME NEW s \in StreamIDs, PeerGetsReset(s) PROVE wmVars' = wmVars
  BY <1>6, PeerFrame
<1>7. CASE UNCHANGED vars
  BY <1>7 DEF vars
<1> QED BY <1>1, <1>2, <1>3, <1>4, <1>5, <1>6, <1>7, Steps

(* So its invariants survive.                                              *)
LEMMA ManagerKeeps ==
    ASSUME IInv, [Next]_vars
    PROVE  P!IInv' /\ (ReuseUnsettled \/ P!SettledInv)'
<1>1. [P!Next]_(P!vars)
  <2>1. [WM!Next]_wmVars
    BY StepUsesManager
  <2>2. P!Next \/ P!vars' = P!vars
    BY <2>1, SameManager
  <2> QED BY <2>2
<1>2. P!IInv /\ (ReuseUnsettled \/ P!SettledInv)
  BY DEF IInv
<1>3. P!IInv'
  BY <1>1, <1>2, ManagersConstants, P!TypeStep, P!LockStep DEF P!IInv
<1> QED BY <1>1, <1>2, <1>3, ManagersConstants, P!SettledStep

-----------------------------------------------------------------------------
(* The types survive a step of Run ...                                     *)
LEMMA RunTypes == ASSUME IInv, RunSide PROVE TypeOK'
<1> USE BoundsAssumption DEF TypeOK
<1>0. TypeOK
  BY DEF IInv
<1>1. sessions' \in 0..MaxSessions /\ firstSeq' \in 1..(MaxMessages + 1)
  <2>1. CASE DialOk
    BY <1>0, <2>1 DEF DialOk
  <2>2. CASE ~DialOk
    BY <1>0, <2>2 DEF RunSide, CancelCtx, Drop, RunStep, PingEnds, DialRetry, DialRefused, Spawn,
     WaitCtx, WaitReader, WaitErr, WaitPing, SweepWorkers, SweepDone, BackoffCtx, BackoffOver,
     runVars
  <2> QED BY <2>1, <2>2
<1>2. /\ result' \in {None, "ctx", "refused", "tunnelClosed"}
      /\ startErr' \in {None, "ctx", "read"} /\ ctxDone' \in BOOLEAN /\ pingOn' \in BOOLEAN
  BY <1>0 DEF RunSide, CancelCtx, Drop, RunStep, PingEnds, DialRetry, DialRefused, Spawn,
     WaitCtx, WaitReader, WaitErr, WaitPing, SweepWorkers, SweepDone, BackoffCtx, BackoffOver,
     runVars, DialOk
<1>3. con' \in {"none", "up", "down", "closed"}
  BY <1>0 DEF RunSide, CancelCtx, Drop, RunStep, PingEnds, DialRetry, DialRefused, Spawn,
     WaitCtx, WaitReader, WaitErr, WaitPing, SweepWorkers, SweepDone, BackoffCtx, BackoffOver,
     runVars, DialOk, Close
<1>4. runPC' \in {"dial", "handlers", "wait", "waitReader", "waitPing", "sweep", "backoff",
                  "returned"}
  BY <1>0 DEF RunSide, CancelCtx, Drop, RunStep, PingEnds, DialRetry, DialRefused, Spawn,
     WaitCtx, WaitReader, WaitErr, WaitPing, SweepWorkers, SweepDone, BackoffCtx, BackoffOver,
     runVars, DialOk
<1>5. \/ readerPC' = readerPC
      \/ readerPC \in {"off", "ended"} /\ readerPC' \in {"off", "check"}
  <2>1. CASE Spawn \/ SweepDone
    BY <1>0, <2>1 DEF Spawn, SweepDone, WM!StopAllDone, IInv, Control, RunOK
  <2>2. CASE ~(Spawn \/ SweepDone)
    BY <2>2 DEF RunSide, CancelCtx, Drop, RunStep, PingEnds, DialRetry, DialRefused, Spawn,
     WaitCtx, WaitReader, WaitErr, WaitPing, SweepWorkers, SweepDone, BackoffCtx, BackoffOver,
     DialOk, readVars
  <2> QED BY <2>1, <2>2
<1>6. carried' \subseteq StreamIDs
  <2>1. CASE DialOk
    BY <2>1 DEF DialOk
  <2>2. CASE ~DialOk
    BY <1>0, <2>2 DEF RunSide, CancelCtx, Drop, RunStep, PingEnds, DialRetry, DialRefused, Spawn,
     WaitCtx, WaitReader, WaitErr, WaitPing, SweepWorkers, SweepDone, BackoffCtx, BackoffOver,
     peerVars
  <2> QED BY <2>1, <2>2
<1> QED BY <1>0, <1>1, <1>2, <1>3, <1>4, <1>5, <1>6, RunFrame DEF localVars

(* ... of the reader ...                                                   *)
LEMMA ReadTypes == ASSUME IInv, ReadSide PROVE TypeOK'
<1> USE BoundsAssumption DEF TypeOK
<1>0. TypeOK /\ UNCHANGED current
  BY ReadFrame DEF IInv
<1>1. /\ startErr' \in {None, "ctx", "read"} /\ received' \in 0..MaxMessages
      /\ peer' \in [StreamIDs -> {"closed", "open"}]
  BY <1>0 DEF ReadSide, ReaderStep, ReaderRejects, ReaderGets, ReaderCheck, ReaderFails, ReaderEnds,
       DispatchStart, OnStreamStartOk, OnStreamStartErr, ReaderSendReset, DispatchExec,
       DispatchExecReturns, DispatchDropped, DispatchSync, Message, peerVars, SendReset
<1>2. /\ readerPC' \in {"off", "check", "next", "dispatch", "onStart", "sendReset", "exec", "ended"}
      /\ msg' \in Message \cup {None}
      /\ msg' # None <=> readerPC' \in {"dispatch", "onStart", "sendReset", "exec"}
  BY <1>0, NamesApart DEF ReadSide, ReaderStep, ReaderRejects, ReaderGets, ReaderCheck, ReaderFails,
       ReaderEnds, DispatchStart, OnStreamStartOk, OnStreamStartErr, ReaderSendReset, DispatchExec,
       DispatchExecReturns, DispatchDropped, DispatchSync, Dispatched
<1>3. started' \in Workers \cup {None} /\ sockets' \subseteq Workers
  BY <1>0 DEF ReadSide, ReaderStep, ReaderRejects, ReaderGets, ReaderCheck, ReaderFails,
       ReaderEnds, DispatchStart, OnStreamStartOk, OnStreamStartErr, ReaderSendReset, DispatchExec,
       DispatchExecReturns, DispatchDropped, DispatchSync, localVars, IInv, Control, ReaderOK
<1>4. outReset' \subseteq StreamIDs /\ carried' \subseteq StreamIDs
  <2>1. CASE ReaderSendReset
    <3>1. msg \in Message /\ msg.type = "start"
      BY <1>0, <2>1 DEF ReaderSendReset, IInv, Control, ReaderOK
    <3> QED BY <1>0, <2>1, <3>1 DEF ReaderSendReset, SendReset, Message
  <2>2. CASE ~ReaderSendReset
    BY <1>0, <2>2 DEF ReadSide, ReaderStep, ReaderRejects, ReaderGets, ReaderCheck, ReaderFails,
       ReaderEnds, DispatchStart, OnStreamStartOk, OnStreamStartErr, DispatchExec,
       DispatchExecReturns, DispatchDropped, DispatchSync, peerVars
  <2> QED BY <2>1, <2>2
<1> QED BY <1>0, <1>1, <1>2, <1>3, <1>4, ReadFrame

(* What a worker does is a message of its stream.                          *)
LEMMA CurrentType ==
    ASSUME IInv, NEW w \in Workers, current[w] # None
    PROVE  current[w] \in Message /\ current[w].stream \in StreamIDs
<1>1. current[w] \in Message /\ current[w].type \in {"data", "reset"}
  BY DEF IInv, P!IInv, P!TypeOK, Control, QueuesOK, ForWorker
<1> QED BY <1>1 DEF Message

(* What it takes is, too.                                                  *)
LEMMA HeadType ==
    ASSUME IInv, NEW w \in Workers, chExec[w] # <<>>
    PROVE  /\ Head(chExec[w]) \in Message /\ Head(chExec[w]) = chExec[w][1]
           /\ ForWorker(Head(chExec[w]), w)
           /\ Head(chExec[w]).stream \in StreamIDs /\ Head(chExec[w]).seq \in 1..MaxMessages
<1>1. chExec[w] \in Seq(Message)
  BY DEF IInv, P!IInv, P!TypeOK
<1>2. 1 \in 1..Len(chExec[w]) /\ Head(chExec[w]) = chExec[w][1] /\ chExec[w][1] \in Message
  BY <1>1
<1>3. ForWorker(chExec[w][1], w)
  BY <1>2 DEF IInv, Control, QueuesOK
<1> QED BY <1>2, <1>3 DEF ForWorker, Message

(* ... of a worker ...                                                     *)
LEMMA WorkerTypes == ASSUME IInv, NEW w \in Workers, WorkerStep(w) PROVE TypeOK'
<1> USE BoundsAssumption DEF TypeOK
<1>0. TypeOK /\ current \in [Workers -> Message \cup {None}]
  BY DEF IInv, P!IInv, P!TypeOK
<1>1. /\ fnPC' \in [Workers -> {"idle", "called", "stopped"}]
      /\ \A v \in Workers : fnPC'[v] # "idle" <=> current'[v] # None
  <2>1. CASE Take(w)
    <3>1. /\ current' = [current EXCEPT ![w] = Head(chExec[w])]
          /\ fnPC' = [fnPC EXCEPT ![w] = "called"] /\ Head(chExec[w]) # None
      BY <2>1, HeadType, NamesApart DEF Take, WM!WorkerTake
    <3> QED BY <1>0, <3>1
  <2>2. CASE OnDataOk(w) \/ FnReturn(w)
    BY <1>0, <2>2 DEF OnDataOk, FnReturn, WM!WorkerFinish
  <2>3. CASE FnStop(w)
    BY <1>0, <2>3 DEF FnStop, WM!Stop, WM!workerVars
  <2>4. CASE Exit(w)
    BY <1>0, <2>4 DEF Exit, WM!WorkerExit
  <2> QED BY <2>1, <2>2, <2>3, <2>4 DEF WorkerStep
<1>2. lastData' \in [StreamIDs -> 0..MaxMessages]
  <2>1. CASE Take(w)
    <3>1. current'[w] = Head(chExec[w]) /\ chExec[w] # <<>>
      BY <1>0, <2>1 DEF Take, WM!WorkerTake
    <3> QED BY <1>0, <2>1, <3>1, HeadType DEF Take
  <2>2. CASE ~Take(w)
    BY <1>0, <2>2 DEF WorkerStep, OnDataOk, FnReturn, FnStop, Exit
  <2> QED BY <2>1, <2>2
<1>3. outReset' \subseteq StreamIDs /\ carried' \subseteq StreamIDs
  <2>1. CASE FnReturn(w)
    <3>1. current[w] # None
      BY <1>0, <2>1 DEF FnReturn, WM!WorkerFinish
    <3> QED BY <1>0, <2>1, <3>1, CurrentType DEF FnReturn, SendReset, peerVars
  <2>2. CASE ~FnReturn(w)
    BY <1>0, <2>2 DEF WorkerStep, OnDataOk, Take, FnStop, Exit, peerVars
  <2> QED BY <2>1, <2>2
<1> QED BY <1>0, <1>1, <1>2, <1>3, WorkerFrame DEF runVars, readVars, localVars

(* ... and of everyone else.                                               *)
LEMMA LocalTypes == ASSUME IInv, NEW w \in Workers, LocalSide(w) PROVE TypeOK'
<1>0. TypeOK /\ owner \in [Workers -> StreamIDs \cup {None}]
  BY DEF IInv, P!IInv, P!TypeOK
<1>1. /\ sockets' \subseteq Workers /\ starting' \subseteq Workers /\ resetting' \subseteq Workers
      /\ peer' \in [StreamIDs -> {"closed", "open"}]
  BY <1>0 DEF TypeOK, LocalSide, LocalStep, LocalStartSent, LocalStartFails, LocalResetSent,
     LocalReset, LocalStart, peerVars, SendReset
<1>2. outReset' \subseteq StreamIDs /\ carried' \subseteq StreamIDs
  <2>1. CASE LocalResetSent(w)
    BY <1>0, <2>1 DEF TypeOK, LocalResetSent, SendReset, IInv, Control, LocalOK
  <2>2. CASE ~LocalResetSent(w)
    BY <1>0, <2>2 DEF TypeOK, LocalSide, LocalStep, LocalStartSent, LocalStartFails, LocalReset,
       LocalStart, peerVars
  <2> QED BY <2>1, <2>2
<1> QED BY <1>0, <1>1, <1>2, LocalFrame DEF TypeOK, runVars, readVars

LEMMA TypesKeep == ASSUME IInv, [Next]_vars PROVE TypeOK'
<1>0. TypeOK
  BY DEF IInv
<1>1. CASE StopGoroutine
  BY <1>0, <1>1, StopFrame DEF TypeOK, runVars, readVars, localVars, peerVars
<1>2. ASSUME NEW s \in StreamIDs, PeerGetsReset(s) PROVE TypeOK'
  <2>1. /\ peer' \in [StreamIDs -> {"closed", "open"}]
        /\ outReset' \subseteq StreamIDs /\ carried' \subseteq StreamIDs
    BY <1>0, <1>2 DEF TypeOK, PeerGetsReset
  <2> QED BY <1>0, <1>2, <2>1, PeerFrame DEF TypeOK, runVars, readVars, localVars, wmVars
<1>3. CASE UNCHANGED vars
  BY <1>0, <1>3 DEF TypeOK, vars, runVars, readVars, localVars, peerVars, wmVars
<1> QED BY <1>1, <1>2, <1>3, Steps, RunTypes, ReadTypes, WorkerTypes, LocalTypes

-----------------------------------------------------------------------------
(* Run, its goroutines and stopAll.                                        *)
LEMMA RunKeeps == ASSUME IInv, [Next]_vars PROVE RunOK'
<1>0. RunOK /\ sweepOn \in BOOLEAN
  BY DEF IInv, Control, P!IInv, P!TypeOK
<1>1. CASE RunSide
  <2>1. CASE SweepWorkers
    BY <1>0, <2>1 DEF RunOK, SweepWorkers, runVars, readVars, WM!StopAllCancel, WM!StopAllSkip,
       WM!StopAllWaited
  <2>2. CASE SweepDone
    BY <1>0, <2>2 DEF RunOK, SweepDone, WM!StopAllDone
  <2>3. CASE WaitPing
    BY <1>0, <2>3 DEF RunOK, WaitPing, readVars, WM!Snapshot
  <2>4. CASE Spawn \/ WaitCtx \/ WaitReader \/ WaitErr
    BY <1>0, <2>4 DEF RunOK, Spawn, WaitCtx, WaitReader, WaitErr, runVars, readVars, wmVars
  <2>5. CASE DialOk \/ DialRetry \/ DialRefused \/ BackoffCtx \/ BackoffOver
    BY <1>0, <2>5 DEF RunOK, DialOk, DialRetry, DialRefused, BackoffCtx, BackoffOver, runVars,
       readVars, wmVars
  <2>6. CASE CancelCtx \/ Drop \/ PingEnds
    BY <1>0, <2>6 DEF RunOK, CancelCtx, Drop, PingEnds, runVars, readVars, wmVars
  <2> QED BY <1>1, <2>1, <2>2, <2>3, <2>4, <2>5, <2>6 DEF RunSide, RunStep
<1>2. CASE ReadSide
  <2>1. readerPC # "off" /\ readerPC # "ended" /\ readerPC' # "off"
    BY <1>2 DEF ReadSide, ReaderStep, ReaderRejects, ReaderGets, ReaderCheck, ReaderFails, ReaderEnds,
       DispatchStart, OnStreamStartOk, OnStreamStartErr, ReaderSendReset, DispatchExec,
       DispatchExecReturns, DispatchDropped, DispatchSync, Dispatched
  <2>2. startErr' = "ctx" => startErr = "ctx" \/ ctxDone
    BY <1>2 DEF ReadSide, ReaderStep, ReaderRejects, ReaderGets, ReaderCheck, ReaderFails, ReaderEnds,
       DispatchStart, OnStreamStartOk, OnStreamStartErr, ReaderSendReset, DispatchExec,
       DispatchExecReturns, DispatchDropped, DispatchSync, Dispatched, InnerDone
  <2> QED BY <1>0, <1>2, <2>1, <2>2, ReadFrame DEF RunOK
<1>3. CASE UNCHANGED <<runVars, readVars, ctxDone, pingOn, sweepOn>>
  BY <1>0, <1>3 DEF RunOK, runVars, readVars
<1>4. UNCHANGED vars => UNCHANGED <<runVars, readVars, ctxDone, pingOn, sweepOn>>
  BY DEF vars, wmVars
<1> QED BY <1>1, <1>2, <1>3, <1>4, Steps, WorkerFrame, StopFrame, LocalFrame, PeerFrame DEF wmVars

(* Sessions and calls of stopAll.                                          *)
LEMMA CountsKeep == ASSUME IInv, [Next]_vars PROVE CountsOK'
<1>0. /\ CountsOK /\ sessions \in Nat /\ sweeps \in Nat /\ received \in Nat
      /\ firstSeq \in Nat /\ RunOK
  BY BoundsAssumption DEF IInv, Control, TypeOK, P!IInv, P!TypeOK
<1>1. CASE RunSide
  <2>1. CASE DialOk
    BY <1>0, <2>1 DEF DialOk, CountsOK, InSession, wmVars, readVars
  <2>2. CASE WaitPing
    BY <1>0, <2>2 DEF WaitPing, CountsOK, InSession, WM!Snapshot, readVars
  <2>3. CASE SweepWorkers \/ SweepDone
    BY <1>0, <2>3 DEF SweepWorkers, SweepDone, WM!StopAllCancel, WM!StopAllSkip, WM!StopAllWaited,
       WM!StopAllDone, runVars, readVars, CountsOK, InSession, RunOK
  <2>4. CASE ~(DialOk \/ WaitPing \/ SweepWorkers \/ SweepDone)
    BY <1>0, <1>1, <2>4 DEF RunSide, CancelCtx, Drop, RunStep, PingEnds, DialRetry, DialRefused,
       Spawn, WaitCtx, WaitReader, WaitErr, BackoffCtx, BackoffOver, runVars, readVars, wmVars,
       CountsOK, InSession
  <2> QED BY <2>1, <2>2, <2>3, <2>4
<1>2. CASE ReadSide
  <2>1. received' = received \/ received' = received + 1
    BY <1>2 DEF ReadSide, ReaderStep, ReaderRejects, ReaderGets, ReaderCheck, ReaderFails, ReaderEnds,
       DispatchStart, OnStreamStartOk, OnStreamStartErr, ReaderSendReset, DispatchExec,
       DispatchExecReturns, DispatchDropped, DispatchSync, Dispatched
  <2> QED BY <1>0, <1>2, <2>1, ReadFrame DEF CountsOK, InSession
<1>3. CASE UNCHANGED <<runVars, readVars, sweeps>>
  BY <1>0, <1>3 DEF CountsOK, InSession, runVars, readVars
<1>4. UNCHANGED vars => UNCHANGED <<runVars, readVars, sweeps>>
  BY DEF vars, wmVars
<1> QED BY <1>1, <1>2, <1>3, <1>4, Steps, WorkerFrame, StopFrame, LocalFrame, PeerFrame DEF wmVars

(* A worker that was made keeps its StreamID.                              *)
LEMMA OwnersStay ==
    ASSUME IInv, [Next]_vars
    PROVE  /\ \A w \in Workers : owner[w] # None => owner'[w] = owner[w]
           /\ \A w \in Workers : status[w] # "new" => status'[w] # "new"
<1>0. /\ owner \in [Workers -> StreamIDs \cup {None}]
      /\ status \in [Workers -> {"new", "running", "terminated"}]
      /\ \A w \in Workers : status[w] = "new" <=> owner[w] = None
  BY DEF IInv, P!IInv, P!TypeOK, P!LifeInv
<1>1. ASSUME NEW s, NEW w \in Workers, WM!Start(s, w)
      PROVE  /\ \A v \in Workers : owner[v] # None => owner'[v] = owner[v]
             /\ \A v \in Workers : status[v] # "new" => status'[v] # "new"
  BY <1>0, <1>1 DEF WM!Start
<1>2. ASSUME ReadSide, ~\E w \in Workers : DispatchStart(w) PROVE UNCHANGED <<owner, status>>
  BY <1>2 DEF ReadSide, ReaderStep, ReaderRejects, ReaderGets, ReaderCheck, ReaderFails,
     ReaderEnds, OnStreamStartOk, OnStreamStartErr, ReaderSendReset, DispatchExec,
     DispatchExecReturns, DispatchDropped, DispatchSync, wmVars, WM!Stop, WM!ExecLookup, WM!ExecSend,
     WM!workerVars
<1>3. ASSUME NEW w \in Workers, LocalSide(w), ~\E s \in StreamIDs : LocalStart(s, w)
      PROVE  UNCHANGED <<owner, status>>
  BY <1>3 DEF LocalSide, LocalStep, LocalStartSent, LocalStartFails, LocalResetSent, LocalReset,
     wmVars, WM!Stop, WM!workerVars
<1>4. ASSUME NEW w \in Workers, WorkerStep(w)
      PROVE  owner' = owner /\ \A v \in Workers : status[v] # "new" => status'[v] # "new"
  BY <1>0, <1>4 DEF WorkerStep, Take, OnDataOk, FnStop, FnReturn, Exit, WM!WorkerTake,
     WM!WorkerFinish, WM!WorkerExit, WM!Stop, WM!workerVars
<1>5. UNCHANGED vars \/ (\E s \in StreamIDs : PeerGetsReset(s)) => UNCHANGED <<owner, status>>
  BY PeerFrame DEF vars, wmVars
<1> QED BY <1>1, <1>2, <1>3, <1>4, <1>5, Steps, RunFrame, StopFrame DEF DispatchStart, LocalStart,
    WM!StartLocal

(* What the reader dispatches stays as it is until it is dispatched.       *)
LEMMA ReaderKeeps == ASSUME IInv, [Next]_vars PROVE ReaderOK'
<1> USE NamesApart
<1>0. /\ ReaderOK /\ CountsOK /\ P!RegInv /\ TypeOK
      /\ owner \in [Workers -> StreamIDs \cup {None}] /\ received \in Nat /\ firstSeq \in Nat
      /\ workerMap \in [StreamIDs -> Workers \cup {None}]
      /\ sending \in Workers \cup {None} /\ msg \in Message \cup {None}
      /\ msg # None <=> readerPC \in {"dispatch", "onStart", "sendReset", "exec"}
      /\ readerPC \in {"onStart", "sendReset"} \/ sending # None => msg.stream # None
  BY BoundsAssumption DEF IInv, Control, TypeOK, P!IInv, P!TypeOK, ReaderOK, Message
<1>1. CASE ReadSide
  <2>1. CASE \E m \in Message : ReaderGets(m)
    BY <1>0, <2>1 DEF ReaderGets, ReaderUnchanged, ReaderOK, CountsOK, wmVars
  <2>2. ASSUME NEW w \in Workers, DispatchStart(w) PROVE ReaderOK'
    BY <1>0, <2>2 DEF DispatchStart, ReaderUnchanged, ReaderOK, WM!Start, WM!execVars
  <2>3. CASE OnStreamStartErr
    BY <1>0, <2>3 DEF OnStreamStartErr, ReaderUnchanged, ReaderOK, WM!Stop, WM!execVars,
       WM!workerVars
  <2>4. CASE DispatchExec
    <3>1. msg.stream \in StreamIDs
      BY <1>0, <2>4 DEF DispatchExec, Message
    <3>2. owner[workerMap[msg.stream]] = msg.stream /\ workerMap[msg.stream] # None
      BY <1>0, <2>4, <3>1 DEF DispatchExec, WM!ExecLookup, P!RegInv
    <3> QED BY <1>0, <2>4, <3>2 DEF DispatchExec, ReaderUnchanged, ReaderOK, WM!ExecLookup,
            WM!workerVars
  <2>5. CASE OnStreamStartOk \/ ReaderSendReset \/ DispatchDropped \/ DispatchSync
    BY <1>0, <2>5 DEF OnStreamStartOk, ReaderSendReset, DispatchDropped, DispatchSync, Dispatched,
       ReaderUnchanged, ReaderOK, wmVars
  <2>6. CASE DispatchExecReturns
    BY <1>0, <2>6 DEF DispatchExecReturns, Dispatched, ReaderOK, WM!ExecSend
  <2>7. CASE ReaderCheck \/ ReaderFails \/ ReaderRejects
    BY <1>0, <2>7 DEF ReaderCheck, ReaderFails, ReaderRejects, ReaderEnds, ReaderUnchanged, ReaderOK,
       wmVars
  <2> QED BY <1>1, <2>1, <2>2, <2>3, <2>4, <2>5, <2>6, <2>7 DEF ReadSide, ReaderStep
<1>2. CASE RunSide
  <2>1. CASE ~(DialOk \/ Spawn \/ SweepDone)
    BY <1>0, <1>2, <2>1, RunFrame DEF ReaderOK, RunSide, CancelCtx, Drop, RunStep, PingEnds,
       DialRetry, DialRefused, WaitCtx, WaitReader, WaitErr, WaitPing, SweepWorkers, BackoffCtx,
       BackoffOver, runVars, readVars
  <2>2. CASE DialOk \/ Spawn \/ SweepDone
    <3>1. readerPC \in {"off", "ended"} /\ readerPC' \in {"off", "check"}
      BY <2>2 DEF DialOk, Spawn, SweepDone, WM!StopAllDone, readVars, IInv, Control, RunOK
    <3> QED BY <1>0, <1>2, <3>1, RunFrame DEF ReaderOK
  <2> QED BY <2>1, <2>2
<1>3. ASSUME UNCHANGED <<runVars, readVars, sending, sendFunc>> PROVE ReaderOK'
  <2>1. \A w \in Workers : owner[w] # None => owner'[w] = owner[w]
    BY OwnersStay
  <2> QED BY <1>0, <1>3, <2>1 DEF ReaderOK, runVars, readVars
<1>4. UNCHANGED vars => UNCHANGED <<runVars, readVars, sending, sendFunc>>
  BY DEF vars, wmVars
<1> QED BY <1>1, <1>2, <1>3, <1>4, Steps, WorkerFrame, StopFrame, LocalFrame, PeerFrame DEF wmVars

(* Only the reader adds to a queue, and only what is for its worker.       *)
LEMMA QueuesKeep == ASSUME IInv, [Next]_vars PROVE QueuesOK'
<1> USE NamesApart
<1>0. /\ QueuesOK /\ ReaderOK
      /\ owner \in [Workers -> StreamIDs \cup {None}] /\ sending \in Workers \cup {None}
      /\ status \in [Workers -> {"new", "running", "terminated"}]
      /\ chExec \in [Workers -> Seq(Message)] /\ current \in [Workers -> Message \cup {None}]
      /\ \A w \in Workers : status[w] = "new" <=> owner[w] = None
  BY DEF IInv, Control, P!IInv, P!TypeOK, P!LifeInv
<1>1. \A w \in Workers : \A i \in 1..Len(chExec[w]) : owner[w] # None
  BY <1>0 DEF QueuesOK
<1>2. \A w \in Workers : current[w] # None => owner[w] # None
  BY <1>0 DEF IInv, P!IInv, P!LifeInv
<1>3. ASSUME chExec' = chExec,
             \A w \in Workers : current'[w] = current[w] \/ current'[w] = None
      PROVE  QueuesOK'
  BY <1>0, <1>1, <1>2, <1>3, OwnersStay DEF QueuesOK, ForWorker
<1>4. CASE DispatchExecReturns
  <2> DEFINE q == chExec[sending]
  <2>1. /\ sending \in Workers /\ ForWorker(sendFunc, sending) /\ sendFunc = msg
        /\ chExec' = [chExec EXCEPT ![sending] = Append(q, sendFunc)]
        /\ UNCHANGED <<owner, status, current>> /\ owner[sending] # None
    BY <1>0, <1>4 DEF DispatchExecReturns, WM!ExecSend, ReaderOK, ForWorker, IInv, P!IInv, P!SendInv,
       P!Registered, P!RegInv, P!TypeOK
  <2>2. sendFunc \in Message /\ q \in Seq(Message)
    BY <1>0, <1>4, <2>1 DEF IInv, P!IInv, P!TypeOK, WM!ExecSend, DispatchExecReturns
  <2>3. /\ Len(Append(q, sendFunc)) = Len(q) + 1 /\ Len(q) \in Nat
        /\ \A i \in 1..Len(Append(q, sendFunc)) :
              Append(q, sendFunc)[i] = IF i <= Len(q) THEN q[i] ELSE sendFunc
    BY <2>2
  <2>4. \A i \in 1..Len(Append(q, sendFunc)) : ForWorker(Append(q, sendFunc)[i], sending)
    BY <1>0, <2>1, <2>3 DEF QueuesOK
  <2>5. status[sending] # "new"
    BY <1>0, <2>1
  <2> HIDE DEF q
  <2> QED BY <1>0, <2>1, <2>4, <2>5 DEF QueuesOK, ForWorker
<1>5. ASSUME NEW w \in Workers, Take(w) PROVE QueuesOK'
  <2> DEFINE q == chExec[w]
  <2>1. /\ q # <<>> /\ q \in Seq(Message) /\ chExec' = [chExec EXCEPT ![w] = Tail(q)]
        /\ current' = [current EXCEPT ![w] = Head(q)] /\ UNCHANGED <<owner, status>>
    BY <1>0, <1>5 DEF Take, WM!WorkerTake
  <2>2. ForWorker(Head(q), w)
    BY <2>1, HeadType
  <2>3. /\ Len(Tail(q)) = Len(q) - 1
        /\ \A i \in 1..Len(Tail(q)) : Tail(q)[i] = q[i + 1] /\ i + 1 \in 1..Len(q)
    BY <2>1
  <2>4. \A i \in 1..Len(Tail(q)) : ForWorker(Tail(q)[i], w)
    BY <1>0, <2>3 DEF QueuesOK
  <2>5. status[w] # "new"
    BY <1>0, <2>1 DEF QueuesOK
  <2> HIDE DEF q
  <2> QED BY <1>0, <2>1, <2>2, <2>4, <2>5 DEF QueuesOK, ForWorker
<1>6. ASSUME ReadSide, ~DispatchExecReturns PROVE chExec' = chExec
  BY <1>6 DEF ReadSide, ReaderStep, ReaderRejects, ReaderGets, ReaderCheck, ReaderFails,
     ReaderEnds, DispatchStart, OnStreamStartOk, OnStreamStartErr, ReaderSendReset, DispatchExec,
     DispatchDropped, DispatchSync, wmVars, WM!Start, WM!Stop, WM!ExecLookup, WM!workerVars
<1>7. ASSUME NEW w \in Workers, WorkerStep(w), ~Take(w) PROVE QueuesOK'
  <2>1. chExec' = chExec /\ \A v \in Workers : current'[v] = current[v] \/ current'[v] = None
    BY <1>0, <1>7 DEF WorkerStep, OnDataOk, FnStop, FnReturn, Exit, WM!WorkerFinish, WM!WorkerExit,
       WM!Stop, WM!workerVars
  <2> QED BY <1>3, <2>1
<1>8. CASE UNCHANGED vars
  BY <1>3, <1>8 DEF vars, wmVars
<1> QED BY <1>3, <1>4, <1>5, <1>6, <1>7, <1>8, Steps, ReadFrame, RunFrame, StopFrame, LocalFrame,
    PeerFrame DEF wmVars

(* Sockets, accept handlers and StreamResets have or had a worker.         *)
LEMMA LocalKeeps == ASSUME IInv, [Next]_vars PROVE LocalOK'
<1> USE NamesApart
<1>0. /\ LocalOK /\ ReaderOK /\ QueuesOK /\ TypeOK
      /\ owner \in [Workers -> StreamIDs \cup {None}]
      /\ \A w \in Workers : owner[w] # None => owner'[w] = owner[w]
      /\ sockets \cup starting \cup resetting \subseteq Workers /\ outReset \subseteq StreamIDs
  BY OwnersStay DEF IInv, Control, P!IInv, P!TypeOK, TypeOK
<1>1. ASSUME sockets' \cup starting' \cup resetting' \subseteq sockets \cup starting \cup resetting,
             outReset' \subseteq outReset
      PROVE  LocalOK'
  BY <1>0, <1>1 DEF LocalOK
<1>2. ASSUME NEW s \in StreamIDs, outReset' \subseteq outReset \cup {s},
             \E w \in Workers : owner[w] = s,
             sockets' \cup starting' \cup resetting' \subseteq sockets \cup starting \cup resetting
      PROVE  LocalOK'
  BY <1>0, <1>2 DEF LocalOK
<1>3. CASE ReadSide
  <2>1. CASE OnStreamStartOk
    BY <1>0, <1>3, <2>1, ReadFrame DEF OnStreamStartOk, ReaderOK, LocalOK, peerVars, TypeOK, Message
  <2>2. CASE ReaderSendReset
    <3>1. msg.stream \in StreamIDs
      BY <1>0, <2>2 DEF ReaderSendReset, TypeOK, ReaderOK, Message
    <3>2. \E w \in Workers : owner[w] = msg.stream
      BY <1>0, <2>2 DEF ReaderSendReset, ReaderOK
    <3> QED BY <1>2, <1>3, <2>2, <3>1, <3>2, ReadFrame DEF ReaderSendReset, SendReset, localVars
  <2>3. CASE ~(OnStreamStartOk \/ ReaderSendReset)
    <3>1. outReset' = outReset /\ sockets' = sockets
      BY <1>3, <2>3 DEF ReadSide, ReaderStep, ReaderRejects, ReaderGets, ReaderCheck, ReaderFails,
         ReaderEnds, DispatchStart, OnStreamStartErr, DispatchExec, DispatchExecReturns,
         DispatchDropped, DispatchSync, localVars, peerVars
    <3> QED BY <1>1, <1>3, <3>1, ReadFrame
  <2> QED BY <2>1, <2>2, <2>3
<1>4. ASSUME NEW w \in Workers, WorkerStep(w) PROVE LocalOK'
  <2>1. CASE FnReturn(w)
    <3>1. current[w] # None
      BY <2>1 DEF FnReturn, WM!WorkerFinish
    <3>2. current[w].stream \in StreamIDs /\ owner[w] = current[w].stream
      BY <1>0, <3>1, CurrentType DEF QueuesOK, ForWorker
    <3>3. outReset' \subseteq outReset \cup {current[w].stream}
      BY <2>1 DEF FnReturn, SendReset, peerVars
    <3> QED BY <1>2, <1>4, <3>2, <3>3, WorkerFrame DEF localVars
  <2>2. CASE ~FnReturn(w)
    <3>1. outReset' = outReset
      BY <1>4, <2>2 DEF WorkerStep, Take, OnDataOk, FnStop, Exit, peerVars
    <3> QED BY <1>1, <1>4, <3>1, WorkerFrame DEF localVars
  <2> QED BY <2>1, <2>2
<1>5. ASSUME NEW w \in Workers, LocalSide(w) PROVE LocalOK'
  <2>1. CASE LocalStartSent(w) \/ LocalStartFails(w) \/ LocalReset(w)
    <3>1. sockets' \cup starting' \cup resetting' \subseteq sockets \cup starting \cup resetting
      BY <2>1 DEF LocalStartSent, LocalStartFails, LocalReset
    <3>2. outReset' = outReset
      BY <2>1 DEF LocalStartSent, LocalStartFails, LocalReset, peerVars
    <3> QED BY <1>1, <3>1, <3>2
  <2>2. CASE LocalResetSent(w)
    <3>1. owner[w] \in StreamIDs
      BY <1>0, <2>2 DEF LocalResetSent, LocalOK
    <3>2. outReset' \subseteq outReset \cup {owner[w]}
      BY <2>2 DEF LocalResetSent, SendReset
    <3>3. sockets' \cup starting' \cup resetting' \subseteq sockets \cup starting \cup resetting
      BY <2>2 DEF LocalResetSent
    <3> QED BY <1>2, <3>1, <3>2, <3>3
  <2>3. ASSUME NEW s \in StreamIDs, LocalStart(s, w) PROVE LocalOK'
    <3>1. owner'[w] = s /\ UNCHANGED <<sockets, resetting, outReset>> /\ starting' = starting \cup {w}
      BY <1>0, <2>3 DEF LocalStart, WM!StartLocal, WM!Start, peerVars
    <3> QED BY <1>0, <3>1 DEF LocalOK
  <2> QED BY <1>5, <2>1, <2>2, <2>3 DEF LocalSide, LocalStep
<1>6. ASSUME NEW s \in StreamIDs, PeerGetsReset(s) PROVE LocalOK'
  BY <1>1, <1>6, PeerFrame DEF PeerGetsReset, localVars
<1>7. CASE UNCHANGED localVars /\ outReset' \subseteq outReset
  BY <1>1, <1>7 DEF localVars
<1> QED BY <1>3, <1>4, <1>5, <1>6, <1>7, Steps, RunFrame, StopFrame DEF vars, peerVars

(* A stream that starts finds its StreamID unused until it has its worker. *)
LEMMA StartKeeps == ASSUME IInv, [Next]_vars PROVE StartOK'
<1> SUFFICES ASSUME readerPC' = "dispatch", msg'.type = "start" PROVE StartOK'
  BY DEF StartOK
<1> USE NamesApart
<1>0. /\ StartOK /\ LocalOK /\ TypeOK /\ RunOK
      /\ owner \in [Workers -> StreamIDs \cup {None}]
      /\ workerMap \in [StreamIDs -> Workers \cup {None}]
      /\ status \in [Workers -> {"new", "running", "terminated"}]
      /\ stops \in [StreamIDs -> 0..MaxStops]
      /\ \A w \in Workers : owner[w] # None => owner'[w] = owner[w]
  BY OwnersStay DEF IInv, Control, P!IInv, P!TypeOK
<1>1. CASE \E m \in Message : ReaderGets(m)
  <2>1. PICK m \in Message : ReaderGets(m)
    BY <1>1
  <2>2. m.type = "start" /\ m.stream \in StreamIDs /\ msg' = m
    BY <2>1 DEF ReaderGets, Message
  <2>3. peer'[m.stream] = "open"
    BY <1>0, <2>1, <2>2 DEF ReaderGets, TypeOK
  <2>4. ReuseUnsettled \/ Quiet(m.stream)
    BY <2>1, <2>2 DEF ReaderGets, PeerMaySend
  <2>5. Quiet(m.stream) => Quiet(m.stream)'
    BY <2>1 DEF ReaderGets, Quiet, WM!Settled, localVars, wmVars
  <2> QED BY <2>2, <2>3, <2>4, <2>5 DEF StartOK
<1>2. ASSUME readerPC = "dispatch", UNCHANGED readVars, ~ReadSide PROVE StartOK'
  <2>0. PICK s \in StreamIDs : s = msg.stream
    BY <1>0, <1>2 DEF TypeOK, RunOK, Message, readVars
  <2>1. /\ s \in StreamIDs /\ ~sweepOn /\ msg' = msg
        /\ ReuseUnsettled \/ Quiet(s)
        /\ peer[s] = "open" \/ \E w \in Workers : owner[w] = s
    BY <1>0, <1>2, <2>0 DEF StartOK, TypeOK, RunOK, readVars
  <2>2. peer'[s] = "open" \/ \E w \in Workers : owner'[w] = s
    <3>1. CASE \E w \in Workers : owner[w] = s
      BY <1>0, <2>1, <3>1
    <3>2. CASE peer[s] = "open" /\ s \notin outReset
      <4>1. ASSUME NEW w \in Workers, LocalSide(w) PROVE peer'[s] = "open"
        BY <1>0, <2>1, <3>2, <4>1 DEF TypeOK, LocalSide, LocalStep, LocalStartSent, LocalStartFails,
           LocalResetSent, LocalReset, LocalStart, peerVars, SendReset
      <4>2. ASSUME NEW t \in StreamIDs, PeerGetsReset(t) PROVE peer'[s] = "open"
        BY <1>0, <2>1, <3>2, <4>2 DEF TypeOK, PeerGetsReset
      <4> QED BY <1>2, <3>2, <4>1, <4>2, Steps, RunFrame, WorkerFrame, StopFrame DEF vars, peerVars
    <3>3. CASE s \in outReset
      BY <1>0, <2>1, <3>3 DEF LocalOK
    <3> QED BY <2>1, <3>1, <3>2, <3>3
  <2>3. ASSUME Quiet(s), ~ReuseUnsettled PROVE Quiet(s)'
    <3>1. /\ stops[s] = 0
          /\ workerMap[s] # None => status[workerMap[s]] = "terminated"
          /\ \A w \in sockets \cup starting \cup resetting : owner[w] # s /\ owner[w] # None
      BY <1>0, <2>3 DEF Quiet, WM!Settled, LocalOK
    <3>2. \A w \in Workers : status[w] = "running" => owner[w] # s
      <4>1. P!SettledInv
        BY <2>3 DEF IInv
      <4> QED BY <1>0, <2>1, <2>3, <3>1, <4>1, AllSettled DEF P!SettledInv, P!SweepInv, P!Registered
    <3>3. ASSUME stops'[s] = stops[s], workerMap'[s] = workerMap[s],
                 workerMap[s] # None => status'[workerMap[s]] = "terminated",
                 \A w \in sockets' \cup starting' \cup resetting' : owner'[w] # s
          PROVE  Quiet(s)'
      BY <3>1, <3>3 DEF Quiet, WM!Settled
    <3>4. UNCHANGED localVars => \A w \in sockets' \cup starting' \cup resetting' : owner'[w] # s
      BY <1>0, <3>1 DEF localVars, TypeOK
    <3>5. CASE UNCHANGED <<wmVars, localVars>>
      BY <3>1, <3>3, <3>4, <3>5 DEF wmVars
    <3>6. ASSUME NEW w \in Workers, WorkerStep(w) PROVE Quiet(s)'
      <4>1. stops'[s] = stops[s]
        <5>1. CASE FnStop(w)
          <6>1. current[w] # None /\ owner[w] # s /\ current[w].stream = owner[w]
            BY <1>0, <3>2, <5>1 DEF FnStop, TypeOK, IInv, Control, QueuesOK, ForWorker, P!IInv, P!LifeInv
          <6> QED BY <1>0, <5>1, <6>1 DEF FnStop, WM!Stop
        <5>2. CASE ~FnStop(w)
          BY <3>6, <5>2 DEF WorkerStep, Take, OnDataOk, FnReturn, Exit, WM!WorkerTake,
             WM!WorkerFinish, WM!WorkerExit, WM!stopVars
        <5> QED BY <5>1, <5>2
      <4>2. \A v \in Workers : status[v] = "terminated" => status'[v] = "terminated"
        BY <1>0, <3>6 DEF WorkerStep, Take, OnDataOk, FnStop, FnReturn, Exit, WM!WorkerTake,
           WM!WorkerFinish, WM!WorkerExit, WM!Stop, WM!workerVars
      <4> QED BY <1>0, <2>1, <3>1, <3>3, <3>4, <3>6, <4>1, <4>2, WorkerFrame
    <3>7. CASE StopGoroutine
      <4>1. stops'[s] = stops[s] /\ workerMap'[s] = workerMap[s]
        <5>1. ASSUME NEW t \in StreamIDs, WM!StopStep(t) PROVE t # s
          BY <3>1, <5>1 DEF WM!StopStep, WM!StopMissing, WM!StopAgain, WM!StopCancel
        <5>2. WM!StopDone => stopping # s
          BY <3>1 DEF WM!StopDone, IInv, P!IInv, P!LockInv
        <5> QED BY <1>0, <2>1, <3>7, <5>1, <5>2 DEF StopGoroutine, WM!StopStep, WM!StopMissing,
                WM!StopAgain, WM!StopCancel, WM!StopDone
      <4> QED BY <3>1, <3>3, <3>4, <3>7, <4>1, StopFrame
    <3>8. ASSUME NEW w \in Workers, LocalSide(w) PROVE Quiet(s)'
      <4>1. ASSUME NEW t \in StreamIDs, LocalStart(t, w) PROVE Quiet(s)'
        <5>1. t # s
          BY <2>1, <4>1 DEF LocalStart, WM!StartLocal, WM!Fresh
        <5>2. /\ stops' = stops /\ workerMap' = [workerMap EXCEPT ![t] = w] /\ status[w] = "new"
              /\ status' = [status EXCEPT ![w] = "running"] /\ owner' = [owner EXCEPT ![w] = t]
              /\ UNCHANGED <<sockets, resetting>> /\ starting' = starting \cup {w}
          BY <4>1 DEF LocalStart, WM!StartLocal, WM!Start, WM!stopVars
        <5>3. owner'[w] # s
          BY <1>0, <5>1, <5>2
        <5>4. \A v \in sockets' \cup starting' \cup resetting' : owner'[v] # s
          BY <1>0, <3>1, <5>2, <5>3 DEF TypeOK
        <5> QED BY <1>0, <2>1, <3>1, <3>3, <5>1, <5>2, <5>4
      <4>2. CASE LocalStartFails(w) \/ LocalReset(w)
        <5>1. /\ WM!Stop(owner[w]) /\ owner[w] # s
              /\ sockets' \cup starting' \cup resetting' \subseteq sockets \cup starting \cup resetting
          BY <3>1, <4>2 DEF LocalStartFails, LocalReset
        <5>2. /\ UNCHANGED <<workerMap, owner, status>> /\ stops'[s] = stops[s]
          BY <1>0, <5>1 DEF WM!Stop, WM!workerVars
        <5> QED BY <3>1, <3>3, <5>1, <5>2
      <4>3. CASE LocalStartSent(w) \/ LocalResetSent(w)
        <5>1. /\ UNCHANGED wmVars
              /\ sockets' \cup starting' \cup resetting' \subseteq sockets \cup starting \cup resetting
          BY <4>3 DEF LocalStartSent, LocalResetSent
        <5> QED BY <3>1, <3>3, <5>1 DEF wmVars
      <4> QED BY <3>8, <4>1, <4>2, <4>3 DEF LocalSide, LocalStep
    <3>9. CASE RunSide
      BY <3>1, <3>3, <3>4, <3>9, RunFrame
    <3> QED BY <1>2, <3>5, <3>6, <3>7, <3>8, <3>9, Steps, PeerFrame DEF vars
  <2> QED BY <2>0, <2>1, <2>2, <2>3 DEF StartOK
<1>3. ReadSide => readerPC' # "dispatch" \/ \E m \in Message : ReaderGets(m)
  BY DEF ReadSide, ReaderStep, ReaderRejects, ReaderCheck, ReaderFails, ReaderEnds, DispatchStart,
     OnStreamStartOk, OnStreamStartErr, ReaderSendReset, DispatchExec, DispatchExecReturns,
     DispatchDropped, DispatchSync, Dispatched
<1>4. ~ReadSide => UNCHANGED readVars
  <2>1. CASE RunSide
    <3>1. readerPC' = readerPC \/ readerPC' \in {"off", "check"}
      BY <2>1 DEF RunSide, CancelCtx, Drop, RunStep, PingEnds, DialOk, DialRetry, DialRefused, Spawn,
         WaitCtx, WaitReader, WaitErr, WaitPing, SweepWorkers, SweepDone, BackoffCtx, BackoffOver,
         readVars
    <3> QED BY <2>1, <3>1, RunFrame DEF readVars
  <2> QED BY <2>1, Steps, WorkerFrame, StopFrame, LocalFrame, PeerFrame DEF vars
<1> QED BY <1>1, <1>2, <1>3, <1>4 DEF readVars

-----------------------------------------------------------------------------
(* The start.                                                              *)
LEMMA InitIInv == Init => IInv
<1> SUFFICES ASSUME Init PROVE IInv
  OBVIOUS
<1> USE BoundsAssumption, NamesApart
<1>1. P!Init
  BY SameManager DEF Init
<1>2. P!IInv
  BY <1>1, ManagersConstants, P!InitIInv
<1>3. P!SettledInv
  BY <1>1, ManagersConstants
     DEF P!Init, P!SettledInv, P!SweepInv, P!LeftoverInv, P!MeantInv, P!OneGoroutinePerStream,
         P!OnlyAskedWorkersStop, P!Registered
<1>4. TypeOK
  <2>1. ctxDone \in BOOLEAN /\ pingOn \in BOOLEAN
    BY DEF Init
  <2>2. 0 \in 0..MaxSessions /\ 1 \in 1..(MaxMessages + 1) /\ 0 \in 0..MaxMessages
    OBVIOUS
  <2> QED BY <1>1, <2>1, <2>2 DEF Init, TypeOK, P!Init
<1>5. RunOK /\ CountsOK /\ LocalOK /\ StartOK
  BY <1>1 DEF Init, P!Init, RunOK, CountsOK, InSession, LocalOK, StartOK
<1>6. ReaderOK /\ QueuesOK
  BY <1>1 DEF Init, P!Init, ReaderOK, QueuesOK
<1> QED BY <1>2, <1>3, <1>4, <1>5, <1>6 DEF IInv, Control

(* A step.                                                                 *)
LEMMA Inductive == IInv /\ [Next]_vars => IInv'
<1> SUFFICES ASSUME IInv, [Next]_vars PROVE IInv'
  OBVIOUS
<1>1. P!IInv' /\ (ReuseUnsettled \/ P!SettledInv)'
  BY ManagerKeeps
<1>2. TypeOK' /\ RunOK' /\ CountsOK' /\ ReaderOK' /\ QueuesOK' /\ LocalOK' /\ StartOK'
  BY TypesKeep, RunKeeps, CountsKeep, ReaderKeeps, QueuesKeep, LocalKeeps, StartKeeps
<1> QED BY <1>1, <1>2 DEF IInv, Control

(* The invariant holds always.                                             *)
LEMMA IInvHolds == Spec => []IInv
BY InitIInv, Inductive, PTL DEF Spec

(* awsclient.go:93-144, 215-320: the fields, goroutines and streams of the *)
(* client keep to their types, with any number of each.                    *)
THEOREM TypeCorrect == Spec => []TypeOK
<1>1. IInv => TypeOK
  BY DEF IInv
<1> QED BY <1>1, IInvHolds, PTL

(* awsclient.go:223-286: the client uses the worker manager as it must be, *)
(* whatever the peer, the network and the listener do: it never calls exec *)
(* beside stopAll, and stops only StreamIDs it has.                        *)
THEOREM ManagerUsed == Spec => UsesWorkerManager
<1>1. Init => WM!Init
  BY DEF Init
<1>2. IInv /\ [Next]_vars => [WM!Next]_(WM!vars)
  <2>1. wmVars' = wmVars => WM!vars' = WM!vars
    BY DEF wmVars, WM!vars, WM!workerVars, WM!stopVars, WM!execVars, WM!sweepVars
  <2> QED BY <2>1, StepUsesManager
<1> QED BY <1>1, <1>2, IInvHolds, PTL DEF Spec, UsesWorkerManager, WM!Spec

(* awsclient.go:59-68: Run returns only when the context is done, the      *)
(* service refuses or the tunnel is closed, and a session's goroutines end *)
(* before it does.                                                         *)
THEOREM RunIsSession == Spec => ImplementsSession
<1>1. Init => S!Init
  BY DEF Init, S!Init
<1>2. IInv /\ [Next]_vars => [S!Next]_(S!vars)
  <2> SUFFICES ASSUME IInv, [Next]_vars PROVE [S!Next]_(S!vars)
    OBVIOUS
  <2> USE DEF S!Next, S!vars
  <2>0. TypeOK /\ RunOK
    BY DEF IInv, Control
  <2>1. CASE CancelCtx
    BY <2>1 DEF CancelCtx, S!CancelCtx, runVars, readVars
  <2>2. CASE Drop
    BY <2>2 DEF Drop, runVars, readVars
  <2>3. CASE PingEnds
    <3>1. S!HelperEnds("ping")
      BY <2>0, <2>3 DEF PingEnds, S!HelperEnds, runVars, readVars, RunOK
    <3> QED BY <3>1
  <2>4. CASE DialOk
    BY <2>4 DEF DialOk, S!Connect, readVars
  <2>5. CASE DialRetry \/ BackoffOver
    BY <2>5 DEF DialRetry, BackoffOver, readVars
  <2>6. CASE DialRefused
    BY <2>6 DEF DialRefused, S!ReturnRefused, readVars
  <2>7. CASE Spawn
    BY <2>0, <2>7 DEF Spawn, S!Help, RunOK
  <2>8. CASE WaitCtx \/ WaitReader \/ WaitErr \/ WaitPing
    BY <2>8 DEF WaitCtx, WaitReader, WaitErr, WaitPing, readVars
  <2>9. CASE SweepWorkers
    BY <2>9 DEF SweepWorkers, runVars, readVars
  <2>10. CASE SweepDone
    <3>1. runPC = "sweep" /\ readerPC = "ended" /\ ~pingOn /\ UNCHANGED <<ctxDone, pingOn>>
      BY <2>0, <2>10 DEF SweepDone, RunOK, WM!StopAllDone
    <3>2. CASE startErr = "ctx"
      <4>1. S!ReturnCtx
        BY <2>0, <2>10, <3>1, <3>2 DEF SweepDone, S!ReturnCtx, RunOK
      <4> QED BY <4>1
    <3>3. CASE startErr # "ctx"
      <4>1. S!Disconnect
        BY <2>10, <3>1, <3>3 DEF SweepDone, S!Disconnect
      <4> QED BY <4>1
    <3> QED BY <3>2, <3>3
  <2>11. CASE BackoffCtx
    BY <2>0, <2>11 DEF BackoffCtx, S!ReturnCtx, RunOK, readVars
  <2>12. CASE ReadSide
    <3>1. UNCHANGED <<ctxDone, runPC, result, pingOn>> /\ readerPC \notin {"off", "ended"}
      BY <2>12, ReadFrame DEF ReadSide, ReaderStep, ReaderRejects, ReaderGets, ReaderCheck,
         ReaderFails, ReaderEnds, DispatchStart, OnStreamStartOk, OnStreamStartErr,
         ReaderSendReset, DispatchExec, DispatchExecReturns, DispatchDropped, DispatchSync
    <3>2. CASE readerPC' = "ended"
      <4>1. S!HelperEnds("reader")
        BY <3>1, <3>2 DEF S!HelperEnds
      <4> QED BY <4>1
    <3>3. CASE readerPC' # "ended"
      <4>1. readerPC' # "off"
        BY <2>12 DEF ReadSide, ReaderStep, ReaderRejects, ReaderGets, ReaderCheck,
           ReaderFails, ReaderEnds, DispatchStart, OnStreamStartOk, OnStreamStartErr,
           ReaderSendReset, DispatchExec, DispatchExecReturns, DispatchDropped, DispatchSync,
           Dispatched
      <4> QED BY <3>1, <3>3, <4>1
    <3> QED BY <3>2, <3>3
  <2>13. ASSUME UNCHANGED <<ctxDone, runVars, readVars, pingOn>> PROVE UNCHANGED S!vars
    BY <2>13 DEF runVars, readVars
  <2>14. ASSUME ~RunSide, ~ReadSide PROVE UNCHANGED <<ctxDone, runVars, readVars, pingOn>>
    BY <2>14, Steps, WorkerFrame, StopFrame, LocalFrame, PeerFrame DEF vars
  <2> QED BY <2>1, <2>2, <2>3, <2>4, <2>5, <2>6, <2>7, <2>8, <2>9, <2>10, <2>11, <2>12, <2>13,
             <2>14 DEF RunSide, RunStep
<1> QED BY <1>1, <1>2, IInvHolds, PTL DEF Spec, ImplementsSession, S!Spec

-----------------------------------------------------------------------------
(* The last message that was handed to a worker or dropped.                *)
Handed == IF msg = None THEN received ELSE received - 1

(* A worker's messages are in order, and not behind what was called.       *)
OrderOf(w) ==
    /\ current[w] # None => current[w].seq <= Handed
    /\ \A i \in 1..Len(chExec[w]) :
          /\ chExec[w][i].seq <= Handed
          /\ \A j \in 1..(i - 1) : chExec[w][j].seq < chExec[w][i].seq
          /\ status[w] = "running" => lastData[owner[w]] < chExec[w][i].seq

OrderInv ==
    /\ \A s \in StreamIDs : lastData[s] <= Handed
    /\ \A w \in Workers : OrderOf(w)

(* What the messages are.                                                  *)
LEMMA QueueTypes ==
    ASSUME IInv
    PROVE  /\ \A w \in Workers : chExec[w] \in Seq(Message) /\ current[w] \in Message \cup {None}
           /\ \A w \in Workers : status[w] = "running" => owner[w] \in StreamIDs
           /\ \A m \in Message : m.seq \in Nat
           /\ received \in Nat /\ Handed \in Int /\ None \notin Message
           /\ \A s \in StreamIDs : lastData[s] \in Nat
BY BoundsAssumption, NamesApart
   DEF IInv, P!IInv, P!TypeOK, P!LifeInv, TypeOK, Message, Handed

(* Nothing but the reader moves Handed, and it only counts up.             *)
LEMMA HandedGrows ==
    ASSUME IInv, [Next]_vars
    PROVE  /\ Handed' >= Handed
           /\ ~ReadSide => Handed' = Handed
<1>0. received \in Nat /\ (msg # None <=> readerPC \in {"dispatch", "onStart", "sendReset", "exec"})
  BY BoundsAssumption DEF IInv, TypeOK
<1>1. CASE ReadSide
  BY <1>0, <1>1, NamesApart
     DEF Handed, ReadSide, ReaderStep, ReaderRejects, ReaderGets, ReaderCheck, ReaderFails,
         ReaderEnds, DispatchStart, OnStreamStartOk, OnStreamStartErr, ReaderSendReset,
         DispatchExec, DispatchExecReturns, DispatchDropped, DispatchSync, Dispatched
<1>2. CASE ~ReadSide
  <2>1. UNCHANGED <<msg, received>>
    BY <1>2, Steps, RunFrame, WorkerFrame, StopFrame, LocalFrame, PeerFrame DEF vars, readVars
  <2> QED BY <1>0, <1>2, <2>1 DEF Handed
<1> QED BY <1>1, <1>2

(* One step: who takes, who queues, who starts.                            *)
LEMMA QueueSteps ==
    ASSUME IInv, [Next]_vars
    PROVE  /\ \/ UNCHANGED <<chExec, current, lastData>>
              \/ DispatchExecReturns
              \/ \E w \in Workers : Take(w) \/ OnDataOk(w) \/ FnReturn(w)
           /\ \/ UNCHANGED <<status, owner>>
              \/ \E w \in Workers : Exit(w)
              \/ \E w \in Workers : DispatchStart(w)
              \/ \E w \in Workers, s \in StreamIDs : LocalStart(s, w)
<1>1. CASE RunSide
  BY <1>1, RunFrame
<1>2. CASE ReadSide
  BY <1>2 DEF ReadSide, ReaderStep, ReaderRejects, ReaderGets, ReaderCheck, ReaderFails,
     ReaderEnds, DispatchStart, OnStreamStartOk, OnStreamStartErr, ReaderSendReset, DispatchExec,
     DispatchExecReturns, DispatchDropped, DispatchSync, WM!Start, WM!Stop, WM!ExecLookup,
     WM!ExecSend, WM!workerVars, wmVars
<1>3. ASSUME NEW w \in Workers, WorkerStep(w)
      PROVE  /\ \/ UNCHANGED <<chExec, current, lastData>>
                \/ Take(w) \/ OnDataOk(w) \/ FnReturn(w)
             /\ UNCHANGED <<status, owner>> \/ Exit(w)
  BY <1>3 DEF WorkerStep, Take, OnDataOk, FnStop, FnReturn, Exit, WM!WorkerTake, WM!WorkerFinish,
     WM!WorkerExit, WM!Stop, WM!workerVars
<1>4. ASSUME NEW w \in Workers, LocalSide(w)
      PROVE  /\ UNCHANGED <<chExec, current, lastData>>
             /\ UNCHANGED <<status, owner>> \/ \E s \in StreamIDs : LocalStart(s, w)
  BY <1>4, LocalFrame DEF LocalSide, LocalStep, LocalStartSent, LocalStartFails, LocalReset,
     LocalResetSent, WM!Stop, WM!workerVars, wmVars
<1>5. StopGoroutine \/ (\E s \in StreamIDs : PeerGetsReset(s)) \/ UNCHANGED vars =>
         UNCHANGED <<chExec, current, lastData, status, owner>>
  BY StopFrame, PeerFrame DEF vars, wmVars
<1> QED BY <1>1, <1>2, <1>3, <1>4, <1>5, Steps

(* A worker that starts has no messages.                                   *)
LEMMA StartsEmpty ==
    ASSUME IInv, [Next]_vars, NEW w \in Workers, status'[w] = "running"
    PROVE  \/ status[w] = "running" /\ owner'[w] = owner[w]
           \/ chExec[w] = <<>> /\ current[w] = None
<1>0. /\ owner \in [Workers -> StreamIDs \cup {None}]
      /\ status \in [Workers -> {"new", "running", "terminated"}]
      /\ status[w] = "new" => chExec[w] = <<>> /\ current[w] = None
  BY DEF IInv, Control, QueuesOK, P!IInv, P!TypeOK, P!LifeInv
<1>1. ASSUME NEW v \in Workers, NEW s, WM!Start(s, v)
      PROVE  \/ status[w] = "running" /\ owner'[w] = owner[w]
             \/ chExec[w] = <<>> /\ current[w] = None
  BY <1>0, <1>1 DEF WM!Start
<1>2. ASSUME NEW v \in Workers, Exit(v) PROVE status[w] = "running" /\ owner'[w] = owner[w]
  BY <1>0, <1>2 DEF Exit, WM!WorkerExit
<1> QED BY <1>0, <1>1, <1>2, QueueSteps DEF DispatchStart, LocalStart, WM!StartLocal

(* The order survives a step, when nobody else uses the StreamID.          *)
LEMMA OrderStep ==
    ASSUME ~ReuseUnsettled, IInv, OrderInv, [Next]_vars
    PROVE  OrderInv'
<1> USE QueueTypes DEF OrderInv, OrderOf
<1>0. \A w \in Workers : current[w] # None => ForWorker(current[w], w)
  BY DEF IInv, Control, QueuesOK
<1>h. Handed' \in Int /\ Handed' >= Handed
  <2>1. IInv'
    BY Inductive
  <2>2. received' \in Nat
    BY <2>1, BoundsAssumption DEF IInv, TypeOK
  <2> QED BY <2>2, HandedGrows DEF Handed
<1>1. CASE UNCHANGED <<chExec, current, lastData>>
  <2> SUFFICES ASSUME NEW w \in Workers PROVE OrderOf(w)'
    BY <1>1, <1>h
  <2> QED BY <1>1, <1>h, StartsEmpty
<1>2. CASE DispatchExecReturns
  <2>1. /\ chExec' = [chExec EXCEPT ![sending] = Append(@, msg)]
        /\ UNCHANGED <<status, owner, current, lastData, received>> /\ msg' = None
        /\ sending \in Workers
    <3>1. sendFunc = msg /\ sending \in Workers
      BY <1>2 DEF DispatchExecReturns, IInv, Control, ReaderOK, WM!ExecSend, P!IInv, P!TypeOK
    <3> QED BY <1>2, <3>1 DEF DispatchExecReturns, WM!ExecSend, ReaderUnchanged, Dispatched
  <2>2. msg \in Message /\ msg.seq = received /\ Handed = received - 1 /\ Handed' = received
    <3>1. msg # None /\ msg \in Message
      BY <1>2 DEF DispatchExecReturns, IInv, TypeOK
    <3> QED BY <2>1, <3>1 DEF IInv, Control, ReaderOK, Handed
  <2>3. chExec \in [Workers -> Seq(Message)]
    BY DEF IInv, P!IInv, P!TypeOK
  <2>4. ASSUME NEW w \in Workers, w # sending PROVE OrderOf(w)'
    BY <2>1, <2>2, <2>3, <2>4
  <2>5. ASSUME NEW w \in Workers, w = sending PROVE OrderOf(w)'
    <3>1. /\ Len(chExec'[w]) = Len(chExec[w]) + 1
          /\ \A i \in 1..Len(chExec[w]) : chExec'[w][i] = chExec[w][i]
          /\ chExec'[w][Len(chExec[w]) + 1] = msg
      BY <2>1, <2>2, <2>3, <2>5
    <3>2. Len(chExec[w]) \in Nat /\ Handed \in Int /\ Handed' = Handed + 1
      BY <2>2
    <3>3. status[w] = "running" => lastData'[owner'[w]] < msg.seq
      BY <2>1, <2>2
    <3>4. ASSUME NEW i \in 1..Len(chExec[w])
          PROVE  /\ chExec'[w][i].seq <= Handed'
                 /\ \A j \in 1..(i - 1) : chExec'[w][j].seq < chExec'[w][i].seq
                 /\ status[w] = "running" => lastData'[owner'[w]] < chExec'[w][i].seq
      BY <2>1, <3>1, <3>2
    <3>5. ASSUME NEW j \in 1..Len(chExec[w]) PROVE chExec'[w][j].seq < msg.seq
      <4>1. chExec'[w][j] = chExec[w][j] /\ chExec[w][j] \in Message
        BY <3>1
      <4>2. chExec[w][j].seq <= Handed /\ chExec[w][j].seq \in Nat
        BY <4>1
      <4> QED BY <2>2, <4>1, <4>2
    <3>6. current[w] # None => current[w].seq <= Handed'
      BY <3>2
    <3>7. ASSUME NEW i \in 1..Len(chExec'[w])
          PROVE  /\ chExec'[w][i].seq <= Handed'
                 /\ \A j \in 1..(i - 1) : chExec'[w][j].seq < chExec'[w][i].seq
                 /\ status[w] = "running" => lastData'[owner'[w]] < chExec'[w][i].seq
      <4>1. CASE i \in 1..Len(chExec[w])
        BY <3>4, <4>1
      <4>2. CASE i = Len(chExec[w]) + 1
        <5>1. i - 1 = Len(chExec[w]) /\ chExec'[w][i] = msg /\ msg.seq <= Handed'
          BY <2>2, <3>1, <3>2, <4>2
        <5> QED BY <3>3, <3>5, <5>1
      <4> QED BY <3>1, <3>2, <3>7, <4>1, <4>2
    <3> QED BY <2>1, <3>6, <3>7
  <2> QED BY <2>1, <2>2, <2>4, <2>5
<1>3. ASSUME NEW w \in Workers, Take(w) PROVE OrderInv'
  <2> DEFINE m == Head(chExec[w])
  <2>1. /\ status[w] = "running" /\ chExec[w] # <<>> /\ current' = [current EXCEPT ![w] = m]
        /\ chExec' = [chExec EXCEPT ![w] = Tail(@)]
        /\ UNCHANGED <<status, owner, msg, received>>
    BY <1>3 DEF Take, WM!WorkerTake, FnUnchanged, readVars
  <2>2. /\ m = chExec[w][1] /\ m \in Message /\ m.seq <= Handed /\ m.stream = owner[w]
        /\ lastData[owner[w]] < m.seq
    BY <2>1 DEF IInv, Control, QueuesOK, ForWorker
  <2>3. /\ current \in [Workers -> Message \cup {None}] /\ chExec \in [Workers -> Seq(Message)]
        /\ lastData \in [StreamIDs -> 0..MaxMessages]
    BY DEF IInv, P!IInv, P!TypeOK, TypeOK
  <2>4. current'[w] = m
    BY <2>1, <2>3
  <2>5. lastData' = lastData \/ lastData' = [lastData EXCEPT ![owner[w]] = m.seq]
    BY <1>3, <2>2, <2>4 DEF Take
  <2>6. Handed' = Handed
    BY <2>1 DEF Handed
  <2>7. \A v \in Workers : v # w /\ status[v] = "running" => owner[v] # owner[w]
    BY <2>1, AllSettled DEF IInv
  <2> HIDE DEF m
  <2>8. \A s \in StreamIDs : lastData'[s] <= Handed'
    BY <2>2, <2>3, <2>5, <2>6
  <2>9. ASSUME NEW v \in Workers, v # w PROVE OrderOf(v)'
    <3>1. status[v] = "running" => lastData'[owner[v]] = lastData[owner[v]]
      BY <2>3, <2>5, <2>7, <2>9
    <3>2. chExec'[v] = chExec[v] /\ current'[v] = current[v] /\ status'[v] = status[v]
          /\ owner'[v] = owner[v]
      BY <2>1, <2>3, <2>9
    <3> QED BY <2>6, <3>1, <3>2
  <2>10. OrderOf(w)'
    <3>1. /\ Len(chExec'[w]) = Len(chExec[w]) - 1
          /\ \A i \in 1..Len(chExec'[w]) : chExec'[w][i] = chExec[w][i + 1]
      BY <2>1, <2>3
    <3>2. \A i \in 1..Len(chExec[w]) : i > 1 => m.seq < chExec[w][i].seq
      BY <2>2
    <3>3. lastData'[owner[w]] <= m.seq
      BY <2>1, <2>2, <2>3, <2>5
    <3>4. lastData'[owner[w]] \in Nat /\ m.seq \in Nat /\ Len(chExec[w]) \in Nat
      BY <2>1, <2>2, <2>3, <2>5
    <3>5. ASSUME NEW i \in 1..Len(chExec'[w])
          PROVE  /\ chExec'[w][i].seq <= Handed'
                 /\ \A j \in 1..(i - 1) : chExec'[w][j].seq < chExec'[w][i].seq
                 /\ lastData'[owner[w]] < chExec'[w][i].seq
      <4>1. i + 1 \in 1..Len(chExec[w]) /\ chExec'[w][i] = chExec[w][i + 1]
        BY <3>1, <3>4
      <4>2. chExec[w][i + 1].seq \in Nat /\ m.seq < chExec[w][i + 1].seq
        BY <3>2, <4>1
      <4>3. ASSUME NEW j \in 1..(i - 1) PROVE chExec'[w][j].seq < chExec'[w][i].seq
        <5>1. j \in 1..Len(chExec'[w]) /\ j + 1 \in 1..((i + 1) - 1)
          BY <3>1, <3>4
        <5> QED BY <3>1, <4>1, <5>1
      <4> QED BY <2>6, <3>3, <3>4, <4>1, <4>2, <4>3
    <3> QED BY <2>1, <2>2, <2>4, <2>6, <3>5
  <2> QED BY <2>8, <2>9, <2>10
<1>4. ASSUME NEW w \in Workers, OnDataOk(w) \/ FnReturn(w) PROVE OrderInv'
  <2>1. /\ UNCHANGED <<chExec, lastData, status, owner>>
        /\ current' = [current EXCEPT ![w] = None] /\ current \in [Workers -> Message \cup {None}]
    BY <1>4 DEF OnDataOk, FnReturn, WM!WorkerFinish, IInv, P!IInv, P!TypeOK
  <2> QED BY <1>h, <2>1
<1> QED BY <1>1, <1>2, <1>3, <1>4, QueueSteps

(* It holds always.                                                        *)
LEMMA OrderHolds == ASSUME ~ReuseUnsettled PROVE Spec => []OrderInv
<1>1. Init => OrderInv
  <2> SUFFICES ASSUME Init PROVE OrderInv
    OBVIOUS
  <2>1. P!Init
    BY SameManager DEF Init
  <2>2. \A w \in Workers : chExec[w] = <<>> /\ current[w] = None
    BY <2>1 DEF P!Init
  <2>3. Handed = 0 /\ \A s \in StreamIDs : lastData[s] = 0
    BY DEF Init, Handed
  <2> QED BY <2>2, <2>3 DEF OrderInv, OrderOf
<1>2. IInv /\ OrderInv /\ [Next]_vars => OrderInv'
  BY OrderStep
<1> QED BY <1>1, <1>2, IInvHolds, PTL DEF Spec

(* awsclient.go:423-442: OnData is called in the order the Data messages   *)
(* of a stream arrived and for one of them at a time, if a peer starts a   *)
(* StreamID again only once it settled.                                    *)
THEOREM DataOrdered == ASSUME ~ReuseUnsettled PROVE Spec => DataInOrder
<1>1. ASSUME IInv, OrderInv, [Next]_vars, NEW w \in Workers, OnData(w)', current'[w] # current[w]
      PROVE  /\ current'[w].seq > lastData[current'[w].stream]
             /\ \A v \in Workers \ {w} : OnData(v)' => current'[v].stream # current'[w].stream
  <2>0. current \in [Workers -> Message \cup {None}] /\ chExec \in [Workers -> Seq(Message)]
        /\ fnPC \in [Workers -> {"idle", "called", "stopped"}]
    BY <1>1 DEF IInv, P!IInv, P!TypeOK, TypeOK
  <2>1. Take(w)
    <3>1. ASSUME NEW v \in Workers, OnDataOk(v) \/ FnReturn(v) PROVE FALSE
      <4>1. current' = [current EXCEPT ![v] = None] /\ fnPC' = [fnPC EXCEPT ![v] = "idle"]
        BY <3>1 DEF OnDataOk, FnReturn, WM!WorkerFinish
      <4> QED BY <1>1, <2>0, <4>1 DEF OnData
    <3>2. ASSUME NEW v \in Workers, Take(v) PROVE v = w
      BY <1>1, <2>0, <3>2 DEF Take, WM!WorkerTake
    <3>3. DispatchExecReturns => UNCHANGED current
      BY DEF DispatchExecReturns, WM!ExecSend
    <3> QED BY <1>1, <3>1, <3>2, <3>3, QueueSteps
  <2>2. /\ status[w] = "running" /\ chExec[w] # <<>>
        /\ current' = [current EXCEPT ![w] = Head(chExec[w])]
    BY <2>1 DEF Take, WM!WorkerTake
  <2>3. /\ current'[w] = chExec[w][1] /\ current'[w].stream = owner[w]
        /\ lastData[owner[w]] < current'[w].seq /\ current'[w].seq \in Nat
        /\ lastData[owner[w]] \in Nat
    BY <1>1, <2>0, <2>2, QueueTypes DEF OrderInv, OrderOf, IInv, Control, QueuesOK, ForWorker
  <2>4. ASSUME NEW v \in Workers \ {w}, OnData(v)' PROVE current'[v].stream # owner[w]
    <3>1. current'[v] = current[v] /\ fnPC'[v] = fnPC[v]
      BY <2>0, <2>1, <2>2 DEF Take
    <3>2. current[v] # None
      BY <1>1, <2>4, <3>1 DEF OnData, IInv, TypeOK
    <3>3. status[v] = "running" /\ current[v].stream = owner[v]
      BY <1>1, <3>2 DEF IInv, Control, QueuesOK, ForWorker, P!IInv, P!LifeInv
    <3> QED BY <1>1, <2>2, <3>1, <3>3, AllSettled DEF IInv
  <2> QED BY <2>3, <2>4
<1>2. IInv /\ OrderInv /\ [Next]_vars =>
        [\A w \in Workers :
          OnData(w)' /\ current'[w] # current[w] =>
              /\ current'[w].seq > lastData[current'[w].stream]
              /\ \A v \in Workers \ {w} : OnData(v)' => current'[v].stream # current'[w].stream]_vars
  BY <1>1
<1> QED BY <1>2, IInvHolds, OrderHolds, PTL DEF Spec, DataInOrder

-----------------------------------------------------------------------------
(* What a worker still has to do, or does.                                 *)
Messages(w) == {chExec[w][i] : i \in 1..Len(chExec[w])} \cup ({current[w]} \ {None})

Holds(w) == status[w] = "running" /\ Messages(w) # {}
Old(w) == status[w] = "running" /\ \E m \in Messages(w) : m.seq < firstSeq
New(w) == status[w] = "running" /\ \E m \in Messages(w) : m.seq >= firstSeq

(* A stop goroutine waits for it and keeps the lock.                       *)
StopsNow(w) == stopping # None /\ workerMap[stopping] = w

(* What an earlier session left is being stopped, and while it is, this    *)
(* session hands out nothing.                                              *)
SessionInv ==
    /\ runPC \in {"dial", "backoff", "returned"} => \A w \in Workers : Holds(w) => StopsNow(w)
    /\ InSession \/ runPC = "sweep" => \A w \in Workers : Old(w) => StopsNow(w)
    /\ runPC = "sweep" =>
          \A w \in Workers : Holds(w) => w \in sweepTodo \/ w = sweepWait \/ StopsNow(w)
    /\ \A v, w \in Workers : ~(Old(v) /\ New(w))

(* Only the reader gives a worker a message, and never while a stop        *)
(* goroutine waits.                                                        *)
LEMMA MessageSteps ==
    ASSUME IInv, [Next]_vars, NEW w \in Workers
    PROVE  \/ Messages(w)' \subseteq Messages(w)
           \/ /\ DispatchExecReturns /\ w = sending /\ stopping = None
              /\ msg.seq >= firstSeq /\ msg \in Message
              /\ Messages(w)' \subseteq Messages(w) \cup {msg}
<1>0. /\ chExec \in [Workers -> Seq(Message)] /\ current \in [Workers -> Message \cup {None}]
      /\ None \notin Message
  BY NamesApart DEF IInv, P!IInv, P!TypeOK
<1>1. CASE UNCHANGED <<chExec, current, lastData>>
  BY <1>1 DEF Messages
<1>2. CASE DispatchExecReturns
  <2>1. /\ chExec' = [chExec EXCEPT ![sending] = Append(@, msg)] /\ sending \in Workers
        /\ UNCHANGED current /\ stopping = None
        /\ msg \in Message /\ msg.seq >= firstSeq
    BY <1>2 DEF DispatchExecReturns, IInv, TypeOK, Control, ReaderOK, WM!ExecSend, P!IInv,
       P!TypeOK, P!LockInv
  <2>2. CASE w # sending
    BY <1>0, <2>1, <2>2 DEF Messages
  <2>3. CASE w = sending
    <3>1. /\ chExec'[w] = Append(chExec[w], msg) /\ chExec[w] \in Seq(Message)
          /\ current'[w] = current[w]
      BY <1>0, <2>1, <2>3
    <3>2. /\ Len(chExec'[w]) = Len(chExec[w]) + 1 /\ Len(chExec[w]) \in Nat
          /\ \A i \in 1..Len(chExec[w]) : chExec'[w][i] = chExec[w][i]
          /\ chExec'[w][Len(chExec[w]) + 1] = msg
      BY <2>1, <3>1
    <3>3. ASSUME NEW i \in 1..Len(chExec'[w])
          PROVE  chExec'[w][i] \in {chExec[w][j] : j \in 1..Len(chExec[w])} \cup {msg}
      <4>1. i \in 1..Len(chExec[w]) \/ i = Len(chExec[w]) + 1
        BY <3>2, <3>3
      <4> QED BY <3>2, <4>1
    <3>4. Messages(w)' \subseteq Messages(w) \cup {msg}
      BY <3>1, <3>3 DEF Messages
    <3> QED BY <1>2, <2>1, <2>3, <3>4
  <2> QED BY <2>2, <2>3
<1>3. ASSUME NEW v \in Workers, Take(v) PROVE Messages(w)' \subseteq Messages(w)
  <2>1. /\ chExec[v] # <<>> /\ current' = [current EXCEPT ![v] = Head(chExec[v])]
        /\ chExec' = [chExec EXCEPT ![v] = Tail(@)]
    BY <1>3 DEF Take, WM!WorkerTake
  <2>2. CASE v # w
    BY <1>0, <2>1, <2>2 DEF Messages
  <2>3. CASE v = w
    <3>1. /\ Len(chExec'[w]) = Len(chExec[w]) - 1 /\ Len(chExec[w]) \in Nat
          /\ \A i \in 1..Len(chExec'[w]) : chExec'[w][i] = chExec[w][i + 1]
          /\ current'[w] = chExec[w][1] /\ 1 \in 1..Len(chExec[w])
      BY <1>0, <2>1, <2>3
    <3>2. \A i \in 1..Len(chExec'[w]) : i + 1 \in 1..Len(chExec[w])
      BY <3>1
    <3> QED BY <3>1, <3>2 DEF Messages
  <2> QED BY <2>2, <2>3
<1>4. ASSUME NEW v \in Workers, OnDataOk(v) \/ FnReturn(v)
      PROVE  Messages(w)' \subseteq Messages(w)
  BY <1>0, <1>4 DEF OnDataOk, FnReturn, WM!WorkerFinish, Messages
<1> QED BY <1>1, <1>2, <1>3, <1>4, QueueSteps

(* A worker that has messages had them, or the reader gave it one.         *)
LEMMA HoldsSteps ==
    ASSUME IInv, [Next]_vars, NEW w \in Workers, Holds(w)'
    PROVE  \/ Messages(w)' \subseteq Messages(w) /\ Holds(w)
           \/ /\ DispatchExecReturns /\ w = sending /\ stopping = None /\ status[w] = "running"
              /\ msg.seq >= firstSeq /\ msg \in Message
              /\ Messages(w)' \subseteq Messages(w) \cup {msg}
<1>1. Messages(w)' # {} /\ status'[w] = "running"
  BY DEF Holds
<1>2. status[w] = "running" \/ Messages(w) = {}
  <2>1. chExec[w] = <<>> /\ current[w] = None => Messages(w) = {}
    BY DEF Messages
  <2> QED BY <1>1, <2>1, StartsEmpty
<1>3. DispatchExecReturns => status'[w] = status[w]
  BY DEF DispatchExecReturns, WM!ExecSend
<1> QED BY <1>1, <1>2, <1>3, MessageSteps DEF Holds

(* A stop goroutine waits until its worker has ended.                      *)
LEMMA StopsNowStays ==
    ASSUME IInv, [Next]_vars, NEW w \in Workers, StopsNow(w), status'[w] = "running"
    PROVE  StopsNow(w)'
<1>0. /\ status \in [Workers -> {"new", "running", "terminated"}]
      /\ workerMap \in [StreamIDs -> Workers \cup {None}]
      /\ stopping # None /\ workerMap[stopping] = w
      /\ ~WM!CanLock
  BY DEF IInv, P!IInv, P!TypeOK, StopsNow, WM!CanLock
<1>1. CASE ReadSide
  <2>1. \A v \in Workers : ~DispatchStart(v)
    BY <1>0 DEF DispatchStart, WM!Start
  <2>2. UNCHANGED <<workerMap, stopping>>
    BY <1>1, <2>1, ReadFrame
       DEF ReadSide, ReaderStep, ReaderRejects, ReaderGets, ReaderCheck, ReaderFails,
           ReaderEnds, OnStreamStartOk, OnStreamStartErr, ReaderSendReset, DispatchExec,
           DispatchExecReturns, DispatchDropped, DispatchSync, WM!Stop, WM!ExecLookup,
           WM!ExecSend, wmVars
  <2> QED BY <1>0, <2>2 DEF StopsNow
<1>2. ASSUME NEW v \in Workers, LocalSide(v) PROVE StopsNow(w)'
  <2>1. \A s \in StreamIDs : ~LocalStart(s, v)
    BY <1>0 DEF LocalStart, WM!StartLocal, WM!Start
  <2>2. UNCHANGED <<workerMap, stopping>>
    BY <1>2, <2>1, LocalFrame
       DEF LocalSide, LocalStep, LocalStartSent, LocalStartFails, LocalReset, LocalResetSent,
           WM!Stop, wmVars
  <2> QED BY <1>0, <2>2 DEF StopsNow
<1>3. CASE StopGoroutine
  <2>1. ~WM!StopDone
    BY <1>0, <1>3, StopFrame DEF WM!StopDone, WM!workerVars
  <2> QED BY <1>0, <1>3, <2>1 DEF StopGoroutine, WM!StopStep, WM!StopMissing, WM!StopAgain,
             WM!StopCancel
<1>4. CASE RunSide
  BY <1>0, <1>4, RunFrame DEF StopsNow
<1>5. ASSUME NEW v \in Workers, WorkerStep(v) PROVE StopsNow(w)'
  BY <1>0, <1>5, WorkerFrame DEF StopsNow
<1>6. ASSUME NEW s \in StreamIDs, PeerGetsReset(s) PROVE StopsNow(w)'
  BY <1>0, <1>6, PeerFrame DEF StopsNow, wmVars
<1>7. CASE UNCHANGED vars
  BY <1>0, <1>7 DEF StopsNow, vars, wmVars
<1> QED BY <1>1, <1>2, <1>3, <1>4, <1>5, <1>6, <1>7, Steps

(* Run moves from one part of SessionInv to the next.                      *)
LEMMA SessionRun ==
    ASSUME ~ReuseUnsettled, IInv, OrderInv, SessionInv, RunSide
    PROVE  SessionInv'
<1>0. /\ P!SettledInv /\ P!CancelInv /\ P!RegInv
      /\ runPC \in {"dial", "handlers", "wait", "waitReader", "waitPing", "sweep", "backoff",
                    "returned"}
      /\ sweepOn <=> runPC = "sweep"
      /\ stopping # None => stopping \in StreamIDs
      /\ workerMap \in [StreamIDs -> Workers \cup {None}] /\ None \notin Workers
      /\ owner \in [Workers -> StreamIDs \cup {None}]
  BY NamesApart DEF IInv, P!IInv, P!TypeOK, TypeOK, Control, RunOK
<1>1. /\ UNCHANGED <<chExec, current, status, workerMap, stopping>>
      /\ \A w \in Workers : (Holds(w)' <=> Holds(w)) /\ (StopsNow(w)' <=> StopsNow(w))
      /\ \A w \in Workers : (Old(w) => Holds(w)) /\ (Old(w)' => Holds(w))
  BY RunFrame DEF Holds, Old, StopsNow, Messages
<1>2. CASE DialOk
  <2>1. firstSeq' = received + 1 /\ runPC = "dial" /\ runPC' = "handlers"
    BY <1>2 DEF DialOk
  <2>2. Handed = received /\ received \in Nat
    BY <2>1, BoundsAssumption DEF IInv, Control, RunOK, TypeOK, Handed
  <2>3. ASSUME NEW w \in Workers PROVE ~New(w)'
    <3>1. ASSUME NEW m \in Messages(w) PROVE m.seq \in Nat /\ m.seq <= received
      BY <2>2, <3>1, QueueTypes DEF Messages, OrderInv, OrderOf
    <3>2. Messages(w)' = Messages(w)
      BY <1>1 DEF Messages
    <3> QED BY <2>1, <2>2, <3>1, <3>2 DEF New
  <2> QED BY <1>1, <2>1, <2>3 DEF SessionInv
<1>3. ASSUME UNCHANGED firstSeq
      PROVE  \A w \in Workers : (Old(w)' <=> Old(w)) /\ (New(w)' <=> New(w))
  BY <1>1, <1>3 DEF Old, New, Messages
<1>4. CASE DialRetry \/ DialRefused \/ BackoffCtx \/ BackoffOver
  <2>1. /\ runPC \in {"dial", "backoff", "returned"} /\ runPC' \in {"dial", "backoff", "returned"}
        /\ UNCHANGED firstSeq
    BY <1>4 DEF DialRetry, DialRefused, BackoffCtx, BackoffOver
  <2> QED BY <1>1, <1>3, <2>1 DEF SessionInv, InSession
<1>5. CASE Spawn \/ WaitCtx \/ WaitReader \/ WaitErr
  <2>1. InSession /\ InSession' /\ UNCHANGED firstSeq
    BY <1>5 DEF Spawn, WaitCtx, WaitReader, WaitErr, InSession
  <2> QED BY <1>1, <1>3, <2>1 DEF SessionInv, InSession
<1>6. CASE CancelCtx \/ Drop \/ PingEnds
  <2>1. UNCHANGED <<runPC, firstSeq, sweepTodo, sweepWait>>
    BY <1>6 DEF CancelCtx, Drop, PingEnds, runVars, wmVars
  <2> QED BY <1>1, <1>3, <2>1 DEF SessionInv, InSession
<1>7. CASE WaitPing
  <2>1. /\ runPC = "waitPing" /\ runPC' = "sweep" /\ UNCHANGED <<firstSeq, sweepWait>>
        /\ sweepTodo' = {workerMap[s] : s \in StreamIDs} \ {None}
    BY <1>7 DEF WaitPing, WM!Snapshot
  <2>2. ASSUME NEW w \in Workers, Holds(w) PROVE w \in sweepTodo'
    <3>1. sweepWait = None /\ status[w] = "running"
      BY <1>0, <2>1, <2>2 DEF P!SettledInv, P!SweepInv, Holds
    <3>2. P!Registered(w)
      BY <1>0, <3>1, AllSettled
    <3> QED BY <1>0, <2>1, <3>2 DEF P!Registered
  <2> QED BY <1>1, <1>3, <2>1, <2>2 DEF SessionInv, InSession
<1>8. CASE SweepDone
  <2>1. runPC = "sweep" /\ runPC' \in {"backoff", "returned"} /\ UNCHANGED firstSeq
        /\ sweepTodo = {} /\ sweepWait = None
    BY <1>0, <1>8 DEF SweepDone, WM!StopAllDone
  <2> QED BY <1>0, <1>1, <1>3, <2>1 DEF SessionInv, InSession
<1>9. CASE SweepWorkers
  <2>1. UNCHANGED <<firstSeq, runPC>>
    BY <1>9 DEF SweepWorkers, runVars
  <2>2. ASSUME NEW w \in Workers, Holds(w), runPC = "sweep"
        PROVE  w \in sweepTodo' \/ w = sweepWait' \/ StopsNow(w)
    <3>0. (w \in sweepTodo \/ w = sweepWait \/ StopsNow(w)) /\ status[w] = "running"
      BY <2>2 DEF SessionInv, Holds
    <3>1. ASSUME NEW v \in Workers, WM!StopAllCancel(v)
          PROVE  w \in sweepTodo' \/ w = sweepWait' \/ StopsNow(w)
      BY <1>0, <3>0, <3>1 DEF WM!StopAllCancel
    <3>2. ASSUME NEW v \in Workers, WM!StopAllSkip(v)
          PROVE  w \in sweepTodo' \/ w = sweepWait' \/ StopsNow(w)
      <4>1. w # v => w \in sweepTodo' \/ w = sweepWait' \/ StopsNow(w)
        BY <3>0, <3>2 DEF WM!StopAllSkip
      <4>2. w = v => StopsNow(w)
        <5> SUFFICES ASSUME w = v PROVE StopsNow(w)
          OBVIOUS
        <5>1. sweepWait = None /\ cancelled[w]
          BY <3>2 DEF WM!StopAllSkip
        <5>2. PICK s \in StreamIDs : workerMap[s] = w
          BY <1>0, <3>0, <5>1, AllSettled DEF P!Registered
        <5>3. w \notin swept
          BY <1>0, <3>0, <5>1 DEF P!SettledInv, P!SweepInv
        <5>4. stopping = s
          BY <1>0, <5>1, <5>2, <5>3 DEF P!CancelInv
        <5> QED BY <5>2, <5>4, NamesApart DEF StopsNow
      <4> QED BY <4>1, <4>2
    <3>3. CASE WM!StopAllWaited
      BY <3>0, <3>3 DEF WM!StopAllWaited
    <3> QED BY <1>9, <3>1, <3>2, <3>3 DEF SweepWorkers
  <2> QED BY <1>1, <1>3, <2>1, <2>2 DEF SessionInv, InSession
<1> QED BY <1>2, <1>4, <1>5, <1>6, <1>7, <1>8, <1>9 DEF RunSide, RunStep

(* The others only finish what they have, or the reader hands out what     *)
(* this session received, when nobody is being stopped.                    *)
LEMMA SessionRest ==
    ASSUME ~ReuseUnsettled, IInv, OrderInv, SessionInv, [Next]_vars, ~RunSide
    PROVE  SessionInv'
<1>1. UNCHANGED <<runPC, firstSeq, sweepTodo, sweepWait>>
  BY Steps, ReadFrame, WorkerFrame, StopFrame, LocalFrame, PeerFrame DEF vars, wmVars, runVars
<1>2. ASSUME NEW w \in Workers, StopsNow(w), Holds(w)' PROVE StopsNow(w)'
  BY <1>2, StopsNowStays DEF Holds
<1>3. ASSUME NEW w \in Workers, Old(w)' PROVE Old(w) /\ Holds(w)'
  <2>1. Holds(w)'
    BY <1>3 DEF Old, Holds
  <2>2. PICK m \in Messages(w)' : m.seq < firstSeq
    BY <1>1, <1>3 DEF Old
  <2>3. firstSeq \in Nat
    BY BoundsAssumption DEF IInv, TypeOK
  <2> QED BY <2>1, <2>2, <2>3, HoldsSteps, QueueTypes DEF Old, Holds
<1>4. ASSUME NEW w \in Workers, New(w)' PROVE New(w) \/ (DispatchExecReturns /\ stopping = None)
  <2>1. Holds(w)' /\ \E m \in Messages(w)' : m.seq >= firstSeq
    BY <1>1, <1>4 DEF New, Holds
  <2> QED BY <2>1, HoldsSteps DEF New, Holds
<1>5. DispatchExecReturns => InSession /\ runPC # "sweep"
  BY DEF DispatchExecReturns, IInv, Control, RunOK, TypeOK, InSession
<1>6. ASSUME NEW w \in Workers, Holds(w)' PROVE Holds(w) \/ DispatchExecReturns
  BY <1>6, HoldsSteps
<1>7. runPC \in {"dial", "backoff", "returned"} => ~InSession
  BY DEF InSession
<1>8. /\ runPC \in {"dial", "backoff", "returned"} => \A w \in Workers : Holds(w)' => StopsNow(w)'
      /\ runPC = "sweep" =>
           \A w \in Workers : Holds(w)' => w \in sweepTodo \/ w = sweepWait \/ StopsNow(w)'
      /\ InSession \/ runPC = "sweep" => \A w \in Workers : Old(w)' => StopsNow(w)'
  BY <1>2, <1>3, <1>5, <1>6, <1>7 DEF SessionInv
<1>9. \A v, w \in Workers : ~(Old(v)' /\ New(w)')
  <2>1. ASSUME NEW v \in Workers, Old(v), DispatchExecReturns PROVE stopping # None
    BY <1>5, <2>1 DEF SessionInv, StopsNow
  <2> QED BY <1>3, <1>4, <2>1 DEF SessionInv
<1> QED BY <1>1, <1>8, <1>9 DEF SessionInv, InSession

(* It holds always.                                                        *)
LEMMA SessionHolds == ASSUME ~ReuseUnsettled PROVE Spec => []SessionInv
<1>1. Init => SessionInv
  <2> SUFFICES ASSUME Init PROVE SessionInv
    OBVIOUS
  <2>1. P!Init
    BY SameManager DEF Init
  <2>2. \A w \in Workers : status[w] = "new"
    BY <2>1 DEF P!Init
  <2> QED BY <2>2 DEF SessionInv, Holds, Old
<1>2. IInv /\ OrderInv /\ SessionInv /\ [Next]_vars => SessionInv'
  BY SessionRun, SessionRest
<1> QED BY <1>1, <1>2, IInvHolds, OrderHolds, PTL DEF Spec

(* awsclient.go:279-285: a callback for a message of an earlier session    *)
(* never runs beside one of this one, if a peer starts a StreamID again    *)
(* only once it settled.                                                   *)
THEOREM SessionsKeptApart == ASSUME ~ReuseUnsettled PROVE Spec => []SessionsApart
<1>1. ASSUME IInv, SessionInv PROVE SessionsApart
  <2>1. ASSUME NEW v \in Workers, NEW w \in Workers, current[v] # None, current[w] # None,
               current[v].seq < firstSeq
        PROVE  current[w].seq < firstSeq
    <3>1. status[v] = "running" /\ status[w] = "running"
      BY <1>1, <2>1 DEF IInv, P!IInv, P!LifeInv
    <3>2. current[v] \in Messages(v) /\ current[w] \in Messages(w)
      BY <2>1 DEF Messages
    <3>3. ~(current[w].seq >= firstSeq)
      BY <1>1, <2>1, <3>1, <3>2 DEF SessionInv, Old, New
    <3>4. current[w].seq \in Nat /\ firstSeq \in Nat
      BY <1>1, <2>1, QueueTypes, BoundsAssumption DEF IInv, TypeOK
    <3> QED BY <3>3, <3>4
  <2> QED BY <2>1 DEF SessionsApart
<1> QED BY <1>1, IInvHolds, SessionHolds, PTL

-----------------------------------------------------------------------------
(* Only a worker that was cancelled has ended.                             *)
EndedOK == \A w \in Workers : status[w] = "terminated" => cancelled[w]

(* A step keeps it.                                                        *)
LEMMA EndedKeeps == ASSUME IInv, EndedOK, [Next]_vars PROVE EndedOK'
<1> USE DEF EndedOK
<1>0. /\ cancelled \in [Workers -> BOOLEAN]
      /\ status \in [Workers -> {"new", "running", "terminated"}]
  BY DEF IInv, P!IInv, P!TypeOK
<1>1. \A w \in Workers : cancelled[w] => cancelled'[w]
  <2>1. RunSide => \A w \in Workers : cancelled[w] => cancelled'[w]
    BY <1>0 DEF RunSide, CancelCtx, Drop, RunStep, PingEnds, DialOk, DialRetry, DialRefused, Spawn,
       WaitCtx, WaitReader, WaitErr, WaitPing, SweepWorkers, SweepDone, BackoffCtx, BackoffOver,
       wmVars, WM!Snapshot, WM!StopAllCancel, WM!StopAllSkip, WM!StopAllWaited, WM!StopAllDone,
       WM!workerVars
  <2>2. StopGoroutine => \A w \in Workers : cancelled[w] => cancelled'[w]
    BY <1>0 DEF StopGoroutine, WM!StopStep, WM!StopMissing, WM!StopAgain, WM!StopCancel,
       WM!StopDone, WM!workerVars
  <2> QED BY <2>1, <2>2, Steps, ReadFrame, WorkerFrame, LocalFrame, PeerFrame DEF vars, wmVars
<1>2. ASSUME NEW w \in Workers, Exit(w) PROVE EndedOK'
  BY <1>0, <1>1, <1>2 DEF Exit, WM!WorkerExit
<1>3. ASSUME NEW s, NEW w \in Workers, WM!Start(s, w) PROVE EndedOK'
  BY <1>0, <1>1, <1>3 DEF WM!Start
<1> QED BY <1>0, <1>1, <1>2, <1>3, QueueSteps DEF DispatchStart, LocalStart, WM!StartLocal

(* It holds always.                                                        *)
LEMMA EndedHolds == Spec => []EndedOK
<1>1. Init => EndedOK
  BY SameManager DEF Init, P!Init, EndedOK
<1> QED BY <1>1, EndedKeeps, IInvHolds, PTL DEF Spec

(* What the listener's streams are rests on.                               *)
ListenerInv == ~ReuseUnsettled /\ IInv /\ P!SettledInv /\ EndedOK

(* The types, and one goroutine for each StreamID.                         *)
LEMMA ListenerTypes ==
    ASSUME ListenerInv
    PROVE  /\ workerMap \in [StreamIDs -> Workers \cup {None}]
           /\ owner \in [Workers -> StreamIDs \cup {None}]
           /\ status \in [Workers -> {"new", "running", "terminated"}]
           /\ cancelled \in [Workers -> BOOLEAN]
           /\ chExec \in [Workers -> Seq(Message)]
           /\ current \in [Workers -> Message \cup {None}]
           /\ \A w \in Workers : status[w] = "running" => owner[w] \in StreamIDs
           /\ \A v, w \in Workers :
                 status[v] = "running" /\ status[w] = "running" /\ owner[v] = owner[w] => v = w
           /\ None \notin Message /\ None \notin StreamIDs /\ None \notin Workers
BY NamesApart, AllSettled DEF ListenerInv, IInv, P!IInv, P!TypeOK, P!LifeInv

(* The listener's streams are what the goroutines have.                   *)
StreamsOK ==
    /\ \A w \in Workers : status[w] = "running" =>
          Pending[owner[w]] = chExec[w] /\ Busy[owner[w]] = current[w]
    /\ \A s \in StreamIDs :
          (\A w \in Workers : status[w] = "running" => owner[w] # s) =>
              Pending[s] = <<>> /\ Busy[s] = None
    /\ Pending = [s \in StreamIDs |-> Pending[s]]
    /\ Busy = [s \in StreamIDs |-> Busy[s]]

(* ... because there is one goroutine for each StreamID.                   *)
LEMMA StreamsCorrespond == ListenerInv => StreamsOK
<1> SUFFICES ASSUME ListenerInv PROVE StreamsOK
  OBVIOUS
<1>0. \A v : (CHOOSE u \in {v} : TRUE) = v
  OBVIOUS
<1>1. ASSUME NEW w \in Workers, status[w] = "running"
      PROVE  Pending[owner[w]] = chExec[w] /\ Busy[owner[w]] = current[w]
  <2>1. Goroutines(owner[w]) = {w} /\ owner[w] \in StreamIDs
    BY <1>1, ListenerTypes DEF Goroutines
  <2> QED BY <1>0, <2>1 DEF Pending, Busy, OfGoroutine
<1>2. ASSUME NEW s \in StreamIDs, \A w \in Workers : status[w] = "running" => owner[w] # s
      PROVE  Pending[s] = <<>> /\ Busy[s] = None
  <2>1. Goroutines(s) = {}
    BY <1>2 DEF Goroutines
  <2> QED BY <2>1 DEF Pending, Busy, OfGoroutine
<1>3. Pending = [s \in StreamIDs |-> Pending[s]] /\ Busy = [s \in StreamIDs |-> Busy[s]]
  BY DEF Pending, Busy, OfGoroutine
<1> QED BY <1>1, <1>2, <1>3 DEF StreamsOK

(* So they are after a step.                                               *)
LEMMA StreamsCorrespondNext == ListenerInv' => StreamsOK'
BY StreamsCorrespond, PTL

(* Nothing moves while no goroutine starts, ends or is given anything.     *)
LEMMA StreamsStay ==
    ASSUME ListenerInv, ListenerInv'
    PROVE  /\ UNCHANGED <<status, owner, chExec>> => UNCHANGED Pending
           /\ UNCHANGED <<status, owner, current>> => UNCHANGED Busy
           /\ UNCHANGED <<workerMap, cancelled>> => UNCHANGED OpenStreams
<1> USE StreamsCorrespond, StreamsCorrespondNext DEF StreamsOK
<1>1. ASSUME UNCHANGED <<status, owner, chExec>> PROVE UNCHANGED Pending
  <2>1. \A s \in StreamIDs : Pending'[s] = Pending[s]
    BY <1>1
  <2> QED BY <2>1
<1>2. ASSUME UNCHANGED <<status, owner, current>> PROVE UNCHANGED Busy
  <2>1. \A s \in StreamIDs : Busy'[s] = Busy[s]
    BY <1>2
  <2> QED BY <2>1
<1>3. UNCHANGED <<workerMap, cancelled>> => UNCHANGED OpenStreams
  BY DEF OpenStreams, Served
<1> QED BY <1>1, <1>2, <1>3

-----------------------------------------------------------------------------
(* A worker starts for a StreamID that has no goroutine: the stream opens. *)
LEMMA StartOpens ==
    ASSUME ListenerInv, ListenerInv', NEW s \in StreamIDs, NEW w \in Workers, WM!Start(s, w),
           \A v \in Workers : status[v] = "running" => owner[v] # s,
           UNCHANGED <<msg, received>>
    PROVE  L!Open(s)
<1>0. /\ status[w] = "new" /\ ~cancelled[w] /\ chExec[w] = <<>> /\ current[w] = None
      /\ EndedOK
  BY DEF WM!Start, ListenerInv, IInv, P!IInv, P!LifeInv, Control, QueuesOK
<1>1. /\ workerMap' = [workerMap EXCEPT ![s] = w] /\ owner' = [owner EXCEPT ![w] = s]
      /\ status' = [status EXCEPT ![w] = "running"] /\ UNCHANGED <<cancelled, chExec, current>>
  BY DEF WM!Start
<1>2. s \notin OpenStreams /\ Pending[s] = <<>> /\ Busy[s] = None
  <2>1. ~Served(s)
    <3> SUFFICES ASSUME workerMap[s] # None, ~cancelled[workerMap[s]] PROVE FALSE
      BY DEF Served
    <3>1. workerMap[s] \in Workers /\ owner[workerMap[s]] = s
      BY ListenerTypes DEF ListenerInv, IInv, P!IInv, P!RegInv
    <3>2. status[workerMap[s]] # "new"
      BY <3>1, ListenerTypes DEF ListenerInv, IInv, P!IInv, P!LifeInv
    <3> QED BY <1>0, <3>1, <3>2, ListenerTypes DEF EndedOK
  <2> QED BY <2>1, StreamsCorrespond DEF OpenStreams, StreamsOK
<1>3. OpenStreams' = OpenStreams \cup {s}
  BY <1>0, <1>1, ListenerTypes DEF OpenStreams, Served
<1>4. ASSUME NEW r \in StreamIDs PROVE Pending'[r] = Pending[r] /\ Busy'[r] = Busy[r]
  <2>1. CASE r = s
    <3>1. status'[w] = "running" /\ owner'[w] = s /\ chExec'[w] = <<>> /\ current'[w] = None
      BY <1>0, <1>1, ListenerTypes
    <3> QED BY <1>2, <2>1, <3>1, StreamsCorrespondNext DEF StreamsOK
  <2>2. CASE r # s
    <3>1. \A v \in Workers : status'[v] = "running" /\ owner'[v] = r <=>
                              status[v] = "running" /\ owner[v] = r
      BY <1>0, <1>1, <2>2, ListenerTypes
    <3> QED BY <1>1, <3>1, StreamsCorrespond, StreamsCorrespondNext DEF StreamsOK
  <2> QED BY <2>1, <2>2
<1>5. UNCHANGED <<Pending, Busy>>
  BY <1>4, StreamsCorrespond, StreamsCorrespondNext DEF StreamsOK
<1> QED BY <1>2, <1>3, <1>5 DEF L!Open

(* A worker is cancelled: its stream closes, if it is served at all.       *)
LEMMA CancelCloses ==
    ASSUME ListenerInv, ListenerInv', NEW w \in Workers,
           cancelled' = [cancelled EXCEPT ![w] = TRUE],
           UNCHANGED <<workerMap, owner, status, chExec, current, msg, received>>
    PROVE  L!Close(owner[w]) \/ UNCHANGED L!vars
<1>1. UNCHANGED <<Pending, Busy>>
  BY StreamsStay
<1>2. \A s \in StreamIDs : workerMap[s] = w => s = owner[w]
  BY ListenerTypes DEF ListenerInv, IInv, P!IInv, P!RegInv
<1>3. OpenStreams' = OpenStreams \ {owner[w]} \/ OpenStreams' = OpenStreams
  <2>1. CASE owner[w] \in StreamIDs /\ workerMap[owner[w]] = w
    BY <1>2, <2>1, ListenerTypes DEF OpenStreams, Served
  <2>2. CASE ~(owner[w] \in StreamIDs /\ workerMap[owner[w]] = w)
    BY <1>2, <2>2, ListenerTypes DEF OpenStreams, Served
  <2> QED BY <2>1, <2>2
<1> QED BY <1>1, <1>3 DEF L!Close, L!vars

(* An entry goes: the stream was closed before.                            *)
LEMMA RemoveKeeps ==
    ASSUME ListenerInv, ListenerInv', NEW s \in StreamIDs,
           workerMap[s] # None => cancelled[workerMap[s]],
           workerMap' = [workerMap EXCEPT ![s] = None],
           UNCHANGED <<cancelled, owner, status, chExec, current, msg, received>>
    PROVE  UNCHANGED L!vars
<1>1. UNCHANGED <<Pending, Busy>>
  BY StreamsStay
<1>2. OpenStreams' = OpenStreams
  BY ListenerTypes DEF OpenStreams, Served
<1> QED BY <1>1, <1>2 DEF L!vars

(* A worker takes a function: the callback is called.                      *)
LEMMA TakeCalls ==
    ASSUME ListenerInv, ListenerInv', NEW w \in Workers, WM!WorkerTake(w),
           UNCHANGED <<msg, received>>
    PROVE  L!Call(owner[w])
<1> USE StreamsCorrespond, StreamsCorrespondNext DEF StreamsOK
<1>1. /\ status[w] = "running" /\ current[w] = None /\ chExec[w] # <<>>
      /\ current' = [current EXCEPT ![w] = Head(chExec[w])]
      /\ chExec' = [chExec EXCEPT ![w] = Tail(@)]
      /\ UNCHANGED <<workerMap, owner, status, cancelled>>
  BY DEF WM!WorkerTake
<1>2. /\ owner[w] \in StreamIDs /\ Pending[owner[w]] = chExec[w] /\ Busy[owner[w]] = None
      /\ Pending'[owner[w]] = Tail(chExec[w]) /\ Busy'[owner[w]] = Head(chExec[w])
  BY <1>1, ListenerTypes
<1>3. ASSUME NEW r \in StreamIDs, r # owner[w]
      PROVE  Pending'[r] = Pending[r] /\ Busy'[r] = Busy[r]
  <2>1. \A v \in Workers : owner[v] = r => chExec'[v] = chExec[v] /\ current'[v] = current[v]
    BY <1>1, <1>3, ListenerTypes
  <2> QED BY <1>1, <2>1
<1>4. /\ Pending' = [Pending EXCEPT ![owner[w]] = Tail(@)]
      /\ Busy' = [Busy EXCEPT ![owner[w]] = Head(Pending[owner[w]])]
  BY <1>2, <1>3
<1>5. OpenStreams' = OpenStreams
  BY <1>1, StreamsStay
<1> QED BY <1>1, <1>2, <1>4, <1>5 DEF L!Call

(* The function returns: so does the callback.                             *)
LEMMA FinishReturns ==
    ASSUME ListenerInv, ListenerInv', NEW w \in Workers, WM!WorkerFinish(w),
           UNCHANGED <<msg, received>>
    PROVE  L!Return(owner[w])
<1> USE StreamsCorrespond, StreamsCorrespondNext DEF StreamsOK
<1>1. /\ status[w] = "running" /\ current[w] # None /\ current' = [current EXCEPT ![w] = None]
      /\ UNCHANGED <<workerMap, owner, status, cancelled, chExec>>
  BY DEF WM!WorkerFinish, ListenerInv, IInv, P!IInv, P!LifeInv
<1>2. owner[w] \in StreamIDs /\ Busy[owner[w]] = current[w] /\ Busy'[owner[w]] = None
  BY <1>1, ListenerTypes
<1>3. ASSUME NEW r \in StreamIDs, r # owner[w] PROVE Busy'[r] = Busy[r]
  <2>1. \A v \in Workers : owner[v] = r => current'[v] = current[v]
    BY <1>1, <1>3, ListenerTypes
  <2> QED BY <1>1, <2>1
<1>4. Busy' = [Busy EXCEPT ![owner[w]] = None]
  BY <1>2, <1>3
<1>5. UNCHANGED <<Pending, OpenStreams>>
  BY <1>1, StreamsStay
<1> QED BY <1>1, <1>2, <1>4, <1>5 DEF L!Return

(* A cancelled worker ends: what its stream still had is discarded.        *)
LEMMA ExitDiscards ==
    ASSUME ListenerInv, ListenerInv', NEW w \in Workers, WM!WorkerExit(w),
           UNCHANGED <<msg, received>>
    PROVE  L!Discard(owner[w])
<1> USE StreamsCorrespond, StreamsCorrespondNext DEF StreamsOK
<1>1. /\ status[w] = "running" /\ current[w] = None /\ cancelled[w]
      /\ status' = [status EXCEPT ![w] = "terminated"]
      /\ UNCHANGED <<workerMap, owner, cancelled, chExec, current>>
  BY DEF WM!WorkerExit
<1>2. owner[w] \in StreamIDs /\ Busy[owner[w]] = None
  BY <1>1, ListenerTypes
<1>3. ~Served(owner[w])
  <2> SUFFICES ASSUME workerMap[owner[w]] # None, ~cancelled[workerMap[owner[w]]] PROVE FALSE
    BY DEF Served
  <2>1. workerMap[owner[w]] \in Workers /\ owner[workerMap[owner[w]]] = owner[w]
    BY <1>2, ListenerTypes DEF ListenerInv, IInv, P!IInv, P!RegInv
  <2>2. status[workerMap[owner[w]]] = "running"
    BY <1>2, <2>1, ListenerTypes DEF ListenerInv, EndedOK, IInv, P!IInv, P!LifeInv
  <2> QED BY <1>1, <2>1, <2>2, ListenerTypes
<1>4. \A v \in Workers : status'[v] = "running" <=> status[v] = "running" /\ v # w
  BY <1>1, ListenerTypes
<1>5. Pending'[owner[w]] = <<>> /\ Busy'[owner[w]] = None
  <2>1. \A v \in Workers : status'[v] = "running" => owner'[v] # owner[w]
    BY <1>1, <1>4, ListenerTypes
  <2> QED BY <1>2, <2>1
<1>6. ASSUME NEW r \in StreamIDs, r # owner[w]
      PROVE  Pending'[r] = Pending[r] /\ Busy'[r] = Busy[r]
  <2>1. \A v \in Workers : status'[v] = "running" /\ owner'[v] = r <=>
                            status[v] = "running" /\ owner[v] = r
    BY <1>1, <1>4, <1>6
  <2> QED BY <1>1, <2>1
<1>7. Pending' = [Pending EXCEPT ![owner[w]] = <<>>] /\ Busy' = Busy
  BY <1>2, <1>5, <1>6
<1>8. OpenStreams' = OpenStreams
  BY <1>1, StreamsStay
<1> QED BY <1>2, <1>3, <1>7, <1>8 DEF L!Discard, OpenStreams

(* Nothing that the listener sees moves.                                   *)
LEMMA ListenerStutters ==
    ASSUME ListenerInv, ListenerInv',
           UNCHANGED <<workerMap, owner, status, cancelled, chExec, current, msg, received>>
    PROVE  UNCHANGED L!vars
BY StreamsStay DEF L!vars

(* The reader dispatched a message that no worker gets.                    *)
LEMMA DispatchPasses ==
    ASSUME ListenerInv, ListenerInv', msg # None, msg' = None,
           msg.type \in {"data", "reset"} => ~Served(msg.stream),
           UNCHANGED <<workerMap, owner, status, cancelled, current, received>>,
           \A w \in Workers : status[w] = "running" => chExec'[w] = chExec[w]
    PROVE  L!Pass
<1> USE StreamsCorrespond, StreamsCorrespondNext DEF StreamsOK
<1>1. UNCHANGED <<Busy, OpenStreams>>
  BY StreamsStay
<1>2. \A s \in StreamIDs : Pending'[s] = Pending[s]
  OBVIOUS
<1>3. Pending' = Pending
  BY <1>2
<1> QED BY <1>1, <1>3 DEF L!Pass, L!Dispatch, L!Kept, OpenStreams

(* A worker's channel has room: its stream keeps the message, or the       *)
(* worker was ended by the stopAll of an earlier session.                  *)
LEMMA ExecKeeps ==
    ASSUME ListenerInv, ListenerInv', DispatchExecReturns
    PROVE  L!Keep \/ L!Pass
<1>0. StreamsOK /\ StreamsOK'
  BY StreamsCorrespond, StreamsCorrespondNext
<1> USE <1>0 DEF StreamsOK
<1>1. PICK w \in Workers : w = sending
  BY DEF DispatchExecReturns, WM!ExecSend, ListenerInv, IInv, P!IInv, P!TypeOK
<1>2. /\ chExec' = [chExec EXCEPT ![w] = Append(@, msg)] /\ msg' = None /\ msg # None
      /\ UNCHANGED <<workerMap, owner, status, cancelled, current, received>>
      /\ msg.type \in {"data", "reset"} /\ owner[w] = msg.stream /\ readerPC = "exec"
      /\ workerMap[msg.stream] = w /\ owner[w] \in StreamIDs
  BY <1>1, ListenerTypes
     DEF DispatchExecReturns, WM!ExecSend, ReaderUnchanged, Dispatched, ListenerInv, IInv, TypeOK,
         Control, ReaderOK, P!IInv, P!SendInv, P!Registered
<1>3. CASE status[w] = "running"
  <2>1. ~cancelled[w]
    <3> SUFFICES ASSUME cancelled[w] PROVE FALSE
      OBVIOUS
    <3>1. w \in swept
      <4>1. stopping = None
        BY <1>1, ListenerTypes DEF ListenerInv, IInv, P!IInv, P!LockInv
      <4>2. msg.stream \in StreamIDs /\ workerMap[msg.stream] = w /\ w # None
        BY <1>2, ListenerTypes
      <4>3. P!CancelInv /\ None \notin StreamIDs
        BY ListenerTypes DEF ListenerInv, IInv, P!IInv
      <4> QED BY <4>1, <4>2, <4>3 DEF P!CancelInv
    <3>2. w = sweepWait
      BY <1>3, <3>1 DEF ListenerInv, P!SettledInv, P!SweepInv
    <3>3. sweepOn
      BY <3>2, ListenerTypes DEF ListenerInv, P!SettledInv, P!SweepInv
    <3> QED BY <1>2, <3>3 DEF ListenerInv, IInv, Control, RunOK
  <2>2. /\ Served(msg.stream) /\ Pending[msg.stream] = chExec[w]
        /\ Pending'[msg.stream] = Append(chExec[w], msg)
    <3>1. Served(msg.stream) /\ status'[w] = "running" /\ owner'[w] = msg.stream
      BY <1>2, <1>3, <2>1, ListenerTypes DEF Served
    <3>2. chExec'[w] = Append(chExec[w], msg)
      BY <1>2, ListenerTypes
    <3>3. Pending[owner[w]] = chExec[w] /\ Pending'[owner'[w]] = chExec'[w]
      BY <1>3, <3>1
    <3> QED BY <1>2, <3>1, <3>2, <3>3
  <2>3. ASSUME NEW r \in StreamIDs, r # msg.stream PROVE Pending'[r] = Pending[r]
    <3>1. \A v \in Workers : owner[v] = r => chExec'[v] = chExec[v]
      BY <1>2, <2>3, ListenerTypes
    <3>2. CASE \E v \in Workers : status[v] = "running" /\ owner[v] = r
      <4>1. PICK v \in Workers : status[v] = "running" /\ owner[v] = r
        BY <3>2
      <4>2. status'[v] = "running" /\ owner'[v] = r /\ chExec'[v] = chExec[v]
        BY <1>2, <3>1, <4>1
      <4> QED BY <4>1, <4>2
    <3>3. CASE \A v \in Workers : status[v] = "running" => owner[v] # r
      <4>1. \A v \in Workers : status'[v] = "running" => owner'[v] # r
        BY <1>2, <3>3
      <4> QED BY <3>3, <4>1
    <3> QED BY <3>2, <3>3
  <2>4. Pending' = [Pending EXCEPT ![msg.stream] = Append(@, msg)]
    BY <1>2, <2>2, <2>3
  <2>5. UNCHANGED <<Busy, OpenStreams>>
    BY <1>2, StreamsStay
  <2>6. L!Keep
    BY <1>2, <2>2, <2>4, <2>5 DEF L!Keep, L!Dispatch, L!Kept, OpenStreams
  <2> QED BY <2>6
<1>4. CASE status[w] # "running"
  <2>1. cancelled[w]
    <3>1. status[w] # "new"
      BY <1>2, ListenerTypes DEF ListenerInv, IInv, P!IInv, P!LifeInv
    <3> QED BY <1>4, <3>1, ListenerTypes DEF ListenerInv, EndedOK
  <2>2. ~Served(msg.stream)
    BY <1>2, <2>1 DEF Served
  <2>3. \A v \in Workers : status[v] = "running" => chExec'[v] = chExec[v]
    BY <1>2, <1>4, ListenerTypes
  <2>4. L!Pass
    BY <1>2, <2>2, <2>3, DispatchPasses
  <2> QED BY <2>4
<1> QED BY <1>3, <1>4

(* The reader starts a worker only where none is left.                     *)
LEMMA RemoteOpens ==
    ASSUME ~ReuseUnsettled, ListenerInv, ListenerInv', NEW w \in Workers, DispatchStart(w)
    PROVE  L!Open(msg.stream)
<1>1. /\ WM!Start(msg.stream, w) /\ UNCHANGED <<msg, received>> /\ readerPC = "dispatch"
      /\ msg.type = "start" /\ msg \in Message
  BY DEF DispatchStart, ReaderUnchanged, ListenerInv, IInv, TypeOK
<1>2. msg.stream \in StreamIDs /\ Quiet(msg.stream)
  BY <1>1 DEF ListenerInv, IInv, Control, StartOK, Message
<1>3. sweepWait = None
  BY <1>1 DEF ListenerInv, P!SettledInv, P!SweepInv, IInv, Control, RunOK
<1>4. ASSUME NEW v \in Workers, status[v] = "running" PROVE owner[v] # msg.stream
  <2>1. workerMap[owner[v]] = v
    BY <1>3, <1>4, ListenerTypes, AllSettled DEF ListenerInv, P!Registered
  <2> QED BY <1>2, <1>4, <2>1, ListenerTypes DEF Quiet, WM!Settled
<1> QED BY <1>1, <1>2, <1>4, StartOpens

(* A step of the client is one that the listener was promised, or nothing  *)
(* to it.                                                                  *)
LEMMA StepIsPromised ==
    ASSUME ~ReuseUnsettled, ListenerInv, ListenerInv', [Next]_vars
    PROVE  [L!Next]_(L!vars)
<1> USE DEF L!Next
<1>1. CASE RunSide
  <2>1. CASE \E w \in Workers : SweepWorkers /\ WM!StopAllCancel(w)
    <3>1. PICK w \in Workers : WM!StopAllCancel(w)
      BY <2>1
    <3>2. L!Close(owner[w]) \/ UNCHANGED L!vars
      BY <1>1, <3>1, RunFrame, CancelCloses DEF WM!StopAllCancel
    <3>3. w \in sweepTodo
      BY <3>1 DEF WM!StopAllCancel
    <3>4. owner[w] \in StreamIDs
      BY <3>3, ListenerTypes DEF ListenerInv, IInv, P!IInv, P!LifeInv
    <3> QED BY <3>2, <3>4
  <2>2. CASE ~\E w \in Workers : SweepWorkers /\ WM!StopAllCancel(w)
    <3>1. UNCHANGED cancelled
      BY <1>1, <2>2 DEF RunSide, CancelCtx, Drop, RunStep, PingEnds, DialOk, DialRetry,
         DialRefused, Spawn, WaitCtx, WaitReader, WaitErr, WaitPing, SweepWorkers, SweepDone,
         BackoffCtx, BackoffOver, wmVars, WM!Snapshot, WM!StopAllSkip, WM!StopAllWaited,
         WM!StopAllDone, WM!workerVars
    <3> QED BY <1>1, <3>1, RunFrame, ListenerStutters
  <2> QED BY <2>1, <2>2
<1>2. CASE ReadSide
  <2>1. ASSUME NEW m \in Message, ReaderGets(m) PROVE L!Arrive(m)
    <3>1. msg = None
      BY <2>1 DEF ReaderGets, ListenerInv, IInv, TypeOK
    <3>2. UNCHANGED <<Pending, Busy, OpenStreams>>
      BY <2>1, StreamsStay DEF ReaderGets, wmVars
    <3> QED BY <2>1, <3>1, <3>2 DEF ReaderGets, L!Arrive
  <2>2. ASSUME NEW w \in Workers, DispatchStart(w) PROVE \E s \in StreamIDs : L!Open(s)
    <3>1. msg.stream \in StreamIDs
      BY <2>2 DEF DispatchStart, ListenerInv, IInv, TypeOK, Message
    <3> QED BY <2>2, <3>1, RemoteOpens
  <2>3. CASE OnStreamStartOk \/ ReaderSendReset \/ DispatchDropped \/ DispatchSync
    <3>1. msg # None /\ msg' = None /\ UNCHANGED <<wmVars, received>>
      BY <2>3 DEF OnStreamStartOk, ReaderSendReset, DispatchDropped, DispatchSync, Dispatched,
         ListenerInv, IInv, TypeOK
    <3>2. msg.type \in {"data", "reset"} => ~Served(msg.stream)
      <4>1. OnStreamStartOk \/ ReaderSendReset \/ DispatchSync => msg.type \in {"start", "sync"}
        BY DEF OnStreamStartOk, ReaderSendReset, DispatchSync, ListenerInv, IInv, Control, ReaderOK
      <4>2. DispatchDropped => ~Served(msg.stream)
        BY DEF DispatchDropped, Served
      <4> QED BY <2>3, <4>1, <4>2
    <3> QED BY <3>1, <3>2, DispatchPasses DEF wmVars
  <2>4. CASE DispatchExecReturns
    BY <2>4, ExecKeeps
  <2>5. CASE ReaderCheck \/ ReaderFails \/ ReaderRejects \/ OnStreamStartErr \/ DispatchExec
    <3>1. UNCHANGED <<msg, received, workerMap, owner, status, cancelled, chExec, current>>
      BY <2>5 DEF ReaderCheck, ReaderFails, ReaderRejects, ReaderEnds, OnStreamStartErr,
         DispatchExec, wmVars, WM!Stop, WM!ExecLookup, WM!workerVars
    <3> QED BY <3>1, ListenerStutters
  <2> QED BY <1>2, <2>1, <2>2, <2>3, <2>4, <2>5 DEF ReadSide, ReaderStep
<1>3. CASE StopGoroutine
  <2>0. UNCHANGED <<owner, status, chExec, current, msg, received>>
    BY <1>3, StopFrame DEF readVars
  <2>1. ASSUME NEW s \in StreamIDs, WM!StopMissing(s) PROVE UNCHANGED L!vars
    BY <2>0, <2>1, ListenerStutters DEF WM!StopMissing, WM!workerVars
  <2>2. ASSUME NEW s \in StreamIDs, WM!StopAgain(s) PROVE UNCHANGED L!vars
    BY <2>0, <2>2, RemoveKeeps DEF WM!StopAgain, WM!workerVars
  <2>3. ASSUME NEW s \in StreamIDs, WM!StopCancel(s) PROVE L!Close(s) \/ UNCHANGED L!vars
    <3>1. workerMap[s] \in Workers /\ owner[workerMap[s]] = s
      BY <2>3, ListenerTypes DEF WM!StopCancel, ListenerInv, IInv, P!IInv, P!RegInv
    <3>2. UNCHANGED workerMap /\ cancelled' = [cancelled EXCEPT ![workerMap[s]] = TRUE]
      BY <2>3 DEF WM!StopCancel
    <3> QED BY <2>0, <3>1, <3>2, CancelCloses
  <2>4. CASE WM!StopDone
    <3>1. stopping \in StreamIDs /\ cancelled[workerMap[stopping]]
      BY <2>4 DEF WM!StopDone, ListenerInv, IInv, P!IInv, P!TypeOK, P!LockInv
    <3>2. UNCHANGED cancelled /\ workerMap' = [workerMap EXCEPT ![stopping] = None]
      BY <2>4 DEF WM!StopDone, WM!workerVars
    <3> QED BY <2>0, <3>1, <3>2, RemoveKeeps
  <2> QED BY <1>3, <2>1, <2>2, <2>3, <2>4 DEF StopGoroutine, WM!StopStep
<1>4. ASSUME NEW w \in Workers, WorkerStep(w) PROVE [L!Next]_(L!vars)
  <2>0. UNCHANGED <<msg, received, workerMap, owner, cancelled>>
    BY <1>4, WorkerFrame DEF readVars
  <2>1. CASE Take(w)
    <3>1. WM!WorkerTake(w) /\ owner[w] \in StreamIDs
      BY <2>1, ListenerTypes DEF Take, WM!WorkerTake
    <3> QED BY <2>0, <3>1, TakeCalls
  <2>2. CASE OnDataOk(w) \/ FnReturn(w)
    <3>1. WM!WorkerFinish(w)
      BY <2>2 DEF OnDataOk, FnReturn
    <3>2. owner[w] \in StreamIDs
      BY <3>1, ListenerTypes DEF WM!WorkerFinish, ListenerInv, IInv, P!IInv, P!LifeInv
    <3> QED BY <2>0, <3>1, <3>2, FinishReturns
  <2>3. CASE FnStop(w)
    <3>1. UNCHANGED <<status, chExec, current>>
      BY <2>3 DEF FnStop, WM!Stop, WM!workerVars
    <3> QED BY <2>0, <3>1, ListenerStutters
  <2>4. CASE Exit(w)
    <3>1. WM!WorkerExit(w) /\ owner[w] \in StreamIDs
      BY <2>4, ListenerTypes DEF Exit, WM!WorkerExit
    <3> QED BY <2>0, <3>1, ExitDiscards
  <2> QED BY <1>4, <2>1, <2>2, <2>3, <2>4 DEF WorkerStep
<1>5. ASSUME NEW w \in Workers, LocalSide(w) PROVE [L!Next]_(L!vars)
  <2>0. UNCHANGED <<msg, received, cancelled, chExec, current>>
    BY <1>5, LocalFrame DEF readVars
  <2>1. ASSUME NEW s \in StreamIDs, LocalStart(s, w) PROVE L!Open(s)
    <3>1. WM!Start(s, w) /\ \A v \in Workers : status[v] = "running" => owner[v] # s
      BY <2>1 DEF LocalStart, WM!StartLocal, WM!Fresh
    <3> QED BY <2>0, <3>1, StartOpens
  <2>2. CASE LocalStep(w) \/ LocalReset(w)
    <3>1. UNCHANGED <<workerMap, owner, status>>
      BY <2>2 DEF LocalStep, LocalStartSent, LocalStartFails, LocalResetSent, LocalReset, wmVars,
         WM!Stop, WM!workerVars
    <3> QED BY <2>0, <3>1, ListenerStutters
  <2> QED BY <1>5, <2>1, <2>2 DEF LocalSide
<1>6. CASE UNCHANGED vars \/ \E s \in StreamIDs : PeerGetsReset(s)
  BY <1>6, PeerFrame, ListenerStutters DEF vars, wmVars, readVars
<1> QED BY <1>1, <1>2, <1>3, <1>4, <1>5, <1>6, Steps

(* awsclient.go:25-54, 423-461: the listener gets every message of a       *)
(* stream that is served, one at a time, in order, and nothing of an       *)
(* earlier stream with its StreamID, if a peer starts one again only once  *)
(* it settled.                                                             *)
THEOREM ServesListener == ASSUME ~ReuseUnsettled PROVE Spec => ImplementsStreamListener
<1>1. Init => L!Init
  <2> SUFFICES ASSUME Init PROVE L!Init
    OBVIOUS
  <2>1. /\ workerMap = [s \in StreamIDs |-> None] /\ status = [w \in Workers |-> "new"]
        /\ msg = None /\ received = 0
    BY SameManager DEF Init, P!Init
  <2>2. \A s \in StreamIDs : Goroutines(s) = {} /\ ~Served(s)
    BY <2>1 DEF Goroutines, Served
  <2> QED BY <2>1, <2>2 DEF L!Init, Pending, Busy, OfGoroutine, OpenStreams
<1>2. IInv => P!SettledInv
  BY DEF IInv
<1>3. ListenerInv /\ ListenerInv' /\ [Next]_vars => [L!Next]_(L!vars)
  BY StepIsPromised
<1>4. Spec => []ListenerInv
  BY <1>2, IInvHolds, EndedHolds, PTL DEF ListenerInv
<1> QED BY <1>1, <1>3, <1>4, PTL DEF Spec, ImplementsStreamListener, L!Spec
=============================================================================
