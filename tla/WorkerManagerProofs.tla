------------------------ MODULE WorkerManagerProofs ------------------------
(***************************************************************************)
(* Proofs that the locking of client/workermanager.go does what it is for, *)
(* for every number of streams, workers, sessions and any buffer size.     *)
(***************************************************************************)
EXTENDS WorkerManager, TLAPS

(* A worker that was not made yet is nowhere; only a goroutine that runs   *)
(* executes a function.                                                    *)
LifeInv ==
    \A w \in Workers :
        /\ status[w] = "new" <=> owner[w] = None
        /\ status[w] = "new" => ~cancelled[w] /\ w \notin sweepTodo /\ w \notin swept
        /\ current[w] # None => status[w] = "running"

(* An entry of the map was made for its key.                               *)
RegInv == \A s \in StreamIDs : workerMap[s] # None => owner[workerMap[s]] = s

(* The write lock of a waiting stop goroutine excludes exec and protects   *)
(* the entry it waits for.                                                 *)
LockInv ==
    stopping # None =>
        /\ sending = None
        /\ workerMap[stopping] # None
        /\ cancelled[workerMap[stopping]]
        /\ stops[stopping] > 0

(* The read lock of a blocked exec protects the entry it found.            *)
SendInv == sending # None => Registered(sending)

(* A cancelled worker is still in the map only while its stop goroutine    *)
(* waits for it, or because stopAll left it there.                         *)
CancelInv ==
    \A s \in StreamIDs :
        workerMap[s] # None /\ cancelled[workerMap[s]] =>
            stopping = s \/ workerMap[s] \in swept

(* The inductive invariant behind ExecTargetsLiveWorker.                   *)
IInv == TypeOK /\ LifeInv /\ RegInv /\ LockInv /\ SendInv /\ CancelInv

(* stopAll waits for what it cancelled before it goes on or returns.       *)
SweepInv ==
    /\ sweepTodo # {} \/ sweepWait # None => sweepOn
    /\ \A w \in Workers : w \in swept /\ status[w] = "running" => w = sweepWait

(* A goroutine whose worker is no longer in the map is one stopAll waits   *)
(* for (a stop goroutine removed the entry without waiting), or the peer   *)
(* hurried and it was replaced.                                            *)
LeftoverInv ==
    \A w \in Workers :
        status[w] = "running" /\ ~Registered(w) => w = sweepWait \/ Hurried(owner[w])

(* A stop goroutine under way was meant for the worker it will find,       *)
(* unless that was started while the stop was under way.                   *)
MeantInv ==
    \A s \in StreamIDs :
        stops[s] > 0 /\ workerMap[s] # None => workerMap[s] \in asked \cup unsettled

(* What holds in addition, whether StreamIDs settle before they are used   *)
(* again or not; nobody is unsettled if they do.                           *)
SettledInv ==
    /\ SweepInv
    /\ LeftoverInv
    /\ MeantInv
    /\ OneGoroutinePerStream
    /\ OnlyAskedWorkersStop
    /\ ~ReuseUnsettled => unsettled = {}

-----------------------------------------------------------------------------
(* The initial state satisfies the inductive invariant.                    *)
LEMMA InitIInv == Init => IInv
<1> SUFFICES ASSUME Init PROVE IInv
  OBVIOUS
<1> USE ConstantsAssumption DEF Init
<1>1. sweepOn \in BOOLEAN
  BY Zenon
<1>2. TypeOK
  BY <1>1 DEF TypeOK
<1>3. LifeInv
  BY DEF LifeInv
<1>4. RegInv /\ CancelInv
  BY DEF RegInv, CancelInv
<1>5. LockInv /\ SendInv
  BY DEF LockInv, SendInv
<1> QED BY <1>2, <1>3, <1>4, <1>5 DEF IInv

(* Every step keeps the types, the buffer bound and the counters' ranges.  *)
LEMMA TypeStep == IInv /\ [Next]_vars => TypeOK'
<1> SUFFICES ASSUME IInv, [Next]_vars PROVE TypeOK'
  OBVIOUS
<1> USE ConstantsAssumption DEF IInv, TypeOK
<1>1. ASSUME NEW s \in StreamIDs, NEW w \in Workers, Start(s, w) PROVE TypeOK'
  BY <1>1 DEF Start, stopVars, execVars, sweepVars
<1>2. ASSUME NEW s \in StreamIDs, NEW f \in Funcs, ExecBegin(s, f) PROVE TypeOK'
  BY <1>2 DEF ExecBegin, ExecLookup, workerVars, stopVars, sweepVars
<1>3. CASE ExecSend
  <2>1. chExec' \in [Workers -> Seq(Funcs)]
    BY <1>3 DEF ExecSend
  <2>2. \A w \in Workers : Len(chExec'[w]) <= BufSize
    BY <1>3 DEF ExecSend
  <2> QED BY <1>3, <2>1, <2>2 DEF ExecSend, stopVars, sweepVars
<1>4. ASSUME NEW s \in StreamIDs, Stop(s) PROVE TypeOK'
  BY <1>4 DEF Stop, workerVars, execVars, sweepVars
<1>5. ASSUME NEW s \in StreamIDs, StopStep(s) PROVE TypeOK'
  <2>1. CASE StopMissing(s)
    BY <2>1 DEF StopMissing, workerVars, execVars, sweepVars
  <2>2. CASE StopAgain(s)
    BY <2>2 DEF StopAgain, workerVars, execVars, sweepVars
  <2>3. CASE StopCancel(s)
    BY <2>3 DEF StopCancel, execVars, sweepVars
  <2> QED BY <1>5, <2>1, <2>2, <2>3 DEF StopStep
<1>6. CASE StopDone
  BY <1>6 DEF StopDone, LockInv, workerVars, execVars, sweepVars
<1>7. ASSUME NEW w \in Workers, WorkerStep(w) PROVE TypeOK'
  <2>1. CASE WorkerTake(w)
    <3>1. /\ chExec' \in [Workers -> Seq(Funcs)]
          /\ \A v \in Workers : Len(chExec'[v]) <= BufSize
      BY <2>1 DEF WorkerTake
    <3>2. current' \in [Workers -> Funcs \cup {None}]
      BY <2>1 DEF WorkerTake
    <3> QED BY <2>1, <3>1, <3>2 DEF WorkerTake, stopVars, execVars, sweepVars
  <2>2. CASE WorkerFinish(w)
    BY <2>2 DEF WorkerFinish, stopVars, execVars, sweepVars
  <2>3. CASE WorkerExit(w)
    BY <2>3 DEF WorkerExit, stopVars, execVars, sweepVars
  <2> QED BY <1>7, <2>1, <2>2, <2>3 DEF WorkerStep
<1>8. CASE GetAll
  BY <1>8 DEF GetAll, Snapshot, workerVars, stopVars, execVars
<1>9. CASE SweepStep
  <2>1. ASSUME NEW w \in Workers, StopAllCancel(w) PROVE TypeOK'
    BY <2>1 DEF StopAllCancel, stopVars, execVars
  <2>2. ASSUME NEW w \in Workers, StopAllSkip(w) PROVE TypeOK'
    BY <2>2 DEF StopAllSkip, workerVars, stopVars, execVars
  <2>3. CASE StopAllWaited
    BY <2>3 DEF StopAllWaited, workerVars, stopVars, execVars
  <2>4. CASE StopAllDone
    BY <2>4 DEF StopAllDone, workerVars, stopVars, execVars
  <2> QED BY <1>9, <2>1, <2>2, <2>3, <2>4 DEF SweepStep
<1>10. CASE UNCHANGED vars
  BY <1>10 DEF vars, workerVars, stopVars, execVars, sweepVars
<1> QED BY <1>1, <1>2, <1>3, <1>4, <1>5, <1>6, <1>7, <1>8, <1>9, <1>10
        DEF Next, StartRemote, StartLocal

(* Life, registration and lock facts survive every step.                   *)
LEMMA LockStep ==
    IInv /\ [Next]_vars => LifeInv' /\ RegInv' /\ LockInv' /\ SendInv' /\ CancelInv'
<1> SUFFICES ASSUME IInv, [Next]_vars
             PROVE LifeInv' /\ RegInv' /\ LockInv' /\ SendInv' /\ CancelInv'
  OBVIOUS
<1> DEFINE Goal == LifeInv' /\ RegInv' /\ LockInv' /\ SendInv' /\ CancelInv'
<1> USE ConstantsAssumption DEF IInv, TypeOK, LifeInv, RegInv, LockInv, SendInv, CancelInv,
                                Registered
<1>1. ASSUME NEW s \in StreamIDs, NEW w \in Workers, Start(s, w) PROVE Goal
  BY <1>1 DEF Start, CanLock, stopVars, execVars, sweepVars
<1>2. ASSUME NEW s \in StreamIDs, NEW f \in Funcs, ExecBegin(s, f) PROVE Goal
  BY <1>2 DEF ExecBegin, ExecLookup, CanRLock, workerVars, stopVars, sweepVars
<1>3. CASE ExecSend
  BY <1>3 DEF ExecSend, stopVars, sweepVars
<1>4. ASSUME NEW s \in StreamIDs, Stop(s) PROVE Goal
  BY <1>4 DEF Stop, workerVars, execVars, sweepVars
<1>5. ASSUME NEW s \in StreamIDs, StopStep(s) PROVE Goal
  <2>1. CASE StopMissing(s)
    BY <2>1 DEF StopMissing, CanLock, workerVars, execVars, sweepVars
  <2>2. CASE StopAgain(s)
    BY <2>2 DEF StopAgain, CanLock, workerVars, execVars, sweepVars
  <2>3. CASE StopCancel(s)
    BY <2>3 DEF StopCancel, CanLock, execVars, sweepVars
  <2> QED BY <1>5, <2>1, <2>2, <2>3 DEF StopStep
<1>6. CASE StopDone
  BY <1>6 DEF StopDone, workerVars, execVars, sweepVars
<1>7. ASSUME NEW w \in Workers, WorkerStep(w) PROVE Goal
  BY <1>7 DEF WorkerStep, WorkerTake, WorkerFinish, WorkerExit, stopVars, execVars, sweepVars
<1>8. CASE GetAll
  BY <1>8 DEF GetAll, Snapshot, workerVars, stopVars, execVars
<1>9. CASE SweepStep
  <2>1. ASSUME NEW w \in Workers, StopAllCancel(w) PROVE Goal
    BY <2>1 DEF StopAllCancel, stopVars, execVars
  <2>2. ASSUME NEW w \in Workers, StopAllSkip(w) PROVE Goal
    BY <2>2 DEF StopAllSkip, workerVars, stopVars, execVars
  <2>3. CASE StopAllWaited
    BY <2>3 DEF StopAllWaited, workerVars, stopVars, execVars
  <2>4. CASE StopAllDone
    BY <2>4 DEF StopAllDone, workerVars, stopVars, execVars
  <2> QED BY <1>9, <2>1, <2>2, <2>3, <2>4 DEF SweepStep
<1>10. CASE UNCHANGED vars
  BY <1>10 DEF vars, workerVars, stopVars, execVars, sweepVars
<1> QED BY <1>1, <1>2, <1>3, <1>4, <1>5, <1>6, <1>7, <1>8, <1>9, <1>10
        DEF Next, StartRemote, StartLocal

(* The registered workers and the goroutines correspond, step by step.     *)
LEMMA SettledStep == IInv /\ SettledInv /\ [Next]_vars => SettledInv'
<1> SUFFICES ASSUME IInv, SettledInv, [Next]_vars PROVE SettledInv'
  OBVIOUS
<1> USE ConstantsAssumption DEF IInv, TypeOK, LifeInv, RegInv, LockInv, CancelInv, SettledInv,
                                SweepInv, LeftoverInv, MeantInv, OneGoroutinePerStream,
                                OnlyAskedWorkersStop, Registered, Hurried
<1>a. ASSUME NEW s \in StreamIDs, NEW w \in Workers, Start(s, w), ReuseUnsettled \/ Settled(s),
             ~sweepOn \/ \A v \in Workers : owner[v] # s
      PROVE  SettledInv'
  <2> USE <1>a DEF Start, stopVars, execVars, sweepVars
  <2>1. /\ unsettled' \in SUBSET Workers /\ unsettled \subseteq unsettled'
        /\ ~Settled(s) => w \in unsettled'
        /\ Settled(s) => unsettled' = unsettled
    OBVIOUS
  <2>2. \A x \in StreamIDs : Hurried(x) => Hurried(x)'
    BY <2>1
  <2>3. ~Settled(s) => Hurried(s)'
    BY <2>1
  <2>4. ASSUME Settled(s), NEW v \in Workers, status[v] = "running", owner[v] = s
        PROVE  Hurried(s)
    <3>1. ~Registered(v)
      BY <2>4 DEF Settled
    <3> QED BY <2>4, <3>1
  <2>5. SweepInv'
    OBVIOUS
  <2>6. LeftoverInv'
    <3> SUFFICES ASSUME NEW v \in Workers, status'[v] = "running", ~Registered(v)'
                 PROVE  v = sweepWait \/ Hurried(owner[v])'
      OBVIOUS
    <3>1. v # w /\ status[v] = "running" /\ owner'[v] = owner[v] /\ owner[v] \in StreamIDs
      OBVIOUS
    <3>2. CASE Registered(v)
      <4>1. owner[v] = s
        BY <3>1, <3>2
      <4> QED BY <2>2, <2>3, <2>4, <3>1, <4>1
    <3>3. CASE ~Registered(v)
      <4>1. v = sweepWait \/ Hurried(owner[v])
        BY <3>1, <3>3
      <4> QED BY <2>2, <3>1, <4>1
    <3> QED BY <3>2, <3>3
  <2>7. MeantInv'
    BY <2>1 DEF Settled
  <2>8. OnlyAskedWorkersStop'
    BY <2>1
  <2>9. OneGoroutinePerStream'
    <3> SUFFICES ASSUME NEW u \in Workers, NEW v \in Workers, status'[u] = "running",
                        status'[v] = "running", owner'[u] = owner'[v], u # v
                 PROVE  Hurried(owner[v])'
      OBVIOUS
    <3>1. CASE u # w /\ v # w
      <4>1. owner'[v] = owner[v] /\ owner[v] \in StreamIDs /\ Hurried(owner[v])
        BY <3>1
      <4> QED BY <2>2, <4>1
    <3>2. CASE u = w \/ v = w
      <4>1. PICK x \in Workers : status[x] = "running" /\ owner[x] = s
        BY <3>2
      <4>2. owner'[v] = s
        BY <3>2
      <4> QED BY <2>2, <2>3, <2>4, <4>1, <4>2
    <3> QED BY <3>1, <3>2
  <2>10. ~ReuseUnsettled => unsettled' = {}
    BY <2>1
  <2> QED BY <2>5, <2>6, <2>7, <2>8, <2>9, <2>10
<1>1. ASSUME NEW s \in StreamIDs, NEW w \in Workers, StartRemote(s, w) PROVE SettledInv'
  BY <1>1, <1>a DEF StartRemote
<1>2. ASSUME NEW s \in StreamIDs, NEW w \in Workers, StartLocal(s, w) PROVE SettledInv'
  BY <1>2, <1>a DEF StartLocal, Fresh, Settled
<1>3. ASSUME NEW s \in StreamIDs, NEW f \in Funcs, ExecBegin(s, f) PROVE SettledInv'
  BY <1>3 DEF ExecBegin, ExecLookup, workerVars, stopVars, sweepVars
<1>4. CASE ExecSend
  BY <1>4 DEF ExecSend, stopVars, sweepVars
<1>5. ASSUME NEW s \in StreamIDs, Stop(s) PROVE SettledInv'
  <2> USE <1>5 DEF Stop, workerVars, execVars, sweepVars
  <2>1. SweepInv' /\ LeftoverInv' /\ OneGoroutinePerStream'
    OBVIOUS
  <2>2. MeantInv'
    OBVIOUS
  <2>3. OnlyAskedWorkersStop'
    OBVIOUS
  <2> QED BY <2>1, <2>2, <2>3
<1>6. ASSUME NEW s \in StreamIDs, StopStep(s) PROVE SettledInv'
  <2>1. CASE StopMissing(s)
    BY <2>1 DEF StopMissing, CanLock, workerVars, execVars, sweepVars
  <2>2. CASE StopAgain(s)
    <3> USE <2>2 DEF StopAgain, CanLock, workerVars, execVars, sweepVars
    <3>1. workerMap[s] \in swept
      OBVIOUS
    <3>2. LeftoverInv'
      BY <3>1
    <3>3. SweepInv' /\ MeantInv' /\ OneGoroutinePerStream' /\ OnlyAskedWorkersStop'
      OBVIOUS
    <3> QED BY <3>2, <3>3
  <2>3. CASE StopCancel(s)
    BY <2>3 DEF StopCancel, CanLock, execVars, sweepVars
  <2> QED BY <1>6, <2>1, <2>2, <2>3 DEF StopStep
<1>7. CASE StopDone
  BY <1>7 DEF StopDone, workerVars, execVars, sweepVars
<1>8. ASSUME NEW w \in Workers, WorkerStep(w) PROVE SettledInv'
  <2>1. CASE WorkerTake(w)
    BY <2>1 DEF WorkerTake, stopVars, execVars, sweepVars
  <2>2. CASE WorkerFinish(w)
    BY <2>2 DEF WorkerFinish, stopVars, execVars, sweepVars
  <2>3. CASE WorkerExit(w)
    BY <2>3 DEF WorkerExit, stopVars, execVars, sweepVars
  <2> QED BY <1>8, <2>1, <2>2, <2>3 DEF WorkerStep
<1>9. CASE GetAll
  BY <1>9 DEF GetAll, Snapshot, workerVars, stopVars, execVars
<1>10. CASE SweepStep
  <2>1. ASSUME NEW w \in Workers, StopAllCancel(w) PROVE SettledInv'
    <3> USE <2>1 DEF StopAllCancel, stopVars, execVars
    <3>1. SweepInv'
      OBVIOUS
    <3>2. LeftoverInv' /\ MeantInv'
      OBVIOUS
    <3>3. OneGoroutinePerStream'
      OBVIOUS
    <3>4. OnlyAskedWorkersStop'
      OBVIOUS
    <3> QED BY <3>1, <3>2, <3>3, <3>4
  <2>2. ASSUME NEW w \in Workers, StopAllSkip(w) PROVE SettledInv'
    BY <2>2 DEF StopAllSkip, workerVars, stopVars, execVars
  <2>3. CASE StopAllWaited
    BY <2>3 DEF StopAllWaited, workerVars, stopVars, execVars
  <2>4. CASE StopAllDone
    BY <2>4 DEF StopAllDone, workerVars, stopVars, execVars
  <2> QED BY <1>10, <2>1, <2>2, <2>3, <2>4 DEF SweepStep
<1>11. CASE UNCHANGED vars
  BY <1>11 DEF vars, workerVars, stopVars, execVars, sweepVars
<1> QED BY <1>1, <1>2, <1>3, <1>4, <1>5, <1>6, <1>7, <1>8, <1>9, <1>10, <1>11
        DEF Next

-----------------------------------------------------------------------------
(* The inductive invariant holds in every reachable state.                 *)
LEMMA IInvHolds == Spec => []IInv
<1>1. IInv /\ [Next]_vars => IInv'
  BY TypeStep, LockStep DEF IInv
<1> QED BY <1>1, InitIInv, PTL DEF Spec

(* Variables keep their types and no channel exceeds its buffer, for any   *)
(* number of workers and streams (worker.go:20).                           *)
THEOREM TypeCorrect == Spec => []TypeOK
<1>1. IInv => TypeOK
  BY DEF IInv
<1> QED BY <1>1, IInvHolds, PTL

(* The reader never waits on a worker a stop goroutine cancelled           *)
(* (workermanager.go:32-37 against 52-59).                                 *)
THEOREM ExecLive == Spec => []ExecTargetsLiveWorker
<1>1. IInv => ExecTargetsLiveWorker
  BY ConstantsAssumption
     DEF IInv, TypeOK, LockInv, SendInv, CancelInv, Registered, ExecTargetsLiveWorker
<1> QED BY <1>1, IInvHolds, PTL

(* The same for what StreamIDs that settle first keep from happening.      *)
LEMMA SettledHolds == Spec => []SettledInv
<1>1. Init => SettledInv
  BY ConstantsAssumption
     DEF Init, SettledInv, SweepInv, LeftoverInv, MeantInv, OneGoroutinePerStream,
         OnlyAskedWorkersStop, Registered
<1>2. SettledInv /\ IInv /\ [Next]_vars => SettledInv'
  BY SettledStep
<1> QED BY <1>1, <1>2, IInvHolds, PTL DEF Spec

(* A StreamID has at most one goroutine (awsclient.go:28), unless the peer *)
(* has started it again before it settled.                                 *)
THEOREM OneGoroutine == Spec => []OneGoroutinePerStream
<1>1. SettledInv => OneGoroutinePerStream
  BY DEF SettledInv
<1> QED BY <1>1, SettledHolds, PTL

(* A stop that comes late (workermanager.go:47-59) ends a worker nobody    *)
(* asked to stop only if that worker was started while the stop was        *)
(* pending or its predecessor ran, however the peer uses StreamIDs.        *)
THEOREM OnlyAskedStop == Spec => []OnlyAskedWorkersStop
<1>1. SettledInv => OnlyAskedWorkersStop
  BY DEF SettledInv
<1> QED BY <1>1, SettledHolds, PTL
=============================================================================
