-------------------------- MODULE LocalProxyProofs --------------------------
(***************************************************************************)
(* The local proxy for any number of streams, connections and messages.    *)
(***************************************************************************)
EXTENDS LocalProxy, TLAPS

P == INSTANCE LocalSocketsProofs WITH Threads <- {Main} \cup StreamIDs

(* Who holds the sockets' lock, and who writes.                            *)
HolderOK ==
    /\ holder = Main <=> (session \in {"dropping", "cleanup"} \/ readerPC = "sync")
    /\ \A s \in StreamIDs : holder = s <=> fn[s] = "stop"
    /\ writing[Main] = None
    /\ \A s \in StreamIDs : fn[s] = "write" <=> writing[s] # None

(* The reader is in a handler only while the session serves.               *)
ReaderOK ==
    /\ readerPC # "idle" => session = "serve"
    /\ readerPC \in {"start", "refuse"} => startID \in StreamIDs
    /\ readerPC = "start" => dialed \in Cons

Message == [type : {"data", "reset"}, n : 0..MaxMessages]

(* What a worker's queue may hold.                                         *)
QueueOK(q) ==
    q \in Seq(Message) /\ \A i \in 1..Len(q) : q[i].type = "data" => q[i].n \in 1..MaxMessages

(* What a worker does is the head of its queue.                            *)
FnOK(s) ==
    /\ fn[s] # "idle" => s \in worker /\ queue[s] # <<>>
    /\ fn[s] \in {"write", "failed"} => Head(queue[s]).type = "data"

WorkersOK == \A s \in StreamIDs : FnOK(s) /\ QueueOK(queue[s])

CountsOK == \A s \in StreamIDs : peerSent[s] <= received

AcceptOK == \A k \in Cons : accept[k] # "none" => acceptID[k] \in StreamIDs

Control == HolderOK /\ ReaderOK /\ WorkersOK /\ CountsOK /\ AcceptOK

IInv == P!IInv /\ TypeOK /\ Control

(* The two instances are one.                                              *)
LEMMA SameSockets ==
    /\ S!Init = P!Init
    /\ P!vars = sockVars
    /\ S!vars = sockVars
    /\ S!Next = P!Next
    /\ S!TypeOK = P!TypeOK
<1>1. S!Next = P!Next
  BY DEF S!Next, P!Next, S!Open, P!Open, S!Abandon, P!Abandon, S!SuckStep, P!SuckStep,
     S!LocalEnds, P!LocalEnds, S!StartSocket, P!StartSocket, S!Call, P!Call, S!WriteOk,
     P!WriteOk, S!WriteErr, P!WriteErr, S!StopStep, P!StopStep, S!ReadOk, P!ReadOk, S!ReadErr,
     P!ReadErr, S!DeliverOk, P!DeliverOk, S!DeliverErr, P!DeliverErr, S!Reported, P!Reported,
     S!SuckEnd, P!SuckEnd, S!SuckMoves, P!SuckMoves, S!StopClose, P!StopClose, S!StopWaited,
     P!StopWaited, S!StopReturns, P!StopReturns, S!WriteLookup, P!WriteLookup, S!StopBegin,
     P!StopBegin, S!Unlocked, P!Unlocked, S!Mapped, P!Mapped
<1> QED BY <1>1 DEF S!Init, P!Init, P!vars, S!vars, sockVars, S!TypeOK, P!TypeOK

(* What a step of the sockets keeps there, it keeps here.                  *)
LEMMA SocketsKeep == ASSUME P!IInv, [P!Next]_sockVars PROVE P!IInv'
<1>1. [P!Next]_(P!vars)
  BY DEF P!vars, sockVars
<1>2. None \notin StreamIDs \cup Cons \cup ({Main} \cup StreamIDs)
  BY NamesApart
<1>3. P!NoneAssumption
  BY NamesApart DEF P!NoneAssumption
<1> QED BY <1>1, <1>2, <1>3, P!Inductive

-----------------------------------------------------------------------------
(* What each kind of step leaves alone.                                    *)
ByItself == StopGoes \/ \E k \in Cons : SocketStep(k) \/ LocalEnds(k)

(* Run's goroutine.                                                        *)
LEMMA RunFrame ==
    ASSUME RunStep \/ Drop
    PROVE  /\ UNCHANGED <<con, local, socketMap, streamOf, suck, writing, readVars, workVars>>
           /\ UNCHANGED <<stopAsked, acceptVars, idVars, peerSent, received, written>>
           /\ outReset' \subseteq outReset
           /\ UNCHANGED peer
BY DEF RunStep, Connect, OnConnected, OnConnectedReturns, ServeEnds, SessionEnds, GiveUp, Cleanup,
       CleanupReturns, Drop, RunUnchanged, S!StopBegin, S!StopReturns, sockVars, peerVars

(* The reader taking a SessionReset or the service IDs.                    *)
LEMMA SyncFrame ==
    ASSUME ReceiveSessionReset \/ ReceiveServiceIDs
    PROVE  UNCHANGED <<con, local, socketMap, streamOf, suck, writing, runVars, up, startID, dialed,
                       workVars, stopAsked, accept, acceptID, idVars, peerSent, outReset, written>>
BY DEF ReceiveSessionReset, ReceiveServiceIDs, Receive, S!StopBegin, sockVars, readVars

(* The reader queueing Data or a StreamReset for a worker.                 *)
LEMMA ReceiveFrame ==
    ASSUME NEW s \in StreamIDs, ReceiveData(s) \/ ReceiveReset(s)
    PROVE  UNCHANGED <<sockVars, runVars, up, readVars, worker, fn, stopAsked, acceptVars, idVars,
                       outReset, written>>
BY DEF ReceiveData, ReceiveReset, ReceiveForWorker, Receive, acceptVars

(* The reader inside the StreamStart and SessionReset handlers.            *)
LEMMA HandlerFrame ==
    ASSUME HandlerStep
    PROVE  UNCHANGED <<runVars, up, workVars, acceptVars, idVars, peerVars, written>>
BY DEF HandlerStep, OnStreamStartOk, OnStreamStartExists, Refuse, OnSessionResetReturns,
   HandlerUnchanged

(* A worker's function: what it leaves alone ...                           *)
LEMMA WorkerFrame ==
    ASSUME NEW s \in StreamIDs, WorkerStep(s)
    PROVE  UNCHANGED <<con, socketMap, streamOf, suck, runVars, up, readVars, worker, acceptVars,
                       idVars, peerVars>>
BY DEF WorkerStep, OnData, OnDataUnknown, OnDataWritten, OnDataWriteFails, OnDataFailed,
   OnStreamReset, OnStreamResetReturns, Goes, Returns, S!WriteLookup, S!WriteOk, S!WriteErr,
   S!StopBegin, S!StopReturns, sockVars

(* ... and what it does to the sockets of others.                          *)
LEMMA WorkerSockets ==
    ASSUME TypeOK, NEW s \in StreamIDs, WorkerStep(s)
    PROVE  /\ \A x \in StreamIDs \ {s} : writing'[x] = writing[x]
           /\ \A k \in Cons : local[k] = "reset" => local'[k] = "reset"
           /\ toStop' = toStop \/ holder = None
<1>1. /\ writing \in [{Main} \cup StreamIDs -> Cons \cup {None}]
      /\ local \in [Cons -> {"there", "gone", "reset"}]
  BY DEF TypeOK, S!TypeOK
<1> QED
  BY <1>1 DEF WorkerStep, OnData, OnDataUnknown, OnDataWritten, OnDataWriteFails, OnDataFailed,
     OnStreamReset, OnStreamResetReturns, sockVars, S!WriteLookup, S!WriteOk, S!WriteErr,
     S!StopBegin, S!StopReturns, S!Unlocked

(* A worker stopping, and the peer getting a StreamReset.                  *)
LEMMA EndFrame ==
    ASSUME NEW s \in StreamIDs, WorkerStops(s) \/ PeerGetsReset(s)
    PROVE  UNCHANGED <<sockVars, runVars, up, readVars, fn, acceptVars, idVars, peerSent, received,
                       written>>
BY DEF WorkerStops, PeerGetsReset, peerVars, workVars

(* The goroutines and the ends of a local connection.                      *)
LEMMA ByItselfFrame ==
    ASSUME ByItself
    PROVE  UNCHANGED <<runVars, up, readVars, workVars, acceptVars, idVars, peerVars, written>>
BY DEF ByItself, StopGoes, SocketStep, LocalEnds, OnReadData, OnReadError, SocketGoes,
   SocketUnchanged

(* An accept handler.                                                      *)
LEMMA AcceptFrame ==
    ASSUME NEW k \in Cons, AcceptStep(k) \/ \E s \in StreamIDs : Accept(k, s)
    PROVE  UNCHANGED <<local, holder, toStop, writing, runVars, up, readVars, queue, fn, servers,
                       peerSent, received, outReset, written>>
BY DEF AcceptStep, StartSent, StartFails, AcceptStarts, Accept, S!Open, S!Abandon, S!StartSocket,
       sockVars, workVars, peerVars

-----------------------------------------------------------------------------
(* StopAll by Run or the reader; StopSocket and Write by a worker.         *)
LEMMA MainCalls ==
    ASSUME IInv, S!StopBegin(Main, StreamIDs), session \notin {"dropping", "cleanup"},
           readerPC # "sync"
    PROVE  P!Next
<1>1. P!StopBegin(Main, StreamIDs) /\ holder # Main /\ writing[Main] = None
  BY DEF S!StopBegin, P!StopBegin, S!Unlocked, P!Unlocked, S!Mapped, P!Mapped, IInv, Control,
     HolderOK
<1> QED BY <1>1 DEF P!Next, P!Call

(* A worker calls the socket manager when it is not inside it.             *)
LEMMA WorkerCalls ==
    ASSUME IInv, NEW s \in StreamIDs, fn[s] = "idle", S!StopBegin(s, {s}) \/ S!WriteLookup(s, s)
    PROVE  P!Next
<1>1. holder # s /\ writing[s] = None
  BY DEF IInv, Control, HolderOK
<1>2. P!StopBegin(s, {s}) \/ P!WriteLookup(s, s)
  BY DEF S!StopBegin, P!StopBegin, S!Unlocked, P!Unlocked, S!Mapped, P!Mapped, S!WriteLookup,
     P!WriteLookup
<1> QED BY <1>1, <1>2 DEF P!Next, P!Call

(* Everything else may be done at any time.                                *)
FreeStep(s, k, t) ==
    \/ S!Open(k) \/ S!Abandon(k) \/ S!SuckStep(k) \/ S!LocalEnds(k) \/ S!StartSocket(s, k)
    \/ S!WriteOk(t) \/ S!WriteErr(t) \/ S!StopStep(t)

(* ... and is a step of the sockets.                                       *)
LEMMA FreeCalls ==
    ASSUME NEW s \in StreamIDs, NEW k \in Cons, NEW t \in {Main} \cup StreamIDs, FreeStep(s, k, t)
    PROVE  P!Next
<1>1. S!Next
  BY DEF FreeStep, S!Next
<1> QED BY <1>1, SameSockets

(* Every step is one that LocalSockets allows, or leaves the sockets alone.*)
LEMMA StepUsesSockets == ASSUME IInv, [Next]_vars PROVE [P!Next]_sockVars
<1> USE DEF FreeStep
<1>1. CASE RunStep
  <2>1. CASE OnConnected
    <3>1. readerPC # "sync"
      BY <2>1 DEF OnConnected, IInv, Control, ReaderOK
    <3> QED BY <2>1, <3>1, MainCalls DEF OnConnected
  <2>2. CASE Cleanup
    <3>1. readerPC # "sync"
      BY <2>2 DEF Cleanup, IInv, Control, ReaderOK
    <3> QED BY <2>2, <3>1, MainCalls DEF Cleanup
  <2>3. CASE OnConnectedReturns \/ CleanupReturns
    <3>1. S!StopReturns(Main)
      BY <2>3 DEF OnConnectedReturns, CleanupReturns
    <3> QED BY <3>1, SameSockets DEF S!Next, S!StopStep
  <2> QED BY <1>1, <2>1, <2>2, <2>3 DEF RunStep, Connect, ServeEnds, SessionEnds, GiveUp
<1>2. CASE HandlerStep
  <2>1. CASE OnStreamStartOk
    <3>1. startID \in StreamIDs /\ dialed \in Cons
      BY <2>1 DEF OnStreamStartOk, IInv, Control, ReaderOK
    <3> QED BY <2>1, <3>1, FreeCalls DEF OnStreamStartOk
  <2>2. CASE OnSessionResetReturns
    BY <2>2, SameSockets DEF OnSessionResetReturns, S!Next, S!StopStep
  <2> QED BY <1>2, <2>1, <2>2 DEF HandlerStep, OnStreamStartExists, Refuse
<1>3. CASE StopGoes
  BY <1>3, SameSockets DEF StopGoes, S!Next, S!StopStep
<1>4. CASE ReceiveSessionReset
  <2>1. session \notin {"dropping", "cleanup"} /\ readerPC # "sync"
    BY <1>4 DEF ReceiveSessionReset, Receive
  <2> QED BY <1>4, <2>1, MainCalls DEF ReceiveSessionReset
<1>5. ASSUME NEW s \in StreamIDs, ReceiveStart(s) PROVE [P!Next]_sockVars
  <2>1. CASE UNCHANGED sockVars
    BY <2>1
  <2>2. ASSUME NEW k \in Cons, S!Open(k) PROVE P!Next
    BY <2>2, FreeCalls
  <2> QED BY <1>5, <2>1, <2>2 DEF ReceiveStart
<1>6. ASSUME NEW s \in StreamIDs, WorkerStep(s) PROVE [P!Next]_sockVars
  <2>1. CASE OnData(s) \/ OnStreamReset(s)
    BY <2>1, WorkerCalls DEF OnData, OnStreamReset, Busy
  <2>2. CASE OnDataWritten(s) \/ OnDataWriteFails(s) \/ OnStreamResetReturns(s)
    BY <2>2, SameSockets DEF OnDataWritten, OnDataWriteFails, OnStreamResetReturns, S!Next,
       S!StopStep
  <2> QED BY <1>6, <2>1, <2>2 DEF WorkerStep, OnDataUnknown, OnDataFailed
<1>7. ASSUME NEW k \in Cons, SocketStep(k) \/ LocalEnds(k) PROVE [P!Next]_sockVars
  BY <1>7, SameSockets DEF SocketStep, LocalEnds, OnReadData, OnReadError, SocketGoes, S!Next,
     S!SuckStep
<1>8. ASSUME NEW k \in Cons, AcceptStep(k) PROVE [P!Next]_sockVars
  <2>1. CASE AcceptStarts(k)
    <3>1. acceptID[k] \in StreamIDs
      BY <2>1 DEF AcceptStarts, IInv, Control, AcceptOK
    <3> QED BY <2>1, <3>1, FreeCalls DEF AcceptStarts
  <2>2. CASE StartFails(k)
    BY <2>2, SameSockets DEF StartFails, S!Next
  <2> QED BY <1>8, <2>1, <2>2 DEF AcceptStep, StartSent
<1>9. ASSUME NEW k \in Cons, NEW s \in StreamIDs, Accept(k, s) PROVE [P!Next]_sockVars
  BY <1>9, FreeCalls DEF Accept
<1>10. CASE Drop \/ ReceiveServiceIDs \/ UNCHANGED vars
  BY <1>10 DEF Drop, ReceiveServiceIDs, vars
<1>11. ASSUME NEW s \in StreamIDs,
              ReceiveData(s) \/ ReceiveReset(s) \/ WorkerStops(s) \/ PeerGetsReset(s)
       PROVE  [P!Next]_sockVars
  BY <1>11 DEF ReceiveData, ReceiveReset, ReceiveForWorker, WorkerStops, PeerGetsReset
<1> QED BY <1>1, <1>2, <1>3, <1>4, <1>5, <1>6, <1>7, <1>8, <1>9, <1>10, <1>11 DEF Next

-----------------------------------------------------------------------------
(* The lock and the writers.                                               *)
LEMMA HolderKeeps == ASSUME IInv, [Next]_vars PROVE HolderOK'
<1> USE NamesApart DEF IInv, Control, HolderOK
<1>0. fn \in [StreamIDs -> {"idle", "write", "failed", "stop"}] /\ writing \in [{Main} \cup StreamIDs -> Cons \cup {None}]
  BY DEF TypeOK, S!TypeOK
<1>1. CASE RunStep
  BY <1>1 DEF RunStep, Connect, OnConnected, OnConnectedReturns, ServeEnds, SessionEnds, GiveUp,
     Cleanup, CleanupReturns, RunUnchanged, S!StopBegin, S!StopReturns, S!Unlocked, ReaderOK,
     readVars, workVars, sockVars
<1>2. CASE HandlerStep
  BY <1>2 DEF HandlerStep, OnStreamStartOk, OnStreamStartExists, Refuse, OnSessionResetReturns,
     ReaderOK, HandlerUnchanged, S!StartSocket, S!StopReturns, runVars, workVars, sockVars
<1>3. CASE StopGoes
  BY <1>3 DEF StopGoes, SocketUnchanged, S!StopClose, S!StopWaited, runVars, readVars, workVars
<1>4. CASE ReceiveSessionReset
  BY <1>4 DEF ReceiveSessionReset, Receive, S!StopBegin, S!Unlocked, runVars, workVars
<1>5. ASSUME NEW s \in StreamIDs, ReceiveStart(s) PROVE HolderOK'
  BY <1>5 DEF ReceiveStart, Receive, S!Open, runVars, sockVars
<1>6. ASSUME NEW s \in StreamIDs, WorkerStep(s) PROVE HolderOK'
  <2>1. UNCHANGED <<session, readerPC>>
    BY <1>6, WorkerFrame DEF runVars, readVars
  <2>2. CASE OnData(s)
    BY <1>0, <2>1, <2>2 DEF OnData, Busy, Goes, S!WriteLookup
  <2>5. CASE OnDataUnknown(s)
    BY <1>0, <2>1, <2>5 DEF OnDataUnknown, Busy, Goes, sockVars
  <2>3. CASE OnDataWritten(s) \/ OnDataWriteFails(s) \/ OnDataFailed(s)
    BY <1>0, <2>1, <2>3 DEF OnDataWritten, OnDataWriteFails, OnDataFailed, Goes, Returns,
       S!WriteOk, S!WriteErr, sockVars
  <2>4. CASE OnStreamReset(s) \/ OnStreamResetReturns(s)
    BY <1>0, <2>1, <2>4 DEF OnStreamReset, OnStreamResetReturns, Busy, Goes, Returns,
       S!StopBegin, S!StopReturns, S!Unlocked
  <2> QED BY <1>6, <2>2, <2>3, <2>4, <2>5 DEF WorkerStep
<1>7. ASSUME NEW k \in Cons, SocketStep(k) \/ LocalEnds(k) PROVE HolderOK'
  <2>1. UNCHANGED <<holder, writing>>
    BY <1>7 DEF SocketStep, LocalEnds, OnReadData, OnReadError, SocketGoes, S!ReadOk, S!ReadErr,
       S!SuckEnd, S!SuckMoves, S!DeliverOk, S!DeliverErr, S!Reported, S!LocalEnds
  <2> QED BY <1>7, <2>1, ByItselfFrame DEF ByItself, runVars, readVars, workVars
<1>8. ASSUME NEW k \in Cons, AcceptStep(k) \/ \E s \in StreamIDs : Accept(k, s) PROVE HolderOK'
  BY <1>8, AcceptFrame DEF runVars, readVars
<1>9. CASE Drop \/ ReceiveServiceIDs \/ UNCHANGED vars
  BY <1>9 DEF Drop, ReceiveServiceIDs, Receive, RunUnchanged, vars, sockVars, runVars, readVars,
     workVars
<1>10. ASSUME NEW s \in StreamIDs, ReceiveData(s) \/ ReceiveReset(s) PROVE HolderOK'
  BY <1>10, ReceiveFrame DEF sockVars, runVars, readVars
<1>11. ASSUME NEW s \in StreamIDs, WorkerStops(s) \/ PeerGetsReset(s) PROVE HolderOK'
  BY <1>11, EndFrame DEF sockVars, runVars, readVars
<1> QED BY <1>1, <1>2, <1>3, <1>4, <1>5, <1>6, <1>7, <1>8, <1>9, <1>10, <1>11 DEF Next

(* The reader is idle when the session changes; no two of its handlers.    *)
LEMMA ReaderKeeps == ASSUME IInv, [Next]_vars PROVE ReaderOK'
<1> USE DEF IInv, Control, ReaderOK
<1>1. CASE RunStep
  BY <1>1 DEF RunStep, Connect, OnConnected, OnConnectedReturns, ServeEnds, SessionEnds, GiveUp,
     Cleanup, CleanupReturns, RunUnchanged, readVars
<1>2. CASE HandlerStep
  BY <1>2 DEF HandlerStep, OnStreamStartOk, OnStreamStartExists, Refuse, OnSessionResetReturns,
     HandlerUnchanged, runVars
<1>3. ASSUME NEW s \in StreamIDs, ReceiveStart(s) PROVE ReaderOK'
  BY <1>3 DEF ReceiveStart, Receive, runVars
<1>4. CASE ReceiveSessionReset
  BY <1>4 DEF ReceiveSessionReset, Receive, runVars
<1>5. CASE UNCHANGED <<session, readerPC, startID, dialed>>
  BY <1>5
<1> QED
  BY <1>1, <1>2, <1>3, <1>4, <1>5, RunFrame, SyncFrame, ReceiveFrame, WorkerFrame, EndFrame,
     ByItselfFrame, AcceptFrame DEF Next, ByItself, Drop, ReceiveServiceIDs, runVars, readVars,
     vars

(* The counters, and the StreamIDs of the accept handlers.                 *)
LEMMA CountsKeep == ASSUME IInv, [Next]_vars PROVE CountsOK' /\ AcceptOK'
<1> USE DEF IInv, Control, CountsOK, AcceptOK
<1>0. received \in Nat /\ peerSent \in [StreamIDs -> Nat] /\ accept \in [Cons -> {"none", "start", "sent"}]
      /\ acceptID \in [Cons -> StreamIDs \cup {None}]
  BY BoundsAssumption DEF TypeOK
<1>1. ASSUME NEW s \in StreamIDs, ReceiveStart(s) \/ ReceiveData(s) \/ ReceiveReset(s)
      PROVE  CountsOK' /\ AcceptOK'
  BY <1>0, <1>1 DEF ReceiveStart, ReceiveData, ReceiveReset, ReceiveForWorker, Receive
<1>2. CASE ReceiveSessionReset \/ ReceiveServiceIDs
  BY <1>0, <1>2 DEF ReceiveSessionReset, ReceiveServiceIDs, Receive
<1>3. ASSUME NEW k \in Cons, AcceptStep(k) PROVE CountsOK' /\ AcceptOK'
  BY <1>0, <1>3 DEF AcceptStep, StartSent, StartFails, AcceptStarts, peerVars
<1>4. ASSUME NEW k \in Cons, NEW s \in StreamIDs, Accept(k, s) PROVE CountsOK' /\ AcceptOK'
  BY <1>0, <1>4 DEF Accept, peerVars
<1>5. CASE UNCHANGED <<received, peerSent, accept, acceptID>>
  BY <1>5
<1> QED
  BY <1>1, <1>2, <1>3, <1>4, <1>5, RunFrame, HandlerFrame, WorkerFrame, EndFrame, ByItselfFrame
     DEF Next, ByItself, acceptVars, peerVars, vars

(* What appending to a queue and taking its head leave there.              *)
LEMMA QueueLemma ==
    /\ QueueOK(<<>>)
    /\ \A q : QueueOK(q) /\ q # <<>> => QueueOK(Tail(q)) /\ Head(q) \in Message
                                       /\ (Head(q).type = "data" => Head(q).n \in 1..MaxMessages)
    /\ \A q, m : QueueOK(q) /\ m \in Message /\ (m.type = "data" => m.n \in 1..MaxMessages)
            => /\ QueueOK(Append(q, m)) /\ Append(q, m) # <<>>
               /\ q # <<>> => Head(Append(q, m)) = Head(q)
<1>1. QueueOK(<<>>)
  BY DEF QueueOK
<1>2. ASSUME NEW q, QueueOK(q), q # <<>> PROVE QueueOK(Tail(q)) /\ Head(q) \in Message
                                       /\ (Head(q).type = "data" => Head(q).n \in 1..MaxMessages)
  <2>1. Head(q) = q[1] /\ Len(q) \in Nat /\ Len(q) >= 1 /\ Head(q) \in Message
    BY <1>2 DEF QueueOK
  <2>2. Tail(q) \in Seq(Message) /\ Len(Tail(q)) = Len(q) - 1
    BY <1>2 DEF QueueOK
  <2>3. \A i \in 1..Len(Tail(q)) : Tail(q)[i] = q[i + 1] /\ i + 1 \in 1..Len(q)
    BY <1>2, <2>1, <2>2 DEF QueueOK
  <2> QED BY <1>2, <2>1, <2>2, <2>3 DEF QueueOK
<1>3. ASSUME NEW q, NEW m, QueueOK(q), m \in Message, m.type = "data" => m.n \in 1..MaxMessages
      PROVE  /\ QueueOK(Append(q, m)) /\ Append(q, m) # <<>>
             /\ q # <<>> => Head(Append(q, m)) = Head(q)
  BY <1>3 DEF QueueOK
<1> QED BY <1>1, <1>2, <1>3

(* A function runs to its end before it leaves the head of the queue.      *)
LEMMA WorkersKeep == ASSUME IInv, [Next]_vars PROVE WorkersOK'
<1> USE DEF IInv, Control, WorkersOK, FnOK
<1>0. /\ queue \in [StreamIDs -> Seq(Message)] /\ fn \in [StreamIDs -> {"idle", "write", "failed", "stop"}]
      /\ peerSent \in [StreamIDs -> 0..MaxMessages] /\ received \in 0..MaxMessages
  BY DEF TypeOK, Message
<1>1. ASSUME NEW s \in StreamIDs, ReceiveData(s) \/ ReceiveReset(s) PROVE WorkersOK'
  <2>1. PICK m \in Message : /\ ReceiveForWorker(s, m)
                             /\ m.type = "data" => m.n \in 1..MaxMessages
    <3>1. CASE ReceiveData(s)
      <4> DEFINE m == [type |-> "data", n |-> peerSent[s] + 1]
      <4>1. peerSent[s] + 1 \in 1..MaxMessages
        BY <3>1, <1>0, BoundsAssumption DEF ReceiveData, ReceiveForWorker, Receive, CountsOK
      <4>2. m \in Message /\ m.n \in 1..MaxMessages
        BY <4>1 DEF Message
      <4> QED BY <3>1, <4>2 DEF ReceiveData
    <3>2. CASE ReceiveReset(s)
      <4> DEFINE m == [type |-> "reset", n |-> 0]
      <4>1. m \in Message /\ m.type # "data"
        BY BoundsAssumption DEF Message
      <4> QED BY <3>2, <4>1 DEF ReceiveReset
    <3> QED BY <1>1, <3>1, <3>2
  <2>2. UNCHANGED <<worker, fn>>
    BY <2>1 DEF ReceiveForWorker
  <2>3. queue' = IF s \in worker THEN [queue EXCEPT ![s] = Append(queue[s], m)] ELSE queue
    BY <2>1 DEF ReceiveForWorker, Enqueue
  <2>4. /\ QueueOK(Append(queue[s], m)) /\ Append(queue[s], m) # <<>>
        /\ queue[s] # <<>> => Head(Append(queue[s], m)) = Head(queue[s])
    BY <2>1, QueueLemma
  <2> DEFINE q == Append(queue[s], m)
  <2> HIDE DEF q
  <2>5. \A x \in StreamIDs : queue'[x] = IF x = s /\ s \in worker THEN q ELSE queue[x]
    BY <1>0, <2>3 DEF q
  <2> QED BY <2>2, <2>4, <2>5 DEF q
<1>2. ASSUME NEW s \in StreamIDs, WorkerStep(s) PROVE WorkersOK'
  <2>1. ASSUME NEW to \in {"write", "failed", "stop"}, Goes(s, to), s \in worker, queue[s] # <<>>,
               to # "stop" => Head(queue[s]).type = "data"
        PROVE  WorkersOK'
    BY <1>0, <2>1 DEF Goes
  <2>2. ASSUME Returns(s), fn[s] # "idle" PROVE WorkersOK'
    <3> DEFINE q == Tail(queue[s])
    <3>1. QueueOK(q)
      BY <2>2, QueueLemma
    <3>2. \A x \in StreamIDs : queue'[x] = IF x = s THEN q ELSE queue[x]
      BY <1>0, <2>2 DEF Returns
    <3> HIDE DEF q
    <3> QED BY <1>0, <2>2, <3>1, <3>2 DEF Returns
  <2>3. CASE OnData(s) \/ OnDataUnknown(s) \/ OnStreamReset(s)
    BY <2>1, <2>3 DEF OnData, OnDataUnknown, OnStreamReset, Busy
  <2>4. CASE OnDataWriteFails(s)
    BY <2>1, <2>4 DEF OnDataWriteFails
  <2>5. CASE OnDataWritten(s) \/ OnDataFailed(s) \/ OnStreamResetReturns(s)
    BY <2>2, <2>5 DEF OnDataWritten, OnDataFailed, OnStreamResetReturns
  <2> QED BY <1>2, <2>3, <2>4, <2>5 DEF WorkerStep
<1>3. ASSUME NEW s \in StreamIDs, WorkerStops(s) PROVE WorkersOK'
  <2>1. \A x \in StreamIDs : queue'[x] = IF x = s THEN <<>> ELSE queue[x]
    BY <1>0, <1>3 DEF WorkerStops
  <2>2. worker' = worker \ {s} /\ fn' = fn /\ fn[s] = "idle"
    BY <1>3 DEF WorkerStops
  <2> QED BY <2>1, <2>2, QueueLemma
<1>4. CASE worker \subseteq worker' /\ UNCHANGED <<queue, fn>>
  BY <1>4
<1> QED
  BY <1>1, <1>2, <1>3, <1>4, RunFrame, SyncFrame, HandlerFrame, ByItselfFrame, AcceptFrame DEF
     Next, ByItself, ReceiveStart, Accept, AcceptStep, StartSent, StartFails, AcceptStarts,
     PeerGetsReset, workVars, vars

(* The conjuncts of TypeOK, by the variables they type.                    *)
LEMMA RunTypesKeep ==
    ASSUME TypeOK, [Next]_vars
    PROVE  /\ session' \in {"away", "connected", "dropping", "serve", "ending", "leaving", "cleanup", "returned"}
           /\ up' \in BOOLEAN /\ connects' \in 0..MaxSessions
<1>1. CASE RunStep
  <2>1. up \in BOOLEAN /\ connects \in 0..MaxSessions
    BY DEF TypeOK
  <2>2. session' \in {"away", "connected", "dropping", "serve", "ending", "leaving", "cleanup", "returned"}
    BY <1>1 DEF RunStep, Connect, OnConnected, OnConnectedReturns, ServeEnds, SessionEnds,
       GiveUp, Cleanup, CleanupReturns
  <2>3. CASE Connect
    BY <2>1, <2>2, <2>3, BoundsAssumption DEF Connect
  <2>4. CASE UNCHANGED <<connects, up>>
    BY <2>1, <2>2, <2>4
  <2> QED
    BY <1>1, <2>3, <2>4 DEF RunStep, OnConnected, OnConnectedReturns, ServeEnds, SessionEnds,
       GiveUp, Cleanup, CleanupReturns
<1>2. CASE UNCHANGED <<session, connects>> /\ up' \in {up, FALSE}
  BY <1>2 DEF TypeOK
<1> QED
  BY <1>1, <1>2, SyncFrame, ReceiveFrame, HandlerFrame, WorkerFrame, EndFrame, ByItselfFrame,
     AcceptFrame DEF Next, ByItself, Drop, ReceiveStart, Receive, runVars, vars

ReaderTypes ==
    /\ readerPC \in {"idle", "start", "refuse", "sync"}
    /\ startID \in StreamIDs \cup {None} /\ dialed \in Cons \cup {None}
    /\ servers \in {"none", "idle", "listening"}
    /\ accept \in [Cons -> {"none", "start", "sent"}]
    /\ acceptID \in [Cons -> StreamIDs \cup {None}]

(* The reader's variables.                                                 *)
LEMMA ReaderTypesKeep == ASSUME TypeOK, [Next]_vars PROVE ReaderTypes'
<1> USE DEF ReaderTypes
<1>0. ReaderTypes
  BY DEF TypeOK
<1>1. CASE HandlerStep
  BY <1>0, <1>1 DEF HandlerStep, OnStreamStartOk, OnStreamStartExists, Refuse,
     OnSessionResetReturns, HandlerUnchanged, acceptVars
<1>2. ASSUME NEW s \in StreamIDs, ReceiveStart(s) PROVE ReaderTypes'
  BY <1>0, <1>2 DEF ReceiveStart, Receive
<1>3. CASE ReceiveSessionReset \/ ReceiveServiceIDs
  BY <1>0, <1>3 DEF ReceiveSessionReset, ReceiveServiceIDs, Receive, readVars
<1>4. ASSUME NEW k \in Cons, AcceptStep(k) \/ \E s \in StreamIDs : Accept(k, s)
      PROVE  ReaderTypes'
  <2>1. CASE AcceptStep(k)
    BY <1>0, <2>1 DEF AcceptStep, StartSent, StartFails, AcceptStarts, readVars
  <2>2. ASSUME NEW s \in StreamIDs, Accept(k, s) PROVE ReaderTypes'
    BY <1>0, <2>2 DEF Accept, readVars
  <2> QED BY <1>4, <2>1, <2>2
<1>5. CASE UNCHANGED <<readVars, acceptVars>>
  BY <1>0, <1>5 DEF readVars, acceptVars
<1> QED
  BY <1>1, <1>2, <1>3, <1>4, <1>5, RunFrame, ReceiveFrame, WorkerFrame, EndFrame, ByItselfFrame
     DEF Next, ByItself, vars

StreamTypes ==
    /\ used \subseteq StreamIDs
    /\ startedIn \in [StreamIDs -> 0..MaxSessions]
    /\ peer \in [StreamIDs -> {"closed", "open"}]
    /\ peerSent \in [StreamIDs -> 0..MaxMessages]
    /\ received \in 0..MaxMessages
    /\ worker \subseteq StreamIDs

(* The StreamIDs and what the peer has.                                    *)
LEMMA StreamTypesKeep == ASSUME IInv, [Next]_vars PROVE StreamTypes'
<1> USE BoundsAssumption DEF StreamTypes
<1>0. StreamTypes /\ CountsOK /\ connects \in 0..MaxSessions
  BY DEF IInv, Control, TypeOK
<1>1. ASSUME NEW s \in StreamIDs, ReceiveStart(s) \/ ReceiveData(s) \/ ReceiveReset(s)
      PROVE  StreamTypes'
  <2>1. received' \in 0..MaxMessages /\ peerSent[s] + 1 <= received'
    BY <1>0, <1>1 DEF ReceiveStart, ReceiveData, ReceiveReset, ReceiveForWorker, Receive, CountsOK
  <2>2. CASE ReceiveStart(s)
    BY <1>0, <2>1, <2>2 DEF ReceiveStart
  <2>3. CASE ReceiveData(s) \/ ReceiveReset(s)
    BY <1>0, <2>1, <2>3 DEF ReceiveData, ReceiveReset, ReceiveForWorker, idVars
  <2> QED BY <1>1, <2>2, <2>3
<1>2. CASE ReceiveSessionReset \/ ReceiveServiceIDs
  BY <1>0, <1>2 DEF ReceiveSessionReset, ReceiveServiceIDs, Receive, idVars, workVars
<1>3. CASE RunStep \/ Drop
  BY <1>0, <1>3, RunFrame DEF idVars, workVars
<1>4. ASSUME NEW k \in Cons, StartSent(k) \/ \E s \in StreamIDs : Accept(k, s)
      PROVE  StreamTypes'
  BY <1>0, <1>4 DEF StartSent, Accept, peerVars, workVars
<1>5. ASSUME NEW s \in StreamIDs, WorkerStops(s) \/ PeerGetsReset(s) PROVE StreamTypes'
  BY <1>0, <1>5 DEF WorkerStops, PeerGetsReset, peerVars, idVars, workVars
<1>6. CASE UNCHANGED <<idVars, peerVars, worker>>
  BY <1>0, <1>6 DEF idVars, peerVars
<1> QED
  BY <1>1, <1>2, <1>3, <1>4, <1>5, <1>6, RunFrame, HandlerFrame, WorkerFrame, ByItselfFrame
     DEF Next, ByItself, AcceptStep, StartFails, AcceptStarts, idVars, peerVars, workVars, vars

ResetTypes == stopAsked \subseteq StreamIDs /\ outReset \subseteq StreamIDs

(* The StreamResets asked for and sent.                                    *)
LEMMA ResetTypesKeep == ASSUME IInv, [Next]_vars PROVE ResetTypes'
<1> USE DEF ResetTypes, SendStreamReset
<1>0. TypeOK /\ ReaderOK /\ AcceptOK
  BY DEF IInv, Control
<1>1. CASE Refuse
  BY <1>0, <1>1 DEF Refuse, ReaderOK, TypeOK
<1>2. ASSUME NEW k \in Cons, OnReadError(k) PROVE ResetTypes'
  <2>1. streamOf[k] \in StreamIDs
    BY <1>2, NamesApart DEF OnReadError, S!Reported, S!SuckMoves, IInv, P!IInv,
       P!RunningIsMapped, P!Running
  <2> QED BY <1>0, <1>2, <2>1 DEF OnReadError, TypeOK
<1>3. ASSUME NEW k \in Cons, AcceptStep(k) PROVE ResetTypes'
  BY <1>0, <1>3 DEF AcceptStep, StartSent, StartFails, AcceptStarts, AcceptOK, TypeOK
<1>4. ASSUME NEW s \in StreamIDs, WorkerStep(s) \/ WorkerStops(s) \/ PeerGetsReset(s)
      PROVE  ResetTypes'
  BY <1>0, <1>4 DEF WorkerStep, OnData, OnDataUnknown, OnDataWritten, OnDataWriteFails,
     OnDataFailed, OnStreamReset, OnStreamResetReturns, WorkerStops, PeerGetsReset, TypeOK
<1>5. CASE UNCHANGED stopAsked /\ outReset' \subseteq outReset
  BY <1>0, <1>5 DEF TypeOK
<1> QED
  BY <1>1, <1>2, <1>3, <1>4, <1>5, RunFrame, SyncFrame, ReceiveFrame DEF Next, HandlerStep,
     OnStreamStartOk, OnStreamStartExists, OnSessionResetReturns, StopGoes, ReceiveStart,
     Receive, SocketStep, OnReadData, SocketGoes, LocalEnds, Accept, vars

WorkTypes ==
    /\ queue \in [StreamIDs -> Seq(Message)]
    /\ fn \in [StreamIDs -> {"idle", "write", "failed", "stop"}]
    /\ written \in [Cons -> Seq(1..MaxMessages)]

(* The workers, their queues and what they have written.                   *)
LEMMA WorkTypesKeep == ASSUME IInv, [Next]_vars, WorkersOK' PROVE WorkTypes'
<1> USE DEF WorkTypes
<1>0. WorkTypes /\ WorkersOK
  BY DEF IInv, Control, TypeOK, Message
<1>1. ASSUME NEW s \in StreamIDs, ReceiveForWorker(s, [type |-> "data", n |-> peerSent[s] + 1])
                                   \/ ReceiveForWorker(s, [type |-> "reset", n |-> 0]) PROVE WorkTypes'
  BY <1>0, <1>1 DEF ReceiveForWorker, Receive, Enqueue, WorkersOK, QueueOK
<1>2. ASSUME NEW s \in StreamIDs, OnDataWritten(s) PROVE WorkTypes'
  <2>1. Head(queue[s]).n \in 1..MaxMessages
    BY <1>0, <1>2, QueueLemma DEF OnDataWritten, WorkersOK, FnOK
  <2>2. written' \in [Cons -> Seq(1..MaxMessages)]
    <3> DEFINE n == Head(queue[s]).n
               k == writing[s]
    <3>1. written' = [written EXCEPT ![k] = Append(written[k], n)]
      BY <1>2 DEF OnDataWritten
    <3>2. n \in 1..MaxMessages
      BY <2>1
    <3> HIDE DEF n, k
    <3>3. \A x \in Cons : Append(written[x], n) \in Seq(1..MaxMessages)
      BY <1>0, <3>2
    <3> QED BY <1>0, <3>1, <3>3
  <2> QED BY <1>0, <1>2, <2>2 DEF OnDataWritten, Returns, WorkersOK, QueueOK
<1>3. ASSUME NEW s \in StreamIDs, Returns(s), UNCHANGED written PROVE WorkTypes'
  BY <1>0, <1>3 DEF Returns, WorkersOK, QueueOK
<1>4. ASSUME NEW s \in StreamIDs, NEW to \in {"write", "failed", "stop"}, Goes(s, to), UNCHANGED written
      PROVE  WorkTypes'
  BY <1>0, <1>4 DEF Goes
<1>5. ASSUME NEW s \in StreamIDs, WorkerStops(s) PROVE WorkTypes'
  BY <1>0, <1>5 DEF WorkerStops
<1>6. CASE UNCHANGED <<queue, fn, written>>
  BY <1>0, <1>6
<1>7. ASSUME NEW s \in StreamIDs, WorkerStep(s) PROVE WorkTypes'
  BY <1>2, <1>3, <1>4, <1>7 DEF WorkerStep, OnData, OnDataUnknown, OnDataWriteFails,
     OnDataFailed, OnStreamReset, OnStreamResetReturns
<1> QED
  BY <1>1, <1>5, <1>6, <1>7, RunFrame, SyncFrame, HandlerFrame, ByItselfFrame, AcceptFrame DEF
     Next, ByItself, ReceiveStart, Receive, ReceiveData, ReceiveReset, PeerGetsReset, workVars,
     vars

-----------------------------------------------------------------------------
(* The invariant holds at the start ...                                    *)
LEMMA InitIInv == Init => IInv
<1> SUFFICES ASSUME Init PROVE IInv
  OBVIOUS
<1>1. P!IInv
  BY SameSockets, P!InitIInv, NamesApart DEF Init, P!NoneAssumption
<1>2. TypeOK
  <2>1. S!TypeOK
    BY NamesApart DEF Init, S!Init, S!TypeOK
  <2>2. servers \in {"none", "idle", "listening"}
    <3>1. servers \in {IF m = "source" THEN "idle" ELSE "none" : m \in Modes}
      BY DEF Init
    <3> QED BY <3>1
  <2>3. \A s \in StreamIDs : fn[s] = "idle" /\ writing[s] = None
    BY DEF Init, S!Init
  <2>4. connects \in 0..MaxSessions /\ received \in 0..MaxMessages
    <3>1. connects = 0 /\ received = 0
      BY DEF Init
    <3> QED BY <3>1, BoundsAssumption
  <2>5. ReaderTypes
    <3>1. /\ readerPC = "idle" /\ startID = None /\ dialed = None
          /\ accept = [k \in Cons |-> "none"] /\ acceptID = [k \in Cons |-> None]
      BY DEF Init
    <3> QED BY <2>2, <3>1 DEF ReaderTypes
  <2>7. StreamTypes /\ ResetTypes
    BY BoundsAssumption DEF Init, StreamTypes, ResetTypes
  <2>8. WorkTypes
    <3>1. <<>> \in Seq(Message) /\ <<>> \in Seq(1..MaxMessages)
      OBVIOUS
    <3> QED BY <3>1 DEF Init, WorkTypes
  <2>6. session = "away" /\ up \in BOOLEAN
    BY DEF Init
  <2> QED BY <2>1, <2>3, <2>4, <2>5, <2>6, <2>7, <2>8 DEF TypeOK, ReaderTypes, StreamTypes,
      ResetTypes, WorkTypes, Message
<1>3. HolderOK /\ ReaderOK /\ CountsOK /\ AcceptOK
  BY NamesApart, BoundsAssumption DEF Init, S!Init, HolderOK, ReaderOK, CountsOK, AcceptOK
<1>4. WorkersOK
  BY QueueLemma DEF Init, WorkersOK, FnOK
<1> QED BY <1>1, <1>2, <1>3, <1>4 DEF IInv, Control

(* ... every step keeps it ...                                             *)
LEMMA Inductive == IInv /\ [Next]_vars => IInv'
<1> SUFFICES ASSUME IInv, [Next]_vars PROVE IInv'
  OBVIOUS
<1>1. P!IInv'
  BY StepUsesSockets, SocketsKeep DEF IInv
<1>2. HolderOK' /\ ReaderOK' /\ WorkersOK' /\ CountsOK' /\ AcceptOK'
  BY HolderKeeps, ReaderKeeps, WorkersKeep, CountsKeep
<1>3. S!TypeOK'
  BY <1>1 DEF P!IInv, S!TypeOK, P!TypeOK
<1>4. /\ session' \in {"away", "connected", "dropping", "serve", "ending", "leaving", "cleanup", "returned"}
      /\ up' \in BOOLEAN /\ connects' \in 0..MaxSessions
  BY RunTypesKeep DEF IInv
<1>5. ReaderTypes' /\ StreamTypes' /\ ResetTypes' /\ WorkTypes'
  BY <1>2, ReaderTypesKeep, StreamTypesKeep, ResetTypesKeep, WorkTypesKeep DEF IInv
<1>6. TypeOK'
  BY <1>2, <1>3, <1>4, <1>5 DEF TypeOK, HolderOK, ReaderTypes, StreamTypes, ResetTypes,
     WorkTypes, Message
<1> QED BY <1>1, <1>2, <1>6 DEF IInv, Control

(* ... and so it always holds.                                             *)
LEMMA IInvHolds == Spec => []IInv
BY InitIInv, Inductive, PTL DEF Spec

(* The variables of the local proxy keep their types, and only a worker    *)
(* whose function writes has looked a connection up.                       *)
THEOREM TypeCorrect == Spec => []TypeOK
BY IInvHolds, PTL DEF IInv

(* localproxy.go, socket_manager.go: whatever Run, the reader, workers and *)
(* accept handlers do, they use the socket manager as it was meant to be.  *)
THEOREM SocketsUsed == Spec => UsesLocalSockets
<1>1. IInv /\ [Next]_vars => [S!Next]_(S!vars)
  BY StepUsesSockets, SameSockets DEF S!vars, sockVars
<1>2. Init => S!Init
  BY DEF Init
<1> QED BY <1>1, <1>2, IInvHolds, PTL DEF Spec, UsesLocalSockets, S!Spec

-----------------------------------------------------------------------------
(* What the sockets do by themselves: a connection is only closed, and     *)
(* only what is closed leaves the map.                                     *)
Declines ==
    /\ \A k \in Cons : con'[k] # "closed" => con[k] = con'[k]
    /\ \A k \in Cons : local[k] = "reset" => local'[k] = "reset"
    /\ \A s \in StreamIDs :
          \/ socketMap'[s] = socketMap[s] /\ (s \in toStop => s \in toStop')
          \/ socketMap'[s] = None /\ socketMap[s] \in Cons /\ con[socketMap[s]] = "closed"
    /\ UNCHANGED <<streamOf, holder, writing>>

(* What nobody calls only closes connections and clears places.            *)
LEMMA ByItselfDeclines == ASSUME IInv, ByItself PROVE Declines
<1> USE DEF Declines
<1>0. /\ con \in [Cons -> {"new", "open", "closed"}] /\ local \in [Cons -> {"there", "gone", "reset"}]
      /\ socketMap \in [StreamIDs -> Cons \cup {None}] /\ closing \in toStop \cup {None}
      /\ toStop \subseteq StreamIDs
  BY DEF IInv, TypeOK, S!TypeOK
<1>1. ASSUME NEW t \in {Main} \cup StreamIDs, S!StopWaited(t) PROVE Declines
  <2>1. closing \in toStop /\ socketMap[closing] \in Cons /\ con[socketMap[closing]] = "closed"
    BY <1>0, <1>1 DEF S!StopWaited, IInv, P!IInv, P!ToStopIsMapped, P!Mapped, P!DoneIsClosed
  <2> QED BY <1>0, <1>1, <2>1 DEF S!StopWaited
<1>2. ASSUME NEW t \in {Main} \cup StreamIDs, NEW s \in StreamIDs, S!StopClose(t, s)
      PROVE  Declines
  BY <1>0, <1>2 DEF S!StopClose
<1>3. ASSUME NEW k \in Cons, SocketStep(k) PROVE Declines
  <2>1. CASE S!SuckEnd(k)
    BY <1>0, <2>1 DEF S!SuckEnd
  <2>2. CASE UNCHANGED <<con, local, socketMap, streamOf, holder, toStop, closing, writing>>
    BY <2>2
  <2> QED
    BY <1>3, <2>1, <2>2 DEF SocketStep, OnReadData, OnReadError, SocketGoes, S!ReadOk,
       S!ReadErr, S!DeliverOk, S!DeliverErr, S!Reported, S!SuckMoves
<1>4. ASSUME NEW k \in Cons, LocalEnds(k) PROVE Declines
  BY <1>0, <1>4 DEF LocalEnds, S!LocalEnds
<1> QED BY <1>1, <1>2, <1>3, <1>4 DEF ByItself, StopGoes

-----------------------------------------------------------------------------
(* No StreamID is used twice, so a connection that was dialed or accepted  *)
(* finds it free.                                                          *)
UsedOK ==
    /\ \A s \in StreamIDs : socketMap[s] # None \/ s \in worker => s \in used
    /\ readerPC = "start" => startID \in used /\ servers = "none"
    /\ \A k \in Cons : accept[k] # "none" => servers # "none" /\ acceptID[k] \in used

OwnedOK ==
    /\ NoOrphan
    /\ readerPC # "start" => dialed = None
    /\ readerPC = "start" => socketMap[startID] = None

OrphanInv == UsedOK /\ OwnedOK

(* A StreamID that is mapped or has a worker has been used.                *)
LEMMA UsedKeeps == ASSUME IInv, UsedOK, [Next]_vars PROVE UsedOK'
<1> USE DEF UsedOK
<1>0. /\ accept \in [Cons -> {"none", "start", "sent"}] /\ acceptID \in [Cons -> StreamIDs \cup {None}]
      /\ socketMap \in [StreamIDs -> Cons \cup {None}]
  BY DEF IInv, TypeOK, S!TypeOK
<1>1. CASE ByItself
  BY <1>1, ByItselfDeclines, ByItselfFrame DEF Declines, readVars, workVars, acceptVars, idVars
<1>2. CASE OnStreamStartOk
  BY <1>0, <1>2 DEF OnStreamStartOk, S!StartSocket, HandlerUnchanged, workVars, acceptVars, idVars
<1>3. ASSUME NEW s \in StreamIDs, ReceiveStart(s) PROVE UsedOK'
  BY <1>0, <1>3 DEF ReceiveStart, Receive, S!Open, sockVars
<1>4. CASE ReceiveServiceIDs
  BY <1>4 DEF ReceiveServiceIDs, Receive, sockVars, readVars, workVars, idVars
<1>5. ASSUME NEW k \in Cons, NEW s \in StreamIDs, Accept(k, s) PROVE UsedOK'
  BY <1>0, <1>5 DEF Accept, S!Open, readVars
<1>6. ASSUME NEW k \in Cons, AcceptStep(k) PROVE UsedOK'
  <2>1. CASE AcceptStarts(k)
    BY <1>0, <2>1 DEF AcceptStarts, S!StartSocket, readVars, workVars, idVars
  <2>2. CASE StartSent(k) \/ StartFails(k)
    BY <1>0, <2>2 DEF StartSent, StartFails, S!Abandon, sockVars, readVars, workVars, idVars
  <2> QED BY <1>6, <2>1, <2>2 DEF AcceptStep
<1>7. CASE /\ UNCHANGED <<socketMap, used, servers, accept, acceptID>> /\ worker' \subseteq worker
           /\ readerPC' = "start" => readerPC = "start" /\ startID' = startID
  BY <1>7
<1>8. ASSUME NEW s \in StreamIDs, WorkerStep(s) PROVE UsedOK'
  BY <1>7, <1>8, WorkerFrame DEF readVars, acceptVars, idVars
<1>9. CASE RunStep \/ Drop
  BY <1>7, <1>9, RunFrame DEF readVars, workVars, acceptVars, idVars
<1>10. ASSUME NEW s \in StreamIDs, ReceiveData(s) \/ ReceiveReset(s) \/ WorkerStops(s) \/ PeerGetsReset(s)
       PROVE  UsedOK'
  BY <1>7, <1>10 DEF ReceiveData, ReceiveReset, ReceiveForWorker, Receive, WorkerStops,
     PeerGetsReset, sockVars, readVars, workVars, acceptVars, idVars
<1>11. CASE ReceiveSessionReset \/ UNCHANGED vars
  BY <1>7, <1>11 DEF ReceiveSessionReset, Receive, S!StopBegin, sockVars, readVars, workVars,
     acceptVars, idVars, vars
<1>12. CASE OnStreamStartExists \/ Refuse \/ OnSessionResetReturns
  BY <1>7, <1>12 DEF OnStreamStartExists, Refuse, OnSessionResetReturns, HandlerUnchanged,
     S!StopReturns, sockVars, workVars, acceptVars, idVars
<1> QED BY <1>1, <1>2, <1>3, <1>4, <1>5, <1>6, <1>8, <1>9, <1>10, <1>11, <1>12 DEF Next,
    HandlerStep, ByItself

(* A connection that is left over has somebody who will stop it.           *)
LEMMA OwnedKeeps == ASSUME ~Reuse, IInv, OrphanInv, [Next]_vars PROVE OwnedOK'
<1> USE NamesApart DEF OrphanInv, OwnedOK, NoOrphan
<1>0. /\ con \in [Cons -> {"new", "open", "closed"}] /\ socketMap \in [StreamIDs -> Cons \cup {None}]
      /\ accept \in [Cons -> {"none", "start", "sent"}] /\ acceptID \in [Cons -> StreamIDs \cup {None}]
  BY DEF IInv, TypeOK, S!TypeOK
<1>1. CASE ByItself
  BY <1>0, <1>1, ByItselfDeclines, ByItselfFrame DEF Declines, readVars, acceptVars, IInv,
     Control, ReaderOK
<1>2. CASE OnStreamStartOk
  <2>1. startID \in StreamIDs /\ dialed \in Cons
    BY <1>2 DEF OnStreamStartOk, IInv, Control, ReaderOK
  <2> QED BY <1>0, <1>2, <2>1 DEF OnStreamStartOk, S!StartSocket, HandlerUnchanged, acceptVars
<1>3. CASE OnStreamStartExists
  BY <1>3 DEF OnStreamStartExists
<1>4. ASSUME NEW s \in StreamIDs, ReceiveStart(s) PROVE OwnedOK'
  <2>1. socketMap[s] = None
    BY <1>4 DEF ReceiveStart, UsedOK
  <2> QED BY <1>0, <1>4, <2>1 DEF ReceiveStart, Receive, S!Open, sockVars
<1>5. ASSUME NEW k \in Cons, NEW s \in StreamIDs, Accept(k, s) PROVE OwnedOK'
  BY <1>0, <1>5 DEF Accept, S!Open, readVars
<1>6. ASSUME NEW k \in Cons, AcceptStep(k) PROVE OwnedOK'
  <2>1. CASE AcceptStarts(k)
    <3>1. acceptID[k] \in StreamIDs /\ readerPC # "start"
      BY <2>1 DEF AcceptStarts, UsedOK, IInv, Control, AcceptOK
    <3> QED BY <1>0, <2>1, <3>1 DEF AcceptStarts, S!StartSocket, readVars
  <2>2. CASE StartSent(k) \/ StartFails(k)
    BY <1>0, <2>2 DEF StartSent, StartFails, S!Abandon, sockVars, readVars
  <2> QED BY <1>6, <2>1, <2>2 DEF AcceptStep
<1>7. CASE UNCHANGED <<con, socketMap, accept, dialed>> /\ (readerPC' = "start" <=> readerPC = "start")
           /\ (readerPC = "start" => startID' = startID)
  BY <1>7
<1>8. ASSUME NEW s \in StreamIDs, WorkerStep(s) PROVE OwnedOK'
  BY <1>7, <1>8, WorkerFrame DEF readVars, acceptVars
<1>9. CASE RunStep \/ Drop
  BY <1>7, <1>9, RunFrame DEF readVars, acceptVars
<1>10. ASSUME NEW s \in StreamIDs, ReceiveData(s) \/ ReceiveReset(s) \/ WorkerStops(s) \/ PeerGetsReset(s)
       PROVE  OwnedOK'
  BY <1>7, <1>10 DEF ReceiveData, ReceiveReset, ReceiveForWorker, Receive, WorkerStops,
     PeerGetsReset, sockVars, readVars, acceptVars
<1>11. CASE ReceiveSessionReset \/ ReceiveServiceIDs \/ UNCHANGED vars
  BY <1>7, <1>11 DEF ReceiveSessionReset, ReceiveServiceIDs, Receive, S!StopBegin, sockVars,
     readVars, acceptVars, vars
<1>12. CASE Refuse \/ OnSessionResetReturns
  BY <1>7, <1>12 DEF Refuse, OnSessionResetReturns, HandlerUnchanged, S!StopReturns, sockVars,
     acceptVars
<1> QED BY <1>1, <1>2, <1>3, <1>4, <1>5, <1>6, <1>8, <1>9, <1>10, <1>11, <1>12 DEF Next,
    HandlerStep, ByItself

(* socket_manager.go:88, localproxy.go:198: when a peer never uses a       *)
(* StreamID again, every open connection is in the map or in the hands of  *)
(* a handler, in both modes.                                               *)
THEOREM NothingOrphaned == ASSUME ~Reuse PROVE Spec => []NoOrphan
<1>1. Init => OrphanInv
  <2> SUFFICES ASSUME Init PROVE OrphanInv
    OBVIOUS
  <2>1. /\ con = [k \in Cons |-> "new"] /\ socketMap = [s \in StreamIDs |-> None] /\ worker = {}
        /\ readerPC = "idle" /\ dialed = None /\ accept = [k \in Cons |-> "none"]
    BY DEF Init, S!Init
  <2> QED BY <2>1 DEF OrphanInv, UsedOK, OwnedOK, NoOrphan
<1>2. IInv /\ OrphanInv /\ [Next]_vars => OrphanInv'
  BY UsedKeeps, OwnedKeeps DEF OrphanInv
<1>3. OrphanInv => NoOrphan
  BY DEF OrphanInv, OwnedOK
<1> QED BY <1>1, <1>2, <1>3, IInvHolds, PTL DEF Spec

-----------------------------------------------------------------------------
(* In destination mode only the reader opens connections, and a stop of    *)
(* all sockets finds every one of the session before.                      *)
DestinationOnly == servers = "none" /\ \A k \in Cons : accept[k] = "none"

OpenSockets == {s \in StreamIDs : socketMap[s] # None /\ con[socketMap[s]] = "open"}

SessionOK ==
    /\ session = "serve" => \A s \in OpenSockets : startedIn[s] = connects
    /\ session \in {"dropping", "cleanup"} => OpenSockets \subseteq toStop
    /\ session = "returned" => OpenSockets = {}
    /\ readerPC = "start" => startedIn[startID] = connects

SessionInv == DestinationOnly /\ SessionOK

(* Who opens no connection and fills no place in the map.                  *)
LEMMA OpenSocketsShrink ==
    ASSUME IInv, ByItself
    PROVE  OpenSockets' \subseteq OpenSockets /\ (OpenSockets \subseteq toStop => OpenSockets' \subseteq toStop')
<1>1. con \in [Cons -> {"new", "open", "closed"}] /\ socketMap \in [StreamIDs -> Cons \cup {None}]
  BY DEF IInv, TypeOK, S!TypeOK
<1> QED BY <1>1, ByItselfDeclines, NamesApart DEF Declines, OpenSockets

(* The sockets of a session that is over are gone.                         *)
LEMMA SessionKeeps == ASSUME IInv, SessionInv, [Next]_vars PROVE SessionInv'
<1> USE NamesApart DEF SessionInv, DestinationOnly, SessionOK
<1>0. /\ con \in [Cons -> {"new", "open", "closed"}] /\ socketMap \in [StreamIDs -> Cons \cup {None}]
      /\ startedIn \in [StreamIDs -> 0..MaxSessions] /\ toStop \subseteq StreamIDs
  BY DEF IInv, TypeOK, S!TypeOK
<1>1. CASE ByItself
  BY <1>1, OpenSocketsShrink, ByItselfFrame DEF runVars, readVars, acceptVars, idVars
<1>2. CASE RunStep
  <2>1. UNCHANGED <<readVars, acceptVars, startedIn, con, socketMap>>
    BY <1>2, RunFrame DEF idVars
  <2>2. OpenSockets' = OpenSockets
    BY <2>1 DEF OpenSockets
  <2>3. session # "serve" => readerPC # "start"
    BY DEF IInv, Control, ReaderOK
  <2>4. CASE OnConnected \/ Cleanup
    <3>1. toStop' = {s \in StreamIDs : socketMap[s] # None}
      BY <2>4 DEF OnConnected, Cleanup, S!StopBegin, S!Mapped
    <3> QED BY <2>1, <2>2, <2>3, <2>4, <3>1 DEF OnConnected, Cleanup, OpenSockets, readVars,
        acceptVars
  <2>5. CASE OnConnectedReturns \/ CleanupReturns
    BY <2>1, <2>2, <2>3, <2>5 DEF OnConnectedReturns, CleanupReturns, S!StopReturns, readVars,
       acceptVars
  <2>6. CASE Connect \/ ServeEnds \/ SessionEnds \/ GiveUp
    BY <2>1, <2>2, <2>3, <2>6 DEF Connect, ServeEnds, SessionEnds, GiveUp, readVars, acceptVars,
       IInv, Control, ReaderOK
  <2> QED BY <1>2, <2>4, <2>5, <2>6 DEF RunStep
<1>3. CASE OnStreamStartOk
  <2>1. startID \in StreamIDs /\ dialed \in Cons /\ session = "serve"
    BY <1>3 DEF OnStreamStartOk, IInv, Control, ReaderOK
  <2>2. OpenSockets' \subseteq OpenSockets \cup {startID}
    BY <1>0, <1>3, <2>1 DEF OnStreamStartOk, S!StartSocket, OpenSockets
  <2> QED BY <1>3, <2>1, <2>2 DEF OnStreamStartOk, HandlerUnchanged, runVars, acceptVars, idVars
<1>4. ASSUME NEW s \in StreamIDs, ReceiveStart(s) PROVE SessionInv'
  <2>1. session = "serve" /\ session' = "serve" /\ connects' = connects /\ UNCHANGED <<socketMap, servers, accept>>
    BY <1>4 DEF ReceiveStart, Receive, S!Open, runVars, sockVars
  <2>2. startedIn' = [startedIn EXCEPT ![s] = connects] /\ startID' = s
    BY <1>4 DEF ReceiveStart
  <2>3. \A k \in Cons : con'[k] = "open" => con[k] = "open" \/ con[k] = "new"
    BY <1>0, <1>4 DEF ReceiveStart, S!Open, sockVars
  <2>4. \A x \in StreamIDs : socketMap[x] # None => con[socketMap[x]] # "new"
    BY <1>0 DEF IInv, P!IInv, P!MapIsInverse, P!Mapped
  <2>5. OpenSockets' \subseteq OpenSockets
    BY <1>0, <2>1, <2>3, <2>4 DEF OpenSockets
  <2>6. \A x \in OpenSockets : startedIn'[x] = connects
    BY <1>0, <2>1, <2>2 DEF OpenSockets
  <2> QED BY <1>0, <2>1, <2>2, <2>5, <2>6
<1>5. CASE /\ UNCHANGED <<con, socketMap, session, connects, servers, accept, startedIn>>
           /\ readerPC' = "start" => readerPC = "start" /\ startID' = startID
           /\ session \in {"dropping", "cleanup"} => toStop' = toStop
  <2>1. OpenSockets' = OpenSockets
    BY <1>5 DEF OpenSockets
  <2> QED BY <1>5, <2>1
<1>6. ASSUME NEW s \in StreamIDs, WorkerStep(s) PROVE SessionInv'
  <2>1. UNCHANGED <<con, socketMap, runVars, readVars, acceptVars, idVars>>
    BY <1>6, WorkerFrame
  <2>2. toStop' = toStop \/ holder = None
    BY <1>6, WorkerSockets DEF IInv
  <2> QED BY <1>5, <2>1, <2>2 DEF runVars, readVars, acceptVars, idVars, IInv, Control, HolderOK
<1>7. ASSUME NEW s \in StreamIDs, ReceiveData(s) \/ ReceiveReset(s) \/ WorkerStops(s) \/ PeerGetsReset(s)
      PROVE  SessionInv'
  BY <1>5, <1>7 DEF ReceiveData, ReceiveReset, ReceiveForWorker, Receive, WorkerStops,
     PeerGetsReset, sockVars, runVars, readVars, acceptVars, idVars
<1>8. CASE ReceiveSessionReset
  BY <1>5, <1>8 DEF ReceiveSessionReset, Receive, S!StopBegin, runVars, idVars
<1>9. CASE Drop \/ UNCHANGED vars
  BY <1>5, <1>9 DEF Drop, RunUnchanged, sockVars, runVars, readVars, acceptVars, idVars, vars
<1>10. CASE OnStreamStartExists \/ Refuse \/ OnSessionResetReturns
  BY <1>5, <1>10 DEF OnStreamStartExists, Refuse, OnSessionResetReturns, HandlerUnchanged,
     S!StopReturns, sockVars, runVars, acceptVars, idVars
<1>11. ~ReceiveServiceIDs /\ (\A k \in Cons : ~AcceptStep(k) /\ \A s \in StreamIDs : ~Accept(k, s))
  BY DEF ReceiveServiceIDs, AcceptStep, StartSent, StartFails, AcceptStarts, Accept
<1> QED BY <1>1, <1>2, <1>3, <1>4, <1>6, <1>7, <1>8, <1>9, <1>10, <1>11 DEF Next, HandlerStep,
    ByItself

(* localproxy.go:177, 198: in destination mode no open connection is of an *)
(* earlier session, and none is left when Run returns.                     *)
THEOREM OnlyThisSession == ASSUME Modes = {"destination"} PROVE Spec => []OfThisSession
<1>1. Init => SessionInv
  <2> SUFFICES ASSUME Init PROVE SessionInv
    OBVIOUS
  <2>1. /\ socketMap = [s \in StreamIDs |-> None] /\ session = "away" /\ readerPC = "idle"
        /\ accept = [k \in Cons |-> "none"]
    BY DEF Init, S!Init
  <2>2. servers = "none"
    BY DEF Init
  <2> QED BY <2>1, <2>2 DEF SessionInv, DestinationOnly, SessionOK
<1>2. IInv /\ SessionInv /\ [Next]_vars => SessionInv'
  BY SessionKeeps
<1>3. SessionInv => OfThisSession
  BY DEF SessionInv, SessionOK, OpenSockets, OfThisSession
<1> QED BY <1>1, <1>2, <1>3, IInvHolds, PTL DEF Spec

-----------------------------------------------------------------------------
(* The Data in a worker's queue goes on where the Data written ends, and   *)
(* the peer goes on where the queue ends.                                  *)
ContinuesOK(s) ==
    LET n == Len(written[socketMap[s]])
    IN /\ \A i \in 1..Len(queue[s]) : queue[s][i].type = "data" => queue[s][i].n = n + i
       /\ s \in worker /\ peer[s] = "open" => peerSent[s] = n + Len(queue[s])

FnTargetOK(s) ==
    /\ fn[s] = "write" => \/ socketMap[s] = writing[s]
                          \/ socketMap[s] = None /\ con[writing[s]] = "closed"
    /\ fn[s] = "failed" => ~Live(s)
    /\ fn[s] = "stop" /\ socketMap[s] # None => s \in toStop

StreamOK(s) ==
    /\ s \notin worker => queue[s] = <<>>
    /\ Live(s) => ContinuesOK(s)
    /\ FnTargetOK(s)

NothingYet ==
    /\ readerPC = "start" => queue[startID] = <<>> /\ peerSent[startID] = 0
    /\ \A k \in Cons : streamOf[k] = None => written[k] = <<>>

DataInv == DestinationOnly /\ UsedOK /\ NothingYet /\ DataPrefix /\ \A s \in StreamIDs : StreamOK(s)

(* A step that leaves the sequences of a stream alone.                     *)
LEMMA StreamFrame ==
    ASSUME NEW s \in StreamIDs, StreamOK(s),
           queue'[s] = queue[s], s \in worker' <=> s \in worker,
           Live(s)' => /\ Live(s) /\ socketMap'[s] = socketMap[s]
                       /\ written'[socketMap[s]] = written[socketMap[s]]
                       /\ peer'[s] = "open" => peer[s] = "open" /\ peerSent'[s] = peerSent[s],
           FnTargetOK(s)'
    PROVE  StreamOK(s)'
BY DEF StreamOK, ContinuesOK

(* The goroutines of the connections.                                      *)
LEMMA DataByItself == ASSUME IInv, DataInv, ByItself PROVE DataInv'
<1>0. /\ con \in [Cons -> {"new", "open", "closed"}] /\ socketMap \in [StreamIDs -> Cons \cup {None}]
      /\ local \in [Cons -> {"there", "gone", "reset"}]
      /\ con' \in [Cons -> {"new", "open", "closed"}] /\ writing \in [{Main} \cup StreamIDs -> Cons \cup {None}]
      /\ \A s \in StreamIDs : fn[s] = "write" <=> writing[s] # None
  <2>1. IInv'
    BY Inductive DEF Next, ByItself
  <2> QED BY <2>1 DEF IInv, TypeOK, S!TypeOK
<1>1. UNCHANGED <<runVars, up, readVars, workVars, acceptVars, idVars, peerVars, written>>
  BY ByItselfFrame
<1>2. DestinationOnly' /\ DataPrefix'
  BY <1>1 DEF DataInv, DestinationOnly, DataPrefix, acceptVars
<1>3. UsedOK'
  BY UsedKeeps DEF DataInv, Next, ByItself
<1>4. NothingYet'
  BY <1>1, ByItselfDeclines DEF DataInv, NothingYet, Declines, readVars, workVars, peerVars
<1>5. ASSUME NEW s \in StreamIDs PROVE StreamOK(s)'
  <2>1. Live(s)' => Live(s) /\ socketMap'[s] = socketMap[s]
    BY <1>0, ByItselfDeclines, NamesApart DEF Declines, Live
  <2>2. FnTargetOK(s)'
    BY <1>0, <1>1, <2>1, ByItselfDeclines, NamesApart DEF Declines, FnTargetOK, workVars,
       DataInv, StreamOK
  <2> QED BY <1>1, <2>1, <2>2, StreamFrame DEF workVars, peerVars, DataInv
<1> QED BY <1>2, <1>3, <1>4, <1>5 DEF DataInv

(* A step that concerns no connection, no worker and no queue.             *)
LEMMA DataElsewhere ==
    ASSUME IInv, DataInv, [Next]_vars,
           UNCHANGED <<con, local, socketMap, streamOf, writing, workVars, peerSent, written, servers, accept>>,
           toStop' = toStop \/ holder = None,
           \A s \in StreamIDs : peer'[s] = "open" => peer[s] = "open",
           readerPC' = "start" => readerPC = "start" /\ startID' = startID
    PROVE  DataInv'
<1>1. DestinationOnly' /\ DataPrefix' /\ NothingYet'
  BY DEF DataInv, DestinationOnly, DataPrefix, NothingYet, workVars
<1>2. UsedOK'
  BY UsedKeeps DEF DataInv
<1>3. ASSUME NEW s \in StreamIDs PROVE StreamOK(s)'
  <2>1. FnTargetOK(s)'
    BY NamesApart DEF DataInv, StreamOK, FnTargetOK, Live, workVars, IInv, Control, HolderOK
  <2> QED BY <2>1, StreamFrame DEF DataInv, Live, workVars
<1> QED BY <1>1, <1>2, <1>3 DEF DataInv

(* The reader and Run.                                                     *)
LEMMA DataReader ==
    ASSUME IInv, DataInv, [Next]_vars,
           \/ RunStep \/ Drop \/ OnStreamStartExists \/ Refuse \/ OnSessionResetReturns \/ ReceiveSessionReset
           \/ ReceiveServiceIDs \/ UNCHANGED vars
    PROVE  DataInv'
<1>1. CASE RunStep \/ Drop
  BY <1>1, DataElsewhere DEF RunStep, Connect, OnConnected, OnConnectedReturns, ServeEnds,
     SessionEnds, GiveUp, Cleanup, CleanupReturns, Drop, RunUnchanged, S!StopBegin,
     S!StopReturns, S!Unlocked, sockVars, readVars, acceptVars, peerVars
<1>2. CASE OnStreamStartExists \/ Refuse \/ OnSessionResetReturns
  BY <1>2, DataElsewhere DEF OnStreamStartExists, Refuse, OnSessionResetReturns,
     HandlerUnchanged, S!StopReturns, sockVars, acceptVars, peerVars
<1>3. CASE ReceiveSessionReset
  BY <1>3, DataElsewhere DEF ReceiveSessionReset, Receive, S!StopBegin, S!Unlocked
<1>4. CASE UNCHANGED vars
  BY <1>4, DataElsewhere DEF vars, sockVars, readVars, acceptVars, peerVars
<1>5. ~ReceiveServiceIDs
  BY DEF ReceiveServiceIDs, DataInv, DestinationOnly
<1> QED BY <1>1, <1>2, <1>3, <1>4, <1>5

(* A StreamStart finds no live connection under its StreamID ...           *)
LEMMA DataStart == ASSUME IInv, DataInv, NEW s \in StreamIDs, ReceiveStart(s) PROVE DataInv'
<1>0. /\ con \in [Cons -> {"new", "open", "closed"}] /\ socketMap \in [StreamIDs -> Cons \cup {None}]
      /\ peer \in [StreamIDs -> {"closed", "open"}] /\ peerSent \in [StreamIDs -> 0..MaxMessages]
  BY DEF IInv, TypeOK, S!TypeOK
<1>1. s \notin worker /\ queue[s] = <<>>
  BY <1>0 DEF ReceiveStart, Quiet, DataInv, UsedOK, StreamOK
<1>2. ~Live(s)
  <2>1. CASE s \notin used
    BY <2>1 DEF DataInv, UsedOK, Live
  <2>2. CASE Quiet(s)
    BY <1>0, <2>2 DEF Quiet, Live, IInv, P!IInv, P!MapIsInverse, P!Mapped, P!DoneIsClosed
  <2> QED BY <2>1, <2>2 DEF ReceiveStart
<1>3. /\ UNCHANGED <<local, socketMap, streamOf, toStop, writing, queue, fn, written, servers, accept>>
      /\ worker' = worker \cup {s} /\ startID' = s
      /\ peer' = [peer EXCEPT ![s] = "open"] /\ peerSent' = [peerSent EXCEPT ![s] = 0]
      /\ \A k \in Cons : con'[k] = con[k] \/ con[k] = "new"
  BY <1>0 DEF ReceiveStart, Receive, S!Open, sockVars
<1>4. UsedOK'
  BY UsedKeeps DEF DataInv, Next
<1>5. DestinationOnly' /\ DataPrefix' /\ NothingYet'
  BY <1>0, <1>1, <1>3 DEF DataInv, DestinationOnly, DataPrefix, NothingYet
<1>6. ASSUME NEW x \in StreamIDs PROVE StreamOK(x)'
  <2>1. socketMap[x] # None => con[socketMap[x]] # "new"
    <3>1. socketMap[x] # None => socketMap[x] \in Cons /\ streamOf[socketMap[x]] = x
      BY <1>0 DEF IInv, P!IInv, P!MapIsInverse, P!Mapped
    <3> QED BY <3>1, NamesApart DEF IInv, P!IInv, P!MapIsInverse
  <2>2. Live(x)' <=> Live(x)
    BY <1>0, <1>3, <2>1 DEF Live
  <2>3. FnTargetOK(x)'
    <3>1. fn[x] = "write" => writing[x] \in Cons
      BY DEF IInv, TypeOK, S!TypeOK
    <3> QED BY <1>0, <1>3, <2>2, <3>1 DEF DataInv, StreamOK, FnTargetOK
  <2>4. CASE x = s
    BY <1>1, <1>2, <1>3, <2>2, <2>3, <2>4 DEF StreamOK
  <2>5. CASE x # s
    BY <1>0, <1>3, <2>2, <2>3, <2>5, StreamFrame DEF DataInv
  <2> QED BY <2>4, <2>5
<1> QED BY <1>4, <1>5, <1>6 DEF DataInv

(* ... and starts with an empty queue and an unused connection.            *)
LEMMA DataStarted == ASSUME IInv, DataInv, OnStreamStartOk PROVE DataInv'
<1> DEFINE k == dialed
           s == startID
<1>0. /\ con \in [Cons -> {"new", "open", "closed"}] /\ socketMap \in [StreamIDs -> Cons \cup {None}]
      /\ streamOf \in [Cons -> StreamIDs \cup {None}]
  BY DEF IInv, TypeOK, S!TypeOK
<1>1. s \in StreamIDs /\ k \in Cons /\ queue[s] = <<>> /\ peerSent[s] = 0 /\ written[k] = <<>>
  BY DEF OnStreamStartOk, S!StartSocket, IInv, Control, ReaderOK, DataInv, NothingYet
<1>2. /\ UNCHANGED <<con, local, toStop, writing, worker, queue, fn, written, servers, accept, peer, peerSent>>
      /\ socketMap' = [socketMap EXCEPT ![s] = k] /\ streamOf' = [streamOf EXCEPT ![k] = s]
      /\ socketMap[s] = None /\ readerPC' = "idle"
  BY DEF OnStreamStartOk, S!StartSocket, HandlerUnchanged, workVars, acceptVars, peerVars
<1> HIDE DEF s, k
<1>3. UsedOK'
  BY UsedKeeps DEF DataInv, Next, HandlerStep
<1>4. DestinationOnly' /\ DataPrefix' /\ NothingYet'
  BY <1>0, <1>1, <1>2, NamesApart DEF DataInv, DestinationOnly, DataPrefix, NothingYet
<1>5. ASSUME NEW x \in StreamIDs PROVE StreamOK(x)'
  <2>1. CASE x = s
    <3>1. fn[x] = "idle" \/ x # s
      BY <1>1, <2>1 DEF IInv, Control, WorkersOK, FnOK
    <3>2. FnTargetOK(x)'
      BY <1>2, <2>1, <3>1 DEF FnTargetOK
    <3>3. socketMap'[x] = k /\ Len(written[k]) = 0 /\ Len(queue[x]) = 0
      BY <1>0, <1>1, <1>2, <2>1
    <3>4. ContinuesOK(x)'
      <4>1. Len(written[socketMap[x]])' = 0 /\ Len(queue[x])' = 0 /\ peerSent'[x] = 0
        BY <1>1, <1>2, <2>1, <3>3
      <4> QED BY <4>1 DEF ContinuesOK
    <3> QED BY <1>1, <1>2, <2>1, <3>2, <3>4 DEF StreamOK
  <2>2. CASE x # s
    <3>1. socketMap'[x] = socketMap[x] /\ (Live(x)' <=> Live(x))
      BY <1>0, <1>2, <2>2 DEF Live
    <3>2. FnTargetOK(x)'
      BY <1>2, <3>1 DEF DataInv, StreamOK, FnTargetOK
    <3> QED BY <1>2, <3>1, <3>2, StreamFrame DEF DataInv
  <2> QED BY <2>1, <2>2
<1> QED BY <1>3, <1>4, <1>5 DEF DataInv

(* Data and StreamReset are appended; after a reset the peer sends no more.*)
LEMMA DataReceived ==
    ASSUME IInv, DataInv, NEW s \in StreamIDs, ReceiveData(s) \/ ReceiveReset(s)
    PROVE  DataInv'
<1>0. /\ queue \in [StreamIDs -> Seq(Message)] /\ peerSent \in [StreamIDs -> 0..MaxMessages]
      /\ peer \in [StreamIDs -> {"closed", "open"}]
      /\ socketMap \in [StreamIDs -> Cons \cup {None}] /\ written \in [Cons -> Seq(1..MaxMessages)]
  BY DEF IInv, TypeOK, S!TypeOK, Message
<1>1. /\ UNCHANGED <<sockVars, readVars, worker, fn, servers, accept, written>>
      /\ readerPC = "idle" /\ peer[s] = "open"
      /\ s \notin worker => queue' = queue
  BY DEF ReceiveData, ReceiveReset, ReceiveForWorker, Receive
<1>2. PICK m : /\ s \in worker => queue' = [queue EXCEPT ![s] = Append(queue[s], m)]
               /\ \/ m.type = "data" /\ m.n = peerSent[s] + 1 /\ peer' = peer
                     /\ peerSent' = [peerSent EXCEPT ![s] = peerSent[s] + 1]
                  \/ m.type = "reset" /\ peer' = [peer EXCEPT ![s] = "closed"] /\ peerSent' = peerSent
  <2>1. CASE ReceiveData(s)
    <3> DEFINE d == [type |-> "data", n |-> peerSent[s] + 1]
    <3>1. d.type = "data" /\ d.n = peerSent[s] + 1
      OBVIOUS
    <3>2. s \in worker => queue' = [queue EXCEPT ![s] = Append(queue[s], d)]
      BY <2>1 DEF ReceiveData, ReceiveForWorker, Enqueue
    <3>3. peer' = peer /\ peerSent' = [peerSent EXCEPT ![s] = peerSent[s] + 1]
      BY <2>1 DEF ReceiveData
    <3> HIDE DEF d
    <3> QED BY <3>1, <3>2, <3>3
  <2>2. CASE ReceiveReset(s)
    <3> DEFINE d == [type |-> "reset", n |-> 0]
    <3>1. d.type = "reset"
      OBVIOUS
    <3>2. s \in worker => queue' = [queue EXCEPT ![s] = Append(queue[s], d)]
      BY <2>2 DEF ReceiveReset, ReceiveForWorker, Enqueue
    <3>3. peer' = [peer EXCEPT ![s] = "closed"] /\ peerSent' = peerSent
      BY <2>2 DEF ReceiveReset
    <3> HIDE DEF d
    <3> QED BY <3>1, <3>2, <3>3
  <2> QED BY <1>1, <2>1, <2>2
<1>3. UsedOK'
  BY UsedKeeps DEF DataInv, Next
<1>4. DestinationOnly' /\ DataPrefix' /\ NothingYet'
  BY <1>1 DEF DataInv, DestinationOnly, DataPrefix, NothingYet, sockVars, readVars
<1>5. ASSUME NEW x \in StreamIDs PROVE StreamOK(x)'
  <2>1. FnTargetOK(x)' /\ (Live(x)' <=> Live(x))
    BY <1>1 DEF DataInv, StreamOK, FnTargetOK, Live, sockVars
  <2>2. CASE x = s /\ s \in worker
    <3> DEFINE q == queue[s]
               n == Len(written[socketMap[s]])
    <3>1. q \in Seq(Message) /\ queue'[s] = Append(q, m)
      BY <1>0, <1>2, <2>2
    <3>2. ASSUME Live(s) PROVE ContinuesOK(s)'
      <4>1. ContinuesOK(s) /\ n \in Nat
        BY <1>0, <3>2 DEF DataInv, StreamOK, Live
      <4>2. peerSent[s] = n + Len(q) /\ \A i \in 1..Len(q) : q[i].type = "data" => q[i].n = n + i
        BY <1>1, <2>2, <4>1 DEF ContinuesOK
      <4>3. Len(written[socketMap[s]])' = n
        BY <1>1 DEF sockVars
      <4>4. m.type = "data" => m.n = n + Len(q) + 1
        BY <1>2, <4>2
      <4> HIDE DEF q, n
      <4>5. /\ Len(Append(q, m)) = Len(q) + 1
            /\ \A i \in 1..Len(Append(q, m)) : Append(q, m)[i] = IF i = Len(q) + 1 THEN m ELSE q[i]
        BY <3>1
      <4>6. \A i \in 1..Len(Append(q, m)) : Append(q, m)[i].type = "data" => Append(q, m)[i].n = n + i
        <5> TAKE i \in 1..Len(Append(q, m))
        <5>1. CASE i = Len(q) + 1
          BY <3>1, <4>1, <4>4, <4>5, <5>1
        <5>2. CASE i # Len(q) + 1
          <6>1. i \in 1..Len(q)
            BY <3>1, <4>5, <5>2
          <6> QED BY <4>2, <4>5, <5>2, <6>1
        <5> QED BY <5>1, <5>2
      <4>7. peer'[s] = "open" => peerSent'[s] = n + Len(Append(q, m))
        <5>1. peer'[s] = "open" => peerSent'[s] = peerSent[s] + 1
          BY <1>0, <1>2
        <5> QED BY <3>1, <4>1, <4>2, <4>5, <5>1
      <4> QED BY <3>1, <4>3, <4>6, <4>7 DEF ContinuesOK
    <3> QED BY <1>1, <2>1, <2>2, <3>2 DEF StreamOK
  <2>3. CASE x # s \/ s \notin worker
    <3>1. queue'[x] = queue[x]
      BY <1>0, <1>1, <1>2, <2>3
    <3>2. CASE x # s
      BY <1>0, <1>1, <1>2, <2>1, <3>1, <3>2, StreamFrame DEF DataInv, sockVars
    <3>3. CASE s \notin worker
      BY <1>0, <1>1, <1>2, <2>1, <3>1, <3>3 DEF DataInv, StreamOK, ContinuesOK, sockVars
    <3> QED BY <2>3, <3>2, <3>3
  <2> QED BY <2>2, <2>3
<1> QED BY <1>3, <1>4, <1>5 DEF DataInv

(* A worker's function.                                                    *)
LEMMA DataWorker == ASSUME IInv, DataInv, NEW s \in StreamIDs, WorkerStep(s) PROVE DataInv'
<1>0. /\ queue \in [StreamIDs -> Seq(Message)] /\ fn \in [StreamIDs -> {"idle", "write", "failed", "stop"}]
      /\ con \in [Cons -> {"new", "open", "closed"}] /\ socketMap \in [StreamIDs -> Cons \cup {None}]
      /\ local \in [Cons -> {"there", "gone", "reset"}] /\ streamOf \in [Cons -> StreamIDs \cup {None}]
      /\ writing \in [{Main} \cup StreamIDs -> Cons \cup {None}] /\ written \in [Cons -> Seq(1..MaxMessages)]
  BY DEF IInv, TypeOK, S!TypeOK, Message
<1>1. /\ UNCHANGED <<con, socketMap, streamOf, readVars, worker, servers, accept, peer, peerSent>>
      /\ \A x \in StreamIDs \ {s} : /\ queue'[x] = queue[x] /\ fn'[x] = fn[x] /\ writing'[x] = writing[x]
                                    /\ fn[x] = "stop" => toStop' = toStop
      /\ \A k \in Cons : local[k] = "reset" => local'[k] = "reset"
  <2>1. UNCHANGED <<con, socketMap, streamOf, readVars, worker, servers, accept, peer, peerSent>>
    BY WorkerFrame DEF acceptVars, peerVars
  <2>2. \A x \in StreamIDs \ {s} : queue'[x] = queue[x] /\ fn'[x] = fn[x]
    <3>1. Returns(s) \/ \E to \in {"write", "failed", "stop"} : Goes(s, to)
      BY DEF WorkerStep, OnData, OnDataUnknown, OnDataWritten, OnDataWriteFails, OnDataFailed,
         OnStreamReset, OnStreamResetReturns
    <3> QED BY <1>0, <3>1 DEF Goes, Returns
  <2>6. \A x \in StreamIDs : fn[x] = "stop" => holder # None
    BY NamesApart DEF IInv, Control, HolderOK
  <2> QED BY <2>1, <2>2, <2>6, WorkerSockets DEF IInv
<1>2. DestinationOnly' /\ UsedOK'
  BY <1>1, UsedKeeps DEF DataInv, DestinationOnly, Next
<1>3. \A x \in StreamIDs : Live(x)' => Live(x)
  BY <1>0, <1>1, NamesApart DEF Live
<1>4. queue[s] # <<>> /\ (readerPC = "start" => startID # s)
  BY DEF IInv, Control, WorkersOK, FnOK, DataInv, NothingYet, WorkerStep, OnData, OnDataUnknown,
     OnDataWritten, OnDataWriteFails, OnDataFailed, OnStreamReset, OnStreamResetReturns, Busy
<1>5. readerPC = "start" => queue'[startID] = <<>> /\ startID \in StreamIDs
  BY <1>1, <1>4 DEF DataInv, NothingYet, IInv, Control, ReaderOK
<1>6. CASE UNCHANGED written /\ FnTargetOK(s)' /\ (queue'[s] = queue[s] \/ ~Live(s))
  <2>1. NothingYet' /\ DataPrefix'
    BY <1>1, <1>5, <1>6 DEF DataInv, NothingYet, DataPrefix, readVars
  <2>2. ASSUME NEW x \in StreamIDs PROVE StreamOK(x)'
    <3>1. CASE x = s /\ ~Live(s)
      <4>1. s \in worker
        BY <1>4 DEF DataInv, StreamOK
      <4> QED BY <1>1, <1>3, <1>6, <3>1, <4>1 DEF StreamOK
    <3>2. CASE x # s
      <4>1. FnTargetOK(x)'
        BY <1>1, <1>3, <3>2 DEF DataInv, StreamOK, FnTargetOK
      <4> QED BY <1>1, <1>3, <1>6, <3>2, <4>1, StreamFrame DEF DataInv
    <3>3. CASE x = s /\ queue'[s] = queue[s]
      BY <1>1, <1>3, <1>6, <3>3, StreamFrame DEF DataInv
    <3> QED BY <1>6, <3>1, <3>2, <3>3
  <2> QED BY <1>2, <2>1, <2>2 DEF DataInv
<1>7. CASE OnData(s) \/ OnDataUnknown(s) \/ OnStreamReset(s)
  <2>1. fn' = [fn EXCEPT ![s] = fn'[s]] /\ queue' = queue /\ written' = written
    BY <1>0, <1>7 DEF OnData, OnDataUnknown, OnStreamReset, Goes
  <2>2. CASE OnData(s)
    <3>1. fn'[s] = "write" /\ socketMap'[s] = writing'[s]
      BY <1>0, <2>2 DEF OnData, Goes, S!WriteLookup
    <3>2. FnTargetOK(s)'
      BY <3>1 DEF FnTargetOK
    <3> QED BY <1>6, <2>1, <3>2
  <2>3. CASE OnDataUnknown(s)
    <3>1. fn'[s] = "failed" /\ socketMap'[s] = None
      BY <1>0, <2>3 DEF OnDataUnknown, Goes, sockVars
    <3>2. FnTargetOK(s)'
      BY <3>1 DEF FnTargetOK, Live
    <3> QED BY <1>6, <2>1, <3>2
  <2>4. CASE OnStreamReset(s)
    <3>1. fn'[s] = "stop" /\ (socketMap'[s] # None => s \in toStop')
      BY <1>0, <1>1, <2>4 DEF OnStreamReset, Goes, S!StopBegin, S!Mapped
    <3>2. FnTargetOK(s)'
      BY <3>1 DEF FnTargetOK
    <3> QED BY <1>6, <2>1, <3>2
  <2> QED BY <1>7, <2>2, <2>3, <2>4
<1>8. CASE OnDataWriteFails(s)
  <2>1. fn[s] = "write" /\ fn'[s] = "failed" /\ queue' = queue /\ written' = written /\ writing[s] \in Cons
    BY <1>0, <1>8 DEF OnDataWriteFails, Goes, S!WriteErr
  <2>2. con[writing[s]] = "closed" \/ local'[writing[s]] = "reset"
    BY <1>0, <1>8, <2>1 DEF OnDataWriteFails, S!WriteErr
  <2>3. ~Live(s)'
    BY <1>1, <2>1, <2>2 DEF DataInv, StreamOK, FnTargetOK, Live
  <2>4. FnTargetOK(s)'
    BY <2>1, <2>3 DEF FnTargetOK
  <2> QED BY <1>6, <2>1, <2>4
<1>9. CASE OnDataFailed(s) \/ OnStreamResetReturns(s)
  <2>1. fn'[s] = "idle" /\ written' = written
    BY <1>0, <1>9 DEF OnDataFailed, OnStreamResetReturns, Returns
  <2>2. ~Live(s)
    BY <1>9 DEF OnDataFailed, OnStreamResetReturns, S!StopReturns, DataInv, StreamOK,
       FnTargetOK, Live
  <2>3. FnTargetOK(s)'
    BY <2>1 DEF FnTargetOK
  <2> QED BY <1>6, <2>1, <2>2, <2>3
<1>10. CASE OnDataWritten(s)
  <2> DEFINE k == writing[s]
             q == queue[s]
             n == Len(written[k])
             d == Head(q).n
  <2>1. /\ fn[s] = "write" /\ k \in Cons /\ con[k] = "open" /\ local[k] # "reset"
        /\ written' = [written EXCEPT ![k] = Append(written[k], d)]
        /\ fn'[s] = "idle" /\ queue'[s] = Tail(q)
    BY <1>0, <1>10, NamesApart DEF OnDataWritten, S!WriteOk, Returns
  <2>2. socketMap[s] = k /\ Live(s)
    BY <2>1, NamesApart DEF DataInv, StreamOK, FnTargetOK, Live
  <2>3. streamOf[k] = s
    BY <1>0, <2>2, <2>1, NamesApart DEF IInv, P!IInv, P!MapIsInverse, P!Mapped
  <2>4. ContinuesOK(s)
    BY <2>2 DEF DataInv, StreamOK
  <2>5. q \in Seq(Message) /\ q # <<>> /\ Head(q).type = "data" /\ Head(q) = q[1] /\ Len(q) \in Nat /\ Len(q) >= 1
    BY <1>0, <1>4, <2>1 DEF IInv, Control, WorkersOK, FnOK
  <2>6. n \in Nat /\ written[k] \in Seq(1..MaxMessages)
    BY <1>0, <2>1
  <2>7. d = n + 1
    BY <2>2, <2>4, <2>5, <2>6 DEF ContinuesOK
  <2> DEFINE w == Append(written[k], d)
  <2>8. Len(w) = n + 1 /\ w[n + 1] = d /\ \A i \in 1..n : w[i] = written[k][i]
    BY <2>6
  <2>9. \A c \in Cons : written'[c] = IF c = k THEN w ELSE written[c]
    BY <1>0, <2>1
  <2>10. /\ Len(Tail(q)) = Len(q) - 1
         /\ \A i \in 1..Len(Tail(q)) : Tail(q)[i] = q[i + 1] /\ i + 1 \in 1..Len(q)
    BY <2>5
  <2>11. n = Len(written[socketMap[s]])
    BY <2>2
  <2>12. /\ \A i \in 1..Len(q) : q[i].type = "data" => q[i].n = n + i
         /\ s \in worker /\ peer[s] = "open" => peerSent[s] = n + Len(q)
    BY <2>4, <2>11 DEF ContinuesOK
  <2>13. DOMAIN written[k] = 1..n /\ DOMAIN w = 1..(n + 1)
    BY <2>6, <2>8
  <2> HIDE DEF k, q, n, d, w
  <2>14. DataPrefix'
    <3>1. \A i \in 1..n : written[k][i] = i
      BY <2>1, <2>13 DEF DataInv, DataPrefix
    <3>2. \A i \in 1..(n + 1) : w[i] = i
      BY <2>6, <2>7, <2>8, <3>1
    <3> QED BY <2>9, <2>13, <3>2 DEF DataInv, DataPrefix
  <2>15. NothingYet'
    BY <1>1, <1>5, <2>3, <2>9, NamesApart DEF DataInv, NothingYet, readVars
  <2>16. ASSUME NEW x \in StreamIDs PROVE StreamOK(x)'
    <3>1. CASE x = s
      <4>1. FnTargetOK(s)'
        BY <2>1 DEF FnTargetOK
      <4>2. Len(written[socketMap[s]])' = n + 1
        <5>1. socketMap'[s] = k
          BY <1>1, <2>2
        <5>2. written'[k] = w
          BY <2>1, <2>9
        <5> QED BY <5>1, <5>2, <2>8
      <4>3. \A i \in 1..Len(Tail(q)) : Tail(q)[i].type = "data" => Tail(q)[i].n = n + 1 + i
        <5> TAKE i \in 1..Len(Tail(q))
        <5>1. Tail(q)[i] = q[i + 1] /\ i + 1 \in 1..Len(q)
          BY <2>10
        <5>2. n + (i + 1) = n + 1 + i
          BY <2>6
        <5> QED BY <2>12, <5>1, <5>2
      <4>4. s \in worker' /\ peer'[s] = "open" => peerSent'[s] = n + 1 + Len(Tail(q))
        BY <1>1, <2>5, <2>6, <2>10, <2>12
      <4>5. ContinuesOK(s)'
        <5>1. queue'[s] = Tail(q)
          BY <2>1
        <5> QED BY <5>1, <4>2, <4>3, <4>4 DEF ContinuesOK
      <4>6. s \in worker
        BY <1>4 DEF DataInv, StreamOK
      <4> QED BY <1>1, <3>1, <4>1, <4>5, <4>6 DEF StreamOK
    <3>2. CASE x # s
      <4>1. FnTargetOK(x)'
        BY <1>1, <1>3, <3>2 DEF DataInv, StreamOK, FnTargetOK
      <4>2. Live(x) => socketMap[x] \in Cons /\ socketMap[x] # k
        BY <1>0, <2>3, <3>2, NamesApart DEF Live, IInv, P!IInv, P!MapIsInverse, P!Mapped
      <4> QED BY <1>1, <1>3, <2>9, <3>2, <4>1, <4>2, StreamFrame DEF DataInv
    <3> QED BY <3>1, <3>2
  <2> QED BY <1>2, <2>14, <2>15, <2>16 DEF DataInv
<1> QED BY <1>7, <1>8, <1>9, <1>10 DEF WorkerStep

(* A worker that stops takes what it has not done with it.                 *)
LEMMA DataStops == ASSUME IInv, DataInv, NEW s \in StreamIDs, WorkerStops(s) PROVE DataInv'
<1>1. /\ UNCHANGED <<sockVars, readVars, fn, servers, accept, peer, peerSent, written>>
      /\ worker' = worker \ {s} /\ \A x \in StreamIDs : queue'[x] = IF x = s THEN <<>> ELSE queue[x]
  BY DEF WorkerStops, acceptVars, peerVars, IInv, TypeOK
<1>2. DestinationOnly' /\ DataPrefix' /\ UsedOK'
  BY <1>1, UsedKeeps DEF DataInv, DestinationOnly, DataPrefix, Next
<1>3. NothingYet'
  BY <1>1 DEF DataInv, NothingYet, sockVars, readVars, IInv, Control, ReaderOK
<1>4. ASSUME NEW x \in StreamIDs PROVE StreamOK(x)'
  <2>1. FnTargetOK(x)' /\ (Live(x)' <=> Live(x))
    BY <1>1 DEF DataInv, StreamOK, FnTargetOK, Live, sockVars
  <2>2. CASE x = s
    <3>1. Len(queue[x])' = 0 /\ x \notin worker' /\ queue'[x] = <<>>
      BY <1>1, <2>2
    <3> QED BY <2>1, <3>1 DEF StreamOK, ContinuesOK
  <2>3. CASE x # s
    BY <1>1, <2>1, <2>3, StreamFrame DEF DataInv, sockVars
  <2> QED BY <2>2, <2>3
<1> QED BY <1>2, <1>3, <1>4 DEF DataInv

(* The invariant holds at the start, and every step keeps it.              *)
LEMMA InitDataInv == ASSUME Modes = {"destination"}, Init PROVE DataInv
<1>1. /\ socketMap = [s \in StreamIDs |-> None] /\ readerPC = "idle" /\ fn = [s \in StreamIDs |-> "idle"]
      /\ accept = [k \in Cons |-> "none"] /\ worker = {} /\ queue = [s \in StreamIDs |-> <<>>]
      /\ written = [k \in Cons |-> <<>>]
  BY DEF Init, S!Init
<1>2. servers = "none"
  BY DEF Init
<1>3. DestinationOnly /\ UsedOK /\ NothingYet
  BY <1>1, <1>2 DEF DestinationOnly, UsedOK, NothingYet
<1>4. DataPrefix
  BY <1>1 DEF DataPrefix
<1>5. \A s \in StreamIDs : StreamOK(s)
  BY <1>1 DEF StreamOK, FnTargetOK, Live
<1> QED BY <1>3, <1>4, <1>5 DEF DataInv

LEMMA DataKeeps == ASSUME IInv, DataInv, [Next]_vars PROVE DataInv'
<1>1. ASSUME NEW k \in Cons PROVE ~AcceptStep(k) /\ \A s \in StreamIDs : ~Accept(k, s)
  BY DEF AcceptStep, StartSent, StartFails, AcceptStarts, Accept, DataInv, DestinationOnly
<1>2. ASSUME NEW s \in StreamIDs, PeerGetsReset(s) PROVE DataInv'
  <2>1. \A x \in StreamIDs : peer'[x] = "open" => peer[x] = "open"
    BY <1>2 DEF PeerGetsReset, IInv, TypeOK
  <2> QED BY <1>2, <2>1, DataElsewhere DEF PeerGetsReset, sockVars, readVars, acceptVars
<1> QED BY <1>1, <1>2, DataByItself, DataReader, DataStart, DataStarted, DataReceived,
    DataWorker, DataStops DEF Next, HandlerStep, ByItself

(* localproxy.go:160, 165: in destination mode a local connection gets the *)
(* messages of its stream in order and without a gap, also when StreamIDs  *)
(* are used again.                                                         *)
THEOREM DataInOrder == ASSUME Modes = {"destination"} PROVE Spec => []DataPrefix
<1>1. Init => DataInv
  BY InitDataInv
<1>2. IInv /\ DataInv /\ [Next]_vars => DataInv'
  BY DataKeeps
<1>3. DataInv => DataPrefix
  BY DEF DataInv
<1> QED BY <1>1, <1>2, <1>3, IInvHolds, PTL DEF Spec
-----------------------------------------------------------------------------
(* What a worker has yet to write was sent on the stream as it is now.     *)
QueuedOK ==
    \A s \in StreamIDs : \A i \in 1..Len(queue[s]) :
        queue[s][i].type = "data" => queue[s][i].n <= peerSent[s]

StreamInv == DataInv /\ QueuedOK /\ P!FreshOK

(* Queues grow with what is sent, shrink from their head and are empty     *)
(* when a stream starts.                                                   *)
LEMMA QueuedKeeps == ASSUME IInv, StreamInv, [Next]_vars PROVE QueuedOK'
<1> USE DEF QueuedOK, StreamInv
<1>0. queue \in [StreamIDs -> Seq(Message)] /\ peerSent \in [StreamIDs -> 0..MaxMessages]
  BY DEF IInv, TypeOK, Message
<1>1. CASE UNCHANGED <<queue, peerSent>>
  BY <1>1
<1>2. ASSUME NEW s \in StreamIDs, ReceiveStart(s) PROVE QueuedOK'
  <2>1. s \notin worker
    <3>1. s \notin used \/ Quiet(s)
      BY <1>2 DEF ReceiveStart
    <3> QED BY <3>1 DEF Quiet, DataInv, UsedOK
  <2>2. Len(queue[s]) = 0 /\ queue' = queue /\ \A x \in StreamIDs \ {s} : peerSent'[x] = peerSent[x]
    BY <1>0, <1>2, <2>1 DEF ReceiveStart, DataInv, StreamOK
  <2> QED BY <2>2
<1>3. ASSUME NEW s \in StreamIDs, ReceiveData(s) \/ ReceiveReset(s) PROVE QueuedOK'
  <2>1. PICK m, p : /\ m.type = "data" => m.n <= p
                    /\ p \in Nat /\ peerSent[s] <= p /\ peerSent' = [peerSent EXCEPT ![s] = p]
                    /\ queue' \in {queue, [queue EXCEPT ![s] = Append(queue[s], m)]}
    <3>1. CASE ReceiveData(s)
      <4> DEFINE d == [type |-> "data", n |-> peerSent[s] + 1]
                 p == peerSent[s] + 1
      <4>1. d.n <= p /\ p \in Nat /\ peerSent[s] <= p
        BY <1>0
      <4>2. peerSent' = [peerSent EXCEPT ![s] = p]
        BY <3>1 DEF ReceiveData
      <4>3. queue' \in {queue, [queue EXCEPT ![s] = Append(queue[s], d)]}
        BY <3>1 DEF ReceiveData, ReceiveForWorker, Enqueue
      <4> HIDE DEF d, p
      <4> QED BY <4>1, <4>2, <4>3
    <3>2. CASE ReceiveReset(s)
      <4> DEFINE d == [type |-> "reset", n |-> 0]
                 p == peerSent[s]
      <4>1. d.type # "data" /\ p \in Nat /\ peerSent[s] <= p
        BY <1>0
      <4>2. peerSent' = [peerSent EXCEPT ![s] = p]
        BY <1>0, <3>2 DEF ReceiveReset
      <4>3. queue' \in {queue, [queue EXCEPT ![s] = Append(queue[s], d)]}
        BY <3>2 DEF ReceiveReset, ReceiveForWorker, Enqueue
      <4> HIDE DEF d, p
      <4> QED BY <4>1, <4>2, <4>3
    <3> QED BY <1>3, <3>1, <3>2
  <2>6. PICK q \in Seq(Message) : q = queue[s]
    BY <1>0
  <2>2. /\ Len(Append(q, m)) = Len(q) + 1
        /\ \A i \in 1..Len(q) + 1 : Append(q, m)[i] = IF i = Len(q) + 1 THEN m ELSE q[i]
        /\ Len(q) \in Nat
    OBVIOUS
  <2>3. ASSUME NEW i \in 1..Len(queue'[s]), queue'[s][i].type = "data"
        PROVE  queue'[s][i].n <= p
    <3>1. CASE queue'[s][i] = m
      BY <2>1, <2>3, <3>1
    <3>2. CASE i \in 1..Len(q) /\ queue'[s][i] = q[i]
      <4>1. q[i] \in Message
        BY <3>2
      <4>2. q[i].n \in Nat
        BY <4>1, BoundsAssumption DEF Message
      <4>3. peerSent[s] \in Nat
        BY <1>0
      <4>4. q[i].n <= peerSent[s]
        BY <2>3, <2>6, <3>2
      <4> QED BY <2>1, <3>2, <4>2, <4>3, <4>4
    <3>3. queue'[s] = q \/ queue'[s] = Append(q, m)
      BY <1>0, <2>1, <2>6
    <3>4. CASE queue'[s] = q
      BY <2>3, <3>2, <3>4
    <3>5. CASE queue'[s] = Append(q, m)
      <4>1. i \in 1..Len(q) + 1
        BY <2>2, <2>3, <3>5
      <4>2. i = Len(q) + 1 \/ i \in 1..Len(q)
        BY <2>2, <4>1
      <4> QED BY <2>2, <3>1, <3>2, <3>5, <4>1, <4>2
    <3> QED BY <3>3, <3>4, <3>5
  <2>4. \A x \in StreamIDs : peerSent'[x] = IF x = s THEN p ELSE peerSent[x]
    BY <1>0, <2>1
  <2>5. \A x \in StreamIDs \ {s} : queue'[x] = queue[x]
    BY <1>0, <2>1
  <2> QED BY <2>3, <2>4, <2>5
<1>4. ASSUME NEW s \in StreamIDs, WorkerStep(s) PROVE QueuedOK'
  <2>1. queue' = queue \/ (queue' = [queue EXCEPT ![s] = Tail(@)] /\ queue[s] # <<>>)
    BY <1>4 DEF WorkerStep, OnData, OnDataUnknown, OnDataWritten, OnDataWriteFails, OnDataFailed,
       OnStreamReset, OnStreamResetReturns, Goes, Returns, Busy, IInv, Control, WorkersOK, FnOK
  <2>2. CASE queue[s] # <<>>
    <3>1. \A i \in 1..Len(Tail(queue[s])) : Tail(queue[s])[i] = queue[s][i + 1] /\ i + 1 \in 1..Len(queue[s])
      BY <1>0, <2>2
    <3>2. peerSent' = peerSent
      BY <1>4, WorkerFrame DEF peerVars
    <3>3. \A x \in StreamIDs : queue'[x] = queue[x] \/ (x = s /\ queue'[x] = Tail(queue[s]))
      BY <1>0, <2>1
    <3>4. ASSUME queue'[s] = Tail(queue[s]), NEW i \in 1..Len(queue'[s]), queue'[s][i].type = "data"
          PROVE  queue'[s][i].n <= peerSent[s]
      BY <3>1, <3>4
    <3> QED BY <3>2, <3>3, <3>4
  <2> QED BY <1>1, <1>4, <2>1, <2>2, WorkerFrame DEF peerVars
<1>5. ASSUME NEW s \in StreamIDs, WorkerStops(s) PROVE QueuedOK'
  <2>1. peerSent' = peerSent /\ \A x \in StreamIDs : queue'[x] = IF x = s THEN <<>> ELSE queue[x]
    BY <1>0, <1>5 DEF WorkerStops, peerVars
  <2> QED BY <2>1
<1>6. ASSUME NEW k \in Cons PROVE ~AcceptStep(k) /\ \A s \in StreamIDs : ~Accept(k, s)
  BY DEF AcceptStep, StartSent, StartFails, AcceptStarts, Accept, DataInv, DestinationOnly
<1> QED
  BY <1>1, <1>2, <1>3, <1>4, <1>5, <1>6, RunFrame, SyncFrame, HandlerFrame, ByItselfFrame, EndFrame DEF
     Next, ByItself, PeerGetsReset, workVars, peerVars, vars

(* One connection ends for good: its stream, if it has one, breaks.        *)
LEMMA Breaks ==
    ASSUME IInv, NEW k \in Cons,
           UNCHANGED <<socketMap, streamOf, peerSent, written>>,
           \A x \in Cons \ {k} : con'[x] = con[x] /\ local'[x] = local[x],
           con'[k] # "open" \/ local'[k] = "reset"
    PROVE  [R!Next]_(R!vars)
<1>0. socketMap \in [StreamIDs -> Cons \cup {None}]
  BY DEF IInv, TypeOK, S!TypeOK
<1>1. Bound' = Bound
  BY DEF Bound
<1>2. CASE \E s \in StreamIDs : Live(s) /\ socketMap[s] = k
  <2>1. PICK s \in StreamIDs : Live(s) /\ socketMap[s] = k
    BY <1>2
  <2>2. \A x \in StreamIDs \ {s} : socketMap[x] # k
    BY <2>1, NamesApart DEF IInv, P!IInv, P!MapIsInverse, P!Mapped
  <2>3. Serves' = [Serves EXCEPT ![s] = None]
    BY <1>0, <2>1, <2>2 DEF Serves, Live
  <2>4. Serves[s] # None
    BY <2>1 DEF Serves, Live
  <2>5. R!Break(s)
    BY <1>1, <2>3, <2>4 DEF R!Break
  <2> QED BY <2>5 DEF R!Next
<1>3. CASE \A s \in StreamIDs : ~(Live(s) /\ socketMap[s] = k)
  <2>1. Serves' = Serves
    BY <1>0, <1>3 DEF Serves, Live
  <2> QED BY <1>1, <2>1 DEF R!vars
<1> QED BY <1>2, <1>3

(* What concerns neither connections nor the peer's Data.                  *)
LEMMA Stutters ==
    ASSUME UNCHANGED <<con, local, socketMap, streamOf, peerSent, written>>
    PROVE  UNCHANGED R!vars
<1>1. Serves' = Serves /\ Bound' = Bound
  BY DEF Serves, Live, Bound
<1> QED BY <1>1 DEF R!vars

(* The goroutines and the ends of a connection.                            *)
LEMMA ReliableByItself == ASSUME IInv, ByItself PROVE [R!Next]_(R!vars)
<1>0. /\ con \in [Cons -> {"new", "open", "closed"}] /\ socketMap \in [StreamIDs -> Cons \cup {None}]
      /\ local \in [Cons -> {"there", "gone", "reset"}] /\ closing \in toStop \cup {None}
      /\ toStop \subseteq P!Mapped
  BY DEF IInv, TypeOK, S!TypeOK, P!IInv, P!ToStopIsMapped
<1>1. UNCHANGED <<peerSent, written>>
  BY ByItselfFrame DEF peerVars
<1>2. ASSUME NEW t \in {Main} \cup StreamIDs, S!StopWaited(t) PROVE [R!Next]_(R!vars)
  <2>1. closing \in StreamIDs /\ socketMap[closing] \in Cons /\ con[socketMap[closing]] = "closed"
    BY <1>0, <1>2 DEF S!StopWaited, P!Mapped, IInv, P!IInv, P!DoneIsClosed
  <2>2. /\ socketMap' = [socketMap EXCEPT ![closing] = None]
        /\ UNCHANGED <<con, local, streamOf>>
    BY <1>2 DEF S!StopWaited
  <2>3. Serves' = Serves /\ Bound' = Bound
    BY <1>0, <2>1, <2>2 DEF Serves, Live, Bound
  <2> QED BY <1>1, <2>3 DEF R!vars
<1>3. ASSUME NEW t \in {Main} \cup StreamIDs, NEW s \in StreamIDs, S!StopClose(t, s)
      PROVE  [R!Next]_(R!vars)
  <2>1. socketMap[s] \in Cons
    BY <1>0, <1>3 DEF S!StopClose, P!Mapped
  <2>2. /\ con' = [con EXCEPT ![socketMap[s]] = "closed"]
        /\ UNCHANGED <<local, socketMap, streamOf>>
    BY <1>3 DEF S!StopClose
  <2> QED BY <1>0, <1>1, <2>1, <2>2, Breaks
<1>4. ASSUME NEW k \in Cons, SocketStep(k) PROVE [R!Next]_(R!vars)
  <2>1. CASE S!SuckEnd(k)
    BY <1>0, <1>1, <2>1, Breaks DEF S!SuckEnd
  <2>2. CASE UNCHANGED <<con, local, socketMap, streamOf>>
    BY <1>1, <2>2, Stutters
  <2> QED
    BY <1>4, <2>1, <2>2 DEF SocketStep, OnReadData, OnReadError, SocketGoes, S!ReadOk,
       S!ReadErr, S!DeliverOk, S!DeliverErr, S!Reported, S!SuckMoves
<1>5. ASSUME NEW k \in Cons, LocalEnds(k) PROVE [R!Next]_(R!vars)
  <2>1. /\ local[k] = "there" /\ local' = [local EXCEPT ![k] = "gone"]
        /\ UNCHANGED <<con, socketMap, streamOf>>
    BY <1>5 DEF LocalEnds, S!LocalEnds
  <2>2. Serves' = Serves /\ Bound' = Bound
    BY <1>0, <2>1 DEF Serves, Live, Bound
  <2> QED BY <1>1, <2>2 DEF R!vars
<1> QED BY <1>2, <1>3, <1>4, <1>5 DEF ByItself, StopGoes

(* A StreamStart takes a StreamID that serves no connection ...            *)
LEMMA ReliableStart ==
    ASSUME IInv, DataInv, NEW s \in StreamIDs, ReceiveStart(s)
    PROVE  R!Start(s)
<1>0. /\ con \in [Cons -> {"new", "open", "closed"}] /\ socketMap \in [StreamIDs -> Cons \cup {None}]
  BY DEF IInv, TypeOK, S!TypeOK
<1>1. ~Live(s)
  <2>1. CASE s \notin used
    BY <2>1 DEF DataInv, UsedOK, Live
  <2>2. CASE Quiet(s)
    BY <1>0, <2>2 DEF Quiet, Live, IInv, P!IInv, P!MapIsInverse, P!Mapped, P!DoneIsClosed
  <2> QED BY <2>1, <2>2 DEF ReceiveStart
<1>2. \A x \in StreamIDs : socketMap[x] # None => con[socketMap[x]] # "new"
  <2>1. \A x \in StreamIDs : socketMap[x] # None => socketMap[x] \in Cons /\ streamOf[socketMap[x]] = x
    BY <1>0 DEF IInv, P!IInv, P!MapIsInverse, P!Mapped
  <2> QED BY <2>1, NamesApart DEF IInv, P!IInv, P!MapIsInverse
<1>3. /\ UNCHANGED <<local, socketMap, streamOf, written>>
      /\ peerSent' = [peerSent EXCEPT ![s] = 0]
      /\ \A k \in Cons : con'[k] = con[k] \/ (con[k] = "new" /\ con'[k] = "open")
  BY <1>0 DEF ReceiveStart, Receive, S!Open, sockVars
<1>4. \A x \in StreamIDs : Live(x)' <=> Live(x)
  BY <1>0, <1>2, <1>3 DEF Live
<1>5. Serves' = Serves /\ Bound' = Bound /\ Serves[s] = None
  BY <1>1, <1>3, <1>4 DEF Serves, Bound
<1> QED BY <1>3, <1>5 DEF R!Start

(* ... and is bound to a connection that nobody wrote to.                  *)
LEMMA ReliableBind ==
    ASSUME IInv, DataInv, P!FreshOK, OnStreamStartOk
    PROVE  R!Next
<1>0. /\ con \in [Cons -> {"new", "open", "closed"}] /\ socketMap \in [StreamIDs -> Cons \cup {None}]
      /\ streamOf \in [Cons -> StreamIDs \cup {None}]
  BY DEF IInv, TypeOK, S!TypeOK
<1>1. startID \in StreamIDs /\ dialed \in Cons /\ peerSent[startID] = 0
  BY DEF OnStreamStartOk, IInv, Control, ReaderOK, DataInv, NothingYet
<1>2. PICK s \in StreamIDs, k \in Cons : s = startID /\ k = dialed
  BY <1>1
<1>3. /\ UNCHANGED <<con, local, written, peerSent>>
      /\ con[k] = "open" /\ streamOf[k] = None /\ socketMap[s] = None
      /\ socketMap' = [socketMap EXCEPT ![s] = k] /\ streamOf' = [streamOf EXCEPT ![k] = s]
  BY <1>2 DEF OnStreamStartOk, S!StartSocket, HandlerUnchanged, peerVars
<1>4. local[k] # "reset" /\ k # None /\ s # None
  BY <1>3, NamesApart DEF P!FreshOK
<1>5. /\ Live(s)' /\ ~Live(s) /\ socketMap'[s] = k
      /\ \A x \in StreamIDs \ {s} : (Live(x)' <=> Live(x)) /\ socketMap'[x] = socketMap[x]
  BY <1>0, <1>3, <1>4 DEF Live
<1>6. Serves' = [Serves EXCEPT ![s] = k] /\ Serves[s] = None
  BY <1>5 DEF Serves
<1>7. k \notin Bound /\ Bound' = Bound \cup {k}
  BY <1>0, <1>3, <1>4 DEF Bound
<1>8. R!Bind(s, k)
  BY <1>1, <1>2, <1>3, <1>6, <1>7 DEF R!Bind
<1> QED BY <1>8 DEF R!Next

(* OnData writes the next Data of the stream to its connection.            *)
LEMMA ReliableDeliver ==
    ASSUME IInv, StreamInv, NEW s \in StreamIDs, OnDataWritten(s)
    PROVE  R!Deliver(s)
<1>0. queue[s] \in Seq(Message) /\ written \in [Cons -> Seq(1..MaxMessages)] /\ peerSent[s] \in Nat
  <2>1. /\ queue \in [StreamIDs -> Seq(Message)] /\ written \in [Cons -> Seq(1..MaxMessages)]
        /\ peerSent \in [StreamIDs -> 0..MaxMessages]
    BY DEF IInv, TypeOK, Message
  <2> QED BY <2>1
<1>1. queue[s] # <<>> /\ Head(queue[s]).type = "data"
  BY DEF OnDataWritten, IInv, Control, WorkersOK, FnOK
<1>2. PICK k \in Cons : k = writing[s]
  <2>1. fn[s] = "write"
    BY DEF OnDataWritten
  <2>2. writing[s] # None
    BY <2>1 DEF IInv, Control, HolderOK
  <2>3. writing \in [{Main} \cup StreamIDs -> Cons \cup {None}]
    BY DEF IInv, TypeOK, S!TypeOK
  <2> QED BY <2>2, <2>3
<1>3. con[k] = "open" /\ local[k] # "reset" /\ UNCHANGED <<con, local, socketMap, streamOf, peerSent>>
  BY <1>2 DEF OnDataWritten, S!WriteOk, Returns, peerVars
<1>4. socketMap[s] = k
  BY <1>2, <1>3 DEF StreamInv, DataInv, StreamOK, FnTargetOK, OnDataWritten
<1>5. Live(s) /\ Serves[s] = k
  BY <1>3, <1>4, NamesApart DEF Live, Serves
<1>6. PICK n \in Nat : n = Len(written[k])
  BY <1>0
<1>7. 1 \in 1..Len(queue[s]) /\ Head(queue[s]) = queue[s][1]
  BY <1>0, <1>1
<1>8. queue[s][1].n = n + 1
  BY <1>1, <1>4, <1>5, <1>6, <1>7 DEF StreamInv, DataInv, StreamOK, ContinuesOK
<1>9. queue[s][1].n <= peerSent[s]
  BY <1>1, <1>7 DEF StreamInv, QueuedOK
<1>10. n < peerSent[s]
  BY <1>0, <1>6, <1>8, <1>9
<1>11. written' = [written EXCEPT ![k] = Append(written[k], Len(written[k]) + 1)]
  BY <1>2, <1>6, <1>7, <1>8 DEF OnDataWritten
<1>12. Serves' = Serves /\ Bound' = Bound
  BY <1>3 DEF Serves, Live, Bound
<1>13. k # None
  BY NamesApart
<1> QED BY <1>3, <1>5, <1>6, <1>10, <1>11, <1>12, <1>13 DEF R!Deliver

(* A worker delivers, or finds out that a connection has ended.            *)
LEMMA ReliableWorker ==
    ASSUME IInv, StreamInv, NEW s \in StreamIDs, WorkerStep(s)
    PROVE  [R!Next]_(R!vars)
<1>0. /\ local \in [Cons -> {"there", "gone", "reset"}] /\ con \in [Cons -> {"new", "open", "closed"}]
      /\ writing[s] \in Cons \cup {None}
  BY DEF IInv, TypeOK, S!TypeOK
<1>1. CASE OnDataWritten(s)
  BY <1>1, ReliableDeliver DEF R!Next
<1>2. UNCHANGED <<con, socketMap, streamOf, peerSent>>
  BY WorkerFrame DEF peerVars
<1>3. CASE OnDataWriteFails(s)
  <2>1. written' = written /\ writing[s] \in Cons /\ S!WriteErr(s)
    BY <1>0, <1>3 DEF OnDataWriteFails, S!WriteErr
  <2>2. CASE con[writing[s]] = "closed"
    BY <1>2, <2>1, <2>2, Stutters DEF S!WriteErr
  <2>3. CASE con[writing[s]] # "closed"
    <3>1. local' = [local EXCEPT ![writing[s]] = "reset"]
      BY <2>1, <2>3 DEF S!WriteErr
    <3>2. PICK k \in Cons : k = writing[s]
      BY <2>1
    <3>3. local'[k] = "reset" /\ \A x \in Cons \ {k} : local'[x] = local[x]
      BY <1>0, <3>1, <3>2
    <3> QED BY <1>2, <2>1, <3>3, Breaks
  <2> QED BY <2>2, <2>3
<1>4. CASE OnData(s) \/ OnDataUnknown(s) \/ OnDataFailed(s) \/ OnStreamReset(s) \/ OnStreamResetReturns(s)
  <2>1. UNCHANGED <<local, written>>
    BY <1>4 DEF OnData, OnDataUnknown, OnDataFailed, OnStreamReset, OnStreamResetReturns,
       S!WriteLookup, S!StopBegin, S!StopReturns, sockVars
  <2> QED BY <1>2, <2>1, Stutters
<1> QED BY <1>1, <1>3, <1>4 DEF WorkerStep

(* Every step is one of a reliable stream, or none.                        *)
LEMMA StepIsReliable == ASSUME IInv, StreamInv, [Next]_vars PROVE [R!Next]_(R!vars)
<1>1. ASSUME NEW s \in StreamIDs, ReceiveStart(s) PROVE R!Next
  BY <1>1, ReliableStart DEF R!Next, StreamInv
<1>2. CASE OnStreamStartOk
  BY <1>2, ReliableBind DEF StreamInv
<1>3. ASSUME NEW s \in StreamIDs, ReceiveData(s) PROVE R!Next
  <2>1. UNCHANGED <<con, local, socketMap, streamOf, written>>
    BY <1>3, ReceiveFrame DEF sockVars
  <2>2. Serves' = Serves /\ Bound' = Bound
    BY <2>1 DEF Serves, Live, Bound
  <2>3. R!Send(s)
    BY <1>3, <2>1, <2>2 DEF ReceiveData, R!Send
  <2> QED BY <2>3 DEF R!Next
<1>4. ASSUME NEW s \in StreamIDs, ReceiveReset(s) PROVE UNCHANGED R!vars
  BY <1>4, ReceiveFrame, Stutters DEF ReceiveReset, sockVars
<1>5. ASSUME NEW s \in StreamIDs, WorkerStops(s) \/ PeerGetsReset(s) PROVE UNCHANGED R!vars
  BY <1>5, EndFrame, Stutters DEF sockVars
<1>6. CASE RunStep \/ Drop
  BY <1>6, RunFrame, Stutters
<1>7. CASE ReceiveSessionReset \/ ReceiveServiceIDs
  BY <1>7, SyncFrame, Stutters
<1>8. CASE OnStreamStartExists \/ Refuse \/ OnSessionResetReturns
  BY <1>8, Stutters DEF OnStreamStartExists, Refuse, OnSessionResetReturns, HandlerUnchanged,
     S!StopReturns, sockVars, peerVars
<1>9. CASE UNCHANGED vars
  BY <1>9, Stutters DEF vars, sockVars, peerVars
<1>10. ASSUME NEW k \in Cons PROVE ~AcceptStep(k) /\ \A s \in StreamIDs : ~Accept(k, s)
  BY DEF AcceptStep, StartSent, StartFails, AcceptStarts, Accept, StreamInv, DataInv,
     DestinationOnly
<1> QED
  BY <1>1, <1>2, <1>3, <1>4, <1>5, <1>6, <1>7, <1>8, <1>9, <1>10, ReliableByItself,
     ReliableWorker DEF Next, HandlerStep, ByItself

(* localproxy.go:165, 224, 246: in destination mode a local connection     *)
(* gets what the peer sent on its stream, also when StreamIDs are used     *)
(* again, sessions end and either side closes at any time.                 *)
THEOREM ServesReliably ==
    ASSUME Modes = {"destination"} PROVE Spec => ImplementsReliableStream
<1>1. Init => StreamInv /\ R!Init
  <2> SUFFICES ASSUME Init PROVE StreamInv /\ R!Init
    OBVIOUS
  <2>1. DataInv
    BY InitDataInv
  <2>2. QueuedOK
    BY DEF Init, QueuedOK
  <2>3. P!FreshOK
    BY SameSockets, P!FreshInit, NamesApart DEF Init, P!NoneAssumption
  <2>4. Serves = [s \in StreamIDs |-> None] /\ Bound = {}
    BY DEF Init, S!Init, Serves, Live, Bound
  <2>5. R!Init
    BY <2>4 DEF Init, R!Init
  <2> QED BY <2>1, <2>2, <2>3, <2>5 DEF StreamInv
<1>2. IInv /\ StreamInv /\ [Next]_vars => StreamInv'
  <2> SUFFICES ASSUME IInv, StreamInv, [Next]_vars PROVE StreamInv'
    OBVIOUS
  <2>1. DataInv'
    BY DataKeeps DEF StreamInv
  <2>2. P!FreshOK'
    <3>1. [P!Next]_(P!vars)
      BY StepUsesSockets DEF StreamInv, P!vars, sockVars
    <3>2. P!NoneAssumption
      BY NamesApart DEF P!NoneAssumption
    <3> QED BY <3>1, <3>2, P!FreshKeeps DEF StreamInv, IInv
  <2> QED BY <2>1, <2>2, QueuedKeeps DEF StreamInv
<1>3. IInv /\ StreamInv /\ [Next]_vars => [R!Next]_(R!vars)
  BY StepIsReliable
<1> QED BY <1>1, <1>2, <1>3, IInvHolds, PTL DEF Spec, ImplementsReliableStream, R!Spec
=============================================================================
