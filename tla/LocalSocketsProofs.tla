------------------------- MODULE LocalSocketsProofs -------------------------
(***************************************************************************)
(* The sucking goroutines are always within reach of StopSocket and        *)
(* StopAll, for any number of streams, connections and threads.            *)
(***************************************************************************)
EXTENDS LocalSockets, TLAPS

(* A goroutine closes its connection before it ends.                       *)
DoneIsClosed == \A k \in Cons : suck[k] = "done" => con[k] = "closed"

(* What is left to stop is in the map: the lock keeps it there, and its    *)
(* holder does not leave before.                                           *)
ToStopIsMapped == toStop \subseteq Mapped /\ (Unlocked => toStop = {})

(* What is mapped knows its StreamID, and is not new.                      *)
MapIsInverse ==
    /\ \A s \in Mapped : streamOf[socketMap[s]] = s
    /\ \A k \in Cons : con[k] = "new" => streamOf[k] = None

(* The inductive invariant.                                                *)
IInv ==
    /\ TypeOK
    /\ RunningIsMapped
    /\ MapIsInverse
    /\ UnmappedIsClosed
    /\ DoneIsClosed
    /\ ToStopIsMapped

USE NoneAssumption

(* The initial state satisfies the inductive invariant.                    *)
LEMMA InitIInv == Init => IInv
  BY DEF Init, IInv, TypeOK, RunningIsMapped, UnmappedIsClosed, DoneIsClosed,
         ToStopIsMapped, MapIsInverse, Mapped, Running, Unlocked

(* StartSocket: the StreamID is free, so nothing that runs is displaced.   *)
LEMMA StartStep ==
    ASSUME IInv, NEW s \in StreamIDs, NEW k \in Cons, StartSocket(s, k)
    PROVE  IInv'
<1> USE DEF IInv, StartSocket, TypeOK
<1>1. TypeOK'
  OBVIOUS
<1>2. RunningIsMapped'
  BY DEF RunningIsMapped, Running
<1>3. UnmappedIsClosed'
  BY DEF UnmappedIsClosed, RunningIsMapped, Running
<1>4. DoneIsClosed'
  BY DEF DoneIsClosed
<1>5. ToStopIsMapped'
  BY DEF ToStopIsMapped, Mapped, Unlocked
<1>6. MapIsInverse'
  BY DEF MapIsInverse, Mapped
<1> QED BY <1>1, <1>2, <1>3, <1>4, <1>5, <1>6

(* StopSocket, StopAll and Write.                                          *)
LEMMA ThreadStep ==
    ASSUME IInv, NEW t \in Threads,
           Call(t) \/ WriteOk(t) \/ WriteErr(t) \/ StopStep(t)
    PROVE  IInv'
<1> USE DEF IInv, TypeOK
<1>1. CASE Call(t)
  <2>1. CASE \E s \in StreamIDs : WriteLookup(t, s)
    BY <2>1 DEF WriteLookup, RunningIsMapped, MapIsInverse, Running, UnmappedIsClosed, DoneIsClosed,
                ToStopIsMapped, Mapped, Unlocked
  <2>2. ASSUME NEW S, S \subseteq StreamIDs, StopBegin(t, S) PROVE IInv'
    <3>1. closing = None
      BY <2>2 DEF StopBegin, ToStopIsMapped, Unlocked
    <3> QED BY <2>2, <3>1 DEF StopBegin, RunningIsMapped, MapIsInverse, Running, UnmappedIsClosed,
                              DoneIsClosed, ToStopIsMapped, Mapped, Unlocked
  <2> QED BY <1>1, <2>1, <2>2 DEF Call
<1>2. CASE WriteOk(t) \/ WriteErr(t)
  BY <1>2 DEF WriteOk, WriteErr, RunningIsMapped, MapIsInverse, Running, UnmappedIsClosed,
              DoneIsClosed, ToStopIsMapped, Mapped, Unlocked
<1>3. ASSUME NEW s \in StreamIDs, StopClose(t, s) PROVE IInv'
  BY <1>3 DEF StopClose, RunningIsMapped, MapIsInverse, Running, UnmappedIsClosed, DoneIsClosed,
              ToStopIsMapped, Mapped, Unlocked
<1>4. CASE StopWaited(t)
  <2>1. closing \in StreamIDs /\ socketMap[closing] \in Cons
    BY <1>4 DEF StopWaited, ToStopIsMapped, Mapped, Unlocked
  <2>2. TypeOK'
    BY <1>4, <2>1 DEF StopWaited
  <2>3. RunningIsMapped'
    BY <1>4, <2>1 DEF StopWaited, RunningIsMapped, Running
  <2>4. UnmappedIsClosed'
    BY <1>4, <2>1 DEF StopWaited, UnmappedIsClosed, DoneIsClosed
  <2>5. DoneIsClosed' /\ ToStopIsMapped'
    BY <1>4, <2>1 DEF StopWaited, DoneIsClosed, ToStopIsMapped, Mapped, Unlocked
  <2>6. MapIsInverse'
    BY <1>4, <2>1 DEF StopWaited, MapIsInverse, Mapped
  <2> QED BY <2>2, <2>3, <2>4, <2>5, <2>6
<1>5. CASE StopReturns(t)
  BY <1>5 DEF StopReturns, RunningIsMapped, MapIsInverse, Running, UnmappedIsClosed, DoneIsClosed,
              ToStopIsMapped, Mapped, Unlocked
<1> QED BY <1>1, <1>2, <1>3, <1>4, <1>5 DEF StopStep

(* Connections and their goroutines.                                       *)
LEMMA ConStep ==
    ASSUME IInv, NEW k \in Cons, Open(k) \/ Abandon(k) \/ SuckStep(k) \/ LocalEnds(k)
    PROVE  IInv'
<1> USE DEF IInv, TypeOK
<1>1. CASE Open(k) \/ Abandon(k)
  BY <1>1 DEF Open, Abandon, RunningIsMapped, MapIsInverse, Running, UnmappedIsClosed, DoneIsClosed,
              ToStopIsMapped, Mapped, Unlocked
<1>2. ASSUME NEW from \in {"read", "deliver", "report"},
             NEW to \in {"read", "deliver", "report", "close"}, SuckMoves(k, from, to)
      PROVE  IInv'
  BY <1>2 DEF SuckMoves, RunningIsMapped, MapIsInverse, Running, UnmappedIsClosed, DoneIsClosed,
              ToStopIsMapped, Mapped, Unlocked
<1>3. CASE SuckEnd(k)
  BY <1>3 DEF SuckEnd, RunningIsMapped, MapIsInverse, Running, UnmappedIsClosed, DoneIsClosed,
              ToStopIsMapped, Mapped, Unlocked
<1>4. CASE LocalEnds(k)
  BY <1>4 DEF LocalEnds, RunningIsMapped, MapIsInverse, Running, UnmappedIsClosed, DoneIsClosed,
              ToStopIsMapped, Mapped, Unlocked
<1> QED BY <1>1, <1>2, <1>3, <1>4 DEF SuckStep, ReadOk, ReadErr, DeliverOk, DeliverErr,
                                      Reported

(* Every step keeps the inductive invariant.                               *)
LEMMA Inductive == IInv /\ [Next]_vars => IInv'
<1> SUFFICES ASSUME IInv, [Next]_vars PROVE IInv'
  OBVIOUS
<1>1. CASE UNCHANGED vars
  BY <1>1 DEF vars, IInv, TypeOK, RunningIsMapped, MapIsInverse, Running, UnmappedIsClosed,
              DoneIsClosed, ToStopIsMapped, Mapped, Unlocked
<1> QED BY <1>1, StartStep, ThreadStep, ConStep DEF Next

LEMMA IInvHolds == Spec => []IInv
BY Inductive, InitIInv, PTL DEF Spec

(* The variables of the socket manager keep their types.                   *)
THEOREM TypeCorrect == Spec => []TypeOK
BY IInvHolds, PTL DEF IInv

(* socket_manager.go:73-98: every goroutine that runs is in the map.       *)
THEOREM Reachable == Spec => []RunningIsMapped
BY IInvHolds, PTL DEF IInv

(* socket.go:58-68: a connection that left the map is closed.              *)
THEOREM UnmappedClosed == Spec => []UnmappedIsClosed
BY IInvHolds, PTL DEF IInv

-----------------------------------------------------------------------------
(* Nobody writes to a connection that no socket was started for, so no     *)
(* write to it has failed.                                                 *)
FreshOK ==
    \A k \in Cons : streamOf[k] = None => local[k] # "reset" /\ \A t \in Threads : writing[t] # k

LEMMA FreshInit == Init => FreshOK
BY DEF Init, FreshOK

LEMMA FreshKeeps == ASSUME IInv, FreshOK, [Next]_vars PROVE FreshOK'
<1>0. /\ local \in [Cons -> {"there", "gone", "reset"}] /\ socketMap \in [StreamIDs -> Cons \cup {None}]
      /\ streamOf \in [Cons -> StreamIDs \cup {None}] /\ writing \in [Threads -> Cons \cup {None}]
  BY DEF IInv, TypeOK
<1>1. ASSUME NEW k \in Cons, Open(k) \/ Abandon(k) \/ SuckStep(k) \/ LocalEnds(k) PROVE FreshOK'
  BY <1>0, <1>1 DEF FreshOK, Open, Abandon, SuckStep, ReadOk, ReadErr, DeliverOk, DeliverErr,
     Reported, SuckMoves, SuckEnd, LocalEnds
<1>2. ASSUME NEW s \in StreamIDs, NEW k \in Cons, StartSocket(s, k) PROVE FreshOK'
  BY <1>0, <1>2 DEF FreshOK, StartSocket
<1>3. ASSUME NEW t \in Threads, Call(t) PROVE FreshOK'
  <2>1. \A s \in StreamIDs : socketMap[s] # None => streamOf[socketMap[s]] = s
    BY DEF IInv, MapIsInverse, Mapped
  <2> QED BY <1>0, <1>3, <2>1 DEF FreshOK, Call, WriteLookup, StopBegin
<1>4. ASSUME NEW t \in Threads, WriteOk(t) \/ WriteErr(t) \/ StopStep(t) PROVE FreshOK'
  BY <1>0, <1>4 DEF FreshOK, WriteOk, WriteErr, StopStep, StopClose, StopWaited, StopReturns
<1>5. CASE UNCHANGED vars
  BY <1>5 DEF FreshOK, vars
<1> QED BY <1>1, <1>2, <1>3, <1>4, <1>5 DEF Next
=============================================================================
