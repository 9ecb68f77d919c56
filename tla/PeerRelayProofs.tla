-------------------------- MODULE PeerRelayProofs --------------------------
(***************************************************************************)
(* Whatever connections come, replace each other, fail and leave, those    *)
(* that are registered are associated with each other and those that are   *)
(* not were closed, and what one sends another reaches it in order, for    *)
(* any number of connections and any capacity.                             *)
(***************************************************************************)
EXTENDS DebugSend, TLAPS

BeforePCs == {"new", "lock", "evict", "associate"}
RegisteredPCs == {"serviceIDs", "run", "waitReader", "waitWriter", "leave", "unlink"}

(* One handler at a time registers or unregisters, and none does while     *)
(* the sweeper goes through its connections.                               *)
Exclusive ==
    \A c \in Cons :
        Registering(c) => sweep = {} /\ (\A d \in Cons : Registering(d) => d = c)

(* Who is registered is between connect's two critical sections, and alone *)
(* of its mode.                                                            *)
MappedOK ==
    \A c \in mapped : handler[c] \in RegisteredPCs /\ (\A d \in mapped \cap SameMode(c) : d = c)

(* Registered connections are associated with each other, those that are   *)
(* not registered yet with nobody.                                         *)
AssocOK ==
    /\ \A c \in Cons : handler[c] \in BeforePCs => assoc[c] = None
    /\ \A c \in mapped :
          /\ assoc[c] \in (mapped \cap OtherMode(c)) \cup {None}
          /\ assoc[c] = None => mapped \cap OtherMode(c) = {}

(* Evict has closed the connection that Associate replaces.                *)
EvictedOK ==
    \A c \in Cons : handler[c] = "associate" => \A e \in mapped \cap SameMode(c) : closed[e]

ReplacedOK ==
    \A c \in Cons : handler[c] \notin BeforePCs /\ c \notin mapped => closed[c] \/ ws[c] = "closed"

(* The inductive invariant.                                                *)
IInv == TypeOK /\ Exclusive /\ MappedOK /\ AssocOK /\ EvictedOK /\ ReplacedOK

USE ConstantsAssumption

(* The two modes.                                                          *)
LEMMA ModeFacts ==
    ASSUME NEW c \in Cons
    PROVE  /\ c \in SameMode(c) /\ SameMode(c) \cup OtherMode(c) = Cons
           /\ SameMode(c) \cap OtherMode(c) = {}
           /\ \A d \in SameMode(c) : SameMode(d) = SameMode(c)
           /\ \A d \in OtherMode(c) : SameMode(d) = OtherMode(c) /\ OtherMode(d) = SameMode(c)
<1>1. CASE c \in Sources
  <2>1. SameMode(c) = Sources /\ OtherMode(c) = Destinations
    BY <1>1 DEF Cons, SameMode, OtherMode
  <2>2. \A d \in Destinations : SameMode(d) = Destinations /\ OtherMode(d) = Sources
    BY DEF Cons, SameMode, OtherMode
  <2> QED BY <1>1, <2>1, <2>2 DEF Cons, SameMode
<1>2. CASE c \in Destinations
  <2>1. SameMode(c) = Destinations /\ OtherMode(c) = Sources
    BY <1>2 DEF Cons, SameMode, OtherMode
  <2>2. \A d \in Sources : SameMode(d) = Sources /\ OtherMode(d) = Destinations
    BY DEF Cons, SameMode, OtherMode
  <2>3. \A d \in Destinations : SameMode(d) = Destinations
    BY DEF Cons, SameMode
  <2> QED BY <1>2, <2>1, <2>2, <2>3 DEF Cons
<1> QED BY <1>1, <1>2 DEF Cons

(* The initial state satisfies the inductive invariant.                    *)
LEMMA InitIInv == Init => IInv
<1> SUFFICES ASSUME Init PROVE IInv
  OBVIOUS
<1>1. chMessage \in [Cons -> Seq(Message)] /\ \A c \in Cons : Len(chMessage[c]) <= Capacity
  BY DEF Init
<1>2. TypeOK
  BY <1>1 DEF Init, TypeOK, HandlerPCs
<1> QED BY <1>2 DEF Init, IInv, Exclusive, Registering, MappedOK, AssocOK, EvictedOK, ReplacedOK,
                    BeforePCs

(* A step of a reader, a writer, a proxy or the tunnel leaves what the     *)
(* invariant is about as it is.                                            *)
LEMMA StutterKeeps ==
    ASSUME IInv, TypeOK', UNCHANGED <<handler, assoc, mapped, closed>>, sweep' \subseteq sweep,
           \A c \in Cons : ws[c] = "closed" => ws'[c] = "closed"
    PROVE  IInv'
  BY DEF IInv, Exclusive, Registering, MappedOK, AssocOK, EvictedOK, ReplacedOK, TypeOK

(* Types of the queues.                                                    *)
LEMMA QueueTypes ==
    ASSUME TypeOK, NEW c \in Cons, ReaderStep(c) \/ ReaderNext(c) \/ ReaderBadMessage(c) \/ WriterStep(c)
    PROVE  TypeOK' /\ UNCHANGED <<handler, sweep, conVars>>
<1> USE DEF TypeOK, conVars, queueVars
<1>1. CASE ReaderErr(c) \/ ReaderDrops(c) \/ ReaderBadMessage(c)
  BY <1>1 DEF ReaderErr, ReaderDrops, ReaderBadMessage
<1>2. CASE ReaderNext(c)
  BY <1>2 DEF ReaderNext
<1>3. CASE ReaderSends(c)
  <2> DEFINE m == [from |-> c, number |-> read[c]]
             o == assoc[c]
  <2>1. m \in Message /\ o \in Cons
    BY <1>3 DEF Message, ReaderSends
  <2>2. chMessage[o] \in Seq(Message) /\ Len(chMessage[o]) < Capacity
    BY <1>3, <2>1 DEF ReaderSends
  <2> HIDE DEF m
  <2>3. Append(chMessage[o], m) \in Seq(Message) /\ Len(Append(chMessage[o], m)) <= Capacity
    BY <2>1, <2>2
  <2>4. chMessage' = [chMessage EXCEPT ![o] = Append(chMessage[o], m)]
    BY <1>3 DEF ReaderSends, m
  <2>5. chMessage' \in [Cons -> Seq(Message)] /\ \A x \in Cons : Len(chMessage'[x]) <= Capacity
    BY <2>1, <2>3, <2>4
  <2> QED BY <1>3, <2>5 DEF ReaderSends
<1>4. CASE ReaderPanics(c)
  BY <1>4 DEF ReaderPanics
<1>5. CASE WriterCancelled(c) \/ WriterErr(c)
  BY <1>5 DEF WriterCancelled, WriterErr
<1>6. CASE WriterTakes(c)
  <2>1. Head(chMessage[c]) \in Message /\ Tail(chMessage[c]) \in Seq(Message)
        /\ Len(Tail(chMessage[c])) <= Capacity
    BY <1>6 DEF WriterTakes
  <2>2. chMessage' \in [Cons -> Seq(Message)] /\ \A x \in Cons : Len(chMessage'[x]) <= Capacity
    BY <1>6, <2>1 DEF WriterTakes
  <2> QED BY <1>6, <2>1, <2>2 DEF WriterTakes
<1>7. CASE WriterWritten(c)
  <2>1. inHand[c].from \in Cons /\ inHand[c].number \in Nat
    BY <1>7 DEF WriterWritten, Message
  <2> QED BY <1>7, <2>1 DEF WriterWritten
<1> QED BY <1>1, <1>2, <1>3, <1>4, <1>5, <1>6, <1>7 DEF ReaderStep, WriterStep

(* Close only marks and closes.                                            *)
LEMMA CloseFacts ==
    ASSUME TypeOK, NEW c \in Cons, Close(c)
    PROVE  /\ ws' \in [Cons -> {"none", "open", "dropped", "closed"}] /\ closed' \in [Cons -> BOOLEAN]
           /\ closed'[c] /\ \A d \in Cons : closed[d] => closed'[d]
           /\ \A d \in Cons : ws[d] = "closed" => ws'[d] = "closed"
  BY DEF Close, TypeOK

(* connect up to its first critical section.                               *)
LEMMA ConnectKeeps ==
    ASSUME IInv, NEW c \in Cons, Upgrade(c) \/ ConnectLock(c) \/ Evict(c)
    PROVE  IInv'
<1> USE DEF IInv
<1>1. CASE Upgrade(c)
  <2> USE <1>1 DEF Upgrade, HandlerGoes, queueVars
  <2>1. TypeOK'
    BY DEF TypeOK, HandlerPCs
  <2>2. Exclusive'
    BY DEF TypeOK, Exclusive, Registering
  <2>3. c \notin mapped
    BY DEF MappedOK, RegisteredPCs, TypeOK
  <2>4. MappedOK' /\ AssocOK' /\ EvictedOK'
    BY <2>3 DEF TypeOK, MappedOK, AssocOK, EvictedOK, BeforePCs, RegisteredPCs
  <2>5. ReplacedOK'
    BY DEF TypeOK, ReplacedOK, BeforePCs
  <2> QED BY <2>1, <2>2, <2>4, <2>5
<1>2. CASE ConnectLock(c)
  <2> USE <1>2 DEF ConnectLock, HandlerGoes, conVars, queueVars
  <2>1. TypeOK'
    BY DEF TypeOK, HandlerPCs
  <2>2. Exclusive'
    BY DEF TypeOK, Exclusive, Registering, CanLockManager, ManagerUnlocked
  <2>3. c \notin mapped
    BY DEF MappedOK, RegisteredPCs, TypeOK
  <2>4. MappedOK' /\ AssocOK'
    BY <2>3 DEF TypeOK, MappedOK, AssocOK, BeforePCs, RegisteredPCs
  <2>5. EvictedOK' /\ ReplacedOK'
    BY DEF TypeOK, EvictedOK, ReplacedOK, BeforePCs
  <2> QED BY <2>1, <2>2, <2>4, <2>5
<1>3. CASE Evict(c)
  <2> USE <1>3 DEF Evict, HandlerGoes, queueVars
  <2>1. PICK e \in mapped \cap SameMode(c) : Close(e)
    OBVIOUS
  <2>2. e \in Cons /\ \A d \in mapped \cap SameMode(c) : d = e
    BY <2>1, ModeFacts DEF MappedOK, TypeOK
  <2>0. /\ ws' \in [Cons -> {"none", "open", "dropped", "closed"}] /\ closed' \in [Cons -> BOOLEAN]
        /\ handler' \in [Cons -> HandlerPCs]
        /\ UNCHANGED <<reader, writer, assoc, mapped, expired, sweep, crashed, inHand, chMessage,
                       chClosed, read, delivered>>
    BY <2>1, <2>2, CloseFacts DEF TypeOK, HandlerPCs
  <2>3. TypeOK'
    BY ONLY <2>0, TypeOK DEF TypeOK
  <2>4. Exclusive'
    <3>1. /\ Registering(c) /\ sweep' = sweep
          /\ \A d \in Cons : handler'[d] = IF d = c THEN "associate" ELSE handler[d]
      BY DEF TypeOK, Registering
    <3> QED BY ONLY <3>1, Exclusive DEF Exclusive, Registering
  <2>5. c \notin mapped
    BY DEF MappedOK, RegisteredPCs, TypeOK
  <2>6. MappedOK' /\ AssocOK'
    BY <2>5 DEF TypeOK, MappedOK, AssocOK, BeforePCs, RegisteredPCs
  <2>7. EvictedOK'
    BY <2>1, <2>2, CloseFacts DEF TypeOK, EvictedOK
  <2>8. ReplacedOK'
    BY <2>1, <2>2, CloseFacts DEF TypeOK, ReplacedOK, BeforePCs
  <2> QED BY <2>3, <2>4, <2>6, <2>7, <2>8
<1> QED BY <1>1, <1>2, <1>3

(* The connection takes the place of its predecessor and gets its peer.    *)
LEMMA AssociateKeeps ==
    ASSUME IInv, NEW c \in Cons, Associate(c)
    PROVE  IInv'
<1> USE DEF IInv, Associate, HandlerGoes, queueVars
<1> DEFINE others == mapped \cap OtherMode(c)
<1>1. c \notin mapped /\ assoc[c] = None /\ handler[c] = "associate"
  BY DEF MappedOK, AssocOK, BeforePCs, RegisteredPCs, TypeOK
<1>2. \A o \in others : o \in Cons /\ o # c /\ \A d \in others : d = o
  BY <1>1, ModeFacts DEF MappedOK, TypeOK
<1>3. others # {} => (CHOOSE o \in others : TRUE) \in others
  OBVIOUS
<1>4. /\ assoc' \in [Cons -> Cons \cup {None}]
      /\ \A o \in others : assoc'[o] = c
      /\ others = {} => assoc'[c] = None
      /\ others # {} => assoc'[c] \in others
      /\ \A d \in Cons : d # c /\ d \notin others => assoc'[d] = assoc[d]
  BY <1>1, <1>2, <1>3 DEF TypeOK
<1>5. TypeOK'
  BY <1>4 DEF TypeOK, HandlerPCs
<1>6. Exclusive'
  BY DEF TypeOK, Exclusive, Registering
<1>7. \A d \in mapped' : d = c \/ d \in others
  BY ModeFacts DEF TypeOK
<1>8. MappedOK'
  <2> SUFFICES ASSUME NEW d \in mapped'
               PROVE  handler'[d] \in RegisteredPCs /\ \A e \in mapped' \cap SameMode(d) : e = d
    BY DEF MappedOK
  <2>1. CASE d = c
    BY <1>7, <2>1, ModeFacts DEF TypeOK, RegisteredPCs
  <2>2. CASE d \in others
    BY <1>2, <1>7, <2>2, ModeFacts DEF TypeOK, MappedOK
  <2> QED BY <1>7, <2>1, <2>2
<1>9. AssocOK'
  <2>0. \A d \in Cons : handler'[d] = IF d = c THEN "serviceIDs" ELSE handler[d]
    BY DEF TypeOK
  <2>1. ASSUME NEW d \in Cons, handler'[d] \in BeforePCs PROVE assoc'[d] = None
    <3>1. d # c /\ handler[d] \in BeforePCs
      BY <2>0, <2>1 DEF BeforePCs
    <3>2. d \notin mapped
      BY <3>1 DEF MappedOK, BeforePCs, RegisteredPCs
    <3> QED BY <1>4, <3>1, <3>2 DEF AssocOK
  <2>2. others \subseteq mapped' /\ c \in mapped'
    BY ModeFacts DEF TypeOK
  <2>3. ASSUME NEW d \in mapped'
        PROVE  /\ assoc'[d] \in (mapped' \cap OtherMode(d)) \cup {None}
               /\ assoc'[d] = None => mapped' \cap OtherMode(d) = {}
    <3>1. CASE d = c
      BY <1>1, <1>2, <1>4, <1>7, <2>2, <3>1, ModeFacts
    <3>2. CASE d \in others
      BY <1>1, <1>2, <1>4, <2>2, <3>2, ModeFacts
    <3>3. d = c \/ d \in others
      BY <1>7
    <3> QED BY <3>1, <3>2, <3>3
  <2> QED BY ONLY <2>1, <2>3 DEF AssocOK
<1>10. EvictedOK'
  BY DEF TypeOK, EvictedOK, Exclusive, Registering
<1>11. ReplacedOK'
  BY DEF TypeOK, EvictedOK, ReplacedOK, BeforePCs
<1> QED BY <1>5, <1>6, <1>8, <1>9, <1>10, <1>11

(* run, which neither registers nor unregisters.                           *)
LEMMA RunKeeps ==
    ASSUME IInv, NEW c \in Cons,
           \/ SendServiceIDs(c) \/ SendServiceIDsFails(c)
           \/ RunReadErr(c) \/ RunWriteErr(c) \/ RunReturns(c) \/ LeaveLock(c)
    PROVE  IInv'
<1> USE DEF IInv
<1>1. PICK to \in RegisteredPCs :
         /\ handler[c] \in RegisteredPCs \ {"unlink"}
         /\ handler' = [handler EXCEPT ![c] = to]
         /\ to = "unlink" => sweep = {} /\ ManagerUnlocked
  BY DEF SendServiceIDs, SendServiceIDsFails, RunReadErr, RunWriteErr, RunReturns, LeaveLock,
         HandlerGoes, CanLockManager, RegisteredPCs
<1>2. UNCHANGED <<assoc, mapped, expired, sweep, inHand, read, delivered>>
  BY DEF SendServiceIDs, SendServiceIDsFails, RunReadErr, RunWriteErr, RunReturns, LeaveLock,
         conVars, queueVars
<1>3. /\ ws' \in [Cons -> {"none", "open", "dropped", "closed"}] /\ closed' \in [Cons -> BOOLEAN]
      /\ \A d \in Cons : closed[d] => closed'[d]
      /\ \A d \in Cons : ws[d] = "closed" => ws'[d] = "closed"
  <2>1. CASE Close(c)
    BY <2>1, CloseFacts
  <2>2. CASE UNCHANGED <<ws, closed>>
    BY <2>2 DEF TypeOK
  <2> QED BY <2>1, <2>2 DEF SendServiceIDs, SendServiceIDsFails, RunReadErr, RunWriteErr, RunReturns,
                            LeaveLock, conVars
<1>4. TypeOK'
  <2>1. chMessage' \in [Cons -> Seq(Message)] /\ \A x \in Cons : Len(chMessage'[x]) <= Capacity
    <3>1. CASE RunReturns(c)
      BY <3>1 DEF RunReturns, TypeOK
    <3>2. CASE chMessage' = chMessage
      BY <3>2 DEF TypeOK
    <3> QED BY <3>1, <3>2 DEF SendServiceIDs, SendServiceIDsFails, RunReadErr, RunWriteErr,
                              LeaveLock, queueVars
  <2>2. /\ reader' \in [Cons -> {"none", "next", "sending", "ended"}]
        /\ writer' \in [Cons -> {"none", "select", "writing", "ended"}]
        /\ \A x \in Cons : writer'[x] = "writing" => writer[x] = "writing"
        /\ chClosed' \in [Cons -> BOOLEAN] /\ crashed' \in BOOLEAN
    BY DEF SendServiceIDs, SendServiceIDsFails, RunReadErr, RunWriteErr, RunReturns, LeaveLock,
           queueVars, TypeOK
  <2>3. handler' \in [Cons -> HandlerPCs]
    BY <1>1 DEF TypeOK, HandlerPCs, RegisteredPCs
  <2> QED BY <1>2, <1>3, <2>1, <2>2, <2>3 DEF TypeOK
<1>5. \A d \in Cons : handler'[d] = IF d = c THEN to ELSE handler[d]
  BY <1>1 DEF TypeOK
<1>6. Exclusive'
  BY ONLY <1>1, <1>2, <1>5, Exclusive DEF Exclusive, Registering, ManagerUnlocked, RegisteredPCs
<1>7. MappedOK'
  BY <1>2, <1>5 DEF TypeOK, MappedOK
<1>8. AssocOK'
  BY <1>1, <1>2, <1>5 DEF TypeOK, AssocOK, BeforePCs, RegisteredPCs
<1>9. EvictedOK'
  BY <1>1, <1>2, <1>3, <1>5, ModeFacts DEF TypeOK, EvictedOK, RegisteredPCs
<1>10. ReplacedOK'
  BY <1>1, <1>2, <1>3, <1>5 DEF TypeOK, ReplacedOK, BeforePCs, RegisteredPCs
<1> QED BY <1>4, <1>6, <1>7, <1>8, <1>9, <1>10

(* The connection leaves, and its peer only if it was still registered.    *)
LEMMA UnlinkKeeps ==
    ASSUME IInv, NEW c \in Cons, Unlink(c)
    PROVE  IInv'
<1> USE DEF IInv
<1> DEFINE others == IF c \in mapped THEN mapped \cap OtherMode(c) ELSE {}
<1>1. /\ handler[c] = "unlink"
      /\ \A d \in Cons : handler'[d] = IF d = c THEN "done" ELSE handler[d]
      /\ \A d \in Cons : ws'[d] = IF d = c THEN "closed" ELSE ws[d]
      /\ \A d \in Cons : assoc'[d] = IF d \in others THEN None ELSE assoc[d]
      /\ mapped' = mapped \ {c}
      /\ UNCHANGED <<closed, sweep>>
  BY DEF Unlink, HandlerGoes, TypeOK
<1>2. TypeOK'
  BY DEF Unlink, HandlerGoes, queueVars, TypeOK, HandlerPCs
<1> HIDE DEF others
<1>3. Exclusive'
  BY ONLY <1>1, Exclusive DEF Exclusive, Registering
<1>4. MappedOK'
  BY <1>1 DEF MappedOK, TypeOK
<1>5. AssocOK'
  <2>1. \A d \in Cons : handler'[d] \in BeforePCs => assoc'[d] = None
    BY <1>1 DEF AssocOK, BeforePCs
  <2>2. ASSUME NEW d \in mapped'
        PROVE  /\ assoc'[d] \in (mapped' \cap OtherMode(d)) \cup {None}
               /\ assoc'[d] = None => mapped' \cap OtherMode(d) = {}
    <3>1. d \in mapped /\ d \in Cons /\ d # c
      BY <1>1, <2>2 DEF TypeOK
    <3>2. CASE c \in mapped /\ d \in OtherMode(c)
      <4>1. OtherMode(d) = SameMode(c) /\ mapped' \cap OtherMode(d) = {}
        BY <1>1, <3>2, ModeFacts DEF MappedOK
      <4>2. assoc'[d] = None
        BY <1>1, <3>1, <3>2 DEF others
      <4> QED BY <4>1, <4>2
    <3>3. CASE ~(c \in mapped /\ d \in OtherMode(c))
      <4>1. assoc'[d] = assoc[d]
        BY <1>1, <3>1, <3>3 DEF others
      <4>2. c \notin mapped \cap OtherMode(d)
        BY <3>1, <3>3, ModeFacts
      <4> QED BY <1>1, <3>1, <4>1, <4>2 DEF AssocOK
    <3> QED BY <3>2, <3>3
  <2> QED BY ONLY <2>1, <2>2 DEF AssocOK
<1>6. EvictedOK' /\ ReplacedOK'
  BY <1>1 DEF EvictedOK, ReplacedOK, TypeOK
<1> QED BY <1>2, <1>3, <1>4, <1>5, <1>6

(* The sweeper.                                                            *)
LEMMA SweepKeeps ==
    ASSUME IInv, SweepStep
    PROVE  IInv'
<1> USE DEF IInv
<1>1. CASE Sweep
  BY <1>1 DEF Sweep, conVars, queueVars, TypeOK, Exclusive, ManagerUnlocked, Registering, MappedOK,
              AssocOK, EvictedOK, ReplacedOK
<1>2. ASSUME NEW c \in Cons, SweepCloses(c) PROVE IInv'
  <2>1. TypeOK' /\ UNCHANGED <<handler, assoc, mapped>> /\ sweep' \subseteq sweep
    BY <1>2, CloseFacts DEF SweepCloses, queueVars, TypeOK
  <2>2. \A d \in Cons : (closed[d] => closed'[d]) /\ (ws[d] = "closed" => ws'[d] = "closed")
    BY <1>2, CloseFacts DEF SweepCloses
  <2>3. Exclusive' /\ MappedOK' /\ AssocOK'
    BY <2>1 DEF Exclusive, Registering, MappedOK, AssocOK
  <2>4. EvictedOK' /\ ReplacedOK'
    BY <2>1, <2>2, ModeFacts DEF EvictedOK, ReplacedOK, TypeOK
  <2> QED BY <2>1, <2>3, <2>4
<1> QED BY <1>1, <1>2 DEF SweepStep

(* Every step keeps the inductive invariant.                               *)
LEMMA Inductive == IInv /\ [Next]_vars => IInv'
<1> SUFFICES ASSUME IInv, [Next]_vars PROVE IInv'
  OBVIOUS
<1>1. CASE UNCHANGED vars
  BY <1>1 DEF vars, conVars, queueVars, IInv, TypeOK, Exclusive, Registering, MappedOK, AssocOK,
              EvictedOK, ReplacedOK
<1>2. CASE SweepStep
  BY <1>2, SweepKeeps
<1>3. CASE Expire
  BY <1>3, StutterKeeps DEF Expire, conVars, queueVars, IInv, TypeOK
<1>4. ASSUME NEW c \in Cons, Drop(c) PROVE IInv'
  BY <1>4, StutterKeeps DEF Drop, queueVars, IInv, TypeOK
<1>5. ASSUME NEW c \in Cons, Upgrade(c) \/ HandlerStep(c) PROVE IInv'
  BY <1>5, ConnectKeeps, AssociateKeeps, RunKeeps, UnlinkKeeps DEF HandlerStep
<1>6. ASSUME NEW c \in Cons, WriterStep(c) \/ ReaderStep(c) \/ ReaderNext(c) \/ ReaderBadMessage(c)
      PROVE  IInv'
  BY <1>6, QueueTypes, StutterKeeps DEF IInv, conVars
<1> QED BY <1>1, <1>2, <1>3, <1>4, <1>5, <1>6 DEF Next

LEMMA IInvHolds == Spec => []IInv
BY InitIInv, Inductive, PTL DEF Spec

(* The variables of the relay keep their types, and no channel holds more  *)
(* than its capacity.                                                      *)
THEOREM TypeCorrect == Spec => []TypeOK
BY IInvHolds, PTL DEF IInv

(* peerconmanager.go:36-64, 68-82: registered connections are paired.      *)
THEOREM AlwaysPaired == Spec => []Paired
<1>1. IInv => Paired
  BY ModeFacts DEF IInv, TypeOK, MappedOK, AssocOK, Paired
<1> QED BY <1>1, IInvHolds, PTL

(* peerconmanager.go:42-51: a replaced connection was closed.              *)
THEOREM ReplacedClosed == Spec => []ReplacedIsClosed
<1>1. IInv => ReplacedIsClosed
  BY DEF IInv, ReplacedOK, ReplacedIsClosed, ManagerUnlocked, Registering, BeforePCs
<1> QED BY <1>1, IInvHolds, PTL

-----------------------------------------------------------------------------
(* What is on its way to a proxy, oldest first.                            *)
Pipe(c) == (IF writer[c] = "writing" THEN <<inHand[c]>> ELSE <<>>) \o chMessage[c]

(* The last message that was sent on, or dropped.                          *)
Last(c) == IF reader[c] = "sending" THEN read[c] - 1 ELSE read[c]

NoneOf(from, to) == \A i \in 1..Len(Pipe(to)) : Pipe(to)[i].from # from

(* Nobody reads or writes before run has started it.                       *)
StartPCs == BeforePCs \cup {"serviceIDs"}

HandsOK == \A c \in Cons : handler[c] \in StartPCs => writer[c] = "none" /\ reader[c] = "none"

(* The messages of one sender follow each other without a gap, the oldest  *)
(* one what was delivered.                                                 *)
FollowsAt(to, i) ==
    LET m == Pipe(to)[i]
    IN /\ m.number <= Last(m.from)
       /\ \A j \in 1..(i - 1) : Pipe(to)[j].from = m.from => Pipe(to)[j].number < m.number
       /\ ws[to] = "open" =>
             \/ \E j \in 1..(i - 1) :
                   Pipe(to)[j].from = m.from /\ Pipe(to)[j].number = m.number - 1
             \/ /\ \A j \in 1..(i - 1) : Pipe(to)[j].from # m.from
                /\ delivered[to][m.from] \in {0, m.number - 1}

PipeOK == \A to \in Cons : \A i \in 1..Len(Pipe(to)) : FollowsAt(to, i)

(* So will the next one.                                                   *)
LinkOK ==
    \A to, from \in Cons :
        assoc[from] = to /\ ws[to] = "open" /\ ~chClosed[to] =>
            \/ \E i \in 1..Len(Pipe(to)) :
                  Pipe(to)[i].from = from /\ Pipe(to)[i].number = Last(from)
            \/ NoneOf(from, to) /\ delivered[to][from] \in {0, Last(from)}

(* Two connections are associated once at most: before that they have      *)
(* nothing of each other.                                                  *)
OnceOK ==
    \A to, from \in Cons :
        handler[to] \in BeforePCs \/ handler[from] \in BeforePCs =>
            assoc[from] # to /\ NoneOf(from, to) /\ delivered[to][from] = 0

OrderInv == HandsOK /\ PipeOK /\ LinkOK /\ OnceOK

(* What the order is about.                                                *)
LEMMA PipeTypes ==
    ASSUME TypeOK, NEW c \in Cons
    PROVE  /\ Pipe(c) \in Seq(Message) /\ Len(Pipe(c)) \in Nat
           /\ \A i \in 1..Len(Pipe(c)) : Pipe(c)[i].from \in Cons /\ Pipe(c)[i].number \in Nat
           /\ read[c] \in Nat /\ Last(c) \in Int /\ (reader[c] # "sending" => Last(c) \in Nat)
           /\ \A d \in Cons : delivered[c][d] \in Nat
<1>1. chMessage[c] \in Seq(Message) /\ (writer[c] = "writing" => inHand[c] \in Message)
  BY DEF TypeOK
<1>2. Pipe(c) \in Seq(Message)
  BY <1>1 DEF Pipe
<1>3. Len(Pipe(c)) \in Nat /\ \A i \in 1..Len(Pipe(c)) : Pipe(c)[i] \in Message
  BY <1>2
<1>4. \A i \in 1..Len(Pipe(c)) : Pipe(c)[i].from \in Cons /\ Pipe(c)[i].number \in Nat
  BY <1>3 DEF Message
<1>5. read[c] \in Nat /\ \A d \in Cons : delivered[c][d] \in Nat
  BY DEF TypeOK
<1>6. Last(c) \in Int /\ (reader[c] # "sending" => Last(c) \in Nat)
  BY <1>5 DEF Last
<1> QED BY <1>2, <1>3, <1>4, <1>5, <1>6

(* Steps after which the same messages are on their way.                   *)
LEMMA QuietKeeps ==
    ASSUME TypeOK, TypeOK', OrderInv, HandsOK', UNCHANGED <<delivered, chClosed>>,
           \A c \in Cons : Pipe(c)' = Pipe(c),
           \A c \in Cons : ws'[c] = "open" => ws[c] = "open",
           \A c \in Cons : handler'[c] \in BeforePCs => handler[c] \in BeforePCs,
           \A c \in Cons : assoc'[c] \in {assoc[c], None},
           \A c \in Cons : Last(c)' = Last(c) \/ (assoc'[c] = None /\ Last(c)' >= Last(c))
    PROVE  OrderInv'
<1>1. \A c \in Cons : Pipe(c)' = Pipe(c)
  OBVIOUS
<1>2. \A c \in Cons : Last(c) \in Int /\ Last(c)' \in Int /\ Last(c)' >= Last(c)
  <2> SUFFICES ASSUME NEW c \in Cons PROVE Last(c) \in Int /\ Last(c)' \in Int /\ Last(c)' >= Last(c)
    OBVIOUS
  <2>1. read[c] \in Nat /\ read'[c] \in Nat
    BY DEF TypeOK
  <2>2. Last(c) \in Int /\ Last(c)' \in Int
    BY <2>1 DEF Last
  <2> QED BY <2>2
<1>3. ASSUME NEW to \in Cons, NEW i \in 1..Len(Pipe(to)') PROVE FollowsAt(to, i)'
  <2>1. i \in 1..Len(Pipe(to)) /\ FollowsAt(to, i)
    BY <1>1, <1>3 DEF OrderInv, PipeOK
  <2>2. PICK from \in Cons : from = Pipe(to)[i].from
    BY <2>1, PipeTypes
  <2>3. Pipe(to)[i].number \in Nat /\ Pipe(to)[i].number <= Last(from)
    BY <2>1, <2>2, PipeTypes DEF FollowsAt
  <2>4. Pipe(to)[i].number <= Last(from)'
    BY <1>2, <2>3
  <2> QED BY <1>1, <2>1, <2>2, <2>4 DEF FollowsAt, Last
<1>4. PipeOK'
  BY <1>3 DEF PipeOK
<1>5. \A to, from \in Cons : NoneOf(from, to)' <=> NoneOf(from, to)
  BY <1>1 DEF NoneOf
<1>6. ASSUME NEW to \in Cons, NEW from \in Cons, assoc'[from] = to, ws'[to] = "open", ~chClosed'[to]
      PROVE  \/ \E i \in 1..Len(Pipe(to)) :
                   Pipe(to)[i].from = from /\ Pipe(to)[i].number = Last(from)'
             \/ NoneOf(from, to) /\ delivered[to][from] \in {0, Last(from)'}
  <2>1. assoc[from] = to /\ Last(from)' = Last(from)
    BY <1>6
  <2> QED BY <1>6, <2>1 DEF OrderInv, LinkOK
<1>7. LinkOK'
  BY <1>1, <1>5, <1>6 DEF LinkOK
<1>8. OnceOK'
  BY <1>5 DEF OnceOK, OrderInv
<1> QED BY <1>4, <1>7, <1>8 DEF OrderInv

(* Most steps are of this kind.                                            *)
LEMMA QuietSteps ==
    ASSUME IInv, TypeOK', OrderInv,
           \/ SweepStep \/ Expire
           \/ \E c \in Cons :
                 \/ Drop(c) \/ ConnectLock(c) \/ Evict(c) \/ SendServiceIDs(c)
                 \/ SendServiceIDsFails(c) \/ RunReadErr(c) \/ RunWriteErr(c)
                 \/ LeaveLock(c) \/ Unlink(c) \/ WriterCancelled(c)
                 \/ ReaderNext(c) \/ ReaderErr(c) \/ ReaderBadMessage(c)
                 \/ ReaderDrops(c) \/ ReaderPanics(c)
    PROVE  OrderInv'
<1>t. /\ TypeOK /\ handler \in [Cons -> HandlerPCs]
      /\ reader \in [Cons -> {"none", "next", "sending", "ended"}]
      /\ writer \in [Cons -> {"none", "select", "writing", "ended"}]
      /\ ws \in [Cons -> {"none", "open", "dropped", "closed"}]
      /\ assoc \in [Cons -> Cons \cup {None}] /\ mapped \subseteq Cons /\ sweep \subseteq Cons
      /\ read \in [Cons -> Nat]
  BY DEF IInv, TypeOK
<1>0. HandsOK /\ UNCHANGED <<inHand, chMessage, delivered, chClosed>>
  BY DEF OrderInv, SweepStep, Sweep, SweepCloses, Expire, Drop, ConnectLock, Evict, SendServiceIDs,
     SendServiceIDsFails, RunReadErr, RunWriteErr, LeaveLock, Unlink, WriterCancelled, ReaderNext,
     ReaderErr, ReaderBadMessage, ReaderDrops, ReaderPanics, queueVars
<1>w. \A c \in Cons : writer'[c] = "writing" <=> writer[c] = "writing"
  <2>1. CASE SweepStep \/ Expire
    BY <2>1 DEF SweepStep, Sweep, SweepCloses, Expire
  <2>2. ASSUME NEW c \in Cons,
               \/ Drop(c) \/ ConnectLock(c) \/ Evict(c) \/ SendServiceIDsFails(c) \/ RunReadErr(c)
               \/ RunWriteErr(c) \/ LeaveLock(c) \/ Unlink(c) \/ ReaderNext(c) \/ ReaderErr(c)
               \/ ReaderBadMessage(c) \/ ReaderDrops(c) \/ ReaderPanics(c)
        PROVE  UNCHANGED writer
    BY <2>2 DEF Drop, ConnectLock, Evict, SendServiceIDsFails, RunReadErr, RunWriteErr, LeaveLock, Unlink,
       ReaderNext, ReaderErr, ReaderBadMessage, ReaderDrops, ReaderPanics
  <2>3. ASSUME NEW c \in Cons, SendServiceIDs(c)
        PROVE  \A d \in Cons : writer'[d] = "writing" <=> writer[d] = "writing"
    BY <1>t, <1>0, <2>3 DEF HandsOK, StartPCs, SendServiceIDs, HandlerGoes
  <2>4. ASSUME NEW c \in Cons, WriterCancelled(c)
        PROVE  \A d \in Cons : writer'[d] = "writing" <=> writer[d] = "writing"
    BY <1>t, <2>4 DEF WriterCancelled
  <2> QED BY <2>1, <2>2, <2>3, <2>4
<1>p. \A c \in Cons : Pipe(c)' = Pipe(c)
  BY <1>0, <1>w DEF Pipe
<1>1. CASE SweepStep \/ Expire
  <2>1. /\ UNCHANGED <<handler, reader, writer, assoc, read>>
        /\ \A c \in Cons : ws'[c] = "open" => ws[c] = "open"
    BY <1>t, <1>1 DEF SweepStep, Sweep, SweepCloses, Close, Expire, conVars, queueVars
  <2>2. \A c \in Cons : Last(c)' = Last(c)
    BY <2>1 DEF Last
  <2> QED BY <1>t, <1>0, <2>1, <2>2, <1>p, QuietKeeps DEF HandsOK
<1>2. ASSUME NEW c \in Cons, Drop(c) \/ Evict(c) \/ RunWriteErr(c) \/ RunReadErr(c)
                 \/ ConnectLock(c) \/ LeaveLock(c) \/ SendServiceIDsFails(c) \/ Unlink(c)
      PROVE  OrderInv'
  <2>1. /\ UNCHANGED <<reader, writer, read>>
        /\ \A d \in Cons : assoc'[d] \in {assoc[d], None}
    BY <1>t, <1>2 DEF Drop, Evict, RunWriteErr, RunReadErr, ConnectLock, LeaveLock, Unlink,
       SendServiceIDsFails, conVars, queueVars
  <2>2. \A d \in Cons : handler'[d] \in BeforePCs => handler[d] \in BeforePCs
    BY <1>t, <1>2 DEF Drop, Evict, RunWriteErr, RunReadErr, ConnectLock, LeaveLock, Unlink,
       SendServiceIDsFails, HandlerGoes, BeforePCs
  <2>3. \A d \in Cons : handler'[d] \in StartPCs => handler[d] \in StartPCs
    BY <1>t, <1>2 DEF Drop, Evict, RunWriteErr, RunReadErr, ConnectLock, LeaveLock, Unlink,
       SendServiceIDsFails, HandlerGoes, BeforePCs, StartPCs
  <2>4. ASSUME NEW e \in Cons, Close(e) PROVE \A d \in Cons : ws'[d] = "open" => ws[d] = "open"
    BY <1>t, <2>4 DEF Close
  <2>5. \A d \in Cons : ws'[d] = "open" => ws[d] = "open"
    BY <1>t, <1>2, <2>4 DEF Drop, Evict, RunWriteErr, RunReadErr, ConnectLock, LeaveLock, Unlink,
       SendServiceIDsFails, conVars
  <2>6. \A d \in Cons : Last(d)' = Last(d)
    BY <2>1 DEF Last
  <2>7. HandsOK'
    BY <1>t, <1>0, <2>1, <2>3 DEF HandsOK
  <2> QED BY <1>t, <1>0, <1>p, <2>1, <2>2, <2>5, <2>6, <2>7, QuietKeeps
<1>3. ASSUME NEW c \in Cons, SendServiceIDs(c) \/ WriterCancelled(c) \/ ReaderNext(c) \/ ReaderErr(c)
                 \/ ReaderBadMessage(c) \/ ReaderDrops(c) \/ ReaderPanics(c)
      PROVE  OrderInv'
  <2>1. /\ UNCHANGED <<ws, assoc>>
        /\ \A d \in Cons : handler'[d] \in BeforePCs => handler[d] \in BeforePCs
    BY <1>t, <1>3 DEF SendServiceIDs, WriterCancelled, ReaderNext, ReaderErr, ReaderBadMessage, ReaderDrops,
       ReaderPanics, HandlerGoes, conVars, queueVars, BeforePCs
  <2>2. HandsOK'
    BY <1>t, <1>0, <1>3 DEF HandsOK, StartPCs, HandlerGoes, BeforePCs, SendServiceIDs, WriterCancelled, ReaderNext, ReaderErr,
       ReaderBadMessage, ReaderDrops, ReaderPanics
  <2>3. ASSUME NEW d \in Cons PROVE Last(d)' = Last(d) \/ (assoc'[d] = None /\ Last(d)' >= Last(d))
    <3>1. read[d] \in Nat
      BY <1>t
    <3>2. CASE ~ReaderNext(c) /\ ~ReaderDrops(c)
      BY <1>t, <1>0, <1>3, <3>2 DEF HandsOK, StartPCs, HandlerGoes, Last, SendServiceIDs, WriterCancelled, ReaderErr, ReaderBadMessage,
         ReaderPanics, queueVars
    <3>3. CASE ReaderNext(c)
      BY <1>t, <3>1, <3>3 DEF Last, ReaderNext
    <3>4. CASE ReaderDrops(c)
      BY <1>t, <3>1, <3>4 DEF Last, ReaderDrops, conVars, queueVars
    <3> QED BY <3>2, <3>3, <3>4
  <2> QED BY <1>t, <1>0, <1>p, <2>1, <2>2, <2>3, QuietKeeps
<1> QED BY <1>1, <1>2, <1>3

(* The writer takes the next message in hand.                              *)
LEMMA TakesKeeps ==
    ASSUME IInv, TypeOK', OrderInv, NEW c \in Cons, WriterTakes(c)
    PROVE  OrderInv'
<1>1. /\ inHand \in [Cons -> Message \cup {None}] /\ chMessage \in [Cons -> Seq(Message)]
      /\ writer \in [Cons -> {"none", "select", "writing", "ended"}]
  BY DEF IInv, TypeOK
<1>2. /\ inHand' = [inHand EXCEPT ![c] = Head(chMessage[c])] /\ chMessage[c] # <<>>
      /\ chMessage' = [chMessage EXCEPT ![c] = Tail(@)]
      /\ writer' = [writer EXCEPT ![c] = "writing"] /\ writer[c] = "select"
      /\ UNCHANGED <<handler, reader, ws, assoc, chClosed, read, delivered>>
  BY DEF WriterTakes, conVars
<1>3. <<Head(chMessage[c])>> \o Tail(chMessage[c]) = chMessage[c] /\ <<>> \o chMessage[c] = chMessage[c]
  BY <1>1, <1>2
<1>4. \A d \in Cons : Pipe(d)' = Pipe(d)
  BY <1>1, <1>2, <1>3 DEF Pipe
<1>5. HandsOK'
  BY <1>1, <1>2 DEF OrderInv, HandsOK
<1>6. \A d \in Cons : Last(d)' = Last(d)
  BY <1>2 DEF Last
<1> QED BY <1>2, <1>4, <1>5, <1>6, QuietKeeps DEF IInv

(* A websocket opens before anything is sent to it.                        *)
LEMMA UpgradeKeeps ==
    ASSUME IInv, TypeOK', OrderInv, NEW c \in Cons, Upgrade(c)
    PROVE  OrderInv'
<1>1. /\ handler[c] = "new" /\ handler' = [handler EXCEPT ![c] = "lock"]
      /\ ws' = [ws EXCEPT ![c] = "open"]
      /\ UNCHANGED <<reader, writer, inHand, chMessage, chClosed, assoc, read, delivered>>
      /\ handler \in [Cons -> HandlerPCs] /\ ws \in [Cons -> {"none", "open", "dropped", "closed"}]
  BY DEF Upgrade, HandlerGoes, queueVars, IInv, TypeOK
<1>2. /\ \A d \in Cons : Pipe(d)' = Pipe(d) /\ Last(d)' = Last(d)
      /\ \A to, from \in Cons : NoneOf(from, to)' <=> NoneOf(from, to)
  BY <1>1 DEF Pipe, Last, NoneOf
<1>3. \A from \in Cons : assoc[from] # c /\ NoneOf(from, c)
  BY <1>1 DEF OrderInv, OnceOK, BeforePCs
<1>4. \A i \in 1..Len(Pipe(c)) : FALSE
  BY <1>3, PipeTypes DEF NoneOf, IInv
<1>5. PipeOK'
  <2> SUFFICES ASSUME NEW to \in Cons, NEW i \in 1..Len(Pipe(to)') PROVE FollowsAt(to, i)'
    BY DEF PipeOK
  <2>1. i \in 1..Len(Pipe(to)) /\ to # c /\ FollowsAt(to, i) /\ ws'[to] = ws[to]
    BY <1>1, <1>2, <1>4 DEF OrderInv, PipeOK
  <2>2. PICK from \in Cons : from = Pipe(to)[i].from
    BY <2>1, PipeTypes DEF IInv
  <2>3. Last(from)' = Last(from)
    BY <1>2
  <2> QED BY <1>1, <1>2, <2>1, <2>2 DEF FollowsAt, Last
<1>6. LinkOK'
  BY <1>1, <1>2, <1>3 DEF OrderInv, LinkOK
<1>7. OnceOK'
  BY <1>1, <1>2 DEF OrderInv, OnceOK, BeforePCs
<1>8. HandsOK'
  BY <1>1 DEF OrderInv, HandsOK, StartPCs, BeforePCs
<1> QED BY <1>5, <1>6, <1>7, <1>8 DEF OrderInv

(* Who is associated now was not before.                                   *)
LEMMA AssociateOrder ==
    ASSUME IInv, TypeOK', OrderInv, NEW c \in Cons, Associate(c)
    PROVE  OrderInv'
<1>1. /\ handler[c] = "associate" /\ handler' = [handler EXCEPT ![c] = "serviceIDs"]
      /\ UNCHANGED <<reader, writer, ws, inHand, chMessage, chClosed, read, delivered>>
      /\ handler \in [Cons -> HandlerPCs] /\ assoc \in [Cons -> Cons \cup {None}]
  BY DEF Associate, HandlerGoes, queueVars, IInv, TypeOK
<1>2. /\ \A d \in Cons : Pipe(d)' = Pipe(d) /\ Last(d)' = Last(d)
      /\ \A to, from \in Cons : NoneOf(from, to)' <=> NoneOf(from, to)
  BY <1>1 DEF Pipe, Last, NoneOf
<1>3. PICK others \in SUBSET mapped :
         /\ c \notin others
         /\ \A x \in Cons : \/ assoc'[x] = assoc[x]
                            \/ x \in others /\ assoc'[x] = c
                            \/ x = c /\ assoc'[x] \in others
  <2> DEFINE others == mapped \cap OtherMode(c)
  <2>1. c \notin others
    BY ModeFacts
  <2>2. others # {} => (CHOOSE o \in others : TRUE) \in others
    OBVIOUS
  <2>3. assoc' = [x \in Cons |->
                IF x \in others THEN c
                ELSE IF x = c /\ others # {} THEN CHOOSE o \in others : TRUE
                ELSE assoc[x]]
    BY DEF Associate
  <2> HIDE DEF others
  <2>4. \A x \in Cons : \/ assoc'[x] = assoc[x]
                        \/ x \in others /\ assoc'[x] = c
                        \/ x = c /\ assoc'[x] \in others
    BY <2>2, <2>3
  <2>5. others \in SUBSET mapped
    BY DEF others
  <2> QED BY <2>1, <2>4, <2>5
<1>4. \A x \in others : x \in Cons /\ handler[x] \notin BeforePCs
  BY DEF IInv, TypeOK, MappedOK, RegisteredPCs, BeforePCs
<1>5. PipeOK'
  <2> SUFFICES ASSUME NEW to \in Cons, NEW i \in 1..Len(Pipe(to)') PROVE FollowsAt(to, i)'
    BY DEF PipeOK
  <2>1. i \in 1..Len(Pipe(to)) /\ FollowsAt(to, i)
    BY <1>2 DEF OrderInv, PipeOK
  <2>2. PICK from \in Cons : from = Pipe(to)[i].from
    BY <2>1, PipeTypes DEF IInv
  <2>3. Last(from)' = Last(from)
    BY <1>2
  <2> QED BY <1>1, <1>2, <2>1, <2>2 DEF FollowsAt, Last
<1>6. LinkOK'
  <2> SUFFICES ASSUME NEW to \in Cons, NEW from \in Cons,
                      assoc'[from] = to, ws'[to] = "open", ~chClosed'[to]
               PROVE  \/ \E i \in 1..Len(Pipe(to)) :
                            Pipe(to)[i].from = from /\ Pipe(to)[i].number = Last(from)
                      \/ NoneOf(from, to) /\ delivered[to][from] \in {0, Last(from)}
    BY <1>1, <1>2 DEF LinkOK
  <2>1. CASE assoc'[from] = assoc[from]
    BY <1>1, <2>1 DEF OrderInv, LinkOK
  <2>2. CASE to = c \/ from = c
    BY <1>1, <2>2 DEF OrderInv, OnceOK, BeforePCs
  <2> QED BY <1>3, <2>1, <2>2
<1>7. OnceOK'
  <2> SUFFICES ASSUME NEW to \in Cons, NEW from \in Cons,
                      handler'[to] \in BeforePCs \/ handler'[from] \in BeforePCs
               PROVE  assoc'[from] # to /\ NoneOf(from, to) /\ delivered[to][from] = 0
    BY <1>1, <1>2 DEF OnceOK
  <2>1. (to # c /\ handler[to] \in BeforePCs) \/ (from # c /\ handler[from] \in BeforePCs)
    BY <1>1 DEF BeforePCs
  <2>2. assoc[from] # to /\ NoneOf(from, to) /\ delivered[to][from] = 0
    BY <2>1 DEF OrderInv, OnceOK
  <2>3. assoc[c] = None
    BY <1>1 DEF IInv, AssocOK, BeforePCs
  <2>4. assoc'[from] # to
    BY <1>3, <1>4, <2>1, <2>2
  <2> QED BY <2>2, <2>4
<1>8. HandsOK'
  BY <1>1 DEF OrderInv, HandsOK, StartPCs, BeforePCs
<1> QED BY <1>5, <1>6, <1>7, <1>8 DEF OrderInv

(* When run returns, nothing is left for the proxy.                        *)
LEMMA ReturnsKeeps ==
    ASSUME IInv, TypeOK', OrderInv, NEW c \in Cons, RunReturns(c)
    PROVE  OrderInv'
<1>1. /\ handler[c] \in {"waitReader", "waitWriter"} /\ handler' = [handler EXCEPT ![c] = "leave"]
      /\ chClosed' = [chClosed EXCEPT ![c] = TRUE] /\ chMessage' = [chMessage EXCEPT ![c] = <<>>]
      /\ UNCHANGED <<reader, writer, assoc, inHand, read, delivered>> /\ writer[c] = "ended"
      /\ handler \in [Cons -> HandlerPCs] /\ chClosed \in [Cons -> BOOLEAN]
      /\ chMessage \in [Cons -> Seq(Message)]
      /\ ws \in [Cons -> {"none", "open", "dropped", "closed"}]
  BY DEF RunReturns, IInv, TypeOK, OrderInv, HandsOK
<1>2. \A d \in Cons : ws'[d] = "open" => ws[d] = "open"
  BY <1>1 DEF RunReturns, Close
<1>3. /\ \A d \in Cons : Last(d)' = Last(d) /\ (d # c => Pipe(d)' = Pipe(d))
      /\ Pipe(c)' = <<>>
  BY <1>1 DEF Pipe, Last
<1>4. PipeOK'
  <2> SUFFICES ASSUME NEW to \in Cons, NEW i \in 1..Len(Pipe(to)') PROVE FollowsAt(to, i)'
    BY DEF PipeOK
  <2>1. to # c
    BY <1>3
  <2>2. i \in 1..Len(Pipe(to)) /\ FollowsAt(to, i) /\ Pipe(to)' = Pipe(to)
    BY <1>3, <2>1 DEF OrderInv, PipeOK
  <2>3. PICK from \in Cons : from = Pipe(to)[i].from
    BY <2>2, PipeTypes DEF IInv
  <2>4. Last(from)' = Last(from)
    BY <1>3
  <2> QED BY <1>1, <1>2, <2>2, <2>3 DEF FollowsAt, Last
<1>5. \A to, from \in Cons : NoneOf(from, to) => NoneOf(from, to)'
  BY <1>3 DEF NoneOf
<1>6. LinkOK'
  <2> SUFFICES ASSUME NEW to \in Cons, NEW from \in Cons,
                      assoc'[from] = to, ws'[to] = "open", ~chClosed'[to]
               PROVE  \/ \E i \in 1..Len(Pipe(to)') :
                            Pipe(to)'[i].from = from /\ Pipe(to)'[i].number = Last(from)'
                      \/ NoneOf(from, to)' /\ delivered'[to][from] \in {0, Last(from)'}
    BY DEF LinkOK
  <2>1. to # c /\ ~chClosed[to] /\ Pipe(to)' = Pipe(to) /\ Last(from)' = Last(from)
    BY <1>1, <1>3
  <2> QED BY <1>1, <1>2, <1>5, <2>1 DEF OrderInv, LinkOK
<1>7. OnceOK'
  BY <1>1, <1>5 DEF OrderInv, OnceOK, BeforePCs
<1>8. HandsOK'
  BY <1>1 DEF OrderInv, HandsOK, StartPCs, BeforePCs
<1> QED BY <1>4, <1>6, <1>7, <1>8 DEF OrderInv

(* What a reader sends goes behind everything else, as its sender's last.  *)
LEMMA SendsKeeps ==
    ASSUME IInv, TypeOK', OrderInv, NEW c \in Cons, ReaderSends(c)
    PROVE  OrderInv'
<1>o. PICK o \in Cons, m \in Message : o = assoc[c] /\ m = [from |-> c, number |-> read[c]]
  BY DEF ReaderSends, Message, IInv, TypeOK
<1>n. PICK n \in Nat : n = Len(Pipe(o))
  BY PipeTypes DEF IInv
<1>1. /\ reader[c] = "sending" /\ reader' = [reader EXCEPT ![c] = "next"]
      /\ o \in Cons /\ ~chClosed[o] /\ chMessage' = [chMessage EXCEPT ![o] = Append(@, m)]
      /\ UNCHANGED <<handler, writer, ws, assoc, inHand, chClosed, read, delivered>>
      /\ reader \in [Cons -> {"none", "next", "sending", "ended"}]
      /\ chMessage \in [Cons -> Seq(Message)] /\ read \in [Cons -> Nat]
      /\ (writer[o] = "writing" => inHand[o] \in Message)
  BY <1>o DEF ReaderSends, conVars, IInv, TypeOK
<1>2. m.from = c /\ m.number = read[c]
  BY <1>o
<1>3. /\ Last(c) = read[c] - 1 /\ Last(c)' = read[c] /\ read[c] \in Nat
      /\ \A d \in Cons : d # c => Last(d)' = Last(d)
  BY <1>1 DEF Last
<1>4. \A d \in Cons : d # o => Pipe(d)' = Pipe(d)
  BY <1>1 DEF Pipe
<1>5. Pipe(o) \in Seq(Message) /\ Pipe(o)' = Append(Pipe(o), m)
  <2>1. chMessage[o] \in Seq(Message) /\ chMessage'[o] = Append(chMessage[o], m)
    BY <1>1
  <2>2. CASE writer[o] = "writing"
    <3>1. <<inHand[o]>> \o Append(chMessage[o], m) = Append(<<inHand[o]>> \o chMessage[o], m)
      BY <1>1, <1>2, <2>1, <2>2
    <3> QED BY <1>1, <2>1, <2>2, <3>1 DEF Pipe
  <2>3. CASE writer[o] # "writing"
    <3>1. <<>> \o Append(chMessage[o], m) = Append(<<>> \o chMessage[o], m)
      BY <1>2, <2>1
    <3> QED BY <1>1, <1>2, <2>1, <2>3, <3>1 DEF Pipe
  <2> QED BY <2>2, <2>3
<1>6. Len(Pipe(o)') = n + 1 /\ Pipe(o)'[n + 1] = m /\ \A i \in 1..n : Pipe(o)'[i] = Pipe(o)[i]
  BY <1>n, <1>5
<1>7. \A i \in 1..n : FollowsAt(o, i)
  BY <1>n DEF OrderInv, PipeOK
<1>8. \A d \in Cons : \A i \in 1..Len(Pipe(d)) :
         Pipe(d)[i].from \in Cons /\ Pipe(d)[i].number \in Nat
  BY PipeTypes DEF IInv
<1>9. \A d \in Cons : Last(d) \in Int /\ Last(d)' \in Int /\ Last(d)' >= Last(d)
  <2>1. \A d \in Cons : Last(d) \in Int
    BY PipeTypes DEF IInv
  <2> QED BY <1>3, <2>1
<1>10. PipeOK'
  <2> SUFFICES ASSUME NEW to \in Cons, NEW i \in 1..Len(Pipe(to)') PROVE FollowsAt(to, i)'
    BY DEF PipeOK
  <2>1. CASE to # o
    <3>1. i \in 1..Len(Pipe(to)) /\ FollowsAt(to, i) /\ Pipe(to)' = Pipe(to)
      BY <1>4, <2>1 DEF OrderInv, PipeOK
    <3>2. PICK from \in Cons : from = Pipe(to)[i].from
      BY <1>8, <3>1
    <3>3. Pipe(to)[i].number <= Last(from)'
      BY <1>8, <1>9, <3>1, <3>2 DEF FollowsAt
    <3> QED BY <1>1, <3>1, <3>2, <3>3 DEF FollowsAt, Last
  <2>2. CASE to = o /\ i \in 1..n
    <3>1. FollowsAt(o, i) /\ Pipe(o)'[i] = Pipe(o)[i]
      BY <1>6, <1>7, <2>2
    <3>0. PICK from \in Cons : from = Pipe(o)[i].from
      BY <1>n, <1>8, <2>2
    <3>2. Pipe(o)[i].number <= Last(from)'
      BY <1>n, <1>8, <1>9, <2>2, <3>0, <3>1 DEF FollowsAt
    <3>3. \A j \in 1..(i - 1) : j \in 1..n /\ Pipe(o)'[j] = Pipe(o)[j]
      BY <1>5, <1>6, <2>2
    <3> QED BY <1>1, <2>2, <3>0, <3>1, <3>2, <3>3 DEF FollowsAt, Last
  <2>3. CASE to = o /\ i = n + 1
    <3>1. Pipe(o)'[i] = m /\ \A j \in 1..(i - 1) : j \in 1..n /\ Pipe(o)'[j] = Pipe(o)[j]
      BY <1>5, <1>6, <2>3
    <3>2. \A j \in 1..n : Pipe(o)[j].from = c => Pipe(o)[j].number < read[c]
      <4> SUFFICES ASSUME NEW j \in 1..n, Pipe(o)[j].from = c PROVE Pipe(o)[j].number < read[c]
        OBVIOUS
      <4>1. Pipe(o)[j].number \in Nat /\ Pipe(o)[j].number <= Last(c)
        BY <1>n, <1>7, <1>8 DEF FollowsAt
      <4> QED BY <1>3, <4>1
    <3>3. ws[o] = "open" =>
            \/ \E j \in 1..n : Pipe(o)[j].from = c /\ Pipe(o)[j].number = read[c] - 1
            \/ (\A j \in 1..n : Pipe(o)[j].from # c) /\ delivered[o][c] \in {0, read[c] - 1}
      <4>1. ws[o] = "open" =>
               \/ \E j \in 1..Len(Pipe(o)) : Pipe(o)[j].from = c /\ Pipe(o)[j].number = Last(c)
               \/ NoneOf(c, o) /\ delivered[o][c] \in {0, Last(c)}
        BY <1>o, <1>1 DEF OrderInv, LinkOK
      <4> QED BY <1>n, <1>3, <4>1 DEF NoneOf
    <3>4. n = i - 1
      BY <1>5, <2>3
    <3>5. m.number <= Last(c)'
      BY <1>2, <1>3
    <3>6. \A j \in 1..(i - 1) : Pipe(o)'[j].from = c => Pipe(o)'[j].number < read[c]
      BY <3>1, <3>2
    <3>7. ws'[o] = "open" =>
            \/ \E j \in 1..(i - 1) : Pipe(o)'[j].from = c /\ Pipe(o)'[j].number = read[c] - 1
            \/ (\A j \in 1..(i - 1) : Pipe(o)'[j].from # c) /\ delivered'[o][c] \in {0, read[c] - 1}
      BY <1>1, <3>1, <3>3, <3>4
    <3> QED BY <1>2, <2>3, <3>1, <3>5, <3>6, <3>7 DEF FollowsAt, Last
  <2>4. to = o => i \in 1..n \/ i = n + 1
    BY <1>6
  <2> QED BY <2>1, <2>2, <2>3, <2>4
<1>11. \A to, from \in Cons : NoneOf(from, to) /\ (to # o \/ from # c) => NoneOf(from, to)'
  <2> SUFFICES ASSUME NEW to \in Cons, NEW from \in Cons, NoneOf(from, to), to # o \/ from # c
               PROVE  NoneOf(from, to)'
    OBVIOUS
  <2>1. CASE to # o
    BY <1>4, <2>1 DEF NoneOf
  <2>2. CASE to = o
    <3>1. \A i \in 1..Len(Pipe(o)') : i \in 1..n \/ i = n + 1
      BY <1>6
    <3> QED BY <1>n, <1>2, <1>6, <2>2, <3>1 DEF NoneOf
  <2> QED BY <2>1, <2>2
<1>12. LinkOK'
  <2> SUFFICES ASSUME NEW to \in Cons, NEW from \in Cons,
                      assoc[from] = to, ws[to] = "open", ~chClosed[to]
               PROVE  \/ \E i \in 1..Len(Pipe(to)') :
                            Pipe(to)'[i].from = from /\ Pipe(to)'[i].number = Last(from)'
                      \/ NoneOf(from, to)' /\ delivered[to][from] \in {0, Last(from)'}
    BY <1>1 DEF LinkOK
  <2>1. CASE from = c
    <3>1. to = o /\ n + 1 \in 1..Len(Pipe(o)')
      BY <1>o, <1>6, <2>1
    <3> QED BY <1>2, <1>3, <1>6, <2>1, <3>1
  <2>2. CASE from # c
    <3>1. Last(from)' = Last(from)
      BY <1>3, <2>2
    <3>2. \/ \E i \in 1..Len(Pipe(to)) :
                Pipe(to)[i].from = from /\ Pipe(to)[i].number = Last(from)
          \/ NoneOf(from, to) /\ delivered[to][from] \in {0, Last(from)}
      BY DEF OrderInv, LinkOK
    <3>3. \A i \in 1..Len(Pipe(to)) : i \in 1..Len(Pipe(to)') /\ Pipe(to)'[i] = Pipe(to)[i]
      BY <1>n, <1>4, <1>6
    <3> QED BY <1>11, <2>2, <3>1, <3>2, <3>3
  <2> QED BY <2>1, <2>2
<1>13. OnceOK'
  BY <1>o, <1>1, <1>11 DEF OrderInv, OnceOK
<1>14. HandsOK'
  BY <1>1 DEF OrderInv, HandsOK
<1> QED BY <1>10, <1>12, <1>13, <1>14 DEF OrderInv

(* The writer is done with the oldest message.                             *)
LEMMA WritesKeeps ==
    ASSUME IInv, TypeOK', OrderInv, NEW c \in Cons, WriterWritten(c) \/ WriterErr(c)
    PROVE  /\ OrderInv'
           /\ \A to, from \in Cons :
                 delivered'[to][from] # delivered[to][from] =>
                     delivered[to][from] \in {0, delivered'[to][from] - 1}
<1>h. PICK h \in Message : h = inHand[c]
  BY DEF WriterWritten, WriterErr, IInv, TypeOK
<1>n. PICK n \in Nat : n = Len(chMessage[c])
  BY DEF IInv, TypeOK
<1>1. /\ writer[c] = "writing" /\ writer' \in [Cons -> {"none", "select", "writing", "ended"}]
      /\ \A d \in Cons : (d # c => writer'[d] = writer[d] /\ inHand'[d] = inHand[d])
      /\ writer'[c] \in {"select", "ended"}
      /\ UNCHANGED <<handler, reader, ws, assoc, chMessage, chClosed, read>>
      /\ chMessage[c] \in Seq(Message) /\ inHand[c] \in Message
      /\ delivered \in [Cons -> [Cons -> Nat]]
  BY DEF WriterWritten, WriterErr, conVars, IInv, TypeOK
<1>2. Pipe(c) = <<inHand[c]>> \o chMessage[c] /\ Pipe(c)' = chMessage[c]
  <2>1. <<>> \o chMessage[c] = chMessage[c]
    BY <1>1
  <2> QED BY <1>1, <2>1 DEF Pipe
<1>3. /\ Len(Pipe(c)') = n /\ Len(Pipe(c)) = n + 1 /\ h = Pipe(c)[1]
      /\ \A i \in 1..n : i + 1 \in 1..Len(Pipe(c)) /\ Pipe(c)'[i] = Pipe(c)[i + 1]
      /\ \A i \in 2..(n + 1) : i - 1 \in 1..n /\ Pipe(c)'[i - 1] = Pipe(c)[i]
      /\ 1 \in 1..Len(Pipe(c)) /\ \A i \in 1..Len(Pipe(c)) : i = 1 \/ i \in 2..(n + 1)
  BY <1>h, <1>n, <1>1, <1>2
<1>4. \A d \in Cons : Last(d)' = Last(d) /\ (d # c => Pipe(d)' = Pipe(d))
  BY <1>1 DEF Last, Pipe
<1>5. h.from \in Cons /\ h.number \in Nat
  BY DEF Message
<1>6. /\ \A to, from \in Cons :
            to # c \/ from # h.from \/ ws[c] # "open" => delivered'[to][from] = delivered[to][from]
      /\ ws[c] = "open" => delivered'[c][h.from] = h.number
  <2>1. CASE WriterErr(c)
    BY <1>1, <2>1 DEF WriterErr
  <2>2. CASE WriterWritten(c) /\ ws[c] # "open"
    BY <1>1, <2>2 DEF WriterWritten
  <2>3. CASE WriterWritten(c) /\ ws[c] = "open"
    <3>1. delivered' = [delivered EXCEPT ![c][h.from] = h.number]
      BY <1>h, <2>3 DEF WriterWritten
    <3> QED BY <1>1, <1>5, <2>3, <3>1
  <2> QED BY <2>1, <2>2, <2>3
<1>7. \A i \in 1..Len(Pipe(c)) :
         FollowsAt(c, i) /\ Pipe(c)[i].from \in Cons /\ Pipe(c)[i].number \in Nat
  BY PipeTypes DEF OrderInv, PipeOK, IInv
<1>8. \A i \in 2..(n + 1) : Pipe(c)[i].from = h.from => h.number < Pipe(c)[i].number
  <2> SUFFICES ASSUME NEW i \in 2..(n + 1), Pipe(c)[i].from = h.from PROVE h.number < Pipe(c)[i].number
    OBVIOUS
  <2>1. 1 \in 1..(i - 1) /\ i \in 1..Len(Pipe(c))
    BY <1>3
  <2> QED BY <1>3, <1>7, <2>1 DEF FollowsAt
<1>9. \A d \in Cons : Last(d) \in Int
  BY PipeTypes DEF IInv
<1>10. PipeOK'
  <2> SUFFICES ASSUME NEW to \in Cons, NEW i \in 1..Len(Pipe(to)') PROVE FollowsAt(to, i)'
    BY DEF PipeOK
  <2>1. CASE to # c
    <3>1. i \in 1..Len(Pipe(to)) /\ FollowsAt(to, i) /\ Pipe(to)' = Pipe(to)
      BY <1>4, <2>1 DEF OrderInv, PipeOK
    <3>2. PICK from \in Cons : from = Pipe(to)[i].from
      BY <3>1, PipeTypes DEF IInv
    <3>3. Last(from)' = Last(from) /\ delivered'[to][from] = delivered[to][from]
      BY <1>4, <1>6, <2>1
    <3> QED BY <1>1, <3>1, <3>2, <3>3 DEF FollowsAt, Last
  <2>2. CASE to = c
    <3> DEFINE k == i + 1
    <3>0. PICK p \in Message : p = Pipe(c)[k]
      BY <1>3, <2>2, PipeTypes DEF IInv
    <3>1. i \in 1..n /\ k \in 1..Len(Pipe(c)) /\ k \in 2..(n + 1) /\ FollowsAt(c, k) /\ Pipe(c)'[i] = p
      BY <1>3, <1>7, <2>2, <3>0
    <3>2. p.from \in Cons /\ p.number \in Nat /\ p.number <= Last(p.from)'
      BY <1>4, <1>7, <3>0, <3>1 DEF FollowsAt
    <3>3. \A j \in 1..(i - 1) : /\ j \in 1..n /\ j + 1 \in 1..(k - 1) /\ j + 1 \in 2..(n + 1)
                                /\ Pipe(c)'[j] = Pipe(c)[j + 1]
      BY <1>3, <3>1
    <3>4. \A j \in 1..(i - 1) : Pipe(c)'[j].from = p.from => Pipe(c)'[j].number < p.number
      BY <3>0, <3>1, <3>3 DEF FollowsAt
    <3>5. ASSUME ws[c] = "open"
          PROVE  \/ \E j \in 1..(i - 1) :
                       Pipe(c)'[j].from = p.from /\ Pipe(c)'[j].number = p.number - 1
                 \/ /\ \A j \in 1..(i - 1) : Pipe(c)'[j].from # p.from
                    /\ delivered'[c][p.from] \in {0, p.number - 1}
      <4>1. CASE h.from = p.from /\ h.number = p.number - 1
        <5>1. \A j \in 1..(i - 1) : Pipe(c)'[j].from # p.from
          <6> SUFFICES ASSUME NEW j \in 1..(i - 1), Pipe(c)'[j].from = p.from PROVE FALSE
            OBVIOUS
          <6>1. h.number < Pipe(c)[j + 1].number /\ Pipe(c)[j + 1].number < p.number
            BY <1>8, <3>3, <3>4, <4>1
          <6>2. Pipe(c)[j + 1].number \in Nat
            BY <1>3, <1>7, <3>3
          <6> QED BY <1>5, <3>2, <4>1, <6>1, <6>2
        <5>2. delivered'[c][p.from] = p.number - 1
          BY <1>6, <3>5, <4>1
        <5> QED BY <5>1, <5>2
      <4>2. ASSUME NEW j \in 1..(k - 1), Pipe(c)[j].from = p.from, Pipe(c)[j].number = p.number - 1, j # 1
            PROVE  \E l \in 1..(i - 1) : Pipe(c)'[l].from = p.from /\ Pipe(c)'[l].number = p.number - 1
        <5>1. j \in 2..(n + 1) /\ j - 1 \in 1..(i - 1)
          BY <1>3, <3>1, <4>2
        <5> QED BY <1>3, <4>2, <5>1
      <4>3. ASSUME \A j \in 1..(k - 1) : Pipe(c)[j].from # p.from, delivered[c][p.from] \in {0, p.number - 1}
            PROVE  /\ \A j \in 1..(i - 1) : Pipe(c)'[j].from # p.from
                   /\ delivered'[c][p.from] \in {0, p.number - 1}
        <5>1. 1 \in 1..(k - 1)
          BY <3>1
        <5>2. h.from # p.from
          BY <1>3, <4>3, <5>1
        <5>3. delivered'[c][p.from] = delivered[c][p.from]
          BY <1>6, <3>2, <5>2
        <5>4. \A j \in 1..(i - 1) : Pipe(c)'[j].from # p.from
          BY <3>3, <4>3
        <5> QED BY <4>3, <5>3, <5>4
      <4> QED BY <1>3, <3>0, <3>1, <3>5, <4>1, <4>2, <4>3 DEF FollowsAt
    <3> QED BY <1>1, <2>2, <3>1, <3>2, <3>4, <3>5 DEF FollowsAt, Last
  <2> QED BY <2>1, <2>2
<1>11. \A to, from \in Cons : NoneOf(from, to) =>
          NoneOf(from, to)' /\ delivered'[to][from] = delivered[to][from]
  <2> SUFFICES ASSUME NEW to \in Cons, NEW from \in Cons, NoneOf(from, to)
               PROVE  NoneOf(from, to)' /\ delivered'[to][from] = delivered[to][from]
    OBVIOUS
  <2>1. CASE to # c
    BY <1>4, <1>6, <2>1 DEF NoneOf
  <2>2. CASE to = c
    BY <1>3, <1>6, <2>2 DEF NoneOf
  <2> QED BY <2>1, <2>2
<1>12. LinkOK'
  <2> SUFFICES ASSUME NEW to \in Cons, NEW from \in Cons,
                      assoc[from] = to, ws[to] = "open", ~chClosed[to]
               PROVE  \/ \E i \in 1..Len(Pipe(to)') :
                            Pipe(to)'[i].from = from /\ Pipe(to)'[i].number = Last(from)'
                      \/ NoneOf(from, to)' /\ delivered'[to][from] \in {0, Last(from)'}
    BY <1>1 DEF LinkOK
  <2>l. Last(from)' = Last(from)
    BY <1>4
  <2>0. \/ \E i \in 1..Len(Pipe(to)) :
              Pipe(to)[i].from = from /\ Pipe(to)[i].number = Last(from)
        \/ NoneOf(from, to) /\ delivered[to][from] \in {0, Last(from)}
    BY DEF OrderInv, LinkOK
  <2>1. CASE to # c
    BY <1>4, <1>11, <2>0, <2>l, <2>1
  <2>2. CASE to = c /\ h.from = from /\ h.number = Last(from)
    <3>1. \A i \in 1..n : Pipe(c)'[i].from # from
      <4> SUFFICES ASSUME NEW i \in 1..n, Pipe(c)'[i].from = from PROVE FALSE
        OBVIOUS
      <4>1. i + 1 \in 2..(n + 1) /\ i + 1 \in 1..Len(Pipe(c)) /\ Pipe(c)[i + 1].from = from
        BY <1>3
      <4>2. Pipe(c)[i + 1].number <= Last(from) /\ Pipe(c)[i + 1].number \in Nat
        BY <1>7, <4>1 DEF FollowsAt
      <4>3. h.number < Pipe(c)[i + 1].number
        BY <1>8, <2>2, <4>1
      <4> QED BY <1>5, <2>2, <4>2, <4>3
    <3> QED BY <1>3, <1>6, <2>2, <2>l, <3>1 DEF NoneOf
  <2>3. ASSUME to = c, NEW i \in 1..Len(Pipe(c)), i # 1, Pipe(c)[i].from = from,
               Pipe(c)[i].number = Last(from)
        PROVE  \E j \in 1..Len(Pipe(c)') :
                   Pipe(c)'[j].from = from /\ Pipe(c)'[j].number = Last(from)
    <3>1. i - 1 \in 1..n /\ Pipe(c)'[i - 1] = Pipe(c)[i]
      BY <1>3, <2>3
    <3> QED BY <1>3, <2>3, <3>1
  <2> QED BY <1>3, <1>11, <2>0, <2>l, <2>1, <2>2, <2>3
<1>13. OnceOK'
  BY <1>1, <1>11 DEF OrderInv, OnceOK
<1>14. HandsOK'
  BY <1>1 DEF OrderInv, HandsOK
<1>15. ASSUME NEW to \in Cons, NEW from \in Cons, delivered'[to][from] # delivered[to][from]
       PROVE  delivered[to][from] \in {0, delivered'[to][from] - 1}
  <2>1. to = c /\ from = h.from /\ ws[c] = "open" /\ delivered'[to][from] = h.number
    BY <1>6, <1>15
  <2>2. FollowsAt(c, 1) /\ \A j \in 1..(1 - 1) : FALSE
    BY <1>3, <1>7
  <2> QED BY <1>3, <2>1, <2>2 DEF FollowsAt
<1> QED BY <1>10, <1>12, <1>13, <1>14, <1>15 DEF OrderInv

(* Every step keeps the order.                                             *)
LEMMA OrderKeeps == IInv /\ OrderInv /\ [Next]_vars => OrderInv'
<1> SUFFICES ASSUME IInv, OrderInv, [Next]_vars PROVE OrderInv'
  OBVIOUS
<1>0. TypeOK'
  BY Inductive DEF IInv
<1>1. CASE UNCHANGED vars
  <2>1. /\ UNCHANGED <<handler, reader, writer, ws, assoc, inHand, chMessage, chClosed, read, delivered>>
    BY <1>1 DEF vars, conVars, queueVars
  <2>2. \A c \in Cons : Pipe(c)' = Pipe(c) /\ Last(c)' = Last(c)
    BY <2>1 DEF Pipe, Last
  <2>3. HandsOK'
    BY <2>1 DEF OrderInv, HandsOK
  <2> QED BY <1>0, <2>1, <2>2, <2>3, QuietKeeps DEF IInv
<1>2. CASE SweepStep \/ Expire
  BY <1>0, <1>2, QuietSteps
<1>3. ASSUME NEW c \in Cons,
             Upgrade(c) \/ Drop(c) \/ HandlerStep(c) \/ WriterStep(c) \/ ReaderStep(c)
             \/ ReaderNext(c) \/ ReaderBadMessage(c)
      PROVE  OrderInv'
  <2>1. CASE Upgrade(c)
    BY <1>0, <2>1, UpgradeKeeps
  <2>2. CASE Associate(c)
    BY <1>0, <2>2, AssociateOrder
  <2>3. CASE RunReturns(c)
    BY <1>0, <2>3, ReturnsKeeps
  <2>4. CASE WriterTakes(c)
    BY <1>0, <2>4, TakesKeeps
  <2>5. CASE ReaderSends(c)
    BY <1>0, <2>5, SendsKeeps
  <2>6. CASE WriterWritten(c) \/ WriterErr(c)
    BY <1>0, <2>6, WritesKeeps
  <2>7. CASE \/ Drop(c) \/ ConnectLock(c) \/ Evict(c) \/ SendServiceIDs(c)
             \/ SendServiceIDsFails(c) \/ RunReadErr(c) \/ RunWriteErr(c)
             \/ LeaveLock(c) \/ Unlink(c) \/ WriterCancelled(c)
             \/ ReaderNext(c) \/ ReaderErr(c) \/ ReaderBadMessage(c)
             \/ ReaderDrops(c) \/ ReaderPanics(c)
    BY <1>0, <2>7, QuietSteps
  <2> QED BY <1>3, <2>1, <2>2, <2>3, <2>4, <2>5, <2>6, <2>7 DEF HandlerStep, WriterStep, ReaderStep
<1> QED BY <1>1, <1>2, <1>3 DEF Next

(* Only a writer delivers, and what it delivers is next.                   *)
LEMMA DeliversInOrder ==
    ASSUME IInv, TypeOK', OrderInv, [Next]_vars
    PROVE  \A to, from \in Cons :
              delivered'[to][from] # delivered[to][from] =>
                  delivered[to][from] \in {0, delivered'[to][from] - 1}
<1>1. CASE delivered' = delivered
  BY <1>1
<1>2. ASSUME NEW c \in Cons, WriterWritten(c)
      PROVE  \A to, from \in Cons :
                delivered'[to][from] # delivered[to][from] =>
                    delivered[to][from] \in {0, delivered'[to][from] - 1}
  BY <1>2, WritesKeeps
<1>3. CASE \/ UNCHANGED vars \/ SweepStep \/ Expire
           \/ \E c \in Cons : Upgrade(c) \/ Drop(c) \/ HandlerStep(c)
  BY <1>1, <1>3 DEF vars, queueVars, SweepStep, Sweep, SweepCloses, Expire, Upgrade, Drop, HandlerStep,
     ConnectLock, Evict, Associate, SendServiceIDs, SendServiceIDsFails, RunReadErr, RunWriteErr,
     RunReturns, LeaveLock, Unlink
<1>4. ASSUME NEW c \in Cons, ReaderStep(c) \/ ReaderNext(c) \/ ReaderBadMessage(c)
                \/ WriterCancelled(c) \/ WriterTakes(c) \/ WriterErr(c)
      PROVE  delivered' = delivered
  BY <1>4 DEF queueVars, ReaderStep, ReaderErr, ReaderDrops, ReaderSends, ReaderPanics, ReaderNext,
     ReaderBadMessage, WriterCancelled, WriterTakes, WriterErr
<1> QED BY <1>1, <1>2, <1>3, <1>4 DEF Next, WriterStep

LEMMA OrderHolds == Spec => [](IInv /\ OrderInv)
<1>1. Init => IInv /\ OrderInv
  <2> SUFFICES ASSUME Init PROVE OrderInv
    BY InitIInv
  <2>1. \A c \in Cons : Pipe(c) = <<>> /\ Len(Pipe(c)) = 0
    BY DEF Init, Pipe
  <2>2. \A to, from \in Cons : assoc[from] # to /\ NoneOf(from, to) /\ delivered[to][from] = 0
    BY <2>1 DEF Init, NoneOf
  <2>3. PipeOK
    BY <2>1 DEF PipeOK
  <2>4. HandsOK
    BY DEF Init, HandsOK
  <2> QED BY <2>2, <2>3, <2>4 DEF OrderInv, LinkOK, OnceOK
<1> QED BY <1>1, Inductive, OrderKeeps, PTL DEF Spec

(* peerconnection.go:120-180: what one proxy sends reaches the other in    *)
(* order and without gaps.                                                 *)
THEOREM RelayOrdered == Spec => RelayInOrder
<1>1. IInv /\ OrderInv /\ IInv' /\ [Next]_vars =>
         [\A to, from \in Cons :
             delivered'[to][from] # delivered[to][from] =>
                 delivered[to][from] \in {0, delivered'[to][from] - 1}]_delivered
  BY DeliversInOrder DEF IInv
<1> QED BY <1>1, OrderHolds, PTL DEF Spec, RelayInOrder
-----------------------------------------------------------------------------
(* Debug requests, which take no lock, disturb nothing of this, for any    *)
(* number of them: they only add messages, and only where there is room.   *)

(* A debug message has the type of a message and fits into the channel.    *)
LEMMA DebugSendsTypes ==
    ASSUME TypeOK, DebugTypeOK, NEW d \in DebugRequests, DebugSends(d)
    PROVE  TypeOK'
<1> DEFINE c == target[d]
           m == [from |-> c, number |-> 0]
<1>1. c \in Cons /\ Len(chMessage[c]) < Capacity /\ chMessage[c] \in Seq(Message)
  BY DEF DebugSends, DebugGoes, DebugTypeOK, TypeOK
<1>2. m \in Message
  BY <1>1 DEF Message
<1>3. chMessage' = [chMessage EXCEPT ![c] = Append(chMessage[c], m)]
  BY DEF DebugSends
<1>4. UNCHANGED <<crashed, relayVars, inHand, chClosed, read, delivered>>
  BY DEF DebugSends
<1> HIDE DEF m, c
<1>5. Append(chMessage[c], m) \in Seq(Message) /\ Len(Append(chMessage[c], m)) <= Capacity
  BY <1>1, <1>2, ConstantsAssumption
<1>6. chMessage' \in [Cons -> Seq(Message)] /\ \A x \in Cons : Len(chMessage'[x]) <= Capacity
  BY <1>1, <1>3, <1>5 DEF TypeOK
<1> QED BY <1>4, <1>6 DEF TypeOK, relayVars, conVars

(* A step of a debug request keeps the invariant of the relay.             *)
LEMMA DebugKeeps ==
    ASSUME IInv, DebugTypeOK, NEW d \in DebugRequests, Lookup(d) \/ Send(d)
    PROVE  IInv'
<1>1. UNCHANGED <<handler, assoc, mapped, closed, ws, sweep>>
  BY DEF Lookup, Send, DebugRaces, DebugNotFound, DebugFinds, DebugSends, DebugPanics, relayVars,
         conVars, vars
<1>2. CASE DebugSends(d)
  BY <1>1, <1>2, DebugSendsTypes, StutterKeeps DEF IInv
<1>3. CASE DebugRaces(d)
  <2>1. TypeOK'
    BY <1>3 DEF DebugRaces, IInv, TypeOK, relayVars, conVars, queueVars
  <2> QED BY <1>1, <2>1, StutterKeeps
<1>4. CASE UNCHANGED vars
  <2>1. TypeOK'
    BY <1>4 DEF IInv, TypeOK, vars, conVars, queueVars
  <2> QED BY <1>1, <2>1, StutterKeeps
<1> QED
  BY <1>2, <1>3, <1>4 DEF Lookup, Send, DebugNotFound, DebugFinds, DebugPanics

(* The variables of the debug requests keep their types.                   *)
LEMMA DebugTypes ==
    ASSUME IInv, DebugTypeOK, NEW d \in DebugRequests, Lookup(d) \/ Send(d)
    PROVE  DebugTypeOK'
<1>1. DebugMode \subseteq Cons
  BY DebugAssumption DEF Cons
<1>2. CASE Lookup(d)
  BY <1>1, <1>2 DEF Lookup, DebugRaces, DebugNotFound, DebugFinds, DebugGoes, DebugTypeOK, debugVars
<1>3. CASE Send(d)
  BY <1>3 DEF Send, DebugSends, DebugPanics, DebugGoes, DebugTypeOK
<1> QED BY <1>2, <1>3

LEMMA DebugInvHolds == DebugSpec => [](IInv /\ DebugTypeOK)
<1>1. DebugInit => IInv /\ DebugTypeOK
  BY InitIInv DEF DebugInit, DebugTypeOK
<1>2. ASSUME IInv, DebugTypeOK, [DebugNext]_<<vars, debugVars>> PROVE IInv' /\ DebugTypeOK'
  <2>1. CASE Next /\ UNCHANGED debugVars
    <3>1. IInv'
      BY <1>2, <2>1, Inductive
    <3> QED BY <1>2, <2>1, <3>1 DEF debugVars, DebugTypeOK
  <2>2. CASE UNCHANGED <<vars, debugVars>>
    <3>1. IInv'
      BY <1>2, <2>2, Inductive
    <3> QED BY <1>2, <2>2, <3>1 DEF debugVars, DebugTypeOK
  <2>3. ASSUME NEW d \in DebugRequests, Lookup(d) \/ Send(d) PROVE IInv' /\ DebugTypeOK'
    BY <1>2, <2>3, DebugKeeps, DebugTypes
  <2> QED BY <1>2, <2>1, <2>2, <2>3 DEF DebugNext
<1> QED BY <1>1, <1>2, PTL DEF DebugSpec

(* Beside debug requests, too, no channel overflows, ...                   *)
THEOREM DebugTypeCorrect == DebugSpec => [](TypeOK /\ DebugTypeOK)
BY DebugInvHolds, PTL DEF IInv

(* ... the registered connections are associated with each other           *)
(* (peerconmanager.go:36-64, 68-82) ...                                    *)
THEOREM DebugPaired == DebugSpec => []Paired
<1>1. IInv => Paired
  BY ModeFacts DEF IInv, MappedOK, AssocOK, Paired, TypeOK
<1> QED BY <1>1, DebugInvHolds, PTL

(* ... and those that were replaced were told to close                     *)
(* (peerconmanager.go:42-51).                                              *)
THEOREM DebugReplacedClosed == DebugSpec => []ReplacedIsClosed
<1>1. IInv => ReplacedIsClosed
  BY DEF IInv, ReplacedOK, ReplacedIsClosed, BeforePCs, ManagerUnlocked, Registering
<1> QED BY <1>1, DebugInvHolds, PTL
=============================================================================
