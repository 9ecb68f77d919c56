------------------------ MODULE TunnelServiceProofs ------------------------
(***************************************************************************)
(* The revision check makes the handlers' copies harmless, for any number  *)
(* of requests, tunnels and clients and any run of the clock: a copy that  *)
(* may still be written back is the stored tunnel itself.                  *)
(*                                                                         *)
(* And the answers to queries and requests agree over time, for any number *)
(* of either.  A query adds no step to the service, so what is proved of   *)
(* the service alone holds beside queries too; what is left is that a copy *)
(* which is closed belongs to a tunnel that is closed, and that a Peer's   *)
(* ConnectionID is that of a connection of this tunnel and mode.           *)
(***************************************************************************)
EXTENDS TunnelQueries, TLAPS

WritingPCs == {"check", "add", "peerCon", "peerClient", "update", "close"}

(* What a handler has in args, and that a close reads the clock first.     *)
ArgsOK ==
    \A r \in Requests :
        /\ pc[r] = "notify" => args[r] \in [tunnel : Tunnels]
        /\ pc[r] \in ConnectPCs => args[r] \in [tunnel : Tunnels, mode : Modes, client : Clients]
        /\ pc[r] \in {"close", "delete"} =>
              args[r] \in [tunnel : Tunnels, delete : BOOLEAN, at : Nat]
        /\ pc[r] = "close" => args[r].at <= now

StoredIsGenerated == \A t \in Tunnels : tunnels[t] # None => t \in generated

(* A copy that may be written back is older than the stored tunnel or is   *)
(* equal to it; ids are generated once, so revisions do not start again.   *)
CopyOK(r) ==
    /\ copy[r] \in Tunnel
    /\ T(r) \in generated
    /\ tunnels[T(r)] # None =>
          /\ copy[r].rev <= tunnels[T(r)].rev
          /\ copy[r].rev = tunnels[T(r)].rev => copy[r] = tunnels[T(r)]

CopiesOK == \A r \in Requests : pc[r] \in WritingPCs => CopyOK(r)

(* A connection recorded CONNECTED has a handler that is not done.         *)
RecordsOK ==
    \A r \in Requests :
        conns[r] = "CONNECTED" =>
            pc[r] \in {"peerCon", "peerClient", "update", "upgrade", "connected", "leave", "refused"}

(* The inductive invariant.                                                *)
IInv == TypeOK /\ ArgsOK /\ StoredIsGenerated /\ CopiesOK /\ RecordsOK

USE ConstantsAssumption

(* The initial state satisfies the inductive invariant.                    *)
LEMMA InitIInv == Init => IInv
  BY DEF Init, IInv, TypeOK, ArgsOK, StoredIsGenerated, CopiesOK, RecordsOK, Peer,
         ConnectPCs, WritingPCs

(* None is not a tunnel, so a stored tunnel has its fields.                *)
LEMMA TunnelNotNone == ASSUME NEW x \in Tunnel PROVE x # None /\ x.rev \in Nat /\ x.lifetimeAt \in Nat
  BY DEF Tunnel

(* Time passing.                                                           *)
LEMMA TickStep == IInv /\ Tick => IInv'
  BY DEF IInv, Tick, TypeOK, ArgsOK, StoredIsGenerated, CopiesOK, CopyOK, RecordsOK, T, Args,
         ConnectPCs

(* OpenTunnel: a new id has no copies.                                     *)
LEMMA OpenStepKeeps ==
    ASSUME IInv, NEW r \in Requests,
           (\E t \in Tunnels, lifetime \in Lifetimes : OpenAdd(r, t, lifetime)) \/ OpenStep(r)
    PROVE  IInv'
<1> USE DEF IInv
<1>1. ASSUME NEW t \in Tunnels, NEW lifetime \in Lifetimes, OpenAdd(r, t, lifetime)
      PROVE  IInv'
  <2>1. tunnels[t] = None /\ t \notin generated /\ pc[r] = "new"
    BY <1>1 DEF OpenAdd, Goes, StoredIsGenerated
  <2>2. [rev |-> 1, lifetimeAt |-> now + lifetime] \in Tunnel
    BY DEF Tunnel, TypeOK
  <2>3. TypeOK'
    BY <1>1, <2>2 DEF OpenAdd, Goes, TypeOK, Args
  <2>4. ArgsOK'
    BY <1>1 DEF OpenAdd, Goes, TypeOK, ArgsOK, ConnectPCs
  <2>5. StoredIsGenerated'
    BY <1>1 DEF OpenAdd, TypeOK, StoredIsGenerated
  <2>6. CopiesOK'
    <3> SUFFICES ASSUME NEW q \in Requests, pc'[q] \in WritingPCs PROVE CopyOK(q)'
      BY DEF CopiesOK
    <3>1. q # r /\ pc[q] = pc'[q] /\ args'[q] = args[q] /\ copy'[q] = copy[q]
      BY <1>1 DEF OpenAdd, Goes, TypeOK, WritingPCs
    <3>2. CopyOK(q)
      BY <3>1 DEF CopiesOK
    <3>3. T(q) # t /\ T(q)' = T(q)
      BY <2>1, <3>1, <3>2 DEF CopyOK, T
    <3>4. tunnels'[T(q)] = tunnels[T(q)] /\ T(q) \in generated'
      BY <1>1, <3>2, <3>3 DEF OpenAdd, TypeOK, CopyOK
    <3> QED BY <3>1, <3>2, <3>3, <3>4 DEF CopyOK
  <2>7. RecordsOK'
    BY <1>1, <2>1 DEF OpenAdd, Goes, TypeOK, RecordsOK
  <2> QED BY <2>3, <2>4, <2>5, <2>6, <2>7
<1>2. CASE OpenNotified(r) \/ OpenNotifyFails(r)
  <2>0. T(r) \in Tunnels /\ pc[r] = "notify"
    BY <1>2 DEF OpenNotified, OpenNotifyFails, Goes, ArgsOK, T
  <2> DEFINE t == T(r)
  <2>1. /\ pc' = [pc EXCEPT ![r] = "done"]
        /\ tunnels' \in {tunnels, [tunnels EXCEPT ![t] = None]}
        /\ UNCHANGED <<now, generated, peers, conns, args, copy>>
    BY <1>2 DEF OpenNotified, OpenNotifyFails, DeleteTunnel, Goes
  <2> HIDE DEF t
  <2>2. tunnels' \in [Tunnels -> Tunnel \cup {None}]
    BY ONLY <2>1, TypeOK DEF TypeOK
  <2>3. /\ pc' \in [Requests -> ConnectPCs \cup {"new", "notify", "close", "delete", "done", "refused"}]
        /\ \A q \in Requests : pc'[q] = IF q = r THEN "done" ELSE pc[q]
    BY ONLY <2>1, TypeOK DEF TypeOK
  <2>4. TypeOK'
    BY ONLY <2>1, <2>2, <2>3, TypeOK DEF TypeOK
  <2>5. ArgsOK'
    BY ONLY <2>1, <2>3, ArgsOK DEF ArgsOK, ConnectPCs
  <2>6. RecordsOK'
    BY ONLY <2>0, <2>1, <2>3, RecordsOK DEF RecordsOK
  <2>7. \A u \in Tunnels : tunnels'[u] = tunnels[u] \/ tunnels'[u] = None
    BY ONLY <2>1, TypeOK DEF TypeOK
  <2>8. StoredIsGenerated'
    BY ONLY <2>1, <2>7, StoredIsGenerated DEF StoredIsGenerated
  <2>9. CopiesOK'
    <3> SUFFICES ASSUME NEW q \in Requests, pc'[q] \in WritingPCs PROVE CopyOK(q)'
      BY DEF CopiesOK
    <3>1. CopyOK(q) /\ T(q)' = T(q)
      BY <2>1, <2>3 DEF CopiesOK, WritingPCs, T
    <3>2. T(q) \in Tunnels
      BY <3>1 DEF CopyOK, TypeOK
    <3> QED BY <2>1, <2>7, <3>1, <3>2 DEF CopyOK
  <2> QED BY <2>4, <2>5, <2>6, <2>8, <2>9
<1> QED BY <1>1, <1>2 DEF OpenStep

(* A write back makes every other copy of the tunnel an older one.         *)
LEMMA UpdateKeeps ==
    ASSUME IInv, NEW r \in Requests, pc[r] \in WritingPCs, T(r) \in Tunnels,
           NEW lifetimeAt \in Nat, UpdateTunnel(r, lifetimeAt),
           NEW to, to \notin WritingPCs, pc' = [pc EXCEPT ![r] = to],
           UNCHANGED <<generated, args, copy>>
    PROVE  /\ tunnels' \in [Tunnels -> Tunnel \cup {None}]
           /\ StoredIsGenerated'
           /\ CopiesOK'
<1> USE DEF IInv
<1>1. CopyOK(r) /\ tunnels[T(r)] # None /\ tunnels[T(r)].rev = copy[r].rev
  BY DEF CopiesOK, UpdateTunnel, UpdateAllowed
<1> DEFINE new == [rev |-> copy[r].rev + 1, lifetimeAt |-> lifetimeAt]
<1>2. new \in Tunnel /\ new.rev = copy[r].rev + 1 /\ copy[r].rev \in Nat
  BY <1>1 DEF CopyOK, Tunnel
<1>3. tunnels' = [tunnels EXCEPT ![T(r)] = new]
  BY DEF UpdateTunnel, NextRev
<1> HIDE DEF new
<1>4. tunnels' \in [Tunnels -> Tunnel \cup {None}]
  BY <1>2, <1>3 DEF TypeOK
<1>5. StoredIsGenerated'
  BY <1>1, <1>3 DEF StoredIsGenerated, CopyOK, TypeOK
<1>6. CopiesOK'
  <2> SUFFICES ASSUME NEW q \in Requests, pc'[q] \in WritingPCs PROVE CopyOK(q)'
    BY DEF CopiesOK
  <2>1. q # r /\ CopyOK(q)
    BY DEF CopiesOK, TypeOK
  <2>2. CASE T(q) = T(r)
    <3>1. copy[q].rev \in Nat /\ copy[q].rev < new.rev
      BY <1>1, <1>2, <2>1, <2>2 DEF CopyOK, Tunnel
    <3>2. tunnels'[T(q)] = new
      BY <1>3, <2>2 DEF TypeOK
    <3> QED BY <1>2, <2>1, <3>1, <3>2 DEF CopyOK, T
  <2>3. CASE T(q) # T(r)
    <3>1. tunnels'[T(q)] = tunnels[T(q)]
      BY <1>3, <2>3 DEF TypeOK
    <3> QED BY <2>1, <3>1 DEF CopyOK, T
  <2> QED BY <2>2, <2>3
<1> QED BY <1>4, <1>5, <1>6

(* TunnelConnect: a copy is what is stored when it is read, and while the  *)
(* revision stays it stays so.                                             *)
LEMMA ConnectStepKeeps ==
    ASSUME IInv, NEW r \in Requests,
           \/ \E t \in Tunnels, mode \in Modes, token \in Modes, client \in Clients :
                 ConnectRead(r, t, mode, token, client)
           \/ ConnectStep(r)
    PROVE  IInv'
<1> USE DEF IInv
<1>1. ASSUME NEW t \in Tunnels, NEW mode \in Modes, NEW token \in Modes, NEW client \in Clients,
             ConnectRead(r, t, mode, token, client)
      PROVE  IInv'
  <2>1. TypeOK' /\ ArgsOK' /\ StoredIsGenerated' /\ RecordsOK'
    BY <1>1 DEF ConnectRead, TypeOK, ArgsOK, StoredIsGenerated, RecordsOK, Args, ConnectPCs
  <2>2. CopiesOK'
    <3> SUFFICES ASSUME NEW q \in Requests, pc'[q] \in WritingPCs PROVE CopyOK(q)'
      BY DEF CopiesOK
    <3>1. CASE q = r
      <4>1. tunnels[t] # None /\ copy'[r] = tunnels[t] /\ T(r)' = t
        BY <1>1, <3>1 DEF ConnectRead, TypeOK, T, WritingPCs
      <4>2. tunnels[t] \in Tunnel /\ t \in generated
        BY <4>1 DEF TypeOK, StoredIsGenerated
      <4> QED BY <1>1, <3>1, <4>1, <4>2, TunnelNotNone DEF ConnectRead, CopyOK
    <3>2. CASE q # r
      BY <1>1, <3>2 DEF ConnectRead, TypeOK, CopiesOK, CopyOK, T
    <3> QED BY <3>1, <3>2
  <2> QED BY <2>1, <2>2
<1>2. ASSUME pc[r] \in ConnectPCs, UNCHANGED <<now, generated, tunnels, args, copy>>,
             NEW to, pc' = [pc EXCEPT ![r] = to],
             to \in ConnectPCs \cup {"done", "refused"},
             to \in WritingPCs => pc[r] \in WritingPCs
      PROVE  ArgsOK' /\ StoredIsGenerated' /\ CopiesOK'
  BY <1>2 DEF TypeOK, ArgsOK, StoredIsGenerated, CopiesOK, CopyOK, T, ConnectPCs, WritingPCs
<1>3. pc[r] \in ConnectPCs => T(r) \in Tunnels /\ M(r) \in Modes /\ args[r].client \in Clients
  BY DEF ArgsOK, T, M
<1>4. CASE ConnectCheck(r)
  BY <1>4, <1>2 DEF ConnectCheck, TypeOK, RecordsOK, ConnectPCs, WritingPCs
<1>5. CASE ConnectAdd(r)
  BY <1>5, <1>2 DEF ConnectAdd, Goes, TypeOK, RecordsOK, ConnectPCs, WritingPCs
<1>6. CASE ConnectSetCon(r)
  <2>1. peers' \in [Tunnels -> [Modes -> Peer]]
    <3>1. T(r) \in Tunnels /\ M(r) \in Modes /\ args[r].client \in Clients
      BY <1>6, <1>3 DEF ConnectSetCon, Goes, ConnectPCs
    <3>2. peers[T(r)] \in [Modes -> Peer] /\ peers[T(r)][M(r)] \in Peer
      BY <3>1 DEF TypeOK
    <3>3. [peers[T(r)][M(r)] EXCEPT !.con = r] \in Peer
      BY <3>1, <3>2 DEF Peer
    <3>4. [peers[T(r)] EXCEPT ![M(r)].con = r] \in [Modes -> Peer]
      BY <3>1, <3>2, <3>3
    <3> QED BY <1>6, <3>1, <3>4 DEF ConnectSetCon, TypeOK
  <2> QED BY <1>6, <1>2, <2>1 DEF ConnectSetCon, Goes, TypeOK, RecordsOK, ConnectPCs, WritingPCs
<1>7. CASE ConnectSetClient(r)
  <2>1. peers' \in [Tunnels -> [Modes -> Peer]]
    <3>1. T(r) \in Tunnels /\ M(r) \in Modes /\ args[r].client \in Clients
      BY <1>7, <1>3 DEF ConnectSetClient, Goes, ConnectPCs
    <3>2. peers[T(r)] \in [Modes -> Peer] /\ peers[T(r)][M(r)] \in Peer
      BY <3>1 DEF TypeOK
    <3>3. [peers[T(r)][M(r)] EXCEPT !.client = args[r].client, !.used = TRUE] \in Peer
      BY <3>1, <3>2 DEF Peer
    <3>4. [peers[T(r)] EXCEPT ![M(r)].client = args[r].client, ![M(r)].used = TRUE] \in [Modes -> Peer]
      BY <3>1, <3>2, <3>3
    <3> QED BY <1>7, <3>1, <3>4 DEF ConnectSetClient, TypeOK
  <2> QED BY <1>7, <1>2, <2>1 DEF ConnectSetClient, Goes, TypeOK, RecordsOK, ConnectPCs, WritingPCs
<1>8. CASE ConnectConflict(r)
  BY <1>8, <1>2 DEF ConnectConflict, Goes, TypeOK, RecordsOK, ConnectPCs, WritingPCs
<1>9. CASE Upgraded(r) \/ UpgradeFails(r) \/ ConnectionEnds(r)
  BY <1>9, <1>2 DEF Upgraded, UpgradeFails, ConnectionEnds, Goes, TypeOK, RecordsOK, ConnectPCs,
                    WritingPCs
<1>10. CASE ConnectLeave(r)
  BY <1>10, <1>2 DEF ConnectLeave, Goes, TypeOK, RecordsOK, ConnectPCs, WritingPCs
<1>11. CASE ConnectUpdate(r)
  <2>1. pc[r] = "update" /\ CopyOK(r)
    BY <1>11 DEF ConnectUpdate, Goes, CopiesOK, WritingPCs
  <2> QED BY <1>11, <1>3, <2>1, UpdateKeeps DEF ConnectUpdate, Goes, TypeOK, ArgsOK, RecordsOK,
                                                ConnectPCs, WritingPCs, CopyOK, Tunnel
<1> QED BY <1>1, <1>4, <1>5, <1>6, <1>7, <1>8, <1>9, <1>10, <1>11 DEF ConnectStep

(* CloseTunnel, likewise.                                                  *)
LEMMA CloseStepKeeps ==
    ASSUME IInv, NEW r \in Requests,
           (\E t \in Tunnels, delete \in BOOLEAN : CloseRead(r, t, delete)) \/ CloseStep(r)
    PROVE  IInv'
<1> USE DEF IInv
<1>1. ASSUME NEW t \in Tunnels, NEW delete \in BOOLEAN, CloseRead(r, t, delete)
      PROVE  IInv'
  <2>1. TypeOK' /\ ArgsOK' /\ StoredIsGenerated' /\ RecordsOK'
    BY <1>1 DEF CloseRead, TypeOK, ArgsOK, StoredIsGenerated, RecordsOK, Args, ConnectPCs
  <2>2. CopiesOK'
    <3> SUFFICES ASSUME NEW q \in Requests, pc'[q] \in WritingPCs PROVE CopyOK(q)'
      BY DEF CopiesOK
    <3>1. CASE q = r
      <4>1. tunnels[t] # None /\ copy'[r] = tunnels[t] /\ T(r)' = t
        BY <1>1, <3>1 DEF CloseRead, TypeOK, T, WritingPCs
      <4>2. tunnels[t] \in Tunnel /\ t \in generated
        BY <4>1 DEF TypeOK, StoredIsGenerated
      <4> QED BY <1>1, <3>1, <4>1, <4>2, TunnelNotNone DEF CloseRead, CopyOK
    <3>2. CASE q # r
      BY <1>1, <3>2 DEF CloseRead, TypeOK, CopiesOK, CopyOK, T
    <3> QED BY <3>1, <3>2
  <2> QED BY <2>1, <2>2
<1>2. CASE CloseUpdate(r)
  <2>1. pc[r] = "close" /\ CopyOK(r) /\ T(r) \in Tunnels /\ args[r].at \in Nat
    BY <1>2 DEF CloseUpdate, Goes, CopiesOK, ArgsOK, T, WritingPCs
  <2> QED BY <1>2, <2>1, UpdateKeeps DEF CloseUpdate, Goes, TypeOK, ArgsOK, RecordsOK, ConnectPCs,
                                         WritingPCs
<1>3. CASE CloseConflict(r)
  BY <1>3 DEF CloseConflict, Goes, TypeOK, ArgsOK, StoredIsGenerated, CopiesOK, CopyOK, T,
              RecordsOK, ConnectPCs, WritingPCs
<1>4. CASE CloseDelete(r)
  <2>1. pc[r] = "delete" /\ T(r) \in Tunnels
    BY <1>4 DEF CloseDelete, Goes, ArgsOK, T
  <2> QED BY <1>4, <2>1 DEF CloseDelete, DeleteTunnel, Goes, TypeOK, ArgsOK, StoredIsGenerated,
                            CopiesOK, CopyOK, T, RecordsOK, ConnectPCs, WritingPCs
<1> QED BY <1>1, <1>2, <1>3, <1>4 DEF CloseStep

(* Every step keeps the inductive invariant.                               *)
LEMMA Inductive == IInv /\ [Next]_vars => IInv'
<1> SUFFICES ASSUME IInv, [Next]_vars PROVE IInv'
  OBVIOUS
<1>1. CASE UNCHANGED vars
  BY <1>1 DEF vars, IInv, TypeOK, ArgsOK, StoredIsGenerated, CopiesOK, CopyOK, T, RecordsOK
<1> QED BY <1>1, TickStep, OpenStepKeeps, ConnectStepKeeps, CloseStepKeeps DEF Next, Begin

LEMMA IInvHolds == Spec => []IInv
BY InitIInv, Inductive, PTL DEF Spec

(* The variables of the service keep their types.                          *)
THEOREM TypeCorrect == Spec => []TypeOK
BY IInvHolds, PTL DEF IInv

(* services_connect.go:144-161: no handler that is done leaves a           *)
(* connection recorded CONNECTED.                                          *)
THEOREM RecordsEndHolds == Spec => []RecordsEnd
<1>1. IInv => RecordsEnd
  BY DEF IInv, RecordsOK, RecordsEnd
<1> QED BY <1>1, IInvHolds, PTL

(* Only the two updates change a stored tunnel.                            *)
LEMMA Writers ==
    ASSUME IInv, Next, NEW t \in Tunnels, tunnels[t] # None, tunnels'[t] \notin {None, tunnels[t]}
    PROVE  \E r \in Requests : ConnectUpdate(r) \/ CloseUpdate(r)
<1>1. ~Tick
  BY DEF Tick
<1>2. ASSUME NEW r \in Requests, Begin(r) PROVE FALSE
  BY <1>2 DEF Begin, OpenAdd, ConnectRead, CloseRead, IInv, TypeOK, StoredIsGenerated
<1>3. ASSUME NEW r \in Requests, OpenStep(r) PROVE FALSE
  BY <1>3 DEF OpenStep, OpenNotified, OpenNotifyFails, DeleteTunnel, IInv, TypeOK
<1>4. ASSUME NEW r \in Requests, ConnectStep(r) PROVE ConnectUpdate(r)
  BY <1>4 DEF ConnectStep, ConnectCheck, ConnectAdd, ConnectSetCon, ConnectSetClient,
              ConnectConflict, Upgraded, UpgradeFails, ConnectionEnds, ConnectLeave
<1>5. ASSUME NEW r \in Requests, CloseStep(r) PROVE CloseUpdate(r)
  BY <1>5 DEF CloseStep, CloseConflict, CloseDelete, DeleteTunnel, IInv, TypeOK
<1> QED BY <1>1, <1>2, <1>3, <1>4, <1>5 DEF Next

(* An update is by a handler whose copy is what is stored.                 *)
LEMMA UpdatesLatest ==
    ASSUME IInv, NEW r \in Requests, ConnectUpdate(r) \/ CloseUpdate(r)
    PROVE  /\ pc'[r] # pc[r]
           /\ T(r) \in Tunnels /\ tunnels[T(r)] # None /\ copy[r] = tunnels[T(r)]
           /\ \A t \in Tunnels : t # T(r) => tunnels'[t] = tunnels[t]
           /\ ConnectUpdate(r) => tunnels'[T(r)].lifetimeAt = tunnels[T(r)].lifetimeAt
           /\ CloseUpdate(r) => tunnels'[T(r)].lifetimeAt = args[r].at /\ args[r].at <= now
<1> USE DEF IInv
<1>1. pc[r] \in {"update", "close"} /\ T(r) \in Tunnels /\ (pc[r] = "close" => args[r].at <= now)
  BY DEF ConnectUpdate, CloseUpdate, Goes, ArgsOK, T, ConnectPCs
<1>2. CopyOK(r) /\ UpdateAllowed(r)
  BY <1>1 DEF ConnectUpdate, CloseUpdate, UpdateTunnel, CopiesOK, WritingPCs
<1>3. tunnels[T(r)] # None /\ copy[r] = tunnels[T(r)]
  BY <1>2 DEF CopyOK, UpdateAllowed
<1>4. pc'[r] # pc[r]
  BY <1>1 DEF ConnectUpdate, CloseUpdate, Goes, TypeOK
<1>5. ASSUME NEW l, UpdateTunnel(r, l)
      PROVE  /\ tunnels'[T(r)].lifetimeAt = l
             /\ \A t \in Tunnels : t # T(r) => tunnels'[t] = tunnels[t]
  BY <1>1, <1>5 DEF UpdateTunnel, TypeOK
<1>6. CASE ConnectUpdate(r)
  BY <1>1, <1>3, <1>4, <1>5, <1>6 DEF ConnectUpdate, CloseUpdate, Goes
<1>7. CASE CloseUpdate(r)
  BY <1>1, <1>3, <1>4, <1>5, <1>7 DEF ConnectUpdate, CloseUpdate, Goes
<1> QED BY <1>6, <1>7

(* The clock does not go back and no id is forgotten.                      *)
LEMMA NextGrows ==
    ASSUME IInv, Next
    PROVE  now \in Nat /\ now' \in Nat /\ now <= now' /\ generated \subseteq generated'
<1>1. CASE Tick
  BY <1>1 DEF Tick, IInv, TypeOK
<1>2. ASSUME NEW r \in Requests, Begin(r) PROVE now' = now /\ generated \subseteq generated'
  BY <1>2 DEF Begin, OpenAdd, ConnectRead, CloseRead
<1>3. ASSUME NEW r \in Requests, OpenStep(r) \/ ConnectStep(r) \/ CloseStep(r)
      PROVE  now' = now /\ generated' = generated
  BY <1>3 DEF OpenStep, OpenNotified, OpenNotifyFails, ConnectStep, ConnectCheck, ConnectAdd,
              ConnectSetCon, ConnectSetClient, ConnectUpdate, ConnectConflict, Upgraded,
              UpgradeFails, ConnectionEnds, ConnectLeave, CloseStep, CloseUpdate, CloseConflict,
              CloseDelete
<1> QED BY <1>1, <1>2, <1>3 DEF Next, IInv, TypeOK

(* A tunnel that was deleted is not stored again.                          *)
LEMMA NoneStays ==
    ASSUME IInv, Next, NEW t \in generated, tunnels[t] = None
    PROVE  tunnels'[t] = None
<1>0. t \in Tunnels
  BY DEF IInv, TypeOK
<1>1. CASE Tick
  BY <1>1 DEF Tick
<1>2. ASSUME NEW r \in Requests, Begin(r) PROVE tunnels'[t] = None
  BY <1>0, <1>2 DEF Begin, OpenAdd, ConnectRead, CloseRead, IInv, TypeOK
<1>3. ASSUME NEW r \in Requests, OpenStep(r) PROVE tunnels'[t] = None
  BY <1>0, <1>3 DEF OpenStep, OpenNotified, OpenNotifyFails, DeleteTunnel, IInv, TypeOK
<1>4. ASSUME NEW r \in Requests, ConnectUpdate(r) \/ CloseUpdate(r) PROVE tunnels'[t] = None
  BY <1>0, <1>4, UpdatesLatest
<1>5. ASSUME NEW r \in Requests, ConnectStep(r) PROVE tunnels'[t] = None
  BY <1>4, <1>5 DEF ConnectStep, ConnectCheck, ConnectAdd, ConnectSetCon, ConnectSetClient,
                    ConnectConflict, Upgraded, UpgradeFails, ConnectionEnds, ConnectLeave
<1>6. ASSUME NEW r \in Requests, CloseStep(r) PROVE tunnels'[t] = None
  BY <1>0, <1>4, <1>6 DEF CloseStep, CloseConflict, CloseDelete, DeleteTunnel, IInv, TypeOK
<1> QED BY <1>1, <1>2, <1>3, <1>5, <1>6 DEF Next

NoLostUpdateStep ==
    \A t \in Tunnels :
        tunnels[t] # None /\ tunnels'[t] \notin {None, tunnels[t]} =>
            \E r \in Requests : pc'[r] # pc[r] /\ T(r) = t /\ copy[r] = tunnels[t]

(* store_memory.go:176-199: every write back is of the latest version.     *)
THEOREM NoUpdateIsLost == Spec => NoLostUpdate
<1>1. IInv /\ [Next]_vars => [NoLostUpdateStep]_vars
  BY Writers, UpdatesLatest DEF NoLostUpdateStep
<1> QED BY <1>1, IInvHolds, PTL DEF Spec, NoLostUpdate, NoLostUpdateStep

(* services_closetunnel.go:22, tunnel.go:64-75: a closed tunnel stays so.  *)
THEOREM ClosedForEver == Spec => ClosedStaysClosed
<1>1. ASSUME IInv, Next, NEW t \in Tunnels, Closed(t) PROVE Closed(t)'
  <2>1. now \in Nat /\ now' \in Nat /\ now <= now' /\ t \in generated'
    BY <1>1, NextGrows DEF Closed
  <2>2. CASE tunnels'[t] = None
    BY <2>1, <2>2 DEF Closed
  <2>3. CASE tunnels[t] # None /\ tunnels'[t] = tunnels[t]
    BY <1>1, <2>1, <2>3 DEF Closed, Open, IInv, TypeOK, Tunnel
  <2>4. CASE tunnels[t] # None /\ tunnels'[t] \notin {None, tunnels[t]}
    <3>1. PICK r \in Requests : ConnectUpdate(r) \/ CloseUpdate(r)
      BY <1>1, <2>4, Writers
    <3>2. T(r) = t
      BY <1>1, <2>4, <3>1, UpdatesLatest
    <3>3. now' = now
      BY <3>1 DEF ConnectUpdate, CloseUpdate
    <3>4. tunnels[t].lifetimeAt \in Nat /\ tunnels[t].lifetimeAt <= now
      BY <1>1, <2>1, <2>4 DEF Closed, Open, IInv, TypeOK, Tunnel
    <3>5. \/ tunnels'[t].lifetimeAt = tunnels[t].lifetimeAt
          \/ tunnels'[t].lifetimeAt = args[r].at /\ args[r].at <= now
      BY <1>1, <3>1, <3>2, UpdatesLatest
    <3>6. tunnels'[t] \in Tunnel
      BY <1>1, <2>4, Inductive DEF IInv, TypeOK
    <3>7. ~(now' < tunnels'[t].lifetimeAt)
      BY <2>1, <3>3, <3>4, <3>5, <3>6 DEF Tunnel
    <3> QED BY <2>1, <3>7 DEF Closed, Open
  <2>5. CASE tunnels[t] = None /\ tunnels'[t] # None
    BY <1>1, <2>5, NoneStays DEF Closed
  <2> QED BY <2>2, <2>3, <2>4, <2>5
<1>2. IInv /\ [Next]_vars => [\A t \in Tunnels : Closed(t) => Closed(t)']_vars
  BY <1>1
<1> QED BY <1>2, IInvHolds, PTL DEF Spec, ClosedStaysClosed

-----------------------------------------------------------------------------

(* A request that asked for a tunnel already told closed is being refused, *)
(* or is no connect.                                                       *)
LateRequestsOK ==
    \A r \in late \cap Requests :
        /\ conns[r] = "none"
        /\ pc[r] \in {"check", "refused", "notify", "close", "delete", "done"}
        /\ pc[r] = "check" => ~Open(copy[r])

LateQueryOK(q) ==
    q \in late =>
        /\ answer[q].status # "OPEN"
        /\ queryPC[q] \notin {"new", "done"}
        /\ queryPC[q] \in {"list", "describe"} => ~Open(found[q])

(* Only an update that closes the tunnel changes its LifetimeAt.           *)
FoundOK(q) ==
    /\ found[q] \in Tunnel
    /\ tunnels[asked[q]] # None /\ Open(tunnels[asked[q]]) =>
          tunnels[asked[q]].lifetimeAt = found[q].lifetimeAt

QueryOK(q) ==
    /\ queryPC[q] \in {"new", "done"} => answer[q] = Unanswered
    /\ queryPC[q] \notin {"new", "done"} => asked[q] \in generated
    /\ queryPC[q] \in {"list", "describe"} => FoundOK(q) /\ answer[q] = Unanswered
    /\ answer[q].status = "CLOSED" => Closed(asked[q])
    /\ \A r \in ended[q] : HandlerEnded(r)

QueriesOK == \A q \in Queries : LateQueryOK(q) /\ QueryOK(q)

ToldOK == \A t \in told : Closed(t)

DeletesGenerated == \A r \in Requests : pc[r] = "delete" => T(r) \in generated

AcceptedPCs == {"peerCon", "peerClient", "update", "upgrade", "connected", "leave", "done", "refused"}

AcceptedOK ==
    \A r \in Requests :
        /\ conns[r] # "none" => pc[r] \in AcceptedPCs
        /\ pc[r] = "peerCon" => conns[r] # "none"

Accepted(r, t, m) == conns[r] # "none" /\ T(r) = t /\ M(r) = m

PeersOK ==
    \A t \in Tunnels, m \in Modes :
        peers[t][m].con # None => Accepted(peers[t][m].con, t, m)

DescribedOK(q) ==
    \A m \in Modes :
        answer[q][m] = "CONNECTED" =>
            \E r \in Requests : Accepted(r, asked[q], m) /\ (r \in ended[q] => LeftConnected(r))

(* The inductive invariant, beside that of the service.                    *)
QInv ==
    /\ QueryTypeOK /\ LateRequestsOK /\ QueriesOK /\ ToldOK
    /\ DeletesGenerated /\ AcceptedOK /\ PeersOK /\ \A q \in Queries : DescribedOK(q)

LEMMA InitQInv == QueryInit => Init /\ QInv
  BY DEF Init, QueryInit, QInv, QueryTypeOK, LateRequestsOK, QueriesOK, LateQueryOK, QueryOK,
         ToldOK, DeletesGenerated, AcceptedOK, PeersOK, DescribedOK, Unanswered, Statuses, Modes

(* A query takes no step of the service.                                   *)
LEMMA QueriesStutter == [QueriesNext]_allVars => [Next]_vars
<1>1. UNCHANGED allVars => UNCHANGED vars
  BY DEF allVars
<1>2. Serve => Next
  BY DEF Serve
<1>3. ASSUME NEW q \in Queries, QueryStep(q) PROVE UNCHANGED vars
  BY <1>3 DEF QueryStep, QueryRead, QueryMissing, QueryStatus, DescribeConnection, Respond,
              DescribePanics, QueryEnds
<1> QED BY <1>1, <1>2, <1>3 DEF QueriesNext

(* Beside queries the service is what it is without them.                  *)
THEOREM QueriesOnlyLook == QueriesSpec => Spec
BY QueriesStutter, InitQInv, PTL DEF QueriesSpec, Spec

-----------------------------------------------------------------------------
(* What one step of the service may do to a handler.                       *)
HandlerStep(r) ==
    /\ pc[r] # "new" => args'[r] = args[r]
    /\ pc[r] = "done" => pc'[r] = "done"
    /\ pc[r] = "new" => pc'[r] \in {"new", "notify", "check", "refused", "close"}
    /\ pc'[r] = "new" => pc[r] = "new"
    /\ pc'[r] = "check" /\ pc[r] # "check" => pc[r] = "new" /\ copy'[r] = tunnels[T(r)']
    /\ pc[r] = "check" =>
          /\ copy'[r] = copy[r]
          /\ pc'[r] \in {"check", "refused"} \/ (pc'[r] = "add" /\ Open(copy[r]))
    /\ pc[r] \in {"refused", "done"} => pc'[r] = pc[r]
    /\ pc[r] = "refused" => conns'[r] = conns[r]
    /\ pc[r] = "notify" => pc'[r] \in {"notify", "done"}
    /\ pc[r] = "close" => pc'[r] \in {"close", "delete", "done", "refused"}
    /\ pc'[r] = "delete" => pc[r] \in {"close", "delete"}
    /\ pc[r] = "delete" => pc'[r] \in {"delete", "done"}
    /\ pc[r] \in AcceptedPCs => pc'[r] \in AcceptedPCs
    /\ conns[r] # "none" => conns'[r] # "none"
    /\ conns'[r] # "none" /\ conns[r] = "none" => pc[r] \in {"add", "leave"} /\ pc'[r] \in AcceptedPCs
    /\ pc'[r] = "peerCon" /\ pc[r] # "peerCon" => conns'[r] # "none"

LEMMA HandlerSteps == ASSUME IInv, [Next]_vars, NEW r \in Requests PROVE HandlerStep(r)
<1> USE DEF HandlerStep, IInv, TypeOK, AcceptedPCs
<1>1. CASE UNCHANGED vars
  BY <1>1 DEF vars
<1>2. CASE Tick
  BY <1>2 DEF Tick
<1>3. ASSUME NEW x \in Requests, NEW t \in Tunnels, NEW l \in Lifetimes, OpenAdd(x, t, l)
      PROVE  HandlerStep(r)
  BY <1>3 DEF OpenAdd, Goes
<1>4. ASSUME NEW x \in Requests, NEW t \in Tunnels, NEW m \in Modes, NEW n \in Modes,
             NEW c \in Clients, ConnectRead(x, t, m, n, c)
      PROVE  HandlerStep(r)
  BY <1>4 DEF ConnectRead, T
<1>5. ASSUME NEW x \in Requests, NEW t \in Tunnels, NEW d \in BOOLEAN, CloseRead(x, t, d)
      PROVE  HandlerStep(r)
  BY <1>5 DEF CloseRead
<1>6. ASSUME NEW x \in Requests, OpenStep(x) PROVE HandlerStep(r)
  BY <1>6 DEF OpenStep, OpenNotified, OpenNotifyFails, Goes
<1>7. ASSUME NEW x \in Requests, ConnectCheck(x) PROVE HandlerStep(r)
  BY <1>7 DEF ConnectCheck
<1>8. ASSUME NEW x \in Requests, ConnectAdd(x) \/ ConnectSetCon(x) \/ ConnectSetClient(x)
      PROVE  HandlerStep(r)
  BY <1>8 DEF ConnectAdd, ConnectSetCon, ConnectSetClient, Goes
<1>9. ASSUME NEW x \in Requests, ConnectUpdate(x) \/ ConnectConflict(x) PROVE HandlerStep(r)
  BY <1>9 DEF ConnectUpdate, ConnectConflict, Goes
<1>10. ASSUME NEW x \in Requests,
              Upgraded(x) \/ UpgradeFails(x) \/ ConnectionEnds(x) \/ ConnectLeave(x)
       PROVE  HandlerStep(r)
  BY <1>10 DEF Upgraded, UpgradeFails, ConnectionEnds, ConnectLeave, Goes
<1>11. ASSUME NEW x \in Requests, CloseStep(x) PROVE HandlerStep(r)
  BY <1>11 DEF CloseStep, CloseUpdate, CloseConflict, CloseDelete, Goes
<1> QED
  BY <1>1, <1>2, <1>3, <1>4, <1>5, <1>6, <1>7, <1>8, <1>9, <1>10, <1>11 DEF Next, Begin, ConnectStep

(* A tunnel that is open after a step was open before it, as long as now.  *)
LEMMA OpenWasOpen ==
    ASSUME IInv, [Next]_vars, NEW t \in generated, tunnels'[t] # None, Open(tunnels[t])'
    PROVE  tunnels[t] # None /\ Open(tunnels[t]) /\ tunnels'[t].lifetimeAt = tunnels[t].lifetimeAt
<1>0. t \in Tunnels
  BY DEF IInv, TypeOK
<1>1. CASE UNCHANGED vars
  BY <1>1 DEF vars, Open
<1>2. CASE Next
  <2>1. tunnels[t] # None
    BY <1>2, NoneStays
  <2>2. now \in Nat /\ now' \in Nat /\ now <= now' /\ tunnels[t] \in Tunnel
    BY <1>0, <1>2, <2>1, NextGrows DEF IInv, TypeOK
  <2>3. tunnels[t].lifetimeAt \in Nat
    BY <2>2 DEF Tunnel
  <2>4. CASE tunnels'[t] = tunnels[t]
    BY <2>1, <2>2, <2>3, <2>4 DEF Open
  <2>5. CASE tunnels'[t] # tunnels[t]
    <3>1. PICK r \in Requests : ConnectUpdate(r) \/ CloseUpdate(r)
      BY <1>0, <1>2, <2>1, <2>5, Writers
    <3>2. T(r) = t
      BY <1>0, <2>5, <3>1, UpdatesLatest
    <3>3. now' = now
      BY <3>1 DEF ConnectUpdate, CloseUpdate
    <3>4. ~(tunnels'[t].lifetimeAt = args[r].at /\ args[r].at <= now)
      <4>1. tunnels'[t] \in Tunnel
        BY <1>0, <1>2, Inductive DEF IInv, TypeOK
      <4> QED BY <2>2, <3>3, <4>1 DEF Open, Tunnel
    <3>5. tunnels'[t].lifetimeAt = tunnels[t].lifetimeAt
      BY <3>1, <3>2, <3>4, UpdatesLatest
    <3> QED BY <2>1, <2>2, <3>3, <3>5 DEF Open
  <2> QED BY <2>4, <2>5
<1> QED BY <1>1, <1>2

(* So what is closed stays closed, a copy as well as a tunnel.             *)
LEMMA ClosedStays ==
    ASSUME IInv, [Next]_vars
    PROVE  /\ \A t : Closed(t) => Closed(t)'
           /\ \A x \in Tunnel : ~Open(x) => ~(now' < x.lifetimeAt)
           /\ generated \subseteq generated'
<1>1. now \in Nat /\ now' \in Nat /\ now <= now' /\ generated \subseteq generated'
  <2>1. CASE UNCHANGED vars
    BY <2>1 DEF vars, IInv, TypeOK
  <2> QED BY <2>1, NextGrows
<1>2. ASSUME NEW t, Closed(t) PROVE Closed(t)'
  BY <1>1, <1>2, OpenWasOpen DEF Closed
<1>3. ASSUME NEW x \in Tunnel, ~Open(x) PROVE ~(now' < x.lifetimeAt)
  BY <1>1, <1>3 DEF Open, Tunnel
<1> QED BY <1>1, <1>2, <1>3
(* A CloseTunnel that answers has just written back or deleted.            *)
LEMMA ClosesByUpdateOrDelete ==
    ASSUME IInv, Next, NEW r \in Requests, Closes(r)
    PROVE  CloseUpdate(r) \/ CloseDelete(r)
<1> USE DEF IInv, TypeOK, Closes, Goes
<1>1. ~Tick
  BY DEF Tick
<1>2. ASSUME NEW x \in Requests, Begin(x) PROVE FALSE
  BY <1>2 DEF Begin, OpenAdd, ConnectRead, CloseRead
<1>3. ASSUME NEW x \in Requests, OpenStep(x) PROVE FALSE
  BY <1>3 DEF OpenStep, OpenNotified, OpenNotifyFails
<1>4. ASSUME NEW x \in Requests, ConnectStep(x) PROVE FALSE
  BY <1>4 DEF ConnectStep, ConnectCheck, ConnectAdd, ConnectSetCon, ConnectSetClient, ConnectUpdate,
              ConnectConflict, Upgraded, UpgradeFails, ConnectionEnds, ConnectLeave
<1>5. ASSUME NEW x \in Requests, CloseStep(x) PROVE CloseUpdate(r) \/ CloseDelete(r)
  <2>1. x = r
    BY <1>5 DEF CloseStep, CloseUpdate, CloseConflict, CloseDelete
  <2> QED BY <1>5, <2>1 DEF CloseStep, CloseConflict
<1> QED BY <1>1, <1>2, <1>3, <1>4, <1>5 DEF Next

(* Only ConnectSetCon changes the ConnectionID of a Peer.                  *)
LEMMA OnlySetConSets ==
    ASSUME IInv, Next, NEW t \in Tunnels, NEW m \in Modes,
           peers'[t][m].con # peers[t][m].con
    PROVE  \E r \in Requests :
              ConnectSetCon(r) /\ T(r) = t /\ M(r) = m /\ peers'[t][m].con = r
<1> USE DEF IInv
<1>1. ~Tick
  BY DEF Tick
<1>2. ASSUME NEW r \in Requests, Begin(r) \/ OpenStep(r) \/ CloseStep(r) PROVE FALSE
  BY <1>2 DEF Begin, OpenAdd, ConnectRead, CloseRead, OpenStep, OpenNotified, OpenNotifyFails,
              CloseStep, CloseUpdate, CloseConflict, CloseDelete
<1>3. PICK r \in Requests : ConnectStep(r)
  BY <1>1, <1>2 DEF Next
<1>4. ConnectSetCon(r) \/ ConnectSetClient(r)
  BY <1>3 DEF ConnectStep, ConnectCheck, ConnectAdd, ConnectUpdate, ConnectConflict, Upgraded,
              UpgradeFails, ConnectionEnds, ConnectLeave
<1>5. T(r) \in Tunnels /\ M(r) \in Modes
  BY <1>4 DEF ConnectSetCon, ConnectSetClient, Goes, ArgsOK, ConnectPCs, T, M
<1>6. peers \in [Tunnels -> [Modes -> Peer]]
  BY DEF TypeOK
<1>7. ASSUME ConnectSetClient(r) PROVE FALSE
  <2>1. /\ \A u \in Tunnels : u # T(r) => peers'[u] = peers[u]
        /\ \A n \in Modes : n # M(r) => peers'[T(r)][n] = peers[T(r)][n]
        /\ peers'[T(r)][M(r)].con = peers[T(r)][M(r)].con
    <3> DEFINE new == [peers[T(r)][M(r)] EXCEPT !.client = args[r].client, !.used = TRUE]
    <3>1. peers' = [peers EXCEPT ![T(r)] = [peers[T(r)] EXCEPT ![M(r)] = new]]
      BY <1>5, <1>6, <1>7 DEF ConnectSetClient
    <3>2. peers[T(r)] \in [Modes -> Peer] /\ peers[T(r)][M(r)] \in Peer
      BY <1>5, <1>6
    <3>3. new.con = peers[T(r)][M(r)].con
      BY <3>2 DEF Peer
    <3> HIDE DEF new
    <3> QED BY <1>5, <1>6, <3>1, <3>2, <3>3
  <2> QED BY <1>5, <2>1
<1>8. ASSUME ConnectSetCon(r) PROVE T(r) = t /\ M(r) = m /\ peers'[t][m].con = r
  <2> DEFINE new == [peers[T(r)][M(r)] EXCEPT !.con = r]
  <2>1. peers' = [peers EXCEPT ![T(r)] = [peers[T(r)] EXCEPT ![M(r)] = new]]
    BY <1>5, <1>6, <1>8 DEF ConnectSetCon
  <2>2. peers[T(r)] \in [Modes -> Peer] /\ peers[T(r)][M(r)] \in Peer
    BY <1>5, <1>6
  <2>3. new.con = r
    BY <2>2 DEF Peer
  <2> HIDE DEF new
  <2>4. /\ \A u \in Tunnels : u # T(r) => peers'[u] = peers[u]
        /\ \A n \in Modes : n # M(r) => peers'[T(r)][n] = peers[T(r)][n]
        /\ peers'[T(r)][M(r)] = new
    BY <1>5, <1>6, <2>1, <2>2
  <2> QED BY <1>5, <2>3, <2>4
<1> QED BY <1>4, <1>7, <1>8

-----------------------------------------------------------------------------
(* A step of the service keeps the invariant of the queries.               *)
LEMMA ServeKeeps == ASSUME IInv, QInv, Serve PROVE QInv'
<1> USE DEF IInv, QInv
<1>1. [Next]_vars /\ Next /\ UNCHANGED queryVars
  BY DEF Serve
<1>2. IInv'
  BY <1>1, Inductive
<1>3. \A r \in Requests : HandlerStep(r)
  BY <1>1, HandlerSteps
<1>4. /\ \A t : Closed(t) => Closed(t)'
      /\ \A x \in Tunnel : ~Open(x) => ~(now' < x.lifetimeAt)
      /\ generated \subseteq generated'
  BY <1>1, ClosedStays
<1>5. QueryTypeOK'
  <2>1. told' \subseteq Tunnels
    <3> SUFFICES ASSUME NEW r \in Requests, Closes(r) PROVE T(r) \in Tunnels
      BY DEF Serve, QueryTypeOK
    <3> QED BY DEF Closes, ArgsOK, T
  <2>2. late' \subseteq Requests \cup Queries
    BY DEF Serve, QueryTypeOK
  <2> QED BY <1>1, <2>1, <2>2 DEF queryVars, QueryTypeOK
<1>6. DeletesGenerated'
  <2> SUFFICES ASSUME NEW r \in Requests, pc'[r] = "delete" PROVE T(r)' \in generated'
    BY DEF DeletesGenerated
  <2>1. pc[r] \in {"close", "delete"} /\ args'[r] = args[r]
    BY <1>3 DEF HandlerStep
  <2>2. T(r) \in generated
    BY <2>1 DEF DeletesGenerated, CopiesOK, CopyOK, WritingPCs
  <2> QED BY <1>4, <2>1, <2>2 DEF T
<1>7. AcceptedOK'
  BY <1>3 DEF AcceptedOK, HandlerStep
<1>8. ToldOK'
  <2> SUFFICES ASSUME NEW r \in Requests, Closes(r), NEW t, t = T(r) PROVE Closed(t)'
    BY <1>4 DEF Serve, ToldOK
  <2>1. T(r) \in generated /\ T(r) \in Tunnels
    BY DEF Closes, DeletesGenerated, CopiesOK, CopyOK, WritingPCs, ArgsOK, T
  <2>2. CloseUpdate(r) \/ CloseDelete(r)
    BY <1>1, ClosesByUpdateOrDelete
  <2>3. CASE CloseDelete(r)
    BY <2>1, <2>3 DEF CloseDelete, DeleteTunnel, Closed, TypeOK, T
  <2>4. CASE CloseUpdate(r)
    <3>1. tunnels'[T(r)].lifetimeAt = args[r].at /\ args[r].at <= now /\ now' = now /\ args' = args
      BY <2>4, UpdatesLatest DEF CloseUpdate
    <3>2. pc[r] = "close" /\ args[r].at \in Nat /\ now \in Nat
      BY <2>4 DEF CloseUpdate, Goes, ArgsOK, TypeOK
    <3>3. generated' = generated
      BY <2>4 DEF CloseUpdate
    <3> QED BY <2>1, <3>1, <3>2, <3>3 DEF Closed, Open, T
  <2> QED BY <2>2, <2>3, <2>4
<1>9. LateRequestsOK'
  <2> SUFFICES ASSUME NEW r \in Requests, r \in late'
               PROVE  /\ conns'[r] = "none"
                      /\ pc'[r] \in {"check", "refused", "notify", "close", "delete", "done"}
                      /\ pc'[r] = "check" => ~Open(copy[r])'
    BY DEF LateRequestsOK
  <2>1. CASE r \in late
    <3>1. /\ conns[r] = "none"
          /\ pc[r] \in {"check", "refused", "notify", "close", "delete", "done"}
          /\ pc[r] = "check" => ~Open(copy[r]) /\ copy[r] \in Tunnel
      BY <2>1 DEF LateRequestsOK, CopiesOK, CopyOK, WritingPCs
    <3>2. HandlerStep(r)
      BY <1>3
    <3>3. conns'[r] = "none"
      BY <3>1, <3>2 DEF HandlerStep
    <3>4. pc'[r] \in {"check", "refused", "notify", "close", "delete", "done"}
      BY <3>1, <3>2 DEF HandlerStep
    <3>5. ASSUME pc'[r] = "check" PROVE ~Open(copy[r])'
      BY <1>4, <3>1, <3>2, <3>5 DEF HandlerStep, Open
    <3> QED BY <3>3, <3>4, <3>5
  <2>2. CASE r \notin late
    <3>1. Begins(r) /\ T(r)' \in told
      BY <2>2 DEF Serve
    <3>2. HandlerStep(r) /\ conns[r] = "none"
      BY <1>3, <3>1 DEF Begins, AcceptedOK, AcceptedPCs
    <3>3. conns'[r] = "none"
      BY <3>1, <3>2 DEF HandlerStep, Begins
    <3>4. pc'[r] \in {"notify", "check", "refused", "close"}
      BY <3>1, <3>2 DEF HandlerStep, Begins
    <3>5. ASSUME pc'[r] = "check" PROVE ~Open(copy[r])'
      <4>1. copy'[r] = tunnels[T(r)'] /\ Closed(T(r)')
        BY <3>1, <3>2, <3>5 DEF HandlerStep, ToldOK, Begins
      <4>2. copy'[r] \in Tunnel
        BY <1>2, <3>5 DEF CopiesOK, CopyOK, WritingPCs
      <4>3. ~Open(copy'[r])
        BY <4>1, <4>2, TunnelNotNone DEF Closed
      <4> QED BY <1>4, <4>2, <4>3 DEF Open
    <3> QED BY <3>3, <3>4, <3>5
  <2> QED BY <2>1, <2>2
<1>10. \A q \in Queries : LateQueryOK(q)'
  <2> SUFFICES ASSUME NEW q \in Queries, q \in late'
               PROVE  /\ answer[q].status # "OPEN"
                      /\ queryPC[q] \notin {"new", "done"}
                      /\ queryPC[q] \in {"list", "describe"} => ~Open(found[q])'
    BY <1>1 DEF LateQueryOK, queryVars
  <2>1. q \in late
    BY QueriesApart DEF Serve
  <2> QED BY <1>1, <1>4, <2>1 DEF LateQueryOK, QueryOK, QueriesOK, FoundOK, queryVars, Open
<1>11. \A q \in Queries : QueryOK(q)'
  <2> SUFFICES ASSUME NEW q \in Queries
               PROVE  /\ queryPC[q] \in {"new", "done"} => answer[q] = Unanswered
                      /\ queryPC[q] \notin {"new", "done"} => asked[q] \in generated'
                      /\ queryPC[q] \in {"list", "describe"} => FoundOK(q)' /\ answer[q] = Unanswered
                      /\ answer[q].status = "CLOSED" => Closed(asked[q])'
                      /\ \A r \in ended[q] : HandlerEnded(r)'
    BY <1>1 DEF QueryOK, queryVars, Closed, Unanswered
  <2>1. ASSUME queryPC[q] \in {"list", "describe"} PROVE FoundOK(q)'
    <3>1. FoundOK(q) /\ asked[q] \in generated /\ asked'[q] = asked[q] /\ found'[q] = found[q]
      BY <1>1, <2>1 DEF QueryOK, QueriesOK, queryVars
    <3> QED BY <1>1, <3>1, OpenWasOpen DEF FoundOK, Open
  <2>2. \A r \in ended[q] : HandlerEnded(r)'
    BY <1>3 DEF QueryOK, QueriesOK, QueryTypeOK, HandlerStep, HandlerEnded
  <2> QED BY <1>1, <1>4, <2>1, <2>2 DEF QueryOK, QueriesOK, queryVars
<1>12. \A r \in Requests :
          /\ \A t, m : Accepted(r, t, m) => Accepted(r, t, m)'
          /\ LeftConnected(r) => LeftConnected(r)'
  BY <1>3 DEF Accepted, AcceptedOK, AcceptedPCs, LeftConnected, HandlerStep, T, M
<1>13. PeersOK'
  <2> SUFFICES ASSUME NEW t \in Tunnels, NEW m \in Modes,
                      NEW c, c = peers'[t][m].con, c # None
               PROVE  Accepted(c, t, m)'
    BY DEF PeersOK
  <2>1. peers[t][m].con \in Requests \cup {None}
    BY DEF TypeOK, Peer
  <2>2. CASE c = peers[t][m].con
    BY <1>12, <2>1, <2>2 DEF PeersOK
  <2>3. CASE c # peers[t][m].con
    <3>1. PICK r \in Requests : ConnectSetCon(r) /\ T(r) = t /\ M(r) = m /\ c = r
      BY <1>1, <2>3, OnlySetConSets
    <3>2. conns[r] # "none"
      BY <3>1 DEF ConnectSetCon, Goes, AcceptedOK
    <3> QED BY <1>12, <3>1, <3>2 DEF Accepted
  <2> QED BY <2>2, <2>3
<1>14. \A q \in Queries : DescribedOK(q)'
  <2> SUFFICES ASSUME NEW q \in Queries, NEW m \in Modes, answer[q][m] = "CONNECTED"
               PROVE  \E r \in Requests :
                         Accepted(r, asked[q], m)' /\ (r \in ended[q] => LeftConnected(r)')
    BY <1>1 DEF DescribedOK, queryVars, Accepted
  <2>1. PICK r \in Requests : Accepted(r, asked[q], m) /\ (r \in ended[q] => LeftConnected(r))
    BY DEF DescribedOK
  <2> QED BY <1>1, <1>12, <2>1 DEF queryVars, Accepted, T, M
<1> QED BY <1>5, <1>6, <1>7, <1>8, <1>9, <1>10, <1>11, <1>13, <1>14 DEF QueriesOK

(* What one step of a query changes.                                       *)
Becomes(q, to, t, x, a, rs) ==
    /\ queryPC' = [queryPC EXCEPT ![q] = to]
    /\ asked' = [asked EXCEPT ![q] = t]
    /\ found' = [found EXCEPT ![q] = x]
    /\ answer' = [answer EXCEPT ![q] = a]
    /\ ended' = [ended EXCEPT ![q] = rs]
    /\ late' \subseteq late \cup {q} /\ late \subseteq late' \cup {q}
    /\ told \subseteq told'

LEMMA UnansweredType ==
    /\ Unanswered \in [{"status"} \cup Modes -> Statuses]
    /\ Unanswered.status = "none"
    /\ \A m \in Modes : Unanswered[m] = "none"
  BY DEF Unanswered, Statuses, Modes

(* It is enough to look at the query that moves.                           *)
LEMMA OneQueryMoves ==
    ASSUME IInv, QInv, NEW q \in Queries, UNCHANGED vars,
           NEW to \in {"new", "list", "describe", "respond", "done"} \cup Modes,
           NEW t \in Tunnels \cup {None}, NEW x \in Tunnel \cup {None},
           NEW a \in [{"status"} \cup Modes -> Statuses], NEW rs \in SUBSET Requests,
           Becomes(q, to, t, x, a, rs), told' \subseteq Tunnels, ToldOK',
           /\ queryPC'[q] = to /\ asked'[q] = t /\ found'[q] = x /\ answer'[q] = a /\ ended'[q] = rs
              => LateQueryOK(q)' /\ QueryOK(q)' /\ DescribedOK(q)'
    PROVE  QInv'
<1> USE DEF QInv
<1>1. \A p \in Queries :
         /\ queryPC'[p] = IF p = q THEN to ELSE queryPC[p]
         /\ asked'[p] = IF p = q THEN t ELSE asked[p]
         /\ found'[p] = IF p = q THEN x ELSE found[p]
         /\ answer'[p] = IF p = q THEN a ELSE answer[p]
         /\ ended'[p] = IF p = q THEN rs ELSE ended[p]
  BY DEF Becomes, QueryTypeOK
<1>2. QueryTypeOK'
  BY QueriesApart DEF Becomes, QueryTypeOK
<1>3. /\ DeletesGenerated' /\ AcceptedOK' /\ PeersOK'
      /\ \A u : Closed(u)' <=> Closed(u)
      /\ \A r, u, m : Accepted(r, u, m)' <=> Accepted(r, u, m)
      /\ \A r : (HandlerEnded(r)' <=> HandlerEnded(r)) /\ (LeftConnected(r)' <=> LeftConnected(r))
  BY DEF vars, DeletesGenerated, AcceptedOK, PeersOK, Accepted, HandlerEnded, LeftConnected,
         Closed, Open, T, M
<1>4. LateRequestsOK'
  BY QueriesApart DEF Becomes, vars, LateRequestsOK, Open
<1>5. ASSUME NEW p \in Queries, p # q PROVE LateQueryOK(p)' /\ QueryOK(p)' /\ DescribedOK(p)'
  <2>1. /\ queryPC'[p] = queryPC[p] /\ asked'[p] = asked[p] /\ found'[p] = found[p]
        /\ answer'[p] = answer[p] /\ ended'[p] = ended[p] /\ (p \in late' <=> p \in late)
    BY <1>1, <1>5 DEF Becomes
  <2>2. LateQueryOK(p) /\ QueryOK(p) /\ DescribedOK(p)
    BY DEF QueriesOK
  <2>3. LateQueryOK(p)'
    BY <2>1, <2>2 DEF LateQueryOK, Open, vars
  <2>4. QueryOK(p)'
    BY <1>3, <2>1, <2>2 DEF QueryOK, FoundOK, Open, vars, Unanswered
  <2>5. DescribedOK(p)'
    BY <1>3, <2>1, <2>2 DEF DescribedOK
  <2> QED BY <2>3, <2>4, <2>5
<1>6. \A p \in Queries : LateQueryOK(p)' /\ QueryOK(p)' /\ DescribedOK(p)'
  BY <1>1, <1>5
<1> QED BY <1>2, <1>3, <1>4, <1>6 DEF QueriesOK

(* A query keeps the invariant too.                                        *)
LEMMA QueryStepKeeps == ASSUME IInv, QInv, NEW q \in Queries, QueryStep(q) PROVE QInv'
<1>1. UNCHANGED vars
  BY DEF QueryStep, QueryRead, QueryMissing, QueryStatus, DescribeConnection, Respond,
         DescribePanics, QueryEnds
<1>2. /\ \A t : Closed(t)' <=> Closed(t)
      /\ \A r, t, m : Accepted(r, t, m)' <=> Accepted(r, t, m)
      /\ \A r : (HandlerEnded(r)' <=> HandlerEnded(r)) /\ (LeftConnected(r)' <=> LeftConnected(r))
  BY <1>1 DEF vars, Accepted, HandlerEnded, LeftConnected, Closed, Open, T, M
<1>3. /\ queryPC[q] \in {"new", "list", "describe", "respond", "done"} \cup Modes
      /\ asked[q] \in Tunnels \cup {None} /\ found[q] \in Tunnel \cup {None}
      /\ answer[q] \in [{"status"} \cup Modes -> Statuses] /\ ended[q] \in SUBSET Requests
      /\ queryPC = [queryPC EXCEPT ![q] = queryPC[q]] /\ asked = [asked EXCEPT ![q] = asked[q]]
      /\ found = [found EXCEPT ![q] = found[q]] /\ answer = [answer EXCEPT ![q] = answer[q]]
      /\ ended = [ended EXCEPT ![q] = ended[q]] /\ told \subseteq Tunnels
  BY DEF QInv, QueryTypeOK
<1>4. LateQueryOK(q) /\ QueryOK(q) /\ DescribedOK(q) /\ ToldOK
  BY DEF QInv, QueriesOK
<1>5. ASSUME NEW t \in Tunnels, NEW kind \in {"describe", "list"}, QueryRead(q, t, kind)
      PROVE  QInv'
  <2> DEFINE rs == {r \in Requests : HandlerEnded(r)}
  <2>1. /\ queryPC[q] = "new" /\ tunnels[t] \in Tunnel /\ t \in generated
        /\ t \in told => ~Open(tunnels[t])
    BY <1>4, <1>5, TunnelNotNone
       DEF QueryRead, QueryGoes, IInv, TypeOK, StoredIsGenerated, ToldOK, Closed
  <2>2. answer[q] = Unanswered /\ q \notin late
    BY <1>4, <2>1 DEF QueryOK, LateQueryOK
  <2>3. Becomes(q, kind, t, tunnels[t], answer[q], rs) /\ told' = told
    BY <1>3, <1>5 DEF QueryRead, QueryGoes, Becomes
  <2>4. q \in late' => t \in told
    BY <1>5, <2>2 DEF QueryRead
  <2>5. ToldOK'
    BY <1>2, <1>4, <2>3 DEF ToldOK
  <2>6. ASSUME queryPC'[q] = kind, asked'[q] = t, found'[q] = tunnels[t], answer'[q] = answer[q],
               ended'[q] = rs
        PROVE  LateQueryOK(q)' /\ QueryOK(q)' /\ DescribedOK(q)'
    <3>1. LateQueryOK(q)'
      BY <1>1, <2>1, <2>2, <2>4, <2>6, UnansweredType DEF LateQueryOK, Open, vars
    <3>2. QueryOK(q)'
      BY <1>1, <1>2, <2>1, <2>2, <2>6, UnansweredType DEF QueryOK, FoundOK, Open, vars, Unanswered
    <3>3. DescribedOK(q)'
      BY <2>2, <2>6, UnansweredType DEF DescribedOK
    <3> QED BY <3>1, <3>2, <3>3
  <2> HIDE DEF rs
  <2>7. rs \in SUBSET Requests
    BY DEF rs
  <2> QED BY <1>1, <1>3, <2>1, <2>3, <2>5, <2>6, <2>7, OneQueryMoves
<1>6. ASSUME NEW t \in Tunnels, QueryMissing(q, t) PROVE QInv'
  <2>1. queryPC[q] = "new" /\ answer[q] = Unanswered /\ q \notin late' /\ told' \subseteq Tunnels
    BY <1>3, <1>4, <1>6 DEF QueryMissing, QueryGoes, QueryOK, LateQueryOK
  <2>2. Becomes(q, "done", asked[q], found[q], answer[q], ended[q])
    BY <1>3, <1>6 DEF QueryMissing, QueryGoes, Becomes
  <2>3. ToldOK'
    BY <1>2, <1>4, <1>6 DEF QueryMissing, ToldOK, Closed
  <2>4. ASSUME queryPC'[q] = "done", asked'[q] = asked[q], found'[q] = found[q],
               answer'[q] = answer[q], ended'[q] = ended[q]
        PROVE  LateQueryOK(q)' /\ QueryOK(q)' /\ DescribedOK(q)'
    BY <1>1, <1>2, <1>4, <2>1, <2>4, UnansweredType
       DEF LateQueryOK, QueryOK, DescribedOK, vars, Unanswered
  <2> QED BY <1>1, <1>3, <2>1, <2>2, <2>3, <2>4, OneQueryMoves
<1>7. CASE QueryStatus(q)
  <2> DEFINE a == [answer[q] EXCEPT !.status = IF Open(found[q]) THEN "OPEN" ELSE "CLOSED"]
             to == IF queryPC[q] = "list" THEN "respond" ELSE "destination"
  <2>1. queryPC[q] \in {"list", "describe"} /\ told' = told /\ late' = late
    BY <1>7 DEF QueryStatus
  <2>2. FoundOK(q) /\ answer[q] = Unanswered /\ asked[q] \in generated
    BY <1>4, <2>1 DEF QueryOK
  <2>3. /\ a \in [{"status"} \cup Modes -> Statuses]
        /\ a.status = IF Open(found[q]) THEN "OPEN" ELSE "CLOSED"
        /\ \A m \in Modes : a[m] = "none"
    BY <1>3, <2>2, UnansweredType DEF Statuses, Modes
  <2>4. Becomes(q, to, asked[q], None, a, ended[q])
    BY <1>3, <1>7 DEF QueryStatus, QueryGoes, Becomes
  <2>5. ~Open(found[q]) => Closed(asked[q])
    BY <2>2 DEF FoundOK, Closed, Open
  <2>6. to \in {"respond", "destination"} /\ ToldOK'
    BY <1>2, <1>4, <2>1 DEF ToldOK
  <2> HIDE DEF a, to
  <2>7. ASSUME queryPC'[q] = to, asked'[q] = asked[q], answer'[q] = a, ended'[q] = ended[q]
        PROVE  LateQueryOK(q)' /\ QueryOK(q)' /\ DescribedOK(q)'
    <3>1. LateQueryOK(q)'
      BY <1>4, <2>1, <2>3, <2>6, <2>7 DEF LateQueryOK
    <3>2. QueryOK(q)'
      BY <1>1, <1>2, <1>4, <2>2, <2>3, <2>5, <2>6, <2>7 DEF QueryOK, vars
    <3>3. DescribedOK(q)'
      BY <2>3, <2>7 DEF DescribedOK
    <3> QED BY <3>1, <3>2, <3>3
  <2> QED BY <1>1, <1>3, <2>1, <2>3, <2>4, <2>6, <2>7, OneQueryMoves DEF Modes
<1>8. ASSUME NEW m \in Modes, DescribeConnection(q, m) PROVE QInv'
  <2>1. PICK id \in ConnectionIDs(asked[q], m) :
           answer' = [answer EXCEPT ![q][m] =
                         IF id # None /\ conns[id] = "CONNECTED" THEN "CONNECTED" ELSE "DISCONNECTED"]
    BY <1>8 DEF DescribeConnection
  <2> DEFINE status == IF id # None /\ conns[id] = "CONNECTED" THEN "CONNECTED" ELSE "DISCONNECTED"
             a == [answer[q] EXCEPT ![m] = status]
             to == IF m = "destination" THEN "source" ELSE "respond"
  <2>2. queryPC[q] = m /\ told' = told /\ late' = late
    BY <1>8 DEF DescribeConnection, QueryGoes
  <2>3. asked[q] \in generated /\ asked[q] \in Tunnels
    BY <1>4, <2>2 DEF QueryOK, Modes, IInv, TypeOK
  <2>4. a \in [{"status"} \cup Modes -> Statuses] /\ a.status = answer[q].status
    BY <1>3 DEF Statuses, Modes
  <2>5. \A n \in Modes : a[n] = IF n = m THEN status ELSE answer[q][n]
    BY <1>3
  <2>6. Becomes(q, to, asked[q], found[q], a, ended[q])
    BY <1>3, <1>8, <2>1 DEF DescribeConnection, QueryGoes, Becomes
  <2>7. status = "CONNECTED" =>
           \E r \in Requests : Accepted(r, asked[q], m) /\ (r \in ended[q] => LeftConnected(r))
    <3> SUFFICES ASSUME id # None, conns[id] = "CONNECTED"
                 PROVE  /\ id \in Requests /\ Accepted(id, asked[q], m)
                        /\ id \in ended[q] => LeftConnected(id)
      OBVIOUS
    <3>1. id = peers[asked[q]][m].con /\ id \in Requests
      BY <2>3 DEF ConnectionIDs, IInv, TypeOK, Peer
    <3>2. Accepted(id, asked[q], m)
      BY <2>3, <3>1 DEF QInv, PeersOK
    <3>3. id \in ended[q] => LeftConnected(id)
      BY <1>4, <3>1 DEF QueryOK, IInv, RecordsOK, HandlerEnded, LeftConnected
    <3> QED BY <3>1, <3>2, <3>3
  <2>8. to \in {"source", "respond"} /\ ToldOK'
    BY <1>2, <1>4, <2>2 DEF ToldOK
  <2> HIDE DEF a, to, status
  <2>9. ASSUME queryPC'[q] = to, asked'[q] = asked[q], answer'[q] = a, ended'[q] = ended[q]
        PROVE  LateQueryOK(q)' /\ QueryOK(q)' /\ DescribedOK(q)'
    <3>1. LateQueryOK(q)'
      BY <1>4, <2>2, <2>4, <2>8, <2>9 DEF LateQueryOK
    <3>2. QueryOK(q)'
      BY <1>1, <1>2, <1>4, <2>3, <2>4, <2>8, <2>9 DEF QueryOK, vars
    <3>3. DescribedOK(q)'
      BY <1>2, <1>4, <2>5, <2>7, <2>9 DEF DescribedOK
    <3> QED BY <3>1, <3>2, <3>3
  <2> QED BY <1>1, <1>3, <2>2, <2>4, <2>6, <2>8, <2>9, OneQueryMoves DEF Modes
<1>9. CASE Respond(q) \/ DescribePanics(q)
  <2>1. QueryEnds(q) /\ q \notin late' /\ told' \subseteq told \cup {asked[q]} /\ told \subseteq told'
    BY <1>9 DEF Respond, DescribePanics, QueryEnds
  <2>2. Becomes(q, "done", None, found[q], Unanswered, {})
    BY <1>3, <2>1 DEF QueryEnds, Becomes
  <2>3. ASSUME told' # told PROVE Closed(asked[q])
    BY <1>4, <1>9, <2>3 DEF Respond, DescribePanics, QueryOK
  <2>4. ToldOK'
    BY <1>2, <1>4, <2>1, <2>3 DEF ToldOK
  <2>5. told' \subseteq Tunnels
    BY <1>3, <2>1, <2>3 DEF Closed, IInv, TypeOK
  <2>6. ASSUME queryPC'[q] = "done", answer'[q] = Unanswered, ended'[q] = {}
        PROVE  LateQueryOK(q)' /\ QueryOK(q)' /\ DescribedOK(q)'
    BY <2>1, <2>6, UnansweredType DEF LateQueryOK, QueryOK, DescribedOK, Unanswered
  <2>7. None \in Tunnels \cup {None} /\ {} \in SUBSET Requests
    OBVIOUS
  <2> HIDE DEF Unanswered
  <2> QED BY <1>1, <1>3, <2>2, <2>4, <2>5, <2>6, <2>7, UnansweredType, OneQueryMoves
<1> QED BY <1>5, <1>6, <1>7, <1>8, <1>9 DEF QueryStep

LEMMA QInductive == IInv /\ QInv /\ [QueriesNext]_allVars => QInv'
<1>1. ASSUME QInv, UNCHANGED allVars PROVE QInv'
  <2> USE <1>1 DEF allVars, vars, queryVars, QInv
  <2>1. QueryTypeOK' /\ LateRequestsOK' /\ DeletesGenerated' /\ AcceptedOK' /\ PeersOK' /\ ToldOK'
    <3>1. QueryTypeOK' /\ DeletesGenerated' /\ AcceptedOK'
      BY DEF QueryTypeOK, DeletesGenerated, AcceptedOK, T
    <3>2. LateRequestsOK' /\ ToldOK'
      BY DEF LateRequestsOK, ToldOK, Closed, Open
    <3>3. PeersOK'
      BY DEF PeersOK, Accepted, T, M
    <3> QED BY <3>1, <3>2, <3>3
  <2>2. ASSUME NEW q \in Queries PROVE LateQueryOK(q)' /\ QueryOK(q)' /\ DescribedOK(q)'
    <3>0. LateQueryOK(q) /\ QueryOK(q)
      BY DEF QueriesOK
    <3>1. LateQueryOK(q)'
      BY <3>0 DEF LateQueryOK, Open
    <3>2. QueryOK(q)'
      <4>1. FoundOK(q)' <=> FoundOK(q)
        BY DEF FoundOK, Open
      <4>2. Closed(asked[q])' <=> Closed(asked[q])
        BY DEF Closed, Open
      <4> QED BY <3>0, <4>1, <4>2 DEF QueryOK, Unanswered, HandlerEnded
    <3>3. DescribedOK(q)'
      BY DEF DescribedOK, Accepted, LeftConnected, T, M
    <3> QED BY <3>1, <3>2, <3>3
  <2> QED BY <2>1, <2>2 DEF QueriesOK
<1> QED BY <1>1, ServeKeeps, QueryStepKeeps DEF QueriesNext

LEMMA QInvHolds == QueriesSpec => []QInv
<1>1. QueriesSpec => []IInv
  BY QueriesOnlyLook, IInvHolds, PTL
<1> QED BY <1>1, InitQInv, QInductive, PTL DEF QueriesSpec

(* The variables of the queries keep their types.                          *)
THEOREM QueryTypeCorrect == QueriesSpec => []QueryTypeOK
BY QInvHolds, PTL DEF QInv

(* services_closetunnel.go:22-56, services_describetunnel.go:38-74: no     *)
(* client that asks after another was told that a tunnel is closed or gone *)
(* is told that it is open or has its connection accepted.                 *)
THEOREM ToldClosedHolds == QueriesSpec => []ToldClosed
<1>1. QInv => ToldClosed
  BY DEF QInv, LateRequestsOK, QueriesOK, LateQueryOK, ToldClosed
<1> QED BY <1>1, QInvHolds, PTL

(* services_describetunnel.go:58-72: a mode is described CONNECTED only    *)
(* for a connection of the tunnel and mode whose handler had not ended     *)
(* when the query came, or that was refused at services_connect.go:137-142 *)
(* and left recorded so.                                                   *)
THEOREM DescribesLivingOrLeftHolds == QueriesSpec => []DescribesLivingOrLeft
<1>1. QInv => DescribesLivingOrLeft
  BY DEF QInv, DescribedOK, Accepted, Accounts, DescribesLivingOrLeft
<1> QED BY <1>1, QInvHolds, PTL

-----------------------------------------------------------------------------
(* What is closed by a request is closed.                                  *)
ClosesOK == \A r \in Requests, t \in Tunnels : ClosedBy(r, t) => Closed(t)

(* A connect that passed the checks of its copy, beside a close that was   *)
(* written since, has an old copy.                                         *)
PassedPCs == {"add", "peerCon", "peerClient", "update"}

LateConnectsOK ==
    \A r, c \in Requests :
        pc[r] \in PassedPCs /\ ClosedBy(c, T(r)) /\ tunnels[T(r)] # None =>
            copy[r].rev < tunnels[T(r)].rev

RecordedPCs == {"peerCon", "peerClient", "update", "upgrade", "connected", "leave"}

MembersOK ==
    \A r \in Requests :
        /\ pc[r] \in RecordedPCs => conns[r] = "CONNECTED"
        /\ conns[r] = "DISCONNECTED" => pc[r] = "done"
        /\ Admitted(r) => T(r) \in Tunnels

LifeInv == ClosesOK /\ LateConnectsOK /\ MembersOK

LEMMA InitLifeInv == Init => LifeInv
BY DEF Init, LifeInv, ClosesOK, ClosedBy, LateConnectsOK, PassedPCs, MembersOK, RecordedPCs, Admitted

(* The requests that opened or connected are no closes.                    *)
LEMMA NoClose ==
    ASSUME NEW t, NEW x \in [tunnel : Tunnels] \cup [tunnel : Tunnels, mode : Modes, client : Clients]
    PROVE  x \notin [tunnel : {t}, delete : BOOLEAN, at : Nat]
<1>1. DOMAIN x = {"tunnel"} \/ DOMAIN x = {"tunnel", "mode", "client"}
  OBVIOUS
<1>2. \A y \in [tunnel : {t}, delete : BOOLEAN, at : Nat] : "delete" \in DOMAIN y
  OBVIOUS
<1> QED BY <1>1, <1>2

(* What one step may do to a connection, and to what closed a tunnel.      *)
LifeStep(r) ==
    /\ pc'[r] \in PassedPCs => pc[r] \in PassedPCs \cup {"check"} /\ copy'[r] = copy[r]
    /\ pc'[r] \in RecordedPCs => (pc[r] \in RecordedPCs /\ conns'[r] = conns[r]) \/ conns'[r] = "CONNECTED"
    /\ conns'[r] # conns[r] => pc[r] = "add" \/ ConnectLeave(r)
    /\ pc[r] = "add" => conns'[r] \in {conns[r], "CONNECTED"}
    /\ pc'[r] \in {"upgrade", "connected", "leave"} =>
          pc[r] \in {"upgrade", "connected", "leave"} \/ ConnectUpdate(r)
    /\ pc[r] \in {"upgrade", "connected", "leave"} =>
          pc'[r] \in {"upgrade", "connected", "leave"} \/ ConnectLeave(r)
    /\ pc'[r] = "delete" /\ pc[r] # "delete" => CloseUpdate(r)
    /\ pc'[r] = "done" /\ pc[r] # "done" =>
          \/ CloseUpdate(r) \/ CloseDelete(r)
          \/ pc[r] \in {"notify", "leave"}

LEMMA LifeSteps == ASSUME IInv, [Next]_vars, NEW r \in Requests PROVE LifeStep(r)
<1> USE DEF LifeStep, IInv, TypeOK, PassedPCs, RecordedPCs
<1>1. CASE UNCHANGED vars
  BY <1>1 DEF vars
<1>2. CASE Tick
  BY <1>2 DEF Tick
<1>3. ASSUME NEW x \in Requests, NEW t \in Tunnels, NEW l \in Lifetimes, OpenAdd(x, t, l)
      PROVE  LifeStep(r)
  BY <1>3 DEF OpenAdd, Goes
<1>4. ASSUME NEW x \in Requests, NEW t \in Tunnels, NEW m \in Modes, NEW n \in Modes,
             NEW c \in Clients, ConnectRead(x, t, m, n, c)
      PROVE  LifeStep(r)
  BY <1>4 DEF ConnectRead
<1>5. ASSUME NEW x \in Requests, NEW t \in Tunnels, NEW d \in BOOLEAN, CloseRead(x, t, d)
      PROVE  LifeStep(r)
  BY <1>5 DEF CloseRead
<1>6. ASSUME NEW x \in Requests, OpenStep(x) PROVE LifeStep(r)
  BY <1>6 DEF OpenStep, OpenNotified, OpenNotifyFails, Goes
<1>7. ASSUME NEW x \in Requests, ConnectCheck(x) PROVE LifeStep(r)
  BY <1>7 DEF ConnectCheck
<1>8. ASSUME NEW x \in Requests, ConnectAdd(x) \/ ConnectSetCon(x) \/ ConnectSetClient(x)
      PROVE  LifeStep(r)
  BY <1>8 DEF ConnectAdd, ConnectSetCon, ConnectSetClient, Goes
<1>9. ASSUME NEW x \in Requests, ConnectUpdate(x) PROVE LifeStep(r)
  <2>1. CASE x = r
    BY <1>9, <2>1 DEF ConnectUpdate, Goes
  <2>2. CASE x # r
    BY <1>9, <2>2 DEF ConnectUpdate, Goes
  <2> QED BY <2>1, <2>2
<1>10. ASSUME NEW x \in Requests,
              ConnectConflict(x) \/ Upgraded(x) \/ UpgradeFails(x) \/ ConnectionEnds(x)
       PROVE  LifeStep(r)
  BY <1>10 DEF ConnectConflict, Upgraded, UpgradeFails, ConnectionEnds, Goes
<1>11. ASSUME NEW x \in Requests, ConnectLeave(x) PROVE LifeStep(r)
  <2>1. CASE x = r
    BY <1>11, <2>1 DEF ConnectLeave, Goes
  <2>2. CASE x # r
    BY <1>11, <2>2 DEF ConnectLeave, Goes
  <2> QED BY <2>1, <2>2
<1>12. ASSUME NEW x \in Requests, CloseStep(x) PROVE LifeStep(r)
  <2>1. CASE x = r
    BY <1>12, <2>1 DEF CloseStep, CloseUpdate, CloseConflict, CloseDelete, Goes
  <2>2. CASE x # r
    BY <1>12, <2>2 DEF CloseStep, CloseUpdate, CloseConflict, CloseDelete, Goes
  <2> QED BY <2>1, <2>2
<1> QED
  BY <1>1, <1>2, <1>3, <1>4, <1>5, <1>6, <1>7, <1>8, <1>9, <1>10, <1>11, <1>12
     DEF Next, Begin, ConnectStep

(* A tunnel becomes closed by a request when the close is written.         *)
LEMMA ClosedByStep ==
    ASSUME IInv, [Next]_vars, NEW r \in Requests, NEW t
    PROVE  /\ ClosedBy(r, t) => ClosedBy(r, t)'
           /\ ClosedBy(r, t)' => ClosedBy(r, t) \/ (CloseUpdate(r) /\ T(r) = t)
<1>1. HandlerStep(r) /\ LifeStep(r)
  BY HandlerSteps, LifeSteps
<1>2. ClosedBy(r, t) => ClosedBy(r, t)'
  BY <1>1 DEF ClosedBy, HandlerStep
<1>3. ASSUME ClosedBy(r, t)' PROVE ClosedBy(r, t) \/ (CloseUpdate(r) /\ T(r) = t)
  <2>1. pc'[r] \in {"delete", "done"} /\ args'[r] \in [tunnel : {t}, delete : BOOLEAN, at : Nat]
    BY <1>3 DEF ClosedBy
  <2>2. pc[r] # "new" /\ args'[r] = args[r]
    BY <1>1, <2>1 DEF HandlerStep
  <2>3. args[r].tunnel = t
    BY <2>1, <2>2
  <2>4. pc[r] \in {"notify", "leave"} =>
           args[r] \in [tunnel : Tunnels] \cup [tunnel : Tunnels, mode : Modes, client : Clients]
    BY DEF IInv, ArgsOK, ConnectPCs
  <2>5. pc[r] \notin {"notify", "leave"}
    BY <2>1, <2>2, <2>4, NoClose
  <2>6. CloseDelete(r) => pc[r] = "delete"
    BY DEF CloseDelete, Goes
  <2> QED BY <1>1, <2>1, <2>2, <2>3, <2>5, <2>6 DEF LifeStep, ClosedBy, T
<1> QED BY <1>2, <1>3

(* A tunnel that is stored after a step has no older revision than before. *)
LEMMA RevGrows ==
    ASSUME IInv, [Next]_vars, NEW t \in generated, tunnels'[t] # None
    PROVE  /\ tunnels[t] # None /\ tunnels[t] \in Tunnel /\ tunnels'[t] \in Tunnel
           /\ tunnels[t].rev \in Nat /\ tunnels'[t].rev \in Nat
           /\ tunnels[t].rev <= tunnels'[t].rev
           /\ \A r \in Requests : CloseUpdate(r) /\ T(r) = t => tunnels[t].rev < tunnels'[t].rev
<1>0. t \in Tunnels /\ IInv'
  BY Inductive DEF IInv, TypeOK
<1>1. tunnels[t] # None
  BY NoneStays DEF vars
<1>2. /\ tunnels[t] \in Tunnel /\ tunnels'[t] \in Tunnel
      /\ tunnels[t].rev \in Nat /\ tunnels'[t].rev \in Nat
  BY <1>0, <1>1 DEF IInv, TypeOK, Tunnel
<1>3. ASSUME NEW r \in Requests, ConnectUpdate(r) \/ CloseUpdate(r), T(r) = t
      PROVE  tunnels'[t].rev = tunnels[t].rev + 1
  <2>1. \E l : UpdateTunnel(r, l)
    BY <1>3 DEF ConnectUpdate, CloseUpdate
  <2>2. copy[r] = tunnels[t]
    BY <1>3, UpdatesLatest
  <2> QED BY <1>0, <1>3, <2>1, <2>2 DEF UpdateTunnel, NextRev, IInv, TypeOK
<1>4. tunnels[t].rev <= tunnels'[t].rev
  <2>1. CASE tunnels'[t] = tunnels[t]
    BY <1>2, <2>1
  <2>2. CASE tunnels'[t] # tunnels[t]
    <3>1. PICK r \in Requests : ConnectUpdate(r) \/ CloseUpdate(r)
      BY <1>0, <1>1, <2>2, Writers DEF vars
    <3>2. T(r) = t
      BY <1>0, <2>2, <3>1, UpdatesLatest
    <3> QED BY <1>2, <1>3, <3>1, <3>2
  <2> QED BY <2>1, <2>2
<1> QED BY <1>1, <1>2, <1>3, <1>4

LEMMA LifeInductive == IInv /\ LifeInv /\ [Next]_vars => LifeInv'
<1> SUFFICES ASSUME IInv, LifeInv, [Next]_vars PROVE LifeInv'
  OBVIOUS
<1>1. ASSUME NEW r \in Requests, NEW t \in Tunnels, ClosedBy(r, t)' PROVE Closed(t)'
  <2>1. CASE ClosedBy(r, t)
    BY <2>1, ClosedStays DEF LifeInv, ClosesOK
  <2>2. CASE CloseUpdate(r) /\ T(r) = t
    <3>1. tunnels'[t].lifetimeAt = args[r].at /\ args[r].at <= now /\ now' = now
      BY <2>2, UpdatesLatest DEF CloseUpdate
    <3>2. t \in generated /\ t \in generated'
      BY <2>2, UpdatesLatest, ClosedStays DEF IInv, StoredIsGenerated
    <3>3. tunnels'[t] # None => tunnels'[t].lifetimeAt \in Nat /\ now \in Nat
      BY Inductive DEF IInv, TypeOK, Tunnel
    <3> QED BY <3>1, <3>2, <3>3 DEF Closed, Open
  <2> QED BY <1>1, <2>1, <2>2, ClosedByStep
<1>2. ASSUME NEW r \in Requests, NEW c \in Requests,
             pc'[r] \in PassedPCs, ClosedBy(c, T(r))', tunnels'[T(r)'] # None
      PROVE  copy'[r].rev < tunnels'[T(r)'].rev
  <2>1. /\ pc[r] \in PassedPCs \cup {"check"} /\ copy'[r] = copy[r] /\ T(r)' = T(r)
        /\ pc[r] = "check" => Open(copy[r])
    BY <1>2, LifeSteps, HandlerSteps DEF LifeStep, HandlerStep, T, PassedPCs
  <2>2. CopyOK(r) /\ copy[r].rev \in Nat /\ copy[r].lifetimeAt \in Nat
    BY <2>1 DEF IInv, CopiesOK, CopyOK, PassedPCs, WritingPCs, Tunnel
  <2>3. PICK t \in Tunnels : t = T(r) /\ t \in generated
    BY <2>2 DEF CopyOK, IInv, TypeOK
  <2>4. /\ tunnels[t] # None /\ tunnels[t].rev \in Nat /\ tunnels'[t].rev \in Nat
        /\ tunnels[t].rev <= tunnels'[t].rev
        /\ CloseUpdate(c) /\ T(c) = t => tunnels[t].rev < tunnels'[t].rev
    BY <1>2, <2>1, <2>3, RevGrows
  <2>5. ClosedBy(c, t) \/ (CloseUpdate(c) /\ T(c) = t)
    BY <1>2, <2>1, <2>3, ClosedByStep
  <2>6. CASE ClosedBy(c, t)
    <3>1. CASE pc[r] = "check"
      <4>1. ~Open(tunnels[t])
        BY <2>3, <2>4, <2>6 DEF LifeInv, ClosesOK, Closed
      <4>2. copy[r].rev # tunnels[t].rev /\ copy[r].rev <= tunnels[t].rev
        BY <2>1, <2>2, <2>3, <2>4, <3>1, <4>1 DEF CopyOK
      <4> QED BY <2>1, <2>2, <2>3, <2>4, <4>2
    <3>2. CASE pc[r] \in PassedPCs
      <4>1. copy[r].rev < tunnels[t].rev
        BY <2>3, <2>4, <2>6, <3>2 DEF LifeInv, LateConnectsOK
      <4> QED BY <2>1, <2>2, <2>3, <2>4, <4>1
    <3> QED BY <2>1, <3>1, <3>2
  <2>7. CASE CloseUpdate(c) /\ T(c) = t
    BY <2>1, <2>2, <2>3, <2>4, <2>7 DEF CopyOK
  <2> QED BY <2>5, <2>6, <2>7
<1>3. MembersOK'
  <2> SUFFICES ASSUME NEW r \in Requests
               PROVE  /\ pc'[r] \in RecordedPCs => conns'[r] = "CONNECTED"
                      /\ conns'[r] = "DISCONNECTED" => pc'[r] = "done"
                      /\ Admitted(r)' => T(r)' \in Tunnels
    BY DEF MembersOK
  <2>1. LifeStep(r) /\ HandlerStep(r) /\ MembersOK
    BY LifeSteps, HandlerSteps DEF LifeInv
  <2>2. pc'[r] \in RecordedPCs => conns'[r] = "CONNECTED"
    BY <2>1 DEF LifeStep, MembersOK
  <2>3. ConnectLeave(r) => pc[r] = "leave" /\ pc'[r] = "done"
    BY DEF ConnectLeave, Goes, IInv, TypeOK
  <2>4. conns'[r] = "DISCONNECTED" => pc'[r] = "done"
    BY <2>1, <2>3 DEF LifeStep, HandlerStep, MembersOK
  <2>5. ASSUME Admitted(r)' PROVE T(r)' \in Tunnels
    <3>1. Admitted(r) \/ ConnectUpdate(r)
      BY <2>1, <2>3, <2>5 DEF Admitted, LifeStep
    <3>2. pc[r] # "new" /\ T(r) \in Tunnels
      BY <2>1, <3>1, UpdatesLatest DEF Admitted, MembersOK, ConnectUpdate, Goes
    <3> QED BY <2>1, <3>2 DEF HandlerStep, T
  <2> QED BY <2>2, <2>4, <2>5
<1> QED BY <1>1, <1>2, <1>3 DEF LifeInv, ClosesOK, LateConnectsOK

LEMMA LifeInvHolds == Spec => []LifeInv
BY InitIInv, InitLifeInv, IInvHolds, LifeInductive, PTL DEF Spec
-----------------------------------------------------------------------------
(* The refinement.  What a step changes of what TunnelLife sees.           *)
Phase(t) ==
    IF t \notin generated THEN "unborn"
    ELSE IF tunnels[t] = None \/ \E r \in Requests : ClosedBy(r, t) THEN "closed"
    ELSE "alive"

Made == {t \in Tunnels : Phase(t) # "unborn"}
Gone == {t \in Tunnels : Phase(t) = "closed"}
Ended == {r \in Requests : conns[r] = "DISCONNECTED"}
Member == [r \in Requests |-> IF Admitted(r) THEN T(r) ELSE None]

Same(t) == Phase(t)' = Phase(t)
SameMembers == Member' = Member /\ Ended' = Ended

(* The phase of a tunnel is what is stored of it and who closed it.        *)
LEMMA PhaseSame ==
    ASSUME IInv, [Next]_vars, NEW t \in Tunnels,
           t \in generated' => t \in generated,
           tunnels'[t] = None => tunnels[t] = None \/ \E c \in Requests : ClosedBy(c, t),
           \A r \in Requests : CloseUpdate(r) => T(r) # t
    PROVE  Same(t)
<1>1. t \in generated <=> t \in generated'
  BY ClosedStays
<1>2. \A r \in Requests : ClosedBy(r, t)' <=> ClosedBy(r, t)
  BY ClosedByStep
<1>3. t \in generated /\ tunnels[t] = None => tunnels'[t] = None
  BY NoneStays DEF vars
<1> QED BY <1>1, <1>2, <1>3 DEF Same, Phase

(* A connection that is not admitted or left by this step stays as it is.  *)
LEMMA MembersSame ==
    ASSUME IInv, LifeInv, [Next]_vars,
           \A r \in Requests : ~ConnectUpdate(r) /\ ~ConnectLeave(r)
    PROVE  SameMembers
<1>1. ASSUME NEW r \in Requests
      PROVE  /\ conns'[r] = "DISCONNECTED" <=> conns[r] = "DISCONNECTED"
             /\ Admitted(r)' <=> Admitted(r)
             /\ Admitted(r) => T(r)' = T(r)
  <2>1. LifeStep(r) /\ HandlerStep(r) /\ ~ConnectUpdate(r) /\ ~ConnectLeave(r)
    BY LifeSteps, HandlerSteps
  <2>2. conns[r] = "DISCONNECTED" => conns'[r] = "DISCONNECTED"
    BY <2>1 DEF LifeStep, LifeInv, MembersOK
  <2>3. Admitted(r) => pc[r] # "new"
    BY DEF Admitted, LifeInv, MembersOK
  <2> QED BY <2>1, <2>2, <2>3 DEF LifeStep, HandlerStep, Admitted, T
<1> QED BY <1>1 DEF SameMembers, Member, Ended
(* A step is of one handler.                                               *)
LEMMA OneMoves ==
    ASSUME IInv, NEW r \in Requests, NEW to, pc' = [pc EXCEPT ![r] = to],
           NEW x \in Requests, ConnectUpdate(x) \/ ConnectLeave(x) \/ CloseUpdate(x)
    PROVE  x = r
BY DEF IInv, TypeOK, ConnectUpdate, ConnectLeave, CloseUpdate, Goes

(* What the abstract variables are, and when they stay.                    *)
LEMMA AbstractStep ==
    ASSUME IInv, [Next]_vars
    PROVE  /\ generated = Made /\ generated' = Made'
           /\ {t \in generated : tunnels[t] = None \/ \E r \in Requests : ClosedBy(r, t)} = Gone
           /\ {t \in generated : tunnels[t] = None \/ \E r \in Requests : ClosedBy(r, t)}' = Gone'
<1>1. IInv'
  BY Inductive
<1>2. generated \subseteq Tunnels /\ generated' \subseteq Tunnels
  BY <1>1 DEF IInv, TypeOK
<1> QED BY <1>2 DEF Made, Gone, Phase

LEMMA Stutters ==
    ASSUME IInv, [Next]_vars, SameMembers, \A t \in Tunnels : Same(t)
    PROVE  UNCHANGED Life!vars
<1>1. Made' = Made /\ Gone' = Gone
  BY DEF Same, Made, Gone
<1> QED BY <1>1, AbstractStep DEF SameMembers, Member, Ended, Life!vars

(* A tunnel that was alive is closed and everything else stays.            *)
LEMMA ClosesOne ==
    ASSUME IInv, [Next]_vars, SameMembers, NEW t \in Tunnels, \A u \in Tunnels \ {t} : Same(u),
           Same(t) \/ (Phase(t) = "alive" /\ Phase(t)' = "closed")
    PROVE  [Life!Next]_Life!vars
<1>1. CASE Same(t)
  BY <1>1, Stutters
<1>2. CASE Phase(t) = "alive" /\ Phase(t)' = "closed"
  <2>1. Made' = Made /\ t \in Made \ Gone /\ Gone' = Gone \cup {t}
    BY <1>2 DEF Same, Made, Gone
  <2>2. Life!Close(t)
    BY <2>1, AbstractStep DEF Life!Close, SameMembers, Member, Ended
  <2> QED BY <2>2 DEF Life!Next
<1> QED BY <1>1, <1>2

LEMMA LifeNext == ASSUME IInv, LifeInv, [Next]_vars PROVE [Life!Next]_Life!vars
<1>1. CASE UNCHANGED vars
  BY <1>1 DEF vars, Life!vars, ClosedBy, Admitted, T
<1>2. CASE Tick
  <2>1. SameMembers /\ \A t \in Tunnels : Same(t)
    BY <1>2 DEF Tick, SameMembers, Same, Member, Ended, Phase, ClosedBy, Admitted, T
  <2> QED BY <2>1, Stutters
(* The step is of r, which neither updates, admits nor leaves.             *)
<1>3. ASSUME NEW r \in Requests, NEW to, pc' = [pc EXCEPT ![r] = to],
             pc[r] \notin {"update", "close", "leave"} \/ to = "refused"
      PROVE  /\ \A x \in Requests : ~ConnectUpdate(x) /\ ~ConnectLeave(x) /\ ~CloseUpdate(x)
             /\ SameMembers
  <2>1. \A x \in Requests : ~ConnectUpdate(x) /\ ~ConnectLeave(x) /\ ~CloseUpdate(x)
    BY <1>3, OneMoves DEF ConnectUpdate, ConnectLeave, CloseUpdate, Goes, IInv, TypeOK
  <2> QED BY <2>1, MembersSame
<1>4. ASSUME NEW r \in Requests, NEW to, pc' = [pc EXCEPT ![r] = to],
             pc[r] \notin {"update", "close", "leave"} \/ to = "refused",
             UNCHANGED <<generated, tunnels>>
      PROVE  UNCHANGED Life!vars
  <2>1. \A t \in Tunnels : Same(t)
    BY <1>3, <1>4, PhaseSame
  <2> QED BY <1>3, <1>4, <2>1, Stutters
<1>5. ASSUME NEW r \in Requests, NEW t \in Tunnels, NEW l \in Lifetimes, OpenAdd(r, t, l)
      PROVE  Life!Next
  <2>1. pc[r] = "new" /\ pc' = [pc EXCEPT ![r] = "notify"] /\ t \notin generated
    BY <1>5 DEF OpenAdd, Goes
  <2>2. SameMembers /\ \A x \in Requests : ~CloseUpdate(x)
    BY <1>3, <2>1
  <2>3. ASSUME NEW u \in Tunnels \ {t} PROVE Same(u)
    BY <1>5, <2>2, PhaseSame DEF OpenAdd, IInv, TypeOK
  <2>4. Phase(t) = "unborn"
    BY <2>1 DEF Phase
  <2>5. Phase(t)' = "alive"
    <3>1. t \in generated' /\ tunnels'[t] # None
      BY <1>5, TunnelNotNone DEF OpenAdd, IInv, TypeOK, Tunnel
    <3>2. \A c \in Requests : ~ClosedBy(c, t)'
      BY <2>1, <2>2, ClosedByStep DEF LifeInv, ClosesOK, Closed
    <3> QED BY <3>1, <3>2 DEF Phase
  <2>6. t \notin Made /\ Made' = Made \cup {t} /\ Gone' = Gone
    BY <2>3, <2>4, <2>5 DEF Same, Made, Gone
  <2>7. Life!Open(t)
    BY <2>2, <2>6, AbstractStep DEF Life!Open, SameMembers, Member, Ended
  <2> QED BY <2>7 DEF Life!Next
<1>6. ASSUME NEW r \in Requests, OpenNotified(r) PROVE UNCHANGED Life!vars
  BY <1>4, <1>6 DEF OpenNotified, Goes
<1>7. ASSUME NEW r \in Requests, OpenNotifyFails(r) PROVE [Life!Next]_Life!vars
  <2>0. PICK t \in Tunnels : t = T(r)
    BY <1>7 DEF OpenNotifyFails, Goes, IInv, ArgsOK, T
  <2>1. /\ pc[r] = "notify" /\ pc' = [pc EXCEPT ![r] = "done"] /\ UNCHANGED generated
        /\ tunnels' = [tunnels EXCEPT ![t] = None]
    BY <1>7, <2>0 DEF OpenNotifyFails, Goes, DeleteTunnel
  <2>2. SameMembers /\ \A x \in Requests : ~CloseUpdate(x)
    BY <1>3, <2>1
  <2>3. ASSUME NEW u \in Tunnels \ {t} PROVE Same(u)
    BY <2>1, <2>2, PhaseSame DEF IInv, TypeOK
  <2>4. tunnels'[t] = None
    BY <2>1 DEF IInv, TypeOK
  <2>5. Same(t) \/ (Phase(t) = "alive" /\ Phase(t)' = "closed")
    BY <2>1, <2>4 DEF Same, Phase
  <2> QED BY <2>2, <2>3, <2>5, ClosesOne
<1>8. ASSUME NEW r \in Requests, CloseUpdate(r) PROVE [Life!Next]_Life!vars
  <2>1. PICK t \in Tunnels : t = T(r) /\ tunnels[t] # None
    BY <1>8, UpdatesLatest
  <2>2. /\ pc[r] = "close" /\ pc' = [pc EXCEPT ![r] = IF args[r].delete THEN "delete" ELSE "done"]
        /\ UNCHANGED <<generated, args>>
    BY <1>8 DEF CloseUpdate, Goes
  <2>3. SameMembers
    BY <2>2, OneMoves, MembersSame DEF ConnectUpdate, ConnectLeave, Goes
  <2>4. ASSUME NEW u \in Tunnels \ {t} PROVE Same(u)
    <3>1. tunnels'[u] = tunnels[u] /\ \A x \in Requests : CloseUpdate(x) => x = r
      BY <1>8, <2>1, <2>2, OneMoves, UpdatesLatest
    <3> QED BY <2>1, <2>2, <3>1, PhaseSame
  <2>5. Phase(t)' = "closed"
    <3>1. t \in generated'
      BY <2>1, <2>2 DEF IInv, StoredIsGenerated
    <3>2. args[r] \in [tunnel : Tunnels, delete : BOOLEAN, at : Nat]
      BY <2>2 DEF IInv, ArgsOK
    <3>3. args[r] \in [tunnel : {t}, delete : BOOLEAN, at : Nat]
      BY <2>1, <3>2 DEF T
    <3>4. ClosedBy(r, t)'
      BY <2>2, <3>3 DEF ClosedBy, IInv, TypeOK
    <3> QED BY <3>1, <3>4 DEF Phase
  <2>6. Same(t) \/ (Phase(t) = "alive" /\ Phase(t)' = "closed")
    BY <2>1, <2>5 DEF Same, Phase, IInv, StoredIsGenerated
  <2> QED BY <2>3, <2>4, <2>6, ClosesOne
<1>9. ASSUME NEW r \in Requests, CloseDelete(r) PROVE UNCHANGED Life!vars
  <2>1. PICK t \in Tunnels : t = T(r)
    BY <1>9 DEF CloseDelete, Goes, IInv, ArgsOK, T
  <2>2. /\ pc[r] = "delete" /\ pc' = [pc EXCEPT ![r] = "done"] /\ UNCHANGED generated
        /\ tunnels' = [tunnels EXCEPT ![t] = None]
    BY <1>9, <2>1 DEF CloseDelete, Goes, DeleteTunnel
  <2>3. SameMembers /\ \A x \in Requests : ~CloseUpdate(x)
    BY <1>3, <2>2
  <2>4. ClosedBy(r, t)
    <3>1. args[r] \in [tunnel : Tunnels, delete : BOOLEAN, at : Nat]
      BY <2>2 DEF IInv, ArgsOK
    <3>2. args[r] \in [tunnel : {t}, delete : BOOLEAN, at : Nat]
      BY <2>1, <3>1 DEF T
    <3> QED BY <2>2, <3>2 DEF ClosedBy
  <2>5. ASSUME NEW u \in Tunnels PROVE Same(u)
    <3>1. tunnels'[u] = None => tunnels[u] = None \/ \E c \in Requests : ClosedBy(c, u)
      BY <2>2, <2>4 DEF IInv, TypeOK
    <3> QED BY <2>2, <2>3, <3>1, PhaseSame
  <2> QED BY <2>3, <2>5, Stutters
<1>10. ASSUME NEW r \in Requests, ConnectUpdate(r) PROVE Life!Next
  <2>1. PICK t \in Tunnels : t = T(r) /\ tunnels[t] # None /\ copy[r] = tunnels[t]
    BY <1>10, UpdatesLatest
  <2>2. /\ pc[r] = "update" /\ pc' = [pc EXCEPT ![r] = "upgrade"]
        /\ UNCHANGED <<generated, conns, args>>
    BY <1>10 DEF ConnectUpdate, Goes
  <2>3. \A x \in Requests : ~CloseUpdate(x)
    BY <2>2, OneMoves DEF CloseUpdate, Goes
  <2>4. ASSUME NEW u \in Tunnels PROVE Same(u)
    <3>1. tunnels'[u] = None => tunnels[u] = None
      <4>1. CASE u # t
        BY <1>10, <2>1, <4>1, UpdatesLatest
      <4>2. CASE u = t
        <5>1. UpdateTunnel(r, copy[r].lifetimeAt)
          BY <1>10 DEF ConnectUpdate
        <5>2. CopyOK(r)
          BY <2>2 DEF IInv, CopiesOK, WritingPCs
        <5>3. tunnels'[t] # None
          <6>1. [rev |-> copy[r].rev + 1, lifetimeAt |-> copy[r].lifetimeAt] # None
            BY <5>2, TunnelNotNone DEF CopyOK, Tunnel
          <6> QED BY <2>1, <5>1, <6>1 DEF UpdateTunnel, NextRev, IInv, TypeOK
        <5> QED BY <4>2, <5>3
      <4> QED BY <4>1, <4>2
    <3> QED BY <2>2, <2>3, <3>1, PhaseSame
  <2>5. Phase(t) = "alive"
    <3>1. t \in generated
      BY <2>1 DEF IInv, StoredIsGenerated
    <3>2. ASSUME NEW c \in Requests, ClosedBy(c, t) PROVE FALSE
      <4>1. copy[r].rev < tunnels[t].rev /\ tunnels[t].rev \in Nat
        BY <2>1, <2>2, <3>2 DEF LifeInv, LateConnectsOK, PassedPCs, IInv, TypeOK, Tunnel
      <4> QED BY <2>1, <4>1
    <3> QED BY <2>1, <3>1, <3>2 DEF Phase
  <2>6. Ended' = Ended /\ Member[r] = None /\ Member' = [Member EXCEPT ![r] = t]
    <3>1. Ended' = Ended
      BY <2>2 DEF Ended
    <3>2. ~Admitted(r) /\ Admitted(r)' /\ T(r)' = t
      BY <2>1, <2>2 DEF Admitted, LifeInv, MembersOK, IInv, TypeOK, T
    <3>3. ASSUME NEW x \in Requests, x # r
          PROVE  (Admitted(x)' <=> Admitted(x)) /\ T(x)' = T(x)
      BY <2>2, <3>3 DEF Admitted, T, IInv, TypeOK
    <3> QED BY <3>1, <3>2, <3>3 DEF Member
  <2>7. Made' = Made /\ Gone' = Gone /\ t \in Made \ Gone
    BY <2>4, <2>5 DEF Same, Made, Gone
  <2>8. Life!Admit(r, t)
    BY <2>6, <2>7, AbstractStep DEF Life!Admit, Member, Ended
  <2> QED BY <2>8 DEF Life!Next
<1>11. ASSUME NEW r \in Requests, ConnectLeave(r) PROVE Life!Next
  <2>1. /\ pc[r] = "leave" /\ pc' = [pc EXCEPT ![r] = "done"]
        /\ conns' = [conns EXCEPT ![r] = "DISCONNECTED"]
        /\ UNCHANGED <<generated, tunnels, args>>
    BY <1>11 DEF ConnectLeave, Goes
  <2>2. \A x \in Requests : ~CloseUpdate(x)
    BY <2>1, OneMoves DEF CloseUpdate, Goes
  <2>3. Made' = Made /\ Gone' = Gone
    BY <2>1, <2>2, PhaseSame DEF Same, Made, Gone
  <2>4. Member' = Member
    BY <2>1 DEF Member, Admitted, T, IInv, TypeOK
  <2>5. Member[r] # None /\ r \notin Ended /\ Ended' = Ended \cup {r}
    <3>1. Admitted(r) /\ T(r) \in Tunnels /\ conns[r] # "DISCONNECTED"
      BY <2>1 DEF Admitted, LifeInv, MembersOK
    <3>2. Member[r] # None /\ r \notin Ended
      BY <3>1 DEF Member, Ended
    <3>3. Ended' = Ended \cup {r}
      BY <2>1 DEF Ended, IInv, TypeOK
    <3> QED BY <3>2, <3>3
  <2>6. Life!Leave(r)
    BY <2>3, <2>4, <2>5, AbstractStep DEF Life!Leave, Member, Ended
  <2> QED BY <2>6 DEF Life!Next
<1>12. ASSUME NEW r \in Requests,
              \/ \E t \in Tunnels, m \in Modes, n \in Modes, c \in Clients : ConnectRead(r, t, m, n, c)
              \/ \E t \in Tunnels, d \in BOOLEAN : CloseRead(r, t, d)
              \/ ConnectCheck(r) \/ ConnectAdd(r) \/ ConnectSetCon(r) \/ ConnectSetClient(r)
              \/ ConnectConflict(r) \/ Upgraded(r) \/ UpgradeFails(r) \/ ConnectionEnds(r)
              \/ CloseConflict(r)
       PROVE  UNCHANGED Life!vars
  BY <1>4, <1>12
     DEF ConnectRead, CloseRead, ConnectCheck, ConnectAdd, ConnectSetCon, ConnectSetClient,
         ConnectConflict, Upgraded, UpgradeFails, ConnectionEnds, CloseConflict, Goes
<1> QED
  BY <1>1, <1>2, <1>5, <1>6, <1>7, <1>8, <1>9, <1>10, <1>11, <1>12
     DEF Next, Begin, OpenStep, ConnectStep, CloseStep
(* services_closetunnel.go:22-56, services_connect.go:137-143: the service *)
(* implements TunnelLife: closes take effect at one instant and only       *)
(* living tunnels admit connections.                                       *)
THEOREM ServesTunnelLife == Spec => ImplementsTunnelLife
<1>1. Init => Life!Init
  BY DEF Init, Life!Init, Admitted
<1>2. IInv /\ LifeInv /\ [Next]_vars => [Life!Next]_Life!vars
  BY LifeNext
<1> QED BY <1>1, <1>2, IInvHolds, LifeInvHolds, PTL DEF Spec, ImplementsTunnelLife, Life!Spec
=============================================================================
