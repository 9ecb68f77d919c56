------------------------- MODULE StreamIDGenProofs -------------------------
(***************************************************************************)
(* StreamIDs are unique and fit int32, for the code's numbers and any      *)
(* smaller ones.                                                           *)
(***************************************************************************)
EXTENDS StreamIDGen, TLAPS

(* How many calls before it was k the counter had the value c.             *)
Age(c, k) == IF c <= k THEN k - c ELSE k - c + MaxCounter

(* Ids of this period are of the past, and those of this second have       *)
(* counters younger than the second.                                       *)
Past(e) ==
    /\ e.period <= period
    /\ e.period = period =>
         /\ e.time <= Stamp
         /\ e.time = Stamp => Age(e.counter, counter) < calls

(* The inductive invariant.                                                *)
IInv ==
    /\ TypeOK
    /\ \A e \in issued : Past(e)
    /\ last # None => Past(last)
    /\ UniqueInPeriod

(* Arithmetic of the decimal fields.                                       *)
LEMMA FieldsDetermined ==
    ASSUME NEW a \in Int, NEW b \in Int, NEW x \in Int, NEW y \in Int,
           0 <= x, x <= 235959, 0 <= y, y <= 235959,
           a * 1000000 + x = b * 1000000 + y
    PROVE  a = b /\ x = y
  BY SMT

LEMMA FieldsFit ==
    ASSUME NEW a \in Int, NEW x \in Int,
           0 < a, a <= 2147, 0 <= x, x <= 235959
    PROVE  0 < a * 1000000 + x /\ a * 1000000 + x <= 2147483647
  BY SMT

LEMMA TimeFits ==
    ASSUME NEW h \in Int, NEW m \in Int, NEW s \in Int,
           0 <= h, h < 24, 0 <= m, m < 60, 0 <= s, s < 60
    PROVE  /\ h * 10000 + m * 100 + s \in Int
           /\ 0 <= h * 10000 + m * 100 + s
           /\ h * 10000 + m * 100 + s <= 235959
  BY SMT

(* The fields of an entry.                                                 *)
LEMMA EntryFields ==
    ASSUME NEW e \in Entries
    PROVE  /\ e.counter \in Int /\ 0 < e.counter /\ e.counter <= 2147
           /\ e.time \in Int /\ 0 <= e.time /\ e.time <= 235959
<1>1. e.counter \in 1..MaxCounter /\ e.time \in 0..MaxTime
  BY DEF Entries
<1>2. MaxCounter \in Int /\ MaxCounter <= 2147
  BY ConstantsAssumption, SMT
<1>3. e.counter \in Int /\ 0 < e.counter /\ e.counter <= 2147
  BY <1>1, <1>2, SMT
<1>4. MaxTime \in Int
  BY SMT DEF MaxTime
<1>5. e.time \in Int /\ 0 <= e.time /\ e.time <= MaxTime
  BY <1>1, <1>4, SMT
<1> QED BY <1>3, <1>4, <1>5, SMT DEF MaxTime

(* An id is the decimal number itself, positive and in range.              *)
LEMMA IdPositive ==
    ASSUME NEW e \in Entries
    PROVE  /\ Id(e) = e.counter * TimeBase + e.time
           /\ Id(e) > 0 /\ Id(e) <= MaxInt32
           /\ e # None
<1>1. /\ 0 < e.counter * 1000000 + e.time
      /\ e.counter * 1000000 + e.time <= 2147483647
  BY EntryFields, FieldsFit, SMT
<1>2. Id(e) = e.counter * TimeBase + e.time
  BY <1>1, SMT DEF Id, Int32, MaxInt32, TimeBase
<1>3. e # None
  BY EntryFields, SMT DEF None
<1> QED BY <1>1, <1>2, <1>3, SMT DEF MaxInt32, TimeBase

(* Counter and time can be read back from an id.                           *)
LEMMA IdInjective ==
    ASSUME NEW d \in Entries, NEW e \in Entries, Id(d) = Id(e)
    PROVE  d.counter = e.counter /\ d.time = e.time
<1>1. d.counter * 1000000 + d.time = e.counter * 1000000 + e.time
  BY IdPositive, SMT DEF TimeBase
<1> QED BY <1>1, EntryFields, FieldsDetermined, SMT

(* The initial state satisfies the inductive invariant.                    *)
LEMMA InitIInv == Init => IInv
  BY ConstantsAssumption, SMT DEF Init, IInv, TypeOK, UniqueInPeriod

(* The time of day is at most 23:59:59.                                    *)
LEMMA StampRange == TypeOK => Stamp \in 0..MaxTime
<1> SUFFICES ASSUME TypeOK PROVE Stamp \in 0..MaxTime
  OBVIOUS
<1>1. /\ hour \in Int /\ 0 <= hour /\ hour < 24
      /\ minute \in Int /\ 0 <= minute /\ minute < 60
      /\ second \in Int /\ 0 <= second /\ second < 60
  BY ConstantsAssumption, SMT DEF TypeOK
<1>2. Stamp \in Int /\ 0 <= Stamp /\ Stamp <= 235959
  BY <1>1, TimeFits, SMT DEF Stamp
<1>3. MaxTime \in Int /\ Stamp <= MaxTime
  BY <1>2, SMT DEF MaxTime
<1> QED BY <1>2, <1>3, SMT

(* A call returns an id that was not returned before.                      *)
LEMMA GenerateStep ==
    ASSUME IInv, Generate, PerSecond <= MaxCounter
    PROVE  IInv'
<1> DEFINE new == [period |-> period, counter |-> NextCounter, time |-> Stamp]
<1> USE ConstantsAssumption DEF IInv, TypeOK
<1>1. new \in Entries
  BY StampRange DEF NextCounter, Entries
<1>2. TypeOK'
  BY <1>1 DEF Generate, NextCounter, clock, Entries
<1>3. Stamp' = Stamp /\ period' = period
  BY DEF Generate, clock, Stamp
<1>4. ASSUME NEW e \in Entries, Past(e)
      PROVE  Past(e)' /\ (e.period = period /\ e.time = Stamp => e.counter # NextCounter)
  <2>1. /\ Age(e.counter, counter) \in Int /\ Age(e.counter, counter') \in Int
        /\ calls' = calls + 1
    BY DEF Age, Entries, Generate, NextCounter
  <2>2. CASE e.period = period /\ e.time = Stamp
    <3>1. Age(e.counter, counter) < calls /\ calls < MaxCounter
      BY <2>2, <1>4 DEF Past, Generate
    <3>2. e.counter # NextCounter /\ Age(e.counter, counter') < calls + 1
      BY <3>1 DEF Age, Entries, Generate, NextCounter
    <3> QED BY <1>3, <1>4, <2>1, <3>2 DEF Past
  <2>3. CASE ~(e.period = period /\ e.time = Stamp)
    BY <1>3, <1>4, <2>3 DEF Past
  <2> QED BY <2>2, <2>3
<1>5. \A e \in issued' :
        /\ Past(e)' /\ e \in Entries
        /\ e.period = period /\ e.time = Stamp => e.counter # NextCounter
  BY <1>4 DEF Generate
<1>6. last' = new
  BY DEF Generate
<1>7. Past(last)'
  <2>1. last'.period = period /\ last'.time = Stamp /\ last'.counter = counter'
    BY <1>6 DEF Generate
  <2>2. counter' \in Int /\ calls' \in Int /\ calls' > 0
    BY DEF Generate, NextCounter
  <2>3. Age(last'.counter, counter') = 0
    <3>1. \A c \in Int : Age(c, c) = 0
      BY DEF Age
    <3> QED BY <2>1, <2>2, <3>1
  <2>4. Stamp \in Int
    BY StampRange, SMT
  <2> QED BY <1>3, <2>1, <2>2, <2>3, <2>4 DEF Past
<1>8. UniqueInPeriod'
  BY <1>1, <1>5, <1>6, IdInjective DEF UniqueInPeriod, Id
<1> QED BY <1>2, <1>5, <1>7, <1>8

(* The clock moves on: every returned id is now older.                     *)
LEMMA TickStep == ASSUME IInv, Tick \/ ClockBack PROVE IInv'
<1> USE ConstantsAssumption DEF IInv, TypeOK
<1>1. TypeOK' /\ UniqueInPeriod'
  BY DEF Tick, ClockBack, UniqueInPeriod
<1>2. \/ period' > period
      \/ period' = period /\ Stamp' > Stamp /\ Stamp \in Int /\ Stamp' \in Int
  BY SMT DEF Tick, ClockBack, Stamp
<1>3. ASSUME NEW e \in Entries, Past(e) PROVE Past(e)'
  BY <1>2, <1>1, <1>3 DEF Past, Entries
<1> QED BY <1>1, <1>3 DEF Tick, ClockBack

(* The inductive invariant holds if a second has at most MaxCounter calls. *)
LEMMA IInvHolds ==
    ASSUME PerSecond <= MaxCounter
    PROVE  Spec => []IInv
<1>1. IInv /\ [Next]_vars => IInv'
  <2> SUFFICES ASSUME IInv, [Next]_vars PROVE IInv'
    OBVIOUS
  <2>1. CASE UNCHANGED vars
    BY <2>1 DEF vars, IInv, TypeOK, UniqueInPeriod, Past, Age, Stamp
  <2> QED BY <2>1, GenerateStep, TickStep DEF Next
<1> QED BY <1>1, InitIInv, PTL DEF Spec

(* idgen.go:19: up to MaxCounter calls per second return StreamIDs that    *)
(* all differ while the clock goes forward.                                 *)
THEOREM UniqueIds ==
    ASSUME PerSecond <= MaxCounter
    PROVE  Spec => []UniqueInPeriod
<1>1. IInv => UniqueInPeriod
  BY DEF IInv
<1> QED BY <1>1, IInvHolds, PTL

(* idgen.go:21-61: the counter keeps to its range, whatever the clock      *)
(* does.                                                                   *)
THEOREM TypeCorrect == Spec => []TypeOK
<1>1. Init => TypeOK
  BY InitIInv DEF IInv
<1>2. TypeOK /\ [Next]_vars => TypeOK'
  <2> SUFFICES ASSUME TypeOK, [Next]_vars PROVE TypeOK'
    OBVIOUS
  <2> USE ConstantsAssumption DEF TypeOK
  <2>1. CASE Generate
    <3>1. NextCounter \in 1..MaxCounter /\ NextCounter \in 0..MaxCounter
      BY DEF NextCounter
    <3>2. [period |-> period, counter |-> NextCounter, time |-> Stamp] \in Entries
      BY <3>1, StampRange DEF Entries
    <3> QED BY <2>1, <3>1, <3>2 DEF Generate, clock
  <2>2. CASE Tick \/ ClockBack \/ UNCHANGED vars
    BY <2>2 DEF Tick, ClockBack, vars
  <2> QED BY <2>1, <2>2 DEF Next
<1> QED BY <1>1, <1>2, PTL DEF Spec

(* idgen.go:15-18: whatever the clock does, an id is a positive int32.     *)
THEOREM IdsFit == Spec => []PositiveInt32
<1>1. TypeOK => PositiveInt32
  BY IdPositive DEF TypeOK, PositiveInt32
<1> QED BY <1>1, TypeCorrect, PTL
=============================================================================
