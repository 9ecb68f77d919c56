---------------------------- MODULE StreamIDGen ----------------------------
(***************************************************************************)
(* proxy/idgen.go: the StreamID of a new stream is counter * 1000000 plus  *)
(* the wall clock read as the number HHMMSS.  generate holds a mutex, so   *)
(* one call is one step.                                                   *)
(***************************************************************************)
EXTENDS Integers

CONSTANTS
    MaxCounter,               \* maxCounter, 2147 in the code
    Hours, Minutes, Seconds,  \* a day of the model: 24, 60, 60 in the code
    Periods,                  \* bound: periods between two steps back of the clock
    PerSecond                 \* bound: calls within one second

ASSUME ConstantsAssumption ==
    /\ MaxCounter \in Nat \ {0} /\ MaxCounter <= 2147
    /\ Hours \in Nat \ {0} /\ Hours <= 24
    /\ Minutes \in Nat \ {0} /\ Minutes <= 60
    /\ Seconds \in Nat \ {0} /\ Seconds <= 60
    /\ Periods \in Nat \ {0}
    /\ PerSecond \in Nat

VARIABLES
    counter,  \* streamIDGen.counter
    period, hour, minute, second,
    calls,    \* calls of generate in this second
    issued,   \* history: what was returned before the last call
    last      \* history: what the last call returned, and when

clock == <<period, hour, minute, second>>
vars == <<counter, period, hour, minute, second, calls, issued, last>>

MaxInt32 == 2147483647
TimeBase == 1000000
MaxTime == 235959

(* time.Now().Format("150405"), read as a number.                          *)
Stamp == hour * 10000 + minute * 100 + second

(* int32(id): numbers above MaxInt32 turn negative.                        *)
Int32(id) == IF id <= MaxInt32 THEN id ELSE id - MaxInt32 - MaxInt32 - 2

Id(e) == Int32(e.counter * TimeBase + e.time)

None == [period |-> 0, counter |-> 0, time |-> 0]

Init ==
    /\ counter = 0
    /\ period = 0 /\ hour = 0 /\ minute = 0 /\ second = 0
    /\ calls = 0
    /\ issued = {}
    /\ last = None

(* Mutants: the reset comes one too early, or never.                       *)
NextCounterEarly == IF counter = MaxCounter - 1 THEN 1 ELSE counter + 1
NextCounterUnbounded == counter + 1

(* Reset at maxCounter, then increment.                                    *)
NextCounter == IF counter = MaxCounter THEN 1 ELSE counter + 1

Generate ==
    /\ calls < PerSecond
    /\ counter' = NextCounter
    /\ calls' = calls + 1
    /\ last' = [period |-> period, counter |-> NextCounter, time |-> Stamp]
    /\ issued' = issued \cup ({last} \ {None})
    /\ UNCHANGED clock

(* The clock shows a later time of day.                                    *)
Tick ==
    /\ hour' \in 0..(Hours - 1)
    /\ minute' \in 0..(Minutes - 1)
    /\ second' \in 0..(Seconds - 1)
    /\ Stamp' > Stamp
    /\ calls' = 0
    /\ UNCHANGED <<counter, period, issued, last>>

(* The clock shows an earlier time of day: midnight, the end of daylight   *)
(* saving time, a correction.                                              *)
ClockBack ==
    /\ period < Periods - 1 /\ period' = period + 1
    /\ hour' \in 0..(Hours - 1)
    /\ minute' \in 0..(Minutes - 1)
    /\ second' \in 0..(Seconds - 1)
    /\ Stamp' <= Stamp
    /\ calls' = 0
    /\ UNCHANGED <<counter, issued, last>>

Next == Generate \/ Tick \/ ClockBack

Spec == Init /\ [][Next]_vars

-----------------------------------------------------------------------------
Entries == [period : 0..(Periods - 1), counter : 1..MaxCounter, time : 0..MaxTime]

TypeOK ==
    /\ counter \in 0..MaxCounter
    /\ period \in 0..(Periods - 1)
    /\ hour \in 0..(Hours - 1)
    /\ minute \in 0..(Minutes - 1)
    /\ second \in 0..(Seconds - 1)
    /\ calls \in 0..PerSecond
    /\ issued \subseteq Entries
    /\ last \in Entries \cup {None}

(* idgen.go:13-20: with at most MaxCounter calls in each second no         *)
(* StreamID is returned twice while the clock does not go back, although   *)
(* the counter wraps.                                                      *)
UniqueInPeriod == \A e \in issued : e.period = last.period => Id(e) # Id(last)

(* idgen.go:14, 19: no StreamID is ever returned twice.  Not so once the   *)
(* clock went back: the README says how to see it.                         *)
Unique == \A e \in issued : Id(e) # Id(last)

(* idgen.go:15-18: counter and time together fit a positive int32.         *)
PositiveInt32 == last # None => Id(last) > 0 /\ Id(last) <= MaxInt32
=============================================================================
