------------------------------ MODULE Windows ------------------------------
(***************************************************************************)
(* The rolling counters of the dashboard: attempts per second of the last   *)
(* minute (networkRateWindow, crawler/runtime_stats.go) and checks per      *)
(* minute of the last hour (verificationCounters, verification_stats.go).   *)
(* Both keep a ring of buckets, one per time unit, and find out that a      *)
(* bucket is of an earlier round when they next write to it.  A recorder    *)
(* reads the clock before it takes the mutex.  Bytes are counted like       *)
(* attempts, and left out; so are the totals since the start.              *)
(***************************************************************************)
EXTENDS Integers, FiniteSetsExt, Functions

CONSTANTS
    Recorder,   \* goroutines that record
    Outcome,    \* what a check is counted as
    Buckets,    \* 60
    Started,    \* when the process started
    Unheld,     \* a recorder has not read the clock
    LastUnit,   \* bound: the clock
    MaxRecords  \* bound: records of a time unit

ASSUME WindowsAssumption ==
    /\ Buckets \in Nat \ {0}
    /\ Started \in Nat /\ Started >= Buckets    \* zero buckets are of no window
    /\ Unheld \notin Int
    /\ LastUnit \in Nat /\ LastUnit >= Started /\ MaxRecords \in Nat

VARIABLES
    unit,       \* the clock, in seconds or minutes
    holds,      \* the time each recorder has read
    rates,      \* networkRateWindow.buckets
    checks,     \* verificationCounters.recent
    attempted,  \* history: attempts of each time unit
    checked     \* history: checks of each time unit and outcome

windowVars == <<unit, holds, rates, checks, attempted, checked>>

Slots == 0 .. Buckets - 1
Units == Started .. LastUnit
NoChecks == [o \in Outcome |-> 0]

WindowsInit ==
    /\ unit = Started
    /\ holds = [g \in Recorder |-> Unheld]
    /\ rates = [b \in Slots |-> [at |-> 0, n |-> 0]]
    /\ checks = [b \in Slots |-> [at |-> 0, n |-> NoChecks]]
    /\ attempted = [u \in Units |-> 0]
    /\ checked = [u \in Units |-> NoChecks]

UnitPasses ==
    /\ unit < LastUnit
    /\ unit' = unit + 1
    /\ UNCHANGED <<holds, rates, checks, attempted, checked>>

\* The caller of record or recordRecent calls time.Now.
ReadUnit(g) ==
    /\ holds[g] = Unheld
    /\ holds' = [holds EXCEPT ![g] = unit]
    /\ UNCHANGED <<unit, rates, checks, attempted, checked>>

Recorded(g) == holds' = [holds EXCEPT ![g] = Unheld] /\ UNCHANGED unit

\* Mutant: a record that comes a round late takes the bucket over.
RecordAttemptLate(g) ==
    /\ holds[g] # Unheld
    /\ LET second == holds[g]
           b == second % Buckets
           before == IF rates[b].at # second THEN 0 ELSE rates[b].n
       IN  /\ attempted[second] < MaxRecords
           /\ attempted' = [attempted EXCEPT ![second] = @ + 1]
           /\ rates' = [rates EXCEPT ![b] = [at |-> second, n |-> before + 1]]
    /\ Recorded(g)
    /\ UNCHANGED <<checks, checked>>

\* record: a bucket of a later round is left alone.
RecordAttempt(g) ==
    /\ holds[g] # Unheld
    /\ LET second == holds[g]
           b == second % Buckets
           before == IF rates[b].at # second THEN 0 ELSE rates[b].n
       IN  /\ attempted[second] < MaxRecords
           /\ attempted' = [attempted EXCEPT ![second] = @ + 1]
           /\ rates' = IF rates[b].at > second THEN rates
                       ELSE [rates EXCEPT ![b] = [at |-> second, n |-> before + 1]]
    /\ Recorded(g)
    /\ UNCHANGED <<checks, checked>>

\* Mutant: a bucket of an earlier round is not emptied.
RecordCheckOnTop(g, outcome) ==
    /\ holds[g] # Unheld /\ unit < holds[g] + Buckets
    /\ LET minute == holds[g]
           b == minute % Buckets
       IN  /\ checked[minute][outcome] < MaxRecords
           /\ checked' = [checked EXCEPT ![minute][outcome] = @ + 1]
           /\ checks' = [checks EXCEPT ![b] =
                [at |-> minute, n |-> [checks[b].n EXCEPT ![outcome] = @ + 1]]]
    /\ Recorded(g)
    /\ UNCHANGED <<rates, attempted>>

\* recordRecent does not look for a later round: bound, nobody waits an hour
\* between the clock and the mutex.
RecordCheck(g, outcome) ==
    /\ holds[g] # Unheld /\ unit < holds[g] + Buckets
    /\ LET minute == holds[g]
           b == minute % Buckets
           before == IF checks[b].at # minute THEN NoChecks ELSE checks[b].n
       IN  /\ checked[minute][outcome] < MaxRecords
           /\ checked' = [checked EXCEPT ![minute][outcome] = @ + 1]
           /\ checks' = [checks EXCEPT ![b] =
                [at |-> minute, n |-> [before EXCEPT ![outcome] = @ + 1]]]
    /\ Recorded(g)
    /\ UNCHANGED <<rates, attempted>>

WindowsNext ==
    \/ UnitPasses
    \/ \E g \in Recorder :
         \/ ReadUnit(g)
         \/ RecordAttempt(g)
         \/ \E outcome \in Outcome : RecordCheck(g, outcome)

-----------------------------------------------------------------------------
(* snapshot and recentSnapshot, asked now *)

\* Mutant: the window is a unit too long.
CurrentLonger(ring) == {b \in Slots : ring[b].at >= unit - Buckets /\ ring[b].at <= unit}

Current(ring) == {b \in Slots : ring[b].at > unit - Buckets /\ ring[b].at <= unit}

Attempts == SumFunctionOnSet([b \in Slots |-> rates[b].n], Current(rates))
Peak == Max({0} \cup {rates[b].n : b \in Current(rates)})
Previous == SumFunctionOnSet([b \in Slots |-> IF rates[b].at = unit - 1 THEN rates[b].n ELSE 0],
                             Current(rates))
Checks(outcome) == SumFunctionOnSet([b \in Slots |-> checks[b].n[outcome]], Current(checks))

\* Mutant: the second the process started in is not counted.
WindowUnitsShort == Max({1, Min({Buckets, unit - Started})})

\* windowSeconds: what the average divides by.
WindowUnits == Max({1, Min({Buckets, unit - Started + 1})})

-----------------------------------------------------------------------------
WindowsTypeOK ==
    /\ unit \in Units /\ holds \in [Recorder -> Units \cup {Unheld}]
    /\ rates \in [Slots -> [at : {0} \cup Units, n : 0 .. MaxRecords]]
    /\ checks \in [Slots -> [at : {0} \cup Units, n : [Outcome -> 0 .. MaxRecords]]]
    /\ \A b \in Slots : {rates[b].at, checks[b].at} \subseteq {0} \cup {u \in Units : u % Buckets = b}

InWindow == {u \in Units : u > unit - Buckets /\ u <= unit}

\* A snapshot counts every attempt and every check of the window and none of an
\* earlier round of the ring, whatever the order in which recorders that read the
\* clock at different times get the mutex (record, recordRecent).
WindowIsExact ==
    /\ Attempts = SumFunctionOnSet(attempted, InWindow)
    /\ \A o \in Outcome :
         Checks(o) = SumFunctionOnSet([u \in Units |-> checked[u][o]], InWindow)
    /\ Buckets > 1 /\ unit > Started => Previous = attempted[unit - 1]

\* The average never exceeds the peak: while the process is young, the average
\* divides by the seconds it has lived, the first included (runtime_stats.go:123-144).
AverageBelowPeak == Attempts <= WindowUnits * Peak
=============================================================================
