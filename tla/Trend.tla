------------------------------- MODULE Trend -------------------------------
(***************************************************************************)
(* The trend of the maintenance backlog and its traffic light               *)
(* (cmd/proxy-in-a-box/maintenance_trend.go).  A sampler records the        *)
(* backlog at every tick of its ticker unless the query fails; a dashboard *)
(* compares the backlog of now with a sample of the last interval but one  *)
(* and one of before the window.  A query takes no time here.              *)
(***************************************************************************)
EXTENDS Selection, FiniteSetsExt

CONSTANTS
    Interval,   \* maintenanceSampleInterval
    Trendspan,  \* maintenanceTrendWindow
    Backlog,    \* what GetMaintenanceStats may count: records of due and waiting
    Available,  \* sizes of the pool
    LastMinute  \* bound: the clock

ASSUME TrendAssumption ==
    /\ Interval \in Nat \ {0} /\ Trendspan = 2 * Interval
    /\ \A b \in Backlog : b.due \in Nat /\ b.waiting \in Nat
    /\ Available \subseteq Nat /\ LastMinute \in Nat

VARIABLES
    minute,     \* time.Now()
    ticked,     \* the sampler has run at this tick
    samples,    \* backlogHistory.samples
    recorded    \* history: all samples ever recorded

trendVars == <<minute, ticked, samples, recorded>>

TrendInit == minute = 0 /\ ticked = FALSE /\ samples = << >> /\ recorded = << >>

MinutePasses ==
    /\ minute < LastMinute
    /\ minute % Interval = 0 => ticked
    /\ minute' = minute + 1
    /\ ticked' = FALSE
    /\ UNCHANGED <<samples, recorded>>

Sampled(b) == [at |-> minute, due |-> b.due, waiting |-> b.waiting]

\* Samples that are not older than a minute.
Since(cutoff) == [at : cutoff .. minute, due : Nat, waiting : Nat]

\* Mutant: samples are kept for one window.
RecordBacklogShort(b) ==
    /\ minute % Interval = 0 /\ ~ticked
    /\ samples' = Only(Append(samples, Sampled(b)), Since(minute - Trendspan))
    /\ recorded' = Append(recorded, Sampled(b))
    /\ ticked' = TRUE
    /\ UNCHANGED minute

\* Mutant: samples are never dropped.
RecordBacklogKept(b) ==
    /\ minute % Interval = 0 /\ ~ticked
    /\ samples' = Append(samples, Sampled(b))
    /\ recorded' = Append(recorded, Sampled(b))
    /\ ticked' = TRUE
    /\ UNCHANGED minute

\* record: samples older than two windows are dropped.
RecordBacklog(b) ==
    /\ minute % Interval = 0 /\ ~ticked
    /\ samples' = Only(Append(samples, Sampled(b)), Since(minute - 2 * Trendspan))
    /\ recorded' = Append(recorded, Sampled(b))
    /\ ticked' = TRUE
    /\ UNCHANGED minute

QueryFails ==
    /\ minute % Interval = 0 /\ ~ticked
    /\ ticked' = TRUE
    /\ UNCHANGED <<minute, samples, recorded>>

TrendNext ==
    \/ MinutePasses
    \/ \E b \in Backlog : RecordBacklog(b)
    \/ QueryFails

-----------------------------------------------------------------------------
(* trend *)

\* The last sample of a history with an age in a range.
Aged(history, ages) ==
    Max({0} \cup {i \in 1 .. Len(history) : minute - history[i].at \in ages})

\* Mutant: the older sample is to be exactly a window old.
OldExact(history) == Aged(history, {Trendspan})

Old(history) == Aged(history, Trendspan .. Trendspan + Interval)
Mid(history) == Aged(history, Interval .. Trendspan - 1)

TrendReady == Old(samples) # 0 /\ Mid(samples) # 0
OldBacklog == samples[Old(samples)]
MidBacklog == samples[Mid(samples)]

\* Mutant: a backlog is stalled when it stays the same.
DueUnchanged(due) ==
    /\ due > 0 /\ OldBacklog.due > 0
    /\ MidBacklog.due = OldBacklog.due /\ due = MidBacklog.due

DueStalled(due) ==
    /\ due > 0 /\ OldBacklog.due > 0
    /\ MidBacklog.due >= OldBacklog.due /\ due >= MidBacklog.due

DueGrowing(due) ==
    /\ due > OldBacklog.due
    /\ MidBacklog.due >= OldBacklog.due /\ due >= MidBacklog.due

WaitingGrowing(waiting) ==
    MidBacklog.waiting > OldBacklog.waiting /\ waiting > MidBacklog.waiting

-----------------------------------------------------------------------------
(* classifyMaintenance *)

AtLeast(n, least) == IF n < least THEN least ELSE n

DueLevel(due, available) ==
    CASE due = 0 -> "green"
      [] due > 0 /\ ~TrendReady -> "gray"
      [] due > 0 /\ TrendReady /\ DueStalled(due) ->
           IF DueGrowing(due) /\ due >= AtLeast(available \div 5, 20) THEN "red" ELSE "yellow"
      [] OTHER -> "green"

WaitingLevel(waiting, available) ==
    LET baseline == AtLeast(OldBacklog.waiting, 1)
        above(least, share, times) ==
            waiting >= AtLeast(available \div share, least) /\ waiting >= times * baseline
    IN  IF ~TrendReady \/ ~WaitingGrowing(waiting) \/ ~above(10, 10, 2) THEN "neutral"
        ELSE IF above(20, 2, 3) THEN "red" ELSE "yellow"

SourcesLevel(total, errors, pending) ==
    CASE total = 0 -> "gray"
      [] total > 0 /\ errors * 2 >= total -> "red"
      [] errors > 0 /\ errors * 2 < total -> "yellow"
      [] total > 0 /\ errors = 0 -> IF pending > 0 THEN "gray" ELSE "green"

\* Few checks succeed at any time: failures alone are no alarm.
ChecksLevel(success, failures, dueLevel) ==
    CASE success + failures < 10 -> "gray"
      [] success + failures >= 10 /\ success = 0 -> "red"
      [] success + failures >= 10 /\ success > 0 ->
           IF failures <= success THEN "green"
           ELSE IF dueLevel = "red" THEN "red" ELSE "neutral"

-----------------------------------------------------------------------------
(* Properties *)

TrendTypeOK ==
    /\ minute \in 0 .. LastMinute /\ ticked \in BOOLEAN
    /\ \A i \in 1 .. Len(samples) : samples[i].at \in 0 .. minute
    /\ Len(samples) <= (2 * Trendspan) \div Interval + 1

\* Forgetting old samples never changes the trend: whenever a dashboard asks, it is
\* the one all samples since the start would give (maintenance_trend.go:45-48, 55-64).
TrendIsComplete ==
    /\ (Old(samples) = 0) = (Old(recorded) = 0)
    /\ (Mid(samples) = 0) = (Mid(recorded) = 0)
    /\ TrendReady => OldBacklog = recorded[Old(recorded)] /\ MidBacklog = recorded[Mid(recorded)]

\* "A newly opened dashboard can still display the preceding ten minutes' trend": at any
\* minute between two ticks, once the two windows before it were sampled without a gap.
ReadyWhenSampled ==
    (\A tick \in {t \in 0 .. minute : t % Interval = 0 /\ t >= minute - Trendspan - Interval} :
         \E i \in 1 .. Len(recorded) : recorded[i].at = tick)
    => TrendReady \/ minute < Trendspan

Alarm(level) ==
    CASE level \in {"gray", "green"} -> 0
      [] level = "neutral" -> 1
      [] level = "yellow" -> 2
      [] level = "red" -> 3

\* The lights that do not depend on the trend.
WorseCountersAreNotBetter ==
    /\ \A total, pending \in 0 .. 4 : \A errors \in 0 .. total - pending - 1 :
         Alarm(SourcesLevel(total, errors, pending)) <= Alarm(SourcesLevel(total, errors + 1, pending))
    /\ \A success \in 1 .. 6, failures \in 4 .. 12, due \in {"green", "red"} :
         Alarm(ChecksLevel(success, failures, due)) <= Alarm(ChecksLevel(success - 1, failures + 1, due))

\* A worse state never shows a better light: with more endpoints due or waiting, more
\* sources failing or fewer checks succeeding, everything else equal, no light is
\* calmer, in whatever order the conditions of classifyMaintenance are tried.
WorseIsNotBetter ==
    /\ TrendReady =>
         \A b, c \in Backlog, available \in Available :
            /\ b.due <= c.due =>
                 Alarm(DueLevel(b.due, available)) <= Alarm(DueLevel(c.due, available))
            /\ b.waiting <= c.waiting =>
                 Alarm(WaitingLevel(b.waiting, available)) <= Alarm(WaitingLevel(c.waiting, available))
    /\ WorseCountersAreNotBetter

\* The dashboard tells the truth about the backlog: the trend is that of all samples,
\* it is there when it can be, and its lights follow the state.
TrendIsTrue == TrendIsComplete /\ ReadyWhenSampled /\ WorseIsNotBetter
=============================================================================
