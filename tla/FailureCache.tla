---------------------------- MODULE FailureCache ----------------------------
(***************************************************************************)
(* candidateFailureCache (crawler/validation_policy.go): how long an        *)
(* endpoint that failed is left alone.  The mutex makes every operation one *)
(* action; its caller has read the clock a little before (lag).            *)
(***************************************************************************)
EXTENDS Integers, Sequences

CONSTANTS
    Uri,            \* proxy URIs
    RetryBackoff,   \* candidateRetryBackoff: 30 minutes, 2, 6 and 24 hours
    Retention,      \* candidateFailureRetention: 7 days
    MaxLag,         \* between time.Now() and the mutex: shorter than any delay
    LastHour,       \* bound: the clock
    MaxFailures     \* bound: failures of an endpoint

ASSUME FailureCacheAssumption ==
    /\ RetryBackoff \in Seq(Nat) /\ RetryBackoff # << >>
    /\ \A i \in 1 .. Len(RetryBackoff) : RetryBackoff[i] <= Retention
    /\ Retention \in Nat /\ MaxLag \in Nat
    /\ \A i \in 1 .. Len(RetryBackoff) : MaxLag < RetryBackoff[i]
    /\ LastHour \in Nat /\ MaxFailures \in Nat

VARIABLES
    hour,       \* time.Now()
    entries,    \* candidateFailureCache.entries
    streak      \* history: failures since the last clear or long silence

cacheVars == <<hour, entries, streak>>

Failures == [failures : Nat \ {0}, retryAt : Int, lastFailure : Int]

CacheInit ==
    /\ hour = 0
    /\ entries = [u \in {} |-> [failures |-> 1, retryAt |-> 0, lastFailure |-> 0]]
    /\ streak = [u \in Uri |-> 0]

\* An endpoint that has not failed for the retention starts from the beginning.
HourPasses ==
    /\ hour < LastHour
    /\ hour' = hour + 1
    /\ streak' = [u \in Uri |->
         IF u \in DOMAIN entries /\ hour' - entries[u].lastFailure < Retention
         THEN streak[u] ELSE 0]
    /\ UNCHANGED entries

isDue(u, now) == u \notin DOMAIN entries \/ now >= entries[u].retryAt

\* The number of the delay that follows so many failures.
Step(failures) ==
    IF failures < 1 THEN 1
    ELSE IF failures > Len(RetryBackoff) THEN Len(RetryBackoff) ELSE failures

\* Mutant: the failures before this one are counted.
CountedBefore(u, minimum) ==
    LET failures == IF u \in DOMAIN entries THEN entries[u].failures ELSE 0
    IN  IF failures < minimum THEN minimum ELSE failures

Counted(u, minimum) ==
    LET failures == (IF u \in DOMAIN entries THEN entries[u].failures ELSE 0) + 1
    IN  IF failures < minimum THEN minimum ELSE failures

\* minimum: consecutive_failures of the endpoint's row, for a routine check.
RecordCacheFailure(u, minimum, now) ==
    /\ Counted(u, minimum) <= MaxFailures
    /\ entries' = [x \in DOMAIN entries \cup {u} |->
         IF x # u THEN entries[x]
         ELSE [failures |-> Counted(u, minimum), lastFailure |-> now,
               retryAt |-> now + RetryBackoff[Step(Counted(u, minimum))]]]
    /\ streak' = [streak EXCEPT ![u] = @ + 1]
    /\ UNCHANGED hour

Forgetting(gone) == [u \in DOMAIN entries \ gone |-> entries[u]]

\* Mutant: the entry starts from its first window again, but it stays.
ClearFailureCount(u) ==
    /\ entries' = [x \in DOMAIN entries |->
         IF x = u THEN [entries[x] EXCEPT !.failures = 1] ELSE entries[x]]
    /\ streak' = [streak EXCEPT ![u] = 0]
    /\ UNCHANGED hour

ClearFailure(u) ==
    /\ entries' = Forgetting({u})
    /\ streak' = [streak EXCEPT ![u] = 0]
    /\ UNCHANGED hour

\* Mutant: an entry goes as soon as its endpoint is due.
PruneDue(now) ==
    /\ entries' = Forgetting({u \in DOMAIN entries : now >= entries[u].retryAt})
    /\ UNCHANGED <<hour, streak>>

\* Every source calls it before it fetches.
Prune(now) ==
    /\ entries' = Forgetting({u \in DOMAIN entries : now - entries[u].lastFailure >= Retention})
    /\ UNCHANGED <<hour, streak>>

CacheNext ==
    \/ HourPasses
    \/ \E u \in Uri :
         \/ \E minimum \in 0 .. MaxFailures, lag \in 0 .. MaxLag :
              RecordCacheFailure(u, minimum, hour - lag)
         \/ ClearFailure(u)
    \/ \E lag \in 0 .. MaxLag : Prune(hour - lag)

CacheSpec == CacheInit /\ [][CacheNext]_cacheVars

-----------------------------------------------------------------------------
FailureCacheTypeOK ==
    /\ hour \in Nat
    /\ DOMAIN entries \subseteq Uri
    /\ entries \in [DOMAIN entries -> Failures]
    /\ streak \in [Uri -> Nat]

\* Prune forgets no endpoint whose failures still count: k failures without a success
\* or a week's silence between them delay it by the k-th window at least, and by the
\* longest at most, whatever its entry was before (validation_policy.go:87-95, 110).
Escalates ==
    \A u \in Uri :
        /\ streak[u] > 0 => u \in DOMAIN entries
        /\ u \in DOMAIN entries =>
             LET delay == entries[u].retryAt - entries[u].lastFailure
             IN  \E step \in Step(streak[u]) .. Len(RetryBackoff) : delay = RetryBackoff[step]

Barred == {u \in Uri : ~isDue(u, hour)}

Promise == INSTANCE NegativeCache WITH backingOff <- Barred

\* What each operation is for the loops.
OperationsKeepPromise ==
    /\ HourPasses => Promise!BackOffsEnd
    /\ \A u \in Uri :
         /\ \A minimum \in 0 .. MaxFailures, lag \in 0 .. MaxLag :
              RecordCacheFailure(u, minimum, hour - lag) => Promise!BackOff(u)
         /\ ClearFailure(u) => Promise!ClearBackOff(u)
    /\ \A lag \in 0 .. MaxLag : Prune(hour - lag) => UNCHANGED Barred

\* The cache keeps what the verification loops rely on: a recorded failure bars its
\* endpoint at once and no other, clear lifts that and no more, delays end by
\* themselves, and pruning ends none early (validation_policy.go:66-114).
ImplementsBackOff ==
    /\ Promise!NoneBacksOff
    /\ [][Promise!BackOffNext(Uri)]_Barred
    /\ [][OperationsKeepPromise]_cacheVars
=============================================================================
