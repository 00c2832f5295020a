------------------------- MODULE FailureCacheProofs -------------------------
(***************************************************************************)
(* Theorems about FailureCache: its type, the escalation of its delays, and *)
(* that it implements NegativeCache.                                       *)
(***************************************************************************)
EXTENDS FailureCache, TLAPS

\* What relates an entry to the failures of its endpoint.
EntryOK(u) ==
    /\ entries[u].retryAt = entries[u].lastFailure + RetryBackoff[Step(entries[u].failures)]
    /\ entries[u].failures >= streak[u]
    /\ hour - entries[u].lastFailure >= Retention => streak[u] = 0

CacheInv ==
    /\ FailureCacheTypeOK
    /\ \A u \in Uri : u \notin DOMAIN entries => streak[u] = 0
    /\ \A u \in DOMAIN entries : EntryOK(u)

\* Step names a window, a later one for more failures.
LEMMA StepInRange ==
    ASSUME NEW n \in Nat
    PROVE  /\ Step(n) \in 1 .. Len(RetryBackoff)
           /\ RetryBackoff[Step(n)] \in Nat
           /\ MaxLag < RetryBackoff[Step(n)]
           /\ RetryBackoff[Step(n)] <= Retention
<1>1. Len(RetryBackoff) \in Nat \ {0}
  BY FailureCacheAssumption
<1>2. Step(n) \in 1 .. Len(RetryBackoff)
  BY <1>1 DEF Step
<1>3. RetryBackoff[Step(n)] \in Nat
  BY <1>2, FailureCacheAssumption
<1> QED
  BY <1>2, <1>3, FailureCacheAssumption

LEMMA StepMonotone ==
    ASSUME NEW m \in Nat, NEW n \in Nat, m <= n
    PROVE  Step(m) <= Step(n)
<1>1. Len(RetryBackoff) \in Nat \ {0}
  BY FailureCacheAssumption
<1> QED
  BY <1>1 DEF Step

LEMMA CountedGrows ==
    ASSUME FailureCacheTypeOK, NEW u \in Uri, NEW minimum \in Nat
    PROVE  /\ Counted(u, minimum) \in Nat
           /\ u \in DOMAIN entries => Counted(u, minimum) >= entries[u].failures + 1
           /\ Counted(u, minimum) >= 1
<1>1. u \in DOMAIN entries => entries[u].failures \in Nat
  BY DEF FailureCacheTypeOK, Failures
<1> QED
  BY <1>1 DEF Counted

LEMMA CacheInitInv == CacheInit => CacheInv
<1> SUFFICES ASSUME CacheInit
             PROVE  CacheInv
  OBVIOUS
<1>1. FailureCacheTypeOK
  BY DEF CacheInit, FailureCacheTypeOK, Failures
<1>2. DOMAIN entries = {} /\ \A u \in Uri : streak[u] = 0
  BY DEF CacheInit
<1> QED
  BY <1>1, <1>2 DEF CacheInv

\* A recorded failure makes a new entry, with a delay of at least a lag.
LEMMA RecordKeepsInv ==
    ASSUME CacheInv, NEW u \in Uri, NEW minimum \in 0 .. MaxFailures,
           NEW lag \in 0 .. MaxLag, RecordCacheFailure(u, minimum, hour - lag)
    PROVE  CacheInv'
<1> DEFINE n == Counted(u, minimum)
           now == hour - lag
<1>0. /\ MaxFailures \in Nat /\ MaxLag \in Nat /\ Retention \in Nat
      /\ minimum \in Nat /\ lag \in Nat /\ lag <= MaxLag
  BY FailureCacheAssumption
<1>1. hour \in Nat /\ streak \in [Uri -> Nat] /\ now \in Int
  BY <1>0 DEF CacheInv, FailureCacheTypeOK
<1>2. n \in Nat /\ n >= 1 /\ (u \in DOMAIN entries => n >= entries[u].failures + 1)
  BY <1>0, CountedGrows DEF CacheInv
<1>3. RetryBackoff[Step(n)] \in Nat /\ MaxLag < RetryBackoff[Step(n)]
      /\ RetryBackoff[Step(n)] <= Retention
  BY <1>2, StepInRange
<1> HIDE DEF n, now
<1>4. /\ hour' = hour
      /\ streak' = [streak EXCEPT ![u] = @ + 1]
      /\ entries' = [x \in DOMAIN entries \cup {u} |->
             IF x # u THEN entries[x]
             ELSE [failures |-> n, lastFailure |-> now,
                   retryAt |-> now + RetryBackoff[Step(n)]]]
  BY DEF RecordCacheFailure, n, now
<1>5. /\ DOMAIN entries' = DOMAIN entries \cup {u}
      /\ \A x \in DOMAIN entries : x # u => entries'[x] = entries[x]
      /\ entries'[u] = [failures |-> n, lastFailure |-> now,
                        retryAt |-> now + RetryBackoff[Step(n)]]
  BY <1>4
<1>6. /\ streak'[u] = streak[u] + 1
      /\ \A x \in Uri : x # u => streak'[x] = streak[x]
  BY <1>1, <1>4
<1>7. FailureCacheTypeOK'
  <2>1. \A x \in DOMAIN entries' : entries'[x] \in Failures
    BY <1>1, <1>2, <1>3, <1>5 DEF CacheInv, FailureCacheTypeOK, Failures
  <2>2. DOMAIN entries' \subseteq Uri
    BY <1>5 DEF CacheInv, FailureCacheTypeOK
  <2>3. entries' \in [DOMAIN entries' -> Failures]
    BY <1>4, <2>1
  <2>4. hour' \in Nat /\ streak' \in [Uri -> Nat]
    BY <1>1, <1>4
  <2> QED
    BY <2>2, <2>3, <2>4 DEF FailureCacheTypeOK
<1>8. \A x \in Uri : x \notin DOMAIN entries' => streak'[x] = 0
  BY <1>5, <1>6 DEF CacheInv
<1>9. ASSUME NEW x \in DOMAIN entries'
      PROVE  EntryOK(x)'
  <2>1. CASE x = u
    <3>1. streak[u] = 0 \/ (u \in DOMAIN entries /\ entries[u].failures >= streak[u])
      BY DEF CacheInv, EntryOK
    <3>2. streak[u] \in Nat /\ (u \in DOMAIN entries => entries[u].failures \in Nat)
      BY <1>1 DEF CacheInv, FailureCacheTypeOK, Failures
    <3>3. n >= streak'[u]
      BY <1>2, <1>6, <3>1, <3>2
    <3>4. hour' - entries'[u].lastFailure = lag
      BY <1>0, <1>1, <1>4, <1>5 DEF now
    <3>5. lag < Retention
      BY <1>0, <1>3
    <3>6. /\ entries'[u].failures = n
          /\ entries'[u].retryAt = entries'[u].lastFailure + RetryBackoff[Step(n)]
      BY <1>5
    <3>7. ~(hour' - entries'[u].lastFailure >= Retention)
      BY <1>0, <3>4, <3>5
    <3> QED
      BY <2>1, <3>3, <3>6, <3>7 DEF EntryOK, Step
  <2>2. CASE x # u
    <3>1. x \in DOMAIN entries /\ x \in Uri /\ entries'[x] = entries[x] /\ streak'[x] = streak[x]
      BY <1>5, <1>6, <2>2 DEF CacheInv, FailureCacheTypeOK
    <3> QED
      BY <1>4, <3>1 DEF CacheInv, EntryOK, Step
  <2> QED
    BY <2>1, <2>2
<1> QED
  BY <1>7, <1>8, <1>9 DEF CacheInv

\* An entry may go when its endpoint has no streak.
LEMMA ForgettingKeepsInv ==
    ASSUME CacheInv, NEW gone \in SUBSET Uri, hour' = hour,
           entries' = Forgetting(gone), streak' \in [Uri -> Nat],
           \A u \in gone : streak'[u] = 0,
           \A u \in Uri \ gone : streak'[u] = streak[u]
    PROVE  CacheInv'
<1>1. /\ DOMAIN entries' = DOMAIN entries \ gone
      /\ \A u \in DOMAIN entries' : entries'[u] = entries[u]
      /\ entries' = [u \in DOMAIN entries \ gone |-> entries[u]]
  BY DEF Forgetting
<1>2. FailureCacheTypeOK'
  BY <1>1 DEF CacheInv, FailureCacheTypeOK
<1>3. \A u \in Uri : u \notin DOMAIN entries' => streak'[u] = 0
  BY <1>1 DEF CacheInv
<1>4. ASSUME NEW u \in DOMAIN entries'
      PROVE  EntryOK(u)'
  <2>1. u \in DOMAIN entries /\ u \in Uri \ gone /\ entries'[u] = entries[u]
        /\ streak'[u] = streak[u]
    BY <1>1 DEF CacheInv, FailureCacheTypeOK
  <2> QED
    BY <2>1 DEF CacheInv, EntryOK, Step
<1> QED
  BY <1>2, <1>3, <1>4 DEF CacheInv

\* What Prune forgets has been silent for the retention.
LEMMA PruneKeepsInv ==
    ASSUME CacheInv, NEW lag \in 0 .. MaxLag, Prune(hour - lag)
    PROVE  CacheInv'
<1> DEFINE gone == {u \in DOMAIN entries : (hour - lag) - entries[u].lastFailure >= Retention}
<1>1. gone \in SUBSET Uri /\ streak \in [Uri -> Nat] /\ hour \in Nat
      /\ lag \in Nat /\ Retention \in Nat
  BY FailureCacheAssumption DEF CacheInv, FailureCacheTypeOK
<1>2. ASSUME NEW u \in gone
      PROVE  streak[u] = 0
  <2>1. entries[u].lastFailure \in Int
    BY DEF CacheInv, FailureCacheTypeOK, Failures
  <2>2. hour - entries[u].lastFailure >= Retention
    BY <1>1, <2>1
  <2> QED
    BY <2>2 DEF CacheInv, EntryOK
<1>3. entries' = Forgetting(gone) /\ hour' = hour /\ streak' = streak
  BY DEF Prune
<1> HIDE DEF gone
<1> QED
  BY <1>1, <1>2, <1>3, ForgettingKeepsInv

LEMMA HourKeepsInv ==
    ASSUME CacheInv, HourPasses
    PROVE  CacheInv'
<1>1. /\ hour \in Nat /\ streak \in [Uri -> Nat] /\ Retention \in Nat
      /\ DOMAIN entries \subseteq Uri
      /\ \A u \in DOMAIN entries : entries[u].lastFailure \in Int /\ entries[u].failures \in Nat
  BY FailureCacheAssumption DEF CacheInv, FailureCacheTypeOK, Failures
<1>2. /\ entries' = entries /\ hour' = hour + 1
      /\ \A u \in Uri : \/ streak'[u] = 0
                        \/ /\ streak'[u] = streak[u]
                           /\ u \in DOMAIN entries
                           /\ ~(hour' - entries[u].lastFailure >= Retention)
      /\ streak' \in [Uri -> Nat]
  BY <1>1 DEF HourPasses
<1>3. FailureCacheTypeOK'
  BY <1>1, <1>2 DEF CacheInv, FailureCacheTypeOK
<1>4. \A u \in Uri : u \notin DOMAIN entries' => streak'[u] = 0
  BY <1>2
<1>5. ASSUME NEW u \in DOMAIN entries
      PROVE  EntryOK(u)'
  BY <1>1, <1>2 DEF CacheInv, EntryOK, Step
<1> QED
  BY <1>2, <1>3, <1>4, <1>5 DEF CacheInv

LEMMA CacheStepInv == CacheInv /\ [CacheNext]_cacheVars => CacheInv'
<1> SUFFICES ASSUME CacheInv, [CacheNext]_cacheVars
             PROVE  CacheInv'
  OBVIOUS
<1>1. CASE HourPasses
  BY <1>1, HourKeepsInv
<1>2. ASSUME NEW u \in Uri, NEW minimum \in 0 .. MaxFailures, NEW lag \in 0 .. MaxLag,
             RecordCacheFailure(u, minimum, hour - lag)
      PROVE  CacheInv'
  BY <1>2, RecordKeepsInv
<1>3. ASSUME NEW u \in Uri, ClearFailure(u)
      PROVE  CacheInv'
  <2>1. streak' = [streak EXCEPT ![u] = 0] /\ streak \in [Uri -> Nat]
    BY <1>3 DEF ClearFailure, CacheInv, FailureCacheTypeOK
  <2>2. /\ streak' \in [Uri -> Nat] /\ streak'[u] = 0
        /\ \A x \in Uri \ {u} : streak'[x] = streak[x]
    BY <2>1
  <2>3. hour' = hour /\ entries' = Forgetting({u})
    BY <1>3 DEF ClearFailure
  <2> QED
    BY <2>2, <2>3, ForgettingKeepsInv
<1>4. ASSUME NEW lag \in 0 .. MaxLag, Prune(hour - lag)
      PROVE  CacheInv'
  BY <1>4, PruneKeepsInv
<1>5. CASE UNCHANGED cacheVars
  BY <1>5 DEF cacheVars, CacheInv, FailureCacheTypeOK, EntryOK, Step
<1> QED
  BY <1>1, <1>2, <1>3, <1>4, <1>5 DEF CacheNext

LEMMA CacheInvariant == CacheSpec => []CacheInv
<1> QED
  BY CacheInitInv, CacheStepInv, PTL DEF CacheSpec

-----------------------------------------------------------------------------
\* The cache keeps its types.
THEOREM CacheTypeCorrect == CacheSpec => []FailureCacheTypeOK
<1>1. CacheInv => FailureCacheTypeOK
  BY DEF CacheInv
<1> QED
  BY <1>1, CacheInvariant, PTL

\* Failures that follow each other escalate, whatever windows are configured and
\* however sources, validators and prunings alternate.
THEOREM DelaysEscalate == CacheSpec => []Escalates
<1>1. CacheInv => Escalates
  <2> SUFFICES ASSUME CacheInv, NEW u \in Uri
               PROVE  /\ streak[u] > 0 => u \in DOMAIN entries
                      /\ u \in DOMAIN entries =>
                           \E step \in Step(streak[u]) .. Len(RetryBackoff) :
                             entries[u].retryAt - entries[u].lastFailure = RetryBackoff[step]
    BY DEF Escalates
  <2>1. streak[u] \in Nat
    BY DEF CacheInv, FailureCacheTypeOK
  <2>2. streak[u] > 0 => u \in DOMAIN entries
    BY <2>1 DEF CacheInv
  <2>3. ASSUME u \in DOMAIN entries
        PROVE  \E step \in Step(streak[u]) .. Len(RetryBackoff) :
                 entries[u].retryAt - entries[u].lastFailure = RetryBackoff[step]
    <3> DEFINE n == entries[u].failures
    <3>1. n \in Nat /\ entries[u].lastFailure \in Int
      BY <2>3 DEF CacheInv, FailureCacheTypeOK, Failures
    <3>2. n >= streak[u] /\ entries[u].retryAt = entries[u].lastFailure + RetryBackoff[Step(n)]
      BY <2>3 DEF CacheInv, EntryOK
    <3> HIDE DEF n
    <3>3. /\ Step(n) \in 1 .. Len(RetryBackoff)
          /\ RetryBackoff[Step(n)] \in Nat
          /\ Step(streak[u]) <= Step(n)
          /\ Step(streak[u]) \in 1 .. Len(RetryBackoff)
      BY <2>1, <3>1, <3>2, StepInRange, StepMonotone
    <3>4. Len(RetryBackoff) \in Nat
      BY FailureCacheAssumption
    <3>5. Step(n) \in Step(streak[u]) .. Len(RetryBackoff)
      BY <3>3, <3>4
    <3>6. entries[u].retryAt - entries[u].lastFailure = RetryBackoff[Step(n)]
      BY <3>1, <3>2, <3>3
    <3> QED
      BY <3>5, <3>6
  <2> QED
    BY <2>2, <2>3
<1> QED
  BY <1>1, CacheInvariant, PTL

\* Every operation of the cache is a step, or none, of the set of endpoints that the
\* verification loops see.
THEOREM CacheImplementsPromise == CacheSpec => ImplementsBackOff
<1>1. CacheInit => Promise!NoneBacksOff
  BY DEF CacheInit, Promise!NoneBacksOff, Barred, isDue
<1>2. ASSUME CacheInv
      PROVE  OperationsKeepPromise
  <2>0. /\ hour \in Nat /\ DOMAIN entries \subseteq Uri /\ MaxLag \in Nat /\ Retention \in Nat
        /\ \A u \in DOMAIN entries : /\ entries[u].lastFailure \in Int
                                     /\ entries[u].retryAt \in Int
                                     /\ entries[u].failures \in Nat
    BY <1>2, FailureCacheAssumption DEF CacheInv, FailureCacheTypeOK, Failures
  <2>1. ASSUME HourPasses
        PROVE  Promise!BackOffsEnd
    <3>1. hour' = hour + 1 /\ entries' = entries
      BY <2>1 DEF HourPasses
    <3>2. Barred' \subseteq Barred
      BY <2>0, <3>1 DEF Barred, isDue
    <3> QED
      BY <3>2 DEF Promise!BackOffsEnd
  <2>2. ASSUME NEW u \in Uri, NEW minimum \in 0 .. MaxFailures, NEW lag \in 0 .. MaxLag,
               RecordCacheFailure(u, minimum, hour - lag)
        PROVE  Promise!BackOff(u)
    <3> DEFINE n == Counted(u, minimum)
    <3>1. n \in Nat /\ lag \in Nat /\ lag <= MaxLag
      <4>1. minimum \in Nat /\ FailureCacheTypeOK
        BY <1>2, FailureCacheAssumption DEF CacheInv
      <4>2. n \in Nat
        BY <4>1, CountedGrows
      <4> QED
        BY <2>0, <4>2
    <3>2. RetryBackoff[Step(n)] \in Nat /\ MaxLag < RetryBackoff[Step(n)]
      BY <3>1, StepInRange
    <3>3. /\ hour' = hour /\ DOMAIN entries' = DOMAIN entries \cup {u}
          /\ \A x \in DOMAIN entries : x # u => entries'[x] = entries[x]
          /\ entries'[u].retryAt = (hour - lag) + RetryBackoff[Step(n)]
      BY <2>2 DEF RecordCacheFailure
    <3> HIDE DEF n
    <3>4. ~(hour' >= entries'[u].retryAt)
      BY <2>0, <3>1, <3>2, <3>3
    <3>5. Barred' = Barred \cup {u}
      BY <3>3, <3>4 DEF Barred, isDue
    <3> QED
      BY <3>5 DEF Promise!BackOff
  <2>3. ASSUME NEW u \in Uri, ClearFailure(u)
        PROVE  Promise!ClearBackOff(u)
    <3>1. /\ hour' = hour /\ DOMAIN entries' = DOMAIN entries \ {u}
          /\ \A x \in DOMAIN entries' : entries'[x] = entries[x]
      BY <2>3 DEF ClearFailure, Forgetting
    <3>2. Barred' = Barred \ {u}
      BY <3>1 DEF Barred, isDue
    <3> QED
      BY <3>2 DEF Promise!ClearBackOff
  <2>4. ASSUME NEW lag \in 0 .. MaxLag, Prune(hour - lag)
        PROVE  UNCHANGED Barred
    <3> DEFINE gone == {u \in DOMAIN entries : (hour - lag) - entries[u].lastFailure >= Retention}
    <3>1. /\ hour' = hour /\ DOMAIN entries' = DOMAIN entries \ gone
          /\ \A x \in DOMAIN entries' : entries'[x] = entries[x]
      BY <2>4 DEF Prune, Forgetting
    <3>2. ASSUME NEW u \in gone
          PROVE  hour >= entries[u].retryAt
      <4>1. /\ RetryBackoff[Step(entries[u].failures)] \in Nat
            /\ RetryBackoff[Step(entries[u].failures)] <= Retention
        BY <2>0, StepInRange
      <4>2. entries[u].retryAt = entries[u].lastFailure + RetryBackoff[Step(entries[u].failures)]
        BY <1>2 DEF CacheInv, EntryOK
      <4>3. lag \in Nat /\ (hour - lag) - entries[u].lastFailure >= Retention
        BY <2>0
      <4> QED
        BY <2>0, <4>1, <4>2, <4>3
    <3> HIDE DEF gone
    <3> QED
      BY <3>1, <3>2 DEF Barred, isDue
  <2> QED
    BY <2>1, <2>2, <2>3, <2>4 DEF OperationsKeepPromise
<1>3. CacheInv /\ [CacheNext]_cacheVars => [Promise!BackOffNext(Uri)]_Barred
  <2>1. CASE UNCHANGED cacheVars
    BY <2>1 DEF cacheVars, Barred, isDue
  <2>2. ASSUME CacheInv, CacheNext
        PROVE  [Promise!BackOffNext(Uri)]_Barred
    BY <1>2, <2>2 DEF CacheNext, OperationsKeepPromise, Promise!BackOffNext
  <2> QED
    BY <2>1, <2>2
<1>4. CacheInv => OperationsKeepPromise
  BY <1>2
<1> QED
  BY <1>1, <1>3, <1>4, CacheInvariant, PTL DEF CacheSpec, ImplementsBackOff
=============================================================================
