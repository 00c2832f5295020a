# Proxy in a Box: TLA+ models, checks and proofs

Proxy in a Box keeps a pool of public upstream proxies. It fetches candidates
from sources, probes them, keeps the ones that work in SQLite and in memory,
re-checks them, and relays client requests through them. This directory models
the parts whose correctness depends on the order of things (goroutines, locks,
channels, database errors, crashes, time) and the algorithms that are easy to get
wrong by one (rings, windows, thresholds, schema migration).

## 1. The system

| Part | State | Operations |
|---|---|---|
| Endpoint lifecycle and IP locks (`service/memcache.go`, `proxy.go`, `blocked_ip.go`, contract in `cache.go`) | tables `proxies`, `blocked_ips`; live list and index; `lockedIPs`, `proxyRetryAfter`; `failureMu` | `UpsertProxy`, `MarkVerifySuccess`, `MarkVerifyFailed`, `MarkProxyUnavailable`, `RecordFailure`, `CleanupStaleProxies`, `IsIPLocked`, `IsProxyValidationDue`, `load`, `LoadLockedIPs` |
| Scheduling (`service/memcache.go`) | use counts, round-robin index, recent picks and target failures per domain | `GetProxy`, `RandomProxy`, `PickProxy`, `MarkProxyTargetFailure`, `gc` |
| Candidate admission (`crawler/candidate_admission.go`, `crawler/crawler.go`) | `queuedCandidates`, `pendingValidate`, channel `ValidateJobs`, per-source counters | `enqueueSourceCandidates`, `validator` |
| Routine checks (`crawler/verify.go`, `service/proxy.go`) | `pendingVerify`, channel `verifyJob` | `Verify` (cron), `getDelay`, `recordHealthCheckFailure` |
| Verification slots, back-off, rate (`crawler/verify.go`, `validation_policy.go`, `rate_limit.go`) | `validationSlots`, `candidateSlots`, `candidateFailures`, token bucket | acquire, release, `recordFailure`, `clear`, `isDue`, `Reserve` |
| Rolling counters (`crawler/runtime_stats.go`, `verification_stats.go`, `candidate_admission.go`) | per-minute rings, 256-outcome rings | record, snapshot |
| Upstream requests (`mitm/mitm.go`, `dump.go`, `request_stats.go`) | endpoints tried, request counters | `serve`, `tunnelHTTPS`, `injectHTTPS`, `Dump`, `replayRequest`, `nextProxy` |
| Browser (`crawler/browser.go`, `engine.go`) | `browserScriptMu`, `activeSession` with its Obscura child, connection and page | `runScript`, `BrowserFetch`, `BrowserEval`, `ReleaseBrowser`, `StopObscura` |
| Sources (`crawler/source.go`, `engine.go`, `crawler.go`) | source status table | `LoadSources`, `fetchSource`, `GetDocFromURL`, parsing of text, JSON and script results |
| Fetch and TLS probe (`crawler/crawler.go`, `mitm/proxy_dialer.go`) | none | network calls with deadlines |
| Certificates, listener (`mitm/cert.go`, `listener.go`) | key and issuer, in two files and in memory; certificate cache | `GenerateCA`, `FakeCert` |
| Process and management (`cmd/proxy-in-a-box`) | cron jobs, backlog samples | start-up, shutdown, read-only API |
| Maintenance trend (`cmd/proxy-in-a-box/maintenance_trend.go`) | backlog samples of 20 minutes | `record`, `trend`, `classifyMaintenance` |
| Configuration, migration (`proxyinabox.go`) | configuration, database handle, schema | `Init`, `migrateDB` |

How they interact. Sources call `enqueueSourceCandidates`, which fills
`ValidateJobs`; `validator` goroutines take candidates from it and call
`UpsertProxy`. Every five minutes cron starts `Verify`, which fills `verifyJob`;
`getDelay` goroutines take rows from it and call `MarkVerifySuccess` or
`MarkVerifyFailed` and `RecordFailure`. Both loops take `validationSlots`;
candidates take a `candidateSlots` place first, so that some slots stay for the
routine checks. Client requests call `PickProxy` and report bad endpoints with
`MarkProxyUnavailable` and `MarkProxyTargetFailure`. Everything but the two
tables is in memory and starts empty.

What makes each part correct. *Lifecycle*: what is served is healthy by its row
and not locked, no failure is lost, promised locks and delays hold. *Scheduling*:
an address rests between two uses for a domain, circuits open and close exactly,
nothing is refused for a reason that is over. *Admission*: an endpoint is under
way once, is probed only when due, and can be offered again afterwards. *Routine
checks*: every claim is released, every overdue row is checked, a quarantined
endpoint returns by the full probe only. *Slots*: taken slots are checks under
way, the routine share cannot be used up. *Rate*: reservations are spaced by the
rate. *Back-off*: repeated failures escalate, nothing forgets a delay early.
*Counters*: a snapshot counts exactly the window, whoever was late. *Upstream requests*:
every request ends and is counted once, no endpoint is tried twice for it, an
unsafe one is sent once. *Browser*: a fetch gets its own page, there is one child
and it has an owner, waiting scripts get the browser. *Sources*: attempts are
bounded, a document is read whole or not at all, fields of an entry stay together.
*Certificates*: what is served verifies and is valid, whatever start died between
two files. *Trend*: forgetting samples never changes it, and no worse state shows a
better light. *Migration*: one row per endpoint, no live row lost, applied once.

What is hard. Operations of the cache interleave one database statement, one
in-memory change and one lock at a time, any statement may fail, and the process
may die between two of them. The lock-free readers of `lockedIPs` and
`proxyRetryAfter` load and delete in two steps. The two loops each know their
own claims only, and make decisions before they block on a channel or on a slot.

## 2. Modules

    EndpointPool                 what the cache promises its callers
      ^ implemented by             ^ used by
    ProxyPool                    CrawlerState   (+ Channels)
      ^ ProxyPoolRefinement        ^            ^
                               CandidateAdmission  RoutineChecks
                                        ^            ^
                                         Verification

    Scheduling        Upstream

    NegativeCache     used by CrawlerState, implemented by FailureCache

    Browser   RateLimiter   Windows   OutcomeRing   FailureCache   Trend
    Migration   Certificates   Sources          (checked together: MCParts)

    Selection         used by Scheduling, Trend, Sources

    Proofs: ProxyPoolProofs (with the refinement), VerificationProofs (both loops and
    their composition), SchedulingProofs, UpstreamProofs, BrowserProofs,
    FailureCacheProofs, PartsProofs (the other modules of MCParts, and MCParts),
    SelectionProofs (lemmas)

**ProxyPool** is `service/memcache.go` without scheduling. `row` is the table
`proxies` by endpoint (a URI), `blocked` the table `blocked_ips` by address,
`pl` and `index` the list and its index, `lockedIPs` and `retryAfter` the two
sync.Maps (0: no entry), `mu` the holder of `failureMu`, `pc` and `job` the
statement and the locals of each goroutine. One action is one database statement
with what the code does in memory until the next one; where the code takes the
list lock separately (`FailedRemove`, `CleanupRemove`) it is an action of its
own. With `DbFaults` every statement has an action for its error path. With
`RacyReads` the Load and the Delete of the lock-free readers are two actions.
`Crash` may happen between any two actions, `Load` and `LoadLockedIPs` follow.
A row has a generation (`gen`) in place of its AUTOINCREMENT id, so that a row
deleted and inserted again is another row. `streak`, `hits` and `promised` are
history: the failures since the last success, the failures recorded per address,
the end of the last lock that was reported.

**EndpointPool** is the same cache for a caller who sees no statements, clocks
or goroutines: `verdict`, `served`, `delayed`, `locked`, one step per operation.
**ProxyPoolRefinement** maps ProxyPool to it; `ImplementsContract` is the
abstract specification under that mapping.

**Channels** is Go's buffered channel with its line of blocked senders, as a
queue and as a semaphore. A receive hands the freed place to the first in line.

**NegativeCache** is `candidateFailures` as the loops see it: `backingOff`, the
endpoints for which `isDue` is false, a step per operation. **FailureCache** is the
cache itself: `entries` with their number of failures, end of delay and last
failure, the windows and `prune`; the caller has read the clock up to `MaxLag`
before it got the mutex. `streak` is history. `ImplementsBackOff` says that
FailureCache implements NegativeCache, operation by operation.

**CrawlerState** extends EndpointPool and NegativeCache by what both loops share:
`aged` (rows whose `last_verify` is older than the interval), `validationSlots`.

**CandidateAdmission** has a fetcher per source (`fpc`, `fe`, `fn`: statement,
candidate, admitted so far) and validators (`vpc`, `ve`). Each access to a shared
map, channel or semaphore is an action; the two due checks, read one after the
other in one condition, are one. The fetched list is any list.

**RoutineChecks** has the cron job (`cpc`, `clist`, `cp`) and the checkers
(`kpc`, `kp`). A row in the channel is the endpoint with the availability it had
when the cron job read it, since that is what the code later uses.

**Verification** composes the two over one CrawlerState.

**Scheduling** is the other half of `service/memcache.go`. `pl` is the list with
the use counts, `getProxyIndex` the position of `GetProxy`; `dl` and
`targetFailures` are, per domain, the recent picks with their age in seconds and
the open circuits with the seconds they still have. Each operation holds its locks
from its first read to its last write and is one action. `since` and `circuit` are
history, written by picks and reports only: what the two maps should remember.
`Collected` is what the deletion loop of `gc` leaves in the slice.

**Upstream** is a request on its way through `mitm`: `pc` its statement, `tried`,
`at`, `made` and `calls` the locals of the retry loops, `inner` the requests an
intercepted connection has carried; `total`, `success`, `failed` and `upstream`
are the counters. The scheduler is known by what it offers (`usable`), which
others change at any time; `NoEarlyReuse` of Scheduling is what justifies that an
endpoint with an open circuit is not offered. `sent` is history.

**Browser** has two mutexes: `browserScriptMu`, which a script takes with its first
browser call and keeps to its end, and `activeSessionMu`, which guards the pointer
and is held while a child starts or stops. `pc`, `cur` and `direct` are the
statement and locals of each script and of the signal handler; `session` is each
session's child (running, hanging, gone), connection and page. Starting, loading,
closing may each fail; a child may die or hang at any time; the handler destroys the
session of whoever uses it, and what that script meets then (a nil browser, a page
that is gone) is an action.

**RateLimiter** is the token bucket, in ticks: `credit` is tokens times their cost,
`asked` the time a caller has read before it gets the mutex. `granted` is history.

**Windows** has the two rings of time buckets (`rates`, `checks`), recorders that
hold a time they read earlier (`holds`), and the snapshots as operators.
`attempted` and `checked` are history. **OutcomeRing** is the ring of the recent
results of a source and the limit per fetch that follows; `results` is history.

**Trend** has the sampler and the samples it keeps; `recorded`, every sample ever
taken, is history. The lights of `classifyMaintenance` are operators.

**Migration** starts from any table an older release may have left: any of the three
newer columns missing, duplicates, deleted rows, empty protocols. `Migrate` is the
transaction of `migrateDB`; then the running release writes rows, stops and starts.

**Certificates** is `GenerateCA`, statement by statement, with `keyFile` and
`certFile` on disk, `pk`, `issuingCert` and `cache` in memory, and `Dies` between any
two statements.

**Sources** is the loop of one source: attempts, the limited reading of a body, the
columns of a JSON document, the status it leaves.

**Selection** is Go's loop that copies the elements which pass a test: `SelectSeq` with
the test as a set, in a form the proofs can use.

The MC modules add the instance: addresses of the endpoints, and symmetry sets
(goroutines, endpoints of equal standing; never in a run with a temporal
property other than an action property).

## 3. Runs

Passing runs:

| Run | Instance | Shows |
|---|---|---|
| `pool` | 2 ports of one IP, 2 goroutines, faults, racy readers, crashes | the live pool serves only what its rows and the locks allow; no endpoint failure is lost; ProxyPool implements EndpointPool |
| `pool_locks` | the same without faults and racy readers | locks and retry delays hold to their end, restarts included; IP failures are exact |
| `admission` | 2 sources, 2 validators, 2 endpoints, channel of 1, 1 candidate slot of 2 | no endpoint is under way twice; no probe of a live or waiting endpoint; the reserve is spared |
| `routine` | 2 ports of one IP, 1 checker, channel of 1, database answers (it may still fail to read a row back) | every claim has exactly one owner; every overdue endpoint is checked |
| `verification` | both loops, 1 worker, 2 validators, failing database | slots taken = checks under way; a routine check gets its slot; every candidate is decided |
| `scheduling` | 3 endpoints, 2 of them ports of one IP, 1 domain | `PickProxy` skips exactly what it must; `GetProxy` goes round |
| `upstream` | 2 requests, 2 endpoints of different protocols, 2 attempts | counters balance; no retry through the same endpoint; unsafe requests are sent once; every request ends |
| `parts` | the nine modules above, in one run (below) | one child with an owner, own pages, the browser is freed, a signal ends the process; the rate; exact windows and rings; delays escalate and FailureCache implements NegativeCache; the trend; the migration; certificates over crashes; bounded attempts and whole documents |

Where several facts make up one promise they are named apart, next to each other, and
the run checks their conjunction:

| Checked | Parts |
|---|---|
| `PickIsExact` (Scheduling) | `NoEarlyReuse`, `NoNeedlessRefusal` |
| `ClaimsAreExact` (CandidateAdmission) | `PendingIsOwned`, `QueuedOnce` |
| `CountersBalance` (Upstream) | `GlobalBalance`, `UpstreamBalance` |
| `BrowserIsOwned` (Browser) | `OneChild`, `ChildHasOwner`, `OwnPage` |
| `BrowserComesFree` (Browser) | `BrowserIsFreed`, `SignalExits` |
| `CountersAreExact` (MCParts) | `WindowIsExact`, `AverageBelowPeak`, `RecentIsExact` |
| `TrendIsTrue` (Trend) | `TrendIsComplete`, `ReadyWhenSampled`, `WorseIsNotBetter` |
| `FetchIsFaithful` (Sources) | `OneProxyTry`, `WholeDocument`, `FieldsStayTogether` |
| `CertificatesHold` (Certificates) | `KeyIsIssuers`, `ServedIsValid` |
| `PartsTypeOK` (MCParts) | the type invariants of the nine modules |

Runs that are violated, each a disagreement between the code and what a comment
or a test of the repository says of it:

| Run | What happens |
|---|---|
| `pool_lock_race` | `IsIPLocked` saw an expired lock; `RecordFailure` stores a new one; the reader deletes it; the IP is served again |
| `admission_leak` | a validator skips a duplicate and leaves its key in `queuedCandidates`; the endpoint is never admitted again |
| `routine_recovery` | an endpoint quarantined while its row is queued returns to the pool without the TLS probe |
| `upstream_intercepted` | requests inside an intercepted CONNECT are counted as answers, not as requests: the success rate exceeds 1 |

Bounds and why they are enough. Two goroutines are needed for every race of two
operations under `failureMu`; the third party of the races found is a lock-free
reader, which is separate from the goroutines. Two ports of one address are
needed for the sweep of an IP, and make every single-port case too. Capacities
are smaller than the code's (`2 * Workers` for `ValidateJobs`): a channel of one
place is full after one candidate, so that blocked senders occur. `MaxTime`,
`MaxGen`, `MaxCount` bound the clock, the insertions of one endpoint and the counters;
they are guards of the actions that raise them and only cut off runs. The lock and
delay durations are one or two ticks, so that both their inside and their end
are reached. Deadlock is checked except in `upstream`, where all requests end, and in
`parts`, and where the bounds stop the clock. In `scheduling` a domain has state of its own and
meets others only in the list, so one domain and endpoints that come and go are
enough; `MaxUse` bounds the picks of an endpoint until it joins the list again. In
`upstream` two attempts let a request change protocols, and `MaxInner` bounds the
requests of an intercepted connection: one more request is what the violated run
needs.

`parts` checks nine modules that share no variable. `part` chooses one at the start
and the others stay in their initial states, so their states add up instead of
multiplying, and the run costs what the nine would cost one by one. Two scripts, a
handler and two sessions make every race over the browser: a third script would
wait like the second, and a third child never lives (`OneChild`). The rings are as
small as their algorithms allow, so that they go round within the bounds: 2 time
buckets over 3 units, 8 outcomes with the thresholds scaled from 256 outcomes and
100 samples to 8 and 4. Windows 2, 3, 5 and a retention of 6 hours let an entry
pass every window and be pruned. The trend runs for two intervals more than a
sample is kept. Two rows of one address and two protocols make every kind of
duplicate; a row may be deleted, blank, quarantined or of any schema. Days are
scaled: leaf 3, cache 1, month 2, year 5, with two starts that generate a key.
Documents are of up to one entry more than the limit, with and without missing
fields.

Fairness. Goroutines of the two loops are weakly fair: the Go scheduler runs
them, and every network call they make has a deadline. Sends and slots need no
more than that, because the runtime hands a freed place to the first in line. A
source need not ever offer another candidate. In `routine` the cron job is
weakly fair, since it is started every five minutes, and the database answers:
with errors at every start nothing would be checked. In `upstream` handlers are
weakly fair, clients are not: an intercepted connection may stay idle. In Browser,
goroutines are weakly fair inside a call, because starting, loading and reading end
or have a time limit; taking a mutex is strongly fair, because Go's mutexes hand
over to whoever has waited for a millisecond; a script ends, because its context
does after 300 seconds. Nothing is assumed of a child that hangs: the two liveness
properties except that case, which the code does not survive (section 5). The other
modules state no fairness: their properties are safety.

## 4. Proofs

The runs check small instances; the theorems hold for every value of the constants.
Every safety invariant and every action property of the passing runs has a theorem,
with a proof to the last leaf, and both refinements are proved. `PROJECT.json`
lists the theorems. Where a property is not inductive, the invariant that was needed
was checked by TLC first, in the instance of the run.

| Module | Theorems about | For any |
|---|---|---|
| `ProxyPoolProofs` | `TypeOK`, `PoolBackedByRow`, `IndexMatchesPool`, `LockedNotServed`, `FailedNotServed`, `FailuresExact`, `HitsExact`, `RetryDelayKept`, `PromisedLockKept`, `ImplementsContract` | endpoints, addresses, goroutines, thresholds, durations, bounds |
| `VerificationProofs` | `AdmissionTypeOK`, `ClaimsAreExact`, `ProbesAreDue`, `ReserveIsSpared`; `RoutineTypeOK`, `ClaimsAreOwned`; `SlotsAreAccounted` | endpoints, sources, goroutines, capacities, reserve |
| `SchedulingProofs` | `SchedulingTypeOK`, `PickIsExact`, `RoundRobin` | finite list, domains, window |
| `UpstreamProofs` | `UpstreamTypeOK`, `CountersBalance`, `RetriesElsewhere`, `UnsafeOnce` | requests, endpoints, attempts |
| `BrowserProofs` | `BrowserTypeOK`, `BrowserIsOwned` | scripts, sessions |
| `FailureCacheProofs` | `FailureCacheTypeOK`, `Escalates`, `ImplementsBackOff` | endpoints, windows, retention |
| `PartsProofs` | `Paced`, `CertificatesHold`, `MigrationIsSafe`, `SuccessNeverCosts`, `FetchIsFaithful`, `CountersAreExact`, `TrendIsTrue`, `PartsTypeOK` | see below |
| `SelectionProofs` | what `Only` takes from a sequence | sequences, tests |

The assumptions are those the modules state about their constants. Some properties
hold of a part of the code's behaviour, and the theorem says so by a hypothesis:
`HitsExact` when no statement fails (`~DbFaults`), `RetryDelayKept` when no lock-free
reader pauses between its load and its delete (`~RacyReads`), `PromisedLockKept` when
neither happens. The run `pool_locks` has the same restriction; section 5 and the run
`pool_lock_race` show what happens without it.

**ProxyPool.** Between two statements an operation relies on what it learnt at the
earlier one: that an address was not locked, that a row has a certain number of
failures, that rows were stale. The inductive invariant `IInv` says (a) a goroutine
inside an operation is the holder of `failureMu`, (b) what the holder learnt is still
true, by its statement, and (c) what the pool serves is fit to be served, or the holder
is about to remove it. (b) is what the mutex is for: only the holder changes the
tables, while readers and the clock can only end locks and delays. (c) gives the
properties. `CountInv`, `DelayInv` and `LockInv` add what the other three properties
need: the count, the delay and the end of the lock the holder has read are those of
the table, and memory holds no less than the table promises.
`CacheImplementsContract` goes through the statements: each is a step of EndpointPool
or changes nothing a caller sees (`Hidden`), the clock and the readers only end locks
and delays, and the crash, `Load` and `LoadLockedIPs` are `Stop`, `Restore` and
`RestoreLocks`. What EndpointPool promises of
a served endpoint (`CallersAreServedSoundly`) then holds of the detailed cache.

**The loops.** Channels keep their values in order, so a claim moves with its
endpoint from hand to hand and is in one hand at a time: fetcher, line, queue,
validator. That is `PendingKeys` and `QueuedKeys`, and `VerifyClaims` for the routine
checks. The slots a semaphore has given are those of its users that do not wait,
and nobody waits while one is free. Who the other users are does not matter for
that, so the lemmas about one loop hold beside the other, and `VerificationInv`
puts the two together. `ProbesAreDue` needs that the claim, once held, keeps
everybody else from changing what the due checks read (`DueOK`).

**Scheduling.** `Remembered` and `Circuits` say that the two maps agree with the history
for as long as it matters: a pick is in the list of its domain until the window is over,
a circuit until it closes, and `gc` drops nothing younger. `Rotation` says where in
the list every endpoint that had its turn stands, counted back from the round-robin
index.

**Upstream.** `Located` says where a request is by its statement, `Retries` what it has
tried, and the counters differ by the requests under way (`Busy`) and by the answers that
are due from an endpoint (`Pending`). A step moves one request, so a counter and its
set change by the same one.

**Browser.** The process is alive, and then both mutexes have the holders their
statements say, the active session has an owner, and a child that runs is that of
the active session or of the one being started or stopped; or it has exited, and
nothing moves.

**FailureCache.** The inductive invariant says of each entry that it counts at least
the failures of the streak, that its delay is the window its count selects, and that
no entry with a streak is older than the retention. That a pruned entry's endpoint
was due, which is what the refinement needs, follows from the two assumptions: no
window exceeds the retention, and the clock is read less than a window early.

**The parts** (`PartsProofs`), each with an inductive invariant of its own:

- *Rate limiter.* `Paced` compares any two reservations and is not inductive: whether
  the next one keeps the distance depends on what the bucket holds. `CreditIsLeft`
  adds that: since any reservation, the bucket can have gained only the time that
  passed, so it holds at most what the burst leaves.
- *Certificates.* An issuer on disk was signed with the key on disk, because a new key
  is generated only when the file has none, and is written before an issuer is
  signed; the end of a cached leaf is bounded by its stay in the cache. For any
  periods with a cache shorter than a leaf, wherever the process dies.
- *Migration.* Once opened, the schema is complete and endpoints are unique; the row
  that is kept of several is the greatest of a finite set of ids. For any table.
- *Outcome ring.* The k-th result is at the place its number selects, so a result that
  is overwritten is the oldest one. `SuccessNeverCosts` needs arithmetic besides: a
  rate that grows never gets a greater divisor.
- *Sources.* `Tried` lists the attempts by their round; documents whose entries have the
  same fields give columns of one length, which `Only` keeps in step.
- *Windows.* `Bucketed`: a bucket holds what happened in the last of its units that was
  recorded, and nothing was recorded in the later units that share its place. A
  snapshot is then a sum over the units of the window; the lemmas about
  `SumFunctionOnSet` (nothing, one element, a bijection, zeros) compare it with the
  history. For any number of buckets and recorders, and any delay between reading
  the clock and taking the mutex.
- *Trend.* Samples rise, lie at ticks, were recorded, the recent ones are all kept, and
  the kept ones span a bounded time. The trend looks back at most two windows and a
  tick, so what was forgotten does not enter. That worse backlogs show no calmer
  light is a fact about the operators alone.
- *The run.* A step of MCParts is a step of one part and leaves the others, so the
  conjunction of the nine invariants (`PartsInv`) is inductive. `PartsTypeOK` and
  `CountersAreExact` are stated of the whole `PartsSpec`, the others of the
  specification of their part.

Finite sums and extrema are proved by least counterexamples (`LeastNumber`,
`LargestNumber`, `SmallestSubset`), recursion is by recursive functions. For the
same reason the models take elements of a sequence with `Only` (module Selection)
where they are reasoned about.

Only model-checked are the five liveness properties: `OverdueAreChecked`,
`RoutineGetsItsSlot`, `CandidatesAreDecided`, `RequestsEnd`, `BrowserComesFree`.
Fairness and ENABLED are out of the prover's reach. So are the violated runs: they are
counterexamples.

## 5. Known disagreements and gaps of the code

Besides those the violated runs show. The first three were found with these models, in
instances other than those of the runs.

- `IsProxyValidationDue` has the race of `IsIPLocked` (with `RacyReads`,
  `RetryDelayKept` fails), and `RecordFailure` ignores failed writes and returns true
  (with `DbFaults`, `PromisedLockKept` fails: a restart forgets the lock).
- `gc` (`memcache.go:154`) deletes stale picks through the header of the list as it was
  before: with two, one stays, or a copy of the newest, against the comment of line
  143. The next picks are not affected, since `PickProxy` looks at ages
  (`NoEarlyReuse`, `NoNeedlessRefusal` hold with it).
- A child that hangs without dying: `stop` first calls `closePage`, which has no time
  limit (`browser.go:239`, `266`), under `activeSessionMu`. The kill after three seconds
  (line 300) is not reached, every later browser call waits, and so does the signal
  handler before `os.Exit` (`main.go:178`), against `main.go:169`. With a child that
  hangs, both parts of `BrowserComesFree` fail without their exception.
- A script that finds its session gone may start another child between `StopObscura`
  and `os.Exit`; that child outlives the process.
- A script that waited for the browser past its 300 seconds still makes one call.
- `GenerateCA` ignores the errors of both writes (`cert.go:31`, `47`). An issuer written
  beside a key that was not is loaded by the next start with another key.
- A process older than the month that `GenerateCA` leaves may serve under an issuer
  that has expired; `ServedIsValid` promises the issuer for that month only.
- JSON fields are joined by position (`source.go:277`): when an entry lacks one, the
  values of later entries move up. `FieldsStayTogether` is about documents whose
  entries have the same fields.
- A script's entry without a field gets the text `nil` for it, which is not empty
  (`engine.go:157`): it is not skipped, and does not get the protocol of its source.
- The windows of the trend are exactly one interval long: a sample that comes late,
  because its query took time, leaves the trend not ready for that moment.

## 6. Not modelled, and why

- Crawler state is all in memory: a restart is its initial state, so the crawler
  modules have no crash. The crash of the cache is in ProxyPool.
- Row ids are taken never to be reused (AUTOINCREMENT).
- In RoutineChecks the daily cleanup does not delete a row that is being checked;
  ProxyPool has that case (`UnavailableNone`, `SuccessUpdateNone`, ...).
- The interval between deep checks of a healthy endpoint: CheckProbe may or may
  not ask for one.
- In the loops a failed endpoint backs off for any time; how long is FailureCache.
- `session.mu` (only the owner of the browser takes it, never around another lock),
  `StartObscura` (called by nothing), and how Obscura answers.
- Failing writes of the certificate files; the encodings and the signing itself.
- Two addresses in Migration: rows of different addresses do not meet.
- Conversions between Lua, JSON and Go values, and the text of addresses.
- `RandomProxy` (reads only), byte counters, the relaying of tunnel data.
- A failed attempt is one outcome, whatever the network did; the two counters of
  a delivered answer change in one step.
- Cumulative counters, which are only added to.
- `listener.go` (one connection as a listener, no state), the dialers and the TLS
  probe (network I/O: their outcomes are choices of the actions that call them).
- Reading the configuration, wording, logging, and the read-only API.

## 7. Plan

Built, in this order: ProxyPool and its proofs, EndpointPool and the refinement,
CandidateAdmission, RoutineChecks, Verification, Scheduling, Upstream; then
NegativeCache and FailureCache, RateLimiter, Browser, Certificates, Windows,
OutcomeRing, Trend, Migration, Sources; then the proofs of all of them.

Left:

1. Proofs: the other properties of the parts for the whole `PartsSpec`; the bounds of
   `ReservedOf`; that the trend is monotone in the number of available endpoints.
2. Failing writes of the certificate files, with a run of their own.
3. The safety half of the liveness properties: that each state they wait in has an
   enabled step of the goroutine they wait for.
