------------------------- MODULE CandidateAdmission -------------------------
(***************************************************************************)
(* How an endpoint listed by a source gets into the pool: the goroutines   *)
(* of fetchSource offer candidates (crawler/candidate_admission.go), the   *)
(* channel ValidateJobs carries them, and validator goroutines check and   *)
(* upsert them (crawler/crawler.go).                                       *)
(*                                                                         *)
(* Two sets keep the work unique: queuedCandidates, from the offer to the  *)
(* end of the validation, and pendingValidate, during the validation.      *)
(* IsProxyValidationDue and isDue, asked one after the other, are one step.*)
(***************************************************************************)
EXTENDS CrawlerState

CONSTANTS
    Fetcher,        \* one goroutine per source
    Validator,      \* the validator goroutines
    QueueCapacity,  \* capacity of ValidateJobs (2 * Workers in Init)
    FetchLimit,     \* sourceCandidateLimit
    Nothing         \* the local of an idle goroutine

ASSUME AdmissionAssumption ==
    /\ QueueCapacity \in Nat \ {0} /\ FetchLimit \in Nat \ {0}
    /\ Nothing \notin Endpoint

VARIABLES
    queued,         \* queuedCandidates
    pending,        \* pendingValidate
    jobs,           \* ValidateJobs
    candidateSlots, \* candidateSlots
    fpc, fe, fn,    \* fetchers: statement, candidate, admitted so far
    vpc, ve         \* validators: statement, candidate

keys       == <<queued, pending>>
fetchers   == <<fpc, fe, fn>>
validators == <<vpc, ve>>
admission  == <<keys, jobs, candidateSlots, fetchers, validators>>

FetchLabels == {"offer", "live", "due", "claim", "send", "sent"}
ValidateLabels ==
    {"receive", "claim", "locked", "live", "due", "candidate_slot", "slot",
     "probe", "deep", "strike", "upsert", "clear",
     "leave_slot", "leave_candidate_slot", "unqueue", "unpend"}

AdmissionInit ==
    /\ queued = {} /\ pending = {}
    /\ jobs = EmptyQueue
    /\ candidateSlots = AllFree
    /\ fpc = [f \in Fetcher |-> "offer"]
    /\ fe = [f \in Fetcher |-> Nothing]
    /\ fn = [f \in Fetcher |-> 0]
    /\ vpc = [v \in Validator |-> "receive"]
    /\ ve = [v \in Validator |-> Nothing]

-----------------------------------------------------------------------------
(* enqueueSourceCandidates.  The fetched list is any list: the next        *)
(* candidate may be any endpoint, and the list may end after any of them.  *)

FetchTo(f, label) == fpc' = [fpc EXCEPT ![f] = label]

\* Done with the candidate, which was admitted n times (0 or 1).
FetchDone(f, n) ==
    /\ FetchTo(f, "offer")
    /\ fe' = [fe EXCEPT ![f] = Nothing]
    /\ fn' = [fn EXCEPT ![f] = @ + n]

\* Mutant: admitted > limit instead of admitted >= limit.
OfferPastLimit(f, e) ==
    /\ fpc[f] = "offer"
    /\ fn[f] <= FetchLimit
    /\ IpOf[e] \notin locked
    /\ FetchTo(f, "live")
    /\ fe' = [fe EXCEPT ![f] = e]
    /\ UNCHANGED <<stored, backingOff, validationSlots, keys, jobs, candidateSlots,
                   fn, validators>>

\* The next candidate; an endpoint of a locked IP is filtered out at once.
Offer(f, e) ==
    /\ fpc[f] = "offer"
    /\ fn[f] < FetchLimit
    /\ IpOf[e] \notin locked
    /\ FetchTo(f, "live")
    /\ fe' = [fe EXCEPT ![f] = e]
    /\ UNCHANGED <<stored, backingOff, validationSlots, keys, jobs, candidateSlots,
                   fn, validators>>

\* The list ends or the limit is reached; the next fetch starts from 0.
FetchEnds(f) ==
    /\ fpc[f] = "offer" /\ fn[f] > 0
    /\ fn' = [fn EXCEPT ![f] = 0]
    /\ UNCHANGED <<stored, backingOff, validationSlots, keys, jobs, candidateSlots,
                   fpc, fe, validators>>

FetchLive(f) ==
    /\ fpc[f] = "live"
    /\ IF fe[f] \in served
       THEN FetchDone(f, 0) /\ ClearBackOff(fe[f])
       ELSE FetchTo(f, "due") /\ UNCHANGED <<fe, fn, backingOff>>
    /\ UNCHANGED <<stored, validationSlots, keys, jobs, candidateSlots, validators>>

FetchDue(f) ==
    /\ fpc[f] = "due"
    /\ IF fe[f] \in delayed \cup backingOff
       THEN FetchDone(f, 0)
       ELSE FetchTo(f, "claim") /\ UNCHANGED <<fe, fn>>
    /\ UNCHANGED <<stored, backingOff, validationSlots, keys, jobs, candidateSlots,
                   validators>>

\* Mutant: Load, then Store, instead of LoadOrStore.
FetchClaimUnchecked(f) ==
    /\ fpc[f] = "claim"
    /\ queued' = queued \cup {fe[f]}
    /\ FetchTo(f, "send") /\ UNCHANGED <<fe, fn>>
    /\ UNCHANGED <<stored, backingOff, validationSlots, pending, jobs, candidateSlots,
                   validators>>

FetchClaim(f) ==
    /\ fpc[f] = "claim"
    /\ IF fe[f] \in queued
       THEN FetchDone(f, 0) /\ UNCHANGED queued
       ELSE /\ queued' = queued \cup {fe[f]}
            /\ FetchTo(f, "send") /\ UNCHANGED <<fe, fn>>
    /\ UNCHANGED <<stored, backingOff, validationSlots, pending, jobs, candidateSlots,
                   validators>>

FetchSend(f) ==
    /\ fpc[f] = "send"
    /\ jobs' = Send(jobs, QueueCapacity, f, fe[f])
    /\ FetchTo(f, "sent")
    /\ UNCHANGED <<stored, backingOff, validationSlots, keys, candidateSlots, fe, fn,
                   validators>>

FetchSent(f) ==
    /\ fpc[f] = "sent"
    /\ ~Blocked(jobs, f)
    /\ FetchDone(f, 1)
    /\ UNCHANGED <<stored, backingOff, validationSlots, keys, jobs, candidateSlots,
                   validators>>

-----------------------------------------------------------------------------
(* validator *)

ValidateTo(v, label) == vpc' = [vpc EXCEPT ![v] = label] /\ UNCHANGED ve

\* Back to the head of the loop.
ValidateNext(v) ==
    /\ vpc' = [vpc EXCEPT ![v] = "receive"]
    /\ ve' = [ve EXCEPT ![v] = Nothing]

ValidateReceive(v) ==
    /\ vpc[v] = "receive"
    /\ jobs.buffer # << >>
    /\ vpc' = [vpc EXCEPT ![v] = "claim"]
    /\ ve' = [ve EXCEPT ![v] = Head(jobs.buffer)]
    /\ jobs' = Receive(jobs)
    /\ UNCHANGED <<stored, backingOff, validationSlots, keys, candidateSlots, fetchers>>

\* Mutant: the validator does not look whether another one has the endpoint.
ValidateClaimUnchecked(v) ==
    /\ vpc[v] = "claim"
    /\ pending' = pending \cup {ve[v]} /\ ValidateTo(v, "locked")
    /\ UNCHANGED <<stored, backingOff, validationSlots, queued, jobs, candidateSlots,
                   fetchers>>

\* An endpoint under validation is skipped; its queuedCandidates key stays.
ValidateClaim(v) ==
    /\ vpc[v] = "claim"
    /\ IF ve[v] \in pending
       THEN ValidateNext(v) /\ UNCHANGED pending
       ELSE pending' = pending \cup {ve[v]} /\ ValidateTo(v, "locked")
    /\ UNCHANGED <<stored, backingOff, validationSlots, queued, jobs, candidateSlots,
                   fetchers>>

ValidateLocked(v) ==
    /\ vpc[v] = "locked"
    /\ ValidateTo(v, IF IpOf[ve[v]] \in locked THEN "unqueue" ELSE "live")
    /\ UNCHANGED <<stored, backingOff, validationSlots, keys, jobs, candidateSlots,
                   fetchers>>

ValidateLive(v) ==
    /\ vpc[v] = "live"
    /\ IF ve[v] \in served
       THEN ClearBackOff(ve[v]) /\ ValidateTo(v, "unqueue")
       ELSE ValidateTo(v, "due") /\ UNCHANGED backingOff
    /\ UNCHANGED <<stored, validationSlots, keys, jobs, candidateSlots, fetchers>>

\* Mutant: the delays are not looked at again.
ValidateDueUnchecked(v) ==
    /\ vpc[v] = "due"
    /\ /\ candidateSlots' = Enter(candidateSlots, CandidateCapacity, v)
       /\ ValidateTo(v, "candidate_slot")
    /\ UNCHANGED <<stored, backingOff, validationSlots, keys, jobs, fetchers>>

\* Mutant: candidates may take every slot.
ValidateDueUnreserved(v) ==
    /\ vpc[v] = "due"
    /\ IF ve[v] \in delayed \cup backingOff
       THEN ValidateTo(v, "unqueue") /\ UNCHANGED candidateSlots
       ELSE /\ candidateSlots' = Enter(candidateSlots, ValidationCapacity, v)
            /\ ValidateTo(v, "candidate_slot")
    /\ UNCHANGED <<stored, backingOff, validationSlots, keys, jobs, fetchers>>

ValidateDue(v) ==
    /\ vpc[v] = "due"
    /\ IF ve[v] \in delayed \cup backingOff
       THEN ValidateTo(v, "unqueue") /\ UNCHANGED candidateSlots
       ELSE /\ candidateSlots' = Enter(candidateSlots, CandidateCapacity, v)
            /\ ValidateTo(v, "candidate_slot")
    /\ UNCHANGED <<stored, backingOff, validationSlots, keys, jobs, fetchers>>

ValidateCandidateSlot(v) ==
    /\ vpc[v] = "candidate_slot"
    /\ ~Waits(candidateSlots, v)
    /\ validationSlots' = Enter(validationSlots, ValidationCapacity, v)
    /\ ValidateTo(v, "slot")
    /\ UNCHANGED <<stored, backingOff, keys, jobs, candidateSlots, fetchers>>

ValidateSlot(v) ==
    /\ vpc[v] = "slot"
    /\ ~Waits(validationSlots, v)
    /\ ValidateTo(v, "probe")
    /\ UNCHANGED <<stored, backingOff, validationSlots, keys, jobs, candidateSlots,
                   fetchers>>

\* The trace request fails, does not parse or shows another IP; or it is fine.
ValidateProbe(v) ==
    /\ vpc[v] = "probe"
    /\ \/ BackOff(ve[v]) /\ ValidateTo(v, "leave_slot")
       \/ ValidateTo(v, "deep") /\ UNCHANGED backingOff
    /\ UNCHANGED <<stored, validationSlots, keys, jobs, candidateSlots, fetchers>>

ValidateDeep(v) ==
    /\ vpc[v] = "deep"
    /\ \/ BackOff(ve[v]) /\ ValidateTo(v, "strike")
       \/ ValidateTo(v, "upsert") /\ UNCHANGED backingOff
    /\ UNCHANGED <<stored, validationSlots, keys, jobs, candidateSlots, fetchers>>

\* RecordFailure, which may reach the threshold.
ValidateStrike(v) ==
    /\ vpc[v] = "strike"
    /\ LockOut(IpOf[ve[v]]) \/ UNCHANGED pool
    /\ UNCHANGED aged
    /\ ValidateTo(v, "leave_slot")
    /\ UNCHANGED <<backingOff, validationSlots, keys, jobs, candidateSlots, fetchers>>

\* UpsertProxy refuses a locked IP, and may fail to save.
ValidateUpsert(v) ==
    /\ vpc[v] = "upsert"
    /\ \/ Verified(ve[v]) /\ ValidateTo(v, "clear")
       \/ UNCHANGED stored /\ ValidateTo(v, "leave_slot")
    /\ UNCHANGED <<backingOff, validationSlots, keys, jobs, candidateSlots, fetchers>>

ValidateClear(v) ==
    /\ vpc[v] = "clear"
    /\ ClearBackOff(ve[v])
    /\ ValidateTo(v, "leave_slot")
    /\ UNCHANGED <<stored, validationSlots, keys, jobs, candidateSlots, fetchers>>

\* The deferred calls, last deferred first.
ValidateLeaveSlot(v) ==
    /\ vpc[v] = "leave_slot"
    /\ validationSlots' = Leave(validationSlots)
    /\ ValidateTo(v, "leave_candidate_slot")
    /\ UNCHANGED <<stored, backingOff, keys, jobs, candidateSlots, fetchers>>

\* Mutant: the candidate slot is not given back.
ValidateKeepCandidateSlot(v) ==
    /\ vpc[v] = "leave_candidate_slot"
    /\ ValidateTo(v, "unqueue")
    /\ UNCHANGED <<stored, backingOff, validationSlots, keys, jobs, candidateSlots,
                   fetchers>>

ValidateLeaveCandidateSlot(v) ==
    /\ vpc[v] = "leave_candidate_slot"
    /\ candidateSlots' = Leave(candidateSlots)
    /\ ValidateTo(v, "unqueue")
    /\ UNCHANGED <<stored, backingOff, validationSlots, keys, jobs, fetchers>>

ValidateUnqueue(v) ==
    /\ vpc[v] = "unqueue"
    /\ queued' = queued \ {ve[v]}
    /\ ValidateTo(v, "unpend")
    /\ UNCHANGED <<stored, backingOff, validationSlots, pending, jobs, candidateSlots,
                   fetchers>>

ValidateUnpend(v) ==
    /\ vpc[v] = "unpend"
    /\ pending' = pending \ {ve[v]}
    /\ ValidateNext(v)
    /\ UNCHANGED <<stored, backingOff, validationSlots, queued, jobs, candidateSlots,
                   fetchers>>

-----------------------------------------------------------------------------
Fetch(f) ==
    \/ \E e \in Endpoint : Offer(f, e)
    \/ FetchEnds(f) \/ FetchLive(f) \/ FetchDue(f)
    \/ FetchClaim(f) \/ FetchSend(f) \/ FetchSent(f)

Validate(v) ==
    \/ ValidateReceive(v) \/ ValidateClaim(v)
    \/ ValidateLocked(v) \/ ValidateLive(v) \/ ValidateDue(v)
    \/ ValidateCandidateSlot(v) \/ ValidateSlot(v)
    \/ ValidateProbe(v) \/ ValidateDeep(v) \/ ValidateStrike(v)
    \/ ValidateUpsert(v) \/ ValidateClear(v)
    \/ ValidateLeaveSlot(v) \/ ValidateLeaveCandidateSlot(v)
    \/ ValidateUnqueue(v) \/ ValidateUnpend(v)

\* Without the routine checks.
Surroundings ==
    /\ DelaysEnd \/ \E e \in Endpoint : ClientRefused(e)
    /\ UNCHANGED <<validationSlots, admission>>

Init == SharedInit /\ AdmissionInit

Next ==
    \/ \E f \in Fetcher : Fetch(f)
    \/ \E v \in Validator : Validate(v)
    \/ Surroundings

vars == <<stored, backingOff, validationSlots, admission>>

\* Goroutines run; a probe ends, because its connection has deadlines.
AdmissionFairness ==
    /\ \A f \in Fetcher : WF_vars(fpc[f] # "offer" /\ Fetch(f))
    /\ \A v \in Validator : WF_vars(Validate(v))

Spec == Init /\ [][Next]_vars /\ AdmissionFairness

-----------------------------------------------------------------------------
(* Properties *)

AdmissionTypeOK ==
    /\ PoolTypeOK
    /\ aged \in SUBSET Endpoint /\ backingOff \in SUBSET Endpoint
    /\ queued \in SUBSET Endpoint /\ pending \in SUBSET Endpoint
    /\ jobs \in Queues(Fetcher, Endpoint) /\ Len(jobs.buffer) <= QueueCapacity
    /\ validationSlots \in Semaphores(Validator)
    /\ candidateSlots \in Semaphores(Validator)
    /\ fpc \in [Fetcher -> FetchLabels]
    /\ fe \in [Fetcher -> Endpoint \cup {Nothing}]
    /\ fn \in [Fetcher -> 0 .. FetchLimit]
    /\ vpc \in [Validator -> ValidateLabels]
    /\ ve \in [Validator -> Endpoint \cup {Nothing}]

Owners(e) ==
    {v \in Validator : vpc[v] \notin {"receive", "claim"} /\ ve[v] = e}

\* Who has a candidate at hand, from its claim to the release of its key:
\* fetchers about to send, places in the channel, validators.
Carriers(e) ==
    {f \in Fetcher : fpc[f] = "send" /\ fe[f] = e}
    \cup {i \in 1 .. Len(Values(jobs)) : Values(jobs)[i] = e}
    \cup {v \in Validator : vpc[v] \notin {"receive", "unpend"} /\ ve[v] = e}

\* At most one validator works on an endpoint, and pendingValidate names exactly
\* the endpoints some validator works on (crawler.go:189-196).
PendingIsOwned ==
    \A e \in Endpoint : Cardinality(Owners(e)) = IF e \in pending THEN 1 ELSE 0

\* However many sources list an endpoint, it is under way once only, and its key
\* is in queuedCandidates all the time (candidate_admission.go:176-180).
QueuedOnce ==
    \A e \in Endpoint : Carriers(e) # {} =>
        e \in queued /\ Cardinality(Carriers(e)) = 1

\* The two claim sets, which are released one after the other by whoever got them, are
\* exact at every step between (crawler.go:189-205, candidate_admission.go:176).
ClaimsAreExact == PendingIsOwned /\ QueuedOnce

\* A candidate is not probed while it is live or waits for its retry: a failure
\* after the check of the fetcher stops it at the check of the validator
\* (crawler.go:208-220).
ProbesAreDue ==
    \A v \in Validator : vpc[v] \in {"candidate_slot", "slot", "probe"} =>
        ve[v] \notin served \cup backingOff

\* The validator holds one of validationSlots.
InSlot(v) ==
    \/ vpc[v] = "slot" /\ ~Waits(validationSlots, v)
    \/ vpc[v] \in {"probe", "deep", "strike", "upsert", "clear", "leave_slot"}

\* However many candidates there are, the slots reserved for the routine checks
\* stay out of their reach: "concurrency unavailable to source candidates"
\* (verify.go:54-66, 104-107, README.md:129).
ReserveIsSpared ==
    Cardinality({v \in Validator : InSlot(v)})
        <= Workers - ReservedOf(Workers, Reserve)

\* A key of queuedCandidates belongs to a candidate under way: once it is not,
\* a source can offer the endpoint again (crawler.go:190, 197-201).
QueuedKeysReleased == \A e \in queued : Carriers(e) # {}

\* A candidate a source offered is decided: it leaves the channel, gets its slots
\* and its checks end, whatever else is offered.
CandidatesAreDecided ==
    \A e \in Endpoint : Carriers(e) # {} ~> Carriers(e) = {}
=============================================================================
