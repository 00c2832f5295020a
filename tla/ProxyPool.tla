----------------------------- MODULE ProxyPool -----------------------------
(***************************************************************************)
(* The life of an upstream endpoint in service/memcache.go: the SQLite     *)
(* tables proxies and blocked_ips, the live pool and the two negative      *)
(* caches MemCache keeps in memory, and every operation that writes them.  *)
(*                                                                         *)
(* A lifecycle operation holds failureMu from its first statement to its   *)
(* return, and is cut here at each database statement, because the process *)
(* can die between two of them and the lock-free readers (IsIPLocked,      *)
(* IsProxyValidationDue) run while they are under way.  Memory writes that *)
(* follow a statement are joined to it when no reader and no crash can     *)
(* tell the difference.                                                    *)
(*                                                                         *)
(* Time 0 is Go's zero time.Time: "no lock", "no delay", "never verified". *)
(* Row ids are per-endpoint generations: SQLite never gives the id of a    *)
(* deleted row to another endpoint, so <<endpoint, generation>> is the id. *)
(***************************************************************************)
EXTENDS Integers, Sequences, FiniteSets

CONSTANTS
    Endpoint,       \* proxy URIs (protocol, ip and port together)
    IP,             \* addresses
    IpOf,           \* the address of each endpoint
    Worker,         \* goroutines that call lifecycle operations
    Free,           \* failureMu is held by nobody
    NoEndpoint,     \* the operand of an idle goroutine
    LockThreshold,  \* proxyFailureLockThreshold
    LockDuration,   \* proxyFailureLockDuration
    Backoff,        \* proxyRetryBackoff
    StaleAfter,     \* staleProxyThreshold
    DbFaults,       \* TRUE: any database write may fail
    RacyReads,      \* TRUE: lock-free readers pause between Load and Delete
    MaxTime,        \* bound: the clock stops here
    MaxGen,         \* bound: row insertions per endpoint
    MaxCount        \* bound: failures counted per endpoint and per IP

ASSUME IpOfAssumption == IpOf \in [Endpoint -> IP]
ASSUME NamesAssumption == Free \notin Worker /\ NoEndpoint \notin Endpoint
ASSUME LimitsAssumption ==
    /\ LockThreshold \in Nat \ {0}
    /\ LockDuration \in Nat \ {0}
    /\ StaleAfter \in Nat \ {0}
    /\ Backoff \in Seq(Nat \ {0}) /\ Backoff # << >>
    /\ MaxTime \in Nat \ {0} /\ MaxGen \in Nat \ {0} /\ MaxCount \in Nat \ {0}
ASSUME SwitchAssumption == DbFaults \in BOOLEAN /\ RacyReads \in BOOLEAN

VARIABLES
    now,        \* the wall clock
    row,        \* table proxies, at most one row per endpoint
    issued,     \* generations of each endpoint's row handed out so far
    blocked,    \* table blocked_ips, count 0 when there is no row
    phase,      \* "down", "loaded" (after load) or "up" (after LoadLockedIPs)
    pl,         \* proxies.pl: how many entries of an endpoint, and their row id
    index,      \* proxies.index
    lockedIPs,  \* lockedIPs: when the lock of an IP ends
    retryAfter, \* proxyRetryAfter: when an endpoint may be tried again
    lockReads,  \* IPs whose expired lock some reader is about to delete
    dueReads,   \* endpoints whose expired delay some reader is about to delete
    mu,         \* holder of failureMu
    pc,         \* the statement each goroutine is about to execute
    job,        \* its locals
    streak,     \* history: failures recorded for an endpoint since a success
    hits,       \* history: RecordFailure calls for an IP since a success
    promised    \* history: end of the last lock RecordFailure reported

db      == <<row, issued, blocked>>
lists   == <<pl, index>>
caches  == <<lockedIPs, retryAfter>>
reads   == <<lockReads, dueReads>>
threads == <<mu, pc, job>>
history == <<streak, hits, promised>>
vars    == <<now, db, phase, lists, caches, reads, threads, history>>

\* The columns and locals the model keeps.
Rows    == [gen : Nat, available : BOOLEAN, failures : Nat, next : Nat, last : Nat]
Blocks  == [count : Nat, until : Nat]
Entries == [copies : Nat, gen : Nat]
Jobs    == [e : Endpoint \cup {NoEndpoint}, gen : Nat, cnt : Nat, until : Int,
            stale : SUBSET Endpoint]

NoRow   == [gen |-> 0, available |-> FALSE, failures |-> 0, next |-> 0, last |-> 0]
NoBlock == [count |-> 0, until |-> 0]
NoEntry == [copies |-> 0, gen |-> 0]

\* The locals of a call: the proxy it was given (URI and row id), the count and
\* the time it computed, the rows it selected.
Locals(e, g, n, t, S) == [e |-> e, gen |-> g, cnt |-> n, until |-> t, stale |-> S]
Operand(e, g) == Locals(e, g, 0, 0, {})
NoJob == Operand(NoEndpoint, 0)

Labels == {"idle", "upsert", "upsert_save", "upsert_publish",
           "success", "success_update", "success_publish",
           "failed", "failed_update", "failed_remove",
           "unavailable", "unavailable_update",
           "failure", "failure_quarantine", "failure_save",
           "cleanup", "cleanup_delete", "cleanup_remove"}

-----------------------------------------------------------------------------
(* Pure helpers. *)

\* retryBackoffForFailure
RetryBackoff(failures) ==
    Backoff[IF failures <= 0 THEN 1
            ELSE IF failures > Len(Backoff) THEN Len(Backoff) ELSE failures]

\* IsIPLocked's answer; its side effect is DropExpiredLock.
Locked(ip) == now < lockedIPs[ip]

DropExpiredLock(ip) ==
    lockedIPs' = [lockedIPs EXCEPT ![ip] = IF now < @ THEN @ ELSE 0]

\* The WHERE clause of CleanupStaleProxies.
Stale(e, cutoff) == row[e].gen # 0 /\ row[e].last # 0 /\ row[e].last < cutoff

\* Row g after a success, after a failure, and a row when its IP is locked.
Healthy(g) ==
    [gen |-> g, available |-> TRUE, failures |-> 0, next |-> 0, last |-> now]

Quarantined(g, failures) ==
    [gen |-> g, available |-> FALSE, failures |-> failures,
     next |-> now + RetryBackoff(failures), last |-> now]

Suspended(r) == [gen |-> r.gen, available |-> FALSE, failures |-> r.failures,
                 next |-> r.next, last |-> r.last]

LockInDB(ip) == now < blocked[ip].until

-----------------------------------------------------------------------------
Init ==
    /\ now = 1
    /\ row = [e \in Endpoint |-> NoRow]
    /\ issued = [e \in Endpoint |-> 0]
    /\ blocked = [ip \in IP |-> NoBlock]
    /\ phase = "down"
    /\ pl = [e \in Endpoint |-> NoEntry]
    /\ index = {}
    /\ lockedIPs = [ip \in IP |-> 0]
    /\ retryAfter = [e \in Endpoint |-> 0]
    /\ lockReads = {}
    /\ dueReads = {}
    /\ mu = Free
    /\ pc = [w \in Worker |-> "idle"]
    /\ job = [w \in Worker |-> NoJob]
    /\ streak = [e \in Endpoint |-> 0]
    /\ hits = [ip \in IP |-> 0]
    /\ promised = [ip \in IP |-> 0]

Tick ==
    /\ now < MaxTime
    /\ now' = now + 1
    /\ UNCHANGED <<db, phase, lists, caches, reads, threads, history>>

-----------------------------------------------------------------------------
(* The goroutine's program counter, and the two list updates shared by     *)
(* several operations.                                                     *)

\* Mutant: failureMu is not taken.
LockWithoutMutex(w, label, locals) ==
    /\ phase = "up"
    /\ pc[w] = "idle"
    /\ mu' = w
    /\ pc' = [pc EXCEPT ![w] = label]
    /\ job' = [job EXCEPT ![w] = locals]

Lock(w, label, locals) ==
    /\ phase = "up"
    /\ pc[w] = "idle"
    /\ mu = Free
    /\ mu' = w
    /\ pc' = [pc EXCEPT ![w] = label]
    /\ job' = [job EXCEPT ![w] = locals]

Step(w, label) ==
    /\ pc' = [pc EXCEPT ![w] = label]
    /\ UNCHANGED <<mu, job>>

\* A statement whose result is kept in a local.
Learn(w, label, locals) ==
    /\ pc' = [pc EXCEPT ![w] = label]
    /\ job' = [job EXCEPT ![w] = locals]
    /\ UNCHANGED mu

Return(w) ==
    /\ mu' = Free
    /\ pc' = [pc EXCEPT ![w] = "idle"]
    /\ job' = [job EXCEPT ![w] = NoJob]

\* Mutant: an entry is taken off without looking whether it is there.
RemoveUnchecked(gone) ==
    /\ pl' = [e \in Endpoint |-> IF e \in gone
                                 THEN [pl[e] EXCEPT !.copies = @ - 1] ELSE pl[e]]
    /\ index' = index \ gone

\* removeByURIFromCacheLocked for every endpoint of a set.
RemoveEndpoints(gone) ==
    /\ pl' = [e \in Endpoint |-> IF e \in gone THEN NoEntry ELSE pl[e]]
    /\ index' = index \ gone

\* removeFromCacheLocked
RemoveIP(ip) == RemoveEndpoints({e \in Endpoint : IpOf[e] = ip})

\* clearFailureLocked: the memory delete always happens, the row delete may fail.
ClearFailure(ip) ==
    \/ /\ blocked' = [blocked EXCEPT ![ip] = NoBlock]
       /\ hits' = [hits EXCEPT ![ip] = 0]
    \/ DbFaults /\ UNCHANGED <<blocked, hits>>

-----------------------------------------------------------------------------
(* UpsertProxy *)

BeginUpsert(w, e) ==
    /\ row[e].gen # 0 \/ issued[e] < MaxGen
    /\ Lock(w, "upsert", Operand(e, 0))
    /\ UNCHANGED <<now, db, phase, lists, caches, reads, history>>

UpsertCheck(w) ==
    /\ pc[w] = "upsert"
    /\ DropExpiredLock(IpOf[job[w].e])
    /\ IF Locked(IpOf[job[w].e]) THEN Return(w) ELSE Step(w, "upsert_save")
    /\ UNCHANGED <<now, db, phase, lists, retryAfter, reads, history>>

UpsertSave(w) ==
    LET e == job[w].e
        g == IF row[e].gen # 0 THEN row[e].gen ELSE issued[e] + 1
    IN  /\ pc[w] = "upsert_save"
        /\ row' = [row EXCEPT ![e] = Healthy(g)]
        /\ issued' = [issued EXCEPT ![e] = IF row[e].gen # 0 THEN @ ELSE g]
        /\ streak' = [streak EXCEPT ![e] = 0]
        /\ Learn(w, "upsert_publish", Operand(e, g))
        /\ UNCHANGED <<now, blocked, phase, lists, caches, reads, hits, promised>>

UpsertSaveError(w) ==
    /\ DbFaults
    /\ pc[w] = "upsert_save"
    /\ Return(w)
    /\ UNCHANGED <<now, db, phase, lists, caches, reads, history>>

\* Mutant: the old entries of the URI stay.
PublishWithoutRemoval(w) ==
    LET e == job[w].e
    IN  /\ pc[w] = "upsert_publish"
        /\ pl' = [pl EXCEPT ![e] = [copies |-> @.copies + 1, gen |-> job[w].gen]]
        /\ index' = index \cup {e}
        /\ retryAfter' = [retryAfter EXCEPT ![e] = 0]
        /\ lockedIPs' = [lockedIPs EXCEPT ![IpOf[e]] = 0]
        /\ ClearFailure(IpOf[e])
        /\ Return(w)
        /\ UNCHANGED <<now, row, issued, phase, reads, streak, promised>>

\* Old entries of the URI go, one new entry comes, and the failures are cleared.
UpsertPublish(w) ==
    LET e == job[w].e
    IN  /\ pc[w] = "upsert_publish"
        /\ pl' = [pl EXCEPT ![e] = [copies |-> 1, gen |-> job[w].gen]]
        /\ index' = index \cup {e}
        /\ retryAfter' = [retryAfter EXCEPT ![e] = 0]
        /\ lockedIPs' = [lockedIPs EXCEPT ![IpOf[e]] = 0]
        /\ ClearFailure(IpOf[e])
        /\ Return(w)
        /\ UNCHANGED <<now, row, issued, phase, reads, streak, promised>>

-----------------------------------------------------------------------------
(* MarkVerifySuccess: the caller holds a copy of a row read some time ago. *)

BeginSuccess(w, e, g) ==
    /\ Lock(w, "success", Operand(e, g))
    /\ UNCHANGED <<now, db, phase, lists, caches, reads, history>>

\* Mutant: a success that was measured before the lock undoes it.
SuccessWithoutLockCheck(w) ==
    /\ pc[w] = "success"
    /\ DropExpiredLock(IpOf[job[w].e])
    /\ Step(w, "success_update")
    /\ UNCHANGED <<now, db, phase, lists, retryAfter, reads, history>>

SuccessCheck(w) ==
    /\ pc[w] = "success"
    /\ DropExpiredLock(IpOf[job[w].e])
    /\ IF Locked(IpOf[job[w].e]) THEN Return(w) ELSE Step(w, "success_update")
    /\ UNCHANGED <<now, db, phase, lists, retryAfter, reads, history>>

SuccessUpdate(w) ==
    LET e == job[w].e
    IN  /\ pc[w] = "success_update"
        /\ row[e].gen = job[w].gen
        /\ row' = [row EXCEPT ![e] = Healthy(@.gen)]
        /\ streak' = [streak EXCEPT ![e] = 0]
        /\ Step(w, "success_publish")
        /\ UNCHANGED <<now, issued, blocked, phase, lists, caches, reads,
                       hits, promised>>

\* The row is gone (RowsAffected # 1), or the UPDATE failed.
SuccessUpdateNone(w) ==
    /\ pc[w] = "success_update"
    /\ DbFaults \/ row[job[w].e].gen # job[w].gen
    /\ Return(w)
    /\ UNCHANGED <<now, db, phase, lists, caches, reads, history>>

\* A live entry is refreshed in place; otherwise the row is reloaded and appended.
SuccessPublish(w) ==
    LET e == job[w].e
    IN  /\ pc[w] = "success_publish"
        /\ retryAfter' = [retryAfter EXCEPT ![e] = 0]
        /\ lockedIPs' = [lockedIPs EXCEPT ![IpOf[e]] = 0]
        /\ ClearFailure(IpOf[e])
        /\ IF pl[e].copies > 0
           THEN UNCHANGED lists
           ELSE /\ pl' = [pl EXCEPT ![e] = [copies |-> 1, gen |-> job[w].gen]]
                /\ index' = index \cup {e}
        /\ Return(w)
        /\ UNCHANGED <<now, row, issued, phase, reads, streak, promised>>

\* The reload failed: the row is available, the endpoint stays out of the pool.
SuccessReloadError(w) ==
    LET e == job[w].e
    IN  /\ DbFaults
        /\ pc[w] = "success_publish"
        /\ pl[e].copies = 0
        /\ retryAfter' = [retryAfter EXCEPT ![e] = 0]
        /\ Return(w)
        /\ UNCHANGED <<now, db, phase, lists, lockedIPs, reads, history>>

-----------------------------------------------------------------------------
(* MarkVerifyFailed: read the count, write it back, remove from the pool.  *)

BeginFailed(w, e, g) ==
    /\ row[e].failures < MaxCount
    /\ Lock(w, "failed", Operand(e, g))
    /\ UNCHANGED <<now, db, phase, lists, caches, reads, history>>

FailedLoad(w) ==
    LET e == job[w].e
    IN  /\ pc[w] = "failed"
        /\ row[e].gen = job[w].gen
        /\ Learn(w, "failed_update", Locals(e, row[e].gen, row[e].failures + 1, 0, {}))
        /\ UNCHANGED <<now, db, phase, lists, caches, reads, history>>

FailedLoadNone(w) ==
    /\ pc[w] = "failed"
    /\ DbFaults \/ row[job[w].e].gen # job[w].gen
    /\ Return(w)
    /\ UNCHANGED <<now, db, phase, lists, caches, reads, history>>

\* The UPDATE of the quarantine columns, and the retry delay stored after it.
Quarantine(e, failures) ==
    /\ row' = [row EXCEPT ![e] = Quarantined(@.gen, failures)]
    /\ retryAfter' = [retryAfter EXCEPT ![e] = now + RetryBackoff(failures)]
    /\ streak' = [streak EXCEPT ![e] = @ + 1]

FailedUpdate(w) ==
    /\ pc[w] = "failed_update"
    /\ row[job[w].e].gen = job[w].gen
    /\ Quarantine(job[w].e, job[w].cnt)
    /\ Step(w, "failed_remove")
    /\ UNCHANGED <<now, issued, blocked, phase, lists, lockedIPs, reads,
                   hits, promised>>

FailedUpdateNone(w) ==
    /\ pc[w] = "failed_update"
    /\ DbFaults \/ row[job[w].e].gen # job[w].gen
    /\ Return(w)
    /\ UNCHANGED <<now, db, phase, lists, caches, reads, history>>

FailedRemove(w) ==
    /\ pc[w] = "failed_remove"
    /\ RemoveEndpoints({job[w].e})
    /\ Return(w)
    /\ UNCHANGED <<now, db, phase, caches, reads, history>>

-----------------------------------------------------------------------------
(* MarkProxyUnavailable: the same quarantine, by URI, for a live entry. It *)
(* holds proxies.l throughout, so the removal joins the UPDATE.            *)

BeginUnavailable(w, e) ==
    /\ row[e].failures < MaxCount
    /\ Lock(w, "unavailable", Operand(e, 0))
    /\ UNCHANGED <<now, db, phase, lists, caches, reads, history>>

UnavailableLoad(w) ==
    LET e == job[w].e
    IN  /\ pc[w] = "unavailable"
        /\ pl[e].copies > 0
        /\ row[e].gen = pl[e].gen
        /\ Learn(w, "unavailable_update",
                 Locals(e, pl[e].gen, row[e].failures + 1, 0, {}))
        /\ UNCHANGED <<now, db, phase, lists, caches, reads, history>>

\* No live entry has the URI, or its row cannot be read.
UnavailableNone(w) ==
    LET e == job[w].e
    IN  /\ pc[w] = "unavailable"
        /\ DbFaults \/ pl[e].copies = 0 \/ row[e].gen # pl[e].gen
        /\ Return(w)
        /\ UNCHANGED <<now, db, phase, lists, caches, reads, history>>

UnavailableUpdate(w) ==
    /\ pc[w] = "unavailable_update"
    /\ row[job[w].e].gen = job[w].gen
    /\ Quarantine(job[w].e, job[w].cnt)
    /\ RemoveEndpoints({job[w].e})
    /\ Return(w)
    /\ UNCHANGED <<now, issued, blocked, phase, lockedIPs, reads, hits, promised>>

UnavailableUpdateNone(w) ==
    /\ pc[w] = "unavailable_update"
    /\ DbFaults \/ row[job[w].e].gen # job[w].gen
    /\ Return(w)
    /\ UNCHANGED <<now, db, phase, lists, caches, reads, history>>

-----------------------------------------------------------------------------
(* RecordFailure: every database error but the first read's is ignored,    *)
(* and that one is taken for "no row yet".                                 *)

BeginFailure(w, e) ==
    /\ blocked[IpOf[e]].count < MaxCount
    /\ Lock(w, "failure", Operand(e, 0))
    /\ UNCHANGED <<now, db, phase, lists, caches, reads, history>>

FailureLoad(w) ==
    LET ip == IpOf[job[w].e]
    IN  /\ pc[w] = "failure"
        /\ \E b \in {blocked[ip]} \cup (IF DbFaults THEN {NoBlock} ELSE {}) :
             IF b.count + 1 >= LockThreshold
             THEN Learn(w, "failure_quarantine",
                        Locals(job[w].e, 0, b.count + 1, now + LockDuration, {}))
             ELSE Learn(w, "failure_save",
                        Locals(job[w].e, 0, b.count + 1, b.until, {}))
        /\ UNCHANGED <<now, db, phase, lists, caches, reads, history>>

FailureQuarantine(w) ==
    LET ip == IpOf[job[w].e]
    IN  /\ pc[w] = "failure_quarantine"
        /\ lockedIPs' = [lockedIPs EXCEPT ![ip] = job[w].until]
        /\ \/ row' = [e \in Endpoint |->
                        IF IpOf[e] = ip /\ row[e].gen # 0
                        THEN Suspended(row[e]) ELSE row[e]]
           \/ DbFaults /\ UNCHANGED row
        /\ Step(w, "failure_save")
        /\ UNCHANGED <<now, issued, blocked, phase, lists, retryAfter, reads, history>>

\* Mutant: only the failing URI leaves the pool, not the other ports of the IP.
SaveRemovingOnePort(w) ==
    LET ip == IpOf[job[w].e]
        locked == job[w].cnt >= LockThreshold
    IN  /\ pc[w] = "failure_save"
        /\ IF locked THEN RemoveEndpoints({job[w].e}) ELSE UNCHANGED lists
        /\ \/ blocked' = [blocked EXCEPT ![ip] = [count |-> job[w].cnt,
                                                  until |-> job[w].until]]
           \/ DbFaults /\ UNCHANGED blocked
        /\ hits' = [hits EXCEPT ![ip] = IF @ < MaxCount THEN @ + 1 ELSE @]
        /\ promised' = [promised EXCEPT ![ip] = IF locked THEN job[w].until ELSE @]
        /\ Return(w)
        /\ UNCHANGED <<now, row, issued, phase, caches, reads, streak>>

FailureSave(w) ==
    LET ip == IpOf[job[w].e]
        locked == job[w].cnt >= LockThreshold
    IN  /\ pc[w] = "failure_save"
        /\ IF locked THEN RemoveIP(ip) ELSE UNCHANGED lists
        /\ \/ blocked' = [blocked EXCEPT ![ip] = [count |-> job[w].cnt,
                                                  until |-> job[w].until]]
           \/ DbFaults /\ UNCHANGED blocked
        /\ hits' = [hits EXCEPT ![ip] = IF @ < MaxCount THEN @ + 1 ELSE @]
        /\ promised' = [promised EXCEPT ![ip] = IF locked THEN job[w].until ELSE @]
        /\ Return(w)
        /\ UNCHANGED <<now, row, issued, phase, caches, reads, streak>>

-----------------------------------------------------------------------------
(* CleanupStaleProxies *)

BeginCleanup(w) ==
    /\ Lock(w, "cleanup", NoJob)
    /\ UNCHANGED <<now, db, phase, lists, caches, reads, history>>

CleanupSelect(w) ==
    LET cutoff == now - StaleAfter
        stale == {e \in Endpoint : Stale(e, cutoff)}
    IN  /\ pc[w] = "cleanup"
        /\ stale # {}
        /\ Learn(w, "cleanup_delete", Locals(NoEndpoint, 0, 0, cutoff, stale))
        /\ UNCHANGED <<now, db, phase, lists, caches, reads, history>>

\* Nothing is stale, or the SELECT failed and its empty result is believed.
CleanupSelectNone(w) ==
    /\ pc[w] = "cleanup"
    /\ DbFaults \/ \A e \in Endpoint : ~Stale(e, now - StaleAfter)
    /\ Return(w)
    /\ UNCHANGED <<now, db, phase, lists, caches, reads, history>>

CleanupDelete(w) ==
    /\ pc[w] = "cleanup_delete"
    /\ row' = [e \in Endpoint |-> IF Stale(e, job[w].until) THEN NoRow ELSE row[e]]
    /\ Step(w, "cleanup_remove")
    /\ UNCHANGED <<now, issued, blocked, phase, lists, caches, reads, history>>

CleanupDeleteError(w) ==
    /\ DbFaults
    /\ pc[w] = "cleanup_delete"
    /\ Return(w)
    /\ UNCHANGED <<now, db, phase, lists, caches, reads, history>>

\* Mutant: the rows are deleted and memory is not told.
CleanupForgettingMemory(w) ==
    /\ pc[w] = "cleanup_remove"
    /\ Return(w)
    /\ UNCHANGED <<now, db, phase, lists, caches, reads, history>>

CleanupRemove(w) ==
    /\ pc[w] = "cleanup_remove"
    /\ RemoveEndpoints(job[w].stale)
    /\ Return(w)
    /\ UNCHANGED <<now, db, phase, caches, reads, history>>

-----------------------------------------------------------------------------
(* The lock-free readers.  A reader that finds an expired value deletes    *)
(* the key, not the value it read.  Any number of readers may be between   *)
(* the Load and the Delete of one key, so the Delete may leave others.     *)

IsIPLockedExpired(ip) ==
    /\ phase = "up"
    /\ lockedIPs[ip] # 0
    /\ now >= lockedIPs[ip]
    /\ IF RacyReads
       THEN lockReads' = lockReads \cup {ip} /\ UNCHANGED lockedIPs
       ELSE lockedIPs' = [lockedIPs EXCEPT ![ip] = 0] /\ UNCHANGED lockReads
    /\ UNCHANGED <<now, db, phase, lists, retryAfter, dueReads, threads, history>>

IsIPLockedDelete(ip) ==
    /\ ip \in lockReads
    /\ lockedIPs' = [lockedIPs EXCEPT ![ip] = 0]
    /\ lockReads' \in {lockReads, lockReads \ {ip}}
    /\ UNCHANGED <<now, db, phase, lists, retryAfter, dueReads, threads, history>>

IsProxyValidationDueExpired(e) ==
    /\ phase = "up"
    /\ retryAfter[e] # 0
    /\ now >= retryAfter[e]
    /\ IF RacyReads
       THEN dueReads' = dueReads \cup {e} /\ UNCHANGED retryAfter
       ELSE retryAfter' = [retryAfter EXCEPT ![e] = 0] /\ UNCHANGED dueReads
    /\ UNCHANGED <<now, db, phase, lists, lockedIPs, lockReads, threads, history>>

IsProxyValidationDueDelete(e) ==
    /\ e \in dueReads
    /\ retryAfter' = [retryAfter EXCEPT ![e] = 0]
    /\ dueReads' \in {dueReads, dueReads \ {e}}
    /\ UNCHANGED <<now, db, phase, lists, lockedIPs, lockReads, threads, history>>

-----------------------------------------------------------------------------
(* The process dies at any point, and starts again from the database.      *)

Crash ==
    /\ phase # "down"
    /\ phase' = "down"
    /\ pl' = [e \in Endpoint |-> NoEntry]
    /\ index' = {}
    /\ lockedIPs' = [ip \in IP |-> 0]
    /\ retryAfter' = [e \in Endpoint |-> 0]
    /\ lockReads' = {} /\ dueReads' = {}
    /\ mu' = Free
    /\ pc' = [w \in Worker |-> "idle"]
    /\ job' = [w \in Worker |-> NoJob]
    /\ UNCHANGED <<now, db, history>>

\* Mutants of load: quarantined rows come back too, or their delays do not.
LoadEveryRow ==
    LET restored == {e \in Endpoint : row[e].gen # 0 /\ ~LockInDB(IpOf[e])}
    IN  /\ phase = "down"
        /\ phase' = "loaded"
        /\ pl' = [e \in Endpoint |-> IF e \in restored
                                     THEN [copies |-> 1, gen |-> row[e].gen]
                                     ELSE NoEntry]
        /\ index' = restored
        /\ UNCHANGED <<now, db, caches, reads, threads, history>>

LoadWithoutDelays ==
    LET restored == {e \in Endpoint : row[e].gen # 0 /\ row[e].available
                                        /\ ~LockInDB(IpOf[e])}
    IN  /\ phase = "down"
        /\ phase' = "loaded"
        /\ pl' = [e \in Endpoint |-> IF e \in restored
                                     THEN [copies |-> 1, gen |-> row[e].gen]
                                     ELSE NoEntry]
        /\ index' = restored
        /\ UNCHANGED <<now, db, caches, reads, threads, history>>

\* NewMemCache: load
Load ==
    LET restored == {e \in Endpoint : row[e].gen # 0 /\ row[e].available
                                        /\ ~LockInDB(IpOf[e])}
    IN  /\ phase = "down"
        /\ phase' = "loaded"
        /\ pl' = [e \in Endpoint |-> IF e \in restored
                                     THEN [copies |-> 1, gen |-> row[e].gen]
                                     ELSE NoEntry]
        /\ index' = restored
        /\ retryAfter' = [e \in Endpoint |->
                            IF row[e].gen # 0 /\ ~row[e].available /\ row[e].next > now
                            THEN row[e].next ELSE 0]
        /\ UNCHANGED <<now, db, lockedIPs, reads, threads, history>>

\* crawler.Init, before any goroutine that calls the cache is started
LoadLockedIPs ==
    /\ phase = "loaded"
    /\ phase' = "up"
    /\ lockedIPs' = [ip \in IP |-> IF LockInDB(ip) THEN blocked[ip].until ELSE 0]
    /\ UNCHANGED <<now, db, lists, retryAfter, reads, threads, history>>

-----------------------------------------------------------------------------
Upsert(w)  == \/ \E e \in Endpoint : BeginUpsert(w, e)
              \/ UpsertCheck(w) \/ UpsertSave(w) \/ UpsertSaveError(w)
              \/ UpsertPublish(w)

Success(w) == \/ \E e \in Endpoint : \E g \in 1 .. issued[e] : BeginSuccess(w, e, g)
              \/ SuccessCheck(w) \/ SuccessUpdate(w) \/ SuccessUpdateNone(w)
              \/ SuccessPublish(w) \/ SuccessReloadError(w)

Failed(w)  == \/ \E e \in Endpoint : \E g \in 1 .. issued[e] : BeginFailed(w, e, g)
              \/ FailedLoad(w) \/ FailedLoadNone(w)
              \/ FailedUpdate(w) \/ FailedUpdateNone(w) \/ FailedRemove(w)

Unavailable(w) == \/ \E e \in Endpoint : BeginUnavailable(w, e)
                  \/ UnavailableLoad(w) \/ UnavailableNone(w)
                  \/ UnavailableUpdate(w) \/ UnavailableUpdateNone(w)

Failure(w) == \/ \E e \in Endpoint : BeginFailure(w, e)
              \/ FailureLoad(w) \/ FailureQuarantine(w) \/ FailureSave(w)

Cleanup(w) == \/ BeginCleanup(w)
              \/ CleanupSelect(w) \/ CleanupSelectNone(w)
              \/ CleanupDelete(w) \/ CleanupDeleteError(w) \/ CleanupRemove(w)

Readers == \/ \E ip \in IP : IsIPLockedExpired(ip) \/ IsIPLockedDelete(ip)
           \/ \E e \in Endpoint : \/ IsProxyValidationDueExpired(e)
                                  \/ IsProxyValidationDueDelete(e)

Process == Crash \/ Load \/ LoadLockedIPs

Next == \/ Tick
        \/ Process
        \/ Readers
        \/ \E w \in Worker : \/ Upsert(w) \/ Success(w) \/ Failed(w)
                             \/ Unavailable(w) \/ Failure(w) \/ Cleanup(w)

Spec == Init /\ [][Next]_vars
-----------------------------------------------------------------------------
(* Properties. *)

\* Every variable has its type; the history counters follow the bounds.
TypeOK ==
    /\ now \in 1 .. MaxTime
    /\ row \in [Endpoint -> Rows]
    /\ issued \in [Endpoint -> Nat]
    /\ blocked \in [IP -> Blocks]
    /\ phase \in {"down", "loaded", "up"}
    /\ pl \in [Endpoint -> Entries]
    /\ index \in SUBSET Endpoint
    /\ lockedIPs \in [IP -> Nat]
    /\ retryAfter \in [Endpoint -> Nat]
    /\ lockReads \in SUBSET IP
    /\ dueReads \in SUBSET Endpoint
    /\ mu \in Worker \cup {Free}
    /\ pc \in [Worker -> Labels]
    /\ job \in [Worker -> Jobs]
    /\ streak \in [Endpoint -> Nat]
    /\ hits \in [IP -> Nat]
    /\ promised \in [IP -> Nat]

\* Goroutine w has changed the tables or the caches and will remove e from the
\* pool before it returns.
Removing(w, e) ==
    \/ pc[w] = "failed_remove" /\ job[w].e = e
    \/ pc[w] = "failure_save" /\ job[w].cnt >= LockThreshold
                              /\ IpOf[job[w].e] = IpOf[e]
    \/ pc[w] = "cleanup_remove" /\ e \in job[w].stale

BeingRemoved(e) == \E w \in Worker : Removing(w, e)

Live(e) == pl[e].copies > 0

\* Whatever goroutines, database errors and crashes do, the pool serves an
\* endpoint only while its own row (same id) says it is available, or the
\* operation that changed the row is about to remove it.
PoolBackedByRow ==
    \A e \in Endpoint :
        Live(e) => \/ row[e].available /\ row[e].gen = pl[e].gen
                   \/ BeingRemoved(e)

\* proxies.index names exactly the endpoints of proxies.pl, and no endpoint is
\* in the list twice, however insertions, reloads and removals interleave.
IndexMatchesPool ==
    /\ index = {e \in Endpoint : Live(e)}
    /\ \A e \in Endpoint : pl[e].copies <= 1

\* While memory holds a lock on an IP none of its endpoints is served, on any
\* port, except by a RecordFailure that has yet to sweep them out.
LockedNotServed ==
    \A e \in Endpoint : Live(e) /\ Locked(IpOf[e]) => BeingRemoved(e)

\* An endpoint that failed since its last success is not served, a restart
\* included; neither is one that waits for its retry delay.
FailedNotServed ==
    \A e \in Endpoint :
        Live(e) /\ (streak[e] > 0 \/ now < retryAfter[e]) => BeingRemoved(e)

\* consecutive_failures counts every failure since the last success: none is
\* lost when several goroutines report at once, or when a statement fails.
FailuresExact ==
    \A e \in Endpoint : row[e].gen # 0 => row[e].failures = streak[e]

\* The same for the failures of an IP (when no database write fails).
HitsExact == \A ip \in IP : blocked[ip].count = hits[ip]

\* A lock RecordFailure reported is kept until it ends: no endpoint of the IP
\* is served before, whatever succeeds or restarts in between.
PromisedLockKept ==
    \A e \in Endpoint : now < promised[IpOf[e]] => ~Live(e)

\* A persisted retry delay is enforced by memory, after a restart too, so that
\* a source which lists the endpoint again cannot have it retried early.
RetryDelayKept ==
    phase = "up" =>
        \A e \in Endpoint :
            row[e].gen # 0 /\ ~row[e].available /\ now < row[e].next
                => now < retryAfter[e]
=============================================================================
