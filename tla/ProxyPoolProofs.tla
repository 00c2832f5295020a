-------------------------- MODULE ProxyPoolProofs --------------------------
(***************************************************************************)
(* Theorems about ProxyPool, for any sets of endpoints, addresses and      *)
(* goroutines, with database errors, crashes and racing lock-free readers. *)
(*                                                                         *)
(* The argument: failureMu has one holder, so what an operation learnt     *)
(* (a row exists, an IP is not locked, a count) is still true when it acts *)
(* on it.  Knows writes down what is known at each statement; with it,     *)
(* each safety invariant is preserved by every step, and every step is a   *)
(* step of EndpointPool or one its callers cannot see.                     *)
(*                                                                         *)
(* Two promises hold only without some of the hazards the model has: a     *)
(* count per IP needs writes that succeed (~DbFaults), a delay readers     *)
(* that do not pause (~RacyReads), a reported lock needs both.  Their      *)
(* theorems assume so; the run pool_lock_race shows a reader undo a lock.  *)
(***************************************************************************)
EXTENDS ProxyPoolRefinement, TLAPS

\* failureMu is held by exactly the goroutine that is inside an operation, and
\* by nobody while the process is starting.
Mutex ==
    /\ \A w \in Worker : pc[w] # "idle" => mu = w
    /\ phase # "up" => mu = Free

Sweeping == {"cleanup", "cleanup_delete", "cleanup_remove"}

\* An operation on an endpoint has its operand.
Operands ==
    \A w \in Worker :
        /\ pc[w] \notin {"idle"} \cup Sweeping => job[w].e \in Endpoint
        /\ pc[w] \in {"failure_quarantine", "failure_save"} => job[w].until \in Nat

\* What the holder of failureMu knows before each statement.
Knows(w) ==
    LET e == job[w].e
    IN  /\ pc[w] \in {"upsert_save", "upsert_publish",
                      "success_update", "success_publish"} => ~Locked(IpOf[e])
        /\ pc[w] \in {"upsert_publish", "success_publish"} =>
             row[e].available /\ row[e].gen = job[w].gen
        /\ pc[w] \in {"failed_update", "unavailable_update"} =>
             job[w].cnt = row[e].failures + 1 /\ row[e].gen # 0
        /\ pc[w] \in {"success", "success_update", "failed"} => job[w].gen # 0
        /\ pc[w] = "failure_quarantine" => job[w].cnt >= LockThreshold
        /\ pc[w] = "cleanup_delete" =>
             \A s \in Endpoint : Stale(s, job[w].until) <=> s \in job[w].stale

AtLabel == \A w \in Worker : Knows(w)

\* An available row exists and has no failures.
AvailableClean ==
    \A e \in Endpoint :
        row[e].available => row[e].gen # 0 /\ row[e].failures = 0

\* What makes an endpoint fit to be served; the pool holds only such endpoints
\* and the ones its holder of failureMu is about to take off.
Fit(e) ==
    /\ row[e].available
    /\ row[e].gen = pl[e].gen
    /\ retryAfter[e] = 0
    /\ ~Locked(IpOf[e])

ServedFit == \A e \in Endpoint : Live(e) => Fit(e) \/ BeingRemoved(e)

\* Before load memory is empty, before LoadLockedIPs it holds no lock, and what
\* load restored is not locked in the database.
Starting ==
    /\ phase = "down" => \A e \in Endpoint : ~Live(e) /\ retryAfter[e] = 0
    /\ phase # "up" => \A ip \in IP : lockedIPs[ip] = 0
    /\ phase = "loaded" => \A e \in Endpoint : Live(e) => ~LockInDB(IpOf[e])

TypeInv == TypeOK /\ Mutex /\ Operands

IInv ==
    /\ TypeInv
    /\ IndexMatchesPool
    /\ AtLabel
    /\ AvailableClean
    /\ FailuresExact
    /\ ServedFit
    /\ Starting
-----------------------------------------------------------------------------
\* retryBackoffForFailure always finds an entry of the table.
LEMMA RetryBackoffType ==
    ASSUME NEW n \in Nat PROVE RetryBackoff(n) \in Nat
BY LimitsAssumption DEF RetryBackoff

LEMMA EmptyTypes ==
    NoRow \in Rows /\ NoBlock \in Blocks /\ NoEntry \in Entries /\ NoJob \in Jobs
BY DEF NoRow, NoBlock, NoEntry, NoJob, Operand, Locals, Rows, Blocks, Entries, Jobs

\* The statements that rewrite a row write a row; the columns of a row.
LEMMA RowTypes ==
    /\ \A r \in Rows : /\ Suspended(r) \in Rows
                       /\ r.gen \in Nat /\ r.failures \in Nat /\ r.next \in Nat
    /\ now \in Nat => \A g \in Nat : Healthy(g) \in Rows
    /\ now \in Nat => \A g, n \in Nat : Quarantined(g, n) \in Rows
<1>1. \A r \in Rows : /\ Suspended(r) \in Rows
                      /\ r.gen \in Nat /\ r.failures \in Nat /\ r.next \in Nat
  BY DEF Rows, Suspended
<1>2. now \in Nat => \A g \in Nat : Healthy(g) \in Rows
  BY DEF Rows, Healthy
<1>3. now \in Nat => \A g, n \in Nat : Quarantined(g, n) \in Rows
  BY RetryBackoffType DEF Rows, Quarantined
<1> QED
  BY <1>1, <1>2, <1>3

LEMMA BlockTypes ==
    /\ \A b \in Blocks : b.count \in Nat /\ b.until \in Nat
    /\ \A n, t \in Nat : [count |-> n, until |-> t] \in Blocks
BY DEF Blocks

LEMMA EntryTypes ==
    /\ \A x \in Entries : x.copies \in Nat /\ x.gen \in Nat
    /\ \A n, g \in Nat : [copies |-> n, gen |-> g] \in Entries
BY DEF Entries

\* The locals of a call, from their types and to their fields.
LEMMA JobTypes ==
    /\ \A j \in Jobs : /\ j.e \in Endpoint \cup {NoEndpoint}
                       /\ j.gen \in Nat /\ j.cnt \in Nat /\ j.until \in Int
                       /\ j.stale \in SUBSET Endpoint
    /\ \A e \in Endpoint, g \in Nat : Operand(e, g) \in Jobs
    /\ \A e \in Endpoint \cup {NoEndpoint}, g, n \in Nat, t \in Int,
          S \in SUBSET Endpoint : Locals(e, g, n, t, S) \in Jobs
BY DEF Jobs, Operand, Locals

LEMMA LocalsFields ==
    /\ \A e, g, n, t, S : LET j == Locals(e, g, n, t, S)
                          IN  /\ j.e = e /\ j.gen = g /\ j.cnt = n
                              /\ j.until = t /\ j.stale = S
    /\ \A e, g : Operand(e, g).e = e /\ Operand(e, g).gen = g
BY DEF Locals, Operand

LEMMA TypeOKStep == TypeInv /\ [Next]_vars => TypeOK'
<1> SUFFICES ASSUME TypeInv, [Next]_vars PROVE TypeOK'
  OBVIOUS
<1> USE NamesAssumption, EmptyTypes
    DEF TypeInv, TypeOK, Operands, Labels, Sweeping, db, lists, caches,
        reads, threads, history
<1>1. ASSUME NEW w \in Worker, NEW e \in Endpoint, BeginUpsert(w, e) PROVE TypeOK'
  BY <1>1, JobTypes DEF BeginUpsert, Lock
<1>2. ASSUME NEW w \in Worker, UpsertCheck(w) PROVE TypeOK'
  BY <1>2, IpOfAssumption DEF UpsertCheck, DropExpiredLock, Step, Return
<1>3. ASSUME NEW w \in Worker, UpsertSave(w) PROVE TypeOK'
  <2> DEFINE e == job[w].e
             g == IF row[e].gen # 0 THEN row[e].gen ELSE issued[e] + 1
  <2>1. e \in Endpoint
    BY <1>3 DEF UpsertSave
  <2>2. g \in Nat /\ now \in Nat
    BY <2>1, RowTypes
  <2>3. Healthy(g) \in Rows /\ Operand(e, g) \in Jobs
    BY <2>1, <2>2, RowTypes, JobTypes
  <2> HIDE DEF g
  <2>4. issued' \in [Endpoint -> Nat]
    BY <1>3, <2>1, <2>2 DEF UpsertSave, g
  <2>5. row' = [row EXCEPT ![e] = Healthy(g)] /\ job' = [job EXCEPT ![w] = Operand(e, g)]
    BY <1>3 DEF UpsertSave, Learn, g
  <2> QED
    BY <1>3, <2>1, <2>3, <2>4, <2>5 DEF UpsertSave, Learn
<1>4. ASSUME NEW w \in Worker, UpsertSaveError(w) PROVE TypeOK'
  BY <1>4 DEF UpsertSaveError, Return
<1>5. ASSUME NEW w \in Worker, UpsertPublish(w) PROVE TypeOK'
  <2>1. job[w].e \in Endpoint /\ [copies |-> 1, gen |-> job[w].gen] \in Entries
    BY <1>5, JobTypes, EntryTypes DEF UpsertPublish
  <2>2. blocked' \in [IP -> Blocks] /\ hits' \in [IP -> Nat]
    BY <1>5 DEF UpsertPublish, ClearFailure
  <2> QED
    BY <1>5, <2>1, <2>2, IpOfAssumption DEF UpsertPublish, Return
<1>6. ASSUME NEW w \in Worker, NEW e \in Endpoint, NEW g \in 1 .. issued[e], BeginSuccess(w, e, g)
      PROVE  TypeOK'
  BY <1>6, JobTypes DEF BeginSuccess, Lock
<1>7. ASSUME NEW w \in Worker, SuccessCheck(w) PROVE TypeOK'
  BY <1>7, IpOfAssumption DEF SuccessCheck, DropExpiredLock, Step, Return
<1>8. ASSUME NEW w \in Worker, SuccessUpdate(w) PROVE TypeOK'
  BY <1>8, RowTypes DEF SuccessUpdate, Step
<1>9. ASSUME NEW w \in Worker, SuccessUpdateNone(w) PROVE TypeOK'
  BY <1>9 DEF SuccessUpdateNone, Return
<1>10. ASSUME NEW w \in Worker, SuccessPublish(w) PROVE TypeOK'
  <2>1. job[w].e \in Endpoint /\ [copies |-> 1, gen |-> job[w].gen] \in Entries
    BY <1>10, JobTypes, EntryTypes DEF SuccessPublish
  <2>2. blocked' \in [IP -> Blocks] /\ hits' \in [IP -> Nat]
    BY <1>10 DEF SuccessPublish, ClearFailure
  <2>3. pl' \in [Endpoint -> Entries] /\ index' \in SUBSET Endpoint
    BY <1>10, <2>1 DEF SuccessPublish
  <2> QED
    BY <1>10, <2>1, <2>2, <2>3, IpOfAssumption DEF SuccessPublish, Return
<1>11. ASSUME NEW w \in Worker, SuccessReloadError(w) PROVE TypeOK'
  BY <1>11 DEF SuccessReloadError, Return
<1>12. ASSUME NEW w \in Worker, NEW e \in Endpoint, NEW g \in 1 .. issued[e], BeginFailed(w, e, g)
       PROVE  TypeOK'
  BY <1>12, JobTypes DEF BeginFailed, Lock
<1>13. ASSUME NEW w \in Worker, FailedLoad(w) PROVE TypeOK'
  <2>1. job[w].e \in Endpoint
    BY <1>13 DEF FailedLoad
  <2>2. row[job[w].e].gen \in Nat /\ row[job[w].e].failures + 1 \in Nat
    BY <2>1, RowTypes
  <2>3. Locals(job[w].e, row[job[w].e].gen, row[job[w].e].failures + 1, 0, {}) \in Jobs
    BY <2>1, <2>2, JobTypes
  <2> QED
    BY <1>13, <2>3 DEF FailedLoad, Learn
<1>14. ASSUME NEW w \in Worker, FailedLoadNone(w) PROVE TypeOK'
  BY <1>14 DEF FailedLoadNone, Return
<1>15. ASSUME NEW w \in Worker, FailedUpdate(w) PROVE TypeOK'
  <2>1. job[w].e \in Endpoint
    BY <1>15 DEF FailedUpdate
  <2>2. /\ Quarantined(row[job[w].e].gen, job[w].cnt) \in Rows
        /\ now + RetryBackoff(job[w].cnt) \in Nat
    BY <2>1, RowTypes, JobTypes, RetryBackoffType
  <2> QED
    BY <1>15, <2>1, <2>2 DEF FailedUpdate, Quarantine, Step
<1>16. ASSUME NEW w \in Worker, FailedUpdateNone(w) PROVE TypeOK'
  BY <1>16 DEF FailedUpdateNone, Return
<1>17. ASSUME NEW w \in Worker, FailedRemove(w) PROVE TypeOK'
  BY <1>17 DEF FailedRemove, RemoveEndpoints, Return
<1>18. ASSUME NEW w \in Worker, NEW e \in Endpoint, BeginUnavailable(w, e) PROVE TypeOK'
  BY <1>18, JobTypes DEF BeginUnavailable, Lock
<1>19. ASSUME NEW w \in Worker, UnavailableLoad(w) PROVE TypeOK'
  <2>1. job[w].e \in Endpoint
    BY <1>19 DEF UnavailableLoad
  <2>2. pl[job[w].e].gen \in Nat /\ row[job[w].e].failures + 1 \in Nat
    BY <2>1, RowTypes, EntryTypes
  <2>3. Locals(job[w].e, pl[job[w].e].gen, row[job[w].e].failures + 1, 0, {}) \in Jobs
    BY <2>1, <2>2, JobTypes
  <2> QED
    BY <1>19, <2>3 DEF UnavailableLoad, Learn
<1>20. ASSUME NEW w \in Worker, UnavailableNone(w) PROVE TypeOK'
  BY <1>20 DEF UnavailableNone, Return
<1>21. ASSUME NEW w \in Worker, UnavailableUpdate(w) PROVE TypeOK'
  <2>1. job[w].e \in Endpoint
    BY <1>21 DEF UnavailableUpdate
  <2>2. /\ Quarantined(row[job[w].e].gen, job[w].cnt) \in Rows
        /\ now + RetryBackoff(job[w].cnt) \in Nat
    BY <2>1, RowTypes, JobTypes, RetryBackoffType
  <2>3. row' \in [Endpoint -> Rows] /\ retryAfter' \in [Endpoint -> Nat]
    BY <1>21, <2>1, <2>2 DEF UnavailableUpdate, Quarantine
  <2> QED
    BY <1>21, <2>1, <2>3 DEF UnavailableUpdate, Quarantine, RemoveEndpoints, Return
<1>22. ASSUME NEW w \in Worker, UnavailableUpdateNone(w) PROVE TypeOK'
  BY <1>22 DEF UnavailableUpdateNone, Return
<1>23. ASSUME NEW w \in Worker, NEW e \in Endpoint, BeginFailure(w, e) PROVE TypeOK'
  BY <1>23, JobTypes DEF BeginFailure, Lock
<1>24. ASSUME NEW w \in Worker, FailureLoad(w) PROVE TypeOK'
  <2> DEFINE ip == IpOf[job[w].e]
  <2>1. job[w].e \in Endpoint /\ ip \in IP /\ now \in Nat
    BY <1>24, IpOfAssumption DEF FailureLoad
  <2>2. \A b \in Blocks :
          /\ Locals(job[w].e, 0, b.count + 1, now + LockDuration, {}) \in Jobs
          /\ Locals(job[w].e, 0, b.count + 1, b.until, {}) \in Jobs
    <3> SUFFICES ASSUME NEW b \in Blocks
                 PROVE  /\ Locals(job[w].e, 0, b.count + 1, now + LockDuration, {}) \in Jobs
                        /\ Locals(job[w].e, 0, b.count + 1, b.until, {}) \in Jobs
      OBVIOUS
    <3>1. b.count + 1 \in Nat /\ b.until \in Int /\ now + LockDuration \in Int
      BY <2>1, BlockTypes, LimitsAssumption
    <3> QED
      BY <2>1, <3>1, JobTypes
  <2>3. PICK b \in Blocks :
          \/ Learn(w, "failure_quarantine",
                   Locals(job[w].e, 0, b.count + 1, now + LockDuration, {}))
          \/ Learn(w, "failure_save", Locals(job[w].e, 0, b.count + 1, b.until, {}))
    BY <1>24, <2>1 DEF FailureLoad
  <2>4. mu' = mu /\ pc' \in [Worker -> Labels] /\ job' \in [Worker -> Jobs]
    BY <2>2, <2>3 DEF Learn
  <2> QED
    BY <1>24, <2>4 DEF FailureLoad
<1>25. ASSUME NEW w \in Worker, FailureQuarantine(w) PROVE TypeOK'
  <2>1. job[w].e \in Endpoint /\ job[w].until \in Nat /\ IpOf[job[w].e] \in IP
    BY <1>25, IpOfAssumption DEF FailureQuarantine
  <2>2. row' \in [Endpoint -> Rows]
    BY <1>25, RowTypes DEF FailureQuarantine
  <2> QED
    BY <1>25, <2>1, <2>2 DEF FailureQuarantine, Step
<1>26. ASSUME NEW w \in Worker, FailureSave(w) PROVE TypeOK'
  <2>1. job[w].e \in Endpoint /\ job[w].until \in Nat /\ IpOf[job[w].e] \in IP
    BY <1>26, IpOfAssumption DEF FailureSave
  <2>2. [count |-> job[w].cnt, until |-> job[w].until] \in Blocks
    BY <2>1, JobTypes, BlockTypes
  <2>3. blocked' \in [IP -> Blocks]
    BY <1>26, <2>2 DEF FailureSave
  <2>4. pl' \in [Endpoint -> Entries] /\ index' \in SUBSET Endpoint
    BY <1>26 DEF FailureSave, RemoveIP, RemoveEndpoints
  <2>5. hits' \in [IP -> Nat] /\ promised' \in [IP -> Nat]
    BY <1>26, <2>1 DEF FailureSave
  <2> QED
    BY <1>26, <2>3, <2>4, <2>5 DEF FailureSave, Return
<1>27. ASSUME NEW w \in Worker, BeginCleanup(w) PROVE TypeOK'
  BY <1>27 DEF BeginCleanup, Lock
<1>28. ASSUME NEW w \in Worker, CleanupSelect(w) PROVE TypeOK'
  BY <1>28, LimitsAssumption, JobTypes DEF CleanupSelect, Learn
<1>29. ASSUME NEW w \in Worker, CleanupSelectNone(w) PROVE TypeOK'
  BY <1>29 DEF CleanupSelectNone, Return
<1>30. ASSUME NEW w \in Worker, CleanupDelete(w) PROVE TypeOK'
  BY <1>30 DEF CleanupDelete, Step
<1>31. ASSUME NEW w \in Worker, CleanupDeleteError(w) PROVE TypeOK'
  BY <1>31 DEF CleanupDeleteError, Return
<1>32. ASSUME NEW w \in Worker, CleanupRemove(w) PROVE TypeOK'
  BY <1>32 DEF CleanupRemove, RemoveEndpoints, Return
<1>33. CASE Tick
  BY <1>33, LimitsAssumption DEF Tick
<1>34. CASE Crash
  BY <1>34 DEF Crash
<1>35. CASE Load
  BY <1>35, RowTypes, EntryTypes DEF Load
<1>36. CASE LoadLockedIPs
  BY <1>36, BlockTypes DEF LoadLockedIPs
<1>37. ASSUME NEW ip \in IP, IsIPLockedExpired(ip) PROVE TypeOK'
  BY <1>37 DEF IsIPLockedExpired
<1>38. ASSUME NEW ip \in IP, IsIPLockedDelete(ip) PROVE TypeOK'
  BY <1>38 DEF IsIPLockedDelete
<1>39. ASSUME NEW e \in Endpoint, IsProxyValidationDueExpired(e) PROVE TypeOK'
  BY <1>39 DEF IsProxyValidationDueExpired
<1>40. ASSUME NEW e \in Endpoint, IsProxyValidationDueDelete(e) PROVE TypeOK'
  BY <1>40 DEF IsProxyValidationDueDelete
<1>41. CASE UNCHANGED vars
  BY <1>41 DEF vars
<1> QED
  BY <1>1, <1>2, <1>3, <1>4, <1>5, <1>6, <1>7, <1>8, <1>9, <1>10, <1>11, <1>12,
     <1>13, <1>14, <1>15, <1>16, <1>17, <1>18, <1>19, <1>20, <1>21, <1>22, <1>23,
     <1>24, <1>25, <1>26, <1>27, <1>28, <1>29, <1>30, <1>31, <1>32, <1>33, <1>34,
     <1>35, <1>36, <1>37, <1>38, <1>39, <1>40, <1>41
     DEF Next, Process, Readers, Upsert, Success, Failed, Unavailable, Failure, Cleanup

LEMMA ControlStep == TypeInv /\ [Next]_vars => Mutex' /\ Operands'
<1> SUFFICES ASSUME TypeInv, [Next]_vars PROVE Mutex' /\ Operands'
  OBVIOUS
<1> USE NamesAssumption
    DEF TypeInv, TypeOK, Mutex, Operands, Labels, Sweeping, threads
<1>1. ASSUME NEW w \in Worker, NEW e \in Endpoint, BeginUpsert(w, e)
      PROVE  Mutex' /\ Operands'
  BY <1>1, LocalsFields DEF BeginUpsert, Lock
<1>2. ASSUME NEW w \in Worker, UpsertCheck(w) PROVE Mutex' /\ Operands'
  BY <1>2 DEF UpsertCheck, DropExpiredLock, Step, Return
<1>3. ASSUME NEW w \in Worker, UpsertSave(w) PROVE Mutex' /\ Operands'
  BY <1>3, LocalsFields DEF UpsertSave, Learn
<1>4. ASSUME NEW w \in Worker, UpsertSaveError(w) PROVE Mutex' /\ Operands'
  BY <1>4 DEF UpsertSaveError, Return
<1>5. ASSUME NEW w \in Worker, UpsertPublish(w) PROVE Mutex' /\ Operands'
  BY <1>5 DEF UpsertPublish, ClearFailure, Return
<1>6. ASSUME NEW w \in Worker, NEW e \in Endpoint, NEW g \in 1 .. issued[e], BeginSuccess(w, e, g)
      PROVE  Mutex' /\ Operands'
  BY <1>6, LocalsFields DEF BeginSuccess, Lock
<1>7. ASSUME NEW w \in Worker, SuccessCheck(w) PROVE Mutex' /\ Operands'
  BY <1>7 DEF SuccessCheck, DropExpiredLock, Step, Return
<1>8. ASSUME NEW w \in Worker, SuccessUpdate(w) PROVE Mutex' /\ Operands'
  BY <1>8 DEF SuccessUpdate, Step
<1>9. ASSUME NEW w \in Worker, SuccessUpdateNone(w) PROVE Mutex' /\ Operands'
  BY <1>9 DEF SuccessUpdateNone, Return
<1>10. ASSUME NEW w \in Worker, SuccessPublish(w) PROVE Mutex' /\ Operands'
  BY <1>10 DEF SuccessPublish, ClearFailure, Return
<1>11. ASSUME NEW w \in Worker, SuccessReloadError(w) PROVE Mutex' /\ Operands'
  BY <1>11 DEF SuccessReloadError, Return
<1>12. ASSUME NEW w \in Worker, NEW e \in Endpoint, NEW g \in 1 .. issued[e], BeginFailed(w, e, g)
       PROVE  Mutex' /\ Operands'
  BY <1>12, LocalsFields DEF BeginFailed, Lock
<1>13. ASSUME NEW w \in Worker, FailedLoad(w) PROVE Mutex' /\ Operands'
  BY <1>13, LocalsFields DEF FailedLoad, Learn
<1>14. ASSUME NEW w \in Worker, FailedLoadNone(w) PROVE Mutex' /\ Operands'
  BY <1>14 DEF FailedLoadNone, Return
<1>15. ASSUME NEW w \in Worker, FailedUpdate(w) PROVE Mutex' /\ Operands'
  BY <1>15 DEF FailedUpdate, Quarantine, Step
<1>16. ASSUME NEW w \in Worker, FailedUpdateNone(w) PROVE Mutex' /\ Operands'
  BY <1>16 DEF FailedUpdateNone, Return
<1>17. ASSUME NEW w \in Worker, FailedRemove(w) PROVE Mutex' /\ Operands'
  BY <1>17 DEF FailedRemove, RemoveEndpoints, Return
<1>18. ASSUME NEW w \in Worker, NEW e \in Endpoint, BeginUnavailable(w, e)
       PROVE  Mutex' /\ Operands'
  BY <1>18, LocalsFields DEF BeginUnavailable, Lock
<1>19. ASSUME NEW w \in Worker, UnavailableLoad(w) PROVE Mutex' /\ Operands'
  BY <1>19, LocalsFields DEF UnavailableLoad, Learn
<1>20. ASSUME NEW w \in Worker, UnavailableNone(w) PROVE Mutex' /\ Operands'
  BY <1>20 DEF UnavailableNone, Return
<1>21. ASSUME NEW w \in Worker, UnavailableUpdate(w) PROVE Mutex' /\ Operands'
  BY <1>21 DEF UnavailableUpdate, Quarantine, RemoveEndpoints, Return
<1>22. ASSUME NEW w \in Worker, UnavailableUpdateNone(w) PROVE Mutex' /\ Operands'
  BY <1>22 DEF UnavailableUpdateNone, Return
<1>23. ASSUME NEW w \in Worker, NEW e \in Endpoint, BeginFailure(w, e)
       PROVE  Mutex' /\ Operands'
  BY <1>23, LocalsFields DEF BeginFailure, Lock
<1>24. ASSUME NEW w \in Worker, FailureLoad(w) PROVE Mutex' /\ Operands'
  <2> DEFINE ip == IpOf[job[w].e]
  <2>1. job[w].e \in Endpoint /\ ip \in IP /\ now \in Nat /\ mu = w /\ phase = "up"
    BY <1>24, IpOfAssumption DEF FailureLoad
  <2>2. PICK b \in Blocks :
          \/ Learn(w, "failure_quarantine",
                   Locals(job[w].e, 0, b.count + 1, now + LockDuration, {}))
          \/ Learn(w, "failure_save", Locals(job[w].e, 0, b.count + 1, b.until, {}))
    BY <1>24, <2>1, EmptyTypes DEF FailureLoad
  <2>3. /\ mu' = mu
        /\ \A v \in Worker : v # w => pc'[v] = pc[v] /\ job'[v] = job[v]
        /\ \/ job'[w] = Locals(job[w].e, 0, b.count + 1, now + LockDuration, {})
           \/ job'[w] = Locals(job[w].e, 0, b.count + 1, b.until, {})
    BY <2>1, <2>2 DEF Learn
  <2>4. b.until \in Nat /\ now + LockDuration \in Nat
    BY <2>1, BlockTypes, LimitsAssumption
  <2>5. job'[w].e = job[w].e /\ job'[w].until \in {b.until, now + LockDuration}
    BY <2>3, LocalsFields
  <2>6. job'[w].until \in Nat
    BY <2>4, <2>5
  <2> QED
    BY <1>24, <2>1, <2>3, <2>5, <2>6 DEF FailureLoad
<1>25. ASSUME NEW w \in Worker, FailureQuarantine(w) PROVE Mutex' /\ Operands'
  BY <1>25 DEF FailureQuarantine, Step
<1>26. ASSUME NEW w \in Worker, FailureSave(w) PROVE Mutex' /\ Operands'
  BY <1>26 DEF FailureSave, RemoveIP, RemoveEndpoints, Return
<1>27. ASSUME NEW w \in Worker, BeginCleanup(w) PROVE Mutex' /\ Operands'
  BY <1>27 DEF BeginCleanup, Lock
<1>28. ASSUME NEW w \in Worker, CleanupSelect(w) PROVE Mutex' /\ Operands'
  BY <1>28 DEF CleanupSelect, Learn
<1>29. ASSUME NEW w \in Worker, CleanupSelectNone(w) PROVE Mutex' /\ Operands'
  BY <1>29 DEF CleanupSelectNone, Return
<1>30. ASSUME NEW w \in Worker, CleanupDelete(w) PROVE Mutex' /\ Operands'
  BY <1>30 DEF CleanupDelete, Step
<1>31. ASSUME NEW w \in Worker, CleanupDeleteError(w) PROVE Mutex' /\ Operands'
  BY <1>31 DEF CleanupDeleteError, Return
<1>32. ASSUME NEW w \in Worker, CleanupRemove(w) PROVE Mutex' /\ Operands'
  BY <1>32 DEF CleanupRemove, RemoveEndpoints, Return
<1>33. CASE Tick
  BY <1>33 DEF Tick
<1>34. CASE Crash
  BY <1>34 DEF Crash
<1>35. CASE Load
  BY <1>35 DEF Load
<1>36. CASE LoadLockedIPs
  BY <1>36 DEF LoadLockedIPs
<1>37. ASSUME NEW ip \in IP, IsIPLockedExpired(ip) PROVE Mutex' /\ Operands'
  BY <1>37 DEF IsIPLockedExpired
<1>38. ASSUME NEW ip \in IP, IsIPLockedDelete(ip) PROVE Mutex' /\ Operands'
  BY <1>38 DEF IsIPLockedDelete
<1>39. ASSUME NEW e \in Endpoint, IsProxyValidationDueExpired(e) PROVE Mutex' /\ Operands'
  BY <1>39 DEF IsProxyValidationDueExpired
<1>40. ASSUME NEW e \in Endpoint, IsProxyValidationDueDelete(e) PROVE Mutex' /\ Operands'
  BY <1>40 DEF IsProxyValidationDueDelete
<1>41. CASE UNCHANGED vars
  BY <1>41 DEF vars
<1> QED
  BY <1>1, <1>2, <1>3, <1>4, <1>5, <1>6, <1>7, <1>8, <1>9, <1>10, <1>11, <1>12,
     <1>13, <1>14, <1>15, <1>16, <1>17, <1>18, <1>19, <1>20, <1>21, <1>22, <1>23,
     <1>24, <1>25, <1>26, <1>27, <1>28, <1>29, <1>30, <1>31, <1>32, <1>33, <1>34,
     <1>35, <1>36, <1>37, <1>38, <1>39, <1>40, <1>41
     DEF Next, Process, Readers, Upsert, Success, Failed, Unavailable, Failure, Cleanup

LEMMA TypeInvInit == Init => TypeInv
BY NamesAssumption, LimitsAssumption, EmptyTypes
   DEF Init, TypeInv, TypeOK, Mutex, Operands, Labels

LEMMA TypeInvStep == TypeInv /\ [Next]_vars => TypeInv'
BY TypeOKStep, ControlStep DEF TypeInv

\* Type correctness: every reachable state of every instance is well typed.
THEOREM TypeCorrect == Spec => []TypeOK
<1>1. Init => TypeInv
  BY TypeInvInit
<1>2. TypeInv /\ [Next]_vars => TypeInv'
  BY TypeInvStep
<1>3. TypeInv => TypeOK
  BY DEF TypeInv
<1> QED
  BY <1>1, <1>2, <1>3, PTL DEF Spec

-----------------------------------------------------------------------------
(* Who can change what.                                                     *)

\* The tables' verdict on an endpoint is written by six statements only.
LEMMA RowFrame ==
    ASSUME [Next]_vars
    PROVE  \/ UNCHANGED <<row, streak>>
           \/ \E w \in Worker : \/ UpsertSave(w) \/ SuccessUpdate(w) \/ FailedUpdate(w)
                                \/ UnavailableUpdate(w) \/ FailureQuarantine(w)
                                \/ CleanupDelete(w)
<1> USE DEF db, history
<1>1. CASE Tick \/ Process \/ Readers \/ UNCHANGED vars
  BY <1>1 DEF Tick, Process, Readers, Crash, Load, LoadLockedIPs, IsIPLockedExpired,
              IsIPLockedDelete, IsProxyValidationDueExpired, IsProxyValidationDueDelete,
              vars
<1>2. ASSUME NEW w \in Worker, Upsert(w) PROVE UNCHANGED <<row, streak>> \/ UpsertSave(w)
  BY <1>2 DEF Upsert, BeginUpsert, UpsertCheck, UpsertSaveError, UpsertPublish
<1>3. ASSUME NEW w \in Worker, Success(w)
      PROVE  UNCHANGED <<row, streak>> \/ SuccessUpdate(w)
  BY <1>3 DEF Success, BeginSuccess, SuccessCheck, SuccessUpdateNone, SuccessPublish,
              SuccessReloadError
<1>4. ASSUME NEW w \in Worker, Failed(w) PROVE UNCHANGED <<row, streak>> \/ FailedUpdate(w)
  BY <1>4 DEF Failed, BeginFailed, FailedLoad, FailedLoadNone, FailedUpdateNone, FailedRemove
<1>5. ASSUME NEW w \in Worker, Unavailable(w)
      PROVE  UNCHANGED <<row, streak>> \/ UnavailableUpdate(w)
  BY <1>5 DEF Unavailable, BeginUnavailable, UnavailableLoad, UnavailableNone,
              UnavailableUpdateNone
<1>6. ASSUME NEW w \in Worker, Failure(w)
      PROVE  UNCHANGED <<row, streak>> \/ FailureQuarantine(w)
  BY <1>6 DEF Failure, BeginFailure, FailureLoad, FailureSave
<1>7. ASSUME NEW w \in Worker, Cleanup(w) PROVE UNCHANGED <<row, streak>> \/ CleanupDelete(w)
  BY <1>7 DEF Cleanup, BeginCleanup, CleanupSelect, CleanupSelectNone, CleanupDeleteError,
              CleanupRemove
<1> QED
  BY <1>1, <1>2, <1>3, <1>4, <1>5, <1>6, <1>7 DEF Next

\* The pool is written by seven.
LEMMA ListFrame ==
    ASSUME [Next]_vars
    PROVE  \/ UNCHANGED lists
           \/ Crash \/ Load
           \/ \E w \in Worker : \/ UpsertPublish(w) \/ SuccessPublish(w)
                                \/ FailedRemove(w) \/ UnavailableUpdate(w)
                                \/ FailureSave(w) \/ CleanupRemove(w)
<1>1. CASE Tick \/ Process \/ Readers \/ UNCHANGED vars
  BY <1>1 DEF Tick, Process, Readers, LoadLockedIPs, IsIPLockedExpired, IsIPLockedDelete,
              IsProxyValidationDueExpired, IsProxyValidationDueDelete, vars
<1>2. ASSUME NEW w \in Worker, Upsert(w) PROVE UNCHANGED lists \/ UpsertPublish(w)
  BY <1>2 DEF Upsert, BeginUpsert, UpsertCheck, UpsertSave, UpsertSaveError
<1>3. ASSUME NEW w \in Worker, Success(w) PROVE UNCHANGED lists \/ SuccessPublish(w)
  BY <1>3 DEF Success, BeginSuccess, SuccessCheck, SuccessUpdate, SuccessUpdateNone,
              SuccessReloadError
<1>4. ASSUME NEW w \in Worker, Failed(w) PROVE UNCHANGED lists \/ FailedRemove(w)
  BY <1>4 DEF Failed, BeginFailed, FailedLoad, FailedLoadNone, FailedUpdate, FailedUpdateNone
<1>5. ASSUME NEW w \in Worker, Unavailable(w) PROVE UNCHANGED lists \/ UnavailableUpdate(w)
  BY <1>5 DEF Unavailable, BeginUnavailable, UnavailableLoad, UnavailableNone,
              UnavailableUpdateNone
<1>6. ASSUME NEW w \in Worker, Failure(w) PROVE UNCHANGED lists \/ FailureSave(w)
  BY <1>6 DEF Failure, BeginFailure, FailureLoad, FailureQuarantine
<1>7. ASSUME NEW w \in Worker, Cleanup(w) PROVE UNCHANGED lists \/ CleanupRemove(w)
  BY <1>7 DEF Cleanup, BeginCleanup, CleanupSelect, CleanupSelectNone, CleanupDelete,
              CleanupDeleteError
<1> QED
  BY <1>1, <1>2, <1>3, <1>4, <1>5, <1>6, <1>7 DEF Next

-----------------------------------------------------------------------------
\* The list and its index change together.
LEMMA IndexStep == TypeInv /\ IndexMatchesPool /\ [Next]_vars => IndexMatchesPool'
<1> SUFFICES ASSUME TypeInv, IndexMatchesPool, [Next]_vars PROVE IndexMatchesPool'
  OBVIOUS
<1> USE DEF TypeInv, TypeOK, IndexMatchesPool, Live
<1>1. CASE UNCHANGED lists
  BY <1>1 DEF lists
<1>2. CASE Crash
  BY <1>2 DEF Crash, NoEntry
<1>3. CASE Load
  BY <1>3 DEF Load, NoEntry
<1>4. ASSUME NEW gone \in SUBSET Endpoint, RemoveEndpoints(gone)
      PROVE  IndexMatchesPool'
  BY <1>4 DEF RemoveEndpoints, NoEntry
<1>5. ASSUME NEW w \in Worker, UpsertPublish(w) \/ SuccessPublish(w)
      PROVE  IndexMatchesPool'
  <2>1. job[w].e \in Endpoint
    BY <1>5 DEF UpsertPublish, SuccessPublish, Operands, Sweeping
  <2>2. CASE UNCHANGED lists
    BY <2>2 DEF lists
  <2>3. CASE /\ pl' = [pl EXCEPT ![job[w].e] = [copies |-> 1, gen |-> job[w].gen]]
             /\ index' = index \cup {job[w].e}
    BY <2>1, <2>3
  <2> QED
    BY <1>5, <2>2, <2>3 DEF UpsertPublish, SuccessPublish
<1>6. ASSUME NEW w \in Worker, \/ FailedRemove(w) \/ UnavailableUpdate(w)
                               \/ FailureSave(w) \/ CleanupRemove(w)
      PROVE  IndexMatchesPool'
  <2>1. job[w].stale \in SUBSET Endpoint
    BY JobTypes
  <2>2. pc[w] \in {"failed_remove", "unavailable_update"} => {job[w].e} \in SUBSET Endpoint
    BY DEF Operands, Sweeping
  <2>3. UNCHANGED lists \/ \E gone \in SUBSET Endpoint : RemoveEndpoints(gone)
    BY <1>6, <2>1, <2>2 DEF FailedRemove, UnavailableUpdate, FailureSave, CleanupRemove,
                            RemoveIP
  <2> QED
    BY <1>1, <1>4, <2>3
<1> QED
  BY <1>1, <1>2, <1>3, <1>5, <1>6, ListFrame

\* Rows: available rows are clean, and the failure count is the true one.
LEMMA RowsStep ==
    TypeInv /\ AtLabel /\ AvailableClean /\ FailuresExact /\ [Next]_vars
        => AvailableClean' /\ FailuresExact'
<1> SUFFICES ASSUME TypeInv, AtLabel, AvailableClean, FailuresExact, [Next]_vars
             PROVE  AvailableClean' /\ FailuresExact'
  OBVIOUS
<1> USE DEF TypeInv, TypeOK, AvailableClean, FailuresExact
<1>1. CASE UNCHANGED <<row, streak>>
  BY <1>1
<1>2. ASSUME NEW w \in Worker, UpsertSave(w) PROVE AvailableClean' /\ FailuresExact'
  <2> DEFINE e == job[w].e
             g == IF row[e].gen # 0 THEN row[e].gen ELSE issued[e] + 1
  <2>1. e \in Endpoint
    BY <1>2 DEF UpsertSave, Operands, Sweeping
  <2>2. g # 0
    BY <2>1
  <2> QED
    BY <1>2, <2>1, <2>2 DEF UpsertSave, Healthy
<1>3. ASSUME NEW w \in Worker, SuccessUpdate(w) PROVE AvailableClean' /\ FailuresExact'
  <2>1. job[w].e \in Endpoint
    BY <1>3 DEF SuccessUpdate, Operands, Sweeping
  <2>2. row[job[w].e].gen # 0
    BY <1>3, <2>1 DEF SuccessUpdate, AtLabel, Knows
  <2> QED
    BY <1>3, <2>1, <2>2 DEF SuccessUpdate, Healthy
<1>4. ASSUME NEW w \in Worker, FailedUpdate(w) \/ UnavailableUpdate(w)
      PROVE  AvailableClean' /\ FailuresExact'
  <2>1. job[w].e \in Endpoint /\ pc[w] \in {"failed_update", "unavailable_update"}
    BY <1>4 DEF FailedUpdate, UnavailableUpdate, Operands, Sweeping
  <2>2. job[w].cnt = row[job[w].e].failures + 1 /\ row[job[w].e].gen # 0
    BY <2>1 DEF AtLabel, Knows
  <2>3. Quarantine(job[w].e, job[w].cnt)
    BY <1>4 DEF FailedUpdate, UnavailableUpdate
  <2> QED
    BY <2>1, <2>2, <2>3 DEF Quarantine, Quarantined
<1>5. ASSUME NEW w \in Worker, FailureQuarantine(w) PROVE AvailableClean' /\ FailuresExact'
  BY <1>5 DEF FailureQuarantine, Suspended, history
<1>6. ASSUME NEW w \in Worker, CleanupDelete(w) PROVE AvailableClean' /\ FailuresExact'
  BY <1>6 DEF CleanupDelete, NoRow, history
<1> QED
  BY <1>1, <1>2, <1>3, <1>4, <1>5, <1>6, RowFrame

-----------------------------------------------------------------------------
(* failureMu has one holder, so what it knows nobody else can spoil.        *)

\* While one goroutine is inside an operation all others are outside.
LEMMA OneInside ==
    ASSUME TypeInv, NEW w \in Worker, pc[w] # "idle"
    PROVE  mu = w /\ phase = "up" /\ \A v \in Worker : v # w => pc[v] = "idle"
BY NamesAssumption DEF TypeInv, TypeOK, Mutex

\* Nobody is inside when the mutex is free.
LEMMA NoneInside ==
    ASSUME TypeInv, mu = Free PROVE \A v \in Worker : pc[v] = "idle"
BY NamesAssumption DEF TypeInv, TypeOK, Mutex

\* Between removals, everything in the pool is fit to be served.
LEMMA SettledPool ==
    ASSUME TypeInv, ServedFit,
           \/ mu = Free
           \/ \E w \in Worker :
                pc[w] \notin {"idle", "failed_remove", "failure_save", "cleanup_remove"}
    PROVE  \A e \in Endpoint : Live(e) => Fit(e)
<1>1. \A e \in Endpoint : ~BeingRemoved(e)
  BY OneInside, NoneInside DEF BeingRemoved, Removing
<1> QED
  BY <1>1 DEF ServedFit

LEMMA AtLabelStep ==
    TypeInv /\ AtLabel /\ AvailableClean /\ ServedFit /\ [Next]_vars => AtLabel'
<1> SUFFICES ASSUME TypeInv, AtLabel, AvailableClean, ServedFit, [Next]_vars
             PROVE  AtLabel'
  OBVIOUS
<1>a. TypeOK'
  BY TypeOKStep
<1> USE DEF TypeInv, TypeOK
<1>1. ASSUME \A v \in Worker : pc'[v] = "idle" PROVE AtLabel'
  BY <1>1 DEF AtLabel, Knows
<1>2. ASSUME NEW w \in Worker, pc[w] # "idle", Return(w) PROVE AtLabel'
  BY <1>1, <1>2, OneInside DEF Return
\* A step inside an operation: only its own goroutine learns anything.
<1>3. ASSUME NEW w \in Worker, pc[w] # "idle",
             \A v \in Worker : v # w => pc'[v] = pc[v], Knows(w)'
      PROVE  AtLabel'
  <2>1. \A v \in Worker : v # w => pc'[v] = "idle"
    BY <1>3, OneInside
  <2>2. \A v \in Worker : v # w => Knows(v)'
    BY <2>1 DEF Knows
  <2> QED
    BY <1>3, <2>2 DEF AtLabel
<1>4. ASSUME NEW w \in Worker, NEW label, NEW j, Lock(w, label, j),
             \/ label \in {"upsert", "unavailable", "failure", "cleanup"}
             \/ label \in {"success", "failed"} /\ j.gen # 0
      PROVE  AtLabel'
  <2>1. \A v \in Worker : v # w => pc'[v] = "idle"
    BY <1>4, NoneInside DEF Lock
  <2>2. \A v \in Worker : v # w => Knows(v)'
    BY <2>1 DEF Knows
  <2>3. pc'[w] = label /\ job'[w] = j
    BY <1>4 DEF Lock
  <2>4. Knows(w)'
    BY <1>4, <2>3 DEF Knows
  <2> QED
    BY <2>2, <2>4 DEF AtLabel
<1>5. CASE UNCHANGED vars
  BY <1>5 DEF vars, db, caches, threads, AtLabel, Knows, Locked, Stale
<1>6. CASE Tick
  <2>1. UNCHANGED <<row, pc, job, lockedIPs>> /\ now' = now + 1 /\ now \in Nat
    BY <1>6 DEF Tick, db, caches, threads
  <2>2. \A ip \in IP : ~Locked(ip) => ~Locked(ip)'
    BY <2>1 DEF Locked
  <2>3. SUFFICES ASSUME NEW w \in Worker PROVE Knows(w)'
    BY DEF AtLabel
  <2>4. Knows(w)
    BY DEF AtLabel
  <2>5. pc[w] \in {"upsert_save", "upsert_publish", "success_update", "success_publish"}
          => IpOf[job[w].e] \in IP
    BY IpOfAssumption DEF Operands, Sweeping
  <2> QED
    BY <2>1, <2>2, <2>4, <2>5 DEF Knows, Stale
<1>7. CASE Process
  <2>1. \A v \in Worker : pc'[v] = "idle"
    BY <1>7, NoneInside DEF Process, Crash, Load, LoadLockedIPs, threads, Mutex
  <2> QED
    BY <1>1, <2>1
<1>8. CASE Readers
  <2>1. UNCHANGED <<now, row, pc, job>>
    BY <1>8 DEF Readers, IsIPLockedExpired, IsIPLockedDelete, IsProxyValidationDueExpired,
                IsProxyValidationDueDelete, db, threads
  <2>2. \A ip \in IP : lockedIPs'[ip] \in {0, lockedIPs[ip]}
    BY <1>8 DEF Readers, IsIPLockedExpired, IsIPLockedDelete, IsProxyValidationDueExpired,
                IsProxyValidationDueDelete
  <2>3. \A ip \in IP : ~Locked(ip) => ~Locked(ip)'
    BY <2>1, <2>2 DEF Locked
  <2>4. SUFFICES ASSUME NEW w \in Worker PROVE Knows(w)'
    BY DEF AtLabel
  <2>5. Knows(w)
    BY DEF AtLabel
  <2>6. pc[w] \in {"upsert_save", "upsert_publish", "success_update", "success_publish"}
          => IpOf[job[w].e] \in IP
    BY IpOfAssumption DEF Operands, Sweeping
  <2> QED
    BY <2>1, <2>3, <2>5, <2>6 DEF Knows, Stale
<1>9. ASSUME NEW w \in Worker, Upsert(w) PROVE AtLabel'
  <2>1. ASSUME NEW e \in Endpoint, BeginUpsert(w, e) PROVE AtLabel'
    BY <1>4, <2>1 DEF BeginUpsert
  <2>2. CASE UpsertCheck(w)
    <3>1. CASE Return(w)
      BY <1>2, <2>2, <3>1 DEF UpsertCheck
    <3>2. CASE ~Locked(IpOf[job[w].e]) /\ Step(w, "upsert_save")
      <4>1. job[w].e \in Endpoint /\ IpOf[job[w].e] \in IP
        BY <2>2, IpOfAssumption DEF UpsertCheck, Operands, Sweeping
      <4>2. Knows(w)'
        BY <2>2, <3>2, <4>1 DEF UpsertCheck, DropExpiredLock, Step, Knows, Locked
      <4> QED
        BY <1>3, <2>2, <3>2, <4>2 DEF UpsertCheck, Step
    <3> QED
      BY <2>2, <3>1, <3>2 DEF UpsertCheck
  <2>3. CASE UpsertSave(w)
    <3> DEFINE e == job[w].e
               g == IF row[e].gen # 0 THEN row[e].gen ELSE issued[e] + 1
    <3>1. e \in Endpoint /\ ~Locked(IpOf[e])
      BY <2>3 DEF UpsertSave, Operands, Sweeping, AtLabel, Knows
    <3> HIDE DEF g
    <3>2. /\ row' = [row EXCEPT ![e] = Healthy(g)]
          /\ job' = [job EXCEPT ![w] = Operand(e, g)]
          /\ pc' = [pc EXCEPT ![w] = "upsert_publish"]
          /\ UNCHANGED <<now, lockedIPs>>
      BY <2>3 DEF UpsertSave, Learn, caches, g
    <3>3. job'[w].e = e /\ job'[w].gen = g /\ pc'[w] = "upsert_publish"
      BY <3>2, LocalsFields
    <3>4. Knows(w)'
      BY <3>1, <3>2, <3>3 DEF Knows, Locked, Healthy
    <3> QED
      BY <1>3, <2>3, <3>2, <3>4 DEF UpsertSave
  <2>4. CASE UpsertSaveError(w) \/ UpsertPublish(w)
    BY <1>2, <2>4 DEF UpsertSaveError, UpsertPublish
  <2> QED
    BY <1>9, <2>1, <2>2, <2>3, <2>4 DEF Upsert
<1>10. ASSUME NEW w \in Worker, Success(w) PROVE AtLabel'
  <2>1. ASSUME NEW e \in Endpoint, NEW g \in 1 .. issued[e], BeginSuccess(w, e, g)
        PROVE  AtLabel'
    <3>1. Operand(e, g).gen # 0
      BY LocalsFields
    <3> QED
      BY <1>4, <2>1, <3>1 DEF BeginSuccess
  <2>2. CASE SuccessCheck(w)
    <3>1. CASE Return(w)
      BY <1>2, <2>2, <3>1 DEF SuccessCheck
    <3>2. CASE ~Locked(IpOf[job[w].e]) /\ Step(w, "success_update")
      <4>1. job[w].e \in Endpoint /\ IpOf[job[w].e] \in IP /\ job[w].gen # 0
        BY <2>2, IpOfAssumption DEF SuccessCheck, Operands, Sweeping, AtLabel, Knows
      <4>2. Knows(w)'
        BY <2>2, <3>2, <4>1 DEF SuccessCheck, DropExpiredLock, Step, Knows, Locked
      <4> QED
        BY <1>3, <2>2, <3>2, <4>2 DEF SuccessCheck, Step
    <3> QED
      BY <2>2, <3>1, <3>2 DEF SuccessCheck
  <2>3. CASE SuccessUpdate(w)
    <3>1. job[w].e \in Endpoint /\ ~Locked(IpOf[job[w].e])
      BY <2>3 DEF SuccessUpdate, Operands, Sweeping, AtLabel, Knows
    <3>2. Knows(w)'
      BY <2>3, <3>1 DEF SuccessUpdate, Step, Knows, Locked, Healthy, caches
    <3> QED
      BY <1>3, <2>3, <3>2 DEF SuccessUpdate, Step
  <2>4. CASE SuccessUpdateNone(w) \/ SuccessPublish(w) \/ SuccessReloadError(w)
    BY <1>2, <2>4 DEF SuccessUpdateNone, SuccessPublish, SuccessReloadError
  <2> QED
    BY <1>10, <2>1, <2>2, <2>3, <2>4 DEF Success
<1>11. ASSUME NEW w \in Worker, Failed(w) PROVE AtLabel'
  <2>1. ASSUME NEW e \in Endpoint, NEW g \in 1 .. issued[e], BeginFailed(w, e, g)
        PROVE  AtLabel'
    <3>1. Operand(e, g).gen # 0
      BY LocalsFields
    <3> QED
      BY <1>4, <2>1, <3>1 DEF BeginFailed
  <2>2. CASE FailedLoad(w)
    <3> DEFINE j == Locals(job[w].e, row[job[w].e].gen, row[job[w].e].failures + 1, 0, {})
    <3>1. row[job[w].e].gen # 0
      BY <2>2 DEF FailedLoad, AtLabel, Knows
    <3>2. pc'[w] = "failed_update" /\ job'[w] = j /\ row' = row
      BY <2>2 DEF FailedLoad, Learn, db
    <3>3. j.e = job[w].e /\ j.cnt = row[job[w].e].failures + 1
      BY LocalsFields
    <3> HIDE DEF j
    <3>4. Knows(w)'
      BY <3>1, <3>2, <3>3 DEF Knows
    <3> QED
      BY <1>3, <2>2, <3>4 DEF FailedLoad, Learn
  <2>3. CASE FailedUpdate(w)
    BY <1>3, <2>3 DEF FailedUpdate, Step, Knows
  <2>4. CASE FailedLoadNone(w) \/ FailedUpdateNone(w) \/ FailedRemove(w)
    BY <1>2, <2>4 DEF FailedLoadNone, FailedUpdateNone, FailedRemove
  <2> QED
    BY <1>11, <2>1, <2>2, <2>3, <2>4 DEF Failed
<1>12. ASSUME NEW w \in Worker, Unavailable(w) PROVE AtLabel'
  <2>1. ASSUME NEW e \in Endpoint, BeginUnavailable(w, e) PROVE AtLabel'
    BY <1>4, <2>1 DEF BeginUnavailable
  <2>2. CASE UnavailableLoad(w)
    <3> DEFINE j == Locals(job[w].e, pl[job[w].e].gen, row[job[w].e].failures + 1, 0, {})
    <3>1. job[w].e \in Endpoint /\ Fit(job[w].e)
      BY <2>2, SettledPool DEF UnavailableLoad, Operands, Sweeping, Live
    <3>2. row[job[w].e].gen # 0
      BY <3>1 DEF Fit, AvailableClean
    <3>3. pc'[w] = "unavailable_update" /\ job'[w] = j /\ row' = row
      BY <2>2 DEF UnavailableLoad, Learn, db
    <3>4. j.e = job[w].e /\ j.cnt = row[job[w].e].failures + 1
      BY LocalsFields
    <3> HIDE DEF j
    <3>5. Knows(w)'
      BY <3>2, <3>3, <3>4 DEF Knows
    <3> QED
      BY <1>3, <2>2, <3>5 DEF UnavailableLoad, Learn
  <2>3. CASE UnavailableNone(w) \/ UnavailableUpdate(w) \/ UnavailableUpdateNone(w)
    BY <1>2, <2>3 DEF UnavailableNone, UnavailableUpdate, UnavailableUpdateNone
  <2> QED
    BY <1>12, <2>1, <2>2, <2>3 DEF Unavailable
<1>13. ASSUME NEW w \in Worker, Failure(w) PROVE AtLabel'
  <2>1. ASSUME NEW e \in Endpoint, BeginFailure(w, e) PROVE AtLabel'
    BY <1>4, <2>1 DEF BeginFailure
  <2>2. CASE FailureLoad(w)
    <3>1. job[w].e \in Endpoint /\ IpOf[job[w].e] \in IP
      BY <2>2, IpOfAssumption DEF FailureLoad, Operands, Sweeping
    <3>1a. PICK b \in Blocks : \E t :
            \/ /\ b.count + 1 >= LockThreshold
               /\ Learn(w, "failure_quarantine", Locals(job[w].e, 0, b.count + 1, t, {}))
            \/ Learn(w, "failure_save", Locals(job[w].e, 0, b.count + 1, t, {}))
      BY <2>2, <3>1, EmptyTypes DEF FailureLoad
    <3>2. PICK t :
            \/ /\ b.count + 1 >= LockThreshold
               /\ Learn(w, "failure_quarantine", Locals(job[w].e, 0, b.count + 1, t, {}))
            \/ Learn(w, "failure_save", Locals(job[w].e, 0, b.count + 1, t, {}))
      BY <3>1a
    <3>3. pc[w] # "idle" /\ \A v \in Worker : v # w => pc'[v] = pc[v]
      BY <2>2, <3>2 DEF Learn, FailureLoad
    <3>4. CASE Learn(w, "failure_save", Locals(job[w].e, 0, b.count + 1, t, {}))
      BY <1>3, <3>3, <3>4 DEF Learn, Knows
    <3>5. ASSUME b.count + 1 >= LockThreshold,
                 Learn(w, "failure_quarantine", Locals(job[w].e, 0, b.count + 1, t, {}))
          PROVE  AtLabel'
      <4>1. pc'[w] = "failure_quarantine" /\ job'[w].cnt = b.count + 1
        BY <3>5, LocalsFields DEF Learn
      <4> QED
        BY <1>3, <3>3, <3>5, <4>1 DEF Knows
    <3> QED
      BY <3>2, <3>4, <3>5
  <2>3. CASE FailureQuarantine(w)
    BY <1>3, <2>3 DEF FailureQuarantine, Step, Knows
  <2>4. CASE FailureSave(w)
    BY <1>2, <2>4 DEF FailureSave
  <2> QED
    BY <1>13, <2>1, <2>2, <2>3, <2>4 DEF Failure
<1>14. ASSUME NEW w \in Worker, Cleanup(w) PROVE AtLabel'
  <2>1. CASE BeginCleanup(w)
    BY <1>4, <2>1 DEF BeginCleanup
  <2>2. CASE CleanupSelect(w)
    <3> DEFINE cutoff == now - StaleAfter
               stale == {e \in Endpoint : Stale(e, cutoff)}
    <3>1. /\ job'[w] = Locals(NoEndpoint, 0, 0, cutoff, stale)
          /\ pc'[w] = "cleanup_delete" /\ row' = row
          /\ \A v \in Worker : v # w => pc'[v] = pc[v]
      BY <2>2 DEF CleanupSelect, Learn, db
    <3>2. Knows(w)'
      BY <3>1, LocalsFields DEF Knows, Stale
    <3> QED
      BY <1>3, <2>2, <3>1, <3>2 DEF CleanupSelect
  <2>3. CASE CleanupDelete(w)
    BY <1>3, <2>3 DEF CleanupDelete, Step, Knows
  <2>4. CASE CleanupSelectNone(w) \/ CleanupDeleteError(w) \/ CleanupRemove(w)
    BY <1>2, <2>4 DEF CleanupSelectNone, CleanupDeleteError, CleanupRemove
  <2> QED
    BY <1>14, <2>1, <2>2, <2>3, <2>4 DEF Cleanup
<1> QED
  BY <1>5, <1>6, <1>7, <1>8, <1>9, <1>10, <1>11, <1>12, <1>13, <1>14 DEF Next

-----------------------------------------------------------------------------
(* Starting the process, and the pool.                                      *)

\* Operations run only when the process is up, and leave it up.
LEMMA WorkerUp ==
    ASSUME TypeInv, NEW w \in Worker,
           \/ Upsert(w) \/ Success(w) \/ Failed(w)
           \/ Unavailable(w) \/ Failure(w) \/ Cleanup(w)
    PROVE  phase = "up" /\ phase' = "up"
<1>1. CASE pc[w] = "idle"
  BY <1>1 DEF Upsert, Success, Failed, Unavailable, Failure, Cleanup, Lock,
              BeginUpsert, UpsertCheck, UpsertSave, UpsertSaveError, UpsertPublish,
              BeginSuccess, SuccessCheck, SuccessUpdate, SuccessUpdateNone,
              SuccessPublish, SuccessReloadError,
              BeginFailed, FailedLoad, FailedLoadNone, FailedUpdate, FailedUpdateNone,
              FailedRemove,
              BeginUnavailable, UnavailableLoad, UnavailableNone, UnavailableUpdate,
              UnavailableUpdateNone,
              BeginFailure, FailureLoad, FailureQuarantine, FailureSave,
              BeginCleanup, CleanupSelect, CleanupSelectNone, CleanupDelete,
              CleanupDeleteError, CleanupRemove
<1>2. CASE pc[w] # "idle"
  <2>1. phase = "up"
    BY <1>2, OneInside
  <2>2. phase' = phase
    BY DEF Upsert, Success, Failed, Unavailable, Failure, Cleanup,
           BeginUpsert, UpsertCheck, UpsertSave, UpsertSaveError, UpsertPublish,
           BeginSuccess, SuccessCheck, SuccessUpdate, SuccessUpdateNone,
           SuccessPublish, SuccessReloadError,
           BeginFailed, FailedLoad, FailedLoadNone, FailedUpdate, FailedUpdateNone,
           FailedRemove,
           BeginUnavailable, UnavailableLoad, UnavailableNone, UnavailableUpdate,
           UnavailableUpdateNone,
           BeginFailure, FailureLoad, FailureQuarantine, FailureSave,
           BeginCleanup, CleanupSelect, CleanupSelectNone, CleanupDelete,
           CleanupDeleteError, CleanupRemove
  <2> QED
    BY <2>1, <2>2
<1> QED
  BY <1>1, <1>2

LEMMA StartingStep == TypeInv /\ Starting /\ [Next]_vars => Starting'
<1> SUFFICES ASSUME TypeInv, Starting, [Next]_vars PROVE Starting'
  OBVIOUS
<1> USE DEF TypeInv, TypeOK, Starting, Live
<1>1. CASE UNCHANGED vars
  BY <1>1 DEF vars, db, lists, caches, LockInDB
<1>2. CASE Tick
  <2>1. /\ UNCHANGED <<blocked, phase, pl, lockedIPs, retryAfter>>
        /\ now' = now + 1 /\ now \in Nat
    BY <1>2 DEF Tick, db, lists, caches
  <2>2. \A ip \in IP : blocked[ip].until \in Nat
    BY BlockTypes
  <2>3. \A ip \in IP : ~LockInDB(ip) => ~LockInDB(ip)'
    BY <2>1, <2>2 DEF LockInDB
  <2> QED
    BY <2>1, <2>3, IpOfAssumption
<1>3. CASE Crash
  BY <1>3 DEF Crash, NoEntry
<1>4. CASE Load
  <2>1. /\ phase = "down" /\ phase' = "loaded" /\ UNCHANGED <<now, blocked, lockedIPs>>
        /\ \A e \in Endpoint : Live(e)' => ~LockInDB(IpOf[e])
    BY <1>4 DEF Load, NoEntry, db
  <2> QED
    BY <2>1 DEF LockInDB
<1>5. CASE LoadLockedIPs
  BY <1>5 DEF LoadLockedIPs
<1>6. CASE Readers
  <2>1. UNCHANGED <<now, blocked, phase, pl>>
    BY <1>6 DEF Readers, IsIPLockedExpired, IsIPLockedDelete, IsProxyValidationDueExpired,
                IsProxyValidationDueDelete, db, lists
  <2>2. /\ \A ip \in IP : lockedIPs'[ip] \in {0, lockedIPs[ip]}
        /\ \A e \in Endpoint : retryAfter'[e] \in {0, retryAfter[e]}
    BY <1>6 DEF Readers, IsIPLockedExpired, IsIPLockedDelete, IsProxyValidationDueExpired,
                IsProxyValidationDueDelete, caches
  <2> QED
    BY <2>1, <2>2 DEF LockInDB
<1>7. ASSUME NEW w \in Worker,
             \/ Upsert(w) \/ Success(w) \/ Failed(w)
             \/ Unavailable(w) \/ Failure(w) \/ Cleanup(w)
      PROVE  Starting'
  BY <1>7, WorkerUp
<1> QED
  BY <1>1, <1>2, <1>3, <1>4, <1>5, <1>6, <1>7 DEF Next, Process

\* A step that changes neither rows nor lists, and at most lifts locks, keeps a
\* settled pool fit to be served.
LEMMA QuietStep ==
    ASSUME TypeInv, \A e \in Endpoint : Live(e) => Fit(e),
           UNCHANGED <<now, row, pl, retryAfter>>,
           \A ip \in IP : lockedIPs'[ip] \in {0, lockedIPs[ip]}
    PROVE  ServedFit'
<1>1. \A ip \in IP : ~Locked(ip) => ~Locked(ip)'
  BY DEF Locked, TypeInv, TypeOK
<1> QED
  BY <1>1, IpOfAssumption DEF ServedFit, Live, Fit

LEMMA QuietUpsert ==
    ASSUME TypeInv, ServedFit, NEW w \in Worker,
           (\E e \in Endpoint : BeginUpsert(w, e)) \/ UpsertCheck(w) \/ UpsertSaveError(w)
    PROVE  ServedFit'
<1>1. \A e \in Endpoint : Live(e) => Fit(e)
  BY SettledPool DEF BeginUpsert, Lock, UpsertCheck, UpsertSaveError
<1>2. UNCHANGED <<now, row, pl, retryAfter>>
  BY DEF BeginUpsert, UpsertCheck, UpsertSaveError, db, lists, caches
<1>3. \A ip \in IP : lockedIPs'[ip] \in {0, lockedIPs[ip]}
  BY DEF BeginUpsert, UpsertCheck, UpsertSaveError, caches, DropExpiredLock, TypeInv, TypeOK
<1> QED
  BY <1>1, <1>2, <1>3, QuietStep

LEMMA QuietSuccess ==
    ASSUME TypeInv, ServedFit, NEW w \in Worker,
           \/ \E e \in Endpoint : \E g \in 1 .. issued[e] : BeginSuccess(w, e, g)
           \/ SuccessCheck(w) \/ SuccessUpdateNone(w)
    PROVE  ServedFit'
<1>1. \A e \in Endpoint : Live(e) => Fit(e)
  BY SettledPool DEF BeginSuccess, Lock, SuccessCheck, SuccessUpdateNone
<1>2. UNCHANGED <<now, row, pl, retryAfter>>
  BY DEF BeginSuccess, SuccessCheck, SuccessUpdateNone, db, lists, caches
<1>3. \A ip \in IP : lockedIPs'[ip] \in {0, lockedIPs[ip]}
  BY DEF BeginSuccess, SuccessCheck, SuccessUpdateNone, caches, DropExpiredLock,
         TypeInv, TypeOK
<1> QED
  BY <1>1, <1>2, <1>3, QuietStep

LEMMA QuietOthers ==
    ASSUME TypeInv, ServedFit, NEW w \in Worker,
           \/ \E e \in Endpoint : \E g \in 1 .. issued[e] : BeginFailed(w, e, g)
           \/ FailedLoad(w) \/ FailedLoadNone(w) \/ FailedUpdateNone(w)
           \/ \E e \in Endpoint : BeginUnavailable(w, e) \/ BeginFailure(w, e)
           \/ UnavailableLoad(w) \/ UnavailableNone(w) \/ UnavailableUpdateNone(w)
           \/ FailureLoad(w) \/ BeginCleanup(w)
           \/ CleanupSelect(w) \/ CleanupSelectNone(w) \/ CleanupDeleteError(w)
    PROVE  ServedFit'
<1>1. \A e \in Endpoint : Live(e) => Fit(e)
  BY SettledPool
     DEF BeginFailed, FailedLoad, FailedLoadNone, FailedUpdateNone, BeginUnavailable,
         BeginFailure, UnavailableLoad, UnavailableNone, UnavailableUpdateNone,
         FailureLoad, BeginCleanup, CleanupSelect, CleanupSelectNone,
         CleanupDeleteError, Lock
<1>2. UNCHANGED <<now, row, pl, retryAfter, lockedIPs>>
  BY DEF BeginFailed, FailedLoad, FailedLoadNone, FailedUpdateNone, BeginUnavailable,
         BeginFailure, UnavailableLoad, UnavailableNone, UnavailableUpdateNone,
         FailureLoad, BeginCleanup, CleanupSelect, CleanupSelectNone,
         CleanupDeleteError, db, lists, caches
<1> QED
  BY <1>1, <1>2, QuietStep

LEMMA ServedUpsertSuccess ==
    ASSUME TypeInv, AtLabel, AvailableClean, ServedFit, NEW w \in Worker,
           \/ UpsertSave(w) \/ UpsertPublish(w)
           \/ SuccessUpdate(w) \/ SuccessPublish(w) \/ SuccessReloadError(w)
    PROVE  ServedFit'
<1> USE DEF TypeInv, TypeOK
<1>1. \A x \in Endpoint : Live(x) => Fit(x)
  BY SettledPool DEF UpsertSave, UpsertPublish, SuccessUpdate, SuccessPublish,
                     SuccessReloadError
<1>2. PICK e \in Endpoint : e = job[w].e /\ IpOf[e] \in IP
  BY IpOfAssumption DEF UpsertSave, UpsertPublish, SuccessUpdate, SuccessPublish,
                        SuccessReloadError, Operands, Sweeping
<1>3. ASSUME NEW g, row' = [row EXCEPT ![e] = Healthy(g)],
             row[e].gen # 0 => g = row[e].gen,
             UNCHANGED <<now, pl, retryAfter, lockedIPs>>
      PROVE  ServedFit'
  <2>1. Live(e) => row[e].gen = pl[e].gen /\ g = row[e].gen
    BY <1>1, <1>2, <1>3 DEF Fit, AvailableClean
  <2>2. \A x \in Endpoint : Live(x) => Fit(x)'
    BY <1>1, <1>2, <1>3, <2>1 DEF Fit, Locked, Healthy
  <2> QED
    BY <1>3, <2>2 DEF ServedFit, Live
<1>4. ASSUME retryAfter' = [retryAfter EXCEPT ![e] = 0], UNCHANGED <<now, row>>,
             lockedIPs' = [lockedIPs EXCEPT ![IpOf[e]] = 0],
             \/ pl[e].copies > 0 /\ UNCHANGED pl
             \/ /\ pl' = [pl EXCEPT ![e] = [copies |-> 1, gen |-> job[w].gen]]
                /\ row[e].available /\ row[e].gen = job[w].gen
      PROVE  ServedFit'
  <2>1. \A x \in Endpoint \ {e} : Live(x)' => Fit(x)'
    BY <1>1, <1>2, <1>4, IpOfAssumption DEF Fit, Locked, Live
  <2>2. now' \in Nat /\ lockedIPs'[IpOf[e]] = 0 /\ retryAfter'[e] = 0
    BY <1>2, <1>4
  <2>3. ~Locked(IpOf[e])'
    BY <2>2 DEF Locked
  <2>4. row'[e].available /\ row'[e].gen = pl'[e].gen
    <3>1. CASE pl[e].copies > 0 /\ UNCHANGED pl
      BY <1>1, <1>2, <1>4, <3>1 DEF Fit, Live
    <3>2. CASE /\ pl' = [pl EXCEPT ![e] = [copies |-> 1, gen |-> job[w].gen]]
               /\ row[e].available /\ row[e].gen = job[w].gen
      BY <1>2, <1>4, <3>2
    <3> QED
      BY <1>4, <3>1, <3>2
  <2>5. \A x \in Endpoint : Live(x)' => Fit(x)'
    BY <2>1, <2>2, <2>3, <2>4 DEF Fit
  <2> QED
    BY <2>5 DEF ServedFit
<1>5. CASE UpsertSave(w)
  <2> DEFINE g == IF row[e].gen # 0 THEN row[e].gen ELSE issued[e] + 1
  <2>1. row' = [row EXCEPT ![e] = Healthy(g)] /\ (row[e].gen # 0 => g = row[e].gen)
    BY <1>2, <1>5 DEF UpsertSave
  <2>2. UNCHANGED <<now, pl, retryAfter, lockedIPs>>
    BY <1>5 DEF UpsertSave, lists, caches
  <2> HIDE DEF g
  <2> QED
    BY <1>3, <2>1, <2>2
<1>6. CASE SuccessUpdate(w)
  <2>1. row' = [row EXCEPT ![e] = Healthy(row[e].gen)]
    BY <1>2, <1>6 DEF SuccessUpdate
  <2>2. UNCHANGED <<now, pl, retryAfter, lockedIPs>>
    BY <1>6 DEF SuccessUpdate, lists, caches
  <2> QED
    BY <1>3, <2>1, <2>2
<1>7. CASE UpsertPublish(w) \/ SuccessPublish(w)
  <2>1. row[e].available /\ row[e].gen = job[w].gen
    BY <1>2, <1>7 DEF UpsertPublish, SuccessPublish, AtLabel, Knows
  <2> QED
    BY <1>2, <1>4, <1>7, <2>1 DEF UpsertPublish, SuccessPublish, lists
<1>8. CASE SuccessReloadError(w)
  <2>1. \A x \in Endpoint : Live(x)' => Fit(x)'
    BY <1>1, <1>2, <1>8 DEF SuccessReloadError, Fit, Live, Locked, lists, db
  <2> QED
    BY <2>1 DEF ServedFit
<1> QED
  BY <1>5, <1>6, <1>7, <1>8

LEMMA ServedQuarantine ==
    ASSUME TypeInv, ServedFit, NEW w \in Worker, FailedUpdate(w) \/ UnavailableUpdate(w)
    PROVE  ServedFit'
<1> USE DEF TypeInv, TypeOK
<1>1. \A x \in Endpoint : Live(x) => Fit(x)
  BY SettledPool DEF FailedUpdate, UnavailableUpdate
<1>2. PICK e \in Endpoint : e = job[w].e
  BY DEF FailedUpdate, UnavailableUpdate, Operands, Sweeping
<1>3. /\ UNCHANGED <<now, lockedIPs>> /\ Quarantine(e, job[w].cnt)
      /\ \A x \in Endpoint \ {e} : pl'[x] = pl[x]
  BY <1>2 DEF FailedUpdate, UnavailableUpdate, RemoveEndpoints, lists
<1>4. \A x \in Endpoint \ {e} : Live(x)' => Fit(x)'
  BY <1>1, <1>2, <1>3 DEF Quarantine, Fit, Live, Locked
<1>5. Live(e)' => Removing(w, e)'
  <2>1. CASE FailedUpdate(w)
    BY <1>2, <2>1 DEF FailedUpdate, Step, Removing
  <2>2. CASE UnavailableUpdate(w)
    <3>1. pl'[e] = NoEntry
      BY <1>2, <2>2 DEF UnavailableUpdate, RemoveEndpoints
    <3> QED
      BY <3>1 DEF NoEntry, Live
  <2> QED
    BY <2>1, <2>2
<1>6. \A x \in Endpoint : Live(x)' => Fit(x)' \/ BeingRemoved(x)'
  BY <1>4, <1>5 DEF BeingRemoved
<1> QED
  BY <1>6 DEF ServedFit

\* Removals: what the goroutine was about to take off is taken off.
LEMMA ServedRemoval ==
    ASSUME TypeInv, ServedFit, NEW w \in Worker,
           FailedRemove(w) \/ FailureSave(w) \/ CleanupRemove(w)
    PROVE  ServedFit'
<1> USE DEF TypeInv, TypeOK
<1>1. \A x \in Endpoint : Live(x) => Fit(x) \/ Removing(w, x)
  <2>1. \A v \in Worker : v # w => pc[v] = "idle"
    BY OneInside DEF FailedRemove, FailureSave, CleanupRemove
  <2> QED
    BY <2>1 DEF ServedFit, BeingRemoved, Removing
<1>2. UNCHANGED <<now, row, retryAfter, lockedIPs>>
  BY DEF FailedRemove, FailureSave, CleanupRemove, db, caches
<1>3. \A x \in Endpoint : Live(x)' => pl'[x] = pl[x] /\ Live(x) /\ ~Removing(w, x)
  BY DEF FailedRemove, FailureSave, CleanupRemove, RemoveIP, RemoveEndpoints, NoEntry,
         Live, Removing, lists
<1>4. \A x \in Endpoint : Live(x)' => Fit(x)'
  BY <1>1, <1>2, <1>3 DEF Fit, Locked
<1> QED
  BY <1>4 DEF ServedFit

LEMMA ServedLockout ==
    ASSUME TypeInv, AtLabel, ServedFit, NEW w \in Worker, FailureQuarantine(w)
    PROVE  ServedFit'
<1> USE DEF TypeInv, TypeOK
<1> DEFINE ip == IpOf[job[w].e]
<1>1. \A x \in Endpoint : Live(x) => Fit(x)
  BY SettledPool DEF FailureQuarantine
<1>2. UNCHANGED <<now, pl, retryAfter>>
  BY DEF FailureQuarantine, lists
<1>3. \A x \in Endpoint : IpOf[x] = ip => Removing(w, x)'
  BY DEF FailureQuarantine, Step, Removing, AtLabel, Knows
<1>4. \A x \in Endpoint : IpOf[x] # ip =>
                           row'[x] = row[x] /\ lockedIPs'[IpOf[x]] = lockedIPs[IpOf[x]]
  BY IpOfAssumption DEF FailureQuarantine
<1>5. \A x \in Endpoint : IpOf[x] # ip /\ Live(x) => Fit(x)'
  BY <1>1, <1>2, <1>4 DEF Fit, Locked
<1> QED
  BY <1>2, <1>3, <1>5 DEF ServedFit, BeingRemoved, Live

LEMMA ServedCleanup ==
    ASSUME TypeInv, AtLabel, ServedFit, NEW w \in Worker, CleanupDelete(w)
    PROVE  ServedFit'
<1> USE DEF TypeInv, TypeOK
<1>1. \A x \in Endpoint : Live(x) => Fit(x)
  BY SettledPool DEF CleanupDelete
<1>2. UNCHANGED <<now, pl, retryAfter, lockedIPs>>
  BY DEF CleanupDelete, lists, caches
<1>3. \A x \in Endpoint : Stale(x, job[w].until) => Removing(w, x)'
  BY DEF CleanupDelete, Step, Removing, AtLabel, Knows
<1>4. \A x \in Endpoint : ~Stale(x, job[w].until) => row'[x] = row[x]
  BY DEF CleanupDelete
<1>5. \A x \in Endpoint : ~Stale(x, job[w].until) /\ Live(x) => Fit(x)'
  BY <1>1, <1>2, <1>4 DEF Fit, Locked
<1> QED
  BY <1>2, <1>3, <1>5 DEF ServedFit, BeingRemoved, Live

LEMMA ServedStep ==
    /\ TypeInv /\ AtLabel /\ AvailableClean /\ ServedFit /\ Starting
    /\ [Next]_vars
    => ServedFit'
<1> SUFFICES ASSUME TypeInv, AtLabel, AvailableClean, ServedFit, Starting, [Next]_vars
             PROVE  ServedFit'
  OBVIOUS
<1> USE DEF TypeInv, TypeOK
<1>1. ASSUME UNCHANGED <<row, pl, pc, job>>, now' >= now,
             \A e \in Endpoint : retryAfter'[e] \in {0, retryAfter[e]},
             \A ip \in IP : lockedIPs'[ip] \in {0, lockedIPs[ip]}
      PROVE  ServedFit'
  <2>1. now' \in Int
    BY TypeOKStep
  <2>2. \A ip \in IP : ~Locked(ip) => ~Locked(ip)'
    BY <1>1, <2>1 DEF Locked
  <2>3. \A e \in Endpoint : BeingRemoved(e) => BeingRemoved(e)'
    BY <1>1 DEF BeingRemoved, Removing
  <2>4. \A e \in Endpoint : Fit(e) => Fit(e)'
    BY <1>1, <2>2, IpOfAssumption DEF Fit
  <2> QED
    BY <1>1, <2>3, <2>4 DEF ServedFit, Live
<1>2. CASE UNCHANGED vars
  BY <1>1, <1>2 DEF vars, db, lists, caches, threads
<1>3. CASE Tick
  BY <1>1, <1>3 DEF Tick, db, lists, caches, threads
<1>4. CASE Readers
  BY <1>1, <1>4 DEF Readers, IsIPLockedExpired, IsIPLockedDelete,
                    IsProxyValidationDueExpired, IsProxyValidationDueDelete,
                    db, lists, threads
<1>5. CASE Crash
  BY <1>5 DEF Crash, NoEntry, ServedFit, Live
<1>6. CASE Load
  <2>1. phase = "down" /\ UNCHANGED <<now, row, lockedIPs>>
    BY <1>6 DEF Load, db
  <2>2. \A ip \in IP : ~Locked(ip)'
    BY <2>1 DEF Starting, Locked
  <2>3. \A e \in Endpoint : Live(e)' =>
            row[e].available /\ pl'[e].gen = row[e].gen /\ retryAfter'[e] = 0
    BY <1>6 DEF Load, NoEntry, Live
  <2> QED
    BY <2>1, <2>2, <2>3, IpOfAssumption DEF ServedFit, Fit
<1>7. CASE LoadLockedIPs
  <2>1. phase = "loaded" /\ mu = Free /\ UNCHANGED <<now, row, pl, retryAfter>>
    BY <1>7 DEF LoadLockedIPs, db, lists, Mutex
  <2>2. \A e \in Endpoint : Live(e) => Fit(e) /\ ~LockInDB(IpOf[e])
    BY <2>1, SettledPool DEF Starting
  <2>3. \A ip \in IP : ~LockInDB(ip) => ~Locked(ip)'
    BY <1>7, <2>1 DEF LoadLockedIPs, Locked
  <2> QED
    BY <2>1, <2>2, <2>3, IpOfAssumption DEF ServedFit, Fit, Live
<1>8. ASSUME NEW w \in Worker, Upsert(w) PROVE ServedFit'
  BY <1>8, QuietUpsert, ServedUpsertSuccess DEF Upsert
<1>9. ASSUME NEW w \in Worker, Success(w) PROVE ServedFit'
  BY <1>9, QuietSuccess, ServedUpsertSuccess DEF Success
<1>10. ASSUME NEW w \in Worker, Failed(w) PROVE ServedFit'
  BY <1>10, QuietOthers, ServedQuarantine, ServedRemoval DEF Failed
<1>11. ASSUME NEW w \in Worker, Unavailable(w) PROVE ServedFit'
  BY <1>11, QuietOthers, ServedQuarantine DEF Unavailable
<1>12. ASSUME NEW w \in Worker, Failure(w) PROVE ServedFit'
  BY <1>12, QuietOthers, ServedRemoval, ServedLockout DEF Failure
<1>13. ASSUME NEW w \in Worker, Cleanup(w) PROVE ServedFit'
  BY <1>13, QuietOthers, ServedRemoval, ServedCleanup DEF Cleanup
<1> QED
  BY <1>2, <1>3, <1>4, <1>5, <1>6, <1>7, <1>8, <1>9, <1>10, <1>11, <1>12, <1>13
     DEF Next, Process

-----------------------------------------------------------------------------
(* The invariant, and what follows from it.                                 *)

LEMMA IInvInit == Init => IInv
<1> SUFFICES ASSUME Init PROVE IInv
  OBVIOUS
<1>1. TypeInv
  BY TypeInvInit
<1>2. AtLabel
  BY DEF Init, AtLabel, Knows
<1>3. IndexMatchesPool /\ AvailableClean /\ FailuresExact /\ ServedFit /\ Starting
  BY DEF Init, IndexMatchesPool, AvailableClean, FailuresExact, ServedFit, Starting,
         Live, NoEntry, NoRow
<1> QED
  BY <1>1, <1>2, <1>3 DEF IInv

LEMMA IInvStep == IInv /\ [Next]_vars => IInv'
BY TypeInvStep, IndexStep, AtLabelStep, RowsStep, ServedStep, StartingStep DEF IInv

\* The inductive invariant holds in every reachable state.
THEOREM Invariant == Spec => []IInv
BY IInvInit, IInvStep, PTL DEF Spec

LEMMA SafetyFromInvariant ==
    IInv => /\ IndexMatchesPool /\ FailuresExact
            /\ PoolBackedByRow /\ LockedNotServed /\ FailedNotServed
<1> SUFFICES ASSUME IInv PROVE PoolBackedByRow /\ LockedNotServed /\ FailedNotServed
  BY DEF IInv
<1> USE DEF IInv, ServedFit
<1>1. PoolBackedByRow /\ LockedNotServed
  BY DEF PoolBackedByRow, LockedNotServed, Fit
<1>2. ASSUME NEW e \in Endpoint, Fit(e) PROVE ~(streak[e] > 0 \/ now < retryAfter[e])
  <2>1. row[e].gen # 0 /\ row[e].failures = 0
    BY <1>2 DEF Fit, AvailableClean
  <2>2. streak[e] = 0 /\ retryAfter[e] = 0 /\ now \in Nat
    BY <1>2, <2>1 DEF Fit, FailuresExact, TypeInv, TypeOK
  <2> QED
    BY <2>2
<1>3. FailedNotServed
  BY <1>2 DEF FailedNotServed
<1> QED
  BY <1>1, <1>3

\* The pool serves an endpoint only on the word of its own row.
THEOREM PoolIsBackedByRows == Spec => []PoolBackedByRow
BY Invariant, SafetyFromInvariant, PTL

\* The pool and its index name the same endpoints, each once.
THEOREM PoolMatchesIndex == Spec => []IndexMatchesPool
BY Invariant, SafetyFromInvariant, PTL

\* No endpoint of an IP that memory holds locked is served.
THEOREM LockedIPsAreNotServed == Spec => []LockedNotServed
BY Invariant, SafetyFromInvariant, PTL

\* No endpoint that failed since its last success is served, restarts included.
THEOREM FailedEndpointsAreNotServed == Spec => []FailedNotServed
BY Invariant, SafetyFromInvariant, PTL

\* No failure of an endpoint is lost or counted twice.
THEOREM FailureCountsAreExact == Spec => []FailuresExact
BY Invariant, SafetyFromInvariant, PTL


-----------------------------------------------------------------------------
(* ProxyPool implements EndpointPool.                                       *)

\* Only the goroutine inside an operation has something in hand, before its
\* step and after.
LEMMA InHand ==
    ASSUME TypeInv, NEW w \in Worker, pc[w] # "idle" \/ mu = Free,
           \A v \in Worker : v # w => pc'[v] = pc[v]
    PROVE  \A e \in Endpoint :
              /\ BeingPublished(e) <=> Publishing(w, e)
              /\ BeingRemoved(e) <=> Removing(w, e)
              /\ BeingPublished(e)' <=> Publishing(w, e)'
              /\ BeingRemoved(e)' <=> Removing(w, e)'
<1>1. \A v \in Worker : v # w => pc[v] = "idle" /\ pc'[v] = "idle"
  BY OneInside, NoneInside
<1> QED
  BY <1>1 DEF BeingPublished, Publishing, BeingRemoved, Removing

\* Goroutine w is neither about to publish nor about to remove anything.
EmptyHanded(w) == \A e \in Endpoint : ~Publishing(w, e) /\ ~Removing(w, e)

\* Time passes, and entries of the caches end or are deleted.
LEMMA ElapseStep ==
    ASSUME TypeInv, TypeOK', UNCHANGED <<row, pl>>, now' >= now,
           \A e \in Endpoint : retryAfter'[e] \in {0, retryAfter[e]},
           \A ip \in IP : lockedIPs'[ip] \in {0, lockedIPs[ip]},
           \A e \in Endpoint : /\ BeingPublished(e)' <=> BeingPublished(e)
                               /\ BeingRemoved(e)' <=> BeingRemoved(e)
    PROVE  Contract!Elapse
<1> USE DEF TypeInv, TypeOK
<1>1. UNCHANGED verdictMap
  BY DEF verdictMap
<1>2. UNCHANGED servedMap
  BY DEF servedMap, Live
<1>3. delayedMap' \in SUBSET delayedMap
  BY DEF delayedMap
<1>4. lockedMap' \in SUBSET lockedMap
  BY DEF lockedMap, Locked
<1> QED
  BY <1>1, <1>2, <1>3, <1>4 DEF Contract!Elapse

\* A step of a goroutine that its caller cannot see.
LEMMA HiddenStep ==
    ASSUME TypeInv, TypeOK', NEW w \in Worker, pc[w] # "idle" \/ mu = Free,
           \A v \in Worker : v # w => pc'[v] = pc[v],
           EmptyHanded(w), EmptyHanded(w)',
           UNCHANGED <<now, row, pl, retryAfter>>,
           \A ip \in IP : lockedIPs'[ip] \in {0, lockedIPs[ip]}
    PROVE  Contract!Elapse
<1>1. \A e \in Endpoint : /\ BeingPublished(e)' <=> BeingPublished(e)
                          /\ BeingRemoved(e)' <=> BeingRemoved(e)
  BY InHand DEF EmptyHanded
<1>2. now' >= now
  BY DEF TypeInv, TypeOK
<1> QED
  BY <1>1, <1>2, ElapseStep

Hidden(w) ==
    \/ \E e \in Endpoint : \/ BeginUpsert(w, e) \/ BeginUnavailable(w, e)
                           \/ BeginFailure(w, e)
                           \/ \E g \in 1 .. issued[e] : \/ BeginSuccess(w, e, g)
                                                        \/ BeginFailed(w, e, g)
    \/ BeginCleanup(w)
    \/ UpsertCheck(w) \/ UpsertSaveError(w) \/ SuccessCheck(w) \/ SuccessUpdateNone(w)
    \/ FailedLoad(w) \/ FailedLoadNone(w) \/ FailedUpdateNone(w)
    \/ UnavailableLoad(w) \/ UnavailableNone(w) \/ UnavailableUpdateNone(w)
    \/ CleanupSelect(w) \/ CleanupSelectNone(w) \/ CleanupDeleteError(w)

LEMMA HiddenSteps ==
    ASSUME TypeInv, TypeOK', NEW w \in Worker, Hidden(w)
    PROVE  Contract!Elapse
<1> USE DEF TypeInv, TypeOK
<1>1. pc[w] # "idle" \/ mu = Free
  BY DEF Hidden, BeginUpsert, BeginUnavailable, BeginFailure, BeginSuccess, BeginFailed,
         BeginCleanup, Lock, UpsertCheck, UpsertSaveError, SuccessCheck,
         SuccessUpdateNone, FailedLoad, FailedLoadNone, FailedUpdateNone,
         UnavailableLoad, UnavailableNone, UnavailableUpdateNone, CleanupSelect,
         CleanupSelectNone, CleanupDeleteError
<1>2. \A v \in Worker : v # w => pc'[v] = pc[v]
  BY DEF Hidden, BeginUpsert, BeginUnavailable, BeginFailure, BeginSuccess, BeginFailed,
         BeginCleanup, Lock, UpsertCheck, UpsertSaveError, SuccessCheck,
         SuccessUpdateNone, FailedLoad, FailedLoadNone, FailedUpdateNone,
         UnavailableLoad, UnavailableNone, UnavailableUpdateNone, CleanupSelect,
         CleanupSelectNone, CleanupDeleteError, Step, Learn, Return
<1>3. EmptyHanded(w)
  BY DEF Hidden, BeginUpsert, BeginUnavailable, BeginFailure, BeginSuccess, BeginFailed,
         BeginCleanup, Lock, UpsertCheck, UpsertSaveError, SuccessCheck,
         SuccessUpdateNone, FailedLoad, FailedLoadNone, FailedUpdateNone,
         UnavailableLoad, UnavailableNone, UnavailableUpdateNone, CleanupSelect,
         CleanupSelectNone, CleanupDeleteError, EmptyHanded, Publishing, Removing
<1>4. pc'[w] \notin {"upsert_publish", "success_publish", "failed_remove",
                     "failure_save", "cleanup_remove"}
  BY DEF Hidden, BeginUpsert, BeginUnavailable, BeginFailure, BeginSuccess, BeginFailed,
         BeginCleanup, Lock, UpsertCheck, UpsertSaveError, SuccessCheck,
         SuccessUpdateNone, FailedLoad, FailedLoadNone, FailedUpdateNone,
         UnavailableLoad, UnavailableNone, UnavailableUpdateNone, CleanupSelect,
         CleanupSelectNone, CleanupDeleteError, Step, Learn, Return
<1>5. EmptyHanded(w)'
  BY <1>4 DEF EmptyHanded, Publishing, Removing
<1>6. UNCHANGED <<now, row, pl, retryAfter>>
  BY DEF Hidden, BeginUpsert, BeginUnavailable, BeginFailure, BeginSuccess, BeginFailed,
         BeginCleanup, UpsertCheck, UpsertSaveError, SuccessCheck,
         SuccessUpdateNone, FailedLoad, FailedLoadNone, FailedUpdateNone,
         UnavailableLoad, UnavailableNone, UnavailableUpdateNone, CleanupSelect,
         CleanupSelectNone, CleanupDeleteError, db, lists, caches
<1>7. \A ip \in IP : lockedIPs'[ip] \in {0, lockedIPs[ip]}
  BY DEF Hidden, BeginUpsert, BeginUnavailable, BeginFailure, BeginSuccess, BeginFailed,
         BeginCleanup, UpsertCheck, UpsertSaveError, SuccessCheck,
         SuccessUpdateNone, FailedLoad, FailedLoadNone, FailedUpdateNone,
         UnavailableLoad, UnavailableNone, UnavailableUpdateNone, CleanupSelect,
         CleanupSelectNone, CleanupDeleteError, caches, DropExpiredLock
<1> QED
  BY <1>1, <1>2, <1>3, <1>5, <1>6, <1>7, HiddenStep

\* RecordFailure below the threshold keeps its count and removes nothing.
LEMMA HiddenFailureLoad ==
    ASSUME TypeInv, TypeOK', NEW w \in Worker, FailureLoad(w)
    PROVE  Contract!Elapse
<1> USE DEF TypeInv, TypeOK
<1>1. pc[w] = "failure" /\ IpOf[job[w].e] \in IP
  BY IpOfAssumption DEF FailureLoad, Operands, Sweeping
<1>2. PICK b \in Blocks :
        \/ pc' = [pc EXCEPT ![w] = "failure_quarantine"]
        \/ /\ pc' = [pc EXCEPT ![w] = "failure_save"]
           /\ ~(b.count + 1 >= LockThreshold)
           /\ job'[w] = Locals(job[w].e, 0, b.count + 1, b.until, {})
  BY <1>1, EmptyTypes DEF FailureLoad, Learn
<1>3. EmptyHanded(w)'
  <2>1. CASE pc' = [pc EXCEPT ![w] = "failure_quarantine"]
    BY <2>1 DEF EmptyHanded, Publishing, Removing
  <2>2. CASE /\ pc' = [pc EXCEPT ![w] = "failure_save"]
             /\ ~(b.count + 1 >= LockThreshold)
             /\ job'[w] = Locals(job[w].e, 0, b.count + 1, b.until, {})
    <3>1. job'[w].cnt = b.count + 1 /\ pc'[w] = "failure_save"
      BY <2>2, LocalsFields
    <3> QED
      BY <2>2, <3>1 DEF EmptyHanded, Publishing, Removing
  <2> QED
    BY <1>2, <2>1, <2>2
<1>4. EmptyHanded(w)
  BY <1>1 DEF EmptyHanded, Publishing, Removing
<1>5. UNCHANGED <<now, row, pl, retryAfter, lockedIPs>>
  BY DEF FailureLoad, db, lists, caches
<1>6. \A v \in Worker : v # w => pc'[v] = pc[v]
  BY <1>2
<1> QED
  BY <1>1, <1>3, <1>4, <1>5, <1>6, HiddenStep

\* Readers and the clock.
LEMMA HiddenOthers ==
    ASSUME TypeInv, TypeOK', Tick \/ Readers
    PROVE  Contract!Elapse
<1> USE DEF TypeInv, TypeOK
<1>1. UNCHANGED <<row, pl, pc, job>> /\ now' >= now
  BY DEF Tick, Readers, IsIPLockedExpired, IsIPLockedDelete,
         IsProxyValidationDueExpired, IsProxyValidationDueDelete, db, lists, threads
<1>2. \A e \in Endpoint : retryAfter'[e] \in {0, retryAfter[e]}
  BY DEF Tick, Readers, IsIPLockedExpired, IsIPLockedDelete,
         IsProxyValidationDueExpired, IsProxyValidationDueDelete, caches
<1>3. \A ip \in IP : lockedIPs'[ip] \in {0, lockedIPs[ip]}
  BY DEF Tick, Readers, IsIPLockedExpired, IsIPLockedDelete,
         IsProxyValidationDueExpired, IsProxyValidationDueDelete, caches
<1>4. \A e \in Endpoint : /\ BeingPublished(e)' <=> BeingPublished(e)
                          /\ BeingRemoved(e)' <=> BeingRemoved(e)
  BY <1>1 DEF BeingPublished, Publishing, BeingRemoved, Removing
<1> QED
  BY <1>1, <1>2, <1>3, <1>4, ElapseStep

LEMMA RetryBackoffPositive ==
    ASSUME NEW n \in Nat PROVE RetryBackoff(n) \in Nat \ {0}
BY LimitsAssumption DEF RetryBackoff

\* The UPDATE or INSERT that accepts an endpoint is when callers see it served.
LEMMA AcceptStep ==
    ASSUME IInv, TypeOK', NEW w \in Worker, UpsertSave(w) \/ SuccessUpdate(w)
    PROVE  Contract!Accept(job[w].e)
<1> USE DEF IInv, TypeInv, TypeOK
<1> DEFINE e == job[w].e
<1>1. /\ pc[w] \in {"upsert_save", "success_update"}
      /\ pc'[w] \in {"upsert_publish", "success_publish"}
      /\ \A v \in Worker : v # w => pc'[v] = pc[v]
  BY DEF UpsertSave, SuccessUpdate, Step, Learn
<1>2. e \in Endpoint /\ IpOf[e] \in IP /\ ~Locked(IpOf[e])
  BY <1>1, IpOfAssumption DEF Operands, Sweeping, AtLabel, Knows
<1>3. job'[w].e = e
  BY LocalsFields DEF UpsertSave, SuccessUpdate, Step, Learn
<1>4. \A x \in Endpoint : /\ ~BeingPublished(x) /\ ~BeingRemoved(x) /\ ~BeingRemoved(x)'
                          /\ BeingPublished(x)' <=> x = e
  BY <1>1, <1>3, InHand DEF Publishing, Removing
<1>5. UNCHANGED <<now, pl, retryAfter, lockedIPs>>
  BY DEF UpsertSave, SuccessUpdate, lists, caches
<1>6. PICK g \in Nat \ {0} : row' = [row EXCEPT ![e] = Healthy(g)]
  <2>1. CASE UpsertSave(w)
    <3> DEFINE h == IF row[e].gen # 0 THEN row[e].gen ELSE issued[e] + 1
    <3>1. row[e].gen \in Nat /\ issued[e] \in Nat
      BY <1>2, RowTypes
    <3>2. h \in Nat \ {0}
      BY <3>1
    <3>3. row' = [row EXCEPT ![e] = Healthy(h)]
      BY <2>1 DEF UpsertSave
    <3> QED
      BY <3>2, <3>3
  <2>2. CASE SuccessUpdate(w)
    <3>1. row[e].gen \in Nat \ {0}
      BY <1>1, <1>2, <2>2, RowTypes DEF SuccessUpdate, AtLabel, Knows
    <3> QED
      BY <2>2, <3>1 DEF SuccessUpdate
  <2> QED
    BY <2>1, <2>2
<1>7. verdictMap' = [verdictMap EXCEPT ![e] = "healthy"]
  <2>1. row'[e].gen = g /\ row'[e].available /\ \A x \in Endpoint \ {e} : row'[x] = row[x]
    BY <1>2, <1>6 DEF Healthy
  <2> QED
    BY <1>2, <2>1 DEF verdictMap
<1>8. servedMap' = servedMap \cup {e}
  BY <1>2, <1>4, <1>5 DEF servedMap, Live
<1>9. delayedMap' = delayedMap \ {e}
  BY <1>2, <1>4, <1>5 DEF delayedMap
<1>10. UNCHANGED lockedMap /\ IpOf[e] \notin lockedMap
  BY <1>2, <1>5 DEF lockedMap, Locked
<1> QED
  BY <1>7, <1>8, <1>9, <1>10 DEF Contract!Accept

\* The publication that follows changes nothing more.
LEMMA PublishStep ==
    ASSUME IInv, TypeOK', NEW w \in Worker, UpsertPublish(w) \/ SuccessPublish(w)
    PROVE  UNCHANGED Contract!pool
<1> USE DEF IInv, TypeInv, TypeOK
<1> DEFINE e == job[w].e
<1>1. /\ pc[w] \in {"upsert_publish", "success_publish"} /\ pc'[w] = "idle"
      /\ \A v \in Worker : v # w => pc'[v] = pc[v]
  BY DEF UpsertPublish, SuccessPublish, Return
<1>2. e \in Endpoint /\ IpOf[e] \in IP /\ ~Locked(IpOf[e])
  BY <1>1, IpOfAssumption DEF Operands, Sweeping, AtLabel, Knows
<1>3. \A x \in Endpoint : /\ BeingPublished(x) <=> x = e
                          /\ ~BeingRemoved(x) /\ ~BeingRemoved(x)' /\ ~BeingPublished(x)'
  BY <1>1, InHand DEF Publishing, Removing
<1>4. /\ UNCHANGED <<now, row>>
      /\ retryAfter' = [retryAfter EXCEPT ![e] = 0]
      /\ lockedIPs' = [lockedIPs EXCEPT ![IpOf[e]] = 0]
  BY DEF UpsertPublish, SuccessPublish
<1>5. \A x \in Endpoint : Live(x)' <=> Live(x) \/ x = e
  BY <1>2 DEF UpsertPublish, SuccessPublish, lists, Live
<1>6. UNCHANGED verdictMap
  BY <1>4 DEF verdictMap
<1>7. UNCHANGED servedMap
  BY <1>2, <1>3, <1>5 DEF servedMap
<1>8. UNCHANGED delayedMap
  BY <1>2, <1>3, <1>4 DEF delayedMap
<1>9. UNCHANGED lockedMap
  BY <1>2, <1>4 DEF lockedMap, Locked
<1> QED
  BY <1>6, <1>7, <1>8, <1>9 DEF Contract!pool

LEMMA MisplaceStep ==
    ASSUME IInv, TypeOK', NEW w \in Worker, SuccessReloadError(w)
    PROVE  Contract!Misplace(job[w].e)
<1> USE DEF IInv, TypeInv, TypeOK
<1> DEFINE e == job[w].e
<1>1. /\ pc[w] = "success_publish" /\ pc'[w] = "idle"
      /\ \A v \in Worker : v # w => pc'[v] = pc[v]
  BY DEF SuccessReloadError, Return
<1>2. e \in Endpoint /\ row[e].available /\ row[e].gen # 0
  BY <1>1 DEF Operands, Sweeping, AtLabel, Knows, AvailableClean
<1>3. \A x \in Endpoint : /\ BeingPublished(x) <=> x = e
                          /\ ~BeingRemoved(x) /\ ~BeingRemoved(x)' /\ ~BeingPublished(x)'
  BY <1>1, InHand DEF Publishing, Removing
<1>4. /\ UNCHANGED <<now, row, pl, lockedIPs>> /\ ~Live(e)
      /\ retryAfter' = [retryAfter EXCEPT ![e] = 0]
  BY <1>2 DEF SuccessReloadError, db, lists, Live
<1>5. verdictMap[e] = "healthy" /\ UNCHANGED verdictMap
  BY <1>2, <1>4 DEF verdictMap
<1>6. servedMap' = servedMap \ {e}
  BY <1>2, <1>3, <1>4 DEF servedMap, Live
<1>7. UNCHANGED delayedMap
  BY <1>2, <1>3, <1>4 DEF delayedMap
<1>8. UNCHANGED lockedMap
  BY <1>4 DEF lockedMap, Locked
<1> QED
  BY <1>5, <1>6, <1>7, <1>8 DEF Contract!Misplace

\* The UPDATE that quarantines an endpoint is when callers see it gone.
LEMMA QuarantineStep ==
    ASSUME IInv, TypeOK', NEW w \in Worker, FailedUpdate(w) \/ UnavailableUpdate(w)
    PROVE  Contract!Quarantine(job[w].e)
<1> USE DEF IInv, TypeInv, TypeOK
<1> DEFINE e == job[w].e
<1>1. /\ pc[w] \in {"failed_update", "unavailable_update"}
      /\ pc'[w] \in {"idle", "failed_remove"}
      /\ \A v \in Worker : v # w => pc'[v] = pc[v]
  BY DEF FailedUpdate, UnavailableUpdate, Step, Return
<1>2. e \in Endpoint /\ row[e].gen # 0 /\ job[w].cnt \in Nat
  BY <1>1, JobTypes DEF Operands, Sweeping, AtLabel, Knows
<1>3. /\ UNCHANGED <<now, lockedIPs>> /\ Quarantine(e, job[w].cnt)
  BY DEF FailedUpdate, UnavailableUpdate
<1>4. \A x \in Endpoint : /\ ~BeingPublished(x) /\ ~BeingRemoved(x) /\ ~BeingPublished(x)'
                          /\ BeingRemoved(x)' <=> Removing(w, x)'
  BY <1>1, InHand DEF Publishing, Removing
<1>5. \A x \in Endpoint : Live(x)' /\ ~Removing(w, x)' <=> Live(x) /\ x # e
  <2>1. CASE FailedUpdate(w)
    BY <1>2, <2>1 DEF FailedUpdate, Step, Removing, Live, lists
  <2>2. CASE UnavailableUpdate(w)
    <3>1. \A x \in Endpoint : ~Removing(w, x)'
      BY <2>2 DEF UnavailableUpdate, Return, Removing
    <3>2. \A x \in Endpoint : Live(x)' <=> Live(x) /\ x # e
      BY <2>2 DEF UnavailableUpdate, RemoveEndpoints, NoEntry, Live
    <3> QED
      BY <3>1, <3>2
  <2> QED
    BY <2>1, <2>2
<1>6. verdictMap[e] # "unknown" /\ verdictMap' = [verdictMap EXCEPT ![e] = "sick"]
  <2>1. /\ row'[e].gen # 0 /\ ~row'[e].available
        /\ \A x \in Endpoint \ {e} : row'[x] = row[x]
    BY <1>2, <1>3 DEF Quarantine, Quarantined
  <2> QED
    BY <1>2, <2>1 DEF verdictMap
<1>7. servedMap' = servedMap \ {e}
  BY <1>2, <1>4, <1>5 DEF servedMap
<1>8. delayedMap' = delayedMap \cup {e}
  <2>1. now < now + RetryBackoff(job[w].cnt)
    BY <1>2, RetryBackoffPositive
  <2>2. now' < retryAfter'[e] /\ \A x \in Endpoint \ {e} : retryAfter'[x] = retryAfter[x]
    BY <1>2, <1>3, <2>1 DEF Quarantine
  <2> QED
    BY <1>2, <1>3, <1>4, <2>2 DEF delayedMap
<1>9. UNCHANGED lockedMap
  BY <1>3 DEF lockedMap, Locked
<1> QED
  BY <1>6, <1>7, <1>8, <1>9 DEF Contract!Quarantine

\* The removals that follow change nothing more.
LEMMA RemovalStep ==
    ASSUME IInv, TypeOK', NEW w \in Worker,
           FailedRemove(w) \/ FailureSave(w) \/ CleanupRemove(w)
    PROVE  UNCHANGED Contract!pool
<1> USE DEF IInv, TypeInv, TypeOK
<1>1. /\ pc[w] \in {"failed_remove", "failure_save", "cleanup_remove"} /\ pc'[w] = "idle"
      /\ \A v \in Worker : v # w => pc'[v] = pc[v]
  BY DEF FailedRemove, FailureSave, CleanupRemove, Return
<1>2. \A x \in Endpoint : /\ ~BeingPublished(x) /\ ~BeingPublished(x)' /\ ~BeingRemoved(x)'
                          /\ BeingRemoved(x) <=> Removing(w, x)
  BY <1>1, InHand DEF Publishing, Removing
<1>3. UNCHANGED <<now, row, retryAfter, lockedIPs>>
  BY DEF FailedRemove, FailureSave, CleanupRemove, db, caches
<1>4. \A x \in Endpoint : Live(x)' <=> Live(x) /\ ~Removing(w, x)
  <2>1. CASE FailedRemove(w)
    BY <2>1 DEF FailedRemove, RemoveEndpoints, NoEntry, Live, Removing
  <2>2. CASE CleanupRemove(w)
    BY <2>2 DEF CleanupRemove, RemoveEndpoints, NoEntry, Live, Removing
  <2>3. CASE FailureSave(w)
    BY <2>3 DEF FailureSave, RemoveIP, RemoveEndpoints, NoEntry, Live, Removing, lists
  <2> QED
    BY <2>1, <2>2, <2>3
<1>5. UNCHANGED verdictMap
  BY <1>3 DEF verdictMap
<1>6. UNCHANGED servedMap
  BY <1>2, <1>4 DEF servedMap
<1>7. UNCHANGED delayedMap
  BY <1>2, <1>3 DEF delayedMap
<1>8. UNCHANGED lockedMap
  BY <1>3 DEF lockedMap, Locked
<1> QED
  BY <1>5, <1>6, <1>7, <1>8 DEF Contract!pool

LEMMA LockOutStep ==
    ASSUME IInv, TypeOK', NEW w \in Worker, FailureQuarantine(w)
    PROVE  Contract!LockOut(IpOf[job[w].e])
<1> USE DEF IInv, TypeInv, TypeOK
<1> DEFINE ip == IpOf[job[w].e]
<1>1. /\ pc[w] = "failure_quarantine" /\ pc'[w] = "failure_save"
      /\ \A v \in Worker : v # w => pc'[v] = pc[v]
  BY DEF FailureQuarantine, Step
<1>2. ip \in IP /\ job[w].cnt >= LockThreshold /\ job' = job
  BY <1>1, IpOfAssumption DEF Operands, Sweeping, AtLabel, Knows, FailureQuarantine, Step
<1>3. \A x \in Endpoint : /\ ~BeingPublished(x) /\ ~BeingPublished(x)' /\ ~BeingRemoved(x)
                          /\ BeingRemoved(x)' <=> IpOf[x] = ip
  BY <1>1, <1>2, InHand DEF Publishing, Removing
<1>4. UNCHANGED <<now, pl, retryAfter>> /\ lockedIPs' = [lockedIPs EXCEPT ![ip] = job[w].until]
  BY DEF FailureQuarantine, lists
<1>5. \A x \in Endpoint : row[x].available => row[x].gen # 0
  BY DEF AvailableClean
<1>6. \/ verdictMap' = [e \in Endpoint |->
                          IF e \in Contract!PortsOf(ip) /\ verdictMap[e] = "healthy"
                          THEN "sick" ELSE verdictMap[e]]
      \/ UNCHANGED verdictMap
  <2>1. CASE UNCHANGED row
    BY <2>1 DEF verdictMap
  <2>2. CASE row' = [e \in Endpoint |-> IF IpOf[e] = ip /\ row[e].gen # 0
                                        THEN Suspended(row[e]) ELSE row[e]]
    <3>1. \A e \in Endpoint : row'[e].gen = row[e].gen
      BY <2>2 DEF Suspended
    <3>2. \A e \in Endpoint : IF IpOf[e] = ip /\ row[e].gen # 0
                              THEN ~row'[e].available ELSE row'[e] = row[e]
      BY <2>2 DEF Suspended
    <3>3. \A e \in Endpoint :
            verdictMap'[e] = IF IpOf[e] = ip /\ verdictMap[e] = "healthy"
                             THEN "sick" ELSE verdictMap[e]
      BY <3>1, <3>2 DEF verdictMap
    <3> QED
      BY <3>3 DEF verdictMap, Contract!PortsOf
  <2> QED
    BY <2>1, <2>2 DEF FailureQuarantine
<1>7. servedMap' = servedMap \ Contract!PortsOf(ip)
  BY <1>3, <1>4 DEF servedMap, Live, Contract!PortsOf
<1>8. UNCHANGED delayedMap
  BY <1>3, <1>4 DEF delayedMap
<1>9. lockedMap' \in {lockedMap \cup {ip}, lockedMap \ {ip}}
  <2>1. CASE Locked(ip)'
    BY <1>2, <1>4, <2>1 DEF lockedMap, Locked
  <2>2. CASE ~Locked(ip)'
    BY <1>2, <1>4, <2>2 DEF lockedMap, Locked
  <2> QED
    BY <2>1, <2>2
<1> QED
  BY <1>6, <1>7, <1>8, <1>9 DEF Contract!LockOut

\* The DELETE of CleanupStaleProxies.
LEMMA ForgetStep ==
    ASSUME IInv, TypeOK', NEW w \in Worker, CleanupDelete(w)
    PROVE  \E gone \in SUBSET Endpoint : Contract!Forget(gone)
<1> USE DEF IInv, TypeInv, TypeOK
<1> DEFINE gone == job[w].stale
<1>1. /\ pc[w] = "cleanup_delete" /\ pc'[w] = "cleanup_remove"
      /\ \A v \in Worker : v # w => pc'[v] = pc[v]
  BY DEF CleanupDelete, Step
<1>2. /\ gone \in SUBSET Endpoint /\ job' = job
      /\ \A x \in Endpoint : Stale(x, job[w].until) <=> x \in gone
  BY <1>1, JobTypes DEF AtLabel, Knows, CleanupDelete, Step
<1>3. \A x \in Endpoint : /\ ~BeingPublished(x) /\ ~BeingPublished(x)' /\ ~BeingRemoved(x)
                          /\ BeingRemoved(x)' <=> x \in gone
  BY <1>1, <1>2, InHand DEF Publishing, Removing
<1>4. UNCHANGED <<now, pl, retryAfter, lockedIPs>>
  BY DEF CleanupDelete, lists, caches
<1>5. verdictMap' = [e \in Endpoint |-> IF e \in gone THEN "unknown" ELSE verdictMap[e]]
  <2>1. \A e \in Endpoint : row'[e] = IF e \in gone THEN NoRow ELSE row[e]
    BY <1>2 DEF CleanupDelete
  <2> QED
    BY <2>1 DEF verdictMap, NoRow
<1>6. servedMap' = servedMap \ gone
  BY <1>2, <1>3, <1>4 DEF servedMap, Live
<1>7. UNCHANGED delayedMap /\ UNCHANGED lockedMap
  BY <1>3, <1>4 DEF delayedMap, lockedMap, Locked
<1>8. Contract!Forget(gone)
  BY <1>5, <1>6, <1>7 DEF Contract!Forget
<1> QED
  BY <1>2, <1>8

\* The process dies, and starts again.
LEMMA ProcessSteps ==
    ASSUME IInv, TypeInv'
    PROVE  /\ Crash => Contract!Stop
           /\ Load => Contract!Restore
           /\ LoadLockedIPs => Contract!RestoreLocks
<1> USE DEF IInv, TypeInv, TypeOK
<1>1. ASSUME phase # "up" PROVE \A w \in Worker : pc[w] = "idle"
  BY <1>1, NoneInside DEF Mutex
<1>2. ASSUME \A w \in Worker : pc[w] = "idle"
      PROVE  \A e \in Endpoint : ~BeingPublished(e) /\ ~BeingRemoved(e)
  BY <1>2 DEF BeingPublished, Publishing, BeingRemoved, Removing
<1>3. ASSUME \A w \in Worker : pc'[w] = "idle"
      PROVE  \A e \in Endpoint : ~BeingPublished(e)' /\ ~BeingRemoved(e)'
  BY <1>3 DEF BeingPublished, Publishing, BeingRemoved, Removing
<1>4. ASSUME Crash PROVE Contract!Stop
  <2>1. /\ UNCHANGED <<now, row>> /\ \A w \in Worker : pc'[w] = "idle"
        /\ \A e \in Endpoint : ~Live(e)' /\ retryAfter'[e] = 0
        /\ \A ip \in IP : lockedIPs'[ip] = 0
    BY <1>4 DEF Crash, NoEntry, Live, db
  <2>2. UNCHANGED verdictMap
    BY <2>1 DEF verdictMap
  <2>3. servedMap' = {} /\ delayedMap' = {}
    BY <1>3, <2>1 DEF servedMap, delayedMap
  <2>4. lockedMap' = {}
    BY <2>1 DEF lockedMap, Locked
  <2> QED
    BY <2>2, <2>3, <2>4 DEF Contract!Stop
<1>5. ASSUME Load PROVE Contract!Restore
  <2>1. /\ phase = "down" /\ UNCHANGED <<now, row, pc, lockedIPs>>
    BY <1>5 DEF Load, db, threads
  <2>2. /\ \A e \in Endpoint : ~Live(e) /\ retryAfter[e] = 0
        /\ \A ip \in IP : lockedIPs[ip] = 0
    BY <2>1 DEF Starting
  <2>3. /\ \A e \in Endpoint : ~BeingPublished(e) /\ ~BeingRemoved(e)
        /\ \A e \in Endpoint : ~BeingPublished(e)' /\ ~BeingRemoved(e)'
    BY <1>1, <1>2, <1>3, <2>1
  <2>4. servedMap = {} /\ delayedMap = {} /\ lockedMap = {} /\ lockedMap' = {}
    BY <2>1, <2>2, <2>3 DEF servedMap, delayedMap, lockedMap, Locked
  <2>5. UNCHANGED verdictMap
    BY <2>1 DEF verdictMap
  <2>6. \A e \in Endpoint : Live(e)' => row[e].gen # 0 /\ row[e].available
    BY <1>5 DEF Load, NoEntry, Live
  <2>7. servedMap' \in SUBSET {e \in Endpoint : verdictMap[e] = "healthy"}
    BY <2>3, <2>6 DEF servedMap, verdictMap
  <2>8. \A e \in Endpoint : retryAfter'[e] # 0 => row[e].gen # 0 /\ ~row[e].available
    BY <1>5 DEF Load
  <2>9. delayedMap' \in SUBSET {e \in Endpoint : verdictMap[e] = "sick"}
    BY <2>1, <2>8 DEF delayedMap, verdictMap
  <2> QED
    BY <2>4, <2>5, <2>7, <2>9 DEF Contract!Restore
<1>6. ASSUME LoadLockedIPs PROVE Contract!RestoreLocks
  <2>1. /\ phase = "loaded" /\ UNCHANGED <<now, row, pl, pc, retryAfter>>
    BY <1>6 DEF LoadLockedIPs, db, lists, threads
  <2>2. /\ \A e \in Endpoint : ~BeingPublished(e) /\ ~BeingRemoved(e)
        /\ \A e \in Endpoint : ~BeingPublished(e)' /\ ~BeingRemoved(e)'
    BY <1>1, <1>2, <1>3, <2>1
  <2>3. lockedMap = {}
    BY <2>1 DEF Starting, lockedMap, Locked
  <2>4. UNCHANGED verdictMap /\ UNCHANGED servedMap /\ UNCHANGED delayedMap
    BY <2>1, <2>2 DEF verdictMap, servedMap, delayedMap, Live
  <2>5. \A ip \in IP : Locked(ip)' => LockInDB(ip)
    BY <1>6, <2>1 DEF LoadLockedIPs, Locked
  <2>6. \A e \in Endpoint : e \in servedMap => ~LockInDB(IpOf[e])
    BY <2>1, <2>2 DEF Starting, servedMap
  <2>7. lockedMap' \in SUBSET {ip \in IP : Contract!PortsOf(ip) \cap servedMap = {}}
    BY <2>5, <2>6 DEF lockedMap, Contract!PortsOf
  <2> QED
    BY <2>3, <2>4, <2>7 DEF Contract!RestoreLocks
<1> QED
  BY <1>4, <1>5, <1>6

LEMMA ContractInit == Init => Contract!PoolInit
<1> SUFFICES ASSUME Init PROVE Contract!PoolInit
  OBVIOUS
<1>1. verdictMap = [e \in Endpoint |-> "unknown"]
  BY DEF Init, verdictMap, NoRow
<1>2. servedMap = {}
  BY DEF Init, servedMap, Live, NoEntry, BeingPublished, Publishing
<1>3. delayedMap = {} /\ lockedMap = {}
  BY DEF Init, delayedMap, lockedMap, Locked
<1> QED
  BY <1>1, <1>2, <1>3 DEF Contract!PoolInit

\* Every step of the cache is a step of its contract, or invisible.
LEMMA ContractStep ==
    IInv /\ [Next]_vars => [Contract!PoolNext]_(Contract!pool)
<1> SUFFICES ASSUME IInv, [Next]_vars
             PROVE  Contract!PoolNext \/ UNCHANGED Contract!pool
  OBVIOUS
<1>t. TypeInv /\ TypeInv' /\ TypeOK'
  BY TypeInvStep DEF IInv, TypeInv
<1>e. \A w \in Worker :
        pc[w] \notin {"idle"} \cup Sweeping =>
            job[w].e \in Endpoint /\ IpOf[job[w].e] \in IP
  BY <1>t, IpOfAssumption DEF TypeInv, Operands
<1> USE DEF Contract!PoolNext
<1>1. CASE UNCHANGED vars
  BY <1>1 DEF vars, db, lists, caches, threads, Contract!pool, verdictMap, servedMap,
              delayedMap, lockedMap, Live, Locked, BeingPublished, Publishing,
              BeingRemoved, Removing
<1>2. CASE Tick \/ Readers
  BY <1>t, <1>2, HiddenOthers
<1>3. CASE Process
  BY <1>t, <1>3, ProcessSteps DEF Process
<1>4. ASSUME NEW w \in Worker, Hidden(w) \/ FailureLoad(w)
      PROVE  Contract!PoolNext
  BY <1>t, <1>4, HiddenSteps, HiddenFailureLoad
<1>5. ASSUME NEW w \in Worker, UpsertSave(w) \/ SuccessUpdate(w)
      PROVE  Contract!PoolNext
  <2>1. job[w].e \in Endpoint
    BY <1>e, <1>5 DEF UpsertSave, SuccessUpdate, Sweeping
  <2> QED
    BY <1>t, <1>5, <2>1, AcceptStep
<1>6. ASSUME NEW w \in Worker, SuccessReloadError(w) PROVE Contract!PoolNext
  <2>1. job[w].e \in Endpoint
    BY <1>e, <1>6 DEF SuccessReloadError, Sweeping
  <2> QED
    BY <1>t, <1>6, <2>1, MisplaceStep
<1>7. ASSUME NEW w \in Worker, FailedUpdate(w) \/ UnavailableUpdate(w)
      PROVE  Contract!PoolNext
  <2>1. job[w].e \in Endpoint
    BY <1>e, <1>7 DEF FailedUpdate, UnavailableUpdate, Sweeping
  <2> QED
    BY <1>t, <1>7, <2>1, QuarantineStep
<1>8. ASSUME NEW w \in Worker, FailureQuarantine(w) PROVE Contract!PoolNext
  <2>1. IpOf[job[w].e] \in IP
    BY <1>e, <1>8 DEF FailureQuarantine, Sweeping
  <2> QED
    BY <1>t, <1>8, <2>1, LockOutStep
<1>9. ASSUME NEW w \in Worker, CleanupDelete(w) PROVE Contract!PoolNext
  BY <1>t, <1>9, ForgetStep
<1>10. ASSUME NEW w \in Worker, UpsertPublish(w) \/ SuccessPublish(w)
       PROVE  UNCHANGED Contract!pool
  BY <1>t, <1>10, PublishStep
<1>11. ASSUME NEW w \in Worker, FailedRemove(w) \/ FailureSave(w) \/ CleanupRemove(w)
       PROVE  UNCHANGED Contract!pool
  BY <1>t, <1>11, RemovalStep
<1> HIDE DEF Contract!PoolNext
<1>12. ASSUME NEW w \in Worker, Upsert(w) \/ Success(w)
       PROVE  Contract!PoolNext \/ UNCHANGED Contract!pool
  BY <1>4, <1>5, <1>6, <1>10, <1>12 DEF Upsert, Success, Hidden
<1>13. ASSUME NEW w \in Worker, Failed(w) \/ Unavailable(w)
       PROVE  Contract!PoolNext \/ UNCHANGED Contract!pool
  BY <1>4, <1>7, <1>11, <1>13 DEF Failed, Unavailable, Hidden
<1>14. ASSUME NEW w \in Worker, Failure(w) \/ Cleanup(w)
       PROVE  Contract!PoolNext \/ UNCHANGED Contract!pool
  BY <1>4, <1>8, <1>9, <1>11, <1>14 DEF Failure, Cleanup, Hidden
<1> QED
  BY <1>1, <1>2, <1>3, <1>12, <1>13, <1>14 DEF Next, Contract!PoolNext

\* The cache, statement by statement, with failing writes, racing readers and
\* crashes, implements the one-step contract its callers are written against.
THEOREM CacheImplementsContract == Spec => ImplementsContract
<1>1. Init => Contract!PoolInit
  BY ContractInit
<1>2. IInv /\ [Next]_vars => [Contract!PoolNext]_(Contract!pool)
  BY ContractStep
<1> QED
  BY <1>1, <1>2, Invariant, PTL DEF Spec, ImplementsContract, Contract!PoolSpec

\* What the contract itself guarantees: only sound endpoints are served.
LEMMA ContractIsSound == Contract!PoolSpec => []Contract!ServedIsSound
<1> DEFINE CInv == Contract!PoolTypeOK /\ Contract!ServedIsSound
<1>1. Contract!PoolInit => CInv
  BY DEF Contract!PoolInit, Contract!PoolTypeOK, Contract!ServedIsSound, Contract!Verdicts
<1>2. CInv /\ [Contract!PoolNext]_(Contract!pool) => CInv'
  <2> SUFFICES ASSUME CInv, [Contract!PoolNext]_(Contract!pool) PROVE CInv'
    OBVIOUS
  <2> USE DEF Contract!PoolTypeOK, Contract!ServedIsSound, Contract!Verdicts
  <2>1. ASSUME NEW e \in Endpoint,
               Contract!Accept(e) \/ Contract!Misplace(e) \/ Contract!Quarantine(e)
        PROVE  CInv'
    BY <2>1 DEF Contract!Accept, Contract!Misplace, Contract!Quarantine
  <2>2. ASSUME NEW ip \in IP, Contract!LockOut(ip) PROVE CInv'
    BY <2>2 DEF Contract!LockOut, Contract!PortsOf
  <2>3. ASSUME NEW gone \in SUBSET Endpoint, Contract!Forget(gone) PROVE CInv'
    BY <2>3 DEF Contract!Forget
  <2>4. CASE Contract!Elapse \/ Contract!Stop
    BY <2>4 DEF Contract!Elapse, Contract!Stop
  <2>5. CASE Contract!Restore \/ Contract!RestoreLocks
    BY <2>5 DEF Contract!Restore, Contract!RestoreLocks, Contract!PortsOf
  <2>6. CASE UNCHANGED Contract!pool
    BY <2>6 DEF Contract!pool
  <2> QED
    BY <2>1, <2>2, <2>3, <2>4, <2>5, <2>6 DEF Contract!PoolNext
<1>3. CInv => Contract!ServedIsSound
  OBVIOUS
<1> QED
  BY <1>1, <1>2, <1>3, PTL DEF Contract!PoolSpec

\* Whoever calls the cache, in any state between two statements: an endpoint he
\* is served is healthy, waits for no retry delay, and its IP is not locked.
THEOREM CallersAreServedSoundly == Spec => []Contract!ServedIsSound
BY CacheImplementsContract, ContractIsSound, PTL DEF ImplementsContract

-----------------------------------------------------------------------------
(* What holds when no write fails, and when no reader pauses.               *)

\* RecordFailure, between its read and its write, knows the count it read.
KnowsCount(w) ==
    LET ip == IpOf[job[w].e]
    IN  pc[w] \in {"failure_quarantine", "failure_save"} =>
          job[w].cnt = blocked[ip].count + 1

\* The bound on the count that BeginFailure checked still holds.
KnowsRoom(w) ==
    pc[w] \in {"failure", "failure_quarantine", "failure_save"} =>
        blocked[IpOf[job[w].e]].count < MaxCount

CountInv == HitsExact /\ \A w \in Worker : KnowsCount(w) /\ KnowsRoom(w)

\* Who writes the failures of an IP.
LEMMA CountFrame ==
    ASSUME [Next]_vars
    PROVE  \/ UNCHANGED <<blocked, hits>>
           \/ \E w \in Worker : UpsertPublish(w) \/ SuccessPublish(w) \/ FailureSave(w)
<1>1. CASE Tick \/ Process \/ Readers \/ UNCHANGED vars
  BY <1>1 DEF Tick, Process, Readers, Crash, Load, LoadLockedIPs, IsIPLockedExpired,
              IsIPLockedDelete, IsProxyValidationDueExpired, IsProxyValidationDueDelete,
              vars, db, history
<1>2. ASSUME NEW w \in Worker, Upsert(w)
      PROVE  UNCHANGED <<blocked, hits>> \/ UpsertPublish(w)
  BY <1>2 DEF Upsert, BeginUpsert, UpsertCheck, UpsertSave, UpsertSaveError, db, history
<1>3. ASSUME NEW w \in Worker, Success(w)
      PROVE  UNCHANGED <<blocked, hits>> \/ SuccessPublish(w)
  BY <1>3 DEF Success, BeginSuccess, SuccessCheck, SuccessUpdate, SuccessUpdateNone,
              SuccessReloadError, db, history
<1>4. ASSUME NEW w \in Worker, Failed(w) \/ Unavailable(w)
      PROVE  UNCHANGED <<blocked, hits>>
  BY <1>4 DEF Failed, BeginFailed, FailedLoad, FailedLoadNone, FailedUpdate,
              FailedUpdateNone, FailedRemove, Unavailable, BeginUnavailable,
              UnavailableLoad, UnavailableNone, UnavailableUpdate,
              UnavailableUpdateNone, db, history
<1>5. ASSUME NEW w \in Worker, Failure(w)
      PROVE  UNCHANGED <<blocked, hits>> \/ FailureSave(w)
  BY <1>5 DEF Failure, BeginFailure, FailureLoad, FailureQuarantine, db, history
<1>6. ASSUME NEW w \in Worker, Cleanup(w) PROVE UNCHANGED <<blocked, hits>>
  BY <1>6 DEF Cleanup, BeginCleanup, CleanupSelect, CleanupSelectNone, CleanupDelete,
              CleanupDeleteError, CleanupRemove, db, history
<1> QED
  BY <1>1, <1>2, <1>3, <1>4, <1>5, <1>6 DEF Next

\* How a goroutine comes to the statements of RecordFailure.
LEMMA FailureFrame ==
    ASSUME TypeInv, [Next]_vars, NEW w \in Worker,
           pc'[w] \in {"failure", "failure_quarantine", "failure_save"}
    PROVE  \/ pc'[w] = pc[w] /\ job'[w] = job[w]
           \/ \E e \in Endpoint : BeginFailure(w, e)
           \/ FailureLoad(w)
           \/ FailureQuarantine(w)
<1> USE DEF TypeInv, TypeOK
<1>1. CASE Tick \/ Process \/ Readers \/ UNCHANGED vars
  BY <1>1 DEF Tick, Process, Readers, Crash, Load, LoadLockedIPs, IsIPLockedExpired,
              IsIPLockedDelete, IsProxyValidationDueExpired, IsProxyValidationDueDelete,
              vars, threads
<1>2. ASSUME NEW v \in Worker, Upsert(v) PROVE pc'[w] = pc[w] /\ job'[w] = job[w]
  BY <1>2 DEF Upsert, BeginUpsert, UpsertCheck, UpsertSave, UpsertSaveError,
              UpsertPublish, Lock, Step, Learn, Return
<1>3. ASSUME NEW v \in Worker, Success(v) PROVE pc'[w] = pc[w] /\ job'[w] = job[w]
  BY <1>3 DEF Success, BeginSuccess, SuccessCheck, SuccessUpdate, SuccessUpdateNone,
              SuccessPublish, SuccessReloadError, Lock, Step, Learn, Return
<1>4. ASSUME NEW v \in Worker, Failed(v) PROVE pc'[w] = pc[w] /\ job'[w] = job[w]
  BY <1>4 DEF Failed, BeginFailed, FailedLoad, FailedLoadNone, FailedUpdate,
              FailedUpdateNone, FailedRemove, Lock, Step, Learn, Return
<1>5. ASSUME NEW v \in Worker, Unavailable(v) PROVE pc'[w] = pc[w] /\ job'[w] = job[w]
  BY <1>5 DEF Unavailable, BeginUnavailable, UnavailableLoad, UnavailableNone,
              UnavailableUpdate, UnavailableUpdateNone, Lock, Step, Learn, Return
<1>6. ASSUME NEW v \in Worker, Cleanup(v) PROVE pc'[w] = pc[w] /\ job'[w] = job[w]
  BY <1>6 DEF Cleanup, BeginCleanup, CleanupSelect, CleanupSelectNone, CleanupDelete,
              CleanupDeleteError, CleanupRemove, Lock, Step, Learn, Return
<1>7. ASSUME NEW v \in Worker, v # w, Failure(v)
      PROVE  pc'[w] = pc[w] /\ job'[w] = job[w]
  BY <1>7 DEF Failure, BeginFailure, FailureLoad, FailureQuarantine, FailureSave,
              Lock, Step, Learn, Return
<1>8. CASE FailureSave(w)
  BY <1>8 DEF FailureSave, Return
<1> QED
  BY <1>1, <1>2, <1>3, <1>4, <1>5, <1>6, <1>7, <1>8 DEF Next, Failure

LEMMA CountStep ==
    ASSUME ~DbFaults, TypeInv, TypeInv', CountInv, [Next]_vars
    PROVE  CountInv'
<1> USE DEF TypeInv, TypeOK
<1>1. HitsExact'
  <2>1. CASE UNCHANGED <<blocked, hits>>
    BY <2>1 DEF CountInv, HitsExact
  <2>2. ASSUME NEW w \in Worker, UpsertPublish(w) \/ SuccessPublish(w) PROVE HitsExact'
    BY <2>2 DEF UpsertPublish, SuccessPublish, ClearFailure, CountInv, HitsExact, NoBlock
  <2>3. ASSUME NEW w \in Worker, FailureSave(w) PROVE HitsExact'
    <3> DEFINE ip == IpOf[job[w].e]
    <3>1. ip \in IP /\ pc[w] = "failure_save"
      BY <2>3, IpOfAssumption DEF FailureSave, Operands, Sweeping
    <3>2. /\ job[w].cnt = blocked[ip].count + 1 /\ blocked[ip].count < MaxCount
          /\ blocked[ip].count = hits[ip]
      BY <3>1 DEF CountInv, KnowsCount, KnowsRoom, HitsExact
    <3>3. /\ blocked' = [blocked EXCEPT ![ip] = [count |-> job[w].cnt,
                                                 until |-> job[w].until]]
          /\ hits' = [hits EXCEPT ![ip] = IF @ < MaxCount THEN @ + 1 ELSE @]
      BY <2>3 DEF FailureSave
    <3> QED
      BY <3>1, <3>2, <3>3 DEF CountInv, HitsExact
  <2> QED
    BY <2>1, <2>2, <2>3, CountFrame
<1>2. ASSUME NEW w \in Worker,
             pc'[w] \in {"failure", "failure_quarantine", "failure_save"}
      PROVE  KnowsCount(w)' /\ KnowsRoom(w)'
  <2>1. UNCHANGED blocked
    <3>1. ASSUME NEW v \in Worker, UpsertPublish(v) \/ SuccessPublish(v) \/ FailureSave(v)
          PROVE  FALSE
      BY <1>2, <3>1, OneInside DEF UpsertPublish, SuccessPublish, FailureSave, Return
    <3> QED
      BY <3>1, CountFrame
  <2>2. CASE pc'[w] = pc[w] /\ job'[w] = job[w]
    BY <1>2, <2>1, <2>2 DEF CountInv, KnowsCount, KnowsRoom
  <2>3. ASSUME NEW e \in Endpoint, BeginFailure(w, e) PROVE KnowsCount(w)' /\ KnowsRoom(w)'
    BY <2>1, <2>3, LocalsFields DEF BeginFailure, Lock, KnowsCount, KnowsRoom
  <2>4. CASE FailureLoad(w)
    <3> DEFINE ip == IpOf[job[w].e]
    <3>1. pc[w] = "failure" /\ ip \in IP
      BY <2>4, IpOfAssumption DEF FailureLoad, Operands, Sweeping
    <3>2. \E t : job'[w] = Locals(job[w].e, 0, blocked[ip].count + 1, t, {})
      BY <2>4 DEF FailureLoad, Learn
    <3>3. job'[w].e = job[w].e /\ job'[w].cnt = blocked[ip].count + 1
      BY <3>2, LocalsFields
    <3> QED
      BY <2>1, <3>1, <3>3 DEF CountInv, KnowsCount, KnowsRoom
  <2>5. CASE FailureQuarantine(w)
    BY <2>1, <2>5 DEF FailureQuarantine, Step, CountInv, KnowsCount, KnowsRoom
  <2> QED
    BY <1>2, <2>2, <2>3, <2>4, <2>5, FailureFrame
<1>3. ASSUME NEW w \in Worker PROVE KnowsCount(w)' /\ KnowsRoom(w)'
  BY <1>2 DEF KnowsCount, KnowsRoom
<1> QED
  BY <1>1, <1>3 DEF CountInv

\* When no write fails, the failures of an IP are counted exactly, however the
\* reports of its endpoints and their successes interleave.
THEOREM IPFailuresAreExact == ASSUME ~DbFaults PROVE Spec => []HitsExact
<1>1. Init => CountInv
  BY DEF Init, CountInv, HitsExact, KnowsCount, KnowsRoom, NoBlock
<1>2. TypeInv /\ TypeInv' /\ CountInv /\ [Next]_vars => CountInv'
  BY CountStep
<1>3. CountInv => HitsExact
  BY DEF CountInv
<1> QED
  BY <1>1, <1>2, <1>3, TypeInvInit, TypeInvStep, PTL DEF Spec

\* While a goroutine stays before a statement of an operation, only the clock and
\* the lock-free readers take steps.
LEMMA WhileInside ==
    ASSUME TypeInv, [Next]_vars, NEW w \in Worker, pc[w] # "idle", pc'[w] = pc[w]
    PROVE  Tick \/ Readers \/ UNCHANGED vars
<1> USE DEF TypeInv, TypeOK
<1>1. mu = w /\ phase = "up" /\ \A v \in Worker : v # w => pc[v] = "idle"
  BY OneInside
<1>2. ~Process
  BY <1>1 DEF Process, Crash, Load, LoadLockedIPs
<1>3. ASSUME NEW v \in Worker, Upsert(v) PROVE FALSE
  BY <1>1, <1>3, NamesAssumption
     DEF Upsert, BeginUpsert, UpsertCheck, UpsertSave, UpsertSaveError, UpsertPublish,
         Lock, Step, Learn, Return
<1>4. ASSUME NEW v \in Worker, Success(v) PROVE FALSE
  BY <1>1, <1>4, NamesAssumption
     DEF Success, BeginSuccess, SuccessCheck, SuccessUpdate, SuccessUpdateNone,
         SuccessPublish, SuccessReloadError, Lock, Step, Learn, Return
<1>5. ASSUME NEW v \in Worker, Failed(v) PROVE FALSE
  BY <1>1, <1>5, NamesAssumption
     DEF Failed, BeginFailed, FailedLoad, FailedLoadNone, FailedUpdate,
         FailedUpdateNone, FailedRemove, Lock, Step, Learn, Return
<1>6. ASSUME NEW v \in Worker, Unavailable(v) PROVE FALSE
  BY <1>1, <1>6, NamesAssumption
     DEF Unavailable, BeginUnavailable, UnavailableLoad, UnavailableNone,
         UnavailableUpdate, UnavailableUpdateNone, Lock, Step, Learn, Return
<1>7. ASSUME NEW v \in Worker, Failure(v) PROVE FALSE
  BY <1>1, <1>7, NamesAssumption
     DEF Failure, BeginFailure, FailureLoad, FailureQuarantine, FailureSave,
         Lock, Step, Learn, Return
<1>8. ASSUME NEW v \in Worker, Cleanup(v) PROVE FALSE
  BY <1>1, <1>8, NamesAssumption
     DEF Cleanup, BeginCleanup, CleanupSelect, CleanupSelectNone, CleanupDelete,
         CleanupDeleteError, CleanupRemove, Lock, Step, Learn, Return
<1> QED
  BY <1>2, <1>3, <1>4, <1>5, <1>6, <1>7, <1>8 DEF Next

\* Who writes the retry delays.
LEMMA DelayFrame ==
    ASSUME [Next]_vars
    PROVE  \/ UNCHANGED <<now, phase, retryAfter, dueReads>>
           \/ Tick \/ Process \/ Readers
           \/ \E w \in Worker : \/ UpsertPublish(w) \/ SuccessPublish(w)
                                \/ SuccessReloadError(w)
                                \/ FailedUpdate(w) \/ UnavailableUpdate(w)
<1> USE DEF caches, reads
<1>1. CASE UNCHANGED vars
  BY <1>1 DEF vars
<1>2. ASSUME NEW w \in Worker, Upsert(w)
      PROVE  UNCHANGED <<now, phase, retryAfter, dueReads>> \/ UpsertPublish(w)
  BY <1>2 DEF Upsert, BeginUpsert, UpsertCheck, UpsertSave, UpsertSaveError
<1>3. ASSUME NEW w \in Worker, Success(w)
      PROVE  \/ UNCHANGED <<now, phase, retryAfter, dueReads>>
             \/ SuccessPublish(w) \/ SuccessReloadError(w)
  BY <1>3 DEF Success, BeginSuccess, SuccessCheck, SuccessUpdate, SuccessUpdateNone
<1>4. ASSUME NEW w \in Worker, Failed(w) \/ Unavailable(w)
      PROVE  \/ UNCHANGED <<now, phase, retryAfter, dueReads>>
             \/ FailedUpdate(w) \/ UnavailableUpdate(w)
  BY <1>4 DEF Failed, BeginFailed, FailedLoad, FailedLoadNone, FailedUpdateNone,
              FailedRemove, Unavailable, BeginUnavailable, UnavailableLoad,
              UnavailableNone, UnavailableUpdateNone
<1>5. ASSUME NEW w \in Worker, Failure(w) \/ Cleanup(w)
      PROVE  UNCHANGED <<now, phase, retryAfter, dueReads>>
  BY <1>5 DEF Failure, BeginFailure, FailureLoad, FailureQuarantine, FailureSave,
              Cleanup, BeginCleanup, CleanupSelect, CleanupSelectNone, CleanupDelete,
              CleanupDeleteError, CleanupRemove
<1> QED
  BY <1>1, <1>2, <1>3, <1>4, <1>5 DEF Next

\* A persisted delay that has not ended is in memory, at least as long.
DelayHeld(e) ==
    row[e].gen # 0 /\ ~row[e].available /\ now < row[e].next
        => retryAfter[e] >= row[e].next

DelayInv ==
    /\ dueReads = {}
    /\ \A e \in Endpoint : row[e].available => row[e].next = 0
    /\ phase # "down" => \A e \in Endpoint : DelayHeld(e)

LEMMA DelayStep ==
    ASSUME ~RacyReads, IInv, IInv', DelayInv, [Next]_vars
    PROVE  DelayInv'
<1> USE DEF IInv, TypeInv, TypeOK
<1>1. dueReads' = {}
  BY DelayFrame DEF DelayInv, Tick, Process, Crash, Load, LoadLockedIPs, Readers,
        IsIPLockedExpired, IsIPLockedDelete, IsProxyValidationDueExpired,
        IsProxyValidationDueDelete, UpsertPublish, SuccessPublish,
        SuccessReloadError, FailedUpdate, UnavailableUpdate, reads
<1>2. \A e \in Endpoint : row'[e].available => row'[e].next = 0
  <2>1. CASE UNCHANGED <<row, streak>>
    BY <2>1 DEF DelayInv
  <2>2. ASSUME NEW w \in Worker, UpsertSave(w) \/ SuccessUpdate(w)
        PROVE  \E g : row' = [row EXCEPT ![job[w].e] = Healthy(g)]
    BY <2>2 DEF UpsertSave, SuccessUpdate
  <2>3. ASSUME NEW w \in Worker, FailedUpdate(w) \/ UnavailableUpdate(w)
        PROVE  \E g, n : row' = [row EXCEPT ![job[w].e] = Quarantined(g, n)]
    BY <2>3 DEF FailedUpdate, UnavailableUpdate, Quarantine
  <2>4. ASSUME NEW w \in Worker, FailureQuarantine(w) \/ CleanupDelete(w)
        PROVE  \A e \in Endpoint : \/ row'[e] = row[e] \/ row'[e] = NoRow
                                   \/ row'[e] = Suspended(row[e])
    BY <2>4 DEF FailureQuarantine, CleanupDelete
  <2>5. ASSUME NEW w \in Worker,
               \/ UpsertSave(w) \/ SuccessUpdate(w) \/ FailedUpdate(w)
               \/ UnavailableUpdate(w) \/ FailureQuarantine(w) \/ CleanupDelete(w)
        PROVE  \A e \in Endpoint : row'[e].available => row'[e].next = 0
    <3>1. ASSUME NEW r PROVE ~Suspended(r).available /\ ~NoRow.available
      BY DEF Suspended, NoRow
    <3>3. CASE FailureQuarantine(w) \/ CleanupDelete(w)
      BY <2>4, <3>1, <3>3 DEF DelayInv
    <3>4. CASE UpsertSave(w) \/ SuccessUpdate(w)
      <4>1. PICK g : row' = [row EXCEPT ![job[w].e] = Healthy(g)]
        BY <2>2, <3>4
      <4>2. Healthy(g).next = 0
        BY DEF Healthy
      <4> QED
        BY <4>1, <4>2 DEF DelayInv
    <3>5. CASE FailedUpdate(w) \/ UnavailableUpdate(w)
      <4>1. PICK g, n : row' = [row EXCEPT ![job[w].e] = Quarantined(g, n)]
        BY <2>3, <3>5
      <4>2. ~Quarantined(g, n).available
        BY DEF Quarantined
      <4> QED
        BY <4>1, <4>2 DEF DelayInv
    <3> QED
      BY <2>5, <3>3, <3>4, <3>5
  <2> QED
    BY <2>1, <2>5, RowFrame
<1>3. \A e \in Endpoint : row[e].next \in Nat /\ row'[e].next \in Nat
  BY RowTypes
\* A step that leaves the delays of an endpoint alone, or ends one that is over.
<1>4. ASSUME phase # "down", NEW e \in Endpoint, now' >= now,
             \/ row'[e] = row[e]
             \/ row'[e].gen = 0 \/ row'[e].available \/ row'[e].next = 0,
             \/ retryAfter'[e] = retryAfter[e] \/ now >= retryAfter[e]
             \/ row'[e].available
      PROVE  DelayHeld(e)'
  <2>1. now \in Nat /\ now' \in Nat /\ retryAfter[e] \in Nat /\ retryAfter'[e] \in Nat
    OBVIOUS
  <2>2. DelayHeld(e)
    BY <1>4 DEF DelayInv
  <2> QED
    BY <1>3, <1>4, <2>1, <2>2 DEF DelayHeld
\* A failure stores the same delay in the row and in memory.
<1>5. ASSUME NEW w \in Worker, FailedUpdate(w) \/ UnavailableUpdate(w)
      PROVE  \A e \in Endpoint : DelayHeld(e)'
  <2>1. PICK x \in Endpoint : x = job[w].e /\ phase = "up"
    BY <1>5, OneInside DEF FailedUpdate, UnavailableUpdate, Operands, Sweeping
  <2>2. Quarantine(x, job[w].cnt) /\ UNCHANGED now
    BY <1>5, <2>1 DEF FailedUpdate, UnavailableUpdate
  <2>3. DelayHeld(x)'
    <3>1. /\ row'[x].next = now + RetryBackoff(job[w].cnt)
          /\ retryAfter'[x] = now + RetryBackoff(job[w].cnt)
      BY <2>1, <2>2 DEF Quarantine, Quarantined
    <3> QED
      BY <1>3, <3>1 DEF DelayHeld
  <2>4. \A e \in Endpoint : e # x => row'[e] = row[e] /\ retryAfter'[e] = retryAfter[e]
    BY <2>1, <2>2 DEF Quarantine
  <2>5. now' >= now
    BY <2>2
  <2> QED
    BY <1>4, <2>1, <2>3, <2>4, <2>5
\* The same for rows a step rewrites.
<1>6. ASSUME NEW e \in Endpoint, UNCHANGED <<now, phase, retryAfter>>, phase # "down"
      PROVE  DelayHeld(e)'
  <2>1. now' >= now /\ retryAfter'[e] = retryAfter[e]
    BY <1>6
  <2>2. ASSUME NEW w \in Worker, UpsertSave(w) \/ SuccessUpdate(w)
        PROVE  row'[e] = row[e] \/ row'[e].available
    <3>1. PICK g : row' = [row EXCEPT ![job[w].e] = Healthy(g)]
      BY <2>2 DEF UpsertSave, SuccessUpdate
    <3> QED
      BY <3>1 DEF Healthy
  <2>3. ASSUME NEW w \in Worker, FailureQuarantine(w)
        PROVE  DelayHeld(e)'
    <3>1. \/ row'[e] = row[e]
          \/ row'[e] = Suspended(row[e]) /\ row[e].gen # 0
      BY <2>3 DEF FailureQuarantine
    <3>2. CASE row'[e] = row[e]
      BY <1>4, <1>6, <2>1, <3>2
    <3>3. CASE row'[e] = Suspended(row[e]) /\ row[e].gen # 0 /\ row[e].available
      <4>1. row'[e].next = 0
        BY <3>3 DEF Suspended, DelayInv
      <4> QED
        BY <1>4, <1>6, <2>1, <4>1
    <3>4. CASE row'[e] = Suspended(row[e]) /\ row[e].gen # 0 /\ ~row[e].available
      <4>1. row'[e].next = row[e].next
        BY <3>4 DEF Suspended
      <4>2. DelayHeld(e)
        BY <1>6 DEF DelayInv
      <4> QED
        BY <1>6, <3>4, <4>1, <4>2 DEF DelayHeld
    <3> QED
      BY <3>1, <3>2, <3>3, <3>4
  <2>4. ASSUME NEW w \in Worker, CleanupDelete(w)
        PROVE  row'[e] = row[e] \/ row'[e].gen = 0
    BY <2>4 DEF CleanupDelete, NoRow
  <2>5. CASE UNCHANGED <<row, streak>>
    BY <1>4, <1>6, <2>1, <2>5
  <2> QED
    BY <1>4, <1>5, <1>6, <2>1, <2>2, <2>3, <2>4, <2>5, RowFrame
<1>7. ASSUME phase' # "down" PROVE \A e \in Endpoint : DelayHeld(e)'
  <2>1. CASE UNCHANGED <<now, phase, retryAfter, dueReads>>
    BY <1>6, <1>7, <2>1
  <2>2. CASE Tick
    <3>1. UNCHANGED <<row, phase, retryAfter>> /\ now' >= now
      BY <2>2 DEF Tick, db, caches
    <3> QED
      BY <1>4, <1>7, <3>1
  <2>3. CASE Readers
    <3>1. UNCHANGED <<row, phase, now>>
      BY <2>3 DEF Readers, IsIPLockedExpired, IsIPLockedDelete,
                  IsProxyValidationDueExpired, IsProxyValidationDueDelete, db
    <3>2. \A e \in Endpoint : retryAfter'[e] = retryAfter[e] \/ now >= retryAfter[e]
      BY <2>3 DEF Readers, IsIPLockedExpired, IsIPLockedDelete, DelayInv,
                  IsProxyValidationDueExpired, IsProxyValidationDueDelete
    <3>3. now' >= now
      BY <3>1
    <3> QED
      BY <1>4, <1>7, <3>1, <3>2, <3>3
  <2>4. CASE Load
    <3>1. UNCHANGED <<now, row>>
      BY <2>4 DEF Load, db
    <3>2. \A e \in Endpoint : row[e].gen # 0 /\ ~row[e].available /\ row[e].next > now
                                => retryAfter'[e] = row[e].next
      BY <2>4 DEF Load
    <3> QED
      BY <1>3, <3>1, <3>2 DEF DelayHeld
  <2>5. CASE LoadLockedIPs
    <3>1. phase # "down" /\ UNCHANGED <<now, row, retryAfter>>
      BY <2>5 DEF LoadLockedIPs, db
    <3> QED
      BY <3>1 DEF DelayInv, DelayHeld
  <2>6. CASE Crash
    BY <1>7, <2>6 DEF Crash
  <2>7. ASSUME NEW w \in Worker,
               UpsertPublish(w) \/ SuccessPublish(w) \/ SuccessReloadError(w)
        PROVE  \A e \in Endpoint : DelayHeld(e)'
    <3>1. PICK x \in Endpoint : x = job[w].e /\ row[x].available /\ phase = "up"
      BY <2>7, OneInside DEF UpsertPublish, SuccessPublish, SuccessReloadError,
                             Operands, Sweeping, AtLabel, Knows
    <3>2. UNCHANGED <<now, row>> /\ retryAfter' = [retryAfter EXCEPT ![x] = 0]
      BY <2>7, <3>1 DEF UpsertPublish, SuccessPublish, SuccessReloadError, db
    <3>3. now' >= now
      BY <3>2
    <3> QED
      BY <1>4, <3>1, <3>2, <3>3
  <2> QED
    BY <2>1, <2>2, <2>3, <2>4, <2>5, <2>6, <2>7, <1>5, DelayFrame DEF Process
<1> QED
  BY <1>1, <1>2, <1>7 DEF DelayInv

\* When no reader pauses between its Load and its Delete, a retry delay is in
\* memory until it ends, whatever fails, succeeds or restarts in between.
THEOREM RetryDelaysAreKept == ASSUME ~RacyReads PROVE Spec => []RetryDelayKept
<1>1. Init => DelayInv
  BY DEF Init, DelayInv, NoRow
<1>2. IInv /\ IInv' /\ DelayInv /\ [Next]_vars => DelayInv'
  BY DelayStep
<1>3. IInv /\ DelayInv => RetryDelayKept
  <2> SUFFICES ASSUME IInv, DelayInv, phase = "up", NEW e \in Endpoint,
                      row[e].gen # 0, ~row[e].available, now < row[e].next
               PROVE  now < retryAfter[e]
    BY DEF RetryDelayKept
  <2>1. now \in Nat /\ row[e].next \in Nat /\ retryAfter[e] \in Nat
    BY RowTypes DEF IInv, TypeInv, TypeOK
  <2>2. retryAfter[e] >= row[e].next
    BY DEF DelayInv, DelayHeld
  <2> QED
    BY <2>1, <2>2
<1> QED
  BY <1>1, <1>2, <1>3, IInvInit, IInvStep, PTL DEF Spec

\* A lock that was reported and has not ended is in the table, and in memory
\* once the process is up.
LockHeld(ip) ==
    now < promised[ip] =>
        /\ blocked[ip].until >= promised[ip]
        /\ phase = "up" => lockedIPs[ip] >= promised[ip]

\* A lock about to be stored ends no earlier than those reported before, and no
\* later than a lock computed now.
KnowsEnd(w) ==
    LET ip == IpOf[job[w].e]
        t  == job[w].until
    IN  /\ pc[w] = "failure_quarantine" => promised[ip] <= t /\ t <= now + LockDuration
        /\ pc[w] = "failure_save" =>
             IF job[w].cnt >= LockThreshold
             THEN /\ promised[ip] <= t /\ t <= now + LockDuration
                  /\ lockedIPs[ip] = t \/ now >= t
             ELSE t = blocked[ip].until

LockCore ==
    /\ lockReads = {}
    /\ \A ip \in IP : promised[ip] <= now + LockDuration
    /\ \A ip \in IP : LockHeld(ip)
    /\ PromisedLockKept

LockInv == LockCore /\ \A w \in Worker : KnowsEnd(w)

\* Who writes the locks, or puts an endpoint into the pool.
LEMMA LockFrame ==
    ASSUME TypeInv, [Next]_vars
    PROVE  \/ /\ UNCHANGED <<now, phase, blocked, promised, lockedIPs, lockReads>>
              /\ \A e \in Endpoint : Live(e)' => Live(e)
           \/ Tick \/ Process \/ Readers
           \/ \E w \in Worker : \/ UpsertCheck(w) \/ SuccessCheck(w)
                                \/ UpsertPublish(w) \/ SuccessPublish(w)
                                \/ FailureQuarantine(w) \/ FailureSave(w)
<1> USE DEF db, lists, caches, reads, history
<1> DEFINE Quiet == /\ UNCHANGED <<now, phase, blocked, promised, lockedIPs, lockReads>>
                    /\ \A e \in Endpoint : Live(e)' => Live(e)
<1>1. CASE UNCHANGED vars
  BY <1>1 DEF vars, Live
<1>2. ASSUME NEW w \in Worker, Upsert(w)
      PROVE  Quiet \/ UpsertCheck(w) \/ UpsertPublish(w)
  BY <1>2 DEF Upsert, BeginUpsert, UpsertSave, UpsertSaveError, Live
<1>3. ASSUME NEW w \in Worker, Success(w)
      PROVE  Quiet \/ SuccessCheck(w) \/ SuccessPublish(w)
  BY <1>3 DEF Success, BeginSuccess, SuccessUpdate, SuccessUpdateNone,
              SuccessReloadError, Live
<1>4. ASSUME NEW w \in Worker, Failed(w) PROVE Quiet
  BY <1>4 DEF Failed, BeginFailed, FailedLoad, FailedLoadNone, FailedUpdate,
              FailedUpdateNone, FailedRemove, RemoveEndpoints, NoEntry, Live
<1>5. ASSUME NEW w \in Worker, Unavailable(w) PROVE Quiet
  BY <1>5 DEF Unavailable, BeginUnavailable, UnavailableLoad, UnavailableNone,
              UnavailableUpdate, UnavailableUpdateNone, RemoveEndpoints, NoEntry, Live
<1>6. ASSUME NEW w \in Worker, Failure(w)
      PROVE  Quiet \/ FailureQuarantine(w) \/ FailureSave(w)
  BY <1>6 DEF Failure, BeginFailure, FailureLoad, Live
<1>7. ASSUME NEW w \in Worker, Cleanup(w) PROVE Quiet
  BY <1>7 DEF Cleanup, BeginCleanup, CleanupSelect, CleanupSelectNone, CleanupDelete,
              CleanupDeleteError, CleanupRemove, RemoveEndpoints, NoEntry, Live
<1> QED
  BY <1>1, <1>2, <1>3, <1>4, <1>5, <1>6, <1>7 DEF Next

\* Time passes, locks that are over are deleted, endpoints leave the pool.
LEMMA LockEase ==
    ASSUME TypeInv, TypeOK', LockCore,
           UNCHANGED <<blocked, promised, lockReads>>, now' >= now,
           phase' = "up" => phase = "up",
           \A ip \in IP : lockedIPs'[ip] = lockedIPs[ip] \/ now >= lockedIPs[ip]
                          \/ phase' # "up",
           \A e \in Endpoint : Live(e)' => Live(e)
    PROVE  LockCore'
<1> USE DEF TypeInv, TypeOK
<1>1. \A ip \in IP : /\ promised[ip] \in Nat /\ lockedIPs[ip] \in Nat
                     /\ lockedIPs'[ip] \in Nat /\ blocked[ip].until \in Nat
  BY BlockTypes
<1>2. now \in Nat /\ now' \in Nat /\ LockDuration \in Nat
  BY LimitsAssumption
<1>3. \A ip \in IP : promised'[ip] <= now' + LockDuration
  BY <1>1, <1>2 DEF LockCore
<1>4. ASSUME NEW ip \in IP PROVE LockHeld(ip)'
  <2>1. LockHeld(ip)
    BY DEF LockCore
  <2> QED
    BY <1>1, <1>2, <2>1 DEF LockHeld
<1>5. PromisedLockKept'
  BY <1>1, <1>2, IpOfAssumption DEF LockCore, PromisedLockKept
<1> QED
  BY <1>3, <1>4, <1>5 DEF LockCore

\* An endpoint is published when its IP is not locked, so no reported lock is
\* cleared before it ends.
LEMMA LockPublish ==
    ASSUME IInv, TypeOK', LockCore, NEW w \in Worker, UpsertPublish(w) \/ SuccessPublish(w)
    PROVE  LockCore'
<1> USE DEF IInv, TypeInv, TypeOK
<1>1. PICK e \in Endpoint : /\ e = job[w].e /\ IpOf[e] \in IP /\ ~Locked(IpOf[e])
                            /\ phase = "up"
  BY IpOfAssumption, OneInside DEF UpsertPublish, SuccessPublish, Operands, Sweeping,
                                   AtLabel, Knows
<1> DEFINE ip == IpOf[e]
<1>2. UNCHANGED <<now, phase, promised, lockReads>>
  BY DEF UpsertPublish, SuccessPublish, reads
<1>3. \A i \in IP : promised[i] \in Nat /\ lockedIPs[i] \in Nat
  OBVIOUS
<1>4. now \in Nat /\ ~(now < lockedIPs[ip]) /\ LockHeld(ip)
  BY <1>1 DEF Locked, LockCore
<1>5. ~(now < promised[ip])
  BY <1>1, <1>3, <1>4 DEF LockHeld
<1>6. \A i \in IP : i # ip => blocked'[i] = blocked[i] /\ lockedIPs'[i] = lockedIPs[i]
  BY <1>1 DEF UpsertPublish, SuccessPublish, ClearFailure
<1>7. \A x \in Endpoint : Live(x)' => Live(x) \/ x = e
  BY <1>1 DEF UpsertPublish, SuccessPublish, lists, Live
<1>8. ASSUME NEW i \in IP PROVE LockHeld(i)'
  <2>1. LockHeld(i)
    BY DEF LockCore
  <2> QED
    BY <1>2, <1>5, <1>6, <2>1 DEF LockHeld
<1>9. PromisedLockKept'
  BY <1>1, <1>2, <1>5, <1>7 DEF LockCore, PromisedLockKept
<1> QED
  BY <1>2, <1>8, <1>9 DEF LockCore

\* RecordFailure stores the lock in memory first ...
LEMMA LockQuarantine ==
    ASSUME IInv, TypeOK', LockInv, NEW w \in Worker, FailureQuarantine(w)
    PROVE  LockCore'
<1> USE DEF IInv, TypeInv, TypeOK
<1> DEFINE ip == IpOf[job[w].e]
<1>1. ip \in IP /\ pc[w] = "failure_quarantine"
  BY IpOfAssumption DEF FailureQuarantine, Operands, Sweeping
<1>2. /\ UNCHANGED <<now, phase, blocked, promised, lockReads, pl>>
      /\ lockedIPs' = [lockedIPs EXCEPT ![ip] = job[w].until]
  BY DEF FailureQuarantine, reads, lists, history
<1>3. promised[ip] <= job[w].until
  BY <1>1 DEF LockInv, KnowsEnd
<1>4. ASSUME NEW i \in IP PROVE LockHeld(i)'
  <2>1. LockHeld(i)
    BY DEF LockInv, LockCore
  <2> QED
    BY <1>1, <1>2, <1>3, <2>1 DEF LockHeld
<1>5. PromisedLockKept'
  BY <1>2 DEF LockInv, LockCore, PromisedLockKept, Live
<1> QED
  BY <1>2, <1>4, <1>5 DEF LockInv, LockCore

\* ... then sweeps the pool, stores it in the table, and reports it.
LEMMA LockSave ==
    ASSUME ~DbFaults, IInv, TypeOK', LockInv, NEW w \in Worker, FailureSave(w)
    PROVE  LockCore'
<1> USE DEF IInv, TypeInv, TypeOK
<1>1. PICK ip \in IP : ip = IpOf[job[w].e] /\ pc[w] = "failure_save"
  BY IpOfAssumption DEF FailureSave, Operands, Sweeping
<1>l. PICK locked \in BOOLEAN : locked <=> job[w].cnt >= LockThreshold
  OBVIOUS
<1>2. /\ UNCHANGED <<now, phase, lockedIPs, lockReads>>
      /\ blocked' = [blocked EXCEPT ![ip] = [count |-> job[w].cnt, until |-> job[w].until]]
      /\ promised' = [promised EXCEPT ![ip] = IF locked THEN job[w].until ELSE @]
  BY <1>1, <1>l DEF FailureSave, reads, caches
<1>3. \A x \in Endpoint : Live(x)' => Live(x) /\ ~(locked /\ IpOf[x] = ip)
  BY <1>1, <1>l DEF FailureSave, RemoveIP, RemoveEndpoints, NoEntry, Live, lists
<1>4. KnowsEnd(w) /\ LockHeld(ip) /\ promised[ip] <= now + LockDuration
  BY <1>1 DEF LockInv, LockCore
<1>5. /\ now \in Nat /\ job[w].until \in Int /\ promised[ip] \in Nat /\ lockedIPs[ip] \in Nat
      /\ blocked[ip].until \in Nat /\ LockDuration \in Nat
  BY <1>1, BlockTypes, JobTypes, LimitsAssumption
<1>6. /\ blocked'[ip].until = job[w].until
      /\ promised'[ip] = IF locked THEN job[w].until ELSE promised[ip]
      /\ \A i \in IP : i # ip => blocked'[i] = blocked[i] /\ promised'[i] = promised[i]
  BY <1>1, <1>2
<1> HIDE DEF IInv, TypeInv, TypeOK
<1>7. LockHeld(ip)' /\ promised'[ip] <= now + LockDuration
  <2>1. CASE locked
    <3>1. job[w].until <= now + LockDuration /\ (lockedIPs[ip] = job[w].until \/ now >= job[w].until)
      BY <1>1, <1>l, <1>4, <2>1 DEF KnowsEnd
    <3>2. promised'[ip] = job[w].until /\ blocked'[ip].until = job[w].until
      BY <1>6, <2>1
    <3>3. now' = now /\ lockedIPs'[ip] = lockedIPs[ip]
      BY <1>2
    <3> QED
      BY <1>5, <3>1, <3>2, <3>3 DEF LockHeld
  <2>2. CASE ~locked
    <3>1. job[w].until = blocked[ip].until
      BY <1>1, <1>l, <1>4, <2>2 DEF KnowsEnd
    <3>2. promised'[ip] = promised[ip] /\ blocked'[ip].until = blocked[ip].until
      BY <1>6, <2>2, <3>1
    <3>3. now' = now /\ phase' = phase /\ lockedIPs'[ip] = lockedIPs[ip]
      BY <1>2
    <3> QED
      BY <1>4, <3>2, <3>3 DEF LockHeld
  <2> QED
    BY <2>1, <2>2
<1>8. ASSUME NEW i \in IP PROVE LockHeld(i)' /\ promised'[i] <= now' + LockDuration
  <2>1. LockHeld(i) /\ promised[i] <= now + LockDuration
    BY DEF LockInv, LockCore
  <2>2. CASE i # ip
    <3>1. promised'[i] = promised[i] /\ blocked'[i].until = blocked[i].until
      BY <1>6, <2>2
    <3>2. now' = now /\ phase' = phase /\ lockedIPs'[i] = lockedIPs[i]
      BY <1>2
    <3> QED
      BY <2>1, <3>1, <3>2 DEF LockHeld
  <2>3. CASE i = ip
    BY <1>2, <1>7, <2>3
  <2> QED
    BY <2>2, <2>3
<1>9. PromisedLockKept'
  <2> SUFFICES ASSUME NEW x \in Endpoint, now' < promised'[IpOf[x]] PROVE ~Live(x)'
    BY DEF PromisedLockKept
  <2>1. IpOf[x] \in IP
    BY IpOfAssumption
  <2>2. CASE locked /\ IpOf[x] = ip
    BY <1>3, <2>2
  <2>3. CASE ~(locked /\ IpOf[x] = ip)
    <3>1. promised'[IpOf[x]] = promised[IpOf[x]]
      BY <1>6, <2>1, <2>3
    <3> QED
      BY <1>2, <1>3, <3>1 DEF LockInv, LockCore, PromisedLockKept
  <2> QED
    BY <2>2, <2>3
<1> QED
  BY <1>2, <1>8, <1>9 DEF LockInv, LockCore

LEMMA LockCoreStep ==
    ASSUME ~DbFaults, ~RacyReads, IInv, IInv', LockInv, [Next]_vars
    PROVE  LockCore'
<1> USE DEF IInv, TypeInv, TypeOK
<1>t. TypeInv /\ TypeOK' /\ LockCore /\ now \in Nat
  BY DEF LockInv
<1>1. CASE /\ UNCHANGED <<now, phase, blocked, promised, lockedIPs, lockReads>>
           /\ \A e \in Endpoint : Live(e)' => Live(e)
  <2>1. now' >= now
    BY <1>1, <1>t
  <2> QED
    BY <1>1, <1>t, <2>1, LockEase
<1>2. CASE Tick
  <2>1. /\ UNCHANGED <<phase, blocked, promised, lockedIPs, lockReads, pl>> /\ now' >= now
    BY <1>2 DEF Tick, db, caches, reads, lists, history
  <2> QED
    BY <1>t, <2>1, LockEase DEF Live
<1>3. CASE Readers
  <2>1. UNCHANGED <<now, phase, blocked, promised, lockReads, pl>>
    BY <1>3, <1>t DEF Readers, IsIPLockedExpired, IsIPLockedDelete, LockCore,
                      IsProxyValidationDueExpired, IsProxyValidationDueDelete,
                      db, reads, lists, history
  <2>2. \A ip \in IP : lockedIPs'[ip] = lockedIPs[ip] \/ now >= lockedIPs[ip]
    BY <1>3, <1>t DEF Readers, IsIPLockedExpired, IsIPLockedDelete, LockCore,
                      IsProxyValidationDueExpired, IsProxyValidationDueDelete
  <2>3. now' >= now
    BY <1>t, <2>1
  <2> QED
    BY <1>t, <2>1, <2>2, <2>3, LockEase DEF Live
<1>4. ASSUME NEW w \in Worker, UpsertCheck(w) \/ SuccessCheck(w) PROVE LockCore'
  <2>1. UNCHANGED <<now, phase, blocked, promised, lockReads, pl>>
    BY <1>4 DEF UpsertCheck, SuccessCheck, db, reads, lists, history
  <2>2. \A ip \in IP : lockedIPs'[ip] = lockedIPs[ip] \/ now >= lockedIPs[ip]
    BY <1>4, <1>t DEF UpsertCheck, SuccessCheck, DropExpiredLock
  <2>3. now' >= now
    BY <1>t, <2>1
  <2> QED
    BY <1>t, <2>1, <2>2, <2>3, LockEase DEF Live
<1>5. CASE Crash
  <2>1. /\ UNCHANGED <<now, blocked, promised>> /\ phase' # "up" /\ lockReads' = {}
        /\ \A e \in Endpoint : ~Live(e)'
    BY <1>5 DEF Crash, NoEntry, Live, db, history
  <2>2. UNCHANGED lockReads /\ now' >= now
    BY <1>t, <2>1 DEF LockCore
  <2> QED
    BY <1>t, <2>1, <2>2, LockEase
<1>6. CASE Load
  <2>1. UNCHANGED <<now, blocked, promised, lockReads>> /\ phase' # "up"
    BY <1>6 DEF Load, db, reads, history
  <2>2. \A e \in Endpoint : Live(e)' => ~LockInDB(IpOf[e])
    BY <1>6 DEF Load, NoEntry, Live
  <2>3. ASSUME NEW ip \in IP PROVE LockHeld(ip)'
    <3>1. LockHeld(ip)
      BY <1>t DEF LockCore
    <3> QED
      BY <2>1, <3>1 DEF LockHeld
  <2>4. PromisedLockKept'
    <3> SUFFICES ASSUME NEW e \in Endpoint, now < promised[IpOf[e]], Live(e)' PROVE FALSE
      BY <2>1 DEF PromisedLockKept
    <3>1. IpOf[e] \in IP
      BY IpOfAssumption
    <3>2. LockHeld(IpOf[e]) /\ ~(now < blocked[IpOf[e]].until)
      BY <1>t, <2>2, <3>1 DEF LockCore, LockInDB
    <3>3. promised[IpOf[e]] \in Nat /\ blocked[IpOf[e]].until \in Nat
      BY <3>1, BlockTypes
    <3> QED
      BY <1>t, <3>2, <3>3 DEF LockHeld
  <2> QED
    BY <1>t, <2>1, <2>3, <2>4 DEF LockCore
<1>7. CASE LoadLockedIPs
  <2>1. UNCHANGED <<now, blocked, promised, lockReads, pl>>
    BY <1>7 DEF LoadLockedIPs, db, lists, reads, history
  <2>2. ASSUME NEW ip \in IP PROVE LockHeld(ip)'
    <3>1. LockHeld(ip)
      BY <1>t DEF LockCore
    <3>2. lockedIPs'[ip] = IF now < blocked[ip].until THEN blocked[ip].until ELSE 0
      BY <1>7 DEF LoadLockedIPs, LockInDB
    <3>3. promised[ip] \in Nat /\ blocked[ip].until \in Nat
      BY BlockTypes
    <3> QED
      BY <1>t, <2>1, <3>1, <3>2, <3>3 DEF LockHeld
  <2>3. PromisedLockKept'
    BY <1>t, <2>1 DEF LockCore, PromisedLockKept, Live
  <2> QED
    BY <1>t, <2>1, <2>2, <2>3 DEF LockCore
<1> HIDE DEF IInv, TypeInv, TypeOK
<1>8. ASSUME NEW w \in Worker, \/ UpsertPublish(w) \/ SuccessPublish(w)
                               \/ FailureQuarantine(w) \/ FailureSave(w)
      PROVE  LockCore'
  BY <1>8, <1>t, LockPublish, LockQuarantine, LockSave
<1> QED
  BY <1>1, <1>2, <1>3, <1>4, <1>5, <1>6, <1>7, <1>8, <1>t, LockFrame DEF Process

LEMMA KnowsEndStep ==
    ASSUME ~DbFaults, ~RacyReads, IInv, IInv', LockInv, [Next]_vars, NEW w \in Worker
    PROVE  KnowsEnd(w)'
<1> USE DEF IInv, TypeInv, TypeOK
<1> SUFFICES ASSUME pc'[w] \in {"failure_quarantine", "failure_save"} PROVE KnowsEnd(w)'
  BY DEF KnowsEnd
<1>1. LockDuration \in Nat /\ now \in Nat /\ now' \in Nat
  BY LimitsAssumption
<1>2. CASE pc'[w] = pc[w] /\ job'[w] = job[w]
  <2> DEFINE ip == IpOf[job[w].e]
  <2>1. Tick \/ Readers \/ UNCHANGED vars
    BY <1>2, WhileInside
  <2>2. ip \in IP /\ job[w].until \in Nat
    BY <1>2, IpOfAssumption DEF Operands, Sweeping
  <2>3. UNCHANGED <<blocked, promised>> /\ now' >= now
    BY <1>1, <2>1 DEF Tick, Readers, IsIPLockedExpired, IsIPLockedDelete,
                  IsProxyValidationDueExpired, IsProxyValidationDueDelete, vars, db, history
  <2>4. lockedIPs'[ip] = lockedIPs[ip] \/ now >= lockedIPs[ip]
    BY <2>1, <2>2 DEF Tick, Readers, IsIPLockedExpired, IsIPLockedDelete, LockInv, LockCore,
                  IsProxyValidationDueExpired, IsProxyValidationDueDelete, vars, caches
  <2>5. KnowsEnd(w) /\ promised[ip] \in Nat /\ lockedIPs[ip] \in Nat
    BY <2>2 DEF LockInv
  <2> QED
    BY <1>1, <1>2, <2>2, <2>3, <2>4, <2>5 DEF KnowsEnd
<1>3. CASE FailureLoad(w)
  <2> DEFINE ip == IpOf[job[w].e]
             n  == blocked[ip].count + 1
  <2>1. ip \in IP /\ UNCHANGED <<now, blocked, promised>>
    BY <1>3, IpOfAssumption DEF FailureLoad, Operands, Sweeping, db, history
  <2>2. promised[ip] <= now + LockDuration
    BY <2>1 DEF LockInv, LockCore
  <2>3. CASE n >= LockThreshold
    <3>1. pc'[w] = "failure_quarantine" /\ job'[w] = Locals(job[w].e, 0, n, now + LockDuration, {})
      BY <1>3, <2>3 DEF FailureLoad, Learn
    <3>2. job'[w].e = job[w].e /\ job'[w].until = now + LockDuration
      <4> HIDE DEF IInv, TypeInv, TypeOK, ip, n
      <4> QED
        BY <3>1, LocalsFields
    <3>3. now' = now /\ promised'[ip] = promised[ip] /\ now + LockDuration <= now' + LockDuration
      BY <1>1, <2>1
    <3> HIDE DEF IInv, TypeInv, TypeOK, LockInv
    <3> QED
      BY <2>2, <3>1, <3>2, <3>3 DEF KnowsEnd
  <2>4. CASE ~(n >= LockThreshold)
    <3>1. pc'[w] = "failure_save" /\ job'[w] = Locals(job[w].e, 0, n, blocked[ip].until, {})
      BY <1>3, <2>4 DEF FailureLoad, Learn
    <3>2. job'[w].e = job[w].e /\ job'[w].until = blocked[ip].until /\ job'[w].cnt = n
      <4> HIDE DEF IInv, TypeInv, TypeOK, ip, n
      <4> QED
        BY <3>1, LocalsFields
    <3>3. /\ IpOf[job'[w].e] = ip /\ job'[w].until = blocked'[ip].until
          /\ ~(job'[w].cnt >= LockThreshold)
      BY <2>1, <2>4, <3>2
    <3> HIDE DEF IInv, TypeInv, TypeOK, LockInv, ip, n
    <3> QED
      BY <3>1, <3>3 DEF KnowsEnd
  <2> QED
    BY <2>3, <2>4
<1>4. CASE FailureQuarantine(w)
  <2> DEFINE ip == IpOf[job[w].e]
  <2>1. ip \in IP /\ pc[w] = "failure_quarantine"
    BY <1>4, IpOfAssumption DEF FailureQuarantine, Operands, Sweeping
  <2>2. /\ UNCHANGED <<now, blocked, promised, job>> /\ pc'[w] = "failure_save"
        /\ lockedIPs'[ip] = job[w].until
    BY <1>4, <2>1 DEF FailureQuarantine, Step, db, history
  <2>3. KnowsEnd(w) /\ job[w].cnt >= LockThreshold
    BY <2>1 DEF LockInv, AtLabel, Knows
  <2> QED
    BY <2>1, <2>2, <2>3 DEF KnowsEnd
<1>5. ASSUME NEW e \in Endpoint, BeginFailure(w, e) PROVE FALSE
  BY <1>5 DEF BeginFailure, Lock
<1> QED
  BY <1>2, <1>3, <1>4, <1>5, FailureFrame

\* When no write fails and no reader pauses, a lock RecordFailure reported holds
\* until it ends: no port of the IP is served before, whatever succeeds, fails
\* or restarts in between.
THEOREM PromisedLocksAreKept ==
    ASSUME ~DbFaults, ~RacyReads PROVE Spec => []PromisedLockKept
<1>1. Init => LockInv
  <2> SUFFICES ASSUME Init PROVE LockInv
    OBVIOUS
  <2>1. LockDuration \in Nat
    BY LimitsAssumption
  <2>2. LockCore
    BY <2>1 DEF Init, LockCore, LockHeld, PromisedLockKept, Live, NoEntry
  <2> QED
    BY <2>2 DEF Init, LockInv, KnowsEnd
<1>2. IInv /\ IInv' /\ LockInv /\ [Next]_vars => LockInv'
  BY LockCoreStep, KnowsEndStep DEF LockInv
<1>3. LockInv => PromisedLockKept
  BY DEF LockInv, LockCore
<1> QED
  BY <1>1, <1>2, <1>3, IInvInit, IInvStep, PTL DEF Spec
=============================================================================
