--------------------------- MODULE RoutineChecks ---------------------------
(***************************************************************************)
(* The periodic health check of stored endpoints (crawler/verify.go).      *)
(* The cron job Verify reads the overdue rows, claims each in              *)
(* pendingVerify, reads its row again and puts the row as it was first     *)
(* read into verifyJob; getDelay goroutines check it and report to the     *)
(* cache.  A report names the endpoint of the row; what it says of         *)
(* availability is as old as the first read.                               *)
(***************************************************************************)
EXTENDS CrawlerState

CONSTANTS
    Checker,        \* the getDelay goroutines
    VerifyCapacity, \* capacity of verifyJob (Workers in Init)
    Faults,         \* may database calls fail before they changed the row?
    NoJob           \* the local of an idle goroutine

Snapshots == [e : Endpoint, available : BOOLEAN]

ASSUME RoutineAssumption ==
    /\ VerifyCapacity \in Nat \ {0}
    /\ Faults \in BOOLEAN
    /\ NoJob \notin Snapshots

VARIABLES
    pendingVerify,  \* endpoints claimed for a check
    verifyJob,      \* the channel
    cpc, clist, cp, \* cron: statement, rows not yet visited, current row
    kpc, kp         \* checkers: statement, row

cron     == <<cpc, clist, cp>>
checkers == <<kpc, kp>>
routine  == <<pendingVerify, verifyJob, cron, checkers>>

CronLabels == {"idle", "claim", "refresh", "send", "sent"}
CheckLabels ==
    {"receive", "locked", "slot", "probe", "deep", "success", "deep_success",
     "reload", "clear", "failed", "back_off", "strike", "leave_slot", "release"}

RoutineInit ==
    /\ pendingVerify = {}
    /\ verifyJob = EmptyQueue
    /\ cpc = "idle" /\ clist = {} /\ cp = NoJob
    /\ kpc = [c \in Checker |-> "receive"]
    /\ kp = [c \in Checker |-> NoJob]

\* The rows GetUnVerified selects, and those IsUnVerified counts.
Overdue(e) ==
    /\ \/ verdict[e] = "healthy" /\ e \in aged
       \/ verdict[e] = "sick" /\ e \notin delayed
    /\ IpOf[e] \notin locked

-----------------------------------------------------------------------------
(* Verify, one run at a time (skipIfStillRunning). *)

CronStart ==
    /\ cpc = "idle"
    /\ cpc' = "claim"
    /\ clist' = {[e |-> e, available |-> verdict[e] = "healthy"] :
                   e \in {o \in Endpoint : Overdue(o)}}
    /\ UNCHANGED <<stored, backingOff, validationSlots, pendingVerify, verifyJob,
                   cp, checkers>>

CronEnd ==
    /\ cpc = "claim" /\ clist = {}
    /\ cpc' = "idle"
    /\ UNCHANGED <<stored, backingOff, validationSlots, pendingVerify, verifyJob,
                   clist, cp, checkers>>

\* Mutant: an endpoint under way is taken again.
CronClaimUnchecked(s) ==
    /\ cpc = "claim" /\ s \in clist
    /\ clist' = clist \ {s}
    /\ pendingVerify' = pendingVerify \cup {s.e} /\ cpc' = "refresh" /\ cp' = s
    /\ UNCHANGED <<stored, backingOff, validationSlots, verifyJob, checkers>>

CronClaim(s) ==
    /\ cpc = "claim" /\ s \in clist
    /\ clist' = clist \ {s}
    /\ IF s.e \in pendingVerify
       THEN UNCHANGED <<pendingVerify, cpc, cp>>
       ELSE pendingVerify' = pendingVerify \cup {s.e} /\ cpc' = "refresh" /\ cp' = s
    /\ UNCHANGED <<stored, backingOff, validationSlots, verifyJob, checkers>>

\* Mutant: an endpoint checked in the meantime keeps its claim.
CronRefreshKeepingClaim ==
    /\ cpc = "refresh"
    /\ IF Overdue(cp.e) THEN cpc' = "send" /\ UNCHANGED cp
                        ELSE cpc' = "claim" /\ cp' = NoJob
    /\ UNCHANGED <<stored, backingOff, validationSlots, pendingVerify, verifyJob,
                   clist, checkers>>

\* IsUnVerified, which may fail.
CronRefresh ==
    /\ cpc = "refresh"
    /\ \/ /\ Overdue(cp.e)
          /\ cpc' = "send" /\ UNCHANGED <<pendingVerify, cp>>
       \/ /\ ~Overdue(cp.e) \/ Faults
          /\ pendingVerify' = pendingVerify \ {cp.e}
          /\ cpc' = "claim" /\ cp' = NoJob
    /\ UNCHANGED <<stored, backingOff, validationSlots, verifyJob, clist, checkers>>

\* Mutant: the row is put into the channel although it is full.
CronSendUnbounded ==
    /\ cpc = "send"
    /\ verifyJob' = [verifyJob EXCEPT !.buffer = Append(@, cp)]
    /\ cpc' = "sent"
    /\ UNCHANGED <<stored, backingOff, validationSlots, pendingVerify, clist, cp,
                   checkers>>

CronSend ==
    /\ cpc = "send"
    /\ verifyJob' = Send(verifyJob, VerifyCapacity, "cron", cp)
    /\ cpc' = "sent"
    /\ UNCHANGED <<stored, backingOff, validationSlots, pendingVerify, clist, cp,
                   checkers>>

CronSent ==
    /\ cpc = "sent" /\ ~Blocked(verifyJob, "cron")
    /\ cpc' = "claim" /\ cp' = NoJob
    /\ UNCHANGED <<stored, backingOff, validationSlots, pendingVerify, verifyJob,
                   clist, checkers>>

-----------------------------------------------------------------------------
(* getDelay *)

CheckTo(c, label) == kpc' = [kpc EXCEPT ![c] = label] /\ UNCHANGED kp

CheckReceive(c) ==
    /\ kpc[c] = "receive"
    /\ verifyJob.buffer # << >>
    /\ kpc' = [kpc EXCEPT ![c] = "locked"]
    /\ kp' = [kp EXCEPT ![c] = Head(verifyJob.buffer)]
    /\ verifyJob' = Receive(verifyJob)
    /\ UNCHANGED <<stored, backingOff, validationSlots, pendingVerify, cron>>

\* IsIPLocked, then acquireValidationSlot.
CheckLocked(c) ==
    /\ kpc[c] = "locked"
    /\ IF IpOf[kp[c].e] \in locked
       THEN CheckTo(c, "release") /\ UNCHANGED validationSlots
       ELSE /\ validationSlots' = Enter(validationSlots, ValidationCapacity, c)
            /\ CheckTo(c, "slot")
    /\ UNCHANGED <<stored, backingOff, pendingVerify, verifyJob, cron>>

CheckSlot(c) ==
    /\ kpc[c] = "slot" /\ ~Waits(validationSlots, c)
    /\ CheckTo(c, "probe")
    /\ UNCHANGED <<stored, backingOff, validationSlots, pendingVerify, verifyJob, cron>>

\* The trace request.  needsDeepCheck: a row read as unavailable always needs the
\* TLS probe, another one when its last deep check is long ago.
CheckProbe(c) ==
    /\ kpc[c] = "probe"
    /\ \/ CheckTo(c, "failed")
       \/ CheckTo(c, "deep")
       \/ kp[c].available /\ CheckTo(c, "success")
    /\ UNCHANGED <<stored, backingOff, validationSlots, pendingVerify, verifyJob, cron>>

CheckDeep(c) ==
    /\ kpc[c] = "deep"
    /\ CheckTo(c, "failed") \/ CheckTo(c, "deep_success")
    /\ UNCHANGED <<stored, backingOff, validationSlots, pendingVerify, verifyJob, cron>>

\* MarkVerifySuccess: refuses a locked IP or a deleted row, may fail to update the
\* row, and may fail to read it back once it is updated.
CheckSuccess(c) ==
    /\ kpc[c] \in {"success", "deep_success"}
    /\ LET e == kp[c].e
           possible == verdict[e] # "unknown" /\ IpOf[e] \notin locked
       IN  \/ possible /\ Verified(e) /\ CheckTo(c, "clear")
           \/ (~possible \/ Faults) /\ UNCHANGED stored /\ CheckTo(c, "clear")
           \/ possible /\ e \notin served /\ Verified(e) /\ CheckTo(c, "reload")
    /\ UNCHANGED <<backingOff, validationSlots, pendingVerify, verifyJob, cron>>

CheckReloadError(c) ==
    /\ kpc[c] = "reload"
    /\ IF verdict[kp[c].e] = "healthy" THEN Misplace(kp[c].e) ELSE UNCHANGED pool
    /\ CheckTo(c, "clear")
    /\ UNCHANGED <<aged, backingOff, validationSlots, pendingVerify, verifyJob, cron>>

CheckClear(c) ==
    /\ kpc[c] = "clear"
    /\ ClearBackOff(kp[c].e)
    /\ CheckTo(c, "leave_slot")
    /\ UNCHANGED <<stored, validationSlots, pendingVerify, verifyJob, cron>>

\* recordHealthCheckFailure: MarkVerifyFailed, the negative cache, RecordFailure.
CheckFailed(c) ==
    /\ kpc[c] = "failed"
    /\ LET e == kp[c].e
       IN  \/ Failed(e)
           \/ (verdict[e] = "unknown" \/ Faults) /\ UNCHANGED stored
    /\ CheckTo(c, "back_off")
    /\ UNCHANGED <<backingOff, validationSlots, pendingVerify, verifyJob, cron>>

CheckBackOff(c) ==
    /\ kpc[c] = "back_off"
    /\ BackOff(kp[c].e)
    /\ CheckTo(c, "strike")
    /\ UNCHANGED <<stored, validationSlots, pendingVerify, verifyJob, cron>>

CheckStrike(c) ==
    /\ kpc[c] = "strike"
    /\ LockOut(IpOf[kp[c].e]) \/ UNCHANGED pool
    /\ CheckTo(c, "leave_slot")
    /\ UNCHANGED <<aged, backingOff, validationSlots, pendingVerify, verifyJob, cron>>

\* Mutant: the slot is not given back.
CheckKeepSlot(c) ==
    /\ kpc[c] = "leave_slot"
    /\ CheckTo(c, "release")
    /\ UNCHANGED <<stored, backingOff, validationSlots, pendingVerify, verifyJob, cron>>

CheckLeaveSlot(c) ==
    /\ kpc[c] = "leave_slot"
    /\ validationSlots' = Leave(validationSlots)
    /\ CheckTo(c, "release")
    /\ UNCHANGED <<stored, backingOff, pendingVerify, verifyJob, cron>>

CheckRelease(c) ==
    /\ kpc[c] = "release"
    /\ pendingVerify' = pendingVerify \ {kp[c].e}
    /\ kpc' = [kpc EXCEPT ![c] = "receive"]
    /\ kp' = [kp EXCEPT ![c] = NoJob]
    /\ UNCHANGED <<stored, backingOff, validationSlots, verifyJob, cron>>

-----------------------------------------------------------------------------
Cron ==
    \/ CronStart \/ CronEnd \/ \E s \in clist : CronClaim(s)
    \/ CronRefresh \/ CronSend \/ CronSent

Check(c) ==
    \/ CheckReceive(c) \/ CheckLocked(c) \/ CheckSlot(c)
    \/ CheckProbe(c) \/ CheckDeep(c)
    \/ CheckSuccess(c) \/ CheckReloadError(c) \/ CheckClear(c)
    \/ CheckFailed(c) \/ CheckBackOff(c) \/ CheckStrike(c)
    \/ CheckLeaveSlot(c) \/ CheckRelease(c)

\* UpsertProxy of a validator.
CandidateAccepted(e) ==
    /\ Verified(e)
    /\ backingOff' \in {backingOff, backingOff \ {e}}

\* Without the validators, except that they bring the endpoints.
RoutineSurroundings ==
    /\ \/ DelaysEnd
       \/ \E e \in Endpoint : Ages(e) \/ ClientRefused(e) \/ CandidateAccepted(e)
    /\ UNCHANGED <<validationSlots, routine>>

RoutineStart == SharedInit /\ RoutineInit

RoutineNext ==
    \/ Cron
    \/ \E c \in Checker : Check(c)
    \/ RoutineSurroundings

routineVars == <<stored, backingOff, validationSlots, routine>>

\* The cron job is started again and again; goroutines run and probes end.
RoutineFairness ==
    /\ WF_routineVars(Cron)
    /\ \A c \in Checker : WF_routineVars(Check(c))

RoutineSpec == RoutineStart /\ [][RoutineNext]_routineVars /\ RoutineFairness

-----------------------------------------------------------------------------
(* Properties *)

\* Every variable has its type.
RoutineTypeOK ==
    /\ PoolTypeOK
    /\ aged \in SUBSET Endpoint /\ backingOff \in SUBSET Endpoint
    /\ validationSlots \in Semaphores(Checker)
    /\ pendingVerify \in SUBSET Endpoint
    /\ verifyJob \in Queues({"cron"}, Snapshots)
    /\ Len(verifyJob.buffer) <= VerifyCapacity
    /\ cpc \in CronLabels /\ clist \in SUBSET Snapshots /\ cp \in Snapshots \cup {NoJob}
    /\ kpc \in [Checker -> CheckLabels]
    /\ kp \in [Checker -> Snapshots \cup {NoJob}]

\* Who answers for the claim on an endpoint: the cron job (0), a place in the
\* channel or a checker.
Claimants(e) ==
    {x \in {0} : cpc \in {"refresh", "send"} /\ cp.e = e}
    \cup {i \in 1 .. Len(Values(verifyJob)) : Values(verifyJob)[i].e = e}
    \cup {c \in Checker : kpc[c] # "receive" /\ kp[c].e = e}

\* A claim in pendingVerify always has exactly one goroutine that will release it,
\* and no endpoint is checked without one, so that "future cron runs can retry the
\* proxy" and none is checked twice at once (verify.go:128-142, 155-157).
ClaimsAreOwned ==
    \A e \in Endpoint :
        Cardinality(Claimants(e)) = IF e \in pendingVerify THEN 1 ELSE 0

\* An overdue endpoint is checked, or stops being overdue for another reason, as
\* long as the database answers (verify.go:120-145).
OverdueAreChecked ==
    \A e \in Endpoint : Overdue(e) ~> ~Overdue(e)

\* A quarantined endpoint returns to the pool through the TLS probe only
\* (needsDeepCheck; crawler_test.go:290).
RecoveryIsDeep ==
    [][\A c \in Checker :
        kpc[c] = "success" /\ kpc'[c] # "success" =>
            ~(verdict[kp[c].e] = "sick" /\ verdict'[kp[c].e] = "healthy")]_routineVars
=============================================================================
