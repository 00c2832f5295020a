---------------------------- MODULE Verification ----------------------------
(***************************************************************************)
(* The two loops together, as Init of crawler/verify.go starts them: they  *)
(* share the cache, the negative cache and validationSlots, and know       *)
(* nothing of each other's claims (pendingValidate, pendingVerify).        *)
(***************************************************************************)
EXTENDS CandidateAdmission, RoutineChecks

ASSUME GoroutinesAssumption == Validator \cap Checker = {}

loops == <<admission, routine>>
allVars == <<stored, backingOff, validationSlots, loops>>

VerificationInit == SharedInit /\ AdmissionInit /\ RoutineInit

AllSurroundings ==
    /\ DelaysEnd \/ \E e \in Endpoint : Ages(e) \/ ClientRefused(e)
    /\ UNCHANGED <<validationSlots, loops>>

VerificationNext ==
    \/ (\E f \in Fetcher : Fetch(f)) /\ UNCHANGED routine
    \/ (\E v \in Validator : Validate(v)) /\ UNCHANGED routine
    \/ Cron /\ UNCHANGED admission
    \/ (\E c \in Checker : Check(c)) /\ UNCHANGED admission
    \/ AllSurroundings

\* Goroutines run and probes end; no source need offer anything, and the cron job
\* need not be started.
VerificationFairness ==
    /\ \A f \in Fetcher : WF_allVars(fpc[f] # "offer" /\ Fetch(f) /\ UNCHANGED routine)
    /\ \A v \in Validator : WF_allVars(Validate(v) /\ UNCHANGED routine)
    /\ \A c \in Checker : WF_allVars(Check(c) /\ UNCHANGED admission)

VerificationSpec ==
    VerificationInit /\ [][VerificationNext]_allVars /\ VerificationFairness

-----------------------------------------------------------------------------
(* Properties *)

CheckerInSlot(c) ==
    \/ kpc[c] = "slot" /\ ~Waits(validationSlots, c)
    \/ kpc[c] \in {"probe", "deep", "success", "deep_success", "reload", "clear",
                   "failed", "back_off", "strike", "leave_slot"}

\* The slots taken are those of the network checks under way in both loops, and
\* nobody waits while one is free (verify.go:68-94, 164-167; crawler.go:222-228).
SlotsAreAccounted ==
    /\ validationSlots.taken =
         Cardinality({v \in Validator : InSlot(v)})
         + Cardinality({c \in Checker : CheckerInSlot(c)})
    /\ validationSlots.taken <= Workers
    /\ validationSlots.line # << >> => validationSlots.taken = Workers

\* A routine check that waits for a slot gets one, however fast sources list
\* candidates (verify.go:164-167).
RoutineGetsItsSlot ==
    \A c \in Checker : kpc[c] = "slot" ~> kpc[c] = "probe"
=============================================================================
