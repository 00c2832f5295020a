---------------------------- MODULE CrawlerState ----------------------------
(***************************************************************************)
(* What the two verification loops of the crawler share besides the cache: *)
(* the slots for network checks, and the negative cache of failures.  It   *)
(* also holds what configures the loops.                                   *)
(***************************************************************************)
EXTENDS EndpointPool, Channels, NegativeCache

CONSTANTS
    Workers,    \* configuredVerificationWorkers
    Reserve     \* Verification.RoutineReservedWorkers of the configuration

ASSUME WorkersAssumption == Workers \in Nat \ {0} /\ Reserve \in Int

VARIABLES
    aged,           \* endpoints whose last_verify is older than the interval
    validationSlots \* one slot per network check under way

stored == <<pool, aged>>

\* configuredRoutineReservedWorkers
ReservedOf(workers, configured) ==
    IF workers <= 1 THEN 0
    ELSE LET reserved == IF configured > 0 THEN configured
                         ELSE IF workers \div 5 > 1 THEN workers \div 5 ELSE 1
         IN  IF reserved >= workers THEN workers - 1 ELSE reserved

\* The capacities Init gives validationSlots and candidateSlots.
ValidationCapacity == Workers
CandidateCapacity == Workers - ReservedOf(Workers, Reserve)

\* The operations of the cache that also write last_verify.
Verified(e) == Accept(e) /\ aged' = aged \ {e}
Failed(e) == Quarantine(e) /\ aged' = aged \ {e}

SharedInit ==
    /\ PoolInit
    /\ aged = {}
    /\ NoneBacksOff
    /\ validationSlots = AllFree

\* What happens around the loops: locks and delays end, a served endpoint is due
\* for its next check, and a client was refused by the upstream
\* (MarkProxyUnavailable, which acts on live entries only).
DelaysEnd == Elapse /\ BackOffsEnd /\ UNCHANGED aged

Ages(e) ==
    /\ verdict[e] = "healthy"
    /\ aged' = aged \cup {e}
    /\ UNCHANGED <<pool, backingOff>>

ClientRefused(e) == e \in served /\ Failed(e) /\ UNCHANGED backingOff
=============================================================================
