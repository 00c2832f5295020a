---------------------------- MODULE EndpointPool ----------------------------
(***************************************************************************)
(* What the cache of cache.go promises its callers, without goroutines,    *)
(* statements or clocks: each lifecycle operation is one step.             *)
(*                                                                         *)
(* ProxyPool implements this specification (ProxyPoolRefinement); the      *)
(* crawler's modules are written against it.                               *)
(***************************************************************************)
CONSTANTS
    Endpoint,   \* proxy URIs
    IP,         \* addresses
    IpOf        \* the address of each endpoint

ASSUME AddressAssumption == IpOf \in [Endpoint -> IP]

VARIABLES
    verdict,    \* "unknown" (no row), "healthy" (available) or "sick"
    served,     \* endpoints in the live pool: HasProxy
    delayed,    \* endpoints whose IsProxyValidationDue is false
    locked      \* addresses whose IsIPLocked is true

pool == <<verdict, served, delayed, locked>>

Verdicts == {"unknown", "healthy", "sick"}

PortsOf(ip) == {e \in Endpoint : IpOf[e] = ip}

PoolInit ==
    /\ verdict = [e \in Endpoint |-> "unknown"]
    /\ served = {}
    /\ delayed = {}
    /\ locked = {}

-----------------------------------------------------------------------------
(* UpsertProxy and MarkVerifySuccess, when they succeed. *)
Accept(e) ==
    /\ IpOf[e] \notin locked
    /\ verdict' = [verdict EXCEPT ![e] = "healthy"]
    /\ served' = served \cup {e}
    /\ delayed' = delayed \ {e}
    /\ UNCHANGED locked

\* MarkVerifySuccess could not read back the row it wrote.
Misplace(e) ==
    /\ verdict[e] = "healthy"
    /\ served' = served \ {e}
    /\ UNCHANGED <<verdict, delayed, locked>>

\* MarkVerifyFailed and MarkProxyUnavailable
Quarantine(e) ==
    /\ verdict[e] # "unknown"
    /\ verdict' = [verdict EXCEPT ![e] = "sick"]
    /\ served' = served \ {e}
    /\ delayed' = delayed \cup {e}
    /\ UNCHANGED locked

\* RecordFailure at the threshold.  The UPDATE of the rows may fail, and a lock
\* may be over by the time it is stored.
LockOut(ip) ==
    /\ locked' \in {locked \cup {ip}, locked \ {ip}}
    /\ served' = served \ PortsOf(ip)
    /\ \/ verdict' = [e \in Endpoint |->
                        IF e \in PortsOf(ip) /\ verdict[e] = "healthy"
                        THEN "sick" ELSE verdict[e]]
       \/ UNCHANGED verdict
    /\ UNCHANGED delayed

\* CleanupStaleProxies
Forget(gone) ==
    /\ verdict' = [e \in Endpoint |-> IF e \in gone THEN "unknown" ELSE verdict[e]]
    /\ served' = served \ gone
    /\ UNCHANGED <<delayed, locked>>

\* Time passes: locks and delays end.
Elapse ==
    /\ delayed' \in SUBSET delayed
    /\ locked' \in SUBSET locked
    /\ UNCHANGED <<verdict, served>>

\* The process dies, then load and LoadLockedIPs restore what the rows allow.
Stop ==
    /\ served' = {} /\ delayed' = {} /\ locked' = {}
    /\ UNCHANGED verdict

Restore ==
    /\ served = {} /\ delayed = {} /\ locked = {}
    /\ served' \in SUBSET {e \in Endpoint : verdict[e] = "healthy"}
    /\ delayed' \in SUBSET {e \in Endpoint : verdict[e] = "sick"}
    /\ UNCHANGED <<verdict, locked>>

RestoreLocks ==
    /\ locked = {}
    /\ locked' \in SUBSET {ip \in IP : PortsOf(ip) \cap served = {}}
    /\ UNCHANGED <<verdict, served, delayed>>

PoolNext ==
    \/ \E e \in Endpoint : Accept(e) \/ Misplace(e) \/ Quarantine(e)
    \/ \E ip \in IP : LockOut(ip)
    \/ \E gone \in SUBSET Endpoint : Forget(gone)
    \/ Elapse \/ Stop \/ Restore \/ RestoreLocks

PoolSpec == PoolInit /\ [][PoolNext]_pool

-----------------------------------------------------------------------------
\* Every variable has its type.
PoolTypeOK ==
    /\ verdict \in [Endpoint -> Verdicts]
    /\ served \in SUBSET Endpoint
    /\ delayed \in SUBSET Endpoint
    /\ locked \in SUBSET IP

\* What a caller may rely on: a served endpoint is healthy, waits for no retry
\* delay, and its address is not locked.
ServedIsSound ==
    \A e \in served :
        /\ verdict[e] = "healthy"
        /\ e \notin delayed
        /\ IpOf[e] \notin locked
=============================================================================
