----------------------------- MODULE Scheduling -----------------------------
(***************************************************************************)
(* Which live endpoint serves a request (service/memcache.go): GetProxy    *)
(* walks the list, PickProxy takes the least used endpoint that the domain *)
(* of the request has not used in the last seconds and for which no target *)
(* circuit is open.                                                        *)
(*                                                                         *)
(* Every operation holds its locks from its first read to its last write,  *)
(* so each is one action; they meet through the lists they leave behind.   *)
(* One tick is one second.                                                 *)
(***************************************************************************)
EXTENDS Integers, Sequences, FiniteSets, Selection

CONSTANTS
    Endpoint,   \* proxy URIs
    IP,         \* addresses
    IpOf,       \* the address of each endpoint
    Domain,     \* hosts of requests
    TTL,        \* failureTTL in seconds
    MaxUse      \* bound: picks of an endpoint since it joined the list

ASSUME SchedulingAssumption ==
    /\ IsFiniteSet(Endpoint) /\ IpOf \in [Endpoint -> IP]
    /\ TTL \in Nat \ {0} /\ MaxUse \in Nat \ {0}

\* The seconds an address rests for a domain (PickProxy), and those gc keeps.
Window == 3
Kept == 3

VARIABLES
    pl,             \* proxies.pl: endpoints and how often they were picked
    getProxyIndex,  \* next position of GetProxy, from 0
    dl,             \* per domain: endpoints picked, and how long ago
    targetFailures, \* per domain: endpoints with a circuit, and its rest
    since,          \* history: seconds since an address served a domain
    circuit,        \* history: seconds an endpoint was promised not to serve it
    lap             \* history: results of GetProxy since the list changed

lists    == <<pl, getProxyIndex>>
domains  == <<dl, targetFailures>>
promises == <<since, circuit>>
vars     == <<lists, domains, promises, lap>>

Entries == [e : Endpoint, n : 0 .. MaxUse]
Picks   == [e : Endpoint, age : 0 .. Kept + 1]

\* The picks that count for PickProxy, and those that gc keeps.
Young == {r \in Picks : r.age < Window}
Fresh == {r \in Picks : r.age <= Kept}

Pool == {pl[i].e : i \in 1 .. Len(pl)}

\* NewMemCache, after load: the available rows in any order.
Init ==
    /\ \E k \in 0 .. Cardinality(Endpoint) :
         pl \in [1 .. k -> {x \in Entries : x.n = 0}]
    /\ Cardinality(Pool) = Len(pl)
    /\ getProxyIndex = 0
    /\ dl = [d \in Domain |-> << >>]
    /\ targetFailures = [d \in Domain |-> << >>]
    /\ since = [d \in Domain |-> [ip \in IP |-> Window]]
    /\ circuit = [d \in Domain |-> [e \in Endpoint |-> 0]]
    /\ lap = << >>

-----------------------------------------------------------------------------
(* GetProxy *)

GetProxy ==
    LET next == IF getProxyIndex >= Len(pl) THEN 0 ELSE getProxyIndex
    IN  /\ pl # << >>
        /\ getProxyIndex' = next + 1
        /\ lap' = LET longer == Append(lap, pl[next + 1].e)
                  IN  IF Len(longer) > Len(pl) THEN Tail(longer) ELSE longer
        /\ UNCHANGED <<pl, domains, promises>>

-----------------------------------------------------------------------------
(* PickProxy *)

\* Mutant: a pick counts for ever.
RecentForEver(d) == dl[d]

Recent(d) == Only(dl[d], Young)

\* The circuits of a domain that are not over.
Open(failures) ==
    [e \in {x \in DOMAIN failures : failures[x] > 0} |-> failures[e]]

\* The positions PickProxy does not skip.
Eligible(d) ==
    LET recent == Recent(d)
    IN  {i \in 1 .. Len(pl) :
            /\ pl[i].e \notin DOMAIN Open(targetFailures[d])
            /\ \A k \in 1 .. Len(recent) : IpOf[recent[k].e] # IpOf[pl[i].e]}

\* The first of them in the stable order by use.
LeastUsed(S) ==
    CHOOSE i \in S : \A j \in S : pl[i].n < pl[j].n \/ (pl[i].n = pl[j].n /\ i <= j)

\* Mutant: the list itself is reordered, not a copy.
PickProxySortingInPlace(d) ==
    LET i == LeastUsed(Eligible(d))
        others == Only(pl, {x \in Entries : x.e # pl[i].e})
    IN  /\ pl # << >> /\ Eligible(d) # {} /\ pl[i].n < MaxUse
        /\ pl' = <<[pl[i] EXCEPT !.n = @ + 1]>> \o others
        /\ dl' = [dl EXCEPT ![d] = Append(Recent(d), [e |-> pl[i].e, age |-> 0])]
        /\ targetFailures' = [targetFailures EXCEPT ![d] = Open(@)]
        /\ since' = [since EXCEPT ![d][IpOf[pl[i].e]] = 0]
        /\ UNCHANGED <<getProxyIndex, circuit, lap>>

PickProxy(d) ==
    LET i == LeastUsed(Eligible(d))
    IN  /\ pl # << >> /\ Eligible(d) # {} /\ pl[i].n < MaxUse
        /\ pl' = [pl EXCEPT ![i].n = @ + 1]
        /\ dl' = [dl EXCEPT ![d] = Append(Recent(d), [e |-> pl[i].e, age |-> 0])]
        /\ targetFailures' = [targetFailures EXCEPT ![d] = Open(@)]
        /\ since' = [since EXCEPT ![d][IpOf[pl[i].e]] = 0]
        /\ UNCHANGED <<getProxyIndex, circuit, lap>>

\* "No free agent can be used": what is over is forgotten all the same.
PickProxyRefused(d) ==
    /\ pl # << >> /\ Eligible(d) = {}
    /\ dl' = [dl EXCEPT ![d] = Recent(d)]
    /\ targetFailures' = [targetFailures EXCEPT ![d] = Open(@)]
    /\ UNCHANGED <<lists, promises, lap>>

-----------------------------------------------------------------------------
(* MarkProxyTargetFailure: the endpoint may have left the list since.      *)

\* Mutant: the first report decides when the circuit closes.
MarkKeepingFirst(e, d) ==
    /\ targetFailures' = [targetFailures EXCEPT ![d] =
         [x \in DOMAIN @ \cup {e} |-> IF x \in DOMAIN @ THEN @[x] ELSE TTL]]
    /\ circuit' = [circuit EXCEPT ![d][e] = TTL]
    /\ UNCHANGED <<lists, dl, since, lap>>

MarkProxyTargetFailure(e, d) ==
    /\ targetFailures' = [targetFailures EXCEPT ![d] =
         [x \in DOMAIN @ \cup {e} |-> IF x = e THEN TTL ELSE @[x]]]
    /\ circuit' = [circuit EXCEPT ![d][e] = TTL]
    /\ UNCHANGED <<lists, dl, since, lap>>

-----------------------------------------------------------------------------
(* gc deletes the positions it found stale from the last to the first,     *)
(* each time from the slice as it was before the loop: every deletion but  *)
(* the first leaves one more copy of the slice's last element behind.      *)

Stale(picks) == {i \in 1 .. Len(picks) : picks[i].age > Kept}

Collected(picks) ==
    LET kept == Only(picks, Fresh)
        copies == Cardinality(Stale(picks)) - 1
    IN  IF copies < 0 THEN picks
        ELSE kept \o [i \in 1 .. copies |-> picks[Len(picks)]]

\* Mutant: gc forgets picks that PickProxy still has to honour.
GcEager ==
    /\ dl' = [d \in Domain |-> Only(dl[d], {r \in Picks : r.age <= 1})]
    /\ targetFailures' = [d \in Domain |-> Open(targetFailures[d])]
    /\ UNCHANGED <<lists, promises, lap>>

Gc ==
    /\ dl' = [d \in Domain |-> Collected(dl[d])]
    /\ targetFailures' = [d \in Domain |-> Open(targetFailures[d])]
    /\ UNCHANGED <<lists, promises, lap>>

-----------------------------------------------------------------------------
(* The list changes: UpsertProxy or MarkVerifySuccess append an endpoint,  *)
(* any failure removes some.                                               *)

Without(gone) == Only(pl, {x \in Entries : x.e \notin gone})

\* Mutant: an endpoint that is listed already is listed again.
JoinTwice(e) ==
    /\ pl' = Append(pl, [e |-> e, n |-> 0])
    /\ lap' = << >>
    /\ UNCHANGED <<getProxyIndex, domains, promises>>

Join(e) ==
    /\ pl' = Append(Without({e}), [e |-> e, n |-> 0])
    /\ lap' = << >>
    /\ UNCHANGED <<getProxyIndex, domains, promises>>

Remove(gone) ==
    /\ gone \cap Pool # {}
    /\ pl' = Without(gone)
    /\ lap' = << >>
    /\ UNCHANGED <<getProxyIndex, domains, promises>>

\* A second passes.
Down(seconds) == IF seconds > 0 THEN seconds - 1 ELSE 0
Up(seconds, most) == IF seconds < most THEN seconds + 1 ELSE most

Tick ==
    /\ dl' = [d \in Domain |->
                [i \in 1 .. Len(dl[d]) |-> [dl[d][i] EXCEPT !.age = Up(@, Kept + 1)]]]
    /\ targetFailures' = [d \in Domain |->
                [e \in DOMAIN targetFailures[d] |-> Down(targetFailures[d][e])]]
    /\ since' = [d \in Domain |-> [ip \in IP |-> Up(since[d][ip], Window)]]
    /\ circuit' = [d \in Domain |-> [e \in Endpoint |-> Down(circuit[d][e])]]
    /\ UNCHANGED <<lists, lap>>

Next ==
    \/ GetProxy
    \/ \E d \in Domain : PickProxy(d) \/ PickProxyRefused(d)
    \/ \E e \in Endpoint, d \in Domain : MarkProxyTargetFailure(e, d)
    \/ Gc
    \/ \E e \in Endpoint : Join(e)
    \/ \E gone \in SUBSET Endpoint : Remove(gone)
    \/ Tick

Spec == Init /\ [][Next]_vars

-----------------------------------------------------------------------------
(* Properties *)

\* Every variable has its type; the list names no endpoint twice.
SchedulingTypeOK ==
    /\ pl \in Seq(Entries) /\ Cardinality(Pool) = Len(pl)
    /\ getProxyIndex \in 0 .. Cardinality(Endpoint)
    /\ dl \in [Domain -> Seq(Picks)]
    /\ \A d \in Domain :
         /\ DOMAIN targetFailures[d] \subseteq Endpoint
         /\ \A e \in DOMAIN targetFailures[d] : targetFailures[d][e] \in 0 .. TTL

\* An endpoint PickProxy would take has an address that did not serve the domain
\* within the window, on any port, and nobody reported it for the domain within
\* the TTL: whatever gc, other domains and changes of the list did meanwhile
\* (memcache.go:258-298).
NoEarlyReuse ==
    \A d \in Domain : \A i \in Eligible(d) :
        since[d][IpOf[pl[i].e]] >= Window /\ circuit[d][pl[i].e] = 0

\* An endpoint PickProxy skips is skipped for a reason that still holds: circuits
\* close by themselves, and old picks count no more.
NoNeedlessRefusal ==
    \A d \in Domain : \A i \in (1 .. Len(pl)) \ Eligible(d) :
        since[d][IpOf[pl[i].e]] < Window \/ circuit[d][pl[i].e] > 0

\* What PickProxy remembers of a domain is exactly what it should, neither more nor
\* less, after any order of picks, reports, collections and changes of the list.
PickIsExact == NoEarlyReuse /\ NoNeedlessRefusal

\* While the list stays the same, GetProxy returns every endpoint once before it
\* returns one again, and PickProxy does not disturb its order (memcache.go:250).
RoundRobin ==
    \A i, j \in 1 .. Len(lap) : lap[i] = lap[j] => i = j
=============================================================================
