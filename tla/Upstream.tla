------------------------------ MODULE Upstream ------------------------------
(***************************************************************************)
(* A client's request on its way through upstream endpoints (mitm/mitm.go  *)
(* and mitm/dump.go): requests run side by side, each tries endpoints one  *)
(* after the other, reports the bad ones, and is counted once.             *)
(*                                                                         *)
(* The scheduler is PickProxy as its caller knows it: it offers an endpoint *)
(* that is in the pool and has no open circuit for the target (NoEarlyReuse *)
(* of Scheduling), or refuses, since addresses rest between two uses.  All  *)
(* requests here have the same target.  The Filter of main.go refuses none. *)
(***************************************************************************)
EXTENDS Integers, Sequences, FiniteSets

CONSTANTS
    Request,    \* handler goroutines, one per request or client connection
    Endpoint,   \* proxy URIs
    Protocol,   \* their schemes
    ProtocolOf, \* the scheme of each
    Attempts,   \* upstreamAttemptLimit
    Nowhere,    \* a request is with no endpoint
    MaxInner    \* bound: requests served inside one intercepted connection

ASSUME UpstreamAssumption ==
    /\ ProtocolOf \in [Endpoint -> Protocol]
    /\ Attempts \in Nat \ {0} /\ MaxInner \in Nat \ {0}
    /\ Nowhere \notin Endpoint

VARIABLES
    enableMITM, \* EnableMITM of the configuration
    usable,     \* endpoints in the pool without an open circuit
    pc, kind,   \* statement and kind of each request
    tried,      \* endpoints nextProxy has returned for it
    at,         \* the endpoint it is at
    made,       \* attempts made
    calls,      \* scheduler calls of this nextProxy that were of no use
    inner,      \* requests served inside the connection so far
    total, success, failed, \* GlobalRequestStats
    upstream,   \* GlobalUpstreamStats
    sent        \* history: endpoints the request was sent through

attempt == <<tried, at, made, calls, sent>>
global  == <<total, success, failed>>
vars    == <<enableMITM, usable, pc, kind, attempt, inner, global, upstream>>

Kinds  == {"safe", "unsafe", "connect"}
Labels == {"idle", "inject", "serving", "dump", "next", "attempt", "sent",
           "report", "report_and_count", "answer", "done"}
Stats  == [total : Nat, success : Nat, failed : Nat]

Init ==
    /\ enableMITM \in BOOLEAN
    /\ usable \in SUBSET Endpoint
    /\ pc = [r \in Request |-> "idle"]
    /\ kind = [r \in Request |-> "safe"]
    /\ tried = [r \in Request |-> {}]
    /\ at = [r \in Request |-> Nowhere]
    /\ made = [r \in Request |-> 0]
    /\ calls = [r \in Request |-> 0]
    /\ inner = [r \in Request |-> 0]
    /\ total = 0 /\ success = 0 /\ failed = 0
    /\ upstream = [p \in Protocol |-> [total |-> 0, success |-> 0, failed |-> 0]]
    /\ sent = [r \in Request |-> << >>]

-----------------------------------------------------------------------------
Goto(r, label) == pc' = [pc EXCEPT ![r] = label]

\* The handler returns: to the client, or to the intercepted connection.
Return(r) == Goto(r, IF inner[r] > 0 THEN "serving" ELSE "done")

Begin(r) ==
    /\ tried' = [tried EXCEPT ![r] = {}]
    /\ at' = [at EXCEPT ![r] = Nowhere]
    /\ made' = [made EXCEPT ![r] = 0]
    /\ calls' = [calls EXCEPT ![r] = 0]
    /\ sent' = [sent EXCEPT ![r] = << >>]

Count(r, field) ==
    upstream' = [upstream EXCEPT ![ProtocolOf[at[r]]][field] = @ + 1]

\* Mutant: every request is taken for a safe one.
LimitForAll(r) == Attempts

\* isSafeToRetry, for requests that Dump handles; a tunnel is always retried.
Limit(r) == IF kind[r] = "unsafe" THEN 1 ELSE Attempts

-----------------------------------------------------------------------------
(* serve *)

Serve(r, k) ==
    /\ pc[r] = "idle"
    /\ total' = total + 1
    /\ kind' = [kind EXCEPT ![r] = k]
    /\ Goto(r, IF k # "connect" THEN "dump" ELSE IF enableMITM THEN "inject" ELSE "next")
    /\ UNCHANGED <<enableMITM, usable, attempt, inner, success, failed, upstream>>

\* injectHTTPS: no certificate, or no access to the connection.
InjectFails(r) ==
    /\ pc[r] = "inject"
    /\ failed' = failed + 1
    /\ Goto(r, "done")
    /\ UNCHANGED <<enableMITM, usable, kind, attempt, inner, total, success, upstream>>

Inject(r) ==
    /\ pc[r] = "inject"
    /\ Goto(r, "serving")
    /\ UNCHANGED <<enableMITM, usable, kind, attempt, inner, global, upstream>>

\* The connection carries another request, one at a time, or is closed.
Intercept(r, k) ==
    /\ pc[r] = "serving" /\ inner[r] < MaxInner
    /\ inner' = [inner EXCEPT ![r] = @ + 1]
    /\ kind' = [kind EXCEPT ![r] = k]
    /\ Begin(r)
    /\ Goto(r, "dump")
    /\ UNCHANGED <<enableMITM, usable, global, upstream>>

ConnectionCloses(r) ==
    /\ pc[r] = "serving"
    /\ Goto(r, "done")
    /\ UNCHANGED <<enableMITM, usable, kind, attempt, inner, global, upstream>>

-----------------------------------------------------------------------------
(* The request cannot be dumped, or no (further) endpoint can be tried.    *)

\* Mutant: the failure is counted for the last upstream although it answered nothing.
GiveUpCountingUpstream(r) ==
    /\ failed' = failed + 1
    /\ IF at[r] = Nowhere THEN UNCHANGED upstream ELSE Count(r, "failed")
    /\ Return(r)
    /\ UNCHANGED <<total, success>>

GiveUp(r) ==
    /\ failed' = failed + 1
    /\ Return(r)
    /\ UNCHANGED <<total, success, upstream>>

DumpFails(r) ==
    /\ pc[r] = "dump"
    /\ GiveUp(r)
    /\ UNCHANGED <<enableMITM, usable, kind, attempt, inner>>

Dump(r) ==
    /\ pc[r] = "dump"
    /\ Goto(r, "next")
    /\ UNCHANGED <<enableMITM, usable, kind, attempt, inner, global, upstream>>

AttemptsExhausted(r) ==
    /\ pc[r] = "next" /\ made[r] >= Limit(r)
    /\ GiveUp(r)
    /\ UNCHANGED <<enableMITM, usable, kind, attempt, inner>>

-----------------------------------------------------------------------------
(* nextProxy *)

SchedulerRefuses(r) ==
    /\ pc[r] = "next" /\ made[r] < Limit(r)
    /\ GiveUp(r)
    /\ UNCHANGED <<enableMITM, usable, kind, attempt, inner>>

\* Mutant: tried is not looked at.
OfferUnchecked(r, e) ==
    /\ pc[r] = "next" /\ made[r] < Limit(r)
    /\ e \in usable
    /\ tried' = [tried EXCEPT ![r] = @ \cup {e}]
    /\ at' = [at EXCEPT ![r] = e]
    /\ made' = [made EXCEPT ![r] = @ + 1]
    /\ calls' = [calls EXCEPT ![r] = 0]
    /\ Goto(r, "attempt")
    /\ UNCHANGED <<enableMITM, usable, kind, inner, global, upstream, sent>>

Offer(r, e) ==
    /\ pc[r] = "next" /\ made[r] < Limit(r)
    /\ e \in usable /\ e \notin tried[r]
    /\ tried' = [tried EXCEPT ![r] = @ \cup {e}]
    /\ at' = [at EXCEPT ![r] = e]
    /\ made' = [made EXCEPT ![r] = @ + 1]
    /\ calls' = [calls EXCEPT ![r] = 0]
    /\ Goto(r, "attempt")
    /\ UNCHANGED <<enableMITM, usable, kind, inner, global, upstream, sent>>

\* Mutants of the duplicate branch: the loop has no bound, or is one call longer.
OfferAgainForever(r, e) ==
    /\ pc[r] = "next" /\ made[r] < Limit(r)
    /\ e \in usable /\ e \in tried[r]
    /\ calls' = [calls EXCEPT ![r] = 1 - @]
    /\ UNCHANGED <<enableMITM, usable, pc, kind, tried, at, made, sent, inner, global,
                   upstream>>

OfferAgainOnceMore(r, e) ==
    /\ pc[r] = "next" /\ made[r] < Limit(r)
    /\ e \in usable /\ e \in tried[r]
    /\ IF calls[r] = 2 * Attempts
       THEN GiveUp(r) /\ UNCHANGED calls
       ELSE /\ calls' = [calls EXCEPT ![r] = @ + 1]
            /\ UNCHANGED <<pc, global, upstream>>
    /\ UNCHANGED <<enableMITM, usable, kind, tried, at, made, sent, inner>>

\* A circuit closed while the request was under way.
OfferAgain(r, e) ==
    /\ pc[r] = "next" /\ made[r] < Limit(r)
    /\ e \in usable /\ e \in tried[r]
    /\ IF calls[r] + 1 = 2 * Attempts
       THEN GiveUp(r) /\ UNCHANGED calls
       ELSE /\ calls' = [calls EXCEPT ![r] = @ + 1]
            /\ UNCHANGED <<pc, global, upstream>>
    /\ UNCHANGED <<enableMITM, usable, kind, tried, at, made, sent, inner>>

-----------------------------------------------------------------------------
(* One attempt of replayRequest or tunnelHTTPS.                            *)

Send(r) ==
    /\ pc[r] = "attempt"
    /\ Count(r, "total")
    /\ sent' = [sent EXCEPT ![r] = Append(@, at[r])]
    /\ Goto(r, "sent")
    /\ UNCHANGED <<enableMITM, usable, kind, tried, at, made, calls, inner, global>>

\* The URI does not parse: nothing was sent, but the endpoint is reported.
Unparsable(r) ==
    /\ pc[r] = "attempt"
    /\ Goto(r, "report")
    /\ UNCHANGED <<enableMITM, usable, kind, attempt, inner, global, upstream>>

\* A request counts the failure before it reports it, a tunnel afterwards.
FailAttempt(r) ==
    IF kind[r] = "connect" THEN Goto(r, "report_and_count") /\ UNCHANGED upstream
                           ELSE Goto(r, "report") /\ Count(r, "failed")

\* No connection, a timeout, a broken answer.
AttemptFails(r) ==
    /\ pc[r] = "sent"
    /\ FailAttempt(r)
    /\ UNCHANGED <<enableMITM, usable, kind, attempt, inner, global>>

\* 407, for a tunnel 403 too: OnProxyFailure, which may fail to write the row.
ProxyRefuses(r) ==
    /\ pc[r] = "sent"
    /\ usable' \in {usable, usable \ {at[r]}}
    /\ FailAttempt(r)
    /\ UNCHANGED <<enableMITM, kind, attempt, inner, global>>

\* reportTargetFailure
Report(r) ==
    /\ \/ pc[r] = "report" /\ UNCHANGED upstream
       \/ pc[r] = "report_and_count" /\ Count(r, "failed")
    /\ usable' = usable \ {at[r]}
    /\ Goto(r, "next")
    /\ UNCHANGED <<enableMITM, kind, attempt, inner, global>>

Answered(r) ==
    /\ pc[r] = "sent"
    /\ Goto(r, "answer")
    /\ UNCHANGED <<enableMITM, usable, kind, attempt, inner, global, upstream>>

-----------------------------------------------------------------------------
(* The answer reaches the client, or the body or the client is broken.     *)

Delivered(r) ==
    /\ pc[r] = "answer"
    /\ success' = success + 1
    /\ Count(r, "success")
    /\ Return(r)
    /\ UNCHANGED <<enableMITM, usable, kind, attempt, inner, total, failed>>

\* Mutant: the failed delivery is not counted.
UndeliveredUncounted(r) ==
    /\ pc[r] = "answer"
    /\ Count(r, "failed")
    /\ Return(r)
    /\ UNCHANGED <<enableMITM, usable, kind, attempt, inner, global>>

Undelivered(r) ==
    /\ pc[r] = "answer"
    /\ failed' = failed + 1
    /\ Count(r, "failed")
    /\ Return(r)
    /\ UNCHANGED <<enableMITM, usable, kind, attempt, inner, total, success>>

-----------------------------------------------------------------------------
Handle(r) ==
    \/ InjectFails(r) \/ Inject(r)
    \/ DumpFails(r) \/ Dump(r) \/ AttemptsExhausted(r) \/ SchedulerRefuses(r)
    \/ \E e \in Endpoint : Offer(r, e) \/ OfferAgain(r, e)
    \/ Send(r) \/ Unparsable(r) \/ AttemptFails(r) \/ ProxyRefuses(r)
    \/ Report(r) \/ Answered(r) \/ Delivered(r) \/ Undelivered(r)

Client(r) ==
    \/ \E k \in Kinds : Serve(r, k)
    \/ \E k \in Kinds \ {"connect"} : Intercept(r, k)
    \/ ConnectionCloses(r)

\* The pool changes, and circuits close or are opened by others.
PoolChanges ==
    /\ \E e \in Endpoint : usable' \in {usable \cup {e}, usable \ {e}}
    /\ UNCHANGED <<enableMITM, pc, kind, attempt, inner, global, upstream>>

Next ==
    \/ \E r \in Request : Handle(r) \/ Client(r)
    \/ PoolChanges

\* Handlers run, and every network call has a deadline.
Spec == Init /\ [][Next]_vars /\ \A r \in Request : WF_vars(Handle(r))

-----------------------------------------------------------------------------
(* Properties *)

\* Every variable has its type; the loops keep their bounds.
UpstreamTypeOK ==
    /\ usable \in SUBSET Endpoint
    /\ pc \in [Request -> Labels] /\ kind \in [Request -> Kinds]
    /\ tried \in [Request -> SUBSET Endpoint]
    /\ at \in [Request -> Endpoint \cup {Nowhere}]
    /\ made \in [Request -> 0 .. Attempts]
    /\ calls \in [Request -> 0 .. 2 * Attempts - 1]
    /\ inner \in [Request -> 0 .. MaxInner]
    /\ total \in Nat /\ success \in Nat /\ failed \in Nat
    /\ upstream \in [Protocol -> Stats]
    /\ sent \in [Request -> Seq(Endpoint)]

\* Without interception every request that came in is counted as a success or a
\* failure, once, on every path to its end ("Total = Success + Failed", the
\* balance mitm.go:238 speaks of).
GlobalBalance ==
    ~enableMITM =>
        total = success + failed
                + Cardinality({r \in Request : pc[r] \notin {"idle", "done"}})

\* With interception too, no more answers are counted than requests: Snapshot
\* divides the successes by the total (request_stats.go:86-95).
AnswersAreRequests == success + failed <= total

\* The balance of the attempts of every upstream protocol, with or without
\* interception, when a request changes protocols between two attempts and when it
\* fails after its upstream answered (dump.go:28-37, 97-134; mitm.go:303-351).
UpstreamBalance ==
    \A p \in Protocol :
        upstream[p].total = upstream[p].success + upstream[p].failed
            + Cardinality({r \in Request : /\ pc[r] \in {"sent", "answer", "report_and_count"}
                                           /\ ProtocolOf[at[r]] = p})

\* Both balances at once: a path that settles one counter must not forget the other.
CountersBalance == GlobalBalance /\ UpstreamBalance

\* A retry goes through another endpoint, though circuits close and endpoints come
\* back while the request is under way (mitm.go:164-182).
RetriesElsewhere ==
    \A r \in Request : \A i, j \in 1 .. Len(sent[r]) : sent[r][i] = sent[r][j] => i = j

\* A request that is not safe to repeat is sent through one endpoint at most
\* (dump.go:98-101, 142-152).
UnsafeOnce ==
    \A r \in Request : kind[r] = "unsafe" => Len(sent[r]) <= 1

\* Every request gets its answer or its error, even if the scheduler keeps offering
\* endpoints the request has tried.
RequestsEnd ==
    \A r \in Request : pc[r] = "next" ~> pc[r] \in {"done", "serving"}
=============================================================================
