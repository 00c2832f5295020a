--------------------------- MODULE UpstreamProofs ---------------------------
(***************************************************************************)
(* Theorems about Upstream, for any numbers of requests, endpoints,        *)
(* protocols and attempts.                                                 *)
(*                                                                         *)
(* The counters: a step of a request moves that request only, so the       *)
(* requests under way change by one at most, and the counters change with  *)
(* them.  The retries: an endpoint about to be sent through is in tried,   *)
(* and was not sent through yet.                                           *)
(***************************************************************************)
EXTENDS Upstream, FiniteSetTheorems, TLAPS

AtEndpoint == {"attempt", "sent", "report", "report_and_count", "answer"}
Unanswered == {"sent", "answer", "report_and_count"}

\* The requests the two balances count, and what one request adds to them.
Busy == {r \in Request : pc[r] \notin {"idle", "done"}}
Pending(p) == {r \in Request : pc[r] \in Unanswered /\ ProtocolOf[at[r]] = p}

Occurs(b) == IF b THEN 1 ELSE 0
BusyOf(r) == Occurs(pc[r] \notin {"idle", "done"})
PendingOf(r, p) == Occurs(pc[r] \in Unanswered /\ ProtocolOf[at[r]] = p)

\* A request at an endpoint has one; connections are intercepted only where
\* the configuration says so.
Located ==
    /\ enableMITM \in BOOLEAN
    /\ \A r \in Request :
         /\ pc[r] \in AtEndpoint => at[r] \in Endpoint
         /\ ~enableMITM => inner[r] = 0 /\ pc[r] \notin {"inject", "serving"}

\* What was sent was tried before, each endpoint once, and no more often than attempted.
Retries ==
    \A r \in Request :
        /\ \A i \in 1 .. Len(sent[r]) : sent[r][i] \in tried[r]
        /\ pc[r] = "attempt" =>
             /\ at[r] \in tried[r]
             /\ \A i \in 1 .. Len(sent[r]) : sent[r][i] # at[r]
        /\ \A i, j \in 1 .. Len(sent[r]) : sent[r][i] = sent[r][j] => i = j
        /\ Len(sent[r]) <= made[r]
        /\ pc[r] = "attempt" => Len(sent[r]) < made[r]
        /\ pc[r] = "idle" => made[r] = 0
        /\ kind[r] = "unsafe" => made[r] <= 1

Finite == IsFiniteSet(Busy) /\ \A p \in Protocol : IsFiniteSet(Pending(p))

UpstreamInv ==
    /\ UpstreamTypeOK
    /\ Located
    /\ Retries
    /\ Finite
    /\ CountersBalance

-----------------------------------------------------------------------------
\* Count adds one to one counter of the protocol of the request's endpoint.
LEMMA CountType ==
    ASSUME UpstreamTypeOK, NEW r \in Request, at[r] \in Endpoint,
           NEW field \in {"total", "success", "failed"}, Count(r, field)
    PROVE  /\ upstream' \in [Protocol -> Stats]
           /\ \A p \in Protocol, f \in {"total", "success", "failed"} :
                upstream'[p][f] = upstream[p][f]
                                  + Occurs(p = ProtocolOf[at[r]] /\ f = field)
<1> DEFINE q == ProtocolOf[at[r]]
           s == upstream[q]
           t == [s EXCEPT ![field] = @ + 1]
<1>1. q \in Protocol /\ s \in Stats
  BY UpstreamAssumption DEF UpstreamTypeOK
<1>2. upstream' = [upstream EXCEPT ![q] = t]
  BY DEF Count
<1>3. /\ t \in Stats
      /\ \A f \in {"total", "success", "failed"} : t[f] = s[f] + Occurs(f = field)
  BY <1>1 DEF Stats, Occurs
<1>4. \A p \in Protocol, f \in {"total", "success", "failed"} : upstream[p][f] \in Nat
  BY DEF UpstreamTypeOK, Stats
<1> HIDE DEF q, t
<1>5. upstream' \in [Protocol -> Stats] /\ upstream'[q] = t
      /\ \A p \in Protocol : p # q => upstream'[p] = upstream[p]
  BY <1>1, <1>2, <1>3 DEF UpstreamTypeOK
<1> QED
  BY <1>1, <1>3, <1>4, <1>5 DEF Occurs, q

LEMMA TypeStep == UpstreamTypeOK /\ Located /\ [Next]_vars => UpstreamTypeOK' /\ Located'
<1> SUFFICES ASSUME UpstreamTypeOK, Located, [Next]_vars
             PROVE  UpstreamTypeOK' /\ Located'
  OBVIOUS
<1> USE UpstreamAssumption
    DEF UpstreamTypeOK, Located, AtEndpoint, Labels, Kinds, Goto, Return, GiveUp,
        attempt, global
<1>1. ASSUME NEW r \in Request, NEW k \in Kinds, Serve(r, k)
     PROVE  UpstreamTypeOK' /\ Located'
  BY <1>1 DEF Serve
<1>2. ASSUME NEW r \in Request, InjectFails(r)
     PROVE  UpstreamTypeOK' /\ Located'
  BY <1>2 DEF InjectFails
<1>3. ASSUME NEW r \in Request, Inject(r)
     PROVE  UpstreamTypeOK' /\ Located'
  BY <1>3 DEF Inject
<1>4. ASSUME NEW r \in Request, NEW k \in Kinds \ {"connect"}, Intercept(r, k)
     PROVE  UpstreamTypeOK' /\ Located'
  BY <1>4 DEF Intercept, Begin
<1>5. ASSUME NEW r \in Request, ConnectionCloses(r)
     PROVE  UpstreamTypeOK' /\ Located'
  BY <1>5 DEF ConnectionCloses
<1>6. ASSUME NEW r \in Request, DumpFails(r)
     PROVE  UpstreamTypeOK' /\ Located'
  BY <1>6 DEF DumpFails
<1>7. ASSUME NEW r \in Request, Dump(r)
     PROVE  UpstreamTypeOK' /\ Located'
  BY <1>7 DEF Dump
<1>8. ASSUME NEW r \in Request, AttemptsExhausted(r)
     PROVE  UpstreamTypeOK' /\ Located'
  BY <1>8 DEF AttemptsExhausted
<1>9. ASSUME NEW r \in Request, SchedulerRefuses(r)
     PROVE  UpstreamTypeOK' /\ Located'
  BY <1>9 DEF SchedulerRefuses
<1>10. ASSUME NEW r \in Request, NEW e \in Endpoint, Offer(r, e)
      PROVE  UpstreamTypeOK' /\ Located'
  BY <1>10 DEF Offer, Limit
<1>11. ASSUME NEW r \in Request, NEW e \in Endpoint, OfferAgain(r, e)
      PROVE  UpstreamTypeOK' /\ Located'
  <2>1. /\ pc' \in [Request -> Labels] /\ failed' \in Nat
        /\ \A x \in Request : pc'[x] = pc[x] \/ pc'[x] \in {"serving", "done"}
        /\ ~enableMITM => \A x \in Request : pc'[x] # "serving"
    <3>1. CASE pc' = pc /\ failed' = failed
      BY <3>1
    <3>2. CASE GiveUp(r)
      BY <3>2
    <3> QED
      BY <1>11, <3>1, <3>2 DEF OfferAgain
  <2>2. calls' \in [Request -> 0 .. 2 * Attempts - 1]
    <3>1. calls[r] \in 0 .. 2 * Attempts - 1 /\ Attempts \in Nat
      OBVIOUS
    <3>2. calls[r] + 1 # 2 * Attempts => calls[r] + 1 \in 0 .. 2 * Attempts - 1
      BY <3>1
    <3> QED
      BY <1>11, <3>2 DEF OfferAgain
  <2>3. UNCHANGED <<enableMITM, usable, kind, tried, at, made, sent, inner, total, success,
                    upstream>>
    BY <1>11 DEF OfferAgain
  <2> QED
    BY <2>1, <2>2, <2>3
<1>12. ASSUME NEW r \in Request, Send(r)
      PROVE  UpstreamTypeOK' /\ Located'
  <2>1. upstream' \in [Protocol -> Stats]
    BY <1>12, CountType DEF Send
  <2> QED
    BY <1>12, <2>1 DEF Send
<1>13. ASSUME NEW r \in Request, Unparsable(r)
      PROVE  UpstreamTypeOK' /\ Located'
  BY <1>13 DEF Unparsable
<1>14. ASSUME NEW r \in Request, AttemptFails(r)
      PROVE  UpstreamTypeOK' /\ Located'
  <2>1. upstream' \in [Protocol -> Stats]
    BY <1>14, CountType DEF AttemptFails, FailAttempt
  <2> QED
    BY <1>14, <2>1 DEF AttemptFails, FailAttempt
<1>15. ASSUME NEW r \in Request, ProxyRefuses(r)
      PROVE  UpstreamTypeOK' /\ Located'
  <2>1. upstream' \in [Protocol -> Stats]
    BY <1>15, CountType DEF ProxyRefuses, FailAttempt
  <2> QED
    BY <1>15, <2>1 DEF ProxyRefuses, FailAttempt
<1>16. ASSUME NEW r \in Request, Report(r)
      PROVE  UpstreamTypeOK' /\ Located'
  <2>1. upstream' \in [Protocol -> Stats]
    BY <1>16, CountType DEF Report
  <2> QED
    BY <1>16, <2>1 DEF Report
<1>17. ASSUME NEW r \in Request, Answered(r)
      PROVE  UpstreamTypeOK' /\ Located'
  BY <1>17 DEF Answered
<1>18. ASSUME NEW r \in Request, Delivered(r)
      PROVE  UpstreamTypeOK' /\ Located'
  <2>1. upstream' \in [Protocol -> Stats]
    BY <1>18, CountType DEF Delivered
  <2> QED
    BY <1>18, <2>1 DEF Delivered
<1>19. ASSUME NEW r \in Request, Undelivered(r)
      PROVE  UpstreamTypeOK' /\ Located'
  <2>1. upstream' \in [Protocol -> Stats]
    BY <1>19, CountType DEF Undelivered
  <2> QED
    BY <1>19, <2>1 DEF Undelivered
<1>20. CASE PoolChanges
  BY <1>20 DEF PoolChanges
<1>21. CASE UNCHANGED vars
  BY <1>21 DEF vars
<1> QED
  BY <1>1, <1>2, <1>3, <1>4, <1>5, <1>6, <1>7, <1>8, <1>9, <1>10, <1>11, <1>12, <1>13, <1>14, <1>15, <1>16, <1>17, <1>18, <1>19, <1>20, <1>21
     DEF Next, Handle, Client

-----------------------------------------------------------------------------
(* Retries *)

\* A step that goes on with what was tried.
LEMMA RetriesFrame ==
    ASSUME UpstreamTypeOK, Retries, UNCHANGED <<tried, at, made, sent, kind>>,
           \A r \in Request : pc'[r] = pc[r] \/ pc'[r] \notin {"attempt", "idle"}
    PROVE  Retries'
BY DEF Retries

LEMMA RetriesOffer ==
    ASSUME UpstreamTypeOK, Retries, NEW r \in Request, NEW e \in Endpoint, Offer(r, e)
    PROVE  Retries'
<1>1. \A x \in Request : Len(sent[x]) \in Nat /\ made[x] \in Nat
  BY DEF UpstreamTypeOK
<1>2. /\ tried' = [tried EXCEPT ![r] = @ \cup {e}] /\ at' = [at EXCEPT ![r] = e]
      /\ made' = [made EXCEPT ![r] = @ + 1] /\ sent' = sent /\ kind' = kind
      /\ pc' = [pc EXCEPT ![r] = "attempt"]
      /\ e \notin tried[r] /\ made[r] < Limit(r)
  BY DEF Offer, Goto
<1>3. kind[r] = "unsafe" => made[r] + 1 <= 1
  BY <1>1, <1>2 DEF Limit
<1> QED
  BY <1>1, <1>2, <1>3 DEF Retries, UpstreamTypeOK

LEMMA RetriesSend ==
    ASSUME UpstreamTypeOK, Located, Retries, NEW r \in Request, Send(r)
    PROVE  Retries'
<1>1. /\ pc[r] = "attempt" /\ at[r] \in Endpoint /\ sent[r] \in Seq(Endpoint)
      /\ pc' = [pc EXCEPT ![r] = "sent"] /\ sent' = [sent EXCEPT ![r] = Append(@, at[r])]
      /\ UNCHANGED <<kind, tried, at, made>>
  BY DEF Send, Goto, Located, AtEndpoint, UpstreamTypeOK
<1> DEFINE s == sent[r]
           t == Append(s, at[r])
<1>2. /\ Len(t) = Len(s) + 1 /\ Len(s) \in Nat
      /\ \A i \in 1 .. Len(s) : t[i] = s[i] /\ t[i] # at[r] /\ t[i] \in tried[r]
      /\ t[Len(s) + 1] = at[r] /\ at[r] \in tried[r]
      /\ \A i, j \in 1 .. Len(s) : s[i] = s[j] => i = j
      /\ Len(s) < made[r] /\ made[r] \in Nat
  BY <1>1 DEF Retries, UpstreamTypeOK
<1>3. \A i \in 1 .. Len(t) : i \in 1 .. Len(s) \/ i = Len(s) + 1
  BY <1>2
<1>4. /\ \A i \in 1 .. Len(t) : t[i] \in tried[r]
      /\ \A i, j \in 1 .. Len(t) : t[i] = t[j] => i = j
      /\ Len(t) <= made[r]
  BY <1>2, <1>3
<1> HIDE DEF t
<1>5. sent'[r] = t /\ \A x \in Request : x # r => sent'[x] = sent[x]
  BY <1>1 DEF UpstreamTypeOK, t
<1> QED
  BY <1>1, <1>4, <1>5 DEF Retries, UpstreamTypeOK

LEMMA RetriesStep ==
    UpstreamTypeOK /\ Located /\ Retries /\ [Next]_vars => Retries'
<1> SUFFICES ASSUME UpstreamTypeOK, Located, Retries, [Next]_vars
             PROVE  Retries'
  OBVIOUS
<1>1. ASSUME NEW r \in Request, NEW k \in Kinds, Serve(r, k)
      PROVE  Retries'
  <2>1. /\ pc[r] = "idle" /\ pc'[r] \in {"dump", "inject", "next"}
        /\ \A x \in Request : x # r => pc'[x] = pc[x] /\ kind'[x] = kind[x]
        /\ UNCHANGED <<tried, at, made, sent>>
    BY <1>1 DEF Serve, Goto, UpstreamTypeOK, attempt
  <2>2. made[r] = 0
    BY <2>1 DEF Retries
  <2> QED
    BY <2>1, <2>2 DEF Retries
<1>2. ASSUME NEW r \in Request, NEW k \in Kinds \ {"connect"}, Intercept(r, k)
      PROVE  Retries'
  <2>1. /\ pc'[r] = "dump" /\ sent'[r] = << >> /\ made'[r] = 0
        /\ \A x \in Request : x # r =>
             /\ pc'[x] = pc[x] /\ kind'[x] = kind[x] /\ tried'[x] = tried[x]
             /\ at'[x] = at[x] /\ made'[x] = made[x] /\ sent'[x] = sent[x]
    BY <1>2 DEF Intercept, Begin, Goto, UpstreamTypeOK
  <2> QED
    BY <2>1 DEF Retries
<1>3. ASSUME NEW r \in Request, NEW e \in Endpoint, OfferAgain(r, e)
      PROVE  Retries'
  <2>1. UNCHANGED <<tried, at, made, sent, kind>>
    BY <1>3 DEF OfferAgain
  <2>2. \A x \in Request : pc'[x] = pc[x] \/ pc'[x] \notin {"attempt", "idle"}
    BY <1>3 DEF OfferAgain, GiveUp, Return, Goto, UpstreamTypeOK
  <2> QED
    BY <2>1, <2>2, RetriesFrame
<1>4. ASSUME NEW r \in Request,
             \/ InjectFails(r) \/ Inject(r) \/ ConnectionCloses(r)
             \/ DumpFails(r) \/ Dump(r) \/ AttemptsExhausted(r) \/ SchedulerRefuses(r)
             \/ Unparsable(r) \/ AttemptFails(r) \/ ProxyRefuses(r) \/ Report(r)
             \/ Answered(r) \/ Delivered(r) \/ Undelivered(r)
      PROVE  Retries'
  <2>1. UNCHANGED <<tried, at, made, sent, kind>>
    BY <1>4 DEF InjectFails, Inject, ConnectionCloses, DumpFails, Dump, AttemptsExhausted,
                SchedulerRefuses, Unparsable, AttemptFails, ProxyRefuses, Report, Answered,
                Delivered, Undelivered, attempt
  <2>2. \E l : pc' = [pc EXCEPT ![r] = l] /\ l \notin {"attempt", "idle"}
    BY <1>4 DEF InjectFails, Inject, ConnectionCloses, DumpFails, Dump, AttemptsExhausted,
                SchedulerRefuses, Unparsable, AttemptFails, ProxyRefuses, Report, Answered,
                Delivered, Undelivered, GiveUp, FailAttempt, Return, Goto
  <2>3. \A x \in Request : pc'[x] = pc[x] \/ pc'[x] \notin {"attempt", "idle"}
    BY <2>2 DEF UpstreamTypeOK
  <2> QED
    BY <2>1, <2>3, RetriesFrame
<1>5. CASE PoolChanges \/ UNCHANGED vars
  BY <1>5, RetriesFrame DEF PoolChanges, vars, attempt
<1> QED
  BY <1>1, <1>2, <1>3, <1>4, <1>5, RetriesOffer, RetriesSend DEF Next, Handle, Client

-----------------------------------------------------------------------------
(* Counters *)

\* A step of r leaves the other requests where they are.
Moves(r) == \A x \in Request \ {r} : pc'[x] = pc[x] /\ at'[x] = at[x]

\* A set that gains or loses at most r counts what r counts.
LEMMA CountOne ==
    ASSUME NEW S, NEW T, NEW r, IsFiniteSet(S), S \ {r} = T \ {r}
    PROVE  /\ IsFiniteSet(T) /\ Cardinality(S) \in Nat
           /\ Cardinality(T) = Cardinality(S) + Occurs(r \in T) - Occurs(r \in S)
<1>1. IsFiniteSet(S \ {r}) /\ Cardinality(S) \in Nat
      /\ Cardinality(S \ {r}) = Cardinality(S) - Occurs(r \in S)
  BY FS_RemoveElement, FS_CardinalityType DEF Occurs
<1>2. CASE r \in T
  <2>1. T = (S \ {r}) \cup {r} /\ r \notin S \ {r}
    BY <1>2
  <2>2. IsFiniteSet(T) /\ Cardinality(T) = Cardinality(S \ {r}) + 1
    BY <1>1, <2>1, FS_AddElement
  <2> QED
    BY <1>1, <1>2, <2>2 DEF Occurs
<1>3. CASE r \notin T
  <2>1. T = S \ {r}
    BY <1>3
  <2> QED
    BY <1>1, <1>3, <2>1 DEF Occurs
<1> QED
  BY <1>2, <1>3

LEMMA BusyCount ==
    ASSUME Finite, NEW r \in Request, Moves(r)
    PROVE  /\ IsFiniteSet(Busy') /\ Cardinality(Busy) \in Nat
           /\ Cardinality(Busy') = Cardinality(Busy) + BusyOf(r)' - BusyOf(r)
<1>1. Busy \ {r} = Busy' \ {r}
  BY DEF Busy, Moves
<1>2. /\ IsFiniteSet(Busy') /\ Cardinality(Busy) \in Nat
      /\ Cardinality(Busy') = Cardinality(Busy) + Occurs(r \in Busy') - Occurs(r \in Busy)
  BY <1>1, CountOne DEF Finite
<1> QED
  BY <1>2 DEF Busy, BusyOf, Occurs

LEMMA PendingCount ==
    ASSUME Finite, NEW r \in Request, Moves(r), NEW p \in Protocol
    PROVE  /\ IsFiniteSet(Pending(p)') /\ Cardinality(Pending(p)) \in Nat
           /\ Cardinality(Pending(p)') =
                Cardinality(Pending(p)) + PendingOf(r, p)' - PendingOf(r, p)
<1>1. Pending(p) \ {r} = Pending(p)' \ {r}
  BY DEF Pending, Moves
<1>2. /\ IsFiniteSet(Pending(p)') /\ Cardinality(Pending(p)) \in Nat
      /\ Cardinality(Pending(p)') =
           Cardinality(Pending(p)) + Occurs(r \in Pending(p)') - Occurs(r \in Pending(p))
  BY <1>1, CountOne DEF Finite
<1> QED
  BY <1>2 DEF Pending, PendingOf, Occurs

\* What a step of r must do to the counters to keep the balances.
Settles(r) ==
    /\ enableMITM' = enableMITM
    /\ Moves(r)
    /\ ~enableMITM =>
         total' - total = (success' - success) + (failed' - failed) + BusyOf(r)' - BusyOf(r)
    /\ \A p \in Protocol :
         upstream'[p].total - upstream[p].total =
           (upstream'[p].success - upstream[p].success)
           + (upstream'[p].failed - upstream[p].failed)
           + PendingOf(r, p)' - PendingOf(r, p)

LEMMA BalanceKept ==
    \A t1, s1, f1, n1, t2, s2, f2, n2, b1, b2 \in Int :
        /\ t1 = s1 + f1 + n1
        /\ n2 = n1 + b2 - b1
        /\ t2 - t1 = (s2 - s1) + (f2 - f1) + b2 - b1
        => t2 = s2 + f2 + n2
OBVIOUS

LEMMA SettlesKeepsBalance ==
    ASSUME UpstreamTypeOK, UpstreamTypeOK', Finite, CountersBalance,
           NEW r \in Request, Settles(r)
    PROVE  Finite' /\ CountersBalance'
<1>1. Finite'
  BY BusyCount, PendingCount DEF Settles, Finite
<1>2. ASSUME ~enableMITM'
      PROVE  total' = success' + failed' + Cardinality(Busy')
  <2>1. Cardinality(Busy') = Cardinality(Busy) + BusyOf(r)' - BusyOf(r)
        /\ Cardinality(Busy) \in Nat
    BY BusyCount DEF Settles
  <2>2. total = success + failed + Cardinality(Busy)
    BY <1>2 DEF Settles, CountersBalance, GlobalBalance, Busy
  <2>3. BusyOf(r) \in Int /\ BusyOf(r)' \in Int
    BY DEF BusyOf, Occurs
  <2>4. total' - total = (success' - success) + (failed' - failed) + BusyOf(r)' - BusyOf(r)
    BY <1>2 DEF Settles
  <2>5. /\ total \in Nat /\ success \in Nat /\ failed \in Nat
        /\ total' \in Nat /\ success' \in Nat /\ failed' \in Nat
    BY DEF UpstreamTypeOK
  <2>6. Cardinality(Busy') \in Int
    BY <2>1, <2>3
  <2> QED
    BY <2>1, <2>2, <2>3, <2>4, <2>5, <2>6, BalanceKept
<1>3. ASSUME NEW p \in Protocol
      PROVE  upstream'[p].total =
               upstream'[p].success + upstream'[p].failed + Cardinality(Pending(p)')
  <2>1. Cardinality(Pending(p)') = Cardinality(Pending(p)) + PendingOf(r, p)' - PendingOf(r, p)
        /\ Cardinality(Pending(p)) \in Nat
    BY PendingCount DEF Settles
  <2>2. upstream[p].total = upstream[p].success + upstream[p].failed + Cardinality(Pending(p))
    BY DEF CountersBalance, UpstreamBalance, Pending, Unanswered
  <2>3. upstream[p] \in Stats /\ upstream'[p] \in Stats
    BY DEF UpstreamTypeOK
  <2>4. PendingOf(r, p) \in {0, 1} /\ PendingOf(r, p)' \in {0, 1}
    BY DEF PendingOf, Occurs
  <2>5. upstream'[p].total - upstream[p].total =
          (upstream'[p].success - upstream[p].success)
          + (upstream'[p].failed - upstream[p].failed)
          + PendingOf(r, p)' - PendingOf(r, p)
    BY DEF Settles
  <2>6. /\ upstream[p].total \in Int /\ upstream[p].success \in Int /\ upstream[p].failed \in Int
        /\ upstream'[p].total \in Int /\ upstream'[p].success \in Int
        /\ upstream'[p].failed \in Int
    BY <2>3 DEF Stats
  <2>7. Cardinality(Pending(p)') \in Int /\ PendingOf(r, p) \in Int /\ PendingOf(r, p)' \in Int
    BY <2>1, <2>4
  <2> QED
    BY <2>1, <2>2, <2>5, <2>6, <2>7, BalanceKept
<1> QED
  BY <1>1, <1>2, <1>3 DEF CountersBalance, GlobalBalance, UpstreamBalance, Busy, Pending, Unanswered

\* What a step of r to statement l does to the global counters: it leaves them and r
\* as busy as it was, or it counts a request that came in or one that ends.
Accounts(r, l) ==
    \/ /\ UNCHANGED global
       /\ enableMITM \/ (pc[r] \in {"idle", "done"} <=> l \in {"idle", "done"})
    \/ /\ total' = total + 1 /\ UNCHANGED <<success, failed>>
       /\ pc[r] = "idle" /\ l \notin {"idle", "done"}
    \/ /\ \/ success' = success + 1 /\ failed' = failed
          \/ failed' = failed + 1 /\ success' = success
       /\ total' = total
       /\ enableMITM \/ (pc[r] \notin {"idle", "done"} /\ l = "done")

LEMMA AccountsBalance ==
    ASSUME UpstreamTypeOK, NEW r \in Request, NEW l, Accounts(r, l), pc'[r] = l, ~enableMITM
    PROVE  total' - total = (success' - success) + (failed' - failed) + BusyOf(r)' - BusyOf(r)
<1>1. /\ total \in Int /\ success \in Int /\ failed \in Int
      /\ BusyOf(r) = Occurs(pc[r] \notin {"idle", "done"})
      /\ BusyOf(r)' = Occurs(l \notin {"idle", "done"})
  BY DEF UpstreamTypeOK, BusyOf
<1>2. CASE UNCHANGED global
  BY <1>1, <1>2 DEF Accounts, Occurs, global
<1>3. CASE total' = total + 1 /\ UNCHANGED <<success, failed>>
  BY <1>1, <1>3 DEF Accounts, Occurs, global
<1>4. CASE total' = total /\ success' = success + 1 /\ failed' = failed
  BY <1>1, <1>4 DEF Accounts, Occurs, global
<1>5. CASE total' = total /\ failed' = failed + 1 /\ success' = success
  BY <1>1, <1>5 DEF Accounts, Occurs, global
<1> QED
  BY <1>2, <1>3, <1>4, <1>5 DEF Accounts

\* A step that makes r busy, or no longer, and counts it as the global counters want;
\* the endpoint it is at is owed nothing before or after.
LEMMA SettlesGlobally ==
    ASSUME UpstreamTypeOK, NEW r \in Request, NEW l,
           pc' = [pc EXCEPT ![r] = l], pc[r] \notin Unanswered, l \notin Unanswered,
           \A x \in Request \ {r} : at'[x] = at[x],
           UNCHANGED <<enableMITM, upstream>>,
           Accounts(r, l)
    PROVE  Settles(r)
<1>1. pc'[r] = l /\ \A x \in Request \ {r} : pc'[x] = pc[x]
  BY DEF UpstreamTypeOK
<1>2. \A p \in Protocol : PendingOf(r, p) = 0 /\ PendingOf(r, p)' = 0
  BY <1>1 DEF PendingOf, Occurs
<1>3. \A p \in Protocol : upstream[p] \in Stats
  BY DEF UpstreamTypeOK
<1> QED
  BY <1>1, <1>2, <1>3, AccountsBalance DEF Settles, Moves, Stats

\* A step that counts an attempt, or its end, for the protocol r is at.
LEMMA SettlesUpstream ==
    ASSUME UpstreamTypeOK, Located, NEW r \in Request, NEW l, NEW field,
           pc' = [pc EXCEPT ![r] = l], pc[r] \in AtEndpoint, at' = at,
           \/ pc[r] \notin Unanswered /\ l \in Unanswered /\ field = "total"
           \/ pc[r] \in Unanswered /\ l \notin Unanswered /\ field \in {"success", "failed"},
           Count(r, field), enableMITM' = enableMITM,
           Accounts(r, l)
    PROVE  Settles(r)
<1>1. pc'[r] = l /\ \A x \in Request \ {r} : pc'[x] = pc[x]
  BY DEF UpstreamTypeOK
<1>2. ASSUME NEW p \in Protocol
      PROVE  upstream'[p].total - upstream[p].total =
               (upstream'[p].success - upstream[p].success)
               + (upstream'[p].failed - upstream[p].failed)
               + PendingOf(r, p)' - PendingOf(r, p)
  <2>1. at[r] \in Endpoint /\ field \in {"total", "success", "failed"}
    BY DEF Located, AtEndpoint
  <2>2. \A f \in {"total", "success", "failed"} :
          upstream'[p][f] = upstream[p][f] + Occurs(p = ProtocolOf[at[r]] /\ f = field)
    BY <2>1, CountType
  <2>3. /\ upstream'[p].total = upstream[p].total
             + Occurs(p = ProtocolOf[at[r]] /\ field = "total")
        /\ upstream'[p].success = upstream[p].success
             + Occurs(p = ProtocolOf[at[r]] /\ field = "success")
        /\ upstream'[p].failed = upstream[p].failed
             + Occurs(p = ProtocolOf[at[r]] /\ field = "failed")
        /\ upstream[p].total \in Nat /\ upstream[p].success \in Nat /\ upstream[p].failed \in Nat
    BY <2>2 DEF UpstreamTypeOK, Stats
  <2>4. /\ PendingOf(r, p) = Occurs(pc[r] \in Unanswered /\ p = ProtocolOf[at[r]])
        /\ PendingOf(r, p)' = Occurs(l \in Unanswered /\ p = ProtocolOf[at[r]])
    BY <1>1 DEF PendingOf, Occurs
  <2> QED
    BY <2>3, <2>4 DEF Occurs
<1> QED
  BY <1>1, <1>2, AccountsBalance DEF Settles, Moves

\* A step between two statements at which the endpoint still owes its outcome.
LEMMA SettlesStill ==
    ASSUME UpstreamTypeOK, NEW r \in Request, NEW l,
           pc' = [pc EXCEPT ![r] = l], pc[r] \in Unanswered, l \in Unanswered, at' = at,
           UNCHANGED <<enableMITM, upstream, global>>
    PROVE  Settles(r)
<1>1. pc'[r] = l /\ \A x \in Request \ {r} : pc'[x] = pc[x]
  BY DEF UpstreamTypeOK
<1>2. BusyOf(r) = 1 /\ BusyOf(r)' = 1
  BY <1>1 DEF BusyOf, Occurs, Unanswered
<1>3. \A p \in Protocol : upstream[p] \in Stats /\ PendingOf(r, p)' = PendingOf(r, p)
  BY <1>1 DEF PendingOf, Occurs, UpstreamTypeOK
<1>4. \A p \in Protocol : PendingOf(r, p) \in Int
  BY DEF PendingOf, Occurs
<1> QED
  BY <1>1, <1>2, <1>3, <1>4 DEF Settles, Moves, Stats, global, UpstreamTypeOK

\* Every step of a request keeps the balances: it leaves both counters alone, or counts
\* what it changes.
LEMMA HandleSettles ==
    ASSUME UpstreamTypeOK, Located, NEW r \in Request, Handle(r)
    PROVE  Settles(r)
<1> USE DEF Goto, attempt, global, Unanswered, AtEndpoint, Accounts
<1>1. CASE InjectFails(r)
  BY <1>1, SettlesGlobally DEF InjectFails
<1>2. CASE Inject(r)
  BY <1>2, SettlesGlobally DEF Inject
<1>3. ASSUME GiveUp(r), pc[r] \in {"dump", "next"}, UNCHANGED <<enableMITM, at>>
      PROVE  Settles(r)
  <2>1. ~enableMITM => inner[r] = 0
    BY DEF Located
  <2> DEFINE l == IF inner[r] > 0 THEN "serving" ELSE "done"
  <2>2. /\ pc' = [pc EXCEPT ![r] = l] /\ l \in {"serving", "done"}
        /\ ~enableMITM => l = "done"
        /\ failed' = failed + 1 /\ UNCHANGED <<total, success, upstream>>
    BY <1>3, <2>1 DEF GiveUp, Return
  <2> HIDE DEF l
  <2>3. Accounts(r, l) /\ pc[r] \notin Unanswered /\ l \notin Unanswered
    BY <1>3, <2>2
  <2>4. \A x \in Request \ {r} : at'[x] = at[x]
    BY <1>3
  <2> QED
    BY <1>3, <2>2, <2>3, <2>4, SettlesGlobally DEF GiveUp
<1>4. CASE DumpFails(r) \/ AttemptsExhausted(r) \/ SchedulerRefuses(r)
  BY <1>3, <1>4 DEF DumpFails, AttemptsExhausted, SchedulerRefuses
<1>5. CASE Dump(r)
  BY <1>5, SettlesGlobally DEF Dump
<1>6. ASSUME NEW e \in Endpoint, Offer(r, e)
      PROVE  Settles(r)
  <2>1. \A x \in Request \ {r} : at'[x] = at[x]
    BY <1>6 DEF Offer, UpstreamTypeOK
  <2> QED
    BY <1>6, <2>1, SettlesGlobally DEF Offer
<1>7. ASSUME NEW e \in Endpoint, OfferAgain(r, e)
      PROVE  Settles(r)
  <2>1. pc[r] = "next" /\ UNCHANGED <<enableMITM, at>>
    BY <1>7 DEF OfferAgain
  <2>2. CASE UNCHANGED <<pc, global, upstream>>
    <3>1. pc' = [pc EXCEPT ![r] = "next"]
      BY <2>1, <2>2 DEF UpstreamTypeOK
    <3> QED
      BY <2>1, <2>2, <3>1, SettlesGlobally
  <2> QED
    BY <1>3, <1>7, <2>1, <2>2 DEF OfferAgain
<1>8. CASE Send(r)
  BY <1>8, SettlesUpstream DEF Send
<1>9. CASE Unparsable(r)
  BY <1>9, SettlesGlobally DEF Unparsable
<1>10. CASE AttemptFails(r) \/ ProxyRefuses(r)
  <2>1. pc[r] = "sent" /\ FailAttempt(r) /\ UNCHANGED <<enableMITM, at, global>>
    BY <1>10 DEF AttemptFails, ProxyRefuses
  <2>2. CASE kind[r] = "connect"
    BY <2>1, <2>2, SettlesStill DEF FailAttempt
  <2>3. CASE kind[r] # "connect"
    BY <2>1, <2>3, SettlesUpstream DEF FailAttempt
  <2> QED
    BY <2>2, <2>3
<1>11. CASE Report(r)
  <2>1. CASE pc[r] = "report"
    BY <1>11, <2>1, SettlesGlobally DEF Report
  <2>2. CASE pc[r] = "report_and_count"
    BY <1>11, <2>2, SettlesUpstream DEF Report
  <2> QED
    BY <1>11, <2>1, <2>2 DEF Report
<1>12. CASE Answered(r)
  BY <1>12, SettlesStill DEF Answered
<1>13. CASE Delivered(r) \/ Undelivered(r)
  <2> DEFINE l == IF inner[r] > 0 THEN "serving" ELSE "done"
  <2>1. /\ pc[r] = "answer" /\ pc' = [pc EXCEPT ![r] = l] /\ l \in {"serving", "done"}
        /\ ~enableMITM => l = "done"
        /\ UNCHANGED <<enableMITM, at, total>>
    BY <1>13 DEF Delivered, Undelivered, Return, Located
  <2> HIDE DEF l
  <2>2. CASE Count(r, "success") /\ success' = success + 1 /\ failed' = failed
    <3>1. Accounts(r, l)
      BY <2>1, <2>2
    <3> QED
      BY <2>1, <2>2, <3>1, SettlesUpstream
  <2>3. CASE Count(r, "failed") /\ failed' = failed + 1 /\ success' = success
    <3>1. Accounts(r, l)
      BY <2>1, <2>3
    <3> QED
      BY <2>1, <2>3, <3>1, SettlesUpstream
  <2> QED
    BY <1>13, <2>2, <2>3 DEF Delivered, Undelivered
<1> QED
  BY <1>1, <1>2, <1>4, <1>5, <1>6, <1>7, <1>8, <1>9, <1>10, <1>11, <1>12, <1>13 DEF Handle

LEMMA ClientSettles ==
    ASSUME UpstreamTypeOK, Located, NEW r \in Request, Client(r)
    PROVE  Settles(r)
<1> USE DEF Goto, attempt, global, Unanswered, Accounts
<1>1. ASSUME NEW k \in Kinds, Serve(r, k)
      PROVE  Settles(r)
  <2> DEFINE l == IF k # "connect" THEN "dump" ELSE IF enableMITM THEN "inject" ELSE "next"
  <2>1. l \notin Unanswered \cup {"idle", "done"} /\ pc' = [pc EXCEPT ![r] = l]
    BY <1>1 DEF Serve
  <2> HIDE DEF l
  <2> QED
    BY <1>1, <2>1, SettlesGlobally DEF Serve
<1>2. ASSUME NEW k \in Kinds \ {"connect"}, Intercept(r, k)
      PROVE  Settles(r)
  <2>1. \A x \in Request \ {r} : at'[x] = at[x]
    BY <1>2 DEF Intercept, Begin, UpstreamTypeOK
  <2> QED
    BY <1>2, <2>1, SettlesGlobally DEF Intercept
<1>3. CASE ConnectionCloses(r)
  <2>1. enableMITM
    BY <1>3 DEF ConnectionCloses, Located
  <2> QED
    BY <1>3, <2>1, SettlesGlobally DEF ConnectionCloses
<1> QED
  BY <1>1, <1>2, <1>3 DEF Client

-----------------------------------------------------------------------------
LEMMA UpstreamInit == Init => UpstreamInv
<1> SUFFICES ASSUME Init PROVE UpstreamInv
  OBVIOUS
<1>1. UpstreamTypeOK /\ Located
  BY UpstreamAssumption
     DEF Init, UpstreamTypeOK, Located, AtEndpoint, Labels, Kinds, Stats
<1>2. Retries
  BY DEF Init, Retries
<1>3. Busy = {} /\ \A p \in Protocol : Pending(p) = {}
  BY DEF Init, Busy, Pending, Unanswered
<1>4. Finite /\ Cardinality(Busy) = 0 /\ \A p \in Protocol : Cardinality(Pending(p)) = 0
  BY <1>3, FS_EmptySet DEF Finite
<1>5. CountersBalance
  BY <1>4 DEF Init, CountersBalance, GlobalBalance, UpstreamBalance, Busy, Pending, Unanswered
<1> QED
  BY <1>1, <1>2, <1>4, <1>5 DEF UpstreamInv

LEMMA UpstreamStep == UpstreamInv /\ [Next]_vars => UpstreamInv'
<1> SUFFICES ASSUME UpstreamInv, [Next]_vars PROVE UpstreamInv'
  OBVIOUS
<1>1. UpstreamTypeOK' /\ Located' /\ Retries'
  BY TypeStep, RetriesStep DEF UpstreamInv
<1>2. ASSUME NEW r \in Request, Handle(r) \/ Client(r)
      PROVE  Finite' /\ CountersBalance'
  BY <1>1, <1>2, HandleSettles, ClientSettles, SettlesKeepsBalance DEF UpstreamInv
<1>3. CASE PoolChanges \/ UNCHANGED vars
  <2>1. UNCHANGED <<enableMITM, pc, at, global, upstream>>
    BY <1>3 DEF PoolChanges, vars, attempt
  <2>2. Busy' = Busy /\ \A p \in Protocol : Pending(p)' = Pending(p)
    BY <2>1 DEF Busy, Pending
  <2>3. Finite'
    BY <2>2 DEF UpstreamInv, Finite
  <2>4. GlobalBalance'
    <3>1. ~enableMITM => total = success + failed + Cardinality(Busy)
      BY DEF UpstreamInv, CountersBalance, GlobalBalance, Busy
    <3>2. ~enableMITM' => total' = success' + failed' + Cardinality(Busy')
      BY <2>1, <2>2, <3>1 DEF global
    <3> QED
      BY <3>2 DEF GlobalBalance, Busy
  <2>5. UpstreamBalance'
    <3>1. \A p \in Protocol :
            upstream[p].total = upstream[p].success + upstream[p].failed + Cardinality(Pending(p))
      BY DEF UpstreamInv, CountersBalance, UpstreamBalance, Pending, Unanswered
    <3>2. \A p \in Protocol :
            upstream'[p].total =
              upstream'[p].success + upstream'[p].failed + Cardinality(Pending(p)')
      BY <2>1, <2>2, <3>1
    <3> QED
      BY <3>2 DEF UpstreamBalance, Pending, Unanswered
  <2> QED
    BY <1>1, <2>3, <2>4, <2>5 DEF CountersBalance, UpstreamInv
<1> QED
  BY <1>1, <1>2, <1>3 DEF Next, UpstreamInv

LEMMA UpstreamInvariant == Spec => []UpstreamInv
BY UpstreamInit, UpstreamStep, PTL DEF Spec

\* The loops over endpoints stay within their limits and every counter is a number.
THEOREM UpstreamTypeCorrect == Spec => []UpstreamTypeOK
<1>1. UpstreamInv => UpstreamTypeOK
  BY DEF UpstreamInv
<1> QED
  BY <1>1, UpstreamInvariant, PTL

\* Whatever path each request takes to its end, the global counters and those of every
\* upstream protocol balance at every moment.
THEOREM CountersAlwaysBalance == Spec => []CountersBalance
<1>1. UpstreamInv => CountersBalance
  BY DEF UpstreamInv
<1> QED
  BY <1>1, UpstreamInvariant, PTL

\* No request is sent twice through the same endpoint, whatever the scheduler offers.
THEOREM RetriesAlwaysElsewhere == Spec => []RetriesElsewhere
<1>1. UpstreamInv => RetriesElsewhere
  BY DEF UpstreamInv, Retries, RetriesElsewhere
<1> QED
  BY <1>1, UpstreamInvariant, PTL

\* A request that is not safe to repeat is sent through one endpoint at most.
THEOREM UnsafeAlwaysOnce == Spec => []UnsafeOnce
<1>1. UpstreamInv => UnsafeOnce
  BY DEF UpstreamInv, UpstreamTypeOK, Retries, UnsafeOnce
<1> QED
  BY <1>1, UpstreamInvariant, PTL
=============================================================================
