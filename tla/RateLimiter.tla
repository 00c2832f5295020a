---------------------------- MODULE RateLimiter ----------------------------
(***************************************************************************)
(* attemptRateLimiter (crawler/rate_limit.go): the token bucket that paces  *)
(* validation attempts.  A caller reads the clock, then takes the mutex, so *)
(* reservations may be made in another order than the clock was read.      *)
(*                                                                         *)
(* Time is in ticks, a token is worth Cost of them: the rate is 1 / Cost,   *)
(* and credit is tokens * Cost.  Half a nanosecond of rounding is left out. *)
(***************************************************************************)
EXTENDS Integers, Sequences

CONSTANTS
    Caller,     \* goroutines about to make an attempt
    Cost,       \* ticks per token
    Burst,      \* tokens the bucket holds
    Unread,     \* a caller has not read the clock
    LastTick,   \* bound: the clock
    MaxGrants   \* bound: reservations made

ASSUME RateAssumption ==
    /\ Cost \in Nat \ {0} /\ Burst \in Nat \ {0}
    /\ Unread \notin Int
    /\ LastTick \in Nat /\ MaxGrants \in Nat

VARIABLES
    tick,       \* time.Now()
    asked,      \* the time each caller has read
    credit,     \* tokens, in ticks
    last,       \* the time up to which tokens have been added, or promised
    granted     \* history: when each reservation is to be used, in their order

rateVars == <<tick, asked, credit, last, granted>>

Lesser(m, n) == IF m < n THEN m ELSE n

RateInit ==
    /\ tick = 0
    /\ asked = [c \in Caller |-> Unread]
    /\ credit = Burst * Cost
    /\ last = 0
    /\ granted = << >>

RateTick ==
    /\ tick < LastTick
    /\ tick' = tick + 1
    /\ UNCHANGED <<asked, credit, last, granted>>

\* Wait: the argument of Reserve is evaluated before the mutex is taken.
Ask(c) ==
    /\ asked[c] = Unread
    /\ asked' = [asked EXCEPT ![c] = tick]
    /\ UNCHANGED <<tick, credit, last, granted>>

\* Mutant: tokens pile up while nobody asks.
RefilledUncapped(now) == IF now < last THEN credit ELSE credit + (now - last)

\* What the bucket holds, and the time it stands at, for a caller that read now.
Refilled(now) == IF now < last THEN credit ELSE Lesser(Burst * Cost, credit + (now - last))
Base(now) == IF now < last THEN last ELSE now

\* Mutant: a token that is waited for stays in the account of the next caller.
ReserveUnpaid(c) ==
    /\ asked[c] # Unread
    /\ Len(granted) < MaxGrants
    /\ LET held == Refilled(asked[c])
           base == Base(asked[c])
           wait == IF held >= Cost THEN 0 ELSE Cost - held
       IN  /\ credit' = IF held >= Cost THEN held - Cost ELSE 0
           /\ last' = base
           /\ granted' = Append(granted, base + wait)
    /\ asked' = [asked EXCEPT ![c] = Unread]
    /\ UNCHANGED tick

\* A token that is not there yet is taken as soon as it will be.
Reserve(c) ==
    /\ asked[c] # Unread
    /\ Len(granted) < MaxGrants
    /\ LET held == Refilled(asked[c])
           base == Base(asked[c])
           wait == IF held >= Cost THEN 0 ELSE Cost - held
       IN  /\ credit' = IF held >= Cost THEN held - Cost ELSE 0
           /\ last' = base + wait
           /\ granted' = Append(granted, base + wait)
    /\ asked' = [asked EXCEPT ![c] = Unread]
    /\ UNCHANGED tick

RateNext == RateTick \/ \E c \in Caller : Ask(c) \/ Reserve(c)

RateSpec == RateInit /\ [][RateNext]_rateVars

-----------------------------------------------------------------------------
RateTypeOK ==
    /\ tick \in Nat
    /\ asked \in [Caller -> Nat \cup {Unread}]
    /\ credit \in 0 .. Burst * Cost
    /\ last \in Nat
    /\ granted \in Seq(Nat)

\* However callers race, any n successive reservations take the time of n - Burst
\* tokens: the rate is never exceeded by more than the burst (Reserve), and they
\* are used in the order they were made.
Paced ==
    \A i, j \in 1 .. Len(granted) :
        i <= j => /\ granted[i] <= granted[j]
                  /\ (j - i + 1 - Burst) * Cost <= granted[j] - granted[i]

\* The bucket holds no more than what is left of the burst after the reservations
\* since any of them.
CreditIsLeft ==
    \A i \in 1 .. Len(granted) :
        /\ granted[i] <= last
        /\ credit <= (Burst - (Len(granted) - i + 1)) * Cost + (last - granted[i])
=============================================================================
