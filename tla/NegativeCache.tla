--------------------------- MODULE NegativeCache ---------------------------
(***************************************************************************)
(* What the verification loops may rely on of candidateFailures: the set of *)
(* endpoints for which isDue is false.  CrawlerState gives it to the loops,   *)
(* FailureCache is the cache itself and implements it.                    *)
(***************************************************************************)

VARIABLE backingOff

\* recordFailure: the endpoint is not due until its delay ends.
BackOff(e) == backingOff' = backingOff \cup {e}

\* clear: it is due at once.
ClearBackOff(e) == backingOff' = backingOff \ {e}

\* Delays end by themselves, none begins.
BackOffsEnd == backingOff' \in SUBSET backingOff

NoneBacksOff == backingOff = {}

BackOffNext(endpoints) ==
    \/ \E e \in endpoints : BackOff(e) \/ ClearBackOff(e)
    \/ BackOffsEnd
=============================================================================
