---------------------------- MODULE OutcomeRing ----------------------------
(***************************************************************************)
(* The recent outcomes of one candidate source and the limit computed from  *)
(* them (crawler/candidate_admission.go).  Every update holds the lock of   *)
(* all counters.  The thresholds are those of the source, scaled with the   *)
(* ring: 256 outcomes, 100 samples, below 1/400, 1/200 and 1/100.           *)
(***************************************************************************)
EXTENDS Integers, Sequences, FiniteSetsExt

CONSTANTS
    RingSize,   \* len(recentOutcomes)
    Samples,    \* outcomes that are enough to judge a source
    MaxPerFetch \* configuredMaxCandidatesPerFetch

ASSUME RingAssumption ==
    /\ RingSize \in Nat \ {0} /\ Samples \in 1 .. RingSize
    /\ MaxPerFetch \in Nat \ {0}

VARIABLES
    recentOutcomes, recentCount, recentSuccess, recentIndex,
    results     \* history: the last RingSize results, in order

ring     == <<recentOutcomes, recentCount, recentSuccess, recentIndex>>
ringVars == <<ring, results>>

Places == 0 .. RingSize - 1

RingInit ==
    /\ recentOutcomes = [i \in Places |-> FALSE]
    /\ recentCount = 0 /\ recentSuccess = 0 /\ recentIndex = 0
    /\ results = << >>

Score(outcome) == IF outcome THEN 1 ELSE 0

Latest(s) == IF Len(s) > RingSize THEN Tail(s) ELSE s

\* Mutant: the outcome that is overwritten stays in the sum.
RecordKeeping(success) ==
    /\ recentCount' = IF recentCount = RingSize THEN RingSize ELSE recentCount + 1
    /\ recentSuccess' = recentSuccess + Score(success)
    /\ recentOutcomes' = [recentOutcomes EXCEPT ![recentIndex] = success]
    /\ recentIndex' = (recentIndex + 1) % RingSize
    /\ results' = Latest(Append(results, success))

\* Mutant: the index does not return to the first place.
RecordPastEnd(success) ==
    /\ IF recentCount = RingSize
       THEN /\ recentCount' = recentCount
            /\ recentSuccess' = recentSuccess + Score(success)
                                - Score(recentOutcomes[recentIndex])
       ELSE /\ recentCount' = recentCount + 1
            /\ recentSuccess' = recentSuccess + Score(success)
    /\ recentOutcomes' = [recentOutcomes EXCEPT ![recentIndex] = success]
    /\ recentIndex' = recentIndex + 1
    /\ results' = Latest(Append(results, success))

\* recordSourceCandidateResult
RecordResult(success) ==
    /\ IF recentCount = RingSize
       THEN /\ recentCount' = recentCount
            /\ recentSuccess' = recentSuccess + Score(success)
                                - Score(recentOutcomes[recentIndex])
       ELSE /\ recentCount' = recentCount + 1
            /\ recentSuccess' = recentSuccess + Score(success)
    /\ recentOutcomes' = [recentOutcomes EXCEPT ![recentIndex] = success]
    /\ recentIndex' = (recentIndex + 1) % RingSize
    /\ results' = Latest(Append(results, success))

RingNext == \E success \in BOOLEAN : RecordResult(success)

-----------------------------------------------------------------------------
\* By what a yield divides the limit, the largest counts: below 1/100 by 2, below
\* half of that by 4, below a quarter by 8.
\* Mutant: a source at a threshold is below it.
DivisorsOrEqual(count, success) ==
    {1} \cup {d \in {2, 4, 8} : count >= Samples /\ success * (d \div 2) * Samples <= count}

Divisors(count, success) ==
    {1} \cup {d \in {2, 4, 8} : count >= Samples /\ success * (d \div 2) * Samples < count}

\* sourceCandidateLimit
SourceLimit(count, success) == Max({1, MaxPerFetch \div Max(Divisors(count, success))})

-----------------------------------------------------------------------------
RingTypeOK ==
    /\ recentOutcomes \in [Places -> BOOLEAN]
    /\ recentCount \in 0 .. RingSize /\ recentSuccess \in 0 .. recentCount
    /\ recentIndex \in Places

\* The counters are those of the last RingSize results, however often the ring has
\* gone round: a result leaves the sum when its place is taken, and the place taken
\* is that of the oldest (candidate_admission.go:133-144).
RecentIsExact ==
    /\ recentCount = Len(results)
    /\ recentSuccess = Cardinality({i \in 1 .. Len(results) : results[i]})

\* A success never costs a source candidates: not when it completes the samples that
\* are judged, nor when it replaces another success; and a source always gets at least
\* one candidate per fetch, so it can recover (candidate_admission.go:63-80).
SuccessNeverCosts ==
    [][/\ SourceLimit(recentCount', recentSuccess') >= 1
       /\ RecordResult(TRUE) =>
            SourceLimit(recentCount', recentSuccess') >= SourceLimit(recentCount, recentSuccess)
      ]_ringVars
=============================================================================
